---------------------------- MODULE GeocodeCache ----------------------------
(***************************************************************************)
(* POST /v0/validate: Google Maps geocoding behind a lazy SQLite cache     *)
(* (service/geocode.go, database/google_maps.go, the geocode handler).     *)
(* A request looks its canonical body up, on a miss calls Google or, in    *)
(* mock mode, makes up a 404, stores the payload and answers, all of it    *)
(* under one mutex.  The cache outlives the process; the mode is chosen    *)
(* anew at every start.                                                    *)
(***************************************************************************)
EXTENDS Naturals, FiniteSets

CONSTANTS Requests,   \* POST /v0/validate requests
          Bodies,     \* canonical bodies: white space runs made one blank
          BodyOf,     \* the canonical body of each request
          Nobody,     \* no request: the mutex is free
          None        \* no payload

\* What Google may answer with 200 or 404: two results that differ, "nothing
\* found" as JSON, and bytes that are not JSON.
Answers  == {"resultA", "resultB", "nothing", "broken"}
Payloads == Answers \union {"fake"}      \* mockNotFoundResponse

ASSUME CacheAssumption == /\ BodyOf \in [Requests -> Bodies]
                          /\ Nobody \notin Requests
                          /\ None \notin Payloads

VARIABLES
  mock,      \* GOOGLE_MAPS_API_MOCK of the running process
  cache,     \* table google_maps_cache: the payload stored for each body
  lock,      \* googleMapsMu
  request,   \* where each request is
  payload,   \* the payload a request has in hand
  status,    \* the HTTP status a request was answered with, 0 before that
  lived,     \* history: the mode of the process that answered a request
  calls      \* history: the calls Google answered, by body

vars == <<mock, cache, lock, request, payload, status, lived, calls>>

RequestStates == {"new", "waiting", "lookup", "calling", "storing",
                  "answering", "done"}
Critical      == {"lookup", "calling", "storing", "answering"}
Modes         == {"none", "mock", "live"}

\* buildGeocodeResponse decides 200 or 404 from the payload alone; a payload
\* that is not JSON fails in the encoder of the response: 500.
StatusOf(p) == CASE p \in {"resultA", "resultB"} -> 200
                 [] p \in {"nothing", "fake"}    -> 404
                 [] p = "broken"                 -> 500

Init == /\ mock \in BOOLEAN
        /\ cache = [b \in Bodies |-> None]
        /\ lock = Nobody
        /\ request = [r \in Requests |-> "new"]
        /\ payload = [r \in Requests |-> None]
        /\ status = [r \in Requests |-> 0]
        /\ lived = [r \in Requests |-> "none"]
        /\ calls = [b \in Bodies |-> 0]

Go(r, s) == request' = [request EXCEPT ![r] = s]

\* The answer leaves the process.
Finish(r, code) ==
  /\ Go(r, "done")
  /\ status' = [status EXCEPT ![r] = code]
  /\ lived' = [lived EXCEPT ![r] = IF mock THEN "mock" ELSE "live"]

\* Slip: an early return without the Unlock.
GiveUpLocked(r) ==
  /\ Finish(r, 500)
  /\ payload' = [payload EXCEPT ![r] = None]
  /\ UNCHANGED lock

\* An error under the mutex: 500, and the deferred Unlock runs.
GiveUp(r) ==
  /\ Finish(r, 500)
  /\ payload' = [payload EXCEPT ![r] = None]
  /\ lock' = Nobody
-----------------------------------------------------------------------------

\* Slip: a status the route does not declare.
RejectUndeclared(r) ==
  /\ request[r] = "new"
  /\ Finish(r, 422)
  /\ UNCHANGED <<mock, cache, lock, payload, calls>>

\* Bind, Validate or the Unmarshal of the canonical body refuses the request.
Reject(r) ==
  /\ request[r] = "new"
  /\ Finish(r, 400)
  /\ UNCHANGED <<mock, cache, lock, payload, calls>>

Arrive(r) ==
  /\ request[r] = "new"
  /\ Go(r, "waiting")
  /\ UNCHANGED <<mock, cache, lock, payload, status, lived, calls>>

\* Slip: no mutex.
AcquireAnyway(r) ==
  /\ request[r] = "waiting"
  /\ lock' = r
  /\ Go(r, "lookup")
  /\ UNCHANGED <<mock, cache, payload, status, lived, calls>>

Acquire(r) ==
  /\ request[r] = "waiting"
  /\ lock = Nobody
  /\ lock' = r
  /\ Go(r, "lookup")
  /\ UNCHANGED <<mock, cache, payload, status, lived, calls>>

Hit(r) ==
  /\ request[r] = "lookup"
  /\ cache[BodyOf[r]] # None
  /\ payload' = [payload EXCEPT ![r] = cache[BodyOf[r]]]
  /\ Go(r, "answering")
  /\ UNCHANGED <<mock, cache, lock, status, lived, calls>>

MissMocked(r) ==
  /\ request[r] = "lookup"
  /\ cache[BodyOf[r]] = None
  /\ mock
  /\ payload' = [payload EXCEPT ![r] = "fake"]
  /\ Go(r, "storing")
  /\ UNCHANGED <<mock, cache, lock, status, lived, calls>>

\* Slip: the mutex is released for the time of the call.
MissLiveUnlocked(r) ==
  /\ request[r] = "lookup"
  /\ cache[BodyOf[r]] = None
  /\ ~mock
  /\ lock' = Nobody
  /\ Go(r, "calling")
  /\ UNCHANGED <<mock, cache, payload, status, lived, calls>>

MissLive(r) ==
  /\ request[r] = "lookup"
  /\ cache[BodyOf[r]] = None
  /\ ~mock
  /\ Go(r, "calling")
  /\ UNCHANGED <<mock, cache, lock, payload, status, lived, calls>>

\* The table cannot be read, or the client is gone and its ctx done.
LookupFails(r) ==
  /\ request[r] = "lookup"
  /\ GiveUp(r)
  /\ UNCHANGED <<mock, cache, calls>>

\* Google answers 200 or 404: either way the body is what gets stored.
CallAnswered(r, p) ==
  /\ request[r] = "calling"
  /\ payload' = [payload EXCEPT ![r] = p]
  /\ calls' = [calls EXCEPT ![BodyOf[r]] = @ + 1]
  /\ Go(r, "storing")
  /\ UNCHANGED <<mock, cache, lock, status, lived>>

\* Another status, a network error, ten seconds without an answer, or the
\* client is gone.
CallFails(r) ==
  /\ request[r] = "calling"
  /\ GiveUp(r)
  /\ UNCHANGED <<mock, cache, calls>>

Store(r) ==
  /\ request[r] = "storing"
  /\ cache' = [cache EXCEPT ![BodyOf[r]] = payload[r]]
  /\ Go(r, "answering")
  /\ UNCHANGED <<mock, lock, payload, status, lived, calls>>

\* The upsert reports an error, for instance because the client is gone; an
\* interrupted statement may have been committed all the same.
StoreFails(r) ==
  /\ request[r] = "storing"
  /\ \/ UNCHANGED cache
     \/ cache' = [cache EXCEPT ![BodyOf[r]] = payload[r]]
  /\ GiveUp(r)
  /\ UNCHANGED <<mock, calls>>

Answer(r) ==
  /\ request[r] = "answering"
  /\ Finish(r, StatusOf(payload[r]))
  /\ lock' = Nobody
  /\ UNCHANGED <<mock, cache, payload, calls>>

Serve(r) == \/ Hit(r) \/ MissMocked(r) \/ MissLive(r) \/ LookupFails(r)
            \/ \E p \in Answers : CallAnswered(r, p)
            \/ CallFails(r) \/ Store(r) \/ StoreFails(r) \/ Answer(r)

\* The process ends, at any point, and another one starts, in either mode:
\* requests under way are cut off, the table stays.
Restart ==
  /\ mock' \in BOOLEAN
  /\ lock' = Nobody
  /\ request' = [r \in Requests |->
                   IF request[r] = "new" THEN "new" ELSE "done"]
  /\ payload' = [r \in Requests |->
                   IF request[r] = "done" THEN payload[r] ELSE None]
  /\ UNCHANGED <<cache, status, lived, calls>>

Next == \/ \E r \in Requests : Reject(r) \/ Arrive(r) \/ Acquire(r) \/ Serve(r)
        \/ Restart

(***************************************************************************)
(* A request that has the mutex goes on: SQLite answers or fails, the HTTP *)
(* client gives up after ten seconds.  sync.Mutex hands the lock to the    *)
(* longest waiter once it has waited a millisecond, so a waiter that finds *)
(* the mutex free again and again gets it in the end.                      *)
(***************************************************************************)
Fairness == \A r \in Requests : WF_vars(Serve(r)) /\ SF_vars(Acquire(r))

Spec == Init /\ [][Next]_vars /\ Fairness
-----------------------------------------------------------------------------
\* Every variable keeps its type.
TypeOK ==
  /\ mock \in BOOLEAN
  /\ cache \in [Bodies -> Payloads \union {None}]
  /\ lock \in Requests \union {Nobody}
  /\ request \in [Requests -> RequestStates]
  /\ payload \in [Requests -> Payloads \union {None}]
  /\ status \in [Requests -> {0, 200, 400, 404, 500}]
  /\ lived \in [Requests -> Modes]
  /\ calls \in [Bodies -> Nat]

\* Why the check, the fetch and the write may be three steps: the request in
\* the middle of them is the one that has the mutex, what it found missing is
\* still missing, and what it is about to answer is what is stored
\* (geocode.go:84-122).
SectionIsSerialized ==
  \A r \in Requests :
    /\ request[r] \in Critical => lock = r
    /\ request[r] \in {"calling", "storing"} => cache[BodyOf[r]] = None
    /\ request[r] = "storing" => payload[r] # None
    /\ request[r] = "answering" => /\ payload[r] # None
                                   /\ cache[BodyOf[r]] = payload[r]

\* Google is never called for a body it was asked about before and whose
\* answer is stored, whatever process stored it (geocode.go:89-105).
NoCallForStoredBody ==
  [][\A b \in Bodies : calls'[b] > calls[b] => cache[b] = None]_vars

\* Every request that got past the parser is answered or cut off by the end
\* of the process; none waits for the mutex for ever.
EveryRequestEnds ==
  \A r \in Requests : (request[r] = "waiting") ~> (request[r] = "done")

\* A request that is over was told its payload, or it failed: 400, 500 under
\* the mutex, or a connection cut off.
Told(r) == CASE request[r] # "done" -> None
             [] request[r] = "done" /\ payload[r] # None -> payload[r]
             [] request[r] = "done" /\ payload[r] = None -> "failure"

Book == INSTANCE AnswerBook WITH
          book <- cache, reply <- [r \in Requests |-> Told(r)],
          Unknown <- None, Failure <- "failure"

\* One answer per body, learnt once and told to all, over every restart.
IsAnswerBook == Book!Spec
=============================================================================
