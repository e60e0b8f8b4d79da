-------------------------- MODULE ServerLifecycle --------------------------
(***************************************************************************)
(* One process of cmd/server: its start, the chain of middleware and       *)
(* handler that each request passes and that puts its record into the      *)
(* store queue, the queue's workers that insert records into SQLite, and   *)
(* main, which on a signal stops HTTP, then the queue, both under one      *)
(* 15-second deadline, and leaves.                                         *)
(***************************************************************************)
EXTENDS Integers, Sequences, FiniteSets, Functions

CONSTANTS Requests,     \* POST /v1/validate requests, each with its record
          Impatient,    \* requests whose client may go away
          QueueSize,    \* storeQueueSize
          WorkerCount,  \* storeQueueWorkers
          NoJob

ASSUME ServerAssumption ==
  IsFiniteSet(Requests) /\ QueueSize \in Int /\ WorkerCount \in Int /\ NoJob \notin Requests

VARIABLES
  storeEnabled,  \* ENABLE_STORE_REQUEST, fixed when the process starts
  main,          \* where the main goroutine is
  http,          \* how e.Shutdown ended
  crashed,       \* the process ended without coming to the end of main
  request,       \* where each request is, at last the class of its answer
  counts,        \* completed http.request spans by status class
  written,       \* the records the address database holds
  jobs, closed, worker, holding, answer, accepted, taken, outcome,
  caller, expired, notified

queueVars == <<jobs, closed, worker, holding, answer, accepted, taken, outcome,
               caller, expired, notified>>
httpVars == <<request, counts>>
vars == <<storeEnabled, main, http, crashed, httpVars, written, queueVars>>

\* The store queue; main is the only caller of its Shutdown, and the deadline
\* of shutdownCtx is the ctx of that call.
Q == INSTANCE WorkerQueue WITH Jobs <- Requests, Callers <- {"main"}

StartSteps    == <<"telemetry", "addressDB", "locationDB", "postgres", "serving">>
MainStates    == Range(StartSteps) \union
                   {"signalled", "closingHttp", "closingStore", "draining", "leaving", "gone"}
Statuses      == {"200", "400", "401", "413", "429", "500"}
\* statusClass
ClassOf       == [s \in Statuses |-> CASE s = "200" -> "2xx" [] s = "500" -> "5xx" [] OTHER -> "4xx"]
Classes       == {"2xx", "4xx", "5xx"}
RequestStates == {"new", "working", "submitted", "gone", "cut"} \union Classes

Alive       == main # "gone"
InFlight(r) == request[r] \in {"working", "submitted"}
DeadlineHit == "main" \in expired

Init == /\ storeEnabled \in BOOLEAN
        /\ main = "telemetry"
        /\ http = "none"
        /\ crashed = FALSE
        /\ request = [r \in Requests |-> "new"]
        /\ counts = [k \in Classes |-> 0]
        /\ written = {}
        /\ Q!Init
-----------------------------------------------------------------------------
\* The end of the process takes handlers, workers and the buffer with it.
EndProcess ==
  /\ main' = "gone"
  /\ request' = [r \in Requests |-> IF InFlight(r) THEN "cut" ELSE request[r]]
  /\ UNCHANGED <<storeEnabled, http, counts, written, queueVars>>

\* Telemetry, then the databases: each of the first three is needed, Postgres
\* is not, so whatever it says the process goes on and serves.
StartUp ==
  /\ \E k \in 1 .. Len(StartSteps) - 1 : main = StartSteps[k] /\ main' = StartSteps[k + 1]
  /\ UNCHANGED <<storeEnabled, http, crashed, httpVars, written, queueVars>>

\* logger.Fatal ends the process: a part it needs does not open, or StartServer
\* returns an error; once e.Shutdown is called it returns ErrServerClosed.
Fatal ==
  /\ main \in {"telemetry", "addressDB", "locationDB", "serving", "signalled"}
  /\ EndProcess
  /\ crashed' = TRUE
-----------------------------------------------------------------------------
\* The listener takes requests until e.Shutdown closes it.
Arrive(r) ==
  /\ main \in {"serving", "signalled"}
  /\ request[r] = "new"
  /\ request' = [request EXCEPT ![r] = "working"]
  /\ UNCHANGED <<storeEnabled, main, http, crashed, counts, written, queueVars>>

\* Slip: the status is read from the response, which an error handler may yet
\* write.
AsWritten(err, status) == status
\* What EchoMiddleware takes for the status when the chain below it returns err
\* with the given status in the response.
Observed(err, status) ==
  CASE err = "none" -> status
    [] err \in Statuses -> err
    [] OTHER -> "500"

\* The chain returns and the span ends; the request is then in state end.
Complete(r, err, status, end) ==
  /\ Alive
  /\ request' = [request EXCEPT ![r] = end]
  /\ counts' = [counts EXCEPT ![ClassOf[Observed(err, status)]] = @ + 1]
  /\ UNCHANGED <<storeEnabled, main, http, crashed, written, queueVars>>

\* BodyLimit returns echo's error, and echo answers it after the middleware;
\* the other refusals are written before they return nil.
TooLarge(r)     == request[r] = "working" /\ Complete(r, "413", "200", ClassOf["413"])
Unauthorized(r) == request[r] = "working" /\ Complete(r, "none", "401", ClassOf["401"])
RateLimited(r)  == request[r] = "working" /\ Complete(r, "none", "429", ClassOf["429"])
Invalid(r)      == request[r] = "working" /\ Complete(r, "none", "400", ClassOf["400"])
\* ValidateAddressV1 returns an error before it comes to the record, or panics:
\* Recover answers 500 and returns nil.
Fail(r)         == request[r] = "working" /\ Complete(r, "none", "500", ClassOf["500"])

\* The record goes to the queue; a refusal is only logged.
SubmitRecord(r) ==
  /\ Alive
  /\ storeEnabled
  /\ request[r] = "working"
  /\ Q!Submit(r)
  /\ request' = [request EXCEPT ![r] = "submitted"]
  /\ UNCHANGED <<storeEnabled, main, http, crashed, counts, written>>

Answered(r) == request[r] = "submitted" \/ (request[r] = "working" /\ ~storeEnabled)
Respond(r)  == Answered(r) /\ Complete(r, "none", "200", ClassOf["200"])
\* The client is gone: whichever answer it was, c.JSON returns the error of the
\* write and so does the handler; only echo's limiter drops it and returns nil.
WriteFails(r) ==
  /\ r \in Impatient
  /\ InFlight(r)
  /\ \E status \in {"200", "400", "401", "500"} : Complete(r, "write error", status, "gone")
-----------------------------------------------------------------------------
\* A worker's INSERT commits; the handler of the job is not over yet.
Commit(w) ==
  /\ Alive
  /\ worker[w] = "busy"
  /\ holding[w] \notin written
  /\ written' = written \union {holding[w]}
  /\ UNCHANGED <<storeEnabled, main, http, crashed, httpVars, queueVars>>

\* The goroutines of the queue.  A handler that ends without a Commit failed,
\* ran into its five seconds or panicked: the record is logged and forgotten.
RunWorker(w) ==
  /\ Alive
  /\ Q!Work(w)
  /\ UNCHANGED <<storeEnabled, main, http, crashed, httpVars, written>>

RunNotify ==
  /\ Alive
  /\ Q!Notify("main")
  /\ UNCHANGED <<storeEnabled, main, http, crashed, httpVars, written>>
-----------------------------------------------------------------------------
Signal ==
  /\ main = "serving"
  /\ main' = "signalled"
  /\ UNCHANGED <<storeEnabled, http, crashed, httpVars, written, queueVars>>

\* e.Shutdown begins by closing the listener.
CloseListener ==
  /\ main = "signalled"
  /\ main' = "closingHttp"
  /\ UNCHANGED <<storeEnabled, http, crashed, httpVars, written, queueVars>>

\* shutdownCtx starts with the signal and covers everything after it.
DeadlinePasses ==
  /\ main \in {"signalled", "closingHttp", "closingStore", "draining", "leaving"}
  /\ Q!Expire("main")
  /\ UNCHANGED <<storeEnabled, main, http, crashed, httpVars, written>>

\* Slip: the listener is closed and the handlers are not waited for.
HttpClosedAtOnce ==
  /\ main = "closingHttp"
  /\ http' = "clean"
  /\ main' = "closingStore"
  /\ UNCHANGED <<storeEnabled, crashed, httpVars, written, queueVars>>

\* Slip: e.Shutdown is called without the deadline.
HttpClosedUnbounded ==
  /\ main = "closingHttp"
  /\ \A r \in Requests : ~InFlight(r)
  /\ http' = "clean"
  /\ main' = "closingStore"
  /\ UNCHANGED <<storeEnabled, crashed, httpVars, written, queueVars>>

\* e.Shutdown returns: no handler is left, or the deadline passed and the
\* handlers that are left go on.
HttpClosed ==
  /\ main = "closingHttp"
  /\ \/ /\ \A r \in Requests : ~InFlight(r)
        /\ http' = "clean"
     \/ /\ DeadlineHit
        /\ http' = "timedOut"
  /\ main' = "closingStore"
  /\ UNCHANGED <<storeEnabled, crashed, httpVars, written, queueVars>>

\* svc.Shutdown: nothing to do without a queue.
CloseStore ==
  /\ main = "closingStore"
  /\ \/ /\ storeEnabled
        /\ Q!Shutdown("main")
        /\ main' = "draining"
     \/ /\ ~storeEnabled
        /\ main' = "leaving"
        /\ UNCHANGED queueVars
  /\ UNCHANGED <<storeEnabled, http, crashed, httpVars, written>>

\* Slip: the queue is closed and not waited for.
StoreClosedAtOnce ==
  /\ main = "draining"
  /\ main' = "leaving"
  /\ UNCHANGED <<storeEnabled, http, crashed, httpVars, written, queueVars>>

StoreClosed ==
  /\ main = "draining"
  /\ Q!Return("main")
  /\ main' = "leaving"
  /\ UNCHANGED <<storeEnabled, http, crashed, httpVars, written>>

\* After the telemetry is flushed under the same deadline, main returns.
Leave ==
  /\ main = "leaving"
  /\ EndProcess
  /\ UNCHANGED crashed

\* The process is killed, by a signal too while nobody waits for one yet.
Crash ==
  /\ Alive
  /\ EndProcess
  /\ crashed' = TRUE

Rest == ~Alive /\ UNCHANGED vars

Next == \/ StartUp \/ Fatal
        \/ \E r \in Requests :
             \/ Arrive(r) \/ TooLarge(r) \/ Unauthorized(r) \/ RateLimited(r) \/ Invalid(r)
             \/ Fail(r) \/ SubmitRecord(r) \/ Respond(r) \/ WriteFails(r)
        \/ \E w \in Q!Workers : Commit(w) \/ RunWorker(w)
        \/ RunNotify
        \/ Signal \/ DeadlinePasses
        \/ CloseListener \/ HttpClosed \/ CloseStore \/ StoreClosed
        \/ Leave \/ Crash
        \/ Rest

(***************************************************************************)
(* Only main and the runtime's timer are assumed to go on: no handler, no  *)
(* INSERT and no worker has to.                                            *)
(***************************************************************************)
Fairness == /\ WF_vars(\/ CloseListener \/ HttpClosed \/ CloseStore
                        \/ StoreClosed \/ Leave)
            /\ WF_vars(DeadlinePasses)

Spec == Init /\ [][Next]_vars /\ Fairness
-----------------------------------------------------------------------------
\* Every variable keeps its type, and the queue keeps its own.
TypeOK ==
  /\ storeEnabled \in BOOLEAN
  /\ main \in MainStates
  /\ http \in {"none", "clean", "timedOut"}
  /\ crashed \in BOOLEAN
  /\ request \in [Requests -> RequestStates]
  /\ counts \in [Classes -> Nat]
  /\ written \subseteq Requests
  /\ Q!TypeOK

\* HTTP is stopped before the queue: when every handler ended in time, no
\* record is refused because the queue was already closed (main.go:91-96).
CleanStopRefusesNoRecord ==
  http = "clean" => \A r \in Requests : answer[r] # "closed"

\* When a signalled process leaves before its deadline, no request it took is
\* left without an answer, and the record of each one answered 200 was refused
\* because the queue was full or has been through its handler: none is left in
\* the buffer or half done (main.go:88-96).
TimelyStopLosesNothing ==
  (main = "gone" /\ ~crashed /\ ~DeadlineHit) =>
     \A r \in Requests :
        /\ request[r] # "cut"
        /\ (request[r] = "2xx" /\ storeEnabled) =>
              (answer[r] = "full" \/ Q!Over(r))

\* A request is counted once, in the class of the status its client was sent,
\* whoever wrote the answer: handler, middleware, Recover, or echo after the
\* count; one whose client is gone counts as an error of the server, and one
\* that the end of the process cut off not at all (logger.go:101-127).
CountedAsAnswered ==
  \A k \in Classes :
     counts[k] = Cardinality({r \in Requests : request[r] = k})
                 + (IF k = "5xx" THEN Cardinality({r \in Requests : request[r] = "gone"}) ELSE 0)

\* A signalled process ends, whatever handlers and workers are stuck in.
StopsAfterSignal == (main = "signalled") ~> (main = "gone")

\* service.go:170-171 says that Shutdown waits for all queued address records
\* to be written before returning.
ShutdownMeansWritten ==
  (caller["main"] = "drained") =>
     \A r \in Requests : answer[r] = "accepted" => r \in written
=============================================================================
