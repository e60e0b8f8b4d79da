----------------------------- MODULE LazyCaches -----------------------------
(***************************************************************************)
(* The in-memory location data of the server: six caches, the phrase       *)
(* dictionary and the children index, each filled once by the first        *)
(* request that needs it, behind a sync.Once of its own, with that         *)
(* request's ctx and that request's location source                        *)
(* (service/validate_helper.go, resolve.go, fuzzy_context.go).             *)
(***************************************************************************)
EXTENDS Naturals, Sequences, Functions

CONSTANTS Requests,   \* POST /v1/validate requests
          Sources,    \* rows of location_sources
          SourceOf,   \* the source each request resolves to
          Nothing,    \* a cache that holds nothing
          Everything  \* a cache that holds the rows of all sources

ASSUME SourceAssumption == /\ SourceOf \in [Requests -> Sources]
                           /\ Nothing \notin Sources \union {Everything}
                           /\ Everything \notin Sources

\* ensureEntitiesCachesLoaded goes through the caches in this order.
Order == <<"provinces", "cities", "districts", "subdistricts", "hierarchy",
           "cityPriority">>
Caches   == Range(Order)
BySource == Caches \ {"provinces", "cities"}
\* The caches the phrase dictionary is built from.
Named    == {"provinces", "cities", "districts", "subdistricts"}
\* The caches the children index is built from.
Linked   == {"cities", "districts", "subdistricts", "hierarchy"}

VARIABLES
  once,      \* the sync.Once of each cache
  cache,     \* what each cache holds
  failed,    \* the error kept beside each cache is set
  dict,      \* what each part of the phrase dictionary was built from
  children,  \* what each part of the children index was built from
  request,   \* where each request is
  at         \* the cache a request is at, by its place in Order

vars == <<once, cache, failed, dict, children, request, at>>

RequestStates == {"new", "ensuring", "loading", "ensured", "resolved",
                  "ok", "error"}

Init == /\ once = [k \in Caches |-> "idle"]
        /\ cache = [k \in Caches |-> Nothing]
        /\ failed = [k \in Caches |-> FALSE]
        /\ dict = [k \in Named |-> Nothing]
        /\ children = [k \in Linked |-> Nothing]
        /\ request = [r \in Requests |-> "new"]
        /\ at = [r \in Requests |-> 1]

Go(r, s) == request' = [request EXCEPT ![r] = s]
Here(r)  == Order[at[r]]
-----------------------------------------------------------------------------
\* FindSourceByCode finds the source, or there is none, or the query fails.
FindSource(r) ==
  /\ request[r] = "new"
  /\ Go(r, "ensuring") \/ Go(r, "error")
  /\ UNCHANGED <<once, cache, failed, dict, children, at>>

\* once.Do: the first request to come runs the load, the others wait for it.
StartLoad(r) ==
  /\ request[r] = "ensuring"
  /\ once[Here(r)] = "idle"
  /\ once' = [once EXCEPT ![Here(r)] = "loading"]
  /\ Go(r, "loading")
  /\ UNCHANGED <<cache, failed, dict, children, at>>

Loaded(r) ==
  /\ request[r] = "loading"
  /\ cache' = [cache EXCEPT ![Here(r)] =
                 IF Here(r) \in BySource THEN SourceOf[r] ELSE Everything]
  /\ once' = [once EXCEPT ![Here(r)] = "done"]
  /\ Go(r, "ensuring")
  /\ UNCHANGED <<failed, dict, children, at>>

\* Slip: the error is returned to the caller and not kept.
LoadFailsForgotten(r) ==
  /\ request[r] = "loading"
  /\ once' = [once EXCEPT ![Here(r)] = "done"]
  /\ Go(r, "ensuring")
  /\ UNCHANGED <<cache, failed, dict, children, at>>

\* Slip: a lock in place of the Once, not released on the error path.
LoadFailsLocked(r) ==
  /\ request[r] = "loading"
  /\ Go(r, "error")
  /\ UNCHANGED <<once, cache, failed, dict, children, at>>

\* The query fails, for instance because this request's client has gone and
\* its ctx is done.
LoadFails(r) ==
  /\ request[r] = "loading"
  /\ failed' = [failed EXCEPT ![Here(r)] = TRUE]
  /\ once' = [once EXCEPT ![Here(r)] = "done"]
  /\ Go(r, "ensuring")
  /\ UNCHANGED <<cache, dict, children, at>>

\* Slip: a flag set before the load takes the place of the Once.
ProceedEarly(r) ==
  /\ request[r] = "ensuring"
  /\ once[Here(r)] # "idle"
  /\ ~failed[Here(r)]
  /\ IF at[r] = Len(Order)
       THEN Go(r, "ensured") /\ UNCHANGED at
       ELSE at' = [at EXCEPT ![r] = @ + 1] /\ UNCHANGED request
  /\ UNCHANGED <<once, cache, failed, dict, children>>

\* Slip: the error kept by another request is not looked at.
ProceedRegardless(r) ==
  /\ request[r] = "ensuring"
  /\ once[Here(r)] = "done"
  /\ IF at[r] = Len(Order)
       THEN Go(r, "ensured") /\ UNCHANGED at
       ELSE at' = [at EXCEPT ![r] = @ + 1] /\ UNCHANGED request
  /\ UNCHANGED <<once, cache, failed, dict, children>>

\* After once.Do every request looks at the error that was kept.
Proceed(r) ==
  /\ request[r] = "ensuring"
  /\ once[Here(r)] = "done"
  /\ ~failed[Here(r)]
  /\ IF at[r] = Len(Order)
       THEN Go(r, "ensured") /\ UNCHANGED at
       ELSE at' = [at EXCEPT ![r] = @ + 1] /\ UNCHANGED request
  /\ UNCHANGED <<once, cache, failed, dict, children>>

Abandon(r) ==
  /\ request[r] = "ensuring"
  /\ once[Here(r)] = "done"
  /\ failed[Here(r)]
  /\ Go(r, "error")
  /\ UNCHANGED <<once, cache, failed, dict, children, at>>

\* ResolveEvidence wants the phrase dictionary; the first request builds it
\* from the four name caches as it finds them.
Resolve(r) ==
  /\ request[r] = "ensured"
  /\ dict' = IF \A k \in Named : dict[k] = Nothing
               THEN Restrict(cache, Named) ELSE dict
  /\ Go(r, "resolved")
  /\ UNCHANGED <<once, cache, failed, children, at>>

\* Contextual recovery wants the children index when it has a candidate with
\* unexplained words.
Recover(r) ==
  /\ request[r] = "resolved"
  /\ \A k \in Linked : children[k] = Nothing
  /\ children' = Restrict(cache, Linked)
  /\ UNCHANGED <<once, cache, failed, dict, request, at>>

\* The answer, or the error of the postal-code query.
Respond(r) ==
  /\ request[r] = "resolved"
  /\ Go(r, "ok") \/ Go(r, "error")
  /\ UNCHANGED <<once, cache, failed, dict, children, at>>

Step(r) == \/ FindSource(r) \/ StartLoad(r) \/ Loaded(r) \/ LoadFails(r)
           \/ Proceed(r) \/ Abandon(r) \/ Resolve(r) \/ Recover(r) \/ Respond(r)

Ended == /\ \A r \in Requests : request[r] \in {"ok", "error"}
         /\ UNCHANGED vars

Next == (\E r \in Requests : Step(r)) \/ Ended

\* A query ends, with rows or with an error, and the scheduler runs everybody.
Fairness == \A r \in Requests : WF_vars(Step(r))

Spec == Init /\ [][Next]_vars /\ Fairness
-----------------------------------------------------------------------------
Contents == Sources \union {Nothing, Everything}

\* Every variable keeps its type; an error and contents exclude each other.
TypeOK ==
  /\ once \in [Caches -> {"idle", "loading", "done"}]
  /\ cache \in [Caches -> Contents]
  /\ failed \in [Caches -> BOOLEAN]
  /\ \A k \in Caches : (cache[k] # Nothing \/ failed[k]) <=> once[k] = "done"
  /\ dict \in [Named -> Contents]
  /\ children \in [Linked -> Contents]
  /\ request \in [Requests -> RequestStates]
  /\ at \in [Requests -> 1 .. Len(Order)]

\* The phrase dictionary and the children index are built once and never
\* again, so they must be built from complete caches and agree with them for
\* ever: no request builds them while a level is still loading or has failed
\* (validate_helper.go:244-298, fuzzy_context.go:110-134).
IndexesMatchCaches ==
  /\ (\E k \in Named : dict[k] # Nothing) =>
        \A k \in Named : dict[k] = cache[k] /\ dict[k] # Nothing
  /\ (\E k \in Linked : children[k] # Nothing) =>
        \A k \in Linked : children[k] = cache[k] /\ children[k] # Nothing

\* A request is answered 200 only from six complete caches, whoever loaded
\* them; so one failed load, even the one of a client that went away, means
\* that this process never answers 200 again (validate_helper.go:214-242).
FailedLoadIsFinal ==
  (\E r \in Requests : request[r] = "ok") =>
     \A k \in Caches : once[k] = "done" /\ ~failed[k]

\* No request waits for ever behind the once of a cache.
EveryRequestEnds ==
  \A r \in Requests : (request[r] = "ensuring") ~> (request[r] \in {"ok", "error"})

\* ABOUT.md:227, "Because caches load with `sync.Once` keyed to the first
\* `sourceID`, all requests share one in-memory snapshot after first load":
\* the caches that depend on a source are all of the same one.
OneSnapshot ==
  \A j, k \in BySource : cache[j] # Nothing /\ cache[k] # Nothing => cache[j] = cache[k]
=============================================================================
