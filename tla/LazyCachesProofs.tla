-------------------------- MODULE LazyCachesProofs --------------------------
(***************************************************************************)
(* Proofs about LazyCaches for any requests and sources.                   *)
(***************************************************************************)
EXTENDS LazyCaches, TLAPS

LEMMA OrderOfCaches ==
  /\ Order \in [1..6 -> Caches] /\ Len(Order) = 6
  /\ \A i, j \in 1..6 : Order[i] = Order[j] => i = j
  /\ \A k \in Caches : \E i \in 1..6 : Order[i] = k
<1>1. Len(Order) = 6 /\ DOMAIN Order = 1..6
  BY DEF Order
<1>2. Caches = {Order[i] : i \in 1..6}
  BY <1>1 DEF Caches, Range
<1>3. Order = [i \in 1..6 |-> Order[i]]
  BY DEF Order
<1>4. \A i, j \in 1..6 : Order[i] = Order[j] => i = j
  BY DEF Order
<1> QED BY <1>1, <1>2, <1>3, <1>4

LEMMA PartsOfCaches == Named \subseteq Caches /\ Linked \subseteq Caches
<1>1. \A i \in 1..6 : Order[i] \in Caches
  BY OrderOfCaches
<1>2. /\ Order[1] = "provinces" /\ Order[2] = "cities" /\ Order[3] = "districts"
      /\ Order[4] = "subdistricts" /\ Order[5] = "hierarchy"
  BY DEF Order
<1> QED BY <1>1, <1>2 DEF Named, Linked

-----------------------------------------------------------------------------
Filled(k) == once[k] = "done" /\ ~failed[k]

\* Behind a request that is on its way, and behind one that has all it needs,
\* every cache is filled.
Behind ==
  \A r \in Requests : \A i \in 1..6 :
     (i < at[r] \/ request[r] \in {"ensured", "resolved", "ok"}) => Filled(Order[i])

\* A request that loads has the once of its cache to itself.
OneLoader ==
  /\ \A r \in Requests : request[r] = "loading" => once[Here(r)] = "loading"
  /\ \A q, r \in Requests : request[q] = "loading" /\ request[r] = "loading" /\ at[q] = at[r] => q = r

CachesInv == TypeOK /\ Behind /\ OneLoader /\ IndexesMatchCaches

LEMMA InitCachesInv == Init => CachesInv
<1> SUFFICES ASSUME Init PROVE CachesInv
  OBVIOUS
<1>1. TypeOK
  BY OrderOfCaches DEF Init, TypeOK, Contents, RequestStates
<1>2. Behind /\ OneLoader /\ IndexesMatchCaches
  BY DEF Init, Behind, OneLoader, IndexesMatchCaches
<1> QED BY <1>1, <1>2 DEF CachesInv

LEMMA HereIsCache == TypeOK => \A r \in Requests : Here(r) \in Caches /\ at[r] \in 1..6
BY OrderOfCaches DEF TypeOK, Here

\* The end of a load, with or without an error.
LEMMA EndOfLoadKeepsInv ==
  ASSUME CachesInv, NEW r \in Requests, Loaded(r) \/ LoadFails(r)
  PROVE  CachesInv'
<1> DEFINE k == Here(r)
<1>1. k \in Caches /\ at[r] \in 1..6 /\ once[k] = "loading" /\ cache[k] = Nothing /\ ~failed[k]
  BY HereIsCache DEF CachesInv, TypeOK, OneLoader, Loaded, LoadFails
<1>2. /\ once' = [once EXCEPT ![k] = "done"]
      /\ request' = [request EXCEPT ![r] = "ensuring"]
      /\ request[r] = "loading"
      /\ UNCHANGED <<dict, children, at>>
  BY DEF Loaded, LoadFails, Go
<1>3. /\ cache' \in [Caches -> Contents] /\ failed' \in [Caches -> BOOLEAN]
      /\ cache'[k] # Nothing \/ failed'[k]
      /\ \A j \in Caches \ {k} : cache'[j] = cache[j] /\ failed'[j] = failed[j]
  <2> DEFINE rows == IF k \in BySource THEN SourceOf[r] ELSE Everything
  <2>1. cache \in [Caches -> Contents] /\ failed \in [Caches -> BOOLEAN]
    BY DEF CachesInv, TypeOK
  <2>2. rows \in Contents /\ rows # Nothing
    BY SourceAssumption DEF Contents
  <2> HIDE DEF k
  <2>3. CASE cache' = [cache EXCEPT ![k] = rows] /\ failed' = failed
    <3> HIDE DEF rows
    <3> QED BY <1>1, <2>1, <2>2, <2>3
  <2>4. CASE failed' = [failed EXCEPT ![k] = TRUE] /\ cache' = cache
    BY <1>1, <2>1, <2>4
  <2> QED BY <2>3, <2>4 DEF Loaded, LoadFails, k
<1>4. TypeOK'
  <2>1. once' \in [Caches -> {"idle", "loading", "done"}] /\ request' \in [Requests -> RequestStates]
    BY <1>2 DEF CachesInv, TypeOK, RequestStates
  <2>2. \A j \in Caches : (cache'[j] # Nothing \/ failed'[j]) <=> once'[j] = "done"
    BY <1>1, <1>2, <1>3 DEF CachesInv, TypeOK
  <2> QED BY <1>2, <1>3, <2>1, <2>2 DEF CachesInv, TypeOK
<1>5. \A j \in Caches \ {k} : once'[j] = once[j]
  BY <1>2 DEF CachesInv, TypeOK
<1>6. Behind'
  <2> SUFFICES ASSUME NEW q \in Requests, NEW i \in 1..6,
                      i < at[q] \/ request'[q] \in {"ensured", "resolved", "ok"}
               PROVE  once'[Order[i]] = "done" /\ ~failed'[Order[i]]
    BY <1>2 DEF Behind, Filled
  <2>1. Filled(Order[i])
    BY <1>2 DEF CachesInv, Behind, TypeOK
  <2>2. Order[i] \in Caches \ {k}
    BY <1>1, <2>1, OrderOfCaches DEF Filled
  <2> QED BY <1>3, <1>5, <2>1, <2>2 DEF Filled
<1>7. OneLoader'
  <2>1. \A q \in Requests : request'[q] = "loading" => q # r /\ request[q] = "loading"
    BY <1>2 DEF CachesInv, TypeOK
  <2>2. \A q \in Requests : request'[q] = "loading" => Here(q) # k
    BY <1>2, <2>1, OrderOfCaches DEF CachesInv, OneLoader, TypeOK, Here
  <2>3. \A q \in Requests : request'[q] = "loading" => once'[Here(q)] = "loading"
    BY <1>5, <2>1, <2>2, HereIsCache DEF CachesInv, OneLoader
  <2> QED BY <1>2, <2>1, <2>3 DEF CachesInv, OneLoader, Here
<1>8. IndexesMatchCaches'
  BY <1>1, <1>2, <1>3, PartsOfCaches DEF CachesInv, IndexesMatchCaches
<1> QED BY <1>4, <1>6, <1>7, <1>8 DEF CachesInv

\* Steps that leave the caches alone and only move the request.
LEMMA MoveKeepsInv ==
  ASSUME CachesInv, NEW r \in Requests, FindSource(r) \/ StartLoad(r) \/ Abandon(r) \/ Respond(r)
  PROVE  CachesInv'
<1>1. TypeOK'
  <2>1. CASE FindSource(r) \/ Abandon(r) \/ Respond(r)
    BY <2>1 DEF FindSource, Abandon, Respond, Go, CachesInv, TypeOK, RequestStates
  <2>2. CASE StartLoad(r)
    <3>1. Here(r) \in Caches
      BY HereIsCache DEF CachesInv
    <3>2. cache[Here(r)] = Nothing /\ ~failed[Here(r)]
      BY <2>2, <3>1 DEF StartLoad, CachesInv, TypeOK
    <3> QED BY <2>2, <3>1, <3>2 DEF StartLoad, Go, CachesInv, TypeOK, RequestStates
  <2> QED BY <2>1, <2>2
<1>2. Behind'
  <2>1. \A k \in Caches : Filled(k) => Filled(k)'
    BY DEF FindSource, StartLoad, Abandon, Respond, Filled, CachesInv, TypeOK
  <2>2. \A q \in Requests : request'[q] \in {"ensured", "resolved", "ok"} =>
                               request[q] \in {"ensured", "resolved", "ok"}
    BY DEF FindSource, StartLoad, Abandon, Respond, Go, CachesInv, TypeOK
  <2>3. at' = at
    BY DEF FindSource, StartLoad, Abandon, Respond
  <2> QED BY <2>1, <2>2, <2>3, OrderOfCaches DEF CachesInv, Behind
<1>3. OneLoader'
  <2>1. CASE FindSource(r) \/ Abandon(r) \/ Respond(r)
    <3>1. once' = once /\ at' = at /\ \A q \in Requests : request'[q] = "loading" => request[q] = "loading"
      BY <2>1 DEF FindSource, Abandon, Respond, Go, CachesInv, TypeOK
    <3> QED BY <3>1 DEF CachesInv, OneLoader, Here
  <2>2. CASE StartLoad(r)
    <3>1. \A q \in Requests : request[q] = "loading" => at[q] # at[r] /\ Here(q) # Here(r)
      BY <2>2 DEF StartLoad, CachesInv, OneLoader, Here
    <3> QED BY <2>2, <3>1, HereIsCache DEF StartLoad, Go, CachesInv, TypeOK, OneLoader, Here
  <2> QED BY <2>1, <2>2
<1>4. IndexesMatchCaches'
  BY DEF FindSource, StartLoad, Abandon, Respond, CachesInv, IndexesMatchCaches
<1> QED BY <1>1, <1>2, <1>3, <1>4 DEF CachesInv

LEMMA ProceedKeepsInv ==
  ASSUME CachesInv, NEW r \in Requests, Proceed(r)
  PROVE  CachesInv'
<1>1. at[r] \in 1..6 /\ Filled(Order[at[r]]) /\ UNCHANGED <<once, cache, failed, dict, children>>
  BY HereIsCache DEF Proceed, Filled, Here, CachesInv
<1>2. CASE at[r] = 6 /\ request' = [request EXCEPT ![r] = "ensured"] /\ at' = at
  <2>1. TypeOK'
    BY <1>1, <1>2 DEF CachesInv, TypeOK, RequestStates
  <2>2. Behind'
    BY <1>1, <1>2 DEF CachesInv, TypeOK, Behind, Filled
  <2>3. OneLoader' /\ IndexesMatchCaches'
    BY <1>1, <1>2 DEF CachesInv, TypeOK, OneLoader, IndexesMatchCaches, Here
  <2> QED BY <2>1, <2>2, <2>3 DEF CachesInv
<1>3. CASE at[r] # 6 /\ at' = [at EXCEPT ![r] = @ + 1] /\ request' = request
  <2>1. TypeOK'
    BY <1>1, <1>3, OrderOfCaches DEF CachesInv, TypeOK
  <2>2. Behind'
    BY <1>1, <1>3 DEF CachesInv, TypeOK, Behind, Filled
  <2>3. OneLoader' /\ IndexesMatchCaches'
    <3>1. request[r] # "loading"
      BY DEF Proceed
    <3> QED BY <1>1, <1>3, <3>1 DEF CachesInv, TypeOK, OneLoader, IndexesMatchCaches, Here
  <2> QED BY <2>1, <2>2, <2>3 DEF CachesInv
<1> QED BY <1>2, <1>3, OrderOfCaches DEF Proceed, Go

\* Where the indexes are built, every cache is filled.
LEMMA BuildKeepsInv ==
  ASSUME CachesInv, NEW r \in Requests, Resolve(r) \/ Recover(r)
  PROVE  CachesInv'
<1>1. \A k \in Caches : Filled(k)
  BY OrderOfCaches DEF CachesInv, Behind, Resolve, Recover
<1>2. \A k \in Caches : cache[k] # Nothing
  BY <1>1 DEF Filled, CachesInv, TypeOK
<1>3. TypeOK' /\ Behind' /\ OneLoader'
  <2>1. TypeOK'
    BY PartsOfCaches DEF Resolve, Recover, Go, CachesInv, TypeOK, RequestStates, Restrict
  <2>2. Behind'
    BY <1>1, OrderOfCaches DEF Resolve, Recover, Behind, Filled
  <2>3. OneLoader'
    BY DEF Resolve, Recover, Go, CachesInv, TypeOK, OneLoader, Here
  <2> QED BY <2>1, <2>2, <2>3
<1>4. IndexesMatchCaches'
  BY <1>2, PartsOfCaches DEF Resolve, Recover, CachesInv, TypeOK, IndexesMatchCaches, Restrict
<1> QED BY <1>3, <1>4 DEF CachesInv

LEMMA StepKeepsCachesInv == CachesInv /\ [Next]_vars => CachesInv'
<1> SUFFICES ASSUME CachesInv, [Next]_vars PROVE CachesInv'
  OBVIOUS
<1>1. CASE UNCHANGED vars
  BY <1>1 DEF vars, CachesInv, TypeOK, Behind, Filled, OneLoader, Here, IndexesMatchCaches
<1>2. ASSUME NEW r \in Requests, Step(r) PROVE CachesInv'
  BY <1>2, EndOfLoadKeepsInv, MoveKeepsInv, ProceedKeepsInv, BuildKeepsInv DEF Step
<1> QED BY <1>1, <1>2 DEF Next, Ended

\* How far requests have come, who loads, and the indexes, in every reachable
\* state (validate_helper.go:98-298, fuzzy_context.go:110-134).
THEOREM CachesAreSound == Spec => []CachesInv
BY InitCachesInv, StepKeepsCachesInv, PTL DEF Spec

\* The caches and indexes keep their types, and a request knows where it is.
THEOREM TypeCorrect == Spec => []TypeOK
BY CachesAreSound, PTL DEF CachesInv

\* The indexes, built once, agree with complete caches for ever, however many
\* requests race for the caches and whichever loads fail.
THEOREM IndexesAreComplete == Spec => []IndexesMatchCaches
BY CachesAreSound, PTL DEF CachesInv

\* A request is answered only from six caches that were loaded without error:
\* after one failed load this process never answers 200 again.
THEOREM NoAnswerAfterFailure == Spec => []FailedLoadIsFinal
<1>1. CachesInv => FailedLoadIsFinal
  BY OrderOfCaches DEF CachesInv, Behind, Filled, FailedLoadIsFinal
<1> QED BY <1>1, CachesAreSound, PTL
=============================================================================
