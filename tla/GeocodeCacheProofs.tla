------------------------- MODULE GeocodeCacheProofs -------------------------
(***************************************************************************)
(* Proofs about GeocodeCache for any requests and bodies: the section      *)
(* under the mutex, and with it that GeocodeCache implements AnswerBook.   *)
(***************************************************************************)
EXTENDS GeocodeCache, TLAPS

\* A request that was not looked at yet has nothing in hand.
NewIsEmptyHanded == \A r \in Requests : request[r] = "new" => payload[r] = None

\* Types need the section, whose answers are payloads, and the section needs
\* the types: together they are inductive.
CacheInv == TypeOK /\ SectionIsSerialized /\ NewIsEmptyHanded

LEMMA InitCacheInv == Init => CacheInv
BY CacheAssumption DEF Init, CacheInv, NewIsEmptyHanded, TypeOK, SectionIsSerialized, Payloads, RequestStates,
                       Critical, Modes

\* The request that has the mutex is alone in the section.
LEMMA Alone ==
  ASSUME CacheInv, NEW r \in Requests, request[r] \in Critical
  PROVE  \A q \in Requests : request[q] \in Critical => q = r
BY DEF CacheInv, SectionIsSerialized

LEMMA StatusIsDeclared ==
  ASSUME NEW p \in Payloads
  PROVE  StatusOf(p) \in {200, 404, 500}
BY DEF StatusOf, Payloads, Answers

\* Steps outside the section.
LEMMA OutsideKeepsInv ==
  ASSUME CacheInv, NEW r \in Requests, Reject(r) \/ Arrive(r)
  PROVE  CacheInv'
<1> USE DEF CacheInv, NewIsEmptyHanded, TypeOK, SectionIsSerialized, RequestStates, Critical, Modes, Go
<1>1. CASE Reject(r)
  BY <1>1 DEF Reject, Finish
<1>2. CASE Arrive(r)
  BY <1>2 DEF Arrive
<1> QED BY <1>1, <1>2

LEMMA AcquireKeepsInv ==
  ASSUME CacheInv, NEW r \in Requests, Acquire(r)
  PROVE  CacheInv'
<1>1. \A q \in Requests : request[q] \notin Critical
  BY CacheAssumption DEF Acquire, CacheInv, SectionIsSerialized
<1> QED BY <1>1 DEF Acquire, Go, CacheInv, NewIsEmptyHanded, TypeOK, SectionIsSerialized, RequestStates, Critical

\* Every error return inside the section.
LEMMA GiveUpKeepsInv ==
  ASSUME CacheInv, NEW r \in Requests, request[r] \in Critical, GiveUp(r),
         UNCHANGED mock, calls' = calls,
         cache' = cache \/ (payload[r] # None /\ cache' = [cache EXCEPT ![BodyOf[r]] = payload[r]])
  PROVE  CacheInv'
<1>1. \A q \in Requests : request'[q] \notin Critical
  BY Alone DEF GiveUp, Finish, Go, CacheInv, TypeOK, Critical
<1>2. TypeOK'
  BY DEF GiveUp, Finish, Go, CacheInv, TypeOK, RequestStates, Modes
<1>3. NewIsEmptyHanded'
  BY DEF GiveUp, Finish, Go, CacheInv, TypeOK, NewIsEmptyHanded
<1> QED BY <1>1, <1>2, <1>3 DEF CacheInv, SectionIsSerialized, Critical

\* Every step inside the section.
LEMMA ServeKeepsInv ==
  ASSUME CacheInv, NEW r \in Requests, Serve(r)
  PROVE  CacheInv'
<1> USE CacheAssumption
<1>0. request[r] \in Critical
  BY DEF Serve, Critical, Hit, MissMocked, MissLive, LookupFails, CallAnswered, CallFails,
         Store, StoreFails, Answer
<1>a. \A q \in Requests : request[q] \in Critical => q = r
  BY <1>0, Alone
<1>b. NewIsEmptyHanded'
  BY <1>0 DEF Serve, Hit, MissMocked, MissLive, LookupFails, CallAnswered, CallFails, Store,
              StoreFails, Answer, GiveUp, Finish, Go, CacheInv, TypeOK, NewIsEmptyHanded, Critical
<1>1. CASE Hit(r) \/ MissMocked(r) \/ MissLive(r)
  <2>1. TypeOK'
    BY <1>1 DEF Hit, MissMocked, MissLive, Go, CacheInv, TypeOK, RequestStates, Payloads
  <2>2. SectionIsSerialized'
    BY <1>1, <1>a DEF Hit, MissMocked, MissLive, Go, CacheInv, TypeOK, SectionIsSerialized,
                      Critical, Payloads
  <2> QED BY <1>b, <2>1, <2>2 DEF CacheInv
<1>2. CASE LookupFails(r) \/ CallFails(r)
  BY <1>0, <1>2, GiveUpKeepsInv DEF LookupFails, CallFails
<1>3. ASSUME NEW p \in Answers, CallAnswered(r, p) PROVE CacheInv'
  <2>1. TypeOK'
    BY <1>3 DEF CallAnswered, Go, CacheInv, TypeOK, RequestStates, Payloads
  <2>2. SectionIsSerialized'
    BY <1>3, <1>a DEF CallAnswered, Go, CacheInv, TypeOK, SectionIsSerialized, Critical, Payloads
  <2> QED BY <1>b, <2>1, <2>2 DEF CacheInv
<1>4. CASE Store(r)
  <2>1. TypeOK'
    BY <1>4 DEF Store, Go, CacheInv, TypeOK, RequestStates
  <2>2. SectionIsSerialized'
    BY <1>4, <1>a DEF Store, Go, CacheInv, TypeOK, SectionIsSerialized, Critical
  <2> QED BY <1>b, <2>1, <2>2 DEF CacheInv
<1>5. CASE StoreFails(r)
  <2>1. payload[r] # None
    BY <1>5 DEF StoreFails, CacheInv, SectionIsSerialized
  <2> QED BY <1>0, <1>5, <2>1, GiveUpKeepsInv DEF StoreFails
<1>6. CASE Answer(r)
  <2>1. payload[r] \in Payloads
    BY <1>6 DEF Answer, CacheInv, TypeOK, SectionIsSerialized
  <2>2. TypeOK'
    BY <1>6, <2>1, StatusIsDeclared DEF Answer, Finish, Go, CacheInv, TypeOK, RequestStates, Modes
  <2>3. SectionIsSerialized'
    BY <1>6, <1>a DEF Answer, Finish, Go, CacheInv, TypeOK, SectionIsSerialized, Critical
  <2> QED BY <1>b, <2>2, <2>3 DEF CacheInv
<1> QED BY <1>1, <1>2, <1>3, <1>4, <1>5, <1>6 DEF Serve

LEMMA RestartKeepsInv ==
  ASSUME CacheInv, Restart
  PROVE  CacheInv'
BY DEF Restart, CacheInv, NewIsEmptyHanded, TypeOK, SectionIsSerialized, RequestStates, Critical

LEMMA StepKeepsInv == CacheInv /\ [Next]_vars => CacheInv'
<1> SUFFICES ASSUME CacheInv, [Next]_vars PROVE CacheInv'
  OBVIOUS
<1>1. CASE UNCHANGED vars
  BY <1>1 DEF vars, CacheInv, NewIsEmptyHanded, TypeOK, SectionIsSerialized
<1>2. CASE Restart
  BY <1>2, RestartKeepsInv
<1>3. ASSUME NEW r \in Requests, Reject(r) \/ Arrive(r) \/ Acquire(r) \/ Serve(r) PROVE CacheInv'
  BY <1>3, OutsideKeepsInv, AcquireKeepsInv, ServeKeepsInv
<1> QED BY <1>1, <1>2, <1>3 DEF Next

\* Types and the section under googleMapsMu hold in every reachable state, with
\* failures of every step and restarts at any point (geocode.go:84-122).
THEOREM CacheIsSound == Spec => []CacheInv
BY InitCacheInv, StepKeepsInv, PTL DEF Spec

\* Every variable keeps its type, and the route answers with no status it does
\* not declare.
THEOREM TypeCorrect == Spec => []TypeOK
BY CacheIsSound, PTL DEF CacheInv

\* The look-up, the call and the upsert of a request are one section: what was
\* missing is missing still, what is answered is what is stored.
THEOREM Serialized == Spec => []SectionIsSerialized
BY CacheIsSound, PTL DEF CacheInv
-----------------------------------------------------------------------------
LEMMA OnlyCallsForMissing ==
  CacheInv /\ [Next]_vars => [\A b \in Bodies : calls'[b] > calls[b] => cache[b] = None]_vars
<1> SUFFICES ASSUME CacheInv, Next, NEW b \in Bodies, calls'[b] > calls[b] PROVE cache[b] = None
  BY DEF vars
<1>1. calls' # calls
  BY DEF CacheInv, TypeOK
<1>2. PICK r \in Requests, p \in Answers : CallAnswered(r, p)
  BY <1>1 DEF Next, Reject, Arrive, Acquire, Serve, Restart, Hit, MissMocked, MissLive,
              LookupFails, CallFails, Store, StoreFails, Answer
<1>3. b = BodyOf[r]
  BY <1>2, CacheAssumption DEF CallAnswered, CacheInv, TypeOK
<1> QED BY <1>2, <1>3 DEF CallAnswered, CacheInv, SectionIsSerialized

\* Google is asked about a body only while no answer to it is stored, whatever
\* process stored it (geocode.go:89-105).
THEOREM NoSecondCall == Spec => NoCallForStoredBody
BY CacheIsSound, OnlyCallsForMissing, PTL DEF Spec, NoCallForStoredBody
-----------------------------------------------------------------------------
\* What a request was told, case by case.
LEMMA ToldNothingYet ==
  ASSUME NEW r \in Requests, request[r] # "done"
  PROVE  Told(r) = None
BY DEF Told

LEMMA ToldAnswer ==
  ASSUME NEW r \in Requests, request[r] = "done", payload[r] # None
  PROVE  Told(r) = payload[r]
BY DEF Told

LEMMA ToldFailure ==
  ASSUME NEW r \in Requests, request[r] = "done", payload[r] = None
  PROVE  Told(r) = "failure"
BY DEF Told

Replies == [q \in Requests |-> Told(q)]

\* A step of a request that is not over before or after it shows nobody a reply.
LEMMA RepliesUnchanged ==
  ASSUME CacheInv, NEW r \in Requests, request[r] # "done", request'[r] # "done",
         \A q \in Requests \ {r} : request'[q] = request[q] /\ payload'[q] = payload[q]
  PROVE  Replies' = Replies
<1>1. \A q \in Requests \ {r} : Told(q)' = Told(q)
  BY DEF Told
<1>2. Told(r)' = Told(r)
  BY DEF Told
<1> QED BY <1>1, <1>2 DEF Replies

\* A step that ends a request without a payload is a failure of the book.
LEMMA OneFails ==
  ASSUME CacheInv, NEW r \in Requests, request[r] # "done", request'[r] = "done",
         payload'[r] = None,
         \A q \in Requests \ {r} : request'[q] = request[q] /\ payload'[q] = payload[q]
  PROVE  Book!SomeFail
<1>1. \A q \in Requests \ {r} : Told(q)' = Told(q)
  BY DEF Told
<1>2. Told(r)' = "failure"
  BY DEF Told
<1>3. Told(r) = None
  BY ToldNothingYet
<1>4. {r} \in SUBSET {q \in Requests : Replies[q] = None}
  BY <1>3 DEF Replies
<1>5. Replies' = [q \in Requests |-> IF q \in {r} THEN "failure" ELSE Replies[q]]
  BY <1>1, <1>2 DEF Replies
<1> QED BY <1>4, <1>5 DEF Book!SomeFail, Replies

LEMMA NobodyFails == Replies' = Replies => Book!SomeFail
<1> SUFFICES ASSUME Replies' = Replies PROVE Book!SomeFail
  OBVIOUS
<1>1. {} \in SUBSET {q \in Requests : Replies[q] = None}
  OBVIOUS
<1>2. Replies' = [q \in Requests |-> IF q \in {} THEN "failure" ELSE Replies[q]]
  BY DEF Replies
<1> QED BY <1>1, <1>2 DEF Book!SomeFail, Replies

LEMMA InitRefines == Init => Book!Init
BY DEF Init, Book!Init, Told

LEMMA StepRefines == CacheInv /\ [Next]_vars => [Book!Next]_(Book!vars)
<1> SUFFICES ASSUME CacheInv, [Next]_vars PROVE [Book!Next]_(Book!vars)
  OBVIOUS
<1> USE CacheAssumption
<1>0. (cache' = cache /\ Replies' = Replies) => UNCHANGED Book!vars
  BY DEF Book!vars, Replies
<1>1. CASE UNCHANGED vars
  BY <1>0, <1>1 DEF vars, Replies, Told
<1>2. CASE Restart
  <2> DEFINE cut == {q \in Requests : request[q] \notin {"new", "done"}}
  <2>1. \A q \in cut : Told(q) = None /\ Told(q)' = "failure"
    BY <1>2 DEF Restart, Told
  <2>2. \A q \in Requests \ cut : Told(q)' = Told(q)
    BY <1>2 DEF Restart, Told
  <2>3. cut \in SUBSET {q \in Requests : Replies[q] = None}
    BY <2>1 DEF Replies
  <2>4. Replies' = [q \in Requests |-> IF q \in cut THEN "failure" ELSE Replies[q]]
    BY <2>1, <2>2 DEF Replies
  <2>5. Book!SomeFail
    BY <2>3, <2>4 DEF Book!SomeFail, Replies
  <2> QED BY <1>2, <2>5 DEF Restart, Book!Next, Book!Fail
<1>3. ASSUME NEW r \in Requests, Reject(r) \/ Arrive(r) \/ Acquire(r) \/ Serve(r)
      PROVE  [Book!Next]_(Book!vars)
  <2>1. CASE \/ Arrive(r) \/ Acquire(r) \/ Hit(r) \/ MissMocked(r) \/ MissLive(r)
             \/ \E p \in Answers : CallAnswered(r, p)
    <3>1. Replies' = Replies /\ cache' = cache
      BY <2>1, RepliesUnchanged
         DEF Arrive, Acquire, Hit, MissMocked, MissLive, CallAnswered, Go, CacheInv, TypeOK
    <3> QED BY <1>0, <3>1
  <2>2. CASE Reject(r) \/ LookupFails(r) \/ CallFails(r)
    <3>1. Book!SomeFail /\ cache' = cache
      BY <2>2, OneFails
         DEF Reject, LookupFails, CallFails, GiveUp, Finish, Go, CacheInv, NewIsEmptyHanded, TypeOK
    <3> QED BY <3>1 DEF Book!Next, Book!Fail
  <2>3. CASE Store(r) \/ StoreFails(r)
    <3>1. request[r] = "storing" /\ payload[r] \in Payloads /\ cache[BodyOf[r]] = None
      BY <2>3 DEF Store, StoreFails, CacheInv, TypeOK, SectionIsSerialized
    <3>2. Book!SomeFail
      <4>1. CASE Store(r)
        BY <4>1, RepliesUnchanged, NobodyFails DEF Store, Go, CacheInv, TypeOK
      <4>2. CASE StoreFails(r)
        BY <4>2, OneFails DEF StoreFails, GiveUp, Finish, Go, CacheInv, TypeOK
      <4> QED BY <2>3, <4>1, <4>2
    <3>3. CASE cache' = cache
      BY <3>2, <3>3 DEF Book!Next, Book!Fail
    <3>4. CASE cache' = [cache EXCEPT ![BodyOf[r]] = payload[r]]
      <4>1. Book!Learn(BodyOf[r], payload[r])
        BY <3>1, <3>2, <3>4 DEF Book!Learn
      <4> QED BY <3>1, <4>1 DEF Book!Next
    <3> QED BY <2>3, <3>3, <3>4 DEF Store, StoreFails
  <2>4. CASE Answer(r)
    <3>1. payload[r] # None /\ cache[BodyOf[r]] = payload[r] /\ Told(r) = None
      BY <2>4, ToldNothingYet DEF Answer, CacheInv, SectionIsSerialized
    <3>2. Told(r)' = payload[r] /\ \A q \in Requests \ {r} : Told(q)' = Told(q)
      BY <2>4, <3>1 DEF Answer, Finish, Go, CacheInv, TypeOK, Told
    <3>3. Replies[r] = None /\ Replies' = [Replies EXCEPT ![r] = cache[BodyOf[r]]]
      BY <3>1, <3>2 DEF Replies
    <3>4. Book!Tell(r)
      BY <2>4, <3>1, <3>3 DEF Answer, Book!Tell, Replies
    <3> QED BY <3>4 DEF Book!Next
  <2> QED BY <1>3, <2>1, <2>2, <2>3, <2>4 DEF Serve
<1> QED BY <1>1, <1>2, <1>3 DEF Next

\* One answer per body, learnt once and told to all, over every restart: the
\* cache implements AnswerBook for any requests and bodies (geocode.go:71-122).
THEOREM CacheIsAnswerBook == Spec => IsAnswerBook
BY InitRefines, StepRefines, CacheIsSound, PTL DEF Spec, IsAnswerBook, Book!Spec
=============================================================================
