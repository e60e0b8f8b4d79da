----------------------- MODULE ServerLifecycleProofs -----------------------
(***************************************************************************)
(* Theorems about ServerLifecycle, for any number of requests, any size of *)
(* the store queue and any number of workers.  What the queue guarantees   *)
(* comes from WorkerQueueProofs: every step of the process is a step of    *)
(* the queue or leaves it alone.                                           *)
(***************************************************************************)
EXTENDS ServerLifecycle, FiniteSetTheorems, TLAPS

QP == INSTANCE WorkerQueueProofs WITH Jobs <- Requests, Callers <- {"main"}

-----------------------------------------------------------------------------
\* The queue's steps, as the theorems about the queue name them.
LEMMA SameSubmit == ASSUME NEW r PROVE Q!Submit(r) <=> QP!Submit(r)
BY DEF Q!Submit, QP!Submit, Q!SubmitClosed, QP!SubmitClosed, Q!HandOver, QP!HandOver,
       Q!Enqueue, QP!Enqueue, Q!SubmitFull, QP!SubmitFull, Q!Accepting, QP!Accepting,
       Q!SomeParked, QP!SomeParked, Q!Workers, QP!Workers, Q!Size, QP!Size,
       Q!AtLeastOne, QP!AtLeastOne

\* The same for what its goroutines do.
LEMMA SameWork == ASSUME NEW w PROVE Q!Work(w) <=> QP!Work(w)
BY DEF Q!Work, QP!Work, Q!Receive, QP!Receive, Q!Park, QP!Park, Q!Exit, QP!Exit,
       Q!Execute, QP!Execute

\* The same for what Shutdown does.
LEMMA SameShutdown ==
  /\ Q!Shutdown("main") <=> QP!Shutdown("main")
  /\ Q!Notify("main") <=> QP!Notify("main")
  /\ Q!Return("main") <=> QP!Return("main")
  /\ Q!Expire("main") <=> QP!Expire("main")
BY DEF Q!Shutdown, QP!Shutdown, Q!Notify, QP!Notify, Q!Return, QP!Return,
       Q!ReturnDrained, QP!ReturnDrained, Q!ReturnGaveUp, QP!ReturnGaveUp,
       Q!Expire, QP!Expire, Q!Workers, QP!Workers, Q!AtLeastOne, QP!AtLeastOne,
       Q!AllExited, QP!AllExited

\* The same for its types.
LEMMA SameTypes == Q!TypeOK <=> QP!TypeOK
BY DEF Q!TypeOK, QP!TypeOK, Q!Size, QP!Size, Q!Workers, QP!Workers, Q!AtLeastOne, QP!AtLeastOne,
       Q!WorkerStates, QP!WorkerStates, Q!Answers, QP!Answers, Q!Outcomes, QP!Outcomes,
       Q!CallerStates, QP!CallerStates

\* A process starts with a queue just made.
LEMMA SameInit == Q!Init <=> QP!Init
BY DEF Q!Init, QP!Init, Q!Workers, QP!Workers, Q!AtLeastOne, QP!AtLeastOne

\* What each step of the queue does to the state the process looks at.
LEMMA SubmitFrame ==
  ASSUME NEW r, Q!Submit(r)
  PROVE  /\ closed' = closed /\ caller' = caller /\ expired' = expired
         /\ \E v \in {"accepted", "full", "closed"} :
              answer' = [answer EXCEPT ![r] = v] /\ (v = "closed" => closed)
BY DEF Q!Submit, Q!SubmitClosed, Q!HandOver, Q!Enqueue, Q!SubmitFull, Q!Accepting

\* A goroutine of the queue leaves all of it alone.
LEMMA WorkFrame ==
  ASSUME NEW w, Q!Work(w)
  PROVE  UNCHANGED <<closed, caller, expired, answer>>
BY DEF Q!Work, Q!Receive, Q!Park, Q!Exit, Q!Execute

\* Shutdown closes the queue; only its return and the deadline change the rest.
LEMMA ShutdownFrame ==
  /\ Q!Notify("main") => UNCHANGED <<closed, caller, expired, answer>>
  /\ Q!Expire("main") => UNCHANGED <<closed, caller, answer>> /\ expired' = expired \union {"main"}
  /\ Q!Shutdown("main") => /\ closed' = TRUE /\ UNCHANGED <<expired, answer>>
                           /\ caller' = [caller EXCEPT !["main"] = "waiting"]
  /\ Q!Return("main") => /\ UNCHANGED <<closed, expired, answer>>
                         /\ \/ caller' = [caller EXCEPT !["main"] = "drained"]
                            \/ DeadlineHit /\ caller' = [caller EXCEPT !["main"] = "gaveUp"]
BY DEF Q!Notify, Q!Expire, Q!Shutdown, Q!Return, Q!ReturnDrained, Q!ReturnGaveUp, DeadlineHit

-----------------------------------------------------------------------------
\* The types of what the process adds to the queue.
ProcessTypes ==
  /\ storeEnabled \in BOOLEAN
  /\ main \in MainStates
  /\ http \in {"none", "clean", "timedOut"}
  /\ crashed \in BOOLEAN
  /\ request \in [Requests -> RequestStates]
  /\ counts \in [Classes -> Nat]
  /\ written \subseteq Requests

\* The order of the stop: HTTP before the queue, the queue before the end.
StopOrder ==
  /\ main \in {"closingStore", "draining", "leaving"} <=> (http # "none" /\ main # "gone")
  /\ closed => http # "none"
  /\ ~closed => caller["main"] = "idle"
  /\ main = "draining" => storeEnabled
  /\ http = "timedOut" => DeadlineHit
  /\ main = "leaving" /\ storeEnabled => caller["main"] = "drained" \/ DeadlineHit
  /\ crashed => main = "gone"
  /\ main = "gone" /\ ~crashed => /\ http # "none"
                                  /\ storeEnabled => caller["main"] = "drained" \/ DeadlineHit

\* Where the requests are in it, and what Submit told them.
RequestOrder ==
  /\ http = "clean" => \A r \in Requests : ~InFlight(r) /\ answer[r] # "closed"
  /\ ~closed => \A r \in Requests : answer[r] # "closed"
  /\ \A r \in Requests : request[r] = "submitted" => answer[r] # "none"
  /\ \A r \in Requests : request[r] = "2xx" /\ storeEnabled => answer[r] # "none"
  /\ \A r \in Requests : request[r] = "cut" => main = "gone"
  /\ main = "gone" /\ ~crashed /\ ~DeadlineHit => \A r \in Requests : request[r] # "cut"

LifecycleInv == ProcessTypes /\ QP!QueueInv /\ StopOrder /\ RequestOrder

\* The assumption under which the theorems about the queue hold.
LEMMA QueueParameters == QP!ParametersAssumption
BY ServerAssumption DEF QP!ParametersAssumption

\* Where main can be, one by one.
LEMMA MainIsSomewhere ==
  MainStates = {"telemetry", "addressDB", "locationDB", "postgres", "serving", "signalled",
                "closingHttp", "closingStore", "draining", "leaving", "gone"}
<1>1. DOMAIN StartSteps = 1 .. 5
  BY DEF StartSteps
<1>2. Range(StartSteps) = {StartSteps[1], StartSteps[2], StartSteps[3], StartSteps[4], StartSteps[5]}
  BY <1>1 DEF Range
<1>3. Range(StartSteps) = {"telemetry", "addressDB", "locationDB", "postgres", "serving"}
  BY <1>2 DEF StartSteps
<1> QED
  BY <1>3 DEF MainStates

\* A process that starts satisfies the invariant.
LEMMA InitLifecycleInv == Init => LifecycleInv
<1> SUFFICES ASSUME Init PROVE LifecycleInv
  OBVIOUS
<1>1. QP!QueueInv
  BY SameInit, QP!InitQueueInv, QueueParameters DEF Init
<1>2. ProcessTypes
  BY MainIsSomewhere DEF Init, ProcessTypes, RequestStates
<1>3. closed = FALSE /\ caller["main"] = "idle" /\ \A r \in Requests : answer[r] = "none"
  BY DEF Init, Q!Init
<1>4. StopOrder /\ RequestOrder
  BY <1>3 DEF Init, StopOrder, RequestOrder, InFlight
<1> QED
  BY <1>1, <1>2, <1>4 DEF LifecycleInv

\* Every step of the process is a step of the queue or leaves it alone.
LEMMA QueueStep == QP!QueueInv /\ [Next]_vars => QP!QueueInv'
<1> SUFFICES ASSUME QP!QueueInv, [Next]_vars PROVE QP!QueueInv'
  OBVIOUS
<1>1. SUFFICES [QP!Next]_(QP!vars)
  BY QP!QueueInvStep, QueueParameters
<1>2. ASSUME NEW r \in Requests, SubmitRecord(r) PROVE QP!Next
  BY <1>2, SameSubmit DEF SubmitRecord, QP!Next
<1>3. ASSUME NEW w \in Q!Workers, RunWorker(w) PROVE QP!Next
  BY <1>3, SameWork DEF RunWorker, QP!Next, Q!Workers, QP!Workers, Q!AtLeastOne, QP!AtLeastOne
<1>4. CASE RunNotify
  BY <1>4, SameShutdown DEF RunNotify, QP!Next
<1>5. CASE DeadlinePasses
  BY <1>5, SameShutdown DEF DeadlinePasses, QP!Next
<1>6. CASE CloseStore
  BY <1>6, SameShutdown DEF CloseStore, QP!Next, QP!vars, queueVars
<1>7. CASE StoreClosed
  BY <1>7, SameShutdown DEF StoreClosed, QP!Next
<1>8. CASE UNCHANGED queueVars
  BY <1>8 DEF queueVars, QP!vars
<1>9. ASSUME NEW r \in Requests,
             Arrive(r) \/ TooLarge(r) \/ Unauthorized(r) \/ RateLimited(r) \/ Invalid(r)
               \/ Fail(r) \/ Respond(r) \/ WriteFails(r)
      PROVE  UNCHANGED queueVars
  BY <1>9 DEF Arrive, TooLarge, Unauthorized, RateLimited, Invalid, Fail, Respond, WriteFails, Complete
<1>10. ASSUME NEW w \in Q!Workers, Commit(w) PROVE UNCHANGED queueVars
  BY <1>10 DEF Commit
<1>11. ASSUME StartUp \/ Fatal \/ Signal \/ CloseListener \/ HttpClosed \/ Leave \/ Crash \/ Rest
       PROVE  UNCHANGED queueVars
  BY <1>11 DEF StartUp, Fatal, Signal, CloseListener, HttpClosed, Leave, Crash, Rest, EndProcess, vars
<1>12. ASSUME UNCHANGED vars PROVE UNCHANGED queueVars
  BY <1>12 DEF vars
<1> QED
  BY <1>2, <1>3, <1>4, <1>5, <1>6, <1>7, <1>8, <1>9, <1>10, <1>11, <1>12 DEF Next

\* Where start-up goes next.
LEMMA StartUpFrame ==
  ASSUME StartUp
  PROVE  /\ main \in {"telemetry", "addressDB", "locationDB", "postgres"}
         /\ main' \in {"addressDB", "locationDB", "postgres", "serving"}
<1>1. Len(StartSteps) = 5
  BY DEF StartSteps
<1>2. PICK k \in 1 .. 4 : main = StartSteps[k] /\ main' = StartSteps[k + 1]
  BY <1>1 DEF StartUp
<1>3. k = 1 \/ k = 2 \/ k = 3 \/ k = 4
  OBVIOUS
<1> QED
  BY <1>2, <1>3 DEF StartSteps

\* Every step keeps the types of the process.
LEMMA ProcessTypesStep == ProcessTypes /\ QP!QueueInv /\ [Next]_vars => ProcessTypes'
<1> SUFFICES ASSUME ProcessTypes, QP!QueueInv, [Next]_vars PROVE ProcessTypes'
  OBVIOUS
<1> USE MainIsSomewhere DEF ProcessTypes, RequestStates, httpVars
<1>1. ASSUME NEW r \in Requests, NEW err, NEW status \in Statuses, NEW end \in {"gone"} \union Classes,
             err = "none" \/ err = "write error" \/ err \in Statuses,
             Complete(r, err, status, end)
      PROVE  ProcessTypes'
  <2>1. Observed(err, status) \in Statuses
    BY <1>1 DEF Observed, Statuses
  <2> DEFINE k == ClassOf[Observed(err, status)]
  <2>2. k \in Classes
    BY <2>1 DEF ClassOf, Statuses, Classes
  <2> HIDE DEF k
  <2>3. /\ request' = [request EXCEPT ![r] = end] /\ counts' = [counts EXCEPT ![k] = @ + 1]
        /\ UNCHANGED <<storeEnabled, main, http, crashed, written>>
    BY <1>1 DEF Complete, k
  <2>4. counts' \in [Classes -> Nat]
    BY <2>2, <2>3
  <2> QED
    BY <1>1, <2>3, <2>4
<1>2. ASSUME NEW r \in Requests,
             TooLarge(r) \/ Unauthorized(r) \/ RateLimited(r) \/ Invalid(r)
               \/ Fail(r) \/ Respond(r) \/ WriteFails(r)
      PROVE  ProcessTypes'
  <2>1. \A status \in Statuses : ClassOf[status] \in Classes
    BY DEF ClassOf, Statuses, Classes
  <2>2. CASE WriteFails(r)
    <3>1. PICK status \in Statuses : Complete(r, "write error", status, "gone")
      BY <2>2 DEF WriteFails, Statuses
    <3> QED
      BY <1>1, <3>1
  <2>3. CASE ~WriteFails(r)
    BY <1>1, <1>2, <2>1, <2>3 DEF TooLarge, Unauthorized, RateLimited, Invalid, Fail, Respond, Statuses
  <2> QED
    BY <2>2, <2>3
<1>3. ASSUME NEW r \in Requests, Arrive(r) \/ SubmitRecord(r) PROVE ProcessTypes'
  BY <1>3 DEF Arrive, SubmitRecord
<1>4. ASSUME NEW w \in Q!Workers, Commit(w) PROVE ProcessTypes'
  <2>1. holding[w] \in Requests
    BY <1>4, SameTypes DEF Commit, QP!QueueInv, Q!TypeOK
  <2> QED
    BY <1>4, <2>1 DEF Commit
<1>5. ASSUME NEW w \in Q!Workers, RunWorker(w) PROVE ProcessTypes'
  BY <1>5 DEF RunWorker
<1>6. CASE EndProcess /\ crashed' \in BOOLEAN
  BY <1>6 DEF EndProcess
<1>7. CASE StartUp
  BY <1>7, StartUpFrame DEF StartUp
<1>8. CASE RunNotify \/ Signal \/ DeadlinePasses \/ CloseListener \/ HttpClosed \/ CloseStore \/ StoreClosed
  BY <1>8 DEF RunNotify, Signal, DeadlinePasses, CloseListener, HttpClosed, CloseStore, StoreClosed
<1>9. CASE UNCHANGED vars
  BY <1>9 DEF vars
<1> QED
  BY <1>2, <1>3, <1>4, <1>5, <1>6, <1>7, <1>8, <1>9 DEF Next, Fatal, Leave, Crash, Rest

\* Every step keeps the order of the stop.
LEMMA StopOrderStep ==
  ProcessTypes /\ QP!QueueInv /\ StopOrder /\ RequestOrder /\ [Next]_vars => StopOrder'
<1> SUFFICES ASSUME ProcessTypes, QP!QueueInv, StopOrder, RequestOrder, [Next]_vars PROVE StopOrder'
  OBVIOUS
<1> USE DEF StopOrder, httpVars
<1>0. caller \in [{"main"} -> {"idle", "waiting", "drained", "gaveUp"}]
  BY SameTypes DEF QP!QueueInv, Q!TypeOK, Q!CallerStates
<1>1. ASSUME UNCHANGED <<storeEnabled, main, http, crashed, closed, caller, expired>> PROVE StopOrder'
  BY <1>1 DEF DeadlineHit
<1>2. ASSUME NEW r \in Requests,
             TooLarge(r) \/ Unauthorized(r) \/ RateLimited(r) \/ Invalid(r)
               \/ Fail(r) \/ Respond(r) \/ WriteFails(r) \/ Arrive(r)
      PROVE  StopOrder'
  BY <1>1, <1>2 DEF TooLarge, Unauthorized, RateLimited, Invalid, Fail, Respond, WriteFails, Arrive,
                    Complete, queueVars
<1>3. ASSUME NEW r \in Requests, SubmitRecord(r) PROVE StopOrder'
  BY <1>1, <1>3, SubmitFrame DEF SubmitRecord
<1>4. ASSUME NEW w \in Q!Workers, Commit(w) \/ RunWorker(w) PROVE StopOrder'
  BY <1>1, <1>4, WorkFrame DEF Commit, RunWorker, queueVars
<1>5. CASE RunNotify
  BY <1>1, <1>5, ShutdownFrame DEF RunNotify
<1>6. CASE StartUp
  BY <1>6, StartUpFrame DEF StartUp, queueVars, DeadlineHit
<1>7. CASE Fatal \/ Crash
  BY <1>7 DEF Fatal, Crash, Alive, EndProcess, queueVars, DeadlineHit
<1>8. CASE Leave
  BY <1>8 DEF Leave, EndProcess, queueVars, DeadlineHit
<1>9. CASE Signal \/ CloseListener
  BY <1>9 DEF Signal, CloseListener, queueVars, DeadlineHit
<1>10. CASE HttpClosed
  BY <1>10 DEF HttpClosed, queueVars, DeadlineHit
<1>11. CASE DeadlinePasses
  BY <1>11, ShutdownFrame DEF DeadlinePasses, DeadlineHit
<1>12. CASE CloseStore
  <2>1. CASE storeEnabled
    BY <1>0, <1>12, <2>1, ShutdownFrame DEF CloseStore, DeadlineHit
  <2>2. CASE ~storeEnabled
    BY <1>12, <2>2 DEF CloseStore, queueVars, DeadlineHit
  <2> QED
    BY <2>1, <2>2
<1>13. CASE StoreClosed
  <2>1. /\ main = "draining" /\ main' = "leaving" /\ UNCHANGED <<storeEnabled, http, crashed>>
        /\ UNCHANGED <<closed, expired>>
        /\ \/ caller' = [caller EXCEPT !["main"] = "drained"]
           \/ DeadlineHit /\ caller' = [caller EXCEPT !["main"] = "gaveUp"]
    BY <1>13, ShutdownFrame DEF StoreClosed
  <2>2. caller["main"] = "waiting"
    BY <1>13 DEF StoreClosed, Q!Return, Q!ReturnDrained, Q!ReturnGaveUp
  <2>3. closed
    BY <2>2
  <2>4. caller'["main"] = "drained" \/ DeadlineHit'
    BY <1>0, <2>1 DEF DeadlineHit
  <2> QED
    BY <2>1, <2>3, <2>4 DEF DeadlineHit
<1>14. CASE UNCHANGED vars
  BY <1>1, <1>14 DEF vars, queueVars
<1> QED
  BY <1>2, <1>3, <1>4, <1>5, <1>6, <1>7, <1>8, <1>9, <1>10, <1>11, <1>12, <1>13, <1>14 DEF Next, Rest

\* Every step keeps what is known of the requests.
LEMMA RequestOrderStep ==
  ProcessTypes /\ QP!QueueInv /\ StopOrder /\ RequestOrder /\ [Next]_vars => RequestOrder'
<1> SUFFICES ASSUME ProcessTypes, QP!QueueInv, StopOrder, RequestOrder, [Next]_vars PROVE RequestOrder'
  OBVIOUS
<1> USE DEF RequestOrder, InFlight, httpVars
<1>0. /\ answer \in [Requests -> {"none", "accepted", "full", "closed"}]
      /\ request \in [Requests -> RequestStates]
  BY SameTypes DEF QP!QueueInv, Q!TypeOK, Q!Answers, ProcessTypes
<1>1. ASSUME UNCHANGED <<storeEnabled, http, main, crashed, request, closed, answer>>,
             DeadlineHit => DeadlineHit'
      PROVE  RequestOrder'
  BY <1>1
<1>2. ASSUME NEW r \in Requests, NEW err, NEW status, NEW end \in {"gone", "2xx", "4xx", "5xx"},
             InFlight(r), Complete(r, err, status, end),
             end = "2xx" /\ storeEnabled => answer[r] # "none"
      PROVE  RequestOrder'
  BY <1>0, <1>2 DEF Complete, queueVars, DeadlineHit, Alive
<1>3. ASSUME NEW r \in Requests,
             TooLarge(r) \/ Unauthorized(r) \/ RateLimited(r) \/ Invalid(r) \/ Fail(r)
      PROVE  RequestOrder'
  <2>1. \A status \in {"400", "401", "413", "429", "500"} : ClassOf[status] \in {"4xx", "5xx"}
    BY DEF ClassOf, Statuses
  <2> QED
    BY <1>2, <1>3, <2>1 DEF TooLarge, Unauthorized, RateLimited, Invalid, Fail
<1>4. ASSUME NEW r \in Requests, Respond(r) \/ WriteFails(r) PROVE RequestOrder'
  <2>1. ClassOf["200"] = "2xx"
    BY DEF ClassOf, Statuses
  <2> QED
    BY <1>2, <1>4, <2>1 DEF Respond, WriteFails, Answered
<1>5. ASSUME NEW r \in Requests, Arrive(r) PROVE RequestOrder'
  BY <1>0, <1>5 DEF Arrive, queueVars, StopOrder, DeadlineHit
<1>6. ASSUME NEW r \in Requests, SubmitRecord(r) PROVE RequestOrder'
  <2>1. PICK v \in {"accepted", "full", "closed"} :
          answer' = [answer EXCEPT ![r] = v] /\ (v = "closed" => closed)
    BY <1>6, SubmitFrame DEF SubmitRecord
  <2>2. closed' = closed /\ expired' = expired
    BY <1>6, SubmitFrame DEF SubmitRecord
  <2>3. http # "clean"
    BY <1>6 DEF SubmitRecord
  <2> QED
    BY <1>0, <1>6, <2>1, <2>2, <2>3 DEF SubmitRecord, DeadlineHit, Alive
<1>7. ASSUME NEW w \in Q!Workers, Commit(w) \/ RunWorker(w) PROVE RequestOrder'
  BY <1>1, <1>7, WorkFrame DEF Commit, RunWorker, queueVars, DeadlineHit
<1>8. CASE RunNotify \/ DeadlinePasses
  BY <1>1, <1>8, ShutdownFrame DEF RunNotify, DeadlinePasses, DeadlineHit
<1>9. CASE Fatal \/ Crash
  BY <1>0, <1>9 DEF Fatal, Crash, EndProcess, queueVars, DeadlineHit
<1>10. CASE Leave
  <2>1. /\ main = "leaving" /\ main' = "gone" /\ UNCHANGED <<storeEnabled, http, crashed, queueVars>>
        /\ request' = [r \in Requests |-> IF request[r] \in {"working", "submitted"}
                                         THEN "cut" ELSE request[r]]
    BY <1>10 DEF Leave, EndProcess
  <2>2. http # "none" /\ (http = "timedOut" => DeadlineHit) /\ http \in {"none", "clean", "timedOut"}
    BY <2>1 DEF StopOrder, ProcessTypes
  <2>3. ASSUME ~DeadlineHit, NEW r \in Requests PROVE request'[r] # "cut"
    BY <1>0, <2>1, <2>2, <2>3
  <2>4. DeadlineHit' = DeadlineHit
    BY <2>1 DEF queueVars, DeadlineHit
  <2>5. \A r \in Requests :
          /\ request'[r] \notin {"working", "submitted"}
          /\ request'[r] = "2xx" => request[r] = "2xx"
    BY <1>0, <2>1
  <2> QED
    BY <1>0, <2>1, <2>3, <2>4, <2>5 DEF queueVars
<1>11. CASE StartUp \/ Signal \/ CloseListener
  BY <1>11, StartUpFrame DEF StartUp, Signal, CloseListener, queueVars, DeadlineHit
<1>12. CASE HttpClosed
  BY <1>12 DEF HttpClosed, queueVars, DeadlineHit, StopOrder
<1>13. CASE CloseStore
  <2>1. /\ UNCHANGED <<storeEnabled, http, crashed, request, answer, expired>>
        /\ main' \in {"draining", "leaving"} /\ closed' \in BOOLEAN /\ (closed => closed')
    <3>1. closed \in BOOLEAN
      BY SameTypes DEF QP!QueueInv, Q!TypeOK
    <3>2. CASE storeEnabled
      BY <1>13, <3>1, <3>2, ShutdownFrame DEF CloseStore, Q!Shutdown
    <3>3. CASE ~storeEnabled
      BY <1>13, <3>1, <3>3 DEF CloseStore, queueVars
    <3> QED
      BY <3>2, <3>3
  <2> QED
    BY <1>13, <2>1 DEF CloseStore, DeadlineHit
<1>14. CASE StoreClosed
  BY <1>14, ShutdownFrame DEF StoreClosed, DeadlineHit
<1>15. CASE UNCHANGED vars
  BY <1>1, <1>15 DEF vars, queueVars, DeadlineHit
<1> QED
  BY <1>3, <1>4, <1>5, <1>6, <1>7, <1>8, <1>9, <1>10, <1>11, <1>12, <1>13, <1>14, <1>15 DEF Next, Rest

\* The invariant holds in every reachable state.
THEOREM LifecycleIsSound == Spec => []LifecycleInv
<1>1. LifecycleInv /\ [Next]_vars => LifecycleInv'
  BY QueueStep, ProcessTypesStep, StopOrderStep, RequestOrderStep DEF LifecycleInv
<1> QED
  BY InitLifecycleInv, <1>1, PTL DEF Spec

\* The variables of the process and of its queue keep their types.
THEOREM TypeCorrect == Spec => []TypeOK
<1>1. LifecycleInv => TypeOK
  BY SameTypes DEF LifecycleInv, ProcessTypes, QP!QueueInv, TypeOK
<1> QED
  BY <1>1, LifecycleIsSound, PTL

\* A process whose handlers ended in time has had no record refused because the
\* queue was closed (main.go:91-96).
THEOREM NoRecordComesTooLate == Spec => []CleanStopRefusesNoRecord
<1>1. LifecycleInv => CleanStopRefusesNoRecord
  BY DEF LifecycleInv, RequestOrder, CleanStopRefusesNoRecord
<1> QED
  BY <1>1, LifecycleIsSound, PTL

\* A process that leaves in time leaves no request unanswered and no accepted
\* record unhandled: a nil of the queue's Shutdown means that all are over.
THEOREM NothingIsLostInTime == Spec => []TimelyStopLosesNothing
<1>1. LifecycleInv => TimelyStopLosesNothing
  <2> SUFFICES ASSUME LifecycleInv, main = "gone", ~crashed, ~DeadlineHit, NEW r \in Requests
               PROVE  /\ request[r] # "cut"
                      /\ request[r] = "2xx" /\ storeEnabled => answer[r] = "full" \/ Q!Over(r)
    BY DEF TimelyStopLosesNothing
  <2>1. request[r] # "cut"
    BY DEF LifecycleInv, RequestOrder
  <2>2. ASSUME request[r] = "2xx", storeEnabled PROVE answer[r] = "full" \/ Q!Over(r)
    <3>1. caller["main"] = "drained" /\ http = "clean"
      BY <2>2 DEF LifecycleInv, StopOrder, ProcessTypes
    <3>2. answer[r] \notin {"none", "closed"}
      BY <2>2, <3>1 DEF LifecycleInv, RequestOrder
    <3>3. answer[r] \in {"none", "accepted", "full", "closed"}
      BY SameTypes DEF LifecycleInv, QP!QueueInv, Q!TypeOK, Q!Answers
    <3>4. QP!Unfinished = {}
      BY <3>1, QP!InvMeansDrainedHandled, QueueParameters DEF LifecycleInv, QP!DrainedMeansHandled
    <3>5. answer[r] = "accepted" => Q!Over(r)
      BY <3>4 DEF QP!Unfinished, QP!Over, Q!Over
    <3> QED
      BY <3>2, <3>3, <3>5
  <2> QED
    BY <2>1, <2>2
<1> QED
  BY <1>1, LifecycleIsSound, PTL
-----------------------------------------------------------------------------
\* The requests that are in state k.
At(k) == {r \in Requests : request[r] = k}

\* What is counted depends on the ends of the requests only.
LEMMA CountsByEnd ==
  CountedAsAnswered <=>
    \A k \in Classes : counts[k] = Cardinality(At(k)) + (IF k = "5xx" THEN Cardinality(At("gone")) ELSE 0)
BY DEF CountedAsAnswered, At

\* A step that ends no request and counts none.
LEMMA NoEndNoCount ==
  ASSUME CountedAsAnswered, counts' = counts,
         \A r \in Requests : \A k \in Classes \union {"gone"} : request'[r] = k <=> request[r] = k
  PROVE  CountedAsAnswered'
<1>1. \A k \in Classes \union {"gone"} : At(k)' = At(k)
  BY DEF At
<1>2. \A k \in Classes : counts'[k] = Cardinality(At(k)') + (IF k = "5xx" THEN Cardinality(At("gone")') ELSE 0)
  BY <1>1, CountsByEnd
<1> QED
  BY <1>2 DEF CountedAsAnswered, At

\* A chain that returns ends its request in the class it is counted in, or, with
\* its client gone, as an error of the server.
LEMMA EndIsCounted ==
  ASSUME ProcessTypes, CountedAsAnswered,
         NEW r \in Requests, NEW err, NEW status, NEW end \in Classes \union {"gone"},
         InFlight(r), Complete(r, err, status, end),
         ClassOf[Observed(err, status)] = IF end = "gone" THEN "5xx" ELSE end
  PROVE  CountedAsAnswered'
<1> DEFINE c == IF end = "gone" THEN "5xx" ELSE end
<1>0. /\ request' = [request EXCEPT ![r] = end] /\ counts' = [counts EXCEPT ![c] = @ + 1]
      /\ request \in [Requests -> RequestStates] /\ counts \in [Classes -> Nat]
      /\ c \in Classes
  BY DEF Complete, ProcessTypes, Classes
<1>1. \A k \in Classes \union {"gone"} : IsFiniteSet(At(k)) /\ Cardinality(At(k)) \in Nat
  <2>1. \A k : At(k) \subseteq Requests
    BY DEF At
  <2> QED
    BY <2>1, ServerAssumption, FS_Subset, FS_CardinalityType
<1>2. At(end)' = At(end) \union {r} /\ r \notin At(end)
  BY <1>0 DEF At, InFlight, Classes
<1>3. Cardinality(At(end)') = Cardinality(At(end)) + 1
  BY <1>1, <1>2, FS_AddElement
<1>4. \A k \in Classes \union {"gone"} : k # end => At(k)' = At(k)
  BY <1>0 DEF At, InFlight, Classes
<1>5. ASSUME NEW k \in Classes
      PROVE  counts'[k] = Cardinality(At(k)') + (IF k = "5xx" THEN Cardinality(At("gone")') ELSE 0)
  <2>1. counts[k] = Cardinality(At(k)) + (IF k = "5xx" THEN Cardinality(At("gone")) ELSE 0)
    BY CountsByEnd
  <2>2. counts'[k] = IF k = c THEN counts[k] + 1 ELSE counts[k]
    BY <1>0
  <2>3. k # "gone"
    BY DEF Classes
  <2>4. CASE end = "gone"
    <3>1. Cardinality(At(k)') = Cardinality(At(k))
      BY <1>4, <2>3, <2>4
    <3>2. Cardinality(At("gone")') = Cardinality(At("gone")) + 1
      BY <1>3, <2>4
    <3> QED
      BY <1>1, <2>1, <2>2, <2>4, <3>1, <3>2
  <2>5. CASE end # "gone"
    <3>1. Cardinality(At("gone")') = Cardinality(At("gone"))
      BY <1>4, <2>5
    <3>2. CASE k = end
      <4>1. Cardinality(At(k)') = Cardinality(At(k)) + 1
        BY <1>3, <3>2
      <4> HIDE DEF At
      <4> QED
        BY <1>1, <2>1, <2>2, <2>5, <3>1, <3>2, <4>1
    <3>3. CASE k # end
      <4>1. Cardinality(At(k)') = Cardinality(At(k))
        BY <1>4, <3>3
      <4> QED
        BY <1>1, <2>1, <2>2, <2>5, <3>1, <3>3, <4>1
    <3> QED
      BY <3>2, <3>3
  <2> QED
    BY <2>4, <2>5
<1> QED
  BY <1>5 DEF CountedAsAnswered, At

\* Every step counts the requests it ends, each in its class.
LEMMA CountStep == LifecycleInv /\ CountedAsAnswered /\ [Next]_vars => CountedAsAnswered'
<1> SUFFICES ASSUME LifecycleInv, CountedAsAnswered, [Next]_vars PROVE CountedAsAnswered'
  OBVIOUS
<1> USE DEF httpVars
<1>0. ProcessTypes /\ request \in [Requests -> RequestStates]
  BY DEF LifecycleInv, ProcessTypes
<1>1. /\ \A s \in {"400", "401", "413", "429"} : ClassOf[s] = "4xx"
      /\ ClassOf["500"] = "5xx" /\ ClassOf["200"] = "2xx"
  BY DEF ClassOf, Statuses
<1>2. /\ Observed("413", "200") = "413" /\ \A s \in Statuses : Observed("write error", s) = "500"
      /\ \A s \in Statuses : Observed("none", s) = s
  BY DEF Observed, Statuses
<1>3. ASSUME NEW r \in Requests,
             TooLarge(r) \/ Unauthorized(r) \/ RateLimited(r) \/ Invalid(r)
               \/ Fail(r) \/ Respond(r) \/ WriteFails(r)
      PROVE  CountedAsAnswered'
  <2>1. InFlight(r)
    BY <1>3 DEF TooLarge, Unauthorized, RateLimited, Invalid, Fail, Respond, WriteFails, Answered, InFlight
  <2> QED
    BY <1>0, <1>1, <1>2, <1>3, <2>1, EndIsCounted
    DEF TooLarge, Unauthorized, RateLimited, Invalid, Fail, Respond, WriteFails, Statuses, Classes
<1>4. ASSUME NEW r \in Requests, Arrive(r) \/ SubmitRecord(r) PROVE CountedAsAnswered'
  <2>1. /\ counts' = counts
        /\ \/ request[r] = "new" /\ request' = [request EXCEPT ![r] = "working"]
           \/ request[r] = "working" /\ request' = [request EXCEPT ![r] = "submitted"]
    BY <1>4 DEF Arrive, SubmitRecord
  <2> QED
    BY <1>0, <2>1, NoEndNoCount DEF Classes
<1>5. ASSUME EndProcess PROVE CountedAsAnswered'
  BY <1>0, <1>5, NoEndNoCount DEF EndProcess, InFlight, Classes
<1>6. ASSUME UNCHANGED <<request, counts>> PROVE CountedAsAnswered'
  BY <1>6, NoEndNoCount
<1>7. ASSUME NEW w \in Q!Workers, Commit(w) \/ RunWorker(w) PROVE CountedAsAnswered'
  BY <1>6, <1>7 DEF Commit, RunWorker
<1>8. CASE StartUp \/ RunNotify \/ Signal \/ DeadlinePasses \/ CloseListener \/ HttpClosed
             \/ CloseStore \/ StoreClosed
  BY <1>6, <1>8 DEF StartUp, RunNotify, Signal, DeadlinePasses, CloseListener, HttpClosed,
                    CloseStore, StoreClosed
<1>9. CASE UNCHANGED vars
  BY <1>6, <1>9 DEF vars
<1> QED
  BY <1>3, <1>4, <1>5, <1>7, <1>8, <1>9 DEF Next, Fatal, Leave, Crash, Rest

\* However many requests there are, each that ended is counted once, in the class
\* its client was told (logger.go:101-127).
THEOREM EachIsCountedOnce == Spec => []CountedAsAnswered
<1>1. Init => CountedAsAnswered
  <2> SUFFICES ASSUME Init PROVE CountedAsAnswered
    OBVIOUS
  <2>1. \A k \in Classes \union {"gone"} : At(k) = {}
    BY DEF Init, At, Classes
  <2> QED
    BY <2>1, FS_EmptySet, CountsByEnd DEF Init, Classes
<1> QED
  BY <1>1, CountStep, LifecycleIsSound, PTL DEF Spec
=============================================================================
