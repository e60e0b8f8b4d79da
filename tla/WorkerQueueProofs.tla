------------------------- MODULE WorkerQueueProofs -------------------------
(***************************************************************************)
(* Proofs about WorkerQueue, for every set of jobs and of callers and for  *)
(* every size and number of workers New may be called with.                *)
(***************************************************************************)
EXTENDS WorkerQueue, SequenceTheorems, FiniteSetTheorems, TLAPS

\* The clamp of New: there is always room for a job and always a worker.
LEMMA ClampedParameters ==
  /\ Size \in Nat \ {0}
  /\ 1 \in Workers
  /\ Workers \subseteq Int
BY ParametersAssumption DEF Size, Workers, AtLeastOne

\* Every step keeps the types, the bound of the buffer and the busy hands.
LEMMA TypeCorrectStep == TypeOK /\ [Next]_vars => TypeOK'
<1> SUFFICES ASSUME TypeOK, [Next]_vars PROVE TypeOK'
  OBVIOUS
<1> USE ClampedParameters, ParametersAssumption
        DEF TypeOK, WorkerStates, Answers, Outcomes, CallerStates
<1>1. ASSUME NEW j \in Jobs, SubmitClosed(j) PROVE TypeOK'
  BY <1>1 DEF SubmitClosed
<1>2. ASSUME NEW j \in Jobs, NEW w \in Workers, HandOver(j, w) PROVE TypeOK'
  BY <1>2 DEF HandOver, Accepting
<1>3. ASSUME NEW j \in Jobs, Enqueue(j) PROVE TypeOK'
  BY <1>3 DEF Enqueue, Accepting
<1>4. ASSUME NEW j \in Jobs, SubmitFull(j) PROVE TypeOK'
  BY <1>4 DEF SubmitFull
<1>5. ASSUME NEW w \in Workers, Receive(w) PROVE TypeOK'
  BY <1>5 DEF Receive
<1>6. ASSUME NEW w \in Workers, Park(w) PROVE TypeOK'
  BY <1>6 DEF Park
<1>7. ASSUME NEW w \in Workers, Exit(w) PROVE TypeOK'
  BY <1>7 DEF Exit
<1>8. ASSUME NEW w \in Workers, NEW o \in {"returned", "panicked"}, Execute(w, o)
      PROVE TypeOK'
  BY <1>8 DEF Execute
<1>9. ASSUME NEW c \in Callers, Shutdown(c) PROVE TypeOK'
  BY <1>9 DEF Shutdown
<1>10. ASSUME NEW c \in Callers, Notify(c) PROVE TypeOK'
  BY <1>10 DEF Notify
<1>11. ASSUME NEW c \in Callers, Return(c) PROVE TypeOK'
  BY <1>11 DEF Return, ReturnDrained, ReturnGaveUp
<1>12. ASSUME NEW c \in Callers, Expire(c) PROVE TypeOK'
  BY <1>12 DEF Expire
<1>13. CASE UNCHANGED vars
  BY <1>13 DEF vars
<1> QED
  BY <1>1, <1>2, <1>3, <1>4, <1>5, <1>6, <1>7, <1>8, <1>9, <1>10, <1>11, <1>12, <1>13
  DEF Next, Submit, Work, Terminated

\* A queue just made has the types.
LEMMA InitTypeOK == Init => TypeOK
<1>1. /\ <<>> \in Seq(Jobs)
      /\ Len(<<>>) <= Size
  BY ClampedParameters
<1>2. SUFFICES ASSUME Init PROVE TypeOK
  OBVIOUS
<1>3. /\ jobs \in Seq(Jobs) /\ Len(jobs) <= Size
      /\ accepted \in Seq(Jobs) /\ taken \in Seq(Jobs)
  BY <1>1, <1>2 DEF Init
<1>4. /\ worker \in [Workers -> WorkerStates]
      /\ holding \in [Workers -> Jobs \union {NoJob}]
      /\ \A w \in Workers : (worker[w] = "busy") <=> (holding[w] # NoJob)
  BY <1>2 DEF Init, WorkerStates
<1>5. /\ closed \in BOOLEAN
      /\ answer \in [Jobs -> Answers]
      /\ outcome \in [Jobs -> Outcomes]
      /\ caller \in [Callers -> CallerStates]
      /\ expired \subseteq Callers /\ notified \subseteq Callers
  BY <1>2 DEF Init, Answers, Outcomes, CallerStates
<1>6. QED
  BY <1>3, <1>4, <1>5 DEF TypeOK

\* The queue's variables keep their types, whatever is submitted and however
\* it is shut down.
THEOREM TypeCorrect == Spec => []TypeOK
BY InitTypeOK, TypeCorrectStep, PTL DEF Spec
-----------------------------------------------------------------------------
(***************************************************************************)
(* What Append and Tail do to the elements of a sequence.                  *)
(***************************************************************************)
\* Append adds one element.
LEMMA RangeOfAppend ==
  ASSUME NEW S, NEW s \in Seq(S), NEW e \in S
  PROVE  Range(Append(s, e)) = Range(s) \union {e}
<1>1. /\ DOMAIN s = 1 .. Len(s)
      /\ DOMAIN Append(s, e) = 1 .. Len(s) + 1
      /\ Len(s) \in Nat
  BY AppendProperties, LenProperties
<1>2. QED
  BY <1>1, AppendProperties DEF Range

\* Appending what is not there keeps the elements distinct.
LEMMA InjectiveAppend ==
  ASSUME NEW S, NEW s \in Seq(S), NEW e \in S,
         IsInjective(s), e \notin Range(s)
  PROVE  IsInjective(Append(s, e))
<1>1. /\ DOMAIN s = 1 .. Len(s)
      /\ DOMAIN Append(s, e) = 1 .. Len(s) + 1
      /\ Len(s) \in Nat
  BY AppendProperties, LenProperties
<1>2. QED
  BY <1>1, AppendProperties DEF Range, IsInjective

\* A sequence is its head and what its tail holds.
LEMMA RangeOfTail ==
  ASSUME NEW S, NEW s \in Seq(S), s # <<>>
  PROVE  Range(s) = {Head(s)} \union Range(Tail(s))
<1>1. /\ DOMAIN s = 1 .. Len(s)
      /\ DOMAIN Tail(s) = 1 .. Len(s) - 1
      /\ Len(s) \in Nat \ {0}
      /\ Head(s) = s[1]
  BY HeadTailProperties, LenProperties, EmptySeq
<1>2. \A i \in 1 .. Len(s) - 1 : Tail(s)[i] = s[i + 1]
  BY HeadTailProperties
<1>3. ASSUME NEW x \in Range(s) PROVE x \in {Head(s)} \union Range(Tail(s))
  <2>1. PICK i \in 1 .. Len(s) : x = s[i]
    BY <1>1, <1>3 DEF Range
  <2>2. CASE i = 1
    BY <2>1, <2>2, <1>1
  <2>3. CASE i # 1
    <3>1. i - 1 \in 1 .. Len(s) - 1 /\ Tail(s)[i - 1] = x
      BY <2>1, <2>3, <1>1, <1>2
    <3>2. QED
      BY <3>1, <1>1 DEF Range
  <2>4. QED
    BY <2>2, <2>3
<1>4. ASSUME NEW x \in {Head(s)} \union Range(Tail(s)) PROVE x \in Range(s)
  <2>1. CASE x = Head(s)
    BY <2>1, <1>1 DEF Range
  <2>2. CASE x \in Range(Tail(s))
    <3>1. PICK i \in 1 .. Len(s) - 1 : x = s[i + 1]
      BY <2>2, <1>1, <1>2 DEF Range
    <3>2. i + 1 \in DOMAIN s
      BY <3>1, <1>1
    <3>3. QED
      BY <3>1, <3>2 DEF Range
  <2>3. QED
    BY <1>4, <2>1, <2>2
<1>5. QED
  BY <1>3, <1>4

\* The tail of a sequence of distinct elements does not hold the head.
LEMMA InjectiveTail ==
  ASSUME NEW S, NEW s \in Seq(S), s # <<>>, IsInjective(s)
  PROVE  IsInjective(Tail(s)) /\ Head(s) \notin Range(Tail(s))
<1>1. /\ DOMAIN s = 1 .. Len(s)
      /\ DOMAIN Tail(s) = 1 .. Len(s) - 1
      /\ Len(s) \in Nat \ {0}
      /\ Head(s) = s[1]
  BY HeadTailProperties, LenProperties, EmptySeq
<1>2. \A i \in 1 .. Len(s) - 1 : Tail(s)[i] = s[i + 1] /\ i + 1 \in 1 .. Len(s)
  BY <1>1, HeadTailProperties
<1>3. IsInjective(Tail(s))
  <2>1. SUFFICES ASSUME NEW m \in 1 .. Len(s) - 1, NEW n \in 1 .. Len(s) - 1,
                        Tail(s)[m] = Tail(s)[n]
                 PROVE  m = n
    BY <1>1 DEF IsInjective
  <2>2. s[m + 1] = s[n + 1] /\ m + 1 \in DOMAIN s /\ n + 1 \in DOMAIN s
    BY <1>1, <1>2, <2>1
  <2>3. m + 1 = n + 1
    BY <2>2 DEF IsInjective
  <2>4. QED
    BY <2>3
<1>4. Head(s) \notin Range(Tail(s))
  <2>1. SUFFICES ASSUME NEW i \in 1 .. Len(s) - 1, Tail(s)[i] = s[1] PROVE FALSE
    BY <1>1 DEF Range
  <2>2. s[i + 1] = s[1] /\ i + 1 \in DOMAIN s /\ 1 \in DOMAIN s
    BY <1>1, <1>2, <2>1
  <2>3. i + 1 = 1
    BY <2>2 DEF IsInjective
  <2>4. QED
    BY <2>3
<1>5. QED
  BY <1>3, <1>4
-----------------------------------------------------------------------------
(***************************************************************************)
(* The inductive invariant.  Its parts lean on each other: that nobody     *)
(* sleeps on work makes a hand-over keep the order, the order of the close *)
(* keeps exited workers off new work, and the places of the jobs turn "all *)
(* workers exited" into "all jobs are over".                               *)
(***************************************************************************)
QueueInv == /\ TypeOK
            /\ NoWorkerSleepsOnWork
            /\ CloseIsOrderly
            /\ ReceivedInOrder
            /\ ExactlyOnePlace

\* A queue just made satisfies the inductive invariant.
LEMMA InitQueueInv == Init => QueueInv
<1> SUFFICES ASSUME Init PROVE QueueInv
  OBVIOUS
<1>1. TypeOK
  BY InitTypeOK
<1>2. NoWorkerSleepsOnWork /\ CloseIsOrderly
  BY DEF Init, NoWorkerSleepsOnWork, CloseIsOrderly
<1>3. ReceivedInOrder
  BY ConcatEmptySeq, EmptySeq DEF Init, ReceivedInOrder
<1>4. ExactlyOnePlace
  <2>1. Range(jobs) = {} /\ IsInjective(jobs)
    BY DEF Init, Range, IsInjective
  <2>2. \A j \in Jobs : ~InBuffer(j) /\ ~InHand(j) /\ ~Over(j)
    BY <2>1, ParametersAssumption DEF Init, InBuffer, InHand, Over
  <2>3. \A w \in Workers : holding[w] = NoJob
    BY DEF Init
  <2>4. \A j \in Jobs : answer[j] # "accepted"
    BY DEF Init
  <2>5. QED
    BY <2>1, <2>2, <2>3, <2>4 DEF ExactlyOnePlace
<1>5. QED
  BY <1>1, <1>2, <1>3, <1>4 DEF QueueInv

\* A blocked worker is woken by the job or by the close that ends its sleep.
LEMMA SleepStep == TypeOK /\ NoWorkerSleepsOnWork /\ [Next]_vars => NoWorkerSleepsOnWork'
<1> SUFFICES ASSUME TypeOK, NoWorkerSleepsOnWork, [Next]_vars
             PROVE  NoWorkerSleepsOnWork'
  OBVIOUS
<1> USE DEF TypeOK, NoWorkerSleepsOnWork, SomeParked
<1>1. ASSUME NEW j \in Jobs, SubmitClosed(j) \/ SubmitFull(j) PROVE NoWorkerSleepsOnWork'
  BY <1>1 DEF SubmitClosed, SubmitFull
<1>2. ASSUME NEW j \in Jobs, NEW w \in Workers, HandOver(j, w)
      PROVE  NoWorkerSleepsOnWork'
  BY <1>2 DEF HandOver
<1>3. ASSUME NEW j \in Jobs, Enqueue(j) PROVE NoWorkerSleepsOnWork'
  BY <1>3 DEF Enqueue
<1>4. ASSUME NEW w \in Workers, Receive(w) PROVE NoWorkerSleepsOnWork'
  BY <1>4 DEF Receive
<1>5. ASSUME NEW w \in Workers, Park(w) PROVE NoWorkerSleepsOnWork'
  BY <1>5 DEF Park
<1>6. ASSUME NEW w \in Workers, Exit(w) PROVE NoWorkerSleepsOnWork'
  BY <1>6 DEF Exit
<1>7. ASSUME NEW w \in Workers, NEW o \in {"returned", "panicked"}, Execute(w, o)
      PROVE NoWorkerSleepsOnWork'
  BY <1>7 DEF Execute
<1>8. ASSUME NEW c \in Callers, Shutdown(c) PROVE NoWorkerSleepsOnWork'
  BY <1>8 DEF Shutdown
<1>9. ASSUME NEW c \in Callers, Notify(c) \/ Return(c) \/ Expire(c)
      PROVE  NoWorkerSleepsOnWork'
  BY <1>9 DEF Notify, Return, ReturnDrained, ReturnGaveUp, Expire
<1>10. CASE UNCHANGED vars
  BY <1>10 DEF vars
<1> QED
  BY <1>1, <1>2, <1>3, <1>4, <1>5, <1>6, <1>7, <1>8, <1>9, <1>10
  DEF Next, Submit, Work, Terminated

\* Nothing re-opens the queue, gives an exited worker a job or brings a caller
\* an answer before the WaitGroup.
LEMMA OrderlyStep == TypeOK /\ CloseIsOrderly /\ [Next]_vars => CloseIsOrderly'
<1> SUFFICES ASSUME TypeOK, CloseIsOrderly, [Next]_vars PROVE CloseIsOrderly'
  OBVIOUS
<1> USE DEF TypeOK, CloseIsOrderly, AllExited
<1>1. ASSUME NEW j \in Jobs, SubmitClosed(j) \/ SubmitFull(j) PROVE CloseIsOrderly'
  BY <1>1 DEF SubmitClosed, SubmitFull
<1>2. ASSUME NEW j \in Jobs, NEW w \in Workers, HandOver(j, w) PROVE CloseIsOrderly'
  BY <1>2 DEF HandOver, Accepting
<1>3. ASSUME NEW j \in Jobs, Enqueue(j) PROVE CloseIsOrderly'
  BY <1>3 DEF Enqueue, Accepting
<1>4. ASSUME NEW w \in Workers, Receive(w) PROVE CloseIsOrderly'
  BY <1>4 DEF Receive
<1>5. ASSUME NEW w \in Workers, Park(w) PROVE CloseIsOrderly'
  BY <1>5 DEF Park
<1>6. ASSUME NEW w \in Workers, Exit(w) PROVE CloseIsOrderly'
  BY <1>6 DEF Exit
<1>7. ASSUME NEW w \in Workers, NEW o \in {"returned", "panicked"}, Execute(w, o)
      PROVE CloseIsOrderly'
  BY <1>7 DEF Execute
<1>8. ASSUME NEW c \in Callers, Shutdown(c) PROVE CloseIsOrderly'
  BY <1>8 DEF Shutdown
<1>9. ASSUME NEW c \in Callers, Notify(c) PROVE CloseIsOrderly'
  BY <1>9 DEF Notify
<1>10. ASSUME NEW c \in Callers, Return(c) PROVE CloseIsOrderly'
  BY <1>10 DEF Return, ReturnDrained, ReturnGaveUp
<1>11. ASSUME NEW c \in Callers, Expire(c) PROVE CloseIsOrderly'
  BY <1>11 DEF Expire
<1>12. CASE UNCHANGED vars
  BY <1>12 DEF vars
<1> QED
  BY <1>1, <1>2, <1>3, <1>4, <1>5, <1>6, <1>7, <1>8, <1>9, <1>10, <1>11, <1>12
  DEF Next, Submit, Work, Terminated

\* The channel keeps the order: a job joins the end of accepted together with
\* the end of the buffer, or of taken when the buffer is empty, and moves from
\* the head of the buffer to the end of taken.
LEMMA OrderStep ==
  TypeOK /\ NoWorkerSleepsOnWork /\ ReceivedInOrder /\ [Next]_vars => ReceivedInOrder'
<1> SUFFICES ASSUME TypeOK, NoWorkerSleepsOnWork, ReceivedInOrder, [Next]_vars
             PROVE  ReceivedInOrder'
  OBVIOUS
<1>1. /\ jobs \in Seq(Jobs) /\ accepted \in Seq(Jobs) /\ taken \in Seq(Jobs)
      /\ accepted = taken \o jobs
  BY DEF TypeOK, ReceivedInOrder
<1>2. ASSUME NEW j \in Jobs, NEW w \in Workers, HandOver(j, w) PROVE ReceivedInOrder'
  <2>1. jobs = <<>> /\ jobs' = <<>>
    BY <1>2 DEF HandOver, NoWorkerSleepsOnWork, SomeParked
  <2>2. accepted = taken
    BY <1>1, <2>1, ConcatEmptySeq
  <2>3. accepted' = Append(taken, j) /\ taken' = Append(taken, j)
    BY <1>2, <2>2 DEF HandOver, Accepting
  <2>4. Append(taken, j) \in Seq(Jobs)
    BY <1>1, AppendProperties
  <2>5. QED
    BY <2>1, <2>3, <2>4, ConcatEmptySeq DEF ReceivedInOrder
<1>3. ASSUME NEW j \in Jobs, Enqueue(j) PROVE ReceivedInOrder'
  <2>1. accepted' = Append(taken \o jobs, j) /\ jobs' = Append(jobs, j) /\ taken' = taken
    BY <1>1, <1>3 DEF Enqueue, Accepting
  <2>2. Append(taken \o jobs, j) = (taken \o jobs) \o <<j>>
    BY <1>1, AppendIsConcat, ConcatProperties
  <2>3. Append(jobs, j) = jobs \o <<j>>
    BY <1>1, AppendIsConcat
  <2>4. (taken \o jobs) \o <<j>> = taken \o (jobs \o <<j>>)
    <3>1. <<j>> \in Seq(Jobs)
      OBVIOUS
    <3>2. QED
      BY <1>1, <3>1, ConcatAssociative
  <2>5. QED
    BY <2>1, <2>2, <2>3, <2>4 DEF ReceivedInOrder
<1>4. ASSUME NEW w \in Workers, Receive(w) PROVE ReceivedInOrder'
  <2> DEFINE x == Head(jobs)
  <2>1. /\ jobs # <<>> /\ jobs' = Tail(jobs)
        /\ taken' = Append(taken, x) /\ accepted' = accepted
    BY <1>4 DEF Receive
  <2>2. x \in Jobs /\ Tail(jobs) \in Seq(Jobs) /\ <<x>> \in Seq(Jobs)
    BY <1>1, <2>1, HeadTailProperties
  <2>3. jobs = <<x>> \o Tail(jobs)
    BY <1>1, <2>1
  <2>4. Append(taken, x) = taken \o <<x>>
    BY <1>1, <2>2, AppendIsConcat
  <2>5. (taken \o <<x>>) \o Tail(jobs) = taken \o (<<x>> \o Tail(jobs))
    BY <1>1, <2>2, ConcatAssociative
  <2> HIDE DEF x
  <2>6. QED
    BY <1>1, <2>1, <2>3, <2>4, <2>5 DEF ReceivedInOrder
<1>5. CASE UNCHANGED <<jobs, accepted, taken>>
  BY <1>5 DEF ReceivedInOrder
<1>6. QED
  BY <1>2, <1>3, <1>4, <1>5
  DEF Next, Submit, SubmitClosed, SubmitFull, Work, Park, Exit, Execute, Shutdown,
      Notify, Return, ReturnDrained, ReturnGaveUp, Expire, Terminated, vars

\* A step that leaves the buffer, the hands and the outcomes alone, and accepts
\* nothing, leaves every job where it is.
LEMMA PlaceUnchanged ==
  ASSUME ExactlyOnePlace,
         UNCHANGED <<jobs, holding, outcome>>,
         \A j \in Jobs : (answer'[j] = "accepted") <=> (answer[j] = "accepted")
  PROVE  ExactlyOnePlace'
BY DEF ExactlyOnePlace, InBuffer, InHand, Over

\* A job that Submit has not answered yet is nowhere.
LEMMA UnansweredIsNowhere ==
  ASSUME ExactlyOnePlace, NEW j \in Jobs, answer[j] = "none"
  PROVE  ~InBuffer(j) /\ ~InHand(j) /\ ~Over(j)
BY DEF ExactlyOnePlace

\* A job handed to a blocked worker was nowhere and is in that worker's hand.
LEMMA PlaceHandOver ==
  ASSUME TypeOK, ExactlyOnePlace, NEW j \in Jobs, NEW w \in Workers, HandOver(j, w)
  PROVE  ExactlyOnePlace'
<1>1. /\ answer' = [answer EXCEPT ![j] = "accepted"] /\ answer[j] = "none"
      /\ holding' = [holding EXCEPT ![w] = j] /\ holding[w] = NoJob
      /\ jobs' = jobs /\ outcome' = outcome
      /\ holding \in [Workers -> Jobs \union {NoJob}]
      /\ answer \in [Jobs -> Answers]
  BY DEF HandOver, Accepting, TypeOK
<1>2. ~InBuffer(j) /\ ~InHand(j) /\ ~Over(j)
  BY <1>1, UnansweredIsNowhere
<1>3. \A i \in Jobs : /\ InBuffer(i)' <=> InBuffer(i)
                      /\ Over(i)' <=> Over(i)
                      /\ InHand(i)' <=> (InHand(i) \/ i = j)
  BY <1>1, ParametersAssumption DEF InBuffer, Over, InHand
<1>4. \A u, v \in Workers : holding'[u] = holding'[v] /\ holding'[u] # NoJob => u = v
  BY <1>1, <1>2 DEF ExactlyOnePlace, InHand
<1>5. QED
  BY <1>1, <1>2, <1>3, <1>4 DEF ExactlyOnePlace

\* A job that is enqueued was nowhere and is in the buffer, once.
LEMMA PlaceEnqueue ==
  ASSUME TypeOK, ExactlyOnePlace, NEW j \in Jobs, Enqueue(j)
  PROVE  ExactlyOnePlace'
<1>1. /\ answer' = [answer EXCEPT ![j] = "accepted"] /\ answer[j] = "none"
      /\ jobs' = Append(jobs, j) /\ holding' = holding /\ outcome' = outcome
      /\ jobs \in Seq(Jobs) /\ answer \in [Jobs -> Answers]
  BY DEF Enqueue, Accepting, TypeOK
<1>2. ~InBuffer(j) /\ ~InHand(j) /\ ~Over(j)
  BY <1>1, UnansweredIsNowhere
<1>3. Range(jobs') = Range(jobs) \union {j}
  BY <1>1, RangeOfAppend
<1>4. IsInjective(jobs')
  BY <1>1, <1>2, InjectiveAppend DEF ExactlyOnePlace, InBuffer
<1>5. \A i \in Jobs : /\ InBuffer(i)' <=> (InBuffer(i) \/ i = j)
                      /\ Over(i)' <=> Over(i)
                      /\ InHand(i)' <=> InHand(i)
  BY <1>1, <1>3 DEF InBuffer, Over, InHand
<1>6. QED
  BY <1>1, <1>2, <1>4, <1>5 DEF ExactlyOnePlace

\* A received job moves from the buffer into one hand.
LEMMA PlaceReceive ==
  ASSUME TypeOK, ExactlyOnePlace, NEW w \in Workers, Receive(w)
  PROVE  ExactlyOnePlace'
<1> DEFINE x == Head(jobs)
<1>1. /\ jobs # <<>> /\ jobs' = Tail(jobs)
      /\ holding' = [holding EXCEPT ![w] = x] /\ holding[w] = NoJob
      /\ answer' = answer /\ outcome' = outcome
      /\ holding \in [Workers -> Jobs \union {NoJob}] /\ jobs \in Seq(Jobs)
  BY DEF Receive, TypeOK
<1>2. x \in Jobs /\ Range(jobs) = {x} \union Range(jobs')
  BY <1>1, HeadTailProperties, RangeOfTail
<1>3. IsInjective(jobs') /\ x \notin Range(jobs')
  BY <1>1, InjectiveTail DEF ExactlyOnePlace
<1> HIDE DEF x
<1>4. InBuffer(x) /\ ~InHand(x) /\ ~Over(x)
  BY <1>2 DEF InBuffer, ExactlyOnePlace
<1>5. \A i \in Jobs : /\ InBuffer(i)' <=> (InBuffer(i) /\ i # x)
                      /\ Over(i)' <=> Over(i)
                      /\ InHand(i)' <=> (InHand(i) \/ i = x)
  BY <1>1, <1>2, <1>3, ParametersAssumption DEF InBuffer, Over, InHand
<1>6. \A u, v \in Workers : holding'[u] = holding'[v] /\ holding'[u] # NoJob => u = v
  BY <1>1, <1>4 DEF ExactlyOnePlace, InHand
<1>7. QED
  BY <1>1, <1>2, <1>3, <1>4, <1>5, <1>6 DEF ExactlyOnePlace

\* An executed job leaves its hand and is over, also when it panicked.
LEMMA PlaceExecute ==
  ASSUME TypeOK, ExactlyOnePlace, NEW w \in Workers,
         NEW o \in {"returned", "panicked"}, Execute(w, o)
  PROVE  ExactlyOnePlace'
<1> DEFINE x == holding[w]
<1>1. /\ holding' = [holding EXCEPT ![w] = NoJob] /\ x # NoJob
      /\ outcome' = [outcome EXCEPT ![x] = o]
      /\ jobs' = jobs /\ answer' = answer
      /\ holding \in [Workers -> Jobs \union {NoJob}] /\ outcome \in [Jobs -> Outcomes]
  BY DEF Execute, TypeOK
<1>2. x \in Jobs
  BY <1>1
<1>3. InHand(x) /\ ~InBuffer(x) /\ ~Over(x)
  BY <1>2 DEF ExactlyOnePlace, InHand
<1>4. \A v \in Workers : holding[v] = x => v = w
  BY <1>1 DEF ExactlyOnePlace
<1> HIDE DEF x
<1>5. \A i \in Jobs : /\ InBuffer(i)' <=> InBuffer(i)
                      /\ Over(i)' <=> (Over(i) \/ i = x)
                      /\ InHand(i)' <=> (InHand(i) /\ i # x)
  <2>1. \A i \in Jobs : InBuffer(i)' <=> InBuffer(i)
    BY <1>1 DEF InBuffer
  <2>2. \A i \in Jobs : Over(i)' <=> (Over(i) \/ i = x)
    BY <1>1, <1>2 DEF Over
  <2>3. \A i \in Jobs : InHand(i)' <=> (InHand(i) /\ i # x)
    BY <1>1, <1>4, ParametersAssumption DEF InHand, x
  <2>4. QED
    BY <2>1, <2>2, <2>3
<1>6. \A u, v \in Workers : holding'[u] = holding'[v] /\ holding'[u] # NoJob => u = v
  BY <1>1 DEF ExactlyOnePlace
<1>7. QED
  BY <1>1, <1>2, <1>3, <1>5, <1>6 DEF ExactlyOnePlace

\* Every step leaves every accepted job in exactly one place.
LEMMA PlaceStep == TypeOK /\ ExactlyOnePlace /\ [Next]_vars => ExactlyOnePlace'
<1> SUFFICES ASSUME TypeOK, ExactlyOnePlace, [Next]_vars PROVE ExactlyOnePlace'
  OBVIOUS
<1>1. ASSUME NEW j \in Jobs, SubmitClosed(j) \/ SubmitFull(j) PROVE ExactlyOnePlace'
  <2>1. /\ UNCHANGED <<jobs, holding, outcome>>
        /\ answer[j] = "none" /\ answer \in [Jobs -> Answers]
        /\ \/ answer' = [answer EXCEPT ![j] = "closed"]
           \/ answer' = [answer EXCEPT ![j] = "full"]
    BY <1>1 DEF SubmitClosed, SubmitFull, TypeOK
  <2>2. \A i \in Jobs : (answer'[i] = "accepted") <=> (answer[i] = "accepted")
    BY <2>1
  <2>3. QED
    BY <2>1, <2>2, PlaceUnchanged
<1>2. CASE UNCHANGED <<jobs, holding, outcome, answer>>
  BY <1>2, PlaceUnchanged
<1>3. QED
  BY <1>1, <1>2, PlaceHandOver, PlaceEnqueue, PlaceReceive, PlaceExecute
  DEF Next, Submit, Work, Park, Exit, Shutdown, Notify, Return, ReturnDrained,
      ReturnGaveUp, Expire, Terminated, vars

\* Every step keeps the inductive invariant.
LEMMA QueueInvStep == QueueInv /\ [Next]_vars => QueueInv'
BY TypeCorrectStep, SleepStep, OrderlyStep, OrderStep, PlaceStep DEF QueueInv

\* The invariant holds in every reachable state.
THEOREM QueueIsSound == Spec => []QueueInv
BY InitQueueInv, QueueInvStep, PTL DEF Spec

\* A worker never sleeps while a job waits in the buffer.
THEOREM NoLostWakeUp == Spec => []NoWorkerSleepsOnWork
BY QueueIsSound, PTL DEF QueueInv

\* The close comes before the exits, the exits before the answer.
THEOREM CloseInOrder == Spec => []CloseIsOrderly
BY QueueIsSound, PTL DEF QueueInv

\* Jobs are received in the order they were accepted, none lost, none twice.
THEOREM FirstInFirstOut == Spec => []ReceivedInOrder
BY QueueIsSound, PTL DEF QueueInv

\* A job runs once: it is never in two hands, never both waiting and over.
THEOREM JobsRunOnce == Spec => []ExactlyOnePlace
BY QueueIsSound, PTL DEF QueueInv
-----------------------------------------------------------------------------
\* When all workers have exited, all accepted jobs are over.
LEMMA ExitedMeansHandled == QueueInv /\ AllExited => Unfinished = {}
<1> SUFFICES ASSUME QueueInv, AllExited, NEW j \in Jobs, answer[j] = "accepted"
             PROVE  Over(j)
  BY DEF Unfinished
<1>1. jobs = <<>>
  BY ClampedParameters DEF QueueInv, AllExited, CloseIsOrderly
<1>2. \A w \in Workers : holding[w] = NoJob
  BY DEF QueueInv, AllExited, TypeOK
<1>3. ~InBuffer(j) /\ ~InHand(j)
  BY <1>1, <1>2, ParametersAssumption DEF InBuffer, InHand, Range
<1>4. QED
  BY <1>3 DEF QueueInv, ExactlyOnePlace

\* The values of a function on a finite domain are finitely many.
LEMMA ValuesAreFinite ==
  ASSUME NEW S, IsFiniteSet(S), NEW f, DOMAIN f = S
  PROVE  IsFiniteSet({f[x] : x \in S})
<1> DEFINE T == {f[x] : x \in S}
           g == [x \in S |-> f[x]]
<1>1. g \in [S -> T] /\ \A t \in T : \E x \in S : g[x] = t
  OBVIOUS
<1>2. g \in Surjection(S, T)
  BY <1>1 DEF Surjection
<1> QED
  BY <1>2, FS_Surjection

\* What is unfinished is in the buffer or in one of the hands: finitely many.
LEMMA UnfinishedIsFinite ==
  ASSUME TypeOK, ExactlyOnePlace
  PROVE  IsFiniteSet(Unfinished)
<1> DEFINE waiting == {jobs[i] : i \in 1..Len(jobs)}
           held    == {holding[w] : w \in Workers}
<1>1. Len(jobs) \in Nat /\ DOMAIN jobs = 1..Len(jobs)
  BY LenProperties DEF TypeOK
<1>2. IsFiniteSet(waiting)
  <2>1. IsFiniteSet(1..Len(jobs))
    BY <1>1, FS_Interval
  <2> QED
    BY <1>1, <2>1, ValuesAreFinite
<1>3. IsFiniteSet(held)
  <2>1. AtLeastOne(WorkerCount) \in Int
    BY ParametersAssumption DEF AtLeastOne
  <2>2. IsFiniteSet(Workers)
    BY <2>1, FS_Interval DEF Workers
  <2>3. DOMAIN holding = Workers
    BY DEF TypeOK
  <2> QED
    BY <2>2, <2>3, ValuesAreFinite
<1>4. IsFiniteSet(waiting \union held)
  BY <1>2, <1>3, FS_Union
<1>5. Unfinished \subseteq waiting \union held
  BY <1>1 DEF Unfinished, ExactlyOnePlace, InBuffer, InHand, Range
<1> QED
  BY <1>4, <1>5, FS_Subset

\* The jobs in the buffer are as many unfinished ones.
LEMMA BufferIsUnfinished ==
  ASSUME TypeOK, ExactlyOnePlace
  PROVE  Cardinality(Unfinished) \in Nat /\ Len(jobs) <= Cardinality(Unfinished)
<1>1. Len(jobs) \in Nat /\ DOMAIN jobs = 1..Len(jobs) /\ \A i \in 1..Len(jobs) : jobs[i] \in Jobs
  BY LenProperties, ElementOfSeq DEF TypeOK
<1>2. \A i \in 1..Len(jobs) : jobs[i] \in Unfinished
  <2> TAKE i \in 1..Len(jobs)
  <2>1. InBuffer(jobs[i]) /\ jobs[i] \in Jobs
    BY <1>1 DEF InBuffer, Range
  <2> QED
    BY <2>1 DEF ExactlyOnePlace, Unfinished
<1> DEFINE g == [i \in 1..Len(jobs) |-> jobs[i]]
<1>3. g \in [1..Len(jobs) -> Unfinished] /\ \A i, k \in 1..Len(jobs) : g[i] = g[k] => i = k
  BY <1>1, <1>2 DEF ExactlyOnePlace, IsInjective
<1>4. g \in Injection(1..Len(jobs), Unfinished)
  BY <1>3 DEF Injection, IsInjective
<1>5. Cardinality(1..Len(jobs)) <= Cardinality(Unfinished)
  BY <1>4, UnfinishedIsFinite, FS_Injection
<1>6. Cardinality(1..Len(jobs)) = Len(jobs)
  BY <1>1, FS_Interval
<1> QED
  BY <1>5, <1>6, UnfinishedIsFinite, FS_CardinalityType

\* For every size: Submit refuses only when a buffer's worth of accepted jobs is
\* unfinished (queue.go:69-77).
THEOREM RefusesAtCapacity == Spec => RefusedOnlyAtCapacity
<1> DEFINE Refused == \A j \in Jobs : answer'[j] = "full" /\ answer[j] = "none" => Cardinality(Unfinished) >= Size
<1>1. QueueInv /\ [Next]_vars => [Refused]_vars
  <2> SUFFICES ASSUME QueueInv, Next, NEW j \in Jobs, answer'[j] = "full", answer[j] = "none"
               PROVE  Cardinality(Unfinished) >= Size
    OBVIOUS
  <2>1. Len(jobs) >= Size
    <3>1. CASE \E k \in Jobs : SubmitFull(k)
      BY <3>1 DEF SubmitFull
    <3>2. ASSUME NEW k \in Jobs, SubmitClosed(k) \/ Accepting(k) PROVE answer'[j] # "full"
      BY <3>2 DEF SubmitClosed, Accepting, QueueInv, TypeOK
    <3>3. ASSUME answer' = answer PROVE FALSE
      BY <3>3
    <3> QED
      BY <3>1, <3>2, <3>3 DEF Next, Submit, HandOver, Enqueue, Work, Receive, Park, Exit, Execute,
         Shutdown, Notify, Return, ReturnDrained, ReturnGaveUp, Expire, Terminated, vars
  <2> QED
    BY <2>1, BufferIsUnfinished, LenProperties, ClampedParameters DEF QueueInv, TypeOK
<1> QED
  BY <1>1, QueueIsSound, PTL DEF Spec, RefusedOnlyAtCapacity

\* What Shutdown's nil means follows from the invariant.
LEMMA InvMeansDrainedHandled == QueueInv => DrainedMeansHandled
BY ExitedMeansHandled DEF QueueInv, CloseIsOrderly, DrainedMeansHandled

\* A nil from Shutdown means that every job ever accepted is over.
THEOREM ShutdownDrains == Spec => []DrainedMeansHandled
BY QueueIsSound, InvMeansDrainedHandled, PTL
-----------------------------------------------------------------------------
(***************************************************************************)
(* The refinement: every step of the queue is a step of DrainPromise or    *)
(* leaves its variables alone.                                             *)
(***************************************************************************)
Handled == {j \in Jobs : Over(j)}
ToldNil == {c \in Callers : caller[c] = "drained"}

\* A step that accepts, finishes and tells nothing is a stutter of the promise.
LEMMA PromiseUnchanged ==
  ASSUME UNCHANGED <<closed, outcome>>, ToldNil' = ToldNil,
         \A j \in Jobs : (answer'[j] = "accepted") <=> (answer[j] = "accepted")
  PROVE  UNCHANGED Promise!vars
<1>1. Unfinished' = Unfinished /\ Handled' = Handled
  BY DEF Unfinished, Handled, Over
<1>2. QED
  BY <1>1 DEF Promise!vars, Handled, ToldNil

\* Both ways to accept a job are the promise's Accept.
LEMMA AcceptKeepsPromise ==
  ASSUME QueueInv, NEW j \in Jobs, Accepting(j), UNCHANGED <<closed, outcome, caller>>
  PROVE  Promise!Accept(j)
<1>1. /\ answer[j] = "none" /\ ~closed
      /\ answer' = [answer EXCEPT ![j] = "accepted"] /\ answer \in [Jobs -> Answers]
  BY DEF Accepting, QueueInv, TypeOK
<1>2. ~Over(j)
  BY <1>1 DEF QueueInv, ExactlyOnePlace
<1>3. Unfinished' = Unfinished \union {j} /\ j \notin Unfinished
  BY <1>1, <1>2 DEF Unfinished, Over
<1>4. Handled' = Handled /\ j \notin Handled /\ ToldNil' = ToldNil
  BY <1>2 DEF Handled, Over, ToldNil
<1>5. QED
  BY <1>1, <1>3, <1>4 DEF Promise!Accept, Handled, ToldNil

\* Execution, returned or panicked, is the promise's Handle.
LEMMA ExecuteKeepsPromise ==
  ASSUME QueueInv, NEW w \in Workers, NEW o \in {"returned", "panicked"}, Execute(w, o)
  PROVE  Promise!Handle(holding[w]) /\ holding[w] \in Jobs
<1> DEFINE x == holding[w]
<1>1. /\ x \in Jobs /\ outcome' = [outcome EXCEPT ![x] = o]
      /\ outcome \in [Jobs -> Outcomes] /\ UNCHANGED <<answer, closed, caller>>
  BY DEF Execute, QueueInv, TypeOK
<1>2. answer[x] = "accepted" /\ ~Over(x)
  BY <1>1 DEF QueueInv, ExactlyOnePlace, InHand
<1> HIDE DEF x
<1>3. x \in Unfinished /\ Unfinished' = Unfinished \ {x}
  BY <1>1, <1>2 DEF Unfinished, Over
<1>4. Handled' = Handled \union {x} /\ ToldNil' = ToldNil
  BY <1>1 DEF Handled, Over, ToldNil
<1>5. QED
  BY <1>1, <1>3, <1>4 DEF Promise!Handle, Handled, ToldNil, x

\* Every step of the queue maps to a step of the promise or to a stutter.
LEMMA StepKeepsPromise == QueueInv /\ [Next]_vars => [Promise!Next]_(Promise!vars)
<1> SUFFICES ASSUME QueueInv, [Next]_vars PROVE [Promise!Next]_(Promise!vars)
  OBVIOUS
<1>1. ASSUME NEW j \in Jobs, SubmitClosed(j) \/ SubmitFull(j)
      PROVE  UNCHANGED Promise!vars
  <2>1. /\ UNCHANGED <<closed, outcome, caller>>
        /\ answer[j] = "none" /\ answer \in [Jobs -> Answers]
        /\ \/ answer' = [answer EXCEPT ![j] = "closed"]
           \/ answer' = [answer EXCEPT ![j] = "full"]
    BY <1>1 DEF SubmitClosed, SubmitFull, QueueInv, TypeOK
  <2>2. ToldNil' = ToldNil
    BY <2>1 DEF ToldNil
  <2>3. \A i \in Jobs : (answer'[i] = "accepted") <=> (answer[i] = "accepted")
    BY <2>1
  <2>4. QED
    BY <2>1, <2>2, <2>3, PromiseUnchanged
<1>2. ASSUME NEW j \in Jobs, \/ Enqueue(j)
                             \/ \E w \in Workers : HandOver(j, w)
      PROVE  Promise!Accept(j)
  BY <1>2, AcceptKeepsPromise DEF Enqueue, HandOver
<1>3. ASSUME NEW w \in Workers, Receive(w) \/ Park(w) \/ Exit(w)
      PROVE  UNCHANGED Promise!vars
  <2>1. UNCHANGED <<closed, outcome, answer, caller>>
    BY <1>3 DEF Receive, Park, Exit
  <2>2. ToldNil' = ToldNil
    BY <2>1 DEF ToldNil
  <2>3. QED
    BY <2>1, <2>2, PromiseUnchanged
<1>4. ASSUME NEW w \in Workers, NEW o \in {"returned", "panicked"}, Execute(w, o)
      PROVE  \E j \in Jobs : Promise!Handle(j)
  BY <1>4, ExecuteKeepsPromise
<1>5. ASSUME NEW c \in Callers, Shutdown(c)
      PROVE  Promise!Stop \/ UNCHANGED Promise!vars
  <2>1. /\ closed' = TRUE /\ UNCHANGED <<answer, outcome>>
        /\ caller' = [caller EXCEPT ![c] = "waiting"] /\ caller[c] = "idle"
        /\ caller \in [Callers -> CallerStates] /\ closed \in BOOLEAN
    BY <1>5 DEF Shutdown, QueueInv, TypeOK
  <2>2. ToldNil' = ToldNil
    BY <2>1 DEF ToldNil
  <2>3. CASE closed
    BY <2>1, <2>2, <2>3, PromiseUnchanged
  <2>4. CASE ~closed
    <3>1. Unfinished' = Unfinished /\ Handled' = Handled
      BY <2>1 DEF Unfinished, Handled, Over
    <3>2. QED
      BY <2>1, <2>2, <2>4, <3>1 DEF Promise!Stop, Handled, ToldNil
  <2>5. QED
    BY <2>1, <2>3, <2>4
<1>6. ASSUME NEW c \in Callers, Notify(c) \/ Expire(c)
      PROVE  UNCHANGED Promise!vars
  <2>1. UNCHANGED <<closed, outcome, answer, caller>>
    BY <1>6 DEF Notify, Expire
  <2>2. ToldNil' = ToldNil
    BY <2>1 DEF ToldNil
  <2>3. QED
    BY <2>1, <2>2, PromiseUnchanged
<1>7. ASSUME NEW c \in Callers, ReturnDrained(c) PROVE Promise!Tell(c)
  <2>1. /\ caller[c] = "waiting" /\ c \in notified
        /\ caller' = [caller EXCEPT ![c] = "drained"]
        /\ caller \in [Callers -> CallerStates]
        /\ UNCHANGED <<closed, answer, outcome>>
    BY <1>7 DEF ReturnDrained, QueueInv, TypeOK
  <2>2. closed /\ Unfinished = {}
    BY <2>1, ExitedMeansHandled DEF QueueInv, CloseIsOrderly
  <2>3. ToldNil' = ToldNil \union {c}
    BY <2>1 DEF ToldNil
  <2>4. Unfinished' = Unfinished /\ Handled' = Handled
    BY <2>1 DEF Unfinished, Handled, Over
  <2>5. QED
    BY <2>1, <2>2, <2>3, <2>4 DEF Promise!Tell, Handled, ToldNil
<1>8. ASSUME NEW c \in Callers, ReturnGaveUp(c) PROVE UNCHANGED Promise!vars
  <2>1. /\ caller[c] = "waiting" /\ caller' = [caller EXCEPT ![c] = "gaveUp"]
        /\ caller \in [Callers -> CallerStates]
        /\ UNCHANGED <<closed, answer, outcome>>
    BY <1>8 DEF ReturnGaveUp, QueueInv, TypeOK
  <2>2. ToldNil' = ToldNil
    BY <2>1 DEF ToldNil
  <2>3. QED
    BY <2>1, <2>2, PromiseUnchanged
<1>9. CASE UNCHANGED vars
  <2>1. UNCHANGED <<closed, outcome, answer, caller>>
    BY <1>9 DEF vars
  <2>2. ToldNil' = ToldNil
    BY <2>1 DEF ToldNil
  <2>3. QED
    BY <2>1, <2>2, PromiseUnchanged
<1>10. QED
  BY <1>1, <1>2, <1>3, <1>4, <1>5, <1>6, <1>7, <1>8, <1>9
  DEF Next, Submit, Work, Return, Terminated, Promise!Next

\* A queue just made maps to the promise's initial state.
LEMMA InitKeepsPromise == Init => Promise!Init
BY DEF Init, Promise!Init, Unfinished, Over

\* The queue implements the safety part of DrainPromise.
THEOREM QueueKeepsPromise == Spec => Promise!Safety
BY QueueIsSound, InitKeepsPromise, StepKeepsPromise, PTL DEF Spec, Promise!Safety
=============================================================================
