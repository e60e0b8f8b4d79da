---------------------------- MODULE WorkerQueue ----------------------------
(***************************************************************************)
(* internal/queue/queue.go: one buffered Go channel, a fixed set of worker *)
(* goroutines, a mutex that orders Submit against the close in Shutdown,   *)
(* and a WaitGroup the callers of Shutdown wait on.                        *)
(*                                                                         *)
(* The channel is modelled as the Go runtime runs it, because the corner   *)
(* cases of the queue come from there: a send finds a receiver already     *)
(* blocked on the empty channel and hands the job over without using the   *)
(* buffer, or it appends to the buffer, or the buffer is full; a close     *)
(* releases every blocked receiver; receivers empty the buffer of a closed *)
(* channel before `range` ends.                                            *)
(***************************************************************************)
EXTENDS Integers, Sequences, FiniteSets, Functions

CONSTANTS Jobs,         \* each element is one job value, submitted at most once
          Callers,      \* goroutines that may call Shutdown, each with its ctx
          QueueSize,    \* the size New is called with
          WorkerCount,  \* the workers New is called with
          NoJob         \* the empty hand of a worker

ASSUME ParametersAssumption == /\ QueueSize \in Int
                               /\ WorkerCount \in Int
                               /\ NoJob \notin Jobs

\* New clamps both parameters: a queue always has room and a worker.
AtLeastOne(n) == IF n < 1 THEN 1 ELSE n
Size          == AtLeastOne(QueueSize)
Workers       == 1 .. AtLeastOne(WorkerCount)

VARIABLES
  jobs,      \* the channel's buffer
  closed,    \* q.closed, which is also "the channel is closed"
  worker,    \* where each worker goroutine is
  holding,   \* the job a worker is executing
  answer,    \* what Submit returned for a job
  accepted,  \* history: the accepted jobs, in order
  taken,     \* history: the jobs workers received, in order
  outcome,   \* history: how the execution of a job ended
  caller,    \* where each caller of Shutdown is
  expired,   \* callers whose ctx is done
  notified   \* callers whose `done` channel is closed

vars == <<jobs, closed, worker, holding, answer, accepted, taken, outcome,
          caller, expired, notified>>

\* "ready" is about to receive, "parked" is blocked in the receive.
WorkerStates == {"ready", "parked", "busy", "exited"}
Answers      == {"none", "accepted", "full", "closed"}
Outcomes     == {"pending", "returned", "panicked"}
CallerStates == {"idle", "waiting", "drained", "gaveUp"}

Init == /\ jobs = <<>>
        /\ closed = FALSE
        /\ worker = [w \in Workers |-> "ready"]
        /\ holding = [w \in Workers |-> NoJob]
        /\ answer = [j \in Jobs |-> "none"]
        /\ accepted = <<>>
        /\ taken = <<>>
        /\ outcome = [j \in Jobs |-> "pending"]
        /\ caller = [c \in Callers |-> "idle"]
        /\ expired = {}
        /\ notified = {}

\* Slip: the WaitGroup is incremented once for all workers.
OneExited == \E w \in Workers : worker[w] = "exited"

AllExited == \A w \in Workers : worker[w] = "exited"
SomeParked == \E w \in Workers : worker[w] = "parked"
-----------------------------------------------------------------------------
(***************************************************************************)
(* Submit holds the mutex from the test of q.closed to the end of the      *)
(* select, and the select is one atomic channel operation: each outcome is *)
(* one step.                                                               *)
(***************************************************************************)
SubmitClosed(j) ==
  /\ answer[j] = "none"
  /\ closed
  /\ answer' = [answer EXCEPT ![j] = "closed"]
  /\ UNCHANGED <<jobs, closed, worker, holding, accepted, taken, outcome,
                 caller, expired, notified>>

\* Slip: q.closed is not looked at.
AcceptingWhenClosed(j) ==
  /\ answer[j] = "none"
  /\ answer' = [answer EXCEPT ![j] = "accepted"]
  /\ accepted' = Append(accepted, j)

Accepting(j) ==
  /\ answer[j] = "none"
  /\ ~closed
  /\ answer' = [answer EXCEPT ![j] = "accepted"]
  /\ accepted' = Append(accepted, j)

\* A receiver is blocked: it gets the job without passing through the buffer.
HandOver(j, w) ==
  /\ Accepting(j)
  /\ worker[w] = "parked"
  /\ worker' = [worker EXCEPT ![w] = "busy"]
  /\ holding' = [holding EXCEPT ![w] = j]
  /\ taken' = Append(taken, j)
  /\ UNCHANGED <<jobs, closed, outcome, caller, expired, notified>>

\* Slip: room for one job more than the buffer has.
EnqueueOneTooMany(j) ==
  /\ Accepting(j)
  /\ ~SomeParked
  /\ Len(jobs) <= Size
  /\ jobs' = Append(jobs, j)
  /\ UNCHANGED <<closed, worker, holding, taken, outcome, caller, expired,
                 notified>>

\* Slip: the buffer is used although a worker sleeps.
EnqueueBesideSleeper(j) ==
  /\ Accepting(j)
  /\ Len(jobs) < Size
  /\ jobs' = Append(jobs, j)
  /\ UNCHANGED <<closed, worker, holding, taken, outcome, caller, expired,
                 notified>>

Enqueue(j) ==
  /\ Accepting(j)
  /\ ~SomeParked
  /\ Len(jobs) < Size
  /\ jobs' = Append(jobs, j)
  /\ UNCHANGED <<closed, worker, holding, taken, outcome, caller, expired,
                 notified>>

\* Slip: the last place of the buffer is never used.
SubmitFullEarly(j) ==
  /\ answer[j] = "none"
  /\ ~closed
  /\ ~SomeParked
  /\ Len(jobs) >= Size - 1
  /\ answer' = [answer EXCEPT ![j] = "full"]
  /\ UNCHANGED <<jobs, closed, worker, holding, accepted, taken, outcome,
                 caller, expired, notified>>

SubmitFull(j) ==
  /\ answer[j] = "none"
  /\ ~closed
  /\ ~SomeParked
  /\ Len(jobs) >= Size
  /\ answer' = [answer EXCEPT ![j] = "full"]
  /\ UNCHANGED <<jobs, closed, worker, holding, accepted, taken, outcome,
                 caller, expired, notified>>

Submit(j) == \/ SubmitClosed(j)
             \/ \E w \in Workers : HandOver(j, w)
             \/ Enqueue(j)
             \/ SubmitFull(j)
-----------------------------------------------------------------------------
(***************************************************************************)
(* A worker: `for job := range q.jobs { q.execute(job) }`.                 *)
(***************************************************************************)

\* Slip: the buffer is a stack.
ReceiveNewest(w) ==
  /\ worker[w] = "ready"
  /\ jobs # <<>>
  /\ jobs' = SubSeq(jobs, 1, Len(jobs) - 1)
  /\ worker' = [worker EXCEPT ![w] = "busy"]
  /\ holding' = [holding EXCEPT ![w] = jobs[Len(jobs)]]
  /\ taken' = Append(taken, jobs[Len(jobs)])
  /\ UNCHANGED <<closed, answer, accepted, outcome, caller, expired, notified>>

Receive(w) ==
  /\ worker[w] = "ready"
  /\ jobs # <<>>
  /\ jobs' = Tail(jobs)
  /\ worker' = [worker EXCEPT ![w] = "busy"]
  /\ holding' = [holding EXCEPT ![w] = Head(jobs)]
  /\ taken' = Append(taken, Head(jobs))
  /\ UNCHANGED <<closed, answer, accepted, outcome, caller, expired, notified>>

Park(w) ==
  /\ worker[w] = "ready"
  /\ jobs = <<>>
  /\ ~closed
  /\ worker' = [worker EXCEPT ![w] = "parked"]
  /\ UNCHANGED <<jobs, closed, holding, answer, accepted, taken, outcome,
                 caller, expired, notified>>

\* Slip: a worker leaves as soon as it sees the close.
ExitOnClose(w) ==
  /\ worker[w] = "ready"
  /\ closed
  /\ worker' = [worker EXCEPT ![w] = "exited"]
  /\ UNCHANGED <<jobs, closed, holding, answer, accepted, taken, outcome,
                 caller, expired, notified>>

\* The loop ends on a closed and empty channel; the deferred wg.Done runs.
Exit(w) ==
  /\ worker[w] = "ready"
  /\ jobs = <<>>
  /\ closed
  /\ worker' = [worker EXCEPT ![w] = "exited"]
  /\ UNCHANGED <<jobs, closed, holding, answer, accepted, taken, outcome,
                 caller, expired, notified>>

\* Slip: a job that panicked is queued again.
ExecuteAgain(w, o) ==
  /\ worker[w] = "busy"
  /\ worker' = [worker EXCEPT ![w] = "ready"]
  /\ outcome' = [outcome EXCEPT ![holding[w]] = o]
  /\ holding' = [holding EXCEPT ![w] = NoJob]
  /\ jobs' = IF o = "panicked" THEN Append(jobs, holding[w]) ELSE jobs
  /\ UNCHANGED <<closed, answer, accepted, taken, caller, expired, notified>>

\* Slip: a panic ends the worker.
ExecuteUnrecovered(w, o) ==
  /\ worker[w] = "busy"
  /\ worker' = [worker EXCEPT ![w] = IF o = "panicked" THEN "exited" ELSE "ready"]
  /\ outcome' = [outcome EXCEPT ![holding[w]] = o]
  /\ holding' = [holding EXCEPT ![w] = NoJob]
  /\ UNCHANGED <<jobs, closed, answer, accepted, taken, caller, expired,
                 notified>>

\* The handler returns, or panics and execute recovers: the loop goes on.
Execute(w, o) ==
  /\ worker[w] = "busy"
  /\ worker' = [worker EXCEPT ![w] = "ready"]
  /\ outcome' = [outcome EXCEPT ![holding[w]] = o]
  /\ holding' = [holding EXCEPT ![w] = NoJob]
  /\ UNCHANGED <<jobs, closed, answer, accepted, taken, caller, expired,
                 notified>>

Work(w) == \/ Receive(w)
           \/ Park(w)
           \/ Exit(w)
           \/ \E o \in {"returned", "panicked"} : Execute(w, o)
-----------------------------------------------------------------------------
(***************************************************************************)
(* Shutdown(ctx): close once under the mutex, then wait for the WaitGroup  *)
(* (in a goroutine that closes `done`) or for the ctx, whichever `select`  *)
(* sees; with both ready it picks either.                                  *)
(***************************************************************************)

\* Slip: the flag is set and the channel is not closed: blocked workers sleep on.
ShutdownWithoutClose(c) ==
  /\ caller[c] = "idle"
  /\ caller' = [caller EXCEPT ![c] = "waiting"]
  /\ closed' = TRUE
  /\ UNCHANGED <<jobs, worker, holding, answer, accepted, taken, outcome,
                 expired, notified>>

Shutdown(c) ==
  /\ caller[c] = "idle"
  /\ caller' = [caller EXCEPT ![c] = "waiting"]
  /\ closed' = TRUE
  /\ worker' = [w \in Workers |->
                  IF worker[w] = "parked" THEN "ready" ELSE worker[w]]
  /\ UNCHANGED <<jobs, holding, answer, accepted, taken, outcome, expired,
                 notified>>

\* The goroutine behind a call outlives the call when its ctx ends first.
Notify(c) ==
  /\ caller[c] # "idle"
  /\ c \notin notified
  /\ AllExited
  /\ notified' = notified \union {c}
  /\ UNCHANGED <<jobs, closed, worker, holding, answer, accepted, taken,
                 outcome, caller, expired>>

ReturnDrained(c) ==
  /\ caller[c] = "waiting"
  /\ c \in notified
  /\ caller' = [caller EXCEPT ![c] = "drained"]
  /\ UNCHANGED <<jobs, closed, worker, holding, answer, accepted, taken,
                 outcome, expired, notified>>

ReturnGaveUp(c) ==
  /\ caller[c] = "waiting"
  /\ c \in expired
  /\ caller' = [caller EXCEPT ![c] = "gaveUp"]
  /\ UNCHANGED <<jobs, closed, worker, holding, answer, accepted, taken,
                 outcome, expired, notified>>

\* A ctx ends whenever it likes, also before Shutdown is called with it.
Expire(c) ==
  /\ c \notin expired
  /\ expired' = expired \union {c}
  /\ UNCHANGED <<jobs, closed, worker, holding, answer, accepted, taken,
                 outcome, caller, notified>>

Return(c) == ReturnDrained(c) \/ ReturnGaveUp(c)

\* Every worker and every caller is gone: the only state the queue rests in.
Terminated == /\ AllExited
              /\ \A c \in Callers : caller[c] \in {"drained", "gaveUp"}
              /\ UNCHANGED vars

Next == \/ \E j \in Jobs : Submit(j)
        \/ \E w \in Workers : Work(w)
        \/ \E c \in Callers : Shutdown(c) \/ Notify(c) \/ Return(c) \/ Expire(c)
        \/ Terminated

(***************************************************************************)
(* The Go scheduler runs every runnable goroutine; a handler ends because  *)
(* the only one (service.go:158-164) works under a five-second deadline.   *)
(* Nobody has to submit, to shut the queue down or to run out of time.     *)
(***************************************************************************)
Fairness == /\ \A w \in Workers : WF_vars(Work(w))
            /\ \A c \in Callers : WF_vars(Notify(c)) /\ WF_vars(Return(c))

Spec == Init /\ [][Next]_vars /\ Fairness
-----------------------------------------------------------------------------
InBuffer(j) == j \in Range(jobs)
InHand(j)   == \E w \in Workers : holding[w] = j
Over(j)     == outcome[j] # "pending"
Unfinished  == {j \in Jobs : answer[j] = "accepted" /\ ~Over(j)}

\* Every variable keeps its type; the buffer never outgrows the channel and a
\* worker holds a job exactly while it executes one.
TypeOK ==
  /\ jobs \in Seq(Jobs) /\ Len(jobs) <= Size
  /\ closed \in BOOLEAN
  /\ worker \in [Workers -> WorkerStates]
  /\ holding \in [Workers -> Jobs \union {NoJob}]
  /\ \A w \in Workers : (worker[w] = "busy") <=> (holding[w] # NoJob)
  /\ answer \in [Jobs -> Answers]
  /\ accepted \in Seq(Jobs) /\ taken \in Seq(Jobs)
  /\ outcome \in [Jobs -> Outcomes]
  /\ caller \in [Callers -> CallerStates]
  /\ expired \subseteq Callers /\ notified \subseteq Callers

\* Jobs reach the workers in the order Submit accepted them, none is dropped
\* and none is received twice, whether it went through the buffer or was
\* handed to a blocked worker (run, queue.go:50-55; Submit, 62-78).
ReceivedInOrder == accepted = taken \o jobs

\* A job is in the buffer, in the hands of one worker or over, and only if
\* Submit said nil: neither a panic nor a close makes it vanish or run twice.
ExactlyOnePlace ==
  /\ \A j \in Jobs : (answer[j] = "accepted") <=> (InBuffer(j) \/ InHand(j) \/ Over(j))
  /\ \A j \in Jobs : ~(InBuffer(j) /\ InHand(j)) /\ ~(InBuffer(j) /\ Over(j))
                                                /\ ~(InHand(j) /\ Over(j))
  /\ \A v, w \in Workers : holding[v] = holding[w] /\ holding[v] # NoJob => v = w
  /\ IsInjective(jobs)

\* No lost wake-up: while a job waits in the buffer no worker sleeps.
NoWorkerSleepsOnWork == SomeParked => jobs = <<>>

\* The order in which a shut-down comes about: the close, then the exits, each
\* on an empty channel, then the WaitGroup, then the answer (queue.go:87-106).
CloseIsOrderly ==
  /\ \A c \in Callers : caller[c] # "idle" => closed
  /\ \A w \in Workers : worker[w] = "exited" => closed /\ jobs = <<>>
  /\ notified # {} => AllExited
  /\ \A c \in Callers : caller[c] = "drained" => c \in notified

\* Shutdown returns nil only when every job ever accepted is over, also the
\* ones accepted by a Submit racing with the close (queue.go:84-86).
DrainedMeansHandled ==
  (\E c \in Callers : caller[c] = "drained") => Unfinished = {}

\* Submit refuses a job for lack of room only when as many accepted jobs as
\* the buffer holds are unfinished; with a worker about to receive this may be
\* one job fewer than with the worker blocked (queue.go:69-77).
RefusedOnlyAtCapacity ==
  [][\A j \in Jobs : answer'[j] = "full" /\ answer[j] = "none" => Cardinality(Unfinished) >= Size]_vars

\* Every accepted job is executed sooner or later, also when the queue is
\* closed meanwhile and when a caller of Shutdown gave up waiting.
AcceptedIsHandled ==
  \A j \in Jobs : (answer[j] = "accepted") ~> Over(j)

\* Every call of Shutdown comes back, even one whose ctx never ends.
ShutdownReturns ==
  \A c \in Callers : (caller[c] = "waiting") ~> (caller[c] # "waiting")

\* The abstract promise, over the state the queue really has.
Promise == INSTANCE DrainPromise WITH
             accepting <- ~closed,
             pending <- Unfinished,
             handled <- {j \in Jobs : Over(j)},
             told <- {c \in Callers : caller[c] = "drained"}

\* The queue implements DrainPromise, fairness included.
KeepsPromise == Promise!Spec
=============================================================================
