---------------------------- MODULE DrainPromise ----------------------------
(***************************************************************************)
(* What internal/queue promises its users, without channels, workers or    *)
(* locks: a job that was accepted is handled exactly once, nothing is      *)
(* accepted after the queue stopped, and a caller is told "drained" only   *)
(* when nothing that was accepted is still unhandled (queue.go:4-6,62-63,  *)
(* 84-86).  WorkerQueue is shown to implement it.                          *)
(***************************************************************************)
CONSTANTS Jobs,     \* everything that may ever be submitted
          Callers   \* everybody who may ask the queue to shut down

VARIABLES accepting,  \* the queue still takes jobs
          pending,    \* accepted and not yet handled
          handled,    \* accepted, and its handler is over
          told        \* callers that were told the queue is drained
vars == <<accepting, pending, handled, told>>

Init == /\ accepting = TRUE
        /\ pending = {}
        /\ handled = {}
        /\ told = {}

Accept(j) == /\ accepting
             /\ j \notin pending \union handled
             /\ pending' = pending \union {j}
             /\ UNCHANGED <<accepting, handled, told>>

Handle(j) == /\ j \in pending
             /\ pending' = pending \ {j}
             /\ handled' = handled \union {j}
             /\ UNCHANGED <<accepting, told>>

Stop == /\ accepting
        /\ accepting' = FALSE
        /\ UNCHANGED <<pending, handled, told>>

Tell(c) == /\ ~accepting
           /\ pending = {}
           /\ told' = told \union {c}
           /\ UNCHANGED <<accepting, pending, handled>>

Next == \/ \E j \in Jobs : Accept(j) \/ Handle(j)
        \/ Stop
        \/ \E c \in Callers : Tell(c)

Safety == Init /\ [][Next]_vars

Spec == Safety /\ \A j \in Jobs : WF_vars(Handle(j))
=============================================================================
