----------------------------- MODULE AnswerBook -----------------------------
(***************************************************************************)
(* What the lazy geocode cache promises: the answer to a body is learnt    *)
(* once and never changes, and every request for that body is given either *)
(* that answer or an error.  GeocodeCache is shown to implement it.        *)
(***************************************************************************)
CONSTANTS Requests, Bodies, Payloads, BodyOf,
          Unknown,   \* nothing learnt yet, nothing replied yet
          Failure    \* the reply that carries no answer

VARIABLES book,   \* the answer learnt for each body
          reply   \* what each request was told
vars == <<book, reply>>

Init == /\ book = [b \in Bodies |-> Unknown]
        /\ reply = [r \in Requests |-> Unknown]

\* Requests fail one by one, together when the process ends, and also in the
\* very step that learns the answer.
SomeFail == \E R \in SUBSET {r \in Requests : reply[r] = Unknown} :
              reply' = [r \in Requests |-> IF r \in R THEN Failure ELSE reply[r]]

Learn(b, p) == /\ book[b] = Unknown
               /\ book' = [book EXCEPT ![b] = p]
               /\ SomeFail

Tell(r) == /\ reply[r] = Unknown
           /\ book[BodyOf[r]] # Unknown
           /\ reply' = [reply EXCEPT ![r] = book[BodyOf[r]]]
           /\ UNCHANGED book

Fail == SomeFail /\ UNCHANGED book

Next == \/ \E b \in Bodies, p \in Payloads : Learn(b, p)
        \/ \E r \in Requests : Tell(r)
        \/ Fail

Spec == Init /\ [][Next]_vars
=============================================================================
