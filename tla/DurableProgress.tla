-------------------------- MODULE DurableProgress --------------------------
(***************************************************************************)
(* What the persisted workflow promises whoever reads or resumes it,       *)
(* whichever scheduler processes come and go: a task is attempted only     *)
(* after everything it depends on is on record as finished, never again    *)
(* after it is finished itself, no more than Limit tasks are attempted at  *)
(* a time, and what is on record is never taken back.                      *)
(***************************************************************************)
EXTENDS Integers, FiniteSets

CONSTANTS Tasks, DependsOn, Limit

VARIABLES
  finished,   \* tasks on record as succeeded or verified
  active,     \* tasks the present scheduler has attempted and not settled
  history     \* number of attempts on record, per task

Init ==
  /\ finished = {}
  /\ active = {}
  /\ history = [t \in Tasks |-> 0]

\* A first or another attempt of t is put on record.
Attempt(t) ==
  /\ t \notin finished
  /\ DependsOn[t] \subseteq finished
  /\ active' = active \cup {t}
  /\ Cardinality(active') <= Limit
  /\ history' = [history EXCEPT ![t] = @ + 1]
  /\ UNCHANGED finished

\* The attempts of t end, with success or without.
Settle(t) ==
  /\ t \in active
  /\ active' = active \ {t}
  /\ finished' \in {finished, finished \cup {t}}
  /\ UNCHANGED history

\* The scheduler process is gone.
Abandon == active' = {} /\ UNCHANGED <<finished, history>>

Next == Abandon \/ \E t \in Tasks : Attempt(t) \/ Settle(t)

Spec == Init /\ [][Next]_<<finished, active, history>>
=============================================================================
