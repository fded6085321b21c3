--------------------------- MODULE DispatchRecord ---------------------------
(***************************************************************************)
(* What a dispatch promises whoever reads its run directory and its last   *)
(* line: the state only moves forward and a final one is final, a result   *)
(* appears after the final state and agrees with it, and the exit status   *)
(* announced in the end is that of the result.                             *)
(***************************************************************************)
EXTENDS AttemptOutcomes

CONSTANTS Shims, Nothing, Unsaid

VARIABLES
  state,    \* "none", "open" or the final state of each dispatch
  result,   \* its result record, or Nothing
  said      \* the exit status announced, or Unsaid

Agrees(status, exit) ==
  /\ status = "succeeded" <=> exit = 0
  /\ status = "preflight_failed" => exit = 127
  /\ status = "timed_out" => exit = 124
  /\ status = "cancelled" => exit = 130

Init ==
  /\ state = [s \in Shims |-> "none"]
  /\ result = [s \in Shims |-> Nothing]
  /\ said = [s \in Shims |-> Unsaid]

Accept(s) ==
  /\ state[s] = "none" /\ state' = [state EXCEPT ![s] = "open"]
  /\ UNCHANGED <<result, said>>

Settle(s) ==
  /\ state[s] = "open" /\ said[s] = Unsaid
  /\ \E status \in DispatchStatus : state' = [state EXCEPT ![s] = status]
  /\ UNCHANGED <<result, said>>

Conclude(s) ==
  /\ state[s] \in DispatchStatus /\ result[s] = Nothing /\ said[s] = Unsaid
  /\ \E exit \in 0 .. 255 :
       /\ Agrees(state[s], exit)
       /\ result' = [result EXCEPT ![s] = [status |-> state[s], exit |-> exit]]
  /\ UNCHANGED <<state, said>>

\* A dispatch that was refused announces 64; one whose record could not be
\* written announces how it ended all the same.
Announce(s) ==
  /\ said[s] = Unsaid
  /\ \E exit \in 0 .. 255 :
       /\ state[s] = "none" => exit = 64
       /\ state[s] \in DispatchStatus => Agrees(state[s], exit)
       /\ result[s] # Nothing => exit = result[s].exit
       /\ said' = [said EXCEPT ![s] = exit]
  /\ UNCHANGED <<state, result>>

Next == \E s \in Shims : Accept(s) \/ Settle(s) \/ Conclude(s) \/ Announce(s)

Spec == Init /\ [][Next]_<<state, result, said>>
=============================================================================
