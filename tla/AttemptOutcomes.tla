-------------------------- MODULE AttemptOutcomes --------------------------
(***************************************************************************)
(* The interface between the scheduler and the shim processes it starts:   *)
(* what _ProductionRunner makes of the exit status of a shim and of the    *)
(* result record it left.  The scheduler is checked against every member   *)
(* of ShimOutcome, and the shim is checked to produce no other.            *)
(***************************************************************************)
EXTENDS Integers

DispatchStatus == {"succeeded", "failed", "timed_out", "cancelled",
                   "preflight_failed"}

(***************************************************************************)
(* exit is 0, 64 (usage), 66 (unreadable prompt), 127 (not launched), 130  *)
(* (interrupted) or 1, any other; transport says that no usable result     *)
(* record was produced.                                                    *)
(***************************************************************************)
AttemptOutcome ==
  [status : DispatchStatus, exit : {0, 1, 64, 66, 127, 130}, transport : BOOLEAN]

(***************************************************************************)
(* What the shim can bring about.  A record that disagrees with the exit   *)
(* status belongs to a shim that ended after it had written the record:    *)
(* killed (its negative exit status is clamped to 0) or unable to print    *)
(* its last line (1).  Without a record the status is read off the exit    *)
(* status.                                                                 *)
(***************************************************************************)
ShimOutcome ==
  {o \in AttemptOutcome :
     \/ ~o.transport /\ o.exit # 127 /\
          \/ o.status = "succeeded" /\ o.exit \in {0, 1}
          \/ o.status = "failed"
          \/ o.status = "timed_out" /\ o.exit \in {0, 1}
          \/ o.status = "cancelled" /\ o.exit \in {0, 1, 130}
     \/ o.transport /\
          \/ o.status = "preflight_failed" /\ o.exit \in {0, 1, 127}
          \/ o.status = "timed_out" /\ o.exit = 1
          \/ o.status = "cancelled" /\ o.exit = 130
          \/ o.status = "failed" /\ o.exit # 130}

\* A cancellation on record is the answer to an interrupt; without a record
\* it may also be a provider that ended with status 130.
CancellationExplained(o, interrupted) ==
  o.status = "cancelled" /\ ~o.transport => interrupted
=============================================================================
