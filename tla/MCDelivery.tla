----------------------------- MODULE MCDelivery -----------------------------
(* Two tasks, Ctrl+C and one other process that cancels. *)
EXTENDS CancelDelivery, TLC

CONSTANTS t1, t2, c1
=============================================================================
