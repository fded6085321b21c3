------------------------- MODULE WorkflowRefinement -------------------------
(***************************************************************************)
(* The scheduler implements DurableProgress: what is finished is read off  *)
(* state.json, and a task is active while its worker has begun an attempt  *)
(* whose result the main thread has not collected.                         *)
(***************************************************************************)
EXTENDS WorkflowScheduler

Finished == {t \in Tasks : disk.tasks[t] \in TerminalSuccess}
Active   == {t \in Tasks : attemptInRun[t] > 0}
History  == [t \in Tasks |-> Len(disk.attempts[t])]

Progress == INSTANCE DurableProgress
              WITH Limit <- MaxConcurrency, finished <- Finished,
                   active <- Active, history <- History

\* Every behaviour of the scheduler, with its crashes, resumes and
\* cancellations, is one of the abstract specification.
ImplementsDurableProgress == Progress!Spec
=============================================================================
