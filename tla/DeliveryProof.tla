--------------------------- MODULE DeliveryProof ---------------------------
(***************************************************************************)
(* What holds of the delivery of a cancellation for any number of tasks,   *)
(* signals and clients: _lock excludes, the main thread blocks itself only *)
(* when a second request meets the first, and then it does so for good.    *)
(***************************************************************************)
EXTENDS CancelDelivery, SequenceTheorems, TLAPS

Positions == 1 .. Len(calls)

\* Calls in their critical section.
Copying == {i \in Positions : calls[i].at = "copy"}

\* _lock is held by the one that is in its critical section.
LockExcludes ==
  /\ lock = "main" <=> Copying # {}
  /\ \A i, j \in Copying : i = j
  /\ \A t \in Tasks : workerPc[t] \in {"registering", "unregistering"} <=> lock = t

\* Each call of cancel_active goes back to a signal or to the flag of state.json,
\* which accounts for one.
CallsHaveCause ==
  /\ requested => recorded
  /\ event => recorded \/ signals >= 1
  /\ Len(calls) <= signals + (IF recorded THEN 1 ELSE 0)

\* A shim that runs is waited for by its worker, which has registered it unless
\* it is just about to.
RegisteredWhileItRuns ==
  \A t \in Tasks :
    /\ Running(t) => workerPc[t] \in {"launched", "registering", "waiting"}
    /\ workerPc[t] = "waiting" => t \in registered

DeliveryInductive == TypeOK /\ LockExcludes /\ CallsHaveCause /\ RegisteredWhileItRuns

-----------------------------------------------------------------------------
(* The stack of calls.                                                     *)

\* A step of the last call leaves the others alone.
LEMMA Replaced ==
  ASSUME calls \in Seq(Call), calls # << >>, NEW c \in Call, Becomes(c)
  PROVE  /\ Len(calls) \in Nat \ {0} /\ Len(calls') = Len(calls)
         /\ calls' \in Seq(Call) /\ calls'[Len(calls)] = c
         /\ \A i \in 1 .. Len(calls) - 1 : calls'[i] = calls[i]
<1>1. Len(calls) \in Nat \ {0}
  BY EmptySeq, LenProperties
<1>2. calls' = [calls EXCEPT ![Len(calls)] = c] /\ Len(calls) \in 1 .. Len(calls)
  BY <1>1 DEF Becomes
<1>3. calls' \in Seq(Call) /\ Len(calls') = Len(calls)
  BY <1>1, <1>2, ExceptSeq
<1>4. /\ calls'[Len(calls)] = c
      /\ \A i \in 1 .. Len(calls) - 1 : calls'[i] = calls[i]
  BY <1>1, <1>2, ExceptSeq
<1> QED
  BY <1>1, <1>3, <1>4

\* A handler that is entered comes on top.
LEMMA Pushed ==
  ASSUME calls \in Seq(Call), calls' = Append(calls, NewCall)
  PROVE  /\ Len(calls) \in Nat /\ Len(calls') = Len(calls) + 1
         /\ calls' \in Seq(Call) /\ calls'[Len(calls) + 1] = NewCall
         /\ \A i \in 1 .. Len(calls) : calls'[i] = calls[i]
<1>1. NewCall \in Call
  BY DEF NewCall, Call
<1> QED
  BY <1>1, AppendProperties, LenProperties

\* A call that returns uncovers the one below.
LEMMA Popped ==
  ASSUME calls \in Seq(Call), calls # << >>,
         calls' = SubSeq(calls, 1, Len(calls) - 1)
  PROVE  /\ Len(calls) \in Nat \ {0} /\ Len(calls') = Len(calls) - 1
         /\ calls' \in Seq(Call)
         /\ \A i \in 1 .. Len(calls) - 1 : calls'[i] = calls[i]
<1>1. Len(calls) \in Nat \ {0}
  BY EmptySeq, LenProperties
<1>2. \A i \in 1 .. Len(calls) - 1 : calls[i] \in Call
  BY <1>1, ElementOfSeq
<1>3. 1 \in Int /\ Len(calls) - 1 \in Int
  BY <1>1
<1>4. /\ calls' \in Seq(Call)
      /\ Len(calls') = IF 1 <= Len(calls) - 1 THEN Len(calls) - 1 - 1 + 1 ELSE 0
      /\ \A i \in 1 .. Len(calls) - 1 - 1 + 1 : calls'[i] = calls[1 + i - 1]
  BY <1>2, <1>3, SubSeqProperties
<1>5. Len(calls') = Len(calls) - 1
  <2>1. Len(calls') = IF 1 <= Len(calls) - 1 THEN Len(calls) - 1 - 1 + 1 ELSE 0
    BY <1>4
  <2>2. CASE Len(calls) = 1
    BY <2>1, <2>2
  <2>3. CASE Len(calls) > 1
    BY <1>1, <2>1, <2>3
  <2>4. \A n \in Nat \ {0} : n = 1 \/ n > 1
    OBVIOUS
  <2>5. Len(calls) = 1 \/ Len(calls) > 1
    BY <1>1, <2>4
  <2> QED
    BY <2>2, <2>3, <2>5, Zenon
<1>6. ASSUME NEW i \in 1 .. Len(calls) - 1 PROVE calls'[i] = calls[i]
  <2>1. i \in 1 .. Len(calls) - 1 - 1 + 1 /\ 1 + i - 1 = i
    BY <1>1
  <2> QED
    BY <1>4, <2>1
<1> QED
  BY <1>1, <1>4, <1>5, <1>6

\* A call of the main thread's own is the only one.
LEMMA First ==
  <<NewCall>> \in Seq(Call) /\ Len(<<NewCall>>) = 1 /\ <<NewCall>>[1] = NewCall
  BY DEF NewCall, Call

\* The last call.
LEMMA TopIsCall ==
  ASSUME calls \in Seq(Call), calls # << >>
  PROVE  Len(calls) \in Nat \ {0} /\ Top \in Call /\ Top = calls[Len(calls)]
<1>1. Len(calls) \in Nat \ {0}
  BY EmptySeq, LenProperties
<1> QED
  BY <1>1, ElementOfSeq DEF Top

\* What each step of cancel_active does to the stack.
LEMMA EnterStack ==
  ASSUME TypeOK, EnterLock
  PROVE  /\ Len(calls) \in Nat \ {0} /\ Len(calls') = Len(calls) /\ calls' \in Seq(Call)
         /\ calls[Len(calls)].at = "enter" /\ calls'[Len(calls)].at = "copy"
         /\ \A i \in 1 .. Len(calls) - 1 : calls'[i] = calls[i]
<1>1. calls \in Seq(Call) /\ calls # << >> /\ Top.at = "enter"
  BY DEF TypeOK, EnterLock, At
<1>2. Top \in Call /\ Top = calls[Len(calls)]
  BY <1>1, TopIsCall
<1>3. [Top EXCEPT !.at = "copy"] \in Call /\ [Top EXCEPT !.at = "copy"].at = "copy"
  BY <1>2 DEF Call
<1>4. Becomes([Top EXCEPT !.at = "copy"])
  BY DEF EnterLock
<1> QED
  BY <1>1, <1>2, <1>3, <1>4, Replaced

\* The lock is given back.
LEMMA CopyStack ==
  ASSUME TypeOK, CopyActive
  PROVE  /\ Len(calls) \in Nat \ {0} /\ Len(calls') = Len(calls) /\ calls' \in Seq(Call)
         /\ calls[Len(calls)].at = "copy" /\ calls'[Len(calls)].at = "send"
         /\ \A i \in 1 .. Len(calls) - 1 : calls'[i] = calls[i]
<1>1. calls \in Seq(Call) /\ calls # << >> /\ Top.at = "copy"
  BY DEF TypeOK, CopyActive, At
<1>2. Top \in Call /\ Top = calls[Len(calls)]
  BY <1>1, TopIsCall
<1>3. [at |-> "send", targets |-> registered] \in Call
  BY DEF Call, TypeOK
<1>4. Becomes([at |-> "send", targets |-> registered])
  BY DEF CopyActive
<1> QED
  BY <1>1, <1>2, <1>3, <1>4, Replaced

\* One signal is sent.
LEMMA SendStack ==
  ASSUME TypeOK, NEW t \in Tasks, Send(t)
  PROVE  /\ Len(calls) \in Nat \ {0} /\ Len(calls') = Len(calls) /\ calls' \in Seq(Call)
         /\ calls[Len(calls)].at = "send" /\ calls'[Len(calls)].at = "send"
         /\ \A i \in 1 .. Len(calls) - 1 : calls'[i] = calls[i]
<1>1. calls \in Seq(Call) /\ calls # << >> /\ Top.at = "send"
  BY DEF TypeOK, Send, At
<1>2. Top \in Call /\ Top = calls[Len(calls)]
  BY <1>1, TopIsCall
<1>3. /\ [Top EXCEPT !.targets = @ \ {t}] \in Call
      /\ [Top EXCEPT !.targets = @ \ {t}].at = "send"
  BY <1>1, <1>2 DEF Call
<1>4. Becomes([Top EXCEPT !.targets = @ \ {t}])
  BY DEF Send
<1> QED
  BY <1>1, <1>2, <1>3, <1>4, Replaced

\* The call is over.
LEMMA ReturnStack ==
  ASSUME TypeOK, Return
  PROVE  /\ Len(calls) \in Nat \ {0} /\ Len(calls') = Len(calls) - 1
         /\ calls' \in Seq(Call) /\ calls[Len(calls)].at = "send"
         /\ \A i \in 1 .. Len(calls) - 1 : calls'[i] = calls[i]
<1>1. calls \in Seq(Call) /\ calls # << >> /\ Top.at = "send"
  BY DEF TypeOK, Return, Returns, At
<1>2. Top = calls[Len(calls)]
  BY <1>1, TopIsCall
<1> QED
  BY <1>1, <1>2, Popped DEF Return

\* What a signal does to it.
LEMMA HandleStack ==
  ASSUME TypeOK, Handle
  PROVE  /\ Len(calls) \in Nat /\ Len(calls') = Len(calls) + 1
         /\ calls' \in Seq(Call) /\ calls'[Len(calls) + 1].at = "enter"
         /\ \A i \in 1 .. Len(calls) : calls'[i] = calls[i]
  BY Pushed DEF Handle, TypeOK, NewCall

\* What a call of the loop's own does to it, where there is no other.
LEMMA OwnStack ==
  ASSUME TypeOK, calls = << >>, calls' = <<NewCall>>
  PROVE  /\ Len(calls) = 0 /\ Len(calls') = 1
         /\ calls' \in Seq(Call) /\ calls'[1].at = "enter"
  BY First DEF NewCall

-----------------------------------------------------------------------------
(* Each part of the invariant is kept by every step.                       *)

\* The types are kept.
LEMMA TypesKept ==
  ASSUME TypeOK, [Next]_vars
  PROVE  TypeOK'
<1>1. CASE UNCHANGED vars
  BY <1>1 DEF vars, mainVars, flags, shims, outside, TypeOK, Handling, WorkerPc
<1>2. CASE EnterLock
  BY <1>2, EnterStack
     DEF EnterLock, mainVars, flags, shims, outside, TypeOK, Handling, WorkerPc
<1>3. CASE CopyActive
  BY <1>3, CopyStack
     DEF CopyActive, mainVars, flags, shims, outside, TypeOK, Handling, WorkerPc
<1>4. ASSUME NEW t \in Tasks, Send(t) PROVE TypeOK'
  BY <1>4, SendStack
     DEF Send, Running, mainVars, flags, shims, outside, TypeOK, Handling,
         WorkerPc
<1>5. CASE Return
  BY <1>5, ReturnStack
     DEF Return, mainVars, flags, shims, outside, TypeOK, Handling, WorkerPc
<1>6. CASE Poll
  BY <1>6, OwnStack
     DEF Poll, InLoop, flags, shims, outside, TypeOK, Handling, WorkerPc
<1>7. ASSUME NEW t \in Tasks, Submit(t) PROVE TypeOK'
  BY <1>7
     DEF Submit, InLoop, flags, shims, outside, TypeOK, Handling, WorkerPc
<1>8. CASE EndSubmit
  BY <1>8
     DEF EndSubmit, InLoop, flags, shims, outside, TypeOK, Handling, WorkerPc
<1>9. CASE Wait
  BY <1>9
     DEF Wait, InLoop, flags, shims, outside, TypeOK, Handling, WorkerPc
<1>10. ASSUME NEW t \in Tasks, Collect(t) PROVE TypeOK'
  BY <1>10
     DEF Collect, InLoop, flags, shims, outside, TypeOK, Handling, WorkerPc
<1>11. CASE EndCollect
  BY <1>11, OwnStack
     DEF EndCollect, InLoop, flags, shims, outside, TypeOK, Handling, WorkerPc
<1>12. CASE Finalize
  BY <1>12
     DEF Finalize, InLoop, flags, shims, outside, TypeOK, Handling, WorkerPc
<1>13. ASSUME NEW t \in Tasks, Start(t) PROVE TypeOK'
  BY <1>13
     DEF Start, Goes, loop, mainVars, shims, outside, TypeOK, Handling, WorkerPc
<1>14. ASSUME NEW t \in Tasks, CheckCancel(t) PROVE TypeOK'
  BY <1>14
     DEF CheckCancel, Goes, loop, mainVars, shims, outside, TypeOK, Handling,
         WorkerPc
<1>15. ASSUME NEW t \in Tasks, Launch(t) PROVE TypeOK'
  BY <1>15
     DEF Launch, Goes, loop, mainVars, shims, outside, TypeOK, Handling, WorkerPc
<1>16. ASSUME NEW t \in Tasks, LockToRegister(t) PROVE TypeOK'
  BY <1>16
     DEF LockToRegister, Goes, loop, mainVars, shims, outside, TypeOK, Handling,
         WorkerPc
<1>17. ASSUME NEW t \in Tasks, Register(t) PROVE TypeOK'
  BY <1>17
     DEF Register, Goes, loop, mainVars, shims, outside, TypeOK, Handling,
         WorkerPc
<1>18. ASSUME NEW t \in Tasks, ShimExits(t) PROVE TypeOK'
  BY <1>18
     DEF ShimExits, loop, mainVars, shims, outside, TypeOK, Handling, WorkerPc
<1>19. ASSUME NEW t \in Tasks, Reap(t) PROVE TypeOK'
  BY <1>19
     DEF Reap, Goes, loop, mainVars, shims, outside, TypeOK, Handling, WorkerPc
<1>20. ASSUME NEW t \in Tasks, LockToUnregister(t) PROVE TypeOK'
  BY <1>20
     DEF LockToUnregister, Goes, loop, mainVars, shims, outside, TypeOK,
         Handling, WorkerPc
<1>21. ASSUME NEW t \in Tasks, Unregister(t) PROVE TypeOK'
  BY <1>21
     DEF Unregister, Goes, loop, mainVars, shims, outside, TypeOK, Handling,
         WorkerPc
<1>22. ASSUME NEW t \in Tasks, Finish(t) PROVE TypeOK'
  BY <1>22
     DEF Finish, Goes, loop, mainVars, shims, outside, TypeOK, Handling, WorkerPc
<1>23. CASE Press
  BY <1>23, HandleStack
     DEF Press, Handle, mainVars, shims, TypeOK, Handling, WorkerPc
<1>24. ASSUME NEW c \in Clients, CancelFlag(c) PROVE TypeOK'
  BY <1>24
     DEF CancelFlag, mainVars, shims, TypeOK, Handling, WorkerPc
<1>25. ASSUME NEW c \in Clients, CancelSignal(c) PROVE TypeOK'
  BY <1>25, HandleStack
     DEF CancelSignal, Handle, mainVars, shims, TypeOK, Handling, WorkerPc
<1> QED
  BY <1>1, <1>2, <1>3, <1>4, <1>5, <1>6, <1>7, <1>8, <1>9, <1>10, <1>11, <1>12,
     <1>13,
     <1>14, <1>15, <1>16, <1>17, <1>18, <1>19, <1>20, <1>21, <1>22, <1>23, <1>24, <1>25
     DEF Next, Main, CallStep, Worker

\* _lock goes from one holder to the next by way of nobody.
LEMMA LockKept ==
  ASSUME TypeOK, LockExcludes, [Next]_vars
  PROVE  LockExcludes'
<1>1. CASE UNCHANGED vars
  BY <1>1 DEF vars, mainVars, flags, shims, outside, LockExcludes, Copying,
     Positions, TypeOK, WorkerPc
<1>2. CASE EnterLock
  <2>1. Copying = {} /\ lock = "free" /\ lock' = "main" /\ UNCHANGED workerPc
    BY <1>2, DeliveryAssumption DEF EnterLock, LockExcludes
  <2>2. Copying' = {Len(calls)}
    <3>1. \A i \in 1 .. Len(calls) - 1 : calls'[i].at # "copy"
      BY <1>2, <2>1, EnterStack DEF Copying, Positions
    <3> QED
      BY <1>2, <3>1, EnterStack DEF Copying, Positions
  <2> QED
    BY <2>1, <2>2, DeliveryAssumption DEF LockExcludes
<1>3. CASE CopyActive
  <2>1. /\ Copying = {Len(calls)} /\ lock = "main" /\ lock' = "free"
        /\ UNCHANGED workerPc
    BY <1>3, CopyStack DEF CopyActive, LockExcludes, Copying, Positions
  <2>2. Copying' = {}
    BY <1>3, <2>1, CopyStack DEF Copying, Positions
  <2> QED
    BY <2>1, <2>2, DeliveryAssumption DEF LockExcludes
<1>4. ASSUME NEW t \in Tasks, Send(t) PROVE LockExcludes'
  <2>1. UNCHANGED <<lock, workerPc>>
    BY <1>4 DEF Send
  <2>2. Copying' = Copying
    BY <1>4, SendStack DEF Copying, Positions
  <2> QED
    BY <2>1, <2>2, DeliveryAssumption DEF LockExcludes
<1>5. CASE Return
  <2>1. UNCHANGED <<lock, workerPc>>
    BY <1>5 DEF Return
  <2>2. Copying' = Copying
    BY <1>5, ReturnStack DEF Copying, Positions
  <2> QED
    BY <2>1, <2>2, DeliveryAssumption DEF LockExcludes
<1>6. CASE Poll
  <2>1. UNCHANGED <<lock, workerPc>>
    BY <1>6 DEF Poll
  <2>2. Copying' = Copying
    <3>1. calls' = calls \/ (calls = << >> /\ calls' = <<NewCall>>)
      BY <1>6 DEF Poll, InLoop
    <3> QED
      BY <3>1, OwnStack DEF Copying, Positions
  <2> QED
    BY <2>1, <2>2, DeliveryAssumption DEF LockExcludes
<1>7. ASSUME NEW t \in Tasks, Submit(t) PROVE LockExcludes'
  BY <1>7, DeliveryAssumption
     DEF Submit, InLoop, flags, shims, outside, LockExcludes, Copying, Positions,
         TypeOK, WorkerPc
<1>8. CASE EndSubmit
  BY <1>8, DeliveryAssumption
     DEF EndSubmit, InLoop, flags, shims, outside, LockExcludes, Copying,
         Positions, TypeOK, WorkerPc
<1>9. CASE Wait
  BY <1>9, DeliveryAssumption
     DEF Wait, InLoop, flags, shims, outside, LockExcludes, Copying, Positions,
         TypeOK, WorkerPc
<1>10. ASSUME NEW t \in Tasks, Collect(t) PROVE LockExcludes'
  BY <1>10, DeliveryAssumption
     DEF Collect, InLoop, flags, shims, outside, LockExcludes, Copying,
         Positions, TypeOK, WorkerPc
<1>11. CASE EndCollect
  <2>1. UNCHANGED <<lock, workerPc>>
    BY <1>11 DEF EndCollect
  <2>2. Copying' = Copying
    <3>1. calls' = calls \/ (calls = << >> /\ calls' = <<NewCall>>)
      BY <1>11 DEF EndCollect, InLoop
    <3> QED
      BY <3>1, OwnStack DEF Copying, Positions
  <2> QED
    BY <2>1, <2>2, DeliveryAssumption DEF LockExcludes
<1>12. CASE Finalize
  BY <1>12, DeliveryAssumption
     DEF Finalize, InLoop, flags, shims, outside, LockExcludes, Copying,
         Positions, TypeOK, WorkerPc
<1>13. ASSUME NEW t \in Tasks, Start(t) PROVE LockExcludes'
  BY <1>13, DeliveryAssumption
     DEF Start, Goes, loop, mainVars, shims, outside, LockExcludes, Copying,
         Positions, TypeOK, WorkerPc
<1>14. ASSUME NEW t \in Tasks, CheckCancel(t) PROVE LockExcludes'
  BY <1>14, DeliveryAssumption
     DEF CheckCancel, Goes, loop, mainVars, shims, outside, LockExcludes,
         Copying, Positions, TypeOK, WorkerPc
<1>15. ASSUME NEW t \in Tasks, Launch(t) PROVE LockExcludes'
  BY <1>15, DeliveryAssumption
     DEF Launch, Goes, loop, mainVars, shims, outside, LockExcludes, Copying,
         Positions, TypeOK, WorkerPc
<1>16. ASSUME NEW t \in Tasks, LockToRegister(t) PROVE LockExcludes'
  BY <1>16, DeliveryAssumption
     DEF LockToRegister, Goes, loop, mainVars, shims, outside, LockExcludes,
         Copying, Positions, TypeOK, WorkerPc
<1>17. ASSUME NEW t \in Tasks, Register(t) PROVE LockExcludes'
  BY <1>17, DeliveryAssumption
     DEF Register, Goes, loop, mainVars, shims, outside, LockExcludes, Copying,
         Positions, TypeOK, WorkerPc
<1>18. ASSUME NEW t \in Tasks, ShimExits(t) PROVE LockExcludes'
  BY <1>18, DeliveryAssumption
     DEF ShimExits, loop, mainVars, shims, outside, LockExcludes, Copying,
         Positions, TypeOK, WorkerPc
<1>19. ASSUME NEW t \in Tasks, Reap(t) PROVE LockExcludes'
  BY <1>19, DeliveryAssumption
     DEF Reap, Goes, loop, mainVars, shims, outside, LockExcludes, Copying,
         Positions, TypeOK, WorkerPc
<1>20. ASSUME NEW t \in Tasks, LockToUnregister(t) PROVE LockExcludes'
  BY <1>20, DeliveryAssumption
     DEF LockToUnregister, Goes, loop, mainVars, shims, outside, LockExcludes,
         Copying, Positions, TypeOK, WorkerPc
<1>21. ASSUME NEW t \in Tasks, Unregister(t) PROVE LockExcludes'
  BY <1>21, DeliveryAssumption
     DEF Unregister, Goes, loop, mainVars, shims, outside, LockExcludes, Copying,
         Positions, TypeOK, WorkerPc
<1>22. ASSUME NEW t \in Tasks, Finish(t) PROVE LockExcludes'
  BY <1>22, DeliveryAssumption
     DEF Finish, Goes, loop, mainVars, shims, outside, LockExcludes, Copying,
         Positions, TypeOK, WorkerPc
<1>23. CASE Press
  <2>1. Handle /\ UNCHANGED <<lock, workerPc>>
    BY <1>23 DEF Press, Handle
  <2>2. Copying' = Copying
    BY <2>1, HandleStack DEF Copying, Positions
  <2> QED
    BY <2>1, <2>2, DeliveryAssumption DEF LockExcludes
<1>24. ASSUME NEW c \in Clients, CancelFlag(c) PROVE LockExcludes'
  BY <1>24, DeliveryAssumption
     DEF CancelFlag, mainVars, shims, LockExcludes, Copying, Positions, TypeOK,
         WorkerPc
<1>25. ASSUME NEW c \in Clients, CancelSignal(c) PROVE LockExcludes'
  <2>1. Handle /\ UNCHANGED <<lock, workerPc>>
    BY <1>25 DEF CancelSignal, Handle
  <2>2. Copying' = Copying
    BY <2>1, HandleStack DEF Copying, Positions
  <2> QED
    BY <2>1, <2>2, DeliveryAssumption DEF LockExcludes
<1> QED
  BY <1>1, <1>2, <1>3, <1>4, <1>5, <1>6, <1>7, <1>8, <1>9, <1>10, <1>11, <1>12,
     <1>13,
     <1>14, <1>15, <1>16, <1>17, <1>18, <1>19, <1>20, <1>21, <1>22, <1>23, <1>24, <1>25
     DEF Next, Main, CallStep, Worker

\* A call is entered for a request of its own.
LEMMA CauseKept ==
  ASSUME TypeOK, CallsHaveCause, [Next]_vars
  PROVE  CallsHaveCause'
<1>1. CASE UNCHANGED vars
  BY <1>1 DEF vars, mainVars, flags, shims, outside, CallsHaveCause, TypeOK
<1>2. CASE EnterLock
  BY <1>2, EnterStack
     DEF EnterLock, mainVars, flags, shims, outside, CallsHaveCause, TypeOK
<1>3. CASE CopyActive
  BY <1>3, CopyStack
     DEF CopyActive, mainVars, flags, shims, outside, CallsHaveCause, TypeOK
<1>4. ASSUME NEW t \in Tasks, Send(t) PROVE CallsHaveCause'
  BY <1>4, SendStack
     DEF Send, Running, mainVars, flags, shims, outside, CallsHaveCause, TypeOK
<1>5. CASE Return
  BY <1>5, ReturnStack
     DEF Return, mainVars, flags, shims, outside, CallsHaveCause, TypeOK
<1>6. CASE Poll
  BY <1>6, OwnStack
     DEF Poll, InLoop, flags, shims, outside, CallsHaveCause, TypeOK
<1>7. ASSUME NEW t \in Tasks, Submit(t) PROVE CallsHaveCause'
  BY <1>7
     DEF Submit, InLoop, flags, shims, outside, CallsHaveCause, TypeOK
<1>8. CASE EndSubmit
  BY <1>8
     DEF EndSubmit, InLoop, flags, shims, outside, CallsHaveCause, TypeOK
<1>9. CASE Wait
  BY <1>9
     DEF Wait, InLoop, flags, shims, outside, CallsHaveCause, TypeOK
<1>10. ASSUME NEW t \in Tasks, Collect(t) PROVE CallsHaveCause'
  BY <1>10
     DEF Collect, InLoop, flags, shims, outside, CallsHaveCause, TypeOK
<1>11. CASE EndCollect
  BY <1>11, OwnStack
     DEF EndCollect, InLoop, flags, shims, outside, CallsHaveCause, TypeOK
<1>12. CASE Finalize
  BY <1>12
     DEF Finalize, InLoop, flags, shims, outside, CallsHaveCause, TypeOK
<1>13. ASSUME NEW t \in Tasks, Start(t) PROVE CallsHaveCause'
  BY <1>13
     DEF Start, Goes, loop, mainVars, shims, outside, CallsHaveCause, TypeOK
<1>14. ASSUME NEW t \in Tasks, CheckCancel(t) PROVE CallsHaveCause'
  BY <1>14
     DEF CheckCancel, Goes, loop, mainVars, shims, outside, CallsHaveCause, TypeOK
<1>15. ASSUME NEW t \in Tasks, Launch(t) PROVE CallsHaveCause'
  BY <1>15
     DEF Launch, Goes, loop, mainVars, shims, outside, CallsHaveCause, TypeOK
<1>16. ASSUME NEW t \in Tasks, LockToRegister(t) PROVE CallsHaveCause'
  BY <1>16
     DEF LockToRegister, Goes, loop, mainVars, shims, outside, CallsHaveCause,
         TypeOK
<1>17. ASSUME NEW t \in Tasks, Register(t) PROVE CallsHaveCause'
  BY <1>17
     DEF Register, Goes, loop, mainVars, shims, outside, CallsHaveCause, TypeOK
<1>18. ASSUME NEW t \in Tasks, ShimExits(t) PROVE CallsHaveCause'
  BY <1>18
     DEF ShimExits, loop, mainVars, shims, outside, CallsHaveCause, TypeOK
<1>19. ASSUME NEW t \in Tasks, Reap(t) PROVE CallsHaveCause'
  BY <1>19
     DEF Reap, Goes, loop, mainVars, shims, outside, CallsHaveCause, TypeOK
<1>20. ASSUME NEW t \in Tasks, LockToUnregister(t) PROVE CallsHaveCause'
  BY <1>20
     DEF LockToUnregister, Goes, loop, mainVars, shims, outside, CallsHaveCause,
         TypeOK
<1>21. ASSUME NEW t \in Tasks, Unregister(t) PROVE CallsHaveCause'
  BY <1>21
     DEF Unregister, Goes, loop, mainVars, shims, outside, CallsHaveCause, TypeOK
<1>22. ASSUME NEW t \in Tasks, Finish(t) PROVE CallsHaveCause'
  BY <1>22
     DEF Finish, Goes, loop, mainVars, shims, outside, CallsHaveCause, TypeOK
<1>23. CASE Press
  BY <1>23, HandleStack
     DEF Press, Handle, mainVars, CallsHaveCause, TypeOK
<1>24. ASSUME NEW c \in Clients, CancelFlag(c) PROVE CallsHaveCause'
  BY <1>24
     DEF CancelFlag, mainVars, shims, CallsHaveCause, TypeOK
<1>25. ASSUME NEW c \in Clients, CancelSignal(c) PROVE CallsHaveCause'
  BY <1>25, HandleStack
     DEF CancelSignal, Handle, mainVars, CallsHaveCause, TypeOK
<1> QED
  BY <1>1, <1>2, <1>3, <1>4, <1>5, <1>6, <1>7, <1>8, <1>9, <1>10, <1>11, <1>12,
     <1>13,
     <1>14, <1>15, <1>16, <1>17, <1>18, <1>19, <1>20, <1>21, <1>22, <1>23, <1>24, <1>25
     DEF Next, Main, CallStep, Worker

\* Registration goes with the process.
LEMMA RegistrationKept ==
  ASSUME TypeOK, RegisteredWhileItRuns, [Next]_vars
  PROVE  RegisteredWhileItRuns'
<1>1. CASE UNCHANGED <<workerPc, shim, registered>>
  BY <1>1 DEF RegisteredWhileItRuns, Running
<1>2. CASE UNCHANGED vars
  BY <1>1, <1>2 DEF vars, shims
<1>3. CASE Main
  <2>1. ASSUME NEW t \in Tasks, Submit(t) PROVE RegisteredWhileItRuns'
    BY <2>1 DEF Submit, shims, RegisteredWhileItRuns, Running, TypeOK
  <2>2. CASE CallStep
    BY <1>1, <2>2 DEF CallStep, EnterLock, CopyActive, Return, Send, shims
  <2>3. CASE Poll \/ EndSubmit \/ Wait \/ EndCollect \/ Finalize
    BY <1>1, <2>3 DEF Poll, EndSubmit, Wait, EndCollect, Finalize, shims
  <2>4. ASSUME NEW t \in Tasks, Collect(t) PROVE RegisteredWhileItRuns'
    BY <1>1, <2>4 DEF Collect, shims
  <2> QED
    BY <1>3, <2>1, <2>2, <2>3, <2>4 DEF Main
<1>4. ASSUME NEW t \in Tasks, Worker(t) PROVE RegisteredWhileItRuns'
  <2>1. CASE Start(t) \/ CheckCancel(t) \/ Launch(t) \/ LockToRegister(t) \/ Register(t)
    BY <2>1 DEF Start, CheckCancel, Launch, LockToRegister, Register, Goes, shims,
       RegisteredWhileItRuns, Running, TypeOK
  <2>2. CASE ShimExits(t) \/ Reap(t) \/ LockToUnregister(t) \/ Unregister(t) \/ Finish(t)
    BY <2>2 DEF ShimExits, Reap, LockToUnregister, Unregister, Finish, Goes,
       shims,
       RegisteredWhileItRuns, Running, TypeOK
  <2> QED
    BY <1>4, <2>1, <2>2 DEF Worker
<1>5. ASSUME NEW c \in Clients, CancelFlag(c) \/ CancelSignal(c)
      PROVE  RegisteredWhileItRuns'
  BY <1>1, <1>5 DEF CancelFlag, CancelSignal, Handle, shims
<1>6. CASE Press
  BY <1>1, <1>6 DEF Press, Handle, shims
<1> QED
  BY <1>2, <1>3, <1>4, <1>5, <1>6 DEF Next

-----------------------------------------------------------------------------
(* What follows for every number of tasks, signals and clients.            *)

\* _lock has one holder at a time and is held by nobody between its critical
\* sections, and every call of cancel_active has a request of its own behind it.
THEOREM DeliveryInvariant == Spec => []DeliveryInductive
<1>1. Init => DeliveryInductive
  <2> SUFFICES ASSUME Init PROVE DeliveryInductive
    OBVIOUS
  <2>1. calls = << >> /\ Len(calls) = 0 /\ calls \in Seq(Call)
    BY EmptySeq DEF Init
  <2>2. TypeOK
    BY <2>1 DEF Init, TypeOK, Handling, WorkerPc
  <2>3. LockExcludes
    BY <2>1, DeliveryAssumption DEF Init, LockExcludes, Copying, Positions
  <2>4. CallsHaveCause
    BY <2>1 DEF Init, CallsHaveCause
  <2>5. RegisteredWhileItRuns
    BY DEF Init, RegisteredWhileItRuns, Running
  <2> QED
    BY <2>2, <2>3, <2>4, <2>5 DEF DeliveryInductive
<1>2. DeliveryInductive /\ [Next]_vars => DeliveryInductive'
  BY TypesKept, LockKept, CauseKept, RegistrationKept DEF DeliveryInductive
<1> QED
  BY <1>1, <1>2, PTL DEF Spec

\* A call waits for _lock in vain only above another one, so that two requests
\* have been made.
LEMMA StuckAboveAnother ==
  ASSUME DeliveryInductive, Stuck
  PROVE  Len(calls) \in Nat /\ Len(calls) >= 2
<1>1. calls \in Seq(Call) /\ calls # << >> /\ Top.at = "enter" /\ lock = "main"
  BY DEF DeliveryInductive, TypeOK, Stuck, At
<1>2. Len(calls) \in Nat \ {0} /\ calls[Len(calls)].at = "enter"
  BY <1>1, TopIsCall
<1>3. PICK i \in 1 .. Len(calls) : calls[i].at = "copy"
  BY <1>1 DEF DeliveryInductive, LockExcludes, Copying, Positions
<1>4. i # Len(calls)
  BY <1>2, <1>3
<1> QED
  BY <1>2, <1>3, <1>4

\* One Ctrl+C alone never makes the main thread wait for itself.
THEOREM StuckTakesTwoRequests == Spec => []StuckNeedsTwoRequests
<1>1. DeliveryInductive => StuckNeedsTwoRequests
  <2> SUFFICES ASSUME DeliveryInductive, Stuck
               PROVE  signals >= 2 \/ (recorded /\ signals >= 1)
    BY DEF StuckNeedsTwoRequests
  <2>1. Len(calls) \in Nat /\ Len(calls) >= 2
    BY StuckAboveAnother
  <2>2. signals \in Nat /\ Len(calls) <= signals + (IF recorded THEN 1 ELSE 0)
    BY DEF DeliveryInductive, TypeOK, CallsHaveCause
  <2> QED
    BY <2>1, <2>2
<1> QED
  BY <1>1, DeliveryInvariant, PTL

\* A main thread that waits for itself does so for good: no thread, shim, signal
\* or other process ever gets it out.
StuckForGood == [][Stuck => Stuck']_vars

\* threading.Lock in scheduler.py: the thread that waits is the one that would have
\* to let it go.
THEOREM MainThreadStaysStuck == Spec => StuckForGood
<1>1. DeliveryInductive /\ [Next]_vars => [Stuck => Stuck']_vars
  <2> SUFFICES ASSUME DeliveryInductive, Next, Stuck PROVE Stuck'
    BY DEF vars
  <2>1. /\ calls \in Seq(Call) /\ calls # << >> /\ Top.at = "enter"
        /\ lock = "main" /\ TypeOK
    BY DEF DeliveryInductive, TypeOK, Stuck, At
  <2>2. ~Main
    BY <2>1 DEF Main, CallStep, EnterLock, CopyActive, Send, Return, Returns, At,
       Poll, Submit, EndSubmit, Wait, Collect, EndCollect, Finalize, InLoop
  <2>3. ASSUME NEW t \in Tasks, Worker(t) PROVE UNCHANGED <<calls, lock>>
    <3>1. workerPc[t] \notin {"registering", "unregistering"}
      BY <2>1, DeliveryAssumption DEF DeliveryInductive, LockExcludes
    <3> QED
      BY <2>1, <2>3, <3>1 DEF Worker, Start, CheckCancel, Launch, LockToRegister,
         Register, ShimExits, Reap, LockToUnregister, Unregister, Finish, Goes, loop
  <2>4. CASE UNCHANGED <<calls, lock>>
    BY <2>1, <2>4 DEF Stuck, At, Top
  <2>5. ASSUME Handle PROVE Stuck'
    <3>1. /\ Len(calls) \in Nat /\ Len(calls') = Len(calls) + 1
          /\ calls' \in Seq(Call) /\ calls'[Len(calls) + 1].at = "enter"
      BY <2>1, <2>5, HandleStack
    <3>2. calls' # << >> /\ lock' = "main"
      BY <2>1, <2>5, <3>1, EmptySeq DEF Handle
    <3> QED
      BY <3>1, <3>2 DEF Stuck, At, Top
  <2>6. ASSUME NEW c \in Clients, CancelFlag(c) PROVE UNCHANGED <<calls, lock>>
    BY <2>6 DEF CancelFlag
  <2> QED
    BY <2>2, <2>3, <2>4, <2>5, <2>6 DEF Next, Press, CancelSignal
<1> QED
  BY <1>1, DeliveryInvariant, PTL DEF Spec, StuckForGood

\* A call of cancel_active signals every shim that runs, but for those whose
\* worker has started them and not registered them yet.
THEOREM OnlyUnregisteredMissed == Spec => MissedOnlyBeforeRegistration
<1>1. DeliveryInductive /\ [Next]_vars =>
        [CopyActive =>
           \A t \in Tasks : Running(t) /\ t \notin Top'.targets =>
             workerPc[t] \in {"launched", "registering"}]_vars
  <2> SUFFICES ASSUME DeliveryInductive, CopyActive,
                      NEW t \in Tasks, Running(t), t \notin Top'.targets
               PROVE  workerPc[t] \in {"launched", "registering"}
    OBVIOUS
  <2> DEFINE call == [at |-> "send", targets |-> registered]
  <2>1. calls \in Seq(Call) /\ calls # << >> /\ call \in Call /\ Becomes(call)
    BY DEF DeliveryInductive, TypeOK, CopyActive, At, Call
  <2>2. Len(calls') = Len(calls) /\ calls'[Len(calls)] = call
    BY <2>1, Replaced
  <2>3. Top'.targets = registered
    BY <2>2 DEF Top
  <2> QED
    BY <2>3 DEF DeliveryInductive, RegisteredWhileItRuns
<1> QED
  BY <1>1, DeliveryInvariant, PTL DEF Spec, MissedOnlyBeforeRegistration
=============================================================================
