---------------------------- MODULE ClientsProof ----------------------------
(***************************************************************************)
(* However many processes run, resume and cancel one workflow, with kills  *)
(* at any step: there is one scheduler at a time, a copy of state.json is  *)
(* out of date only because a scheduler was at work while it was held, and *)
(* until such a copy is written the promises of DurableProgress are kept.  *)
(***************************************************************************)
EXTENDS WorkflowClients, TLAPS

Holding == {"probing", "asking"} \cup Scheduling

ClientsTyped ==
  /\ disk \in Document /\ mem \in [Processes -> Document]
  /\ pc \in [Processes -> Pc]
  /\ runnerLock \in Processes \cup {Free}
  /\ active \in [Processes -> SUBSET Tasks]
  /\ met \in [Processes -> SUBSET Processes]
  /\ overtaken \in BOOLEAN

\* runner.lock is held by the one process that is where it is needed.
LeaseExcludes == \A p \in Processes : pc[p] \in Holding <=> runnerLock = p

\* Only a scheduler in its loop has tasks in hand.
HandsEmpty == \A p \in Processes : active[p] # {} => pc[p] = "running"

\* Until an old copy is written, a scheduler in its loop has the file in mind.
SchedulerInStep ==
  ~overtaken => \A p \in Processes : pc[p] \in {"running", "release"} => mem[p] = disk

\* A resume that is on its way has met every scheduler that may still write.
MeetsSchedulers ==
  \A p, q \in Processes :
    p # q /\ pc[q] \in Resuming /\ p \in Schedulers => p \in met[q]

ClientsInductive ==
  /\ ClientsTyped /\ LeaseExcludes /\ HandsEmpty
  /\ SchedulerInStep /\ MeetsSchedulers /\ StaleOnlyByScheduler
-----------------------------------------------------------------------------
(* Each part of the invariant is kept by every step.                       *)

\* The types are kept.
LEMMA TypesKept ==
  ASSUME ClientsTyped, [Next]_vars
  PROVE  ClientsTyped'
<1>1. CASE UNCHANGED vars
  BY <1>1 DEF vars, ClientsTyped, Document, Pc, Resuming, Scheduling
<1>2. ASSUME NEW p \in Processes, Step(p) PROVE ClientsTyped'
  <2>1. CASE Load(p)
    <3>1. Schedulers \subseteq Processes
      BY DEF Schedulers
    <3> QED
      BY <2>1, <3>1 DEF Load, Goes, ClientsTyped, Pc, Resuming, Scheduling
  <2>2. CASE Probe(p)
    BY <2>2 DEF Probe, Goes, ClientsTyped, Document, Pc, Resuming, Scheduling
  <2>3. CASE Refused(p)
    BY <2>3 DEF Refused, Goes, ClientsTyped, Document, Pc, Resuming, Scheduling
  <2>4. CASE EndProbe(p)
    BY <2>4 DEF EndProbe, Goes, ClientsTyped, Document, Pc, Resuming, Scheduling
  <2>5. CASE ResumeWrite(p)
    BY <2>5 DEF ResumeWrite, Goes, WritesFirst, ClientsTyped, Document, Pc, Resuming, Scheduling
  <2>6. CASE Acquire(p)
    BY <2>6 DEF Acquire, Goes, Meets, ClientsTyped, Document, Pc, Resuming, Scheduling
  <2>7. CASE Initialize(p)
    BY <2>7 DEF Initialize, Goes, WritesFirst, ClientsTyped, Document, Pc, Resuming, Scheduling
  <2>8. ASSUME NEW t \in Tasks, Attempt(p, t) PROVE ClientsTyped'
    <3>1. mem[p] \in Document /\ mem[p].history[t] + 1 \in Nat
      BY DEF ClientsTyped, Document
    <3>2. [mem[p] EXCEPT !.history[t] = @ + 1] \in Document
      BY <3>1 DEF Document
    <3> QED
      BY <2>8, <3>2 DEF Attempt, Writes, ClientsTyped
  <2>9. ASSUME NEW t \in Tasks, Settle(p, t) PROVE ClientsTyped'
    <3>1. PICK result \in {{}, {t}} :
            Writes(p, [mem[p] EXCEPT !.finished = @ \cup result])
      BY <2>9 DEF Settle
    <3>2. [mem[p] EXCEPT !.finished = @ \cup result] \in Document
      BY <3>1 DEF ClientsTyped, Document
    <3> QED
      BY <2>9, <3>1, <3>2 DEF Settle, Writes, ClientsTyped
  <2>10. CASE Finalize(p)
    BY <2>10 DEF Finalize, Goes, Writes, ClientsTyped, Document, Pc, Resuming, Scheduling
  <2>11. CASE Release(p)
    BY <2>11 DEF Release, Goes, ClientsTyped, Document, Pc, Resuming, Scheduling
  <2>12. CASE CancelProbe(p)
    BY <2>12 DEF CancelProbe, Goes, ClientsTyped, Document, Pc, Resuming, Scheduling
  <2>13. CASE CancelEndProbe(p)
    BY <2>13 DEF CancelEndProbe, Goes, ClientsTyped, Document, Pc, Resuming, Scheduling
  <2>14. CASE Crash(p)
    BY <2>14 DEF Crash, ClientsTyped, Document, Pc, Resuming, Scheduling
  <2> QED
    BY <1>2, <2>1, <2>2, <2>3, <2>4, <2>5, <2>6, <2>7, <2>8, <2>9, <2>10, <2>11, <2>12, <2>13, <2>14 DEF Step
<1> QED
  BY <1>1, <1>2 DEF Next

\* runner.lock goes from one holder to the next by way of nobody.
LEMMA LeaseKept ==
  ASSUME ClientsTyped, LeaseExcludes, [Next]_vars
  PROVE  LeaseExcludes'
<1>1. CASE UNCHANGED vars
  BY <1>1 DEF vars, ClientsTyped, LeaseExcludes, Holding, Scheduling
<1>2. ASSUME NEW p \in Processes, Step(p) PROVE LeaseExcludes'
  <2>1. CASE Load(p)
    BY <2>1, ClientsAssumption DEF Load, Goes, ClientsTyped, LeaseExcludes, Holding, Scheduling
  <2>2. CASE Probe(p)
    BY <2>2, ClientsAssumption DEF Probe, Goes, ClientsTyped, LeaseExcludes, Holding, Scheduling
  <2>3. CASE Refused(p)
    BY <2>3, ClientsAssumption DEF Refused, Goes, ClientsTyped, LeaseExcludes, Holding, Scheduling
  <2>4. CASE EndProbe(p)
    BY <2>4, ClientsAssumption DEF EndProbe, Goes, ClientsTyped, LeaseExcludes, Holding, Scheduling
  <2>5. CASE ResumeWrite(p)
    BY <2>5, ClientsAssumption DEF ResumeWrite, Goes, WritesFirst, ClientsTyped, LeaseExcludes, Holding, Scheduling
  <2>6. CASE Acquire(p)
    BY <2>6, ClientsAssumption DEF Acquire, Goes, Meets, ClientsTyped, LeaseExcludes, Holding, Scheduling
  <2>7. CASE Initialize(p)
    BY <2>7, ClientsAssumption DEF Initialize, Goes, WritesFirst, ClientsTyped, LeaseExcludes, Holding, Scheduling
  <2>8. ASSUME NEW t \in Tasks, Attempt(p, t) PROVE LeaseExcludes'
    BY <2>8, ClientsAssumption DEF Attempt, Writes, ClientsTyped, LeaseExcludes, Holding, Scheduling
  <2>9. ASSUME NEW t \in Tasks, Settle(p, t) PROVE LeaseExcludes'
    BY <2>9, ClientsAssumption DEF Settle, Writes, ClientsTyped, LeaseExcludes, Holding, Scheduling
  <2>10. CASE Finalize(p)
    BY <2>10, ClientsAssumption DEF Finalize, Goes, Writes, ClientsTyped, LeaseExcludes, Holding, Scheduling
  <2>11. CASE Release(p)
    BY <2>11, ClientsAssumption DEF Release, Goes, ClientsTyped, LeaseExcludes, Holding, Scheduling
  <2>12. CASE CancelProbe(p)
    BY <2>12, ClientsAssumption DEF CancelProbe, Goes, ClientsTyped, LeaseExcludes, Holding, Scheduling
  <2>13. CASE CancelEndProbe(p)
    BY <2>13, ClientsAssumption DEF CancelEndProbe, Goes, ClientsTyped, LeaseExcludes, Holding, Scheduling
  <2>14. CASE Crash(p)
    BY <2>14, ClientsAssumption DEF Crash, ClientsTyped, LeaseExcludes, Holding, Scheduling
  <2> QED
    BY <1>2, <2>1, <2>2, <2>3, <2>4, <2>5, <2>6, <2>7, <2>8, <2>9, <2>10, <2>11, <2>12, <2>13, <2>14 DEF Step
<1> QED
  BY <1>1, <1>2 DEF Next

\* Tasks in hand are given up at the end of the loop or with the process.
LEMMA HandsKept ==
  ASSUME ClientsTyped, HandsEmpty, [Next]_vars
  PROVE  HandsEmpty'
<1>1. CASE UNCHANGED vars
  BY <1>1 DEF vars, ClientsTyped, HandsEmpty
<1>2. ASSUME NEW p \in Processes, Step(p) PROVE HandsEmpty'
  <2>1. CASE Load(p)
    BY <2>1 DEF Load, Goes, ClientsTyped, HandsEmpty
  <2>2. CASE Probe(p)
    BY <2>2 DEF Probe, Goes, ClientsTyped, HandsEmpty
  <2>3. CASE Refused(p)
    BY <2>3 DEF Refused, Goes, ClientsTyped, HandsEmpty
  <2>4. CASE EndProbe(p)
    BY <2>4 DEF EndProbe, Goes, ClientsTyped, HandsEmpty
  <2>5. CASE ResumeWrite(p)
    BY <2>5 DEF ResumeWrite, Goes, WritesFirst, ClientsTyped, HandsEmpty
  <2>6. CASE Acquire(p)
    BY <2>6 DEF Acquire, Goes, Meets, ClientsTyped, HandsEmpty
  <2>7. CASE Initialize(p)
    BY <2>7 DEF Initialize, Goes, WritesFirst, ClientsTyped, HandsEmpty
  <2>8. ASSUME NEW t \in Tasks, Attempt(p, t) PROVE HandsEmpty'
    BY <2>8 DEF Attempt, Writes, ClientsTyped, HandsEmpty
  <2>9. ASSUME NEW t \in Tasks, Settle(p, t) PROVE HandsEmpty'
    BY <2>9 DEF Settle, Writes, ClientsTyped, HandsEmpty
  <2>10. CASE Finalize(p)
    BY <2>10 DEF Finalize, Goes, Writes, ClientsTyped, HandsEmpty
  <2>11. CASE Release(p)
    BY <2>11 DEF Release, Goes, ClientsTyped, HandsEmpty
  <2>12. CASE CancelProbe(p)
    BY <2>12 DEF CancelProbe, Goes, ClientsTyped, HandsEmpty
  <2>13. CASE CancelEndProbe(p)
    BY <2>13 DEF CancelEndProbe, Goes, ClientsTyped, HandsEmpty
  <2>14. CASE Crash(p)
    BY <2>14 DEF Crash, ClientsTyped, HandsEmpty
  <2> QED
    BY <1>2, <2>1, <2>2, <2>3, <2>4, <2>5, <2>6, <2>7, <2>8, <2>9, <2>10, <2>11, <2>12, <2>13, <2>14 DEF Step
<1> QED
  BY <1>1, <1>2 DEF Next

\* Whoever starts to schedule is met by all who are on their way.
LEMMA MeetingKept ==
  ASSUME ClientsTyped, MeetsSchedulers, [Next]_vars
  PROVE  MeetsSchedulers'
<1>1. CASE UNCHANGED vars
  BY <1>1 DEF vars, ClientsTyped, MeetsSchedulers, Schedulers, Resuming
<1>2. ASSUME NEW p \in Processes, Step(p) PROVE MeetsSchedulers'
  <2>1. CASE Load(p)
    BY <2>1 DEF Load, Goes, ClientsTyped, MeetsSchedulers, Schedulers, Resuming
  <2>2. CASE Probe(p)
    BY <2>2 DEF Probe, Goes, ClientsTyped, MeetsSchedulers, Schedulers, Resuming
  <2>3. CASE Refused(p)
    BY <2>3 DEF Refused, Goes, ClientsTyped, MeetsSchedulers, Schedulers, Resuming
  <2>4. CASE EndProbe(p)
    BY <2>4 DEF EndProbe, Goes, ClientsTyped, MeetsSchedulers, Schedulers, Resuming
  <2>5. CASE ResumeWrite(p)
    BY <2>5 DEF ResumeWrite, Goes, WritesFirst, ClientsTyped, MeetsSchedulers, Schedulers, Resuming
  <2>6. CASE Acquire(p)
    BY <2>6 DEF Acquire, Goes, Meets, ClientsTyped, MeetsSchedulers, Schedulers, Resuming
  <2>7. CASE Initialize(p)
    BY <2>7 DEF Initialize, Goes, WritesFirst, ClientsTyped, MeetsSchedulers, Schedulers, Resuming
  <2>8. ASSUME NEW t \in Tasks, Attempt(p, t) PROVE MeetsSchedulers'
    BY <2>8 DEF Attempt, Writes, ClientsTyped, MeetsSchedulers, Schedulers, Resuming
  <2>9. ASSUME NEW t \in Tasks, Settle(p, t) PROVE MeetsSchedulers'
    BY <2>9 DEF Settle, Writes, ClientsTyped, MeetsSchedulers, Schedulers, Resuming
  <2>10. CASE Finalize(p)
    BY <2>10 DEF Finalize, Goes, Writes, ClientsTyped, MeetsSchedulers, Schedulers, Resuming
  <2>11. CASE Release(p)
    BY <2>11 DEF Release, Goes, ClientsTyped, MeetsSchedulers, Schedulers, Resuming
  <2>12. CASE CancelProbe(p)
    BY <2>12 DEF CancelProbe, Goes, ClientsTyped, MeetsSchedulers, Schedulers, Resuming
  <2>13. CASE CancelEndProbe(p)
    BY <2>13 DEF CancelEndProbe, Goes, ClientsTyped, MeetsSchedulers, Schedulers, Resuming
  <2>14. CASE Crash(p)
    BY <2>14 DEF Crash, ClientsTyped, MeetsSchedulers, Schedulers, Resuming
  <2> QED
    BY <1>2, <2>1, <2>2, <2>3, <2>4, <2>5, <2>6, <2>7, <2>8, <2>9, <2>10, <2>11, <2>12, <2>13, <2>14 DEF Step
<1> QED
  BY <1>1, <1>2 DEF Next

\* The file is written by the one scheduler only, or with what it holds already.
LEMMA InStepKept ==
  ASSUME ClientsTyped, LeaseExcludes, SchedulerInStep, [Next]_vars
  PROVE  SchedulerInStep'
<1>1. CASE UNCHANGED vars
  BY <1>1 DEF vars, ClientsTyped, LeaseExcludes, SchedulerInStep, Holding, Scheduling
<1>2. ASSUME NEW p \in Processes, Step(p) PROVE SchedulerInStep'
  <2>1. CASE Load(p)
    BY <2>1 DEF Load, Goes, ClientsTyped, LeaseExcludes, SchedulerInStep, Holding, Scheduling
  <2>2. CASE Probe(p)
    BY <2>2 DEF Probe, Goes, ClientsTyped, LeaseExcludes, SchedulerInStep, Holding, Scheduling
  <2>3. CASE Refused(p)
    BY <2>3 DEF Refused, Goes, ClientsTyped, LeaseExcludes, SchedulerInStep, Holding, Scheduling
  <2>4. CASE EndProbe(p)
    BY <2>4 DEF EndProbe, Goes, ClientsTyped, LeaseExcludes, SchedulerInStep, Holding, Scheduling
  <2>5. CASE ResumeWrite(p)
    BY <2>5 DEF ResumeWrite, Goes, WritesFirst, ClientsTyped, LeaseExcludes, SchedulerInStep, Holding, Scheduling
  <2>6. CASE Acquire(p)
    BY <2>6 DEF Acquire, Goes, Meets, ClientsTyped, LeaseExcludes, SchedulerInStep, Holding, Scheduling
  <2>7. CASE Initialize(p)
    BY <2>7 DEF Initialize, Goes, WritesFirst, ClientsTyped, LeaseExcludes, SchedulerInStep, Holding, Scheduling
  <2>8. ASSUME NEW t \in Tasks, Attempt(p, t) PROVE SchedulerInStep'
    BY <2>8 DEF Attempt, Writes, ClientsTyped, LeaseExcludes, SchedulerInStep, Holding, Scheduling
  <2>9. ASSUME NEW t \in Tasks, Settle(p, t) PROVE SchedulerInStep'
    BY <2>9 DEF Settle, Writes, ClientsTyped, LeaseExcludes, SchedulerInStep, Holding, Scheduling
  <2>10. CASE Finalize(p)
    BY <2>10 DEF Finalize, Goes, Writes, ClientsTyped, LeaseExcludes, SchedulerInStep, Holding, Scheduling
  <2>11. CASE Release(p)
    BY <2>11 DEF Release, Goes, ClientsTyped, LeaseExcludes, SchedulerInStep, Holding, Scheduling
  <2>12. CASE CancelProbe(p)
    BY <2>12 DEF CancelProbe, Goes, ClientsTyped, LeaseExcludes, SchedulerInStep, Holding, Scheduling
  <2>13. CASE CancelEndProbe(p)
    BY <2>13 DEF CancelEndProbe, Goes, ClientsTyped, LeaseExcludes, SchedulerInStep, Holding, Scheduling
  <2>14. CASE Crash(p)
    BY <2>14 DEF Crash, ClientsTyped, LeaseExcludes, SchedulerInStep, Holding, Scheduling
  <2> QED
    BY <1>2, <2>1, <2>2, <2>3, <2>4, <2>5, <2>6, <2>7, <2>8, <2>9, <2>10, <2>11, <2>12, <2>13, <2>14 DEF Step
<1> QED
  BY <1>1, <1>2 DEF Next

\* A copy gets out of date by the steps of a scheduler that its holder has met.
LEMMA StaleKept ==
  ASSUME ClientsInductive, [Next]_vars
  PROVE  StaleOnlyByScheduler'
<1>1. CASE UNCHANGED vars
  BY <1>1 DEF vars, ClientsInductive, ClientsTyped, LeaseExcludes, SchedulerInStep, MeetsSchedulers, Schedulers, StaleOnlyByScheduler, Stale, Holding, Scheduling, Resuming
<1>2. ASSUME NEW p \in Processes, Step(p) PROVE StaleOnlyByScheduler'
  <2>1. CASE Load(p)
    BY <2>1 DEF Load, Goes, ClientsInductive, ClientsTyped, LeaseExcludes, SchedulerInStep, MeetsSchedulers, Schedulers, StaleOnlyByScheduler, Stale, Holding, Scheduling, Resuming
  <2>2. CASE Probe(p)
    BY <2>2 DEF Probe, Goes, ClientsInductive, ClientsTyped, LeaseExcludes, SchedulerInStep, MeetsSchedulers, Schedulers, StaleOnlyByScheduler, Stale, Holding, Scheduling, Resuming
  <2>3. CASE Refused(p)
    BY <2>3 DEF Refused, Goes, ClientsInductive, ClientsTyped, LeaseExcludes, SchedulerInStep, MeetsSchedulers, Schedulers, StaleOnlyByScheduler, Stale, Holding, Scheduling, Resuming
  <2>4. CASE EndProbe(p)
    BY <2>4 DEF EndProbe, Goes, ClientsInductive, ClientsTyped, LeaseExcludes, SchedulerInStep, MeetsSchedulers, Schedulers, StaleOnlyByScheduler, Stale, Holding, Scheduling, Resuming
  <2>5. CASE ResumeWrite(p)
    BY <2>5 DEF ResumeWrite, Goes, WritesFirst, ClientsInductive, ClientsTyped, LeaseExcludes, SchedulerInStep, MeetsSchedulers, Schedulers, StaleOnlyByScheduler, Stale, Holding, Scheduling, Resuming
  <2>6. CASE Acquire(p)
    BY <2>6 DEF Acquire, Goes, Meets, ClientsInductive, ClientsTyped, LeaseExcludes, SchedulerInStep, MeetsSchedulers, Schedulers, StaleOnlyByScheduler, Stale, Holding, Scheduling, Resuming
  <2>7. CASE Initialize(p)
    BY <2>7 DEF Initialize, Goes, WritesFirst, ClientsInductive, ClientsTyped, LeaseExcludes, SchedulerInStep, MeetsSchedulers, Schedulers, StaleOnlyByScheduler, Stale, Holding, Scheduling, Resuming
  <2>8. ASSUME NEW t \in Tasks, Attempt(p, t) PROVE StaleOnlyByScheduler'
    BY <2>8 DEF Attempt, Writes, ClientsInductive, ClientsTyped, LeaseExcludes, SchedulerInStep, MeetsSchedulers, Schedulers, StaleOnlyByScheduler, Stale, Holding, Scheduling, Resuming
  <2>9. ASSUME NEW t \in Tasks, Settle(p, t) PROVE StaleOnlyByScheduler'
    BY <2>9 DEF Settle, Writes, ClientsInductive, ClientsTyped, LeaseExcludes, SchedulerInStep, MeetsSchedulers, Schedulers, StaleOnlyByScheduler, Stale, Holding, Scheduling, Resuming
  <2>10. CASE Finalize(p)
    BY <2>10 DEF Finalize, Goes, Writes, ClientsInductive, ClientsTyped, LeaseExcludes, SchedulerInStep, MeetsSchedulers, Schedulers, StaleOnlyByScheduler, Stale, Holding, Scheduling, Resuming
  <2>11. CASE Release(p)
    BY <2>11 DEF Release, Goes, ClientsInductive, ClientsTyped, LeaseExcludes, SchedulerInStep, MeetsSchedulers, Schedulers, StaleOnlyByScheduler, Stale, Holding, Scheduling, Resuming
  <2>12. CASE CancelProbe(p)
    BY <2>12 DEF CancelProbe, Goes, ClientsInductive, ClientsTyped, LeaseExcludes, SchedulerInStep, MeetsSchedulers, Schedulers, StaleOnlyByScheduler, Stale, Holding, Scheduling, Resuming
  <2>13. CASE CancelEndProbe(p)
    BY <2>13 DEF CancelEndProbe, Goes, ClientsInductive, ClientsTyped, LeaseExcludes, SchedulerInStep, MeetsSchedulers, Schedulers, StaleOnlyByScheduler, Stale, Holding, Scheduling, Resuming
  <2>14. CASE Crash(p)
    BY <2>14 DEF Crash, ClientsInductive, ClientsTyped, LeaseExcludes, SchedulerInStep, MeetsSchedulers, Schedulers, StaleOnlyByScheduler, Stale, Holding, Scheduling, Resuming
  <2> QED
    BY <1>2, <2>1, <2>2, <2>3, <2>4, <2>5, <2>6, <2>7, <2>8, <2>9, <2>10, <2>11, <2>12, <2>13, <2>14 DEF Step
<1> QED
  BY <1>1, <1>2 DEF Next

-----------------------------------------------------------------------------
(* What follows for every number of processes.                             *)

\* The inductive invariant: one holder of runner.lock, hands empty outside the
\* loop of _run_state_machine, and who has met whom.
THEOREM ClientsInvariant == Spec => []ClientsInductive
<1>1. Init => ClientsInductive
  <2> SUFFICES ASSUME Init PROVE ClientsInductive
    OBVIOUS
  <2>1. Created \in Document
    BY DEF Created, Document
  <2>2. ClientsTyped
    BY <2>1, ClientsAssumption DEF Init, ClientsTyped, Pc, Resuming
  <2>3. LeaseExcludes /\ HandsEmpty /\ MeetsSchedulers /\ SchedulerInStep
    BY ClientsAssumption
       DEF Init, LeaseExcludes, HandsEmpty, MeetsSchedulers, SchedulerInStep,
           Schedulers, Resuming, Scheduling, Holding
  <2>4. StaleOnlyByScheduler
    BY DEF Init, StaleOnlyByScheduler, Stale
  <2> QED
    BY <2>2, <2>3, <2>4 DEF ClientsInductive
<1>2. ClientsInductive /\ [Next]_vars => ClientsInductive'
  BY TypesKept, LeaseKept, HandsKept, MeetingKept, InStepKept, StaleKept
     DEF ClientsInductive
<1> QED
  BY <1>1, <1>2, PTL DEF Spec

\* resume_workflow reads state.json before it asks for the lease: what it read
\* is out of date only when a scheduler was at work in between.
THEOREM CopiesAgeByScheduler == Spec => []StaleOnlyByScheduler
<1>1. ClientsInductive => StaleOnlyByScheduler
  BY DEF ClientsInductive
<1> QED
  BY <1>1, ClientsInvariant, PTL

\* The first old copy is written by a resume or a scheduler that has met
\* another scheduler since it read the file.
OvertakenByMeeting ==
  ~overtaken /\ overtaken' =>
    \E p \in Processes : /\ pc[p] \in {"write", "initialize"}
                         /\ mem[p] # disk /\ met[p] # {} /\ disk' = mem[p]

\* Kills, probes and cancellations never make a document go back, and a
\* scheduler that is at work never does it either.
THEOREM OvertakingNeedsMeeting == Spec => [][OvertakenByMeeting]_vars
<1>1. ClientsInductive /\ [Next]_vars => [OvertakenByMeeting]_vars
  <2> SUFFICES ASSUME ClientsInductive, Next PROVE OvertakenByMeeting
    BY DEF vars
  <2>1. PICK p \in Processes : Step(p)
    BY DEF Next
  <2> SUFFICES ASSUME ~overtaken, overtaken' PROVE OvertakenByMeeting
    BY DEF OvertakenByMeeting
  <2>2. ResumeWrite(p) \/ Initialize(p)
    BY <2>1 DEF Step, Load, Probe, Refused, EndProbe, Acquire, Attempt, Settle,
       Finalize, Release, CancelProbe, CancelEndProbe, Crash
  <2>3. pc[p] \in {"write", "initialize"} /\ disk' = mem[p] /\ mem[p] # disk
    BY <2>2 DEF ResumeWrite, Initialize, Goes, WritesFirst
  <2>4. met[p] # {}
    BY <2>3 DEF ClientsInductive, StaleOnlyByScheduler, Stale, Resuming, Scheduling
  <2> QED
    BY <2>3, <2>4 DEF OvertakenByMeeting
<1> QED
  BY <1>1, ClientsInvariant, PTL DEF Spec

-----------------------------------------------------------------------------
(* The promises of DurableProgress.                                        *)

\* The tasks in hand are those of the one scheduler in its loop.
LEMMA OneHand ==
  ASSUME ClientsTyped, LeaseExcludes, HandsEmpty,
         NEW p \in Processes, pc[p] = "running"
  PROVE  InHand = active[p] /\ \A q \in Processes \ {p} : active[q] = {}
<1>1. \A q \in Processes \ {p} : active[q] = {}
  BY DEF ClientsTyped, LeaseExcludes, HandsEmpty, Holding, Scheduling
<1> QED
  BY <1>1 DEF InHand

\* An attempt of a scheduler in step with the file is one of DurableProgress.
LEMMA AttemptProgresses ==
  ASSUME ClientsInductive, NEW p \in Processes, NEW t \in Tasks, Attempt(p, t),
         ~overtaken'
  PROVE  Progress!Attempt(t)
<1>1. pc[p] = "running" /\ mem[p] = disk
  BY DEF Attempt, ClientsInductive, SchedulerInStep
<1>2. InHand = active[p] /\ \A q \in Processes \ {p} : active[q] = {}
  BY <1>1, OneHand DEF ClientsInductive
<1>3. active' = [active EXCEPT ![p] = @ \cup {t}]
  BY DEF Attempt
<1>4. InHand' = InHand \cup {t} /\ InHand' = active'[p]
  <2>1. active'[p] = active[p] \cup {t} /\ \A q \in Processes \ {p} : active'[q] = {}
    BY <1>2, <1>3 DEF ClientsInductive, ClientsTyped
  <2> QED
    BY <1>2, <2>1 DEF InHand
<1>5. disk' = [disk EXCEPT !.history[t] = @ + 1]
  BY <1>1 DEF Attempt, Writes
<1>6. /\ disk'.finished = disk.finished
      /\ disk'.history = [disk.history EXCEPT ![t] = @ + 1]
  BY <1>5 DEF ClientsInductive, ClientsTyped, Document
<1>7. /\ t \notin disk.finished /\ DependsOn[t] \subseteq disk.finished
      /\ Cardinality(active'[p]) <= Limit
  BY <1>1 DEF Attempt
<1>8. Progress!Cardinality(InHand') = Cardinality(InHand')
  BY DEF Progress!Cardinality, Cardinality
<1> QED
  BY <1>4, <1>6, <1>7, <1>8 DEF Progress!Attempt

\* So is the end of one.
LEMMA SettleProgresses ==
  ASSUME ClientsInductive, NEW p \in Processes, NEW t \in Tasks, Settle(p, t),
         ~overtaken'
  PROVE  Progress!Settle(t)
<1>1. pc[p] = "running" /\ mem[p] = disk /\ t \in active[p]
  BY DEF Settle, ClientsInductive, SchedulerInStep
<1>2. InHand = active[p] /\ \A q \in Processes \ {p} : active[q] = {}
  BY <1>1, OneHand DEF ClientsInductive
<1>3. InHand' = InHand \ {t}
  <2>1. /\ active'[p] = active[p] \ {t}
        /\ \A q \in Processes \ {p} : active'[q] = {}
    BY <1>2 DEF Settle, ClientsInductive, ClientsTyped
  <2> QED
    BY <1>2, <2>1 DEF InHand
<1>4. PICK result \in {{}, {t}} : disk' = [disk EXCEPT !.finished = @ \cup result]
  BY <1>1 DEF Settle, Writes
<1>5. disk'.finished = disk.finished \cup result /\ disk'.history = disk.history
  BY <1>4 DEF ClientsInductive, ClientsTyped, Document
<1> QED
  BY <1>1, <1>2, <1>3, <1>5 DEF Progress!Settle

\* With the process its tasks in hand are gone, and nothing else.
LEMMA CrashAbandons ==
  ASSUME ClientsInductive, NEW p \in Processes, Crash(p)
  PROVE  Progress!Abandon \/ UNCHANGED <<disk, active>>
<1>1. CASE active[p] = {}
  BY <1>1 DEF Crash, ClientsInductive, ClientsTyped
<1>2. CASE active[p] # {}
  <2>1. pc[p] = "running"
    BY <1>2 DEF ClientsInductive, HandsEmpty
  <2>2. \A q \in Processes \ {p} : active[q] = {}
    BY <2>1, OneHand DEF ClientsInductive
  <2>3. \A q \in Processes : active'[q] = {}
    BY <2>2 DEF Crash, ClientsInductive, ClientsTyped
  <2>4. InHand' = {} /\ disk' = disk
    BY <2>3 DEF InHand, Crash
  <2> QED
    BY <2>4 DEF Progress!Abandon
<1> QED
  BY <1>1, <1>2

\* Any number of processes that run, resume, cancel and die implement
\* DurableProgress until one writes an old copy of state.json.
THEOREM PromisesKept == Spec => PromisesKeptUntilOvertaken
<1>1. Init => Progress!Init
  BY DEF Init, Created, InHand, Progress!Init
<1>2. ClientsInductive /\ [Next]_vars
        => [Progress!Next \/ overtaken']_<<disk, active>>
  <2> SUFFICES ASSUME ClientsInductive, Next, ~overtaken'
               PROVE  Progress!Next \/ UNCHANGED <<disk, active>>
    BY DEF vars
  <2>1. PICK p \in Processes : Step(p)
    BY DEF Next
  <2>2. CASE Load(p) \/ Probe(p) \/ Refused(p) \/ EndProbe(p) \/ Acquire(p)
             \/ Release(p) \/ CancelProbe(p) \/ CancelEndProbe(p)
    BY <2>2 DEF Load, Probe, Refused, EndProbe, Acquire, Release, CancelProbe,
       CancelEndProbe
  <2>3. CASE ResumeWrite(p) \/ Initialize(p)
    BY <2>3 DEF ResumeWrite, Initialize, WritesFirst
  <2>4. CASE Finalize(p)
    BY <2>4 DEF Finalize, Goes, Writes, ClientsInductive, SchedulerInStep
  <2>5. ASSUME NEW t \in Tasks, Attempt(p, t) PROVE Progress!Next
    BY <2>5, AttemptProgresses DEF Progress!Next
  <2>6. ASSUME NEW t \in Tasks, Settle(p, t) PROVE Progress!Next
    BY <2>6, SettleProgresses DEF Progress!Next
  <2>7. CASE Crash(p)
    BY <2>7, CrashAbandons DEF Progress!Next
  <2> QED
    BY <2>1, <2>2, <2>3, <2>4, <2>5, <2>6, <2>7 DEF Step
<1> QED
  BY <1>1, <1>2, ClientsInvariant, PTL DEF Spec, PromisesKeptUntilOvertaken
=============================================================================
