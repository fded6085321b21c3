----------------------------- MODULE SetupProof -----------------------------
(***************************************************************************)
(* Proofs about ProviderSetup: what a run of the setup leaves behind, for  *)
(* any providers, any selection, any failures and any number of signals.   *)
(***************************************************************************)
EXTENDS ProviderSetup, WellFoundedInduction, TLAPS

\* The order of the natural numbers as a relation, which keeps its operator
\* out of the obligations that use it.
Before == OpToRel(<, Nat)

\* A smaller number comes before a larger one.
LEMMA BeforeIsLess ==
  ASSUME NEW x \in Nat, NEW y \in Nat, y < x
  PROVE  <<y, x>> \in Before
  BY DEF Before, OpToRel

\* No descent from a natural number goes on for ever.
LEMMA BeforeIsWellFounded == IsWellFoundedOn(Before, Nat)
  BY NatLessThanWellFounded, Zenon DEF Before

\* A non-empty set of natural numbers has a first element.
LEMMA FirstIsIn ==
  ASSUME NEW S \in SUBSET Nat, S # {}
  PROVE  First(S) \in S /\ \A y \in S : First(S) <= y
  <1>1. PICK x \in S : \A y \in S : ~ (<<y, x>> \in Before)
    BY BeforeIsWellFounded, WFMin, Zenon
  <1>2. ASSUME NEW y \in S PROVE x <= y
    <2>1. x \in Nat /\ y \in Nat
      OBVIOUS
    <2>2. ~ (y < x)
      BY <1>1, <2>1, BeforeIsLess, Zenon
    <2> QED
      BY <2>1, <2>2
  <1> QED
    BY <1>2 DEF First

-----------------------------------------------------------------------------
\* A row is a number and holds a provider; unless every provider is installed,
\* a row is missing.
LEMMA RowsAreNumbers ==
  /\ Rows \subseteq Nat
  /\ \A i \in Rows : Registry[i] \in Providers
  /\ Missing \subseteq Rows
  /\ detected \subseteq Providers /\ detected # Providers => Missing # {}
  BY SetupAssumption DEF Rows, Providers, Missing

\* Wherever the cursor is moved to, there is a missing row, or it stays.
LEMMA MovedStaysOnRows ==
  ASSUME NEW from, NEW offset
  PROVE  Moved(from, offset) \in Missing \cup {from}
  <1> DEFINE after(k) == ((from - 1 + offset * k) % Len(Registry)) + 1
             hits == {k \in 1 .. Len(Registry) : after(k) \in Missing}
  <1>1. CASE hits = {}
    BY <1>1 DEF Moved
  <1>2. CASE hits # {}
    <2>1. hits \subseteq Nat
      BY SetupAssumption
    <2>2. First(hits) \in hits
      BY <1>2, <2>1, FirstIsIn
    <2>3. Moved(from, offset) = after(First(hits))
      BY <1>2 DEF Moved
    <2> HIDE DEF after
    <2> QED
      BY <2>2, <2>3
  <1> QED
    BY <1>1, <1>2

\* The provider being dealt with is one of the registry.
LEMMA CurrentIsProvider ==
  ASSUME TypeOK, queue # {}
  PROVE  Current \in Providers /\ Rest \subseteq Rows
  <1>1. First(queue) \in queue
    BY RowsAreNumbers, FirstIsIn DEF TypeOK
  <1> QED
    BY <1>1, RowsAreNumbers DEF TypeOK, Current, Rest

-----------------------------------------------------------------------------
(* Every step keeps the invariant.                                         *)

\* The steps of the program and the keys of the user.
LEMMA StepKeepsInvariant ==
  ASSUME Tracked, Step \/ Press \/ Confirm
  PROVE  Tracked'
  <1> USE DEF Tracked, TypeOK, Handled, TerminalTracked, ScriptTracked, InstallerTracked,
              ProbeSwept, Outside, Installing, Pc, Status, Group, Unset, work, screen,
              history, Error
  <1>1. UNCHANGED struck => Struck' = Struck
    BY DEF Struck
  <1>2. UNCHANGED queue => Current' = Current
    BY DEF Current
  <1>3. queue # {} => Current \in Providers /\ Rest \subseteq Rows
    BY CurrentIsProvider
  <1>4. ASSUME Load PROVE Tracked'
    BY <1>4, <1>1, <1>2, <1>3 DEF Load, Finish
  <1>5. ASSUME OpenTerminal PROVE Tracked'
    BY <1>5, <1>1, <1>2, <1>3 DEF OpenTerminal, Finish
  <1>6. ASSUME InstallHandlers PROVE Tracked'
    <2>1. cursor' \in Missing /\ Missing' = Missing /\ Missing \subseteq Rows
      BY <1>6, RowsAreNumbers, FirstIsIn DEF InstallHandlers, Missing
    <2>2. pc' \in Pc
      BY <1>6 DEF InstallHandlers
    <2>20. Handled'
      BY <1>6, <1>1, <1>2, <2>1 DEF InstallHandlers
    <2>21. TerminalTracked'
      BY <1>6, <1>1, <1>2 DEF InstallHandlers
    <2>22. ScriptTracked'
      BY <1>6, <1>1, <1>2 DEF InstallHandlers
    <2>23. InstallerTracked'
      BY <1>6, <1>1, <1>2 DEF InstallHandlers
    <2>24. ProbeSwept'
      BY <1>6, <1>1, <1>2 DEF InstallHandlers
    <2> HIDE DEF Pc, Installing, Status, Group, Unset, Missing
    <2>25. TypeOK'
      BY <1>6, <1>1, <1>2, <2>1, <2>2 DEF InstallHandlers
    <2> QED
      BY <2>20, <2>21, <2>22, <2>23, <2>24, <2>25
  <1>7. ASSUME Press PROVE Tracked'
    <2>1. cursor \in Missing /\ cursor' \in Missing /\ Missing' = Missing
      BY <1>7, MovedStaysOnRows DEF Press, Missing
    <2>2. Registry[cursor] \in Providers \ detected
      BY <2>1, RowsAreNumbers DEF Missing
    <2>3. pc' \in Pc /\ exit' \in {exit, 0} /\ queue' \subseteq Rows /\ selected' \subseteq selected \cup {Registry[cursor]}
      BY <1>7 DEF Press
    <2>20. Handled'
      BY <1>7, <1>1, <1>2, <2>1, <2>2 DEF Press
    <2>21. TerminalTracked'
      BY <1>7, <1>1, <1>2 DEF Press
    <2>22. ScriptTracked'
      BY <1>7, <1>1, <1>2 DEF Press
    <2>23. InstallerTracked'
      BY <1>7, <1>1, <1>2 DEF Press
    <2>24. ProbeSwept'
      BY <1>7, <1>1, <1>2 DEF Press
    <2> HIDE DEF Pc, Installing, Status, Group, Unset, Missing
    <2>25. TypeOK'
      BY <1>7, <1>1, <1>2, <2>1, <2>2, <2>3, RowsAreNumbers DEF Press
    <2> QED
      BY <2>20, <2>21, <2>22, <2>23, <2>24, <2>25
  <1>8. ASSUME Confirm PROVE Tracked'
    BY <1>8, <1>1, <1>2, <1>3 DEF Confirm
  <1>X. ASSUME RestoreInputMode PROVE Tracked'
    BY <1>X, <1>1, <1>2, <1>3 DEF RestoreInputMode
  <1>10. ASSUME Consider PROVE Tracked'
    BY <1>10, <1>1, <1>2, <1>3 DEF Consider, outside, Result
  <1>11. ASSUME Download PROVE Tracked'
    BY <1>11, <1>1, <1>2, <1>3 DEF Download, outside, Fail, Result
  <1>12. ASSUME MakeScript PROVE Tracked'
    BY <1>12, <1>1, <1>2, <1>3 DEF MakeScript, outside, Fail, Result
  <1>13. ASSUME NameScript PROVE Tracked'
    BY <1>13, <1>1, <1>2, <1>3 DEF NameScript, outside
  <1>14. ASSUME Spawn PROVE Tracked'
    BY <1>14, <1>1, <1>2, <1>3 DEF Spawn, outside, Fail, Result
  <1>15. ASSUME EnterWait PROVE Tracked'
    BY <1>15, <1>1, <1>2, <1>3 DEF EnterWait, outside
  <1>16. ASSUME InstallerExits PROVE Tracked'
    BY <1>16, <1>1, <1>2, <1>3 DEF InstallerExits, outside, Fail, Result
  <1>17. ASSUME InstallerTimesOut PROVE Tracked'
    BY <1>17, <1>1, <1>2, <1>3 DEF InstallerTimesOut, outside, Fail, Result
  <1>18. ASSUME Terminate PROVE Tracked'
    BY <1>18, <1>1, <1>2, <1>3 DEF Terminate, outside
  <1>19. ASSUME Kill PROVE Tracked'
    BY <1>19, <1>1, <1>2, <1>3 DEF Kill, outside
  <1>20. ASSUME Resolve PROVE Tracked'
    BY <1>20, <1>1, <1>2, <1>3 DEF Resolve, outside, Fail, Result
  <1>21. ASSUME VerifyWait PROVE Tracked'
    BY <1>21, <1>1, <1>2, <1>3 DEF VerifyWait, outside
  <1>22. ASSUME VerifySweep PROVE Tracked'
    BY <1>22, <1>1, <1>2, <1>3 DEF VerifySweep, outside, Result
  <1>23. ASSUME Unlink PROVE Tracked'
    <2>1. pc' \in Pc
      BY <1>23 DEF Unlink
    <2>20. Handled'
      BY <1>23, <1>1, <1>2 DEF Unlink, outside
    <2>21. TerminalTracked'
      BY <1>23, <1>1, <1>2 DEF Unlink, outside
    <2>22. ScriptTracked'
      BY <1>23, <1>1, <1>2 DEF Unlink, outside
    <2>23. InstallerTracked'
      BY <1>23, <1>1, <1>2 DEF Unlink, outside
    <2>24. ProbeSwept'
      BY <1>23, <1>1, <1>2 DEF Unlink, outside
    <2> HIDE DEF Pc, Installing, Status, Group, Unset, Missing
    <2>25. TypeOK'
      BY <1>23, <1>1, <1>2, <1>3, <2>1 DEF Unlink, outside
    <2> QED
      BY <2>20, <2>21, <2>22, <2>23, <2>24, <2>25
  <1>24. ASSUME Summarise PROVE Tracked'
    BY <1>24, <1>1, <1>2, <1>3 DEF Summarise
  <1>25. ASSUME RestoreHandlers PROVE Tracked'
    <2>1. pc' \in Pc
      BY <1>25 DEF RestoreHandlers
    <2>20. Handled'
      BY <1>25, <1>1, <1>2 DEF RestoreHandlers
    <2>21. TerminalTracked'
      BY <1>25, <1>1, <1>2 DEF RestoreHandlers
    <2>22. ScriptTracked'
      BY <1>25, <1>1, <1>2 DEF RestoreHandlers
    <2>23. InstallerTracked'
      BY <1>25, <1>1, <1>2 DEF RestoreHandlers
    <2>24. ProbeSwept'
      BY <1>25, <1>1, <1>2 DEF RestoreHandlers
    <2> HIDE DEF Pc, Installing, Status, Group, Unset, Missing
    <2>25. TypeOK'
      BY <1>25, <1>1, <1>2, <2>1 DEF RestoreHandlers
    <2> QED
      BY <2>20, <2>21, <2>22, <2>23, <2>24, <2>25
  <1>26. ASSUME RestoreTerminal PROVE Tracked'
    BY <1>26, <1>1, <1>2, <1>3 DEF RestoreTerminal, Finish, ExitStatus
  <1> QED
    BY <1>4, <1>5, <1>6, <1>7, <1>8, <1>X, <1>10, <1>11, <1>12, <1>13, <1>14, <1>15, <1>16, <1>17, <1>18, <1>19, <1>20, <1>21, <1>22, <1>23, <1>24, <1>25, <1>26 DEF Step

\* A signal: what it interrupts is noted, and where its exception lands knows
\* what there is to undo.
LEMMA SignalKeepsInvariant ==
  ASSUME Tracked, NEW s \in Signals, Signal(s)
  PROVE  Tracked'
  <1>1. Struck' = Struck \cup {pc}
    BY DEF Tracked, TypeOK, Signal, Struck
  <1>2. Current' = Current
    BY DEF Signal, work, Current
  <1>3. pc \in Pc /\ pc # "exited" /\ s \in {1, 2, 15}
    BY SetupAssumption DEF Tracked, TypeOK, Signal
  <1>4. /\ pc' \in Pc
        /\ pc' # "exited" => pc # "load"
        /\ pc' = "exited" => pc \in Outside \/ ~handled
        /\ pc' \in {"terminate", "kill"} => pc = "wait"
        /\ pc' \notin Outside => pc' \in {"terminate", "unlink"} /\ pc \in Installing
    BY <1>3 DEF Signal, Unwind, Pc, Installing, Outside
  <1>5. TypeOK'
    <2>1. struck' \in Seq(Pc) /\ Len(struck') <= MaxSignals
      BY <1>3, SetupAssumption DEF Tracked, TypeOK, Signal
    <2>2. exit' \in {Unset, 0, 1, 2} \cup {128 + i : i \in Signals}
      BY DEF Tracked, TypeOK, Signal
    <2>3. raised' = s /\ UNCHANGED <<dryRun, detected, cursor, selected, terminal, handled, queue,
                                     named, scripts, installer, probe, installed, results, kept>>
      BY DEF Signal, work, screen
    <2> QED
      BY <1>4, <2>1, <2>2, <2>3 DEF Tracked, TypeOK
  <1>6. Handled'
    <2>1. UNCHANGED <<detected, cursor, selected, handled>>
      BY DEF Signal, screen
    <2>2. Missing' = Missing
      BY <2>1 DEF Missing
    <2>3. pc' # "choose" /\ (pc' \notin Outside => pc \notin Outside)
      BY <1>4 DEF Outside, Installing
    <2> QED
      BY <1>3, <1>4, <2>1, <2>2, <2>3 DEF Tracked, Handled
  <1>7. TerminalTracked'
    BY <1>1, <1>4 DEF Tracked, TerminalTracked, Handled, Signal, Unwind, Outside, Installing
  <1>8. ScriptTracked'
    BY <1>1, <1>2, <1>3, <1>4 DEF Tracked, ScriptTracked, Handled, Signal, Unwind, work, Outside, Installing, Pc
  <1>X. InstallerTracked'
    BY <1>1, <1>3, <1>4 DEF Tracked, InstallerTracked, Handled, Signal, Unwind, work, Outside, Installing, Pc
  <1>10. ProbeSwept'
    BY <1>3 DEF Tracked, ProbeSwept, Signal
  <1> QED
    BY <1>5, <1>6, <1>7, <1>8, <1>X, <1>10 DEF Tracked

\* At the start the terminal is as found and nothing runs.
LEMMA InitHasInvariant == Init => Tracked
  <1> SUFFICES ASSUME Init PROVE Tracked
    OBVIOUS
  <1>1. "load" \in Pc /\ "gone" \in Group /\ "none" \in Status
    BY DEF Pc, Group, Status
  <1>2. struck = <<>> /\ Len(struck) <= MaxSignals
    BY SetupAssumption DEF Init
  <1>3. TypeOK
    <2>1. results \in [Providers -> Status] /\ struck \in Seq(Pc)
      BY <1>1 DEF Init
    <2>2. queue \subseteq Rows /\ scripts \subseteq Providers /\ selected \subseteq Providers
      BY DEF Init
    <2> QED
      BY <1>1, <1>2, <2>1, <2>2 DEF Init, TypeOK
  <1> QED
    BY <1>3 DEF Init, Tracked, Handled, TerminalTracked, ScriptTracked, InstallerTracked,
                ProbeSwept, Outside, Installing, Struck

\* Terminal, script, processes and handlers are tracked in every reachable state.
LEMMA TrackedHolds == Spec => []Tracked
  <1>1. ASSUME Tracked, UNCHANGED vars PROVE Tracked'
    <2>1. /\ UNCHANGED <<pc, dryRun, detected, cursor, selected, terminal, handled, queue, named>>
          /\ UNCHANGED <<scripts, installer, probe, installed, results, raised, exit, struck, kept>>
      BY <1>1 DEF vars, screen, work, history
    <2>2. Missing' = Missing /\ Struck' = Struck /\ Current' = Current
      BY <2>1 DEF Missing, Struck, Current
    <2>3. TypeOK'
      BY <1>1, <2>1 DEF Tracked, TypeOK
    <2> QED
      BY <1>1, <2>1, <2>2, <2>3 DEF Tracked, Handled, TerminalTracked, ScriptTracked,
                                    InstallerTracked, ProbeSwept
  <1>2. Tracked /\ [Next]_vars => Tracked'
    BY <1>1, StepKeepsInvariant, SignalKeepsInvariant DEF Next
  <1> QED
    BY InitHasInvariant, <1>2, PTL DEF Spec

\* The terminal is as it was when a run is over, unless a signal found the
\* session half open or half closed.
THEOREM TerminalIsRestored == Spec => []TerminalRestored
  <1>1. Tracked => TerminalRestored
    BY DEF Tracked, TerminalTracked, TerminalRestored, Over
  <1> QED
    BY TrackedHolds, <1>1, PTL

\* The scripts a run leaves behind are those the system would not let it
\* remove, and the last provider's if a signal came at one of two instants.
THEOREM ScriptsAreAccountedFor == Spec => []ScriptsAccountedFor
  <1>1. Tracked => ScriptsAccountedFor
    BY DEF Tracked, ScriptTracked, ScriptsAccountedFor, Over, Installing
  <1> QED
    BY TrackedHolds, <1>1, PTL

\* No installer is left running, but for the three instants named.
THEOREM InstallerIsStopped == Spec => []InstallerStopped
  <1>1. Tracked => InstallerStopped
    BY DEF Tracked, InstallerTracked, InstallerStopped, Over
  <1> QED
    BY TrackedHolds, <1>1, PTL

-----------------------------------------------------------------------------
(* The cursor.                                                             *)

\* Going once round the rows changes nothing.
LEMMA RoundAndRound ==
  ASSUME NEW n \in Nat \ {0}, NEW x \in Int
  PROVE  x % n \in 0 .. n - 1 /\ (x + n) % n = x % n /\ (x - n) % n = x % n
  <1>1. x % n \in 0 .. n - 1
    OBVIOUS
  <1>2. x \div n \in Int
    OBVIOUS
  <1>3. x % n = x - n * (x \div n)
    OBVIOUS
  <1>4. PICK q \in Int : x % n = x - n * q
    BY <1>2, <1>3
  <1>5. PICK i \in 0 .. n - 1 : x % n = i
    BY <1>1
  <1>6. n * (q + 1) = n * q + n /\ n * (q - 1) = n * q - n /\ n * q \in Int
    OBVIOUS
  <1>7. (n * (q + 1) + i) % n = i /\ (n * (q - 1) + i) % n = i
    OBVIOUS
  <1>8. n * (q + 1) + i = x + n /\ n * (q - 1) + i = x - n
    BY <1>4, <1>5, <1>6
  <1> QED
    BY <1>1, <1>5, <1>7, <1>8

\* Where m rows further leads, and what k rows back from there is.
LEMMA ForthAndBack ==
  ASSUME NEW n \in Nat \ {0}, NEW c \in 1 .. n, NEW m \in 1 .. n, NEW k \in 0 .. m
  PROVE  (((c - 1 + m) % n) - k) % n = (c - 1 + (m - k)) % n
  <1> DEFINE x == c - 1 + m
  <1>1. x \in Int /\ 0 <= x /\ x < 2 * n
    OBVIOUS
  <1>2. CASE x < n
    <2>1. x % n = x
      BY <1>1, <1>2
    <2>2. x - k = c - 1 + (m - k)
      OBVIOUS
    <2> QED
      BY <2>1, <2>2
  <1>3. CASE ~ (x < n)
    <2>1. (x - n) \in 0 .. n - 1
      BY <1>1, <1>3
    <2>2. (x - n) % n = x - n
      BY <2>1
    <2>3. x % n = x - n
      BY <1>1, <2>2, RoundAndRound
    <2>4. (x - n) - k = (c - 1 + (m - k)) - n /\ c - 1 + (m - k) \in Int
      OBVIOUS
    <2>5. ((c - 1 + (m - k)) - n) % n = (c - 1 + (m - k)) % n
      BY <2>4, RoundAndRound
    <2> QED
      BY <2>3, <2>4, <2>5
  <1> QED
    BY <1>2, <1>3

\* The row that k steps in the direction of offset lead to, and the steps
\* that lead to a missing one.
After(from, offset, k) == ((from - 1 + offset * k) % Len(Registry)) + 1
Hits(from, offset) == {k \in 1 .. Len(Registry) : After(from, offset, k) \in Missing}

\* The cursor stops at the first missing row in its direction.
LEMMA MovedIsFirstHit ==
  ASSUME NEW from, NEW offset, Hits(from, offset) # {}
  PROVE  Moved(from, offset) = After(from, offset, First(Hits(from, offset)))
  BY DEF Moved, After, Hits

\* From a row that can be selected, down and up again leads back.
LEMMA DownAndUp ==
  ASSUME NEW c \in Missing
  PROVE  Moved(Moved(c, 1), -1) = c
  <1> DEFINE n == Len(Registry)
             m == First(Hits(c, 1))
             there == After(c, 1, m)
  <1>1. n \in Nat \ {0} /\ Missing \subseteq 1 .. n /\ c \in 1 .. n
    BY SetupAssumption, RowsAreNumbers DEF Rows
  <1>2. (c - 1) % n = c - 1
    BY <1>1
  <1>3. n \in Hits(c, 1)
    <2>1. c - 1 + 1 * n = (c - 1) + n /\ c - 1 \in Int
      BY <1>1
    <2>2. ((c - 1) + n) % n = c - 1
      BY <1>1, <1>2, <2>1, RoundAndRound
    <2>3. After(c, 1, n) = c
      BY <1>1, <2>1, <2>2 DEF After
    <2> QED
      BY <1>1, <2>3 DEF Hits
  <1>4. m \in Hits(c, 1) /\ \A k \in Hits(c, 1) : m <= k
    <2>1. Hits(c, 1) \subseteq Nat
      BY <1>1 DEF Hits
    <2> QED
      BY <1>3, <2>1, FirstIsIn
  <1>5. m \in 1 .. n
    BY <1>4 DEF Hits
  <1> HIDE DEF m
  <1>6. Moved(c, 1) = there
    BY <1>3, MovedIsFirstHit DEF m
  <1>7. ASSUME NEW k \in 0 .. m
        PROVE  After(there, -1, k) = After(c, 1, m - k)
    <2>1. (((c - 1 + m) % n) - k) % n = (c - 1 + (m - k)) % n
      BY <1>1, <1>5, ForthAndBack
    <2>2. (c - 1 + m) % n \in Int
      BY <1>1, <1>5
    <2>3. there - 1 + (-1) * k = ((c - 1 + m) % n) - k
      <3>1. 1 * m = m /\ (-1) * k = -k
        BY <1>5
      <3>2. there = ((c - 1 + m) % n) + 1
        BY <3>1 DEF After
      <3> HIDE DEF there
      <3> QED
        BY <1>5, <2>2, <3>1, <3>2
    <2>4. c - 1 + 1 * (m - k) = c - 1 + (m - k)
      BY <1>1, <1>5
    <2> QED
      BY <2>1, <2>3, <2>4 DEF After
  <1> HIDE DEF there
  <1>8. After(there, -1, m) = c
    <2>1. m \in 0 .. m /\ m - m = 0 /\ c - 1 + 1 * 0 = c - 1 /\ (c - 1) + 1 = c
      BY <1>1, <1>5
    <2>2. After(c, 1, 0) = c
      BY <1>2, <2>1 DEF After
    <2>3. After(there, -1, m) = After(c, 1, m - m)
      BY <1>7, <2>1
    <2> QED
      BY <2>1, <2>2, <2>3
  <1>X. m \in Hits(there, -1)
    BY <1>5, <1>8 DEF Hits
  <1>10. ASSUME NEW k \in Hits(there, -1), k < m PROVE FALSE
    <2>1. k \in 1 .. n /\ After(there, -1, k) \in Missing
      BY DEF Hits
    <2>2. k \in 0 .. m /\ m - k \in 1 .. n /\ m - k < m
      BY <1>1, <1>5, <1>10, <2>1
    <2>3. After(there, -1, k) = After(c, 1, m - k)
      BY <1>7, <2>2
    <2>4. m - k \in Hits(c, 1)
      BY <2>1, <2>2, <2>3 DEF Hits
    <2>5. m <= m - k
      BY <1>4, <2>4
    <2> QED
      BY <1>1, <1>5, <2>1, <2>2, <2>5
  <1>11. First(Hits(there, -1)) = m
    <2> DEFINE f == First(Hits(there, -1))
    <2>1. Hits(there, -1) \subseteq Nat
      BY <1>1 DEF Hits
    <2>2. f \in Hits(there, -1) /\ f <= m
      BY <1>X, <2>1, FirstIsIn
    <2>3. f \in Nat
      BY <2>1, <2>2
    <2>4. ~ (f < m)
      BY <1>10, <2>2
    <2> HIDE DEF f
    <2>5. f = m
      BY <1>5, <2>2, <2>3, <2>4
    <2> QED
      BY <2>5 DEF f
  <1> QED
    BY <1>6, <1>8, <1>X, <1>11, MovedIsFirstHit

\* Only rows that were missing are under the cursor or selected, and the keys
\* for down and up undo each other.
THEOREM OnlyMissingIsSelectable == Spec => []OnlyMissingSelectable
  <1>1. Tracked => OnlyMissingSelectable
    BY DownAndUp DEF Tracked, Handled, OnlyMissingSelectable
  <1> QED
    BY TrackedHolds, <1>1, PTL

-----------------------------------------------------------------------------
(* The selected providers.                                                 *)

\* A result is written for the current provider, or not at all.
LEMMA ResultWritten ==
  ASSUME Tracked, NEW status \in Status, Result(status), queue # {}
  PROVE  /\ results'[Current] = status
         /\ \A p \in Providers : p # Current => results'[p] = results[p]
  BY CurrentIsProvider DEF Tracked, TypeOK, Result

\* What a result says of a provider is true.
LEMMA ResultsTrueKept ==
  ASSUME Tracked, ResultsTrue, [Next]_vars
  PROVE  ResultsTrue'
  <1>q. pc \in Installing \cup {"unlink"} => queue # {}
    BY DEF Tracked, ScriptTracked
  <1>c. UNCHANGED queue => Current' = Current
    BY DEF Current
  <1>1. CASE UNCHANGED <<results, installed>> /\ pc' \notin {"verifyWait", "verifySweep"}
    BY <1>1 DEF ResultsTrue
  <1>2. CASE Consider
    <2>1. CASE UNCHANGED results
      BY <1>2, <2>1 DEF Consider, ResultsTrue
    <2>2. CASE Result(IF Current \in installed THEN "already-installed" ELSE "dry-run")
      BY <1>2, <2>2, ResultWritten DEF Consider, ResultsTrue, Status
    <2> QED
      BY <1>2, <2>1, <2>2 DEF Consider
  <1>3. CASE Download \/ MakeScript \/ Spawn \/ InstallerTimesOut
    BY <1>3, <1>q, ResultWritten
    DEF Download, MakeScript, Spawn, InstallerTimesOut, Fail, ResultsTrue, Status,
        Installing
  <1>4. CASE InstallerExits
    <2>1. installed \subseteq installed' /\ pc' \notin {"verifyWait", "verifySweep"}
      BY <1>4 DEF InstallerExits, Fail
    <2>2. Result("failed") \/ UNCHANGED results
      BY <1>4 DEF InstallerExits, Fail
    <2> QED
      BY <1>4, <1>q, <2>1, <2>2, ResultWritten
      DEF InstallerExits, ResultsTrue, Status, Installing
  <1>5. CASE Resolve
    BY <1>5, <1>q, <1>c, ResultWritten DEF Resolve, Fail, ResultsTrue, Status, Installing
  <1>6. CASE VerifyWait
    BY <1>6, <1>c DEF VerifyWait, ResultsTrue
  <1>7. CASE VerifySweep
    BY <1>7, <1>q, ResultWritten DEF VerifySweep, ResultsTrue, Status, Installing
  <1> QED
    BY <1>1, <1>2, <1>3, <1>4, <1>5, <1>6, <1>7 DEF Next, Step, Load, Finish,
       OpenTerminal, InstallHandlers, Press, Confirm, RestoreInputMode, NameScript,
       EnterWait, Terminate, Kill, Unlink, Summarise, RestoreHandlers,
       RestoreTerminal, Signal, Unwind, work, vars, Installing, ResultsTrue, Current

\* A signal that has unwound a run cannot be taken back.
LEMMA NoSignal ==
  ASSUME Tracked, [Next]_vars, raised' = 0
  PROVE  raised = 0 /\ (Step \/ Press \/ Confirm \/ UNCHANGED vars)
  <1>1. ASSUME NEW s \in Signals, Signal(s)
        PROVE  FALSE
    BY <1>1, SetupAssumption DEF Signal
  <1> QED
    BY <1>1 DEF Next, Step, Load, OpenTerminal, InstallHandlers, Press, Confirm,
       RestoreInputMode, Consider, Download, MakeScript, NameScript, Spawn,
       EnterWait, InstallerExits, InstallerTimesOut, Terminate, Kill, Resolve,
       VerifyWait, VerifySweep, Unlink, Summarise, RestoreHandlers,
       RestoreTerminal, outside, vars, Error

\* While the loop goes on, a result only takes the place of another.
LEMMA WrittenDealt ==
  ASSUME Tracked, queue # {}, NEW status \in Status \ {"none"}, Result(status),
         NEW rows, rows \in {queue, Rest},
         \A p \in selected : results[p] # "none" \/ \E i \in queue : Registry[i] = p
  PROVE  \A p \in selected : results'[p] # "none" \/ \E i \in rows : Registry[i] = p
  <1>1. selected \subseteq Providers
    BY DEF Tracked, TypeOK
  <1> QED
    BY <1>1, ResultWritten DEF Rest, Current

\* Who was selected is dealt with or still to come.
LEMMA DealtKept ==
  ASSUME Tracked, Dealt, [Next]_vars
  PROVE  Dealt'
  <1> SUFFICES ASSUME raised' = 0
               PROVE  Dealt'
    BY DEF Dealt
  <1>0. raised = 0 /\ (Step \/ Press \/ Confirm \/ UNCHANGED vars)
    BY NoSignal
  <1>q. pc \in Installing \cup {"unlink"} => queue # {}
    BY DEF Tracked, ScriptTracked
  <1>c. UNCHANGED queue => Current' = Current
    BY DEF Current
  <1>p. selected \subseteq Providers /\ queue \subseteq Rows
    BY DEF Tracked, TypeOK
  <1>r. Rows' = Rows
    BY DEF Rows
  <1>1. CASE UNCHANGED vars
    BY <1>0, <1>1, <1>c DEF Dealt, vars, work, screen, Rows
  <1>2. CASE Load \/ OpenTerminal \/ InstallHandlers \/ RestoreHandlers
             \/ RestoreTerminal \/ Summarise
    BY <1>0, <1>2 DEF Dealt, Load, OpenTerminal, InstallHandlers, RestoreHandlers,
       RestoreTerminal, Summarise, Finish, work, Installing
  <1>3. CASE Press
    BY <1>0, <1>3, <1>r DEF Dealt, Press, Installing, screen
  <1>4. CASE Confirm
    BY <1>0, <1>4, <1>r DEF Dealt, Confirm, Installing, screen, work
  <1>5. CASE RestoreInputMode
    BY <1>0, <1>5, <1>p DEF Dealt, RestoreInputMode, Installing, screen, work,
       Providers, Rows
  <1>6. CASE Consider
    <2>1. CASE UNCHANGED <<results, queue>> /\ pc' = "download"
      BY <1>0, <1>6, <2>1 DEF Dealt, Consider, outside, screen, Installing
    <2>2. CASE pc' = "next" /\ queue' = Rest
               /\ Result(IF Current \in installed THEN "already-installed"
                                                 ELSE "dry-run")
      <3>1. PICK status \in {"already-installed", "dry-run"} : Result(status)
        BY <2>2
      <3>2. \A p \in selected : results'[p] # "none" \/ \E i \in Rest : Registry[i] = p
        BY <1>0, <1>6, <3>1, WrittenDealt DEF Dealt, Consider, Status
      <3> QED
        BY <1>6, <2>2, <3>2 DEF Dealt, Consider, outside, screen, Installing
    <2> QED
      BY <1>6, <2>1, <2>2 DEF Consider
  <1>7. CASE /\ UNCHANGED <<results, queue, selected>>
             /\ pc \in Installing /\ pc' \in Installing
             /\ pc' \in {"terminate", "kill"} =>
                  pc \in {"terminate", "kill"}
    BY <1>0, <1>7, <1>c DEF Dealt, Installing
  <1>8. CASE /\ \E status \in Status \ {"none"} : Result(status)
             /\ UNCHANGED <<queue, selected>>
             /\ pc \in Installing /\ pc' \in Installing \cup {"unlink"}
    <2>1. PICK status \in Status \ {"none"} : Result(status)
      BY <1>8
    <2>2. \A p \in selected : results'[p] # "none" \/ \E i \in queue : Registry[i] = p
      BY <1>0, <1>8, <1>q, <2>1, WrittenDealt DEF Dealt
    <2>3. results'[Current] # "none"
      BY <1>8, <1>q, <2>1, ResultWritten
    <2> QED
      BY <1>8, <1>c, <2>2, <2>3 DEF Dealt, Installing
  <1>X. CASE /\ UNCHANGED <<results, queue, selected>>
             /\ pc \in {"terminate", "kill"} /\ pc' \in {"kill", "unlink"}
    BY <1>0, <1>X, <1>c DEF Dealt, Installing
  <1>10. CASE Unlink
    <2>1. /\ pc = "unlink" /\ pc' = "next" /\ queue' = Rest
          /\ UNCHANGED <<results, selected>>
      BY <1>0, <1>10 DEF Unlink, outside, screen
    <2>2. results[Current] # "none"
      BY <1>0, <2>1 DEF Dealt
    <2>3. \A p \in selected : results[p] # "none" \/ \E i \in queue : Registry[i] = p
      BY <1>0, <2>1 DEF Dealt
    <2>4. \A p \in selected : results[p] # "none" \/ \E i \in Rest : Registry[i] = p
      BY <2>2, <2>3 DEF Rest, Current
    <2> QED
      BY <2>1, <2>4 DEF Dealt, Installing
  <1>11. CASE Download \/ MakeScript \/ NameScript \/ Spawn \/ EnterWait
              \/ InstallerExits \/ InstallerTimesOut \/ Terminate \/ Kill \/ Resolve
              \/ VerifyWait \/ VerifySweep
    <2>1. UNCHANGED <<queue, selected>> /\ pc \in Installing
      BY <1>11 DEF Download, MakeScript, NameScript, Spawn, EnterWait,
         InstallerExits, InstallerTimesOut, Terminate, Kill, Resolve, VerifyWait,
         VerifySweep, outside, screen, work, Installing
    <2>2. CASE Download \/ MakeScript \/ Spawn \/ InstallerExits \/ Resolve
      <3>1. \/ Result("failed") /\ pc' = "unlink"
            \/ /\ UNCHANGED results
               /\ pc' \in Installing \ {"terminate", "kill"}
        BY <2>2 DEF Download, MakeScript, Spawn, InstallerExits, Resolve, Fail,
           Installing
      <3> QED
        BY <1>7, <1>8, <2>1, <3>1 DEF Status
    <2>3. CASE InstallerTimesOut \/ VerifySweep
      BY <1>8, <2>1, <2>3 DEF InstallerTimesOut, VerifySweep, Fail, Status, Installing
    <2>4. CASE NameScript \/ EnterWait \/ VerifyWait
      BY <1>7, <2>1, <2>4 DEF NameScript, EnterWait, VerifyWait, work, Installing
    <2>5. CASE Terminate \/ Kill
      BY <1>X, <2>1, <2>5 DEF Terminate, Kill
    <2> QED
      BY <1>11, <2>2, <2>3, <2>4, <2>5
  <1> QED
    BY <1>0, <1>1, <1>2, <1>3, <1>4, <1>5, <1>6, <1>10, <1>11 DEF Step

\* A result is written for the provider whose turn it is, and no other waits
\* under the same name.
LEMMA JudgedInTurn ==
  ASSUME Tracked, raised = 0, Unjudged, queue # {}, NEW status \in Status,
         Result(status), NEW i \in queue \ {First(queue)}
  PROVE  results'[Registry[i]] = "none"
  <1>1. First(queue) \in queue /\ queue \subseteq Rows
    BY RowsAreNumbers, FirstIsIn DEF Tracked, TypeOK
  <1>2. Registry[i] \in Providers /\ Registry[i] # Current
    BY <1>1, SetupAssumption, RowsAreNumbers DEF Rows, Current
  <1> QED
    BY <1>2, ResultWritten DEF Unjudged

\* Judged in turn, and after the sweep.
LEMMA UnjudgedKept ==
  ASSUME Tracked, Dealt, Unjudged, [Next]_vars
  PROVE  Unjudged'
  <1> SUFFICES ASSUME raised' = 0
               PROVE  Unjudged'
    BY DEF Unjudged
  <1>0. raised = 0 /\ (Step \/ Press \/ Confirm \/ UNCHANGED vars)
    BY NoSignal
  <1>q. pc \in Installing \cup {"unlink"} => queue # {}
    BY DEF Tracked, ScriptTracked
  <1>1. CASE /\ UNCHANGED <<queue, results>>
             /\ pc \in {"terminate", "kill", "unlink"} =>
                  pc' \in {"terminate", "kill", "unlink"}
    BY <1>0, <1>1 DEF Unjudged
  <1>2. CASE /\ \E status \in Status : Result(status)
             /\ pc \in Installing /\ UNCHANGED queue
             /\ pc' \in {"terminate", "kill", "unlink"}
    <2>1. \A i \in queue \ {First(queue)} : results'[Registry[i]] = "none"
      BY <1>0, <1>2, <1>q, JudgedInTurn
    <2> QED
      BY <1>2, <2>1 DEF Unjudged
  <1>3. CASE Load \/ OpenTerminal \/ InstallHandlers \/ Press \/ Confirm
             \/ RestoreInputMode
    <2>1. \A p \in Providers : results'[p] = "none"
      BY <1>0, <1>3 DEF Dealt, Load, OpenTerminal, InstallHandlers, Press, Confirm,
         RestoreInputMode, work
    <2>2. queue' \subseteq Rows
      BY <1>3 DEF Tracked, TypeOK, Load, OpenTerminal, InstallHandlers, Press, Confirm,
         RestoreInputMode, work
    <2> QED
      BY <2>1, <2>2, RowsAreNumbers DEF Unjudged
  <1>4. CASE Consider
    <2>1. CASE UNCHANGED <<results, queue>>
      BY <1>0, <1>1, <1>4, <2>1 DEF Consider
    <2>2. CASE queue' = Rest /\ \E status \in Status : Result(status)
      <3>1. \A i \in Rest : results'[Registry[i]] = "none"
        BY <1>0, <1>4, <2>2, JudgedInTurn DEF Consider, Rest
      <3> QED
        BY <2>2, <3>1 DEF Unjudged
    <2> QED
      BY <1>4, <2>1, <2>2 DEF Consider, Status
  <1>5. CASE Unlink
    <2>1. queue' = Rest /\ UNCHANGED results
      BY <1>0, <1>5 DEF Unlink
    <2> QED
      BY <1>0, <2>1 DEF Unjudged, Rest
  <1>6. CASE Download \/ MakeScript \/ Spawn \/ InstallerExits \/ Resolve
             \/ InstallerTimesOut \/ VerifySweep
    <2>1. UNCHANGED queue /\ pc \in Installing \ {"terminate", "kill"}
      BY <1>6 DEF Download, MakeScript, Spawn, InstallerExits, Resolve,
         InstallerTimesOut, VerifySweep, Installing
    <2>2. \/ UNCHANGED results
          \/ /\ \E status \in Status : Result(status)
             /\ pc' \in {"terminate", "kill", "unlink"}
      BY <1>6 DEF Download, MakeScript, Spawn, InstallerExits, Resolve,
         InstallerTimesOut, VerifySweep, Fail, Status
    <2> QED
      BY <1>1, <1>2, <2>1, <2>2 DEF Installing
  <1>7. CASE NameScript \/ EnterWait \/ Terminate \/ Kill \/ VerifyWait \/ Summarise
             \/ RestoreHandlers \/ RestoreTerminal \/ UNCHANGED vars
    BY <1>1, <1>7 DEF NameScript, EnterWait, Terminate, Kill, VerifyWait, Summarise,
       RestoreHandlers, RestoreTerminal, work, vars
  <1> QED
    BY <1>0, <1>3, <1>4, <1>5, <1>6, <1>7 DEF Step

\* The exit status, once it is there, sums the results up.
LEMMA SummedKept ==
  ASSUME Tracked, Dealt, Summed, [Next]_vars
  PROVE  Summed'
  <1> SUFFICES ASSUME raised' = 0
               PROVE  Summed'
    BY DEF Summed
  <1>0. raised = 0 /\ (Step \/ Press \/ Confirm \/ UNCHANGED vars)
    BY NoSignal
  <1>p. selected \subseteq Providers
    BY DEF Tracked, TypeOK
  <1>e. Error # 0
    BY DEF Error
  <1>1. CASE UNCHANGED vars \/ RestoreHandlers \/ RestoreTerminal
    BY <1>0, <1>1, <1>e DEF Summed, RestoreHandlers, RestoreTerminal, Finish,
       ExitStatus, vars, work, screen
  <1>2. CASE Load \/ OpenTerminal \/ Press \/ Confirm
    <2>1. \/ pc' \in {"open", "cbreak", "choose", "confirm", "restore"}
          \/ pc' = "exited" /\ exit' = 2
          \/ pc' \in {"closing", "exited"} /\ exit' = 0
      BY <1>0, <1>2, <1>e DEF Load, OpenTerminal, Press, Confirm, Finish
    <2>2. \A p \in Providers : results'[p] = "none"
      BY <1>0, <1>2 DEF Dealt, Load, OpenTerminal, Press, Confirm, work
    <2>3. selected' \subseteq Providers
      <3>1. CASE Load \/ OpenTerminal \/ Confirm
        BY <1>p, <3>1 DEF Load, OpenTerminal, Confirm, screen
      <3>2. CASE Press
        <4>1. Registry[cursor] \in Providers
          BY <3>2, RowsAreNumbers DEF Tracked, Handled, Press
        <4> QED
          BY <1>p, <3>2, <4>1 DEF Press, screen
      <3> QED
        BY <1>2, <3>1, <3>2
    <2> QED
      BY <2>1, <2>2, <2>3 DEF Summed
  <1>3. CASE Summarise
    <2>1. \A p \in selected : results[p] # "none"
      BY <1>0, <1>3 DEF Dealt, Summarise
    <2> QED
      BY <1>0, <1>3, <2>1 DEF Summed, Summarise, work, screen
  <1>4. CASE Step /\ pc' \notin {"closing", "restoring", "exited"}
    BY <1>4 DEF Summed
  <1> QED
    BY <1>0, <1>e, <1>1, <1>2, <1>3, <1>4 DEF Step, InstallHandlers, RestoreInputMode,
       Consider, Download, MakeScript, NameScript, Spawn, EnterWait,
       InstallerExits, InstallerTimesOut, Terminate, Kill, Resolve, VerifyWait,
       VerifySweep, Unlink, Fail

\* Every reachable state of a run satisfies the invariant.
THEOREM SetupInvariant == Spec => []SetupInductive
  <1>1. Init => ResultsTrue /\ Dealt /\ Unjudged /\ Summed
    BY DEF Init, ResultsTrue, Dealt, Unjudged, Summed, Installing
  <1>2. Tracked /\ ResultsTrue /\ Dealt /\ Unjudged /\ Summed /\ [Next]_vars
          => (ResultsTrue /\ Dealt /\ Unjudged /\ Summed)'
    BY ResultsTrueKept, DealtKept, UnjudgedKept, SummedKept
  <1> QED
    BY <1>1, <1>2, TrackedHolds, PTL DEF Spec, SetupInductive

\* Every selected provider is dealt with, whatever became of those before it,
\* and the exit status speaks of all of them.
THEOREM EverySelectionIsDealtWith == Spec => []EverySelectionDealtWith
  <1>1. SetupInductive => EverySelectionDealtWith
    BY DEF SetupInductive, ResultsTrue, Summed, EverySelectionDealtWith, Over
  <1> QED
    BY SetupInvariant, <1>1, PTL
=============================================================================
