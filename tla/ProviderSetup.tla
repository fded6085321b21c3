--------------------------- MODULE ProviderSetup ---------------------------
(***************************************************************************)
(* provider_setup.py: one run of "model-routing setup providers", from the *)
(* manifest to the exit status: the selector on the terminal, then one     *)
(* installer after another.  SIGINT, SIGTERM and SIGHUP arrive between any *)
(* two steps; a step is the code between two points at which that makes a  *)
(* difference.  The network, the installers, the version commands and the  *)
(* user are external.                                                      *)
(***************************************************************************)
EXTENDS Integers, Sequences, FiniteSets

CONSTANTS
  Registry,     \* the providers, in the order of the registry
  Signals,      \* of SIGHUP 1, SIGINT 2 and SIGTERM 15
  MaxSignals    \* bound on the signals of one run

Providers == {Registry[i] : i \in DOMAIN Registry}

ASSUME SetupAssumption ==
  /\ Registry \in Seq(Providers) /\ Registry # <<>>
  /\ \A i, j \in DOMAIN Registry : Registry[i] = Registry[j] => i = j
  /\ Signals \subseteq {1, 2, 15} /\ MaxSignals \in Nat

VARIABLES
  pc,          \* where the run is
  dryRun,      \* --dry-run
  detected,    \* the rows shown as installed
  cursor,      \* row under the cursor, 0 when every row is installed
  selected,    \* SelectionState.selected
  terminal,    \* mode of the terminal
  handled,     \* TtySession's signal handlers are in place
  queue,       \* rows install_selected has still to deal with
  named,       \* temporary_path is set
  scripts,     \* providers whose installer script is on disk
  installer,   \* process group of the installer
  probe,       \* process group of the version command
  installed,   \* binaries that resolve
  results,     \* status of each InstallResult
  raised,      \* the signal whose exception is unwinding, Error or 0
  exit,        \* exit status, as a shell sees it
  struck,      \* places at which a signal arrived
  kept         \* providers whose script could not be removed

screen == <<cursor, selected>>
work == <<queue, named, scripts, installer, probe, installed, results>>
history == <<struck, kept>>
vars == <<pc, dryRun, detected, screen, terminal, handled, work, raised, exit, history>>

SIGINT == 2
Error == -1    \* an exception that nobody expects, of the terminal
Group == {"gone", "running", "left"}   \* "left": only descendants remain
Status == {"none", "already-installed", "dry-run", "failed", "installed"}
Unset == -1

\* Inside the try of install_selected that ends in the unlinking.
Installing == {"download", "mkstemp", "assign", "write", "spawned", "wait",
               "terminate", "kill", "resolve", "verifyWait", "verifySweep"}
Pc == Installing \cup {"load", "open", "cbreak", "choose", "confirm", "restore",
       "next", "unlink", "summary", "closing", "restoring", "exited"}

Rows == DOMAIN Registry
Missing == {i \in Rows : Registry[i] \notin detected}

First(rows) == CHOOSE i \in rows : \A j \in rows : i <= j

Init ==
  /\ pc = "load" /\ dryRun \in BOOLEAN
  /\ detected \in SUBSET Providers /\ installed = detected
  /\ cursor = 0 /\ selected = {}
  /\ terminal = "original" /\ handled = FALSE
  /\ queue = {} /\ named = FALSE /\ scripts = {}
  /\ installer = "gone" /\ probe = "gone"
  /\ results = [p \in Providers |-> "none"]
  /\ raised = 0 /\ exit = Unset /\ struck = <<>> /\ kept = {}

-----------------------------------------------------------------------------
Finish(status) == pc' = "exited" /\ exit' = status

\* load_install_specs and detect_provider_rows; the manifest may be invalid.
Load ==
  /\ pc = "load"
  /\ \/ Finish(2)
     \/ detected = Providers /\ Finish(0)
     \/ detected # Providers /\ pc' = "open" /\ UNCHANGED exit
  /\ UNCHANGED <<dryRun, detected, screen, terminal, handled, work, raised, history>>

\* TtySession.__enter__ up to setcbreak; there may be no terminal, or it may
\* go away, which nobody catches.
OpenTerminal ==
  /\ pc = "open"
  /\ \/ Finish(2) /\ UNCHANGED <<terminal, raised>>
     \/ Finish(1) /\ raised' = Error /\ UNCHANGED terminal
     \/ pc' = "cbreak" /\ terminal' = "cbreak" /\ UNCHANGED <<exit, raised>>
  /\ UNCHANGED <<dryRun, detected, screen, handled, work, history>>

\* Variant with a mistake: the cursor starts on the first row.
InstallHandlersAtTop ==
  /\ pc = "cbreak"
  /\ handled' = TRUE
  /\ cursor' = 1
  /\ pc' = "choose"
  /\ UNCHANGED <<dryRun, detected, selected, terminal, work, raised, exit, history>>

\* The handlers, and initial_selection.
InstallHandlers ==
  /\ pc = "cbreak"
  /\ handled' = TRUE
  /\ cursor' = First(Missing)
  /\ pc' = "choose"
  /\ UNCHANGED <<dryRun, detected, selected, terminal, work, raised, exit, history>>

\* move_selection: the first missing row, going round in the direction.
Moved(from, offset) ==
  LET after(k) == ((from - 1 + offset * k) % Len(Registry)) + 1
      hits == {k \in 1 .. Len(Registry) : after(k) \in Missing}
  IN IF hits = {} THEN from ELSE after(First(hits))

Press ==
  /\ pc = "choose"
  /\ \/ \E offset \in {-1, 1} : cursor' = Moved(cursor, offset) /\ UNCHANGED <<selected, pc, queue>>
     \/ /\ selected' = (selected \ {Registry[cursor]}) \cup ({Registry[cursor]} \ selected)
        /\ UNCHANGED <<cursor, pc, queue>>
     \/ /\ queue' = {i \in Rows : Registry[i] \in selected}
        /\ pc' = IF selected = {} THEN "closing" ELSE "confirm"
        /\ UNCHANGED screen
     \/ pc' = "closing" /\ UNCHANGED <<screen, queue>>
  /\ exit' = IF pc' = "closing" THEN 0 ELSE exit
  /\ UNCHANGED <<dryRun, detected, terminal, handled, named, scripts, installer, probe,
                 installed, results, raised, history>>

Confirm ==
  /\ pc = "confirm"
  /\ \/ pc' = "restore" /\ UNCHANGED exit
     \/ pc' = "closing" /\ exit' = 0
  /\ UNCHANGED <<dryRun, detected, screen, terminal, handled, work, raised, history>>

\* tcsetattr, which fails on a terminal that has gone away.
RestoreInputMode ==
  /\ pc = "restore"
  /\ \/ terminal' = "original" /\ pc' = "next" /\ UNCHANGED raised
     \/ terminal' = "lost" /\ pc' = "closing" /\ raised' = Error
  /\ UNCHANGED <<dryRun, detected, screen, handled, work, exit, history>>

-----------------------------------------------------------------------------
(* install_selected, one provider after the other.                         *)

Current == Registry[First(queue)]
Rest == queue \ {First(queue)}
Result(status) == results' = [results EXCEPT ![Current] = status]
Fail(place) == Result("failed") /\ pc' = place

outside == <<dryRun, detected, screen, handled, raised, exit, history>>

Consider ==
  /\ pc = "next" /\ queue # {}
  /\ IF Current \in installed \/ dryRun
     THEN /\ Result(IF Current \in installed THEN "already-installed" ELSE "dry-run")
          /\ queue' = Rest /\ UNCHANGED pc
     ELSE pc' = "download" /\ UNCHANGED <<results, queue>>
  /\ UNCHANGED <<outside, terminal, named, scripts, installer, probe, installed>>

\* download_installer: refused, too large, empty, not a script, wrong digest.
Download ==
  /\ pc = "download"
  /\ Fail("unlink") \/ (pc' = "mkstemp" /\ UNCHANGED results)
  /\ UNCHANGED <<outside, terminal, queue, named, scripts, installer, probe, installed>>

MakeScript ==
  /\ pc = "mkstemp"
  /\ \/ Fail("unlink") /\ UNCHANGED scripts
     \/ pc' = "assign" /\ scripts' = scripts \cup {Current} /\ UNCHANGED results
  /\ UNCHANGED <<outside, terminal, queue, named, installer, probe, installed>>

NameScript ==
  /\ pc = "assign"
  /\ named' = TRUE
  /\ pc' = "write"
  /\ UNCHANGED <<outside, terminal, queue, scripts, installer, probe, installed, results>>

\* The content is written and the installer started, or an OSError.
Spawn ==
  /\ pc = "write"
  /\ \/ Fail("unlink") /\ UNCHANGED installer
     \/ pc' = "spawned" /\ installer' = "running" /\ UNCHANGED results
  /\ UNCHANGED <<outside, terminal, queue, named, scripts, probe, installed>>

EnterWait ==
  /\ pc = "spawned"
  /\ pc' = "wait"
  /\ UNCHANGED <<outside, terminal, work>>

\* It may install the provider, leave descendants and change the terminal.
InstallerExits ==
  /\ pc = "wait"
  /\ Fail("unlink") \/ (pc' = "resolve" /\ UNCHANGED results)
  /\ installer' \in {"gone", "left"}
  /\ installed' \in {installed, installed \cup {Current}}
  /\ terminal' \in {terminal, "altered"}
  /\ UNCHANGED <<outside, queue, named, scripts, probe>>

\* INSTALL_TIMEOUT_SECONDS: the result is that of an exit status of 124.
InstallerTimesOut ==
  /\ pc = "wait"
  /\ Fail("terminate")
  /\ UNCHANGED <<outside, terminal, queue, named, scripts, installer, probe, installed>>

\* _terminate_installer: SIGTERM and two seconds, which the leader may
\* outlast; descendants that ignore SIGTERM outlast the leader.
Terminate ==
  /\ pc = "terminate"
  /\ \/ installer' \in {"gone", "left"} /\ pc' = "unlink"
     \/ pc' = "kill" /\ UNCHANGED installer
  /\ UNCHANGED <<outside, terminal, queue, named, scripts, probe, installed, results>>

Kill ==
  /\ pc = "kill"
  /\ installer' = "gone"
  /\ pc' = "unlink"
  /\ UNCHANGED <<outside, terminal, queue, named, scripts, probe, installed, results>>

\* The binary resolves and its version command starts, or the result is in.
Resolve ==
  /\ pc = "resolve"
  /\ \/ Fail("unlink") /\ UNCHANGED probe
     \/ /\ Current \in installed
        /\ pc' = "verifyWait" /\ probe' = "running" /\ UNCHANGED results
  /\ UNCHANGED <<outside, terminal, queue, named, scripts, installer, installed>>

\* Variant with a mistake: the output is judged before the sweep.
VerifyBeforeSweep ==
  /\ pc = "verifyWait"
  /\ probe' \in {"gone", "left"}
  /\ Result("installed") \/ Result("failed")
  /\ pc' = "verifySweep"
  /\ UNCHANGED <<outside, terminal, queue, named, scripts, installer, installed>>

\* run_bounded_capture: the command exits by itself or _terminate_group sees
\* to it.
VerifyWait ==
  /\ pc = "verifyWait"
  /\ probe' \in {"gone", "left"}
  /\ pc' = "verifySweep"
  /\ UNCHANGED <<outside, terminal, queue, named, scripts, installer, installed, results>>

\* The rest of its group is ended; then its status and output are judged.
VerifySweep ==
  /\ pc = "verifySweep"
  /\ probe' = "gone"
  /\ Result("installed") \/ Result("failed")
  /\ pc' = "unlink"
  /\ UNCHANGED <<outside, terminal, queue, named, scripts, installer, installed>>

\* Variant with a mistake: the script is removed only on the way on.
UnlinkUnlessRaised ==
  /\ pc = "unlink"
  /\ IF raised = 0
     THEN scripts' = scripts \ {Current} /\ named' = FALSE /\ pc' = "next" /\ queue' = Rest
     ELSE pc' = "closing" /\ UNCHANGED <<scripts, named, queue>>
  /\ UNCHANGED <<outside, terminal, installer, probe, installed, results>>

\* Variant with a mistake: the first failure ends the installation.
UnlinkThenGiveUp ==
  /\ pc = "unlink"
  /\ scripts' = IF named THEN scripts \ {Current} ELSE scripts
  /\ named' = FALSE
  /\ pc' = IF raised = 0 THEN "next" ELSE "closing"
  /\ queue' = IF results[Current] = "failed" THEN {} ELSE Rest
  /\ UNCHANGED <<outside, terminal, installer, probe, installed, results>>

\* The finally clause, in which a script that cannot be removed stays without
\* a word; then the next provider, unless an exception passes.
Unlink ==
  /\ pc = "unlink"
  /\ \/ scripts' = (IF named THEN scripts \ {Current} ELSE scripts) /\ UNCHANGED kept
     \/ named /\ kept' = kept \cup {Current} /\ UNCHANGED scripts
  /\ named' = FALSE
  /\ IF raised = 0 THEN pc' = "next" /\ queue' = Rest
                   ELSE pc' = "closing" /\ UNCHANGED queue
  /\ UNCHANGED <<dryRun, detected, screen, handled, raised, exit, struck, terminal,
                 installer, probe, installed, results>>

Summarise ==
  /\ pc = "next" /\ queue = {}
  /\ pc' = "closing"
  /\ exit' = IF \E p \in Providers : results[p] = "failed" THEN 1 ELSE 0
  /\ UNCHANGED <<dryRun, detected, screen, terminal, handled, work, raised, history>>

-----------------------------------------------------------------------------
(* TtySession.close: the handlers first, then the mode of the terminal.    *)

RestoreHandlers ==
  /\ pc = "closing"
  /\ handled' = FALSE
  /\ pc' = "restoring"
  /\ UNCHANGED <<dryRun, detected, screen, terminal, work, raised, exit, history>>

\* A traceback, or the handler of TerminalSignal in run_provider_setup.
ExitStatus ==
  IF raised = 0 THEN exit ELSE IF raised = Error THEN 1 ELSE 128 + raised

\* Variant with a mistake: what the selector changed back is taken for restored.
RestoreNothing ==
  /\ pc = "restoring"
  /\ Finish(ExitStatus)
  /\ UNCHANGED <<dryRun, detected, screen, terminal, handled, work, raised, history>>

RestoreTerminal ==
  /\ pc = "restoring"
  /\ \/ terminal' = "original" /\ Finish(ExitStatus) /\ UNCHANGED raised
     \/ terminal' = "lost" /\ Finish(1) /\ raised' = Error
  /\ UNCHANGED <<dryRun, detected, screen, handled, work, history>>

\* Variant with a mistake: an interrupted wait does not end the installer.
UnwindPastInstaller(place) ==
  CASE place \in Installing                               -> "unlink"
    [] place \in {"load", "open", "closing", "restoring"} -> "exited"
    [] OTHER                                              -> "closing"

\* Where the exception of a signal lands: _terminate_installer, the finally
\* clause of install_selected, TtySession.close, or out of the program.
Unwind(place) ==
  CASE place = "wait"                            -> "terminate"
    [] place \in Installing \ {"wait"}           -> "unlink"
    [] place \in {"load", "open", "closing", "restoring"} -> "exited"
    [] OTHER                                     -> "closing"

\* Without the handlers SIGINT is a KeyboardInterrupt, which unwinds the same
\* way, and the other signals end the process where it is.
Signal(s) ==
  /\ pc # "exited" /\ Len(struck) < MaxSignals
  /\ struck' = Append(struck, pc)
  /\ raised' = s
  /\ pc' = IF handled \/ s = SIGINT THEN Unwind(pc) ELSE "exited"
  /\ exit' = IF pc' = "exited" THEN 128 + s ELSE exit
  /\ UNCHANGED <<dryRun, detected, screen, terminal, handled, work, kept>>

\* What goes on by itself.
Step ==
  \/ Load \/ OpenTerminal \/ InstallHandlers \/ RestoreInputMode
  \/ Consider \/ Download \/ MakeScript \/ NameScript \/ Spawn \/ EnterWait
  \/ InstallerExits \/ InstallerTimesOut \/ Terminate \/ Kill
  \/ Resolve \/ VerifyWait \/ VerifySweep \/ Unlink \/ Summarise
  \/ RestoreHandlers \/ RestoreTerminal

Next == Step \/ Press \/ Confirm \/ \E s \in Signals : Signal(s)

Spec == Init /\ [][Next]_vars

-----------------------------------------------------------------------------
TypeOK ==
  /\ pc \in Pc /\ dryRun \in BOOLEAN /\ detected \subseteq Providers
  /\ cursor \in Rows \cup {0} /\ selected \subseteq Providers
  /\ terminal \in {"original", "cbreak", "altered", "lost"} /\ handled \in BOOLEAN
  /\ queue \subseteq Rows /\ named \in BOOLEAN /\ scripts \subseteq Providers
  /\ installer \in Group /\ probe \in Group /\ installed \subseteq Providers
  /\ results \in [Providers -> Status]
  /\ raised \in Signals \cup {0, Error} /\ kept \subseteq Providers
  /\ exit \in {Unset, 0, 1, 2} \cup {128 + s : s \in Signals}
  /\ struck \in Seq(Pc) /\ Len(struck) <= MaxSignals

Struck == {struck[i] : i \in DOMAIN struck}
Over == pc = "exited"

\* The terminal is as it was when the run is over, or it could not be set any
\* more, unless a signal found the session half open or half closed.
TerminalRestored ==
  Over /\ Struck \cap {"cbreak", "closing", "restoring"} = {} =>
    terminal \in {"original", "lost"}

\* However a run ends, after success, failure, time limit or signals, the
\* scripts it leaves are those the system would not let it remove and at most
\* one more, the last provider's, if a signal came between the making of the
\* file and its name or while it was being removed.
ScriptsAccountedFor ==
  Over => \A p \in scripts :
    p \in kept \/ (p = Current /\ Struck \cap {"assign", "unlink"} # {})

\* No installer is left running, unless a signal came in the instant after it
\* was started or cut its termination short.
InstallerStopped ==
  Over /\ Struck \cap {"spawned", "terminate", "kill"} = {} => installer # "running"

\* Only rows that were missing can be under the cursor or selected, and going
\* down and up again leads back.
OnlyMissingSelectable ==
  pc = "choose" =>
    /\ cursor \in Missing
    /\ \A p \in selected : p \notin detected
    /\ Moved(Moved(cursor, 1), -1) = cursor

\* The exit status speaks of every selected provider, each dealt with,
\* whatever became of those before it.
EverySelectionDealtWith ==
  Over /\ raised = 0 /\ exit # 2 =>
    /\ \A p \in Providers : results[p] \in {"installed", "already-installed"} => p \in installed
    /\ (exit = 1) <=> (\E p \in Providers : results[p] = "failed")
    /\ (\E p \in selected : results[p] # "none") => \A p \in selected : results[p] # "none"

-----------------------------------------------------------------------------
(* What the guarantees above rest on, place by place.                      *)

Outside == {"load", "open", "cbreak", "closing", "restoring", "exited"}

\* The signal handlers are in place wherever a signal would leave something,
\* nobody is asked to choose from nothing, and only what is missing is chosen.
Handled ==
  /\ pc \notin Outside => handled
  /\ pc \notin {"load", "exited"} => detected # Providers
  /\ pc = "choose" => cursor \in Missing
  /\ selected \cap detected = {}

\* Signals that find the session half open or half closed apart, only those
\* that are past its opening find the terminal changed.
TerminalTracked ==
  Struck \cap {"cbreak", "closing", "restoring"} = {} /\ pc \in {"load", "open", "exited"} =>
    terminal \in {"original", "lost"}

\* But for the scripts that could not be removed the one on disk is that of
\* the current provider, has its name while it is needed, and is passed by only
\* by a signal, after which there is no next provider.
ScriptTracked ==
  /\ pc \in Installing \cup {"unlink"} => queue # {}
  /\ \A p \in scripts \ kept :
       /\ queue # {} /\ p = Current
       /\ named \/ pc = "assign" \/ Struck \cap {"assign", "unlink"} # {}
       /\ pc \in Installing \cup {"unlink"} \/ Struck \cap {"assign", "unlink"} # {}
  /\ Struck \cap {"assign", "unlink"} # {} =>
       raised # 0 /\ pc \in {"unlink", "closing", "restoring", "exited"}

\* An installer that runs is being waited for or terminated.
InstallerTracked ==
  Struck \cap {"spawned", "terminate", "kill"} = {} /\ installer = "running" =>
    pc \in {"spawned", "wait", "terminate", "kill"}

\* A version command and all it started are gone before the next installer.
ProbeSwept == raised = 0 /\ pc \notin {"verifyWait", "verifySweep"} => probe = "gone"

\* No provider of the queue is judged before its turn, nor the current one
\* while its version command may have left something.
Unjudged ==
  raised = 0 => \A i \in queue :
    results[Registry[i]] # "none" => i = First(queue) /\ pc \in {"terminate", "kill", "unlink"}

\* A result that speaks of an installed provider is true.
ResultsTrue ==
  /\ pc \in {"verifyWait", "verifySweep"} => Current \in installed
  /\ \A p \in Providers :
       results[p] \in {"installed", "already-installed"} => p \in installed

\* Nothing is done before the loop; in it, who is selected has a result or is
\* still to come, and the current one has a result before it is left behind.
Dealt ==
  raised = 0 =>
    /\ pc \in {"load", "open", "cbreak", "choose", "confirm", "restore"} =>
         \A p \in Providers : results[p] = "none"
    /\ pc \in {"confirm", "restore"} =>
         queue = {i \in Rows : Registry[i] \in selected}
    /\ pc \in Installing \cup {"next", "unlink"} =>
         \A p \in selected : results[p] # "none" \/ \E i \in queue : Registry[i] = p
    /\ pc \in {"terminate", "kill", "unlink"} =>
         results[Current] # "none"

\* From the summary on, the exit status is that of all results.
Summed ==
  raised = 0 /\ (pc \in {"closing", "restoring"} \/ (pc = "exited" /\ exit # 2)) =>
    /\ (exit = 1) <=> (\E p \in Providers : results[p] = "failed")
    /\ (\E p \in selected : results[p] # "none") => \A p \in selected : results[p] # "none"

Tracked ==
  TypeOK /\ Handled /\ TerminalTracked /\ ScriptTracked /\ InstallerTracked /\ ProbeSwept

SetupInductive == Tracked /\ ResultsTrue /\ Dealt /\ Unjudged /\ Summed
=============================================================================
