SPECIFICATION Spec
CONSTANTS
  kimi = kimi
  codex = codex
  grok = grok
  Registry <- Three
  Signals = {2, 15}
  MaxSignals = 2
INVARIANTS SetupInductive TerminalRestored ScriptsAccountedFor InstallerStopped OnlyMissingSelectable EverySelectionDealtWith
CHECK_DEADLOCK FALSE
