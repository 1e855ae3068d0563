\* Two appenders, three events, two snapshots, two crashes.
SPECIFICATION Spec
CONSTANTS
  Appenders = {p1, p2}
  Entries = {e1, e2, e3}
  MaxTime = 1
  MaxCrashes = 2
  None = None
SYMMETRY Symmetry
INVARIANTS
  AckedIsReplayed
  SavedIsWhole
  StopSavesLast
CHECK_DEADLOCK FALSE
