\* The in-place swap setting is switched on in an N-body system.
SPECIFICATION Spec
CONSTANTS
  NumRoots = 1
  NumKids = 1
  ParentOf <- MCParentOf1
  Rings = {2}
  Modes = {"nbody"}
  Belted <- OnlyKepler
  CanToggle <- OnlyNBody
  LiveRetune <- Never
  Datasets = {0}
  Rates = {1}
  Speeds = {2}
  Quantum = 2
  Teams = {1, 2}
  Readers = {}
  MaxTime = 2
  NoView = NoView
INVARIANTS
  PointerStable
