\* The worker count is changed while the loop runs.
SPECIFICATION Spec
CONSTANTS
  NumRoots = 1
  NumKids = 1
  ParentOf <- MCParentOf1
  Rings = {2}
  Modes = {"keplerian"}
  Belted <- OnlyKepler
  CanToggle <- Never
  LiveRetune <- OnlyKepler
  Datasets = {0}
  Rates = {1}
  Speeds = {2}
  Quantum = 2
  Teams = {1, 2}
  Readers = {}
  MaxTime = 2
  NoView = NoView
INVARIANTS
  FrontIsWholeStep
