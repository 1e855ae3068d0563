\* Physics, readers and the time rate, in both modes: no clients, one dataset.
SPECIFICATION Spec
CONSTANTS
  NumRoots = 1
  NumKids = 2
  ParentOf <- MCParentOf
  Rings = {3}
  Modes = {"keplerian", "nbody"}
  Belted <- OnlyKepler
  CanToggle <- OnlyKepler
  LiveRetune <- Never
  Datasets = {0}
  Rates = {0, 1}
  Speeds = {2}
  Quantum = 2
  Teams = {1, 2}
  Readers = {r1}
  MaxTime = 1
  NoView = NoView
INVARIANTS
  TypeOK
  FrontIsWholeStep
  ReadersUndisturbed
  StoreIsPast
PROPERTIES
  RateKept
  ImplementsWorld
  StepIsPublished
