\* Dataset commands meet a full command slot.
SPECIFICATION Spec
CONSTANTS
  NumRoots = 1
  NumKids = 1
  ParentOf <- MCParentOf1
  Rings = {2}
  Modes = {"keplerian"}
  Belted <- OnlyKepler
  CanToggle <- Never
  LiveRetune <- Never
  Datasets = {0, 1}
  Rates = {1}
  Speeds = {2}
  Quantum = 2
  Teams = {1}
  Readers = {}
  MaxTime = 1
  NoView = NoView
PROPERTIES
  ChosenIsShown
