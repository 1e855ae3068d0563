\* Speed and dataset commands and the swap setting against the loop, in systems with belts.
SPECIFICATION Spec
CONSTANTS
  NumRoots = 1
  NumKids = 1
  ParentOf <- MCParentOf1
  Rings = {2}
  Modes = {"keplerian", "nbody"}
  Belted <- Always
  CanToggle <- Always
  LiveRetune <- Never
  Datasets = {0, 1}
  Rates = {1}
  Speeds = {0, 2}
  Quantum = 2
  Teams = {1}
  Readers = {r1}
  MaxTime = 2
  NoView = NoView
INVARIANTS
  SameObjects
PROPERTIES
  StepIntegrates
  CommandTaken
