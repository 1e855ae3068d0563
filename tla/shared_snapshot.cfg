\* A snapshot across a change of the dataset level.
SPECIFICATION Spec
CONSTANTS
  Slots = {1, 2, 3}
  DatasetOf <- MCDatasetOf
  HeapSize = 9
  Holders = {h1}
  Systems = {"belted"}
  CanToggle <- Nowhere
  None = None
INVARIANTS
  SnapshotStays
