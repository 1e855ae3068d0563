\* The objects of buffers, snapshots and pool, the swap setting fixed in belted systems.
SPECIFICATION Spec
CONSTANTS
  Slots = {1, 2, 3}
  DatasetOf <- MCDatasetOf
  HeapSize = 9
  Holders = {h1}
  Systems = {"belted", "bare"}
  CanToggle <- OnlyBare
  None = None
INVARIANTS
  BackIsPrivate
  ShownStays
