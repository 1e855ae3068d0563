\* The swap setting is changed in a belted system.
SPECIFICATION Spec
CONSTANTS
  Slots = {1, 2, 3}
  DatasetOf <- MCDatasetOf
  HeapSize = 9
  Holders = {}
  Systems = {"belted"}
  CanToggle <- Anywhere
  None = None
INVARIANTS
  PoolIsFree
