\* The definitions pool alone, larger: five groups, at most four levels of them, one object.
SPECIFICATION Spec
CONSTANTS
  Objects = {o1}
  Groups = {g1, g2, g3, g4, g5}
  MaxDepth = 4
  Values = {}
  Tracked = {}
  Lockable = {g1, g2, g3, g4, g5}
  None = None
SYMMETRY Symmetry
INVARIANTS
  TypeOK
  IndexAgrees
  HierarchyIsForest
PROPERTIES
  LockedKeepsMembers
