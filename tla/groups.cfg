\* Pool and environment with three groups and one object that moves; the pool alone with
\* four groups and at most three levels of them.
SPECIFICATION Spec
CONSTANTS
  Objects = {o1}
  Groups = {g1, g2, g3, g4}
  MaxDepth = 3
  Values = {1, 2}
  Tracked = {g1, g2, g3}
  Lockable = {g4}
  None = None
SYMMETRY Symmetry
VIEW View
CONSTRAINT Bound
INVARIANTS
  IndexAgrees
  HierarchyIsForest
  FreshUnlessRegrouped
PROPERTIES
  LockedKeepsMembers
