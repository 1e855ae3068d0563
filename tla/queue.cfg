\* Two producers, two workers of the pool and a caller of Dequeue on three queues.
SPECIFICATION Spec
CONSTANTS
  Guids = {g1, g2, g3}
  Producers = {p1, p2}
  Workers = {w1, w2}
  Takers = {t1}
  Capacity = 2
  MaxEvents = 4
  None = None
SYMMETRY Symmetry
INVARIANTS
  TypeOK
  CountsAddUp
  NobodyStarves
PROPERTIES
  NoEventsMeansEmpty
  OvertakenOnlyAtHand
