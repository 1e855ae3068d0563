\* Two workers of the pool.
SPECIFICATION Spec
CONSTANTS
  Guids = {g1}
  Producers = {p1}
  Workers = {w1, w2}
  Takers = {}
  Capacity = 2
  MaxEvents = 3
  None = None
PROPERTIES
  AppliedInOrder
