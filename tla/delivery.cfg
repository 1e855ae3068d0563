\* The frame as the only consumer.
SPECIFICATION FairSpec
CONSTANTS
  Guids = {g1, g2}
  Producers = {p1, p2}
  Workers = {w1}
  Takers = {}
  Capacity = 2
  MaxEvents = 5
  None = None
PROPERTIES
  ImplementsDelivery
