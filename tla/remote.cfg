\* One client.
SPECIFICATION Spec
CONSTANTS
  big = big
  small = small
  Clients = {c1}
  Systems = {big, small}
  Described <- MCDescribed
  Depth = 2
  Grace = 2
  MaxBackoff = 2
  Interval = 1
  MaxTime = 2
  MaxBreaks = 2
  MaxLives = 2
  None = None
PROPERTIES
  FramesForward
  AwayIsNotGone
  Reconnects
  MetadataCatchesUp
