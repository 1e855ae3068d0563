\* Two callers, and one session stream, or three sessions for two colours of the walk.
SPECIFICATION Spec
CONSTANTS
  Callers = {c1, c2}
  Followers = {f1}
  Ids = {s1, s2, s3, s4}
  Admins = {s1}
  MaxSessions = 3
  Palette = 4
  Stride = 2
  Buffer = 2
  Places = {0, 1}
  None = None
SYMMETRY Symmetry
VIEW Folded
CONSTRAINT Bounded
INVARIANTS
  ColoursAgree
  FollowerAgrees
CHECK_DEADLOCK FALSE
