\* A palette and a stride with a common factor, as 100 and 38: the walk sees half of it.
SPECIFICATION Spec
CONSTANTS
  Callers = {c1}
  Followers = {}
  Ids = {s1, s2, s3}
  Admins = {}
  MaxSessions = 3
  Palette = 4
  Stride = 2
  Buffer = 1
  Places = {0}
  None = None
INVARIANT NoTwoAlike
CHECK_DEADLOCK FALSE
