\* A second script takes the place of the first, whose goroutine may have a line to send yet.
SPECIFICATION Spec
CONSTANTS
  sol = sol
  tau = tau
  gone = gone
  sun = sun
  earth = earth
  mars = mars
  ceti = ceti
  x = x
  p = p
  q = q
  Callers = {c1}
  Commands <- MCCommands
  Files <- MCFiles
  GroupOf <- MCGroupOf
  Variables = {x, p, q}
  Values = {sun, earth, mars, ceti}
  Unset = None
  Scripts <- MCScripts
  Systems = {sol, tau, gone}
  Broken = {gone}
  SystemConfig = sol
  BodiesOf <- MCBodiesOf
  Dialogs = {"scripts"}
  BufSize = 1
  MaxSent = 1
  MaxKeys = 4
  MaxScripts = 2
  Flight = 2
  Lap = 1
  None = None
INVARIANTS
  OneWorld
  TourInOrder
  ScriptInOrder
CHECK_DEADLOCK FALSE
