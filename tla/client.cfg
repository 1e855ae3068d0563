\* One handler with two commands, one script of two, two keys; cmdCh has one slot.  The loop
\* may end, and then nobody takes the commands that wait.
SPECIFICATION Spec
CONSTANTS
  sol = sol
  tau = tau
  gone = gone
  sun = sun
  earth = earth
  mars = mars
  ceti = ceti
  x = x
  p = p
  q = q
  Callers = {c1}
  Commands <- MCCommands
  Files <- MCFiles
  GroupOf <- MCGroupOf
  Variables = {x, p, q}
  Values = {sun, earth, mars, ceti}
  Unset = None
  Scripts <- MCScripts
  Systems = {sol, tau, gone}
  Broken = {gone}
  SystemConfig = sol
  BodiesOf <- MCBodiesOf
  Dialogs = {"objects", "systems", "scripts"}
  BufSize = 1
  MaxSent = 2
  MaxKeys = 2
  MaxScripts = 1
  Flight = 2
  Lap = 1
  None = None
INVARIANTS
  OneWorld
  TourInOrder
  ScriptInOrder
PROPERTIES
  TourEnds
  QueriesAnswered
CHECK_DEADLOCK FALSE
