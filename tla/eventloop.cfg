\* Starting and stopping the loop: one object, producers, no other callers.
SPECIFICATION Spec
CONSTANTS
  a = a
  b = b
  Objects = {a, b}
  Callers = {}
  Transactions = {}
  Queued <- LoopQueued
  Deletable = {}
  MayStop = TRUE
  Range = 3
  Float32 <- MCFloat32
  Turn = 2
  Step = 1
  DefinitionOf <- MCDefinitionOf
  Frame = Frame
  None = None
INVARIANTS
  QuietAfterStop
PROPERTIES
  StopReturns
\* The stopped loop with a full queue is where everything ends.
CHECK_DEADLOCK FALSE
