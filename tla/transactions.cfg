\* The frame of the event loop and one caller with transactions of two or three events.
SPECIFICATION Spec
CONSTANTS
  a = a
  b = b
  Objects = {a, b}
  Callers = {c1}
  Transactions <- MCTransactions
  Queued <- MCQueued
  Deletable = {a}
  MayStop = FALSE
  Range = 2
  Float32 <- MCFloat32
  Turn = 2
  Step = 1
  DefinitionOf <- MCDefinitionOf
  Frame = Frame
  None = None
PROPERTIES
  UndisturbedIsAtomic
  RoutineKeepsTheRest
