------------------------------ MODULE MCRuntime ------------------------------
(***************************************************************************)
(* A small instance of Runtime.  Object a has the scale routine and a      *)
(* velocity among its properties, b has no routine.                        *)
(***************************************************************************)
EXTENDS Runtime, TLC

CONSTANTS a, b

Plain == [obj |-> a, type |-> "custom", pos |-> None, vel |-> None]

CreateA == [Plain EXCEPT !.type = "create", !.pos = 1]
MoveA   == [Plain EXCEPT !.type = "move"]
DeleteA == [Plain EXCEPT !.type = "delete"]
CreateB == [Plain EXCEPT !.obj = b, !.type = "create"]
UpdateB == [Plain EXCEPT !.obj = b, !.type = "update", !.pos = 1]

Transaction(m, s) == [mode |-> m, events |-> s]

\* Rollbacks that fail at their first, second or last event, having created, changed
\* or deleted something before; the other modes where they differ.
MCTransactions ==
  {Transaction("rollback", s) :
     s \in {<<CreateA, MoveA, CreateB>>, <<DeleteA, UpdateB>>, <<MoveA, CreateA>>}}
  \union {Transaction(m, <<MoveA, UpdateB>>) : m \in {"none", "best_effort"}}

MCQueued ==
  {Transaction("rollback", <<CreateA>>)}

LoopQueued ==
  {Transaction("none", <<e>>) : e \in {CreateA, DeleteA, CreateB, UpdateB}}

\* A position in single precision: the odd ones need one more digit.
MCFloat32 == [p \in Positions |-> p - (p % 2)]

MCDefinitionOf ==
  (a :> [routines |-> {"scale"}, vel |-> 1, phase |-> None])
  @@ (b :> [routines |-> {}, vel |-> None, phase |-> None])
=============================================================================
