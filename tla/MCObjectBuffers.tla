-------------------------- MODULE MCObjectBuffers --------------------------
(***************************************************************************)
(* A small instance of ObjectBuffers: a star and one belt object of each   *)
(* of two levels.                                                          *)
(***************************************************************************)
EXTENDS ObjectBuffers, TLC

MCDatasetOf == (1 :> -1) @@ (2 :> 0) @@ (3 :> 1)

OnlyBare == [s \in Systems |-> s = "bare"]
Anywhere == [s \in Systems |-> TRUE]
Nowhere  == [s \in Systems |-> FALSE]
=============================================================================
