---------------------------- MODULE MCEventQueue ----------------------------
(***************************************************************************)
(* Small instances of EventQueue: the goroutines are interchangeable, and  *)
(* so are the objects.                                                     *)
(***************************************************************************)
EXTENDS EventQueue, TLC

Symmetry == Permutations(Guids) \union Permutations(Producers) \union Permutations(Workers)
=============================================================================
