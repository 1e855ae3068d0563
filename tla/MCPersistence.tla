---------------------------- MODULE MCPersistence ----------------------------
(***************************************************************************)
(* A small instance of Persistence.                                        *)
(***************************************************************************)
EXTENDS Persistence, TLC

Symmetry == Permutations(Appenders) \union Permutations(Entries)
=============================================================================
