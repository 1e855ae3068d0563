------------------------------ MODULE MCRemote ------------------------------
(***************************************************************************)
(* A small instance of Remote.                                             *)
(***************************************************************************)
EXTENDS Remote, TLC

CONSTANTS big, small

\* The bodies of the small system are among those of the big one.
MCDescribed == {<<big, big>>, <<small, small>>, <<big, small>>}
=============================================================================
