---------------------------- MODULE MCSimulation ----------------------------
(***************************************************************************)
(* Small instances of Simulation: a star, a planet, its moon and its ring. *)
(***************************************************************************)
EXTENDS Simulation, TLC

\* Body 1 is the star, 2 the planet (a kid of the star), 3 the planet's ring or
\* moon: a kid whose parent is itself a kid.
MCParentOf == (2 :> 1) @@ (3 :> 2)

\* A star and its ring.
MCParentOf1 == (2 :> 1)

Always == [m \in Modes |-> TRUE]
Never == [m \in Modes |-> FALSE]
OnlyKepler == [m \in Modes |-> m = "keplerian"]
OnlyNBody == [m \in Modes |-> m = "nbody"]
=============================================================================
