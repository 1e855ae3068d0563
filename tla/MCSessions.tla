----------------------------- MODULE MCSessions -----------------------------
(***************************************************************************)
(* Small instances of Sessions.                                            *)
(***************************************************************************)
EXTENDS Sessions, TLC

Symmetry == Permutations(Callers) \union Permutations(Ids \ Admins)

\* What a follower that missed an event or has gone has been told, and what it was told of
\* a tangled session, no action and no property looks at: the runs fold those states.
Looked(f) == f \notin missed /\ stream[f] # "gone"

Folded ==
  <<registry, subs, closed, call, stream, missed, tangled, used, crowded,
    [f \in Followers |-> IF Looked(f) THEN channel[f] ELSE << >>],
    [f \in Followers |-> [id \in Ids \ tangled |-> IF Looked(f) THEN view[f][id] ELSE None]]>>

\* Followers of two sessions, or three sessions, one more than the walk has colours for,
\* that nobody follows.
Bounded == Cardinality(used) <= 2 \/ \A f \in Followers : stream[f] = "new"
=============================================================================
