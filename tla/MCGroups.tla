------------------------------- MODULE MCGroups -------------------------------
(***************************************************************************)
(* Small instances of Groups.                                              *)
(***************************************************************************)
EXTENDS Groups, TLC

Symmetry == Permutations(Tracked) \union Permutations(Groups \ Tracked) \union Permutations(Objects)

\* An aggregate that has been overtaken by a change of membership is only ever
\* invalidated, or added into one that is overtaken with it: what it counts decides
\* nothing the properties speak of.  (It may also grow for ever, groups being moved
\* in and out of each other.)
Overtaken == [count |-> 0, sum |-> 1]
View ==
  <<objects, groups, members, parent, locked, memberToGroups, edges, value, op, regrouped,
    [g \in Groups |-> IF g \in regrouped /\ g \in Valid THEN Overtaken ELSE cache[g]]>>

\* The environment takes part as long as only tracked groups exist and none is locked
\* (it asks for neither); larger hierarchies and locks are those of the pool alone.
Untouched == op = Idle /\ Initialized = {} /\ \A o \in Objects : value[o] = None
Bound == (groups \subseteq Tracked /\ locked = {}) \/ Untouched
=============================================================================
