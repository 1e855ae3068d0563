-------------------------------- MODULE Groups --------------------------------
(***************************************************************************)
(* The definitions pool of objects and groups (server/pool/group) and the  *)
(* runtime environment that keeps the objects' states and caches an        *)
(* aggregate for each group (server/runtime).                              *)
(*                                                                         *)
(* Each has a mutex of its own.  A pool operation is one critical section. *)
(* The environment holds its mutex while it calls the pool, once for each  *)
(* group it meets, so the pool may change between two calls of one         *)
(* operation: invalidation and aggregation take a step for each call.      *)
(*                                                                         *)
(* Identifiers come from uuid.New: those of objects and of groups differ,  *)
(* and no two clients create the same one.  Of an object's state only one  *)
(* coordinate is kept, of an aggregate the member count and the sum (the   *)
(* centre times the count).  Properties and timestamps are left out.       *)
(***************************************************************************)
EXTENDS Integers, FiniteSets, FiniteSetsExt, SequencesExt

CONSTANTS
  Objects,    \* identifiers of objects
  Groups,     \* identifiers of groups
  MaxDepth,   \* maxGroupHierarchyDepth (20 in the code)
  Values,     \* coordinates an object may have
  Tracked,    \* groups that clients initialise in the environment
  Lockable,   \* groups that clients lock and unlock
  None        \* no parent, no state

ASSUME IdsAssumption ==
  /\ Objects \intersect Groups = {} /\ None \notin Groups /\ None \notin Objects
  /\ IsFiniteSet(Objects) /\ IsFiniteSet(Groups)
ASSUME DepthAssumption == MaxDepth \in Nat \ {0}
ASSUME ClientsAssumption == Tracked \subseteq Groups /\ Lockable \subseteq Groups
ASSUME ValuesAssumption == Values \subseteq Nat /\ None \notin Values

VARIABLES
  \* the definitions pool
  objects, groups,   \* identifiers that have a definition
  members,           \* group -> its members
  parent,            \* group -> its ParentID, None for nil
  locked,            \* the locked groups
  memberToGroups,    \* member -> the groups that list it (the reverse index)
  edges,             \* group -> its children in the DAG
  \* the runtime environment
  value,             \* object -> coordinate of its state, None without a state
  cache,             \* group -> its GroupState: None, Invalid or an aggregate
  op,                \* the environment operation in progress, under the mutex
  \* history
  regrouped          \* groups whose aggregate predates a change of membership below

poolVars == <<objects, groups, members, parent, locked, memberToGroups, edges>>
envVars  == <<value, cache, op>>
vars     == <<poolVars, envVars, regrouped>>

Ids == Objects \union Groups

\* A GroupState whose CachedValid is false.
Invalid == [count |-> -1, sum |-> 0]

Aggregates == [count : Nat, sum : Nat]

ASSUME StateAssumption == None \notin {Invalid} \union Aggregates

Idle == [kind |-> "idle", queue |-> {}, visited |-> {}, stack |-> <<>>]

-----------------------------------------------------------------------------
(* The shape of the hierarchy.                                             *)

\* Where n steps along F lead from the set S of groups.
After(F, S, n) ==
  LET after[k \in Nat] == IF k = 0 THEN S ELSE UNION {F[g] : g \in after[k - 1]}
  IN  after[n]

\* All that is reached from S along F, S included.
From(F, S) == After([g \in Groups |-> {g} \union F[g]], S, Cardinality(Groups))

\* The number of groups on the longest path from g along F, counted up to one more
\* than the limit (what the code returns when it meets a group again).
Longest(F, g) == Cardinality({n \in 0 .. MaxDepth : After(F, {g}, n) # {}})

\* The member groups of each group.
Children == [g \in Groups |-> members[g] \intersect groups]

\* The groups that list each member.
Listing == [m \in Ids |-> {g \in groups : m \in members[g]}]

\* The new edge p -> c closes a cycle.
WouldCreateCycle(p, c) == p = c \/ p \in From(edges, {c})

\* Mutant: the groups below the new child are not counted.
ParentTooDeep(p, c) == Longest(memberToGroups, p) + 1 > MaxDepth

WouldExceedHierarchyDepth(p, c) ==
  Longest(memberToGroups, p) + Longest(Children, c) > MaxDepth

\* descendantGroupIDs, the root included.
Descendants(g) == From(Children, {g})

\* The groups in S and all groups above them.
Above(S) == From(Listing, S)

-----------------------------------------------------------------------------
(* The environment, as one operation sees it.                              *)

Initialized == {g \in Groups : cache[g] # None}
Valid == {g \in Groups : cache[g] \notin {None, Invalid}}

\* Groups whose aggregate is being computed.
Computing == {op.stack[k].id : k \in DOMAIN op.stack}

\* The groups in S are changed: the aggregates above them no longer count their members.
Regroup(S) == regrouped' = regrouped \union (Above(S) \intersect (Valid \union Computing))

Sum(f, S) == MapThenSumSet(LAMBDA x : f[x], S)

\* What computeGroupStateLocked stores for the member list M, all groups of M being valid.
AggregateOf(M) ==
  LET objs == {o \in M \intersect Objects : value[o] # None}
      subs == M \intersect Initialized
  IN  [count |-> Cardinality(objs) + Sum([g \in subs |-> cache[g].count], subs),
       sum   |-> Sum(value, objs) + Sum([g \in subs |-> cache[g].sum], subs)]

-----------------------------------------------------------------------------
(* The definitions pool: each operation is one critical section of its     *)
(* mutex; one that returns an error changes nothing and is left out.       *)

Init ==
  /\ objects = {} /\ groups = {} /\ locked = {}
  /\ members = [g \in Groups |-> {}]
  /\ parent = [g \in Groups |-> None]
  /\ memberToGroups = [m \in Ids |-> {}]
  /\ edges = [g \in Groups |-> {}]
  /\ value = [o \in Objects |-> None]
  /\ cache = [g \in Groups |-> None]
  /\ op = Idle
  /\ regrouped = {}

CreateObject(o) ==
  /\ o \notin objects
  /\ objects' = objects \union {o}
  /\ UNCHANGED <<groups, members, parent, locked, memberToGroups, edges, envVars, regrouped>>

\* Mutant: a locked group keeps the members that are deleted.
LeaveUnlocked(id) == [g \in Groups |-> IF g \in locked THEN members[g] ELSE members[g] \ {id}]

\* The member lists once id has been taken out of all of them, the lock notwithstanding.
LeaveAll(id) == [g \in Groups |-> members[g] \ {id}]

\* DeleteObject, and Delete of an object.
DeleteObject(o) ==
  /\ o \in objects
  /\ members' = LeaveAll(o)
  /\ memberToGroups' = [memberToGroups EXCEPT ![o] = @ \ Listing[o]]
  /\ objects' = objects \ {o}
  /\ Regroup(Listing[o])
  /\ UNCHANGED <<groups, parent, locked, edges, envVars>>

\* Mutant: the lock of the group is not looked at.
AddMemberUnlocked(g, m) ==
  /\ m \notin members[g]
  /\ members' = [members EXCEPT ![g] = @ \union {m}]

\* GroupDefinition.AddMember.
AddMember(g, m) ==
  /\ g \notin locked
  /\ m \notin members[g]
  /\ members' = [members EXCEPT ![g] = @ \union {m}]

\* addMembershipIndex and, for a group, dag.AddEdge.
Link(g, m) ==
  /\ memberToGroups' = [memberToGroups EXCEPT ![m] = @ \union {g}]
  /\ edges' = IF m \in Groups THEN [edges EXCEPT ![g] = @ \union {m}] ELSE edges

\* removeMembershipIndex and, for a group, dag.RemoveEdge.
Unlink(g, m) ==
  /\ memberToGroups' = [memberToGroups EXCEPT ![m] = @ \ {g}]
  /\ edges' = IF m \in Groups THEN [edges EXCEPT ![g] = @ \ {m}] ELSE edges

\* CreateGroup, without a parent or below p.  A locked parent refuses the member,
\* and the group is taken back.
CreateGroup(g, p) ==
  /\ g \notin groups
  /\ groups' = groups \union {g}
  /\ parent' = [parent EXCEPT ![g] = p]
  /\ \/ p = None /\ UNCHANGED <<members, memberToGroups, edges, regrouped>>
     \/ /\ p \in groups \ {g}
        /\ ~ WouldCreateCycle(p, g)
        /\ ~ WouldExceedHierarchyDepth(p, g)
        /\ AddMember(p, g) /\ Link(p, g) /\ Regroup({p})
  /\ UNCHANGED <<objects, locked, envVars>>

\* Delete refuses a group that still has members.
MayDelete(g) == g \in groups /\ members[g] = {}

\* Delete of a group: it leaves its parent's list, locked or not.
DeleteGroup(g) ==
  /\ MayDelete(g)
  /\ members' = LeaveAll(g)
  /\ memberToGroups' = [memberToGroups EXCEPT ![g] = @ \ Listing[g]]
  /\ edges' = [h \in Groups |-> IF h = g THEN {} ELSE edges[h] \ {g}]
  /\ groups' = groups \ {g}
  /\ parent' = [parent EXCEPT ![g] = None]
  /\ locked' = locked \ {g}
  /\ Regroup(Listing[g])
  /\ UNCHANGED <<objects, envVars>>

\* AddGroupMember of an object: it may be in several groups.
AddObjectMember(g, o) ==
  /\ g \in groups /\ o \in objects
  /\ AddMember(g, o) /\ Link(g, o) /\ Regroup({g})
  /\ UNCHANGED <<objects, groups, parent, locked, envVars>>

\* AddGroupMember of a group, which must not have a parent.
AddGroupMember(g, c) ==
  /\ {g, c} \subseteq groups
  /\ parent[c] = None
  /\ ~ WouldCreateCycle(g, c)
  /\ ~ WouldExceedHierarchyDepth(g, c)
  /\ AddMember(g, c) /\ Link(g, c) /\ Regroup({g})
  /\ parent' = [parent EXCEPT ![c] = g]
  /\ UNCHANGED <<objects, groups, locked, envVars>>

RemoveGroupMember(g, m) ==
  /\ g \in groups \ locked
  /\ m \in members[g]
  /\ members' = [members EXCEPT ![g] = @ \ {m}]
  /\ parent' = IF m \in groups /\ parent[m] = g THEN [parent EXCEPT ![m] = None] ELSE parent
  /\ Unlink(g, m)
  /\ Regroup({g})
  /\ UNCHANGED <<objects, groups, locked, envVars>>

\* LockGroup and UnlockGroup set the flag of one group, the Hierarchy forms of its
\* descendants too.
SetLock(S, on) ==
  /\ locked' = IF on THEN locked \union S ELSE locked \ S
  /\ UNCHANGED <<objects, groups, members, parent, memberToGroups, edges, envVars, regrouped>>

LockGroup(g) == g \in groups /\ SetLock({g}, TRUE)
UnlockGroup(g) == g \in groups /\ SetLock({g}, FALSE)
LockGroupHierarchy(g) == g \in groups /\ SetLock(Descendants(g), TRUE)
UnlockGroupHierarchy(g) == g \in groups /\ SetLock(Descendants(g), FALSE)

PoolStep ==
  \/ \E o \in Objects : CreateObject(o) \/ DeleteObject(o)
  \/ \E g \in Groups : \E p \in Groups \union {None} : CreateGroup(g, p)
  \/ \E g \in Groups : DeleteGroup(g)
  \/ \E g \in Groups, o \in Objects : AddObjectMember(g, o)
  \/ \E g, c \in Groups : AddGroupMember(g, c)
  \/ \E g \in Groups, m \in Ids : RemoveGroupMember(g, m)
  \/ \E g \in Lockable : LockGroup(g) \/ UnlockGroup(g)
  \/ \E g \in Lockable : LockGroupHierarchy(g) \/ UnlockGroupHierarchy(g)

-----------------------------------------------------------------------------
(* The environment: one operation at a time, each under its mutex.         *)

\* Mutant: only the groups that list the object itself are visited.
InvalidateDirect(o) ==
  op' = [Idle EXCEPT !.kind = "invalidate", !.queue = {o}, !.visited = Groups \ memberToGroups[o]]

\* invalidateGroupCachesLocked begins at the object that has changed.
Invalidate(o) == op' = [Idle EXCEPT !.kind = "invalidate", !.queue = {o}]

\* InitializeObject, the definition being looked up first.
InitializeObject(o) ==
  /\ op = Idle
  /\ o \in objects /\ value[o] = None
  /\ \E v \in Values : value' = [value EXCEPT ![o] = v]
  /\ Invalidate(o)
  /\ UNCHANGED <<poolVars, cache, regrouped>>

\* UpdateObjectState runs the caller's mutator on the state.
UpdateObjectState(o) ==
  /\ op = Idle
  /\ value[o] # None
  /\ \E v \in Values : value' = [value EXCEPT ![o] = v]
  /\ Invalidate(o)
  /\ UNCHANGED <<poolVars, cache, regrouped>>

RemoveObjectState(o) ==
  /\ op = Idle
  /\ value[o] # None
  /\ value' = [value EXCEPT ![o] = None]
  /\ Invalidate(o)
  /\ UNCHANGED <<poolVars, cache, regrouped>>

\* One turn of the loop in invalidateGroupCachesLocked: a call of GroupsForMember,
\* the groups not seen before losing their aggregates.  (Groups are queued in the
\* order of a Go map, so any of them may be next.)
InvalidateNext ==
  /\ op.kind = "invalidate"
  /\ \E m \in op.queue :
       LET new == memberToGroups[m] \ op.visited
       IN  /\ cache' = [g \in Groups |-> IF g \in new \intersect Initialized THEN Invalid
                                         ELSE cache[g]]
           /\ regrouped' = regrouped \ new
           /\ op' = IF (op.queue \ {m}) \union new = {} THEN Idle
                    ELSE [op EXCEPT !.queue = (@ \ {m}) \union new, !.visited = @ \union new]
  /\ UNCHANGED <<poolVars, value>>

\* InitializeGroup adds a group without an aggregate; the aggregates of the groups
\* above it are left as they are.
InitializeGroup(g) ==
  /\ op = Idle
  /\ g \in groups /\ cache[g] = None
  /\ cache' = [cache EXCEPT ![g] = Invalid]
  /\ Regroup(Listing[g])
  /\ UNCHANGED <<poolVars, value, op>>

\* The call of GetGroup for g: its member list as it is now.
Opened(g) == [id |-> g, list |-> members[g]]

\* GetGroupState (GetAggregatesByIDs for each of its groups) of a group without a
\* valid aggregate; with one the operation only reads.  A group without definition
\* is an error.
GetGroupState(g) ==
  /\ op = Idle
  /\ cache[g] = Invalid
  /\ g \in groups
  /\ op' = [Idle EXCEPT !.kind = "compute", !.stack = <<Opened(g)>>]
  /\ UNCHANGED <<poolVars, value, cache, regrouped>>

Top == op.stack[Len(op.stack)]

\* Member groups of the list being added up that have no aggregate yet.
Missing == {g \in Top.list \intersect Groups : cache[g] = Invalid}

\* computeGroupStateLocked for a member group.  One met on the way down, or one that
\* has been deleted, ends the operation with an error.
ComputeMember ==
  /\ op.kind = "compute"
  /\ \E g \in Missing :
       op' = IF g \in Computing \/ g \notin groups THEN Idle
             ELSE [op EXCEPT !.stack = Append(@, Opened(g))]
  /\ regrouped' = IF op' = Idle THEN regrouped \ Computing ELSE regrouped
  /\ UNCHANGED <<poolVars, value, cache>>

\* The list is added up and the group has its aggregate.
ComputeDone ==
  /\ op.kind = "compute"
  /\ Missing = {}
  /\ cache' = [cache EXCEPT ![Top.id] = AggregateOf(Top.list)]
  /\ regrouped' = IF Top.list \intersect regrouped = {} THEN regrouped
                  ELSE regrouped \union {Top.id}
  /\ op' = IF Len(op.stack) = 1 THEN Idle ELSE [op EXCEPT !.stack = Front(@)]
  /\ UNCHANGED <<poolVars, value>>

EnvStep ==
  \/ \E o \in Objects : InitializeObject(o) \/ UpdateObjectState(o) \/ RemoveObjectState(o)
  \/ \E g \in Tracked : InitializeGroup(g) \/ GetGroupState(g)
  \/ InvalidateNext \/ ComputeMember \/ ComputeDone

Next == PoolStep \/ EnvStep

Spec == Init /\ [][Next]_vars

-----------------------------------------------------------------------------
(* Properties.                                                             *)

\* What is kept for identifiers that have no definition, and of what kind each
\* variable is: a deleted group has no members, no parent and no place in the DAG.
TypeOK ==
  /\ objects \subseteq Objects /\ groups \subseteq Groups /\ locked \subseteq groups
  /\ members \in [Groups -> SUBSET Ids]
  /\ \A g \in Groups : g \notin groups => members[g] = {} /\ parent[g] = None /\ edges[g] = {}
  /\ parent \in [Groups -> groups \union {None}]
  /\ memberToGroups \in [Ids -> SUBSET groups]
  /\ edges \in [Groups -> SUBSET groups]
  /\ value \in [Objects -> Values \union {None}]
  /\ \A g \in Groups : cache[g] \in {None, Invalid} \/ cache[g] \in Aggregates
  /\ op.kind \in {"idle", "invalidate", "compute"}
  /\ op.queue \subseteq Ids /\ op.visited \subseteq Groups
  /\ \A k \in DOMAIN op.stack : op.stack[k].id \in Groups /\ op.stack[k].list \subseteq Ids
  /\ regrouped \subseteq Valid \union Computing

\* The reverse index lists a group for a member exactly when the group lists the
\* member, and every member has a definition, whatever adds, removes, deletes and
\* undone creations came before (pool.go: Members and memberToGroups are kept in
\* step by hand in seven places).
IndexAgrees ==
  /\ memberToGroups = Listing
  /\ \A g \in groups : members[g] \subseteq objects \union groups

\* ParentID, the member lists and the DAG describe one hierarchy.
OneHierarchy ==
  /\ \A g, c \in Groups : (parent[c] = g) <=> (c \in members[g])
  /\ \A g \in Groups : edges[g] = members[g] \intersect Groups

\* The three, each consulted by a check of its own, agree; no group is below itself, and
\* no chain of groups is longer than the limit, though subtrees are built apart and
\* attached later.
HierarchyIsForest ==
  /\ OneHierarchy
  /\ \A g \in Groups : g \notin From(Children, Children[g]) /\ Longest(Children, g) <= MaxDepth

\* A locked group gains no member, and loses one only when that member is deleted.
LockedKeepsMembers ==
  [][\A g \in locked \intersect groups' :
       /\ members'[g] \subseteq members[g]
       /\ (members[g] \ members'[g]) \intersect (objects' \union groups') = {}]_vars

\* What the groups with a state in and below g hold, as it is now.
TrueAggregate(g) ==
  LET below == From([h \in Groups |-> members[h] \intersect Initialized], {g})
      objs(h) == {o \in members[h] \intersect Objects : value[o] # None}
  IN  [count |-> Sum([h \in below |-> Cardinality(objs(h))], below),
       sum   |-> Sum([h \in below |-> Sum(value, objs(h))], below)]

\* A cached aggregate counts exactly the objects in and below its group that have a
\* state, with the values they have now, unless the membership below has changed
\* since (which the environment is not told): an update, creation or removal of an
\* object reaches every aggregate it is part of, through groups the environment has
\* no state for and while the pool changes between two calls.
FreshUnlessRegrouped ==
  op = Idle => \A g \in Valid \ regrouped : cache[g] = TrueAggregate(g)
=============================================================================
