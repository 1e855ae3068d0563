----------------------------- MODULE GroupsProofs -----------------------------
(***************************************************************************)
(* Theorems about Groups, for any objects, groups and values and any depth *)
(* limit.  The definitions pool: the reverse index, the hierarchy behind   *)
(* ParentID, member lists and DAG, that it is a forest, and what a lock    *)
(* keeps.  The environment: the cached aggregates are those of the states. *)
(***************************************************************************)
EXTENDS Groups, FiniteSetTheorems, WellFoundedInduction, TLAPS

-----------------------------------------------------------------------------
(* The inductive invariant.                                                *)

PoolTyped ==
  /\ objects \subseteq Objects /\ groups \subseteq Groups
  /\ members \in [Groups -> SUBSET Ids]
  /\ parent \in [Groups -> Groups \union {None}]
  /\ memberToGroups \in [Ids -> SUBSET Groups]
  /\ edges \in [Groups -> SUBSET Groups]

\* A group that is not defined has nothing, so that it can be created again.
UndefinedIsEmpty ==
  \A g \in Groups \ groups : members[g] = {} /\ parent[g] = None

GInv == PoolTyped /\ UndefinedIsEmpty /\ IndexAgrees /\ OneHierarchy

\* What has no definition is in no member list.
LEMMA UndefinedIsUnlisted ==
  ASSUME GInv, NEW m \in Ids, m \notin objects \union groups
  PROVE  \A g \in Groups : m \notin members[g]
BY DEF GInv, UndefinedIsEmpty, IndexAgrees

-----------------------------------------------------------------------------
(* It is inductive.                                                        *)

LEMMA GStarts == Init => GInv
<1> SUFFICES ASSUME Init PROVE GInv
  OBVIOUS
<1>1. PoolTyped /\ UndefinedIsEmpty
  BY DEF Init, PoolTyped, UndefinedIsEmpty
<1>2. IndexAgrees
  BY DEF Init, IndexAgrees, Listing
<1>3. OneHierarchy
  BY IdsAssumption DEF Init, OneHierarchy
<1> QED  BY <1>1, <1>2, <1>3 DEF GInv

\* A definition goes, and with it its place in every member list.
LEMMA DeletionKeeps ==
  ASSUME GInv, NEW m \in objects \union groups, m \in groups => members[m] = {},
         objects' = objects \ {m}, groups' = groups \ {m},
         members' = LeaveAll(m),
         memberToGroups' = [memberToGroups EXCEPT ![m] = @ \ Listing[m]],
         parent' = IF m \in Groups THEN [parent EXCEPT ![m] = None] ELSE parent,
         edges' = [h \in Groups |-> IF h = m THEN {} ELSE edges[h] \ {m}]
  PROVE  GInv'
<1>1. m \in Ids /\ PoolTyped
  BY DEF GInv, PoolTyped, Ids
<1>2. members' = [g \in Groups |-> members[g] \ {m}]
  BY DEF LeaveAll
<1>3. PoolTyped'
  BY <1>1, <1>2 DEF PoolTyped
<1>4. UndefinedIsEmpty'
  BY <1>1, <1>2 DEF GInv, UndefinedIsEmpty, PoolTyped
<1>5. memberToGroups' = Listing'
  <2>1. \A k \in Ids \ {m} : Listing'[k] = Listing[k]
    BY <1>1, <1>2 DEF Listing, PoolTyped
  <2>2. Listing'[m] = {}
    BY <1>1, <1>2 DEF Listing, PoolTyped
  <2>3. memberToGroups = Listing
    BY DEF GInv, IndexAgrees
  <2>4. \A k \in Ids : memberToGroups'[k] = Listing'[k]
    BY <1>1, <2>1, <2>2, <2>3 DEF PoolTyped
  <2>5. memberToGroups' \in [Ids -> SUBSET Groups] /\ Listing' = [k \in Ids |-> Listing'[k]]
    BY <1>3 DEF PoolTyped, Listing
  <2> QED  BY <2>4, <2>5
<1>6. \A g \in groups' : members'[g] \subseteq objects' \union groups'
  BY <1>1, <1>2 DEF GInv, IndexAgrees, PoolTyped
<1>7. OneHierarchy'
  BY <1>1, <1>2, IdsAssumption DEF GInv, OneHierarchy, PoolTyped
<1> QED  BY <1>3, <1>4, <1>5, <1>6, <1>7 DEF GInv, IndexAgrees

\* A definition, new or not, gets a place in the list of a group; a group that does has
\* had no parent.
LEMMA LinkKeeps ==
  ASSUME GInv, NEW g \in groups, NEW m \in Ids, AddMember(g, m), Link(g, m),
         objects' = objects, groups' = groups \union ({m} \intersect Groups),
         m \in objects \union groups', m \in Groups => parent[m] = None,
         parent' = IF m \in Groups THEN [parent EXCEPT ![m] = g] ELSE parent
  PROVE  GInv'
<1>1. PoolTyped /\ g \in Groups
  BY DEF GInv, PoolTyped
<1>2. /\ members' = [members EXCEPT ![g] = @ \union {m}]
      /\ memberToGroups' = [memberToGroups EXCEPT ![m] = @ \union {g}]
      /\ edges' = IF m \in Groups THEN [edges EXCEPT ![g] = @ \union {m}] ELSE edges
  BY DEF AddMember, Link
<1>3. PoolTyped'
  BY <1>1, <1>2 DEF PoolTyped
<1>4. UndefinedIsEmpty'
  BY <1>1, <1>2 DEF GInv, UndefinedIsEmpty, PoolTyped
<1>5. memberToGroups' = Listing'
  <2>1. \A h \in groups' \ groups : members'[h] = {}
    BY <1>1, <1>2 DEF GInv, UndefinedIsEmpty, PoolTyped
  <2>2. \A k \in Ids \ {m} : Listing'[k] = Listing[k]
    BY <1>1, <1>2, <2>1 DEF Listing, PoolTyped
  <2>3. Listing'[m] = Listing[m] \union {g}
    BY <1>1, <1>2, <2>1 DEF Listing, PoolTyped
  <2>4. memberToGroups = Listing
    BY DEF GInv, IndexAgrees
  <2>5. \A k \in Ids : memberToGroups'[k] = Listing'[k]
    BY <1>1, <1>2, <2>2, <2>3, <2>4 DEF PoolTyped
  <2>6. memberToGroups' \in [Ids -> SUBSET Groups] /\ Listing' = [k \in Ids |-> Listing'[k]]
    BY <1>3 DEF PoolTyped, Listing
  <2> QED  BY <2>5, <2>6
<1>6. \A h \in groups' : members'[h] \subseteq objects' \union groups'
  BY <1>1, <1>2 DEF GInv, IndexAgrees, UndefinedIsEmpty, PoolTyped
<1>7. OneHierarchy'
  <2>1. CASE m \in Groups
    <3>1. \A h \in Groups : m \notin members[h]
      BY <2>1, IdsAssumption DEF GInv, OneHierarchy
    <3> QED  BY <1>1, <1>2, <2>1, <3>1 DEF GInv, OneHierarchy, PoolTyped
  <2>2. CASE m \notin Groups
    BY <1>1, <1>2, <2>2 DEF GInv, OneHierarchy, PoolTyped
  <2> QED  BY <2>1, <2>2
<1> QED  BY <1>3, <1>4, <1>5, <1>6, <1>7 DEF GInv, IndexAgrees

LEMMA RemovalKeeps ==
  ASSUME GInv, NEW g \in Groups, NEW m \in Ids, RemoveGroupMember(g, m)
  PROVE  GInv'
<1>1. PoolTyped /\ g \in groups /\ m \in members[g] /\ m \in objects \union groups
  BY DEF GInv, IndexAgrees, RemoveGroupMember
<1>2. /\ members' = [members EXCEPT ![g] = @ \ {m}]
      /\ parent' = IF m \in groups /\ parent[m] = g THEN [parent EXCEPT ![m] = None] ELSE parent
      /\ memberToGroups' = [memberToGroups EXCEPT ![m] = @ \ {g}]
      /\ edges' = IF m \in Groups THEN [edges EXCEPT ![g] = @ \ {m}] ELSE edges
      /\ UNCHANGED <<objects, groups>>
  BY DEF RemoveGroupMember, Unlink
<1>3. PoolTyped'
  BY <1>1, <1>2 DEF PoolTyped
<1>4. UndefinedIsEmpty'
  BY <1>1, <1>2 DEF GInv, UndefinedIsEmpty, PoolTyped
<1>5. memberToGroups' = Listing'
  <2>1. \A k \in Ids \ {m} : Listing'[k] = Listing[k]
    BY <1>1, <1>2 DEF Listing, PoolTyped
  <2>2. Listing'[m] = Listing[m] \ {g}
    BY <1>1, <1>2 DEF Listing, PoolTyped
  <2>3. memberToGroups = Listing
    BY DEF GInv, IndexAgrees
  <2>4. \A k \in Ids : memberToGroups'[k] = Listing'[k]
    BY <1>1, <1>2, <2>1, <2>2, <2>3 DEF PoolTyped
  <2>5. memberToGroups' \in [Ids -> SUBSET Groups] /\ Listing' = [k \in Ids |-> Listing'[k]]
    BY <1>3 DEF PoolTyped, Listing
  <2> QED  BY <2>4, <2>5
<1>6. \A h \in groups' : members'[h] \subseteq objects' \union groups'
  BY <1>1, <1>2 DEF GInv, IndexAgrees, PoolTyped
<1>7. OneHierarchy'
  BY <1>1, <1>2, IdsAssumption DEF GInv, OneHierarchy, PoolTyped
<1> QED  BY <1>3, <1>4, <1>5, <1>6, <1>7 DEF GInv, IndexAgrees

LEMMA CreationKeeps ==
  ASSUME GInv, NEW g \in Groups, NEW p \in Groups \union {None}, CreateGroup(g, p)
  PROVE  GInv'
<1>1. g \notin objects /\ parent[g] = None /\ members[g] = {}
  BY IdsAssumption DEF GInv, PoolTyped, UndefinedIsEmpty, CreateGroup
<1>2. CASE p = None
  <2>1. UNCHANGED <<objects, members, memberToGroups, edges>> /\ groups' = groups \union {g}
    BY <1>2, IdsAssumption DEF CreateGroup, GInv, PoolTyped
  <2>2. parent' = parent
    BY <1>1, <1>2 DEF CreateGroup, GInv, PoolTyped
  <2>3. PoolTyped' /\ UndefinedIsEmpty'
    BY <2>1, <2>2 DEF GInv, PoolTyped, UndefinedIsEmpty
  <2>4. Listing' = Listing
    BY <1>1, <2>1 DEF Listing
  <2> QED  BY <1>1, <2>1, <2>2, <2>3, <2>4 DEF GInv, IndexAgrees, OneHierarchy
<1>3. CASE p # None
  <2>1. /\ p \in groups /\ AddMember(p, g) /\ Link(p, g)
        /\ objects' = objects /\ groups' = groups \union {g}
        /\ parent' = [parent EXCEPT ![g] = p]
    BY <1>3 DEF CreateGroup
  <2>2. g \in Ids /\ {g} \intersect Groups = {g}
    BY DEF Ids
  <2> QED  BY <1>1, <2>1, <2>2, LinkKeeps
<1> QED  BY <1>2, <1>3

LEMMA GKept == GInv /\ [Next]_vars => GInv'
<1> SUFFICES ASSUME GInv, [Next]_vars PROVE GInv'
  OBVIOUS
<1> USE DEF poolVars
<1>1. CASE UNCHANGED <<objects, groups, members, parent, memberToGroups, edges>>
  BY <1>1 DEF GInv, PoolTyped, UndefinedIsEmpty, IndexAgrees, OneHierarchy, Listing
<1>2. CASE EnvStep \/ UNCHANGED vars
  BY <1>1, <1>2 DEF EnvStep, InitializeObject, UpdateObjectState, RemoveObjectState,
     InitializeGroup, GetGroupState, InvalidateNext, ComputeMember, ComputeDone, vars
<1>3. ASSUME NEW o \in Objects, CreateObject(o) PROVE GInv'
  BY <1>3 DEF CreateObject, GInv, PoolTyped, UndefinedIsEmpty, IndexAgrees, OneHierarchy, Listing
<1>4. ASSUME NEW o \in Objects, DeleteObject(o) PROVE GInv'
  <2>1. o \notin Groups /\ o \notin groups
    BY IdsAssumption DEF GInv, PoolTyped
  <2>2. edges = [h \in Groups |-> IF h = o THEN {} ELSE edges[h] \ {o}]
    BY <2>1 DEF GInv, PoolTyped
  <2>3. o \in objects \union groups /\ groups \ {o} = groups
    BY <1>4, <2>1 DEF DeleteObject
  <2> QED  BY <1>4, <2>1, <2>2, <2>3, DeletionKeeps DEF DeleteObject
<1>5. ASSUME NEW g \in Groups, DeleteGroup(g) PROVE GInv'
  <2>1. g \in groups /\ members[g] = {} /\ objects \ {g} = objects
    BY <1>5, IdsAssumption DEF DeleteGroup, MayDelete, GInv, PoolTyped
  <2> QED  BY <1>5, <2>1, DeletionKeeps DEF DeleteGroup
<1>6. ASSUME NEW g \in Groups, NEW o \in Objects, AddObjectMember(g, o) PROVE GInv'
  <2>1. o \notin Groups /\ o \in Ids /\ groups \union ({o} \intersect Groups) = groups
    BY IdsAssumption DEF Ids
  <2> QED  BY <1>6, <2>1, LinkKeeps DEF AddObjectMember
<1>7. ASSUME NEW g \in Groups, NEW c \in Groups, AddGroupMember(g, c) PROVE GInv'
  <2>1. {g, c} \subseteq groups /\ c \in Ids /\ groups \union ({c} \intersect Groups) = groups
    BY <1>7 DEF AddGroupMember, Ids
  <2> QED  BY <1>7, <2>1, LinkKeeps DEF AddGroupMember
<1>8. ASSUME NEW g \in Lockable,
             LockGroup(g) \/ UnlockGroup(g) \/ LockGroupHierarchy(g) \/ UnlockGroupHierarchy(g)
      PROVE  GInv'
  BY <1>1, <1>8 DEF LockGroup, UnlockGroup, LockGroupHierarchy, UnlockGroupHierarchy, SetLock
<1>9. CASE PoolStep
  BY <1>9, <1>3, <1>4, <1>5, <1>6, <1>7, <1>8, CreationKeeps, RemovalKeeps DEF PoolStep
<1> QED  BY <1>2, <1>9 DEF Next

\* After every operation the tables of the pool are in step, and a deleted group has left
\* nothing behind for one that is created again under its id.
THEOREM PoolInvariant == Spec => []GInv
<1>1. Init => GInv
  BY GStarts
<1>2. GInv /\ [Next]_vars => GInv'
  BY GKept
<1> QED  BY <1>1, <1>2, PTL DEF Spec

\* The reverse index is the inverse of the member lists, and every member has a definition.
THEOREM IndexIsInverse == Spec => []IndexAgrees
<1>1. GInv => IndexAgrees
  BY DEF GInv
<1> QED  BY <1>1, PoolInvariant, PTL

\* ParentID, the member lists and the DAG describe one hierarchy: a group is in the list of
\* its parent and in no other.
THEOREM HierarchyIsOne == Spec => []OneHierarchy
<1>1. GInv => OneHierarchy
  BY DEF GInv
<1> QED  BY <1>1, PoolInvariant, PTL

\* A member list changes by a new member of an unlocked group, by a removal from an
\* unlocked group, or because an id goes that has no definition afterwards.
LEMMA LockKept ==
  ASSUME GInv, [Next]_vars, NEW g \in locked \intersect groups'
  PROVE  /\ members'[g] \subseteq members[g]
         /\ (members[g] \ members'[g]) \intersect (objects' \union groups') = {}
<1> DEFINE Goal == /\ members'[g] \subseteq members[g]
                   /\ (members[g] \ members'[g]) \intersect (objects' \union groups') = {}
<1>0. PoolTyped /\ g \in Groups
  BY GKept DEF GInv, PoolTyped
<1>1. CASE members' = members
  BY <1>1
<1>2. CASE EnvStep \/ UNCHANGED vars
  BY <1>1, <1>2 DEF EnvStep, InitializeObject, UpdateObjectState, RemoveObjectState,
     InitializeGroup, GetGroupState, InvalidateNext, ComputeMember, ComputeDone, vars, poolVars
<1>3. ASSUME NEW h \in Groups, NEW m \in Ids, AddMember(h, m) PROVE Goal
  <2>1. h # g /\ members' = [members EXCEPT ![h] = @ \union {m}]
    BY <1>3 DEF AddMember
  <2> QED  BY <1>0, <2>1 DEF PoolTyped
<1>4. ASSUME NEW m \in Ids, members' = LeaveAll(m), m \notin objects' \union groups' PROVE Goal
  BY <1>0, <1>4 DEF LeaveAll, PoolTyped
<1>5. ASSUME NEW o \in Objects, DeleteObject(o) PROVE Goal
  <2>1. o \in Ids /\ o \notin objects' \union groups' /\ members' = LeaveAll(o)
    BY <1>0, <1>5, IdsAssumption DEF DeleteObject, PoolTyped, Ids
  <2> QED  BY <2>1, <1>4
<1>6. ASSUME NEW h \in Groups, DeleteGroup(h) PROVE Goal
  <2>1. h \in Ids /\ h \notin objects' \union groups' /\ members' = LeaveAll(h)
    BY <1>0, <1>6, IdsAssumption DEF DeleteGroup, PoolTyped, Ids
  <2> QED  BY <2>1, <1>4
<1>7. ASSUME NEW h \in Groups, NEW m \in Ids, RemoveGroupMember(h, m) PROVE Goal
  <2>1. h # g /\ members' = [members EXCEPT ![h] = @ \ {m}]
    BY <1>7 DEF RemoveGroupMember
  <2> QED  BY <1>0, <2>1 DEF PoolTyped
<1>8. ASSUME NEW h \in Groups, NEW q \in Groups \union {None}, CreateGroup(h, q) PROVE Goal
  <2>1. h \in Ids /\ (members' = members \/ (q \in Groups /\ AddMember(q, h)))
    BY <1>0, <1>8 DEF CreateGroup, Ids, PoolTyped
  <2> QED  BY <2>1, <1>1, <1>3
<1>9. CASE PoolStep
  <2>1. ASSUME NEW o \in Objects, CreateObject(o) PROVE Goal
    BY <1>1, <2>1 DEF CreateObject
  <2>2. ASSUME NEW h \in Groups, NEW m \in Ids, AddObjectMember(h, m) \/ AddGroupMember(h, m)
        PROVE  Goal
    BY <1>3, <2>2 DEF AddObjectMember, AddGroupMember
  <2>3. ASSUME NEW h \in Lockable,
               LockGroup(h) \/ UnlockGroup(h) \/ LockGroupHierarchy(h) \/ UnlockGroupHierarchy(h)
        PROVE  Goal
    BY <1>1, <2>3 DEF LockGroup, UnlockGroup, LockGroupHierarchy, UnlockGroupHierarchy, SetLock
  <2> QED  BY <1>5, <1>6, <1>7, <1>8, <1>9, <2>1, <2>2, <2>3 DEF PoolStep, Ids
<1> QED  BY <1>2, <1>9 DEF Next

\* Whatever is created, deleted and attached around it, a locked group gains no member
\* and loses none but one that is deleted.
THEOREM LocksHold == Spec => LockedKeepsMembers
<1>1. GInv /\ [Next]_vars => [\A g \in locked \intersect groups' :
       /\ members'[g] \subseteq members[g]
       /\ (members[g] \ members'[g]) \intersect (objects' \union groups') = {}]_vars
  BY LockKept
<1> QED  BY <1>1, PoolInvariant, PTL DEF Spec, LockedKeepsMembers
-----------------------------------------------------------------------------
(* Numbers, and functions that are iterated.                               *)

\* A set of natural numbers has a least element.
LEMMA Least ==
  ASSUME NEW S \in SUBSET Nat, S # {}
  PROVE  \E x \in S : \A y \in S : x <= y
<1>1. \A x, y \in Nat : x < y => <<x, y>> \in OpToRel(<, Nat)
  BY DEF OpToRel
<1>2. \E R : IsWellFoundedOn(R, Nat) /\ \A x, y \in Nat : x < y => <<x, y>> \in R
  BY <1>1, NatLessThanWellFounded, Zenon
<1>3. ASSUME NEW R, IsWellFoundedOn(R, Nat), \A x, y \in Nat : x < y => <<x, y>> \in R
      PROVE  \E x \in S : \A y \in S : x <= y
  <2>1. S \subseteq Nat /\ S # {}
    OBVIOUS
  <2>2. \A A, Q, T : (IsWellFoundedOn(Q, A) /\ T \subseteq A /\ T # {})
                     => \E x \in T : \A y \in T : ~ (<<y, x>> \in Q)
    <3> SUFFICES ASSUME NEW A, NEW Q, NEW T, IsWellFoundedOn(Q, A), T \subseteq A, T # {}
                 PROVE  \E x \in T : \A y \in T : ~ (<<y, x>> \in Q)
      BY Zenon
    <3> QED  BY WFMin
  <2>3. (IsWellFoundedOn(R, Nat) /\ S \subseteq Nat /\ S # {})
        => \E x \in S : \A y \in S : ~ (<<y, x>> \in R)
    BY <2>2, Zenon
  <2>4. PICK x \in S : \A y \in S : ~ (<<y, x>> \in R)
    BY <1>3, <2>1, <2>3
  <2>5. \A y \in S : ~ (y < x)
    BY <1>3, <2>4, Zenon
  <2> QED  BY <2>5
<1> QED  BY <1>2, <1>3, Zenon

\* Induction: a set with 0, and with the successor of each member, has them all.
LEMMA Successors ==
  ASSUME NEW S, 0 \in S, \A n \in Nat : n \in S => n + 1 \in S
  PROVE  \A n \in Nat : n \in S
<1> SUFFICES ASSUME NEW m \in Nat, m \notin S PROVE FALSE
  OBVIOUS
<1> DEFINE Out == {n \in Nat : n \notin S}
<1>1. PICK n \in Out : \A k \in Out : n <= k
  <2>1. Out \in SUBSET Nat /\ Out # {}
    OBVIOUS
  <2> HIDE DEF Out
  <2> QED  BY <2>1, Least
<1>2. n \in Nat /\ n # 0 /\ n - 1 \in Nat /\ n - 1 \notin Out
  <2>1. n \in Nat /\ n # 0
    BY <1>1
  <2>2. n - 1 \in Nat /\ ~ (n <= n - 1)
    BY <2>1
  <2> QED  BY <1>1, <2>1, <2>2
<1>3. n - 1 \in S /\ (n - 1) + 1 = n
  BY <1>2
<1> QED  BY <1>1, <1>2, <1>3

\* a is what the first n + 1 rounds of step make of x.
Rounds(a, n, x, step) == a[0] = x /\ \A k \in 1 .. n : a[k] = step[a[k - 1]]

LEMMA RoundsAgree ==
  ASSUME NEW x, NEW step, NEW n \in Nat, NEW m \in Nat, n <= m, NEW a, NEW b,
         Rounds(a, n, x, step), Rounds(b, m, x, step)
  PROVE  \A k \in 0 .. n : a[k] = b[k]
<1> DEFINE Same == {k \in Nat : k <= n => a[k] = b[k]}
<1>1. 0 \in Same
  BY DEF Rounds
<1>2. \A k \in Nat : k \in Same => k + 1 \in Same
  <2> SUFFICES ASSUME NEW k \in Nat, k \in Same, k + 1 <= n PROVE a[k + 1] = b[k + 1]
    OBVIOUS
  <2>1. k + 1 \in 1 .. n /\ k + 1 \in 1 .. m /\ (k + 1) - 1 = k /\ a[k] = b[k]
    OBVIOUS
  <2> QED  BY <2>1 DEF Rounds
<1>3. \A k \in Nat : k \in Same
  <2> HIDE DEF Same
  <2> QED  BY <1>1, <1>2, Successors
<1> QED  BY <1>3

\* What is defined by rounds exists.
LEMMA RoundsExist ==
  ASSUME NEW X, NEW x \in X, NEW step \in [X -> X]
  PROVE  \E f \in [Nat -> X] : f[0] = x /\ \A n \in Nat : f[n + 1] = step[f[n]]
<1> DEFINE Some == {n \in Nat : \E a \in [0 .. n -> X] : Rounds(a, n, x, step)}
           First(n) == CHOOSE a \in [0 .. n -> X] : Rounds(a, n, x, step)
           f == [n \in Nat |-> First(n)[n]]
<1>1. 0 \in Some
  <2> DEFINE a == [k \in 0 .. 0 |-> x]
  <2>1. a \in [0 .. 0 -> X] /\ Rounds(a, 0, x, step)
    BY DEF Rounds
  <2> HIDE DEF a
  <2> QED  BY <2>1
<1>2. \A n \in Nat : n \in Some => n + 1 \in Some
  <2> SUFFICES ASSUME NEW n \in Nat, n \in Some PROVE n + 1 \in Some
    OBVIOUS
  <2>1. PICK a \in [0 .. n -> X] : Rounds(a, n, x, step)
    OBVIOUS
  <2> DEFINE b == [k \in 0 .. n + 1 |-> IF k <= n THEN a[k] ELSE step[a[n]]]
  <2>2. b \in [0 .. n + 1 -> X]
    <3>1. a[n] \in X /\ step[a[n]] \in X
      OBVIOUS
    <3>2. \A k \in 0 .. n + 1 : k <= n => a[k] \in X
      OBVIOUS
    <3> QED  BY <3>1, <3>2
  <2>3. Rounds(b, n + 1, x, step)
    <3>1. b[0] = x
      BY <2>1 DEF Rounds
    <3>2. ASSUME NEW k \in 1 .. n + 1 PROVE b[k] = step[b[k - 1]]
      <4>1. CASE k <= n
        <5>1. k \in 1 .. n /\ k - 1 \in 0 .. n + 1 /\ k - 1 <= n /\ k \in 0 .. n + 1
          BY <4>1
        <5>2. b[k] = a[k] /\ b[k - 1] = a[k - 1]
          BY <4>1, <5>1
        <5> QED  BY <5>1, <5>2, <2>1 DEF Rounds
      <4>2. CASE k = n + 1
        <5>1. b[n + 1] = step[a[n]] /\ b[n] = a[n] /\ k - 1 = n
          BY <4>2
        <5> QED  BY <4>2, <5>1
      <4> QED  BY <4>1, <4>2
    <3> HIDE DEF b
    <3> QED  BY <3>1, <3>2 DEF Rounds
  <2> HIDE DEF b
  <2> QED  BY <2>2, <2>3
<1>3. \A n \in Nat : n \in Some
  <2> HIDE DEF Some
  <2> QED  BY <1>1, <1>2, Successors
<1>4. \A n \in Nat : First(n) \in [0 .. n -> X] /\ Rounds(First(n), n, x, step)
  BY <1>3
<1> HIDE DEF First, Some
<1>5. f \in [Nat -> X]
  <2>1. \A n \in Nat : First(n)[n] \in X
    BY <1>4
  <2> QED  BY <2>1
<1>6. f[0] = x
  BY <1>4 DEF Rounds
<1>7. ASSUME NEW n \in Nat PROVE f[n + 1] = step[f[n]]
  <2>1. n + 1 \in Nat /\ n <= n + 1 /\ n \in 0 .. n /\ n + 1 \in 1 .. n + 1 /\ (n + 1) - 1 = n
    OBVIOUS
  <2>2. First(n)[n] = First(n + 1)[n]
    BY <2>1, <1>4, RoundsAgree
  <2>3. First(n + 1)[n + 1] = step[First(n + 1)[n]]
    BY <2>1, <1>4 DEF Rounds
  <2> QED  BY <2>1, <2>2, <2>3
<1> HIDE DEF f
<1> QED  BY <1>5, <1>6, <1>7

\* F leads from groups to groups.
Leads(F) == \A g \in Groups : F[g] \subseteq Groups

\* After by rounds.
LEMMA AfterFacts ==
  ASSUME NEW F, Leads(F), NEW S \in SUBSET Groups
  PROVE  /\ After(F, S, 0) = S
         /\ \A n \in Nat : /\ After(F, S, n) \subseteq Groups
                           /\ After(F, S, n + 1) = UNION {F[g] : g \in After(F, S, n)}
<1> DEFINE step == [T \in SUBSET Groups |-> UNION {F[g] : g \in T}]
           after[k \in Nat] == IF k = 0 THEN S ELSE UNION {F[g] : g \in after[k - 1]}
<1>1. step \in [SUBSET Groups -> SUBSET Groups]
  BY DEF Leads
<1>2. PICK f \in [Nat -> SUBSET Groups] : f[0] = S /\ \A n \in Nat : f[n + 1] = step[f[n]]
  <2> HIDE DEF step
  <2> QED  BY <1>1, RoundsExist
<1>3. f = [k \in Nat |-> IF k = 0 THEN S ELSE UNION {F[g] : g \in f[k - 1]}]
  <2>1. ASSUME NEW k \in Nat, k # 0 PROVE f[k] = UNION {F[g] : g \in f[k - 1]}
    <3>1. k - 1 \in Nat /\ (k - 1) + 1 = k
      BY <2>1
    <3> QED  BY <3>1, <1>2
  <2> QED  BY <1>2, <2>1
<1>4. after = [k \in Nat |-> IF k = 0 THEN S ELSE UNION {F[g] : g \in after[k - 1]}]
  BY <1>3
<1>5. \A n \in Nat : After(F, S, n) = after[n]
  BY DEF After
<1> HIDE DEF after, step
<1>6. after[0] = S /\ \A n \in Nat : after[n + 1] = UNION {F[g] : g \in after[n]}
  <2>1. \A n \in Nat : n + 1 \in Nat /\ n + 1 # 0 /\ (n + 1) - 1 = n
    OBVIOUS
  <2>2. 0 \in Nat
    OBVIOUS
  <2> QED  BY <1>4, <2>1, <2>2
<1>7. \A n \in Nat : after[n] \subseteq Groups
  <2> DEFINE In == {n \in Nat : after[n] \subseteq Groups}
  <2>1. 0 \in In
    BY <1>6
  <2>2. \A n \in Nat : n \in In => n + 1 \in In
    BY <1>6 DEF Leads
  <2>3. \A n \in Nat : n \in In
    <3> HIDE DEF In
    <3> QED  BY <2>1, <2>2, Successors
  <2> QED  BY <2>3
<1> QED  BY <1>5, <1>6, <1>7

-----------------------------------------------------------------------------
(* Sums over finite sets.                                                  *)

\* Induction over a finite set: a family with the empty set, and with the sets that its
\* members become by one more element, has the set itself.
LEMMA OneByOne ==
  ASSUME NEW S, IsFiniteSet(S), NEW P, {} \in P,
         \A T \in SUBSET S : \A x \in S \ T : T \in P => T \union {x} \in P
  PROVE  S \in P
<1> DEFINE Size == {n \in Nat : \A T \in SUBSET S : Cardinality(T) = n => T \in P}
<1>1. \A T \in SUBSET S : IsFiniteSet(T) /\ Cardinality(T) \in Nat
  BY FS_Subset, FS_CardinalityType
<1>2. 0 \in Size
  <2> SUFFICES ASSUME NEW T \in SUBSET S, Cardinality(T) = 0 PROVE T \in P
    OBVIOUS
  <2>1. T = {}
    BY <1>1, FS_EmptySet
  <2> QED  BY <2>1
<1>3. \A n \in Nat : n \in Size => n + 1 \in Size
  <2> SUFFICES ASSUME NEW n \in Nat, n \in Size, NEW T \in SUBSET S, Cardinality(T) = n + 1
               PROVE  T \in P
    OBVIOUS
  <2>1. PICK x : x \in T
    <3>1. T # {}
      BY <1>1, FS_EmptySet
    <3> QED  BY <3>1
  <2>2. Cardinality(T \ {x}) = n
    BY <1>1, <2>1, FS_RemoveElement
  <2>3. T \ {x} \in P /\ T \ {x} \in SUBSET S /\ x \in S \ (T \ {x}) /\ (T \ {x}) \union {x} = T
    BY <2>1, <2>2
  <2> QED  BY <2>3
<1>4. \A n \in Nat : n \in Size
  <2> HIDE DEF Size
  <2> QED  BY <1>2, <1>3, Successors
<1> QED  BY <1>1, <1>4

\* The element that MapThenFoldSet takes next.
Pick(s) == CHOOSE x \in s : TRUE

\* f gives a whole number to each member of S.
Weighs(f, S) == \A x \in S : f[x] \in Int

\* it adds up f over the subsets of S.
AddsUp(it, f, S) ==
  \A s \in SUBSET S : it[s] = IF s = {} THEN 0 ELSE f[Pick(s)] + it[s \ {Pick(s)}]

LEMMA AdditionExists ==
  ASSUME NEW S, IsFiniteSet(S), NEW f, Weighs(f, S)
  PROVE  \E it \in [SUBSET S -> Int] : AddsUp(it, f, S)
<1> DEFINE X == [SUBSET S -> Int]
           step == [g \in X |-> [s \in SUBSET S |->
                      IF s = {} THEN 0 ELSE f[Pick(s)] + g[s \ {Pick(s)}]]]
           zero == [s \in SUBSET S |-> 0]
<1>1. \A s \in SUBSET S : s # {} => Pick(s) \in s /\ s \ {Pick(s)} \in SUBSET S /\ f[Pick(s)] \in Int
  BY DEF Pick, Weighs
<1>2. step \in [X -> X] /\ zero \in X
  BY <1>1
<1>3. PICK h \in [Nat -> X] : h[0] = zero /\ \A n \in Nat : h[n + 1] = step[h[n]]
  <2> HIDE DEF X, step, zero
  <2> QED  BY <1>2, RoundsExist
<1>4. \A n \in Nat : h[n] \in X /\ \A s \in SUBSET S :
         h[n + 1][s] = IF s = {} THEN 0 ELSE f[Pick(s)] + h[n][s \ {Pick(s)}]
  <2>1. \A g \in X : \A s \in SUBSET S :
          step[g][s] = IF s = {} THEN 0 ELSE f[Pick(s)] + g[s \ {Pick(s)}]
    <3> HIDE DEF X
    <3> QED  OBVIOUS
  <2> HIDE DEF X, step, zero
  <2>2. \A n \in Nat : h[n] \in X
    BY <1>3
  <2>3. ASSUME NEW n \in Nat, NEW s \in SUBSET S
        PROVE  h[n + 1][s] = IF s = {} THEN 0 ELSE f[Pick(s)] + h[n][s \ {Pick(s)}]
    <3>1. h[n] \in X /\ h[n + 1] = step[h[n]]
      BY <1>3, <2>2
    <3>2. step[h[n]][s] = IF s = {} THEN 0 ELSE f[Pick(s)] + h[n][s \ {Pick(s)}]
      BY <3>1, <2>1
    <3> QED  BY <3>1, <3>2
  <2> QED  BY <2>2, <2>3
<1>5. \A s \in SUBSET S : IsFiniteSet(s) /\ Cardinality(s) \in Nat
  BY FS_Subset, FS_CardinalityType
<1>6. \A s \in SUBSET S : Cardinality(s) = 0 <=> s = {}
  BY <1>5, FS_EmptySet
<1>7. \A s \in SUBSET S : s # {} => Cardinality(s \ {Pick(s)}) = Cardinality(s) - 1
  BY <1>1, <1>5, FS_RemoveElement
<1> HIDE DEF step, zero
<1> DEFINE Settled == {n \in Nat : \A s \in SUBSET S : Cardinality(s) <= n => h[n + 1][s] = h[n][s]}
<1>8. 0 \in Settled
  <2> SUFFICES ASSUME NEW s \in SUBSET S, Cardinality(s) <= 0 PROVE h[0 + 1][s] = h[0][s]
    OBVIOUS
  <2>1. s = {}
    BY <1>5, <1>6
  <2> QED  BY <2>1, <1>3, <1>4 DEF zero
<1>9. \A n \in Nat : n \in Settled => n + 1 \in Settled
  <2> SUFFICES ASSUME NEW n \in Nat, n \in Settled, NEW s \in SUBSET S, Cardinality(s) <= n + 1
               PROVE  h[(n + 1) + 1][s] = h[n + 1][s]
    OBVIOUS
  <2>1. n + 1 \in Nat
    OBVIOUS
  <2>2. CASE s = {}
    BY <2>1, <2>2, <1>4
  <2>3. CASE s # {}
    <3>1. s \ {Pick(s)} \in SUBSET S /\ Cardinality(s \ {Pick(s)}) <= n
      BY <2>3, <1>1, <1>5, <1>7
    <3>2. h[n + 1][s \ {Pick(s)}] = h[n][s \ {Pick(s)}]
      BY <3>1
    <3> QED  BY <2>1, <2>3, <3>2, <1>4
  <2> QED  BY <2>2, <2>3
<1>10. \A n \in Nat : n \in Settled
  <2> HIDE DEF Settled
  <2> QED  BY <1>8, <1>9, Successors
<1>11. PICK n \in Nat : n = Cardinality(S)
  BY FS_CardinalityType
<1>12. \A s \in SUBSET S : h[n + 1][s] = h[n][s]
  <2> SUFFICES ASSUME NEW s \in SUBSET S PROVE h[n + 1][s] = h[n][s]
    OBVIOUS
  <2>1. Cardinality(s) <= n
    BY <1>11, FS_Subset
  <2> QED  BY <2>1, <1>10
<1>13. AddsUp(h[n], f, S) /\ h[n] \in X
  BY <1>4, <1>12 DEF AddsUp
<1> QED  BY <1>13

\* There is one way to add up.
LEMMA AdditionsAgree ==
  ASSUME NEW S, IsFiniteSet(S), NEW f, NEW it, NEW jt, AddsUp(it, f, S), AddsUp(jt, f, S)
  PROVE  it[S] = jt[S]
<1> DEFINE Size == {n \in Nat : \A s \in SUBSET S : Cardinality(s) = n => it[s] = jt[s]}
<1>1. \A s \in SUBSET S : IsFiniteSet(s) /\ Cardinality(s) \in Nat
  BY FS_Subset, FS_CardinalityType
<1>2. 0 \in Size
  <2>1. \A s \in SUBSET S : Cardinality(s) = 0 => s = {}
    BY <1>1, FS_EmptySet
  <2>2. it[{}] = jt[{}]
    BY DEF AddsUp
  <2> QED  BY <2>1, <2>2
<1>3. \A n \in Nat : n \in Size => n + 1 \in Size
  <2> SUFFICES ASSUME NEW n \in Nat, n \in Size, NEW s \in SUBSET S, Cardinality(s) = n + 1
               PROVE  it[s] = jt[s]
    OBVIOUS
  <2>1. s # {}
    BY <1>1, FS_EmptySet
  <2>2. Pick(s) \in s
    BY <2>1 DEF Pick
  <2>3. s \ {Pick(s)} \in SUBSET S /\ Cardinality(s \ {Pick(s)}) = n
    <3>1. IsFiniteSet(s)
      BY <1>1
    <3>2. Cardinality(s \ {Pick(s)}) = Cardinality(s) - 1
      BY <3>1, <2>2, FS_RemoveElement
    <3> QED  BY <3>2
  <2>4. it[s \ {Pick(s)}] = jt[s \ {Pick(s)}]
    BY <2>3
  <2> QED  BY <2>1, <2>4 DEF AddsUp
<1>4. \A n \in Nat : n \in Size
  <2> HIDE DEF Size
  <2> QED  BY <1>2, <1>3, Successors
<1> QED  BY <1>1, <1>4

\* Sum is a whole number, nothing over the empty set, and otherwise one element's
\* weight more than the sum over the rest.
LEMMA SumRecursive ==
  ASSUME NEW S, IsFiniteSet(S), NEW f, Weighs(f, S)
  PROVE  /\ Sum(f, S) \in Int
         /\ S = {} => Sum(f, S) = 0
         /\ S # {} => Sum(f, S) = f[Pick(S)] + Sum(f, S \ {Pick(S)})
<1>1. PICK it \in [SUBSET S -> Int] : AddsUp(it, f, S)
  BY AdditionExists
<1>2. ASSUME NEW T \in SUBSET S PROVE Sum(f, T) = it[T]
  <2> DEFINE iter[s \in SUBSET T] == IF s = {} THEN 0 ELSE f[Pick(s)] + iter[s \ {Pick(s)}]
             jt == [s \in SUBSET T |-> it[s]]
  <2>1. Sum(f, T) = iter[T]
    BY DEF Sum, MapThenSumSet, MapThenFoldSet, Pick
  <2>2. \A s \in SUBSET T : it[s] = IF s = {} THEN 0 ELSE f[Pick(s)] + it[s \ {Pick(s)}]
    BY <1>1 DEF AddsUp
  <2>3. jt = [s \in SUBSET T |-> IF s = {} THEN 0 ELSE f[Pick(s)] + jt[s \ {Pick(s)}]]
    BY <2>2
  <2>4. iter = [s \in SUBSET T |-> IF s = {} THEN 0 ELSE f[Pick(s)] + iter[s \ {Pick(s)}]]
    <3> HIDE DEF jt
    <3> QED  BY <2>3
  <2> HIDE DEF iter, jt
  <2>5. AddsUp(iter, f, T)
    BY <2>4 DEF AddsUp
  <2>6. AddsUp(it, f, T) /\ IsFiniteSet(T)
    BY <2>2, FS_Subset DEF AddsUp
  <2>7. iter[T] = it[T]
    BY <2>5, <2>6, AdditionsAgree
  <2> QED  BY <2>1, <2>7
<1>3. S \ {Pick(S)} \in SUBSET S /\ S \in SUBSET S
  OBVIOUS
<1>4. Sum(f, S) = it[S] /\ Sum(f, S \ {Pick(S)}) = it[S \ {Pick(S)}]
  BY <1>2, <1>3
<1> QED  BY <1>1, <1>3, <1>4 DEF AddsUp

\* The element may be any.
LEMMA SumTake ==
  ASSUME NEW S, IsFiniteSet(S), NEW f, Weighs(f, S), NEW x \in S
  PROVE  Sum(f, S) = f[x] + Sum(f, S \ {x})
<1> DEFINE Size == {n \in Nat : \A T \in SUBSET S : Cardinality(T) = n =>
                                  \A y \in T : Sum(f, T) = f[y] + Sum(f, T \ {y})}
<1>1. \A T \in SUBSET S : /\ IsFiniteSet(T) /\ Cardinality(T) \in Nat /\ Weighs(f, T)
                          /\ Sum(f, T) \in Int
                          /\ T # {} => /\ Pick(T) \in T
                                       /\ Sum(f, T) = f[Pick(T)] + Sum(f, T \ {Pick(T)})
  <2> SUFFICES ASSUME NEW T \in SUBSET S
               PROVE  /\ IsFiniteSet(T) /\ Cardinality(T) \in Nat /\ Weighs(f, T)
                      /\ Sum(f, T) \in Int
                      /\ T # {} => /\ Pick(T) \in T
                                   /\ Sum(f, T) = f[Pick(T)] + Sum(f, T \ {Pick(T)})
    OBVIOUS
  <2>1. IsFiniteSet(T) /\ Cardinality(T) \in Nat /\ Weighs(f, T)
    BY FS_Subset, FS_CardinalityType DEF Weighs
  <2>2. T # {} => Pick(T) \in T
    BY DEF Pick
  <2> QED  BY <2>1, <2>2, SumRecursive
<1>2. 0 \in Size
  BY <1>1, FS_EmptySet
<1>3. ASSUME NEW n \in Nat, n \in Size, NEW T \in SUBSET S, Cardinality(T) = n + 1, NEW y \in T
      PROVE  Sum(f, T) = f[y] + Sum(f, T \ {y})
  <2> DEFINE z == Pick(T)
  <2>1. z \in T /\ Sum(f, T) = f[z] + Sum(f, T \ {z})
    BY <1>1
  <2> HIDE DEF z
  <2>2. CASE y = z
    BY <2>1, <2>2
  <2>3. CASE y # z
    <3>1. Cardinality(T \ {z}) = n /\ Cardinality(T \ {y}) = n
      <4>1. IsFiniteSet(T)
        BY <1>1
      <4>2. Cardinality(T \ {z}) = Cardinality(T) - 1 /\ Cardinality(T \ {y}) = Cardinality(T) - 1
        BY <4>1, <2>1, FS_RemoveElement
      <4> QED  BY <4>2, <1>3
    <3>2. Sum(f, T \ {z}) = f[y] + Sum(f, (T \ {z}) \ {y})
      BY <1>3, <2>3, <3>1
    <3>3. Sum(f, T \ {y}) = f[z] + Sum(f, (T \ {y}) \ {z})
      BY <1>3, <2>1, <2>3, <3>1
    <3>4. (T \ {z}) \ {y} = (T \ {y}) \ {z} /\ (T \ {y}) \ {z} \in SUBSET S
      OBVIOUS
    <3>5. f[y] \in Int /\ f[z] \in Int /\ Sum(f, (T \ {y}) \ {z}) \in Int
      BY <1>1, <2>1, <3>4 DEF Weighs
    <3>6. Sum(f, T) = f[z] + (f[y] + Sum(f, (T \ {y}) \ {z}))
      BY <2>1, <3>2, <3>4
    <3> QED  BY <3>3, <3>5, <3>6
  <2> QED  BY <2>2, <2>3
<1>4. \A n \in Nat : n \in Size
  <2>1. \A n \in Nat : n \in Size => n + 1 \in Size
    BY <1>3
  <2> HIDE DEF Size
  <2> QED  BY <1>2, <2>1, Successors
<1> QED  BY <1>1, <1>4

\* One more element adds its weight.
LEMMA SumMore ==
  ASSUME NEW S, IsFiniteSet(S), NEW f, NEW x, x \notin S, Weighs(f, S \union {x})
  PROVE  /\ Sum(f, S \union {x}) = f[x] + Sum(f, S)
         /\ Sum(f, S) \in Int /\ f[x] \in Int
<1>1. IsFiniteSet(S \union {x}) /\ x \in S \union {x} /\ (S \union {x}) \ {x} = S
  BY FS_AddElement
<1>2. Weighs(f, S) /\ f[x] \in Int
  BY DEF Weighs
<1>3. Sum(f, S \union {x}) = f[x] + Sum(f, (S \union {x}) \ {x})
  BY <1>1, SumTake
<1>4. Sum(f, (S \union {x}) \ {x}) = Sum(f, S)
  BY <1>1
<1>5. Sum(f, S) \in Int
  BY <1>2, SumRecursive
<1> QED  BY <1>2, <1>3, <1>4, <1>5

\* What is not in the set does not matter.
LEMMA SumAgrees ==
  ASSUME NEW S, IsFiniteSet(S), NEW f, Weighs(f, S), NEW g, \A x \in S : g[x] = f[x]
  PROVE  Sum(f, S) = Sum(g, S)
<1> DEFINE P == {T \in SUBSET S : Sum(f, T) = Sum(g, T)}
<1>1. \A T \in SUBSET S : IsFiniteSet(T) /\ Weighs(f, T) /\ Weighs(g, T)
  BY FS_Subset DEF Weighs
<1>2. {} \in P
  BY <1>1, SumRecursive
<1>3. ASSUME NEW T \in SUBSET S, NEW x \in S \ T, Sum(f, T) = Sum(g, T)
      PROVE  Sum(f, T \union {x}) = Sum(g, T \union {x})
  <2>1. IsFiniteSet(T) /\ T \union {x} \in SUBSET S /\ x \notin T
    BY <1>1
  <2>2. Weighs(f, T \union {x}) /\ Weighs(g, T \union {x})
    BY <1>1, <2>1
  <2>3. Sum(f, T \union {x}) = f[x] + Sum(f, T) /\ Sum(g, T \union {x}) = g[x] + Sum(g, T)
    BY <2>1, <2>2, SumMore
  <2> QED  BY <1>3, <2>3
<1>4. S \in P
  <2>1. \A T \in SUBSET S : \A x \in S \ T : T \in P => T \union {x} \in P
    BY <1>3
  <2> HIDE DEF P
  <2> QED  BY <1>2, <2>1, OneByOne
<1> QED  BY <1>4

LEMMA SumOfTwo ==
  ASSUME NEW A, IsFiniteSet(A), NEW B, IsFiniteSet(B), A \intersect B = {},
         NEW f, Weighs(f, A \union B)
  PROVE  Sum(f, A \union B) = Sum(f, A) + Sum(f, B)
<1> DEFINE P == {T \in SUBSET B : Sum(f, A \union T) = Sum(f, A) + Sum(f, T)}
<1>1. \A T \in SUBSET B : IsFiniteSet(T) /\ IsFiniteSet(A \union T)
                          /\ Weighs(f, T) /\ Weighs(f, A \union T)
  BY FS_Subset, FS_Union DEF Weighs
<1>2. Weighs(f, A) /\ Sum(f, A) \in Int
  <2>1. Weighs(f, A)
    BY DEF Weighs
  <2> QED  BY <2>1, SumRecursive
<1>3. {} \in P
  <2>1. Sum(f, {}) = 0
    BY <1>1, SumRecursive
  <2>2. A \union {} = A
    OBVIOUS
  <2> QED  BY <1>2, <2>1, <2>2
<1>4. ASSUME NEW T \in SUBSET B, NEW x \in B \ T, Sum(f, A \union T) = Sum(f, A) + Sum(f, T)
      PROVE  Sum(f, A \union (T \union {x})) = Sum(f, A) + Sum(f, T \union {x})
  <2>1. /\ T \union {x} \in SUBSET B /\ x \notin T /\ x \notin A \union T
        /\ A \union (T \union {x}) = (A \union T) \union {x}
    OBVIOUS
  <2>2. /\ IsFiniteSet(T) /\ Weighs(f, T \union {x})
        /\ IsFiniteSet(A \union T) /\ Weighs(f, (A \union T) \union {x})
    BY <1>1, <2>1
  <2>3. /\ Sum(f, T \union {x}) = f[x] + Sum(f, T) /\ Sum(f, T) \in Int /\ f[x] \in Int
    BY <2>1, <2>2, SumMore
  <2>4. Sum(f, (A \union T) \union {x}) = f[x] + Sum(f, A \union T)
    BY <2>1, <2>2, SumMore
  <2>5. Sum(f, A \union (T \union {x})) = f[x] + (Sum(f, A) + Sum(f, T))
    BY <1>4, <2>1, <2>4
  <2> QED  BY <1>2, <2>3, <2>5
<1>5. B \in P
  <2>1. \A T \in SUBSET B : \A x \in B \ T : T \in P => T \union {x} \in P
    BY <1>4
  <2> HIDE DEF P
  <2> QED  BY <1>3, <2>1, OneByOne
<1> QED  BY <1>5

\* B is a family of disjoint sets, and f can be added up over each.
Parts(B, K, f) ==
  /\ \A k \in K : IsFiniteSet(B[k]) /\ Weighs(f, B[k])
  /\ \A j, k \in K : j # k => B[j] \intersect B[k] = {}

\* g has the sum of f over each of them.
PartSums(g, f, B, K) == \A k \in K : g[k] = Sum(f, B[k])

\* The sum over a family of disjoint sets is the sum of their sums.
LEMMA SumOfFamily ==
  ASSUME NEW K, IsFiniteSet(K), NEW B, NEW f, Parts(B, K, f), NEW g, PartSums(g, f, B, K)
  PROVE  Sum(f, UNION {B[k] : k \in K}) = Sum(g, K) /\ IsFiniteSet(UNION {B[k] : k \in K})
<1> DEFINE All(T) == UNION {B[k] : k \in T}
           P == {T \in SUBSET K : IsFiniteSet(All(T)) /\ Sum(f, All(T)) = Sum(g, T)}
<1>0. /\ \A k \in K : IsFiniteSet(B[k]) /\ Weighs(f, B[k]) /\ g[k] = Sum(f, B[k])
      /\ \A j, k \in K : j # k => B[j] \intersect B[k] = {}
  BY DEF Parts, PartSums
<1>1. \A T \in SUBSET K : IsFiniteSet(T) /\ Weighs(g, T) /\ Weighs(f, All(T))
  <2>1. \A k \in K : g[k] \in Int
    BY <1>0, SumRecursive
  <2> QED  BY <1>0, <2>1, FS_Subset DEF Weighs
<1>2. {} \in P
  <2>1. All({}) = {}
    OBVIOUS
  <2> HIDE DEF All
  <2>2. Sum(f, {}) = 0 /\ Sum(g, {}) = 0 /\ IsFiniteSet({})
    <3>1. Weighs(f, {}) /\ Weighs(g, {}) /\ IsFiniteSet({})
      BY FS_EmptySet DEF Weighs
    <3> QED  BY <3>1, SumRecursive
  <2> QED  BY <2>1, <2>2
<1>3. ASSUME NEW T \in SUBSET K, NEW x \in K \ T,
             IsFiniteSet(All(T)), Sum(f, All(T)) = Sum(g, T)
      PROVE  IsFiniteSet(All(T \union {x})) /\ Sum(f, All(T \union {x})) = Sum(g, T \union {x})
  <2>1. All(T \union {x}) = All(T) \union B[x] /\ All(T) \intersect B[x] = {}
    BY <1>0
  <2>2. T \union {x} \in SUBSET K /\ x \notin T
    OBVIOUS
  <2>3. IsFiniteSet(T) /\ Weighs(g, T \union {x}) /\ Weighs(f, All(T \union {x}))
    BY <1>1, <2>2
  <2> HIDE DEF All
  <2>4. IsFiniteSet(B[x]) /\ IsFiniteSet(All(T) \union B[x]) /\ Weighs(f, All(T) \union B[x])
    BY <1>0, <1>3, <2>1, <2>3, FS_Union
  <2>5. Sum(f, All(T) \union B[x]) = Sum(f, All(T)) + Sum(f, B[x])
    BY <1>3, <2>1, <2>4, SumOfTwo
  <2>6. Sum(g, T \union {x}) = g[x] + Sum(g, T) /\ Sum(g, T) \in Int /\ g[x] \in Int
    BY <2>2, <2>3, SumMore
  <2>7. g[x] = Sum(f, B[x])
    BY <1>0
  <2>8. Sum(f, All(T \union {x})) = Sum(g, T) + g[x]
    BY <1>3, <2>1, <2>5, <2>7
  <2>9. Sum(f, All(T \union {x})) = Sum(g, T \union {x})
    BY <2>6, <2>8
  <2>10. IsFiniteSet(All(T \union {x}))
    BY <2>1, <2>4
  <2> QED  BY <2>9, <2>10
<1>4. K \in P
  <2>1. \A T \in SUBSET K : \A x \in K \ T : T \in P => T \union {x} \in P
    <3> HIDE DEF All
    <3> QED  BY <1>3
  <2> HIDE DEF P, All
  <2> QED  BY <1>2, <2>1, OneByOne
<1> QED  BY <1>4

-----------------------------------------------------------------------------
(* What is reached along a function, and how far.                          *)

\* Rounds that only add to a set of groups come to an end within as many as there are groups.
LEMMA GrowthEnds ==
  ASSUME NEW R, \A n \in Nat : R[n] \subseteq Groups /\ R[n] \subseteq R[n + 1],
         \A n \in Nat : R[n] = R[n + 1] => R[n + 1] = R[(n + 1) + 1]
  PROVE  R[Cardinality(Groups)] = R[Cardinality(Groups) + 1]
<1> DEFINE N == Cardinality(Groups)
           Grown == {n \in Nat : R[n] = R[n + 1] \/ Cardinality(R[n]) >= n}
<1>1. N \in Nat
  BY IdsAssumption, FS_CardinalityType
<1>2. \A n \in Nat : IsFiniteSet(R[n]) /\ Cardinality(R[n]) \in Nat
  BY IdsAssumption, FS_Subset, FS_CardinalityType
<1>3. 0 \in Grown
  BY <1>2
<1>4. \A n \in Nat : n \in Grown => n + 1 \in Grown
  <2> SUFFICES ASSUME NEW n \in Nat, n \in Grown PROVE n + 1 \in Grown
    OBVIOUS
  <2>1. CASE R[n] = R[n + 1]
    BY <2>1
  <2>2. CASE R[n] # R[n + 1]
    <3>1. Cardinality(R[n]) <= Cardinality(R[n + 1]) /\ Cardinality(R[n]) # Cardinality(R[n + 1])
      BY <2>2, <1>2, FS_Subset
    <3> QED  BY <2>2, <3>1, <1>2
  <2> QED  BY <2>1, <2>2
<1>5. \A n \in Nat : n \in Grown
  <2> HIDE DEF Grown
  <2> QED  BY <1>3, <1>4, Successors
<1>6. R[N] = R[N + 1] \/ Cardinality(R[N]) >= N
  BY <1>1, <1>5
<1>7. CASE Cardinality(R[N]) >= N
  <2>1. R[N] \subseteq Groups /\ R[N + 1] \subseteq Groups /\ R[N] \subseteq R[N + 1]
    BY <1>1
  <2>2. Cardinality(R[N]) <= N /\ (Cardinality(R[N]) = N => R[N] = Groups)
    BY <2>1, IdsAssumption, FS_Subset
  <2>3. Cardinality(R[N]) = N
    BY <1>1, <1>2, <1>7, <2>2
  <2> QED  BY <2>1, <2>2, <2>3
<1> QED  BY <1>6, <1>7

\* What is reached from S has S, and all that its members lead to,
LEMMA FromIsClosed ==
  ASSUME NEW F, Leads(F), NEW S \in SUBSET Groups
  PROVE  /\ S \subseteq From(F, S) /\ From(F, S) \subseteq Groups
         /\ \A g \in From(F, S) : F[g] \subseteq From(F, S)
<1> DEFINE G == [g \in Groups |-> {g} \union F[g]]
           R == [n \in Nat |-> After(G, S, n)]
           N == Cardinality(Groups)
<1>1. Leads(G)
  BY DEF Leads
<1>2. /\ After(G, S, 0) = S
      /\ \A n \in Nat : /\ After(G, S, n) \subseteq Groups
                        /\ After(G, S, n + 1) = UNION {G[g] : g \in After(G, S, n)}
  <2> HIDE DEF G
  <2> QED  BY <1>1, AfterFacts
<1>3. /\ R[0] = S
      /\ \A n \in Nat : R[n] \subseteq Groups /\ R[n + 1] = UNION {G[g] : g \in R[n]}
  <2> HIDE DEF G
  <2> QED  BY <1>2
<1>4. N \in Nat /\ From(F, S) = R[N]
  BY IdsAssumption, FS_CardinalityType DEF From
<1> HIDE DEF R
<1>5. \A n \in Nat : R[n] \subseteq R[n + 1]
  BY <1>3
<1>6. \A n \in Nat : R[n] = R[n + 1] => R[n + 1] = R[(n + 1) + 1]
  <2> HIDE DEF G
  <2>1. \A n \in Nat : n + 1 \in Nat
    OBVIOUS
  <2> QED  BY <1>3, <2>1
<1>7. R[N] = R[N + 1]
  BY <1>3, <1>5, <1>6, GrowthEnds
<1>8. \A g \in R[N] : F[g] \subseteq R[N]
  BY <1>3, <1>4, <1>7
<1>9. S \subseteq R[N]
  <2> DEFINE Has == {n \in Nat : S \subseteq R[n]}
  <2>1. 0 \in Has /\ \A n \in Nat : n \in Has => n + 1 \in Has
    BY <1>3, <1>5
  <2>2. \A n \in Nat : n \in Has
    <3> HIDE DEF Has
    <3> QED  BY <2>1, Successors
  <2> QED  BY <1>4, <2>2
<1> QED  BY <1>3, <1>4, <1>8, <1>9

\* and nothing that another such set does not have.
LEMMA FromIsLeast ==
  ASSUME NEW F, Leads(F), NEW S \in SUBSET Groups, NEW T, S \subseteq T,
         \A g \in T \intersect Groups : F[g] \subseteq T
  PROVE  From(F, S) \subseteq T
<1> DEFINE G == [g \in Groups |-> {g} \union F[g]]
           In == {n \in Nat : After(G, S, n) \subseteq T}
<1>1. Leads(G)
  BY DEF Leads
<1>2. /\ After(G, S, 0) = S
      /\ \A n \in Nat : /\ After(G, S, n) \subseteq Groups
                        /\ After(G, S, n + 1) = UNION {G[g] : g \in After(G, S, n)}
  <2> HIDE DEF G
  <2> QED  BY <1>1, AfterFacts
<1>3. 0 \in In
  BY <1>2
<1>4. \A n \in Nat : n \in In => n + 1 \in In
  BY <1>2
<1>5. \A n \in Nat : n \in In
  <2> HIDE DEF In
  <2> QED  BY <1>3, <1>4, Successors
<1>6. Cardinality(Groups) \in Nat
  BY IdsAssumption, FS_CardinalityType
<1> QED  BY <1>5, <1>6 DEF From

\* n steps along F.
IsWalk(F, walk, n) ==
  walk \in [0 .. n -> Groups] /\ \A i \in 1 .. n : walk[i] \in F[walk[i - 1]]

\* Where n steps lead is the end of a walk of n steps, and the other way round.
LEMMA WalksLead ==
  ASSUME NEW F, Leads(F), NEW g \in Groups
  PROVE  \A n \in Nat : \A x \in Groups :
           x \in After(F, {g}, n) <=> \E w : IsWalk(F, w, n) /\ w[0] = g /\ w[n] = x
<1> DEFINE Ends(n) == {x \in Groups : \E w : IsWalk(F, w, n) /\ w[0] = g /\ w[n] = x}
           Right == {n \in Nat : After(F, {g}, n) = Ends(n)}
<1>1. /\ After(F, {g}, 0) = {g}
      /\ \A n \in Nat : /\ After(F, {g}, n) \subseteq Groups
                        /\ After(F, {g}, n + 1) = UNION {F[h] : h \in After(F, {g}, n)}
  <2>1. {g} \in SUBSET Groups
    OBVIOUS
  <2> QED  BY <2>1, AfterFacts
<1>2. 0 \in Right
  <2>1. IsWalk(F, [k \in 0 .. 0 |-> g], 0) /\ [k \in 0 .. 0 |-> g][0] = g
    BY DEF IsWalk
  <2>2. Ends(0) = {g}
    BY <2>1
  <2> QED  BY <1>1, <2>2
<1>3. ASSUME NEW n \in Nat, After(F, {g}, n) = Ends(n)
      PROVE  After(F, {g}, n + 1) = Ends(n + 1)
  <2>1. ASSUME NEW h \in Ends(n), NEW x \in F[h] PROVE x \in Ends(n + 1)
    <3>1. PICK w : IsWalk(F, w, n) /\ w[0] = g /\ w[n] = h
      OBVIOUS
    <3>2. h \in Groups /\ x \in Groups
      BY <2>1 DEF Leads
    <3> DEFINE v == [k \in 0 .. n + 1 |-> IF k <= n THEN w[k] ELSE x]
    <3>3. /\ v \in [0 .. n + 1 -> Groups] /\ v[0] = g /\ v[n] = h /\ v[n + 1] = x
          /\ \A k \in 0 .. n : v[k] = w[k]
      BY <3>1, <3>2 DEF IsWalk
    <3> HIDE DEF v
    <3>4. ASSUME NEW i \in 1 .. n + 1 PROVE v[i] \in F[v[i - 1]]
      <4>1. CASE i = n + 1
        BY <4>1, <3>3, <2>1
      <4>2. CASE i # n + 1
        <5>1. i \in 1 .. n /\ i \in 0 .. n /\ i - 1 \in 0 .. n
          BY <4>2
        <5> QED  BY <5>1, <3>1, <3>3 DEF IsWalk
      <4> QED  BY <4>1, <4>2
    <3>5. IsWalk(F, v, n + 1)
      BY <3>3, <3>4 DEF IsWalk
    <3> QED  BY <3>2, <3>3, <3>5
  <2>2. ASSUME NEW x \in Ends(n + 1) PROVE \E h \in Ends(n) : x \in F[h]
    <3>1. PICK w : IsWalk(F, w, n + 1) /\ w[0] = g /\ w[n + 1] = x
      BY <2>2
    <3> DEFINE v == [k \in 0 .. n |-> w[k]]
    <3>2. IsWalk(F, v, n) /\ v[0] = g /\ v[n] = w[n]
      BY <3>1 DEF IsWalk
    <3>3. w[n] \in Groups /\ x \in F[w[n]]
      <4>1. n + 1 \in 1 .. n + 1 /\ (n + 1) - 1 = n /\ n \in 0 .. n + 1
        OBVIOUS
      <4> QED  BY <3>1, <4>1 DEF IsWalk
    <3> HIDE DEF v
    <3> QED  BY <3>2, <3>3
  <2> HIDE DEF Ends
  <2>3. After(F, {g}, n + 1) = UNION {F[h] : h \in After(F, {g}, n)}
    BY <1>1
  <2>4. \A x : x \in After(F, {g}, n + 1) <=> \E h \in Ends(n) : x \in F[h]
    BY <1>3, <2>3
  <2> QED  BY <2>1, <2>2, <2>4
<1>4. \A n \in Nat : n \in Right
  <2>1. \A n \in Nat : n \in Right => n + 1 \in Right
    <3> HIDE DEF Ends
    <3> QED  BY <1>3
  <2> HIDE DEF Right
  <2> QED  BY <1>2, <2>1, Successors
<1> QED  BY <1>4

\* A walk of n steps shows a path of n + 1 groups; without one of MaxDepth steps no path is
\* longer than the limit.
LEMMA WalksCount ==
  ASSUME NEW F, Leads(F), NEW g \in Groups
  PROVE  /\ Longest(F, g) \in Nat
         /\ \A n \in 0 .. MaxDepth : \A w : IsWalk(F, w, n) /\ w[0] = g => Longest(F, g) >= n + 1
         /\ (~ \E w : IsWalk(F, w, MaxDepth) /\ w[0] = g) => Longest(F, g) <= MaxDepth
<1> DEFINE Ns == {n \in 0 .. MaxDepth : After(F, {g}, n) # {}}
<1>1. Longest(F, g) = Cardinality(Ns)
  BY DEF Longest
<1>2. IsFiniteSet(0 .. MaxDepth) /\ MaxDepth \in Nat
  BY DepthAssumption, FS_Interval
<1>3. IsFiniteSet(Ns) /\ Cardinality(Ns) \in Nat
  <2>1. Ns \subseteq 0 .. MaxDepth
    OBVIOUS
  <2> HIDE DEF Ns
  <2> QED  BY <1>2, <2>1, FS_Subset, FS_CardinalityType
<1>4. \A n \in 0 .. MaxDepth : n \in Ns <=> \E w : IsWalk(F, w, n) /\ w[0] = g
  <2> SUFFICES ASSUME NEW n \in 0 .. MaxDepth
               PROVE  n \in Ns <=> \E w : IsWalk(F, w, n) /\ w[0] = g
    OBVIOUS
  <2>1. n \in Nat /\ After(F, {g}, n) \subseteq Groups
    <3>1. {g} \in SUBSET Groups
      OBVIOUS
    <3>2. n \in Nat
      BY <1>2
    <3>3. \A m \in Nat : After(F, {g}, m) \subseteq Groups
      BY <3>1, AfterFacts
    <3> QED  BY <3>2, <3>3
  <2>2. \A w : IsWalk(F, w, n) => w[n] \in Groups
    BY <2>1 DEF IsWalk
  <2>3. \A x \in Groups :
          x \in After(F, {g}, n) <=> \E w : IsWalk(F, w, n) /\ w[0] = g /\ w[n] = x
    BY <2>1, WalksLead
  <2> QED  BY <2>1, <2>2, <2>3
<1> HIDE DEF Ns
<1>5. ASSUME NEW n \in 0 .. MaxDepth, NEW w, IsWalk(F, w, n), w[0] = g
      PROVE  Cardinality(Ns) >= n + 1
  <2>1. ASSUME NEW m \in 0 .. n PROVE m \in Ns
    <3> DEFINE v == [k \in 0 .. m |-> w[k]]
    <3>1. n \in Nat /\ m \in Nat /\ m <= n /\ m \in 0 .. MaxDepth
      BY <1>2
    <3>2. IsWalk(F, v, m) /\ v[0] = g
      BY <1>5, <3>1 DEF IsWalk
    <3> HIDE DEF v
    <3> QED  BY <3>1, <3>2, <1>4
  <2>2. 0 .. n \subseteq Ns /\ n \in Nat
    BY <2>1, <1>2
  <2>3. Cardinality(0 .. n) = n + 1
    BY <2>2, FS_Interval
  <2>4. Cardinality(0 .. n) <= Cardinality(Ns)
    BY <2>2, <1>3, FS_Subset
  <2> QED  BY <2>3, <2>4
<1>6. ASSUME ~ \E w : IsWalk(F, w, MaxDepth) /\ w[0] = g
      PROVE  Cardinality(Ns) <= MaxDepth
  <2>1. MaxDepth \notin Ns /\ Ns \subseteq 0 .. MaxDepth
    BY <1>2, <1>4, <1>6 DEF Ns
  <2>2. Ns \subseteq 0 .. MaxDepth - 1
    BY <1>2, <2>1
  <2>3. IsFiniteSet(0 .. MaxDepth - 1) /\ Cardinality(0 .. MaxDepth - 1) = MaxDepth
    BY DepthAssumption, FS_Interval
  <2>4. Cardinality(Ns) <= Cardinality(0 .. MaxDepth - 1)
    BY <2>2, <2>3, FS_Subset
  <2> QED  BY <2>3, <2>4
<1> QED  BY <1>1, <1>3, <1>5, <1>6

-----------------------------------------------------------------------------
(* The hierarchy is a forest of bounded depth.                             *)

Acyclic == \A g \in Groups : g \notin From(Children, Children[g])

\* No walk downwards has as many steps as a path may have groups.
Shallow == ~ \E w : IsWalk(Children, w, MaxDepth)

HInv == GInv /\ Acyclic /\ Shallow

\* The DAG and the reverse index are the hierarchy and its inverse.
LEMMA Directions ==
  ASSUME GInv
  PROVE  /\ Leads(Children) /\ edges = Children /\ Leads(memberToGroups)
         /\ \A g, c \in Groups : c \in Children[g] => g \in memberToGroups[c]
<1>1. PoolTyped
  BY DEF GInv
<1>2. Leads(Children) /\ Children \in [Groups -> SUBSET Groups]
  BY <1>1 DEF PoolTyped, Children, Leads
<1>3. Leads(memberToGroups)
  BY <1>1 DEF PoolTyped, Leads, Ids
<1>4. ASSUME NEW g \in Groups PROVE edges[g] = Children[g]
  <2>1. CASE g \in groups
    BY <2>1, <1>1, IdsAssumption DEF GInv, OneHierarchy, IndexAgrees, Children, PoolTyped
  <2>2. CASE g \notin groups
    BY <2>2 DEF GInv, OneHierarchy, UndefinedIsEmpty, Children
  <2> QED  BY <2>1, <2>2
<1>5. edges = Children
  BY <1>1, <1>2, <1>4 DEF PoolTyped
<1>6. ASSUME NEW g \in Groups, NEW c \in Groups, c \in Children[g] PROVE g \in memberToGroups[c]
  <2>1. c \in members[g] /\ c \in Ids
    BY <1>6 DEF Children, Ids
  <2>2. g \in groups
    BY <2>1 DEF GInv, UndefinedIsEmpty
  <2> QED  BY <2>1, <2>2 DEF GInv, IndexAgrees, Listing
<1> QED  BY <1>2, <1>3, <1>5, <1>6

LEMMA NewLeads ==
  ASSUME GInv'
  PROVE  Leads(Children')
<1>1. PoolTyped'
  BY DEF GInv
<1>2. \A g \in Groups : Children'[g] = members'[g] \intersect groups'
  BY DEF Children
<1> QED  BY <1>1, <1>2 DEF PoolTyped, Leads

\* A step that gives no group a new child.
LEMMA LessStaysForest ==
  ASSUME HInv, GInv', \A g \in Groups : Children'[g] \subseteq Children[g]
  PROVE  HInv'
<1>1. Leads(Children) /\ Leads(Children')
  BY Directions, NewLeads DEF HInv
<1>2. Acyclic'
  <2> SUFFICES ASSUME NEW g \in Groups PROVE g \notin From(Children', Children'[g])
    BY DEF Acyclic
  <2> DEFINE T == From(Children, Children[g])
  <2>1. Children[g] \in SUBSET Groups /\ Children'[g] \in SUBSET Groups
    BY <1>1 DEF Leads
  <2>2. Children[g] \subseteq T /\ \A h \in T : Children[h] \subseteq T
    BY <1>1, <2>1, FromIsClosed
  <2>3. g \notin T
    BY DEF HInv, Acyclic
  <2> HIDE DEF T
  <2>4. Children'[g] \subseteq T /\ \A h \in T \intersect Groups : Children'[h] \subseteq T
    BY <2>2
  <2>5. From(Children', Children'[g]) \subseteq T
    BY <1>1, <2>1, <2>4, FromIsLeast
  <2> QED  BY <2>3, <2>5
<1>3. Shallow'
  <2> SUFFICES ASSUME NEW w, IsWalk(Children', w, MaxDepth) PROVE FALSE
    BY DEF Shallow
  <2>1. ASSUME NEW i \in 1 .. MaxDepth PROVE w[i] \in Children[w[i - 1]]
    <3>1. i - 1 \in 0 .. MaxDepth
      BY DepthAssumption
    <3> QED  BY <3>1 DEF IsWalk
  <2> QED  BY <2>1 DEF IsWalk, HInv, Shallow
<1> QED  BY <1>2, <1>3 DEF HInv

\* A step that puts c below p, when neither a cycle nor too long a path would come of it.
LEMMA NewChildStaysForest ==
  ASSUME HInv, GInv', NEW p \in Groups, NEW c \in Groups,
         ~ WouldCreateCycle(p, c), ~ WouldExceedHierarchyDepth(p, c),
         \A g \in Groups : Children'[g] \subseteq Children[g] \union (IF g = p THEN {c} ELSE {})
  PROVE  HInv'
<1> DEFINE D == From(Children, {c})
<1>1. Leads(Children) /\ Leads(Children') /\ edges = Children /\ Leads(memberToGroups)
  BY Directions, NewLeads DEF HInv
<1>2. {c} \in SUBSET Groups
  OBVIOUS
<1>3. c \in D /\ D \subseteq Groups /\ \A g \in D : Children[g] \subseteq D
  BY <1>1, <1>2, FromIsClosed
<1>4. p \notin D /\ p # c
  BY <1>1 DEF WouldCreateCycle
<1> HIDE DEF D
<1>5. \A g \in D : Children'[g] \subseteq D /\ Children'[g] \subseteq Children[g]
  BY <1>3, <1>4
<1>6. Acyclic'
  <2> SUFFICES ASSUME NEW g \in Groups PROVE g \notin From(Children', Children'[g])
    BY DEF Acyclic
  <2> DEFINE B == From(Children, Children[g])
  <2>1. Children[g] \in SUBSET Groups /\ Children'[g] \in SUBSET Groups
    BY <1>1 DEF Leads
  <2>2. Children[g] \subseteq B /\ \A h \in B : Children[h] \subseteq B
    BY <1>1, <2>1, FromIsClosed
  <2>3. g \notin B
    BY DEF HInv, Acyclic
  <2>4. g \in D => B \subseteq D
    <3>1. ASSUME g \in D PROVE Children[g] \subseteq D /\ \A h \in D \intersect Groups : Children[h] \subseteq D
      BY <3>1, <1>3
    <3> QED  BY <3>1, <1>1, <2>1, FromIsLeast
  <2> HIDE DEF B
  <2>5. CASE g \in D
    <3>1. Children'[g] \subseteq B \intersect D
      BY <2>5, <1>3, <1>5, <2>2
    <3>2. \A h \in (B \intersect D) \intersect Groups : Children'[h] \subseteq B \intersect D
      BY <1>5, <2>2
    <3>3. From(Children', Children'[g]) \subseteq B \intersect D
      BY <1>1, <2>1, <3>1, <3>2, FromIsLeast
    <3> QED  BY <2>3, <3>3
  <2>6. CASE g \notin D
    <3>1. Children'[g] \subseteq B \union D
      BY <1>3, <2>2
    <3>2. \A h \in (B \union D) \intersect Groups : Children'[h] \subseteq B \union D
      BY <1>3, <1>5, <2>2
    <3>3. From(Children', Children'[g]) \subseteq B \union D
      BY <1>1, <2>1, <3>1, <3>2, FromIsLeast
    <3> QED  BY <2>3, <2>6, <3>3
  <2> QED  BY <2>5, <2>6
<1>7. Shallow'
  <2> SUFFICES ASSUME NEW w, IsWalk(Children', w, MaxDepth) PROVE FALSE
    BY DEF Shallow
  <2>1. MaxDepth \in Nat /\ MaxDepth > 0
    BY DepthAssumption
  <2>2. /\ w \in [0 .. MaxDepth -> Groups]
        /\ \A i \in 1 .. MaxDepth : w[i] \in Children'[w[i - 1]] /\ w[i - 1] \in Groups /\ w[i] \in Groups
    <3>1. \A i \in 1 .. MaxDepth : i - 1 \in 0 .. MaxDepth /\ i \in 0 .. MaxDepth
      BY <2>1
    <3> QED  BY <3>1 DEF IsWalk
  \* Below c the walk stays below c.
  <2>3. ASSUME NEW i \in 0 .. MaxDepth, w[i] \in D
        PROVE  \A k \in i .. MaxDepth : w[k] \in D
    <3> DEFINE In == {n \in Nat : i + n <= MaxDepth => w[i + n] \in D}
    <3>1. i \in Nat
      OBVIOUS
    <3>2. 0 \in In
      BY <2>3, <3>1
    <3>3. \A n \in Nat : n \in In => n + 1 \in In
      <4> SUFFICES ASSUME NEW n \in Nat, n \in In, i + (n + 1) <= MaxDepth
                   PROVE  w[i + (n + 1)] \in D
        OBVIOUS
      <4>1. i + (n + 1) \in 1 .. MaxDepth /\ (i + (n + 1)) - 1 = i + n /\ i + n <= MaxDepth
        BY <3>1, <2>1
      <4>2. w[i + n] \in D
        BY <4>1
      <4>3. w[i + (n + 1)] \in Children'[w[i + n]]
        BY <4>1, <2>2
      <4> QED  BY <4>2, <4>3, <1>5
    <3>4. \A n \in Nat : n \in In
      <4> HIDE DEF In
      <4> QED  BY <3>2, <3>3, Successors
    <3>5. \A k \in i .. MaxDepth : k - i \in Nat /\ i + (k - i) = k /\ k <= MaxDepth
      BY <3>1, <2>1
    <3> QED  BY <3>4, <3>5
  <2>4. PICK i \in 1 .. MaxDepth : w[i - 1] = p /\ w[i] = c
    <3> SUFFICES ASSUME \A i \in 1 .. MaxDepth : ~ (w[i - 1] = p /\ w[i] = c) PROVE FALSE
      OBVIOUS
    <3>1. \A i \in 1 .. MaxDepth : w[i] \in Children[w[i - 1]]
      BY <2>2
    <3> QED  BY <2>2, <3>1 DEF HInv, Shallow, IsWalk
  <2>5. /\ i \in Nat /\ i >= 1 /\ i <= MaxDepth /\ i - 1 \in Nat /\ MaxDepth - i \in Nat
        /\ i \in 0 .. MaxDepth
    BY <2>1, <2>4
  <2>6. \A k \in i .. MaxDepth : w[k] \in D
    BY <2>3, <2>4, <2>5, <1>3
  \* Before it comes to p it is not there.
  <2>7. \A k \in 0 .. i - 1 : w[k] \notin D
    <3> SUFFICES ASSUME NEW k \in 0 .. i - 1, w[k] \in D PROVE FALSE
      OBVIOUS
    <3>1. k \in 0 .. MaxDepth /\ i - 1 \in k .. MaxDepth
      BY <2>1, <2>5
    <3>2. w[i - 1] \in D
      BY <3>1, <2>3
    <3> QED  BY <3>2, <2>4, <1>4
  \* Upwards from p there are as many groups as before it, downwards from c as many as after.
  <2>8. Longest(memberToGroups, p) >= i
    <3> DEFINE v == [k \in 0 .. i - 1 |-> w[(i - 1) - k]]
    <3>1. v[0] = p /\ v \in [0 .. i - 1 -> Groups]
      <4>1. \A k \in 0 .. i - 1 : (i - 1) - k \in 0 .. MaxDepth
        BY <2>1, <2>5
      <4>2. 0 \in 0 .. i - 1 /\ (i - 1) - 0 = i - 1
        BY <2>1, <2>5
      <4> QED  BY <4>1, <4>2, <2>2, <2>4
    <3>2. ASSUME NEW k \in 1 .. i - 1 PROVE v[k] \in memberToGroups[v[k - 1]]
      <4>1. /\ i - k \in 1 .. MaxDepth /\ (i - k) - 1 = (i - 1) - k /\ (i - 1) - (k - 1) = i - k
            /\ k - 1 \in 0 .. i - 1 /\ k \in 0 .. i - 1 /\ i - k \in 0 .. i - 1
        BY <2>1, <2>5
      <4>2. v[k] = w[(i - k) - 1] /\ v[k - 1] = w[i - k]
        BY <4>1
      <4>3. w[i - k] \in Children'[w[(i - k) - 1]] /\ w[i - k] \in Groups /\ w[(i - k) - 1] \in Groups
        BY <4>1, <2>2
      <4>4. w[i - k] # c
        BY <4>1, <2>7, <1>3
      <4>5. w[i - k] \in Children[w[(i - k) - 1]]
        BY <4>3, <4>4
      <4> HIDE DEF v
      <4> QED  BY <4>2, <4>3, <4>5, Directions DEF HInv
    <3> HIDE DEF v
    <3>3. IsWalk(memberToGroups, v, i - 1)
      BY <3>1, <3>2 DEF IsWalk
    <3>4. i - 1 \in 0 .. MaxDepth
      BY <2>1, <2>5
    <3>5. Longest(memberToGroups, p) >= (i - 1) + 1
      BY <3>1, <3>3, <3>4, <1>1, WalksCount
    <3> QED  BY <3>5, <2>5
  <2>9. Longest(Children, c) >= (MaxDepth - i) + 1
    <3> DEFINE v == [k \in 0 .. MaxDepth - i |-> w[i + k]]
    <3>1. v[0] = c /\ v \in [0 .. MaxDepth - i -> Groups]
      <4>1. \A k \in 0 .. MaxDepth - i : i + k \in 0 .. MaxDepth
        BY <2>1, <2>5
      <4>2. 0 \in 0 .. MaxDepth - i /\ i + 0 = i
        BY <2>1, <2>5
      <4> QED  BY <4>1, <4>2, <2>2, <2>4
    <3>2. ASSUME NEW k \in 1 .. MaxDepth - i PROVE v[k] \in Children[v[k - 1]]
      <4>1. /\ i + k \in 1 .. MaxDepth /\ (i + k) - 1 = i + (k - 1) /\ i + (k - 1) \in i .. MaxDepth
            /\ k - 1 \in 0 .. MaxDepth - i /\ k \in 0 .. MaxDepth - i
        BY <2>1, <2>5
      <4>2. v[k] = w[i + k] /\ v[k - 1] = w[i + (k - 1)]
        BY <4>1
      <4>3. w[i + k] \in Children'[w[i + (k - 1)]] /\ w[i + (k - 1)] \in D
        BY <4>1, <2>2, <2>6
      <4> QED  BY <4>2, <4>3, <1>5
    <3> HIDE DEF v
    <3>3. IsWalk(Children, v, MaxDepth - i)
      BY <3>1, <3>2 DEF IsWalk
    <3>4. MaxDepth - i \in 0 .. MaxDepth
      BY <2>1, <2>5
    <3> QED  BY <3>1, <3>3, <3>4, <1>1, WalksCount
  <2>10. Longest(memberToGroups, p) \in Nat /\ Longest(Children, c) \in Nat
    BY <1>1, WalksCount
  <2> QED  BY <2>1, <2>5, <2>8, <2>9, <2>10 DEF WouldExceedHierarchyDepth
<1> QED  BY <1>6, <1>7 DEF HInv

LEMMA HStarts == Init => HInv
<1> SUFFICES ASSUME Init PROVE HInv
  OBVIOUS
<1>1. GInv
  BY GStarts
<1>2. \A g \in Groups : Children[g] = {}
  BY DEF Init, Children
<1>3. Leads(Children)
  BY <1>1, Directions
<1>4. Acyclic
  <2> SUFFICES ASSUME NEW g \in Groups PROVE g \notin From(Children, {})
    BY <1>2 DEF Acyclic
  <2>1. \A h \in {} \intersect Groups : Children[h] \subseteq {}
    OBVIOUS
  <2>2. {} \in SUBSET Groups /\ {} \subseteq {}
    OBVIOUS
  <2>3. From(Children, {}) \subseteq {}
    BY <1>3, <2>1, <2>2, FromIsLeast
  <2> QED  BY <2>3
<1>5. Shallow
  <2> SUFFICES ASSUME NEW w, IsWalk(Children, w, MaxDepth) PROVE FALSE
    BY DEF Shallow
  <2>1. 1 \in 1 .. MaxDepth /\ 1 - 1 \in 0 .. MaxDepth
    BY DepthAssumption
  <2> QED  BY <1>2, <2>1 DEF IsWalk
<1> QED  BY <1>1, <1>4, <1>5 DEF HInv

LEMMA HKept == HInv /\ [Next]_vars => HInv'
<1> SUFFICES ASSUME HInv, [Next]_vars PROVE HInv'
  OBVIOUS
<1> USE DEF poolVars
<1>0. GInv /\ GInv' /\ PoolTyped
  BY GKept DEF HInv, GInv
<1>1. CASE UNCHANGED <<groups, members>>
  BY <1>0, <1>1, LessStaysForest DEF Children
<1>2. CASE EnvStep \/ UNCHANGED vars
  BY <1>1, <1>2 DEF EnvStep, InitializeObject, UpdateObjectState, RemoveObjectState,
     InitializeGroup, GetGroupState, InvalidateNext, ComputeMember, ComputeDone, vars
<1>3. ASSUME NEW o \in Objects, CreateObject(o) PROVE HInv'
  BY <1>1, <1>3 DEF CreateObject
<1>4. ASSUME NEW o \in Objects, DeleteObject(o) PROVE HInv'
  BY <1>0, <1>4, LessStaysForest DEF DeleteObject, LeaveAll, Children
<1>5. ASSUME NEW g \in Groups, DeleteGroup(g) PROVE HInv'
  BY <1>0, <1>5, LessStaysForest DEF DeleteGroup, LeaveAll, Children
<1>6. ASSUME NEW g \in Groups, NEW o \in Objects, AddObjectMember(g, o) PROVE HInv'
  <2>1. o \notin groups /\ groups' = groups /\ members' = [members EXCEPT ![g] = @ \union {o}]
    BY <1>0, <1>6, IdsAssumption DEF AddObjectMember, AddMember, PoolTyped
  <2>2. \A h \in Groups : Children'[h] = Children[h]
    BY <1>0, <2>1 DEF Children, PoolTyped
  <2> QED  BY <1>0, <2>2, LessStaysForest
<1>7. ASSUME NEW g \in Groups, NEW c \in Groups, AddGroupMember(g, c) PROVE HInv'
  <2>1. groups' = groups /\ members' = [members EXCEPT ![g] = @ \union {c}]
    BY <1>7 DEF AddGroupMember, AddMember
  <2>2. \A h \in Groups : Children'[h] \subseteq Children[h] \union (IF h = g THEN {c} ELSE {})
    BY <1>0, <2>1 DEF Children, PoolTyped
  <2> QED  BY <1>0, <1>7, <2>2, NewChildStaysForest DEF AddGroupMember
<1>8. ASSUME NEW g \in Groups, NEW m \in Ids, RemoveGroupMember(g, m) PROVE HInv'
  <2>1. groups' = groups /\ members' = [members EXCEPT ![g] = @ \ {m}]
    BY <1>8 DEF RemoveGroupMember
  <2>2. \A h \in Groups : Children'[h] \subseteq Children[h]
    BY <1>0, <2>1 DEF Children, PoolTyped
  <2> QED  BY <1>0, <2>2, LessStaysForest
<1>9. ASSUME NEW g \in Groups, NEW p \in Groups \union {None}, CreateGroup(g, p) PROVE HInv'
  <2>1. groups' = groups \union {g} /\ \A h \in Groups : g \notin members[h]
    <3>1. g \notin objects \union groups /\ g \in Ids
      BY <1>0, <1>9, IdsAssumption DEF CreateGroup, PoolTyped, Ids
    <3> QED  BY <1>0, <1>9, <3>1, UndefinedIsUnlisted DEF CreateGroup
  <2>2. CASE p = None
    <3>1. members' = members
      BY <1>9, <2>2, IdsAssumption, <1>0 DEF CreateGroup, PoolTyped
    <3>2. \A h \in Groups : Children'[h] = Children[h]
      BY <2>1, <3>1 DEF Children
    <3> QED  BY <1>0, <3>2, LessStaysForest
  <2>3. CASE p # None
    <3>1. /\ p \in Groups /\ ~ WouldCreateCycle(p, g) /\ ~ WouldExceedHierarchyDepth(p, g)
          /\ members' = [members EXCEPT ![p] = @ \union {g}]
      BY <1>9, <2>3 DEF CreateGroup, AddMember
    <3>2. \A h \in Groups : Children'[h] \subseteq Children[h] \union (IF h = p THEN {g} ELSE {})
      BY <1>0, <2>1, <3>1 DEF Children, PoolTyped
    <3> QED  BY <1>0, <3>1, <3>2, NewChildStaysForest
  <2> QED  BY <2>2, <2>3
<1>10. ASSUME NEW g \in Lockable,
              LockGroup(g) \/ UnlockGroup(g) \/ LockGroupHierarchy(g) \/ UnlockGroupHierarchy(g)
       PROVE  HInv'
  BY <1>1, <1>10 DEF LockGroup, UnlockGroup, LockGroupHierarchy, UnlockGroupHierarchy, SetLock
<1>11. CASE PoolStep
  BY <1>11, <1>3, <1>4, <1>5, <1>6, <1>7, <1>8, <1>9, <1>10 DEF PoolStep
<1> QED  BY <1>2, <1>11 DEF Next

\* For any groups and any depth limit, however subtrees are built apart and attached: no
\* group is below itself and no chain of groups is longer than the limit.
THEOREM GroupsAreForest == Spec => []HierarchyIsForest
<1>1. Init => HInv
  BY HStarts
<1>2. HInv /\ [Next]_vars => HInv'
  BY HKept
<1>3. HInv => HierarchyIsForest
  <2> SUFFICES ASSUME HInv PROVE HierarchyIsForest
    OBVIOUS
  <2>1. Leads(Children) /\ OneHierarchy
    BY Directions DEF HInv, GInv
  <2>2. ASSUME NEW g \in Groups PROVE Longest(Children, g) <= MaxDepth
    <3>1. ~ \E w : IsWalk(Children, w, MaxDepth) /\ w[0] = g
      BY DEF HInv, Shallow
    <3> QED  BY <2>1, <3>1, WalksCount
  <2> QED  BY <2>1, <2>2 DEF HInv, Acyclic, HierarchyIsForest
<1> QED  BY <1>1, <1>2, <1>3, PTL DEF Spec

-----------------------------------------------------------------------------
(* The environment.                                                        *)

\* What is computed for the member list M from the states val and the aggregates ca.
Aggregate(M, val, ca) ==
  LET objs == {o \in M \intersect Objects : val[o] # None}
      subs == M \intersect {g \in Groups : ca[g] # None}
  IN  [count |-> Cardinality(objs) + Sum([g \in subs |-> ca[g].count], subs),
       sum   |-> Sum(val, objs) + Sum([g \in subs |-> ca[g].sum], subs)]

Coordinates == [Objects -> Values \union {None}]

\* A group being computed, with its member list as it was when it was looked up.
Frames == [id : Groups, list : SUBSET Ids]

EnvTyped ==
  /\ value \in Coordinates
  /\ cache \in [Groups -> {None, Invalid} \union Aggregates]
  /\ op \in [kind : {"idle", "invalidate", "compute"}, queue : SUBSET Ids,
             visited : SUBSET Groups, stack : Seq(Frames)]
  /\ op.kind = "idle" => op = Idle
  /\ op.kind = "invalidate" => op.stack = << >>
  /\ op.kind = "compute" => op.stack # << >>
  /\ regrouped \subseteq Valid \union Computing
  /\ locked \subseteq groups

\* A group that has been met by an invalidation has no aggregate.
VisitedIsInvalid == op.kind = "invalidate" => op.visited \intersect Valid = {}

\* A group being computed has no aggregate, is met once, and what was looked up is its
\* member list unless that has been changed.
ComputedAgrees ==
  op.kind = "compute" =>
    /\ \A k \in DOMAIN op.stack :
         /\ cache[op.stack[k].id] = Invalid
         /\ op.stack[k].id \notin regrouped => op.stack[k].list = members[op.stack[k].id]
    /\ \A j, k \in DOMAIN op.stack : op.stack[j].id = op.stack[k].id => j = k

\* The aggregate of g is what would be computed now, from aggregates that are.
Sound(g) ==
  /\ cache[g] = Aggregate(members[g], value, cache)
  /\ members[g] \intersect Initialized \subseteq Valid \ regrouped

\* While an invalidation is under way one that is not is about to be met.
SoundOrNext ==
  \A g \in Valid \ regrouped :
    Sound(g) \/ (op.kind = "invalidate" /\ members[g] \intersect op.queue # {})

EInv == EnvTyped /\ VisitedIsInvalid /\ ComputedAgrees /\ SoundOrNext

\* What is on the stack of a computation.
LEMMA StackFacts ==
  ASSUME EnvTyped
  PROVE  /\ op.stack \in Seq(Frames) /\ Len(op.stack) \in Nat /\ DOMAIN op.stack = 1 .. Len(op.stack)
         /\ \A k \in DOMAIN op.stack : op.stack[k].id \in Groups /\ op.stack[k].list \subseteq Ids
<1>1. op.stack \in Seq(Frames)
  BY DEF EnvTyped
<1>2. /\ Len(op.stack) \in Nat /\ DOMAIN op.stack = 1 .. Len(op.stack)
      /\ \A k \in DOMAIN op.stack : op.stack[k] \in Frames
  BY <1>1
<1> QED  BY <1>1, <1>2 DEF Frames

LEMMA AggregateOfIs == \A M : AggregateOf(M) = Aggregate(M, value, cache)
BY DEF AggregateOf, Aggregate, Initialized

LEMMA CoordinatesWeigh ==
  ASSUME NEW val \in Coordinates, NEW S, S \subseteq {o \in Objects : val[o] # None}
  PROVE  IsFiniteSet(S) /\ Weighs(val, S) /\ \A o \in S : val[o] \in Nat
<1>1. IsFiniteSet(S)
  BY IdsAssumption, FS_Subset
<1>2. \A o \in S : val[o] \in Nat
  BY ValuesAssumption DEF Coordinates
<1> QED  BY <1>1, <1>2 DEF Weighs

Same(f, g, S) == \A x \in S : f[x] = g[x]

\* What is computed depends on the states and aggregates of the members alone.
LEMMA AggregateSame ==
  ASSUME NEW M, NEW val \in Coordinates, NEW wal \in Coordinates, NEW ca, NEW da,
         Same(val, wal, M \intersect Objects), Same(ca, da, M \intersect Groups)
  PROVE  Aggregate(M, val, ca) = Aggregate(M, wal, da)
<1> DEFINE objs == {o \in M \intersect Objects : val[o] # None}
           subs == M \intersect {g \in Groups : ca[g] # None}
<1>1. /\ objs = {o \in M \intersect Objects : wal[o] # None}
      /\ subs = M \intersect {g \in Groups : da[g] # None}
  BY DEF Same
<1>2. /\ [g \in subs |-> ca[g].count] = [g \in subs |-> da[g].count]
      /\ [g \in subs |-> ca[g].sum] = [g \in subs |-> da[g].sum]
  BY DEF Same
<1>3. Sum(val, objs) = Sum(wal, objs)
  <2>1. IsFiniteSet(objs) /\ Weighs(val, objs)
    <3>1. objs \subseteq {o \in Objects : val[o] # None}
      OBVIOUS
    <3> QED  BY <3>1, CoordinatesWeigh
  <2>2. \A o \in objs : wal[o] = val[o]
    BY DEF Same
  <2> HIDE DEF objs
  <2> QED  BY <2>1, <2>2, SumAgrees
<1>4. Aggregate(M, val, ca) =
        [count |-> Cardinality(objs) + Sum([g \in subs |-> ca[g].count], subs),
         sum   |-> Sum(val, objs) + Sum([g \in subs |-> ca[g].sum], subs)]
  BY DEF Aggregate
<1>5. Aggregate(M, wal, da) =
        [count |-> Cardinality(objs) + Sum([g \in subs |-> da[g].count], subs),
         sum   |-> Sum(wal, objs) + Sum([g \in subs |-> da[g].sum], subs)]
  BY <1>1 DEF Aggregate
<1> HIDE DEF objs, subs
<1> QED  BY <1>2, <1>3, <1>4, <1>5

LEMMA SumIsNatural ==
  ASSUME NEW S, IsFiniteSet(S), NEW f, \A x \in S : f[x] \in Nat
  PROVE  Sum(f, S) \in Nat
<1> DEFINE P == {T \in SUBSET S : Sum(f, T) \in Nat}
<1>1. \A T \in SUBSET S : IsFiniteSet(T) /\ Weighs(f, T)
  BY FS_Subset DEF Weighs
<1>2. {} \in P
  BY <1>1, SumRecursive
<1>3. ASSUME NEW T \in SUBSET S, NEW x \in S \ T, Sum(f, T) \in Nat
      PROVE  Sum(f, T \union {x}) \in Nat
  <2>1. IsFiniteSet(T) /\ T \union {x} \in SUBSET S /\ x \notin T
    BY <1>1
  <2>2. Weighs(f, T \union {x})
    BY <1>1, <2>1
  <2>3. Sum(f, T \union {x}) = f[x] + Sum(f, T)
    BY <2>1, <2>2, SumMore
  <2>4. f[x] \in Nat
    OBVIOUS
  <2> QED  BY <1>3, <2>3, <2>4
<1>4. S \in P
  <2>1. \A T \in SUBSET S : \A x \in S \ T : T \in P => T \union {x} \in P
    BY <1>3
  <2> HIDE DEF P
  <2> QED  BY <1>2, <2>1, OneByOne
<1> QED  BY <1>4

\* Computed from aggregates, the result is one.
LEMMA AggregateTyped ==
  ASSUME NEW M, NEW val \in Coordinates, NEW ca \in [Groups -> {None, Invalid} \union Aggregates],
         \A g \in M \intersect Groups : ca[g] # Invalid
  PROVE  Aggregate(M, val, ca) \in Aggregates
<1> DEFINE objs == {o \in M \intersect Objects : val[o] # None}
           subs == M \intersect {g \in Groups : ca[g] # None}
           counts == [g \in subs |-> ca[g].count]
           sums == [g \in subs |-> ca[g].sum]
<1>1. IsFiniteSet(objs) /\ \A o \in objs : val[o] \in Nat
  <2>1. objs \subseteq {o \in Objects : val[o] # None}
    OBVIOUS
  <2> QED  BY <2>1, CoordinatesWeigh
<1>2. IsFiniteSet(subs)
  <2>1. subs \subseteq Groups
    OBVIOUS
  <2> HIDE DEF subs
  <2> QED  BY <2>1, IdsAssumption, FS_Subset
<1>3. \A g \in subs : counts[g] \in Nat /\ sums[g] \in Nat
  <2>1. \A g \in subs : ca[g] \in Aggregates
    OBVIOUS
  <2> QED  BY <2>1 DEF Aggregates
<1>4. Aggregate(M, val, ca) = [count |-> Cardinality(objs) + Sum(counts, subs),
                               sum   |-> Sum(val, objs) + Sum(sums, subs)]
  BY DEF Aggregate
<1> HIDE DEF objs, subs, counts, sums
<1>5. /\ Cardinality(objs) \in Nat /\ Sum(val, objs) \in Nat
      /\ Sum(counts, subs) \in Nat /\ Sum(sums, subs) \in Nat
  BY <1>1, <1>2, <1>3, SumIsNatural, FS_CardinalityType
<1>6. Cardinality(objs) + Sum(counts, subs) \in Nat /\ Sum(val, objs) + Sum(sums, subs) \in Nat
  BY <1>5
<1> QED  BY <1>4, <1>6 DEF Aggregates

LEMMA EStarts == Init => EInv
<1> SUFFICES ASSUME Init PROVE EInv
  OBVIOUS
<1>1. Valid = {}
  BY DEF Init, Valid
<1>2. EnvTyped
  <2>1. op \in [kind : {"idle", "invalidate", "compute"}, queue : SUBSET Ids,
                visited : SUBSET Groups, stack : Seq(Frames)]
    BY DEF Init, Idle
  <2>2. op = Idle /\ op.kind = "idle"
    BY DEF Init, Idle
  <2> QED  BY <2>1, <2>2 DEF EnvTyped, Init, Coordinates
<1>3. op.kind = "idle"
  BY DEF Init, Idle
<1> QED  BY <1>1, <1>2, <1>3 DEF EInv, VisitedIsInvalid, ComputedAgrees, SoundOrNext

\* Above S is S, and what lists a group that is above S.
LEMMA AboveIsClosed ==
  ASSUME GInv, NEW S \in SUBSET Groups
  PROVE  /\ S \subseteq Above(S) /\ Above(S) \subseteq Groups
         /\ \A g, c \in Groups : c \in Above(S) /\ c \in members[g] => g \in Above(S)
<1>1. Leads(Listing)
  BY DEF GInv, PoolTyped, Leads, Listing, Ids
<1>2. S \subseteq Above(S) /\ Above(S) \subseteq Groups
      /\ \A g \in Above(S) : Listing[g] \subseteq Above(S)
  BY <1>1, FromIsClosed DEF Above
<1>3. \A g, c \in Groups : c \in members[g] => g \in Listing[c]
  BY DEF GInv, UndefinedIsEmpty, Listing, Ids
<1> QED  BY <1>2, <1>3

\* The pool changes the member lists of some groups, and the aggregates above them are
\* marked; the environment does not take part.
LEMMA RegroupKeeps ==
  ASSUME EInv, GInv, UNCHANGED envVars, locked' \subseteq groups', NEW S \in SUBSET Groups,
         Regroup(S), \A g \in Groups \ S : members'[g] = members[g]
  PROVE  EInv'
<1>1. /\ value' = value /\ cache' = cache /\ op' = op
      /\ Valid' = Valid /\ Initialized' = Initialized /\ Computing' = Computing
  BY DEF envVars, Valid, Initialized, Computing
<1>2. /\ S \subseteq Above(S)
      /\ \A g, c \in Groups : c \in Above(S) /\ c \in members[g] => g \in Above(S)
  BY AboveIsClosed
<1>3. regrouped' = regrouped \union (Above(S) \intersect (Valid \union Computing))
  BY DEF Regroup
<1> HIDE DEF Above
<1>4. EnvTyped'
  BY <1>1, <1>3 DEF EInv, EnvTyped
<1>5. VisitedIsInvalid'
  BY <1>1 DEF EInv, VisitedIsInvalid
<1>6. ComputedAgrees'
  <2> SUFFICES ASSUME op.kind = "compute", NEW k \in DOMAIN op.stack, op.stack[k].id \notin regrouped'
               PROVE  op.stack[k].list = members'[op.stack[k].id]
    BY <1>1 DEF EInv, ComputedAgrees
  <2>1. op.stack[k].id \in Computing /\ op.stack[k].id \in Groups
    BY StackFacts DEF EInv, Computing
  <2>2. op.stack[k].id \notin regrouped /\ op.stack[k].id \notin S
    BY <2>1, <1>2, <1>3
  <2> QED  BY <2>1, <2>2 DEF EInv, ComputedAgrees
<1>7. SoundOrNext'
  <2> SUFFICES ASSUME NEW g \in Valid, g \notin regrouped'
               PROVE  Sound(g)' \/ (op.kind = "invalidate" /\ members'[g] \intersect op.queue # {})
    BY <1>1 DEF SoundOrNext
  <2>1. g \in Groups /\ g \notin regrouped /\ g \notin Above(S)
    BY <1>3 DEF Valid
  <2>2. members'[g] = members[g]
    BY <1>2, <2>1
  <2>3. CASE Sound(g)
    <3>1. members[g] \intersect Initialized \intersect regrouped' = {}
      <4> SUFFICES ASSUME NEW c \in members[g] \intersect Initialized, c \in regrouped' PROVE FALSE
        OBVIOUS
      <4>1. c \in Groups /\ c \notin regrouped
        BY <2>3 DEF Sound, Initialized
      <4> QED  BY <4>1, <1>2, <1>3, <2>1
    <3> QED  BY <1>1, <2>2, <2>3, <3>1 DEF Sound
  <2>4. CASE op.kind = "invalidate" /\ members[g] \intersect op.queue # {}
    BY <2>2, <2>4
  <2> QED  BY <2>1, <2>3, <2>4 DEF EInv, SoundOrNext
<1> QED  BY <1>4, <1>5, <1>6, <1>7 DEF EInv

\* A step of the pool that leaves the member lists alone.
LEMMA NoRegroupKeeps ==
  ASSUME EInv, UNCHANGED <<envVars, members, regrouped>>, locked' \subseteq groups'
  PROVE  EInv'
<1>1. /\ value' = value /\ cache' = cache /\ op' = op
      /\ Valid' = Valid /\ Initialized' = Initialized /\ Computing' = Computing
      /\ members' = members /\ regrouped' = regrouped
  BY DEF envVars, Valid, Initialized, Computing
<1>2. EnvTyped'
  BY <1>1 DEF EInv, EnvTyped
<1>3. VisitedIsInvalid' /\ ComputedAgrees'
  BY <1>1 DEF EInv, VisitedIsInvalid, ComputedAgrees
<1>4. SoundOrNext'
  BY <1>1 DEF EInv, SoundOrNext, Sound
<1> QED  BY <1>2, <1>3, <1>4 DEF EInv

\* What is below a group has a definition as the group has.
LEMMA DescendantsAreDefined ==
  ASSUME GInv, NEW g \in groups
  PROVE  Descendants(g) \subseteq groups
<1>1. Leads(Children) /\ {g} \in SUBSET Groups
  BY Directions DEF GInv, PoolTyped
<1>2. {g} \subseteq groups /\ \A h \in groups \intersect Groups : Children[h] \subseteq groups
  BY DEF Children
<1>3. From(Children, {g}) \subseteq groups
  BY <1>1, <1>2, FromIsLeast
<1> QED  BY <1>3 DEF Descendants

LEMMA PoolKeepsE ==
  ASSUME EInv, GInv, GInv', PoolStep
  PROVE  EInv'
<1> USE DEF poolVars
<1>0. PoolTyped /\ PoolTyped' /\ locked \subseteq groups
  BY DEF GInv, EInv, EnvTyped
<1>1. ASSUME NEW o \in Objects, CreateObject(o) PROVE EInv'
  BY <1>0, <1>1, NoRegroupKeeps DEF CreateObject
<1>2. ASSUME NEW o \in Objects, DeleteObject(o) PROVE EInv'
  <2>1. /\ Listing[o] \in SUBSET Groups /\ Regroup(Listing[o]) /\ UNCHANGED envVars
        /\ locked' \subseteq groups'
    BY <1>0, <1>2 DEF DeleteObject, Listing, PoolTyped, Ids
  <2>2. \A g \in Groups \ Listing[o] : members'[g] = members[g]
    BY <1>0, <1>2 DEF DeleteObject, LeaveAll, GInv, UndefinedIsEmpty, Listing, Ids
  <2> QED  BY <2>1, <2>2, RegroupKeeps
<1>3. ASSUME NEW g \in Groups, NEW p \in Groups \union {None}, CreateGroup(g, p) PROVE EInv'
  <2>1. locked' \subseteq groups' /\ UNCHANGED envVars
    BY <1>0, <1>3 DEF CreateGroup
  <2>2. CASE p = None
    <3>1. UNCHANGED <<members, regrouped>>
      BY <1>0, <1>3, <2>2, IdsAssumption DEF CreateGroup, PoolTyped
    <3> QED  BY <2>1, <3>1, NoRegroupKeeps
  <2>3. CASE p # None
    <3>1. {p} \in SUBSET Groups /\ Regroup({p}) /\ members' = [members EXCEPT ![p] = @ \union {g}]
      BY <1>3, <2>3 DEF CreateGroup, AddMember
    <3>2. \A h \in Groups \ {p} : members'[h] = members[h]
      BY <1>0, <3>1 DEF PoolTyped
    <3> QED  BY <2>1, <3>1, <3>2, RegroupKeeps
  <2> QED  BY <2>2, <2>3
<1>4. ASSUME NEW g \in Groups, DeleteGroup(g) PROVE EInv'
  <2>1. /\ Listing[g] \in SUBSET Groups /\ Regroup(Listing[g]) /\ UNCHANGED envVars
        /\ locked' \subseteq groups'
    BY <1>0, <1>4 DEF DeleteGroup, Listing, PoolTyped, Ids
  <2>2. \A h \in Groups \ Listing[g] : members'[h] = members[h]
    BY <1>0, <1>4 DEF DeleteGroup, LeaveAll, GInv, UndefinedIsEmpty, Listing, Ids
  <2> QED  BY <2>1, <2>2, RegroupKeeps
<1>5. ASSUME NEW g \in Groups, NEW m, AddObjectMember(g, m) \/ AddGroupMember(g, m) PROVE EInv'
  <2>1. /\ {g} \in SUBSET Groups /\ Regroup({g}) /\ members' = [members EXCEPT ![g] = @ \union {m}]
        /\ UNCHANGED <<envVars, locked, groups>>
    BY <1>5 DEF AddObjectMember, AddGroupMember, AddMember
  <2>2. \A h \in Groups \ {g} : members'[h] = members[h]
    BY <1>0, <2>1 DEF PoolTyped
  <2> QED  BY <1>0, <2>1, <2>2, RegroupKeeps
<1>6. ASSUME NEW g \in Groups, NEW m \in Ids, RemoveGroupMember(g, m) PROVE EInv'
  <2>1. /\ {g} \in SUBSET Groups /\ Regroup({g}) /\ members' = [members EXCEPT ![g] = @ \ {m}]
        /\ UNCHANGED <<envVars, locked, groups>>
    BY <1>6 DEF RemoveGroupMember
  <2>2. \A h \in Groups \ {g} : members'[h] = members[h]
    BY <1>0, <2>1 DEF PoolTyped
  <2> QED  BY <1>0, <2>1, <2>2, RegroupKeeps
<1>7. ASSUME NEW g \in Lockable,
             LockGroup(g) \/ UnlockGroup(g) \/ LockGroupHierarchy(g) \/ UnlockGroupHierarchy(g)
      PROVE  EInv'
  <2>1. g \in groups /\ UNCHANGED <<envVars, members, regrouped, groups>>
    BY <1>7 DEF LockGroup, UnlockGroup, LockGroupHierarchy, UnlockGroupHierarchy, SetLock
  <2>2. Descendants(g) \subseteq groups
    BY <2>1, DescendantsAreDefined
  <2>3. locked' \subseteq groups
    BY <1>0, <1>7, <2>1, <2>2
    DEF LockGroup, UnlockGroup, LockGroupHierarchy, UnlockGroupHierarchy, SetLock
  <2> QED  BY <2>1, <2>3, NoRegroupKeeps
<1> QED  BY <1>1, <1>2, <1>3, <1>4, <1>5, <1>6, <1>7 DEF PoolStep

\* An object gets, changes or loses its state: what is cached still is what the lists say,
\* or is above the object.
LEMMA ValueKeeps ==
  ASSUME EInv, NEW o \in Objects, op = Idle, NEW v \in Values \union {None},
         value' = [value EXCEPT ![o] = v], Invalidate(o), UNCHANGED <<poolVars, cache, regrouped>>
  PROVE  EInv'
<1>1. /\ cache' = cache /\ regrouped' = regrouped /\ members' = members
      /\ Valid' = Valid /\ Initialized' = Initialized /\ locked' = locked /\ groups' = groups
  BY DEF poolVars, Valid, Initialized
<1>2. op' = [kind |-> "invalidate", queue |-> {o}, visited |-> {}, stack |-> << >>]
  BY DEF Invalidate, Idle
<1>3. Computing = {}
  BY DEF Computing, Idle
<1>4. value \in Coordinates /\ value' \in Coordinates
  BY DEF EInv, EnvTyped, Coordinates
<1>5. EnvTyped'
  <2>1. op' \in [kind : {"idle", "invalidate", "compute"}, queue : SUBSET Ids,
                 visited : SUBSET Groups, stack : Seq(Frames)]
    BY <1>2 DEF Ids
  <2>2. op'.kind = "invalidate" /\ op'.stack = << >>
    BY <1>2
  <2> QED  BY <1>1, <1>3, <1>4, <2>1, <2>2 DEF EInv, EnvTyped
<1>6. VisitedIsInvalid' /\ ComputedAgrees'
  BY <1>2 DEF VisitedIsInvalid, ComputedAgrees
<1>7. SoundOrNext'
  <2> SUFFICES ASSUME NEW g \in Valid \ regrouped
               PROVE  Sound(g)' \/ (op'.kind = "invalidate" /\ members[g] \intersect op'.queue # {})
    BY <1>1 DEF SoundOrNext
  <2>1. Sound(g)
    BY DEF EInv, SoundOrNext, Idle
  <2>2. CASE o \in members[g]
    BY <1>2, <2>2
  <2>3. CASE o \notin members[g]
    <3>1. Aggregate(members[g], value, cache) = Aggregate(members[g], value', cache)
      <4>1. /\ Same(value, value', members[g] \intersect Objects)
            /\ Same(cache, cache, members[g] \intersect Groups)
        BY <2>3, <1>4 DEF Coordinates, Same
      <4> QED  BY <1>4, <4>1, AggregateSame
    <3> QED  BY <1>1, <2>1, <3>1 DEF Sound
  <2> QED  BY <2>2, <2>3
<1> QED  BY <1>5, <1>6, <1>7 DEF EInv

\* One turn of the invalidation: what is about to be met afterwards are the groups that
\* have lost their aggregates in it.
LEMMA InvalidateNextKeeps ==
  ASSUME EInv, GInv, InvalidateNext
  PROVE  EInv'
<1>0. EnvTyped /\ PoolTyped /\ members' = members /\ value' = value /\ op.kind = "invalidate"
      /\ locked' = locked /\ groups' = groups
  BY DEF EInv, GInv, InvalidateNext, poolVars
<1>1. PICK m \in op.queue :
        LET new == memberToGroups[m] \ op.visited
        IN  /\ cache' = [g \in Groups |-> IF g \in new \intersect Initialized THEN Invalid ELSE cache[g]]
            /\ regrouped' = regrouped \ new
            /\ op' = IF (op.queue \ {m}) \union new = {} THEN Idle
                     ELSE [op EXCEPT !.queue = (@ \ {m}) \union new, !.visited = @ \union new]
  BY Zenon DEF InvalidateNext
<1> DEFINE new == memberToGroups[m] \ op.visited
           queue == (op.queue \ {m}) \union new
<1>2. m \in Ids /\ new \subseteq Groups /\ op.queue \subseteq Ids /\ op.visited \subseteq Groups
      /\ op.stack = << >>
  BY <1>0 DEF EnvTyped, PoolTyped
<1>3. /\ cache' = [g \in Groups |-> IF g \in new \intersect Initialized THEN Invalid ELSE cache[g]]
      /\ regrouped' = regrouped \ new
      /\ queue = {} => op' = Idle
      /\ queue # {} => op' = [kind |-> "invalidate", queue |-> queue,
                              visited |-> op.visited \union new, stack |-> << >>]
  <2>1. op = [kind |-> "invalidate", queue |-> op.queue, visited |-> op.visited, stack |-> << >>]
    BY <1>0, <1>2 DEF EnvTyped
  <2>2. [op EXCEPT !.queue = (@ \ {m}) \union new, !.visited = @ \union new]
          = [kind |-> "invalidate", queue |-> queue, visited |-> op.visited \union new, stack |-> << >>]
    <3> HIDE DEF new, queue
    <3> DEFINE once == [op EXCEPT !.queue = queue]
    <3>1. once = [kind |-> "invalidate", queue |-> queue, visited |-> op.visited, stack |-> << >>]
      BY <2>1
    <3>2. [once EXCEPT !.visited = once.visited \union new]
            = [kind |-> "invalidate", queue |-> queue, visited |-> op.visited \union new, stack |-> << >>]
      <4> DEFINE seen == op.visited \union new
      <4> HIDE DEF once
      <4>1. once.visited \union new = seen
        BY <3>1
      <4> HIDE DEF seen
      <4>2. [once EXCEPT !.visited = seen]
              = [kind |-> "invalidate", queue |-> queue, visited |-> seen, stack |-> << >>]
        BY <3>1
      <4> QED  BY <4>1, <4>2 DEF seen
    <3> QED  BY <3>2 DEF queue
  <2> QED  BY <1>1, <2>2
<1>4. \A g \in Groups : m \in members[g] => g \in memberToGroups[m]
  BY <1>2 DEF GInv, IndexAgrees, UndefinedIsEmpty, Listing
<1> HIDE DEF new, queue
<1>5. /\ Initialized' = Initialized
      /\ Valid' = Valid \ new
  BY <1>2, <1>3, StateAssumption DEF Initialized, Valid, Invalid
<1>6. EnvTyped'
  <2>1. op' \in [kind : {"idle", "invalidate", "compute"}, queue : SUBSET Ids,
                 visited : SUBSET Groups, stack : Seq(Frames)]
    <3>1. queue \subseteq Ids /\ op.visited \union new \subseteq Groups
      BY <1>2 DEF queue, Ids
    <3>2. CASE queue = {}
      <4>1. op' = Idle
        BY <1>3, <3>2
      <4> QED  BY <4>1 DEF Idle
    <3>3. CASE queue # {}
      <4> DEFINE seen == op.visited \union new
      <4>1. seen \subseteq Groups
        BY <3>1
      <4> HIDE DEF seen
      <4>2. op' = [kind |-> "invalidate", queue |-> queue, visited |-> seen, stack |-> << >>]
        BY <1>3, <3>3 DEF seen
      <4> QED  BY <3>1, <4>1, <4>2
    <3> QED  BY <3>2, <3>3
  <2>2. op'.kind = "idle" => op' = Idle
    BY <1>3
  <2>3. op'.kind # "compute" /\ op'.stack = << >>
    BY <1>3 DEF Idle
  <2>4. Computing = {} /\ Computing' = {}
    BY <1>2, <2>3 DEF Computing
  <2>5. regrouped' \subseteq Valid' \union Computing'
    BY <1>0, <1>3, <1>5, <2>4 DEF EnvTyped
  <2>6. cache' \in [Groups -> {None, Invalid} \union Aggregates]
    BY <1>0, <1>3 DEF EnvTyped
  <2> QED  BY <1>0, <2>1, <2>2, <2>3, <2>5, <2>6 DEF EnvTyped
<1>7. VisitedIsInvalid'
  <2>1. op'.kind = "invalidate" => op'.visited = op.visited \union new
    BY <1>3 DEF Idle
  <2> QED  BY <1>0, <1>5, <2>1 DEF EInv, VisitedIsInvalid
<1>8. ComputedAgrees'
  BY <1>3 DEF ComputedAgrees, Idle
<1>9. SoundOrNext'
  <2> SUFFICES ASSUME NEW g \in Valid', g \notin regrouped'
               PROVE  Sound(g)' \/ (op'.kind = "invalidate" /\ members'[g] \intersect op'.queue # {})
    BY DEF SoundOrNext
  <2>1. g \in Valid /\ g \notin new /\ g \notin regrouped /\ g \in Groups
    BY <1>3, <1>5 DEF Valid
  <2>2. ASSUME members[g] \intersect queue # {}
        PROVE  op'.kind = "invalidate" /\ members'[g] \intersect op'.queue # {}
    BY <1>0, <1>3, <2>2
  <2>3. CASE Sound(g)
    <3>1. CASE members[g] \intersect new = {}
      <4>1. /\ Aggregate(members[g], value, cache) = Aggregate(members[g], value, cache')
            /\ cache'[g] = cache[g]
        <5>1. /\ Same(value, value, members[g] \intersect Objects)
              /\ Same(cache, cache', members[g] \intersect Groups)
          BY <1>3, <3>1 DEF Same
        <5>2. value \in Coordinates
          BY <1>0 DEF EnvTyped
        <5>3. cache'[g] = cache[g]
          BY <1>3, <2>1
        <5> QED  BY <5>1, <5>2, <5>3, AggregateSame
      <4>2. members[g] \intersect Initialized' \subseteq Valid' \ regrouped'
        BY <1>3, <1>5, <2>3, <3>1 DEF Sound
      <4> QED  BY <1>0, <2>3, <4>1, <4>2 DEF Sound
    <3>2. CASE members[g] \intersect new # {}
      BY <2>2, <3>2 DEF queue
    <3> QED  BY <3>1, <3>2
  <2>4. CASE members[g] \intersect op.queue # {}
    <3>1. m \notin members[g]
      BY <1>0, <1>4, <2>1 DEF EInv, VisitedIsInvalid, new
    <3> QED  BY <2>2, <2>4, <3>1 DEF queue
  <2> QED  BY <2>1, <2>3, <2>4 DEF EInv, SoundOrNext
<1> QED  BY <1>6, <1>7, <1>8, <1>9 DEF EInv

\* A group without an aggregate is added: those that list it are marked.
LEMMA InitializeGroupKeeps ==
  ASSUME EInv, GInv, NEW g \in Groups, InitializeGroup(g)
  PROVE  EInv'
<1>1. /\ op = Idle /\ op' = op /\ value' = value /\ members' = members /\ locked' = locked
      /\ groups' = groups /\ cache[g] = None /\ cache' = [cache EXCEPT ![g] = Invalid]
      /\ Listing[g] \in SUBSET Groups /\ EnvTyped
  BY DEF InitializeGroup, poolVars, EInv, GInv, PoolTyped, Listing, Ids
<1>2. /\ Valid' = Valid /\ Initialized' = Initialized \union {g} /\ Computing' = Computing
      /\ Computing = {}
  BY <1>1, StateAssumption DEF EnvTyped, Valid, Initialized, Computing, Idle
<1>3. /\ Listing[g] \subseteq Above(Listing[g])
      /\ \A h, c \in Groups : c \in Above(Listing[g]) /\ c \in members[h] => h \in Above(Listing[g])
  BY <1>1, AboveIsClosed
<1>4. regrouped' = regrouped \union (Above(Listing[g]) \intersect Valid)
  BY <1>2 DEF InitializeGroup, Regroup
<1> HIDE DEF Above
<1>5. EnvTyped'
  <2>1. cache' \in [Groups -> {None, Invalid} \union Aggregates]
    BY <1>1 DEF EnvTyped
  <2> QED  BY <1>1, <1>2, <1>4, <2>1 DEF EnvTyped
<1>6. VisitedIsInvalid' /\ ComputedAgrees'
  BY <1>1 DEF VisitedIsInvalid, ComputedAgrees, Idle
<1>7. SoundOrNext'
  <2> SUFFICES ASSUME NEW h \in Valid, h \notin regrouped' PROVE Sound(h)'
    BY <1>2 DEF SoundOrNext
  <2>1. h \in Groups /\ h \notin regrouped /\ h \notin Above(Listing[g])
    BY <1>4 DEF Valid
  <2>2. Sound(h)
    BY <1>1, <2>1 DEF EInv, SoundOrNext, Idle
  <2>3. g \notin members[h]
    BY <1>3, <2>1 DEF GInv, UndefinedIsEmpty, Listing, Ids
  <2>4. /\ Aggregate(members[h], value, cache) = Aggregate(members[h], value, cache')
        /\ cache'[h] = cache[h]
    <3>1. /\ Same(value, value, members[h] \intersect Objects)
          /\ Same(cache, cache', members[h] \intersect Groups)
      BY <1>1, <2>3 DEF EnvTyped, Same
    <3>2. value \in Coordinates /\ h # g
      BY <1>1 DEF EnvTyped, Valid
    <3>3. cache'[h] = cache[h]
      BY <1>1, <2>1, <3>2 DEF EnvTyped
    <3> QED  BY <3>1, <3>2, <3>3, AggregateSame
  <2>5. members[h] \intersect Initialized' \subseteq Valid' \ regrouped'
    <3> SUFFICES ASSUME NEW c \in members[h] \intersect Initialized, c \in regrouped' PROVE FALSE
      BY <1>2, <2>2, <2>3 DEF Sound
    <3>1. c \in Groups /\ c \notin regrouped
      BY <2>2 DEF Sound, Initialized
    <3> QED  BY <3>1, <1>3, <1>4, <2>1
  <2> QED  BY <1>1, <2>2, <2>4, <2>5 DEF Sound
<1> QED  BY <1>5, <1>6, <1>7 DEF EInv

\* A computation, or no operation, leaves every aggregate that is not marked sound.
LEMMA AllSound ==
  ASSUME EInv, op.kind # "invalidate"
  PROVE  \A g \in Valid \ regrouped : Sound(g)
BY DEF EInv, SoundOrNext

\* An operation that computes begins, or goes down to a member group, by looking up a member
\* list that is on the stack from then on.
LEMMA PushKeeps ==
  ASSUME EInv, GInv, op.kind # "invalidate", NEW g \in groups, cache[g] = Invalid,
         g \notin Computing, op'.kind = "compute",
         op'.stack = Append(op.stack, Opened(g)), op' \in [kind : {"idle", "invalidate", "compute"},
           queue : SUBSET Ids, visited : SUBSET Groups, stack : Seq(Frames)],
         UNCHANGED <<poolVars, value, cache, regrouped>>
  PROVE  EInv'
<1>1. /\ cache' = cache /\ regrouped' = regrouped /\ members' = members /\ value' = value
      /\ Valid' = Valid /\ Initialized' = Initialized /\ locked' = locked /\ groups' = groups
  BY DEF poolVars, Valid, Initialized
<1>2. op.stack \in Seq(Frames) /\ Len(op.stack) \in Nat /\ EnvTyped /\ g \in Groups /\ PoolTyped
  BY StackFacts DEF EInv, GInv, PoolTyped
<1> DEFINE n == Len(op.stack)
<1>3. Opened(g) \in Frames /\ Opened(g).id = g /\ Opened(g).list = members[g]
  BY <1>2 DEF Opened, Frames, PoolTyped
<1>4. /\ DOMAIN op'.stack = 1 .. n + 1 /\ op'.stack[n + 1] = Opened(g)
      /\ \A k \in 1 .. n : op'.stack[k] = op.stack[k]
      /\ DOMAIN op.stack = 1 .. n
  BY <1>2, <1>3
<1>5. \A k \in 1 .. n : op.stack[k].id # g /\ op.stack[k].id \in Groups
  BY <1>4, StackFacts DEF Computing, EInv
<1>6. Computing \subseteq Computing'
  BY <1>2, <1>4 DEF Computing
<1>7. EnvTyped'
  BY <1>1, <1>2, <1>4, <1>6 DEF EnvTyped
<1>8. VisitedIsInvalid'
  BY DEF VisitedIsInvalid
<1>9. ComputedAgrees'
  <2>1. op.kind = "compute" \/ n = 0
    BY <1>2 DEF EnvTyped, Idle
  <2>2. \A k \in 1 .. n : /\ cache[op.stack[k].id] = Invalid
                          /\ op.stack[k].id \notin regrouped => op.stack[k].list = members[op.stack[k].id]
                          /\ \A j \in 1 .. n : op.stack[j].id = op.stack[k].id => j = k
    BY <1>2, <1>4, <2>1 DEF EInv, ComputedAgrees
  <2>3. \A k \in 1 .. n + 1 : k \in 1 .. n \/ k = n + 1
    BY <1>2
  <2> HIDE DEF n
  <2>4. ASSUME NEW k \in 1 .. n + 1
        PROVE  /\ cache[op'.stack[k].id] = Invalid
               /\ op'.stack[k].id \notin regrouped => op'.stack[k].list = members[op'.stack[k].id]
               /\ \A j \in 1 .. n + 1 : op'.stack[j].id = op'.stack[k].id => j = k
    <3>1. CASE k = n + 1
      <4>1. op'.stack[k].id = g /\ op'.stack[k].list = members[g]
        BY <3>1, <1>3, <1>4
      <4>2. \A j \in 1 .. n : op'.stack[j].id # g
        BY <1>4, <1>5
      <4> QED  BY <3>1, <4>1, <4>2, <2>3
    <3>2. CASE k \in 1 .. n
      <4>1. op'.stack[k] = op.stack[k] /\ op'.stack[n + 1].id # op.stack[k].id
        BY <3>2, <1>3, <1>4, <1>5
      <4>2. \A j \in 1 .. n : op'.stack[j].id = op.stack[j].id
        BY <1>4
      <4>3. /\ cache[op'.stack[k].id] = Invalid
            /\ op'.stack[k].id \notin regrouped => op'.stack[k].list = members[op'.stack[k].id]
        BY <3>2, <4>1, <2>2
      <4>4. ASSUME NEW j \in 1 .. n + 1, op'.stack[j].id = op'.stack[k].id PROVE j = k
        <5>1. j \in 1 .. n
          BY <4>1, <4>4, <2>3
        <5>2. op.stack[j].id = op.stack[k].id
          BY <4>1, <4>2, <4>4, <5>1
        <5> QED  BY <3>2, <5>1, <5>2, <2>2
      <4> QED  BY <4>3, <4>4
    <3> QED  BY <2>3, <3>1, <3>2
  <2> QED  BY <1>1, <1>4, <2>4 DEF ComputedAgrees
<1>10. SoundOrNext'
  BY <1>1, AllSound DEF SoundOrNext, Sound
<1> QED  BY <1>7, <1>8, <1>9, <1>10 DEF EInv

LEMMA GetGroupStateKeeps ==
  ASSUME EInv, GInv, NEW g \in Groups, GetGroupState(g)
  PROVE  EInv'
<1>1. /\ op = Idle /\ cache[g] = Invalid /\ g \in groups /\ PoolTyped
      /\ UNCHANGED <<poolVars, value, cache, regrouped>>
      /\ op' = [kind |-> "compute", queue |-> {}, visited |-> {}, stack |-> <<Opened(g)>>]
  BY DEF GetGroupState, Idle, GInv
<1>2. Opened(g) \in Frames
  BY <1>1 DEF Opened, Frames, PoolTyped
<1>3. op.kind # "invalidate" /\ op.stack = << >> /\ Computing = {}
  BY <1>1 DEF Idle, Computing
<1>4. <<Opened(g)>> = Append(op.stack, Opened(g)) /\ <<Opened(g)>> \in Seq(Frames)
  BY <1>2, <1>3
<1>5. op' \in [kind : {"idle", "invalidate", "compute"}, queue : SUBSET Ids,
               visited : SUBSET Groups, stack : Seq(Frames)]
  BY <1>1, <1>4
<1>6. op'.kind = "compute" /\ op'.stack = Append(op.stack, Opened(g))
  BY <1>1, <1>4
<1> QED  BY <1>1, <1>3, <1>5, <1>6, PushKeeps

LEMMA ComputeMemberKeeps ==
  ASSUME EInv, GInv, ComputeMember
  PROVE  EInv'
<1>0. EnvTyped /\ PoolTyped /\ op.kind = "compute"
  BY DEF EInv, GInv, ComputeMember
<1>1. PICK g \in Missing :
        op' = IF g \in Computing \/ g \notin groups THEN Idle ELSE [op EXCEPT !.stack = Append(@, Opened(g))]
  BY DEF ComputeMember
<1>2. /\ cache' = cache /\ members' = members /\ value' = value /\ cache[g] = Invalid
      /\ Valid' = Valid /\ Initialized' = Initialized /\ locked' = locked /\ groups' = groups
      /\ regrouped' = IF op' = Idle THEN regrouped \ Computing ELSE regrouped
  BY DEF ComputeMember, poolVars, Valid, Initialized, Missing
\* The operation ends with an error: no group that was being computed has an aggregate.
<1>3. CASE op' = Idle
  <2>1. Computing \intersect Valid = {}
    BY <1>0 DEF EInv, ComputedAgrees, Computing, Valid
  <2>2. op'.kind = "idle" /\ op'.stack = << >>
    BY <1>3 DEF Idle
  <2>3. EnvTyped'
    <3>1. op' \in [kind : {"idle", "invalidate", "compute"}, queue : SUBSET Ids,
                   visited : SUBSET Groups, stack : Seq(Frames)]
      BY <1>3 DEF Idle
    <3>2. regrouped' \subseteq Valid'
      BY <1>0, <1>2, <1>3 DEF EnvTyped
    <3> QED  BY <1>0, <1>2, <1>3, <2>2, <3>1, <3>2 DEF EnvTyped
  <2>4. VisitedIsInvalid' /\ ComputedAgrees'
    BY <2>2 DEF VisitedIsInvalid, ComputedAgrees
  <2>5. SoundOrNext'
    <3>1. \A g_ \in Valid \ regrouped' : g_ \in Valid \ regrouped
      BY <1>2, <1>3, <2>1
    <3> QED  BY <1>0, <1>2, <1>3, <3>1, AllSound DEF SoundOrNext, Sound
  <2> QED  BY <2>3, <2>4, <2>5 DEF EInv
<1>4. CASE op' # Idle
  <2>1. g \in groups /\ g \notin Computing /\ op' = [op EXCEPT !.stack = Append(@, Opened(g))]
        /\ regrouped' = regrouped
    BY <1>1, <1>2, <1>4
  <2>2. op'.kind = "compute" /\ op'.stack = Append(op.stack, Opened(g))
    BY <1>0, <2>1 DEF EnvTyped
  <2>3. op' \in [kind : {"idle", "invalidate", "compute"}, queue : SUBSET Ids,
                 visited : SUBSET Groups, stack : Seq(Frames)]
    <3> DEFINE pushed == Append(op.stack, Opened(g))
    <3>1. pushed \in Seq(Frames)
      <4>1. Opened(g) \in Frames
        BY <1>0, <2>1 DEF Opened, Frames, PoolTyped
      <4> QED  BY <1>0, <4>1, StackFacts
    <3>2. op' = [op EXCEPT !.stack = pushed]
      BY <2>1
    <3> HIDE DEF pushed
    <3> QED  BY <1>0, <3>1, <3>2 DEF EnvTyped
  <2>4. UNCHANGED <<poolVars, value, cache, regrouped>>
    BY <2>1 DEF ComputeMember
  <2> QED  BY <1>0, <1>2, <2>1, <2>2, <2>3, <2>4, PushKeeps
<1> QED  BY <1>3, <1>4

\* The list on top is added up: no group of it is marked, if its own is not.
LEMMA ComputeDoneKeeps ==
  ASSUME EInv, ComputeDone
  PROVE  EInv'
<1> DEFINE n == Len(op.stack)
           t == Top.id
<1>0. /\ EnvTyped /\ op.kind = "compute" /\ Missing = {}
      /\ members' = members /\ value' = value /\ locked' = locked /\ groups' = groups
  BY DEF EInv, ComputeDone, poolVars
<1>1. /\ op.stack \in Seq(Frames) /\ n \in Nat /\ n > 0 /\ DOMAIN op.stack = 1 .. n
      /\ n \in DOMAIN op.stack
      /\ \A k \in 1 .. n : op.stack[k].id \in Groups /\ op.stack[k].list \subseteq Ids
  <2>1. op.stack # << >> /\ op.stack \in Seq(Frames)
    BY <1>0 DEF EnvTyped
  <2>2. Len(op.stack) # 0
    BY <2>1
  <2>3. n \in Nat /\ n > 0 /\ n \in 1 .. n
    BY <2>1, <2>2
  <2> HIDE DEF n
  <2> QED  BY <1>0, <2>1, <2>3, StackFacts DEF n
<1>2. /\ t \in Groups /\ t = op.stack[n].id /\ Top = op.stack[n] /\ Top.list \subseteq Ids
      /\ cache[t] = Invalid
      /\ t \notin regrouped => Top.list = members[t]
  BY <1>0, <1>1 DEF Top, EInv, ComputedAgrees
<1>3. /\ cache' = [cache EXCEPT ![t] = AggregateOf(Top.list)]
      /\ regrouped' = IF Top.list \intersect regrouped = {} THEN regrouped ELSE regrouped \union {t}
      /\ op' = IF n = 1 THEN Idle ELSE [op EXCEPT !.stack = Front(@)]
  BY DEF ComputeDone
<1> HIDE DEF t, n
<1>4. \A g \in Top.list \intersect Groups : cache[g] # Invalid
  BY <1>0 DEF Missing
<1>5. AggregateOf(Top.list) \in Aggregates
  BY <1>0, <1>4, AggregateTyped, AggregateOfIs DEF EnvTyped
<1>6. /\ Valid' = Valid \union {t} /\ Initialized' = Initialized /\ t \in Initialized /\ t \notin Valid
  <2>1. AggregateOf(Top.list) # None /\ AggregateOf(Top.list) # Invalid /\ Invalid # None
    BY <1>5, StateAssumption DEF Aggregates, Invalid
  <2> QED  BY <1>0, <1>2, <1>3, <2>1 DEF Valid, Initialized, EnvTyped
\* What is left on the stack.
<1>7. /\ n = 1 => op' = Idle
      /\ n # 1 => /\ op' \in [kind : {"idle", "invalidate", "compute"}, queue : SUBSET Ids,
                              visited : SUBSET Groups, stack : Seq(Frames)]
                  /\ op'.kind = "compute" /\ op'.stack # << >>
                  /\ DOMAIN op'.stack = 1 .. n - 1
                  /\ \A k \in 1 .. n - 1 : op'.stack[k] = op.stack[k]
  <2> SUFFICES ASSUME n # 1
               PROVE  /\ op' \in [kind : {"idle", "invalidate", "compute"}, queue : SUBSET Ids,
                                  visited : SUBSET Groups, stack : Seq(Frames)]
                      /\ op'.kind = "compute" /\ op'.stack # << >>
                      /\ DOMAIN op'.stack = 1 .. n - 1
                      /\ \A k \in 1 .. n - 1 : op'.stack[k] = op.stack[k]
    BY <1>3
  <2> DEFINE rest == Front(op.stack)
  <2>1. rest = [k \in 1 .. n - 1 |-> op.stack[k]]
    BY <1>1 DEF Front, n
  <2>2. n - 1 \in Nat /\ n - 1 >= 1
    BY <1>1
  <2>3. rest \in Seq(Frames) /\ DOMAIN rest = 1 .. n - 1 /\ rest # << >>
    <3>1. \A k \in 1 .. n - 1 : op.stack[k] \in Frames
      BY <1>1
    <3> HIDE DEF rest
    <3>2. rest \in Seq(Frames) /\ DOMAIN rest = 1 .. n - 1
      BY <2>1, <2>2, <3>1
    <3>3. 1 \in DOMAIN rest /\ DOMAIN << >> = {}
      BY <2>2, <3>2
    <3>4. rest # << >>
      BY <3>3
    <3> QED  BY <3>2, <3>4
  <2>4. op' = [op EXCEPT !.stack = rest]
    BY <1>3
  <2> HIDE DEF rest
  <2>5. op'.kind = "compute" /\ op'.stack = rest
    BY <1>0, <2>4 DEF EnvTyped
  <2>6. op' \in [kind : {"idle", "invalidate", "compute"}, queue : SUBSET Ids,
                 visited : SUBSET Groups, stack : Seq(Frames)]
    BY <1>0, <2>3, <2>4 DEF EnvTyped
  <2> QED  BY <2>1, <2>3, <2>5, <2>6
<1>8. \A k \in 1 .. n - 1 : /\ k \in 1 .. n /\ op.stack[k].id # t /\ op.stack[k].id \in Groups
                            /\ cache[op.stack[k].id] = Invalid
                            /\ op.stack[k].id \notin regrouped => op.stack[k].list = members[op.stack[k].id]
                            /\ \A j \in 1 .. n - 1 : op.stack[j].id = op.stack[k].id => j = k
  <2>1. \A k \in 1 .. n - 1 : k \in 1 .. n /\ k # n
    BY <1>1
  <2> QED  BY <1>0, <1>1, <1>2, <2>1 DEF EInv, ComputedAgrees
<1>9. EnvTyped'
  <2>1. cache' \in [Groups -> {None, Invalid} \union Aggregates]
    BY <1>0, <1>3, <1>5 DEF EnvTyped
  <2>2. regrouped' \subseteq Valid' \union Computing'
    <3>1. \A k \in 1 .. n : k \in 1 .. n - 1 \/ k = n
      BY <1>1
    <3>2. Computing = {op.stack[k].id : k \in 1 .. n}
      BY <1>1 DEF Computing
    <3>3. CASE n = 1
      <4>1. Computing = {t}
        BY <1>2, <3>2, <3>3
      <4> QED  BY <1>0, <1>3, <1>6, <4>1 DEF EnvTyped
    <3>4. CASE n # 1
      <4>1. Computing' = {op.stack[k].id : k \in 1 .. n - 1}
        BY <1>7, <3>4 DEF Computing
      <4>2. Computing \subseteq {t} \union Computing'
        BY <1>2, <3>1, <3>2, <4>1
      <4> QED  BY <1>0, <1>3, <1>6, <4>2 DEF EnvTyped
    <3> QED  BY <3>3, <3>4
  <2>3. CASE n = 1
    <3>1. op' = Idle
      BY <1>7, <2>3
    <3>2. /\ op' \in [kind : {"idle", "invalidate", "compute"}, queue : SUBSET Ids,
                      visited : SUBSET Groups, stack : Seq(Frames)]
          /\ op'.kind = "idle"
      BY <3>1 DEF Idle
    <3> QED  BY <1>0, <2>1, <2>2, <3>1, <3>2 DEF EnvTyped
  <2>4. CASE n # 1
    BY <1>0, <1>7, <2>1, <2>2, <2>4 DEF EnvTyped
  <2> QED  BY <2>3, <2>4
<1>10. VisitedIsInvalid'
  BY <1>7 DEF VisitedIsInvalid, Idle
<1>11. ComputedAgrees'
  <2>1. CASE n = 1
    BY <1>7, <2>1 DEF ComputedAgrees, Idle
  <2>2. CASE n # 1
    <3>1. \A k \in 1 .. n - 1 : /\ cache'[op'.stack[k].id] = Invalid
                                /\ op'.stack[k].id \notin regrouped'
                                     => op'.stack[k].list = members[op'.stack[k].id]
      BY <1>3, <1>7, <1>8, <2>2
    <3>2. \A j, k \in 1 .. n - 1 : op'.stack[j].id = op'.stack[k].id => j = k
      BY <1>7, <1>8, <2>2
    <3> QED  BY <1>0, <1>7, <2>2, <3>1, <3>2 DEF ComputedAgrees
  <2> QED  BY <2>1, <2>2
<1>12. SoundOrNext'
  <2> SUFFICES ASSUME NEW g \in Valid', g \notin regrouped' PROVE Sound(g)'
    BY DEF SoundOrNext
  <2>1. g \in Groups /\ g \notin regrouped
    BY <1>3 DEF Valid
  <2>2. value \in Coordinates
    BY <1>0 DEF EnvTyped
  \* Nothing that is sound, or becomes so, is computed from the group on top.
  <2>3. ASSUME t \notin members[g]
        PROVE  Aggregate(members[g], value, cache) = Aggregate(members[g], value, cache')
    <3>1. /\ Same(value, value, members[g] \intersect Objects)
          /\ Same(cache, cache', members[g] \intersect Groups)
      BY <1>3, <2>3 DEF Same
    <3> QED  BY <2>2, <3>1, AggregateSame
  <2>4. CASE g = t
    <3>1. Top.list = members[t] /\ Top.list \intersect regrouped = {} /\ regrouped' = regrouped
      BY <1>2, <1>3, <2>1, <2>4
    <3>2. t \notin members[t]
      BY <1>2, <1>4, <3>1
    <3>3. cache'[t] = Aggregate(members[t], value, cache)
      BY <1>0, <1>2, <1>3, <3>1, AggregateOfIs DEF EnvTyped
    <3>4. members[t] \intersect Initialized \subseteq Valid \ regrouped
      BY <1>4, <3>1 DEF Initialized, Valid
    <3> QED  BY <1>0, <1>6, <2>3, <2>4, <3>1, <3>2, <3>3, <3>4 DEF Sound
  <2>5. CASE g # t
    <3>1. g \in Valid /\ Sound(g)
      BY <1>0, <1>6, <2>1, <2>5, AllSound
    <3>2. members[g] \intersect Initialized \subseteq Valid \ regrouped /\ t \notin members[g]
      BY <1>6, <3>1 DEF Sound
    <3>3. cache'[g] = cache[g]
      BY <1>3, <2>1, <2>5
    <3>4. members[g] \intersect Initialized' \subseteq Valid' \ regrouped'
      BY <1>3, <1>6, <3>2
    <3> QED  BY <1>0, <2>3, <3>1, <3>2, <3>3, <3>4 DEF Sound
  <2> QED  BY <2>4, <2>5
<1> QED  BY <1>9, <1>10, <1>11, <1>12 DEF EInv

LEMMA EnvKeepsE ==
  ASSUME EInv, GInv, EnvStep
  PROVE  EInv'
<1>1. ASSUME NEW o \in Objects, InitializeObject(o) \/ UpdateObjectState(o) \/ RemoveObjectState(o)
      PROVE  EInv'
  <2>1. op = Idle /\ Invalidate(o) /\ UNCHANGED <<poolVars, cache, regrouped>>
    BY <1>1 DEF InitializeObject, UpdateObjectState, RemoveObjectState
  <2>2. PICK v \in Values \union {None} : value' = [value EXCEPT ![o] = v]
    BY <1>1 DEF InitializeObject, UpdateObjectState, RemoveObjectState
  <2> QED  BY <2>1, <2>2, ValueKeeps
<1>2. ASSUME NEW g \in Tracked, InitializeGroup(g) \/ GetGroupState(g) PROVE EInv'
  <2>1. g \in Groups
    BY ClientsAssumption
  <2> QED  BY <1>2, <2>1, InitializeGroupKeeps, GetGroupStateKeeps
<1> QED  BY <1>1, <1>2, InvalidateNextKeeps, ComputeMemberKeeps, ComputeDoneKeeps DEF EnvStep

LEMMA EKept == HInv /\ EInv /\ [Next]_vars => EInv'
<1> SUFFICES ASSUME HInv, EInv, [Next]_vars PROVE EInv'
  OBVIOUS
<1>1. GInv /\ GInv'
  BY GKept DEF HInv
<1>2. CASE UNCHANGED vars
  <2>1. UNCHANGED <<envVars, members, regrouped>> /\ locked' \subseteq groups'
    BY <1>2 DEF vars, poolVars, EInv, EnvTyped
  <2> QED  BY <2>1, NoRegroupKeeps
<1> QED  BY <1>1, <1>2, PoolKeepsE, EnvKeepsE DEF Next

\* At every step of a computation, a cached aggregate is the sum of its members, or the
\* path by which its group was reached tells who will drop or replace it.
THEOREM EnvironmentInvariant == Spec => [](HInv /\ EInv)
<1>1. Init => HInv /\ EInv
  BY HStarts, EStarts
<1>2. HInv /\ EInv /\ [Next]_vars => HInv' /\ EInv'
  BY HKept, EKept
<1> QED  BY <1>1, <1>2, PTL DEF Spec

\* Every variable keeps its type, whatever is deleted while it is indexed, cached or computed.
THEOREM TypeCorrect == Spec => []TypeOK
<1>1. HInv /\ EInv => TypeOK
  <2> SUFFICES ASSUME HInv, EInv PROVE TypeOK
    OBVIOUS
  <2>1. PoolTyped /\ GInv /\ EnvTyped /\ edges = Children
    BY Directions DEF HInv, GInv, EInv
  <2>2. /\ objects \subseteq Objects /\ groups \subseteq Groups /\ locked \subseteq groups
        /\ members \in [Groups -> SUBSET Ids]
    BY <2>1 DEF PoolTyped, EnvTyped
  <2>3. \A g \in Groups : g \notin groups => members[g] = {} /\ parent[g] = None /\ edges[g] = {}
    BY <2>1 DEF GInv, UndefinedIsEmpty, Children
  <2>4. parent \in [Groups -> groups \union {None}]
    <3>1. \A c \in Groups : parent[c] \in Groups => parent[c] \in groups
      BY <2>1 DEF GInv, OneHierarchy, UndefinedIsEmpty
    <3> QED  BY <2>1, <3>1 DEF PoolTyped
  <2>5. memberToGroups \in [Ids -> SUBSET groups]
    BY <2>1 DEF GInv, IndexAgrees, Listing
  <2>6. edges \in [Groups -> SUBSET groups]
    BY <2>1 DEF Children
  <2>7. /\ value \in [Objects -> Values \union {None}]
        /\ \A g \in Groups : cache[g] \in {None, Invalid} \/ cache[g] \in Aggregates
    BY <2>1 DEF EnvTyped, Coordinates
  <2>8. /\ op.kind \in {"idle", "invalidate", "compute"}
        /\ op.queue \subseteq Ids /\ op.visited \subseteq Groups
        /\ regrouped \subseteq Valid \union Computing
    BY <2>1 DEF EnvTyped
  <2>9. \A k \in DOMAIN op.stack : op.stack[k].id \in Groups /\ op.stack[k].list \subseteq Ids
    BY <2>1, StackFacts
  <2> QED  BY <2>2, <2>3, <2>4, <2>5, <2>6, <2>7, <2>8, <2>9 DEF TypeOK
<1> QED  BY <1>1, EnvironmentInvariant, PTL

-----------------------------------------------------------------------------
(* What is cached is what is there.                                        *)

\* What is below a group, by part of the hierarchy, is the group and what is below each
\* of the groups directly below it; nothing is there twice.
LEMMA BelowSplits ==
  ASSUME HInv, NEW Sub, \A h \in Groups : Sub[h] \subseteq members[h] \intersect Groups,
         NEW g \in Groups
  PROVE  /\ From(Sub, {g}) = {g} \union UNION {From(Sub, {s}) : s \in Sub[g]}
         /\ \A s \in Sub[g] : g \notin From(Sub, {s})
         /\ \A s, t \in Sub[g] : s # t => From(Sub, {s}) \intersect From(Sub, {t}) = {}
<1> DEFINE B(h) == From(Sub, {h})
<1>1. /\ Leads(Sub) /\ Leads(Children) /\ Sub[g] \subseteq Groups
      /\ \A h \in Groups : Sub[h] \subseteq Children[h]
  <2>1. \A h \in Groups : members[h] \intersect Groups \subseteq Children[h]
    BY IdsAssumption DEF HInv, GInv, PoolTyped, UndefinedIsEmpty, IndexAgrees, Children
  <2> QED  BY <2>1, Directions DEF HInv, Leads
<1>2. \A h \in Groups : h \in B(h) /\ B(h) \subseteq Groups /\ \A x \in B(h) : Sub[x] \subseteq B(h)
  <2> SUFFICES ASSUME NEW h \in Groups
               PROVE  h \in B(h) /\ B(h) \subseteq Groups /\ \A x \in B(h) : Sub[x] \subseteq B(h)
    OBVIOUS
  <2>1. {h} \in SUBSET Groups
    OBVIOUS
  <2> QED  BY <1>1, <2>1, FromIsClosed
<1>3. ASSUME NEW h \in Groups, NEW T, h \in T, \A x \in T \intersect Groups : Sub[x] \subseteq T
      PROVE  B(h) \subseteq T
  <2>1. {h} \in SUBSET Groups /\ {h} \subseteq T
    BY <1>3
  <2> QED  BY <1>1, <1>3, <2>1, FromIsLeast
<1> HIDE DEF B
\* A group is in the list of one group.
<1>4. \A x, y, c \in Groups : c \in Sub[x] /\ c \in Sub[y] => x = y
  <2>1. \A x, c \in Groups : c \in members[x] => parent[c] = x
    BY DEF HInv, GInv, OneHierarchy
  <2> QED  BY <2>1
\* What is below h and is not h is directly below something that is below h.
<1>5. ASSUME NEW h \in Groups, NEW c \in B(h), c # h PROVE \E x \in B(h) : c \in Sub[x]
  <2> DEFINE T == {h} \union UNION {Sub[x] : x \in B(h)}
  <2>1. T \subseteq B(h)
    BY <1>2
  <2>2. \A x \in T \intersect Groups : Sub[x] \subseteq T
    BY <2>1
  <2>3. h \in T
    OBVIOUS
  <2>4. B(h) \subseteq T
    <3> HIDE DEF T
    <3> QED  BY <2>2, <2>3, <1>3
  <2> QED  BY <1>5, <2>4
<1>6. ASSUME NEW s \in Sub[g] PROVE g \notin B(s) /\ s \in Groups
  <2> DEFINE T == From(Children, Children[g])
  <2>1. g \notin T
    BY DEF HInv, Acyclic
  <2>2. Children[g] \subseteq T /\ \A x \in T : Children[x] \subseteq T
    BY <1>1, FromIsClosed DEF Leads
  <2> HIDE DEF T
  <2>3. s \in Groups /\ s \in T /\ \A x \in T \intersect Groups : Sub[x] \subseteq T
    BY <1>1, <2>2
  <2> QED  BY <2>1, <2>3, <1>3
<1>7. ASSUME NEW s \in Sub[g], NEW t \in Sub[g], s # t PROVE B(s) \intersect B(t) = {}
  <2> DEFINE T == Groups \ B(t)
  <2>0. s \in Groups /\ t \in Groups
    BY <1>6
  <2>1. \A x \in Groups : s \in Sub[x] => x = g
    BY <1>4, <2>0
  <2>2. s \in T
    <3> SUFFICES ASSUME s \in B(t) PROVE FALSE
      BY <2>0
    <3>1. PICK x \in B(t) : s \in Sub[x]
      BY <1>5, <1>7, <2>0
    <3> QED  BY <3>1, <1>2, <1>6, <2>0, <2>1
  <2>3. ASSUME NEW x \in B(s) \intersect T, NEW c \in Sub[x] PROVE c \in T
    <3> SUFFICES ASSUME c \in B(t) PROVE FALSE
      BY <1>1, <2>3 DEF Leads
    <3>0. x \in Groups /\ c \in Groups /\ x # g
      BY <1>1, <1>2, <1>6, <2>0 DEF Leads
    <3>1. c # t
      BY <3>0, <1>4
    <3>2. PICK y \in B(t) : c \in Sub[y]
      BY <1>5, <2>0, <3>1
    <3>3. y = x
      BY <3>0, <3>2, <1>2, <1>4, <2>0
    <3> QED  BY <3>2, <3>3
  <2>4. B(s) \subseteq B(s) \intersect T
    <3> DEFINE U == B(s) \intersect T
    <3>1. s \in U /\ \A x \in U \intersect Groups : Sub[x] \subseteq U
      BY <1>2, <2>0, <2>2, <2>3
    <3> HIDE DEF U
    <3>2. B(s) \subseteq U
      BY <2>0, <3>1, <1>3
    <3> QED  BY <3>2 DEF U
  <2> QED  BY <2>4
<1>8. B(g) = {g} \union UNION {B(s) : s \in Sub[g]}
  <2> DEFINE T == {g} \union UNION {B(s) : s \in Sub[g]}
  <2>1. \A x \in T \intersect Groups : Sub[x] \subseteq T
    BY <1>2, <1>6
  <2>2. g \in T
    OBVIOUS
  <2>3. B(g) \subseteq T
    <3> HIDE DEF T
    <3> QED  BY <2>1, <2>2, <1>3
  <2>4. ASSUME NEW s \in Sub[g] PROVE B(s) \subseteq B(g)
    <3>1. s \in B(g) /\ \A x \in B(g) \intersect Groups : Sub[x] \subseteq B(g)
      BY <1>2
    <3> QED  BY <3>1, <1>3, <1>6
  <2>5. T \subseteq B(g)
    BY <2>4, <1>2
  <2> QED  BY <2>3, <2>5
<1> QED  BY <1>6, <1>7, <1>8 DEF B

\* A sum over what is below g is what g weighs and the sums over what is below each of the
\* groups directly below it.
LEMMA SumBelow ==
  ASSUME HInv, NEW Sub, \A h \in Groups : Sub[h] \subseteq members[h] \intersect Groups,
         NEW g \in Groups, NEW f \in [Groups -> Int],
         NEW sums, \A s \in Sub[g] : sums[s] = Sum(f, From(Sub, {s}))
  PROVE  Sum(f, From(Sub, {g})) = f[g] + Sum(sums, Sub[g])
<1> DEFINE B == [h \in Groups |-> From(Sub, {h})]
           rest == UNION {B[s] : s \in Sub[g]}
<1>1. Sub[g] \subseteq Groups
  OBVIOUS
<1>2. B[g] = {g} \union rest /\ g \notin rest
      /\ \A s, t \in Sub[g] : s # t => B[s] \intersect B[t] = {}
  <2>1. /\ From(Sub, {g}) = {g} \union UNION {From(Sub, {s}) : s \in Sub[g]}
        /\ \A s \in Sub[g] : g \notin From(Sub, {s})
        /\ \A s, t \in Sub[g] : s # t => From(Sub, {s}) \intersect From(Sub, {t}) = {}
    BY BelowSplits
  <2>2. B[g] = From(Sub, {g}) /\ \A s \in Sub[g] : B[s] = From(Sub, {s})
    BY <1>1
  <2> HIDE DEF B
  <2>3. UNION {From(Sub, {s}) : s \in Sub[g]} = rest
    BY <2>2
  <2>4. B[g] = {g} \union rest
    BY <2>1, <2>2, <2>3
  <2>5. g \notin rest
    <3>1. ASSUME NEW s \in Sub[g] PROVE g \notin B[s]
      <4>1. B[s] = From(Sub, {s}) /\ g \notin From(Sub, {s})
        BY <2>1, <2>2
      <4> QED  BY <4>1
    <3> QED  BY <3>1
  <2>6. \A s, t \in Sub[g] : s # t => B[s] \intersect B[t] = {}
    BY <2>1, <2>2
  <2> QED  BY <2>4, <2>5, <2>6
<1>3. \A h \in Groups : B[h] \subseteq Groups /\ IsFiniteSet(B[h]) /\ Weighs(f, B[h])
  <2> SUFFICES ASSUME NEW h \in Groups PROVE From(Sub, {h}) \subseteq Groups
    BY IdsAssumption, FS_Subset DEF Weighs
  <2>1. Leads(Sub) /\ {h} \in SUBSET Groups
    BY DEF Leads
  <2> QED  BY <2>1, FromIsClosed
<1>4. \A s \in Sub[g] : sums[s] = Sum(f, B[s])
  BY <1>1
<1>5. Sum(f, B[g]) = Sum(f, From(Sub, {g}))
  OBVIOUS
<1> HIDE DEF B
<1>6. IsFiniteSet(Sub[g])
  BY <1>1, IdsAssumption, FS_Subset
<1>7. Sum(f, rest) = Sum(sums, Sub[g]) /\ IsFiniteSet(rest)
  <2> DEFINE K == Sub[g]
  <2>1. IsFiniteSet(K) /\ Parts(B, K, f) /\ PartSums(sums, f, B, K)
    BY <1>1, <1>2, <1>3, <1>4, <1>6 DEF Parts, PartSums
  <2> HIDE DEF K
  <2>2. Sum(f, UNION {B[k] : k \in K}) = Sum(sums, K) /\ IsFiniteSet(UNION {B[k] : k \in K})
    BY <2>1, SumOfFamily
  <2> QED  BY <2>2 DEF K
<1> HIDE DEF rest
<1>8. rest \union {g} = B[g]
  BY <1>2
<1>9. Sum(f, rest \union {g}) = f[g] + Sum(f, rest)
  <2>1. Weighs(f, rest \union {g})
    BY <1>3, <1>8
  <2> QED  BY <1>2, <1>7, <2>1, SumMore
<1> QED  BY <1>5, <1>7, <1>8, <1>9

\* With no operation under way an aggregate that is not marked is the true one: by
\* induction over how many groups are below.
LEMMA SoundIsTrue ==
  ASSUME HInv, EInv, op = Idle
  PROVE  \A g \in Valid \ regrouped : cache[g] = TrueAggregate(g)
<1> DEFINE Sub == [h \in Groups |-> members[h] \intersect Initialized]
           objs(h) == {o \in members[h] \intersect Objects : value[o] # None}
           count == [h \in Groups |-> Cardinality(objs(h))]
           sum == [h \in Groups |-> Sum(value, objs(h))]
           B(g) == From(Sub, {g})
<1>1. value \in Coordinates /\ Valid \subseteq Initialized /\ Initialized \subseteq Groups
  BY StateAssumption DEF EInv, EnvTyped, Valid, Initialized
<1>2. \A h \in Groups : Sub[h] \subseteq members[h] \intersect Groups /\ Sub[h] \subseteq Groups
  BY <1>1
<1>3. count \in [Groups -> Int] /\ sum \in [Groups -> Int]
  <2> SUFFICES ASSUME NEW h \in Groups PROVE Cardinality(objs(h)) \in Int /\ Sum(value, objs(h)) \in Int
    OBVIOUS
  <2>1. objs(h) \subseteq {o \in Objects : value[o] # None}
    OBVIOUS
  <2>2. IsFiniteSet(objs(h)) /\ Weighs(value, objs(h))
    BY <1>1, <2>1, CoordinatesWeigh
  <2> HIDE DEF objs
  <2>3. Cardinality(objs(h)) \in Nat
    BY <2>2, FS_CardinalityType
  <2>4. Sum(value, objs(h)) \in Int
    BY <2>2, SumRecursive
  <2> QED  BY <2>3, <2>4
<1>4. Leads(Sub)
  BY <1>2 DEF Leads
<1>5. \A g \in Groups : g \in B(g) /\ B(g) \subseteq Groups /\ IsFiniteSet(B(g)) /\ Cardinality(B(g)) \in Nat
  <2> SUFFICES ASSUME NEW g \in Groups PROVE g \in B(g) /\ B(g) \subseteq Groups
    BY IdsAssumption, FS_Subset, FS_CardinalityType
  <2>1. {g} \in SUBSET Groups
    OBVIOUS
  <2> HIDE DEF Sub
  <2> QED  BY <1>4, <2>1, FromIsClosed
<1>6. ASSUME NEW g \in Groups
      PROVE  TrueAggregate(g) = [count |-> Sum(count, B(g)), sum |-> Sum(sum, B(g))]
  <2> DEFINE cs == [h \in B(g) |-> Cardinality(objs(h))]
             ss == [h \in B(g) |-> Sum(value, objs(h))]
  <2>1. TrueAggregate(g) = [count |-> Sum(cs, B(g)), sum |-> Sum(ss, B(g))]
    BY DEF TrueAggregate
  <2>2. Weighs(count, B(g)) /\ Weighs(sum, B(g)) /\ IsFiniteSet(B(g))
    <3> HIDE DEF B, count, sum
    <3> QED  BY <1>3, <1>5 DEF Weighs
  <2>3. \A h \in B(g) : cs[h] = count[h] /\ ss[h] = sum[h]
    <3>1. B(g) \subseteq Groups
      BY <1>5
    <3> HIDE DEF B, objs
    <3> QED  BY <3>1
  <2> HIDE DEF B, cs, ss, count, sum
  <2>4. Sum(count, B(g)) = Sum(cs, B(g)) /\ Sum(sum, B(g)) = Sum(ss, B(g))
    BY <2>2, <2>3, SumAgrees
  <2> QED  BY <2>1, <2>4
\* What is computed for g, when the groups directly below it have their true aggregates.
<1>7. ASSUME NEW g \in Groups, \A s \in Sub[g] : cache[s] = TrueAggregate(s)
      PROVE  Aggregate(members[g], value, cache) = TrueAggregate(g)
  <2> DEFINE cs == [s \in Sub[g] |-> cache[s].count]
             ss == [s \in Sub[g] |-> cache[s].sum]
  <2>1. Sub[g] = members[g] \intersect {h \in Groups : cache[h] # None}
    BY DEF Initialized
  <2>2. Aggregate(members[g], value, cache) = [count |-> count[g] + Sum(cs, Sub[g]),
                                               sum   |-> sum[g] + Sum(ss, Sub[g])]
    <3>1. count[g] = Cardinality(objs(g)) /\ sum[g] = Sum(value, objs(g))
      BY <1>7
    <3> HIDE DEF count, sum, Sub
    <3> QED  BY <2>1, <3>1 DEF Aggregate
  <2>3. \A s \in Sub[g] : cs[s] = Sum(count, B(s)) /\ ss[s] = Sum(sum, B(s))
    <3> HIDE DEF Sub, count, sum, B
    <3> QED  BY <1>2, <1>6, <1>7
  <2> HIDE DEF Sub, count, sum, cs, ss
  <2>4. Sum(count, B(g)) = count[g] + Sum(cs, Sub[g])
    BY <1>2, <1>3, <2>3, SumBelow
  <2>5. Sum(sum, B(g)) = sum[g] + Sum(ss, Sub[g])
    BY <1>2, <1>3, <2>3, SumBelow
  <2> QED  BY <1>6, <2>2, <2>4, <2>5
<1> HIDE DEF count, sum
<1>8. ASSUME NEW g \in Groups, NEW s \in Sub[g] PROVE Cardinality(B(s)) < Cardinality(B(g))
  <2> HIDE DEF Sub
  <2>1. s \in Groups
    BY <1>2
  <2>2. B(s) \subseteq B(g) /\ g \notin B(s)
    BY <1>2, BelowSplits
  <2>3. B(s) # B(g)
    BY <2>2, <1>5
  <2> HIDE DEF B
  <2>4. Cardinality(B(s)) <= Cardinality(B(g)) /\ Cardinality(B(s)) # Cardinality(B(g))
    BY <1>5, <2>2, <2>3, FS_Subset
  <2> QED  BY <1>5, <2>1, <2>4
<1> DEFINE True == {n \in Nat : \A g \in Valid \ regrouped :
                                   Cardinality(B(g)) <= n => cache[g] = TrueAggregate(g)}
<1>9. \A g \in Valid \ regrouped : /\ g \in Groups /\ Sub[g] \subseteq Valid \ regrouped
                                   /\ cache[g] = Aggregate(members[g], value, cache)
  <2>1. op.kind # "invalidate"
    BY DEF Idle
  <2> QED  BY <2>1, <1>1, AllSound DEF Sound
<1> HIDE DEF Sub, objs, B
<1>10. 0 \in True
  <2> SUFFICES ASSUME NEW g \in Valid \ regrouped, Cardinality(B(g)) <= 0 PROVE FALSE
    OBVIOUS
  <2>1. Cardinality(B(g)) = 0 /\ IsFiniteSet(B(g)) /\ g \in B(g)
    BY <1>5, <1>9
  <2> QED  BY <2>1, FS_EmptySet
<1>11. \A n \in Nat : n \in True => n + 1 \in True
  <2> SUFFICES ASSUME NEW n \in Nat, n \in True, NEW g \in Valid \ regrouped, Cardinality(B(g)) <= n + 1
               PROVE  cache[g] = TrueAggregate(g)
    OBVIOUS
  <2>1. g \in Groups
    BY <1>9
  <2>2. ASSUME NEW s \in Sub[g] PROVE cache[s] = TrueAggregate(s)
    <3>1. s \in Valid \ regrouped /\ s \in Groups
      BY <1>9
    <3>2. Cardinality(B(s)) <= n
      BY <1>5, <1>8, <2>1, <3>1
    <3> QED  BY <3>1, <3>2
  <2> QED  BY <1>7, <1>9, <2>1, <2>2
<1>12. \A n \in Nat : n \in True
  <2> HIDE DEF True
  <2> QED  BY <1>10, <1>11, Successors
<1> QED  BY <1>5, <1>9, <1>12

\* For any objects, groups and coordinates: with no operation under way a cached aggregate
\* counts exactly the objects in and below its group that have a state, with the values
\* they have now, unless the membership below has changed since; though invalidation and
\* computation take many steps and the pool changes between any two of them.
THEOREM AggregatesAreFresh == Spec => []FreshUnlessRegrouped
<1>1. HInv /\ EInv => FreshUnlessRegrouped
  BY SoundIsTrue DEF FreshUnlessRegrouped
<1> QED  BY <1>1, EnvironmentInvariant, PTL

=============================================================================
