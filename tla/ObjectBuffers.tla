--------------------------- MODULE ObjectBuffers ---------------------------
(***************************************************************************)
(* The objects under the double buffer: engine.Object by address, shared   *)
(* by reference between the two buffers, the snapshots handed to clients   *)
(* and the object pool (state.go, pool.go, applyFn in world.go).           *)
(*                                                                         *)
(* Simulation keeps the contents of whole buffers; this module asks which  *)
(* buffer an object belongs to.  A clone copies the named bodies and the   *)
(* visible belt objects and shares the invisible ones; a clone swap takes  *)
(* its copies from the pool and gives those of the old front buffer back.  *)
(***************************************************************************)
EXTENDS Integers, FiniteSets

CONSTANTS
  Slots,        \* places in SimulationState.Objects
  DatasetOf,    \* slot -> dataset level of its object, -1 for a named body
  HeapSize,     \* bound: the number of addresses
  Holders,      \* goroutines that hold a snapshot
  Systems,      \* subset of {"belted", "bare"}: the systems explored
  CanToggle,    \* system -> the in-place swap setting is changed at run time
  None          \* no address, no snapshot

ASSUME SlotsAssumption ==
  Slots \subseteq Nat /\ IsFiniteSet(Slots) /\ DatasetOf \in [Slots -> {-1} \union Nat]
ASSUME SystemsAssumption ==
  Systems \subseteq {"belted", "bare"} /\ CanToggle \in [Systems -> BOOLEAN]
\* Two buffers fit.
ASSUME HeapAssumption == HeapSize \in Nat /\ 2 * Cardinality(Slots) <= HeapSize

Heap == 1 .. HeapSize

ASSUME NoneAssumption == None \notin Heap /\ None \notin Slots

Levels == {DatasetOf[s] : s \in Slots} \union {0}

VARIABLES
  system,      \* whether the loaded system has belts, never changed
  heap,        \* address -> object
  front, back, \* slot -> address, None where no object has been allocated
  inPlace,     \* DoubleBuffer.useInPlaceSwap
  pool,        \* addresses in ObjectPool
  level,       \* CurrentDataset of the back buffer
  pc,          \* where the simulation goroutine is
  snap,        \* holder -> its snapshot (slot -> address), or None
  taken        \* holder -> the objects of its snapshot as they were then

vars == <<system, heap, front, back, inPlace, pool, level, pc, snap, taken>>

Object == [name : Slots \union {None}, visible : BOOLEAN, age : {0, 1}, pooled : BOOLEAN]

\* Object{}: what Borrow and Return reset an object to.
Zero == [name |-> None, visible |-> FALSE, age |-> 0, pooled |-> FALSE]

Named(o) == o.name # None /\ DatasetOf[o.name] = -1

\* The objects a buffer or snapshot refers to.
Refs(b) == {b[s] : s \in Slots} \ {None}

Held == UNION {Refs(snap[h]) : h \in {x \in Holders : snap[x] # None}}

\* Addresses the allocator can hand out: nothing refers to them any more.
Fresh == Heap \ (Refs(front) \union Refs(back) \union Held \union pool)

Contents(b) == [s \in Slots |-> IF b[s] = None THEN Zero ELSE heap[b[s]]]

-----------------------------------------------------------------------------
(* clone: which objects are copied, and into what.                         *)

\* Mutant: only the named bodies are copied, belt objects are always shared.
CopiedNamed(b) == {s \in Slots : b[s] # None /\ Named(heap[b[s]])}

\* The strategy of clone: copy the named bodies and whatever is visible.
Copied(b) == {s \in Slots : b[s] # None /\ (Named(heap[b[s]]) \/ heap[b[s]].visible)}

\* The objects of the slots S are placed at the addresses A, in order.  (Addresses
\* are interchangeable: which free one an object gets makes no difference.)
Rank(x, X) == Cardinality({y \in X : y <= x})
Placed(S, A) == [s \in S |-> CHOOSE a \in A : Rank(a, A) = Rank(s, S)]

\* The n least of a set of addresses.
Least(n, A) == {a \in A : Rank(a, A) <= n}

\* Bound: an allocation waits for the collector when the addresses run out.
Room(n) == n <= Cardinality(Fresh)

\* What is no longer referred to is collected.
Swept(h, live) == [a \in Heap |-> IF a \in live THEN h[a] ELSE Zero]

CloneOf(b, p) == [s \in Slots |-> IF s \in DOMAIN p THEN p[s] ELSE b[s]]

\* The heap after the copies have been filled in.
Filled(b, p, isPooled) ==
  [a \in Heap |->
     IF \E s \in DOMAIN p : p[s] = a
     THEN [heap[b[CHOOSE s \in DOMAIN p : p[s] = a]] EXCEPT !.pooled = isPooled]
     ELSE heap[a]]

-----------------------------------------------------------------------------
\* NewSimulation on a state whose belt objects are those of level 0, all shown.
Init ==
  /\ system \in Systems
  /\ LET there == {s \in Slots : DatasetOf[s] = -1 \/ (system = "belted" /\ DatasetOf[s] = 0)}
         n == Cardinality(there)
         f == Placed(there, Least(n, Heap))
         b == Placed(there, Least(2 * n, Heap) \ Least(n, Heap))
     IN /\ front = [s \in Slots |-> IF s \in there THEN f[s] ELSE None]
        /\ back  = [s \in Slots |-> IF s \in there THEN b[s] ELSE None]
        /\ heap = [a \in Heap |->
             IF \E s \in there : a \in {f[s], b[s]}
             THEN [Zero EXCEPT !.name = CHOOSE s \in there : a \in {f[s], b[s]},
                               !.visible = TRUE]
             ELSE Zero]
  /\ inPlace \in BOOLEAN /\ (system = "belted" => inPlace)
  /\ pool = {} /\ level = 0 /\ pc = "loop"
  /\ snap = [h \in Holders |-> None] /\ taken = [h \in Holders |-> None]

\* update moves the visible objects of the back buffer.
Step ==
  /\ pc = "loop"
  /\ pc' = "swap"
  /\ heap' = [a \in Heap |->
       IF a \in Refs(back) /\ heap[a].visible THEN [heap[a] EXCEPT !.age = 1 - @] ELSE heap[a]]
  /\ UNCHANGED <<system, front, back, inPlace, pool, level, snap, taken>>

\* SwapInPlace: the buffers change places and the new back one is brought up to date,
\* slot by slot.
SwapInPlace ==
  /\ pc = "swap" /\ inPlace
  /\ front' = back /\ back' = front
  /\ heap' = [a \in Heap |->
       IF a \in Refs(front)
       THEN LET s == CHOOSE s \in Slots : front[s] = a
            IN [heap[a] EXCEPT !.age = heap[back[s]].age, !.visible = heap[back[s]].visible]
       ELSE heap[a]]
  /\ pc' = "loop"
  /\ UNCHANGED <<system, inPlace, pool, level, snap, taken>>

\* Mutant: the pooled objects of the wrong buffer are returned.
ReturnedBack == {a \in Refs(back) : heap[a].pooled}

\* ReleasePooledObjects returns only what the pool handed out.
Returned == {a \in Refs(front) : heap[a].pooled}

\* CloneWithPool, then ReleasePooledObjects on the old front buffer.  The pool may
\* allocate although it holds objects.
SwapClone ==
  /\ pc = "swap" /\ ~inPlace
  /\ \E reused \in SUBSET pool :
       LET S == Copied(back)
           p == Placed(S, reused \union Least(Cardinality(S) - Cardinality(reused), Fresh))
           filled == Filled(back, p, TRUE)
       IN /\ Cardinality(reused) <= Cardinality(S)
          /\ Room(Cardinality(S) - Cardinality(reused))
          /\ front' = CloneOf(back, p)
          /\ pool' = (pool \ reused) \union Returned
          /\ heap' = Swept([a \in Heap |-> IF a \in Returned THEN Zero ELSE filled[a]],
                           Refs(front') \union Refs(back) \union Held)
  /\ pc' = "loop"
  /\ UNCHANGED <<system, back, inPlace, level, snap, taken>>

\* The garbage collector empties a sync.Pool.
Purge ==
  /\ pool # {} /\ pool' = {}
  /\ UNCHANGED <<system, heap, front, back, inPlace, level, pc, snap, taken>>

\* The addresses of a level's new objects in the front buffer, and in the back one.
Mirrored(new) == Placed(new, Least(Cardinality(new), Fresh))
Grown(new) == Placed(new, Least(2 * Cardinality(new), Fresh) \ Least(Cardinality(new), Fresh))

\* applyFn until its last lock: a level asked for the first time gets its objects in
\* both buffers and switches in-place swap on; then the back buffer shows the level.
ShowBack(l) ==
  /\ pc = "loop" /\ system = "belted" /\ l # level
  /\ LET new == {s \in Slots : DatasetOf[s] = l /\ back[s] = None}
         At(a) == {s \in new : a \in {front'[s], back'[s]}} IN
       /\ Room(2 * Cardinality(new))
       /\ front' = CloneOf(front, Mirrored(new)) /\ back' = CloneOf(back, Grown(new))
       /\ inPlace' = (inPlace \/ new # {})
       /\ heap' = [a \in Heap |->
            IF At(a) # {}
            THEN [Zero EXCEPT !.name = CHOOSE s \in At(a) : TRUE, !.visible = TRUE]
            ELSE IF a \in Refs(back) /\ heap[a].name # None /\ ~Named(heap[a])
            THEN [heap[a] EXCEPT !.visible = DatasetOf[heap[a].name] <= l]
            ELSE heap[a]]
  /\ level' = l
  /\ pc' = "show"
  /\ UNCHANGED <<system, pool, snap, taken>>

\* applyFn's last lock: the front buffer shows the level too.
ShowFront ==
  /\ pc = "show"
  /\ heap' = [a \in Heap |->
       IF a \in Refs(front) /\ heap[a].name # None /\ ~Named(heap[a])
       THEN [heap[a] EXCEPT !.visible = DatasetOf[heap[a].name] <= level]
       ELSE heap[a]]
  /\ pc' = "loop"
  /\ UNCHANGED <<system, front, back, inPlace, pool, level, snap, taken>>

\* Snapshot: LockFront, Clone without the pool, UnlockFront.
Snapshot(h) ==
  /\ snap[h] = None
  /\ Room(Cardinality(Copied(front)))
  /\ LET p == Placed(Copied(front), Least(Cardinality(Copied(front)), Fresh)) IN
       /\ snap' = [snap EXCEPT ![h] = CloneOf(front, p)]
       /\ heap' = Filled(front, p, FALSE)
  /\ taken' = [taken EXCEPT ![h] =
       [s \in Slots |-> [Contents(front)[s] EXCEPT !.pooled = FALSE]]]
  /\ UNCHANGED <<system, front, back, inPlace, pool, level, pc>>

\* The holder is done with its snapshot.
Forget(h) ==
  /\ snap[h] # None
  /\ snap' = [snap EXCEPT ![h] = None] /\ taken' = [taken EXCEPT ![h] = None]
  /\ heap' = Swept(heap, Refs(front) \union Refs(back)
                          \union UNION {Refs(snap[x]) : x \in {y \in Holders \ {h} : snap[y] # None}})
  /\ UNCHANGED <<system, front, back, inPlace, pool, level, pc>>

\* The in-place swap setting of the performance panel.
SetInPlaceSwap(on) ==
  /\ CanToggle[system] /\ on # inPlace
  /\ inPlace' = on
  /\ UNCHANGED <<system, heap, front, back, pool, level, pc, snap, taken>>

Next ==
  \/ Step \/ SwapInPlace \/ SwapClone \/ Purge \/ ShowFront
  \/ \E l \in Levels \ {-1} : ShowBack(l)
  \/ \E h \in Holders : Snapshot(h) \/ Forget(h)
  \/ \E on \in BOOLEAN : SetInPlaceSwap(on)

Spec == Init /\ [][Next]_vars

-----------------------------------------------------------------------------
TypeOK ==
  /\ system \in Systems
  /\ heap \in [Heap -> Object]
  /\ front \in [Slots -> Heap \union {None}] /\ back \in [Slots -> Heap \union {None}]
  /\ inPlace \in BOOLEAN /\ pool \subseteq Heap
  /\ level \in Levels \ {-1} /\ pc \in {"loop", "show", "swap"}
  /\ snap \in [Holders -> [Slots -> Heap \union {None}] \union {None}]
  /\ taken \in [Holders -> [Slots -> Object] \union {None}]

\* An object in the pool may be handed out and overwritten at any swap: no buffer
\* and no snapshot refers to it (ReleasePooledObjects, Return).
PoolIsFree == pool \intersect (Refs(front) \union Refs(back) \union Held) = {}

\* Nothing the simulation writes without a lock is on show: the objects of the back
\* buffer are neither in the front buffer nor visible ones of a snapshot, and those in
\* the pool, which may be handed out and written at any swap, are in neither.
BackIsPrivate ==
  /\ PoolIsFree
  /\ Refs(front) \intersect Refs(back) = {}
  /\ \A h \in Holders : snap[h] # None =>
       \A s \in Slots : taken[h][s].visible => snap[h][s] \notin Refs(back)

\* What a snapshot showed stays as it was for as long as it is held
\* (the visible bodies of WorldSnapshot).
ShownStays ==
  \A h \in Holders : snap[h] # None =>
    \A s \in Slots : taken[h][s].visible =>
      [heap[snap[h][s]] EXCEPT !.pooled = FALSE] = taken[h][s]

\* A snapshot is a copy: it is safe to read after Snapshot() returned, whatever the
\* simulation does (WorldSnapshot.State).
SnapshotStays ==
  \A h \in Holders : snap[h] # None =>
    \A s \in Slots : snap[h][s] # None =>
      [heap[snap[h][s]] EXCEPT !.pooled = FALSE] = taken[h][s]

=============================================================================
