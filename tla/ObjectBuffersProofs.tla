------------------------- MODULE ObjectBuffersProofs -------------------------
(***************************************************************************)
(* Theorems about the objects under the double buffer, for any slots,      *)
(* levels, holders and addresses: what the simulation writes to is in no   *)
(* other buffer and not on show, and what a snapshot shows stays.          *)
(***************************************************************************)
EXTENDS ObjectBuffers, FiniteSetTheorems, FunctionTheorems, TLAPS

-----------------------------------------------------------------------------
(* The placement of objects.                                               *)

\* The rank numbers the elements of a finite set of naturals.
LEMMA RankNumbers ==
  ASSUME NEW X \in SUBSET Nat, IsFiniteSet(X)
  PROVE  /\ Cardinality(X) \in Nat
         /\ \A x \in X : Rank(x, X) \in 1 .. Cardinality(X)
         /\ \A x, y \in X : Rank(x, X) = Rank(y, X) => x = y
         /\ \A k \in 1 .. Cardinality(X) : \E x \in X : Rank(x, X) = k
<1> DEFINE n == Cardinality(X)
           r == [x \in X |-> Rank(x, X)]
           upto(x) == {y \in X : y <= x}
<1>1. n \in Nat
  BY FS_CardinalityType
<1>2. ASSUME NEW x \in X PROVE IsFiniteSet(upto(x)) /\ Cardinality(upto(x)) \in 1 .. n
  <2>1. upto(x) \in SUBSET X /\ x \in upto(x)
    OBVIOUS
  <2>2. IsFiniteSet(upto(x)) /\ Cardinality(upto(x)) <= n
    BY <2>1, FS_Subset
  <2>3. Cardinality(upto(x)) \in Nat /\ Cardinality(upto(x)) # 0
    BY <2>1, <2>2, FS_CardinalityType, FS_EmptySet
  <2> QED  BY <1>1, <2>2, <2>3
<1>3. \A x \in X : Rank(x, X) \in 1 .. n
  BY <1>2 DEF Rank
<1>4. ASSUME NEW x \in X, NEW y \in X, x < y PROVE Rank(x, X) # Rank(y, X)
  <2>1. \A z \in upto(x) : z \in upto(y)
    BY <1>4
  <2>2. y \in upto(y) /\ y \notin upto(x)
    BY <1>4
  <2>3. upto(x) \in SUBSET upto(y) /\ upto(x) # upto(y)
    BY <2>1, <2>2
  <2>4. Cardinality(upto(x)) # Cardinality(upto(y))
    <3> HIDE DEF upto
    <3> QED  BY <2>3, <1>2, FS_Subset
  <2> QED  BY <2>4 DEF Rank
<1>5. \A x, y \in X : Rank(x, X) = Rank(y, X) => x = y
  <2> SUFFICES ASSUME NEW x \in X, NEW y \in X, x # y PROVE Rank(x, X) # Rank(y, X)
    OBVIOUS
  <2>1. x < y \/ y < x
    OBVIOUS
  <2> QED  BY <2>1, <1>4
<1>6. r \in [X -> 1 .. n] /\ \A x, y \in X : r[x] = r[y] => x = y
  BY <1>3, <1>5
<1>7. IsFiniteSet(1 .. n) /\ Cardinality(1 .. n) = n
  BY <1>1, FS_Interval
<1>8. \A k \in 1 .. n : \E x \in X : r[x] = k
  <2> HIDE DEF r, n
  <2>1. r \in Injection(X, 1 .. n)
    BY <1>6, Fun_IsInj
  <2>2. r \in Surjection(X, 1 .. n)
    BY <2>1, <1>7, FS_Injection DEF n
  <2> QED  BY <2>2, Fun_SurjectionProperties
<1>9. \A k \in 1 .. n : \E x \in X : Rank(x, X) = k
  BY <1>8
<1> QED  BY <1>1, <1>3, <1>5, <1>9

\* The n least of a set of addresses are n.
LEMMA LeastCount ==
  ASSUME NEW A \in SUBSET Nat, IsFiniteSet(A), NEW n \in Nat, n <= Cardinality(A)
  PROVE  /\ Least(n, A) \in SUBSET A /\ IsFiniteSet(Least(n, A))
         /\ Cardinality(Least(n, A)) = n
<1> DEFINE L == Least(n, A)
           q == [x \in L |-> Rank(x, A)]
<1>1. /\ Cardinality(A) \in Nat
      /\ \A x \in A : Rank(x, A) \in 1 .. Cardinality(A)
      /\ \A x, y \in A : Rank(x, A) = Rank(y, A) => x = y
      /\ \A k \in 1 .. Cardinality(A) : \E x \in A : Rank(x, A) = k
  BY RankNumbers
<1>2. L \in SUBSET A /\ IsFiniteSet(L)
  BY FS_Subset DEF Least
<1>3. \A x \in L : Rank(x, A) \in 1 .. n
  BY <1>1 DEF Least
<1>4. q \in [L -> 1 .. n]
  BY <1>3
<1>5. \A x, y \in L : q[x] = q[y] => x = y
  BY <1>1, <1>2
<1>6. \A k \in 1 .. n : \E x \in L : q[x] = k
  <2> SUFFICES ASSUME NEW k \in 1 .. n PROVE \E x \in L : q[x] = k
    OBVIOUS
  <2>1. k \in 1 .. Cardinality(A)
    BY <1>1
  <2>2. PICK x \in A : Rank(x, A) = k
    BY <1>1, <2>1
  <2>3. x \in L
    BY <2>2 DEF Least
  <2> QED  BY <2>2, <2>3
<1>7. q \in Injection(L, 1 .. n) /\ q \in Surjection(L, 1 .. n)
  <2> HIDE DEF q, L
  <2> QED  BY <1>4, <1>5, <1>6, Fun_IsInj, Fun_IsSurj
<1>8. IsFiniteSet(1 .. n) /\ Cardinality(1 .. n) = n
  BY FS_Interval
<1>9. Cardinality(L) = n
  <2> HIDE DEF q, L
  <2> QED  BY <1>7, <1>8, FS_Injection
<1> QED  BY <1>2, <1>9

\* As many objects as addresses: each is placed at an address of its own.
LEMMA Placement ==
  ASSUME NEW S \in SUBSET Nat, IsFiniteSet(S), NEW A \in SUBSET Nat, IsFiniteSet(A),
         Cardinality(S) = Cardinality(A)
  PROVE  /\ Placed(S, A) \in [S -> A]
         /\ \A s, t \in S : Placed(S, A)[s] = Placed(S, A)[t] => s = t
<1>1. /\ \A s \in S : Rank(s, S) \in 1 .. Cardinality(S)
      /\ \A s, t \in S : Rank(s, S) = Rank(t, S) => s = t
  BY RankNumbers
<1>2. \A k \in 1 .. Cardinality(S) : \E a \in A : Rank(a, A) = k
  BY RankNumbers
<1>3. \A s \in S : Placed(S, A)[s] \in A /\ Rank(Placed(S, A)[s], A) = Rank(s, S)
  <2> SUFFICES ASSUME NEW s \in S
               PROVE  Placed(S, A)[s] \in A /\ Rank(Placed(S, A)[s], A) = Rank(s, S)
    OBVIOUS
  <2>1. \E a \in A : Rank(a, A) = Rank(s, S)
    BY <1>1, <1>2
  <2>2. Placed(S, A)[s] = CHOOSE a \in A : Rank(a, A) = Rank(s, S)
    BY DEF Placed
  <2> QED  BY <2>1, <2>2
<1>4. Placed(S, A) \in [S -> A]
  BY <1>3 DEF Placed
<1>5. ASSUME NEW s \in S, NEW t \in S, Placed(S, A)[s] = Placed(S, A)[t] PROVE s = t
  BY <1>1, <1>3, <1>5
<1> QED  BY <1>4, <1>5

-----------------------------------------------------------------------------
(* The inductive invariant.                                                *)

\* How the swap setting is used: it stays where a system has belts.  Otherwise a pooled
\* object that is shared would return to the pool (pool_alias.cfg).
Disciplined == "belted" \in Systems => ~CanToggle["belted"]

\* An object keeps its slot, and both buffers have objects in the same slots.
Labelled ==
  \A s \in Slots :
    /\ front[s] # None => heap[front[s]].name = s
    /\ back[s] # None => heap[back[s]].name = s
    /\ front[s] = None <=> back[s] = None

\* With belts nothing is ever in the pool; without, there are named bodies only and so
\* nothing is shared with a snapshot.
Kinds ==
  /\ system = "belted" => inPlace /\ pool = {}
  /\ system = "bare" =>
       /\ \A s \in Slots : front[s] # None => DatasetOf[s] = -1
       /\ (Refs(front) \union Refs(back)) \intersect Held = {}

Apart == Refs(front) \intersect Refs(back) = {}

\* A snapshot's visible objects were copied for it alone.
Copies ==
  \A h \in Holders : snap[h] # None =>
    /\ taken[h] \in [Slots -> Object]
    /\ \A s \in Slots : taken[h][s].visible =>
         snap[h][s] \in Heap \ (Refs(front) \union Refs(back))

OInv ==
  TypeOK /\ Labelled /\ Kinds /\ Apart /\ PoolIsFree /\ Copies /\ ShownStays

-----------------------------------------------------------------------------
(* What the operators of the model do.                                     *)

LEMMA FreshFacts ==
  /\ Fresh \in SUBSET Nat /\ IsFiniteSet(Fresh) /\ Fresh \subseteq Heap
  /\ Fresh \intersect (Refs(front) \union Refs(back) \union Held \union pool) = {}
<1>1. Heap \subseteq Nat /\ IsFiniteSet(Heap)
  BY HeapAssumption, FS_Interval DEF Heap
<1>2. Fresh \in SUBSET Heap
  BY DEF Fresh
<1>3. IsFiniteSet(Fresh)
  BY <1>1, <1>2, FS_Subset
<1> QED  BY <1>1, <1>2, <1>3 DEF Fresh

LEMMA SlotsFinite ==
  ASSUME NEW S \in SUBSET Slots
  PROVE  S \in SUBSET Nat /\ IsFiniteSet(S) /\ Cardinality(S) \in Nat
BY SlotsAssumption, FS_Subset, FS_CardinalityType

\* An allocation that found room puts each object at a fresh address of its own.
LEMMA Allocation ==
  ASSUME NEW S \in SUBSET Slots, Room(Cardinality(S)),
         NEW p, p = Placed(S, Least(Cardinality(S), Fresh))
  PROVE  p \in [S -> Fresh] /\ \A s, t \in S : p[s] = p[t] => s = t
<1> DEFINE A == Least(Cardinality(S), Fresh)
<1>1. A \in SUBSET Fresh /\ IsFiniteSet(A) /\ Cardinality(A) = Cardinality(S)
  BY SlotsFinite, FreshFacts, LeastCount DEF Room
<1>2. A \in SUBSET Nat
  BY <1>1, FreshFacts
<1>3. p \in [S -> A] /\ \A s, t \in S : p[s] = p[t] => s = t
  <2> HIDE DEF A
  <2> QED  BY <1>1, <1>2, SlotsFinite, Placement DEF A
<1> QED  BY <1>1, <1>3

CopyOf(o, k) == [o EXCEPT !.pooled = k]

\* Filled, of any heap.
FilledIn(h, b, p, k) ==
  [a \in Heap |->
     IF \E s \in DOMAIN p : p[s] = a
     THEN CopyOf(h[b[CHOOSE s \in DOMAIN p : p[s] = a]], k)
     ELSE h[a]]

\* Each copy is at its address, and nothing else of the heap changes.
LEMMA FilledFacts ==
  ASSUME NEW h, NEW b, NEW S, NEW p \in [S -> Heap], NEW k,
         \A s, t \in S : p[s] = p[t] => s = t
  PROVE  /\ \A s \in S : FilledIn(h, b, p, k)[p[s]] = CopyOf(h[b[s]], k)
         /\ \A a \in Heap : (\A s \in S : p[s] # a) => FilledIn(h, b, p, k)[a] = h[a]
<1>1. ASSUME NEW s \in S PROVE FilledIn(h, b, p, k)[p[s]] = CopyOf(h[b[s]], k)
  <2>1. \E t \in DOMAIN p : p[t] = p[s]
    OBVIOUS
  <2>2. (CHOOSE t \in DOMAIN p : p[t] = p[s]) = s
    OBVIOUS
  <2> QED  BY <2>1, <2>2 DEF FilledIn
<1> QED  BY <1>1 DEF FilledIn

\* Where an object is copied to, and where it is shared.
LEMMA CloneFacts ==
  ASSUME NEW b \in [Slots -> Heap \union {None}], NEW S \in SUBSET Slots,
         NEW p \in [S -> Heap]
  PROVE  /\ CloneOf(b, p) \in [Slots -> Heap \union {None}]
         /\ \A s \in S : CloneOf(b, p)[s] = p[s]
         /\ \A s \in Slots \ S : CloneOf(b, p)[s] = b[s]
BY DEF CloneOf

LEMMA RefsFacts ==
  ASSUME NEW b \in [Slots -> Heap \union {None}]
  PROVE  /\ Refs(b) \subseteq Heap /\ None \notin Heap
         /\ \A s \in Slots : b[s] # None => b[s] \in Refs(b)
         /\ \A a \in Refs(b) : \E s \in Slots : b[s] = a /\ a # None
BY NoneAssumption DEF Refs

\* Snapshots stay what they were if nothing is written to the copies they show.
LEMMA ShownKept ==
  ASSUME Copies, ShownStays, snap' = snap, taken' = taken,
         \A h \in Holders, s \in Slots :
            snap[h] # None /\ taken[h][s].visible => heap'[snap[h][s]] = heap[snap[h][s]]
  PROVE  ShownStays'
BY DEF ShownStays, Copies

\* What is written to is in a buffer, fresh or in the pool, so not in a shown copy.
LEMMA CopiesUntouched ==
  ASSUME OInv, NEW h \in Holders, NEW s \in Slots, snap[h] # None, taken[h][s].visible
  PROVE  /\ snap[h][s] \in Heap /\ snap[h][s] \in Held
         /\ snap[h][s] \notin Refs(front) \union Refs(back) \union pool \union Fresh
<1>1. snap[h] \in [Slots -> Heap \union {None}]
  BY DEF OInv, TypeOK
<1>2. snap[h][s] \in Heap \ (Refs(front) \union Refs(back))
  BY DEF OInv, Copies
<1>3. snap[h][s] \in Held
  BY <1>1, <1>2, RefsFacts DEF Held
<1>4. pool \intersect Held = {}
  BY DEF OInv, PoolIsFree
<1> QED  BY <1>2, <1>3, <1>4, FreshFacts

-----------------------------------------------------------------------------
(* It is inductive.                                                        *)

\* A step that writes to objects of the buffers only, and leaves their slots alone.
LEMMA WritesKeep ==
  ASSUME OInv, UNCHANGED <<system, front, back, inPlace, pool, level, snap, taken>>,
         pc' \in {"loop", "show", "swap"}, heap' \in [Heap -> Object],
         \A a \in Heap : heap'[a].name = heap[a].name,
         \A a \in Heap : a \notin Refs(front) \union Refs(back) => heap'[a] = heap[a]
  PROVE  OInv'
<1>1. TypeOK'
  BY DEF OInv, TypeOK
<1>2. Labelled'
  BY DEF OInv, TypeOK, Labelled
<1>3. Refs(front') = Refs(front) /\ Refs(back') = Refs(back) /\ Held' = Held
  BY DEF Refs, Held
<1>5. Kinds' /\ Apart' /\ PoolIsFree' /\ Copies'
  BY <1>3 DEF OInv, Kinds, Apart, PoolIsFree, Copies
<1>4. ShownStays'
  BY CopiesUntouched, ShownKept DEF OInv
<1> QED  BY <1>1, <1>2, <1>4, <1>5 DEF OInv

LEMMA StepKeeps ==
  ASSUME OInv, Step
  PROVE  OInv'
<1>1. heap \in [Heap -> Object]
  BY DEF OInv, TypeOK
<1>2. heap' \in [Heap -> Object]
  BY <1>1 DEF Step, Object
<1>3. \A a \in Heap : heap'[a].name = heap[a].name
  BY <1>1 DEF Step, Object
<1>4. \A a \in Heap : a \notin Refs(front) \union Refs(back) => heap'[a] = heap[a]
  BY DEF Step
<1> QED  BY <1>2, <1>3, <1>4, WritesKeep DEF Step

LEMMA ShowFrontKeeps ==
  ASSUME OInv, ShowFront
  PROVE  OInv'
<1>1. heap \in [Heap -> Object]
  BY DEF OInv, TypeOK
<1>2. heap' \in [Heap -> Object]
  <2> DEFINE on(a) == DatasetOf[heap[a].name] <= level
  <2>1. \A a \in Heap : on(a) \in BOOLEAN
    OBVIOUS
  <2>2. heap' = [a \in Heap |->
                   IF a \in Refs(front) /\ heap[a].name # None /\ ~Named(heap[a])
                   THEN [heap[a] EXCEPT !.visible = on(a)] ELSE heap[a]]
    BY DEF ShowFront
  <2> HIDE DEF on
  <2> QED  BY <1>1, <2>1, <2>2 DEF Object
<1>3. \A a \in Heap : heap'[a].name = heap[a].name
  BY <1>1 DEF ShowFront, Object
<1>4. \A a \in Heap : a \notin Refs(front) \union Refs(back) => heap'[a] = heap[a]
  BY DEF ShowFront
<1> QED  BY <1>2, <1>3, <1>4, WritesKeep DEF ShowFront

\* The buffers change places, and the objects of the old front buffer are brought up to
\* date from their partners.
LEMMA SwapInPlaceKeeps ==
  ASSUME OInv, SwapInPlace
  PROVE  OInv'
<1>1. /\ heap \in [Heap -> Object]
      /\ front \in [Slots -> Heap \union {None}] /\ back \in [Slots -> Heap \union {None}]
  BY DEF OInv, TypeOK
<1>2. ASSUME NEW a \in Heap
      PROVE  heap'[a] \in Object /\ heap'[a].name = heap[a].name
  <2>1. CASE a \in Refs(front)
    <3> DEFINE s == CHOOSE s \in Slots : front[s] = a
    <3>1. s \in Slots /\ front[s] = a /\ a # None
      BY <1>1, <2>1, RefsFacts
    <3>2. back[s] \in Heap
      BY <1>1, <3>1 DEF OInv, Labelled
    <3>3. heap'[a] = [heap[a] EXCEPT !.age = heap[back[s]].age,
                                     !.visible = heap[back[s]].visible]
      BY <2>1 DEF SwapInPlace
    <3>4. heap[a] \in Object /\ heap[back[s]] \in Object
      BY <1>1, <3>2
    <3> HIDE DEF s
    <3> QED  BY <3>3, <3>4 DEF Object
  <2>2. CASE a \notin Refs(front)
    BY <1>1, <2>2 DEF SwapInPlace
  <2> QED  BY <2>1, <2>2
<1>3. heap' \in [Heap -> Object]
  BY <1>2 DEF SwapInPlace
<1>4. TypeOK'
  BY <1>3 DEF OInv, TypeOK, SwapInPlace
<1>5. Labelled'
  BY <1>1, <1>2 DEF OInv, Labelled, SwapInPlace
<1>6. Refs(front') = Refs(back) /\ Refs(back') = Refs(front) /\ Held' = Held
  <2>1. front' = back /\ back' = front /\ snap' = snap
    BY DEF SwapInPlace
  <2>2. Held' = Held
    BY <2>1 DEF Held, Refs
  <2> QED  BY <2>1, <2>2
<1>7. \A s \in Slots : back[s] # None => front[s] # None
  BY DEF OInv, Labelled
<1>8. Kinds' /\ Apart' /\ PoolIsFree' /\ Copies'
  BY <1>6, <1>7 DEF OInv, Kinds, Apart, PoolIsFree, Copies, SwapInPlace
<1>9. ShownStays'
  <2>1. \A a \in Heap : a \notin Refs(front) => heap'[a] = heap[a]
    BY DEF SwapInPlace
  <2> QED  BY <2>1, CopiesUntouched, ShownKept DEF OInv, SwapInPlace
<1> QED  BY <1>4, <1>5, <1>8, <1>9 DEF OInv

\* The clone goes to addresses of the pool and fresh ones, and the pool gets back what was
\* on show: without belts that is referred to by nobody else.
LEMMA SwapCloneKeeps ==
  ASSUME OInv, SwapClone
  PROVE  OInv'
<1> DEFINE S == Copied(back)
           A(r) == r \union Least(Cardinality(S) - Cardinality(r), Fresh)
           p(r) == Placed(S, A(r))
           live(f) == Refs(f) \union Refs(back) \union Held
<1>1. PICK reused \in SUBSET pool :
        /\ Cardinality(reused) <= Cardinality(S)
        /\ Room(Cardinality(S) - Cardinality(reused))
        /\ front' = CloneOf(back, p(reused))
        /\ pool' = (pool \ reused) \union Returned
        /\ heap' = Swept([a \in Heap |-> IF a \in Returned THEN Zero
                                         ELSE Filled(back, p(reused), TRUE)[a]],
                         live(front'))
  BY DEF SwapClone
<1>q. PICK q : q = p(reused)
  OBVIOUS
<1>2. UNCHANGED <<system, back, inPlace, level, snap, taken>> /\ pc' = "loop" /\ ~inPlace
  BY DEF SwapClone
<1>3. /\ heap \in [Heap -> Object] /\ pool \in SUBSET Heap
      /\ front \in [Slots -> Heap \union {None}] /\ back \in [Slots -> Heap \union {None}]
  BY DEF OInv, TypeOK
<1>4. system = "bare"
  BY <1>2, SystemsAssumption DEF OInv, TypeOK, Kinds
<1>5. S = {s \in Slots : back[s] # None}
  <2>1. ASSUME NEW s \in Slots, back[s] # None PROVE Named(heap[back[s]])
    BY <1>4, <2>1, NoneAssumption DEF OInv, Labelled, Kinds, Named
  <2> QED  BY <2>1 DEF Copied
<1>6. /\ A(reused) \in SUBSET Heap
      /\ A(reused) \intersect (Refs(front) \union Refs(back) \union Held) = {}
      /\ A(reused) \intersect (pool \ reused) = {}
      /\ q \in [S -> A(reused)]
      /\ \A s, t \in S : q[s] = q[t] => s = t
  <2> DEFINE k == Cardinality(S) - Cardinality(reused)
             L == Least(k, Fresh)
  <2>1. S \in SUBSET Slots /\ S \in SUBSET Nat /\ IsFiniteSet(S) /\ Cardinality(S) \in Nat
    BY <1>5, SlotsFinite
  <2>2. Heap \in SUBSET Nat /\ IsFiniteSet(Heap)
    BY HeapAssumption, FS_Interval DEF Heap
  <2>3. reused \in SUBSET Heap /\ IsFiniteSet(reused) /\ Cardinality(reused) \in Nat
    BY <1>3, <2>2, FS_Subset, FS_CardinalityType
  <2>4. k \in Nat /\ k <= Cardinality(Fresh)
    BY <1>1, <2>1, <2>3 DEF Room
  <2>5. L \in SUBSET Fresh /\ IsFiniteSet(L) /\ Cardinality(L) = k
    BY <2>4, FreshFacts, LeastCount
  <2>6. reused \intersect L = {}
    BY <2>5, FreshFacts
  <2>7. IsFiniteSet(reused \union L) /\ Cardinality(reused \union L) = Cardinality(S)
    <3> HIDE DEF L
    <3>1. Cardinality(reused \intersect L) = 0
      BY <2>6, FS_EmptySet
    <3>2. /\ IsFiniteSet(reused \union L)
          /\ Cardinality(reused \union L)
               = Cardinality(reused) + Cardinality(L) - Cardinality(reused \intersect L)
      BY <2>3, <2>5, FS_Union
    <3> QED  BY <2>1, <2>3, <2>5, <3>1, <3>2
  <2>8. A(reused) = reused \union L
    OBVIOUS
  <2>9. A(reused) \in SUBSET Heap /\ A(reused) \in SUBSET Nat
    BY <2>2, <2>3, <2>5, <2>8, FreshFacts
  <2>10. /\ q \in [S -> A(reused)]
         /\ \A s, t \in S : q[s] = q[t] => s = t
    <3>1. PICK B : B = A(reused)
      OBVIOUS
    <3>2. B \in SUBSET Nat /\ IsFiniteSet(B) /\ Cardinality(S) = Cardinality(B)
      BY <2>7, <2>8, <2>9, <3>1
    <3>3. q = Placed(S, B)
      BY <1>q, <3>1
    <3> HIDE DEF S, A
    <3> QED  BY <2>1, <3>1, <3>2, <3>3, Placement
  <2>11. /\ A(reused) \intersect (Refs(front) \union Refs(back) \union Held) = {}
         /\ A(reused) \intersect (pool \ reused) = {}
    BY <2>5, <2>8, FreshFacts DEF OInv, PoolIsFree
  <2> QED  BY <2>9, <2>10, <2>11
<1> HIDE DEF A, p
<1>r. /\ front' = CloneOf(back, q)
      /\ heap' = Swept([a \in Heap |-> IF a \in Returned THEN Zero
                                       ELSE Filled(back, q, TRUE)[a]], live(front'))
  BY <1>1, <1>q
<1>7. /\ front' \in [Slots -> Heap \union {None}]
      /\ \A s \in S : front'[s] = q[s] /\ front'[s] \in A(reused)
      /\ \A s \in Slots \ S : front'[s] = None
  <2>1. S \in SUBSET Slots /\ q \in [S -> Heap]
    BY <1>5, <1>6
  <2> HIDE DEF S
  <2> QED  BY <1>r, <1>3, <1>5, <1>6, <2>1, CloneFacts
<1>8. Refs(front') \subseteq A(reused) /\ Held' = Held /\ Refs(back') = Refs(back)
  BY <1>2, <1>7 DEF Refs, Held
<1>9. Returned \subseteq Refs(front)
  BY DEF Returned
<1>10. /\ Refs(front) \intersect Refs(back) = {}
       /\ (Refs(front) \union Refs(back)) \intersect Held = {}
       /\ pool \intersect (Refs(front) \union Refs(back) \union Held) = {}
  BY <1>4 DEF OInv, Apart, Kinds, PoolIsFree
<1>11. /\ \A s \in S : Filled(back, q, TRUE)[q[s]]
                         = [heap[back[s]] EXCEPT !.pooled = TRUE]
       /\ \A a \in Heap : a \notin A(reused) => Filled(back, q, TRUE)[a] = heap[a]
  <2>1. q \in [S -> Heap]
    BY <1>6
  <2>2. \A a \in Heap : a \notin A(reused) => \A s \in S : q[s] # a
    BY <1>6
  <2>3. PICK yes : yes = TRUE
    OBVIOUS
  <2>4. /\ \A s \in S : FilledIn(heap, back, q, yes)[q[s]] = CopyOf(heap[back[s]], yes)
        /\ \A a \in Heap : (\A s \in S : q[s] # a) => FilledIn(heap, back, q, yes)[a] = heap[a]
    <3> HIDE DEF S
    <3> QED  BY <1>6, <2>1, FilledFacts
  <2>5. Filled(back, q, TRUE) = FilledIn(heap, back, q, TRUE)
    BY DEF Filled, FilledIn, CopyOf
  <2> QED  BY <2>2, <2>3, <2>4, <2>5 DEF CopyOf
<1>12. ASSUME NEW a \in Refs(back) \union Held
       PROVE  a \in Heap => heap'[a] = heap[a]
  BY <1>r, <1>6, <1>8, <1>9, <1>10, <1>11 DEF Swept
<1>13. ASSUME NEW s \in S
       PROVE  /\ front'[s] \in Heap /\ back[s] \in Heap
              /\ heap'[front'[s]] = [heap[back[s]] EXCEPT !.pooled = TRUE]
  <2>1. front'[s] \in Heap /\ back[s] \in Heap /\ front'[s] \in Refs(front')
    BY <1>3, <1>5, <1>6, <1>7, RefsFacts
  <2>2. front'[s] \in live(front') /\ front'[s] \notin Returned
    BY <1>6, <1>7, <1>9, <2>1
  <2> QED  BY <1>r, <1>7, <1>11, <2>1, <2>2 DEF Swept
<1>14. heap' \in [Heap -> Object]
  <2>1. Zero \in Object
    BY DEF Zero, Object
  <2>2. ASSUME NEW a \in Heap, a \notin live(front') PROVE heap'[a] \in Object
    BY <1>r, <2>1, <2>2 DEF Swept
  <2>3. ASSUME NEW a \in Refs(front') PROVE a \in Heap /\ heap'[a] \in Object
    <3>1. PICK s \in S : a = front'[s]
      BY <1>7, <2>3 DEF Refs
    <3>2. heap[back[s]] \in Object
      BY <1>3, <1>13
    <3> QED  BY <1>13, <3>1, <3>2 DEF Object
  <2>4. ASSUME NEW a \in Heap PROVE heap'[a] \in Object
    BY <1>3, <1>12, <2>2, <2>3
  <2>5. heap' = [a \in Heap |-> heap'[a]]
    BY <1>r DEF Swept
  <2> QED  BY <2>4, <2>5
<1>15. pool' \in SUBSET Heap
  BY <1>1, <1>3, <1>9, RefsFacts
<1>16. TypeOK'
  BY <1>2, <1>7, <1>14, <1>15 DEF OInv, TypeOK
<1>17. Labelled'
  <2>1. ASSUME NEW s \in Slots
        PROVE  /\ front'[s] # None => heap'[front'[s]].name = s
               /\ back[s] # None => heap'[back[s]].name = s
               /\ front'[s] = None <=> back[s] = None
    <3>1. CASE s \in S
      <4>1. back[s] \in Heap /\ back[s] \in Refs(back) /\ back[s] # None
        BY <1>3, <1>5, <3>1, RefsFacts
      <4>2. heap[back[s]] \in Object /\ heap[back[s]].name = s
        BY <1>3, <4>1 DEF OInv, Labelled
      <4>3. heap'[back[s]] = heap[back[s]]
        BY <1>12, <4>1
      <4>4. heap'[front'[s]].name = s
        BY <1>13, <3>1, <4>2 DEF Object
      <4>5. front'[s] # None
        BY <1>13, <3>1, NoneAssumption
      <4> QED  BY <4>1, <4>2, <4>3, <4>4, <4>5
    <3>2. CASE s \notin S
      BY <1>5, <1>7, <3>2
    <3> QED  BY <3>1, <3>2
  <2> QED  BY <1>2, <2>1 DEF Labelled
<1>18. Apart'
  BY <1>6, <1>8 DEF Apart
<1>19. PoolIsFree'
  BY <1>1, <1>6, <1>8, <1>9, <1>10 DEF PoolIsFree
<1>20. Kinds'
  <2>1. \A s \in Slots : front'[s] # None => DatasetOf[s] = -1
    BY <1>4, <1>5, <1>7 DEF OInv, Kinds, Labelled
  <2>2. (Refs(front') \union Refs(back')) \intersect Held' = {}
    BY <1>6, <1>8, <1>10
  <2> QED  BY <1>2, <1>4, <2>1, <2>2 DEF Kinds
<1>21. Copies' /\ ShownStays'
  <2>1. ASSUME NEW h \in Holders, NEW s \in Slots, snap[h] # None, taken[h][s].visible
        PROVE  /\ snap[h][s] \in Heap \ (Refs(front') \union Refs(back'))
               /\ heap'[snap[h][s]] = heap[snap[h][s]]
    BY <1>6, <1>8, <1>12, <2>1, CopiesUntouched
  <2>2. Copies'
    BY <1>2, <2>1 DEF OInv, Copies
  <2>3. ShownStays'
    BY <1>2, <2>1, ShownKept DEF OInv
  <2> QED  BY <2>2, <2>3
<1> QED  BY <1>16, <1>17, <1>18, <1>19, <1>20, <1>21 DEF OInv

LEMMA PurgeKeeps ==
  ASSUME OInv, Purge
  PROVE  OInv'
<1>1. Held' = Held /\ pool' = {} /\ UNCHANGED <<system, heap, front, back, inPlace, level, pc, snap, taken>>
  BY DEF Purge, Held, Refs
<1>2. TypeOK' /\ Labelled' /\ ShownStays'
  BY <1>1 DEF OInv, TypeOK, Labelled, ShownStays
<1>3. Refs(front') = Refs(front) /\ Refs(back') = Refs(back)
  BY <1>1
<1>4. Kinds' /\ Apart' /\ PoolIsFree' /\ Copies'
  BY <1>1, <1>3 DEF OInv, Kinds, Apart, PoolIsFree, Copies
<1> QED  BY <1>2, <1>4 DEF OInv

LEMMA SettingKeeps ==
  ASSUME OInv, Disciplined, NEW on \in BOOLEAN, SetInPlaceSwap(on)
  PROVE  OInv'
<1>1. /\ Held' = Held /\ inPlace' \in BOOLEAN
      /\ UNCHANGED <<system, heap, front, back, pool, level, pc, snap, taken>>
  BY DEF SetInPlaceSwap, Held, Refs
<1>2. system # "belted"
  BY DEF SetInPlaceSwap, Disciplined, OInv, TypeOK
<1>3. TypeOK' /\ Labelled' /\ ShownStays'
  BY <1>1 DEF OInv, TypeOK, Labelled, ShownStays
<1>4. Refs(front') = Refs(front) /\ Refs(back') = Refs(back)
  BY <1>1
<1>5. Kinds' /\ Apart' /\ PoolIsFree' /\ Copies'
  BY <1>1, <1>2, <1>4 DEF OInv, Kinds, Apart, PoolIsFree, Copies
<1> QED  BY <1>3, <1>5 DEF OInv

LEMMA ForgetKeeps ==
  ASSUME OInv, NEW h \in Holders, Forget(h)
  PROVE  OInv'
<1>1. /\ snap' = [snap EXCEPT ![h] = None] /\ taken' = [taken EXCEPT ![h] = None]
      /\ UNCHANGED <<system, front, back, inPlace, pool, level, pc>>
  BY DEF Forget
<1>2. /\ snap \in [Holders -> [Slots -> Heap \union {None}] \union {None}]
      /\ taken \in [Holders -> [Slots -> Object] \union {None}]
      /\ heap \in [Heap -> Object]
      /\ front \in [Slots -> Heap \union {None}] /\ back \in [Slots -> Heap \union {None}]
  BY DEF OInv, TypeOK
<1>3. Refs(front') = Refs(front) /\ Refs(back') = Refs(back)
  BY <1>1
<1>4. Held' \subseteq Held
  BY <1>1, <1>2 DEF Held, Refs
<1>5. \A a \in Heap : a \in Refs(front) \union Refs(back) \union Held' => heap'[a] = heap[a]
  <2> DEFINE others == UNION {Refs(snap[x]) : x \in {y \in Holders \ {h} : snap[y] # None}}
  <2>1. Held' \subseteq others
    BY <1>1, <1>2 DEF Held, Refs
  <2>2. heap' = Swept(heap, Refs(front) \union Refs(back) \union others)
    BY DEF Forget
  <2> HIDE DEF others
  <2> QED  BY <2>1, <2>2 DEF Swept
<1>6. heap' \in [Heap -> Object]
  BY <1>2 DEF Forget, Swept, Zero, Object
<1>7. TypeOK'
  BY <1>1, <1>2, <1>6 DEF OInv, TypeOK
<1>8. Labelled'
  BY <1>1, <1>2, <1>5, RefsFacts DEF OInv, Labelled
<1>9. Kinds' /\ Apart' /\ PoolIsFree'
  BY <1>1, <1>3, <1>4 DEF OInv, Kinds, Apart, PoolIsFree
<1>10. ASSUME NEW x \in Holders, snap'[x] # None
       PROVE  snap[x] # None /\ snap'[x] = snap[x] /\ taken'[x] = taken[x]
  BY <1>1, <1>2, <1>10
<1>11. Copies'
  BY <1>3, <1>10 DEF OInv, Copies
<1>12. ShownStays'
  <2> SUFFICES ASSUME NEW x \in Holders, snap'[x] # None, NEW s \in Slots, taken'[x][s].visible
               PROVE  [heap'[snap'[x][s]] EXCEPT !.pooled = FALSE] = taken'[x][s]
    BY DEF ShownStays
  <2>1. snap[x] # None /\ snap'[x] = snap[x] /\ taken'[x] = taken[x]
    BY <1>10
  <2>2. snap[x][s] \in Heap /\ snap'[x] \in [Slots -> Heap \union {None}]
    BY <1>2, <2>1, CopiesUntouched
  <2>3. snap'[x][s] \in Refs(snap'[x])
    BY <2>1, <2>2, RefsFacts
  <2>4. snap'[x][s] \in Held'
    BY <2>3 DEF Held
  <2>5. heap'[snap'[x][s]] = heap[snap[x][s]]
    BY <1>5, <2>1, <2>2, <2>4
  <2> QED  BY <2>1, <2>5 DEF OInv, ShownStays
<1> QED  BY <1>7, <1>8, <1>9, <1>11, <1>12 DEF OInv

\* What is visible is copied to fresh addresses; what is not is shared with the front
\* buffer, and without belts there is nothing like that.
LEMMA SnapshotKeeps ==
  ASSUME OInv, NEW h \in Holders, Snapshot(h)
  PROVE  OInv'
<1> DEFINE S == Copied(front)
<1>p. PICK p : p = Placed(S, Least(Cardinality(S), Fresh))
  OBVIOUS
<1>c. PICK c : c = CloneOf(front, p)
  OBVIOUS
<1>1. /\ snap' = [snap EXCEPT ![h] = c] /\ heap' = Filled(front, p, FALSE)
      /\ taken' = [taken EXCEPT ![h] =
                     [s \in Slots |-> [Contents(front)[s] EXCEPT !.pooled = FALSE]]]
      /\ UNCHANGED <<system, front, back, inPlace, pool, level, pc>>
      /\ Room(Cardinality(S))
  BY <1>p, <1>c DEF Snapshot
<1>2. /\ snap \in [Holders -> [Slots -> Heap \union {None}] \union {None}]
      /\ taken \in [Holders -> [Slots -> Object] \union {None}]
      /\ heap \in [Heap -> Object]
      /\ front \in [Slots -> Heap \union {None}] /\ back \in [Slots -> Heap \union {None}]
  BY DEF OInv, TypeOK
<1>3. S \in SUBSET Slots /\ \A s \in S : front[s] # None
  BY DEF Copied
<1>4. p \in [S -> Fresh] /\ \A s, t \in S : p[s] = p[t] => s = t
  <2> HIDE DEF S
  <2> QED  BY <1>1, <1>3, <1>p, Allocation
<1>5. p \in [S -> Heap]
  BY <1>4, FreshFacts
<1>6. /\ c \in [Slots -> Heap \union {None}]
      /\ \A s \in S : c[s] = p[s] /\ c[s] \in Fresh
      /\ \A s \in Slots \ S : c[s] = front[s]
  <2>1. /\ c \in [Slots -> Heap \union {None}]
        /\ \A s \in S : c[s] = p[s]
        /\ \A s \in Slots \ S : c[s] = front[s]
    <3> HIDE DEF S
    <3> QED  BY <1>2, <1>3, <1>5, <1>c DEF CloneOf
  <2> QED  BY <1>4, <2>1
<1>7. /\ \A s \in S : heap'[c[s]] = CopyOf(heap[front[s]], FALSE)
      /\ \A a \in Heap : a \notin Fresh => heap'[a] = heap[a]
  <2>1. PICK no : no = FALSE
    OBVIOUS
  <2>2. /\ \A s \in S : FilledIn(heap, front, p, no)[p[s]] = CopyOf(heap[front[s]], no)
        /\ \A a \in Heap : (\A s \in S : p[s] # a) => FilledIn(heap, front, p, no)[a] = heap[a]
    <3> HIDE DEF S
    <3> QED  BY <1>4, <1>5, FilledFacts
  <2>3. heap' = FilledIn(heap, front, p, FALSE)
    BY <1>1 DEF Filled, FilledIn, CopyOf
  <2>4. \A a \in Heap : a \notin Fresh => \A s \in S : p[s] # a
    BY <1>4
  <2> QED  BY <1>6, <2>1, <2>2, <2>3, <2>4
<1>8. heap' \in [Heap -> Object]
  <2>1. ASSUME NEW a \in Heap PROVE heap'[a] \in Object
    <3>1. CASE \E s \in S : p[s] = a
      <4>1. PICK s \in S : p[s] = a
        BY <3>1
      <4>2. front[s] \in Heap /\ heap[front[s]] \in Object
        BY <1>2, <1>3
      <4>3. CopyOf(heap[front[s]], FALSE) \in Object
        BY <4>2 DEF CopyOf, Object
      <4> QED  BY <1>6, <1>7, <4>1, <4>3
    <3>2. CASE ~ \E s \in S : p[s] = a
      <4>1. heap'[a] = heap[a]
        BY <1>1, <3>2, <1>4 DEF Filled
      <4> QED  BY <1>2, <4>1
    <3> QED  BY <3>1, <3>2
  <2>2. heap' = [a \in Heap |-> heap'[a]]
    BY <1>1 DEF Filled
  <2> QED  BY <2>1, <2>2
<1>9. \A s \in Slots :
        /\ taken'[h][s] = [Contents(front)[s] EXCEPT !.pooled = FALSE]
        /\ Contents(front)[s] = IF front[s] = None THEN Zero ELSE heap[front[s]]
        /\ Contents(front)[s] \in Object
  BY <1>1, <1>2 DEF Contents, Zero, Object
<1>10. taken'[h] \in [Slots -> Object] /\ snap'[h] = c
  <2>1. \A s \in Slots : taken'[h][s] \in Object
    BY <1>9 DEF Object
  <2>2. taken'[h] = [s \in Slots |-> taken'[h][s]]
    BY <1>1, <1>2
  <2> QED  BY <1>1, <1>2, <2>1, <2>2
<1>11. \A x \in Holders \ {h} : snap'[x] = snap[x] /\ taken'[x] = taken[x]
  BY <1>1, <1>2
<1>12. TypeOK'
  BY <1>1, <1>2, <1>6, <1>8, <1>10 DEF OInv, TypeOK
<1>13. Held' \subseteq Held \union Refs(c)
  <2> SUFFICES ASSUME NEW x \in Holders, snap'[x] # None
               PROVE  Refs(snap'[x]) \subseteq Held \union Refs(c)
    BY DEF Held, Refs
  <2>1. CASE x = h
    BY <1>10, <2>1
  <2>2. CASE x # h
    BY <1>11, <2>2 DEF Held
  <2> QED  BY <2>1, <2>2
<1>14. Refs(c) \subseteq Fresh \union Refs(front)
  BY <1>2, <1>6, RefsFacts DEF Refs
<1>15. system = "bare" => Refs(c) \subseteq Fresh
  <2> SUFFICES ASSUME system = "bare", NEW s \in Slots, c[s] # None PROVE c[s] \in Fresh
    BY DEF Refs
  <2>1. CASE s \in S
    BY <1>6, <2>1
  <2>2. CASE s \notin S
    <3>1. front[s] # None
      BY <1>6, <2>2
    <3>2. Named(heap[front[s]])
      BY <3>1, NoneAssumption DEF OInv, Labelled, Kinds, Named
    <3> QED  BY <2>2, <3>1, <3>2 DEF Copied
  <2> QED  BY <2>1, <2>2
<1>16. Refs(front') = Refs(front) /\ Refs(back') = Refs(back)
  BY <1>1
<1>17. Apart' /\ PoolIsFree'
  BY <1>1, <1>13, <1>14, <1>16, FreshFacts DEF OInv, Apart, PoolIsFree
<1>18. Kinds'
  <2>1. system = "bare" => (Refs(front) \union Refs(back)) \intersect Held' = {}
    BY <1>13, <1>15, FreshFacts DEF OInv, Kinds
  <2> QED  BY <1>1, <1>16, <2>1 DEF OInv, Kinds
<1>19. Labelled'
  <2>1. \A a \in Refs(front) \union Refs(back) : heap'[a] = heap[a]
    BY <1>2, <1>7, FreshFacts, RefsFacts
  <2>2. ASSUME NEW s \in Slots
        PROVE  /\ front[s] # None => heap'[front[s]].name = s
               /\ back[s] # None => heap'[back[s]].name = s
               /\ front[s] = None <=> back[s] = None
    <3>1. front[s] # None => front[s] \in Refs(front)
      BY <1>2, RefsFacts
    <3>2. back[s] # None => back[s] \in Refs(back)
      BY <1>2, RefsFacts
    <3> QED  BY <2>1, <3>1, <3>2 DEF OInv, Labelled
  <2> QED  BY <1>1, <2>2 DEF Labelled
<1>20. ASSUME NEW s \in Slots, taken'[h][s].visible
       PROVE  s \in S /\ taken'[h][s] = CopyOf(heap[front[s]], FALSE)
  <2>1. Contents(front)[s].visible
    BY <1>9, <1>20 DEF Object
  <2>2. front[s] # None
    <3>1. Zero.visible = FALSE
      BY DEF Zero
    <3> QED  BY <1>9, <2>1, <3>1
  <2> QED  BY <1>9, <2>1, <2>2 DEF Copied, CopyOf
<1>21. Copies'
  <2> SUFFICES ASSUME NEW x \in Holders, snap'[x] # None
               PROVE  /\ taken'[x] \in [Slots -> Object]
                      /\ \A s \in Slots : taken'[x][s].visible =>
                           snap'[x][s] \in Heap \ (Refs(front) \union Refs(back))
    BY <1>16 DEF Copies
  <2>1. CASE x = h
    BY <1>6, <1>10, <1>20, <2>1, FreshFacts
  <2>2. CASE x # h
    BY <1>11, <2>2 DEF OInv, Copies
  <2> QED  BY <2>1, <2>2
<1>22. ShownStays'
  <2> SUFFICES ASSUME NEW x \in Holders, snap'[x] # None, NEW s \in Slots, taken'[x][s].visible
               PROVE  [heap'[snap'[x][s]] EXCEPT !.pooled = FALSE] = taken'[x][s]
    BY DEF ShownStays
  <2>1. CASE x = h
    <3>1. s \in S /\ taken'[x][s] = CopyOf(heap[front[s]], FALSE)
      BY <1>20, <2>1
    <3>2. heap'[snap'[x][s]] = CopyOf(heap[front[s]], FALSE)
      BY <1>7, <1>10, <2>1, <3>1
    <3>3. heap[front[s]] \in Object
      BY <1>2, <1>3, <3>1
    <3> QED  BY <3>1, <3>2, <3>3 DEF CopyOf, Object
  <2>2. CASE x # h
    <3>1. snap'[x] = snap[x] /\ taken'[x] = taken[x]
      BY <1>11, <2>2
    <3>2. snap[x][s] \in Heap /\ snap[x][s] \notin Fresh
      BY <3>1, CopiesUntouched
    <3>3. heap'[snap[x][s]] = heap[snap[x][s]]
      BY <1>7, <3>2
    <3> QED  BY <3>1, <3>3 DEF OInv, ShownStays
  <2> QED  BY <2>1, <2>2
<1> QED  BY <1>12, <1>17, <1>18, <1>19, <1>21, <1>22 DEF OInv

\* A set of addresses and the next ones: two disjoint homes for the same objects.
LEMMA TwoPlaces ==
  ASSUME NEW S \in SUBSET Nat, IsFiniteSet(S), NEW A \in SUBSET Nat, IsFiniteSet(A),
         2 * Cardinality(S) <= Cardinality(A),
         NEW m, m = Placed(S, Least(Cardinality(S), A)),
         NEW g, g = Placed(S, Least(2 * Cardinality(S), A) \ Least(Cardinality(S), A))
  PROVE  /\ m \in [S -> A] /\ \A s, t \in S : m[s] = m[t] => s = t
         /\ g \in [S -> A] /\ \A s, t \in S : g[s] = g[t] => s = t
         /\ \A s, t \in S : m[s] # g[t]
<1> DEFINE n == Cardinality(S)
<1>1. n \in Nat /\ 2 * n \in Nat /\ n <= Cardinality(A)
  BY FS_CardinalityType
<1>2. PICK L : L = Least(n, A)
  OBVIOUS
<1>3. PICK K : K = Least(2 * n, A)
  OBVIOUS
<1>4. L \in SUBSET A /\ IsFiniteSet(L) /\ Cardinality(L) = n
  BY <1>1, <1>2, LeastCount
<1>5. K \in SUBSET A /\ IsFiniteSet(K) /\ Cardinality(K) = 2 * n
  BY <1>1, <1>3, LeastCount
<1>6. L \subseteq K
  <2> SUFFICES ASSUME NEW a \in L PROVE a \in K
    OBVIOUS
  <2>1. a \in A /\ Rank(a, A) <= n
    BY <1>2 DEF Least
  <2>2. Rank(a, A) \in Nat
    BY <2>1, RankNumbers
  <2>3. Rank(a, A) <= 2 * n
    <3> HIDE DEF n
    <3> QED  BY <1>1, <2>1, <2>2
  <2> QED  BY <1>3, <2>1, <2>3 DEF Least
<1>7. IsFiniteSet(K \ L) /\ Cardinality(K \ L) = n
  <2>1. K \intersect L = L
    BY <1>6
  <2>2. IsFiniteSet(K \ L) /\ Cardinality(K \ L) = Cardinality(K) - Cardinality(K \intersect L)
    BY <1>5, FS_Difference
  <2>3. Cardinality(K \ L) = 2 * n - n
    BY <1>4, <1>5, <2>1, <2>2
  <2> QED  BY <1>1, <2>2, <2>3
<1>8. L \in SUBSET Nat /\ K \ L \in SUBSET Nat
  BY <1>4, <1>5
<1>9. m \in [S -> L] /\ \A s, t \in S : m[s] = m[t] => s = t
  BY <1>2, <1>4, <1>8, Placement
<1>10. g \in [S -> K \ L] /\ \A s, t \in S : g[s] = g[t] => s = t
  <2>1. g = Placed(S, K \ L)
    BY <1>2, <1>3
  <2>2. PICK D : D = K \ L
    OBVIOUS
  <2>3. D \in SUBSET Nat /\ IsFiniteSet(D) /\ Cardinality(S) = Cardinality(D)
        /\ g = Placed(S, D)
    BY <1>7, <1>8, <2>1, <2>2
  <2>4. g \in [S -> D] /\ \A s, t \in S : g[s] = g[t] => s = t
    <3>1. /\ Placed(S, D) \in [S -> D]
          /\ \A s, t \in S : Placed(S, D)[s] = Placed(S, D)[t] => s = t
      BY ONLY <2>3, Placement, IsFiniteSet(S), S \in SUBSET Nat
    <3> QED  BY <2>3, <3>1
  <2> QED  BY <2>2, <2>4
<1> QED  BY <1>4, <1>5, <1>9, <1>10

\* The new objects are in both buffers, at fresh addresses, and nothing else moves.
LEMMA ShowBackKeeps ==
  ASSUME OInv, NEW l \in Levels \ {-1}, ShowBack(l)
  PROVE  OInv'
<1> DEFINE new == {s \in Slots : DatasetOf[s] = l /\ back[s] = None}
           At(a) == {s \in new : a \in {front'[s], back'[s]}}
<1>m. PICK m : m = Mirrored(new)
  OBVIOUS
<1>g. PICK g : g = Grown(new)
  OBVIOUS
<1>1. /\ system = "belted" /\ Room(2 * Cardinality(new))
      /\ front' = CloneOf(front, m) /\ back' = CloneOf(back, g)
      /\ inPlace' = (inPlace \/ new # {}) /\ level' = l /\ pc' = "show"
      /\ UNCHANGED <<system, pool, snap, taken>>
  BY <1>m, <1>g DEF ShowBack
<1>2. /\ heap \in [Heap -> Object] /\ inPlace \in BOOLEAN
      /\ front \in [Slots -> Heap \union {None}] /\ back \in [Slots -> Heap \union {None}]
  BY DEF OInv, TypeOK
<1>3. new \in SUBSET Slots
  OBVIOUS
<1>4. /\ m \in [new -> Fresh] /\ \A s, t \in new : m[s] = m[t] => s = t
      /\ g \in [new -> Fresh] /\ \A s, t \in new : g[s] = g[t] => s = t
      /\ \A s, t \in new : m[s] # g[t]
  <2>1. m = Placed(new, Least(Cardinality(new), Fresh))
    BY <1>m DEF Mirrored
  <2>2. g = Placed(new, Least(2 * Cardinality(new), Fresh) \ Least(Cardinality(new), Fresh))
    BY <1>g DEF Grown
  <2>3. PICK F : F = Fresh
    OBVIOUS
  <2>4. PICK S : S = new
    OBVIOUS
  <2>5. S \in SUBSET Nat /\ IsFiniteSet(S) /\ F \in SUBSET Nat /\ IsFiniteSet(F)
        /\ 2 * Cardinality(S) <= Cardinality(F)
    BY <1>1, <1>3, <2>3, <2>4, SlotsFinite, FreshFacts DEF Room
  <2>6. /\ m \in [S -> F] /\ \A s, t \in S : m[s] = m[t] => s = t
        /\ g \in [S -> F] /\ \A s, t \in S : g[s] = g[t] => s = t
        /\ \A s, t \in S : m[s] # g[t]
    <3>1. m = Placed(S, Least(Cardinality(S), F))
      BY <2>1, <2>3, <2>4
    <3>2. g = Placed(S, Least(2 * Cardinality(S), F) \ Least(Cardinality(S), F))
      BY <2>2, <2>3, <2>4
    <3> QED  BY <2>5, <3>1, <3>2, TwoPlaces
  <2> QED  BY <2>3, <2>4, <2>6
<1>5. /\ front' \in [Slots -> Heap \union {None}] /\ back' \in [Slots -> Heap \union {None}]
      /\ \A s \in new : front'[s] = m[s] /\ back'[s] = g[s]
      /\ \A s \in Slots \ new : front'[s] = front[s] /\ back'[s] = back[s]
  <2>1. Fresh \subseteq Heap
    BY FreshFacts
  <2> QED  BY <1>1, <1>2, <1>3, <1>4, <2>1 DEF CloneOf
<1>6. heap' = [a \in Heap |->
                 IF At(a) # {}
                 THEN [Zero EXCEPT !.name = CHOOSE s \in At(a) : TRUE, !.visible = TRUE]
                 ELSE IF a \in Refs(back) /\ heap[a].name # None /\ ~Named(heap[a])
                 THEN [heap[a] EXCEPT !.visible = DatasetOf[heap[a].name] <= l]
                 ELSE heap[a]]
  BY DEF ShowBack
<1>7. \A s \in new : At(m[s]) = {s} /\ At(g[s]) = {s}
  BY <1>4, <1>5
<1>8. \A a : a \notin Fresh => At(a) = {}
  BY <1>4, <1>5
<1>9. ASSUME NEW a \in Heap, At(a) # {}
      PROVE  heap'[a] \in Object
  <2>1. (CHOOSE s \in At(a) : TRUE) \in Slots
    BY <1>9
  <2>2. PICK o : o = CHOOSE s \in At(a) : TRUE
    OBVIOUS
  <2>3. heap'[a] = [Zero EXCEPT !.name = o, !.visible = TRUE]
    BY <1>6, <1>9, <2>2
  <2> HIDE DEF At
  <2> QED  BY <2>1, <2>2, <2>3 DEF Zero, Object
<1>10. ASSUME NEW a \in Heap, At(a) = {}
       PROVE  heap'[a] \in Object /\ heap'[a].name = heap[a].name
              /\ (a \notin Refs(back) => heap'[a] = heap[a])
  <2> DEFINE on == DatasetOf[heap[a].name] <= l
  <2>1. on \in BOOLEAN
    OBVIOUS
  <2>2. heap'[a] = [heap[a] EXCEPT !.visible = on] \/ heap'[a] = heap[a]
    BY <1>6, <1>10
  <2>3. heap[a] \in Object
    BY <1>2
  <2>4. heap'[a] \in Object /\ heap'[a].name = heap[a].name
    <3> HIDE DEF At, on
    <3> QED  BY <2>1, <2>2, <2>3 DEF Object
  <2>5. a \notin Refs(back) => heap'[a] = heap[a]
    BY <1>6, <1>10
  <2> QED  BY <2>4, <2>5
<1>11. \A s \in new : heap'[m[s]].name = s /\ heap'[g[s]].name = s
  <2> SUFFICES ASSUME NEW s \in new, NEW a \in {m[s], g[s]} PROVE heap'[a].name = s
    OBVIOUS
  <2>1. a \in Heap
    BY <1>4, FreshFacts
  <2>2. At(a) = {s}
    BY <1>7
  <2>3. (CHOOSE t \in At(a) : TRUE) = s
    BY <2>2
  <2>4. heap'[a] = [Zero EXCEPT !.name = s, !.visible = TRUE]
    BY <1>6, <2>1, <2>2, <2>3
  <2> HIDE DEF At
  <2> QED  BY <2>4 DEF Zero
<1> HIDE DEF At
<1>12. heap' \in [Heap -> Object]
  <2>1. \A a \in Heap : heap'[a] \in Object
    BY <1>9, <1>10
  <2>2. heap' = [a \in Heap |-> heap'[a]]
    BY <1>6
  <2> QED  BY <2>1, <2>2
<1>13. TypeOK'
  BY <1>1, <1>2, <1>5, <1>12 DEF OInv, TypeOK
<1>14. Labelled'
  <2> SUFFICES ASSUME NEW s \in Slots
               PROVE  /\ front'[s] # None => heap'[front'[s]].name = s
                      /\ back'[s] # None => heap'[back'[s]].name = s
                      /\ front'[s] = None <=> back'[s] = None
    BY DEF Labelled
  <2>1. CASE s \in new
    <3>1. m[s] \in Heap /\ g[s] \in Heap
      BY <1>4, <2>1, FreshFacts
    <3> QED  BY <1>5, <1>11, <2>1, <3>1, NoneAssumption
  <2>2. CASE s \notin new
    <3>1. front[s] # None => front[s] \in Heap /\ front[s] \notin Fresh
      BY <1>2, RefsFacts, FreshFacts
    <3>2. back[s] # None => back[s] \in Heap /\ back[s] \notin Fresh
      BY <1>2, RefsFacts, FreshFacts
    <3>3. /\ front[s] # None => heap'[front[s]].name = heap[front[s]].name
          /\ back[s] # None => heap'[back[s]].name = heap[back[s]].name
      BY <1>8, <1>10, <3>1, <3>2
    <3> QED  BY <1>5, <2>2, <3>3 DEF OInv, Labelled
  <2> QED  BY <2>1, <2>2
<1>15. /\ Refs(front') \subseteq Refs(front) \union {m[s] : s \in new}
       /\ Refs(back') \subseteq Refs(back) \union {g[s] : s \in new}
       /\ Held' = Held
  <2>1. \A s \in Slots : front'[s] \in {front[s]} \union {m[t] : t \in new}
    BY <1>5
  <2>2. \A s \in Slots : back'[s] \in {back[s]} \union {g[t] : t \in new}
    BY <1>5
  <2>3. Held' = Held
    BY <1>1 DEF Held, Refs
  <2> HIDE DEF new
  <2> QED  BY <2>1, <2>2, <2>3 DEF Refs
<1>16. Kinds'
  BY <1>1, <1>2 DEF OInv, Kinds
<1>17. Apart' /\ PoolIsFree'
  <2>1. \A s, t \in new : m[s] # g[t] /\ m[s] \in Fresh /\ g[s] \in Fresh
    BY <1>4
  <2>2. Apart'
    BY <1>15, <2>1, FreshFacts DEF OInv, Apart
  <2>3. pool = {}
    BY <1>1 DEF OInv, Kinds
  <2> QED  BY <1>1, <2>2, <2>3 DEF PoolIsFree
<1>18. ASSUME NEW h \in Holders, NEW s \in Slots, snap[h] # None, taken[h][s].visible
       PROVE  /\ snap[h][s] \in Heap \ (Refs(front') \union Refs(back'))
              /\ heap'[snap[h][s]] = heap[snap[h][s]]
  <2>1. snap[h][s] \in Heap /\ snap[h][s] \notin Refs(front) \union Refs(back) \union Fresh
    BY <1>18, CopiesUntouched
  <2>2. \A t \in new : m[t] \in Fresh /\ g[t] \in Fresh
    BY <1>4
  <2> QED  BY <1>8, <1>10, <1>15, <2>1, <2>2
<1>19. Copies'
  BY <1>1, <1>18 DEF OInv, Copies
<1>20. ShownStays'
  BY <1>1, <1>18, ShownKept DEF OInv
<1> QED  BY <1>13, <1>14, <1>16, <1>17, <1>19, <1>20 DEF OInv

\* NewSimulation: two buffers of the same objects at different addresses.
LEMMA StartKeeps ==
  ASSUME Init
  PROVE  OInv
<1>1. PICK S : S = {s \in Slots : DatasetOf[s] = -1 \/ (system = "belted" /\ DatasetOf[s] = 0)}
  OBVIOUS
<1>2. PICK f : f = Placed(S, Least(Cardinality(S), Heap))
  OBVIOUS
<1>3. PICK b : b = Placed(S, Least(2 * Cardinality(S), Heap) \ Least(Cardinality(S), Heap))
  OBVIOUS
<1> DEFINE At(a) == {s \in S : a \in {f[s], b[s]}}
<1>4. /\ front = [s \in Slots |-> IF s \in S THEN f[s] ELSE None]
      /\ back = [s \in Slots |-> IF s \in S THEN b[s] ELSE None]
      /\ heap = [a \in Heap |->
           IF \E s \in S : a \in {f[s], b[s]}
           THEN [Zero EXCEPT !.name = CHOOSE s \in S : a \in {f[s], b[s]}, !.visible = TRUE]
           ELSE Zero]
  BY <1>1, <1>2, <1>3 DEF Init
<1>5. /\ system \in Systems /\ inPlace \in BOOLEAN /\ (system = "belted" => inPlace)
      /\ pool = {} /\ level = 0 /\ pc = "loop"
      /\ snap = [h \in Holders |-> None] /\ taken = [h \in Holders |-> None]
  BY DEF Init
<1>6. S \in SUBSET Slots
  BY <1>1
<1>7. /\ f \in [S -> Heap] /\ \A s, t \in S : f[s] = f[t] => s = t
      /\ b \in [S -> Heap] /\ \A s, t \in S : b[s] = b[t] => s = t
      /\ \A s, t \in S : f[s] # b[t]
  <2>1. S \in SUBSET Nat /\ IsFiniteSet(S) /\ Cardinality(S) \in Nat
    BY <1>6, SlotsFinite
  <2>2. Cardinality(S) <= Cardinality(Slots) /\ Cardinality(Slots) \in Nat
    BY <1>6, SlotsAssumption, FS_Subset, FS_CardinalityType
  <2>3. Heap \in SUBSET Nat /\ IsFiniteSet(Heap) /\ Cardinality(Heap) = HeapSize
    BY HeapAssumption, FS_Interval DEF Heap
  <2>4. 2 * Cardinality(S) <= Cardinality(Heap)
    BY <2>1, <2>2, <2>3, HeapAssumption
  <2>5. PICK H : H = Heap
    OBVIOUS
  <2> QED  BY <1>2, <1>3, <2>1, <2>3, <2>4, <2>5, TwoPlaces
<1>8. /\ \A s \in S : front[s] = f[s] /\ back[s] = b[s]
      /\ \A s \in Slots \ S : front[s] = None /\ back[s] = None
      /\ front \in [Slots -> Heap \union {None}] /\ back \in [Slots -> Heap \union {None}]
  BY <1>4, <1>6, <1>7
<1>9. \A a \in Heap : At(a) = {} => heap[a] = Zero
  BY <1>4
<1>10. ASSUME NEW a \in Heap, NEW s \in S, a \in {f[s], b[s]}
       PROVE  heap[a] = [Zero EXCEPT !.name = s, !.visible = TRUE]
  <2>1. \A t \in S : a \in {f[t], b[t]} => t = s
    BY <1>7, <1>10
  <2>2. (CHOOSE t \in S : a \in {f[t], b[t]}) = s
    BY <1>10, <2>1
  <2> QED  BY <1>4, <1>10, <2>2
<1>11. heap \in [Heap -> Object]
  <2>1. ASSUME NEW a \in Heap PROVE heap[a] \in Object
    <3>1. CASE At(a) = {}
      <4>1. heap[a] = Zero
        BY <1>9, <3>1
      <4>2. Zero \in Object
        BY DEF Zero, Object
      <4> QED  BY <4>1, <4>2
    <3>2. CASE At(a) # {}
      <4>1. PICK s \in S : a \in {f[s], b[s]}
        BY <3>2
      <4>2. heap[a] = [Zero EXCEPT !.name = s, !.visible = TRUE] /\ s \in Slots
        BY <1>6, <1>10, <4>1
      <4> HIDE DEF At
      <4> QED  BY <4>2 DEF Zero, Object
    <3> QED  BY <3>1, <3>2
  <2>2. heap = [a \in Heap |-> heap[a]]
    BY <1>4
  <2> QED  BY <2>1, <2>2
<1>12. TypeOK
  <2>1. level \in Levels \ {-1}
    BY <1>5 DEF Levels
  <2> QED  BY <1>5, <1>8, <1>11, <2>1 DEF TypeOK
<1>13. Labelled
  <2> SUFFICES ASSUME NEW s \in Slots
               PROVE  /\ front[s] # None => heap[front[s]].name = s
                      /\ back[s] # None => heap[back[s]].name = s
                      /\ front[s] = None <=> back[s] = None
    BY DEF Labelled
  <2>1. CASE s \in S
    <3>1. f[s] \in Heap /\ b[s] \in Heap
      BY <1>7, <2>1
    <3>2. /\ heap[f[s]] = [Zero EXCEPT !.name = s, !.visible = TRUE]
          /\ heap[b[s]] = [Zero EXCEPT !.name = s, !.visible = TRUE]
      BY <1>10, <2>1, <3>1
    <3>3. heap[f[s]].name = s /\ heap[b[s]].name = s
      BY <3>2 DEF Zero
    <3> QED  BY <1>8, <2>1, <3>1, <3>3, NoneAssumption
  <2>2. CASE s \notin S
    BY <1>8, <2>2
  <2> QED  BY <2>1, <2>2
<1>14. Held = {}
  BY <1>5 DEF Held
<1>15. Apart
  BY <1>7, <1>8 DEF Apart, Refs
<1>16. Kinds
  <2>1. system = "bare" => \A s \in Slots : front[s] # None => DatasetOf[s] = -1
    BY <1>1, <1>8
  <2> QED  BY <1>5, <1>14, <2>1 DEF Kinds
<1>17. PoolIsFree /\ Copies /\ ShownStays
  BY <1>5 DEF PoolIsFree, Copies, ShownStays
<1> QED  BY <1>12, <1>13, <1>15, <1>16, <1>17 DEF OInv

\* Every step keeps the invariant.
LEMMA NextKeeps ==
  ASSUME OInv, Disciplined, [Next]_vars
  PROVE  OInv'
<1>1. CASE Step
  BY <1>1, StepKeeps
<1>2. CASE SwapInPlace
  BY <1>2, SwapInPlaceKeeps
<1>3. CASE SwapClone
  BY <1>3, SwapCloneKeeps
<1>4. CASE Purge
  BY <1>4, PurgeKeeps
<1>5. CASE ShowFront
  BY <1>5, ShowFrontKeeps
<1>6. ASSUME NEW l \in Levels \ {-1}, ShowBack(l) PROVE OInv'
  BY <1>6, ShowBackKeeps
<1>7. ASSUME NEW h \in Holders, Snapshot(h) PROVE OInv'
  BY <1>7, SnapshotKeeps
<1>8. ASSUME NEW h \in Holders, Forget(h) PROVE OInv'
  BY <1>8, ForgetKeeps
<1>9. ASSUME NEW on \in BOOLEAN, SetInPlaceSwap(on) PROVE OInv'
  BY <1>9, SettingKeeps
<1>10. CASE UNCHANGED vars
  <2>1. Refs(front') = Refs(front) /\ Refs(back') = Refs(back) /\ Held' = Held
    BY <1>10 DEF vars, Refs, Held
  <2> QED  BY <1>10, <2>1
      DEF OInv, vars, TypeOK, Labelled, Kinds, Apart, PoolIsFree, Copies, ShownStays
<1> QED  BY <1>1, <1>2, <1>3, <1>4, <1>5, <1>6, <1>7, <1>8, <1>9, <1>10 DEF Next

LEMMA Invariant ==
  ASSUME Disciplined
  PROVE  Spec => []OInv
<1>1. Init => OInv
  BY StartKeeps
<1>2. OInv /\ [Next]_vars => OInv'
  BY NextKeeps
<1> QED  BY <1>1, <1>2, PTL DEF Spec

-----------------------------------------------------------------------------
(* The theorems.                                                           *)

\* Whatever the physics loop, the pool, the dataset switches and the snapshots of any
\* number of goroutines do, every buffer, snapshot and object keeps its type.
THEOREM TypeCorrect ==
  ASSUME Disciplined
  PROVE  Spec => []TypeOK
<1>1. OInv => TypeOK
  BY DEF OInv
<1> QED  BY <1>1, Invariant, PTL

\* The physics loop writes to the objects of the back buffer without a lock, and the
\* pool may hand out and overwrite any object it holds: none of those is in the front
\* buffer or is one that a snapshot shows.  It needs the discipline under which the
\* program sets in-place swap.
THEOREM BackStaysPrivate ==
  ASSUME Disciplined
  PROVE  Spec => []BackIsPrivate
<1>1. OInv => BackIsPrivate
  BY DEF OInv, Apart, Copies, BackIsPrivate
<1> QED  BY <1>1, Invariant, PTL

\* What WorldSnapshot shows stays as it was taken, through any number of steps, swaps in
\* place or by clone, reuse of pooled objects, and levels grown and shown.
THEOREM ShownIsKept ==
  ASSUME Disciplined
  PROVE  Spec => []ShownStays
<1>1. OInv => ShownStays
  BY DEF OInv
<1> QED  BY <1>1, Invariant, PTL

=============================================================================
