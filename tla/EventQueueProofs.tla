-------------------------- MODULE EventQueueProofs --------------------------
(***************************************************************************)
(* Theorems about EventQueue, for any number of objects, goroutines and    *)
(* events: types, round robin, what ErrNoEvents means, that the metrics add *)
(* up, and, with one consumer, the order of application and the promise of *)
(* Delivery.                                                               *)
(***************************************************************************)
EXTENDS EventQueue, FiniteSetTheorems, WellFoundedInduction, TLAPS

\* After the a-th place of a scan that starts at r has been served, the next scan visits
\* the places after a in order, then those before it, and a last.
LEMMA Rotates ==
  ASSUME NEW L \in Nat \ {0}, NEW r \in 0 .. L - 1, NEW a \in 0 .. L - 1,
         NEW i \in 0 .. L - 1, NEW j \in 0 .. L - 1,
         j = IF i = L - 1 THEN a ELSE IF a + 1 + i < L THEN a + 1 + i ELSE a + 1 + i - L
  PROVE  (((((r + a) % L) + 1) % L) + i) % L = (r + j) % L
<1>1. PICK k \in 0 .. L - 1 : k = (r + a) % L
  OBVIOUS
<1>2. k = IF r + a < L THEN r + a ELSE r + a - L
  <2>1. CASE r + a < L
    BY <1>1, <2>1
  <2>2. CASE r + a >= L
    BY <1>1, <2>2
  <2> QED  BY <2>1, <2>2
<1>3. PICK s \in 0 .. L - 1 : s = (k + 1) % L
  OBVIOUS
<1>4. s = IF k + 1 < L THEN k + 1 ELSE 0
  BY <1>3
<1>5. (s + i) % L = IF s + i < L THEN s + i ELSE s + i - L
  <2>1. CASE s + i < L
    BY <2>1
  <2>2. CASE s + i >= L
    BY <2>2
  <2> QED  BY <2>1, <2>2
<1>6. (r + j) % L = IF r + j < L THEN r + j ELSE r + j - L
  <2>1. CASE r + j < L
    BY <2>1
  <2>2. CASE r + j >= L
    BY <2>2
  <2> QED  BY <2>1, <2>2
<1>7. (s + i) % L = (r + j) % L
  BY <1>2, <1>4, <1>5, <1>6
<1> QED  BY <1>1, <1>3, <1>7

-----------------------------------------------------------------------------
(* The inductive invariants.                                               *)

\* Events are only in queues the manager knows, and so is what is on its way.
Listed ==
  /\ \A g \in Guids : queues[g] # << >> => g \in Known
  /\ \A p \in Producers : producer[p].at = "put" => producer[p].guid \in Known
  /\ \A t \in Takers : taker[t].at = "take" => taker[t].guid \in Guids

\* The scan under way has not run past the last queue.
Within == ~Unlocked => scan.offset < Len(queueIDs)

\* A queue that comes i-th in the next scan has been passed over at most as often as
\* others are no longer ahead of it; one the scan under way found empty, not at all.
Fair ==
  /\ \A g \in Guids : queues[g] = << >> => passed[g] = 0
  /\ \A i \in 0 .. Len(queueIDs) - 1 :
       /\ passed[At(i)] + i < Len(queueIDs)
       /\ ~Unlocked /\ i < scan.offset => passed[At(i)] = 0

\* Unless excused, a scan has an event still ahead of it.
Ahead ==
  ~Unlocked /\ ~excused =>
    \E i \in scan.offset .. Len(queueIDs) - 1 : queues[At(i)] # << >>

QInv == TypeOK /\ Listed /\ Within /\ Fair /\ Ahead

OneWorker == \A v, w \in Workers : v = w

\* The last Len(q) of the events 1 .. s, in order.
LastOf(q, s) == Len(q) <= s /\ \A i \in 1 .. Len(q) : q[i] = s - Len(q) + i

\* A queue holds the newest events accepted for its object, in order.
Newest == \A g \in Guids : LastOf(queues[g], sent[g])

\* What is at hand lies between the last event applied and those in the queue.
HandBetween ==
  /\ \A g \in Guids : applied[g] <= sent[g] - Len(queues[g])
  /\ \A w \in Workers : hand[w] # None =>
       /\ applied[hand[w].guid] < hand[w].no
       /\ hand[w].no <= sent[hand[w].guid] - Len(queues[hand[w].guid])
  /\ \A w \in Workers : scan.by = w => hand[w] = None

\* How many events of an object have left its queue: the events 1 .. LeftQueue(g).
LeftQueue(g) == sent[g] - Len(queues[g])

AtHand(g, i) == \E v \in Workers : hand[v] = [guid |-> g, no |-> i]

\* Every event that has left its queue is gone or at hand, not both, and in one hand.
Accounted ==
  /\ \A g \in Guids : \A i \in gone[g] : i <= LeftQueue(g)
  /\ \A g \in Guids : \A i \in 1 .. LeftQueue(g) : i \in gone[g] \/ AtHand(g, i)
  /\ \A w \in Workers : hand[w] # None =>
       hand[w].no \notin gone[hand[w].guid] /\ hand[w].no <= LeftQueue(hand[w].guid)
  /\ \A v, w \in Workers : hand[v] # None /\ hand[v] = hand[w] => v = w
  /\ \A w \in Workers : scan.by = w => hand[w] = None

WorkersInv == QInv /\ Newest /\ Accounted

OrderInv == QInv /\ Newest /\ HandBetween

InHand(g) == \E w \in Workers : hand[w] # None /\ hand[w].guid = g

\* Nothing is lost: what is accepted is applied, at hand or pending.
NothingLost ==
  \A g \in Guids :
    /\ Len(queues[g]) <= Capacity
    /\ applied[g] + (IF InHand(g) THEN 1 ELSE 0) + Len(queues[g]) = sent[g]

-----------------------------------------------------------------------------
(* Places in the scanning order.                                           *)

\* Every position of a scan is a queue of the list.
LEMMA AtIsListed ==
  ASSUME TypeOK, queueIDs # << >>, NEW i \in Nat
  PROVE  Position(i) \in 0 .. Len(queueIDs) - 1 /\ At(i) \in Guids /\ At(i) \in Known
<1>1. Len(queueIDs) \in Nat \ {0} /\ rrIndex \in Nat
  BY DEF TypeOK
<1>2. Position(i) \in 0 .. Len(queueIDs) - 1
  BY <1>1 DEF Position
<1>3. Position(i) + 1 \in DOMAIN queueIDs /\ queueIDs \in Seq(Guids)
  BY <1>1, <1>2 DEF TypeOK
<1> QED  BY <1>2, <1>3 DEF At, Known

\* Every listed queue has a place in the scanning order.
LEMMA HasAPlace ==
  ASSUME TypeOK, NEW g \in Known
  PROVE  \E i \in 0 .. Len(queueIDs) - 1 : At(i) = g
<1> DEFINE L == Len(queueIDs)
<1>1. PICK k \in 1 .. L : queueIDs[k] = g
  BY DEF Known, TypeOK
<1>2. L \in Nat \ {0} /\ rrIndex \in 0 .. L - 1
  <2>1. L \in Nat /\ L # 0 /\ queueIDs # << >>
    BY <1>1 DEF TypeOK
  <2> QED  BY <2>1 DEF TypeOK
<1>3. CASE k - 1 >= rrIndex
  <2>1. k - 1 - rrIndex \in 0 .. L - 1 /\ rrIndex + (k - 1 - rrIndex) = k - 1
    BY <1>2, <1>3
  <2>2. (rrIndex + (k - 1 - rrIndex)) % L = k - 1
    BY <1>2, <2>1
  <2> QED  BY <1>1, <2>1, <2>2 DEF At, Position
<1>4. CASE k - 1 < rrIndex
  <2>1. /\ L + k - 1 - rrIndex \in 0 .. L - 1
        /\ rrIndex + (L + k - 1 - rrIndex) = L + k - 1
    BY <1>2, <1>4
  <2>2. (L + k - 1) % L = k - 1
    BY <1>2
  <2> QED  BY <1>1, <2>1, <2>2 DEF At, Position
<1> QED  BY <1>2, <1>3, <1>4

-----------------------------------------------------------------------------
(* QInv holds initially and every action keeps it.                         *)

LEMMA QInit == Init => QInv
<1> SUFFICES ASSUME Init PROVE QInv
  OBVIOUS
<1> USE DEF Init
<1>1. TypeOK
  <2>1. producer \in [Producers -> [at : {"idle", "put", "count", "reject"},
                                    guid : Guids \union {None}]]
    BY DEF Idle
  <2>2. taker \in [Takers -> [at : {"idle", "take", "count"},
                              guid : Guids \union {None}, n : Nat]]
    BY DEF Resting
  <2>3. metrics \in [enqueued : Nat, dequeued : Nat, rejected : Nat, peak : Nat]
    OBVIOUS
  <2>4. queues \in [Guids -> Seq(Nat)] /\ queueIDs \in Seq(Guids)
    OBVIOUS
  <2>5. scan \in [by : Workers \union {None}, offset : Nat]
    OBVIOUS
  <2>6. hand \in [Workers -> [guid : Guids, no : Nat] \union {None}]
    OBVIOUS
  <2>7. /\ sent \in [Guids -> Nat] /\ applied \in [Guids -> Nat] /\ passed \in [Guids -> Nat]
        /\ excused \in BOOLEAN /\ queueIDs = << >> /\ gone \in [Guids -> SUBSET Nat]
    OBVIOUS
  <2>8. rrIndex \in 0 .. Len(queueIDs)
    <3>1. rrIndex = 0 /\ Len(queueIDs) = 0
      OBVIOUS
    <3> QED  BY <3>1
  <2> HIDE DEF Init
  <2> QED  BY <2>1, <2>2, <2>3, <2>4, <2>5, <2>6, <2>7, <2>8 DEF TypeOK
<1>2. Listed /\ Within /\ Ahead
  BY DEF Listed, Within, Ahead, Unlocked, Idle, Resting
<1>3. Fair
  BY DEF Fair, Unlocked
<1> QED  BY <1>1, <1>2, <1>3 DEF QInv

\* What the scanning order and the round robin depend on.
shared == <<queues, queueIDs, rrIndex, scan, passed, excused>>

\* A step that leaves them alone.
LEMMA QuietKeeps ==
  ASSUME QInv, UNCHANGED shared
  PROVE  Within' /\ Fair' /\ Ahead'
<1>1. \A i \in 0 .. Len(queueIDs) : At(i)' = At(i)
  BY DEF shared, At, Position
<1>2. Len(queueIDs) \in Nat /\ scan.offset \in Nat
  BY DEF QInv, TypeOK
<1>3. Unlocked' = Unlocked
  BY DEF shared, Unlocked
<1>4. Within'
  BY <1>3 DEF QInv, shared, Within
<1>5. Fair'
  BY <1>1, <1>2, <1>3 DEF QInv, shared, Fair
<1>6. Ahead'
  BY <1>1, <1>2, <1>3 DEF QInv, shared, Ahead
<1> QED  BY <1>4, <1>5, <1>6

\* Types.  The event found needs the scan to be within the list.
LEMMA TypeStep ==
  ASSUME TypeOK, Listed, Within, [Next]_vars
  PROVE  TypeOK'
<1> USE DEF TypeOK
<1>0. /\ metrics.enqueued + 1 \in Nat /\ metrics.dequeued + 1 \in Nat
      /\ metrics.rejected + 1 \in Nat /\ metrics.peak \in Nat /\ Len(queueIDs) \in Nat
  OBVIOUS
<1>1. ASSUME NEW p \in Producers, NEW g \in Guids, Route(p, g) PROVE TypeOK'
  <2>1. queueIDs' \in Seq(Guids) /\ Len(queueIDs') \in {Len(queueIDs), Len(queueIDs) + 1}
    BY <1>1 DEF Route
  <2>2. rrIndex' \in 0 .. Len(queueIDs') /\ (queueIDs' # << >> => rrIndex' < Len(queueIDs'))
    BY <1>1, <2>1 DEF Route
  <2> QED  BY <1>1, <2>1, <2>2 DEF Route, history
<1>2. ASSUME NEW p \in Producers, Put(p) PROVE TypeOK'
  <2>1. producer[p].guid \in Guids
    BY <1>2 DEF Put, Listed, Known
  <2>2. queues' \in [Guids -> Seq(Nat)] /\ sent' \in [Guids -> Nat]
    BY <1>2, <2>1 DEF Put, Pushed
  <2>3. producer' \in [Producers ->
          [at : {"idle", "put", "count", "reject"}, guid : Guids \union {None}]]
    BY <1>2, <2>1 DEF Put
  <2>4. /\ queueIDs' = queueIDs /\ rrIndex' = rrIndex /\ metrics' = metrics /\ scan' = scan
        /\ taker' = taker /\ hand' = hand /\ applied' = applied /\ passed' = passed
        /\ excused' = excused /\ gone' = gone
    BY <1>2 DEF Put
  <2> QED  BY <2>2, <2>3, <2>4
<1>3. ASSUME NEW p \in Producers, Refuse(p) PROVE TypeOK'
  <2>1. producer' \in [Producers ->
          [at : {"idle", "put", "count", "reject"}, guid : Guids \union {None}]]
    BY <1>3 DEF Refuse
  <2> QED  BY <1>3, <2>1 DEF Refuse, history
<1>4. ASSUME NEW p \in Producers, CountEnqueued(p) PROVE TypeOK'
  <2>1. metrics' \in [enqueued : Nat, dequeued : Nat, rejected : Nat, peak : Nat]
    BY <1>0, <1>4 DEF CountEnqueued
  <2>2. producer' \in [Producers ->
          [at : {"idle", "put", "count", "reject"}, guid : Guids \union {None}]]
    BY <1>4 DEF CountEnqueued, Idle
  <2> QED  BY <1>4, <2>1, <2>2 DEF CountEnqueued, history
<1>5. ASSUME NEW p \in Producers, CountRejected(p) PROVE TypeOK'
  <2>1. metrics' \in [enqueued : Nat, dequeued : Nat, rejected : Nat, peak : Nat]
    BY <1>0, <1>5 DEF CountRejected
  <2>2. producer' \in [Producers ->
          [at : {"idle", "put", "count", "reject"}, guid : Guids \union {None}]]
    BY <1>5 DEF CountRejected, Idle
  <2> QED  BY <1>5, <2>1, <2>2 DEF CountRejected, history
<1>6. ASSUME NEW w \in Workers, Acquire(w) PROVE TypeOK'
  BY <1>6 DEF Acquire, AllEmpty
<1>7. ASSUME NEW w \in Workers, Found(w) PROVE TypeOK'
  <2>1. queueIDs # << >> /\ scan.offset \in Nat
    <3>1. scan.offset \in Nat /\ Len(queueIDs) \in Nat
      OBVIOUS
    <3>2. scan.offset < Len(queueIDs)
      BY <1>7, NobodyAssumption DEF Found, Within, Unlocked
    <3> HIDE DEF TypeOK
    <3>3. Len(queueIDs) # 0
      BY <3>1, <3>2
    <3> QED  BY <3>1, <3>3
  <2>2. Position(scan.offset) \in 0 .. Len(queueIDs) - 1 /\ ScanGuid \in Guids
    BY <2>1, AtIsListed DEF ScanGuid
  <2>3. queues[ScanGuid] \in Seq(Nat) /\ queues[ScanGuid] # << >>
    BY <1>7, <2>2 DEF Found
  <2>4. Head(queues[ScanGuid]) \in Nat /\ Tail(queues[ScanGuid]) \in Seq(Nat)
    <3>1. PICK q \in Seq(Nat) : q = queues[ScanGuid] /\ q # << >>
      BY <2>3
    <3> HIDE DEF TypeOK
    <3>2. Head(q) \in Nat /\ Tail(q) \in Seq(Nat)
      BY <3>1
    <3> QED  BY <3>1, <3>2
  <2>5. rrIndex' \in 0 .. Len(queueIDs) - 1
    <3>1. Len(queueIDs) \in Nat \ {0}
      BY <2>1
    <3>2. rrIndex' = (Position(scan.offset) + 1) % Len(queueIDs)
      BY <1>7 DEF Found, After
    <3> HIDE DEF TypeOK
    <3> QED  BY <2>2, <3>1, <3>2
  <2>6. /\ hand' \in [Workers -> [guid : Guids, no : Nat] \union {None}]
        /\ queues' \in [Guids -> Seq(Nat)]
    BY <1>7, <2>2, <2>4 DEF Found
  <2>7. passed' \in [Guids -> Nat]
    <3>1. \A g \in Guids : passed[g] \in Nat /\ passed[g] + 1 \in Nat
      OBVIOUS
    <3> QED  BY <1>7, <3>1 DEF Found
  <2>8. metrics' \in [enqueued : Nat, dequeued : Nat, rejected : Nat, peak : Nat]
    BY <1>0, <1>7 DEF Found
  <2>11. scan' \in [by : Workers \union {None}, offset : Nat]
    BY <1>7 DEF Found
  <2>9. /\ queueIDs' = queueIDs /\ producer' = producer /\ taker' = taker
        /\ sent' = sent /\ applied' = applied /\ excused' = excused /\ gone' = gone
    BY <1>7 DEF Found
  <2>10. rrIndex' \in 0 .. Len(queueIDs') /\ rrIndex' < Len(queueIDs')
    BY <2>5, <2>9
  <2> QED  BY <2>6, <2>7, <2>8, <2>9, <2>10, <2>11
<1>8. ASSUME NEW w \in Workers, Skip(w) PROVE TypeOK'
  BY <1>8 DEF Skip, history
<1>9. ASSUME NEW w \in Workers, Apply(w) PROVE TypeOK'
  <2>1. applied' \in [Guids -> Nat] /\ gone' \in [Guids -> SUBSET Nat]
    BY <1>9 DEF Apply
  <2>2. hand' \in [Workers -> [guid : Guids, no : Nat] \union {None}]
    BY <1>9 DEF Apply
  <2> QED  BY <1>9, <2>1, <2>2 DEF Apply
<1>10. ASSUME NEW t \in Takers, NEW g \in Guids, LookUp(t, g) PROVE TypeOK'
  BY <1>10 DEF LookUp, history
<1>11. ASSUME NEW t \in Takers, NEW n \in 0 .. Capacity, Take(t, n) PROVE TypeOK'
  <2>1. taker[t].guid \in Guids /\ n \in Nat
    BY <1>11, CapacityAssumption DEF Take, Listed
  <2>2. SubSeq(queues[taker[t].guid], n + 1, Len(queues[taker[t].guid])) \in Seq(Nat)
    <3>1. PICK q \in Seq(Nat) : q = queues[taker[t].guid]
      BY <2>1
    <3>2. SubSeq(q, n + 1, Len(q)) \in Seq(Nat)
      <4> HIDE DEF TypeOK
      <4> QED  BY <2>1
    <3> QED  BY <3>1, <3>2
  <2>3. gone' \in [Guids -> SUBSET Nat]
    <3>1. PICK q \in Seq(Nat) : q = queues[taker[t].guid]
      BY <2>1
    <3>2. n \in 0 .. Len(q)
      <4> HIDE DEF TypeOK
      <4>1. Len(q) \in Nat /\ (q # << >> => Len(q) # 0)
        OBVIOUS
      <4> QED  BY <1>11, <2>1, <3>1, <4>1 DEF Take
    <3>3. {q[i] : i \in 1 .. n} \subseteq Nat
      <4> HIDE DEF TypeOK
      <4>1. 1 .. n \subseteq 1 .. Len(q)
        BY <3>2
      <4> QED  BY <4>1
    <3>4. gone' = [gone EXCEPT ![taker[t].guid] =
                     gone[taker[t].guid] \union {q[i] : i \in 1 .. n}]
      BY <1>11, <3>1 DEF Take
    <3> HIDE DEF TypeOK
    <3>5. gone \in [Guids -> SUBSET Nat]
      BY DEF TypeOK
    <3> QED  BY <2>1, <3>3, <3>4, <3>5
  <2>4. queues' \in [Guids -> Seq(Nat)] /\ passed' \in [Guids -> Nat] /\ excused' = TRUE
    BY <1>11, <2>1, <2>2 DEF Take
  <2>5. taker' \in [Takers ->
          [at : {"idle", "take", "count"}, guid : Guids \union {None}, n : Nat]]
    BY <1>11, <2>1 DEF Take
  <2> QED  BY <1>11, <2>3, <2>4, <2>5 DEF Take
<1>12. ASSUME NEW t \in Takers, TakeNothing(t) PROVE TypeOK'
  BY <1>12 DEF TakeNothing, Resting, history
<1>13. ASSUME NEW t \in Takers, CountTaken(t) PROVE TypeOK'
  <2>1. metrics.dequeued + taker[t].n \in Nat
    OBVIOUS
  <2>2. metrics' \in [enqueued : Nat, dequeued : Nat, rejected : Nat, peak : Nat]
    BY <1>13, <2>1 DEF CountTaken
  <2> QED  BY <1>13, <2>2 DEF CountTaken, Resting, history
<1>14. CASE UNCHANGED vars
  BY <1>14 DEF vars
<1> HIDE DEF TypeOK
<1> QED
  BY <1>1, <1>2, <1>3, <1>4, <1>5, <1>6, <1>7, <1>8, <1>9, <1>10, <1>11, <1>12, <1>13, <1>14
     DEF Next, Produce, Consume, TakeOut

\* The GUIDs of the list stay in it, and every GUID that is routed is there.
LEMMA ListedStep ==
  ASSUME QInv, [Next]_vars
  PROVE  Listed'
<1> USE DEF Listed
<1>0. TypeOK /\ Listed /\ Within
  BY DEF QInv
<1>1. ASSUME NEW p \in Producers, NEW g \in Guids, Route(p, g) PROVE Listed'
  <2>1. g \in Known' /\ \A h \in Known : h \in Known'
    <3>1. CASE g \in Known
      BY <1>1, <3>1 DEF Route, Known
    <3>2. CASE g \notin Known
      <4>1. queueIDs' = Append(queueIDs, g) /\ queueIDs \in Seq(Guids)
        BY <1>0, <1>1, <3>2 DEF Route, TypeOK
      <4>2. /\ Len(queueIDs') = Len(queueIDs) + 1 /\ queueIDs'[Len(queueIDs) + 1] = g
            /\ \A i \in DOMAIN queueIDs : i \in DOMAIN queueIDs' /\ queueIDs'[i] = queueIDs[i]
            /\ Len(queueIDs) + 1 \in DOMAIN queueIDs'
        BY <4>1
      <4> QED  BY <4>2 DEF Known
    <3> QED  BY <3>1, <3>2
  <2>2. \A q \in Producers : producer'[q].at = "put" => producer'[q].guid \in Known'
    BY <1>0, <1>1, <2>1 DEF Route, TypeOK
  <2> QED  BY <1>0, <1>1, <2>1, <2>2 DEF Route, history
<1>2. ASSUME NEW p \in Producers, Put(p) PROVE Listed'
  <2>1. producer[p].guid \in Known /\ Known' = Known
    BY <1>0, <1>2 DEF Put, Known
  <2>2. \A g \in Guids : g # producer[p].guid => queues'[g] = queues[g]
    BY <1>0, <1>2 DEF Put, TypeOK
  <2>3. \A q \in Producers : q # p => producer'[q] = producer[q]
    BY <1>0, <1>2 DEF Put, TypeOK
  <2>4. producer'[p].at # "put"
    BY <1>0, <1>2 DEF Put, TypeOK
  <2> QED  BY <1>0, <1>2, <2>1, <2>2, <2>3, <2>4 DEF Put
<1>3. ASSUME NEW p \in Producers, Refuse(p) PROVE Listed'
  BY <1>0, <1>3 DEF Refuse, TypeOK, Known, history
<1>4. ASSUME NEW p \in Producers, CountEnqueued(p) PROVE Listed'
  BY <1>0, <1>4 DEF CountEnqueued, TypeOK, Known, Idle, history
<1>5. ASSUME NEW p \in Producers, CountRejected(p) PROVE Listed'
  BY <1>0, <1>5 DEF CountRejected, TypeOK, Known, Idle, history
<1>6. ASSUME NEW w \in Workers, Acquire(w) PROVE Listed'
  BY <1>0, <1>6 DEF Acquire, Known
<1>7. ASSUME NEW w \in Workers, Found(w) PROVE Listed'
  <2>1. \A g \in Guids : queues[g] = << >> => queues'[g] = << >>
    BY <1>0, <1>7 DEF Found, TypeOK
  <2> QED  BY <1>0, <1>7, <2>1 DEF Found, Known
<1>8. ASSUME NEW w \in Workers, Skip(w) PROVE Listed'
  BY <1>0, <1>8 DEF Skip, Known, history
<1>9. ASSUME NEW w \in Workers, Apply(w) PROVE Listed'
  BY <1>0, <1>9 DEF Apply, Known
<1>10. ASSUME NEW t \in Takers, NEW g \in Guids, LookUp(t, g) PROVE Listed'
  BY <1>0, <1>10 DEF LookUp, TypeOK, Known, history
<1>11. ASSUME NEW t \in Takers, NEW n \in 0 .. Capacity, Take(t, n) PROVE Listed'
  <2>1. taker[t].guid \in Guids /\ n \in Nat
    BY <1>0, <1>11, CapacityAssumption DEF Take
  <2>2. \A g \in Guids : queues[g] = << >> => queues'[g] = << >>
    <3>1. queues[taker[t].guid] = << >> =>
            SubSeq(queues[taker[t].guid], n + 1, Len(queues[taker[t].guid])) = << >>
      BY <2>1
    <3> QED  BY <1>0, <1>11, <2>1, <3>1 DEF Take, TypeOK
  <2>3. \A s \in Takers : taker'[s].at = "take" => taker'[s].guid \in Guids
    BY <1>0, <1>11 DEF Take, TypeOK
  <2> QED  BY <1>0, <1>11, <2>2, <2>3 DEF Take, Known
<1>12. ASSUME NEW t \in Takers, TakeNothing(t) PROVE Listed'
  BY <1>0, <1>12 DEF TakeNothing, TypeOK, Known, Resting, history
<1>13. ASSUME NEW t \in Takers, CountTaken(t) PROVE Listed'
  BY <1>0, <1>13 DEF CountTaken, TypeOK, Known, Resting, history
<1>14. CASE UNCHANGED vars
  BY <1>0, <1>14 DEF vars, Known
<1> HIDE DEF Listed
<1> QED
  BY <1>1, <1>2, <1>3, <1>4, <1>5, <1>6, <1>7, <1>8, <1>9, <1>10, <1>11, <1>12, <1>13, <1>14
     DEF Next, Produce, Consume, TakeOut

\* A queue found empty is no longer ahead; one found with an event goes to the end of
\* the order, and those before it had not been passed over.
LEMMA FoundKeeps ==
  ASSUME QInv, NEW w \in Workers, Found(w)
  PROVE  Within' /\ Fair' /\ Ahead'
<1> DEFINE L == Len(queueIDs)
           a == scan.offset
           r == rrIndex
<1>0. TypeOK /\ Listed /\ Within /\ Fair
  BY DEF QInv
<1>1. ~Unlocked /\ Unlocked'
  BY NobodyAssumption DEF Found, Unlocked
<1>2. L \in Nat \ {0} /\ a \in 0 .. L - 1 /\ r \in 0 .. L - 1 /\ queueIDs # << >>
  <2>1. L \in Nat /\ a \in Nat /\ a < L
    BY <1>0, <1>1 DEF TypeOK, Within
  <2>2. queueIDs # << >>
    BY <2>1
  <2> QED  BY <1>0, <2>1, <2>2 DEF TypeOK
<1>3. Within' /\ Ahead'
  BY <1>1 DEF Within, Ahead
<1>4. ASSUME NEW g \in Guids
      PROVE  /\ passed'[g] = IF g = ScanGuid \/ queues[g] = << >> THEN 0 ELSE passed[g] + 1
             /\ g # ScanGuid => queues'[g] = queues[g]
             /\ passed[g] \in Nat
  BY <1>0 DEF Found, TypeOK
<1>5. \A g \in Guids : queues'[g] = << >> => passed'[g] = 0
  BY <1>4
<1>6. ASSUME NEW i \in 0 .. L - 1
      PROVE  \E j \in 0 .. L - 1 :
               /\ At(i)' = At(j)
               /\ j = IF i = L - 1 THEN a ELSE IF a + 1 + i < L THEN a + 1 + i ELSE a + 1 + i - L
  <2> DEFINE j == IF i = L - 1 THEN a
                  ELSE IF a + 1 + i < L THEN a + 1 + i ELSE a + 1 + i - L
  <2>1. j \in 0 .. L - 1
    BY <1>2
  <2>2. rrIndex' = (((r + a) % L) + 1) % L /\ queueIDs' = queueIDs
    BY DEF Found, After, Position
  <2>3. (rrIndex' + i) % L = (r + j) % L
    <3> HIDE DEF L, a, r, j
    <3>1. (((((r + a) % L) + 1) % L) + i) % L = (r + j) % L
      BY <1>2, <2>1, Rotates DEF j
    <3> QED  BY <2>2, <3>1 DEF r, a, L
  <2> QED  BY <2>1, <2>2, <2>3 DEF At, Position
<1>7. ASSUME NEW i \in 0 .. L - 1 PROVE passed'[At(i)'] + i < L
  <2>1. PICK j \in 0 .. L - 1 :
          /\ At(i)' = At(j)
          /\ j = IF i = L - 1 THEN a ELSE IF a + 1 + i < L THEN a + 1 + i ELSE a + 1 + i - L
    BY <1>6
  <2>2. At(j) \in Guids
    BY <1>0, <1>2, AtIsListed
  <2>3. passed[At(j)] \in Nat /\ passed[At(j)] + j < L /\ (j < a => passed[At(j)] = 0)
    BY <1>0, <1>1, <2>2 DEF Fair, TypeOK
  <2>4. CASE i = L - 1
    <3>1. At(j) = ScanGuid
      BY <2>1, <2>4 DEF ScanGuid
    <3>2. passed'[At(j)] = 0
      BY <1>4, <2>2, <3>1
    <3> QED  BY <1>2, <2>1, <2>4, <3>2
  <2>5. CASE i # L - 1
    <3>1. passed'[At(j)] = 0 \/ passed'[At(j)] = passed[At(j)] + 1
      BY <1>4, <2>2
    <3>2. passed[At(j)] + 1 + i < L
      <4> DEFINE m == passed[At(j)]
      <4>1. m \in Nat /\ m + j < L /\ (j < a => m = 0)
        BY <2>3
      <4> HIDE DEF m, L, a
      <4>2. m + 1 + i < L
        <5>1. CASE a + 1 + i < L
          BY <1>2, <2>1, <2>5, <4>1, <5>1
        <5>2. CASE ~(a + 1 + i < L)
          BY <1>2, <2>1, <2>5, <4>1, <5>2
        <5> QED  BY <5>1, <5>2
      <4> QED  BY <4>2 DEF m, L
    <3> QED  BY <1>2, <2>1, <2>3, <3>1, <3>2
  <2> QED  BY <2>4, <2>5
<1>8. Fair'
  <2>1. queueIDs' = queueIDs
    BY DEF Found
  <2> QED  BY <1>1, <1>5, <1>7, <2>1 DEF Fair
<1> QED  BY <1>3, <1>8

\* A queue that is created has not been passed over, and those scanned after the end of
\* the list come one later.
LEMMA RouteKeeps ==
  ASSUME QInv, NEW p \in Producers, NEW g \in Guids, Route(p, g)
  PROVE  Within' /\ Fair' /\ Ahead'
<1> DEFINE L == Len(queueIDs)
           r == rrIndex
<1>0. TypeOK /\ Listed /\ Within /\ Fair
  BY DEF QInv
<1>1. CASE g \in Known
  BY <1>1, QuietKeeps DEF Route, shared, history
<1>2. CASE g \notin Known
  <2>1. Unlocked /\ Unlocked' /\ queues' = queues /\ passed' = passed /\ r' = r
    BY DEF Route, Unlocked, history
  <2>2. L \in Nat /\ r \in 0 .. L /\ (L # 0 => r < L)
    BY <1>0 DEF TypeOK
  <2>3. queueIDs' = Append(queueIDs, g) /\ queueIDs \in Seq(Guids)
    BY <1>0, <1>2 DEF Route, TypeOK
  <2>4. /\ Len(queueIDs') = L + 1 /\ queueIDs'[L + 1] = g
        /\ \A k \in 1 .. L : queueIDs'[k] = queueIDs[k]
    BY <2>3
  <2>5. passed[g] = 0
    BY <1>0, <1>2 DEF Listed, Fair
  <2>6. ASSUME NEW i \in 0 .. L PROVE passed[At(i)'] + i < L + 1
    <3>1. At(i)' = queueIDs'[((r + i) % (L + 1)) + 1]
      BY <2>1, <2>4 DEF At, Position
    <3>2. CASE r + i < L
      <4>1. (r + i) % (L + 1) = r + i /\ (r + i) % L = r + i
        <5> HIDE DEF L, r
        <5> QED  BY <2>2, <3>2
      <4>2. At(i)' = At(i) /\ i \in 0 .. L - 1
        BY <2>2, <2>4, <3>1, <3>2, <4>1 DEF At, Position
      <4>3. At(i) \in Guids
        <5>1. queueIDs # << >>
          BY <2>2, <3>2
        <5> QED  BY <1>0, <5>1, AtIsListed
      <4>4. passed[At(i)] + i < L /\ passed[At(i)] \in Nat
        BY <1>0, <4>2, <4>3 DEF Fair, TypeOK
      <4>5. passed[At(i)'] = passed[At(i)] /\ i \in Nat
        BY <4>2
      <4> HIDE DEF L, r
      <4> QED  BY <2>2, <4>4, <4>5
    <3>3. CASE r + i = L
      <4>1. (r + i) % (L + 1) = L
        <5> HIDE DEF L, r
        <5> QED  BY <2>2, <3>3
      <4>2. At(i)' = g
        BY <2>4, <3>1, <4>1
      <4>3. passed[At(i)'] = 0 /\ i \in 0 .. L
        BY <2>5, <4>2
      <4> HIDE DEF L, r
      <4> QED  BY <2>2, <4>3
    <3>4. CASE r + i > L
      <4>1. L \in Nat \ {0} /\ r < L /\ i - 1 \in 0 .. L - 1 /\ queueIDs # << >>
        BY <2>2, <3>4
      <4>2. (r + i) % (L + 1) = r + i - L - 1 /\ (r + (i - 1)) % L = r + i - 1 - L
        <5> HIDE DEF L, r
        <5> QED  BY <2>2, <3>4, <4>1
      <4>3. At(i)' = At(i - 1)
        <5>1. r + i - L - 1 + 1 \in 1 .. L
          BY <2>2, <3>4, <4>1
        <5> QED  BY <2>4, <3>1, <4>2, <5>1 DEF At, Position
      <4>4. At(i - 1) \in Guids
        BY <1>0, <4>1, AtIsListed
      <4>5. passed[At(i - 1)] + (i - 1) < L /\ passed[At(i - 1)] \in Nat
        BY <1>0, <4>1, <4>4 DEF Fair, TypeOK
      <4> QED  BY <2>2, <4>3, <4>5
    <3> QED  BY <2>2, <3>2, <3>3, <3>4
  <2>7. \A i \in 0 .. Len(queueIDs') - 1 : passed[At(i)'] + i < Len(queueIDs')
    BY <2>2, <2>4, <2>6
  <2>8. Fair'
    BY <1>0, <2>1, <2>7 DEF Fair
  <2>9. Within' /\ Ahead'
    BY <2>1 DEF Within, Ahead
  <2> QED  BY <2>8, <2>9
<1> QED  BY <1>1, <1>2

\* An event arrives: its queue was empty or stays as fair, and no event goes away.
LEMMA PutKeeps ==
  ASSUME QInv, NEW p \in Producers, Put(p)
  PROVE  Within' /\ Fair' /\ Ahead'
<1> DEFINE L == Len(queueIDs)
<1>0. TypeOK /\ Listed /\ Within /\ Fair /\ Ahead
  BY DEF QInv
<1>1. /\ Unlocked' = Unlocked /\ passed' = passed /\ scan' = scan /\ excused' = excused
      /\ queueIDs' = queueIDs /\ rrIndex' = rrIndex
  BY DEF Put, Unlocked
<1>2. \A i \in Int : At(i)' = At(i)
  BY <1>1 DEF At, Position
<1>3. \A g \in Guids : queues[g] # << >> => queues'[g] # << >>
  <2>1. \A g \in Guids : Append(queues[g], sent[g] + 1) # << >>
    <3>1. \A q \in Seq(Nat), e \in Nat : Len(Append(q, e)) # 0
      OBVIOUS
    <3>2. \A q \in Seq(Nat), e \in Nat : Append(q, e) # << >>
      BY <3>1
    <3>3. \A g \in Guids : queues[g] \in Seq(Nat) /\ sent[g] + 1 \in Nat
      BY <1>0 DEF TypeOK
    <3> QED  BY <3>2, <3>3
  <2> QED  BY <1>0, <2>1 DEF Put, Pushed, TypeOK
<1>4. Within'
  BY <1>0, <1>1 DEF Within
<1>5. Fair'
  <2>1. \A g \in Guids : queues'[g] = << >> => passed'[g] = 0
    BY <1>0, <1>1, <1>3 DEF Fair
  <2>2. L \in Nat
    BY <1>0 DEF TypeOK
  <2> QED  BY <1>0, <1>1, <1>2, <2>1, <2>2 DEF Fair
<1>6. Ahead'
  <2> SUFFICES ASSUME ~Unlocked, ~excused
               PROVE  \E i \in scan.offset .. L - 1 : queues'[At(i)] # << >>
    BY <1>1, <1>2 DEF Ahead
  <2>1. PICK i \in scan.offset .. L - 1 : queues[At(i)] # << >>
    BY <1>0 DEF Ahead
  <2>2. scan.offset \in Nat /\ L \in Nat /\ queueIDs # << >> /\ i \in Nat
    <3>1. scan.offset \in Nat /\ L \in Nat
      BY <1>0 DEF TypeOK
    <3>2. i \in Nat /\ L # 0
      BY <3>1
    <3> QED  BY <3>1, <3>2
  <2>3. At(i) \in Guids
    BY <1>0, <2>2, AtIsListed
  <2> QED  BY <1>3, <2>1, <2>3
<1> QED  BY <1>4, <1>5, <1>6

\* A scan starts: if any queue has an event, one of its places has.
LEMMA AcquireKeeps ==
  ASSUME QInv, NEW w \in Workers, Acquire(w)
  PROVE  Within' /\ Fair' /\ Ahead'
<1> DEFINE L == Len(queueIDs)
<1>0. TypeOK /\ Listed /\ Fair
  BY DEF QInv
<1>1. /\ queues' = queues /\ queueIDs' = queueIDs /\ rrIndex' = rrIndex /\ passed' = passed
      /\ scan' = [by |-> w, offset |-> 0] /\ scan'.offset = 0 /\ excused' = AllEmpty
  BY DEF Acquire
<1>2. L \in Nat \ {0}
  BY <1>0 DEF Acquire, TypeOK
<1>3. \A i \in Int : At(i)' = At(i)
  BY <1>1 DEF At, Position
<1>4. Within'
  BY <1>1, <1>2 DEF Within
<1>5. Fair'
  BY <1>0, <1>1, <1>2, <1>3 DEF Fair
<1>6. Ahead'
  <2> SUFFICES ASSUME ~AllEmpty PROVE \E i \in 0 .. L - 1 : queues[At(i)] # << >>
    BY <1>1, <1>2, <1>3 DEF Ahead
  <2>1. PICK g \in Guids : queues[g] # << >>
    BY DEF AllEmpty
  <2>2. g \in Known
    BY <1>0, <2>1 DEF Listed
  <2>3. \E i \in 0 .. L - 1 : At(i) = g
    BY <1>0, <2>2, HasAPlace
  <2> QED  BY <2>1, <2>3
<1> QED  BY <1>4, <1>5, <1>6

\* The scan passes an empty queue.
LEMMA SkipKeeps ==
  ASSUME QInv, NEW w \in Workers, Skip(w)
  PROVE  Within' /\ Fair' /\ Ahead'
<1> DEFINE L == Len(queueIDs)
           a == scan.offset
<1>0. TypeOK /\ Within /\ Fair /\ Ahead
  BY DEF QInv
<1>1. /\ queues' = queues /\ queueIDs' = queueIDs /\ rrIndex' = rrIndex /\ passed' = passed
      /\ excused' = excused /\ ~Unlocked /\ queues[At(a)] = << >>
      /\ scan' = IF ScanEnds THEN [by |-> None, offset |-> 0] ELSE [by |-> w, offset |-> a + 1]
  BY NobodyAssumption DEF Skip, Unlocked, ScanGuid, history
<1>2. L \in Nat /\ a \in Nat /\ a < L /\ queueIDs # << >>
  <2>1. L \in Nat /\ a \in Nat /\ a < L
    BY <1>0, <1>1 DEF TypeOK, Within
  <2> QED  BY <2>1
<1>3. \A i \in Int : At(i)' = At(i)
  BY <1>1 DEF At, Position
<1>4. ~Unlocked' => scan'.offset = a + 1 /\ a + 1 < L
  BY <1>1, <1>2 DEF ScanEnds, Unlocked
<1>5. Within'
  BY <1>1, <1>4 DEF Within
<1>6. Fair'
  <2>1. At(a) \in Guids
    BY <1>0, <1>2, AtIsListed
  <2>2. passed[At(a)] = 0
    BY <1>0, <1>1, <2>1 DEF Fair
  <2>3. ASSUME NEW i \in 0 .. L - 1, ~Unlocked', i < a + 1 PROVE passed[At(i)] = 0
    <3>1. i = a \/ i < a
      BY <1>2, <2>3
    <3> QED  BY <1>0, <1>1, <2>2, <3>1 DEF Fair
  <2> QED  BY <1>0, <1>1, <1>2, <1>3, <1>4, <2>3 DEF Fair
<1>7. Ahead'
  <2> SUFFICES ASSUME ~Unlocked', ~excused
               PROVE  \E i \in a + 1 .. L - 1 : queues[At(i)] # << >>
    BY <1>1, <1>2, <1>3, <1>4 DEF Ahead
  <2>1. PICK i \in a .. L - 1 : queues[At(i)] # << >>
    BY <1>0, <1>1 DEF Ahead
  <2>2. i # a
    BY <1>1, <2>1
  <2>3. i \in a + 1 .. L - 1
    BY <1>2, <2>2
  <2> QED  BY <2>1, <2>3
<1> QED  BY <1>5, <1>6, <1>7

\* Somebody else takes events: the scan under way is excused.
LEMMA TakeKeeps ==
  ASSUME QInv, NEW t \in Takers, NEW n \in 0 .. Capacity, Take(t, n)
  PROVE  Within' /\ Fair' /\ Ahead'
<1> DEFINE L == Len(queueIDs)
<1>0. TypeOK /\ Listed /\ Within /\ Fair
  BY DEF QInv
<1>1. /\ queueIDs' = queueIDs /\ rrIndex' = rrIndex /\ scan' = scan /\ excused' = TRUE
      /\ Unlocked' = Unlocked
  BY DEF Take, Unlocked
<1>2. \A i \in Int : At(i)' = At(i)
  BY <1>1 DEF At, Position
<1>3. ASSUME NEW g \in Guids
      PROVE  /\ passed[g] \in Nat /\ passed'[g] \in {0, passed[g]}
             /\ queues'[g] = << >> => passed'[g] = 0
  <2>1. CASE g = taker[t].guid
    BY <1>0, <2>1 DEF Take, TypeOK
  <2>2. CASE g # taker[t].guid
    BY <1>0, <2>2 DEF Take, TypeOK, Fair
  <2> QED  BY <2>1, <2>2
<1>4. Within' /\ Ahead'
  BY <1>0, <1>1 DEF Within, Ahead
<1>5. Fair'
  <2>1. ASSUME NEW i \in 0 .. L - 1
        PROVE  passed'[At(i)] + i < L /\ (~Unlocked /\ i < scan.offset => passed'[At(i)] = 0)
    <3>1. L \in Nat /\ queueIDs # << >> /\ i \in Nat
      <4>1. L \in Nat /\ L # 0
        BY <1>0 DEF TypeOK
      <4> QED  BY <4>1
    <3>2. At(i) \in Guids
      BY <1>0, <3>1, AtIsListed
    <3>3. passed[At(i)] + i < L /\ (~Unlocked /\ i < scan.offset => passed[At(i)] = 0)
      BY <1>0 DEF Fair
    <3>4. passed[At(i)] \in Nat /\ passed'[At(i)] \in {0, passed[At(i)]}
      BY <1>3, <3>2
    <3> HIDE DEF L
    <3> QED  BY <3>1, <3>3, <3>4 DEF L
  <2> QED  BY <1>1, <1>2, <1>3, <2>1 DEF Fair
<1> QED  BY <1>4, <1>5

LEMMA QNext ==
  ASSUME QInv, [Next]_vars
  PROVE  QInv'
<1>1. TypeOK'
  BY TypeStep DEF QInv
<1>2. Listed'
  BY ListedStep
<1>3. Within' /\ Fair' /\ Ahead'
  <2>1. ASSUME NEW p \in Producers, Produce(p) PROVE Within' /\ Fair' /\ Ahead'
    <3>1. ASSUME NEW g \in Guids, Route(p, g) PROVE Within' /\ Fair' /\ Ahead'
      BY <3>1, RouteKeeps
    <3>2. CASE Put(p)
      BY <3>2, PutKeeps
    <3>3. CASE Refuse(p) \/ CountEnqueued(p) \/ CountRejected(p)
      BY <3>3, QuietKeeps DEF Refuse, CountEnqueued, CountRejected, shared, history
    <3> QED  BY <2>1, <3>1, <3>2, <3>3 DEF Produce
  <2>2. ASSUME NEW w \in Workers, Consume(w) PROVE Within' /\ Fair' /\ Ahead'
    <3>1. CASE Apply(w)
      BY <3>1, QuietKeeps DEF Apply, shared
    <3> QED  BY <2>2, <3>1, AcquireKeeps, FoundKeeps, SkipKeeps DEF Consume
  <2>3. ASSUME NEW t \in Takers, TakeOut(t) PROVE Within' /\ Fair' /\ Ahead'
    <3>1. ASSUME NEW g \in Guids, LookUp(t, g) PROVE Within' /\ Fair' /\ Ahead'
      BY <3>1, QuietKeeps DEF LookUp, shared, history
    <3>2. CASE TakeNothing(t) \/ CountTaken(t)
      BY <3>2, QuietKeeps DEF TakeNothing, CountTaken, shared, history
    <3> QED  BY <2>3, <3>1, <3>2, TakeKeeps DEF TakeOut
  <2>4. CASE UNCHANGED vars
    BY <2>4, QuietKeeps DEF vars, shared
  <2> QED  BY <2>1, <2>2, <2>3, <2>4 DEF Next
<1> QED  BY <1>1, <1>2, <1>3 DEF QInv

-----------------------------------------------------------------------------
(* The theorems.                                                           *)

\* QInv holds in every behaviour of the queue manager.
LEMMA Invariance == Spec => []QInv
<1>1. Init => QInv
  BY QInit
<1>2. QInv /\ [Next]_vars => QInv'
  BY QNext
<1> QED  BY <1>1, <1>2, PTL DEF Spec

\* Every variable keeps its type, and the round-robin index points at a queue
\* (manager.go:127), for any number of objects and goroutines.
THEOREM TypeCorrect == Spec => []TypeOK
<1>1. QInv => TypeOK
  BY DEF QInv
<1> QED  BY <1>1, Invariance, PTL

\* DequeueNext serves every other queue at most once before it serves one that waits
\* (manager.go:114-127), whatever queues are created meanwhile.
THEOREM RoundRobin == Spec => []NobodyStarves
<1>1. QInv => NobodyStarves
  <2> SUFFICES ASSUME QInv, NEW g \in Guids, queues[g] # << >>
               PROVE  passed[g] < Len(queueIDs)
    BY DEF NobodyStarves
  <2>1. TypeOK /\ Listed /\ Fair
    BY DEF QInv
  <2>2. g \in Known
    BY <2>1 DEF Listed
  <2>3. PICK i \in 0 .. Len(queueIDs) - 1 : At(i) = g
    BY <2>1, <2>2, HasAPlace
  <2>4. passed[g] + i < Len(queueIDs) /\ passed[g] \in Nat /\ Len(queueIDs) \in Nat
    BY <2>1, <2>3 DEF Fair, TypeOK
  <2> QED  BY <2>4
<1> QED  BY <1>1, Invariance, PTL

\* DequeueNext answers ErrNoEvents (manager.go:132) only if no queue had an event when
\* it began, or somebody else took one meanwhile.
THEOREM ErrNoEventsIsRight == Spec => NoEventsMeansEmpty
<1> DEFINE GivesUp(w) == scan.by = w /\ scan'.by # w /\ hand'[w] = None
<1>1. ASSUME QInv, [Next]_vars, NEW w \in Workers, GivesUp(w) PROVE excused
  <2>1. TypeOK /\ Within /\ Ahead
    BY <1>1 DEF QInv
  <2>2. w # None
    BY NobodyAssumption
  <2>3. scan' # scan
    BY <1>1
  <2>4. CASE Skip(w)
    <3>1. ScanEnds /\ queues[At(scan.offset)] = << >> /\ ~Unlocked
      BY <1>1, <2>2, <2>4 DEF Skip, ScanGuid, Unlocked
    <3>2. scan.offset \in Nat /\ Len(queueIDs) \in Nat
      BY <2>1 DEF TypeOK
    <3>3. scan.offset .. Len(queueIDs) - 1 = {scan.offset}
      BY <3>1, <3>2 DEF ScanEnds
    <3> QED  BY <2>1, <3>1, <3>3 DEF Ahead
  <2>5. CASE Found(w)
    <3>1. hand' = [hand EXCEPT ![w] = [guid |-> ScanGuid, no |-> Head(queues[ScanGuid])]]
      BY <2>5 DEF Found
    <3>2. hand'[w] = [guid |-> ScanGuid, no |-> Head(queues[ScanGuid])]
      BY <2>1, <3>1 DEF TypeOK
    <3>3. scan.offset \in Nat /\ queueIDs # << >>
      <4>1. scan.offset \in Nat /\ scan.offset < Len(queueIDs)
        BY <1>1, <2>1, <2>2 DEF TypeOK, Within, Unlocked
      <4> QED  BY <4>1
    <3>4. ScanGuid \in Guids
      BY <2>1, <3>3, AtIsListed DEF ScanGuid
    <3>5. queues[ScanGuid] \in Seq(Nat) /\ queues[ScanGuid] # << >>
      BY <2>1, <2>5, <3>4 DEF Found, TypeOK
    <3>6. Head(queues[ScanGuid]) \in Nat
      BY <3>5
    <3>7. hand'[w] \in [guid : Guids, no : Nat]
      BY <3>2, <3>4, <3>6
    <3> QED  BY <1>1, <3>7, NobodyAssumption
  <2>6. ASSUME NEW v \in Workers, v # w, Consume(v) PROVE FALSE
    BY <1>1, <2>2, <2>3, <2>6 DEF Consume, Acquire, Found, Skip, Apply, Unlocked
  <2>7. ~Acquire(w) /\ ~Apply(w)
    BY <1>1, <2>2, <2>3 DEF Acquire, Apply, Unlocked
  <2>8. ~(\E p \in Producers : Produce(p))
    BY <2>3 DEF Produce, Route, Put, Refuse, CountEnqueued, CountRejected
  <2>9. ~(\E t \in Takers : TakeOut(t))
    BY <2>3 DEF TakeOut, LookUp, Take, TakeNothing, CountTaken
  <2>10. ~UNCHANGED vars
    BY <2>3 DEF vars
  <2> QED
    BY <1>1, <2>4, <2>5, <2>6, <2>7, <2>8, <2>9, <2>10 DEF Next, Consume
<1>2. QInv /\ [Next]_vars =>
        [\A w \in Workers : scan.by = w /\ scan'.by # w /\ hand'[w] = None => excused]_vars
  BY <1>1
<1> QED  BY <1>2, Invariance, PTL DEF Spec, NoEventsMeansEmpty

-----------------------------------------------------------------------------
(* One consumer: order, and the promise of Delivery.                       *)

\* A queue gives up events only from its front.
LEMMA FrontTaken ==
  ASSUME NEW q \in Seq(Nat), NEW s \in Nat, NEW n \in 0 .. Len(q), LastOf(q, s)
  PROVE  /\ Len(SubSeq(q, n + 1, Len(q))) = Len(q) - n
         /\ LastOf(SubSeq(q, n + 1, Len(q)), s)
<1> DEFINE u == SubSeq(q, n + 1, Len(q))
<1>1. Len(q) \in Nat /\ Len(u) = Len(q) - n
  OBVIOUS
<1>2. \A i \in 1 .. Len(u) : u[i] = q[n + i] /\ n + i \in 1 .. Len(q)
  BY <1>1
<1> HIDE DEF u
<1>3. \A i \in 1 .. Len(u) : u[i] = s - Len(u) + i
  <2>1. \A k \in 1 .. Len(q) : q[k] = s - Len(q) + k
    BY DEF LastOf
  <2> TAKE i \in 1 .. Len(u)
  <2>2. u[i] = s - Len(q) + (n + i)
    BY <1>2, <2>1
  <2> QED  BY <1>1, <2>2
<1>4. Len(u) <= s
  BY <1>1 DEF LastOf
<1>5. LastOf(u, s)
  BY <1>3, <1>4 DEF LastOf
<1> QED  BY <1>1, <1>5 DEF u

\* The newest event goes to the back.
LEMMA BackPut ==
  ASSUME NEW q \in Seq(Nat), NEW s \in Nat, LastOf(q, s)
  PROVE  Len(Append(q, s + 1)) = Len(q) + 1 /\ LastOf(Append(q, s + 1), s + 1)
<1> DEFINE u == Append(q, s + 1)
<1>1. /\ Len(q) \in Nat /\ Len(u) = Len(q) + 1 /\ u[Len(q) + 1] = s + 1
      /\ \A i \in 1 .. Len(q) : u[i] = q[i]
  OBVIOUS
<1> HIDE DEF u
<1>2. Len(q) <= s /\ \A k \in 1 .. Len(q) : q[k] = s - Len(q) + k
  BY DEF LastOf
<1>3. ASSUME NEW i \in 1 .. Len(u) PROVE u[i] = s + 1 - Len(u) + i
  <2>1. CASE i \in 1 .. Len(q)
    BY <1>1, <1>2, <2>1
  <2>2. CASE i = Len(q) + 1
    BY <1>1, <2>2
  <2> QED  BY <1>1, <2>1, <2>2
<1>4. LastOf(u, s + 1)
  BY <1>1, <1>2, <1>3 DEF LastOf
<1> QED  BY <1>1, <1>4 DEF u

\* What the three steps that touch a queue do to it and to what has left it.
LEMMA PutMoves ==
  ASSUME QInv, Newest, NEW p \in Producers, Put(p)
  PROVE  Newest' /\ \A g \in Guids : LeftQueue(g)' = LeftQueue(g)
<1> DEFINE h == producer[p].guid
<1>0. TypeOK /\ Listed
  BY DEF QInv
<1>1. h \in Guids
  BY <1>0 DEF Put, Listed, TypeOK, Known
<1>2. /\ queues[h] \in Seq(Nat) /\ sent[h] \in Nat
      /\ queues'[h] = Append(queues[h], sent[h] + 1) /\ sent'[h] = sent[h] + 1
      /\ \A g \in Guids : g # h => queues'[g] = queues[g] /\ sent'[g] = sent[g]
  BY <1>0, <1>1 DEF Put, Pushed, TypeOK
<1> HIDE DEF h
<1>3. LastOf(queues[h], sent[h])
  BY <1>1 DEF Newest
<1>4. Len(queues'[h]) = Len(queues[h]) + 1 /\ LastOf(queues'[h], sent'[h])
  BY <1>2, <1>3, BackPut
<1>5. \A g \in Guids : LastOf(queues'[g], sent'[g])
  BY <1>2, <1>4 DEF Newest
<1>6. Newest'
  BY <1>5 DEF Newest, LastOf
<1>7. ASSUME NEW g \in Guids PROVE LeftQueue(g)' = LeftQueue(g)
  <2>1. CASE g = h
    <3>1. Len(queues[h]) \in Nat
      BY <1>2
    <3> QED  BY <1>2, <1>4, <2>1, <3>1 DEF LeftQueue
  <2>2. CASE g # h
    BY <1>2, <2>2 DEF LeftQueue
  <2> QED  BY <2>1, <2>2
<1> QED  BY <1>6, <1>7

LEMMA FoundMoves ==
  ASSUME QInv, Newest, NEW w \in Workers, Found(w)
  PROVE  /\ Newest'
         /\ ScanGuid \in Guids /\ LeftQueue(ScanGuid) \in Nat
         /\ Head(queues[ScanGuid]) = LeftQueue(ScanGuid) + 1
         /\ \A g \in Guids : LeftQueue(g)' = IF g = ScanGuid THEN LeftQueue(g) + 1 ELSE LeftQueue(g)
<1> DEFINE h == ScanGuid
<1>0. TypeOK /\ Within
  BY DEF QInv
<1>1. h \in Guids
  <2>1. scan.offset \in Nat /\ scan.offset < Len(queueIDs)
    BY <1>0, NobodyAssumption DEF Found, TypeOK, Within, Unlocked
  <2>2. queueIDs # << >>
    BY <2>1
  <2> QED  BY <1>0, <2>1, <2>2, AtIsListed DEF ScanGuid
<1>2. /\ queues[h] \in Seq(Nat) /\ queues[h] # << >> /\ queues'[h] = Tail(queues[h])
      /\ \A g \in Guids : g # h => queues'[g] = queues[g]
      /\ sent' = sent /\ sent[h] \in Nat
  BY <1>0, <1>1 DEF Found, TypeOK
<1> HIDE DEF h
<1>3. Len(queues[h]) \in Nat \ {0} /\ Tail(queues[h]) = SubSeq(queues[h], 2, Len(queues[h]))
  BY <1>2
<1>4. LastOf(queues[h], sent[h])
  BY <1>1 DEF Newest
<1>5. Len(queues'[h]) = Len(queues[h]) - 1 /\ LastOf(queues'[h], sent[h])
  <2>1. queues'[h] = SubSeq(queues[h], 1 + 1, Len(queues[h])) /\ 1 \in 0 .. Len(queues[h])
    BY <1>2, <1>3
  <2> QED  BY <1>2, <1>4, <2>1, FrontTaken
<1>6. Newest'
  <2>1. \A g \in Guids : LastOf(queues'[g], sent'[g])
    BY <1>2, <1>5 DEF Newest
  <2> QED  BY <2>1 DEF Newest, LastOf
<1>7. Head(queues[h]) = LeftQueue(h) + 1 /\ LeftQueue(h) \in Nat
  <2>1. Head(queues[h]) = queues[h][1] /\ 1 \in 1 .. Len(queues[h])
    BY <1>2, <1>3
  <2> QED  BY <1>2, <1>3, <1>4, <2>1 DEF LastOf, LeftQueue
<1>8. \A g \in Guids : LeftQueue(g)' = IF g = h THEN LeftQueue(g) + 1 ELSE LeftQueue(g)
  <2>1. \A g \in Guids : g = h => LeftQueue(g)' = LeftQueue(g) + 1
    <3>1. sent'[h] - Len(queues'[h]) = (sent[h] - Len(queues[h])) + 1
      BY <1>2, <1>3, <1>5
    <3> QED  BY <3>1 DEF LeftQueue
  <2>2. \A g \in Guids : g # h => LeftQueue(g)' = LeftQueue(g)
    BY <1>2 DEF LeftQueue
  <2> QED  BY <2>1, <2>2
<1> QED  BY <1>1, <1>6, <1>7, <1>8 DEF h

LEMMA TakeMoves ==
  ASSUME QInv, Newest, NEW t \in Takers, NEW n \in 0 .. Capacity, Take(t, n)
  PROVE  LET h == taker[t].guid IN
         /\ Newest'
         /\ h \in Guids /\ LeftQueue(h) \in Nat /\ n \in Nat
         /\ \A i \in 1 .. n : queues[h][i] = LeftQueue(h) + i
         /\ \A g \in Guids : LeftQueue(g)' = IF g = h THEN LeftQueue(g) + n ELSE LeftQueue(g)
<1> DEFINE h == taker[t].guid
<1>0. TypeOK /\ Listed
  BY DEF QInv
<1>1. h \in Guids
  BY <1>0 DEF Take, Listed
<1>2. /\ queues[h] \in Seq(Nat) /\ sent[h] \in Nat
      /\ queues'[h] = SubSeq(queues[h], n + 1, Len(queues[h]))
      /\ \A g \in Guids : g # h => queues'[g] = queues[g]
      /\ sent' = sent
  BY <1>0, <1>1 DEF Take, TypeOK
<1>3. n \in 0 .. Len(queues[h]) /\ Len(queues[h]) \in Nat
  <2>1. (n = 1 /\ queues[h] # << >>) \/ n = Len(queues[h])
    BY DEF Take
  <2>2. queues[h] # << >> => Len(queues[h]) # 0
    BY <1>2
  <2> QED  BY <1>2, <2>1, <2>2
<1> HIDE DEF h
<1>4. LastOf(queues[h], sent[h])
  BY <1>1 DEF Newest
<1>5. Len(queues'[h]) = Len(queues[h]) - n /\ LastOf(queues'[h], sent[h])
  BY <1>2, <1>3, <1>4, FrontTaken
<1>6. Newest'
  <2>1. \A g \in Guids : LastOf(queues'[g], sent'[g])
    BY <1>2, <1>5 DEF Newest
  <2> QED  BY <2>1 DEF Newest, LastOf
<1>7. LeftQueue(h) \in Nat /\ \A i \in 1 .. n : queues[h][i] = LeftQueue(h) + i
  BY <1>2, <1>3, <1>4 DEF LastOf, LeftQueue
<1>8. \A g \in Guids : LeftQueue(g)' = IF g = h THEN LeftQueue(g) + n ELSE LeftQueue(g)
  <2>1. \A g \in Guids : g = h => LeftQueue(g)' = LeftQueue(g) + n
    <3>0. sent'[h] = sent[h] /\ sent[h] \in Int /\ Len(queues[h]) \in Int /\ n \in Int
      BY <1>2, <1>3
    <3>1. sent'[h] - Len(queues'[h]) = (sent[h] - Len(queues[h])) + n
      BY <1>5, <3>0
    <3> QED  BY <3>1 DEF LeftQueue
  <2>2. \A g \in Guids : g # h => LeftQueue(g)' = LeftQueue(g)
    BY <1>2 DEF LeftQueue
  <2> QED  BY <2>1, <2>2
<1> QED  BY <1>1, <1>3, <1>6, <1>7, <1>8 DEF h

\* What an object has lost from its queue is a number of events.
LEMMA OutTyped ==
  ASSUME TypeOK, Newest, NEW g \in Guids
  PROVE  LeftQueue(g) \in Nat
<1>1. queues[g] \in Seq(Nat) /\ sent[g] \in Nat /\ Len(queues[g]) <= sent[g]
  BY DEF TypeOK, Newest, LastOf
<1> QED  BY <1>1 DEF LeftQueue

LEMMA OrderInit == Init => OrderInv
<1> SUFFICES ASSUME Init PROVE OrderInv
  OBVIOUS
<1>1. Newest /\ HandBetween
  BY NobodyAssumption DEF Init, Newest, LastOf, HandBetween
<1> QED  BY <1>1, QInit DEF OrderInv

\* A step that leaves the queues and what is at hand alone.
LEMMA OrderQuiet ==
  ASSUME Newest, HandBetween, UNCHANGED <<queues, sent, applied, hand>>,
         \A w \in Workers : scan'.by = w => hand[w] = None
  PROVE  Newest' /\ HandBetween'
BY DEF Newest, HandBetween

LEMMA OrderPut ==
  ASSUME OrderInv, NEW p \in Producers, Put(p)
  PROVE  Newest' /\ HandBetween'
<1>1. Newest' /\ \A g \in Guids : LeftQueue(g)' = LeftQueue(g)
  BY PutMoves DEF OrderInv
<1>2. applied' = applied /\ hand' = hand /\ scan' = scan
  BY DEF Put
<1>3. \A w \in Workers : hand[w] # None => hand[w].guid \in Guids
  BY DEF OrderInv, QInv, TypeOK
<1> QED  BY <1>1, <1>2, <1>3 DEF OrderInv, HandBetween, LeftQueue

LEMMA OrderFound ==
  ASSUME OneWorker, OrderInv, NEW w \in Workers, Found(w)
  PROVE  Newest' /\ HandBetween'
<1> DEFINE h == ScanGuid
<1>0. TypeOK /\ Newest /\ HandBetween
  BY DEF OrderInv, QInv
<1>1. /\ Newest' /\ h \in Guids /\ LeftQueue(h) \in Nat /\ Head(queues[h]) = LeftQueue(h) + 1
      /\ \A g \in Guids : LeftQueue(g)' = IF g = h THEN LeftQueue(g) + 1 ELSE LeftQueue(g)
  BY FoundMoves DEF OrderInv
<1>2. /\ hand'[w] = [guid |-> h, no |-> Head(queues[h])] /\ scan'.by = None
      /\ applied' = applied
  BY <1>0 DEF Found, TypeOK
<1> HIDE DEF h
<1>3. \A g \in Guids : applied[g] \in Nat /\ applied[g] <= LeftQueue(g) /\ LeftQueue(g) \in Nat
  BY <1>0, OutTyped DEF HandBetween, TypeOK, LeftQueue
<1>4. \A g \in Guids : applied'[g] <= LeftQueue(g)'
  BY <1>1, <1>2, <1>3
<1>5. /\ applied'[hand'[w].guid] < hand'[w].no
      /\ hand'[w].no <= sent'[hand'[w].guid] - Len(queues'[hand'[w].guid])
  <2>1. hand'[w].guid = h /\ hand'[w].no = LeftQueue(h) + 1
    BY <1>1, <1>2
  <2>2. applied'[h] < LeftQueue(h) + 1
    BY <1>1, <1>2, <1>3
  <2>3. sent'[h] - Len(queues'[h]) = LeftQueue(h) + 1
    BY <1>1 DEF LeftQueue
  <2> QED  BY <1>1, <2>1, <2>2, <2>3
<1>6. \A v \in Workers : v = w /\ scan'.by # v
  BY <1>2, NobodyAssumption DEF OneWorker
<1> QED  BY <1>1, <1>4, <1>5, <1>6 DEF HandBetween, LeftQueue

LEMMA OrderTake ==
  ASSUME OrderInv, NEW t \in Takers, NEW n \in 0 .. Capacity, Take(t, n)
  PROVE  Newest' /\ HandBetween'
<1>0. TypeOK /\ Newest /\ HandBetween
  BY DEF OrderInv, QInv
<1>1. Newest' /\ \A g \in Guids : LeftQueue(g)' = LeftQueue(g) \/ LeftQueue(g)' = LeftQueue(g) + n
  BY TakeMoves DEF OrderInv
<1>2. applied' = applied /\ hand' = hand /\ scan' = scan
  BY DEF Take
<1>3. \A g \in Guids : LeftQueue(g) \in Nat /\ LeftQueue(g) <= LeftQueue(g)' /\ LeftQueue(g)' \in Nat
  BY <1>0, <1>1, OutTyped, CapacityAssumption
<1>4. \A w \in Workers : hand[w] # None => hand[w].guid \in Guids /\ hand[w].no \in Nat
  BY <1>0 DEF TypeOK
<1>5. \A g \in Guids : applied[g] \in Nat /\ applied[g] <= LeftQueue(g)
  BY <1>0 DEF HandBetween, TypeOK, LeftQueue
<1>6. \A w \in Workers : hand[w] # None =>
        applied[hand[w].guid] < hand[w].no /\ hand[w].no <= LeftQueue(hand[w].guid)
  BY <1>0 DEF HandBetween, LeftQueue
<1>7. \A g \in Guids : applied'[g] <= LeftQueue(g)'
  BY <1>2, <1>3, <1>5
<1>8. ASSUME NEW w \in Workers, hand[w] # None
      PROVE  hand[w].no <= sent'[hand[w].guid] - Len(queues'[hand[w].guid])
  <2>1. PICK g \in Guids : g = hand[w].guid
    BY <1>4, <1>8
  <2>2. hand[w].no \in Nat /\ hand[w].no <= LeftQueue(g)
    BY <1>4, <1>6, <1>8, <2>1
  <2>3. hand[w].no <= LeftQueue(g)'
    BY <1>3, <2>2
  <2> QED  BY <2>1, <2>3 DEF LeftQueue
<1>9. \A w \in Workers : scan.by = w => hand[w] = None
  BY <1>0 DEF HandBetween
<1> QED  BY <1>1, <1>2, <1>6, <1>7, <1>8, <1>9 DEF HandBetween, LeftQueue

\* With one consumer every action keeps the order.
LEMMA OrderNext ==
  ASSUME OneWorker, OrderInv, [Next]_vars
  PROVE  OrderInv'
<1>0. QInv /\ TypeOK /\ Newest /\ HandBetween
  BY DEF OrderInv, QInv
<1>1. ASSUME UNCHANGED <<queues, sent, applied, hand, scan>> PROVE Newest' /\ HandBetween'
  <2>1. \A w \in Workers : scan'.by = w => hand[w] = None
    BY <1>0, <1>1 DEF HandBetween
  <2> QED  BY <1>0, <1>1, <2>1, OrderQuiet
<1>2. ASSUME NEW p \in Producers, Produce(p) PROVE Newest' /\ HandBetween'
  <2>1. ASSUME NEW g \in Guids, Route(p, g) PROVE Newest' /\ HandBetween'
    BY <1>1, <2>1 DEF Route, history
  <2>2. CASE Put(p)
    BY <2>2, OrderPut
  <2>3. CASE Refuse(p) \/ CountEnqueued(p) \/ CountRejected(p)
    BY <1>1, <2>3 DEF Refuse, CountEnqueued, CountRejected, history
  <2> QED  BY <1>2, <2>1, <2>2, <2>3 DEF Produce
<1>3. ASSUME NEW w \in Workers, Consume(w) PROVE Newest' /\ HandBetween'
  <2>1. CASE Acquire(w)
    <3>1. \A v \in Workers : scan'.by = v => hand[v] = None
      BY <2>1 DEF Acquire
    <3> QED  BY <1>0, <2>1, <3>1, OrderQuiet DEF Acquire
  <2>2. CASE Found(w)
    BY <2>2, OrderFound
  <2>3. CASE Skip(w)
    <3>1. \A v \in Workers : scan'.by = v => hand[v] = None
      BY <1>0, <2>3, NobodyAssumption DEF Skip, HandBetween
    <3> QED  BY <1>0, <2>3, <3>1, OrderQuiet DEF Skip, history
  <2>4. CASE Apply(w)
    <3>1. /\ hand[w] # None /\ hand[w].guid \in Guids /\ hand[w].no \in Nat
          /\ hand'[w] = None /\ applied'[hand[w].guid] = hand[w].no
          /\ \A g \in Guids : g # hand[w].guid => applied'[g] = applied[g]
          /\ queues' = queues /\ sent' = sent
      BY <1>0, <2>4 DEF Apply, TypeOK
    <3>2. \A v \in Workers : v = w
      BY DEF OneWorker
    <3>3. Newest'
      BY <1>0, <3>1 DEF Newest
    <3>4. HandBetween'
      BY <1>0, <3>1, <3>2 DEF HandBetween
    <3> QED  BY <3>3, <3>4
  <2> QED  BY <1>3, <2>1, <2>2, <2>3, <2>4 DEF Consume
<1>4. ASSUME NEW t \in Takers, TakeOut(t) PROVE Newest' /\ HandBetween'
  <2>1. ASSUME NEW g \in Guids, LookUp(t, g) PROVE Newest' /\ HandBetween'
    BY <1>1, <2>1 DEF LookUp, history
  <2>2. CASE TakeNothing(t) \/ CountTaken(t)
    BY <1>1, <2>2 DEF TakeNothing, CountTaken, history
  <2> QED  BY <1>4, <2>1, <2>2, OrderTake DEF TakeOut
<1>5. ASSUME UNCHANGED vars PROVE Newest' /\ HandBetween'
  BY <1>1, <1>5 DEF vars
<1>6. Newest' /\ HandBetween'
  BY <1>2, <1>3, <1>4, <1>5 DEF Next
<1> QED  BY <1>0, <1>6, QNext DEF OrderInv

\* With one consumer, the events of an object are applied in the order in which they
\* were accepted (frame.go:76), for any number of producers and of other callers.
THEOREM OneConsumerKeepsOrder ==
  ASSUME OneWorker PROVE Spec => AppliedInOrder
<1>1. Init => OrderInv
  BY OrderInit
<1>2. OrderInv /\ [Next]_vars => OrderInv'
  BY OrderNext
<1>3. ASSUME OrderInv, [Next]_vars, NEW g \in Guids PROVE applied'[g] >= applied[g]
  <2>1. TypeOK /\ HandBetween
    BY <1>3 DEF OrderInv, QInv
  <2>2. applied[g] \in Nat
    BY <2>1 DEF TypeOK
  <2>3. CASE applied' = applied
    BY <2>2, <2>3
  <2>4. ASSUME NEW w \in Workers, Apply(w) PROVE applied'[g] >= applied[g]
    <3>1. hand[w] # None /\ hand[w].guid \in Guids /\ hand[w].no \in Nat
      BY <2>1, <2>4 DEF Apply, TypeOK
    <3>2. applied[hand[w].guid] < hand[w].no /\ applied \in [Guids -> Nat]
      BY <2>1, <3>1 DEF HandBetween, TypeOK
    <3>3. applied' = [applied EXCEPT ![hand[w].guid] = hand[w].no]
      BY <2>4 DEF Apply
    <3>4. applied'[g] = applied[g] \/ (g = hand[w].guid /\ applied'[g] = hand[w].no)
      BY <3>1, <3>2, <3>3
    <3> QED  BY <2>2, <3>1, <3>2, <3>4
  <2>5. applied' = applied \/ \E w \in Workers : Apply(w)
    BY <1>3 DEF Next, Produce, Consume, TakeOut, Route, Put, Refuse, CountEnqueued,
       CountRejected, Acquire, Found, Skip, LookUp, Take, TakeNothing, CountTaken, history, vars
  <2> QED  BY <2>3, <2>4, <2>5
<1>4. OrderInv /\ [Next]_vars => [\A g \in Guids : applied'[g] >= applied[g]]_vars
  BY <1>3
<1> QED  BY <1>1, <1>2, <1>4, PTL DEF Spec, AppliedInOrder

-----------------------------------------------------------------------------
(* Any number of workers: only what is at hand can be overtaken.           *)

LEMMA AccountedInit == Init => Accounted
<1> SUFFICES ASSUME Init PROVE Accounted
  OBVIOUS
<1>1. \A g \in Guids : LeftQueue(g) = 0 /\ gone[g] = {}
  BY DEF Init, LeftQueue
<1>2. \A w \in Workers : hand[w] = None /\ scan.by # w
  BY NobodyAssumption DEF Init
<1> QED  BY <1>1, <1>2 DEF Accounted

\* A step that moves no event.
LEMMA AccountedQuiet ==
  ASSUME Accounted, TypeOK, UNCHANGED <<gone, hand>>, \A g \in Guids : LeftQueue(g)' = LeftQueue(g),
         \A w \in Workers : scan'.by = w => hand[w] = None
  PROVE  Accounted'
<1>1. \A g \in Guids, i \in Nat : AtHand(g, i)' <=> AtHand(g, i)
  BY DEF AtHand
<1>2. \A w \in Workers : hand[w] # None => hand[w].guid \in Guids
  BY DEF TypeOK
<1>3. \A g \in Guids : \A i \in 1 .. LeftQueue(g)' : i \in gone'[g] \/ AtHand(g, i)'
  BY DEF Accounted, AtHand
<1>4. ASSUME NEW w \in Workers, hand[w] # None
      PROVE  hand[w].no <= sent'[hand[w].guid] - Len(queues'[hand[w].guid])
  BY <1>2, <1>4 DEF Accounted, LeftQueue
<1>5. \A g \in Guids : \A i \in gone'[g] : i <= LeftQueue(g)'
  BY DEF Accounted
<1> QED  BY <1>3, <1>4, <1>5 DEF Accounted, LeftQueue

\* The event found has just left its queue, and nobody else has it.
LEMMA AccountedFound ==
  ASSUME WorkersInv, NEW w \in Workers, Found(w)
  PROVE  Accounted'
<1> DEFINE h == ScanGuid
           n == Head(queues[ScanGuid])
<1>0. TypeOK /\ Newest /\ Accounted
  BY DEF WorkersInv, QInv
<1>1. /\ h \in Guids /\ LeftQueue(h) \in Nat /\ n = LeftQueue(h) + 1
      /\ \A g \in Guids : LeftQueue(g)' = IF g = h THEN LeftQueue(g) + 1 ELSE LeftQueue(g)
  BY FoundMoves DEF WorkersInv
<1>2. /\ hand'[w] = [guid |-> h, no |-> n] /\ scan'.by = None
      /\ \A v \in Workers \ {w} : hand'[v] = hand[v]
      /\ gone' = gone
  BY <1>0 DEF Found, TypeOK
<1>3. hand[w] = None
  BY <1>0 DEF Found, Accounted
<1> HIDE DEF h, n
<1>4. \A g \in Guids : LeftQueue(g) \in Nat
  BY <1>0, OutTyped
<1>5. /\ [guid |-> h, no |-> n] # None
      /\ \A v \in Workers : hand[v] # None => hand[v].guid \in Guids /\ hand[v].no \in Nat
      /\ \A g \in Guids : gone[g] \subseteq Nat
  BY <1>0, <1>1, NobodyAssumption DEF TypeOK
<1>6. /\ \A g \in Guids : \A i \in gone[g] : i <= LeftQueue(g)
      /\ \A v \in Workers : hand[v] # None =>
           hand[v].no \notin gone[hand[v].guid] /\ hand[v].no <= LeftQueue(hand[v].guid)
  BY <1>0 DEF Accounted
<1>7. \A g \in Guids : \A i \in gone'[g] : i <= LeftQueue(g)'
  BY <1>1, <1>2, <1>4, <1>5, <1>6
<1>8. ASSUME NEW g \in Guids, NEW i \in 1 .. LeftQueue(g)'
      PROVE  i \in gone'[g] \/ AtHand(g, i)'
  <2>1. CASE g = h /\ i = n
    BY <1>2, <2>1 DEF AtHand
  <2>2. CASE ~(g = h /\ i = n)
    <3>1. i \in 1 .. LeftQueue(g)
      BY <1>1, <1>4, <2>2
    <3>2. i \in gone[g] \/ AtHand(g, i)
      BY <1>0, <3>1 DEF Accounted
    <3>3. AtHand(g, i) => \E v \in Workers \ {w} : hand[v] = [guid |-> g, no |-> i]
      BY <1>0, <1>3, NobodyAssumption, <3>1 DEF AtHand
    <3> QED  BY <1>2, <3>2, <3>3 DEF AtHand
  <2> QED  BY <2>1, <2>2
<1>9. ASSUME NEW v \in Workers, hand'[v] # None
      PROVE  /\ hand'[v].no \notin gone'[hand'[v].guid]
             /\ hand'[v].no <= sent'[hand'[v].guid] - Len(queues'[hand'[v].guid])
  <2>1. CASE v = w
    <3>1. n \notin gone[h]
      BY <1>1, <1>5, <1>6
    <3>2. n <= LeftQueue(h) + 1 /\ sent'[h] - Len(queues'[h]) = LeftQueue(h) + 1
      BY <1>1 DEF LeftQueue
    <3> QED  BY <1>2, <2>1, <3>1, <3>2
  <2>2. CASE v # w
    <3>1. hand'[v] = hand[v] /\ hand[v].guid \in Guids
      BY <1>2, <1>5, <1>9, <2>2
    <3>2. PICK g \in Guids : g = hand[v].guid
      BY <3>1
    <3>3. hand[v].no \notin gone[g] /\ hand[v].no <= LeftQueue(g) /\ hand[v].no \in Nat
      BY <1>5, <1>6, <1>9, <3>1, <3>2
    <3>4. hand[v].no <= LeftQueue(g)'
      BY <1>1, <1>4, <3>3
    <3> QED  BY <1>2, <3>1, <3>2, <3>3, <3>4 DEF LeftQueue
  <2> QED  BY <2>1, <2>2
<1>10. ASSUME NEW u \in Workers, NEW v \in Workers, hand'[v] # None, hand'[v] = hand'[u]
       PROVE  u = v
  <2>1. \A x \in Workers \ {w} : hand'[x] # hand'[w]
    <3> TAKE x \in Workers \ {w}
    <3> SUFFICES ASSUME hand[x] = [guid |-> h, no |-> n] PROVE FALSE
      BY <1>2
    <3>1. hand[x].guid = h /\ hand[x].no = n /\ hand[x] # None
      BY <1>5
    <3> QED  BY <1>1, <1>6, <3>1
  <2>2. CASE u = w \/ v = w
    BY <1>10, <2>1, <2>2
  <2>3. CASE u # w /\ v # w
    BY <1>0, <1>2, <1>10, <2>3 DEF Accounted
  <2> QED  BY <2>2, <2>3
<1>11. \A v \in Workers : scan'.by # v
  BY <1>2, NobodyAssumption
<1> QED  BY <1>7, <1>8, <1>9, <1>10, <1>11 DEF Accounted, LeftQueue

\* The event executed goes from a hand to those gone.
LEMMA AccountedApply ==
  ASSUME WorkersInv, NEW w \in Workers, Apply(w)
  PROVE  Accounted'
<1>0. TypeOK /\ Newest /\ Accounted
  BY DEF WorkersInv, QInv
<1>1. PICK h \in Guids, n \in Nat : hand[w] = [guid |-> h, no |-> n]
  BY <1>0 DEF Apply, TypeOK
<1>2. /\ hand'[w] = None /\ scan' = scan /\ hand[w] # None
      /\ \A v \in Workers \ {w} : hand'[v] = hand[v]
      /\ gone'[h] = gone[h] \union {n} /\ \A g \in Guids \ {h} : gone'[g] = gone[g]
  BY <1>0, <1>1 DEF Apply, TypeOK
<1>3. \A g \in Guids : LeftQueue(g)' = LeftQueue(g)
  BY DEF Apply, LeftQueue
<1>4. /\ \A g \in Guids : \A i \in gone[g] : i <= LeftQueue(g)
      /\ \A g \in Guids : \A i \in 1 .. LeftQueue(g) : i \in gone[g] \/ AtHand(g, i)
      /\ \A v \in Workers : hand[v] # None =>
           hand[v].no \notin gone[hand[v].guid] /\ hand[v].no <= LeftQueue(hand[v].guid)
      /\ \A u, v \in Workers : hand[v] # None /\ hand[v] = hand[u] => u = v
      /\ \A v \in Workers : scan.by = v => hand[v] = None
  BY <1>0 DEF Accounted
<1>5. hand[w].guid = h /\ hand[w].no = n
  BY <1>1
<1>6. \A g \in Guids : \A i \in gone'[g] : i <= LeftQueue(g)'
  BY <1>2, <1>3, <1>4, <1>5
<1>7. ASSUME NEW g \in Guids, NEW i \in 1 .. LeftQueue(g)'
      PROVE  i \in gone'[g] \/ AtHand(g, i)'
  <2>1. i \in gone[g] \/ AtHand(g, i)
    BY <1>3, <1>4
  <2>2. CASE i \in gone[g]
    BY <1>2, <2>2
  <2>3. ASSUME NEW v \in Workers, hand[v] = [guid |-> g, no |-> i]
        PROVE  i \in gone'[g] \/ AtHand(g, i)'
    <3>1. CASE v = w
      <4>1. g = h /\ i = n
        BY <1>1, <2>3, <3>1
      <4> QED  BY <1>2, <4>1
    <3>2. CASE v # w
      BY <1>2, <2>3, <3>2 DEF AtHand
    <3> QED  BY <3>1, <3>2
  <2> QED  BY <2>1, <2>2, <2>3 DEF AtHand
<1>8. ASSUME NEW v \in Workers, hand'[v] # None
      PROVE  /\ hand'[v].no \notin gone'[hand'[v].guid]
             /\ hand'[v].no <= sent'[hand'[v].guid] - Len(queues'[hand'[v].guid])
  <2>1. v # w /\ hand'[v] = hand[v]
    BY <1>2, <1>8
  <2>2. PICK g \in Guids, i \in Nat : hand[v] = [guid |-> g, no |-> i]
    BY <1>0, <1>8, <2>1 DEF TypeOK
  <2>3. hand[v].guid = g /\ hand[v].no = i
    BY <2>2
  <2>4. i \notin gone[g] /\ i <= LeftQueue(g) /\ ~(g = h /\ i = n)
    BY <1>1, <1>4, <1>8, <2>1, <2>2, <2>3
  <2>5. i <= LeftQueue(g)'
    BY <1>3, <2>4
  <2>6. i \notin gone'[g]
    BY <1>2, <2>4
  <2> QED  BY <2>1, <2>3, <2>5, <2>6 DEF LeftQueue
<1>9. \A u, v \in Workers : hand'[v] # None /\ hand'[v] = hand'[u] => u = v
  BY <1>2, <1>4
<1>10. \A v \in Workers : scan'.by = v => hand'[v] = None
  BY <1>2, <1>4
<1> QED  BY <1>6, <1>7, <1>8, <1>9, <1>10 DEF Accounted, LeftQueue

\* What a taker takes goes from the front of the queue to those gone.
LEMMA AccountedTake ==
  ASSUME WorkersInv, NEW t \in Takers, NEW n \in 0 .. Capacity, Take(t, n)
  PROVE  Accounted'
<1> DEFINE h == taker[t].guid
<1>0. TypeOK /\ Newest /\ Accounted
  BY DEF WorkersInv, QInv
<1>1. /\ h \in Guids /\ LeftQueue(h) \in Nat /\ n \in Nat
      /\ \A i \in 1 .. n : queues[h][i] = LeftQueue(h) + i
      /\ \A g \in Guids : LeftQueue(g)' = IF g = h THEN LeftQueue(g) + n ELSE LeftQueue(g)
  BY TakeMoves DEF WorkersInv
<1>2. /\ gone'[h] = gone[h] \union {queues[h][i] : i \in 1 .. n}
      /\ \A g \in Guids \ {h} : gone'[g] = gone[g]
      /\ hand' = hand /\ scan' = scan
  BY <1>0, <1>1 DEF Take, TypeOK
<1> HIDE DEF h
<1>3. \A g \in Guids : LeftQueue(g) \in Nat
  BY <1>0, OutTyped
<1>4. gone'[h] = gone[h] \union (LeftQueue(h) + 1) .. (LeftQueue(h) + n)
  <2>1. \A i \in 1 .. n : queues[h][i] \in (LeftQueue(h) + 1) .. (LeftQueue(h) + n)
    BY <1>1
  <2>2. \A k \in (LeftQueue(h) + 1) .. (LeftQueue(h) + n) :
          k - LeftQueue(h) \in 1 .. n /\ queues[h][k - LeftQueue(h)] = k
    <3> TAKE k \in (LeftQueue(h) + 1) .. (LeftQueue(h) + n)
    <3>1. k - LeftQueue(h) \in 1 .. n /\ LeftQueue(h) + (k - LeftQueue(h)) = k
      BY <1>1
    <3> QED  BY <1>1, <3>1
  <2> QED  BY <1>2, <2>1, <2>2
<1>5. \A v \in Workers : hand[v] # None => hand[v].guid \in Guids /\ hand[v].no \in Nat
  BY <1>0 DEF TypeOK
<1>6. \A g \in Guids : gone[g] \subseteq Nat
  BY <1>0 DEF TypeOK
<1>7. \A g \in Guids : \A i \in gone'[g] : i <= LeftQueue(g)'
  <2> TAKE g \in Guids
  <2>1. \A i \in gone[g] : i <= LeftQueue(g) /\ i \in Nat
    BY <1>0, <1>6 DEF Accounted
  <2>2. CASE g = h
    BY <1>1, <1>4, <2>1, <2>2
  <2>3. CASE g # h
    BY <1>1, <1>2, <2>1, <2>3
  <2> QED  BY <2>2, <2>3
<1>8. ASSUME NEW g \in Guids, NEW i \in 1 .. LeftQueue(g)'
      PROVE  i \in gone'[g] \/ AtHand(g, i)'
  <2>1. i \in gone[g] \/ AtHand(g, i) \/ (g = h /\ i \in (LeftQueue(h) + 1) .. (LeftQueue(h) + n))
    <3>1. CASE i \in 1 .. LeftQueue(g)
      BY <1>0, <3>1 DEF Accounted
    <3>2. CASE i \notin 1 .. LeftQueue(g)
      BY <1>1, <1>3, <3>2
    <3> QED  BY <3>1, <3>2
  <2>2. AtHand(g, i) => AtHand(g, i)'
    BY <1>2 DEF AtHand
  <2> QED  BY <1>2, <1>4, <2>1, <2>2
<1>9. ASSUME NEW v \in Workers, hand'[v] # None
      PROVE  /\ hand'[v].no \notin gone'[hand'[v].guid]
             /\ hand'[v].no <= sent'[hand'[v].guid] - Len(queues'[hand'[v].guid])
  <2>1. PICK g \in Guids, i \in Nat : hand[v] = [guid |-> g, no |-> i]
    BY <1>0, <1>2, <1>9 DEF TypeOK
  <2>2. hand[v].guid = g /\ hand[v].no = i /\ hand'[v] = hand[v]
    BY <1>2, <2>1
  <2>3. i \notin gone[g] /\ i <= LeftQueue(g)
    BY <1>0, <1>9, <2>2 DEF Accounted
  <2>4. i \notin gone'[g]
    <3>1. CASE g = h
      BY <1>1, <1>4, <2>3, <3>1
    <3>2. CASE g # h
      BY <1>2, <2>3, <3>2
    <3> QED  BY <3>1, <3>2
  <2>5. i <= LeftQueue(g)'
    BY <1>1, <1>3, <2>3
  <2> QED  BY <2>2, <2>4, <2>5 DEF LeftQueue
<1>10. /\ \A u, v \in Workers : hand'[v] # None /\ hand'[v] = hand'[u] => u = v
       /\ \A v \in Workers : scan'.by = v => hand'[v] = None
  BY <1>0, <1>2 DEF Accounted
<1> QED  BY <1>7, <1>8, <1>9, <1>10 DEF Accounted, LeftQueue

\* Every action keeps account, with any number of workers.
LEMMA WorkersNext ==
  ASSUME WorkersInv, [Next]_vars
  PROVE  WorkersInv'
<1>0. QInv /\ TypeOK /\ Newest /\ Accounted
  BY DEF WorkersInv, QInv
<1>1. ASSUME UNCHANGED <<queues, sent, gone, hand>>,
             \A w \in Workers : scan'.by = w => hand[w] = None
      PROVE  Newest' /\ Accounted'
  <2>1. \A g \in Guids : LeftQueue(g)' = LeftQueue(g)
    BY <1>1 DEF LeftQueue
  <2> QED  BY <1>0, <1>1, <2>1, AccountedQuiet DEF Newest
<1>2. \A w \in Workers : scan.by = w => hand[w] = None
  BY <1>0 DEF Accounted
<1>3. ASSUME NEW p \in Producers, Produce(p) PROVE Newest' /\ Accounted'
  <2>1. CASE Put(p)
    <3>1. Newest' /\ \A g \in Guids : LeftQueue(g)' = LeftQueue(g)
      BY <1>0, <2>1, PutMoves
    <3>2. gone' = gone /\ hand' = hand /\ scan' = scan
      BY <2>1 DEF Put
    <3> QED  BY <1>0, <1>2, <3>1, <3>2, AccountedQuiet
  <2>2. ASSUME NEW g \in Guids, Route(p, g) PROVE Newest' /\ Accounted'
    BY <1>1, <1>2, <2>2 DEF Route, history
  <2>3. CASE Refuse(p) \/ CountEnqueued(p) \/ CountRejected(p)
    BY <1>1, <1>2, <2>3 DEF Refuse, CountEnqueued, CountRejected, history
  <2> QED  BY <1>3, <2>1, <2>2, <2>3 DEF Produce
<1>4. ASSUME NEW w \in Workers, Consume(w) PROVE Newest' /\ Accounted'
  <2>1. CASE Acquire(w)
    <3>1. \A v \in Workers : scan'.by = v => hand[v] = None
      BY <2>1 DEF Acquire
    <3> QED  BY <1>1, <2>1, <3>1 DEF Acquire
  <2>2. CASE Found(w)
    BY <1>0, <2>2, FoundMoves, AccountedFound DEF WorkersInv
  <2>3. CASE Skip(w)
    <3>1. \A v \in Workers : scan'.by = v => hand[v] = None
      BY <1>2, <2>3, NobodyAssumption DEF Skip
    <3> QED  BY <1>1, <2>3, <3>1 DEF Skip, history
  <2>4. CASE Apply(w)
    BY <1>0, <2>4, AccountedApply DEF Apply, Newest
  <2> QED  BY <1>4, <2>1, <2>2, <2>3, <2>4 DEF Consume
<1>5. ASSUME NEW t \in Takers, TakeOut(t) PROVE Newest' /\ Accounted'
  <2>1. ASSUME NEW g \in Guids, LookUp(t, g) PROVE Newest' /\ Accounted'
    BY <1>1, <1>2, <2>1 DEF LookUp, history
  <2>2. CASE TakeNothing(t) \/ CountTaken(t)
    BY <1>1, <1>2, <2>2 DEF TakeNothing, CountTaken, history
  <2>3. ASSUME NEW n \in 0 .. Capacity, Take(t, n) PROVE Newest' /\ Accounted'
    BY <1>0, <2>3, TakeMoves, AccountedTake DEF WorkersInv
  <2> QED  BY <1>5, <2>1, <2>2, <2>3 DEF TakeOut
<1>6. ASSUME UNCHANGED vars PROVE Newest' /\ Accounted'
  BY <1>1, <1>2, <1>6 DEF vars
<1>7. Newest' /\ Accounted'
  BY <1>3, <1>4, <1>5, <1>6 DEF Next
<1> QED  BY <1>0, <1>7, QNext DEF WorkersInv

\* With any number of workers: an event is executed once, and after all earlier events of
\* its object but those that other workers have dequeued and not finished (worker.go:60).
THEOREM WorkersOvertakeOnlyAtHand == Spec => OvertakenOnlyAtHand
<1>1. Init => WorkersInv
  <2>1. Init => Newest
    BY OrderInit DEF OrderInv
  <2> QED  BY <2>1, QInit, AccountedInit DEF WorkersInv
<1>2. WorkersInv /\ [Next]_vars => WorkersInv'
  BY WorkersNext
<1>3. WorkersInv /\ [Next]_vars =>
        [\A w \in Workers : hand[w] # None /\ hand'[w] = None =>
           LET g == hand[w].guid  n == hand[w].no IN
           /\ n \notin gone[g]
           /\ \A i \in 1 .. n - 1 :
                i \in gone[g] \/ \E v \in Workers \ {w} : hand[v] = [guid |-> g, no |-> i]]_vars
  <2> SUFFICES ASSUME WorkersInv, NEW w \in Workers, hand[w] # None
               PROVE  /\ hand[w].no \notin gone[hand[w].guid]
                      /\ \A i \in 1 .. hand[w].no - 1 :
                           \/ i \in gone[hand[w].guid]
                           \/ \E v \in Workers \ {w} :
                                hand[v] = [guid |-> hand[w].guid, no |-> i]
    OBVIOUS
  <2>0. TypeOK /\ Newest /\ Accounted
    BY DEF WorkersInv, QInv
  <2>1. PICK g \in Guids, n \in Nat : hand[w] = [guid |-> g, no |-> n]
    BY <2>0 DEF TypeOK
  <2>2. hand[w].guid = g /\ hand[w].no = n
    BY <2>1
  <2>3. n \notin gone[g] /\ n <= LeftQueue(g) /\ LeftQueue(g) \in Nat
    BY <2>0, <2>2, OutTyped DEF Accounted
  <2>4. ASSUME NEW i \in 1 .. n - 1
        PROVE  i \in gone[g] \/ \E v \in Workers \ {w} : hand[v] = [guid |-> g, no |-> i]
    <3>1. i \in 1 .. LeftQueue(g) /\ i # n
      BY <2>3
    <3>2. i \in gone[g] \/ AtHand(g, i)
      BY <2>0, <3>1 DEF Accounted
    <3>3. hand[w] # [guid |-> g, no |-> i]
      BY <2>1, <3>1
    <3> QED  BY <3>2, <3>3 DEF AtHand
  <2> QED  BY <2>2, <2>3, <2>4
<1> QED  BY <1>1, <1>2, <1>3, PTL DEF Spec, OvertakenOnlyAtHand

-----------------------------------------------------------------------------
(* The consumer alone: nothing is lost.                                    *)

PromiseInv == OrderInv /\ NothingLost

\* While a scan is under way nothing is at hand.
LEMMA ScanMeansNothingAtHand ==
  ASSUME OneWorker, HandBetween, NEW w \in Workers, scan.by = w \/ hand[w] = None,
         NEW g \in Guids
  PROVE  ~InHand(g)
BY DEF OneWorker, HandBetween, InHand

LEMMA LostInit == Init => NothingLost
<1> SUFFICES ASSUME Init, NEW g \in Guids
             PROVE  /\ Len(queues[g]) <= Capacity
                    /\ applied[g] + (IF InHand(g) THEN 1 ELSE 0) + Len(queues[g]) = sent[g]
  BY DEF NothingLost
<1>1. ~InHand(g)
  BY DEF Init, InHand
<1> QED  BY <1>1, CapacityAssumption DEF Init

\* Every step accepts one event, hands one over, applies the next one, or does none of
\* these.
LEMMA PromiseStep ==
  ASSUME OneWorker, Takers = {}, PromiseInv, [Next]_vars
  PROVE  NothingLost' /\ [Promise!DNext]_(Promise!dvars)
<1> DEFINE Steps == NothingLost' /\ [Promise!DNext]_(Promise!dvars)
<1>0. TypeOK /\ Listed /\ Within /\ Newest /\ HandBetween /\ NothingLost
  BY DEF PromiseInv, OrderInv, QInv
<1>1. ASSUME UNCHANGED <<queues, sent, applied, hand>> PROVE Steps
  <2>1. \A g \in Guids : InHand(g)' = InHand(g)
    BY <1>1 DEF InHand
  <2>2. NothingLost'
    BY <1>0, <1>1, <2>1 DEF NothingLost
  <2> QED  BY <1>1, <2>2 DEF Promise!dvars
<1>2. ASSUME NEW p \in Producers, Put(p) PROVE Steps
  <2> DEFINE h == producer[p].guid
  <2>1. h \in Guids
    BY <1>0, <1>2 DEF Put, Listed, TypeOK, Known
  <2>2. /\ queues[h] \in Seq(Nat) /\ sent[h] \in Nat /\ applied[h] \in Nat
        /\ queues'[h] = Append(queues[h], sent[h] + 1) /\ Len(queues[h]) < Capacity
        /\ sent' = [sent EXCEPT ![h] = sent[h] + 1] /\ sent'[h] = sent[h] + 1
        /\ applied' = applied /\ hand' = hand
        /\ \A g \in Guids : g # h => queues'[g] = queues[g] /\ sent'[g] = sent[g]
    BY <1>0, <1>2, <2>1 DEF Put, Pushed, HasRoom, TypeOK
  <2>3. Len(queues'[h]) = Len(queues[h]) + 1 /\ Len(queues[h]) \in Nat
    BY <2>2
  <2>4. /\ Len(queues[h]) <= Capacity
        /\ applied[h] + (IF InHand(h) THEN 1 ELSE 0) + Len(queues[h]) = sent[h]
    BY <1>0, <2>1 DEF NothingLost
  <2>5. \A g \in Guids : InHand(g)' = InHand(g)
    BY <2>2 DEF InHand
  <2> HIDE DEF h
  <2>6. NothingLost'
    <3>1. ASSUME NEW g \in Guids
          PROVE  /\ Len(queues'[g]) <= Capacity
                 /\ applied[g] + (IF InHand(g) THEN 1 ELSE 0) + Len(queues'[g]) = sent'[g]
      <4>1. CASE g = h
        <5>1. PICK k \in 0 .. 1 : k = IF InHand(h) THEN 1 ELSE 0
          OBVIOUS
        <5>2. PICK l \in Nat : l = Len(queues[h])
          BY <2>3
        <5>3. applied[h] + k + l = sent[h] /\ l < Capacity
          BY <2>2, <2>4, <5>1, <5>2
        <5>4. applied[h] + k + (l + 1) = sent[h] + 1 /\ l + 1 <= Capacity
          <6>1. applied[h] \in Nat /\ sent[h] \in Nat /\ Capacity \in Nat
            BY <2>2, CapacityAssumption
          <6> QED  BY <5>3, <6>1
        <5> QED  BY <2>2, <2>3, <4>1, <5>1, <5>2, <5>4
      <4>2. CASE g # h
        BY <1>0, <2>2, <4>2 DEF NothingLost
      <4> QED  BY <4>1, <4>2
    <3> QED  BY <2>2, <2>5, <3>1 DEF NothingLost
  <2>7. sent[h] - applied[h] < Capacity + 1
    BY <2>2, <2>3, <2>4, CapacityAssumption
  <2>8. Promise!Send(h)
    BY <2>2, <2>7 DEF Promise!Send
  <2> QED  BY <2>1, <2>6, <2>8 DEF Promise!DNext
<1>3. ASSUME NEW w \in Workers, Found(w) PROVE Steps
  <2> DEFINE h == ScanGuid
  <2>1. h \in Guids
    <3>1. scan.offset \in Nat /\ scan.offset < Len(queueIDs)
      BY <1>0, <1>3, NobodyAssumption DEF Found, TypeOK, Within, Unlocked
    <3>2. queueIDs # << >>
      BY <3>1
    <3> QED  BY <1>0, <3>1, <3>2, AtIsListed DEF ScanGuid
  <2>2. /\ queues[h] \in Seq(Nat) /\ queues[h] # << >> /\ queues'[h] = Tail(queues[h])
        /\ \A g \in Guids : g # h => queues'[g] = queues[g]
        /\ hand'[w] = [guid |-> h, no |-> Head(queues[h])]
        /\ sent' = sent /\ applied' = applied
    BY <1>0, <1>3, <2>1 DEF Found, TypeOK
  <2>3. \A g \in Guids : ~InHand(g)
    BY <1>0, <1>3, ScanMeansNothingAtHand DEF Found
  <2> HIDE DEF h
  <2>4. Head(queues[h]) \in Nat /\ Len(queues[h]) \in Nat /\ Len(queues'[h]) = Len(queues[h]) - 1
    BY <2>2
  <2>5. hand'[w] # None /\ hand'[w].guid = h
    BY <2>1, <2>2, <2>4, NobodyAssumption
  <2>6. \A g \in Guids : InHand(g)' = (g = h)
    <3>1. \A v \in Workers : v = w
      BY DEF OneWorker
    <3> QED  BY <2>5, <3>1 DEF InHand
  <2>7. NothingLost'
    <3>1. ASSUME NEW g \in Guids
          PROVE  /\ Len(queues'[g]) <= Capacity
                 /\ applied[g] + (IF g = h THEN 1 ELSE 0) + Len(queues'[g]) = sent[g]
      <4>1. /\ Len(queues[g]) <= Capacity /\ applied[g] \in Nat /\ sent[g] \in Nat
            /\ applied[g] + 0 + Len(queues[g]) = sent[g]
        BY <1>0, <2>3 DEF NothingLost, TypeOK
      <4>2. CASE g = h
        <5>1. Len(queues'[g]) = Len(queues[g]) - 1 /\ Len(queues[g]) \in Nat
          BY <2>4, <4>2
        <5>2. applied[g] + 1 + (Len(queues[g]) - 1) = sent[g] /\ Len(queues[g]) - 1 <= Capacity
          BY <4>1, <5>1, CapacityAssumption
        <5> QED  BY <4>2, <5>1, <5>2
      <4>3. CASE g # h
        BY <2>2, <4>1, <4>3
      <4> QED  BY <4>2, <4>3
    <3> QED  BY <2>2, <2>6, <3>1 DEF NothingLost
  <2> QED  BY <2>2, <2>7 DEF Promise!dvars
<1>4. ASSUME NEW w \in Workers, Apply(w) PROVE Steps
  <2> DEFINE h == hand[w].guid
  <2>1. /\ hand[w] # None /\ h \in Guids /\ hand[w].no \in Nat /\ hand'[w] = None
        /\ applied' = [applied EXCEPT ![h] = hand[w].no] /\ applied'[h] = hand[w].no
        /\ \A g \in Guids : g # h => applied'[g] = applied[g]
        /\ queues' = queues /\ sent' = sent
    BY <1>0, <1>4 DEF Apply, TypeOK
  <2>2. \A v \in Workers : v = w
    BY DEF OneWorker
  <2>3. \A g \in Guids : InHand(g) = (g = h) /\ ~InHand(g)'
    BY <2>1, <2>2 DEF InHand
  <2>4. applied[h] < hand[w].no /\ hand[w].no <= sent[h] - Len(queues[h])
    BY <1>0, <2>1 DEF HandBetween
  <2> HIDE DEF h
  <2>5. /\ applied[h] + 1 + Len(queues[h]) = sent[h]
        /\ applied[h] \in Nat /\ sent[h] \in Nat /\ Len(queues[h]) \in Nat
    <3>1. queues[h] \in Seq(Nat) /\ applied[h] \in Nat /\ sent[h] \in Nat /\ InHand(h)
      BY <1>0, <2>1, <2>3 DEF TypeOK
    <3>2. applied[h] + (IF InHand(h) THEN 1 ELSE 0) + Len(queues[h]) = sent[h]
      BY <1>0, <2>1 DEF NothingLost
    <3> QED  BY <3>1, <3>2
  <2>6. hand[w].no = applied[h] + 1 /\ applied[h] < sent[h]
    BY <2>1, <2>4, <2>5
  <2>7. NothingLost'
    <3>1. ASSUME NEW g \in Guids
          PROVE  Len(queues[g]) <= Capacity /\ applied'[g] + 0 + Len(queues[g]) = sent[g]
      <4>1. CASE g = h
        BY <1>0, <2>1, <2>5, <2>6, <4>1 DEF NothingLost
      <4>2. CASE g # h
        BY <1>0, <2>1, <2>3, <4>2 DEF NothingLost
      <4> QED  BY <4>1, <4>2
    <3> QED  BY <2>1, <2>3, <3>1 DEF NothingLost
  <2>8. Promise!Deliver(h)
    BY <2>1, <2>6 DEF Promise!Deliver
  <2> QED  BY <2>1, <2>7, <2>8 DEF Promise!DNext
<1>5. ~(\E t \in Takers : TakeOut(t))
  OBVIOUS
<1>6. \/ UNCHANGED <<queues, sent, applied, hand>>
      \/ \E p \in Producers : Put(p)
      \/ \E w \in Workers : Found(w) \/ Apply(w)
  BY <1>5 DEF Next, Produce, Consume, Route, Refuse, CountEnqueued, CountRejected,
     Acquire, Skip, history, vars
<1> QED  BY <1>1, <1>2, <1>3, <1>4, <1>6

\* The safety of the promise: with one consumer, and nobody who takes events past it,
\* every accepted event is applied at most once, the next one first, and at most
\* Capacity + 1 of one object are outstanding.
THEOREM QueueKeepsPromise ==
  ASSUME OneWorker, Takers = {} PROVE Spec => Promise!Safety
<1>1. Init => PromiseInv /\ Promise!DInit
  BY OrderInit, LostInit DEF PromiseInv, Promise!DInit, Init
<1>2. PromiseInv /\ [Next]_vars => PromiseInv' /\ [Promise!DNext]_(Promise!dvars)
  BY OrderNext, PromiseStep DEF PromiseInv
<1> QED  BY <1>1, <1>2, PTL DEF Spec, Promise!Safety


-----------------------------------------------------------------------------
(* Numbers: the least of some, and induction.                              *)

\* A set of natural numbers has a least element.
LEMMA Least ==
  ASSUME NEW S \in SUBSET Nat, S # {}
  PROVE  \E x \in S : \A y \in S : x <= y
<1>1. \A x, y \in Nat : x < y => <<x, y>> \in OpToRel(<, Nat)
  BY DEF OpToRel
<1>2. \E R : IsWellFoundedOn(R, Nat) /\ \A x, y \in Nat : x < y => <<x, y>> \in R
  BY <1>1, NatLessThanWellFounded, Zenon
<1>3. ASSUME NEW R, IsWellFoundedOn(R, Nat), \A x, y \in Nat : x < y => <<x, y>> \in R
      PROVE  \E x \in S : \A y \in S : x <= y
  <2>1. S \subseteq Nat /\ S # {}
    OBVIOUS
  <2>2. \A A, Q, T : (IsWellFoundedOn(Q, A) /\ T \subseteq A /\ T # {})
                     => \E x \in T : \A y \in T : ~ (<<y, x>> \in Q)
    <3> SUFFICES ASSUME NEW A, NEW Q, NEW T, IsWellFoundedOn(Q, A), T \subseteq A, T # {}
                 PROVE  \E x \in T : \A y \in T : ~ (<<y, x>> \in Q)
      BY Zenon
    <3> QED  BY WFMin
  <2>3. (IsWellFoundedOn(R, Nat) /\ S \subseteq Nat /\ S # {})
        => \E x \in S : \A y \in S : ~ (<<y, x>> \in R)
    BY <2>2, Zenon
  <2>4. PICK x \in S : \A y \in S : ~ (<<y, x>> \in R)
    BY <1>3, <2>1, <2>3
  <2>5. \A y \in S : ~ (y < x)
    BY <1>3, <2>4, Zenon
  <2> QED  BY <2>5
<1> QED  BY <1>2, <1>3, Zenon

\* Induction: a set with 0, and with the successor of each member, has them all.
LEMMA Successors ==
  ASSUME NEW S, 0 \in S, \A n \in Nat : n \in S => n + 1 \in S
  PROVE  \A n \in Nat : n \in S
<1> SUFFICES ASSUME NEW m \in Nat, m \notin S PROVE FALSE
  OBVIOUS
<1> DEFINE Out == {n \in Nat : n \notin S}
<1>1. PICK n \in Out : \A k \in Out : n <= k
  <2>1. Out \in SUBSET Nat /\ Out # {}
    OBVIOUS
  <2> HIDE DEF Out
  <2> QED  BY <2>1, Least
<1>2. n \in Nat /\ n # 0 /\ n - 1 \in Nat /\ n - 1 \notin Out
  <2>1. n \in Nat /\ n # 0
    BY <1>1
  <2>2. n - 1 \in Nat /\ ~ (n <= n - 1)
    BY <2>1
  <2> QED  BY <1>1, <2>1, <2>2
<1>3. n - 1 \in S /\ (n - 1) + 1 = n
  BY <1>2
<1> QED  BY <1>1, <1>2, <1>3

-----------------------------------------------------------------------------
(* Totals over finite sets.                                                *)

\* The element that MapThenFoldSet takes next.
Pick(s) == CHOOSE x \in s : TRUE

\* f gives a whole number to each member of S.
Weighs(f, S) == \A x \in S : f[x] \in Int

\* it adds up f over the subsets of S, and over those of at most n members.
AddsUp(it, f, S) ==
  \A s \in SUBSET S : it[s] = IF s = {} THEN 0 ELSE f[Pick(s)] + it[s \ {Pick(s)}]
AddsUpTo(it, f, S, n) ==
  \A s \in SUBSET S : Cardinality(s) <= n =>
    it[s] = IF s = {} THEN 0 ELSE f[Pick(s)] + it[s \ {Pick(s)}]

\* The rest of a subset without the element taken.
LEMMA Rest ==
  ASSUME NEW S, IsFiniteSet(S), NEW s \in SUBSET S
  PROVE  /\ IsFiniteSet(s) /\ Cardinality(s) \in Nat /\ Cardinality(s) <= Cardinality(S)
         /\ Cardinality(s) = 0 <=> s = {}
         /\ s # {} => /\ Pick(s) \in s /\ s \ {Pick(s)} \in SUBSET S
                      /\ Cardinality(s \ {Pick(s)}) = Cardinality(s) - 1
<1>1. IsFiniteSet(s) /\ Cardinality(s) \in Nat /\ Cardinality(s) <= Cardinality(S)
  BY FS_Subset, FS_CardinalityType
<1>2. Cardinality(s) = 0 <=> s = {}
  BY <1>1, FS_EmptySet
<1>3. s # {} => Pick(s) \in s
  BY DEF Pick
<1>4. s # {} => Cardinality(s \ {Pick(s)}) = Cardinality(s) - 1
  BY <1>1, <1>3, FS_RemoveElement
<1> QED  BY <1>1, <1>2, <1>3, <1>4

LEMMA AdditionsExist ==
  ASSUME NEW S, IsFiniteSet(S), NEW f, Weighs(f, S)
  PROVE  \E it \in [SUBSET S -> Int] : AddsUp(it, f, S)
<1> DEFINE X == [SUBSET S -> Int]
           Some == {n \in Nat : \E it \in X : AddsUpTo(it, f, S, n)}
<1>1. \A s \in SUBSET S : /\ Cardinality(s) \in Nat /\ Cardinality(s) <= Cardinality(S)
                          /\ Cardinality(s) = 0 <=> s = {}
                          /\ s # {} => /\ Pick(s) \in s /\ s \ {Pick(s)} \in SUBSET S
                                       /\ Cardinality(s \ {Pick(s)}) = Cardinality(s) - 1
  BY Rest
<1>2. 0 \in Some
  <2> DEFINE it == [s \in SUBSET S |-> 0]
  <2>1. it \in X /\ AddsUpTo(it, f, S, 0)
    BY <1>1 DEF AddsUpTo
  <2> HIDE DEF it, X
  <2> QED  BY <2>1
<1>3. \A n \in Nat : n \in Some => n + 1 \in Some
  <2> SUFFICES ASSUME NEW n \in Nat, n \in Some PROVE n + 1 \in Some
    OBVIOUS
  <2> SUFFICES \E it \in X : AddsUpTo(it, f, S, n + 1)
    <3> HIDE DEF X
    <3> QED  OBVIOUS
  <2>1. PICK it \in X : AddsUpTo(it, f, S, n)
    <3> HIDE DEF X
    <3> QED  OBVIOUS
  <2> DEFINE more(s) == IF Cardinality(s) <= n THEN it[s]
                        ELSE IF s = {} THEN 0 ELSE f[Pick(s)] + it[s \ {Pick(s)}]
             jt == [s \in SUBSET S |-> more(s)]
  <2>2. jt \in X
    <3>1. ASSUME NEW s \in SUBSET S PROVE more(s) \in Int
      <4>1. s # {} => f[Pick(s)] \in Int /\ it[s \ {Pick(s)}] \in Int
        BY <1>1 DEF Weighs
      <4> QED  BY <4>1
    <3> HIDE DEF more
    <3> QED  BY <3>1
  <2>3. AddsUpTo(jt, f, S, n + 1)
    <3> SUFFICES ASSUME NEW s \in SUBSET S, Cardinality(s) <= n + 1
                 PROVE  jt[s] = IF s = {} THEN 0 ELSE f[Pick(s)] + jt[s \ {Pick(s)}]
      BY DEF AddsUpTo
    <3>1. CASE s = {}
      <4>1. Cardinality(s) = 0 /\ 0 <= n
        <5> HIDE DEF jt, X
        <5>1. Cardinality(s) = 0 <=> s = {}
          BY <1>1
        <5> QED  BY <3>1, <5>1
      <4>2. it[s] = 0
        BY <2>1, <3>1, <4>1 DEF AddsUpTo
      <4> QED  BY <3>1, <4>1, <4>2
    <3>2. CASE s # {}
      <4>1. Cardinality(s \ {Pick(s)}) <= n /\ s \ {Pick(s)} \in SUBSET S
        BY <1>1, <3>2
      <4>2. jt[s \ {Pick(s)}] = it[s \ {Pick(s)}]
        BY <4>1
      <4>3. jt[s] = f[Pick(s)] + it[s \ {Pick(s)}]
        BY <2>1, <3>2 DEF AddsUpTo
      <4> QED  BY <3>2, <4>2, <4>3
    <3> QED  BY <3>1, <3>2
  <2> HIDE DEF jt, X
  <2> QED  BY <2>2, <2>3
<1> HIDE DEF Some
<1>4. Cardinality(S) \in Some
  <2>1. Cardinality(S) \in Nat
    BY FS_CardinalityType
  <2> QED  BY <1>2, <1>3, <2>1, Successors
<1>5. PICK it \in X : AddsUpTo(it, f, S, Cardinality(S))
  BY <1>4 DEF Some
<1> QED  BY <1>1, <1>5 DEF AddsUpTo, AddsUp

\* There is one way to add up.
LEMMA AdditionsAgree ==
  ASSUME NEW S, IsFiniteSet(S), NEW f, NEW it, NEW jt, AddsUp(it, f, S), AddsUp(jt, f, S)
  PROVE  it[S] = jt[S]
<1> DEFINE Size == {n \in Nat : \A s \in SUBSET S : Cardinality(s) = n => it[s] = jt[s]}
<1>1. \A s \in SUBSET S : IsFiniteSet(s) /\ Cardinality(s) \in Nat
  BY FS_Subset, FS_CardinalityType
<1>2. 0 \in Size
  <2>1. \A s \in SUBSET S : Cardinality(s) = 0 => s = {}
    BY <1>1, FS_EmptySet
  <2>2. it[{}] = jt[{}]
    BY DEF AddsUp
  <2> QED  BY <2>1, <2>2
<1>3. \A n \in Nat : n \in Size => n + 1 \in Size
  <2> SUFFICES ASSUME NEW n \in Nat, n \in Size, NEW s \in SUBSET S, Cardinality(s) = n + 1
               PROVE  it[s] = jt[s]
    OBVIOUS
  <2>1. s # {}
    BY <1>1, FS_EmptySet
  <2>2. Pick(s) \in s
    BY <2>1 DEF Pick
  <2>3. s \ {Pick(s)} \in SUBSET S /\ Cardinality(s \ {Pick(s)}) = n
    <3>1. IsFiniteSet(s)
      BY <1>1
    <3>2. Cardinality(s \ {Pick(s)}) = Cardinality(s) - 1
      BY <3>1, <2>2, FS_RemoveElement
    <3> QED  BY <3>2
  <2>4. it[s \ {Pick(s)}] = jt[s \ {Pick(s)}]
    BY <2>3
  <2> QED  BY <2>1, <2>4 DEF AddsUp
<1>4. \A n \in Nat : n \in Size
  <2> HIDE DEF Size
  <2> QED  BY <1>2, <1>3, Successors
<1> QED  BY <1>1, <1>4

\* Total is a whole number, nothing over the empty set, and otherwise one element's
\* weight more than the sum over the rest.
LEMMA TotalRecursive ==
  ASSUME NEW S, IsFiniteSet(S), NEW f, Weighs(f, S)
  PROVE  /\ Total(f, S) \in Int
         /\ S = {} => Total(f, S) = 0
         /\ S # {} => Total(f, S) = f[Pick(S)] + Total(f, S \ {Pick(S)})
<1>1. PICK it \in [SUBSET S -> Int] : AddsUp(it, f, S)
  BY AdditionsExist
<1>2. ASSUME NEW T \in SUBSET S PROVE Total(f, T) = it[T]
  <2> DEFINE iter[s \in SUBSET T] == IF s = {} THEN 0 ELSE f[Pick(s)] + iter[s \ {Pick(s)}]
             jt == [s \in SUBSET T |-> it[s]]
  <2>1. Total(f, T) = iter[T]
    BY DEF Total, MapThenSumSet, MapThenFoldSet, Pick
  <2>2. \A s \in SUBSET T : it[s] = IF s = {} THEN 0 ELSE f[Pick(s)] + it[s \ {Pick(s)}]
    BY <1>1 DEF AddsUp
  <2>3. jt = [s \in SUBSET T |-> IF s = {} THEN 0 ELSE f[Pick(s)] + jt[s \ {Pick(s)}]]
    BY <2>2
  <2>4. iter = [s \in SUBSET T |-> IF s = {} THEN 0 ELSE f[Pick(s)] + iter[s \ {Pick(s)}]]
    <3> HIDE DEF jt
    <3> QED  BY <2>3
  <2> HIDE DEF iter, jt
  <2>5. AddsUp(iter, f, T)
    BY <2>4 DEF AddsUp
  <2>6. AddsUp(it, f, T) /\ IsFiniteSet(T)
    BY <2>2, FS_Subset DEF AddsUp
  <2>7. iter[T] = it[T]
    BY <2>5, <2>6, AdditionsAgree
  <2> QED  BY <2>1, <2>7
<1>3. S \ {Pick(S)} \in SUBSET S /\ S \in SUBSET S
  OBVIOUS
<1>4. Total(f, S) = it[S] /\ Total(f, S \ {Pick(S)}) = it[S \ {Pick(S)}]
  BY <1>2, <1>3
<1> QED  BY <1>1, <1>3, <1>4 DEF AddsUp

\* A weight that changes changes the total by as much.
LEMMA TotalMoves ==
  ASSUME NEW S, IsFiniteSet(S), NEW f, Weighs(f, S), NEW g, Weighs(g, S), NEW x \in S,
         \A y \in S \ {x} : g[y] = f[y]
  PROVE  /\ Total(f, S) \in Int /\ Total(g, S) \in Int
         /\ Total(g, S) = Total(f, S) + (g[x] - f[x])
<1> DEFINE Moved(s) == IF x \in s THEN g[x] - f[x] ELSE 0
           Size == {n \in Nat : \A s \in SUBSET S : Cardinality(s) = n =>
                                  Total(g, s) = Total(f, s) + Moved(s)}
<1>1. \A s \in SUBSET S : /\ IsFiniteSet(s) /\ Cardinality(s) \in Nat
                          /\ Cardinality(s) = 0 <=> s = {}
                          /\ s # {} => /\ Pick(s) \in s /\ s \ {Pick(s)} \in SUBSET S
                                       /\ Cardinality(s \ {Pick(s)}) = Cardinality(s) - 1
  BY Rest
<1>2. ASSUME NEW s \in SUBSET S
      PROVE  /\ Total(f, s) \in Int /\ Total(g, s) \in Int
             /\ s = {} => Total(f, s) = 0 /\ Total(g, s) = 0
             /\ s # {} => /\ Total(f, s) = f[Pick(s)] + Total(f, s \ {Pick(s)})
                          /\ Total(g, s) = g[Pick(s)] + Total(g, s \ {Pick(s)})
  <2>1. IsFiniteSet(s) /\ Weighs(f, s) /\ Weighs(g, s)
    BY <1>1 DEF Weighs
  <2> QED  BY <2>1, TotalRecursive
<1>3. 0 \in Size
  <2> SUFFICES ASSUME NEW s \in SUBSET S, Cardinality(s) = 0
               PROVE  Total(g, s) = Total(f, s) + Moved(s)
    OBVIOUS
  <2>1. s = {}
    BY <1>1
  <2>2. Total(f, s) = 0 /\ Total(g, s) = 0
    BY <1>2, <2>1
  <2>3. Moved(s) = 0
    BY <2>1
  <2> QED  BY <2>2, <2>3
<1>4. \A n \in Nat : n \in Size => n + 1 \in Size
  <2> SUFFICES ASSUME NEW n \in Nat, n \in Size PROVE n + 1 \in Size
    OBVIOUS
  <2> SUFFICES ASSUME NEW s \in SUBSET S, Cardinality(s) = n + 1
               PROVE  Total(g, s) = Total(f, s) + Moved(s)
    <3>1. n + 1 \in Nat
      OBVIOUS
    <3> HIDE DEF Moved
    <3> QED  BY <3>1
  <2> DEFINE z == Pick(s)
             r == s \ {z}
  <2>1. s # {}
    <3>1. Cardinality(s) # 0
      OBVIOUS
    <3> QED  BY <1>1, <3>1
  <2>2. z \in s /\ r \in SUBSET S /\ Cardinality(r) = n
    BY <1>1, <2>1
  <2>3. Total(g, r) = Total(f, r) + Moved(r)
    BY <2>2
  <2>4. Total(f, s) = f[z] + Total(f, r) /\ Total(g, s) = g[z] + Total(g, r)
    BY <1>2, <2>1
  <2>5. Total(f, r) \in Int /\ Total(g, r) \in Int
    BY <1>2, <2>2
  <2>6. f[z] \in Int /\ g[z] \in Int /\ f[x] \in Int /\ g[x] \in Int
    BY <2>2 DEF Weighs
  <2>7. CASE z = x
    <3>1. Moved(r) = 0 /\ Moved(s) = g[x] - f[x]
      BY <2>2, <2>7
    <3> HIDE DEF Moved, z, r
    <3> QED  BY <2>3, <2>4, <2>5, <2>6, <2>7, <3>1
  <2>8. CASE z # x
    <3>1. Moved(r) = Moved(s) /\ g[z] = f[z] /\ Moved(s) \in Int
      BY <2>2, <2>6, <2>8
    <3> HIDE DEF Moved, z, r
    <3> QED  BY <2>3, <2>4, <2>5, <2>6, <3>1
  <2> QED  BY <2>7, <2>8
<1>5. \A n \in Nat : n \in Size
  <2> HIDE DEF Size
  <2> QED  BY <1>3, <1>4, Successors
<1>6. Total(g, S) = Total(f, S) + Moved(S)
  BY <1>1, <1>5
<1> QED  BY <1>2, <1>6

-----------------------------------------------------------------------------
(* The counters.                                                           *)

\* The producers whose event is in a queue and not yet counted.
Counting == {p \in Producers : producer[p].at = "count"}

Balanced == metrics.enqueued + Cardinality(Counting) = Pending + metrics.dequeued + Uncounted

\* A taker has events only until it has counted them.
TakersReturn == \A t \in Takers : taker[t].at # "count" => taker[t].n = 0

\* p raises the peak to the number of queues before it returns: its event is in, or
\* cannot be refused.
WillRaise(p) ==
  producer[p].at = "count" \/ (producer[p].at = "put" /\ queues[producer[p].guid] = << >>)

PeakFollows ==
  /\ metrics.peak <= Len(queueIDs)
  /\ metrics.peak < Len(queueIDs) => \E p \in Producers : WillRaise(p)

CInv == QInv /\ Balanced /\ TakersReturn /\ PeakFollows

\* What is counted is a whole number.
LEMMA Numbers ==
  ASSUME TypeOK
  PROVE  /\ metrics.enqueued \in Nat /\ metrics.dequeued \in Nat /\ metrics.peak \in Nat
         /\ Len(queueIDs) \in Nat
         /\ Pending \in Int /\ Uncounted \in Int
         /\ IsFiniteSet(Counting) /\ Cardinality(Counting) \in Nat
<1>1. Counting \subseteq Producers
  BY DEF Counting
<1>2. IsFiniteSet(Counting) /\ Cardinality(Counting) \in Nat
  BY <1>1, FiniteAssumption, FS_Subset, FS_CardinalityType
<1>3. Weighs([g \in Guids |-> Len(queues[g])], Guids)
  <2>1. \A g \in Guids : Len(queues[g]) \in Nat
    BY DEF TypeOK
  <2> QED  BY <2>1 DEF Weighs
<1>4. Weighs([t \in Takers |-> taker[t].n], Takers)
  BY DEF TypeOK, Weighs
<1>5. Pending \in Int
  BY <1>3, FiniteAssumption, TotalRecursive DEF Pending
<1>6. Uncounted \in Int
  BY <1>4, FiniteAssumption, TotalRecursive DEF Uncounted
<1> QED  BY <1>2, <1>5, <1>6 DEF TypeOK

\* One queue changes.
LEMMA PendingMoves ==
  ASSUME TypeOK, TypeOK', NEW g \in Guids, \A h \in Guids \ {g} : queues'[h] = queues[h]
  PROVE  Pending' = Pending + (Len(queues'[g]) - Len(queues[g]))
<1> DEFINE a == [h \in Guids |-> Len(queues[h])]
           b == [h \in Guids |-> Len(queues'[h])]
<1>1. \A h \in Guids : Len(queues[h]) \in Nat /\ Len(queues'[h]) \in Nat
  <2>1. queues \in [Guids -> Seq(Nat)] /\ queues' \in [Guids -> Seq(Nat)]
    BY DEF TypeOK
  <2> QED  BY <2>1
<1>2. Weighs(a, Guids) /\ Weighs(b, Guids)
  BY <1>1 DEF Weighs
<1>3. \A h \in Guids \ {g} : b[h] = a[h]
  OBVIOUS
<1>4. Pending = Total(a, Guids) /\ Pending' = Total(b, Guids)
  BY DEF Pending
<1>5. a[g] = Len(queues[g]) /\ b[g] = Len(queues'[g])
  OBVIOUS
<1> HIDE DEF a, b
<1>6. Total(b, Guids) = Total(a, Guids) + (b[g] - a[g])
  BY <1>2, <1>3, FiniteAssumption, TotalMoves
<1> QED  BY <1>4, <1>5, <1>6

\* One taker changes.
LEMMA UncountedMoves ==
  ASSUME TypeOK, TypeOK', NEW t \in Takers, \A u \in Takers \ {t} : taker'[u] = taker[u]
  PROVE  Uncounted' = Uncounted + (taker'[t].n - taker[t].n)
<1> DEFINE a == [u \in Takers |-> taker[u].n]
           b == [u \in Takers |-> taker'[u].n]
<1>1. \A u \in Takers : taker[u].n \in Nat /\ taker'[u].n \in Nat
  BY DEF TypeOK
<1>2. Weighs(a, Takers) /\ Weighs(b, Takers)
  BY <1>1 DEF Weighs
<1>3. \A u \in Takers \ {t} : b[u] = a[u]
  OBVIOUS
<1>4. Uncounted = Total(a, Takers) /\ Uncounted' = Total(b, Takers)
  BY DEF Uncounted
<1>5. a[t] = taker[t].n /\ b[t] = taker'[t].n
  OBVIOUS
<1> HIDE DEF a, b
<1>6. Total(b, Takers) = Total(a, Takers) + (b[t] - a[t])
  BY <1>2, <1>3, FiniteAssumption, TotalMoves
<1> QED  BY <1>4, <1>5, <1>6

LEMMA PendingStays == ASSUME UNCHANGED queues PROVE Pending' = Pending
BY DEF Pending

\* The takers hold as many events as before.
LEMMA UncountedStays ==
  ASSUME \A t \in Takers : taker'[t].n = taker[t].n
  PROVE  Uncounted' = Uncounted
<1>1. [t \in Takers |-> taker'[t].n] = [t \in Takers |-> taker[t].n]
  OBVIOUS
<1> QED  BY <1>1 DEF Uncounted

LEMMA CountingStays ==
  ASSUME \A p \in Producers : producer'[p].at = "count" <=> producer[p].at = "count"
  PROVE  Counting' = Counting
BY DEF Counting

\* A step that moves no event and counts none.
LEMMA NothingCounted ==
  ASSUME CInv, TypeOK', UNCHANGED <<queues, queueIDs>>,
         metrics'.enqueued = metrics.enqueued, metrics'.dequeued = metrics.dequeued,
         metrics'.peak = metrics.peak,
         \A p \in Producers : producer'[p].at = "count" <=> producer[p].at = "count",
         \A p \in Producers : WillRaise(p) => producer'[p] = producer[p],
         \A t \in Takers : taker'[t].n = taker[t].n,
         \A t \in Takers : taker'[t].at = "count" <=> taker[t].at = "count"
  PROVE  Balanced' /\ TakersReturn' /\ PeakFollows'
<1>1. Pending' = Pending /\ Uncounted' = Uncounted /\ Counting' = Counting
  BY PendingStays, UncountedStays, CountingStays
<1>2. Balanced'
  BY <1>1 DEF CInv, Balanced
<1>3. TakersReturn'
  BY DEF CInv, TakersReturn
<1>4. \A p \in Producers : WillRaise(p) => WillRaise(p)'
  BY DEF WillRaise
<1>5. PeakFollows'
  BY <1>4 DEF CInv, PeakFollows
<1> QED  BY <1>2, <1>3, <1>5

\* A queue that is created is empty: the producer that creates it will not be refused.
LEMMA RouteCounts ==
  ASSUME CInv, TypeOK', NEW p \in Producers, NEW g \in Guids, Route(p, g)
  PROVE  Balanced' /\ TakersReturn' /\ PeakFollows'
<1>1. /\ producer[p].at = "idle" /\ producer' = [producer EXCEPT ![p] = [at |-> "put", guid |-> g]]
      /\ UNCHANGED <<queues, metrics, taker>>
      /\ queueIDs' = IF g \in Known THEN queueIDs ELSE Append(queueIDs, g)
  BY DEF Route
<1>2. TypeOK /\ Listed
  BY DEF CInv, QInv
<1>3. \A q \in Producers : producer'[q] = IF q = p THEN [at |-> "put", guid |-> g] ELSE producer[q]
  BY <1>1, <1>2 DEF TypeOK
<1>4. /\ \A q \in Producers : producer'[q].at = "count" <=> producer[q].at = "count"
      /\ \A q \in Producers : WillRaise(q) => producer'[q] = producer[q]
  BY <1>1, <1>3 DEF WillRaise
<1>5. CASE g \in Known
  BY <1>1, <1>4, <1>5, NothingCounted
<1>6. CASE g \notin Known
  <2>1. Pending' = Pending /\ Uncounted' = Uncounted /\ Counting' = Counting
    BY <1>1, <1>4, PendingStays, UncountedStays, CountingStays
  <2>2. Balanced' /\ TakersReturn'
    BY <1>1, <2>1 DEF CInv, Balanced, TakersReturn
  <2>3. WillRaise(p)'
    BY <1>1, <1>2, <1>3, <1>6 DEF WillRaise, Listed
  <2>4. Len(queueIDs') = Len(queueIDs) + 1 /\ Len(queueIDs) \in Nat /\ metrics.peak \in Nat
    BY <1>1, <1>2, <1>6 DEF TypeOK
  <2>5. metrics'.peak <= Len(queueIDs')
    BY <1>1, <2>4 DEF CInv, PeakFollows
  <2> QED  BY <2>2, <2>3, <2>5 DEF PeakFollows
<1> QED  BY <1>5, <1>6

LEMMA PutCounts ==
  ASSUME CInv, TypeOK', NEW p \in Producers, Put(p)
  PROVE  Balanced' /\ TakersReturn' /\ PeakFollows'
<1> DEFINE g == producer[p].guid
<1>1. /\ producer[p].at = "put" /\ queues' = [queues EXCEPT ![g] = Append(queues[g], sent[g] + 1)]
      /\ producer' = [producer EXCEPT ![p] = [at |-> "count", guid |-> g]]
      /\ UNCHANGED <<queueIDs, metrics, taker>>
  BY DEF Put, Pushed
<1>2. TypeOK /\ Listed
  BY DEF CInv, QInv
<1>3. g \in Guids
  BY <1>1, <1>2 DEF Listed, Known, TypeOK
<1>4. producer'[p].at = "count" /\ \A q \in Producers \ {p} : producer'[q] = producer[q]
  BY <1>1, <1>2 DEF TypeOK
<1>5. Pending' = Pending + 1
  <2>1. \A h \in Guids \ {g} : queues'[h] = queues[h]
    BY <1>1, <1>2 DEF TypeOK
  <2>2. queues[g] \in Seq(Nat) /\ sent[g] + 1 \in Nat /\ queues'[g] = Append(queues[g], sent[g] + 1)
    <3>1. queues \in [Guids -> Seq(Nat)] /\ sent \in [Guids -> Nat]
      BY <1>2 DEF TypeOK
    <3>2. queues'[g] = Append(queues[g], sent[g] + 1)
      BY <1>1, <1>3, <3>1
    <3> QED  BY <1>3, <3>1, <3>2
  <2>3. Len(queues'[g]) = Len(queues[g]) + 1 /\ Len(queues[g]) \in Nat
    BY <2>2
  <2> HIDE DEF g
  <2>4. Pending' = Pending + (Len(queues'[g]) - Len(queues[g]))
    BY <1>2, <1>3, <2>1, PendingMoves
  <2> QED  BY <1>2, <2>3, <2>4, Numbers
<1>6. Cardinality(Counting') = Cardinality(Counting) + 1
  <2>1. Counting' = Counting \union {p} /\ p \notin Counting
    BY <1>1, <1>4 DEF Counting
  <2> QED  BY <1>2, <2>1, Numbers, FS_AddElement
<1>7. Uncounted' = Uncounted
  BY <1>1, UncountedStays
<1>8. Balanced'
  <2>1. metrics'.enqueued = metrics.enqueued /\ metrics'.dequeued = metrics.dequeued
    BY <1>1
  <2>2. metrics.enqueued + Cardinality(Counting) = Pending + metrics.dequeued + Uncounted
    BY DEF CInv, Balanced
  <2>3. /\ Cardinality(Counting) \in Nat /\ Pending \in Int /\ Uncounted \in Int
        /\ metrics.enqueued \in Nat /\ metrics.dequeued \in Nat
    BY <1>2, Numbers
  <2>4. metrics.enqueued + (Cardinality(Counting) + 1) = (Pending + 1) + metrics.dequeued + Uncounted
    BY <2>2, <2>3
  <2>5. metrics'.enqueued + Cardinality(Counting') = Pending' + metrics'.dequeued + Uncounted'
    BY <1>5, <1>6, <1>7, <2>1, <2>4
  <2> QED  BY <2>5 DEF Balanced
<1>9. TakersReturn'
  BY <1>1 DEF CInv, TakersReturn
<1>10. PeakFollows'
  BY <1>1, <1>4 DEF CInv, PeakFollows, WillRaise
<1> QED  BY <1>8, <1>9, <1>10

LEMMA CountEnqueuedCounts ==
  ASSUME CInv, TypeOK', NEW p \in Producers, CountEnqueued(p)
  PROVE  Balanced' /\ TakersReturn' /\ PeakFollows'
<1>1. /\ producer[p].at = "count" /\ producer' = [producer EXCEPT ![p] = Idle]
      /\ UNCHANGED <<queues, queueIDs, taker>>
  BY DEF CountEnqueued, history
<1>2. TypeOK
  BY DEF CInv, QInv
<1>3. /\ metrics'.enqueued = metrics.enqueued + 1 /\ metrics'.dequeued = metrics.dequeued
      /\ metrics'.peak = IF Len(queueIDs) > metrics.peak THEN Len(queueIDs) ELSE metrics.peak
  BY <1>2 DEF CountEnqueued, TypeOK
<1>4. producer'[p].at # "count" /\ \A q \in Producers \ {p} : producer'[q] = producer[q]
  BY <1>1, <1>2 DEF TypeOK, Idle
<1>5. Cardinality(Counting') = Cardinality(Counting) - 1
  <2>1. Counting' = Counting \ {p} /\ p \in Counting
    BY <1>1, <1>4 DEF Counting
  <2> QED  BY <1>2, <2>1, Numbers, FS_RemoveElement
<1>6. Uncounted' = Uncounted /\ Pending' = Pending
  BY <1>1, UncountedStays, PendingStays
<1>7. Balanced'
  <2>1. metrics.enqueued + Cardinality(Counting) = Pending + metrics.dequeued + Uncounted
    BY DEF CInv, Balanced
  <2>2. /\ Cardinality(Counting) \in Nat /\ Pending \in Int /\ Uncounted \in Int
        /\ metrics.enqueued \in Nat /\ metrics.dequeued \in Nat
    BY <1>2, Numbers
  <2>3. (metrics.enqueued + 1) + (Cardinality(Counting) - 1)
          = Pending + metrics.dequeued + Uncounted
    BY <2>1, <2>2
  <2>4. metrics'.enqueued + Cardinality(Counting')
          = Pending' + metrics'.dequeued + Uncounted'
    BY <1>3, <1>5, <1>6, <2>3
  <2> QED  BY <2>4 DEF Balanced
<1>8. TakersReturn'
  BY <1>1 DEF CInv, TakersReturn
<1>9. metrics'.peak = Len(queueIDs') /\ metrics'.peak \in Nat
  BY <1>1, <1>2, <1>3, Numbers DEF CInv, PeakFollows
<1>10. PeakFollows'
  BY <1>9 DEF PeakFollows
<1> QED  BY <1>7, <1>8, <1>10

LEMMA FoundCounts ==
  ASSUME CInv, TypeOK', NEW w \in Workers, Found(w)
  PROVE  Balanced' /\ TakersReturn' /\ PeakFollows'
<1> DEFINE g == ScanGuid
<1>1. /\ queues[g] # << >> /\ queues' = [queues EXCEPT ![g] = Tail(queues[g])]
      /\ UNCHANGED <<queueIDs, producer, taker>>
  BY DEF Found
<1>2. TypeOK /\ Within
  BY DEF CInv, QInv
<1>3. /\ metrics'.enqueued = metrics.enqueued /\ metrics'.dequeued = metrics.dequeued + 1
      /\ metrics'.peak = metrics.peak
  BY <1>2 DEF Found, TypeOK
<1>4. g \in Guids
  <2>1. scan.offset \in Nat /\ Len(queueIDs) \in Nat /\ scan.offset < Len(queueIDs)
    <3>1. ~Unlocked
      BY NobodyAssumption DEF Found, Unlocked
    <3> QED  BY <1>2, <3>1 DEF Within, TypeOK
  <2>2. queueIDs # << >>
    BY <2>1
  <2> QED  BY <1>2, <2>1, <2>2, AtIsListed DEF ScanGuid
<1> HIDE DEF g
<1>5. \A h \in Guids : queues'[h] = IF h = g THEN Tail(queues[g]) ELSE queues[h]
  BY <1>1, <1>2 DEF TypeOK
<1>6. Pending' = Pending - 1
  <2>1. queues[g] \in Seq(Nat) /\ queues'[g] = Tail(queues[g])
    BY <1>2, <1>4, <1>5 DEF TypeOK
  <2>2. Len(queues'[g]) = Len(queues[g]) - 1 /\ Len(queues[g]) \in Nat
    <3>1. \A q \in Seq(Nat) : q # << >> => Len(Tail(q)) = Len(q) - 1 /\ Len(q) \in Nat
      OBVIOUS
    <3> QED  BY <1>1, <2>1, <3>1
  <2>3. Pending' = Pending + (Len(queues'[g]) - Len(queues[g]))
    BY <1>2, <1>4, <1>5, PendingMoves
  <2> QED  BY <1>2, <2>2, <2>3, Numbers
<1>7. Uncounted' = Uncounted /\ Counting' = Counting
  BY <1>1, UncountedStays, CountingStays
<1>8. Balanced'
  BY <1>2, <1>3, <1>6, <1>7, Numbers DEF CInv, Balanced
<1>9. TakersReturn'
  BY <1>1 DEF CInv, TakersReturn
<1>10. \A p \in Producers : WillRaise(p) => WillRaise(p)'
  <2> SUFFICES ASSUME NEW p \in Producers, producer[p].at = "put", queues[producer[p].guid] = << >>
               PROVE  queues'[producer[p].guid] = << >>
    BY <1>1 DEF WillRaise
  <2>1. producer[p].guid \in Guids /\ producer[p].guid # g
    <3>1. producer[p].guid \in Known
      BY DEF CInv, QInv, Listed
    <3>2. Known \subseteq Guids
      BY <1>2 DEF Known, TypeOK
    <3> QED  BY <1>1, <3>1, <3>2
  <2> QED  BY <1>5, <2>1
<1>11. PeakFollows'
  BY <1>1, <1>3, <1>10 DEF CInv, PeakFollows
<1> QED  BY <1>8, <1>9, <1>11

LEMMA TakeCounts ==
  ASSUME CInv, TypeOK', NEW t \in Takers, NEW n \in 0 .. Capacity, Take(t, n)
  PROVE  Balanced' /\ TakersReturn' /\ PeakFollows'
<1> DEFINE g == taker[t].guid
           q == queues[g]
<1>1. /\ taker[t].at = "take" /\ ((n = 1 /\ q # << >>) \/ n = Len(q))
      /\ queues' = [queues EXCEPT ![g] = SubSeq(q, n + 1, Len(q))]
      /\ taker' = [taker EXCEPT ![t] = [at |-> "count", guid |-> g, n |-> n]]
      /\ UNCHANGED <<queueIDs, metrics, producer>>
  BY DEF Take
<1>2. TypeOK /\ Listed
  BY DEF CInv, QInv
<1>3. g \in Guids /\ n \in Nat
  BY <1>1, <1>2, CapacityAssumption DEF Listed
<1>4. q \in Seq(Nat) /\ Len(q) \in Nat /\ n <= Len(q)
  <2>1. q \in Seq(Nat)
    BY <1>2, <1>3 DEF TypeOK
  <2> HIDE DEF q
  <2> QED  BY <1>1, <1>3, <2>1
<1>5. \A h \in Guids : queues'[h] = IF h = g THEN SubSeq(q, n + 1, Len(q)) ELSE queues[h]
  BY <1>1, <1>2 DEF TypeOK
<1>6. \A u \in Takers : taker'[u] = IF u = t THEN [at |-> "count", guid |-> g, n |-> n] ELSE taker[u]
  BY <1>1, <1>2 DEF TypeOK
<1>7. taker[t].n = 0
  BY <1>1 DEF CInv, TakersReturn
<1>8. queues[g] = q
  OBVIOUS
<1> HIDE DEF g, q
<1>9. Len(SubSeq(q, n + 1, Len(q))) = Len(q) - n
  BY <1>3, <1>4
<1>10. Pending' = Pending - n
  <2>1. Pending' = Pending + (Len(queues'[g]) - Len(queues[g]))
    BY <1>2, <1>3, <1>5, PendingMoves
  <2>2. Len(queues'[g]) = Len(q) - n
    BY <1>3, <1>5, <1>9
  <2> QED  BY <1>2, <1>3, <1>4, <1>8, <2>1, <2>2, Numbers
<1>11. Uncounted' = Uncounted + n
  <2>1. Uncounted' = Uncounted + (taker'[t].n - taker[t].n)
    BY <1>2, <1>6, UncountedMoves
  <2> QED  BY <1>3, <1>6, <1>7, <2>1
<1>12. Counting' = Counting
  BY <1>1, CountingStays
<1>13. Balanced'
  BY <1>1, <1>2, <1>3, <1>10, <1>11, <1>12, Numbers DEF CInv, Balanced
<1>14. TakersReturn'
  BY <1>6 DEF CInv, TakersReturn
<1>15. \A p \in Producers : WillRaise(p) => WillRaise(p)'
  <2> SUFFICES ASSUME NEW p \in Producers, producer[p].at = "put", queues[producer[p].guid] = << >>
               PROVE  queues'[producer[p].guid] = << >>
    BY <1>1 DEF WillRaise
  <2>1. producer[p].guid \in Guids
    BY <1>2 DEF Listed, Known, TypeOK
  <2>2. CASE producer[p].guid = g
    <3>1. q = << >>
      BY <1>8, <2>2
    <3>2. n = 0 /\ Len(q) = 0
      BY <1>1, <3>1
    <3>3. SubSeq(q, n + 1, Len(q)) = << >>
      BY <1>9, <3>2, <1>4, <1>3
    <3> QED  BY <1>5, <2>1, <2>2, <3>3
  <2>3. CASE producer[p].guid # g
    BY <1>5, <2>1, <2>3
  <2> QED  BY <2>2, <2>3
<1>16. PeakFollows'
  BY <1>1, <1>15 DEF CInv, PeakFollows
<1> QED  BY <1>13, <1>14, <1>16

LEMMA CountTakenCounts ==
  ASSUME CInv, TypeOK', NEW t \in Takers, CountTaken(t)
  PROVE  Balanced' /\ TakersReturn' /\ PeakFollows'
<1>1. /\ taker' = [taker EXCEPT ![t] = Resting] /\ UNCHANGED <<queues, queueIDs, producer>>
  BY DEF CountTaken, history
<1>2. TypeOK
  BY DEF CInv, QInv
<1>3. /\ metrics'.enqueued = metrics.enqueued /\ metrics'.peak = metrics.peak
      /\ metrics'.dequeued = metrics.dequeued + taker[t].n
  BY <1>2 DEF CountTaken, TypeOK
<1>4. \A u \in Takers : taker'[u] = IF u = t THEN Resting ELSE taker[u]
  BY <1>1, <1>2 DEF TypeOK
<1>5. taker'[t].n = 0 /\ taker[t].n \in Nat
  BY <1>2, <1>4 DEF TypeOK, Resting
<1>6. Uncounted' = Uncounted + (taker'[t].n - taker[t].n)
  BY <1>2, <1>4, UncountedMoves
<1>7. Pending' = Pending /\ Counting' = Counting
  BY <1>1, PendingStays, CountingStays
<1>8. Balanced'
  BY <1>2, <1>3, <1>5, <1>6, <1>7, Numbers DEF CInv, Balanced
<1>9. TakersReturn'
  BY <1>4 DEF CInv, TakersReturn, Resting
<1>10. PeakFollows'
  BY <1>1, <1>3 DEF CInv, PeakFollows, WillRaise
<1> QED  BY <1>8, <1>9, <1>10

\* Refuse and CountRejected: the producer is not one that will raise the peak.
LEMMA RefusalCounts ==
  ASSUME CInv, TypeOK', NEW p \in Producers, Refuse(p) \/ CountRejected(p)
  PROVE  Balanced' /\ TakersReturn' /\ PeakFollows'
<1>1. TypeOK
  BY DEF CInv, QInv
<1>2. UNCHANGED <<queues, queueIDs, taker>>
  BY DEF Refuse, CountRejected, history
<1>3. /\ metrics'.enqueued = metrics.enqueued /\ metrics'.dequeued = metrics.dequeued
      /\ metrics'.peak = metrics.peak
  BY <1>1 DEF Refuse, CountRejected, TypeOK, history
<1>4. \A q \in Producers \ {p} : producer'[q] = producer[q]
  BY <1>1 DEF Refuse, CountRejected, TypeOK
<1>5. producer[p].at # "count" /\ producer'[p].at # "count"
  BY <1>1 DEF Refuse, CountRejected, TypeOK, Idle
<1>6. ~ WillRaise(p)
  <2>1. CASE Refuse(p)
    <3>1. Len(queues[producer[p].guid]) # 0
      BY <2>1, CapacityAssumption DEF Refuse, HasRoom
    <3> QED  BY <1>5, <3>1 DEF WillRaise
  <2>2. CASE CountRejected(p)
    BY <2>2 DEF CountRejected, WillRaise
  <2> QED  BY <2>1, <2>2
<1> QED  BY <1>2, <1>3, <1>4, <1>5, <1>6, NothingCounted

LEMMA CStarts == Init => CInv
<1> SUFFICES ASSUME Init PROVE CInv
  OBVIOUS
<1>1. QInv
  BY QInit
<1>2. Counting = {}
  BY DEF Init, Idle, Counting
<1>3. Cardinality(Counting) = 0
  BY <1>2, FS_EmptySet
<1>4. ASSUME NEW S, IsFiniteSet(S), NEW f, \A x \in S : f[x] = 0
      PROVE  Total(f, S) = 0
  <2> DEFINE Size == {n \in Nat : \A s \in SUBSET S : Cardinality(s) = n => Total(f, s) = 0}
  <2>1. \A s \in SUBSET S : /\ IsFiniteSet(s) /\ Cardinality(s) \in Nat
                            /\ Cardinality(s) = 0 <=> s = {}
                            /\ s # {} => /\ Pick(s) \in s /\ s \ {Pick(s)} \in SUBSET S
                                         /\ Cardinality(s \ {Pick(s)}) = Cardinality(s) - 1
    BY <1>4, Rest
  <2>2. ASSUME NEW s \in SUBSET S
        PROVE  /\ s = {} => Total(f, s) = 0
               /\ s # {} => Total(f, s) = f[Pick(s)] + Total(f, s \ {Pick(s)})
    <3>1. IsFiniteSet(s)
      BY <2>1
    <3>2. Weighs(f, s)
      BY <1>4 DEF Weighs
    <3> QED  BY <3>1, <3>2, TotalRecursive
  <2>3. 0 \in Size
    BY <2>1, <2>2
  <2>4. \A n \in Nat : n \in Size => n + 1 \in Size
    <3> SUFFICES ASSUME NEW n \in Nat, n \in Size, NEW s \in SUBSET S, Cardinality(s) = n + 1
                 PROVE  Total(f, s) = 0
      OBVIOUS
    <3>1. Cardinality(s) # 0
      OBVIOUS
    <3>2. s # {}
      BY <2>1, <3>1
    <3>3. s \ {Pick(s)} \in SUBSET S /\ Cardinality(s \ {Pick(s)}) = n /\ Pick(s) \in S
      BY <2>1, <3>2
    <3>4. Total(f, s \ {Pick(s)}) = 0 /\ f[Pick(s)] = 0
      BY <1>4, <3>3
    <3> QED  BY <2>2, <3>2, <3>4
  <2>5. \A n \in Nat : n \in Size
    <3> HIDE DEF Size
    <3> QED  BY <2>3, <2>4, Successors
  <2> QED  BY <2>1, <2>5
<1>5. Pending = 0
  <2>1. \A g \in Guids : [h \in Guids |-> Len(queues[h])][g] = 0
    BY DEF Init
  <2> QED  BY <1>4, <2>1, FiniteAssumption DEF Pending
<1>6. Uncounted = 0
  <2>1. \A t \in Takers : [u \in Takers |-> taker[u].n][t] = 0
    BY DEF Init, Resting
  <2> QED  BY <1>4, <2>1, FiniteAssumption DEF Uncounted
<1>7. metrics.enqueued = 0 /\ metrics.dequeued = 0 /\ metrics.peak = 0 /\ Len(queueIDs) = 0
  BY DEF Init
<1>8. Balanced
  BY <1>3, <1>5, <1>6, <1>7 DEF Balanced
<1>9. TakersReturn
  BY DEF Init, TakersReturn, Resting
<1>10. PeakFollows
  BY <1>7 DEF PeakFollows
<1> QED  BY <1>1, <1>8, <1>9, <1>10 DEF CInv

LEMMA CKept == CInv /\ [Next]_vars => CInv'
<1> SUFFICES ASSUME CInv, [Next]_vars PROVE CInv'
  OBVIOUS
<1>1. QInv'
  BY QNext DEF CInv
<1>2. TypeOK' /\ TypeOK
  BY <1>1 DEF QInv, CInv
<1>3. ASSUME NEW p \in Producers, Produce(p) PROVE Balanced' /\ TakersReturn' /\ PeakFollows'
  <2>1. ASSUME NEW g \in Guids, Route(p, g) PROVE Balanced' /\ TakersReturn' /\ PeakFollows'
    BY <1>2, <2>1, RouteCounts
  <2>2. CASE Put(p)
    BY <1>2, <2>2, PutCounts
  <2>3. CASE Refuse(p) \/ CountRejected(p)
    BY <1>2, <2>3, RefusalCounts
  <2>4. CASE CountEnqueued(p)
    BY <1>2, <2>4, CountEnqueuedCounts
  <2> QED  BY <1>3, <2>1, <2>2, <2>3, <2>4 DEF Produce
<1>4. ASSUME NEW w \in Workers, Consume(w) PROVE Balanced' /\ TakersReturn' /\ PeakFollows'
  <2>1. CASE Acquire(w) \/ Skip(w) \/ Apply(w)
    <3>1. UNCHANGED <<queues, queueIDs, metrics, producer, taker>>
      BY <2>1 DEF Acquire, Skip, Apply
    <3> QED  BY <1>2, <3>1, NothingCounted
  <2>2. CASE Found(w)
    BY <1>2, <2>2, FoundCounts
  <2> QED  BY <1>4, <2>1, <2>2 DEF Consume
<1>5. ASSUME NEW t \in Takers, TakeOut(t) PROVE Balanced' /\ TakersReturn' /\ PeakFollows'
  <2>1. ASSUME taker[t].at # "count", taker'[t].at # "count", taker'[t].n = 0,
               \A u \in Takers \ {t} : taker'[u] = taker[u],
               UNCHANGED <<queues, queueIDs, metrics, producer>>
        PROVE  Balanced' /\ TakersReturn' /\ PeakFollows'
    <3>1. taker[t].n = 0
      BY <2>1 DEF CInv, TakersReturn
    <3> QED  BY <1>2, <2>1, <3>1, NothingCounted
  <2>2. ASSUME NEW g \in Guids, LookUp(t, g) PROVE Balanced' /\ TakersReturn' /\ PeakFollows'
    BY <1>2, <2>1, <2>2 DEF LookUp, TypeOK
  <2>3. CASE TakeNothing(t)
    BY <1>2, <2>1, <2>3 DEF TakeNothing, Resting, TypeOK
  <2>4. ASSUME NEW n \in 0 .. Capacity, Take(t, n) PROVE Balanced' /\ TakersReturn' /\ PeakFollows'
    BY <1>2, <2>4, TakeCounts
  <2>5. CASE CountTaken(t)
    BY <1>2, <2>5, CountTakenCounts
  <2> QED  BY <1>5, <2>2, <2>3, <2>4, <2>5 DEF TakeOut
<1>6. ASSUME UNCHANGED vars PROVE Balanced' /\ TakersReturn' /\ PeakFollows'
  <2>1. UNCHANGED <<queues, queueIDs, metrics, producer, taker>>
    BY <1>6 DEF vars
  <2> QED  BY <1>2, <2>1, NothingCounted
<1>7. Balanced' /\ TakersReturn' /\ PeakFollows'
  BY <1>3, <1>4, <1>5, <1>6 DEF Next
<1> QED  BY <1>1, <1>7 DEF CInv

\* No event is counted twice or never, although the metrics change in other critical
\* sections than the queues (manager.go:76-107), and PeakQueueSize is the number of queues
\* whenever no call of Enqueue is under way, however many calls, scans and takers there are.
THEOREM MetricsAddUp == Spec => []CountsAddUp
<1>1. Spec => []CInv
  <2>1. Init => CInv
    BY CStarts
  <2>2. CInv /\ [Next]_vars => CInv'
    BY CKept
  <2> QED  BY <2>1, <2>2, PTL DEF Spec
<1>2. CInv => CountsAddUp
  <2> SUFFICES ASSUME CInv PROVE CountsAddUp
    OBVIOUS
  <2>1. (\A p \in Producers : producer[p].at = "idle") => metrics.peak = Len(queueIDs)
    <3> SUFFICES ASSUME \A p \in Producers : producer[p].at = "idle"
                 PROVE  metrics.peak = Len(queueIDs)
      OBVIOUS
    <3>1. \A p \in Producers : ~ WillRaise(p)
      BY DEF WillRaise
    <3>2. metrics.peak <= Len(queueIDs) /\ ~ (metrics.peak < Len(queueIDs))
      BY <3>1 DEF CInv, PeakFollows
    <3>3. metrics.peak \in Nat /\ Len(queueIDs) \in Nat
      BY Numbers DEF CInv, QInv
    <3> QED  BY <3>2, <3>3
  <2> QED  BY <2>1 DEF CInv, Balanced, Counting, CountsAddUp
<1> QED  BY <1>1, <1>2, PTL
=============================================================================
