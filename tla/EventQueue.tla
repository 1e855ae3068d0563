----------------------------- MODULE EventQueue -----------------------------
(***************************************************************************)
(* The queue manager (server/eventqueue) between the goroutines that       *)
(* enqueue events and those that take them: the frame of the event loop or *)
(* the workers of the pool, which call DequeueNext and apply what they get *)
(* (server/eventloop), and callers of Dequeue and DequeueAllForGUID.       *)
(*                                                                         *)
(* The manager's mutex covers the list of queues, the round-robin index    *)
(* and the metrics, not the queues, which have their own: Enqueue and      *)
(* Dequeue hold it only before and after, DequeueNext throughout.  Every   *)
(* section of one mutex is one action, but for the scan of DequeueNext,    *)
(* which looks at one queue per action, as producers fill queues meanwhile.*)
(***************************************************************************)
EXTENDS Integers, Sequences, FiniteSets, FiniteSetsExt

CONSTANTS
  Guids,       \* objects that events are for
  Producers,   \* goroutines that call Enqueue
  Workers,     \* goroutines that call DequeueNext and apply the event
  Takers,      \* goroutines that call Dequeue or DequeueAllForGUID
  Capacity,    \* of each queue
  MaxEvents,   \* bound: the number of calls of Enqueue
  None

ASSUME CapacityAssumption == Capacity \in Nat \ {0}
ASSUME BoundAssumption == MaxEvents \in Nat
ASSUME FiniteAssumption == IsFiniteSet(Guids) /\ IsFiniteSet(Producers) /\ IsFiniteSet(Takers)
ASSUME NobodyAssumption ==
  None \notin Workers /\ None \notin Guids /\ None \notin [guid : Guids, no : Nat]

VARIABLES
  queues,      \* GUID -> numbers of its pending events
  queueIDs,    \* the GUIDs that have a queue, in order of creation
  rrIndex,     \* where the next scan starts, from 0
  metrics,     \* ManagerMetrics
  scan,        \* the goroutine that holds the manager's mutex in DequeueNext, and its offset
  producer,    \* producer -> where it is in Enqueue, and for which GUID
  taker,       \* taker -> where it is, for which GUID, how many events it took
  hand,        \* worker -> the event it has dequeued and not yet applied, or None
  sent,        \* history: GUID -> number of events accepted
  applied,     \* history: GUID -> the last event applied
  gone,        \* history: GUID -> the events applied, or taken by a taker
  passed,      \* history: GUID -> how often DequeueNext served others while it waited
  excused      \* history: the queues were all empty, or raided, during this scan

vars == <<queues, queueIDs, rrIndex, metrics, scan, producer, taker, hand,
          sent, applied, gone, passed, excused>>
history == <<sent, applied, gone, passed, excused>>

Idle == [at |-> "idle", guid |-> None]
Resting == [at |-> "idle", guid |-> None, n |-> 0]

\* The GUIDs in QueueManager.queues.
Known == {queueIDs[i] : i \in DOMAIN queueIDs}
Unlocked == scan.by = None
AllEmpty == \A g \in Guids : queues[g] = << >>

\* Calls of Enqueue so far.
Calls == metrics.enqueued + metrics.rejected
         + Cardinality({p \in Producers : producer[p].at # "idle"})

Init ==
  /\ queues = [g \in Guids |-> << >>] /\ queueIDs = << >> /\ rrIndex = 0
  /\ metrics = [enqueued |-> 0, dequeued |-> 0, rejected |-> 0, peak |-> 0]
  /\ scan = [by |-> None, offset |-> 0]
  /\ producer = [p \in Producers |-> Idle] /\ taker = [t \in Takers |-> Resting]
  /\ hand = [w \in Workers |-> None]
  /\ sent = [g \in Guids |-> 0] /\ applied = [g \in Guids |-> 0]
  /\ gone = [g \in Guids |-> {}] /\ passed = [g \in Guids |-> 0] /\ excused = FALSE

-----------------------------------------------------------------------------
(* Enqueue: find or create the queue, put the event in it, count it.       *)

\* Mutant: the newest event goes to the front.
PushedInFront(q, e) == <<e>> \o q
Pushed(q, e) == Append(q, e)

\* Mutant: the length is compared with > instead of >=.
HasRoomPlusOne(q) == Len(q) <= Capacity
HasRoom(q) == Len(q) < Capacity

Route(p, g) ==
  /\ producer[p].at = "idle" /\ Unlocked /\ Calls < MaxEvents
  /\ queueIDs' = IF g \in Known THEN queueIDs ELSE Append(queueIDs, g)
  /\ producer' = [producer EXCEPT ![p] = [at |-> "put", guid |-> g]]
  /\ UNCHANGED <<queues, rrIndex, metrics, scan, taker, hand, history>>

\* GUIDQueue.Enqueue has room.
Put(p) ==
  LET g == producer[p].guid IN
  /\ producer[p].at = "put" /\ HasRoom(queues[g])
  /\ queues' = [queues EXCEPT ![g] = Pushed(queues[g], sent[g] + 1)]
  /\ sent' = [sent EXCEPT ![g] = sent[g] + 1]
  /\ producer' = [producer EXCEPT ![p] = [at |-> "count", guid |-> g]]
  /\ UNCHANGED <<queueIDs, rrIndex, metrics, scan, taker, hand, applied, gone, passed,
                 excused>>

\* GUIDQueue.Enqueue answers ErrQueueFull.
Refuse(p) ==
  /\ producer[p].at = "put" /\ ~HasRoom(queues[producer[p].guid])
  /\ producer' = [producer EXCEPT ![p] = [at |-> "reject", guid |-> producer[p].guid]]
  /\ UNCHANGED <<queues, queueIDs, rrIndex, metrics, scan, taker, hand, history>>

CountEnqueued(p) ==
  /\ producer[p].at = "count" /\ Unlocked
  /\ metrics' = [metrics EXCEPT !.enqueued = metrics.enqueued + 1,
       !.peak = IF Len(queueIDs) > metrics.peak THEN Len(queueIDs) ELSE metrics.peak]
  /\ producer' = [producer EXCEPT ![p] = Idle]
  /\ UNCHANGED <<queues, queueIDs, rrIndex, scan, taker, hand, history>>

CountRejected(p) ==
  /\ producer[p].at = "reject" /\ Unlocked
  /\ metrics' = [metrics EXCEPT !.rejected = metrics.rejected + 1]
  /\ producer' = [producer EXCEPT ![p] = Idle]
  /\ UNCHANGED <<queues, queueIDs, rrIndex, scan, taker, hand, history>>

-----------------------------------------------------------------------------
(* DequeueNext, and what the frame or a worker does with the event.        *)

\* The position in queueIDs, from 0, of the i-th queue of a scan.
Position(i) == (rrIndex + i) % Len(queueIDs)
At(i) == queueIDs[Position(i) + 1]
ScanGuid == At(scan.offset)

\* Mutants: the next scan starts where this one ended; the index does not wrap.
StayThere(i) == i
NoWrap(i) == i + 1
After(i) == (i + 1) % Len(queueIDs)

\* Mutant: the scan leaves out the last queue.
ScanEndsEarly == scan.offset + 2 >= Len(queueIDs)
ScanEnds == scan.offset + 1 = Len(queueIDs)

\* DequeueNext takes the manager's mutex and finds at least one queue.  (With none it
\* answers ErrNoEvents, changing nothing.)
Acquire(w) ==
  /\ hand[w] = None /\ Unlocked /\ queueIDs # << >>
  /\ scan' = [by |-> w, offset |-> 0]
  /\ excused' = AllEmpty
  /\ UNCHANGED <<queues, queueIDs, rrIndex, metrics, producer, taker, hand, sent, applied,
                 gone, passed>>

\* The queue has an event: take it, advance the index, count, unlock.
Found(w) ==
  /\ scan.by = w /\ queues[ScanGuid] # << >>
  /\ hand' = [hand EXCEPT ![w] = [guid |-> ScanGuid, no |-> Head(queues[ScanGuid])]]
  /\ queues' = [queues EXCEPT ![ScanGuid] = Tail(queues[ScanGuid])]
  /\ rrIndex' = After(Position(scan.offset))
  /\ metrics' = [metrics EXCEPT !.dequeued = metrics.dequeued + 1]
  /\ scan' = [by |-> None, offset |-> 0]
  /\ passed' = [g \in Guids |->
       IF g = ScanGuid \/ queues[g] = << >> THEN 0 ELSE passed[g] + 1]
  /\ UNCHANGED <<queueIDs, producer, taker, sent, applied, gone, excused>>

\* The queue is empty: the next one, or ErrNoEvents after the last.
Skip(w) ==
  /\ scan.by = w /\ queues[ScanGuid] = << >>
  /\ scan' = IF ScanEnds THEN [by |-> None, offset |-> 0]
             ELSE [by |-> w, offset |-> scan.offset + 1]
  /\ UNCHANGED <<queues, queueIDs, rrIndex, metrics, producer, taker, hand, history>>

\* The event's own transaction is executed on the runtime environment.
Apply(w) ==
  /\ hand[w] # None
  /\ applied' = [applied EXCEPT ![hand[w].guid] = hand[w].no]
  /\ gone' = [gone EXCEPT ![hand[w].guid] = @ \union {hand[w].no}]
  /\ hand' = [hand EXCEPT ![w] = None]
  /\ UNCHANGED <<queues, queueIDs, rrIndex, metrics, scan, producer, taker, sent, passed, excused>>

-----------------------------------------------------------------------------
(* Dequeue and DequeueAllForGUID: look the queue up, take, count.          *)

LookUp(t, g) ==
  /\ taker[t].at = "idle" /\ Unlocked /\ g \in Known
  /\ taker' = [taker EXCEPT ![t] = [at |-> "take", guid |-> g, n |-> 0]]
  /\ UNCHANGED <<queues, queueIDs, rrIndex, metrics, scan, producer, hand, history>>

\* Take n events: one (Dequeue) or all (DequeueAllForGUID).
Take(t, n) ==
  LET q == queues[taker[t].guid] IN
  /\ taker[t].at = "take" /\ ((n = 1 /\ q # << >>) \/ n = Len(q))
  /\ queues' = [queues EXCEPT ![taker[t].guid] = SubSeq(q, n + 1, Len(q))]
  /\ taker' = [taker EXCEPT ![t] = [at |-> "count", guid |-> taker[t].guid, n |-> n]]
  /\ gone' = [gone EXCEPT ![taker[t].guid] = @ \union {q[i] : i \in 1 .. n}]
  /\ passed' = [passed EXCEPT ![taker[t].guid] = 0]
  /\ excused' = TRUE
  /\ UNCHANGED <<queueIDs, rrIndex, metrics, scan, producer, hand, sent, applied>>

\* Dequeue on an empty queue is an error.
TakeNothing(t) ==
  /\ taker[t].at = "take" /\ queues[taker[t].guid] = << >>
  /\ taker' = [taker EXCEPT ![t] = Resting]
  /\ UNCHANGED <<queues, queueIDs, rrIndex, metrics, scan, producer, hand, history>>

\* Mutant: DequeueAllForGUID counts one event.
CountTakenOne(t) ==
  /\ taker[t].at = "count" /\ Unlocked
  /\ metrics' = [metrics EXCEPT !.dequeued = metrics.dequeued + 1]
  /\ taker' = [taker EXCEPT ![t] = Resting]
  /\ UNCHANGED <<queues, queueIDs, rrIndex, scan, producer, hand, history>>

CountTaken(t) ==
  /\ taker[t].at = "count" /\ Unlocked
  /\ metrics' = [metrics EXCEPT !.dequeued = metrics.dequeued + taker[t].n]
  /\ taker' = [taker EXCEPT ![t] = Resting]
  /\ UNCHANGED <<queues, queueIDs, rrIndex, scan, producer, hand, history>>

-----------------------------------------------------------------------------
Produce(p) ==
  \/ \E g \in Guids : Route(p, g)
  \/ Put(p) \/ Refuse(p) \/ CountEnqueued(p) \/ CountRejected(p)

Consume(w) == Acquire(w) \/ Found(w) \/ Skip(w) \/ Apply(w)

TakeOut(t) ==
  \/ \E g \in Guids : LookUp(t, g)
  \/ \E n \in 0 .. Capacity : Take(t, n)
  \/ TakeNothing(t) \/ CountTaken(t)

Next ==
  \/ \E p \in Producers : Produce(p)
  \/ \E w \in Workers : Consume(w)
  \/ \E t \in Takers : TakeOut(t)

Spec == Init /\ [][Next]_vars

\* The frame, or the workers, keep asking and applying.
FairSpec == Spec /\ \A w \in Workers : WF_vars(Consume(w))

-----------------------------------------------------------------------------
TypeOK ==
  /\ queues \in [Guids -> Seq(Nat)] /\ queueIDs \in Seq(Guids)
  /\ rrIndex \in 0 .. Len(queueIDs) /\ (queueIDs # << >> => rrIndex < Len(queueIDs))
  /\ metrics \in [enqueued : Nat, dequeued : Nat, rejected : Nat, peak : Nat]
  /\ scan \in [by : Workers \union {None}, offset : Nat]
  /\ producer \in [Producers ->
       [at : {"idle", "put", "count", "reject"}, guid : Guids \union {None}]]
  /\ taker \in [Takers ->
       [at : {"idle", "take", "count"}, guid : Guids \union {None}, n : Nat]]
  /\ hand \in [Workers -> [guid : Guids, no : Nat] \union {None}]
  /\ sent \in [Guids -> Nat] /\ applied \in [Guids -> Nat] /\ passed \in [Guids -> Nat]
  /\ excused \in BOOLEAN
  /\ gone \in [Guids -> SUBSET Nat]

Total(f, S) == MapThenSumSet(LAMBDA x : f[x], S)

\* The events that are in a queue, for all queues together, and those taken but not yet
\* counted.
Pending == Total([g \in Guids |-> Len(queues[g])], Guids)
Uncounted == Total([t \in Takers |-> taker[t].n], Takers)

\* The metrics and the queues change in separate critical sections of Enqueue, Dequeue
\* and DequeueAllForGUID.  All the same no event is counted twice or never: what is
\* accepted is pending, taken, or on its way to one of the two counters, and once every
\* call has returned PeakQueueSize is the number of queues.
CountsAddUp ==
  /\ metrics.enqueued + Cardinality({p \in Producers : producer[p].at = "count"})
       = Pending + metrics.dequeued + Uncounted
  /\ (\A p \in Producers : producer[p].at = "idle") => metrics.peak = Len(queueIDs)

\* Round robin: while a queue has events, DequeueNext serves each other queue at most
\* once before it, although queues are added meanwhile.
NobodyStarves ==
  \A g \in Guids : queues[g] # << >> => passed[g] < Len(queueIDs)

\* DequeueNext says ErrNoEvents only if, at some moment of the call, there were none
\* (or somebody else took events meanwhile), although producers fill queues behind it.
NoEventsMeansEmpty ==
  [][\A w \in Workers :
       scan.by = w /\ scan'.by # w /\ hand'[w] = None => excused]_vars

\* When a worker has executed an event, every earlier event of the object has been
\* executed or taken, or another worker has it in hand: the pool may overtake only what it
\* has already dequeued, never an event that still waits, and it executes none twice.
OvertakenOnlyAtHand ==
  [][\A w \in Workers : hand[w] # None /\ hand'[w] = None =>
       LET g == hand[w].guid  n == hand[w].no IN
       /\ n \notin gone[g]
       /\ \A i \in 1 .. n - 1 :
            i \in gone[g] \/ \E v \in Workers \ {w} : hand[v] = [guid |-> g, no |-> i]]_vars

\* What the tests claim under concurrent load: the events of an object are applied in the
\* order in which they were accepted.  It takes a single consumer.
AppliedInOrder == [][\A g \in Guids : applied'[g] >= applied[g]]_vars

\* With one consumer every accepted event is applied once, in order, eventually, and
\* no more than a full queue and the event at hand are outstanding.
Promise == INSTANCE Delivery WITH Limit <- Capacity + 1
ImplementsDelivery == Promise!DSpec

=============================================================================
