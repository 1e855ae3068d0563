----------------------------- MODULE Simulation -----------------------------
(***************************************************************************)
(* The simulation goroutine and the state it shares with the rest of the   *)
(* process: engine.Simulation (physics.go), engine.DoubleBuffer (state.go) *)
(* and world.World (world.go).                                             *)
(*                                                                         *)
(* One goroutine ticks, drains its two one-slot channels, runs the physics *)
(* step on the back buffer with a team of worker goroutines, swaps the     *)
(* buffers and publishes a snapshot.  Renderers and RPC handlers read the  *)
(* front buffer under a read lock.  The UI goroutine writes the time rate  *)
(* straight into the buffer GetBack returned, without a lock, and may      *)
(* change the worker count, which swaps the buffers from that goroutine.   *)
(*                                                                         *)
(* A body is known by its place in the slice its phase walks: the roots    *)
(* (no parent) first, then the kids.  Its state is how long it has been    *)
(* advanced (anomaly) and, for a kid, which parent position its orbit is   *)
(* centred on (center: the parent's anomaly when it was read).             *)
(***************************************************************************)
EXTENDS Integers, Sequences, FiniteSets

CONSTANTS
  NumRoots, NumKids,  \* bodies without and with a parent
  ParentOf,           \* kid -> its parent body, 0 when the name resolves to none
  Rings,              \* the kids that are rings (not gravity participants)
  Modes,              \* subset of {"keplerian", "nbody"}: the systems explored
  Belted,             \* mode -> the system has a belt with per-dataset objects
  CanToggle,          \* mode -> the in-place swap setting is changed at run time
  LiveRetune,         \* mode -> SetWorkerCount is called while the loop runs
  Datasets,           \* asteroid dataset levels; 0 is the one loaded first
  Rates,              \* values of SecondsPerSecond (0 = paused)
  Speeds,             \* SetSpeed values, in units of dt / Quantum per tick
  Quantum,            \* one physics step consumes this much accumulated time
  Teams,              \* values of NumWorkers
  Readers,            \* goroutines that lock the front buffer to read it
  MaxTime,            \* bound: the simulated clock stops at this horizon
  NoView              \* the absence of a snapshot

Bodies == 1 .. (NumRoots + NumKids)
Kids   == (NumRoots + 1) .. (NumRoots + NumKids)

ASSUME BodiesAssumption ==
  /\ NumRoots \in Nat /\ NumKids \in Nat
  /\ ParentOf \in [Kids -> 0 .. (NumRoots + NumKids)]
  /\ Rings \subseteq Kids
ASSUME ModesAssumption ==
  /\ Modes \subseteq {"keplerian", "nbody"}
  /\ Belted \in [Modes -> BOOLEAN]
  /\ CanToggle \in [Modes -> BOOLEAN]
  /\ LiveRetune \in [Modes -> BOOLEAN]
ASSUME RangesAssumption ==
  /\ 0 \in Datasets
  /\ Rates \subseteq Nat /\ 1 \in Rates
  /\ Speeds \subseteq Nat /\ Quantum \in Nat \ {0} /\ Quantum \in Speeds
  /\ Teams \subseteq Nat \ {0} /\ Teams # {}
  /\ MaxTime \in Nat

Garbage == 0          \* a buffer nothing but a stale pointer refers to
BufId   == {Garbage, 1, 2}

Buffer ==
  [time : Nat, delta : Nat, rate : Rates, workers : Teams, dataset : Datasets,
   belts : SUBSET Datasets, anomaly : [Bodies -> Nat], center : [Kids -> Nat]]

View(b) == [time |-> b.time, delta |-> b.delta, dataset |-> b.dataset,
            anomaly |-> b.anomaly, center |-> b.center]

Views == [time : Nat, delta : Nat, dataset : Datasets,
          anomaly : [Bodies -> Nat], center : [Kids -> Nat]]

ASSUME NoViewAssumption == NoView \notin Views

VARIABLES
  mode,        \* NBodyMode of the loaded system, never changed
  bufs,        \* the SimulationState objects
  front, back, \* DoubleBuffer.front and .back
  inPlace,     \* DoubleBuffer.useInPlaceSwap
  owner,       \* the buffer whose SystemSet holds the gravity participants
  pc,          \* where the simulation goroutine is
  acc,         \* its accumulatedTime
  speed,       \* Simulation.speed
  speedCh,     \* speedChangeCh (capacity 1)
  cmdCh,       \* cmdCh (capacity 1)
  cmd,         \* the dataset being applied
  mine,        \* the back pointer applyFn or update() read when it started
  team,        \* the worker count update() read when it started
  pending,     \* the worker goroutines of this phase that have not finished
  snap,        \* the clone the post-tick hook is about to publish
  store,       \* World.snapshotStore
  view,        \* reader -> what it saw when it locked the front buffer
  ui, held,    \* the UI goroutine and the buffer pointer it holds
  chosen,      \* the dataset level the clients were last told is queued
  exchanged,   \* history: an odd number of swaps were made with the setting on
  cloned       \* history: a swap was made with it off while exchanged

history   == <<exchanged, cloned>>
simVars   == <<pc, acc, cmd, mine, team, pending>>
chanVars  == <<speed, speedCh, cmdCh, chosen>>
bufVars   == <<bufs, front, back, inPlace, owner, history>>
pubVars   == <<snap, store>>
uiVars    == <<ui, held>>
vars == <<mode, bufVars, simVars, chanVars, pubVars, uiVars, view>>

-----------------------------------------------------------------------------
(* Locking: the front buffer is read under RLock and replaced or written   *)
(* under Lock.  A goroutine that waits in Lock keeps new readers out.      *)

\* Mutant: locking disabled.
CanLockUnguarded == TRUE

CanLock == \A r \in Readers : view[r] = NoView

SwapDue == pc = "swap" \/ (pc = "kids" /\ pending = {})

\* Mutant: a lock that lets readers overtake a waiting writer.
WriterOvertaken == FALSE

WriterWaiting == SwapDue \/ pc \in {"grow", "show"} \/ ui = "swapping"

-----------------------------------------------------------------------------
(* The two ways Swap makes the back buffer visible.                        *)

\* Mutants: the animation state, the clock or the saved rate is not carried over.
CarriedNoAnim(new, old) == [new EXCEPT !.belts = old.belts, !.anomaly = old.anomaly]
CarriedNoTime(new, old) == [new EXCEPT !.belts = old.belts, !.time = old.time]
CarriedNoRate(new, old) == [new EXCEPT !.belts = old.belts, !.rate = old.rate]

\* What the old front buffer becomes: every field the exchange copies comes from
\* the new front; only the belt objects a buffer holds stay with it.
Carried(new, old) == [new EXCEPT !.belts = old.belts]

\* SwapInPlace: the pointers change places.
SwapInPlace ==
  /\ front' = back
  /\ back' = front
  /\ bufs' = [bufs EXCEPT ![front] = Carried(bufs[back], bufs[front])]
  /\ UNCHANGED <<mine, held, owner>>

\* A pointer to the front buffer a clone swap throws away refers to garbage.
Strand(p) == IF p = front THEN Garbage ELSE p

\* CloneWithPool: the front buffer is a fresh copy; the back pointer stays.  The
\* copy has no SystemSet, so a front buffer that owned one takes it to the grave.
SwapClone ==
  /\ bufs' = [bufs EXCEPT ![front] = bufs[back]]
  /\ UNCHANGED <<front, back>>
  /\ mine' = Strand(mine)
  /\ held' = Strand(held)
  /\ owner' = Strand(owner)

\* History: what the swap setting has come to, whatever the swap did with it.
Noted ==
  /\ exchanged' = (exchanged # inPlace)
  /\ cloned' = (cloned \/ (exchanged /\ ~inPlace))

\* Mutant: the clone swap is lost.
SwapInPlaceOnly ==
  /\ CanLock
  /\ SwapInPlace
  /\ Noted
  /\ UNCHANGED inPlace

Swap ==
  /\ CanLock
  /\ IF inPlace THEN SwapInPlace ELSE SwapClone
  /\ Noted
  /\ UNCHANGED inPlace

-----------------------------------------------------------------------------
(* NewSimulation and NewWorld.                                             *)

\* The session writes its configured time scale into the back buffer only.
Loaded(n, r) ==
  [time |-> 0, delta |-> 0, rate |-> r, workers |-> n, dataset |-> 0,
   belts |-> {0}, anomaly |-> [b \in Bodies |-> 0], center |-> [k \in Kids |-> 0]]

Init ==
  /\ mode \in Modes
  /\ \E n \in Teams, r \in Rates :
       bufs = [b \in BufId |-> Loaded(n, IF b = 2 THEN r ELSE 1)]
  /\ front = 1 /\ back = 2
  /\ inPlace = (mode # "nbody")
  /\ owner = 2
  /\ pc = "created" /\ acc = 0 /\ cmd = 0 /\ mine = 2 /\ pending = {}
  /\ team \in Teams /\ team = bufs[1].workers
  /\ speed = Quantum /\ speedCh = <<>> /\ cmdCh = <<>> /\ chosen = 0
  /\ snap = NoView /\ store = NoView
  /\ view = [r \in Readers |-> NoView]
  /\ ui = "idle" /\ held = Garbage
  /\ exchanged = FALSE /\ cloned = FALSE

-----------------------------------------------------------------------------
(* The simulation goroutine: Start.                                        *)

Start ==
  /\ pc \in {"created", "tuned"} /\ ui = "idle"
  /\ pc' = "wait"
  /\ UNCHANGED <<mode, bufVars, acc, cmd, mine, team, pending, chanVars,
                 pubVars, uiVars, view>>

\* A tick drains one speed change; a paused loop goes straight back to waiting.
Tick ==
  /\ pc = "wait"
  /\ speed' = IF speedCh = <<>> THEN speed ELSE Head(speedCh)
  /\ speedCh' = <<>>
  /\ acc' = acc + speed'
  /\ pc' = IF speed' = 0 THEN "wait" ELSE "loop"
  /\ UNCHANGED <<mode, bufVars, cmd, mine, team, pending, cmdCh, chosen,
                 pubVars, uiVars, view>>

\* The next command asks for a level other than the current one.
ChangesLevel == cmdCh # <<>> /\ bufs[back].dataset # Head(cmdCh)

\* Mutant: a command for the current level is left in the channel.
DrainedLazy == IF ChangesLevel THEN <<>> ELSE cmdCh

\* The command channel after the receive of one iteration.
Drained == <<>>

\* One iteration of the step loop starts: drain one command, if there is one.
\* applyFn returns at once for the level already current; otherwise it shows the
\* level, allocating its belt objects first when this buffer does not hold them.
NextStep ==
  /\ pc = "loop" /\ acc >= Quantum
  /\ acc' = acc - Quantum
  /\ cmdCh' = Drained
  /\ \/ /\ ~ChangesLevel
        /\ pc' = "begin"
        /\ UNCHANGED <<bufs, inPlace, cmd, mine>>
     \/ /\ ChangesLevel
        /\ cmd' = Head(cmdCh) /\ mine' = back
        /\ IF Belted[mode] /\ cmd' \notin bufs[back].belts
           THEN /\ bufs' = [bufs EXCEPT ![back].belts = @ \union {cmd'}]
                /\ inPlace' = FALSE
                /\ pc' = "grow"
           ELSE /\ bufs' = [bufs EXCEPT ![back].dataset = cmd']
                /\ UNCHANGED inPlace
                /\ pc' = "show"
  /\ UNCHANGED <<mode, front, back, owner, history, team, pending, speed, speedCh,
                 chosen, pubVars, uiVars, view>>

\* Mutant: the allocation is not mirrored.
GrowFrontNoMirror ==
  /\ pc = "grow" /\ CanLock
  /\ bufs' = [bufs EXCEPT ![mine].dataset = cmd]
  /\ inPlace' = TRUE
  /\ pc' = "show"
  /\ UNCHANGED <<mode, front, back, owner, history, acc, cmd, mine, team, pending,
                 chanVars, pubVars, uiVars, view>>

\* Mirror the allocation into the front buffer, re-enable in-place swap whatever
\* it was before, and make the level visible in the back buffer.
GrowFront ==
  /\ pc = "grow" /\ CanLock
  /\ bufs' = [bufs EXCEPT ![front].belts = @ \union {cmd}, ![mine].dataset = cmd]
  /\ inPlace' = TRUE
  /\ pc' = "show"
  /\ UNCHANGED <<mode, front, back, owner, history, acc, cmd, mine, team, pending,
                 chanVars, pubVars, uiVars, view>>

ShowFront ==
  /\ pc = "show" /\ CanLock
  /\ bufs' = [bufs EXCEPT ![front].dataset = cmd]
  /\ cmd' = 0
  /\ pc' = "begin"
  /\ UNCHANGED <<mode, front, back, inPlace, owner, history, acc, mine, team,
                 pending, chanVars, pubVars, uiVars, view>>

\* Every accumulated step has run.
StepsDone ==
  /\ pc = "loop" /\ acc < Quantum
  /\ pc' = "hook"
  /\ UNCHANGED <<mode, bufVars, acc, cmd, mine, team, pending, chanVars,
                 pubVars, uiVars, view>>

-----------------------------------------------------------------------------
(* One physics step: update.                                               *)

\* Mutant: the division is rounded down.
PerWorkerFloor(n, len) == len \div n

\* Worker i of n takes a run of ceil(len / n) consecutive places; a worker whose
\* run would start past the end is not started.
PerWorker(n, len) == (len + n - 1) \div n

Slice(i, n, len) ==
  {o \in 1 .. len : i * PerWorker(n, len) < o /\ o <= (i + 1) * PerWorker(n, len)}

Started(n, len) == {i \in 0 .. (n - 1) : i * PerWorker(n, len) < len}

\* The clock advances by dt times the rate, until the horizon of the model.
Elapsed(b) == IF b.time + b.rate <= MaxTime THEN b.rate ELSE 0

Ticked(b) == [b EXCEPT !.time = b.time + Elapsed(b), !.delta = Elapsed(b)]

\* updateObject on every body of a set.
Moved(b, S) ==
  [b EXCEPT !.anomaly = [o \in Bodies |-> b.anomaly[o] + (IF o \in S THEN b.delta ELSE 0)]]

\* OrbitCenter of every kid of a set becomes its parent's position.
Centred(b, S) ==
  [b EXCEPT !.center =
     [k \in Kids |-> IF k \in S /\ ParentOf[k] # 0 THEN b.anomaly[ParentOf[k]]
                     ELSE b.center[k]]]

Begin ==
  /\ pc = "begin"
  /\ mine' = back
  /\ bufs' = [bufs EXCEPT ![back] = Ticked(@)]
  /\ team' = bufs[back].workers
  /\ \/ /\ mode = "nbody"
        /\ pc' = "gravity" /\ pending' = {}
     \/ /\ mode # "nbody"
        /\ pc' = "roots" /\ pending' = Started(team', NumRoots)
  /\ UNCHANGED <<mode, front, back, inPlace, owner, history, acc, cmd, chanVars, pubVars,
                 uiVars, view>>

RootWorker(i) ==
  /\ pc = "roots" /\ i \in pending
  /\ bufs' = [bufs EXCEPT ![mine] = Moved(@, Slice(i, team, NumRoots))]
  /\ pending' = pending \ {i}
  /\ UNCHANGED <<mode, front, back, inPlace, owner, history, pc, acc, cmd, mine, team,
                 chanVars, pubVars, uiVars, view>>

\* Mutant: no wait for the roots' workers.
FollowParentsNoWait ==
  /\ pc = "roots"
  /\ bufs' = [bufs EXCEPT ![mine] = Moved(Centred(@, Kids),
                UNION {Slice(i, team, NumRoots) : i \in pending})]
  /\ pc' = "kids"
  /\ pending' = Started(team, NumKids)
  /\ UNCHANGED <<mode, front, back, inPlace, owner, history, acc, cmd, mine, team,
                 chanVars, pubVars, uiVars, view>>

\* wg.Wait, then the kids follow their parents and their workers start.
FollowParents ==
  /\ pc = "roots" /\ pending = {}
  /\ bufs' = [bufs EXCEPT ![mine] = Centred(@, Kids)]
  /\ pc' = "kids"
  /\ pending' = Started(team, NumKids)
  /\ UNCHANGED <<mode, front, back, inPlace, owner, history, acc, cmd, mine, team,
                 chanVars, pubVars, uiVars, view>>

KidWorker(i) ==
  /\ pc = "kids" /\ i \in pending
  /\ bufs' = [bufs EXCEPT ![mine] =
                Moved(@, {o + NumRoots : o \in Slice(i, team, NumKids)})]
  /\ pending' = pending \ {i}
  /\ UNCHANGED <<mode, front, back, inPlace, owner, history, pc, acc, cmd, mine, team,
                 chanVars, pubVars, uiVars, view>>

\* StepGravSet integrates the participants of this buffer's SystemSet; the other
\* buffer's set is empty.
GravityStep ==
  /\ pc = "gravity"
  /\ bufs' = [bufs EXCEPT ![mine] = Moved(@, IF mine = owner THEN Bodies \ Rings ELSE {})]
  /\ pc' = "rings"
  /\ UNCHANGED <<mode, front, back, inPlace, owner, history, acc, cmd, mine, team,
                 pending, chanVars, pubVars, uiVars, view>>

RingStep ==
  /\ pc = "rings"
  /\ bufs' = [bufs EXCEPT ![mine] = Moved(Centred(@, Rings), Rings)]
  /\ pc' = "swap"
  /\ UNCHANGED <<mode, front, back, inPlace, owner, history, acc, cmd, mine, team,
                 pending, chanVars, pubVars, uiVars, view>>

PublishStep ==
  /\ SwapDue
  /\ Swap
  /\ pc' = "loop"
  /\ UNCHANGED <<mode, acc, cmd, team, pending, chanVars, pubVars, ui, view>>

-----------------------------------------------------------------------------
(* The post-tick hook, and the end of the loop.                            *)

\* The gate is asked every time; the streams it counts come and go at will.
Hook ==
  /\ pc = "hook"
  /\ \/ pc' = "wait" /\ UNCHANGED snap
     \/ /\ ~WriterWaiting
        /\ snap' = View(bufs[front])
        /\ pc' = "store"
  /\ UNCHANGED <<mode, bufVars, acc, cmd, mine, team, pending, chanVars, store,
                 uiVars, view>>

StoreSnapshot ==
  /\ pc = "store"
  /\ store' = snap
  /\ snap' = NoView
  /\ pc' = "wait"
  /\ UNCHANGED <<mode, bufVars, acc, cmd, mine, team, pending, chanVars, uiVars,
                 view>>

Stop ==
  /\ pc = "wait"
  /\ pc' = "done"
  /\ UNCHANGED <<mode, bufVars, acc, cmd, mine, team, pending, chanVars, pubVars,
                 uiVars, view>>

-----------------------------------------------------------------------------
(* Other goroutines: readers, clients, the UI.                             *)

LockFront(r) ==
  /\ view[r] = NoView /\ ~WriterWaiting
  /\ view' = [view EXCEPT ![r] = View(bufs[front])]
  /\ UNCHANGED <<mode, bufVars, simVars, chanVars, pubVars, uiVars>>

UnlockFront(r) ==
  /\ view[r] # NoView
  /\ view' = [view EXCEPT ![r] = NoView]
  /\ UNCHANGED <<mode, bufVars, simVars, chanVars, pubVars, uiVars>>

\* Mutant: the send does not look at the channel's capacity.
SetSpeedUnbounded(s) ==
  /\ speedCh' = Append(speedCh, s)
  /\ UNCHANGED <<mode, bufVars, simVars, speed, cmdCh, chosen, pubVars, uiVars, view>>

\* Non-blocking sends: with the slot taken the new value is dropped, and the
\* caller is told nothing (the RPC answers QUEUED, the UI keeps its new level).
SetSpeed(s) ==
  /\ speedCh' = IF speedCh = <<>> THEN <<s>> ELSE speedCh
  /\ UNCHANGED <<mode, bufVars, simVars, speed, cmdCh, chosen, pubVars, uiVars, view>>

SetAsteroidDataset(d) ==
  /\ chosen' = d
  /\ cmdCh' = IF cmdCh = <<>> THEN <<d>> ELSE cmdCh
  /\ UNCHANGED <<mode, bufVars, simVars, speed, speedCh, pubVars, uiVars, view>>

\* The UI takes the back pointer to read the rate in force, then writes the new
\* rate through it, unlocked.
GetBack ==
  /\ ui = "idle" /\ pc \notin {"created", "tuned"}
  /\ ui' = "holding"
  /\ held' = back
  /\ UNCHANGED <<mode, bufVars, simVars, chanVars, pubVars, view>>

WriteRate(r) ==
  /\ ui = "holding"
  /\ ui' = "idle"
  /\ bufs' = [bufs EXCEPT ![held].rate = r]
  /\ held' = Garbage
  /\ UNCHANGED <<mode, front, back, inPlace, owner, history, simVars, chanVars, pubVars, view>>

\* SetWorkerCount: performance mode calls it once before the loop starts, the
\* settings command while it runs.
SetWorkerCount(n) ==
  /\ ui = "idle"
  /\ pc = "created" \/ (pc # "tuned" /\ LiveRetune[mode])
  /\ ui' = "swapping"
  /\ bufs' = [bufs EXCEPT ![back].workers = n]
  /\ UNCHANGED <<mode, front, back, inPlace, owner, history, simVars, chanVars, pubVars,
                 held, view>>

RetuneSwap ==
  /\ ui = "swapping"
  /\ Swap
  /\ ui' = "idle"
  /\ pc' = IF pc = "created" THEN "tuned" ELSE pc
  /\ UNCHANGED <<mode, acc, cmd, team, pending, chanVars, pubVars, view>>

\* The in-place swap setting of the performance panel.
SetInPlaceSwap(on) ==
  /\ ui = "idle" /\ CanToggle[mode] /\ pc \notin {"created", "tuned"}
  /\ inPlace # on
  /\ inPlace' = on
  /\ UNCHANGED <<mode, bufs, front, back, owner, history, simVars, chanVars, pubVars,
                 uiVars, view>>

-----------------------------------------------------------------------------
Loop ==
  \/ Start \/ Tick \/ NextStep \/ GrowFront \/ ShowFront \/ StepsDone
  \/ Begin \/ FollowParents \/ GravityStep \/ RingStep \/ PublishStep
  \/ Hook \/ StoreSnapshot

Work == \E i \in pending : RootWorker(i) \/ KidWorker(i)

Clients ==
  \/ \E r \in Readers : LockFront(r) \/ UnlockFront(r)
  \/ \E on \in BOOLEAN : SetInPlaceSwap(on)
  \/ \E s \in Speeds : SetSpeed(s)
  \/ \E d \in Datasets : SetAsteroidDataset(d)
  \/ GetBack \/ \E r \in Rates : WriteRate(r)
  \/ \E n \in Teams : SetWorkerCount(n)
  \/ RetuneSwap

Next == Loop \/ Work \/ Stop \/ Clients

\* The Go scheduler runs every runnable goroutine, the ticker keeps firing, and
\* a reader that took the lock releases it.
Fairness ==
  /\ WF_vars(Loop) /\ WF_vars(Work) /\ WF_vars(RetuneSwap)
  /\ \A r \in Readers : WF_vars(UnlockFront(r))

Spec == Init /\ [][Next]_vars /\ Fairness

-----------------------------------------------------------------------------
(* Properties.                                                             *)

Stages == {"created", "tuned", "wait", "loop", "grow", "show", "begin", "roots", "kids",
           "gravity", "rings", "swap", "hook", "store", "done"}

\* The types; each channel holds at most the one value its capacity allows.
TypeOK ==
  /\ mode \in Modes
  /\ bufs \in [BufId -> Buffer]
  /\ front \in {1, 2} /\ back \in {1, 2} /\ owner \in BufId
  /\ inPlace \in BOOLEAN
  /\ pc \in Stages /\ acc \in Nat /\ cmd \in Datasets
  /\ mine \in BufId /\ team \in Teams /\ pending \subseteq Nat
  /\ speed \in Speeds /\ chosen \in Datasets
  /\ speedCh \in {<<>>} \union {<<s>> : s \in Speeds}
  /\ cmdCh \in {<<>>} \union {<<d>> : d \in Datasets}
  /\ snap \in Views \union {NoView} /\ store \in Views \union {NoView}
  /\ view \in [Readers -> Views \union {NoView}]
  /\ ui \in {"idle", "holding", "swapping"} /\ held \in BufId
  /\ exchanged \in BOOLEAN /\ cloned \in BOOLEAN

\* What a kid is centred on after a step: the parent's new position, or, for a
\* parent that moves in the same phase as its kid, the one before the step.
CentredOn(b, k) ==
  LET p == ParentOf[k] IN
  CASE p = 0 -> b.center[k] = 0
    [] p \in 1 .. NumRoots -> b.center[k] = b.anomaly[p]
    [] OTHER -> b.center[k] + b.delta = b.anomaly[p]

\* A state in which one physics step has been applied to everything: every body
\* has been advanced as far as the clock, and every kid's orbit is centred on
\* the parent of that step.  (In N-body mode only rings follow a centre.)
Whole(b) ==
  /\ \A o \in Bodies : b.anomaly[o] = b.time
  /\ mode # "nbody" => \A k \in Kids : CentredOn(b, k)

\* Renderers and RPC handlers only ever see whole steps: no interleaving of the
\* worker goroutines, the swap and the dataset change shows through the front
\* buffer (update, Swap, applyFn).
FrontIsWholeStep == Whole(bufs[front])

\* While a goroutine is between LockFront and UnlockFront the front buffer is the
\* one it locked and keeps the contents it had (DoubleBuffer's contract).
ReadersUndisturbed ==
  \A r \in Readers : view[r] # NoView => view[r] = View(bufs[front])

\* SwapInPlace copies by index, so both buffers must hold the same belt objects
\* at every swap: whatever allocates them has mirrored them by then (applyFn).
SameObjects == pc # "grow" => bufs[front].belts = bufs[back].belts

\* The snapshot clients load without a lock is a whole step that was published,
\* never one ahead of the front buffer (post-tick hook, LatestSnapshot).
StoreIsPast ==
  \A s \in {snap, store} : s # NoView => Whole(s) /\ s.time <= bufs[front].time

\* A swap never undoes the user's time rate: the rate the next step will use
\* changes only when the UI writes one (savedSPS in SwapInPlace).
RateKept == [][bufs'[back'].rate # bufs[back].rate => ui = "holding"]_vars

\* Seen through the front buffer the process is a sequential world.
World == INSTANCE OrbitalWorld WITH world <- View(bufs[front])
ImplementsWorld == World!Spec

\* A step that has started is published: neither the workers' barrier nor the
\* write lock waits for ever (update, LockFront/UnlockFront).
StepIsPublished == (pc = "begin") ~> (pc \in {"wait", "done"})

\* A queued command is taken by the loop unless the simulation is paused or
\* stopped (Start drains cmdCh only inside a step).
CommandTaken == (cmdCh # <<>>) ~> (cmdCh = <<>> \/ speed = 0 \/ pc = "done")

\* An N-body step integrates the participants, which is to say works on the buffer that
\* SystemSet points into, exactly when the swaps made under the in-place setting (the
\* panel's, or the one applyFn leaves on when it has allocated belt objects) have put the
\* pointers back where loading had them, and no clone swap came in between: that one
\* throws the SystemSet away with the front buffer, and no later setting brings it back.
\* Nothing else parts a step from its participants (StepGravSet, SwapInPlace, Swap).
StepIntegrates ==
  [][pc = "begin" /\ pc' = "gravity" => (mine' = owner <=> ~exchanged /\ ~cloned)]_vars

\* What NewSimulation says of N-body mode: "the back buffer pointer stays stable", so
\* every step finds its participants.
PointerStable == pc = "gravity" => mine = owner

\* The level the clients were last told is queued is the one that comes to be
\* shown, when they ask for no other and the loop runs on (SetDataset's ack).
ChosenIsShown ==
  \A d \in Datasets :
    <>[](chosen = d /\ speed # 0 /\ pc # "done") => <>(bufs[front].dataset = d)

=============================================================================
