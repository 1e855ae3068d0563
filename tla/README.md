# Space Sim: specifications, model checking and proofs

TLA+ modules for the simulation core of Space Sim, its server side, what it keeps on
disk, the connection between server and renderer and the interactive client; the TLC
configurations that check them on small instances; and proofs, checked by the TLA+
proof system, that hold for every value of the constants. Paths below are relative to
`src/internal/` unless they start with `cmd/` or `api/`.

## 1. The system

| part | state it keeps | operations | talks to |
|---|---|---|---|
| simulation engine (`sim/engine/physics.go`) | accumulated time, speed, two one-slot channels, stop channel | `Start` (loop), `update`, `SetSpeed`, `SetAsteroidDataset`, `SetWorkerCount`, `Stop` | double buffer, worker goroutines, `applyCommand` and `postTickHook` callbacks |
| double buffer (`sim/engine/state.go`, `pool.go`) | front and back `SimulationState`, `useInPlaceSwap`, an RWMutex, an object pool | `LockFront`/`UnlockFront`, `GetBack`, `Swap`, `SwapInPlace`, `CloneWithPool`, `LockFrontWrite` | everybody |
| world (`sim/world/world.go`) | snapshot store, snapshot gate, belt configurations | the dataset command (`applyFn`), the post-tick hook, `Snapshot`, `LatestSnapshot` | engine, broadcaster, streams |
| gravity (`sim/engine/gravityset.go`) | raw pointers to the bodies of one buffer | `BuildSystemSet`, `StepGravSet` | engine |
| loader and belts (`sim/*.go`, `sim/decompose`) | none (reads files) | load a system, allocate a dataset's belt objects | world |
| event queue (`server/eventqueue`) | a bounded FIFO per GUID, a round-robin index, metrics; transactions | `Enqueue`, `Dequeue*`, `Execute` (none, best effort, rollback) | runtime |
| event loop (`server/eventloop`) | running flag, stop and done channels, workers | `Start`, `Stop`, frames (events, routines, physics), worker pool | queue, runtime, definitions |
| runtime (`server/runtime`) | object states, cached group aggregates | initialise, update, remove; `GetGroupState` | group pool |
| group pool (`server/pool/group`) | objects, groups, membership index, locks | create, delete, add/remove member, lock | runtime |
| session registry (`server/session`) | sessions, colours in use, subscriber channels | register, unregister, update, subscribe, notify | transport |
| persistence (`persist`) | autosave slot, JSON-lines event log, files | receive, save, append, replay | broadcaster |
| broadcaster (`protocol`) | subscriber list | register, unregister, push | world handler, autosave |
| transport (`transport/grpc`) | streams, connection limit | one handler per RPC | all of the above |
| raylib client (`client/go/raylib`) | window, camera, dialogs, the running session (world and system), a command channel | renders snapshots; takes commands of RPCs, scripts and keys once a frame; writes rate, dataset, worker count and swap setting straight into the engine; replaces session and world | engine, world, camera/navigation/system handlers |
| scripts and REPL (`client/script`, `client/repl`) | the line a script is at | parse commands; a goroutine per script feeds the client's command channel | raylib client |
| headless server, remote renderer (`cmd/space-sim-server`, `cmd/space-sim`) | idle watcher; backoff, metadata of the remote system | push snapshots, end when all clients have left; reconnect, refresh metadata | world, transport |

### What is hard here

- One goroutine steps the world with a team of workers; renderers and RPC
  handlers read the other buffer under a read lock; the UI goroutine writes the
  rate into whatever buffer `GetBack` returned, without a lock; a settings
  command can swap the buffers from that goroutine.
- There are two ways to swap. The in-place one exchanges the pointers and copies
  object by object, by index, so it needs both buffers to hold the same objects;
  the clone one leaves the back pointer alone and throws the front away, which
  the N-body integrator needs because it holds raw pointers.
- Commands pass through one-slot channels that drop when full, and are received
  only inside a physics step.
- The server has the usual ones: metrics in other critical sections than the
  data, events of one GUID applied by two workers, rollbacks without isolation,
  caches filled while what they are computed from changes, notifications sent
  after the lock is released, a log whose last line may be torn.
- Server and renderer lose each other: streams break on one side before the
  other, a client backs off while the server counts how long it has been gone,
  and the server that comes back may run another system.
- The client's loop is steered by three kinds of actors through one small
  channel, and replaces, between two frames, the world all of them talk about.

`PROJECT.json` lists every hazard at its line, with the properties that would
catch it.

### What makes each part correct

- Engine and double buffer: whoever reads sees whole physics steps, never one
  half done; what was locked does not change; no swap loses a setting; a step
  that begins is published.
- World: stored snapshots are published steps; the buffers hold the same belt
  objects whenever a swap copies by index.
- Queue, loop, transactions: events of a GUID are applied in order, once (with several
  workers: overtaken only by what is at hand); counts add up; no queue starves; a rollback changes nothing that was not its own.
- Groups: the membership index is the inverse of the member lists, the graph is
  acyclic and bounded in depth, a locked group keeps its members; aggregates
  describe the current members.
- Sessions: no colour stays taken by nobody, and none is on two sessions as long as
  the palette's walk has enough of them; a subscriber's view
  converges to the registry.
- Persistence: what `Append` confirmed is replayed; the saved file is some whole
  snapshot, the last one after `Stop`.
- Server and renderer: time never goes back on the screen; a client that comes
  back in time is not taken for gone; it does come back, with the right metadata.
- Client: one world runs at a time; a tour visits its stops in order and ends; a
  cancelled script falls silent; a query is answered.

## 2. Modules

| module | models |
|---|---|
| `Simulation` | the engine's loop and step, the double buffer, the world's dataset command, hook and store, and every goroutine that touches the buffers |
| `OrbitalWorld` | what that promises: a sequential world that moves in whole steps (no buffers, workers or locks) |
| `MCSimulation` | small instances of `Simulation` for TLC |
| `SimulationProofs` | theorems about `Simulation` |
| `ObjectBuffers` | the objects under the double buffer, by address: clones that share, the pool, snapshots that are kept |
| `MCObjectBuffers` | a small instance of `ObjectBuffers` |
| `ObjectBuffersProofs` | theorems about `ObjectBuffers` |
| `EventQueue` | the queue manager, its producers and whoever takes events from it |
| `Delivery` | what the queue and its one consumer promise: every accepted event once, in order (no queues, locks or counters) |
| `MCEventQueue` | small instances of `EventQueue` |
| `EventQueueProofs` | theorems about `EventQueue` |
| `Groups`, `MCGroups` | the definitions pool of objects and groups, and the runtime environment with its cached aggregates |
| `Runtime`, `MCRuntime` | the frames of the event loop, its start and stop, and transactions beside it |
| `Sessions`, `MCSessions` | the session registry, its subscribers and the session service |
| `EventLog` | the event journal |
| `Autosave` | broadcaster, autosave and the files it writes |
| `Persistence`, `MCPersistence` | journal and autosave under the same crashes |
| `Remote`, `MCRemote` | the headless server, its streams and idle watcher, and the renderers that follow it |
| `Camera` | the camera as a record and the operators that change it |
| `Script` | the script language, variables, slices and loops, as flat lines and as a tree |
| `Client`, `MCClient` | the interactive loop around that camera: commands, scripts, dialogs, system changes |
| `GroupsProofs`, `SessionsProofs`, `PersistenceProofs`, `RuntimeProofs`, `ClientProofs` | theorems about the modules of those names |

### Simulation and the code

| in the model | in the code |
|---|---|
| `bufs`, `front`, `back` | the `SimulationState` objects and `DoubleBuffer`'s two pointers. Buffers 1 and 2 are the live ones; 0 (`Garbage`) stands for a front buffer a clone swap threw away, which a stale pointer may still write |
| `inPlace` | `useInPlaceSwap` |
| `owner` | the buffer whose `SystemSet` points at the gravity participants |
| `exchanged`, `cloned` | history: whether the in-place setting has left the two buffers exchanged, and whether a clone swap has come while they were |
| `pc` | the simulation goroutine: `wait` (select), `loop` (for accumulated time), `grow`/`show` (inside `applyFn`, before each of its two front locks), `begin`, `roots`, `kids` or `gravity`, `rings`, `swap` (inside `update`), `hook`, `store`. `created` and `tuned` come before `Start` |
| `acc`, `speed` | `accumulatedTime` and `speed`, in units of dt / `Quantum` |
| `team`, `pending`, `mine` | the worker count, the unfinished workers and the back pointer `update` read on entry |
| `view` | what a reader saw when it locked the front buffer; a reader holds the lock while its view is set |
| `ui`, `held` | the UI goroutine between fetching a back pointer and writing through it, or inside `SetWorkerCount` before its `Swap` |
| `anomaly`, `center` | per body: for how long it has been advanced, and, for a kid, which parent position `OrbitCenter` holds (the parent's `anomaly` then) |

Each step of the simulation goroutine between two points where another goroutine
could tell the difference is one action: the tick (`Tick`), one iteration's
command (`NextStep`, `GrowFront`, `ShowFront`), the entry of `update` (`Begin`),
each worker (`RootWorker`, `KidWorker`), the sequential part between the phases
(`FollowParents`), the N-body pair (`GravityStep`, `RingStep`), the swap
(`PublishStep`), the hook (`Hook`, `StoreSnapshot`). A worker is one action
because its bodies are its own (lemma `SlicesDisjoint`) and nothing reads them
before `wg.Wait`; the exception would be a swap in the middle, which
`torn_publish` shows already at this grain.

`WriterWaiting` says when a goroutine waits in `mu.Lock()`: Go's RWMutex then
keeps new readers out. `Swap` and the two front writes need `CanLock`: no reader
inside.

Abstractions: positions are durations (all the properties ask is how many steps a body
has made and which parent position it follows); objects that keep their place in the
slices are bodies, and the belt objects of a dataset level are one element of `belts`
per buffer; pointers and the pool are left to `ObjectBuffers`; `GetSpeed`, statistics
and logging are left out; the accumulated time is exact where the code uses floating
point.

### ObjectBuffers and the code

`Simulation` treats a buffer as a value. In the code it is a slice of pointers,
and a clone copies only the named bodies and the visible belt objects: the
others are shared. `ObjectBuffers` has a `heap` of objects (`name` for the
metadata, `age` for the animation state, `visible`, `pooled`), buffers and
snapshots as maps from slots to addresses, and the pool as a set of addresses.

| in the model | in the code |
|---|---|
| `Step` | `update`, which writes the visible objects of the back buffer |
| `SwapInPlace`, `SwapClone` | the two forms of `Swap`; the second copies with `CloneWithPool` and then runs `ReleasePooledObjects` on the old front buffer |
| `ShowBack`, `ShowFront` | `applyFn` up to its last front lock, and under that lock |
| `Snapshot`, `Forget` | `World.Snapshot`, and its holder dropping the result |
| `SetInPlaceSwap` | the setting of the performance panel |
| `Purge`, `Fresh`, `Swept` | `sync.Pool` and the garbage collector: the pool may be emptied at any time, and an address nothing refers to can be handed out again |

The allocator takes the least free address, which loses nothing as addresses are
only compared for equality; which pooled objects a clone reuses, if any, is free.
The swap and the clone hold the front lock, so each is one action. The allocation
of a level and its mirror are one action because until the mirror nothing outside
the simulation goroutine reads what it writes.

### EventQueue and the code

| in the model | in the code |
|---|---|
| `queues`, `queueIDs`, `rrIndex`, `metrics` | the fields of `QueueManager`; an event is its number among those accepted for its GUID |
| `scan` | the manager's mutex inside `DequeueNext`: who holds it, and the offset of the loop |
| `Route`, `Put` or `Refuse`, `CountEnqueued` or `CountRejected` | the critical sections of `Enqueue`: manager, queue, manager |
| `Acquire`, `Skip`, `Found` | `DequeueNext`: the lock, an iteration that finds the queue empty (the last answers `ErrNoEvents`), one that finds an event |
| `Apply` | the transaction executed on the runtime, by the frame (`processEvents`) or by a worker (`processEvent`) |
| `LookUp`, `Take` or `TakeNothing`, `CountTaken` | the critical sections of `Dequeue` and `DequeueAllForGUID` |
| `sent`, `applied`, `gone`, `passed`, `excused` | history, for the properties only |

An iteration of the scan is one action of its own, because producers do not need
the manager's mutex to fill a queue: one that was found empty can be full before
the scan ends. What an event does to the runtime is not modelled, only that it is
executed; `ActiveQueues` is computed when it is read; `Peek`, `Len` and `Full`
change nothing.

### Groups and the code

| in the model | in the code |
|---|---|
| `members`, `parent`, `locked` | `GroupDefinition`'s `Members`, `ParentID` and `Locked` |
| `memberToGroups`, `edges` | the pool's reverse index and its DAG, kept in step with the member lists by hand |
| `CreateGroup`, `AddGroupMember`, `RemoveGroupMember`, `DeleteGroup`, `DeleteObject`, the locks | the pool's operations, each one critical section; one that returns an error changes nothing and is left out |
| `WouldCreateCycle`, `WouldExceedHierarchyDepth` | the checks of the same names: the first walks the DAG, the second the index upwards and the member lists downwards. `After`, `From` and `Longest` are those walks, taken for all paths at once: what a number of steps leads to, what any number does, and how many steps there are |
| `value`, `cache` | the environment's object states and `GroupState`s; `Invalid` is one whose `CachedValid` is false |
| `op` | the operation that holds the environment's mutex: an invalidation's queue and visited set, or the stack of `computeGroupStateLocked` |
| `InvalidateNext`, `ComputeMember`, `ComputeDone` | one call of the pool each, as the pool may change between two |
| `regrouped` | history: aggregates that a change of membership has overtaken, which the environment is never told |

Of a state one coordinate is kept, of an aggregate the count and the sum (centre
times count); bounds and velocity follow the same rules.

### Runtime and the code

| in the model | in the code |
|---|---|
| `Begin`, `Save`, `Apply`, `Place`, `RestoreLook`, `RestoreRemove`, `RestoreCreate`, `RestoreWrite` | `TransactionContext.Execute`, `applyEvent`, the snapshots it takes and `restoreSnapshots`: one action per call of the environment |
| `AfterError` | what the three modes do with an error |
| `DrainOne`, `EventsDone` | `processEvents`: one dequeued event is a transaction with it alone |
| `LookUp`, `Copy`, `WriteBack` | `processRoutines`: `stateToPoolObject`, the routines, `poolObjectToState` |
| `Float32` | the conversion of a position to `float32` in the first of these, back in the last: a constant function, of which only is assumed that a rounded position stays |
| `Integrate`, `FrameDone` | `processPhysics` |
| `Start`, `Tick`, `Exit`, `StopClose`, `StopReturn`, `Cancel` | `EventLoop.Start`, `run`'s select and `Stop` |
| `pending` | the queue manager, as `Delivery` describes it |
| `disturbed`, `before` | history: whether somebody else wrote a transaction's objects while it ran, and what they were |

A state is a position, a velocity and the phase the scale routine keeps; rotation
and scale follow the position's rules on other coordinates. The rounding is not
harmless: an object with a routine is rounded in every frame, so that a step of
physics smaller than the distance of two `float32` numbers at its position is
undone each time, and the object never moves however long it runs. In the instances
every other position is such a number.

### Sessions and the code

| in the model | in the code |
|---|---|
| `sessions`, `colors`, `subs` | the registry's maps, its palette bits and its subscriber list |
| `Register`, `Unregister`, `Update` | the registry's operations up to the release of the mutex |
| `CheckAdmin`, then `Kick` or `Teleport` | `requireAdmin` and what follows it without a lock |
| `CopySubs`, `Send` | `notify`: a copy of the list, then a non-blocking send to each; a closed channel panics and ends the call |
| `Subscribe`, `SendAll`, `Deliver`, `Cancel`, `Close` | `SessionStream` and the cancel function of its subscription |
| `Visited` | the colours that the walk of `allocColor` comes to |
| `view`, `missed`, `tangled` | history: what a follower was told, whether an event did not reach it, and sessions that two calls announced at once |
| `crowded` | history: whether there have been more sessions at once than `Visited` colours |

### EventLog, Autosave, Persistence and the code

| in the model | in the code |
|---|---|
| `file`, `synced` | the journal as chunks (a whole line, one without its newline, a piece), and how much of it is on the disk for certain |
| `Flush` or `FlushFails`, `Sync` or `SyncFails` | `Append`; a failed buffered writer repeats its error (`Refuse`) until the log is opened again |
| `Decodes`, `Picked`, `Replayed` | `Replay`: a line that is not exactly one event is skipped, the others are handed over in their order |
| `Push`, `Drain`, `Send` | `Broadcaster.Push` with a copy of its list, and `Receive` |
| `Take`, `WriteTemp`, `SyncTemp`, `Rename`, `SaveFails` | the autosave's goroutine and `atomicWrite` |
| `Settle`, `SaveCrash`, `LogCrash` | the directory reaching the disk, and a crash: alone, or with the power and what it takes along |
| `Unregister`, `Stop`, `StopReturn` | the owner ending the autosave |

### Remote and the code

| in the model | in the code |
|---|---|
| `Tick`, `Hook`, `stored` | the simulation's tick and the post-tick hook behind the snapshot gate (`world.go`) |
| `Push`, `Clone`, `Receive` | the server's push goroutine, `LatestSnapshot` with its fallback and `WorldHandler.Receive` |
| `channel`, `dead`, `Notice` | a stream's channel, and handlers that have not noticed that their client is gone |
| `Period`, `Poll` | `watchIdle`; all timers count its polls |
| `Command`, `Exit`, `Restart` | shutdown, the end of the process, and another server at the same address |
| `Connect`, `ConnectFails`, `Break`, `LoseServer`, `Retry`, `BackOff` | the renderer's streaming goroutine and its backoff |
| `Deliver`, `Check`, `Fetch` | the snapshot that arrives, its nudge, and `watchForContentChange` |

### Client, Camera, Script and the code

| in the model | in the code |
|---|---|
| `at` | where `runInteractive` is in its frame: `drain`, `keys`, `camera`, `reload`, `stop`, `start`, and `exit` for the deferred function |
| `cmdCh`, `Send`, `From`, `GiveUp` | `SendCmd` (never blocks) and the handlers that wait for an answer through a channel of their own |
| `Drain` | `drainCmds`, one command at a time, as handlers refill the channel meanwhile |
| `Track`, `JumpTo`, `Orbit`, `LoadSystem`, `Answer` | the cases of `applyCmd`; `ScriptLine` those of a script's line |
| `HandleInput` | `handleInput` and the selection dialogs, one key a frame |
| `cam`, `Tick` | `CameraState` and its update; `Camera` has `StartJumpTo`, `StartTracking`, `TickJump`, `TickTracking` |
| `Reload`, `StopOld`, `StartNew` | `reloadSession` and the replacement of session, camera and input state |
| `runner`, `StartLine`, `SendLine`, `Pause` | the goroutine of a script, with its second try 16 ms later |
| `ScriptBodies` | `scriptBodiesFromSnapshot`, the bodies of a group when a script starts |
| `Unrolled`, `Expand` | what `runScript` reads before its first line; `expandLines` and `unrollLoop`; `Sliced` is `ApplyForSlice`, `EndOfBody` is `collectBodyLines`, `ExpandVars` bears its name |
| `Text`, `Meaning` | none: a script as a tree, its lines, and what the tree stands for, the reference for `Expand` |
| `asked`, `seen`, `lines`, `means` | history: the stops of the last tour, those landed on, the script lines sent, and what a script means |

A flight, a dwell and an orbit are numbers of frames, a body its index in the
snapshot. Commands for window, HUD, performance and key bindings change nothing
of this state and are left out with drawing and recording.

## 3. Runs

| run | asks | distinct states |
|---|---|---|
| `simulation` | everything about steps, readers, the hook and the rate, in both modes | 380 224 |
| `commands` | speed and dataset commands, belts, the swap setting, in both modes | 1 006 362 |
| `objects` | sharing of objects between buffers, pool and a snapshot | 308 592 |
| `queue` | counters, round robin, `ErrNoEvents` and order, with two workers and a caller of `Dequeue` | 750 617 |
| `delivery` | the consumer alone keeps the promise of `Delivery`, liveness included | 56 507 |
| `groups` | index, hierarchy and locks of the pool; aggregates while the pool changes | 247 795 |
| `transactions` | frames and a caller's transactions writing the same objects | 2 399 996 |
| `eventloop` | start, stop and cancellation with producers at work | 6 075 |
| `sessions` | two callers, an admin, and a follower of the registry, or a crowd | about 1 104 000 (the symmetry reduction leaves some freedom) |
| `persistence` | journal and autosave with failures and two crashes | 1 130 068 |
| `remote` | a server restarted once, a client whose connection breaks twice | 329 485 |
| `client` | a handler, a script and keys steering one loop | 380 666 |

Bounds. `simulation` has a star, a planet and a ring or moon of that planet: the
smallest chain in which a kid follows a body that moves in the same phase, and a
phase of one and a phase of two bodies, so that one and two workers split evenly,
unevenly and with a worker too many. The clock stops at `MaxTime` = 1: time
counts steps, and a step after the horizon is one with a zero rate, which the
code has too (a paused rate), so swaps, workers and readers keep interleaving for
ever while the values stay bounded. One reader is enough for the lock: two
readers exclude a writer no more than one does, and the loss of writer priority
shows with one reader that comes back. Two rates (0 and 1) let a rate be lost.
`commands` has one kid, one worker and two levels, the smallest setting in which
a level's objects are allocated, a second command meets a full slot, and a pause
(speed 0) catches a queued one; `MaxTime` = 2 there leaves two moving steps
around a change. `Quantum` = 2 with speed 2 gives one step per tick. Every system has
belts there and its swap setting may be changed at any time, N-body systems included:
the settings panel asks for neither.

`objects` has a star and one belt object of each of two levels: a body that is
always copied, one object visible at both levels and one that comes and goes.
Nine addresses are what two buffers and one snapshot of three objects need; an
allocation that finds none waits, as for the collector. Both kinds of system are
explored: with belts the swap setting stays (`CanToggle`), without them it is
free; `pool_alias` below is what happens otherwise. `age` has two values,
enough to tell an object that moved from one that did not.

`queue` has three GUIDs, the fewest with which an index that stays put starves
somebody, two producers, so that a queue is created while another producer is
on its way to one, and two workers, the fewest that overtake each other. `Capacity` 2 and `MaxEvents` 4 let a queue fill, refuse an
event and wrap the index. `delivery` drops the caller of `Dequeue`, who takes
events past the consumer, and has five events for two queues.

`groups` has four groups and at most three levels: a chain that is full, with a
group left to attach above or below it. Aggregates are computed over three of
them, enough for one group listed twice below another's reach and for a chain whose
middle has no state. `Bound` keeps the product of the two halves small: the
environment takes part while only tracked groups exist and none is locked, as it
asks for neither. `View` forgets the content of an aggregate that a membership
change has overtaken: it is only ever invalidated or added into one that is
overtaken with it. `pool.cfg` is the pool alone with five groups and a limit of
four (13 891 states, `tlc -config pool.cfg MCGroups`), where the cycle check is
not implied by the depth check; it also checks `TypeOK`.

`transactions` has one caller with rollbacks that fail at their first, second or
last event after a creation, a change and a deletion, one object with a routine
and one without, and a definition that may be deleted. `eventloop` leaves the
callers out: who stops the loop meets frames and producers only.

`sessions` has two callers, the fewest that can announce the same session at
once, a follower's channel of two so that it overflows, and a palette of four
walked in steps of two: the walk sees half of it, as in the code. Up to three of four
sessions are there at a time, one more than the walk has colours for, and one may
come when another of the crowd has left. `Bounded` lets a follower subscribe only
while there have been no more than two, as colours are of no concern to it. `Folded`
forgets what a follower was told after it missed an event or about a tangled
session: the property makes no claim there.

`persistence` has three events, the fewest for a torn line with one before and
one after, two appenders, two snapshots and two crashes: the second crash meets
a file the first has cut. `remote` has one client: what clients share is the
count of streams, which a handler that has not noticed its client's end holds up
as another client would; two breaks let the backoff reach its maximum. One of the
two systems describes all bodies of the other, not the reverse.

`client` has a tour with a pause and a stop without one, an orbit, tracking, a
query, one slot in the channel (so that every sender meets a full one), and two keys
besides the one that quits: one opens a dialog and one chooses in it. Of its two
scripts one has a line that is skipped, the other a pause, a variable and a loop over
a slice, and both end by changing the system. One script runs there; `scripts.cfg`,
which is not in `PROJECT.json`, lets a second one take the place of the first (one
command, four keys, the safety properties only, 8 347 207 states). Before either starts TLC
evaluates `ExpandIsMeaning` in `MCClient`: for every script of a few shapes, with
loops within loops, slices with either end, counts, and variables set in bodies and
used after them, what `Expand` makes of the lines is what `Meaning` makes of the tree.

### What is checked

- `TypeOK`: the types, and at most one value in each channel.
- `FrontIsWholeStep`: each body of the front buffer has been advanced as far as
  its clock, each kid is centred on the parent of that step (for a moon: the
  parent's position one step earlier, since both move in the second phase).
- `ReadersUndisturbed`: between `LockFront` and `UnlockFront` the front buffer
  is the same buffer with the same contents.
- `StoreIsPast`: the stored snapshot is whole and not ahead of the front.
- `StepIntegrates`: an N-body step works on the buffer whose `SystemSet` holds the
  bodies exactly when the in-place swaps since loading have put the pointers back, and
  no clone swap came while they were exchanged (that one throws the `SystemSet` away
  for good). It tells a user of the settings panel what the loop does to the system:
  with the in-place setting on, every other step integrates nothing.
- `SameObjects`: outside the window in which a level is being allocated both
  buffers hold the same belt objects (what `SwapInPlace`'s index copy needs).
- `RateKept`: the rate the next step uses changes only by a write of the UI.
- `ImplementsWorld`: `OrbitalWorld` is implemented with the front buffer as the
  refinement mapping.
- `StepIsPublished`: a step that begins ends, with one swap per step, whatever
  the readers do.
- `CommandTaken`: a queued command is received unless the simulation is paused
  or stopped.

- `BackIsPrivate` (objects): what the simulation writes without a lock is in no
  reader's hands: not in the front buffer, and not among the visible objects of a
  snapshot; and what is in the pool, to be handed out and overwritten at any swap, is
  in no buffer and no snapshot.
- `ShownStays`: the visible objects of a snapshot do not change while it is held.

- `CountsAddUp` (queue): an event that was accepted is pending, taken, or on its way
  to one of the two counters, although data and counters change in different
  critical sections; once every call has returned the peak is the number of queues.
- `NobodyStarves`: while a queue has events, `DequeueNext` serves each other queue
  at most once before it.
- `NoEventsMeansEmpty`: `ErrNoEvents` is the truth about some moment of the call.
- `OvertakenOnlyAtHand`: when a worker has executed an event, all earlier ones of the
  GUID have been executed or taken, or are in another worker's hands; and none is
  executed twice.
- `ImplementsDelivery`: `Delivery` is implemented: each accepted event is executed
  once, eventually, and at most `Capacity` + 1 of a GUID are outstanding.

- `IndexAgrees` (groups): the reverse index is the inverse of the member lists, and
  every member has a definition.
- `HierarchyIsForest`: parents, member lists and DAG describe the same hierarchy,
  without cycles and no deeper than the limit.
- `LockedKeepsMembers`: a locked group gains no member and loses one only when that
  member is deleted.
- `FreshUnlessRegrouped`: a cached aggregate counts exactly the objects below its
  group, with their present values, unless the membership below changed since.

- `UndisturbedIsAtomic` (transactions): a transaction whose objects nobody else wrote
  leaves what its mode promises: everything up to the error, all that can be done,
  or all or nothing.
- `RoutineKeepsTheRest`: a routine's pass moves the phase on by one step, rounds the
  position and does nothing else to it, and leaves the velocity, although it copies the
  state out and back.
- `QuietAfterStop` (eventloop): when `Stop` has returned the loop's goroutine is in no
  frame and changes nothing any more.
- `StopReturns`: it does return, unless producers fill the queue for ever.

- `ColoursAgree` (sessions): no palette bit stays taken by a session that is gone; the
  bits are the sessions' colours, one each, but for colour 0 from the time on that
  there have been more sessions than the walk visits colours.
- `FollowerAgrees`: a follower that missed no event has been told exactly the sessions
  there are and where they are, as soon as nobody is telling anything, except about
  sessions that two calls changed at once.

- `AckedIsReplayed` (persistence): every event whose `Append` returned nil is
  replayed, in that order, except one that shares a line with a torn one.
- `SavedIsWhole`: the saved file is a whole snapshot after any crash.
- `StopSavesLast`: after `Stop` the file shows the last snapshot received, unless
  its save failed.

- `FramesForward` (remote): what a client gets from one server never goes back in time.
- `AwayIsNotGone`: the idle watcher ends no server within the grace period of a
  client that it had seen and that is on its way back.
- `Reconnects`: a client that lost its stream gets one again while there is a server.
- `MetadataCatchesUp`: a client whose metadata do not describe what it is shown gets
  metadata that do, unless its stream fails first.

- `OneWorld` (client): of the worlds built one runs, and it is the one the handlers
  see; none is stopped twice.
- `TourInOrder`: the camera lands on the stops of a tour in order, once each.
- `ScriptInOrder`: the lines a script sends are those that its loops and variables
  mean, in order and none twice, though a full channel may drop some; at most one is
  sent after it was cancelled, and one that ends uncancelled has got to its end.
- `TourEnds`: a tour that nothing else ends reaches its last stop, through pauses,
  skipped pauses and orbits.
- `QueriesAnswered`: a query is answered unless its caller gives up or the loop ends.

### Where code and words differ

Seven configurations check a property that a comment or a document of the
repository states; TLC finds each violated. They are not among the runs of
`PROJECT.json`; `tlc -config X.cfg M` shows the counterexample.

| configuration, module | property | what is said | what happens |
|---|---|---|---|
| `torn_publish`, `MCSimulation` | `FrontIsWholeStep` | "The simulation writes to the back buffer; the renderer reads from the front." (`sim/engine/state.go:186`) | `SetWorkerCount` swaps from its caller's goroutine, and the settings command calls it while the loop runs (`app/interactive.go:543`): `update` works on what has become the front buffer, and a reader sees bodies of two steps. Before `Start` it is harmless, as in the passing runs |
| `nbody_inplace`, `MCSimulation` | `PointerStable` | "N-body systems use Clone-based swap so the back buffer pointer stays stable" (`sim/engine/physics.go:57`) | the settings panel switches in-place swap on without looking at the mode (`app/input_selection.go:264`); the next swap moves the back pointer to the buffer without a `SystemSet`, and that step integrates nothing. In an N-body system with belts a dataset level is enough: `applyFn` leaves the in-place setting on (`sim/world/world.go`) |
| `lost_command`, `MCSimulation` | `ChosenIsShown` | "Command accepted and queued for processing." (`simulation.proto:64`) | `SetAsteroidDataset` drops the command when its slot is full, and the RPC answers `ACK_STATUS_QUEUED` all the same |
| `shared_snapshot`, `MCObjectBuffers` | `SnapshotStays` | "State is a value-cloned snapshot [...] Safe to read after Snapshot() returns." (`protocol/snapshot.go:30`) | the objects that were invisible are shared pointers; the next dataset change makes them appear in the holder's snapshot. Default settings, no race needed |
| `pool_alias`, `MCObjectBuffers` | `PoolIsFree` | "CloneWithPool creates a deep copy of the state using pooled objects for transient front-buffer clones." (`sim/engine/state.go:112`) | in-place swap off, on and off again in a system with belts, a level hidden in between: a pooled clone becomes the back buffer, the next clone shares its hidden objects, and the swap after that gives them back to the pool, zeroed, while both buffers point at them |
| `worker_order`, `MCEventQueue` | `AppliedInOrder` | "Per-GUID ordering holds under concurrent load ✓" (`docs/wip/todo.md:145`) | two workers take the two events of a GUID one after the other and execute them in the other order. The event loop itself does not start the pool and has one consumer, for which order is proved; for a pool it is proved that only events at hand are overtaken |
| `colours`, `MCSessions` | `NoTwoAlike` | "38 is coprime with 100" (`server/session/registry.go:293`), "unreachable" (`:306`) | both are even: the walk sees 50 of the 100 colours, the 51st session gets colour 0 a second time, and when one of the two leaves, the colour of the other counts as free. The default limit is 100 sessions |

(`app/` is `client/go/raylib/app/`, `ui/` is `client/go/raylib/ui/`.)

Some properties have an exception because the code does; each exception is a
behaviour the code's words deny or do not mention:

- a journal entry appended right after a torn line shares that line and is skipped by
  `Replay`, although "callers know the entry is durable" (`persist/eventlog.go:41`);
  an entry above 64 KiB ends the replay;
- a rollback cannot bring back an object whose definition was deleted meanwhile
  (`server/eventqueue/transaction.go:113`), and restores over what others wrote;
- two calls that change one session may announce it in the other order: an update
  that arrives after the removal leaves a ghost in the follower's view;
- an event for a subscriber that has just cancelled panics on the closed channel;
- `Start` after `Stop`, and a second `Stop`, close a closed channel
  (`server/eventloop/loop.go:94`, `worker_pool.go:84`);
- the idle watcher samples: a client that comes and goes between two polls never
  arms it. The default grace of 5 s is shorter than the backoff of a client that
  has failed a few times, which grows to 30 s and is never reset;
- metadata stay what they were when the new system's bodies are all described by the
  old one;
- a client's colour slot is free at once "rather than waiting for a liveness timeout"
  (`cmd/space-sim/main.go:181`), but there is none: the session of a client that
  crashes stays for ever.

In the client:

- `StartJumpTo` "assigns a fresh JumpState so every field is reset by construction"
  (`ui/camera.go:73`), but the queue and both dwell fields stay: a jump by key lands
  and flies on to the stops of the tour it replaced;
- the number after a stop that is no body of the system becomes the dwell of the
  stop before it;
- Escape in any dialog, and opening the system selector, clear the pending and the
  active system path: a `LoadSystem` acknowledged in the same frame is lost, and
  `GetActiveSystem`, which "returns the currently loaded system" (`simulation.proto:195`),
  answers with nothing;
- starting a script in the remote client panics, as `runCtx` is only set by `Run`,
  although `app/input_selection.go:422` says it "works in both local and
  remote-renderer mode";
- "The original mode is restored when recording stops." (`app/app.go:68`) is not so when
  recording is stopped by its key or by a failed write;
- a query whose caller has no deadline waits for ever once the loop has ended;
- `collectBodyLines` looks for headers before variables are replaced
  (`client/script/script.go:358`): `for $n` within a loop is none to it, so that the
  inner `endfor` ends the outer loop. `EndOfBody` has this, and `ExpandIsMeaning` has
  no such script;
- the REPL unrolls loops by itself and not as scripts do: `set` within a loop is an
  unknown command to it, and after a loop over an unknown group the lines of its body
  run as commands of their own (`client/repl/repl.go`).

### Fairness

Weak fairness of the loop's actions, of the workers and of a swap under way (the
Go scheduler runs every runnable goroutine and the ticker keeps firing), and of
`UnlockFront` per reader (a reader that locked the buffer releases it; all
callers in the repository do so without waiting for anything in between). Nothing
is assumed of the UI, of clients or of readers taking the lock. The swap needs no
strong fairness: while a writer waits no new reader enters, so once the readers
inside have left the lock stays free.

`delivery` assumes weak fairness of each consumer (`Consume`): a frame, or a
worker's millisecond ticker, calls `DequeueNext` again and again and finishes what
it holds. The critical sections are short and Go's mutex is fair to whoever waits.
Nothing is assumed of producers; one that stops between `Route` and `Put` delays
nobody.

`eventloop` assumes weak fairness of a frame's steps, of the ticker and of the
return of `Stop`, and strong fairness of `Exit`: Go chooses among the ready cases
of a select at random, so a loop that has been told to stop does not take its
ticker for ever. Nothing is assumed of producers, which is why `StopReturns` has an
exception for them.

`remote` assumes that time passes, that the push goroutine runs, and that a
client's two goroutines go on when they can. Nobody has to open or close a client,
break a connection, or start or end a server. `client` assumes that the render
goroutine takes frames until it ends, and nothing of handlers, scripts and users.

## 4. Proofs

### SimulationProofs

Assumptions: the named assumptions on the constants in `Simulation`, and, for
everything but types and `GravityFindsItsBodies`, `Disciplined`: the worker count is
not changed while the loop runs, and an N-body system neither has belts nor has its
swap setting changed. `torn_publish` shows what happens without the first; the second
is why `simulation` leaves to `commands` the systems that it rules out. Nothing else is
assumed: any number of roots, kids, workers, readers, levels, rates and speeds.

The properties are not inductive. `FrontIsWholeStep` speaks of the front buffer,
but a swap makes the back buffer the front one, and what the back buffer holds in
the middle of a step depends on the phase and on which workers are done. The
inductive invariant `IInv` says exactly that:

- `Shape`: the pointers differ; in N-body mode the owner is the back buffer and
  the swap is by clone; while a step or a dataset change is under way the pointer
  it works through is still the back pointer; only started workers are pending;
- `Rest`: outside a step the buffers agree (but for the level on show);
- `Progress`: inside one, the back buffer is `delta` ahead of the front, each body
  is one step ahead unless `Awaits` it (its phase has not come, or its worker
  is not done), and the centres are the old ones before `FollowParents` and
  those of the abstract step after it;
- `Belts`: the buffers hold the same belt objects except between the allocation
  and its mirror.

The proof has one lemma per action that touches the buffers (`BeginKeeps`,
`WorkKeeps`, `FollowParentsKeeps`, `GravityKeeps`, `RingKeeps`, `PublishKeeps`,
`NextStepKeeps`, `GrowFrontKeeps`, `ShowFrontKeeps`, `RetuneKeeps`,
`SettingKeeps`) and one for the rest (`QuietKeeps`). Each also shows `FrontStep`:
the step leaves the visible front alone or, with no reader inside, makes one step
of the abstract world. From `Invariant` and `FrontStep` follow the named
properties, and the refinement. The slices of the workers come first:
`SlicesCover` and `SlicesDisjoint` are integer arithmetic about the rounded-up
division, and are why every body is advanced exactly once per step.

`GravityFindsItsBodies` is about all systems and settings, so it cannot use `IInv`. It
rests on `Whereabouts`, which says from the history of the swaps alone where the
`SystemSet` is: in the front buffer while the buffers are exchanged, in none after a
clone swap at such a time, and in the back buffer otherwise. Only a swap moves the
pointers (`OnlySwapsMove`), whichever goroutine makes it.

| theorem | property |
|---|---|
| `TypeCorrect` | `TypeOK` (without `Disciplined`) |
| `FrontAlwaysWhole` | `FrontIsWholeStep` |
| `ReadersAreSafe` | `ReadersUndisturbed` |
| `SnapshotsArePast` | `StoreIsPast` |
| `ObjectsMatch` | `SameObjects` |
| `RateIsKept` | `RateKept` |
| `GravityFindsItsBodies` | `StepIntegrates` (without `Disciplined`) |
| `RefinesWorld` | `ImplementsWorld` |

Only model-checked: `StepIsPublished` and `CommandTaken` (liveness under fairness
is beyond this prover) and `ChosenIsShown`.

### ObjectBuffersProofs

Assumptions: the named ones of `ObjectBuffers`, among them that the heap has two
addresses for each slot, and in each statement `Disciplined`: where a system has belts
the swap setting stays. `pool_alias` shows what happens otherwise. Slots, levels,
holders and the size of the heap are arbitrary, which the run cannot vary: sharing
depends on how many objects are hidden at once and on who still holds what.

That the front and the back buffer share nothing is not inductive, for the clone makes
one of the other. `OInv` adds `Labelled` (an object stays in its slot, and both buffers
fill the same slots), `Kinds` (a system with belts always swaps in place and its pool
stays empty; one without belts has named bodies only, and shares none with a snapshot)
and `Copies` (the visible objects of a snapshot were copied for it alone, so no buffer
refers to them). The three properties are conjuncts of it or follow at once. Before the
actions come the lemmas about the allocator: `LeastCount` and `Placement` say that as
many least addresses can be had as are free, and that each object gets one of its own,
and `Allocation` that those are fresh.

| theorem | property |
|---|---|
| `TypeCorrect` | `TypeOK` |
| `BackStaysPrivate` | `BackIsPrivate` |
| `ShownIsKept` | `ShownStays` |

### EventQueueProofs

Assumptions: the named assumptions on the constants of `EventQueue`.
`OneConsumerKeepsOrder` and `QueueKeepsPromise` have one more, written in their
statements: one consumer (`OneWorker`), and for the promise no callers of `Dequeue` (`Takers = {}`), which
is how the event loop uses the manager. The number of objects, producers and
events and the capacity are arbitrary.

`NobodyStarves` is not inductive: that a queue has been passed over fewer times
than there are queues says nothing about the next time. What is inductive is
`Fair`: a queue that comes `i`-th in the next scan has been passed over at most
`L - 1 - i` times, of `L` queues, and not at all if the scan under way has already
found it empty. When a queue is served everyone behind it moves up by at least one
(`Rotates`, the arithmetic of the index, in `FoundKeeps`), and a new queue lengthens
the list by as much as it can set anyone back (`RouteKeeps`). `Ahead` does the same
for `ErrNoEvents`: unless excused, a scan has an event still ahead of it. `QInv` is
these with the types, `Listed` and `Within`; `QNext` is its inductive step.

For order, a queue holds the last events accepted, consecutively (`Newest`), and
the event at hand lies between the last one executed and those in the queue
(`HandBetween`). `NothingLost` counts them, and gives the steps of `Delivery`. With more
workers there is no such order. What is left is `Accounted`: every event that has left
its queue has been executed or taken (`gone`) or is in exactly one hand, so an event
that a worker finishes can have overtaken nothing else (`WorkersOvertakeOnlyAtHand`).

For the metrics, `CInv` adds three parts to `QInv`. `Balanced` is the sum of
`CountsAddUp`; `TakersReturn` says that a caller of `Dequeue` which is not about to
count has taken nothing, so that what it takes next is what it counts. The peak is
raised by a producer that has already put its event, in a later critical section than
the one that made the queue. `PeakFollows` says who owes it: while the peak is behind
the number of queues there is a producer that will raise it, as its event is in or its
queue is still empty, so that it cannot be refused. Sums over a set are taken one
element at a time in an order that is not specified, so a first part of the module
shows that they have the arithmetic one expects: `AdditionsExist` (there is a function
that adds up the subsets of a finite set), `AdditionsAgree` (such functions agree),
`TotalRecursive` and `TotalMoves` (changing one entry moves the total by the
difference).

| theorem | property |
|---|---|
| `TypeCorrect` | `TypeOK` |
| `RoundRobin` | `NobodyStarves` |
| `ErrNoEventsIsRight` | `NoEventsMeansEmpty` |
| `MetricsAddUp` | `CountsAddUp` |
| `WorkersOvertakeOnlyAtHand` | `OvertakenOnlyAtHand` |
| `OneConsumerKeepsOrder` | `AppliedInOrder` (with one worker; `worker_order` shows it fail with two) |
| `QueueKeepsPromise` | the safety part of `ImplementsDelivery` |

Only model-checked: that every event is executed eventually.

### GroupsProofs

Assumptions: the named ones of `Groups`: objects and groups are finitely many and have
different names, and the depth limit is at least 1. Their number, the limit and the
coordinates are arbitrary.

*The tables.* The invariant `GInv` is the two statements about the pool, `IndexAgrees`
and `OneHierarchy`, with the types and `UndefinedIsEmpty`: a group without a
definition has no members and no parent. Without the last a name created again
would bring an old list back, which the index does not have. There is one lemma
for each thing that is done to the four structures: `LinkKeeps` (shared by the
creation below a parent and both forms of `AddGroupMember`), `RemovalKeeps` and
`DeletionKeeps`. In each the heart is `memberToGroups' = Listing'`, id by id.
`LockKept` goes through the same steps for a locked group.

*The forest.* `HInv` adds `Acyclic` and `Shallow`: no walk downwards has as many steps
as a path may have groups. A walk is a function on an interval, so walks can be cut and
joined (`WalksLead`, `WalksCount`), and what the checks of the code compute is put in
terms of them: `AfterFacts`, `FromIsClosed` and `FromIsLeast` (the closure is reached
after as many rounds as there are groups, which `GrowthEnds` shows by counting). The
case that matters is `NewChildStaysForest`. `AddGroupMember` looks above the parent and
below the child, and a new walk is one from above, the new edge, and one from below:
it is too long only if the check has said so, and it comes back only if
`WouldCreateCycle` has found the parent below the child.

*The aggregates.* An aggregate is computed in many steps, during which the pool changes
and the definitions seen are out of date; an invalidation goes up the groups while they
are regrouped. `EInv` says what holds in the middle. `Sound`: an aggregate that
no change of membership has overtaken is what would be computed from its members and
their aggregates now, none of them overtaken either. `SoundOrNext`: every such aggregate
is sound, or an invalidation is under way and has one of its members in its queue.
`VisitedIsInvalid` says why an invalidation need not visit a group again,
`ComputedAgrees` that a group on the stack of a computation is there once, has no
aggregate yet, and is computed from the members it has unless they were changed.
`SoundIsTrue` then goes from sound to true: level by level, as the groups are a forest,
the objects below a group are those of its members without overlap (`BelowSplits`), and
so are the sums (`SumBelow`, on top of `SumOfTwo` and `SumOfFamily`).

| theorem | property |
|---|---|
| `TypeCorrect` | `TypeOK` |
| `IndexIsInverse` | `IndexAgrees` |
| `HierarchyIsOne` | `OneHierarchy`, the first half of `HierarchyIsForest` |
| `GroupsAreForest` | `HierarchyIsForest` |
| `LocksHold` | `LockedKeepsMembers` |
| `EnvironmentInvariant` | `EInv` |
| `AggregatesAreFresh` | `FreshUnlessRegrouped` |

### SessionsProofs

Assumptions: the named ones of `Sessions`. The palette, the stride and the limit are
arbitrary, the code's included, of whose 100 colours the walk visits 50.

The invariant `CInv` adds a count to `ColoursAgree`: as long as there was no crowd there
are as many bits as sessions. A new session then finds fewer of them than the walk
visits colours, or there is a crowd now; in the first case some visited colour is free
(`AllocIsFree`, from `FS_Subset` and cardinalities of the library), and the first such
exists (`Least`, from the well-foundedness of `<`). In the second it gets a free colour
or colour 0 (`AllocIsColor`), and that the exception stays at colour 0 is what has to be
shown of every removal: the bit it clears may be another session's colour only if that
is 0.

`FollowerAgrees` speaks only of moments when nobody is telling anything. What holds
between is `InStep`: for a session that no two calls have announced at once, and a
follower that has missed nothing, either a call still has to tell the follower
(`StillToTell`), or the follower agrees once it has read its channel (`Follows`: the
last event about the session in the channel is of where it is now, or there is none
and the view is). It rests on there being one call that announces it (`OneTells`),
that what it announces is still so (`TellsWhatIs`), and that a follower who listens is
on the list (`ListAgrees`). A follower that subscribes in the middle of an
announcement gets the snapshot after the event, or the event after the snapshot; both
leave it in step. Any number of sessions, callers and followers, and channels of any
length.

| theorem | property |
|---|---|
| `ColoursClashOnlyAtZero` | `ColoursAgree` |
| `FollowersAgree` | `FollowerAgrees` |

### PersistenceProofs

Assumptions: the named ones of `Persistence` and the modules it extends; any number
of snapshots, events, appenders, failures and crashes.

*The saved file.* The invariant `SInv` has two parts that are
more than types. `Whole`: what is about to be renamed is synced, and what is under
the final name, in memory or on the disk, always was; without it a crash that
takes the directory's last state along could not be shown harmless. `Somewhere`:
the last snapshot received is in the slot, with the writer, or in the file, unless
its save failed; a `Push` in the middle of `Receive` may have taken it out. With
`Ended`, that a stopped autosave has an empty slot and a resting writer, this
leaves only the file. One lemma each for the source, the writer and the owner.

*The journal.* `JInv` says that what is acknowledged is in the synced part of the file,
whole, in the order of the acknowledgements (`Acknowledged`), that no event is in the
file twice nor before its append (`Once`), and that whoever holds the mutex over a write
has its line at the end (`Held`), so that a sync acknowledges the last event of all. It
is preserved because a crash cuts nothing off that is synced. From there to
`AckedIsReplayed` no step of the system is left, only what `Replay` makes of a file: it
picks the chunks that decode, in order, and so does the property from the
acknowledgements. `Picking` and `PickingExists` say that such a selection is the one
enumeration of its positions in increasing order, `EnumerationExists` and `Places` that
acknowledgements map to positions in the same order, and `WholeDecodes` that a whole
line decodes but where the property makes its exception.

| theorem | property |
|---|---|
| `FileIsWhole` | `SavedIsWhole` |
| `LastIsSaved` | `StopSavesLast` |
| `AcknowledgedIsReplayed` | `AckedIsReplayed` |

### RuntimeProofs

Assumptions: the named ones of `Runtime`; any objects, states, callers, events and
lengths of transactions. The invariant `LInv` has the loop's
channel in the middle: only its goroutine closes it, as its last act, and `Stop`
does not return before. What has to be shown of every other step, the frame's
included, is that it does not bring an ended goroutine back.

`UndisturbedIsAtomic` compares two moments: when a transaction ends, with what its
events make of the states it began with. `OnCourse` says the same of every moment
between, as long as nobody has written its objects and all of them have definitions.
`Snapshots`: what was kept is what the transaction began with, a rollback that is past
its snapshots has all of them, and while it restores only the objects still to do
differ. `Follows`: before the i-th event the states are what the first i - 1 events
made, between the two calls of a creation the new object is there as it is born, in a
mode that stops at an error none of the events before was refused, and a transaction
that restores has met one. A run of events (`IsRun`) is a function from their number
to states, and the invariant speaks of all of them, so that no step has to know that
there is one. Only at the end does `RunExists` give it, and `ReachIsRun` that it is
the `Reach` of the property. Every action has a lemma for its own transaction
(`...Goes`), and `OthersStayOnCourse` says once that the others do not notice: a write
either disturbs them or touches none of their objects.

`RoutineInv` does the same for a frame: the copy in its hands is of the state there is,
unless disturbed. The phase's arithmetic (`NextPhaseTyped`: one step on, below a turn)
gives `RoutineKeepsTheRest`.

| theorem | property |
|---|---|
| `TypeCorrect` | `TypeOK` |
| `StopMeansStopped` | `QuietAfterStop` |
| `TransactionsKeepTheirWord` | `UndisturbedIsAtomic` |
| `RoutinesOnlyTurn` | `RoutineKeepsTheRest` |

### ClientProofs

Assumptions: the named ones of `Client`, `Camera` and `Script`. Systems, bodies,
commands, scripts, senders, the channel and the lengths of flights, dwells and orbits
are arbitrary.

*Worlds.* The invariant `WInv` numbers the worlds as they are built: the
session's is the last one, all before it have been stopped once, and the last has
been stopped only between the two halves of a reload and after the loop. Commands,
dialogs, scripts and the camera cannot touch any of this (`QuietKeepsWorlds`).

*Tours.* `TourInOrder` says that the stops landed on are a beginning of those asked
for. `TInv` says which: together with those still `Due` (the flight under way, then
the queue) they are exactly the tour. Whatever else steers the camera ends the claim,
until the next `JumpTo`, and an orbit asked for on the way does not. What can be in
the channel is said by `RInv`.

*Scripts.* `LInv` says of each line sent that it is the one at its place in its script
(`InPlace`), that places grow, that after a line sent too late there is no other
(`Final`), and that a script which ends uncancelled has got past its last line. This is
about the goroutine, for any text; `SentInOrder` is the part of it that a reader would
ask for. Whether the unrolled lines are what the script means is another question, which
the code does not answer with yes for all scripts (`EndOfBody`, above): `ScriptInOrder`
asks it, for the scripts of the runs.

| theorem | property |
|---|---|
| `OneWorldAtATime` | `OneWorld` |
| `ToursInOrder` | `TourInOrder` |
| `LinesInOrder` | `SentInOrder` (`ScriptInOrder` about the unrolled lines) |
| `RequestsInvariant` | `RInv` |

### Induction

The library's induction theorems take an operator as a parameter, which none of the
provers used here can instantiate. Where a proof needs induction it is first-order:
`Least` (a set of natural numbers has a least element, from the well-foundedness of `<`)
and from it `Successors` (a set with 0 and the successor of each member has them all),
applied to the set of numbers for which the claim holds. A recursive function is handled
in two steps: a function with the equations exists (by `Successors`, on its domain), and
any two that have them agree. That is enough for walks, sums over finite sets, selections
from sequences and runs of events. Nothing of the kind is proved of `Expand`: it disagrees
with `Meaning` on a count from a variable within a loop, and where the two recursions,
over texts and over trees, do agree is left to TLC.

## 5. Plan

1. More proofs: `FramesForward` and `AwayIsNotGone` for `Remote`, the only safety
   properties without one.
2. The rest of the client: settings and their commands, recording, the remote
   renderer's own loop.
3. The worker pool's `Start` and `Stop` beside the loop's.

## 6. Only model-checked, and not modelled

Every invariant that a run checks but `ScriptInOrder`, every action property but two,
and the safety part of both refinements are proved. Only model-checked:

- liveness, which is beyond this prover: `StepIsPublished`, `CommandTaken`, the fair part
  of `ImplementsDelivery`, `StopReturns`, `Reconnects`, `MetadataCatchesUp`, `TourEnds`,
  `QueriesAnswered`;
- `FramesForward` and `AwayIsNotGone`, the action properties of `Remote`;
- `ScriptInOrder`, as far as it says what a script means (for its unrolled lines the
  same is proved), and `ExpandIsMeaning`: checked for given scripts.

Not modelled: numerics (Kepler's equation, leapfrog, barycentres), file parsing and
belt generation, rendering and recording, the spelling of scripts and commands and
the REPL that reads them, asset bundles, generated protocol code, the simple and
distributed pools, the ship catalogue, the admin program and presence publishing.
They are pure computation, I/O or plain maps
behind a mutex, without the kind of state a model checker would help with; the
largest of them are generated or draw. `PROJECT.json` says of each component what is
modelled and what is not.
