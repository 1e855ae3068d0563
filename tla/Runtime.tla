------------------------------- MODULE Runtime -------------------------------
(***************************************************************************)
(* Who changes the objects' states in the runtime environment: the frame   *)
(* of the event loop (events, then routines, then physics), and callers    *)
(* that execute transactions of several events, a worker being one with a  *)
(* single event.  Every call of the environment is one action; a           *)
(* transaction, a routine and a frame are many.  The loop is started once  *)
(* and stopped once (a second Stop, or a Start after it, closes a closed   *)
(* channel).                                                               *)
(*                                                                         *)
(* A state is a position, a velocity and the phase that the scale routine  *)
(* keeps in RoutineStates, one number each; positions are taken modulo a   *)
(* small number.  Rotation and scale follow the position's rules: a state  *)
(* holds all three in double precision, the object that the routines work  *)
(* on in single precision, so that a routine's pass rounds them (Float32). *)
(* The velocity goes through in double precision.  The queue manager is    *)
(* what Delivery says of it.                                               *)
(***************************************************************************)
EXTENDS Integers, Sequences, FiniteSets

CONSTANTS
  Objects,      \* GUIDs of objects
  Callers,      \* goroutines that execute transactions of their own
  Transactions, \* bound: the transactions they execute
  Queued,       \* bound: the events producers enqueue, as transactions of one event
  Deletable,    \* objects whose definition may be deleted
  MayStop,      \* whether the loop is stopped and its context cancelled
  Range,        \* positions are 0 .. Range - 1
  Float32,      \* position -> the position as a float32 holds it
  Turn, Step,   \* a phase of the scale routine, 360 degrees, and what a frame adds
  DefinitionOf, \* object -> its routines, and the velocity and phase among its properties
  Frame,        \* the goroutine of the event loop
  None

Positions  == 0 .. Range - 1
Velocities == {0, 1}
Phases     == 0 .. Turn - 1
Types      == {"create", "update", "move", "delete", "custom", "other"}
Modes      == {"none", "best_effort", "rollback"}

Event == [obj : Objects, type : Types, pos : Positions \union {None},
          vel : Velocities \union {None}]

Definition == [routines : SUBSET {"scale", "move"}, vel : Velocities \union {None},
               phase : Phases \union {None}]

ASSUME FrameAssumption == Frame \notin Callers /\ None \notin Objects
ASSUME TransactionsAssumption ==
  \A t \in Transactions \union Queued :
    t.mode \in Modes /\ t.events \in Seq(Event) /\ Len(t.events) > 0
ASSUME QueuedAssumption == \A t \in Queued : Len(t.events) = 1
ASSUME DefinitionsAssumption ==
  DefinitionOf \in [Objects -> Definition] /\ Deletable \subseteq Objects
ASSUME StepAssumption == Turn \in Nat \ {0} /\ Step \in 0 .. Turn
ASSUME RangeAssumption == Range \in Nat \ {0} /\ MayStop \in BOOLEAN
ASSUME Float32Assumption ==
  /\ Float32 \in [Positions -> Positions]
  /\ \A p \in Positions : Float32[Float32[p]] = Float32[p]
ASSUME NumbersAssumption == None \notin Nat

VARIABLES
  state,      \* object -> its ObjectState, None without one
  defined,    \* objects that have a definition in the pool
  pending,    \* object -> its event in the queue, with the event's mode, or None
  tx,         \* goroutine -> the transaction it executes
  loop,       \* where the event loop is, and what it works on
  stopClosed, doneClosed, cancelled,
  running,    \* EventLoop.running
  stopper     \* where the caller of Stop is

vars == <<state, defined, pending, tx, loop, stopClosed, doneClosed, cancelled, running, stopper>>

State == [pos : Positions, vel : Velocities, phase : Phases \union {None}]

ASSUME StateAssumption == None \notin State \union Queued

Resting == [at |-> "rest", mode |-> "none", events |-> << >>, i |-> 0,
            saved |-> << >>, todo |-> {}, obj |-> None, before |-> << >>, disturbed |-> FALSE]

Nowhere == [at |-> "new", list |-> {}, obj |-> None, copy |-> None, disturbed |-> FALSE]

Init ==
  /\ state = [o \in Objects |-> None]
  /\ defined = Objects
  /\ pending = [o \in Objects |-> None]
  /\ tx = [x \in Callers \union {Frame} |-> Resting]
  /\ loop = Nowhere
  /\ stopClosed = FALSE /\ doneClosed = FALSE /\ cancelled = FALSE
  /\ running = FALSE /\ stopper = "idle"

lifecycle == <<stopClosed, doneClosed, cancelled, running, stopper>>

-----------------------------------------------------------------------------
(* What an event does (applyEvent).                                        *)

Live == {o \in Objects : state[o] # None}
Shift(p, d) == (p + d) % Range

\* Whether the environment refuses the event e when the states are s.
Refused(s, e) ==
  \/ e.type = "create" /\ (e.obj \notin defined \/ s[e.obj] # None)
  \/ e.type \in {"update", "move", "delete"} /\ s[e.obj] = None
  \/ e.type = "other"

\* InitializeObject without a position function: at the origin, no routine states.
Born(e) == [pos |-> 0, vel |-> IF e.vel = None THEN 0 ELSE e.vel, phase |-> None]

Placed(st, e) == IF e.pos = None THEN st ELSE [st EXCEPT !.pos = e.pos]

\* The state of its object once the first call for e has succeeded: a creation's
\* position is set by a second one.
AfterCall(st, e) ==
  CASE e.type = "create" -> Born(e)
    [] e.type = "update" -> Placed([st EXCEPT !.vel = IF e.vel = None THEN @ ELSE e.vel], e)
    [] e.type = "move"   -> IF e.pos # None THEN [st EXCEPT !.pos = e.pos]
                            ELSE [st EXCEPT !.pos = Shift(@, 1)]
    [] e.type = "delete" -> None
    [] OTHER -> st

\* All that e asks for.
Whole(st, e) == IF e.type = "create" THEN Placed(Born(e), e) ELSE AfterCall(st, e)

-----------------------------------------------------------------------------
(* Writing a state, and who is disturbed by it.                            *)

ObjectsOf(t) == {t.events[k].obj : k \in DOMAIN t.events}

\* Goroutine x goes on as t, the objects S having been written by it.
Continue(x, t, S) ==
  /\ tx' = [y \in DOMAIN tx |->
              IF y = x THEN t
              ELSE [tx[y] EXCEPT !.disturbed = @ \/ ObjectsOf(tx[y]) \intersect S # {}]]
  /\ loop' = IF x # Frame /\ loop.obj \in S THEN [loop EXCEPT !.disturbed = TRUE] ELSE loop

Write(o, st) == state' = [state EXCEPT ![o] = st]

\* The frame writes outside a transaction.
Disturb(S) ==
  tx' = [y \in DOMAIN tx |->
           [tx[y] EXCEPT !.disturbed = @ \/ (y # Frame /\ ObjectsOf(tx[y]) \intersect S # {})]]

-----------------------------------------------------------------------------
(* TransactionContext.Execute, a call of the environment at a time.        *)

Begin(t) ==
  [at |-> IF t.mode = "rollback" THEN "save" ELSE "apply", mode |-> t.mode,
   events |-> t.events, i |-> 1, saved |-> << >>, todo |-> {}, obj |-> None,
   before |-> [o \in ObjectsOf(t) |-> state[o]], disturbed |-> FALSE]

\* The transaction goes on with its next event, or is done.
NextEvent(t) == IF t.i = Len(t.events) THEN Resting ELSE [t EXCEPT !.at = "apply", !.i = @ + 1]

\* Mutant: a failed transaction is left as it is.
GiveUp(t) == IF t.mode = "best_effort" THEN NextEvent(t) ELSE Resting

\* The error of an event, by mode.
AfterError(t) ==
  CASE t.mode = "none" -> Resting
    [] t.mode = "best_effort" -> NextEvent(t)
    [] t.mode = "rollback" -> [t EXCEPT !.at = "restore", !.todo = DOMAIN t.saved]

\* GetObjectState for the object of each event not seen before.
Save(x) ==
  LET t == tx[x]
      o == t.events[t.i].obj
      saved == IF o \in DOMAIN t.saved THEN t.saved
               ELSE [p \in DOMAIN t.saved \union {o} |-> IF p = o THEN state[o] ELSE t.saved[p]]
  IN  /\ t.at = "save"
      /\ Continue(x, IF t.i = Len(t.events) THEN [t EXCEPT !.saved = saved, !.at = "apply", !.i = 1]
                     ELSE [t EXCEPT !.saved = saved, !.i = @ + 1], {})
      /\ UNCHANGED <<state, defined, pending, lifecycle>>

\* The first call applyEvent makes, refused or not.
Apply(x) ==
  LET t == tx[x]
      e == t.events[t.i]
  IN  /\ t.at = "apply"
      /\ IF Refused(state, e)
         THEN Continue(x, AfterError(t), {}) /\ UNCHANGED state
         ELSE /\ Continue(x, IF e.type = "create" /\ e.pos # None THEN [t EXCEPT !.at = "place"]
                             ELSE NextEvent(t),
                          IF e.type = "custom" THEN {} ELSE {e.obj})
              /\ Write(e.obj, AfterCall(state[e.obj], e))
      /\ UNCHANGED <<defined, pending, lifecycle>>

\* The second call of a creation; the object may have gone again.
Place(x) ==
  LET t == tx[x]
      e == t.events[t.i]
  IN  /\ t.at = "place"
      /\ IF state[e.obj] = None
         THEN Continue(x, AfterError(t), {}) /\ UNCHANGED state
         ELSE Continue(x, NextEvent(t), {e.obj}) /\ Write(e.obj, Placed(state[e.obj], e))
      /\ UNCHANGED <<defined, pending, lifecycle>>

\* restoreSnapshots takes the objects in the order of a map, and looks at each.
Restored(t, o) == IF t.todo = {o} THEN Resting ELSE [t EXCEPT !.todo = @ \ {o}, !.at = "restore"]

RestoreLook(x) ==
  LET t == tx[x] IN
  /\ t.at = "restore"
  /\ \E o \in t.todo :
       Continue(x, CASE t.saved[o] = None /\ state[o] = None -> Restored(t, o)
                     [] t.saved[o] = None /\ state[o] # None -> [t EXCEPT !.at = "remove", !.obj = o]
                     [] t.saved[o] # None /\ state[o] = None -> [t EXCEPT !.at = "recreate", !.obj = o]
                     [] OTHER -> [t EXCEPT !.at = "rewrite", !.obj = o], {})
  /\ UNCHANGED <<state, defined, pending, lifecycle>>

\* An error of the calls below ends the restoration, whatever objects are left.
RestoreRemove(x) ==
  LET t == tx[x] IN
  /\ t.at = "remove"
  /\ IF state[t.obj] = None THEN Continue(x, Resting, {}) /\ UNCHANGED state
     ELSE Continue(x, Restored([t EXCEPT !.obj = None], t.obj), {t.obj}) /\ Write(t.obj, None)
  /\ UNCHANGED <<defined, pending, lifecycle>>

RestoreCreate(x) ==
  LET t == tx[x]
      e == [obj |-> t.obj, type |-> "create", pos |-> None, vel |-> t.saved[t.obj].vel]
  IN  /\ t.at = "recreate"
      /\ IF Refused(state, e) THEN Continue(x, Resting, {}) /\ UNCHANGED state
         ELSE Continue(x, [t EXCEPT !.at = "rewrite"], {t.obj}) /\ Write(t.obj, Born(e))
      /\ UNCHANGED <<defined, pending, lifecycle>>

RestoreWrite(x) ==
  LET t == tx[x] IN
  /\ t.at = "rewrite"
  /\ IF state[t.obj] = None THEN Continue(x, Resting, {}) /\ UNCHANGED state
     ELSE /\ Continue(x, Restored([t EXCEPT !.obj = None], t.obj), {t.obj})
          /\ Write(t.obj, t.saved[t.obj])
  /\ UNCHANGED <<defined, pending, lifecycle>>

TxStep(x) ==
  \/ Save(x) \/ Apply(x) \/ Place(x)
  \/ RestoreLook(x) \/ RestoreRemove(x) \/ RestoreCreate(x) \/ RestoreWrite(x)

\* A caller executes a transaction of its own.
Execute(x) ==
  /\ tx[x].at = "rest"
  /\ \E t \in Transactions : tx' = [tx EXCEPT ![x] = Begin(t)]
  /\ UNCHANGED <<state, defined, pending, loop, lifecycle>>

\* The definition of an object is deleted from the pool; its state stays.
DeleteDefinition(o) ==
  /\ o \in defined
  /\ defined' = defined \ {o}
  /\ tx' = [y \in DOMAIN tx |-> [tx[y] EXCEPT !.disturbed = @ \/ o \in ObjectsOf(tx[y])]]
  /\ UNCHANGED <<state, pending, loop, lifecycle>>

-----------------------------------------------------------------------------
(* The frame: events, routines, physics.                                   *)

\* A producer has the queue manager accept an event.
Produce(o) ==
  /\ pending[o] = None
  /\ \E t \in Queued : o \in ObjectsOf(t) /\ pending' = [pending EXCEPT ![o] = t]
  /\ UNCHANGED <<state, defined, tx, loop, lifecycle>>

InFrame == tx[Frame].at = "rest"

\* DequeueNext has an event: the frame executes a transaction with it alone.
DrainOne ==
  /\ loop.at = "events" /\ InFrame
  /\ \E o \in Objects :
       /\ pending[o] # None
       /\ tx' = [tx EXCEPT ![Frame] = Begin(pending[o])]
       /\ pending' = [pending EXCEPT ![o] = None]
  /\ UNCHANGED <<state, defined, loop, lifecycle>>

\* DequeueNext answers ErrNoEvents; the objects are listed for the routines.
EventsDone ==
  /\ loop.at = "events" /\ InFrame
  /\ \A o \in Objects : pending[o] = None
  /\ loop' = [Nowhere EXCEPT !.at = "routines", !.list = Live]
  /\ UNCHANGED <<state, defined, pending, tx, lifecycle>>

\* The next object of the list: one without definition or without routines is skipped.
LookUp ==
  /\ loop.at = "routines"
  /\ \E o \in loop.list :
       loop' = IF o \in defined /\ DefinitionOf[o].routines # {}
               THEN [loop EXCEPT !.at = "copy", !.list = @ \ {o}, !.obj = o]
               ELSE [loop EXCEPT !.list = @ \ {o}]
  /\ UNCHANGED <<state, defined, pending, tx, lifecycle>>

\* stateToPoolObject: the position in single precision, the definition's properties, then
\* the routine states over them, the velocity of the state only where the definition has
\* none.
Bridged(o, st) ==
  LET def == DefinitionOf[o]
  IN  [pos |-> Float32[st.pos], vel |-> IF def.vel # None THEN def.vel ELSE st.vel,
       phase |-> IF st.phase # None THEN st.phase ELSE def.phase]

\* ScaleRoutine: one subtraction when the phase has reached a turn.
NextPhase(p) == IF p + Step >= Turn THEN p + Step - Turn ELSE p + Step

\* The routines run on the copy; move keeps the velocity that is there.
RunRoutines(o, obj) ==
  IF "scale" \in DefinitionOf[o].routines
  THEN [obj EXCEPT !.phase = NextPhase(IF @ = None THEN 0 ELSE @)] ELSE obj

Copy ==
  /\ loop.at = "copy"
  /\ loop' = IF state[loop.obj] = None THEN [loop EXCEPT !.at = "routines", !.obj = None]
             ELSE [loop EXCEPT !.at = "write", !.disturbed = FALSE,
                               !.copy = RunRoutines(loop.obj, Bridged(loop.obj, state[loop.obj]))]
  /\ UNCHANGED <<state, defined, pending, tx, lifecycle>>

\* Mutant: only keys that the state already had are kept.
KeptIfKnown(o, st, copy) == [copy EXCEPT !.phase = IF st.phase = None THEN None ELSE @]

\* poolObjectToState: all of the copy (its position, widened again, stays rounded), except
\* that a property of the definition is not taken for a routine state.
WrittenBack(o, st, copy) ==
  [copy EXCEPT !.phase = IF DefinitionOf[o].phase # None THEN None ELSE @]

WriteBack ==
  LET o == loop.obj IN
  /\ loop.at = "write"
  /\ IF state[o] = None THEN UNCHANGED <<state, tx>>
     ELSE Write(o, WrittenBack(o, state[o], loop.copy)) /\ Disturb({o})
  /\ loop' = [Nowhere EXCEPT !.at = "routines", !.list = loop.list]
  /\ UNCHANGED <<defined, pending, lifecycle>>

RoutinesDone ==
  /\ loop.at = "routines" /\ loop.list = {}
  /\ loop' = [Nowhere EXCEPT !.at = "physics", !.list = Live]
  /\ UNCHANGED <<state, defined, pending, tx, lifecycle>>

\* One object moves; one that is gone is skipped.
Integrate ==
  /\ loop.at = "physics"
  /\ \E o \in loop.list :
       /\ loop' = [loop EXCEPT !.list = @ \ {o}]
       /\ IF state[o] = None THEN UNCHANGED <<state, tx>>
          ELSE Write(o, [state[o] EXCEPT !.pos = Shift(@, state[o].vel)]) /\ Disturb({o})
  /\ UNCHANGED <<defined, pending, lifecycle>>

FrameDone ==
  /\ loop.at = "physics" /\ loop.list = {}
  /\ loop' = [Nowhere EXCEPT !.at = "select"]
  /\ UNCHANGED <<state, defined, pending, tx, lifecycle>>

FrameStep ==
  \/ DrainOne \/ EventsDone \/ LookUp \/ Copy \/ WriteBack \/ RoutinesDone
  \/ Integrate \/ FrameDone \/ TxStep(Frame)

-----------------------------------------------------------------------------
(* EventLoop: Start, run, Stop.                                            *)

Start ==
  /\ loop.at = "new" /\ ~ running
  /\ running' = TRUE
  /\ loop' = [Nowhere EXCEPT !.at = "select"]
  /\ UNCHANGED <<state, defined, pending, tx, stopClosed, doneClosed, cancelled, stopper>>

\* The ticker fires; the select may take it though the loop has been told to stop.
Tick ==
  /\ loop.at = "select"
  /\ loop' = [Nowhere EXCEPT !.at = "events"]
  /\ UNCHANGED <<state, defined, pending, tx, lifecycle>>

\* Mutant: only the context ends the loop.
ToldByContext == cancelled
ToldToStop == stopClosed \/ cancelled

\* run returns and closes doneCh.
Exit ==
  /\ loop.at = "select" /\ ToldToStop
  /\ loop' = [Nowhere EXCEPT !.at = "exited"]
  /\ doneClosed' = TRUE
  /\ UNCHANGED <<state, defined, pending, tx, stopClosed, cancelled, running, stopper>>

Cancel ==
  /\ MayStop /\ ~ cancelled
  /\ cancelled' = TRUE
  /\ UNCHANGED <<state, defined, pending, tx, loop, stopClosed, doneClosed, running, stopper>>

\* Stop finds the loop running and closes stopCh.
StopClose ==
  /\ MayStop /\ stopper = "idle" /\ running
  /\ stopper' = "waiting"
  /\ stopClosed' = TRUE
  /\ UNCHANGED <<state, defined, pending, tx, loop, doneClosed, cancelled, running>>

\* Mutant: Stop does not wait for the loop.
AtOnce == TRUE
LoopIsDone == doneClosed

\* It has received from doneCh.
StopReturn ==
  /\ stopper = "waiting" /\ LoopIsDone
  /\ stopper' = "returned"
  /\ running' = FALSE
  /\ UNCHANGED <<state, defined, pending, tx, loop, stopClosed, doneClosed, cancelled>>

Producing == \E o \in Objects : Produce(o)

Next ==
  \/ \E x \in Callers : Execute(x) \/ TxStep(x)
  \/ Producing
  \/ \E o \in Deletable : DeleteDefinition(o)
  \/ FrameStep
  \/ Start \/ Tick \/ Exit \/ Cancel \/ StopClose \/ StopReturn

\* A frame that has begun goes on, Stop goes on once it may, and a select that finds
\* the loop told to stop again and again does not choose the ticker each time (Go
\* chooses among the ready cases at random).
Spec ==
  /\ Init /\ [][Next]_vars
  /\ WF_vars(FrameStep) /\ WF_vars(Tick) /\ SF_vars(Exit) /\ WF_vars(StopReturn)

-----------------------------------------------------------------------------
(* Properties.                                                             *)

\* States are of their kind, phases below a turn (ScaleRoutine's wrap), and only the
\* goroutine of a frame is inside one.
TypeOK ==
  /\ \A o \in Objects : state[o] = None \/ state[o] \in State
  /\ defined \subseteq Objects
  /\ pending \in [Objects -> Queued \union {None}]
  /\ \A x \in DOMAIN tx : tx[x].todo \subseteq DOMAIN tx[x].saved
  /\ loop.list \subseteq Objects
  /\ loop.at \in {"new", "select", "exited"} => tx[Frame] = Resting /\ loop.list = {}
  /\ running => loop.at # "new"

\* What a transaction leaves of its objects when it has them for itself, event by event
\* on the states it began with.
Applied(s, e) == IF Refused(s, e) THEN s ELSE [s EXCEPT ![e.obj] = Whole(s[e.obj], e)]

Reach(t) ==
  LET reach[k \in 0 .. Len(t.events)] ==
        IF k = 0 THEN t.before ELSE Applied(reach[k - 1], t.events[k])
  IN  reach

After(t) ==
  LET reach == Reach(t)
      fails == {k \in DOMAIN t.events : Refused(reach[k - 1], t.events[k])}
      first == CHOOSE k \in fails : \A j \in fails : k <= j
  IN  CASE fails = {} \/ t.mode = "best_effort" -> reach[Len(t.events)]
        [] fails # {} /\ t.mode = "none" -> reach[first - 1]
        [] fails # {} /\ t.mode = "rollback" -> t.before

\* A transaction whose objects nobody else wrote while it ran leaves exactly what its
\* mode promises: everything up to the first error, everything that can be done, or
\* all or nothing.  (A rollback cannot bring back an object whose definition has been
\* deleted: InitializeObject refuses it.)
UndisturbedIsAtomic ==
  [][\A x \in DOMAIN tx :
       LET t == tx[x] IN
       (/\ t.at # "rest" /\ tx'[x].at = "rest" /\ ~ t.disturbed
        /\ DOMAIN t.before \subseteq defined)
       => \A o \in DOMAIN t.before : state'[o] = After(t)[o]]_vars

\* A routine's pass over an object that nobody wrote between the copy and the write
\* back moves the phase on by one step of the phase of the frame before, rounds the
\* position to single precision, and leaves the velocity unless the definition fixes it.
RoutineKeepsTheRest ==
  [][(loop.at = "write" /\ loop'.at = "routines" /\ ~ loop.disturbed /\ state[loop.obj] # None) =>
       LET o == loop.obj
           def == DefinitionOf[o]
       IN  /\ state'[o].pos = Float32[state[o].pos]
           /\ state'[o].vel = IF def.vel # None THEN def.vel ELSE state[o].vel
           /\ ("scale" \in def.routines /\ def.phase = None) =>
                state'[o].phase = ((IF state[o].phase = None THEN 0 ELSE state[o].phase) + Step) % Turn]_vars

\* When Stop has returned, the loop's goroutine has ended: it is in no frame, and it
\* changes nothing any more.
QuietAfterStop == stopper = "returned" => loop.at = "exited" /\ ~ running

\* Stop returns, unless producers fill the queue for ever: a frame drains the queue to
\* the end before it does anything else.
StopReturns ==
  []<><<Producing>>_vars \/ (stopper = "waiting" ~> stopper = "returned")
=============================================================================
