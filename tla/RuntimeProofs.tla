---------------------------- MODULE RuntimeProofs -----------------------------
(***************************************************************************)
(* Theorems about Runtime, for any objects, callers, transactions and      *)
(* producers: the start and the stop of the event loop, what a transaction *)
(* leaves that had its objects for itself, and what a routine's pass keeps *)
(* of an object.                                                           *)
(***************************************************************************)
EXTENDS Runtime, WellFoundedInduction, TLAPS

\* The loop's channel is closed by its goroutine, as the last thing it does; Stop does
\* not return before that, and a loop that was started counts as running until then.
LInv ==
  /\ doneClosed => loop.at = "exited"
  /\ stopper = "returned" => doneClosed /\ ~ running
  /\ "at" \in DOMAIN loop

LEMMA LStarts == Init => LInv
BY DEF Init, LInv, Nowhere

\* A step that is neither a start nor an end: the goroutine stays where it was, or was
\* in a frame.
LEMMA QuietKeepsLoop ==
  ASSUME LInv, UNCHANGED lifecycle, loop'.at = loop.at \/ loop.at # "exited", "at" \in DOMAIN loop'
  PROVE  LInv'
BY DEF LInv, lifecycle

\* What a transaction does to the loop is to mark its copy as disturbed.
LEMMA TransactionKeepsLoop ==
  ASSUME LInv, NEW x \in Callers \union {Frame}, TxStep(x)
  PROVE  LInv'
<1>1. UNCHANGED lifecycle
  BY DEF TxStep, Save, Apply, Place, RestoreLook, RestoreRemove, RestoreCreate, RestoreWrite
<1>2. \E t, S : Continue(x, t, S)
  BY DEF TxStep, Save, Apply, Place, RestoreLook, RestoreRemove, RestoreCreate, RestoreWrite
<1>3. loop' = loop \/ loop' = [loop EXCEPT !.disturbed = TRUE]
  BY <1>2 DEF Continue
<1>4. loop'.at = loop.at /\ "at" \in DOMAIN loop'
  BY <1>3 DEF LInv
<1> QED  BY <1>1, <1>4, QuietKeepsLoop

\* The steps of a frame outside a transaction are taken by a goroutine that has not ended.
LEMMA FrameKeepsLoop == ASSUME LInv, FrameStep PROVE LInv'
<1>1. CASE DrainOne
  BY <1>1, QuietKeepsLoop DEF DrainOne, LInv
<1>2. CASE EventsDone \/ RoutinesDone \/ FrameDone \/ WriteBack
  BY <1>2, QuietKeepsLoop DEF EventsDone, RoutinesDone, FrameDone, WriteBack, Nowhere
<1>3. CASE LookUp \/ Integrate
  <2>1. UNCHANGED lifecycle /\ loop.at # "exited"
    BY <1>3 DEF LookUp, Integrate
  <2>2. DOMAIN loop' = DOMAIN loop
    BY <1>3 DEF LookUp, Integrate
  <2> QED  BY <2>1, <2>2, QuietKeepsLoop DEF LInv
<1>4. CASE Copy
  <2>1. UNCHANGED lifecycle /\ loop.at # "exited" /\ DOMAIN loop' = DOMAIN loop
    BY <1>4 DEF Copy
  <2> QED  BY <2>1, QuietKeepsLoop DEF LInv
<1>5. CASE TxStep(Frame)
  BY <1>5, TransactionKeepsLoop
<1> QED  BY <1>1, <1>2, <1>3, <1>4, <1>5 DEF FrameStep

LEMMA LKept == LInv /\ [Next]_vars => LInv'
<1> SUFFICES ASSUME LInv, [Next]_vars PROVE LInv'
  OBVIOUS
<1>1. CASE UNCHANGED vars
  BY <1>1, QuietKeepsLoop DEF vars, lifecycle, LInv
<1>2. ASSUME NEW x \in Callers, Execute(x) \/ TxStep(x) PROVE LInv'
  BY <1>2, QuietKeepsLoop, TransactionKeepsLoop DEF Execute, LInv
<1>3. ASSUME NEW o \in Objects, Produce(o) \/ DeleteDefinition(o) PROVE LInv'
  BY <1>3, QuietKeepsLoop DEF Produce, DeleteDefinition, LInv
<1>4. CASE Start \/ Tick
  BY <1>4 DEF Start, Tick, LInv, Nowhere, lifecycle
<1>5. CASE Exit
  BY <1>5 DEF Exit, LInv, Nowhere
<1>6. CASE Cancel \/ StopClose \/ StopReturn
  BY <1>6 DEF Cancel, StopClose, StopReturn, LoopIsDone, LInv
<1> QED
  BY <1>1, <1>2, <1>3, <1>4, <1>5, <1>6, FrameKeepsLoop, DefinitionsAssumption
  DEF Next, Producing

\* A loop that is out of its select does not take another frame.
THEOREM LoopInvariant == Spec => []LInv
<1>1. Init => LInv
  BY LStarts
<1>2. LInv /\ [Next]_vars => LInv'
  BY LKept
<1> QED  BY <1>1, <1>2, PTL DEF Spec

\* Once Stop has returned the loop's goroutine is gone, whatever transactions and
\* producers go on, and even if the select took the ticker after it was told to stop.
THEOREM StopMeansStopped == Spec => []QuietAfterStop
<1>1. LInv => QuietAfterStop
  BY DEF LInv, QuietAfterStop
<1> QED  BY <1>1, LoopInvariant, PTL

-----------------------------------------------------------------------------
(* Transactions and the frame: what they hold, and what they promise.      *)

Goroutines == Callers \union {Frame}
Restoring  == {"restore", "remove", "recreate", "rewrite"}
Stages     == {"rest", "save", "apply", "place"} \union Restoring

\* t, at another place.
With(t, at, i, saved, todo, obj) ==
  [at |-> at, mode |-> t.mode, events |-> t.events, i |-> i, saved |-> saved, todo |-> todo,
   obj |-> obj, before |-> t.before, disturbed |-> t.disturbed]

IsContext(t) == t = With(t, t.at, t.i, t.saved, t.todo, t.obj)

IsTransaction(t) ==
  /\ IsContext(t)
  /\ t.at \in Stages /\ t.mode \in Modes /\ t.disturbed \in BOOLEAN
  /\ t.events \in Seq(Event)
  /\ DOMAIN t.saved \subseteq ObjectsOf(t)
  /\ \A o \in DOMAIN t.saved : t.saved[o] \in State \union {None}
  /\ DOMAIN t.before = ObjectsOf(t)
  /\ \A o \in ObjectsOf(t) : t.before[o] \in State \union {None}
  /\ t.at # "rest" => t.before = [o \in ObjectsOf(t) |-> t.before[o]]
  /\ t.todo \subseteq DOMAIN t.saved
  /\ t.at = "rest" => t = Resting
  /\ t.at \in {"save", "apply", "place"} => t.i \in 1 .. Len(t.events)
  /\ t.at = "place" => t.events[t.i].type = "create" /\ t.events[t.i].pos # None
  /\ t.at \in {"save"} \union Restoring => t.mode = "rollback"
  /\ t.at \in {"remove", "recreate", "rewrite"} => t.obj \in t.todo
  /\ t.at = "remove" => t.saved[t.obj] = None
  /\ t.at \in {"recreate", "rewrite"} => t.saved[t.obj] # None

\* Refused, for an object that has a definition.
Rejected(s, e) ==
  \/ e.type = "create" /\ s[e.obj] # None
  \/ e.type \in {"update", "move", "delete"} /\ s[e.obj] = None
  \/ e.type = "other"

\* f gives what the first k events of t leave of its objects.
IsRun(f, t) ==
  /\ \A o \in ObjectsOf(t) : f[0][o] = t.before[o]
  /\ \A k \in DOMAIN t.events : \A o \in ObjectsOf(t) :
       f[k][o] = IF o = t.events[k].obj /\ ~ Rejected(f[k - 1], t.events[k])
                 THEN Whole(f[k - 1][o], t.events[k]) ELSE f[k - 1][o]

\* The states s agree with f, a run of the events of t, at the place t is at.
Follows(t, s, f) ==
  LET e == t.events[t.i] IN
  /\ t.at = "apply" => \A o \in ObjectsOf(t) : s[o] = f[t.i - 1][o]
  /\ t.at = "place" =>
       /\ ~ Rejected(f[t.i - 1], e)
       /\ \A o \in ObjectsOf(t) : s[o] = IF o = e.obj THEN Born(e) ELSE f[t.i - 1][o]
  /\ t.at \in {"apply", "place"} /\ t.mode # "best_effort" =>
       \A k \in 1 .. t.i - 1 : ~ Rejected(f[k - 1], t.events[k])
  /\ t.at \in Restoring => \E k \in DOMAIN t.events : Rejected(f[k - 1], t.events[k])

\* The snapshots are what the transaction began with, and what it has to restore is
\* all that differs from them.
Snapshots(t, s) ==
  /\ \A o \in DOMAIN t.saved : t.saved[o] = t.before[o]
  /\ t.at = "save" => /\ \A o \in ObjectsOf(t) : s[o] = t.before[o]
                      /\ \A k \in 1 .. t.i - 1 : t.events[k].obj \in DOMAIN t.saved
  /\ t.mode = "rollback" /\ t.at # "save" => ObjectsOf(t) \subseteq DOMAIN t.saved
  /\ t.at \in Restoring => \A o \in ObjectsOf(t) \ t.todo : s[o] = t.before[o]
  /\ t.at \in {"remove", "rewrite"} => s[t.obj] # None
  /\ t.at = "recreate" => s[t.obj] = None

\* With the states s, and definitions for the objects D, the transaction t is on its
\* way to what UndisturbedIsAtomic promises.
OnCourse(t, s, D) ==
  (t.at # "rest" /\ ~ t.disturbed /\ ObjectsOf(t) \subseteq D) =>
    Snapshots(t, s) /\ \A f : IsRun(f, t) => Follows(t, s, f)

Places == {"new", "select", "events", "routines", "copy", "write", "physics", "exited"}

RoutineInv ==
  /\ loop = [at |-> loop.at, list |-> loop.list, obj |-> loop.obj, copy |-> loop.copy,
             disturbed |-> loop.disturbed]
  /\ loop.at \in Places /\ loop.list \subseteq Objects /\ loop.disturbed \in BOOLEAN
  /\ loop.at \in {"new", "select", "exited"} => loop.list = {}
  /\ loop.at \in {"copy", "write"} => loop.obj \in Objects
  /\ loop.at = "write" => loop.copy \in State
  /\ loop.at # "events" => tx[Frame].at = "rest"
  /\ running => loop.at # "new"
  /\ loop.at = "write" /\ ~ loop.disturbed /\ state[loop.obj] # None =>
       loop.copy = RunRoutines(loop.obj, Bridged(loop.obj, state[loop.obj]))

StatesTyped ==
  /\ state \in [Objects -> State \union {None}]
  /\ defined \subseteq Objects
  /\ pending \in [Objects -> Queued \union {None}]

TxInv ==
  /\ tx = [x \in Goroutines |-> tx[x]]
  /\ \A x \in Goroutines : IsTransaction(tx[x]) /\ OnCourse(tx[x], state, defined)

RInv == StatesTyped /\ RoutineInv /\ TxInv

-----------------------------------------------------------------------------
(* Single transactions.                                                    *)

\* t, when its objects S have been written by somebody else.
Marked(t, S) == [t EXCEPT !.disturbed = @ \/ ObjectsOf(t) \intersect S # {}]

LEMMA WithOne ==
  ASSUME NEW t, IsContext(t), NEW at, NEW i, NEW saved, NEW todo, NEW obj
  PROVE  /\ [t EXCEPT !.at = at] = With(t, at, t.i, t.saved, t.todo, t.obj)
         /\ [t EXCEPT !.i = i] = With(t, t.at, i, t.saved, t.todo, t.obj)
         /\ [t EXCEPT !.saved = saved] = With(t, t.at, t.i, saved, t.todo, t.obj)
         /\ [t EXCEPT !.todo = todo] = With(t, t.at, t.i, t.saved, todo, t.obj)
         /\ [t EXCEPT !.obj = obj] = With(t, t.at, t.i, t.saved, t.todo, obj)
BY DEF IsContext, With

LEMMA WithFields ==
  ASSUME NEW t, NEW at, NEW i, NEW saved, NEW todo, NEW obj
  PROVE  LET u == With(t, at, i, saved, todo, obj)
         IN  /\ IsContext(u)
             /\ u.at = at /\ u.i = i /\ u.saved = saved /\ u.todo = todo /\ u.obj = obj
             /\ u.mode = t.mode /\ u.events = t.events /\ u.before = t.before
             /\ u.disturbed = t.disturbed
             /\ \A a1, a2, a3, a4, a5 : With(u, a1, a2, a3, a4, a5) = With(t, a1, a2, a3, a4, a5)
BY DEF IsContext, With

Pairs(t, at, i, saved, todo, obj) ==
  /\ [t EXCEPT !.at = at, !.i = i] = With(t, at, i, t.saved, t.todo, t.obj)
  /\ [t EXCEPT !.at = at, !.todo = todo] = With(t, at, t.i, t.saved, todo, t.obj)
  /\ [t EXCEPT !.todo = todo, !.at = at] = With(t, at, t.i, t.saved, todo, t.obj)
  /\ [t EXCEPT !.at = at, !.obj = obj] = With(t, at, t.i, t.saved, t.todo, obj)
  /\ [t EXCEPT !.saved = saved, !.i = i] = With(t, t.at, i, saved, t.todo, t.obj)
  /\ [t EXCEPT !.saved = saved, !.at = at, !.i = i] = With(t, at, i, saved, t.todo, t.obj)

LEMMA WithAll ==
  ASSUME NEW t, IsContext(t), NEW at, NEW i, NEW saved, NEW todo, NEW obj
  PROVE  Pairs(t, at, i, saved, todo, obj)
<1> DEFINE p == [t EXCEPT !.at = at]
           q == [t EXCEPT !.todo = todo]
           r == [t EXCEPT !.saved = saved]
           w == [r EXCEPT !.at = at]
<1>1. /\ p = With(t, at, t.i, t.saved, t.todo, t.obj)
      /\ q = With(t, t.at, t.i, t.saved, todo, t.obj)
      /\ r = With(t, t.at, t.i, saved, t.todo, t.obj)
  BY WithOne
<1>2. /\ [t EXCEPT !.at = at, !.i = i] = [p EXCEPT !.i = i]
      /\ [t EXCEPT !.at = at, !.todo = todo] = [p EXCEPT !.todo = todo]
      /\ [t EXCEPT !.todo = todo, !.at = at] = [q EXCEPT !.at = at]
      /\ [t EXCEPT !.at = at, !.obj = obj] = [p EXCEPT !.obj = obj]
      /\ [t EXCEPT !.saved = saved, !.i = i] = [r EXCEPT !.i = i]
      /\ [t EXCEPT !.saved = saved, !.at = at, !.i = i] = [w EXCEPT !.i = i]
  OBVIOUS
<1> HIDE DEF p, q, r
<1>3. w = With(t, at, t.i, saved, t.todo, t.obj)
  <2>1. IsContext(r)
    BY <1>1, WithFields
  <2>2. w = With(r, at, r.i, r.saved, r.todo, r.obj)
    BY <2>1, WithOne
  <2> QED  BY <1>1, <2>2, WithFields
<1> HIDE DEF w
<1>4. IsContext(p) /\ IsContext(q) /\ IsContext(r) /\ IsContext(w)
  BY <1>1, <1>3, WithFields
<1>5. /\ [p EXCEPT !.i = i] = With(p, p.at, i, p.saved, p.todo, p.obj)
      /\ [p EXCEPT !.todo = todo] = With(p, p.at, p.i, p.saved, todo, p.obj)
      /\ [q EXCEPT !.at = at] = With(q, at, q.i, q.saved, q.todo, q.obj)
      /\ [p EXCEPT !.obj = obj] = With(p, p.at, p.i, p.saved, p.todo, obj)
      /\ [r EXCEPT !.i = i] = With(r, r.at, i, r.saved, r.todo, r.obj)
      /\ [w EXCEPT !.i = i] = With(w, w.at, i, w.saved, w.todo, w.obj)
  BY <1>4, WithOne
<1>6. /\ p.at = at /\ p.i = t.i /\ p.saved = t.saved /\ p.todo = t.todo /\ p.obj = t.obj
      /\ \A a1, a2, a3, a4, a5 : With(p, a1, a2, a3, a4, a5) = With(t, a1, a2, a3, a4, a5)
  BY <1>1, WithFields
<1>7. /\ q.at = t.at /\ q.i = t.i /\ q.saved = t.saved /\ q.todo = todo /\ q.obj = t.obj
      /\ \A a1, a2, a3, a4, a5 : With(q, a1, a2, a3, a4, a5) = With(t, a1, a2, a3, a4, a5)
  BY <1>1, WithFields
<1>8. /\ r.at = t.at /\ r.i = t.i /\ r.saved = saved /\ r.todo = t.todo /\ r.obj = t.obj
      /\ \A a1, a2, a3, a4, a5 : With(r, a1, a2, a3, a4, a5) = With(t, a1, a2, a3, a4, a5)
  BY <1>1, WithFields
<1>9. /\ w.at = at /\ w.i = t.i /\ w.saved = saved /\ w.todo = t.todo /\ w.obj = t.obj
      /\ \A a1, a2, a3, a4, a5 : With(w, a1, a2, a3, a4, a5) = With(t, a1, a2, a3, a4, a5)
  BY <1>3, WithFields
<1>10. /\ [p EXCEPT !.i = i] = With(t, at, i, t.saved, t.todo, t.obj)
       /\ [p EXCEPT !.todo = todo] = With(t, at, t.i, t.saved, todo, t.obj)
       /\ [q EXCEPT !.at = at] = With(t, at, t.i, t.saved, todo, t.obj)
       /\ [p EXCEPT !.obj = obj] = With(t, at, t.i, t.saved, t.todo, obj)
       /\ [r EXCEPT !.i = i] = With(t, t.at, i, saved, t.todo, t.obj)
       /\ [w EXCEPT !.i = i] = With(t, at, i, saved, t.todo, t.obj)
  BY <1>5, <1>6, <1>7, <1>8, <1>9
<1> QED  BY <1>2, <1>10 DEF Pairs
LEMMA ObjectsAreObjects ==
  ASSUME NEW t, IsTransaction(t)
  PROVE  /\ \A k \in DOMAIN t.events : t.events[k] \in Event /\ t.events[k].obj \in ObjectsOf(t)
         /\ ObjectsOf(t) \subseteq Objects /\ DOMAIN t.events = 1 .. Len(t.events)
         /\ Len(t.events) \in Nat
<1>1. DOMAIN t.events = 1 .. Len(t.events) /\ Len(t.events) \in Nat
  BY DEF IsTransaction
<1>2. \A k \in DOMAIN t.events : t.events[k] \in Event
  BY DEF IsTransaction
<1>3. \A k \in DOMAIN t.events : t.events[k].obj \in Objects
  BY <1>2 DEF Event
<1> QED  BY <1>1, <1>2, <1>3 DEF ObjectsOf

LEMMA RestingIsTransaction == IsTransaction(Resting) /\ ObjectsOf(Resting) = {}
<1>1. Resting.events = << >> /\ DOMAIN Resting.events = {}
  BY DEF Resting
<1>2. ObjectsOf(Resting) = {}
  BY <1>1 DEF ObjectsOf
<1>3. DOMAIN Resting.saved = {} /\ DOMAIN Resting.before = {} /\ Resting.todo = {}
  BY DEF Resting
<1>4. Resting.events \in Seq(Event)
  BY <1>1
<1>5. /\ IsContext(Resting)
      /\ Resting.at = "rest" /\ Resting.mode = "none" /\ Resting.disturbed = FALSE
  BY DEF Resting, IsContext, With
<1>6. Resting.at \in Stages /\ Resting.mode \in Modes
  BY <1>5 DEF Stages, Modes
<1> HIDE DEF Resting
<1> QED  BY <1>2, <1>3, <1>4, <1>5, <1>6 DEF IsTransaction, Restoring

LEMMA MarkedSame ==
  ASSUME NEW t, IsTransaction(t), NEW S
  PROVE  /\ Marked(t, S) = [at |-> t.at, mode |-> t.mode, events |-> t.events, i |-> t.i,
                            saved |-> t.saved, todo |-> t.todo, obj |-> t.obj,
                            before |-> t.before,
                            disturbed |-> t.disturbed \/ ObjectsOf(t) \intersect S # {}]
         /\ ObjectsOf(Marked(t, S)) = ObjectsOf(t)
<1>1. Marked(t, S) = [at |-> t.at, mode |-> t.mode, events |-> t.events, i |-> t.i,
                      saved |-> t.saved, todo |-> t.todo, obj |-> t.obj, before |-> t.before,
                      disturbed |-> t.disturbed \/ ObjectsOf(t) \intersect S # {}]
  BY DEF Marked, IsTransaction, IsContext, With
<1> QED  BY <1>1 DEF ObjectsOf

LEMMA MarkedIsTransaction ==
  ASSUME NEW t, IsTransaction(t), NEW S
  PROVE  IsTransaction(Marked(t, S)) /\ (t.at = "rest" => Marked(t, S) = t)
<1> DEFINE m == Marked(t, S)
<1>1. /\ IsContext(m)
      /\ m.at = t.at /\ m.mode = t.mode /\ m.events = t.events /\ m.i = t.i
      /\ m.saved = t.saved /\ m.todo = t.todo /\ m.obj = t.obj /\ m.before = t.before
      /\ m.disturbed = (t.disturbed \/ ObjectsOf(t) \intersect S # {})
      /\ ObjectsOf(m) = ObjectsOf(t)
  <2> HIDE DEF m
  <2> QED  BY MarkedSame DEF m, IsContext, With
<1>2. ASSUME t.at = "rest" PROVE m = t
  <2>1. t = Resting
    BY <1>2 DEF IsTransaction
  <2>2. ObjectsOf(t) = {}
    BY <2>1, RestingIsTransaction
  <2>3. m.disturbed = t.disturbed
    BY <1>1, <2>2 DEF IsTransaction
  <2> HIDE DEF m
  <2> QED  BY <1>1, <2>3 DEF IsTransaction, IsContext, With
<1> HIDE DEF m
<1>3. IsTransaction(m)
  BY <1>1, <1>2 DEF IsTransaction
<1> QED  BY <1>2, <1>3 DEF m

\* A transaction does not notice what happens to objects that are not its own.
LEMMA OthersStayOnCourse ==
  ASSUME NEW t, IsTransaction(t), NEW s, NEW D, OnCourse(t, s, D), NEW S, NEW r,
         NEW C \in SUBSET D, \A o \in ObjectsOf(t) \ S : r[o] = s[o]
  PROVE  OnCourse(Marked(t, S), r, C)
<1> DEFINE m == Marked(t, S)
<1>1. /\ m.at = t.at /\ m.mode = t.mode /\ m.events = t.events /\ m.i = t.i
      /\ m.saved = t.saved /\ m.todo = t.todo /\ m.obj = t.obj /\ m.before = t.before
      /\ m.disturbed = (t.disturbed \/ ObjectsOf(t) \intersect S # {})
      /\ ObjectsOf(m) = ObjectsOf(t)
  <2> HIDE DEF m
  <2> QED  BY MarkedSame DEF m
<1> HIDE DEF m
<1> SUFFICES ASSUME m.at # "rest", ~ m.disturbed, ObjectsOf(m) \subseteq C
             PROVE  Snapshots(m, r) /\ \A f : IsRun(f, m) => Follows(m, r, f)
  BY DEF OnCourse, m
<1>2. ~ t.disturbed /\ ObjectsOf(t) \intersect S = {}
  BY <1>1 DEF IsTransaction
<1>3. \A o \in ObjectsOf(t) : r[o] = s[o]
  BY <1>2
<1>4. Snapshots(t, s) /\ \A f : IsRun(f, t) => Follows(t, s, f)
  BY <1>1, <1>2 DEF OnCourse
<1>5. Snapshots(m, r)
  <2>1. t.at \in {"remove", "recreate", "rewrite"} => t.obj \in ObjectsOf(t)
    BY DEF IsTransaction
  <2> QED  BY <1>1, <1>3, <1>4, <2>1 DEF Snapshots
<1>6. ASSUME NEW f, IsRun(f, m) PROVE Follows(m, r, f)
  <2>1. IsRun(f, t)
    BY <1>1, <1>6 DEF IsRun
  <2>2. Follows(t, s, f)
    BY <1>4, <2>1
  <2> QED  BY <1>1, <1>3, <2>2 DEF Follows
<1> QED  BY <1>5, <1>6

-----------------------------------------------------------------------------
(* The values that are written.                                            *)

LEMMA ShiftTyped ==
  ASSUME NEW p \in Positions, NEW d \in Velocities
  PROVE  Shift(p, d) \in Positions
<1>1. p + d \in Nat /\ Range \in Nat \ {0}
  BY RangeAssumption DEF Positions, Velocities
<1>2. (p + d) % Range \in 0 .. Range - 1
  BY <1>1
<1> QED  BY <1>2 DEF Shift, Positions

LEMMA ZeroIsPosition == 0 \in Positions /\ 1 \in Velocities /\ 0 \in Velocities
BY RangeAssumption DEF Positions, Velocities

LEMMA BornTyped == ASSUME NEW e \in Event PROVE Born(e) \in State /\ Born(e) # None
<1>1. Born(e) \in State
  BY ZeroIsPosition DEF Born, State, Event
<1> QED  BY <1>1, StateAssumption

LEMMA PlacedTyped ==
  ASSUME NEW e \in Event, NEW st \in State
  PROVE  Placed(st, e) \in State /\ Placed(st, e) # None
<1>1. Placed(st, e) \in State
  BY DEF Placed, State, Event
<1> QED  BY <1>1, StateAssumption

\* What an event that is not refused makes of a state is a state, or none.
LEMMA AfterTyped ==
  ASSUME NEW e \in Event, NEW st \in State \union {None},
         e.type \in {"update", "move", "delete"} => st # None
  PROVE  AfterCall(st, e) \in State \union {None} /\ Whole(st, e) \in State \union {None}
<1>1. CASE e.type = "create"
  BY <1>1, BornTyped, PlacedTyped DEF AfterCall, Whole
<1>2. CASE e.type = "update"
  <2>1. st \in State
    BY <1>2
  <2> DEFINE w == [st EXCEPT !.vel = IF e.vel = None THEN @ ELSE e.vel]
  <2>2. w \in State
    BY <2>1 DEF State, Event
  <2>3. AfterCall(st, e) = Placed(w, e) /\ Whole(st, e) = AfterCall(st, e)
    BY <1>2 DEF AfterCall, Whole
  <2> HIDE DEF w
  <2> QED  BY <2>2, <2>3, PlacedTyped
<1>3. CASE e.type = "move"
  <2>1. st \in State /\ st.pos \in Positions /\ Shift(st.pos, 1) \in Positions
    BY <1>3, ShiftTyped, ZeroIsPosition DEF State
  <2>2. [st EXCEPT !.pos = Shift(@, 1)] \in State
    BY <2>1 DEF State
  <2>3. e.pos # None => [st EXCEPT !.pos = e.pos] \in State
    BY <2>1 DEF State, Event
  <2> QED  BY <1>3, <2>2, <2>3 DEF AfterCall, Whole
<1>4. CASE e.type = "delete"
  BY <1>4 DEF AfterCall, Whole
<1>5. CASE e.type \in {"custom", "other"}
  BY <1>5 DEF AfterCall, Whole
<1> QED  BY <1>1, <1>2, <1>3, <1>4, <1>5 DEF Event, Types

-----------------------------------------------------------------------------
(* Steps of a transaction.                                                 *)

\* The states r are what t promises of its objects, f being a run of its events.
Kept(t, r, f) ==
  \/ /\ t.mode = "best_effort" \/ \A k \in DOMAIN t.events : ~ Rejected(f[k - 1], t.events[k])
     /\ \A o \in ObjectsOf(t) : r[o] = f[Len(t.events)][o]
  \/ /\ t.mode = "none"
     /\ \E k \in DOMAIN t.events :
          /\ Rejected(f[k - 1], t.events[k])
          /\ \A j \in 1 .. k - 1 : ~ Rejected(f[j - 1], t.events[j])
          /\ \A o \in ObjectsOf(t) : r[o] = f[k - 1][o]
  \/ /\ t.mode = "rollback"
     /\ \E k \in DOMAIN t.events : Rejected(f[k - 1], t.events[k])
     /\ \A o \in ObjectsOf(t) : r[o] = t.before[o]

\* t may end with the states r, or goes on as u with them.
Goes(t, u, r, D) ==
  /\ IsTransaction(u) /\ OnCourse(u, r, D)
  /\ (u.at = "rest" /\ ~ t.disturbed /\ ObjectsOf(t) \subseteq D) =>
       \A f : IsRun(f, t) => Kept(t, r, f)

LEMMA Begins ==
  ASSUME StatesTyped, NEW t \in Transactions \union Queued
  PROVE  IsTransaction(Begin(t)) /\ OnCourse(Begin(t), state, defined)
<1> DEFINE u == Begin(t)
           at == IF t.mode = "rollback" THEN "save" ELSE "apply"
<1>1. t.mode \in Modes /\ t.events \in Seq(Event) /\ Len(t.events) > 0
  BY TransactionsAssumption
<1>2. ObjectsOf(t) \subseteq Objects
  <2>1. \A k \in DOMAIN t.events : t.events[k] \in Event
    BY <1>1
  <2> QED  BY <2>1 DEF ObjectsOf, Event
<1>3. u = [at |-> at, mode |-> t.mode, events |-> t.events, i |-> 1, saved |-> << >>,
           todo |-> {}, obj |-> None, before |-> [o \in ObjectsOf(t) |-> state[o]],
           disturbed |-> FALSE]
  BY DEF Begin
<1> HIDE DEF u
<1>4. ObjectsOf(u) = ObjectsOf(t) /\ DOMAIN u.saved = {}
  BY <1>3 DEF ObjectsOf
<1>5. at \in {"save", "apply"} /\ (at = "save" <=> t.mode = "rollback")
  OBVIOUS
<1> HIDE DEF at
<1>6. u.i \in 1 .. Len(u.events)
  BY <1>1, <1>3
<1>7. DOMAIN u.before = ObjectsOf(u) /\ \A o \in ObjectsOf(u) : u.before[o] = state[o]
  BY <1>3, <1>4
<1>8. \A o \in ObjectsOf(u) : u.before[o] \in State \union {None}
  BY <1>2, <1>4, <1>7 DEF StatesTyped
<1>9. /\ IsContext(u)
      /\ u.at = at /\ u.mode = t.mode /\ u.events = t.events /\ u.i = 1 /\ u.todo = {}
      /\ u.disturbed = FALSE
  BY <1>3 DEF IsContext, With
<1>10. IsTransaction(u)
  <2>1. u.before = [o \in ObjectsOf(u) |-> u.before[o]]
    BY <1>3, <1>4
  <2> QED
    BY <1>1, <1>4, <1>5, <1>6, <1>7, <1>8, <1>9, <2>1
    DEF IsTransaction, Stages, Restoring
<1>11. Snapshots(u, state)
  BY <1>4, <1>5, <1>7, <1>9 DEF Snapshots, Restoring
<1>12. ASSUME NEW f, IsRun(f, u) PROVE Follows(u, state, f)
  BY <1>5, <1>7, <1>9, <1>12 DEF Follows, IsRun, Restoring
<1> QED  BY <1>10, <1>11, <1>12 DEF u, OnCourse

\* t has nobody in its way.
Undisturbed(t, D) == ~ t.disturbed /\ ObjectsOf(t) \subseteq D

Covered(t) ==
  /\ \A o \in DOMAIN t.saved : t.saved[o] = t.before[o]
  /\ t.mode = "rollback" => ObjectsOf(t) \subseteq DOMAIN t.saved

\* The event t is at has been applied, or has been refused.
Passed(t, r, f) ==
  /\ \A o \in ObjectsOf(t) : r[o] = f[t.i][o]
  /\ t.mode # "best_effort" => \A k \in 1 .. t.i : ~ Rejected(f[k - 1], t.events[k])

Failed(t, r, f) ==
  /\ Rejected(f[t.i - 1], t.events[t.i])
  /\ \A o \in ObjectsOf(t) : r[o] = f[t.i - 1][o]
  /\ t.mode # "best_effort" => \A k \in 1 .. t.i - 1 : ~ Rejected(f[k - 1], t.events[k])

LEMMA RestGoes ==
  ASSUME NEW t, NEW r, NEW D,
         Undisturbed(t, D) => \A f : IsRun(f, t) => Kept(t, r, f)
  PROVE  Goes(t, Resting, r, D)
<1>1. Resting.at = "rest"
  BY DEF Resting
<1> QED  BY <1>1, RestingIsTransaction DEF Goes, OnCourse, Undisturbed

LEMMA Advances ==
  ASSUME NEW t, IsTransaction(t), t.at \in {"apply", "place"}, NEW r, NEW D,
         Undisturbed(t, D) => Covered(t) /\ \A f : IsRun(f, t) => Passed(t, r, f)
  PROVE  Goes(t, NextEvent(t), r, D)
<1>1. t.i \in 1 .. Len(t.events) /\ Len(t.events) \in Nat /\ DOMAIN t.events = 1 .. Len(t.events)
  BY ObjectsAreObjects DEF IsTransaction
<1>2. CASE t.i = Len(t.events)
  <2>1. NextEvent(t) = Resting
    BY <1>2 DEF NextEvent
  <2>2. ASSUME Undisturbed(t, D), NEW f, IsRun(f, t) PROVE Kept(t, r, f)
    <3>1. Passed(t, r, f)
      BY <2>2
    <3> QED  BY <3>1, <1>1, <1>2 DEF Passed, Kept
  <2> QED  BY <2>1, <2>2, RestGoes
<1>3. CASE t.i # Len(t.events)
  <2> DEFINE u == [t EXCEPT !.at = "apply", !.i = @ + 1]
  <2>1. NextEvent(t) = u
    BY <1>3 DEF NextEvent
  <2>2. u = With(t, "apply", t.i + 1, t.saved, t.todo, t.obj)
    <3>1. Pairs(t, "apply", t.i + 1, t.saved, t.todo, t.obj)
      BY WithAll DEF IsTransaction
    <3> QED  BY <3>1 DEF Pairs
  <2> HIDE DEF u
  <2>3. /\ IsContext(u)
        /\ u.at = "apply" /\ u.mode = t.mode /\ u.events = t.events /\ u.i = t.i + 1
        /\ u.saved = t.saved /\ u.todo = t.todo /\ u.before = t.before
        /\ u.disturbed = t.disturbed /\ ObjectsOf(u) = ObjectsOf(t)
    BY <2>2, WithFields DEF ObjectsOf
  <2>4. u.i \in 1 .. Len(u.events) /\ u.i - 1 = t.i
    BY <1>1, <1>3, <2>3
  <2>5. IsTransaction(u)
    BY <2>3, <2>4 DEF IsTransaction, Stages, Restoring
  <2>6. ASSUME Undisturbed(t, D) PROVE Snapshots(u, r) /\ \A f : IsRun(f, u) => Follows(u, r, f)
    <3>1. Snapshots(u, r)
      BY <2>3, <2>6 DEF Snapshots, Covered, Restoring
    <3>2. ASSUME NEW f, IsRun(f, u) PROVE Follows(u, r, f)
      <4>1. IsRun(f, t)
        BY <2>3, <3>2 DEF IsRun
      <4>2. Passed(t, r, f)
        BY <2>6, <4>1
      <4> QED  BY <2>3, <2>4, <4>2 DEF Passed, Follows, Restoring
    <3> QED  BY <3>1, <3>2
  <2>7. OnCourse(u, r, D)
    BY <2>3, <2>6 DEF OnCourse, Undisturbed
  <2> QED  BY <2>1, <2>3, <2>5, <2>7 DEF Goes
<1> QED  BY <1>2, <1>3

LEMMA GivesUp ==
  ASSUME NEW t, IsTransaction(t), t.at \in {"apply", "place"}, NEW r, NEW D,
         Undisturbed(t, D) => Covered(t) /\ \A f : IsRun(f, t) => Failed(t, r, f)
  PROVE  Goes(t, AfterError(t), r, D)
<1>1. t.i \in 1 .. Len(t.events) /\ Len(t.events) \in Nat /\ DOMAIN t.events = 1 .. Len(t.events)
  BY ObjectsAreObjects DEF IsTransaction
<1>2. CASE t.mode = "none"
  <2>1. AfterError(t) = Resting
    BY <1>2 DEF AfterError
  <2>2. ASSUME Undisturbed(t, D), NEW f, IsRun(f, t) PROVE Kept(t, r, f)
    <3>1. Failed(t, r, f)
      BY <2>2
    <3> QED  BY <3>1, <1>1, <1>2 DEF Failed, Kept
  <2> QED  BY <2>1, <2>2, RestGoes
<1>3. CASE t.mode = "best_effort"
  <2>1. AfterError(t) = NextEvent(t)
    BY <1>3 DEF AfterError
  <2>2. ASSUME Undisturbed(t, D), NEW f, IsRun(f, t) PROVE Passed(t, r, f)
    <3>1. Failed(t, r, f)
      BY <2>2
    <3>2. \A o \in ObjectsOf(t) : f[t.i][o] = f[t.i - 1][o]
      BY <2>2, <3>1, <1>1 DEF Failed, IsRun
    <3> QED  BY <3>1, <3>2, <1>3 DEF Failed, Passed
  <2> QED  BY <2>1, <2>2, Advances
<1>4. CASE t.mode = "rollback"
  <2> DEFINE u == [t EXCEPT !.at = "restore", !.todo = DOMAIN t.saved]
  <2>1. AfterError(t) = u
    BY <1>4 DEF AfterError
  <2>2. u = With(t, "restore", t.i, t.saved, DOMAIN t.saved, t.obj)
    <3>1. Pairs(t, "restore", t.i, t.saved, DOMAIN t.saved, t.obj)
      BY WithAll DEF IsTransaction
    <3> QED  BY <3>1 DEF Pairs
  <2> HIDE DEF u
  <2>3. /\ IsContext(u)
        /\ u.at = "restore" /\ u.mode = t.mode /\ u.events = t.events /\ u.i = t.i
        /\ u.saved = t.saved /\ u.todo = DOMAIN t.saved /\ u.before = t.before
        /\ u.disturbed = t.disturbed /\ ObjectsOf(u) = ObjectsOf(t)
    BY <2>2, WithFields DEF ObjectsOf
  <2>4. IsTransaction(u)
    BY <2>3, <1>4 DEF IsTransaction, Stages, Restoring
  <2>5. ASSUME Undisturbed(t, D) PROVE Snapshots(u, r) /\ \A f : IsRun(f, u) => Follows(u, r, f)
    <3>1. Snapshots(u, r)
      BY <1>4, <2>3, <2>5 DEF Snapshots, Covered
    <3>2. ASSUME NEW f, IsRun(f, u) PROVE Follows(u, r, f)
      <4>1. IsRun(f, t)
        BY <2>3, <3>2 DEF IsRun
      <4>2. Failed(t, r, f)
        BY <2>5, <4>1
      <4> QED  BY <1>1, <2>3, <4>2 DEF Failed, Follows
    <3> QED  BY <3>1, <3>2
  <2>6. OnCourse(u, r, D)
    BY <2>3, <2>5 DEF OnCourse, Undisturbed
  <2> QED  BY <2>1, <2>3, <2>4, <2>6 DEF Goes
<1> QED  BY <1>2, <1>3, <1>4 DEF IsTransaction, Modes

LEMMA SaveGoes ==
  ASSUME StatesTyped, NEW t, IsTransaction(t), OnCourse(t, state, defined), t.at = "save",
         NEW saved, DOMAIN saved = DOMAIN t.saved \union {t.events[t.i].obj},
         \A p \in DOMAIN saved : saved[p] = IF p \in DOMAIN t.saved THEN t.saved[p] ELSE state[p]
  PROVE  Goes(t, IF t.i = Len(t.events) THEN [t EXCEPT !.saved = saved, !.at = "apply", !.i = 1]
                 ELSE [t EXCEPT !.saved = saved, !.i = @ + 1], state, defined)
<1> DEFINE last == t.i = Len(t.events)
           u == IF last THEN [t EXCEPT !.saved = saved, !.at = "apply", !.i = 1]
                ELSE [t EXCEPT !.saved = saved, !.i = @ + 1]
           at == IF last THEN "apply" ELSE "save"
           j == IF last THEN 1 ELSE t.i + 1
<1>1. t.i \in 1 .. Len(t.events) /\ Len(t.events) \in Nat /\ DOMAIN t.events = 1 .. Len(t.events)
  BY ObjectsAreObjects DEF IsTransaction
<1>2. u = With(t, at, j, saved, t.todo, t.obj)
  <2>1. Pairs(t, "apply", 1, saved, t.todo, t.obj) /\ Pairs(t, "apply", t.i + 1, saved, t.todo, t.obj)
    BY WithAll DEF IsTransaction
  <2> QED  BY <2>1 DEF Pairs
<1>3. at \in {"save", "apply"} /\ j \in 1 .. Len(t.events) /\ (at = "apply" => j = 1 /\ last)
      /\ (at = "save" => j = t.i + 1)
  BY <1>1
<1>4. at = "apply" => t.i = Len(t.events)
  BY <1>3
<1> HIDE DEF u, at, j, last
<1>5. /\ IsContext(u)
      /\ u.at = at /\ u.mode = t.mode /\ u.events = t.events /\ u.i = j /\ u.saved = saved
      /\ u.todo = t.todo /\ u.before = t.before /\ u.disturbed = t.disturbed
      /\ ObjectsOf(u) = ObjectsOf(t)
  BY <1>2, WithFields DEF ObjectsOf
<1>6. t.events[t.i].obj \in ObjectsOf(t) /\ ObjectsOf(t) \subseteq Objects
  BY <1>1, ObjectsAreObjects
<1>7. IsTransaction(u)
  <2>1. \A p \in DOMAIN saved : saved[p] \in State \union {None}
    BY <1>6 DEF IsTransaction, StatesTyped
  <2>2. DOMAIN saved \subseteq ObjectsOf(t) /\ t.todo \subseteq DOMAIN saved
    BY <1>6 DEF IsTransaction
  <2>3. t.mode = "rollback"
    BY DEF IsTransaction
  <2> QED  BY <1>3, <1>5, <2>1, <2>2, <2>3 DEF IsTransaction, Stages, Restoring
<1>8. ASSUME Undisturbed(t, defined)
      PROVE  Snapshots(u, state) /\ \A f : IsRun(f, u) => Follows(u, state, f)
  <2>1. Snapshots(t, state)
    BY <1>8 DEF OnCourse, Undisturbed
  <2>2. \A o \in ObjectsOf(t) : state[o] = t.before[o]
    BY <2>1 DEF Snapshots
  <2>3. \A k \in 1 .. t.i : t.events[k].obj \in DOMAIN saved
    BY <1>1, <2>1 DEF Snapshots
  <2>4. at = "apply" => ObjectsOf(t) \subseteq DOMAIN saved
    BY <1>1, <1>4, <2>3 DEF ObjectsOf
  <2>5. \A p \in DOMAIN saved : saved[p] = t.before[p]
    BY <1>6, <2>1, <2>2 DEF Snapshots
  <2>6. at = "save" => \A k \in 1 .. j - 1 : t.events[k].obj \in DOMAIN saved
    BY <1>1, <1>3, <2>3
  <2>7. Snapshots(u, state)
    BY <1>3, <1>5, <2>2, <2>4, <2>5, <2>6 DEF Snapshots, Restoring
  <2>8. ASSUME NEW f, IsRun(f, u) PROVE Follows(u, state, f)
    BY <1>3, <1>5, <2>2, <2>8 DEF Follows, IsRun, Restoring
  <2> QED  BY <2>7, <2>8
<1>9. OnCourse(u, state, defined)
  BY <1>5, <1>8 DEF OnCourse, Undisturbed
<1> QED  BY <1>3, <1>5, <1>7, <1>9 DEF u, last, Goes

\* What a transaction on course says where it is about to apply an event.
LEMMA AtEvent ==
  ASSUME NEW t, IsTransaction(t), NEW s, NEW D, OnCourse(t, s, D), t.at \in {"apply", "place"},
         Undisturbed(t, D)
  PROVE  Covered(t) /\ \A f : IsRun(f, t) => Follows(t, s, f)
BY DEF OnCourse, Undisturbed, Covered, Snapshots

LEMMA RefusedGoes ==
  ASSUME NEW t, IsTransaction(t), OnCourse(t, state, defined), t.at = "apply",
         Refused(state, t.events[t.i])
  PROVE  Goes(t, AfterError(t), state, defined)
<1> DEFINE e == t.events[t.i]
<1>1. t.i \in DOMAIN t.events /\ e.obj \in ObjectsOf(t)
  BY ObjectsAreObjects DEF IsTransaction
<1>2. ASSUME Undisturbed(t, defined), NEW f, IsRun(f, t) PROVE Failed(t, state, f)
  <2>1. Follows(t, state, f)
    BY <1>2, AtEvent
  <2>2. \A o \in ObjectsOf(t) : state[o] = f[t.i - 1][o]
    BY <2>1 DEF Follows
  <2>3. e.obj \in defined
    BY <1>1, <1>2 DEF Undisturbed
  <2>4. Rejected(state, e)
    BY <2>3 DEF Refused, Rejected
  <2>5. Rejected(f[t.i - 1], e)
    BY <1>1, <2>2, <2>4 DEF Rejected
  <2>6. t.mode # "best_effort" => \A k \in 1 .. t.i - 1 : ~ Rejected(f[k - 1], t.events[k])
    BY <2>1 DEF Follows
  <2> QED  BY <2>2, <2>5, <2>6 DEF Failed
<1>3. Undisturbed(t, defined) => Covered(t)
  BY AtEvent
<1> QED  BY <1>2, <1>3, GivesUp

LEMMA AppliedGoes ==
  ASSUME StatesTyped, NEW t, IsTransaction(t), OnCourse(t, state, defined), t.at = "apply",
         ~ Refused(state, t.events[t.i]),
         NEW r, r = [state EXCEPT ![t.events[t.i].obj] =
                       AfterCall(state[t.events[t.i].obj], t.events[t.i])]
  PROVE  Goes(t, IF t.events[t.i].type = "create" /\ t.events[t.i].pos # None
                 THEN [t EXCEPT !.at = "place"] ELSE NextEvent(t), r, defined)
<1> DEFINE e == t.events[t.i]
<1>1. /\ t.i \in DOMAIN t.events /\ e \in Event /\ e.obj \in ObjectsOf(t)
      /\ ObjectsOf(t) \subseteq Objects /\ DOMAIN t.events = 1 .. Len(t.events)
      /\ Len(t.events) \in Nat
  BY ObjectsAreObjects DEF IsTransaction
<1>2. \A o \in ObjectsOf(t) : r[o] = IF o = e.obj THEN AfterCall(state[o], e) ELSE state[o]
  BY <1>1 DEF StatesTyped
<1> HIDE DEF e
<1>3. ~ Rejected(state, e)
  BY DEF Rejected, Refused, e
<1>4. ASSUME NEW f, Follows(t, state, f)
      PROVE  /\ \A o \in ObjectsOf(t) : state[o] = f[t.i - 1][o]
             /\ ~ Rejected(f[t.i - 1], e)
             /\ t.mode # "best_effort" => \A k \in 1 .. t.i - 1 : ~ Rejected(f[k - 1], t.events[k])
  <2>1. \A o \in ObjectsOf(t) : state[o] = f[t.i - 1][o]
    BY <1>4 DEF Follows
  <2>2. ~ Rejected(f[t.i - 1], e)
    BY <1>1, <1>3, <2>1 DEF Rejected
  <2> QED  BY <1>4, <2>1, <2>2 DEF Follows
<1>5. CASE e.type = "create" /\ e.pos # None
  <2> DEFINE u == [t EXCEPT !.at = "place"]
  <2>1. u = With(t, "place", t.i, t.saved, t.todo, t.obj)
    BY WithOne DEF IsTransaction
  <2> HIDE DEF u
  <2>2. /\ IsContext(u)
        /\ u.at = "place" /\ u.mode = t.mode /\ u.events = t.events /\ u.i = t.i
        /\ u.saved = t.saved /\ u.todo = t.todo /\ u.before = t.before
        /\ u.disturbed = t.disturbed /\ ObjectsOf(u) = ObjectsOf(t)
    BY <2>1, WithFields DEF ObjectsOf
  <2>3. IsTransaction(u)
    BY <1>5, <2>2 DEF IsTransaction, Stages, Restoring, e
  <2>4. ASSUME Undisturbed(t, defined)
        PROVE  Snapshots(u, r) /\ \A f : IsRun(f, u) => Follows(u, r, f)
    <3>1. Covered(t)
      BY <2>4, AtEvent
    <3>2. Snapshots(u, r)
      BY <2>2, <3>1 DEF Snapshots, Covered, Restoring
    <3>3. ASSUME NEW f, IsRun(f, u) PROVE Follows(u, r, f)
      <4>1. IsRun(f, t)
        BY <2>2, <3>3 DEF IsRun
      <4>2. Follows(t, state, f)
        BY <2>4, <4>1, AtEvent
      <4>3. \A o \in ObjectsOf(t) : r[o] = IF o = e.obj THEN Born(e) ELSE f[t.i - 1][o]
        BY <1>2, <1>4, <1>5, <4>2 DEF AfterCall
      <4>4. /\ ~ Rejected(f[t.i - 1], e)
            /\ t.mode # "best_effort" => \A k \in 1 .. t.i - 1 : ~ Rejected(f[k - 1], t.events[k])
        BY <1>4, <4>2
      <4> QED  BY <2>2, <4>3, <4>4 DEF Follows, Restoring, e
    <3> QED  BY <3>2, <3>3
  <2>5. OnCourse(u, r, defined)
    BY <2>2, <2>4 DEF OnCourse, Undisturbed
  <2> QED  BY <1>5, <2>2, <2>3, <2>5 DEF Goes, u, e
<1>6. CASE ~ (e.type = "create" /\ e.pos # None)
  <2>1. ASSUME Undisturbed(t, defined), NEW f, IsRun(f, t) PROVE Passed(t, r, f)
    <3>1. Follows(t, state, f)
      BY <2>1, AtEvent
    <3>2. \A st : Whole(st, e) = AfterCall(st, e)
      BY <1>6 DEF Whole, AfterCall, Placed
    <3>3. \A o \in ObjectsOf(t) :
            f[t.i][o] = IF o = e.obj THEN Whole(f[t.i - 1][o], e) ELSE f[t.i - 1][o]
      BY <1>1, <1>4, <2>1, <3>1 DEF IsRun, e
    <3>4. \A o \in ObjectsOf(t) : r[o] = f[t.i][o]
      BY <1>2, <1>4, <3>1, <3>2, <3>3
    <3>5. t.mode # "best_effort" => \A k \in 1 .. t.i : ~ Rejected(f[k - 1], t.events[k])
      BY <1>1, <1>4, <3>1 DEF e
    <3> QED  BY <3>4, <3>5 DEF Passed
  <2>2. Goes(t, NextEvent(t), r, defined)
    BY <2>1, AtEvent, Advances
  <2> QED  BY <1>6, <2>2 DEF e
<1> QED  BY <1>5, <1>6

\* The object of a creation is there when nobody came between its two calls.
LEMMA GoneGoes ==
  ASSUME StatesTyped, NEW t, IsTransaction(t), OnCourse(t, state, defined), t.at = "place",
         state[t.events[t.i].obj] = None
  PROVE  Goes(t, AfterError(t), state, defined)
<1>1. t.i \in DOMAIN t.events /\ t.events[t.i] \in Event /\ t.events[t.i].obj \in ObjectsOf(t)
  BY ObjectsAreObjects DEF IsTransaction
<1>2. ASSUME Undisturbed(t, defined), NEW f, IsRun(f, t) PROVE FALSE
  <2>1. Follows(t, state, f)
    BY <1>2, AtEvent
  <2>2. state[t.events[t.i].obj] = Born(t.events[t.i])
    BY <1>1, <2>1 DEF Follows
  <2> QED  BY <1>1, <2>2, BornTyped
<1>3. Undisturbed(t, defined) => Covered(t)
  BY AtEvent
<1> QED  BY <1>2, <1>3, GivesUp

LEMMA PlacedGoes ==
  ASSUME StatesTyped, NEW t, IsTransaction(t), OnCourse(t, state, defined), t.at = "place",
         NEW r, r = [state EXCEPT ![t.events[t.i].obj] =
                       Placed(state[t.events[t.i].obj], t.events[t.i])]
  PROVE  Goes(t, NextEvent(t), r, defined)
<1> DEFINE e == t.events[t.i]
<1>1. /\ t.i \in DOMAIN t.events /\ e.obj \in ObjectsOf(t) /\ e.type = "create"
      /\ ObjectsOf(t) \subseteq Objects /\ DOMAIN t.events = 1 .. Len(t.events)
      /\ Len(t.events) \in Nat
  BY ObjectsAreObjects DEF IsTransaction
<1>2. \A o \in ObjectsOf(t) : r[o] = IF o = e.obj THEN Placed(state[o], e) ELSE state[o]
  BY <1>1 DEF StatesTyped
<1>3. ASSUME Undisturbed(t, defined), NEW f, IsRun(f, t) PROVE Passed(t, r, f)
  <2>1. Follows(t, state, f)
    BY <1>3, AtEvent
  <2>2. \A o \in ObjectsOf(t) : state[o] = IF o = e.obj THEN Born(e) ELSE f[t.i - 1][o]
    BY <2>1 DEF Follows
  <2>3. ~ Rejected(f[t.i - 1], e)
    BY <2>1 DEF Follows
  <2>4. \A o \in ObjectsOf(t) : f[t.i][o] = IF o = e.obj THEN Placed(Born(e), e) ELSE f[t.i - 1][o]
    <3>1. \A st : Whole(st, e) = Placed(Born(e), e)
      BY <1>1 DEF Whole
    <3>2. \A o \in ObjectsOf(t) :
            f[t.i][o] = IF o = e.obj THEN Whole(f[t.i - 1][o], e) ELSE f[t.i - 1][o]
      BY <1>1, <1>3, <2>3 DEF IsRun
    <3> HIDE DEF e
    <3> QED  BY <3>1, <3>2
  <2>5. t.mode # "best_effort" => \A k \in 1 .. t.i - 1 : ~ Rejected(f[k - 1], t.events[k])
    BY <2>1 DEF Follows
  <2>6. t.mode # "best_effort" => \A k \in 1 .. t.i : ~ Rejected(f[k - 1], t.events[k])
    BY <1>1, <2>3, <2>5
  <2> HIDE DEF e
  <2>7. \A o \in ObjectsOf(t) : r[o] = f[t.i][o]
    BY <1>2, <2>2, <2>4
  <2> QED  BY <2>6, <2>7 DEF Passed
<1>4. Undisturbed(t, defined) => Covered(t)
  BY AtEvent
<1> QED  BY <1>3, <1>4, Advances

\* What a transaction on course says while it restores.
LEMMA AtRestore ==
  ASSUME NEW t, IsTransaction(t), NEW s, NEW D, OnCourse(t, s, D), t.at \in Restoring,
         Undisturbed(t, D)
  PROVE  /\ Covered(t) /\ t.mode = "rollback"
         /\ \A o \in ObjectsOf(t) \ t.todo : s[o] = t.before[o]
         /\ \A f : IsRun(f, t) => \E k \in DOMAIN t.events : Rejected(f[k - 1], t.events[k])
<1>1. t.at # "rest" /\ t.at # "save" /\ t.mode = "rollback"
  BY DEF Restoring, IsTransaction
<1>2. Snapshots(t, s) /\ \A f : IsRun(f, t) => Follows(t, s, f)
  BY <1>1 DEF OnCourse, Undisturbed
<1> QED  BY <1>1, <1>2 DEF Snapshots, Covered, Follows

\* An object is as it was when the transaction began, and the rest of them is to do.
LEMMA RestoredGoes ==
  ASSUME NEW t, IsTransaction(t), NEW D, OnCourse(t, state, D), t.at \in Restoring,
         NEW o \in t.todo, NEW r,
         Undisturbed(t, D) => r[o] = t.saved[o] /\ \A p \in ObjectsOf(t) \ {o} : r[p] = state[p],
         NEW v, NEW u, u = [t EXCEPT !.obj = v] \/ u = t
  PROVE  Goes(t, Restored(u, o), r, D)
<1>1. u = With(t, t.at, t.i, t.saved, t.todo, u.obj)
  <2>1. IsContext(t)
    BY DEF IsTransaction
  <2>2. CASE u = t
    BY <2>1, <2>2 DEF IsContext
  <2>3. CASE u = [t EXCEPT !.obj = v]
    <3>1. u = With(t, t.at, t.i, t.saved, t.todo, v)
      BY <2>1, <2>3 DEF IsContext, With
    <3> QED  BY <3>1, WithFields
  <2> QED  BY <2>2, <2>3
<1>2. IsContext(u) /\ u.todo = t.todo /\ u.i = t.i /\ u.saved = t.saved
  BY <1>1, WithFields
<1>3. ASSUME Undisturbed(t, D) PROVE \A p \in ObjectsOf(t) \ (t.todo \ {o}) : r[p] = t.before[p]
  <2>1. o \in DOMAIN t.saved /\ t.saved[o] = t.before[o]
    BY <1>3, AtRestore DEF Covered, IsTransaction
  <2>2. \A p \in ObjectsOf(t) \ t.todo : state[p] = t.before[p]
    BY <1>3, AtRestore
  <2> QED  BY <1>3, <2>1, <2>2
<1>4. CASE t.todo = {o}
  <2>1. Restored(u, o) = Resting
    BY <1>2, <1>4 DEF Restored
  <2>2. ASSUME Undisturbed(t, D), NEW f, IsRun(f, t) PROVE Kept(t, r, f)
    <3>1. \A p \in ObjectsOf(t) : r[p] = t.before[p]
      BY <1>3, <1>4, <2>2
    <3> QED  BY <2>2, <3>1, AtRestore DEF Kept
  <2> QED  BY <2>1, <2>2, RestGoes
<1>5. CASE t.todo # {o}
  <2> DEFINE w == [u EXCEPT !.todo = @ \ {o}, !.at = "restore"]
  <2>1. Restored(u, o) = w
    BY <1>2, <1>5 DEF Restored
  <2>2. w = With(u, "restore", u.i, u.saved, u.todo \ {o}, u.obj)
    <3>1. Pairs(u, "restore", u.i, u.saved, u.todo \ {o}, u.obj)
      BY <1>2, WithAll
    <3> QED  BY <3>1 DEF Pairs
  <2> HIDE DEF w
  <2>3. /\ IsContext(w)
        /\ w.at = "restore" /\ w.mode = u.mode /\ w.events = u.events
        /\ w.saved = u.saved /\ w.todo = u.todo \ {o} /\ w.before = u.before
        /\ w.disturbed = u.disturbed
    BY <2>2, WithFields
  <2>4. u.mode = t.mode /\ u.events = t.events /\ u.before = t.before /\ u.disturbed = t.disturbed
    BY <1>1, WithFields
  <2>5. /\ w.mode = t.mode /\ w.events = t.events /\ w.saved = t.saved /\ w.todo = t.todo \ {o}
        /\ w.before = t.before /\ w.disturbed = t.disturbed /\ ObjectsOf(w) = ObjectsOf(t)
    BY <1>2, <2>3, <2>4 DEF ObjectsOf
  <2>6. t.mode = "rollback"
    BY DEF IsTransaction
  <2>7. IsTransaction(w)
    BY <2>3, <2>5, <2>6 DEF IsTransaction, Stages, Restoring
  <2>8. ASSUME Undisturbed(t, D) PROVE Snapshots(w, r) /\ \A f : IsRun(f, w) => Follows(w, r, f)
    <3>1. Snapshots(w, r)
      BY <1>3, <2>3, <2>5, <2>8, AtRestore DEF Snapshots, Covered
    <3>2. ASSUME NEW f, IsRun(f, w) PROVE Follows(w, r, f)
      <4>1. IsRun(f, t)
        BY <2>5, <3>2 DEF IsRun
      <4>2. \E k \in DOMAIN t.events : Rejected(f[k - 1], t.events[k])
        BY <2>8, <4>1, AtRestore
      <4> QED  BY <2>3, <2>5, <4>2 DEF Follows
    <3> QED  BY <3>1, <3>2
  <2>9. OnCourse(w, r, D)
    BY <2>5, <2>8 DEF OnCourse, Undisturbed
  <2> QED  BY <2>1, <2>3, <2>7, <2>9 DEF Goes
<1> QED  BY <1>4, <1>5

\* An object is found to be removed, created or written.
LEMMA TurnsTo ==
  ASSUME NEW t, IsTransaction(t), NEW D, OnCourse(t, state, D), t.at \in Restoring,
         NEW o \in t.todo, NEW a \in {"remove", "recreate", "rewrite"}, NEW r,
         a = "remove" <=> t.saved[o] = None, a = "recreate" <=> r[o] = None,
         \A p \in ObjectsOf(t) \ {o} : r[p] = state[p],
         NEW u, u = With(t, a, t.i, t.saved, t.todo, o)
  PROVE  Goes(t, u, r, D)
<1>1. /\ IsContext(u)
      /\ u.at = a /\ u.mode = t.mode /\ u.events = t.events /\ u.saved = t.saved
      /\ u.todo = t.todo /\ u.obj = o /\ u.before = t.before
      /\ u.disturbed = t.disturbed /\ ObjectsOf(u) = ObjectsOf(t)
  BY WithFields DEF ObjectsOf
<1>2. t.mode = "rollback"
  BY DEF IsTransaction
<1>3. IsTransaction(u)
  BY <1>1, <1>2 DEF IsTransaction, Stages, Restoring
<1>4. ASSUME Undisturbed(t, D) PROVE Snapshots(u, r) /\ \A f : IsRun(f, u) => Follows(u, r, f)
  <2>1. \A p \in ObjectsOf(t) \ t.todo : r[p] = t.before[p]
    BY <1>4, AtRestore
  <2>2. Snapshots(u, r)
    BY <1>1, <1>4, <2>1, AtRestore DEF Snapshots, Covered
  <2>3. ASSUME NEW f, IsRun(f, u) PROVE Follows(u, r, f)
    <3>1. IsRun(f, t)
      BY <1>1, <2>3 DEF IsRun
    <3>2. \E k \in DOMAIN t.events : Rejected(f[k - 1], t.events[k])
      BY <1>4, <3>1, AtRestore
    <3> QED  BY <1>1, <3>2 DEF Follows
  <2> QED  BY <2>2, <2>3
<1>5. OnCourse(u, r, D)
  BY <1>1, <1>4 DEF OnCourse, Undisturbed
<1> QED  BY <1>1, <1>3, <1>5 DEF Goes

LEMMA LookGoes ==
  ASSUME NEW t, IsTransaction(t), OnCourse(t, state, defined), t.at = "restore",
         NEW o \in t.todo
  PROVE  Goes(t, CASE t.saved[o] = None /\ state[o] = None -> Restored(t, o)
                   [] t.saved[o] = None /\ state[o] # None -> [t EXCEPT !.at = "remove", !.obj = o]
                   [] t.saved[o] # None /\ state[o] = None -> [t EXCEPT !.at = "recreate", !.obj = o]
                   [] OTHER -> [t EXCEPT !.at = "rewrite", !.obj = o], state, defined)
<1>1. t.at \in Restoring
  BY DEF Restoring
<1>2. CASE t.saved[o] = None /\ state[o] = None
  <2>1. Goes(t, Restored(t, o), state, defined)
    BY <1>1, <1>2, RestoredGoes
  <2> QED  BY <1>2, <2>1
<1>3. ASSUME NEW a \in {"remove", "recreate", "rewrite"},
             a = "remove" <=> t.saved[o] = None, a = "recreate" <=> state[o] = None
      PROVE  Goes(t, [t EXCEPT !.at = a, !.obj = o], state, defined)
  <2>1. Pairs(t, a, t.i, t.saved, t.todo, o)
    BY WithAll DEF IsTransaction
  <2>2. [t EXCEPT !.at = a, !.obj = o] = With(t, a, t.i, t.saved, t.todo, o)
    BY <2>1 DEF Pairs
  <2> QED  BY <1>1, <1>3, <2>2, TurnsTo
<1>4. CASE t.saved[o] = None /\ state[o] # None
  <2>1. Goes(t, [t EXCEPT !.at = "remove", !.obj = o], state, defined)
    BY <1>3, <1>4
  <2> QED  BY <1>4, <2>1
<1>5. CASE t.saved[o] # None /\ state[o] = None
  <2>1. Goes(t, [t EXCEPT !.at = "recreate", !.obj = o], state, defined)
    BY <1>3, <1>5
  <2> QED  BY <1>5, <2>1
<1>6. CASE t.saved[o] # None /\ state[o] # None
  <2>1. Goes(t, [t EXCEPT !.at = "rewrite", !.obj = o], state, defined)
    BY <1>3, <1>6
  <2> QED  BY <1>6, <2>1
<1> QED  BY <1>2, <1>4, <1>5, <1>6

\* The object a restoration is at is one of its transaction, and as it was seen to be.
LEMMA AtObject ==
  ASSUME NEW t, IsTransaction(t), t.at \in {"remove", "recreate", "rewrite"}
  PROVE  /\ t.obj \in t.todo /\ t.obj \in ObjectsOf(t) /\ t.obj \in Objects /\ t.at \in Restoring
         /\ t.saved[t.obj] \in State \union {None}
         /\ \A s, D : OnCourse(t, s, D) /\ Undisturbed(t, D) =>
              (t.at = "recreate" <=> s[t.obj] = None)
<1>1. t.obj \in t.todo /\ t.obj \in ObjectsOf(t) /\ t.saved[t.obj] \in State \union {None}
  BY DEF IsTransaction
<1>2. t.at \in Restoring /\ t.at # "rest" /\ t.obj \in Objects
  BY <1>1, ObjectsAreObjects DEF Restoring
<1>3. ASSUME NEW s, NEW D, OnCourse(t, s, D), Undisturbed(t, D)
      PROVE  t.at = "recreate" <=> s[t.obj] = None
  <2>1. Snapshots(t, s)
    BY <1>2, <1>3 DEF OnCourse, Undisturbed
  <2> QED  BY <2>1 DEF Snapshots
<1> QED  BY <1>1, <1>2, <1>3

LEMMA RemoveGoes ==
  ASSUME StatesTyped, NEW t, IsTransaction(t), OnCourse(t, state, defined), t.at = "remove"
  PROVE  /\ state[t.obj] = None => Goes(t, Resting, state, defined)
         /\ Goes(t, Restored([t EXCEPT !.obj = None], t.obj),
                 [state EXCEPT ![t.obj] = None], defined)
<1> DEFINE r == [state EXCEPT ![t.obj] = None]
<1>1. t.obj \in t.todo /\ t.obj \in Objects /\ t.at \in Restoring /\ t.saved[t.obj] = None
  BY AtObject DEF IsTransaction
<1>2. r[t.obj] = None /\ \A p \in ObjectsOf(t) \ {t.obj} : r[p] = state[p]
  BY <1>1, ObjectsAreObjects DEF StatesTyped
<1>3. state[t.obj] = None => ~ Undisturbed(t, defined)
  BY AtObject
<1> HIDE DEF r
<1>4. Goes(t, Restored([t EXCEPT !.obj = None], t.obj), r, defined)
  BY <1>1, <1>2, RestoredGoes
<1> QED  BY <1>3, <1>4, RestGoes DEF r

LEMMA RewriteGoes ==
  ASSUME StatesTyped, NEW t, IsTransaction(t), OnCourse(t, state, defined), t.at = "rewrite"
  PROVE  /\ state[t.obj] = None => Goes(t, Resting, state, defined)
         /\ Goes(t, Restored([t EXCEPT !.obj = None], t.obj),
                 [state EXCEPT ![t.obj] = t.saved[t.obj]], defined)
<1> DEFINE r == [state EXCEPT ![t.obj] = t.saved[t.obj]]
<1>1. t.obj \in t.todo /\ t.obj \in Objects /\ t.at \in Restoring
  BY AtObject
<1>2. r[t.obj] = t.saved[t.obj] /\ \A p \in ObjectsOf(t) \ {t.obj} : r[p] = state[p]
  BY <1>1, ObjectsAreObjects DEF StatesTyped
<1>3. state[t.obj] = None => ~ Undisturbed(t, defined)
  BY AtObject
<1> HIDE DEF r
<1>4. Goes(t, Restored([t EXCEPT !.obj = None], t.obj), r, defined)
  BY <1>1, <1>2, RestoredGoes
<1> QED  BY <1>3, <1>4, RestGoes DEF r

LEMMA RecreateGoes ==
  ASSUME StatesTyped, NEW t, IsTransaction(t), OnCourse(t, state, defined), t.at = "recreate",
         NEW e, e = [obj |-> t.obj, type |-> "create", pos |-> None, vel |-> t.saved[t.obj].vel]
  PROVE  /\ e \in Event
         /\ Refused(state, e) => Goes(t, Resting, state, defined)
         /\ Goes(t, [t EXCEPT !.at = "rewrite"], [state EXCEPT ![t.obj] = Born(e)], defined)
<1> DEFINE r == [state EXCEPT ![t.obj] = Born(e)]
<1>1. /\ t.obj \in t.todo /\ t.obj \in ObjectsOf(t) /\ t.obj \in Objects /\ t.at \in Restoring
      /\ t.saved[t.obj] \in State
  BY AtObject DEF IsTransaction
<1>2. e \in Event
  BY <1>1 DEF Event, Types, State
<1>3. r[t.obj] # None /\ \A p \in ObjectsOf(t) \ {t.obj} : r[p] = state[p]
  <2>1. Born(e) # None
    BY <1>2, BornTyped
  <2> QED  BY <1>1, <2>1, ObjectsAreObjects DEF StatesTyped
<1>4. Refused(state, e) => ~ Undisturbed(t, defined)
  <2>1. e.type = "create" /\ e.obj = t.obj
    OBVIOUS
  <2>2. Refused(state, e) => t.obj \notin defined \/ state[t.obj] # None
    BY <2>1 DEF Refused
  <2> QED  BY <1>1, <2>2, AtObject DEF Undisturbed
<1> HIDE DEF r
<1>5. Goes(t, [t EXCEPT !.at = "rewrite"], r, defined)
  <2> DEFINE u == [t EXCEPT !.at = "rewrite"]
  <2>1. u = With(t, "rewrite", t.i, t.saved, t.todo, t.obj)
    BY WithOne DEF IsTransaction
  <2>2. t.saved[t.obj] # None
    BY DEF IsTransaction
  <2> HIDE DEF u
  <2>3. Goes(t, u, r, defined)
    BY <1>1, <1>3, <2>1, <2>2, TurnsTo
  <2> QED  BY <2>3 DEF u
<1> QED  BY <1>2, <1>4, <1>5, RestGoes DEF r

-----------------------------------------------------------------------------
(* The steps of the specification.                                         *)

\* Goroutine x goes on as u, having written the objects S and no other.
Moves(x, u, S) ==
  /\ Continue(x, u, S) /\ Goes(tx[x], u, state', defined)
  /\ state' \in [Objects -> State \union {None}]
  /\ \A o \in Objects \ S : state'[o] = state[o]

LEMMA SaveMoves ==
  ASSUME StatesTyped, TxInv, NEW x \in Goroutines, Save(x)
  PROVE  \E u, S : Moves(x, u, S)
<1> DEFINE t == tx[x]
           o == t.events[t.i].obj
           saved == IF o \in DOMAIN t.saved THEN t.saved
                    ELSE [p \in DOMAIN t.saved \union {o} |-> IF p = o THEN state[o] ELSE t.saved[p]]
           u == IF t.i = Len(t.events) THEN [t EXCEPT !.saved = saved, !.at = "apply", !.i = 1]
                ELSE [t EXCEPT !.saved = saved, !.i = @ + 1]
<1>1. IsTransaction(t) /\ OnCourse(t, state, defined)
  BY DEF TxInv
<1>2. t.at = "save" /\ Continue(x, u, {}) /\ state' = state
  BY DEF Save
<1>3. DOMAIN saved = DOMAIN t.saved \union {o}
      /\ \A p \in DOMAIN saved : saved[p] = IF p \in DOMAIN t.saved THEN t.saved[p] ELSE state[p]
  OBVIOUS
<1> HIDE DEF t, saved
<1>4. Goes(t, u, state, defined)
  BY <1>1, <1>2, <1>3, SaveGoes
<1>5. Moves(x, u, {})
  BY <1>2, <1>4 DEF Moves, StatesTyped, t
<1> QED  BY <1>5

LEMMA ApplyMoves ==
  ASSUME StatesTyped, TxInv, NEW x \in Goroutines, Apply(x)
  PROVE  \E u, S : Moves(x, u, S)
<1> DEFINE t == tx[x]
           e == t.events[t.i]
           r == [state EXCEPT ![e.obj] = AfterCall(state[e.obj], e)]
           u == IF e.type = "create" /\ e.pos # None THEN [t EXCEPT !.at = "place"]
                ELSE NextEvent(t)
           S == IF e.type = "custom" THEN {} ELSE {e.obj}
<1>1. IsTransaction(t) /\ OnCourse(t, state, defined)
  BY DEF TxInv
<1>2. CASE Refused(state, e)
  <2>1. t.at = "apply" /\ Continue(x, AfterError(t), {}) /\ state' = state
    BY <1>2 DEF Apply
  <2>2. Goes(t, AfterError(t), state, defined)
    BY <1>1, <1>2, <2>1, RefusedGoes
  <2>3. Moves(x, AfterError(t), {})
    BY <2>1, <2>2 DEF Moves, StatesTyped
  <2> QED  BY <2>3
<1>3. CASE ~ Refused(state, e)
  <2>1. t.at = "apply" /\ Continue(x, u, S) /\ state' = r
    BY <1>3 DEF Apply, Write
  <2>2. e \in Event /\ e.obj \in Objects
    BY <1>1, <2>1, ObjectsAreObjects DEF IsTransaction
  <2>3. Goes(t, u, r, defined)
    <3> HIDE DEF t
    <3> QED  BY <1>1, <1>3, <2>1, AppliedGoes
  <2>4. AfterCall(state[e.obj], e) \in State \union {None}
    BY <1>3, <2>2, AfterTyped DEF Refused, StatesTyped
  <2>5. e.type = "custom" => AfterCall(state[e.obj], e) = state[e.obj]
    BY DEF AfterCall
  <2> HIDE DEF t, e, u
  <2>6. r \in [Objects -> State \union {None}] /\ \A o \in Objects \ S : r[o] = state[o]
    BY <2>2, <2>4, <2>5 DEF StatesTyped
  <2>7. Moves(x, u, S)
    BY <2>1, <2>3, <2>6 DEF Moves, t
  <2> QED  BY <2>7
<1> QED  BY <1>2, <1>3

LEMMA PlaceMoves ==
  ASSUME StatesTyped, TxInv, NEW x \in Goroutines, Place(x)
  PROVE  \E u, S : Moves(x, u, S)
<1> DEFINE t == tx[x]
           e == t.events[t.i]
           r == [state EXCEPT ![e.obj] = Placed(state[e.obj], e)]
<1>1. IsTransaction(t) /\ OnCourse(t, state, defined) /\ t.at = "place"
  BY DEF TxInv, Place
<1>2. CASE state[e.obj] = None
  <2>1. Continue(x, AfterError(t), {}) /\ state' = state
    BY <1>2 DEF Place
  <2>2. Goes(t, AfterError(t), state, defined)
    BY <1>1, <1>2, GoneGoes
  <2>3. Moves(x, AfterError(t), {})
    BY <2>1, <2>2 DEF Moves, StatesTyped
  <2> QED  BY <2>3
<1>3. CASE state[e.obj] # None
  <2>1. Continue(x, NextEvent(t), {e.obj}) /\ state' = r
    BY <1>3 DEF Place, Write
  <2>2. e \in Event /\ e.obj \in Objects
    BY <1>1, ObjectsAreObjects DEF IsTransaction
  <2>3. Goes(t, NextEvent(t), r, defined)
    <3> HIDE DEF t
    <3> QED  BY <1>1, PlacedGoes
  <2>4. Placed(state[e.obj], e) \in State
    BY <1>3, <2>2, PlacedTyped DEF StatesTyped
  <2> HIDE DEF t, e
  <2>5. r \in [Objects -> State \union {None}] /\ \A o \in Objects \ {e.obj} : r[o] = state[o]
    BY <2>2, <2>4 DEF StatesTyped
  <2>6. Moves(x, NextEvent(t), {e.obj})
    BY <2>1, <2>3, <2>5 DEF Moves, t
  <2> QED  BY <2>6
<1> QED  BY <1>2, <1>3

LEMMA RestoreMoves ==
  ASSUME StatesTyped, TxInv, NEW x \in Goroutines,
         RestoreLook(x) \/ RestoreRemove(x) \/ RestoreCreate(x) \/ RestoreWrite(x)
  PROVE  \E u, S : Moves(x, u, S)
<1> DEFINE t == tx[x]
           R(st) == [state EXCEPT ![t.obj] = st]
           done == Restored([t EXCEPT !.obj = None], t.obj)
<1>1. IsTransaction(t) /\ OnCourse(t, state, defined)
  BY DEF TxInv
<1>2. CASE RestoreLook(x)
  <2>1. t.at = "restore" /\ state' = state
    BY <1>2 DEF RestoreLook
  <2>2. PICK o \in t.todo :
          Continue(x, CASE t.saved[o] = None /\ state[o] = None -> Restored(t, o)
                        [] t.saved[o] = None /\ state[o] # None -> [t EXCEPT !.at = "remove", !.obj = o]
                        [] t.saved[o] # None /\ state[o] = None -> [t EXCEPT !.at = "recreate", !.obj = o]
                        [] OTHER -> [t EXCEPT !.at = "rewrite", !.obj = o], {})
    BY <1>2 DEF RestoreLook
  <2> DEFINE u == CASE t.saved[o] = None /\ state[o] = None -> Restored(t, o)
                    [] t.saved[o] = None /\ state[o] # None -> [t EXCEPT !.at = "remove", !.obj = o]
                    [] t.saved[o] # None /\ state[o] = None -> [t EXCEPT !.at = "recreate", !.obj = o]
                    [] OTHER -> [t EXCEPT !.at = "rewrite", !.obj = o]
  <2>3. Goes(t, u, state, defined)
    BY <1>1, <2>1, LookGoes
  <2>4. Continue(x, u, {})
    BY <2>2
  <2> HIDE DEF u
  <2>5. Moves(x, u, {})
    BY <2>1, <2>3, <2>4 DEF Moves, StatesTyped
  <2> QED  BY <2>5
<1>3. ASSUME t.at \in {"remove", "recreate", "rewrite"}, NEW st \in State \union {None}, NEW u,
             Goes(t, u, R(st), defined), Continue(x, u, {t.obj}), state' = R(st)
      PROVE  Moves(x, u, {t.obj})
  <2>1. t.obj \in Objects
    BY <1>1, <1>3, AtObject
  <2>2. R(st) \in [Objects -> State \union {None}] /\ \A o \in Objects \ {t.obj} : R(st)[o] = state[o]
    BY <2>1 DEF StatesTyped
  <2> QED  BY <1>3, <2>2 DEF Moves
<1>4. ASSUME Goes(t, Resting, state, defined), Continue(x, Resting, {}), state' = state
      PROVE  Moves(x, Resting, {})
  BY <1>4 DEF Moves, StatesTyped
<1>5. CASE RestoreRemove(x)
  <2>1. t.at = "remove"
    BY <1>5 DEF RestoreRemove
  <2>2. CASE state[t.obj] = None
    BY <1>1, <1>4, <1>5, <2>1, <2>2, RemoveGoes DEF RestoreRemove
  <2>3. CASE state[t.obj] # None
    <3>1. Continue(x, done, {t.obj}) /\ state' = R(None)
      BY <1>5, <2>3 DEF RestoreRemove, Write
    <3>2. Goes(t, done, R(None), defined)
      BY <1>1, <2>1, RemoveGoes
    <3>3. Moves(x, done, {t.obj})
      BY <1>3, <2>1, <3>1, <3>2
    <3> QED  BY <3>3
  <2> QED  BY <2>2, <2>3
<1>6. CASE RestoreWrite(x)
  <2>1. t.at = "rewrite"
    BY <1>6 DEF RestoreWrite
  <2>2. CASE state[t.obj] = None
    BY <1>1, <1>4, <1>6, <2>1, <2>2, RewriteGoes DEF RestoreWrite
  <2>3. CASE state[t.obj] # None
    <3>1. Continue(x, done, {t.obj}) /\ state' = R(t.saved[t.obj])
      BY <1>6, <2>3 DEF RestoreWrite, Write
    <3>2. Goes(t, done, R(t.saved[t.obj]), defined)
      BY <1>1, <2>1, RewriteGoes
    <3>3. t.saved[t.obj] \in State \union {None}
      BY <1>1, <2>1, AtObject
    <3>4. Moves(x, done, {t.obj})
      BY <1>3, <2>1, <3>1, <3>2, <3>3
    <3> QED  BY <3>4
  <2> QED  BY <2>2, <2>3
<1>7. CASE RestoreCreate(x)
  <2> DEFINE e == [obj |-> t.obj, type |-> "create", pos |-> None, vel |-> t.saved[t.obj].vel]
             u == [t EXCEPT !.at = "rewrite"]
  <2>1. t.at = "recreate"
    BY <1>7 DEF RestoreCreate
  <2>2. /\ e \in Event
        /\ Refused(state, e) => Goes(t, Resting, state, defined)
        /\ Goes(t, u, R(Born(e)), defined)
    BY <1>1, <2>1, RecreateGoes
  <2>3. CASE Refused(state, e)
    <3>1. Continue(x, Resting, {}) /\ state' = state
      BY <1>7, <2>3 DEF RestoreCreate
    <3> QED  BY <1>4, <2>2, <2>3, <3>1
  <2>4. CASE ~ Refused(state, e)
    <3>1. Continue(x, u, {t.obj}) /\ state' = R(Born(e))
      BY <1>7, <2>4 DEF RestoreCreate, Write
    <3>2. Born(e) \in State
      BY <2>2, BornTyped
    <3> HIDE DEF u, e
    <3>3. Moves(x, u, {t.obj})
      BY <1>3, <2>1, <2>2, <3>1, <3>2
    <3> QED  BY <3>3
  <2> QED  BY <2>3, <2>4
<1> QED  BY <1>2, <1>5, <1>6, <1>7

\* Others write objects, or delete their definitions, while x goes on as u.
LEMMA TransactionsKept ==
  ASSUME TxInv, NEW x \in Goroutines, NEW u, NEW S,
         IsTransaction(u), OnCourse(u, state', defined'),
         defined' \subseteq defined, \A o \in Objects \ S : state'[o] = state[o],
         tx' = [y \in Goroutines |-> IF y = x THEN u ELSE Marked(tx[y], S)]
  PROVE  TxInv'
<1>1. tx' = [y \in Goroutines |-> tx'[y]]
  OBVIOUS
<1>2. ASSUME NEW y \in Goroutines
      PROVE  IsTransaction(tx'[y]) /\ OnCourse(tx'[y], state', defined')
  <2>1. CASE y = x
    BY <2>1
  <2>2. CASE y # x
    <3>1. tx'[y] = Marked(tx[y], S) /\ IsTransaction(tx[y]) /\ OnCourse(tx[y], state, defined)
      BY <2>2 DEF TxInv
    <3>2. \A o \in ObjectsOf(tx[y]) \ S : state'[o] = state[o]
      BY <3>1, ObjectsAreObjects
    <3> QED  BY <3>1, <3>2, MarkedIsTransaction, OthersStayOnCourse
  <2> QED  BY <2>1, <2>2
<1> QED  BY <1>1, <1>2 DEF TxInv

LEMMA FrameRests ==
  ASSUME TxInv, tx[Frame].at = "rest"
  PROVE  tx[Frame] = Resting
BY DEF TxInv, IsTransaction, Goroutines

LEMMA MovesKeep ==
  ASSUME RInv, NEW x \in Goroutines, NEW u, NEW S, Moves(x, u, S), tx[x].at # "rest",
         UNCHANGED <<defined, pending, lifecycle>>
  PROVE  RInv'
<1>1. StatesTyped'
  BY DEF RInv, StatesTyped, Moves
<1>2. tx' = [y \in Goroutines |-> IF y = x THEN u ELSE Marked(tx[y], S)]
  BY DEF RInv, TxInv, Moves, Continue, Marked
<1>3. TxInv'
  <2>1. IsTransaction(u) /\ OnCourse(u, state', defined')
    BY DEF Moves, Goes
  <2> QED  BY <1>2, <2>1, TransactionsKept DEF RInv, Moves
<1>4. running' = running
  BY DEF lifecycle
<1>5. RoutineInv'
  <2>1. CASE x = Frame
    <3>1. loop.at = "events" /\ loop' = loop
      BY <2>1 DEF RInv, RoutineInv, Moves, Continue
    <3> QED  BY <1>4, <3>1 DEF RInv, RoutineInv
  <2>2. CASE x # Frame
    <3>1. tx'[Frame].at = tx[Frame].at
      <4>1. IsTransaction(tx[Frame])
        BY DEF RInv, TxInv, Goroutines
      <4>2. tx'[Frame] = Marked(tx[Frame], S)
        BY <1>2, <2>2 DEF Goroutines
      <4> QED  BY <4>1, <4>2, MarkedSame
    <3>2. CASE loop.obj \in S
      <4>1. loop' = [loop EXCEPT !.disturbed = TRUE]
        BY <2>2, <3>2 DEF Moves, Continue
      <4>2. /\ loop' = [at |-> loop.at, list |-> loop.list, obj |-> loop.obj,
                        copy |-> loop.copy, disturbed |-> TRUE]
        BY <4>1 DEF RInv, RoutineInv
      <4> QED  BY <1>4, <3>1, <4>2 DEF RInv, RoutineInv
    <3>3. CASE loop.obj \notin S
      <4>1. loop' = loop
        BY <3>3 DEF Moves, Continue
      <4>2. loop.at = "write" => state'[loop.obj] = state[loop.obj]
        BY <3>3 DEF RInv, RoutineInv, Moves
      <4> QED  BY <1>4, <3>1, <4>1, <4>2 DEF RInv, RoutineInv
    <3> QED  BY <3>2, <3>3
  <2> QED  BY <2>1, <2>2
<1> QED  BY <1>1, <1>3, <1>5 DEF RInv

LEMMA TxStepMoves ==
  ASSUME RInv, NEW x \in Goroutines, TxStep(x)
  PROVE  /\ \E u, S : Moves(x, u, S)
         /\ tx[x].at # "rest" /\ UNCHANGED <<defined, pending, lifecycle>>
<1>1. tx[x].at # "rest" /\ UNCHANGED <<defined, pending, lifecycle>>
  BY DEF TxStep, Save, Apply, Place, RestoreLook, RestoreRemove, RestoreCreate, RestoreWrite
<1>2. \E u, S : Moves(x, u, S)
  BY SaveMoves, ApplyMoves, PlaceMoves, RestoreMoves DEF TxStep, RInv
<1> QED  BY <1>1, <1>2

LEMMA RStarts == Init => RInv
<1> SUFFICES ASSUME Init PROVE RInv
  OBVIOUS
<1>1. StatesTyped
  BY DEF Init, StatesTyped
<1>2. tx = [x \in Goroutines |-> Resting]
  BY DEF Init, Goroutines
<1>3. Resting.at = "rest"
  BY DEF Resting
<1>4. TxInv
  BY <1>2, <1>3, RestingIsTransaction DEF TxInv, OnCourse
<1>5. tx[Frame].at = "rest"
  BY <1>2, <1>3 DEF Goroutines
<1>6. RoutineInv
  BY <1>5 DEF Init, Nowhere, RoutineInv, Places
<1> QED  BY <1>1, <1>4, <1>6 DEF RInv

\* A goroutine begins a transaction.
LEMMA BeginKeeps ==
  ASSUME RInv, NEW x \in Goroutines, NEW t \in Transactions \union Queued,
         tx' = [tx EXCEPT ![x] = Begin(t)], UNCHANGED <<state, defined, loop, running>>,
         pending' \in [Objects -> Queued \union {None}],
         x = Frame => loop.at = "events"
  PROVE  RInv'
<1>1. StatesTyped /\ StatesTyped'
  BY DEF RInv, StatesTyped
<1>2. IsTransaction(Begin(t)) /\ OnCourse(Begin(t), state, defined)
  BY <1>1, Begins
<1>3. tx' = [y \in Goroutines |-> IF y = x THEN Begin(t) ELSE tx[y]]
  BY DEF RInv, TxInv
<1> DEFINE b == Begin(t)
<1> HIDE DEF b
<1>4. tx' = [y \in Goroutines |-> IF y = x THEN b ELSE tx[y]] /\ IsTransaction(b)
      /\ OnCourse(b, state', defined')
  BY <1>2, <1>3 DEF b
<1>5. TxInv'
  BY <1>4 DEF RInv, TxInv
<1>6. x # Frame => tx'[Frame] = tx[Frame]
  BY <1>4 DEF Goroutines
<1>7. RoutineInv'
  BY <1>6 DEF RInv, RoutineInv
<1> QED  BY <1>1, <1>5, <1>7 DEF RInv

LEMMA DeleteKeeps ==
  ASSUME RInv, NEW o \in Objects, DeleteDefinition(o)
  PROVE  RInv'
<1>1. StatesTyped'
  BY DEF RInv, StatesTyped, DeleteDefinition
<1>2. \A y \in Goroutines : [tx[y] EXCEPT !.disturbed = @ \/ o \in ObjectsOf(tx[y])] = Marked(tx[y], {o})
  <2> SUFFICES ASSUME NEW y \in Goroutines
               PROVE  [tx[y] EXCEPT !.disturbed = @ \/ o \in ObjectsOf(tx[y])] = Marked(tx[y], {o})
    OBVIOUS
  <2>1. (tx[y].disturbed \/ o \in ObjectsOf(tx[y]))
          = (tx[y].disturbed \/ ObjectsOf(tx[y]) \intersect {o} # {})
    OBVIOUS
  <2> QED  BY <2>1 DEF Marked
<1>3. tx' = [y \in Goroutines |-> Marked(tx[y], {o})]
  BY <1>2 DEF RInv, TxInv, DeleteDefinition
<1>4. IsTransaction(tx[Frame]) /\ OnCourse(tx[Frame], state, defined) /\ Frame \in Goroutines
  BY DEF RInv, TxInv, Goroutines
<1>5. defined' \in SUBSET defined /\ state' = state
  BY DEF DeleteDefinition
<1> DEFINE u == Marked(tx[Frame], {o})
<1>6. IsTransaction(u) /\ OnCourse(u, state', defined')
  <2> HIDE DEF Marked
  <2> QED  BY <1>4, <1>5, MarkedIsTransaction, OthersStayOnCourse
<1>7. u.at = tx[Frame].at
  BY <1>4, MarkedSame
<1> HIDE DEF u
<1>8. tx' = [y \in Goroutines |-> IF y = Frame THEN u ELSE Marked(tx[y], {o})]
  BY <1>3 DEF u
<1>9. TxInv'
  BY <1>4, <1>5, <1>6, <1>8, TransactionsKept DEF RInv
<1>10. RoutineInv'
  BY <1>4, <1>7, <1>8 DEF RInv, RoutineInv, DeleteDefinition, lifecycle
<1> QED  BY <1>1, <1>9, <1>10 DEF RInv

\* The scale routine's phase is a phase again, one step further on the circle.
LEMMA NextPhaseTyped ==
  ASSUME NEW p \in Phases
  PROVE  NextPhase(p) \in Phases /\ NextPhase(p) = (p + Step) % Turn
<1>1. Turn \in Nat \ {0} /\ Step \in 0 .. Turn /\ p \in 0 .. Turn - 1
  BY StepAssumption DEF Phases
<1>2. NextPhase(p) \in 0 .. Turn - 1
  BY <1>1 DEF NextPhase
<1>3. NextPhase(p) = (p + Step) % Turn
  BY <1>1, <1>2 DEF NextPhase
<1> QED  BY <1>2, <1>3 DEF Phases

LEMMA CopyTyped ==
  ASSUME NEW o \in Objects, NEW st \in State
  PROVE  RunRoutines(o, Bridged(o, st)) \in State
<1> DEFINE b == Bridged(o, st)
           q == IF b.phase = None THEN 0 ELSE b.phase
<1>1. DefinitionOf[o].vel \in Velocities \union {None} /\ DefinitionOf[o].phase \in Phases \union {None}
  BY DefinitionsAssumption DEF Definition
<1>2. b \in State
  BY <1>1, Float32Assumption DEF Bridged, State
<1>3. q \in Phases
  BY <1>2, StepAssumption DEF State, Phases
<1>4. NextPhase(q) \in Phases
  BY <1>3, NextPhaseTyped
<1> HIDE DEF b
<1>5. RunRoutines(o, b) = b \/ RunRoutines(o, b) = [b EXCEPT !.phase = NextPhase(q)]
  BY DEF RunRoutines
<1> QED  BY <1>2, <1>4, <1>5 DEF State, b

\* The frame writes one object outside a transaction, or none.
LEMMA DisturbKeeps ==
  ASSUME RInv, tx[Frame].at = "rest", NEW o \in Objects, NEW st \in State,
         Write(o, st), Disturb({o}), UNCHANGED <<defined, pending>>
  PROVE  StatesTyped' /\ TxInv' /\ tx'[Frame].at = "rest"
<1>1. state' = [state EXCEPT ![o] = st]
  BY DEF Write
<1>2. StatesTyped'
  BY <1>1 DEF RInv, StatesTyped
<1>3. tx[Frame] = Resting
  BY FrameRests DEF RInv
<1>4. \A y \in Goroutines :
        [tx[y] EXCEPT !.disturbed = @ \/ (y # Frame /\ ObjectsOf(tx[y]) \intersect {o} # {})]
          = IF y = Frame THEN Resting ELSE Marked(tx[y], {o})
  <2> SUFFICES ASSUME NEW y \in Goroutines
               PROVE  [tx[y] EXCEPT !.disturbed = @ \/ (y # Frame /\ ObjectsOf(tx[y]) \intersect {o} # {})]
                        = IF y = Frame THEN Resting ELSE Marked(tx[y], {o})
    OBVIOUS
  <2>1. CASE y = Frame
    <3>1. tx[y] = Resting
      BY <1>3, <2>1
    <3>2. (Resting.disturbed \/ (y # Frame /\ ObjectsOf(Resting) \intersect {o} # {})) = Resting.disturbed
      BY <2>1 DEF Resting
    <3>3. [Resting EXCEPT !.disturbed = Resting.disturbed] = Resting
      BY DEF Resting
    <3> QED  BY <2>1, <3>1, <3>2, <3>3
  <2>2. CASE y # Frame
    <3>1. (tx[y].disturbed \/ (y # Frame /\ ObjectsOf(tx[y]) \intersect {o} # {}))
            = (tx[y].disturbed \/ ObjectsOf(tx[y]) \intersect {o} # {})
      BY <2>2
    <3> QED  BY <2>2, <3>1 DEF Marked
  <2> QED  BY <2>1, <2>2
<1>5. tx' = [y \in Goroutines |-> IF y = Frame THEN Resting ELSE Marked(tx[y], {o})]
  BY <1>4 DEF RInv, TxInv, Disturb
<1>6. Resting.at = "rest" /\ Frame \in Goroutines
  BY DEF Resting, Goroutines
<1>7. IsTransaction(Resting) /\ OnCourse(Resting, state', defined')
  BY <1>6, RestingIsTransaction DEF OnCourse
<1>8. \A p \in Objects \ {o} : state'[p] = state[p]
  BY <1>1 DEF RInv, StatesTyped
<1>9. TxInv'
  BY <1>5, <1>6, <1>7, <1>8, TransactionsKept DEF RInv
<1> QED  BY <1>2, <1>5, <1>6, <1>9

LEMMA WrittenBackTyped ==
  ASSUME NEW o, NEW st, NEW copy \in State
  PROVE  WrittenBack(o, st, copy) \in State
BY DEF WrittenBack, State

LEMMA WriteBackKeeps == ASSUME RInv, WriteBack PROVE RInv'
<1> DEFINE o == loop.obj
<1>1. loop.at = "write" /\ o \in Objects /\ loop.copy \in State /\ tx[Frame].at = "rest"
  BY DEF WriteBack, RInv, RoutineInv
<1>2. StatesTyped' /\ TxInv' /\ tx'[Frame].at = "rest"
  <2>1. CASE state[o] = None
    <3>1. UNCHANGED <<state, tx, defined, pending>>
      BY <2>1 DEF WriteBack
    <3> QED  BY <1>1, <3>1 DEF RInv, StatesTyped, TxInv
  <2>2. CASE state[o] # None
    <3>1. /\ Write(o, WrittenBack(o, state[o], loop.copy)) /\ Disturb({o})
          /\ UNCHANGED <<defined, pending>>
      BY <2>2 DEF WriteBack
    <3>2. WrittenBack(o, state[o], loop.copy) \in State
      BY <1>1, WrittenBackTyped
    <3> QED  BY <1>1, <3>1, <3>2, DisturbKeeps
  <2> QED  BY <2>1, <2>2
<1>3. loop' = [at |-> "routines", list |-> loop.list, obj |-> None, copy |-> None, disturbed |-> FALSE]
      /\ running' = running
  BY DEF WriteBack, Nowhere, lifecycle
<1>4. RoutineInv'
  BY <1>2, <1>3 DEF RInv, RoutineInv, Places
<1> QED  BY <1>2, <1>4 DEF RInv

LEMMA IntegrateKeeps == ASSUME RInv, Integrate PROVE RInv'
<1>1. loop.at = "physics" /\ tx[Frame].at = "rest" /\ UNCHANGED <<defined, pending, running>>
  BY DEF Integrate, RInv, RoutineInv, lifecycle
<1>2. PICK o \in loop.list :
        /\ loop' = [loop EXCEPT !.list = @ \ {o}]
        /\ IF state[o] = None THEN UNCHANGED <<state, tx>>
           ELSE Write(o, [state[o] EXCEPT !.pos = Shift(@, state[o].vel)]) /\ Disturb({o})
  BY DEF Integrate
<1>3. o \in Objects
  BY DEF RInv, RoutineInv
<1>4. StatesTyped' /\ TxInv' /\ tx'[Frame].at = "rest"
  <2>1. CASE state[o] = None
    <3>1. UNCHANGED <<state, tx>>
      BY <1>2, <2>1
    <3> QED  BY <1>1, <3>1 DEF RInv, StatesTyped, TxInv
  <2>2. CASE state[o] # None
    <3> DEFINE w == [state[o] EXCEPT !.pos = Shift(@, state[o].vel)]
    <3>1. Write(o, w) /\ Disturb({o})
      BY <1>2, <2>2
    <3>2. state[o] \in State /\ Shift(state[o].pos, state[o].vel) \in Positions
      BY <1>3, <2>2, ShiftTyped DEF RInv, StatesTyped, State
    <3>3. w \in State
      BY <3>2 DEF State
    <3> HIDE DEF w
    <3> QED  BY <1>1, <1>3, <3>1, <3>3, DisturbKeeps
  <2> QED  BY <2>1, <2>2
<1>5. RoutineInv'
  <2>1. loop' = [at |-> "physics", list |-> loop.list \ {o}, obj |-> loop.obj,
                 copy |-> loop.copy, disturbed |-> loop.disturbed]
    BY <1>1, <1>2 DEF RInv, RoutineInv
  <2> QED  BY <1>1, <1>4, <2>1 DEF RInv, RoutineInv
<1> QED  BY <1>4, <1>5 DEF RInv

\* What leaves the states and the transactions alone keeps what is said of them.
LEMMA LoopOnly ==
  ASSUME RInv, UNCHANGED <<state, defined, tx>>,
         pending' \in [Objects -> Queued \union {None}], RoutineInv'
  PROVE  RInv'
BY DEF RInv, StatesTyped, TxInv

LEMMA CopyKeeps == ASSUME RInv, Copy PROVE RInv'
<1> DEFINE o == loop.obj
<1>1. o \in Objects /\ UNCHANGED <<state, defined, pending, tx, running>> /\ tx[Frame].at = "rest"
  BY DEF Copy, RInv, RoutineInv, lifecycle
<1>2. RoutineInv'
  <2>1. CASE state[o] = None
    <3>1. loop' = [at |-> "routines", list |-> loop.list, obj |-> None, copy |-> loop.copy,
                   disturbed |-> loop.disturbed]
      <4>1. loop' = [loop EXCEPT !.at = "routines", !.obj = None]
        BY <2>1 DEF Copy
      <4> DEFINE p == [loop EXCEPT !.at = "routines"]
      <4>2. p = [at |-> "routines", list |-> loop.list, obj |-> loop.obj, copy |-> loop.copy,
                 disturbed |-> loop.disturbed]
        BY DEF RInv, RoutineInv
      <4>3. loop' = [p EXCEPT !.obj = None]
        BY <4>1
      <4> HIDE DEF p
      <4> QED  BY <4>2, <4>3
    <3> QED  BY <1>1, <3>1 DEF RInv, RoutineInv, Places
  <2>2. CASE state[o] # None
    <3> DEFINE c == RunRoutines(o, Bridged(o, state[o]))
    <3>1. state[o] \in State
      BY <1>1, <2>2 DEF RInv, StatesTyped
    <3>2. c \in State
      BY <1>1, <3>1, CopyTyped
    <3>3. loop' = [loop EXCEPT !.at = "write", !.disturbed = FALSE, !.copy = c]
      BY <2>2 DEF Copy
    <3> HIDE DEF c
    <3>4. loop' = [at |-> "write", list |-> loop.list, obj |-> o, copy |-> c, disturbed |-> FALSE]
      <4> DEFINE p == [loop EXCEPT !.at = "write"]
                 q == [p EXCEPT !.disturbed = FALSE]
      <4>1. p = [at |-> "write", list |-> loop.list, obj |-> loop.obj, copy |-> loop.copy,
                 disturbed |-> loop.disturbed]
        BY DEF RInv, RoutineInv
      <4>2. loop' = [q EXCEPT !.copy = c]
        BY <3>3
      <4> HIDE DEF p
      <4>3. p = [at |-> p.at, list |-> p.list, obj |-> p.obj, copy |-> p.copy,
                 disturbed |-> p.disturbed]
            /\ p.at = "write" /\ p.list = loop.list /\ p.obj = loop.obj /\ p.copy = loop.copy
        BY <4>1
      <4>4. q = [at |-> p.at, list |-> p.list, obj |-> p.obj, copy |-> p.copy,
                 disturbed |-> FALSE]
        <5>1. p = [at |-> p.at, list |-> p.list, obj |-> p.obj, copy |-> p.copy,
                   disturbed |-> p.disturbed]
          BY <4>3
        <5>2. ASSUME NEW v PROVE [p EXCEPT !.disturbed = v]
                = [at |-> p.at, list |-> p.list, obj |-> p.obj, copy |-> p.copy, disturbed |-> v]
          BY <5>1
        <5> QED  BY <5>2
      <4>5. q = [at |-> "write", list |-> loop.list, obj |-> loop.obj, copy |-> loop.copy,
                 disturbed |-> FALSE]
        BY <4>3, <4>4
      <4> HIDE DEF q
      <4> QED  BY <4>2, <4>5
    <3>5. loop'.at = "write" /\ loop'.obj = o /\ loop'.copy = c /\ loop'.list = loop.list
          /\ loop'.disturbed = FALSE
      BY <3>4
    <3>6. running' => loop'.at # "new"
      BY <3>5
    <3>7. loop'.copy = RunRoutines(loop'.obj, Bridged(loop'.obj, state'[loop'.obj]))
      BY <1>1, <3>5 DEF c
    <3> QED  BY <1>1, <3>2, <3>4, <3>5, <3>6, <3>7 DEF RInv, RoutineInv, Places
  <2> QED  BY <2>1, <2>2
<1> QED  BY <1>1, <1>2, LoopOnly DEF RInv, StatesTyped

\* What leaves the loop where it is keeps what is said of it.
LEMMA LoopStays ==
  ASSUME RInv, UNCHANGED <<state, tx, loop>>, running' = running \/ running' = FALSE
  PROVE  RoutineInv'
BY DEF RInv, RoutineInv

LEMMA LookUpKeeps == ASSUME RInv, LookUp PROVE RInv'
<1>1. loop.at = "routines" /\ UNCHANGED <<state, defined, pending, tx, running>>
  BY DEF LookUp, lifecycle
<1>2. PICK o \in loop.list :
        loop' = IF o \in defined /\ DefinitionOf[o].routines # {}
                THEN [loop EXCEPT !.at = "copy", !.list = @ \ {o}, !.obj = o]
                ELSE [loop EXCEPT !.list = @ \ {o}]
  BY DEF LookUp
<1>3. o \in Objects /\ tx[Frame].at = "rest"
  BY <1>1 DEF RInv, RoutineInv
<1> DEFINE p == [loop EXCEPT !.at = "copy"]
           q == [p EXCEPT !.list = @ \ {o}]
           w == [loop EXCEPT !.list = @ \ {o}]
<1>4. w = [at |-> loop.at, list |-> loop.list \ {o}, obj |-> loop.obj, copy |-> loop.copy,
           disturbed |-> loop.disturbed]
  BY DEF RInv, RoutineInv
<1>5. p = [at |-> "copy", list |-> loop.list, obj |-> loop.obj, copy |-> loop.copy,
           disturbed |-> loop.disturbed]
  BY DEF RInv, RoutineInv
<1>6. [loop EXCEPT !.at = "copy", !.list = @ \ {o}, !.obj = o] = [q EXCEPT !.obj = o]
  OBVIOUS
<1> HIDE DEF p
<1>7. q = [at |-> "copy", list |-> loop.list \ {o}, obj |-> loop.obj, copy |-> loop.copy,
           disturbed |-> loop.disturbed]
  <2>1. /\ p.at = "copy" /\ p.list = loop.list /\ p.obj = loop.obj /\ p.copy = loop.copy
        /\ p.disturbed = loop.disturbed
    BY <1>5
  <2>2. p = [at |-> p.at, list |-> p.list, obj |-> p.obj, copy |-> p.copy,
             disturbed |-> p.disturbed]
    BY <1>5, <2>1
  <2>3. q = [at |-> p.at, list |-> p.list \ {o}, obj |-> p.obj, copy |-> p.copy,
             disturbed |-> p.disturbed]
    BY <2>2
  <2> QED  BY <2>1, <2>3
<1> HIDE DEF q
<1>8. [q EXCEPT !.obj = o] = [at |-> "copy", list |-> loop.list \ {o}, obj |-> o,
                              copy |-> loop.copy, disturbed |-> loop.disturbed]
  BY <1>7
<1> HIDE DEF w
<1>9. RoutineInv'
  <2>1. CASE o \in defined /\ DefinitionOf[o].routines # {}
    <3>1. loop' = [at |-> "copy", list |-> loop.list \ {o}, obj |-> o,
                   copy |-> loop.copy, disturbed |-> loop.disturbed]
      BY <1>2, <1>6, <1>8, <2>1
    <3> QED  BY <1>1, <1>3, <3>1 DEF RInv, RoutineInv, Places
  <2>2. CASE ~ (o \in defined /\ DefinitionOf[o].routines # {})
    <3>1. loop' = w
      BY <1>2, <2>2 DEF w
    <3> QED  BY <1>1, <1>3, <1>4, <3>1 DEF RInv, RoutineInv, Places
  <2> QED  BY <2>1, <2>2
<1> QED  BY <1>1, <1>9, LoopOnly DEF RInv, StatesTyped

\* The loop goes somewhere else, with a list of objects and nothing in its hands.
LEMMA PhaseKeeps ==
  ASSUME RInv, UNCHANGED <<state, defined, tx, pending>>,
         NEW at \in Places \ {"copy", "write"}, NEW list \in SUBSET Objects,
         at \in {"new", "select", "exited"} => list = {},
         at # "events" => tx[Frame].at = "rest", running' => at # "new",
         loop' = [Nowhere EXCEPT !.at = at, !.list = list] \/ (list = {} /\ loop' = [Nowhere EXCEPT !.at = at])
  PROVE  RInv'
<1>1. loop' = [at |-> at, list |-> list, obj |-> None, copy |-> None, disturbed |-> FALSE]
  BY DEF Nowhere
<1>2. RoutineInv'
  BY <1>1 DEF RInv, RoutineInv, Places
<1> QED  BY <1>2, LoopOnly DEF RInv, StatesTyped

LEMMA FramePhaseKeeps ==
  ASSUME RInv, EventsDone \/ RoutinesDone \/ FrameDone
  PROVE  RInv'
<1>1. Live \in SUBSET Objects
  BY DEF Live
<1>2. tx[Frame].at = "rest"
  BY DEF InFrame, EventsDone, RoutinesDone, FrameDone, RInv, RoutineInv
<1>3. CASE EventsDone
  <2>1. loop' = [Nowhere EXCEPT !.at = "routines", !.list = Live]
        /\ UNCHANGED <<state, defined, tx, pending, running>>
    BY <1>3 DEF EventsDone, lifecycle
  <2>2. "routines" \in Places \ {"copy", "write"}
    BY DEF Places
  <2> HIDE DEF Live
  <2> QED  BY <1>1, <1>2, <2>1, <2>2, PhaseKeeps
<1>4. CASE RoutinesDone
  <2>1. loop' = [Nowhere EXCEPT !.at = "physics", !.list = Live]
        /\ UNCHANGED <<state, defined, tx, pending, running>>
    BY <1>4 DEF RoutinesDone, lifecycle
  <2>2. "physics" \in Places \ {"copy", "write"}
    BY DEF Places
  <2> HIDE DEF Live
  <2> QED  BY <1>1, <1>2, <2>1, <2>2, PhaseKeeps
<1>5. CASE FrameDone
  <2>1. loop' = [Nowhere EXCEPT !.at = "select"] /\ UNCHANGED <<state, defined, tx, pending, running>>
    BY <1>5 DEF FrameDone, lifecycle
  <2>2. "select" \in Places \ {"copy", "write"} /\ {} \in SUBSET Objects
    BY DEF Places
  <2> QED  BY <1>2, <2>1, <2>2, PhaseKeeps
<1> QED  BY <1>3, <1>4, <1>5

LEMMA LifecycleKeeps ==
  ASSUME RInv, Start \/ Tick \/ Exit \/ Cancel \/ StopClose \/ StopReturn
  PROVE  RInv'
<1>1. ASSUME NEW at \in {"select", "events", "exited"}, loop' = [Nowhere EXCEPT !.at = at],
             loop.at \in {"new", "select"}, UNCHANGED <<state, defined, tx, pending>>
      PROVE  RInv'
  <2>1. at \in Places \ {"copy", "write"} /\ {} \in SUBSET Objects
    BY <1>1 DEF Places
  <2>2. tx[Frame].at = "rest"
    BY <1>1 DEF RInv, RoutineInv
  <2> QED  BY <1>1, <2>1, <2>2, PhaseKeeps
<1>2. CASE Start
  BY <1>1, <1>2 DEF Start
<1>3. CASE Tick
  BY <1>1, <1>3 DEF Tick
<1>4. CASE Exit
  BY <1>1, <1>4 DEF Exit
<1>5. CASE Cancel \/ StopClose \/ StopReturn
  <2>1. UNCHANGED <<state, defined, tx, pending, loop>> /\ (running' = running \/ running' = FALSE)
    BY <1>5 DEF Cancel, StopClose, StopReturn
  <2> QED  BY <2>1, LoopStays, LoopOnly DEF RInv, StatesTyped
<1> QED  BY <1>2, <1>3, <1>4, <1>5

LEMMA RKept == RInv /\ [Next]_vars => RInv'
<1> SUFFICES ASSUME RInv, [Next]_vars PROVE RInv'
  OBVIOUS
<1>1. CASE UNCHANGED vars
  <2>1. UNCHANGED <<state, defined, tx, pending, loop, running>>
    BY <1>1 DEF vars
  <2> QED  BY <2>1, LoopStays, LoopOnly DEF RInv, StatesTyped
<1>2. ASSUME NEW x \in Goroutines, TxStep(x) PROVE RInv'
  <2>1. /\ tx[x].at # "rest" /\ UNCHANGED <<defined, pending, lifecycle>>
        /\ \E u, S : Moves(x, u, S)
    BY <1>2, TxStepMoves
  <2> QED  BY <2>1, MovesKeep
<1>3. ASSUME NEW x \in Callers, Execute(x) PROVE RInv'
  <2>1. /\ \E t \in Transactions : tx' = [tx EXCEPT ![x] = Begin(t)]
        /\ UNCHANGED <<state, defined, loop, running, pending>>
    BY <1>3 DEF Execute, lifecycle
  <2>2. x \in Goroutines /\ x # Frame /\ pending' \in [Objects -> Queued \union {None}]
    BY <2>1, FrameAssumption DEF Goroutines, RInv, StatesTyped
  <2> QED  BY <2>1, <2>2, BeginKeeps
<1>4. CASE DrainOne
  <2>1. PICK o \in Objects : /\ pending[o] # None
                             /\ tx' = [tx EXCEPT ![Frame] = Begin(pending[o])]
                             /\ pending' = [pending EXCEPT ![o] = None]
    BY <1>4 DEF DrainOne
  <2>2. loop.at = "events" /\ UNCHANGED <<state, defined, loop, running>> /\ Frame \in Goroutines
    BY <1>4 DEF DrainOne, lifecycle, Goroutines
  <2>3. pending[o] \in Transactions \union Queued /\ pending' \in [Objects -> Queued \union {None}]
    BY <2>1 DEF RInv, StatesTyped
  <2> QED  BY <2>1, <2>2, <2>3, BeginKeeps
<1>5. CASE Producing
  <2>1. UNCHANGED <<state, defined, tx, loop, running>>
    BY <1>5 DEF Producing, Produce, lifecycle
  <2>2. pending' \in [Objects -> Queued \union {None}]
    BY <1>5 DEF Producing, Produce, RInv, StatesTyped
  <2> QED  BY <2>1, <2>2, LoopStays, LoopOnly
<1>6. ASSUME NEW o \in Deletable, DeleteDefinition(o) PROVE RInv'
  BY <1>6, DeleteKeeps, DefinitionsAssumption
<1>7. CASE FrameStep
  BY <1>2, <1>4, <1>7, FramePhaseKeeps, LookUpKeeps, CopyKeeps, WriteBackKeeps, IntegrateKeeps
  DEF FrameStep, Goroutines
<1> QED
  BY <1>1, <1>2, <1>3, <1>5, <1>6, <1>7, LifecycleKeeps DEF Next, Goroutines

-----------------------------------------------------------------------------
(* The run of a transaction's events exists.                               *)

\* A set of natural numbers has a least element.
LEMMA Least ==
  ASSUME NEW S \in SUBSET Nat, S # {}
  PROVE  \E x \in S : \A y \in S : x <= y
<1>1. \A x, y \in Nat : x < y => <<x, y>> \in OpToRel(<, Nat)
  BY DEF OpToRel
<1>2. \E R : IsWellFoundedOn(R, Nat) /\ \A x, y \in Nat : x < y => <<x, y>> \in R
  BY <1>1, NatLessThanWellFounded, Zenon
<1>3. ASSUME NEW R, IsWellFoundedOn(R, Nat), \A x, y \in Nat : x < y => <<x, y>> \in R
      PROVE  \E x \in S : \A y \in S : x <= y
  <2>1. S \subseteq Nat /\ S # {}
    OBVIOUS
  <2>2. \A A, Q, T : (IsWellFoundedOn(Q, A) /\ T \subseteq A /\ T # {})
                     => \E x \in T : \A y \in T : ~ (<<y, x>> \in Q)
    <3> SUFFICES ASSUME NEW A, NEW Q, NEW T, IsWellFoundedOn(Q, A), T \subseteq A, T # {}
                 PROVE  \E x \in T : \A y \in T : ~ (<<y, x>> \in Q)
      BY Zenon
    <3> QED  BY WFMin
  <2>3. (IsWellFoundedOn(R, Nat) /\ S \subseteq Nat /\ S # {})
        => \E x \in S : \A y \in S : ~ (<<y, x>> \in R)
    BY <2>2, Zenon
  <2>4. PICK x \in S : \A y \in S : ~ (<<y, x>> \in R)
    BY <1>3, <2>1, <2>3
  <2>5. \A y \in S : ~ (y < x)
    BY <1>3, <2>4, Zenon
  <2> QED  BY <2>5
<1> QED  BY <1>2, <1>3, Zenon

\* Induction: a set with 0, and with the successor of each member, has them all.
LEMMA Successors ==
  ASSUME NEW S, 0 \in S, \A n \in Nat : n \in S => n + 1 \in S
  PROVE  \A n \in Nat : n \in S
<1> SUFFICES ASSUME NEW m \in Nat, m \notin S PROVE FALSE
  OBVIOUS
<1> DEFINE Out == {n \in Nat : n \notin S}
<1>1. PICK n \in Out : \A k \in Out : n <= k
  <2>1. Out \in SUBSET Nat /\ Out # {}
    OBVIOUS
  <2> HIDE DEF Out
  <2> QED  BY <2>1, Least
<1>2. n \in Nat /\ n # 0 /\ n - 1 \in Nat /\ n - 1 \notin Out
  <2>1. n \in Nat /\ n # 0
    BY <1>1
  <2>2. n - 1 \in Nat /\ ~ (n <= n - 1)
    BY <2>1
  <2> QED  BY <1>1, <2>1, <2>2
<1>3. n - 1 \in S /\ (n - 1) + 1 = n
  BY <1>2
<1> QED  BY <1>1, <1>2, <1>3

\* The run of the events of t over the definitions there are, up to the m-th.
RunsTo(f, t, m) ==
  f[0] = t.before /\ \A k \in 1 .. m : f[k] = Applied(f[k - 1], t.events[k])

LEMMA AppliedTyped ==
  ASSUME NEW t, IsTransaction(t), NEW k \in DOMAIN t.events,
         NEW s \in [ObjectsOf(t) -> State \union {None}]
  PROVE  Applied(s, t.events[k]) \in [ObjectsOf(t) -> State \union {None}]
<1> DEFINE e == t.events[k]
<1>1. e \in Event /\ e.obj \in ObjectsOf(t)
  BY ObjectsAreObjects
<1> HIDE DEF e
<1>2. CASE Refused(s, e)
  BY <1>2 DEF Applied, e
<1>3. CASE ~ Refused(s, e)
  <2>1. Whole(s[e.obj], e) \in State \union {None}
    BY <1>1, <1>3, AfterTyped DEF Refused
  <2>2. Applied(s, e) = [s EXCEPT ![e.obj] = Whole(s[e.obj], e)]
    BY <1>3 DEF Applied
  <2> DEFINE w == Whole(s[e.obj], e)
  <2> HIDE DEF w
  <2>3. [s EXCEPT ![e.obj] = w] \in [ObjectsOf(t) -> State \union {None}]
    BY <2>1 DEF w
  <2> QED  BY <2>2, <2>3 DEF w, e
<1> QED  BY <1>2, <1>3

LEMMA RunExists ==
  ASSUME NEW t, IsTransaction(t), t.at # "rest"
  PROVE  \E f \in [0 .. Len(t.events) -> [ObjectsOf(t) -> State \union {None}]] :
           RunsTo(f, t, Len(t.events))
<1> DEFINE X == [ObjectsOf(t) -> State \union {None}]
           n == Len(t.events)
           Some == {m \in Nat : m <= n => \E f \in [0 .. m -> X] : RunsTo(f, t, m)}
<1>1. n \in Nat /\ DOMAIN t.events = 1 .. n
  BY ObjectsAreObjects
<1>2. t.before \in X
  BY DEF IsTransaction
<1>3. \A s \in X : \A k \in 1 .. n : Applied(s, t.events[k]) \in X
  BY <1>1, AppliedTyped
<1> HIDE DEF X, n
<1>4. 0 \in Some
  <2> DEFINE f == [k \in 0 .. 0 |-> t.before]
  <2>1. f \in [0 .. 0 -> X] /\ RunsTo(f, t, 0)
    BY <1>2 DEF RunsTo
  <2> HIDE DEF f
  <2> QED  BY <2>1
<1>5. \A m \in Nat : m \in Some => m + 1 \in Some
  <2> SUFFICES ASSUME NEW m \in Nat, m \in Some, m + 1 <= n
               PROVE  \E f \in [0 .. m + 1 -> X] : RunsTo(f, t, m + 1)
    OBVIOUS
  <2>1. PICK f \in [0 .. m -> X] : RunsTo(f, t, m)
    BY <1>1
  <2> DEFINE a == Applied(f[m], t.events[m + 1])
             g == [k \in 0 .. m + 1 |-> IF k <= m THEN f[k] ELSE a]
  <2>2. m + 1 \in 1 .. n /\ f[m] \in X
    BY <1>1
  <2>3. a \in X
    BY <1>3, <2>2
  <2> HIDE DEF a
  <2>4. g \in [0 .. m + 1 -> X]
    <3>1. \A k \in 0 .. m + 1 : k <= m => f[k] \in X
      OBVIOUS
    <3> QED  BY <2>3, <3>1
  <2>5. g[0] = t.before /\ g[m + 1] = a /\ \A k \in 0 .. m : g[k] = f[k]
    BY <2>1 DEF RunsTo
  <2> HIDE DEF g
  <2>6. ASSUME NEW k \in 1 .. m + 1 PROVE g[k] = Applied(g[k - 1], t.events[k])
    <3>1. CASE k \in 1 .. m
      <4>1. k - 1 \in 0 .. m /\ k \in 0 .. m
        BY <3>1
      <4> QED  BY <2>1, <2>5, <3>1, <4>1 DEF RunsTo
    <3>2. CASE k = m + 1
      <4>1. k - 1 = m /\ m \in 0 .. m
        BY <3>2
      <4> QED  BY <2>5, <3>2, <4>1 DEF a
    <3> QED  BY <3>1, <3>2
  <2>7. RunsTo(g, t, m + 1)
    BY <2>5, <2>6 DEF RunsTo
  <2> QED  BY <2>4, <2>7
<1>6. n \in Some
  <2> HIDE DEF Some
  <2> QED  BY <1>1, <1>4, <1>5, Successors
<1> QED  BY <1>1, <1>6 DEF X, n

LEMMA ReachRuns ==
  ASSUME NEW t, IsTransaction(t), t.at # "rest"
  PROVE  RunsTo(Reach(t), t, Len(t.events))
<1> DEFINE n == Len(t.events)
           Is(f) == f = [k \in 0 .. n |-> IF k = 0 THEN t.before ELSE Applied(f[k - 1], t.events[k])]
<1>1. n \in Nat
  BY ObjectsAreObjects
<1>2. PICK f \in [0 .. n -> [ObjectsOf(t) -> State \union {None}]] : RunsTo(f, t, n)
  BY RunExists
<1>3. Is(f)
  <2>1. \A k \in 0 .. n : f[k] = IF k = 0 THEN t.before ELSE Applied(f[k - 1], t.events[k])
    BY <1>1, <1>2 DEF RunsTo
  <2> QED  BY <2>1
<1>4. Reach(t) = CHOOSE g : Is(g)
  BY DEF Reach
<1>5. Is(Reach(t))
  <2> HIDE DEF Is
  <2> QED  BY <1>3, <1>4
<1> DEFINE r == Reach(t)
<1>6. r = [k \in 0 .. n |-> IF k = 0 THEN t.before ELSE Applied(r[k - 1], t.events[k])]
  BY <1>5
<1> HIDE DEF r, n, Is
<1>7. r[0] = t.before /\ \A k \in 1 .. n : r[k] = Applied(r[k - 1], t.events[k])
  <2>1. \A k \in 0 .. n : r[k] = IF k = 0 THEN t.before ELSE Applied(r[k - 1], t.events[k])
    BY <1>6
  <2> QED  BY <1>1, <2>1
<1> QED  BY <1>7 DEF RunsTo, r, n

\* It is a run of them when all of their objects have a definition.
LEMMA ReachIsRun ==
  ASSUME NEW t, IsTransaction(t), t.at # "rest", ObjectsOf(t) \subseteq defined
  PROVE  /\ IsRun(Reach(t), t)
         /\ \A k \in DOMAIN t.events :
              Refused(Reach(t)[k - 1], t.events[k]) <=> Rejected(Reach(t)[k - 1], t.events[k])
<1> DEFINE r == Reach(t)
           n == Len(t.events)
           X == [ObjectsOf(t) -> State \union {None}]
           Good == {k \in Nat : k <= n => r[k] \in X}
<1>1. n \in Nat /\ DOMAIN t.events = 1 .. n
  BY ObjectsAreObjects
<1>2. t.before \in X
  BY DEF IsTransaction
<1>3. \A s \in X : \A k \in 1 .. n : Applied(s, t.events[k]) \in X
  BY <1>1, AppliedTyped
<1>4. r[0] = t.before /\ \A k \in 1 .. n : r[k] = Applied(r[k - 1], t.events[k])
  BY ReachRuns DEF RunsTo
<1>5. \A k \in DOMAIN t.events : t.events[k].obj \in ObjectsOf(t)
  BY ObjectsAreObjects
<1> HIDE DEF r, n, X
<1>6. \A k \in Nat : k \in Good
  <2>1. 0 \in Good
    BY <1>2, <1>4
  <2>2. \A k \in Nat : k \in Good => k + 1 \in Good
    <3> SUFFICES ASSUME NEW k \in Nat, k \in Good, k + 1 <= n PROVE r[k + 1] \in X
      OBVIOUS
    <3>1. k + 1 \in 1 .. n /\ (k + 1) - 1 = k /\ r[k] \in X
      BY <1>1
    <3> QED  BY <1>3, <1>4, <3>1
  <2> HIDE DEF Good
  <2> QED  BY <2>1, <2>2, Successors
<1>7. \A k \in 1 .. n : r[k - 1] \in X
  <2> SUFFICES ASSUME NEW k \in 1 .. n PROVE r[k - 1] \in X
    OBVIOUS
  <2>1. k - 1 \in Nat /\ k - 1 <= n
    BY <1>1
  <2> QED  BY <1>6, <2>1
<1>8. \A k \in DOMAIN t.events : Refused(r[k - 1], t.events[k]) <=> Rejected(r[k - 1], t.events[k])
  BY <1>5 DEF Refused, Rejected
<1>9. ASSUME NEW k \in DOMAIN t.events, NEW o \in ObjectsOf(t)
      PROVE  r[k][o] = IF o = t.events[k].obj /\ ~ Rejected(r[k - 1], t.events[k])
                       THEN Whole(r[k - 1][o], t.events[k]) ELSE r[k - 1][o]
  <2> DEFINE e == t.events[k]
             q == r[k - 1]
  <2>1. r[k] = Applied(q, e) /\ q \in X /\ e.obj \in ObjectsOf(t)
    BY <1>1, <1>4, <1>5, <1>7
  <2>2. Refused(q, e) <=> Rejected(q, e)
    BY <1>8
  <2> HIDE DEF e, q
  <2>3. CASE Rejected(q, e)
    BY <2>1, <2>2, <2>3 DEF Applied, e, q
  <2>4. CASE ~ Rejected(q, e)
    <3> DEFINE w == Whole(q[e.obj], e)
    <3>1. r[k] = [q EXCEPT ![e.obj] = w]
      BY <2>1, <2>2, <2>4 DEF Applied
    <3> HIDE DEF w
    <3>2. r[k][o] = IF o = e.obj THEN w ELSE q[o]
      BY <2>1, <3>1 DEF X
    <3> QED  BY <2>4, <3>2 DEF w, e, q
  <2> QED  BY <2>3, <2>4
<1>10. IsRun(r, t)
  BY <1>4, <1>9 DEF IsRun
<1> QED  BY <1>8, <1>10 DEF r

-----------------------------------------------------------------------------
(* The theorems about transactions, routines and the frame.                *)

\* Transactions, the frame and the loop are where they can be: every value is of its
\* kind, a copy that nobody disturbed is of the state that is there, and a transaction
\* that nobody disturbed is on course for what its mode promises.
THEOREM RuntimeInvariant == Spec => []RInv
<1>1. Init => RInv
  BY RStarts
<1>2. RInv /\ [Next]_vars => RInv'
  BY RKept
<1> QED  BY <1>1, <1>2, PTL DEF Spec

\* States are of their kind, and a loop that is not in a frame is in no transaction.
THEOREM TypeCorrect == Spec => []TypeOK
<1>1. RInv => TypeOK
  <2> SUFFICES ASSUME RInv PROVE TypeOK
    OBVIOUS
  <2>1. \A o \in Objects : state[o] = None \/ state[o] \in State
    BY DEF RInv, StatesTyped
  <2>2. \A x \in DOMAIN tx : tx[x].todo \subseteq DOMAIN tx[x].saved
    <3>1. DOMAIN tx = Goroutines
      BY DEF RInv, TxInv
    <3> QED  BY <3>1 DEF RInv, TxInv, IsTransaction
  <2>3. loop.at \in {"new", "select", "exited"} => tx[Frame] = Resting /\ loop.list = {}
    BY FrameRests DEF RInv, RoutineInv
  <2> QED  BY <2>1, <2>2, <2>3 DEF RInv, StatesTyped, RoutineInv, TypeOK
<1> QED  BY <1>1, RuntimeInvariant, PTL

\* A write back is the only step that ends the routines' pass over an object.
LEMMA OnlyWriteBack ==
  ASSUME RInv, Next, loop.at = "write", loop'.at = "routines"
  PROVE  WriteBack
<1>1. ASSUME NEW x \in Goroutines, TxStep(x) PROVE FALSE
  <2>1. PICK u, S : Moves(x, u, S)
    BY <1>1, TxStepMoves
  <2>2. loop' = loop \/ loop' = [loop EXCEPT !.disturbed = TRUE]
    BY <2>1 DEF Moves, Continue
  <2>3. loop'.at = loop.at
    BY <2>2 DEF RInv, RoutineInv
  <2> QED  BY <2>3
<1>2. ASSUME NEW x \in Callers, Execute(x) PROVE FALSE
  BY <1>2 DEF Execute
<1>3. ASSUME Producing \/ (\E o \in Deletable : DeleteDefinition(o)) PROVE FALSE
  BY <1>3 DEF Producing, Produce, DeleteDefinition
<1>4. ASSUME Start \/ Tick \/ Exit \/ Cancel \/ StopClose \/ StopReturn PROVE FALSE
  BY <1>4 DEF Start, Tick, Exit, Cancel, StopClose, StopReturn
<1>5. ASSUME DrainOne \/ EventsDone \/ LookUp \/ Copy \/ RoutinesDone \/ Integrate \/ FrameDone PROVE FALSE
  BY <1>5 DEF DrainOne, EventsDone, LookUp, Copy, RoutinesDone, Integrate, FrameDone
<1> QED  BY <1>1, <1>2, <1>3, <1>4, <1>5 DEF Next, FrameStep, Goroutines

LEMMA RoutineKept ==
  RInv /\ [Next]_vars =>
    [(loop.at = "write" /\ loop'.at = "routines" /\ ~ loop.disturbed /\ state[loop.obj] # None) =>
       LET o == loop.obj
           def == DefinitionOf[o]
       IN  /\ state'[o].pos = Float32[state[o].pos]
           /\ state'[o].vel = IF def.vel # None THEN def.vel ELSE state[o].vel
           /\ ("scale" \in def.routines /\ def.phase = None) =>
                state'[o].phase = ((IF state[o].phase = None THEN 0 ELSE state[o].phase) + Step) % Turn]_vars
<1> DEFINE o == loop.obj
           def == DefinitionOf[o]
           st == state[o]
           p == IF st.phase = None THEN 0 ELSE st.phase
<1> SUFFICES ASSUME RInv, Next, loop.at = "write", loop'.at = "routines", ~ loop.disturbed, st # None
             PROVE  /\ state'[o].pos = Float32[st.pos]
                    /\ state'[o].vel = IF def.vel # None THEN def.vel ELSE st.vel
                    /\ ("scale" \in def.routines /\ def.phase = None) => state'[o].phase = (p + Step) % Turn
  BY DEF vars
<1>1. WriteBack
  BY OnlyWriteBack
<1>2. o \in Objects /\ loop.copy = RunRoutines(o, Bridged(o, st)) /\ loop.copy \in State
  BY DEF RInv, RoutineInv
<1>3. st \in State
  BY <1>2 DEF RInv, StatesTyped
<1>4. state' = [state EXCEPT ![o] = WrittenBack(o, st, loop.copy)]
  BY <1>1 DEF WriteBack, Write
<1>5. state'[o] = WrittenBack(o, st, loop.copy)
  BY <1>2, <1>4 DEF RInv, StatesTyped
<1>6. /\ state'[o].pos = loop.copy.pos /\ state'[o].vel = loop.copy.vel
      /\ def.phase = None => state'[o].phase = loop.copy.phase
  BY <1>2, <1>5 DEF WrittenBack, State
<1> DEFINE b == Bridged(o, st)
<1>7. /\ b.pos = Float32[st.pos] /\ b.vel = IF def.vel # None THEN def.vel ELSE st.vel
      /\ b.phase = IF st.phase # None THEN st.phase ELSE def.phase
      /\ b = [pos |-> b.pos, vel |-> b.vel, phase |-> b.phase]
  BY DEF Bridged
<1> HIDE DEF b
<1>8. /\ loop.copy.pos = b.pos /\ loop.copy.vel = b.vel
      /\ "scale" \in def.routines =>
           loop.copy.phase = NextPhase(IF b.phase = None THEN 0 ELSE b.phase)
  BY <1>2, <1>7 DEF RunRoutines, b
<1>9. p \in Phases
  BY <1>3, StepAssumption DEF State, Phases
<1>10. def.phase = None => (IF b.phase = None THEN 0 ELSE b.phase) = p
  BY <1>7
<1>11. NextPhase(p) = (p + Step) % Turn
  BY <1>9, NextPhaseTyped
<1> HIDE DEF p, def, st, o
<1> QED  BY <1>6, <1>7, <1>8, <1>10, <1>11

\* A routine's pass over an object that nobody wrote meanwhile rounds its position to
\* single precision and moves it no further, keeps its velocity unless the definition
\* has one, and takes the phase one step further on the circle, from the phase that the
\* frame before left.
THEOREM RoutinesOnlyTurn == Spec => RoutineKeepsTheRest
BY RoutineKept, RuntimeInvariant, PTL DEF Spec, RoutineKeepsTheRest

\* Only its own step ends a transaction.
LEMMA OnlyItself ==
  ASSUME RInv, Next, NEW x \in Goroutines, tx[x].at # "rest", tx'[x].at = "rest"
  PROVE  TxStep(x)
<1>1. IsTransaction(tx[x]) /\ DOMAIN tx = Goroutines
  BY DEF RInv, TxInv
<1>2. ASSUME NEW y \in Goroutines, TxStep(y), y # x PROVE FALSE
  <2>1. PICK u, S : Moves(y, u, S)
    BY <1>2, TxStepMoves
  <2>2. tx'[x] = Marked(tx[x], S)
    BY <1>1, <1>2, <2>1 DEF Moves, Continue, Marked
  <2> QED  BY <1>1, <2>2, MarkedSame
<1>3. ASSUME NEW y \in Callers, Execute(y) PROVE FALSE
  <2>1. tx[y].at = "rest" /\ \E t \in Transactions : tx' = [tx EXCEPT ![y] = Begin(t)]
    BY <1>3 DEF Execute
  <2>2. tx'[x] = tx[x]
    BY <1>1, <2>1
  <2> QED  BY <2>2
<1>4. ASSUME NEW o \in Objects, DeleteDefinition(o) PROVE FALSE
  <2>1. tx'[x] = [tx[x] EXCEPT !.disturbed = @ \/ o \in ObjectsOf(tx[x])]
    BY <1>1, <1>4 DEF DeleteDefinition
  <2>2. tx'[x].at = tx[x].at
    BY <1>1, <2>1 DEF IsTransaction, IsContext, With
  <2> QED  BY <2>2
<1>5. ASSUME UNCHANGED tx PROVE FALSE
  BY <1>5
<1>6. ASSUME DrainOne PROVE FALSE
  <2>1. tx[Frame].at = "rest" /\ \E o \in Objects : tx' = [tx EXCEPT ![Frame] = Begin(pending[o])]
    BY <1>6 DEF DrainOne, InFrame
  <2>2. tx'[x] = tx[x]
    BY <1>1, <2>1
  <2> QED  BY <2>2
<1>7. ASSUME NEW S, Disturb(S) PROVE FALSE
  <2>1. tx'[x] = [tx[x] EXCEPT !.disturbed = @ \/ (x # Frame /\ ObjectsOf(tx[x]) \intersect S # {})]
    BY <1>1, <1>7 DEF Disturb
  <2>2. tx'[x].at = tx[x].at
    BY <1>1, <2>1 DEF IsTransaction, IsContext, With
  <2> QED  BY <2>2
<1>8. ASSUME WriteBack \/ Integrate PROVE FALSE
  BY <1>5, <1>7, <1>8 DEF WriteBack, Integrate
<1>9. ASSUME \/ Producing \/ EventsDone \/ LookUp \/ Copy \/ RoutinesDone \/ FrameDone
             \/ Start \/ Tick \/ Exit \/ Cancel \/ StopClose \/ StopReturn
      PROVE  FALSE
  BY <1>5, <1>9 DEF Producing, Produce, EventsDone, LookUp, Copy, RoutinesDone, FrameDone,
     Start, Tick, Exit, Cancel, StopClose, StopReturn
<1>10. \/ \E y \in Callers : Execute(y) \/ TxStep(y)
       \/ \E o \in Deletable : DeleteDefinition(o)
       \/ DrainOne \/ WriteBack \/ Integrate \/ TxStep(Frame)
  BY <1>9 DEF Next, FrameStep
<1>11. \E y \in Goroutines : TxStep(y)
  BY <1>3, <1>4, <1>6, <1>8, <1>10, DefinitionsAssumption DEF Goroutines
<1> QED  BY <1>2, <1>11

\* What a transaction has kept is what UndisturbedIsAtomic calls its outcome.
LEMMA KeptIsAfter ==
  ASSUME NEW t, IsTransaction(t), t.at # "rest", ObjectsOf(t) \subseteq defined,
         NEW r, Kept(t, r, Reach(t))
  PROVE  \A o \in ObjectsOf(t) : r[o] = After(t)[o]
<1> DEFINE f == Reach(t)
           fails == {k \in DOMAIN t.events : Refused(f[k - 1], t.events[k])}
           first == CHOOSE k \in fails : \A j \in fails : k <= j
<1>1. fails = {k \in DOMAIN t.events : Rejected(f[k - 1], t.events[k])}
  BY ReachIsRun
<1>2. t.mode \in Modes /\ DOMAIN t.events = 1 .. Len(t.events) /\ Len(t.events) \in Nat
  BY ObjectsAreObjects DEF IsTransaction
<1>3. After(t) = CASE fails = {} \/ t.mode = "best_effort" -> f[Len(t.events)]
                   [] fails # {} /\ t.mode = "none" -> f[first - 1]
                   [] fails # {} /\ t.mode = "rollback" -> t.before
  BY DEF After
<1>4. ASSUME NEW k \in DOMAIN t.events, Rejected(f[k - 1], t.events[k]),
             \A j \in 1 .. k - 1 : ~ Rejected(f[j - 1], t.events[j])
      PROVE  k \in fails /\ first = k
  <2>1. k \in fails
    BY <1>1, <1>4
  <2>2. \A j \in fails : j \in 1 .. Len(t.events) /\ ~ (j \in 1 .. k - 1)
    BY <1>1, <1>2, <1>4
  <2>3. \A j \in fails : k <= j /\ j \in Int
    BY <1>2, <2>2
  <2> HIDE DEF fails
  <2>4. first \in fails /\ \A j \in fails : first <= j
    BY <2>1, <2>3
  <2>5. first <= k /\ k <= first /\ k \in Int /\ first \in Int
    BY <2>1, <2>3, <2>4
  <2> QED  BY <2>1, <2>5
<1> HIDE DEF fails, first, f
<1>5. CASE /\ t.mode = "best_effort" \/ \A k \in DOMAIN t.events : ~ Rejected(f[k - 1], t.events[k])
           /\ \A o \in ObjectsOf(t) : r[o] = f[Len(t.events)][o]
  <2>1. fails = {} \/ t.mode = "best_effort"
    BY <1>1, <1>5
  <2> QED  BY <1>3, <1>5, <2>1
<1>6. CASE /\ t.mode = "none"
           /\ \E k \in DOMAIN t.events :
                /\ Rejected(f[k - 1], t.events[k])
                /\ \A j \in 1 .. k - 1 : ~ Rejected(f[j - 1], t.events[j])
                /\ \A o \in ObjectsOf(t) : r[o] = f[k - 1][o]
  <2>1. PICK k \in DOMAIN t.events :
          /\ Rejected(f[k - 1], t.events[k])
          /\ \A j \in 1 .. k - 1 : ~ Rejected(f[j - 1], t.events[j])
          /\ \A o \in ObjectsOf(t) : r[o] = f[k - 1][o]
    BY <1>6
  <2>2. k \in fails /\ first = k
    BY <1>4, <2>1
  <2>3. After(t) = f[k - 1]
    BY <1>3, <1>6, <2>2
  <2> QED  BY <2>1, <2>3
<1>7. CASE /\ t.mode = "rollback"
           /\ \E k \in DOMAIN t.events : Rejected(f[k - 1], t.events[k])
           /\ \A o \in ObjectsOf(t) : r[o] = t.before[o]
  <2>1. fails # {}
    BY <1>1, <1>7
  <2>2. After(t) = t.before
    BY <1>3, <1>7, <2>1
  <2> QED  BY <1>7, <2>2
<1>8. Kept(t, r, f)
  BY DEF f
<1> QED  BY <1>5, <1>6, <1>7, <1>8, Zenon DEF Kept

LEMMA AtomicKept ==
  RInv /\ [Next]_vars =>
    [\A x \in DOMAIN tx :
       LET t == tx[x] IN
       (/\ t.at # "rest" /\ tx'[x].at = "rest" /\ ~ t.disturbed
        /\ DOMAIN t.before \subseteq defined)
       => \A o \in DOMAIN t.before : state'[o] = After(t)[o]]_vars
<1> SUFFICES ASSUME RInv, Next, NEW x \in DOMAIN tx, tx[x].at # "rest", tx'[x].at = "rest",
                    ~ tx[x].disturbed, DOMAIN tx[x].before \subseteq defined
             PROVE  \A o \in DOMAIN tx[x].before : state'[o] = After(tx[x])[o]
  BY DEF vars
<1> DEFINE t == tx[x]
<1>1. x \in Goroutines /\ IsTransaction(t)
  BY DEF RInv, TxInv
<1>2. DOMAIN t.before = ObjectsOf(t)
  BY <1>1 DEF IsTransaction
<1>3. TxStep(x)
  BY <1>1, OnlyItself
<1>4. PICK u, S : Moves(x, u, S)
  BY <1>1, <1>3, TxStepMoves
<1>5. tx'[x] = u
  BY <1>4 DEF Moves, Continue
<1>6. \A f : IsRun(f, t) => Kept(t, state', f)
  BY <1>2, <1>4, <1>5 DEF Moves, Goes
<1>7. IsRun(Reach(t), t)
  BY <1>1, <1>2, ReachIsRun
<1>8. Kept(t, state', Reach(t))
  BY <1>6, <1>7
<1> QED  BY <1>1, <1>2, <1>8, KeptIsAfter

\* A transaction that had its objects for itself leaves what its mode promises: all up
\* to the first error, all that can be done, or all or nothing.
THEOREM TransactionsKeepTheirWord == Spec => UndisturbedIsAtomic
BY AtomicKept, RuntimeInvariant, PTL DEF Spec, UndisturbedIsAtomic
=============================================================================
