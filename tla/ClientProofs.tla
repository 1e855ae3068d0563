----------------------------- MODULE ClientProofs -----------------------------
(***************************************************************************)
(* Theorems about the interactive loop in Client: its worlds, its tours    *)
(* and its scripts, for any systems, commands, keys and scripts, and for   *)
(* any number of reloads.                                                  *)
(***************************************************************************)
EXTENDS Client, SequenceTheorems, FiniteSetTheorems, WellFoundedInduction, TLAPS

Stopped == [cancelled |-> TRUE, stops |-> 1]

\* Worlds are numbered as they are built; the session's is the last, and the one that
\* handlers see.  All before it have been stopped, once each.
WInv ==
  /\ worlds \in Seq([cancelled : BOOLEAN, stops : Nat]) /\ Len(worlds) > 0
  /\ session.world = Len(worlds) /\ worldPtr = Len(worlds)
  /\ at \in {"stop", "start"} => fresh.world = Len(worlds) + 1
  /\ \A w \in DOMAIN worlds :
       worlds[w] = IF w = Len(worlds) /\ at \notin {"start", "done"} THEN Running ELSE Stopped

LEMMA WStarts == Init => WInv
<1> SUFFICES ASSUME Init PROVE WInv
  OBVIOUS
<1>1. worlds = <<Running>> /\ session.world = 1 /\ worldPtr = 1 /\ at = "top"
  BY DEF Init
<1>2. worlds \in Seq([cancelled : BOOLEAN, stops : Nat]) /\ Len(worlds) = 1
  BY <1>1 DEF Running
<1>3. \A w \in DOMAIN worlds : worlds[w] = Running /\ w = Len(worlds)
  BY <1>1
<1> QED  BY <1>1, <1>2, <1>3 DEF WInv

\* The frame up to the reload, and all other goroutines, leave the worlds alone.
LEMMA QuietKeepsWorlds ==
  ASSUME WInv, UNCHANGED world,
         at' = at \/ {at, at'} \intersect {"stop", "start", "done"} = {}
  PROVE  WInv'
BY DEF WInv, world

LEMMA ReloadKeepsWorlds == WInv /\ Reload => WInv'
BY DEF WInv, Reload

LEMMA StopKeepsWorlds == ASSUME WInv, at \in {"stop", "exit"}, worlds' = TellToStop(session.world),
                                at' \in {"start", "done"}, at' = "start" => at = "stop",
                                UNCHANGED <<session, fresh, worldPtr>>
                         PROVE  WInv'
<1>1. Len(worlds) \in DOMAIN worlds /\ DOMAIN worlds = 1 .. Len(worlds)
  BY DEF WInv
<1>2. worlds[Len(worlds)] = Running
  BY <1>1 DEF WInv
<1>3. worlds' = [worlds EXCEPT ![Len(worlds)] = Stopped]
  BY <1>2 DEF WInv, TellToStop, Running, Stopped
<1> QED  BY <1>1, <1>3 DEF WInv, Stopped

LEMMA StartKeepsWorlds == WInv /\ StartNew => WInv'
<1> SUFFICES ASSUME WInv, StartNew PROVE WInv'
  OBVIOUS
<1>1. /\ at = "start" /\ at' = "top" /\ worlds' = Append(worlds, Running)
      /\ session' = fresh /\ worldPtr' = fresh.world
  BY DEF StartNew
<1>2. Len(worlds') = Len(worlds) + 1 /\ fresh.world = Len(worlds) + 1
  BY <1>1 DEF WInv
<1>3. worlds' \in Seq([cancelled : BOOLEAN, stops : Nat])
  BY <1>1 DEF WInv, Running
<1>4. \A w \in DOMAIN worlds' : worlds'[w] = IF w = Len(worlds') THEN Running ELSE worlds[w]
  BY <1>1 DEF WInv
<1> QED  BY <1>1, <1>2, <1>3, <1>4 DEF WInv

LEMMA WKept == WInv /\ [Next]_vars => WInv'
<1> SUFFICES ASSUME WInv, [Next]_vars PROVE WInv'
  OBVIOUS
<1>1. CASE UNCHANGED vars
  BY <1>1, QuietKeepsWorlds DEF vars, loop
<1>2. CASE StartFrame \/ Drain \/ HandleInput \/ UpdateCamera
  <2>1. UNCHANGED world
    BY <1>2 DEF StartFrame, Drain, UpdateCamera, Elsewhere, HandleInput, NoKey, OpenDialog,
       CloseDialog, ChooseObject, ChooseSystem, ChooseScript, SteerByKey, Quit, AfterKeys
  <2>2. at' = at \/ {at, at'} \intersect {"stop", "start", "done"} = {}
    BY <1>2 DEF StartFrame, Drain, UpdateCamera, HandleInput, NoKey, OpenDialog,
       CloseDialog, ChooseObject, ChooseSystem, ChooseScript, SteerByKey, Quit, AfterKeys
  <2> QED  BY <2>1, <2>2, QuietKeepsWorlds
<1>3. CASE StopOld \/ Exit
  BY <1>3, StopKeepsWorlds DEF StopOld, Exit
<1>4. CASE Interrupt \/ \E c \in Callers : Send(c) \/ GiveUp(c)
  BY <1>4, QuietKeepsWorlds DEF Interrupt, Send, GiveUp, loop
<1>5. CASE \E s \in DOMAIN runner : RunnerStep(s)
  BY <1>5, QuietKeepsWorlds DEF RunnerStep, StartLine, SendLine, Pause, loop
<1> QED
  BY <1>1, <1>2, <1>3, <1>4, <1>5, ReloadKeepsWorlds, StartKeepsWorlds DEF Next, Frame

\* The handlers, the switch and the script that is loading are about the world that runs.
THEOREM WorldInvariant == Spec => []WInv
<1>1. Init => WInv
  BY WStarts
<1>2. WInv /\ [Next]_vars => WInv'
  BY WKept
<1> QED  BY <1>1, <1>2, PTL DEF Spec

\* However many systems are loaded, by whomever and in whatever frame, and whenever the
\* loop ends: one world runs, the handlers see that one, and each is stopped once.
THEOREM OneWorldAtATime == Spec => []OneWorld
<1>1. WInv => OneWorld
  BY DEF WInv, OneWorld, Running, Stopped
<1> QED  BY <1>1, WorldInvariant, PTL

-----------------------------------------------------------------------------
(* The camera.                                                             *)

\* Stops that wait: a sequence of bodies.  Their dwells may be anything, for the order of
\* the stops does not depend on them.
IsQueue(q) == \E D : q \in Seq([body : Nat, dwell : D])

IsCamera(c) ==
  /\ c = [mode |-> c.mode, target |-> c.target, dest |-> c.dest, left |-> c.left,
          queue |-> c.queue, stop |-> c.stop, dwell |-> c.dwell, orbit |-> c.orbit,
          pending |-> c.pending]
  /\ c.mode \in {"free", "tracking", "jumping"} /\ c.dest \in Nat /\ c.left \in Nat
  /\ IsQueue(c.queue)

\* A flight has frames left.
Flies(c) == c.mode = "jumping" => c.left > 0

\* The bodies that the camera has still to land on.
Due(c) == IF c.mode = "jumping" THEN <<c.dest>> \o StopBodies(c.queue) ELSE StopBodies(c.queue)

LEMMA StopsFacts ==
  ASSUME NEW R, \A r \in R : r.body \in Nat, NEW q \in Seq(R)
  PROVE  /\ StopBodies(q) \in Seq(Nat) /\ Len(StopBodies(q)) = Len(q)
         /\ \A k \in 1 .. Len(q) : StopBodies(q)[k] = q[k].body
<1>1. Len(q) \in Nat /\ DOMAIN q = 1 .. Len(q) /\ \A k \in 1 .. Len(q) : q[k] \in R
  BY LenProperties
<1>2. StopBodies(q) \in [1 .. Len(q) -> Nat]
  BY <1>1 DEF StopBodies
<1>3. StopBodies(q) \in Seq(Nat)
  BY <1>1, <1>2, SeqDef
<1> QED  BY <1>1, <1>2, <1>3, LenProperties DEF StopBodies

LEMMA QueueFacts ==
  ASSUME NEW q, IsQueue(q)
  PROVE  /\ StopBodies(q) \in Seq(Nat)
         /\ q # << >> => /\ Head(q).body \in Nat /\ IsQueue(Tail(q)) /\ StopBodies(q) # << >>
                         /\ <<Head(q).body>> \o StopBodies(Tail(q)) = StopBodies(q)
<1>1. PICK D : q \in Seq([body : Nat, dwell : D])
  BY DEF IsQueue
<1>2. PICK R : R = [body : Nat, dwell : D]
  OBVIOUS
<1>3. q \in Seq(R) /\ \A r \in R : r.body \in Nat
  BY <1>1, <1>2
<1>4. StopBodies(q) \in Seq(Nat) /\ Len(StopBodies(q)) = Len(q)
      /\ \A k \in 1 .. Len(q) : StopBodies(q)[k] = q[k].body
  BY <1>3, StopsFacts
<1>5. ASSUME q # << >>
      PROVE  /\ Head(q).body \in Nat /\ IsQueue(Tail(q)) /\ StopBodies(q) # << >>
             /\ <<Head(q).body>> \o StopBodies(Tail(q)) = StopBodies(q)
  <2>1. Len(q) \in Nat \ {0} /\ Head(q) = q[1] /\ q[1] \in R
    BY <1>3, <1>5, EmptySeq, LenProperties
  <2>2. /\ Tail(q) \in Seq(R) /\ Len(Tail(q)) = Len(q) - 1
        /\ \A k \in 1 .. Len(q) - 1 : Tail(q)[k] = q[k + 1]
    BY <1>3, <1>5, HeadTailProperties
  <2>3. /\ StopBodies(Tail(q)) \in Seq(Nat) /\ Len(StopBodies(Tail(q))) = Len(q) - 1
        /\ \A k \in 1 .. Len(q) - 1 : StopBodies(Tail(q))[k] = Tail(q)[k].body
    BY <1>3, <2>2, StopsFacts
  <2>4. PICK h : h = Head(q).body
    OBVIOUS
  <2>5. PICK t : t = StopBodies(Tail(q))
    OBVIOUS
  <2>6. <<h>> \in Seq(Nat) /\ Len(<<h>>) = 1 /\ <<h>>[1] = h /\ h \in Nat
    BY <1>3, <2>1, <2>4
  <2>7. /\ <<h>> \o t \in Seq(Nat) /\ Len(<<h>> \o t) = Len(q)
        /\ \A i \in 1 .. Len(q) : (<<h>> \o t)[i] = IF i <= 1 THEN h ELSE t[i - 1]
    BY <2>1, <2>3, <2>5, <2>6, ConcatProperties
  <2>8. \A i \in 1 .. Len(q) : (<<h>> \o t)[i] = StopBodies(q)[i]
    <3> SUFFICES ASSUME NEW i \in 1 .. Len(q)
                 PROVE  (<<h>> \o t)[i] = StopBodies(q)[i]
      OBVIOUS
    <3>1. CASE i = 1
      BY <1>4, <2>1, <2>4, <2>7, <3>1
    <3>2. CASE i # 1
      <4>1. i - 1 \in 1 .. Len(q) - 1 /\ (i - 1) + 1 = i
        BY <2>1, <3>2
      <4>2. t[i - 1] = q[i].body
        BY <2>2, <2>3, <2>5, <4>1
      <4> QED  BY <1>4, <2>1, <2>7, <3>2, <4>2
    <3> QED  BY <3>1, <3>2
  <2>9. <<h>> \o t = StopBodies(q)
    BY <1>4, <2>7, <2>8, SeqEqual
  <2>10. StopBodies(q) # << >>
    BY <1>4, <2>1
  <2> QED  BY <1>2, <2>2, <2>4, <2>5, <2>6, <2>9, <2>10 DEF IsQueue
<1> QED  BY <1>4, <1>5

\* The next stop is one of those due, and is due still.
LEMMA NextStopFacts ==
  ASSUME NEW c, IsCamera(c), c.queue # << >>
  PROVE  IsCamera(NextStop(c)) /\ Flies(NextStop(c)) /\ Due(NextStop(c)) = StopBodies(c.queue)
<1>1. /\ Head(c.queue).body \in Nat /\ IsQueue(Tail(c.queue))
      /\ <<Head(c.queue).body>> \o StopBodies(Tail(c.queue)) = StopBodies(c.queue)
  BY QueueFacts DEF IsCamera
<1>2. PICK d, t, w : d = Head(c.queue).dwell /\ t = Tail(c.queue) /\ w = Head(c.queue).body
  OBVIOUS
<1>3. NextStop(c) = [[c EXCEPT !.queue = t, !.stop = d]
                       EXCEPT !.mode = "jumping", !.dest = w, !.left = Flight]
  BY <1>2 DEF NextStop, StartJumpTo
<1>4. NextStop(c) = [mode |-> "jumping", target |-> c.target, dest |-> w,
                     left |-> Flight, queue |-> t, stop |-> d,
                     dwell |-> c.dwell, orbit |-> c.orbit, pending |-> c.pending]
  BY <1>3 DEF IsCamera
<1> QED  BY <1>1, <1>2, <1>4, FlightAssumption DEF IsCamera, Due, Flies

\* A camera that is not in flight, with the same stops waiting.
AtRest(c, d) == IsCamera(d) /\ d.mode # "jumping" /\ d.queue = c.queue

LEMMA RestFacts ==
  ASSUME NEW c, NEW d, AtRest(c, d)
  PROVE  /\ IsCamera(d) /\ Flies(d) /\ Due(d) = StopBodies(c.queue)
         /\ IsCamera(OnwardAtOnce(d)) /\ Flies(OnwardAtOnce(d))
         /\ Due(OnwardAtOnce(d)) = StopBodies(c.queue)
BY NextStopFacts DEF AtRest, Due, Flies, OnwardAtOnce

LEMMA TrackingRests ==
  ASSUME NEW c, IsCamera(c), NEW i, NEW bodies
  PROVE  /\ AtRest(c, StartTracking(c, i)) /\ AtRest(c, UpdateTracking(StartTracking(c, i), bodies))
         /\ AtRest(c, StopTracking(c))
<1>1. PICK d : d = StartTracking(c, i)
  OBVIOUS
<1>2. AtRest(c, d)
  BY <1>1 DEF IsCamera, AtRest, StartTracking
<1>3. AtRest(c, UpdateTracking(d, bodies))
  BY <1>2 DEF IsCamera, AtRest, UpdateTracking
<1>4. AtRest(c, StopTracking(c))
  BY DEF IsCamera, AtRest, StopTracking
<1> QED  BY <1>1, <1>2, <1>3, <1>4

\* An arrival takes the destination off what is due.
LEMMA LandFacts ==
  ASSUME NEW c, IsCamera(c), NEW bodies
  PROVE  IsCamera(Land(c, bodies)) /\ Flies(Land(c, bodies)) /\ Due(Land(c, bodies)) = StopBodies(c.queue)
<1>1. PICK t : t = UpdateTracking(StartTracking(c, c.dest), bodies)
  OBVIOUS
<1>2. AtRest(c, t)
  BY <1>1, TrackingRests
<1>3. PICK o : o = IF t.pending # 0 THEN [t EXCEPT !.orbit = t.pending, !.pending = 0] ELSE t
  OBVIOUS
<1>4. AtRest(c, o)
  BY <1>2, <1>3 DEF AtRest, IsCamera
<1>5. PICK d : d = [o EXCEPT !.dwell = o.stop]
  OBVIOUS
<1>6. AtRest(c, d)
  BY <1>4, <1>5 DEF AtRest, IsCamera
<1>7. Land(c, bodies) = OnwardAtOnce(d)
  BY <1>1, <1>3, <1>5 DEF Land
<1> QED  BY <1>6, <1>7, RestFacts

\* A frame takes the destination off what is due when it ends the flight, and nothing else.
LEMMA TickFacts ==
  ASSUME NEW c, IsCamera(c), Flies(c), NEW bodies
  PROVE  /\ IsCamera(Tick(c, bodies)) /\ Flies(Tick(c, bodies))
         /\ Due(Tick(c, bodies)) =
              IF c.mode = "jumping" /\ c.left = 1 THEN StopBodies(c.queue) ELSE Due(c)
<1>1. CASE c.mode = "jumping" /\ c.left > 1
  <2>1. Tick(c, bodies) = [c EXCEPT !.left = @ - 1]
    BY <1>1 DEF Tick, TickJump
  <2> QED  BY <1>1, <2>1 DEF IsCamera, Due, Flies
<1>2. CASE c.mode = "jumping" /\ c.left = 1
  <2>1. PICK d : d = [c EXCEPT !.left = 0]
    OBVIOUS
  <2>2. Tick(c, bodies) = Land(d, bodies)
    BY <1>2, <2>1 DEF Tick, TickJump
  <2>3. IsCamera(d) /\ d.queue = c.queue
    BY <2>1 DEF IsCamera
  <2> QED  BY <1>2, <2>2, <2>3, LandFacts
<1>3. CASE c.mode = "tracking"
  <2>1. PICK d : d = IF c.dwell > 0 THEN [c EXCEPT !.dwell = @ - 1] ELSE c
    OBVIOUS
  <2>2. AtRest(c, d)
    BY <1>3, <2>1 DEF AtRest, IsCamera
  <2>3. PICK e : e = IF c.orbit > 0 THEN [d EXCEPT !.orbit = @ - 1] ELSE d
    OBVIOUS
  <2>4. AtRest(c, UpdateTracking(e, bodies))
    BY <2>2, <2>3 DEF AtRest, IsCamera, UpdateTracking
  <2>5. Tick(c, bodies) = IF c.dwell > 0 /\ d.dwell <= 0 /\ c.queue # << >>
                          THEN NextStop(d) ELSE UpdateTracking(e, bodies)
    BY <1>3, <2>1, <2>3 DEF Tick, TickTracking
  <2>6. c.queue # << >> => IsCamera(NextStop(d)) /\ Flies(NextStop(d)) /\ Due(NextStop(d)) = StopBodies(c.queue)
    BY <2>2, NextStopFacts DEF AtRest
  <2>7. IsCamera(UpdateTracking(e, bodies)) /\ Flies(UpdateTracking(e, bodies))
        /\ Due(UpdateTracking(e, bodies)) = StopBodies(c.queue)
    BY <2>4, RestFacts
  <2> QED  BY <1>3, <2>5, <2>6, <2>7 DEF Due
<1>4. CASE c.mode = "free"
  BY <1>4 DEF Tick, Flies
<1> QED  BY <1>1, <1>2, <1>3, <1>4 DEF IsCamera, Flies

\* A jump: its stops are what is due.
LEMMA JumpFacts ==
  ASSUME NEW c, IsCamera(c), NEW q, IsQueue(q), q # << >>
  PROVE  /\ IsCamera(JumpToCmd(c, q)) /\ Flies(JumpToCmd(c, q))
         /\ Due(JumpToCmd(c, q)) = StopBodies(q)
<1>1. /\ Head(q).body \in Nat /\ IsQueue(Tail(q))
      /\ <<Head(q).body>> \o StopBodies(Tail(q)) = StopBodies(q)
  BY QueueFacts
<1>2. PICK d, t, w : d = Head(q).dwell /\ t = Tail(q) /\ w = Head(q).body
  OBVIOUS
<1>3. JumpToCmd(c, q) = [[[c EXCEPT !.stop = d]
                           EXCEPT !.mode = "jumping", !.dest = w, !.left = Flight]
                          EXCEPT !.queue = t]
  BY <1>2 DEF JumpToCmd, StartJumpTo
<1>4. JumpToCmd(c, q) = [mode |-> "jumping", target |-> c.target, dest |-> w,
                         left |-> Flight, queue |-> t, stop |-> d,
                         dwell |-> c.dwell, orbit |-> c.orbit, pending |-> c.pending]
  BY <1>3 DEF IsCamera
<1> QED  BY <1>1, <1>2, <1>4, FlightAssumption DEF IsCamera, Due, Flies

\* Every other way to steer leaves a camera.
LEMMA SteerFacts ==
  ASSUME NEW c, IsCamera(c), Flies(c), NEW i \in Nat,
         NEW d, d \in {StartTracking(c, i), StartJumpTo(c, i), StopTracking(c), FaceTarget(c),
                       TrackCmd(c, i)}
  PROVE  IsCamera(d) /\ Flies(d)
<1>1. CASE d = StartTracking(c, i) \/ d = StopTracking(c)
  BY <1>1, TrackingRests, RestFacts
<1>2. CASE d = StartJumpTo(c, i)
  <2>1. d = [mode |-> "jumping", target |-> c.target, dest |-> i, left |-> Flight,
             queue |-> c.queue, stop |-> c.stop, dwell |-> c.dwell, orbit |-> c.orbit,
             pending |-> c.pending]
    BY <1>2 DEF StartJumpTo, IsCamera
  <2> QED  BY <2>1, FlightAssumption DEF IsCamera, Flies
<1>3. CASE d = FaceTarget(c)
  BY <1>3, TrackingRests, RestFacts DEF FaceTarget
<1>4. CASE d = TrackCmd(c, i)
  BY <1>4, TrackingRests, RestFacts DEF TrackCmd, StopTracking
<1> QED  BY <1>1, <1>2, <1>3, <1>4

\* An orbit leaves what is due as it is.
LEMMA OrbitFacts ==
  ASSUME NEW c, IsCamera(c), Flies(c), NEW i, NEW bodies
  PROVE  /\ IsCamera(OrbitCmd(c, i, bodies)) /\ Flies(OrbitCmd(c, i, bodies))
         /\ Due(OrbitCmd(c, i, bodies)) = Due(c)
<1>1. CASE c.mode = "jumping"
  <2>1. OrbitCmd(c, i, bodies) = [c EXCEPT !.pending = Lap]
    BY <1>1 DEF OrbitCmd
  <2> QED  BY <1>1, <2>1 DEF IsCamera, Due, Flies
<1>2. CASE c.mode # "jumping"
  <2>1. PICK d : d = UpdateTracking(StartTracking(c, i), bodies)
    OBVIOUS
  <2>2. PICK e : e = [d EXCEPT !.orbit = Lap]
    OBVIOUS
  <2>3. AtRest(c, e)
    BY <2>1, <2>2, TrackingRests DEF AtRest, IsCamera
  <2>4. OrbitCmd(c, i, bodies) = e
    BY <1>2, <2>1, <2>2 DEF OrbitCmd
  <2> QED  BY <1>2, <2>3, <2>4, RestFacts DEF Due
<1> QED  BY <1>1, <1>2

LEMMA NewCameraFacts == IsCamera(NewCamera) /\ Flies(NewCamera)
<1>1. NewCameraState.queue = << >> /\ << >> \in Seq([body : Nat, dwell : Nat])
  BY DEF NewCameraState
<1>2. IsCamera(NewCameraState)
  BY <1>1 DEF NewCameraState, IsCamera, IsQueue
<1> QED  BY <1>2, TrackingRests, RestFacts DEF NewCamera

-----------------------------------------------------------------------------
(* What is asked of the loop.                                              *)

LineSequences == {Unrolled(script, system) : script \in Files, system \in Systems}
Meanings == {Meaning(script, ScriptBodies(system)) : script \in Files, system \in Systems}
ScriptLines == UNION {{l[k] : k \in DOMAIN l} : l \in LineSequences}

Messages ==
  {From(c, t, cmd) : cmd \in Commands, c \in Callers, t \in Nat}
    \union [kind : {"line"}, line : ScriptLines]

Inputs ==
  [dialog : Dialogs \union {"none"}, pending : Systems \union {None}, active : Systems \union {None}]

Runners ==
  [at : {"next", "send", "retry", "pause", "done"}, pos : Nat \ {0}, cancelled : BOOLEAN,
   lines : LineSequences, means : Meanings]

\* What waits in the channel are commands and lines of scripts, and the systems named are
\* systems.
RInv ==
  /\ session.system \in Systems /\ input \in Inputs
  /\ at \in {"stop", "start"} => fresh.system \in Systems
  /\ cmdCh \in Seq(Messages) /\ sent \in Nat
  /\ runner \in Seq(Runners)
  /\ \A s \in DOMAIN runner :
       runner[s].at \in {"send", "retry"} => runner[s].pos \in DOMAIN runner[s].lines

LEMMA MessageFacts ==
  ASSUME NEW m \in Messages
  PROVE  IF m.kind = "line" THEN WellFormed(m.line) ELSE WellFormed(m)
<1>1. CASE m \in [kind : {"line"}, line : ScriptLines]
  <2>1. PICK script \in Files, system \in Systems :
           \E k \in DOMAIN Unrolled(script, system) : m.line = Unrolled(script, system)[k]
    BY <1>1 DEF ScriptLines, LineSequences
  <2> QED  BY <1>1, <2>1, ScriptsAssumption
<1>2. CASE m \notin [kind : {"line"}, line : ScriptLines]
  <2>1. PICK cmd \in Commands, c \in Callers, t \in Nat : m = From(c, t, cmd)
    BY <1>2 DEF Messages
  <2>2. \A x \in DOMAIN cmd \ {"caller", "ticket"} : x \in DOMAIN m /\ m[x] = cmd[x]
    BY <2>1 DEF From
  <2>3. WellFormed(cmd) /\ cmd.kind # "line"
    BY CommandsAssumption
  <2>4. m.kind = cmd.kind
    BY <2>2, <2>3 DEF WellFormed
  <2> QED  BY <2>2, <2>3, <2>4 DEF WellFormed
<1> QED  BY <1>1, <1>2

LEMMA RStarts == Init => RInv
<1> SUFFICES ASSUME Init PROVE RInv
  OBVIOUS
<1>1. session.system = SystemConfig /\ input = NewInput(SystemConfig) /\ at = "top"
      /\ cmdCh = << >> /\ runner = << >> /\ sent = 0
  BY DEF Init
<1>2. SystemConfig \in Systems
  BY SystemsAssumption
<1>3. cmdCh \in Seq(Messages) /\ runner \in Seq(Runners) /\ DOMAIN runner = {}
  BY <1>1, EmptySeq
<1> QED  BY <1>1, <1>2, <1>3 DEF RInv, NewInput, Inputs

LEMMA LinesFacts ==
  ASSUME NEW l \in LineSequences
  PROVE  Len(l) \in Nat /\ DOMAIN l = 1 .. Len(l) /\ \A k \in DOMAIN l : l[k] \in ScriptLines
BY ScriptsAssumption DEF LineSequences, ScriptLines

\* A goroutine of a script goes on: its lines are those it began with.
LEMMA RunnerMoves ==
  ASSUME RInv, NEW s \in DOMAIN runner, NEW where \in {"next", "send", "retry", "pause", "done"},
         NEW p \in Nat \ {0}, runner' = [runner EXCEPT ![s].at = where, ![s].pos = p],
         where \in {"send", "retry"} => p \in DOMAIN runner[s].lines,
         UNCHANGED <<at, world, input, sent>>, cmdCh' \in Seq(Messages)
  PROVE  RInv'
<1>1. DOMAIN runner = 1 .. Len(runner) /\ runner \in Seq(Runners) /\ runner[s] \in Runners
  BY DEF RInv
<1>2. PICK r : r = [runner[s] EXCEPT !.at = where, !.pos = p]
  OBVIOUS
<1>3. r \in Runners /\ r.at = where /\ r.pos = p /\ r.lines = runner[s].lines
  BY <1>1, <1>2 DEF Runners
<1>4. runner' = [runner EXCEPT ![s] = r]
  BY <1>1, <1>2
<1>5. runner' \in Seq(Runners) /\ DOMAIN runner' = DOMAIN runner
      /\ \A x \in DOMAIN runner : runner'[x] = IF x = s THEN r ELSE runner[x]
  <2>1. s \in 1 .. Len(runner) /\ r \in Runners /\ runner \in Seq(Runners)
    BY <1>1, <1>3
  <2>2. [runner EXCEPT ![s] = r] \in Seq(Runners)
    BY <2>1, ExceptSeq
  <2> QED  BY <1>1, <1>4, <2>2
<1>6. \A x \in DOMAIN runner' :
        runner'[x].at \in {"send", "retry"} => runner'[x].pos \in DOMAIN runner'[x].lines
  BY <1>3, <1>5 DEF RInv
<1> QED  BY <1>5, <1>6 DEF RInv, world

\* Scripts wait, send and end.
LEMMA RunnersKeepR ==
  ASSUME RInv, NEW s \in DOMAIN runner, RunnerStep(s)
  PROVE  RInv'
<1>1. runner[s] \in Runners /\ cmdCh \in Seq(Messages)
  BY LenProperties DEF RInv
<1>2. runner[s].lines \in LineSequences /\ runner[s].pos \in Nat \ {0}
  BY <1>1 DEF Runners
<1>3. /\ Len(runner[s].lines) \in Nat /\ DOMAIN runner[s].lines = 1 .. Len(runner[s].lines)
      /\ \A k \in DOMAIN runner[s].lines : runner[s].lines[k] \in ScriptLines
  BY <1>2, LinesFacts
<1>p. PICK p \in Nat \ {0} : p = runner[s].pos
  BY <1>2
<1>4. \A where : RunnerAt(s, where) => runner' = [runner EXCEPT ![s].at = where, ![s].pos = p]
  <2>1. \A where : [runner EXCEPT ![s].at = where]
                     = [runner EXCEPT ![s].at = where, ![s].pos = p]
    BY <1>1, <1>p DEF RInv, Runners
  <2> QED  BY <2>1 DEF RunnerAt
<1>5. CASE StartLine(s)
  <2>1. PICK where :
          where = IF Cancelled(s) \/ runner[s].pos > Len(runner[s].lines) THEN "done"
                  ELSE IF Line(s).kind = "sleep" THEN "pause" ELSE "send"
    OBVIOUS
  <2>2. RunnerAt(s, where) /\ UNCHANGED <<at, world, input, sent>> /\ cmdCh' \in Seq(Messages)
    BY <1>1, <1>5, <2>1 DEF StartLine, loop, view
  <2>3. /\ where \in {"next", "send", "retry", "pause", "done"}
        /\ where \in {"send", "retry"} => p \in DOMAIN runner[s].lines
    BY <1>3, <1>p, <2>1
  <2>4. runner' = [runner EXCEPT ![s].at = where, ![s].pos = p]
    BY <1>4, <2>2
  <2> QED  BY <2>2, <2>3, <2>4, RunnerMoves
<1>6. CASE SendLine(s)
  <2>1. PICK where \in {"retry", "pause"} : RunnerAt(s, where)
    BY <1>6 DEF SendLine
  <2>2. p \in DOMAIN runner[s].lines
    BY <1>6, <1>p DEF SendLine, RInv
  <2>3. PICK m : m = [kind |-> "line", line |-> Line(s)]
    OBVIOUS
  <2>4. m \in Messages
    BY <1>3, <1>p, <2>2, <2>3 DEF Line, Messages
  <2>5. cmdCh' = Append(cmdCh, m) \/ cmdCh' = cmdCh
    BY <1>6, <2>3 DEF SendLine
  <2>6. cmdCh' \in Seq(Messages)
    BY <1>1, <2>4, <2>5, AppendProperties
  <2>7. UNCHANGED <<at, world, input, sent>>
    BY <1>6 DEF SendLine, view, loop
  <2>8. runner' = [runner EXCEPT ![s].at = where, ![s].pos = p]
    BY <1>4, <2>1
  <2>9. where \in {"next", "send", "retry", "pause", "done"}
    OBVIOUS
  <2> QED  BY <2>2, <2>6, <2>7, <2>8, <2>9, RunnerMoves
<1>7. CASE Pause(s)
  <2>1. UNCHANGED <<at, world, input, sent>> /\ cmdCh' \in Seq(Messages)
    BY <1>1, <1>7 DEF Pause, view, loop
  <2>2. CASE runner' = [runner EXCEPT ![s].at = "next", ![s].pos = @ + 1]
    <3>1. PICK q \in Nat \ {0} : q = p + 1
      OBVIOUS
    <3>2. runner' = [runner EXCEPT ![s].at = "next", ![s].pos = q]
      BY <1>1, <1>p, <2>2, <3>1 DEF RInv, Runners
    <3> QED  BY <2>1, <3>2, RunnerMoves
  <2>3. CASE RunnerAt(s, "done")
    BY <1>4, <2>1, <2>3, RunnerMoves
  <2> QED  BY <1>7, <2>2, <2>3 DEF Pause
<1> QED  BY <1>5, <1>6, <1>7 DEF RunnerStep

\* The frame's own steps, and whatever leaves channel and scripts alone.
LEMMA QuietKeepsR ==
  ASSUME RInv, UNCHANGED runner, cmdCh' \in Seq(Messages), sent' \in Nat, input' \in Inputs,
         session'.system \in Systems,
         at' \in {"stop", "start"} => fresh'.system \in Systems
  PROVE  RInv'
BY DEF RInv

\* A command is taken from the channel: only a system asked for changes the input state.
LEMMA DrainKeepsR ==
  ASSUME RInv, Drain
  PROVE  RInv'
<1>1. UNCHANGED <<session, fresh, runner, sent>> /\ at' \in {"drain", "keys"}
  BY DEF Drain, Elsewhere, world, scripts
<1>2. CASE cmdCh = << >>
  <2>1. UNCHANGED <<cmdCh, input>>
    BY <1>2 DEF Drain, view
  <2> QED  BY <1>1, <2>1, QuietKeepsR DEF RInv
<1>3. CASE cmdCh # << >>
  <2>1. PICK m : m = Head(cmdCh)
    OBVIOUS
  <2>2. m \in Messages /\ Tail(cmdCh) \in Seq(Messages)
    BY <1>3, <2>1, HeadTailProperties DEF RInv
  <2>3. /\ cmdCh' = Tail(cmdCh)
        /\ \/ UNCHANGED view
           \/ m.kind = "line" /\ (ScriptLine(m.line) \/ SkippedLine(m.line))
           \/ m.kind # "line" /\ (Track(m) \/ JumpTo(m) \/ Orbit(m) \/ LoadSystem(m))
    BY <1>3, <2>1 DEF Drain
  <2>4. IF m.kind = "line" THEN WellFormed(m.line) ELSE WellFormed(m)
    BY <2>2, MessageFacts
  <2>5. \A cmd : WellFormed(cmd) /\ (Track(cmd) \/ JumpTo(cmd) \/ Orbit(cmd) \/ LoadSystem(cmd)
                                       \/ SkippedLine(cmd)) => input' \in Inputs
    <3>1. \A path \in Systems : [input EXCEPT !.pending = path] \in Inputs
      BY DEF RInv, Inputs
    <3> QED  BY <3>1 DEF RInv, WellFormed, Track, JumpTo, Orbit, LoadSystem, SkippedLine
  <2>6. input' \in Inputs
    BY <2>3, <2>4, <2>5 DEF ScriptLine, view, RInv
  <2> QED  BY <1>1, <2>2, <2>3, <2>6, QuietKeepsR DEF RInv
<1> QED  BY <1>2, <1>3

\* A new script: those before it are cancelled.
LEMMA StartKeepsR ==
  ASSUME RInv, NEW script \in Files, StartScript(script)
  PROVE  /\ runner' \in Seq(Runners) /\ Len(runner') = Len(runner) + 1
         /\ \A s \in DOMAIN runner : runner'[s] = [runner[s] EXCEPT !.cancelled = TRUE]
         /\ runner'[Len(runner')] = [at |-> "next", pos |-> 1, cancelled |-> FALSE,
                                     lines |-> Unrolled(script, session.system),
                                     means |-> Meaning(script, ScriptBodies(session.system))]
<1>1. PICK new : new = [at |-> "next", pos |-> 1, cancelled |-> FALSE,
                        lines |-> Unrolled(script, session.system),
                        means |-> Meaning(script, ScriptBodies(session.system))]
  OBVIOUS
<1>2. PICK old : old = [s \in DOMAIN runner |-> [runner[s] EXCEPT !.cancelled = TRUE]]
  OBVIOUS
<1>3. /\ Unrolled(script, session.system) \in LineSequences
      /\ Meaning(script, ScriptBodies(session.system)) \in Meanings
  BY DEF RInv, LineSequences, Meanings
<1>4. new \in Runners
  BY <1>1, <1>3 DEF Runners
<1>5. runner \in Seq(Runners) /\ Len(runner) \in Nat /\ DOMAIN runner = 1 .. Len(runner)
      /\ \A s \in DOMAIN runner : runner[s] \in Runners
  BY LenProperties DEF RInv
<1>6. \A s \in DOMAIN runner : [runner[s] EXCEPT !.cancelled = TRUE] \in Runners
  BY <1>5 DEF Runners
<1>7. old \in [1 .. Len(runner) -> Runners]
  BY <1>2, <1>5, <1>6
<1>8. old \in Seq(Runners)
  BY <1>5, <1>7, SeqDef
<1>9. Len(old) = Len(runner)
  BY <1>5, <1>7, <1>8, LenProperties
<1>10. runner' = Append(old, new)
  BY <1>1, <1>2 DEF StartScript
<1>11. /\ runner' \in Seq(Runners) /\ Len(runner') = Len(runner) + 1
       /\ \A s \in 1 .. Len(runner) : runner'[s] = old[s]
       /\ runner'[Len(runner) + 1] = new
  BY <1>4, <1>5, <1>8, <1>9, <1>10, AppendProperties
<1> QED  BY <1>1, <1>2, <1>5, <1>11

LEMMA KeysKeepR ==
  ASSUME RInv, HandleInput
  PROVE  RInv'
<1>1. UNCHANGED <<session, fresh, cmdCh, sent>> /\ at' = "camera"
  BY DEF HandleInput, NoKey, OpenDialog, CloseDialog, ChooseObject, ChooseSystem, ChooseScript,
     SteerByKey, Quit, AfterKeys, world
<1>2. session.system \in Systems /\ cmdCh \in Seq(Messages) /\ input \in Inputs /\ sent \in Nat
  BY DEF RInv
<1>3. input' \in Inputs
  <2>1. Closed \in Inputs
    BY <1>2 DEF Closed, Inputs
  <2>2. \A x \in Systems : [input EXCEPT !.pending = x] \in Inputs
    BY <1>2 DEF Inputs
  <2>3. \A d \in Dialogs \union {"none"} : [input EXCEPT !.dialog = d] \in Inputs
                                /\ [dialog |-> d, pending |-> None, active |-> session.system] \in Inputs
    BY <1>2 DEF Inputs
  <2> QED
    BY <1>2, <2>1, <2>2, <2>3 DEF HandleInput, NoKey, OpenDialog, CloseDialog, ChooseObject,
       ChooseSystem, ChooseScript, SteerByKey, Quit, view
<1>4. CASE ChooseScript
  <2>1. PICK script \in Files : StartScript(script)
    BY <1>4 DEF ChooseScript
  <2>2. /\ runner' \in Seq(Runners) /\ Len(runner') = Len(runner) + 1
        /\ \A s \in DOMAIN runner : runner'[s] = [runner[s] EXCEPT !.cancelled = TRUE]
        /\ runner'[Len(runner')].at = "next"
    <3>1. /\ runner' \in Seq(Runners) /\ Len(runner') = Len(runner) + 1
          /\ \A s \in DOMAIN runner : runner'[s] = [runner[s] EXCEPT !.cancelled = TRUE]
          /\ runner'[Len(runner')] = [at |-> "next", pos |-> 1, cancelled |-> FALSE,
                lines |-> Unrolled(script, session.system),
                means |-> Meaning(script, ScriptBodies(session.system))]
      BY <2>1, StartKeepsR
    <3> QED  BY <3>1
  <2>3. /\ DOMAIN runner = 1 .. Len(runner) /\ DOMAIN runner' = 1 .. Len(runner')
        /\ Len(runner) \in Nat /\ \A s \in DOMAIN runner : runner[s] \in Runners
    BY <2>2, LenProperties DEF RInv
  <2>4. \A s \in DOMAIN runner : /\ runner'[s].at = runner[s].at /\ runner'[s].pos = runner[s].pos
                                 /\ runner'[s].lines = runner[s].lines
    BY <2>2, <2>3 DEF Runners
  <2>5. \A s \in DOMAIN runner' : s \in DOMAIN runner \/ s = Len(runner')
    BY <2>2, <2>3
  <2>6. \A s \in DOMAIN runner' :
           runner'[s].at \in {"send", "retry"} => runner'[s].pos \in DOMAIN runner'[s].lines
    BY <2>2, <2>4, <2>5 DEF RInv
  <2> QED  BY <1>1, <1>2, <1>3, <2>2, <2>6 DEF RInv
<1>5. CASE ~ChooseScript
  <2>1. UNCHANGED runner
    BY <1>5 DEF HandleInput, NoKey, OpenDialog, CloseDialog, ChooseObject, ChooseSystem,
       SteerByKey, Quit, scripts
  <2> QED  BY <1>1, <1>2, <1>3, <2>1, QuietKeepsR
<1> QED  BY <1>4, <1>5

LEMMA RKept == RInv /\ [Next]_vars => RInv'
<1> SUFFICES ASSUME RInv, [Next]_vars PROVE RInv'
  OBVIOUS
<1>1. session.system \in Systems /\ cmdCh \in Seq(Messages) /\ input \in Inputs /\ sent \in Nat
  BY DEF RInv
<1>2. CASE UNCHANGED vars
  BY <1>1, <1>2, QuietKeepsR DEF vars, loop, world, view, scripts, RInv
<1>3. CASE StartFrame \/ UpdateCamera \/ StopOld \/ Exit \/ Interrupt
  <2>1. UNCHANGED <<session, fresh, cmdCh, runner, input, sent>> /\ (at' \in {"stop", "start"} => at \in {"stop", "start"})
    BY <1>3 DEF StartFrame, UpdateCamera, StopOld, Exit, Interrupt, Elsewhere, world, view,
       scripts
  <2> QED  BY <1>1, <2>1, QuietKeepsR DEF RInv
<1>4. CASE Reload
  <2>1. UNCHANGED <<session, cmdCh, runner, sent>>
        /\ (at' \in {"stop", "start"} => input.pending # None /\ fresh'.system = input.pending)
    BY <1>4 DEF Reload, scripts
  <2>2. input' \in Inputs
    BY <1>1, <1>4 DEF Reload, Inputs
  <2>3. input.pending \in Systems \union {None}
    BY <1>1 DEF Inputs
  <2> QED  BY <1>1, <2>1, <2>2, <2>3, QuietKeepsR
<1>5. CASE StartNew
  <2>1. UNCHANGED <<cmdCh, runner, sent>> /\ session' = fresh /\ input' = NewInput(fresh.system)
        /\ at' = "top" /\ fresh.system \in Systems
    BY <1>5 DEF StartNew, scripts, RInv
  <2>2. input' \in Inputs
    BY <2>1 DEF NewInput, Inputs
  <2> QED  BY <1>1, <2>1, <2>2, QuietKeepsR
<1>6. ASSUME NEW c \in Callers, Send(c) \/ GiveUp(c) PROVE RInv'
  <2>1. UNCHANGED <<session, fresh, at, runner, input>>
    BY <1>6 DEF Send, GiveUp, loop, world, view, scripts
  <2>2. cmdCh' \in Seq(Messages) /\ sent' \in Nat
    <3>1. CASE GiveUp(c)
      BY <1>1, <3>1 DEF GiveUp
    <3>2. CASE Send(c)
      <4>1. PICK cmd \in Commands : cmdCh' = Append(cmdCh, From(c, sent + 1, cmd))
        BY <3>2 DEF Send
      <4>2. sent + 1 \in Nat
        BY <1>1
      <4>3. PICK m : m = From(c, sent + 1, cmd)
        OBVIOUS
      <4>4. m \in Messages
        BY <4>2, <4>3 DEF Messages
      <4>5. cmdCh' \in Seq(Messages)
        BY <1>1, <4>1, <4>3, <4>4, AppendProperties
      <4> QED  BY <1>1, <3>2, <4>5 DEF Send
    <3> QED  BY <1>6, <3>1, <3>2
  <2> QED  BY <1>1, <2>1, <2>2, QuietKeepsR DEF RInv
<1>7. ASSUME NEW s \in DOMAIN runner, RunnerStep(s) PROVE RInv'
  BY <1>7, RunnersKeepR
<1> QED
  BY <1>2, <1>3, <1>4, <1>5, <1>6, <1>7, DrainKeepsR, KeysKeepR DEF Next, Frame

-----------------------------------------------------------------------------
(* Tours.                                                                  *)

\* A set of natural numbers has a least element.
LEMMA Least ==
  ASSUME NEW S \in SUBSET Nat, S # {}
  PROVE  \E x \in S : \A y \in S : x <= y
<1>1. \A x, y \in Nat : x < y => <<x, y>> \in OpToRel(<, Nat)
  BY DEF OpToRel
<1>2. \E R : IsWellFoundedOn(R, Nat) /\ \A x, y \in Nat : x < y => <<x, y>> \in R
  BY <1>1, NatLessThanWellFounded, Zenon
<1>3. ASSUME NEW R, IsWellFoundedOn(R, Nat), \A x, y \in Nat : x < y => <<x, y>> \in R
      PROVE  \E x \in S : \A y \in S : x <= y
  <2>1. S \subseteq Nat /\ S # {}
    OBVIOUS
  <2>2. \A A, Q, T : (IsWellFoundedOn(Q, A) /\ T \subseteq A /\ T # {})
                     => \E x \in T : \A y \in T : ~ (<<y, x>> \in Q)
    <3> SUFFICES ASSUME NEW A, NEW Q, NEW T, IsWellFoundedOn(Q, A), T \subseteq A, T # {}
                 PROVE  \E x \in T : \A y \in T : ~ (<<y, x>> \in Q)
      BY Zenon
    <3> QED  BY WFMin
  <2>3. (IsWellFoundedOn(R, Nat) /\ S \subseteq Nat /\ S # {})
        => \E x \in S : \A y \in S : ~ (<<y, x>> \in R)
    BY <2>2, Zenon
  <2>4. PICK x \in S : \A y \in S : ~ (<<y, x>> \in R)
    BY <1>3, <2>1, <2>3
  <2>5. \A y \in S : ~ (y < x)
    BY <1>3, <2>4, Zenon
  <2> QED  BY <2>5
<1> QED  BY <1>2, <1>3, Zenon

\* A body is found at its index, or not.
LEMMA FindIsIndex ==
  ASSUME NEW name
  PROVE  FindBody(name) \in Nat
<1>1. PICK is : is = {i \in 1 .. Bodies : BodiesOf[session.system][i] = name}
  OBVIOUS
<1>2. is \in SUBSET Nat
  BY <1>1
<1>3. FindBody(name) = IF is = {} THEN 0 ELSE CHOOSE i \in is : \A j \in is : i <= j
  BY <1>1 DEF FindBody
<1>4. CASE is # {}
  <2>1. \E i \in is : \A j \in is : i <= j
    BY <1>2, <1>4, Least
  <2>2. (CHOOSE i \in is : \A j \in is : i <= j) \in is
    BY <2>1
  <2> QED  BY <1>2, <1>3, <1>4, <2>2
<1> QED  BY <1>3, <1>4

\* The stops of a tour that are bodies of the system, as they wait.
LEMMA FoundFacts ==
  ASSUME NEW stops, IsFiniteSet(DOMAIN stops)
  PROVE  IsQueue(Found(stops))
<1>1. PICK known : known = {k \in DOMAIN stops : FindBody(stops[k].name) # 0}
  OBVIOUS
<1>2. PICK n : n = Cardinality(known)
  OBVIOUS
<1>3. n \in Nat
  <2>1. known \in SUBSET DOMAIN stops
    BY <1>1
  <2>2. IsFiniteSet(known)
    BY <2>1, FS_Subset
  <2> QED  BY <1>2, <2>2, FS_CardinalityType
<1>4. PICK q : q = Found(stops)
  OBVIOUS
<1>5. /\ q = [k \in 1 .. n |-> q[k]]
      /\ \A k \in 1 .. n : q[k].body \in Nat /\ q[k] = [body |-> q[k].body, dwell |-> q[k].dwell]
  BY <1>1, <1>2, <1>4, FindIsIndex DEF Found
<1>6. PICK D : D = {q[k].dwell : k \in 1 .. n}
  OBVIOUS
<1>7. q \in [1 .. n -> [body : Nat, dwell : D]]
  BY <1>5, <1>6
<1>8. q \in Seq([body : Nat, dwell : D])
  BY <1>3, <1>7, SeqDef
<1> QED  BY <1>4, <1>8 DEF IsQueue

\* The camera has landed on the stops of a tour up to those still due.
TInv ==
  /\ IsCamera(cam) /\ Flies(cam)
  /\ asked \in Seq(Nat) /\ seen \in Seq(Nat)
  /\ asked = << >> => seen = << >>
  /\ asked # << >> => asked = seen \o Due(cam)

LEMMA DueFacts ==
  ASSUME NEW c, IsCamera(c)
  PROVE  /\ StopBodies(c.queue) \in Seq(Nat) /\ Due(c) \in Seq(Nat)
         /\ \A s \in Seq(Nat) : c.mode = "jumping" =>
              s \o Due(c) = Append(s, c.dest) \o StopBodies(c.queue)
<1>1. StopBodies(c.queue) \in Seq(Nat) /\ c.dest \in Nat
  BY QueueFacts DEF IsCamera
<1>2. PICK b, d : b = StopBodies(c.queue) /\ d = c.dest
  OBVIOUS
<1>3. <<d>> \in Seq(Nat) /\ b \in Seq(Nat)
  BY <1>1, <1>2
<1>4. Due(c) = IF c.mode = "jumping" THEN <<d>> \o b ELSE b
  BY <1>2 DEF Due
<1>5. <<d>> \o b \in Seq(Nat)
  BY <1>3, ConcatProperties
<1>6. ASSUME NEW s \in Seq(Nat), c.mode = "jumping"
      PROVE  s \o Due(c) = Append(s, c.dest) \o StopBodies(c.queue)
  <2>1. s \o (<<d>> \o b) = (s \o <<d>>) \o b
    <3>1. PICK e : e = <<d>>
      OBVIOUS
    <3>2. (s \o e) \o b = s \o (e \o b)
      BY <1>3, <3>1, ConcatAssociative
    <3> QED  BY <3>1, <3>2
  <2>2. s \o <<d>> = Append(s, d)
    BY <1>1, <1>2, AppendIsConcat
  <2> QED  BY <1>2, <1>4, <1>6, <2>1, <2>2
<1> QED  BY <1>1, <1>2, <1>3, <1>4, <1>5, <1>6

LEMMA TStarts == Init => TInv
<1> SUFFICES ASSUME Init PROVE TInv
  OBVIOUS
<1>1. cam = NewCamera /\ asked = << >> /\ seen = << >>
  BY DEF Init
<1> QED  BY <1>1, NewCameraFacts, EmptySeq DEF TInv

\* Whatever else steers ends the tour.
LEMMA SteeredKeepsT ==
  ASSUME Steered, IsCamera(cam'), Flies(cam')
  PROVE  TInv'
BY EmptySeq DEF Steered, TInv

LEMMA CommandKeepsT ==
  ASSUME RInv, TInv, NEW cmd, WellFormed(cmd),
         Track(cmd) \/ JumpTo(cmd) \/ Orbit(cmd) \/ LoadSystem(cmd) \/ SkippedLine(cmd)
  PROVE  TInv'
<1>1. CASE SameCamera
  BY <1>1 DEF SameCamera, TInv
<1>2. CASE Track(cmd) /\ ~SameCamera
  <2>1. PICK i \in Nat : cam' = TrackCmd(cam, i) /\ Steered
    <3>1. FindBody(cmd.name) \in Nat
      BY FindIsIndex
    <3> QED  BY <1>2, <3>1 DEF Track
  <2>2. PICK d : d = TrackCmd(cam, i)
    OBVIOUS
  <2>3. IsCamera(d) /\ Flies(d)
    BY <2>2, SteerFacts DEF TInv
  <2> QED  BY <2>1, <2>2, <2>3, SteeredKeepsT
<1>3. CASE JumpTo(cmd) /\ ~SameCamera
  <2>1. IsFiniteSet(DOMAIN cmd.stops)
    BY <1>3 DEF JumpTo, WellFormed
  <2>2. PICK q : q = Found(cmd.stops)
    OBVIOUS
  <2>3. IsQueue(q)
    BY <2>1, <2>2, FoundFacts
  <2>4. q # << >> /\ cam' = JumpToCmd(cam, q) /\ asked' = StopBodies(q) /\ seen' = << >>
    BY <1>3, <2>2 DEF JumpTo
  <2>5. IsCamera(cam') /\ Flies(cam') /\ Due(cam') = asked'
    BY <2>3, <2>4, JumpFacts DEF TInv
  <2>6. asked' \in Seq(Nat) /\ << >> \in Seq(Nat) /\ << >> \o asked' = asked' /\ asked' # << >>
    <3>1. StopBodies(q) \in Seq(Nat)
      BY <2>3, QueueFacts
    <3>2. StopBodies(q) # << >>
      BY <2>3, <2>4, QueueFacts
    <3> QED  BY <2>4, <3>1, <3>2, EmptySeq, ConcatEmptySeq
  <2> QED  BY <2>4, <2>5, <2>6 DEF TInv
<1>4. CASE Orbit(cmd)
  <2>1. UNCHANGED <<asked, seen>> /\
        (cam' = cam \/ \E i, bodies : cam' = OrbitCmd(cam, i, bodies))
    BY <1>4 DEF Orbit
  <2> QED  BY <2>1, OrbitFacts DEF TInv
<1> QED  BY <1>1, <1>2, <1>3, <1>4 DEF LoadSystem, SkippedLine

LEMMA DrainKeepsT ==
  ASSUME RInv, TInv, Drain
  PROVE  TInv'
<1>1. CASE UNCHANGED view
  BY <1>1 DEF view, TInv
<1>2. CASE ~UNCHANGED view
  <2>1. PICK m : m = Head(cmdCh)
    OBVIOUS
  <2>2. cmdCh # << >>
    BY <1>2 DEF Drain
  <2>3. m \in Messages
    BY <2>1, <2>2, HeadTailProperties DEF RInv
  <2>4. \/ m.kind = "line" /\ (ScriptLine(m.line) \/ SkippedLine(m.line))
        \/ m.kind # "line" /\ (Track(m) \/ JumpTo(m) \/ Orbit(m) \/ LoadSystem(m))
    BY <1>2, <2>1, <2>2 DEF Drain
  <2>5. IF m.kind = "line" THEN WellFormed(m.line) ELSE WellFormed(m)
    BY <2>3, MessageFacts
  <2>6. CASE m.kind = "line"
    <3>1. PICK l : l = m.line
      OBVIOUS
    <3> QED  BY <2>4, <2>5, <2>6, <3>1, CommandKeepsT DEF ScriptLine
  <2>7. CASE m.kind # "line"
    BY <2>4, <2>5, <2>7, CommandKeepsT
  <2> QED  BY <2>6, <2>7
<1> QED  BY <1>1, <1>2

\* A landing takes the next stop from what is due to what has been seen.
LEMMA TickKeepsT ==
  ASSUME TInv, UpdateCamera
  PROVE  TInv'
<1>1. PICK b : b = Bodies
  OBVIOUS
<1>2. cam' = Tick(cam, b) /\ asked' = asked
      /\ seen' = IF asked # << >> /\ cam.mode = "jumping" /\ cam.left = 1
                 THEN Append(seen, cam.dest) ELSE seen
  BY <1>1 DEF UpdateCamera
<1>3. /\ IsCamera(cam') /\ Flies(cam')
      /\ Due(cam') = IF cam.mode = "jumping" /\ cam.left = 1 THEN StopBodies(cam.queue) ELSE Due(cam)
  BY <1>2, TickFacts DEF TInv
<1>4. seen' \in Seq(Nat)
  BY <1>2, AppendProperties DEF TInv, IsCamera
<1>5. asked # << >> => asked = seen' \o Due(cam')
  BY <1>2, <1>3, DueFacts DEF TInv
<1> QED  BY <1>2, <1>3, <1>4, <1>5 DEF TInv

LEMMA KeysKeepT ==
  ASSUME TInv, HandleInput
  PROVE  TInv'
<1>1. CASE SameCamera
  BY <1>1 DEF SameCamera, TInv
<1>2. CASE ~SameCamera
  <2>1. PICK i \in Nat : cam' \in {StartTracking(cam, i), StartJumpTo(cam, i), StopTracking(cam),
                                   FaceTarget(cam)}
    BY <1>2 DEF HandleInput, NoKey, OpenDialog, CloseDialog, ChooseObject, ChooseSystem,
       ChooseScript, SteerByKey, Quit, view, SameCamera
  <2>2. Steered
    BY <1>2 DEF HandleInput, NoKey, OpenDialog, CloseDialog, ChooseObject, ChooseSystem,
       ChooseScript, SteerByKey, Quit, view, SameCamera
  <2>3. PICK d : d = cam'
    OBVIOUS
  <2>4. IsCamera(d) /\ Flies(d)
    BY <2>1, <2>3, SteerFacts DEF TInv
  <2> QED  BY <2>2, <2>3, <2>4, SteeredKeepsT
<1> QED  BY <1>1, <1>2

LEMMA TKept == RInv /\ TInv /\ [Next]_vars => TInv'
<1> SUFFICES ASSUME RInv, TInv, [Next]_vars PROVE TInv'
  OBVIOUS
<1>1. CASE SameCamera
  BY <1>1 DEF SameCamera, TInv
<1>2. CASE StartNew
  BY <1>2, NewCameraFacts, SteeredKeepsT DEF StartNew
<1>3. CASE ~SameCamera /\ ~StartNew
  <2>1. Drain \/ HandleInput \/ UpdateCamera
    BY <1>3 DEF Next, Frame, SameCamera, vars, view, StartFrame, Reload, StopOld, Exit, Interrupt,
       Send, GiveUp, RunnerStep, StartLine, SendLine, Pause
  <2> QED  BY <2>1, DrainKeepsT, KeysKeepT, TickKeepsT
<1> QED  BY <1>1, <1>2, <1>3

\* What waits in the channel of the loop are commands and whole lines of scripts, the input
\* and the worlds are of systems there are, and a script that sends is at a line it has.
THEOREM RequestsInvariant == Spec => []RInv
<1>1. Init => RInv
  BY RStarts
<1>2. RInv /\ [Next]_vars => RInv'
  BY RKept
<1> QED  BY <1>1, <1>2, PTL DEF Spec

LEMMA PrefixOfConcat ==
  ASSUME NEW s \in Seq(Nat), NEW t \in Seq(Nat)
  PROVE  IsPrefix(s, s \o t)
<1>1. /\ Len(s) \in Nat /\ Len(t) \in Nat /\ Len(s \o t) = Len(s) + Len(t) /\ s \o t \in Seq(Nat)
      /\ \A i \in 1 .. Len(s) : (s \o t)[i] = s[i]
  BY ConcatProperties, LenProperties
<1>2. /\ SubSeq(s \o t, 1, Len(s)) \in Seq(Nat) /\ Len(SubSeq(s \o t, 1, Len(s))) = Len(s)
      /\ \A i \in 1 .. Len(s) : SubSeq(s \o t, 1, Len(s))[i] = s[i]
  BY <1>1
<1>3. SubSeq(s, 1, Len(s)) = s
  BY SubSeqFull
<1>4. SubSeq(s \o t, 1, Len(s)) = s
  BY <1>2, SeqEqual
<1> QED  BY <1>1, <1>3, <1>4 DEF IsPrefix

\* The camera lands on the stops of a JumpTo in their order, on each once and on nothing
\* else, whatever is queued, pressed, or asked of it on the way, however long the flights
\* and dwells are, and in whatever system.
THEOREM ToursInOrder == Spec => []TourInOrder
<1>1. Init => TInv
  BY TStarts
<1>2. RInv /\ TInv /\ [Next]_vars => TInv'
  BY TKept
<1>3. TInv => TourInOrder
  <2> SUFFICES ASSUME TInv PROVE TourInOrder
    OBVIOUS
  <2>1. CASE asked = << >>
    <3>1. IsPrefix(<< >>, << >> \o << >>)
      BY EmptySeq, PrefixOfConcat
    <3> QED  BY <2>1, <3>1, EmptySeq, ConcatEmptySeq DEF TInv, TourInOrder
  <2>2. CASE asked # << >>
    <3>1. PICK t : t = Due(cam)
      OBVIOUS
    <3>2. PICK s : s = seen
      OBVIOUS
    <3>3. s \in Seq(Nat) /\ t \in Seq(Nat) /\ asked = s \o t
      BY <2>2, <3>1, <3>2, DueFacts DEF TInv
    <3>4. IsPrefix(s, s \o t)
      BY <3>3, PrefixOfConcat
    <3> QED  BY <3>2, <3>3, <3>4 DEF TourInOrder
  <2> QED  BY <2>1, <2>2
<1> QED  BY <1>1, <1>2, <1>3, RequestsInvariant, PTL DEF Spec

-----------------------------------------------------------------------------
(* Scripts.                                                                *)

SentLines == [script : Nat, pos : Nat \ {0}, line : ScriptLines, late : BOOLEAN]

\* The line sent as l is the one at its place in its script, and the script has gone on.
InPlace(l) ==
  /\ l.script \in DOMAIN runner
  /\ l.pos \in DOMAIN runner[l.script].lines /\ l.line = runner[l.script].lines[l.pos]
  /\ l.pos <= runner[l.script].pos
  /\ runner[l.script].at \in {"next", "send", "retry"} => l.pos < runner[l.script].pos

\* The last line of a script that was cancelled: it will not send another.
Final(l) == l.late => Cancelled(l.script) /\ runner[l.script].at \notin {"send", "retry"}

LInv ==
  /\ lines \in Seq(SentLines)
  /\ \A i \in DOMAIN lines : InPlace(lines[i]) /\ Final(lines[i])
  /\ \A i, j \in DOMAIN lines :
        i < j /\ lines[i].script = lines[j].script => lines[i].pos < lines[j].pos /\ ~lines[i].late
  /\ \A s \in DOMAIN runner :
        runner[s].at = "done" /\ ~Cancelled(s) => runner[s].pos > Len(runner[s].lines)

\* A script that goes on, is cancelled, or begins, sends nothing: once it is cancelled it
\* begins no line.
LEMMA GoingOnKeepsL ==
  ASSUME RInv, LInv, lines' = lines, DOMAIN runner \subseteq DOMAIN runner',
         \A s \in DOMAIN runner :
            /\ runner'[s].lines = runner[s].lines
            /\ runner'[s].pos \in Nat /\ runner'[s].pos >= runner[s].pos
            /\ runner'[s].at \in {"next", "send", "retry"} =>
                 runner'[s].pos > runner[s].pos \/ runner[s].at \in {"next", "send", "retry"}
            /\ Cancelled(s) => Cancelled(s)'
            /\ Cancelled(s) /\ runner'[s].at \in {"send", "retry"} =>
                 runner[s].at \in {"send", "retry"},
         \A s \in DOMAIN runner' :
            runner'[s].at = "done" /\ ~Cancelled(s)' => runner'[s].pos > Len(runner'[s].lines)
  PROVE  LInv'
<1>1. \A s \in DOMAIN runner : runner[s].pos \in Nat
  <2>1. \A s \in DOMAIN runner : runner[s] \in Runners
    BY LenProperties DEF RInv
  <2> QED  BY <2>1 DEF Runners
<1>2. ASSUME NEW i \in DOMAIN lines PROVE InPlace(lines[i])' /\ Final(lines[i])'
  <2>1. PICK l : l = lines[i]
    OBVIOUS
  <2>2. l \in SentLines /\ InPlace(l) /\ Final(l)
    BY <2>1, LenProperties DEF LInv
  <2>3. PICK s : s = l.script
    OBVIOUS
  <2>4. s \in DOMAIN runner /\ l.pos \in Nat
    BY <2>2, <2>3 DEF InPlace, SentLines
  <2>5. InPlace(l)'
    BY <1>1, <2>2, <2>3, <2>4 DEF InPlace
  <2>6. Final(l)'
    BY <2>2, <2>3, <2>4 DEF Final
  <2> QED  BY <2>1, <2>5, <2>6
<1> QED  BY <1>2 DEF LInv

\* A line is sent: it comes after those of its script, none of which was late.
LEMMA SendingKeepsL ==
  ASSUME RInv, LInv, NEW s \in DOMAIN runner, SendLine(s)
  PROVE  LInv'
<1>1. /\ DOMAIN runner = 1 .. Len(runner) /\ Len(runner) \in Nat /\ runner[s] \in Runners
      /\ \A x \in DOMAIN runner : runner[x] \in Runners
  BY LenProperties DEF RInv
<1>2. PICK p \in Nat \ {0} : p = runner[s].pos
  BY <1>1 DEF Runners
<1>3. runner[s].at \in {"send", "retry"} /\ p \in DOMAIN runner[s].lines
  BY <1>2 DEF SendLine, RInv
<1>4. /\ UNCHANGED ctxDone /\ DOMAIN runner' = DOMAIN runner
      /\ \A x \in DOMAIN runner : /\ runner'[x].lines = runner[x].lines
                                  /\ runner'[x].pos = runner[x].pos
                                  /\ runner'[x].cancelled = runner[x].cancelled
                                  /\ x # s => runner'[x].at = runner[x].at
      /\ runner'[s].at = "pause" \/ (runner'[s].at = "retry" /\ lines' = lines)
  BY <1>1 DEF SendLine, RunnerAt, Runners, loop
<1>5. \A x \in DOMAIN runner : Cancelled(x)' = Cancelled(x)
  BY <1>4 DEF Cancelled
<1>6. CASE lines' = lines
  <2>1. \A x \in DOMAIN runner : runner[x].pos \in Nat
    BY <1>1 DEF Runners
  <2>2. \A x \in DOMAIN runner :
           runner'[x].at = "done" /\ ~Cancelled(x)' => runner'[x].pos > Len(runner'[x].lines)
    BY <1>4, <1>5 DEF LInv
  <2> QED  BY <1>3, <1>4, <1>5, <1>6, <2>1, <2>2, GoingOnKeepsL
<1>7. CASE lines' # lines
  <2>1. PICK l : l = [script |-> s, pos |-> p, line |-> Line(s), late |-> Cancelled(s)]
    OBVIOUS
  <2>2. lines' = Append(lines, l) /\ runner'[s].at = "pause"
    BY <1>2, <1>4, <1>7, <2>1 DEF SendLine
  <2>3. l \in SentLines /\ l.script = s /\ l.pos = p /\ l.line = runner[s].lines[p]
        /\ (l.late => Cancelled(s))
    <3>1. PICK c \in BOOLEAN : c = Cancelled(s)
      BY DEF Cancelled
    <3>2. s \in Nat /\ Line(s) = runner[s].lines[p]
      BY <1>1, <1>2 DEF Line
    <3>3. runner[s].lines[p] \in ScriptLines
      BY <1>1, <1>3, LinesFacts DEF Runners
    <3> QED  BY <2>1, <3>1, <3>2, <3>3 DEF SentLines
  <2>4. /\ lines \in Seq(SentLines) /\ lines' \in Seq(SentLines) /\ Len(lines) \in Nat
        /\ DOMAIN lines = 1 .. Len(lines) /\ DOMAIN lines' = 1 .. Len(lines) + 1
        /\ \A i \in DOMAIN lines : lines'[i] = lines[i] /\ lines[i] \in SentLines
        /\ lines'[Len(lines) + 1] = l
    BY <2>2, <2>3, AppendProperties, LenProperties DEF LInv
  <2>5. \A i \in DOMAIN lines : lines[i].script = s => lines[i].pos < p /\ ~lines[i].late
    BY <1>2, <1>3 DEF LInv, InPlace, Final
  <2>6. ASSUME NEW i \in DOMAIN lines PROVE InPlace(lines[i])' /\ Final(lines[i])'
    <3>1. PICK k : k = lines[i]
      OBVIOUS
    <3>2. PICK x : x = k.script
      OBVIOUS
    <3>3. /\ k \in SentLines /\ InPlace(k) /\ Final(k) /\ lines'[i] = k
          /\ x = s => ~k.late /\ k.pos < p
      BY <2>4, <2>5, <3>1, <3>2 DEF LInv
    <3>4. x \in DOMAIN runner
      BY <3>2, <3>3 DEF InPlace
    <3>5. InPlace(k)'
      BY <1>4, <2>2, <3>2, <3>3, <3>4 DEF InPlace
    <3>6. Final(k)'
      BY <1>4, <1>5, <2>2, <3>2, <3>3, <3>4 DEF Final
    <3> QED  BY <3>3, <3>5, <3>6
  <2>7. InPlace(l)' /\ Final(l)'
    BY <1>2, <1>3, <1>4, <1>5, <2>2, <2>3 DEF InPlace, Final
  <2>8. \A i, j \in DOMAIN lines' :
           i < j /\ lines'[i].script = lines'[j].script =>
             lines'[i].pos < lines'[j].pos /\ ~lines'[i].late
    BY <2>3, <2>4, <2>5 DEF LInv
  <2>9. \A x \in DOMAIN runner' :
           runner'[x].at = "done" /\ ~Cancelled(x)' => runner'[x].pos > Len(runner'[x].lines)
    BY <1>4, <1>5, <2>2 DEF LInv
  <2>10. \A i \in DOMAIN lines' : (InPlace(lines[i]) /\ Final(lines[i]))'
    <3>1. \A i \in DOMAIN lines' : i \in DOMAIN lines \/ i = Len(lines) + 1
      BY <2>4
    <3> QED  BY <2>4, <2>6, <2>7, <3>1
  <2> QED  BY <2>4, <2>8, <2>9, <2>10 DEF LInv
<1> QED  BY <1>6, <1>7

LEMMA LStarts == Init => LInv
<1> SUFFICES ASSUME Init PROVE LInv
  OBVIOUS
<1>1. lines = << >> /\ runner = << >>
  BY DEF Init
<1>2. lines \in Seq(SentLines) /\ DOMAIN lines = {} /\ DOMAIN runner = {}
  BY <1>1, EmptySeq
<1> QED  BY <1>2 DEF LInv

\* The goroutine of a script between two lines.
LEMMA RunnersKeepL ==
  ASSUME RInv, LInv, NEW s \in DOMAIN runner, RunnerStep(s)
  PROVE  LInv'
<1>1. \A x \in DOMAIN runner : runner[x] \in Runners
  BY LenProperties DEF RInv
<1>2. \A x \in DOMAIN runner : runner[x].pos \in Nat /\ Len(runner[x].lines) \in Nat
  BY <1>1, LinesFacts DEF Runners
<1>3. CASE StartLine(s)
  <2>1. PICK where :
          where = IF Cancelled(s) \/ runner[s].pos > Len(runner[s].lines) THEN "done"
                  ELSE IF Line(s).kind = "sleep" THEN "pause" ELSE "send"
    OBVIOUS
  <2>2. RunnerAt(s, where) /\ UNCHANGED <<ctxDone, lines>> /\ runner[s].at = "next"
    BY <1>3, <2>1 DEF StartLine, loop
  <2>3. runner' = [runner EXCEPT ![s].at = where]
    BY <2>2 DEF RunnerAt
  <2>4. /\ DOMAIN runner' = DOMAIN runner
        /\ \A x \in DOMAIN runner : /\ runner'[x].lines = runner[x].lines
                                    /\ runner'[x].pos = runner[x].pos
                                    /\ runner'[x].cancelled = runner[x].cancelled
                                    /\ runner'[x].at = IF x = s THEN where ELSE runner[x].at
    BY <1>1, <2>3 DEF Runners
  <2>5. \A x \in DOMAIN runner : Cancelled(x)' = Cancelled(x)
    BY <2>2, <2>4 DEF Cancelled
  <2>6. \A x \in DOMAIN runner' :
           runner'[x].at = "done" /\ ~Cancelled(x)' => runner'[x].pos > Len(runner'[x].lines)
    BY <2>1, <2>4, <2>5 DEF LInv
  <2> QED  BY <1>2, <2>1, <2>2, <2>4, <2>5, <2>6, GoingOnKeepsL
<1>4. CASE SendLine(s)
  BY <1>4, SendingKeepsL
<1>5. CASE Pause(s)
  <2>1. UNCHANGED <<ctxDone, lines>> /\ runner[s].at = "pause"
    BY <1>5 DEF Pause, loop
  <2>2. /\ DOMAIN runner' = DOMAIN runner
        /\ \A x \in DOMAIN runner :
              /\ runner'[x].lines = runner[x].lines /\ runner'[x].cancelled = runner[x].cancelled
              /\ x # s => runner'[x].at = runner[x].at /\ runner'[x].pos = runner[x].pos
        /\ \/ runner'[s].at = "next" /\ runner'[s].pos = runner[s].pos + 1
           \/ runner'[s].at = "done" /\ runner'[s].pos = runner[s].pos /\ Cancelled(s)
    <3>1. CASE runner' = [runner EXCEPT ![s].at = "next", ![s].pos = @ + 1]
      BY <1>1, <3>1 DEF Runners
    <3>2. CASE Cancelled(s) /\ runner' = [runner EXCEPT ![s].at = "done"]
      BY <1>1, <3>2 DEF Runners
    <3> QED  BY <1>5, <3>1, <3>2 DEF Pause, RunnerAt
  <2>3. \A x \in DOMAIN runner : Cancelled(x)' = Cancelled(x)
    BY <2>1, <2>2 DEF Cancelled
  <2>4. \A x \in DOMAIN runner' :
           runner'[x].at = "done" /\ ~Cancelled(x)' => runner'[x].pos > Len(runner'[x].lines)
    BY <2>2, <2>3 DEF LInv
  <2> QED  BY <1>2, <2>1, <2>2, <2>3, <2>4, GoingOnKeepsL
<1> QED  BY <1>3, <1>4, <1>5 DEF RunnerStep

LEMMA ScriptKeepsL ==
  ASSUME RInv, LInv, NEW script \in Files, StartScript(script), UNCHANGED <<ctxDone, lines>>
  PROVE  LInv'
<1>1. /\ runner' \in Seq(Runners) /\ Len(runner') = Len(runner) + 1
      /\ \A s \in DOMAIN runner : runner'[s] = [runner[s] EXCEPT !.cancelled = TRUE]
      /\ runner'[Len(runner')].at = "next"
  <2>1. /\ runner' \in Seq(Runners) /\ Len(runner') = Len(runner) + 1
        /\ \A s \in DOMAIN runner : runner'[s] = [runner[s] EXCEPT !.cancelled = TRUE]
        /\ runner'[Len(runner')] = [at |-> "next", pos |-> 1, cancelled |-> FALSE,
              lines |-> Unrolled(script, session.system),
              means |-> Meaning(script, ScriptBodies(session.system))]
    BY StartKeepsR
  <2> QED  BY <2>1
<1>2. /\ DOMAIN runner = 1 .. Len(runner) /\ DOMAIN runner' = 1 .. Len(runner')
      /\ Len(runner) \in Nat /\ \A s \in DOMAIN runner : runner[s] \in Runners
  BY <1>1, LenProperties DEF RInv
<1>3. \A s \in DOMAIN runner :
         /\ runner'[s].at = runner[s].at /\ runner'[s].pos = runner[s].pos
         /\ runner'[s].lines = runner[s].lines /\ runner'[s].cancelled /\ runner[s].pos \in Nat
  <2> SUFFICES ASSUME NEW s \in DOMAIN runner
               PROVE  /\ runner'[s].at = runner[s].at /\ runner'[s].pos = runner[s].pos
                      /\ runner'[s].lines = runner[s].lines /\ runner'[s].cancelled
                      /\ runner[s].pos \in Nat
    OBVIOUS
  <2>1. PICK r \in Runners : r = runner[s]
    BY <1>2
  <2>2. runner'[s] = [r EXCEPT !.cancelled = TRUE]
    BY <1>1, <2>1
  <2> QED  BY <2>1, <2>2 DEF Runners
<1>4. \A s \in DOMAIN runner : Cancelled(s)'
  BY <1>3 DEF Cancelled
<1>5. \A s \in DOMAIN runner' : s \in DOMAIN runner \/ s = Len(runner')
  BY <1>1, <1>2
<1>6. \A s \in DOMAIN runner' :
         runner'[s].at = "done" /\ ~Cancelled(s)' => runner'[s].pos > Len(runner'[s].lines)
  BY <1>1, <1>4, <1>5
<1>7. DOMAIN runner \subseteq DOMAIN runner'
  BY <1>1, <1>2
<1> QED  BY <1>3, <1>4, <1>6, <1>7, GoingOnKeepsL

LEMMA LKept == RInv /\ LInv /\ [Next]_vars => LInv'
<1> SUFFICES ASSUME RInv, LInv, [Next]_vars PROVE LInv'
  OBVIOUS
<1>1. CASE ChooseScript
  <2>1. PICK script \in Files : StartScript(script)
    BY <1>1 DEF ChooseScript
  <2> QED  BY <1>1, <2>1, ScriptKeepsL DEF ChooseScript, AfterKeys
<1>2. ASSUME NEW s \in DOMAIN runner, RunnerStep(s) PROVE LInv'
  BY <1>2, RunnersKeepL
<1>3. CASE UNCHANGED scripts
  <2>1. ctxDone => ctxDone'
    BY DEF Next, Frame, vars, loop, StartFrame, Drain, UpdateCamera, Elsewhere, HandleInput, NoKey,
       OpenDialog, CloseDialog, ChooseObject, ChooseSystem, ChooseScript, SteerByKey, Quit,
       AfterKeys, Reload, StopOld, StartNew, Exit, Interrupt, Send, GiveUp, RunnerStep, StartLine,
       SendLine, Pause
  <2>2. UNCHANGED <<runner, lines>>
    BY <1>3 DEF scripts
  <2>3. \A s \in DOMAIN runner : runner[s].pos \in Nat
    <3>1. \A s \in DOMAIN runner : runner[s] \in Runners
      BY LenProperties DEF RInv
    <3> QED  BY <3>1 DEF Runners
  <2>4. \A s \in DOMAIN runner : Cancelled(s) => Cancelled(s)'
    BY <2>1, <2>2 DEF Cancelled
  <2>5. \A s \in DOMAIN runner' :
           runner'[s].at = "done" /\ ~Cancelled(s)' => runner'[s].pos > Len(runner'[s].lines)
    BY <2>2, <2>4 DEF LInv
  <2> QED  BY <2>2, <2>3, <2>4, <2>5, GoingOnKeepsL
<1>4. CASE ~UNCHANGED scripts /\ ~ChooseScript
  <2>1. \E s \in DOMAIN runner : RunnerStep(s)
    BY <1>4 DEF Next, Frame, vars, StartFrame, Drain, UpdateCamera, Elsewhere, HandleInput, NoKey,
       OpenDialog, CloseDialog, ChooseObject, ChooseSystem, SteerByKey, Quit,
       AfterKeys, Reload, StopOld, StartNew, Exit, Interrupt, Send, GiveUp
  <2> QED  BY <1>2, <2>1
<1> QED  BY <1>1, <1>3, <1>4

\* Each line sent is the one at its place, the places of a script's lines grow, and a
\* script that is not cancelled ends after its last line.
THEOREM LinesInvariant == Spec => []LInv
<1>1. Init => LInv
  BY LStarts
<1>2. RInv /\ LInv /\ [Next]_vars => LInv'
  BY LKept
<1> QED  BY <1>1, <1>2, RequestsInvariant, PTL DEF Spec

\* What has been sent of the scripts are the lines that each was unrolled to over the
\* bodies there were when it started, in their order, none twice, and once the script is
\* cancelled at most one more; and one that ends by itself has no line left
\* (script.go:253-419, script_runner.go:41-103).  Whether these lines are what the
\* script means is for ScriptInOrder to say.
SentInOrder ==
  /\ \A i, j \in DOMAIN lines :
        i < j /\ lines[i].script = lines[j].script => lines[i].pos < lines[j].pos
  /\ \A i \in DOMAIN lines :
        LET unrolled == runner[lines[i].script].lines
        IN  lines[i].pos \in DOMAIN unrolled /\ lines[i].line = unrolled[lines[i].pos]
  /\ \A s \in DOMAIN runner :
       /\ Cardinality({i \in DOMAIN lines : lines[i].script = s /\ lines[i].late}) <= 1
       /\ (runner[s].at = "done" /\ ~Cancelled(s)) => runner[s].pos > Len(runner[s].lines)

\* That holds of any scripts, whatever is pressed, sent or started meanwhile and however
\* full the channel is.
THEOREM LinesInOrder == Spec => []SentInOrder
<1>1. LInv => SentInOrder
  <2> SUFFICES ASSUME LInv PROVE SentInOrder
    OBVIOUS
  <2>1. \A i, j \in DOMAIN lines :
          i < j /\ lines[i].script = lines[j].script => lines[i].pos < lines[j].pos
    BY DEF LInv
  <2>2. \A i \in DOMAIN lines :
          LET unrolled == runner[lines[i].script].lines
          IN  lines[i].pos \in DOMAIN unrolled /\ lines[i].line = unrolled[lines[i].pos]
    BY DEF LInv, InPlace
  <2>3. \A s \in DOMAIN runner :
          (runner[s].at = "done" /\ ~Cancelled(s)) => runner[s].pos > Len(runner[s].lines)
    BY DEF LInv
  <2>4. ASSUME NEW s \in DOMAIN runner
        PROVE  Cardinality({i \in DOMAIN lines : lines[i].script = s /\ lines[i].late}) <= 1
    <3>1. PICK late : late = {i \in DOMAIN lines : lines[i].script = s /\ lines[i].late}
      OBVIOUS
    <3>2. DOMAIN lines \subseteq Int
      BY LenProperties DEF LInv
    <3>3. \A i, j \in late : ~(i < j)
      BY <3>1 DEF LInv
    <3>4. \A i, j \in late : i = j
      BY <3>1, <3>2, <3>3
    <3>5. Cardinality(late) <= 1
      <4>1. CASE late = {}
        <5>1. Cardinality(late) = 0
          BY <4>1, FS_EmptySet
        <5> QED  BY <5>1
      <4>2. CASE late # {}
        <5>1. PICK i \in late : late = {i}
          BY <3>4, <4>2
        <5>2. Cardinality(late) = 1
          BY <5>1, FS_Singleton
        <5> QED  BY <5>2
      <4> QED  BY <4>1, <4>2
    <3> QED  BY <3>1, <3>5
  <2> QED  BY <2>1, <2>2, <2>3, <2>4 DEF SentInOrder
<1> QED  BY <1>1, LinesInvariant, PTL

=============================================================================
