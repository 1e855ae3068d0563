------------------------------- MODULE Client -------------------------------
(***************************************************************************)
(* The interactive loop of the raylib client (client/go/raylib/app) in     *)
(* standalone mode: App.Run with a world of its own.                       *)
(*                                                                         *)
(* The render goroutine owns window, camera and input state.  Handlers of  *)
(* RPCs and scripts hand it commands through cmdCh; each frame it takes    *)
(* what is there, then the keys, moves the camera, draws, and, when a      *)
(* system has been asked for, replaces session and world.                  *)
(*                                                                         *)
(* Commands that set window, HUD, performance or keybinding options change *)
(* nothing here and are left out, like drawing and recording.  Of the keys *)
(* pressed in a frame one is modelled.  Bodies are found by name in the    *)
(* list of the system that runs; its first body is its star.               *)
(***************************************************************************)
EXTENDS Camera, Script, FiniteSets

CONSTANTS
  Callers,    \* RPC handlers
  Commands,   \* commands they send
  Files,      \* scripts that the user may start
  Systems,    \* paths of systems
  Broken,     \* those that do not load
  SystemConfig, \* the one that Run loads
  BodiesOf,   \* system -> the names of its bodies
  GroupOf,    \* name -> the group that scripts know it by, None for rings and the like
  Dialogs,    \* the dialogs that the user opens
  BufSize,    \* capacity of cmdCh: appCmdBufSize (32)
  MaxSent,    \* bounds: commands of handlers
  MaxKeys,    \* keys other than the quit key
  MaxScripts, \* scripts started
  None

ASSUME SystemsAssumption ==
  Broken \subseteq Systems /\ SystemConfig \in Systems \ Broken /\ None \notin Systems
ASSUME BodiesAssumption == \A s \in Systems : Len(BodiesOf[s]) > 0
ASSUME BufAssumption == BufSize \in Nat \ {0}

\* scriptBodiesFromSnapshot: the bodies of each group, or of all, in their order and once
\* each.  (A group that the code does not know has none, and is left out.)
ScriptBodies(system) ==
  LET names == BodiesOf[system]
      groups == Range(GroupOf) \ {None}
      taken(chosen) ==
        SelectSeq([i \in DOMAIN names |-> i],
                  LAMBDA i : GroupOf[names[i]] \in chosen /\ \A j \in 1 .. i - 1 : names[j] # names[i])
      of(chosen) == [k \in DOMAIN taken(chosen) |-> names[taken(chosen)[k]]]
  IN  [group \in groups \union {"bodies"} |-> of(IF group = "bodies" THEN groups ELSE {group})]

\* The lines that a script comes to in a system.
Unrolled(script, system) == Expand(Text(script), ScriptBodies(system))

\* What handlers and scripts ask for: tours of finitely many stops, and systems.
WellFormed(cmd) ==
  /\ "kind" \in DOMAIN cmd
  /\ cmd.kind = "jump" => "stops" \in DOMAIN cmd /\ IsFiniteSet(DOMAIN cmd.stops)
  /\ cmd.kind = "load" => "path" \in DOMAIN cmd /\ cmd.path \in Systems

ASSUME CommandsAssumption == \A cmd \in Commands : WellFormed(cmd) /\ cmd.kind # "line"
ASSUME ScriptsAssumption ==
  \A script \in Files, system \in Systems :
    LET lines == Unrolled(script, system)
    IN  /\ Len(lines) \in Nat /\ DOMAIN lines = 1 .. Len(lines)
        /\ \A k \in DOMAIN lines : WellFormed(lines[k])

VARIABLES
  at,         \* where the loop is
  cmdCh,      \* the command gate
  quit,       \* shouldQuit
  ctxDone,    \* the application's context is cancelled
  session,    \* the runtime session: its world and its system
  fresh,      \* the session that is to replace it
  cam,        \* cameraState
  input,      \* inputState: dialog, PendingSystemPath, ActiveSystemPath
  worlds,     \* world -> whether its context is cancelled, how often it was stopped
  worldPtr,   \* the world that handlers see
  call,       \* handler -> the query it waits for
  runner,     \* script -> where its goroutine is
  \* history
  asked,      \* the stops of the last JumpTo, unless something else steered since
  seen,       \* the bodies landed on since
  lines,      \* the script lines put into cmdCh
  sent, keys  \* commands and keys so far

loop    == <<at, quit, ctxDone>>
world   == <<session, fresh, worlds, worldPtr>>
view    == <<cam, input, asked, seen>>
scripts == <<runner, lines>>
vars    == <<loop, cmdCh, world, view, call, scripts, sent, keys>>

NewInput(s) == [dialog |-> "none", pending |-> None, active |-> s]
NewCamera == StartTracking(NewCameraState, 1)
Running == [cancelled |-> FALSE, stops |-> 0]
Free == [kind |-> "free", ticket |-> 0, answer |-> None]

Init ==
  /\ at = "top" /\ cmdCh = << >> /\ quit = FALSE /\ ctxDone = FALSE
  /\ session = [world |-> 1, system |-> SystemConfig] /\ input = NewInput(SystemConfig)
  /\ fresh = None /\ cam = NewCamera
  /\ worlds = <<Running>> /\ worldPtr = 1
  /\ call = [c \in Callers |-> Free] /\ runner = << >>
  /\ asked = << >> /\ seen = << >> /\ lines = << >> /\ sent = 0 /\ keys = 0

Bodies == Len(BodiesOf[session.system])

\* findBodyByName: 0 where the code has -1.
FindBody(name) ==
  LET is == {i \in 1 .. Bodies : BodiesOf[session.system][i] = name}
  IN IF is = {} THEN 0 ELSE CHOOSE i \in is : \A j \in is : i <= j

-----------------------------------------------------------------------------
(* The handlers: camera, navigation and system service. *)

Queries == {"camera", "active"}

\* The command with the channel for its answer.
From(c, ticket, cmd) ==
  [f \in DOMAIN cmd \union {"caller", "ticket"} |->
     CASE f = "caller" -> c [] f = "ticket" -> ticket [] OTHER -> cmd[f]]

\* SendCmd never blocks: a full channel is an error to the client.
Send(c) ==
  /\ sent < MaxSent /\ call[c].kind = "free" /\ Len(cmdCh) < BufSize
  /\ \E cmd \in Commands :
       /\ cmdCh' = Append(cmdCh, From(c, sent + 1, cmd))
       /\ call' = IF cmd.kind \in Queries
                  THEN [call EXCEPT ![c] = [kind |-> cmd.kind, ticket |-> sent + 1, answer |-> None]]
                  ELSE call
  /\ sent' = sent + 1
  /\ UNCHANGED <<loop, world, view, scripts, keys>>

\* The request's context ends first; the answer will go to a channel nobody reads.
GiveUp(c) ==
  /\ call[c].kind # "free" /\ call' = [call EXCEPT ![c] = Free]
  /\ UNCHANGED <<loop, cmdCh, world, view, scripts, sent, keys>>

-----------------------------------------------------------------------------
(* The goroutines of scripts (script_runner.go). *)

Cancelled(s) == runner[s].cancelled \/ ctxDone

Line(s) == runner[s].lines[runner[s].pos]

RunnerAt(s, where) == runner' = [runner EXCEPT ![s].at = where]

\* Mutant: only the pause between lines looks at the context.
StartLineUnchecked(s) ==
  /\ runner[s].at = "next"
  /\ RunnerAt(s, IF runner[s].pos > Len(runner[s].lines) THEN "done"
                 ELSE IF Line(s).kind = "sleep" THEN "pause" ELSE "send")
  /\ UNCHANGED <<loop, cmdCh, world, view, call, lines, sent, keys>>

StartLine(s) ==
  /\ runner[s].at = "next"
  /\ RunnerAt(s, IF Cancelled(s) \/ runner[s].pos > Len(runner[s].lines) THEN "done"
                 ELSE IF Line(s).kind = "sleep" THEN "pause" ELSE "send")
  /\ UNCHANGED <<loop, cmdCh, world, view, call, lines, sent, keys>>

\* A line that finds the channel full twice, 16 ms apart, is dropped.
SendLine(s) ==
  /\ runner[s].at \in {"send", "retry"}
  /\ IF Len(cmdCh) < BufSize
     THEN /\ cmdCh' = Append(cmdCh, [kind |-> "line", line |-> Line(s)])
          /\ lines' = Append(lines, [script |-> s, pos |-> runner[s].pos, line |-> Line(s), late |-> Cancelled(s)])
          /\ RunnerAt(s, "pause")
     ELSE /\ RunnerAt(s, IF runner[s].at = "send" THEN "retry" ELSE "pause")
          /\ UNCHANGED <<cmdCh, lines>>
  /\ UNCHANGED <<loop, world, view, call, sent, keys>>

\* The pause ends with the timer or with the context.
Pause(s) ==
  /\ runner[s].at = "pause"
  /\ \/ runner' = [runner EXCEPT ![s].at = "next", ![s].pos = @ + 1]
     \/ Cancelled(s) /\ RunnerAt(s, "done")
  /\ UNCHANGED <<loop, cmdCh, world, view, call, lines, sent, keys>>

RunnerStep(s) == StartLine(s) \/ SendLine(s) \/ Pause(s)

\* startScript: the script before it is cancelled, not waited for.  Its loops are unrolled
\* over the bodies that are there when it starts.
StartScript(script) ==
  runner' = Append([s \in DOMAIN runner |-> [runner[s] EXCEPT !.cancelled = TRUE]],
                   [at |-> "next", pos |-> 1, cancelled |-> FALSE,
                    lines |-> Unrolled(script, session.system),
                    means |-> Meaning(script, ScriptBodies(session.system))])

-----------------------------------------------------------------------------
(* A frame of runInteractive. *)

\* What only the camera's and the loop's own steps change stays.
Steered == asked' = << >> /\ seen' = << >>
SameCamera == UNCHANGED <<cam, asked, seen>>
Elsewhere == UNCHANGED <<ctxDone, world, scripts, sent, keys>>

StartFrame ==
  /\ at = "top" /\ at' = IF quit \/ ctxDone THEN "exit" ELSE "drain"
  /\ UNCHANGED <<quit, cmdCh, call, view>> /\ Elsewhere

\* JumpToCmd's stops that are bodies of the system.  A number is the dwell of the last
\* body found: that of a stop which is skipped becomes the dwell of the one before.
Found(stops) ==
  LET known == {k \in DOMAIN stops : FindBody(stops[k].name) # 0}
      upto(k) == Cardinality({j \in known : j <= k})
      nth(n) == CHOOSE k \in known : upto(k) = n
      \* the n-th stop found and the skipped ones whose number it gets
      told(n) == {k \in DOMAIN stops : upto(k) = n /\ (k \in known \/ stops[k].dwell # 0)}
  IN  [n \in 1 .. Cardinality(known) |->
         [body |-> FindBody(stops[nth(n)].name), dwell |-> stops[Max(told(n))].dwell]]

StopBodies(stops) == [k \in DOMAIN stops |-> stops[k].body]

Track(cmd) ==
  /\ cmd.kind = "track"
  /\ IF cmd.name # None /\ FindBody(cmd.name) = 0 THEN SameCamera
     ELSE cam' = TrackCmd(cam, IF cmd.name = None THEN 0 ELSE FindBody(cmd.name)) /\ Steered
  /\ UNCHANGED input

JumpTo(cmd) ==
  /\ cmd.kind = "jump"
  /\ \E stops \in {Found(cmd.stops)} :
       IF stops = << >> THEN SameCamera
       ELSE cam' = JumpToCmd(cam, stops) /\ asked' = StopBodies(stops) /\ seen' = << >>
  /\ UNCHANGED input

\* An orbit does not end a tour: on the way it waits, at a stop the stop goes on.
Orbit(cmd) ==
  /\ cmd.kind = "orbit"
  /\ IF FindBody(cmd.name) = 0 THEN UNCHANGED cam
     ELSE cam' = OrbitCmd(cam, FindBody(cmd.name), Bodies)
  /\ UNCHANGED <<input, asked, seen>>

\* LoadSystemCmd: the last one of a frame counts.
LoadSystem(cmd) ==
  /\ cmd.kind = "load" /\ input' = [input EXCEPT !.pending = cmd.path] /\ SameCamera

\* What a line of a script comes to: commands it has no equivalent for are skipped.
ScriptLine(cmd) == Track(cmd) \/ JumpTo(cmd) \/ LoadSystem(cmd)
SkippedLine(cmd) == cmd.kind \notin {"track", "jump", "load"} /\ UNCHANGED input /\ SameCamera

Answer(cmd) ==
  IF call[cmd.caller].ticket # cmd.ticket THEN UNCHANGED call
  ELSE call' = [call EXCEPT ![cmd.caller] =
                  [Free EXCEPT !.answer = IF cmd.kind = "active" THEN input.active ELSE None]]

\* drainCmds: one command at a time until the channel is empty.
Drain ==
  /\ at = "drain"
  /\ IF cmdCh = << >>
     THEN at' = "keys" /\ UNCHANGED <<cmdCh, call, view>>
     ELSE LET cmd == Head(cmdCh) IN
          /\ cmdCh' = Tail(cmdCh) /\ UNCHANGED at
          /\ IF cmd.kind \in Queries THEN Answer(cmd) /\ UNCHANGED view
             ELSE /\ UNCHANGED call
                  /\ IF cmd.kind = "line" THEN ScriptLine(cmd.line) \/ SkippedLine(cmd.line)
                     ELSE Track(cmd) \/ JumpTo(cmd) \/ Orbit(cmd) \/ LoadSystem(cmd)
  /\ UNCHANGED quit /\ Elsewhere

-----------------------------------------------------------------------------
(* handleInput. *)

Closed == [input EXCEPT !.dialog = "none", !.pending = None, !.active = None]

\* The bound counts every key but the one that quits.
AfterKeys == at = "keys" /\ at' = "camera" /\ UNCHANGED <<ctxDone, cmdCh, world, call, sent>>
Counted == keys < MaxKeys /\ keys' = keys + 1

NoKey == AfterKeys /\ UNCHANGED <<view, scripts, quit, keys>>

\* Opening the system selector forgets a path that waits, and looks up the system that runs.
OpenDialog ==
  /\ AfterKeys /\ Counted /\ input.dialog = "none"
  /\ \E d \in Dialogs :
       input' = IF d = "systems" THEN [dialog |-> d, pending |-> None, active |-> session.system]
                ELSE [input EXCEPT !.dialog = d]
  /\ SameCamera /\ UNCHANGED <<scripts, quit>>

\* CancelSelection clears the system paths whatever the dialog was.
CloseDialog ==
  /\ AfterKeys /\ Counted /\ input.dialog # "none" /\ input' = Closed /\ SameCamera
  /\ UNCHANGED <<scripts, quit>>

\* Face, jump to, or track the body chosen.
ChooseObject ==
  /\ AfterKeys /\ Counted /\ input.dialog = "objects" /\ input' = Closed
  /\ \E i \in 1 .. Bodies :
       cam' \in {FaceTarget(cam), StartJumpTo(cam, i), StartTracking(cam, i)}
  /\ Steered /\ UNCHANGED <<scripts, quit>>

\* The dialog stays open until the new session, with its own input state, replaces it.
ChooseSystem ==
  /\ AfterKeys /\ Counted /\ input.dialog = "systems"
  /\ \E s \in Systems :
       input' = IF s = input.active THEN Closed ELSE [input EXCEPT !.pending = s]
  /\ SameCamera /\ UNCHANGED <<scripts, quit>>

ChooseScript ==
  /\ AfterKeys /\ Counted /\ input.dialog = "scripts" /\ Len(runner) < MaxScripts
  /\ input' = [input EXCEPT !.dialog = "none"] /\ \E script \in Files : StartScript(script)
  /\ SameCamera /\ UNCHANGED <<lines, quit>>

\* Escape, the keys to parents, children and siblings, and the way back from free flight.
SteerByKey ==
  /\ AfterKeys /\ Counted /\ input.dialog = "none"
  /\ \/ cam.mode = "tracking" /\ cam' = StopTracking(cam)
     \/ cam.mode = "tracking" /\ \E i \in 1 .. Bodies : cam' = StartTracking(cam, i)
     \/ cam.mode = "free" /\ cam.target \in 1 .. Bodies /\ cam' = StartTracking(cam, cam.target)
  /\ Steered /\ UNCHANGED <<input, scripts, quit>>

\* The quit key, or the window's close button.
Quit == AfterKeys /\ quit' = TRUE /\ UNCHANGED <<view, scripts, keys>>

HandleInput ==
  \/ NoKey \/ OpenDialog \/ CloseDialog \/ ChooseObject \/ ChooseSystem
  \/ ChooseScript \/ SteerByKey \/ Quit

-----------------------------------------------------------------------------
UpdateCamera ==
  /\ at = "camera" /\ at' = "reload"
  /\ cam' = Tick(cam, Bodies)
  /\ seen' = IF asked # << >> /\ cam.mode = "jumping" /\ cam.left = 1
             THEN Append(seen, cam.dest) ELSE seen
  /\ UNCHANGED <<quit, cmdCh, call, input, asked>> /\ Elsewhere

\* The path asked for is consumed; a system that does not load leaves everything as it is.
Reload ==
  /\ at = "reload" /\ input' = [input EXCEPT !.pending = None]
  /\ IF input.pending = None \/ input.pending \in Broken
     THEN at' = "top" /\ UNCHANGED fresh
     ELSE /\ at' = "stop"
          /\ fresh' = [world |-> Len(worlds) + 1, system |-> input.pending]
  /\ SameCamera
  /\ UNCHANGED <<quit, ctxDone, cmdCh, session, worlds, worldPtr, call, scripts, sent, keys>>

TellToStop(w) == [worlds EXCEPT ![w] = [cancelled |-> TRUE, stops |-> @.stops + 1]]

StopOld ==
  /\ at = "stop" /\ at' = "start" /\ worlds' = TellToStop(session.world)
  /\ UNCHANGED <<quit, ctxDone, cmdCh, session, fresh, worldPtr, call, view, scripts, sent, keys>>

\* Mutant: the commands that wait are thrown away with the session they were meant for.
StartNewClearing ==
  /\ at = "start" /\ at' = "top"
  /\ session' = fresh /\ fresh' = None /\ worldPtr' = fresh.world
  /\ worlds' = Append(worlds, Running)
  /\ cam' = NewCamera /\ input' = NewInput(fresh.system) /\ Steered
  /\ cmdCh' = << >>
  /\ UNCHANGED <<quit, ctxDone, call, scripts, sent, keys>>

StartNew ==
  /\ at = "start" /\ at' = "top"
  /\ session' = fresh /\ fresh' = None /\ worldPtr' = fresh.world
  /\ worlds' = Append(worlds, Running)
  /\ cam' = NewCamera /\ input' = NewInput(fresh.system) /\ Steered
  /\ UNCHANGED <<quit, ctxDone, cmdCh, call, scripts, sent, keys>>

\* Mutant: the deferred call holds the session it was written with.
ExitFirst ==
  /\ at = "exit" /\ at' = "done" /\ worlds' = TellToStop(1)
  /\ UNCHANGED <<quit, ctxDone, cmdCh, session, fresh, worldPtr, call, view, scripts, sent, keys>>

\* The deferred function: the session that runs then.
Exit ==
  /\ at = "exit" /\ at' = "done" /\ worlds' = TellToStop(session.world)
  /\ UNCHANGED <<quit, ctxDone, cmdCh, session, fresh, worldPtr, call, view, scripts, sent, keys>>

Frame ==
  \/ StartFrame \/ Drain \/ HandleInput \/ UpdateCamera
  \/ Reload \/ StopOld \/ StartNew \/ Exit

\* A signal, at any time.
Interrupt ==
  /\ ~ctxDone /\ ctxDone' = TRUE
  /\ UNCHANGED <<at, quit, cmdCh, world, view, call, scripts, sent, keys>>

Next ==
  \/ Frame \/ Interrupt
  \/ \E c \in Callers : Send(c) \/ GiveUp(c)
  \/ \E s \in DOMAIN runner : RunnerStep(s)

\* The render goroutine keeps taking frames until it ends.
Fairness == WF_vars(Frame)

Spec == Init /\ [][Next]_vars /\ Fairness
-----------------------------------------------------------------------------
(* What the loop promises. *)

\* Of the worlds built one runs, and it is the one the handlers see; only between the
\* stop of the old and the start of the new, and after the loop, none does.  No world
\* is stopped twice, which would close its channel twice (interactive.go:16-33, 191-208).
OneWorld ==
  /\ \A w \in DOMAIN worlds : worlds[w].stops <= 1
  /\ LET live == {w \in DOMAIN worlds : ~worlds[w].cancelled}
     IN IF at \in {"start", "done"} THEN live = {} ELSE live = {worldPtr}

\* The camera lands on the stops of a JumpTo in their order, on each once and on nothing
\* else, whatever was queued before and whatever orbits are asked for on the way
\* (interactive.go:453-490, camera.go:404-424, 498-530).
TourInOrder == IsPrefix(seen, asked)

\* The lines of a script that reach the channel are those that its loops and variables
\* mean, over the bodies there were when it started, in their order, none twice, and once
\* it is cancelled at most one more (script.go:253-419, script_runner.go:41-103).
ScriptInOrder ==
  /\ \A i, j \in DOMAIN lines :
        i < j /\ lines[i].script = lines[j].script => lines[i].pos < lines[j].pos
  /\ \A i \in DOMAIN lines :
        LET means == runner[lines[i].script].means
        IN  lines[i].pos \in DOMAIN means /\ lines[i].line = means[lines[i].pos]
  /\ \A s \in DOMAIN runner :
       /\ Cardinality({i \in DOMAIN lines : lines[i].script = s /\ lines[i].late}) <= 1
       /\ (runner[s].at = "done" /\ ~Cancelled(s)) => runner[s].pos > Len(runner[s].means)

\* A tour that nothing else ends comes to its last stop, unless the loop ends.
TourEnds == (asked # seen) ~> (asked = seen \/ at = "done")

\* A query that cmdCh has taken is answered, unless its handler gives up or the loop
\* ends: system changes and full frames do not lose it (interactive.go:230-246).
QueriesAnswered ==
  \A c \in Callers : (call[c].kind # "free") ~> (call[c].kind = "free" \/ at = "done")
=============================================================================
