------------------------------- MODULE Camera -------------------------------
(***************************************************************************)
(* The camera of the raylib client (client/go/raylib/ui/camera.go): a      *)
(* record that the render goroutine alone changes, by the operators below. *)
(*                                                                         *)
(* A body is its index in the snapshot's object list.  Positions, angles   *)
(* and distances are left out; a flight is the number of frames it has     *)
(* left, a dwell and an orbit the number of frames they still take.  The   *)
(* velocity drift and the roll of free flight change positions only.       *)
(***************************************************************************)
EXTENDS Integers, Sequences

CONSTANTS
  Flight,   \* frames of a jump animation
  Lap       \* frames of an orbit

ASSUME FlightAssumption == Flight \in Nat \ {0} /\ Lap \in Nat \ {0}

\* The zero index of the code is 1 here.  dwell is what is left of the pause here,
\* stop the pause due at the end of the jump: DwellRemaining and CurrentDwell.
NewCameraState ==
  [mode |-> "free", target |-> 1, dest |-> 1, left |-> 0, queue |-> << >>,
   stop |-> 0, dwell |-> 0, orbit |-> 0, pending |-> 0]

StartTracking(c, i) == [c EXCEPT !.mode = "tracking", !.target = i]

\* Queue, stop and dwell stay what they were.
StartJumpTo(c, i) == [c EXCEPT !.mode = "jumping", !.dest = i, !.left = Flight]

StopTracking(c) == [c EXCEPT !.mode = "free"]

FaceTarget(c) == IF c.mode = "tracking" THEN StopTracking(c) ELSE c

\* The position follows the body; a target outside the list frees the camera.
UpdateTracking(c, bodies) ==
  IF c.mode = "tracking" /\ c.target \notin 1 .. bodies
  THEN [c EXCEPT !.mode = "free"] ELSE c

\* The next stop of a queue.
NextStop(c) ==
  StartJumpTo([c EXCEPT !.queue = Tail(@), !.stop = Head(c.queue).dwell], Head(c.queue).body)

\* Mutant: the next stop waits for a dwell to run out, and a stop without one has none.
StayAtStop(c) == c

OnwardAtOnce(c) == IF c.dwell <= 0 /\ c.queue # << >> THEN NextStop(c) ELSE c

Land(c, bodies) ==
  LET there == UpdateTracking(StartTracking(c, c.dest), bodies)
      orbiting == IF there.pending # 0
                  THEN [there EXCEPT !.orbit = there.pending, !.pending = 0] ELSE there
  IN OnwardAtOnce([orbiting EXCEPT !.dwell = orbiting.stop])

TickJump(c, bodies) ==
  IF c.left > 1 THEN [c EXCEPT !.left = @ - 1]
  ELSE Land([c EXCEPT !.left = 0], bodies)

\* A dwell that runs out with a queue starts the next jump and ends the frame's work.
TickTracking(c, bodies) ==
  LET dwelt == IF c.dwell > 0 THEN [c EXCEPT !.dwell = @ - 1] ELSE c
  IN IF c.dwell > 0 /\ dwelt.dwell <= 0 /\ c.queue # << >> THEN NextStop(dwelt)
     ELSE UpdateTracking(IF c.orbit > 0 THEN [dwelt EXCEPT !.orbit = @ - 1] ELSE dwelt, bodies)

\* One frame.  Free flight moves the camera, nothing that is modelled.
Tick(c, bodies) ==
  CASE c.mode = "jumping"  -> TickJump(c, bodies)
    [] c.mode = "tracking" -> TickTracking(c, bodies)
    [] OTHER -> c

-----------------------------------------------------------------------------
(* The commands that steer (app/interactive.go), names resolved to bodies. *)

\* CameraTrackCmd; no body: back to free flight.
TrackCmd(c, i) == IF i = 0 THEN [c EXCEPT !.mode = "free"] ELSE StartTracking(c, i)

\* Mutant: the stops are appended to what the queue still holds.
JumpKeepingQueue(c, stops) ==
  [StartJumpTo([c EXCEPT !.stop = Head(stops).dwell], Head(stops).body)
     EXCEPT !.queue = @ \o Tail(stops)]

\* JumpToCmd, with at least one stop: the first jump starts, the others wait.
JumpToCmd(c, stops) ==
  [StartJumpTo([c EXCEPT !.stop = Head(stops).dwell], Head(stops).body)
     EXCEPT !.queue = Tail(stops)]

\* OrbitCmd: a jump in flight keeps the orbit for its arrival.
OrbitCmd(c, i, bodies) ==
  IF c.mode = "jumping" THEN [c EXCEPT !.pending = Lap]
  ELSE [UpdateTracking(StartTracking(c, i), bodies) EXCEPT !.orbit = Lap]
=============================================================================
