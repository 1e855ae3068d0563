---------------------------- MODULE OrbitalWorld ----------------------------
(***************************************************************************)
(* What the simulation promises to whoever looks at it: a world that moves *)
(* in whole physics steps.  A step advances the clock and every body by    *)
(* the same amount; a kid is then centred on where its parent is if the    *)
(* parent moves in an earlier phase of the step, and on where the parent   *)
(* was before the step if it moves in the same phase.  Between steps only  *)
(* the dataset level on show may change.                                   *)
(*                                                                         *)
(* There are no buffers, no workers and no locks here: Simulation is shown *)
(* to implement this specification through its front buffer.               *)
(***************************************************************************)
EXTENDS Integers

CONSTANTS NumRoots, NumKids, ParentOf, Rings, Modes, Datasets, Rates

Bodies == 1 .. (NumRoots + NumKids)
Kids   == (NumRoots + 1) .. (NumRoots + NumKids)

VARIABLES mode, world

\* The bodies whose new position a kid moving in the same step can see.
Leaders(m) == IF m = "nbody" THEN Bodies \ Rings ELSE 1 .. NumRoots

\* The kids whose orbit follows their parent in this mode.
Followers(m) == IF m = "nbody" THEN Rings ELSE Kids

CentreAfter(w, m, d, k) ==
  LET p == ParentOf[k] IN
  IF k \notin Followers(m) \/ p = 0 THEN w.center[k]
  ELSE IF p \in Leaders(m) THEN w.anomaly[p] + d
  ELSE w.anomaly[p]

Advanced(w, m, d) ==
  [time    |-> w.time + d,
   delta   |-> d,
   dataset |-> w.dataset,
   anomaly |-> [b \in Bodies |-> w.anomaly[b] + d],
   center  |-> [k \in Kids |-> CentreAfter(w, m, d, k)]]

Init ==
  /\ mode \in Modes
  /\ world = [time |-> 0, delta |-> 0, dataset |-> 0,
              anomaly |-> [b \in Bodies |-> 0], center |-> [k \in Kids |-> 0]]

\* A step under some time rate; the rate 0 of the horizon or of a pause stands.
Step == \E d \in Rates \union {0} : world' = Advanced(world, mode, d)

ShowDataset == \E d \in Datasets : world' = [world EXCEPT !.dataset = d]

Next == (Step \/ ShowDataset) /\ UNCHANGED mode

Spec == Init /\ [][Next]_<<mode, world>>

=============================================================================
