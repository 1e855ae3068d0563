----------------------------- MODULE Persistence -----------------------------
(***************************************************************************)
(* What the program keeps on the disk (package persist): the event journal *)
(* and the saved snapshot.  They have no state in common; a crash stops    *)
(* both at the step each is in.                                            *)
(***************************************************************************)
EXTENDS EventLog, Autosave

CONSTANT MaxCrashes  \* bound

ASSUME MaxCrashesAssumption == MaxCrashes \in Nat

VARIABLE crashes     \* so far

vars == <<log, save, crashes>>

Init == LogInit /\ SaveInit /\ crashes = 0

Crash ==
  /\ crashes < MaxCrashes /\ crashes' = crashes + 1
  /\ LogCrash /\ SaveCrash

Next ==
  \/ LogNext /\ UNCHANGED <<save, crashes>>
  \/ SaveNext /\ UNCHANGED <<log, crashes>>
  \/ Crash

Spec == Init /\ [][Next]_vars
=============================================================================
