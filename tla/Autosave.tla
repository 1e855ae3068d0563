------------------------------ MODULE Autosave ------------------------------
(***************************************************************************)
(* Saving snapshots: the render loop pushes the latest one through the     *)
(* broadcaster (protocol/broadcaster.go) to the autosave, whose writer     *)
(* saves it with a temporary file and a rename (persist/autosave.go,       *)
(* snapshot.go, atomic.go).  The owner of the autosave unregisters it and  *)
(* then stops it; Push may be on its way to it with a copy of the list.    *)
(*                                                                         *)
(* A snapshot is the time it shows.  The rename reaches the disk some time *)
(* later (the directory is not synced), and a file that was renamed before *)
(* it was synced may come back from a loss of power with anything in it.   *)
(***************************************************************************)
EXTENDS Integers

CONSTANT MaxTime  \* bound: the times of the snapshots

ASSUME MaxTimeAssumption == MaxTime \in Nat

VARIABLES
  time,        \* of the latest snapshot
  registered,  \* the autosave is on the broadcaster's list
  push,        \* where Push is, and its snapshot
  slot,        \* the pending snapshot, or NoSnap
  slotClosed,
  received,    \* history: the latest snapshot put into the slot since the start
  writer,      \* where the writer is, and its snapshot
  failed,      \* history: its last save has failed
  temp,        \* the temporary file: its snapshot, NoSnap without one, and whether it is synced
  target,      \* the saved file, likewise
  onDisk,      \* what a loss of power leaves of the saved file
  owner        \* where the owner is

source == <<time, registered, push>>
mail   == <<slot, slotClosed, received>>
saver  == <<writer, failed>>
files  == <<temp, target, onDisk>>
save   == <<source, mail, saver, files, owner>>

NoSnap  == -1
NoFile  == [time |-> NoSnap, synced |-> TRUE]
Resting == [at |-> "rest", time |-> NoSnap]

\* The program starts and finds f.
Start(f) ==
  /\ registered' = TRUE /\ owner' = "running" /\ push' = Resting
  /\ slot' = NoSnap /\ slotClosed' = FALSE /\ received' = NoSnap
  /\ writer' = Resting /\ failed' = FALSE
  /\ temp' = NoFile /\ target' = f /\ onDisk' = f
  /\ UNCHANGED time

SaveInit ==
  /\ time = 0
  /\ registered = TRUE /\ owner = "running" /\ push = Resting
  /\ slot = NoSnap /\ slotClosed = FALSE /\ received = NoSnap
  /\ writer = Resting /\ failed = FALSE
  /\ temp = NoFile /\ target = NoFile /\ onDisk = NoFile

-----------------------------------------------------------------------------
(* The render loop: a frame publishes the latest snapshot.                 *)

Advance ==
  /\ time < MaxTime /\ time' = time + 1
  /\ UNCHANGED <<registered, push, mail, saver, files, owner>>

\* Push copies the list ...
Push ==
  /\ push = Resting /\ registered
  /\ push' = [at |-> "drain", time |-> time]
  /\ UNCHANGED <<time, registered, mail, saver, files, owner>>

\* ... and calls Receive, which takes the pending snapshot out, if there is one,
Drain ==
  /\ push.at = "drain"
  /\ slot' = NoSnap
  /\ push' = [push EXCEPT !.at = "send"]
  /\ UNCHANGED <<time, registered, slotClosed, received, saver, files, owner>>

\* and puts the new one in.  On a closed slot it panics: the program ends.
Send ==
  /\ push.at = "send" /\ ~slotClosed
  /\ slot' = push.time /\ received' = push.time
  /\ push' = Resting
  /\ UNCHANGED <<time, registered, slotClosed, saver, files, owner>>

-----------------------------------------------------------------------------
(* The writer: SaveSnapshot and atomicWrite.                               *)

Take ==
  /\ writer = Resting /\ slot # NoSnap
  /\ writer' = [at |-> "write", time |-> slot] /\ slot' = NoSnap
  /\ UNCHANGED <<source, slotClosed, received, failed, files, owner>>

WriteTemp ==
  /\ writer.at = "write"
  /\ temp' = [time |-> writer.time, synced |-> FALSE]
  /\ writer' = [writer EXCEPT !.at = "sync"]
  /\ UNCHANGED <<source, mail, failed, target, onDisk, owner>>

\* Mutant: the temporary file is not synced.
LeftToTheSystem == temp
Synced == [temp EXCEPT !.synced = TRUE]

SyncTemp ==
  /\ writer.at = "sync"
  /\ temp' = Synced
  /\ writer' = [writer EXCEPT !.at = "rename"]
  /\ UNCHANGED <<source, mail, failed, target, onDisk, owner>>

Rename ==
  /\ writer.at = "rename"
  /\ target' = temp /\ temp' = NoFile
  /\ writer' = Resting /\ failed' = FALSE
  /\ UNCHANGED <<source, mail, onDisk, owner>>

\* Each of the three may fail: the temporary file is removed and the error logged.
SaveFails ==
  /\ writer # Resting
  /\ temp' = NoFile
  /\ writer' = Resting /\ failed' = TRUE
  /\ UNCHANGED <<source, mail, target, onDisk, owner>>

\* The system writes the directory.
Settle ==
  /\ onDisk # target /\ onDisk' = target
  /\ UNCHANGED <<source, mail, saver, temp, target, owner>>

-----------------------------------------------------------------------------
(* The owner ends the autosave.                                            *)

Unregister ==
  /\ owner = "running"
  /\ registered' = FALSE /\ owner' = "unregistered"
  /\ UNCHANGED <<time, push, mail, saver, files>>

\* Stop closes the slot ...
Stop ==
  /\ owner = "unregistered"
  /\ slotClosed' = TRUE /\ owner' = "waiting"
  /\ UNCHANGED <<source, slot, received, saver, files>>

\* Mutant: a writer between two snapshots leaves the pending one.
BetweenTwo == writer = Resting
WriterIsDone == writer = Resting /\ slot = NoSnap

\* ... and waits for the writer, which takes what is pending out of a closed slot first.
StopReturn ==
  /\ owner = "waiting" /\ WriterIsDone
  /\ owner' = "stopped"
  /\ UNCHANGED <<source, mail, saver, files>>

\* The program ends, with the power or alone, and starts again.
SaveCrash == \E f \in {target, onDisk} : Start(f)

SaveNext ==
  \/ Advance \/ Push \/ Drain \/ Send
  \/ Take \/ WriteTemp \/ SyncTemp \/ Rename \/ SaveFails \/ Settle
  \/ Unregister \/ Stop \/ StopReturn

-----------------------------------------------------------------------------
(* Properties.                                                             *)

\* The saved file is a whole snapshot whenever somebody looks, after a crash at any step
\* of a save as well, and it is no later than the world.
SavedIsWhole ==
  \A f \in {target, onDisk} : f.synced /\ (f.time # NoSnap => f.time <= time)

\* When Stop has returned, the file shows the last snapshot the autosave was given,
\* unless the last save has failed: the one in the slot and the one being written at the
\* time of the call are not lost, and no older one has been written over it.  Only a Push
\* that is in Receive while the slot is closed takes the pending snapshot with it, and
\* then ends the program.
StopSavesLast ==
  (owner = "stopped" /\ received # NoSnap /\ ~failed /\ push.at # "send")
  => target.time = received
=============================================================================
