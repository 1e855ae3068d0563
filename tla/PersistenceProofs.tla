-------------------------- MODULE PersistenceProofs --------------------------
(***************************************************************************)
(* Theorems about what is on the disk, for any number of snapshots, events, *)
(* appenders and crashes.  The saved snapshot: the file is whole at any    *)
(* moment, and after Stop it shows the last snapshot the autosave was      *)
(* given.  The journal: what an Append acknowledged is replayed.           *)
(***************************************************************************)
EXTENDS Persistence, WellFoundedInduction, TLAPS

-----------------------------------------------------------------------------
(* The inductive invariant.                                                *)

\* The times a file or a slot may show.
Shown(t) == t \in Int /\ NoSnap <= t /\ t <= time

File == [time : Int, synced : BOOLEAN]

SaveTyped ==
  /\ time \in Nat
  /\ slot \in Int /\ received \in Int
  /\ push \in [at : {"rest", "drain", "send"}, time : Int]
  /\ writer \in [at : {"rest", "write", "sync", "rename"}, time : Int]
  /\ temp \in File /\ target \in File /\ onDisk \in File
  /\ owner \in {"running", "unregistered", "waiting", "stopped"}

\* Nothing shows a time that has not come.
InTime ==
  /\ Shown(slot) /\ Shown(received) /\ Shown(push.time) /\ Shown(writer.time)
  /\ Shown(temp.time) /\ Shown(target.time) /\ Shown(onDisk.time)

\* What is renamed is whole and the snapshot that was taken.
Whole ==
  /\ target.synced /\ onDisk.synced
  /\ writer.at \in {"sync", "rename"} => temp.time = writer.time
  /\ writer.at = "rename" => temp.synced

\* The last snapshot received is in the slot, with the writer, or in the file; a Push
\* inside Receive may have taken it out.
Somewhere ==
  /\ push.at # "rest" => push.time # NoSnap
  /\ push.at = "send" => slot = NoSnap
  /\ slot # NoSnap => slot = received
  /\ (push.at # "send" /\ received # NoSnap /\ slot = NoSnap) =>
       IF writer = Resting THEN failed \/ target.time = received
       ELSE writer.time = received

\* A stopped autosave has nothing left to write.
Ended ==
  /\ writer.at = "rest" <=> writer = Resting
  /\ owner \in {"waiting", "stopped"} => slotClosed
  /\ owner = "stopped" => writer = Resting /\ slot = NoSnap

SInv == SaveTyped /\ InTime /\ Whole /\ Somewhere /\ Ended

-----------------------------------------------------------------------------
(* It is inductive.                                                        *)

LEMMA SStarts == Init => SInv
BY DEF Init, SaveInit, SInv, SaveTyped, File, InTime, Shown, Whole, Somewhere, Ended,
       Resting, NoFile, NoSnap

\* A step of the render loop.
LEMMA SourceKeeps ==
  ASSUME SInv, Advance \/ Push \/ Drain \/ Send
  PROVE  SInv'
<1> USE DEF SInv, SaveTyped, File, InTime, Shown, Whole, Somewhere, Ended, Resting, NoSnap,
           source, mail, saver, files, save
<1>1. CASE Advance
  BY <1>1, MaxTimeAssumption DEF Advance
<1>2. CASE Push
  BY <1>2 DEF Push
<1>3. CASE Drain
  BY <1>3 DEF Drain
<1>4. CASE Send
  BY <1>4 DEF Send
<1> QED  BY <1>1, <1>2, <1>3, <1>4

\* A step of the writer, or of the system under it.
LEMMA WriterKeeps ==
  ASSUME SInv, Take \/ WriteTemp \/ SyncTemp \/ Rename \/ SaveFails \/ Settle
  PROVE  SInv'
<1> USE DEF SInv, SaveTyped, File, InTime, Shown, Whole, Somewhere, Ended, Resting, NoFile, NoSnap,
           source, mail, saver, files, save
<1>1. CASE Take
  BY <1>1 DEF Take
<1>2. CASE WriteTemp
  BY <1>2 DEF WriteTemp
<1>3. CASE SyncTemp
  BY <1>3 DEF SyncTemp, Synced
<1>4. CASE Rename
  BY <1>4 DEF Rename
<1>5. CASE SaveFails
  BY <1>5 DEF SaveFails
<1>6. CASE Settle
  BY <1>6 DEF Settle
<1> QED  BY <1>1, <1>2, <1>3, <1>4, <1>5, <1>6

\* A step of the owner, or a crash.
LEMMA OwnerKeeps ==
  ASSUME SInv, Unregister \/ Stop \/ StopReturn \/ SaveCrash
  PROVE  SInv'
<1> USE DEF SInv, SaveTyped, File, InTime, Shown, Whole, Somewhere, Ended, Resting, NoFile, NoSnap,
           source, mail, saver, files, save
<1>1. CASE Unregister
  BY <1>1 DEF Unregister
<1>2. CASE Stop
  BY <1>2 DEF Stop
<1>3. CASE StopReturn
  BY <1>3 DEF StopReturn, WriterIsDone
<1>4. CASE SaveCrash
  BY <1>4 DEF SaveCrash, Start
<1> QED  BY <1>1, <1>2, <1>3, <1>4

LEMMA SKept == SInv /\ [Next]_vars => SInv'
<1> SUFFICES ASSUME SInv, [Next]_vars PROVE SInv'
  OBVIOUS
<1>1. CASE UNCHANGED save
  BY <1>1 DEF SInv, SaveTyped, File, InTime, Shown, Whole, Somewhere, Ended,
              save, source, mail, saver, files
<1>2. CASE SaveNext
  BY <1>2, SourceKeeps, WriterKeeps, OwnerKeeps DEF SaveNext
<1>3. CASE SaveCrash
  BY <1>3, OwnerKeeps
<1> QED  BY <1>1, <1>2, <1>3 DEF Next, Crash, vars

\* What is on its way to the file is the last snapshot, and only a whole one is renamed.
THEOREM SaveInvariant == Spec => []SInv
<1>1. Init => SInv
  BY SStarts
<1>2. SInv /\ [Next]_vars => SInv'
  BY SKept
<1> QED  BY <1>1, <1>2, PTL DEF Spec

\* However often saving fails and whenever the program or the power goes, what is under
\* the name of the saved file is a whole snapshot, and one of the past.
THEOREM FileIsWhole == Spec => []SavedIsWhole
<1>1. SInv => SavedIsWhole
  BY DEF SInv, InTime, Shown, Whole, SavedIsWhole
<1> QED  BY <1>1, SaveInvariant, PTL

\* Once Stop has returned the file shows the last snapshot received, unless its save has
\* failed or a Push died on the closed slot with it.
THEOREM LastIsSaved == Spec => []StopSavesLast
<1>1. SInv => StopSavesLast
  BY DEF SInv, Somewhere, Ended, StopSavesLast
<1> QED  BY <1>1, SaveInvariant, PTL

-----------------------------------------------------------------------------
(* The journal: the inductive invariant.                                   *)

Piece == [event : Entries, part : {"whole", "line", "piece"}]

LogTyped ==
  /\ file \in Seq(Piece)
  /\ synced \in 0 .. Len(file)
  /\ entry \in [Appenders -> Entries \union {None}]
  /\ holder \in Appenders \union {None}
  /\ acked \in Seq(Entries)

\* An event is in the file once, and not before its append.
Once ==
  /\ \A i, j \in DOMAIN file : file[i].event = file[j].event => i = j
  /\ \A a, b \in Appenders : entry[a] # None /\ entry[a] = entry[b] => a = b
  /\ \A a \in Appenders : entry[a] # None /\ a # holder => entry[a] \notin Written

\* The mutex is held over a write that is not synced.
Held ==
  holder # None => /\ entry[holder] # None /\ synced < Len(file)
                   /\ file[Len(file)] = Chunk(entry[holder], "whole")

\* What is acknowledged is on the disk, whole, and in the order of the acknowledgements.
Acknowledged ==
  /\ \A k \in DOMAIN acked : \E i \in 1 .. synced : file[i] = Chunk(acked[k], "whole")
  /\ \A k, l \in DOMAIN acked : \A i, j \in DOMAIN file :
       (k < l /\ file[i].event = acked[k] /\ file[j].event = acked[l]) => i < j

JInv == LogTyped /\ Once /\ Held /\ Acknowledged

LEMMA JStarts == Init => JInv
<1> SUFFICES ASSUME Init PROVE JInv
  OBVIOUS
<1>1. /\ file = << >> /\ synced = 0 /\ entry = [a \in Appenders |-> None] /\ holder = None
      /\ acked = << >>
  BY DEF Init, LogInit
<1>2. LogTyped
  BY <1>1 DEF LogTyped
<1>3. DOMAIN file = {} /\ DOMAIN acked = {}
  BY <1>1
<1>4. Once /\ Held /\ Acknowledged
  BY <1>1, <1>3 DEF Once, Held, Acknowledged
<1> QED  BY <1>2, <1>4 DEF JInv

\* The file and what is acknowledged stay.
LEMMA FileStays ==
  ASSUME JInv, UNCHANGED <<file, synced, acked>>
  PROVE  Acknowledged' /\ Written' = Written
BY DEF JInv, Acknowledged, Written

\* An append ends without the file having been touched by it.
LEMMA EntryLeaves ==
  ASSUME JInv, NEW a \in Appenders, entry' = [entry EXCEPT ![a] = None],
         UNCHANGED <<file, synced, acked>>,
         holder' = IF holder = a THEN None ELSE holder
  PROVE  JInv'
<1>1. a # None
  BY EntriesAssumption
<1>2. LogTyped'
  BY DEF JInv, LogTyped
<1>3. \A b \in Appenders : entry'[b] = IF b = a THEN None ELSE entry[b]
  BY DEF JInv, LogTyped
<1>4. Once'
  <2>1. \A b \in Appenders : entry'[b] # None => entry'[b] = entry[b] /\ b # a
    BY <1>3
  <2>2. \A b \in Appenders : entry'[b] # None /\ b # holder' => entry[b] # None /\ b # holder
    BY <2>1
  <2> QED  BY <2>1, <2>2, FileStays DEF JInv, Once
<1>5. Held'
  BY <1>1, <1>3 DEF JInv, Held, LogTyped
<1> QED  BY <1>2, <1>4, <1>5, FileStays DEF JInv

\* A chunk is added to the file.
LEMMA ChunkAdded ==
  ASSUME JInv, NEW e \in Entries, e \notin Written, NEW p \in {"whole", "line", "piece"},
         file' = Append(file, Chunk(e, p)), UNCHANGED <<synced, acked>>
  PROVE  /\ file' \in Seq(Piece) /\ synced \in 0 .. Len(file') /\ Acknowledged'
         /\ Written' = Written \union {e} /\ synced < Len(file') /\ Len(file') \in Nat
         /\ file'[Len(file')] = Chunk(e, p)
         /\ \A i, j \in DOMAIN file' : file'[i].event = file'[j].event => i = j
<1>1. file \in Seq(Piece) /\ synced \in 0 .. Len(file) /\ Len(file) \in Nat /\ DOMAIN file = 1 .. Len(file)
  BY DEF JInv, LogTyped
<1>2. Chunk(e, p) \in Piece /\ Chunk(e, p).event = e
  BY DEF Chunk, Piece
<1> DEFINE c == Chunk(e, p)
<1> HIDE DEF c
<1>3. /\ file' \in Seq(Piece) /\ Len(file') = Len(file) + 1 /\ DOMAIN file' = 1 .. Len(file) + 1
      /\ file'[Len(file) + 1] = c /\ \A i \in 1 .. Len(file) : file'[i] = file[i]
  BY <1>1, <1>2 DEF c
<1>4. synced \in 0 .. Len(file') /\ synced < Len(file') /\ Len(file') \in Nat
  BY <1>1, <1>3
<1>5. Written' = Written \union {e}
  <2>1. \A x : x \in Written' <=> \E i \in DOMAIN file' : x = file'[i].event
    BY DEF Written
  <2>2. \A x : x \in Written <=> \E i \in DOMAIN file : x = file[i].event
    BY DEF Written
  <2>3. \A i \in DOMAIN file' : i \in DOMAIN file \/ i = Len(file) + 1
    BY <1>1, <1>3
  <2>4. Len(file) + 1 \in DOMAIN file' /\ DOMAIN file \subseteq DOMAIN file'
    BY <1>1, <1>3
  <2> QED  BY <1>1, <1>2, <1>3, <2>1, <2>2, <2>3, <2>4 DEF c
<1>6. \A i \in DOMAIN file : file[i].event # e
  BY DEF Written
<1>7. ASSUME NEW i \in DOMAIN file', NEW j \in DOMAIN file', file'[i].event = file'[j].event
      PROVE  i = j
  <2>1. CASE i \in DOMAIN file /\ j \in DOMAIN file
    BY <1>1, <1>3, <1>7, <2>1 DEF JInv, Once
  <2>2. CASE i \in DOMAIN file /\ j = Len(file) + 1
    BY <1>1, <1>2, <1>3, <1>6, <1>7, <2>2 DEF c
  <2>3. CASE j \in DOMAIN file /\ i = Len(file) + 1
    BY <1>1, <1>2, <1>3, <1>6, <1>7, <2>3 DEF c
  <2>4. CASE i = Len(file) + 1 /\ j = Len(file) + 1
    BY <2>4
  <2> QED  BY <1>1, <1>3, <2>1, <2>2, <2>3, <2>4
<1>8. Acknowledged'
  <2>1. ASSUME NEW k \in DOMAIN acked PROVE \E i \in 1 .. synced : file'[i] = Chunk(acked[k], "whole")
    <3>1. PICK i \in 1 .. synced : file[i] = Chunk(acked[k], "whole")
      BY DEF JInv, Acknowledged
    <3>2. i \in 1 .. Len(file)
      BY <1>1
    <3> QED  BY <1>3, <3>1, <3>2
  <2>2. \A k \in DOMAIN acked : acked[k] # e
    <3> SUFFICES ASSUME NEW k \in DOMAIN acked PROVE acked[k] # e
      OBVIOUS
    <3>1. PICK i \in 1 .. synced : file[i] = Chunk(acked[k], "whole")
      BY DEF JInv, Acknowledged
    <3>2. i \in DOMAIN file /\ file[i].event = acked[k]
      BY <1>1, <3>1 DEF Chunk
    <3> QED  BY <1>6, <3>2
  <2>3. \A i \in DOMAIN file' : \A k \in DOMAIN acked :
          file'[i].event = acked[k] => i \in DOMAIN file /\ file[i].event = acked[k]
    BY <1>1, <1>2, <1>3, <2>2 DEF c
  <2>4. \A k, l \in DOMAIN acked : \A i, j \in DOMAIN file' :
          (k < l /\ file'[i].event = acked[k] /\ file'[j].event = acked[l]) => i < j
    BY <2>3 DEF JInv, Acknowledged
  <2> QED  BY <2>1, <2>4 DEF Acknowledged
<1> QED  BY <1>3, <1>4, <1>5, <1>7, <1>8 DEF c

LEMMA SubmitKeeps == ASSUME JInv, NEW a \in Appenders, Submit(a) PROVE JInv'
<1>1. PICK e \in Entries \ (Written \union {entry[b] : b \in Appenders}) :
        entry' = [entry EXCEPT ![a] = e]
  BY DEF Submit
<1>2. entry[a] = None /\ UNCHANGED <<file, synced, holder, acked>> /\ a # None /\ e # None
  BY EntriesAssumption DEF Submit
<1>3. \A b \in Appenders : entry'[b] = IF b = a THEN e ELSE entry[b]
  BY <1>1 DEF JInv, LogTyped
<1>4. LogTyped'
  BY <1>1, <1>2 DEF JInv, LogTyped
<1>5. \A b \in Appenders : entry[b] # e
  BY <1>1
<1>6. Once'
  <2>1. Written' = Written /\ e \notin Written
    BY <1>1, <1>2 DEF Written
  <2>2. ASSUME NEW b \in Appenders, entry'[b] # None, b # holder
        PROVE  entry'[b] \notin Written
    <3>1. CASE b = a
      BY <1>3, <2>1, <3>1
    <3>2. CASE b # a
      BY <1>3, <2>2, <3>2 DEF JInv, Once
    <3> QED  BY <3>1, <3>2
  <2>3. ASSUME NEW b \in Appenders, NEW c \in Appenders, entry'[b] # None, entry'[b] = entry'[c]
        PROVE  b = c
    <3>1. CASE b = a \/ c = a
      BY <1>3, <1>5, <2>3, <3>1
    <3>2. CASE b # a /\ c # a
      BY <1>3, <2>3, <3>2 DEF JInv, Once
    <3> QED  BY <3>1, <3>2
  <2>4. \A i, j \in DOMAIN file' : file'[i].event = file'[j].event => i = j
    BY <1>2 DEF JInv, Once
  <2>5. \A b \in Appenders : entry'[b] # None /\ b # holder' => entry'[b] \notin Written'
    BY <1>2, <2>1, <2>2
  <2>6. \A b, c \in Appenders : entry'[b] # None /\ entry'[b] = entry'[c] => b = c
    BY <2>3
  <2> QED  BY <2>4, <2>5, <2>6 DEF Once
<1>7. holder # a
  BY <1>2 DEF JInv, Held
<1>8. Held'
  BY <1>2, <1>3, <1>7 DEF JInv, Held, LogTyped
<1> QED  BY <1>2, <1>4, <1>6, <1>8, FileStays DEF JInv

LEMMA FlushKeeps == ASSUME JInv, NEW a \in Appenders, Flush(a) PROVE JInv'
<1>1. /\ entry[a] # None /\ holder = None /\ file' = Append(file, Chunk(entry[a], "whole"))
      /\ holder' = a /\ UNCHANGED <<synced, entry, acked>>
  BY DEF Flush
<1>2. entry[a] \in Entries /\ entry[a] \notin Written /\ a # None
  BY <1>1, EntriesAssumption DEF JInv, LogTyped, Once
<1>3. /\ file' \in Seq(Piece) /\ synced \in 0 .. Len(file') /\ Acknowledged'
      /\ Written' = Written \union {entry[a]} /\ synced < Len(file')
      /\ file'[Len(file')] = Chunk(entry[a], "whole")
      /\ \A i, j \in DOMAIN file' : file'[i].event = file'[j].event => i = j
  BY <1>1, <1>2, ChunkAdded
<1>4. LogTyped'
  BY <1>1, <1>3 DEF JInv, LogTyped
<1>5. Once'
  <2>1. ASSUME NEW b \in Appenders, entry[b] # None, b # a PROVE entry[b] \notin Written'
    <3>1. entry[b] # entry[a] /\ b # holder
      BY <1>1, <2>1, EntriesAssumption DEF JInv, Once
    <3> QED  BY <1>3, <2>1, <3>1 DEF JInv, Once
  <2>2. \A b, c \in Appenders : entry'[b] # None /\ entry'[b] = entry'[c] => b = c
    BY <1>1 DEF JInv, Once
  <2> QED  BY <1>1, <1>3, <2>1, <2>2 DEF Once
<1>6. Held'
  BY <1>1, <1>3 DEF Held
<1> QED  BY <1>3, <1>4, <1>5, <1>6 DEF JInv

LEMMA FlushFailsKeeps == ASSUME JInv, NEW a \in Appenders, FlushFails(a) PROVE JInv'
<1>1. /\ entry[a] # None /\ holder = None /\ entry' = [entry EXCEPT ![a] = None]
      /\ UNCHANGED <<synced, holder, acked>>
  BY DEF FlushFails, Failed
<1>2. entry[a] \in Entries /\ entry[a] \notin Written /\ a # None
  BY <1>1, EntriesAssumption DEF JInv, LogTyped, Once
<1>3. CASE UNCHANGED file
  BY <1>1, <1>2, <1>3, EntryLeaves
<1>4. ASSUME NEW p \in Shorter.whole, file' = Append(file, Chunk(entry[a], p)) PROVE JInv'
  <2>1. p \in {"whole", "line", "piece"}
    BY DEF Shorter
  <2>2. /\ file' \in Seq(Piece) /\ synced \in 0 .. Len(file') /\ Acknowledged'
        /\ Written' = Written \union {entry[a]}
        /\ \A i, j \in DOMAIN file' : file'[i].event = file'[j].event => i = j
    BY <1>1, <1>2, <1>4, <2>1, ChunkAdded
  <2>3. \A b \in Appenders : entry'[b] = IF b = a THEN None ELSE entry[b]
    BY <1>1 DEF JInv, LogTyped
  <2>4. LogTyped'
    BY <1>1, <2>2 DEF JInv, LogTyped
  <2>5. Once'
    <3>1. ASSUME NEW b \in Appenders, entry'[b] # None PROVE entry'[b] \notin Written'
      <4>1. b # a /\ entry'[b] = entry[b]
        BY <2>3, <3>1
      <4>2. entry[b] # entry[a] /\ entry[b] \notin Written
        BY <1>1, <3>1, <4>1, EntriesAssumption DEF JInv, Once
      <4> QED  BY <2>2, <4>1, <4>2
    <3>2. \A b, c \in Appenders : entry'[b] # None /\ entry'[b] = entry'[c] => b = c
      BY <2>3 DEF JInv, Once
    <3> QED  BY <2>2, <3>1, <3>2 DEF Once
  <2>6. Held'
    BY <1>1 DEF Held
  <2> QED  BY <2>2, <2>4, <2>5, <2>6 DEF JInv
<1> QED  BY <1>3, <1>4 DEF FlushFails

\* The event at the end of the file is acknowledged.
LEMMA SyncKeeps == ASSUME JInv, NEW a \in Appenders, Sync(a) PROVE JInv'
<1> DEFINE e == entry[a]
           n == Len(acked)
<1>1. /\ holder = a /\ synced' = Len(file) /\ acked' = Append(acked, e)
      /\ entry' = [entry EXCEPT ![a] = None] /\ holder' = None /\ file' = file
  BY DEF Sync, AfterSync
<1>2. a # None /\ e # None /\ e \in Entries /\ synced < Len(file) /\ file[Len(file)] = Chunk(e, "whole")
  BY <1>1, EntriesAssumption DEF JInv, Held, LogTyped
<1>3. /\ Len(file) \in Nat /\ DOMAIN file = 1 .. Len(file) /\ synced \in 0 .. Len(file)
      /\ acked \in Seq(Entries) /\ n \in Nat /\ DOMAIN acked = 1 .. n
  BY DEF JInv, LogTyped
<1> HIDE DEF e, n
<1>4. /\ acked' \in Seq(Entries) /\ Len(acked') = n + 1 /\ DOMAIN acked' = 1 .. n + 1
      /\ acked'[n + 1] = e /\ \A k \in 1 .. n : acked'[k] = acked[k]
  BY <1>1, <1>2, <1>3 DEF n
<1>5. LogTyped'
  BY <1>1, <1>3, <1>4 DEF JInv, LogTyped
<1>6. \A b \in Appenders : entry'[b] = IF b = a THEN None ELSE entry[b]
  BY <1>1 DEF JInv, LogTyped
<1>7. Once'
  <2>1. Written' = Written
    BY <1>1 DEF Written
  <2>2. \A b \in Appenders : entry'[b] # None => entry'[b] = entry[b] /\ b # holder
    BY <1>1, <1>6
  <2> QED  BY <1>1, <2>1, <2>2 DEF JInv, Once
<1>8. Held'
  BY <1>1 DEF Held
<1>9. Len(file) \in DOMAIN file /\ file[Len(file)].event = e
  BY <1>2, <1>3 DEF Chunk
<1>10. Acknowledged'
  <2>1. ASSUME NEW k \in 1 .. n + 1 PROVE \E i \in 1 .. Len(file) : file[i] = Chunk(acked'[k], "whole")
    <3>1. CASE k \in 1 .. n
      <4>1. PICK i \in 1 .. synced : file[i] = Chunk(acked[k], "whole")
        BY <1>3, <3>1 DEF JInv, Acknowledged
      <4>2. i \in 1 .. Len(file)
        BY <1>3
      <4> QED  BY <1>4, <3>1, <4>1, <4>2
    <3>2. CASE k = n + 1
      BY <1>2, <1>3, <1>4, <1>9, <3>2
    <3> QED  BY <1>3, <3>1, <3>2
  <2>2. ASSUME NEW k \in 1 .. n + 1, NEW l \in 1 .. n + 1, NEW i \in DOMAIN file, NEW j \in DOMAIN file,
               k < l, file[i].event = acked'[k], file[j].event = acked'[l]
        PROVE  i < j
    <3>1. k \in 1 .. n /\ file[i].event = acked[k]
      BY <1>3, <1>4, <2>2
    <3>2. CASE l \in 1 .. n
      BY <1>3, <1>4, <2>2, <3>1, <3>2 DEF JInv, Acknowledged
    <3>3. CASE l = n + 1
      <4>1. j = Len(file)
        BY <1>4, <1>9, <2>2, <3>3 DEF JInv, Once
      <4>2. PICK q \in 1 .. synced : file[q] = Chunk(acked[k], "whole")
        BY <1>3, <3>1 DEF JInv, Acknowledged
      <4>3. q \in DOMAIN file /\ file[q].event = acked[k]
        BY <1>3, <4>2 DEF Chunk
      <4>4. i = q
        BY <3>1, <4>3 DEF JInv, Once
      <4> QED  BY <1>2, <1>3, <4>1, <4>4
    <3> QED  BY <1>3, <3>2, <3>3
  <2> QED  BY <1>1, <1>4, <2>1, <2>2 DEF Acknowledged
<1> QED  BY <1>5, <1>7, <1>8, <1>10 DEF JInv

\* What remains of the file begins with its synced chunks, and has nothing that was not
\* in the file, at the same place.
LEMMA RemainsOfFile ==
  ASSUME JInv, NEW f \in Remains
  PROVE  /\ f \in Seq(Piece) /\ synced <= Len(f) /\ Len(f) <= Len(file) /\ Len(f) \in Nat
         /\ \A i \in 1 .. Len(f) : f[i].event = file[i].event
         /\ \A i \in 1 .. synced : f[i] = file[i]
<1>1. /\ file \in Seq(Piece) /\ Len(file) \in Nat /\ DOMAIN file = 1 .. Len(file)
      /\ synced \in 0 .. Len(file)
  BY DEF JInv, LogTyped
<1>2. ASSUME NEW n \in synced .. Len(file)
      PROVE  /\ SubSeq(file, 1, n) \in Seq(Piece) /\ Len(SubSeq(file, 1, n)) = n
             /\ n \in Nat /\ \A i \in 1 .. n : SubSeq(file, 1, n)[i] = file[i]
  BY <1>1
<1>3. CASE f \in {SubSeq(file, 1, n) : n \in synced .. Len(file)}
  <2>1. PICK n \in synced .. Len(file) : f = SubSeq(file, 1, n)
    BY <1>3
  <2>2. /\ f \in Seq(Piece) /\ Len(f) = n /\ n \in Nat /\ \A i \in 1 .. n : f[i] = file[i]
    BY <1>2, <2>1
  <2> QED  BY <1>1, <2>1, <2>2
<1>4. ASSUME NEW n \in synced .. Len(file) - 1, NEW p \in Shorter[file[n + 1].part],
             f = Append(SubSeq(file, 1, n), Chunk(file[n + 1].event, p))
      PROVE  /\ f \in Seq(Piece) /\ synced <= Len(f) /\ Len(f) <= Len(file) /\ Len(f) \in Nat
             /\ \A i \in 1 .. Len(f) : f[i].event = file[i].event
             /\ \A i \in 1 .. synced : f[i] = file[i]
  <2> DEFINE s == SubSeq(file, 1, n)
             c == Chunk(file[n + 1].event, p)
  <2>1. n \in synced .. Len(file) /\ n \in Nat /\ n + 1 \in DOMAIN file
    BY <1>1
  <2>2. s \in Seq(Piece) /\ Len(s) = n /\ \A i \in 1 .. n : s[i] = file[i]
    BY <1>2, <2>1
  <2>3. file[n + 1] \in Piece
    BY <1>1, <2>1
  <2>4. p \in {"whole", "line", "piece"}
    BY <2>3 DEF Shorter, Piece
  <2>5. c \in Piece /\ c.event = file[n + 1].event
    BY <2>3, <2>4 DEF Piece, Chunk
  <2> HIDE DEF s, c
  <2>6. f = Append(s, c)
    BY <1>4 DEF s, c
  <2>7. f \in Seq(Piece) /\ Len(f) = n + 1 /\ f[n + 1] = c /\ \A i \in 1 .. n : f[i] = s[i]
    BY <2>1, <2>2, <2>5, <2>6
  <2>8. synced <= Len(f) /\ Len(f) <= Len(file) /\ Len(f) \in Nat
    BY <1>1, <2>1, <2>7
  <2>9. \A i \in 1 .. n : f[i] = file[i]
    BY <2>2, <2>7
  <2>10. \A i \in 1 .. Len(f) : f[i].event = file[i].event
    <3>1. \A i \in 1 .. Len(f) : i \in 1 .. n \/ i = n + 1
      BY <2>1, <2>7
    <3> QED  BY <2>5, <2>7, <2>9, <3>1
  <2>11. \A i \in 1 .. synced : i \in 1 .. n
    BY <1>1, <2>1
  <2> QED  BY <2>7, <2>8, <2>9, <2>10, <2>11
<1>5. CASE f \notin {SubSeq(file, 1, n) : n \in synced .. Len(file)}
  <2>1. PICK n \in synced .. Len(file) - 1 :
          f \in {Append(SubSeq(file, 1, n), Chunk(file[n + 1].event, p)) :
                   p \in Shorter[file[n + 1].part]}
    BY <1>5 DEF Remains
  <2>2. PICK p \in Shorter[file[n + 1].part] :
          f = Append(SubSeq(file, 1, n), Chunk(file[n + 1].event, p))
    BY <2>1
  <2> QED  BY <1>4, <2>2
<1> QED  BY <1>3, <1>5

LEMMA LogCrashKeeps == ASSUME JInv, LogCrash PROVE JInv'
<1>1. /\ file' \in Remains /\ synced' = Len(file') /\ entry' = [a \in Appenders |-> None]
      /\ holder' = None /\ acked' = acked
  BY DEF LogCrash
<1>2. /\ file' \in Seq(Piece) /\ synced <= Len(file') /\ Len(file') <= Len(file) /\ Len(file') \in Nat
      /\ \A i \in 1 .. Len(file') : file'[i].event = file[i].event
      /\ \A i \in 1 .. synced : file'[i] = file[i]
  BY <1>1, RemainsOfFile
<1>3. /\ Len(file) \in Nat /\ DOMAIN file = 1 .. Len(file) /\ DOMAIN file' = 1 .. Len(file')
      /\ synced \in 0 .. Len(file)
  BY <1>2 DEF JInv, LogTyped
<1>4. DOMAIN file' \subseteq DOMAIN file /\ \A i \in 1 .. synced : i \in 1 .. Len(file')
  BY <1>2, <1>3
<1>5. LogTyped'
  BY <1>1, <1>2 DEF JInv, LogTyped
<1>6. Once'
  <2>1. \A a \in Appenders : entry'[a] = None
    BY <1>1
  <2> QED  BY <1>2, <1>3, <1>4, <2>1 DEF JInv, Once
<1>7. Held'
  BY <1>1 DEF Held
<1>8. Acknowledged'
  BY <1>1, <1>2, <1>3, <1>4 DEF JInv, Acknowledged
<1> QED  BY <1>5, <1>6, <1>7, <1>8 DEF JInv

LEMMA JKept == JInv /\ [Next]_vars => JInv'
<1> SUFFICES ASSUME JInv, [Next]_vars PROVE JInv'
  OBVIOUS
<1>1. CASE UNCHANGED log
  BY <1>1 DEF JInv, LogTyped, Once, Held, Acknowledged, Written, log
<1>2. ASSUME NEW a \in Appenders, AppenderStep(a) PROVE JInv'
  <2>1. CASE Submit(a) \/ Flush(a) \/ FlushFails(a) \/ Sync(a)
    BY <2>1, SubmitKeeps, FlushKeeps, FlushFailsKeeps, SyncKeeps
  <2>2. CASE Refuse(a)
    <3>1. holder = None /\ a # None
      BY <2>2, EntriesAssumption DEF Refuse
    <3> QED  BY <2>2, <3>1, EntryLeaves DEF Refuse, Failed
  <2>3. CASE SyncFails(a)
    BY <2>3, EntryLeaves DEF SyncFails
  <2> QED  BY <1>2, <2>1, <2>2, <2>3 DEF AppenderStep
<1>3. CASE LogCrash
  BY <1>3, LogCrashKeeps
<1> QED  BY <1>1, <1>2, <1>3 DEF Next, Crash, vars, LogNext

\* What is acknowledged is in the file, whole and synced, in the order of the
\* acknowledgements, and no event is there twice, whatever is cut off or fails.
THEOREM JournalInvariant == Spec => []JInv
<1>1. Init => JInv
  BY JStarts
<1>2. JInv /\ [Next]_vars => JInv'
  BY JKept
<1> QED  BY <1>1, <1>2, PTL DEF Spec

-----------------------------------------------------------------------------
(* Numbers: the least of some, and induction.                              *)

\* A set of natural numbers has a least element.
LEMMA Least ==
  ASSUME NEW S \in SUBSET Nat, S # {}
  PROVE  \E x \in S : \A y \in S : x <= y
<1>1. \A x, y \in Nat : x < y => <<x, y>> \in OpToRel(<, Nat)
  BY DEF OpToRel
<1>2. \E R : IsWellFoundedOn(R, Nat) /\ \A x, y \in Nat : x < y => <<x, y>> \in R
  BY <1>1, NatLessThanWellFounded, Zenon
<1>3. ASSUME NEW R, IsWellFoundedOn(R, Nat), \A x, y \in Nat : x < y => <<x, y>> \in R
      PROVE  \E x \in S : \A y \in S : x <= y
  <2>1. S \subseteq Nat /\ S # {}
    OBVIOUS
  <2>2. \A A, Q, T : (IsWellFoundedOn(Q, A) /\ T \subseteq A /\ T # {})
                     => \E x \in T : \A y \in T : ~ (<<y, x>> \in Q)
    <3> SUFFICES ASSUME NEW A, NEW Q, NEW T, IsWellFoundedOn(Q, A), T \subseteq A, T # {}
                 PROVE  \E x \in T : \A y \in T : ~ (<<y, x>> \in Q)
      BY Zenon
    <3> QED  BY WFMin
  <2>3. (IsWellFoundedOn(R, Nat) /\ S \subseteq Nat /\ S # {})
        => \E x \in S : \A y \in S : ~ (<<y, x>> \in R)
    BY <2>2, Zenon
  <2>4. PICK x \in S : \A y \in S : ~ (<<y, x>> \in R)
    BY <1>3, <2>1, <2>3
  <2>5. \A y \in S : ~ (y < x)
    BY <1>3, <2>4, Zenon
  <2> QED  BY <2>5
<1> QED  BY <1>2, <1>3, Zenon

\* Induction: a set with 0, and with the successor of each member, has them all.
LEMMA Successors ==
  ASSUME NEW S, 0 \in S, \A n \in Nat : n \in S => n + 1 \in S
  PROVE  \A n \in Nat : n \in S
<1> SUFFICES ASSUME NEW m \in Nat, m \notin S PROVE FALSE
  OBVIOUS
<1> DEFINE Out == {n \in Nat : n \notin S}
<1>1. PICK n \in Out : \A k \in Out : n <= k
  <2>1. Out \in SUBSET Nat /\ Out # {}
    OBVIOUS
  <2> HIDE DEF Out
  <2> QED  BY <2>1, Least
<1>2. n \in Nat /\ n # 0 /\ n - 1 \in Nat /\ n - 1 \notin Out
  <2>1. n \in Nat /\ n # 0
    BY <1>1
  <2>2. n - 1 \in Nat /\ ~ (n <= n - 1)
    BY <2>1
  <2> QED  BY <1>1, <2>1, <2>2
<1>3. n - 1 \in S /\ (n - 1) + 1 = n
  BY <1>2
<1> QED  BY <1>1, <1>2, <1>3

-----------------------------------------------------------------------------
(* What Picked returns.                                                    *)

\* The picking of the elements of s at I, among the first m.
PicksTo(f, s, I, m) ==
  /\ f[0] = << >>
  /\ \A n \in 1 .. m : f[n] = IF n \in I THEN Append(f[n - 1], s[n]) ELSE f[n - 1]

Picking(f, s, I, l) ==
  f = [n \in 0 .. l |-> IF n = 0 THEN << >>
                        ELSE IF n \in I THEN Append(f[n - 1], s[n]) ELSE f[n - 1]]

LEMMA PickingExists == ASSUME NEW s, NEW I, NEW l \in Nat PROVE \E f : Picking(f, s, I, l)
<1> DEFINE Some == {m \in Nat : m <= l => \E f : DOMAIN f = 0 .. m /\ f = [n \in 0 .. m |-> f[n]]
                                                 /\ PicksTo(f, s, I, m)}
<1>1. 0 \in Some
  <2> DEFINE f == [n \in 0 .. 0 |-> << >>]
  <2>1. DOMAIN f = 0 .. 0 /\ f = [n \in 0 .. 0 |-> f[n]] /\ PicksTo(f, s, I, 0)
    BY DEF PicksTo
  <2> HIDE DEF f
  <2> QED  BY <2>1
<1>2. \A m \in Nat : m \in Some => m + 1 \in Some
  <2> SUFFICES ASSUME NEW m \in Nat, m \in Some, m + 1 <= l PROVE m + 1 \in Some
    OBVIOUS
  <2>1. PICK f : DOMAIN f = 0 .. m /\ f = [n \in 0 .. m |-> f[n]] /\ PicksTo(f, s, I, m)
    OBVIOUS
  <2> DEFINE a == IF m + 1 \in I THEN Append(f[m], s[m + 1]) ELSE f[m]
             g == [n \in 0 .. m + 1 |-> IF n <= m THEN f[n] ELSE a]
  <2> HIDE DEF a
  <2>2. /\ DOMAIN g = 0 .. m + 1 /\ g = [n \in 0 .. m + 1 |-> g[n]]
        /\ g[m + 1] = a /\ \A n \in 0 .. m : g[n] = f[n]
    OBVIOUS
  <2> HIDE DEF g
  <2>3. ASSUME NEW n \in 1 .. m + 1
        PROVE  g[n] = IF n \in I THEN Append(g[n - 1], s[n]) ELSE g[n - 1]
    <3>1. CASE n \in 1 .. m
      <4>1. n - 1 \in 0 .. m /\ n \in 0 .. m
        BY <3>1
      <4> QED  BY <2>1, <2>2, <3>1, <4>1 DEF PicksTo
    <3>2. CASE n = m + 1
      <4>1. n - 1 = m /\ m \in 0 .. m
        BY <3>2
      <4> QED  BY <2>2, <3>2, <4>1 DEF a
    <3> QED  BY <3>1, <3>2
  <2>4. PicksTo(g, s, I, m + 1)
    <3>1. g[0] = f[0] /\ f[0] = << >>
      <4>1. 0 \in 0 .. m
        OBVIOUS
      <4> QED  BY <2>1, <2>2, <4>1 DEF PicksTo
    <3> QED  BY <2>3, <3>1 DEF PicksTo
  <2> QED  BY <2>2, <2>4
<1> HIDE DEF Some
<1>3. l \in Some
  BY <1>1, <1>2, Successors
<1>4. PICK f : f = [n \in 0 .. l |-> f[n]] /\ PicksTo(f, s, I, l)
  BY <1>3 DEF Some
<1>5. \A n \in 0 .. l : f[n] = IF n = 0 THEN << >>
                               ELSE IF n \in I THEN Append(f[n - 1], s[n]) ELSE f[n - 1]
  BY <1>4 DEF PicksTo
<1>6. f = [n \in 0 .. l |-> IF n = 0 THEN << >>
                            ELSE IF n \in I THEN Append(f[n - 1], s[n]) ELSE f[n - 1]]
  BY <1>4, <1>5
<1> QED  BY <1>6 DEF Picking

LEMMA PickedPicks ==
  ASSUME NEW s, NEW I, Len(s) \in Nat
  PROVE  \E f : Picked(s, I) = f[Len(s)] /\ PicksTo(f, s, I, Len(s))
<1> DEFINE l == Len(s)
           p == CHOOSE f : Picking(f, s, I, l)
<1>1. \E f : Picking(f, s, I, l)
  <2> HIDE DEF l
  <2>1. l \in Nat
    BY DEF l
  <2> QED  BY <2>1, PickingExists
<1>2. Picked(s, I) = p[l]
  BY DEF Picked, Picking
<1>3. Picking(p, s, I, l)
  BY <1>1
<1> HIDE DEF p, l
<1>4. l \in Nat
  BY DEF l
<1>5. \A n \in 0 .. l : p[n] = IF n = 0 THEN << >>
                               ELSE IF n \in I THEN Append(p[n - 1], s[n]) ELSE p[n - 1]
  BY <1>3 DEF Picking
<1>6. PicksTo(p, s, I, l)
  BY <1>4, <1>5 DEF PicksTo
<1> QED  BY <1>2, <1>6 DEF l

\* p goes through the members of I, from the least to the greatest.
Enumerates(p, m, I) ==
  /\ p \in [1 .. m -> I]
  /\ \A j, k \in 1 .. m : j < k => p[j] < p[k]
  /\ \A i \in I : \E k \in 1 .. m : p[k] = i

\* Picked returns what such an enumeration of the places shows.
LEMMA PickedShows ==
  ASSUME NEW S, NEW s \in Seq(S), NEW I \in SUBSET DOMAIN s,
         NEW m \in Nat, NEW p, Enumerates(p, m, I)
  PROVE  Picked(s, I) = [k \in 1 .. m |-> s[p[k]]]
<1> DEFINE l == Len(s)
<1>1. l \in Nat /\ DOMAIN s = 1 .. l
  OBVIOUS
<1>2. PICK f : Picked(s, I) = f[l] /\ PicksTo(f, s, I, l)
  BY <1>1, PickedPicks
<1> HIDE DEF l
<1>3. \A k \in 1 .. m : p[k] \in 1 .. l /\ s[p[k]] \in S
  BY <1>1 DEF Enumerates, l
<1> DEFINE Below(c, n) == \A k \in 1 .. m : k <= c <=> p[k] <= n
           Show(c) == [k \in 1 .. c |-> s[p[k]]]
           Good == {n \in Nat : n <= l => \E c \in 0 .. m : Below(c, n) /\ f[n] = Show(c)}
<1> HIDE DEF Below, Show
<1>4. 0 \in Good
  <2>1. Below(0, 0)
    BY <1>3 DEF Below
  <2>2. f[0] = Show(0)
    BY <1>2 DEF PicksTo, Show
  <2>3. 0 \in 0 .. m
    OBVIOUS
  <2> QED  BY <2>1, <2>2, <2>3
<1>5. \A n \in Nat : n \in Good => n + 1 \in Good
  <2> SUFFICES ASSUME NEW n \in Nat, n \in Good, n + 1 <= l
               PROVE  \E c \in 0 .. m : Below(c, n + 1) /\ f[n + 1] = Show(c)
    OBVIOUS
  <2>1. PICK c \in 0 .. m : Below(c, n) /\ f[n] = Show(c)
    BY <1>1
  <2>2. n + 1 \in 1 .. l /\ (n + 1) - 1 = n
    BY <1>1
  <2>3. f[n + 1] = IF n + 1 \in I THEN Append(f[n], s[n + 1]) ELSE f[n]
    BY <1>2, <2>2 DEF PicksTo
  <2>4. CASE n + 1 \in I
    <3>1. PICK k \in 1 .. m : p[k] = n + 1
      BY <2>4 DEF Enumerates
    <3>2. k = c + 1
      <4>1. k > c
        BY <2>1, <3>1 DEF Below
      <4>2. ASSUME k > c + 1 PROVE FALSE
        <5>1. c + 1 \in 1 .. m /\ p[c + 1] \in Nat
          BY <1>1, <1>3, <4>2
        <5>2. p[c + 1] < n + 1
          BY <3>1, <4>2, <5>1 DEF Enumerates
        <5> QED  BY <2>1, <5>1, <5>2 DEF Below
      <4> QED  BY <4>1, <4>2
    <3>3. Below(c + 1, n + 1)
      <4> SUFFICES ASSUME NEW j \in 1 .. m PROVE j <= c + 1 <=> p[j] <= n + 1
        BY DEF Below
      <4>1. j < k => p[j] < p[k]
        BY DEF Enumerates
      <4>2. k < j => p[k] < p[j]
        BY DEF Enumerates
      <4>3. p[j] \in Nat
        BY <1>1, <1>3
      <4> QED  BY <3>1, <3>2, <4>1, <4>2, <4>3
    <3>4. Show(c + 1) = Append(Show(c), s[n + 1])
      <4>1. Show(c) \in Seq(S) /\ Len(Show(c)) = c
        BY <1>3 DEF Show
      <4>2. Append(Show(c), s[n + 1]) = [i \in 1 .. c + 1 |-> IF i <= c THEN s[p[i]] ELSE s[n + 1]]
        BY <4>1 DEF Show
      <4> QED  BY <3>1, <3>2, <4>2 DEF Show
    <3>5. c + 1 \in 0 .. m
      BY <3>2
    <3> QED  BY <2>1, <2>3, <2>4, <3>3, <3>4, <3>5
  <2>5. CASE n + 1 \notin I
    <3>1. \A k \in 1 .. m : p[k] # n + 1 /\ p[k] \in Nat
      BY <1>1, <1>3, <2>5 DEF Enumerates
    <3>2. Below(c, n + 1)
      BY <2>1, <3>1 DEF Below
    <3> QED  BY <2>1, <2>3, <2>5, <3>2
  <2> QED  BY <2>4, <2>5
<1>6. PICK c \in 0 .. m : Below(c, l) /\ f[l] = Show(c)
  <2> HIDE DEF Good
  <2>1. l \in Good
    BY <1>1, <1>4, <1>5, Successors
  <2> QED  BY <1>1, <2>1 DEF Good
<1>7. c = m
  <2>1. CASE m = 0
    BY <2>1
  <2>2. CASE m # 0
    <3>1. m \in 1 .. m
      BY <2>2
    <3> QED  BY <1>1, <1>3, <1>6, <3>1 DEF Below
  <2> QED  BY <2>1, <2>2
<1> QED  BY <1>2, <1>6, <1>7 DEF l, Show

\* A set of places has an enumeration.
LEMMA EnumerationExists ==
  ASSUME NEW l \in Nat, NEW I \in SUBSET (1 .. l)
  PROVE  \E m \in Nat : \E p : Enumerates(p, m, I)
<1> DEFINE Upto(n) == {i \in I : i <= n}
           Some == {n \in Nat : \E m \in Nat : \E p : Enumerates(p, m, Upto(n))}
<1>0. \A i \in I : i \in Nat /\ 1 <= i /\ i <= l
  OBVIOUS
<1>1. 0 \in Some
  <2> DEFINE p == [k \in 1 .. 0 |-> 0]
  <2>1. Upto(0) = {}
    <3>1. \A i \in I : ~ (i <= 0)
      BY <1>0
    <3> QED  BY <3>1
  <2>2. Enumerates(p, 0, {})
    BY DEF Enumerates
  <2> HIDE DEF p, Upto
  <2> QED  BY <2>1, <2>2
<1>2. \A n \in Nat : n \in Some => n + 1 \in Some
  <2> SUFFICES ASSUME NEW n \in Nat, n \in Some
               PROVE  n + 1 \in Some
    OBVIOUS
  <2> SUFFICES \E m \in Nat : \E p : Enumerates(p, m, Upto(n + 1))
    <3> HIDE DEF Upto
    <3> QED  OBVIOUS
  <2>0. PICK m \in Nat : \E p : Enumerates(p, m, Upto(n))
    <3> HIDE DEF Upto
    <3> QED  OBVIOUS
  <2>1. PICK p : Enumerates(p, m, Upto(n))
    BY <2>0
  <2>2. CASE n + 1 \in I
    <3> DEFINE q == [k \in 1 .. m + 1 |-> IF k <= m THEN p[k] ELSE n + 1]
    <3>1. Upto(n + 1) = Upto(n) \union {n + 1} /\ \A i \in Upto(n) : i \in Nat /\ i <= n
      <4>1. \A i \in I : i \in Nat /\ (i <= n + 1 <=> i <= n \/ i = n + 1)
        BY <1>0
      <4> QED  BY <2>2, <4>1
    <3>2. q[m + 1] = n + 1 /\ \A k \in 1 .. m : q[k] = p[k]
      OBVIOUS
    <3>3. \A k \in 1 .. m : p[k] \in Upto(n)
      BY <2>1 DEF Enumerates
    <3>4. q \in [1 .. m + 1 -> Upto(n) \union {n + 1}]
      <4> HIDE DEF Upto
      <4> QED  BY <3>3
    <3> HIDE DEF q, Upto
    <3>5. \A j, k \in 1 .. m + 1 : j < k => q[j] < q[k]
      <4> SUFFICES ASSUME NEW j \in 1 .. m + 1, NEW k \in 1 .. m + 1, j < k PROVE q[j] < q[k]
        OBVIOUS
      <4>1. j \in 1 .. m /\ q[j] = p[j]
        BY <3>2
      <4>2. CASE k \in 1 .. m
        BY <2>1, <3>2, <4>1, <4>2 DEF Enumerates
      <4>3. CASE k = m + 1
        BY <3>1, <3>2, <3>3, <4>1, <4>3
      <4> QED  BY <4>2, <4>3
    <3>6. \A i \in Upto(n) \union {n + 1} : \E k \in 1 .. m + 1 : q[k] = i
      <4> SUFFICES ASSUME NEW i \in Upto(n) \union {n + 1} PROVE \E k \in 1 .. m + 1 : q[k] = i
        OBVIOUS
      <4>1. CASE i \in Upto(n)
        <5>1. PICK k \in 1 .. m : p[k] = i
          BY <2>1, <4>1 DEF Enumerates
        <5>2. k \in 1 .. m + 1
          OBVIOUS
        <5> QED  BY <3>2, <5>1, <5>2
      <4>2. CASE i = n + 1
        BY <3>2, <4>2
      <4> QED  BY <4>1, <4>2
    <3>7. Enumerates(q, m + 1, Upto(n + 1))
      BY <3>1, <3>4, <3>5, <3>6 DEF Enumerates
    <3> QED  BY <3>7
  <2>3. CASE n + 1 \notin I
    <3>1. Upto(n + 1) = Upto(n)
      <4>1. \A i \in I : i <= n + 1 <=> i <= n
        BY <1>0, <2>3
      <4> QED  BY <4>1
    <3> HIDE DEF Upto
    <3> QED  BY <2>1, <3>1
  <2> QED  BY <2>2, <2>3
<1>3. Upto(l) = I
  BY <1>0
<1> HIDE DEF Some, Upto
<1>4. l \in Some
  BY <1>1, <1>2, Successors
<1> QED  BY <1>3, <1>4 DEF Some

-----------------------------------------------------------------------------
(* What is acknowledged is replayed.                                       *)

\* The place in the file of the k-th acknowledged event.
Place(k) == CHOOSE i \in 1 .. synced : file[i] = Chunk(acked[k], "whole")

LEMMA Places ==
  ASSUME JInv
  PROVE  /\ \A k \in DOMAIN acked : /\ Place(k) \in DOMAIN file
                                    /\ file[Place(k)] = Chunk(acked[k], "whole")
                                    /\ acked[k] \in Entries
         /\ \A k, l \in DOMAIN acked : k < l => Place(k) < Place(l)
         /\ \A k \in DOMAIN acked : \A i \in DOMAIN file : file[i].event = acked[k] => i = Place(k)
<1>1. DOMAIN file = 1 .. Len(file) /\ Len(file) \in Nat /\ synced \in 0 .. Len(file)
  BY DEF JInv, LogTyped
<1>2. ASSUME NEW k \in DOMAIN acked
      PROVE  /\ Place(k) \in DOMAIN file /\ file[Place(k)] = Chunk(acked[k], "whole")
             /\ file[Place(k)].event = acked[k] /\ acked[k] \in Entries
  <2>1. \E i \in 1 .. synced : file[i] = Chunk(acked[k], "whole")
    BY DEF JInv, Acknowledged
  <2>2. Place(k) \in 1 .. synced /\ file[Place(k)] = Chunk(acked[k], "whole")
    BY <2>1 DEF Place
  <2>3. acked[k] \in Entries
    BY DEF JInv, LogTyped
  <2> QED  BY <1>1, <2>2, <2>3 DEF Chunk
<1>3. \A k, l \in DOMAIN acked : k < l => Place(k) < Place(l)
  BY <1>2 DEF JInv, Acknowledged
<1>4. \A k \in DOMAIN acked : \A i \in DOMAIN file : file[i].event = acked[k] => i = Place(k)
  BY <1>2 DEF JInv, Once
<1> QED  BY <1>2, <1>3, <1>4

\* An acknowledged event decodes unless it shares its line.
LEMMA WholeDecodes ==
  ASSUME JInv, NEW k \in DOMAIN acked
  PROVE  Decodes(Place(k)) <=> acked[k] \notin Joined
<1> DEFINE i == Place(k)
<1>1. /\ i \in DOMAIN file /\ file[i] = Chunk(acked[k], "whole")
      /\ \A j \in DOMAIN file : file[j].event = acked[k] => j = i
  BY Places
<1>2. DOMAIN file = 1 .. Len(file) /\ Len(file) \in Nat
  BY DEF JInv, LogTyped
<1> HIDE DEF i
<1>3. file[i].part = "whole" /\ file[i].event = acked[k]
  BY <1>1 DEF Chunk
<1>4. Decodes(i) <=> i = 1 \/ file[i - 1].part = "whole"
  BY <1>3 DEF Decodes
<1>5. acked[k] \in Joined <=> i > 1 /\ file[i - 1].part # "whole"
  <2>1. acked[k] \in Joined <=>
          \E j \in DOMAIN file : j > 1 /\ file[j - 1].part # "whole" /\ acked[k] = file[j].event
    BY DEF Joined
  <2> QED  BY <1>1, <1>3, <2>1
<1>6. i = 1 \/ i > 1
  BY <1>1, <1>2
<1> QED  BY <1>4, <1>5, <1>6 DEF i

LEMMA JImpliesReplayed == JInv => AckedIsReplayed
<1> SUFFICES ASSUME JInv PROVE AckedIsReplayed
  OBVIOUS
<1> DEFINE events == [i \in DOMAIN file |-> file[i].event]
           D == {i \in DOMAIN file : Decodes(i)}
           K == {k \in DOMAIN acked : acked[k] \notin Joined}
           U == {k \in DOMAIN Replayed : Replayed[k] \in ToSet(acked)}
<1>1. /\ DOMAIN file = 1 .. Len(file) /\ Len(file) \in Nat
      /\ acked \in Seq(Entries) /\ DOMAIN acked = 1 .. Len(acked) /\ Len(acked) \in Nat
  BY DEF JInv, LogTyped
<1>2. events \in Seq(Entries) /\ DOMAIN events = DOMAIN file
  <2>1. \A i \in DOMAIN file : file[i].event \in Entries
    <3>1. \A i \in DOMAIN file : file[i] \in Piece
      BY DEF JInv, LogTyped
    <3> QED  BY <3>1 DEF Piece
  <2> QED  BY <1>1, <2>1
<1>30. PICK d \in Nat : \E r : Enumerates(r, d, D)
  <2>1. D \in SUBSET (1 .. Len(file))
    BY <1>1
  <2> HIDE DEF D
  <2> QED  BY <1>1, <2>1, EnumerationExists
<1>3. PICK r : Enumerates(r, d, D)
  BY <1>30
<1>40. PICK m \in Nat : \E q : Enumerates(q, m, K)
  <2>1. K \in SUBSET (1 .. Len(acked))
    BY <1>1
  <2> HIDE DEF K
  <2> QED  BY <1>1, <2>1, EnumerationExists
<1>4. PICK q : Enumerates(q, m, K)
  BY <1>40
<1>5. \A k \in 1 .. d : r[k] \in DOMAIN file /\ Decodes(r[k])
  BY <1>3 DEF Enumerates
<1>6. /\ Replayed \in Seq(Entries) /\ DOMAIN Replayed = 1 .. d
      /\ \A k \in 1 .. d : Replayed[k] = file[r[k]].event
  <2>1. D \in SUBSET DOMAIN events
    BY <1>2
  <2>2. \A k \in 1 .. d : events[r[k]] = file[r[k]].event
    BY <1>5
  <2>3. Replayed = Picked(events, D)
    BY DEF Replayed
  <2> HIDE DEF events, D
  <2>4. Picked(events, D) = [k \in 1 .. d |-> events[r[k]]]
    BY <1>2, <1>3, <2>1, PickedShows
  <2>5. \A k \in 1 .. d : events[r[k]] \in Entries
    <3>1. \A i \in DOMAIN events : events[i] \in Entries
      BY <1>2
    <3> QED  BY <1>2, <1>5, <3>1
  <2>6. Replayed = [k \in 1 .. d |-> events[r[k]]]
    BY <2>3, <2>4
  <2> QED  BY <2>2, <2>5, <2>6
<1>7. \A j \in 1 .. m : q[j] \in DOMAIN acked /\ acked[q[j]] \notin Joined
  BY <1>4 DEF Enumerates
<1>8. \A j \in 1 .. m : \E k \in 1 .. d : r[k] = Place(q[j])
  <2> SUFFICES ASSUME NEW j \in 1 .. m PROVE \E k \in 1 .. d : r[k] = Place(q[j])
    OBVIOUS
  <2>1. q[j] \in DOMAIN acked /\ acked[q[j]] \notin Joined
    BY <1>7
  <2>2. Place(q[j]) \in DOMAIN file
    BY <2>1, Places
  <2>3. Decodes(Place(q[j]))
    BY <2>1, WholeDecodes
  <2>4. Place(q[j]) \in D
    BY <2>2, <2>3
  <2> HIDE DEF D
  <2> QED  BY <1>3, <2>4 DEF Enumerates
<1> DEFINE u == [j \in 1 .. m |-> CHOOSE k \in 1 .. d : r[k] = Place(q[j])]
<1>9. \A j \in 1 .. m : u[j] \in 1 .. d /\ r[u[j]] = Place(q[j])
  BY <1>8
<1>10. \A j \in 1 .. m : Replayed[u[j]] = acked[q[j]]
  <2> HIDE DEF u
  <2>1. \A j \in 1 .. m : file[Place(q[j])].event = acked[q[j]]
    <3>1. \A e, c : Chunk(e, c).event = e
      BY DEF Chunk
    <3>2. \A k \in DOMAIN acked : file[Place(k)].event = acked[k]
      BY <3>1, Places
    <3> QED  BY <1>7, <3>2
  <2> QED  BY <1>6, <1>9, <2>1
<1>11. \A j, k \in 1 .. d : j < k => r[j] < r[k]
  BY <1>3 DEF Enumerates
<1>12. \A k \in 1 .. d : r[k] \in Nat
  BY <1>1, <1>5
<1>13. Enumerates(u, m, U)
  <2>1. u \in [1 .. m -> U]
    <3>1. \A j \in 1 .. m : u[j] \in U
      <4> SUFFICES ASSUME NEW j \in 1 .. m PROVE u[j] \in U
        OBVIOUS
      <4> HIDE DEF u
      <4>1. acked[q[j]] \in ToSet(acked)
        BY <1>7 DEF ToSet
      <4> QED  BY <1>6, <1>9, <1>10, <4>1
    <3> HIDE DEF U
    <3> QED  BY <3>1
  <2> HIDE DEF u
  <2>2. ASSUME NEW i \in 1 .. m, NEW j \in 1 .. m, i < j PROVE u[i] < u[j]
    <3>1. q[i] < q[j]
      BY <1>4, <2>2 DEF Enumerates
    <3>2. Place(q[i]) < Place(q[j])
      BY <1>7, <3>1, Places
    <3>3. r[u[i]] < r[u[j]] /\ u[i] \in 1 .. d /\ u[j] \in 1 .. d
      BY <1>9, <3>2
    <3>4. u[j] < u[i] => r[u[j]] < r[u[i]]
      BY <1>11, <3>3
    <3>5. r[u[i]] \in Nat /\ r[u[j]] \in Nat
      BY <1>12, <3>3
    <3> QED  BY <3>3, <3>4, <3>5
  <2>3. ASSUME NEW k \in U PROVE \E j \in 1 .. m : u[j] = k
    <3>1. k \in 1 .. d /\ Replayed[k] = file[r[k]].event
      BY <1>6
    <3>2. PICK l \in DOMAIN acked : Replayed[k] = acked[l]
      BY DEF ToSet
    <3>3. r[k] = Place(l) /\ Decodes(Place(l))
      BY <1>5, <3>1, <3>2, Places
    <3>4. l \in K
      BY <3>2, <3>3, WholeDecodes
    <3>5. PICK j \in 1 .. m : q[j] = l
      BY <1>4, <3>4 DEF Enumerates
    <3>6. u[j] \in 1 .. d /\ r[u[j]] = r[k]
      BY <1>9, <3>3, <3>5
    <3>7. u[j] = k
      <4>1. ~ (u[j] < k) /\ ~ (k < u[j])
        BY <1>11, <1>12, <3>1, <3>6
      <4> QED  BY <3>1, <3>6, <4>1
    <3> QED  BY <3>7
  <2> HIDE DEF U
  <2> QED  BY <2>1, <2>2, <2>3 DEF Enumerates
<1>14. Picked(Replayed, U) = [j \in 1 .. m |-> Replayed[u[j]]]
  <2>1. U \in SUBSET DOMAIN Replayed
    OBVIOUS
  <2> HIDE DEF U, u
  <2> QED  BY <1>6, <1>13, <2>1, PickedShows
<1>15. Picked(acked, K) = [j \in 1 .. m |-> acked[q[j]]]
  <2>1. K \in SUBSET DOMAIN acked
    OBVIOUS
  <2> HIDE DEF K
  <2> QED  BY <1>1, <1>4, <2>1, PickedShows
<1>16. Picked(Replayed, U) = Picked(acked, K)
  <2> HIDE DEF U, K, u
  <2> QED  BY <1>10, <1>14, <1>15
<1> QED  BY <1>16 DEF AckedIsReplayed

\* Replay hands over every event whose Append returned nil, in the order of the
\* acknowledgements, at any time and after any crash, loss of power or failed write since:
\* but for those that were written onto the rest of a line that was cut off.
THEOREM AcknowledgedIsReplayed == Spec => []AckedIsReplayed
<1>1. JInv => AckedIsReplayed
  BY JImpliesReplayed
<1> QED  BY <1>1, JournalInvariant, PTL
=============================================================================
