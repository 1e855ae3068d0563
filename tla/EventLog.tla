------------------------------ MODULE EventLog ------------------------------
(***************************************************************************)
(* The event journal (persist/eventlog.go): Append writes an event as one  *)
(* line and syncs the file, under the mutex of the open log; Replay reads  *)
(* what the file holds at that moment.                                     *)
(*                                                                         *)
(* The file is a sequence of chunks, one for each event written: whole, a  *)
(* line without its newline, or a part of a line.  What follows a chunk    *)
(* without a newline stands on the same line.  A line that is not exactly  *)
(* one event does not decode, and a loss of power may take any end of what *)
(* is not synced.  An event fits one line of Replay's scanner (64 KiB).    *)
(***************************************************************************)
EXTENDS Integers, Sequences, SequencesExt

CONSTANTS
  Appenders,  \* goroutines that call Append
  Entries,    \* bound: the events they append, each once
  None

ASSUME EntriesAssumption == None \notin Entries \union Appenders

VARIABLES
  file,    \* the chunks of the file
  synced,  \* how many of them are on the disk for certain
  broken,  \* the writer has failed: it repeats the error until the log is opened again
  entry,   \* appender -> the event it appends, or None
  holder,  \* the appender that has written and holds the mutex, or None
  acked    \* history: the events whose Append returned nil, in that order

log == <<file, synced, broken, entry, holder, acked>>

Chunk(e, p) == [event |-> e, part |-> p]

\* What a chunk may be cut down to.
Shorter == [whole |-> {"line", "piece"}, line |-> {"piece"}, piece |-> {"piece"}]

LogInit ==
  /\ file = << >> /\ synced = 0 /\ broken = FALSE
  /\ entry = [a \in Appenders |-> None] /\ holder = None
  /\ acked = << >>

Written == {file[i].event : i \in DOMAIN file}

\* Append is called with an event nobody has appended.
Submit(a) ==
  /\ entry[a] = None
  /\ \E e \in Entries \ (Written \union {entry[b] : b \in Appenders}) :
       entry' = [entry EXCEPT ![a] = e]
  /\ UNCHANGED <<file, synced, broken, holder, acked>>

Failed(a) == entry' = [entry EXCEPT ![a] = None] /\ UNCHANGED <<holder, acked>>

\* The write and the flush, under the mutex.
Flush(a) ==
  /\ entry[a] # None /\ holder = None /\ ~broken
  /\ file' = Append(file, Chunk(entry[a], "whole"))
  /\ holder' = a
  /\ UNCHANGED <<synced, broken, entry, acked>>

\* The flush fails, having written nothing or some of the line.
FlushFails(a) ==
  /\ entry[a] # None /\ holder = None /\ ~broken
  /\ \/ UNCHANGED file
     \/ \E p \in Shorter.whole : file' = Append(file, Chunk(entry[a], p))
  /\ broken' = TRUE
  /\ Failed(a)
  /\ UNCHANGED synced

\* A writer that has failed before writes nothing.
Refuse(a) ==
  /\ entry[a] # None /\ holder = None /\ broken
  /\ Failed(a)
  /\ UNCHANGED <<file, synced, broken>>

\* Mutant: the event is acknowledged without a sync.
Unsynced == synced
AfterSync == Len(file)

Sync(a) ==
  /\ holder = a
  /\ synced' = AfterSync
  /\ acked' = Append(acked, entry[a])
  /\ entry' = [entry EXCEPT ![a] = None] /\ holder' = None
  /\ UNCHANGED <<file, broken>>

\* The caller gets the error; the event stays in the file.
SyncFails(a) ==
  /\ holder = a
  /\ entry' = [entry EXCEPT ![a] = None] /\ holder' = None
  /\ UNCHANGED <<file, synced, broken, acked>>

\* What a loss of power may leave of the file: some of its chunks, the synced ones among
\* them, and perhaps a part of the next.
Remains ==
  LET cut(n) == {Append(SubSeq(file, 1, n), Chunk(file[n + 1].event, p)) :
                   p \in Shorter[file[n + 1].part]}
  IN  {SubSeq(file, 1, n) : n \in synced .. Len(file)}
      \union UNION {cut(n) : n \in synced .. Len(file) - 1}

\* The program ends, with the power or alone, and opens the log again.
LogCrash ==
  /\ file' \in Remains
  /\ synced' = Len(file')
  /\ broken' = FALSE
  /\ entry' = [a \in Appenders |-> None] /\ holder' = None
  /\ UNCHANGED acked

AppenderStep(a) ==
  Submit(a) \/ Flush(a) \/ FlushFails(a) \/ Refuse(a) \/ Sync(a) \/ SyncFails(a)

LogNext == \E a \in Appenders : AppenderStep(a)

-----------------------------------------------------------------------------
(* Replay.                                                                 *)

\* Chunk i is a line of its own, or the end of the file.
Decodes(i) ==
  /\ i = 1 \/ file[i - 1].part = "whole"
  /\ file[i].part = "whole" \/ (file[i].part = "line" /\ i = Len(file))

\* The elements of s at the places I, in their order.
Picked(s, I) ==
  LET pick[n \in 0 .. Len(s)] ==
        IF n = 0 THEN << >>
        ELSE IF n \in I THEN Append(pick[n - 1], s[n]) ELSE pick[n - 1]
  IN  pick[Len(s)]

\* The events that Replay hands to its caller, in order.
Replayed == Picked([i \in DOMAIN file |-> file[i].event], {i \in DOMAIN file : Decodes(i)})

Joined == {file[i].event : i \in {j \in DOMAIN file : j > 1 /\ file[j - 1].part # "whole"}}

-----------------------------------------------------------------------------
\* Every event whose Append returned nil is replayed, at any time from then on and in
\* the order of the acknowledgements, whatever crashed or failed since: but for the one
\* that was appended right after a line that a crash or a full disk had cut off, which
\* shares that line and is skipped.
AckedIsReplayed ==
  Picked(Replayed, {k \in DOMAIN Replayed : Replayed[k] \in ToSet(acked)})
    = Picked(acked, {k \in DOMAIN acked : acked[k] \notin Joined})
=============================================================================
