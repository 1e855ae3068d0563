------------------------------- MODULE Remote -------------------------------
(***************************************************************************)
(* The headless server (cmd/space-sim-server, WorldHandler, the snapshots  *)
(* of world.go) and the renderers that follow it (cmd/space-sim).          *)
(*                                                                         *)
(* Server: the simulation ticks and stores a snapshot when the gate finds  *)
(* a stream; another goroutine pushes the stored one, or a fresh clone     *)
(* while there is none, into the channels of the streams; watchIdle        *)
(* (--idle=exit) ends the server when every client has left.  Client: one  *)
(* goroutine streams and reconnects with a growing backoff; another gets   *)
(* other metadata when a body arrives that the present ones lack.          *)
(*                                                                         *)
(* A snapshot is the time it shows.  Timers count periods of watchIdle's   *)
(* poll, which ends each; all else may happen at any time within a period. *)
(* The two ends of a connection notice one after the other that it broke.  *)
(***************************************************************************)
EXTENDS Integers, Sequences, FiniteSets, FiniteSetsExt

CONSTANTS
  Clients,
  Systems,     \* the systems a server may be started with
  Described,   \* pairs <<s, t>>: the definition of s describes every body of t
  Depth,       \* of a stream's channel (8)
  Grace,       \* --idle-grace, in periods
  MaxBackoff,  \* of the reconnecting client, in periods; it begins with one
  Interval,    \* minInterval of the metadata check, in periods
  MaxTime, MaxBreaks, MaxLives, \* bounds: ticks, broken connections, starts of the server
  None

ASSUME SystemsAssumption ==
  Described \subseteq Systems \X Systems /\ \A s \in Systems : <<s, s>> \in Described
ASSUME TimersAssumption ==
  {Depth, Grace, MaxBackoff} \subseteq Nat \ {0} /\ Interval \in Nat
ASSUME BoundsAssumption == {MaxTime, MaxBreaks, MaxLives} \subseteq Nat

VARIABLES
  \* the server
  system,    \* what it was started with, None while it is down
  time,      \* of the world
  stored,    \* the snapshot store: a time, or None
  hook,      \* the tick's hook has yet to run
  cloning,   \* the pushing goroutine has found nothing stored
  channel,   \* client -> the snapshots in its stream's channel, None without a stream
  dead,      \* handlers whose client is gone without their having noticed
  armed,
  empty,     \* periods since emptySince, None for its zero value
  stopping,  \* runCtx is cancelled
  \* the clients
  link,      \* client -> where its streaming goroutine is
  backoff,   \* client -> what it waits next time
  wait,      \* client -> what is left of its wait
  shown,     \* client -> the last snapshot of this server it got, and whether it was a clone
  meta,      \* client -> the system its metadata come from
  nudged,    \* clients with a pending nudge
  cool,      \* client -> what is left of minInterval
  fetching,  \* clients whose check found another bundle
  \* history and bounds
  polled,    \* clients whose stream a poll has seen
  away,      \* client -> periods since it lost such a stream, up to Grace
  breaks, lives

world   == <<system, time, stored, hook>>
serving == <<cloning, channel, dead>>
monitor == <<armed, empty, stopping>>
linking == <<link, backoff, wait>>
content == <<meta, nudged, cool, fetching>>
history == <<polled, away>>
bounds  == <<breaks, lives>>
vars == <<world, serving, monitor, linking, shown, content, history, bounds>>

Up == system # None
Attached == {c \in Clients : channel[c] # None}
StreamCount == Cardinality(Attached) + dead

Snapshot(t, isClone) == [time |-> t, clone |-> isClone]
Nothing == Snapshot(0, FALSE)
Everywhere(x) == [c \in Clients |-> x]

Init ==
  /\ system \in Systems /\ time = 0 /\ stored = None /\ hook = FALSE
  /\ cloning = FALSE /\ channel = Everywhere(None) /\ dead = 0
  /\ armed = FALSE /\ empty = None /\ stopping = FALSE
  /\ link = Everywhere("off") /\ backoff = Everywhere(1) /\ wait = Everywhere(0)
  /\ shown = Everywhere(Nothing)
  /\ meta = Everywhere(None) /\ nudged = {} /\ cool = Everywhere(0) /\ fetching = {}
  /\ polled = {} /\ away = Everywhere(Grace)
  /\ breaks = 0 /\ lives = 1

-----------------------------------------------------------------------------
(* The simulation and the pushing goroutine.                               *)

Tick ==
  /\ Up /\ ~hook /\ time < MaxTime
  /\ time' = time + 1 /\ hook' = TRUE
  /\ UNCHANGED <<system, stored, serving, monitor, linking, shown, content, history, bounds>>

\* The post-tick hook; the gate is StreamCount() > 0.
Hook ==
  /\ Up /\ hook /\ hook' = FALSE
  /\ stored' = IF StreamCount > 0 THEN time ELSE stored
  /\ UNCHANGED <<system, time, serving, monitor, linking, shown, content, history, bounds>>

\* Mutant: a full channel gets the new snapshot in the place of its first one.
Overwritten(ch, s) == IF Len(ch) < Depth THEN Append(ch, s) ELSE [ch EXCEPT ![1] = s]
Offered(ch, s) == IF Len(ch) < Depth THEN Append(ch, s) ELSE ch

\* WorldHandler.Receive: every stream is offered the snapshot, under the lock.
Receive(s) ==
  channel' = [c \in Clients |-> IF c \in Attached THEN Offered(channel[c], s) ELSE None]

\* LatestSnapshot loads the stored snapshot ...
Push ==
  /\ Up /\ ~cloning
  /\ IF stored = None THEN cloning' = TRUE /\ UNCHANGED channel
     ELSE Receive(Snapshot(stored, FALSE)) /\ UNCHANGED cloning
  /\ UNCHANGED <<world, dead, monitor, linking, shown, content, history, bounds>>

\* ... or clones the front buffer if it found none.
Clone ==
  /\ Up /\ cloning /\ cloning' = FALSE
  /\ Receive(Snapshot(time, TRUE))
  /\ UNCHANGED <<world, dead, monitor, linking, shown, content, history, bounds>>

\* The handler of a stream whose client is gone returns and removes its channel.
Notice ==
  /\ Up /\ dead > 0 /\ dead' = dead - 1
  /\ UNCHANGED <<world, cloning, channel, monitor, linking, shown, content, history, bounds>>

-----------------------------------------------------------------------------
(* The end of a server.                                                    *)

\* A signal, or ShutdownService.
Command ==
  /\ Up /\ ~stopping /\ stopping' = TRUE
  /\ UNCHANGED <<world, serving, armed, empty, linking, shown, content, history, bounds>>

\* The process ends: main returns (the streams' connections are not waited for), or it dies.
Exit ==
  /\ Up /\ (stopping \/ lives < MaxLives)
  /\ system' = None /\ time' = 0 /\ stored' = None /\ hook' = FALSE
  /\ cloning' = FALSE /\ channel' = Everywhere(None) /\ dead' = 0
  /\ armed' = FALSE /\ empty' = None /\ stopping' = FALSE
  /\ shown' = Everywhere(Nothing) /\ polled' = {}
  /\ UNCHANGED <<linking, content, away, bounds>>

Restart ==
  /\ ~Up /\ lives < MaxLives /\ lives' = lives + 1
  /\ system' \in Systems
  /\ UNCHANGED <<time, stored, hook, serving, monitor, linking, shown, content, history, breaks>>

-----------------------------------------------------------------------------
(* A client's stream.                                                      *)

\* The program starts; bootstrapContent loads the metadata of the server's system.
Open(c) ==
  /\ Up /\ link[c] = "off"
  /\ link' = [link EXCEPT ![c] = "connecting"]
  /\ meta' = [meta EXCEPT ![c] = system]
  /\ UNCHANGED <<world, serving, monitor, backoff, wait, shown, nudged, cool, fetching,
                 history, bounds>>

\* StreamSnapshot: the handler adds a channel of its own.
Connect(c) ==
  /\ Up /\ link[c] = "connecting"
  /\ link' = [link EXCEPT ![c] = "streaming"]
  /\ channel' = [channel EXCEPT ![c] = << >>]
  /\ away' = [away EXCEPT ![c] = Grace]
  /\ UNCHANGED <<world, cloning, dead, monitor, backoff, wait, shown, content, polled, bounds>>

\* Mutant: a client whose backoff has reached the maximum gives up.
UntilTheMaximum(c) == IF backoff[c] = MaxBackoff THEN "over" ELSE "waiting"
AfterFailure(c) == "waiting"

\* doStream has failed: the client waits, twice as long the next time.
BackOff(c) ==
  /\ link' = [link EXCEPT ![c] = AfterFailure(c)]
  /\ wait' = [wait EXCEPT ![c] = backoff[c]]
  /\ backoff' = [backoff EXCEPT ![c] = Min({2 * @, MaxBackoff})]

ConnectFails(c) ==
  /\ ~Up /\ link[c] = "connecting"
  /\ BackOff(c)
  /\ UNCHANGED <<world, serving, monitor, shown, content, history, bounds>>

\* The connection breaks and the client finds out.
Break(c) ==
  /\ c \in Attached /\ breaks < MaxBreaks /\ breaks' = breaks + 1
  /\ BackOff(c)
  /\ channel' = [channel EXCEPT ![c] = None] /\ dead' = dead + 1
  /\ away' = IF c \in polled THEN [away EXCEPT ![c] = 0] ELSE away
  /\ polled' = polled \ {c}
  /\ UNCHANGED <<world, cloning, monitor, shown, content, lives>>

\* The client finds out that its server has ended.
LoseServer(c) ==
  /\ link[c] = "streaming" /\ c \notin Attached
  /\ BackOff(c)
  /\ UNCHANGED <<world, serving, monitor, shown, content, history, bounds>>

Retry(c) ==
  /\ link[c] = "waiting" /\ wait[c] = 0
  /\ link' = [link EXCEPT ![c] = "connecting"]
  /\ UNCHANGED <<world, serving, monitor, backoff, wait, shown, content, history, bounds>>

\* The client's program ends, and leaves nothing behind.
Leave(c) ==
  /\ link[c] \notin {"off", "gone"}
  /\ link' = [link EXCEPT ![c] = "gone"]
  /\ backoff' = [backoff EXCEPT ![c] = 1] /\ wait' = [wait EXCEPT ![c] = 0]
  /\ channel' = [channel EXCEPT ![c] = None]
  /\ dead' = IF c \in Attached THEN dead + 1 ELSE dead
  /\ shown' = [shown EXCEPT ![c] = Nothing]
  /\ meta' = [meta EXCEPT ![c] = None] /\ nudged' = nudged \ {c}
  /\ cool' = [cool EXCEPT ![c] = 0] /\ fetching' = fetching \ {c}
  /\ polled' = polled \ {c} /\ away' = [away EXCEPT ![c] = Grace]
  /\ UNCHANGED <<world, cloning, monitor, bounds>>

\* Mutant: the metadata are compared with the bodies, not the bodies with the metadata.
LacksNone(c) == <<system, meta[c]>> \notin Described
\* Some body of the system is not described by the client's metadata.
Lacks(c) == <<meta[c], system>> \notin Described

\* A snapshot goes through the stream to the client, which looks up the metadata of its
\* bodies as it is stored.
Deliver(c) ==
  /\ c \in Attached /\ channel[c] # << >>
  /\ shown' = [shown EXCEPT ![c] = Head(channel[c])]
  /\ channel' = [channel EXCEPT ![c] = Tail(@)]
  /\ nudged' = IF Lacks(c) THEN nudged \union {c} ELSE nudged
  /\ UNCHANGED <<world, cloning, dead, monitor, linking, meta, cool, fetching, history, bounds>>

-----------------------------------------------------------------------------
(* watchForContentChange.                                                  *)

\* A nudge is taken: too early, it is forgotten; else the bundle's identity is asked for.
Check(c) ==
  /\ c \in nudged \ fetching /\ nudged' = nudged \ {c}
  /\ IF cool[c] > 0
     THEN UNCHANGED <<cool, fetching>>
     ELSE /\ cool' = [cool EXCEPT ![c] = Interval]
          /\ fetching' = IF Up /\ system # meta[c] THEN fetching \union {c} ELSE fetching
  /\ UNCHANGED <<world, serving, monitor, linking, shown, meta, history, bounds>>

\* The bundle there is by now is loaded; without a server nothing changes.
Fetch(c) ==
  /\ c \in fetching /\ fetching' = fetching \ {c}
  /\ meta' = IF Up THEN [meta EXCEPT ![c] = system] ELSE meta
  /\ UNCHANGED <<world, serving, monitor, linking, shown, nudged, cool, history, bounds>>

-----------------------------------------------------------------------------
(* A period goes by.                                                       *)

\* Mutant: emptySince is not reset when a client is back.
StillEmpty == empty
SomebodyIsHere == None

\* watchIdle's poll.
Poll ==
  \/ stopping /\ UNCHANGED monitor
  \/ /\ ~stopping /\ StreamCount > 0
     /\ armed' = TRUE /\ empty' = SomebodyIsHere /\ UNCHANGED stopping
  \/ ~stopping /\ StreamCount = 0 /\ ~armed /\ UNCHANGED monitor
  \/ /\ ~stopping /\ StreamCount = 0 /\ armed
     /\ empty' = IF empty = None THEN 0 ELSE empty + 1
     /\ stopping' = (empty' >= Grace)
     /\ UNCHANGED armed

Period ==
  /\ IF Up THEN Poll ELSE UNCHANGED monitor
  /\ wait' = [c \in Clients |-> Max({wait[c] - 1, 0})]
  /\ cool' = [c \in Clients |-> Max({cool[c] - 1, 0})]
  /\ polled' = Attached
  /\ away' = [c \in Clients |-> Min({away[c] + 1, Grace})]
  /\ UNCHANGED <<world, serving, link, backoff, shown, meta, nudged, fetching, bounds>>

ServerStep == Tick \/ Hook \/ Push \/ Clone \/ Notice \/ Command \/ Exit \/ Restart

Streaming(c) ==
  \/ Open(c) \/ Connect(c) \/ ConnectFails(c) \/ Break(c) \/ LoseServer(c) \/ Retry(c)
  \/ Leave(c) \/ Deliver(c)

Watching(c) == Check(c) \/ Fetch(c)

Next ==
  \/ ServerStep
  \/ \E c \in Clients : Streaming(c) \/ Watching(c)
  \/ Period

\* Goroutines that can run do, and time goes on; nobody has to open or close a client,
\* to break a connection or to start a server.
Fairness ==
  /\ WF_vars(Period) /\ WF_vars(Push \/ Clone)
  /\ \A c \in Clients :
       /\ WF_vars(Connect(c) \/ ConnectFails(c) \/ LoseServer(c) \/ Retry(c) \/ Deliver(c))
       /\ WF_vars(Watching(c))

Spec == Init /\ [][Next]_vars /\ Fairness

-----------------------------------------------------------------------------
(* Properties.                                                             *)

\* What a client gets from one server never goes back in time, however its stream broke
\* and came back and whatever the channel dropped: the store only moves on and one
\* goroutine empties it.  (A clone, taken while nothing was stored, may be ahead of a
\* snapshot whose hook was overtaken meanwhile.)
FramesForward ==
  [][\A c \in Clients :
       (Up /\ system' # None /\ link'[c] # "gone" /\ ~shown[c].clone)
       => shown'[c].time >= shown[c].time]_vars

\* watchIdle does not take a client for gone that lost its stream less than the grace
\* period ago, however many were there before and however often it was away before.
\* (watchIdle knows a stream only if it was there at a poll.)
AwayIsNotGone ==
  [][(Period /\ ~stopping /\ stopping') =>
       \A c \in Clients : link[c] \in {"waiting", "connecting"} => away'[c] >= Grace]_vars

\* A client whose stream failed or could not be opened gets one again, unless there is
\* no server: whatever it has waited for before, it has not given up.
Reconnects ==
  \A c \in Clients :
    (link[c] \notin {"off", "gone", "streaming"} /\ Up)
    ~> (link[c] \in {"gone", "streaming"} \/ ~Up)

\* A client whose metadata do not describe the system it is shown, its server having been
\* started again with another, gets the ones that do, unless its stream fails first:
\* the checks that the interval suppresses are made up for.
MetadataCatchesUp ==
  \A c \in Clients :
    (c \in Attached /\ <<meta[c], system>> \notin Described)
    ~> (c \notin Attached \/ <<meta[c], system>> \in Described)
=============================================================================
