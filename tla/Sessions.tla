------------------------------ MODULE Sessions ------------------------------
(***************************************************************************)
(* The session registry (server/session) and the session service that      *)
(* calls it (transport/grpc/session_handler.go).                           *)
(*                                                                         *)
(* A registry operation changes the sessions under the registry's mutex    *)
(* and tells the subscribers after it has let go of it: a copy of their    *)
(* list, then a non-blocking send to each.  SessionStream subscribes, then *)
(* sends every session as an addition, then the events of its channel.     *)
(*                                                                         *)
(* Colours are palette indices (the 100 colours differ).  Position and     *)
(* point of view are one value; velocities, which nobody is told, and the  *)
(* audit log, which is written when a call is done, are left out.          *)
(***************************************************************************)
EXTENDS Integers, Sequences, FiniteSets, FiniteSetsExt, SequencesExt

CONSTANTS
  Callers,      \* goroutines of RPCs, the receiving halves of streams among them
  Followers,    \* SessionStream calls
  Ids,          \* bound: the session ids there will be
  Admins,       \* ids that are registered with the admin secret
  MaxSessions,
  Palette,      \* number of colours (100), walked in steps of
  Stride,       \* colorStride (38): like 100 and 38, the two may have a common factor
  Buffer,       \* of a subscriber's channel (64)
  Places,       \* positions and points of view
  None

ASSUME IdsAssumption == Admins \subseteq Ids /\ None \notin Ids
ASSUME PaletteAssumption ==
  Palette \in Nat \ {0} /\ MaxSessions \in 1 .. Palette /\ Stride \in Nat
ASSUME BufferAssumption == Buffer \in Nat \ {0}
ASSUME PlacesAssumption == 0 \in Places /\ None \notin Places
ASSUME NoneAssumption ==
  /\ None \notin [color : 0 .. Palette - 1, place : Places]
  /\ None \notin [type : {"add", "update", "remove"}, id : Ids, place : Places \union {None}]

VARIABLES
  sessions,   \* id -> its session, or None
  colors,     \* the palette indices in use
  subs,       \* the subscribers' channels, in order
  channel,    \* follower -> the events in its channel
  closed,     \* followers whose channel is closed
  call,       \* caller -> the call it is in
  stream,     \* follower -> where its SessionStream is
  \* history
  view,       \* follower -> the sessions and places it has been told
  missed,     \* followers that an event has not reached
  tangled,    \* ids that two calls have been announcing at once
  used,       \* ids given to sessions so far
  crowded     \* whether there were once more sessions than the walk visits colours

registry == <<sessions, colors>>
vars     == <<registry, subs, channel, closed, call, stream,
              view, missed, tangled, used, crowded>>

Colors == 0 .. Palette - 1
Idle == [at |-> "idle", id |-> None, event |-> None, left |-> << >>]
Live == {id \in Ids : sessions[id] # None}
Nobody == [id \in Ids |-> None]

Init ==
  /\ sessions = Nobody /\ colors = {}
  /\ subs = << >> /\ channel = [f \in Followers |-> << >>] /\ closed = {}
  /\ call = [c \in Callers |-> Idle] /\ stream = [f \in Followers |-> "new"]
  /\ view = [f \in Followers |-> Nobody]
  /\ missed = {} /\ tangled = {} /\ used = {} /\ crowded = FALSE

-----------------------------------------------------------------------------
(* The registry's operations, each up to the release of its mutex.         *)

Walk(k) == (k * Stride) % Palette
Visited == {Walk(k) : k \in Colors}

\* The first free colour along the walk, which need not visit every colour; 0 when it
\* finds none.
AllocColor ==
  LET free == {k \in Colors : Walk(k) \notin colors}
  IN  IF free = {} THEN 0 ELSE Walk(Min(free))

\* Mutant: the session leaves and its colour stays taken.
KeepColor(id) == colors
FreeColor(id) == colors \ {sessions[id].color}

\* Mutant: the copy is made before the place is stored.
AnnounceOld(id, place) == [type |-> "update", id |-> id, place |-> sessions[id].place]
Announced(id, place) == [type |-> "update", id |-> id, place |-> place]

\* Calls that have changed the session id and are not done with telling so.
Announcing(id) == {c \in Callers : call[c].event # None /\ call[c].event.id = id}

\* Caller c goes on to tell the subscribers of e.
Notify(c, e) ==
  /\ call' = [call EXCEPT ![c].at = "copy", ![c].id = e.id, ![c].event = e]
  /\ tangled' = IF Announcing(e.id) \ {c} = {} THEN tangled ELSE tangled \union {e.id}

Return(c) == call' = [call EXCEPT ![c] = Idle]

Register(c) ==
  /\ call[c].at = "idle"
  /\ Cardinality(Live) < MaxSessions
  /\ \E id \in Ids \ used :
       /\ sessions' = [sessions EXCEPT ![id] = [color |-> AllocColor, place |-> 0]]
       /\ colors' = colors \union {AllocColor}
       /\ used' = used \union {id}
       /\ crowded' = (crowded \/ Cardinality(Live) >= Cardinality(Visited))
       /\ Notify(c, [type |-> "add", id |-> id, place |-> 0])
  /\ UNCHANGED <<subs, channel, closed, stream, view, missed>>

\* Unregister removes a session that is there, whoever asks for it.
TakeOut(c, id) ==
  /\ sessions' = [sessions EXCEPT ![id] = None]
  /\ colors' = FreeColor(id)
  /\ Notify(c, [type |-> "remove", id |-> id, place |-> None])

Unregister(c) ==
  /\ call[c].at = "idle"
  /\ \E id \in Live : TakeOut(c, id)
  /\ UNCHANGED <<subs, channel, closed, stream, view, missed, used, crowded>>

Store(c, id, place) ==
  /\ sessions' = [sessions EXCEPT ![id].place = place]
  /\ Notify(c, Announced(id, place))
  /\ UNCHANGED colors

\* UpdatePosition and UpdatePOV.
Update(c) ==
  /\ call[c].at = "idle"
  /\ \E id \in Live, place \in Places : Store(c, id, place)
  /\ UNCHANGED <<subs, channel, closed, stream, view, missed, used, crowded>>

\* requireAdmin finds the caller's admin session; what happens to that session after
\* the check makes no difference to the call.
CheckAdmin(c) ==
  /\ call[c].at = "idle"
  /\ Live \intersect Admins # {}
  /\ \E id \in used : call' = [call EXCEPT ![c] = [Idle EXCEPT !.at = "checked", !.id = id]]
  /\ UNCHANGED <<registry, subs, channel, closed, stream, view, missed, tangled, used, crowded>>

\* KickClient; a target that is not there counts as kicked.
Kick(c) ==
  LET id == call[c].id IN
  /\ call[c].at = "checked"
  /\ IF id \in Live THEN TakeOut(c, id)
     ELSE Return(c) /\ UNCHANGED <<registry, tangled>>
  /\ UNCHANGED <<subs, channel, closed, stream, view, missed, used, crowded>>

\* TeleportClient; a target that is not there is an error.
Teleport(c) ==
  LET id == call[c].id IN
  /\ call[c].at = "checked"
  /\ IF id \in Live THEN \E place \in Places : Store(c, id, place)
     ELSE Return(c) /\ UNCHANGED <<registry, tangled>>
  /\ UNCHANGED <<subs, channel, closed, stream, view, missed, used, crowded>>

-----------------------------------------------------------------------------
(* notify, after the registry's mutex has been released.                   *)

\* Where a call goes on when every subscriber has been told.
Told(c, left) ==
  IF left = << >> THEN Idle ELSE [call[c] EXCEPT !.at = "send", !.left = left]

CopySubs(c) ==
  /\ call[c].at = "copy"
  /\ call' = [call EXCEPT ![c] = Told(c, subs)]
  /\ UNCHANGED <<registry, subs, channel, closed, stream, view, missed, tangled, used, crowded>>

HasRoom(f) == Len(channel[f]) < Buffer

\* A full channel loses the event.  A closed one panics: the RPC ends there, the
\* others on the list are not told.  (That is so in the goroutine of an RPC's handler.
\* In the goroutine with which ClientStream and ShipStream receive, the panic ends the
\* server, and nothing comes after it.)
Send(c) ==
  LET f == Head(call[c].left) IN
  /\ call[c].at = "send"
  /\ IF f \in closed
     THEN /\ Return(c)
          /\ missed' = missed \union ToSet(call[c].left)
          /\ UNCHANGED channel
     ELSE /\ call' = [call EXCEPT ![c] = Told(c, Tail(call[c].left))]
          /\ IF HasRoom(f)
             THEN channel' = [channel EXCEPT ![f] = Append(@, call[c].event)] /\ UNCHANGED missed
             ELSE missed' = missed \union {f} /\ UNCHANGED channel
  /\ UNCHANGED <<registry, subs, closed, stream, view, tangled, used, crowded>>

-----------------------------------------------------------------------------
(* SessionStream.                                                          *)

Subscribe(f) ==
  /\ stream[f] = "new"
  /\ subs' = Append(subs, f)
  /\ stream' = [stream EXCEPT ![f] = "subscribed"]
  /\ UNCHANGED <<registry, channel, closed, call, view, missed, tangled, used, crowded>>

\* Every session there is, as an addition.
SendAll(f) ==
  /\ stream[f] = "subscribed"
  /\ view' = [view EXCEPT ![f] = [id \in Ids |-> IF id \in Live THEN sessions[id].place ELSE None]]
  /\ stream' = [stream EXCEPT ![f] = "streaming"]
  /\ UNCHANGED <<registry, subs, channel, closed, call, missed, tangled, used, crowded>>

\* One event goes from the channel to the client.
Deliver(f) ==
  /\ stream[f] = "streaming" /\ channel[f] # << >>
  /\ view' = [view EXCEPT ![f][Head(channel[f]).id] = Head(channel[f]).place]
  /\ channel' = [channel EXCEPT ![f] = Tail(@)]
  /\ UNCHANGED <<registry, subs, closed, call, stream, missed, tangled, used, crowded>>

\* The stream has ended: cancel takes the channel off the list, where it is once, then
\* closes it.
Cancel(f) ==
  /\ stream[f] \in {"subscribed", "streaming"}
  /\ \E i \in DOMAIN subs : subs[i] = f /\ subs' = RemoveAt(subs, i)
  /\ stream' = [stream EXCEPT ![f] = "leaving"]
  /\ UNCHANGED <<registry, channel, closed, call, view, missed, tangled, used, crowded>>

Close(f) ==
  /\ stream[f] = "leaving"
  /\ closed' = closed \union {f}
  /\ stream' = [stream EXCEPT ![f] = "gone"]
  /\ UNCHANGED <<registry, subs, channel, call, view, missed, tangled, used, crowded>>

-----------------------------------------------------------------------------
CallStep(c) ==
  \/ Register(c) \/ Unregister(c) \/ Update(c) \/ CheckAdmin(c) \/ Kick(c) \/ Teleport(c)
  \/ CopySubs(c) \/ Send(c)

StreamStep(f) == Subscribe(f) \/ SendAll(f) \/ Deliver(f) \/ Cancel(f) \/ Close(f)

Next ==
  \/ \E c \in Callers : CallStep(c)
  \/ \E f \in Followers : StreamStep(f)

Spec == Init /\ [][Next]_vars

-----------------------------------------------------------------------------
(* Properties.                                                             *)

\* The colours of the sessions there are, and the one that may be on several of them.
Shown    == {sessions[id].color : id \in Live}
Excepted == IF crowded THEN {0} ELSE {}

\* The palette bits are the colours of the sessions there are, and no two of these are
\* alike, in whatever order they came and went.  Colour 0 is the one exception, from the
\* time on that there have been more sessions than the walk visits colours: then several
\* sessions may have it, and its bit be free while they do; that is not put right when
\* the crowd has left.  No bit stays taken by a session that is gone, ever.
ColoursAgree ==
  /\ colors \subseteq Shown /\ Shown \ colors \subseteq Excepted
  /\ \A i, j \in Live :
       sessions[i].color = sessions[j].color => i = j \/ sessions[i].color \in Excepted

\* What registry.go says: the walk separates the colours of any number of clients, as
\* long as there are no more than colours in the palette.
NoTwoAlike == \A i, j \in Live : i # j => sessions[i].color # sessions[j].color

\* A follower whose channel is empty while no call is telling anything has been told
\* exactly the sessions there are, and where they are, unless an event was dropped or
\* two calls announced changes of one session at once.  (Then an update may arrive after
\* the removal, and the session never leaves the follower's view.)
FollowerAgrees ==
  \A f \in Followers :
    (/\ stream[f] = "streaming" /\ channel[f] = << >> /\ f \notin missed
     /\ \A c \in Callers : call[c].event = None)
    => \A id \in Ids \ tangled :
         view[f][id] = IF id \in Live THEN sessions[id].place ELSE None
=============================================================================
