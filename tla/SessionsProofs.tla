---------------------------- MODULE SessionsProofs ----------------------------
(***************************************************************************)
(* Theorems about Sessions, for any number of callers, followers and       *)
(* sessions, any palette and any stride: the palette's bits agree with the *)
(* sessions, no two of which share a colour, but for colour 0 once there   *)
(* have been more sessions than the walk visits colours; and a follower is *)
(* told what sessions there are, or misses an event, or two calls have     *)
(* been announcing one session at once.                                    *)
(***************************************************************************)
EXTENDS Sessions, SequenceTheorems, FiniteSetTheorems, WellFoundedInduction, TLAPS

-----------------------------------------------------------------------------
(* Facts about numbers and finite sets.                                    *)

\* A set of natural numbers has a least element.
LEMMA Least ==
  ASSUME NEW S \in SUBSET Nat, S # {}
  PROVE  \E x \in S : \A y \in S : x <= y
<1>1. \A x, y \in Nat : x < y => <<x, y>> \in OpToRel(<, Nat)
  BY DEF OpToRel
<1>2. \E R : IsWellFoundedOn(R, Nat) /\ \A x, y \in Nat : x < y => <<x, y>> \in R
  BY <1>1, NatLessThanWellFounded, Zenon
<1>3. ASSUME NEW R, IsWellFoundedOn(R, Nat), \A x, y \in Nat : x < y => <<x, y>> \in R
      PROVE  \E x \in S : \A y \in S : x <= y
  <2>1. S \subseteq Nat /\ S # {}
    OBVIOUS
  <2>2. \A A, Q, T : (IsWellFoundedOn(Q, A) /\ T \subseteq A /\ T # {})
                     => \E x \in T : \A y \in T : ~ (<<y, x>> \in Q)
    <3> SUFFICES ASSUME NEW A, NEW Q, NEW T, IsWellFoundedOn(Q, A), T \subseteq A, T # {}
                 PROVE  \E x \in T : \A y \in T : ~ (<<y, x>> \in Q)
      BY Zenon
    <3> QED  BY WFMin
  <2>3. (IsWellFoundedOn(R, Nat) /\ S \subseteq Nat /\ S # {})
        => \E x \in S : \A y \in S : ~ (<<y, x>> \in R)
    BY <2>2, Zenon
  <2>4. PICK x \in S : \A y \in S : ~ (<<y, x>> \in R)
    BY <1>3, <2>1, <2>3
  <2>5. \A y \in S : ~ (y < x)
    BY <1>3, <2>4, Zenon
  <2> QED  BY <2>5
<1> QED  BY <1>2, <1>3, Zenon

\* Min of a set of natural numbers is one of them.
LEMMA MinIsIn ==
  ASSUME NEW S \in SUBSET Nat, S # {}
  PROVE  Min(S) \in S
BY Least DEF Min

LEMMA ColorsFinite == IsFiniteSet(Colors) /\ Colors \subseteq Nat /\ 0 \in Colors
BY FS_Interval, PaletteAssumption DEF Colors

LEMMA WalkStays == \A k \in Colors : Walk(k) \in Colors
<1> SUFFICES ASSUME NEW k \in Colors PROVE Walk(k) \in Colors
  OBVIOUS
<1>1. k * Stride \in Nat /\ Palette \in Nat \ {0}
  BY PaletteAssumption DEF Colors
<1> QED  BY <1>1 DEF Walk, Colors

-----------------------------------------------------------------------------
(* The inductive invariant.                                                *)

Session == [color : Colors, place : Places]

\* Until there is a crowd, the bits and the sessions are as many.
CInv ==
  /\ sessions \in [Ids -> Session \union {None}]
  /\ ColoursAgree
  /\ crowded \in BOOLEAN
  /\ IsFiniteSet(Live)
  /\ ~ crowded => Cardinality(colors) = Cardinality(Live)
  /\ Live \subseteq used

LEMMA ColorsInUse == CInv => colors \subseteq Colors /\ IsFiniteSet(colors)
<1> SUFFICES ASSUME CInv PROVE colors \subseteq Colors /\ IsFiniteSet(colors)
  OBVIOUS
<1>1. \A id \in Live : sessions[id] \in Session
  BY DEF CInv, Live
<1>2. colors \subseteq Colors
  BY <1>1 DEF CInv, ColoursAgree, Shown, Session
<1> QED  BY <1>2, ColorsFinite, FS_Subset

\* What AllocColor gives is free, or it is colour 0.
LEMMA AllocIsColor == AllocColor \in Colors /\ (AllocColor \in colors => AllocColor = 0)
<1> DEFINE free == {k \in Colors : Walk(k) \notin colors}
<1>1. CASE free = {}
  BY <1>1, ColorsFinite DEF AllocColor
<1>2. CASE free # {}
  <2>1. Min(free) \in free
    BY <1>2, ColorsFinite, MinIsIn
  <2>2. AllocColor = Walk(Min(free))
    BY <1>2 DEF AllocColor
  <2> QED  BY <2>1, <2>2, WalkStays
<1> QED  BY <1>1, <1>2

\* With fewer sessions than the walk visits colours, it comes to a free one.
LEMMA AllocIsFree ==
  ASSUME CInv, ~ crowded, Cardinality(Live) < Cardinality(Visited)
  PROVE  AllocColor \in Colors \ colors
<1> DEFINE free == {k \in Colors : Walk(k) \notin colors}
<1>1. colors \subseteq Colors /\ IsFiniteSet(colors)
  BY ColorsInUse
<1>2. Cardinality(colors) \in Nat /\ Cardinality(colors) < Cardinality(Visited)
  BY <1>1, FS_CardinalityType DEF CInv
<1>3. Visited \subseteq Colors /\ IsFiniteSet(Visited) /\ Cardinality(Visited) \in Nat
  <2>1. Visited \subseteq Colors
    BY WalkStays DEF Visited
  <2> QED  BY <2>1, ColorsFinite, FS_Subset, FS_CardinalityType
<1>4. ~ (Visited \subseteq colors)
  <2> SUFFICES ASSUME Visited \subseteq colors PROVE FALSE
    OBVIOUS
  <2>1. Cardinality(Visited) <= Cardinality(colors)
    BY <1>1, FS_Subset
  <2> QED  BY <2>1, <1>2, <1>3
<1>5. free # {} /\ free \subseteq Nat
  BY <1>4, ColorsFinite DEF Visited
<1>6. Min(free) \in free
  BY <1>5, MinIsIn
<1>7. AllocColor = Walk(Min(free))
  BY <1>5 DEF AllocColor
<1> QED  BY <1>6, <1>7, WalkStays

-----------------------------------------------------------------------------
(* It is inductive.                                                        *)

LEMMA CStarts == Init => CInv
<1> SUFFICES ASSUME Init PROVE CInv
  OBVIOUS
<1>1. Live = {} /\ colors = {} /\ crowded = FALSE
  BY DEF Init, Live, Nobody
<1>2. Shown = {}
  BY <1>1 DEF Shown
<1>3. ColoursAgree
  BY <1>1, <1>2 DEF ColoursAgree
<1> QED  BY <1>1, <1>3, FS_EmptySet DEF CInv, Init, Nobody

LEMMA RegisterKeeps ==
  ASSUME CInv, NEW c \in Callers, Register(c)
  PROVE  CInv'
<1> DEFINE col == AllocColor
<1>1. col \in Colors /\ (col \in colors => col = 0)
  BY AllocIsColor
<1>2. ~ crowded' => ~ crowded /\ col \notin colors
  <2> SUFFICES ASSUME ~ crowded' PROVE ~ crowded /\ col \notin colors
    OBVIOUS
  <2>1. ~ crowded /\ ~ (Cardinality(Live) >= Cardinality(Visited))
    BY DEF Register
  <2>2. Cardinality(Live) \in Nat /\ Cardinality(Visited) \in Nat
    <3>1. Visited \subseteq Colors
      BY WalkStays DEF Visited
    <3> QED  BY <3>1, ColorsFinite, FS_Subset, FS_CardinalityType DEF CInv
  <2> QED  BY <2>1, <2>2, AllocIsFree
<1> HIDE DEF col
<1>3. PICK id \in Ids \ used :
        /\ sessions' = [sessions EXCEPT ![id] = [color |-> col, place |-> 0]]
        /\ colors' = colors \union {col}
  BY DEF Register, col
<1>4. id \notin Live /\ Live' = Live \union {id} /\ used' = used \union {id}
  <2>1. [color |-> col, place |-> 0] # None
    BY <1>1, NoneAssumption, PlacesAssumption DEF Colors
  <2> QED  BY <1>3, <2>1 DEF CInv, Live, Register
<1>5. sessions'[id].color = col /\ \A i \in Live : sessions'[i] = sessions[i]
  BY <1>3, <1>4 DEF CInv, Live
<1>6. sessions' \in [Ids -> Session \union {None}]
  BY <1>1, <1>3, PlacesAssumption DEF CInv, Session
<1>7. crowded' \in BOOLEAN /\ (crowded => crowded')
  BY DEF Register, CInv
<1>8. Shown' = Shown \union {col}
  BY <1>4, <1>5 DEF Shown
<1>9. Excepted \subseteq Excepted' /\ (col \in colors => col \in Excepted')
  BY <1>1, <1>2, <1>7 DEF Excepted
<1>10. ColoursAgree'
  <2>1. colors' \subseteq Shown' /\ (Shown \ colors)' \subseteq Excepted'
    BY <1>3, <1>8, <1>9 DEF CInv, ColoursAgree
  <2>2. ASSUME NEW i \in Live', NEW j \in Live', sessions'[i].color = sessions'[j].color
        PROVE  i = j \/ sessions'[i].color \in Excepted'
    <3>1. CASE i \in Live /\ j \in Live
      BY <2>2, <3>1, <1>5, <1>9 DEF CInv, ColoursAgree
    <3>2. CASE i # j /\ (i = id \/ j = id)
      <4>1. col \in Shown
        BY <2>2, <3>2, <1>4, <1>5 DEF Shown
      <4>2. col \in Excepted'
        BY <4>1, <1>9 DEF CInv, ColoursAgree
      <4> QED  BY <4>2, <2>2, <3>2, <1>5
    <3> QED  BY <3>1, <3>2, <1>4
  <2> QED  BY <2>1, <2>2 DEF ColoursAgree
<1>11. IsFiniteSet(Live') /\ Cardinality(Live') = Cardinality(Live) + 1
  BY <1>4, FS_AddElement DEF CInv
<1>12. ~ crowded' => Cardinality(colors') = Cardinality(colors) + 1
  BY <1>2, <1>3, ColorsInUse, FS_AddElement
<1> QED  BY <1>2, <1>4, <1>6, <1>7, <1>10, <1>11, <1>12 DEF CInv

LEMMA RemovalKeeps ==
  ASSUME CInv, NEW c \in Callers, NEW id \in Live, TakeOut(c, id), UNCHANGED <<used, crowded>>
  PROVE  CInv'
<1> DEFINE col == sessions[id].color
<1>1. id \in Ids /\ sessions[id] \in Session
  BY DEF CInv, Live
<1>2. sessions' = [sessions EXCEPT ![id] = None] /\ colors' = colors \ {col}
  BY DEF TakeOut, FreeColor
<1>3. Live' = Live \ {id} /\ \A i \in Live' : sessions'[i] = sessions[i]
  BY <1>1, <1>2 DEF CInv, Live
<1>4. sessions' \in [Ids -> Session \union {None}]
  BY <1>2 DEF CInv
<1>5. Shown' \subseteq Shown /\ Shown \ {col} \subseteq Shown' /\ Excepted' = Excepted
  BY <1>3 DEF Shown, Excepted
<1>6. col \in Shown' => col \in Excepted
  <2> SUFFICES ASSUME col \in Shown' PROVE col \in Excepted
    OBVIOUS
  <2>1. PICK i \in Live' : sessions'[i].color = col
    BY DEF Shown
  <2>2. i \in Live /\ i # id /\ sessions[i].color = col
    BY <1>3, <2>1
  <2> QED  BY <2>2 DEF CInv, ColoursAgree
<1>7. ColoursAgree'
  <2>1. colors' \subseteq Shown' /\ (Shown \ colors)' \subseteq Excepted'
    BY <1>2, <1>5, <1>6 DEF CInv, ColoursAgree
  <2>2. \A i, j \in Live' : sessions'[i].color = sessions'[j].color =>
          i = j \/ sessions'[i].color \in Excepted'
    BY <1>3, <1>5 DEF CInv, ColoursAgree
  <2> QED  BY <2>1, <2>2 DEF ColoursAgree
<1>8. IsFiniteSet(Live') /\ Cardinality(Live') = Cardinality(Live) - 1
  BY <1>3, FS_RemoveElement DEF CInv
<1>9. ~ crowded => Cardinality(colors') = Cardinality(colors) - 1
  <2> SUFFICES ASSUME ~ crowded PROVE Cardinality(colors') = Cardinality(colors) - 1
    OBVIOUS
  <2>1. col \in colors
    BY DEF CInv, ColoursAgree, Shown, Excepted
  <2> QED  BY <1>2, <2>1, ColorsInUse, FS_RemoveElement
<1> QED  BY <1>3, <1>4, <1>7, <1>8, <1>9 DEF CInv

LEMMA UpdateKeeps ==
  ASSUME CInv, NEW c \in Callers, NEW id \in Live, NEW place \in Places,
         Store(c, id, place), UNCHANGED <<used, crowded>>
  PROVE  CInv'
<1>1. id \in Ids /\ sessions[id] \in Session
  BY DEF CInv, Live
<1>2. sessions' = [sessions EXCEPT ![id].place = place] /\ colors' = colors
  BY DEF Store
<1>3. /\ sessions'[id] \in Session /\ sessions'[id].color = sessions[id].color
      /\ \A i \in Ids \ {id} : sessions'[i] = sessions[i]
  BY <1>1, <1>2 DEF CInv, Session
<1>4. Live' = Live
  <2>1. sessions'[id] # None
    BY <1>3, NoneAssumption DEF Session, Colors
  <2> QED  BY <1>1, <1>3, <2>1 DEF Live
<1>5. sessions' \in [Ids -> Session \union {None}]
  BY <1>1, <1>2, <1>3 DEF CInv
<1>6. \A i \in Live : sessions'[i].color = sessions[i].color
  BY <1>3 DEF Live
<1>7. Shown' = Shown /\ Excepted' = Excepted
  BY <1>4, <1>6 DEF Shown, Excepted
<1>8. ColoursAgree'
  BY <1>2, <1>4, <1>6, <1>7 DEF CInv, ColoursAgree
<1> QED  BY <1>2, <1>4, <1>5, <1>8 DEF CInv

LEMMA CKept == CInv /\ [Next]_vars => CInv'
<1> SUFFICES ASSUME CInv, [Next]_vars PROVE CInv'
  OBVIOUS
<1>1. CASE UNCHANGED <<registry, used, crowded>>
  BY <1>1 DEF CInv, ColoursAgree, Shown, Excepted, Live, registry
<1>2. ASSUME NEW c \in Callers, CallStep(c) PROVE CInv'
  <2>1. CASE Register(c)
    BY <2>1, RegisterKeeps
  <2>2. CASE Unregister(c)
    BY <2>2, RemovalKeeps DEF Unregister
  <2>3. CASE Update(c)
    BY <2>3, UpdateKeeps DEF Update
  <2>4. CASE Kick(c)
    BY <2>4, <1>1, RemovalKeeps DEF Kick
  <2>5. CASE Teleport(c)
    BY <2>5, <1>1, UpdateKeeps DEF Teleport
  <2>6. CASE CheckAdmin(c) \/ CopySubs(c) \/ Send(c)
    BY <2>6, <1>1 DEF CheckAdmin, CopySubs, Send
  <2> QED  BY <1>2, <2>1, <2>2, <2>3, <2>4, <2>5, <2>6 DEF CallStep
<1>3. ASSUME NEW f \in Followers, StreamStep(f) PROVE CInv'
  BY <1>1, <1>3 DEF StreamStep, Subscribe, SendAll, Deliver, Cancel, Close
<1> QED  BY <1>1, <1>2, <1>3 DEF Next, vars

\* For every palette, stride and limit, and in whatever order sessions come and go: no
\* bit of the palette stays taken, and no two sessions have the same colour, unless it is
\* colour 0 and there have been more sessions than the walk visits colours.
THEOREM ColoursClashOnlyAtZero == Spec => []ColoursAgree
<1>1. Init => CInv
  BY CStarts
<1>2. CInv /\ [Next]_vars => CInv'
  BY CKept
<1>3. CInv => ColoursAgree
  BY DEF CInv
<1> QED  BY <1>1, <1>2, <1>3, PTL DEF Spec

-----------------------------------------------------------------------------
(* What followers are told.                                                *)

Event == [type : {"add", "update", "remove"}, id : Ids, place : Places \union {None}]
Call  == [at : {"idle", "checked", "copy", "send"}, id : Ids \union {None},
          event : Event \union {None}, left : Seq(Followers)]

\* Where a session is, None for one that is not.
Place(id) == IF id \in Live THEN sessions[id].place ELSE None

Listed(f) == stream[f] \in {"subscribed", "streaming"}

Typed ==
  /\ sessions \in [Ids -> Session \union {None}]
  /\ used \subseteq Ids
  /\ call \in [Callers -> Call]
  /\ subs \in Seq(Followers)
  /\ channel \in [Followers -> Seq(Event)]
  /\ view \in [Followers -> [Ids -> Places \union {None}]]
  /\ stream \in [Followers -> {"new", "subscribed", "streaming", "leaving", "gone"}]

CallsAgree ==
  \A c \in Callers :
    /\ call[c].event = None <=> call[c].at \in {"idle", "checked"}
    /\ call[c].left = << >> <=> call[c].at # "send"

OneTells == \A id \in Ids \ tangled : \A c, d \in Announcing(id) : c = d

TellsWhatIs ==
  \A id \in Ids \ tangled : \A c \in Announcing(id) : call[c].event.place = Place(id)

ListAgrees ==
  \A f \in Followers :
    /\ Listed(f) => f \in ToSet(subs)
    /\ stream[f] = "new" =>
         channel[f] = << >> /\ f \notin ToSet(subs) /\ \A c \in Callers : f \notin ToSet(call[c].left)

StillToTell(f, id) ==
  \E c \in Announcing(id) : call[c].at = "copy" \/ f \in ToSet(call[c].left)

\* What the events q leave of a session in the view of one who has been told place.
Leaves(q, id, told, place) ==
  /\ \A k \in DOMAIN q :
       q[k].id = id /\ (\A j \in DOMAIN q : j > k => q[j].id # id) => q[k].place = place
  /\ (\A k \in DOMAIN q : q[k].id # id) => told = place

Follows(f, id) ==
  Leaves(channel[f], id, IF stream[f] = "streaming" THEN view[f][id] ELSE Place(id), Place(id))

InStep ==
  \A f \in Followers \ missed : \A id \in Ids \ tangled :
    Listed(f) => StillToTell(f, id) \/ Follows(f, id)

FInv == Typed /\ CallsAgree /\ OneTells /\ TellsWhatIs /\ ListAgrees /\ InStep

-----------------------------------------------------------------------------
(* Facts about the events in a channel.                                    *)

LEMMA LeavesAppend ==
  ASSUME NEW q \in Seq(Event), NEW e \in Event, NEW id, NEW told, NEW place,
         e.id = id \/ Leaves(q, id, told, place), e.id = id => e.place = place
  PROVE  Leaves(Append(q, e), id, told, place)
<1> DEFINE r == Append(q, e)
<1>1. /\ DOMAIN r = 1 .. Len(q) + 1 /\ r[Len(q) + 1] = e
      /\ DOMAIN q = 1 .. Len(q) /\ Len(q) \in Nat
      /\ \A k \in 1 .. Len(q) : r[k] = q[k]
  OBVIOUS
<1> HIDE DEF r
<1>2. ASSUME NEW k \in DOMAIN r, r[k].id = id, \A j \in DOMAIN r : j > k => r[j].id # id
      PROVE  r[k].place = place
  <2>1. CASE k = Len(q) + 1
    BY <1>1, <1>2, <2>1
  <2>2. CASE k # Len(q) + 1
    <3>1. k \in 1 .. Len(q) /\ r[k] = q[k] /\ Len(q) + 1 > k /\ Len(q) + 1 \in DOMAIN r
      BY <1>1, <2>2
    <3>2. e.id # id
      BY <1>1, <1>2, <3>1
    <3>3. \A j \in DOMAIN q : j > k => q[j].id # id
      BY <1>1, <1>2
    <3> QED  BY <1>1, <1>2, <3>1, <3>2, <3>3 DEF Leaves
  <2> QED  BY <2>1, <2>2
<1>3. ASSUME \A k \in DOMAIN r : r[k].id # id PROVE told = place
  <2>1. Len(q) + 1 \in DOMAIN r /\ e.id # id
    BY <1>1, <1>3
  <2>2. \A k \in DOMAIN q : q[k].id # id
    BY <1>1, <1>3
  <2> QED  BY <2>1, <2>2 DEF Leaves
<1>4. Leaves(r, id, told, place)
  BY <1>2, <1>3 DEF Leaves
<1> QED  BY <1>4 DEF r

LEMMA LeavesTail ==
  ASSUME NEW q \in Seq(Event), q # << >>, NEW id, NEW told, NEW place,
         Leaves(q, id, told, place)
  PROVE  Leaves(Tail(q), id, IF Head(q).id = id THEN Head(q).place ELSE told, place)
<1> DEFINE r == Tail(q)
           now == IF q[1].id = id THEN q[1].place ELSE told
<1>1. /\ Head(q) = q[1] /\ 1 \in DOMAIN q
      /\ Len(q) \in Nat /\ DOMAIN q = 1 .. Len(q) /\ DOMAIN r = 1 .. Len(q) - 1
      /\ \A k \in 1 .. Len(q) - 1 : r[k] = q[k + 1]
  OBVIOUS
<1> HIDE DEF r
<1>2. ASSUME NEW k \in DOMAIN r, r[k].id = id, \A j \in DOMAIN r : j > k => r[j].id # id
      PROVE  r[k].place = place
  <2>1. k + 1 \in DOMAIN q /\ r[k] = q[k + 1]
    BY <1>1
  <2>2. \A j \in DOMAIN q : j > k + 1 => q[j].id # id
    <3> SUFFICES ASSUME NEW j \in DOMAIN q, j > k + 1 PROVE q[j].id # id
      OBVIOUS
    <3>1. j - 1 \in DOMAIN r /\ j - 1 > k /\ r[j - 1] = q[j]
      BY <1>1
    <3> QED  BY <1>2, <3>1
  <2> QED  BY <1>2, <2>1, <2>2 DEF Leaves
<1>3. ASSUME \A k \in DOMAIN r : r[k].id # id PROVE now = place
  <2>1. \A j \in DOMAIN q : j > 1 => q[j].id # id
    <3> SUFFICES ASSUME NEW j \in DOMAIN q, j > 1 PROVE q[j].id # id
      OBVIOUS
    <3>1. j - 1 \in DOMAIN r /\ r[j - 1] = q[j]
      BY <1>1
    <3> QED  BY <1>3, <3>1
  <2>2. CASE q[1].id = id
    BY <1>1, <2>1, <2>2 DEF Leaves
  <2>3. CASE q[1].id # id
    <3>1. \A j \in DOMAIN q : q[j].id # id
      BY <1>1, <2>1, <2>3
    <3> QED  BY <2>3, <3>1 DEF Leaves
  <2> QED  BY <2>2, <2>3
<1> HIDE DEF now
<1>4. Leaves(r, id, now, place)
  BY <1>2, <1>3 DEF Leaves
<1>5. now = IF Head(q).id = id THEN Head(q).place ELSE told
  BY <1>1 DEF now
<1> QED  BY <1>4, <1>5 DEF r

LEMMA PlaceKept ==
  ASSUME NEW id \in Ids, sessions'[id] = sessions[id]
  PROVE  Place(id)' = Place(id)
BY DEF Place, Live

LEMMA EventsAreSome == None \notin Event
BY NoneAssumption DEF Event

-----------------------------------------------------------------------------
(* It is inductive.                                                        *)

LEMMA FStarts == Init => FInv
<1> SUFFICES ASSUME Init PROVE FInv
  OBVIOUS
<1> USE DEF Init
<1>1. Typed
  BY DEF Typed, Call, Idle, Nobody
<1>2. CallsAgree /\ (\A id \in Ids : Announcing(id) = {})
  BY DEF CallsAgree, Idle, Announcing
<1>3. ListAgrees
  BY DEF ListAgrees, Listed, Idle, ToSet
<1>4. OneTells /\ TellsWhatIs
  BY <1>2 DEF OneTells, TellsWhatIs
<1>5. InStep
  BY DEF InStep, Listed
<1> QED  BY <1>1, <1>2, <1>3, <1>4, <1>5 DEF FInv

\* A call that has changed the session of an event, and goes on to tell it.
LEMMA ChangeTold ==
  ASSUME FInv, NEW c \in Callers, call[c].at \in {"idle", "checked"},
         NEW e \in Event, Notify(c, e), e.place = Place(e.id)',
         sessions' \in [Ids -> Session \union {None}],
         \A id \in Ids \ {e.id} : sessions'[id] = sessions[id], used' \subseteq Ids,
         UNCHANGED <<subs, channel, stream, view, missed>>
  PROVE  FInv'
<1> USE DEF FInv
<1>1. /\ call[c] \in Call /\ call[c].event = None /\ call[c].left = << >>
      /\ call' = [call EXCEPT ![c] = [call[c] EXCEPT !.at = "copy", !.id = e.id, !.event = e]]
  BY DEF Typed, CallsAgree, Notify
<1>2. /\ call'[c].at = "copy" /\ call'[c].event = e /\ call'[c].left = << >>
      /\ call'[c] \in Call /\ e # None
      /\ \A d \in Callers \ {c} : call'[d] = call[d]
  BY <1>1, EventsAreSome DEF Typed, Call, Event
<1>3. \A id \in Ids : Announcing(id)' = Announcing(id) \union (IF id = e.id THEN {c} ELSE {})
  BY <1>1, <1>2 DEF Announcing
<1>4. \A id \in Ids : c \notin Announcing(id)
  BY <1>1 DEF Announcing
<1>5. tangled \subseteq tangled' /\ (e.id \notin tangled' => Announcing(e.id)' = {c})
  <2>1. e.id \in Ids
    BY DEF Event
  <2> QED  BY <2>1, <1>3, <1>4 DEF Notify
<1>6. \A id \in Ids \ {e.id} : Place(id)' = Place(id)
  BY PlaceKept
<1>7. Typed'
  BY <1>1, <1>2 DEF Typed
<1>8. CallsAgree'
  BY <1>2 DEF CallsAgree
<1>9. OneTells'
  BY <1>3, <1>5 DEF OneTells
<1>10. TellsWhatIs'
  <2> SUFFICES ASSUME NEW id \in Ids \ tangled', NEW d \in Announcing(id)'
               PROVE  call'[d].event.place = Place(id)'
    BY DEF TellsWhatIs
  <2>1. CASE id = e.id
    BY <2>1, <1>2, <1>5
  <2>2. CASE id # e.id
    <3>1. d \in Announcing(id) /\ d # c /\ d \in Callers
      BY <2>2, <1>3, <1>4 DEF Announcing
    <3> QED  BY <2>2, <3>1, <1>2, <1>5, <1>6 DEF TellsWhatIs
  <2> QED  BY <2>1, <2>2
<1>11. ListAgrees'
  BY <1>2 DEF ListAgrees, Listed, ToSet
<1>12. InStep'
  <2> SUFFICES ASSUME NEW f \in Followers \ missed, NEW id \in Ids \ tangled', Listed(f)
               PROVE  StillToTell(f, id)' \/ Follows(f, id)'
    BY DEF InStep, Listed
  <2>1. CASE id = e.id
    BY <2>1, <1>2, <1>3 DEF StillToTell
  <2>2. CASE id # e.id
    <3>1. StillToTell(f, id) \/ Follows(f, id)
      BY <1>5 DEF InStep
    <3>2. CASE StillToTell(f, id)
      BY <2>2, <3>2, <1>2, <1>3, <1>4 DEF StillToTell, Announcing
    <3>3. CASE Follows(f, id)
      BY <2>2, <3>3, <1>6 DEF Follows
    <3> QED  BY <3>1, <3>2, <3>3
  <2> QED  BY <2>1, <2>2
<1> QED  BY <1>7, <1>8, <1>9, <1>10, <1>11, <1>12

\* A call that tells nothing, before and after.
LEMMA NothingToTell ==
  ASSUME FInv, NEW c \in Callers, call[c].at \in {"idle", "checked"},
         NEW r \in Call, r.at \in {"idle", "checked"}, r.event = None, r.left = << >>,
         call' = [call EXCEPT ![c] = r],
         UNCHANGED <<sessions, subs, channel, stream, view, missed, tangled, used>>
  PROVE  FInv'
<1> USE DEF FInv
<1>1. call'[c] = r /\ (\A d \in Callers \ {c} : call'[d] = call[d]) /\ call[c].event = None
  BY DEF Typed, CallsAgree
<1>2. \A id \in Ids : Announcing(id)' = Announcing(id) /\ c \notin Announcing(id)
  BY <1>1 DEF Announcing
<1>3. \A id \in Ids : Place(id)' = Place(id)
  BY PlaceKept
<1>4. Typed'
  BY DEF Typed
<1>5. CallsAgree'
  BY <1>1 DEF CallsAgree
<1>6. OneTells'
  BY <1>2 DEF OneTells
<1>7. TellsWhatIs'
  BY <1>1, <1>2, <1>3 DEF TellsWhatIs, Announcing
<1>8. ListAgrees'
  BY <1>1 DEF ListAgrees, Listed, ToSet
<1>9. InStep'
  <2> SUFFICES ASSUME NEW f \in Followers \ missed, NEW id \in Ids \ tangled, Listed(f)
               PROVE  StillToTell(f, id)' \/ Follows(f, id)'
    BY DEF InStep, Listed
  <2>1. StillToTell(f, id) \/ Follows(f, id)
    BY DEF InStep
  <2>2. CASE StillToTell(f, id)
    BY <2>2, <1>1, <1>2 DEF StillToTell, Announcing
  <2>3. CASE Follows(f, id)
    BY <2>3, <1>3 DEF Follows
  <2> QED  BY <2>1, <2>2, <2>3
<1> QED  BY <1>4, <1>5, <1>6, <1>7, <1>8, <1>9

\* A call that ends with nothing to tell.
LEMMA Returned ==
  ASSUME FInv, NEW c \in Callers, call[c].at \in {"idle", "checked"}, Return(c),
         UNCHANGED <<sessions, subs, channel, stream, view, missed, tangled, used>>
  PROVE  FInv'
<1>1. Idle \in Call /\ Idle.at = "idle" /\ Idle.event = None /\ Idle.left = << >>
  BY DEF Idle, Call
<1> QED  BY <1>1, NothingToTell DEF Return

LEMMA SessionsAreSome == None \notin Session
BY NoneAssumption DEF Session, Colors

LEMMA RegisterTells ==
  ASSUME FInv, NEW c \in Callers, Register(c)
  PROVE  FInv'
<1> DEFINE col == AllocColor
<1>1. col \in Colors
  BY AllocIsColor
<1> HIDE DEF col
<1>2. PICK id \in Ids :
        /\ sessions' = [sessions EXCEPT ![id] = [color |-> col, place |-> 0]]
        /\ used' = used \union {id}
        /\ Notify(c, [type |-> "add", id |-> id, place |-> 0])
  BY DEF Register, col
<1> DEFINE e == [type |-> "add", id |-> id, place |-> 0]
<1>3. e \in Event /\ e.id = id /\ e.place = 0
  BY PlacesAssumption DEF Event
<1>4. /\ sessions'[id] = [color |-> col, place |-> 0]
      /\ \A i \in Ids \ {id} : sessions'[i] = sessions[i]
      /\ sessions' \in [Ids -> Session \union {None}]
  BY <1>1, <1>2, PlacesAssumption DEF FInv, Typed, Session
<1>5. Place(id)' = 0
  <2>1. sessions'[id] # None
    BY <1>1, <1>4, PlacesAssumption, SessionsAreSome DEF Session
  <2> QED  BY <1>4, <2>1 DEF Place, Live
<1>6. Notify(c, e) /\ call[c].at \in {"idle", "checked"} /\ used' \subseteq Ids
      /\ UNCHANGED <<subs, channel, stream, view, missed>>
  BY <1>2 DEF Register, FInv, Typed
<1> HIDE DEF e
<1> QED  BY <1>3, <1>4, <1>5, <1>6, ChangeTold

LEMMA TakeOutTells ==
  ASSUME FInv, NEW c \in Callers, call[c].at \in {"idle", "checked"},
         NEW id \in Live, TakeOut(c, id), UNCHANGED <<subs, channel, stream, view, missed, used>>
  PROVE  FInv'
<1> DEFINE e == [type |-> "remove", id |-> id, place |-> None]
<1>1. id \in Ids /\ e \in Event /\ e.id = id /\ e.place = None
  BY DEF Event, Live
<1>2. /\ sessions'[id] = None
      /\ \A i \in Ids \ {id} : sessions'[i] = sessions[i]
      /\ sessions' \in [Ids -> Session \union {None}]
  BY <1>1 DEF TakeOut, FInv, Typed
<1>3. Place(id)' = None
  BY <1>2 DEF Place, Live
<1>4. Notify(c, e) /\ used' \subseteq Ids
  BY DEF TakeOut, FInv, Typed
<1> HIDE DEF e
<1> QED  BY <1>1, <1>2, <1>3, <1>4, ChangeTold

LEMMA StoreTells ==
  ASSUME FInv, NEW c \in Callers, call[c].at \in {"idle", "checked"},
         NEW id \in Live, NEW place \in Places, Store(c, id, place),
         UNCHANGED <<subs, channel, stream, view, missed, used>>
  PROVE  FInv'
<1> DEFINE e == [type |-> "update", id |-> id, place |-> place]
<1>1. id \in Ids /\ e \in Event /\ e.id = id /\ e.place = place /\ sessions[id] \in Session
  BY DEF Event, Live, FInv, Typed
<1>2. /\ sessions'[id] \in Session /\ sessions'[id].place = place
      /\ \A i \in Ids \ {id} : sessions'[i] = sessions[i]
      /\ sessions' \in [Ids -> Session \union {None}]
  BY <1>1 DEF Store, FInv, Typed, Session
<1>3. Place(id)' = place
  BY <1>1, <1>2, SessionsAreSome DEF Place, Live
<1>4. Notify(c, e) /\ used' \subseteq Ids
  BY DEF Store, Announced, FInv, Typed
<1> HIDE DEF e
<1> QED  BY <1>1, <1>2, <1>3, <1>4, ChangeTold

\* Whoever follows is on the list that a call copies.
LEMMA CopyTells ==
  ASSUME FInv, NEW c \in Callers, CopySubs(c)
  PROVE  FInv'
<1> USE DEF FInv
<1>1. /\ call[c].at = "copy" /\ call[c] \in Call /\ call[c].event # None
      /\ call' = [call EXCEPT ![c] = Told(c, subs)]
  BY DEF CopySubs, Typed, CallsAgree
<1>2. CASE subs = << >>
  <2>1. Told(c, subs) = Idle
    BY <1>2 DEF Told
  <2>2. \A f \in Followers : ~ Listed(f)
    BY <1>2 DEF ListAgrees, ToSet
  <2>3. /\ call'[c] = Idle /\ Idle \in Call
        /\ \A d \in Callers \ {c} : call'[d] = call[d]
    BY <1>1, <2>1 DEF Typed, Idle, Call
  <2>4. \A id \in Ids : Announcing(id)' = Announcing(id) \ {c}
    BY <2>3 DEF Announcing, Idle
  <2>5. \A id \in Ids : Place(id)' = Place(id)
    BY PlaceKept DEF CopySubs, registry
  <2>6. Typed'
    BY <1>1, <2>1, <2>3 DEF Typed, CopySubs, registry
  <2>7. CallsAgree'
    BY <2>3 DEF CallsAgree, Idle
  <2>8. OneTells' /\ TellsWhatIs'
    BY <2>3, <2>4, <2>5 DEF OneTells, TellsWhatIs, CopySubs, Announcing
  <2>9. ListAgrees'
    BY <2>3 DEF ListAgrees, Listed, ToSet, Idle, CopySubs
  <2>10. InStep'
    BY <2>2 DEF InStep, Listed, CopySubs
  <2> QED  BY <2>6, <2>7, <2>8, <2>9, <2>10
<1>3. CASE subs # << >>
  <2> DEFINE r == [call[c] EXCEPT !.at = "send", !.left = subs]
  <2>1. Told(c, subs) = r
    BY <1>3 DEF Told
  <2>2. r \in Call /\ r.at = "send" /\ r.left = subs /\ r.event = call[c].event /\ r.id = call[c].id
    BY <1>1 DEF Call, Typed
  <2> HIDE DEF r
  <2>3. call'[c] = r /\ \A d \in Callers \ {c} : call'[d] = call[d]
    BY <1>1, <2>1 DEF Typed
  <2>4. \A id \in Ids : Announcing(id)' = Announcing(id)
    BY <2>2, <2>3 DEF Announcing
  <2>5. \A id \in Ids : Place(id)' = Place(id)
    BY PlaceKept DEF CopySubs, registry
  <2>6. Typed'
    BY <1>1, <2>1, <2>2 DEF Typed, CopySubs, registry
  <2>7. CallsAgree'
    BY <1>1, <1>3, <2>2, <2>3 DEF CallsAgree
  <2>8. OneTells' /\ TellsWhatIs'
    BY <2>2, <2>3, <2>4, <2>5 DEF OneTells, TellsWhatIs, CopySubs, Announcing
  <2>9. ListAgrees'
    BY <2>2, <2>3 DEF ListAgrees, Listed, CopySubs
  <2>10. InStep'
    <3> SUFFICES ASSUME NEW f \in Followers \ missed, NEW id \in Ids \ tangled, Listed(f)
                 PROVE  StillToTell(f, id)' \/ Follows(f, id)'
      BY DEF InStep, Listed, CopySubs
    <3>1. StillToTell(f, id) \/ Follows(f, id)
      BY DEF InStep
    <3>2. CASE StillToTell(f, id)
      <4>1. f \in ToSet(subs)
        BY DEF ListAgrees
      <4> QED  BY <3>2, <4>1, <2>2, <2>3, <2>4 DEF StillToTell, Announcing
    <3>3. CASE Follows(f, id)
      BY <3>3, <2>5 DEF Follows, CopySubs
    <3> QED  BY <3>1, <3>2, <3>3
  <2> QED  BY <2>6, <2>7, <2>8, <2>9, <2>10
<1> QED  BY <1>2, <1>3

\* The first on a call's list is told, or misses the event; the others are still to be told,
\* or miss it all.
LEMMA SendTells ==
  ASSUME FInv, NEW c \in Callers, Send(c)
  PROVE  FInv'
<1> USE DEF FInv
<1> DEFINE left == call[c].left
           e == call[c].event
           g == Head(left)
           r == call'[c]
<1>1. /\ call[c].at = "send" /\ call[c] \in Call
      /\ left \in Seq(Followers) /\ left # << >> /\ e \in Event /\ e.id \in Ids
  BY DEF Send, Typed, CallsAgree, Call, Event
<1>2. /\ g \in Followers /\ Tail(left) \in Seq(Followers)
      /\ ToSet(left) \subseteq {g} \union ToSet(Tail(left))
      /\ ToSet(Tail(left)) \subseteq ToSet(left)
  <2>1. /\ DOMAIN left = 1 .. Len(left) /\ Len(left) \in Nat \ {0} /\ g = left[1]
        /\ DOMAIN Tail(left) = 1 .. Len(left) - 1 /\ Tail(left) \in Seq(Followers)
        /\ \A k \in 1 .. Len(left) - 1 : Tail(left)[k] = left[k + 1]
    BY <1>1
  <2>2. \A k \in 2 .. Len(left) : left[k] = Tail(left)[k - 1] /\ k - 1 \in DOMAIN Tail(left)
    BY <2>1
  <2>3. g \in Followers
    BY <1>1, <2>1
  <2> HIDE DEF left, g
  <2>4. ToSet(left) \subseteq {g} \union ToSet(Tail(left))
    <3> SUFFICES ASSUME NEW k \in 1 .. Len(left), k # 1 PROVE left[k] \in ToSet(Tail(left))
      BY <2>1 DEF ToSet
    <3>1. k \in 2 .. Len(left)
      BY <2>1
    <3> QED  BY <2>2, <3>1 DEF ToSet
  <2>5. ToSet(Tail(left)) \subseteq ToSet(left)
    <3> SUFFICES ASSUME NEW k \in 1 .. Len(left) - 1 PROVE Tail(left)[k] \in ToSet(left)
      BY <2>1 DEF ToSet
    <3>1. k + 1 \in DOMAIN left /\ Tail(left)[k] = left[k + 1]
      BY <2>1
    <3> QED  BY <3>1 DEF ToSet
  <2> QED  BY <2>1, <2>3, <2>4, <2>5
<1>3. /\ r = Idle \/ (r = [call[c] EXCEPT !.at = "send", !.left = Tail(left)] /\ Tail(left) # << >>)
      /\ \A d \in Callers \ {c} : call'[d] = call[d]
      /\ call' \in [Callers -> Call]
  <2>1. \/ call' = [call EXCEPT ![c] = Idle]
        \/ /\ call' = [call EXCEPT ![c] = [call[c] EXCEPT !.at = "send", !.left = Tail(left)]]
           /\ Tail(left) # << >>
    BY DEF Send, Return, Told
  <2>2. Idle \in Call
    BY DEF Idle, Call
  <2>3. [call[c] EXCEPT !.at = "send", !.left = Tail(left)] \in Call
    <3> HIDE DEF left
    <3> QED  BY <1>1, <1>2 DEF Call
  <2> QED  BY <2>1, <2>2, <2>3 DEF Typed
<1>4. \A d \in Callers : call'[d].event = None \/ call'[d].event = call[d].event
  <2>1. Idle.event = None
    BY DEF Idle
  <2>2. [call[c] EXCEPT !.at = "send", !.left = Tail(left)].event = call[c].event
    BY <1>1 DEF Call
  <2> QED  BY <1>3, <2>1, <2>2
<1>5. \A id \in Ids : Announcing(id)' \subseteq Announcing(id)
  BY <1>4 DEF Announcing
<1>6. \A id \in Ids : Place(id)' = Place(id)
  BY PlaceKept DEF Send, registry
<1>7. \/ /\ missed' = missed \union ToSet(left) /\ channel' = channel
      \/ /\ r = Told(c, Tail(left))
         /\ \/ channel' = [channel EXCEPT ![g] = Append(@, e)] /\ missed' = missed
            \/ missed' = missed \union {g} /\ channel' = channel
  BY <1>3 DEF Send, Typed
<1>8. Typed'
  <2>1. channel' \in [Followers -> Seq(Event)]
    <3>1. Append(channel[g], e) \in Seq(Event)
      BY <1>1, <1>2 DEF Typed
    <3> QED  BY <3>1, <1>7 DEF Typed
  <2> QED  BY <2>1, <1>3 DEF Send, Typed, registry
<1>9. CallsAgree'
  <2> SUFFICES ASSUME NEW d \in Callers
               PROVE  /\ call'[d].event = None <=> call'[d].at \in {"idle", "checked"}
                      /\ call'[d].left = << >> <=> call'[d].at # "send"
    BY DEF CallsAgree
  <2>1. CASE d # c
    BY <2>1, <1>3 DEF CallsAgree
  <2>2. CASE d = c
    <3>1. CASE r = Idle
      BY <2>2, <3>1 DEF Idle
    <3>2. CASE r = [call[c] EXCEPT !.at = "send", !.left = Tail(left)] /\ Tail(left) # << >>
      <4>1. r.at = "send" /\ r.left # << >> /\ r.event = e
        BY <3>2, <1>1 DEF Call
      <4> QED  BY <2>2, <4>1, <1>1, EventsAreSome
    <3> QED  BY <3>1, <3>2, <1>3
  <2> QED  BY <2>1, <2>2
<1>10. OneTells' /\ TellsWhatIs'
  <2>1. tangled' = tangled
    BY DEF Send
  <2>2. \A id \in Ids : \A d \in Announcing(id)' : call'[d].event = call[d].event
    BY <1>4 DEF Announcing
  <2> QED  BY <2>1, <2>2, <1>5, <1>6 DEF OneTells, TellsWhatIs
<1>11. ListAgrees'
  <2>1. \A d \in Callers : ToSet(call'[d].left) \subseteq ToSet(call[d].left)
    <3>1. CASE r = Idle
      BY <3>1, <1>3 DEF Idle, ToSet
    <3>2. CASE r = [call[c] EXCEPT !.at = "send", !.left = Tail(left)]
      <4>1. r.left = Tail(left)
        BY <3>2, <1>1 DEF Call
      <4> QED  BY <4>1, <1>2, <1>3
    <3> QED  BY <3>1, <3>2, <1>3
  <2>2. stream[g] # "new"
    <3>1. g \in ToSet(left)
      BY <1>1 DEF ToSet
    <3> QED  BY <1>2, <3>1 DEF ListAgrees
  <2>3. \A f \in Followers : stream[f] = "new" => channel'[f] = channel[f]
    BY <2>2, <1>7 DEF Typed
  <2> QED  BY <2>1, <2>3 DEF ListAgrees, Listed, Send
<1>12. InStep'
  <2> SUFFICES ASSUME NEW f \in Followers \ missed', NEW id \in Ids \ tangled, Listed(f)
               PROVE  StillToTell(f, id)' \/ Follows(f, id)'
    BY DEF InStep, Listed, Send
  <2> DEFINE told == IF stream[f] = "streaming" THEN view[f][id] ELSE Place(id)
  <2>1. StillToTell(f, id) \/ Follows(f, id)
    BY <1>7 DEF InStep
  <2>2. e.id = id => e.place = Place(id)
    BY <1>1, EventsAreSome DEF TellsWhatIs, Announcing
  <2>3. Follows(f, id)' <=> Leaves(channel'[f], id, told, Place(id))
    BY <1>6 DEF Follows, Send
  <2>4. Follows(f, id) <=> Leaves(channel[f], id, told, Place(id))
    BY DEF Follows
  <2>5. channel[f] \in Seq(Event)
    BY DEF Typed
  <2> HIDE DEF told
  <2>6. CASE Follows(f, id)
    <3>1. CASE channel'[f] = channel[f]
      BY <2>6, <3>1, <2>3, <2>4
    <3>2. CASE channel'[f] = Append(channel[f], e)
      BY <2>6, <3>2, <1>1, <2>2, <2>3, <2>4, <2>5, LeavesAppend
    <3> QED  BY <3>1, <3>2, <1>7 DEF Typed
  <2>7. CASE StillToTell(f, id)
    <3>1. PICK d \in Announcing(id) : call[d].at = "copy" \/ f \in ToSet(call[d].left)
      BY <2>7 DEF StillToTell
    <3>2. CASE d # c
      BY <3>1, <3>2, <1>3 DEF StillToTell, Announcing
    <3>3. CASE d = c
      <4>1. f \in ToSet(left) /\ e.id = id
        BY <3>1, <3>3, <1>1 DEF Announcing
      <4>2. /\ missed' # missed \union ToSet(left)
            /\ r = Told(c, Tail(left))
            /\ \/ channel' = [channel EXCEPT ![g] = Append(@, e)] /\ missed' = missed
               \/ missed' = missed \union {g} /\ channel' = channel
        BY <4>1, <1>7
      <4>3. CASE f = g
        <5>1. channel'[f] = Append(channel[f], e)
          BY <4>2, <4>3 DEF Typed
        <5> QED  BY <4>1, <5>1, <1>1, <2>2, <2>3, <2>5, LeavesAppend
      <4>4. CASE f # g
        <5>1. f \in ToSet(Tail(left)) /\ Tail(left) # << >>
          <6>1. f \in ToSet(Tail(left))
            BY <4>1, <4>4, <1>2
          <6>2. Tail(left) = << >> => ToSet(Tail(left)) = {}
            BY DEF ToSet
          <6> QED  BY <6>1, <6>2
        <5>2. r = [call[c] EXCEPT !.at = "send", !.left = Tail(left)]
          BY <4>2, <5>1 DEF Told
        <5>3. r.event = e /\ r.left = Tail(left)
          BY <5>2, <1>1 DEF Call
        <5>4. c \in Announcing(id)'
          BY <5>3, <4>1, <1>1, EventsAreSome DEF Announcing
        <5> QED  BY <5>1, <5>3, <5>4 DEF StillToTell
      <4> QED  BY <4>3, <4>4
    <3> QED  BY <3>2, <3>3
  <2> QED  BY <2>1, <2>6, <2>7
<1> QED  BY <1>8, <1>9, <1>10, <1>11, <1>12

\* What a step of f's stream keeps when it leaves the registry and the calls alone.
LEMMA StreamFrame ==
  ASSUME FInv, NEW f \in Followers, UNCHANGED <<registry, call, missed, tangled>>,
         Typed', ListAgrees',
         \A g \in Followers \ {f} :
           stream'[g] = stream[g] /\ channel'[g] = channel[g] /\ view'[g] = view[g],
         \A id \in Ids \ tangled : Listed(f)' /\ f \notin missed => StillToTell(f, id) \/ Follows(f, id)'
  PROVE  FInv'
<1> USE DEF FInv
<1>1. \A id \in Ids : Announcing(id)' = Announcing(id) /\ Place(id)' = Place(id)
  BY PlaceKept DEF Announcing, registry
<1>2. CallsAgree' /\ OneTells' /\ TellsWhatIs'
  BY <1>1 DEF CallsAgree, OneTells, TellsWhatIs
<1>3. InStep'
  <2> SUFFICES ASSUME NEW g \in Followers \ missed, NEW id \in Ids \ tangled, Listed(g)'
               PROVE  StillToTell(g, id)' \/ Follows(g, id)'
    BY DEF InStep
  <2>1. StillToTell(g, id)' <=> StillToTell(g, id)
    BY <1>1 DEF StillToTell
  <2>2. CASE g = f
    BY <2>1, <2>2
  <2>3. CASE g # f
    <3>1. StillToTell(g, id) \/ Follows(g, id)
      BY <2>3 DEF InStep, Listed
    <3>2. Follows(g, id)' <=> Follows(g, id)
      BY <2>3, <1>1 DEF Follows
    <3> QED  BY <2>1, <3>1, <3>2
  <2> QED  BY <2>2, <2>3
<1> QED  BY <1>2, <1>3

\* One who subscribes has an empty channel, and what he is to see is still to be sent.
LEMMA SubscribeTells ==
  ASSUME FInv, NEW f \in Followers, Subscribe(f)
  PROVE  FInv'
<1> USE DEF FInv
<1>1. stream' = [stream EXCEPT ![f] = "subscribed"] /\ stream'[f] = "subscribed" /\ channel[f] = << >>
  BY DEF Subscribe, Typed, ListAgrees
<1>2. subs \in Seq(Followers) /\ subs' = Append(subs, f) /\ subs' \in Seq(Followers)
  BY DEF Subscribe, Typed
<1>3. Typed'
  BY <1>1, <1>2 DEF Subscribe, Typed, registry
<1>4. f \in ToSet(subs') /\ ToSet(subs) \subseteq ToSet(subs') /\ ToSet(subs') \subseteq ToSet(subs) \union {f}
  <2>1. /\ DOMAIN subs = 1 .. Len(subs) /\ DOMAIN subs' = 1 .. Len(subs) + 1 /\ Len(subs) \in Nat
        /\ subs'[Len(subs) + 1] = f /\ \A k \in 1 .. Len(subs) : subs'[k] = subs[k]
    BY <1>2
  <2> QED  BY <2>1 DEF ToSet
<1>5. ListAgrees'
  BY <1>1, <1>4 DEF ListAgrees, Listed, Subscribe, Typed
<1>6. \A id \in Ids \ tangled : Follows(f, id)'
  BY <1>1 DEF Follows, Leaves, Subscribe
<1>7. UNCHANGED <<registry, call, missed, tangled, channel, view>>
  BY DEF Subscribe
<1>8. \A g \in Followers \ {f} : stream'[g] = stream[g]
  BY <1>1 DEF Typed
<1> QED  BY <1>3, <1>5, <1>6, <1>7, <1>8, StreamFrame

\* The additions tell what is; events that are still in the channel end with what is, too.
LEMMA SendAllTells ==
  ASSUME FInv, NEW f \in Followers, SendAll(f)
  PROVE  FInv'
<1> USE DEF FInv
<1> DEFINE all == [id \in Ids |-> Place(id)]
<1>1. /\ stream' = [stream EXCEPT ![f] = "streaming"] /\ view' = [view EXCEPT ![f] = all]
      /\ stream[f] = "subscribed"
      /\ UNCHANGED <<registry, subs, channel, call, missed, tangled, used>>
  BY DEF SendAll, Place
<1>2. all \in [Ids -> Places \union {None}]
  <2>1. \A id \in Ids : Place(id) \in Places \union {None}
    BY DEF Place, Live, Typed, Session
  <2> QED  BY <2>1
<1>3. /\ view'[f] = all /\ stream'[f] = "streaming"
      /\ \A g \in Followers \ {f} : view'[g] = view[g] /\ stream'[g] = stream[g]
  BY <1>1 DEF Typed
<1>4. Typed'
  <2> HIDE DEF all
  <2> QED  BY <1>1, <1>2 DEF Typed, registry
<1>5. ListAgrees'
  BY <1>1, <1>3 DEF ListAgrees, Listed
<1>6. ASSUME NEW id \in Ids \ tangled, f \notin missed
      PROVE  StillToTell(f, id) \/ Follows(f, id)'
  <2>1. StillToTell(f, id) \/ Follows(f, id)
    BY <1>1, <1>6 DEF InStep, Listed
  <2>2. Place(id)' = Place(id) /\ view'[f][id] = Place(id)
    BY <1>1, <1>3, PlaceKept DEF registry
  <2>3. Follows(f, id) => Follows(f, id)'
    BY <2>2, <1>1, <1>3 DEF Follows
  <2> QED  BY <2>1, <2>3
<1> HIDE DEF all
<1> QED  BY <1>1, <1>3, <1>4, <1>5, <1>6, StreamFrame

\* What the channel's first event was to leave, it leaves.
LEMMA DeliverTells ==
  ASSUME FInv, NEW f \in Followers, Deliver(f)
  PROVE  FInv'
<1> USE DEF FInv
<1> DEFINE q == channel[f]
           e == Head(q)
           now == [view[f] EXCEPT ![e.id] = e.place]
<1>1. /\ q \in Seq(Event) /\ q # << >> /\ stream[f] = "streaming"
      /\ UNCHANGED <<registry, subs, stream, call, missed, tangled, used>>
  BY DEF Deliver, Typed
<1>2. e \in Event /\ Tail(q) \in Seq(Event)
  <2>1. e = q[1] /\ 1 \in DOMAIN q
    BY <1>1
  <2> QED  BY <1>1, <2>1
<1>3. now \in [Ids -> Places \union {None}]
  BY <1>2 DEF Typed, Event
<1>4. view' = [view EXCEPT ![f] = now] /\ channel' = [channel EXCEPT ![f] = Tail(q)]
  BY DEF Deliver, Typed
<1>5. /\ view'[f] = now /\ channel'[f] = Tail(q)
      /\ \A g \in Followers \ {f} : view'[g] = view[g] /\ channel'[g] = channel[g]
  BY <1>4 DEF Typed
<1>6. Typed'
  <2> HIDE DEF now
  <2> QED  BY <1>1, <1>2, <1>3, <1>4 DEF Typed, registry
<1>7. ListAgrees'
  BY <1>1, <1>5 DEF ListAgrees, Listed
<1>8. ASSUME NEW id \in Ids \ tangled, f \notin missed
      PROVE  StillToTell(f, id) \/ Follows(f, id)'
  <2>1. StillToTell(f, id) \/ Follows(f, id)
    BY <1>1, <1>8 DEF InStep, Listed
  <2>2. Place(id)' = Place(id)
    BY <1>1, PlaceKept DEF registry
  <2>3. now[id] = IF e.id = id THEN e.place ELSE view[f][id]
    BY <1>2 DEF Typed, Event
  <2>4. ASSUME Follows(f, id) PROVE Follows(f, id)'
    <3>1. Leaves(q, id, view[f][id], Place(id))
      BY <2>4, <1>1 DEF Follows
    <3>2. Leaves(Tail(q), id, now[id], Place(id))
      <4> HIDE DEF q, now
      <4> QED  BY <3>1, <1>1, <2>3, LeavesTail
    <3> QED  BY <3>2, <1>1, <1>5, <2>2 DEF Follows
  <2> QED  BY <2>1, <2>4
<1> HIDE DEF q, e, now
<1> QED  BY <1>1, <1>5, <1>6, <1>7, <1>8, StreamFrame

\* The others stay on the list.
LEMMA CancelTells ==
  ASSUME FInv, NEW f \in Followers, Cancel(f)
  PROVE  FInv'
<1> USE DEF FInv
<1>1. PICK i \in DOMAIN subs : subs[i] = f /\ subs' = RemoveAt(subs, i)
  BY DEF Cancel
<1>2. /\ stream' = [stream EXCEPT ![f] = "leaving"] /\ stream'[f] = "leaving"
      /\ \A g \in Followers \ {f} : stream'[g] = stream[g]
      /\ Listed(f)
      /\ UNCHANGED <<registry, channel, call, view, missed, tangled, used>>
  BY DEF Cancel, Typed, Listed
<1>3. subs \in Seq(Followers) /\ Len(subs) \in Nat /\ DOMAIN subs = 1 .. Len(subs)
  BY DEF Typed
<1>4. /\ subs' \in Seq(Followers) /\ DOMAIN subs' = 1 .. Len(subs) - 1
      /\ \A k \in 1 .. Len(subs) - 1 : subs'[k] = IF k < i THEN subs[k] ELSE subs[k + 1]
  <2> DEFINE a == SubSeq(subs, 1, i - 1)
             b == SubSeq(subs, i + 1, Len(subs))
  <2>1. a \in Seq(Followers) /\ Len(a) = i - 1 /\ \A k \in 1 .. i - 1 : a[k] = subs[k]
    BY <1>1, <1>3
  <2>2. /\ b \in Seq(Followers) /\ Len(b) = Len(subs) - i
        /\ \A k \in 1 .. Len(subs) - i : b[k] = subs[k + i]
    BY <1>1, <1>3
  <2>3. subs' = a \o b
    BY <1>1 DEF RemoveAt
  <2> HIDE DEF a, b
  <2>4. subs' \in Seq(Followers) /\ Len(subs') = Len(subs) - 1 /\ DOMAIN subs' = 1 .. Len(subs) - 1
    <3>1. subs' \in Seq(Followers) /\ Len(subs') = Len(a) + Len(b)
      BY <2>1, <2>2, <2>3, ConcatProperties
    <3>2. Len(subs') = Len(subs) - 1
      BY <1>1, <1>3, <2>1, <2>2, <3>1
    <3> QED  BY <3>1, <3>2
  <2>5. ASSUME NEW k \in 1 .. Len(subs) - 1, k < i PROVE subs'[k] = subs[k]
    BY <1>1, <1>3, <2>1, <2>2, <2>3, <2>5
  <2>6. ASSUME NEW k \in 1 .. Len(subs) - 1, ~ (k < i) PROVE subs'[k] = subs[k + 1]
    <3>1. k - (i - 1) \in 1 .. Len(subs) - i /\ (k - (i - 1)) + i = k + 1
      BY <1>1, <1>3, <2>6
    <3>2. subs'[k] = b[k - (i - 1)]
      <4>1. subs'[k] = IF k <= Len(a) THEN a[k] ELSE b[k - Len(a)]
        BY <1>1, <1>3, <2>1, <2>2, <2>3, ConcatProperties
      <4> QED  BY <1>1, <1>3, <2>1, <2>6, <4>1
    <3>3. b[k - (i - 1)] = subs[(k - (i - 1)) + i]
      BY <2>2, <3>1
    <3> QED  BY <3>1, <3>2, <3>3
  <2> QED  BY <2>4, <2>5, <2>6
<1>5. ToSet(subs') \subseteq ToSet(subs) /\ ToSet(subs) \subseteq ToSet(subs') \union {f}
  <2>1. ASSUME NEW k \in DOMAIN subs' PROVE subs'[k] \in ToSet(subs)
    BY <2>1, <1>3, <1>4 DEF ToSet
  <2>2. ASSUME NEW k \in DOMAIN subs, k # i PROVE subs[k] \in ToSet(subs')
    <3>1. CASE k < i
      BY <2>2, <3>1, <1>1, <1>3, <1>4 DEF ToSet
    <3>2. CASE k > i
      <4>1. k - 1 \in DOMAIN subs' /\ subs'[k - 1] = subs[k]
        BY <3>2, <1>1, <1>3, <1>4
      <4> QED  BY <4>1 DEF ToSet
    <3> QED  BY <2>2, <3>1, <3>2, <1>1, <1>3
  <2> QED  BY <2>1, <2>2, <1>1 DEF ToSet
<1>6. Typed'
  BY <1>2, <1>4 DEF Typed, registry
<1>7. ListAgrees'
  BY <1>2, <1>5 DEF ListAgrees, Listed
<1>8. ~ Listed(f)'
  BY <1>2 DEF Listed
<1> QED  BY <1>2, <1>6, <1>7, <1>8, StreamFrame

LEMMA FKept == FInv /\ [Next]_vars => FInv'
<1> SUFFICES ASSUME FInv, [Next]_vars PROVE FInv'
  OBVIOUS
<1>1. ASSUME NEW c \in Callers, CallStep(c) PROVE FInv'
  <2>1. CASE Register(c)
    BY <2>1, RegisterTells
  <2>2. CASE Unregister(c)
    BY <2>2, TakeOutTells DEF Unregister
  <2>3. CASE Update(c)
    BY <2>3, StoreTells DEF Update
  <2>4. CASE CheckAdmin(c)
    <3>1. PICK id \in used : call' = [call EXCEPT ![c] = [Idle EXCEPT !.at = "checked", !.id = id]]
      BY <2>4 DEF CheckAdmin
    <3>2. used \subseteq Ids
      BY DEF FInv, Typed
    <3> DEFINE r == [Idle EXCEPT !.at = "checked", !.id = id]
    <3>3. r = [at |-> "checked", id |-> id, event |-> None, left |-> << >>]
      <4> DEFINE b == [Idle EXCEPT !.at = "checked"]
      <4>1. b = [at |-> "checked", id |-> None, event |-> None, left |-> << >>]
        BY DEF Idle
      <4>2. r = [b EXCEPT !.id = id]
        OBVIOUS
      <4> HIDE DEF b, r
      <4> QED  BY <4>1, <4>2
    <3> HIDE DEF r
    <3>4. r \in Call /\ r.at = "checked" /\ r.event = None /\ r.left = << >>
      BY <3>2, <3>3 DEF Call
    <3> QED  BY <2>4, <3>1, <3>4, NothingToTell DEF CheckAdmin, registry, r
  <2>5. CASE Kick(c)
    BY <2>5, TakeOutTells, Returned DEF Kick, registry
  <2>6. CASE Teleport(c)
    BY <2>6, StoreTells, Returned DEF Teleport, registry
  <2>7. CASE CopySubs(c) \/ Send(c)
    BY <2>7, CopyTells, SendTells
  <2> QED  BY <1>1, <2>1, <2>2, <2>3, <2>4, <2>5, <2>6, <2>7 DEF CallStep
<1>2. ASSUME NEW f \in Followers, StreamStep(f) PROVE FInv'
  <2>1. CASE Close(f)
    <3>1. /\ stream' = [stream EXCEPT ![f] = "gone"] /\ stream'[f] = "gone"
          /\ \A g \in Followers \ {f} : stream'[g] = stream[g]
          /\ UNCHANGED <<registry, subs, channel, call, view, missed, tangled, used>>
      BY <2>1 DEF Close, FInv, Typed
    <3>2. Typed'
      BY <3>1 DEF FInv, Typed, registry
    <3>3. ListAgrees' /\ ~ Listed(f)'
      BY <3>1 DEF FInv, ListAgrees, Listed
    <3> QED  BY <3>1, <3>2, <3>3, StreamFrame
  <2> QED  BY <1>2, <2>1, SubscribeTells, SendAllTells, DeliverTells, CancelTells DEF StreamStep
<1>3. CASE UNCHANGED vars
  BY <1>3 DEF FInv, Typed, CallsAgree, OneTells, TellsWhatIs, ListAgrees, InStep, Listed,
     StillToTell, Follows, Announcing, Place, Live, vars, registry
<1> QED  BY <1>1, <1>2, <1>3 DEF Next

\* A follower who missed nothing, whose channel is empty while no call is telling anything,
\* has been told what sessions there are and where, but for those that two calls announced
\* at once: for any callers, followers, ids and buffers.
THEOREM FollowersAgree == Spec => []FollowerAgrees
<1>1. Init => FInv
  BY FStarts
<1>2. FInv /\ [Next]_vars => FInv'
  BY FKept
<1>3. FInv => FollowerAgrees
  <2> SUFFICES ASSUME FInv, NEW f \in Followers, stream[f] = "streaming", channel[f] = << >>,
                      f \notin missed, \A c \in Callers : call[c].event = None,
                      NEW id \in Ids \ tangled
               PROVE  view[f][id] = Place(id)
    BY DEF FollowerAgrees, Place
  <2>1. ~ StillToTell(f, id)
    BY DEF StillToTell, Announcing
  <2>2. Follows(f, id)
    BY <2>1 DEF FInv, InStep, Listed
  <2> QED  BY <2>2 DEF Follows, Leaves
<1> QED  BY <1>1, <1>2, <1>3, PTL DEF Spec
=============================================================================
