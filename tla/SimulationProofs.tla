-------------------------- MODULE SimulationProofs --------------------------
(***************************************************************************)
(* Proofs about Simulation, for every number of bodies, workers, readers,  *)
(* rates, speeds and dataset levels.                                       *)
(***************************************************************************)
EXTENDS Simulation, TLAPS

-----------------------------------------------------------------------------
(* Slices: how update hands a phase's bodies to its workers.               *)

\* The run length is positive and the runs of n workers reach the end (the
\* rounding up of update's division).
LEMMA PerWorkerCovers ==
  ASSUME NEW n \in Nat \ {0}, NEW len \in Nat, len # 0
  PROVE  /\ PerWorker(n, len) \in Nat \ {0}
         /\ len <= n * PerWorker(n, len)
  BY Z3 DEF PerWorker

\* Every place of the slice is in the run of a worker that is started.
LEMMA SlicesCover ==
  ASSUME NEW n \in Nat \ {0}, NEW len \in Nat, NEW o \in 1 .. len
  PROVE  \E i \in Started(n, len) : o \in Slice(i, n, len)
<1> DEFINE P == PerWorker(n, len)
           i == (o - 1) \div P
<1>1. P \in Nat \ {0} /\ len <= n * P
  BY PerWorkerCovers
<1> HIDE DEF P
<1>2. i \in Nat /\ i * P <= o - 1 /\ o - 1 < (i + 1) * P
  BY <1>1, Z3
<1> HIDE DEF i
<1>3. i < n
  <2>1. i * P < n * P
    BY <1>1, <1>2
  <2> QED BY <2>1, <1>1, <1>2, Z3
<1>4. i \in Started(n, len)
  BY <1>1, <1>2, <1>3 DEF Started, P
<1>5. o \in Slice(i, n, len)
  BY <1>1, <1>2 DEF Slice, P
<1> QED BY <1>4, <1>5

\* No place is in two runs: no two workers update the same body.
LEMMA SlicesDisjoint ==
  ASSUME NEW n \in Nat \ {0}, NEW len \in Nat, NEW o \in 1 .. len,
         NEW i \in Nat, NEW j \in Nat, i # j, o \in Slice(i, n, len)
  PROVE  o \notin Slice(j, n, len)
<1> DEFINE P == PerWorker(n, len)
<1>1. P \in Nat \ {0}
  BY PerWorkerCovers
<1>2. i * P < o /\ o <= (i + 1) * P
  BY DEF Slice
<1> SUFFICES ASSUME j * P < o, o <= (j + 1) * P
             PROVE  FALSE
  BY DEF Slice
<1> HIDE DEF P
<1>3. CASE i < j
  <2>1. (i + 1) * P <= j * P
    BY <1>1, <1>3, Z3
  <2> QED BY <2>1, <1>1, <1>2
<1>4. CASE j < i
  <2>1. (j + 1) * P <= i * P
    BY <1>1, <1>4, Z3
  <2> QED BY <2>1, <1>1, <1>2
<1> QED BY <1>3, <1>4

\* Only workers that exist are started, and their places are bodies.
LEMMA StartedAreNat ==
  ASSUME NEW n \in Nat \ {0}, NEW len \in Nat
  PROVE  Started(n, len) \subseteq Nat
  BY DEF Started

-----------------------------------------------------------------------------
(* Buffers: what the physics operators make of one.                        *)

\* Each physics operator gives a buffer again, and writes what its name says.
LEMMA BufferUpdates ==
  ASSUME NEW b \in Buffer, NEW S
  PROVE  /\ Moved(b, S) \in Buffer
         /\ Centred(b, S) \in Buffer
         /\ Ticked(b) \in Buffer
         /\ View(b) \in Views
         /\ \A c \in Buffer : Carried(b, c) \in Buffer
<1> USE BodiesAssumption, RangesAssumption
<1>1. Moved(b, S) \in Buffer
  BY DEF Moved, Buffer
<1>2. Centred(b, S) \in Buffer
  <2>1. \A k \in Kids : ParentOf[k] # 0 => ParentOf[k] \in Bodies
    BY DEF Bodies
  <2> QED BY <2>1 DEF Centred, Buffer
<1>3. Ticked(b) \in Buffer
  <2>1. Elapsed(b) \in Nat
    BY DEF Elapsed, Buffer
  <2>2. b.time + Elapsed(b) \in Nat
    BY <2>1 DEF Buffer
  <2> QED BY <2>1, <2>2 DEF Ticked, Buffer
<1>4. View(b) \in Views
  BY DEF View, Views, Buffer
<1>5. \A c \in Buffer : Carried(b, c) \in Buffer
  BY DEF Carried, Buffer
<1> QED BY <1>1, <1>2, <1>3, <1>4, <1>5

-----------------------------------------------------------------------------
(* Types.                                                                  *)

\* A channel of capacity one holds nothing or one value of its kind.
LEMMA SlotHead ==
  ASSUME NEW S, NEW ch \in {<<>>} \union {<<s>> : s \in S}, ch # <<>>
  PROVE  Head(ch) \in S
  OBVIOUS

\* Either way of swapping leaves buffers and pointers of the right type.
LEMMA SwapTypes ==
  ASSUME TypeOK, Swap
  PROVE  /\ bufs' \in [BufId -> Buffer]
         /\ front' \in {1, 2} /\ back' \in {1, 2}
         /\ mine' \in BufId /\ held' \in BufId /\ owner' \in BufId
         /\ inPlace' \in BOOLEAN
         /\ exchanged' \in BOOLEAN /\ cloned' \in BOOLEAN
<1>0. exchanged' \in BOOLEAN /\ cloned' \in BOOLEAN
  BY DEF Swap, Noted, TypeOK
<1>1. bufs[front] \in Buffer /\ bufs[back] \in Buffer /\ {1, 2} \subseteq BufId
  BY DEF TypeOK, BufId
<1>2. CASE inPlace
  <2>1. Carried(bufs[back], bufs[front]) \in Buffer
    BY <1>1, BufferUpdates
  <2> QED BY <1>0, <1>1, <1>2, <2>1 DEF Swap, SwapInPlace, TypeOK
<1>3. CASE ~inPlace
  <2>1. \A p \in BufId : Strand(p) \in BufId
    BY DEF Strand, BufId, Garbage
  <2> QED BY <1>0, <1>1, <1>3, <2>1 DEF Swap, SwapClone, TypeOK
<1> QED BY <1>2, <1>3

\* The loaded state has the right types.
LEMMA TypeInit == Init => TypeOK
<1> SUFFICES ASSUME Init PROVE TypeOK
  OBVIOUS
<1> USE BodiesAssumption, RangesAssumption
<1>1. bufs \in [BufId -> Buffer]
  <2>1. \A n \in Teams, r \in Rates : Loaded(n, r) \in Buffer
    BY DEF Loaded, Buffer
  <2> QED BY <2>1 DEF Init
<1>2. team \in Teams /\ speed \in Speeds /\ front \in {1, 2} /\ back \in {1, 2}
  BY DEF Init
<1>3. view \in [Readers -> Views \union {NoView}]
  BY DEF Init
<1> QED BY <1>1, <1>2, <1>3 DEF Init, TypeOK, BufId, Garbage, Stages

\* Every action keeps the types; one step per action below.
LEMMA TypeNext == TypeOK /\ [Next]_vars => TypeOK'
<1> SUFFICES ASSUME TypeOK, [Next]_vars PROVE TypeOK'
  OBVIOUS
<1> USE BodiesAssumption, RangesAssumption DEF history
<1>b. /\ {1, 2} \subseteq BufId /\ Garbage \in BufId
      /\ \A b \in BufId : bufs[b] \in Buffer
  BY DEF TypeOK, BufId, Garbage
<1>1. CASE Start
  BY <1>1 DEF Start, TypeOK, Stages, bufVars, chanVars, pubVars, uiVars
<1>2. CASE Tick
  <2>1. speed' \in Speeds
    BY <1>2, SlotHead DEF Tick, TypeOK
  <2>2. acc' \in Nat
    BY <1>2, <2>1 DEF Tick, TypeOK
  <2> QED BY <1>2, <2>1, <2>2 DEF Tick, TypeOK, Stages, bufVars, pubVars, uiVars
<1>3. CASE NextStep
  <2>1. acc' \in Nat
    BY <1>3 DEF NextStep, TypeOK
  <2>2. CASE ~ChangesLevel
    BY <1>3, <2>1, <2>2 DEF NextStep, Drained, TypeOK, Stages, pubVars, uiVars
  <2>3. CASE ChangesLevel
    <3>1. cmd' \in Datasets
      BY <1>3, <2>3, SlotHead DEF NextStep, ChangesLevel, TypeOK
    <3>2. \A b \in Buffer : /\ [b EXCEPT !.belts = b.belts \union {cmd'}] \in Buffer
                            /\ [b EXCEPT !.dataset = cmd'] \in Buffer
      BY <3>1 DEF Buffer
    <3>3. bufs' \in [BufId -> Buffer]
      <4>1. \/ bufs' = [bufs EXCEPT ![back].belts = bufs[back].belts \union {cmd'}]
            \/ bufs' = [bufs EXCEPT ![back].dataset = cmd']
        BY <1>3, <2>3 DEF NextStep
      <4>2. bufs[back] \in Buffer /\ bufs \in [BufId -> Buffer]
        BY <1>b DEF TypeOK
      <4> QED BY <3>2, <4>1, <4>2
    <3> QED BY <1>3, <1>b, <2>1, <2>3, <3>1, <3>3
            DEF NextStep, Drained, TypeOK, Stages, pubVars, uiVars
  <2> QED BY <2>2, <2>3
<1>4. CASE GrowFront
  <2>1. \A b \in Buffer : /\ [b EXCEPT !.belts = b.belts \union {cmd}] \in Buffer
                          /\ [b EXCEPT !.dataset = cmd] \in Buffer
    BY DEF Buffer, TypeOK
  <2>2. bufs' \in [BufId -> Buffer]
    BY <1>4, <1>b, <2>1 DEF GrowFront, TypeOK
  <2> QED BY <1>4, <2>2 DEF GrowFront, TypeOK, Stages, chanVars, pubVars, uiVars
<1>5. CASE ShowFront
  <2>1. \A b \in Buffer : [b EXCEPT !.dataset = cmd] \in Buffer
    BY DEF Buffer, TypeOK
  <2>2. bufs' \in [BufId -> Buffer]
    BY <1>5, <1>b, <2>1 DEF ShowFront, TypeOK
  <2> QED BY <1>5, <2>2 DEF ShowFront, TypeOK, Stages, chanVars, pubVars, uiVars
<1>6. CASE StepsDone
  BY <1>6 DEF StepsDone, TypeOK, Stages, bufVars, chanVars, pubVars, uiVars
<1>7. CASE Begin
  <2>1. bufs' \in [BufId -> Buffer]
    BY <1>7, <1>b, BufferUpdates DEF Begin, TypeOK
  <2>2. team' \in Teams
    BY <1>7, <1>b DEF Begin, TypeOK, Buffer
  <2>3. pending' \subseteq Nat
    BY <1>7, <2>2, StartedAreNat DEF Begin
  <2> QED BY <1>7, <1>b, <2>1, <2>2, <2>3
          DEF Begin, TypeOK, Stages, chanVars, pubVars, uiVars
<1>8. CASE FollowParents
  <2>1. bufs' \in [BufId -> Buffer]
    BY <1>8, <1>b, BufferUpdates DEF FollowParents, TypeOK
  <2>2. pending' \subseteq Nat
    BY <1>8, StartedAreNat DEF FollowParents, TypeOK
  <2> QED BY <1>8, <2>1, <2>2
          DEF FollowParents, TypeOK, Stages, chanVars, pubVars, uiVars
<1>9. CASE GravityStep
  <2>1. bufs' \in [BufId -> Buffer]
    BY <1>9, <1>b, BufferUpdates DEF GravityStep, TypeOK
  <2> QED BY <1>9, <2>1 DEF GravityStep, TypeOK, Stages, chanVars, pubVars, uiVars
<1>10. CASE RingStep
  <2>1. bufs' \in [BufId -> Buffer]
    BY <1>10, <1>b, BufferUpdates DEF RingStep, TypeOK
  <2> QED BY <1>10, <2>1 DEF RingStep, TypeOK, Stages, chanVars, pubVars, uiVars
<1>11. CASE PublishStep
  BY <1>11, SwapTypes DEF PublishStep, TypeOK, Stages, chanVars, pubVars
<1>12. CASE Hook
  BY <1>12, <1>b, BufferUpdates
  DEF Hook, TypeOK, Stages, bufVars, chanVars, uiVars
<1>13. CASE StoreSnapshot
  BY <1>13 DEF StoreSnapshot, TypeOK, Stages, bufVars, chanVars, uiVars
<1>14. CASE Work
  <2> PICK i \in pending : RootWorker(i) \/ KidWorker(i)
    BY <1>14 DEF Work
  <2>1. bufs' \in [BufId -> Buffer]
    <3>1. PICK S : bufs' = [bufs EXCEPT ![mine] = Moved(@, S)]
      BY DEF RootWorker, KidWorker
    <3> QED BY <1>b, <3>1, BufferUpdates DEF TypeOK
  <2> QED BY <2>1 DEF RootWorker, KidWorker, TypeOK, chanVars, pubVars, uiVars
<1>15. CASE Stop
  BY <1>15 DEF Stop, TypeOK, Stages, bufVars, chanVars, pubVars, uiVars
<1>16. ASSUME NEW r \in Readers, LockFront(r) \/ UnlockFront(r) PROVE TypeOK'
  <2>1. View(bufs[front]) \in Views
    BY <1>b, BufferUpdates DEF TypeOK
  <2>2. view' \in [Readers -> Views \union {NoView}]
    BY <1>16, <2>1 DEF LockFront, UnlockFront, TypeOK
  <2> QED BY <1>16, <2>2
          DEF LockFront, UnlockFront, TypeOK, bufVars, simVars, chanVars, pubVars, uiVars
<1>17. ASSUME NEW on \in BOOLEAN, SetInPlaceSwap(on) PROVE TypeOK'
  BY <1>17 DEF SetInPlaceSwap, TypeOK, simVars, chanVars, pubVars, uiVars
<1>18. ASSUME NEW s \in Speeds, SetSpeed(s) PROVE TypeOK'
  BY <1>18 DEF SetSpeed, TypeOK, bufVars, simVars, pubVars, uiVars
<1>19. ASSUME NEW d \in Datasets, SetAsteroidDataset(d) PROVE TypeOK'
  BY <1>19 DEF SetAsteroidDataset, TypeOK, bufVars, simVars, pubVars, uiVars
<1>20. CASE GetBack
  BY <1>20, <1>b DEF GetBack, TypeOK, bufVars, simVars, chanVars, pubVars
<1>21. ASSUME NEW r \in Rates, WriteRate(r) PROVE TypeOK'
  <2>1. \A b \in Buffer : [b EXCEPT !.rate = r] \in Buffer
    BY DEF Buffer
  <2>2. bufs' \in [BufId -> Buffer]
    BY <1>21, <1>b, <2>1 DEF WriteRate, TypeOK
  <2> QED BY <1>21, <1>b, <2>2 DEF WriteRate, TypeOK, simVars, chanVars, pubVars
<1>22. ASSUME NEW n \in Teams, SetWorkerCount(n) PROVE TypeOK'
  <2>1. \A b \in Buffer : [b EXCEPT !.workers = n] \in Buffer
    BY DEF Buffer
  <2>2. bufs' \in [BufId -> Buffer]
    BY <1>22, <1>b, <2>1 DEF SetWorkerCount, TypeOK
  <2> QED BY <1>22, <2>2 DEF SetWorkerCount, TypeOK, simVars, chanVars, pubVars
<1>23. CASE RetuneSwap
  BY <1>23, SwapTypes DEF RetuneSwap, TypeOK, Stages, chanVars, pubVars
<1>24. CASE UNCHANGED vars
  BY <1>24 DEF vars, TypeOK, bufVars, simVars, chanVars, pubVars, uiVars
<1> QED
  BY <1>1, <1>2, <1>3, <1>4, <1>5, <1>6, <1>7, <1>8, <1>9, <1>10, <1>11, <1>12,
     <1>13, <1>14, <1>15, <1>16, <1>17, <1>18, <1>19, <1>20, <1>21, <1>22, <1>23,
     <1>24 DEF Next, Loop, Clients

\* The types, and the capacity of both channels, hold in every reachable state
\* (the values the goroutine, its clients and the UI put into the shared state).
THEOREM TypeCorrect == Spec => []TypeOK
  BY TypeInit, TypeNext, PTL DEF Spec

-----------------------------------------------------------------------------
(* The inductive invariant.  It relates the buffer being computed to the   *)
(* one on show: outside a step they show the same world, inside a step     *)
(* each body of the back buffer is either still where the front buffer has *)
(* it or one step ahead, and which of the two is a matter of pc and of the *)
(* workers that have not finished.                                         *)

\* How the settings are used by the shipped systems: the worker count is set
\* before the loop starts, and an N-body system neither has belts nor has its
\* swap setting changed.
Disciplined ==
  \A m \in Modes : ~LiveRetune[m] /\ (m = "nbody" => ~CanToggle[m] /\ ~Belted[m])

InStep  == pc \in {"roots", "kids", "gravity", "rings", "swap"}
OnLevel == pc \in {"grow", "show"}

F == bufs[front]
B == bufs[back]

\* The pointers, and who holds which.
Shape ==
  /\ front # back
  /\ mode = "nbody" => owner = back /\ ~inPlace
  /\ ui = "swapping" => pc = "created"
  /\ InStep \/ OnLevel => mine = back
  /\ pc \in {"grow", "roots", "kids"} => mode # "nbody"
  /\ pc \in {"gravity", "rings", "swap"} => mode = "nbody"
  /\ pc = "roots" => pending \subseteq Started(team, NumRoots)
  /\ pc = "kids" => pending \subseteq Started(team, NumKids)

\* The body has not been advanced yet in the step that is under way.
Awaits(o) ==
  \/ pc = "roots" /\ (o \in Kids \/ \E i \in pending : o \in Slice(i, team, NumRoots))
  \/ pc = "kids" /\ o \in Kids /\ \E i \in pending : o - NumRoots \in Slice(i, team, NumKids)
  \/ pc = "gravity"
  \/ pc = "rings" /\ o \in Rings

\* No step is under way: the buffers differ at most in the level on show.
Rest ==
  ~InStep =>
    /\ B.time = F.time /\ B.delta = F.delta
    /\ B.anomaly = F.anomaly /\ B.center = F.center
    /\ B.dataset = IF pc = "show" THEN cmd ELSE F.dataset

\* A step is under way in the back buffer.
Progress ==
  InStep =>
    /\ B.delta \in Rates \union {0}
    /\ B.time = F.time + B.delta
    /\ B.dataset = F.dataset
    /\ \A o \in Bodies :
         B.anomaly[o] = F.anomaly[o] + (IF Awaits(o) THEN 0 ELSE B.delta)
    /\ pc \in {"roots", "gravity", "rings"} => B.center = F.center
    /\ pc \in {"kids", "swap"} =>
         \A k \in Kids : B.center[k] = World!CentreAfter(View(F), mode, B.delta, k)

\* The belt objects of the two buffers.
Belts == B.belts = IF pc = "grow" THEN F.belts \union {cmd} ELSE F.belts

IInv == Shape /\ Rest /\ Progress /\ Belts

\* What a step may do to the front buffer: leave what it shows alone, or, with no
\* reader inside, show one more physics step or another level.
FrontStep ==
  \/ View(F)' = View(F)
  \/ CanLock /\ \E d \in Rates \union {0} : View(F)' = World!Advanced(View(F), mode, d)
  \/ CanLock /\ \E d \in Datasets : View(F)' = [View(F) EXCEPT !.dataset = d]

\* No action changes the mode.
LEMMA ModeKept == [Next]_vars => mode' = mode
  BY DEF Next, Loop, Work, Clients, vars, Start, Tick, NextStep, GrowFront, ShowFront,
         StepsDone, Begin, FollowParents, GravityStep, RingStep, PublishStep, Hook,
         StoreSnapshot, RootWorker, KidWorker, Stop, LockFront, UnlockFront,
         SetInPlaceSwap, SetSpeed, SetAsteroidDataset, GetBack, WriteRate,
         SetWorkerCount, RetuneSwap

\* A loaded simulation satisfies the inductive invariant.
LEMMA IInvInit == Init => IInv
<1> SUFFICES ASSUME Init PROVE IInv
  OBVIOUS
<1>1. Shape
  <2>1. mode = "nbody" => ~inPlace
    BY Zenon DEF Init
  <2> QED BY <2>1 DEF Init, Shape, InStep, OnLevel
<1>2. Rest /\ Progress /\ Belts
  <2>1. pc = "created" /\ front = 1 /\ back = 2
    BY DEF Init
  <2>2. PICK n \in Teams, r \in Rates :
          bufs = [b \in BufId |-> Loaded(n, IF b = 2 THEN r ELSE 1)]
    BY DEF Init
  <2>3. bufs[1] = Loaded(n, 1) /\ bufs[2] = Loaded(n, r)
    BY <2>2 DEF BufId
  <2> QED BY <2>1, <2>3 DEF Rest, Progress, Belts, InStep, F, B, Loaded
<1> QED BY <1>1, <1>2 DEF IInv

\* Steps that touch neither the buffers nor the physics.
Quiet ==
  /\ UNCHANGED <<mode, bufs, front, back, owner, inPlace, mine, team, pending, cmd>>
  /\ ui' = "swapping" => ui = "swapping"
  /\ \/ pc' = pc
     \/ /\ ui # "swapping"
        /\ {pc, pc'} \subseteq
             {"created", "tuned", "wait", "loop", "begin", "hook", "store", "done"}

\* Steps that move no buffer and enter no phase (ticks, locks, sends, the hook).
LEMMA QuietKeeps == IInv /\ Quiet => IInv' /\ FrontStep
<1> SUFFICES ASSUME IInv, Quiet PROVE IInv' /\ FrontStep
  OBVIOUS
<1>1. F' = F /\ B' = B
  BY DEF Quiet, F, B
<1>2. InStep' = InStep /\ OnLevel' = OnLevel
  BY DEF Quiet, InStep, OnLevel
<1>3. Shape'
  BY <1>2 DEF IInv, Quiet, Shape, InStep, OnLevel
<1>4. Rest'
  BY <1>1, <1>2 DEF IInv, Quiet, Rest
<1>5. Progress'
  BY <1>1, <1>2 DEF IInv, Quiet, Progress, Awaits, InStep, View
<1>6. Belts'
  BY <1>1 DEF IInv, Quiet, Belts
<1>7. FrontStep
  BY <1>1 DEF FrontStep, View
<1> QED BY <1>3, <1>4, <1>5, <1>6, <1>7 DEF IInv

\* What the record updates of the settings leave alone.
LEMMA SettingFields ==
  ASSUME NEW z \in Buffer, NEW x, NEW y, y \in {z, [z EXCEPT !.rate = x], [z EXCEPT !.workers = x]}
  PROVE  /\ y.time = z.time /\ y.delta = z.delta /\ y.dataset = z.dataset
         /\ y.belts = z.belts /\ y.anomaly = z.anomaly /\ y.center = z.center
  BY DEF Buffer

\* Writing the rate or the worker count of some buffer disturbs nothing else.
LEMMA SettingKeeps ==
  ASSUME TypeOK, IInv, pc' = pc, ui' = "swapping" => pc = "created",
         UNCHANGED <<mode, front, back, owner, inPlace, mine, team, pending, cmd>>,
         NEW b \in BufId, NEW x,
         \/ bufs' = [bufs EXCEPT ![b].rate = x]
         \/ bufs' = [bufs EXCEPT ![b].workers = x]
  PROVE  IInv' /\ FrontStep
<1>1. \A c \in BufId :
        /\ bufs'[c].time = bufs[c].time /\ bufs'[c].delta = bufs[c].delta
        /\ bufs'[c].dataset = bufs[c].dataset /\ bufs'[c].belts = bufs[c].belts
        /\ bufs'[c].anomaly = bufs[c].anomaly /\ bufs'[c].center = bufs[c].center
  <2> TAKE c \in BufId
  <2>1. bufs[c] \in Buffer
    BY DEF TypeOK
  <2>2. bufs'[c] \in {bufs[c], [bufs[c] EXCEPT !.rate = x], [bufs[c] EXCEPT !.workers = x]}
    BY DEF TypeOK
  <2> QED BY <2>1, <2>2, SettingFields
<1>2. View(F)' = View(F) /\ View(B)' = View(B)
  BY <1>1 DEF View, F, B, TypeOK, BufId
<1>3. Shape'
  BY DEF IInv, Shape, InStep, OnLevel
<1>4. Rest' /\ Belts'
  <2>1. front \in BufId /\ back \in BufId
    BY DEF TypeOK, BufId
  <2> QED BY <1>1, <2>1 DEF IInv, Rest, Belts, InStep, F, B
<1>5. Progress'
  BY <1>1, <1>2 DEF IInv, Progress, Awaits, InStep, F, B, TypeOK, BufId
<1> QED BY <1>2, <1>3, <1>4, <1>5 DEF IInv, FrontStep

\* Swap: the back buffer becomes the one on show, and the new back buffer carries
\* on from it.
LEMMA SwapShowsBack ==
  ASSUME TypeOK, front # back, Swap
  PROVE  /\ front' # back' /\ F' = B /\ CanLock
         /\ B'.time = B.time /\ B'.delta = B.delta /\ B'.rate = B.rate
         /\ B'.dataset = B.dataset /\ B'.anomaly = B.anomaly /\ B'.center = B.center
         /\ B'.belts \in {B.belts, F.belts}
         /\ ~inPlace /\ owner = back => owner' = back'
         /\ inPlace' = inPlace
<1>1. front \in BufId /\ back \in BufId /\ B \in Buffer /\ F \in Buffer
  BY DEF TypeOK, BufId, B, F
<1>2. CASE inPlace
  <2>1. F' = B /\ B' = Carried(B, F) /\ front' # back'
    BY <1>1, <1>2 DEF Swap, SwapInPlace, F, B, TypeOK
  <2>2. /\ Carried(B, F).time = B.time /\ Carried(B, F).delta = B.delta
        /\ Carried(B, F).rate = B.rate /\ Carried(B, F).dataset = B.dataset
        /\ Carried(B, F).anomaly = B.anomaly /\ Carried(B, F).center = B.center
        /\ Carried(B, F).belts = F.belts
    BY <1>1 DEF Carried, Buffer
  <2> QED BY <1>2, <2>1, <2>2 DEF Swap
<1>3. CASE ~inPlace
  <2>1. F' = B /\ B' = B /\ front' # back'
    BY <1>1, <1>3 DEF Swap, SwapClone, F, B, TypeOK
  <2> QED BY <1>3, <2>1 DEF Swap, SwapClone, Strand
<1> QED BY <1>2, <1>3

\* SetWorkerCount before the loop starts.
LEMMA RetuneKeeps == TypeOK /\ IInv /\ RetuneSwap => IInv' /\ FrontStep
<1> SUFFICES ASSUME TypeOK, IInv, RetuneSwap PROVE IInv' /\ FrontStep
  OBVIOUS
<1>1. pc = "created" /\ pc' = "tuned" /\ ui' = "idle" /\ mode' = mode /\ Swap /\ front # back
  BY DEF IInv, Shape, RetuneSwap
<1>2. ~InStep /\ ~InStep' /\ ~OnLevel /\ ~OnLevel'
  BY <1>1 DEF InStep, OnLevel
<1>3. Shape'
  BY <1>1, <1>2, SwapShowsBack DEF IInv, Shape
<1>4. Rest' /\ Progress' /\ Belts'
  BY <1>1, <1>2, SwapShowsBack DEF IInv, Rest, Progress, Belts
<1>5. View(F)' = View(F)
  BY <1>1, <1>2, SwapShowsBack DEF IInv, Rest, View
<1> QED BY <1>3, <1>4, <1>5 DEF IInv, FrontStep

\* The abstract step, field by field.
LEMMA AdvancedFields ==
  ASSUME NEW b, NEW m, NEW d
  PROVE  World!Advanced(View(b), m, d)
          = [time |-> b.time + d, delta |-> d, dataset |-> b.dataset,
             anomaly |-> [o \in Bodies |-> b.anomaly[o] + d],
             center |-> [k \in Kids |-> World!CentreAfter(View(b), m, d, k)]]
  BY DEF World!Advanced, View, World!Bodies, World!Kids, Bodies, Kids

\* A finished step becomes visible as one step of the world.
LEMMA PublishKeeps == TypeOK /\ IInv /\ PublishStep => IInv' /\ FrontStep
<1> SUFFICES ASSUME TypeOK, IInv, PublishStep PROVE IInv' /\ FrontStep
  OBVIOUS
<1>1. /\ pc \in {"kids", "swap"} /\ (pc = "kids" => pending = {})
      /\ pc' = "loop" /\ ui' = ui /\ mode' = mode /\ Swap /\ front # back
  BY DEF IInv, Shape, PublishStep, SwapDue
<1>2. InStep /\ ~InStep' /\ ~OnLevel /\ ~OnLevel'
  BY <1>1 DEF InStep, OnLevel
<1>3. Shape'
  BY <1>1, <1>2, SwapShowsBack DEF IInv, Shape
<1>4. Rest' /\ Progress' /\ Belts'
  BY <1>1, <1>2, SwapShowsBack DEF IInv, Rest, Progress, Belts
<1>5. View(B) = World!Advanced(View(F), mode, B.delta)
  <2>1. \A o \in Bodies : ~Awaits(o)
    BY <1>1 DEF Awaits
  <2>2. B.anomaly = [o \in Bodies |-> F.anomaly[o] + B.delta]
    <3>1. \A o \in Bodies : B.anomaly[o] = F.anomaly[o] + B.delta
      BY <1>2, <2>1 DEF IInv, Progress
    <3>2. B.anomaly \in [Bodies -> Nat]
      BY DEF B, TypeOK, Buffer, BufId
    <3> QED BY <3>1, <3>2
  <2>3. B.center = [k \in Kids |-> World!CentreAfter(View(F), mode, B.delta, k)]
    <3>1. \A k \in Kids : B.center[k] = World!CentreAfter(View(F), mode, B.delta, k)
      BY <1>1, <1>2 DEF IInv, Progress
    <3>2. B.center \in [Kids -> Nat]
      BY DEF B, TypeOK, Buffer, BufId
    <3> QED BY <3>1, <3>2
  <2>4. B.time = F.time + B.delta /\ B.dataset = F.dataset
    BY <1>2 DEF IInv, Progress
  <2>5. World!Advanced(View(F), mode, B.delta)
          = [time |-> F.time + B.delta, delta |-> B.delta, dataset |-> F.dataset,
             anomaly |-> [o \in Bodies |-> F.anomaly[o] + B.delta],
             center |-> [k \in Kids |-> World!CentreAfter(View(F), mode, B.delta, k)]]
    BY AdvancedFields
  <2> QED BY <2>2, <2>3, <2>4, <2>5 DEF View
<1>6. View(F)' = View(B) /\ CanLock
  BY <1>1, SwapShowsBack DEF View
<1>7. B.delta \in Rates \union {0}
  BY <1>2 DEF IInv, Progress
<1>8. FrontStep
  BY <1>5, <1>6, <1>7 DEF FrontStep
<1> QED BY <1>3, <1>4, <1>8 DEF IInv

-----------------------------------------------------------------------------
(* applyFn: the three steps of a dataset change.                           *)

\* What the record updates of a dataset change leave alone.
LEMMA LevelFields ==
  ASSUME NEW z \in Buffer, NEW x
  PROVE  LET g == [z EXCEPT !.belts = x]
             l == [z EXCEPT !.dataset = x] IN
         /\ g.time = z.time /\ g.delta = z.delta /\ g.dataset = z.dataset
         /\ g.belts = x /\ g.anomaly = z.anomaly /\ g.center = z.center
         /\ l.time = z.time /\ l.delta = z.delta /\ l.dataset = x
         /\ l.belts = z.belts /\ l.anomaly = z.anomaly /\ l.center = z.center
  BY DEF Buffer

\* A write to the back buffer leaves the front one alone.
LEMMA WriteBack ==
  ASSUME TypeOK, front # back, UNCHANGED <<front, back>>, NEW x,
         bufs' = [bufs EXCEPT ![back] = x]
  PROVE  F' = F /\ B' = x
  BY DEF TypeOK, F, B, BufId

\* The front and the back buffer are buffers.
LEMMA BuffersTyped ==
  ASSUME TypeOK
  PROVE  F \in Buffer /\ B \in Buffer /\ front \in BufId /\ back \in BufId
  BY DEF TypeOK, F, B, BufId

\* The iteration's drain: either nothing, or the back buffer gains the level.
LEMMA NextStepKeeps == TypeOK /\ IInv /\ Disciplined /\ NextStep => IInv' /\ FrontStep
<1> SUFFICES ASSUME TypeOK, IInv, Disciplined, NextStep PROVE IInv' /\ FrontStep
  OBVIOUS
<1>0. /\ pc = "loop" /\ front # back /\ UNCHANGED <<front, back, mode, owner, ui>>
      /\ ui # "swapping" /\ mode \in Modes
  BY DEF NextStep, IInv, Shape, uiVars, TypeOK
<1>a. ~InStep /\ B.belts = F.belts /\ B.dataset = F.dataset
  BY <1>0 DEF InStep, IInv, Rest, Belts
<1>1. CASE ~ChangesLevel
  <2>1. Quiet
    BY <1>0, <1>1 DEF NextStep, Quiet, uiVars
  <2> QED BY <2>1, QuietKeeps
<1>2. CASE ChangesLevel /\ Belted[mode] /\ cmd' \notin B.belts
  <2>1. /\ bufs' = [bufs EXCEPT ![back] = [bufs[back] EXCEPT !.belts = bufs[back].belts \union {cmd'}]]
        /\ pc' = "grow" /\ mine' = back
    BY <1>2 DEF NextStep, B
  <2>2. F' = F /\ B' = [B EXCEPT !.belts = B.belts \union {cmd'}]
    BY <1>0, <2>1, WriteBack DEF B
  <2>3. /\ B'.time = B.time /\ B'.delta = B.delta /\ B'.dataset = B.dataset
        /\ B'.belts = B.belts \union {cmd'}
        /\ B'.anomaly = B.anomaly /\ B'.center = B.center
    BY <2>2, LevelFields, BuffersTyped
  <2>4. mode # "nbody"
    BY <1>0, <1>2 DEF Disciplined
  <2>5. Shape'
    BY <1>0, <2>1, <2>4 DEF Shape, InStep, OnLevel
  <2>6. Rest' /\ Progress' /\ Belts'
    BY <1>a, <1>0, <2>1, <2>2, <2>3 DEF Rest, Progress, Belts, InStep, IInv
  <2> QED BY <2>2, <2>5, <2>6 DEF IInv, FrontStep, View
<1>3. CASE ChangesLevel /\ ~(Belted[mode] /\ cmd' \notin B.belts)
  <2>1. /\ bufs' = [bufs EXCEPT ![back] = [bufs[back] EXCEPT !.dataset = cmd']]
        /\ pc' = "show" /\ mine' = back /\ inPlace' = inPlace
    BY <1>3 DEF NextStep, B
  <2>2. F' = F /\ B' = [B EXCEPT !.dataset = cmd']
    BY <1>0, <2>1, WriteBack DEF B
  <2>3. /\ B'.time = B.time /\ B'.delta = B.delta /\ B'.dataset = cmd'
        /\ B'.belts = B.belts /\ B'.anomaly = B.anomaly /\ B'.center = B.center
    BY <2>2, LevelFields, BuffersTyped
  <2>4. Shape'
    BY <1>0, <2>1 DEF Shape, InStep, OnLevel, IInv
  <2>5. Rest' /\ Progress' /\ Belts'
    BY <1>a, <1>0, <2>1, <2>2, <2>3 DEF Rest, Progress, Belts, InStep, IInv
  <2> QED BY <2>2, <2>4, <2>5 DEF IInv, FrontStep, View
<1> QED BY <1>1, <1>2, <1>3

\* The mirror: after it both buffers hold the same belt objects again.
LEMMA GrowFrontKeeps == TypeOK /\ IInv /\ GrowFront => IInv' /\ FrontStep
<1> SUFFICES ASSUME TypeOK, IInv, GrowFront PROVE IInv' /\ FrontStep
  OBVIOUS
<1>1. /\ pc = "grow" /\ pc' = "show" /\ front # back /\ mine = back /\ mode # "nbody"
      /\ ui # "swapping" /\ UNCHANGED <<front, back, mode, owner, ui, mine, cmd>>
  BY DEF GrowFront, IInv, Shape, uiVars, OnLevel
<1>2. F' = [F EXCEPT !.belts = F.belts \union {cmd}] /\ B' = [B EXCEPT !.dataset = cmd]
  BY <1>1, BuffersTyped DEF GrowFront, F, B, TypeOK
<1>3. /\ F'.belts = F.belts \union {cmd} /\ B'.belts = B.belts
      /\ F'.dataset = F.dataset /\ B'.dataset = cmd
      /\ F'.time = F.time /\ F'.delta = F.delta
      /\ B'.time = B.time /\ B'.delta = B.delta
      /\ F'.anomaly = F.anomaly /\ F'.center = F.center
      /\ B'.anomaly = B.anomaly /\ B'.center = B.center
  BY <1>2, LevelFields, BuffersTyped
<1>4. Shape'
  BY <1>1 DEF Shape, InStep, OnLevel
<1>5. Rest' /\ Progress' /\ Belts'
  BY <1>1, <1>3 DEF Rest, Progress, Belts, InStep, IInv
<1> QED BY <1>3, <1>4, <1>5 DEF IInv, FrontStep, View

\* The last write of a dataset change is the one the world sees.
LEMMA ShowFrontKeeps == TypeOK /\ IInv /\ ShowFront => IInv' /\ FrontStep
<1> SUFFICES ASSUME TypeOK, IInv, ShowFront PROVE IInv' /\ FrontStep
  OBVIOUS
<1>1. /\ pc = "show" /\ pc' = "begin" /\ front # back /\ CanLock /\ cmd \in Datasets
      /\ ui # "swapping" /\ UNCHANGED <<front, back, mode, owner, ui, mine, inPlace>>
  BY DEF ShowFront, IInv, Shape, uiVars, TypeOK
<1>2. F' = [F EXCEPT !.dataset = cmd] /\ B' = B
  BY <1>1, BuffersTyped DEF ShowFront, F, B, TypeOK
<1>3. /\ F'.time = F.time /\ F'.delta = F.delta /\ F'.dataset = cmd
      /\ F'.belts = F.belts /\ F'.anomaly = F.anomaly /\ F'.center = F.center
  BY <1>2, LevelFields, BuffersTyped
<1>4. Shape'
  BY <1>1 DEF Shape, InStep, OnLevel, IInv
<1>5. Rest' /\ Progress' /\ Belts'
  BY <1>1, <1>2, <1>3 DEF Rest, Progress, Belts, InStep, IInv
<1>6. View(F)' = [View(F) EXCEPT !.dataset = cmd]
  BY <1>3 DEF View
<1> QED BY <1>1, <1>4, <1>5, <1>6 DEF IInv, FrontStep

-----------------------------------------------------------------------------
(* update: the phases of one physics step.                                 *)

\* Moved and Centred, field by field.
LEMMA PhysicsFields ==
  ASSUME NEW z \in Buffer, NEW S
  PROVE  /\ Moved(z, S).time = z.time /\ Moved(z, S).delta = z.delta
         /\ Moved(z, S).dataset = z.dataset /\ Moved(z, S).belts = z.belts
         /\ Moved(z, S).center = z.center
         /\ \A o \in Bodies :
              Moved(z, S).anomaly[o] = z.anomaly[o] + (IF o \in S THEN z.delta ELSE 0)
         /\ Centred(z, S).time = z.time /\ Centred(z, S).delta = z.delta
         /\ Centred(z, S).dataset = z.dataset /\ Centred(z, S).belts = z.belts
         /\ Centred(z, S).anomaly = z.anomaly
         /\ \A k \in Kids :
              Centred(z, S).center[k] =
                IF k \in S /\ ParentOf[k] # 0 THEN z.anomaly[ParentOf[k]] ELSE z.center[k]
  BY DEF Moved, Centred, Buffer

\* The tick of the clock, field by field.
LEMMA TickedFields ==
  ASSUME NEW z \in Buffer
  PROVE  /\ Ticked(z).time = z.time + Elapsed(z) /\ Ticked(z).delta = Elapsed(z)
         /\ Ticked(z).dataset = z.dataset /\ Ticked(z).belts = z.belts
         /\ Ticked(z).anomaly = z.anomaly /\ Ticked(z).center = z.center
         /\ Elapsed(z) \in Rates \union {0}
<1>1. Elapsed(z) \in Rates \union {0}
  BY DEF Elapsed, Buffer
<1> HIDE DEF Elapsed
<1> QED BY <1>1 DEF Ticked, Buffer

\* The bodies a worker of each phase walks exist.
LEMMA PhaseBodies ==
  /\ NumRoots \in Nat /\ NumKids \in Nat
  /\ \A o \in Bodies : o \in Kids <=> o \notin 1 .. NumRoots
  /\ \A o \in Kids : o \in Bodies /\ o - NumRoots \in 1 .. NumKids
  /\ Rings \subseteq Kids
  /\ \A k \in Kids : ParentOf[k] # 0 => ParentOf[k] \in Bodies
  BY BodiesAssumption DEF Bodies, Kids

\* The frame of every step inside update: the front buffer is not touched.
LEMMA StepFrame ==
  ASSUME TypeOK, IInv, UNCHANGED <<front, back, mode, owner, inPlace, ui>>,
         mine = back, NEW x, bufs' = [bufs EXCEPT ![mine] = x]
  PROVE  F' = F /\ B' = x /\ View(F)' = View(F)
<1>1. F' = F /\ B' = x
  BY WriteBack DEF IInv, Shape
<1> QED BY <1>1 DEF View

\* A step starts from two buffers that agree.
LEMMA BeginKeeps == TypeOK /\ IInv /\ Begin => IInv' /\ FrontStep
<1> SUFFICES ASSUME TypeOK, IInv, Begin PROVE IInv' /\ FrontStep
  OBVIOUS
<1>1. /\ pc = "begin" /\ mine' = back /\ front # back /\ ui # "swapping"
      /\ UNCHANGED <<front, back, mode, owner, inPlace, ui>>
      /\ bufs' = [bufs EXCEPT ![back] = Ticked(bufs[back])]
  BY DEF Begin, IInv, Shape, uiVars
<1>2. F' = F /\ B' = Ticked(B)
  BY <1>1, WriteBack DEF B
<1>3. team' \in Nat \ {0}
  BY BuffersTyped, RangesAssumption DEF Begin, Buffer, B
<1>4. \/ mode = "nbody" /\ pc' = "gravity"
      \/ mode # "nbody" /\ pc' = "roots" /\ pending' = Started(team', NumRoots)
  BY DEF Begin
<1>5. Shape'
  BY <1>1, <1>4 DEF IInv, Shape, InStep, OnLevel
<1>6. Rest' /\ Belts'
  BY <1>1, <1>2, <1>4, TickedFields, BuffersTyped DEF IInv, Rest, Belts, InStep
<1>7. \A o \in Bodies : Awaits(o)'
  BY <1>3, <1>4, SlicesCover, PhaseBodies DEF Awaits
<1>8. Progress'
  <2>1. ~InStep
    BY <1>1 DEF InStep
  <2>2. /\ B'.time = F'.time + B'.delta /\ B'.dataset = F'.dataset
        /\ B'.anomaly = F'.anomaly /\ B'.center = F'.center
        /\ B'.delta \in Rates \union {0}
    BY <1>1, <1>2, <2>1, TickedFields, BuffersTyped DEF IInv, Rest
  <2>3. \A o \in Bodies : F.anomaly[o] \in Nat
    BY BuffersTyped DEF Buffer
  <2>4. \A o \in Bodies :
          B'.anomaly[o] = F'.anomaly[o] + (IF Awaits(o)' THEN 0 ELSE B'.delta)
    BY <1>2, <1>7, <2>2, <2>3
  <2> QED BY <1>4, <2>2, <2>4 DEF Progress
<1>9. View(F)' = View(F)
  BY <1>2 DEF View
<1> QED BY <1>5, <1>6, <1>8, <1>9 DEF IInv, FrontStep

\* One worker of a phase advances its bodies and no others: a body waits for the
\* one worker whose slice holds it.
LEMMA WorkKeeps == TypeOK /\ IInv /\ Work => IInv' /\ FrontStep
<1> SUFFICES ASSUME TypeOK, IInv, NEW i \in pending, RootWorker(i) \/ KidWorker(i)
             PROVE  IInv' /\ FrontStep
  BY DEF Work
<1>1. /\ InStep /\ InStep' /\ mine = back /\ mine' = back /\ front # back
      /\ UNCHANGED <<front, back, mode, owner, inPlace, ui, pc, team, cmd>>
      /\ pending' = pending \ {i} /\ pc \in {"roots", "kids"}
  BY DEF RootWorker, KidWorker, IInv, Shape, InStep, uiVars
<1>2. /\ team \in Nat \ {0} /\ pending \subseteq Nat
      /\ \A o \in Bodies : F.anomaly[o] \in Nat
      /\ B.delta \in Nat
  BY BuffersTyped, RangesAssumption DEF TypeOK, Buffer
<1> DEFINE S == IF pc = "roots" THEN Slice(i, team, NumRoots)
                ELSE {o + NumRoots : o \in Slice(i, team, NumKids)}
<1>3. F' = F /\ B' = Moved(B, S) /\ View(F)' = View(F)
  <2>1. bufs' = [bufs EXCEPT ![mine] = Moved(bufs[mine], S)]
    BY DEF RootWorker, KidWorker
  <2> QED BY <1>1, <2>1, StepFrame DEF B
<1>4. /\ B'.time = B.time /\ B'.delta = B.delta /\ B'.dataset = B.dataset
      /\ B'.belts = B.belts /\ B'.center = B.center
      /\ \A o \in Bodies : B'.anomaly[o] = B.anomaly[o] + (IF o \in S THEN B.delta ELSE 0)
  BY <1>3, PhysicsFields, BuffersTyped
<1>5. \A o \in Bodies : /\ o \in S => Awaits(o) /\ ~Awaits(o)'
                        /\ o \notin S => Awaits(o)' = Awaits(o)
  <2> TAKE o \in Bodies
  <2>1. CASE pc = "roots"
    <3>1. S = Slice(i, team, NumRoots) /\ S \subseteq 1 .. NumRoots
      BY <2>1 DEF Slice
    <3>2. o \in S => \A j \in pending \ {i} : o \notin Slice(j, team, NumRoots)
      BY <1>2, <3>1, SlicesDisjoint, PhaseBodies
    <3> QED BY <1>1, <2>1, <3>1, <3>2, PhaseBodies DEF Awaits
  <2>2. CASE pc = "kids"
    <3>1. o \in S <=> o \in Kids /\ o - NumRoots \in Slice(i, team, NumKids)
      BY <2>2, PhaseBodies DEF Slice, Kids, Bodies
    <3>2. o \in S => \A j \in pending \ {i} : o - NumRoots \notin Slice(j, team, NumKids)
      BY <1>2, <3>1, SlicesDisjoint, PhaseBodies
    <3> QED BY <1>1, <2>2, <3>1, <3>2 DEF Awaits
  <2> QED BY <1>1, <2>1, <2>2
<1> HIDE DEF S
<1>6. Shape'
  BY <1>1 DEF IInv, Shape, InStep, OnLevel
<1>7. Rest' /\ Belts'
  BY <1>1, <1>3, <1>4 DEF IInv, Rest, Belts
<1>8. \A o \in Bodies :
        B'.anomaly[o] = F.anomaly[o] + (IF Awaits(o)' THEN 0 ELSE B.delta)
  BY <1>1, <1>2, <1>4, <1>5 DEF IInv, Progress
<1>9. Progress'
  BY <1>1, <1>3, <1>4, <1>8 DEF IInv, Progress
<1> QED BY <1>3, <1>6, <1>7, <1>9 DEF IInv, FrontStep

\* The centre of the abstract step, case by case.
LEMMA CentreCases ==
  ASSUME NEW b, NEW d, NEW k \in Kids
  PROVE  LET c == World!CentreAfter(View(b), mode, d, k)
             p == ParentOf[k] IN
         /\ k \notin Rings /\ mode = "nbody" => c = b.center[k]
         /\ p = 0 => c = b.center[k]
         /\ mode # "nbody" /\ p # 0 /\ p \in 1 .. NumRoots => c = b.anomaly[p] + d
         /\ mode # "nbody" /\ p # 0 /\ p \notin 1 .. NumRoots => c = b.anomaly[p]
         /\ mode = "nbody" /\ k \in Rings /\ p # 0 /\ p \notin Rings => c = b.anomaly[p] + d
         /\ mode = "nbody" /\ k \in Rings /\ p # 0 /\ p \in Rings => c = b.anomaly[p]
<1>1. View(b).anomaly = b.anomaly /\ View(b).center = b.center
  BY DEF View
<1>2. ParentOf[k] # 0 => ParentOf[k] \in Bodies
  BY PhaseBodies
<1> QED BY <1>1, <1>2 DEF World!CentreAfter, World!Followers, World!Leaders,
                          World!Bodies, World!Kids, Bodies, Kids

\* The roots are done: kids of roots are centred on the new position, kids of
\* kids on the old one.
LEMMA FollowParentsKeeps == TypeOK /\ IInv /\ FollowParents => IInv' /\ FrontStep
<1> SUFFICES ASSUME TypeOK, IInv, FollowParents PROVE IInv' /\ FrontStep
  OBVIOUS
<1>1. /\ pc = "roots" /\ pc' = "kids" /\ pending = {} /\ mode # "nbody"
      /\ mine = back /\ front # back /\ ui # "swapping"
      /\ UNCHANGED <<front, back, mode, owner, inPlace, ui, mine, team, cmd>>
      /\ bufs' = [bufs EXCEPT ![mine] = Centred(bufs[mine], Kids)]
      /\ pending' = Started(team, NumKids)
  BY DEF FollowParents, IInv, Shape, InStep, uiVars
<1>2. InStep /\ InStep'
  BY <1>1 DEF InStep
<1>3. F' = F /\ B' = Centred(B, Kids) /\ View(F)' = View(F)
  BY <1>1, StepFrame DEF B
<1>4. /\ B'.time = B.time /\ B'.delta = B.delta /\ B'.dataset = B.dataset
      /\ B'.belts = B.belts /\ B'.anomaly = B.anomaly
      /\ \A k \in Kids : B'.center[k] =
           IF ParentOf[k] # 0 THEN B.anomaly[ParentOf[k]] ELSE B.center[k]
  BY <1>3, PhysicsFields, BuffersTyped
<1>5. \A o \in Bodies : Awaits(o)' <=> Awaits(o)
  <2>1. team \in Nat \ {0}
    BY RangesAssumption DEF TypeOK
  <2>2. \A o \in Bodies : Awaits(o) <=> o \in Kids
    BY <1>1 DEF Awaits
  <2>3. \A o \in Bodies : Awaits(o)' <=> o \in Kids
    BY <1>1, <2>1, SlicesCover, PhaseBodies DEF Awaits
  <2> QED BY <2>2, <2>3
<1>6. \A k \in Kids : B'.center[k] = World!CentreAfter(View(F), mode, B.delta, k)
  <2> TAKE k \in Kids
  <2>1. CASE ParentOf[k] = 0
    BY <1>1, <1>2, <1>4, <2>1, CentreCases DEF IInv, Progress
  <2>2. CASE ParentOf[k] # 0 /\ ParentOf[k] \in 1 .. NumRoots
    <3>1. ~Awaits(ParentOf[k]) /\ ParentOf[k] \in Bodies
      BY <1>1, <2>2, PhaseBodies DEF Awaits
    <3> QED BY <1>1, <1>2, <1>4, <2>2, <3>1, CentreCases DEF IInv, Progress
  <2>3. CASE ParentOf[k] # 0 /\ ParentOf[k] \notin 1 .. NumRoots
    <3>1. Awaits(ParentOf[k]) /\ ParentOf[k] \in Bodies
      BY <1>1, <2>3, PhaseBodies DEF Awaits
    <3>2. F.anomaly[ParentOf[k]] \in Nat
      BY <3>1, BuffersTyped DEF Buffer
    <3>3. B.anomaly[ParentOf[k]] = F.anomaly[ParentOf[k]]
      BY <1>2, <3>1, <3>2 DEF IInv, Progress
    <3> QED BY <1>1, <1>4, <2>3, <3>3, CentreCases
  <2> QED BY <2>1, <2>2, <2>3
<1>7. Shape'
  BY <1>1, <1>2 DEF IInv, Shape, InStep, OnLevel
<1>8. Rest' /\ Belts'
  BY <1>1, <1>2, <1>3, <1>4 DEF IInv, Rest, Belts
<1>9. Progress'
  BY <1>1, <1>2, <1>3, <1>4, <1>5, <1>6 DEF IInv, Progress
<1> QED BY <1>3, <1>7, <1>8, <1>9 DEF IInv, FrontStep

\* The integrator finds every participant in the back buffer it owns.
LEMMA GravityKeeps == TypeOK /\ IInv /\ GravityStep => IInv' /\ FrontStep
<1> SUFFICES ASSUME TypeOK, IInv, GravityStep PROVE IInv' /\ FrontStep
  OBVIOUS
<1>1. /\ pc = "gravity" /\ pc' = "rings" /\ mode = "nbody" /\ owner = back
      /\ mine = back /\ front # back /\ ui # "swapping"
      /\ UNCHANGED <<front, back, mode, owner, inPlace, ui, mine, cmd>>
      /\ bufs' = [bufs EXCEPT ![mine] = Moved(bufs[mine], Bodies \ Rings)]
  BY DEF GravityStep, IInv, Shape, InStep, uiVars
<1>2. InStep /\ InStep'
  BY <1>1 DEF InStep
<1>3. F' = F /\ B' = Moved(B, Bodies \ Rings) /\ View(F)' = View(F)
  BY <1>1, StepFrame DEF B
<1>4. /\ B'.time = B.time /\ B'.delta = B.delta /\ B'.dataset = B.dataset
      /\ B'.belts = B.belts /\ B'.center = B.center
      /\ \A o \in Bodies : B'.anomaly[o] = B.anomaly[o] + (IF o \in Rings THEN 0 ELSE B.delta)
  BY <1>3, PhysicsFields, BuffersTyped
<1>5. \A o \in Bodies : Awaits(o) /\ (Awaits(o)' <=> o \in Rings)
  BY <1>1 DEF Awaits
<1>6. \A o \in Bodies :
        B'.anomaly[o] = F.anomaly[o] + (IF Awaits(o)' THEN 0 ELSE B.delta)
  <2>1. \A o \in Bodies : F.anomaly[o] \in Nat /\ B.delta \in Nat
    BY BuffersTyped DEF Buffer
  <2> QED BY <1>2, <1>4, <1>5, <2>1 DEF IInv, Progress
<1>7. Shape'
  BY <1>1, <1>2 DEF IInv, Shape, InStep, OnLevel
<1>8. Rest' /\ Belts'
  BY <1>1, <1>2, <1>3, <1>4 DEF IInv, Rest, Belts
<1>9. Progress'
  BY <1>1, <1>2, <1>3, <1>4, <1>6 DEF IInv, Progress
<1> QED BY <1>3, <1>7, <1>8, <1>9 DEF IInv, FrontStep

\* The rings follow their parents and move last.
LEMMA RingKeeps == TypeOK /\ IInv /\ RingStep => IInv' /\ FrontStep
<1> SUFFICES ASSUME TypeOK, IInv, RingStep PROVE IInv' /\ FrontStep
  OBVIOUS
<1> DEFINE C == Centred(B, Rings)
<1>1. /\ pc = "rings" /\ pc' = "swap" /\ mode = "nbody"
      /\ mine = back /\ front # back /\ ui # "swapping"
      /\ UNCHANGED <<front, back, mode, owner, inPlace, ui, mine, cmd>>
      /\ bufs' = [bufs EXCEPT ![mine] = Moved(Centred(bufs[mine], Rings), Rings)]
  BY DEF RingStep, IInv, Shape, InStep, uiVars
<1>2. InStep /\ InStep'
  BY <1>1 DEF InStep
<1>3. F' = F /\ B' = Moved(C, Rings) /\ View(F)' = View(F)
  BY <1>1, StepFrame DEF B
<1>4. C \in Buffer
  BY BuffersTyped, BufferUpdates
<1>5. /\ C.time = B.time /\ C.delta = B.delta /\ C.dataset = B.dataset
      /\ C.belts = B.belts /\ C.anomaly = B.anomaly
      /\ \A k \in Kids : C.center[k] =
           IF k \in Rings /\ ParentOf[k] # 0 THEN B.anomaly[ParentOf[k]] ELSE B.center[k]
  BY PhysicsFields, BuffersTyped
<1> HIDE DEF C
<1>6. /\ B'.time = B.time /\ B'.delta = B.delta /\ B'.dataset = B.dataset
      /\ B'.belts = B.belts
      /\ \A o \in Bodies : B'.anomaly[o] = B.anomaly[o] + (IF o \in Rings THEN B.delta ELSE 0)
      /\ \A k \in Kids : B'.center[k] =
           IF k \in Rings /\ ParentOf[k] # 0 THEN B.anomaly[ParentOf[k]] ELSE B.center[k]
  BY <1>3, <1>4, <1>5, PhysicsFields
<1>7. \A o \in Bodies : ~Awaits(o)' /\ (Awaits(o) <=> o \in Rings)
  BY <1>1 DEF Awaits
<1>8. \A o \in Bodies : F.anomaly[o] \in Nat /\ B.delta \in Nat
  BY BuffersTyped DEF Buffer
<1>9. \A o \in Bodies :
        B'.anomaly[o] = F.anomaly[o] + (IF Awaits(o)' THEN 0 ELSE B.delta)
  BY <1>2, <1>6, <1>7, <1>8 DEF IInv, Progress
<1>10. \A k \in Kids : B'.center[k] = World!CentreAfter(View(F), mode, B.delta, k)
  <2> TAKE k \in Kids
  <2>1. CASE k \notin Rings \/ ParentOf[k] = 0
    BY <1>1, <1>2, <1>6, <2>1, CentreCases DEF IInv, Progress
  <2>2. CASE k \in Rings /\ ParentOf[k] # 0
    <3>1. ParentOf[k] \in Bodies
      BY <2>2, PhaseBodies
    <3>2. B.anomaly[ParentOf[k]] = F.anomaly[ParentOf[k]]
                                   + (IF ParentOf[k] \in Rings THEN 0 ELSE B.delta)
      BY <1>2, <1>7, <3>1 DEF IInv, Progress
    <3> QED BY <1>1, <1>6, <1>8, <2>2, <3>1, <3>2, CentreCases
  <2> QED BY <2>1, <2>2
<1>11. Shape'
  BY <1>1, <1>2 DEF IInv, Shape, InStep, OnLevel
<1>12. Rest' /\ Belts'
  BY <1>1, <1>2, <1>3, <1>6 DEF IInv, Rest, Belts
<1>13. Progress'
  BY <1>1, <1>2, <1>3, <1>6, <1>9, <1>10 DEF IInv, Progress
<1> QED BY <1>3, <1>11, <1>12, <1>13 DEF IInv, FrontStep

-----------------------------------------------------------------------------
(* Every step keeps the invariant, and does to the front buffer only what  *)
(* FrontStep allows.                                                       *)

\* Every step of the specification keeps IInv, and shows the world nothing but what
\* FrontStep allows; one step per action.
LEMMA IInvNext ==
  TypeOK /\ IInv /\ Disciplined /\ [Next]_vars => IInv' /\ FrontStep
<1> SUFFICES ASSUME TypeOK, IInv, Disciplined, [Next]_vars PROVE IInv' /\ FrontStep
  OBVIOUS
<1>1. ASSUME Start \/ Tick \/ StepsDone \/ Hook \/ StoreSnapshot \/ Stop PROVE IInv' /\ FrontStep
  <2>1. Quiet
    BY <1>1 DEF Start, Tick, StepsDone, Hook, StoreSnapshot, Stop, Quiet, IInv, Shape,
                bufVars, uiVars
  <2> QED BY <2>1, QuietKeeps
<1>2. ASSUME NEW r \in Readers, LockFront(r) \/ UnlockFront(r) PROVE IInv' /\ FrontStep
  <2>1. Quiet
    BY <1>2 DEF LockFront, UnlockFront, Quiet, bufVars, simVars, uiVars
  <2> QED BY <2>1, QuietKeeps
<1>3. ASSUME NEW x, SetSpeed(x) \/ SetAsteroidDataset(x) \/ GetBack PROVE IInv' /\ FrontStep
  <2>1. Quiet
    BY <1>3 DEF SetSpeed, SetAsteroidDataset, GetBack, Quiet, bufVars, simVars, uiVars
  <2> QED BY <2>1, QuietKeeps
<1>4. CASE UNCHANGED vars
  <2>1. Quiet
    BY <1>4 DEF vars, Quiet, bufVars, simVars, uiVars
  <2> QED BY <2>1, QuietKeeps
<1>5. ASSUME NEW on \in BOOLEAN, SetInPlaceSwap(on) PROVE IInv' /\ FrontStep
  <2>1. mode # "nbody" /\ UNCHANGED <<mode, bufs, front, back, owner, simVars, uiVars>>
    BY <1>5 DEF SetInPlaceSwap, Disciplined, TypeOK
  <2>2. F' = F /\ B' = B
    BY <2>1 DEF F, B
  <2>3. Shape'
    BY <2>1 DEF IInv, Shape, InStep, OnLevel, simVars, uiVars
  <2>4. Rest' /\ Progress' /\ Belts'
    BY <2>1, <2>2 DEF IInv, Rest, Progress, Belts, Awaits, InStep, View, simVars
  <2> QED BY <2>2, <2>3, <2>4 DEF IInv, FrontStep, View
<1>6. ASSUME NEW r \in Rates, WriteRate(r) PROVE IInv' /\ FrontStep
  <2>1. /\ UNCHANGED <<mode, front, back, owner, inPlace, mine, team, pending, cmd, pc>>
        /\ ui' = "idle" /\ held \in BufId /\ bufs' = [bufs EXCEPT ![held].rate = r]
    BY <1>6 DEF WriteRate, simVars, TypeOK
  <2> QED BY <2>1, SettingKeeps
<1>7. ASSUME NEW n \in Teams, SetWorkerCount(n) PROVE IInv' /\ FrontStep
  <2>1. /\ UNCHANGED <<mode, front, back, owner, inPlace, mine, team, pending, cmd, pc>>
        /\ pc = "created" /\ back \in BufId /\ bufs' = [bufs EXCEPT ![back].workers = n]
    BY <1>7, BuffersTyped DEF SetWorkerCount, simVars, TypeOK, Disciplined
  <2> QED BY <2>1, SettingKeeps
<1> QED
  BY <1>1, <1>2, <1>3, <1>4, <1>5, <1>6, <1>7, NextStepKeeps, GrowFrontKeeps,
     ShowFrontKeeps, BeginKeeps, FollowParentsKeeps, GravityKeeps, RingKeeps,
     PublishKeeps, WorkKeeps, RetuneKeeps
  DEF Next, Loop, Clients

\* Outside a step the buffers agree, inside one every body is where the phase says.
THEOREM Invariant == Disciplined => (Spec => []IInv)
<1> SUFFICES ASSUME Disciplined PROVE Spec => []IInv
  OBVIOUS
<1>1. TypeOK /\ IInv /\ [Next]_vars => IInv'
  BY IInvNext
<1> QED BY IInvInit, TypeCorrect, <1>1, PTL DEF Spec

\* The buffers hold the same belt objects whenever a swap can copy by index
\* (SwapInPlace's precondition).
THEOREM ObjectsMatch == Disciplined => (Spec => []SameObjects)
<1> SUFFICES ASSUME Disciplined PROVE Spec => []SameObjects
  OBVIOUS
<1>1. IInv => SameObjects
  BY DEF IInv, Belts, SameObjects, F, B
<1> QED BY Invariant, <1>1, PTL

-----------------------------------------------------------------------------
(* Where the gravity participants are, whatever the settings are put to.   *)

\* The back pointer is away from where loading put it after an odd number of swaps in
\* place, and the SystemSet stays in its buffer until a clone swap made meanwhile.
Whereabouts ==
  /\ front # back
  /\ exchanged <=> back = 1
  /\ owner = IF cloned THEN Garbage ELSE 2

\* Only a swap moves the pointers or the SystemSet.
pointers == <<front, back, owner, exchanged, cloned>>

LEMMA OnlySwapsMove == [Next]_vars => Swap \/ UNCHANGED pointers
  BY DEF pointers, history, Next, Loop, Work, Clients, vars, bufVars, Start, Tick,
         NextStep, GrowFront, ShowFront, StepsDone, Begin, FollowParents, GravityStep,
         RingStep, PublishStep, Hook, StoreSnapshot, RootWorker, KidWorker, Stop,
         LockFront, UnlockFront, SetInPlaceSwap, SetSpeed, SetAsteroidDataset, GetBack,
         WriteRate, SetWorkerCount, RetuneSwap

\* Either swap keeps the whereabouts.
LEMMA SwapKeepsWhereabouts ==
  ASSUME TypeOK, Whereabouts, Swap
  PROVE  Whereabouts'
<1>1. /\ front \in {1, 2} /\ back \in {1, 2} /\ inPlace \in BOOLEAN
      /\ exchanged \in BOOLEAN /\ cloned \in BOOLEAN
  BY DEF TypeOK
<1>2. CASE inPlace
  <2>1. front' = back /\ back' = front /\ owner' = owner
    BY <1>2 DEF Swap, SwapInPlace
  <2>2. exchanged' = ~exchanged /\ cloned' = cloned
    BY <1>1, <1>2, Zenon DEF Swap, Noted
  <2> QED BY <1>1, <2>1, <2>2 DEF Whereabouts
<1>3. CASE ~inPlace
  <2>1. front' = front /\ back' = back /\ owner' = Strand(owner)
    BY <1>3 DEF Swap, SwapClone
  <2>2. exchanged' = exchanged /\ cloned' = (cloned \/ exchanged)
    BY <1>1, <1>3, Zenon DEF Swap, Noted
  <2> QED BY <1>1, <2>1, <2>2 DEF Whereabouts, Strand, Garbage
<1> QED BY <1>2, <1>3

\* The participants stay where the swaps have left them.
LEMMA WhereaboutsKnown == Spec => []Whereabouts
<1>1. Init => Whereabouts
  BY DEF Init, Whereabouts
<1>2. TypeOK /\ Whereabouts /\ [Next]_vars => Whereabouts'
  <2> SUFFICES ASSUME TypeOK, Whereabouts, [Next]_vars PROVE Whereabouts'
    OBVIOUS
  <2>1. CASE Swap
    BY <2>1, SwapKeepsWhereabouts
  <2>2. CASE UNCHANGED pointers
    BY <2>2 DEF pointers, Whereabouts
  <2> QED BY <2>1, <2>2, OnlySwapsMove
<1> QED BY <1>1, <1>2, TypeCorrect, PTL DEF Spec

\* An N-body step finds its participants exactly when the swaps have put the pointers
\* back and none threw the SystemSet away, in every system, belted or not, and however
\* the in-place setting and the worker count are changed while the loop runs.
THEOREM GravityFindsItsBodies == Spec => StepIntegrates
<1>1. TypeOK /\ Whereabouts /\ [Next]_vars =>
        [pc = "begin" /\ pc' = "gravity" => (mine' = owner <=> ~exchanged /\ ~cloned)]_vars
  <2> SUFFICES ASSUME TypeOK, Whereabouts, Next, pc = "begin", pc' = "gravity"
               PROVE  mine' = owner <=> ~exchanged /\ ~cloned
    OBVIOUS
  <2>1. mine' = back
    BY DEF Next, Loop, Work, Clients, Start, Tick, NextStep, GrowFront, ShowFront,
           StepsDone, Begin, FollowParents, GravityStep, RingStep, PublishStep, SwapDue,
           Hook, StoreSnapshot, RootWorker, KidWorker, Stop, LockFront, UnlockFront,
           SetInPlaceSwap, SetSpeed, SetAsteroidDataset, GetBack, WriteRate,
           SetWorkerCount, RetuneSwap, simVars
  <2>2. back \in {1, 2}
    BY DEF TypeOK
  <2> QED BY <2>1, <2>2 DEF Whereabouts, Garbage
<1> QED BY <1>1, WhereaboutsKnown, TypeCorrect, PTL DEF Spec, StepIntegrates

-----------------------------------------------------------------------------
(* Whole steps.                                                            *)

\* Whole only looks at what a view holds.
LEMMA WholeView == ASSUME NEW b PROVE Whole(View(b)) <=> Whole(b)
  BY DEF Whole, CentredOn, View

\* A physics step of the world is whole again.
LEMMA AdvancedWhole ==
  ASSUME NEW b \in Buffer, Whole(b), NEW d \in Nat
  PROVE  Whole(World!Advanced(View(b), mode, d))
<1> DEFINE w == World!Advanced(View(b), mode, d)
<1>1. /\ w.time = b.time + d /\ w.delta = d
      /\ \A o \in Bodies : w.anomaly[o] = b.anomaly[o] + d
      /\ \A k \in Kids : w.center[k] = World!CentreAfter(View(b), mode, d, k)
  BY AdvancedFields
<1>2. \A o \in Bodies : b.anomaly[o] \in Nat
  BY DEF Buffer
<1> HIDE DEF w
<1>3. ASSUME NEW k \in Kids, mode # "nbody" PROVE CentredOn(w, k)
  <2>1. CASE ParentOf[k] = 0
    BY <1>1, <1>3, <2>1, CentreCases DEF Whole, CentredOn
  <2>2. CASE ParentOf[k] # 0 /\ ParentOf[k] \in 1 .. NumRoots
    BY <1>1, <1>3, <2>2, CentreCases, PhaseBodies DEF CentredOn
  <2>3. CASE ParentOf[k] # 0 /\ ParentOf[k] \notin 1 .. NumRoots
    BY <1>1, <1>2, <1>3, <2>3, CentreCases, PhaseBodies DEF CentredOn
  <2> QED BY <2>1, <2>2, <2>3
<1>4. Whole(w)
  BY <1>1, <1>2, <1>3 DEF Whole
<1> QED BY <1>4 DEF w

\* A reader of the front buffer always finds a whole step.
LEMMA WholeNext == TypeOK /\ Whole(F) /\ FrontStep /\ mode' = mode => Whole(F)'
<1> SUFFICES ASSUME TypeOK, Whole(F), FrontStep, mode' = mode PROVE Whole(F)'
  OBVIOUS
<1>1. CASE View(F)' = View(F)
  BY <1>1 DEF Whole, CentredOn, View
<1>2. ASSUME NEW d \in Rates \union {0}, View(F)' = World!Advanced(View(F), mode, d)
      PROVE  Whole(F)'
  <2>1. Whole(View(F)')
    BY <1>2, AdvancedWhole, BuffersTyped, RangesAssumption
  <2> QED BY <2>1 DEF Whole, CentredOn, View
<1>3. ASSUME NEW d \in Datasets, View(F)' = [View(F) EXCEPT !.dataset = d]
      PROVE  Whole(F)'
  <2>1. F'.time = F.time /\ F'.delta = F.delta /\ F'.anomaly = F.anomaly /\ F'.center = F.center
    BY <1>3 DEF View
  <2> QED BY <2>1 DEF Whole, CentredOn
<1> QED BY <1>1, <1>2, <1>3 DEF FrontStep

\* Renderers and RPC handlers see whole physics steps only, whatever the
\* interleaving of workers, swaps, dataset changes and rate writes.
THEOREM FrontAlwaysWhole == Disciplined => (Spec => []FrontIsWholeStep)
<1> SUFFICES ASSUME Disciplined PROVE Spec => []FrontIsWholeStep
  OBVIOUS
<1>1. Init => Whole(F)
  <2> SUFFICES ASSUME Init PROVE Whole(F)
    OBVIOUS
  <2>1. F = Loaded(bufs[1].workers, 1)
    <3>1. PICK n \in Teams, r \in Rates :
            bufs = [b \in BufId |-> Loaded(n, IF b = 2 THEN r ELSE 1)]
      BY DEF Init
    <3>2. bufs[1] = Loaded(n, 1)
      BY <3>1 DEF BufId
    <3>3. Loaded(n, 1).workers = n
      BY DEF Loaded
    <3> QED BY <3>2, <3>3 DEF Init, F
  <2>2. /\ F.time = 0 /\ F.delta = 0
        /\ \A o \in Bodies : F.anomaly[o] = 0
        /\ \A k \in Kids : F.center[k] = 0
    BY <2>1 DEF Loaded
  <2> QED BY <2>2, PhaseBodies DEF Whole, CentredOn
<1>2. TypeOK /\ IInv /\ Whole(F) /\ [Next]_vars => Whole(F)'
  BY IInvNext, ModeKept, WholeNext
<1>3. Whole(F) <=> FrontIsWholeStep
  BY DEF F, FrontIsWholeStep
<1> QED BY <1>1, <1>2, <1>3, TypeCorrect, Invariant, PTL DEF Spec

\* The snapshot published, and the one about to be, are whole and not ahead of
\* the front buffer.
THEOREM SnapshotsArePast == Disciplined => (Spec => []StoreIsPast)
<1> SUFFICES ASSUME Disciplined PROVE Spec => []StoreIsPast
  OBVIOUS
<1>1. Init => StoreIsPast
  BY DEF Init, StoreIsPast
<1>2. TypeOK /\ IInv /\ FrontIsWholeStep /\ StoreIsPast /\ [Next]_vars => StoreIsPast'
  <2> SUFFICES ASSUME TypeOK, IInv, FrontIsWholeStep, StoreIsPast, [Next]_vars
               PROVE  StoreIsPast'
    OBVIOUS
  <2>1. mode' = mode /\ FrontStep
    BY IInvNext, ModeKept
  <2>2. F.time <= F'.time /\ F.time \in Nat /\ F'.time \in Nat
    <3>1. F.time \in Nat
      BY BuffersTyped DEF Buffer
    <3>2. CASE View(F)' = View(F)
      BY <3>1, <3>2 DEF View
    <3>3. ASSUME NEW d \in Rates \union {0}, View(F)' = World!Advanced(View(F), mode, d)
          PROVE  F'.time = F.time + d /\ d \in Nat
      <4>1. World!Advanced(View(F), mode, d).time = F.time + d
        BY AdvancedFields
      <4>2. View(F)'.time = F'.time
        BY DEF View
      <4> QED BY <3>3, <4>1, <4>2, RangesAssumption
    <3>4. ASSUME NEW d \in Datasets, View(F)' = [View(F) EXCEPT !.dataset = d]
          PROVE  F'.time = F.time
      BY <3>4 DEF View
    <3> QED BY <2>1, <3>1, <3>2, <3>3, <3>4 DEF FrontStep
  <2>3. /\ snap' \in {snap, NoView, View(F)}
        /\ store' \in {snap, store}
    BY DEF Next, Loop, Work, Clients, vars, Start, Tick, NextStep, GrowFront, ShowFront,
           StepsDone, Begin, FollowParents, GravityStep, RingStep, PublishStep, Hook,
           StoreSnapshot, RootWorker, KidWorker, Stop, LockFront, UnlockFront,
           SetInPlaceSwap, SetSpeed, SetAsteroidDataset, GetBack, WriteRate,
           SetWorkerCount, RetuneSwap, pubVars, F
  <2>4. Whole(View(F)) /\ View(F).time = F.time
    BY WholeView DEF FrontIsWholeStep, F, View
  <2>5. \A s \in {snap', store'} : s # NoView => Whole(s) /\ s.time <= F.time
    BY <2>3, <2>4, <2>2 DEF StoreIsPast, F
  <2>6. \A s \in Views : s.time \in Nat
    BY DEF Views
  <2>7. \A s \in {snap', store'} : s # NoView => s \in Views
    BY TypeNext DEF TypeOK
  <2>8. \A s \in {snap', store'} : s # NoView => Whole(s) /\ s.time <= F'.time
    BY <2>2, <2>5, <2>6, <2>7
  <2> QED BY <2>1, <2>8 DEF StoreIsPast, Whole, CentredOn, F
<1> QED BY <1>1, <1>2, TypeCorrect, Invariant, FrontAlwaysWhole, PTL DEF Spec

\* Between LockFront and UnlockFront the front buffer keeps what it showed.
THEOREM ReadersAreSafe == Disciplined => (Spec => []ReadersUndisturbed)
<1> SUFFICES ASSUME Disciplined PROVE Spec => []ReadersUndisturbed
  OBVIOUS
<1>1. Init => ReadersUndisturbed
  BY DEF Init, ReadersUndisturbed
<1>2. TypeOK /\ IInv /\ ReadersUndisturbed /\ [Next]_vars => ReadersUndisturbed'
  <2> SUFFICES ASSUME TypeOK, IInv, ReadersUndisturbed, [Next]_vars
               PROVE  ReadersUndisturbed'
    OBVIOUS
  <2>1. FrontStep
    BY IInvNext
  <2>2. \A r \in Readers : view'[r] = view[r] \/ view'[r] = NoView \/ (view'[r] = View(F) /\ View(F)' = View(F))
    <3>1. ASSUME NEW q \in Readers, LockFront(q)
          PROVE  /\ View(F)' = View(F)
                 /\ \A r \in Readers : view'[r] = view[r] \/ view'[r] = View(F)
      BY <3>1 DEF LockFront, TypeOK, bufVars, F, View
    <3>2. ASSUME NEW q \in Readers, UnlockFront(q)
          PROVE  \A r \in Readers : view'[r] = view[r] \/ view'[r] = NoView
      BY <3>2 DEF UnlockFront, TypeOK
    <3>3. CASE view' = view
      BY <3>3
    <3>4. \/ view' = view
          \/ \E q \in Readers : LockFront(q) \/ UnlockFront(q)
      BY DEF Next, Loop, Work, Clients, vars, Start, Tick, NextStep, GrowFront, ShowFront,
             StepsDone, Begin, FollowParents, GravityStep, RingStep, PublishStep, Hook,
             StoreSnapshot, RootWorker, KidWorker, Stop, SetInPlaceSwap, SetSpeed,
             SetAsteroidDataset, GetBack, WriteRate, SetWorkerCount, RetuneSwap
    <3> QED BY <3>1, <3>2, <3>3, <3>4
  <2>3. ASSUME NEW r \in Readers, view'[r] # NoView
        PROVE  view'[r] = View(F)'
    <3>1. CASE view'[r] = View(F) /\ View(F)' = View(F)
      BY <3>1
    <3>2. CASE view'[r] = view[r]
      <4>1. View(F)' = View(F)
        BY <2>1, <2>3, <3>2 DEF FrontStep, CanLock
      <4> QED BY <2>3, <3>2, <4>1 DEF ReadersUndisturbed, F
    <3> QED BY <2>2, <2>3, <3>1, <3>2
  <2> QED BY <2>3 DEF ReadersUndisturbed, F
<1> QED BY <1>1, <1>2, TypeCorrect, Invariant, PTL DEF Spec

-----------------------------------------------------------------------------
(* The time rate, and the abstract world.                                  *)

\* No physics operator touches the rate.
LEMMA RateFields ==
  ASSUME NEW z \in Buffer, NEW x
  PROVE  /\ [z EXCEPT !.belts = x].rate = z.rate
         /\ [z EXCEPT !.dataset = x].rate = z.rate
         /\ [z EXCEPT !.workers = x].rate = z.rate
         /\ Ticked(z).rate = z.rate
         /\ Moved(z, x).rate = z.rate /\ Centred(z, x).rate = z.rate
         /\ Moved(Centred(z, x), x).rate = z.rate
<1>1. Centred(z, x) \in Buffer /\ Centred(z, x).rate = z.rate
  <2>1. Centred(z, x).rate = z.rate
    BY DEF Centred, Buffer
  <2> QED BY <2>1, BufferUpdates
<1>2. \A y \in Buffer : Moved(y, x).rate = y.rate
  BY DEF Moved, Buffer
<1>3. Ticked(z).rate = z.rate
  BY DEF Ticked, Buffer
<1> QED BY <1>1, <1>2, <1>3 DEF Buffer

\* Only the UI changes the rate the next step will use: no swap brings an older
\* one back.
THEOREM RateIsKept == Disciplined => (Spec => RateKept)
<1> SUFFICES ASSUME Disciplined PROVE Spec => RateKept
  OBVIOUS
<1>1. TypeOK /\ IInv /\ [Next]_vars => [bufs'[back'].rate # bufs[back].rate => ui = "holding"]_vars
  <2> SUFFICES ASSUME TypeOK, IInv, Next, ui # "holding"
               PROVE  B'.rate = B.rate
    BY DEF B, vars, bufVars
  <2>1. CASE Swap
    BY <2>1, SwapShowsBack DEF IInv, Shape
  <2>2. CASE UNCHANGED <<bufs, back>>
    BY <2>2 DEF B
  <2>3. front # back
    BY DEF IInv, Shape
  <2>4. ASSUME UNCHANGED <<front, back>>, NEW x, bufs' = [bufs EXCEPT ![back] = x],
               x.rate = B.rate
        PROVE  B'.rate = B.rate
    BY <2>3, <2>4, WriteBack
  <2>5. CASE NextStep
    <3>1. \/ bufs' = bufs
          \/ bufs' = [bufs EXCEPT ![back] = [B EXCEPT !.belts = B.belts \union {cmd'}]]
          \/ bufs' = [bufs EXCEPT ![back] = [B EXCEPT !.dataset = cmd']]
      BY <2>5 DEF NextStep, B
    <3>2. UNCHANGED <<front, back>>
      BY <2>5 DEF NextStep
    <3>3. /\ [B EXCEPT !.belts = B.belts \union {cmd'}].rate = B.rate
          /\ [B EXCEPT !.dataset = cmd'].rate = B.rate
      BY RateFields, BuffersTyped
    <3> QED BY <2>2, <2>4, <3>1, <3>2, <3>3
  <2>6. CASE GrowFront \/ ShowFront
    <3>1. B' = [B EXCEPT !.dataset = cmd] \/ B' = B
      BY <2>3, <2>6, BuffersTyped DEF GrowFront, ShowFront, IInv, Shape, OnLevel, B, TypeOK
    <3>2. [B EXCEPT !.dataset = cmd].rate = B.rate
      BY RateFields, BuffersTyped
    <3> QED BY <3>1, <3>2
  <2>7. CASE Begin
    BY <2>4, <2>7, RateFields, BuffersTyped DEF Begin, B
  <2>8. CASE FollowParents \/ GravityStep \/ RingStep \/ Work
    <3>1. PICK S : bufs' = [bufs EXCEPT ![back] = Moved(B, S)]
                   \/ bufs' = [bufs EXCEPT ![back] = Centred(B, S)]
                   \/ bufs' = [bufs EXCEPT ![back] = Moved(Centred(B, S), S)]
      BY <2>8 DEF FollowParents, GravityStep, RingStep, Work, RootWorker, KidWorker,
                  IInv, Shape, InStep, B
    <3>2. UNCHANGED <<front, back>>
      BY <2>8 DEF FollowParents, GravityStep, RingStep, Work, RootWorker, KidWorker
    <3> QED BY <2>4, <3>1, <3>2, RateFields, BuffersTyped
  <2>9. ASSUME NEW n \in Teams, SetWorkerCount(n) PROVE B'.rate = B.rate
    <3>1. bufs' = [bufs EXCEPT ![back] = [B EXCEPT !.workers = n]]
      BY <2>9 DEF SetWorkerCount, B
    <3> QED BY <2>4, <2>9, <3>1, RateFields, BuffersTyped DEF SetWorkerCount
  <2> QED BY <2>1, <2>2, <2>5, <2>6, <2>7, <2>8, <2>9
          DEF Next, Loop, Clients, Start, Tick, StepsDone, PublishStep, Hook,
              StoreSnapshot, Stop, LockFront, UnlockFront, SetInPlaceSwap, SetSpeed,
              SetAsteroidDataset, GetBack, WriteRate, RetuneSwap, bufVars
<1> QED BY <1>1, TypeCorrect, Invariant, PTL DEF Spec, RateKept

\* Seen through the front buffer, the process with its workers, buffers and locks
\* is the sequential world.
THEOREM RefinesWorld == Disciplined => (Spec => ImplementsWorld)
<1> SUFFICES ASSUME Disciplined PROVE Spec => ImplementsWorld
  OBVIOUS
<1>1. Init => World!Init
  <2> SUFFICES ASSUME Init PROVE World!Init
    OBVIOUS
  <2>1. PICK n \in Teams, r \in Rates :
          bufs = [b \in BufId |-> Loaded(n, IF b = 2 THEN r ELSE 1)]
    BY DEF Init
  <2>2. bufs[front] = Loaded(n, 1)
    BY <2>1 DEF Init, BufId
  <2>3. View(Loaded(n, 1)) =
          [time |-> 0, delta |-> 0, dataset |-> 0,
           anomaly |-> [b \in Bodies |-> 0], center |-> [k \in Kids |-> 0]]
    BY DEF View, Loaded
  <2>4. mode \in Modes
    BY DEF Init
  <2> QED BY <2>2, <2>3, <2>4 DEF World!Init, World!Bodies, World!Kids, Bodies, Kids
<1>2. TypeOK /\ IInv /\ [Next]_vars => [World!Next]_<<mode, View(bufs[front])>>
  <2> SUFFICES ASSUME FrontStep, mode' = mode
               PROVE  [World!Next]_<<mode, View(bufs[front])>>
    BY IInvNext, ModeKept
  <2> QED BY DEF FrontStep, F, World!Next, World!Step, World!ShowDataset
<1> QED BY <1>1, <1>2, TypeCorrect, Invariant, PTL DEF Spec, ImplementsWorld, World!Spec
=============================================================================
