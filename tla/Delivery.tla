------------------------------ MODULE Delivery ------------------------------
(***************************************************************************)
(* What the event queue and its consumer promise together, without queues, *)
(* locks or metrics: the events accepted for an object are applied to it   *)
(* one after the other, in the order of acceptance, each exactly once.     *)
(***************************************************************************)
EXTENDS Integers

CONSTANTS
  Guids,   \* objects
  Limit    \* how many accepted events of one object may be outstanding

VARIABLES
  sent,    \* object -> number of events accepted for it
  applied  \* object -> number of the last event applied to it

dvars == <<sent, applied>>

DInit ==
  /\ sent = [g \in Guids |-> 0]
  /\ applied = [g \in Guids |-> 0]

Send(g) ==
  /\ sent[g] - applied[g] < Limit
  /\ sent' = [sent EXCEPT ![g] = sent[g] + 1]
  /\ UNCHANGED applied

Deliver(g) ==
  /\ applied[g] < sent[g]
  /\ applied' = [applied EXCEPT ![g] = applied[g] + 1]
  /\ UNCHANGED sent

DNext == \E g \in Guids : Send(g) \/ Deliver(g)

Safety == DInit /\ [][DNext]_dvars

DSpec == Safety /\ \A g \in Guids : WF_dvars(Deliver(g))

=============================================================================
