------------------------------ MODULE MCClient ------------------------------
(***************************************************************************)
(* Small instances of Client: two systems with their stars, and a path     *)
(* that does not load.                                                     *)
(***************************************************************************)
EXTENDS Client, TLC

CONSTANTS sol, tau, gone, sun, earth, mars, ceti, x, p, q

MCBodiesOf == (sol :> <<sun, earth, mars>>) @@ (tau :> <<ceti>>) @@ (gone :> <<ceti>>)

Stop(name, dwell) == [name |-> name, dwell |-> dwell]
Jump(stops) == [kind |-> "jump", stops |-> stops]

\* A tour with a pause at its first stop and none at its second.
MCCommands ==
  {Jump(<<Stop(earth, 1), Stop(mars, 0), Stop(sun, 0)>>),
   [kind |-> "orbit", name |-> earth],
   [kind |-> "track", name |-> None], [kind |-> "active"]}

MCGroupOf == (sun :> "stars") @@ (earth :> "planets") @@ (mars :> "planets") @@ (ceti :> None)

Load(path)       == [kind |-> "load", path |-> path]
Track1(name)     == [kind |-> "track", name |-> name]
Set(var, value)  == [kind |-> "set", var |-> var, value |-> value]
For(var, group, from, to) == [kind |-> "for", var |-> var, group |-> group, from |-> from, to |-> to]
Times(n)         == [kind |-> "count", n |-> n]
Loop(head, body) == [head |-> head, body |-> body]

\* Both leave the system: one after a line without an equivalent, one after a pause and a
\* tour from a variable's body to the last one.
MCFiles ==
  {<<[kind |-> "orbit", name |-> earth], Load(tau)>>,
   <<Set(x, sun),
     Loop(For(p, "bodies", -1, None), <<[kind |-> "sleep"], Jump(<<Stop(x, 0), Stop(p, 0)>>)>>),
     Load(tau)>>}

-----------------------------------------------------------------------------
(* Many small scripts, loops within loops among them, and what they come   *)
(* to in the first system.                                                 *)

Plain == {[kind |-> "orbit", name |-> earth], [kind |-> "sleep"], Load(tau),
          Jump(<<Stop(x, 0), Stop(p, 0)>>)}
           \union {Set(x, v) : v \in {sun, earth, p}} \union {Track1(v) : v \in {x, p, q}}
Heads == {Times(n) : n \in {2, 3}} \union
         {For(v, g, k, m) : v \in {p, q}, g \in {"planets", "bodies"}, k \in -2 .. 1, m \in {None, 2}}

Flat      == Seq(Plain)
MCScripts == Seq(Plain \union [head : Heads, body : Seq(Plain \union [head : Heads, body : Flat])])

Inner(h) == Loop(h, <<Track1(q), Track1(x)>>)
Body(v) ==
  BoundedSeq({Set(x, v), Track1(p), Inner(For(q, "planets", 1, None)), Inner(Times(2))}, 2)
Outer == {Loop(For(p, g, k, m), b) : g \in {"planets", "bodies"}, k \in -2 .. 1, m \in {None, 2},
                                     b \in Body(p)}
           \union {Loop(Times(n), b) : n \in {2, 3}, b \in Body(earth)}

\* What Expand makes of the lines of a script is what its loops and variables mean.
ASSUME ExpandIsMeaning ==
  LET bodies == [group \in {"bodies", "planets"} |->
                   SelectSeq(MCBodiesOf[sol], LAMBDA b : group \in {"bodies", MCGroupOf[b]})]
  IN  \A before \in {Set(x, sun), Track1(x)}, loop1 \in Outer :
        LET script == <<before, loop1, Track1(x)>>
        IN  Expand(Text(script), bodies) = Meaning(script, bodies)
=============================================================================
