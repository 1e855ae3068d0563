-------------------------------- MODULE Script --------------------------------
(***************************************************************************)
(* The script language (client/script): what the lines of a file come to   *)
(* once variables are replaced and loops unrolled.  Expand works on the    *)
(* flat lines, matching each loop with its endfor; Meaning says the same   *)
(* of a script as a tree, whose lines Text lays out.                       *)
(*                                                                         *)
(* A line is a record whose kind is "set", "for", "count", "endfor" or     *)
(* that of a command; its name, if it has one, may be a variable.          *)
(* Comments, blank lines and spelling are left out, and a slice with a     *)
(* negative end, which is an error.  Variables and names are values that   *)
(* cannot be confused, the value of a set line is no variable but that of  *)
(* a loop around it, and no loop uses a variable that has a value already: *)
(* the code replaces text, and the order in which it does so matters then. *)
(***************************************************************************)
EXTENDS Integers, Sequences, SequencesExt

CONSTANTS
  Variables,  \* $name
  Values,     \* names of bodies, and numbers
  Unset       \* what a variable without a value has

ASSUME UnsetAssumption == Unset \notin Values \union Variables

Environments == [Variables -> Values \union {Unset}]
NoVariables  == [v \in Variables |-> Unset]

\* ExpandVars, for one word: a variable without a value stays as it is.
Word(env, w) == IF w \in Variables /\ env[w] # Unset THEN env[w] ELSE w

\* A line with its variables replaced.  (Loop variables are replaced in the text of the
\* body before everything else, those of set lines when their turn comes.)
ExpandVars(env, line) ==
  CASE "name" \in DOMAIN line -> [line EXCEPT !.name = Word(env, @)]
    [] line.kind = "jump" ->
         [line EXCEPT !.stops = [k \in DOMAIN @ |-> [@[k] EXCEPT !.name = Word(env, @)]]]
    [] line.kind = "count" -> [line EXCEPT !.n = Word(env, @)]
    [] OTHER -> line

\* ParseForHeader.  A count must be a number by now.
IsHeader(line) == line.kind = "for" \/ (line.kind = "count" /\ line.n \in Nat \ {0})

-----------------------------------------------------------------------------
\* ApplyForSlice: [from:to], a negative from counted from the end, no to meaning the end.
Sliced(names, slice) ==
  LET n == Len(names)
      clip(k) == IF k < 0 THEN 0 ELSE IF k > n THEN n ELSE k
      from == clip(IF slice.from < 0 THEN n + slice.from ELSE slice.from)
      to == IF slice.to = Unset \/ slice.to > n THEN n ELSE slice.to
  IN  SubSeq(names, from + 1, IF to < from THEN from ELSE to)

\* The index of the endfor that ends the body beginning at i, one past the end without
\* one (collectBodyLines).  Headers are looked for before variables are replaced.
EndOfBody(text, i) ==
  LET opened(k) == Cardinality({j \in i .. k - 1 : IsHeader(text[j])})
      closed(k) == Cardinality({j \in i .. k - 1 : text[j].kind = "endfor"})
      ends == {k \in i .. Len(text) : text[k].kind = "endfor" /\ opened(k) = closed(k)}
  IN  IF ends = {} THEN Len(text) + 1 ELSE Min(ends)

\* expandLines and unrollLoop: bodies has the names in each group, and what a body sets
\* is forgotten after each turn of its loop.
Expand(text, bodies) ==
  LET \* the lines from i up to before j
      expanded[i \in Nat, j \in Nat, env \in Environments] ==
        IF i >= j THEN << >>
        ELSE LET line == ExpandVars(env, text[i]) IN
          IF line.kind = "set"
          THEN expanded[i + 1, j, [env EXCEPT ![line.var] = Word(env, line.value)]]
          ELSE IF IsHeader(line)
          THEN LET end == Min({EndOfBody(SubSeq(text, 1, j - 1), i + 1), j})
                   turns == IF line.kind = "count" THEN [k \in 1 .. line.n |-> env]
                            ELSE LET names == Sliced(bodies[line.group], line)
                                 IN  [k \in DOMAIN names |-> [env EXCEPT ![line.var] = names[k]]]
               IN  FlattenSeq([k \in DOMAIN turns |-> expanded[i + 1, end, turns[k]]])
                     \o expanded[end + 1, j, env]
          ELSE (IF line.kind = "endfor" THEN << >> ELSE <<line>>) \o expanded[i + 1, j, env]
  IN  expanded[1, Len(text) + 1, NoVariables]

-----------------------------------------------------------------------------
(* What a script means, as a tree: a sequence of lines and of loops, a     *)
(* loop being a header with a script as its body.                          *)

CONSTANT Scripts  \* a set of scripts that holds the bodies of their loops

IsLoop(node) == "body" \in DOMAIN node

Text(script) ==
  LET text[s \in Scripts] ==
        FlattenSeq([k \in DOMAIN s |->
          IF IsLoop(s[k]) THEN <<s[k].head>> \o text[s[k].body] \o <<[kind |-> "endfor"]>>
          ELSE <<s[k]>>])
  IN  text[script]

\* The turns of a loop: each with the variables it begins with.
Turns(head, env, bodies) ==
  IF head.kind = "count" THEN {<<k, env>> : k \in 1 .. Word(env, head.n)}
  ELSE LET names == bodies[head.group]
           n == Len(names)
           chosen == {k \in 1 .. n :
                        /\ k > IF head.from < 0 THEN n + head.from ELSE head.from
                        /\ head.to # Unset => k <= head.to}
       IN  {<<k, [env EXCEPT ![head.var] = names[k]]>> : k \in chosen}

Meaning(script, bodies) ==
  LET \* what the lines and loops of s from k on come to
      meaning[s \in Scripts, k \in Nat, env \in Environments] ==
        IF k > Len(s) THEN << >>
        ELSE IF IsLoop(s[k])
        THEN LET turns == SetToSortSeq(Turns(s[k].head, env, bodies), LAMBDA a, b : a[1] < b[1])
             IN  FlattenSeq([t \in DOMAIN turns |-> meaning[s[k].body, 1, turns[t][2]]])
                   \o meaning[s, k + 1, env]
        ELSE IF s[k].kind = "set"
        THEN meaning[s, k + 1, [env EXCEPT ![s[k].var] = Word(env, s[k].value)]]
        ELSE <<ExpandVars(env, s[k])>> \o meaning[s, k + 1, env]
  IN  meaning[script, 1, NoVariables]
=============================================================================
