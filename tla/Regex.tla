-------------------------------- MODULE Regex --------------------------------
(***************************************************************************)
(* Regular expressions: the parser, the compiler to a program of           *)
(* instructions and the machine that runs all threads of the program in    *)
(* lockstep (regex.js).                                                    *)
(*                                                                         *)
(* A pattern is a sequence of tokens: a class such as [^a] and a count     *)
(* such as {0,2} are one token each, what is inside them being left out.   *)
(* The reference is a backtracking matcher: all the ways a node can match, *)
(* in the order a backtracker tries them.                                  *)
(***************************************************************************)
EXTENDS Naturals, Sequences, FiniteSets, TLC, SequencesExt

CONSTANTS
  Tokens,      \* the tokens patterns are made of
  Letters,     \* what subjects are made of, and the sets tokens stand for
  MaxPattern, MaxSubject  \* bounds

VARIABLE pattern

Infinity == 9  \* more than any subject is long
Sets == ("." :> Letters) @@ ("a" :> {"a"}) @@ ("b" :> {"b"}) @@ ("[^a]" :> Letters \ {"a"})
Counts == ("*" :> <<0, Infinity>>) @@ ("+" :> <<1, Infinity>>) @@ ("?" :> <<0, 1>>)
          @@ ("{2}" :> <<2, 2>>) @@ ("{0,2}" :> <<0, 2>>) @@ ("{1,}" :> <<1, Infinity>>)
Braced == {"{2}", "{0,2}", "{1,}"}

-----------------------------------------------------------------------------
(* Parser: [node, at, groups], or Failed.                                  *)

Failed == [node |-> [type |-> "failed"], at |-> 0, groups |-> 0]
Parsed(node, i, g) == [node |-> node, at |-> i, groups |-> g]
Is(p, i, t) == i <= Len(p) /\ p[i] = t

RECURSIVE alternation(_, _, _), concatenation(_, _, _)

(* The atom at i: a count in braces with nothing before it is literal.     *)
atom(p, i, g) ==
  IF p[i] \in DOMAIN Sets THEN Parsed([type |-> "char", set |-> Sets[p[i]]], i + 1, g)
  ELSE IF p[i] \in Braced THEN Parsed([type |-> "char", set |-> {}], i + 1, g)
  ELSE IF p[i] \in {"^", "$"} THEN Parsed([type |-> "anchor", start |-> p[i] = "^"], i + 1, g)
  ELSE IF p[i] \in {"(", "(?:"}
    THEN LET index == IF p[i] = "(" THEN g + 1 ELSE 0
             inner == alternation(p, i + 1, IF p[i] = "(" THEN g + 1 ELSE g)
         IN IF inner # Failed /\ Is(p, inner.at, ")")
            THEN Parsed([type |-> "group", of |-> inner.node, index |-> index], inner.at + 1, inner.groups)
            ELSE Failed
  ELSE Failed

quantified(p, i, g) ==
  LET a == atom(p, i, g)
  IN IF a = Failed \/ a.at > Len(p) \/ p[a.at] \notin DOMAIN Counts THEN a
     ELSE IF a.node.type = "anchor" THEN Failed
     ELSE Parsed([type |-> "repeat", of |-> a.node, min |-> Counts[p[a.at]][1], max |-> Counts[p[a.at]][2]],
                 a.at + 1, a.groups)

(* cat and alt with their parts as pairs, the last one empty or alone.     *)
concatenation(p, i, g) ==
  IF i > Len(p) \/ p[i] \in {"|", ")"} THEN Parsed([type |-> "empty"], i, g)
  ELSE LET first == quantified(p, i, g)
           rest == concatenation(p, first.at, first.groups)
       IN IF first = Failed \/ rest = Failed THEN Failed
          ELSE Parsed([type |-> "cat", left |-> first.node, right |-> rest.node], rest.at, rest.groups)

alternation(p, i, g) ==
  LET first == concatenation(p, i, g)
      rest == alternation(p, first.at + 1, first.groups)
  IN IF first = Failed \/ ~Is(p, first.at, "|") THEN first
     ELSE IF rest = Failed THEN Failed
     ELSE Parsed([type |-> "alt", left |-> first.node, right |-> rest.node], rest.at, rest.groups)

parse(p) == LET all == alternation(p, 1, 0) IN IF all.at = Len(p) + 1 THEN all ELSE Failed

(* A pattern is typed token by token.                                      *)
Init == pattern = <<>>
Next == \E t \in Tokens :
  /\ Len(pattern) < MaxPattern
  /\ pattern' = Append(pattern, t)
Spec == Init /\ [][Next]_pattern

-----------------------------------------------------------------------------
(* compile: instructions after those there are already.                    *)

Split(x, y) == [op |-> "split", x |-> x, y |-> y]
Jmp(x) == [op |-> "jmp", x |-> x]
SaveAt(slot) == [op |-> "save", slot |-> slot]

RECURSIVE compile(_, _), optional(_, _, _)

RECURSIVE copies(_, _, _)
copies(node, n, prog) == IF n = 0 THEN prog ELSE copies(node, n - 1, compile(node, prog))

(* n optional copies, each of which skips all that follow it.              *)
optional(node, n, prog) ==
  IF n = 0 THEN prog
  ELSE LET p == optional(node, n - 1, compile(node, Append(prog, Split(Len(prog) + 2, 0))))
       IN [p EXCEPT ![Len(prog) + 1].y = Len(p) + 1]

unbounded(node, prog) ==
  LET p == Append(compile(node, Append(prog, Split(Len(prog) + 2, 0))), Jmp(Len(prog) + 1))
  IN [p EXCEPT ![Len(prog) + 1].y = Len(p) + 1]

(* Mutant: the later branch is tried first.                                *)
alternativesSwapped(node, prog) ==
  LET one == Append(compile(node.left, Append(prog, Split(0, Len(prog) + 2))), Jmp(0))
      both == compile(node.right, one)
  IN [both EXCEPT ![Len(prog) + 1].x = Len(one) + 1, ![Len(one)].x = Len(both) + 1]

alternatives(node, prog) ==
  LET one == Append(compile(node.left, Append(prog, Split(Len(prog) + 2, 0))), Jmp(0))
      both == compile(node.right, one)
  IN [both EXCEPT ![Len(prog) + 1].y = Len(one) + 1, ![Len(one)].x = Len(both) + 1]

compile(node, prog) ==
  CASE node.type = "empty" -> prog
    [] node.type = "char" -> Append(prog, [op |-> "char", set |-> node.set])
    [] node.type = "anchor" -> Append(prog, [op |-> "assert", start |-> node.start])
    [] node.type = "cat" -> compile(node.right, compile(node.left, prog))
    [] node.type = "alt" -> alternatives(node, prog)
    [] node.type = "group" ->
         IF node.index = 0 THEN compile(node.of, prog)
         ELSE Append(compile(node.of, Append(prog, SaveAt(2 * node.index + 1))), SaveAt(2 * node.index + 2))
    [] node.type = "repeat" ->
         LET required == copies(node.of, node.min, prog)
         IN IF node.max = Infinity THEN unbounded(node.of, required)
            ELSE optional(node.of, node.max - node.min, required)

Program(parsed) == compile(parsed.node, <<SaveAt(1)>>) \o <<SaveAt(2), [op |-> "match"]>>

-----------------------------------------------------------------------------
(* The machine.  Positions count the letters before them.                  *)

None == 99
NoSlots(g) == [s \in 1 .. 2 * g + 2 |-> None]
Holds(start, pos, subject) == IF start THEN pos = 0 ELSE pos = Len(subject)
Thread(pc, slots) == [pc |-> pc, slots |-> slots]

(* Everything reachable without reading a letter, each instruction once.   *)
RECURSIVE addThread(_, _, _, _, _)
addThread(prog, stack, list, pos, subject) ==
  IF stack = <<>> THEN list
  ELSE LET t == Head(stack)
           more == Tail(stack)
           inst == prog[t.pc]
           on(next) == addThread(prog, next \o more, [list EXCEPT !.seen = @ \cup {t.pc}], pos, subject)
       IN IF t.pc \in list.seen THEN addThread(prog, more, list, pos, subject)
          ELSE CASE inst.op = "jmp" -> on(<<Thread(inst.x, t.slots)>>)
                 [] inst.op = "split" -> on(<<Thread(inst.x, t.slots), Thread(inst.y, t.slots)>>)
                 [] inst.op = "save" -> on(<<Thread(t.pc + 1, [t.slots EXCEPT ![inst.slot] = pos])>>)
                 [] inst.op = "assert" ->
                      on(IF Holds(inst.start, pos, subject) THEN <<Thread(t.pc + 1, t.slots)>> ELSE <<>>)
                 [] OTHER -> addThread(prog, more, [threads |-> Append(list.threads, t),
                                                    seen |-> list.seen \cup {t.pc}], pos, subject)

Empty == [threads |-> <<>>, seen |-> {}]

(* A match ends the threads after it; the ones before it go on, and may    *)
(* still match.                                                            *)
cut(threads, prog) ==
  LET ends == {i \in DOMAIN threads : prog[threads[i].pc].op = "match"}
  IN IF ends = {} THEN threads ELSE SubSeq(threads, 1, CHOOSE i \in ends : \A j \in ends : i <= j)

RECURSIVE run(_, _, _, _, _)
run(prog, threads, pos, subject, matched) ==
  LET live == cut(threads, prog)
      found == SelectSeq(live, LAMBDA t : prog[t.pc].op = "match")
      best == IF found = <<>> THEN matched ELSE Last(found).slots
      reading == SelectSeq(live, LAMBDA t : prog[t.pc].op = "char" /\ subject[pos + 1] \in prog[t.pc].set)
      next == FoldLeft(LAMBDA list, t : addThread(prog, <<Thread(t.pc + 1, t.slots)>>, list, pos + 1, subject),
                       Empty, reading)
  IN IF threads = <<>> \/ pos = Len(subject) THEN best
     ELSE run(prog, next.threads, pos + 1, subject, best)

RECURSIVE exec(_, _, _, _)
exec(prog, g, subject, start) ==
  IF start > Len(subject) THEN <<>>
  ELSE LET first == addThread(prog, <<Thread(1, NoSlots(g))>>, Empty, start, subject)
           matched == run(prog, first.threads, start, subject, <<>>)
       IN IF matched # <<>> THEN matched ELSE exec(prog, g, subject, start + 1)

(* A match of nothing advances by one all the same.                        *)
after(m) == IF m[2] > m[1] THEN m[2] ELSE m[2] + 1

RECURSIVE all(_, _, _, _)
all(prog, g, subject, at) ==
  LET m == exec(prog, g, subject, at)
  IN IF m = <<>> THEN <<>> ELSE <<m>> \o all(prog, g, subject, after(m))

-----------------------------------------------------------------------------
(* The reference.                                                          *)

At(pos, slots) == [pos |-> pos, slots |-> slots]
Each(states, ways(_)) == FoldLeft(LAMBDA found, s : found \o ways(s), <<>>, states)

RECURSIVE ways(_, _, _), repeated(_, _, _, _, _)

(* A pass through an unbounded repetition that reads nothing is no way.    *)
repeated(node, min, max, s, subject) ==
  IF max = 0 THEN <<s>>
  ELSE LET left == IF max = Infinity THEN Infinity ELSE max - 1
           once == ways(node, s, subject)
           useful == SelectSeq(once, LAMBDA t : min > 0 \/ max # Infinity \/ t.pos > s.pos)
           more == Each(useful, LAMBDA t : repeated(node, IF min = 0 THEN 0 ELSE min - 1, left, t, subject))
       IN IF min = 0 THEN Append(more, s) ELSE more

ways(node, s, subject) ==
  CASE node.type = "empty" -> <<s>>
    [] node.type = "char" ->
         IF s.pos < Len(subject) /\ subject[s.pos + 1] \in node.set THEN <<At(s.pos + 1, s.slots)>> ELSE <<>>
    [] node.type = "anchor" -> IF Holds(node.start, s.pos, subject) THEN <<s>> ELSE <<>>
    [] node.type = "cat" -> Each(ways(node.left, s, subject), LAMBDA t : ways(node.right, t, subject))
    [] node.type = "alt" -> ways(node.left, s, subject) \o ways(node.right, s, subject)
    [] node.type = "group" ->
         IF node.index = 0 THEN ways(node.of, s, subject)
         ELSE LET open == [s EXCEPT !.slots[2 * node.index + 1] = s.pos]
              IN Each(ways(node.of, open, subject),
                      LAMBDA t : <<[t EXCEPT !.slots[2 * node.index + 2] = t.pos]>>)
    [] node.type = "repeat" -> repeated(node.of, node.min, node.max, s, subject)

Whole(parsed, subject, start) ==
  LET found == ways(parsed.node, At(start, [NoSlots(parsed.groups) EXCEPT ![1] = start]), subject)
  IN [i \in DOMAIN found |-> [found[i].slots EXCEPT ![2] = found[i].pos]]

-----------------------------------------------------------------------------
(* Properties.                                                             *)

Subjects == UNION {[1 .. n -> Letters] : n \in 0 .. MaxSubject}

MatchesAs(p) ==
  LET parsed == parse(p)
      prog == Program(parsed)
  IN parsed # Failed => \A subject \in Subjects :
       LET at(i) == Whole(parsed, subject, i)
           found == all(prog, parsed.groups, subject, 0)
       IN /\ \A start \in 0 .. Len(subject) :
               LET places == {i \in start .. Len(subject) : at(i) # <<>>}
               IN exec(prog, parsed.groups, subject, start) =
                    IF places = {} THEN <<>> ELSE Head(at(CHOOSE i \in places : \A j \in places : i <= j))
          /\ \A i \in 1 .. Len(found) - 1 : found[i][2] <= found[i + 1][1]
          /\ \A i \in 0 .. Len(subject) : at(i) # <<>> =>
               \E k \in DOMAIN found : found[k][1] <= i /\ (i < found[k][2] \/ i = found[k][1])

(* The machine, with one thread per instruction and a letter read once,    *)
(* finds from every start what a backtracker would find first at the       *)
(* leftmost place there is a match, groups included, and `all` goes on     *)
(* from there without overlaps and to the end: whatever pattern is typed.  *)
MatchesAsBacktracking == [][MatchesAs(pattern')]_pattern
=============================================================================
