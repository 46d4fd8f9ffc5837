------------------------------ MODULE MCVerifier ------------------------------
(***************************************************************************)
(* Functions to verify, and what their verdicts say of their calls.        *)
(***************************************************************************)
EXTENDS Integers, Sequences, FiniteSets, TLC

VARIABLE function

V == INSTANCE Verifier WITH
  MaxAtoms <- 24, Budget <- 4000, MaxDisequalities <- 6, MaxPaths <- 3, MaxPasses <- 5

Num(n) == [type |-> "Num", value |-> n]
Id(x) == [type |-> "Ident", name |-> x]
Op(l, op, r) == [type |-> "Binary", op |-> op, left |-> l, right |-> r]
Old(e) == [type |-> "Old", of |-> e]
Un(op, e) == [type |-> "Unary", op |-> op, operand |-> e]
Both(l, r) == [type |-> "Logical", op |-> "and", left |-> l, right |-> r]
Either(l, r) == [type |-> "Logical", op |-> "or", left |-> l, right |-> r]

x == Id("x")
y == Id("y")
i == Id("i")
result == Id("result")

Assign(name, e) == [type |-> "Assign", name |-> name, value |-> e]
Declare(name, e) == [type |-> "Declare", name |-> name, value |-> e]
Return(e) == [type |-> "Return", value |-> e]
Block(b) == [type |-> "Block", body |-> b]
Nil == [type |-> "Nil"]
If(t, b, alt) == [type |-> "If", test |-> t, then |-> Block(b), alt |-> alt]
While(t, inv, var, b) == [type |-> "While", test |-> t, invariants |-> inv, variant |-> var, body |-> b]
For(name, n, inv, var, b) ==
  [type |-> "For", name |-> name, count |-> n, invariants |-> inv, variant |-> var, body |-> b]
Break == [type |-> "Break"]
Continue == [type |-> "Continue"]

Product == Op(x, "*", y)
Tests == {Op(x, "<", Num(0)), Op(x, "<=", y), Op(x, "==", y), Op(Product, ">", Num(0)),
          Un("not", Either(Op(x, "!=", Num(0)), Op(y, ">", x)))}
Terms == {x, Op(x, "-", y), Op(Op(x, "+", y), "/", Num(2)), Product}

Steps == {Assign("x", e) : e \in {Op(x, "+", Num(1)), Un("-", x), Product}}
Simple == Steps \cup {Declare("y", Num(1)), Return(Num(0)), Return(y)}
Branches ==
  {If(t, <<a>>, Nil) : t \in Tests, a \in Simple}
    \cup {If(Op(x, "<=", y), <<a>>, Block(<<b>>)) : a \in Steps, b \in Simple}
    \cup {If(Op(x, "<", Num(0)), <<Return(Num(0))>>, If(Op(y, "<", Num(0)), <<a>>, Nil)) : a \in Simple}
    \cup {Block(<<a>>) : a \in Simple}

Straight == {<<a>> : a \in Steps \cup Branches} \cup {<<a, b>> : a \in Steps, b \in {Assign("y", x)}} \cup
            {<<Assign("y", Op(x, "+", Num(1))), b>> : b \in Branches} \cup
            {<<If(Op(x, "<", Num(0)), <<a>>, Nil), If(Op(x, "<=", y), <<b>>, Nil)>> : a \in Steps, b \in Simple}

Invariants == {{}, {Op(i, "<=", x)}, {Op(i, ">=", Num(0))}, {Op(y, "==", Op(i, "+", Old(y)))}}
Passes == {<<Assign("i", Op(i, "+", Num(1)))>>, <<Assign("i", Op(i, "+", Num(1))), Assign("y", Op(y, "+", Num(1)))>>,
           <<Assign("y", Op(y, "+", Num(1))), If(Op(y, ">", x), <<Break>>, Nil), Assign("i", Op(i, "+", Num(1)))>>,
           <<Assign("i", Op(i, "+", Num(1))), If(Op(i, ">", Num(1)), <<Continue>>, Nil), Assign("y", Op(y, "+", Num(1)))>>,
           <<If(Op(i, "<", Num(0)), <<Return(Num(0))>>, Nil), Assign("i", Op(i, "+", Num(1)))>>,
           <<Return(Num(0))>>,
           <<Assign("i", Op(i, "+", Product)), Assign("y", Op(y, "-", Num(1)))>>}
LoopBodies ==
  {<<Declare("i", Num(0)), While(t, inv, var, b)>> :
     t \in {Op(i, "<", x)}, inv \in Invariants, var \in {{}, {Op(x, "-", i)}}, b \in Passes}
   \cup {<<Declare("i", Num(0)), For("z", 2, inv, {}, b)>> : inv \in Invariants, b \in Passes}

Contracts == {
  [requires |-> {}, ensures |-> {Op(result, ">=", Num(0))}],
  [requires |-> {}, ensures |-> {Op(result, "<=", Num(1))}],
  [requires |-> {Op(x, ">", Num(0)), Op(y, ">", Num(0))}, ensures |-> {Op(result, ">", Num(0))}],
  [requires |-> {Op(x, ">=", y)}, ensures |-> {Op(result, ">=", y)}],
  [requires |-> {}, ensures |-> {Op(result, "==", Old(Op(x, "-", y)))}],
  [requires |-> {Op(x, ">=", Num(0))}, ensures |-> {Either(Op(result, "==", x), Op(result, "!=", Old(y)))}],
  [requires |-> {Op(y, ">", Num(1))}, ensures |-> {Op(result, "==", Product)}]}

Fn(contract, body) ==
  [params |-> <<"x", "y">>, requires |-> contract.requires, ensures |-> contract.ensures, body |-> body]
Functions ==
  {Fn(c, Append(b, Return(e))) : c \in Contracts, b \in {<<>>} \cup Straight, e \in Terms}
Looping ==
  {Fn(c, Append(b, Return(e))) : c \in Contracts, b \in LoopBodies, e \in {x, y, i, Num(1)}}

Begun == [params |-> <<>>]
Init == function = Begun
Next == function = Begun /\ function' \in Functions \cup Looping
Spec == Init /\ [][Next]_function

Whole == {V!Rat(n, 1) : n \in -2 .. 2}
Grid == {V!Rat(n, 2) : n \in -10 .. 10}
Args(values) == [{"x", "y"} -> values]

(* The statements of a body, those within statements too.                  *)
RECURSIVE Statements(_)
Inner(n) == CASE n.type = "If" -> {n.then.body, IF n.alt.type = "Block" THEN n.alt.body ELSE <<n.alt>>}
              [] n.type \in {"Block", "While", "For"} -> {n.body}
              [] OTHER -> {}
Statements(body) == UNION {{body[k]} \cup UNION {Statements(b) : b \in Inner(body[k])} : k \in DOMAIN body}
Within(body) == UNION {UNION {Statements(b) : b \in Inner(body[k])} : k \in DOMAIN body}
IsLoop(n) == n.type \in {"While", "For"}

RECURSIVE Subterms(_)
Subterms(e) ==
  {e} \cup CASE e.type \in {"Binary", "Logical"} -> Subterms(e.left) \cup Subterms(e.right)
            [] e.type = "Unary" -> Subterms(e.operand)
            [] e.type = "Old" -> Subterms(e.of)
            [] OTHER -> {}
TermsOf(n) == CASE n.type \in {"Declare", "Assign", "Return"} -> {n.value}
                [] n.type = "If" -> {n.test}
                [] n.type = "While" -> {n.test} \cup n.invariants \cup n.variant
                [] n.type = "For" -> n.invariants \cup n.variant
                [] OTHER -> {}

(* What the verifier is known to leave out: a term it cannot read is the   *)
(* same unknown wherever its text stands, although what it is made of has  *)
(* been assigned to; a `return`, `break` or `continue` in a loop; that a   *)
(* `for` ends; `else if`; and that a block's `let` ends with the block.    *)
Unread(fn) ==
  /\ Product \in UNION {Subterms(e) : e \in fn.requires \cup fn.ensures \cup UNION {TermsOf(n) : n \in Statements(fn.body)}}
  /\ \E n \in Statements(fn.body) : n.type \in {"Assign", "Declare"} /\ n.name \in {"x", "y"}
LeavesLoop(fn) ==
  \E n \in Statements(fn.body) : IsLoop(n) /\ \E m \in Statements(n.body) : m.type \in {"Return", "Break", "Continue"}
Known(fn) ==
  \/ Unread(fn)
  \/ LeavesLoop(fn)
  \/ \E n \in Statements(fn.body) : n.type = "For" /\ n.invariants \cup n.variant # {}
  \/ \E n \in Statements(fn.body) : n.type = "If" /\ n.alt.type = "If"
  \/ \E n \in Within(fn.body) : n.type = "Declare" /\ n.name \in {"x", "y"}

Loops(fn) == \E n \in Statements(fn.body) : IsLoop(n)

(* What is proved of a function holds of every call of it, and what is     *)
(* refuted is broken by one; but where a loop is known only by what it     *)
(* says of itself, that it says too little is no call's fault.             *)
VerdictsHold(fn) ==
  LET verdicts == V!verifyFunction(fn)
  IN  /\ verdicts = {"proved"} => \A args \in Args(Whole) : V!Called(fn, args) => V!Keeping(fn, args)
      /\ "refuted" \in verdicts /\ ~Loops(fn) => \E args \in Args(Grid) : V!Called(fn, args) /\ ~V!Keeping(fn, args)

HoldsOtherwise(fn) == Known(fn) \/ VerdictsHold(fn)

(* "nothing proved may have a counterexample" (tests/verify.test.mjs)      *)
ProofsHold == [][V!verifyFunction(function') = {"proved"} => VerdictsHold(function')]_function
=============================================================================
