---------------------------- MODULE MCExpressions ----------------------------
(* Functions that take the short way of a call or one of the checks, and   *)
(* expressions that read, write, guard and fail around them.               *)
EXTENDS Integers, Sequences, TLC

Ident(name) == [type |-> "Ident", name |-> name]
Value(is, of) == [is |-> is, of |-> of, tainted |-> FALSE]
Const(is, of) == [type |-> "Const", value |-> Value(is, of)]
Binary(op, l, r) == [type |-> "Binary", op |-> op, left |-> l, right |-> r]
Logical(op, l, r) == [type |-> "Logical", op |-> op, left |-> l, right |-> r]
Assigned(target, e) == [type |-> "Assign", target |-> target, value |-> e]
Call(id, callee, args) == [type |-> "Call", id |-> id, callee |-> callee, args |-> args]
At(object, k) == [type |-> "Index", object |-> object, index |-> k]
Dot(object, name) == [type |-> "Member", object |-> object, name |-> name]

zero == Const("num", <<0>>)
x == Ident("x")
p == Ident("p")
push == 4
len == 5

Fn(body) == [params |-> <<"p">>, needs |-> FALSE, escapes |-> FALSE,
             requires |-> <<>>, ensures |-> <<>>, old |-> <<>>, body |-> body]
Old == Call(100, Ident("old"), <<x>>)
MCFunctions == <<
  Fn(Assigned(x, Binary("+", p, Const("num", <<1>>)))),                              \* f
  [Fn(p) EXCEPT !.requires = <<p>>],                                                 \* careful
  [Fn(Assigned(x, p)) EXCEPT !.ensures = <<Binary("==", Old, x)>>, !.old = <<Old>>], \* steady
  [Fn(p) EXCEPT !.needs = TRUE],                                                     \* needy
  [Fn(Call(101, Ident("say"), <<p>>)) EXCEPT !.escapes = TRUE],                      \* escaping
  Fn(Call(102, Ident("deep"), <<p>>)) >>                                             \* deep

MCGlobals ==
  "t" :> [Value("num", <<1>>) EXCEPT !.tainted = TRUE] @@
  "xs" :> Value("list", <<1>>) @@ "frozen" :> Value("list", <<2>>) @@ "m" :> Value("map", <<3>>) @@
  "ts" :> [Value("list", <<1>>) EXCEPT !.tainted = TRUE] @@
  "f" :> Value("fn", <<1>>) @@ "careful" :> Value("fn", <<2>>) @@ "steady" :> Value("fn", <<3>>) @@
  "needy" :> Value("fn", <<4>>) @@ "escaping" :> Value("fn", <<5>>) @@ "deep" :> Value("fn", <<6>>) @@
  "say" :> Value("native", <<1, 0, 0>>) @@ "trust" :> Value("native", <<2, 0, 0>>) @@
  "fetch" :> Value("native", <<3, 0, 0>>) @@ "Box" :> Value("type", <<>>) @@ "Empty" :> Value("variant", <<1>>)

MCHeap == <<
  [frozen |-> FALSE, holds |-> <<Value("num", <<0>>)>>],
  [frozen |-> TRUE, holds |-> <<Value("num", <<0>>)>>],
  [frozen |-> FALSE, holds |-> <<0>> :> Value("num", <<5>>)] >>

MCStarts ==
  {zero, x, Ident("t"), Ident("nowhere"), Const("groundless", <<>>), Const("str", <<7>>),
   Ident("f"), Ident("careful"), Ident("needy"), Ident("Empty"), [type |-> "ListLit", elements |-> <<x>>]}

Arm(pattern, guard, body) == [pattern |-> pattern, guard |-> guard, body |-> body]
Bind(name) == [kind |-> "bind", name |-> name]

GrownBy(e, id) ==
  {Binary(op, e, x) : op \in {"+", "==", "/"}} \cup {Binary(op, x, e) : op \in {"+", "==", "/"}}
    \cup {Binary("+", e, Ident("t")), Binary("+", Ident("t"), e), Binary("+", e, Call(id, Ident("say"), <<x>>))}
    \cup {Logical(op, e, Call(id, Ident("f"), <<x>>)) : op \in {"and", "or"}} \cup {Logical("or", zero, e)}
    \cup {[type |-> "Unary", op |-> op, operand |-> e] : op \in {"-", "not"}}
    \cup {At(Ident(name), e) : name \in {"xs", "ts", "m"}} \cup {At(e, zero)}
    \cup {[type |-> "ListLit", elements |-> <<e, x>>], [type |-> "MapLit", key |-> x, value |-> e],
          [type |-> "Template", parts |-> <<e, x>>]}
    \cup {Assigned(x, e), Assigned(Ident("f"), e), Assigned(At(Ident("xs"), e), x),
          Assigned(At(Ident("m"), x), e), Assigned(At(Ident("frozen"), zero), e),
          Assigned(Dot(Ident("m"), <<9>>), e), Assigned(At(e, x), zero)}
    \cup {Call(id, Ident(name), <<e>>) :
            name \in {"f", "careful", "steady", "needy", "escaping", "deep", "say", "trust", "fetch", "Box", "old", "nowhere"}}
    \cup {Call(id, e, <<x>>), Call(id, x, <<e>>), Call(id, x, <<Assigned(x, e)>>), Call(id, Ident("f"), <<e, x>>),
          Call(id, Dot(Ident("xs"), push), <<Ident("t")>>), Binary("+", Call(id, Dot(Ident("xs"), push), <<zero>>), e), Call(id, Dot(Ident("ts"), len), <<>>), Call(id, Dot(e, push), <<x>>)}
    \cup {[type |-> "Match", subject |-> e, arms |->
             <<Arm(Bind("Empty"), <<>>, zero), Arm([kind |-> "list", items |-> <<Bind("p")>>], <<p>>, p),
               Arm([kind |-> "literal", value |-> Value("num", <<1>>)], <<Call(id, Ident("say"), <<x>>)>>, x),
               Arm([kind |-> "wildcard"], <<>>, Assigned(x, zero))>>]}

VARIABLES situation, expression
X == INSTANCE Expressions WITH Functions <- MCFunctions, Globals <- MCGlobals, Heap <- MCHeap,
  Starts <- MCStarts, MaxGrown <- 2, MaxCallDepth <- 2,
  Situations <- {"plain", "grounded", "agent", "profiling", "calling"}
Init == X!Init
Resting == situation = "plain" /\ expression = [e |-> zero, nodes |-> 0]
Next == X!Next
SameValue(how, e) == X!SameValue(how, e)
=============================================================================
