----------------------------- MODULE MCFormatter -----------------------------
(* Trees of a few shapes: expressions two operators deep, every statement  *)
(* around a few bodies, and any two short statements next to each other.   *)
EXTENDS Naturals, Sequences, TLC

Ident(name) == [type |-> "Ident", name |-> name]
Literal(text) == [type |-> "Literal", text |-> text]
Binary(op, left, right) == [type |-> "Binary", op |-> op, left |-> left, right |-> right]
None == [type |-> "none"]
NoClauses == [word \in {} |-> <<>>]

a == Ident("a")
one == Literal("1")
Atoms == {a, one}

Grown(operands, few) ==
  {Binary(op, l, r) : op \in {"or", "==", "<", "-", "*", "**"}, l \in operands, r \in operands}
    \cup {[type |-> "Unary", op |-> op, operand |-> e] : op \in {"-", "not"}, e \in operands}
    \cup {[type |-> "Assign", target |-> t, value |-> e] : t \in few \cap {a}, e \in operands}
    \cup {[type |-> "Call", callee |-> e, args |-> args] : e \in operands, args \in {<<>>, <<a, one>>}}
    \cup {[type |-> "Call", callee |-> a, args |-> <<e>>] : e \in operands}
    \cup {[type |-> "Index", object |-> e, indices |-> <<one>>] : e \in operands}
    \cup {[type |-> "Index", object |-> a, indices |-> <<e>>] : e \in operands}
    \cup {[type |-> "Member", object |-> e, name |-> "a"] : e \in operands}
    \cup {[type |-> "ListLit", elements |-> list] : list \in {<<>>} \cup {<<e, a>> : e \in operands}}
    \cup {[type |-> "MapLit", entries |-> list] : list \in {<<>>} \cup {<<[key |-> "a", value |-> e]>> : e \in operands}}
    \cup {[type |-> "TensorLit", value |-> e] : e \in operands}
    \cup {[type |-> "Spawn", name |-> "a", args |-> <<e>>] : e \in operands}
    \cup {[type |-> "Fork", count |-> e, body |-> <<[type |-> "ExprStmt", expr |-> a]>>] : e \in operands}

Arm(head, guard, value) == [head |-> head, guard |-> guard, value |-> value]
Patterns == {Literal("1"), [type |-> "wildcard"], [type |-> "bind", name |-> "a"],
             [type |-> "list", items |-> <<[type |-> "wildcard"], Literal("1")>>],
             [type |-> "record", name |-> "a", fields |-> <<[type |-> "bind", name |-> "a"]>>]}
Special(es) ==
  {[type |-> "Choose", arms |-> <<Arm(one, None, e), Arm(e, None, a)>>] : e \in es}
    \cup {[type |-> "Match", subject |-> e, arms |-> <<Arm(p, g, e), Arm([type |-> "wildcard"], None, a)>>] :
            e \in es, g \in {None, a}, p \in Patterns}

E1 == Atoms \cup Grown(Atoms, Atoms)
E2 == E1 \cup Grown(E1, {a}) \cup Special(E1)

Stmt(e) == [type |-> "ExprStmt", expr |-> e]
Dyn(name, args) == [kind |-> "name", name |-> name, args |-> args]
Types == {None, Dyn("a", <<>>), Dyn("a", <<Dyn("a", <<Dyn("dyn", <<>>)>>)>>),
          [kind |-> "fn", params |-> <<Dyn("a", <<>>)>>, ret |-> Dyn("dyn", <<>>)]}
Minus == [type |-> "Unary", op |-> "-", operand |-> a]
Listed1 == [type |-> "ListLit", elements |-> <<a>>]
Map == [type |-> "MapLit", entries |-> <<>>]
Return(v) == [type |-> "Return", value |-> v]
Short ==
  {Stmt(e) : e \in {a, Minus, Listed1, Map, [type |-> "Assign", target |-> a, value |-> one]}}
    \cup {Return(None), Return(a), [type |-> "Leave", word |-> "break"],
          [type |-> "Import", path |-> "1", alias |-> ""], [type |-> "Import", path |-> "1", alias |-> "a"],
          [type |-> "Declare", mutable |-> FALSE, name |-> "a", declared |-> None, value |-> one]}
Declared == {[type |-> "Declare", mutable |-> m, name |-> "a", declared |-> t, value |-> e] :
               m \in BOOLEAN, t \in Types, e \in {a, Minus}}

Requires == "requires" :> << <<"a">> >>
Needs == "needs" :> << <<"a">>, <<"b">> >>
Function(name, said, t, body) ==
  [type |-> "Fn", name |-> name, params |-> <<a>>, returnType |-> t, clauses |-> said, body |-> body]

Bodies == {<<>>} \cup {<<s>> : s \in Short} \cup {<<s, t>> : s \in Short, t \in Short}
Block(b) == [type |-> "Block", body |-> b]
If(b, alt) == [type |-> "If", test |-> a, then |-> b, alt |-> alt]
Alts(b) == {None, Block(b), If(<<>>, None), If(<<>>, Block(b)), If(<<>>, If(b, None))}
Variant(name, fields, said) == [name |-> name, fields |-> fields, clauses |-> said]
Invariant == "invariant" :> << <<"a", "<", "1">> >>

Around1(b) ==
  {If(b, alt) : alt \in Alts(b)}
    \cup {[type |-> "Maybe", prob |-> a, then |-> b, alt |-> alt] : alt \in Alts(b)}
    \cup {[type |-> kind[1], name |-> kind[2], head |-> a, clauses |-> c, body |-> b] :
            kind \in {<<"While", "">>, <<"For", "a">>}, c \in {NoClauses, Invariant, "variant" :> << <<"a">> >> @@ Invariant}}
    \cup {[type |-> "Bare", word |-> w, body |-> b] : w \in {"atomic"}}
    \cup {[type |-> "Around", word |-> w, of |-> a, body |-> b] : w \in {"using"}}
    \cup {[type |-> "Attempt", body |-> b, name |-> "a", handler |-> b], Block(b)}
    \cup {[type |-> "FnDecl", fn |-> Function("a", c, t, b)] : c \in {NoClauses, Requires, Needs @@ Requires}, t \in Types}
    \cup {[type |-> "Redefine", kind |-> "fn", fn |-> Function("a", Requires, None, b)],
          [type |-> "Redefine", kind |-> "handler", agentName |-> "a", message |-> "b", params |-> <<a>>, body |-> b],
          [type |-> "AgentDecl", name |-> "a", params |-> <<a>>, stateDecls |-> b,
           handlers |-> <<[message |-> "b", params |-> <<>>, body |-> b]>>]}
    \cup {Stmt(Function("", c, None, b)) : c \in {NoClauses, Needs}}
    \cup {Stmt([type |-> "Fork", count |-> one, body |-> b]), Return([type |-> "Fork", count |-> one, body |-> b])}
Data ==
  {[type |-> "RecordDecl", record |-> Variant("a", <<a>>, c)] : c \in {NoClauses, Invariant}}
    \cup {[type |-> "ChoiceDecl", name |-> "a", variants |-> <<Variant("a", <<>>, NoClauses), Variant("b", f, c)>>] :
            f \in {<<>>, <<a>>}, c \in {NoClauses, Invariant}}

Once == UNION {Around1(b) : b \in Bodies}
Nested == UNION {Around1(<<s>>) : s \in UNION {Around1(b) : b \in {<<>>, <<Stmt(a)>>}} \cup Data}
MCPrograms ==
  {<<Stmt(e)>> : e \in E2} \cup {<<s>> : s \in Once \cup Nested}
    \cup {<<s, t>> : s \in Short \cup Declared \cup Data \cup Around1(<<Stmt(a)>>), t \in Short \cup Data \cup Around1(<<>>)}

VARIABLE program
F == INSTANCE Formatter WITH Names <- {"a", "b"}, Literals <- {"1"}, Programs <- MCPrograms
Init == F!Init
Next == F!Next
Spec == F!Spec
(* Formatting loses nothing: what is printed parses to the same program,   *)
(* unless the formatter stopped.                                           *)
FormatsFaithfully == [][F!Kept(program')]_program
KeptOtherwise(tree) == F!KeptOtherwise(tree)
=============================================================================
