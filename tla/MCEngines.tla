------------------------------ MODULE MCEngines ------------------------------
EXTENDS Naturals, Sequences

Expr(type) == [type |-> "ExprStmt", expr |-> [type |-> type]]
Plain == {Expr("Say"), Expr("Assign"), Expr("Fail"), [type |-> "Declare"]}
Leaving == {[type |-> "Return"], [type |-> "Break"], [type |-> "Continue"]}

Blocks(first, rest) ==
  {<<>>} \cup {<<a>> : a \in first} \cup {<<a, b>> : a \in Plain, b \in rest}

Contracts == {"none", "invariant", "variant"}
Fork(block) == [type |-> "ExprStmt", expr |-> [type |-> "Fork", body |-> block]]
Compound(blocks, alts) ==
  {[type |-> "Block", body |-> b] : b \in blocks}
    \cup {[type |-> "If", then |-> b, alt |-> a] : a \in alts, b \in blocks}
    \cup {[type |-> "While", contract |-> c, body |-> b] : b \in blocks, c \in Contracts}
    \cup {[type |-> "For", contract |-> c, name |-> n, iter |-> it, loud |-> l, body |-> b] :
             b \in blocks, c \in Contracts, n \in {"x", "i"}, it \in {"range", "list"}, l \in BOOLEAN}
    \cup {[type |-> "Attempt", body |-> b, handler |-> a] : a \in alts, b \in blocks}
    \cup {Fork(b) : b \in blocks}

Short == {<<a>> : a \in Leaving \cup {Expr("Assign"), Expr("Fail")}}
Inner == Compound(Short, {<<>>})
MCStatements ==
  Plain \cup Leaving
    \cup Compound(Blocks(Plain \cup Leaving, Leaving \cup {Expr("Assign")}), {<<>>, <<Expr("Say")>>})
    \cup Compound({<<a>> : a \in Inner}, {<<>>})
    \cup Compound({<<Expr("Assign"), a>> : a \in Inner}, {<<Expr("Say")>>})
MCEndings == Plain \cup Leaving

VARIABLES way, body
INSTANCE Engines WITH Statements <- MCStatements, Endings <- MCEndings,
  Ways <- {"program", "call", "contracted"}, MaxBody <- 2, StepLimit <- 9
=============================================================================
