------------------------------ MODULE Formatter ------------------------------
(***************************************************************************)
(* `smarsh fmt` (format.js): a program is printed from its syntax tree,    *)
(* and must mean the same when it is parsed again.                         *)
(*                                                                         *)
(* Indentation, blank lines, comments and the width of lines are left out: *)
(* a text is the sequence of its tokens and of its line breaks.            *)
(***************************************************************************)
EXTENDS Grammar

CONSTANTS Programs   \* syntax trees to format

VARIABLE program
Init == program = <<>>
Next == program = <<>> /\ program' \in Programs
Spec == Init /\ [][Next]_program

Joined(parts, sep) == FoldLeft(LAMBDA text, part : IF text = <<>> THEN part ELSE text \o <<sep>> \o part, <<>>, parts)
Spread(parts) == FoldLeft(LAMBDA text, part : text \o part, <<>>, parts)
Each(s, print(_)) == [i \in DOMAIN s |-> print(s[i])]
NameTexts(idents) == Each(idents, LAMBDA x : <<x.name>>)
Wrap(open, text, close) == <<open>> \o text \o <<close>>

(* The formatter stops rather than lose what it does not know.             *)
Unknown == <<"?">>

Precedence == [op \in {"or"} |-> 1] @@ [op \in {"and"} |-> 2] @@ [op \in {"==", "!="} |-> 3]
  @@ [op \in {"<", "<="} |-> 4] @@ [op \in {"+", "-"} |-> 5] @@ [op \in {"*", "/"} |-> 6] @@ [op \in {"**"} |-> 8]

RECURSIVE typeText(_)
typeText(t) ==
  IF t.kind = "fn"
  THEN <<"fn">> \o Wrap("(", Joined(Each(t.params, typeText), ","), ")") \o <<"-", ">">> \o typeText(t.ret)
  ELSE <<t.name>> \o IF t.args = <<>> THEN <<>> ELSE Wrap("<", Joined(Each(t.args, typeText), ","), ">")

RECURSIVE patternText(_)
patternText(p) ==
  CASE p.type = "wildcard" -> <<"_">>
    [] p.type = "bind" -> <<p.name>>
    [] p.type = "Literal" -> <<p.text>>
    [] p.type = "list" -> Wrap("[", Joined(Each(p.items, patternText), ","), "]")
    [] p.type = "record" -> <<p.name>> \o Wrap("(", Joined(Each(p.fields, patternText), ","), ")")

params(fn) == Wrap("(", Joined(NameTexts(fn.params), ","), ")")
returns(fn) == IF fn.returnType = None THEN <<>> ELSE <<"-", ">">> \o typeText(fn.returnType)

Order == <<"needs", "requires", "ensures", "invariant", "variant">>
clauseText(said) ==
  Spread([i \in DOMAIN Order |->
    IF Order[i] \in DOMAIN said THEN Spread(Each(said[Order[i]], LAMBDA text : <<Order[i]>> \o text)) ELSE <<>>])

-----------------------------------------------------------------------------
(* Expressions, with the precedence around them, and blocks inside them.   *)

RECURSIVE expr(_, _), inlineBlock(_), oneLine(_)

List(items, open, close) == Wrap(open, Joined(Each(items, LAMBDA e : expr(e, 0)), ","), close)

(* Mutant: the right operand is printed like the left one.                 *)
binaryTextFlat(n, around) ==
  LET prec == Precedence[n.op]
      text == expr(n.left, prec) \o <<n.op>> \o expr(n.right, prec)
  IN IF prec < around THEN Wrap("(", text, ")") ELSE text

binaryText(n, around) ==
  LET prec == Precedence[n.op]
      text == expr(n.left, prec) \o <<n.op>> \o expr(n.right, prec + 1)
  IN IF prec < around THEN Wrap("(", text, ")") ELSE text

expr(n, around) ==
  CASE n.type = "Ident" -> <<n.name>>
    [] n.type = "Literal" -> <<n.text>>
    [] n.type = "Binary" -> binaryText(n, around)
    [] n.type = "Unary" -> <<n.op>> \o expr(n.operand, 7)
    [] n.type = "Assign" -> expr(n.target, 0) \o <<"=">> \o expr(n.value, 0)
    [] n.type = "Call" -> expr(n.callee, 9) \o List(n.args, "(", ")")
    [] n.type = "Index" -> expr(n.object, 9) \o List(n.indices, "[", "]")
    [] n.type = "Member" -> expr(n.object, 9) \o <<".", n.name>>
    [] n.type = "ListLit" -> List(n.elements, "[", "]")
    [] n.type = "MapLit" -> Wrap("{", Joined(Each(n.entries, LAMBDA e : <<e.key, ":">> \o expr(e.value, 0)), ","), "}")
    [] n.type = "TensorLit" -> <<"tensor">> \o expr(n.value, 0)
    [] n.type = "Fn" -> <<"fn">> \o params(n) \o returns(n) \o inlineBlock(n.body)
    [] n.type = "Fork" -> <<"fork">> \o expr(n.count, 0) \o inlineBlock(n.body)
    [] n.type = "Spawn" -> <<"spawn", n.name>> \o List(n.args, "(", ")")
    [] n.type = "Choose" ->
         <<"choose">> \o Wrap("{", Joined(Each(n.arms, LAMBDA a : expr(a.head, 0) \o <<"=>">> \o expr(a.value, 0)), ","), "}")
    [] n.type = "Match" ->
         LET arm(a) == patternText(a.head) \o (IF a.guard = None THEN <<>> ELSE <<"when">> \o expr(a.guard, 0))
                         \o <<"=>">> \o expr(a.value, 0)
         IN <<"match">> \o expr(n.subject, 0) \o Wrap("{", Joined(Each(n.arms, arm), ","), "}")

inlineBlock(body) == Wrap("{", Joined(Each(body, oneLine), ";"), "}")

declareHead(n) ==
  <<IF n.mutable THEN "var" ELSE "let", n.name>>
    \o (IF n.declared = None THEN <<>> ELSE <<":">> \o typeText(n.declared)) \o <<"=">>

(* Clauses are not printed here, and most statements are not known.        *)
oneLine(n) ==
  CASE n.type = "Declare" -> declareHead(n) \o expr(n.value, 0)
    [] n.type = "ExprStmt" -> expr(n.expr, 0)
    [] n.type = "Return" -> <<"return">> \o IF n.value = None THEN <<>> ELSE expr(n.value, 0)
    [] n.type = "Leave" -> <<n.word>>
    [] n.type = "If" ->
         <<"if">> \o expr(n.test, 0) \o inlineBlock(n.then)
           \o (CASE n.alt = None -> <<>>
                 [] n.alt.type = "Block" -> <<"else">> \o inlineBlock(n.alt.body)
                 [] OTHER -> <<"else">> \o oneLine(n.alt))
    [] n.type = "While" -> <<"while">> \o expr(n.head, 0) \o inlineBlock(n.body)
    [] n.type = "For" -> <<"for", n.name, "in">> \o expr(n.head, 0) \o inlineBlock(n.body)
    [] n.type = "Maybe" ->
         <<"maybe">> \o expr(n.prob, 0) \o inlineBlock(n.then)
           \o (CASE n.alt = None -> <<>>
                 [] n.alt.type = "Block" -> <<"else">> \o inlineBlock(n.alt.body)
                 [] OTHER -> Unknown)
    [] n.type = "Block" -> inlineBlock(n.body)
    [] n.type = "Bare" -> <<n.word>> \o inlineBlock(n.body)
    [] n.type = "Attempt" -> <<"attempt">> \o inlineBlock(n.body) \o <<"rescue", n.name>> \o inlineBlock(n.handler)
    [] n.type = "FnDecl" -> <<"fn", n.fn.name>> \o params(n.fn) \o returns(n.fn) \o inlineBlock(n.fn.body)
    [] n.type = "RecordDecl" -> <<"record", n.record.name>> \o Wrap("(", Joined(NameTexts(n.record.fields), ","), ")")
    [] OTHER -> Unknown

-----------------------------------------------------------------------------
(* Statements, on lines of their own.                                      *)

RECURSIVE statements(_), statementText(_, _)

statements(list) == Joined(Each(list, LAMBDA n : statementText(n, <<>>)), "\n")
braced(list) == <<"{", "\n">> \o statements(list) \o <<"\n", "}">>

(* A fork or a function of more than one statement is laid out over lines. *)
trailing(head, n) ==
  IF n.type \in {"Fork", "Fn"} /\ Len(n.body) >= 2
  THEN head \o (IF n.type = "Fork" THEN <<"fork">> \o expr(n.count, 0) ELSE <<"fn">> \o params(n) \o returns(n))
         \o braced(n.body)
  ELSE head \o expr(n, 0)

fnText(fn) == <<"fn", fn.name>> \o params(fn) \o returns(fn) \o clauseText(fn.clauses) \o braced(fn.body)

(* What `.body ?? []` finds in an alternative that is not a block.         *)
bodyOf(alt) == IF alt.type = "Block" THEN alt.body ELSE <<>>

(* An `else if` is followed, but not the one after it.                     *)
ifText(n) ==
  <<"if">> \o expr(n.test, 0) \o braced(n.then)
    \o (CASE n.alt = None -> <<>>
          [] n.alt.type = "Block" -> <<"else">> \o braced(n.alt.body)
          [] n.alt.type = "If" ->
               <<"else", "if">> \o expr(n.alt.test, 0) \o braced(n.alt.then)
                 \o IF n.alt.alt = None THEN <<>> ELSE <<"else">> \o braced(bodyOf(n.alt.alt)))

variantText(v, parens) ==
  <<v.name>> \o (IF parens \/ v.fields # <<>> THEN Wrap("(", Joined(NameTexts(v.fields), ","), ")") ELSE <<>>)
    \o clauseText(v.clauses)

statementText(n, prefix) ==
  CASE n.type = "Declare" -> trailing(declareHead(n), n.value)
    [] n.type = "FnDecl" -> prefix \o fnText(n.fn)
    [] n.type = "RecordDecl" -> <<"record">> \o variantText(n.record, TRUE)
    [] n.type = "ChoiceDecl" ->
         <<"choice", n.name>> \o Wrap("{", Joined(Each(n.variants, LAMBDA v : variantText(v, FALSE)), "\n"), "}")
    [] n.type = "AgentDecl" ->
         LET on(h) == <<"on", h.message>> \o params(h) \o braced(h.body)
         IN <<"agent", n.name>> \o params(n)
              \o Wrap("{", Joined(Each(n.stateDecls, LAMBDA d : statementText(d, <<>>)) \o Each(n.handlers, on), "\n"), "}")
    [] n.type = "If" -> ifText(n)
    [] n.type = "While" -> <<"while">> \o expr(n.head, 0) \o clauseText(n.clauses) \o braced(n.body)
    [] n.type = "For" -> <<"for", n.name, "in">> \o expr(n.head, 0) \o clauseText(n.clauses) \o braced(n.body)
    [] n.type = "Around" -> <<n.word>> \o expr(n.of, 0) \o braced(n.body)
    [] n.type = "Bare" -> <<n.word>> \o braced(n.body)
    [] n.type = "Block" -> braced(n.body)
    [] n.type = "Maybe" ->
         <<"maybe">> \o expr(n.prob, 0) \o braced(n.then)
           \o IF n.alt = None THEN <<>> ELSE <<"else">> \o braced(bodyOf(n.alt))
    [] n.type = "Attempt" -> <<"attempt">> \o braced(n.body) \o <<"rescue", n.name>> \o braced(n.handler)
    [] n.type = "Return" -> IF n.value = None THEN <<"return">> ELSE trailing(<<"return">>, n.value)
    [] n.type = "Leave" -> <<n.word>>
    [] n.type = "ExprStmt" -> trailing(<<>>, n.expr)
    [] n.type = "Import" -> <<"import", n.path>> \o IF n.alias = "" THEN <<>> ELSE <<"as", n.alias>>
    [] n.type = "Redefine" ->
         IF n.kind = "fn" THEN statementText([type |-> "FnDecl", fn |-> n.fn], <<"redefine">>)
         ELSE <<"redefine", "on", n.agentName, ".", n.message>> \o params(n) \o braced(n.body)

formatSource(tree) == statements(tree) \o <<"\n">>
Stopped(text) == \E i \in DOMAIN text : text[i] = "?"

-----------------------------------------------------------------------------
(* The reference: a program written so that nothing can be misread, all    *)
(* operands in parentheses and every statement ended.                      *)

RECURSIVE full(_), operand(_), ended(_)
operand(n) == IF n.type \in {"Ident", "Literal"} THEN full(n) ELSE Wrap("(", full(n), ")")
all(list) == Spread(Each(list, ended))
within(list) == Wrap("{", all(list), "}")
Listed(items, open, close) == Wrap(open, Joined(Each(items, operand), ","), close)
Else(alt) == CASE alt = None -> <<>>
               [] alt.type = "Block" -> <<"else">> \o within(alt.body)
               [] OTHER -> <<"else">> \o ended(alt)

full(n) ==
  CASE n.type = "Ident" -> <<n.name>>
    [] n.type = "Literal" -> <<n.text>>
    [] n.type = "Binary" -> operand(n.left) \o <<n.op>> \o operand(n.right)
    [] n.type = "Unary" -> <<n.op>> \o operand(n.operand)
    [] n.type = "Assign" -> operand(n.target) \o <<"=">> \o operand(n.value)
    [] n.type = "Call" -> operand(n.callee) \o Listed(n.args, "(", ")")
    [] n.type = "Index" -> operand(n.object) \o Listed(n.indices, "[", "]")
    [] n.type = "Member" -> operand(n.object) \o <<".", n.name>>
    [] n.type = "ListLit" -> Listed(n.elements, "[", "]")
    [] n.type = "MapLit" -> Wrap("{", Joined(Each(n.entries, LAMBDA e : <<e.key, ":">> \o operand(e.value)), ","), "}")
    [] n.type = "TensorLit" -> <<"tensor">> \o operand(n.value)
    [] n.type = "Fn" -> <<"fn">> \o params(n) \o returns(n) \o clauseText(n.clauses) \o within(n.body)
    [] n.type = "Fork" -> <<"fork">> \o operand(n.count) \o within(n.body)
    [] n.type = "Spawn" -> <<"spawn", n.name>> \o Listed(n.args, "(", ")")
    [] n.type = "Choose" ->
         <<"choose">> \o Wrap("{", Joined(Each(n.arms, LAMBDA a : operand(a.head) \o <<"=>">> \o operand(a.value)), ","), "}")
    [] n.type = "Match" ->
         LET arm(a) == patternText(a.head) \o (IF a.guard = None THEN <<>> ELSE <<"when">> \o operand(a.guard))
                         \o <<"=>">> \o operand(a.value)
         IN <<"match">> \o operand(n.subject) \o Wrap("{", Joined(Each(n.arms, arm), ","), "}")

ended(n) ==
  CASE n.type = "Declare" -> declareHead(n) \o operand(n.value) \o <<";">>
    [] n.type = "ExprStmt" -> operand(n.expr) \o <<";">>
    [] n.type = "Return" -> <<"return">> \o (IF n.value = None THEN <<>> ELSE operand(n.value)) \o <<";">>
    [] n.type = "Leave" -> <<n.word, ";">>
    [] n.type = "Import" -> statementText(n, <<>>) \o <<";">>
    [] n.type = "RecordDecl" -> statementText(n, <<>>) \o <<";">>
    [] n.type = "ChoiceDecl" -> statementText(n, <<>>)
    [] n.type = "FnDecl" -> <<"fn", n.fn.name>> \o Tail(full(n.fn))
    [] n.type = "Redefine" ->
         IF n.kind = "fn" THEN <<"redefine", "fn", n.fn.name>> \o Tail(full(n.fn))
         ELSE <<"redefine", "on", n.agentName, ".", n.message>> \o params(n) \o within(n.body)
    [] n.type = "AgentDecl" ->
         LET on(h) == <<"on", h.message>> \o params(h) \o within(h.body)
         IN <<"agent", n.name>> \o params(n) \o Wrap("{", all(n.stateDecls) \o Spread(Each(n.handlers, on)), "}")
    [] n.type = "If" -> <<"if">> \o operand(n.test) \o within(n.then) \o Else(n.alt)
    [] n.type = "Maybe" -> <<"maybe">> \o operand(n.prob) \o within(n.then) \o Else(n.alt)
    [] n.type = "While" -> <<"while">> \o operand(n.head) \o clauseText(n.clauses) \o within(n.body)
    [] n.type = "For" -> <<"for", n.name, "in">> \o operand(n.head) \o clauseText(n.clauses) \o within(n.body)
    [] n.type = "Attempt" -> <<"attempt">> \o within(n.body) \o <<"rescue", n.name>> \o within(n.handler)
    [] n.type = "Around" -> <<n.word>> \o operand(n.of) \o within(n.body)
    [] n.type = "Bare" -> <<n.word>> \o within(n.body)
    [] n.type = "Block" -> within(n.body)

-----------------------------------------------------------------------------
(* Properties.                                                             *)

(* What is printed parses to the same program, unless the formatter        *)
(* stopped.                                                                *)
Kept(tree) ==
  LET text == formatSource(tree)
  IN Stopped(text) \/ parse(text) = tree

(* What the formatter is known to print wrongly, part by part.             *)
(* An operand that binds less tightly than it is printed, or ** to the     *)
(* left of **.                                                             *)
Misprinted(n, around) ==
  \/ n.type = "Assign" /\ around > 0
  \/ n.type = "Unary" /\ around > 7
LooseOperand(n) ==
  CASE n.type = "Binary" ->
         LET prec == Precedence[n.op]
         IN \/ Misprinted(n.left, prec) \/ Misprinted(n.right, IF n.op = "**" THEN 7 ELSE prec)
            \/ n.op = "**" /\ n.left.type = "Binary" /\ n.left.op = "**"
    [] n.type = "Unary" -> Misprinted(n.operand, 7)
    [] n.type = "Call" -> Misprinted(n.callee, 9)
    [] n.type \in {"Index", "Member"} -> Misprinted(n.object, 9)
    [] n.type = "TensorLit" -> n.value.type \in {"Binary", "Unary", "Assign", "Call", "Index", "Member"}
    [] OTHER -> FALSE

(* Clauses of functions without a name, and of anything on one line.       *)
Unpromised(n) == n.type = "Fn" /\ n.name = "" /\ n.clauses # NoClauses
UnpromisedInline(n) ==
  \/ n.type \in {"While", "For"} /\ n.clauses # NoClauses
  \/ n.type = "FnDecl" /\ n.fn.clauses # NoClauses
  \/ n.type = "RecordDecl" /\ n.record.clauses # NoClauses

(* An alternative that is printed empty.                                   *)
LostElse(n) ==
  \/ n.type = "If" /\ n.alt # None /\ n.alt.type = "If" /\ n.alt.alt # None /\ n.alt.alt.type = "If"
  \/ n.type = "Maybe" /\ n.alt # None /\ n.alt.type = "If"

(* Two lines that are read as one, and a map that is read as a block.      *)
Leading(n) == IF n.type = "ExprStmt" THEN Head(expr(n.expr, 0)) ELSE ""
BareReturn(n) == n.type = "Return" /\ n.value = None
RunTogether(list) ==
  \/ \E i \in DOMAIN list : Leading(list[i]) = "{"
  \/ \E i \in 1 .. Len(list) - 1 :
       \/ BareReturn(list[i])
       \/ list[i].type \in {"Declare", "ExprStmt", "Return", "RecordDecl"} /\ Leading(list[i + 1]) = "-"

(* All that is inside a node, and whether it is printed on one line.       *)
Parts(n) ==
  {n[f] : f \in DOMAIN n \cap {"left", "right", "operand", "target", "value", "callee", "object", "count", "subject",
                               "test", "prob", "expr", "alt", "fn", "guard", "of"}}
    \cup UNION {Range(n[f]) : f \in DOMAIN n \cap {"args", "indices", "elements", "entries", "arms", "body", "then",
                                                   "handler", "stateDecls", "handlers"}}
OnOneLine(n) == n.type = "Fork" \/ (n.type = "Fn" /\ n.name = "")

RECURSIVE Lossy(_, _)
Lossy(n, inline) ==
  LET node == "type" \in DOMAIN n
  IN \/ node /\ (LooseOperand(n) \/ Unpromised(n) \/ LostElse(n) \/ (inline /\ UnpromisedInline(n)))
     \/ \E f \in DOMAIN n \cap {"body", "then", "handler", "stateDecls"} : RunTogether(n[f])
     \/ node /\ n.type = "AgentDecl" /\ n.stateDecls # <<>> /\ n.handlers # <<>> /\ BareReturn(Last(n.stateDecls))
     \/ \E part \in Parts(n) : Lossy(part, inline \/ (node /\ OnOneLine(n)))

(* A program written so that nothing can be misread is parsed as it was    *)
(* meant, and unless something in it is of the kinds above it is printed   *)
(* so that it is parsed as it was meant too, however it is nested.         *)
KeptOtherwise(tree) ==
  /\ parse(all(tree)) = tree
  /\ RunTogether(tree) \/ (\E i \in DOMAIN tree : Lossy(tree[i], FALSE)) \/ Kept(tree)
=============================================================================
