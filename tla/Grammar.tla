------------------------------- MODULE Grammar -------------------------------
(***************************************************************************)
(* The parser (parser.js), over tokens: a name, a literal, a keyword and   *)
(* an operator are one token each, and a token knows whether a line ended  *)
(* before it (lexer.js).  Contextual words are names that open a statement *)
(* only where nothing else fits.                                           *)
(***************************************************************************)
EXTENDS Naturals, Sequences, TLC, SequencesExt

CONSTANTS Names, Literals

None == [type |-> "none"]
Parsed(node, i) == [node |-> node, at |-> i]
Failed == Parsed(None, 0)
Bad(result) == result.at = 0

Ident(name) == [type |-> "Ident", name |-> name]
Literal(text) == [type |-> "Literal", text |-> text]
Binary(op, left, right) == [type |-> "Binary", op |-> op, left |-> left, right |-> right]

(* tokenize: ends of lines are only remembered by the token after them.    *)
tokenize(text) ==
  LET kept == SelectSeq([i \in DOMAIN text |-> <<i, text[i]>>], LAMBDA t : t[2] # "\n")
  IN [k \in DOMAIN kept |-> [t |-> kept[k][2], nlBefore |-> kept[k][1] > 1 /\ text[kept[k][1] - 1] = "\n"]]

At(ts, i) == IF i \in DOMAIN ts THEN ts[i].t ELSE "eof"
Expect(ts, r, t, node) == IF ~Bad(r) /\ At(ts, r.at) = t THEN Parsed(node, r.at + 1) ELSE Failed
Texts(ts, i, j) == [k \in 1 .. j - i |-> ts[i + k - 1].t]

RECURSIVE assignment(_, _), binary(_, _, _), binaryRest(_, _, _), unary(_, _), power(_, _),
  callChain(_, _), primary(_, _), listOf(_, _, _, _), arms(_, _, _), entries(_, _, _), clauses(_, _, _, _),
  pattern(_, _), block(_, _), statement(_, _), ifStatement(_, _), typeAnnotation(_, _)

-----------------------------------------------------------------------------
(* Expressions, loosest first.                                             *)

Levels == << {"or"}, {"and"}, {"==", "!="}, {"<", "<="}, {"+", "-"}, {"*", "/"} >>

assignment(ts, i) ==
  LET left == binary(ts, i, 1)
      value == assignment(ts, left.at + 1)
  IN IF Bad(left) \/ At(ts, left.at) # "=" THEN left
     ELSE IF Bad(value) \/ left.node.type \notin {"Ident", "Index", "Member"} THEN Failed
     ELSE Parsed([type |-> "Assign", target |-> left.node, value |-> value.node], value.at)

expression(ts, i) == assignment(ts, i)

binary(ts, i, level) ==
  IF level > Len(Levels) THEN unary(ts, i) ELSE binaryRest(ts, binary(ts, i, level + 1), level)

binaryRest(ts, left, level) ==
  IF Bad(left) \/ At(ts, left.at) \notin Levels[level] THEN left
  ELSE LET right == binary(ts, left.at + 1, level + 1)
       IN IF Bad(right) THEN Failed
          ELSE binaryRest(ts, Parsed(Binary(At(ts, left.at), left.node, right.node), right.at), level)

unary(ts, i) ==
  IF At(ts, i) \notin {"-", "not"} THEN power(ts, i)
  ELSE LET operand == unary(ts, i + 1)
       IN IF Bad(operand) THEN Failed
          ELSE Parsed([type |-> "Unary", op |-> At(ts, i), operand |-> operand.node], operand.at)

power(ts, i) ==
  LET base == callChain(ts, primary(ts, i))
      exponent == unary(ts, base.at + 1)
  IN IF Bad(base) \/ At(ts, base.at) # "**" THEN base
     ELSE IF Bad(exponent) THEN Failed
     ELSE Parsed(Binary("**", base.node, exponent.node), exponent.at)

(* Items up to a closing token; `one` says which rule they follow.         *)
listOf(ts, i, close, one) ==
  LET item == CASE one = "expression" -> assignment(ts, i)
                [] one = "pattern" -> pattern(ts, i)
                [] one = "type" -> typeAnnotation(ts, i)
                [] one = "name" -> IF At(ts, i) \in Names THEN Parsed(Ident(At(ts, i)), i + 1) ELSE Failed
      rest == listOf(ts, item.at + 1, close, one)
  IN IF At(ts, i) = close THEN Parsed(<<>>, i + 1)
     ELSE IF Bad(item) THEN Failed
     ELSE IF At(ts, item.at) = close THEN Parsed(<<item.node>>, item.at + 1)
     ELSE IF At(ts, item.at) # "," \/ Bad(rest) \/ rest.node = <<>> THEN Failed
     ELSE Parsed(<<item.node>> \o rest.node, rest.at)

(* A bracket that opens a line belongs to the next statement.              *)
continues(ts, i) == At(ts, i) = "." \/ (At(ts, i) \in {"(", "["} /\ ~ts[i].nlBefore)

callChain(ts, e) ==
  IF Bad(e) \/ ~continues(ts, e.at) THEN e
  ELSE LET i == e.at + 1
           list == listOf(ts, i, IF At(ts, e.at) = "(" THEN ")" ELSE "]", "expression")
       IN IF At(ts, e.at) = "."
          THEN IF At(ts, i) \notin Names THEN Failed
               ELSE callChain(ts, Parsed([type |-> "Member", object |-> e.node, name |-> At(ts, i)], i + 1))
          ELSE IF Bad(list) \/ (At(ts, e.at) = "[" /\ list.node = <<>>) THEN Failed
          ELSE callChain(ts, Parsed(IF At(ts, e.at) = "("
                                    THEN [type |-> "Call", callee |-> e.node, args |-> list.node]
                                    ELSE [type |-> "Index", object |-> e.node, indices |-> list.node], list.at))

entries(ts, i, sofar) ==
  LET value == assignment(ts, i + 2)
      all == Append(sofar, [key |-> At(ts, i), value |-> value.node])
  IN IF At(ts, i) = "}" THEN Parsed(sofar, i + 1)
     ELSE IF At(ts, i) \notin Names \/ At(ts, i + 1) # ":" \/ Bad(value) THEN Failed
     ELSE IF At(ts, value.at) = "," THEN entries(ts, value.at + 1, all)
     ELSE Expect(ts, value, "}", all)

(* Arms of a match, or of a choose, which has weights for patterns.        *)
arms(ts, i, choose) ==
  LET head == IF choose THEN assignment(ts, i) ELSE pattern(ts, i)
      guarded == ~choose /\ At(ts, head.at) = "when"
      guard == assignment(ts, head.at + 1)
      arrow == IF guarded THEN guard.at ELSE head.at
      value == assignment(ts, arrow + 1)
      arm == [head |-> head.node, guard |-> IF guarded THEN guard.node ELSE None, value |-> value.node]
      rest == arms(ts, value.at + 1, choose)
  IN IF Bad(head) \/ (guarded /\ Bad(guard)) \/ At(ts, arrow) # "=>" \/ Bad(value) THEN Failed
     ELSE IF At(ts, value.at) = "}" THEN Parsed(<<arm>>, value.at + 1)
     ELSE IF At(ts, value.at) # "," \/ Bad(rest) THEN Failed
     ELSE Parsed(<<arm>> \o rest.node, rest.at)

pattern(ts, i) ==
  LET items == listOf(ts, i + 1, "]", "pattern")
      fields == listOf(ts, i + 2, ")", "pattern")
  IN CASE At(ts, i) \in Literals -> Parsed(Literal(At(ts, i)), i + 1)
       [] At(ts, i) = "_" -> Parsed([type |-> "wildcard"], i + 1)
       [] At(ts, i) = "[" ->
            IF Bad(items) THEN Failed ELSE Parsed([type |-> "list", items |-> items.node], items.at)
       [] At(ts, i) \in Names /\ At(ts, i + 1) = "(" ->
            IF Bad(fields) THEN Failed
            ELSE Parsed([type |-> "record", name |-> At(ts, i), fields |-> fields.node], fields.at)
       [] At(ts, i) \in Names /\ At(ts, i + 1) # "(" -> Parsed([type |-> "bind", name |-> At(ts, i)], i + 1)
       [] OTHER -> Failed

(* fn(num) -> list<num>                                                    *)
typeAnnotation(ts, i) ==
  LET params == listOf(ts, i + 2, ")", "type")
      ret == typeAnnotation(ts, params.at + 2)
      args == listOf(ts, i + 2, ">", "type")
      Named(list) == [kind |-> "name", name |-> At(ts, i), args |-> list]
  IN CASE At(ts, i) = "fn" ->
            IF At(ts, i + 1) # "(" \/ Bad(params) THEN Failed
            ELSE IF At(ts, params.at) # "-" \/ At(ts, params.at + 1) # ">"
              THEN Parsed([kind |-> "fn", params |-> params.node,
                           ret |-> [kind |-> "name", name |-> "dyn", args |-> <<>>]], params.at)
            ELSE IF Bad(ret) THEN Failed
            ELSE Parsed([kind |-> "fn", params |-> params.node, ret |-> ret.node], ret.at)
       [] At(ts, i) \in Names \cup {"dyn"} ->
            IF At(ts, i + 1) # "<" THEN Parsed(Named(<<>>), i + 1)
            ELSE IF Bad(args) \/ args.node = <<>> THEN Failed
            ELSE Parsed(Named(args.node), args.at)
       [] OTHER -> Failed

-----------------------------------------------------------------------------
(* Clauses: contracts keep the text they were written in.                  *)

OfFunctions == {"needs", "requires", "ensures"}
OfLoops == {"invariant", "variant"}
OfRecords == {"invariant"}
NoClauses == [word \in {} |-> <<>>]
Said(sofar, word, text) ==
  IF word \in DOMAIN sofar THEN [sofar EXCEPT ![word] = Append(@, text)] ELSE (word :> <<text>>) @@ sofar

clauses(ts, i, sofar, allowed) ==
  LET word == At(ts, i)
      claim == IF word = "needs" THEN Parsed(None, i + 2) ELSE assignment(ts, i + 1)
  IN IF word \notin allowed THEN Parsed(sofar, i)
     ELSE IF Bad(claim) \/ (word = "variant" /\ word \in DOMAIN sofar) THEN Failed
     ELSE clauses(ts, claim.at, Said(sofar, word, Texts(ts, i + 1, claim.at)), allowed)

functionRest(ts, i, name) ==
  LET params == listOf(ts, i + 1, ")", "name")
      arrow == At(ts, params.at) = "-" /\ At(ts, params.at + 1) = ">"
      ret == typeAnnotation(ts, params.at + 2)
      said == clauses(ts, IF arrow THEN ret.at ELSE params.at, NoClauses, OfFunctions)
      body == block(ts, said.at)
  IN IF At(ts, i) # "(" \/ Bad(params) \/ (arrow /\ Bad(ret)) \/ Bad(said) \/ Bad(body) THEN Failed
     ELSE Parsed([type |-> "Fn", name |-> name, params |-> params.node,
                  returnType |-> IF arrow THEN ret.node ELSE None, clauses |-> said.node, body |-> body.node],
                 body.at)

primary(ts, i) ==
  LET t == At(ts, i)
      inner == assignment(ts, i + 1)
      items == listOf(ts, i + 1, "]", "expression")
      map == entries(ts, i + 1, <<>>)
      value == primary(ts, i + 1)
      body == block(ts, inner.at)
      Open(j) == At(ts, j) = "{"
      chosen == arms(ts, i + 2, TRUE)
      matched == arms(ts, inner.at + 1, FALSE)
      args == listOf(ts, i + 3, ")", "expression")
  IN CASE t \in Names -> Parsed(Ident(t), i + 1)
       [] t \in Literals -> Parsed(Literal(t), i + 1)
       [] t = "fn" -> functionRest(ts, i + 1, "")
       [] t = "tensor" ->
            IF Bad(value) THEN Failed ELSE Parsed([type |-> "TensorLit", value |-> value.node], value.at)
       [] t = "choose" ->
            IF ~Open(i + 1) \/ Bad(chosen) THEN Failed
            ELSE Parsed([type |-> "Choose", arms |-> chosen.node], chosen.at)
       [] t = "match" ->
            IF Bad(inner) \/ ~Open(inner.at) \/ Bad(matched) THEN Failed
            ELSE Parsed([type |-> "Match", subject |-> inner.node, arms |-> matched.node], matched.at)
       [] t = "spawn" ->
            IF At(ts, i + 1) \notin Names THEN Failed
            ELSE IF At(ts, i + 2) # "("
              THEN Parsed([type |-> "Spawn", name |-> At(ts, i + 1), args |-> <<>>], i + 2)
            ELSE IF Bad(args) THEN Failed
            ELSE Parsed([type |-> "Spawn", name |-> At(ts, i + 1), args |-> args.node], args.at)
       [] t = "fork" ->
            IF Bad(inner) \/ Bad(body) THEN Failed
            ELSE Parsed([type |-> "Fork", count |-> inner.node, body |-> body.node], body.at)
       [] t = "(" -> Expect(ts, inner, ")", inner.node)
       [] t = "[" -> IF Bad(items) THEN Failed ELSE Parsed([type |-> "ListLit", elements |-> items.node], items.at)
       [] t = "{" -> IF Bad(map) THEN Failed ELSE Parsed([type |-> "MapLit", entries |-> map.node], map.at)
       [] OTHER -> Failed

-----------------------------------------------------------------------------
(* Statements.                                                             *)

RECURSIVE terminator(_, _)
terminator(ts, i) == IF At(ts, i) = ";" THEN terminator(ts, i + 1) ELSE i

RECURSIVE statementsUpTo(_, _, _)
statementsUpTo(ts, i, close) ==
  LET one == statement(ts, i)
      rest == statementsUpTo(ts, one.at, close)
  IN IF At(ts, i) = close THEN Parsed(<<>>, i)
     ELSE IF Bad(one) \/ At(ts, i) = "eof" \/ Bad(rest) THEN Failed
     ELSE Parsed(<<one.node>> \o rest.node, rest.at)

block(ts, i) ==
  LET body == statementsUpTo(ts, i + 1, "}")
  IN IF At(ts, i) # "{" \/ Bad(body) THEN Failed ELSE Parsed(body.node, body.at + 1)

(* What is kept around one block: these take nothing, these an expression. *)
Bare == {"atomic", "secret", "grounded"}
Around == {"using", "authority", "release_to", "vouched_by", "budget", "device", "region"}

ifStatement(ts, i) ==
  LET test == assignment(ts, i)
      then == block(ts, test.at)
      other == At(ts, then.at) = "else"
      alt == IF At(ts, then.at + 1) = "if" THEN ifStatement(ts, then.at + 2) ELSE block(ts, then.at + 1)
      alternative == IF At(ts, then.at + 1) = "if" THEN alt.node ELSE [type |-> "Block", body |-> alt.node]
  IN IF Bad(test) \/ Bad(then) \/ (other /\ Bad(alt)) THEN Failed
     ELSE Parsed([type |-> "If", test |-> test.node, then |-> then.node, alt |-> IF other THEN alternative ELSE None],
                 IF other THEN alt.at ELSE then.at)

loop(ts, i, name) ==
  LET head == assignment(ts, i)
      said == clauses(ts, head.at, NoClauses, OfLoops)
      body == block(ts, said.at)
  IN IF Bad(head) \/ Bad(said) \/ Bad(body) THEN Failed
     ELSE Parsed([type |-> IF name = "" THEN "While" ELSE "For", name |-> name, head |-> head.node,
                  clauses |-> said.node, body |-> body.node], body.at)

(* State and message handlers, in any order; no message twice.             *)
RECURSIVE members(_, _, _, _)
members(ts, i, state, on) ==
  LET message == At(ts, i + 1)
      params == listOf(ts, i + 3, ")", "name")
      body == block(ts, params.at)
      one == statement(ts, i)
  IN IF At(ts, i) = "}" THEN Parsed([state |-> state, on |-> on], i + 1)
     ELSE IF At(ts, i) # "on" THEN (IF Bad(one) THEN Failed ELSE members(ts, one.at, Append(state, one.node), on))
     ELSE IF message \notin Names \/ (\E k \in DOMAIN on : on[k].message = message) \/ At(ts, i + 2) # "("
               \/ Bad(params) \/ Bad(body) THEN Failed
     ELSE members(ts, body.at, state, Append(on, [message |-> message, params |-> params.node, body |-> body.node]))

agent(ts, i) ==
  LET named == At(ts, i + 1) = "("
      params == listOf(ts, i + 2, ")", "name")
      from == IF named THEN params.at ELSE i + 1
      all == members(ts, from + 1, <<>>, <<>>)
  IN IF (named /\ Bad(params)) \/ At(ts, from) # "{" \/ Bad(all) THEN Failed
     ELSE Parsed([type |-> "AgentDecl", name |-> At(ts, i), params |-> IF named THEN params.node ELSE <<>>,
                  stateDecls |-> all.node.state, handlers |-> all.node.on], all.at)

(* Variants of a choice; a record is one variant on its own.               *)
variant(ts, i) ==
  LET fields == listOf(ts, i + 2, ")", "name")
      with == At(ts, i + 1) = "("
      said == clauses(ts, IF with THEN fields.at ELSE i + 1, NoClauses, OfRecords)
  IN IF At(ts, i) \notin Names \/ (with /\ Bad(fields)) \/ Bad(said) THEN Failed
     ELSE Parsed([name |-> At(ts, i), fields |-> IF with THEN fields.node ELSE <<>>, clauses |-> said.node], said.at)

RECURSIVE variants(_, _, _)
variants(ts, i, sofar) ==
  LET one == variant(ts, i)
      next == IF At(ts, one.at) \in {",", ";"} THEN one.at + 1 ELSE one.at
  IN IF At(ts, i) = "}" THEN (IF sofar = <<>> THEN Failed ELSE Parsed(sofar, i + 1))
     ELSE IF Bad(one) \/ \E k \in DOMAIN sofar : sofar[k].name = one.node.name THEN Failed
     ELSE variants(ts, next, Append(sofar, one.node))

redefinition(ts, i) ==
  LET fn == functionRest(ts, i + 2, At(ts, i + 1))
      params == listOf(ts, i + 5, ")", "name")
      body == block(ts, params.at)
  IN IF At(ts, i) = "fn"
     THEN IF Bad(fn) THEN Failed ELSE Parsed([type |-> "Redefine", kind |-> "fn", fn |-> fn.node], fn.at)
     ELSE IF At(ts, i) # "on" \/ At(ts, i + 2) # "." \/ At(ts, i + 4) # "(" \/ Bad(params) \/ Bad(body) THEN Failed
     ELSE Parsed([type |-> "Redefine", kind |-> "handler", agentName |-> At(ts, i + 1), message |-> At(ts, i + 3),
                  params |-> params.node, body |-> body.node], body.at)

declaration(ts, i) ==
  LET typed == At(ts, i + 2) = ":"
      type == typeAnnotation(ts, i + 3)
      equals == IF typed THEN type.at ELSE i + 2
      value == assignment(ts, equals + 1)
  IN IF At(ts, i + 1) \notin Names \/ (typed /\ Bad(type)) \/ At(ts, equals) # "=" \/ Bad(value) THEN Failed
     ELSE Parsed([type |-> "Declare", mutable |-> At(ts, i) = "var", name |-> At(ts, i + 1),
                  declared |-> IF typed THEN type.node ELSE None, value |-> value.node], terminator(ts, value.at))

statement(ts, i) ==
  LET t == At(ts, i)
      expr == assignment(ts, i + 1)
      own == assignment(ts, i)
      body == block(ts, i + 1)
      around == block(ts, expr.at)
      fn == functionRest(ts, i + 2, At(ts, i + 1))
      rescued == block(ts, body.at + 2)
      else == At(ts, around.at) = "else"
      alt == IF At(ts, around.at + 1) = "if" THEN statement(ts, around.at + 1) ELSE block(ts, around.at + 1)
      altNode == IF At(ts, around.at + 1) = "if" THEN alt.node ELSE [type |-> "Block", body |-> alt.node]
      record == variant(ts, i + 1)
      choice == variants(ts, i + 3, <<>>)
  IN CASE t \in {"let", "var"} -> declaration(ts, i)
       [] t = "fn" /\ At(ts, i + 1) \in Names ->
            IF Bad(fn) THEN Failed ELSE Parsed([type |-> "FnDecl", fn |-> fn.node], fn.at)
       [] t = "if" -> ifStatement(ts, i + 1)
       [] t = "while" -> loop(ts, i + 1, "")
       [] t = "for" -> IF At(ts, i + 1) \in Names /\ At(ts, i + 2) = "in" THEN loop(ts, i + 3, At(ts, i + 1)) ELSE Failed
       [] t = "return" ->
            IF At(ts, i + 1) \in {";", "}", "eof"}
            THEN Parsed([type |-> "Return", value |-> None], terminator(ts, i + 1))
            ELSE IF Bad(expr) THEN Failed
            ELSE Parsed([type |-> "Return", value |-> expr.node], terminator(ts, expr.at))
       [] t \in {"break", "continue"} -> Parsed([type |-> "Leave", word |-> t], terminator(ts, i + 1))
       [] t = "maybe" ->
            IF Bad(expr) \/ Bad(around) \/ (else /\ Bad(alt)) THEN Failed
            ELSE Parsed([type |-> "Maybe", prob |-> expr.node, then |-> around.node, alt |-> IF else THEN altNode ELSE None],
                        IF else THEN alt.at ELSE around.at)
       [] t = "attempt" ->
            IF Bad(body) \/ At(ts, body.at) # "rescue" \/ At(ts, body.at + 1) \notin Names \/ Bad(rescued) THEN Failed
            ELSE Parsed([type |-> "Attempt", body |-> body.node, name |-> At(ts, body.at + 1), handler |-> rescued.node],
                        rescued.at)
       [] t = "record" ->
            IF At(ts, i + 2) # "(" \/ Bad(record) THEN Failed
            ELSE Parsed([type |-> "RecordDecl", record |-> record.node], terminator(ts, record.at))
       [] t = "choice" ->
            IF At(ts, i + 2) # "{" \/ Bad(choice) THEN Failed
            ELSE Parsed([type |-> "ChoiceDecl", name |-> At(ts, i + 1), variants |-> choice.node], terminator(ts, choice.at))
       [] t = "import" ->
            LET as == At(ts, i + 2) = "as"
            IN IF At(ts, i + 1) \notin Literals \/ (as /\ At(ts, i + 3) \notin Names) THEN Failed
               ELSE Parsed([type |-> "Import", path |-> At(ts, i + 1), alias |-> IF as THEN At(ts, i + 3) ELSE ""],
                           terminator(ts, IF as THEN i + 4 ELSE i + 2))
       [] t = "agent" -> agent(ts, i + 1)
       [] t = "redefine" -> redefinition(ts, i + 1)
       [] t \in Bare -> IF Bad(body) THEN Failed ELSE Parsed([type |-> "Bare", word |-> t, body |-> body.node], body.at)
       [] t \in Around ->
            IF Bad(expr) \/ Bad(around) THEN Failed
            ELSE Parsed([type |-> "Around", word |-> t, of |-> expr.node, body |-> around.node], around.at)
       [] t = "{" -> LET it == block(ts, i) IN IF Bad(it) THEN Failed ELSE Parsed([type |-> "Block", body |-> it.node], it.at)
       [] OTHER -> IF Bad(own) THEN Failed ELSE Parsed([type |-> "ExprStmt", expr |-> own.node], terminator(ts, own.at))

(* Everything, or nothing.                                                 *)
Unparsed == <<None>>
parse(text) ==
  LET all == statementsUpTo(tokenize(text), 1, "eof")
  IN IF Bad(all) THEN Unparsed ELSE all.node
=============================================================================
