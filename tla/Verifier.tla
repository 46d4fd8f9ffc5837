------------------------------- MODULE Verifier -------------------------------
(***************************************************************************)
(* `smarsh verify` (src/src/verify.js): a function walked forwards with a  *)
(* symbolic value for each variable, and the conditions its contracts and  *)
(* its loops give, handed to the solver of Logic; beside it, the function  *)
(* as the interpreter runs it, contracts checked, for what a proof says.   *)
(*                                                                         *)
(* Numbers are exact in both: docs say a proof is about exact arithmetic.  *)
(***************************************************************************)
EXTENDS Logic, SequencesExt

CONSTANTS
  MaxPaths,   \* MAX_PATHS
  MaxPasses   \* passes of a loop that are run

-----------------------------------------------------------------------------
(* A variable of the solver: one of the program's, an opaque term, the same *)
(* for the same text, or a fresh symbol: `?` approximates, `$` does not.   *)
Named(x) == Variable([kind |-> "", name |-> x])
opaqueLinear(e) == Variable([kind |-> "?", of |-> e])
freshOpaque(s, x) == Variable([kind |-> "?", name |-> x, fresh |-> s.fresh])
freshHavoc(s, x) == Variable([kind |-> "$", name |-> x, fresh |-> s.fresh])

Known(env, x) == IF x \in DOMAIN env THEN env[x] ELSE Named(x)

RECURSIVE toLinear(_, _)
toLinear(e, env) ==
  LET l == toLinear(e.left, env)
      r == toLinear(e.right, env)
  IN  CASE e.type = "Num" -> Constant(Rat(e.value, 1))
        [] e.type = "Ident" -> Known(env, <<e.name>>)
        [] e.type = "Old" -> Known(env, <<"old", e.of>>)
        [] e.type = "Unary" /\ e.op = "-" -> negated(toLinear(e.operand, env))
        [] e.type = "Binary" /\ e.op = "+" -> plus(l, r)
        [] e.type = "Binary" /\ e.op = "-" -> minus(l, r)
        [] e.type = "Binary" /\ e.op = "*" ->
             CASE IsConstant(l) -> scale(r, l.constant)
               [] ~IsConstant(l) /\ IsConstant(r) -> scale(l, r.constant)
               [] OTHER -> opaqueLinear(e)
        [] e.type = "Binary" /\ e.op = "/" ->
             IF IsConstant(r) /\ r.constant # ZERO THEN scale(l, div(ONE, r.constant)) ELSE opaqueLinear(e)
        [] OTHER -> opaqueLinear(e)

RECURSIVE toFormula(_, _)
toFormula(e, env) ==
  LET l == toLinear(e.left, env)
      r == toLinear(e.right, env)
  IN  CASE e.type = "Bool" -> IF e.truth THEN True ELSE False
        [] e.type = "Logical" /\ e.op = "and" -> and({toFormula(e.left, env), toFormula(e.right, env)})
        [] e.type = "Logical" /\ e.op = "or" -> or({toFormula(e.left, env), toFormula(e.right, env)})
        [] e.type = "Unary" /\ e.op = "not" -> not(toFormula(e.operand, env))
        [] e.type = "Binary" /\ e.op = "<" -> atom("<", minus(l, r))
        [] e.type = "Binary" /\ e.op = "<=" -> atom("<=", minus(l, r))
        [] e.type = "Binary" /\ e.op = ">" -> atom("<", minus(r, l))
        [] e.type = "Binary" /\ e.op = ">=" -> atom("<=", minus(r, l))
        [] e.type = "Binary" /\ e.op = "==" -> atom("=", minus(l, r))
        [] e.type = "Binary" /\ e.op = "!=" -> not(atom("=", minus(l, r)))
        [] OTHER -> boolAtom(e)

All(clauses, env) == and({toFormula(c, env) : c \in clauses})

-----------------------------------------------------------------------------
(* Symbolic states: [env, path, returned, fresh].  What a walk gives: the  *)
(* states its paths end in, the conditions met, and whether there were too *)
(* many paths.                                                             *)
Walk(ends, conditions, many) == [ends |-> ends, conditions |-> conditions, many |-> many]
At(s) == Walk(<<s>>, {}, FALSE)
Set(s, x, v) == [s EXCEPT !.env = (<<x>> :> v) @@ @]
fork(s, test) == [s EXCEPT !.path = and({@, test})]

Forgotten(s) == [s EXCEPT !.env = [x \in DOMAIN @ |-> freshOpaque(s, x)], !.fresh = @ + 1]
Arbitrary(s) == [s EXCEPT !.env = [x \in DOMAIN @ |-> freshHavoc(s, x)], !.fresh = @ + 1]

(* A loop is its invariant: established, preserved by a pass from an       *)
(* arbitrary state, and all that is known after it.  A `for` has no test.  *)
walkLoop(run(_, _), node, s, pre) ==
  LET test(env) == toFormula(IF node.type = "While" THEN node.test ELSE [type |-> "Bool", truth |-> TRUE], env)
      top == Arbitrary(s)
      entering == and({All(node.invariants, top.env), test(top.env)})
      pass == run(node.body, [top EXCEPT !.path = entering, !.returned = FALSE])
      before(v) == toLinear(v, top.env)
      preserved == {implies(e.path, All(node.invariants, e.env)) : e \in Range(pass.ends)}
      decreases == {implies(e.path, atom("<", minus(toLinear(v, e.env), before(v)))) :
                      e \in Range(pass.ends), v \in node.variant}
      nonnegative == {implies(entering, atom("<=", negated(before(v)))) : v \in node.variant}
      established == implies(and({pre, s.path}), All(node.invariants, s.env))
      after == Arbitrary([s EXCEPT !.fresh = @ + 1])
  IN  IF node.invariants = {} /\ node.variant = {} THEN At(Forgotten(s))
      ELSE Walk(<<[after EXCEPT !.path = and({s.path, All(node.invariants, after.env), not(test(after.env))})]>>,
                {established} \cup preserved \cup decreases \cup nonnegative, pass.many)

RECURSIVE run(_, _, _)
step(node, s, pre) ==
  CASE node.type = "Declare" -> At(Set(s, node.name, toLinear(node.value, s.env)))
    [] node.type = "Assign" -> At(Set(s, node.name, toLinear(node.value, s.env)))
    [] node.type = "Return" -> At([Set(s, "result", toLinear(node.value, s.env)) EXCEPT !.returned = TRUE])
    [] node.type = "If" ->
         LET test == toFormula(node.test, s.env)
             taken == run(node.then.body, fork(s, test), pre)
             skipped == IF node.alt.type = "Block" THEN run(node.alt.body, fork(s, not(test)), pre)
                        ELSE At(fork(s, not(test)))
         IN  Walk(taken.ends \o skipped.ends, taken.conditions \cup skipped.conditions, taken.many \/ skipped.many)
    [] node.type = "Block" -> run(node.body, s, pre)
    [] node.type \in {"While", "For"} -> walkLoop(LAMBDA b, t : run(b, t, pre), node, s, pre)
    [] OTHER -> At(Forgotten(s))

(* One statement after the other on every path that has not returned.      *)
run(body, s, pre) ==
  LET through[i \in 0 .. Len(body)] ==
        IF i = 0 THEN At(s)
        ELSE LET walks == [j \in DOMAIN through[i - 1].ends |->
                             LET e == through[i - 1].ends[j] IN IF e.returned THEN At(e) ELSE step(body[i], e, pre)]
                 ends == FlattenSeq([j \in DOMAIN walks |-> walks[j].ends])
                 many == \E w \in Range(walks) : w.many
             IN  IF through[i - 1].many THEN through[i - 1]
                 ELSE Walk(ends, through[i - 1].conditions \cup UNION {w.conditions : w \in Range(walks)},
                           many \/ Len(ends) > MaxPaths)
  IN  through[Len(body)]

RECURSIVE oldIn(_)
oldIn(e) ==
  CASE e.type = "Old" -> {e.of}
    [] e.type \in {"Binary", "Logical"} -> oldIn(e.left) \cup oldIn(e.right)
    [] e.type = "Unary" -> oldIn(e.operand)
    [] OTHER -> {}

(* verifyFunction: what becomes of each condition; a refutation that rests *)
(* on an approximation is none.                                            *)
isApproximate(f) ==
  \E a \in collectAtoms(f) : a.k = "bool" \/ \E v \in DOMAIN a.linear.coeffs : v.kind = "?"

Judged(f) == IF isValid(f) = "refuted" /\ isApproximate(f) THEN "unknown" ELSE isValid(f)

verifyFunction(fn) ==
  LET olds == {<<"old", e>> : e \in UNION {oldIn(c) : c \in fn.ensures}}
      params == [p \in {<<x>> : x \in Range(fn.params)} |-> Named(p)]
      env == [o \in olds |-> toLinear(o[2], params)] @@ params
      pre == All(fn.requires, env)
      walk == run(fn.body, [env |-> env, path |-> True, returned |-> FALSE, fresh |-> 0], pre)
      kept == IF fn.ensures = {} THEN {}
              ELSE {implies(and({pre, e.path}), All(fn.ensures, e.env)) : e \in Range(walk.ends)}
  IN  IF walk.many THEN {"unknown"} ELSE {Judged(f) : f \in walk.conditions \cup kept}

-----------------------------------------------------------------------------
(* The function as it runs.  A state: [scopes, how, value], `how` being    *)
(* next, return, break, continue, or broken where a contract is not kept,  *)
(* and spins where a loop is followed no further.                          *)
RECURSIVE valueOf(_, _, _)
valueOf(e, env, entry) ==
  LET l == valueOf(e.left, env, entry)
      r == valueOf(e.right, env, entry)
  IN  CASE e.type = "Num" -> Rat(e.value, 1)
        [] e.type = "Bool" -> e.truth
        [] e.type = "Ident" -> env[e.name]
        [] e.type = "Old" -> valueOf(e.of, entry, entry)
        [] e.type = "Unary" -> IF e.op = "-" THEN neg(valueOf(e.operand, env, entry)) ELSE ~valueOf(e.operand, env, entry)
        [] e.type = "Logical" -> IF e.op = "and" THEN l /\ r ELSE l \/ r
        [] e.type = "Binary" ->
             CASE e.op = "+" -> add(l, r)
               [] e.op = "-" -> add(l, neg(r))
               [] e.op = "*" -> mul(l, r)
               [] e.op = "/" -> div(l, r)
               [] e.op = "<" -> add(l, neg(r)).n < 0
               [] e.op = "<=" -> add(l, neg(r)).n <= 0
               [] e.op = ">" -> add(l, neg(r)).n > 0
               [] e.op = ">=" -> add(l, neg(r)).n >= 0
               [] e.op = "==" -> l = r
               [] e.op = "!=" -> l # r

Visible(st) == FoldLeft(LAMBDA env, scope : scope @@ env, <<>>, st.scopes)
Holding(st, x) == CHOOSE i \in DOMAIN st.scopes :
                    x \in DOMAIN st.scopes[i] /\ \A j \in i + 1 .. Len(st.scopes) : x \notin DOMAIN st.scopes[j]
Ends(st, how) == [st EXCEPT !.how = how]

RECURSIVE exec(_, _, _)
(* A block in a scope of its own.                                          *)
execBlock(body, scope, st, entry) ==
  LET after == exec(body, [st EXCEPT !.scopes = Append(@, scope)], entry)
  IN  [after EXCEPT !.scopes = Front(@)]

Keeps(clauses, st, entry) == \A c \in clauses : valueOf(c, Visible(st), entry)

(* A loop from a pass on: `items` are those a `for` has left, `last` what  *)
(* its variant was.                                                        *)
RECURSIVE passes(_, _, _, _, _, _)
passes(node, st, items, last, left, entry) ==
  LET more == IF node.type = "For" THEN items > 0 ELSE valueOf(node.test, Visible(st), entry)
      scope == IF node.type = "For" THEN node.name :> Rat(node.count - items, 1) ELSE <<>>
      now == {valueOf(v, Visible(st), entry) : v \in node.variant}
      spent == \E v \in now : v.n < 0 \/ \E w \in last : add(v, neg(w)).n >= 0
      after == execBlock(node.body, scope, st, entry)
      again(t) == passes(node, t, items - 1, now, left - 1, entry)
  IN  CASE ~more -> st
        [] more /\ left = 0 -> Ends(st, "spins")
        [] more /\ left > 0 /\ (~Keeps(node.invariants, st, entry) \/ spent) -> Ends(st, "broken")
        [] OTHER ->
             CASE after.how = "break" -> Ends(after, "next")
               [] after.how = "continue" -> again(Ends(after, "next"))
               [] after.how = "next" -> IF Keeps(node.invariants, after, entry) THEN again(after) ELSE Ends(after, "broken")
               [] OTHER -> after

execStmt(node, st, entry) ==
  LET value == valueOf(node.value, Visible(st), entry)
  IN  CASE node.type = "Declare" -> [st EXCEPT !.scopes[Len(st.scopes)] = (node.name :> value) @@ @]
        [] node.type = "Assign" -> [st EXCEPT !.scopes[Holding(st, node.name)][node.name] = value]
        [] node.type = "Return" -> [st EXCEPT !.how = "return", !.value = value]
        [] node.type = "Break" -> Ends(st, "break")
        [] node.type = "Continue" -> Ends(st, "continue")
        [] node.type = "Block" -> execBlock(node.body, <<>>, st, entry)
        [] node.type = "If" ->
             CASE valueOf(node.test, Visible(st), entry) -> execBlock(node.then.body, <<>>, st, entry)
               [] ~valueOf(node.test, Visible(st), entry) /\ node.alt.type = "Block" ->
                    execBlock(node.alt.body, <<>>, st, entry)
               [] OTHER -> exec(<<node.alt>>, st, entry)
        [] node.type \in {"While", "For"} ->
             IF Keeps(node.invariants, st, entry)
             THEN passes(node, st, IF node.type = "For" THEN node.count ELSE 0, {}, MaxPasses, entry)
             ELSE Ends(st, "broken")
        [] OTHER -> st

exec(body, st, entry) ==
  LET through[i \in 0 .. Len(body)] ==
        CASE i = 0 -> st
          [] i > 0 /\ through[i - 1].how = "next" -> execStmt(body[i], through[i - 1], entry)
          [] OTHER -> through[i - 1]
  IN  through[Len(body)]

(* Whether a call of a function keeps the contracts met on its way.        *)
Keeping(fn, args) ==
  LET end == exec(fn.body, [scopes |-> <<args>>, how |-> "next", value |-> ZERO], args)
      env == ("result" :> end.value) @@ Visible(end)
  IN  CASE end.how = "broken" -> FALSE
        [] end.how = "return" -> \A c \in fn.ensures : valueOf(c, env, args)
        [] OTHER -> TRUE

Called(fn, args) == \A c \in fn.requires : valueOf(c, args, args)
=============================================================================
