------------------------------- MODULE Engines -------------------------------
(***************************************************************************)
(* The two engines: the tree-walker, which leaves a block by an exception  *)
(* (interpreter.js), and the compiled engine, which leaves it by returning *)
(* a signal and falls back on the tree-walker for the kinds of node it     *)
(* does not compile (compile.js).                                          *)
(*                                                                         *)
(* One variable x holds all the data; statements read it, add one to it,   *)
(* shadow it, or fail.  `attempt` stands for every statement that is not   *)
(* compiled, `fork` for every expression that is not.                      *)
(***************************************************************************)
EXTENDS Integers, Sequences, TLC, SequencesExt

CONSTANTS
  Statements,  \* what a body starts with
  Endings,     \* what it may go on with
  Ways,        \* of running it: "program", "call", "contracted"
  MaxBody,     \* bound on the statements of the body
  StepLimit

VARIABLES way, body

Init == way \in Ways /\ body = <<>>
Next == \E statement \in IF body = <<>> THEN Statements ELSE Endings :
  /\ Len(body) < MaxBody
  /\ body' = Append(body, statement)
  /\ UNCHANGED way
Spec == Init /\ [][Next]_<<way, body>>

-----------------------------------------------------------------------------
(* A run: scopes holding x or nothing, what was said, steps spent; and how *)
(* a node ended.  Kinds are "normal", "fail", what the tree-walker throws  *)
(* ("return", "break", "continue") and what compiled code returns          *)
(* ("SIG_RETURN", "SIG_BREAK", "SIG_CONTINUE").                            *)

Nil == -1
Many == -2   \* the value of a fork
Ended(s, kind, value) == [s |-> s, kind |-> kind, value |-> value]
Normal(s, value) == Ended(s, "normal", value)
Fail(s, error) == Ended(s, "fail", error)

Holder(s) == CHOOSE i \in DOMAIN s.scopes :
  s.scopes[i] # <<>> /\ \A j \in i + 1 .. Len(s.scopes) : s.scopes[j] = <<>>
X(s) == s.scopes[Holder(s)][1]
Say(s, value) == [s EXCEPT !.out = Append(@, value)]
Entered(s, scope) == [s EXCEPT !.scopes = Append(@, scope)]
Left(r, s) == [r EXCEPT !.s.scopes = SubSeq(@, 1, Len(s.scopes))]

Ticked(s) == [s EXCEPT !.steps = @ + 1]
Spent(s) == s.steps > StepLimit
Abandoned(s) == Fail(s, "StepLimitError")

Binds(block) == \E i \in DOMAIN block : block[i].type = "Declare"
IsExpr(statement) == statement.type = "ExprStmt"

Declare(s) ==
  IF Last(s.scopes) # <<>> THEN Fail(s, "RedeclareError")
  ELSE Normal([s EXCEPT !.scopes[Len(s.scopes)] = <<[value |-> 1, mutable |-> FALSE]>>], Nil)

Loopvar(n, item) == IF n.name = "x" THEN <<[value |-> item, mutable |-> FALSE]>> ELSE <<>>
Items == <<0, 1>>
Iterated(n, s) == IF n.loud THEN Say(s, Many) ELSE s

-----------------------------------------------------------------------------
(* Contracts of loops: x < 2 as the invariant, 2 - x as the variant.       *)

Contracted(n) == n.contract # "none"
Uncontracted == [previous |-> Nil]

checkLoopInvariants(n, s) ==
  IF n.contract = "invariant" /\ X(s).value >= 2 THEN Fail(s, "LoopError") ELSE Normal(s, Nil)

stepLoopContracts(n, s, loop) ==
  LET current == 2 - X(s).value
  IN IF n.contract # "variant" THEN checkLoopInvariants(n, s)
     ELSE IF current < 0 \/ (loop.previous # Nil /\ current >= loop.previous) THEN Fail(s, "LoopError")
     ELSE Normal(s, Nil)

Stepped(n, s) == IF n.contract = "variant" THEN [previous |-> 2 - X(s).value] ELSE Uncontracted

-----------------------------------------------------------------------------
(* The tree-walker.                                                        *)

RECURSIVE exec(_, _), execAll(_, _, _), execWhile(_, _, _), execFor(_, _, _, _), forked(_, _, _)

execBlock(block, s, scope) == Left(execAll(block, Entered(s, scope), Nil), s)
InScopeFor(block, s) == IF Binds(block) THEN execBlock(block, s, <<>>) ELSE execAll(block, s, Nil)

execAll(block, s, last) ==
  IF block = <<>> THEN Normal(s, last)
  ELSE LET r == exec(Head(block), s)
       IN IF r.kind # "normal" THEN r
          ELSE execAll(Tail(block), r.s, IF IsExpr(Head(block)) THEN r.value ELSE Nil)

(* Expressions; neither engine compiles a fork.                            *)
evaluate(expr, s) ==
  CASE expr.type = "Say" -> Normal(Say(s, X(s).value), X(s).value)
    [] expr.type = "Assign" ->
         IF ~X(s).mutable THEN Fail(s, "ImmutableError")
         ELSE Normal([s EXCEPT !.scopes[Holder(s)][1].value = @ + 1], X(s).value + 1)
    [] expr.type = "Fail" -> Fail(s, "Error")
    [] expr.type = "Fork" -> forked(expr, s, 2)

forked(expr, s, left) ==
  IF left = 0 THEN Normal(s, Many)
  ELSE LET r == execBlock(expr.body, s, <<>>)
       IN IF r.kind = "normal" THEN forked(expr, r.s, left - 1) ELSE r

exec(n, s0) ==
  LET s == Ticked(s0)
  IN IF Spent(s) THEN Abandoned(s)
     ELSE CASE n.type = "ExprStmt" -> evaluate(n.expr, s)
       [] n.type = "Declare" -> Declare(s)
       [] n.type = "Return" -> Ended(s, "return", X(s).value)
       [] n.type = "Break" -> Ended(s, "break", Nil)
       [] n.type = "Continue" -> Ended(s, "continue", Nil)
       [] n.type = "Block" -> InScopeFor(n.body, s)
       [] n.type = "If" -> IF X(s).value < 1 THEN InScopeFor(n.then, s) ELSE InScopeFor(n.alt, s)
       [] n.type = "While" ->
            LET begun == checkLoopInvariants(n, s)
            IN IF begun.kind = "fail" THEN begun ELSE execWhile(n, s, Uncontracted)
       [] n.type = "For" ->
            LET begun == checkLoopInvariants(n, Iterated(n, s))
            IN IF begun.kind = "fail" THEN begun ELSE execFor(n, begun.s, Items, Uncontracted)
       [] n.type = "Attempt" ->
            LET r == execBlock(n.body, s, <<>>)
            IN IF r.kind # "fail" THEN r ELSE execBlock(n.handler, Say(r.s, r.value), <<>>)

(* After a pass: on, out of the loop, or out of more than it.  `again` is  *)
(* what the next pass would come to.                                       *)
execPassed(n, r, again(_)) ==
  CASE r.kind = "normal" ->
         LET held == checkLoopInvariants(n, r.s) IN IF held.kind = "fail" THEN held ELSE again(r.s)
    [] r.kind = "break" -> Normal(r.s, Nil)
    [] r.kind = "continue" -> again(r.s)
    [] OTHER -> r

execWhile(n, s0, loop) ==
  IF X(s0).value >= 2 THEN Normal(s0, Nil)
  ELSE LET s == Ticked(s0)
           step == stepLoopContracts(n, s, loop)
       IN IF Spent(s) THEN Abandoned(s)
          ELSE IF step.kind = "fail" THEN step
          ELSE execPassed(n, InScopeFor(n.body, s), LAMBDA t : execWhile(n, t, Stepped(n, s)))

execFor(n, s0, items, loop) ==
  IF items = <<>> THEN Normal(s0, Nil)
  ELSE LET s == Ticked(s0)
           step == stepLoopContracts(n, s, loop)
       IN IF Spent(s) THEN Abandoned(s)
          ELSE IF step.kind = "fail" THEN step
          ELSE execPassed(n, execBlock(n.body, s, Loopvar(n, Head(items))),
                          LAMBDA t : execFor(n, t, Tail(items), Stepped(n, s)))

-----------------------------------------------------------------------------
(* The compiled engine.                                                    *)

IsSignal(r) == r.kind \in {"SIG_RETURN", "SIG_BREAK", "SIG_CONTINUE"}
Thrown == "return" :> "SIG_RETURN" @@ "break" :> "SIG_BREAK" @@ "continue" :> "SIG_CONTINUE"
Translated(r) == IF r.kind \in DOMAIN Thrown THEN [r EXCEPT !.kind = Thrown[@]] ELSE r

RECURSIVE mayTransferControl(_)
mayTransferControl(block) == \E i \in DOMAIN block :
  LET n == block[i]
  IN \/ n.type \in {"Return", "Break", "Continue"}
     \/ \E part \in DOMAIN n \cap {"body", "then", "alt", "handler"} : mayTransferControl(n[part])
     \/ n.type = "ExprStmt" /\ n.expr.type = "Fork" /\ mayTransferControl(n.expr.body)

RECURSIVE compiled(_, _), compileBlock(_, _, _, _), compiledWhile(_, _, _), compiledFor(_, _, _, _)

(* Mutant: the scope of a block that binds is left behind.                 *)
runScopedKept(block, s) ==
  compileBlock(block, IF Binds(block) THEN Entered(s, <<>>) ELSE s, Nil, FALSE)

runScoped(block, s) ==
  IF Binds(block) THEN Left(compileBlock(block, Entered(s, <<>>), Nil, FALSE), s)
  ELSE compileBlock(block, s, Nil, FALSE)

compileBlock(block, s, last, keepAll) ==
  IF block = <<>> THEN Normal(s, last)
  ELSE LET r == compiled(Head(block), s)
       IN IF r.kind # "normal" THEN r
          ELSE compileBlock(Tail(block), r.s, IF keepAll \/ IsExpr(Head(block)) THEN r.value ELSE Nil, keepAll)

fallBack(n, s) == IF mayTransferControl(<<n>>) THEN Translated(exec(n, s)) ELSE exec(n, s)

compiled(n, s0) ==
  LET s == Ticked(s0)
  IN IF n.type = "Attempt" THEN fallBack(n, s0)
     ELSE IF Spent(s) THEN Abandoned(s)
     ELSE CASE n.type = "ExprStmt" -> evaluate(n.expr, s)
       [] n.type = "Declare" -> Declare(s)
       [] n.type = "Return" -> Ended(s, "SIG_RETURN", X(s).value)
       [] n.type = "Break" -> Ended(s, "SIG_BREAK", Nil)
       [] n.type = "Continue" -> Ended(s, "SIG_CONTINUE", Nil)
       [] n.type = "Block" -> runScoped(n.body, s)
       [] n.type = "If" -> IF X(s).value < 1 THEN runScoped(n.then, s) ELSE runScoped(n.alt, s)
       [] n.type = "While" ->
            LET begun == checkLoopInvariants(n, s)
            IN IF begun.kind = "fail" THEN begun ELSE compiledWhile(n, s, Uncontracted)
       [] n.type = "For" ->
            \* A range is counted, its bounds read first; anything else is
            \* evaluated after the contract.
            LET bounds == IF n.iter = "range" THEN Iterated(n, s) ELSE s
                begun == checkLoopInvariants(n, bounds)
                subject == IF n.iter = "range" THEN begun.s ELSE Iterated(n, begun.s)
            IN IF begun.kind = "fail" THEN begun ELSE compiledFor(n, subject, Items, Uncontracted)

(* A break ends the loop; a continue is a pass like any other.             *)
compiledPassed(n, r, again(_)) ==
  CASE r.kind = "SIG_BREAK" -> Normal(r.s, Nil)
    [] r.kind \in {"normal", "SIG_CONTINUE"} ->
         LET held == checkLoopInvariants(n, r.s) IN IF held.kind = "fail" THEN held ELSE again(r.s)
    [] OTHER -> r

compiledWhile(n, s0, loop) ==
  IF X(s0).value >= 2 THEN Normal(s0, Nil)
  ELSE LET s == Ticked(s0)
           step == stepLoopContracts(n, s, loop)
       IN IF Spent(s) THEN Abandoned(s)
          ELSE IF step.kind = "fail" THEN step
          ELSE compiledPassed(n, runScoped(n.body, s), LAMBDA t : compiledWhile(n, t, Stepped(n, s)))

(* The loop's scope is entered before its contract is read.                *)
compiledFor(n, s0, items, loop) ==
  IF items = <<>> THEN Normal(s0, Nil)
  ELSE LET s == Ticked(s0)
           inner == Entered(s, Loopvar(n, Head(items)))
           step == stepLoopContracts(n, inner, loop)
       IN IF Spent(s) THEN Abandoned(s)
          ELSE IF step.kind = "fail" THEN Left(step, s)
          ELSE compiledPassed(n, Left(compileBlock(n.body, inner, Nil, FALSE), s),
                              LAMBDA t : compiledFor(n, t, Tail(items), Stepped(n, inner)))

-----------------------------------------------------------------------------
(* The boundaries: a call and a program.                                   *)

Globals == [scopes |-> << <<[value |-> 0, mutable |-> TRUE]>> >>, out |-> <<>>, steps |-> 0]

controlFlowEscape(r) ==
  IF r.kind \in {"return", "break", "continue"} THEN Fail(r.s, "ControlFlowError") ELSE r

runBody(block, s) ==
  LET r == Left(compileBlock(block, s, Nil, FALSE), Globals)
      thrown == "SIG_BREAK" :> "break" @@ "SIG_CONTINUE" :> "continue"
  IN CASE r.kind = "SIG_RETURN" -> [r EXCEPT !.kind = "normal"]
       [] r.kind \in DOMAIN thrown -> [r EXCEPT !.kind = thrown[@]]
       [] r.kind = "normal" -> Normal(r.s, Nil)
       [] OTHER -> r

runProgram(block) ==
  LET r == compileBlock(block, Globals, Nil, TRUE)
      thrown == "SIG_RETURN" :> "return" @@ "SIG_BREAK" :> "break" @@ "SIG_CONTINUE" :> "continue"
  IN IF r.kind \in DOMAIN thrown THEN [r EXCEPT !.kind = thrown[@]] ELSE r

Frame == Entered(Globals, <<>>)
callSimple(block) == controlFlowEscape(runBody(block, Frame))

callValue(r) == IF r.kind = "return" THEN [r EXCEPT !.kind = "normal"] ELSE controlFlowEscape(r)

RECURSIVE runTree(_, _, _)
runTree(block, s, last) ==
  IF block = <<>> THEN Normal(s, last)
  ELSE LET r == exec(Head(block), s)
       IN IF r.kind # "normal" THEN r ELSE runTree(Tail(block), r.s, r.value)

(* What execBlock's value is, a call does not return.                      *)
treeBody(block) ==
  LET r == Left(execAll(block, Frame, Nil), Globals)
  IN IF r.kind = "normal" THEN Normal(r.s, Nil) ELSE r

onTree(how, program) ==
  IF how = "program" THEN controlFlowEscape(runTree(program, Globals, Nil))
  ELSE callValue(treeBody(program))
onCompiled(how, program) ==
  CASE how = "program" -> controlFlowEscape(runProgram(program))
    [] how = "call" -> callSimple(program)
    [] OTHER -> callValue(runBody(program, Frame))

-----------------------------------------------------------------------------
(* Properties.                                                             *)

Observed(r) == [r EXCEPT !.s.scopes = X(r.s)]

Agree(how, program) == Observed(onTree(how, program)) = Observed(onCompiled(how, program))

(* Whatever is written next, both engines say the same, spend the same     *)
(* steps, leave x the same and end the same way: "the tree-walker is the   *)
(* specification" (compile.js).                                            *)
EnginesAgree == [][Agree(way, body')]_body

(* Where they are known not to: a continue in a loop with an invariant,    *)
(* which the tree-walker does not check then; a way out of a fork, which   *)
(* compiled loops and calls do not expect as an exception; the contract of *)
(* a for that reads its variable, which the tree-walker has not bound yet; *)
(* and a subject evaluated before or after the contract's first check.     *)
RECURSIVE Continues(_), KnownToDiffer(_)
Parts(n) == {n[part] : part \in DOMAIN n \cap {"body", "then", "alt", "handler"}}
IsFork(n) == IsExpr(n) /\ n.expr.type = "Fork"

Continues(block) == \E i \in DOMAIN block :
  \/ block[i].type = "Continue"
  \/ block[i].type \notin {"While", "For"} /\ \E part \in Parts(block[i]) : Continues(part)

KnownToDiffer(block) == \E i \in DOMAIN block :
  LET n == block[i]
  IN \/ IsFork(n) /\ mayTransferControl(n.expr.body)
     \/ n.type \in {"While", "For"} /\ n.contract = "invariant" /\ Continues(n.body)
     \/ n.type = "For" /\ Contracted(n) /\ (n.name = "x" \/ (n.loud /\ n.iter # "range"))
     \/ \E part \in Parts(n) : KnownToDiffer(part)

(* Everywhere else the engines cannot be told apart, whatever leaves what. *)
AgreeOtherwise(how, program) == KnownToDiffer(program) \/ Agree(how, program)
=============================================================================
