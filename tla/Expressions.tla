------------------------------ MODULE Expressions ------------------------------
(***************************************************************************)
(* How the two engines evaluate expressions: the tree-walker (evaluate,    *)
(* interpreter.js) and the closures compile.js builds, with the inline     *)
(* cache of its call sites.  What each reads, guards, writes and refuses,  *)
(* and in which order, is the state; what numbers and texts are is not.    *)
(*                                                                         *)
(* An expression grows by one node at a time, and is then evaluated twice  *)
(* in one program, as a loop would: what the first time left in the caches *)
(* is there the second time, when the program may be profiling.  Tensors,  *)
(* decimals, ciphertexts and labels other than `untrusted` are left out;   *)
(* so are scopes and frames (Scopes) and steps (Engines).                  *)
(***************************************************************************)
EXTENDS Integers, Sequences, TLC, SequencesExt

CONSTANTS
  Functions,     \* the declarations of the program's functions
  Globals,       \* the values of its let bindings, by name
  Heap,          \* the lists and maps it starts with
  Starts,        \* the expressions to grow from
  GrownBy(_, _), \* an expression and a number -> what it grows into
  MaxGrown,      \* bound on the nodes added
  MaxCallDepth,
  Situations     \* what x is, and whether blocks are open; see Begun

VARIABLES situation, expression

Init == situation \in Situations /\ expression \in {[e |-> start, nodes |-> 0] : start \in Starts}
Next ==
  /\ expression.nodes < MaxGrown
  /\ \E grown \in GrownBy(expression.e, expression.nodes + 1) :
       expression' = [e |-> grown, nodes |-> expression.nodes + 1]
  /\ UNCHANGED situation
Spec == Init /\ [][Next]_<<situation, expression>>

-----------------------------------------------------------------------------
(* Values: what kind, of what (numbers, always), and whether a Tainted is  *)
(* around it.  Lists, maps and records are places in the heap.             *)

Value(is, of) == [is |-> is, of |-> of, tainted |-> FALSE]
Number(k) == Value("num", <<k>>)
Truth(b) == Value("bool", IF b THEN <<1>> ELSE <<0>>)
Nil == Value("nil", <<>>)
GROUNDLESS == Value("groundless", <<>>)
Native(code, on, carries) == Value("native", <<code, on, carries>>)

say == 1     \* says its argument
trust == 2   \* transparent: its argument without the taint
fetch == 3   \* needs the network
push == 4
len == 5
AnyNumber == -1
Arity == <<1, 1, 1, 1, 0>>

unwrap(v) == [v EXCEPT !.tainted = FALSE]
retaint(v, sources) ==
  IF \E i \in DOMAIN sources : sources[i].tainted THEN [v EXCEPT !.tainted = TRUE] ELSE v

truthy(v) ==
  /\ v.is \notin {"nil", "groundless"}
  /\ v.is \in {"num", "bool"} => v.of # <<0>>
  /\ v.is = "str" => v.of # <<>>

(* A run: a value or an error, and the state it left behind.               *)
Gives(s, v) == [s |-> s, error |-> "", value |-> v]
Raises(s, error) == [s |-> s, error |-> error, value |-> Nil]
Then(r, next(_, _)) == IF r.error # "" THEN r ELSE next(r.s, r.value)

InOrder(nodes, s, one(_, _)) ==
  FoldLeft(LAMBDA r, e : Then(r, LAMBDA t, vs : Then(one(e, t), LAMBDA u, v : Gives(u, Append(vs, v)))),
           Gives(s, <<>>), nodes)

Held(s, v) == s.heap[v.of[1]]
Allocated(s, kind, holds) ==
  Gives([s EXCEPT !.heap = Append(@, [frozen |-> FALSE, holds |-> holds])],
        Value(kind, <<Len(s.heap) + 1>>))
spendMemory(s, n) == [s EXCEPT !.allocated = @ + n]

Known(s, name) == name \in DOMAIN s.locals \cup DOMAIN Globals \cup {"x"}
Bound(s, name) ==
  IF name \in DOMAIN s.locals THEN s.locals[name] ELSE IF name = "x" THEN s.x ELSE Globals[name]
Lookup(s, name) == IF Known(s, name) THEN Gives(s, Bound(s, name)) ELSE Raises(s, "NameError")

-----------------------------------------------------------------------------
(* What both engines call.                                                 *)

guard(s, v) ==
  IF s.grounded /\ (v.tainted \/ v.is = "groundless") THEN Raises(s, "TaintError") ELSE Gives(s, v)

RECURSIVE deepEquals(_, _, _)
deepEquals(s, a, b) ==
  IF a.is # b.is THEN FALSE
  ELSE IF a.is \notin {"list", "record"} THEN a.of = b.of
  ELSE LET as == Held(s, a).holds
           bs == Held(s, b).holds
       IN Len(as) = Len(bs) /\ \A i \in DOMAIN as : deepEquals(s, unwrap(as[i]), unwrap(bs[i]))

(* Text, up to what is inside collections.                                 *)
stringify(v) == IF v.is \in {"num", "str"} THEN v.of ELSE <<-2>>
Interpolated(parts) ==
  retaint(Value("str", FlattenSeq([i \in DOMAIN parts |-> stringify(unwrap(parts[i]))])), parts)
keyOf(v) == stringify(unwrap(v))

asNumber(s, v, next(_, _)) ==
  IF unwrap(v).is # "num" THEN Raises(s, "TypeError") ELSE next(s, v.of[1])

Numbers(s, l, r, of(_, _)) ==
  asNumber(s, l, LAMBDA t, a : asNumber(t, r, LAMBDA u, b : Gives(u, Number(of(a, b)))))

(* Text joins with anything, and a list with a list.                       *)
Plus(s, l, r) ==
  IF "str" \in {l.is, r.is} THEN Gives(s, Value("str", stringify(l) \o stringify(r)))
  ELSE IF {l.is, r.is} = {"list"} THEN Allocated(s, "list", Held(s, l).holds \o Held(s, r).holds)
  ELSE Numbers(s, l, r, LAMBDA a, b : a + b)

Over(s, l, r) ==
  IF l.is = "num" /\ r = Number(0) THEN Raises(s, "ZeroDivisionError")
  ELSE Numbers(s, l, r, LAMBDA a, b : a \div b)

(* A refusal stays one, except that it can be asked whether it is one.     *)
binary(op, s, lv, rv) ==
  LET l == unwrap(lv)
      r == unwrap(rv)
      refusals == {v \in {lv, rv} : v = GROUNDLESS}
  IN IF refusals # {}
     THEN Gives(s, IF op = "==" THEN Truth(lv = rv) ELSE GROUNDLESS)
     ELSE Then(CASE op = "==" -> Gives(s, Truth(deepEquals(s, l, r)))
                 [] op = "+" -> Plus(s, l, r)
                 [] op = "/" -> Over(s, l, r),
               LAMBDA t, v : Gives(t, retaint(v, <<lv, rv>>)))

Place(items, i) == IF i < 0 THEN i + Len(items) + 1 ELSE i + 1

index(s, v, k) ==
  CASE v.is = "map" ->
         LET entries == Held(s, v).holds
         IN IF keyOf(k) \in DOMAIN entries THEN Gives(s, entries[keyOf(k)]) ELSE Raises(s, "KeyError")
    [] v.is \in {"list", "str"} ->
         LET items == IF v.is = "list" THEN Held(s, v).holds ELSE v.of
         IN asNumber(s, k, LAMBDA t, i :
              IF Place(items, i) \notin DOMAIN items THEN Raises(t, "IndexError")
              ELSE Gives(t, IF v.is = "list" THEN items[Place(items, i)]
                            ELSE Value("str", <<items[Place(items, i)]>>)))
    [] OTHER -> Raises(s, "TypeError")

Put(s, v, holds) == [s EXCEPT !.heap[v.of[1]].holds = holds]

(* xs[k] = value, m[k] = value: what follows once all are evaluated.       *)
WriteAt(s, v, k, value) ==
  IF v.is \notin {"list", "map"} THEN Raises(s, "TypeError")
  ELSE IF Held(s, v).frozen THEN Raises(s, "ImmutableError")
  ELSE IF v.is = "map" THEN Gives(Put(s, v, (keyOf(k) :> value) @@ Held(s, v).holds), value)
  ELSE asNumber(s, k, LAMBDA t, i :
         LET items == Held(t, v).holds
         IN IF Place(items, i) \notin DOMAIN items THEN Raises(t, "IndexError")
            ELSE Gives(Put(t, v, [items EXCEPT ![Place(items, i)] = value]), value))

WriteMember(s, v, name, value) ==
  IF v.is # "map" THEN Raises(s, "TypeError") ELSE WriteAt(s, v, Value("str", name), value)

(* The methods of lists; a method reached through a taint carries it.      *)
member(s, v, name) ==
  IF v.is = "list" /\ name \in {push, len} THEN Gives(s, Native(name, v.of[1], 0))
  ELSE Raises(s, "AttributeError")
Carrying(m, v) ==
  IF ~v.tainted THEN m ELSE IF m.is = "native" THEN [m EXCEPT !.of[3] = 1] ELSE retaint(m, <<v>>)

(* An agent may write what its own scopes hold.                            *)
checkAgentWrite(s, name) == s.agent /\ Known(s, name) /\ name \notin DOMAIN s.locals
Reassigned(s, name, value) ==
  IF ~Known(s, name) THEN Raises(s, "NameError")
  ELSE IF name # "x" \/ "x" \in DOMAIN s.locals THEN Raises(s, "ImmutableError")
  ELSE Gives([s EXCEPT !.x = value], value)

RECURSIVE rootOf(_)
rootOf(target) == IF target.type \in {"Index", "Member"} THEN rootOf(target.object) ELSE target
RefusedAt(s, target) ==
  LET root == rootOf(target) IN root.type = "Ident" /\ checkAgentWrite(s, root.name)

-----------------------------------------------------------------------------
(* The tree-walker, and the calls both engines make.                       *)

RECURSIVE evaluate(_, _), compileExpr(_, _), evalCall(_, _), callValue(_, _, _)

assign(n, s) ==
  Then(evaluate(n.value, s), LAMBDA t, value :
    CASE n.target.type = "Ident" ->
           IF checkAgentWrite(t, n.target.name) THEN Raises(t, "AgentIsolationError")
           ELSE Reassigned(t, n.target.name, value)
      [] n.target.type = "Index" ->
           IF RefusedAt(t, n.target) THEN Raises(t, "AgentIsolationError")
           ELSE Then(evaluate(n.target.object, t), LAMBDA u, obj :
                  Then(evaluate(n.target.index, u), LAMBDA w, k : WriteAt(w, unwrap(obj), unwrap(k), value)))
      [] n.target.type = "Member" ->
           Then(evaluate(n.target.object, t), LAMBDA u, obj : WriteMember(u, unwrap(obj), n.target.name, value)))

(* Does a value fit?  Bindings collect in `found`.                         *)
RECURSIVE matchPattern(_, _, _, _)
Fits(found) == [fits |-> TRUE, found |-> found]
Misfit == [fits |-> FALSE]
matchPattern(s, pattern, v, found) ==
  CASE pattern.kind = "wildcard" -> Fits(found)
    [] pattern.kind = "bind" ->
         \* A name bound to a variant without fields tests for it.
         IF Known(s, pattern.name) /\ Bound(s, pattern.name).is = "variant"
         THEN IF v = unwrap(Bound(s, pattern.name)) THEN Fits(found) ELSE Misfit
         ELSE Fits((pattern.name :> v) @@ found)
    [] pattern.kind = "literal" -> IF deepEquals(s, v, pattern.value) THEN Fits(found) ELSE Misfit
    [] pattern.kind = "list" ->
         IF v.is # "list" THEN Misfit
         ELSE LET items == Held(s, v).holds
              IN IF Len(items) # Len(pattern.items) THEN Misfit
                 ELSE FoldLeft(LAMBDA m, i : IF ~m.fits THEN m
                                             ELSE matchPattern(s, pattern.items[i], unwrap(items[i]), m.found),
                               Fits(found), [i \in DOMAIN items |-> i])

(* Arms in order; the guard and the body see what the pattern bound.       *)
RECURSIVE matched(_, _, _)
matched(arms, s, v) ==
  IF arms = <<>> THEN Raises(s, "MatchError")
  ELSE LET arm == Head(arms)
           m == matchPattern(s, arm.pattern, v, [name \in {} |-> Nil])
           within == [s EXCEPT !.locals = m.found @@ @]
           back(r) == [r EXCEPT !.s.locals = s.locals]
           test == IF arm.guard = <<>> THEN Gives(within, Truth(TRUE)) ELSE evaluate(arm.guard[1], within)
       IN IF ~m.fits THEN matched(Tail(arms), s, v)
          ELSE Then(back(test), LAMBDA t, held :
                 IF truthy(held) THEN back(evaluate(arm.body, [t EXCEPT !.locals = m.found @@ @]))
                 ELSE matched(Tail(arms), t, v))

Guarded(e, s) == Then(evaluate(e, s), guard)

evaluate(n, s) ==
  CASE n.type = "Const" -> Gives(s, n.value)
    [] n.type = "Ident" -> Lookup(s, n.name)
    [] n.type = "ListLit" ->
         Then(InOrder(n.elements, s, evaluate), LAMBDA t, items :
           Allocated(spendMemory(t, 4 + Len(items)), "list", items))
    [] n.type = "MapLit" ->
         Then(evaluate(n.key, s), LAMBDA t, k :
           Then(evaluate(n.value, t), LAMBDA u, v : Allocated(u, "map", keyOf(k) :> v)))
    [] n.type = "Unary" ->
         Then(Guarded(n.operand, s), LAMBDA t, v :
           IF n.op = "not" THEN Gives(t, retaint(Truth(~truthy(v)), <<v>>))
           ELSE asNumber(t, v, LAMBDA u, k : Gives(u, retaint(Number(-k), <<v>>))))
    [] n.type = "Logical" ->
         Then(Guarded(n.left, s), LAMBDA t, l :
           IF truthy(l) = (n.op = "or") THEN Gives(t, l) ELSE Guarded(n.right, t))
    [] n.type = "Binary" ->
         Then(Guarded(n.left, s), LAMBDA t, l :
           Then(Guarded(n.right, t), LAMBDA u, r : binary(n.op, u, l, r)))
    [] n.type = "Assign" -> assign(n, s)
    [] n.type = "Call" -> evalCall(n, s)
    [] n.type = "Index" ->
         Then(Guarded(n.object, s), LAMBDA t, obj :
           Then(Guarded(n.index, t), LAMBDA u, k :
             Then(index(u, unwrap(obj), unwrap(k)), LAMBDA w, v : Gives(w, retaint(v, <<obj, k>>)))))
    [] n.type = "Member" ->
         Then(Guarded(n.object, s), LAMBDA t, obj :
           Then(member(t, unwrap(obj), n.name), LAMBDA u, m : Gives(u, Carrying(m, obj))))
    [] n.type = "Template" ->
         Then(InOrder(n.parts, s, Guarded), LAMBDA t, parts : Gives(t, Interpolated(parts)))
    [] n.type = "Match" -> Then(Guarded(n.subject, s), LAMBDA t, v : matched(n.arms, t, unwrap(v)))

transparent(f) == f.is = "native" /\ f.of[1] = trust
isOld(n) == n.callee = [type |-> "Ident", name |-> "old"]

(* old(...) is what was captured for this node on the way in.              *)
evalCall(n, s) ==
  IF isOld(n) /\ s.old = <<>> THEN Raises(s, "ContractError")
  ELSE IF isOld(n) /\ s.old[1].node = n.id THEN Gives(s, s.old[1].value)
  ELSE Then(evaluate(n.callee, s), LAMBDA t, f :
         Then(InOrder(n.args, t, LAMBDA e, u : IF transparent(unwrap(f)) THEN evaluate(e, u) ELSE Guarded(e, u)),
              LAMBDA u, args : callValue(u, unwrap(f), args)))

(* A method reached through a taint returns tainted results.               *)
callNative(s, f, args) ==
  LET code == f.of[1]
      list == Value("list", <<f.of[2]>>)
      done == CASE code = trust -> Gives(s, unwrap(args[1]))
                [] code \in {say, fetch} -> Gives([s EXCEPT !.said = Append(@, stringify(unwrap(args[1])))], args[1])
                [] code = len -> Gives(s, Number(Len(Held(s, list).holds)))
                [] code = push ->
                     IF Held(s, list).frozen THEN Raises(s, "ImmutableError")
                     ELSE Gives(spendMemory(Put(s, list, Append(Held(s, list).holds, args[1])), 1), list)
  IN IF code = fetch /\ ~s.caps THEN Raises(s, "CapabilityError")
     ELSE IF Len(args) # Arity[code] THEN Raises(s, "ArityError")
     ELSE IF done.error = "" /\ f.of[3] = 1 THEN [done EXCEPT !.value.tainted = TRUE] ELSE done

contractValue(e, s) == IF s.compiled THEN compileExpr(e, s) ELSE evaluate(e, s)
Holds(contract, s) ==
  FoldLeft(LAMBDA r, e : Then(r, LAMBDA t, before :
                           Then(contractValue(e, t), LAMBDA u, v :
                             IF truthy(v) THEN Gives(u, Nil) ELSE Raises(u, "ContractError"))),
           Gives(s, Nil), contract)

captureOldValues(d, s) ==
  IF d.old = <<>> THEN Gives(s, <<>>)
  ELSE Then(evaluate(d.old[1].args[1], s), LAMBDA t, v : Gives(t, <<[node |-> d.old[1].id, value |-> v]>>))

Entering(d, s, args) ==
  [s EXCEPT !.locals = [p \in Range(d.params) |-> args[1]], !.caps = d.needs,
            !.depth = @ + 1, !.calls = @ + 1]
Leaving(r, s) ==
  [r EXCEPT !.s.locals = s.locals, !.s.caps = s.caps, !.s.depth = s.depth, !.s.old = s.old,
            !.s.profiled = IF s.profiling THEN @ + 1 ELSE @]

called(d, s) ==
  Then(captureOldValues(d, s), LAMBDA t, old :
    Then(Holds(d.requires, t), LAMBDA u, required :
      Then(IF u.compiled THEN compileExpr(d.body, u) ELSE evaluate(d.body, u), LAMBDA w, result :
        IF d.ensures = <<>> THEN Gives(w, result)
        ELSE Then(Holds(d.ensures, [w EXCEPT !.locals = ("result" :> result) @@ @, !.old = old]),
                  LAMBDA z, promised : Gives(z, result)))))

callValue(s, f, args) ==
  CASE f.is = "type" -> IF Len(args) # 1 THEN Raises(s, "ArityError") ELSE Allocated(s, "record", args)
    [] f.is = "native" -> callNative(s, f, args)
    [] f.is = "fn" ->
         LET d == Functions[f.of[1]]
         IN IF Len(args) # Len(d.params) THEN Raises(s, "ArityError")
            ELSE IF d.needs /\ ~s.caps THEN Raises(s, "CapabilityError")
            ELSE IF s.depth >= MaxCallDepth THEN Raises(s, "RecursionError")
            ELSE Leaving(called(d, Entering(d, s, args)), s)
    [] OTHER -> Raises(s, "TypeError")

-----------------------------------------------------------------------------
(* The compiled engine. *)

CompiledGuarded(e, s) == Then(compileExpr(e, s), guard)

buildAssign(n, s) ==
  Then(compileExpr(n.value, s), LAMBDA t, value :
    CASE n.target.type = "Ident" ->
           IF checkAgentWrite(t, n.target.name) THEN Raises(t, "AgentIsolationError")
           ELSE Reassigned(t, n.target.name, value)
      [] n.target.type = "Index" ->
           IF RefusedAt(t, n.target) THEN Raises(t, "AgentIsolationError")
           ELSE Then(compileExpr(n.target.object, t), LAMBDA u, obj :
                  Then(compileExpr(n.target.index, u), LAMBDA w, k : WriteAt(w, unwrap(obj), unwrap(k), value)))
      [] n.target.type = "Member" ->
           Then(compileExpr(n.target.object, t), LAMBDA u, obj : WriteMember(u, unwrap(obj), n.target.name, value)))

(* Numbers without a wrapper need no guard and no dispatch.                *)
FAST_BINARY == {"+", "=="}
Primitive(v) == v.is = "num" /\ ~v.tainted
fast(op, a, b) == IF op = "+" THEN Number(a + b) ELSE Truth(a = b)

buildBinary(n, s) ==
  Then(CompiledGuarded(n.left, s), LAMBDA t, l :
    Then(CompiledGuarded(n.right, t), LAMBDA u, r :
      IF n.op \in FAST_BINARY /\ Primitive(l) /\ Primitive(r) THEN Gives(u, fast(n.op, l.of[1], r.of[1]))
      ELSE binary(n.op, u, l, r)))

canCallSimple(s, f) ==
  LET d == Functions[f.of[1]]
  IN f.is = "fn" /\ ~d.needs /\ d.requires = <<>> /\ d.ensures = <<>> /\ ~d.escapes /\ ~s.profiling

(* A call that checks nothing but the number of arguments and the depth.   *)
callSimple(s, f, args) ==
  LET d == Functions[f.of[1]]
      left(r) == [r EXCEPT !.s.locals = s.locals, !.s.caps = s.caps, !.s.depth = s.depth]
  IN IF Len(args) # Len(d.params) THEN Raises(s, "ArityError")
     ELSE IF s.depth >= MaxCallDepth THEN Raises(s, "RecursionError")
     ELSE left(compileExpr(d.body, Entering(d, s, args)))

(* Mutant: what was decided of the first callee stays decided.             *)
DecidedOnce(s, site, f) ==
  [fn |-> f, simple |-> f.is = "fn" /\ IF site \in DOMAIN s.sites THEN s.sites[site].simple
                                                                   ELSE canCallSimple(s, f)]

(* What a call site remembers of its callee.                               *)
Decided(s, site, f) ==
  IF site \in DOMAIN s.sites /\ s.sites[site].fn = f THEN s.sites[site]
  ELSE [fn |-> f, simple |-> canCallSimple(s, f)]

buildCall(n, s) ==
  IF isOld(n) THEN evalCall(n, s)
  ELSE Then(compileExpr(n.callee, s), LAMBDA t, callee :
    LET f == unwrap(callee)
        decided == Decided(t, n.id, f)
        noted == [t EXCEPT !.sites = (n.id :> decided) @@ @]
        simple == decided.simple /\ ~t.profiling
    IN Then(InOrder(n.args, noted, LAMBDA e, u : IF transparent(f) THEN compileExpr(e, u) ELSE CompiledGuarded(e, u)),
            LAMBDA u, args : IF simple THEN callSimple(u, f, args) ELSE callValue(u, f, args)))

compileExpr(n, s) ==
  CASE n.type = "Const" -> Gives(s, n.value)
    [] n.type = "Ident" -> Lookup(s, n.name)
    [] n.type = "Binary" -> buildBinary(n, s)
    [] n.type = "Logical" ->
         Then(CompiledGuarded(n.left, s), LAMBDA t, l :
           IF n.op = "and"
           THEN IF ~truthy(l) THEN Gives(t, l) ELSE CompiledGuarded(n.right, t)
           ELSE IF truthy(l) THEN Gives(t, l) ELSE CompiledGuarded(n.right, t))
    [] n.type = "Unary" ->
         Then(CompiledGuarded(n.operand, s), LAMBDA t, v :
           IF n.op = "not" THEN Gives(t, retaint(Truth(~truthy(v)), <<v>>))
           ELSE asNumber(t, v, LAMBDA u, k : Gives(u, retaint(Number(-k), <<v>>))))
    [] n.type = "Call" -> buildCall(n, s)
    [] n.type = "Member" ->
         Then(CompiledGuarded(n.object, s), LAMBDA t, obj :
           Then(member(t, unwrap(obj), n.name), LAMBDA u, m : Gives(u, Carrying(m, obj))))
    [] n.type = "Index" ->
         Then(CompiledGuarded(n.object, s), LAMBDA t, obj :
           Then(CompiledGuarded(n.index, t), LAMBDA u, k :
             Then(index(u, unwrap(obj), unwrap(k)), LAMBDA w, v :
               Gives(w, IF obj.tainted \/ k.tainted THEN retaint(v, <<obj, k>>) ELSE v))))
    [] n.type = "ListLit" ->
         Then(InOrder(n.elements, s, compileExpr), LAMBDA t, items :
           Allocated(spendMemory(t, 4 + Len(items)), "list", items))
    [] n.type = "MapLit" ->
         Then(compileExpr(n.key, s), LAMBDA t, k :
           Then(compileExpr(n.value, t), LAMBDA u, v : Allocated(u, "map", keyOf(k) :> v)))
    [] n.type = "Template" ->
         Then(InOrder(n.parts, s, CompiledGuarded), LAMBDA t, parts : Gives(t, Interpolated(parts)))
    [] n.type = "Assign" -> buildAssign(n, s)
    [] OTHER -> evaluate(n, s)

-----------------------------------------------------------------------------
(* Twice the expression, the second time with the profiler if it is used.  *)

Begun(compiled, how) ==
  [x |-> IF how = "calling" THEN Value("fn", <<1>>) ELSE Number(1), heap |-> Heap, locals |-> [name \in {} |-> Nil], said |-> <<>>, allocated |-> 0,
   old |-> <<>>, depth |-> 0, caps |-> FALSE, calls |-> 0, profiled |-> 0, profiling |-> FALSE,
   grounded |-> how = "grounded", agent |-> how = "agent", compiled |-> compiled,
   sites |-> [site \in {} |-> Nil]]

Observed(r) == [r EXCEPT !.s.sites = Nil, !.s.compiled = FALSE]
Again(s, how) == [s EXCEPT !.profiling = how = "profiling"]

OnTree(e, how) ==
  LET first == evaluate(e, Begun(FALSE, how))
  IN <<Observed(first), Observed(evaluate(e, Again(first.s, how)))>>
OnCompiled(e, how) ==
  LET first == compileExpr(e, Begun(TRUE, how))
  IN <<Observed(first), Observed(compileExpr(e, Again(first.s, how)))>>

(* Both engines come to the same value or the same error, and leave the    *)
(* same variables, lists, output, memory and profile: "same order of       *)
(* evaluation, same `tick`, same `guard`" (compile.js).                    *)
SameValue(how, e) == OnTree(e, how) = OnCompiled(e, how)
=============================================================================
