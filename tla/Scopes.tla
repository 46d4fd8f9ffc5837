-------------------------------- MODULE Scopes --------------------------------
(***************************************************************************)
(* env.js and the code that builds scopes: bindings in arrays with a live  *)
(* count, names borrowed from the declaration, call frames pooled by call  *)
(* depth and written over, loop scopes cleared and refilled, and inline    *)
(* caches that keep the slot a name resolved to until the name's version   *)
(* moves.  Lexical is what all of that has to look like; `scopes` keeps    *)
(* the scopes Lexical would have, every other variable is the code's.      *)
(***************************************************************************)
EXTENDS Naturals, Sequences, SequencesExt

CONSTANTS
  Names, Named, Inner, Params, Declared, LoopVars, Makers, RecordsInFrames,
  Small,        \* how many bindings a scope scans before it takes a Map
  MaxScopes, MaxDepth, MaxClosures, MaxWrites, MaxEnvs, MaxCells \* bounds

VARIABLES
  scopes,       \* the scopes the program's text calls for
  stack,        \* what is being executed, each entry with its Env
  closures,     \* function values and record types, each with its Env
  answer,       \* what the last read gave
  writes,       \* the number of the last write
  envs,         \* every Env that was allocated
  cells,        \* every slot: [value, mutable]
  cache,        \* per name, one inline cache: [env, slot]
  pool,         \* decl.framePool
  escapes,      \* decl.framesEscape
  simple        \* decl.simpleCall, and the function values call sites took it for

ASSUME ScopesAssumption ==
  /\ "none" \notin Names /\ LoopVars \subseteq Names \cup {"none"}
  /\ Named \in Seq(ToSet(Named))
  /\ \A d \in ToSet(Named) \cup Inner :
       /\ Params[d] \in Seq(Names)
       /\ \A i, j \in DOMAIN Params[d] : Params[d][i] = Params[d][j] => i = j

(* A version only grows and a cache remembers the one it saw, so a name's  *)
(* version moving on is its cache going cold.                              *)
Cold == [env |-> 0, slot |-> 0]

vars == <<scopes, stack, closures, answer, writes, envs, cells, cache, pool, escapes, simple>>

L == INSTANCE Lexical WITH
  stack <- [d \in DOMAIN stack |->
              [kind |-> stack[d].kind, scope |-> stack[d].scope, decl |-> stack[d].decl,
               body |-> stack[d].body, var |-> stack[d].var]],
  closures <- [c \in DOMAIN closures |->
                 [kind |-> closures[c].kind, decl |-> closures[c].decl, scope |-> closures[c].scope]]

Decls == L!Decls
Running == Last(stack)
callDepth == L!Calls

-----------------------------------------------------------------------------
(* The Env class.  A position past `count` is spare storage.               *)

Env(parent) ==
  [parent |-> parent, names |-> <<>>, slots |-> <<>>, count |-> 0,
   shared |-> FALSE, big |-> FALSE, map |-> <<>>]

Places(e) == 1 .. e.count
Held(e) == IF e.big THEN DOMAIN e.map ELSE {e.names[i] : i \in Places(e)}
PlaceOf(e, n) == CHOOSE i \in Places(e) : e.names[i] = n
own(e, n) == IF e.big THEN e.map[n] ELSE e.slots[PlaceOf(e, n)]
AsMap(e) == [n \in Held(e) |-> own(e, n)]

(* The getter: it converts the scope for good.                             *)
vars_view(e) == [Env(e.parent) EXCEPT !.big = TRUE, !.map = AsMap(e)]

adoptFrame(e, params, slots) ==
  [e EXCEPT !.names = params, !.slots = slots, !.count = Len(params), !.shared = TRUE]

(* Locals the last call left are dropped, borrowed names put back; the     *)
(* storage for slots keeps its length.                                     *)
reuseFrame(e, params) ==
  [e EXCEPT !.names = IF e.shared THEN @ ELSE params, !.count = Len(params), !.shared = TRUE]
(* Mutant: nothing is told of the locals that go.                          *)
LeftBehindSilent(e, params) == {}
LeftBehind(e, params) == {e.names[i] : i \in Len(params) + 1 .. e.count}

clearVars(e) == IF e.big THEN [e EXCEPT !.map = <<>>] ELSE [e EXCEPT !.count = 0]

Owned(e) == IF e.shared THEN SubSeq(e.names, 1, e.count) ELSE e.names
Store(s, i, x) == IF i \in DOMAIN s THEN [s EXCEPT ![i] = x] ELSE Append(s, x)

(* Mutant: the slot goes to the end of its array, the name to its place.   *)
putSlotPushed(e, n, s) ==
  IF e.big THEN [e EXCEPT !.map = L!With(@, n, s)]
  ELSE [e EXCEPT !.names = Store(Owned(e), e.count + 1, n), !.shared = FALSE,
                 !.slots = Append(@, s), !.count = @ + 1]

putSlot(e, n, s) ==
  IF e.big THEN [e EXCEPT !.map = L!With(@, n, s)]
  ELSE IF n \in Held(e)
    THEN [e EXCEPT !.names = Owned(e), !.shared = FALSE, !.slots[PlaceOf(e, n)] = s]
  ELSE IF e.count >= Small
    THEN [vars_view(e) EXCEPT !.map = L!With(@, n, s)]
  ELSE [e EXCEPT !.names = Store(Owned(e), e.count + 1, n), !.shared = FALSE,
                 !.slots = Store(@, e.count + 1, s), !.count = @ + 1]

deleteVar(e, n) ==
  IF n \notin Held(e) THEN e
  ELSE IF e.big THEN [e EXCEPT !.map = [m \in DOMAIN @ \ {n} |-> @[m]]]
  ELSE [e EXCEPT !.names = RemoveAt(SubSeq(@, 1, e.count), PlaceOf(e, n)), !.shared = FALSE,
                 !.slots = RemoveAt(SubSeq(@, 1, e.count), PlaceOf(e, n)), !.count = @ - 1]

reusable(e) == ~e.big

(* Env.slot, the walk outwards: 0 when no scope binds the name.            *)
slot(e, n) ==
  LET found[f \in 0 .. Len(envs)] ==
        IF f = 0 THEN 0
        ELSE IF n \in Held(envs[f]) THEN own(envs[f], n) ELSE found[envs[f].parent]
  IN found[e]

Outwards(e) ==
  LET out[f \in 0 .. Len(envs)] == IF f = 0 THEN {} ELSE {f} \cup out[envs[f].parent]
  IN out[e]

bump(names) == cache' = [n \in Names |-> IF n \in names THEN Cold ELSE cache[n]]

-----------------------------------------------------------------------------
(* Room to allocate.                                                       *)
NewEnv(e) == Len(envs) < MaxEnvs /\ envs' = Append(envs, e)
NewSlots(values, mutable) ==
  /\ Len(cells) + Len(values) <= MaxCells
  /\ cells' = cells \o [i \in DOMAIN values |-> [value |-> values[i], mutable |-> mutable]]
In(entry, env, home) ==
  [kind |-> entry.kind, scope |-> entry.scope, decl |-> entry.decl, body |-> entry.body,
   var |-> entry.var, env |-> env, home |-> home]
Push(entry, env, home) == stack' = Append(stack, In(entry, env, home))
Calling == <<pool, escapes, simple>>

(* Mutant: a function made in a body is not looked for.                    *)
framesEscapeNever(d) == FALSE
framesEscape(d) == d \in Makers

Init ==
  /\ scopes = <<[parent |-> 0, vals |-> <<>>]>>
  /\ stack = <<In(L!Entry("top", 1, "none"), 1, 0)>>
  /\ closures = [c \in DOMAIN Named |-> [kind |-> "fn", decl |-> Named[c], scope |-> 1, env |-> 1]]
  /\ answer = L!Unbound
  /\ writes = 0
  /\ envs = <<Env(0)>>
  /\ cells = <<>>
  /\ cache = [n \in Names |-> Cold]
  /\ pool = [d \in Decls |-> [closure |-> 0, envs |-> <<>>]]
  /\ escapes = [d \in Decls |-> framesEscape(d)]
  /\ simple = [decl |-> [d \in Decls |-> "unset"], sites |-> {}]

(* A compiled name looks at its cache first.  The tree-walker, and every   *)
(* other place the name is written, walks.                                 *)
Hit(n) == cache[n].env = Running.env
Resolve(n, cached) == IF cached /\ Hit(n) THEN cache[n].slot ELSE slot(Running.env, n)
Remember(n, cached) ==
  cache' = IF cached THEN [cache EXCEPT ![n] = [env |-> Running.env, slot |-> Resolve(n, TRUE)]]
           ELSE cache

Read(n, cached) ==
  /\ Resolve(n, cached) # 0
  /\ answer' = cells[Resolve(n, cached)].value
  /\ Remember(n, cached)
  /\ UNCHANGED <<scopes, stack, closures, writes, envs, cells, Calling>>

(* The error looks for a name spelled like it in every scope around, which *)
(* converts them; finally blocks put the scopes back on the way out.       *)
Fail(n, depth) ==
  /\ slot(Running.env, n) = 0 /\ ~Hit(n)
  /\ depth = 1 \/ depth < Len(stack)
  /\ envs' = [e \in DOMAIN envs |->
                IF e \in Outwards(Running.env) /\ ~envs[e].big THEN vars_view(envs[e]) ELSE envs[e]]
  /\ stack' = SubSeq(stack, 1, depth)
  /\ answer' = L!Unbound
  /\ UNCHANGED <<scopes, closures, writes, cells, cache, Calling>>

Assign(n, cached) ==
  LET s == Resolve(n, cached)
  IN /\ s # 0 /\ cells[s].mutable
     /\ cells' = [cells EXCEPT ![s].value = L!Newest]
     /\ answer' = L!Newest
     /\ L!Write(1)
     /\ Remember(n, cached)
     /\ L!Bind(L!Owner(Running.scope, n), n, L!Bound(L!Newest, TRUE))
     /\ UNCHANGED <<stack, closures, envs, Calling>>

(* redeclareIfAllowed and declare.                                         *)
Declare(n) ==
  LET e == envs[Running.env]
  IN /\ n \in Declared[L!Body(Running)]
     /\ Running.body # "bare"
     /\ Running.kind = "top" \/ n \notin Held(e)
     /\ L!Write(1)
     /\ NewSlots(<<L!Newest>>, TRUE)
     /\ envs' = [envs EXCEPT ![Running.env] =
                   putSlot(IF Running.kind = "top" THEN deleteVar(e, n) ELSE e, n, Len(cells) + 1)]
     /\ bump({n})
     /\ answer' = L!Unbound
     /\ L!Bind(Running.scope, n, L!Bound(L!Newest, TRUE))
     /\ UNCHANGED <<stack, closures, Calling>>

(* A block that declares something; one that does not has no scope.        *)
EnterBlock ==
  /\ Len(stack) < MaxDepth
  /\ NewEnv(Env(Running.env))
  /\ L!NewScope(Running.scope, <<>>)
  /\ Push(L!Entry("block", Len(scopes'), "none"), Len(envs'), 0)
  /\ answer' = L!Unbound
  /\ UNCHANGED <<closures, writes, cells, cache, Calling>>

(* The scope a loop's first pass runs in.  A `while` whose body binds      *)
(* nothing has none of its own.                                            *)
PassEnv(parent, var) ==
  IF var = "none" THEN Env(parent) ELSE putSlot(Env(parent), var, Len(cells) + 1)

NewPass(parent, var) ==
  /\ NewEnv(PassEnv(parent, var))
  /\ NewSlots(IF var = "none" THEN <<>> ELSE <<L!Newest>>, FALSE)
  /\ bump({var})

EnterLoop(body, var) ==
  LET entry == [kind |-> "loop", scope |-> Len(scopes) + 1, decl |-> "none",
                body |-> body, var |-> var]
      none == body = "bare" /\ var = "none"
  IN /\ Len(stack) < MaxDepth
     /\ body = "making" => L!MakesClosures
     /\ L!PassWrite(var)
     /\ L!NewScope(Running.scope, L!PassVals(var))
     /\ IF none THEN UNCHANGED <<envs, cells, cache>> ELSE NewPass(Running.env, var)
     /\ Push(entry, IF none THEN Running.env ELSE Len(envs'), Len(cells'))
     /\ answer' = L!Unbound
     /\ UNCHANGED <<closures, Calling>>

(* The next pass: a scope of its own, or the shared one cleared, with the  *)
(* loop variable's slot put back and written over.                         *)
NextPass ==
  LET var == Running.var
      e == envs[Running.env]
      onto(env) == stack' = [stack EXCEPT ![Len(stack)].scope = Len(scopes'), ![Len(stack)].env = env]
  IN /\ Running.kind = "loop"
     /\ L!PassWrite(var)
     /\ L!NewScope(scopes[Running.scope].parent, L!PassVals(var))
     /\ answer' = L!Unbound
     /\ \/ /\ Running.body = "making"
           /\ NewPass(stack[Len(stack) - 1].env, var)
           /\ onto(Len(envs'))
        \/ /\ Running.body = "binding"
           /\ envs' = [envs EXCEPT ![Running.env] =
                         IF var = "none" THEN clearVars(e) ELSE putSlot(clearVars(e), var, Running.home)]
           /\ bump(Held(e) \cup {var})
           /\ cells' = IF var = "none" THEN cells ELSE [cells EXCEPT ![Running.home].value = L!Newest]
           /\ onto(Running.env)
        \/ /\ Running.body = "bare"
           /\ cells' = IF var = "none" THEN cells ELSE [cells EXCEPT ![Running.home].value = L!Newest]
           /\ onto(Running.env)
           /\ UNCHANGED <<envs, cache>>
     /\ UNCHANGED <<closures, Calling>>

Leave ==
  /\ Len(stack) > 1
  /\ stack' = Front(stack)
  /\ answer' = L!Unbound
  /\ UNCHANGED <<scopes, closures, writes, envs, cells, cache, Calling>>

-----------------------------------------------------------------------------
(* Calls.  callSimple is the path of a compiled call site that found, or   *)
(* remembers, that the function value is eligible.                         *)
canCallSimple(c) ==
  LET d == closures[c].decl
  IN \/ c \in simple.sites
     \/ simple.decl[d] = "yes"
     \/ simple.decl[d] = "unset" /\ ~escapes[d]

Args(d) == [i \in DOMAIN Params[d] |-> writes + i]
NextSlots(count) == [i \in 1 .. count |-> Len(cells) + i]

FreshFrame(c) ==
  LET d == closures[c].decl
  IN /\ NewSlots(Args(d), FALSE)
     /\ NewEnv(adoptFrame(Env(closures[c].env), Params[d], NextSlots(Len(Params[d]))))
     /\ UNCHANGED cache

(* The frame kept for this depth is written over when it can be.           *)
PooledFrame(c, frames) ==
  LET d == closures[c].decl
      frame == frames[callDepth]
      e == envs[frame]
      mine(s) == {i \in DOMAIN Params[d] : e.slots[i] = s}
  IN /\ envs' = [envs EXCEPT ![frame] = reuseFrame(e, Params[d])]
     /\ cells' = [s \in DOMAIN cells |->
                    [cells[s] EXCEPT !.value = IF mine(s) = {} THEN @ ELSE Args(d)[CHOOSE i \in mine(s) : TRUE]]]
     /\ bump(LeftBehind(e, Params[d]))
     /\ pool' = [pool EXCEPT ![d] = [closure |-> closures[c].env, envs |-> frames]]

Frame(c, fast) ==
  LET d == closures[c].decl
      mine == IF pool[d].closure = 0 THEN [closure |-> closures[c].env, envs |-> <<>>] ELSE pool[d]
      match == mine.closure = closures[c].env
      kept == callDepth \in DOMAIN mine.envs /\ reusable(envs[mine.envs[callDepth]])
  IN \/ /\ (fast \/ ~escapes[d]) /\ match /\ kept
        /\ PooledFrame(c, mine.envs)
        /\ UNCHANGED escapes
        /\ Push(L!Entry("call", Len(scopes'), d), mine.envs[callDepth], 0)
     \/ /\ (fast \/ ~escapes[d]) /\ match /\ ~kept
        /\ FreshFrame(c)
        /\ pool' = [pool EXCEPT ![d] = [closure |-> closures[c].env,
                                        envs |-> L!With(mine.envs, callDepth, Len(envs'))]]
        /\ UNCHANGED escapes
        /\ Push(L!Entry("call", Len(scopes'), d), Len(envs'), 0)
     \/ /\ ~escapes[d] /\ ~match
        /\ FreshFrame(c)
        /\ pool' = [pool EXCEPT ![d] = [closure |-> 0, envs |-> <<>>]]
        /\ escapes' = [escapes EXCEPT ![d] = TRUE]
        /\ Push(L!Entry("call", Len(scopes'), d), Len(envs'), 0)
     \/ /\ escapes[d] /\ (fast => ~match)
        /\ FreshFrame(c)
        /\ UNCHANGED <<pool, escapes>>
        /\ Push(L!Entry("call", Len(scopes'), d), Len(envs'), 0)

Call(c, fast) ==
  LET d == closures[c].decl
      moved == fast /\ pool[d].closure \notin {0, closures[c].env}
  IN /\ closures[c].kind = "fn"
     /\ Len(stack) < MaxDepth
     /\ fast => canCallSimple(c)
     /\ L!Write(Len(Params[d]))
     /\ L!NewScope(closures[c].scope, L!Arguments(d))
     /\ Frame(c, fast)
     /\ simple' = IF fast
                  THEN [decl |-> [simple.decl EXCEPT ![d] = IF moved THEN "no"
                                                            ELSE IF @ = "unset" THEN "yes" ELSE @],
                        sites |-> simple.sites \cup {c}]
                  ELSE simple
     /\ answer' = L!Unbound
     /\ UNCHANGED closures

(* A function value, or a record type, keeps the scope it is made in.      *)
Capture(kind, d) ==
  /\ Len(closures) < MaxClosures
  /\ L!MakesClosures \/ (kind = "record" /\ RecordsInFrames)
  /\ closures' = Append(closures, [kind |-> kind, decl |-> d, scope |-> Running.scope, env |-> Running.env])
  /\ answer' = L!Unbound
  /\ UNCHANGED <<scopes, stack, writes, envs, cells, cache, Calling>>

Value(s) == IF s = 0 THEN L!Unbound ELSE cells[s].value

Check(c, n) ==
  /\ closures[c].kind = "record"
  /\ answer' = Value(slot(closures[c].env, n))
  /\ UNCHANGED <<scopes, stack, closures, writes, envs, cells, cache, Calling>>

Next ==
  \/ \E n \in Names, cached \in BOOLEAN : Read(n, cached) \/ Assign(n, cached)
  \/ \E n \in Names : Declare(n) \/ \E depth \in DOMAIN stack : Fail(n, depth)
  \/ EnterBlock
  \/ \E body \in {"making", "binding", "bare"}, var \in LoopVars : EnterLoop(body, var)
  \/ NextPass
  \/ Leave
  \/ \E c \in DOMAIN closures, fast \in BOOLEAN : Call(c, fast)
  \/ \E kind \in {"fn", "record"}, d \in Inner : Capture(kind, d)
  \/ \E c \in DOMAIN closures, n \in Names : Check(c, n)

Spec == Init /\ [][Next]_vars

-----------------------------------------------------------------------------
(* Properties.                                                             *)

(* A warm inline cache holds the slot a walk from its scope would find,    *)
(* however many frames were reused and loop scopes cleared since.          *)
CachesFresh ==
  \A n \in Names : cache[n] # Cold => slot(cache[n].env, n) = cache[n].slot

(* What a function value or a record type sees through the scope it kept   *)
(* is what the scope it was made in holds: no later call or pass writes    *)
(* over it.                                                                *)
HeldScopesKept ==
  \A c \in DOMAIN closures, n \in Names :
    Value(slot(closures[c].env, n)) = L!Seen(closures[c].scope, n)

(* Every read, through a cache or not, answers what lexical scoping says.  *)
LexicalScoping == L!Spec
=============================================================================
