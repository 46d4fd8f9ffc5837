------------------------------- MODULE Lexical -------------------------------
(***************************************************************************)
(* What the scopes of a program promise: a scope of its own for every      *)
(* block, every pass of a loop and every call, names found from the        *)
(* innermost scope outwards, and closures that keep the scope they were    *)
(* made in.  The tree-walker without pooled frames is this specification;  *)
(* Scopes shows that env.js with its borrowed arrays, reused frames and    *)
(* inline caches implements it.                                            *)
(***************************************************************************)
EXTENDS Naturals, Sequences, SequencesExt

CONSTANTS
  Names,
  Named,        \* declarations of functions made at the top level, a sequence
  Inner,        \* declarations of functions made inside blocks and bodies
  Params,       \* the parameters of each declaration
  Declared,     \* the names each kind of body declares
  LoopVars,     \* the variables of `for` loops; "none" stands for `while`
  Makers,       \* the declarations whose body makes closures
  RecordsInFrames, \* whether bodies that make no functions declare record types
  MaxScopes, MaxDepth, MaxClosures, MaxWrites \* bounds

Decls == ToSet(Named) \cup Inner

VARIABLES
  scopes,       \* every scope there has been: its parent, what it binds
  stack,        \* what is being executed, innermost last
  closures,     \* the function values and record types there are
  answer,       \* what the last read gave
  writes        \* how many writes there were: each write is told apart by its number

lexicalVars == <<scopes, stack, closures, answer, writes>>

Unbound == 0  \* no write has this number
Bound(v, mutable) == [value |-> v, mutable |-> mutable]
Entry(kind, scope, decl) ==
  [kind |-> kind, scope |-> scope, decl |-> decl, body |-> "binding", var |-> "none"]
Running == Last(stack)
Calls == Cardinality({d \in DOMAIN stack : stack[d].kind = "call"})

(* The scope that binds a name, seen from scope s; 0 when none does.       *)
Owner(s, n) ==
  LET owner[t \in 0 .. Len(scopes)] ==
        IF t = 0 THEN 0
        ELSE IF n \in DOMAIN scopes[t].vals THEN t ELSE owner[scopes[t].parent]
  IN owner[s]

Seen(s, n) ==
  IF Owner(s, n) = 0 THEN Unbound ELSE scopes[Owner(s, n)].vals[n].value

-----------------------------------------------------------------------------
Init ==
  /\ scopes = <<[parent |-> 0, vals |-> <<>>]>>
  /\ stack = <<Entry("top", 1, "none")>>
  /\ closures = [c \in DOMAIN Named |-> [kind |-> "fn", decl |-> Named[c], scope |-> 1]]
  /\ answer = Unbound
  /\ writes = 0

Write(count) == writes + count <= MaxWrites /\ writes' = writes + count
Newest == writes + 1

NewScope(parent, vals) ==
  /\ Len(scopes) < MaxScopes
  /\ scopes' = Append(scopes, [parent |-> parent, vals |-> vals])

With(f, n, x) == [m \in DOMAIN f \cup {n} |-> IF m = n THEN x ELSE f[m]]
Bind(s, n, b) == scopes' = [scopes EXCEPT ![s].vals = With(@, n, b)]

Read(n) ==
  /\ Owner(Running.scope, n) # 0
  /\ answer' = Seen(Running.scope, n)
  /\ UNCHANGED <<scopes, stack, closures, writes>>

(* Reading a name nothing binds fails, out to some `attempt` or the top.    *)
Fail(n, depth) ==
  /\ Owner(Running.scope, n) = 0
  /\ depth = 1 \/ depth < Len(stack)
  /\ stack' = SubSeq(stack, 1, depth)
  /\ answer' = Unbound
  /\ UNCHANGED <<scopes, closures, writes>>

(* A name is declared once in a scope, save at the prompt.                 *)
Body(entry) == IF entry.kind = "call" THEN entry.decl ELSE entry.kind

Declare(n) ==
  /\ n \in Declared[Body(Running)]
  /\ Running.body # "bare"
  /\ Running.kind = "top" \/ n \notin DOMAIN scopes[Running.scope].vals
  /\ Write(1)
  /\ Bind(Running.scope, n, Bound(Newest, TRUE))
  /\ answer' = Unbound
  /\ UNCHANGED <<stack, closures>>

Assign(n) ==
  LET s == Owner(Running.scope, n)
  IN /\ s # 0 /\ scopes[s].vals[n].mutable
     /\ Write(1)
     /\ Bind(s, n, Bound(Newest, TRUE))
     /\ answer' = Newest
     /\ UNCHANGED <<stack, closures>>

EnterBlock ==
  /\ Len(stack) < MaxDepth
  /\ NewScope(Running.scope, <<>>)
  /\ stack' = Append(stack, Entry("block", Len(scopes'), "none"))
  /\ answer' = Unbound
  /\ UNCHANGED <<closures, writes>>

(* Whether functions can be made here is fixed by the text of the program: *)
(* the bodies around, out to a function's or to the top, were seen to make *)
(* some.                                                                   *)
MakesClosures ==
  \E c \in DOMAIN stack :
    /\ stack[c].kind = "top" \/ (stack[c].kind = "call" /\ stack[c].decl \in Makers)
    /\ \A d \in c + 1 .. Len(stack) :
         stack[d].kind = "block" \/ (stack[d].kind = "loop" /\ stack[d].body = "making")

(* A loop's body makes closures, or declares names, or neither.            *)
PassVals(var) == IF var = "none" THEN <<>> ELSE [n \in {var} |-> Bound(Newest, FALSE)]
PassWrite(var) == Write(IF var = "none" THEN 0 ELSE 1)

EnterLoop(body, var) ==
  /\ Len(stack) < MaxDepth
  /\ body = "making" => MakesClosures
  /\ PassWrite(var)
  /\ NewScope(Running.scope, PassVals(var))
  /\ stack' = Append(stack, [kind |-> "loop", scope |-> Len(scopes'), decl |-> "none",
                             body |-> body, var |-> var])
  /\ answer' = Unbound
  /\ UNCHANGED closures

NextPass ==
  /\ Running.kind = "loop"
  /\ PassWrite(Running.var)
  /\ NewScope(scopes[Running.scope].parent, PassVals(Running.var))
  /\ stack' = [stack EXCEPT ![Len(stack)].scope = Len(scopes')]
  /\ answer' = Unbound
  /\ UNCHANGED closures

(* A block, a loop or a call ends, normally or not.                        *)
Leave ==
  /\ Len(stack) > 1
  /\ stack' = Front(stack)
  /\ answer' = Unbound
  /\ UNCHANGED <<scopes, closures, writes>>

Arguments(d) == [n \in ToSet(Params[d]) |-> 
                   Bound(writes + (CHOOSE i \in DOMAIN Params[d] : Params[d][i] = n), FALSE)]

Call(c) ==
  LET d == closures[c].decl
  IN /\ closures[c].kind = "fn"
     /\ Len(stack) < MaxDepth
     /\ Write(Len(Params[d]))
     /\ NewScope(closures[c].scope, Arguments(d))
     /\ stack' = Append(stack, Entry("call", Len(scopes'), d))
     /\ answer' = Unbound
     /\ UNCHANGED closures

Capture(kind, d) ==
  /\ Len(closures) < MaxClosures
  /\ MakesClosures \/ (kind = "record" /\ RecordsInFrames)
  /\ closures' = Append(closures, [kind |-> kind, decl |-> d, scope |-> Running.scope])
  /\ answer' = Unbound
  /\ UNCHANGED <<scopes, stack, writes>>

(* A record is built: its invariants are evaluated in the scope its type   *)
(* was declared in.                                                        *)
Check(c, n) ==
  /\ closures[c].kind = "record"
  /\ answer' = Seen(closures[c].scope, n)
  /\ UNCHANGED <<scopes, stack, closures, writes>>

Next ==
  \/ \E n \in Names : Read(n) \/ \E depth \in DOMAIN stack : Fail(n, depth)
  \/ \E n \in Names : Declare(n) \/ Assign(n)
  \/ EnterBlock
  \/ \E body \in {"making", "binding", "bare"}, var \in LoopVars : EnterLoop(body, var)
  \/ NextPass
  \/ Leave
  \/ \E c \in DOMAIN closures : Call(c)
  \/ \E kind \in {"fn", "record"}, d \in Inner : Capture(kind, d)
  \/ \E c \in DOMAIN closures, n \in Names : Check(c, n)

Spec == Init /\ [][Next]_lexicalVars
=============================================================================
