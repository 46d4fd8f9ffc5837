------------------------------- MODULE Versions -------------------------------
(***************************************************************************)
(* Self-modification: redefine, the trial of a replacement, rollback, the  *)
(* versions kept by name and the call graph that tells what a rewrite      *)
(* affects (interpreter.js, graph.js).                                     *)
(*                                                                         *)
(* The replacement is installed before it is put on trial, so its own body *)
(* runs, and may redefine and roll back in turn; versions and call graph   *)
(* know names only, and a block may hold another function of that name.    *)
(***************************************************************************)
EXTENDS Naturals, Sequences, FiniteSets, SequencesExt

CONSTANTS
  Names,        \* names of functions
  Promises,     \* clauses of contracts
  Caps,         \* capabilities
  Written,      \* the functions that may be written: [promises, needs, callees],
                \* sets of Promises, of Caps and of Names
  MaxMade, MaxTrials, MaxHistory \* bounds

VersionsAssumption ==
  /\ IsFiniteSet(Names)
  /\ Written \subseteq [promises : SUBSET Promises, needs : SUBSET Caps, callees : SUBSET Names]

VARIABLES
  made,         \* every function version: [promises, needs, callees]
  slots,        \* what each name means: [globals, block]
  inBlock,      \* whether a block is open
  trials,       \* the replacements on trial, innermost last
  versions,     \* per name, its versions as redefine recorded them
  graph,        \* per name, the names its body calls
  affected,     \* what the last redefine reported
  disturbed     \* history: names whose slot and record were moved apart

vars == <<made, slots, inBlock, trials, versions, graph, affected, disturbed>>

Report(n, names) == [name |-> n, names |-> names]
Idle == Report("none", {})

(* Where a name is found.  A replacement on trial runs in a frame over the *)
(* globals.                                                                *)
Place(n) == IF inBlock /\ trials = <<>> /\ n \in DOMAIN slots.block THEN "block" ELSE "globals"
Bound(n) == n \in DOMAIN slots[Place(n)]
Current(n) == slots[Place(n)][n]
With(f, n, x) == [m \in DOMAIN f \cup {n} |-> IF m = n THEN x ELSE f[m]]
Set(place, n, v) == [slots EXCEPT ![place] = With(@, n, v)]

Recorded(n) == n \in DOMAIN versions
OnTrial == {trials[i].name : i \in DOMAIN trials}

-----------------------------------------------------------------------------
(* CallGraph.dependents: callers of callers, by a worklist.                *)
callers(edges, n) == {m \in DOMAIN edges : n \in edges[m]}

dependents(edges, n) ==
  LET reach[k \in Nat] ==
        IF k = 0 THEN callers(edges, n)
        ELSE reach[k - 1] \cup UNION {callers(edges, m) : m \in reach[k - 1]}
  IN reach[Cardinality(DOMAIN edges)]

Init ==
  /\ made = <<>>
  /\ slots = [globals |-> <<>>, block |-> <<>>]
  /\ inBlock = FALSE
  /\ trials = <<>>
  /\ versions = <<>>
  /\ graph = <<>>
  /\ affected = Idle
  /\ disturbed = {}

Make(v) == Len(made) < MaxMade /\ made' = Append(made, v)

(* A function declaration.  At the prompt a global may be declared again,  *)
(* which leaves the versions recorded under its name as they are.          *)
Declare(n, v) ==
  LET place == IF inBlock THEN "block" ELSE "globals"
  IN /\ trials = <<>>
     /\ inBlock => n \notin DOMAIN slots.block
     /\ Make(v)
     /\ slots' = Set(place, n, Len(made'))
     /\ graph' = With(graph, n, v.callees)
     /\ disturbed' = IF inBlock \/ Recorded(n) THEN disturbed \cup {n} ELSE disturbed
     /\ affected' = Idle
     /\ UNCHANGED <<inBlock, trials, versions>>

EnterBlock ==
  /\ ~inBlock /\ trials = <<>>
  /\ inBlock' = TRUE
  /\ slots' = [slots EXCEPT !.block = <<>>]
  /\ affected' = Idle
  /\ UNCHANGED <<made, trials, versions, graph, disturbed>>

LeaveBlock ==
  /\ inBlock /\ trials = <<>>
  /\ inBlock' = FALSE
  /\ slots' = [slots EXCEPT !.block = <<>>]
  /\ affected' = Idle
  /\ UNCHANGED <<made, trials, versions, graph, disturbed>>

(* What is recorded once a replacement is live.                            *)
Record(n, previous, candidate) ==
  LET history == IF Recorded(n) THEN versions[n] ELSE <<previous>>
      edges == With(graph, n, made'[candidate].callees)
  IN /\ Len(history) < MaxHistory
     /\ versions' = With(versions, n, Append(history, candidate))
     /\ graph' = edges
     /\ affected' = Report(n, dependents(edges, n))

(* The replacement: the same shape, no capability its predecessor lacked,  *)
(* its predecessor's promises and its own.  Without any promise it is live *)
(* at once.                                                                *)
Redefine(n, v) ==
  LET previous == Current(n)
      merged == [v EXCEPT !.promises = @ \cup made[previous].promises]
  IN /\ Bound(n)
     /\ v.needs \subseteq made[previous].needs
     /\ Make(merged)
     /\ slots' = Set(Place(n), n, Len(made'))
     /\ disturbed' = IF Place(n) = "block" \/ n \in OnTrial THEN disturbed \cup {n} ELSE disturbed
     /\ \/ /\ merged.promises # {} /\ Len(trials) < MaxTrials
           /\ trials' = Append(trials, [name |-> n, place |-> Place(n),
                                        previous |-> previous, candidate |-> Len(made')])
           /\ affected' = Idle
           /\ UNCHANGED <<versions, graph>>
        \/ /\ merged.promises = {}
           /\ Record(n, previous, Len(made'))
           /\ UNCHANGED trials
     /\ UNCHANGED inBlock

TrialPasses ==
  LET t == Last(trials)
  IN /\ trials # <<>>
     /\ trials' = Front(trials)
     /\ UNCHANGED <<made, slots, inBlock, disturbed>>
     /\ Record(t.name, t.previous, t.candidate)

(* Mutant: the replacement stays when its trial fails.                     *)
RestoredNot(t) == slots

(* A promise broken, a crash, or a budget's stop going through.            *)
Restored(t) == Set(t.place, t.name, t.previous)

TrialFails ==
  LET t == Last(trials)
  IN /\ trials # <<>>
     /\ trials' = Front(trials)
     /\ slots' = Restored(t)
     /\ affected' = Idle
     /\ UNCHANGED <<made, inBlock, versions, graph, disturbed>>

(* The version recorded before; the record is shortened first, and the     *)
(* name may mean nothing here.                                             *)
Rollback(n) ==
  /\ Recorded(n) /\ Len(versions[n]) >= 2
  /\ versions' = [versions EXCEPT ![n] = Front(@)]
  /\ IF Bound(n)
       THEN /\ slots' = Set(Place(n), n, Last(versions'[n]))
            /\ graph' = With(graph, n, made[Last(versions'[n])].callees)
       ELSE UNCHANGED <<slots, graph>>
  /\ disturbed' = IF Place(n) = "block" \/ n \in OnTrial \/ ~Bound(n)
                  THEN disturbed \cup {n} ELSE disturbed
  /\ affected' = Idle
  /\ UNCHANGED <<made, inBlock, trials>>

Next ==
  \/ \E n \in Names, v \in Written : Declare(n, v) \/ Redefine(n, v)
  \/ EnterBlock
  \/ LeaveBlock
  \/ TrialPasses
  \/ TrialFails
  \/ \E n \in Names : Rollback(n)

Spec == Init /\ [][Next]_vars

-----------------------------------------------------------------------------
(* Properties.                                                             *)

Settled(n) == n \notin disturbed \cup OnTrial /\ n \in DOMAIN slots.globals

Calls(n, m) == m \in made[slots.globals[n]].callees

(* What redefine reported: every function from which some chain of calls   *)
(* leads to the one it replaced, and nothing else.                         *)
AffectedAreCallers ==
  affected # Idle /\ disturbed \cup OnTrial = {} =>
    affected.names = {m \in DOMAIN slots.globals :
      \E k \in 1 .. Cardinality(Names) : \E path \in [0 .. k -> DOMAIN slots.globals] :
        path[0] = m /\ path[k] = affected.name /\ \A i \in 1 .. k : Calls(path[i - 1], path[i])}

(* The last version recorded is the one that is live, each recorded        *)
(* version promises what the one before promised and needs no more, and    *)
(* the call graph has the live version's calls, unless the name was        *)
(* declared again, or moved from a block or from its own trial; and the    *)
(* affected functions reported are the callers, near and far.              *)
RecordsTell ==
  /\ AffectedAreCallers
  /\ \A n \in Names : Settled(n) =>
       /\ graph[n] = made[slots.globals[n]].callees
       /\ Recorded(n) =>
            /\ Last(versions[n]) = slots.globals[n]
            /\ \A i \in 1 .. Len(versions[n]) - 1 :
                 /\ made[versions[n][i]].promises \subseteq made[versions[n][i + 1]].promises
                 /\ made[versions[n][i + 1]].needs \subseteq made[versions[n][i]].needs
=============================================================================
