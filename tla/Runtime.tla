-------------------------------- MODULE Runtime --------------------------------
(***************************************************************************)
(* Parts of the runtime that share no state, side by side: which one is    *)
(* explored is chosen at first, and the others rest.                       *)
(***************************************************************************)
EXTENDS Integers, Sequences

CONSTANTS
  Names, Promises, Caps, Written, MaxVersions, MaxTrials, MaxHistory,
  Arenas, Keys, ArenaBudget, Tensors, Directories, Missing, Rows, CacheRows,
  Pieces, WindowBudget, MaxPushes,
  GlobalNames, Templates, MaxMade, MaxIds, MaxMail,
  Disk, Sources, MaxRuns, MaxEdits,
  Units, Requests, Amounts, TrialLimit, MaxDepth, MaxSteps,
  Nodes, Holders, Locals, MaxEvents

VARIABLES
  part,
  versionsMade, slots, inBlock, trials, versions, graph, affected, disturbed,
  where, held, recency, files, misread, wrote, cache, asked, open, window, policy, pushes,
  known, made, agents, nextId, globals, saved, loop, torn,
  disk, allowRedeclare, frames, failing, moduleLoading, moduleCache, moduleGlobals, loads, runs, edits,
  blocks, raised, steps, stepLimit, tickCheck, memoryFlag, work,
  clocks, alike, events, kept, twice

V == INSTANCE Versions WITH made <- versionsMade, MaxMade <- MaxVersions
T == INSTANCE Stores WITH None <- Missing
S == INSTANCE Snapshots WITH Globals <- GlobalNames
M == INSTANCE Modules WITH None <- Missing, globals <- moduleGlobals
B == INSTANCE Budgets
C == INSTANCE Clocks

ASSUME RuntimeAssumption ==
  B!BudgetsAssumption /\ T!StoresAssumption /\ V!VersionsAssumption /\ C!ClocksAssumption

versionVars == <<versionsMade, slots, inBlock, trials, versions, graph, affected, disturbed>>
storeVars == <<where, held, recency, files, misread, wrote, cache, asked, open, window, policy, pushes>>
snapVars == <<known, made, agents, nextId, globals, saved, loop, torn>>
moduleVars == <<disk, allowRedeclare, frames, failing, moduleLoading, moduleCache, moduleGlobals, loads, runs, edits>>
budgetVars == <<blocks, raised, steps, stepLimit, tickCheck, memoryFlag, work>>
clockVars == <<clocks, alike, events, kept, twice>>
stateVars == <<versionVars, storeVars, snapVars, moduleVars, budgetVars, clockVars>>

Parts == {"versions", "arenas", "weights", "window", "snapshots", "modules", "budgets", "clocks"}

PartsInit == V!Init /\ T!Init /\ S!Init /\ M!Init /\ B!Init /\ C!Init

Init == part \in Parts /\ PartsInit

Next ==
  /\ UNCHANGED part
  /\ \/ part = "versions" /\ V!Next /\ UNCHANGED <<storeVars, snapVars, moduleVars, budgetVars, clockVars>>
     \/ part = "arenas" /\ T!ArenaNext /\ UNCHANGED <<versionVars, snapVars, moduleVars, budgetVars, clockVars>>
     \/ part = "weights" /\ T!WeightsNext /\ UNCHANGED <<versionVars, snapVars, moduleVars, budgetVars, clockVars>>
     \/ part = "window" /\ T!WindowNext /\ UNCHANGED <<versionVars, snapVars, moduleVars, budgetVars, clockVars>>
     \/ part = "snapshots" /\ S!Next /\ UNCHANGED <<versionVars, storeVars, moduleVars, budgetVars, clockVars>>
     \/ part = "modules" /\ M!Next /\ UNCHANGED <<versionVars, storeVars, snapVars, budgetVars, clockVars>>
     \/ part = "budgets" /\ B!Next /\ UNCHANGED <<versionVars, storeVars, snapVars, moduleVars, clockVars>>
     \/ part = "clocks" /\ C!Next /\ UNCHANGED <<versionVars, storeVars, snapVars, moduleVars, budgetVars>>

Spec == Init /\ [][Next]_<<part, stateVars>>

-----------------------------------------------------------------------------
(* Properties, each of one part.                                           *)

(* The records of redefine and the call graph tell what is live.           *)
RecordsTell == part = "versions" => V!RecordsTell
(* Arenas give back what they were given; stores keep within their room.   *)
StoresKeepFaith == part \in {"arenas", "weights", "window"} => T!HeldComesBack /\ T!StoresWithin
(* A context window lets go of its oldest texts first.                     *)
OldestGoes == T!OldestGoes
(* Agents have numbers of their own across snapshots and restores.         *)
NumbersAreOwn == part = "snapshots" => S!NumbersAreOwn
(* run_agents leaves no mail behind, although restores replace the agents. *)
DrainedAcrossRestores == S!DrainedAcrossRestores
(* One source is one module with one instance.                             *)
OneInstance == part = "modules" => M!OneInstance
(* The compiled engine's cached limits are never stale.                    *)
LimitsFresh == part = "budgets" => B!LimitsFresh
(* No block and no trial runs past its limit.                              *)
WithinBudget == part = "budgets" => B!WithinBudget
(* Nothing but its own block ends a budget's stop.                         *)
StopsNotCaught == B!StopsNotCaught
(* Stamps agree with what was known and with the order of their node.      *)
StampsInOrder == part = "clocks" => C!CausesFirst /\ C!NodesInOrder
=============================================================================
