------------------------------ MODULE Snapshots ------------------------------
(***************************************************************************)
(* Moving a program's state: snapshot, restore and the agents they replace  *)
(* (snapshot.js, builtins.js, agents.js).                                  *)
(*                                                                         *)
(* An agent travels by its number, everything else by value; code does not *)
(* travel, and a function inside a list arrives as nil.  restore replaces  *)
(* the agents first, then fills them in, then the globals, then the        *)
(* counters, and may fail at any of these.  It may be called by a handler, *)
(* that is, under a scheduler loop that goes through the agents there were.*)
(***************************************************************************)
EXTENDS Naturals, Sequences, TLC, SequencesExt, FiniteSetsExt

CONSTANTS
  Globals, Templates,
  MaxMade, MaxIds, MaxMail  \* bounds

VARIABLES
  known,    \* the templates the program has at its top level
  made,     \* every agent made: [id, template, mail]; its state travels as its mail does
  agents,   \* the scheduler's agents, in order
  nextId,   \* stands for all the counters, logical time and random stream included
  globals,  \* name -> value, of the globals there are
  saved,    \* the snapshot, <<>> before there is one
  loop,     \* the scheduler loop, <<>> when there is none
  torn      \* history: a restore failed on its way here, or before the snapshot restored

snapVars == <<known, made, agents, nextId, globals, saved, loop, torn>>

Plain(k) == [kind |-> k, of |-> 0]
Ref(a) == [kind |-> "ref", of |-> a]
Values == {Plain("list of functions")} \cup {Ref(a) : a \in DOMAIN made}
Running == loop = <<>> \/ (loop # <<>> /\ loop.handling # 0)

Init ==
  /\ known \in SUBSET Templates
  /\ made = <<>> /\ agents = <<>> /\ nextId = 1
  /\ globals = <<>>
  /\ saved = <<>>
  /\ loop = <<>>
  /\ torn = FALSE

-----------------------------------------------------------------------------
(* The program.  Stopping an agent is left to Agents.                      *)

Assign(n, v) ==
  /\ Running
  /\ globals' = (n :> v) @@ globals
  /\ UNCHANGED <<known, made, agents, nextId, saved, loop, torn>>

Agent(id, t) == [id |-> id, template |-> t, mail |-> <<>>]

Spawn(n, t) ==
  /\ Running /\ Len(made) < MaxMade /\ nextId < MaxIds
  /\ made' = Append(made, Agent(nextId, t))
  /\ agents' = Append(agents, Len(made'))
  /\ nextId' = nextId + 1
  /\ globals' = (n :> Ref(Len(made'))) @@ globals
  /\ UNCHANGED <<known, saved, loop, torn>>

Send(a, v) ==
  /\ Running /\ Len(made[a].mail) < MaxMail
  /\ made' = [made EXCEPT ![a].mail = Append(@, v)]
  /\ UNCHANGED <<known, agents, nextId, globals, saved, loop, torn>>

(* The snapshot is taken to another process, whose program may differ.     *)
Migrate(templates) ==
  /\ saved # <<>> /\ loop = <<>>
  /\ known' = templates
  /\ made' = <<>> /\ agents' = <<>> /\ nextId' = 1
  /\ globals' = <<>>
  /\ loop' = <<>> /\ torn' = FALSE
  /\ UNCHANGED saved

-----------------------------------------------------------------------------
(* run_agents.  A pass goes through the array there was when it began.     *)

RunAgents ==
  /\ loop = <<>>
  /\ loop' = [pass |-> agents, at |-> 1, progressed |-> FALSE, handling |-> 0]
  /\ UNCHANGED <<known, made, agents, nextId, globals, saved, torn>>

Between == loop # <<>> /\ loop.handling = 0

Deliver ==
  /\ Between /\ loop.at <= Len(loop.pass)
  /\ LET a == loop.pass[loop.at]
     IN IF made[a].mail = <<>>
          THEN loop' = [loop EXCEPT !.at = @ + 1] /\ UNCHANGED made
          ELSE /\ made' = [made EXCEPT ![a].mail = Tail(@)]
               /\ loop' = [loop EXCEPT !.handling = a]
  /\ UNCHANGED <<known, agents, nextId, globals, saved, torn>>

HandlerReturns ==
  /\ loop # <<>> /\ loop.handling # 0
  /\ loop' = [loop EXCEPT !.handling = 0, !.at = @ + 1, !.progressed = TRUE]
  /\ UNCHANGED <<known, made, agents, nextId, globals, saved, torn>>

HandlerFails ==
  /\ loop # <<>> /\ loop.handling # 0
  /\ loop' = <<>>
  /\ UNCHANGED <<known, made, agents, nextId, globals, saved, torn>>

(* Mutant: every pass goes through the agents of the first.                *)
PassAgain == loop.pass
NextPass == agents

EndPass ==
  /\ Between /\ loop.at > Len(loop.pass) /\ loop.progressed
  /\ loop' = [pass |-> NextPass, at |-> 1, progressed |-> FALSE, handling |-> 0]
  /\ UNCHANGED <<known, made, agents, nextId, globals, saved, torn>>

Settle ==
  /\ Between /\ loop.at > Len(loop.pass) /\ ~loop.progressed
  /\ loop' = <<>>
  /\ UNCHANGED <<known, made, agents, nextId, globals, saved, torn>>

-----------------------------------------------------------------------------
(* snapshot.                                                               *)

encode(v, all) ==
  IF v.kind = "ref" THEN [kind |-> "ref", of |-> all[v.of].id]
  ELSE IF v.kind = "list of functions" THEN Plain("list of nils") ELSE v

encoded(values, all) == [i \in DOMAIN values |-> encode(values[i], all)]

Snapshot(all, list, next, names) ==
  [globals |-> encoded(names, all),
   agents |-> [i \in DOMAIN list |->
                 [all[list[i]] EXCEPT !.mail = encoded(@, all)]],
   nextId |-> next, torn |-> torn]

Save ==
  /\ Running
  /\ saved' = Snapshot(made, agents, nextId, globals)
  /\ UNCHANGED <<known, made, agents, nextId, globals, loop, torn>>

-----------------------------------------------------------------------------
(* restore.                                                                *)

Arrived(i) == Len(made) + i                     \* what becomes of the i-th agent saved

(* Two agents of one number: references find the second, which also gets   *)
(* the mail of both.                                                       *)
ById(id) == {i \in DOMAIN saved.agents : saved.agents[i].id = id}
Found(v) == v.kind # "ref" \/ ById(v.of) # {}
decode(v) == IF v.kind = "ref" THEN Ref(Arrived(Max(ById(v.of)))) ELSE v

Shell(s) == Agent(s.id, s.template)
Whole(s) == \A m \in DOMAIN s.mail : Found(s.mail[m])
Filled(shell, s) == [shell EXCEPT !.mail = [m \in DOMAIN s.mail |-> decode(s.mail[m])]]

(* The first n agents saved, of which the first few are filled in.         *)
Restored(n, few) ==
  made \o [i \in 1 .. n |->
    LET shell == Shell(saved.agents[i])
        fillers == {j \in ById(saved.agents[i].id) : j <= few}
    IN IF i = Max(ById(saved.agents[i].id)) /\ fillers # {}
         THEN Filled(shell, saved.agents[Max(fillers)]) ELSE shell]

Numbers(n) == [i \in 1 .. n |-> Arrived(i)]

(* A template the program does not have: the agents before it are there,   *)
(* with no state and no mail.                                              *)
RestoreWithoutTemplate ==
  LET missing == {i \in DOMAIN saved.agents : saved.agents[i].template \notin known}
  IN /\ missing # {}
     /\ made' = Restored(Min(missing) - 1, 0)
     /\ agents' = Numbers(Min(missing) - 1)
     /\ torn' = TRUE
     /\ UNCHANGED <<nextId, globals>>

(* A reference to an agent that is not in the snapshot: those before are   *)
(* filled in, and the globals before it are set.                           *)
RestoreDangling ==
  LET broken == {i \in DOMAIN saved.agents : ~Whole(saved.agents[i])}
      lost == {n \in DOMAIN saved.globals : ~Found(saved.globals[n])}
      count == Len(saved.agents)
  IN /\ \A i \in DOMAIN saved.agents : saved.agents[i].template \in known
     /\ agents' = Numbers(count)
     /\ torn' = TRUE
     /\ \/ /\ broken # {}
           /\ made' = Restored(count, Min(broken) - 1)
           /\ UNCHANGED globals
        \/ /\ broken = {} /\ lost # {}
           /\ made' = Restored(count, count)
           /\ \E before \in SUBSET (DOMAIN saved.globals \ lost) :
                globals' = [n \in before |-> decode(saved.globals[n])] @@ globals
     /\ UNCHANGED nextId

(* Mutant: the numbers go on from where this program was.                  *)
nextIdKept == nextId
nextIdRestored == saved.nextId

RestoreAll ==
  /\ \A i \in DOMAIN saved.agents : saved.agents[i].template \in known /\ Whole(saved.agents[i])
  /\ \A n \in DOMAIN saved.globals : Found(saved.globals[n])
  /\ made' = Restored(Len(saved.agents), Len(saved.agents))
  /\ agents' = Numbers(Len(saved.agents))
  /\ globals' = [n \in DOMAIN saved.globals |-> decode(saved.globals[n])] @@ globals
  /\ nextId' = nextIdRestored
  /\ torn' = saved.torn

Restore ==
  /\ Running /\ saved # <<>>
  /\ Len(made) + Len(saved.agents) <= MaxMade
  /\ RestoreWithoutTemplate \/ RestoreDangling \/ RestoreAll
  /\ UNCHANGED <<known, saved, loop>>

Next ==
  \/ \E n \in Globals, v \in Values : Assign(n, v)
  \/ \E n \in Globals, t \in Templates : Spawn(n, t)
  \/ \E a \in DOMAIN made, v \in Values : Send(a, v)
  \/ RunAgents \/ Deliver \/ HandlerReturns \/ HandlerFails \/ EndPass \/ Settle
  \/ Save
  \/ Restore
  \/ \E templates \in SUBSET Templates : Migrate(templates)

Spec == Init /\ [][Next]_snapVars

-----------------------------------------------------------------------------
(* Properties.                                                             *)

Distinct(list) == \A i, j \in DOMAIN list : list[i].id = list[j].id => i = j

(* Agents have numbers of their own, all below the next one, in whatever   *)
(* order the program spawns, saves, migrates and restores; a restore that  *)
(* failed half-way is what may give one number to two agents.              *)
NumbersAreOwn ==
  LET list == [i \in DOMAIN agents |-> made[agents[i]]]
  IN ~torn => Distinct(list) /\ \A i \in DOMAIN list : list[i].id < nextId

(* When run_agents comes back, no agent the scheduler has then is waiting  *)
(* with mail, although handlers have replaced the agents under it.         *)
DrainedAcrossRestores ==
  [][Settle => \A i \in DOMAIN agents : made[agents[i]].mail = <<>>]_snapVars
=============================================================================
