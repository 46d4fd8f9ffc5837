------------------------------- MODULE Agents -------------------------------
(***************************************************************************)
(* Agents: private state, mailboxes, and the round-robin scheduler.        *)
(*                                                                         *)
(* `run_agents` walks the agents in spawn order, pass after pass, and      *)
(* delivers one message to each that has one, until a whole pass finds     *)
(* nothing or a ceiling is reached.  Delivering is running the agent's     *)
(* handler, and a handler is ordinary code: it may send, spawn, stop an    *)
(* agent, call `run_agents` itself, or fail.  So scheduler loops nest, and *)
(* each picks up, in the middle of its pass, whatever the inner ones left. *)
(*                                                                         *)
(* A mailbox is the number of messages in it.  What code may assign to is  *)
(* decided by the scopes the assignment is made from: an agent's handlers  *)
(* see the agent's state and the globals beyond it, the program's own      *)
(* functions see the globals only.                                         *)
(***************************************************************************)
EXTENDS Naturals, Sequences, SequencesExt

CONSTANTS
  MaxAgents,    \* bound: agents spawned
  MaxMail,      \* bound: messages in a mailbox
  MaxNested,    \* bound: scheduler loops open at once
  Ceilings      \* the message ceilings `run_agents` is given

ASSUME AgentsAssumption ==
  /\ MaxAgents \in Nat /\ MaxMail \in Nat /\ MaxNested \in Nat
  /\ Ceilings \subseteq Nat

VARIABLES
  mail,        \* for each agent, in spawn order, how many messages it has
  stopped,     \* the agents that were stopped
  runs,        \* the open scheduler loops, innermost last
  assigned,    \* the assignment the last step made, if it did: the scope it
               \* went to and the code it was written in
  ending,      \* how the last step ended a scheduler loop, if it did
  \* history
  owed         \* for each loop and each agent it served, the agents that had
               \* mail then and have not been served, emptied or stopped since

vars == <<mail, stopped, runs, assigned, ending, owed>>

-----------------------------------------------------------------------------
Agents  == 1 .. Len(mail)
Globals == 0
Scopes  == {Globals} \cup 1 .. MaxAgents

Top == Last(runs)

(* The agent whose handler is running, 0 at the top level: currentAgent,   *)
(* and the owner of agentBoundary.                                         *)
Current == IF runs = <<>> THEN 0 ELSE Top.handling

(* User code runs at the top level and inside handlers.                    *)
Running == runs = <<>> \/ Current # 0

Ready(a) == a \notin stopped /\ mail[a] > 0

(* The agents the rest of this pass would deliver to.                      *)
RestOfPass == {a \in Agents : a >= Top.at /\ Ready(a)}

ReplaceTop(r) == Append(Front(runs), r)

(* History: b is served, so no loop owes it anything.                      *)
Forgive(o, b) == [d \in DOMAIN o |-> [a \in DOMAIN o[d] |-> o[d][a] \ {b}]]

(* Where an assignment is written: in the code of the handler itself, or   *)
(* in one of the program's functions, which the handler is calling.        *)
Places == {"handler", "function"}

NoAssignment == [scope |-> Globals, by |-> "nobody"]

Init ==
  /\ mail = <<>> /\ stopped = {}
  /\ runs = <<>>
  /\ assigned = NoAssignment
  /\ ending = "none"
  /\ owed = <<>>

(* A step that neither assigns nor ends a loop; one that ends a loop.      *)
Ends(how) == ending' = how /\ assigned' = NoAssignment
Quiet     == Ends("none")

-----------------------------------------------------------------------------
(* What user code may do. *)

Spawn ==
  /\ Running /\ Len(mail) < MaxAgents
  /\ mail' = Append(mail, 0)
  /\ owed' = [d \in DOMAIN owed |-> [a \in Agents \cup {Len(mail) + 1} |->
                IF a \in Agents THEN owed[d][a] ELSE {}]]
  /\ Quiet
  /\ UNCHANGED <<stopped, runs>>

(* send(a, ...) to an agent that was stopped returns false.                *)
Send(a) ==
  /\ Running /\ a \in Agents /\ mail[a] < MaxMail
  /\ mail' = IF a \in stopped THEN mail ELSE [mail EXCEPT ![a] = @ + 1]
  /\ Quiet
  /\ UNCHANGED <<stopped, runs, owed>>

(* a.stop(): what is in its mailbox stays there.                           *)
Stop(a) ==
  /\ Running /\ a \in Agents
  /\ stopped' = stopped \cup {a}
  /\ owed' = Forgive(owed, a)
  /\ Quiet
  /\ UNCHANGED <<mail, runs>>

(* The scopes seen from there, from the inside out: a handler sees its own *)
(* agent's state and the globals beyond it, a function the globals alone.  *)
Chain(place) == IF Current = 0 \/ place = "function" THEN <<Globals>>
                ELSE <<Current, Globals>>

(* Mutant: the walk outwards has no boundary.                              *)
MayAssignAnywhere(s, place) == \E i \in 1 .. Len(Chain(place)) : Chain(place)[i] = s

(* checkAgentWrite: the walk outwards reaches the scope that owns the name *)
(* before it has passed the running agent's state.                         *)
MayAssign(s, place) ==
  \E i \in 1 .. Len(Chain(place)) :
    /\ Chain(place)[i] = s
    /\ Current # 0 => \A j \in 1 .. i - 1 : Chain(place)[j] # Current

Assign(s, place) ==
  /\ Running /\ MayAssign(s, place)
  /\ assigned' = [scope |-> s, by |-> place]
  /\ ending' = "none"
  /\ UNCHANGED <<mail, stopped, runs, owed>>

RunAgents(ceiling) ==
  /\ Running /\ Len(runs) < MaxNested
  /\ runs' = Append(runs, [at |-> 1, progressed |-> FALSE, processed |-> 0,
                           ceiling |-> ceiling, handling |-> 0])
  /\ owed' = Append(owed, [a \in Agents |-> {}])
  /\ Quiet
  /\ UNCHANGED <<mail, stopped>>

-----------------------------------------------------------------------------
(* The scheduler. *)

AgentReady(a) == /\ runs # <<>> /\ Top.handling = 0
                 /\ a \in RestOfPass

(* Mutant: a delivery goes to any agent with mail.                         *)
NextUpAny(a) == AgentReady(a)

(* The pass goes on to the next agent with mail.                           *)
NextUp(a) == AgentReady(a) /\ \A b \in RestOfPass : a <= b

(* One message is taken off a's mailbox and its handler entered.           *)
Deliver(a) ==
  /\ a \in Agents /\ NextUp(a)
  /\ mail' = [mail EXCEPT ![a] = @ - 1]
  /\ runs' = ReplaceTop([Top EXCEPT !.handling = a, !.at = a])
  /\ owed' = LET o == Forgive(owed, a)
                 waiting == {b \in Agents \ {a} : Ready(b)}
             IN [o EXCEPT ![Len(o)][a] = waiting]
  /\ Quiet
  /\ UNCHANGED <<stopped>>

(* Mutant: the ceiling is looked at only when a pass begins.               *)
HandlerReturnsUncounted ==
  /\ runs # <<>> /\ Top.handling # 0
  /\ runs' = ReplaceTop([Top EXCEPT !.handling = 0, !.at = @ + 1, !.progressed = TRUE])
  /\ Quiet
  /\ UNCHANGED <<mail, stopped, owed>>

(* The handler is through: the delivery counts, and if that makes as many  *)
(* as the ceiling allows the loop fails.                                   *)
HandlerReturns ==
  /\ runs # <<>> /\ Top.handling # 0
  /\ IF Top.processed + 1 >= Top.ceiling
     THEN /\ runs' = Front(runs) /\ owed' = Front(owed)
          /\ Ends("ceiling")
     ELSE /\ runs' = ReplaceTop([Top EXCEPT !.handling = 0, !.at = @ + 1,
                                            !.progressed = TRUE, !.processed = @ + 1])
          /\ Quiet
          /\ UNCHANGED owed
  /\ UNCHANGED <<mail, stopped>>

(* The handler fails: the loop fails with it, and the message is gone.     *)
(* The code that called run_agents goes on if it rescues the failure, or   *)
(* fails in its turn.                                                      *)
HandlerFails ==
  /\ runs # <<>> /\ Top.handling # 0
  /\ runs' = Front(runs) /\ owed' = Front(owed)
  /\ Ends("failed")
  /\ UNCHANGED <<mail, stopped>>

(* The pass is over and something was delivered in it: there is another.   *)
NextPass ==
  /\ runs # <<>> /\ Top.handling = 0
  /\ RestOfPass = {} /\ Top.progressed
  /\ runs' = ReplaceTop([Top EXCEPT !.at = 1, !.progressed = FALSE])
  /\ Quiet
  /\ UNCHANGED <<mail, stopped, owed>>

(* Mutant: the end of a pass is the end of the loop.                       *)
SettleAfterOnePass ==
  /\ runs # <<>> /\ Top.handling = 0
  /\ RestOfPass = {}
  /\ runs' = Front(runs) /\ owed' = Front(owed)
  /\ Ends("settled")
  /\ UNCHANGED <<mail, stopped>>

(* A whole pass delivered nothing: run_agents returns.                     *)
Settle ==
  /\ runs # <<>> /\ Top.handling = 0
  /\ RestOfPass = {} /\ ~ Top.progressed
  /\ runs' = Front(runs) /\ owed' = Front(owed)
  /\ Ends("settled")
  /\ UNCHANGED <<mail, stopped>>

-----------------------------------------------------------------------------
Code ==
  \/ Spawn
  \/ \E a \in Agents : Send(a) \/ Stop(a)
  \/ \E s \in Scopes, place \in Places : Assign(s, place)
  \/ \E ceiling \in Ceilings : RunAgents(ceiling)

HandlerEnds == HandlerReturns \/ HandlerFails
Schedule    == (\E a \in Agents : Deliver(a)) \/ NextPass \/ Settle

Next == Code \/ Schedule \/ HandlerEnds

Spec == Init /\ [][Next]_vars

(* The scheduler loop is a loop of JavaScript: it does not stop between    *)
(* two deliveries.  That a handler ends is the program's part: at each     *)
(* level of nesting a handler gets to its end, however many sends, spawns  *)
(* and nested loops it makes on the way.                                   *)
Fairness ==
  /\ WF_vars(Schedule)
  /\ \A d \in 1 .. MaxNested : SF_vars(HandlerReturns /\ Len(runs) = d)

-----------------------------------------------------------------------------
(* "Delivery is round-robin ... That is fair": no loop serves an agent a   *)
(* second time while another has had mail ever since the first time and    *)
(* was served by nobody, whatever spawns, stops, failures and nested loops *)
(* come between.                                                           *)
RoundRobin ==
  [][\A a \in Agents :
       runs # <<>> /\ Top.handling = 0 /\ mail'[a] < mail[a] => Last(owed)[a] = {}]_vars

(* run_agents returns only when no agent that can still be delivered to    *)
(* has mail: mail sent backwards in the pass, by a handler or by a nested  *)
(* run, is never left behind.                                              *)
SettledMeansDrained == ending = "settled" => \A a \in Agents : ~ Ready(a)

(* A stopped agent's mailbox never changes again: nothing is queued for    *)
(* it, and no loop that was under way when it was stopped delivers to it.  *)
StoppedUntouched ==
  [][\A a \in stopped : a \in stopped' /\ mail'[a] = mail[a]]_vars

(* Whatever nests, fails and stops around it, the code of a handler itself *)
(* assigns to the state of its own agent and to nothing else, and the top  *)
(* level, back from any number of loops, to the globals.                   *)
HandlersKeepToThemselves == assigned.by = "handler" => assigned.scope = Current

(* A loop comes to an end, though agents may answer each other for ever:   *)
(* it settles, fails, or meets its ceiling.                                *)
LoopEnds == runs # <<>> ~> runs = <<>>
=============================================================================
