------------------------------ MODULE MCAgents ------------------------------
(* Agents on small instances; and, explored from a start of its own, the    *)
(* network client, the other part that waits for something to end.          *)
EXTENDS Agents

CONSTANTS Hosts, Allowed, MaxRequests

VARIABLES part, caller, asked, worker, memory, threads, handlers, shared, trace

N == INSTANCE NetClient

netVars == <<caller, asked, worker, memory, threads, handlers, shared, trace>>

MCInit ==
  /\ part \in {"agents", "net"}
  /\ Init /\ N!Init

MCNext ==
  /\ UNCHANGED part
  /\ \/ part = "agents" /\ Next /\ UNCHANGED netVars
     \/ part = "net" /\ N!Next /\ UNCHANGED vars

(* No scheduler loop is open while the client is explored, no request is   *)
(* under way while agents are: neither's fairness asks for a step then.    *)
MCSpec == MCInit /\ [][MCNext]_<<part, vars, netVars>> /\ Fairness /\ N!Fairness

(* A request comes to its own answer or to none.                           *)
OwnAnswer == N!OwnAnswer
(* A request returns.                                                      *)
RequestReturns == N!RequestReturns
=============================================================================
