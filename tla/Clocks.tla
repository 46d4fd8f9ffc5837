-------------------------------- MODULE Clocks --------------------------------
(***************************************************************************)
(* Logical clocks and their stamps (temporal.js), and what a snapshot and  *)
(* its restore make of them (snapshot.js).                                 *)
(*                                                                         *)
(* Messages and values take stamps along: a stamp may be merged or         *)
(* observed late, again and in any order.  A snapshot saves what each      *)
(* global holds by itself, so a clock that two share comes back as two;    *)
(* what it does not reach keeps the clock it had.                          *)
(***************************************************************************)
EXTENDS Naturals, Sequences

CONSTANTS
  Nodes,            \* what clocks are called, in their order as texts
  Holders, Locals,  \* variables, and those no snapshot reaches
  MaxEvents         \* bound

ClocksAssumption == Nodes \subseteq Nat /\ Locals \subseteq Holders

VARIABLES
  clocks,  \* the clock a variable holds: [node, counter, knows]
  alike,   \* the variables that hold the same one
  events,  \* every event stamped: [counter, node, past]
  kept,    \* the clocks of the last snapshot
  twice    \* history: nodes that had two clocks, or one that was set back

clockVars == <<clocks, alike, events, kept, twice>>

(* A clock knows the events it stamped or learned of, and all that came    *)
(* before them; the past of an event is what its clock knew.               *)
Clock(n) == [node |-> n, counter |-> 0, knows |-> {}]

(* Stamp.compare: the counter first, the node as the tiebreak.             *)
Before(s, t) == s.counter < t.counter \/ (s.counter = t.counter /\ s.node < t.node)

Later(i, j) == IF i >= j THEN i ELSE j

Init ==
  /\ clocks = <<>> /\ alike = <<>>
  /\ events = <<>>
  /\ kept = <<>>
  /\ twice = {}

Held == DOMAIN clocks
Stamped(n) == {e \in DOMAIN events : events[e].node = n}

(* Each variable of hs now holds the clock c, and no other does.           *)
Hold(hs, c) ==
  /\ clocks' = [g \in Held \cup hs |-> IF g \in hs THEN c ELSE clocks[g]]
  /\ alike' = [g \in Held \cup hs |-> IF g \in hs THEN hs ELSE alike[g] \ hs]

(* let h = clock(n)                                                        *)
New(h, n) ==
  /\ Hold({h}, Clock(n))
  /\ twice' = IF Stamped(n) # {} \/ (\E g \in Held : clocks[g].node = n)
                \/ (\E g \in DOMAIN kept : kept[g].node = n)
                THEN twice \cup {n} ELSE twice
  /\ UNCHANGED <<events, kept>>

(* let g = h                                                               *)
Share(h, g) ==
  /\ h \in Held
  /\ Hold(alike[h] \cup {g}, clocks[h])
  /\ UNCHANGED <<events, kept, twice>>

Stamp(h, counter, past) ==
  LET c == clocks[h]
  IN /\ Len(events) < MaxEvents
     /\ events' = Append(events, [counter |-> counter, node |-> c.node, past |-> past])
     /\ Hold(alike[h], [node |-> c.node, counter |-> counter, knows |-> past \cup {Len(events) + 1}])
     /\ UNCHANGED <<kept, twice>>

(* A local event.                                                          *)
tick(h) == h \in Held /\ Stamp(h, clocks[h].counter + 1, clocks[h].knows)

(* What a stamp tells of: its event and all that came before.              *)
Told(e) == events[e].past \cup {e}

(* Mutant: the receipt is no event of its own.                             *)
ReceivedOnly(h, e) == Later(clocks[h].counter, events[e].counter)
(* The receipt of a stamp, stamped in turn.                                *)
Received(h, e) == Later(clocks[h].counter, events[e].counter) + 1

merge(h, e) == h \in Held /\ Stamp(h, Received(h, e), clocks[h].knows \cup Told(e))

(* Learning of an event without stamping one.                              *)
Observed(h, e) == Later(clocks[h].counter, events[e].counter)

observe(h, e) ==
  /\ h \in Held
  /\ Hold(alike[h], [node |-> clocks[h].node, counter |-> Observed(h, e),
                      knows |-> clocks[h].knows \cup Told(e)])
  /\ UNCHANGED <<events, kept, twice>>

snapshot ==
  /\ kept' = [h \in Held \ Locals |-> clocks[h]]
  /\ UNCHANGED <<clocks, alike, events, twice>>

(* Every variable saved gets a clock of its own, at the saved counter.     *)
restore ==
  LET saved == DOMAIN kept
      Again(h) == \/ \E g \in saved \ {h} : kept[g].node = kept[h].node
                  \/ \E g \in Held \ saved : clocks[g].node = kept[h].node
                  \/ \E e \in Stamped(kept[h].node) : events[e].counter > kept[h].counter
  IN /\ clocks' = [h \in Held \cup saved |-> IF h \in saved THEN kept[h] ELSE clocks[h]]
     /\ alike' = [h \in Held \cup saved |-> IF h \in saved THEN {h} ELSE alike[h] \ saved]
     /\ twice' = twice \cup {kept[h].node : h \in {g \in saved : Again(g)}}
     /\ UNCHANGED <<events, kept>>

Next ==
  \/ \E h \in Holders, n \in Nodes : New(h, n)
  \/ \E h, g \in Holders : Share(h, g)
  \/ \E h \in Holders : tick(h)
  \/ \E h \in Holders, e \in DOMAIN events : merge(h, e) \/ observe(h, e)
  \/ snapshot
  \/ restore

Spec == Init /\ [][Next]_clockVars

-----------------------------------------------------------------------------
(* Properties.                                                             *)

(* What an event could have known of comes before it, whichever clocks     *)
(* were shared, saved and set back.                                        *)
CausesFirst ==
  \A f \in DOMAIN events : \A e \in events[f].past : Before(events[e], events[f])

(* The events of a node come in the order in which they happened, and so   *)
(* have stamps of their own, unless two clocks went by that name.          *)
NodesInOrder ==
  \A e, f \in DOMAIN events :
    e < f /\ events[e].node = events[f].node /\ events[e].node \notin twice =>
      e \in events[f].past /\ Before(events[e], events[f])
=============================================================================
