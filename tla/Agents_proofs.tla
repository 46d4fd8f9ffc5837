----------------------------- MODULE Agents_proofs -----------------------------
(***************************************************************************)
(* Proofs about Agents, for any number of agents, messages and nested      *)
(* scheduler loops, and any ceilings.                                      *)
(*                                                                         *)
(* That delivery is fair rests on where each loop stands.  When a loop     *)
(* serves a while b has mail, it owes b something; and as long as it does, *)
(* it stands between a and b, in the order in which it goes round: it can  *)
(* not get past b, who has mail, nor back to a without getting past b.     *)
(***************************************************************************)
EXTENDS MCAgents, SequenceTheorems, TLAPS

Loop == [at : Nat, progressed : BOOLEAN, processed : Nat, ceiling : Nat, handling : Nat]

(* The agent a loop looks at next, when the handler it runs is through.    *)
Upcoming(loop) == IF loop.handling = 0 THEN loop.at ELSE loop.at + 1

(* Going round from a, a loop that looks at i next comes to b before a.    *)
Between(a, b, i) == a # b /\ IF a < b THEN a < i /\ i <= b ELSE a < i \/ i <= b

TypeInv ==
  /\ mail \in Seq(Nat)
  /\ stopped \subseteq Agents
  /\ runs \in Seq(Loop)
  /\ owed \in Seq([Agents -> SUBSET Agents]) /\ Len(owed) = Len(runs)

(* A pass that has delivered nothing has only begun.                       *)
FreshPasses ==
  \A d \in 1 .. Len(runs) :
    runs[d].handling = 0 /\ ~ runs[d].progressed => runs[d].at = 1

(* Who is owed something has mail, and is next before who got something.   *)
OwedInTurn ==
  \A d \in 1 .. Len(runs) : \A a \in Agents : \A b \in owed[d][a] :
    Ready(b) /\ Between(a, b, Upcoming(runs[d]))

IInv ==
  /\ TypeInv /\ FreshPasses /\ OwedInTurn
  /\ SettledMeansDrained /\ HandlersKeepToThemselves

-----------------------------------------------------------------------------
(* Sequences. *)

LEMMA TakeOf ==
  ASSUME NEW S, NEW s \in Seq(S), NEW n \in 0 .. Len(s)
  PROVE  /\ SubSeq(s, 1, n) \in Seq(S) /\ Len(SubSeq(s, 1, n)) = n
         /\ \A i \in 1 .. n : SubSeq(s, 1, n)[i] = s[i]
OBVIOUS

LEMMA FrontOf ==
  ASSUME NEW S, NEW s \in Seq(S), s # <<>>
  PROVE  /\ Front(s) \in Seq(S) /\ Len(Front(s)) = Len(s) - 1
         /\ \A i \in 1 .. Len(s) - 1 : Front(s)[i] = s[i]
         /\ Len(s) \in Nat \ {0} /\ Last(s) = s[Len(s)] /\ Last(s) \in S
<1>1. Len(s) \in Nat \ {0}
  BY EmptySeq
<1>2. /\ SubSeq(s, 1, Len(s) - 1) \in Seq(S)
      /\ Len(SubSeq(s, 1, Len(s) - 1)) = Len(s) - 1
      /\ \A i \in 1 .. Len(s) - 1 : SubSeq(s, 1, Len(s) - 1)[i] = s[i]
  <2>1. Len(s) - 1 \in 0 .. Len(s)
    BY <1>1
  <2>2. QED
    BY <2>1, TakeOf
<1>3. s[Len(s)] \in S
  BY <1>1, ElementOfSeq
<1>4. QED
  BY <1>1, <1>2, <1>3 DEF Front, Last

(* What replacing the innermost loop does. *)
LEMMA TopReplaced ==
  ASSUME TypeInv, runs # <<>>, NEW r \in Loop, runs' = ReplaceTop(r)
  PROVE  /\ runs' \in Seq(Loop) /\ Len(runs') = Len(runs) /\ Len(runs) \in Nat \ {0}
         /\ runs'[Len(runs)] = r
         /\ \A d \in 1 .. Len(runs) - 1 : runs'[d] = runs[d]
<1>1. /\ Front(runs) \in Seq(Loop) /\ Len(Front(runs)) = Len(runs) - 1
      /\ \A i \in 1 .. Len(runs) - 1 : Front(runs)[i] = runs[i]
      /\ Len(runs) \in Nat \ {0}
  BY FrontOf DEF TypeInv
<1>2. /\ Append(Front(runs), r) \in Seq(Loop)
      /\ Len(Append(Front(runs), r)) = Len(Front(runs)) + 1
      /\ \A i \in 1 .. Len(Front(runs)) : Append(Front(runs), r)[i] = Front(runs)[i]
      /\ Append(Front(runs), r)[Len(Front(runs)) + 1] = r
  BY <1>1, AppendProperties
<1>3. QED
  BY <1>1, <1>2 DEF ReplaceTop

(* The innermost loop. *)
LEMMA TopIs ==
  ASSUME TypeInv, runs # <<>>
  PROVE  /\ Len(runs) \in Nat \ {0} /\ Top = runs[Len(runs)] /\ Top \in Loop
         /\ Last(owed) = owed[Len(runs)] /\ owed # <<>>
<1>1. Len(runs) \in Nat \ {0} /\ Top = runs[Len(runs)] /\ Top \in Loop
  BY FrontOf DEF TypeInv, Top
<1>2. owed # <<>>
  BY <1>1, EmptySeq DEF TypeInv
<1>3. Last(owed) = owed[Len(runs)]
  BY <1>2, FrontOf DEF TypeInv
<1>4. QED
  BY <1>1, <1>2, <1>3

(* What ending the innermost loop does. *)
LEMMA TopEnded ==
  ASSUME TypeInv, runs # <<>>, runs' = Front(runs), owed' = Front(owed), mail' = mail
  PROVE  /\ runs' \in Seq(Loop) /\ Len(runs') = Len(runs) - 1 /\ Len(runs) \in Nat \ {0}
         /\ owed' \in Seq([Agents -> SUBSET Agents]) /\ Len(owed') = Len(runs')
         /\ \A d \in 1 .. Len(runs) - 1 : runs'[d] = runs[d] /\ owed'[d] = owed[d]
<1>1. /\ Front(runs) \in Seq(Loop) /\ Len(Front(runs)) = Len(runs) - 1
      /\ \A i \in 1 .. Len(runs) - 1 : Front(runs)[i] = runs[i]
      /\ Len(runs) \in Nat \ {0}
  BY FrontOf DEF TypeInv
<1>2. /\ Front(owed) \in Seq([Agents -> SUBSET Agents]) /\ Len(Front(owed)) = Len(owed) - 1
      /\ \A i \in 1 .. Len(owed) - 1 : Front(owed)[i] = owed[i]
  BY TopIs, FrontOf DEF TypeInv
<1>3. QED
  BY <1>1, <1>2 DEF TypeInv

(* What forgiving leaves: what was owed before, but nothing to b. *)
LEMMA Forgiven ==
  ASSUME TypeInv, NEW b
  PROVE  /\ Forgive(owed, b) \in Seq([Agents -> SUBSET Agents])
         /\ Len(Forgive(owed, b)) = Len(owed) /\ Len(owed) \in Nat
         /\ DOMAIN Forgive(owed, b) = 1 .. Len(owed)
         /\ \A d \in 1 .. Len(owed) : \A a \in Agents :
              Forgive(owed, b)[d][a] = owed[d][a] \ {b}
<1>1. DOMAIN owed = 1 .. Len(owed) /\ Len(owed) \in Nat
  BY DEF TypeInv
<1>2. \A d \in 1 .. Len(owed) : owed[d] \in [Agents -> SUBSET Agents]
  BY ElementOfSeq DEF TypeInv
<1>3. Forgive(owed, b) = [d \in 1 .. Len(owed) |-> [a \in Agents |-> owed[d][a] \ {b}]]
  BY <1>1, <1>2 DEF Forgive
<1>4. \A d \in 1 .. Len(owed) : [a \in Agents |-> owed[d][a] \ {b}] \in [Agents -> SUBSET Agents]
  BY <1>2
<1>5. Forgive(owed, b) \in Seq([Agents -> SUBSET Agents])
  BY <1>1, <1>3, <1>4, IsASeq
<1>6. QED
  BY <1>1, <1>3, <1>5

-----------------------------------------------------------------------------
(* The part of the invariant that says where the loops stand and what they *)
(* owe, step by step.                                                      *)

Standing == TypeInv /\ FreshPasses /\ OwedInTurn

LEMMA SpawnKeeps == Standing /\ Spawn => Standing'
<1> SUFFICES ASSUME Standing, Spawn PROVE Standing'
  OBVIOUS
<1> USE DEF Standing
<1>1. /\ Len(mail) \in Nat
      /\ mail' \in Seq(Nat) /\ Len(mail') = Len(mail) + 1
      /\ \A a \in Agents : a \in Agents' /\ mail'[a] = mail[a]
      /\ Agents' = Agents \cup {Len(mail) + 1} /\ Len(mail) + 1 \notin Agents
  BY AppendProperties DEF Spawn, TypeInv, Agents
<1>2. Len(runs) \in Nat /\ DOMAIN owed = 1 .. Len(runs)
  BY DEF TypeInv
<1>3. owed' = [d \in 1 .. Len(runs) |-> [a \in Agents' |-> IF a \in Agents THEN owed[d][a] ELSE {}]]
  BY <1>1, <1>2 DEF Spawn
<1>4. \A d \in 1 .. Len(runs) : owed[d] \in [Agents -> SUBSET Agents]
  BY ElementOfSeq DEF TypeInv
<1>5. \A d \in 1 .. Len(runs) :
        [a \in Agents' |-> IF a \in Agents THEN owed[d][a] ELSE {}] \in [Agents' -> SUBSET Agents']
  BY <1>1, <1>4
<1>6. TypeInv'
  <2>1. owed' \in Seq([Agents' -> SUBSET Agents'])
    BY <1>2, <1>3, <1>5, IsASeq
  <2>2. Len(owed') = Len(runs)
    BY <1>2, <1>3, <2>1
  <2>3. stopped' \subseteq Agents' /\ runs' = runs
    BY <1>1 DEF Spawn, TypeInv
  <2>4. QED
    BY <1>1, <2>1, <2>2, <2>3 DEF TypeInv
<1>7. FreshPasses'
  BY DEF Spawn, FreshPasses
<1>8. OwedInTurn'
  <2>1. SUFFICES ASSUME NEW d \in 1 .. Len(runs'), NEW a \in Agents', NEW b \in owed'[d][a]
                 PROVE  Ready(b)' /\ Between(a, b, Upcoming(runs'[d]))
    BY DEF OwedInTurn
  <2>2. runs' = runs
    BY DEF Spawn
  <2>3. a \in Agents /\ b \in owed[d][a]
    BY <1>3, <2>2
  <2>4. Ready(b) /\ Between(a, b, Upcoming(runs[d]))
    BY <2>2, <2>3 DEF OwedInTurn
  <2>5. b \in Agents
    BY <1>4, <2>2, <2>3
  <2>6. mail'[b] = mail[b] /\ stopped' = stopped
    BY <1>1, <2>5 DEF Spawn
  <2>7. QED
    BY <2>2, <2>4, <2>6 DEF Ready
<1>9. QED
  BY <1>6, <1>7, <1>8

(* A step that leaves the loops and what they owe, and in which no mailbox *)
(* gets empty and nobody is stopped, keeps where they stand.               *)
LEMMA StandingSame ==
  ASSUME Standing, UNCHANGED <<runs, owed, stopped>>,
         mail' \in Seq(Nat), Len(mail') = Len(mail), \A a \in Agents : mail'[a] >= mail[a]
  PROVE  Standing'
<1>1. Agents' = Agents
  BY DEF Agents
<1>2. TypeInv' /\ FreshPasses'
  BY <1>1 DEF Standing, TypeInv, FreshPasses
<1>3. OwedInTurn'
  <2>1. SUFFICES ASSUME NEW d \in 1 .. Len(runs), NEW a \in Agents, NEW b \in owed[d][a]
                 PROVE  Ready(b)' /\ Between(a, b, Upcoming(runs[d]))
    BY <1>1 DEF OwedInTurn
  <2>2. Ready(b) /\ Between(a, b, Upcoming(runs[d]))
    BY DEF Standing, OwedInTurn
  <2>3. b \in Agents
    BY ElementOfSeq DEF Standing, TypeInv
  <2>4. Ready(b)'
    BY <2>2, <2>3 DEF Ready, Standing, TypeInv, Agents
  <2>5. QED
    BY <2>2, <2>4
<1>4. QED
  BY <1>2, <1>3 DEF Standing

LEMMA SendKeeps ==
  ASSUME Standing, NEW a \in Agents, Send(a)
  PROVE  Standing'
<1>1. mail \in Seq(Nat) /\ Len(mail) \in Nat /\ a \in 1 .. Len(mail) /\ mail[a] \in Nat
  BY ElementOfSeq DEF Standing, TypeInv, Agents
<1>2. /\ [mail EXCEPT ![a] = @ + 1] \in Seq(Nat)
      /\ Len([mail EXCEPT ![a] = @ + 1]) = Len(mail)
      /\ \A b \in Agents : [mail EXCEPT ![a] = @ + 1][b] >= mail[b]
  BY <1>1 DEF Agents
<1>3. mail' \in Seq(Nat) /\ Len(mail') = Len(mail) /\ \A b \in Agents : mail'[b] >= mail[b]
  <2>1. CASE a \in stopped
    BY <1>1, <2>1 DEF Send, Agents
  <2>2. CASE a \notin stopped
    BY <1>2, <2>2 DEF Send
  <2>3. QED
    BY <2>1, <2>2
<1>4. UNCHANGED <<runs, owed, stopped>>
  BY DEF Send
<1>5. QED
  BY <1>3, <1>4, StandingSame

LEMMA AssignKeeps ==
  ASSUME Standing, NEW s, NEW place, Assign(s, place)
  PROVE  Standing'
<1>1. UNCHANGED <<mail, runs, owed, stopped>>
  BY DEF Assign
<1>2. mail' \in Seq(Nat) /\ \A a \in Agents : mail'[a] >= mail[a]
  BY <1>1, ElementOfSeq DEF Standing, TypeInv, Agents
<1>3. QED
  BY <1>1, <1>2, StandingSame

LEMMA StopKeeps ==
  ASSUME Standing, NEW a \in Agents, Stop(a)
  PROVE  Standing'
<1>1. UNCHANGED <<mail, runs>> /\ stopped' = stopped \cup {a} /\ owed' = Forgive(owed, a)
  BY DEF Stop
<1>2. Agents' = Agents
  BY <1>1 DEF Agents
<1>3. /\ owed' \in Seq([Agents -> SUBSET Agents]) /\ Len(owed') = Len(runs)
      /\ \A d \in 1 .. Len(runs) : \A c \in Agents : owed'[d][c] = owed[d][c] \ {a}
  BY <1>1, Forgiven DEF Standing, TypeInv
<1>4. TypeInv' /\ FreshPasses'
  BY <1>1, <1>2, <1>3 DEF Standing, TypeInv, FreshPasses
<1>5. OwedInTurn'
  <2>1. SUFFICES ASSUME NEW d \in 1 .. Len(runs), NEW c \in Agents, NEW b \in owed'[d][c]
                 PROVE  Ready(b)' /\ Between(c, b, Upcoming(runs[d]))
    BY <1>1, <1>2 DEF OwedInTurn
  <2>2. b \in owed[d][c] /\ b # a
    BY <1>3
  <2>3. Ready(b) /\ Between(c, b, Upcoming(runs[d]))
    BY <2>2 DEF Standing, OwedInTurn
  <2>4. QED
    BY <1>1, <2>2, <2>3 DEF Ready
<1>6. QED
  BY <1>4, <1>5 DEF Standing

LEMMA RunAgentsKeeps ==
  ASSUME Standing, NEW ceiling \in Ceilings, RunAgents(ceiling)
  PROVE  Standing'
<1> DEFINE new == [at |-> 1, progressed |-> FALSE, processed |-> 0,
                   ceiling |-> ceiling, handling |-> 0]
           none == [a \in Agents |-> {}]
<1>1. runs' = Append(runs, new) /\ owed' = Append(owed, none) /\ UNCHANGED <<mail, stopped>>
  BY DEF RunAgents
<1>2. new \in Loop /\ none \in [Agents -> SUBSET Agents] /\ Agents' = Agents
  BY <1>1, AgentsAssumption DEF Loop, Agents
<1>3. /\ runs' \in Seq(Loop) /\ Len(runs') = Len(runs) + 1 /\ Len(runs) \in Nat
      /\ \A d \in 1 .. Len(runs) : runs'[d] = runs[d]
      /\ runs'[Len(runs) + 1] = new
  BY <1>1, <1>2, AppendProperties DEF Standing, TypeInv
<1>4. /\ owed' \in Seq([Agents -> SUBSET Agents]) /\ Len(owed') = Len(runs) + 1
      /\ \A d \in 1 .. Len(runs) : owed'[d] = owed[d]
      /\ owed'[Len(runs) + 1] = none
  <2> HIDE DEF none
  <2>1. QED
    BY <1>1, <1>2, AppendProperties DEF Standing, TypeInv
<1>5. \A d \in 1 .. Len(runs') : d \in 1 .. Len(runs) \/ d = Len(runs) + 1
  BY <1>3
<1>6. TypeInv'
  BY <1>1, <1>2, <1>3, <1>4 DEF Standing, TypeInv
<1>7. FreshPasses'
  BY <1>3, <1>5 DEF Standing, FreshPasses
<1>8. OwedInTurn'
  <2>1. SUFFICES ASSUME NEW d \in 1 .. Len(runs'), NEW a \in Agents, NEW b \in owed'[d][a]
                 PROVE  Ready(b)' /\ Between(a, b, Upcoming(runs'[d]))
    BY <1>2 DEF OwedInTurn
  <2>2. d \in 1 .. Len(runs) /\ b \in owed[d][a]
    BY <1>4, <1>5
  <2>3. Ready(b) /\ Between(a, b, Upcoming(runs[d]))
    BY <2>2 DEF Standing, OwedInTurn
  <2>4. QED
    BY <1>1, <1>3, <2>2, <2>3 DEF Ready
<1>9. QED
  BY <1>6, <1>7, <1>8 DEF Standing

LEMMA LoopEndKeeps ==
  ASSUME Standing, runs # <<>>, runs' = Front(runs), owed' = Front(owed),
         UNCHANGED <<mail, stopped>>
  PROVE  Standing'
<1>1. /\ runs' \in Seq(Loop) /\ Len(runs') = Len(runs) - 1 /\ Len(runs) \in Nat \ {0}
      /\ owed' \in Seq([Agents -> SUBSET Agents]) /\ Len(owed') = Len(runs')
      /\ \A d \in 1 .. Len(runs) - 1 : runs'[d] = runs[d] /\ owed'[d] = owed[d]
  BY TopEnded DEF Standing
<1>2. Agents' = Agents /\ \A d \in 1 .. Len(runs') : d \in 1 .. Len(runs) /\ d \in 1 .. Len(runs) - 1
  BY <1>1 DEF Agents
<1>3. TypeInv'
  BY <1>1, <1>2 DEF Standing, TypeInv
<1>4. FreshPasses'
  BY <1>1, <1>2 DEF Standing, FreshPasses
<1>5. OwedInTurn'
  BY <1>1, <1>2 DEF Standing, OwedInTurn, Ready
<1>6. QED
  BY <1>3, <1>4, <1>5 DEF Standing

(* A delivery is to the first agent with mail from where the loop stands.  *)
LEMMA DeliverKeeps ==
  ASSUME Standing, NEW c \in Agents, Deliver(c)
  PROVE  Standing'
<1> DEFINE n == Len(runs)
           new == [Top EXCEPT !.handling = c, !.at = c]
           waiting == {b \in Agents \ {c} : Ready(b)}
           o == Forgive(owed, c)
<1>1. /\ runs # <<>> /\ Top.handling = 0 /\ c \in RestOfPass /\ \A b \in RestOfPass : c <= b
      /\ mail' = [mail EXCEPT ![c] = @ - 1] /\ runs' = ReplaceTop(new) /\ stopped' = stopped
      /\ owed' = [o EXCEPT ![Len(o)][c] = waiting]
  BY DEF Deliver, NextUp, AgentReady
<1>2. n \in Nat \ {0} /\ Top = runs[n] /\ Top \in Loop
  BY <1>1, TopIs DEF Standing
<1>3. c \in Nat \ {0} /\ Ready(c) /\ c >= Top.at /\ Len(mail) \in Nat /\ mail[c] \in Nat
  <2>1. c \in 1 .. Len(mail) /\ mail \in Seq(Nat)
    BY DEF Standing, TypeInv, Agents
  <2>2. Len(mail) \in Nat /\ mail[c] \in Nat
    BY <2>1, ElementOfSeq
  <2>3. QED
    BY <1>1, <2>1, <2>2 DEF RestOfPass
<1>4. new \in Loop /\ Upcoming(new) = c + 1 /\ new.handling = c
  BY <1>2, <1>3 DEF Loop, Upcoming
<1>5. /\ runs' \in Seq(Loop) /\ Len(runs') = n /\ runs'[n] = new
      /\ \A d \in 1 .. n - 1 : runs'[d] = runs[d]
  BY <1>1, <1>4, TopReplaced DEF Standing
<1>6. mail' \in Seq(Nat) /\ Len(mail') = Len(mail) /\ Agents' = Agents
  <2>1. mail \in Seq(Nat) /\ c \in 1 .. Len(mail) /\ mail[c] - 1 \in Nat
    BY <1>3 DEF Standing, TypeInv, Ready, Agents
  <2>2. mail' = [mail EXCEPT ![c] = mail[c] - 1]
    BY <1>1
  <2>3. mail' \in Seq(Nat) /\ Len(mail') = Len(mail)
    BY <2>1, <2>2, ExceptSeq
  <2>4. QED
    BY <2>3 DEF Agents
<1>7. \A b \in Agents \ {c} : mail'[b] = mail[b]
  BY <1>1, <1>6 DEF Standing, TypeInv, Agents
<1>8. /\ o \in Seq([Agents -> SUBSET Agents]) /\ Len(o) = n /\ DOMAIN o = 1 .. n
      /\ \A d \in 1 .. n : \A a \in Agents : o[d][a] = owed[d][a] \ {c}
  BY Forgiven DEF Standing, TypeInv
<1>9. o[n] \in [Agents -> SUBSET Agents] /\ waiting \in SUBSET Agents
  BY <1>2, <1>8, ElementOfSeq
<1>10. /\ owed' \in Seq([Agents -> SUBSET Agents]) /\ Len(owed') = n
       /\ \A d \in 1 .. n - 1 : owed'[d] = o[d]
       /\ owed'[n] = [o[n] EXCEPT ![c] = waiting]
  <2> DEFINE f == [o[n] EXCEPT ![c] = waiting]
  <2>1. f \in [Agents -> SUBSET Agents] /\ owed' = [o EXCEPT ![n] = f]
    BY <1>1, <1>8, <1>9
  <2> HIDE DEF f, o, n
  <2>2. n \in 1 .. Len(o)
    BY <1>2, <1>8
  <2>3. /\ owed' \in Seq([Agents -> SUBSET Agents]) /\ Len(owed') = n
        /\ \A d \in 1 .. n : owed'[d] = IF d = n THEN f ELSE o[d]
    BY <1>8, <2>1, <2>2, ExceptSeq
  <2>4. \A d \in 1 .. n - 1 : d \in 1 .. n /\ d # n
    BY <1>2
  <2>5. owed'[n] = f /\ \A d \in 1 .. n - 1 : owed'[d] = o[d]
    BY <1>8, <2>2, <2>3, <2>4
  <2>6. QED
    BY <2>3, <2>5 DEF f
<1>11. TypeInv'
  BY <1>1, <1>5, <1>6, <1>10 DEF Standing, TypeInv
<1>12. FreshPasses'
  <2>1. SUFFICES ASSUME NEW d \in 1 .. Len(runs'), runs'[d].handling = 0, ~ runs'[d].progressed
                 PROVE  runs'[d].at = 1
    BY DEF FreshPasses
  <2>2. d # n
    BY <1>3, <1>4, <1>5, <2>1
  <2>3. d \in 1 .. n - 1 /\ d \in 1 .. n
    BY <1>2, <1>5, <2>2
  <2>4. QED
    BY <1>5, <2>1, <2>3 DEF Standing, FreshPasses
<1>13. OwedInTurn'
  <2>1. SUFFICES ASSUME NEW d \in 1 .. n, NEW a \in Agents, NEW b \in owed'[d][a]
                 PROVE  Ready(b)' /\ Between(a, b, Upcoming(runs'[d]))
    BY <1>5, <1>6 DEF OwedInTurn
  <2>2. CASE d # n \/ a # c
    <3>1. b \in owed[d][a] /\ b # c
      <4>1. o[d][a] = owed[d][a] \ {c}
        BY <1>8
      <4>2. CASE d # n
        <5>1. d \in 1 .. n - 1
          BY <1>2, <4>2
        <5>2. QED
          BY <1>10, <4>1, <5>1
      <4>3. CASE d = n
        BY <1>9, <1>10, <2>2, <4>1, <4>3
      <4>4. QED
        BY <4>2, <4>3
    <3>2. Ready(b) /\ Between(a, b, Upcoming(runs[d])) /\ b \in Agents
      BY <3>1, ElementOfSeq DEF Standing, OwedInTurn, TypeInv
    <3>3. Ready(b)'
      BY <1>1, <1>7, <3>1, <3>2 DEF Ready
    <3>4. CASE d # n
      BY <1>2, <1>5, <3>2, <3>3, <3>4
    <3>5. CASE d = n
      <4>1. Upcoming(runs[n]) = Top.at /\ Top.at \in Nat
        BY <1>1, <1>2 DEF Upcoming, Loop
      <4>2. b >= Top.at => c < b
        BY <1>1, <1>3, <3>1, <3>2 DEF RestOfPass, Agents
      <4>3. a # c
        BY <2>2, <3>5
      <4>4. Between(a, b, c + 1)
        BY <1>3, <3>2, <3>5, <4>1, <4>2, <4>3 DEF Between, Agents
      <4>5. QED
        BY <1>4, <1>5, <3>3, <3>5, <4>4
    <3>6. QED
      BY <3>4, <3>5
  <2>3. CASE d = n /\ a = c
    <3>1. b \in waiting
      BY <1>9, <1>10, <2>3
    <3>2. b \in Agents /\ b # c /\ Ready(b)
      BY <3>1
    <3>3. Ready(b)'
      BY <1>1, <1>7, <3>2 DEF Ready
    <3>4. Between(c, b, c + 1)
      BY <1>3, <3>2 DEF Between, Agents
    <3>5. QED
      BY <1>4, <1>5, <2>3, <3>3, <3>4
  <2>4. QED
    BY <2>2, <2>3
<1>14. QED
  BY <1>11, <1>12, <1>13 DEF Standing

(* A step that moves the innermost loop only, without it passing anyone    *)
(* that has mail.                                                          *)
LEMMA TopMoves ==
  ASSUME Standing, runs # <<>>, NEW r \in Loop, runs' = ReplaceTop(r),
         UNCHANGED <<mail, stopped, owed>>,
         r.handling = 0 /\ ~ r.progressed => r.at = 1,
         \A a, b \in Agents : Ready(b) /\ Between(a, b, Upcoming(Top)) => Between(a, b, Upcoming(r))
  PROVE  Standing'
<1> DEFINE n == Len(runs)
<1>1. n \in Nat \ {0} /\ Top = runs[n]
  BY TopIs DEF Standing
<1>2. /\ runs' \in Seq(Loop) /\ Len(runs') = n /\ runs'[n] = r
      /\ \A d \in 1 .. n - 1 : runs'[d] = runs[d]
  BY TopReplaced DEF Standing
<1>3. Agents' = Agents /\ \A d \in 1 .. n : d \in 1 .. n - 1 \/ d = n
  BY <1>1 DEF Agents
<1>4. TypeInv'
  BY <1>2, <1>3 DEF Standing, TypeInv
<1>5. FreshPasses'
  BY <1>2, <1>3 DEF Standing, FreshPasses
<1>6. OwedInTurn'
  <2>1. SUFFICES ASSUME NEW d \in 1 .. n, NEW a \in Agents, NEW b \in owed[d][a]
                 PROVE  Ready(b)' /\ Between(a, b, Upcoming(runs'[d]))
    BY <1>2, <1>3 DEF OwedInTurn
  <2>2. Ready(b) /\ Between(a, b, Upcoming(runs[d])) /\ b \in Agents
    BY ElementOfSeq DEF Standing, OwedInTurn, TypeInv
  <2>3. Between(a, b, Upcoming(runs'[d]))
    BY <1>1, <1>2, <1>3, <2>2
  <2>4. QED
    BY <2>2, <2>3 DEF Ready
<1>7. QED
  BY <1>4, <1>5, <1>6 DEF Standing

LEMMA HandlerReturnsKeeps ==
  ASSUME Standing, HandlerReturns
  PROVE  Standing'
<1>1. runs # <<>> /\ Top.handling # 0 /\ UNCHANGED <<mail, stopped>> /\ Top \in Loop
  BY TopIs DEF HandlerReturns, Standing
<1>2. CASE Top.processed + 1 >= Top.ceiling
  BY <1>1, <1>2, LoopEndKeeps DEF HandlerReturns
<1>3. CASE ~ (Top.processed + 1 >= Top.ceiling)
  <2> DEFINE r == [Top EXCEPT !.handling = 0, !.at = @ + 1, !.progressed = TRUE, !.processed = @ + 1]
  <2>1. runs' = ReplaceTop(r) /\ UNCHANGED owed
    BY <1>3 DEF HandlerReturns
  <2>2. r \in Loop /\ r.progressed /\ Upcoming(r) = Upcoming(Top)
    <3>1. Top.at + 1 \in Nat /\ Top.processed + 1 \in Nat
      BY <1>1 DEF Loop
    <3>2. \A i, j \in Nat :
            LET q == [Top EXCEPT !.handling = 0, !.at = i, !.progressed = TRUE, !.processed = j]
            IN  q \in Loop /\ q.progressed /\ q.handling = 0 /\ q.at = i
      BY <1>1 DEF Loop
    <3>3. QED
      BY <1>1, <3>1, <3>2 DEF Upcoming
  <2> HIDE DEF r
  <2>3. QED
    BY <1>1, <2>1, <2>2, TopMoves
<1>4. QED
  BY <1>2, <1>3

LEMMA NextPassKeeps ==
  ASSUME Standing, NextPass
  PROVE  Standing'
<1> DEFINE r == [Top EXCEPT !.at = 1, !.progressed = FALSE]
<1>1. /\ runs # <<>> /\ Top.handling = 0 /\ RestOfPass = {} /\ Top \in Loop
      /\ runs' = ReplaceTop(r) /\ UNCHANGED <<mail, stopped, owed>>
  BY TopIs DEF NextPass, Standing
<1>2. r \in Loop /\ r.at = 1 /\ Upcoming(r) = 1 /\ Upcoming(Top) = Top.at /\ Top.at \in Nat
  BY <1>1 DEF Loop, Upcoming
<1>3. ASSUME NEW a \in Agents, NEW b \in Agents, Ready(b), Between(a, b, Upcoming(Top))
      PROVE  Between(a, b, Upcoming(r))
  <2>1. ~ (b >= Top.at)
    BY <1>1, <1>3 DEF RestOfPass
  <2>2. QED
    BY <1>2, <1>3, <2>1 DEF Between, Agents
<1> HIDE DEF r
<1>4. QED
  BY <1>1, <1>2, <1>3, TopMoves

LEMMA NextKeeps == Standing /\ [Next]_vars => Standing'
<1> SUFFICES ASSUME Standing, [Next]_vars PROVE Standing'
  OBVIOUS
<1>1. CASE Spawn
  BY <1>1, SpawnKeeps
<1>2. ASSUME NEW a \in Agents, Send(a) PROVE Standing'
  BY <1>2, SendKeeps
<1>3. ASSUME NEW a \in Agents, Stop(a) PROVE Standing'
  BY <1>3, StopKeeps
<1>4. ASSUME NEW s \in Scopes, NEW place \in Places, Assign(s, place) PROVE Standing'
  BY <1>4, AssignKeeps
<1>5. ASSUME NEW ceiling \in Ceilings, RunAgents(ceiling) PROVE Standing'
  BY <1>5, RunAgentsKeeps
<1>6. ASSUME NEW a \in Agents, Deliver(a) PROVE Standing'
  BY <1>6, DeliverKeeps
<1>7. CASE NextPass
  BY <1>7, NextPassKeeps
<1>8. CASE Settle
  BY <1>8, LoopEndKeeps DEF Settle
<1>9. CASE HandlerReturns
  BY <1>9, HandlerReturnsKeeps
<1>10. CASE HandlerFails
  BY <1>10, LoopEndKeeps DEF HandlerFails
<1>11. CASE UNCHANGED vars
  <2>1. UNCHANGED <<runs, owed, stopped, mail>>
    BY <1>11 DEF vars
  <2>2. mail' \in Seq(Nat) /\ \A a \in Agents : mail'[a] >= mail[a]
    BY <2>1, ElementOfSeq DEF Standing, TypeInv, Agents
  <2>3. QED
    BY <2>1, <2>2, StandingSame
<1>12. QED
  BY <1>1, <1>2, <1>3, <1>4, <1>5, <1>6, <1>7, <1>8, <1>9, <1>10, <1>11
     DEF Next, Code, Schedule, HandlerEnds

-----------------------------------------------------------------------------
(* What the last step says of itself. *)

(* A loop settles when its pass, begun at the first agent, found none.     *)
LEMMA SettleDrains == Standing /\ Settle => \A a \in Agents : ~ Ready(a)
<1> SUFFICES ASSUME Standing, Settle, NEW a \in Agents PROVE ~ Ready(a)
  OBVIOUS
<1>1. /\ runs # <<>> /\ Top.handling = 0 /\ ~ Top.progressed /\ RestOfPass = {}
      /\ Len(runs) \in Nat \ {0} /\ Top = runs[Len(runs)]
  BY TopIs DEF Settle, Standing
<1>2. Top.at = 1
  BY <1>1 DEF Standing, FreshPasses
<1>3. a >= Top.at
  BY <1>2 DEF Agents
<1>4. QED
  BY <1>1, <1>3 DEF RestOfPass

LEMMA SettledKeeps == Standing /\ SettledMeansDrained /\ [Next]_vars => SettledMeansDrained'
<1> SUFFICES ASSUME Standing, SettledMeansDrained, [Next]_vars, ending' = "settled"
             PROVE  \A a \in Agents' : ~ Ready(a)'
  BY DEF SettledMeansDrained
<1>1. CASE Settle
  BY <1>1, SettleDrains DEF Settle, Agents, Ready
<1>2. CASE UNCHANGED vars
  BY <1>2 DEF vars, SettledMeansDrained, Agents, Ready
<1>3. CASE Next /\ ~ Settle
  <2>1. Next => Settle \/ ending' \in {"none", "ceiling", "failed"}
    BY DEF Next, Code, Schedule, HandlerEnds, Spawn, Send, Stop, Assign, RunAgents, Deliver,
           NextPass, HandlerReturns, HandlerFails, Quiet, Ends
  <2>2. QED
    BY <1>3, <2>1
<1>4. QED
  BY <1>1, <1>2, <1>3

(* The walk outwards from a handler's own code gets no further than the    *)
(* handler's agent, that from the top level no further than the globals.   *)
LEMMA HandlerReach ==
  ASSUME NEW s, MayAssign(s, "handler")
  PROVE  s = Current
<1>1. CASE Current = 0
  <2>1. Chain("handler") = <<Globals>>
    BY <1>1 DEF Chain
  <2>2. QED
    BY <1>1, <2>1 DEF MayAssign, Globals
<1>2. CASE Current # 0
  <2>1. Chain("handler") = <<Current, Globals>>
    BY <1>2 DEF Chain
  <2>2. PICK i \in 1 .. 2 : /\ <<Current, Globals>>[i] = s
                            /\ \A j \in 1 .. i - 1 : <<Current, Globals>>[j] # Current
    BY <1>2, <2>1 DEF MayAssign
  <2>3. i # 2
    BY <2>2
  <2>4. QED
    BY <2>2, <2>3
<1>3. QED
  BY <1>1, <1>2

LEMMA HandlersKeep == HandlersKeepToThemselves /\ [Next]_vars => HandlersKeepToThemselves'
<1> SUFFICES ASSUME HandlersKeepToThemselves, [Next]_vars, assigned'.by = "handler"
             PROVE  assigned'.scope = Current'
  BY DEF HandlersKeepToThemselves
<1>1. ASSUME NEW s \in Scopes, NEW place \in Places, Assign(s, place)
      PROVE  assigned'.scope = Current'
  <2>1. place = "handler" /\ assigned'.scope = s /\ MayAssign(s, place) /\ runs' = runs
    BY <1>1 DEF Assign
  <2>2. Current' = Current
    BY <2>1 DEF Current, Top
  <2>3. QED
    BY <2>1, <2>2, HandlerReach
<1>2. CASE UNCHANGED vars
  BY <1>2 DEF vars, HandlersKeepToThemselves, Current, Top
<1>3. Next => \/ \E s \in Scopes, place \in Places : Assign(s, place)
              \/ assigned' = NoAssignment
  BY DEF Next, Code, Schedule, HandlerEnds, Spawn, Send, Stop, RunAgents, Deliver,
         NextPass, Settle, HandlerReturns, HandlerFails, Quiet, Ends
<1>4. NoAssignment.by # "handler"
  BY DEF NoAssignment
<1>5. QED
  BY <1>1, <1>2, <1>3, <1>4

-----------------------------------------------------------------------------
(* Theorems. *)

LEMMA InitHolds == Init => IInv
<1> SUFFICES ASSUME Init PROVE IInv
  OBVIOUS
<1>1. Agents = {} /\ Len(runs) = 0
  BY DEF Init, Agents
<1>2. TypeInv
  BY <1>1, EmptySeq DEF Init, TypeInv
<1>3. FreshPasses /\ OwedInTurn
  BY <1>1 DEF FreshPasses, OwedInTurn
<1>4. SettledMeansDrained /\ HandlersKeepToThemselves
  BY DEF Init, SettledMeansDrained, HandlersKeepToThemselves, NoAssignment
<1>5. QED
  BY <1>2, <1>3, <1>4 DEF IInv

(* Mailboxes, loops and what is owed keep their shape, and each loop its   *)
(* place.                                                                  *)
THEOREM Invariant == Spec => []IInv
<1>1. IInv /\ [Next]_vars => IInv'
  BY NextKeeps, SettledKeeps, HandlersKeep DEF IInv, Standing
<1>2. QED
  BY InitHolds, <1>1, PTL DEF Spec

(* run_agents returns only when no agent that can still be delivered to    *)
(* has mail, with any number of agents, mail and loops nested in it.       *)
THEOREM LoopsDrain == Spec => []SettledMeansDrained
<1>1. IInv => SettledMeansDrained
  BY DEF IInv
<1>2. QED
  BY Invariant, <1>1, PTL

(* A handler's own code assigns to its own agent's state only, the top     *)
(* level to the globals only, however loops nest and fail.                 *)
THEOREM HandlersOwnState == Spec => []HandlersKeepToThemselves
<1>1. IInv => HandlersKeepToThemselves
  BY DEF IInv
<1>2. QED
  BY Invariant, <1>1, PTL

(* Delivery is round-robin: nobody is served a second time by a loop while *)
(* someone has had mail ever since the first.                              *)
THEOREM DeliveryFair == Spec => RoundRobin
<1>1. ASSUME IInv, [Next]_vars
      PROVE  \A a \in Agents :
               runs # <<>> /\ Top.handling = 0 /\ mail'[a] < mail[a] => Last(owed)[a] = {}
  <2> SUFFICES ASSUME NEW a \in Agents, runs # <<>>, Top.handling = 0, mail'[a] < mail[a],
                      NEW b \in Last(owed)[a]
               PROVE  FALSE
    BY <1>1, ElementOfSeq, TopIs DEF IInv, TypeInv
  <2>1. /\ Len(runs) \in Nat \ {0} /\ Top = runs[Len(runs)] /\ Top \in Loop
        /\ b \in owed[Len(runs)][a] /\ Upcoming(Top) = Top.at
    BY <1>1, TopIs DEF IInv, Upcoming
  <2>2. b \in Agents /\ Ready(b) /\ Between(a, b, Top.at)
    BY <1>1, <2>1, ElementOfSeq DEF IInv, TypeInv, OwedInTurn
  <2>3. mail[a] \in Nat /\ mail \in Seq(Nat) /\ a \in 1 .. Len(mail)
    BY <1>1, ElementOfSeq DEF IInv, TypeInv, Agents
  <2>4. ASSUME NEW c \in Agents, Deliver(c) PROVE FALSE
    <3>1. c \in RestOfPass /\ (\A d \in RestOfPass : c <= d) /\ mail' = [mail EXCEPT ![c] = @ - 1]
      BY <2>4 DEF Deliver, NextUp, AgentReady
    <3>2. c = a
      BY <2>3, <3>1
    <3>3. a >= Top.at /\ (b >= Top.at => a <= b)
      BY <2>2, <3>1, <3>2 DEF RestOfPass
    <3>4. a # b
      BY <2>2 DEF Between, Agents
    <3>5. Top.at \in Nat
      BY <2>1 DEF Loop
    <3>6. QED
      BY <2>2, <3>3, <3>4, <3>5 DEF Between, Agents
  <2>5. CASE UNCHANGED mail
    BY <2>3, <2>5
  <2>6. CASE Spawn
    BY <2>3, <2>6, AppendProperties DEF Spawn
  <2>7. ASSUME NEW c \in Agents, Send(c) PROVE FALSE
    BY <2>3, <2>7 DEF Send, Agents
  <2>8. [Next]_vars => \/ \E c \in Agents : Deliver(c) \/ Send(c)
                       \/ Spawn \/ UNCHANGED mail
    BY DEF Next, Code, Schedule, HandlerEnds, Stop, Assign, RunAgents,
           NextPass, Settle, HandlerReturns, HandlerFails, vars
  <2>9. QED
    BY <1>1, <2>4, <2>5, <2>6, <2>7, <2>8
<1>2. QED
  BY <1>1, Invariant, PTL DEF Spec, RoundRobin

(* A stopped agent stays stopped and its mailbox as it was.                *)
THEOREM StoppedStay == Spec => StoppedUntouched
<1>1. ASSUME IInv, [Next]_vars
      PROVE  \A a \in stopped : a \in stopped' /\ mail'[a] = mail[a]
  <2> SUFFICES ASSUME NEW a \in stopped PROVE a \in stopped' /\ mail'[a] = mail[a]
    OBVIOUS
  <2>1. a \in 1 .. Len(mail) /\ mail \in Seq(Nat)
    BY <1>1 DEF IInv, TypeInv, Agents
  <2>2. ASSUME NEW c \in Agents, Deliver(c) PROVE a \in stopped' /\ mail'[a] = mail[a]
    <3>1. c # a /\ mail' = [mail EXCEPT ![c] = @ - 1] /\ stopped' = stopped
      BY <2>2 DEF Deliver, NextUp, AgentReady, RestOfPass, Ready
    <3>2. QED
      BY <2>1, <3>1
  <2>3. ASSUME NEW c \in Agents, Send(c) PROVE a \in stopped' /\ mail'[a] = mail[a]
    BY <2>1, <2>3 DEF Send
  <2>4. CASE Spawn
    BY <2>1, <2>4, AppendProperties DEF Spawn
  <2>5. CASE UNCHANGED mail /\ stopped \subseteq stopped'
    BY <2>5
  <2>6. [Next]_vars => \/ \E c \in Agents : Deliver(c) \/ Send(c)
                       \/ Spawn \/ (UNCHANGED mail /\ stopped \subseteq stopped')
    BY DEF Next, Code, Schedule, HandlerEnds, Stop, Assign, RunAgents,
           NextPass, Settle, HandlerReturns, HandlerFails, vars
  <2>7. QED
    BY <1>1, <2>2, <2>3, <2>4, <2>5, <2>6
<1>2. QED
  BY <1>1, Invariant, PTL DEF Spec, StoppedUntouched

-----------------------------------------------------------------------------
(* The network client beside the agents.                                   *)
(*                                                                         *)
(* Requests that follow each other on one worker share its memory.  As     *)
(* long as no request came back with nothing to read, each left its own    *)
(* handler behind with the reply written, so that whoever finds a length   *)
(* in the memory finds its own.  A worker that was given up has a memory   *)
(* that nobody reads any more.                                             *)

NetPlaces == {"posted", "fetch", "body", "fits", "too large", "ready", "notify", "done"}
Memories == [ready : {0, 1}, length : {N!TooLarge, 0, 1}, data : Nat]
Threads == [memory : Nat, ending : BOOLEAN]
Outcomes == [of : Nat, came : {"refused", "timeout", "too_large", "unreadable", "reply"}, from : Nat]

Clearing == caller \in {"clear ready", "clear length", "post"}
Posted   == caller \in {"wait", "asleep", "collect"}

NetTypeInv ==
  /\ caller = "idle" \/ Clearing \/ Posted
  /\ asked \in Nat
  /\ threads \in Seq(Threads)
  /\ shared \in Seq(Memories) /\ Len(shared) = Len(threads)
  /\ \A r \in DOMAIN handlers :
       r \in 1 .. asked /\ handlers[r] \in [thread : 1 .. Len(threads), pc : NetPlaces]
  /\ trace \in Seq(Outcomes)

(* Each worker has a memory of its own, the client that of the last one.   *)
OwnMemory ==
  /\ \A t \in 1 .. Len(threads) : threads[t].memory = t
  /\ memory = Len(threads)
  /\ worker \in {N!None, Len(threads)}
  /\ worker # N!None => ~ threads[worker].ending
  /\ caller # "idle" => worker # N!None

(* Requests are made one after the other, and the one under way has a      *)
(* handler on the client's worker from when it is posted.                  *)
InStep ==
  /\ Len(trace) = IF caller = "idle" THEN asked ELSE asked - 1
  /\ Clearing => asked \notin DOMAIN handlers
  /\ Posted => asked \in DOMAIN handlers /\ handlers[asked].thread = worker

(* The handler has written the length of its reply.                        *)
Written(r) == handlers[r].pc \in {"ready", "notify", "done"}

NoneUnreadable == \A j \in DOMAIN trace : trace[j].came # "unreadable"

(* What is found in the client's memory is of the request under way.       *)
FindsItsOwn ==
  NoneUnreadable /\ worker # N!None =>
    /\ \A r \in DOMAIN handlers :
         handlers[r].thread = worker /\ (caller = "idle" \/ r # asked) => Written(r)
    /\ caller = "post" => shared[memory].length = 0
    /\ Posted =>
         /\ shared[memory].length # 0 => Written(asked)
         /\ shared[memory].length = 1 \/ handlers[asked].pc = "fits" => shared[memory].data = asked

NetIInv == NetTypeInv /\ OwnMemory /\ InStep /\ FindsItsOwn /\ N!OwnAnswer

LEMMA Shape ==
  ASSUME NetIInv
  PROVE  /\ asked \in Nat /\ Len(threads) \in Nat /\ Len(shared) = Len(threads) /\ Len(trace) \in Nat
         /\ \A r \in DOMAIN handlers :
              r \in 1 .. asked /\ handlers[r].thread \in 1 .. Len(threads) /\ handlers[r].pc \in NetPlaces
<1>1. \A r \in DOMAIN handlers :
        r \in 1 .. asked /\ handlers[r] \in [thread : 1 .. Len(threads), pc : NetPlaces]
  BY DEF NetIInv, NetTypeInv
<1>2. asked \in Nat /\ Len(threads) \in Nat /\ Len(shared) = Len(threads) /\ Len(trace) \in Nat
  BY DEF NetIInv, NetTypeInv
<1>3. QED
  BY <1>1, <1>2

(* While a request is under way there are a worker and its memory.         *)
LEMMA UnderWay ==
  ASSUME NetIInv, caller # "idle"
  PROVE  /\ worker # N!None /\ worker = Len(threads) /\ memory = worker
         /\ worker \in 1 .. Len(threads) /\ memory \in 1 .. Len(shared)
         /\ shared \in Seq(Memories) /\ shared[memory] \in Memories
<1>1. /\ worker # N!None /\ worker = Len(threads) /\ memory = worker
      /\ Len(threads) \in Nat /\ Len(shared) = Len(threads)
  BY Shape DEF NetIInv, OwnMemory
<1>2. worker \in 1 .. Len(threads) /\ memory \in 1 .. Len(shared)
  BY <1>1 DEF N!None
<1>3. shared \in Seq(Memories)
  BY DEF NetIInv, NetTypeInv
<1>4. QED
  BY <1>1, <1>2, <1>3, ElementOfSeq

-----------------------------------------------------------------------------
(* The calling thread. *)

(* The outcome of the request under way is put in the trace.               *)
LEMMA Recorded ==
  ASSUME NetIInv, NEW t \in Outcomes, trace' = Append(trace, t)
  PROVE  /\ trace' \in Seq(Outcomes) /\ Len(trace') = Len(trace) + 1 /\ Len(trace) \in Nat
         /\ trace'[Len(trace) + 1] = t
         /\ DOMAIN trace = 1 .. Len(trace) /\ DOMAIN trace' = 1 .. Len(trace) + 1
         /\ \A i \in 1 .. Len(trace) : trace'[i] = trace[i]
         /\ NoneUnreadable' => NoneUnreadable /\ t.came # "unreadable"
<1>1. /\ trace' \in Seq(Outcomes) /\ Len(trace') = Len(trace) + 1 /\ Len(trace) \in Nat
      /\ trace'[Len(trace) + 1] = t
      /\ \A i \in 1 .. Len(trace) : trace'[i] = trace[i]
  BY AppendProperties DEF NetIInv, NetTypeInv
<1>2. DOMAIN trace = 1 .. Len(trace) /\ DOMAIN trace' = 1 .. Len(trace) + 1
  BY <1>1 DEF NetIInv, NetTypeInv
<1>3. (\A i \in 1 .. Len(trace) : i \in 1 .. Len(trace) + 1) /\ Len(trace) + 1 \in 1 .. Len(trace) + 1
  BY <1>1
<1>4. NoneUnreadable' => NoneUnreadable /\ t.came # "unreadable"
  BY <1>1, <1>2, <1>3 DEF NoneUnreadable
<1>5. QED
  BY <1>1, <1>2, <1>4

(* An outcome in its place that is no reply, or its own reply, or one      *)
(* after something was unreadable.                                         *)
LEMMA OutcomeKept ==
  ASSUME NetIInv, NEW t \in Outcomes, trace' = Append(trace, t), t.of = Len(trace) + 1,
         t.came = "reply" => t.from = t.of \/ ~ NoneUnreadable
  PROVE  N!OwnAnswer'
<1> DEFINE n == Len(trace) + 1
<1>1. /\ Len(trace) \in Nat /\ trace'[n] = t
      /\ DOMAIN trace = 1 .. Len(trace) /\ DOMAIN trace' = 1 .. n
      /\ \A i \in 1 .. Len(trace) : trace'[i] = trace[i]
  BY Recorded
<1>2. SUFFICES ASSUME NEW i \in 1 .. n
               PROVE  /\ trace'[i].of = i
                      /\ trace'[i].came = "reply" =>
                           trace'[i].from = i \/ \E j \in 1 .. i - 1 : trace'[j].came = "unreadable"
  BY <1>1 DEF N!OwnAnswer
<1>3. CASE i \in 1 .. Len(trace)
  <2>1. /\ trace[i].of = i
        /\ trace[i].came = "reply" =>
             trace[i].from = i \/ \E j \in 1 .. i - 1 : trace[j].came = "unreadable"
    BY <1>1, <1>3 DEF NetIInv, N!OwnAnswer
  <2>2. \A j \in 1 .. i - 1 : j \in 1 .. Len(trace)
    BY <1>1, <1>3
  <2>3. QED
    BY <1>1, <1>3, <2>1, <2>2
<1>4. CASE i = n
  <2>1. i - 1 = Len(trace)
    BY <1>1, <1>4
  <2>2. ~ NoneUnreadable => \E j \in 1 .. i - 1 : trace'[j].came = "unreadable"
    BY <1>1, <2>1 DEF NoneUnreadable
  <2>3. QED
    BY <1>1, <1>4, <2>2
<1>5. QED
  BY <1>1, <1>2, <1>3, <1>4

LEMMA RefusedKeeps ==
  ASSUME NetIInv, NEW host, N!Refused(host)
  PROVE  NetIInv'
<1> DEFINE t == [of |-> asked', came |-> "refused", from |-> N!None]
<1>1. /\ caller = "idle" /\ asked' = asked + 1 /\ trace' = Append(trace, t)
      /\ UNCHANGED <<caller, worker, memory, threads, shared, handlers>>
  BY DEF N!Refused
<1>2. asked \in Nat /\ Len(trace) = asked
  BY <1>1 DEF NetIInv, NetTypeInv, InStep
<1>3. t \in Outcomes /\ t.of = asked + 1 /\ t.came = "refused"
  BY <1>1, <1>2 DEF Outcomes, N!None
<1> HIDE DEF t
<1>4. /\ trace' \in Seq(Outcomes) /\ Len(trace') = asked + 1
      /\ NoneUnreadable' => NoneUnreadable
  BY <1>1, <1>2, <1>3, Recorded
<1>5. N!OwnAnswer'
  BY <1>1, <1>2, <1>3, OutcomeKept
<1>6. NetTypeInv'
  <2>1. \A r \in 1 .. asked : r \in 1 .. asked'
    BY <1>1, <1>2
  <2>2. QED
    BY <1>1, <1>2, <1>4, <2>1 DEF NetIInv, NetTypeInv, Clearing, Posted
<1>7. OwnMemory' /\ InStep'
  BY <1>1, <1>4 DEF NetIInv, OwnMemory, InStep, Clearing, Posted
<1>8. FindsItsOwn'
  BY <1>1, <1>4 DEF NetIInv, FindsItsOwn, Posted, Written
<1>9. QED
  BY <1>5, <1>6, <1>7, <1>8 DEF NetIInv

LEMMA BeginKeeps ==
  ASSUME NetIInv, NEW host, N!Begin(host)
  PROVE  NetIInv'
<1>1. /\ caller = "idle" /\ asked' = asked + 1 /\ caller' = "clear ready" /\ N!start
      /\ UNCHANGED <<handlers, trace>>
  BY DEF N!Begin
<1>2. /\ asked \in Nat /\ Len(threads) \in Nat
      /\ \A r \in DOMAIN handlers : r \in 1 .. asked /\ handlers[r].thread \in 1 .. Len(threads)
  BY Shape
<1> DEFINE later == asked + 1
<1>a. /\ asked' = later /\ later \in Nat /\ later \notin 1 .. asked /\ later - 1 = asked
      /\ \A r \in 1 .. asked : r \in 1 .. later
  <2>1. asked' = later /\ asked \in Nat
    BY <1>1, <1>2
  <2>2. later \in Nat /\ later \notin 1 .. asked /\ later - 1 = asked
    BY <2>1
  <2>3. \A r \in 1 .. asked : r \in 1 .. later
    BY <2>1
  <2>4. QED
    BY <2>1, <2>2, <2>3
<1>3. InStep' /\ N!OwnAnswer'
  <2>1. asked' \notin DOMAIN handlers
    BY <1>2, <1>a
  <2>2. Len(trace) = asked
    BY <1>1 DEF NetIInv, InStep
  <2>3. QED
    BY <1>1, <1>a, <2>1, <2>2 DEF NetIInv, InStep, N!OwnAnswer, Clearing, Posted
<1>4. CASE worker # N!None
  <2>1. UNCHANGED <<worker, memory, threads, shared>>
    BY <1>1, <1>4 DEF N!start
  <2>2. NetTypeInv'
    <3>1. asked' \in Nat /\ \A r \in 1 .. asked : r \in 1 .. asked'
      BY <1>a
    <3>2. QED
      BY <1>1, <1>2, <2>1, <3>1 DEF NetIInv, NetTypeInv, Clearing
  <2>3. OwnMemory'
    BY <1>4, <2>1 DEF NetIInv, OwnMemory
  <2>4. FindsItsOwn'
    BY <1>1, <2>1 DEF NetIInv, FindsItsOwn, Posted, Written, NoneUnreadable
  <2>5. QED
    BY <1>3, <2>2, <2>3, <2>4 DEF NetIInv
<1>5. CASE worker = N!None
  <2> DEFINE n == Len(threads) + 1
  <2>1. /\ shared' = Append(shared, N!Blank) /\ memory' = Len(shared')
        /\ threads' = Append(threads, N!Thread(memory')) /\ worker' = Len(threads')
    BY <1>1, <1>5 DEF N!start
  <2>2. N!Blank \in Memories
    BY DEF N!Blank, Memories, N!TooLarge, N!None
  <2>3. /\ shared' \in Seq(Memories) /\ Len(shared') = n
    BY <2>1, <2>2, AppendProperties DEF NetIInv, NetTypeInv
  <2>4. memory' = n /\ N!Thread(memory') \in Threads /\ N!Thread(memory').memory = n
        /\ N!Thread(memory').ending = FALSE
    BY <1>2, <2>1, <2>3 DEF N!Thread, Threads
  <2>5. /\ threads' \in Seq(Threads) /\ Len(threads') = n /\ threads'[n] = N!Thread(memory')
        /\ \A t \in 1 .. Len(threads) : threads'[t] = threads[t]
    BY <2>1, <2>4, AppendProperties DEF NetIInv, NetTypeInv
  <2>6. NetTypeInv'
    <3>1. asked' \in Nat /\ \A r \in 1 .. asked : r \in 1 .. asked'
      BY <1>a
    <3>2. 1 .. Len(threads) \subseteq 1 .. Len(threads')
      BY <1>2, <2>5
    <3>3. \A r \in DOMAIN handlers :
            r \in 1 .. asked' /\ handlers[r] \in [thread : 1 .. Len(threads'), pc : NetPlaces]
      BY <3>1, <3>2 DEF NetIInv, NetTypeInv
    <3>4. QED
      BY <1>1, <1>2, <2>3, <2>5, <3>1, <3>3 DEF NetIInv, NetTypeInv, Clearing
  <2>7. OwnMemory'
    <3>1. \A t \in 1 .. n : t \in 1 .. Len(threads) \/ t = n
      BY <1>2
    <3>2. worker' = n
      BY <2>1, <2>5
    <3>3. \A t \in 1 .. n : threads'[t].memory = t
      BY <2>4, <2>5, <3>1 DEF NetIInv, OwnMemory
    <3>4. QED
      BY <1>2, <2>4, <2>5, <3>2, <3>3 DEF OwnMemory, N!None
  <2>8. FindsItsOwn'
    <3>1. worker' = n
      BY <2>1, <2>5
    <3>2. \A r \in DOMAIN handlers : handlers[r].thread # n
      BY <1>2
    <3>3. QED
      BY <1>1, <3>1, <3>2 DEF FindsItsOwn, Posted
  <2>9. QED
    BY <1>3, <2>6, <2>7, <2>8 DEF NetIInv
<1>6. QED
  BY <1>4, <1>5

(* A word of the client's memory is cleared.                               *)
LEMMA Cleared ==
  ASSUME NetIInv, caller # "idle", NEW m \in Memories, shared' = [shared EXCEPT ![memory] = m]
  PROVE  /\ shared' \in Seq(Memories) /\ Len(shared') = Len(shared)
         /\ shared'[memory] = m /\ shared[memory] \in Memories
<1>1. memory \in 1 .. Len(shared) /\ shared \in Seq(Memories)
  BY UnderWay
<1>2. QED
  BY <1>1, ExceptSeq, ElementOfSeq

LEMMA ClearReadyKeeps == NetIInv /\ N!ClearReady => NetIInv'
<1> SUFFICES ASSUME NetIInv, N!ClearReady PROVE NetIInv'
  OBVIOUS
<1>1. /\ caller = "clear ready" /\ caller' = "clear length"
      /\ shared' = [shared EXCEPT ![memory] = [shared[memory] EXCEPT !.ready = 0]]
      /\ UNCHANGED <<asked, worker, memory, threads, handlers, trace>>
  BY DEF N!ClearReady
<1>2. shared[memory] \in Memories
  BY <1>1, UnderWay
<1>3. [shared[memory] EXCEPT !.ready = 0] \in Memories
  BY <1>2 DEF Memories
<1>4. shared' \in Seq(Memories) /\ Len(shared') = Len(shared)
  BY <1>1, <1>3, Cleared
<1>5. NetTypeInv' /\ OwnMemory' /\ InStep' /\ N!OwnAnswer'
  BY <1>1, <1>4 DEF NetIInv, NetTypeInv, OwnMemory, InStep, N!OwnAnswer, Clearing, Posted
<1>6. FindsItsOwn'
  BY <1>1 DEF NetIInv, FindsItsOwn, Posted, Written, NoneUnreadable
<1>7. QED
  BY <1>5, <1>6 DEF NetIInv

LEMMA ClearLengthKeeps == NetIInv /\ N!ClearLength => NetIInv'
<1> SUFFICES ASSUME NetIInv, N!ClearLength PROVE NetIInv'
  OBVIOUS
<1>1. /\ caller = "clear length" /\ caller' = "post"
      /\ shared' = [shared EXCEPT ![memory] = [shared[memory] EXCEPT !.length = 0]]
      /\ UNCHANGED <<asked, worker, memory, threads, handlers, trace>>
  BY DEF N!ClearLength
<1>2. shared[memory] \in Memories
  BY <1>1, UnderWay
<1>3. /\ [shared[memory] EXCEPT !.length = 0] \in Memories
      /\ [shared[memory] EXCEPT !.length = 0].length = 0
  BY <1>2 DEF Memories
<1>4. shared' \in Seq(Memories) /\ Len(shared') = Len(shared) /\ shared'[memory].length = 0
  BY <1>1, <1>3, Cleared
<1>5. NetTypeInv' /\ OwnMemory' /\ InStep' /\ N!OwnAnswer'
  BY <1>1, <1>4 DEF NetIInv, NetTypeInv, OwnMemory, InStep, N!OwnAnswer, Clearing, Posted
<1>6. FindsItsOwn'
  BY <1>1, <1>4 DEF NetIInv, FindsItsOwn, Posted, Written, NoneUnreadable
<1>7. QED
  BY <1>5, <1>6 DEF NetIInv

LEMMA PostKeeps == NetIInv /\ N!Post => NetIInv'
<1> SUFFICES ASSUME NetIInv, N!Post PROVE NetIInv'
  OBVIOUS
<1> DEFINE h == [thread |-> worker, pc |-> "posted"]
<1>1. /\ caller = "post" /\ caller' = "wait" /\ handlers' = [r \in DOMAIN handlers \cup {asked} |-> IF r = asked THEN h ELSE handlers[r]]
      /\ UNCHANGED <<asked, worker, memory, threads, shared, trace>>
  BY DEF N!Post
<1>2. /\ worker # N!None /\ worker \in 1 .. Len(threads) /\ asked \in Nat
      /\ asked \notin DOMAIN handlers /\ Len(trace) = asked - 1 /\ Len(trace) \in Nat
  BY <1>1, Shape, UnderWay DEF NetIInv, InStep, Clearing
<1>3. h \in [thread : 1 .. Len(threads), pc : NetPlaces] /\ h.thread = worker /\ h.pc = "posted"
  BY <1>2 DEF NetPlaces, N!None
<1> HIDE DEF h
<1>4. /\ DOMAIN handlers' = DOMAIN handlers \cup {asked} /\ handlers'[asked] = h
      /\ \A r \in DOMAIN handlers : handlers'[r] = handlers[r] /\ r # asked
  BY <1>1, <1>2
<1>5. asked \in 1 .. asked
  BY <1>2
<1>6. NetTypeInv'
  BY <1>1, <1>3, <1>4, <1>5 DEF NetIInv, NetTypeInv, Posted
<1>7. OwnMemory' /\ N!OwnAnswer'
  BY <1>1, <1>2 DEF NetIInv, OwnMemory, N!OwnAnswer
<1>8. InStep'
  BY <1>1, <1>2, <1>3, <1>4 DEF InStep, Clearing, Posted
<1>9. FindsItsOwn'
  <2>1. SUFFICES ASSUME NoneUnreadable
                 PROVE  /\ \A r \in DOMAIN handlers' :
                             handlers'[r].thread = worker /\ r # asked => Written(r)'
                        /\ shared[memory].length = 0 /\ handlers'[asked].pc # "fits"
    BY <1>1 DEF FindsItsOwn, NoneUnreadable, Posted
  <2>2. /\ \A r \in DOMAIN handlers : handlers[r].thread = worker /\ r # asked => Written(r)
        /\ shared[memory].length = 0
    BY <1>1, <1>2, <2>1 DEF NetIInv, FindsItsOwn
  <2>3. \A r \in DOMAIN handlers' :
          handlers'[r].thread = worker /\ r # asked => Written(r)'
    BY <1>4, <2>2 DEF Written
  <2>4. QED
    BY <1>3, <1>4, <2>2, <2>3
<1>10. QED
  BY <1>6, <1>7, <1>8, <1>9 DEF NetIInv

LEMMA WaitKeeps == NetIInv /\ N!Wait => NetIInv'
<1> SUFFICES ASSUME NetIInv, N!Wait PROVE NetIInv'
  OBVIOUS
<1>1. /\ caller = "wait" /\ caller' \in {"asleep", "collect"}
      /\ UNCHANGED <<asked, worker, memory, threads, handlers, shared, trace>>
  BY DEF N!Wait
<1>2. NetTypeInv' /\ OwnMemory' /\ InStep' /\ N!OwnAnswer'
  BY <1>1 DEF NetIInv, NetTypeInv, OwnMemory, InStep, N!OwnAnswer, Clearing, Posted
<1>3. FindsItsOwn'
  BY <1>1 DEF NetIInv, FindsItsOwn, Posted, Written, NoneUnreadable
<1>4. QED
  BY <1>2, <1>3 DEF NetIInv

LEMMA TimesOutKeeps == NetIInv /\ N!TimesOut => NetIInv'
<1> SUFFICES ASSUME NetIInv, N!TimesOut PROVE NetIInv'
  OBVIOUS
<1> DEFINE t == [of |-> asked, came |-> "timeout", from |-> N!None]
           given == [threads[worker] EXCEPT !.ending = TRUE]
<1>1. /\ caller = "asleep" /\ caller' = "idle" /\ worker' = N!None
      /\ threads' = [threads EXCEPT ![worker] = given] /\ trace' = Append(trace, t)
      /\ UNCHANGED <<asked, memory, handlers, shared>>
  BY DEF N!TimesOut, N!Return
<1>2. /\ worker # N!None /\ worker \in 1 .. Len(threads) /\ asked \in Nat
      /\ Len(trace) = asked - 1 /\ Len(trace) \in Nat /\ threads \in Seq(Threads)
  BY <1>1, Shape, UnderWay DEF NetIInv, InStep, NetTypeInv
<1>3. t \in Outcomes /\ t.of = asked /\ t.came # "reply"
  BY <1>2 DEF Outcomes, N!None
<1>4. given \in Threads /\ given.memory = threads[worker].memory
  <2>1. threads[worker] \in Threads
    BY <1>2, ElementOfSeq
  <2>2. QED
    BY <2>1 DEF Threads
<1> HIDE DEF t, given
<1>5. /\ threads' \in Seq(Threads) /\ Len(threads') = Len(threads)
      /\ \A i \in 1 .. Len(threads) : threads'[i].memory = threads[i].memory
  <2>1. /\ threads' \in Seq(Threads) /\ Len(threads') = Len(threads)
        /\ \A i \in 1 .. Len(threads) : threads'[i] = IF i = worker THEN given ELSE threads[i]
    BY <1>1, <1>2, <1>4, ExceptSeq
  <2>2. QED
    BY <1>4, <2>1
<1>6. trace' \in Seq(Outcomes) /\ Len(trace') = asked
  BY <1>1, <1>2, <1>3, Recorded
<1>7. N!OwnAnswer'
  BY <1>1, <1>2, <1>3, OutcomeKept
<1>8. NetTypeInv'
  BY <1>1, <1>5, <1>6 DEF NetIInv, NetTypeInv
<1>9. OwnMemory' /\ InStep' /\ FindsItsOwn'
  BY <1>1, <1>5, <1>6 DEF NetIInv, OwnMemory, InStep, FindsItsOwn, Clearing, Posted
<1>10. QED
  BY <1>7, <1>8, <1>9 DEF NetIInv

LEMMA CollectKeeps == NetIInv /\ N!Collect => NetIInv'
<1> SUFFICES ASSUME NetIInv, N!Collect PROVE NetIInv'
  OBVIOUS
<1>1. PICK t \in Outcomes :
        /\ t.of = asked /\ trace' = Append(trace, t)
        /\ t.came = "reply" => shared[memory].length = 1 /\ t.from = shared[memory].data
        /\ t.came # "unreadable" => shared[memory].length # 0
  <2>1. asked \in Nat /\ shared[memory] \in Memories
    BY Shape, UnderWay DEF N!Collect
  <2>2. shared[memory].data \in Nat /\ shared[memory].length \in {N!TooLarge, 0, 1}
    BY <2>1 DEF Memories
  <2>3. CASE shared[memory].length = N!TooLarge
    <3>1. trace' = Append(trace, [of |-> asked, came |-> "too_large", from |-> N!None])
      BY <2>3 DEF N!Collect, N!Return
    <3>2. [of |-> asked, came |-> "too_large", from |-> N!None] \in Outcomes
      BY <2>1 DEF Outcomes, N!None
    <3>3. QED
      BY <2>3, <3>1, <3>2 DEF N!TooLarge
  <2>4. CASE shared[memory].length = 0
    <3>1. trace' = Append(trace, [of |-> asked, came |-> "unreadable", from |-> N!None])
      BY <2>4 DEF N!Collect, N!Return, N!TooLarge
    <3>2. [of |-> asked, came |-> "unreadable", from |-> N!None] \in Outcomes
      BY <2>1 DEF Outcomes, N!None
    <3>3. QED
      BY <3>1, <3>2
  <2>5. CASE shared[memory].length = 1
    <3>1. trace' = Append(trace, [of |-> asked, came |-> "reply", from |-> shared[memory].data])
      BY <2>5 DEF N!Collect, N!Return, N!TooLarge
    <3>2. [of |-> asked, came |-> "reply", from |-> shared[memory].data] \in Outcomes
      BY <2>1, <2>2 DEF Outcomes
    <3>3. QED
      BY <2>5, <3>1, <3>2
  <2>6. QED
    BY <2>2, <2>3, <2>4, <2>5
<1>2. /\ caller = "collect" /\ caller' = "idle"
      /\ UNCHANGED <<asked, worker, memory, threads, shared, handlers>>
  BY DEF N!Collect, N!Return
<1>3. /\ worker # N!None /\ asked \in Nat /\ Len(trace) = asked - 1 /\ Len(trace) \in Nat
      /\ asked \in DOMAIN handlers
  BY <1>2, Shape, UnderWay DEF NetIInv, InStep, Posted
<1>4. /\ trace' \in Seq(Outcomes) /\ Len(trace') = asked
      /\ NoneUnreadable' => NoneUnreadable /\ t.came # "unreadable"
  BY <1>1, <1>3, Recorded
<1>5. NoneUnreadable =>
        /\ \A r \in DOMAIN handlers : handlers[r].thread = worker /\ r # asked => Written(r)
        /\ shared[memory].length # 0 => Written(asked)
        /\ shared[memory].length = 1 => shared[memory].data = asked
  BY <1>2, <1>3 DEF NetIInv, FindsItsOwn, Posted
<1>6. N!OwnAnswer'
  BY <1>1, <1>3, <1>5, OutcomeKept
<1>7. NetTypeInv'
  BY <1>2, <1>4 DEF NetIInv, NetTypeInv
<1>8. OwnMemory' /\ InStep'
  BY <1>2, <1>4 DEF NetIInv, OwnMemory, InStep, Clearing, Posted
<1>9. FindsItsOwn'
  <2>1. SUFFICES ASSUME NoneUnreadable'
                 PROVE  \A r \in DOMAIN handlers : handlers[r].thread = worker => Written(r)
    BY <1>2 DEF FindsItsOwn, Posted, Written
  <2>2. Written(asked)
    BY <1>1, <1>4, <1>5, <2>1
  <2>3. QED
    BY <1>4, <1>5, <2>1, <2>2
<1>10. QED
  BY <1>6, <1>7, <1>8, <1>9 DEF NetIInv

-----------------------------------------------------------------------------
(* The worker threads. *)

(* A step of the handler of r goes to p and leaves m in its memory: what a *)
(* reply that is written is not touched, and what is written is of r.      *)
Answering(r, p, m) ==
  LET old == shared[handlers[r].thread] IN
  /\ m \in Memories /\ p \in NetPlaces
  /\ Written(r) => p \in {"ready", "notify", "done"} /\ m.length = old.length /\ m.data = old.data
  /\ ~ Written(r) /\ old.length = 0 =>
       /\ m.length # 0 => p \in {"ready", "notify", "done"}
       /\ m.length = 1 => handlers[r].pc = "fits" /\ m.data = old.data
       /\ p = "fits" => m.data = r

Steps(r, p, m) ==
  /\ Answering(r, p, m)
  /\ handlers' = [handlers EXCEPT ![r].pc = p]
  /\ shared' = [shared EXCEPT ![handlers[r].thread] = m]
  /\ caller' = caller \/ (caller = "asleep" /\ caller' = "collect")
  /\ N!CallerSame

LEMMA StepsKeep ==
  ASSUME NetIInv, NEW r \in DOMAIN handlers, NEW p, NEW m, Steps(r, p, m)
  PROVE  NetIInv'
<1> DEFINE h == handlers[r].thread
<1>1. /\ handlers' = [handlers EXCEPT ![r].pc = p] /\ shared' = [shared EXCEPT ![h] = m]
      /\ UNCHANGED <<asked, worker, memory, threads, trace>>
      /\ caller' = caller \/ (caller = "asleep" /\ caller' = "collect")
      /\ m \in Memories /\ p \in NetPlaces
  BY DEF Steps, N!CallerSame, Answering
<1>2. /\ h \in 1 .. Len(shared) /\ h \in 1 .. Len(threads) /\ shared \in Seq(Memories)
      /\ Len(shared) = Len(threads) /\ Len(threads) \in Nat
  BY Shape DEF NetIInv, NetTypeInv
<1>3. /\ shared' \in Seq(Memories) /\ Len(shared') = Len(shared) /\ shared'[h] = m
      /\ \A i \in 1 .. Len(shared) : i # h => shared'[i] = shared[i]
  BY <1>1, <1>2, ExceptSeq
<1>4. /\ DOMAIN handlers' = DOMAIN handlers /\ handlers'[r] = [handlers[r] EXCEPT !.pc = p]
      /\ \A q \in DOMAIN handlers : q # r => handlers'[q] = handlers[q]
  BY <1>1
<1>5. /\ \A q \in DOMAIN handlers :
           q \in 1 .. asked /\ handlers[q] \in [thread : 1 .. Len(threads), pc : NetPlaces]
      /\ handlers'[r].pc = p /\ handlers'[r].thread = handlers[r].thread
      /\ handlers'[r] \in [thread : 1 .. Len(threads), pc : NetPlaces]
  BY <1>1, <1>4 DEF NetIInv, NetTypeInv
<1>6. NetTypeInv'
  BY <1>1, <1>3, <1>4, <1>5 DEF NetIInv, NetTypeInv, Clearing, Posted
<1>7. OwnMemory' /\ N!OwnAnswer'
  BY <1>1 DEF NetIInv, OwnMemory, N!OwnAnswer
<1>8. InStep'
  BY <1>1, <1>4, <1>5 DEF NetIInv, InStep, Clearing, Posted
<1>9. FindsItsOwn'
  <2>1. SUFFICES ASSUME NoneUnreadable, worker # N!None
                 PROVE  /\ \A q \in DOMAIN handlers' :
                             handlers'[q].thread = worker /\ (caller' = "idle" \/ q # asked) => Written(q)'
                        /\ caller' = "post" => shared'[memory].length = 0
                        /\ Posted' =>
                             /\ shared'[memory].length # 0 => Written(asked)'
                             /\ shared'[memory].length = 1 \/ handlers'[asked].pc = "fits" =>
                                  shared'[memory].data = asked
    BY <1>1 DEF FindsItsOwn, NoneUnreadable
  <2>2. /\ \A q \in DOMAIN handlers :
             handlers[q].thread = worker /\ (caller = "idle" \/ q # asked) => Written(q)
        /\ caller = "post" => shared[memory].length = 0
        /\ Posted =>
             /\ shared[memory].length # 0 => Written(asked)
             /\ shared[memory].length = 1 \/ handlers[asked].pc = "fits" => shared[memory].data = asked
    BY <2>1 DEF NetIInv, FindsItsOwn
  <2>3. /\ memory = worker /\ memory \in 1 .. Len(shared)
        /\ (caller' = "idle" <=> caller = "idle") /\ (caller' = "post" <=> caller = "post")
        /\ (Posted' <=> Posted)
        /\ Posted => asked \in DOMAIN handlers /\ handlers[asked].thread = worker
        /\ caller = "post" => asked \notin DOMAIN handlers
    <3>1. memory = worker /\ memory \in 1 .. Len(shared)
      BY <1>2, <2>1 DEF NetIInv, OwnMemory, N!None
    <3>2. (caller' = "idle" <=> caller = "idle") /\ (caller' = "post" <=> caller = "post")
          /\ (Posted' <=> Posted)
      BY <1>1 DEF Posted
    <3>3. QED
      BY <3>1, <3>2 DEF NetIInv, InStep, Clearing
  <2>4. (\A q \in DOMAIN handlers : q # r => (Written(q)' <=> Written(q)))
        /\ (Written(r)' <=> p \in {"ready", "notify", "done"})
    BY <1>4, <1>5 DEF Written
  <2>5. Written(r) => /\ Written(r)' /\ p # "fits"
                      /\ m.length = shared[h].length /\ m.data = shared[h].data
    BY <2>4 DEF Steps, Answering
  <2>6. \A q \in DOMAIN handlers' :
          handlers'[q].thread = worker /\ (caller' = "idle" \/ q # asked) => Written(q)'
    BY <1>4, <1>5, <2>2, <2>3, <2>4, <2>5
  <2>7. CASE h # worker
    <3>1. shared'[memory] = shared[memory]
      BY <1>3, <2>3, <2>7
    <3>2. Posted => asked # r
      BY <2>3, <2>7
    <3>3. QED
      BY <1>1, <1>4, <2>2, <2>3, <2>6, <3>1, <3>2 DEF Written
  <2>8. CASE h = worker /\ Written(r)
    <3>1. shared'[memory] = m /\ m.length = shared[memory].length /\ m.data = shared[memory].data
      BY <1>3, <2>3, <2>5, <2>8
    <3>2. Posted => \/ asked # r /\ handlers'[asked] = handlers[asked]
                    \/ asked = r /\ handlers'[asked].pc # "fits" /\ Written(asked)'
      BY <1>1, <1>4, <1>5, <2>3, <2>5, <2>8 DEF Written
    <3>3. QED
      BY <1>1, <2>2, <2>3, <2>6, <3>1, <3>2 DEF Written
  <2>9. CASE h = worker /\ ~ Written(r)
    <3>1. r = asked /\ caller # "idle" /\ caller # "post"
      BY <2>2, <2>3, <2>9
    <3>2. Posted => shared[h].length = 0
      BY <2>2, <2>3, <2>9, <3>1
    <3>3. Posted =>
            /\ m.length # 0 => Written(r)'
            /\ m.length = 1 => handlers[r].pc = "fits" /\ m.data = shared[h].data
            /\ p = "fits" => m.data = r
      BY <2>4, <2>9, <3>2 DEF Steps, Answering
    <3>4. shared'[memory] = m
      BY <1>3, <2>3, <2>9
    <3>5. QED
      BY <1>1, <1>5, <2>2, <2>3, <2>6, <2>9, <3>1, <3>3, <3>4 DEF Written
  <2>10. QED
    BY <2>7, <2>8, <2>9
<1>10. QED
  BY <1>6, <1>7, <1>8, <1>9 DEF NetIInv

(* The memory a handler finds, and what writing the same again leaves.     *)
LEMMA ItsMemory ==
  ASSUME NetIInv, NEW r \in DOMAIN handlers
  PROVE  /\ threads[handlers[r].thread].memory = handlers[r].thread
         /\ shared[handlers[r].thread] \in Memories
         /\ shared = [shared EXCEPT ![handlers[r].thread] = shared[handlers[r].thread]]
         /\ r \in Nat /\ handlers[r].pc \in NetPlaces
<1>1. /\ handlers[r].thread \in 1 .. Len(threads) /\ shared \in Seq(Memories) /\ r \in 1 .. asked
      /\ handlers[r].thread \in 1 .. Len(shared) /\ handlers[r].pc \in NetPlaces /\ asked \in Nat
  BY Shape DEF NetIInv, NetTypeInv
<1>2. shared[handlers[r].thread] \in Memories
  BY <1>1, ElementOfSeq
<1>3. shared = [shared EXCEPT ![handlers[r].thread] = shared[handlers[r].thread]]
  BY <1>1
<1>4. QED
  BY <1>1, <1>2, <1>3 DEF NetIInv, OwnMemory

LEMMA TakeSteps ==
  ASSUME NetIInv, NEW r \in DOMAIN handlers, N!Take(r) \/ N!Headers(r)
  PROVE  NetIInv'
<1> DEFINE m == shared[handlers[r].thread]
           p == IF N!Take(r) THEN "fetch" ELSE "body"
<1>1. /\ handlers[r].pc \in {"posted", "fetch"} /\ handlers' = [handlers EXCEPT ![r].pc = p]
      /\ UNCHANGED <<caller, shared>> /\ N!CallerSame /\ p \in {"fetch", "body"}
  BY DEF N!Take, N!Headers, N!Resumes, N!At, N!Go
<1> HIDE DEF p
<1>2. ~ Written(r) /\ p # "fits" /\ p \in NetPlaces /\ m \in Memories
  BY <1>1, ItsMemory DEF Written, NetPlaces
<1>3. Answering(r, p, m)
  BY <1>2 DEF Answering
<1>4. Steps(r, p, m)
  BY <1>1, <1>3, ItsMemory DEF Steps
<1>5. QED
  BY <1>4, StepsKeep

LEMMA EncodeSteps ==
  ASSUME NetIInv, NEW r \in DOMAIN handlers, N!Encode(r)
  PROVE  NetIInv'
<1> DEFINE h == handlers[r].thread
<1>1. handlers[r].pc \in {"fetch", "body"} /\ N!CallerSame /\ UNCHANGED caller
  BY DEF N!Encode, N!Resumes, N!At
<1>2. CASE N!Store(r, "data", r) /\ N!Go(r, "fits")
  <2> DEFINE m == [shared[h] EXCEPT !.data = r]
  <2>1. shared' = [shared EXCEPT ![h] = m]
    BY <1>2, ItsMemory DEF N!Store
  <2>2. m \in Memories /\ m.data = r /\ m.length = shared[h].length
    BY ItsMemory DEF Memories
  <2> HIDE DEF m
  <2>3. Answering(r, "fits", m)
    BY <1>1, <2>2 DEF Answering, Written, NetPlaces
  <2>4. Steps(r, "fits", m)
    BY <1>1, <1>2, <2>1, <2>3 DEF Steps, N!Go
  <2>5. QED
    BY <2>4, StepsKeep
<1>3. CASE UNCHANGED shared /\ N!Go(r, "too large")
  <2> DEFINE p == "too large"
             m == shared[h]
  <2>1. ~ Written(r) /\ p # "fits" /\ p \in NetPlaces /\ m \in Memories
    BY <1>1, ItsMemory DEF Written, NetPlaces
  <2> HIDE DEF p
  <2>2. Answering(r, p, m)
    BY <2>1 DEF Answering
  <2> USE DEF p
  <2>3. Steps(r, "too large", m)
    BY <1>1, <1>3, <2>2, ItsMemory DEF Steps, N!Go
  <2>4. QED
    BY <2>3, StepsKeep
<1>4. QED
  BY <1>2, <1>3 DEF N!Encode

LEMMA StoreLengthSteps ==
  ASSUME NetIInv, NEW r \in DOMAIN handlers, N!StoreLength(r)
  PROVE  NetIInv'
<1> DEFINE h == handlers[r].thread
           l == IF handlers[r].pc = "fits" THEN 1 ELSE N!TooLarge
           m == [shared[h] EXCEPT !.length = l]
<1>1. /\ handlers[r].pc \in {"fits", "too large"} /\ N!CallerSame /\ UNCHANGED caller
      /\ handlers' = [handlers EXCEPT ![r].pc = "ready"]
  BY DEF N!StoreLength, N!At, N!Go
<1>2. shared' = [shared EXCEPT ![h] = m]
  BY ItsMemory DEF N!StoreLength, N!Store, N!At
<1>3. m \in Memories /\ m.data = shared[h].data /\ m.length = l
  BY ItsMemory DEF Memories, N!TooLarge
<1>4. l = 1 => handlers[r].pc = "fits"
  BY DEF N!TooLarge
<1> HIDE DEF m, l
<1>5. Answering(r, "ready", m)
  BY <1>1, <1>3, <1>4 DEF Answering, Written, NetPlaces
<1>6. Steps(r, "ready", m)
  BY <1>1, <1>2, <1>5 DEF Steps
<1>7. QED
  BY <1>6, StepsKeep

LEMMA StoreReadySteps ==
  ASSUME NetIInv, NEW r \in DOMAIN handlers, N!StoreReady(r)
  PROVE  NetIInv'
<1> DEFINE h == handlers[r].thread
           m == [shared[h] EXCEPT !.ready = 1]
<1>1. /\ handlers[r].pc = "ready" /\ N!CallerSame /\ UNCHANGED caller
      /\ handlers' = [handlers EXCEPT ![r].pc = "notify"]
  BY DEF N!StoreReady, N!At, N!Go
<1>2. shared' = [shared EXCEPT ![h] = m]
  BY ItsMemory DEF N!StoreReady, N!Store
<1>3. m \in Memories /\ m.data = shared[h].data /\ m.length = shared[h].length
  BY ItsMemory DEF Memories
<1> HIDE DEF m
<1>4. Answering(r, "notify", m)
  BY <1>1, <1>3 DEF Answering, Written, NetPlaces
<1>5. Steps(r, "notify", m)
  BY <1>1, <1>2, <1>4 DEF Steps
<1>6. QED
  BY <1>5, StepsKeep

LEMMA NotifySteps ==
  ASSUME NetIInv, NEW r \in DOMAIN handlers, N!Notify(r)
  PROVE  NetIInv'
<1> DEFINE m == shared[handlers[r].thread]
<1>1. /\ handlers[r].pc = "notify" /\ N!CallerSame /\ UNCHANGED shared
      /\ handlers' = [handlers EXCEPT ![r].pc = "done"]
      /\ caller' = caller \/ (caller = "asleep" /\ caller' = "collect")
  BY DEF N!Notify, N!At, N!Go
<1>2. Answering(r, "done", m)
  BY <1>1, ItsMemory DEF Answering, Written, NetPlaces
<1>3. Steps(r, "done", m)
  BY <1>1, <1>2, ItsMemory DEF Steps
<1>4. QED
  BY <1>3, StepsKeep

(* What a thread leaves undone when it stops belonged to a worker that was *)
(* given up.                                                               *)
LEMMA NetStopKeeps ==
  ASSUME NetIInv, NEW t \in DOMAIN threads, N!Stop(t)
  PROVE  NetIInv'
<1>1. /\ threads[t].ending
      /\ handlers' = [r \in {q \in DOMAIN handlers : handlers[q].thread # t} |-> handlers[r]]
      /\ UNCHANGED <<caller, shared, asked, worker, memory, threads, trace>>
  BY DEF N!Stop, N!CallerSame
<1>2. worker # N!None => t # worker
  BY <1>1 DEF NetIInv, OwnMemory
<1>3. /\ DOMAIN handlers' \subseteq DOMAIN handlers
      /\ \A r \in DOMAIN handlers' : handlers'[r] = handlers[r]
      /\ \A r \in DOMAIN handlers : handlers[r].thread # t => r \in DOMAIN handlers'
  BY <1>1
<1>4. NetTypeInv' /\ OwnMemory' /\ N!OwnAnswer'
  BY <1>1, <1>3 DEF NetIInv, NetTypeInv, OwnMemory, N!OwnAnswer, Clearing, Posted
<1>5. Posted => asked \in DOMAIN handlers' /\ handlers'[asked] = handlers[asked]
  <2>1. Posted => worker # N!None /\ asked \in DOMAIN handlers /\ handlers[asked].thread = worker
    BY DEF NetIInv, OwnMemory, InStep, Posted
  <2>2. QED
    BY <1>2, <1>3, <2>1
<1>6. InStep'
  BY <1>1, <1>3, <1>5 DEF NetIInv, InStep, Clearing, Posted
<1>7. FindsItsOwn'
  <2>1. SUFFICES ASSUME NoneUnreadable, worker # N!None
                 PROVE  FindsItsOwn'
    BY <1>1 DEF FindsItsOwn, NoneUnreadable
  <2>2. \A r \in DOMAIN handlers' : Written(r)' = Written(r)
    BY <1>3 DEF Written
  <2>3. Posted' = Posted
    BY <1>1 DEF Posted
  <2>4. QED
    BY <1>1, <1>3, <1>5, <2>1, <2>2, <2>3 DEF NetIInv, FindsItsOwn
<1>8. QED
  BY <1>4, <1>6, <1>7 DEF NetIInv

-----------------------------------------------------------------------------
LEMMA NetInitHolds == N!Init => NetIInv
<1> SUFFICES ASSUME N!Init PROVE NetIInv
  OBVIOUS
<1>1. /\ caller = "idle" /\ asked = 0 /\ worker = N!None /\ memory = N!None
      /\ threads = <<>> /\ handlers = <<>> /\ shared = <<>> /\ trace = <<>>
  BY DEF N!Init
<1>2. DOMAIN handlers = {} /\ Len(threads) = 0 /\ Len(shared) = 0 /\ Len(trace) = 0 /\ DOMAIN trace = {}
  BY <1>1
<1>3. threads \in Seq(Threads) /\ shared \in Seq(Memories) /\ trace \in Seq(Outcomes)
  BY <1>1, EmptySeq
<1>4. NetTypeInv
  BY <1>1, <1>2, <1>3 DEF NetTypeInv
<1>5. OwnMemory /\ InStep /\ FindsItsOwn /\ N!OwnAnswer
  BY <1>1, <1>2 DEF OwnMemory, InStep, FindsItsOwn, N!OwnAnswer, N!None, Clearing, Posted
<1>6. QED
  BY <1>4, <1>5 DEF NetIInv

LEMMA NetNextKeeps == NetIInv /\ [N!Next]_netVars => NetIInv'
<1> SUFFICES ASSUME NetIInv, [N!Next]_netVars PROVE NetIInv'
  OBVIOUS
<1>1. CASE \E host \in Hosts : N!Refused(host) \/ N!Begin(host)
  BY <1>1, RefusedKeeps, BeginKeeps
<1>2. CASE N!Caller
  BY <1>2, ClearReadyKeeps, ClearLengthKeeps, PostKeeps, WaitKeeps, TimesOutKeeps, CollectKeeps DEF N!Caller
<1>3. CASE \E r \in DOMAIN handlers :
             N!Take(r) \/ N!Headers(r) \/ N!Encode(r) \/ N!StoreLength(r) \/ N!StoreReady(r) \/ N!Notify(r)
  BY <1>3, TakeSteps, EncodeSteps, StoreLengthSteps, StoreReadySteps, NotifySteps
<1>4. CASE \E t \in DOMAIN threads : N!Stop(t)
  BY <1>4, NetStopKeeps
<1>5. CASE UNCHANGED netVars
  BY <1>5 DEF netVars, NetIInv, NetTypeInv, OwnMemory, InStep, FindsItsOwn, N!OwnAnswer,
              Clearing, Posted, Written, NoneUnreadable
<1>6. QED
  BY <1>1, <1>2, <1>3, <1>4, <1>5 DEF N!Next

(* A request comes to its own answer or to none, whatever hosts there are, *)
(* however many requests, and however late a worker that was given up      *)
(* writes (net.js request, netWorker.mjs).                                 *)
THEOREM Answered == MCSpec => []OwnAnswer
<1>1. MCInit => NetIInv
  BY NetInitHolds DEF MCInit
<1>2. NetIInv /\ [MCNext]_<<part, vars, netVars>> => NetIInv'
  <2> SUFFICES ASSUME NetIInv, [MCNext]_<<part, vars, netVars>> PROVE NetIInv'
    OBVIOUS
  <2>1. [N!Next]_netVars
    BY DEF MCNext, netVars
  <2>2. QED
    BY <2>1, NetNextKeeps
<1>3. NetIInv => OwnAnswer
  BY DEF NetIInv, OwnAnswer
<1>4. QED
  BY <1>1, <1>2, <1>3, PTL DEF MCSpec
=============================================================================
