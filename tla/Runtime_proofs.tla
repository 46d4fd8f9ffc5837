---------------------------- MODULE Runtime_proofs -----------------------------
(***************************************************************************)
(* Proofs about Runtime, for any values of its constants.                  *)
(***************************************************************************)
EXTENDS Runtime, SequenceTheorems, FiniteSetTheorems, WellFoundedInduction, TLAPS

runtimeVars == <<part, stateVars>>

-----------------------------------------------------------------------------
(* Budgets. *)

BP == INSTANCE Budgets_proofs

(* The budgets that are explored are those that are proved about.          *)
LEMMA SameBudgets ==
  /\ B!Init => BP!Init
  /\ [B!Next]_budgetVars => [BP!Next]_BP!vars
  /\ B!BudgetsAssumption <=> BP!BudgetsAssumption
<1>1. B!Init => BP!Init
  BY DEF B!Init, B!Quiet, B!NoLimit, BP!Init, BP!Quiet, BP!NoLimit
<1>2. B!Next => BP!Next
  BY DEF B!Next, B!Running, B!Depth, B!Top, B!Block, B!BudgetsOf, B!AnyBudget, B!Retuned, B!Push,
         B!EnterAttempt, B!Remaining, B!Allowed, B!EnterBudget, B!EnterTrial, B!Close, B!Leave,
         B!Home, B!Past, B!Unwind, B!Report, B!Raise, B!Exhausted, B!Outermost, B!CurrentTrial,
         B!Charge, B!Due, B!TickCompiled, B!TickTree, B!Spend, B!Quiet, B!Failed, B!NoLimit, B!Front, B!Last,
         BP!Next, BP!Running, BP!Depth, BP!Top, BP!Block, BP!BudgetsOf, BP!AnyBudget, BP!Retuned, BP!Push,
         BP!EnterAttempt, BP!Remaining, BP!Allowed, BP!EnterBudget, BP!EnterTrial, BP!Close, BP!Leave,
         BP!Home, BP!Past, BP!Unwind, BP!Report, BP!Raise, BP!Exhausted, BP!Outermost, BP!CurrentTrial,
         BP!Charge, BP!Due, BP!TickCompiled, BP!TickTree, BP!Spend, BP!Quiet, BP!Failed, BP!NoLimit, BP!Front, BP!Last
<1>3. B!BudgetsAssumption <=> BP!BudgetsAssumption
  BY DEF B!BudgetsAssumption, BP!BudgetsAssumption
<1>4. QED
  BY <1>1, <1>2, <1>3 DEF budgetVars, BP!vars

LEMMA BudgetsRun == Spec => BP!Spec
<1>1. Init => BP!Init
  BY SameBudgets DEF Init, PartsInit
<1>2. [Next]_runtimeVars => [BP!Next]_BP!vars
  BY SameBudgets DEF Next, runtimeVars, stateVars, budgetVars, BP!vars
<1>3. QED
  BY <1>1, <1>2, PTL DEF Spec, BP!Spec, runtimeVars

(* The tick check of compiled code and the memory flag are never stale     *)
(* (interpreter.js retuneTick, hasMemoryBudget).                           *)
THEOREM CachedLimits == Spec => []LimitsFresh
<1>1. Spec => []BP!LimitsFresh
  BY RuntimeAssumption, SameBudgets, BudgetsRun, BP!CachedLimits
<1>2. BP!LimitsFresh => LimitsFresh
  BY DEF BP!LimitsFresh, BP!Retuned, BP!AnyBudget, BP!BudgetsOf,
         LimitsFresh, B!LimitsFresh, B!Retuned, B!AnyBudget, B!BudgetsOf
<1>3. QED
  BY <1>1, <1>2, PTL

(* Nothing runs past a budget or a trial's limit, and budgets tighten      *)
(* inwards.                                                                *)
THEOREM BudgetsHold == Spec => []WithinBudget
<1>1. Spec => []BP!WithinBudget
  BY RuntimeAssumption, SameBudgets, BudgetsRun, BP!BudgetsHold
<1>2. BP!WithinBudget => WithinBudget
  BY DEF BP!WithinBudget, BP!Depth, BP!Running, BP!BudgetsOf, BP!Remaining,
         WithinBudget, B!WithinBudget, B!Depth, B!Running, B!BudgetsOf, B!Remaining
<1>3. QED
  BY <1>1, <1>2, PTL

(* A budget's stop unwinds one block at a time to the block of the budget, *)
(* past every attempt and trial.                                           *)
THEOREM StopsGoHome == Spec => StopsNotCaught
<1>1. Spec => BP!StopsNotCaught
  BY RuntimeAssumption, SameBudgets, BudgetsRun, BP!StopsGoHome
<1>2. BP!StopsNotCaught => StopsNotCaught
  BY DEF BP!StopsNotCaught, BP!Home, BP!Depth, BP!Failed, BP!vars,
         StopsNotCaught, B!StopsNotCaught, B!Home, B!Depth, B!Failed, B!vars
<1>3. QED
  BY <1>1, <1>2

-----------------------------------------------------------------------------
(* Sequences and numbers. *)

Listed(s) == s \in Seq({s[i] : i \in DOMAIN s})

LEMMA ListedIs ==
  ASSUME NEW D, NEW s \in Seq(D)
  PROVE  Listed(s) /\ Len(s) \in Nat /\ DOMAIN s = 1 .. Len(s)
<1>1. Len(s) \in Nat /\ DOMAIN s = 1 .. Len(s) /\ s = [i \in 1 .. Len(s) |-> s[i]]
  OBVIOUS
<1> DEFINE E == {s[i] : i \in DOMAIN s}
           e(i) == s[i]
<1>2. \A i \in 1 .. Len(s) : e(i) \in E
  BY <1>1
<1> HIDE DEF E
<1>3. [i \in 1 .. Len(s) |-> e(i)] \in Seq(E)
  BY <1>1, <1>2, IsASeq
<1>4. QED
  BY <1>1, <1>3 DEF Listed, E

LEMMA ListedLen ==
  ASSUME NEW s, Listed(s)
  PROVE  Len(s) \in Nat /\ DOMAIN s = 1 .. Len(s)
BY LenProperties DEF Listed

LEMMA AppendListed ==
  ASSUME NEW s, NEW x, Listed(s)
  PROVE  /\ Listed(Append(s, x)) /\ Len(Append(s, x)) = Len(s) + 1
         /\ Append(s, x)[Len(s) + 1] = x
         /\ \A i \in 1 .. Len(s) : Append(s, x)[i] = s[i]
<1> DEFINE E == {s[i] : i \in DOMAIN s} \cup {x}
<1>1. s \in Seq(E) /\ x \in E
  BY SeqMonotonic DEF Listed
<1> HIDE DEF E
<1>2. /\ Append(s, x) \in Seq(E) /\ Len(Append(s, x)) = Len(s) + 1
      /\ Append(s, x)[Len(s) + 1] = x
      /\ \A i \in 1 .. Len(s) : Append(s, x)[i] = s[i]
  BY <1>1, AppendProperties
<1>3. QED
  BY <1>2, ListedIs

LEMMA ConcatListed ==
  ASSUME NEW s, NEW t, Listed(s), Listed(t)
  PROVE  /\ Listed(s \o t) /\ Len(s \o t) = Len(s) + Len(t)
         /\ \A i \in 1 .. Len(s) : (s \o t)[i] = s[i]
         /\ \A i \in 1 .. Len(t) : (s \o t)[Len(s) + i] = t[i]
<1> DEFINE E == {s[i] : i \in DOMAIN s} \cup {t[i] : i \in DOMAIN t}
<1>1. s \in Seq(E) /\ t \in Seq(E)
  BY SeqMonotonic DEF Listed
<1> HIDE DEF E
<1>2. Len(s) \in Nat /\ Len(t) \in Nat
  BY ListedLen
<1>3. /\ s \o t \in Seq(E) /\ Len(s \o t) = Len(s) + Len(t)
      /\ \A i \in 1 .. Len(s) + Len(t) : (s \o t)[i] = IF i <= Len(s) THEN s[i] ELSE t[i - Len(s)]
  BY <1>1, ConcatProperties
<1>4. \A i \in 1 .. Len(s) : i \in 1 .. Len(s) + Len(t) /\ i <= Len(s)
  BY <1>2
<1>5. \A i \in 1 .. Len(t) : /\ Len(s) + i \in 1 .. Len(s) + Len(t) /\ ~ (Len(s) + i <= Len(s))
                             /\ (Len(s) + i) - Len(s) = i
  BY <1>2
<1>6. QED
  BY <1>3, <1>4, <1>5, ListedIs

(* A sequence given element by element.                                    *)
LEMMA GivenListed ==
  ASSUME NEW n \in Nat, NEW f, f = [i \in 1 .. n |-> f[i]]
  PROVE  Listed(f) /\ Len(f) = n
<1> DEFINE E == {f[i] : i \in 1 .. n}
           e(i) == f[i]
<1>1. \A i \in 1 .. n : e(i) \in E
  OBVIOUS
<1>2. DOMAIN f = 1 .. n
  OBVIOUS
<1> HIDE DEF E
<1>3. [i \in 1 .. n |-> e(i)] \in Seq(E)
  BY <1>1, IsASeq
<1>4. f \in Seq(E)
  BY <1>3
<1>5. Listed(f) /\ DOMAIN f = 1 .. Len(f) /\ Len(f) \in Nat
  BY <1>4, ListedIs
<1>6. Len(f) = n
  BY <1>2, <1>5
<1>7. QED
  BY <1>5, <1>6

(* A non-empty set of natural numbers has a least one.                     *)
LEMMA LeastNatural ==
  ASSUME NEW N \in SUBSET Nat, N # {}
  PROVE  S!Min(N) \in N /\ \A n \in N : S!Min(N) <= n
<1> DEFINE Less == OpToRel(<, Nat)
<1>1. IsWellFoundedOn(Less, Nat)
  BY NatLessThanWellFounded
<1>2. \A m, n \in Nat : m < n => <<m, n>> \in Less
  BY DEF OpToRel
<1> HIDE DEF Less
<1>3. PICK m \in N : \A n \in N : <<n, m>> \notin Less
  BY <1>1, WFMin
<1>4. \A n \in N : ~ (n < m)
  BY <1>2, <1>3
<1>5. \A n \in N : m <= n
  <2> TAKE n \in N
  <2>1. m \in Nat /\ n \in Nat /\ ~ (n < m)
    BY <1>4
  <2>2. QED
    BY <2>1
<1>6. QED
  BY <1>5 DEF S!Min

-----------------------------------------------------------------------------
(* Snapshots. *)

IsAgent(a) == a = [id |-> a.id, template |-> a.template, mail |-> a.mail] /\ a.id \in Nat

AgentsTyped ==
  /\ Listed(made) /\ \A i \in 1 .. Len(made) : IsAgent(made[i])
  /\ Listed(agents) /\ \A i \in 1 .. Len(agents) : agents[i] \in 1 .. Len(made)
  /\ nextId \in Nat

SavedTyped ==
  saved # <<>> =>
    /\ Listed(saved.agents) /\ \A i \in 1 .. Len(saved.agents) : IsAgent(saved.agents[i])
    /\ saved.nextId \in Nat

LoopTyped ==
  loop # <<>> =>
    /\ loop = [pass |-> loop.pass, at |-> loop.at,
               progressed |-> loop.progressed, handling |-> loop.handling]
    /\ Listed(loop.pass) /\ \A i \in 1 .. Len(loop.pass) : loop.pass[i] \in Nat \ {0}
    /\ loop.at \in Nat \ {0}

(* The numbers of the agents there are and of those saved.                 *)
OwnNumbers ==
  ~torn =>
    /\ \A i, j \in 1 .. Len(agents) : made[agents[i]].id = made[agents[j]].id => i = j
    /\ \A i \in 1 .. Len(agents) : made[agents[i]].id < nextId

SavedOwn ==
  saved # <<>> /\ ~saved.torn =>
    /\ \A i, j \in 1 .. Len(saved.agents) : saved.agents[i].id = saved.agents[j].id => i = j
    /\ \A i \in 1 .. Len(saved.agents) : saved.agents[i].id < saved.nextId

(* A pass without progress goes through the agents there are, and those it *)
(* has passed have no mail.                                                *)
Passing ==
  loop # <<>> /\ loop.handling = 0 /\ ~loop.progressed =>
    /\ loop.pass = agents
    /\ \A i \in 1 .. Len(agents) : i < loop.at => made[agents[i]].mail = <<>>

SnapTyped == AgentsTyped /\ SavedTyped /\ LoopTyped
SnapInv == SnapTyped /\ OwnNumbers /\ SavedOwn /\ Passing

LEMMA OwnNumbersAre == AgentsTyped => (OwnNumbers <=> S!NumbersAreOwn)
<1> SUFFICES ASSUME AgentsTyped PROVE OwnNumbers <=> S!NumbersAreOwn
  OBVIOUS
<1>1. DOMAIN agents = 1 .. Len(agents)
  BY ListedLen DEF AgentsTyped
<1>2. QED
  BY <1>1 DEF OwnNumbers, S!NumbersAreOwn, S!Distinct

LEMMA SnapInit == S!Init => SnapInv
<1> SUFFICES ASSUME S!Init PROVE SnapInv
  OBVIOUS
<1>1. Listed(made) /\ Listed(agents) /\ Len(made) = 0 /\ Len(agents) = 0
  <2>1. <<>> \in Seq({}) /\ Len(<<>>) = 0
    OBVIOUS
  <2>2. Listed(<<>>)
    BY <2>1, ListedIs
  <2>3. QED
    BY <2>1, <2>2 DEF S!Init
<1>2. QED
  BY <1>1 DEF S!Init, SnapInv, SnapTyped, AgentsTyped, SavedTyped, LoopTyped, OwnNumbers, SavedOwn, Passing

(* Agents keep their numbers and mail while only mail changes, and nothing *)
(* is in the way of a pass while a handler runs or no loop does.           *)
LEMMA SpawnKeeps ==
  ASSUME SnapInv, NEW n, NEW t, S!Spawn(n, t)
  PROVE  SnapInv'
<1> DEFINE a == S!Agent(nextId, t)
<1>1. /\ S!Running /\ made' = Append(made, a) /\ agents' = Append(agents, Len(made'))
      /\ nextId' = nextId + 1 /\ UNCHANGED <<saved, loop, torn>>
  BY DEF S!Spawn
<1>2. IsAgent(a) /\ a.id = nextId
  BY DEF S!Agent, IsAgent, SnapInv, SnapTyped, AgentsTyped
<1> HIDE DEF a
<1>3. /\ Listed(made') /\ Len(made') = Len(made) + 1 /\ made'[Len(made) + 1] = a
      /\ \A i \in 1 .. Len(made) : made'[i] = made[i]
      /\ Len(made) \in Nat
  BY <1>1, AppendListed, ListedLen DEF SnapInv, SnapTyped, AgentsTyped
<1>4. /\ Listed(agents') /\ Len(agents') = Len(agents) + 1 /\ agents'[Len(agents) + 1] = Len(made) + 1
      /\ \A i \in 1 .. Len(agents) : agents'[i] = agents[i]
      /\ Len(agents) \in Nat
  BY <1>1, <1>3, AppendListed, ListedLen DEF SnapInv, SnapTyped, AgentsTyped
<1>5. SnapTyped'
  <2>1. AgentsTyped'
    <3>1. \A i \in 1 .. Len(made') : IsAgent(made'[i])
      <4> SUFFICES ASSUME NEW i \in 1 .. Len(made') PROVE IsAgent(made'[i])
        OBVIOUS
      <4>1. CASE i \in 1 .. Len(made)
        BY <4>1, <1>3 DEF SnapInv, SnapTyped, AgentsTyped
      <4>2. CASE i = Len(made) + 1
        BY <4>2, <1>2, <1>3
      <4>3. QED
        BY <4>1, <4>2, <1>3
    <3>2. \A i \in 1 .. Len(agents') : agents'[i] \in 1 .. Len(made')
      <4> SUFFICES ASSUME NEW i \in 1 .. Len(agents') PROVE agents'[i] \in 1 .. Len(made')
        OBVIOUS
      <4>1. CASE i \in 1 .. Len(agents)
        BY <4>1, <1>3, <1>4 DEF SnapInv, SnapTyped, AgentsTyped
      <4>2. CASE i = Len(agents) + 1
        BY <4>2, <1>3, <1>4
      <4>3. QED
        BY <4>1, <4>2, <1>4
    <3>3. nextId' \in Nat
      BY <1>1 DEF SnapInv, SnapTyped, AgentsTyped
    <3>4. QED
      BY <1>3, <1>4, <3>1, <3>2, <3>3 DEF AgentsTyped
  <2>2. SavedTyped'
    BY <1>1 DEF SnapInv, SnapTyped, SavedTyped
  <2>3. LoopTyped'
    BY <1>1 DEF SnapInv, SnapTyped, LoopTyped
  <2>4. QED
    BY <2>1, <2>2, <2>3 DEF SnapTyped
<1>6. OwnNumbers'
  <2> SUFFICES ASSUME ~torn
               PROVE  /\ \A i, j \in 1 .. Len(agents') : made'[agents'[i]].id = made'[agents'[j]].id => i = j
                      /\ \A i \in 1 .. Len(agents') : made'[agents'[i]].id < nextId'
    BY <1>1 DEF OwnNumbers
  <2> DEFINE id(i) == made'[agents'[i]].id
  <2>1. \A i \in 1 .. Len(agents) : /\ id(i) = made[agents[i]].id
                                    /\ id(i) \in Nat /\ id(i) < nextId
    BY <1>3, <1>4 DEF SnapInv, SnapTyped, AgentsTyped, OwnNumbers, IsAgent
  <2>2. id(Len(agents) + 1) = nextId
    BY <1>2, <1>3, <1>4
  <2>3. \A i, j \in 1 .. Len(agents) : id(i) = id(j) => i = j
    BY <2>1 DEF SnapInv, OwnNumbers
  <2>4. nextId \in Nat /\ nextId' = nextId + 1
    BY <1>1 DEF SnapInv, SnapTyped, AgentsTyped
  <2> HIDE DEF id
  <2>5. \A i \in 1 .. Len(agents') : i \in 1 .. Len(agents) \/ i = Len(agents) + 1
    BY <1>4
  <2>6. \A i \in 1 .. Len(agents') : id(i) < nextId'
    BY <2>1, <2>2, <2>4, <2>5
  <2>7. \A i, j \in 1 .. Len(agents') : id(i) = id(j) => i = j
    BY <2>1, <2>2, <2>3, <2>4, <2>5
  <2>8. QED
    BY <2>6, <2>7 DEF id
<1>7. SavedOwn'
  BY <1>1 DEF SnapInv, SavedOwn
<1>8. Passing'
  BY <1>1 DEF SnapInv, Passing, S!Running
<1>9. QED
  BY <1>5, <1>6, <1>7, <1>8 DEF SnapInv

LEMMA MailKeeps ==
  ASSUME SnapTyped, OwnNumbers, SavedOwn, NEW b, NEW mail,
         made' = [made EXCEPT ![b].mail = mail], UNCHANGED <<agents, nextId, saved, torn>>
  PROVE  AgentsTyped' /\ SavedTyped' /\ OwnNumbers' /\ SavedOwn'
<1> DEFINE a == [made[b] EXCEPT !.mail = mail]
<1>1. made' = [made EXCEPT ![b] = a]
  OBVIOUS
<1>2. ASSUME b \in 1 .. Len(made)
      PROVE  IsAgent(a) /\ a.id = made[b].id
  <2>1. made[b] = [id |-> made[b].id, template |-> made[b].template, mail |-> made[b].mail] /\ made[b].id \in Nat
    BY <1>2 DEF SnapTyped, AgentsTyped, IsAgent
  <2>2. a = [id |-> made[b].id, template |-> made[b].template, mail |-> mail]
    BY <2>1
  <2>3. QED
    BY <2>1, <2>2 DEF IsAgent
<1> HIDE DEF a
<1>3. /\ Listed(made') /\ Len(made') = Len(made) /\ Len(made) \in Nat
      /\ \A i \in 1 .. Len(made) : made'[i] = IF i = b THEN a ELSE made[i]
  <2>1. Len(made) \in Nat /\ DOMAIN made = 1 .. Len(made)
    BY ListedLen DEF SnapTyped, AgentsTyped
  <2>2. made = [i \in 1 .. Len(made) |-> made[i]]
    <3>1. made \in Seq({made[i] : i \in DOMAIN made})
      BY DEF SnapTyped, AgentsTyped, Listed
    <3>2. QED
      BY <3>1
  <2>3. made' = [i \in 1 .. Len(made) |-> made'[i]]
    BY <1>1, <2>1, <2>2
  <2>4. Listed(made') /\ Len(made') = Len(made)
    BY <2>1, <2>3, GivenListed
  <2>5. \A i \in 1 .. Len(made) : made'[i] = IF i = b THEN a ELSE made[i]
    BY <1>1, <2>1
  <2>6. QED
    BY <2>1, <2>4, <2>5
<1>4. \A i \in 1 .. Len(made) : IsAgent(made'[i]) /\ made'[i].id = made[i].id
  BY <1>2, <1>3 DEF SnapTyped, AgentsTyped
<1>5. AgentsTyped'
  BY <1>3, <1>4 DEF SnapTyped, AgentsTyped
<1>6. \A i \in 1 .. Len(agents) : made'[agents[i]].id = made[agents[i]].id
  BY <1>4 DEF SnapTyped, AgentsTyped
<1>7. OwnNumbers'
  BY <1>6 DEF OwnNumbers
<1>8. QED
  BY <1>5, <1>7 DEF SnapTyped, SavedTyped, SavedOwn

LEMMA SendKeeps ==
  ASSUME SnapInv, NEW a, NEW v, S!Send(a, v)
  PROVE  SnapInv'
<1>1. AgentsTyped' /\ SavedTyped' /\ OwnNumbers' /\ SavedOwn'
  BY MailKeeps DEF S!Send, SnapInv
<1>2. S!Running /\ loop' = loop
  BY DEF S!Send
<1>3. LoopTyped' /\ Passing'
  BY <1>2 DEF S!Running, SnapInv, SnapTyped, LoopTyped, Passing
<1>4. QED
  BY <1>1, <1>3 DEF SnapInv, SnapTyped

LEMMA DeliverKeeps ==
  ASSUME SnapInv, S!Deliver
  PROVE  SnapInv'
<1> DEFINE a == loop.pass[loop.at]
<1>1. /\ loop # <<>> /\ loop.handling = 0 /\ loop.at <= Len(loop.pass)
      /\ UNCHANGED <<agents, nextId, saved, torn>>
  BY DEF S!Deliver, S!Between
<1>2. /\ loop.at \in Nat \ {0} /\ loop.at \in 1 .. Len(loop.pass) /\ a \in Nat \ {0}
      /\ Listed(loop.pass) /\ \A i \in 1 .. Len(loop.pass) : loop.pass[i] \in Nat \ {0}
      /\ loop = [pass |-> loop.pass, at |-> loop.at, progressed |-> loop.progressed, handling |-> loop.handling]
  <2>1. loop.at \in Nat \ {0} /\ Len(loop.pass) \in Nat
    BY <1>1, ListedLen DEF SnapInv, SnapTyped, LoopTyped
  <2>2. loop.at \in 1 .. Len(loop.pass)
    BY <1>1, <2>1
  <2>3. QED
    BY <1>1, <2>2 DEF SnapInv, SnapTyped, LoopTyped
<1>3. CASE made[a].mail = <<>>
  <2>1. made' = made /\ loop' = [loop EXCEPT !.at = @ + 1]
    BY <1>3 DEF S!Deliver
  <2>2. loop' = [pass |-> loop.pass, at |-> loop.at + 1,
                 progressed |-> loop.progressed, handling |-> loop.handling]
    BY <1>2, <2>1
  <2>3. LoopTyped'
    BY <1>2, <2>2 DEF LoopTyped
  <2>4. Passing'
    <3> SUFFICES ASSUME ~loop.progressed
                 PROVE  loop.pass = agents /\ \A i \in 1 .. Len(agents) : i < loop.at + 1 => made[agents[i]].mail = <<>>
      BY <1>1, <2>1, <2>2 DEF Passing
    <3>1. loop.pass = agents /\ \A i \in 1 .. Len(agents) : i < loop.at => made[agents[i]].mail = <<>>
      BY <1>1 DEF SnapInv, Passing
    <3>2. \A i \in 1 .. Len(agents) : i < loop.at + 1 => i < loop.at \/ i = loop.at
      BY <1>2
    <3>3. QED
      BY <1>3, <3>1, <3>2
  <2>5. AgentsTyped' /\ SavedTyped' /\ OwnNumbers' /\ SavedOwn'
    BY <1>1, <2>1 DEF SnapInv, SnapTyped, AgentsTyped, SavedTyped, OwnNumbers, SavedOwn
  <2>6. QED
    BY <2>3, <2>4, <2>5 DEF SnapInv, SnapTyped
<1>4. CASE made[a].mail # <<>>
  <2>1. made' = [made EXCEPT ![a].mail = Tail(@)] /\ loop' = [loop EXCEPT !.handling = a]
    BY <1>4 DEF S!Deliver
  <2>2. AgentsTyped' /\ SavedTyped' /\ OwnNumbers' /\ SavedOwn'
    BY <1>1, <2>1, MailKeeps DEF SnapInv
  <2>3. loop' = [pass |-> loop.pass, at |-> loop.at, progressed |-> loop.progressed, handling |-> a]
    BY <1>2, <2>1
  <2>4. LoopTyped' /\ Passing'
    BY <1>2, <2>3 DEF LoopTyped, Passing
  <2>5. QED
    BY <2>2, <2>4 DEF SnapInv, SnapTyped
<1>5. QED
  BY <1>3, <1>4

(* The rest of the loop, and what touches no agent.                        *)
LEMMA LoopKeeps ==
  ASSUME SnapInv,
         \/ S!RunAgents \/ S!HandlerReturns \/ S!HandlerFails \/ S!EndPass \/ S!Settle
         \/ \E n \in GlobalNames, v \in S!Values : S!Assign(n, v)
  PROVE  SnapInv'
<1>1. UNCHANGED <<made, agents, nextId, saved, torn>>
  BY DEF S!RunAgents, S!HandlerReturns, S!HandlerFails, S!EndPass, S!Settle, S!Assign
<1>2. AgentsTyped' /\ SavedTyped' /\ OwnNumbers' /\ SavedOwn'
  BY <1>1 DEF SnapInv, SnapTyped, AgentsTyped, SavedTyped, OwnNumbers, SavedOwn
<1>3. LoopTyped' /\ Passing'
  <2>1. CASE S!RunAgents \/ S!EndPass
    <3>1. loop' = [pass |-> agents, at |-> 1, progressed |-> FALSE, handling |-> 0]
      BY <2>1 DEF S!RunAgents, S!EndPass, S!NextPass
    <3>2. Listed(agents) /\ \A i \in 1 .. Len(agents) : agents[i] \in Nat \ {0}
      BY ListedLen DEF SnapInv, SnapTyped, AgentsTyped
    <3>3. QED
      BY <1>1, <3>1, <3>2 DEF LoopTyped, Passing
  <2>2. CASE S!HandlerReturns
    <3>1. /\ loop = [pass |-> loop.pass, at |-> loop.at, progressed |-> loop.progressed, handling |-> loop.handling]
          /\ Listed(loop.pass) /\ \A i \in 1 .. Len(loop.pass) : loop.pass[i] \in Nat \ {0}
          /\ loop.at \in Nat \ {0}
      BY <2>2 DEF S!HandlerReturns, SnapInv, SnapTyped, LoopTyped
    <3>2. loop' = [pass |-> loop.pass, at |-> loop.at + 1, progressed |-> TRUE, handling |-> 0]
      BY <2>2, <3>1 DEF S!HandlerReturns
    <3>3. QED
      BY <3>1, <3>2 DEF LoopTyped, Passing
  <2>3. CASE S!HandlerFails \/ S!Settle
    BY <2>3 DEF S!HandlerFails, S!Settle, LoopTyped, Passing
  <2>4. CASE \E n \in GlobalNames, v \in S!Values : S!Assign(n, v)
    BY <1>1, <2>4 DEF S!Assign, SnapInv, SnapTyped, LoopTyped, Passing
  <2>5. QED
    BY <2>1, <2>2, <2>3, <2>4
<1>4. QED
  BY <1>2, <1>3 DEF SnapInv, SnapTyped

LEMMA MigrateKeeps ==
  ASSUME SnapInv, NEW templates, S!Migrate(templates)
  PROVE  SnapInv'
<1>1. made' = <<>> /\ agents' = <<>> /\ nextId' = 1 /\ loop' = <<>> /\ torn' = FALSE /\ saved' = saved
  BY DEF S!Migrate
<1>2. Listed(<<>>) /\ Len(<<>>) = 0
  <2>1. <<>> \in Seq({}) /\ Len(<<>>) = 0
    OBVIOUS
  <2>2. QED
    BY <2>1, ListedIs
<1>3. AgentsTyped' /\ LoopTyped' /\ OwnNumbers' /\ Passing'
  BY <1>1, <1>2 DEF AgentsTyped, LoopTyped, OwnNumbers, Passing
<1>4. SavedTyped' /\ SavedOwn'
  BY <1>1 DEF SnapInv, SnapTyped, SavedTyped, SavedOwn
<1>5. QED
  BY <1>3, <1>4 DEF SnapInv, SnapTyped

LEMMA SaveKeeps ==
  ASSUME SnapInv, S!Save
  PROVE  SnapInv'
<1> DEFINE list == [i \in DOMAIN agents |-> [made[agents[i]] EXCEPT !.mail = S!encoded(@, made)]]
<1>1. /\ UNCHANGED <<made, agents, nextId, loop, torn>>
      /\ saved' = [globals |-> S!encoded(globals, made), agents |-> list, nextId |-> nextId, torn |-> torn]
  BY DEF S!Save, S!Snapshot
<1>2. Len(agents) \in Nat /\ DOMAIN agents = 1 .. Len(agents)
  BY ListedLen DEF SnapInv, SnapTyped, AgentsTyped
<1>3. \A i \in 1 .. Len(agents) : IsAgent(list[i]) /\ list[i].id = made[agents[i]].id
  <2> TAKE i \in 1 .. Len(agents)
  <2> DEFINE a == made[agents[i]]
             mail == S!encoded(a.mail, made)
  <2>1. a = [id |-> a.id, template |-> a.template, mail |-> a.mail] /\ a.id \in Nat
    BY DEF SnapInv, SnapTyped, AgentsTyped, IsAgent
  <2>2. list[i] = [a EXCEPT !.mail = mail]
    BY <1>2
  <2> HIDE DEF mail, a, list
  <2>3. list[i] = [id |-> a.id, template |-> a.template, mail |-> mail]
    BY <2>1, <2>2
  <2>4. QED
    BY <2>1, <2>3 DEF IsAgent, a
<1>4. Listed(list) /\ Len(list) = Len(agents)
  <2>1. list = [i \in 1 .. Len(agents) |-> list[i]]
    BY <1>2
  <2> HIDE DEF list
  <2>2. QED
    BY <1>2, <2>1, GivenListed
<1> HIDE DEF list
<1>5. saved'.agents = list /\ saved'.nextId = nextId /\ saved'.torn = torn
  BY <1>1
<1>6. SavedTyped'
  BY <1>3, <1>4, <1>5 DEF SnapInv, SnapTyped, AgentsTyped, SavedTyped
<1>7. SavedOwn'
  BY <1>3, <1>4, <1>5 DEF SnapInv, OwnNumbers, SavedOwn
<1>8. AgentsTyped' /\ LoopTyped' /\ OwnNumbers' /\ Passing'
  BY <1>1 DEF SnapInv, SnapTyped, AgentsTyped, LoopTyped, OwnNumbers, Passing
<1>9. QED
  BY <1>6, <1>7, <1>8 DEF SnapInv, SnapTyped

(* What restore makes of the first agents saved: agents of their numbers,  *)
(* after those made before.                                                *)
LEMMA RestoredAre ==
  ASSUME SnapInv, saved # <<>>, NEW n \in 0 .. Len(saved.agents), NEW few
  PROVE  /\ Listed(S!Restored(n, few)) /\ Len(S!Restored(n, few)) = Len(made) + n /\ Len(made) \in Nat
         /\ \A i \in 1 .. Len(made) : S!Restored(n, few)[i] = made[i]
         /\ \A i \in 1 .. n : /\ IsAgent(S!Restored(n, few)[Len(made) + i])
                              /\ S!Restored(n, few)[Len(made) + i].id = saved.agents[i].id
         /\ Listed(S!Numbers(n)) /\ Len(S!Numbers(n)) = n
         /\ \A i \in 1 .. n : S!Numbers(n)[i] = Len(made) + i
<1> DEFINE one(i) ==
             LET shell == S!Shell(saved.agents[i])
                 fillers == {j \in S!ById(saved.agents[i].id) : j <= few}
             IN IF i = S!Max(S!ById(saved.agents[i].id)) /\ fillers # {}
                  THEN S!Filled(shell, saved.agents[S!Max(fillers)]) ELSE shell
           new == [i \in 1 .. n |-> one(i)]
<1>1. /\ Listed(saved.agents) /\ Len(saved.agents) \in Nat /\ n \in Nat /\ Len(made) \in Nat
      /\ \A i \in 1 .. n : IsAgent(saved.agents[i])
  BY ListedLen DEF SnapInv, SnapTyped, SavedTyped, AgentsTyped
<1>2. \A i \in 1 .. n : IsAgent(one(i)) /\ one(i).id = saved.agents[i].id
  <2> TAKE i \in 1 .. n
  <2> DEFINE s == saved.agents[i]
             shell == S!Shell(s)
  <2>1. /\ shell = [id |-> s.id, template |-> s.template, mail |-> <<>>]
        /\ s.id \in Nat
    BY <1>1 DEF S!Shell, S!Agent, IsAgent
  <2>2. one(i) = shell \/ \E from : one(i) = S!Filled(shell, from)
    OBVIOUS
  <2> HIDE DEF one, shell, s
  <2>3. \A from : S!Filled(shell, from) = [id |-> s.id, template |-> s.template,
                                           mail |-> [m \in DOMAIN from.mail |-> S!decode(from.mail[m])]]
    BY <2>1 DEF S!Filled
  <2>4. \A mail : /\ IsAgent([id |-> s.id, template |-> s.template, mail |-> mail])
                  /\ [id |-> s.id, template |-> s.template, mail |-> mail].id = s.id
    BY <2>1 DEF IsAgent
  <2>5. \E mail : one(i) = [id |-> s.id, template |-> s.template, mail |-> mail]
    BY <2>1, <2>2, <2>3
  <2>6. QED
    BY <2>4, <2>5 DEF s
<1>3. S!Restored(n, few) = made \o new
  BY DEF S!Restored
<1> HIDE DEF one
<1>4. Listed(new) /\ Len(new) = n /\ \A i \in 1 .. n : new[i] = one(i)
  <2>1. new = [i \in 1 .. n |-> new[i]] /\ \A i \in 1 .. n : new[i] = one(i)
    OBVIOUS
  <2> HIDE DEF new
  <2>2. QED
    BY <1>1, <2>1, GivenListed
<1> HIDE DEF new
<1>5. /\ Listed(made \o new) /\ Len(made \o new) = Len(made) + n
      /\ \A i \in 1 .. Len(made) : (made \o new)[i] = made[i]
      /\ \A i \in 1 .. n : (made \o new)[Len(made) + i] = new[i]
  BY <1>4, ConcatListed DEF SnapInv, SnapTyped, AgentsTyped
<1>6. Listed(S!Numbers(n)) /\ Len(S!Numbers(n)) = n /\ \A i \in 1 .. n : S!Numbers(n)[i] = Len(made) + i
  <2> DEFINE f == S!Numbers(n)
  <2>1. f = [i \in 1 .. n |-> f[i]] /\ \A i \in 1 .. n : f[i] = Len(made) + i
    BY DEF S!Numbers, S!Arrived
  <2> HIDE DEF f
  <2>2. Listed(f) /\ Len(f) = n
    BY <1>1, <2>1, GivenListed
  <2>3. QED
    BY <2>1, <2>2 DEF f
<1>7. ASSUME NEW i \in 1 .. n
      PROVE  /\ IsAgent(S!Restored(n, few)[Len(made) + i])
             /\ S!Restored(n, few)[Len(made) + i].id = saved.agents[i].id
  <2>1. S!Restored(n, few)[Len(made) + i] = one(i)
    BY <1>3, <1>4, <1>5, <1>7
  <2>2. QED
    BY <1>2, <1>7, <2>1
<1>8. QED
  BY <1>1, <1>3, <1>5, <1>6, <1>7

LEMMA RestoredKeeps ==
  ASSUME SnapInv, S!Running, saved # <<>>, NEW n \in 0 .. Len(saved.agents), NEW few,
         made' = S!Restored(n, few), agents' = S!Numbers(n), UNCHANGED <<saved, loop>>,
         \/ torn' = TRUE /\ nextId' = nextId
         \/ torn' = saved.torn /\ nextId' = saved.nextId /\ n = Len(saved.agents)
  PROVE  SnapInv'
<1>1. /\ Listed(made') /\ Len(made') = Len(made) + n /\ Len(made) \in Nat
      /\ \A i \in 1 .. Len(made) : made'[i] = made[i]
      /\ \A i \in 1 .. n : IsAgent(made'[Len(made) + i]) /\ made'[Len(made) + i].id = saved.agents[i].id
      /\ Listed(agents') /\ Len(agents') = n /\ \A i \in 1 .. n : agents'[i] = Len(made) + i
  BY RestoredAre
<1>2. n \in Nat
  <2>1. Len(saved.agents) \in Nat
    BY ListedLen DEF SnapInv, SnapTyped, SavedTyped
  <2>2. QED
    BY <2>1
<1>3. AgentsTyped'
  <2>1. \A i \in 1 .. Len(made') : IsAgent(made'[i])
    <3> SUFFICES ASSUME NEW i \in 1 .. Len(made') PROVE IsAgent(made'[i])
      OBVIOUS
    <3>1. CASE i \in 1 .. Len(made)
      BY <1>1, <3>1 DEF SnapInv, SnapTyped, AgentsTyped
    <3>2. CASE i \notin 1 .. Len(made)
      <4>1. i - Len(made) \in 1 .. n /\ Len(made) + (i - Len(made)) = i
        BY <1>1, <1>2, <3>2
      <4>2. QED
        BY <1>1, <4>1
    <3>3. QED
      BY <3>1, <3>2
  <2>2. \A i \in 1 .. Len(agents') : agents'[i] \in 1 .. Len(made')
    BY <1>1, <1>2
  <2>3. nextId' \in Nat
    BY DEF SnapInv, SnapTyped, AgentsTyped, SavedTyped
  <2>4. QED
    BY <1>1, <2>1, <2>2, <2>3 DEF AgentsTyped
<1>4. \A i \in 1 .. n : made'[agents'[i]].id = saved.agents[i].id
  BY <1>1
<1>5. OwnNumbers'
  <2>1. CASE torn' = TRUE
    BY <2>1 DEF OwnNumbers
  <2>2. CASE torn' = saved.torn /\ nextId' = saved.nextId /\ n = Len(saved.agents)
    BY <1>1, <1>4, <2>2 DEF SnapInv, SavedOwn, OwnNumbers
  <2>3. QED
    BY <2>1, <2>2
<1>6. SavedTyped' /\ SavedOwn'
  BY DEF SnapInv, SnapTyped, SavedTyped, SavedOwn
<1>7. LoopTyped' /\ Passing'
  BY DEF S!Running, SnapInv, SnapTyped, LoopTyped, Passing
<1>8. QED
  BY <1>3, <1>5, <1>6, <1>7 DEF SnapInv, SnapTyped

LEMMA RestoreKeeps ==
  ASSUME SnapInv, S!Restore
  PROVE  SnapInv'
<1>1. S!Running /\ saved # <<>> /\ UNCHANGED <<saved, loop>>
  BY DEF S!Restore
<1>2. Len(saved.agents) \in Nat /\ DOMAIN saved.agents = 1 .. Len(saved.agents)
  BY <1>1, ListedLen DEF SnapInv, SnapTyped, SavedTyped
<1>3. CASE S!RestoreWithoutTemplate
  <2> DEFINE missing == {i \in DOMAIN saved.agents : saved.agents[i].template \notin known}
             n == S!Min(missing) - 1
  <2>1. /\ missing # {} /\ made' = S!Restored(n, 0) /\ agents' = S!Numbers(n)
        /\ torn' = TRUE /\ nextId' = nextId
    BY <1>3 DEF S!RestoreWithoutTemplate
  <2>2. missing \subseteq 1 .. Len(saved.agents) /\ missing \in SUBSET Nat
    BY <1>2
  <2> HIDE DEF missing
  <2>3. S!Min(missing) \in 1 .. Len(saved.agents)
    BY <2>1, <2>2, LeastNatural
  <2>4. n \in 0 .. Len(saved.agents)
    BY <1>2, <2>3
  <2> HIDE DEF n
  <2>5. QED
    BY <1>1, <2>1, <2>4, RestoredKeeps
<1>4. Len(saved.agents) \in 0 .. Len(saved.agents)
  BY <1>2
<1>5. CASE S!RestoreDangling
  <2>1. /\ agents' = S!Numbers(Len(saved.agents)) /\ torn' = TRUE /\ nextId' = nextId
        /\ \E few : made' = S!Restored(Len(saved.agents), few)
    BY <1>5 DEF S!RestoreDangling
  <2>2. PICK few : made' = S!Restored(Len(saved.agents), few)
    BY <2>1
  <2>3. QED
    BY <1>1, <1>4, <2>1, <2>2, RestoredKeeps
<1>6. CASE S!RestoreAll
  <2>1. /\ made' = S!Restored(Len(saved.agents), Len(saved.agents))
        /\ agents' = S!Numbers(Len(saved.agents)) /\ torn' = saved.torn /\ nextId' = saved.nextId
    BY <1>6 DEF S!RestoreAll, S!nextIdRestored
  <2>2. QED
    BY <1>1, <1>4, <2>1, RestoredKeeps
<1>7. QED
  BY <1>3, <1>5, <1>6 DEF S!Restore

LEMMA SnapNext == SnapInv /\ [S!Next]_snapVars => SnapInv'
<1> SUFFICES ASSUME SnapInv, [S!Next]_snapVars PROVE SnapInv'
  OBVIOUS
<1>1. CASE S!Next
  BY <1>1, SpawnKeeps, SendKeeps, DeliverKeeps, LoopKeeps, SaveKeeps, RestoreKeeps, MigrateKeeps DEF S!Next
<1>2. CASE UNCHANGED snapVars
  BY <1>2 DEF snapVars, SnapInv, SnapTyped, AgentsTyped, SavedTyped, LoopTyped, OwnNumbers, SavedOwn, Passing
<1>3. QED
  BY <1>1, <1>2

LEMMA SnapHolds == Spec => []SnapInv
<1>1. Init => SnapInv
  BY SnapInit DEF Init, PartsInit
<1>2. [Next]_runtimeVars => [S!Next]_snapVars
  BY DEF Next, runtimeVars, stateVars
<1>3. SnapInv /\ [Next]_runtimeVars => SnapInv'
  BY <1>2, SnapNext
<1>4. QED
  BY <1>1, <1>3, PTL DEF Spec, runtimeVars

(* Agents have numbers of their own below the next one, across spawns,     *)
(* snapshots, other processes and restores, unless a restore failed        *)
(* half-way (builtins.js restore, agents.js Scheduler).                    *)
THEOREM NumbersStayOwn == Spec => []NumbersAreOwn
<1>1. SnapInv => NumbersAreOwn
  BY OwnNumbersAre DEF SnapInv, SnapTyped, NumbersAreOwn
<1>2. QED
  BY <1>1, SnapHolds, PTL

(* run_agents comes back with no mail left, although handlers replace the  *)
(* agents under it (agents.js run).                                        *)
THEOREM RestoresDrain == Spec => DrainedAcrossRestores
<1>1. SnapInv /\ [Next]_runtimeVars
        => [S!Settle => \A i \in DOMAIN agents : made[agents[i]].mail = <<>>]_snapVars
  <2> SUFFICES ASSUME SnapInv, S!Settle, NEW i \in DOMAIN agents PROVE made[agents[i]].mail = <<>>
    OBVIOUS
  <2>1. /\ loop # <<>> /\ loop.handling = 0 /\ ~loop.progressed /\ loop.at > Len(loop.pass)
    BY DEF S!Settle, S!Between
  <2>2. loop.pass = agents /\ \A j \in 1 .. Len(agents) : j < loop.at => made[agents[j]].mail = <<>>
    BY <2>1 DEF SnapInv, Passing
  <2>3. DOMAIN agents = 1 .. Len(agents) /\ Len(agents) \in Nat /\ loop.at \in Nat
    BY <2>1, ListedLen DEF SnapInv, SnapTyped, AgentsTyped, LoopTyped
  <2>4. i \in 1 .. Len(agents) /\ i < loop.at
    BY <2>1, <2>2, <2>3
  <2>5. QED
    BY <2>2, <2>4
<1>2. QED
  BY <1>1, SnapHolds, PTL DEF Spec, runtimeVars, DrainedAcrossRestores, S!DrainedAcrossRestores, S!snapVars, snapVars

-----------------------------------------------------------------------------
(* Modules. *)

IsFrame(f) ==
  f = [path |-> f.path, source |-> f.source, load |-> f.load, left |-> f.left, scope |-> f.scope]
IsModule(m) == m = [load |-> m.load, exports |-> m.exports, paths |-> m.paths]
Within(f, A) == \A n \in DOMAIN f : f[n] \in A

FramesTyped ==
  /\ Listed(frames) /\ \A i \in 1 .. Len(frames) : IsFrame(frames[i])
  /\ \A source \in DOMAIN moduleCache : IsModule(moduleCache[source])
  /\ failing => Len(frames) > 0
  /\ Len(frames) > 0 => frames[1].load = 0

(* The sources being loaded are those of the frames over the entry.        *)
LoadingIs ==
  /\ moduleLoading = {frames[i].source : i \in 2 .. Len(frames)}
  /\ \A i, j \in 2 .. Len(frames) : frames[i].source = frames[j].source => i = j
  /\ IsFiniteSet(moduleLoading)
  /\ Cardinality(moduleLoading) = IF Len(frames) = 0 THEN 0 ELSE Len(frames) - 1

LoadingUncached == moduleLoading \intersect DOMAIN moduleCache = {}

ScopesOwn ==
  /\ \A source \in DOMAIN moduleCache : Within(moduleCache[source].exports, M!Cached)
  /\ \A i \in 1 .. Len(frames) : Within(frames[i].scope, M!Cached \union {frames[i].load})
  /\ Within(moduleGlobals, M!Cached \union {0})

ModulesInv == FramesTyped /\ LoadingIs /\ LoadingUncached /\ ScopesOwn

LEMMA ModulesInvMeans == ModulesInv => M!OneInstance
<1> SUFFICES ASSUME ModulesInv PROVE M!OneInstance
  OBVIOUS
<1>1. DOMAIN frames = 1 .. Len(frames) /\ (frames = <<>> <=> Len(frames) = 0)
  <2>1. frames \in Seq({frames[i] : i \in DOMAIN frames})
    BY DEF ModulesInv, FramesTyped, Listed
  <2>2. QED
    BY <2>1, EmptySeq, LenProperties
<1>2. \A f, A : Within(f, A) <=> M!Range(f) \subseteq A
  BY DEF Within, M!Range
<1>3. M!Cardinality(moduleLoading) = Cardinality(moduleLoading)
  BY DEF M!Cardinality, Cardinality
<1>4. QED
  BY <1>1, <1>2, <1>3 DEF ModulesInv, LoadingIs, LoadingUncached, ScopesOwn, M!OneInstance

LEMMA ModulesInit == M!Init => ModulesInv
<1> SUFFICES ASSUME M!Init PROVE ModulesInv
  OBVIOUS
<1>1. frames = <<>> /\ moduleCache = <<>> /\ moduleGlobals = <<>> /\ moduleLoading = {} /\ failing = FALSE
  BY DEF M!Init
<1>2. <<>> \in Seq({}) /\ Len(<<>>) = 0 /\ DOMAIN <<>> = {}
  OBVIOUS
<1>3. Listed(<<>>)
  BY <1>2, ListedIs
<1>4. FramesTyped /\ ScopesOwn /\ LoadingUncached
  BY <1>1, <1>2, <1>3 DEF FramesTyped, ScopesOwn, Within, LoadingUncached
<1>5. LoadingIs
  <2>1. IsFiniteSet({}) /\ Cardinality({}) = 0
    BY FS_EmptySet
  <2>2. QED
    BY <1>1, <1>2, <2>1 DEF LoadingIs
<1>6. QED
  BY <1>4, <1>5 DEF ModulesInv

LEMMA SubListed ==
  ASSUME NEW s, Listed(s), NEW m \in 0 .. Len(s)
  PROVE  /\ Listed(SubSeq(s, 1, m)) /\ Len(SubSeq(s, 1, m)) = m
         /\ \A i \in 1 .. m : SubSeq(s, 1, m)[i] = s[i]
<1> DEFINE E == {s[i] : i \in DOMAIN s}
<1>1. s \in Seq(E) /\ Len(s) \in Nat
  BY ListedLen DEF Listed
<1> HIDE DEF E
<1>2. /\ SubSeq(s, 1, m) \in Seq(E) /\ Len(SubSeq(s, 1, m)) = m
      /\ \A i \in 1 .. m : SubSeq(s, 1, m)[i] = s[i]
  BY <1>1
<1>3. QED
  BY <1>2, ListedIs

LEMMA One == \A n \in Nat : n > 0 /\ ~ (n > 1) => n = 1 /\ n - 1 = 0
OBVIOUS

(* What leaves the frames as they are, or takes the one on top away and    *)
(* out of what is being loaded.                                            *)
LEMMA FramesShrink ==
  ASSUME FramesTyped, LoadingIs, Len(frames) > 0, Listed(frames'),
         \A i \in 1 .. Len(frames') : frames'[i].source = frames[i].source,
         \/ Len(frames') = Len(frames) /\ moduleLoading' = moduleLoading
         \/ /\ Len(frames') = Len(frames) - 1
            /\ moduleLoading' = IF Len(frames) > 1 THEN moduleLoading \ {frames[Len(frames)].source}
                                                   ELSE moduleLoading
  PROVE  LoadingIs'
<1>1. Len(frames) \in Nat /\ Len(frames') \in Nat
  BY ListedLen DEF FramesTyped
<1>2. CASE Len(frames') = Len(frames) /\ moduleLoading' = moduleLoading
  <2>1. \A i \in 2 .. Len(frames) : i \in 1 .. Len(frames') /\ frames'[i].source = frames[i].source
    BY <1>1, <1>2
  <2>2. moduleLoading' = {frames'[i].source : i \in 2 .. Len(frames')}
    BY <1>2, <2>1 DEF LoadingIs
  <2>3. \A i, j \in 2 .. Len(frames') : frames'[i].source = frames'[j].source => i = j
    BY <1>2, <2>1 DEF LoadingIs
  <2>4. IsFiniteSet(moduleLoading') /\ Cardinality(moduleLoading') = Cardinality(moduleLoading)
    BY <1>2 DEF LoadingIs
  <2>5. QED
    BY <1>2, <2>2, <2>3, <2>4 DEF LoadingIs
<1>3. CASE Len(frames) = 1 /\ Len(frames') = 0 /\ moduleLoading' = moduleLoading
  <2>1. moduleLoading = {} /\ 2 .. Len(frames') = {}
    BY <1>3 DEF LoadingIs
  <2>2. moduleLoading' = {frames'[i].source : i \in 2 .. Len(frames')}
    BY <1>3, <2>1
  <2>3. IsFiniteSet(moduleLoading') /\ Cardinality(moduleLoading') = 0
    BY <1>3 DEF LoadingIs
  <2>4. QED
    BY <1>3, <2>1, <2>2, <2>3 DEF LoadingIs
<1>4. CASE /\ Len(frames) > 1 /\ Len(frames') = Len(frames) - 1
           /\ moduleLoading' = moduleLoading \ {frames[Len(frames)].source}
  <2> DEFINE top == frames[Len(frames)].source
             last == Len(frames)
  <2>1. top \in moduleLoading
    BY <1>1, <1>4 DEF LoadingIs
  <2>2. IsFiniteSet(moduleLoading') /\ Cardinality(moduleLoading') = Cardinality(moduleLoading) - 1
    BY <1>4, <2>1, FS_RemoveElement DEF LoadingIs
  <2>3. \A i \in 2 .. last : i \in 2 .. last - 1 \/ i = last
    BY <1>1
  <2>4. \A i \in 2 .. last - 1 : i \in 2 .. last /\ frames[i].source # top /\ frames'[i].source = frames[i].source
    BY <1>1, <1>4 DEF LoadingIs
  <2>5. moduleLoading' = {frames'[i].source : i \in 2 .. Len(frames')}
    BY <1>4, <2>3, <2>4 DEF LoadingIs
  <2>6. \A i, j \in 2 .. Len(frames') : frames'[i].source = frames'[j].source => i = j
    BY <1>4, <2>4 DEF LoadingIs
  <2>7. Cardinality(moduleLoading') = IF Len(frames') = 0 THEN 0 ELSE Len(frames') - 1
    BY <1>1, <1>4, <2>2 DEF LoadingIs
  <2>8. QED
    BY <2>2, <2>5, <2>6, <2>7 DEF LoadingIs
<1>5. \/ Len(frames') = Len(frames) /\ moduleLoading' = moduleLoading
      \/ Len(frames) = 1 /\ Len(frames') = 0 /\ moduleLoading' = moduleLoading
      \/ /\ Len(frames) > 1 /\ Len(frames') = Len(frames) - 1
         /\ moduleLoading' = moduleLoading \ {frames[Len(frames)].source}
  <2>1. CASE Len(frames) > 1
    BY <2>1
  <2>2. CASE ~ (Len(frames) > 1)
    <3>1. Len(frames) = 1 /\ Len(frames) - 1 = 0
      BY <1>1, <2>2, One
    <3>2. QED
      BY <2>2, <3>1
  <2>3. QED
    BY <2>1, <2>2
<1>6. QED
  BY <1>2, <1>3, <1>4, <1>5

(* Binding an import adds nothing to a scope but the module or what it     *)
(* exports.                                                                *)
LEMMA BoundWithin ==
  ASSUME NEW A, NEW statement, NEW scope, NEW module, Within(scope, A), Within(module.exports, A),
         module.load \in A, NEW bound \in M!Bound(statement, scope, module)
  PROVE  Within(bound.scope, A)
<1>1. CASE statement.how = "attempted"
  BY <1>1 DEF M!Bound
<1>2. CASE statement.how = "alias"
  <2>1. Within(M!Having(scope, statement.name, module.load), A)
    BY DEF Within, M!Having
  <2>2. \/ bound = [scope |-> M!Having(scope, statement.name, module.load), failed |-> FALSE]
        \/ bound = [scope |-> scope, failed |-> TRUE]
    BY <1>2 DEF M!Bound
  <2>3. QED
    BY <2>1, <2>2
<1>3. CASE statement.how # "attempted" /\ statement.how # "alias"
  <2> DEFINE taken == DOMAIN module.exports \intersect DOMAIN scope
             into(names) == [n \in DOMAIN scope \union names |->
                               IF n \in names THEN module.exports[n] ELSE scope[n]]
             choice == IF taken = {} THEN {DOMAIN module.exports} ELSE SUBSET (DOMAIN module.exports \ taken)
  <2>1. bound \in {[scope |-> into(names), failed |-> taken # {}] : names \in choice}
    BY <1>3 DEF M!Bound
  <2>2. choice \subseteq SUBSET DOMAIN module.exports
    OBVIOUS
  <2> HIDE DEF choice, into
  <2>3. PICK names \in choice : bound = [scope |-> into(names), failed |-> taken # {}]
    BY <2>1
  <2>4. bound.scope = into(names) /\ names \in SUBSET DOMAIN module.exports
    BY <2>2, <2>3
  <2>5. QED
    BY <2>4 DEF Within, into
<1>4. QED
  BY <1>1, <1>2, <1>3

LEMMA RunKeeps ==
  ASSUME ModulesInv, NEW source, M!Run(source)
  PROVE  ModulesInv'
<1> DEFINE f == [path |-> <<"root", "entry">>, source |-> source, load |-> 0, left |-> source, scope |-> moduleGlobals]
<1>1. frames = <<>> /\ frames' = <<f>> /\ UNCHANGED <<failing, moduleLoading, moduleCache, moduleGlobals>>
  BY DEF M!Run
<1>2. Len(frames) = 0
  BY <1>1
<1>3. IsFrame(f) /\ f.load = 0 /\ f.scope = moduleGlobals
  BY DEF IsFrame
<1> HIDE DEF f
<1>4. Listed(frames') /\ Len(frames') = 1 /\ frames'[1] = f
  <2>1. <<f>> \in Seq({f}) /\ Len(<<f>>) = 1 /\ <<f>>[1] = f
    OBVIOUS
  <2>2. QED
    BY <1>1, <2>1, ListedIs
<1>5. FramesTyped'
  BY <1>1, <1>3, <1>4 DEF ModulesInv, FramesTyped
<1>6. LoadingIs'
  BY <1>1, <1>2, <1>4 DEF ModulesInv, LoadingIs
<1>7. M!Cached' = M!Cached
  BY <1>1 DEF M!Cached
<1>8. LoadingUncached'
  BY <1>1 DEF ModulesInv, LoadingUncached
<1>9. ScopesOwn'
  <2>1. \A i \in 1 .. Len(frames') : Within(frames'[i].scope, M!Cached \union {frames'[i].load})
    BY <1>3, <1>4 DEF ModulesInv, ScopesOwn
  <2>2. QED
    BY <1>1, <1>7, <2>1 DEF ModulesInv, ScopesOwn
<1>10. QED
  BY <1>5, <1>6, <1>8, <1>9 DEF ModulesInv

(* A statement of the frame on top.                                        *)
LEMMA TopKeeps ==
  ASSUME ModulesInv, Len(frames) > 0, NEW f, frames' = M!OnTop(f), IsFrame(f),
         f.source = M!Top.source, f.load = M!Top.load, Within(f.scope, M!Cached \union {M!Top.load}),
         UNCHANGED <<moduleLoading, moduleGlobals>>,
         DOMAIN moduleCache' = DOMAIN moduleCache,
         \A source \in DOMAIN moduleCache : /\ IsModule(moduleCache'[source])
                                            /\ moduleCache'[source].load = moduleCache[source].load
                                            /\ moduleCache'[source].exports = moduleCache[source].exports
  PROVE  ModulesInv'
<1> DEFINE last == Len(frames)
<1>1. last \in Nat /\ last \in 1 .. last /\ DOMAIN frames = 1 .. last
  BY ListedLen DEF ModulesInv, FramesTyped
<1>2. M!Top = frames[last]
  BY DEF M!Top, M!Last
<1>3. \A i \in 1 .. last : frames'[i] = IF i = last THEN f ELSE frames[i]
  BY <1>1 DEF M!OnTop
<1>4. Listed(frames') /\ Len(frames') = last
  <2>1. frames' = [i \in 1 .. last |-> frames'[i]]
    BY <1>1 DEF M!OnTop
  <2>2. QED
    BY <1>1, <2>1, GivenListed
<1>5. M!Cached' = M!Cached
  BY DEF M!Cached
<1>6. \A i \in 1 .. last : /\ IsFrame(frames'[i]) /\ frames'[i].source = frames[i].source
                           /\ frames'[i].load = frames[i].load
                           /\ Within(frames'[i].scope, M!Cached \union {frames[i].load})
  BY <1>1, <1>2, <1>3 DEF ModulesInv, FramesTyped, ScopesOwn
<1>7. FramesTyped'
  <2>1. frames'[1].load = 0 /\ Len(frames') > 0
    <3>1. 1 \in 1 .. last /\ frames[1].load = 0
      BY <1>1 DEF ModulesInv, FramesTyped
    <3>2. frames'[1].load = frames[1].load
      BY <1>6, <3>1
    <3>3. QED
      BY <1>4, <3>1, <3>2
  <2>2. \A i \in 1 .. Len(frames') : IsFrame(frames'[i])
    BY <1>4, <1>6
  <2>3. \A source \in DOMAIN moduleCache' : IsModule(moduleCache'[source])
    OBVIOUS
  <2>4. QED
    BY <1>4, <2>1, <2>2, <2>3 DEF FramesTyped
<1>8. LoadingIs'
  BY <1>4, <1>6, FramesShrink DEF ModulesInv
<1>9. LoadingUncached'
  BY DEF ModulesInv, LoadingUncached
<1>10. ScopesOwn'
  BY <1>4, <1>5, <1>6 DEF ModulesInv, ScopesOwn
<1>11. QED
  BY <1>7, <1>8, <1>9, <1>10 DEF ModulesInv

LEMMA FrameFacts ==
  ASSUME NEW g, IsFrame(g)
  PROVE  \A scope, bound :
           /\ IsFrame(M!Stepped(g, scope)) /\ M!Stepped(g, scope).scope = scope
           /\ M!Stepped(g, scope).source = g.source /\ M!Stepped(g, scope).load = g.load
           /\ IsFrame(M!Imported(g, bound)) /\ M!Imported(g, bound).scope = bound.scope
           /\ M!Imported(g, bound).source = g.source /\ M!Imported(g, bound).load = g.load
<1> DEFINE t == g
<1>1. t = [path |-> t.path, source |-> t.source, load |-> t.load, left |-> t.left, scope |-> t.scope]
  BY DEF IsFrame
<1>2. \A scope : M!Stepped(t, scope) = [t EXCEPT !.left = Tail(t.left), !.scope = scope]
  BY DEF M!Stepped
<1>3. \A bound : M!Imported(t, bound) = IF bound.failed THEN [t EXCEPT !.scope = bound.scope]
                                        ELSE M!Stepped(t, bound.scope)
  BY DEF M!Imported
<1> HIDE DEF t
<1>4. \A scope : M!Stepped(t, scope) = [path |-> t.path, source |-> t.source, load |-> t.load,
                                        left |-> Tail(t.left), scope |-> scope]
  BY <1>1, <1>2
<1>5. \A bound : [t EXCEPT !.scope = bound.scope]
                   = [path |-> t.path, source |-> t.source, load |-> t.load,
                      left |-> t.left, scope |-> bound.scope]
  BY <1>1
<1>6. \A scope : /\ IsFrame(M!Stepped(t, scope)) /\ M!Stepped(t, scope).scope = scope
                 /\ M!Stepped(t, scope).source = t.source /\ M!Stepped(t, scope).load = t.load
  BY <1>4 DEF IsFrame
<1>7. \A bound : /\ IsFrame(M!Imported(t, bound)) /\ M!Imported(t, bound).scope = bound.scope
                 /\ M!Imported(t, bound).source = t.source /\ M!Imported(t, bound).load = t.load
  <2> TAKE bound
  <2>1. CASE bound.failed
    <3>1. M!Imported(t, bound) = [path |-> t.path, source |-> t.source, load |-> t.load,
                                  left |-> t.left, scope |-> bound.scope]
      BY <1>3, <1>5, <2>1
    <3>2. QED
      BY <3>1 DEF IsFrame
  <2>2. CASE ~bound.failed
    <3>1. M!Imported(t, bound) = M!Stepped(t, bound.scope)
      BY <1>3, <2>2
    <3>2. QED
      BY <1>6, <3>1
  <2>3. QED
    BY <2>1, <2>2
<1>8. QED
  BY <1>6, <1>7 DEF t

LEMMA TopFacts ==
  ASSUME ModulesInv, Len(frames) > 0
  PROVE  /\ M!Top = frames[Len(frames)] /\ IsFrame(M!Top)
         /\ Within(M!Top.scope, M!Cached \union {M!Top.load})
<1>1. Len(frames) \in 1 .. Len(frames)
  BY ListedLen DEF ModulesInv, FramesTyped
<1>2. M!Top = frames[Len(frames)]
  BY DEF M!Top, M!Last
<1>3. QED
  BY <1>1, <1>2 DEF ModulesInv, FramesTyped, ScopesOwn

(* What only makes an exception, or ends one, or edits the disk.           *)
LEMMA FramesStay ==
  ASSUME ModulesInv, UNCHANGED <<frames, moduleLoading, moduleCache, moduleGlobals>>,
         failing' => Len(frames) > 0
  PROVE  ModulesInv'
<1>1. M!Cached' = M!Cached
  BY DEF M!Cached
<1>2. FramesTyped' /\ LoadingIs' /\ LoadingUncached'
  BY DEF ModulesInv, FramesTyped, LoadingIs, LoadingUncached
<1>3. ScopesOwn'
  BY <1>1 DEF ModulesInv, ScopesOwn
<1>4. QED
  BY <1>2, <1>3 DEF ModulesInv

LEMMA SomeFrame ==
  ASSUME ModulesInv, frames # <<>>
  PROVE  Len(frames) > 0
<1>1. frames \in Seq({frames[i] : i \in DOMAIN frames}) /\ Len(frames) \in Nat
  BY ListedLen DEF ModulesInv, FramesTyped, Listed
<1>2. QED
  BY <1>1, EmptySeq

LEMMA LetKeeps ==
  ASSUME ModulesInv, M!Let
  PROVE  ModulesInv'
<1> DEFINE scope == M!Having(M!Top.scope, M!Statement.name, M!Top.load)
<1>1. Len(frames) > 0 /\ UNCHANGED <<moduleLoading, moduleCache, moduleGlobals>>
  BY SomeFrame DEF M!Let, M!Executes
<1>2. CASE frames' = frames
  BY <1>1, <1>2, FramesStay
<1>3. CASE frames' = M!OnTop(M!Stepped(M!Top, scope))
  <2>1. Within(scope, M!Cached \union {M!Top.load})
    BY <1>1, TopFacts DEF Within, M!Having
  <2> HIDE DEF scope
  <2>2. \A source \in DOMAIN moduleCache : IsModule(moduleCache[source])
    BY DEF ModulesInv, FramesTyped
  <2> DEFINE f == M!Stepped(M!Top, scope)
  <2>3. IsFrame(f) /\ f.source = M!Top.source /\ f.load = M!Top.load /\ f.scope = scope
    BY <1>1, TopFacts, FrameFacts
  <2>4. frames' = M!OnTop(f)
    BY <1>3
  <2> HIDE DEF f
  <2>5. QED
    BY <1>1, <2>1, <2>2, <2>3, <2>4, TopKeeps
<1>4. QED
  BY <1>2, <1>3 DEF M!Let

LEMMA ImportCachedKeeps ==
  ASSUME ModulesInv, M!ImportCached
  PROVE  ModulesInv'
<1> DEFINE source == M!Source(M!Path)
           module == moduleCache[source]
           A == M!Cached \union {M!Top.load}
<1>1. Len(frames) > 0 /\ UNCHANGED <<moduleLoading, moduleGlobals>> /\ source \in DOMAIN moduleCache
  BY SomeFrame DEF M!ImportCached, M!Executes
<1>2. PICK bound \in M!Bound(M!Statement, M!Top.scope, module) :
        frames' = M!OnTop(M!Imported(M!Top, bound))
  BY DEF M!ImportCached
<1>3. \A s \in DOMAIN moduleCache : IsModule(moduleCache[s]) /\ Within(moduleCache[s].exports, M!Cached)
  BY DEF ModulesInv, FramesTyped, ScopesOwn
<1>4. Within(bound.scope, A)
  <2>1. Within(M!Top.scope, A)
    BY <1>1, TopFacts
  <2>2. Within(module.exports, A) /\ module.load \in A
    BY <1>1, <1>3 DEF Within, M!Cached
  <2> HIDE DEF A, module
  <2>3. QED
    BY <2>1, <2>2, BoundWithin
<1>5. /\ DOMAIN moduleCache' = DOMAIN moduleCache
      /\ \A s \in DOMAIN moduleCache : /\ IsModule(moduleCache'[s])
                                       /\ moduleCache'[s].load = moduleCache[s].load
                                       /\ moduleCache'[s].exports = moduleCache[s].exports
  <2> DEFINE paths == module.paths \union {M!Path}
  <2>1. moduleCache' = [moduleCache EXCEPT ![source] = [module EXCEPT !.paths = paths]]
    BY DEF M!ImportCached
  <2>2. module = [load |-> module.load, exports |-> module.exports, paths |-> module.paths]
    BY <1>1, <1>3 DEF IsModule
  <2> HIDE DEF paths, module, source
  <2>3. [module EXCEPT !.paths = paths] = [load |-> module.load, exports |-> module.exports, paths |-> paths]
    BY <2>2
  <2>4. /\ DOMAIN moduleCache' = DOMAIN moduleCache
        /\ \A s \in DOMAIN moduleCache :
             moduleCache'[s] = IF s = source THEN [load |-> module.load, exports |-> module.exports, paths |-> paths]
                                             ELSE moduleCache[s]
    BY <2>1, <2>3
  <2>5. module = moduleCache[source]
    BY DEF module
  <2> SUFFICES ASSUME NEW s \in DOMAIN moduleCache
               PROVE  /\ IsModule(moduleCache'[s])
                      /\ moduleCache'[s].load = moduleCache[s].load
                      /\ moduleCache'[s].exports = moduleCache[s].exports
    BY <2>4
  <2>7. CASE s = source
    BY <2>4, <2>5, <2>7 DEF IsModule
  <2>8. CASE s # source
    BY <1>3, <2>4, <2>8
  <2>9. QED
    BY <2>4, <2>7, <2>8
<1> DEFINE f == M!Imported(M!Top, bound)
<1>6. IsFrame(f) /\ f.source = M!Top.source /\ f.load = M!Top.load /\ f.scope = bound.scope
  BY <1>1, TopFacts, FrameFacts
<1> HIDE DEF f
<1>7. frames' = M!OnTop(f)
  BY <1>2 DEF f
<1> HIDE DEF source, module
<1>8. QED
  BY <1>1, <1>4, <1>5, <1>6, <1>7, TopKeeps

LEMMA ImportLoadsKeeps ==
  ASSUME ModulesInv, M!ImportLoads
  PROVE  ModulesInv'
<1> DEFINE source == M!Source(M!Path)
           f == [path |-> M!Path, source |-> source, load |-> loads + 1, left |-> source, scope |-> <<>>]
           last == Len(frames)
<1>1. /\ Len(frames) > 0 /\ UNCHANGED <<failing, moduleCache, moduleGlobals>>
      /\ source \notin moduleLoading /\ source \notin DOMAIN moduleCache
      /\ moduleLoading' = moduleLoading \union {source}
      /\ frames' = Append(frames, f)
  BY SomeFrame DEF M!ImportLoads, M!Executes, M!Importable
<1>2. IsFrame(f) /\ f.source = source /\ f.scope = <<>>
  BY DEF IsFrame
<1> HIDE DEF f, source
<1>3. /\ Listed(frames') /\ Len(frames') = last + 1 /\ frames'[last + 1] = f
      /\ \A i \in 1 .. last : frames'[i] = frames[i]
      /\ last \in Nat
  BY <1>1, AppendListed, ListedLen DEF ModulesInv, FramesTyped
<1>4. \A i \in 1 .. last + 1 : i \in 1 .. last \/ i = last + 1
  BY <1>3
<1>5. M!Cached' = M!Cached
  BY <1>1 DEF M!Cached
<1>6. FramesTyped'
  <2>1. \A i \in 1 .. Len(frames') : IsFrame(frames'[i])
    BY <1>2, <1>3, <1>4 DEF ModulesInv, FramesTyped
  <2>2. frames'[1].load = 0 /\ Len(frames') > 0
    <3>1. 1 \in 1 .. last
      BY <1>1, <1>3
    <3>2. QED
      BY <1>1, <1>3, <3>1 DEF ModulesInv, FramesTyped
  <2>3. QED
    BY <1>1, <1>3, <2>1, <2>2 DEF ModulesInv, FramesTyped
<1>7. LoadingIs'
  <2>1. \A i \in 2 .. last + 1 : i \in 2 .. last \/ i = last + 1
    BY <1>3
  <2>2. \A i \in 2 .. last : i \in 2 .. last + 1 /\ frames'[i].source = frames[i].source /\ frames'[i].source # source
    BY <1>1, <1>3 DEF ModulesInv, LoadingIs
  <2>3. last + 1 \in 2 .. last + 1 /\ frames'[last + 1].source = source
    BY <1>1, <1>2, <1>3
  <2>4. moduleLoading' = {frames'[i].source : i \in 2 .. Len(frames')}
    BY <1>1, <1>3, <2>1, <2>2, <2>3 DEF ModulesInv, LoadingIs
  <2>5. \A i, j \in 2 .. Len(frames') : frames'[i].source = frames'[j].source => i = j
    BY <1>3, <2>1, <2>2, <2>3 DEF ModulesInv, LoadingIs
  <2>6. IsFiniteSet(moduleLoading') /\ Cardinality(moduleLoading') = Cardinality(moduleLoading) + 1
    BY <1>1, FS_AddElement DEF ModulesInv, LoadingIs
  <2>7. Cardinality(moduleLoading') = IF Len(frames') = 0 THEN 0 ELSE Len(frames') - 1
    BY <1>1, <1>3, <2>6 DEF ModulesInv, LoadingIs
  <2>8. QED
    BY <2>4, <2>5, <2>6, <2>7 DEF LoadingIs
<1>8. LoadingUncached'
  BY <1>1 DEF ModulesInv, LoadingUncached
<1>9. ScopesOwn'
  <2>1. Within(f.scope, M!Cached \union {f.load})
    BY <1>2 DEF Within
  <2>2. \A i \in 1 .. Len(frames') : Within(frames'[i].scope, M!Cached \union {frames'[i].load})
    BY <1>3, <1>4, <2>1 DEF ModulesInv, ScopesOwn
  <2>3. QED
    BY <1>1, <1>5, <2>2 DEF ModulesInv, ScopesOwn
<1>10. QED
  BY <1>6, <1>7, <1>8, <1>9 DEF ModulesInv

LEMMA LoadedKeeps ==
  ASSUME ModulesInv, M!Loaded
  PROVE  ModulesInv'
<1> DEFINE last == Len(frames)
           top == frames[last]
           importer == frames[last - 1]
           module == [load |-> top.load, exports |-> top.scope, paths |-> {top.path}]
           A == M!Cached \union {top.load}
<1>1. last > 1 /\ last \in Nat /\ last \in 1 .. last /\ last - 1 \in 1 .. last /\ M!Top = top
  <2>1. last > 1 /\ last \in Nat
    BY ListedLen DEF M!Loaded, ModulesInv, FramesTyped
  <2>2. QED
    BY <2>1 DEF M!Top, M!Last
<1>2. /\ moduleCache' = M!Having(moduleCache, top.source, module)
      /\ moduleLoading' = moduleLoading \ {top.source}
      /\ moduleGlobals' = moduleGlobals
  BY <1>1 DEF M!Loaded, M!Unloaded
<1>3. PICK bound \in M!Bound(Head(importer.left), importer.scope, module) :
        frames' = Append(SubSeq(frames, 1, last - 2), M!Imported(importer, bound))
  BY <1>1 DEF M!Loaded
<1>4. IsModule(module) /\ module.load = top.load /\ module.exports = top.scope
  BY DEF IsModule
<1>5. top.source \in moduleLoading /\ top.source \notin DOMAIN moduleCache
  <2>1. last \in 2 .. last
    BY <1>1
  <2>2. QED
    BY <2>1 DEF ModulesInv, LoadingIs, LoadingUncached
<1> HIDE DEF module
<1>6. /\ DOMAIN moduleCache' = DOMAIN moduleCache \union {top.source}
      /\ moduleCache'[top.source] = module
      /\ \A source \in DOMAIN moduleCache : moduleCache'[source] = moduleCache[source]
  BY <1>2, <1>5 DEF M!Having
<1>7. M!Cached' = A
  BY <1>4, <1>6 DEF M!Cached
<1>8. /\ Within(top.scope, A) /\ Within(importer.scope, A \union {importer.load})
      /\ IsFrame(importer)
  BY <1>1 DEF ModulesInv, FramesTyped, ScopesOwn, Within
<1>9. Within(bound.scope, A \union {importer.load})
  <2> DEFINE D == A \union {importer.load}
  <2>1. Within(importer.scope, D) /\ Within(module.exports, D) /\ module.load \in D
    BY <1>4, <1>8 DEF Within
  <2> HIDE DEF D
  <2>2. QED
    BY <2>1, BoundWithin DEF D
<1> DEFINE f == M!Imported(importer, bound)
<1>10. frames' = Append(SubSeq(frames, 1, last - 2), f)
  BY <1>3
<1>11. IsFrame(f) /\ f.source = importer.source /\ f.load = importer.load /\ f.scope = bound.scope
  BY <1>8, FrameFacts
<1> HIDE DEF f
<1>12. /\ Listed(frames') /\ Len(frames') = last - 1 /\ frames'[last - 1] = f
       /\ \A i \in 1 .. last - 2 : frames'[i] = frames[i]
  <2> DEFINE rest == SubSeq(frames, 1, last - 2)
  <2>1. last - 2 \in 0 .. last
    BY <1>1
  <2>2. Listed(rest) /\ Len(rest) = last - 2 /\ \A i \in 1 .. last - 2 : rest[i] = frames[i]
    BY <2>1, SubListed DEF ModulesInv, FramesTyped
  <2> HIDE DEF rest
  <2>3. /\ Listed(Append(rest, f)) /\ Len(Append(rest, f)) = Len(rest) + 1
        /\ Append(rest, f)[Len(rest) + 1] = f
        /\ \A i \in 1 .. Len(rest) : Append(rest, f)[i] = rest[i]
    BY <2>2, AppendListed
  <2>4. (last - 2) + 1 = last - 1
    BY <1>1
  <2>5. QED
    BY <1>10, <2>2, <2>3, <2>4 DEF rest
<1>13. \A i \in 1 .. last - 1 : /\ IsFrame(frames'[i])
                                /\ frames'[i].source = frames[i].source /\ frames'[i].load = frames[i].load
                                /\ Within(frames'[i].scope, A \union {frames[i].load})
  <2> TAKE i \in 1 .. last - 1
  <2>1. CASE i = last - 1
    BY <1>9, <1>11, <1>12, <2>1
  <2>2. CASE i # last - 1
    <3>1. i \in 1 .. last - 2 /\ i \in 1 .. last
      BY <1>1, <2>2
    <3>2. QED
      BY <1>12, <3>1 DEF ModulesInv, FramesTyped, ScopesOwn, Within
  <2>3. QED
    BY <2>1, <2>2
<1>14. FramesTyped'
  <2>1. frames'[1].load = 0 /\ Len(frames') > 0
    <3>1. 1 \in 1 .. last - 1 /\ frames[1].load = 0
      BY <1>1 DEF ModulesInv, FramesTyped
    <3>2. frames'[1].load = frames[1].load
      BY <1>13, <3>1
    <3>3. last - 1 > 0
      BY <1>1
    <3>4. QED
      BY <1>12, <3>1, <3>2, <3>3
  <2>2. \A source \in DOMAIN moduleCache' : IsModule(moduleCache'[source])
    BY <1>4, <1>6 DEF ModulesInv, FramesTyped
  <2>3. \A i \in 1 .. Len(frames') : IsFrame(frames'[i])
    BY <1>12, <1>13
  <2>4. QED
    BY <1>12, <2>1, <2>2, <2>3 DEF FramesTyped
<1>15. LoadingIs'
  <2>1. Len(frames) > 0
    BY <1>1
  <2>2. \A i \in 1 .. Len(frames') : frames'[i].source = frames[i].source
    BY <1>12, <1>13
  <2>3. /\ Len(frames') = Len(frames) - 1
        /\ moduleLoading' = IF Len(frames) > 1 THEN moduleLoading \ {frames[Len(frames)].source} ELSE moduleLoading
    BY <1>1, <1>2, <1>12
  <2>4. QED
    BY <1>12, <2>1, <2>2, <2>3, FramesShrink DEF ModulesInv
<1>16. LoadingUncached'
  BY <1>2, <1>6 DEF ModulesInv, LoadingUncached
<1>17. ScopesOwn'
  <2>1. \A source \in DOMAIN moduleCache' : Within(moduleCache'[source].exports, A)
    BY <1>4, <1>6, <1>8 DEF ModulesInv, ScopesOwn, Within
  <2>2. \A i \in 1 .. Len(frames') : Within(frames'[i].scope, A \union {frames'[i].load})
    BY <1>12, <1>13
  <2>3. Within(moduleGlobals', A \union {0})
    BY <1>2 DEF ModulesInv, ScopesOwn, Within
  <2> HIDE DEF A
  <2>4. QED
    BY <1>7, <2>1, <2>2, <2>3 DEF ScopesOwn
<1>18. QED
  BY <1>14, <1>15, <1>16, <1>17 DEF ModulesInv

(* The frame on top is done with, by an exception or by its end.           *)
LEMMA PopKeeps ==
  ASSUME ModulesInv, Len(frames) > 0, frames' = SubSeq(frames, 1, Len(frames) - 1),
         moduleLoading' = (IF Len(frames) > 1 THEN M!Unloaded(moduleLoading, M!Top.source) ELSE moduleLoading),
         moduleGlobals' = (IF Len(frames) > 1 THEN moduleGlobals ELSE M!Top.scope),
         moduleCache' = moduleCache, failing' => Len(frames) > 1
  PROVE  ModulesInv'
<1> DEFINE last == Len(frames)
<1>1. last \in Nat /\ last \in 1 .. last /\ last - 1 \in 0 .. last
  BY ListedLen DEF ModulesInv, FramesTyped
<1>2. M!Top = frames[last] /\ Within(M!Top.scope, M!Cached \union {M!Top.load})
  BY TopFacts
<1>3. Listed(frames') /\ Len(frames') = last - 1 /\ \A i \in 1 .. last - 1 : i \in 1 .. last /\ frames'[i] = frames[i]
  <2> DEFINE m == last - 1
             rest == SubSeq(frames, 1, m)
  <2>1. m \in 0 .. last /\ \A i \in 1 .. m : i \in 1 .. last
    BY <1>1
  <2> HIDE DEF m
  <2>2. Listed(rest) /\ Len(rest) = m /\ \A i \in 1 .. m : rest[i] = frames[i]
    BY <2>1, SubListed DEF ModulesInv, FramesTyped
  <2> HIDE DEF rest
  <2>3. frames' = rest
    BY DEF rest, m
  <2>4. QED
    BY <2>1, <2>2, <2>3 DEF m
<1>4. M!Cached' = M!Cached
  BY DEF M!Cached
<1>5. FramesTyped'
  <2>1. Len(frames') > 0 => 1 \in 1 .. last - 1
    BY <1>1, <1>3
  <2>2. Len(frames') > 0 => frames'[1].load = 0
    BY <1>3, <2>1 DEF ModulesInv, FramesTyped
  <2>3. failing' => Len(frames') > 0
    BY <1>1, <1>3
  <2>4. \A i \in 1 .. Len(frames') : IsFrame(frames'[i])
    BY <1>3 DEF ModulesInv, FramesTyped
  <2>5. QED
    BY <1>3, <2>2, <2>3, <2>4 DEF ModulesInv, FramesTyped
<1>6. /\ \A i \in 1 .. Len(frames') : frames'[i].source = frames[i].source
      /\ moduleLoading' = IF Len(frames) > 1 THEN moduleLoading \ {frames[Len(frames)].source} ELSE moduleLoading
  BY <1>2, <1>3 DEF M!Unloaded
<1>7. LoadingIs'
  BY <1>3, <1>6, FramesShrink DEF ModulesInv
<1>8. LoadingUncached'
  BY <1>6 DEF ModulesInv, LoadingUncached
<1>9. Within(moduleGlobals', M!Cached \union {0})
  <2>1. CASE last > 1
    BY <2>1 DEF ModulesInv, ScopesOwn
  <2>2. CASE ~ (last > 1)
    <3>1. last = 1
      BY <1>1, <2>2, One
    <3>2. M!Top.load = 0
      BY <1>2, <3>1 DEF ModulesInv, FramesTyped
    <3>3. QED
      BY <1>2, <2>2, <3>2
  <2>3. QED
    BY <2>1, <2>2
<1>10. ScopesOwn'
  BY <1>3, <1>4, <1>9 DEF ModulesInv, ScopesOwn
<1>11. QED
  BY <1>5, <1>7, <1>8, <1>10 DEF ModulesInv

LEMMA UnwindKeeps ==
  ASSUME ModulesInv, M!Unwind
  PROVE  ModulesInv'
<1>1. Len(frames) > 0 /\ moduleCache' = moduleCache
  BY DEF M!Unwind, ModulesInv, FramesTyped
<1>2. CASE frames' = M!OnTop(M!Stepped(M!Top, M!Top.scope)) /\ UNCHANGED <<moduleLoading, moduleGlobals>>
  <2>1. \A source \in DOMAIN moduleCache : IsModule(moduleCache[source])
    BY DEF ModulesInv, FramesTyped
  <2>2. QED
    BY <1>1, <1>2, <2>1, TopFacts, FrameFacts, TopKeeps
<1>3. CASE /\ frames' = M!Front(frames)
           /\ failing' = (Len(frames) > 1)
           /\ moduleLoading' = IF Len(frames) > 1 THEN M!Unloaded(moduleLoading, M!Top.source) ELSE moduleLoading
           /\ moduleGlobals' = IF Len(frames) > 1 THEN moduleGlobals ELSE M!Top.scope
  BY <1>1, <1>3, PopKeeps DEF M!Front
<1>4. QED
  BY <1>2, <1>3 DEF M!Unwind

LEMMA EndedKeeps ==
  ASSUME ModulesInv, M!Ended
  PROVE  ModulesInv'
<1>1. /\ Len(frames) = 1 /\ ~failing /\ frames' = <<>> /\ moduleGlobals' = M!Top.scope
      /\ UNCHANGED <<failing, moduleLoading, moduleCache>>
  BY DEF M!Ended
<1>2. SubSeq(frames, 1, Len(frames) - 1) = <<>>
  <2>1. frames \in Seq({frames[i] : i \in DOMAIN frames})
    BY DEF ModulesInv, FramesTyped, Listed
  <2>2. QED
    BY <1>1, <2>1
<1>3. QED
  BY <1>1, <1>2, PopKeeps

LEMMA ModulesNext == ModulesInv /\ [M!Next]_moduleVars => ModulesInv'
<1> SUFFICES ASSUME ModulesInv, [M!Next]_moduleVars PROVE ModulesInv'
  OBVIOUS
<1>1. CASE \E path \in DOMAIN disk, source \in Sources \union {Missing} : M!Edit(path, source)
  BY <1>1, FramesStay DEF M!Edit, ModulesInv, FramesTyped
<1>2. CASE M!Fail \/ M!ImportRefused
  BY <1>2, FramesStay, SomeFrame DEF M!Fail, M!ImportRefused, M!Executes
<1>3. CASE UNCHANGED moduleVars
  BY <1>3, FramesStay DEF moduleVars, ModulesInv, FramesTyped
<1>4. QED
  BY <1>1, <1>2, <1>3, RunKeeps, LetKeeps, ImportCachedKeeps, ImportLoadsKeeps, LoadedKeeps,
     UnwindKeeps, EndedKeeps DEF M!Next

(* One source is one module with one instance, however its loading went    *)
(* before (interpreter.js importModule).                                   *)
THEOREM ModulesOnce == Spec => []OneInstance
<1>1. Init => ModulesInv
  BY ModulesInit DEF Init, PartsInit
<1>2. [Next]_runtimeVars => [M!Next]_moduleVars
  BY DEF Next, runtimeVars, stateVars
<1>3. ModulesInv /\ [Next]_runtimeVars => ModulesInv'
  BY <1>2, ModulesNext
<1>4. ModulesInv => OneInstance
  BY ModulesInvMeans DEF OneInstance
<1>5. QED
  BY <1>1, <1>3, <1>4, PTL DEF Spec, runtimeVars

-----------------------------------------------------------------------------
(* Stores. *)

(* What holds of 0, and of n + 1 when of n.                                *)
LEMMA AllNaturals ==
  ASSUME NEW N, 0 \in N, \A n \in Nat : n \in N => n + 1 \in N
  PROVE  Nat \subseteq N
<1> DEFINE Others == {n \in Nat : n \notin N}
<1>1. SUFFICES ASSUME Others # {} PROVE FALSE
  BY DEF Others
<1>2. PICK m : m \in Others /\ \A n \in Others : m <= n
  BY <1>1, LeastNatural
<1>3. m \in Nat /\ m # 0 /\ m \notin N
  BY <1>2 DEF Others
<1>4. m - 1 \in Nat /\ (m - 1) + 1 = m /\ ~ (m <= m - 1)
  BY <1>3
<1>5. m - 1 \in N
  BY <1>2, <1>4 DEF Others
<1>6. QED
  BY <1>3, <1>4, <1>5

-----------------------------------------------------------------------------
(* What an arena's tensors take up. *)

Pick(s) == CHOOSE x \in s : TRUE
Bytes(E, k) == E[k].meant.bytes
Adding(E, f, s) == IF s = {} THEN 0 ELSE Bytes(E, Pick(s)) + f[s \ {Pick(s)}]
Adds(E, f, D) == f = [s \in D |-> Adding(E, f, s)]
Sums(E, K) == CHOOSE f : Adds(E, f, SUBSET K)
Room(E, K) == T!MapThenSumSet(LAMBDA k : E[k].meant.bytes, K)

LEMMA RoomIs == \A E, K : Room(E, K) = Sums(E, K)[K]
BY DEF Room, Sums, Adds, Adding, Bytes, Pick, T!MapThenSumSet, T!MapThenFoldSet

LEMMA PickIs == \A s : s # {} => Pick(s) \in s
BY DEF Pick

LEMMA Smaller ==
  ASSUME NEW n \in Nat, NEW s, IsFiniteSet(s), s # {}, Cardinality(s) <= n + 1
  PROVE  \A x \in s : IsFiniteSet(s \ {x}) /\ Cardinality(s \ {x}) <= n
<1> TAKE x \in s
<1>1. Cardinality(s) \in Nat
  BY FS_CardinalityType
<1>2. IsFiniteSet(s \ {x}) /\ Cardinality(s \ {x}) = Cardinality(s) - 1
  BY FS_RemoveElement
<1>3. QED
  BY <1>1, <1>2

LEMMA SumsAdd ==
  ASSUME NEW E, NEW K, IsFiniteSet(K)
  PROVE  Adds(E, Sums(E, K), SUBSET K)
<1> DEFINE Up(n) == {s \in SUBSET K : Cardinality(s) <= n}
           N == {n \in Nat : \E f : Adds(E, f, Up(n))}
<1>0. \A s \in SUBSET K : IsFiniteSet(s) /\ Cardinality(s) \in Nat /\ Cardinality(s) <= Cardinality(K)
  BY FS_Subset, FS_CardinalityType
<1>1. 0 \in N
  <2> DEFINE f == [s \in Up(0) |-> 0]
  <2>1. \A s \in Up(0) : s = {}
    <3> TAKE s \in Up(0)
    <3>1. Cardinality(s) = 0 /\ IsFiniteSet(s)
      BY <1>0
    <3>2. QED
      BY <3>1, FS_EmptySet
  <2>2. f = [s \in Up(0) |-> Adding(E, f, s)]
    BY <2>1 DEF Adding
  <2>3. QED
    BY <2>2 DEF Adds
<1>2. ASSUME NEW n \in Nat, n \in N PROVE n + 1 \in N
  <2>1. PICK f : f = [s \in Up(n) |-> Adding(E, f, s)]
    BY <1>2 DEF Adds
  <2> DEFINE g == [s \in Up(n + 1) |-> Adding(E, f, s)]
  <2>0. g = [s \in Up(n + 1) |-> Adding(E, f, s)]
    OBVIOUS
  <2> HIDE DEF g
  <2>2. \A s \in Up(n) : g[s] = f[s]
    <3> TAKE s \in Up(n)
    <3>1. s \in Up(n + 1)
      BY <1>0
    <3>2. QED
      BY <3>1, <2>0, <2>1
  <2>3. \A s \in Up(n + 1) : Adding(E, g, s) = Adding(E, f, s)
    <3> TAKE s \in Up(n + 1)
    <3>1. CASE s = {}
      BY <3>1 DEF Adding
    <3>2. CASE s # {}
      <4>1. Pick(s) \in s
        BY <3>2, PickIs
      <4>2. IsFiniteSet(s) /\ Cardinality(s) <= n + 1
        BY <1>0
      <4>3. s \ {Pick(s)} \in Up(n)
        BY <4>1, <4>2, <3>2, Smaller
      <4>4. g[s \ {Pick(s)}] = f[s \ {Pick(s)}]
        BY <4>3, <2>2
      <4>5. QED
        BY <4>4 DEF Adding
    <3>3. QED
      BY <3>1, <3>2
  <2>4. g = [s \in Up(n + 1) |-> Adding(E, g, s)]
    BY <2>0, <2>3
  <2>5. QED
    BY <2>4 DEF Adds
<1>3. Cardinality(K) \in N
  <2> HIDE DEF N
  <2>1. Nat \subseteq N
    BY <1>1, <1>2, AllNaturals
  <2>2. QED
    BY <2>1, FS_CardinalityType
<1>4. Up(Cardinality(K)) = SUBSET K
  BY <1>0
<1>5. \E f : Adds(E, f, SUBSET K)
  BY <1>3, <1>4
<1>6. QED
  BY <1>5 DEF Sums

(* How much is held does not depend on where the sum began.                *)
LEMMA SumsAgree ==
  ASSUME NEW E, NEW K, IsFiniteSet(K), NEW t \in SUBSET K
  PROVE  Sums(E, K)[t] = Room(E, t)
<1> DEFINE f == Sums(E, K)
           g == Sums(E, t)
           N == {n \in Nat : \A u \in SUBSET t : Cardinality(u) <= n => f[u] = g[u]}
<1>0. IsFiniteSet(t)
  BY FS_Subset
<1>1. Adds(E, f, SUBSET K) /\ Adds(E, g, SUBSET t)
  BY <1>0, SumsAdd
<1> HIDE DEF f, g
<1>2. \A u \in SUBSET t : f[u] = Adding(E, f, u) /\ g[u] = Adding(E, g, u)
  BY <1>1 DEF Adds
<1>3. \A u \in SUBSET t : IsFiniteSet(u) /\ Cardinality(u) \in Nat
  BY <1>0, FS_Subset, FS_CardinalityType
<1>4. 0 \in N
  <2> SUFFICES ASSUME NEW u \in SUBSET t, Cardinality(u) <= 0 PROVE f[u] = g[u]
    OBVIOUS
  <2>1. u = {}
    BY <1>3, FS_EmptySet
  <2>2. QED
    BY <2>1, <1>2 DEF Adding
<1>5. ASSUME NEW n \in Nat, n \in N PROVE n + 1 \in N
  <2> SUFFICES ASSUME NEW u \in SUBSET t, Cardinality(u) <= n + 1 PROVE f[u] = g[u]
    OBVIOUS
  <2>1. CASE u = {}
    BY <2>1, <1>2 DEF Adding
  <2>2. CASE u # {}
    <3>1. Pick(u) \in u
      BY <2>2, PickIs
    <3>2. u \ {Pick(u)} \in SUBSET t /\ Cardinality(u \ {Pick(u)}) <= n
      BY <3>1, <2>2, <1>3, Smaller
    <3>3. f[u \ {Pick(u)}] = g[u \ {Pick(u)}]
      BY <3>2, <1>5
    <3>4. QED
      BY <3>3, <1>2, <2>2 DEF Adding
  <2>3. QED
    BY <2>1, <2>2
<1>6. Cardinality(t) \in N
  <2> HIDE DEF N
  <2>1. Nat \subseteq N
    BY <1>4, <1>5, AllNaturals
  <2>2. QED
    BY <2>1, <1>3
<1>7. f[t] = g[t]
  BY <1>6
<1>8. QED
  BY <1>7, RoomIs DEF f, g

LEMMA Peel ==
  ASSUME NEW E, NEW K, IsFiniteSet(K)
  PROVE  Room(E, K) = IF K = {} THEN 0 ELSE Bytes(E, Pick(K)) + Room(E, K \ {Pick(K)})
<1> DEFINE f == Sums(E, K)
<1>1. Adds(E, f, SUBSET K)
  BY SumsAdd
<1> HIDE DEF f
<1>2. f[K] = Adding(E, f, K)
  BY <1>1 DEF Adds
<1>3. Room(E, K) = f[K]
  BY RoomIs DEF f
<1>4. f[K \ {Pick(K)}] = Room(E, K \ {Pick(K)})
  BY SumsAgree DEF f
<1>5. QED
  BY <1>2, <1>3, <1>4 DEF Adding

LEMMA RoomEmpty == \A E, K : K = {} => Room(E, K) = 0
<1> TAKE E, K
<1>1. IsFiniteSet({})
  BY FS_EmptySet
<1>2. Room(E, {}) = 0
  BY <1>1, Peel
<1>3. K = {} => Room(E, K) = Room(E, {})
  BY Zenon
<1>4. QED
  BY <1>2, <1>3

LEMMA RoomNatural ==
  ASSUME NEW E, NEW K, IsFiniteSet(K), \A k \in K : Bytes(E, k) \in Nat
  PROVE  \A Q \in SUBSET K : Room(E, Q) \in Nat
<1> DEFINE N == {n \in Nat : \A Q \in SUBSET K : Cardinality(Q) <= n => Room(E, Q) \in Nat}
<1>1. \A Q \in SUBSET K : IsFiniteSet(Q) /\ Cardinality(Q) \in Nat
  BY FS_Subset, FS_CardinalityType
<1>2. 0 \in N
  <2> SUFFICES ASSUME NEW Q \in SUBSET K, Cardinality(Q) <= 0 PROVE Room(E, Q) \in Nat
    OBVIOUS
  <2>1. Q = {}
    BY <1>1, FS_EmptySet
  <2>2. QED
    BY <2>1, RoomEmpty
<1>3. ASSUME NEW n \in Nat, n \in N PROVE n + 1 \in N
  <2> SUFFICES ASSUME NEW Q \in SUBSET K, Cardinality(Q) <= n + 1 PROVE Room(E, Q) \in Nat
    OBVIOUS
  <2>1. CASE Q = {}
    BY <2>1, RoomEmpty
  <2>2. CASE Q # {}
    <3>1. Pick(Q) \in Q
      BY <2>2, PickIs
    <3>2. Q \ {Pick(Q)} \in SUBSET K /\ Cardinality(Q \ {Pick(Q)}) <= n
      BY <3>1, <2>2, <1>1, Smaller
    <3>3. Room(E, Q \ {Pick(Q)}) \in Nat /\ Bytes(E, Pick(Q)) \in Nat
      BY <3>1, <3>2, <1>3
    <3>4. Room(E, Q) = Bytes(E, Pick(Q)) + Room(E, Q \ {Pick(Q)})
      BY <2>2, <1>1, Peel
    <3>5. QED
      BY <3>3, <3>4
  <2>3. QED
    BY <2>1, <2>2
<1> HIDE DEF N
<1>4. Nat \subseteq N
  BY <1>2, <1>3, AllNaturals
<1>5. SUFFICES ASSUME NEW Q \in SUBSET K PROVE Room(E, Q) \in Nat
  OBVIOUS
<1>6. Cardinality(Q) \in N /\ Cardinality(Q) \in Nat
  BY <1>1, <1>4
<1>7. QED
  BY <1>6 DEF N

LEMMA RoomAdds ==
  ASSUME NEW E, NEW K, IsFiniteSet(K), \A k \in K : Bytes(E, k) \in Nat
  PROVE  \A Q \in SUBSET K : \A x \in Q : Room(E, Q) = Bytes(E, x) + Room(E, Q \ {x})
<1> DEFINE N == {n \in Nat : \A Q \in SUBSET K : Cardinality(Q) <= n =>
                   \A x \in Q : Room(E, Q) = Bytes(E, x) + Room(E, Q \ {x})}
<1>1. \A Q \in SUBSET K : IsFiniteSet(Q) /\ Cardinality(Q) \in Nat /\ Room(E, Q) \in Nat
  BY FS_Subset, FS_CardinalityType, RoomNatural
<1>2. 0 \in N
  <2>1. \A Q \in SUBSET K : Cardinality(Q) <= 0 => Q = {}
    BY <1>1, FS_EmptySet
  <2>2. QED
    BY <2>1
<1>3. ASSUME NEW n \in Nat, n \in N PROVE n + 1 \in N
  <2> SUFFICES ASSUME NEW Q \in SUBSET K, Cardinality(Q) <= n + 1, NEW x \in Q
               PROVE  Room(E, Q) = Bytes(E, x) + Room(E, Q \ {x})
    OBVIOUS
  <2> DEFINE c == Pick(Q)
  <2>1. c \in Q
    BY PickIs
  <2>2. Room(E, Q) = Bytes(E, c) + Room(E, Q \ {c})
    BY <1>1, Peel
  <2> HIDE DEF c
  <2>3. CASE x = c
    BY <2>3, <2>2
  <2>4. CASE x # c
    <3>1. /\ Q \ {c} \in SUBSET K /\ Cardinality(Q \ {c}) <= n /\ x \in Q \ {c}
          /\ Q \ {x} \in SUBSET K /\ Cardinality(Q \ {x}) <= n /\ c \in Q \ {x}
      BY <2>1, <2>4, <1>1, Smaller
    <3>2. Room(E, Q \ {c}) = Bytes(E, x) + Room(E, (Q \ {c}) \ {x})
      BY <3>1, <1>3
    <3>3. Room(E, Q \ {x}) = Bytes(E, c) + Room(E, (Q \ {x}) \ {c})
      BY <3>1, <1>3
    <3>4. Room(E, (Q \ {c}) \ {x}) = Room(E, (Q \ {x}) \ {c})
      <4>1. (Q \ {c}) \ {x} = (Q \ {x}) \ {c}
        OBVIOUS
      <4>2. QED
        BY <4>1, Zenon
    <3>5. Room(E, (Q \ {x}) \ {c}) \in Nat /\ Bytes(E, c) \in Nat /\ Bytes(E, x) \in Nat
      BY <1>1, <2>1
    <3>6. QED
      BY <2>2, <3>2, <3>3, <3>4, <3>5
  <2>5. QED
    BY <2>3, <2>4
<1> HIDE DEF N
<1>4. Nat \subseteq N
  BY <1>2, <1>3, AllNaturals
<1>5. SUFFICES ASSUME NEW Q \in SUBSET K PROVE \A x \in Q : Room(E, Q) = Bytes(E, x) + Room(E, Q \ {x})
  OBVIOUS
<1>6. Cardinality(Q) \in N /\ Cardinality(Q) \in Nat
  BY <1>1, <1>4
<1>7. QED
  BY <1>6 DEF N

LEMMA RoomSingle ==
  ASSUME NEW E, NEW k, Bytes(E, k) \in Nat
  PROVE  Room(E, {k}) = Bytes(E, k) /\ Room(E, {}) = 0
<1>1. IsFiniteSet({k}) /\ IsFiniteSet({}) /\ {k} # {}
  BY FS_Singleton, FS_EmptySet
<1>2. Pick({k}) = k /\ {k} \ {k} = {}
  BY <1>1, PickIs
<1>3. Room(E, {}) = 0
  BY RoomEmpty
<1>4. Room(E, {k} \ {k}) = Room(E, {}) /\ Bytes(E, Pick({k})) = Bytes(E, k) /\ {k} \ {Pick({k})} = {}
  BY <1>2, Zenon
<1>5. Room(E, {k} \ {Pick({k})}) = Room(E, {})
  BY <1>4, Zenon
<1>6. Room(E, {k}) = Bytes(E, Pick({k})) + Room(E, {k} \ {Pick({k})})
  BY <1>1, Peel
<1>7. QED
  BY <1>3, <1>4, <1>5, <1>6

(* Less is held of fewer.                                                  *)
LEMMA RoomGrows ==
  ASSUME NEW E, NEW F, NEW K, IsFiniteSet(K), \A k \in K : Bytes(F, k) \in Nat
  PROVE  \A Q \in SUBSET K : \A R \in SUBSET Q :
           (\A k \in R : Bytes(E, k) = Bytes(F, k)) => Room(E, R) <= Room(F, Q)
<1> DEFINE N == {n \in Nat : \A Q \in SUBSET K : Cardinality(Q) <= n => \A R \in SUBSET Q :
                   (\A k \in R : Bytes(E, k) = Bytes(F, k)) => Room(E, R) <= Room(F, Q)}
<1>1. \A Q \in SUBSET K : IsFiniteSet(Q) /\ Cardinality(Q) \in Nat /\ Room(F, Q) \in Nat
  BY FS_Subset, FS_CardinalityType, RoomNatural
<1>2. ASSUME NEW R \in SUBSET K, \A k \in R : Bytes(E, k) = Bytes(F, k)
      PROVE  \A k \in R : /\ Room(E, R) = Bytes(E, k) + Room(E, R \ {k})
                          /\ Room(E, R) \in Nat /\ Room(E, R \ {k}) \in Nat
  <2>1. IsFiniteSet(R) /\ \A k \in R : Bytes(E, k) \in Nat
    BY <1>1, <1>2
  <2>2. QED
    BY <2>1, RoomAdds, RoomNatural
<1>3. 0 \in N
  <2> SUFFICES ASSUME NEW Q \in SUBSET K, Cardinality(Q) <= 0, NEW R \in SUBSET Q
               PROVE  Room(E, R) <= Room(F, Q)
    OBVIOUS
  <2>1. Q = {} /\ R = {}
    BY <1>1, FS_EmptySet
  <2>2. QED
    BY <2>1, RoomEmpty
<1>4. ASSUME NEW n \in Nat, n \in N PROVE n + 1 \in N
  <2> SUFFICES ASSUME NEW Q \in SUBSET K, Cardinality(Q) <= n + 1, NEW R \in SUBSET Q,
                      \A k \in R : Bytes(E, k) = Bytes(F, k)
               PROVE  Room(E, R) <= Room(F, Q)
    OBVIOUS
  <2>1. CASE Q = {}
    <3>1. R = {}
      BY <2>1
    <3>2. QED
      BY <2>1, <3>1, RoomEmpty
  <2>2. CASE Q # {}
    <3>1. PICK c : c \in Q
      BY <2>2
    <3>2. Q \ {c} \in SUBSET K /\ Cardinality(Q \ {c}) <= n /\ R \ {c} \in SUBSET (Q \ {c})
      BY <3>1, <1>1, Smaller
    <3>3. Room(E, R \ {c}) <= Room(F, Q \ {c})
      BY <3>2, <1>4
    <3>4. Room(F, Q) = Bytes(F, c) + Room(F, Q \ {c}) /\ Room(F, Q \ {c}) \in Nat /\ Bytes(F, c) \in Nat
      BY <3>1, <3>2, <1>1, RoomAdds
    <3>5. CASE c \in R
      <4>1. /\ Room(E, R) = Bytes(F, c) + Room(E, R \ {c})
            /\ Room(E, R \ {c}) \in Nat
        BY <3>5, <1>2
      <4>2. QED
        BY <3>3, <3>4, <4>1
    <3>6. CASE c \notin R
      <4>1. Room(E, R \ {c}) = Room(E, R)
        <5>1. R \ {c} = R
          BY <3>6
        <5>2. QED
          BY <5>1, Zenon
      <4>2. Room(E, R) \in Nat
        <5>1. CASE R = {}
          BY <5>1, RoomEmpty
        <5>2. CASE R # {}
          BY <5>2, <1>2
        <5>3. QED
          BY <5>1, <5>2
      <4>3. QED
        BY <3>3, <3>4, <4>1, <4>2
    <3>7. QED
      BY <3>5, <3>6
  <2>3. QED
    BY <2>1, <2>2
<1> HIDE DEF N
<1>5. Nat \subseteq N
  BY <1>3, <1>4, AllNaturals
<1>6. SUFFICES ASSUME NEW Q \in SUBSET K, NEW R \in SUBSET Q, \A k \in R : Bytes(E, k) = Bytes(F, k)
               PROVE  Room(E, R) <= Room(F, Q)
  OBVIOUS
<1>7. Cardinality(Q) \in N /\ Cardinality(Q) \in Nat /\ Cardinality(Q) <= Cardinality(Q)
  BY <1>1, <1>5
<1>8. QED
  BY <1>6, <1>7 DEF N

-----------------------------------------------------------------------------
(* Sequences of distinct members. *)

Distinct(s) == \A i, j \in 1 .. Len(s) : s[i] = s[j] => i = j
Members(s) == {s[i] : i \in 1 .. Len(s)}

LEMMA PieceListed ==
  ASSUME NEW s, Listed(s), NEW m \in Nat \ {0}, NEW n \in Nat, n <= Len(s), m <= n + 1
  PROVE  /\ Listed(SubSeq(s, m, n)) /\ Len(SubSeq(s, m, n)) = n + 1 - m
         /\ \A i \in 1 .. n + 1 - m : SubSeq(s, m, n)[i] = s[m + i - 1]
<1>1. /\ Len(s) \in Nat /\ DOMAIN s = 1 .. Len(s) /\ s \in Seq({s[i] : i \in DOMAIN s})
  BY ListedLen DEF Listed
<1> DEFINE E == {s[i] : i \in DOMAIN s}
<1>2. s \in Seq(E)
  BY <1>1
<1>3. \A i \in m .. n : s[i] \in E
  BY <1>1
<1> HIDE DEF E
<1>4. /\ SubSeq(s, m, n) \in Seq(E)
      /\ Len(SubSeq(s, m, n)) = IF m <= n THEN n - m + 1 ELSE 0
      /\ \A i \in 1 .. n - m + 1 : SubSeq(s, m, n)[i] = s[m + i - 1]
  BY <1>2, <1>3, SubSeqProperties
<1>5. Listed(SubSeq(s, m, n))
  BY <1>4, ListedIs
<1>6. (IF m <= n THEN n - m + 1 ELSE 0) = n + 1 - m /\ n - m + 1 = n + 1 - m
  OBVIOUS
<1>7. QED
  BY <1>4, <1>5, <1>6

LEMMA RemoveAtIs ==
  ASSUME NEW s, Listed(s), NEW p \in 1 .. Len(s)
  PROVE  /\ Listed(T!RemoveAt(s, p)) /\ Len(T!RemoveAt(s, p)) = Len(s) - 1
         /\ \A i \in 1 .. Len(s) - 1 : T!RemoveAt(s, p)[i] = IF i < p THEN s[i] ELSE s[i + 1]
<1> DEFINE u == SubSeq(s, 1, p - 1)
           v == SubSeq(s, p + 1, Len(s))
<1>1. Len(s) \in Nat /\ p \in Nat /\ p - 1 \in Nat
  BY ListedLen
<1>2. /\ Listed(u) /\ Len(u) = p - 1 /\ \A i \in 1 .. p - 1 : u[i] = s[i]
  <2>1. p - 1 \in 0 .. Len(s)
    BY <1>1
  <2>2. QED
    BY <2>1, SubListed
<1>3. /\ Listed(v) /\ Len(v) = Len(s) - p /\ \A i \in 1 .. Len(s) - p : v[i] = s[p + i]
  <2>1. /\ Listed(v) /\ Len(v) = Len(s) + 1 - (p + 1)
        /\ \A i \in 1 .. Len(s) + 1 - (p + 1) : v[i] = s[(p + 1) + i - 1]
    BY <1>1, PieceListed
  <2>2. QED
    BY <1>1, <2>1
<1> HIDE DEF u, v
<1>4. /\ Listed(u \o v) /\ Len(u \o v) = Len(s) - 1
      /\ \A i \in 1 .. p - 1 : (u \o v)[i] = s[i]
      /\ \A i \in 1 .. Len(s) - p : (u \o v)[(p - 1) + i] = s[p + i]
  BY <1>1, <1>2, <1>3, ConcatListed
<1>5. ASSUME NEW i \in 1 .. Len(s) - 1, ~ (i < p) PROVE (u \o v)[i] = s[i + 1]
  <2>1. i - p + 1 \in 1 .. Len(s) - p /\ (p - 1) + (i - p + 1) = i /\ p + (i - p + 1) = i + 1
    BY <1>1, <1>5
  <2>2. QED
    BY <2>1, <1>4
<1>6. \A i \in 1 .. Len(s) - 1 : i < p => i \in 1 .. p - 1
  BY <1>1
<1>7. T!RemoveAt(s, p) = u \o v
  BY DEF T!RemoveAt, u, v
<1>8. QED
  BY <1>4, <1>5, <1>6, <1>7

(* What is used moves to the end.                                          *)
LEMMA RefreshNew ==
  ASSUME NEW s, Listed(s), NEW x, x \notin Members(s)
  PROVE  T!Refresh(s, x) = Append(s, x)
BY ListedLen DEF T!Refresh, T!ToSet, Members

LEMMA RefreshOld ==
  ASSUME NEW s, Listed(s), Distinct(s), NEW p \in 1 .. Len(s)
  PROVE  T!Refresh(s, s[p]) = Append(T!RemoveAt(s, p), s[p])
<1>1. DOMAIN s = 1 .. Len(s)
  BY ListedLen
<1>2. (CHOOSE i \in DOMAIN s : s[i] = s[p]) = p
  BY <1>1 DEF Distinct
<1>3. s[p] \in T!ToSet(s)
  BY <1>1 DEF T!ToSet
<1>4. QED
  BY <1>2, <1>3 DEF T!Refresh

LEMMA RefreshAt ==
  ASSUME NEW s, Listed(s), Distinct(s), NEW p \in 1 .. Len(s)
  PROVE  LET r == T!Refresh(s, s[p])
         IN /\ Listed(r) /\ Len(r) = Len(s) /\ r[Len(s)] = s[p]
            /\ \A i \in 1 .. Len(s) - 1 : r[i] = IF i < p THEN s[i] ELSE s[i + 1]
<1> DEFINE u == T!RemoveAt(s, p)
           r == Append(u, s[p])
<1>0. Len(s) \in Nat
  BY ListedLen
<1>1. r = T!Refresh(s, s[p])
  BY RefreshOld
<1>2. /\ Listed(u) /\ Len(u) = Len(s) - 1
      /\ \A i \in 1 .. Len(s) - 1 : u[i] = IF i < p THEN s[i] ELSE s[i + 1]
  BY RemoveAtIs
<1> HIDE DEF u
<1>3. /\ Listed(r) /\ Len(r) = Len(u) + 1 /\ r[Len(u) + 1] = s[p]
      /\ \A i \in 1 .. Len(u) : r[i] = u[i]
  BY <1>2, AppendListed
<1> HIDE DEF r
<1>4. /\ Len(r) = Len(s) /\ r[Len(s)] = s[p]
      /\ \A i \in 1 .. Len(s) - 1 : r[i] = IF i < p THEN s[i] ELSE s[i + 1]
  BY <1>0, <1>2, <1>3
<1>5. QED
  BY <1>1, <1>3, <1>4

LEMMA RefreshIs ==
  ASSUME NEW s, Listed(s), Distinct(s), NEW x
  PROVE  /\ Listed(T!Refresh(s, x)) /\ Distinct(T!Refresh(s, x))
         /\ Members(T!Refresh(s, x)) = Members(s) \cup {x}
         /\ Len(T!Refresh(s, x)) > 0 /\ T!Refresh(s, x)[Len(T!Refresh(s, x))] = x
<1>0. Len(s) \in Nat
  BY ListedLen
<1>1. CASE x \notin Members(s)
  <2> DEFINE r == Append(s, x)
  <2>1. /\ Listed(r) /\ Len(r) = Len(s) + 1 /\ r[Len(s) + 1] = x
        /\ \A i \in 1 .. Len(s) : r[i] = s[i]
    BY AppendListed
  <2>2. r = T!Refresh(s, x)
    BY <1>1, RefreshNew
  <2> HIDE DEF r
  <2>3. \A i \in 1 .. Len(s) + 1 : i = Len(s) + 1 \/ i \in 1 .. Len(s)
    BY <1>0
  <2>4. Distinct(r)
    BY <1>0, <1>1, <2>1, <2>3 DEF Distinct, Members
  <2>5. Members(r) = Members(s) \cup {x}
    BY <1>0, <2>1, <2>3 DEF Members
  <2>6. QED
    BY <1>0, <2>1, <2>2, <2>4, <2>5
<1>2. CASE x \in Members(s)
  <2>1. PICK p \in 1 .. Len(s) : x = s[p]
    BY <1>2 DEF Members
  <2> DEFINE r == T!Refresh(s, x)
  <2>5. /\ Listed(r) /\ Len(r) = Len(s) /\ r[Len(s)] = x
        /\ \A i \in 1 .. Len(s) - 1 : r[i] = IF i < p THEN s[i] ELSE s[i + 1]
    BY <2>1, RefreshAt
  <2> HIDE DEF r
  <2>6. \A i \in 1 .. Len(s) : i # Len(s) => i \in 1 .. Len(s) - 1 /\ i + 1 \in 1 .. Len(s)
    BY <1>0
  <2>7. Distinct(r)
    <3> SUFFICES ASSUME NEW i \in 1 .. Len(r), NEW j \in 1 .. Len(r), r[i] = r[j] PROVE i = j
      BY DEF Distinct
    <3> DEFINE q(k) == IF k = Len(s) THEN p ELSE IF k < p THEN k ELSE k + 1
    <3>1. \A k \in 1 .. Len(s) : q(k) \in 1 .. Len(s) /\ r[k] = s[q(k)]
      BY <1>0, <2>1, <2>5, <2>6
    <3>2. q(i) = q(j)
      BY <3>1, <2>5 DEF Distinct
    <3>3. QED
      BY <3>2, <1>0, <2>5
  <2>8. Members(r) = Members(s)
    <3>1. ASSUME NEW i \in 1 .. Len(s) PROVE r[i] \in Members(s)
      BY <2>1, <2>5, <2>6 DEF Members
    <3>2. ASSUME NEW i \in 1 .. Len(s) PROVE s[i] \in Members(r)
      <4>1. CASE i = p
        <5>1. Len(s) \in 1 .. Len(r)
          BY <1>0, <2>5
        <5>2. QED
          BY <4>1, <5>1, <2>1, <2>5 DEF Members
      <4>2. CASE i < p
        <5>1. i \in 1 .. Len(s) - 1 /\ i \in 1 .. Len(r)
          BY <4>2, <1>0, <2>5
        <5>2. QED
          BY <4>2, <5>1, <2>5 DEF Members
      <4>3. CASE i > p
        <5>1. i - 1 \in 1 .. Len(s) - 1 /\ i - 1 \in 1 .. Len(r) /\ ~ (i - 1 < p) /\ (i - 1) + 1 = i
          BY <4>3, <1>0, <2>5
        <5>2. r[i - 1] = s[i]
          BY <5>1, <2>5
        <5>3. QED
          BY <5>1, <5>2 DEF Members
      <4>4. QED
        BY <4>1, <4>2, <4>3, <1>0
    <3>3. QED
      BY <3>1, <3>2, <2>5 DEF Members
  <2>9. QED
    BY <1>0, <1>2, <2>5, <2>7, <2>8 DEF r
<1>3. QED
  BY <1>1, <1>2

LEMMA WithoutIs ==
  ASSUME NEW s, Listed(s), Distinct(s), NEW gone
  PROVE  /\ Listed(T!Without(s, gone)) /\ Distinct(T!Without(s, gone))
         /\ Members(T!Without(s, gone)) = Members(s) \ gone
<1> DEFINE Takes(f, n) == IF n = 0 THEN <<>>
                          ELSE IF s[n] \in gone THEN f[n - 1] ELSE Append(f[n - 1], s[n])
           Left(f, m) == f = [n \in 0 .. m |-> Takes(f, n)]
           f == CHOOSE f : Left(f, Len(s))
           Some == {m \in Nat : \E g : Left(g, m)}
<1>0. Len(s) \in Nat
  BY ListedLen
<1>1. 0 \in Some
  <2> DEFINE g == [n \in 0 .. 0 |-> <<>>]
  <2>1. g = [n \in 0 .. 0 |-> Takes(g, n)]
    OBVIOUS
  <2>2. QED
    BY <2>1
<1>2. ASSUME NEW m \in Nat, m \in Some PROVE m + 1 \in Some
  <2>1. PICK h : h = [n \in 0 .. m |-> Takes(h, n)]
    BY <1>2
  <2> DEFINE g == [n \in 0 .. m + 1 |-> Takes(h, n)]
  <2>2. g = [n \in 0 .. m + 1 |-> Takes(h, n)]
    OBVIOUS
  <2> HIDE DEF g
  <2>3. \A n \in 0 .. m : n \in 0 .. m + 1
    OBVIOUS
  <2>4. \A n \in 0 .. m : g[n] = h[n]
    BY <2>1, <2>2, <2>3
  <2>5. \A n \in 0 .. m + 1 : n # 0 => n - 1 \in 0 .. m
    OBVIOUS
  <2>6. \A n \in 0 .. m + 1 : Takes(g, n) = Takes(h, n)
    BY <2>4, <2>5
  <2> HIDE DEF Takes
  <2>7. g = [n \in 0 .. m + 1 |-> Takes(g, n)]
    BY <2>2, <2>6
  <2>8. QED
    BY <2>7
<1>3. Len(s) \in Some
  <2> HIDE DEF Some
  <2>1. QED
    BY <1>0, <1>1, <1>2, AllNaturals
<1>4. f = [n \in 0 .. Len(s) |-> Takes(f, n)]
  <2> HIDE DEF Takes
  <2>1. \E g : Left(g, Len(s))
    BY <1>3
  <2> HIDE DEF Left
  <2>2. Left(f, Len(s))
    BY <2>1
  <2>3. QED
    BY <2>2 DEF Left
<1>5. T!Without(s, gone) = f[Len(s)]
  BY DEF T!Without
<1> HIDE DEF f
<1> DEFINE Rest(n) == {s[i] : i \in 1 .. n} \ gone
           Fine(r, n) == Listed(r) /\ Distinct(r) /\ Members(r) = Rest(n)
           Done == {n \in Nat : n <= Len(s) => Fine(f[n], n)}
<1>6. 0 \in Done
  <2>1. 0 \in 0 .. Len(s) /\ 1 .. 0 = {}
    BY <1>0
  <2>2. f[0] = <<>>
    BY <1>4, <2>1
  <2>3. Listed(<<>>) /\ Len(<<>>) = 0
    BY DEF Listed
  <2>4. Fine(<<>>, 0)
    BY <2>1, <2>3 DEF Distinct, Members
  <2> HIDE DEF Fine
  <2>5. QED
    BY <2>2, <2>4
<1>7. ASSUME NEW n \in Nat, n \in Done PROVE n + 1 \in Done
  <2> SUFFICES ASSUME n + 1 <= Len(s) PROVE Fine(f[n + 1], n + 1)
    OBVIOUS
  <2>1. Fine(f[n], n)
    BY <1>0, <1>7
  <2>2. n + 1 \in 0 .. Len(s) /\ (n + 1) - 1 = n /\ n + 1 # 0 /\ n + 1 \in 1 .. Len(s)
    BY <1>0
  <2>3. f[n + 1] = IF s[n + 1] \in gone THEN f[n] ELSE Append(f[n], s[n + 1])
    BY <1>4, <2>2
  <2>4. {s[i] : i \in 1 .. n + 1} = {s[i] : i \in 1 .. n} \cup {s[n + 1]}
    <3>1. \A i \in 1 .. n + 1 : i = n + 1 \/ i \in 1 .. n
      OBVIOUS
    <3>2. n + 1 \in 1 .. n + 1 /\ \A i \in 1 .. n : i \in 1 .. n + 1
      OBVIOUS
    <3>3. QED
      BY <3>1, <3>2
  <2>5. CASE s[n + 1] \in gone
    <3>1. Rest(n + 1) = Rest(n)
      BY <2>4, <2>5
    <3>2. f[n + 1] = f[n]
      BY <2>3, <2>5
    <3> HIDE DEF Rest
    <3>3. QED
      BY <3>1, <3>2, <2>1
  <2>6. CASE s[n + 1] \notin gone
    <3> DEFINE r == f[n]
               t == Append(r, s[n + 1])
    <3>1. Rest(n + 1) = Rest(n) \cup {s[n + 1]}
      BY <2>4, <2>6
    <3>2. f[n + 1] = t
      BY <2>3, <2>6
    <3>3. Listed(r) /\ Distinct(r) /\ Members(r) = Rest(n) /\ Len(r) \in Nat
      BY <2>1, ListedLen
    <3>4. s[n + 1] \notin Members(r)
      <4>1. \A i \in 1 .. n : i \in 1 .. Len(s) /\ i # n + 1
        BY <1>0, <2>2
      <4>2. \A i \in 1 .. n : s[i] # s[n + 1]
        BY <2>2, <4>1 DEF Distinct
      <4>3. QED
        BY <3>3, <4>2
    <3> HIDE DEF Rest
    <3>5. /\ Listed(t) /\ Len(t) = Len(r) + 1 /\ t[Len(r) + 1] = s[n + 1]
          /\ \A i \in 1 .. Len(r) : t[i] = r[i]
      BY <3>3, AppendListed
    <3> HIDE DEF r, t
    <3>6. \A i \in 1 .. Len(r) + 1 : i = Len(r) + 1 \/ i \in 1 .. Len(r)
      BY <3>3
    <3>7. Distinct(t)
      BY <3>3, <3>4, <3>5, <3>6 DEF Distinct, Members
    <3>8. Members(t) = Members(r) \cup {s[n + 1]}
      BY <3>3, <3>5, <3>6 DEF Members
    <3>9. QED
      BY <3>1, <3>2, <3>3, <3>5, <3>7, <3>8
  <2>7. QED
    BY <2>5, <2>6
<1>8. Len(s) \in Done
  <2> HIDE DEF Done
  <2>1. QED
    BY <1>0, <1>6, <1>7, AllNaturals
<1>9. QED
  BY <1>0, <1>5, <1>8 DEF Members

-----------------------------------------------------------------------------
(* Arenas. *)

Residents(E) == {k \in DOMAIN E : E[k].tensor # Missing}
IsEntry(e) == e = [tensor |-> e.tensor, meant |-> e.meant, filed |-> e.filed] /\ e.meant \in Tensors

LEMMA ResidentIs == \A E : T!resident(E) = Room(E, Residents(E))
BY DEF T!resident, Room, Residents

LEMMA KeepIs ==
  ASSUME NEW E, NEW spilt, \A k \in DOMAIN E : IsEntry(E[k])
  PROVE  /\ DOMAIN T!Keep(E, spilt) = DOMAIN E
         /\ \A k \in DOMAIN E :
              /\ T!Keep(E, spilt)[k].meant = E[k].meant
              /\ IsEntry(T!Keep(E, spilt)[k])
              /\ T!Keep(E, spilt)[k].tensor = IF k \in spilt THEN Missing ELSE E[k].tensor
<1>1. DOMAIN T!Keep(E, spilt) = DOMAIN E
  BY DEF T!Keep
<1>2. SUFFICES ASSUME NEW k \in DOMAIN E
               PROVE  /\ T!Keep(E, spilt)[k].meant = E[k].meant
                      /\ IsEntry(T!Keep(E, spilt)[k])
                      /\ T!Keep(E, spilt)[k].tensor = IF k \in spilt THEN Missing ELSE E[k].tensor
  BY <1>1
<1> DEFINE e == E[k]
           d == T!Keep(E, spilt)[k]
<1>3. d = IF k \in spilt THEN [e EXCEPT !.tensor = Missing, !.filed = TRUE] ELSE e
  BY DEF T!Keep
<1>4. e = [tensor |-> e.tensor, meant |-> e.meant, filed |-> e.filed] /\ e.meant \in Tensors
  BY <1>2 DEF IsEntry
<1> HIDE DEF e, d
<1>5. k \in spilt => d = [tensor |-> Missing, meant |-> e.meant, filed |-> TRUE]
  BY <1>3, <1>4
<1>6. QED
  BY <1>3, <1>4, <1>5 DEF IsEntry, e, d

(* What goes was in memory, what stays fits, and what was used last stays. *)
LEMMA EvictedIs ==
  ASSUME T!StoresAssumption,
         NEW E, DOMAIN E \subseteq Keys, \A k \in DOMAIN E : IsEntry(E[k]),
         NEW order, Listed(order), Distinct(order), Members(order) = DOMAIN E, Len(order) > 0
  PROVE  /\ T!evicted(E, order) \subseteq Residents(E)
         /\ T!resident(T!Keep(E, T!evicted(E, order))) <= ArenaBudget
         /\ order[Len(order)] \notin T!evicted(E, order)
<1> DEFINE first(n) == {k \in {order[i] : i \in 1 .. n} : E[k].tensor # Missing}
           fits(n) == T!resident(T!Keep(E, first(n))) <= ArenaBudget
           N == {n \in 0 .. Len(order) : fits(n)}
           m == Len(order) - 1
           k == order[Len(order)]
<1>1. Len(order) \in Nat /\ m \in 0 .. Len(order) /\ m \in Nat /\ Len(order) \in 1 .. Len(order)
  BY ListedLen
<1>2. k \in DOMAIN E
  BY <1>1 DEF Members
<1>3. DOMAIN E = {order[i] : i \in 1 .. m} \cup {k}
  <2>1. \A i \in 1 .. Len(order) : i = Len(order) \/ i \in 1 .. m
    BY <1>1
  <2>2. \A i \in 1 .. m : i \in 1 .. Len(order)
    BY <1>1
  <2>3. QED
    BY <1>1, <2>1, <2>2 DEF Members
<1>4. k \notin {order[i] : i \in 1 .. m}
  <2>1. \A i \in 1 .. m : i \in 1 .. Len(order) /\ i # Len(order)
    BY <1>1
  <2>2. QED
    BY <1>1, <2>1 DEF Distinct
<1> HIDE DEF k
<1>5. m \in N
  <2> DEFINE F == T!Keep(E, first(m))
  <2>1. /\ DOMAIN F = DOMAIN E
        /\ \A j \in DOMAIN E : /\ F[j].meant = E[j].meant
                               /\ F[j].tensor = IF j \in first(m) THEN Missing ELSE E[j].tensor
    BY KeepIs
  <2>2. \A j \in DOMAIN E : j # k => F[j].tensor = Missing
    BY <2>1, <1>3
  <2>3. Bytes(F, k) \in 0 .. ArenaBudget
    BY <2>1, <1>2 DEF Bytes, IsEntry, T!StoresAssumption
  <2> HIDE DEF F
  <2>4. Residents(F) = {} \/ Residents(F) = {k}
    BY <2>1, <2>2 DEF Residents
  <2>5. Room(F, Residents(F)) <= ArenaBudget
    <3>1. CASE Residents(F) = {}
      <4>1. Room(F, Residents(F)) = 0 /\ ArenaBudget \in Nat
        BY <3>1, RoomEmpty DEF T!StoresAssumption
      <4>2. QED
        BY <4>1
    <3>2. CASE Residents(F) = {k}
      <4>1. Room(F, Residents(F)) = Room(F, {k})
        BY <3>2, Zenon
      <4>2. Bytes(F, k) \in Nat /\ Bytes(F, k) <= ArenaBudget
        BY <2>3 DEF T!StoresAssumption
      <4>3. Room(F, {k}) = Bytes(F, k)
        BY <4>2, RoomSingle
      <4>4. QED
        BY <4>1, <4>2, <4>3
    <3>3. QED
      BY <2>4, <3>1, <3>2
  <2>6. T!resident(F) <= ArenaBudget
    BY <2>5, ResidentIs
  <2>7. fits(m)
    BY <2>6 DEF F
  <2> HIDE DEF fits
  <2>8. QED
    BY <1>1, <2>7
<1> DEFINE n == T!Min(N)
<1>6. n \in N /\ n <= m
  <2> HIDE DEF fits
  <2>1. N \subseteq Nat /\ N # {}
    BY <1>1, <1>5
  <2> HIDE DEF N
  <2>2. S!Min(N) \in N /\ \A i \in N : S!Min(N) <= i
    BY <2>1, LeastNatural
  <2>3. T!Min(N) = S!Min(N)
    BY DEF T!Min, S!Min
  <2>4. QED
    BY <1>5, <2>2, <2>3
<1>7. T!evicted(E, order) = first(n)
  BY DEF T!evicted
<1> HIDE DEF N
<1>8. n \in 0 .. Len(order) /\ fits(n)
  BY <1>6 DEF N
<1> HIDE DEF n
<1>9. \A i \in 1 .. n : i \in 1 .. m /\ i \in 1 .. Len(order)
  BY <1>1, <1>6, <1>8
<1>10. first(n) \subseteq Residents(E) /\ k \notin first(n)
  BY <1>4, <1>9 DEF Residents, Members
<1> HIDE DEF first
<1>11. QED
  BY <1>7, <1>8, <1>10 DEF k

(* What arenas have: their keys in the order of use, and for each tensor   *)
(* whose file is the arena's own the tensor itself, in memory or on disk.  *)
Kept(a, k, e) ==
  T!Alone(a, k) => IF e.tensor = Missing THEN k \in DOMAIN files[where[a]] /\ files[where[a]][k] = e.meant
                                         ELSE e.tensor = e.meant

EntriesFine(a, E) ==
  /\ DOMAIN E \subseteq Keys
  /\ \A k \in DOMAIN E :
       /\ IsEntry(E[k]) /\ Kept(a, k, E[k])
       /\ where[a] = Missing => E[k].tensor # Missing

OrderFine(a, order, E) == Listed(order) /\ Distinct(order) /\ Members(order) = DOMAIN E

Shelves ==
  /\ where \in [Arenas -> Directories \cup {Missing}]
  /\ files = [d \in Directories |-> files[d]]
  /\ held = [a \in Arenas |-> held[a]]
  /\ recency = [a \in Arenas |-> recency[a]]

ArenaFine(a) ==
  /\ EntriesFine(a, held[a])
  /\ OrderFine(a, recency[a], held[a])
  /\ where[a] # Missing => T!resident(held[a]) <= ArenaBudget

ArenaInv == Shelves /\ \A a \in Arenas : ArenaFine(a)

(* What is put into an arena, or read back, and what goes to disk for it.  *)
LEMMA EvictKeeps ==
  ASSUME T!StoresAssumption, ArenaInv,
         NEW a \in Arenas, NEW E, EntriesFine(a, E),
         NEW k \in DOMAIN E, NEW order, OrderFine(a, order, E), order[Len(order)] = k, Len(order) > 0,
         recency' = [recency EXCEPT ![a] = order], T!evict(a, E), UNCHANGED where
  PROVE  ArenaInv' /\ held'[a][k] = E[k]
<1>1. /\ where \in [Arenas -> Directories \cup {Missing}]
      /\ files = [d \in Directories |-> files[d]]
      /\ held = [b \in Arenas |-> held[b]]
      /\ recency = [b \in Arenas |-> recency[b]]
      /\ \A b \in Arenas : ArenaFine(b)
  BY DEF ArenaInv, Shelves
<1>2. where'[a] = where[a] /\ recency'[a] = order /\ \A b \in Arenas : b # a => recency'[b] = recency[b]
  BY <1>1
<1>3. recency' = [b \in Arenas |-> recency'[b]]
  BY <1>1
<1>4. /\ DOMAIN E \subseteq Keys /\ \A j \in DOMAIN E : IsEntry(E[j]) /\ Kept(a, j, E[j])
      /\ Listed(order) /\ Distinct(order) /\ Members(order) = DOMAIN E
  BY DEF EntriesFine, OrderFine
<1>5. CASE where[a] = Missing
  <2>1. held' = [held EXCEPT ![a] = E] /\ UNCHANGED <<files, wrote>>
    BY <1>5 DEF T!evict
  <2>2. held'[a] = E /\ held' = [b \in Arenas |-> held'[b]] /\ \A b \in Arenas : b # a => held'[b] = held[b]
    BY <2>1, <1>1
  <2>3. Shelves'
    BY <1>1, <1>3, <2>1, <2>2 DEF Shelves
  <2>4. \A b, j, e : Kept(b, j, e)' <=> Kept(b, j, e)
    BY <2>1 DEF Kept, T!Alone
  <2>5. ASSUME NEW b \in Arenas PROVE ArenaFine(b)'
    <3>1. CASE b = a
      BY <3>1, <1>2, <1>5, <2>2, <2>4 DEF ArenaFine, EntriesFine, OrderFine
    <3>2. CASE b # a
      BY <3>2, <1>1, <1>2, <2>2, <2>4 DEF ArenaFine, EntriesFine, OrderFine
    <3>3. QED
      BY <3>1, <3>2
  <2>6. QED
    BY <2>2, <2>3, <2>5 DEF ArenaInv
<1>6. CASE where[a] # Missing
  <2> DEFINE spilt == T!evicted(E, order)
             F == T!Keep(E, spilt)
             d == where[a]
  <2>1. d \in Directories
    BY <1>1, <1>6
  <2>2. /\ held' = [held EXCEPT ![a] = F]
        /\ files' = [files EXCEPT ![d] = T!write(a, E, spilt)]
        /\ wrote' = wrote \cup {<<a, j>> : j \in spilt}
    BY <1>2, <1>6 DEF T!evict
  <2>3. /\ spilt \subseteq Residents(E) /\ T!resident(F) <= ArenaBudget /\ k \notin spilt
    BY <1>4, EvictedIs
  <2>4. /\ DOMAIN F = DOMAIN E
        /\ \A j \in DOMAIN E :
             /\ F[j].meant = E[j].meant /\ IsEntry(F[j])
             /\ F[j].tensor = IF j \in spilt THEN Missing ELSE E[j].tensor
    BY <1>4, KeepIs
  <2>5. /\ DOMAIN files'[d] = DOMAIN files[d] \cup spilt
        /\ \A j \in DOMAIN files'[d] : files'[d][j] = IF j \in spilt THEN E[j].tensor ELSE files[d][j]
        /\ \A c \in Directories : c # d => files'[c] = files[c]
        /\ files' = [c \in Directories |-> files'[c]]
    BY <1>1, <2>1, <2>2 DEF T!write
  <2>6. F[k] = E[k]
    BY <2>3 DEF T!Keep
  <2> HIDE DEF F, spilt
  <2>7. held'[a] = F /\ held' = [b \in Arenas |-> held'[b]] /\ \A b \in Arenas : b # a => held'[b] = held[b]
    BY <2>2, <1>1
  <2>8. Shelves'
    BY <1>1, <1>3, <2>5, <2>7 DEF Shelves
  <2>9. \A b, j : T!Alone(b, j)' => T!Alone(b, j)
    BY <2>2 DEF T!Alone
  <2>10. ASSUME NEW b \in Arenas, b # a, where[b] = d, NEW j, T!Alone(b, j)' PROVE j \notin spilt
    BY <2>2, <2>10 DEF T!Alone
  <2>11. ASSUME NEW b \in Arenas, b # a, NEW j \in DOMAIN held[b] PROVE Kept(b, j, held[b][j])'
    <3> DEFINE e == held[b][j]
    <3>1. Kept(b, j, e) /\ (where[b] = Missing => e.tensor # Missing)
      BY <1>1, <2>11 DEF ArenaFine, EntriesFine
    <3>2. held'[b][j] = e /\ where'[b] = where[b]
      BY <2>7, <2>11
    <3> HIDE DEF e
    <3>3. SUFFICES ASSUME T!Alone(b, j)'
                   PROVE  IF e.tensor = Missing
                          THEN j \in DOMAIN files'[where[b]] /\ files'[where[b]][j] = e.meant
                          ELSE e.tensor = e.meant
      BY <3>2 DEF Kept, e
    <3>4. IF e.tensor = Missing THEN j \in DOMAIN files[where[b]] /\ files[where[b]][j] = e.meant
                                ELSE e.tensor = e.meant
      BY <3>1, <3>3, <2>9 DEF Kept
    <3>5. CASE e.tensor = Missing /\ where[b] = d
      BY <3>3, <3>4, <3>5, <2>5, <2>10, <2>11
    <3>6. CASE e.tensor = Missing /\ where[b] # d
      <4>1. where[b] \in Directories
        BY <3>1, <3>6, <1>1
      <4>2. QED
        BY <3>4, <3>6, <4>1, <2>5
    <3>7. QED
      BY <3>4, <3>5, <3>6
  <2>12. ASSUME NEW j \in DOMAIN E PROVE Kept(a, j, F[j])'
    <3> DEFINE e == F[j]
    <3>1. SUFFICES ASSUME T!Alone(a, j)'
                   PROVE  IF e.tensor = Missing
                          THEN j \in DOMAIN files'[d] /\ files'[d][j] = e.meant
                          ELSE e.tensor = e.meant
      BY <1>2, <2>7 DEF Kept
    <3>2. IF E[j].tensor = Missing THEN j \in DOMAIN files[d] /\ files[d][j] = E[j].meant
                                   ELSE E[j].tensor = E[j].meant
      BY <3>1, <1>4, <2>9 DEF Kept
    <3>3. j \in spilt => E[j].tensor # Missing
      BY <2>3 DEF Residents
    <3>4. QED
      BY <3>2, <3>3, <2>4, <2>5
  <2>13. ArenaFine(a)'
    <3>1. \A j \in DOMAIN held'[a] : IsEntry(held'[a][j]) /\ Kept(a, j, held[a][j])'
      BY <2>4, <2>7, <2>12
    <3>2. QED
      BY <3>1, <1>2, <1>4, <1>6, <2>3, <2>4, <2>7 DEF ArenaFine, EntriesFine, OrderFine
  <2>14. ASSUME NEW b \in Arenas, b # a PROVE ArenaFine(b)'
    BY <2>14, <1>1, <1>2, <2>7, <2>11 DEF ArenaFine, EntriesFine, OrderFine
  <2>15. QED
    BY <2>6, <2>7, <2>8, <2>13, <2>14 DEF ArenaInv
<1>7. QED
  BY <1>5, <1>6

HoldsInv == ArenaInv /\ ~ misread

LEMMA EntriesOf ==
  ASSUME ArenaInv, NEW a \in Arenas
  PROVE  /\ EntriesFine(a, held[a]) /\ OrderFine(a, recency[a], held[a])
         /\ recency = [b \in Arenas |-> recency[b]]
BY DEF ArenaInv, ArenaFine, Shelves

(* The order once k, new or not, has been used.                            *)
LEMMA UsedFine ==
  ASSUME NEW a, NEW order, NEW E, OrderFine(a, order, E), NEW k
  PROVE  /\ Listed(T!Refresh(order, k)) /\ Distinct(T!Refresh(order, k))
         /\ \A j : j \in Members(T!Refresh(order, k)) <=> j \in DOMAIN E \/ j = k
         /\ T!Refresh(order, k)[Len(T!Refresh(order, k))] = k
         /\ Len(T!Refresh(order, k)) > 0
BY RefreshIs DEF OrderFine

LEMMA HoldKeeps ==
  ASSUME T!StoresAssumption, HoldsInv,
         NEW a \in Arenas, NEW k \in Keys, NEW t \in Tensors, T!hold(a, k, t)
  PROVE  HoldsInv'
<1> DEFINE e == [tensor |-> t, meant |-> t, filed |-> FALSE]
           E == [j \in DOMAIN held[a] \cup {k} |-> IF j = k THEN e ELSE held[a][j]]
           order == T!Refresh(recency[a], k)
<1>1. EntriesFine(a, held[a]) /\ OrderFine(a, recency[a], held[a]) /\ recency = [b \in Arenas |-> recency[b]]
  BY EntriesOf DEF HoldsInv
<1>2. /\ recency' = [recency EXCEPT ![a] = order]
      /\ T!evict(a, E) /\ UNCHANGED <<where, misread>>
  BY <1>1 DEF T!hold

<1>3. /\ DOMAIN E = DOMAIN held[a] \cup {k} /\ E[k] = e
      /\ \A j \in DOMAIN held[a] : j # k => E[j] = held[a][j]
  OBVIOUS
<1> HIDE DEF E
<1>4. EntriesFine(a, E)
  <2>1. t # Missing
    BY DEF T!StoresAssumption
  <2>2. IsEntry(e) /\ Kept(a, k, e) /\ e.tensor # Missing
    BY <2>1 DEF IsEntry, Kept
  <2> HIDE DEF e
  <2>3. QED
    BY <1>1, <1>3, <2>2 DEF EntriesFine
<1>5. OrderFine(a, order, E) /\ order[Len(order)] = k /\ Len(order) > 0
  <2>1. /\ Listed(order) /\ Distinct(order) /\ order[Len(order)] = k /\ Len(order) > 0
        /\ \A j : j \in Members(order) <=> j \in DOMAIN held[a] \/ j = k
    BY <1>1, UsedFine
  <2> HIDE DEF order
  <2>2. QED
    BY <1>3, <2>1 DEF OrderFine
<1> HIDE DEF order, e
<1>6. ArenaInv'
  BY <1>2, <1>3, <1>4, <1>5, EvictKeeps DEF HoldsInv
<1>7. QED
  BY <1>2, <1>6 DEF HoldsInv

(* An arena whose entries stay as they are.                                *)
LEMMA UsedKeeps ==
  ASSUME ArenaInv, NEW a \in Arenas, NEW order, OrderFine(a, order, held[a]),
         recency' = [recency EXCEPT ![a] = order], UNCHANGED <<where, held, files, wrote>>
  PROVE  ArenaInv'
<1>1. /\ recency' = [b \in Arenas |-> recency'[b]] /\ recency'[a] = order
      /\ \A b \in Arenas : b # a => recency'[b] = recency[b]
  BY DEF ArenaInv, Shelves
<1>2. Shelves'
  BY <1>1 DEF ArenaInv, Shelves
<1>3. \A b, E : EntriesFine(b, E)' <=> EntriesFine(b, E)
  BY DEF EntriesFine, Kept, T!Alone
<1>4. ASSUME NEW b \in Arenas PROVE ArenaFine(b)'
  <2>1. ArenaFine(b)
    BY DEF ArenaInv
  <2>2. EntriesFine(b, held[b])'
    BY <2>1, <1>3 DEF ArenaFine
  <2>3. OrderFine(b, recency[b], held[b])'
    BY <1>1, <2>1 DEF ArenaFine, OrderFine
  <2>4. QED
    BY <2>1, <2>2, <2>3 DEF ArenaFine
<1>5. QED
  BY <1>2, <1>4 DEF ArenaInv

LEMMA GetKeeps ==
  ASSUME T!StoresAssumption, HoldsInv, NEW a \in Arenas, NEW k \in Keys, T!get(a, k)
  PROVE  HoldsInv'
<1> DEFINE e == held[a][k]
           order == T!Refresh(recency[a], k)
           there == k \in DOMAIN files[where[a]]
<1>1. EntriesFine(a, held[a]) /\ OrderFine(a, recency[a], held[a]) /\ recency = [b \in Arenas |-> recency[b]]
  BY EntriesOf DEF HoldsInv
<1>2. k \in DOMAIN held[a] /\ recency' = [recency EXCEPT ![a] = order] /\ UNCHANGED where
  BY DEF T!get, T!used
<1>4. OrderFine(a, order, held[a]) /\ order[Len(order)] = k /\ Len(order) > 0
  <2>1. /\ Listed(order) /\ Distinct(order) /\ order[Len(order)] = k /\ Len(order) > 0
        /\ \A j : j \in Members(order) <=> j \in DOMAIN held[a] \/ j = k
    BY <1>1, UsedFine
  <2> HIDE DEF order
  <2>2. QED
    BY <1>2, <2>1 DEF OrderFine
<1>5. CASE UNCHANGED <<held, files, misread, wrote>>
  <2> HIDE DEF order
  <2>1. ArenaInv'
    BY <1>2, <1>4, <1>5, UsedKeeps DEF HoldsInv
  <2>2. QED
    BY <1>5, <2>1 DEF HoldsInv
<1>6. CASE e.tensor = Missing /\ there /\ ~ UNCHANGED <<held, files, misread, wrote>>
  <2> DEFINE read == [e.meant EXCEPT !.value = files[where[a]][k].value]
             E == [held[a] EXCEPT ![k].tensor = read]
  <2>1. /\ T!evict(a, E)
        /\ misread' = (misread \/ (T!Alone(a, k) /\ held'[a][k].tensor # e.meant))
    BY <1>6 DEF T!get
  <2>2. IsEntry(e) /\ Kept(a, k, e) /\ (where[a] = Missing => e.tensor # Missing)
    BY <1>1, <1>2 DEF EntriesFine
  <2>3. T!Alone(a, k) => read = e.meant
    <3> DEFINE m == e.meant
    <3>1. m \in Tensors /\ (T!Alone(a, k) => files[where[a]][k] = m)
      BY <1>6, <2>2 DEF Kept, IsEntry
    <3>2. m = [bytes |-> m.bytes, value |-> m.value]
      BY <3>1 DEF T!StoresAssumption
    <3> HIDE DEF m
    <3>3. [m EXCEPT !.value = m.value] = m
      BY <3>2
    <3>4. T!Alone(a, k) => read = [m EXCEPT !.value = m.value]
      BY <3>1 DEF m
    <3>5. QED
      BY <3>3, <3>4 DEF m
  <2> HIDE DEF read
  <2>4. /\ DOMAIN E = DOMAIN held[a] /\ E[k] = [tensor |-> read, meant |-> e.meant, filed |-> e.filed]
        /\ \A j \in DOMAIN held[a] : j # k => E[j] = held[a][j]
    <3>1. E[k] = [e EXCEPT !.tensor = read]
      BY <1>2
    <3> HIDE DEF e
    <3>2. [e EXCEPT !.tensor = read] = [tensor |-> read, meant |-> e.meant, filed |-> e.filed]
      BY <2>2 DEF IsEntry
    <3>3. QED
      BY <3>1, <3>2
  <2> HIDE DEF E
  <2>5. IsEntry(E[k]) /\ E[k].tensor = read
    BY <2>2, <2>4 DEF IsEntry
  <2>6. T!Alone(a, k) => read = e.meant /\ read # Missing
    BY <2>2, <2>3 DEF IsEntry, T!StoresAssumption
  <2>7. Kept(a, k, E[k])
    BY <2>4, <2>6 DEF Kept
  <2>8. where[a] # Missing
    BY <1>6, <2>2
  <2>9. EntriesFine(a, E)
    BY <1>1, <1>2, <2>4, <2>5, <2>7, <2>8 DEF EntriesFine
  <2>10. OrderFine(a, order, E)
    BY <1>4, <2>4 DEF OrderFine
  <2> HIDE DEF order, e
  <2>11. k \in DOMAIN E
    BY <1>2, <2>4
  <2>12. ArenaInv' /\ held'[a][k] = E[k]
    <3>1. T!evict(a, E) /\ order[Len(order)] = k /\ Len(order) > 0 /\ ArenaInv
      BY <1>4, <2>1 DEF HoldsInv, order
    <3>2. recency' = [recency EXCEPT ![a] = order] /\ UNCHANGED where
      BY <1>2 DEF order
    <3>3. QED
      BY <3>1, <3>2, <2>9, <2>10, <2>11, EvictKeeps
  <2>13. ~ misread'
    BY <2>1, <2>5, <2>6, <2>12 DEF HoldsInv
  <2>14. QED
    BY <2>12, <2>13 DEF HoldsInv
<1>7. QED
  BY <1>5, <1>6 DEF T!get

LEMMA ReleaseKeeps ==
  ASSUME T!StoresAssumption, HoldsInv, NEW a \in Arenas, NEW keys \in SUBSET Keys, T!release(a, keys)
  PROVE  HoldsInv'
<1> DEFINE order == T!Without(recency[a], keys)
           E == [k \in DOMAIN held[a] \ keys |-> held[a][k]]
           unlinked == {k \in keys : held[a][k].filed}
           d == where[a]
<1>1. /\ EntriesFine(a, held[a]) /\ OrderFine(a, recency[a], held[a])
      /\ recency = [b \in Arenas |-> recency[b]] /\ held = [b \in Arenas |-> held[b]]
      /\ where \in [Arenas -> Directories \cup {Missing}] /\ files = [c \in Directories |-> files[c]]
      /\ \A b \in Arenas : ArenaFine(b)
  BY EntriesOf DEF HoldsInv, ArenaInv, Shelves
<1>2. /\ held'[a] = E /\ held' = [b \in Arenas |-> held'[b]] /\ \A b \in Arenas : b # a => held'[b] = held[b]
      /\ recency'[a] = order /\ recency' = [b \in Arenas |-> recency'[b]]
      /\ \A b \in Arenas : b # a => recency'[b] = recency[b]
      /\ UNCHANGED <<where, misread>>
  BY <1>1 DEF T!release
<1>3. DOMAIN E = DOMAIN held[a] \ keys /\ \A k \in DOMAIN E : E[k] = held[a][k]
  OBVIOUS
<1>4. OrderFine(a, order, E)
  BY <1>1, <1>3, WithoutIs DEF OrderFine
<1> HIDE DEF order, E
<1>5. /\ wrote \subseteq wrote'
      /\ \A b \in Arenas : \A k : b # a /\ where[b] = d /\ k \in unlinked /\ d # Missing => ~ T!Alone(b, k)'
  <2>1. d # Missing => wrote' = wrote \cup {<<a, k>> : k \in unlinked}
    BY DEF T!release
  <2>2. d = Missing => wrote' = wrote
    BY DEF T!release
  <2>3. wrote \subseteq wrote'
    BY <2>1, <2>2
  <2>4. SUFFICES ASSUME NEW b \in Arenas, NEW k, b # a, where[b] = d, k \in unlinked, d # Missing
                 PROVE  ~ T!Alone(b, k)'
    BY <2>3
  <2>5. <<a, k>> \in wrote'
    BY <2>1, <2>4
  <2>6. QED
    BY <1>2, <2>4, <2>5 DEF T!Alone
<1>6. /\ files' = [c \in Directories |-> files'[c]]
      /\ \A c \in Directories : c # d => files'[c] = files[c]
      /\ d # Missing => /\ DOMAIN files'[d] = DOMAIN files[d] \ unlinked
                        /\ \A k \in DOMAIN files'[d] : files'[d][k] = files[d][k]
  <2>1. CASE d = Missing
    BY <2>1, <1>1 DEF T!release
  <2>2. CASE d # Missing
    <3>1. d \in Directories
      BY <2>2, <1>1
    <3>2. files' = [files EXCEPT ![d] = [k \in DOMAIN @ \ unlinked |-> @[k]]]
      BY <2>2 DEF T!release
    <3> HIDE DEF unlinked, d
    <3>3. files'[d] = [k \in DOMAIN files[d] \ unlinked |-> files[d][k]]
      BY <3>1, <3>2, <1>1
    <3>4. QED
      BY <3>1, <3>2, <3>3, <1>1
  <2>3. QED
    BY <2>1, <2>2
<1>7. Shelves'
  BY <1>1, <1>2, <1>6 DEF Shelves
<1>8. ASSUME NEW b \in Arenas, NEW k \in DOMAIN held'[b] PROVE Kept(b, k, held[b][k])'
  <2> DEFINE e == held[b][k]
  <2>1. held'[b][k] = e /\ k \in DOMAIN held[b] /\ (b = a => k \notin keys)
    BY <1>2, <1>3, <1>8
  <2>2. Kept(b, k, e) /\ (where[b] = Missing => e.tensor # Missing)
    BY <1>1, <2>1 DEF ArenaFine, EntriesFine
  <2> HIDE DEF e
  <2>3. SUFFICES ASSUME T!Alone(b, k)'
                 PROVE  IF e.tensor = Missing
                        THEN k \in DOMAIN files'[where[b]] /\ files'[where[b]][k] = e.meant
                        ELSE e.tensor = e.meant
    BY <1>2, <2>1 DEF Kept
  <2>4. T!Alone(b, k)
    BY <2>3, <1>2, <1>5 DEF T!Alone
  <2>5. IF e.tensor = Missing THEN k \in DOMAIN files[where[b]] /\ files[where[b]][k] = e.meant
                              ELSE e.tensor = e.meant
    BY <2>2, <2>4 DEF Kept
  <2>6. CASE e.tensor = Missing /\ where[b] = d
    <3>1. d # Missing
      BY <2>2, <2>6
    <3>2. k \notin unlinked
      BY <2>1, <2>3, <2>6, <3>1, <1>5
    <3> HIDE DEF unlinked
    <3>3. QED
      BY <2>5, <2>6, <3>1, <3>2, <1>6
  <2>7. CASE e.tensor = Missing /\ where[b] # d
    <3>1. where[b] \in Directories
      BY <1>1, <2>2, <2>7
    <3>2. QED
      BY <2>5, <2>7, <3>1, <1>6
  <2>8. QED
    BY <2>5, <2>6, <2>7
<1>9. ASSUME NEW b \in Arenas PROVE ArenaFine(b)'
  <2>1. ArenaFine(b)
    BY <1>1
  <2>2. CASE b # a
    <3>1. held'[b] = held[b] /\ recency'[b] = recency[b] /\ where'[b] = where[b]
      BY <2>2, <1>2
    <3>2. EntriesFine(b, held[b])'
      BY <2>1, <3>1, <1>8 DEF ArenaFine, EntriesFine
    <3>3. QED
      BY <2>1, <3>1, <3>2 DEF ArenaFine, OrderFine
  <2>3. CASE b = a
    <3>1. held'[a] = E /\ recency'[a] = order /\ where'[a] = where[a]
      BY <1>2
    <3>2. EntriesFine(a, held[a])'
      BY <1>1, <1>3, <1>8, <3>1 DEF EntriesFine
    <3>3. OrderFine(a, recency[a], held[a])'
      BY <1>4, <3>1 DEF OrderFine
    <3>4. where[a] # Missing => T!resident(E) <= ArenaBudget
      <4> HAVE where[a] # Missing
      <4>1. T!resident(held[a]) <= ArenaBudget
        BY <1>1 DEF ArenaFine
      <4>2. /\ Residents(E) \subseteq Residents(held[a])
            /\ \A k \in Residents(E) : Bytes(E, k) = Bytes(held[a], k)
        BY <1>3 DEF Residents, Bytes
      <4>3. Residents(held[a]) \in SUBSET Keys /\ IsFiniteSet(Residents(held[a]))
        <5>1. Residents(held[a]) \in SUBSET Keys /\ IsFiniteSet(Keys)
          BY <1>1 DEF EntriesFine, Residents, T!StoresAssumption, T!IsFiniteSet, IsFiniteSet
        <5>2. QED
          BY <5>1, FS_Subset
      <4>4. \A k \in Residents(held[a]) : Bytes(held[a], k) \in Nat
        <5> TAKE k \in Residents(held[a])
        <5>1. held[a][k].meant \in Tensors
          BY <1>1 DEF EntriesFine, Residents, IsEntry
        <5>2. QED
          BY <5>1 DEF Bytes, T!StoresAssumption
      <4>5. Residents(held[a]) \in SUBSET Residents(held[a]) /\ Residents(E) \in SUBSET Residents(held[a])
        BY <4>2
      <4>6. Room(E, Residents(E)) <= Room(held[a], Residents(held[a]))
        BY <4>2, <4>3, <4>4, <4>5, RoomGrows
      <4>7. Room(held[a], Residents(held[a])) \in Nat /\ Room(E, Residents(E)) \in Nat
        <5>1. \A k \in Residents(E) : Bytes(E, k) \in Nat
          BY <4>2, <4>4
        <5>2. IsFiniteSet(Residents(E)) /\ Residents(E) \in SUBSET Residents(E)
          BY <4>3, <4>5, FS_Subset
        <5>3. QED
          BY <4>3, <4>4, <4>5, <5>1, <5>2, RoomNatural
      <4>8. ArenaBudget \in Nat
        BY DEF T!StoresAssumption
      <4>9. QED
        BY <4>1, <4>6, <4>7, <4>8, ResidentIs
    <3>5. QED
      BY <2>3, <3>1, <3>2, <3>3, <3>4 DEF ArenaFine
  <2>4. QED
    BY <2>2, <2>3
<1>10. QED
  BY <1>2, <1>7, <1>9 DEF HoldsInv, ArenaInv

-----------------------------------------------------------------------------
(* Weight files. *)

LEMMA SameListed ==
  ASSUME NEW s, NEW t, Listed(s), Listed(t), Len(s) = Len(t), \A i \in 1 .. Len(s) : s[i] = t[i]
  PROVE  s = t
<1> DEFINE E == {s[i] : i \in DOMAIN s} \cup {t[i] : i \in DOMAIN t}
<1>1. s \in Seq(E) /\ t \in Seq(E)
  BY SeqMonotonic DEF Listed
<1> HIDE DEF E
<1>2. QED
  BY <1>1, SeqEqual

LEMMA TailListed ==
  ASSUME NEW s, Listed(s), Len(s) > 0
  PROVE  /\ Listed(Tail(s)) /\ Len(Tail(s)) = Len(s) - 1
         /\ \A i \in 1 .. Len(s) - 1 : Tail(s)[i] = s[i + 1]
<1> DEFINE E == {s[i] : i \in DOMAIN s}
<1>1. s \in Seq(E) /\ s # <<>> /\ Len(s) \in Nat
  BY ListedLen DEF Listed
<1> HIDE DEF E
<1>2. Tail(s) \in Seq(E) /\ Len(Tail(s)) = Len(s) - 1 /\ \A i \in 1 .. Len(s) - 1 : Tail(s)[i] = s[i + 1]
  BY <1>1
<1>3. QED
  BY <1>2, ListedIs

(* What is in memory are the rows asked for last.                          *)
WeightsInv ==
  /\ Listed(asked) /\ Distinct(asked) /\ Listed(cache)
  /\ Len(cache) = IF Len(asked) < CacheRows THEN Len(asked) ELSE CacheRows
  /\ \A i \in 1 .. Len(cache) : cache[i] = asked[Len(asked) - Len(cache) + i]

LEMMA RowKeeps ==
  ASSUME T!StoresAssumption, WeightsInv, NEW x, T!row(x)
  PROVE  WeightsInv'
<1> DEFINE order == T!Refresh(cache, x)
           a == Len(asked)
           c == Len(cache)
<1>1. /\ Len(asked) = a /\ Len(cache) = c
      /\ a \in Nat /\ c \in Nat /\ c <= a /\ CacheRows \in Nat /\ c <= CacheRows
      /\ c = IF a < CacheRows THEN a ELSE CacheRows
      /\ Listed(asked) /\ Distinct(asked) /\ Listed(cache)
      /\ \A i \in 1 .. c : cache[i] = asked[a - c + i]
  BY ListedLen DEF WeightsInv, T!StoresAssumption
<1> HIDE DEF a, c
<1>2. Distinct(cache)
  <2>1. \A i \in 1 .. c : a - c + i \in 1 .. a
    BY <1>1
  <2>2. \A i, j \in 1 .. c : a - c + i = a - c + j => i = j
    BY <1>1
  <2>3. QED
    BY <1>1, <2>1, <2>2 DEF Distinct
<1>3. asked' = T!Refresh(asked, x) /\ cache' = IF Len(order) > CacheRows THEN Tail(order) ELSE order
  BY DEF T!row
<1>4. Listed(asked') /\ Distinct(asked')
  BY <1>1, <1>3, RefreshIs
(* The row comes from the file: one that was in memory may have to go.     *)
<1>5. ASSUME x \notin Members(cache),
             Len(asked') = a \/ Len(asked') = a + 1,
             Len(asked') = a => c < a,
             asked'[Len(asked')] = x,
             \A i \in 1 .. c : i + Len(asked') - c > 1 => asked'[Len(asked') - c + i - 1] = cache[i]
      PROVE  WeightsInv'
  <2> DEFINE n == Len(asked')
  <2>1. order = Append(cache, x)
    BY <1>1, <1>5, RefreshNew
  <2>2. /\ Listed(order) /\ Len(order) = c + 1 /\ order[c + 1] = x
        /\ \A i \in 1 .. c : order[i] = cache[i]
    BY <1>1, <2>1, AppendListed
  <2> HIDE DEF order
  <2>0. Len(asked') = n
    OBVIOUS
  <2> HIDE DEF n
  <2>3. n \in Nat /\ n >= c /\ (n = a => c < a) /\ (n = a \/ n = a + 1)
    BY <1>1, <1>5, <2>0
  <2>4. CASE c = CacheRows
    <3>1. cache' = Tail(order)
      BY <1>1, <1>3, <2>2, <2>4
    <3>2. /\ Listed(cache') /\ Len(cache') = c
          /\ \A i \in 1 .. c : cache'[i] = order[i + 1]
      BY <1>1, <2>2, <3>1, TailListed
    <3>3. Len(cache') = IF n < CacheRows THEN n ELSE CacheRows
      BY <1>1, <2>3, <2>4, <3>2
    <3>4. ASSUME NEW i \in 1 .. c PROVE cache'[i] = asked'[n - c + i]
      <4>1. CASE i = c
        <5>1. n - c + i = n /\ i + 1 = c + 1
          BY <1>1, <2>3, <4>1
        <5>2. QED
          BY <5>1, <4>1, <3>2, <2>2, <1>5, <2>0
      <4>2. CASE i # c
        <5>1. i + 1 \in 1 .. c /\ n - c + (i + 1) - 1 = n - c + i /\ (i + 1) + n - c > 1
          BY <1>1, <2>3, <4>2
        <5>2. asked'[n - c + i] = cache[i + 1]
          BY <5>1, <1>5, <2>0
        <5>3. QED
          BY <5>1, <5>2, <3>2, <2>2
      <4>3. QED
        BY <4>1, <4>2
    <3>5. QED
      BY <1>4, <2>0, <3>2, <3>3, <3>4 DEF WeightsInv
  <2>5. CASE c # CacheRows
    <3>1. c = a /\ a < CacheRows /\ n = c + 1
      BY <1>1, <2>3, <2>5
    <3>2. cache' = order
      BY <1>1, <1>3, <2>2, <3>1
    <3>3. Listed(cache') /\ Len(cache') = c + 1 /\ Len(cache') = IF n < CacheRows THEN n ELSE CacheRows
      BY <1>1, <2>2, <3>1, <3>2
    <3>4. ASSUME NEW i \in 1 .. c + 1 PROVE cache'[i] = asked'[n - (c + 1) + i]
      <4>1. CASE i = c + 1
        <5>1. n - (c + 1) + i = n
          BY <1>1, <3>1, <4>1
        <5>2. QED
          BY <5>1, <4>1, <3>2, <2>2, <1>5, <2>0
      <4>2. CASE i # c + 1
        <5>1. i \in 1 .. c /\ n - c + i - 1 = n - (c + 1) + i /\ i + n - c > 1
          BY <1>1, <3>1, <4>2
        <5>2. QED
          BY <5>1, <3>2, <2>2, <1>5, <2>0
      <4>3. QED
        BY <4>1, <4>2
    <3>5. QED
      BY <1>4, <2>0, <3>3, <3>4 DEF WeightsInv
  <2>6. QED
    BY <2>4, <2>5
<1>6. CASE x \notin Members(asked)
  <2>1. asked' = Append(asked, x)
    BY <1>1, <1>3, <1>6, RefreshNew
  <2>2. /\ Len(asked') = a + 1 /\ asked'[a + 1] = x /\ \A i \in 1 .. a : asked'[i] = asked[i]
    BY <1>1, <2>1, AppendListed
  <2>3. x \notin Members(cache)
    <3>1. \A i \in 1 .. c : a - c + i \in 1 .. a
      BY <1>1
    <3>2. QED
      BY <1>1, <1>6, <3>1 DEF Members
  <2>4. \A i \in 1 .. c : asked'[(a + 1) - c + i - 1] = cache[i]
    <3> TAKE i \in 1 .. c
    <3>1. (a + 1) - c + i - 1 = a - c + i /\ a - c + i \in 1 .. a
      BY <1>1
    <3>2. QED
      BY <3>1, <2>2, <1>1
  <2>5. a + 1 # a
    BY <1>1
  <2>6. QED
    BY <1>5, <2>2, <2>3, <2>4, <2>5
<1>7. ASSUME NEW q \in 1 .. a, x = asked[q] PROVE WeightsInv'
  <2>1. /\ Listed(asked') /\ Len(asked') = a /\ asked'[a] = x
        /\ \A i \in 1 .. a - 1 : asked'[i] = IF i < q THEN asked[i] ELSE asked[i + 1]
    BY <1>1, <1>3, <1>7, RefreshAt
  <2>2. CASE q <= a - c
    <3>1. x \notin Members(cache)
      <4>1. \A i \in 1 .. c : a - c + i \in 1 .. a /\ a - c + i # q
        BY <1>1, <2>2
      <4>2. QED
        <5>1. \A i \in 1 .. c : asked[a - c + i] # asked[q]
          BY <1>1, <4>1 DEF Distinct
        <5>2. \A i \in 1 .. c : cache[i] # x
          BY <5>1, <1>1, <1>7
        <5>3. QED
          BY <5>2, <1>1 DEF Members
    <3>2. \A i \in 1 .. c : i + a - c > 1 => asked'[a - c + i - 1] = cache[i]
      <4> TAKE i \in 1 .. c
      <4> HAVE i + a - c > 1
      <4>1. a - c + i - 1 \in 1 .. a - 1 /\ (a - c + i - 1) + 1 = a - c + i
        BY <1>1
      <4>2. CASE a - c + i - 1 < q
        <5>1. FALSE
          BY <4>2, <2>2, <1>1, <1>7
        <5>2. QED
          BY <5>1
      <4>3. QED
        BY <4>1, <4>2, <2>1, <1>1
    <3>3. QED
      <4>1. c < a
        BY <2>2, <1>1
      <4>2. QED
        BY <1>5, <2>1, <3>1, <3>2, <4>1
  <2>3. CASE ~ (q <= a - c)
    <3> DEFINE r == q - (a - c)
    <3>1. r \in 1 .. c /\ a - c + r = q
      BY <1>1, <2>3
    <3>2. x = cache[r]
      BY <1>1, <1>7, <3>1
    <3> HIDE DEF r
    <3>3. /\ Listed(order) /\ Len(order) = c /\ order[c] = x
          /\ \A i \in 1 .. c - 1 : order[i] = IF i < r THEN cache[i] ELSE cache[i + 1]
      BY <1>1, <1>2, <3>1, <3>2, RefreshAt
    <3> HIDE DEF order
    <3>4. cache' = order
      BY <1>1, <1>3, <3>3
    <3>5. Len(cache') = IF Len(asked') < CacheRows THEN Len(asked') ELSE CacheRows
      BY <1>1, <2>1, <3>3, <3>4
    <3>6. ASSUME NEW i \in 1 .. c PROVE cache'[i] = asked'[a - c + i]
      <4>1. CASE i = c
        <5>1. a - c + i = a
          BY <1>1, <4>1
        <5>2. QED
          BY <5>1, <4>1, <2>1, <3>3, <3>4
      <4>2. CASE i # c
        <5>1. /\ i \in 1 .. c - 1 /\ i + 1 \in 1 .. c /\ a - c + i \in 1 .. a - 1
              /\ (a - c + i) + 1 = a - c + (i + 1) /\ (i < r <=> a - c + i < q)
          BY <1>1, <3>1, <4>2
        <5>2. asked'[a - c + i] = IF i < r THEN asked[a - c + i] ELSE asked[a - c + (i + 1)]
          BY <5>1, <2>1
        <5>3. order[i] = IF i < r THEN cache[i] ELSE cache[i + 1]
          BY <5>1, <3>3
        <5>4. QED
          BY <5>1, <5>2, <5>3, <3>4, <1>1
      <4>3. QED
        BY <4>1, <4>2
    <3>7. QED
      BY <1>4, <2>1, <3>3, <3>4, <3>5, <3>6 DEF WeightsInv
  <2>4. QED
    BY <2>2, <2>3
<1>8. QED
  BY <1>1, <1>6, <1>7 DEF Members

LEMMA WeightsKeep ==
  ASSUME T!StoresAssumption, WeightsInv, [T!WeightsNext]_T!weightVars
  PROVE  WeightsInv'
<1>1. CASE \E i \in Rows : T!row(i)
  BY <1>1, RowKeeps
<1>2. CASE UNCHANGED <<cache, asked>>
  BY <1>2 DEF WeightsInv, Distinct, Listed
<1>3. QED
  BY <1>1, <1>2 DEF T!WeightsNext, T!close, T!weightVars

-----------------------------------------------------------------------------
(* Context windows. *)

Rising(s) ==
  /\ \A i \in 1 .. Len(s) : s[i].number \in Nat
  /\ \A i, j \in 1 .. Len(s) : i < j => s[i].number < s[j].number

(* Of the texts that are not pinned, v has kept the latest of w.           *)
LatestOf(w, v) ==
  /\ Listed(v) /\ Rising(v) /\ Members(v) \subseteq Members(w)
  /\ \A i, j \in 1 .. Len(w) :
       ~ w[i].pinned /\ ~ w[j].pinned /\ i < j /\ w[i] \in Members(v) => w[j] \in Members(v)

LEMMA VictimGoes ==
  ASSUME NEW w, Listed(w), Rising(w), NEW v, LatestOf(w, v), ~ T!Fits(v)
  PROVE  /\ LatestOf(w, T!RemoveAt(v, T!Victim(v)))
         /\ Len(T!RemoveAt(v, T!Victim(v))) = Len(v) - 1
<1> DEFINE Loose == {i \in DOMAIN v : ~ v[i].pinned}
           p == T!Victim(v)
           u == T!RemoveAt(v, p)
<1>1. Len(v) \in Nat /\ DOMAIN v = 1 .. Len(v) /\ Listed(v) /\ Len(w) \in Nat
  BY ListedLen DEF LatestOf
<1>2. p \in Loose /\ \A i \in Loose : p <= i
  <2>1. Loose \subseteq Nat /\ Loose # {}
    BY <1>1 DEF T!Fits
  <2>2. p = S!Min(Loose)
    BY DEF T!Victim, T!Min, S!Min
  <2> HIDE DEF Loose, p
  <2>3. QED
    BY <2>1, <2>2, LeastNatural
<1>3. p \in 1 .. Len(v)
  BY <1>1, <1>2
<1>4. \A i \in 1 .. Len(v) : ~ v[i].pinned => p <= i
  BY <1>1, <1>2
<1> HIDE DEF p
<1>5. /\ Listed(u) /\ Len(u) = Len(v) - 1
      /\ \A i \in 1 .. Len(v) - 1 : u[i] = IF i < p THEN v[i] ELSE v[i + 1]
  BY <1>1, <1>3, RemoveAtIs
<1> HIDE DEF u
<1> DEFINE q(i) == IF i < p THEN i ELSE i + 1
<1>6. /\ \A i \in 1 .. Len(u) : q(i) \in 1 .. Len(v) /\ u[i] = v[q(i)]
      /\ \A i, j \in 1 .. Len(u) : i < j => q(i) < q(j)
  BY <1>1, <1>3, <1>5
<1>7. Rising(u)
  <2>1. Rising(v)
    BY DEF LatestOf
  <2> HIDE DEF q
  <2>2. QED
    BY <1>6, <2>1 DEF Rising
<1>8. Members(u) \subseteq Members(v)
  <2> HIDE DEF q
  <2>1. QED
    BY <1>6 DEF Members
<1>9. \A j \in 1 .. Len(v) : j # p => v[j] \in Members(u)
  <2> TAKE j \in 1 .. Len(v)
  <2> HAVE j # p
  <2> DEFINE i == IF j < p THEN j ELSE j - 1
  <2>1. i \in 1 .. Len(u) /\ q(i) = j
    BY <1>1, <1>3, <1>5
  <2> HIDE DEF q, i
  <2>2. u[i] = v[j]
    BY <1>6, <2>1
  <2>3. QED
    BY <2>1, <2>2 DEF Members
<1>10. ASSUME NEW i \in 1 .. Len(w), NEW j \in 1 .. Len(w),
              ~ w[i].pinned, ~ w[j].pinned, i < j, w[i] \in Members(u)
       PROVE  w[j] \in Members(u)
  <2>1. w[i] \in Members(v) /\ w[j] \in Members(v)
    BY <1>8, <1>10 DEF LatestOf
  <2>2. PICK a \in 1 .. Len(v), b \in 1 .. Len(v) : v[a] = w[i] /\ v[b] = w[j]
    BY <2>1 DEF Members
  <2>3. w[i].number < w[j].number /\ w[i].number \in Nat /\ w[j].number \in Nat
    BY <1>10 DEF Rising
  <2>4. a < b
    <3>1. a \in Nat /\ b \in Nat
      BY <1>1
    <3>2. a # b
      BY <2>2, <2>3
    <3>3. b < a => w[j].number < w[i].number
      BY <2>2 DEF LatestOf, Rising
    <3>4. QED
      BY <3>1, <3>2, <3>3, <2>3
  <2>5. p <= a /\ p \in Nat /\ a \in Nat /\ b \in Nat
    BY <1>1, <1>3, <1>4, <1>10, <2>2
  <2>6. b # p
    BY <2>4, <2>5
  <2>7. QED
    BY <1>9, <2>2, <2>6
<1>11. LatestOf(w, u)
  BY <1>5, <1>7, <1>8, <1>10 DEF LatestOf
<1>12. QED
  BY <1>5, <1>11 DEF u, p

LEMMA FittedIs ==
  ASSUME NEW w, Listed(w), Rising(w)
  PROVE  LatestOf(w, T!Fitted(w)) /\ T!Fits(T!Fitted(w))
<1> DEFINE Less(v) == IF T!Fits(v) THEN v ELSE T!RemoveAt(v, T!Victim(v))
           Takes(f, n) == IF n = 0 THEN w ELSE Less(f[n - 1])
           Left(f, m) == f = [n \in 0 .. m |-> Takes(f, n)]
           f == CHOOSE f : Left(f, Len(w))
           Some == {m \in Nat : \E g : Left(g, m)}
<1>0. Len(w) \in Nat
  BY ListedLen
<1>1. 0 \in Some
  <2> DEFINE g == [n \in 0 .. 0 |-> w]
  <2>1. g = [n \in 0 .. 0 |-> Takes(g, n)]
    OBVIOUS
  <2>2. QED
    BY <2>1
<1>2. ASSUME NEW m \in Nat, m \in Some PROVE m + 1 \in Some
  <2>1. PICK h : h = [n \in 0 .. m |-> Takes(h, n)]
    BY <1>2
  <2> DEFINE g == [n \in 0 .. m + 1 |-> Takes(h, n)]
  <2>2. g = [n \in 0 .. m + 1 |-> Takes(h, n)]
    OBVIOUS
  <2> HIDE DEF g
  <2>3. \A n \in 0 .. m : n \in 0 .. m + 1
    OBVIOUS
  <2>4. \A n \in 0 .. m : g[n] = h[n]
    BY <2>1, <2>2, <2>3
  <2>5. \A n \in 0 .. m + 1 : n # 0 => n - 1 \in 0 .. m
    OBVIOUS
  <2> HIDE DEF Less
  <2>6. \A n \in 0 .. m + 1 : Takes(g, n) = Takes(h, n)
    BY <2>4, <2>5
  <2> HIDE DEF Takes
  <2>7. g = [n \in 0 .. m + 1 |-> Takes(g, n)]
    BY <2>2, <2>6
  <2>8. QED
    BY <2>7
<1>3. Len(w) \in Some
  <2> HIDE DEF Some
  <2>1. QED
    BY <1>0, <1>1, <1>2, AllNaturals
<1>4. f = [n \in 0 .. Len(w) |-> Takes(f, n)]
  <2> HIDE DEF Takes
  <2>1. \E g : Left(g, Len(w))
    BY <1>3
  <2> HIDE DEF Left
  <2>2. Left(f, Len(w))
    BY <2>1
  <2>3. QED
    BY <2>2 DEF Left
<1>5. T!Fitted(w) = f[Len(w)]
  BY DEF T!Fitted
<1> HIDE DEF f
<1> DEFINE Fine(v, n) == LatestOf(w, v) /\ (T!Fits(v) \/ Len(v) = Len(w) - n)
           Done == {n \in Nat : n <= Len(w) => Fine(f[n], n)}
<1>6. 0 \in Done
  <2>1. 0 \in 0 .. Len(w)
    BY <1>0
  <2>2. f[0] = w
    BY <1>4, <2>1
  <2>3. LatestOf(w, w) /\ Len(w) = Len(w) - 0
    BY <1>0 DEF LatestOf, Members
  <2>4. QED
    BY <2>2, <2>3
<1>7. ASSUME NEW n \in Nat, n \in Done PROVE n + 1 \in Done
  <2> SUFFICES ASSUME n + 1 <= Len(w) PROVE Fine(f[n + 1], n + 1)
    OBVIOUS
  <2>1. Fine(f[n], n)
    BY <1>0, <1>7
  <2>2. n + 1 \in 0 .. Len(w) /\ (n + 1) - 1 = n /\ n + 1 # 0
    BY <1>0
  <2>3. f[n + 1] = Less(f[n])
    <3> HIDE DEF Less
    <3>1. QED
      BY <1>4, <2>2
  <2>4. CASE T!Fits(f[n])
    BY <2>1, <2>3, <2>4
  <2>5. CASE ~ T!Fits(f[n])
    <3>1. f[n + 1] = T!RemoveAt(f[n], T!Victim(f[n]))
      BY <2>3, <2>5
    <3>2. LatestOf(w, f[n + 1]) /\ Len(f[n + 1]) = Len(f[n]) - 1
      BY <2>1, <2>5, <3>1, VictimGoes
    <3>3. Len(f[n]) = Len(w) - n
      BY <2>1, <2>5
    <3>4. (Len(w) - n) - 1 = Len(w) - (n + 1)
      BY <1>0
    <3>5. QED
      BY <3>2, <3>3, <3>4
  <2>6. QED
    BY <2>4, <2>5
<1>8. Fine(f[Len(w)], Len(w))
  <2>1. Len(w) \in Done
    <3> HIDE DEF Done
    <3>1. QED
      BY <1>0, <1>6, <1>7, AllNaturals
  <2>2. QED
    BY <1>0, <2>1
<1>9. ASSUME NEW v, Listed(v), Len(v) = Len(w) - Len(w) PROVE T!Fits(v)
  <2>1. DOMAIN v = 1 .. 0
    BY <1>0, <1>9, ListedLen
  <2>2. \A i \in DOMAIN v : FALSE
    BY <2>1
  <2>3. QED
    BY <2>2 DEF T!Fits
<1>10. QED
  BY <1>5, <1>8, <1>9 DEF LatestOf

(* Texts are in the order in which they came, and keep within the room     *)
(* there is.                                                               *)
WindowInv ==
  /\ Listed(window) /\ Rising(window) /\ pushes \in Nat
  /\ \A i \in 1 .. Len(window) : window[i].number <= pushes
  /\ policy = "none" \/ T!Fits(window)

LEMMA PushIs ==
  ASSUME WindowInv, NEW n, NEW pinned, T!push(n, pinned)
  PROVE  \E w : /\ Listed(w) /\ Rising(w) /\ Len(w) = Len(window) + 1
                /\ \A i \in 1 .. Len(window) : w[i] = window[i]
                /\ \A i \in 1 .. Len(w) : w[i].number <= pushes'
                /\ window' = IF policy = "none" THEN w ELSE T!Fitted(w)
<1> DEFINE t == [tokens |-> n, pinned |-> pinned, number |-> pushes']
           w == Append(window, t)
<1>1. /\ Len(window) \in Nat /\ pushes' = pushes + 1 /\ pushes \in Nat
      /\ window' = IF policy = "none" THEN w ELSE T!Fitted(w)
  BY ListedLen DEF WindowInv, T!push
<1>2. t.number = pushes + 1
  BY <1>1
<1> HIDE DEF t
<1>3. /\ Listed(w) /\ Len(w) = Len(window) + 1 /\ w[Len(window) + 1] = t
      /\ \A i \in 1 .. Len(window) : w[i] = window[i]
  BY AppendListed DEF WindowInv
<1> HIDE DEF w
<1>4. \A i \in 1 .. Len(window) + 1 : i = Len(window) + 1 \/ i \in 1 .. Len(window)
  BY <1>1
<1>5. \A i \in 1 .. Len(window) : w[i].number \in Nat /\ w[i].number <= pushes
  BY <1>3 DEF WindowInv, Rising
<1>6. \A i \in 1 .. Len(w) : w[i].number \in Nat /\ w[i].number <= pushes'
  BY <1>1, <1>2, <1>3, <1>4, <1>5
<1>7. ASSUME NEW i \in 1 .. Len(w), NEW j \in 1 .. Len(w), i < j PROVE w[i].number < w[j].number
  <2>1. i \in 1 .. Len(window)
    BY <1>1, <1>3, <1>4, <1>7
  <2>2. CASE j = Len(window) + 1
    BY <2>1, <2>2, <1>1, <1>2, <1>3, <1>5
  <2>3. CASE j \in 1 .. Len(window)
    BY <2>1, <2>3, <1>3, <1>7 DEF WindowInv, Rising
  <2>4. QED
    BY <2>2, <2>3, <1>3, <1>4
<1>8. Rising(w)
  BY <1>6, <1>7 DEF Rising
<1>9. QED
  BY <1>1, <1>3, <1>6, <1>8

LEMMA WindowKeeps ==
  ASSUME WindowInv, [T!WindowNext]_T!windowVars
  PROVE  WindowInv'
<1>1. ASSUME NEW n \in Pieces, NEW pinned \in BOOLEAN, T!push(n, pinned) PROVE WindowInv'
  <2>1. PICK w : /\ Listed(w) /\ Rising(w) /\ \A i \in 1 .. Len(w) : w[i].number <= pushes'
                 /\ window' = IF policy = "none" THEN w ELSE T!Fitted(w)
    BY <1>1, PushIs
  <2>2. pushes' \in Nat /\ policy' = policy
    BY <1>1 DEF T!push, WindowInv
  <2>3. CASE policy = "none"
    BY <2>1, <2>2, <2>3 DEF WindowInv
  <2>4. CASE policy # "none"
    <3>1. window' = T!Fitted(w)
      BY <2>1, <2>4
    <3>2. LatestOf(w, window') /\ T!Fits(window')
      BY <2>1, <3>1, FittedIs
    <3>3. \A i \in 1 .. Len(window') : \E j \in 1 .. Len(w) : window'[i] = w[j]
      BY <3>2 DEF LatestOf, Members
    <3>4. \A i \in 1 .. Len(window') : window'[i].number <= pushes'
      BY <2>1, <3>3
    <3>5. T!Fits(window)'
      BY <3>2
    <3>6. QED
      BY <2>2, <3>2, <3>4, <3>5 DEF WindowInv, LatestOf, Rising, Listed
  <2>5. QED
    BY <2>3, <2>4
<1>2. CASE T!clear
  <2>1. window' = <<>> /\ pushes' = pushes /\ policy' = policy
    BY <1>2 DEF T!clear
  <2>2. Listed(<<>>) /\ Len(<<>>) = 0 /\ DOMAIN <<>> = {}
    BY DEF Listed
  <2>3. Len(window') = 0 /\ DOMAIN window' = {} /\ Listed(window')
    BY <2>1, <2>2
  <2>4. T!Fits(window)'
    BY <2>3 DEF T!Fits
  <2>5. QED
    BY <2>1, <2>3, <2>4 DEF WindowInv, Rising, Listed
<1>3. CASE UNCHANGED T!windowVars
  <2>1. window' = window /\ policy' = policy /\ pushes' = pushes
    BY <1>3 DEF T!windowVars
  <2>2. T!Fits(window) => T!Fits(window)'
    BY <2>1
  <2>3. Rising(window)' /\ Listed(window)'
    BY <2>1 DEF WindowInv, Rising, Listed
  <2>4. QED
    BY <2>1, <2>2, <2>3 DEF WindowInv
<1>4. QED
  BY <1>1, <1>2, <1>3 DEF T!WindowNext


-----------------------------------------------------------------------------
(* All stores. *)

LEMMA ArenasKeep ==
  ASSUME T!StoresAssumption, HoldsInv, [T!ArenaNext]_T!arenaVars
  PROVE  HoldsInv'
<1>1. ASSUME NEW a \in Arenas, NEW k \in Keys, NEW t \in Tensors, T!hold(a, k, t) PROVE HoldsInv'
  BY <1>1, HoldKeeps
<1>2. ASSUME NEW a \in Arenas, NEW k \in Keys, T!get(a, k) PROVE HoldsInv'
  BY <1>2, GetKeeps
<1>3. ASSUME NEW a \in Arenas, NEW keys \in SUBSET Keys, T!release(a, keys) PROVE HoldsInv'
  BY <1>3, ReleaseKeeps
<1>4. CASE UNCHANGED T!arenaVars
  <2>1. /\ where' = where /\ held' = held /\ recency' = recency
        /\ files' = files /\ misread' = misread /\ wrote' = wrote
    BY <1>4 DEF T!arenaVars
  <2>2. Shelves'
    BY <2>1 DEF HoldsInv, ArenaInv, Shelves
  <2>3. \A b, E : EntriesFine(b, E)' <=> EntriesFine(b, E)
    BY <2>1 DEF EntriesFine, Kept, T!Alone
  <2>4. ASSUME NEW a \in Arenas PROVE ArenaFine(a)'
    <3>1. ArenaFine(a)
      BY DEF HoldsInv, ArenaInv
    <3>2. EntriesFine(a, held[a])' /\ OrderFine(a, recency[a], held[a])'
      BY <2>1, <2>3, <3>1 DEF ArenaFine, OrderFine
    <3>3. (where[a] # Missing => T!resident(held[a]) <= ArenaBudget)'
      BY <2>1, <3>1 DEF ArenaFine
    <3>4. QED
      BY <3>2, <3>3 DEF ArenaFine
  <2>5. QED
    BY <2>1, <2>2, <2>4 DEF HoldsInv, ArenaInv
<1>5. QED
  BY <1>1, <1>2, <1>3, <1>4 DEF T!ArenaNext

LEMMA EmptyListed == Listed(<<>>) /\ Len(<<>>) = 0 /\ DOMAIN <<>> = {} /\ 1 .. Len(<<>>) = {}
BY DEF Listed

LEMMA StoresInit ==
  ASSUME T!StoresAssumption, T!Init
  PROVE  HoldsInv /\ WeightsInv /\ WindowInv
<1>1. HoldsInv
  <2>1. Shelves /\ ~ misread
    BY DEF T!Init, Shelves
  <2>2. ASSUME NEW a \in Arenas PROVE ArenaFine(a)
    <3>1. held[a] = <<>> /\ recency[a] = <<>>
      BY DEF T!Init
    <3>2. DOMAIN held[a] = {} /\ Residents(held[a]) = {}
      BY <3>1, EmptyListed DEF Residents
    <3>3. EntriesFine(a, held[a])
      BY <3>2 DEF EntriesFine
    <3>4. OrderFine(a, recency[a], held[a])
      BY <3>1, <3>2, EmptyListed DEF OrderFine, Distinct, Members
    <3>5. T!resident(held[a]) = 0
      BY <3>2, ResidentIs, RoomEmpty
    <3>6. QED
      BY <3>3, <3>4, <3>5 DEF ArenaFine, T!StoresAssumption
  <2>3. QED
    BY <2>1, <2>2 DEF HoldsInv, ArenaInv
<1>2. WeightsInv
  <2>1. cache = <<>> /\ asked = <<>>
    BY DEF T!Init
  <2>2. QED
    BY <2>1, EmptyListed DEF WeightsInv, Distinct, T!StoresAssumption
<1>3. WindowInv
  <2>1. window = <<>> /\ pushes = 0
    BY DEF T!Init
  <2>2. T!Fits(window)
    BY <2>1, EmptyListed DEF T!Fits
  <2>3. QED
    BY <2>1, <2>2, EmptyListed DEF WindowInv, Rising
<1>4. QED
  BY <1>1, <1>2, <1>3

StoresInv == HoldsInv /\ WeightsInv /\ WindowInv

LEMMA StoresNext ==
  ASSUME T!StoresAssumption, StoresInv, [Next]_runtimeVars
  PROVE  StoresInv'
<1>1. [T!ArenaNext]_T!arenaVars /\ [T!WeightsNext]_T!weightVars /\ [T!WindowNext]_T!windowVars
  <2>1. CASE UNCHANGED storeVars
    BY <2>1 DEF storeVars, T!arenaVars, T!weightVars, T!windowVars
  <2>2. CASE T!ArenaNext
    BY <2>2 DEF T!ArenaNext, T!arenaVars, T!weightVars, T!windowVars
  <2>3. CASE T!WeightsNext
    BY <2>3 DEF T!WeightsNext, T!arenaVars, T!weightVars, T!windowVars
  <2>4. CASE T!WindowNext
    BY <2>4 DEF T!WindowNext, T!arenaVars, T!weightVars, T!windowVars
  <2>5. QED
    BY <2>1, <2>2, <2>3, <2>4 DEF Next, runtimeVars, stateVars
<1>2. QED
  BY <1>1, ArenasKeep, WeightsKeep, WindowKeeps DEF StoresInv

LEMMA StoresInvMeans ==
  ASSUME T!StoresAssumption, StoresInv
  PROVE  T!HeldComesBack /\ T!StoresWithin
<1>1. T!HeldComesBack
  BY DEF StoresInv, HoldsInv, ArenaInv, ArenaFine, EntriesFine, Kept, T!HeldComesBack
<1>2. \A a \in Arenas : where[a] # Missing => T!resident(held[a]) <= ArenaBudget
  BY DEF StoresInv, HoldsInv, ArenaInv, ArenaFine
<1> DEFINE a == Len(asked)
           c == Len(cache)
           last == SubSeq(asked, a - c + 1, a)
<1>3. /\ Listed(asked) /\ Listed(cache) /\ Len(asked) = a /\ Len(cache) = c
      /\ a \in Nat /\ c \in Nat /\ CacheRows \in Nat
      /\ c = IF a < CacheRows THEN a ELSE CacheRows
      /\ \A i \in 1 .. c : cache[i] = asked[a - c + i]
  BY ListedLen DEF StoresInv, WeightsInv, T!StoresAssumption
<1> HIDE DEF a, c
<1>4. cache = last
  <2>1. a - c + 1 \in Nat \ {0} /\ a <= Len(asked) /\ a - c + 1 <= a + 1 /\ a + 1 - (a - c + 1) = c
    BY <1>3
  <2>2. /\ Listed(last) /\ Len(last) = c
        /\ \A i \in 1 .. c : last[i] = asked[(a - c + 1) + i - 1]
    BY <1>3, <2>1, PieceListed
  <2> HIDE DEF last
  <2>3. \A i \in 1 .. c : (a - c + 1) + i - 1 = a - c + i
    BY <1>3
  <2>4. QED
    BY <1>3, <2>2, <2>3, SameListed
<1>5. cache = SubSeq(asked, Len(asked) - Len(cache) + 1, Len(asked))
  BY <1>3, <1>4
<1>6. policy = "none" \/ T!Fits(window)
  BY DEF StoresInv, WindowInv
<1>7. \A i, j \in DOMAIN window : i < j => window[i].number < window[j].number
  BY ListedLen DEF StoresInv, WindowInv, Rising
<1>8. QED
  BY <1>1, <1>2, <1>3, <1>5, <1>6, <1>7 DEF T!StoresWithin

LEMMA StoresHold == Spec => []StoresInv
<1>1. T!StoresAssumption
  BY RuntimeAssumption
<1>2. Init => StoresInv
  BY <1>1, StoresInit DEF Init, PartsInit, StoresInv
<1>3. StoresInv /\ [Next]_runtimeVars => StoresInv'
  BY <1>1, StoresNext
<1>4. QED
  BY <1>2, <1>3, PTL DEF Spec, runtimeVars

(* Arenas give back what they were given, and hold no more in memory than  *)
(* they may, the cache of a weight file has the rows asked for last, and a *)
(* window that has a policy fits (devices.js Arena and Weights, values.js  *)
(* ContextWindow).                                                         *)
THEOREM StoresFaithful == Spec => []StoresKeepFaith
<1>1. T!StoresAssumption
  BY RuntimeAssumption
<1>2. StoresInv => StoresKeepFaith
  BY <1>1, StoresInvMeans DEF StoresKeepFaith
<1>3. QED
  BY <1>2, StoresHold, PTL

(* What makes room in a context window is what was pushed first, of what   *)
(* is not pinned (values.js ContextWindow evict).                          *)
THEOREM OldestTextsGo == Spec => OldestGoes
<1> DEFINE Goes == \A i, j \in DOMAIN window :
                     ~window[i].pinned /\ ~window[j].pinned /\ i < j /\ window' # <<>> =>
                       (window[i] \in T!ToSet(window') => window[j] \in T!ToSet(window'))
<1>1. ASSUME WindowInv, NEW n \in Pieces, NEW pinned \in BOOLEAN, T!push(n, pinned) PROVE Goes
  <2>1. PICK w : /\ Listed(w) /\ Rising(w) /\ Len(w) = Len(window) + 1
                 /\ \A i \in 1 .. Len(window) : w[i] = window[i]
                 /\ window' = IF policy = "none" THEN w ELSE T!Fitted(w)
    BY <1>1, PushIs
  <2>2. Len(window) \in Nat /\ DOMAIN window = 1 .. Len(window) /\ \A i \in 1 .. Len(window) : i \in 1 .. Len(w)
    BY <1>1, <2>1, ListedLen DEF WindowInv
  <2>3. \A i \in DOMAIN window : w[i] \in Members(w)
    BY <2>2 DEF Members
  <2>4. Listed(window') /\ T!ToSet(window') = Members(window')
    <3>1. Listed(window')
      BY <2>1, FittedIs DEF LatestOf
    <3>2. DOMAIN window' = 1 .. Len(window')
      BY <3>1, ListedLen
    <3>3. QED
      BY <3>1, <3>2 DEF T!ToSet, Members
  <2>5. CASE policy = "none"
    BY <2>1, <2>2, <2>3, <2>4, <2>5
  <2>6. CASE policy # "none"
    <3>1. LatestOf(w, window')
      BY <2>1, <2>6, FittedIs
    <3>2. QED
      BY <2>1, <2>2, <2>4, <3>1 DEF LatestOf
  <2>7. QED
    BY <2>5, <2>6
<1>2. ASSUME WindowInv, [T!WindowNext]_T!windowVars PROVE [Goes]_T!windowVars
  <2>1. CASE T!clear
    BY <2>1 DEF T!clear
  <2>2. CASE UNCHANGED T!windowVars
    BY <2>2
  <2>3. QED
    BY <1>1, <1>2, <2>1, <2>2 DEF T!WindowNext
<1>3. [Next]_runtimeVars => [T!WindowNext]_T!windowVars
  <2>1. SUFFICES ASSUME [Next]_runtimeVars PROVE [T!WindowNext]_T!windowVars
    OBVIOUS
  <2>2. CASE UNCHANGED storeVars
    BY <2>2 DEF storeVars, T!windowVars
  <2>3. CASE T!ArenaNext
    BY <2>3 DEF T!ArenaNext, T!windowVars
  <2>4. CASE T!WeightsNext
    BY <2>4 DEF T!WeightsNext, T!windowVars
  <2>5. QED
    BY <2>1, <2>2, <2>3, <2>4 DEF Next, runtimeVars, stateVars
<1>4. StoresInv /\ [Next]_runtimeVars => [Goes]_T!windowVars
  BY <1>2, <1>3 DEF StoresInv
<1>5. Spec => [][Goes]_T!windowVars
  <2> HIDE DEF Goes
  <2>1. QED
    BY <1>4, StoresHold, PTL DEF Spec, runtimeVars
<1>6. QED
  BY <1>5 DEF OldestGoes, T!OldestGoes

-----------------------------------------------------------------------------
(* Versions. *)

(* The callers of callers, and so on, are taken together step by step.     *)
Wider(E, s) == s \cup UNION {V!callers(E, m) : m \in s}
Reaching(E, n, f, k) == IF k = 0 THEN V!callers(E, n) ELSE Wider(E, f[k - 1])
Reaches(E, n, f, D) == f = [k \in D |-> Reaching(E, n, f, k)]
Reach(E, n) == CHOOSE f : Reaches(E, n, f, Nat)

LEMMA DependentsAre == \A E, n : V!dependents(E, n) = Reach(E, n)[Cardinality(DOMAIN E)]
BY DEF V!dependents, Reach, Reaches, Reaching, Wider, V!Cardinality, Cardinality

LEMMA ReachesAgree ==
  ASSUME NEW E, NEW n, NEW a \in Nat, NEW b \in Nat, NEW f, NEW g,
         Reaches(E, n, f, 0 .. a), Reaches(E, n, g, 0 .. b)
  PROVE  \A k \in Nat : k <= a /\ k <= b => f[k] = g[k]
<1> DEFINE N == {k \in Nat : k <= a /\ k <= b => f[k] = g[k]}
<1>1. \A k \in 0 .. a : f[k] = Reaching(E, n, f, k)
  BY DEF Reaches
<1>2. \A k \in 0 .. b : g[k] = Reaching(E, n, g, k)
  BY DEF Reaches
<1>3. 0 \in N
  <2>1. 0 \in 0 .. a /\ 0 \in 0 .. b
    OBVIOUS
  <2>2. QED
    BY <1>1, <1>2, <2>1 DEF Reaching
<1>4. ASSUME NEW k \in Nat, k \in N PROVE k + 1 \in N
  <2>1. SUFFICES ASSUME k + 1 <= a, k + 1 <= b PROVE f[k + 1] = g[k + 1]
    OBVIOUS
  <2>2. k + 1 \in 0 .. a /\ k + 1 \in 0 .. b /\ k + 1 # 0 /\ (k + 1) - 1 = k /\ k <= a /\ k <= b
    BY <2>1
  <2>3. f[k] = g[k]
    BY <1>4, <2>2
  <2>4. f[k + 1] = Wider(E, f[k]) /\ g[k + 1] = Wider(E, g[k])
    BY <1>1, <1>2, <2>2 DEF Reaching
  <2>5. QED
    BY <2>3, <2>4
<1>5. Nat \subseteq N
  <2> HIDE DEF N
  <2>1. QED
    BY <1>3, <1>4, AllNaturals
<1>6. QED
  BY <1>5

LEMMA ReachesSome ==
  ASSUME NEW E, NEW n
  PROVE  \A a \in Nat : \E f : Reaches(E, n, f, 0 .. a)
<1> DEFINE N == {a \in Nat : \E f : Reaches(E, n, f, 0 .. a)}
<1>1. 0 \in N
  <2> DEFINE f == [k \in 0 .. 0 |-> V!callers(E, n)]
  <2>1. \A k \in 0 .. 0 : k = 0
    OBVIOUS
  <2>2. f = [k \in 0 .. 0 |-> Reaching(E, n, f, k)]
    BY <2>1 DEF Reaching
  <2>3. QED
    BY <2>2 DEF Reaches
<1>2. ASSUME NEW a \in Nat, a \in N PROVE a + 1 \in N
  <2>1. PICK f : f = [k \in 0 .. a |-> Reaching(E, n, f, k)]
    BY <1>2 DEF Reaches
  <2> DEFINE g == [k \in 0 .. a + 1 |-> Reaching(E, n, f, k)]
  <2>2. g = [k \in 0 .. a + 1 |-> Reaching(E, n, f, k)]
    OBVIOUS
  <2> HIDE DEF g
  <2>3. \A k \in 0 .. a + 1 : Reaching(E, n, g, k) = Reaching(E, n, f, k)
    <3> TAKE k \in 0 .. a + 1
    <3>1. CASE k = 0
      BY <3>1 DEF Reaching
    <3>2. CASE k # 0
      <4>1. k - 1 \in 0 .. a /\ k - 1 \in 0 .. a + 1
        BY <3>2
      <4>2. g[k - 1] = f[k - 1]
        BY <4>1, <2>1, <2>2
      <4>3. QED
        BY <4>2 DEF Reaching
    <3>3. QED
      BY <3>1, <3>2
  <2>4. g = [k \in 0 .. a + 1 |-> Reaching(E, n, g, k)]
    BY <2>2, <2>3
  <2>5. QED
    BY <2>4 DEF Reaches
<1>3. Nat \subseteq N
  <2> HIDE DEF N
  <2>1. QED
    BY <1>1, <1>2, AllNaturals
<1>4. QED
  BY <1>3

LEMMA ReachIs ==
  ASSUME NEW E, NEW n
  PROVE  /\ Reach(E, n)[0] = V!callers(E, n)
         /\ \A k \in Nat : Reach(E, n)[k + 1] = Wider(E, Reach(E, n)[k])
<1> DEFINE F(a) == CHOOSE f : Reaches(E, n, f, 0 .. a)
           f == [k \in Nat |-> F(k)[k]]
<1>1. \A a \in Nat : Reaches(E, n, F(a), 0 .. a)
  BY ReachesSome
<1> HIDE DEF F
<1>2. \A k \in Nat : f[k] = Reaching(E, n, f, k)
  <2> TAKE k \in Nat
  <2>1. F(k)[k] = Reaching(E, n, F(k), k)
    <3>1. k \in 0 .. k
      OBVIOUS
    <3>2. QED
      BY <1>1, <3>1 DEF Reaches
  <2>2. CASE k = 0
    BY <2>1, <2>2 DEF Reaching
  <2>3. CASE k # 0
    <3>1. k - 1 \in Nat /\ k - 1 <= k /\ k - 1 <= k - 1
      BY <2>3
    <3>2. F(k)[k - 1] = F(k - 1)[k - 1]
      BY <1>1, <3>1, ReachesAgree
    <3>3. QED
      BY <2>1, <3>1, <3>2 DEF Reaching
  <2>4. QED
    BY <2>2, <2>3
<1>3. f = [k \in Nat |-> Reaching(E, n, f, k)]
  BY <1>2
<1>4. \E h : Reaches(E, n, h, Nat)
  BY <1>3 DEF Reaches
<1> HIDE DEF f
<1>5. Reaches(E, n, Reach(E, n), Nat)
  BY <1>4 DEF Reach
<1> DEFINE R == Reach(E, n)
<1>6. R = [k \in Nat |-> Reaching(E, n, R, k)]
  BY <1>5 DEF Reaches
<1> HIDE DEF R
<1>7. \A k \in Nat : R[k] = Reaching(E, n, R, k)
  BY <1>6
<1>8. R[0] = V!callers(E, n)
  BY <1>7 DEF Reaching
<1>9. \A k \in Nat : R[k + 1] = Wider(E, R[k])
  <2> TAKE k \in Nat
  <2>1. k + 1 \in Nat /\ k + 1 # 0 /\ (k + 1) - 1 = k
    OBVIOUS
  <2>2. QED
    BY <2>1, <1>7 DEF Reaching
<1>10. QED
  BY <1>8, <1>9 DEF R

LEMMA WiderIs ==
  ASSUME NEW E, NEW s
  PROVE  /\ s \subseteq Wider(E, s)
         /\ s \subseteq DOMAIN E => Wider(E, s) \subseteq DOMAIN E
         /\ \A m : m \in Wider(E, s) <=> m \in s \/ (m \in DOMAIN E /\ \E p \in s : p \in E[m])
BY DEF Wider, V!callers

(* After as many steps as there are functions nothing is added any more.   *)
LEMMA ReachStops ==
  ASSUME NEW E, NEW n \in DOMAIN E, IsFiniteSet(DOMAIN E)
  PROVE  LET c == Cardinality(DOMAIN E) IN
           /\ c - 1 \in Nat
           /\ Reach(E, n)[c] = Reach(E, n)[c - 1]
           /\ Wider(E, Reach(E, n)[c]) = Reach(E, n)[c]
           /\ V!callers(E, n) \subseteq Reach(E, n)[c]
<1> DEFINE D == DOMAIN E
           c == Cardinality(D)
           R == Reach(E, n)
<1>1. c \in Nat /\ c - 1 \in Nat
  <2>1. c \in Nat /\ c # 0
    BY FS_CardinalityType, FS_EmptySet
  <2>2. QED
    BY <2>1
<1>2. R[0] = V!callers(E, n) /\ \A k \in Nat : R[k + 1] = Wider(E, R[k])
  BY ReachIs
<1>3. \A k \in Nat : R[k] \subseteq D /\ V!callers(E, n) \subseteq R[k]
  <2> DEFINE N == {k \in Nat : R[k] \subseteq D /\ V!callers(E, n) \subseteq R[k]}
  <2>1. 0 \in N
    BY <1>2 DEF V!callers
  <2> HIDE DEF D, R
  <2>2. ASSUME NEW k \in Nat, k \in N PROVE k + 1 \in N
    BY <2>2, <1>2, WiderIs DEF D
  <2> HIDE DEF N
  <2>3. Nat \subseteq N
    BY <2>1, <2>2, AllNaturals
  <2>4. QED
    BY <2>3 DEF N
<1> HIDE DEF R
<1>4. \A k \in Nat : IsFiniteSet(R[k]) /\ Cardinality(R[k]) \in Nat /\ Cardinality(R[k]) <= c
  BY <1>3, FS_Subset, FS_CardinalityType
<1>5. \A k \in Nat : R[k + 1] = R[k] \/ k + 1 <= Cardinality(R[k])
  <2> DEFINE N == {k \in Nat : R[k + 1] = R[k] \/ k + 1 <= Cardinality(R[k])}
  <2>1. 0 \in N
    <3>1. CASE R[0] = {}
      <4>1. Wider(E, R[0]) = R[0]
        BY <3>1 DEF Wider
      <4>2. QED
        BY <4>1, <1>2
    <3>2. CASE R[0] # {}
      <4>1. Cardinality(R[0]) # 0
        BY <3>2, <1>4, FS_EmptySet
      <4>2. QED
        BY <4>1, <1>4
    <3>3. QED
      BY <3>1, <3>2
  <2>2. ASSUME NEW k \in Nat, k \in N PROVE k + 1 \in N
    <3>1. k + 1 \in Nat /\ R[k + 1] = Wider(E, R[k]) /\ R[(k + 1) + 1] = Wider(E, R[k + 1])
      BY <1>2
    <3>2. CASE R[k + 1] = R[k]
      BY <3>1, <3>2
    <3>3. CASE R[k + 1] # R[k]
      <4>1. k + 1 <= Cardinality(R[k])
        BY <2>2, <3>3
      <4>2. R[k] \subseteq R[k + 1]
        BY <3>1, WiderIs
      <4>3. Cardinality(R[k]) < Cardinality(R[k + 1])
        <5>1. /\ Cardinality(R[k]) <= Cardinality(R[k + 1])
              /\ Cardinality(R[k]) = Cardinality(R[k + 1]) => R[k] = R[k + 1]
          BY <3>1, <4>2, <1>4, FS_Subset
        <5>2. QED
          BY <5>1, <3>1, <3>3, <1>4
      <4>4. (k + 1) + 1 <= Cardinality(R[k + 1])
        BY <4>1, <4>3, <3>1, <1>4
      <4>5. QED
        BY <3>1, <4>4
    <3>4. QED
      BY <3>2, <3>3
  <2> HIDE DEF N
  <2>3. Nat \subseteq N
    BY <2>1, <2>2, AllNaturals
  <2>4. QED
    BY <2>3 DEF N
<1>6. (c - 1) + 1 = c
  BY <1>1
<1>7. R[c] = R[c - 1]
  <2>1. R[c] = R[c - 1] \/ c <= Cardinality(R[c - 1])
    BY <1>1, <1>5, <1>6
  <2>2. CASE c <= Cardinality(R[c - 1])
    <3>1. Cardinality(R[c - 1]) = c
      BY <2>2, <1>1, <1>4
    <3>2. R[c - 1] = D
      BY <3>1, <1>1, <1>3, FS_Subset
    <3>3. R[c - 1] \subseteq R[c]
      BY <1>1, <1>2, <1>6, WiderIs
    <3>4. QED
      BY <3>2, <3>3, <1>1, <1>3
  <2>3. QED
    BY <2>1, <2>2
<1>8. Wider(E, R[c]) = R[c]
  <2>1. R[c] = Wider(E, R[c - 1])
    BY <1>1, <1>2, <1>6
  <2>2. QED
    BY <2>1, <1>7
<1>9. QED
  BY <1>1, <1>3, <1>7, <1>8 DEF R

(* A chain of k calls leads from m to x.                                   *)
IsChain(E, path, m, k, x) ==
  /\ path \in [0 .. k -> DOMAIN E]
  /\ path[0] = m /\ path[k] = x
  /\ \A i \in 1 .. k : path[i] \in E[path[i - 1]]
Leads(E, m, k, x) == \E path : IsChain(E, path, m, k, x)

LEMMA ReachedLead ==
  ASSUME NEW E, NEW x \in DOMAIN E
  PROVE  \A k \in Nat : \A m \in Reach(E, x)[k] :
           m \in DOMAIN E /\ \E j \in 1 .. k + 1 : Leads(E, m, j, x)
<1> DEFINE R == Reach(E, x)
           Far(m, k) == m \in DOMAIN E /\ \E j \in 1 .. k + 1 : Leads(E, m, j, x)
           N == {k \in Nat : \A m \in R[k] : Far(m, k)}
<1>1. R[0] = V!callers(E, x) /\ \A k \in Nat : R[k + 1] = Wider(E, R[k])
  BY ReachIs
<1> HIDE DEF R
<1>2. 0 \in N
  <2> SUFFICES ASSUME NEW m \in R[0] PROVE Far(m, 0)
    OBVIOUS
  <2>1. m \in DOMAIN E /\ x \in E[m]
    BY <1>1 DEF V!callers
  <2> DEFINE path == [i \in 0 .. 1 |-> IF i = 0 THEN m ELSE x]
  <2>2. IsChain(E, path, m, 1, x)
    <3>1. 0 \in 0 .. 1 /\ 1 \in 0 .. 1 /\ (\A i \in 1 .. 1 : i = 1 /\ i - 1 = 0)
      OBVIOUS
    <3>2. path[0] = m /\ path[1] = x /\ path \in [0 .. 1 -> DOMAIN E]
      BY <2>1, <3>1
    <3> HIDE DEF path
    <3>3. QED
      BY <2>1, <3>1, <3>2 DEF IsChain
  <2>3. 1 \in 1 .. 0 + 1
    OBVIOUS
  <2>4. QED
    BY <2>1, <2>2, <2>3 DEF Leads
<1>3. ASSUME NEW k \in Nat, k \in N PROVE k + 1 \in N
  <2> SUFFICES ASSUME NEW m \in R[k + 1] PROVE Far(m, k + 1)
    OBVIOUS
  <2>1. m \in Wider(E, R[k])
    BY <1>1
  <2>2. CASE m \in R[k]
    <3>1. Far(m, k)
      BY <1>3, <2>2
    <3>2. \A j \in 1 .. k + 1 : j \in 1 .. (k + 1) + 1
      OBVIOUS
    <3>3. QED
      BY <3>1, <3>2
  <2>3. CASE m \in DOMAIN E /\ \E p \in R[k] : p \in E[m]
    <3>1. PICK p \in R[k] : p \in E[m]
      BY <2>3
    <3>2. PICK j \in 1 .. k + 1 : Leads(E, p, j, x)
      BY <1>3, <3>1
    <3>3. PICK q : IsChain(E, q, p, j, x)
      BY <3>2 DEF Leads
    <3> DEFINE path == [i \in 0 .. j + 1 |-> IF i = 0 THEN m ELSE q[i - 1]]
    <3>4. j \in Nat /\ j # 0 /\ j + 1 \in 1 .. (k + 1) + 1
      OBVIOUS
    <3>5. q \in [0 .. j -> DOMAIN E] /\ q[0] = p /\ q[j] = x /\ \A i \in 1 .. j : q[i] \in E[q[i - 1]]
      BY <3>3 DEF IsChain
    <3>6. \A i \in 0 .. j + 1 : i # 0 => i - 1 \in 0 .. j
      BY <3>4
    <3>7. \A i \in 0 .. j + 1 : path[i] = IF i = 0 THEN m ELSE q[i - 1]
      OBVIOUS
    <3>8. path \in [0 .. j + 1 -> DOMAIN E]
      BY <2>3, <3>5, <3>6
    <3> HIDE DEF path
    <3>9. 0 \in 0 .. j + 1 /\ j + 1 \in 0 .. j + 1 /\ j + 1 # 0 /\ (j + 1) - 1 = j
      BY <3>4
    <3>10. \A i \in 1 .. j + 1 : path[i] \in E[path[i - 1]]
      <4> TAKE i \in 1 .. j + 1
      <4>1. i \in 0 .. j + 1 /\ i - 1 \in 0 .. j + 1 /\ i # 0
        BY <3>4
      <4>2. path[i] = q[i - 1]
        BY <3>7, <4>1
      <4>3. CASE i = 1
        <5>1. i - 1 = 0
          BY <4>3
        <5>2. path[i] = p /\ path[i - 1] = m
          BY <4>1, <4>2, <5>1, <3>5, <3>7
        <5>3. QED
          BY <5>2, <3>1
      <4>4. CASE i # 1
        <5>1. i - 1 \in 1 .. j /\ i - 1 # 0
          BY <4>1, <4>4, <3>4
        <5>2. path[i - 1] = q[(i - 1) - 1]
          BY <4>1, <5>1, <3>7
        <5>3. QED
          BY <4>2, <5>1, <5>2, <3>5
      <4>5. QED
        BY <4>3, <4>4
    <3>11. path[0] = m /\ path[j + 1] = x
      BY <3>5, <3>7, <3>9
    <3>12. IsChain(E, path, m, j + 1, x)
      BY <3>8, <3>10, <3>11 DEF IsChain
    <3>13. QED
      BY <2>3, <3>4, <3>12 DEF Leads
  <2>4. QED
    BY <2>1, <2>2, <2>3, WiderIs
<1>4. Nat \subseteq N
  <2> HIDE DEF N
  <2>1. QED
    BY <1>2, <1>3, AllNaturals
<1>5. QED
  BY <1>4 DEF R

(* Whatever leads to x is in a set that x's callers and their callers are  *)
(* in.                                                                     *)
LEMMA LeadingIn ==
  ASSUME NEW E, NEW x, NEW F, V!callers(E, x) \subseteq F, Wider(E, F) \subseteq F,
         NEW k \in Nat, k # 0, NEW m, Leads(E, m, k, x)
  PROVE  m \in F
<1>1. PICK path : IsChain(E, path, m, k, x)
  BY DEF Leads
<1>2. /\ path \in [0 .. k -> DOMAIN E] /\ path[0] = m /\ path[k] = x
      /\ \A i \in 1 .. k : path[i] \in E[path[i - 1]]
  BY <1>1 DEF IsChain
<1> DEFINE N == {j \in Nat : j < k => path[k - (j + 1)] \in F}
<1>3. 0 \in N
  <2>1. k \in 1 .. k /\ k - (0 + 1) = k - 1 /\ k - 1 \in 0 .. k
    OBVIOUS
  <2>2. path[k - 1] \in DOMAIN E /\ x \in E[path[k - 1]]
    BY <1>2, <2>1
  <2>3. QED
    BY <2>1, <2>2 DEF V!callers
<1>4. ASSUME NEW j \in Nat, j \in N PROVE j + 1 \in N
  <2>1. SUFFICES ASSUME j + 1 < k PROVE path[k - ((j + 1) + 1)] \in F
    OBVIOUS
  <2> DEFINE i == k - (j + 1)
  <2>2. i \in 1 .. k /\ i - 1 = k - ((j + 1) + 1) /\ i - 1 \in 0 .. k /\ j < k
    BY <2>1
  <2>3. path[i] \in F
    BY <1>4, <2>2
  <2>4. path[i - 1] \in DOMAIN E /\ path[i] \in E[path[i - 1]]
    BY <1>2, <2>2
  <2>5. path[i - 1] \in Wider(E, F)
    BY <2>3, <2>4, WiderIs
  <2>6. QED
    BY <2>2, <2>5
<1>5. Nat \subseteq N
  <2> HIDE DEF N
  <2>1. QED
    BY <1>3, <1>4, AllNaturals
<1>6. k - 1 \in Nat /\ k - 1 < k /\ k - ((k - 1) + 1) = 0
  OBVIOUS
<1>7. path[k - ((k - 1) + 1)] \in F
  BY <1>5, <1>6
<1>8. QED
  BY <1>2, <1>6, <1>7

(* dependents finds the functions from which some chain of calls leads to  *)
(* x, and chains as long as there are functions are enough.                *)
LEMMA DependentsLead ==
  ASSUME NEW E, IsFiniteSet(DOMAIN E), NEW x \in DOMAIN E
  PROVE  /\ \A m \in V!dependents(E, x) :
              m \in DOMAIN E /\ \E k \in 1 .. Cardinality(DOMAIN E) : Leads(E, m, k, x)
         /\ \A k \in Nat : k # 0 => \A m : Leads(E, m, k, x) => m \in V!dependents(E, x)
<1> DEFINE c == Cardinality(DOMAIN E)
           F == V!dependents(E, x)
<1>1. F = Reach(E, x)[c]
  BY DependentsAre
<1>2. c - 1 \in Nat /\ (c - 1) + 1 = c
  <2>1. c - 1 \in Nat /\ c \in Nat
    BY ReachStops, FS_CardinalityType
  <2> HIDE DEF c
  <2>2. QED
    BY <2>1
<1>3. F = Reach(E, x)[c - 1] /\ Wider(E, F) = F /\ V!callers(E, x) \subseteq F
  BY <1>1, ReachStops
<1> HIDE DEF F, c
<1>4. \A m \in F : m \in DOMAIN E /\ \E k \in 1 .. c : Leads(E, m, k, x)
  BY <1>2, <1>3, ReachedLead
<1>5. \A k \in Nat : k # 0 => \A m : Leads(E, m, k, x) => m \in F
  BY <1>3, LeadingIn
<1>6. QED
  BY <1>4, <1>5 DEF F, c

(* What dependents reports of a function in the call graph is every        *)
(* function from which a chain of calls of any length leads to it, and     *)
(* nothing else, whatever cycles there are.                                *)
THEOREM DependentsComplete ==
  ASSUME NEW E, IsFiniteSet(DOMAIN E), NEW x \in DOMAIN E
  PROVE  V!dependents(E, x) = {m \in DOMAIN E : \E k \in Nat \ {0} : Leads(E, m, k, x)}
<1>1. \A m \in V!dependents(E, x) :
        m \in DOMAIN E /\ \E k \in 1 .. Cardinality(DOMAIN E) : Leads(E, m, k, x)
  BY DependentsLead
<1>2. \A k : k \in 1 .. Cardinality(DOMAIN E) => k \in Nat \ {0}
  BY FS_CardinalityType
<1>3. \A k \in Nat : k # 0 => \A m : Leads(E, m, k, x) => m \in V!dependents(E, x)
  BY DependentsLead
<1>4. QED
  BY <1>1, <1>2, <1>3

(* The second of two versions, of those made, promises what the first does *)
(* and needs no more.                                                      *)
Grows(all, p, c) ==
  /\ all[p].promises \subseteq all[c].promises
  /\ all[c].needs \subseteq all[p].needs

(* The call graph and the record say that version p of n is live.          *)
Live(all, edges, record, n, p) ==
  /\ edges[n] = all[p].callees
  /\ n \in DOMAIN record => record[n][Len(record[n])] = p

Chained(all, record, n) ==
  n \in DOMAIN record =>
    \A i \in 1 .. Len(record[n]) - 1 : Grows(all, record[n][i], record[n][i + 1])

Version == 1 .. Len(versionsMade)

SlotsTyped ==
  /\ slots = [globals |-> slots.globals, block |-> slots.block]
  /\ DOMAIN slots.globals \subseteq Names /\ \A n \in DOMAIN slots.globals : slots.globals[n] \in Version
  /\ \A n \in DOMAIN slots.block : slots.block[n] \in Version

TrialsTyped ==
  /\ Listed(trials)
  /\ \A i \in 1 .. Len(trials) :
       /\ trials[i].name \in Names /\ trials[i].place \in {"globals", "block"}
       /\ trials[i].previous \in Version /\ trials[i].candidate \in Version
       /\ trials[i].place = "globals" => trials[i].name \in DOMAIN slots.globals

RecordTyped(r) == Listed(r) /\ Len(r) >= 1 /\ \A i \in 1 .. Len(r) : r[i] \in Version

VersionsTyped ==
  /\ Listed(versionsMade)
  /\ SlotsTyped
  /\ TrialsTyped
  /\ \A n \in DOMAIN versions : RecordTyped(versions[n])
  /\ DOMAIN slots.globals \subseteq DOMAIN graph /\ DOMAIN graph \subseteq Names

(* A name's only trial, whose predecessor the records still say is live.   *)
Tried(i) ==
  LET t == trials[i]
  IN /\ t.place = "globals" /\ slots.globals[t.name] = t.candidate
     /\ Live(versionsMade, graph, versions, t.name, t.previous)
     /\ Grows(versionsMade, t.previous, t.candidate)
     /\ \A j \in 1 .. Len(trials) : trials[j].name = t.name => j = i

(* What holds of a name whose slot and record were not moved apart.        *)
Together(n) ==
  n \notin disturbed =>
    /\ \A i \in 1 .. Len(trials) : trials[i].name = n => Tried(i)
    /\ n \in DOMAIN slots.globals /\ (\A i \in 1 .. Len(trials) : trials[i].name # n) =>
         Live(versionsMade, graph, versions, n, slots.globals[n])
    /\ Chained(versionsMade, versions, n)
    /\ n \in DOMAIN graph => n \in DOMAIN slots.globals

AffectedIs ==
  affected # V!Idle =>
    affected.name \in DOMAIN graph /\ affected.names = V!dependents(graph, affected.name)

VersionsInv == VersionsTyped /\ (\A n \in Names : Together(n)) /\ AffectedIs

-----------------------------------------------------------------------------
LEMMA SetIs ==
  ASSUME SlotsTyped, NEW place \in {"globals", "block"}, NEW n, NEW v, NEW s, s = V!Set(place, n, v)
  PROVE  /\ s = [globals |-> s.globals, block |-> s.block]
         /\ place = "globals" => s.globals = V!With(slots.globals, n, v) /\ s.block = slots.block
         /\ place = "block" => s.block = V!With(slots.block, n, v) /\ s.globals = slots.globals
<1>1. PICK g, b : slots = [globals |-> g, block |-> b]
  BY DEF SlotsTyped
<1>2. slots.globals = g /\ slots.block = b
  BY <1>1
<1>3. CASE place = "globals"
  <2>1. s = [globals |-> V!With(g, n, v), block |-> b]
    BY <1>1, <1>3 DEF V!Set
  <2>2. QED
    BY <2>1, <1>2, <1>3
<1>4. CASE place = "block"
  <2>1. s = [globals |-> g, block |-> V!With(b, n, v)]
    BY <1>1, <1>4 DEF V!Set
  <2>2. QED
    BY <2>1, <1>2, <1>4
<1>5. QED
  BY <1>3, <1>4

(* The versions there are stay, with perhaps one more.                     *)
MadeStay ==
  /\ Listed(versionsMade') /\ Len(versionsMade) <= Len(versionsMade')
  /\ Len(versionsMade) \in Nat /\ Len(versionsMade') \in Nat
  /\ \A i \in Version : i \in Version' /\ versionsMade'[i] = versionsMade[i]

LEMMA MakeStay ==
  ASSUME Listed(versionsMade), NEW v, V!Make(v)
  PROVE  /\ MadeStay /\ Len(versionsMade') = Len(versionsMade) + 1
         /\ Len(versionsMade') \in Version' /\ versionsMade'[Len(versionsMade')] = v
<1>1. versionsMade' = Append(versionsMade, v)
  BY DEF V!Make
<1>2. /\ Listed(versionsMade') /\ Len(versionsMade') = Len(versionsMade) + 1
      /\ versionsMade'[Len(versionsMade) + 1] = v
      /\ \A i \in 1 .. Len(versionsMade) : versionsMade'[i] = versionsMade[i]
  BY <1>1, AppendListed
<1>3. Len(versionsMade) \in Nat
  BY ListedLen
<1>4. QED
  BY <1>2, <1>3 DEF MadeStay, Version

LEMMA UnchangedStay == Listed(versionsMade) /\ UNCHANGED versionsMade => MadeStay
<1> SUFFICES ASSUME Listed(versionsMade), UNCHANGED versionsMade PROVE MadeStay
  OBVIOUS
<1>1. Len(versionsMade) \in Nat
  BY ListedLen
<1>2. QED
  BY <1>1 DEF MadeStay, Version

(* Nothing about name m changes.                                           *)
Aside(m) ==
  /\ m \in disturbed => m \in disturbed'
  /\ m \in DOMAIN slots'.globals <=> m \in DOMAIN slots.globals
  /\ m \in DOMAIN slots.globals => slots'.globals[m] = slots.globals[m]
  /\ m \in DOMAIN graph' <=> m \in DOMAIN graph
  /\ m \in DOMAIN graph => graph'[m] = graph[m]
  /\ m \in DOMAIN versions' <=> m \in DOMAIN versions
  /\ m \in DOMAIN versions => versions'[m] = versions[m]
  /\ \A i \in 1 .. Len(trials') : trials'[i].name = m => i \in 1 .. Len(trials) /\ trials'[i] = trials[i]
  /\ \A i \in 1 .. Len(trials) : trials[i].name = m => i \in 1 .. Len(trials') /\ trials'[i] = trials[i]

LEMMA GrowsStays ==
  ASSUME MadeStay, NEW p \in Version, NEW c \in Version, Grows(versionsMade, p, c)
  PROVE  Grows(versionsMade', p, c)
BY DEF MadeStay, Grows

LEMMA LiveStays ==
  ASSUME MadeStay, NEW m \in DOMAIN graph, Aside(m), NEW p \in Version,
         Live(versionsMade, graph, versions, m, p)
  PROVE  Live(versionsMade', graph', versions', m, p)
BY DEF MadeStay, Live, Aside

LEMMA ChainedStays ==
  ASSUME VersionsTyped, MadeStay, NEW m, Aside(m), Chained(versionsMade, versions, m)
  PROVE  Chained(versionsMade', versions', m)
<1> SUFFICES ASSUME m \in DOMAIN versions', NEW i \in 1 .. Len(versions'[m]) - 1
             PROVE  Grows(versionsMade', versions'[m][i], versions'[m][i + 1])
  BY DEF Chained
<1>1. m \in DOMAIN versions /\ versions'[m] = versions[m]
  BY DEF Aside
<1>2. Len(versions[m]) \in Nat
  BY <1>1, ListedLen DEF VersionsTyped, RecordTyped
<1>3. i \in 1 .. Len(versions[m]) - 1 /\ i \in 1 .. Len(versions[m]) /\ i + 1 \in 1 .. Len(versions[m])
  BY <1>1, <1>2
<1>4. versions[m][i] \in Version /\ versions[m][i + 1] \in Version
  BY <1>1, <1>3 DEF VersionsTyped, RecordTyped
<1>5. Grows(versionsMade, versions[m][i], versions[m][i + 1])
  BY <1>1, <1>3 DEF Chained
<1>6. QED
  BY <1>1, <1>4, <1>5, GrowsStays

LEMMA AsideTogether ==
  ASSUME VersionsTyped, MadeStay, NEW m, Together(m), Aside(m)
  PROVE  Together(m)'
<1> SUFFICES ASSUME m \notin disturbed' PROVE Together(m)'
  BY DEF Together
<1>1. m \notin disturbed
  BY DEF Aside
<1>2. ASSUME NEW i \in 1 .. Len(trials'), trials'[i].name = m PROVE Tried(i)'
  <2>1. i \in 1 .. Len(trials) /\ trials'[i] = trials[i]
    BY <1>2 DEF Aside
  <2>2. Tried(i)
    BY <1>1, <1>2, <2>1 DEF Together
  <2> DEFINE t == trials[i]
  <2>3. t.name = m /\ t.place = "globals" /\ slots.globals[m] = t.candidate
    BY <2>1, <2>2, <1>2 DEF Tried
  <2>4. m \in DOMAIN slots.globals /\ m \in DOMAIN graph /\ t.previous \in Version /\ t.candidate \in Version
    BY <2>1, <2>3 DEF VersionsTyped, TrialsTyped
  <2>5. slots'.globals[m] = t.candidate
    BY <2>3, <2>4 DEF Aside
  <2>6. /\ Live(versionsMade, graph, versions, m, t.previous)
        /\ Grows(versionsMade, t.previous, t.candidate)
    BY <2>2, <2>3 DEF Tried
  <2>7. /\ Live(versionsMade', graph', versions', m, t.previous)
        /\ Grows(versionsMade', t.previous, t.candidate)
    BY <2>4, <2>6, LiveStays, GrowsStays
  <2>8. \A j \in 1 .. Len(trials') : trials'[j].name = m => j = i
    <3> SUFFICES ASSUME NEW j \in 1 .. Len(trials'), trials'[j].name = m PROVE j = i
      OBVIOUS
    <3>1. j \in 1 .. Len(trials) /\ trials'[j] = trials[j]
      BY DEF Aside
    <3>2. QED
      BY <3>1, <2>2, <2>3 DEF Tried
  <2>9. QED
    BY <2>1, <2>3, <2>5, <2>7, <2>8 DEF Tried
<1>3. ASSUME m \in DOMAIN slots'.globals, \A i \in 1 .. Len(trials') : trials'[i].name # m
      PROVE  Live(versionsMade', graph', versions', m, slots'.globals[m])
  <2>1. m \in DOMAIN slots.globals /\ slots'.globals[m] = slots.globals[m]
    BY <1>3 DEF Aside
  <2>2. \A i \in 1 .. Len(trials) : trials[i].name # m
    BY <1>3 DEF Aside
  <2>3. /\ Live(versionsMade, graph, versions, m, slots.globals[m])
        /\ m \in DOMAIN graph /\ slots.globals[m] \in Version
    BY <1>1, <2>1, <2>2 DEF Together, VersionsTyped, SlotsTyped
  <2>4. QED
    BY <2>1, <2>3, LiveStays
<1>4. Chained(versionsMade', versions', m)
  BY <1>1, ChainedStays DEF Together
<1>5. m \in DOMAIN graph' => m \in DOMAIN slots'.globals
  BY <1>1 DEF Aside, Together
<1>6. QED
  BY <1>2, <1>3, <1>4, <1>5 DEF Together

LEMMA SetTyped ==
  ASSUME SlotsTyped, MadeStay, NEW place \in {"globals", "block"}, NEW n \in Names, NEW v \in Version',
         slots' = V!Set(place, n, v)
  PROVE  /\ SlotsTyped'
         /\ DOMAIN slots.globals \subseteq DOMAIN slots'.globals
         /\ \A m : m # n => /\ m \in DOMAIN slots'.globals <=> m \in DOMAIN slots.globals
                            /\ m \in DOMAIN slots.globals => slots'.globals[m] = slots.globals[m]
         /\ place = "globals" => /\ DOMAIN slots'.globals = DOMAIN slots.globals \cup {n}
                                 /\ slots'.globals[n] = v
         /\ place = "block" => slots'.globals = slots.globals
<1>1. /\ slots' = [globals |-> slots'.globals, block |-> slots'.block]
      /\ place = "globals" => slots'.globals = V!With(slots.globals, n, v) /\ slots'.block = slots.block
      /\ place = "block" => slots'.block = V!With(slots.block, n, v) /\ slots'.globals = slots.globals
  BY SetIs
<1>2. \A i \in Version : i \in Version'
  BY DEF MadeStay
<1>3. CASE place = "globals"
  <2>1. /\ DOMAIN slots'.globals = DOMAIN slots.globals \cup {n} /\ slots'.globals[n] = v
        /\ \A m \in DOMAIN slots.globals : m # n => slots'.globals[m] = slots.globals[m]
    BY <1>1, <1>3 DEF V!With
  <2>2. QED
    BY <2>1, <1>1, <1>2, <1>3 DEF SlotsTyped
<1>4. CASE place = "block"
  <2>1. /\ DOMAIN slots'.block = DOMAIN slots.block \cup {n} /\ slots'.block[n] = v
        /\ \A m \in DOMAIN slots.block : m # n => slots'.block[m] = slots.block[m]
    BY <1>1, <1>4 DEF V!With
  <2>2. QED
    BY <2>1, <1>1, <1>2, <1>4 DEF SlotsTyped
<1>5. QED
  BY <1>3, <1>4

LEMMA StayTyped ==
  ASSUME VersionsTyped, MadeStay, DOMAIN slots.globals \subseteq DOMAIN slots'.globals
  PROVE  /\ \A i \in 1 .. Len(trials) :
              /\ trials[i].name \in Names /\ trials[i].place \in {"globals", "block"}
              /\ trials[i].previous \in Version' /\ trials[i].candidate \in Version'
              /\ trials[i].place = "globals" => trials[i].name \in DOMAIN slots'.globals
         /\ \A r : RecordTyped(r) => /\ Listed(r) /\ Len(r) \in Nat /\ Len(r) >= 1
                                     /\ \A i \in 1 .. Len(r) : r[i] \in Version'
<1>1. \A i \in Version : i \in Version'
  BY DEF MadeStay
<1>2. QED
  BY <1>1, ListedLen DEF VersionsTyped, TrialsTyped, RecordTyped

(* A step that moves one name only.                                        *)
LEMMA OneMoves ==
  ASSUME VersionsInv, MadeStay, VersionsTyped', NEW n \in Names,
         \A m \in Names : m # n => Aside(m), Together(n)', AffectedIs'
  PROVE  VersionsInv'
<1>1. \A m \in Names : Together(m)'
  <2> TAKE m \in Names
  <2>1. CASE m = n
    BY <2>1
  <2>2. CASE m # n
    BY <2>2, AsideTogether DEF VersionsInv
  <2>3. QED
    BY <2>1, <2>2
<1>2. QED
  BY <1>1 DEF VersionsInv

LEMMA PlaceIs ==
  ASSUME NEW n
  PROVE  V!Place(n) \in {"globals", "block"}
BY DEF V!Place

LEMMA VersionsInit == V!Init => VersionsInv
<1> SUFFICES ASSUME V!Init PROVE VersionsInv
  OBVIOUS
<1>1. /\ versionsMade = <<>> /\ slots = [globals |-> <<>>, block |-> <<>>] /\ trials = <<>>
      /\ versions = <<>> /\ graph = <<>> /\ affected = V!Idle
  BY DEF V!Init
<1>2. Listed(<<>>) /\ Len(<<>>) = 0 /\ DOMAIN <<>> = {} /\ 1 .. Len(<<>>) = {}
  BY EmptyListed
<1>3. VersionsTyped
  BY <1>1, <1>2 DEF VersionsTyped, SlotsTyped, TrialsTyped
<1>4. \A n : Together(n)
  BY <1>1, <1>2 DEF Together, Chained
<1>5. QED
  BY <1>1, <1>3, <1>4 DEF VersionsInv, AffectedIs

LEMMA DeclareKeeps ==
  ASSUME VersionsInv, NEW n \in Names, NEW v \in Written, V!Declare(n, v)
  PROVE  VersionsInv'
<1> DEFINE place == IF inBlock THEN "block" ELSE "globals"
           c == Len(versionsMade')
<1>1. VersionsTyped /\ SlotsTyped
  BY DEF VersionsInv, VersionsTyped
<1>2. /\ trials = <<>> /\ V!Make(v) /\ slots' = V!Set(place, n, c) /\ graph' = V!With(graph, n, v.callees)
      /\ disturbed' = IF inBlock \/ V!Recorded(n) THEN disturbed \cup {n} ELSE disturbed
      /\ affected' = V!Idle /\ trials' = trials /\ versions' = versions
  BY DEF V!Declare
<1>3. MadeStay /\ c \in Version' /\ versionsMade'[c] = v
  BY <1>1, <1>2, MakeStay DEF VersionsTyped
<1> HIDE DEF c
<1>4. place \in {"globals", "block"}
  OBVIOUS
<1>5. /\ SlotsTyped' /\ DOMAIN slots.globals \subseteq DOMAIN slots'.globals
      /\ \A m : m # n => /\ m \in DOMAIN slots'.globals <=> m \in DOMAIN slots.globals
                         /\ m \in DOMAIN slots.globals => slots'.globals[m] = slots.globals[m]
      /\ place = "globals" => /\ DOMAIN slots'.globals = DOMAIN slots.globals \cup {n}
                              /\ slots'.globals[n] = c
      /\ place = "block" => slots'.globals = slots.globals
  BY <1>1, <1>2, <1>3, <1>4, SetTyped
<1>6. /\ DOMAIN graph' = DOMAIN graph \cup {n} /\ graph'[n] = v.callees
      /\ \A m \in DOMAIN graph : m # n => graph'[m] = graph[m]
  BY <1>2 DEF V!With
<1>7. Len(trials) = 0 /\ 1 .. Len(trials) = {}
  BY <1>2, EmptyListed
<1>8. VersionsTyped'
  <2>1. TrialsTyped'
    BY <1>1, <1>2, <1>7 DEF TrialsTyped, VersionsTyped
  <2>2. \A m \in DOMAIN versions' : RecordTyped(versions[m])'
    BY <1>1, <1>2, <1>3, <1>5, StayTyped DEF VersionsTyped, RecordTyped
  <2>3. DOMAIN slots'.globals \subseteq DOMAIN graph' /\ DOMAIN graph' \subseteq Names
    BY <1>1, <1>4, <1>5, <1>6 DEF VersionsTyped
  <2>4. QED
    BY <1>3, <1>5, <2>1, <2>2, <2>3 DEF VersionsTyped, MadeStay
<1>9. \A m \in Names : m # n => Aside(m)
  BY <1>2, <1>5, <1>6 DEF Aside
<1>10. Together(n)'
  <2> SUFFICES ASSUME n \notin disturbed' PROVE Together(n)'
    BY DEF Together
  <2>1. ~ inBlock /\ n \notin DOMAIN versions /\ place = "globals"
    BY <1>2 DEF V!Recorded
  <2>2. n \in DOMAIN slots'.globals /\ slots'.globals[n] = c
    BY <1>5, <2>1
  <2>3. Live(versionsMade', graph', versions', n, slots'.globals[n])
    BY <1>2, <1>3, <1>6, <2>1, <2>2 DEF Live
  <2>4. QED
    BY <1>2, <1>7, <2>1, <2>2, <2>3 DEF Together, Chained
<1>11. AffectedIs'
  BY <1>2 DEF AffectedIs, V!Idle
<1>12. QED
  BY <1>3, <1>8, <1>9, <1>10, <1>11, OneMoves

LEMMA BlockKeeps ==
  ASSUME VersionsInv, V!EnterBlock \/ V!LeaveBlock
  PROVE  VersionsInv'
<1>1. /\ trials = <<>> /\ slots' = [slots EXCEPT !.block = <<>>] /\ affected' = V!Idle
      /\ UNCHANGED <<versionsMade, trials, versions, graph, disturbed>>
  BY DEF V!EnterBlock, V!LeaveBlock
<1>2. VersionsTyped /\ SlotsTyped
  BY DEF VersionsInv, VersionsTyped
<1>3. MadeStay
  BY <1>1, <1>2, UnchangedStay DEF VersionsTyped
<1>4. slots' = [globals |-> slots'.globals, block |-> slots'.block] /\ slots'.globals = slots.globals /\ slots'.block = <<>>
  <2>1. PICK g, b : slots = [globals |-> g, block |-> b]
    BY <1>2 DEF SlotsTyped
  <2>2. slots' = [globals |-> g, block |-> <<>>]
    BY <1>1, <2>1
  <2>3. QED
    BY <2>1, <2>2
<1>5. VersionsTyped'
  BY <1>1, <1>2, <1>4, EmptyListed DEF VersionsTyped, SlotsTyped, TrialsTyped, RecordTyped, Version
<1>6. \A m \in Names : Aside(m)
  BY <1>1, <1>4 DEF Aside
<1>7. \A m \in Names : Together(m)'
  BY <1>2, <1>3, <1>6, AsideTogether DEF VersionsInv
<1>8. QED
  BY <1>1, <1>5, <1>7 DEF VersionsInv, AffectedIs, V!Idle

LEMMA OneListed == \A p : Listed(<<p>>) /\ Len(<<p>>) = 1 /\ <<p>>[1] = p
<1> TAKE p
<1>1. <<p>> \in Seq({p}) /\ Len(<<p>>) = 1 /\ <<p>>[1] = p
  OBVIOUS
<1>2. QED
  BY <1>1, ListedIs

(* What is recorded is the version that is live, after its predecessor.    *)
LEMMA RecordKeeps ==
  ASSUME VersionsTyped, MadeStay, NEW n \in Names, NEW p \in Version, NEW c \in Version', V!Record(n, p, c)
  PROVE  /\ \A m \in DOMAIN versions' : RecordTyped(versions[m])'
         /\ \A m : m # n => /\ m \in DOMAIN versions' <=> m \in DOMAIN versions
                            /\ m \in DOMAIN versions => versions'[m] = versions[m]
                            /\ m \in DOMAIN graph' <=> m \in DOMAIN graph
                            /\ m \in DOMAIN graph => graph'[m] = graph[m]
         /\ DOMAIN graph' = DOMAIN graph \cup {n}
         /\ AffectedIs'
         /\ /\ Chained(versionsMade, versions, n)
            /\ n \in DOMAIN versions => versions[n][Len(versions[n])] = p
            /\ Grows(versionsMade', p, c)
            => /\ Chained(versionsMade', versions', n)
               /\ Live(versionsMade', graph', versions', n, c)
<1> DEFINE h == IF n \in DOMAIN versions THEN versions[n] ELSE <<p>>
           edges == V!With(graph, n, versionsMade'[c].callees)
<1>1. /\ versions' = V!With(versions, n, Append(h, c)) /\ graph' = edges
      /\ affected' = V!Report(n, V!dependents(edges, n))
  BY DEF V!Record, V!Recorded
<1>2. AffectedIs'
  <2>1. affected'.name = n /\ affected'.names = V!dependents(graph', n)
    BY <1>1 DEF V!Report
  <2>2. n \in DOMAIN graph'
    BY <1>1 DEF V!With
  <2>3. QED
    BY <2>1, <2>2 DEF AffectedIs
<1>3. \A i \in Version : i \in Version'
  BY DEF MadeStay
<1>4. Listed(h) /\ Len(h) \in Nat /\ Len(h) >= 1 /\ \A i \in 1 .. Len(h) : h[i] \in Version
  <2>1. CASE n \in DOMAIN versions
    BY <2>1, ListedLen DEF VersionsTyped, RecordTyped
  <2>2. CASE n \notin DOMAIN versions
    <3>1. Listed(<<p>>) /\ Len(<<p>>) = 1 /\ <<p>>[1] = p
      BY OneListed
    <3>2. h = <<p>>
      BY <2>2
    <3> HIDE DEF h
    <3>3. \A i \in 1 .. 1 : i = 1
      OBVIOUS
    <3>4. QED
      BY <3>1, <3>2, <3>3
  <2>3. QED
    BY <2>1, <2>2
<1>5. /\ n \in DOMAIN versions' /\ versions'[n] = Append(h, c)
      /\ \A m : m # n => /\ m \in DOMAIN versions' <=> m \in DOMAIN versions
                         /\ m \in DOMAIN versions => versions'[m] = versions[m]
  BY <1>1 DEF V!With
<1>6. /\ DOMAIN graph' = DOMAIN graph \cup {n} /\ graph'[n] = versionsMade'[c].callees
      /\ \A m \in DOMAIN graph : m # n => graph'[m] = graph[m]
  BY <1>1 DEF V!With
<1>7. ASSUME Chained(versionsMade, versions, n), n \in DOMAIN versions => versions[n][Len(versions[n])] = p
      PROVE  /\ h[Len(h)] = p
             /\ \A i \in 1 .. Len(h) - 1 : Grows(versionsMade, h[i], h[i + 1])
  <2>1. CASE n \in DOMAIN versions
    BY <2>1, <1>7 DEF Chained
  <2>2. CASE n \notin DOMAIN versions
    <3>1. h = <<p>> /\ Len(<<p>>) = 1 /\ <<p>>[1] = p
      BY <2>2, OneListed
    <3> HIDE DEF h
    <3>2. 1 .. 1 - 1 = {}
      OBVIOUS
    <3>3. QED
      BY <3>1, <3>2
  <2>3. QED
    BY <2>1, <2>2
<1> HIDE DEF h, edges
<1> DEFINE r == versions'[n]
<1>8. /\ Listed(r) /\ Len(r) = Len(h) + 1 /\ r[Len(h) + 1] = c
      /\ \A i \in 1 .. Len(h) : r[i] = h[i]
  BY <1>4, <1>5, AppendListed
<1> HIDE DEF r
<1>9. Len(r) >= 1 /\ \A i \in 1 .. Len(r) : r[i] \in Version'
  <2>1. \A i \in 1 .. Len(r) : i \in 1 .. Len(h) \/ i = Len(h) + 1
    BY <1>4, <1>8
  <2>2. QED
    BY <2>1, <1>3, <1>4, <1>8
<1>10. \A m \in DOMAIN versions' : RecordTyped(versions[m])'
  <2> TAKE m \in DOMAIN versions'
  <2>1. CASE m = n
    BY <2>1, <1>8, <1>9 DEF RecordTyped, r
  <2>2. CASE m # n
    BY <2>2, <1>3, <1>5 DEF RecordTyped, VersionsTyped
  <2>3. QED
    BY <2>1, <2>2
<1>11. ASSUME Chained(versionsMade, versions, n), n \in DOMAIN versions => versions[n][Len(versions[n])] = p,
              Grows(versionsMade', p, c)
       PROVE  Chained(versionsMade', versions', n) /\ Live(versionsMade', graph', versions', n, c)
  <2>1. r[Len(r)] = c
    BY <1>8
  <2>2. \A i \in 1 .. Len(r) - 1 : Grows(versionsMade', r[i], r[i + 1])
    <3> TAKE i \in 1 .. Len(r) - 1
    <3>1. i \in 1 .. Len(h) /\ r[i] = h[i]
      BY <1>4, <1>8
    <3>2. CASE i = Len(h)
      BY <3>1, <3>2, <1>7, <1>8, <1>11
    <3>3. CASE i # Len(h)
      <4>1. i \in 1 .. Len(h) - 1 /\ i + 1 \in 1 .. Len(h)
        BY <3>1, <3>3, <1>4
      <4>2. r[i + 1] = h[i + 1] /\ h[i] \in Version /\ h[i + 1] \in Version
        BY <4>1, <3>1, <1>4, <1>8
      <4>3. Grows(versionsMade, h[i], h[i + 1])
        BY <4>1, <1>7, <1>11
      <4>4. Grows(versionsMade', h[i], h[i + 1])
        BY <4>2, <4>3, GrowsStays
      <4>5. QED
        BY <3>1, <4>2, <4>4
    <3>4. QED
      BY <3>2, <3>3
  <2>3. QED
    BY <2>1, <2>2, <1>6 DEF Chained, Live, r
<1>12. QED
  BY <1>2, <1>5, <1>6, <1>10, <1>11

LEMMA RedefineKeeps ==
  ASSUME VersionsInv, NEW n \in Names, NEW v \in Written, V!Redefine(n, v)
  PROVE  VersionsInv'
<1> DEFINE place == V!Place(n)
           p == slots[place][n]
           merged == [v EXCEPT !.promises = @ \cup versionsMade[p].promises]
           c == Len(versionsMade')
           t == [name |-> n, place |-> place, previous |-> p, candidate |-> c]
           Tries == /\ trials' = Append(trials, t) /\ affected' = V!Idle
                    /\ UNCHANGED <<versions, graph>>
           Lives == V!Record(n, p, c) /\ UNCHANGED trials
<1>1. /\ n \in DOMAIN slots[place] /\ v.needs \subseteq versionsMade[p].needs
      /\ V!Make(merged) /\ slots' = V!Set(place, n, c) /\ (Tries \/ Lives)
      /\ disturbed' = IF place = "block" \/ n \in V!OnTrial THEN disturbed \cup {n} ELSE disturbed
  BY DEF V!Redefine, V!Bound, V!Current
<1>2. VersionsTyped /\ SlotsTyped /\ Together(n)
  BY DEF VersionsInv, VersionsTyped
<1>3. place \in {"globals", "block"}
  BY PlaceIs
<1> HIDE DEF place
<1>4. p \in Version /\ (place = "globals" => n \in DOMAIN slots.globals /\ p = slots.globals[n])
  BY <1>1, <1>2, <1>3 DEF SlotsTyped
<1>5. MadeStay /\ c \in Version' /\ versionsMade'[c] = merged
  BY <1>1, <1>2, MakeStay DEF VersionsTyped
<1>6. Grows(versionsMade', p, c)
  <2>1. v \in [promises : SUBSET Promises, needs : SUBSET Caps, callees : SUBSET Names]
    BY RuntimeAssumption DEF V!VersionsAssumption
  <2>2. merged.promises = v.promises \cup versionsMade[p].promises /\ merged.needs = v.needs
    BY <2>1
  <2>3. versionsMade'[p] = versionsMade[p]
    BY <1>4, <1>5 DEF MadeStay
  <2>4. QED
    BY <1>1, <1>5, <2>2, <2>3 DEF Grows
<1> HIDE DEF p, c, merged
<1>7. /\ SlotsTyped' /\ DOMAIN slots.globals \subseteq DOMAIN slots'.globals
      /\ \A m : m # n => /\ m \in DOMAIN slots'.globals <=> m \in DOMAIN slots.globals
                         /\ m \in DOMAIN slots.globals => slots'.globals[m] = slots.globals[m]
      /\ place = "globals" => /\ DOMAIN slots'.globals = DOMAIN slots.globals \cup {n}
                              /\ slots'.globals[n] = c
      /\ place = "block" => slots'.globals = slots.globals
  BY <1>1, <1>2, <1>3, <1>5, SetTyped
<1>8. /\ Listed(trials) /\ Len(trials) \in Nat /\ DOMAIN trials = 1 .. Len(trials)
  BY <1>2, ListedLen DEF VersionsTyped, TrialsTyped
<1>9. n \notin disturbed' =>
        /\ place = "globals" /\ n \notin disturbed /\ n \in DOMAIN slots.globals /\ p = slots.globals[n]
        /\ \A i \in 1 .. Len(trials) : trials[i].name # n
        /\ Live(versionsMade, graph, versions, n, p) /\ Chained(versionsMade, versions, n)
  <2> SUFFICES ASSUME n \notin disturbed' PROVE
        /\ place = "globals" /\ n \notin disturbed /\ n \in DOMAIN slots.globals /\ p = slots.globals[n]
        /\ \A i \in 1 .. Len(trials) : trials[i].name # n
        /\ Live(versionsMade, graph, versions, n, p) /\ Chained(versionsMade, versions, n)
    OBVIOUS
  <2>1. place # "block" /\ n \notin V!OnTrial /\ n \notin disturbed
    BY <1>1
  <2>2. \A i \in 1 .. Len(trials) : trials[i].name # n
    BY <2>1, <1>8 DEF V!OnTrial
  <2>3. QED
    BY <2>1, <2>2, <1>2, <1>3, <1>4 DEF Together
<1>10. \A m : m \in disturbed => m \in disturbed'
  BY <1>1
<1>11. CASE Tries
  <2>1. trials' = Append(trials, t) /\ affected' = V!Idle /\ UNCHANGED <<versions, graph>>
    BY <1>11
  <2>2. /\ Listed(trials') /\ Len(trials') = Len(trials) + 1 /\ trials'[Len(trials) + 1] = t
        /\ \A i \in 1 .. Len(trials) : trials'[i] = trials[i]
    BY <2>1, <1>8, AppendListed
  <2>3. \A i \in 1 .. Len(trials') : i \in 1 .. Len(trials) \/ i = Len(trials) + 1
    BY <2>2, <1>8
  <2>4. t.name = n /\ t.place = place /\ t.previous = p /\ t.candidate = c
    OBVIOUS
  <2> HIDE DEF t
  <2>5. VersionsTyped'
    <3>1. p \in Version' /\ (place = "globals" => n \in DOMAIN slots'.globals)
      BY <1>4, <1>5, <1>7 DEF MadeStay
    <3>2. \A i \in 1 .. Len(trials') :
            /\ trials'[i].name \in Names /\ trials'[i].place \in {"globals", "block"}
            /\ trials'[i].previous \in Version' /\ trials'[i].candidate \in Version'
            /\ trials'[i].place = "globals" => trials'[i].name \in DOMAIN slots'.globals
      BY <1>2, <1>3, <1>5, <1>7, <2>2, <2>3, <2>4, <3>1, StayTyped
    <3>3. TrialsTyped'
      BY <2>2, <3>2 DEF TrialsTyped
    <3>4. \A m \in DOMAIN versions' : RecordTyped(versions[m])'
      BY <1>2, <1>5, <1>7, <2>1, StayTyped DEF VersionsTyped, RecordTyped
    <3>5. DOMAIN slots'.globals \subseteq DOMAIN graph' /\ DOMAIN graph' \subseteq Names
      BY <1>2, <1>3, <1>4, <1>7, <2>1 DEF VersionsTyped
    <3>6. QED
      BY <1>5, <1>7, <3>3, <3>4, <3>5 DEF VersionsTyped, MadeStay
  <2>6. \A m \in Names : m # n => Aside(m)
    <3> SUFFICES ASSUME NEW m \in Names, m # n PROVE Aside(m)
      OBVIOUS
    <3>1. \A i \in 1 .. Len(trials') : trials'[i].name = m => i \in 1 .. Len(trials) /\ trials'[i] = trials[i]
      BY <2>2, <2>3, <2>4
    <3>2. \A i \in 1 .. Len(trials) : i \in 1 .. Len(trials') /\ trials'[i] = trials[i]
      BY <1>8, <2>2
    <3>3. QED
      BY <1>7, <1>10, <2>1, <3>1, <3>2 DEF Aside
  <2>7. Together(n)'
    <3> SUFFICES ASSUME n \notin disturbed' PROVE Together(n)'
      BY DEF Together
    <3>1. /\ place = "globals" /\ n \notin disturbed /\ n \in DOMAIN slots.globals
          /\ \A i \in 1 .. Len(trials) : trials[i].name # n
          /\ Live(versionsMade, graph, versions, n, p) /\ Chained(versionsMade, versions, n)
      BY <1>9
    <3>2. n \in DOMAIN slots'.globals /\ slots'.globals[n] = c /\ n \in DOMAIN graph
      BY <1>2, <1>7, <3>1 DEF VersionsTyped
    <3>3. Live(versionsMade', graph', versions', n, p)
      BY <1>4, <1>5, <2>1, <3>1 DEF Live, MadeStay
    <3>4. Chained(versionsMade', versions', n)
      <4>1. \A i \in 1 .. Len(versions[n]) - 1 : n \in DOMAIN versions =>
              versions[n][i] \in Version /\ versions[n][i + 1] \in Version
        <5> SUFFICES ASSUME n \in DOMAIN versions, NEW i \in 1 .. Len(versions[n]) - 1
                     PROVE  versions[n][i] \in Version /\ versions[n][i + 1] \in Version
          OBVIOUS
        <5>1. RecordTyped(versions[n]) /\ Len(versions[n]) \in Nat
          BY <1>2, ListedLen DEF VersionsTyped, RecordTyped
        <5>2. i \in 1 .. Len(versions[n]) /\ i + 1 \in 1 .. Len(versions[n])
          BY <5>1
        <5>3. QED
          BY <5>1, <5>2 DEF RecordTyped
      <4>2. QED
        BY <1>5, <2>1, <3>1, <4>1, GrowsStays DEF Chained
    <3>5. \A i \in 1 .. Len(trials') : trials'[i].name = n => i = Len(trials) + 1
      BY <2>2, <2>3, <3>1
    <3>6. Len(trials) + 1 \in 1 .. Len(trials')
      BY <1>8, <2>2
    <3>7. \A i \in 1 .. Len(trials') : trials'[i].name = n => Tried(i)'
      <4> SUFFICES ASSUME NEW i \in 1 .. Len(trials'), trials'[i].name = n PROVE Tried(i)'
        OBVIOUS
      <4>1. i = Len(trials) + 1 /\ trials'[i] = t
        BY <2>2, <3>5
      <4>2. \A j \in 1 .. Len(trials') : trials'[j].name = n => j = i
        BY <3>5, <4>1
      <4>3. QED
        BY <4>1, <4>2, <1>6, <2>4, <3>1, <3>2, <3>3 DEF Tried
    <3>8. \E i \in 1 .. Len(trials') : trials'[i].name = n
      BY <2>2, <2>4, <3>6
    <3>9. QED
      BY <3>2, <3>4, <3>7, <3>8 DEF Together
  <2>8. AffectedIs'
    BY <2>1 DEF AffectedIs, V!Idle
  <2>9. QED
    BY <1>5, <2>5, <2>6, <2>7, <2>8, OneMoves
<1>12. CASE Lives
  <2>1. V!Record(n, p, c) /\ trials' = trials
    BY <1>12
  <2>2. /\ \A m \in DOMAIN versions' : RecordTyped(versions[m])'
        /\ \A m : m # n => /\ m \in DOMAIN versions' <=> m \in DOMAIN versions
                           /\ m \in DOMAIN versions => versions'[m] = versions[m]
                           /\ m \in DOMAIN graph' <=> m \in DOMAIN graph
                           /\ m \in DOMAIN graph => graph'[m] = graph[m]
        /\ DOMAIN graph' = DOMAIN graph \cup {n}
        /\ AffectedIs'
        /\ /\ Chained(versionsMade, versions, n)
           /\ n \in DOMAIN versions => versions[n][Len(versions[n])] = p
           /\ Grows(versionsMade', p, c)
           => /\ Chained(versionsMade', versions', n)
              /\ Live(versionsMade', graph', versions', n, c)
    BY <1>2, <1>4, <1>5, <2>1, RecordKeeps
  <2>3. VersionsTyped'
    <3>1. TrialsTyped'
      BY <1>2, <1>5, <1>7, <1>8, <2>1, StayTyped DEF TrialsTyped
    <3>2. DOMAIN slots'.globals \subseteq DOMAIN graph' /\ DOMAIN graph' \subseteq Names
      BY <1>2, <1>3, <1>7, <2>2 DEF VersionsTyped
    <3>3. QED
      BY <1>5, <1>7, <2>2, <3>1, <3>2 DEF VersionsTyped, MadeStay
  <2>4. \A m \in Names : m # n => Aside(m)
    BY <1>7, <1>10, <2>1, <2>2 DEF Aside
  <2>5. Together(n)'
    <3> SUFFICES ASSUME n \notin disturbed' PROVE Together(n)'
      BY DEF Together
    <3>1. /\ place = "globals" /\ \A i \in 1 .. Len(trials) : trials[i].name # n
          /\ Live(versionsMade, graph, versions, n, p) /\ Chained(versionsMade, versions, n)
      BY <1>9
    <3>2. n \in DOMAIN slots'.globals /\ slots'.globals[n] = c
      BY <1>7, <3>1
    <3>3. Chained(versionsMade', versions', n) /\ Live(versionsMade', graph', versions', n, c)
      BY <1>6, <2>2, <3>1 DEF Live
    <3>4. QED
      BY <2>1, <3>1, <3>2, <3>3 DEF Together
  <2>6. QED
    BY <1>5, <2>2, <2>3, <2>4, <2>5, OneMoves
<1>13. QED
  BY <1>1, <1>11, <1>12

(* The innermost trial ends.                                               *)
LEMMA TrialEnds ==
  ASSUME VersionsInv, trials # <<>>, trials' = V!Front(trials), UNCHANGED <<versionsMade, disturbed>>
  PROVE  LET e == Len(trials)
             t == V!Last(trials)
         IN /\ e \in Nat /\ e \in 1 .. e /\ t = trials[e]
            /\ Listed(trials') /\ Len(trials') = e - 1
            /\ \A i \in 1 .. e - 1 : trials'[i] = trials[i]
            /\ \A i \in 1 .. Len(trials') : i \in 1 .. e /\ i # e /\ trials'[i] = trials[i]
            /\ \A i \in 1 .. e : i # e => i \in 1 .. Len(trials') /\ trials'[i] = trials[i]
            /\ t.name \in Names /\ t.place \in {"globals", "block"}
            /\ t.previous \in Version /\ t.candidate \in Version
            /\ t.place = "globals" => t.name \in DOMAIN slots.globals
            /\ MadeStay /\ Version' = Version
            /\ t.name \notin disturbed' =>
                 /\ t.place = "globals" /\ slots.globals[t.name] = t.candidate
                 /\ Live(versionsMade, graph, versions, t.name, t.previous)
                 /\ Grows(versionsMade, t.previous, t.candidate)
                 /\ Chained(versionsMade, versions, t.name)
                 /\ \A i \in 1 .. Len(trials') : trials'[i].name # t.name
<1> DEFINE e == Len(trials)
           t == trials[e]
<1>1. VersionsTyped /\ Listed(trials) /\ e \in Nat /\ DOMAIN trials = 1 .. e
  BY ListedLen DEF VersionsInv, VersionsTyped, TrialsTyped
<1>2. e # 0
  <2>1. trials \in Seq({trials[i] : i \in DOMAIN trials})
    BY <1>1 DEF Listed
  <2>2. QED
    BY <2>1, EmptySeq
<1>3. t = V!Last(trials) /\ trials' = SubSeq(trials, 1, e - 1)
  BY DEF V!Last, V!Front
<1>4. e - 1 \in 0 .. e /\ e \in 1 .. e
  BY <1>1, <1>2
<1>5. Listed(trials') /\ Len(trials') = e - 1 /\ \A i \in 1 .. e - 1 : trials'[i] = trials[i]
  BY <1>1, <1>3, <1>4, SubListed
<1>6. /\ \A i \in 1 .. e - 1 : i \in 1 .. e /\ i # e
      /\ \A i \in 1 .. e : i # e => i \in 1 .. e - 1
  <2>1. e \in Nat
    BY <1>1
  <2> HIDE DEF e
  <2>2. QED
    BY <2>1
<1>7. /\ t.name \in Names /\ t.place \in {"globals", "block"} /\ t.previous \in Version /\ t.candidate \in Version
      /\ t.place = "globals" => t.name \in DOMAIN slots.globals
  BY <1>1, <1>4 DEF VersionsTyped, TrialsTyped
<1>8. MadeStay /\ Version' = Version
  BY <1>1, UnchangedStay DEF VersionsTyped, Version
<1>9. ASSUME t.name \notin disturbed'
      PROVE  /\ t.place = "globals" /\ slots.globals[t.name] = t.candidate
             /\ Live(versionsMade, graph, versions, t.name, t.previous)
             /\ Grows(versionsMade, t.previous, t.candidate)
             /\ Chained(versionsMade, versions, t.name)
             /\ \A i \in 1 .. Len(trials') : trials'[i].name # t.name
  <2>1. t.name \notin disturbed /\ Together(t.name)
    BY <1>7, <1>9 DEF VersionsInv
  <2>2. Tried(e) /\ Chained(versionsMade, versions, t.name)
    BY <2>1, <1>4 DEF Together
  <2>3. QED
    BY <2>2, <1>5, <1>6 DEF Tried
<1>10. QED
  BY <1>1, <1>3, <1>4, <1>5, <1>6, <1>7, <1>8, <1>9

LEMMA TrialPassesKeeps ==
  ASSUME VersionsInv, V!TrialPasses
  PROVE  VersionsInv'
<1>0. PICK t : t = V!Last(trials)
  OBVIOUS
<1> DEFINE e == Len(trials)
           n == t.name
<1>1. /\ trials # <<>> /\ trials' = V!Front(trials) /\ UNCHANGED <<versionsMade, slots, disturbed>>
      /\ V!Record(n, t.previous, t.candidate)
  BY <1>0 DEF V!TrialPasses
<1>2. /\ e \in Nat /\ e \in 1 .. e /\ t = trials[e]
      /\ Listed(trials')
      /\ \A i \in 1 .. Len(trials') : i \in 1 .. e /\ i # e /\ trials'[i] = trials[i]
      /\ \A i \in 1 .. e : i # e => i \in 1 .. Len(trials') /\ trials'[i] = trials[i]
      /\ n \in Names /\ t.previous \in Version /\ t.candidate \in Version
      /\ t.place \in {"globals", "block"} /\ (t.place = "globals" => n \in DOMAIN slots.globals)
      /\ MadeStay /\ Version' = Version
  BY <1>0, <1>1, TrialEnds
<1>3. n \notin disturbed' =>
        /\ t.place = "globals" /\ slots.globals[n] = t.candidate
        /\ Live(versionsMade, graph, versions, n, t.previous)
        /\ Grows(versionsMade, t.previous, t.candidate)
        /\ Chained(versionsMade, versions, n)
        /\ \A i \in 1 .. Len(trials') : trials'[i].name # n
  BY <1>0, <1>1, TrialEnds
<1>4. VersionsTyped
  BY DEF VersionsInv
<1>5. /\ \A m \in DOMAIN versions' : RecordTyped(versions[m])'
      /\ \A m : m # n => /\ m \in DOMAIN versions' <=> m \in DOMAIN versions
                         /\ m \in DOMAIN versions => versions'[m] = versions[m]
                         /\ m \in DOMAIN graph' <=> m \in DOMAIN graph
                         /\ m \in DOMAIN graph => graph'[m] = graph[m]
      /\ DOMAIN graph' = DOMAIN graph \cup {n}
      /\ AffectedIs'
      /\ /\ Chained(versionsMade, versions, n)
         /\ n \in DOMAIN versions => versions[n][Len(versions[n])] = t.previous
         /\ Grows(versionsMade', t.previous, t.candidate)
         => /\ Chained(versionsMade', versions', n)
            /\ Live(versionsMade', graph', versions', n, t.candidate)
  BY <1>1, <1>2, <1>4, RecordKeeps
<1>6. VersionsTyped'
  <2>1. TrialsTyped'
    BY <1>1, <1>2, <1>4 DEF TrialsTyped, VersionsTyped
  <2>2. SlotsTyped'
    BY <1>1, <1>2, <1>4 DEF SlotsTyped, VersionsTyped
  <2>3. DOMAIN slots'.globals \subseteq DOMAIN graph' /\ DOMAIN graph' \subseteq Names
    BY <1>1, <1>2, <1>4, <1>5 DEF VersionsTyped
  <2>4. QED
    BY <1>2, <1>5, <2>1, <2>2, <2>3 DEF VersionsTyped, MadeStay
<1>7. \A m \in Names : m # n => Aside(m)
  <2> SUFFICES ASSUME NEW m \in Names, m # n PROVE Aside(m)
    OBVIOUS
  <2>1. \A i \in 1 .. e : trials[i].name = m => i \in 1 .. Len(trials') /\ trials'[i] = trials[i]
    BY <1>2
  <2>2. QED
    BY <1>1, <1>2, <1>5, <2>1 DEF Aside
<1>8. Together(n)'
  <2> SUFFICES ASSUME n \notin disturbed' PROVE n \notin disturbed' =>
    /\ \A i \in 1 .. Len(trials') : trials'[i].name # n
    /\ n \in DOMAIN slots'.globals
    /\ Live(versionsMade', graph', versions', n, slots'.globals[n])
    /\ Chained(versionsMade', versions', n)
    BY DEF Together
  <2>1. QED
    BY <1>1, <1>2, <1>3, <1>5 DEF Live
<1>9. QED
  BY <1>2, <1>5, <1>6, <1>7, <1>8, OneMoves

LEMMA TrialFailsKeeps ==
  ASSUME VersionsInv, V!TrialFails
  PROVE  VersionsInv'
<1>0. PICK t : t = V!Last(trials)
  OBVIOUS
<1> DEFINE e == Len(trials)
           n == t.name
<1>1. /\ trials # <<>> /\ trials' = V!Front(trials) /\ UNCHANGED <<versionsMade, versions, graph, disturbed>>
      /\ slots' = V!Set(t.place, n, t.previous) /\ affected' = V!Idle
  BY <1>0 DEF V!TrialFails, V!Restored
<1>2. /\ e \in Nat /\ e \in 1 .. e /\ t = trials[e]
      /\ Listed(trials')
      /\ \A i \in 1 .. Len(trials') : i \in 1 .. e /\ i # e /\ trials'[i] = trials[i]
      /\ \A i \in 1 .. e : i # e => i \in 1 .. Len(trials') /\ trials'[i] = trials[i]
      /\ n \in Names /\ t.previous \in Version /\ t.candidate \in Version
      /\ t.place \in {"globals", "block"} /\ (t.place = "globals" => n \in DOMAIN slots.globals)
      /\ MadeStay /\ Version' = Version
  BY <1>0, <1>1, TrialEnds
<1>3. n \notin disturbed' =>
        /\ t.place = "globals"
        /\ Live(versionsMade, graph, versions, n, t.previous)
        /\ Chained(versionsMade, versions, n)
        /\ \A i \in 1 .. Len(trials') : trials'[i].name # n
  BY <1>0, <1>1, TrialEnds
<1>4. VersionsTyped /\ SlotsTyped
  BY DEF VersionsInv, VersionsTyped
<1>5. /\ SlotsTyped' /\ DOMAIN slots.globals \subseteq DOMAIN slots'.globals
      /\ \A m : m # n => /\ m \in DOMAIN slots'.globals <=> m \in DOMAIN slots.globals
                         /\ m \in DOMAIN slots.globals => slots'.globals[m] = slots.globals[m]
      /\ t.place = "globals" => /\ DOMAIN slots'.globals = DOMAIN slots.globals \cup {n}
                                /\ slots'.globals[n] = t.previous
      /\ t.place = "block" => slots'.globals = slots.globals
  BY <1>1, <1>2, <1>4, SetTyped
<1>6. VersionsTyped'
  <2>1. TrialsTyped'
    BY <1>2, <1>4, <1>5 DEF TrialsTyped, VersionsTyped
  <2>2. DOMAIN slots'.globals \subseteq DOMAIN graph' /\ DOMAIN graph' \subseteq Names
    BY <1>1, <1>2, <1>4, <1>5 DEF VersionsTyped
  <2>3. QED
    BY <1>1, <1>2, <1>4, <1>5, <2>1, <2>2 DEF VersionsTyped, RecordTyped, MadeStay
<1>7. \A m \in Names : m # n => Aside(m)
  <2> SUFFICES ASSUME NEW m \in Names, m # n PROVE Aside(m)
    OBVIOUS
  <2>1. \A i \in 1 .. e : trials[i].name = m => i \in 1 .. Len(trials') /\ trials'[i] = trials[i]
    BY <1>2
  <2>2. QED
    BY <1>1, <1>2, <1>5, <2>1 DEF Aside
<1>8. Together(n)'
  <2> SUFFICES ASSUME n \notin disturbed' PROVE n \notin disturbed' =>
    /\ \A i \in 1 .. Len(trials') : trials'[i].name # n
    /\ n \in DOMAIN slots'.globals
    /\ Live(versionsMade', graph', versions', n, slots'.globals[n])
    /\ Chained(versionsMade', versions', n)
    BY DEF Together
  <2>1. QED
    BY <1>1, <1>3, <1>5
<1>9. AffectedIs'
  BY <1>1 DEF AffectedIs, V!Idle
<1>10. QED
  BY <1>2, <1>6, <1>7, <1>8, <1>9, OneMoves

LEMMA RollbackKeeps ==
  ASSUME VersionsInv, NEW n \in Names, V!Rollback(n)
  PROVE  VersionsInv'
<1> DEFINE place == V!Place(n)
           r == versions[n]
           s == versions'[n]
           p == V!Last(s)
           Found == /\ slots' = V!Set(place, n, p)
                    /\ graph' = V!With(graph, n, versionsMade[p].callees)
<1>1. /\ n \in DOMAIN versions /\ Len(r) >= 2 /\ versions' = [versions EXCEPT ![n] = V!Front(@)]
      /\ IF n \in DOMAIN slots[place] THEN Found ELSE UNCHANGED <<slots, graph>>
      /\ disturbed' = IF place = "block" \/ n \in V!OnTrial \/ n \notin DOMAIN slots[place]
                      THEN disturbed \cup {n} ELSE disturbed
      /\ affected' = V!Idle /\ UNCHANGED <<versionsMade, trials>>
  BY DEF V!Rollback, V!Recorded, V!Bound
<1>2. VersionsTyped /\ SlotsTyped /\ Together(n)
  BY DEF VersionsInv, VersionsTyped
<1>3. place \in {"globals", "block"}
  BY PlaceIs
<1>4. MadeStay /\ Version' = Version
  BY <1>1, <1>2, UnchangedStay DEF VersionsTyped, Version
<1>5. RecordTyped(r) /\ Len(r) \in Nat /\ Listed(trials) /\ DOMAIN trials = 1 .. Len(trials)
  BY <1>1, <1>2, ListedLen DEF VersionsTyped, RecordTyped, TrialsTyped
<1>6. /\ DOMAIN versions' = DOMAIN versions /\ s = SubSeq(r, 1, Len(r) - 1)
      /\ \A m \in DOMAIN versions : m # n => versions'[m] = versions[m]
  BY <1>1 DEF V!Front
<1> HIDE DEF place, r, s
<1>7. /\ Listed(s) /\ Len(s) = Len(r) - 1 /\ Len(s) >= 1
      /\ \A i \in 1 .. Len(s) : s[i] = r[i]
  <2>1. Len(r) - 1 \in 0 .. Len(r) /\ Len(r) - 1 >= 1
    BY <1>1, <1>5
  <2>2. Listed(r)
    BY <1>5 DEF RecordTyped
  <2>3. /\ Listed(SubSeq(r, 1, Len(r) - 1)) /\ Len(SubSeq(r, 1, Len(r) - 1)) = Len(r) - 1
        /\ \A i \in 1 .. Len(r) - 1 : SubSeq(r, 1, Len(r) - 1)[i] = r[i]
    BY <2>1, <2>2, SubListed
  <2>4. QED
    BY <1>6, <2>1, <2>3
<1>8. (\A i \in 1 .. Len(s) : s[i] \in Version) /\ p = s[Len(s)] /\ p \in Version
  <2>1. \A i \in 1 .. Len(s) : i \in 1 .. Len(r)
    BY <1>5, <1>7
  <2>2. Len(s) \in 1 .. Len(s)
    BY <1>5, <1>7
  <2>3. QED
    BY <1>5, <1>7, <2>1, <2>2 DEF RecordTyped, V!Last
<1> HIDE DEF p
<1>9. /\ SlotsTyped' /\ DOMAIN slots.globals \subseteq DOMAIN slots'.globals
      /\ DOMAIN slots'.globals \subseteq DOMAIN graph' /\ DOMAIN graph' \subseteq Names
      /\ \A m : m # n => /\ m \in DOMAIN slots'.globals <=> m \in DOMAIN slots.globals
                         /\ m \in DOMAIN slots.globals => slots'.globals[m] = slots.globals[m]
                         /\ m \in DOMAIN graph' <=> m \in DOMAIN graph
                         /\ m \in DOMAIN graph => graph'[m] = graph[m]
      /\ n \notin disturbed' =>
           n \in DOMAIN slots'.globals /\ slots'.globals[n] = p /\ graph'[n] = versionsMade[p].callees
  <2>1. CASE n \in DOMAIN slots[place]
    <3>1. /\ SlotsTyped' /\ DOMAIN slots.globals \subseteq DOMAIN slots'.globals
          /\ \A m : m # n => /\ m \in DOMAIN slots'.globals <=> m \in DOMAIN slots.globals
                             /\ m \in DOMAIN slots.globals => slots'.globals[m] = slots.globals[m]
          /\ place = "globals" => /\ DOMAIN slots'.globals = DOMAIN slots.globals \cup {n}
                                  /\ slots'.globals[n] = p
          /\ place = "block" => slots'.globals = slots.globals
      BY <1>1, <1>2, <1>3, <1>4, <1>8, <2>1, SetTyped
    <3>2. /\ DOMAIN graph' = DOMAIN graph \cup {n} /\ graph'[n] = versionsMade[p].callees
          /\ \A m \in DOMAIN graph : m # n => graph'[m] = graph[m]
      BY <1>1, <2>1 DEF V!With
    <3>3. n \notin disturbed' => place = "globals"
      BY <1>1, <1>3
    <3>4. DOMAIN slots'.globals \subseteq DOMAIN graph' /\ DOMAIN graph' \subseteq Names
      BY <1>2, <1>3, <3>1, <3>2 DEF VersionsTyped
    <3>5. QED
      BY <3>1, <3>2, <3>3, <3>4
  <2>2. CASE n \notin DOMAIN slots[place]
    <3>1. UNCHANGED <<slots, graph>> /\ n \in disturbed'
      BY <1>1, <2>2
    <3>2. QED
      BY <3>1, <1>2, <1>4 DEF SlotsTyped, VersionsTyped
  <2>3. QED
    BY <2>1, <2>2
<1>10. VersionsTyped'
  <2>1. TrialsTyped'
    BY <1>1, <1>2, <1>4, <1>9 DEF TrialsTyped, VersionsTyped
  <2>2. \A m \in DOMAIN versions' : RecordTyped(versions[m])'
    <3> TAKE m \in DOMAIN versions'
    <3>1. CASE m = n
      BY <3>1, <1>4, <1>7, <1>8 DEF RecordTyped, s
    <3>2. CASE m # n
      BY <3>2, <1>2, <1>4, <1>6 DEF RecordTyped, VersionsTyped
    <3>3. QED
      BY <3>1, <3>2
  <2>3. QED
    BY <1>4, <1>9, <2>1, <2>2 DEF VersionsTyped, MadeStay
<1>11. \A m \in Names : m # n => Aside(m)
  BY <1>1, <1>6, <1>9 DEF Aside
<1>12. Together(n)'
  <2> SUFFICES ASSUME n \notin disturbed' PROVE n \notin disturbed' =>
    /\ \A i \in 1 .. Len(trials') : trials'[i].name # n
    /\ n \in DOMAIN slots'.globals
    /\ Live(versionsMade', graph', versions', n, slots'.globals[n])
    /\ Chained(versionsMade', versions', n)
    BY DEF Together
  <2>1. n \notin V!OnTrial /\ n \notin disturbed
    BY <1>1
  <2>2. \A i \in 1 .. Len(trials') : trials'[i].name # n
    BY <1>1, <1>5, <2>1 DEF V!OnTrial
  <2>3. Live(versionsMade', graph', versions', n, slots'.globals[n])
    BY <1>1, <1>8, <1>9 DEF Live, s
  <2>4. \A i \in 1 .. Len(s) - 1 : Grows(versionsMade', s[i], s[i + 1])
    <3> TAKE i \in 1 .. Len(s) - 1
    <3>1. i \in 1 .. Len(r) - 1 /\ i \in 1 .. Len(s) /\ i + 1 \in 1 .. Len(s)
      BY <1>5, <1>7
    <3>2. Grows(versionsMade, r[i], r[i + 1])
      BY <1>1, <1>2, <2>1, <3>1 DEF Together, Chained, r
    <3>3. QED
      BY <1>1, <1>7, <3>1, <3>2
  <2>5. QED
    BY <1>9, <2>2, <2>3, <2>4 DEF Chained, s
<1>13. AffectedIs'
  BY <1>1 DEF AffectedIs, V!Idle
<1>14. QED
  BY <1>4, <1>10, <1>11, <1>12, <1>13, OneMoves

LEMMA VersionsNext == VersionsInv /\ [V!Next]_versionVars => VersionsInv'
<1> SUFFICES ASSUME VersionsInv, [V!Next]_versionVars PROVE VersionsInv'
  OBVIOUS
<1>1. CASE \E n \in Names, v \in Written : V!Declare(n, v)
  BY <1>1, DeclareKeeps
<1>2. CASE \E n \in Names, v \in Written : V!Redefine(n, v)
  BY <1>2, RedefineKeeps
<1>3. CASE V!EnterBlock \/ V!LeaveBlock
  BY <1>3, BlockKeeps
<1>4. CASE V!TrialPasses
  BY <1>4, TrialPassesKeeps
<1>5. CASE V!TrialFails
  BY <1>5, TrialFailsKeeps
<1>6. CASE \E n \in Names : V!Rollback(n)
  BY <1>6, RollbackKeeps
<1>7. CASE UNCHANGED versionVars
  BY <1>7 DEF versionVars, VersionsInv, VersionsTyped, SlotsTyped, TrialsTyped, RecordTyped, Version,
              Together, Tried, AffectedIs
<1>8. QED
  BY <1>1, <1>2, <1>3, <1>4, <1>5, <1>6, <1>7 DEF V!Next

LEMMA AffectedMeans == VersionsInv => V!AffectedAreCallers
<1> DEFINE G == DOMAIN slots.globals
           x == affected.name
           Chains(m, k) == \E path \in [0 .. k -> G] :
             path[0] = m /\ path[k] = x /\ \A i \in 1 .. k : V!Calls(path[i - 1], path[i])
           Far == {m \in G : \E k \in 1 .. Cardinality(Names) : Chains(m, k)}
<1>1. SUFFICES ASSUME VersionsInv, affected # V!Idle, disturbed \cup V!OnTrial = {}
               PROVE  affected.names = Far
  <2>1. Cardinality(Names) = V!Cardinality(Names)
    BY DEF V!Cardinality, Cardinality
  <2>2. QED
    BY <2>1 DEF V!AffectedAreCallers
<1>2. VersionsTyped /\ x \in DOMAIN graph /\ affected.names = V!dependents(graph, x)
  BY <1>1 DEF VersionsInv, AffectedIs
<1>3. \A n \in Names : n \notin disturbed /\ \A i \in 1 .. Len(trials) : trials[i].name # n
  <2>1. DOMAIN trials = 1 .. Len(trials)
    BY <1>2, ListedLen DEF VersionsTyped, TrialsTyped
  <2>2. QED
    BY <1>1, <2>1 DEF V!OnTrial
<1>4. DOMAIN graph = G /\ DOMAIN graph \subseteq Names
  BY <1>1, <1>2, <1>3 DEF VersionsInv, VersionsTyped, Together
<1>5. \A n \in G : graph[n] = versionsMade[slots.globals[n]].callees
  BY <1>1, <1>3, <1>4 DEF VersionsInv, Together, Live
<1>6. IsFiniteSet(Names)
  BY RuntimeAssumption DEF V!VersionsAssumption, V!IsFiniteSet, IsFiniteSet
<1>7. /\ IsFiniteSet(DOMAIN graph)
      /\ Cardinality(DOMAIN graph) \in Nat /\ Cardinality(Names) \in Nat
      /\ Cardinality(DOMAIN graph) <= Cardinality(Names)
  BY <1>4, <1>6, FS_Subset, FS_CardinalityType
<1>8. \A k \in Nat : \A m : Chains(m, k) <=> Leads(graph, m, k, x)
  <2> TAKE k \in Nat
  <2> TAKE m
  <2>1. ASSUME NEW path \in [0 .. k -> G]
        PROVE  \A i \in 1 .. k : V!Calls(path[i - 1], path[i]) <=> path[i] \in graph[path[i - 1]]
    <3> TAKE i \in 1 .. k
    <3>1. i - 1 \in 0 .. k
      OBVIOUS
    <3>2. path[i - 1] \in G
      BY <2>1, <3>1
    <3>3. QED
      BY <3>2, <1>5 DEF V!Calls
  <2>2. QED
    BY <2>1, <1>4 DEF Leads, IsChain
<1> HIDE DEF x, G
<1>9. affected.names \subseteq Far
  <2> SUFFICES ASSUME NEW m \in affected.names PROVE m \in Far
    OBVIOUS
  <2>1. m \in DOMAIN graph /\ \E k \in 1 .. Cardinality(DOMAIN graph) : Leads(graph, m, k, x)
    BY <1>2, <1>7, DependentsLead
  <2>2. PICK k \in 1 .. Cardinality(DOMAIN graph) : Leads(graph, m, k, x)
    BY <2>1
  <2>3. k \in Nat /\ k \in 1 .. Cardinality(Names)
    BY <1>7
  <2>4. Chains(m, k)
    BY <1>8, <2>2, <2>3
  <2> HIDE DEF Chains
  <2>5. QED
    BY <2>1, <2>3, <2>4, <1>4
<1>10. Far \subseteq affected.names
  <2> SUFFICES ASSUME NEW m \in Far PROVE m \in affected.names
    OBVIOUS
  <2> HIDE DEF Chains
  <2>1. PICK k \in 1 .. Cardinality(Names) : Chains(m, k)
    OBVIOUS
  <2>2. k \in Nat /\ k # 0
    BY <1>7
  <2>3. Leads(graph, m, k, x)
    BY <1>8, <2>1, <2>2
  <2>4. QED
    BY <1>2, <1>7, <2>2, <2>3, DependentsLead
<1>11. QED
  BY <1>9, <1>10

LEMMA VersionsInvMeans == VersionsInv => V!RecordsTell
<1> SUFFICES ASSUME VersionsInv PROVE V!RecordsTell
  OBVIOUS
<1>1. VersionsTyped
  BY DEF VersionsInv
<1>2. DOMAIN trials = 1 .. Len(trials)
  BY <1>1, ListedLen DEF VersionsTyped, TrialsTyped
<1>3. ASSUME NEW n \in Names, V!Settled(n)
      PROVE  /\ graph[n] = versionsMade[slots.globals[n]].callees
             /\ V!Recorded(n) =>
                  /\ V!Last(versions[n]) = slots.globals[n]
                  /\ \A i \in 1 .. Len(versions[n]) - 1 : Grows(versionsMade, versions[n][i], versions[n][i + 1])
  <2>1. /\ n \notin disturbed /\ n \in DOMAIN slots.globals
        /\ \A i \in 1 .. Len(trials) : trials[i].name # n
    BY <1>2, <1>3 DEF V!Settled, V!OnTrial
  <2>2. Live(versionsMade, graph, versions, n, slots.globals[n]) /\ Chained(versionsMade, versions, n)
    BY <2>1 DEF VersionsInv, Together
  <2>3. QED
    BY <2>2 DEF Live, Chained, V!Recorded, V!Last
<1>4. QED
  BY <1>3, AffectedMeans DEF V!RecordsTell, Grows

(* The records of redefine and rollback and the call graph tell what is    *)
(* live, through any sequence of redefinitions, trials and rollbacks, for  *)
(* any functions and names.                                                *)
THEOREM RecordsTrue == Spec => []RecordsTell
<1>1. Init => VersionsInv
  BY VersionsInit DEF Init, PartsInit
<1>2. [Next]_runtimeVars => [V!Next]_versionVars
  BY DEF Next, runtimeVars, stateVars, versionVars
<1>3. VersionsInv /\ [Next]_runtimeVars => VersionsInv'
  BY <1>2, VersionsNext
<1>4. VersionsInv => RecordsTell
  BY VersionsInvMeans DEF RecordsTell
<1>5. QED
  BY <1>1, <1>3, <1>4, PTL DEF Spec, runtimeVars

-----------------------------------------------------------------------------
(* Logical clocks. *)

(* Clocks that know of the first k events at most.                         *)
ClocksOf(k) == [node : Nodes, counter : Nat, knows : SUBSET (1 .. k)]

ClocksTyped ==
  /\ events \in Seq([counter : Nat, node : Nodes, past : SUBSET Nat])
  /\ \A f \in DOMAIN events : events[f].past \subseteq 1 .. (f - 1)
  /\ \A h \in DOMAIN clocks : clocks[h] \in ClocksOf(Len(events))
  /\ \A h \in DOMAIN kept : kept[h] \in ClocksOf(Len(events))

(* Of two variables, each holds the other's clock or neither does.         *)
AlikeAre ==
  /\ DOMAIN alike = DOMAIN clocks
  /\ \A h \in DOMAIN clocks :
       /\ h \in alike[h] /\ alike[h] \subseteq DOMAIN clocks
       /\ \A g \in alike[h] : alike[g] = alike[h] /\ clocks[g] = clocks[h]

(* A clock is not behind what it knows, nor an event behind its past.      *)
NotBehind(c) == \A e \in c.knows : events[e].counter <= c.counter
Causes == \A f \in DOMAIN events : \A e \in events[f].past : events[e].counter < events[f].counter

(* A node that had one clock at a time: the clock is the latest and knows  *)
(* all that it stamped; a saved one knows what was stamped up to its count.*)
OneClock ==
  \A h \in DOMAIN clocks : clocks[h].node \notin twice =>
    /\ \A g \in DOMAIN clocks : clocks[g].node = clocks[h].node => g \in alike[h]
    /\ \A g \in DOMAIN kept : kept[g].node = clocks[h].node => kept[g].counter <= clocks[h].counter
    /\ \A e \in DOMAIN events : events[e].node = clocks[h].node => e \in clocks[h].knows
KeptKnow ==
  \A h \in DOMAIN kept : kept[h].node \notin twice =>
    \A e \in DOMAIN events :
      events[e].node = kept[h].node /\ events[e].counter <= kept[h].counter => e \in kept[h].knows

InOrder ==
  \A e, f \in DOMAIN events :
    e < f /\ events[e].node = events[f].node /\ events[e].node \notin twice => e \in events[f].past

ClocksInv ==
  /\ ClocksTyped /\ AlikeAre /\ Causes /\ OneClock /\ KeptKnow /\ InOrder
  /\ \A h \in DOMAIN clocks : NotBehind(clocks[h])
  /\ \A h \in DOMAIN kept : NotBehind(kept[h])

LEMMA ClocksInvMeans == ClocksInv => C!CausesFirst /\ C!NodesInOrder
<1> SUFFICES ASSUME ClocksInv PROVE C!CausesFirst /\ C!NodesInOrder
  OBVIOUS
<1>1. C!CausesFirst
  BY DEF C!CausesFirst, C!Before, ClocksInv, Causes
<1>2. ASSUME NEW e \in DOMAIN events, NEW f \in DOMAIN events,
             e < f, events[e].node = events[f].node, events[e].node \notin twice
      PROVE  e \in events[f].past /\ C!Before(events[e], events[f])
  <2>1. e \in events[f].past
    BY <1>2 DEF ClocksInv, InOrder
  <2>2. QED
    BY <2>1, <1>1 DEF C!CausesFirst
<1>3. QED
  BY <1>1, <1>2 DEF C!NodesInOrder

LEMMA EventsAre ==
  ASSUME ClocksTyped
  PROVE  /\ DOMAIN events = 1 .. Len(events) /\ Len(events) \in Nat
         /\ \A k \in DOMAIN events : events[k].counter \in Nat /\ events[k].node \in Nodes
<1> DEFINE E == [counter : Nat, node : Nodes, past : SUBSET Nat]
<1>1. events \in Seq(E)
  BY DEF ClocksTyped
<1> HIDE DEF E
<1>2. DOMAIN events = 1 .. Len(events) /\ Len(events) \in Nat /\ \A k \in DOMAIN events : events[k] \in E
  BY <1>1
<1>3. \A x \in E : x.counter \in Nat /\ x.node \in Nodes
  BY DEF E
<1>4. QED
  BY <1>2, <1>3

LEMMA ClocksInit == C!Init => ClocksInv
<1> SUFFICES ASSUME C!Init PROVE ClocksInv
  OBVIOUS
<1>1. /\ DOMAIN clocks = {} /\ DOMAIN alike = {} /\ DOMAIN kept = {}
      /\ DOMAIN events = {} /\ events = <<>>
  BY DEF C!Init
<1>2. ClocksTyped
  BY <1>1 DEF ClocksTyped
<1>3. QED
  BY <1>1, <1>2 DEF ClocksInv, AlikeAre, Causes, OneClock, KeptKnow, InOrder

LEMMA HoldAlike ==
  ASSUME AlikeAre, NEW hs, NEW c, C!Hold(hs, c)
  PROVE  AlikeAre'
<1>1. /\ DOMAIN clocks' = DOMAIN clocks \cup hs
      /\ DOMAIN alike' = DOMAIN clocks \cup hs
      /\ \A h \in hs : clocks'[h] = c /\ alike'[h] = hs
      /\ \A h \in DOMAIN clocks \ hs : clocks'[h] = clocks[h] /\ alike'[h] = alike[h] \ hs
  BY DEF C!Hold, C!Held
<1>2. ASSUME NEW h \in DOMAIN clocks'
      PROVE  /\ h \in alike'[h] /\ alike'[h] \subseteq DOMAIN clocks'
             /\ \A g \in alike'[h] : alike'[g] = alike'[h] /\ clocks'[g] = clocks'[h]
  <2>1. CASE h \in hs
    BY <1>1, <2>1
  <2>2. CASE h \notin hs
    BY <1>1, <2>2 DEF AlikeAre
  <2>3. QED
    BY <2>1, <2>2
<1>3. QED
  BY <1>1, <1>2 DEF AlikeAre

(* What neither stamps nor saves keeps what is said of events and of what  *)
(* was saved.                                                              *)
LEMMA EventsStay ==
  ASSUME ClocksInv, UNCHANGED <<events, kept>>, twice \subseteq twice', AlikeAre', OneClock',
         \A h \in DOMAIN clocks' : clocks'[h] \in ClocksOf(Len(events)) /\ NotBehind(clocks'[h])
  PROVE  ClocksInv'
<1>1. ClocksTyped'
  BY DEF ClocksInv, ClocksTyped
<1>2. Causes' /\ KeptKnow' /\ InOrder'
  BY DEF ClocksInv, Causes, KeptKnow, InOrder
<1>3. /\ \A h \in DOMAIN clocks' : NotBehind(clocks[h])'
      /\ \A h \in DOMAIN kept' : NotBehind(kept[h])'
  BY DEF ClocksInv, NotBehind
<1>4. QED
  BY <1>1, <1>2, <1>3 DEF ClocksInv

LEMMA NewKeeps ==
  ASSUME ClocksInv, NEW h, NEW n \in Nodes, C!New(h, n)
  PROVE  ClocksInv'
<1>1. /\ DOMAIN clocks' = DOMAIN clocks \cup {h}
      /\ clocks'[h] = C!Clock(n) /\ alike'[h] = {h}
      /\ \A g \in DOMAIN clocks \ {h} : clocks'[g] = clocks[g] /\ alike'[g] = alike[g] \ {h}
      /\ UNCHANGED <<events, kept>> /\ twice \subseteq twice'
  BY DEF C!New, C!Hold, C!Held
<1>2. /\ AlikeAre /\ OneClock /\ ClocksTyped
      /\ \A g \in DOMAIN clocks : NotBehind(clocks[g])
  BY DEF ClocksInv
<1>3. AlikeAre'
  BY <1>2, HoldAlike DEF C!New
<1>4. \A g \in DOMAIN clocks' : clocks'[g] \in ClocksOf(Len(events)) /\ NotBehind(clocks'[g])
  BY <1>1, <1>2 DEF ClocksTyped, ClocksOf, NotBehind, C!Clock
<1>5. n \notin twice' => /\ \A g \in DOMAIN clocks : clocks[g].node # n
                         /\ \A g \in DOMAIN kept : kept[g].node # n
                         /\ \A e \in DOMAIN events : events[e].node # n
  BY DEF C!New, C!Stamped, C!Held
<1>6. ASSUME NEW g \in DOMAIN clocks', clocks'[g].node \notin twice'
      PROVE  /\ \A k \in DOMAIN clocks' : clocks'[k].node = clocks'[g].node => k \in alike'[g]
             /\ \A k \in DOMAIN kept' : kept'[k].node = clocks'[g].node => kept'[k].counter <= clocks'[g].counter
             /\ \A e \in DOMAIN events' : events'[e].node = clocks'[g].node => e \in clocks'[g].knows
  <2>1. CASE g = h
    BY <1>1, <1>5, <1>6, <2>1 DEF C!Clock
  <2>2. CASE g # h
    <3>1. g \in DOMAIN clocks /\ clocks'[g] = clocks[g] /\ clocks[g].node \notin twice
      BY <1>1, <1>6, <2>2
    <3>2. clocks[g].node # n
      BY <1>5, <1>6, <3>1
    <3>3. QED
      BY <1>1, <1>2, <2>2, <3>1, <3>2 DEF OneClock, C!Clock
  <2>3. QED
    BY <2>1, <2>2
<1>7. OneClock'
  BY <1>6 DEF OneClock
<1>8. QED
  BY <1>1, <1>3, <1>4, <1>7, EventsStay

LEMMA ShareKeeps ==
  ASSUME ClocksInv, NEW h, NEW g, C!Share(h, g)
  PROVE  ClocksInv'
<1> DEFINE hs == alike[h] \cup {g}
<1>1. /\ h \in DOMAIN clocks /\ DOMAIN clocks' = DOMAIN clocks \cup hs
      /\ \A k \in hs : clocks'[k] = clocks[h] /\ alike'[k] = hs
      /\ \A k \in DOMAIN clocks \ hs : clocks'[k] = clocks[k] /\ alike'[k] = alike[k] \ hs
      /\ UNCHANGED <<events, kept, twice>>
  BY DEF C!Share, C!Hold, C!Held
<1>2. /\ AlikeAre /\ OneClock /\ ClocksTyped
      /\ \A k \in DOMAIN clocks : NotBehind(clocks[k])
  BY DEF ClocksInv
<1>3. AlikeAre'
  BY <1>2, HoldAlike DEF C!Share
<1>4. \A k \in DOMAIN clocks' : clocks'[k] \in ClocksOf(Len(events)) /\ NotBehind(clocks'[k])
  BY <1>1, <1>2 DEF ClocksTyped
<1>5. ASSUME NEW k \in DOMAIN clocks', clocks'[k].node \notin twice'
      PROVE  /\ \A j \in DOMAIN clocks' : clocks'[j].node = clocks'[k].node => j \in alike'[k]
             /\ \A j \in DOMAIN kept' : kept'[j].node = clocks'[k].node => kept'[j].counter <= clocks'[k].counter
             /\ \A e \in DOMAIN events' : events'[e].node = clocks'[k].node => e \in clocks'[k].knows
  <2>1. CASE k \in hs
    BY <1>1, <1>2, <1>5, <2>1 DEF OneClock
  <2>2. CASE k \notin hs
    <3>1. k \in DOMAIN clocks /\ clocks'[k] = clocks[k] /\ alike'[k] = alike[k] \ hs
      BY <1>1, <2>2
    <3>2. clocks[k].node # clocks[h].node
      BY <1>1, <1>2, <1>5, <2>2, <3>1 DEF OneClock
    <3>3. QED
      BY <1>1, <1>2, <1>5, <3>1, <3>2 DEF OneClock
  <2>3. QED
    BY <2>1, <2>2
<1>6. OneClock'
  BY <1>5 DEF OneClock
<1>7. QED
  BY <1>1, <1>3, <1>4, <1>6, EventsStay

LEMMA ObserveKeeps ==
  ASSUME ClocksInv, NEW h, NEW e \in DOMAIN events, C!observe(h, e)
  PROVE  ClocksInv'
<1> DEFINE c == [node |-> clocks[h].node, counter |-> C!Observed(h, e),
                 knows |-> clocks[h].knows \cup C!Told(e)]
<1>1. /\ AlikeAre /\ OneClock /\ ClocksTyped /\ Causes
      /\ \A k \in DOMAIN clocks : NotBehind(clocks[k])
  BY DEF ClocksInv
<1>2. /\ h \in DOMAIN clocks /\ alike[h] \subseteq DOMAIN clocks /\ DOMAIN clocks' = DOMAIN clocks
      /\ \A k \in alike[h] : clocks'[k] = c /\ alike'[k] = alike[h]
      /\ \A k \in DOMAIN clocks \ alike[h] : clocks'[k] = clocks[k] /\ alike'[k] = alike[k] \ alike[h]
      /\ UNCHANGED <<events, kept, twice>>
  BY <1>1 DEF C!observe, C!Hold, C!Held, AlikeAre
<1>3. AlikeAre'
  BY <1>1, HoldAlike DEF C!observe
<1>4. /\ clocks[h] \in ClocksOf(Len(events)) /\ e \in 1 .. Len(events) /\ Len(events) \in Nat
      /\ events[e].counter \in Nat /\ events[e].past \subseteq 1 .. (e - 1)
      /\ \A k \in 1 .. Len(events) : events[k].counter \in Nat
  BY <1>1, <1>2, EventsAre DEF ClocksTyped
<1>5. /\ c \in ClocksOf(Len(events)) /\ c.node = clocks[h].node
      /\ c.counter = C!Observed(h, e) /\ c.knows = clocks[h].knows \cup events[e].past \cup {e}
      /\ clocks[h].counter \in Nat /\ c.counter \in Nat
      /\ clocks[h].counter <= c.counter /\ events[e].counter <= c.counter
  <2>1. /\ clocks[h].counter \in Nat /\ clocks[h].node \in Nodes /\ clocks[h].knows \subseteq 1 .. Len(events)
    BY <1>4 DEF ClocksOf
  <2>2. /\ C!Observed(h, e) \in Nat
        /\ clocks[h].counter <= C!Observed(h, e) /\ events[e].counter <= C!Observed(h, e)
    BY <1>4, <2>1 DEF C!Observed, C!Later
  <2>3. C!Told(e) = events[e].past \cup {e}
    BY DEF C!Told
  <2>4. C!Told(e) \subseteq 1 .. Len(events)
    BY <1>4, <2>3
  <2>5. QED
    BY <2>1, <2>2, <2>3, <2>4 DEF ClocksOf
<1>6. NotBehind(c)
  <2> SUFFICES ASSUME NEW k \in c.knows PROVE events[k].counter <= c.counter
    BY DEF NotBehind
  <2>0. k \in 1 .. Len(events) /\ events[k].counter \in Nat
    BY <1>4, <1>5 DEF ClocksOf
  <2>1. CASE k \in clocks[h].knows
    <3>1. events[k].counter <= clocks[h].counter
      BY <1>1, <1>2, <2>1 DEF NotBehind
    <3>2. QED
      BY <1>5, <2>0, <3>1
  <2>2. CASE k \in events[e].past
    <3>1. events[k].counter < events[e].counter
      BY <1>1, <2>2 DEF Causes
    <3>2. QED
      BY <1>4, <1>5, <2>0, <3>1
  <2>3. QED
    BY <1>5, <2>1, <2>2
<1>7. \A k \in DOMAIN clocks' : clocks'[k] \in ClocksOf(Len(events)) /\ NotBehind(clocks'[k])
  <2> SUFFICES ASSUME NEW k \in DOMAIN clocks'
               PROVE  clocks'[k] \in ClocksOf(Len(events)) /\ NotBehind(clocks'[k])
    OBVIOUS
  <2>1. CASE k \in alike[h]
    BY <1>2, <1>5, <1>6, <2>1
  <2>2. CASE k \notin alike[h]
    <3>1. NotBehind(clocks[k]) => NotBehind(clocks'[k])
      BY <1>2, <2>2 DEF NotBehind
    <3>2. QED
      BY <1>1, <1>2, <2>2, <3>1 DEF ClocksTyped
  <2>3. QED
    BY <2>1, <2>2
<1>8. ASSUME NEW k \in DOMAIN clocks', clocks'[k].node \notin twice'
      PROVE  /\ \A j \in DOMAIN clocks' : clocks'[j].node = clocks'[k].node => j \in alike'[k]
             /\ \A j \in DOMAIN kept' : kept'[j].node = clocks'[k].node => kept'[j].counter <= clocks'[k].counter
             /\ \A f \in DOMAIN events' : events'[f].node = clocks'[k].node => f \in clocks'[k].knows
  <2>0. \A j \in DOMAIN clocks : clocks'[j].node = clocks[j].node
    BY <1>1, <1>2, <1>5 DEF AlikeAre
  <2>1. CASE k \in alike[h]
    <3>1. /\ clocks'[k] = c /\ alike'[k] = alike[h] /\ c.node = clocks[h].node /\ clocks[h].node \notin twice
      BY <1>2, <1>5, <1>8, <2>1
    <3>2. /\ \A j \in DOMAIN clocks : clocks[j].node = clocks[h].node => j \in alike[h]
          /\ \A j \in DOMAIN kept : kept[j].node = clocks[h].node => kept[j].counter <= clocks[h].counter
          /\ \A f \in DOMAIN events : events[f].node = clocks[h].node => f \in clocks[h].knows
      BY <1>1, <1>2, <3>1 DEF OneClock
    <3>3. \A j \in DOMAIN kept : kept[j].node = clocks[h].node => kept[j].counter <= c.counter
      BY <1>1, <1>5, <3>2 DEF ClocksTyped, ClocksOf
    <3>4. QED
      BY <1>2, <1>5, <2>0, <3>1, <3>2, <3>3
  <2>2. CASE k \notin alike[h]
    <3>1. k \in DOMAIN clocks /\ clocks'[k] = clocks[k] /\ alike'[k] = alike[k] \ alike[h]
      BY <1>2, <2>2
    <3>2. \A j \in alike[h] : clocks[j].node # clocks[k].node
      BY <1>1, <1>2, <1>8, <2>2, <3>1 DEF OneClock, AlikeAre
    <3>3. QED
      BY <1>1, <1>2, <1>8, <2>0, <3>1, <3>2 DEF OneClock
  <2>3. QED
    BY <2>1, <2>2
<1>9. OneClock'
  BY <1>8 DEF OneClock
<1>10. QED
  BY <1>2, <1>3, <1>7, <1>9, EventsStay

(* A stamp later than the clock was and than all that came before.         *)
LEMMA StampKeeps ==
  ASSUME ClocksInv, NEW h \in DOMAIN clocks, NEW counter \in Nat, NEW past \in SUBSET DOMAIN events,
         clocks[h].knows \subseteq past, clocks[h].counter < counter,
         \A e \in past : events[e].counter < counter,
         C!Stamp(h, counter, past)
  PROVE  ClocksInv'
<1> DEFINE last == Len(events) + 1
           c == [node |-> clocks[h].node, counter |-> counter, knows |-> past \cup {last}]
<1>1. /\ AlikeAre /\ OneClock /\ KeptKnow /\ InOrder /\ ClocksTyped /\ Causes
      /\ \A k \in DOMAIN clocks : NotBehind(clocks[k])
      /\ \A k \in DOMAIN kept : NotBehind(kept[k])
  BY DEF ClocksInv
<1>2. /\ alike[h] \subseteq DOMAIN clocks /\ h \in alike[h] /\ DOMAIN clocks' = DOMAIN clocks
      /\ \A k \in alike[h] : clocks'[k] = c /\ alike'[k] = alike[h]
      /\ \A k \in DOMAIN clocks \ alike[h] : clocks'[k] = clocks[k] /\ alike'[k] = alike[k] \ alike[h]
      /\ UNCHANGED <<kept, twice>>
  BY <1>1 DEF C!Stamp, C!Hold, C!Held, AlikeAre
<1>3. AlikeAre'
  BY <1>1, HoldAlike DEF C!Stamp
<1>4. /\ Len(events) \in Nat /\ DOMAIN events = 1 .. Len(events)
      /\ \A k \in DOMAIN events : /\ events[k].counter \in Nat /\ events[k].node \in Nodes
                                  /\ events[k].past \subseteq 1 .. (k - 1)
      /\ \A k \in DOMAIN clocks : clocks[k] \in ClocksOf(Len(events))
      /\ \A k \in DOMAIN kept : kept[k] \in ClocksOf(Len(events))
      /\ clocks[h].node \in Nodes /\ clocks[h].counter \in Nat
      /\ events \in Seq([counter : Nat, node : Nodes, past : SUBSET Nat])
  <2>1. events \in Seq([counter : Nat, node : Nodes, past : SUBSET Nat])
    BY <1>1 DEF ClocksTyped
  <2>2. /\ Len(events) \in Nat /\ DOMAIN events = 1 .. Len(events)
        /\ \A k \in DOMAIN events : events[k].counter \in Nat /\ events[k].node \in Nodes
    BY <1>1, EventsAre
  <2>3. clocks[h] \in ClocksOf(Len(events))
    BY <1>1 DEF ClocksTyped
  <2>4. clocks[h].node \in Nodes /\ clocks[h].counter \in Nat
    BY <2>3 DEF ClocksOf
  <2>5. QED
    BY <1>1, <2>1, <2>2, <2>4 DEF ClocksTyped
<1>5. /\ events' = Append(events, [counter |-> counter, node |-> clocks[h].node, past |-> past])
      /\ Len(events') = last /\ DOMAIN events' = 1 .. last
      /\ \A k \in DOMAIN events : events'[k] = events[k]
      /\ events'[last].counter = counter /\ events'[last].node = clocks[h].node
      /\ events'[last].past = past
  BY <1>4 DEF C!Stamp
<1>6. /\ past \subseteq 1 .. Len(events) /\ 1 .. Len(events) \subseteq 1 .. last
      /\ last \in 1 .. last /\ last \notin DOMAIN events /\ last \in Nat
      /\ \A k \in 1 .. last : k \in DOMAIN events \/ k = last
      /\ 1 .. last - 1 = 1 .. Len(events)
  BY <1>4
<1>7. \A k \in Nat : \A d : d \in ClocksOf(Len(events)) => d \in ClocksOf(last)
  BY <1>6 DEF ClocksOf
<1>8. c \in ClocksOf(last) /\ c.node = clocks[h].node /\ c.counter = counter /\ c.knows = past \cup {last}
  BY <1>4, <1>6 DEF ClocksOf
<1>9. ClocksTyped'
  <2>1. events' \in Seq([counter : Nat, node : Nodes, past : SUBSET Nat])
    BY <1>4, <1>5
  <2>2. \A f \in DOMAIN events' : events'[f].past \subseteq 1 .. (f - 1)
    BY <1>4, <1>5, <1>6
  <2>3. \A k \in DOMAIN clocks' : clocks'[k] \in ClocksOf(last)
    BY <1>2, <1>4, <1>7, <1>8
  <2>4. \A k \in DOMAIN kept' : kept'[k] \in ClocksOf(last)
    BY <1>2, <1>4, <1>7
  <2>5. QED
    BY <1>5, <2>1, <2>2, <2>3, <2>4 DEF ClocksTyped, ClocksOf
<1>10. Causes'
  <2> SUFFICES ASSUME NEW f \in DOMAIN events', NEW e \in events'[f].past
               PROVE  events'[e].counter < events'[f].counter
    BY DEF Causes
  <2>1. CASE f = last
    BY <1>5, <2>1
  <2>2. CASE f \in DOMAIN events
    <3>1. e \in DOMAIN events /\ e \in events[f].past
      BY <1>4, <1>5, <2>2
    <3>2. QED
      BY <1>1, <1>5, <2>2, <3>1 DEF Causes
  <2>3. QED
    BY <1>5, <1>6, <2>1, <2>2
<1>11. \A k \in DOMAIN clocks' : NotBehind(clocks[k])'
  <2> SUFFICES ASSUME NEW k \in DOMAIN clocks', NEW e \in clocks'[k].knows
               PROVE  events'[e].counter <= clocks'[k].counter
    BY DEF NotBehind
  <2>1. CASE k \in alike[h]
    <3>1. clocks'[k].counter = counter /\ e \in past \cup {last}
      BY <1>2, <1>8, <2>1
    <3>2. CASE e = last
      BY <1>5, <3>1, <3>2
    <3>3. CASE e \in past
      BY <1>4, <1>5, <3>1, <3>3
    <3>4. QED
      BY <3>1, <3>2, <3>3
  <2>2. CASE k \notin alike[h]
    <3>1. clocks'[k] = clocks[k] /\ k \in DOMAIN clocks
      BY <1>2, <2>2
    <3>2. e \in DOMAIN events
      BY <1>4, <3>1 DEF ClocksOf
    <3>3. QED
      BY <1>1, <1>5, <3>1, <3>2 DEF NotBehind
  <2>3. QED
    BY <2>1, <2>2
<1>12. \A k \in DOMAIN kept' : NotBehind(kept[k])'
  <2> SUFFICES ASSUME NEW k \in DOMAIN kept, NEW e \in kept[k].knows
               PROVE  events'[e].counter <= kept[k].counter
    BY <1>2 DEF NotBehind
  <2>1. e \in DOMAIN events
    BY <1>4 DEF ClocksOf
  <2>2. QED
    BY <1>1, <1>5, <2>1 DEF NotBehind
<1>13. clocks[h].node \notin twice =>
         /\ \A j \in DOMAIN clocks : clocks[j].node = clocks[h].node => j \in alike[h]
         /\ \A j \in DOMAIN kept : kept[j].node = clocks[h].node => kept[j].counter <= clocks[h].counter
         /\ \A f \in DOMAIN events : events[f].node = clocks[h].node => f \in past
  BY <1>1 DEF OneClock
<1>14. OneClock'
  <2> SUFFICES ASSUME NEW k \in DOMAIN clocks', clocks'[k].node \notin twice'
      PROVE  /\ \A j \in DOMAIN clocks' : clocks'[j].node = clocks'[k].node => j \in alike'[k]
             /\ \A j \in DOMAIN kept' : kept'[j].node = clocks'[k].node => kept'[j].counter <= clocks'[k].counter
             /\ \A f \in DOMAIN events' : events'[f].node = clocks'[k].node => f \in clocks'[k].knows
    BY DEF OneClock
  <2>0. \A j \in DOMAIN clocks : clocks'[j].node = clocks[j].node
    BY <1>1, <1>2, <1>8 DEF AlikeAre
  <2>1. CASE k \in alike[h]
    <3>1. clocks'[k] = c /\ alike'[k] = alike[h] /\ clocks[h].node \notin twice
      BY <1>2, <1>8, <2>1
    <3>2. \A j \in DOMAIN kept : kept[j].node = clocks[h].node => kept[j].counter <= counter
      BY <1>4, <1>13, <3>1 DEF ClocksOf
    <3>3. \A f \in DOMAIN events' : events'[f].node = clocks[h].node => f \in c.knows
      BY <1>5, <1>6, <1>8, <1>13, <3>1
    <3>4. QED
      BY <1>2, <1>8, <1>13, <2>0, <3>1, <3>2, <3>3
  <2>2. CASE k \notin alike[h]
    <3>1. k \in DOMAIN clocks /\ clocks'[k] = clocks[k] /\ alike'[k] = alike[k] \ alike[h] /\ clocks[k].node \notin twice
      BY <1>2, <2>2
    <3>2. \A j \in alike[h] : clocks[j].node # clocks[k].node
      BY <1>1, <1>2, <2>2, <3>1 DEF OneClock, AlikeAre
    <3>3. \A f \in DOMAIN events' : events'[f].node = clocks[k].node => f \in DOMAIN events /\ events[f].node = clocks[k].node
      BY <1>2, <1>5, <1>6, <3>2
    <3>4. QED
      BY <1>1, <1>2, <2>0, <3>1, <3>2, <3>3 DEF OneClock
  <2>3. QED
    BY <2>1, <2>2
<1>15. KeptKnow'
  <2> SUFFICES ASSUME NEW k \in DOMAIN kept, kept[k].node \notin twice, NEW e \in DOMAIN events',
                      events'[e].node = kept[k].node, events'[e].counter <= kept[k].counter
               PROVE  e \in kept[k].knows
    BY <1>2 DEF KeptKnow
  <2>1. CASE e = last
    <3>1. kept[k].counter <= clocks[h].counter /\ counter <= kept[k].counter
      BY <1>5, <1>13, <2>1
    <3>2. kept[k].counter \in Nat
      BY <1>4 DEF ClocksOf
    <3>3. QED
      BY <1>4, <3>1, <3>2
  <2>2. CASE e \in DOMAIN events
    BY <1>1, <1>5, <2>2 DEF KeptKnow
  <2>3. QED
    BY <1>5, <1>6, <2>1, <2>2
<1>16. InOrder'
  <2> SUFFICES ASSUME NEW e \in DOMAIN events', NEW f \in DOMAIN events', e < f,
                      events'[e].node = events'[f].node, events'[e].node \notin twice
               PROVE  e \in events'[f].past
    BY <1>2 DEF InOrder
  <2>1. e \in DOMAIN events
    BY <1>4, <1>5
  <2>2. CASE f = last
    BY <1>5, <1>13, <2>1, <2>2
  <2>3. CASE f \in DOMAIN events
    BY <1>1, <1>5, <2>1, <2>3 DEF InOrder
  <2>4. QED
    BY <1>5, <1>6, <2>2, <2>3
<1>17. QED
  BY <1>3, <1>9, <1>10, <1>11, <1>12, <1>14, <1>15, <1>16 DEF ClocksInv

LEMMA TickKeeps ==
  ASSUME ClocksInv, NEW h, C!tick(h)
  PROVE  ClocksInv'
<1>1. h \in DOMAIN clocks /\ C!Stamp(h, clocks[h].counter + 1, clocks[h].knows)
  BY DEF C!tick, C!Held
<1>2. /\ clocks[h] \in ClocksOf(Len(events)) /\ NotBehind(clocks[h])
      /\ DOMAIN events = 1 .. Len(events)
      /\ \A k \in DOMAIN events : events[k].counter \in Nat
  BY <1>1, EventsAre DEF ClocksInv, ClocksTyped
<1>3. /\ clocks[h].counter \in Nat /\ clocks[h].counter + 1 \in Nat
      /\ clocks[h].counter < clocks[h].counter + 1
      /\ clocks[h].knows \in SUBSET DOMAIN events
  BY <1>2 DEF ClocksOf
<1>4. \A e \in clocks[h].knows : events[e].counter < clocks[h].counter + 1
  BY <1>2, <1>3 DEF NotBehind
<1>5. QED
  BY <1>1, <1>3, <1>4, StampKeeps

LEMMA MergeKeeps ==
  ASSUME ClocksInv, NEW h, NEW e \in DOMAIN events, C!merge(h, e)
  PROVE  ClocksInv'
<1> DEFINE past == clocks[h].knows \cup C!Told(e)
<1>1. h \in DOMAIN clocks /\ C!Stamp(h, C!Received(h, e), past)
  BY DEF C!merge, C!Held
<1>2. /\ clocks[h] \in ClocksOf(Len(events)) /\ NotBehind(clocks[h]) /\ ClocksTyped
      /\ events[e].past \subseteq 1 .. (e - 1)
      /\ \A k \in events[e].past : events[k].counter < events[e].counter
  BY <1>1 DEF ClocksInv, ClocksTyped, Causes
<1>3. /\ DOMAIN events = 1 .. Len(events) /\ Len(events) \in Nat /\ e \in 1 .. Len(events)
      /\ \A k \in DOMAIN events : events[k].counter \in Nat
  BY <1>2, EventsAre
<1>4. /\ clocks[h].counter \in Nat /\ clocks[h].knows \subseteq DOMAIN events
  BY <1>2, <1>3 DEF ClocksOf
<1>5. past \in SUBSET DOMAIN events /\ clocks[h].knows \subseteq past
  BY <1>2, <1>3, <1>4 DEF C!Told
<1>6. /\ C!Received(h, e) \in Nat /\ clocks[h].counter < C!Received(h, e)
      /\ events[e].counter < C!Received(h, e)
  BY <1>3, <1>4 DEF C!Received, C!Later
<1>7. ASSUME NEW k \in past PROVE events[k].counter < C!Received(h, e)
  <2>0. k \in DOMAIN events /\ events[k].counter \in Nat
    BY <1>3, <1>5
  <2>1. CASE k \in clocks[h].knows
    <3>1. events[k].counter <= clocks[h].counter
      BY <1>2, <2>1 DEF NotBehind
    <3>2. QED
      BY <1>4, <1>6, <2>0, <3>1
  <2>2. CASE k \in events[e].past
    <3>1. events[k].counter < events[e].counter
      BY <1>2, <2>2
    <3>2. QED
      BY <1>3, <1>6, <2>0, <3>1
  <2>3. CASE k = e
    BY <1>6, <2>3
  <2>4. QED
    BY <2>1, <2>2, <2>3 DEF C!Told
<1>8. QED
  BY <1>1, <1>5, <1>6, <1>7, StampKeeps

LEMMA SnapshotKeeps ==
  ASSUME ClocksInv, C!snapshot
  PROVE  ClocksInv'
<1>1. /\ ClocksTyped /\ AlikeAre /\ Causes /\ OneClock /\ KeptKnow /\ InOrder
      /\ \A h \in DOMAIN clocks : NotBehind(clocks[h])
  BY DEF ClocksInv
<1>2. /\ DOMAIN kept' \subseteq DOMAIN clocks /\ \A h \in DOMAIN kept' : kept'[h] = clocks[h]
      /\ UNCHANGED <<clocks, alike, events, twice>>
  BY DEF C!snapshot, C!Held
<1>3. ClocksTyped' /\ AlikeAre' /\ Causes' /\ InOrder'
  BY <1>1, <1>2 DEF ClocksTyped, AlikeAre, Causes, InOrder
<1>4. \A h \in DOMAIN clocks : clocks[h].counter \in Nat
  BY <1>1 DEF ClocksTyped, ClocksOf
<1>5. OneClock'
  <2> SUFFICES ASSUME NEW h \in DOMAIN clocks, clocks[h].node \notin twice
               PROVE  \A g \in DOMAIN kept' : kept'[g].node = clocks[h].node => kept'[g].counter <= clocks[h].counter
    BY <1>1, <1>2 DEF OneClock
  <2>1. \A g \in DOMAIN clocks : clocks[g].node = clocks[h].node => clocks[g] = clocks[h]
    BY <1>1 DEF OneClock, AlikeAre
  <2>2. QED
    BY <1>2, <1>4, <2>1
<1>6. KeptKnow'
  BY <1>1, <1>2 DEF KeptKnow, OneClock
<1>7. /\ \A h \in DOMAIN clocks' : NotBehind(clocks[h])'
      /\ \A h \in DOMAIN kept' : NotBehind(kept[h])'
  BY <1>1, <1>2 DEF NotBehind
<1>8. QED
  BY <1>3, <1>5, <1>6, <1>7 DEF ClocksInv

(* Variables put back have a clock each; the others are as they were.      *)
LEMMA ClocksRestored ==
  ASSUME ClocksInv, C!restore
  PROVE  ClocksInv'
<1> DEFINE back == DOMAIN kept
           Again(h) == \/ \E g \in back \ {h} : kept[g].node = kept[h].node
                       \/ \E g \in DOMAIN clocks \ back : clocks[g].node = kept[h].node
                       \/ \E e \in DOMAIN events : events[e].node = kept[h].node /\ events[e].counter > kept[h].counter
<1>1. /\ ClocksTyped /\ AlikeAre /\ Causes /\ OneClock /\ KeptKnow /\ InOrder
      /\ \A h \in DOMAIN clocks : NotBehind(clocks[h])
      /\ \A h \in DOMAIN kept : NotBehind(kept[h])
  BY DEF ClocksInv
<1>2. /\ DOMAIN clocks' = DOMAIN clocks \cup back /\ DOMAIN alike' = DOMAIN clocks \cup back
      /\ \A h \in back : clocks'[h] = kept[h] /\ alike'[h] = {h}
      /\ \A h \in DOMAIN clocks \ back : clocks'[h] = clocks[h] /\ alike'[h] = alike[h] \ back
      /\ UNCHANGED <<events, kept>> /\ twice \subseteq twice'
  BY DEF C!restore, C!Held
<1>3. \A h \in back : Again(h) => kept[h].node \in twice'
  BY DEF C!restore, C!Held, C!Stamped
<1>4. AlikeAre'
  <2>1. ASSUME NEW h \in DOMAIN clocks'
        PROVE  /\ h \in alike'[h] /\ alike'[h] \subseteq DOMAIN clocks'
               /\ \A g \in alike'[h] : alike'[g] = alike'[h] /\ clocks'[g] = clocks'[h]
    <3>1. CASE h \in back
      BY <1>2, <3>1
    <3>2. CASE h \notin back
      BY <1>1, <1>2, <3>2 DEF AlikeAre
    <3>3. QED
      BY <3>1, <3>2
  <2>2. QED
    BY <1>2, <2>1 DEF AlikeAre
<1>5. ASSUME NEW h \in DOMAIN clocks'
      PROVE  clocks'[h] \in ClocksOf(Len(events)) /\ NotBehind(clocks'[h])
  <2>1. CASE h \in back
    <3>1. NotBehind(clocks'[h])
      BY <1>1, <1>2, <2>1 DEF NotBehind
    <3>2. QED
      BY <1>1, <1>2, <2>1, <3>1 DEF ClocksTyped
  <2>2. CASE h \notin back
    <3>1. NotBehind(clocks'[h])
      BY <1>1, <1>2, <2>2 DEF NotBehind
    <3>2. QED
      BY <1>1, <1>2, <2>2, <3>1 DEF ClocksTyped
  <2>3. QED
    BY <2>1, <2>2
<1>6. ASSUME NEW h \in DOMAIN clocks', clocks'[h].node \notin twice'
      PROVE  /\ \A g \in DOMAIN clocks' : clocks'[g].node = clocks'[h].node => g \in alike'[h]
             /\ \A g \in DOMAIN kept' : kept'[g].node = clocks'[h].node => kept'[g].counter <= clocks'[h].counter
             /\ \A e \in DOMAIN events' : events'[e].node = clocks'[h].node => e \in clocks'[h].knows
  <2>1. CASE h \in back
    <3>1. clocks'[h] = kept[h] /\ alike'[h] = {h} /\ kept[h].node \notin twice /\ ~ Again(h)
      BY <1>2, <1>3, <1>6, <2>1
    <3>2. \A g \in back : kept[g].node = kept[h].node => g = h
      BY <3>1
    <3>3. \A g \in DOMAIN clocks \ back : clocks[g].node # kept[h].node
      BY <3>1
    <3>4. \A g \in DOMAIN clocks' : clocks'[g].node = kept[h].node => g = h
      BY <1>2, <3>2, <3>3
    <3>5. kept[h].counter \in Nat /\ \A e \in DOMAIN events : events[e].counter \in Nat
      BY <1>1, <2>1, EventsAre DEF ClocksTyped, ClocksOf
    <3>6. \A e \in DOMAIN events : events[e].node = kept[h].node => events[e].counter <= kept[h].counter
      BY <3>1, <3>5
    <3>7. \A e \in DOMAIN events : events[e].node = kept[h].node => e \in kept[h].knows
      BY <1>1, <2>1, <3>1, <3>6 DEF KeptKnow
    <3>8. QED
      BY <1>2, <3>1, <3>2, <3>4, <3>5, <3>7
  <2>2. CASE h \notin back
    <3>1. h \in DOMAIN clocks \ back /\ clocks'[h] = clocks[h] /\ alike'[h] = alike[h] \ back
          /\ clocks[h].node \notin twice
      BY <1>2, <1>6, <2>2
    <3>2. \A g \in back : kept[g].node # clocks[h].node
      BY <1>3, <1>6, <3>1
    <3>3. QED
      BY <1>1, <1>2, <3>1, <3>2 DEF OneClock
  <2>3. QED
    BY <2>1, <2>2
<1>7. OneClock'
  BY <1>6 DEF OneClock
<1>8. QED
  BY <1>2, <1>4, <1>5, <1>7, EventsStay

LEMMA ClocksNext == ClocksInv /\ [C!Next]_clockVars => ClocksInv'
<1> SUFFICES ASSUME ClocksInv, [C!Next]_clockVars PROVE ClocksInv'
  OBVIOUS
<1>1. CASE C!Next
  BY <1>1, NewKeeps, ShareKeeps, TickKeeps, MergeKeeps, ObserveKeeps, SnapshotKeeps, ClocksRestored
     DEF C!Next
<1>2. CASE UNCHANGED clockVars
  BY <1>2 DEF clockVars, ClocksInv, ClocksTyped, AlikeAre, NotBehind, Causes, OneClock, KeptKnow, InOrder
<1>3. QED
  BY <1>1, <1>2

(* Stamps agree with what was known when they were made, however clocks    *)
(* were shared, saved and restored, and those of a node that never had two *)
(* clocks with their order (temporal.js LogicalClock, snapshot.js).        *)
THEOREM StampsOrdered == Spec => []StampsInOrder
<1>1. Init => ClocksInv
  BY ClocksInit DEF Init, PartsInit
<1>2. ClocksInv /\ [Next]_runtimeVars => ClocksInv'
  BY ClocksNext DEF Next, runtimeVars, stateVars, clockVars
<1>3. ClocksInv => StampsInOrder
  BY ClocksInvMeans DEF StampsInOrder
<1>4. QED
  BY <1>1, <1>2, <1>3, PTL DEF Spec, runtimeVars
=============================================================================
