---------------------------- MODULE Budgets_proofs -----------------------------
(***************************************************************************)
(* Proofs about Budgets, for any units, amounts and trial limit, and any   *)
(* depth of nesting.                                                       *)
(*                                                                         *)
(* The two cached values are put back from what each block saved when it   *)
(* was entered, so what is invariant is what the blocks have saved: a      *)
(* budget, whether there was a memory budget around it; a trial, how far   *)
(* the trial around it had got.  And only the budget whose stop is under   *)
(* way is overdrawn: those outside it paid in full and those inside it     *)
(* nothing.                                                                *)
(***************************************************************************)
EXTENDS Budgets, SequenceTheorems, FiniteSetTheorems, WellFoundedInduction, TLAPS

Blocks == [kind : {"attempt", "budget", "trial"}, unit : Units \cup {"none"},
           limit : Nat, used : Nat, steps : Nat, stepLimit : Nat, memoryFlag : BOOLEAN]

TypeInv ==
  /\ blocks \in Seq(Blocks)
  /\ work \in Seq(Nat) /\ Len(work) = Len(blocks)
  /\ raised \in [what : {"none", "error", "budget"}, depth : Nat]
  /\ steps \in Nat /\ stepLimit \in Nat /\ memoryFlag \in BOOLEAN

(* A budget's stop is under way to a budget's block.                       *)
StopsHaveHomes ==
  raised.what = "budget" => raised.depth \in 1 .. Depth /\ blocks[raised.depth].kind = "budget"

(* Each budget has saved whether there was a memory budget around it.      *)
FlagsKept ==
  \A d \in 1 .. Depth : blocks[d].kind = "budget" =>
    (blocks[d].memoryFlag <=> \E e \in 1 .. d - 1 :
       blocks[e].kind = "budget" /\ blocks[e].unit = "memory")

(* What a budget was charged covers what ran in it, and only the budget    *)
(* whose stop is under way is overdrawn.                                   *)
Spent ==
  \A d \in 1 .. Depth : blocks[d].kind = "budget" =>
    /\ work[d] <= blocks[d].used /\ work[d] <= blocks[d].limit
    /\ blocks[d].used > blocks[d].limit => raised.what = "budget" /\ raised.depth = d

(* The budgets a charge has reached: all, unless one of them stopped it.   *)
Charged(d) == raised.what = "budget" => d <= raised.depth

Tightened ==
  \A d, e \in 1 .. Depth :
    /\ d <= e /\ Charged(e)
    /\ blocks[d].kind = "budget" /\ blocks[e].kind = "budget" /\ blocks[d].unit = blocks[e].unit
    => Remaining(e) <= Remaining(d)

NextTrial(d, e) ==
  /\ d < e /\ blocks[e].kind = "trial"
  /\ \A c \in d + 1 .. e - 1 : blocks[c].kind # "trial"

(* The steps of a trial are what the counter says while it is the current  *)
(* one, and what the next trial inside it has saved while it is not.       *)
TrialsCounted ==
  \A d \in 1 .. Depth : blocks[d].kind = "trial" =>
    /\ work[d] <= TrialLimit
    /\ CurrentTrial(d) => work[d] <= steps /\ stepLimit = TrialLimit
    /\ \A e \in 1 .. Depth : NextTrial(d, e) =>
         work[d] <= blocks[e].steps /\ blocks[e].stepLimit = TrialLimit

IInv ==
  /\ TypeInv /\ StopsHaveHomes
  /\ LimitsFresh /\ FlagsKept
  /\ Spent /\ Tightened /\ TrialsCounted

-----------------------------------------------------------------------------
(* Sequences, and the least of some numbers. *)

LEMMA TakeOf ==
  ASSUME NEW S, NEW s \in Seq(S), NEW n \in 0 .. Len(s)
  PROVE  /\ SubSeq(s, 1, n) \in Seq(S) /\ Len(SubSeq(s, 1, n)) = n
         /\ \A i \in 1 .. n : SubSeq(s, 1, n)[i] = s[i]
OBVIOUS

LEMMA FrontOf ==
  ASSUME NEW S, NEW s \in Seq(S), Len(s) > 0
  PROVE  /\ Front(s) \in Seq(S) /\ Len(Front(s)) = Len(s) - 1
         /\ \A i \in 1 .. Len(s) - 1 : Front(s)[i] = s[i]
         /\ Len(s) \in Nat \ {0} /\ Last(s) = s[Len(s)] /\ Last(s) \in S
<1>1. Len(s) \in Nat \ {0} /\ Len(s) - 1 \in 0 .. Len(s)
  OBVIOUS
<1>2. /\ SubSeq(s, 1, Len(s) - 1) \in Seq(S)
      /\ Len(SubSeq(s, 1, Len(s) - 1)) = Len(s) - 1
      /\ \A i \in 1 .. Len(s) - 1 : SubSeq(s, 1, Len(s) - 1)[i] = s[i]
  BY <1>1, TakeOf
<1>3. s[Len(s)] \in S
  BY <1>1, ElementOfSeq
<1>4. QED
  BY <1>1, <1>2, <1>3 DEF Front, Last

LEMMA Least ==
  ASSUME NEW n \in Nat, NEW D, D \subseteq 1 .. n, D # {}
  PROVE  \E m \in D : \A o \in D : m <= o
<1> DEFINE Under(d) == {o \in D : o < d}
           T == {Under(d) : d \in D}
<1>1. IsFiniteSet(1 .. n) /\ D \in SUBSET (1 .. n)
  BY FS_Interval
<1>2. IsFiniteSet(D)
  BY <1>1, FS_Subset
<1>3. IsWellFoundedOn(StrictSubsetOrdering(D), SUBSET D)
  BY <1>2, FS_FiniteSubsetsOfFinite, FS_StrictSubsetOrderingWellFounded
<1>4. T \subseteq SUBSET D /\ T # {}
  OBVIOUS
<1>5. PICK I \in T : \A J \in T : <<J, I>> \notin StrictSubsetOrdering(D)
  <2> HIDE DEF T
  <2>1. QED
    BY <1>3, <1>4, WFMin
<1>6. PICK m \in D : I = Under(m)
  BY <1>5
<1>7. ASSUME NEW o \in D, o < m
      PROVE  FALSE
  <2>1. \A d \in D : d \in Nat
    OBVIOUS
  <2>2. \A d \in D : d < o => d < m
    BY <1>7, <2>1
  <2>3. o \in Under(m)
    BY <1>7
  <2>4. o \notin Under(o)
    BY <2>1
  <2>5. Under(o) \subseteq Under(m)
    BY <2>2
  <2>6. <<Under(o), Under(m)>> \in StrictSubsetOrdering(D)
    BY <2>3, <2>4, <2>5 DEF StrictSubsetOrdering
  <2>7. QED
    BY <1>5, <1>6, <2>6
<1>8. QED
  BY <1>7

LEMMA OutermostIs ==
  ASSUME NEW n \in Nat, NEW D, D \subseteq 1 .. n, D # {}
  PROVE  Outermost(D) \in D /\ \A e \in D : Outermost(D) <= e
BY Least DEF Outermost

-----------------------------------------------------------------------------
(* Entering a block. *)

LEMMA Pushed ==
  ASSUME TypeInv, NEW b \in Blocks, Push(b)
  PROVE  /\ blocks' \in Seq(Blocks) /\ Depth' = Depth + 1 /\ Depth \in Nat
         /\ work' \in Seq(Nat) /\ Len(work') = Depth + 1
         /\ blocks'[Depth + 1] = b /\ work'[Depth + 1] = 0
         /\ \A d \in 1 .. Depth : blocks'[d] = blocks[d] /\ work'[d] = work[d]
         /\ raised' = raised /\ raised.what = "none"
<1>1. /\ blocks' = Append(blocks, b) /\ work' = Append(work, 0)
      /\ raised' = raised /\ raised.what = "none"
  BY DEF Push, Running
<1>2. /\ blocks' \in Seq(Blocks) /\ Len(blocks') = Len(blocks) + 1 /\ Len(blocks) \in Nat
      /\ blocks'[Len(blocks) + 1] = b /\ \A d \in 1 .. Len(blocks) : blocks'[d] = blocks[d]
  BY <1>1, AppendProperties DEF TypeInv
<1>3. /\ work' \in Seq(Nat) /\ Len(work') = Len(blocks) + 1
      /\ work'[Len(blocks) + 1] = 0 /\ \A d \in 1 .. Len(blocks) : work'[d] = work[d]
  BY <1>1, AppendProperties DEF TypeInv
<1>4. QED
  BY <1>1, <1>2, <1>3 DEF Depth

(* A block that saves what it will put back, and, if it is a budget, has   *)
(* no more than is left of those around it.                                *)
Saves(b) ==
  /\ b.used = 0 /\ b.steps = steps /\ b.stepLimit = stepLimit /\ (b.memoryFlag <=> memoryFlag)
  /\ b.kind = "budget" =>
       \A d \in 1 .. Depth : blocks[d].kind = "budget" /\ blocks[d].unit = b.unit
                               => b.limit <= Remaining(d)

(* What entering it does to the counter and the cached values.             *)
Enters(b) ==
  /\ IF b.kind = "trial" THEN steps' = 0 /\ stepLimit' = TrialLimit
                         ELSE steps' = steps /\ stepLimit' = stepLimit
  /\ tickCheck' = Retuned(blocks', stepLimit')
  /\ memoryFlag' \in BOOLEAN
  /\ memoryFlag' <=> memoryFlag \/ (b.kind = "budget" /\ b.unit = "memory")

LEMMA PushKeeps ==
  ASSUME BudgetsAssumption, IInv, NEW b \in Blocks, Push(b), Saves(b), Enters(b)
  PROVE  IInv'
<1> USE DEF Saves, Enters
<1> DEFINE n == Depth + 1
<1>1. /\ blocks' \in Seq(Blocks) /\ Depth' = n /\ Depth \in Nat
      /\ work' \in Seq(Nat) /\ Len(work') = n
      /\ blocks'[n] = b /\ work'[n] = 0
      /\ \A d \in 1 .. Depth : blocks'[d] = blocks[d] /\ work'[d] = work[d]
      /\ raised' = raised /\ raised.what = "none"
  BY Pushed DEF IInv
<1>2. \A d \in 1 .. n : d \in 1 .. Depth \/ d = n
  BY <1>1
<1>3. TypeInv'
  <2>1. steps' \in Nat /\ stepLimit' \in Nat
    BY DEF IInv, TypeInv, BudgetsAssumption
  <2>2. QED
    BY <1>1, <2>1 DEF IInv, TypeInv, Depth
<1>4. StopsHaveHomes'
  BY <1>1 DEF StopsHaveHomes
<1>5. LimitsFresh'
  <2>1. memoryFlag <=> \E d \in 1 .. Depth : blocks[d].kind = "budget" /\ blocks[d].unit = "memory"
    BY DEF IInv, LimitsFresh, BudgetsOf, Depth
  <2>2. memoryFlag' <=> \E d \in 1 .. n : blocks'[d].kind = "budget" /\ blocks'[d].unit = "memory"
    <3>1. \A d \in 1 .. Depth : d \in 1 .. n
      BY <1>1
    <3>2. n \in 1 .. n
      BY <1>1
    <3>3. (\E d \in 1 .. n : blocks'[d].kind = "budget" /\ blocks'[d].unit = "memory")
            <=> \/ \E d \in 1 .. Depth : blocks[d].kind = "budget" /\ blocks[d].unit = "memory"
                \/ b.kind = "budget" /\ b.unit = "memory"
      BY <1>1, <1>2, <3>1, <3>2
    <3>4. QED
      BY <2>1, <3>3
  <2>3. QED
    BY <1>1, <2>2 DEF LimitsFresh, BudgetsOf, Depth
<1>6. FlagsKept'
  <2>1. SUFFICES ASSUME NEW d \in 1 .. n, blocks'[d].kind = "budget"
                 PROVE  blocks'[d].memoryFlag <=> \E e \in 1 .. d - 1 :
                          blocks'[e].kind = "budget" /\ blocks'[e].unit = "memory"
    BY <1>1 DEF FlagsKept
  <2>2. \A e \in 1 .. d - 1 : blocks'[e] = blocks[e]
    BY <1>1, <2>1
  <2>3. CASE d \in 1 .. Depth
    <3>1. blocks'[d] = blocks[d]
      BY <1>1, <2>3
    <3>2. blocks[d].memoryFlag <=> \E e \in 1 .. d - 1 :
            blocks[e].kind = "budget" /\ blocks[e].unit = "memory"
      BY <2>1, <2>3, <3>1 DEF IInv, FlagsKept
    <3>3. (\E e \in 1 .. d - 1 : blocks'[e].kind = "budget" /\ blocks'[e].unit = "memory")
            <=> \E e \in 1 .. d - 1 : blocks[e].kind = "budget" /\ blocks[e].unit = "memory"
      BY <2>2
    <3>4. QED
      BY <3>1, <3>2, <3>3
  <2>4. CASE d = n
    <3>1. memoryFlag <=> \E e \in 1 .. Depth : blocks[e].kind = "budget" /\ blocks[e].unit = "memory"
      BY DEF IInv, LimitsFresh, BudgetsOf, Depth
    <3>2. d - 1 = Depth
      BY <1>1, <2>4
    <3>3. QED
      BY <1>1, <2>2, <2>4, <3>1, <3>2
  <2>5. QED
    BY <1>2, <2>3, <2>4
<1>7. Spent'
  <2>1. b.limit \in Nat /\ b.used = 0
    BY DEF Blocks
  <2>2. ASSUME NEW d \in 1 .. n, blocks'[d].kind = "budget"
        PROVE  /\ work'[d] <= blocks'[d].used /\ work'[d] <= blocks'[d].limit
               /\ blocks'[d].used > blocks'[d].limit => raised'.what = "budget" /\ raised'.depth = d
    <3>1. CASE d \in 1 .. Depth
      <4>1. blocks'[d] = blocks[d] /\ work'[d] = work[d] /\ raised' = raised
        BY <1>1, <3>1
      <4>2. Spent
        BY DEF IInv
      <4>3. QED
        BY <2>2, <3>1, <4>1, <4>2 DEF Spent
    <3>2. CASE d = n
      <4>1. blocks'[d] = b /\ work'[d] = 0
        BY <1>1, <3>2
      <4>2. QED
        BY <2>1, <4>1
    <3>3. QED
      BY <1>2, <2>2, <3>1, <3>2
  <2>3. QED
    BY <1>1, <2>2 DEF Spent
<1>8. Tightened'
  <2>1. SUFFICES ASSUME NEW d \in 1 .. n, NEW e \in 1 .. n, d <= e,
                        blocks'[d].kind = "budget", blocks'[e].kind = "budget",
                        blocks'[d].unit = blocks'[e].unit
                 PROVE  Remaining(e)' <= Remaining(d)'
    BY <1>1 DEF Tightened
  <2>2. CASE e \in 1 .. Depth
    <3>1. d \in 1 .. Depth
      BY <1>1, <2>1, <2>2
    <3>2. Charged(e)
      BY <1>1 DEF Charged
    <3>3. QED
      BY <1>1, <2>1, <2>2, <3>1, <3>2 DEF IInv, Tightened, Remaining
  <2>3. CASE e = n /\ d \in 1 .. Depth
    <3>1. b.limit <= Remaining(d)
      BY <1>1, <2>1, <2>3
    <3>2. b.limit \in Nat
      BY DEF Blocks
    <3>3. QED
      BY <1>1, <2>3, <3>1, <3>2 DEF Remaining
  <2>4. CASE e = n /\ d = n
    <3>1. b.limit \in Nat
      BY DEF Blocks
    <3>2. QED
      BY <1>1, <2>4, <3>1 DEF Remaining
  <2>5. QED
    BY <1>2, <2>2, <2>3, <2>4
<1>9. TrialsCounted'
  <2>1. SUFFICES ASSUME NEW d \in 1 .. n, blocks'[d].kind = "trial"
                 PROVE  /\ work'[d] <= TrialLimit
                        /\ CurrentTrial(d)' => work'[d] <= steps' /\ stepLimit' = TrialLimit
                        /\ \A e \in 1 .. n : NextTrial(d, e)' =>
                             work'[d] <= blocks'[e].steps /\ blocks'[e].stepLimit = TrialLimit
    BY <1>1 DEF TrialsCounted
  <2>2. CASE d = n
    <3>1. stepLimit' = TrialLimit /\ steps' = 0
      BY <1>1, <2>1, <2>2
    <3>2. \A e \in 1 .. n : ~ NextTrial(d, e)'
      BY <2>2 DEF NextTrial
    <3>3. QED
      BY <1>1, <2>2, <3>1, <3>2 DEF BudgetsAssumption
  <2>3. CASE d \in 1 .. Depth
    <3>1. /\ work[d] <= TrialLimit
          /\ CurrentTrial(d) => work[d] <= steps /\ stepLimit = TrialLimit
          /\ \A e \in 1 .. Depth : NextTrial(d, e) =>
               work[d] <= blocks[e].steps /\ blocks[e].stepLimit = TrialLimit
      BY <1>1, <2>1, <2>3 DEF IInv, TrialsCounted
    <3>2. CurrentTrial(d)' => CurrentTrial(d) /\ b.kind # "trial"
      <4>1. SUFFICES ASSUME CurrentTrial(d)' PROVE CurrentTrial(d) /\ b.kind # "trial"
        OBVIOUS
      <4>2. n \in d + 1 .. n /\ \A e \in d + 1 .. n : blocks'[e].kind # "trial"
        BY <1>1, <2>3, <4>1 DEF CurrentTrial
      <4>3. \A e \in d + 1 .. Depth : e \in d + 1 .. n /\ e \in 1 .. Depth
        BY <1>1, <2>3
      <4>4. QED
        BY <1>1, <2>1, <2>3, <4>2, <4>3 DEF CurrentTrial
    <3>3. ASSUME NEW e \in 1 .. Depth, NextTrial(d, e)'
          PROVE  NextTrial(d, e)
      <4>1. \A c \in d + 1 .. e - 1 : c \in 1 .. Depth
        BY <1>1, <2>3
      <4>2. QED
        BY <1>1, <3>3, <4>1 DEF NextTrial
    <3>4. ASSUME NEW e \in 1 .. n, e = n, NextTrial(d, e)'
          PROVE  CurrentTrial(d) /\ b.kind = "trial"
      <4>1. \A c \in d + 1 .. Depth : c \in d + 1 .. n - 1 /\ c \in 1 .. Depth
        BY <1>1, <2>3
      <4>2. b.kind = "trial" /\ \A c \in d + 1 .. n - 1 : blocks'[c].kind # "trial"
        BY <1>1, <3>4 DEF NextTrial
      <4>3. blocks[d].kind = "trial" /\ \A c \in d + 1 .. Depth : blocks[c].kind # "trial"
        BY <1>1, <2>1, <2>3, <4>1, <4>2
      <4>4. QED
        BY <4>2, <4>3 DEF CurrentTrial
    <3>5. \A e \in 1 .. n : NextTrial(d, e)' =>
            work'[d] <= blocks'[e].steps /\ blocks'[e].stepLimit = TrialLimit
      BY <1>1, <1>2, <2>3, <3>1, <3>3, <3>4
    <3>6. QED
      BY <1>1, <2>3, <3>1, <3>2, <3>5
  <2>4. QED
    BY <1>2, <2>2, <2>3
<1>10. QED
  BY <1>3, <1>4, <1>5, <1>6, <1>7, <1>8, <1>9 DEF IInv

-----------------------------------------------------------------------------
(* Leaving a block. *)

LEMMA Closed ==
  ASSUME TypeInv, Depth > 0, Close
  PROVE  /\ Depth \in Nat \ {0} /\ Top = blocks[Depth] /\ Top \in Blocks
         /\ blocks' \in Seq(Blocks) /\ Depth' = Depth - 1 /\ blocks' = Front(blocks)
         /\ work' \in Seq(Nat) /\ Len(work') = Depth - 1
         /\ \A d \in 1 .. Depth - 1 : blocks'[d] = blocks[d] /\ work'[d] = work[d]
<1>1. blocks' = Front(blocks) /\ work' = Front(work)
  BY DEF Close
<1>2. /\ Front(blocks) \in Seq(Blocks) /\ Len(Front(blocks)) = Len(blocks) - 1
      /\ Len(blocks) \in Nat \ {0} /\ Last(blocks) = blocks[Len(blocks)] /\ Last(blocks) \in Blocks
      /\ \A d \in 1 .. Len(blocks) - 1 : Front(blocks)[d] = blocks[d]
  BY FrontOf DEF TypeInv, Depth
<1>3. /\ Front(work) \in Seq(Nat) /\ Len(Front(work)) = Len(blocks) - 1
      /\ \A d \in 1 .. Len(blocks) - 1 : Front(work)[d] = work[d]
  BY FrontOf DEF TypeInv, Depth
<1>4. QED
  BY <1>1, <1>2, <1>3 DEF Top, Depth

(* Whether a budget is open once the innermost block has been left.        *)
LEMMA BudgetLeft ==
  ASSUME TypeInv, Depth > 0, Close, blocks[Depth].kind # "budget"
  PROVE  AnyBudget(Front(blocks)) <=> AnyBudget(blocks)
<1>1. /\ Depth \in Nat \ {0} /\ Depth' = Depth - 1 /\ blocks' = Front(blocks)
      /\ \A d \in 1 .. Depth - 1 : blocks'[d] = blocks[d]
  BY Closed
<1>2. \A d \in 1 .. Depth : d \in 1 .. Depth - 1 \/ d = Depth
  BY <1>1
<1>3. \A d \in 1 .. Depth - 1 : d \in 1 .. Depth
  BY <1>1
<1>4. (\E d \in 1 .. Depth - 1 : blocks'[d].kind = "budget")
        <=> \E d \in 1 .. Depth : blocks[d].kind = "budget"
  BY <1>1, <1>2, <1>3
<1>5. QED
  BY <1>1, <1>4 DEF AnyBudget, Depth

LEMMA CloseFresh ==
  ASSUME IInv, Depth > 0, Close
  PROVE  /\ LimitsFresh' /\ FlagsKept'
         /\ steps' \in Nat /\ stepLimit' \in Nat /\ memoryFlag' \in BOOLEAN
<1> DEFINE m == Depth - 1
<1>1. /\ Depth \in Nat \ {0} /\ Top = blocks[Depth] /\ Top \in Blocks
      /\ Depth' = m /\ m \in Nat /\ blocks' = Front(blocks)
      /\ \A d \in 1 .. m : blocks'[d] = blocks[d]
  BY Closed DEF IInv
<1>2. (\A d \in 1 .. m : d \in 1 .. Depth) /\ \A d \in 1 .. Depth : d \in 1 .. m \/ d = Depth
  BY <1>1
<1>3. (\E e \in 1 .. m : blocks'[e].kind = "budget" /\ blocks'[e].unit = "memory")
        <=> \E e \in 1 .. m : blocks[e].kind = "budget" /\ blocks[e].unit = "memory"
  BY <1>1
<1>4. memoryFlag <=> \E d \in 1 .. Depth : blocks[d].kind = "budget" /\ blocks[d].unit = "memory"
  BY DEF IInv, LimitsFresh, BudgetsOf, Depth
<1>5. tickCheck = Retuned(blocks, stepLimit)
  BY DEF IInv, LimitsFresh
<1>6. /\ memoryFlag' \in BOOLEAN
      /\ memoryFlag' <=> \E e \in 1 .. m : blocks[e].kind = "budget" /\ blocks[e].unit = "memory"
  <2>1. CASE Top.kind = "budget"
    <3>1. memoryFlag' = Top.memoryFlag /\ Top.memoryFlag \in BOOLEAN
      BY <1>1, <2>1 DEF Close, Blocks
    <3>2. Top.memoryFlag <=> \E e \in 1 .. m : blocks[e].kind = "budget" /\ blocks[e].unit = "memory"
      BY <1>1, <2>1 DEF IInv, FlagsKept
    <3>3. QED
      BY <3>1, <3>2
  <2>2. CASE Top.kind # "budget"
    <3>1. memoryFlag' = memoryFlag /\ memoryFlag \in BOOLEAN
      BY <2>2 DEF Close, IInv, TypeInv
    <3>2. (\E d \in 1 .. Depth : blocks[d].kind = "budget" /\ blocks[d].unit = "memory")
            <=> \E e \in 1 .. m : blocks[e].kind = "budget" /\ blocks[e].unit = "memory"
      BY <1>1, <1>2, <2>2
    <3>3. QED
      BY <1>4, <3>1, <3>2
  <2>3. QED
    BY <2>1, <2>2
<1>7. steps' \in Nat /\ stepLimit' \in Nat /\ tickCheck' = Retuned(blocks', stepLimit')
  <2>1. CASE Top.kind = "budget"
    BY <1>1, <2>1 DEF Close, IInv, TypeInv
  <2>2. CASE Top.kind = "trial"
    <3>1. /\ steps' = Top.steps /\ stepLimit' = Top.stepLimit
          /\ tickCheck' = Retuned(blocks, Top.stepLimit)
      BY <2>2 DEF Close
    <3>2. Retuned(blocks, Top.stepLimit) = Retuned(blocks', Top.stepLimit)
      BY <1>1, <2>2, BudgetLeft DEF Retuned, IInv
    <3>3. QED
      BY <1>1, <3>1, <3>2 DEF Blocks
  <2>3. CASE Top.kind = "attempt"
    <3>1. UNCHANGED <<steps, stepLimit, tickCheck>>
      BY <2>3 DEF Close
    <3>2. Retuned(blocks, stepLimit) = Retuned(blocks', stepLimit)
      BY <1>1, <2>3, BudgetLeft DEF Retuned, IInv
    <3>3. QED
      BY <1>5, <3>1, <3>2 DEF IInv, TypeInv
  <2>4. QED
    BY <1>1, <2>1, <2>2, <2>3 DEF Blocks
<1>8. LimitsFresh'
  BY <1>1, <1>3, <1>6, <1>7 DEF LimitsFresh, BudgetsOf, Depth
<1>9. FlagsKept'
  <2>1. SUFFICES ASSUME NEW d \in 1 .. m, blocks'[d].kind = "budget"
                 PROVE  blocks'[d].memoryFlag <=> \E e \in 1 .. d - 1 :
                          blocks'[e].kind = "budget" /\ blocks'[e].unit = "memory"
    BY <1>1 DEF FlagsKept
  <2>2. blocks'[d] = blocks[d] /\ d \in 1 .. Depth
    BY <1>1, <1>2
  <2>3. blocks[d].memoryFlag <=> \E e \in 1 .. d - 1 :
          blocks[e].kind = "budget" /\ blocks[e].unit = "memory"
    BY <2>1, <2>2 DEF IInv, FlagsKept
  <2>4. \A e \in 1 .. d - 1 : blocks'[e] = blocks[e]
    BY <1>1
  <2>5. QED
    BY <2>2, <2>3, <2>4
<1>10. QED
  BY <1>6, <1>7, <1>8, <1>9

LEMMA CloseTrials ==
  ASSUME IInv, Depth > 0, Close
  PROVE  TrialsCounted'
<1> DEFINE m == Depth - 1
<1>1. /\ Depth \in Nat \ {0} /\ Top = blocks[Depth] /\ Top \in Blocks /\ Depth' = m /\ m \in Nat
      /\ \A d \in 1 .. m : blocks'[d] = blocks[d] /\ work'[d] = work[d]
  BY Closed DEF IInv
<1>2. SUFFICES ASSUME NEW d \in 1 .. m, blocks'[d].kind = "trial"
               PROVE  /\ work'[d] <= TrialLimit
                      /\ CurrentTrial(d)' => work'[d] <= steps' /\ stepLimit' = TrialLimit
                      /\ \A e \in 1 .. m : NextTrial(d, e)' =>
                           work'[d] <= blocks'[e].steps /\ blocks'[e].stepLimit = TrialLimit
  BY <1>1 DEF TrialsCounted
<1>3. d \in 1 .. Depth /\ blocks'[d] = blocks[d] /\ work'[d] = work[d]
  BY <1>1
<1>4. /\ work[d] <= TrialLimit
      /\ CurrentTrial(d) => work[d] <= steps /\ stepLimit = TrialLimit
      /\ \A e \in 1 .. Depth : NextTrial(d, e) =>
           work[d] <= blocks[e].steps /\ blocks[e].stepLimit = TrialLimit
  BY <1>2, <1>3 DEF IInv, TrialsCounted
<1>5. ASSUME CurrentTrial(d)'
      PROVE  work[d] <= steps' /\ stepLimit' = TrialLimit
  <2>1. \A c \in d + 1 .. m : blocks[c].kind # "trial"
    <3>1. \A c \in d + 1 .. m : c \in 1 .. m
      OBVIOUS
    <3>2. QED
      BY <1>1, <1>5, <3>1 DEF CurrentTrial
  <2>2. CASE Top.kind = "trial"
    <3>1. NextTrial(d, Depth)
      BY <1>1, <2>1, <2>2 DEF NextTrial
    <3>2. steps' = Top.steps /\ stepLimit' = Top.stepLimit
      BY <2>2 DEF Close
    <3>3. QED
      BY <1>1, <1>4, <3>1, <3>2
  <2>3. CASE Top.kind # "trial"
    <3>1. \A c \in d + 1 .. Depth : c \in d + 1 .. m \/ c = Depth
      BY <1>1
    <3>2. CurrentTrial(d)
      BY <1>1, <1>2, <1>3, <2>1, <2>3, <3>1 DEF CurrentTrial
    <3>3. steps' = steps /\ stepLimit' = stepLimit
      BY <1>1, <2>3 DEF Close, Blocks
    <3>4. QED
      BY <1>4, <3>2, <3>3
  <2>4. QED
    BY <2>2, <2>3
<1>6. ASSUME NEW e \in 1 .. m, NextTrial(d, e)'
      PROVE  work[d] <= blocks'[e].steps /\ blocks'[e].stepLimit = TrialLimit
  <2>1. \A c \in d + 1 .. e - 1 : c \in 1 .. m
    BY <1>1
  <2>2. NextTrial(d, e) /\ e \in 1 .. Depth
    BY <1>1, <1>6, <2>1 DEF NextTrial
  <2>3. QED
    BY <1>1, <1>4, <2>2
<1>7. QED
  BY <1>3, <1>4, <1>5, <1>6

(* A budget's stop ends at the budget's own block, and only there.         *)
LEMMA CloseKeeps ==
  ASSUME IInv, Depth > 0, Close,
         raised' \in [what : {"none", "error", "budget"}, depth : Nat],
         raised'.what = "budget" => raised' = raised /\ raised.depth # Depth,
         raised.what = "budget" /\ raised.depth # Depth => raised' = raised
  PROVE  IInv'
<1> DEFINE m == Depth - 1
<1>1. /\ Depth \in Nat \ {0} /\ Depth' = m /\ m \in Nat /\ blocks' \in Seq(Blocks)
      /\ work' \in Seq(Nat) /\ Len(work') = m
      /\ \A d \in 1 .. m : blocks'[d] = blocks[d] /\ work'[d] = work[d]
  BY Closed DEF IInv
<1>2. \A d \in 1 .. m : d \in 1 .. Depth /\ d # Depth
  BY <1>1
<1>3. TypeInv'
  BY <1>1, CloseFresh DEF TypeInv, Depth
<1>4. raised.what = "budget" => raised.depth \in 1 .. Depth /\ blocks[raised.depth].kind = "budget"
  BY DEF IInv, StopsHaveHomes
<1>5. StopsHaveHomes'
  <2>1. SUFFICES ASSUME raised'.what = "budget"
                 PROVE  raised'.depth \in 1 .. m /\ blocks'[raised'.depth].kind = "budget"
    BY <1>1 DEF StopsHaveHomes
  <2>2. raised' = raised /\ raised.depth # Depth
    BY <2>1
  <2>3. raised.depth \in 1 .. m
    BY <1>1, <1>4, <2>1, <2>2
  <2>4. QED
    BY <1>1, <1>4, <2>1, <2>2, <2>3
<1>6. Spent'
  <2>1. SUFFICES ASSUME NEW d \in 1 .. m, blocks'[d].kind = "budget"
                 PROVE  /\ work'[d] <= blocks'[d].used /\ work'[d] <= blocks'[d].limit
                        /\ blocks'[d].used > blocks'[d].limit =>
                             raised'.what = "budget" /\ raised'.depth = d
    BY <1>1 DEF Spent
  <2>2. /\ work[d] <= blocks[d].used /\ work[d] <= blocks[d].limit
        /\ blocks[d].used > blocks[d].limit => raised.what = "budget" /\ raised.depth = d
    BY <1>1, <1>2, <2>1 DEF IInv, Spent
  <2>3. d # Depth
    BY <1>2
  <2>4. QED
    BY <1>1, <2>2, <2>3
<1>7. Tightened'
  <2>1. SUFFICES ASSUME NEW d \in 1 .. m, NEW e \in 1 .. m, d <= e, Charged(e)',
                        blocks'[d].kind = "budget", blocks'[e].kind = "budget",
                        blocks'[d].unit = blocks'[e].unit
                 PROVE  Remaining(e)' <= Remaining(d)'
    BY <1>1 DEF Tightened
  <2>2. Charged(e)
    <3>1. SUFFICES ASSUME raised.what = "budget" PROVE e <= raised.depth
      BY DEF Charged
    <3>2. CASE raised.depth = Depth
      BY <1>1, <3>2
    <3>3. CASE raised.depth # Depth
      BY <2>1, <3>1, <3>3 DEF Charged
    <3>4. QED
      BY <3>2, <3>3
  <2>3. Remaining(e) <= Remaining(d)
    BY <1>1, <1>2, <2>1, <2>2 DEF IInv, Tightened
  <2>4. QED
    BY <1>1, <2>3 DEF Remaining
<1>8. QED
  BY <1>3, <1>5, <1>6, <1>7, CloseFresh, CloseTrials DEF IInv

-----------------------------------------------------------------------------
(* Charging. *)

(* The blocks that are open stay so, but for what they have used.          *)
SameBlocks ==
  /\ blocks' \in Seq(Blocks) /\ Depth' = Depth
  /\ \A d \in 1 .. Depth : \A f \in {"kind", "unit", "limit", "steps", "stepLimit", "memoryFlag"} :
       blocks'[d][f] = blocks[d][f]

LEMMA SameFresh ==
  ASSUME IInv, SameBlocks, UNCHANGED <<stepLimit, tickCheck, memoryFlag>>
  PROVE  LimitsFresh' /\ FlagsKept'
<1>1. Depth' = Depth /\ Depth \in Nat
  BY DEF SameBlocks, IInv, TypeInv, Depth
<1>2. \A d \in 1 .. Depth :
        blocks'[d].kind = blocks[d].kind /\ blocks'[d].unit = blocks[d].unit
  BY DEF SameBlocks
<1>3. AnyBudget(blocks') <=> AnyBudget(blocks)
  BY <1>1, <1>2 DEF AnyBudget, Depth
<1>4. BudgetsOf(blocks', "memory") = BudgetsOf(blocks, "memory")
  BY <1>1, <1>2 DEF BudgetsOf, Depth
<1>5. LimitsFresh'
  BY <1>3, <1>4 DEF IInv, LimitsFresh, Retuned
<1>6. FlagsKept'
  <2>1. SUFFICES ASSUME NEW d \in 1 .. Depth, blocks'[d].kind = "budget"
                 PROVE  blocks'[d].memoryFlag <=> \E e \in 1 .. d - 1 :
                          blocks'[e].kind = "budget" /\ blocks'[e].unit = "memory"
    BY <1>1 DEF FlagsKept
  <2>2. blocks'[d].memoryFlag = blocks[d].memoryFlag
    BY DEF SameBlocks
  <2>3. blocks[d].memoryFlag <=> \E e \in 1 .. d - 1 :
          blocks[e].kind = "budget" /\ blocks[e].unit = "memory"
    BY <1>2, <2>1 DEF IInv, FlagsKept
  <2>4. \A e \in 1 .. d - 1 : e \in 1 .. Depth
    BY <1>1
  <2>5. (\E e \in 1 .. d - 1 : blocks'[e].kind = "budget" /\ blocks'[e].unit = "memory")
          <=> \E e \in 1 .. d - 1 : blocks[e].kind = "budget" /\ blocks[e].unit = "memory"
    BY <1>2, <2>4
  <2>6. QED
    BY <2>2, <2>3, <2>5
<1>7. QED
  BY <1>5, <1>6

(* The current trial may count what the step counter has gone up by, as    *)
(* long as that stays within the step limit.                               *)
LEMMA SameTrials ==
  ASSUME IInv, SameBlocks, stepLimit' = stepLimit, steps' \in Nat, steps' >= steps,
         \A d \in 1 .. Depth : blocks[d].kind = "trial" =>
           \/ work'[d] = work[d]
           \/ /\ CurrentTrial(d) /\ work'[d] = work[d] + 1
              /\ steps' = steps + 1 /\ steps' <= stepLimit
  PROVE  TrialsCounted'
<1>1. Depth' = Depth /\ Depth \in Nat /\ steps \in Nat /\ stepLimit \in Nat
  BY DEF SameBlocks, IInv, TypeInv, Depth
<1>2. \A d \in 1 .. Depth : /\ blocks'[d].kind = blocks[d].kind /\ blocks'[d].steps = blocks[d].steps
                            /\ blocks'[d].stepLimit = blocks[d].stepLimit
  BY DEF SameBlocks
<1>3. SUFFICES ASSUME NEW d \in 1 .. Depth, blocks'[d].kind = "trial"
               PROVE  /\ work'[d] <= TrialLimit
                      /\ CurrentTrial(d)' => work'[d] <= steps' /\ stepLimit' = TrialLimit
                      /\ \A e \in 1 .. Depth : NextTrial(d, e)' =>
                           work'[d] <= blocks'[e].steps /\ blocks'[e].stepLimit = TrialLimit
  BY <1>1 DEF TrialsCounted
<1>4. blocks[d].kind = "trial" /\ work[d] \in Nat
  BY <1>2, <1>3, ElementOfSeq DEF IInv, TypeInv, Depth
<1>5. /\ work[d] <= TrialLimit
      /\ CurrentTrial(d) => work[d] <= steps /\ stepLimit = TrialLimit
      /\ \A e \in 1 .. Depth : NextTrial(d, e) =>
           work[d] <= blocks[e].steps /\ blocks[e].stepLimit = TrialLimit
  BY <1>4 DEF IInv, TrialsCounted
<1>6. CurrentTrial(d)' => CurrentTrial(d)
  <2>1. \A e \in d + 1 .. Depth : e \in 1 .. Depth
    BY <1>1
  <2>2. QED
    BY <1>1, <1>2, <2>1 DEF CurrentTrial
<1>7. ASSUME NEW e \in 1 .. Depth, NextTrial(d, e)'
      PROVE  NextTrial(d, e) /\ ~ CurrentTrial(d)
  <2>1. \A c \in d + 1 .. e - 1 : c \in 1 .. Depth
    BY <1>1
  <2>2. NextTrial(d, e)
    BY <1>2, <1>7, <2>1 DEF NextTrial
  <2>3. e \in d + 1 .. Depth /\ blocks[e].kind = "trial"
    BY <1>1, <2>2 DEF NextTrial
  <2>4. QED
    BY <2>2, <2>3 DEF CurrentTrial
<1>8. \/ work'[d] = work[d]
      \/ /\ CurrentTrial(d) /\ work'[d] = work[d] + 1
         /\ steps' = steps + 1 /\ steps' <= stepLimit
  BY <1>4
<1>9. work'[d] <= TrialLimit
  BY <1>1, <1>4, <1>5, <1>8
<1>10. CurrentTrial(d)' => work'[d] <= steps' /\ stepLimit' = TrialLimit
  BY <1>1, <1>4, <1>5, <1>6, <1>8
<1>11. \A e \in 1 .. Depth : NextTrial(d, e)' =>
         work'[d] <= blocks'[e].steps /\ blocks'[e].stepLimit = TrialLimit
  BY <1>2, <1>5, <1>7, <1>8
<1>12. QED
  BY <1>9, <1>10, <1>11

LEMMA Paying ==
  ASSUME NEW b \in Blocks, NEW k
  PROVE  /\ \A f \in {"kind", "unit", "limit", "steps", "stepLimit", "memoryFlag"} :
              [b EXCEPT !.used = k][f] = b[f]
         /\ [b EXCEPT !.used = k].used = k
<1>1. DOMAIN b = {"kind", "unit", "limit", "used", "steps", "stepLimit", "memoryFlag"}
  BY DEF Blocks
<1>2. QED
  BY <1>1

(* What a charge does: the budgets of the unit pay, all of them or those   *)
(* as far in as the outermost that it exhausts.                            *)
LEMMA ChargeIs ==
  ASSUME IInv, Running, NEW unit, NEW n \in Nat, Charge(unit, n)
  PROVE  /\ SameBlocks
         /\ work' \in Seq(Nat) /\ Len(work') = Depth
         /\ raised' \in [what : {"none", "error", "budget"}, depth : Nat]
         /\ \/ /\ raised' = raised
               /\ \A d \in BudgetsOf(blocks, unit) :
                    /\ blocks[d].used + n <= blocks[d].limit
                    /\ blocks'[d].used = blocks[d].used + n /\ work'[d] = work[d] + n
               /\ \A d \in (1 .. Depth) \ BudgetsOf(blocks, unit) :
                    /\ blocks'[d].used = blocks[d].used
                    /\ work'[d] = IF unit = "steps" /\ CurrentTrial(d) THEN work[d] + n ELSE work[d]
            \/ \E m \in BudgetsOf(blocks, unit) :
                 /\ raised'.what = "budget" /\ raised'.depth = m
                 /\ work' = work
                 /\ \A d \in BudgetsOf(blocks, unit) :
                      /\ d < m => blocks[d].used + n <= blocks[d].limit
                      /\ blocks'[d].used = IF d <= m THEN blocks[d].used + n ELSE blocks[d].used
                 /\ \A d \in (1 .. Depth) \ BudgetsOf(blocks, unit) :
                      blocks'[d].used = blocks[d].used
<1> DEFINE over == Exhausted(unit, n)
           budgets == BudgetsOf(blocks, unit)
           reached == IF over = {} THEN budgets ELSE {d \in budgets : d <= Outermost(over)}
           paid(d) == IF d \in reached THEN [blocks[d] EXCEPT !.used = @ + n] ELSE blocks[d]
           worked(d) == IF d \in budgets \/ (unit = "steps" /\ CurrentTrial(d))
                        THEN work[d] + n ELSE work[d]
<1>1. /\ blocks' = [d \in 1 .. Depth |-> paid(d)]
      /\ raised' = IF over = {} THEN raised ELSE [what |-> "budget", depth |-> Outermost(over)]
      /\ work' = IF over # {} THEN work ELSE [d \in 1 .. Depth |-> worked(d)]
  BY DEF Charge
<1>2. Depth \in Nat /\ Len(work) = Depth /\ work \in Seq(Nat)
  BY DEF IInv, TypeInv, Depth
<1>3. \A d \in 1 .. Depth : blocks[d] \in Blocks /\ work[d] \in Nat
  BY <1>2, ElementOfSeq DEF IInv, TypeInv, Depth
<1>4. budgets \subseteq 1 .. Depth /\ over \subseteq budgets
  BY DEF BudgetsOf, Exhausted, Depth
<1>5. \A d \in 1 .. Depth : paid(d) \in Blocks
  BY <1>3 DEF Blocks
<1>6. \A d \in 1 .. Depth : worked(d) \in Nat
  BY <1>3
<1>7. \A d \in 1 .. Depth :
        /\ \A f \in {"kind", "unit", "limit", "steps", "stepLimit", "memoryFlag"} :
             paid(d)[f] = blocks[d][f]
        /\ paid(d).used = IF d \in reached THEN blocks[d].used + n ELSE blocks[d].used
  <2> HIDE DEF reached
  <2>1. QED
    BY <1>3, Paying
<1>8. blocks' \in Seq(Blocks) /\ Len(blocks') = Depth
  <2> HIDE DEF paid
  <2>1. QED
    BY <1>1, <1>2, <1>5, IsASeq
<1>9. SameBlocks
  <2> HIDE DEF paid
  <2>1. QED
    BY <1>1, <1>7, <1>8 DEF SameBlocks, Depth
<1>10. \A d \in 1 .. Depth :
         blocks'[d].used = IF d \in reached THEN blocks[d].used + n ELSE blocks[d].used
  <2> HIDE DEF paid, reached
  <2>1. QED
    BY <1>1, <1>7
<1>11. CASE over = {}
  <2>1. work' = [d \in 1 .. Depth |-> worked(d)] /\ raised' = raised /\ reached = budgets
    BY <1>1, <1>11
  <2>2. work' \in Seq(Nat) /\ Len(work') = Depth
    <3> HIDE DEF worked
    <3>1. QED
      BY <1>2, <1>6, <2>1, IsASeq
  <2>3. \A d \in budgets : /\ blocks[d].used + n <= blocks[d].limit
                           /\ blocks'[d].used = blocks[d].used + n /\ work'[d] = work[d] + n
    <3>1. SUFFICES ASSUME NEW d \in budgets
                   PROVE  /\ blocks[d].used + n <= blocks[d].limit
                          /\ blocks'[d].used = blocks[d].used + n /\ work'[d] = work[d] + n
      OBVIOUS
    <3>2. d \in 1 .. Depth /\ blocks[d] \in Blocks
      BY <1>3, <1>4
    <3>3. ~ (blocks[d].used + n > blocks[d].limit)
      BY <1>11 DEF Exhausted
    <3>4. blocks[d].used + n <= blocks[d].limit
      BY <3>2, <3>3 DEF Blocks
    <3>5. QED
      BY <1>10, <2>1, <3>2, <3>4
  <2>4. \A d \in (1 .. Depth) \ budgets :
          /\ blocks'[d].used = blocks[d].used
          /\ work'[d] = IF unit = "steps" /\ CurrentTrial(d) THEN work[d] + n ELSE work[d]
    BY <1>10, <2>1
  <2>5. QED
    BY <1>9, <2>1, <2>2, <2>3, <2>4 DEF IInv, TypeInv
<1>12. CASE over # {}
  <2> DEFINE m == Outermost(over)
  <2>1. m \in over /\ \A e \in over : m <= e
    BY <1>2, <1>4, <1>12, OutermostIs
  <2>2. m \in budgets /\ m \in Nat
    BY <1>4, <2>1
  <2>3. work' = work /\ raised' = [what |-> "budget", depth |-> m]
    BY <1>1, <1>12
  <2>4. reached = {d \in budgets : d <= m}
    BY <1>12
  <2> HIDE DEF m, reached
  <2>5. \A d \in budgets : /\ d < m => blocks[d].used + n <= blocks[d].limit
                           /\ blocks'[d].used = IF d <= m THEN blocks[d].used + n ELSE blocks[d].used
    <3>1. SUFFICES ASSUME NEW d \in budgets
                   PROVE  /\ d < m => blocks[d].used + n <= blocks[d].limit
                          /\ blocks'[d].used = IF d <= m THEN blocks[d].used + n ELSE blocks[d].used
      OBVIOUS
    <3>2. d \in 1 .. Depth /\ blocks[d] \in Blocks
      BY <1>3, <1>4
    <3>3. d < m => d \notin over
      BY <2>1, <2>2, <3>2
    <3>4. d < m => ~ (blocks[d].used + n > blocks[d].limit)
      BY <3>3 DEF Exhausted
    <3>5. d < m => blocks[d].used + n <= blocks[d].limit
      BY <3>2, <3>4 DEF Blocks
    <3>6. QED
      BY <1>10, <2>4, <3>2, <3>5
  <2>6. \A d \in (1 .. Depth) \ budgets : blocks'[d].used = blocks[d].used
    BY <1>10, <2>4
  <2>7. raised' \in [what : {"none", "error", "budget"}, depth : Nat]
        /\ raised'.what = "budget" /\ raised'.depth = m
    BY <2>2, <2>3
  <2> HIDE DEF budgets
  <2>8. \E k \in budgets :
          /\ raised'.what = "budget" /\ raised'.depth = k
          /\ work' = work
          /\ \A d \in budgets :
               /\ d < k => blocks[d].used + n <= blocks[d].limit
               /\ blocks'[d].used = IF d <= k THEN blocks[d].used + n ELSE blocks[d].used
          /\ \A d \in (1 .. Depth) \ budgets : blocks'[d].used = blocks[d].used
    BY <2>2, <2>3, <2>5, <2>6, <2>7
  <2>9. QED
    BY <1>2, <1>9, <2>3, <2>7, <2>8 DEF budgets
<1>13. QED
  BY <1>11, <1>12

(* A charge made while code runs: what goes through counts, and what does  *)
(* not overdraws the one budget it stops at.                               *)
LEMMA ChargeKeeps ==
  ASSUME IInv, Running, NEW unit, NEW n \in Nat, Charge(unit, n),
         UNCHANGED <<stepLimit, tickCheck, memoryFlag>>, steps' \in Nat, steps' >= steps,
         unit = "steps" => n = 1 /\ steps' = steps + 1 /\ steps' <= stepLimit
  PROVE  IInv'
<1> DEFINE budgets == BudgetsOf(blocks, unit)
           through == /\ raised' = raised
                      /\ \A d \in budgets :
                           /\ blocks[d].used + n <= blocks[d].limit
                           /\ blocks'[d].used = blocks[d].used + n /\ work'[d] = work[d] + n
                      /\ \A d \in (1 .. Depth) \ budgets :
                           /\ blocks'[d].used = blocks[d].used
                           /\ work'[d] = IF unit = "steps" /\ CurrentTrial(d) THEN work[d] + n ELSE work[d]
           stopped(m) == /\ raised'.what = "budget" /\ raised'.depth = m
                         /\ work' = work
                         /\ \A d \in budgets :
                              /\ d < m => blocks[d].used + n <= blocks[d].limit
                              /\ blocks'[d].used = IF d <= m THEN blocks[d].used + n ELSE blocks[d].used
                         /\ \A d \in (1 .. Depth) \ budgets : blocks'[d].used = blocks[d].used
<1>1. /\ SameBlocks
      /\ work' \in Seq(Nat) /\ Len(work') = Depth
      /\ raised' \in [what : {"none", "error", "budget"}, depth : Nat]
      /\ through \/ \E m \in budgets : stopped(m)
  BY ChargeIs
<1>2. Depth' = Depth /\ Depth \in Nat /\ steps \in Nat
  BY <1>1 DEF SameBlocks, IInv, TypeInv, Depth
<1>3. \A d \in 1 .. Depth :
        /\ blocks'[d].kind = blocks[d].kind /\ blocks'[d].unit = blocks[d].unit
        /\ blocks'[d].limit = blocks[d].limit
  BY <1>1 DEF SameBlocks
<1>4. \A d \in 1 .. Depth : blocks[d].used \in Nat /\ blocks[d].limit \in Nat /\ work[d] \in Nat
  <2>1. \A d \in 1 .. Depth : blocks[d] \in Blocks /\ work[d] \in Nat
    BY ElementOfSeq DEF IInv, TypeInv, Depth
  <2>2. QED
    BY <2>1 DEF Blocks
<1>5. budgets \subseteq 1 .. Depth /\ \A d \in 1 .. Depth :
        d \in budgets <=> blocks[d].kind = "budget" /\ blocks[d].unit = unit
  BY DEF BudgetsOf, Depth
<1>6. TypeInv'
  BY <1>1, <1>2 DEF SameBlocks, IInv, TypeInv, Depth
<1>7. raised.what = "none"
  BY DEF Running
<1>8. StopsHaveHomes'
  <2>1. CASE through
    BY <1>7, <2>1 DEF StopsHaveHomes
  <2>2. ASSUME NEW m \in budgets, stopped(m) PROVE StopsHaveHomes'
    BY <1>2, <1>3, <1>5, <2>2 DEF StopsHaveHomes
  <2>3. QED
    BY <1>1, <2>1, <2>2
<1>9. \A d \in 1 .. Depth : blocks[d].kind = "budget" =>
        work[d] <= blocks[d].used /\ work[d] <= blocks[d].limit /\ blocks[d].used <= blocks[d].limit
  BY <1>4, <1>7 DEF IInv, Spent
<1>10. Spent'
  <2>1. SUFFICES ASSUME NEW d \in 1 .. Depth, blocks[d].kind = "budget"
                 PROVE  /\ work'[d] <= blocks'[d].used /\ work'[d] <= blocks'[d].limit
                        /\ blocks'[d].used > blocks'[d].limit =>
                             raised'.what = "budget" /\ raised'.depth = d
    BY <1>2, <1>3 DEF Spent
  <2>2. /\ work[d] <= blocks[d].used /\ work[d] <= blocks[d].limit /\ blocks[d].used <= blocks[d].limit
        /\ blocks[d].used \in Nat /\ blocks[d].limit \in Nat /\ work[d] \in Nat
        /\ blocks'[d].limit = blocks[d].limit
    BY <1>3, <1>4, <1>9, <2>1
  <2>3. CASE through
    <3>1. CASE d \in budgets
      BY <2>2, <2>3, <3>1
    <3>2. CASE d \notin budgets
      <4>1. ~ CurrentTrial(d)
        BY <2>1 DEF CurrentTrial
      <4>2. blocks'[d].used = blocks[d].used /\ work'[d] = work[d]
        BY <2>3, <3>2, <4>1
      <4>3. QED
        BY <2>2, <4>2
    <3>3. QED
      BY <3>1, <3>2
  <2>4. ASSUME NEW m \in budgets, stopped(m)
        PROVE  /\ work'[d] <= blocks'[d].used /\ work'[d] <= blocks'[d].limit
               /\ blocks'[d].used > blocks'[d].limit => raised'.what = "budget" /\ raised'.depth = d
    <3>1. m \in Nat /\ d \in Nat
      BY <1>5
    <3>2. work'[d] = work[d]
      BY <2>4
    <3>3. CASE d \in budgets
      BY <2>2, <2>4, <3>1, <3>2, <3>3
    <3>4. CASE d \notin budgets
      BY <2>2, <2>4, <3>2, <3>4
    <3>5. QED
      BY <3>3, <3>4
  <2>5. QED
    BY <1>1, <2>3, <2>4
<1>11. Tightened'
  <2>1. SUFFICES ASSUME NEW d \in 1 .. Depth, NEW e \in 1 .. Depth, d <= e, Charged(e)',
                        blocks[d].kind = "budget", blocks[e].kind = "budget",
                        blocks[d].unit = blocks[e].unit
                 PROVE  Remaining(e)' <= Remaining(d)'
    BY <1>2, <1>3 DEF Tightened
  <2>2. Remaining(e) <= Remaining(d)
    <3>1. Charged(e)
      BY <1>7 DEF Charged
    <3>2. QED
      BY <2>1, <3>1 DEF IInv, Tightened
  <2>3. d \in budgets <=> e \in budgets
    BY <1>5, <2>1
  <2>4. \/ /\ blocks'[d].used = blocks[d].used + n /\ blocks'[e].used = blocks[e].used + n
        \/ /\ blocks'[d].used = blocks[d].used /\ blocks'[e].used = blocks[e].used
    <3>1. CASE through
      BY <2>3, <3>1
    <3>2. ASSUME NEW m \in budgets, stopped(m), d \in budgets
          PROVE  blocks'[d].used = blocks[d].used + n /\ blocks'[e].used = blocks[e].used + n
      <4>1. e <= m /\ d <= m
        BY <1>5, <2>1, <3>2 DEF Charged
      <4>2. QED
        BY <2>3, <3>2, <4>1
    <3>3. ASSUME NEW m \in budgets, stopped(m), d \notin budgets
          PROVE  blocks'[d].used = blocks[d].used /\ blocks'[e].used = blocks[e].used
      BY <2>3, <3>3
    <3>4. QED
      BY <1>1, <3>1, <3>2, <3>3
  <2>5. QED
    BY <1>3, <1>4, <2>2, <2>4 DEF Remaining
<1>12. TrialsCounted'
  <2>1. ASSUME NEW d \in 1 .. Depth, blocks[d].kind = "trial"
        PROVE  \/ work'[d] = work[d]
               \/ /\ CurrentTrial(d) /\ work'[d] = work[d] + 1
                  /\ steps' = steps + 1 /\ steps' <= stepLimit
    <3>1. d \notin budgets
      BY <1>5, <2>1
    <3>2. CASE through
      BY <3>1, <3>2
    <3>3. ASSUME NEW m \in budgets, stopped(m) PROVE work'[d] = work[d]
      BY <3>3
    <3>4. QED
      BY <1>1, <3>2, <3>3
  <2>2. QED
    BY <1>1, <2>1, SameTrials
<1>13. LimitsFresh' /\ FlagsKept'
  BY <1>1, SameFresh
<1>14. QED
  BY <1>6, <1>8, <1>10, <1>11, <1>12, <1>13 DEF IInv

(* A step that charges nothing, though a trial may count it.               *)
LEMMA UnchargedKeeps ==
  ASSUME IInv, UNCHANGED <<blocks, stepLimit, tickCheck, memoryFlag>>,
         steps' \in Nat, steps' >= steps,
         raised' \in [what : {"none", "error", "budget"}, depth : Nat],
         raised' = raised \/ (raised.what # "budget" /\ raised'.what # "budget"),
         work' \in Seq(Nat), Len(work') = Depth,
         \A d \in 1 .. Depth :
           \/ work'[d] = work[d]
           \/ /\ CurrentTrial(d) /\ work'[d] = work[d] + 1
              /\ steps' = steps + 1 /\ steps' <= stepLimit
  PROVE  IInv'
<1>1. SameBlocks /\ Depth' = Depth
  BY DEF SameBlocks, IInv, TypeInv, Depth
<1>2. TypeInv'
  BY <1>1 DEF IInv, TypeInv, Depth
<1>3. StopsHaveHomes'
  BY <1>1 DEF IInv, StopsHaveHomes
<1>4. Spent'
  <2>1. SUFFICES ASSUME NEW d \in 1 .. Depth, blocks[d].kind = "budget"
                 PROVE  /\ work'[d] <= blocks[d].used /\ work'[d] <= blocks[d].limit
                        /\ blocks[d].used > blocks[d].limit => raised'.what = "budget" /\ raised'.depth = d
    BY <1>1 DEF Spent
  <2>2. ~ CurrentTrial(d)
    BY <2>1 DEF CurrentTrial
  <2>3. QED
    BY <2>1, <2>2 DEF IInv, Spent
<1>5. Tightened'
  <2>1. \A e : Charged(e)' => Charged(e)
    BY DEF Charged
  <2>2. QED
    BY <1>1, <2>1 DEF IInv, Tightened, Remaining
<1>6. QED
  BY <1>1, <1>2, <1>3, <1>4, <1>5, SameFresh, SameTrials DEF IInv

-----------------------------------------------------------------------------
(* The actions. *)

LEMMA AttemptKeeps == BudgetsAssumption /\ IInv /\ EnterAttempt => IInv'
<1> SUFFICES ASSUME BudgetsAssumption, IInv, EnterAttempt PROVE IInv'
  OBVIOUS
<1> DEFINE b == Block("attempt", "none", 0)
<1>1. /\ b \in Blocks /\ b.kind = "attempt" /\ b.used = 0 /\ b.steps = steps
      /\ b.stepLimit = stepLimit /\ (b.memoryFlag <=> memoryFlag)
  BY DEF Block, Blocks, IInv, TypeInv
<1>2. Push(b) /\ UNCHANGED <<steps, stepLimit, tickCheck, memoryFlag>>
  BY DEF EnterAttempt
<1> HIDE DEF b
<1>3. tickCheck' = Retuned(blocks', stepLimit')
  <2>1. /\ Depth' = Depth + 1 /\ Depth \in Nat /\ blocks'[Depth + 1] = b
        /\ \A d \in 1 .. Depth : blocks'[d] = blocks[d]
    BY <1>1, <1>2, Pushed DEF IInv
  <2>2. (\A d \in 1 .. Depth + 1 : d \in 1 .. Depth \/ d = Depth + 1)
        /\ \A d \in 1 .. Depth : d \in 1 .. Depth + 1
    BY <2>1
  <2>3. AnyBudget(blocks') <=> AnyBudget(blocks)
    BY <1>1, <2>1, <2>2 DEF AnyBudget, Depth
  <2>4. QED
    BY <1>2, <2>3 DEF IInv, LimitsFresh, Retuned
<1>4. memoryFlag' \in BOOLEAN /\ memoryFlag' = memoryFlag
  BY <1>2 DEF IInv, TypeInv
<1>5. Saves(b)
  BY <1>1 DEF Saves
<1>6. Enters(b)
  BY <1>1, <1>2, <1>3, <1>4 DEF Enters
<1>7. QED
  BY <1>1, <1>2, <1>5, <1>6, PushKeeps

LEMMA TrialKeeps == BudgetsAssumption /\ IInv /\ EnterTrial => IInv'
<1> SUFFICES ASSUME BudgetsAssumption, IInv, EnterTrial PROVE IInv'
  OBVIOUS
<1> DEFINE b == Block("trial", "none", 0)
<1>1. /\ b \in Blocks /\ b.kind = "trial" /\ b.used = 0 /\ b.steps = steps
      /\ b.stepLimit = stepLimit /\ (b.memoryFlag <=> memoryFlag)
  BY DEF Block, Blocks, IInv, TypeInv
<1>2. /\ Push(b) /\ steps' = 0 /\ stepLimit' = TrialLimit
      /\ tickCheck' = Retuned(blocks, TrialLimit) /\ memoryFlag' = memoryFlag
  BY DEF EnterTrial
<1> HIDE DEF b
<1>3. tickCheck' = Retuned(blocks', stepLimit')
  <2>1. /\ Depth' = Depth + 1 /\ Depth \in Nat /\ blocks'[Depth + 1] = b
        /\ \A d \in 1 .. Depth : blocks'[d] = blocks[d]
    BY <1>1, <1>2, Pushed DEF IInv
  <2>2. (\A d \in 1 .. Depth + 1 : d \in 1 .. Depth \/ d = Depth + 1)
        /\ \A d \in 1 .. Depth : d \in 1 .. Depth + 1
    BY <2>1
  <2>3. AnyBudget(blocks') <=> AnyBudget(blocks)
    BY <1>1, <2>1, <2>2 DEF AnyBudget, Depth
  <2>4. QED
    BY <1>2, <2>3 DEF Retuned
<1>4. memoryFlag' \in BOOLEAN
  BY <1>2 DEF IInv, TypeInv
<1>5. Saves(b)
  BY <1>1 DEF Saves
<1>6. Enters(b)
  BY <1>1, <1>2, <1>3, <1>4 DEF Enters
<1>7. QED
  BY <1>1, <1>2, <1>5, <1>6, PushKeeps

LEMMA BudgetKeeps ==
  ASSUME BudgetsAssumption, IInv, NEW unit \in Units, NEW requested \in Requests,
         EnterBudget(unit, requested)
  PROVE  IInv'
<1>1. PICK limit \in Allowed(unit, requested) :
        Push(Block("budget", unit, IF limit < 0 THEN 0 ELSE limit))
  BY DEF EnterBudget
<1> DEFINE given == IF limit < 0 THEN 0 ELSE limit
           b == Block("budget", unit, given)
<1>2. /\ tickCheck' = Retuned(blocks', stepLimit') /\ steps' = steps /\ stepLimit' = stepLimit
      /\ memoryFlag' = (memoryFlag \/ unit = "memory")
  BY DEF EnterBudget
<1>3. Depth \in Nat /\ \A d \in 1 .. Depth : blocks[d].limit \in Nat /\ blocks[d].used \in Nat
  <2>1. \A d \in 1 .. Depth : blocks[d] \in Blocks
    BY ElementOfSeq DEF IInv, TypeInv, Depth
  <2>2. \A d \in 1 .. Depth : blocks[d].limit \in Nat /\ blocks[d].used \in Nat
    BY <2>1 DEF Blocks
  <2>3. Depth \in Nat
    BY LenProperties DEF IInv, TypeInv, Depth
  <2>4. QED
    BY <2>2, <2>3
<1>4. limit \in Int /\ \A d \in BudgetsOf(blocks, unit) : limit <= Remaining(d)
  <2>1. \A d \in BudgetsOf(blocks, unit) : Remaining(d) \in Int
    BY <1>3 DEF BudgetsOf, Remaining, Depth
  <2>2. requested \in Int
    BY DEF BudgetsAssumption
  <2>3. QED
    BY <2>1, <2>2 DEF Allowed
<1>5. given \in Nat
  BY <1>4
<1>6. /\ b \in Blocks /\ b.kind = "budget" /\ b.unit = unit /\ b.limit = given /\ b.used = 0
      /\ b.steps = steps /\ b.stepLimit = stepLimit /\ (b.memoryFlag <=> memoryFlag)
  <2> HIDE DEF given
  <2>1. QED
    BY <1>5 DEF Block, Blocks, IInv, TypeInv
<1>7. \A d \in 1 .. Depth : blocks[d].kind = "budget" /\ blocks[d].unit = unit
                              => given <= Remaining(d)
  <2>1. SUFFICES ASSUME NEW d \in 1 .. Depth, blocks[d].kind = "budget", blocks[d].unit = unit
                 PROVE  given <= Remaining(d)
    OBVIOUS
  <2>2. raised.what = "none"
    BY <1>1 DEF Push, Running
  <2>3. ~ (blocks[d].used > blocks[d].limit)
    BY <2>1, <2>2 DEF IInv, Spent
  <2>4. 0 <= Remaining(d)
    BY <1>3, <2>3 DEF Remaining
  <2>5. limit <= Remaining(d)
    BY <1>4, <2>1 DEF BudgetsOf, Depth
  <2>6. QED
    BY <2>4, <2>5
<1>8. Push(b)
  BY <1>1
<1> HIDE DEF b, given
<1>9. memoryFlag' \in BOOLEAN
      /\ (memoryFlag' <=> memoryFlag \/ (b.kind = "budget" /\ b.unit = "memory"))
  BY <1>2, <1>6 DEF IInv, TypeInv
<1>10. Saves(b)
  BY <1>6, <1>7 DEF Saves
<1>11. Enters(b)
  BY <1>2, <1>6, <1>9 DEF Enters
<1>12. QED
  BY <1>6, <1>8, <1>10, <1>11, PushKeeps

LEMMA LeaveKeeps == IInv /\ Leave => IInv'
<1> SUFFICES ASSUME IInv, Leave PROVE IInv'
  OBVIOUS
<1>1. Close /\ Depth > 0 /\ raised' = raised /\ raised.what = "none"
  BY DEF Leave, Running
<1>2. raised' \in [what : {"none", "error", "budget"}, depth : Nat]
  BY <1>1 DEF IInv, TypeInv
<1>3. QED
  BY <1>1, <1>2, CloseKeeps

(* What goes on past a block. *)
LEMMA PastIs ==
  ASSUME IInv, raised' = Past
  PROVE  /\ raised' \in [what : {"none", "error", "budget"}, depth : Nat]
         /\ raised'.what = "budget" => raised' = raised /\ raised.depth # Depth
         /\ raised.what = "budget" /\ raised.depth # Depth => raised' = raised
         /\ Home => raised' = Failed
<1>1. /\ Failed \in [what : {"none", "error", "budget"}, depth : Nat] /\ Failed.what = "error"
      /\ Quiet \in [what : {"none", "error", "budget"}, depth : Nat] /\ Quiet.what = "none"
      /\ raised \in [what : {"none", "error", "budget"}, depth : Nat]
  BY DEF Failed, Quiet, IInv, TypeInv
<1>2. CASE Home
  BY <1>1, <1>2 DEF Past, Home
<1>3. CASE ~ Home /\ raised = Failed /\ Top.kind \in {"attempt", "trial"}
  BY <1>1, <1>3 DEF Past, Home
<1>4. CASE ~ Home /\ ~ (raised = Failed /\ Top.kind \in {"attempt", "trial"})
  BY <1>1, <1>4 DEF Past, Home
<1>5. QED
  BY <1>2, <1>3, <1>4

LEMMA UnwindKeeps == IInv /\ Unwind => IInv'
<1> SUFFICES ASSUME IInv, Unwind PROVE IInv'
  OBVIOUS
<1>1. Close /\ Depth > 0 /\ raised' = Past
  BY DEF Unwind
<1>2. QED
  BY <1>1, PastIs, CloseKeeps

(* Nothing is charged and nothing counted.                                 *)
LEMMA RestKeeps ==
  ASSUME IInv, UNCHANGED <<blocks, work, stepLimit, tickCheck, memoryFlag>>,
         steps' \in Nat, steps' >= steps,
         raised' \in [what : {"none", "error", "budget"}, depth : Nat],
         raised' = raised \/ (raised.what # "budget" /\ raised'.what # "budget")
  PROVE  IInv'
<1>1. work' \in Seq(Nat) /\ Len(work') = Depth /\ \A d \in 1 .. Depth : work'[d] = work[d]
  BY DEF IInv, TypeInv, Depth
<1>2. QED
  BY <1>1, UnchargedKeeps

LEMMA ReportKeeps == IInv /\ (Report \/ Raise \/ UNCHANGED vars) => IInv'
<1> SUFFICES ASSUME IInv, Report \/ Raise \/ UNCHANGED vars PROVE IInv'
  OBVIOUS
<1>1. /\ Failed \in [what : {"none", "error", "budget"}, depth : Nat] /\ Failed.what = "error"
      /\ Quiet \in [what : {"none", "error", "budget"}, depth : Nat] /\ Quiet.what = "none"
      /\ raised \in [what : {"none", "error", "budget"}, depth : Nat] /\ steps \in Nat
  BY DEF Failed, Quiet, IInv, TypeInv
<1>2. UNCHANGED <<blocks, work, steps, stepLimit, tickCheck, memoryFlag>>
  BY DEF Report, Raise, vars
<1>3. CASE Report
  <2>1. raised.what # "budget"
    BY <1>3 DEF Report, IInv, StopsHaveHomes
  <2>2. raised' = Quiet
    BY <1>3 DEF Report
  <2>3. QED
    BY <1>1, <1>2, <2>1, <2>2, RestKeeps
<1>4. CASE Raise
  <2>1. raised' = Failed /\ raised.what = "none"
    BY <1>4 DEF Raise, Running
  <2>2. QED
    BY <1>1, <1>2, <2>1, RestKeeps
<1>5. CASE UNCHANGED vars
  <2>1. raised' = raised
    BY <1>5 DEF vars
  <2>2. QED
    BY <1>1, <1>2, <2>1, RestKeeps
<1>6. QED
  BY <1>3, <1>4, <1>5

LEMMA DueKeeps ==
  ASSUME IInv, Running, Due, steps' = steps + 1, UNCHANGED <<stepLimit, tickCheck, memoryFlag>>
  PROVE  IInv'
<1>1. steps \in Nat /\ stepLimit \in Nat /\ steps' \in Nat /\ steps' >= steps
  BY DEF IInv, TypeInv
<1>2. CASE steps + 1 > stepLimit
  <2>1. raised' = Failed /\ UNCHANGED <<blocks, work>> /\ raised.what = "none"
    BY <1>2 DEF Due, Running
  <2>2. Failed \in [what : {"none", "error", "budget"}, depth : Nat] /\ Failed.what = "error"
    BY DEF Failed
  <2>3. QED
    BY <1>1, <2>1, <2>2, RestKeeps
<1>3. CASE ~ (steps + 1 > stepLimit)
  <2>1. Charge("steps", 1) /\ steps' <= stepLimit
    BY <1>1, <1>3 DEF Due
  <2>2. QED
    BY <1>1, <2>1, ChargeKeeps
<1>4. QED
  BY <1>2, <1>3

LEMMA TickTreeKeeps == IInv /\ TickTree => IInv'
<1> SUFFICES ASSUME IInv, TickTree PROVE IInv'
  OBVIOUS
<1>1. Running /\ Due /\ steps' = steps + 1 /\ UNCHANGED <<stepLimit, tickCheck, memoryFlag>>
  BY DEF TickTree
<1>2. QED
  BY <1>1, DueKeeps

(* As long as nothing is due no budget is open and the step limit is not   *)
(* reached, for the cached check is fresh.                                 *)
LEMMA TickCompiledKeeps == IInv /\ TickCompiled => IInv'
<1> SUFFICES ASSUME IInv, TickCompiled PROVE IInv'
  OBVIOUS
<1>1. Running /\ steps' = steps + 1 /\ UNCHANGED <<stepLimit, tickCheck, memoryFlag>>
  BY DEF TickCompiled
<1>2. /\ steps \in Nat /\ stepLimit \in Nat /\ steps' \in Nat /\ steps' >= steps
      /\ raised \in [what : {"none", "error", "budget"}, depth : Nat]
      /\ Depth \in Nat /\ \A d \in 1 .. Depth : work[d] \in Nat
  BY <1>1, ElementOfSeq DEF IInv, TypeInv, Depth
<1>3. CASE steps + 1 > tickCheck
  <2>1. Due
    BY <1>3 DEF TickCompiled
  <2>2. QED
    BY <1>1, <2>1, DueKeeps
<1>4. CASE ~ (steps + 1 > tickCheck)
  <2>1. /\ work' = [d \in 1 .. Depth |-> IF CurrentTrial(d) THEN work[d] + 1 ELSE work[d]]
        /\ UNCHANGED <<blocks, raised>>
    BY <1>4 DEF TickCompiled
  <2>2. steps' <= stepLimit
    <3>1. tickCheck = -1 \/ tickCheck = stepLimit
      BY DEF IInv, LimitsFresh, Retuned
    <3>2. QED
      BY <1>1, <1>2, <1>4, <3>1
  <2>3. work' \in Seq(Nat) /\ Len(work') = Depth
    <3> DEFINE worked(d) == IF CurrentTrial(d) THEN work[d] + 1 ELSE work[d]
    <3>1. \A d \in 1 .. Depth : worked(d) \in Nat
      BY <1>2
    <3>2. work' = [d \in 1 .. Depth |-> worked(d)]
      BY <2>1
    <3> HIDE DEF worked
    <3>3. work' \in Seq(Nat)
      BY <1>2, <3>1, <3>2, IsASeq
    <3>4. QED
      BY <1>2, <3>2, <3>3
  <2>4. \A d \in 1 .. Depth :
          \/ work'[d] = work[d]
          \/ /\ CurrentTrial(d) /\ work'[d] = work[d] + 1
             /\ steps' = steps + 1 /\ steps' <= stepLimit
    BY <1>1, <2>1, <2>2
  <2>5. QED
    BY <1>1, <1>2, <2>1, <2>3, <2>4, UnchargedKeeps
<1>5. QED
  BY <1>3, <1>4

LEMMA SpendKeeps ==
  ASSUME BudgetsAssumption, IInv, NEW unit \in Units, NEW n \in Amounts, Spend(unit, n)
  PROVE  IInv'
<1>1. /\ Running /\ unit # "steps" /\ UNCHANGED <<steps, stepLimit, tickCheck, memoryFlag>>
      /\ n \in Nat /\ steps \in Nat /\ raised \in [what : {"none", "error", "budget"}, depth : Nat]
  BY DEF Spend, BudgetsAssumption, IInv, TypeInv
<1>2. steps' \in Nat /\ steps' >= steps
  BY <1>1
<1>3. CASE unit = "memory" /\ ~ memoryFlag
  <2>1. UNCHANGED <<blocks, raised, work>>
    BY <1>3 DEF Spend
  <2>2. QED
    BY <1>1, <1>2, <2>1, RestKeeps
<1>4. CASE ~ (unit = "memory" /\ ~ memoryFlag)
  <2>1. Charge(unit, n)
    BY <1>4 DEF Spend
  <2>2. QED
    BY <1>1, <1>2, <2>1, ChargeKeeps
<1>5. QED
  BY <1>3, <1>4

-----------------------------------------------------------------------------
(* Theorems. *)

LEMMA InitHolds == BudgetsAssumption /\ Init => IInv
<1> SUFFICES ASSUME BudgetsAssumption, Init PROVE IInv
  OBVIOUS
<1>1. blocks = <<>> /\ work = <<>> /\ Depth = 0 /\ raised = Quiet
  BY DEF Init, Depth
<1>2. TypeInv
  <2>1. blocks \in Seq(Blocks) /\ work \in Seq(Nat) /\ Len(work) = Len(blocks)
    BY <1>1, EmptySeq
  <2>2. raised \in [what : {"none", "error", "budget"}, depth : Nat]
    <3>1. Quiet \in [what : {"none", "error", "budget"}, depth : Nat]
      BY DEF Quiet
    <3>2. QED
      BY <1>1, <3>1
  <2>3. steps \in Nat /\ stepLimit \in Nat /\ memoryFlag \in BOOLEAN
    <3>1. steps = 0 /\ stepLimit = MaxSteps + 1 /\ memoryFlag = FALSE
      BY DEF Init, NoLimit
    <3>2. MaxSteps + 1 \in Nat
      BY DEF BudgetsAssumption
    <3>3. QED
      BY <3>1, <3>2
  <2>4. QED
    BY <2>1, <2>2, <2>3 DEF TypeInv
<1>3. StopsHaveHomes
  BY <1>1 DEF StopsHaveHomes, Quiet
<1>4. LimitsFresh
  BY <1>1 DEF Init, LimitsFresh, Retuned, AnyBudget, BudgetsOf, Depth
<1>5. FlagsKept /\ Spent /\ Tightened /\ TrialsCounted
  BY <1>1 DEF FlagsKept, Spent, Tightened, TrialsCounted
<1>6. QED
  BY <1>2, <1>3, <1>4, <1>5 DEF IInv

LEMMA NextKeeps == BudgetsAssumption /\ IInv /\ [Next]_vars => IInv'
<1> SUFFICES ASSUME BudgetsAssumption, IInv, [Next]_vars PROVE IInv'
  OBVIOUS
<1>1. ASSUME NEW unit \in Units, NEW requested \in Requests, EnterBudget(unit, requested)
      PROVE  IInv'
  BY <1>1, BudgetKeeps
<1>2. ASSUME NEW unit \in Units, NEW n \in Amounts, Spend(unit, n)
      PROVE  IInv'
  BY <1>2, SpendKeeps
<1>3. QED
  BY <1>1, <1>2, AttemptKeeps, TrialKeeps, LeaveKeeps, UnwindKeeps, ReportKeeps,
     TickCompiledKeeps, TickTreeKeeps DEF Next

(* What the blocks saved, paid and counted is as it should be, always.     *)
THEOREM Invariant ==
  ASSUME BudgetsAssumption
  PROVE  Spec => []IInv
<1>1. Init => IInv
  BY InitHolds
<1>2. IInv /\ [Next]_vars => IInv'
  BY NextKeeps
<1>3. QED
  BY <1>1, <1>2, PTL DEF Spec

(* The tick check of compiled code and the memory flag are never stale,    *)
(* for any nesting of budgets, trials and attempts left in any way.        *)
THEOREM CachedLimits ==
  ASSUME BudgetsAssumption
  PROVE  Spec => []LimitsFresh
<1>1. IInv => LimitsFresh
  BY DEF IInv
<1>2. Spec => []IInv
  BY Invariant
<1>3. QED
  BY <1>1, <1>2, PTL

(* Nothing runs past a budget or a trial's limit, and budgets tighten      *)
(* inwards.                                                                *)
THEOREM BudgetsHold ==
  ASSUME BudgetsAssumption
  PROVE  Spec => []WithinBudget
<1>1. IInv => WithinBudget
  <2> SUFFICES ASSUME IInv PROVE WithinBudget
    OBVIOUS
  <2>1. \A d \in 1 .. Depth : blocks[d].kind = "budget" => work[d] <= blocks[d].limit
    BY DEF IInv, Spent
  <2>2. \A d \in 1 .. Depth : blocks[d].kind = "trial" => work[d] <= TrialLimit
    BY DEF IInv, TrialsCounted
  <2>3. ASSUME Running, NEW unit \in Units,
               NEW d \in BudgetsOf(blocks, unit), NEW e \in BudgetsOf(blocks, unit), d <= e
        PROVE  Remaining(e) <= Remaining(d)
    <3>1. Charged(e)
      BY <2>3 DEF Charged, Running
    <3>2. QED
      BY <2>3, <3>1 DEF IInv, Tightened, BudgetsOf, Depth
  <2>4. QED
    BY <2>1, <2>2, <2>3 DEF WithinBudget
<1>2. Spec => []IInv
  BY Invariant
<1>3. QED
  BY <1>1, <1>2, PTL

(* A budget's stop unwinds one block at a time to the block of the budget, *)
(* past every attempt and trial, and is an ordinary failure outside it.    *)
THEOREM StopsGoHome ==
  ASSUME BudgetsAssumption
  PROVE  Spec => StopsNotCaught
<1>1. ASSUME IInv, [Next]_vars
      PROVE  [raised.what = "budget" =>
                IF Home THEN raised' = Failed /\ Len(blocks') = Depth - 1
                ELSE raised' = raised /\ Len(blocks') = Depth - 1]_vars
  <2> SUFFICES ASSUME raised.what = "budget", ~ UNCHANGED vars
               PROVE  IF Home THEN raised' = Failed /\ Len(blocks') = Depth - 1
                      ELSE raised' = raised /\ Len(blocks') = Depth - 1
    OBVIOUS
  <2>1. ~ Running /\ Depth # 0
    BY <1>1 DEF Running, IInv, StopsHaveHomes
  <2>2. Next
    BY <1>1
  <2>3. Unwind
    BY <2>1, <2>2 DEF Next, EnterAttempt, EnterTrial, EnterBudget, Push, Leave, Report, Raise,
                      TickCompiled, TickTree, Spend
  <2>4. Close /\ Depth > 0 /\ raised' = Past
    BY <2>3 DEF Unwind
  <2>5. Len(blocks') = Depth - 1
    BY <1>1, <2>4, Closed DEF IInv, Depth
  <2>6. Home => raised' = Failed
    BY <1>1, <2>4, PastIs
  <2>7. ~ Home => raised' = raised
    BY <1>1, <2>4, PastIs DEF Home
  <2>8. QED
    BY <2>5, <2>6, <2>7
<1>2. Spec => []IInv
  BY Invariant
<1>3. QED
  BY <1>1, <1>2, PTL DEF Spec, StopsNotCaught
=============================================================================
