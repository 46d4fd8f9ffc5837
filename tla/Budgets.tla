------------------------------ MODULE Budgets -------------------------------
(***************************************************************************)
(* `budget` blocks, the step counter, and trial runs of a function.        *)
(*                                                                         *)
(* Every statement ticks the step counter; allocations and context pushes  *)
(* charge memory and tokens.  A charge goes to each open budget of its     *)
(* unit, the outermost first, and stops at the first it exhausts: that     *)
(* budget's stop then unwinds, past every `attempt`, to the block that     *)
(* opened it, which turns it into an ordinary failure.                     *)
(*                                                                         *)
(* A trial runs a function on generated arguments under a step limit of    *)
(* its own, before a redefinition goes live: the counter starts again from *)
(* zero and is put back afterwards.  Trials nest, when the function on     *)
(* trial redefines another.                                                *)
(*                                                                         *)
(* Two values are cached.  Compiled code compares the counter with         *)
(* tickCheck, which is the step limit, or -1 while any budget is open so   *)
(* that every tick is due; and memory is charged only while                *)
(* hasMemoryBudget is set.                                                 *)
(***************************************************************************)
EXTENDS Integers, Sequences, SequencesExt

CONSTANTS
  Units,        \* "steps", "tokens" and "memory", or some of them
  Requests,     \* the amounts budgets are opened with, rounded down
  Amounts,      \* what one push or allocation is charged
  TrialLimit,   \* STEP_LIMIT, the steps a trial may take
  MaxDepth,     \* bound: how deep blocks nest
  MaxSteps      \* bound: the step counter

BudgetsAssumption ==
  /\ Requests \subseteq Int /\ Amounts \subseteq Nat
  /\ TrialLimit \in Nat /\ MaxSteps \in Nat

NoLimit == MaxSteps + 1     \* Infinity: more than a behaviour's steps

VARIABLES
  blocks,       \* the open blocks, innermost last
  raised,       \* what is being raised, and the block of the budget it stops
  steps,        \* the step counter
  stepLimit,    \* how far it may go
  tickCheck,    \* cached: above what the compiled engine looks further
  memoryFlag,   \* cached: hasMemoryBudget
  work          \* history: for each block, the charges of its unit that went
                \* through since it was entered; for a trial, its own steps

vars == <<blocks, raised, steps, stepLimit, tickCheck, memoryFlag, work>>

-----------------------------------------------------------------------------
Quiet  == [what |-> "none", depth |-> 0]
Failed == [what |-> "error", depth |-> 0]
Running == raised.what = "none"

Depth == Len(blocks)
Top   == Last(blocks)

(* A block: its budget if it has one, and what it puts back when it ends.  *)
Block(kind, unit, limit) ==
  [kind |-> kind, unit |-> unit, limit |-> limit, used |-> 0,
   steps |-> steps, stepLimit |-> stepLimit, memoryFlag |-> memoryFlag]

BudgetsOf(bs, unit) == {d \in 1 .. Len(bs) : bs[d].kind = "budget" /\ bs[d].unit = unit}
AnyBudget(bs) == \E d \in 1 .. Len(bs) : bs[d].kind = "budget"

(* retuneTick                                                              *)
Retuned(bs, limit) == IF AnyBudget(bs) THEN -1 ELSE limit

Init ==
  /\ blocks = <<>> /\ raised = Quiet
  /\ steps = 0 /\ stepLimit = NoLimit
  /\ tickCheck = NoLimit /\ memoryFlag = FALSE
  /\ work = <<>>

Push(b) ==
  /\ Running /\ Depth < MaxDepth
  /\ blocks' = Append(blocks, b)
  /\ work' = Append(work, 0)
  /\ UNCHANGED raised

-----------------------------------------------------------------------------
(* Entering blocks. *)

EnterAttempt ==
  /\ Push(Block("attempt", "none", 0))
  /\ UNCHANGED <<steps, stepLimit, tickCheck, memoryFlag>>

Remaining(d) == blocks[d].limit - blocks[d].used

(* A nested budget can only tighten: it gets what it asks for, or what is  *)
(* left of the tightest budget of its unit around it.                      *)
Allowed(unit, requested) ==
  {limit \in {requested} \cup {Remaining(d) : d \in BudgetsOf(blocks, unit)} :
     limit <= requested /\ \A d \in BudgetsOf(blocks, unit) : limit <= Remaining(d)}

EnterBudget(unit, requested) ==
  /\ \E limit \in Allowed(unit, requested) :
       Push(Block("budget", unit, IF limit < 0 THEN 0 ELSE limit))
  /\ tickCheck' = Retuned(blocks', stepLimit)
  /\ memoryFlag' = (memoryFlag \/ unit = "memory")
  /\ UNCHANGED <<steps, stepLimit>>

(* One trial of a function: exercise().                                    *)
EnterTrial ==
  /\ Push(Block("trial", "none", 0))
  /\ steps' = 0 /\ stepLimit' = TrialLimit
  /\ tickCheck' = Retuned(blocks, TrialLimit)
  /\ UNCHANGED memoryFlag

-----------------------------------------------------------------------------
(* Leaving blocks. *)

(* Mutant: closing a budget leaves the tick check as it was.               *)
CloseWithoutRetune ==
  /\ blocks' = Front(blocks) /\ work' = Front(work)
  /\ memoryFlag' = IF Top.kind = "budget" THEN Top.memoryFlag ELSE memoryFlag
  /\ IF Top.kind = "trial"
     THEN /\ steps' = Top.steps /\ stepLimit' = Top.stepLimit
          /\ tickCheck' = Retuned(blocks, Top.stepLimit)
     ELSE UNCHANGED <<steps, stepLimit, tickCheck>>

(* What the `finally` of each construct puts back.                         *)
Close ==
  /\ blocks' = Front(blocks) /\ work' = Front(work)
  /\ memoryFlag' = IF Top.kind = "budget" THEN Top.memoryFlag ELSE memoryFlag
  /\ CASE Top.kind = "budget" -> /\ tickCheck' = Retuned(Front(blocks), stepLimit)
                                 /\ UNCHANGED <<steps, stepLimit>>
       [] Top.kind = "trial"  -> /\ steps' = Top.steps /\ stepLimit' = Top.stepLimit
                                 /\ tickCheck' = Retuned(blocks, Top.stepLimit)
       [] OTHER               -> UNCHANGED <<steps, stepLimit, tickCheck>>

Leave ==
  /\ Running /\ Depth > 0
  /\ Close
  /\ UNCHANGED raised

(* A budget's stop that has come to the budget's own block.                *)
Home == raised.what = "budget" /\ raised.depth = Depth

(* Mutant: an attempt rescues whatever comes out of it.                    *)
PastRescuingAll == IF Top.kind \in {"attempt", "trial"} THEN Quiet
                   ELSE IF Home THEN Failed ELSE raised

(* What goes on past the innermost block.  Attempts and trials end a       *)
(* failure; only its own block ends a budget's stop.                       *)
Past == CASE Home -> Failed
          [] raised = Failed /\ Top.kind \in {"attempt", "trial"} -> Quiet
          [] OTHER -> raised

Unwind ==
  /\ ~ Running /\ Depth > 0
  /\ raised' = Past
  /\ Close

(* The run has failed; an interactive session goes on.                     *)
Report ==
  /\ ~ Running /\ Depth = 0
  /\ raised' = Quiet
  /\ UNCHANGED <<blocks, steps, stepLimit, tickCheck, memoryFlag, work>>

Raise ==
  /\ Running
  /\ raised' = Failed
  /\ UNCHANGED <<blocks, steps, stepLimit, tickCheck, memoryFlag, work>>

-----------------------------------------------------------------------------
(* Charging. *)

(* Mutant: a charge is refused only when the budget was used up before.    *)
ExhaustedLate(unit, n) == {d \in BudgetsOf(blocks, unit) : blocks[d].used > blocks[d].limit}

Exhausted(unit, n) == {d \in BudgetsOf(blocks, unit) : blocks[d].used + n > blocks[d].limit}

(* The outermost of the budgets an amount exhausts, and of the open trials *)
(* the innermost: the one whose steps are being counted.                   *)
Outermost(D) == CHOOSE d \in D : \A e \in D : d <= e
CurrentTrial(d) == /\ blocks[d].kind = "trial"
                   /\ \A e \in d + 1 .. Depth : blocks[e].kind # "trial"

(* Charge n to the budgets of a unit from the outside in, up to and with   *)
(* the first it exhausts.                                                  *)
Charge(unit, n) ==
  LET over == Exhausted(unit, n)
      reached == IF over = {} THEN BudgetsOf(blocks, unit)
                 ELSE {d \in BudgetsOf(blocks, unit) : d <= Outermost(over)}
  IN /\ blocks' = [d \in 1 .. Depth |->
                     IF d \in reached THEN [blocks[d] EXCEPT !.used = @ + n] ELSE blocks[d]]
     /\ raised' = IF over = {} THEN raised
                  ELSE [what |-> "budget", depth |-> Outermost(over)]
     /\ work' = IF over # {} THEN work
                ELSE [d \in 1 .. Depth |->
                        IF d \in BudgetsOf(blocks, unit) \/ (unit = "steps" /\ CurrentTrial(d))
                        THEN work[d] + n ELSE work[d]]

(* What is due once the counter has moved: tickDue, and the slow half of   *)
(* tick.                                                                   *)
Due ==
  IF steps + 1 > stepLimit
  THEN raised' = Failed /\ UNCHANGED <<blocks, work>>
  ELSE Charge("steps", 1)

(* A statement or a loop pass of compiled code.                            *)
TickCompiled ==
  /\ Running /\ steps < MaxSteps
  /\ steps' = steps + 1
  /\ IF steps + 1 > tickCheck
     THEN Due
     ELSE /\ work' = [d \in 1 .. Depth |-> IF CurrentTrial(d) THEN work[d] + 1 ELSE work[d]]
          /\ UNCHANGED <<blocks, raised>>
  /\ UNCHANGED <<stepLimit, tickCheck, memoryFlag>>

(* The same on the tree-walker.                                            *)
TickTree ==
  /\ Running /\ steps < MaxSteps
  /\ steps' = steps + 1
  /\ Due
  /\ UNCHANGED <<stepLimit, tickCheck, memoryFlag>>

(* An allocation or a push into a context window.                          *)
Spend(unit, n) ==
  /\ Running /\ unit # "steps"
  /\ IF unit = "memory" /\ ~ memoryFlag
     THEN UNCHANGED <<blocks, raised, work>>
     ELSE Charge(unit, n)
  /\ UNCHANGED <<steps, stepLimit, tickCheck, memoryFlag>>

Next ==
  \/ EnterAttempt \/ EnterTrial
  \/ \E unit \in Units, requested \in Requests : EnterBudget(unit, requested)
  \/ Leave \/ Unwind \/ Report \/ Raise
  \/ TickCompiled \/ TickTree
  \/ \E unit \in Units, n \in Amounts : Spend(unit, n)

Spec == Init /\ [][Next]_vars

-----------------------------------------------------------------------------
(* The two cached values are never stale, whatever blocks and trials were  *)
(* left early in whatever order: the compiled engine looks further exactly *)
(* when a tick of the tree-walker would find something, and memory is      *)
(* charged exactly while a memory budget is open.                          *)
LimitsFresh ==
  /\ tickCheck = Retuned(blocks, stepLimit)
  /\ memoryFlag <=> BudgetsOf(blocks, "memory") # {}

(* What has run inside a block never exceeds its budget, counting all that *)
(* nested blocks and trials did, and a nested budget never has more left   *)
(* than one of the same unit around it.  A trial takes at most its limit   *)
(* of steps itself, though code inside it may rescue the failure and the   *)
(* counter is moved by trials inside it.                                   *)
WithinBudget ==
  /\ \A d \in 1 .. Depth : blocks[d].kind = "budget" => work[d] <= blocks[d].limit
  /\ \A d \in 1 .. Depth : blocks[d].kind = "trial" => work[d] <= TrialLimit
  /\ Running => \A unit \in Units : \A d, e \in BudgetsOf(blocks, unit) :
                  d <= e => Remaining(e) <= Remaining(d)

(* "Code inside the block cannot rescue it": from the charge that exhausts *)
(* a budget until that budget's block is left no code runs, and outside it *)
(* the stop is an ordinary failure.                                        *)
StopsNotCaught ==
  [][raised.what = "budget" =>
       IF Home THEN raised' = Failed /\ Len(blocks') = Depth - 1
       ELSE raised' = raised /\ Len(blocks') = Depth - 1]_vars
=============================================================================
