----------------------------- MODULE WorkerPool -----------------------------
(***************************************************************************)
(* The parallel compute backend: `device "workers"`.                       *)
(*                                                                         *)
(* One host thread and W kernel threads share one control block and one    *)
(* scratch buffer.  The host copies a job's two matrices into the scratch, *)
(* stores the job's parameters and REMAINING = W, bumps GEN, notifies the  *)
(* threads asleep on GEN, and blocks until REMAINING is 0 or ten seconds   *)
(* are up.  A kernel thread goes to sleep if GEN is the last value it saw; *)
(* awake, it loads the parameters, computes its own band of the output's   *)
(* rows and decrements REMAINING.  Nothing ties a decrement to the job it  *)
(* was earned for, and a thread that is woken does not look whether GEN    *)
(* has changed since it last worked.                                       *)
(*                                                                         *)
(* A matrix is the number of the job it belongs to, and an output row the  *)
(* number of the job whose inputs it was computed from.  A job is its      *)
(* number of rows: the other two dimensions are fixed, so the scratch it   *)
(* needs and its work grow with its rows.  A load or a store of the whole  *)
(* parameter block is one step: only a job that overlaps another could     *)
(* see half of one, and such a job is `overlapped` below anyway.           *)
(***************************************************************************)
EXTENDS Integers, FiniteSets

CONSTANTS
  W,            \* workerCount, the size of the pool
  Sizes,        \* the row counts a job may have
  Threshold,    \* PARALLEL_THRESHOLD, in rows: a smaller job runs on the host
  Capacity,     \* the scratch, in rows: a larger job runs on the host
  MaxJobs,      \* bound: the matmuls a behaviour makes
  MaxStops      \* bound: how often the backend is shut down

ASSUME PoolAssumption ==
  /\ W \in Nat \ {0}
  /\ Sizes \subseteq Nat \ {0}
  /\ Threshold \in Nat /\ Capacity \in Nat
  /\ MaxJobs \in Nat /\ MaxStops \in Nat

Workers == 0 .. W - 1
Rows    == 0 .. Capacity - 1
Mixed   == 0            \* the content of no job: blank, or of several jobs
Stop    == -1           \* the generation that tells a kernel thread to exit

VARIABLES
  \* the host thread
  phase,        \* "idle", "prepared" (parameters stored), "bumped" (GEN
                \* stored, nobody notified yet) or "waiting"
  job,          \* how many matmuls it has started; also the number of the last
  rows,         \* the rows of that job
  pool,         \* "none", "up" or "unavailable"
  stops,        \* how often the backend has been shut down
  answer,       \* what the last matmul returned, if it has
  \* shared memory
  gen,          \* control[GEN]
  remaining,    \* control[REMAINING]
  params,       \* control[M..OFF_C]
  input,        \* the job whose matrices are in the scratch
  out,          \* the rows of the scratch's output area
  \* the kernel threads
  state,        \* "none", "ready" (booting or at the top of its loop),
                \* "asleep", "woken", "loading", "computing" or "gone"
  seen,         \* the last generation each one took
  got,          \* the parameters each one loaded
  at,           \* the next row each one computes
  \* history
  done,         \* the threads that finished their band of the current job
  overlapped,   \* a job was prepared before a thread was through with the last
  rewoken       \* a thread was woken for a job it had done its band of already

hostVars    == <<phase, job, rows, pool, stops, answer>>
controlVars == <<gen, remaining, params>>
scratchVars == <<input, out>>
threadVars  == <<state, seen, got, at>>
historyVars == <<done, overlapped, rewoken>>
vars == <<hostVars, controlVars, scratchVars, threadVars, historyVars>>

-----------------------------------------------------------------------------
(* The band of rows a thread owns. *)

Least(a, b) == IF a <= b THEN a ELSE b

(* Mutants: the quotient rounded down; a band not clamped to the job; a    *)
(* band one row too long.                                                  *)
PerRoundedDown(m) == m \div W

Per(m)      == (m + W - 1) \div W
Start(w, m) == Least(w * Per(m), m)

EndOneTooFar(w, m) == Least(Start(w, m) + Per(m) + 1, m)

End(w, m)   == Least(Start(w, m) + Per(m), m)

Params == [job : Nat, rows : Nat]
NoParams == [job |-> Mixed, rows |-> 0]

Working(w) == state[w] \in {"loading", "computing"}

(* The job is out: a thread may take it.                                   *)
Released == phase \in {"bumped", "waiting"}

(* A thread that may still touch the memory of the last published job: it  *)
(* is inside that job, or has not even taken its generation yet.           *)
Straggler(w) ==
  \/ Working(w) \/ state[w] = "woken"
  \/ state[w] = "ready" /\ gen # Stop /\ seen[w] # gen

NoAnswer == [how |-> "none", job |-> 0, rows |-> 0, cells |-> [r \in Rows |-> Mixed]]

-----------------------------------------------------------------------------
Init ==
  /\ phase = "idle" /\ job = 0 /\ rows = 0 /\ pool = "none" /\ stops = 0
  /\ answer = NoAnswer
  /\ gen = 0 /\ remaining = 0 /\ params = NoParams
  /\ input = Mixed /\ out = [r \in Rows |-> Mixed]
  /\ state = [w \in Workers |-> "none"]
  /\ seen = [w \in Workers |-> 0]
  /\ got = [w \in Workers |-> NoParams]
  /\ at = [w \in Workers |-> 0]
  /\ done = {} /\ overlapped = FALSE /\ rewoken = FALSE

(* What cpuMatmul computes, from the caller's own arrays: always job j's.  *)
Local(j, m) == [how |-> "local", job |-> j, rows |-> m, cells |-> [r \in Rows |-> j]]

(* Too little work to be worth a round trip, or too much for the scratch.  *)
MatmulOnHost(m) ==
  /\ phase = "idle" /\ job < MaxJobs
  /\ m < Threshold \/ m > Capacity
  /\ job' = job + 1 /\ rows' = m
  /\ answer' = Local(job + 1, m)
  /\ UNCHANGED <<phase, pool, stops, controlVars, scratchVars, threadVars, historyVars>>

(* The threads cannot be started, now or at an earlier attempt.            *)
MatmulUnavailable(m) ==
  /\ phase = "idle" /\ job < MaxJobs
  /\ Threshold <= m /\ m <= Capacity
  /\ pool # "up"
  /\ pool' = "unavailable"
  /\ job' = job + 1 /\ rows' = m
  /\ answer' = Local(job + 1, m)
  /\ UNCHANGED <<phase, stops, controlVars, scratchVars, threadVars, historyVars>>

(* Mutant: REMAINING keeps what the last job left in it.                   *)
PrepareWithoutCount(m) ==
  /\ phase = "idle" /\ job < MaxJobs
  /\ Threshold <= m /\ m <= Capacity
  /\ pool # "unavailable"
  /\ phase' = "prepared" /\ pool' = "up"
  /\ job' = job + 1 /\ rows' = m
  /\ state' = IF pool = "none" THEN [w \in Workers |-> "ready"] ELSE state
  /\ seen' = IF pool = "none" THEN [w \in Workers |-> 0] ELSE seen
  /\ input' = job + 1
  /\ params' = [job |-> job + 1, rows |-> m]
  /\ done' = {}
  /\ overlapped' = (overlapped \/ \E w \in Workers : Straggler(w))
  /\ answer' = NoAnswer
  /\ UNCHANGED <<stops, remaining, gen, out, got, at, rewoken>>

(* Start the threads if this backend has none, then write the job's        *)
(* matrices, its parameters and the count into the shared memory.          *)
Prepare(m) ==
  /\ phase = "idle" /\ job < MaxJobs
  /\ Threshold <= m /\ m <= Capacity
  /\ pool # "unavailable"
  /\ phase' = "prepared" /\ pool' = "up"
  /\ job' = job + 1 /\ rows' = m
  /\ IF pool = "none"
     THEN /\ state' = [w \in Workers |-> "ready"]
          /\ seen' = [w \in Workers |-> 0]
     ELSE UNCHANGED <<state, seen>>
  /\ input' = job + 1
  /\ params' = [job |-> job + 1, rows |-> m]
  /\ remaining' = W
  /\ done' = {}
  /\ overlapped' = (overlapped \/ \E w \in Workers : Straggler(w))
  /\ answer' = NoAnswer
  /\ UNCHANGED <<stops, gen, out, got, at, rewoken>>

(* Mutant: the host notifies the threads without a new generation.         *)
BumpForgotten ==
  /\ phase = "prepared"
  /\ phase' = "bumped"
  /\ UNCHANGED <<job, rows, pool, stops, answer, controlVars, scratchVars,
                 threadVars, historyVars>>

(* From here on a thread that is awake may take the job.                   *)
Bump ==
  /\ phase = "prepared"
  /\ gen' = gen + 1
  /\ phase' = "bumped"
  /\ UNCHANGED <<job, rows, pool, stops, answer, remaining, params, scratchVars,
                 threadVars, historyVars>>

(* Every thread asleep on GEN wakes, also one that took the job in the     *)
(* meantime, did its band and went to sleep on the new generation.         *)
Notify ==
  /\ phase = "bumped"
  /\ phase' = "waiting"
  /\ state' = [w \in Workers |-> IF state[w] = "asleep" THEN "woken" ELSE state[w]]
  /\ rewoken' = (rewoken \/ \E w \in done : state[w] = "asleep")
  /\ UNCHANGED <<job, rows, pool, stops, answer, controlVars, scratchVars,
                 seen, got, at, done, overlapped>>

(* Every slice is in: the result is sliced out of the scratch.             *)
Collect ==
  /\ phase = "waiting"
  /\ remaining = 0
  /\ answer' = [how |-> "pool", job |-> job, rows |-> rows, cells |-> out]
  /\ phase' = "idle"
  /\ UNCHANGED <<job, rows, pool, stops, controlVars, scratchVars, threadVars, historyVars>>

(* Mutant: the deadline is only looked at while the count is positive.     *)
DeadlineWhilePositive ==
  /\ phase = "waiting"
  /\ remaining > 0
  /\ answer' = Local(job, rows)
  /\ phase' = "idle"
  /\ UNCHANGED <<job, rows, pool, stops, controlVars, scratchVars, threadVars, historyVars>>

(* Ten seconds without the last slice: the host computes the job itself    *)
(* and leaves the threads, and the job's memory, as they are.              *)
Deadline ==
  /\ phase = "waiting"
  /\ remaining # 0
  /\ answer' = Local(job, rows)
  /\ phase' = "idle"
  /\ UNCHANGED <<job, rows, pool, stops, controlVars, scratchVars, threadVars, historyVars>>

(* An inner `device "workers"` block that asks for another thread count    *)
(* replaces the registry's backend and shuts this one down; when it ends   *)
(* this backend is the active one again, with no pool and GEN = -1.        *)
Shutdown ==
  /\ phase = "idle" /\ pool = "up" /\ stops < MaxStops
  /\ stops' = stops + 1
  /\ gen' = Stop
  /\ pool' = "none"
  /\ state' = [w \in Workers |-> "none"]
  /\ UNCHANGED <<phase, job, rows, answer, remaining, params, scratchVars,
                 seen, got, at, historyVars>>

-----------------------------------------------------------------------------
(* The kernel threads. *)

(* Atomics.wait: asleep, unless GEN is no longer what the thread last saw. *)
Sleep(w) ==
  /\ state[w] = "ready" /\ gen = seen[w]
  /\ state' = [state EXCEPT ![w] = "asleep"]
  /\ UNCHANGED <<hostVars, controlVars, scratchVars, seen, got, at, historyVars>>

Take(w) ==
  /\ state[w] = "woken" \/ (state[w] = "ready" /\ gen # seen[w])
  /\ IF gen = Stop
     THEN state' = [state EXCEPT ![w] = "gone"] /\ UNCHANGED seen
     ELSE /\ state' = [state EXCEPT ![w] = "loading"]
          /\ seen' = [seen EXCEPT ![w] = gen]
  /\ UNCHANGED <<hostVars, controlVars, scratchVars, got, at, historyVars>>

Load(w) ==
  /\ state[w] = "loading"
  /\ state' = [state EXCEPT ![w] = "computing"]
  /\ got' = [got EXCEPT ![w] = params]
  /\ at' = [at EXCEPT ![w] = Start(w, params.rows)]
  /\ UNCHANGED <<hostVars, controlVars, scratchVars, seen, historyVars>>

(* One row, from the matrices in the scratch at that moment.  A thread on  *)
(* stale parameters also writes where the job now in the scratch may keep  *)
(* its inputs.                                                             *)
ComputeRow(w) ==
  /\ state[w] = "computing" /\ at[w] < End(w, got[w].rows)
  /\ out' = [out EXCEPT ![at[w]] = IF input = got[w].job THEN input ELSE Mixed]
  /\ at' = [at EXCEPT ![w] = at[w] + 1]
  /\ IF got[w] = params
     THEN UNCHANGED input
     ELSE input' \in {input, Mixed}
  /\ UNCHANGED <<hostVars, controlVars, state, seen, got, historyVars>>

Finish(w) ==
  /\ state[w] = "computing" /\ at[w] = End(w, got[w].rows)
  /\ remaining' = remaining - 1
  /\ state' = [state EXCEPT ![w] = "ready"]
  /\ done' = IF seen[w] = gen THEN done \cup {w} ELSE done
  /\ UNCHANGED <<hostVars, gen, params, scratchVars, seen, got, at, overlapped, rewoken>>

(* A thread fails: its error is noted, nobody replaces it.                 *)
Die(w) ==
  /\ state[w] \in {"ready", "loading", "computing"}
  /\ state' = [state EXCEPT ![w] = "gone"]
  /\ UNCHANGED <<hostVars, controlVars, scratchVars, seen, got, at, historyVars>>

-----------------------------------------------------------------------------
Host == \/ \E m \in Sizes : MatmulOnHost(m) \/ MatmulUnavailable(m) \/ Prepare(m)
        \/ Bump \/ Notify \/ Collect \/ Deadline \/ Shutdown

Thread(w) == Sleep(w) \/ Take(w) \/ Load(w) \/ ComputeRow(w) \/ Finish(w) \/ Die(w)

Next == Host \/ \E w \in Workers : Thread(w)

Spec == Init /\ [][Next]_vars

(* A matmul that has started goes on: the host polls every 50 ms, so one   *)
(* of its two ways out of the wait is taken.  Nothing is assumed of the    *)
(* kernel threads, which may die or stall, or of the program.              *)
FairSpec == Spec /\ WF_vars(Bump \/ Notify) /\ WF_vars(Collect \/ Deadline)

-----------------------------------------------------------------------------
ThreadStates == {"none", "ready", "asleep", "woken", "loading", "computing", "gone"}

Answers == [how : {"none", "local", "pool"}, job : Nat, rows : Nat, cells : [Rows -> Nat]]

TypeOK ==
  /\ phase \in {"idle", "prepared", "bumped", "waiting"}
  /\ job \in Nat /\ rows \in Nat /\ stops \in Nat
  /\ pool \in {"none", "up", "unavailable"}
  /\ answer \in Answers
  /\ gen \in Int /\ remaining \in Int
  /\ params \in [job : Nat, rows : 0 .. Capacity]
  /\ input \in Nat /\ out \in [Rows -> Nat]
  /\ state \in [Workers -> ThreadStates]
  /\ seen \in [Workers -> Int]
  /\ got \in [Workers -> [job : Nat, rows : 0 .. Capacity]]
  /\ at \in [Workers -> 0 .. Capacity]
  /\ done \subseteq Workers
  /\ overlapped \in BOOLEAN /\ rewoken \in BOOLEAN

(* The rows of the last answer are all that job's own.                     *)
ExactAnswer == \A r \in 0 .. answer.rows - 1 :
                 r \in Rows => answer.cells[r] = answer.job

(* As long as no job was prepared before every live thread was through     *)
(* with the one before it, and no thread was woken twice for one job, what *)
(* the pool hands back is the product of the matrices it was given:        *)
(* whatever dies, however late a thread boots, and however often the host  *)
(* gave up waiting or the pool was replaced.                               *)
Disturbed == overlapped \/ rewoken
AnswersExactUnlessDisturbed == Disturbed \/ ExactAnswer

(* devices.js: "the same source, the same results, a different execution   *)
(* substrate", when no thread serves a job twice.  A late thread's         *)
(* decrement counts for the next job.                                      *)
SameResultsServedOnce == rewoken \/ ExactAnswer

(* kernelWorker.mjs: "Two workers can never touch the same cell": two      *)
(* threads inside one job are never about to write the same output row.    *)
NoSharedRow ==
  overlapped \/
  \A v, w \in Workers :
    /\ v # w
    /\ state[v] = "computing" /\ at[v] < End(v, got[v].rows)
    /\ state[w] = "computing" /\ at[w] < End(w, got[w].rows)
    => at[v] # at[w]

(* REMAINING counts exactly the threads that still owe a band, so the host *)
(* cannot leave its wait early, nor be left waiting by a decrement lost to *)
(* the order in which the job is stored and released.                      *)
CountMatches ==
  Disturbed \/ ~ Released \/ remaining = W - Cardinality(done)

(* No lost wake-up: on a backend never shut down, once the host has told   *)
(* the threads of a job and waits, no thread that owes it a band is asleep.*)
OwesAndSleeps(w) == phase = "waiting" /\ state[w] = "asleep" /\ w \notin done
NoLostWakeup == stops > 0 \/ \A w \in Workers : ~ OwesAndSleeps(w)

(* A matmul always returns, though every thread may die: the wait ends by  *)
(* the count or by the deadline.                                           *)
MatmulReturns == phase # "idle" ~> phase = "idle"

=============================================================================
