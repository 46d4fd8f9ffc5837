-------------------------- MODULE WorkerPool_proofs --------------------------
(***************************************************************************)
(* Proofs about WorkerPool, for every pool size, scratch size and set of   *)
(* job sizes, and without a bound on deaths or late threads.               *)
(***************************************************************************)
EXTENDS WorkerPool, FiniteSetTheorems, TLAPS

-----------------------------------------------------------------------------
(* The bands a job's rows are cut into. *)

(* The band height is a natural number, and W bands of it hold every row.  *)
LEMMA PerFacts ==
  ASSUME NEW m \in Nat
  PROVE  /\ Per(m) \in Nat
         /\ W * Per(m) >= m
         /\ m > 0 => Per(m) > 0
<1>1. W \in Nat /\ W > 0
  BY PoolAssumption
<1> DEFINE q == (m + W - 1) \div W
<1>2. q \in Int /\ W * q <= m + W - 1 /\ m + W - 1 < W * q + W
  BY <1>1, SMT
<1>3. QED
  BY <1>1, <1>2, SMT DEF Per

(* Division with remainder, as a fact about products.                      *)
LEMMA QuotientFacts ==
  ASSUME NEW r \in Nat, NEW p \in Nat \ {0}
  PROVE  \E k \in Nat : k * p <= r /\ r < k * p + p
<1>1. r \div p \in Nat /\ (r \div p) * p <= r /\ r < (r \div p) * p + p
  BY SMT
<1>2. QED
  BY <1>1

(* A band starts and ends inside the job, and does not end before it       *)
(* starts: the clamps of kernelWorker.mjs are enough for a job with fewer  *)
(* rows than threads.                                                      *)
LEMMA BandType ==
  ASSUME NEW m \in Nat, NEW w \in Workers
  PROVE  /\ Start(w, m) \in 0 .. m
         /\ End(w, m) \in 0 .. m
         /\ Start(w, m) <= End(w, m)
<1>1. W \in Nat /\ w \in Nat /\ Per(m) \in Nat
  BY PoolAssumption, PerFacts DEF Workers
<1>2. w * Per(m) \in Nat
  BY <1>1, SMT
<1>3. QED
  BY <1>1, <1>2 DEF Start, End, Least

(* Every row of every job belongs to some thread's band, whatever the      *)
(* number of rows and of threads: no row is left uncomputed.               *)
THEOREM BandsCover ==
  ASSUME NEW m \in Nat, NEW r \in 0 .. m - 1
  PROVE  \E w \in Workers : Start(w, m) <= r /\ r < End(w, m)
<1>1. W \in Nat /\ Per(m) \in Nat \ {0} /\ W * Per(m) >= m /\ r \in Nat
  BY PoolAssumption, PerFacts
<1>2. PICK k \in Nat : k * Per(m) <= r /\ r < k * Per(m) + Per(m)
  BY <1>1, QuotientFacts
<1>3. k < W
  <2>1. SUFFICES ASSUME k >= W PROVE FALSE
    BY <1>1
  <2>2. k * Per(m) >= W * Per(m)
    BY <1>1, <2>1, SMT
  <2>3. k * Per(m) \in Int /\ W * Per(m) \in Int
    BY <1>1, SMT
  <2>4. QED
    BY <1>1, <1>2, <2>2, <2>3
<1>4. k * Per(m) \in Nat
  BY <1>1, SMT
<1>5. Start(k, m) = k * Per(m) /\ r < End(k, m)
  BY <1>1, <1>2, <1>4 DEF Start, End, Least
<1>6. k \in Workers
  BY <1>1, <1>3 DEF Workers
<1>7. QED
  BY <1>2, <1>5, <1>6

(* The bands of two threads share no row: "two workers can never touch the *)
(* same cell" of one job's output.                                         *)
THEOREM BandsDisjoint ==
  ASSUME NEW m \in Nat, NEW v \in Workers, NEW w \in Workers, v < w
  PROVE  End(v, m) <= Start(w, m)
<1>1. W \in Nat /\ v \in Nat /\ w \in Nat /\ Per(m) \in Nat
  BY PoolAssumption, PerFacts DEF Workers
<1>2. v * Per(m) + Per(m) <= w * Per(m)
  <2>1. (v + 1) * Per(m) <= w * Per(m)
    BY <1>1, SMT
  <2>2. (v + 1) * Per(m) = v * Per(m) + Per(m)
    BY <1>1, SMT
  <2>3. QED
    BY <2>1, <2>2
<1>3. v * Per(m) \in Nat /\ w * Per(m) \in Nat
  BY <1>1, SMT
<1>4. QED
  BY <1>1, <1>2, <1>3 DEF Start, End, Least

(* The pool has W threads.                                                 *)
LEMMA WorkersFinite == IsFiniteSet(Workers) /\ Cardinality(Workers) = W
<1>1. W \in Nat /\ 0 \in Int /\ W - 1 \in Int
  BY PoolAssumption
<1>2. IsFiniteSet(0 .. W - 1) /\ Cardinality(0 .. W - 1) = W
  BY <1>1, FS_Interval
<1>3. QED
  BY <1>2 DEF Workers

-----------------------------------------------------------------------------
(* Types. *)

(* A job that reached the pool fits its scratch.                           *)
JobFits == phase # "idle" => rows <= Capacity

(* Every variable keeps its type, and a job in the pool fits its scratch.  *)
THEOREM TypeCorrect == Spec => [](TypeOK /\ JobFits)
<1>1. Init => TypeOK /\ JobFits
  <2> SUFFICES ASSUME Init PROVE TypeOK /\ JobFits
    OBVIOUS
  <2> USE PoolAssumption DEF Init, Mixed
  <2>1. answer \in Answers /\ out \in [Rows -> Nat]
    BY DEF NoAnswer, Answers
  <2>2. NoParams \in [job : Nat, rows : 0 .. Capacity] /\ 0 \in 0 .. Capacity
    BY DEF NoParams
  <2>3. /\ state \in [Workers -> ThreadStates]
        /\ seen \in [Workers -> Int]
        /\ got \in [Workers -> [job : Nat, rows : 0 .. Capacity]]
        /\ at \in [Workers -> 0 .. Capacity]
    BY <2>2 DEF ThreadStates
  <2>4. params \in [job : Nat, rows : 0 .. Capacity]
    BY <2>2
  <2>5. /\ phase = "idle" /\ pool = "none" /\ gen \in Int /\ remaining \in Int
        /\ input \in Nat /\ job \in Nat /\ rows \in Nat /\ stops \in Nat
    OBVIOUS
  <2>6. done \subseteq Workers /\ overlapped \in BOOLEAN /\ rewoken \in BOOLEAN
    OBVIOUS
  <2>7. QED
    BY <2>1, <2>3, <2>4, <2>5, <2>6 DEF TypeOK, JobFits
<1>2. TypeOK /\ JobFits /\ [Next]_vars => (TypeOK /\ JobFits)'
  <2> SUFFICES ASSUME TypeOK, JobFits, [Next]_vars
               PROVE  (TypeOK /\ JobFits)'
    OBVIOUS
  <2> USE PoolAssumption DEF TypeOK, JobFits, ThreadStates
  <2>1. ASSUME NEW m \in Sizes, MatmulOnHost(m) PROVE (TypeOK /\ JobFits)'
    BY <2>1 DEF MatmulOnHost, Local, Answers, controlVars, scratchVars, threadVars, historyVars
  <2>2. ASSUME NEW m \in Sizes, MatmulUnavailable(m) PROVE (TypeOK /\ JobFits)'
    BY <2>2 DEF MatmulUnavailable, Local, Answers, controlVars, scratchVars, threadVars, historyVars
  <2>3. ASSUME NEW m \in Sizes, Prepare(m) PROVE (TypeOK /\ JobFits)'
    <3>1. m \in 0 .. Capacity /\ job + 1 \in Nat /\ NoAnswer \in Answers
      BY <2>3 DEF Prepare, NoAnswer, Answers, Mixed
    <3>2. (overlapped \/ \E w \in Workers : Straggler(w)) \in BOOLEAN
      OBVIOUS
    <3>3. QED
      BY <2>3, <3>1, <3>2 DEF Prepare
  <2>4. CASE Bump \/ Notify
    <3>1. CASE Bump
      BY <3>1 DEF Bump, scratchVars, threadVars, historyVars
    <3>2. CASE Notify
      <4>1. (rewoken \/ \E w \in done : state[w] = "asleep") \in BOOLEAN
        OBVIOUS
      <4>2. QED
        BY <3>2, <4>1 DEF Notify, controlVars, scratchVars
    <3>3. QED
      BY <2>4, <3>1, <3>2
  <2>5. CASE Collect
    BY <2>5 DEF Collect, Answers, controlVars, scratchVars, threadVars, historyVars
  <2>6. CASE Deadline
    BY <2>6 DEF Deadline, Local, Answers, controlVars, scratchVars, threadVars, historyVars
  <2>7. CASE Shutdown
    BY <2>7 DEF Shutdown, Stop, scratchVars, historyVars
  <2>8. ASSUME NEW w \in Workers, Sleep(w) \/ Take(w) PROVE (TypeOK /\ JobFits)'
    BY <2>8 DEF Sleep, Take, hostVars, controlVars, scratchVars, historyVars
  <2>9. ASSUME NEW w \in Workers, Load(w) PROVE (TypeOK /\ JobFits)'
    <3>1. params.rows \in Nat /\ Start(w, params.rows) \in 0 .. Capacity
      BY BandType
    <3>2. QED
      BY <2>9, <3>1 DEF Load, hostVars, controlVars, scratchVars, historyVars
  <2>10. ASSUME NEW w \in Workers, ComputeRow(w) PROVE (TypeOK /\ JobFits)'
    <3>1. got[w].rows \in Nat /\ End(w, got[w].rows) \in 0 .. Capacity
      BY BandType
    <3>2. at[w] + 1 \in 0 .. Capacity
      BY <2>10, <3>1 DEF ComputeRow
    <3>3. (IF input = got[w].job THEN input ELSE Mixed) \in Nat
      BY DEF Mixed
    <3>4. input' \in Nat
      BY <2>10 DEF ComputeRow, Mixed
    <3>5. QED
      BY <2>10, <3>2, <3>3, <3>4 DEF ComputeRow, hostVars, controlVars, historyVars
  <2>11. ASSUME NEW w \in Workers, Finish(w) PROVE (TypeOK /\ JobFits)'
    BY <2>11 DEF Finish, hostVars, scratchVars
  <2>12. ASSUME NEW w \in Workers, Die(w) PROVE (TypeOK /\ JobFits)'
    BY <2>12 DEF Die, hostVars, controlVars, scratchVars, historyVars
  <2>13. CASE UNCHANGED vars
    BY <2>13 DEF vars, hostVars, controlVars, scratchVars, threadVars, historyVars
  <2>14. QED
    BY <2>1, <2>2, <2>3, <2>4, <2>5, <2>6, <2>7, <2>8, <2>9, <2>10, <2>11, <2>12, <2>13
    DEF Next, Host, Thread
<1>3. QED
  BY <1>1, <1>2, PTL DEF Spec

-----------------------------------------------------------------------------
(* What holds as long as no job has been prepared over another. *)

(* A backend without threads has published nothing since it was created or  *)
(* shut down.                                                              *)
GenFresh == pool = "none" => phase = "idle" /\ gen \in {0, Stop}

(* A thread inside a job is inside the one last published.                 *)
InsideLast == \A w \in Workers : Working(w) => seen[w] = gen

(* The control block and the scratch hold the job the host is waiting for. *)
MemoryHolds == phase # "idle" => params = [job |-> job, rows |-> rows] /\ input = job

(* A computing thread has that job's parameters and is inside its band.    *)
InBand == \A w \in Workers : state[w] = "computing" =>
            /\ got[w] = params
            /\ Start(w, params.rows) <= at[w] /\ at[w] <= End(w, params.rows)

(* Between writing a job and releasing it nobody is about to read it.      *)
Quiet == phase = "prepared" =>
           /\ done = {} /\ remaining = W
           /\ \A w \in Workers : ~ Straggler(w)

Ordered == InsideLast /\ MemoryHolds /\ InBand /\ Quiet

(* Nothing clears the two histories, and only a shutdown leaves the        *)
(* backend without a pool.                                                 *)
LEMMA OverlapStays ==
  ASSUME TypeOK, GenFresh, [Next]_vars
  PROVE  GenFresh' /\ (overlapped => overlapped') /\ (rewoken => rewoken')
<1> DEFINE Goal == GenFresh' /\ (overlapped => overlapped') /\ (rewoken => rewoken')
<1>1. ASSUME NEW m \in Sizes, MatmulOnHost(m) \/ MatmulUnavailable(m) PROVE Goal
  BY <1>1 DEF MatmulOnHost, MatmulUnavailable, controlVars, historyVars, GenFresh, TypeOK
<1>2. ASSUME NEW m \in Sizes, Prepare(m) PROVE Goal
  BY <1>2 DEF Prepare, GenFresh, TypeOK
<1>3. CASE Bump \/ Notify
  BY <1>3 DEF Bump, Notify, controlVars, historyVars, GenFresh, TypeOK
<1>4. CASE Collect \/ Deadline
  BY <1>4 DEF Collect, Deadline, controlVars, historyVars, GenFresh, TypeOK
<1>5. CASE Shutdown
  BY <1>5 DEF Shutdown, historyVars, GenFresh, TypeOK
<1>6. ASSUME NEW w \in Workers, Sleep(w) \/ Take(w) PROVE Goal
  BY <1>6 DEF Sleep, Take, hostVars, controlVars, historyVars, GenFresh, TypeOK
<1>7. ASSUME NEW w \in Workers, Load(w) PROVE Goal
  BY <1>7 DEF Load, hostVars, controlVars, historyVars, GenFresh, TypeOK
<1>8. ASSUME NEW w \in Workers, ComputeRow(w) PROVE Goal
  BY <1>8 DEF ComputeRow, hostVars, controlVars, historyVars, GenFresh, TypeOK
<1>9. ASSUME NEW w \in Workers, Finish(w) PROVE Goal
  BY <1>9 DEF Finish, hostVars, GenFresh, TypeOK
<1>10. ASSUME NEW w \in Workers, Die(w) PROVE Goal
  BY <1>10 DEF Die, hostVars, controlVars, historyVars, GenFresh, TypeOK
<1>11. CASE UNCHANGED vars
  BY <1>11 DEF vars, hostVars, controlVars, historyVars, GenFresh, TypeOK
<1>12. QED
  BY <1>1, <1>2, <1>3, <1>4, <1>5, <1>6, <1>7, <1>8, <1>9, <1>10, <1>11
  DEF Next, Host, Thread

(* Every step keeps memory and threads in order, except preparing a job    *)
(* over a straggler, which sets `overlapped`.                              *)
LEMMA OrderKept ==
  ASSUME TypeOK, JobFits, GenFresh, Ordered, [Next]_vars, ~ overlapped'
  PROVE  Ordered'
<1> USE PoolAssumption
<1>1. ASSUME NEW m \in Sizes, MatmulOnHost(m) \/ MatmulUnavailable(m)
      PROVE  Ordered'
  <2>1. /\ phase = "idle" /\ phase' = "idle"
        /\ UNCHANGED <<gen, remaining, params, input, state, seen, got, at, done>>
    BY <1>1 DEF MatmulOnHost, MatmulUnavailable, controlVars, scratchVars, threadVars,
       historyVars
  <2>2. QED
    BY <2>1 DEF Ordered, InsideLast, MemoryHolds, InBand, Quiet, Working
<1>2. ASSUME NEW m \in Sizes, Prepare(m) PROVE Ordered'
  <2>1. \A w \in Workers : ~ Straggler(w)
    BY <1>2 DEF Prepare
  <2>2. \A w \in Workers : ~ Working(w)' /\ ~ Straggler(w)'
    <3>1. CASE pool = "none"
      BY <1>2, <3>1 DEF Prepare, Working, Straggler, GenFresh, Stop, TypeOK
    <3>2. CASE pool # "none"
      BY <1>2, <2>1, <3>2 DEF Prepare, Working, Straggler
    <3>3. QED
      BY <3>1, <3>2
  <2>3. MemoryHolds' /\ Quiet'
    BY <1>2, <2>2 DEF Prepare, MemoryHolds, Quiet
  <2>4. QED
    BY <2>2, <2>3 DEF Ordered, InsideLast, InBand, Working
<1>3. CASE Bump
  <2>1. /\ phase = "prepared" /\ phase' = "bumped"
        /\ UNCHANGED <<job, rows, params, input, state, seen, got, at>>
    BY <1>3 DEF Bump, scratchVars, threadVars, historyVars
  <2>2. \A w \in Workers : ~ Working(w)'
    BY <2>1 DEF Ordered, Quiet, Straggler, Working
  <2>3. QED
    BY <2>1, <2>2 DEF Ordered, InsideLast, MemoryHolds, InBand, Quiet, Working
<1>4. CASE Notify
  <2>1. /\ phase = "bumped" /\ phase' = "waiting"
        /\ \A w \in Workers : \/ state'[w] = state[w]
                              \/ state[w] = "asleep" /\ state'[w] = "woken"
        /\ UNCHANGED <<job, rows, gen, params, input, seen, got, at>>
    BY <1>4 DEF Notify, controlVars, scratchVars, TypeOK
  <2>2. QED
    BY <2>1 DEF Ordered, InsideLast, MemoryHolds, InBand, Quiet, Working
<1>5. CASE Collect \/ Deadline
  <2>1. /\ phase' = "idle" /\ UNCHANGED <<gen, params, input, state, seen, got, at>>
    BY <1>5 DEF Collect, Deadline, controlVars, scratchVars, threadVars, historyVars
  <2>2. QED
    BY <2>1 DEF Ordered, InsideLast, MemoryHolds, InBand, Quiet, Working
<1>6. CASE Shutdown
  <2>1. /\ phase' = "idle" /\ state' = [w \in Workers |-> "none"]
    BY <1>6 DEF Shutdown
  <2>2. QED
    BY <2>1 DEF Ordered, InsideLast, MemoryHolds, InBand, Quiet, Working
<1>7. ASSUME NEW w \in Workers, Sleep(w) PROVE Ordered'
  <2>1. /\ state'[w] = "asleep"
        /\ \A v \in Workers \ {w} : state'[v] = state[v]
        /\ UNCHANGED <<phase, job, rows, gen, remaining, params, input, seen, got, at, done>>
    BY <1>7 DEF Sleep, hostVars, controlVars, scratchVars, historyVars, TypeOK
  <2>2. QED
    BY <2>1 DEF Ordered, InsideLast, MemoryHolds, InBand, Quiet, Working, Straggler
<1>8. ASSUME NEW w \in Workers, Take(w) PROVE Ordered'
  <2>1. /\ state[w] = "woken" \/ (state[w] = "ready" /\ gen # seen[w])
        /\ \A v \in Workers \ {w} : state'[v] = state[v] /\ seen'[v] = seen[v]
        /\ \/ gen = Stop /\ state'[w] = "gone"
           \/ gen # Stop /\ state'[w] = "loading" /\ seen'[w] = gen
        /\ UNCHANGED <<phase, job, rows, gen, remaining, params, input, got, at, done>>
    BY <1>8 DEF Take, hostVars, controlVars, scratchVars, historyVars, TypeOK
  <2>2. phase = "prepared" => gen = Stop
    BY <2>1 DEF Ordered, Quiet, Straggler
  <2>3. InsideLast' /\ MemoryHolds' /\ InBand'
    BY <2>1 DEF Ordered, InsideLast, MemoryHolds, InBand, Working
  <2>4. Quiet'
    BY <2>1, <2>2 DEF Ordered, Quiet, Straggler, Working
  <2>5. QED
    BY <2>3, <2>4 DEF Ordered
<1>9. ASSUME NEW w \in Workers, Load(w) PROVE Ordered'
  <2>1. /\ state[w] = "loading" /\ state'[w] = "computing"
        /\ got'[w] = params /\ at'[w] = Start(w, params.rows)
        /\ \A v \in Workers \ {w} : /\ state'[v] = state[v] /\ got'[v] = got[v]
                                    /\ at'[v] = at[v]
        /\ UNCHANGED <<phase, job, rows, gen, remaining, params, input, seen, done>>
    BY <1>9 DEF Load, hostVars, controlVars, scratchVars, historyVars, TypeOK
  <2>2. phase # "prepared"
    BY <2>1 DEF Ordered, Quiet, Straggler, Working
  <2>3. InsideLast' /\ MemoryHolds' /\ Quiet'
    BY <2>1, <2>2 DEF Ordered, InsideLast, MemoryHolds, Quiet, Working
  <2>4. params.rows \in Nat
    BY DEF TypeOK
  <2>5. InBand'
    BY <2>1, <2>4, BandType DEF Ordered, InBand
  <2>6. QED
    BY <2>3, <2>5 DEF Ordered
<1>10. ASSUME NEW w \in Workers, ComputeRow(w) PROVE Ordered'
  <2>1. /\ state[w] = "computing" /\ at[w] < End(w, got[w].rows)
        /\ got[w] = params /\ Start(w, params.rows) <= at[w]
    BY <1>10 DEF ComputeRow, Ordered, InBand
  <2>2. /\ at'[w] = at[w] + 1
        /\ \A v \in Workers \ {w} : at'[v] = at[v]
        /\ UNCHANGED <<phase, job, rows, gen, remaining, params, input, state, seen, got, done>>
    BY <1>10, <2>1 DEF ComputeRow, hostVars, controlVars, historyVars, TypeOK
  <2>3. phase # "prepared"
    BY <2>1 DEF Ordered, Quiet, Straggler, Working
  <2>4. InsideLast' /\ MemoryHolds' /\ Quiet'
    BY <2>2, <2>3 DEF Ordered, InsideLast, MemoryHolds, Quiet, Working
  <2>5. InBand'
    <3>1. params.rows \in Nat /\ at[w] \in Nat
      BY DEF TypeOK
    <3>2. End(w, params.rows) \in Nat /\ Start(w, params.rows) \in Nat
      BY <3>1, BandType
    <3>3. at'[w] <= End(w, params.rows) /\ Start(w, params.rows) <= at'[w]
      BY <2>1, <2>2, <3>1, <3>2
    <3>4. QED
      BY <2>1, <2>2, <3>3 DEF Ordered, InBand
  <2>6. QED
    BY <2>4, <2>5 DEF Ordered
<1>11. ASSUME NEW w \in Workers, Finish(w) \/ Die(w) PROVE Ordered'
  <2>1. /\ state'[w] \in {"ready", "gone"}
        /\ Finish(w) => state[w] = "computing" /\ state'[w] = "ready"
        /\ Die(w) => state'[w] = "gone" /\ remaining' = remaining /\ done' = done
        /\ \A v \in Workers \ {w} : state'[v] = state[v]
        /\ UNCHANGED <<phase, job, rows, gen, params, input, seen, got, at>>
    BY <1>11 DEF Finish, Die, hostVars, controlVars, scratchVars, historyVars, TypeOK
  <2>2. InsideLast' /\ MemoryHolds' /\ InBand'
    BY <2>1 DEF Ordered, InsideLast, MemoryHolds, InBand, Working
  <2>3. Quiet'
    BY <1>11, <2>1 DEF Ordered, Quiet, Straggler, Working
  <2>4. QED
    BY <2>2, <2>3 DEF Ordered
<1>12. CASE UNCHANGED vars
  BY <1>12 DEF vars, hostVars, controlVars, scratchVars, threadVars, historyVars, Ordered,
     InsideLast, MemoryHolds, InBand, Quiet, Working, Straggler
<1>13. QED
  BY <1>1, <1>2, <1>3, <1>4, <1>5, <1>6, <1>7, <1>8, <1>9, <1>10, <1>11, <1>12
  DEF Next, Host, Thread

OrderInv == TypeOK /\ JobFits /\ GenFresh /\ (overlapped \/ Ordered)

(* Memory and threads are in order as long as no job is prepared over a    *)
(* straggler: deaths, missed deadlines and shutdowns do not disturb them.  *)
LEMMA InOrder == Spec => []OrderInv
<1>1. Init => GenFresh /\ Ordered
  BY PoolAssumption DEF Init, GenFresh, Ordered, InsideLast, MemoryHolds, InBand, Quiet, Working
<1>2. /\ TypeOK /\ JobFits /\ GenFresh /\ (overlapped \/ Ordered)
      /\ TypeOK' /\ JobFits' /\ [Next]_vars
      => GenFresh' /\ (overlapped \/ Ordered)'
  BY OverlapStays, OrderKept
<1>3. QED
  BY <1>1, <1>2, TypeCorrect, PTL DEF Spec, OrderInv

-----------------------------------------------------------------------------
(* What holds as long as, besides, no thread serves a job twice. *)

Filled(w, e) == \A r \in Start(w, rows) .. e - 1 : out[r] = job

(* Once a job is out a thread is counted once, after its band, and stays   *)
(* out of the job from then on.                                            *)
Counted == Released => remaining = W - Cardinality(done)
Banded == Released =>
            \A w \in Workers :
              /\ Working(w) \/ state[w] = "woken" => w \notin done
              /\ w \in done => /\ state[w] = "ready" => seen[w] = gen
                               /\ Filled(w, End(w, rows))
              /\ state[w] = "computing" => Filled(w, at[w])

Sound == Counted /\ Banded /\ ExactAnswer

PoolInv == OrderInv /\ (Disturbed \/ Sound)

(* Every step keeps the count, the rows and the answer right, except those *)
(* the two histories record.                                               *)
LEMMA SoundKept ==
  ASSUME TypeOK, JobFits, Ordered, Sound, [Next]_vars, ~ Disturbed'
  PROVE  Sound'
<1> USE PoolAssumption
<1>1. ASSUME NEW m \in Sizes, MatmulOnHost(m) \/ MatmulUnavailable(m)
      PROVE  Sound'
  <2>1. phase' = "idle" /\ ExactAnswer'
    BY <1>1 DEF MatmulOnHost, MatmulUnavailable, Local, ExactAnswer
  <2>2. QED
    BY <2>1 DEF Sound, Counted, Banded, Released
<1>2. ASSUME NEW m \in Sizes, Prepare(m) PROVE Sound'
  BY <1>2 DEF Prepare, NoAnswer, ExactAnswer, Sound, Counted, Banded, Released
<1>3. CASE Bump
  <2>1. /\ phase = "prepared"
        /\ UNCHANGED <<answer, remaining, state, done>>
    BY <1>3 DEF Bump, scratchVars, threadVars, historyVars
  <2>2. done = {} /\ remaining = W /\ \A w \in Workers : ~ Straggler(w)
    BY <2>1 DEF Ordered, Quiet
  <2>3. Counted'
    BY <2>1, <2>2, FS_EmptySet DEF Counted
  <2>4. Banded'
    BY <2>1, <2>2 DEF Banded, Straggler, Working
  <2>5. QED
    BY <2>1, <2>3, <2>4 DEF Sound, ExactAnswer
<1>4. CASE Notify
  <2>1. /\ phase = "bumped" /\ phase' = "waiting"
        /\ \A w \in Workers : \/ state'[w] = state[w]
                              \/ /\ state[w] = "asleep" /\ state'[w] = "woken"
                                 /\ w \notin done
        /\ UNCHANGED <<answer, job, rows, gen, remaining, out, seen, at, done>>
    BY <1>4 DEF Notify, Disturbed, controlVars, scratchVars, TypeOK
  <2>2. QED
    BY <2>1 DEF Sound, Counted, Banded, Released, ExactAnswer, Working, Filled
<1>5. CASE Collect
  <2>1. /\ phase = "waiting" /\ phase' = "idle" /\ remaining = 0
        /\ answer' = [how |-> "pool", job |-> job, rows |-> rows, cells |-> out]
    BY <1>5 DEF Collect
  <2>2. done = Workers
    <3>1. IsFiniteSet(Workers) /\ Cardinality(Workers) = W
      BY WorkersFinite
    <3>2. done \subseteq Workers /\ IsFiniteSet(done) /\ Cardinality(done) \in Nat
      BY <3>1, FS_Subset, FS_CardinalityType DEF TypeOK
    <3>3. Cardinality(done) = W
      BY <2>1, <3>2 DEF Sound, Counted, Released
    <3>4. QED
      BY <3>1, <3>2, <3>3, FS_Subset
  <2>3. \A r \in 0 .. rows - 1 : out[r] = job
    <3>1. SUFFICES ASSUME NEW r \in 0 .. rows - 1 PROVE out[r] = job
      OBVIOUS
    <3>2. rows \in Nat
      BY DEF TypeOK
    <3>3. PICK w \in Workers : Start(w, rows) <= r /\ r < End(w, rows)
      BY <3>2, BandsCover
    <3>4. Filled(w, End(w, rows))
      BY <2>1, <2>2 DEF Sound, Banded, Released
    <3>5. r \in Start(w, rows) .. End(w, rows) - 1
      BY <3>2, <3>3, BandType
    <3>6. QED
      BY <3>4, <3>5 DEF Filled
  <2>4. ExactAnswer'
    BY <2>1, <2>3 DEF ExactAnswer
  <2>5. QED
    BY <2>1, <2>4 DEF Sound, Counted, Banded, Released
<1>6. CASE Deadline
  BY <1>6 DEF Deadline, Local, ExactAnswer, Sound, Counted, Banded, Released
<1>7. CASE Shutdown
  BY <1>7 DEF Shutdown, ExactAnswer, Sound, Counted, Banded, Released
<1>8. ASSUME NEW w \in Workers, Sleep(w) \/ Take(w) PROVE Sound'
  <2>1. /\ Sleep(w) => state'[w] = "asleep" /\ seen' = seen
        /\ Take(w) => /\ state[w] = "woken" \/ (state[w] = "ready" /\ gen # seen[w])
                      /\ state'[w] \in {"loading", "gone"}
        /\ \A v \in Workers \ {w} : state'[v] = state[v] /\ seen'[v] = seen[v]
        /\ UNCHANGED <<phase, answer, job, rows, gen, remaining, out, at, done>>
    BY <1>8 DEF Sleep, Take, hostVars, controlVars, scratchVars, historyVars, TypeOK
  <2>2. Released /\ Take(w) => w \notin done
    BY <2>1 DEF Sound, Banded
  <2>3. QED
    BY <1>8, <2>1, <2>2 DEF Sound, Counted, Banded, Released, ExactAnswer, Working, Filled
<1>9. ASSUME NEW w \in Workers, Load(w) PROVE Sound'
  <2>1. /\ state[w] = "loading" /\ state'[w] = "computing"
        /\ at'[w] = Start(w, params.rows)
        /\ \A v \in Workers \ {w} : state'[v] = state[v] /\ at'[v] = at[v]
        /\ UNCHANGED <<phase, answer, job, rows, gen, remaining, params, out, seen, done>>
    BY <1>9 DEF Load, hostVars, controlVars, scratchVars, historyVars, TypeOK
  <2>2. Released => Filled(w, at'[w])
    <3>1. Released => params.rows = rows
      BY DEF Ordered, MemoryHolds, Released
    <3>2. Start(w, params.rows) \in Int
      BY BandType DEF TypeOK
    <3>3. QED
      BY <2>1, <3>1, <3>2 DEF Filled
  <2>3. QED
    BY <2>1, <2>2 DEF Sound, Counted, Banded, Released, ExactAnswer, Working, Filled
<1>10. ASSUME NEW w \in Workers, ComputeRow(w) PROVE Sound'
  <2>1. /\ state[w] = "computing" /\ at[w] < End(w, got[w].rows)
        /\ got[w] = params /\ Start(w, params.rows) <= at[w]
    BY <1>10 DEF ComputeRow, Ordered, InBand
  <2>2. /\ at'[w] = at[w] + 1
        /\ \A v \in Workers \ {w} : at'[v] = at[v]
        /\ UNCHANGED <<phase, answer, job, rows, gen, remaining, params, state, seen, done>>
    BY <1>10, <2>1 DEF ComputeRow, hostVars, controlVars, historyVars, TypeOK
  <2>3. Released => /\ out'[at[w]] = job /\ rows = params.rows
                    /\ \A r \in Rows \ {at[w]} : out'[r] = out[r]
    <3>1. params.rows \in 0 .. Capacity /\ params.rows \in Nat /\ at[w] \in Nat
      BY DEF TypeOK
    <3>2. End(w, params.rows) \in 0 .. params.rows
      BY <3>1, BandType
    <3>3. at[w] \in Rows
      BY <2>1, <3>1, <3>2 DEF Rows
    <3>4. QED
      BY <1>10, <2>1, <3>3 DEF ComputeRow, Ordered, MemoryHolds, Released, TypeOK
  <2>4. Banded'
    <3>1. SUFFICES ASSUME Released, NEW v \in Workers
                   PROVE  /\ Working(v)' \/ state'[v] = "woken" => v \notin done'
                          /\ v \in done' => /\ state'[v] = "ready" => seen'[v] = gen'
                                            /\ Filled(v, End(v, rows))'
                          /\ state'[v] = "computing" => Filled(v, at[v])'
      BY <2>2 DEF Banded, Released
    <3>2. Start(v, rows) \in Nat /\ End(v, rows) \in Nat /\ End(v, rows) <= Capacity
      BY <3>1, BandType DEF TypeOK, JobFits, Released
    <3>3. ASSUME NEW e \in Nat, e <= Capacity, Filled(v, e),
                 NEW r \in Start(v, rows) .. e - 1
          PROVE  out'[r] = job
      <4>1. r \in Rows /\ out[r] = job
        BY <3>2, <3>3 DEF Filled, Rows
      <4>2. QED
        BY <2>3, <3>1, <4>1
    <3>4. v \in done => Filled(v, End(v, rows))'
      <4>1. v \in done => Filled(v, End(v, rows))
        BY <3>1 DEF Sound, Banded
      <4>2. ASSUME v \in done, NEW r \in Start(v, rows) .. End(v, rows) - 1
            PROVE  out'[r] = job
        BY <3>2, <3>3, <4>1, <4>2
      <4>3. QED
        BY <2>2, <4>2 DEF Filled
    <3>5. state[v] = "computing" => Filled(v, at[v])'
      <4>1. state[v] = "computing" => /\ at[v] \in Nat /\ at[v] <= Capacity
                                      /\ Filled(v, at[v])
        BY <3>1 DEF Sound, Banded, TypeOK
      <4>2. CASE v # w
        <5>1. at'[v] = at[v]
          BY <2>2, <4>2
        <5>2. ASSUME state[v] = "computing", NEW r \in Start(v, rows) .. at[v] - 1
              PROVE  out'[r] = job
          BY <3>3, <4>1, <5>2
        <5>3. QED
          BY <2>2, <5>1, <5>2 DEF Filled
      <4>3. CASE v = w
        <5>1. ASSUME NEW r \in Start(v, rows) .. at'[v] - 1 PROVE out'[r] = job
          <6>1. r = at[w] \/ r \in Start(v, rows) .. at[v] - 1
            BY <2>1, <2>2, <3>2, <4>1, <4>3, <5>1
          <6>2. QED
            BY <2>1, <2>3, <3>1, <3>3, <4>1, <4>3, <6>1
        <5>2. QED
          BY <2>2, <5>1 DEF Filled
      <4>4. QED
        BY <4>2, <4>3
    <3>6. QED
      BY <2>2, <3>1, <3>4, <3>5 DEF Sound, Banded, Working
  <2>5. QED
    BY <2>2, <2>4 DEF Sound, Counted, Released, ExactAnswer
<1>11. ASSUME NEW w \in Workers, Finish(w) PROVE Sound'
  <2>1. /\ state[w] = "computing" /\ state'[w] = "ready"
        /\ at[w] = End(w, got[w].rows) /\ remaining' = remaining - 1
        /\ \A v \in Workers \ {w} : state'[v] = state[v]
        /\ UNCHANGED <<phase, answer, job, rows, gen, params, out, seen, got, at>>
    BY <1>11 DEF Finish, hostVars, scratchVars, TypeOK
  <2>2. seen[w] = gen /\ got[w] = params /\ done' = done \cup {w}
    BY <1>11, <2>1 DEF Finish, Ordered, InsideLast, InBand, Working
  <2>3. Counted'
    <3>1. CASE Released
      <4>1. w \notin done
        BY <2>1, <3>1 DEF Sound, Banded, Working
      <4>2. IsFiniteSet(done)
        BY WorkersFinite, FS_Subset DEF TypeOK
      <4>3. Cardinality(done') = Cardinality(done) + 1 /\ Cardinality(done) \in Nat
        BY <2>2, <4>1, <4>2, FS_AddElement, FS_CardinalityType
      <4>4. QED
        BY <2>1, <3>1, <4>3 DEF Sound, Counted, TypeOK
    <3>2. QED
      BY <2>1, <3>1 DEF Counted, Released
  <2>4. Released => Filled(w, End(w, rows))
    BY <2>1, <2>2 DEF Sound, Banded, Ordered, MemoryHolds, Released
  <2>5. QED
    BY <2>1, <2>2, <2>3, <2>4 DEF Sound, Banded, Released, ExactAnswer, Working, Filled
<1>12. ASSUME NEW w \in Workers, Die(w) PROVE Sound'
  <2>1. /\ state'[w] = "gone"
        /\ \A v \in Workers \ {w} : state'[v] = state[v]
        /\ UNCHANGED <<phase, answer, job, rows, gen, remaining, out, seen, at, done>>
    BY <1>12 DEF Die, hostVars, controlVars, scratchVars, historyVars, TypeOK
  <2>2. QED
    BY <2>1 DEF Sound, Counted, Banded, Released, Working, ExactAnswer, Filled
<1>13. CASE UNCHANGED vars
  BY <1>13 DEF vars, hostVars, controlVars, scratchVars, threadVars, historyVars, Sound,
     Counted, Banded, Released, Working, ExactAnswer, Filled
<1>14. QED
  BY <1>1, <1>2, <1>3, <1>4, <1>5, <1>6, <1>7, <1>8, <1>9, <1>10, <1>11, <1>12, <1>13
  DEF Next, Host, Thread

(* The whole invariant holds of every behaviour.                           *)
LEMMA Inductive == Spec => []PoolInv
<1>1. Init => Sound
  BY DEF Init, Sound, Counted, Banded, Released, ExactAnswer, NoAnswer
<1>2. OrderInv /\ OrderInv' /\ (Disturbed \/ Sound) /\ [Next]_vars => (Disturbed \/ Sound)'
  BY OverlapStays, SoundKept DEF OrderInv, Disturbed
<1>3. QED
  BY <1>1, <1>2, InOrder, PTL DEF Spec, PoolInv

(* What the pool hands back is the caller's own product, unless a job was  *)
(* prepared before a live thread was through with an earlier one, or a     *)
(* thread was woken for a job it had done its band of.                     *)
THEOREM ExactAnswers == Spec => []AnswersExactUnlessDisturbed
<1>1. PoolInv => AnswersExactUnlessDisturbed
  BY DEF PoolInv, Sound, AnswersExactUnlessDisturbed
<1>2. QED
  BY <1>1, Inductive, PTL

(* REMAINING is exactly the number of threads that still owe a band.       *)
THEOREM CountsMatch == Spec => []CountMatches
<1>1. PoolInv => CountMatches
  BY DEF PoolInv, Sound, Counted, CountMatches
<1>2. QED
  BY <1>1, Inductive, PTL

(* Two threads inside a job never meet on a row.                           *)
THEOREM RowsNotShared == Spec => []NoSharedRow
<1>1. OrderInv => NoSharedRow
  <2>1. SUFFICES ASSUME OrderInv, ~ overlapped,
                        NEW v \in Workers, NEW w \in Workers, v # w,
                        state[v] = "computing", at[v] < End(v, got[v].rows),
                        state[w] = "computing", at[w] < End(w, got[w].rows)
                 PROVE  at[v] # at[w]
    BY DEF NoSharedRow
  <2>2. /\ got[v] = params /\ Start(v, params.rows) <= at[v]
        /\ got[w] = params /\ Start(w, params.rows) <= at[w]
    BY <2>1 DEF OrderInv, Ordered, InBand
  <2>3. params.rows \in Nat /\ at[v] \in Nat /\ at[w] \in Nat /\ v \in Int /\ w \in Int
    BY <2>1 DEF OrderInv, TypeOK, Workers
  <2>4. /\ Start(v, params.rows) \in Nat /\ End(v, params.rows) \in Nat
        /\ Start(w, params.rows) \in Nat /\ End(w, params.rows) \in Nat
    BY <2>3, BandType
  <2>5. End(v, params.rows) <= Start(w, params.rows) \/ End(w, params.rows) <= Start(v, params.rows)
    BY <2>1, <2>3, BandsDisjoint
  <2>6. QED
    BY <2>1, <2>2, <2>3, <2>4, <2>5
<1>2. QED
  BY <1>1, InOrder, PTL

(* On a backend that was never shut down the generations only grow, and a  *)
(* thread that still owes the current job a band has not taken it yet.     *)
Unwoken == stops = 0 =>
             /\ gen \in Nat
             /\ \A w \in Workers : seen[w] <= gen
             /\ Released => \A w \in Workers :
                              state[w] = "ready" /\ w \notin done => seen[w] < gen
             /\ phase = "waiting" => \A w \in Workers : state[w] = "asleep" => w \in done

(* No thread sleeps through a job it owes a band, however late it boots,   *)
(* as long as the backend is never shut down and used again.               *)
THEOREM NoWakeupLost == Spec => []NoLostWakeup
<1>1. Init => Unwoken
  BY DEF Init, Unwoken, Released
<1>2. TypeOK /\ Unwoken /\ [Next]_vars => Unwoken'
  <2> SUFFICES ASSUME TypeOK, Unwoken, [Next]_vars PROVE Unwoken'
    OBVIOUS
  <2> USE DEF Unwoken, TypeOK, Released
  <2>1. ASSUME NEW m \in Sizes, MatmulOnHost(m) \/ MatmulUnavailable(m) PROVE Unwoken'
    BY <2>1 DEF MatmulOnHost, MatmulUnavailable, controlVars, threadVars, historyVars
  <2>2. ASSUME NEW m \in Sizes, Prepare(m) PROVE Unwoken'
    BY <2>2 DEF Prepare
  <2>3. CASE Bump
    BY <2>3 DEF Bump, threadVars, historyVars
  <2>4. CASE Notify
    BY <2>4 DEF Notify, controlVars
  <2>5. CASE Collect \/ Deadline
    BY <2>5 DEF Collect, Deadline, controlVars, threadVars, historyVars
  <2>6. CASE Shutdown
    BY <2>6 DEF Shutdown
  <2>7. ASSUME NEW w \in Workers, Sleep(w) \/ Take(w) PROVE Unwoken'
    <3>1. CASE Sleep(w)
      BY <3>1 DEF Sleep, hostVars, controlVars, historyVars
    <3>2. CASE Take(w)
      BY <3>2 DEF Take, hostVars, controlVars, historyVars
    <3>3. QED
      BY <2>7, <3>1, <3>2
  <2>8. ASSUME NEW w \in Workers, Load(w) PROVE Unwoken'
    BY <2>8 DEF Load, hostVars, controlVars, historyVars
  <2>9. ASSUME NEW w \in Workers, ComputeRow(w) PROVE Unwoken'
    BY <2>9 DEF ComputeRow, hostVars, controlVars, historyVars
  <2>10. ASSUME NEW w \in Workers, Finish(w) PROVE Unwoken'
    BY <2>10 DEF Finish, hostVars
  <2>11. ASSUME NEW w \in Workers, Die(w) PROVE Unwoken'
    BY <2>11 DEF Die, hostVars, controlVars, historyVars
  <2>12. CASE UNCHANGED vars
    BY <2>12 DEF vars, hostVars, controlVars, threadVars, historyVars
  <2>13. QED
    BY <2>1, <2>2, <2>3, <2>4, <2>5, <2>6, <2>7, <2>8, <2>9, <2>10, <2>11, <2>12
    DEF Next, Host, Thread
<1>3. TypeOK /\ Unwoken => NoLostWakeup
  BY DEF TypeOK, Unwoken, NoLostWakeup, OwesAndSleeps
<1>4. QED
  BY <1>1, <1>2, <1>3, TypeCorrect, PTL DEF Spec

=============================================================================
