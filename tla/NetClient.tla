------------------------------- MODULE NetClient -------------------------------
(***************************************************************************)
(* HTTP for a synchronous program (net.js, netWorker.mjs).  The calling    *)
(* thread clears two words of shared memory, posts a request to a worker   *)
(* thread and blocks; the worker fetches, writes the answer, its length    *)
(* and "ready" into the memory and notifies.  A caller that waited longer  *)
(* than the request may take terminates the worker, which may go on for a  *)
(* while, and the next request gets a new one with memory of its own.      *)
(***************************************************************************)
EXTENDS Integers, Sequences, TLC, SequencesExt

CONSTANTS
  Hosts,        \* the hosts a program names
  Allowed,      \* the hosts the run was started with, some of them
  MaxRequests   \* bound

VARIABLES
  caller,       \* the calling thread: where it is in NetClient.request
  asked,        \* the number of requests the program made
  worker,       \* the client's worker thread, 0 for none
  memory,       \* the client's shared memory
  threads,      \* every worker thread there was: [memory, ending]
  handlers,     \* per request, the worker's message handler: [thread, pc]
  shared,       \* every shared memory: [ready, length, data]
  trace         \* what each request came to, in the run's trace

netVars == <<caller, asked, worker, memory, threads, handlers, shared, trace>>

TooLarge == -1  \* the length of a reply that did not fit
None == 0

Init ==
  /\ caller = "idle" /\ asked = 0
  /\ worker = None /\ memory = None
  /\ threads = <<>> /\ handlers = <<>> /\ shared = <<>>
  /\ trace = <<>>

-----------------------------------------------------------------------------
(* The calling thread.                                                     *)

(* A host that is not permitted is refused before anything is sent.        *)
Refused(host) ==
  /\ caller = "idle" /\ asked < MaxRequests
  /\ host \notin Allowed
  /\ asked' = asked + 1
  /\ trace' = Append(trace, [of |-> asked', came |-> "refused", from |-> None])
  /\ UNCHANGED <<caller, worker, memory, threads, shared, handlers>>

Thread(m) == [memory |-> m, ending |-> FALSE]
Blank == [ready |-> 0, length |-> 0, data |-> None]

(* Mutant: the memory of the worker before is used again.                  *)
startOnOldMemory ==
  IF worker # None THEN UNCHANGED <<worker, memory, threads, shared>>
  ELSE /\ shared' = IF memory = None THEN <<Blank>> ELSE shared
       /\ memory' = 1
       /\ threads' = Append(threads, Thread(1))
       /\ worker' = Len(threads')

start ==
  IF worker # None THEN UNCHANGED <<worker, memory, threads, shared>>
  ELSE /\ shared' = Append(shared, Blank)
       /\ memory' = Len(shared')
       /\ threads' = Append(threads, Thread(memory'))
       /\ worker' = Len(threads')

Begin(host) ==
  /\ caller = "idle" /\ asked < MaxRequests
  /\ host \in Allowed
  /\ asked' = asked + 1
  /\ start
  /\ caller' = "clear ready"
  /\ UNCHANGED <<handlers, trace>>

ClearReady ==
  /\ caller = "clear ready"
  /\ shared' = [shared EXCEPT ![memory].ready = 0]
  /\ caller' = "clear length"
  /\ UNCHANGED <<asked, worker, memory, threads, handlers, trace>>

ClearLength ==
  /\ caller = "clear length"
  /\ shared' = [shared EXCEPT ![memory].length = 0]
  /\ caller' = "post"
  /\ UNCHANGED <<asked, worker, memory, threads, handlers, trace>>

Post ==
  /\ caller = "post"
  /\ handlers' = [r \in DOMAIN handlers \cup {asked} |->
                    IF r = asked THEN [thread |-> worker, pc |-> "posted"] ELSE handlers[r]]
  /\ caller' = "wait"
  /\ UNCHANGED <<asked, worker, memory, threads, shared, trace>>

(* Atomics.wait sleeps only if the word still has the value it expects.    *)
Wait ==
  /\ caller = "wait"
  /\ caller' = IF shared[memory].ready = 0 THEN "asleep" ELSE "collect"
  /\ UNCHANGED <<asked, worker, memory, threads, handlers, shared, trace>>

Return(came, from) ==
  /\ trace' = Append(trace, [of |-> asked, came |-> came, from |-> from])
  /\ caller' = "idle"

(* Mutant: the wait has no ceiling.                                        *)
TimesOutNever == FALSE

(* The ceiling on the wait; it may win against a notify under way.         *)
TimesOut ==
  /\ caller = "asleep"
  /\ threads' = [threads EXCEPT ![worker].ending = TRUE]
  /\ worker' = None
  /\ Return("timeout", None)
  /\ UNCHANGED <<asked, memory, handlers, shared>>

(* Nothing looks whether the reply is there: a notify meant for the reply  *)
(* before, which was found ready without sleeping, wakes this wait too.    *)
Collect ==
  /\ caller = "collect"
  /\ LET length == shared[memory].length
     IN IF length = TooLarge THEN Return("too_large", None)
        ELSE IF length = 0 THEN Return("unreadable", None)
        ELSE Return("reply", shared[memory].data)
  /\ UNCHANGED <<asked, worker, memory, threads, shared, handlers>>

-----------------------------------------------------------------------------
(* A worker thread.  Handlers of several requests take turns at their      *)
(* awaits; the writing of a reply has none.                                *)

At(r, pc) == handlers[r].pc = pc
Go(r, pc) == handlers' = [handlers EXCEPT ![r].pc = pc]
Replying(r) == handlers[r].pc \in {"fits", "too large", "ready", "notify"}
Resumes(r, pc) ==
  /\ At(r, pc)
  /\ \A q \in DOMAIN handlers : handlers[q].thread = handlers[r].thread => ~Replying(q)
Store(r, field, v) == shared' = [shared EXCEPT ![threads[handlers[r].thread].memory][field] = v]
CallerSame == UNCHANGED <<asked, worker, memory, threads, trace>>

Take(r) ==
  /\ Resumes(r, "posted")
  /\ Go(r, "fetch")
  /\ UNCHANGED <<caller, shared>> /\ CallerSame

(* The headers are in and the timer is cleared: the body may take for ever.*)
Headers(r) ==
  /\ Resumes(r, "fetch")
  /\ Go(r, "body")
  /\ UNCHANGED <<caller, shared>> /\ CallerSame

(* The response, or the failure or abort of the fetch, as a reply that     *)
(* fits, or as one that does not.                                          *)
Encode(r) ==
  \/ /\ Resumes(r, "fetch") \/ Resumes(r, "body")
     /\ Store(r, "data", r)
     /\ Go(r, "fits")
     /\ UNCHANGED caller /\ CallerSame
  \/ /\ Resumes(r, "body")
     /\ Go(r, "too large")
     /\ UNCHANGED <<caller, shared>> /\ CallerSame

StoreLength(r) ==
  /\ At(r, "fits") \/ At(r, "too large")
  /\ Store(r, "length", IF At(r, "fits") THEN 1 ELSE TooLarge)
  /\ Go(r, "ready")
  /\ UNCHANGED caller /\ CallerSame

StoreReady(r) ==
  /\ At(r, "ready")
  /\ Store(r, "ready", 1)
  /\ Go(r, "notify")
  /\ UNCHANGED caller /\ CallerSame

Notify(r) ==
  /\ At(r, "notify")
  /\ Go(r, "done")
  /\ caller' = IF caller = "asleep" /\ threads[handlers[r].thread].memory = memory THEN "collect" ELSE caller
  /\ UNCHANGED shared /\ CallerSame

(* terminate() takes effect some time after it returned.                   *)
Stop(t) ==
  /\ threads[t].ending
  /\ handlers' = [r \in {q \in DOMAIN handlers : handlers[q].thread # t} |-> handlers[r]]
  /\ handlers' # handlers
  /\ UNCHANGED <<caller, shared>> /\ CallerSame

Caller ==
  \/ ClearReady \/ ClearLength \/ Post \/ Wait \/ TimesOut \/ Collect

Next ==
  \/ \E host \in Hosts : Refused(host) \/ Begin(host)
  \/ Caller
  \/ \E r \in DOMAIN handlers :
       Take(r) \/ Headers(r) \/ Encode(r) \/ StoreLength(r) \/ StoreReady(r) \/ Notify(r)
  \/ \E t \in DOMAIN threads : Stop(t)

(* The calling thread runs on, and its wait has a ceiling.                 *)
Fairness == WF_netVars(Caller)

Spec == Init /\ [][Next]_netVars /\ Fairness

-----------------------------------------------------------------------------
(* Properties.                                                             *)

(* A request comes to its own answer or to none: whatever a worker that    *)
(* was given up still writes, and whenever.  It takes a wait that an       *)
(* earlier notify cut short for a later request to return another's reply. *)
OwnAnswer ==
  \A i \in DOMAIN trace :
    /\ trace[i].of = i
    /\ trace[i].came = "reply" =>
         \/ trace[i].from = i
         \/ \E j \in 1 .. i - 1 : trace[j].came = "unreadable"

(* A request returns, even when the body never does.                       *)
RequestReturns == caller # "idle" ~> caller = "idle"
=============================================================================
