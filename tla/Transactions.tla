---------------------------- MODULE Transactions ----------------------------
(***************************************************************************)
(* Ledgers, and the `atomic` blocks that append to them.                   *)
(*                                                                         *)
(* A ledger is a hash chain.  Inside an atomic block the first append to a *)
(* ledger enrolls it: the ledger remembers its length and head, and the    *)
(* innermost block remembers the ledger.  A block that ends drops the mark *)
(* of every ledger it enrolled; a block that is left in any other way,     *)
(* by a failure, by `return`, `break` or `continue`, or by an exhausted    *)
(* budget, truncates each of them back to its mark.                        *)
(*                                                                         *)
(* A SHA-256 digest is the triple it is computed from, so two digests are  *)
(* equal exactly when the chains below them are.                           *)
(***************************************************************************)
EXTENDS Naturals, Sequences, FiniteSets, SequencesExt, Unwinding

CONSTANTS
  Ledgers,      \* the program's ledgers
  Payloads,     \* what it appends
  MaxDepth,     \* bound: how deep blocks nest
  MaxEntries    \* bound: how long a ledger grows

ASSUME TransactionsAssumption == MaxDepth \in Nat /\ MaxEntries \in Nat

Kinds == {"atomic"} \cup CatchingKinds

VARIABLES
  entries,      \* Ledger.entries
  head,         \* Ledger.head
  savepoints,   \* Ledger.savepoints
  blocks,       \* the open blocks, innermost last: the kind of each and, for
                \* an atomic one, the ledgers it enrolled (txnStack)
  raised,       \* "none", or what is on its way out of the innermost block
  before,       \* history: the ledgers' entries when each block was entered
  leaked        \* history: for each block, the ledgers an atomic block inside
                \* it committed before it had enrolled them itself

vars == <<entries, head, savepoints, blocks, raised, before, leaked>>

-----------------------------------------------------------------------------
(* The chain. *)

Zero == <<>>
Digest(prev, index, payload) == <<prev, index, payload>>

Entry(prev, index, payload) ==
  [index |-> index, payload |-> payload, prev |-> prev,
   hash |-> Digest(prev, index, payload)]

HashAt(es, i) == IF i = 0 THEN Zero ELSE es[i].hash

(* Ledger.verify, on entries es and head h.                                *)
Verifies(es, h) ==
  /\ \A i \in 1 .. Len(es) :
       /\ es[i].prev = HashAt(es, i - 1)
       /\ es[i].hash = Digest(HashAt(es, i - 1), es[i].index, es[i].payload)
  /\ HashAt(es, Len(es)) = h

-----------------------------------------------------------------------------
Depth == Len(blocks)
Top   == Last(blocks)

AtomicDepths == {d \in 1 .. Depth : blocks[d].kind = "atomic"}

(* The innermost atomic block, 0 if none is open.                          *)
Innermost ==
  IF AtomicDepths = {} THEN 0
  ELSE CHOOSE d \in AtomicDepths : \A other \in AtomicDepths : other <= d

(* enroll(ledger): does the append about to happen need a mark?            *)
Enrolls(l) == Innermost # 0 /\ l \notin blocks[Innermost].enrolled

Init ==
  /\ entries = [l \in Ledgers |-> <<>>]
  /\ head = [l \in Ledgers |-> Zero]
  /\ savepoints = [l \in Ledgers |-> <<>>]
  /\ blocks = <<>> /\ raised = "none"
  /\ before = <<>> /\ leaked = <<>>

Enter(kind) ==
  /\ raised = "none" /\ Depth < MaxDepth
  /\ blocks' = Append(blocks, [kind |-> kind, enrolled |-> {}])
  /\ before' = Append(before, entries)
  /\ leaked' = Append(leaked, {})
  /\ UNCHANGED <<entries, head, savepoints, raised>>

(* Mutant: the mark is taken after the entry is in.                        *)
AppendThenEnroll(l, p) ==
  LET e == Entry(head[l], Len(entries[l]), p)
  IN /\ raised = "none" /\ Len(entries[l]) < MaxEntries
     /\ entries' = [entries EXCEPT ![l] = Append(@, e)]
     /\ head' = [head EXCEPT ![l] = e.hash]
     /\ savepoints' = IF Enrolls(l)
                      THEN [savepoints EXCEPT ![l] =
                              Append(@, [count |-> Len(entries[l]) + 1, head |-> e.hash])]
                      ELSE savepoints
     /\ blocks' = IF Enrolls(l)
                  THEN [blocks EXCEPT ![Innermost].enrolled = @ \cup {l}]
                  ELSE blocks
     /\ UNCHANGED <<raised, before, leaked>>

AppendTo(l, p) ==
  LET e == Entry(head[l], Len(entries[l]), p)
  IN /\ raised = "none" /\ Len(entries[l]) < MaxEntries
     /\ IF Enrolls(l)
        THEN /\ savepoints' = [savepoints EXCEPT ![l] =
                                 Append(@, [count |-> Len(entries[l]), head |-> head[l]])]
             /\ blocks' = [blocks EXCEPT ![Innermost].enrolled = @ \cup {l}]
        ELSE UNCHANGED <<savepoints, blocks>>
     /\ entries' = [entries EXCEPT ![l] = Append(@, e)]
     /\ head' = [head EXCEPT ![l] = e.hash]
     /\ UNCHANGED <<raised, before, leaked>>

(* The innermost block is gone, with the history kept about it.            *)
Close ==
  /\ blocks' = Front(blocks)
  /\ before' = Front(before)

(* The ledgers whose rollback finds a mark to go back to.                  *)
Marked == {l \in Top.enrolled : savepoints[l] # <<>>}

(* Every ledger the innermost block enrolled forgets its mark.             *)
Unmark == savepoints' = [l \in Ledgers |-> IF l \in Top.enrolled THEN Front(savepoints[l])
                                           ELSE savepoints[l]]

(* Mutant: commit leaves the marks in place.                               *)
CommitKeepingMarks ==
  /\ raised = "none" /\ Depth > 0 /\ Top.kind = "atomic"
  /\ Close
  /\ leaked' = [d \in 1 .. Depth - 1 |->
                  leaked[d] \cup (Top.enrolled \ blocks[d].enrolled)]
  /\ UNCHANGED <<entries, head, savepoints, raised>>

(* The body of an atomic block ran to its end.                             *)
Commit ==
  /\ raised = "none" /\ Depth > 0 /\ Top.kind = "atomic"
  /\ Unmark
  /\ Close
  /\ leaked' = [d \in 1 .. Depth - 1 |->
                  leaked[d] \cup (Top.enrolled \ blocks[d].enrolled)]
  /\ UNCHANGED <<entries, head, raised>>

(* The body of any other block ran to its end.                             *)
Leave ==
  /\ raised = "none" /\ Depth > 0 /\ Top.kind # "atomic"
  /\ Close
  /\ leaked' = Front(leaked)
  /\ UNCHANGED <<entries, head, savepoints, raised>>

(* A failure, a jump, or a budget of an enclosing block used up.           *)
Raise(r) ==
  /\ raised = "none" /\ r \in Raised
  /\ raised' = r
  /\ UNCHANGED <<entries, head, savepoints, blocks, before, leaked>>

(* Mutant: rollback puts the entries back and not the head.                *)
AbortKeepingHead ==
  /\ raised # "none" /\ Depth > 0 /\ Top.kind = "atomic"
  /\ entries' = [l \in Ledgers |-> IF l \in Marked
                                   THEN SubSeq(entries[l], 1, Last(savepoints[l]).count)
                                   ELSE entries[l]]
  /\ Unmark
  /\ Close
  /\ leaked' = Front(leaked)
  /\ UNCHANGED <<head, raised>>

(* Mutant: rollback undoes all the way to the outermost mark.              *)
AbortToFirstMark ==
  /\ raised # "none" /\ Depth > 0 /\ Top.kind = "atomic"
  /\ entries' = [l \in Ledgers |-> IF l \in Marked
                                   THEN SubSeq(entries[l], 1, savepoints[l][1].count)
                                   ELSE entries[l]]
  /\ head' = [l \in Ledgers |-> IF l \in Marked THEN savepoints[l][1].head
                                ELSE head[l]]
  /\ Unmark
  /\ Close
  /\ leaked' = Front(leaked)
  /\ UNCHANGED raised

(* Anything raised out of an atomic block rolls it back, and goes on.      *)
Abort ==
  /\ raised # "none" /\ Depth > 0 /\ Top.kind = "atomic"
  /\ entries' = [l \in Ledgers |-> IF l \in Marked
                                   THEN SubSeq(entries[l], 1, Last(savepoints[l]).count)
                                   ELSE entries[l]]
  /\ head' = [l \in Ledgers |-> IF l \in Marked THEN Last(savepoints[l]).head
                                ELSE head[l]]
  /\ Unmark
  /\ Close
  /\ leaked' = Front(leaked)
  /\ UNCHANGED raised

(* Any other block is left, or ends what was raised.                       *)
Unwind ==
  /\ raised # "none" /\ Depth > 0 /\ Top.kind # "atomic"
  /\ IF Stays(Top.kind, raised)
     THEN UNCHANGED <<blocks, before, leaked>>
     ELSE Close /\ leaked' = Front(leaked)
  /\ raised' = IF Ends(Top.kind, raised) THEN "none" ELSE Past(Top.kind, raised)
  /\ UNCHANGED <<entries, head, savepoints>>

(* Nothing is left to unwind: the run reports the failure, and an          *)
(* interactive session goes on with the next line on the same ledgers.     *)
Report ==
  /\ raised # "none" /\ Depth = 0
  /\ raised' = "none"
  /\ UNCHANGED <<entries, head, savepoints, blocks, before, leaked>>

Next ==
  \/ \E kind \in Kinds : Enter(kind)
  \/ \E l \in Ledgers, p \in Payloads : AppendTo(l, p)
  \/ Commit \/ Leave
  \/ \E r \in Raised : Raise(r)
  \/ Abort \/ Unwind \/ Report

Spec == Init /\ [][Next]_vars

(* Unwinding is one JavaScript throw: it never stops half-way.             *)
FairSpec == Spec /\ WF_vars(Abort) /\ WF_vars(Unwind) /\ WF_vars(Report)

-----------------------------------------------------------------------------
(* Every ledger's chain verifies at every moment, also between two blocks  *)
(* of one unwinding and after appends on top of a rollback: a rollback     *)
(* puts back the head with the count.                                      *)
ChainsVerify == \A l \in Ledgers : Verifies(entries[l], head[l])

(* The marks a ledger holds are one for each open atomic block that        *)
(* enrolled it, the outer block's at or before the inner one's, and none   *)
(* beyond what the ledger still holds: commit and rollback of an inner     *)
(* block never take an outer block's mark.                                 *)
EnrolledIn(l) == {d \in AtomicDepths : l \in blocks[d].enrolled}
Rank(D, d) == Cardinality({other \in D : other <= d})
MarksNest ==
  \A l \in Ledgers :
    /\ \A d \in EnrolledIn(l) :
         /\ Rank(EnrolledIn(l), d) <= Len(savepoints[l])
         /\ savepoints[l][Rank(EnrolledIn(l), d)].count >= Len(before[d][l])
    /\ EnrolledIn(l) = {} => savepoints[l] = <<>>
    /\ \A i \in 1 .. Len(savepoints[l]) :
         /\ savepoints[l][i].count <= Len(entries[l])
         /\ savepoints[l][i].head = HashAt(entries[l], savepoints[l][i].count)
         /\ i > 1 => savepoints[l][i - 1].count <= savepoints[l][i].count

(* An atomic block is being left early.                                    *)
Aborting == raised # "none" /\ Depth > 0 /\ Top.kind = "atomic" /\ Len(blocks') < Depth

(* A block that is left early leaves every ledger as it found it, save for *)
(* what an atomic block inside it committed before this block had appended *)
(* to that ledger itself.                                                  *)
AbortRestores ==
  [][Aborting => \A l \in Ledgers \ Last(leaked) : entries'[l] = Last(before)[l]]_vars

(* A block left early never takes away an append made before it was        *)
(* entered, committed or not.                                              *)
AbortKeepsOlder ==
  [][Aborting => \A l \in Ledgers : IsPrefix(Last(before)[l], entries'[l])]_vars

(* README.md: "both land, or neither does -- across any number of ledgers, *)
(* nested".                                                                *)
AllOrNone ==
  [][Aborting => \A l \in Ledgers : entries'[l] = Last(before)[l]]_vars
=============================================================================
