-------------------------------- MODULE Flow --------------------------------
(***************************************************************************)
(* Labelled values in a running program: classify, declassify, endorse and *)
(* retract, and what becomes of labels when values are combined.           *)
(*                                                                         *)
(* A value is its label; what it is a value of does not matter.  Its trail *)
(* is history: the statements made on the way from one of the literals it  *)
(* was computed from.  A value has one trail for every such way, and the   *)
(* properties say what the label has to be, given the trails.              *)
(*                                                                         *)
(* Authority to speak for a principal is held inside `authority` blocks,   *)
(* for principals the run was started with.  Inside `release_to p` nothing *)
(* p may not read can be computed with, inside `vouched_by p` nothing that *)
(* is labelled and p does not vouch for.  The label builtins look at a     *)
(* value without reading it, and are not stopped by these blocks.          *)
(***************************************************************************)
EXTENDS Labels, Naturals, Sequences, FiniteSets, SequencesExt

CONSTANTS
  Granted,      \* grantedAuthority: the principals the run may act for
  Variables,    \* the program's variables
  MaxDepth,     \* bound: how deep blocks nest
  MaxSteps      \* bound: how many values are computed

ASSUME FlowAssumption ==
  /\ Granted \subseteq Principals
  /\ MaxDepth \in Nat /\ MaxSteps \in Nat

VARIABLES
  label,        \* the label of the value in each variable
  authority,    \* the principals this frame acts for
  blocks,       \* the open blocks, innermost last
  steps,        \* how many values were computed
  trails        \* history: the trails of the value in each variable

vars == <<label, authority, blocks, steps, trails>>

-----------------------------------------------------------------------------
Statement(op, o, readers) == [op |-> op, by |-> o, readers |-> readers]

Init ==
  /\ label = [v \in Variables |-> Empty]
  /\ authority = {} /\ blocks = <<>> /\ steps = 0
  /\ trails = [v \in Variables |-> {<<>>}]

(* The variable r is assigned a value.                                     *)
Assign(r, newLabel, newTrails) ==
  /\ steps < MaxSteps
  /\ steps' = steps + 1
  /\ label' = [label EXCEPT ![r] = newLabel]
  /\ trails' = [trails EXCEPT ![r] = newTrails]
  /\ UNCHANGED <<authority, blocks>>

Extended(v, statement) == {Append(t, statement) : t \in trails[v]}

Literal(r) == Assign(r, Empty, {<<>>})

(* A value taken over as it is, which is also all that declassifying an    *)
(* unlabelled value does.                                                  *)
Copy(v, r) == Assign(r, label[v], trails[v])

-----------------------------------------------------------------------------
(* The label builtins. *)

Classify(v, r, o, readers) ==
  Assign(r, And(label[v], Policy(o, readers)),
         Extended(v, Statement("classify", o, readers \cup {o})))

(* Mutant: any principal the program acts for can release any owner's rule.*)
DeclassifyForOthers(v, r, o) ==
  /\ authority # {}
  /\ o \in label[v].owners
  /\ Assign(r, Without(label[v], o), Extended(v, Statement("declassify", o, {})))

Declassify(v, r, o) ==
  /\ o \in authority
  /\ o \in label[v].owners
  /\ Assign(r, Without(label[v], o), Extended(v, Statement("declassify", o, {})))

Endorse(v, r, o) ==
  /\ o \in authority
  /\ Assign(r, And(label[v], Trust(o)), Extended(v, Statement("endorse", o, {})))

(* Needs no authority.                                                     *)
Retract(v, r, o) ==
  Assign(r, Unvouched(label[v], o), Extended(v, Statement("retract", o, {})))

-----------------------------------------------------------------------------
(* Computing. *)

BlocksOf(kind) == {d \in 1 .. Len(blocks) : blocks[d].kind = kind}
Innermost(D)   == CHOOSE d \in D : \A e \in D : e <= d

(* guard: only the innermost block of each kind is asked.                  *)
Readable(v) ==
  label[v] # Empty =>
    /\ LET D == BlocksOf("release_to")
       IN D # {} => CanRead(label[v], blocks[Innermost(D)].who)
    /\ LET D == BlocksOf("vouched_by")
       IN D # {} => TrustedBy(label[v], blocks[Innermost(D)].who)

(* A binary operator on u and v.                                           *)
Combine(u, v, r) ==
  /\ Readable(u) /\ Readable(v)
  /\ Assign(r, Join(label[u], label[v]), trails[u] \cup trails[v])

(* A unary operator, an interpolation into a string, an index or a member: *)
(* the result is computed from the value under the label, and only the     *)
(* flat labels of taint.js are put back on it.                             *)
Derive(v, r) ==
  /\ Readable(v)
  /\ Assign(r, Empty, Extended(v, Statement("derive", "nobody", {})))

-----------------------------------------------------------------------------
(* Blocks. *)

Enter(kind, who) ==
  /\ Len(blocks) < MaxDepth
  /\ kind = "authority" => who \in Granted
  /\ blocks' = Append(blocks, [kind |-> kind, who |-> who, had |-> who \in authority])
  /\ authority' = IF kind = "authority" THEN authority \cup {who} ELSE authority
  /\ UNCHANGED <<label, steps, trails>>

(* Mutant: a block gives its principal up though one around it acts for it.*)
LeaveForGood ==
  /\ blocks # <<>>
  /\ blocks' = Front(blocks)
  /\ authority' = IF Last(blocks).kind = "authority"
                  THEN authority \ {Last(blocks).who} ELSE authority
  /\ UNCHANGED <<label, steps, trails>>

(* A block ends, normally or by what is raised in it.                      *)
Leave ==
  /\ blocks # <<>>
  /\ blocks' = Front(blocks)
  /\ authority' = IF Last(blocks).kind = "authority" /\ ~ Last(blocks).had
                  THEN authority \ {Last(blocks).who} ELSE authority
  /\ UNCHANGED <<label, steps, trails>>

Kinds == {"authority", "release_to", "vouched_by"}

Next ==
  \/ \E r \in Variables : Literal(r)
  \/ \E v, r \in Variables, o \in Principals :
       \/ \E readers \in SUBSET Principals : Classify(v, r, o, readers)
       \/ Declassify(v, r, o) \/ Endorse(v, r, o) \/ Retract(v, r, o)
  \/ \E u, v, r \in Variables : Combine(u, v, r)
  \/ \E v, r \in Variables : Copy(v, r) \/ Derive(v, r)
  \/ \E kind \in Kinds, who \in Principals : Enter(kind, who)
  \/ Leave

Spec == Init /\ [][Next]_vars

-----------------------------------------------------------------------------
(* What the trails of a value say. *)

(* The i-th statement of a trail stands: its owner did not take it back.   *)
Stands(t, i, undo) == \A j \in i + 1 .. Len(t) : ~ (t[j].op = undo /\ t[j].by = t[i].by)

(* Everybody whom all standing rules of a trail permit; those whose vouch  *)
(* for a trail stands.                                                     *)
Permitted(t) ==
  {p \in Principals : \A i \in 1 .. Len(t) :
     t[i].op = "classify" /\ Stands(t, i, "declassify") => p \in t[i].readers}
Backers(t) ==
  {p \in Principals : \E i \in 1 .. Len(t) :
     t[i].op = "endorse" /\ t[i].by = p /\ Stands(t, i, "retract")}

(* No part of the value was derived from a labelled one, see Derive.       *)
Derived(t) == \E i \in 1 .. Len(t) : t[i].op = "derive"
Combined(v) == \A t \in trails[v] : ~ Derived(t)

Statements ==
  [op : {"classify", "declassify", "endorse", "retract"},
   by : Principals, readers : SUBSET Principals]
    \cup [op : {"derive"}, by : {"nobody"}, readers : {{}}]

TypeOK ==
  /\ label \in [Variables -> LabelRecords] /\ \A v \in Variables : WellFormed(label[v])
  /\ authority \subseteq Principals
  /\ blocks \in Seq([kind : Kinds, who : Principals, had : BOOLEAN])
  /\ steps \in Nat
  /\ trails \in [Variables -> SUBSET Seq(Statements)]

(* "Data does not become more readable by being mixed with other data":    *)
(* a value can be read by exactly those whom every rule permits that was   *)
(* stated anywhere on the way to it and not released by its owner since,   *)
(* for values computed by binary operators.                                *)
ReadersAgree ==
  \A v \in Variables : Combined(v) =>
    EffectiveReaders(label[v]) = {p \in Principals : \A t \in trails[v] : p \in Permitted(t)}

(* A principal vouches for a value exactly when its vouch stands for all   *)
(* the value was computed from, and has lost its vouch exactly when it     *)
(* stands for some of that: "a value that lost one is not the same thing   *)
(* as a literal that never had one".                                       *)
BackingAgrees ==
  \A v \in Variables : Combined(v) =>
    /\ label[v].vouchers = {p \in Principals : \A t \in trails[v] : p \in Backers(t)}
    /\ label[v].lost = {p \in Principals : \E t \in trails[v] : p \in Backers(t)}
                         \ label[v].vouchers

(* "Alice can declassify alice's data.  Nobody else can", and nobody else  *)
(* can vouch as alice: without a principal's authority no rule of it is    *)
(* released on any way to a value, and nothing is vouched for by it.       *)
OnlyByAuthority ==
  \A v \in Variables :
    /\ label[v].vouchers \subseteq Granted
    /\ Combined(v) =>
         \A t \in trails[v] : \A i \in 1 .. Len(t) :
           t[i].op = "classify" /\ t[i].by \notin Granted =>
             EffectiveReaders(label[v]) \subseteq t[i].readers

(* A frame acts for exactly the principals of the authority blocks it is   *)
(* in, also when blocks for one principal nest.                            *)
ActsWithinBlocks ==
  authority = {blocks[d].who : d \in BlocksOf("authority")}
=============================================================================
