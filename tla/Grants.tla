------------------------------- MODULE Grants -------------------------------
(***************************************************************************)
(* Capabilities: what a frame holds, and grants, the capabilities a        *)
(* program can hand out, narrow and take back.                             *)
(*                                                                         *)
(* The run starts with the capabilities it was given.  A function body     *)
(* holds exactly what the function declares, which its caller must hold; a *)
(* `using` block holds what the frame around it holds and the capability   *)
(* of one live grant, which it spends a use of.  A frame may make a grant  *)
(* of anything it holds.  A grant narrowed from another is live only while *)
(* every grant above it is, and a use of it is a use of each of them.      *)
(*                                                                         *)
(* A grant is its place in the order they were made.  A parent pointer     *)
(* never changes, so the walk up from a grant is the set of grants it      *)
(* visits, the grant itself included: its chain.                           *)
(***************************************************************************)
EXTENDS Integers, Sequences, SequencesExt

CONSTANTS
  Capabilities,   \* every capability there is
  Initial,        \* those the run was started with
  Unlimited,      \* no limit on uses, no deadline: null
  Uses,           \* the use counts `attenuate` is asked for
  Spans,          \* the tick counts `attenuate` is asked for
  MaxGrants,      \* bound: grants made
  MaxDepth,       \* bound: frames open
  MaxTime,        \* bound: the logical time
  MaxEntries      \* bound: blocks entered with a grant

ASSUME GrantsAssumption ==
  /\ Initial \subseteq Capabilities
  /\ Unlimited \notin Int
  /\ Uses \subseteq Int /\ Spans \subseteq Nat
  /\ MaxGrants \in Nat /\ MaxDepth \in Nat \ {0} /\ MaxTime \in Nat
  /\ MaxEntries \in Nat

VARIABLES
  grants,      \* every grant made, in order
  frames,      \* what each open frame holds, innermost last
  time,        \* logicalTime
  through      \* history: for each grant, the `using` blocks entered with it
               \* or with a grant derived from it

vars == <<grants, frames, time, through>>

-----------------------------------------------------------------------------
Made == 1 .. Len(grants)
Held == Last(frames)

Tighter(a, b) == IF a <= b THEN a ELSE b

(* One link's part of reasonUnusable.                                      *)
LinkLive(g) ==
  /\ ~ grants[g].revoked
  /\ grants[g].uses # Unlimited => grants[g].uses > 0
  /\ grants[g].until # Unlimited => time <= grants[g].until

(* Mutant: liveness is this link's alone.                                  *)
LiveAlone(g) == LinkLive(g)

(* reasonUnusable: every link above must be live too.                      *)
Live(g) == \A a \in grants[g].chain : LinkLive(a)

Init ==
  /\ grants = <<>> /\ through = <<>>
  /\ frames = <<Initial>>
  /\ time = 0

Make(record) ==
  /\ Len(grants) < MaxGrants
  /\ grants' = Append(grants, record)
  /\ through' = Append(through, 0)
  /\ UNCHANGED <<frames, time>>

(* Mutant: the frame need not hold what it grants.                         *)
GrantUnheld(c) ==
  /\ c \in Capabilities
  /\ Make([capability |-> c, chain |-> {Len(grants) + 1}, uses |-> Unlimited,
           until |-> Unlimited, revocable |-> FALSE, revoked |-> FALSE, limit |-> Unlimited])

(* grant(c).                                                               *)
Grant(c) ==
  /\ c \in Held
  /\ Make([capability |-> c, chain |-> {Len(grants) + 1}, uses |-> Unlimited,
           until |-> Unlimited, revocable |-> FALSE, revoked |-> FALSE, limit |-> Unlimited])

(* A child of g with at most u uses and a deadline at or before t.         *)
Child(g, u, t, revocable) ==
  LET uses == IF u = Unlimited \/ grants[g].uses = Unlimited THEN u
              ELSE Tighter(u, grants[g].uses)
      until == IF t = Unlimited \/ grants[g].until = Unlimited
               THEN IF t = Unlimited THEN grants[g].until ELSE t
               ELSE Tighter(t, grants[g].until)
  IN [capability |-> grants[g].capability,
      chain |-> grants[g].chain \cup {Len(grants) + 1},
      uses |-> uses, until |-> until,
      revocable |-> revocable, revoked |-> FALSE, limit |-> uses]

(* g.attenuate({ "uses": u, "for": span }), at least one of them given.    *)
Attenuate(g, u, span) ==
  /\ g \in Made
  /\ u # Unlimited \/ span # Unlimited
  /\ Make(Child(g, u, IF span = Unlimited THEN Unlimited ELSE time + span, FALSE))

(* caretaker(g): a child that can be revoked by who keeps the other half.  *)
Caretaker(g) ==
  /\ g \in Made
  /\ Make(Child(g, Unlimited, Unlimited, TRUE))

Revoke(g) ==
  /\ g \in Made /\ grants[g].revocable
  /\ grants' = [grants EXCEPT ![g].revoked = TRUE]
  /\ UNCHANGED <<frames, time, through>>

Spent(record) == IF record.uses = Unlimited THEN record
                 ELSE [record EXCEPT !.uses = @ - 1]

(* Mutant: a use is charged to the grant itself and to nobody above it.    *)
SpendAlone(g) == [grants EXCEPT ![g] = Spent(@)]

Spend(g) == [h \in Made |-> IF h \in grants[g].chain THEN Spent(grants[h]) ELSE grants[h]]

(* Entering `using g { }`: checked and spent, then held by the block.      *)
EnterUsing(g) ==
  /\ g \in Made /\ Len(frames) < MaxDepth
  /\ \A a \in grants[g].chain : through[a] < MaxEntries
  /\ Live(g)
  /\ grants' = Spend(g)
  /\ frames' = Append(frames, Held \cup {grants[g].capability})
  /\ through' = [h \in Made |-> IF h \in grants[g].chain THEN through[h] + 1 ELSE through[h]]
  /\ UNCHANGED time

(* A call of a function that declares `needs`: its body holds that and no  *)
(* more.  A module being imported is such a body, with no needs.           *)
Call(needs) ==
  /\ Len(frames) < MaxDepth
  /\ needs \subseteq Held
  /\ frames' = Append(frames, needs)
  /\ UNCHANGED <<grants, time, through>>

(* A block or a call ends, normally or by what it raised.                  *)
Leave ==
  /\ Len(frames) > 1
  /\ frames' = Front(frames)
  /\ UNCHANGED <<grants, time, through>>

Advance ==
  /\ time < MaxTime
  /\ time' = time + 1
  /\ UNCHANGED <<grants, frames, through>>

Next ==
  \/ \E c \in Capabilities : Grant(c)
  \/ \E g \in Made :
       \/ \E u \in Uses \cup {Unlimited}, span \in Spans \cup {Unlimited} :
            Attenuate(g, u, span)
       \/ Caretaker(g) \/ Revoke(g) \/ EnterUsing(g)
  \/ \E needs \in SUBSET Capabilities : Call(needs)
  \/ Leave
  \/ Advance

Spec == Init /\ [][Next]_vars

-----------------------------------------------------------------------------
OrUnlimited(S) == S \cup {Unlimited}

GrantRecords ==
  [capability : Capabilities, chain : SUBSET Nat, uses : OrUnlimited(Int),
   until : OrUnlimited(Nat), revocable : BOOLEAN, revoked : BOOLEAN,
   limit : OrUnlimited(Int)]

TypeOK ==
  /\ grants \in Seq(GrantRecords)
  /\ frames \in Seq(SUBSET Capabilities) /\ frames # <<>>
  /\ time \in Nat
  /\ through \in Seq(Nat) /\ Len(through) = Len(grants)
  /\ \A g \in Made : g \in grants[g].chain /\ grants[g].chain \subseteq Made

(* Authority is never made: through any sequence of grants, blocks and     *)
(* calls, what a frame holds and what a grant is for are capabilities the  *)
(* run was started with.                                                   *)
NoManufacture ==
  /\ \A d \in 1 .. Len(frames) : frames[d] \subseteq Initial
  /\ \A g \in Made : grants[g].capability \in Initial

(* A grant narrowed to n uses is entered at most n times, counting the     *)
(* entries with every grant derived from it, however they are interleaved  *)
(* and however the limits were split among them.                           *)
NoOveruse ==
  \A g \in Made : grants[g].limit # Unlimited =>
    through[g] <= (IF grants[g].limit < 0 THEN 0 ELSE grants[g].limit)

(* A grant that cannot be used, because it or one above it is revoked,     *)
(* spent or past its deadline, stays so, and from then on no block is      *)
(* entered with it or with anything derived from it.                       *)
DeadForGood ==
  [][\A g \in Made : ~ Live(g) => ~ Live(g)' /\ through'[g] = through[g]]_vars

=============================================================================
