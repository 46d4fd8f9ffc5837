--------------------------- MODULE Grants_proofs ---------------------------
(***************************************************************************)
(* Proofs about Grants, for every set of capabilities and of limits, and   *)
(* any number of grants, nested blocks and uses.                           *)
(***************************************************************************)
EXTENDS Grants, TLAPS

(* What a grant may still be used for is its limit less what it was used   *)
(* for, and it was used only while that was positive.                      *)
Accounts ==
  \A g \in Made :
    /\ grants[g].uses = Unlimited <=> grants[g].limit = Unlimited
    /\ grants[g].limit # Unlimited =>
         /\ grants[g].uses = grants[g].limit - through[g]
         /\ grants[g].uses >= 0 \/ through[g] = 0

(* Whatever is above a grant has all of its own chain above that grant.    *)
ChainsNest == \A g \in Made : \A h \in grants[g].chain : grants[h].chain \subseteq grants[g].chain

IInv == TypeOK /\ NoManufacture /\ Accounts /\ ChainsNest

-----------------------------------------------------------------------------
(* A new grant leaves the others as they are.                              *)
LEMMA MakeFacts ==
  ASSUME TypeOK, NEW r \in GrantRecords, Make(r)
  PROVE  /\ Len(grants') = Len(grants) + 1
         /\ grants'[Len(grants) + 1] = r /\ through'[Len(grants) + 1] = 0
         /\ Made' = Made \cup {Len(grants) + 1}
         /\ Len(grants) \in Nat /\ Len(grants) + 1 \notin Made
         /\ \A g \in Made : grants'[g] = grants[g] /\ through'[g] = through[g]
<1> USE DEF TypeOK, Make, Made
<1>1. Len(grants') = Len(grants) + 1 /\ Len(grants) \in Nat
  OBVIOUS
<1>2. \A g \in Made : grants'[g] = grants[g] /\ through'[g] = through[g]
  OBVIOUS
<1>3. grants'[Len(grants) + 1] = r /\ through'[Len(grants) + 1] = 0
  OBVIOUS
<1>4. QED
  BY <1>1, <1>2, <1>3

(* A new grant of a capability the run has, whose chain is itself and the  *)
(* whole chain of one other grant, or itself alone, keeps the invariant.   *)
LEMMA MakeKeeps ==
  ASSUME IInv, NEW r \in GrantRecords, Make(r),
         r.capability \in Initial, r.uses = r.limit,
         \/ r.chain = {Len(grants) + 1}
         \/ \E g \in Made : r.chain = grants[g].chain \cup {Len(grants) + 1}
  PROVE  IInv'
<1> DEFINE n == Len(grants) + 1
<1>1. /\ Len(grants') = n
      /\ grants'[n] = r /\ through'[n] = 0
      /\ Made' = Made \cup {n}
      /\ Len(grants) \in Nat /\ n \notin Made
      /\ \A g \in Made : grants'[g] = grants[g] /\ through'[g] = through[g]
  BY MakeFacts DEF IInv
<1>2. r.chain \subseteq Made' /\ n \in r.chain
  BY <1>1 DEF IInv, TypeOK
<1>3. TypeOK'
  <2>1. grants' \in Seq(GrantRecords) /\ through' \in Seq(Nat) /\ Len(through') = Len(grants')
    BY <1>1 DEF IInv, TypeOK, Make
  <2>2. frames' = frames /\ time' = time
    BY DEF Make
  <2>3. \A g \in Made' : g \in grants'[g].chain /\ grants'[g].chain \subseteq Made'
    BY <1>1, <1>2 DEF IInv, TypeOK
  <2>4. QED
    BY <2>1, <2>2, <2>3 DEF IInv, TypeOK
<1>4. NoManufacture'
  <2>1. \A g \in Made' : grants'[g].capability \in Initial
    BY <1>1 DEF IInv, NoManufacture
  <2>2. frames' = frames
    BY DEF Make
  <2>3. QED
    BY <2>1, <2>2 DEF IInv, NoManufacture
<1>5. Accounts'
  <2> SUFFICES ASSUME NEW g \in Made'
      PROVE  /\ grants'[g].uses = Unlimited <=> grants'[g].limit = Unlimited
             /\ grants'[g].limit # Unlimited =>
                  /\ grants'[g].uses = grants'[g].limit - through'[g]
                  /\ grants'[g].uses >= 0 \/ through'[g] = 0
    BY DEF Accounts
  <2>1. CASE g \in Made
    BY <2>1, <1>1 DEF IInv, Accounts
  <2>2. CASE g = n
    <3>1. r.limit # Unlimited => r.limit \in Int
      BY DEF GrantRecords, OrUnlimited
    <3>2. QED
      BY <2>2, <3>1, <1>1
  <2>3. QED
    BY <1>1, <2>1, <2>2
<1>6. ChainsNest'
  <2> SUFFICES ASSUME NEW g \in Made', NEW h \in grants'[g].chain
      PROVE  grants'[h].chain \subseteq grants'[g].chain
    BY DEF ChainsNest
  <2>1. CASE g \in Made
    BY <2>1, <1>1 DEF IInv, ChainsNest, TypeOK
  <2>2. CASE g = n /\ h = n
    BY <2>2
  <2>3. CASE g = n /\ h # n
    <3>1. PICK p \in Made : r.chain = grants[p].chain \cup {n}
      BY <2>3, <1>1
    <3>2. h \in grants[p].chain /\ h \in Made
      BY <2>3, <3>1, <1>1 DEF IInv, TypeOK
    <3>3. grants[h].chain \subseteq grants[p].chain
      BY <3>1, <3>2 DEF IInv, ChainsNest
    <3>4. QED
      BY <2>3, <3>1, <3>2, <3>3, <1>1
  <2>4. QED
    BY <1>1, <2>1, <2>2, <2>3
<1>7. QED
  BY <1>3, <1>4, <1>5, <1>6 DEF IInv

(* A child is a well-formed grant of its parent's capability.              *)
LEMMA ChildFacts ==
  ASSUME IInv, NEW g \in Made, NEW u \in OrUnlimited(Int), NEW t \in OrUnlimited(Nat),
         NEW b \in BOOLEAN
  PROVE  /\ Child(g, u, t, b) \in GrantRecords
         /\ Child(g, u, t, b).capability = grants[g].capability
         /\ Child(g, u, t, b).uses = Child(g, u, t, b).limit
         /\ Child(g, u, t, b).chain = grants[g].chain \cup {Len(grants) + 1}
<1>1. grants[g] \in GrantRecords /\ Len(grants) \in Nat
  BY DEF IInv, TypeOK, Made
<1>2. /\ grants[g].uses \in OrUnlimited(Int) /\ grants[g].until \in OrUnlimited(Nat)
      /\ grants[g].capability \in Capabilities /\ grants[g].chain \subseteq Nat
  BY <1>1 DEF GrantRecords
<1> DEFINE uses == IF u = Unlimited \/ grants[g].uses = Unlimited THEN u
                   ELSE Tighter(u, grants[g].uses)
           until == IF t = Unlimited \/ grants[g].until = Unlimited
                    THEN IF t = Unlimited THEN grants[g].until ELSE t
                    ELSE Tighter(t, grants[g].until)
<1>3. uses \in OrUnlimited(Int)
  BY <1>2 DEF OrUnlimited, Tighter
<1>4. until \in OrUnlimited(Nat)
  BY <1>2 DEF OrUnlimited, Tighter
<1>5. Child(g, u, t, b) =
        [capability |-> grants[g].capability,
         chain |-> grants[g].chain \cup {Len(grants) + 1},
         uses |-> uses, until |-> until,
         revocable |-> b, revoked |-> FALSE, limit |-> uses]
  BY DEF Child
<1> HIDE DEF uses, until
<1>6. grants[g].chain \cup {Len(grants) + 1} \subseteq Nat
  BY <1>1, <1>2
<1>7. QED
  BY <1>2, <1>3, <1>4, <1>5, <1>6 DEF GrantRecords

(* What a use does to a grant's record.                                    *)
LEMMA SpentFacts ==
  ASSUME NEW r \in GrantRecords
  PROVE  /\ Spent(r) \in GrantRecords
         /\ Spent(r).uses = IF r.uses = Unlimited THEN Unlimited ELSE r.uses - 1
         /\ Spent(r).capability = r.capability /\ Spent(r).chain = r.chain
         /\ Spent(r).until = r.until /\ Spent(r).limit = r.limit
         /\ Spent(r).revoked = r.revoked
<1>1. CASE r.uses = Unlimited
  BY <1>1 DEF Spent
<1>2. CASE r.uses # Unlimited
  <2>1. r.uses \in Int
    BY <1>2 DEF GrantRecords, OrUnlimited
  <2>2. Spent(r) = [r EXCEPT !.uses = @ - 1] /\ r.uses - 1 \in OrUnlimited(Int)
    BY <1>2, <2>1 DEF Spent, OrUnlimited
  <2>3. QED
    BY <1>2, <2>1, <2>2 DEF GrantRecords
<1>3. QED
  BY <1>1, <1>2

(* Entering a block charges every grant on the chain and no other.         *)
LEMMA EnterFacts ==
  ASSUME IInv, NEW g \in Made, EnterUsing(g)
  PROVE  /\ Len(grants') = Len(grants) /\ Made' = Made
         /\ grants' \in Seq(GrantRecords)
         /\ through' \in Seq(Nat) /\ Len(through') = Len(through)
         /\ \A h \in Made : h \in grants[g].chain =>
              grants'[h] = Spent(grants[h]) /\ through'[h] = through[h] + 1
         /\ \A h \in Made : h \notin grants[g].chain =>
              grants'[h] = grants[h] /\ through'[h] = through[h]
<1> USE DEF Made
<1>1. \A h \in Made : grants[h] \in GrantRecords /\ through[h] \in Nat
  BY DEF IInv, TypeOK
<1>2. Len(grants) \in Nat /\ Len(through) = Len(grants)
  BY DEF IInv, TypeOK
<1>3. grants' = [h \in Made |-> IF h \in grants[g].chain THEN Spent(grants[h]) ELSE grants[h]]
  BY DEF EnterUsing, Spend
<1>4. through' = [h \in Made |-> IF h \in grants[g].chain THEN through[h] + 1 ELSE through[h]]
  BY DEF EnterUsing
<1>5. \A h \in Made : (IF h \in grants[g].chain THEN Spent(grants[h]) ELSE grants[h]) \in GrantRecords
  BY <1>1, SpentFacts
<1>6. grants' \in [1 .. Len(grants) -> GrantRecords]
  BY <1>3, <1>5
<1>7. through' \in [1 .. Len(grants) -> Nat]
  BY <1>1, <1>4
<1>8. grants' \in Seq(GrantRecords) /\ Len(grants') = Len(grants)
  BY <1>2, <1>6
<1>9. through' \in Seq(Nat) /\ Len(through') = Len(grants)
  BY <1>2, <1>7
<1>10. QED
  BY <1>2, <1>3, <1>4, <1>8, <1>9

-----------------------------------------------------------------------------
(* The invariant. *)

(* The run starts with no grants and one frame of what it was given.      *)
LEMMA InitInvariant == Init => IInv
<1> SUFFICES ASSUME Init PROVE IInv
  OBVIOUS
<1>1. Made = {}
  BY DEF Init, Made
<1>2. frames \in Seq(SUBSET Capabilities) /\ frames # <<>> /\ Len(frames) = 1 /\ frames[1] = Initial
  BY GrantsAssumption DEF Init
<1>3. TypeOK
  BY <1>1, <1>2 DEF Init, TypeOK
<1>4. NoManufacture
  BY <1>1, <1>2 DEF NoManufacture
<1>5. QED
  BY <1>1, <1>3, <1>4 DEF IInv, Accounts, ChainsNest

(* A step that leaves the grants alone and pushes or pops a frame of       *)
(* capabilities the run has keeps the invariant.                           *)
LEMMA FramesKeep ==
  ASSUME IInv, UNCHANGED <<grants, through>>, time' \in Nat,
         frames' \in Seq(SUBSET Capabilities), frames' # <<>>,
         \A d \in 1 .. Len(frames') : frames'[d] \subseteq Initial
  PROVE  IInv'
<1>1. TypeOK'
  BY DEF IInv, TypeOK, Made
<1>2. NoManufacture'
  BY DEF IInv, NoManufacture, Made
<1>3. Accounts' /\ ChainsNest'
  BY DEF IInv, Accounts, ChainsNest, Made
<1>4. QED
  BY <1>1, <1>2, <1>3 DEF IInv

(* Pushing a frame of capabilities the run has.                            *)
LEMMA PushFacts ==
  ASSUME IInv, NEW s \in SUBSET Initial, frames' = Append(frames, s)
  PROVE  /\ frames' \in Seq(SUBSET Capabilities) /\ frames' # <<>>
         /\ \A d \in 1 .. Len(frames') : frames'[d] \subseteq Initial
<1>1. s \in SUBSET Capabilities /\ frames \in Seq(SUBSET Capabilities)
  BY GrantsAssumption DEF IInv, TypeOK
<1>2. /\ frames' \in Seq(SUBSET Capabilities) /\ Len(frames') = Len(frames) + 1
      /\ Len(frames) \in Nat
      /\ \A d \in 1 .. Len(frames) : frames'[d] = frames[d]
      /\ frames'[Len(frames) + 1] = s
  BY <1>1
<1>3. QED
  BY <1>2 DEF IInv, NoManufacture

(* The innermost frame holds only capabilities the run has.                *)
LEMMA HeldInitial == ASSUME IInv PROVE Held \subseteq Initial /\ Held \subseteq Capabilities
<1>1. Len(frames) \in 1 .. Len(frames)
  BY DEF IInv, TypeOK
<1>2. QED
  BY <1>1, GrantsAssumption DEF IInv, NoManufacture, Held, Last

(* Entering a block spends uses and adds to a new frame, and keeps the     *)
(* invariant.                                                              *)
LEMMA UsingKeeps ==
  ASSUME IInv, NEW g \in Made, EnterUsing(g)
  PROVE  IInv'
<1>1. /\ Len(grants') = Len(grants) /\ Made' = Made
      /\ grants' \in Seq(GrantRecords)
      /\ through' \in Seq(Nat) /\ Len(through') = Len(through)
      /\ \A h \in Made : h \in grants[g].chain =>
           grants'[h] = Spent(grants[h]) /\ through'[h] = through[h] + 1
      /\ \A h \in Made : h \notin grants[g].chain =>
           grants'[h] = grants[h] /\ through'[h] = through[h]
  BY EnterFacts
<1>2. \A h \in Made : grants[h] \in GrantRecords /\ through[h] \in Nat
  BY DEF IInv, TypeOK, Made
<1>3. \A h \in Made : /\ grants'[h].chain = grants[h].chain
                      /\ grants'[h].capability = grants[h].capability
                      /\ grants'[h].limit = grants[h].limit
  BY <1>1, <1>2, SpentFacts
<1>4. Held \cup {grants[g].capability} \in SUBSET Initial
  BY HeldInitial DEF IInv, NoManufacture
<1>5. /\ frames' \in Seq(SUBSET Capabilities) /\ frames' # <<>>
      /\ \A d \in 1 .. Len(frames') : frames'[d] \subseteq Initial
  BY <1>4, PushFacts DEF EnterUsing
<1>6. TypeOK'
  BY <1>1, <1>3, <1>5 DEF IInv, TypeOK, EnterUsing
<1>7. NoManufacture'
  BY <1>1, <1>3, <1>5 DEF IInv, NoManufacture
<1>8. ChainsNest'
  BY <1>1, <1>3 DEF IInv, ChainsNest, TypeOK
<1>9. Accounts'
  <2> SUFFICES ASSUME NEW h \in Made
      PROVE  /\ grants'[h].uses = Unlimited <=> grants'[h].limit = Unlimited
             /\ grants'[h].limit # Unlimited =>
                  /\ grants'[h].uses = grants'[h].limit - through'[h]
                  /\ grants'[h].uses >= 0 \/ through'[h] = 0
    BY <1>1 DEF Accounts
  <2>1. CASE h \notin grants[g].chain
    BY <2>1, <1>1 DEF IInv, Accounts
  <2>2. CASE h \in grants[g].chain /\ grants[h].uses = Unlimited
    BY <2>2, <1>1, <1>2, <1>3, SpentFacts DEF IInv, Accounts
  <2>3. CASE h \in grants[g].chain /\ grants[h].uses # Unlimited
    <3>1. grants[h].uses > 0
      BY <2>3 DEF EnterUsing, Live, LinkLive
    <3>2. /\ grants[h].limit # Unlimited /\ grants[h].limit \in Int
          /\ grants[h].uses \in Int
          /\ grants[h].uses = grants[h].limit - through[h]
      BY <2>3, <1>2 DEF IInv, Accounts, GrantRecords, OrUnlimited
    <3>3. grants'[h].uses = grants[h].uses - 1
      BY <2>3, <1>1, <1>2, SpentFacts
    <3>4. grants'[h].limit = grants[h].limit /\ through'[h] = through[h] + 1
      BY <2>3, <1>1, <1>3
    <3>5. grants'[h].uses # Unlimited
      BY <3>2, <3>3, GrantsAssumption
    <3>6. QED
      BY <1>2, <3>1, <3>2, <3>3, <3>4, <3>5
  <2>4. QED
    BY <2>1, <2>2, <2>3
<1>10. QED
  BY <1>6, <1>7, <1>8, <1>9 DEF IInv

(* Revoking a grant leaves all of its record but the cell, and the others. *)
LEMMA RevokeFacts ==
  ASSUME IInv, NEW g \in Made, Revoke(g)
  PROVE  /\ grants' \in Seq(GrantRecords) /\ Len(grants') = Len(grants)
         /\ grants'[g].revoked
         /\ \A h \in Made \ {g} : grants'[h] = grants[h]
         /\ \A h \in Made : /\ grants'[h].capability = grants[h].capability
                            /\ grants'[h].chain = grants[h].chain
                            /\ grants'[h].uses = grants[h].uses
                            /\ grants'[h].limit = grants[h].limit
<1>1. grants \in Seq(GrantRecords) /\ g \in 1 .. Len(grants) /\ grants[g] \in GrantRecords
  BY DEF IInv, TypeOK, Made
<1> DEFINE r == [grants[g] EXCEPT !.revoked = TRUE]
<1>2. r \in GrantRecords
  BY <1>1 DEF GrantRecords
<1>3. grants' = [grants EXCEPT ![g] = r]
  BY DEF Revoke
<1>4. /\ r.capability = grants[g].capability /\ r.chain = grants[g].chain
      /\ r.uses = grants[g].uses /\ r.limit = grants[g].limit
      /\ r.revoked
  BY <1>1 DEF GrantRecords
<1> HIDE DEF r
<1>5. grants' \in Seq(GrantRecords) /\ Len(grants') = Len(grants)
  BY <1>1, <1>2, <1>3
<1>6. grants'[g] = r /\ \A h \in Made \ {g} : grants'[h] = grants[h]
  BY <1>1, <1>3 DEF Made
<1>7. \A h \in Made : /\ grants'[h].capability = grants[h].capability
                      /\ grants'[h].chain = grants[h].chain
                      /\ grants'[h].uses = grants[h].uses
                      /\ grants'[h].limit = grants[h].limit
  BY <1>4, <1>6
<1>8. QED
  BY <1>4, <1>5, <1>6, <1>7

(* Revoking a grant keeps the invariant.                                   *)
LEMMA RevokeKeeps ==
  ASSUME IInv, NEW g \in Made, Revoke(g)
  PROVE  IInv'
<1>1. grants' \in Seq(GrantRecords) /\ Len(grants') = Len(grants)
  BY RevokeFacts
<1>2. \A h \in Made : /\ grants'[h].capability = grants[h].capability
                      /\ grants'[h].chain = grants[h].chain
                      /\ grants'[h].uses = grants[h].uses
                      /\ grants'[h].limit = grants[h].limit
  BY RevokeFacts
<1>3. Made' = Made /\ UNCHANGED <<frames, time, through>>
  BY <1>1 DEF Made, Revoke
<1>4. TypeOK'
  BY <1>1, <1>2, <1>3 DEF IInv, TypeOK
<1>5. NoManufacture'
  BY <1>2, <1>3 DEF IInv, NoManufacture
<1>6. Accounts'
  BY <1>2, <1>3 DEF IInv, Accounts
<1>7. ChainsNest'
  BY <1>2, <1>3 DEF IInv, ChainsNest, TypeOK
<1>8. QED
  BY <1>4, <1>5, <1>6, <1>7 DEF IInv

(* Every action keeps the invariant.                                       *)
LEMMA Inductive == IInv /\ [Next]_vars => IInv'
<1> SUFFICES ASSUME IInv, [Next]_vars PROVE IInv'
  OBVIOUS
<1>1. ASSUME NEW c \in Capabilities, Grant(c) PROVE IInv'
  <2> DEFINE r == [capability |-> c, chain |-> {Len(grants) + 1}, uses |-> Unlimited,
                   until |-> Unlimited, revocable |-> FALSE, revoked |-> FALSE,
                   limit |-> Unlimited]
  <2>1. Len(grants) \in Nat
    BY DEF IInv, TypeOK
  <2>2. r \in GrantRecords
    BY <2>1 DEF GrantRecords, OrUnlimited
  <2>3. c \in Initial /\ Make(r)
    BY <1>1, HeldInitial DEF Grant
  <2>4. QED
    BY <2>2, <2>3, MakeKeeps
<1>2. ASSUME NEW g \in Made, NEW u \in Uses \cup {Unlimited}, NEW span \in Spans \cup {Unlimited},
             Attenuate(g, u, span)
      PROVE  IInv'
  <2> DEFINE t == IF span = Unlimited THEN Unlimited ELSE time + span
  <2>1. u \in OrUnlimited(Int) /\ t \in OrUnlimited(Nat)
    <3>1. time \in Nat /\ Spans \subseteq Nat /\ Uses \subseteq Int
      BY GrantsAssumption DEF IInv, TypeOK
    <3>2. CASE span = Unlimited
      BY <3>1, <3>2 DEF OrUnlimited
    <3>3. CASE span # Unlimited
      <4>1. t = time + span /\ span \in Nat
        BY <3>1, <3>3
      <4>2. QED
        BY <3>1, <4>1 DEF OrUnlimited
    <3>4. QED
      BY <3>2, <3>3
  <2>2. Make(Child(g, u, t, FALSE))
    BY <1>2 DEF Attenuate
  <2> HIDE DEF t
  <2>3. /\ Child(g, u, t, FALSE) \in GrantRecords
        /\ Child(g, u, t, FALSE).capability \in Initial
        /\ Child(g, u, t, FALSE).uses = Child(g, u, t, FALSE).limit
        /\ Child(g, u, t, FALSE).chain = grants[g].chain \cup {Len(grants) + 1}
    BY <2>1, ChildFacts DEF IInv, NoManufacture
  <2>4. QED
    BY <2>2, <2>3, MakeKeeps
<1>3. ASSUME NEW g \in Made, Caretaker(g) PROVE IInv'
  <2>1. Unlimited \in OrUnlimited(Int) /\ Unlimited \in OrUnlimited(Nat)
    BY DEF OrUnlimited
  <2>2. Make(Child(g, Unlimited, Unlimited, TRUE))
    BY <1>3 DEF Caretaker
  <2>3. /\ Child(g, Unlimited, Unlimited, TRUE) \in GrantRecords
        /\ Child(g, Unlimited, Unlimited, TRUE).capability \in Initial
        /\ Child(g, Unlimited, Unlimited, TRUE).uses = Child(g, Unlimited, Unlimited, TRUE).limit
        /\ Child(g, Unlimited, Unlimited, TRUE).chain = grants[g].chain \cup {Len(grants) + 1}
    BY <2>1, ChildFacts DEF IInv, NoManufacture
  <2>4. QED
    BY <2>2, <2>3, MakeKeeps
<1>4. ASSUME NEW g \in Made, Revoke(g) PROVE IInv'
  BY <1>4, RevokeKeeps
<1>5. ASSUME NEW g \in Made, EnterUsing(g) PROVE IInv'
  BY <1>5, UsingKeeps
<1>6. ASSUME NEW needs \in SUBSET Capabilities, Call(needs) PROVE IInv'
  <2>1. needs \in SUBSET Initial
    BY <1>6, HeldInitial DEF Call
  <2>2. QED
    BY <1>6, <2>1, PushFacts, FramesKeep DEF Call, IInv, TypeOK
<1>7. ASSUME Leave PROVE IInv'
  <2>1. frames \in Seq(SUBSET Capabilities) /\ Len(frames) > 1 /\ frames' = Front(frames)
    BY <1>7 DEF Leave, IInv, TypeOK
  <2>2. /\ frames' \in Seq(SUBSET Capabilities) /\ Len(frames') = Len(frames) - 1
        /\ \A d \in 1 .. Len(frames') : frames'[d] = frames[d]
    BY <2>1 DEF Front
  <2>3. \A d \in 1 .. Len(frames') : frames'[d] \subseteq Initial
    BY <2>1, <2>2 DEF IInv, NoManufacture
  <2>4. frames' # <<>>
    BY <2>1, <2>2
  <2>5. QED
    BY <1>7, <2>2, <2>3, <2>4, FramesKeep DEF Leave, IInv, TypeOK
<1>8. ASSUME Advance PROVE IInv'
  <2>1. time' \in Nat /\ UNCHANGED <<grants, through, frames>>
    BY <1>8 DEF Advance, IInv, TypeOK
  <2>2. QED
    BY <2>1, FramesKeep DEF IInv, TypeOK, NoManufacture
<1>9. ASSUME UNCHANGED vars PROVE IInv'
  BY <1>9, FramesKeep DEF vars, IInv, TypeOK, NoManufacture
<1>10. QED
  BY <1>1, <1>2, <1>3, <1>4, <1>5, <1>6, <1>7, <1>8, <1>9 DEF Next

(* The invariant holds in every state of every behaviour.                  *)
LEMMA Invariant == Spec => []IInv
<1>1. QED
  BY InitInvariant, Inductive, PTL DEF Spec

(* Every variable keeps its type.                                          *)
THEOREM TypeCorrect == Spec => []TypeOK
<1>1. IInv => TypeOK
  BY DEF IInv
<1>2. QED
  BY <1>1, Invariant, PTL

(* No sequence of grants, `using` blocks and calls holds a capability the  *)
(* run was not started with.                                               *)
THEOREM AuthorityNotMade == Spec => []NoManufacture
<1>1. IInv => NoManufacture
  BY DEF IInv
<1>2. QED
  BY <1>1, Invariant, PTL

(* A use limit bounds the entries with the grant and all derived from it.  *)
THEOREM LimitsHold == Spec => []NoOveruse
<1>1. IInv => NoOveruse
  <2> SUFFICES ASSUME IInv, NEW g \in Made, grants[g].limit # Unlimited
      PROVE  through[g] <= (IF grants[g].limit < 0 THEN 0 ELSE grants[g].limit)
    BY DEF NoOveruse
  <2>1. grants[g] \in GrantRecords /\ through[g] \in Nat
    BY DEF IInv, TypeOK, Made
  <2>2. grants[g].limit \in Int
    BY <2>1 DEF GrantRecords, OrUnlimited
  <2>3. /\ grants[g].uses = grants[g].limit - through[g]
        /\ grants[g].uses >= 0 \/ through[g] = 0
    BY DEF IInv, Accounts
  <2>4. QED
    BY <2>1, <2>2, <2>3
<1>2. QED
  BY <1>1, Invariant, PTL

-----------------------------------------------------------------------------
(* A grant that cannot be used never can be again. *)

(* No step brings a dead link back, or changes a chain.                    *)
LEMMA LinksDieOnce ==
  ASSUME IInv, [Next]_vars
  PROVE  /\ Made \subseteq Made'
         /\ \A g \in Made : /\ grants'[g].chain = grants[g].chain
                            /\ ~ LinkLive(g) => ~ LinkLive(g)'
<1>1. \A g \in Made : grants[g] \in GrantRecords
  BY DEF IInv, TypeOK, Made
<1>2. ASSUME NEW r, Make(r)
      PROVE  Made \subseteq Made' /\ \A g \in Made : grants'[g] = grants[g] /\ time' = time
  BY <1>2 DEF Make, Made, IInv, TypeOK
<1>3. CASE \E r : Make(r)
  BY <1>2, <1>3 DEF LinkLive
<1>4. ASSUME NEW g \in Made, Revoke(g)
      PROVE  /\ Made \subseteq Made'
             /\ \A h \in Made : /\ grants'[h].chain = grants[h].chain
                                /\ ~ LinkLive(h) => ~ LinkLive(h)'
  <2>1. Made' = Made /\ time' = time
    BY <1>4 DEF Revoke, Made, IInv, TypeOK
  <2>2. /\ \A h \in Made \ {g} : grants'[h] = grants[h]
        /\ \A h \in Made : grants'[h].chain = grants[h].chain
        /\ grants'[g].revoked
    BY <1>4, RevokeFacts
  <2>3. QED
    BY <2>1, <2>2 DEF LinkLive
<1>5. ASSUME NEW g \in Made, EnterUsing(g)
      PROVE  /\ Made \subseteq Made'
             /\ \A h \in Made : /\ grants'[h].chain = grants[h].chain
                                /\ ~ LinkLive(h) => ~ LinkLive(h)'
  <2>1. /\ Made' = Made /\ time' = time
        /\ \A h \in Made : grants'[h] = Spent(grants[h]) \/ grants'[h] = grants[h]
    BY <1>5, EnterFacts DEF EnterUsing
  <2>2. SUFFICES ASSUME NEW h \in Made, grants'[h] = Spent(grants[h])
        PROVE  grants'[h].chain = grants[h].chain /\ (~ LinkLive(h) => ~ LinkLive(h)')
    BY <2>1 DEF LinkLive
  <2>3. /\ grants'[h].uses = IF grants[h].uses = Unlimited THEN Unlimited ELSE grants[h].uses - 1
        /\ grants'[h].chain = grants[h].chain /\ grants'[h].until = grants[h].until
        /\ grants'[h].revoked = grants[h].revoked
    BY <2>2, <1>1, SpentFacts
  <2>4. grants[h].uses # Unlimited => grants[h].uses \in Int /\ grants[h].uses - 1 # Unlimited
    BY <1>1, GrantsAssumption DEF GrantRecords, OrUnlimited
  <2>5. QED
    BY <2>1, <2>3, <2>4 DEF LinkLive
<1>6. CASE (\E needs \in SUBSET Capabilities : Call(needs)) \/ Leave \/ UNCHANGED vars
  <2>1. grants' = grants /\ time' = time
    BY <1>6 DEF Call, Leave, vars
  <2>2. QED
    BY <2>1 DEF LinkLive, Made
<1>7. CASE Advance
  <2>1. grants' = grants /\ time' = time + 1 /\ time \in Nat
    BY <1>7 DEF Advance, IInv, TypeOK
  <2>2. \A g \in Made : grants[g].until # Unlimited => grants[g].until \in Nat
    BY <1>1 DEF GrantRecords, OrUnlimited
  <2>3. QED
    BY <2>1, <2>2 DEF LinkLive, Made
<1>8. QED
  BY <1>3, <1>4, <1>5, <1>6, <1>7 DEF Next, Grant, Attenuate, Caretaker

(* A step that charges a grant finds all of its chain live.                *)
LEMMA ChargedWhileLive ==
  ASSUME IInv, [Next]_vars, NEW g \in Made, ~ Live(g)
  PROVE  through'[g] = through[g]
<1>1. ASSUME NEW h \in Made, EnterUsing(h) PROVE through'[g] = through[g]
  <2>1. g \notin grants[h].chain
    <3>1. SUFFICES ASSUME g \in grants[h].chain PROVE FALSE
      OBVIOUS
    <3>2. grants[g].chain \subseteq grants[h].chain
      BY <3>1 DEF IInv, ChainsNest
    <3>3. QED
      BY <1>1, <3>2 DEF EnterUsing, Live
  <2>2. QED
    BY <1>1, <2>1, EnterFacts
<1>2. ASSUME NEW r, Make(r) PROVE through'[g] = through[g]
  BY <1>2 DEF Make, Made, IInv, TypeOK
<1>3. QED
  BY <1>1, <1>2 DEF Next, Grant, Attenuate, Caretaker, Revoke, Call, Leave, Advance, vars

(* Revoked, spent or expired, itself or above: a grant that cannot be used *)
(* never can be again, nor anything derived from it.                       *)
THEOREM DeadGrantsStayDead == Spec => DeadForGood
<1>1. ASSUME IInv, [Next]_vars
      PROVE  \A g \in Made : ~ Live(g) => ~ Live(g)' /\ through'[g] = through[g]
  <2> SUFFICES ASSUME NEW g \in Made, ~ Live(g)
      PROVE  ~ Live(g)' /\ through'[g] = through[g]
    OBVIOUS
  <2>1. PICK a \in grants[g].chain : ~ LinkLive(a)
    BY DEF Live
  <2>2. a \in Made
    BY <1>1, <2>1 DEF IInv, TypeOK
  <2>3. ~ LinkLive(a)' /\ a \in grants'[g].chain
    BY <1>1, <2>1, <2>2, LinksDieOnce
  <2>4. ~ Live(g)'
    BY <2>3 DEF Live
  <2>5. QED
    BY <1>1, <2>4, ChargedWhileLive
<1>2. QED
  BY <1>1, Invariant, PTL DEF Spec, DeadForGood
=============================================================================
