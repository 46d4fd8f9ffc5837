------------------------------- MODULE Labels -------------------------------
(***************************************************************************)
(* The decentralized label model: who may read a value, and who vouches    *)
(* for it.                                                                 *)
(*                                                                         *)
(* A label has one rule for each owner that stated one, and the principals *)
(* that vouch for the value.  Two statements about one value both bind     *)
(* (And).  Two values flowing into one (Join) keep every owner's rule, and *)
(* only the vouches both have.  A principal whose vouch went that way is   *)
(* remembered as lost.                                                     *)
(*                                                                         *)
(* An unlabelled value is one with the empty label: the code takes the     *)
(* wrapper off whenever a label becomes empty.  The writers a vouch admits *)
(* are always the voucher alone, since `endorse`, the only maker of one,   *)
(* states no others; they are left out.                                    *)
(***************************************************************************)

CONSTANT Principals

LabelRecords ==
  [owners : SUBSET Principals, readers : [Principals -> SUBSET Principals],
   vouchers : SUBSET Principals, lost : SUBSET Principals]

(* An owner without a rule permits everybody.                              *)
Empty == [owners |-> {}, readers |-> [o \in Principals |-> Principals],
          vouchers |-> {}, lost |-> {}]

(* A label as the code builds them: an owner is among its own readers, and *)
(* nobody both vouches and has lost its vouch.                             *)
WellFormed(a) ==
  /\ a \in LabelRecords
  /\ \A o \in Principals :
       IF o \in a.owners THEN o \in a.readers[o] ELSE a.readers[o] = Principals
  /\ a.vouchers \cap a.lost = {}

(* Policy: an owner can always read its own data.  Trust: a vouch.         *)
Policy(o, readers) ==
  [Empty EXCEPT !.owners = {o}, !.readers[o] = readers \cup {o}]
Trust(o) == [Empty EXCEPT !.vouchers = {o}]

(* Mutant: a second rule of one owner takes the place of the first.        *)
NarrowedByLast(a, b) ==
  [o \in Principals |-> IF o \in b.owners THEN b.readers[o] ELSE a.readers[o]]

(* Label.add of every policy of both: an owner that stated two rules       *)
(* permits those that both permit.                                         *)
Narrowed(a, b) == [o \in Principals |-> a.readers[o] \cap b.readers[o]]

(* Label.and: two statements about one value.                              *)
And(a, b) ==
  [owners |-> a.owners \cup b.owners, readers |-> Narrowed(a, b),
   vouchers |-> a.vouchers \cup b.vouchers,
   lost |-> (a.lost \cup b.lost) \ (a.vouchers \cup b.vouchers)]

(* Mutant: vouches add up as rules do.                                     *)
JoinKeepingVouches(a, b) == And(a, b)

(* Label.join: two values flowing into one.                                *)
Join(a, b) ==
  LET kept == a.vouchers \cap b.vouchers
  IN [owners |-> a.owners \cup b.owners, readers |-> Narrowed(a, b),
      vouchers |-> kept,
      lost |-> (a.vouchers \cup b.vouchers \cup a.lost \cup b.lost) \ kept]

(* Label.without, Label.unvouched.                                         *)
Without(a, o)   == [a EXCEPT !.owners = @ \ {o}, !.readers[o] = Principals]
Unvouched(a, o) == [a EXCEPT !.vouchers = @ \ {o}, !.lost = @ \ {o}]

(* Those whom every owner permits.                                         *)
EffectiveReaders(a) == {p \in Principals : \A o \in a.owners : p \in a.readers[o]}
CanRead(a, p)   == p \in EffectiveReaders(a)
TrustedBy(a, p) == p \in a.vouchers
=============================================================================
