---------------------------- MODULE Flow_proofs -----------------------------
(***************************************************************************)
(* Proofs about Labels and Flow, for any principals and any programs.      *)
(***************************************************************************)
EXTENDS Flow, TLAPS

-----------------------------------------------------------------------------
(* The algebra of labels. *)

(* The operators take labels to labels.                                    *)
LEMMA LabelType ==
  ASSUME NEW a, WellFormed(a), NEW b, WellFormed(b), NEW o \in Principals,
         NEW R \in SUBSET Principals
  PROVE  /\ WellFormed(Empty) /\ WellFormed(Policy(o, R)) /\ WellFormed(Trust(o))
         /\ WellFormed(And(a, b)) /\ WellFormed(Join(a, b))
         /\ WellFormed(Without(a, o)) /\ WellFormed(Unvouched(a, o))
<1> USE DEF WellFormed, LabelRecords
<1>1. WellFormed(Empty)
  BY DEF Empty
<1>2. WellFormed(Policy(o, R))
  BY DEF Policy, Empty
<1>3. WellFormed(Trust(o))
  BY DEF Trust, Empty
<1>4. WellFormed(And(a, b))
  BY DEF And, Narrowed
<1>5. WellFormed(Join(a, b))
  BY DEF Join, Narrowed
<1>6. WellFormed(Without(a, o)) /\ WellFormed(Unvouched(a, o))
  BY DEF Without, Unvouched
<1>7. QED
  BY <1>1, <1>2, <1>3, <1>4, <1>5, <1>6

(* The order in which values flow together does not matter.                *)
THEOREM JoinCommutes ==
  ASSUME NEW a, WellFormed(a), NEW b, WellFormed(b)
  PROVE  Join(a, b) = Join(b, a)
BY DEF Join, Narrowed, WellFormed, LabelRecords

(* Nor does the way they are grouped: a value computed from several others *)
(* has one label, however the expression is written.                       *)
THEOREM JoinAssociates ==
  ASSUME NEW a, WellFormed(a), NEW b, WellFormed(b), NEW c, WellFormed(c)
  PROVE  Join(Join(a, b), c) = Join(a, Join(b, c))
<1> DEFINE left  == Join(Join(a, b), c)
           right == Join(a, Join(b, c))
<1>1. left \in LabelRecords /\ right \in LabelRecords
  <2>1. WellFormed(Join(a, b)) /\ WellFormed(Join(b, c))
    BY DEF Join, Narrowed, WellFormed, LabelRecords
  <2>2. QED
    BY <2>1 DEF Join, Narrowed, WellFormed, LabelRecords
<1>2. left.readers = right.readers
  BY DEF Join, Narrowed, WellFormed, LabelRecords
<1>3. left.owners = right.owners /\ left.vouchers = right.vouchers
  BY DEF Join
<1>4. left.lost = right.lost
  BY DEF Join, WellFormed
<1> HIDE DEF left, right
<1>5. QED
  <2>1. left = right
    BY <1>1, <1>2, <1>3, <1>4 DEF LabelRecords
  <2>2. QED
    BY <2>1 DEF left, right

(* An owner without a rule permits everybody.                              *)
LEMMA ReadersOfAll ==
  ASSUME NEW a, WellFormed(a)
  PROVE  EffectiveReaders(a) = {p \in Principals : \A o \in Principals : p \in a.readers[o]}
BY DEF EffectiveReaders, WellFormed, LabelRecords

(* "Mixing data never makes it more readable", and a vouch survives only   *)
(* if it covers both.                                                      *)
THEOREM JoinRestricts ==
  ASSUME NEW a, WellFormed(a), NEW b, WellFormed(b)
  PROVE  /\ EffectiveReaders(Join(a, b)) = EffectiveReaders(a) \cap EffectiveReaders(b)
         /\ Join(a, b).vouchers \subseteq a.vouchers \cap b.vouchers
<1>1. WellFormed(Join(a, b))
  BY DEF Join, Narrowed, WellFormed, LabelRecords
<1>2. \A o \in Principals : Join(a, b).readers[o] = a.readers[o] \cap b.readers[o]
  BY DEF Join, Narrowed
<1>3. EffectiveReaders(Join(a, b)) = EffectiveReaders(a) \cap EffectiveReaders(b)
  <2>1. /\ EffectiveReaders(a) = {p \in Principals : \A o \in Principals : p \in a.readers[o]}
        /\ EffectiveReaders(b) = {p \in Principals : \A o \in Principals : p \in b.readers[o]}
        /\ EffectiveReaders(Join(a, b)) =
             {p \in Principals : \A o \in Principals : p \in Join(a, b).readers[o]}
    BY <1>1, ReadersOfAll
  <2>2. QED
    BY <1>2, <2>1
<1>4. QED
  BY <1>3 DEF Join

-----------------------------------------------------------------------------
(* Trails. *)

(* What the standing rules of one owner on a trail permit.                 *)
Rule(t, o) ==
  {p \in Principals : \A i \in 1 .. Len(t) :
     t[i].op = "classify" /\ t[i].by = o /\ Stands(t, i, "declassify") => p \in t[i].readers}

(* A trail permits those whom every owner's rules on it permit.            *)
LEMMA PermittedByOwner ==
  ASSUME NEW t \in Seq(Statements)
  PROVE  Permitted(t) = {p \in Principals : \A o \in Principals : p \in Rule(t, o)}
<1>1. \A i \in 1 .. Len(t) : t[i].op = "classify" => t[i].by \in Principals
  BY DEF Statements
<1>2. QED
  BY <1>1 DEF Permitted, Rule

(* How a statement stands once another one follows.                        *)
LEMMA StandsAppend ==
  ASSUME NEW t \in Seq(Statements), NEW s \in Statements, NEW undo
  PROVE  LET u == Append(t, s) IN
         /\ Len(u) = Len(t) + 1 /\ u[Len(u)] = s
         /\ \A i \in 1 .. Len(t) : u[i] = t[i]
         /\ \A i \in 1 .. Len(t) :
              Stands(u, i, undo) <=> Stands(t, i, undo) /\ ~ (s.op = undo /\ s.by = t[i].by)
         /\ Stands(u, Len(u), undo)
<1> DEFINE u == Append(t, s)
<1>1. Len(u) = Len(t) + 1 /\ u[Len(u)] = s /\ \A i \in 1 .. Len(t) : u[i] = t[i]
  OBVIOUS
<1>2. Len(t) \in Nat
  OBVIOUS
<1> HIDE DEF u
<1>3. ASSUME NEW i \in 1 .. Len(t)
      PROVE  Stands(u, i, undo) <=> Stands(t, i, undo) /\ ~ (s.op = undo /\ s.by = t[i].by)
  <2>1. \A j : j \in i + 1 .. Len(u) <=> j \in i + 1 .. Len(t) \/ j = Len(u)
    BY <1>1, <1>2
  <2>2. \A j \in i + 1 .. Len(t) : u[j] = t[j]
    BY <1>1, <1>2
  <2>3. QED
    BY <1>1, <2>1, <2>2 DEF Stands
<1>4. Stands(u, Len(u), undo)
  BY <1>1, <1>2 DEF Stands
<1>5. QED
  BY <1>1, <1>3, <1>4 DEF u

(* What one more statement does to an owner's rule and to the backers.     *)
LEMMA RuleAppend ==
  ASSUME NEW t \in Seq(Statements), NEW s \in Statements, NEW o \in Principals
  PROVE  Rule(Append(t, s), o) =
           IF s.by # o THEN Rule(t, o)
           ELSE IF s.op = "classify" THEN Rule(t, o) \cap s.readers
           ELSE IF s.op = "declassify" THEN Principals
           ELSE Rule(t, o)
<1> DEFINE u == Append(t, s)
<1>1. /\ Len(u) = Len(t) + 1 /\ u[Len(u)] = s /\ Len(t) \in Nat
      /\ \A i \in 1 .. Len(t) : u[i] = t[i]
      /\ \A i \in 1 .. Len(t) : Stands(u, i, "declassify") <=>
           Stands(t, i, "declassify") /\ ~ (s.op = "declassify" /\ s.by = t[i].by)
      /\ Stands(u, Len(u), "declassify")
  BY StandsAppend
<1> HIDE DEF u
<1>2. \A i : i \in 1 .. Len(u) <=> i \in 1 .. Len(t) \/ i = Len(u)
  BY <1>1
<1>3. \A p \in Principals : p \in Rule(u, o) <=>
        /\ \A i \in 1 .. Len(t) :
             t[i].op = "classify" /\ t[i].by = o /\ Stands(t, i, "declassify")
               /\ ~ (s.op = "declassify" /\ s.by = o) => p \in t[i].readers
        /\ s.op = "classify" /\ s.by = o => p \in s.readers
  BY <1>1, <1>2 DEF Rule
<1>4. Rule(u, o) \subseteq Principals /\ Rule(t, o) \subseteq Principals
  BY DEF Rule
<1>5. CASE s.by = o /\ s.op = "declassify"
  BY <1>3, <1>4, <1>5 DEF u
<1>6. CASE ~ (s.by = o /\ s.op = "declassify")
  <2>1. \A p \in Principals : p \in Rule(u, o) <=>
          p \in Rule(t, o) /\ (s.op = "classify" /\ s.by = o => p \in s.readers)
    BY <1>3, <1>6 DEF Rule
  <2>2. QED
    BY <1>4, <1>6, <2>1 DEF u
<1>7. QED
  BY <1>5, <1>6

(* A vouch stands from its statement to its owner's retraction.            *)
LEMMA BackersAppend ==
  ASSUME NEW t \in Seq(Statements), NEW s \in Statements
  PROVE  Backers(Append(t, s)) =
           IF s.op = "endorse" THEN Backers(t) \cup {s.by}
           ELSE IF s.op = "retract" THEN Backers(t) \ {s.by}
           ELSE Backers(t)
<1> DEFINE u == Append(t, s)
<1>1. /\ Len(u) = Len(t) + 1 /\ u[Len(u)] = s /\ Len(t) \in Nat
      /\ \A i \in 1 .. Len(t) : u[i] = t[i]
      /\ \A i \in 1 .. Len(t) : Stands(u, i, "retract") <=>
           Stands(t, i, "retract") /\ ~ (s.op = "retract" /\ s.by = t[i].by)
      /\ Stands(u, Len(u), "retract")
  BY StandsAppend
<1> HIDE DEF u
<1>2. \A i : i \in 1 .. Len(u) <=> i \in 1 .. Len(t) \/ i = Len(u)
  BY <1>1
<1>3. \A p \in Principals : p \in Backers(u) <=>
        \/ p \in Backers(t) /\ ~ (s.op = "retract" /\ s.by = p)
        \/ s.op = "endorse" /\ s.by = p
  BY <1>1, <1>2 DEF Backers
<1>4. Backers(u) \subseteq Principals /\ Backers(t) \subseteq Principals
  BY DEF Backers
<1>5. s.op = "endorse" => s.by \in Principals
  BY DEF Statements
<1>6. QED
  BY <1>3, <1>4, <1>5 DEF u

-----------------------------------------------------------------------------
(* The invariant. *)

(* A label says, owner by owner, what the value's trails say.              *)
Agree(a, T) ==
  (\A t \in T : ~ Derived(t)) =>
    \A o \in Principals :
      /\ a.readers[o] = {p \in Principals : \A t \in T : p \in Rule(t, o)}
      /\ o \in a.vouchers <=> \A t \in T : o \in Backers(t)
      /\ o \in a.lost <=> o \notin a.vouchers /\ \E t \in T : o \in Backers(t)

(* Nothing on a trail was released without authority.                      *)
Released(T) ==
  \A t \in T : \A i \in 1 .. Len(t) : t[i].op = "declassify" => t[i].by \in Granted

Sound(a, T) ==
  /\ WellFormed(a) /\ a.vouchers \subseteq Granted
  /\ T \in SUBSET Seq(Statements) /\ T # {} /\ Released(T)
  /\ Agree(a, T)

(* What the authority blocks hold, and what they found.                    *)
Framed ==
  /\ ActsWithinBlocks
  /\ \A d \in 1 .. Len(blocks) :
       /\ blocks[d].kind = "authority" => blocks[d].who \in Granted
       /\ blocks[d].had <=> \E e \in 1 .. d - 1 :
                              blocks[e].kind = "authority" /\ blocks[e].who = blocks[d].who

IInv == TypeOK /\ Framed /\ \A v \in Variables : Sound(label[v], trails[v])

-----------------------------------------------------------------------------
(* Values. *)

(* One more statement on every trail, and the label that goes with it.     *)
LEMMA StatementKeeps ==
  ASSUME NEW a, NEW T, Sound(a, T), NEW s \in Statements, NEW b,
         s.op = "declassify" => s.by \in Granted,
         WellFormed(b), b.vouchers \subseteq Granted,
         s.op # "derive" =>
           \A o \in Principals :
             /\ b.readers[o] = IF s.by # o THEN a.readers[o]
                               ELSE IF s.op = "classify" THEN a.readers[o] \cap s.readers
                               ELSE IF s.op = "declassify" THEN Principals
                               ELSE a.readers[o]
             /\ o \in b.vouchers <=> IF s.op = "endorse" THEN o \in a.vouchers \/ o = s.by
                                     ELSE IF s.op = "retract" THEN o \in a.vouchers /\ o # s.by
                                     ELSE o \in a.vouchers
             /\ o \in b.lost <=> o \in a.lost /\ (s.op \in {"endorse", "retract"} => o # s.by)
  PROVE  Sound(b, {Append(t, s) : t \in T})
<1> DEFINE U == {Append(t, s) : t \in T}
<1>1. T \in SUBSET Seq(Statements) /\ T # {}
  BY DEF Sound
<1>2. U \in SUBSET Seq(Statements) /\ U # {}
  <2>1. \A t \in T : Append(t, s) \in Seq(Statements)
    BY <1>1
  <2>2. PICK t \in T : TRUE
    BY <1>1
  <2>3. Append(t, s) \in U
    OBVIOUS
  <2>4. QED
    BY <2>1, <2>3
<1>3. Released(U)
  <2>1. ASSUME NEW t \in T, NEW i \in 1 .. Len(Append(t, s)),
               Append(t, s)[i].op = "declassify"
        PROVE  Append(t, s)[i].by \in Granted
    <3>1. t \in Seq(Statements)
      BY <1>1
    <3>2. i \in 1 .. Len(t) \/ (i = Len(t) + 1 /\ Append(t, s)[i] = s)
      BY <3>1
    <3>3. i \in 1 .. Len(t) => Append(t, s)[i] = t[i]
      BY <3>1
    <3>4. QED
      BY <2>1, <3>2, <3>3 DEF Sound, Released
  <2>2. QED
    BY <2>1 DEF Released
<1>4. \A t \in T : Derived(Append(t, s)) <=> Derived(t) \/ s.op = "derive"
  <2>1. ASSUME NEW t \in T
        PROVE  Derived(Append(t, s)) <=> Derived(t) \/ s.op = "derive"
    <3>1. t \in Seq(Statements)
      BY <1>1
    <3>2. /\ Len(Append(t, s)) = Len(t) + 1 /\ Append(t, s)[Len(t) + 1] = s
          /\ \A i \in 1 .. Len(t) : Append(t, s)[i] = t[i]
      BY <3>1
    <3>3. Len(t) \in Nat
      BY <3>1
    <3>4. QED
      BY <3>2, <3>3 DEF Derived
  <2>2. QED
    BY <2>1
<1>5. Agree(b, U)
  <2>1. SUFFICES ASSUME \A u \in U : ~ Derived(u), NEW o \in Principals
                 PROVE  /\ b.readers[o] = {p \in Principals : \A u \in U : p \in Rule(u, o)}
                        /\ o \in b.vouchers <=> \A u \in U : o \in Backers(u)
                        /\ o \in b.lost <=> o \notin b.vouchers /\ \E u \in U : o \in Backers(u)
    BY DEF Agree
  <2>2. s.op # "derive" /\ \A t \in T : ~ Derived(t)
    BY <1>1, <1>4, <2>1
  <2>3. /\ a.readers[o] = {p \in Principals : \A t \in T : p \in Rule(t, o)}
        /\ o \in a.vouchers <=> \A t \in T : o \in Backers(t)
        /\ o \in a.lost <=> o \notin a.vouchers /\ \E t \in T : o \in Backers(t)
    BY <2>2 DEF Sound, Agree
  <2>4. \A t \in T : Rule(Append(t, s), o) =
                       IF s.by # o THEN Rule(t, o)
                       ELSE IF s.op = "classify" THEN Rule(t, o) \cap s.readers
                       ELSE IF s.op = "declassify" THEN Principals
                       ELSE Rule(t, o)
    BY <1>1, RuleAppend
  <2>5. \A t \in T : Backers(Append(t, s)) =
                       IF s.op = "endorse" THEN Backers(t) \cup {s.by}
                       ELSE IF s.op = "retract" THEN Backers(t) \ {s.by}
                       ELSE Backers(t)
    BY <1>1, BackersAppend
  <2>6. b.readers[o] = {p \in Principals : \A t \in T : p \in Rule(Append(t, s), o)}
    <3>1. CASE s.by # o
      BY <2>2, <2>3, <2>4, <3>1
    <3>2. CASE s.by = o /\ s.op = "classify"
      <4>1. \A t \in T : Rule(Append(t, s), o) = Rule(t, o) \cap s.readers
        BY <2>4, <3>2
      <4>2. b.readers[o] = a.readers[o] \cap s.readers
        BY <2>2, <3>2
      <4>3. PICK t \in T : TRUE
        BY <1>1
      <4>4. QED
        BY <2>3, <4>1, <4>2, <4>3
    <3>3. CASE s.by = o /\ s.op = "declassify"
      BY <2>2, <2>4, <3>3
    <3>4. CASE s.by = o /\ s.op \notin {"classify", "declassify"}
      BY <2>2, <2>3, <2>4, <3>4
    <3>5. QED
      BY <3>1, <3>2, <3>3, <3>4
  <2>7. o \in b.vouchers <=> \A t \in T : o \in Backers(Append(t, s))
    BY <1>1, <2>2, <2>3, <2>5
  <2>8. o \in b.lost <=> o \notin b.vouchers /\ \E t \in T : o \in Backers(Append(t, s))
    BY <1>1, <2>2, <2>3, <2>5
  <2>9. QED
    BY <2>6, <2>7, <2>8
<1>6. QED
  BY <1>2, <1>3, <1>5 DEF Sound

(* Two values flowing into one.                                            *)
LEMMA JoinKeeps ==
  ASSUME NEW a, NEW T, Sound(a, T), NEW b, NEW U, Sound(b, U)
  PROVE  Sound(Join(a, b), T \cup U)
<1>1. WellFormed(Join(a, b)) /\ Join(a, b).vouchers \subseteq Granted
  BY DEF Join, Narrowed, WellFormed, LabelRecords, Sound
<1>2. T \cup U \in SUBSET Seq(Statements) /\ T \cup U # {} /\ Released(T \cup U)
  BY DEF Sound, Released
<1>3. Agree(Join(a, b), T \cup U)
  <2>1. SUFFICES ASSUME \A t \in T \cup U : ~ Derived(t), NEW o \in Principals
                 PROVE  /\ Join(a, b).readers[o] =
                             {p \in Principals : \A t \in T \cup U : p \in Rule(t, o)}
                        /\ o \in Join(a, b).vouchers <=> \A t \in T \cup U : o \in Backers(t)
                        /\ o \in Join(a, b).lost <=>
                             o \notin Join(a, b).vouchers /\ \E t \in T \cup U : o \in Backers(t)
    BY DEF Agree
  <2>2. /\ a.readers[o] = {p \in Principals : \A t \in T : p \in Rule(t, o)}
        /\ o \in a.vouchers <=> \A t \in T : o \in Backers(t)
        /\ o \in a.lost <=> o \notin a.vouchers /\ \E t \in T : o \in Backers(t)
    BY <2>1 DEF Sound, Agree
  <2>3. /\ b.readers[o] = {p \in Principals : \A t \in U : p \in Rule(t, o)}
        /\ o \in b.vouchers <=> \A t \in U : o \in Backers(t)
        /\ o \in b.lost <=> o \notin b.vouchers /\ \E t \in U : o \in Backers(t)
    BY <2>1 DEF Sound, Agree
  <2>4. /\ Join(a, b).readers[o] = a.readers[o] \cap b.readers[o]
        /\ o \in Join(a, b).vouchers <=> o \in a.vouchers /\ o \in b.vouchers
        /\ o \in Join(a, b).lost <=>
             /\ o \in a.vouchers \/ o \in b.vouchers \/ o \in a.lost \/ o \in b.lost
             /\ ~ (o \in a.vouchers /\ o \in b.vouchers)
    BY DEF Join, Narrowed
  <2>5. T # {} /\ U # {}
    BY DEF Sound
  <2>6. Join(a, b).readers[o] = {p \in Principals : \A t \in T \cup U : p \in Rule(t, o)}
    BY <2>2, <2>3, <2>4
  <2>7. o \in Join(a, b).vouchers <=> \A t \in T \cup U : o \in Backers(t)
    BY <2>2, <2>3, <2>4
  <2>8. o \in Join(a, b).lost <=>
          o \notin Join(a, b).vouchers /\ \E t \in T \cup U : o \in Backers(t)
    BY <2>2, <2>3, <2>4, <2>5, <2>7
  <2>9. QED
    BY <2>6, <2>7, <2>8
<1>4. QED
  BY <1>1, <1>2, <1>3 DEF Sound

(* A value that carries no label and has no history.                       *)
LEMMA LiteralSound == Sound(Empty, {<<>>})
<1>1. WellFormed(Empty) /\ Empty.vouchers = {} /\ Empty.lost = {}
      /\ \A o \in Principals : Empty.readers[o] = Principals
  BY DEF Empty, WellFormed, LabelRecords
<1>2. <<>> \in Seq(Statements) /\ Len(<<>>) = 0
  OBVIOUS
<1>3. \A o \in Principals : Rule(<<>>, o) = Principals
  BY <1>2 DEF Rule
<1>4. Backers(<<>>) = {}
  BY <1>2 DEF Backers
<1>5. Agree(Empty, {<<>>})
  BY <1>1, <1>3, <1>4 DEF Agree
<1>6. Released({<<>>})
  BY <1>2 DEF Released
<1>7. QED
  BY <1>1, <1>2, <1>5, <1>6 DEF Sound

-----------------------------------------------------------------------------
(* Steps. *)

(* Assigning a sound value keeps the invariant.                            *)
LEMMA AssignKeeps ==
  ASSUME IInv, NEW r \in Variables, NEW a, NEW T, Sound(a, T), Assign(r, a, T)
  PROVE  IInv'
<1>1. label' = [label EXCEPT ![r] = a] /\ trails' = [trails EXCEPT ![r] = T]
      /\ steps' = steps + 1 /\ UNCHANGED <<authority, blocks>>
  BY DEF Assign
<1>2. label \in [Variables -> LabelRecords] /\ trails \in [Variables -> SUBSET Seq(Statements)]
  BY DEF IInv, TypeOK
<1>3. a \in LabelRecords /\ WellFormed(a) /\ T \in SUBSET Seq(Statements)
  BY DEF Sound, WellFormed
<1>4. \A v \in Variables : /\ label'[v] = IF v = r THEN a ELSE label[v]
                           /\ trails'[v] = IF v = r THEN T ELSE trails[v]
  BY <1>1, <1>2
<1>5. \A v \in Variables : Sound(label'[v], trails'[v])
  BY <1>4 DEF IInv
<1>6. TypeOK'
  <2>1. label' \in [Variables -> LabelRecords]
        /\ trails' \in [Variables -> SUBSET Seq(Statements)]
    BY <1>1, <1>2, <1>3
  <2>2. \A v \in Variables : WellFormed(label'[v])
    BY <1>5 DEF Sound
  <2>3. QED
    BY <1>1, <2>1, <2>2 DEF IInv, TypeOK
<1>7. Framed'
  BY <1>1 DEF IInv, Framed, ActsWithinBlocks, BlocksOf
<1>8. QED
  BY <1>5, <1>6, <1>7 DEF IInv

(* What is left of a sequence without its last element.                    *)
LEMMA FrontFacts ==
  ASSUME NEW T, NEW q \in Seq(T), q # <<>>
  PROVE  /\ Front(q) \in Seq(T) /\ Len(Front(q)) = Len(q) - 1
         /\ \A d \in 1 .. Len(q) - 1 : Front(q)[d] = q[d]
<1>1. Len(q) \in Nat \ {0}
  OBVIOUS
<1>2. /\ Front(q) \in Seq(T) /\ Len(Front(q)) = Len(q) - 1
      /\ \A d \in 1 .. Len(Front(q)) : Front(q)[d] = q[d]
  BY <1>1 DEF Front
<1>3. QED
  BY <1>1, <1>2

(* What a frame acts for was granted.                                      *)
LEMMA AuthorityGranted == ASSUME IInv PROVE authority \subseteq Granted
BY DEF IInv, Framed, ActsWithinBlocks, BlocksOf

(* The label builtins keep the invariant.                                  *)
LEMMA BuiltinsKeep ==
  ASSUME IInv, NEW v \in Variables, NEW r \in Variables, NEW o \in Principals,
         \/ \E readers \in SUBSET Principals : Classify(v, r, o, readers)
         \/ Declassify(v, r, o) \/ Endorse(v, r, o) \/ Retract(v, r, o)
  PROVE  IInv'
<1>1. Sound(label[v], trails[v]) /\ WellFormed(label[v])
      /\ label[v].vouchers \subseteq Granted
  BY DEF IInv, Sound
<1>2. authority \subseteq Granted
  BY AuthorityGranted
<1>3. ASSUME NEW readers \in SUBSET Principals, Classify(v, r, o, readers)
      PROVE  IInv'
  <2> DEFINE s == Statement("classify", o, readers \cup {o})
             b == And(label[v], Policy(o, readers))
  <2>1. s \in Statements /\ s.op = "classify" /\ s.by = o /\ s.readers = readers \cup {o}
    BY DEF Statement, Statements
  <2>2. WellFormed(Policy(o, readers))
    BY <1>1, LabelType
  <2>3. WellFormed(b) /\ b.vouchers = label[v].vouchers
    <3>1. WellFormed(b)
      BY <1>1, <2>2, LabelType
    <3>2. QED
      BY <3>1 DEF And, Policy, Empty
  <2>4. \A p \in Principals :
          /\ b.readers[p] = IF p = o THEN label[v].readers[p] \cap (readers \cup {o})
                            ELSE label[v].readers[p]
          /\ p \in b.lost <=> p \in label[v].lost
    <3>1. /\ Policy(o, readers).vouchers = {} /\ Policy(o, readers).lost = {}
          /\ \A p \in Principals : Policy(o, readers).readers[p] =
                                     IF p = o THEN readers \cup {o} ELSE Principals
      BY DEF Policy, Empty
    <3>2. /\ \A p \in Principals : b.readers[p] =
                                     label[v].readers[p] \cap Policy(o, readers).readers[p]
          /\ b.lost = (label[v].lost \cup Policy(o, readers).lost)
                        \ (label[v].vouchers \cup Policy(o, readers).vouchers)
      BY DEF And, Narrowed
    <3>3. /\ label[v].vouchers \cap label[v].lost = {}
          /\ \A p \in Principals : label[v].readers[p] \subseteq Principals
      BY <1>1 DEF WellFormed, LabelRecords
    <3> HIDE DEF b
    <3>4. b.lost = label[v].lost
      BY <3>1, <3>2, <3>3
    <3>5. ASSUME NEW p \in Principals
          PROVE  b.readers[p] = IF p = o THEN label[v].readers[p] \cap (readers \cup {o})
                                ELSE label[v].readers[p]
      <4>1. CASE p = o
        BY <3>1, <3>2, <4>1
      <4>2. CASE p # o
        <5>1. b.readers[p] = label[v].readers[p] \cap Policy(o, readers).readers[p]
          BY <3>2
        <5>2. Policy(o, readers).readers[p] = Principals
          BY <3>1, <4>2
        <5>3. label[v].readers[p] \subseteq Principals
          BY <3>3
        <5>4. b.readers[p] = label[v].readers[p]
          BY <5>1, <5>2, <5>3
        <5>5. QED
          BY <4>2, <5>4
      <4>3. QED
        BY <4>1, <4>2
    <3>6. QED
      BY <3>4, <3>5
  <2> HIDE DEF s, b
  <2>5. Sound(b, {Append(t, s) : t \in trails[v]})
    <3>1. b.vouchers \subseteq Granted /\ s.op # "declassify"
      BY <1>1, <2>1, <2>3
    <3>2. \A p \in Principals :
            /\ b.readers[p] = IF s.by # p THEN label[v].readers[p]
                              ELSE label[v].readers[p] \cap s.readers
            /\ p \in b.vouchers <=> p \in label[v].vouchers
            /\ p \in b.lost <=> p \in label[v].lost
      BY <2>1, <2>3, <2>4
    <3>3. \A p \in Principals :
            /\ b.readers[p] = IF s.by # p THEN label[v].readers[p]
                              ELSE IF s.op = "classify" THEN label[v].readers[p] \cap s.readers
                              ELSE IF s.op = "declassify" THEN Principals
                              ELSE label[v].readers[p]
            /\ p \in b.vouchers <=>
                 IF s.op = "endorse" THEN p \in label[v].vouchers \/ p = s.by
                 ELSE IF s.op = "retract" THEN p \in label[v].vouchers /\ p # s.by
                 ELSE p \in label[v].vouchers
            /\ p \in b.lost <=>
                 p \in label[v].lost /\ (s.op \in {"endorse", "retract"} => p # s.by)
      BY <2>1, <3>2
    <3>4. s \in Statements /\ WellFormed(b) /\ Sound(label[v], trails[v])
      BY <1>1, <2>1, <2>3
    <3>5. QED
      BY ONLY <3>1, <3>3, <3>4, StatementKeeps
  <2>6. Assign(r, b, {Append(t, s) : t \in trails[v]})
    BY <1>3 DEF Classify, Extended, s, b
  <2>7. QED
    BY <2>5, <2>6, AssignKeeps
<1>4. ASSUME Declassify(v, r, o)
      PROVE  IInv'
  <2> DEFINE s == Statement("declassify", o, {})
             b == Without(label[v], o)
  <2>1. s \in Statements /\ s.op = "declassify" /\ s.by = o
    BY DEF Statement, Statements
  <2>2. o \in Granted
    BY <1>2, <1>4 DEF Declassify
  <2>3. WellFormed(b)
    BY <1>1, LabelType
  <2>4. /\ b.vouchers = label[v].vouchers /\ b.lost = label[v].lost
        /\ \A p \in Principals :
             b.readers[p] = IF p = o THEN Principals ELSE label[v].readers[p]
    BY <1>1 DEF Without, WellFormed, LabelRecords
  <2> HIDE DEF s, b
  <2>5. Sound(b, {Append(t, s) : t \in trails[v]})
    BY <1>1, <2>1, <2>2, <2>3, <2>4, StatementKeeps
  <2>6. Assign(r, b, {Append(t, s) : t \in trails[v]})
    BY <1>4 DEF Declassify, Extended, s, b
  <2>7. QED
    BY <2>5, <2>6, AssignKeeps
<1>5. ASSUME Endorse(v, r, o)
      PROVE  IInv'
  <2> DEFINE s == Statement("endorse", o, {})
             b == And(label[v], Trust(o))
  <2>1. s \in Statements /\ s.op = "endorse" /\ s.by = o
    BY DEF Statement, Statements
  <2>2. o \in Granted
    BY <1>2, <1>5 DEF Endorse
  <2>3. WellFormed(b)
    <3>1. WellFormed(Trust(o))
      BY <1>1, LabelType
    <3>2. QED
      BY <1>1, <3>1, LabelType
  <2>4. /\ b.vouchers = label[v].vouchers \cup {o}
        /\ b.lost = label[v].lost \ {o}
        /\ \A p \in Principals : b.readers[p] = label[v].readers[p]
    BY <1>1 DEF And, Narrowed, Trust, Empty, WellFormed, LabelRecords
  <2> HIDE DEF s, b
  <2>5. Sound(b, {Append(t, s) : t \in trails[v]})
    BY <1>1, <2>1, <2>2, <2>3, <2>4, StatementKeeps
  <2>6. Assign(r, b, {Append(t, s) : t \in trails[v]})
    BY <1>5 DEF Endorse, Extended, s, b
  <2>7. QED
    BY <2>5, <2>6, AssignKeeps
<1>6. ASSUME Retract(v, r, o)
      PROVE  IInv'
  <2> DEFINE s == Statement("retract", o, {})
             b == Unvouched(label[v], o)
  <2>1. s \in Statements /\ s.op = "retract" /\ s.by = o
    BY DEF Statement, Statements
  <2>2. WellFormed(b)
    BY <1>1, LabelType
  <2>3. /\ b.vouchers = label[v].vouchers \ {o} /\ b.lost = label[v].lost \ {o}
        /\ b.readers = label[v].readers
    BY <1>1 DEF Unvouched, WellFormed, LabelRecords
  <2> HIDE DEF s, b
  <2>4. Sound(b, {Append(t, s) : t \in trails[v]})
    BY <1>1, <2>1, <2>2, <2>3, StatementKeeps
  <2>5. Assign(r, b, {Append(t, s) : t \in trails[v]})
    BY <1>6 DEF Retract, Extended, s, b
  <2>6. QED
    BY <2>4, <2>5, AssignKeeps
<1>7. QED
  BY <1>3, <1>4, <1>5, <1>6

(* Computing with values keeps the invariant.                              *)
LEMMA ComputingKeeps ==
  ASSUME IInv, NEW u \in Variables, NEW v \in Variables, NEW r \in Variables,
         Literal(r) \/ Copy(v, r) \/ Combine(u, v, r) \/ Derive(v, r)
  PROVE  IInv'
<1>1. Sound(label[u], trails[u]) /\ Sound(label[v], trails[v])
  BY DEF IInv
<1>2. CASE Literal(r)
  BY <1>2, LiteralSound, AssignKeeps DEF Literal
<1>3. CASE Combine(u, v, r)
  BY <1>1, <1>3, JoinKeeps, AssignKeeps DEF Combine
<1>4. CASE Derive(v, r)
  <2> DEFINE s == Statement("derive", "nobody", {})
  <2>1. s \in Statements /\ s.op = "derive"
    BY DEF Statement, Statements
  <2>2. WellFormed(Empty) /\ Empty.vouchers \subseteq Granted
    BY LiteralSound DEF Sound
  <2> HIDE DEF s
  <2>3. Sound(Empty, {Append(t, s) : t \in trails[v]})
    BY <1>1, <2>1, <2>2, StatementKeeps
  <2>4. Assign(r, Empty, {Append(t, s) : t \in trails[v]})
    BY <1>4 DEF Derive, Extended, s
  <2>5. QED
    BY <2>3, <2>4, AssignKeeps
<1>5. CASE Copy(v, r)
  BY <1>1, <1>5, AssignKeeps DEF Copy
<1>6. QED
  BY <1>2, <1>3, <1>4, <1>5

(* Entering and leaving blocks keeps the invariant.                        *)
LEMMA BlocksKeep ==
  ASSUME IInv, \/ \E kind \in Kinds, who \in Principals : Enter(kind, who)
               \/ Leave
  PROVE  IInv'
<1>1. blocks \in Seq([kind : Kinds, who : Principals, had : BOOLEAN])
      /\ authority \subseteq Principals
  BY DEF IInv, TypeOK
<1>2. Len(blocks) \in Nat
  BY <1>1
<1>3. /\ authority = {blocks[d].who : d \in {e \in 1 .. Len(blocks) : blocks[e].kind = "authority"}}
      /\ \A d \in 1 .. Len(blocks) :
           /\ blocks[d].kind = "authority" => blocks[d].who \in Granted
           /\ blocks[d].had <=> \E e \in 1 .. d - 1 :
                                  blocks[e].kind = "authority" /\ blocks[e].who = blocks[d].who
  BY DEF IInv, Framed, ActsWithinBlocks, BlocksOf
<1>4. UNCHANGED <<label, steps, trails>>
  BY DEF Enter, Leave
<1>5. Framed' /\ blocks' \in Seq([kind : Kinds, who : Principals, had : BOOLEAN])
      /\ authority' \subseteq Principals
  <2>1. ASSUME NEW kind \in Kinds, NEW who \in Principals, Enter(kind, who)
        PROVE  Framed' /\ blocks' \in Seq([kind : Kinds, who : Principals, had : BOOLEAN])
               /\ authority' \subseteq Principals
    <3> DEFINE new == [kind |-> kind, who |-> who, had |-> who \in authority]
    <3>1. /\ blocks' = Append(blocks, new)
          /\ authority' = IF kind = "authority" THEN authority \cup {who} ELSE authority
          /\ kind = "authority" => who \in Granted
      BY <2>1 DEF Enter
    <3>2. new \in [kind : Kinds, who : Principals, had : BOOLEAN]
      OBVIOUS
    <3>3. /\ Len(blocks') = Len(blocks) + 1 /\ blocks'[Len(blocks) + 1] = new
          /\ \A d \in 1 .. Len(blocks) : blocks'[d] = blocks[d]
      BY <1>1, <3>1
    <3>4. new.kind = kind /\ new.who = who /\ (new.had <=> who \in authority)
      OBVIOUS
    <3> HIDE DEF new
    <3>5. \A d : d \in 1 .. Len(blocks') <=> d \in 1 .. Len(blocks) \/ d = Len(blocks) + 1
      BY <1>2, <3>3
    <3>6. ActsWithinBlocks'
      <4>1. \A p : p \in authority' <=>
              \E d \in 1 .. Len(blocks') : blocks'[d].kind = "authority" /\ blocks'[d].who = p
        BY <1>3, <3>1, <3>3, <3>4, <3>5
      <4>2. QED
        BY <4>1 DEF ActsWithinBlocks, BlocksOf
    <3>7. ASSUME NEW d \in 1 .. Len(blocks')
          PROVE  /\ blocks'[d].kind = "authority" => blocks'[d].who \in Granted
                 /\ blocks'[d].had <=> \E e \in 1 .. d - 1 :
                      blocks'[e].kind = "authority" /\ blocks'[e].who = blocks'[d].who
      <4>1. CASE d \in 1 .. Len(blocks)
        <5>1. \A e \in 1 .. d - 1 : e \in 1 .. Len(blocks) /\ blocks'[e] = blocks[e]
          BY <1>2, <3>3, <4>1
        <5>2. QED
          BY <1>3, <3>3, <4>1, <5>1
      <4>2. CASE d = Len(blocks) + 1
        <5>1. \A e : e \in 1 .. d - 1 <=> e \in 1 .. Len(blocks)
          BY <1>2, <4>2
        <5>2. QED
          BY <1>3, <3>1, <3>3, <3>4, <4>2, <5>1
      <4>3. QED
        BY <3>5, <4>1, <4>2
    <3>8. QED
      BY <1>1, <3>1, <3>2, <3>6, <3>7 DEF Framed
  <2>2. ASSUME Leave
        PROVE  Framed' /\ blocks' \in Seq([kind : Kinds, who : Principals, had : BOOLEAN])
               /\ authority' \subseteq Principals
    <3> DEFINE n == Len(blocks)
    <3>1. /\ blocks # <<>> /\ blocks' = Front(blocks)
          /\ authority' = IF Last(blocks).kind = "authority" /\ ~ Last(blocks).had
                          THEN authority \ {Last(blocks).who} ELSE authority
      BY <2>2 DEF Leave
    <3>2. n \in Nat \ {0} /\ Last(blocks) = blocks[n]
      BY <1>1, <3>1 DEF Last
    <3>3. Len(blocks') = n - 1 /\ \A d \in 1 .. n - 1 : blocks'[d] = blocks[d]
      BY <1>1, <3>1, FrontFacts
    <3>4. blocks' \in Seq([kind : Kinds, who : Principals, had : BOOLEAN])
      BY <1>1, <3>1, FrontFacts
    <3> HIDE DEF n
    <3>5. \A d : d \in 1 .. Len(blocks) <=> d \in 1 .. n - 1 \/ d = n
      BY <3>2 DEF n
    <3>6. \A p : p \in authority <=>
            \/ \E d \in 1 .. n - 1 : blocks[d].kind = "authority" /\ blocks[d].who = p
            \/ blocks[n].kind = "authority" /\ blocks[n].who = p
      BY <1>3, <3>5
    <3>7. blocks[n].had <=> \E e \in 1 .. n - 1 :
                              blocks[e].kind = "authority" /\ blocks[e].who = blocks[n].who
      BY <1>3, <3>5
    <3>8. ActsWithinBlocks'
      <4>1. \A p : p \in authority' <=>
              \E d \in 1 .. n - 1 : blocks[d].kind = "authority" /\ blocks[d].who = p
        BY <3>1, <3>2, <3>6, <3>7
      <4>2. \A p : p \in authority' <=>
              \E d \in 1 .. Len(blocks') : blocks'[d].kind = "authority" /\ blocks'[d].who = p
        BY <3>3, <4>1
      <4>3. QED
        BY <4>2 DEF ActsWithinBlocks, BlocksOf
    <3>9. ASSUME NEW d \in 1 .. Len(blocks')
          PROVE  /\ blocks'[d].kind = "authority" => blocks'[d].who \in Granted
                 /\ blocks'[d].had <=> \E e \in 1 .. d - 1 :
                      blocks'[e].kind = "authority" /\ blocks'[e].who = blocks'[d].who
      <4>1. d \in 1 .. Len(blocks) /\ blocks'[d] = blocks[d]
        BY <3>3, <3>5
      <4>2. \A e \in 1 .. d - 1 : blocks'[e] = blocks[e]
        BY <3>2, <3>3
      <4>3. QED
        BY <1>3, <4>1, <4>2
    <3>10. QED
      BY <1>1, <3>1, <3>4, <3>8, <3>9 DEF Framed
  <2>3. QED
    BY <2>1, <2>2
<1>6. TypeOK'
  BY <1>4, <1>5 DEF IInv, TypeOK
<1>7. \A v \in Variables : Sound(label'[v], trails'[v])
  BY <1>4 DEF IInv
<1>8. QED
  BY <1>5, <1>6, <1>7 DEF IInv

(* The invariant holds at the start and after every step.                  *)
LEMMA Invariant == Spec => []IInv
<1>1. Init => IInv
  <2> SUFFICES ASSUME Init PROVE IInv
    OBVIOUS
  <2>1. \A v \in Variables : label[v] = Empty /\ trails[v] = {<<>>}
    BY DEF Init
  <2>2. Sound(Empty, {<<>>})
    BY LiteralSound
  <2>3. Empty \in LabelRecords /\ WellFormed(Empty)
    BY <2>2 DEF Sound, WellFormed
  <2>4. {<<>>} \in SUBSET Seq(Statements)
    BY <2>2 DEF Sound
  <2>5. TypeOK
    BY <2>1, <2>3, <2>4 DEF Init, TypeOK
  <2>6. Framed
    BY DEF Init, Framed, ActsWithinBlocks, BlocksOf
  <2>7. QED
    BY <2>1, <2>2, <2>5, <2>6 DEF IInv
<1>2. IInv /\ [Next]_vars => IInv'
  <2> SUFFICES ASSUME IInv, [Next]_vars PROVE IInv'
    OBVIOUS
  <2>1. ASSUME NEW v \in Variables, NEW r \in Variables, NEW o \in Principals,
               \/ \E readers \in SUBSET Principals : Classify(v, r, o, readers)
               \/ Declassify(v, r, o) \/ Endorse(v, r, o) \/ Retract(v, r, o)
        PROVE  IInv'
    BY <2>1, BuiltinsKeep
  <2>2. ASSUME NEW u \in Variables, NEW v \in Variables, NEW r \in Variables,
               Literal(r) \/ Copy(v, r) \/ Combine(u, v, r) \/ Derive(v, r)
        PROVE  IInv'
    BY <2>2, ComputingKeeps
  <2>3. ASSUME \/ \E kind \in Kinds, who \in Principals : Enter(kind, who)
               \/ Leave
        PROVE  IInv'
    BY <2>3, BlocksKeep
  <2>4. CASE UNCHANGED vars
    BY <2>4 DEF vars, IInv, TypeOK, Framed, ActsWithinBlocks, BlocksOf
  <2>5. QED
    BY <2>1, <2>2, <2>3, <2>4 DEF Next
<1>3. QED
  BY <1>1, <1>2, PTL DEF Spec

-----------------------------------------------------------------------------
(* The properties. *)

(* Every label is well formed, and every variable has its type.            *)
THEOREM TypeCorrect == Spec => []TypeOK
<1>1. IInv => TypeOK
  BY DEF IInv
<1>2. QED
  BY <1>1, Invariant, PTL

(* A value can be read by exactly those whom all unreleased rules stated   *)
(* on the way to it permit.                                                *)
THEOREM ReadersFollowRules == Spec => []ReadersAgree
<1>1. IInv => ReadersAgree
  <2> SUFFICES ASSUME IInv, NEW v \in Variables, Combined(v)
               PROVE  EffectiveReaders(label[v]) =
                        {p \in Principals : \A t \in trails[v] : p \in Permitted(t)}
    BY DEF ReadersAgree
  <2>1. /\ WellFormed(label[v]) /\ trails[v] \in SUBSET Seq(Statements)
        /\ \A o \in Principals : label[v].readers[o] =
             {p \in Principals : \A t \in trails[v] : p \in Rule(t, o)}
    BY DEF IInv, Sound, Agree, Combined
  <2>2. EffectiveReaders(label[v]) =
          {p \in Principals : \A o \in Principals : p \in label[v].readers[o]}
    BY <2>1, ReadersOfAll
  <2>3. \A t \in trails[v] :
          Permitted(t) = {p \in Principals : \A o \in Principals : p \in Rule(t, o)}
    BY <2>1, PermittedByOwner
  <2>4. QED
    BY <2>1, <2>2, <2>3
<1>2. QED
  BY <1>1, Invariant, PTL

(* A principal vouches for a value exactly when it does for everything the *)
(* value was computed from, and is listed as lost exactly when it does for *)
(* some of that.                                                           *)
THEOREM BackingFollowsVouches == Spec => []BackingAgrees
<1>1. IInv => BackingAgrees
  <2> SUFFICES ASSUME IInv, NEW v \in Variables, Combined(v)
               PROVE  /\ label[v].vouchers =
                           {p \in Principals : \A t \in trails[v] : p \in Backers(t)}
                      /\ label[v].lost =
                           {p \in Principals : \E t \in trails[v] : p \in Backers(t)}
                             \ label[v].vouchers
    BY DEF BackingAgrees
  <2>1. /\ label[v].vouchers \subseteq Principals /\ label[v].lost \subseteq Principals
        /\ \A o \in Principals :
             /\ o \in label[v].vouchers <=> \A t \in trails[v] : o \in Backers(t)
             /\ o \in label[v].lost <=>
                  o \notin label[v].vouchers /\ \E t \in trails[v] : o \in Backers(t)
    BY DEF IInv, Sound, Agree, Combined, WellFormed, LabelRecords
  <2>2. QED
    BY <2>1
<1>2. QED
  BY <1>1, Invariant, PTL

(* Without a principal's authority its rules bind for good and nothing     *)
(* comes to be vouched for by it.                                          *)
THEOREM AuthorityNeeded == Spec => []OnlyByAuthority
<1>1. IInv /\ ReadersAgree => OnlyByAuthority
  <2> SUFFICES ASSUME IInv, ReadersAgree, NEW v \in Variables
               PROVE  /\ label[v].vouchers \subseteq Granted
                      /\ Combined(v) =>
                           \A t \in trails[v] : \A i \in 1 .. Len(t) :
                             t[i].op = "classify" /\ t[i].by \notin Granted =>
                               EffectiveReaders(label[v]) \subseteq t[i].readers
    BY DEF OnlyByAuthority
  <2>1. label[v].vouchers \subseteq Granted /\ Released(trails[v])
        /\ trails[v] \in SUBSET Seq(Statements)
    BY DEF IInv, Sound
  <2>2. ASSUME Combined(v), NEW t \in trails[v], NEW i \in 1 .. Len(t),
               t[i].op = "classify", t[i].by \notin Granted
        PROVE  EffectiveReaders(label[v]) \subseteq t[i].readers
    <3>1. t \in Seq(Statements)
      BY <2>1
    <3>2. \A j \in i + 1 .. Len(t) : j \in 1 .. Len(t)
      BY <3>1
    <3>3. Stands(t, i, "declassify")
      BY <2>1, <2>2, <3>2 DEF Stands, Released
    <3>4. EffectiveReaders(label[v]) \subseteq Permitted(t)
      BY <2>2 DEF ReadersAgree
    <3>5. QED
      BY <2>2, <3>3, <3>4 DEF Permitted
  <2>3. QED
    BY <2>1, <2>2
<1>2. QED
  BY <1>1, Invariant, ReadersFollowRules, PTL

(* A frame acts for exactly the principals of its authority blocks.        *)
THEOREM AuthorityFollowsBlocks == Spec => []ActsWithinBlocks
<1>1. IInv => ActsWithinBlocks
  BY DEF IInv, Framed
<1>2. QED
  BY <1>1, Invariant, PTL
=============================================================================
