------------------------ MODULE Transactions_proofs ------------------------
(***************************************************************************)
(* Proofs about Transactions, for any ledgers, payloads, depth of nesting  *)
(* and length.                                                             *)
(*                                                                         *)
(* What holds of a ledger is stated once, of values (Good), and kept by    *)
(* each thing that can happen to a ledger; the actions are combinations of *)
(* these.  At its heart is what a block would find again if it were undone *)
(* (Found): the count of the first mark that it or a block inside it set,  *)
(* and all there is when there is none.                                    *)
(***************************************************************************)
EXTENDS Transactions, FiniteSetTheorems, WellFoundedInduction, TLAPS

-----------------------------------------------------------------------------
(* Sequences of whatever it may be. *)

IsSeq(s) == \E S : s \in Seq(S)

LEMMA AppendSeq ==
  ASSUME NEW s, IsSeq(s), NEW e
  PROVE  /\ IsSeq(Append(s, e)) /\ Len(s) \in Nat
         /\ Len(Append(s, e)) = Len(s) + 1
         /\ \A i \in 1 .. Len(s) : Append(s, e)[i] = s[i]
         /\ Append(s, e)[Len(s) + 1] = e
<1>1. PICK S : s \in Seq(S)
  BY DEF IsSeq
<1>2. s \in Seq(S \cup {e}) /\ e \in S \cup {e}
  BY <1>1
<1>3. Append(s, e) \in Seq(S \cup {e})
  BY <1>2
<1>4. QED
  BY <1>2, <1>3 DEF IsSeq

LEMMA TakeSeq ==
  ASSUME NEW s, IsSeq(s), NEW n \in 0 .. Len(s)
  PROVE  /\ IsSeq(SubSeq(s, 1, n)) /\ Len(SubSeq(s, 1, n)) = n
         /\ \A i \in 1 .. n : SubSeq(s, 1, n)[i] = s[i]
<1>1. PICK S : s \in Seq(S)
  BY DEF IsSeq
<1>2. /\ SubSeq(s, 1, n) \in Seq(S) /\ Len(SubSeq(s, 1, n)) = n
      /\ \A i \in 1 .. n : SubSeq(s, 1, n)[i] = s[i]
  BY <1>1
<1>3. QED
  BY <1>2 DEF IsSeq

LEMMA FrontSeq ==
  ASSUME NEW s, IsSeq(s), Len(s) > 0
  PROVE  /\ IsSeq(Front(s)) /\ Len(Front(s)) = Len(s) - 1
         /\ \A i \in 1 .. Len(s) - 1 : Front(s)[i] = s[i]
<1>1. Len(s) - 1 \in 0 .. Len(s)
  BY DEF IsSeq
<1>2. QED
  BY <1>1, TakeSeq DEF Front

LEMMA SameSeq ==
  ASSUME NEW s, IsSeq(s), NEW t, IsSeq(t), Len(s) = Len(t),
         \A i \in 1 .. Len(s) : s[i] = t[i]
  PROVE  s = t
BY DEF IsSeq

(* s comes first in t, said entry by entry.                                *)
Prefix(s, t) == IsSeq(s) /\ Len(s) <= Len(t) /\ \A i \in 1 .. Len(s) : s[i] = t[i]

LEMMA PrefixIsPrefix ==
  ASSUME NEW s, NEW t, IsSeq(t), Prefix(s, t)
  PROVE  IsPrefix(s, t)
<1>1. IsSeq(s) /\ Len(s) \in Nat /\ Len(t) \in Nat /\ Len(s) <= Len(t)
  BY DEF Prefix, IsSeq
<1>2. /\ IsSeq(SubSeq(s, 1, Len(s))) /\ Len(SubSeq(s, 1, Len(s))) = Len(s)
      /\ \A i \in 1 .. Len(s) : SubSeq(s, 1, Len(s))[i] = s[i]
  BY <1>1, TakeSeq
<1>3. /\ IsSeq(SubSeq(t, 1, Len(s))) /\ Len(SubSeq(t, 1, Len(s))) = Len(s)
      /\ \A i \in 1 .. Len(s) : SubSeq(t, 1, Len(s))[i] = t[i]
  BY <1>1, TakeSeq
<1>4. SubSeq(s, 1, Len(s)) = SubSeq(t, 1, Len(s))
  BY <1>2, <1>3, SameSeq DEF Prefix
<1>5. QED
  BY <1>1, <1>4 DEF IsPrefix

-----------------------------------------------------------------------------
(* The blocks that enrolled a ledger, and its marks. *)

(* Depths of blocks, of which n are open.                                  *)
Within(D, n) == n \in Nat /\ D \subseteq 1 .. n

(* R is D with an innermost block m more, or without n.                    *)
Adds(R, D, m) == m \notin D /\ R = D \cup {m} /\ \A o \in D : o < m
Drops(R, D, n) == n \in D /\ R = D \ {n}

(* How many of the blocks in D are outside of block d.                     *)
Outside(D, d) == {o \in D : o < d}
Below(D, d) == Cardinality(Outside(D, d))

LEMMA BelowType ==
  ASSUME NEW n, NEW D, Within(D, n), NEW d \in Nat
  PROVE  /\ IsFiniteSet(D) /\ Cardinality(D) \in Nat
         /\ Below(D, d) \in Nat /\ Below(D, d) <= Cardinality(D)
         /\ d \in D => Below(D, d) < Cardinality(D)
         /\ d \in D => Rank(D, d) = Below(D, d) + 1
         /\ (\A o \in D : o < d) => Below(D, d) = Cardinality(D)
<1>1. IsFiniteSet(D)
  <2>1. IsFiniteSet(1 .. n)
    BY FS_Interval DEF Within
  <2>2. QED
    BY <2>1, FS_Subset DEF Within
<1>2. IsFiniteSet(Outside(D, d)) /\ Below(D, d) <= Cardinality(D)
  <2>1. Outside(D, d) \in SUBSET D
    BY DEF Outside
  <2>2. QED
    BY <1>1, <2>1, FS_Subset DEF Below
<1>3. Cardinality(D) \in Nat /\ Below(D, d) \in Nat
  BY <1>1, <1>2, FS_CardinalityType DEF Below
<1>4. ASSUME d \in D
      PROVE  Below(D, d) < Cardinality(D) /\ Rank(D, d) = Below(D, d) + 1
  <2> DEFINE I == {o \in D : o <= d}
  <2>1. \A o \in D : o \in Nat
    BY DEF Within
  <2>2. I = Outside(D, d) \cup {d}
    <3>1. \A o \in D : o <= d <=> (o < d \/ o = d)
      BY <2>1
    <3>2. QED
      BY <1>4, <3>1 DEF Outside
  <2>3. d \notin Outside(D, d) /\ I \in SUBSET D
    BY DEF Outside
  <2>4. Rank(D, d) = Cardinality(I)
    BY DEF Rank
  <2> HIDE DEF I
  <2>5. Cardinality(I) = Below(D, d) + 1
    BY <1>2, <2>2, <2>3, FS_AddElement DEF Below
  <2>6. Cardinality(I) <= Cardinality(D)
    BY <1>1, <2>3, FS_Subset
  <2>7. QED
    BY <1>3, <2>4, <2>5, <2>6
<1>5. ASSUME \A o \in D : o < d
      PROVE  Below(D, d) = Cardinality(D)
  <2>1. Outside(D, d) = D
    BY <1>5 DEF Outside
  <2>2. QED
    BY <2>1 DEF Below
<1>6. QED
  BY <1>1, <1>2, <1>3, <1>4, <1>5

(* The further in, the more blocks are outside.                            *)
LEMMA BelowMonotone ==
  ASSUME NEW n, NEW D, Within(D, n), NEW c \in Nat, NEW d \in Nat, c <= d
  PROVE  Below(D, c) <= Below(D, d)
<1>1. Outside(D, c) \in SUBSET Outside(D, d) /\ Outside(D, d) \in SUBSET D
  <2>1. \A o \in D : o \in Nat
    BY DEF Within
  <2>2. \A o \in D : o < c => o < d
    BY <2>1
  <2>3. QED
    BY <2>2 DEF Outside
<1>2. IsFiniteSet(Outside(D, d))
  BY <1>1, BelowType, FS_Subset
<1>3. QED
  BY <1>1, <1>2, FS_Subset DEF Below

(* Some block is inside all the others.                                    *)
LEMMA Greatest ==
  ASSUME NEW n \in Nat, NEW D, D \subseteq 1 .. n, D # {}
  PROVE  \E m \in D : \A o \in D : o <= m
<1> DEFINE Inside(d) == {o \in D : o > d}
           T == {Inside(d) : d \in D}
<1>1. IsFiniteSet(1 .. n) /\ D \in SUBSET (1 .. n)
  BY FS_Interval
<1>2. IsFiniteSet(D)
  BY <1>1, FS_Subset
<1>3. IsWellFoundedOn(StrictSubsetOrdering(D), SUBSET D)
  BY <1>2, FS_FiniteSubsetsOfFinite, FS_StrictSubsetOrderingWellFounded
<1>4. T \subseteq SUBSET D /\ T # {}
  OBVIOUS
<1>5. PICK I \in T : \A J \in T : <<J, I>> \notin StrictSubsetOrdering(D)
  <2> HIDE DEF T
  <2>1. QED
    BY <1>3, <1>4, WFMin
<1>6. PICK m \in D : I = Inside(m)
  BY <1>5
<1>7. ASSUME NEW o \in D, o > m
      PROVE  FALSE
  <2>1. \A d \in D : d \in Nat
    OBVIOUS
  <2>2. \A d \in D : d > o => d > m
    BY <1>7, <2>1
  <2>3. o \in Inside(m)
    BY <1>7
  <2>4. o \notin Inside(o)
    BY <2>1
  <2>5. Inside(o) \subseteq Inside(m)
    BY <2>2
  <2>6. <<Inside(o), Inside(m)>> \in StrictSubsetOrdering(D)
    BY <2>3, <2>4, <2>5 DEF StrictSubsetOrdering
  <2>7. QED
    BY <1>5, <1>6, <2>6
<1>8. \A o \in D : o \in Nat
  OBVIOUS
<1>9. QED
  BY <1>7, <1>8

(* A block inside all of those in D comes last.                            *)
LEMMA BelowAdd ==
  ASSUME NEW n, NEW D, Within(D, n), NEW m \in 1 .. n, NEW R, Adds(R, D, m)
  PROVE  /\ Within(R, n) /\ Cardinality(R) = Cardinality(D) + 1
         /\ \A d \in 1 .. n : d <= m => Below(R, d) = Below(D, d)
         /\ \A d \in 1 .. n : d > m => Below(R, d) = Cardinality(D) + 1
<1>1. m \notin D /\ R = D \cup {m} /\ \A o \in D : o < m
  BY DEF Adds
<1>2. Within(R, n) /\ m \in Nat /\ n \in Nat
  BY <1>1 DEF Within
<1>3. Cardinality(R) = Cardinality(D) + 1
  BY <1>2, <1>1, BelowType, FS_AddElement
<1>4. \A o \in R : o \in Nat
  BY <1>2 DEF Within
<1>5. ASSUME NEW d \in 1 .. n, d <= m
      PROVE  Below(R, d) = Below(D, d)
  <2>1. Outside(R, d) = Outside(D, d)
    BY <1>2, <1>5, <1>1 DEF Outside
  <2>2. QED
    BY <2>1 DEF Below
<1>6. ASSUME NEW d \in 1 .. n, d > m
      PROVE  Below(R, d) = Cardinality(D) + 1
  <2>1. \A o \in R : o < d
    BY <1>2, <1>4, <1>6, <1>1
  <2>2. Outside(R, d) = R
    BY <2>1 DEF Outside
  <2>3. QED
    BY <1>3, <2>2 DEF Below
<1>7. QED
  BY <1>2, <1>3, <1>5, <1>6

(* The innermost block is taken out.                                       *)
LEMMA BelowRemove ==
  ASSUME NEW n, NEW D, Within(D, n), NEW R, Drops(R, D, n)
  PROVE  /\ Within(R, n - 1) /\ Cardinality(R) = Cardinality(D) - 1
         /\ Below(D, n) = Cardinality(D) - 1
         /\ \A d \in 1 .. n - 1 : Below(R, d) = Below(D, d)
         /\ \A d \in 1 .. n - 1 : d \in D => Below(D, d) < Cardinality(D) - 1
<1>1. n \in D /\ R = D \ {n}
  BY DEF Drops
<1>2. Within(R, n - 1) /\ n \in Nat
  BY <1>1 DEF Within
<1>3. Cardinality(R) = Cardinality(D) - 1
  BY <1>2, <1>1, BelowType, FS_RemoveElement
<1>4. Below(D, n) = Cardinality(D) - 1
  <2>1. \A o \in D : o \in Nat /\ (o < n <=> o # n)
    BY DEF Within
  <2>2. Outside(D, n) = R
    BY <1>1, <2>1 DEF Outside
  <2>3. QED
    BY <1>3, <2>2 DEF Below
<1>5. ASSUME NEW d \in 1 .. n - 1
      PROVE  Below(R, d) = Below(D, d) /\ (d \in D => Below(D, d) < Cardinality(D) - 1)
  <2>1. d \in Nat /\ d < n
    BY <1>2
  <2>2. Outside(R, d) = Outside(D, d)
    BY <1>2, <1>1, <2>1 DEF Outside
  <2>3. Below(R, d) = Below(D, d)
    BY <2>2 DEF Below
  <2>4. d \in D => d \in R
    BY <1>1, <2>1
  <2>5. d \in R => Below(R, d) < Cardinality(R)
    BY <1>2, <2>1, BelowType
  <2>6. QED
    BY <1>3, <2>3, <2>4, <2>5
<1>6. QED
  BY <1>2, <1>3, <1>4, <1>5

-----------------------------------------------------------------------------
(* What holds of one ledger with entries E, head h and marks S.  Of the n  *)
(* open blocks those in D enrolled it; B is what each block found, and A   *)
(* are the atomic blocks that would put it back exactly: no block inside   *)
(* them committed to the ledger before they had appended to it themselves. *)

Chained(E, h) == IsSeq(E) /\ Verifies(E, h)

Marks(E, S) ==
  /\ IsSeq(S)
  /\ \A i \in 1 .. Len(S) : S[i].count \in 0 .. Len(E) /\ S[i].head = HashAt(E, S[i].count)
  /\ \A i, j \in 1 .. Len(S) : i <= j => S[i].count <= S[j].count

(* How long the ledger is without what was appended under a mark that      *)
(* block d or a block inside it set.                                       *)
Found(E, S, D, d) == IF Below(D, d) < Len(S) THEN S[Below(D, d) + 1].count ELSE Len(E)

Keeps(E, S, D, n, B, A) ==
  \A d \in 1 .. n :
    /\ Prefix(B[d], E)
    /\ Len(B[d]) <= Found(E, S, D, d)
    /\ d \in A => Len(B[d]) = Found(E, S, D, d)

(* C and G say no more of the n outermost blocks than B and A do.          *)
Retold(C, G, B, A, n) == \A d \in 1 .. n : C[d] = B[d] /\ (d \in G => d \in A)

Good(E, h, S, D, n, B, A) ==
  /\ Chained(E, h) /\ Marks(E, S)
  /\ Within(D, n) /\ Cardinality(D) = Len(S)
  /\ Keeps(E, S, D, n, B, A)

(* The histories of the blocks still open may be told another way.         *)
LEMMA GoodSame ==
  ASSUME NEW E, NEW h, NEW S, NEW D, NEW n, NEW B, NEW A, Good(E, h, S, D, n, B, A),
         NEW C, NEW G, Retold(C, G, B, A, n)
  PROVE  Good(E, h, S, D, n, C, G)
BY DEF Good, Keeps, Retold

(* A block is entered.                                                     *)
LEMMA GoodEnter ==
  ASSUME NEW E, NEW h, NEW S, NEW D, NEW n, NEW B, NEW A, Good(E, h, S, D, n, B, A),
         NEW C, NEW G, C[n + 1] = E, Retold(C, G, B, A, n)
  PROVE  Good(E, h, S, D, n + 1, C, G)
<1>1. /\ Chained(E, h) /\ Marks(E, S) /\ Within(D, n) /\ Cardinality(D) = Len(S)
      /\ Keeps(E, S, D, n, B, A) /\ n \in Nat
  BY DEF Good, Within
<1>2. Len(E) \in Nat /\ Prefix(E, E)
  BY <1>1 DEF Prefix, Chained, IsSeq
<1>3. Found(E, S, D, n + 1) = Len(E)
  <2>1. \A o \in D : o < n + 1
    BY <1>1 DEF Within
  <2>2. Below(D, n + 1) = Len(S) /\ Len(S) \in Nat
    <3>1. Within(D, n) /\ n + 1 \in Nat /\ Cardinality(D) = Len(S)
      BY <1>1
    <3>2. Cardinality(D) \in Nat
      BY <3>1, BelowType
    <3>3. {d \in D : d < n + 1} = D
      BY <2>1
    <3>4. QED
      BY <3>1, <3>2, <3>3 DEF Below, Outside
  <2>3. QED
    BY <2>2 DEF Found
<1>4. ASSUME NEW d \in 1 .. n + 1
      PROVE  /\ Prefix(C[d], E) /\ Len(C[d]) <= Found(E, S, D, d)
             /\ d \in G => Len(C[d]) = Found(E, S, D, d)
  <2>1. CASE d = n + 1
    BY <1>2, <1>3, <2>1
  <2>2. CASE d \in 1 .. n
    BY <1>1, <2>2 DEF Keeps, Retold
  <2>3. QED
    BY <1>1, <2>1, <2>2
<1>5. Within(D, n + 1)
  BY <1>1 DEF Within
<1>6. QED
  BY <1>1, <1>4, <1>5 DEF Good, Keeps

(* A block that did not enroll the ledger is gone.                         *)
LEMMA GoodLeave ==
  ASSUME NEW E, NEW h, NEW S, NEW D, NEW n, NEW B, NEW A, Good(E, h, S, D, n, B, A),
         n > 0, n \notin D,
         NEW C, NEW G, Retold(C, G, B, A, n - 1)
  PROVE  Good(E, h, S, D, n - 1, C, G)
<1>1. Within(D, n - 1) /\ n \in Nat
  BY DEF Good, Within
<1>2. QED
  BY <1>1 DEF Good, Keeps, Retold

-----------------------------------------------------------------------------
(* An append, seen from the chain alone.                                   *)
LEMMA AppendFacts ==
  ASSUME NEW E, NEW h, Chained(E, h), NEW p
  PROVE  LET e == Entry(h, Len(E), p)
             F == Append(E, e)
         IN  /\ Chained(F, e.hash) /\ Len(F) = Len(E) + 1
             /\ \A i \in 0 .. Len(E) : HashAt(F, i) = HashAt(E, i)
             /\ \A s : Prefix(s, E) => Prefix(s, F)
<1> DEFINE e == Entry(h, Len(E), p)
           F == Append(E, e)
<1>1. /\ IsSeq(F) /\ Len(E) \in Nat /\ Len(F) = Len(E) + 1
      /\ \A i \in 1 .. Len(E) : F[i] = E[i]
      /\ F[Len(E) + 1] = e
  BY AppendSeq DEF Chained
<1> HIDE DEF F
<1>2. \A i \in 0 .. Len(E) : HashAt(F, i) = HashAt(E, i)
  BY <1>1 DEF HashAt
<1>3. e.prev = h /\ e.hash = Digest(h, e.index, e.payload)
  BY DEF Entry
<1> HIDE DEF e
<1>4. HashAt(E, Len(E)) = h
  BY DEF Chained, Verifies
<1>5. ASSUME NEW i \in 1 .. Len(F)
      PROVE  /\ F[i].prev = HashAt(F, i - 1)
             /\ F[i].hash = Digest(HashAt(F, i - 1), F[i].index, F[i].payload)
  <2>1. CASE i = Len(E) + 1
    BY <1>1, <1>2, <1>3, <1>4, <2>1
  <2>2. CASE i \in 1 .. Len(E)
    BY <1>1, <1>2, <2>2 DEF Chained, Verifies
  <2>3. QED
    BY <1>1, <2>1, <2>2
<1>6. HashAt(F, Len(F)) = e.hash
  BY <1>1 DEF HashAt
<1>7. \A s : Prefix(s, E) => Prefix(s, F)
  BY <1>1 DEF Prefix, IsSeq
<1>8. QED
  BY <1>1, <1>2, <1>5, <1>6, <1>7 DEF Chained, Verifies, e, F

(* An append the innermost atomic block needs no mark for.                 *)
LEMMA GoodAppend ==
  ASSUME NEW E, NEW h, NEW S, NEW D, NEW n, NEW B, NEW A, Good(E, h, S, D, n, B, A), NEW p,
         \A d \in A : \E m \in D : d <= m,
         NEW e, e = Entry(h, Len(E), p), NEW F, F = Append(E, e)
  PROVE  Good(F, e.hash, S, D, n, B, A)
<1>1. /\ Chained(E, h) /\ Marks(E, S) /\ Within(D, n) /\ Cardinality(D) = Len(S)
      /\ Keeps(E, S, D, n, B, A) /\ n \in Nat
  BY DEF Good, Within
<1>2. /\ Chained(F, e.hash) /\ Len(F) = Len(E) + 1 /\ Len(E) \in Nat
      /\ \A i \in 0 .. Len(E) : HashAt(F, i) = HashAt(E, i)
      /\ \A s : Prefix(s, E) => Prefix(s, F)
  BY <1>1, AppendFacts, AppendSeq DEF Chained
<1>3. Marks(F, S) /\ \A i \in 1 .. Len(S) : S[i].count \in 0 .. Len(E)
  BY <1>1, <1>2 DEF Marks
<1>4. ASSUME NEW d \in 1 .. n
      PROVE  /\ Prefix(B[d], F) /\ Len(B[d]) <= Found(F, S, D, d)
             /\ d \in A => Len(B[d]) = Found(F, S, D, d)
  <2>1. /\ Prefix(B[d], E) /\ Len(B[d]) \in Nat
        /\ Len(B[d]) <= Found(E, S, D, d) /\ (d \in A => Len(B[d]) = Found(E, S, D, d))
    BY <1>1 DEF Keeps, Prefix, IsSeq
  <2>2. CASE Below(D, d) < Len(S)
    <3>1. Found(F, S, D, d) = Found(E, S, D, d)
      BY <2>2 DEF Found
    <3>2. QED
      BY <1>2, <2>1, <3>1
  <2>3. CASE ~(Below(D, d) < Len(S))
    <3>1. Found(F, S, D, d) = Len(E) + 1 /\ Found(E, S, D, d) = Len(E)
      BY <1>2, <2>3 DEF Found
    <3>2. d \notin A
      <4>1. SUFFICES ASSUME NEW m \in D, d <= m
                     PROVE  FALSE
        OBVIOUS
      <4>2. m \in Nat /\ d \in Nat
        BY <1>1 DEF Within
      <4>3. Below(D, d) <= Below(D, m)
        BY <1>1, <4>1, <4>2, BelowMonotone
      <4>4. Below(D, m) < Cardinality(D) /\ Below(D, m) \in Nat /\ Cardinality(D) \in Nat
        BY <1>1, <4>2, BelowType
      <4>5. Below(D, d) \in Nat
        BY <1>1, <4>2, BelowType
      <4>6. QED
        BY <1>1, <2>3, <4>3, <4>4, <4>5
    <3>3. QED
      BY <1>2, <2>1, <3>1, <3>2
  <2>4. QED
    BY <2>2, <2>3
<1>5. QED
  BY <1>1, <1>2, <1>3, <1>4 DEF Good, Keeps

(* An append for which the innermost atomic block m sets a mark.           *)
LEMMA GoodEnroll ==
  ASSUME NEW E, NEW h, NEW S, NEW D, NEW n, NEW B, NEW A, Good(E, h, S, D, n, B, A), NEW p,
         NEW m \in 1 .. n, \A d \in A : d <= m,
         NEW e, e = Entry(h, Len(E), p), NEW F, F = Append(E, e),
         NEW mark, mark.count = Len(E), mark.head = h, NEW T, T = Append(S, mark), NEW R, Adds(R, D, m)
  PROVE  Good(F, e.hash, T, R, n, B, A)
<1>1. /\ Chained(E, h) /\ Marks(E, S) /\ Within(D, n) /\ Cardinality(D) = Len(S)
      /\ Keeps(E, S, D, n, B, A) /\ n \in Nat /\ m \in Nat
  BY DEF Good, Within
<1>2. /\ Chained(F, e.hash) /\ Len(F) = Len(E) + 1 /\ Len(E) \in Nat
      /\ \A i \in 0 .. Len(E) : HashAt(F, i) = HashAt(E, i)
      /\ \A s : Prefix(s, E) => Prefix(s, F)
  BY <1>1, AppendFacts, AppendSeq DEF Chained
<1>3. /\ IsSeq(T) /\ Len(S) \in Nat /\ Len(T) = Len(S) + 1
      /\ \A i \in 1 .. Len(S) : T[i] = S[i]
      /\ T[Len(S) + 1].count = Len(E) /\ T[Len(S) + 1].head = h
  BY <1>1, AppendSeq DEF Marks
<1>4. Marks(F, T)
  <2>1. HashAt(E, Len(E)) = h
    BY <1>1 DEF Chained, Verifies
  <2>2. \A i \in 1 .. Len(S) : T[i].count \in 0 .. Len(E) /\ T[i].head = HashAt(F, T[i].count)
    BY <1>1, <1>2, <1>3 DEF Marks
  <2>3. \A i \in 1 .. Len(T) : T[i].count \in 0 .. Len(E) /\ T[i].head = HashAt(F, T[i].count)
    BY <1>2, <1>3, <2>1, <2>2
  <2>4. \A i, j \in 1 .. Len(T) : i <= j => T[i].count <= T[j].count
    <3>1. \A i, j \in 1 .. Len(S) : i <= j => T[i].count <= T[j].count
      BY <1>1, <1>3 DEF Marks
    <3>2. QED
      BY <1>2, <1>3, <2>3, <3>1
  <2>5. QED
    BY <1>2, <1>3, <2>3, <2>4 DEF Marks
<1>5. /\ Within(R, n) /\ Cardinality(R) = Len(T)
      /\ \A d \in 1 .. n : d <= m => Below(R, d) = Below(D, d)
      /\ \A d \in 1 .. n : d > m => Below(R, d) = Len(T)
  <2>1. /\ Within(R, n) /\ Cardinality(R) = Cardinality(D) + 1
        /\ \A d \in 1 .. n : d <= m => Below(R, d) = Below(D, d)
        /\ \A d \in 1 .. n : d > m => Below(R, d) = Cardinality(D) + 1
    BY <1>1, BelowAdd
  <2>2. QED
    BY <1>1, <1>3, <2>1
<1>6. ASSUME NEW d \in 1 .. n
      PROVE  /\ Prefix(B[d], F) /\ Len(B[d]) <= Found(F, T, R, d)
             /\ d \in A => Len(B[d]) = Found(F, T, R, d)
  <2>1. /\ Prefix(B[d], E) /\ Len(B[d]) \in Nat /\ Len(B[d]) <= Len(E)
        /\ Len(B[d]) <= Found(E, S, D, d) /\ (d \in A => Len(B[d]) = Found(E, S, D, d))
    BY <1>1 DEF Keeps, Prefix, IsSeq
  <2>2. Below(D, d) \in Nat /\ Below(D, d) <= Len(S)
    <3>1. d \in Nat
      OBVIOUS
    <3>2. Below(D, d) \in Nat /\ Below(D, d) <= Cardinality(D)
      BY <1>1, <3>1, BelowType
    <3>3. QED
      BY <1>1, <3>2
  <2>3. CASE d <= m
    <3>1. Below(R, d) = Below(D, d)
      BY <1>5, <2>3
    <3>2. Found(F, T, R, d) = Found(E, S, D, d)
      BY <1>3, <2>2, <3>1 DEF Found
    <3>3. QED
      BY <1>2, <2>1, <3>2
  <2>4. CASE d > m
    <3>1. Below(R, d) = Len(T) /\ d \notin A
      <4>1. ~(d <= m)
        BY <1>1, <2>4
      <4>2. QED
        BY <1>5, <2>4, <4>1
    <3>2. Found(F, T, R, d) = Len(F)
      BY <1>3, <3>1 DEF Found
    <3>3. QED
      BY <1>2, <2>1, <3>1, <3>2
  <2>5. QED
    BY <1>1, <2>3, <2>4
<1>7. QED
  BY <1>2, <1>4, <1>5, <1>6 DEF Good, Keeps

-----------------------------------------------------------------------------
(* The innermost block drops its mark.                                     *)
LEMMA MarkDropped ==
  ASSUME NEW E, NEW h, NEW S, NEW D, NEW n, NEW B, NEW A, Good(E, h, S, D, n, B, A),
         NEW T, T = Front(S), NEW R, Drops(R, D, n)
  PROVE  /\ Len(S) \in Nat /\ Len(S) > 0 /\ Len(T) = Len(S) - 1
         /\ \A i \in 1 .. Len(S) - 1 : T[i] = S[i]
         /\ Marks(E, T) /\ Within(R, n - 1) /\ Cardinality(R) = Len(T)
         /\ Below(D, n) = Len(S) - 1
         /\ \A d \in 1 .. n - 1 : Below(R, d) = Below(D, d)
         /\ \A d \in 1 .. n - 1 : Below(D, d) \in Nat /\ Below(D, d) <= Len(S) - 1
         /\ \A d \in 1 .. n - 1 : d \in D => Below(D, d) < Len(S) - 1
<1>1. Marks(E, S) /\ Within(D, n) /\ Cardinality(D) = Len(S) /\ n \in Nat
  BY DEF Good, Within
<1>2. /\ Within(R, n - 1) /\ Cardinality(R) = Len(S) - 1 /\ Below(D, n) = Len(S) - 1
      /\ \A d \in 1 .. n - 1 : Below(R, d) = Below(D, d)
      /\ \A d \in 1 .. n - 1 : d \in D => Below(D, d) < Len(S) - 1
  <2>1. /\ Within(R, n - 1) /\ Cardinality(R) = Cardinality(D) - 1
        /\ Below(D, n) = Cardinality(D) - 1
        /\ \A d \in 1 .. n - 1 : Below(R, d) = Below(D, d)
        /\ \A d \in 1 .. n - 1 : d \in D => Below(D, d) < Cardinality(D) - 1
    BY <1>1, BelowRemove
  <2>2. QED
    BY <1>1, <2>1
<1>3. Len(S) \in Nat /\ Below(D, n) \in Nat
  BY <1>1, BelowType
<1>4. IsSeq(T) /\ Len(T) = Len(S) - 1 /\ \A i \in 1 .. Len(S) - 1 : T[i] = S[i]
  BY <1>1, <1>2, <1>3, FrontSeq DEF Marks
<1>5. Marks(E, T)
  BY <1>1, <1>3, <1>4 DEF Marks
<1>6. ASSUME NEW d \in 1 .. n - 1
      PROVE  Below(D, d) \in Nat /\ Below(D, d) <= Len(S) - 1
  <2>1. d \in Nat
    BY <1>1
  <2>2. Below(R, d) \in Nat /\ Below(R, d) <= Cardinality(R)
    BY <1>2, <2>1, BelowType
  <2>3. QED
    BY <1>2, <2>2
<1>7. Len(S) > 0
  BY <1>2, <1>3
<1>8. QED
  BY <1>2, <1>3, <1>4, <1>5, <1>6, <1>7

(* The innermost block ends: what it appended stays, under no mark of its  *)
(* own.  A block that did not enroll the ledger no longer knows what it    *)
(* found.                                                                  *)
LEMMA GoodCommit ==
  ASSUME NEW E, NEW h, NEW S, NEW D, NEW n, NEW B, NEW A, Good(E, h, S, D, n, B, A),
         NEW C, NEW G, Retold(C, G, B, A, n - 1), \A d \in G : d \in 1 .. n - 1 => d \in D,
         NEW T, T = Front(S), NEW R, Drops(R, D, n)
  PROVE  Good(E, h, T, R, n - 1, C, G)
<1>1. Chained(E, h) /\ Keeps(E, S, D, n, B, A) /\ n \in Nat
  BY DEF Good, Within
<1>2. /\ Len(S) \in Nat /\ Len(S) > 0 /\ Len(T) = Len(S) - 1
      /\ \A i \in 1 .. Len(S) - 1 : T[i] = S[i]
      /\ Marks(E, T) /\ Within(R, n - 1) /\ Cardinality(R) = Len(T)
      /\ \A d \in 1 .. n - 1 : Below(R, d) = Below(D, d)
      /\ \A d \in 1 .. n - 1 : Below(D, d) \in Nat /\ Below(D, d) <= Len(S) - 1
      /\ \A d \in 1 .. n - 1 : d \in D => Below(D, d) < Len(S) - 1
  BY MarkDropped
<1>3. ASSUME NEW d \in 1 .. n - 1
      PROVE  /\ Prefix(C[d], E) /\ Len(C[d]) <= Found(E, T, R, d)
             /\ d \in G => Len(C[d]) = Found(E, T, R, d)
  <2>1. d \in 1 .. n
    BY <1>1
  <2>2. /\ C[d] = B[d] /\ Prefix(B[d], E) /\ Len(B[d]) \in Nat /\ Len(B[d]) <= Len(E)
        /\ Len(B[d]) <= Found(E, S, D, d) /\ (d \in A => Len(B[d]) = Found(E, S, D, d))
        /\ d \in G => d \in A
    BY <1>1, <2>1 DEF Keeps, Prefix, IsSeq, Retold
  <2>3. Below(R, d) = Below(D, d) /\ Below(D, d) \in Nat /\ Below(D, d) <= Len(S) - 1
    BY <1>2
  <2>4. CASE Below(D, d) < Len(S) - 1
    <3>1. Found(E, T, R, d) = Found(E, S, D, d)
      BY <1>2, <2>3, <2>4 DEF Found
    <3>2. QED
      BY <2>2, <3>1
  <2>5. CASE Below(D, d) = Len(S) - 1
    <3>1. Found(E, T, R, d) = Len(E) /\ d \notin G
      BY <1>2, <2>3, <2>5 DEF Found
    <3>2. QED
      BY <2>2, <3>1
  <2>6. QED
    BY <1>2, <2>3, <2>4, <2>5
<1>4. QED
  BY <1>1, <1>2, <1>3 DEF Good, Keeps

(* F is E without what came after the last mark of S.                      *)
Undone(F, E, S) == F = SubSeq(E, 1, Last(S).count)

(* The innermost block is undone, back to its mark: what is left is no     *)
(* less than it found, and just that unless something leaked.              *)
LEMMA GoodAbort ==
  ASSUME NEW E, NEW h, NEW S, NEW D, NEW n, NEW B, NEW A, Good(E, h, S, D, n, B, A),
         NEW C, NEW G, Retold(C, G, B, A, n - 1),
         NEW T, T = Front(S), NEW R, Drops(R, D, n), NEW F, Undone(F, E, S)
  PROVE  /\ Good(F, Last(S).head, T, R, n - 1, C, G)
         /\ Prefix(B[n], F) /\ (n \in A => F = B[n])
<1> DEFINE c == Last(S).count
<1>1. Chained(E, h) /\ Marks(E, S) /\ Keeps(E, S, D, n, B, A) /\ n \in Nat /\ n \in 1 .. n
  BY DEF Good, Within, Drops
<1>2. /\ Len(S) \in Nat /\ Len(S) > 0 /\ Len(T) = Len(S) - 1
      /\ \A i \in 1 .. Len(S) - 1 : T[i] = S[i]
      /\ Marks(E, T) /\ Within(R, n - 1) /\ Cardinality(R) = Len(T)
      /\ Below(D, n) = Len(S) - 1
      /\ \A d \in 1 .. n - 1 : Below(R, d) = Below(D, d)
      /\ \A d \in 1 .. n - 1 : Below(D, d) \in Nat /\ Below(D, d) <= Len(S) - 1
  BY MarkDropped
<1>3. /\ c \in 0 .. Len(E) /\ c = S[Len(S)].count /\ Last(S).head = HashAt(E, c)
      /\ \A i \in 1 .. Len(T) : T[i].count \in 0 .. c
  <2>1. Len(S) \in 1 .. Len(S)
    BY <1>2
  <2>2. c = S[Len(S)].count /\ c \in 0 .. Len(E) /\ Last(S).head = HashAt(E, c)
    BY <1>1, <2>1 DEF Marks, Last
  <2>3. ASSUME NEW i \in 1 .. Len(T)
        PROVE  T[i].count \in 0 .. c
    <3>1. i \in 1 .. Len(S) /\ i <= Len(S) /\ T[i] = S[i]
      BY <1>2
    <3>2. S[i].count \in 0 .. Len(E) /\ S[i].count <= S[Len(S)].count
      BY <1>1, <2>1, <3>1 DEF Marks
    <3>3. QED
      BY <2>2, <3>1, <3>2
  <2>4. QED
    BY <2>2, <2>3
<1>4. Len(E) \in Nat
  BY <1>1 DEF Chained, IsSeq
<1>5. IsSeq(F) /\ Len(F) = c /\ \A i \in 1 .. c : F[i] = E[i]
  BY <1>1, <1>3, TakeSeq DEF Chained, Undone
<1> HIDE DEF c
<1>6. \A i \in 0 .. c : HashAt(F, i) = HashAt(E, i)
  BY <1>3, <1>5 DEF HashAt
<1>7. Chained(F, Last(S).head)
  <2>1. ASSUME NEW i \in 1 .. c
        PROVE  /\ F[i].prev = HashAt(F, i - 1)
               /\ F[i].hash = Digest(HashAt(F, i - 1), F[i].index, F[i].payload)
    <3>1. i \in 1 .. Len(E) /\ i - 1 \in 0 .. c
      BY <1>3, <1>4
    <3>2. E[i].prev = HashAt(E, i - 1) /\ E[i].hash = Digest(HashAt(E, i - 1), E[i].index, E[i].payload)
      BY <1>1, <3>1 DEF Chained, Verifies
    <3>3. QED
      BY <1>5, <1>6, <3>1, <3>2
  <2>2. HashAt(F, Len(F)) = Last(S).head
    BY <1>3, <1>5, <1>6
  <2>3. QED
    BY <1>5, <2>1, <2>2 DEF Chained, Verifies
<1>8. Marks(F, T)
  BY <1>2, <1>3, <1>5, <1>6 DEF Marks
<1>9. ASSUME NEW d \in 1 .. n - 1
      PROVE  /\ Prefix(C[d], F) /\ Len(C[d]) <= Found(F, T, R, d)
             /\ d \in G => Len(C[d]) = Found(F, T, R, d)
  <2>1. d \in 1 .. n
    BY <1>1
  <2>2. /\ C[d] = B[d] /\ Prefix(B[d], E) /\ Len(B[d]) \in Nat
        /\ Len(B[d]) <= Found(E, S, D, d) /\ (d \in A => Len(B[d]) = Found(E, S, D, d))
        /\ d \in G => d \in A
    BY <1>1, <2>1 DEF Keeps, Prefix, IsSeq, Retold
  <2>3. Below(R, d) = Below(D, d) /\ Below(D, d) \in Nat /\ Below(D, d) <= Len(S) - 1
    BY <1>2
  <2>4. Found(F, T, R, d) = Found(E, S, D, d) /\ Found(F, T, R, d) \in 0 .. c
    <3>1. CASE Below(D, d) < Len(S) - 1
      <4>1. Below(D, d) + 1 \in 1 .. Len(T)
        BY <1>2, <2>3, <3>1
      <4>2. T[Below(D, d) + 1] = S[Below(D, d) + 1] /\ T[Below(D, d) + 1].count \in 0 .. c
        BY <1>2, <1>3, <4>1
      <4>3. Below(R, d) < Len(T) /\ Below(D, d) < Len(S)
        BY <1>2, <2>3, <3>1
      <4>4. QED
        BY <2>3, <4>2, <4>3 DEF Found
    <3>2. CASE Below(D, d) = Len(S) - 1
      BY <1>2, <1>3, <1>4, <1>5, <2>3, <3>2 DEF Found
    <3>3. QED
      BY <1>2, <2>3, <3>1, <3>2
  <2>5. Len(B[d]) <= c
    BY <1>3, <1>4, <2>2, <2>4
  <2>6. Prefix(B[d], F)
    BY <1>3, <1>4, <1>5, <2>2, <2>5 DEF Prefix
  <2>7. QED
    BY <2>2, <2>4, <2>6
<1>10. Prefix(B[n], F) /\ (n \in A => F = B[n])
  <2>1. Found(E, S, D, n) = c
    BY <1>2, <1>3 DEF Found
  <2>2. Prefix(B[n], E) /\ Len(B[n]) \in Nat /\ Len(B[n]) <= c /\ (n \in A => Len(B[n]) = c)
    BY <1>1, <2>1 DEF Keeps, Prefix, IsSeq
  <2>3. Prefix(B[n], F)
    BY <1>3, <1>4, <1>5, <2>2 DEF Prefix
  <2>4. n \in A => F = B[n]
    BY <1>5, <2>2, <2>3, SameSeq DEF Prefix
  <2>5. QED
    BY <2>3, <2>4
<1>11. QED
  BY <1>2, <1>7, <1>8, <1>9, <1>10 DEF Good, Keeps

-----------------------------------------------------------------------------
(* The invariant. *)

Block == [kind : Kinds, enrolled : SUBSET Ledgers]

(* What each block found of a ledger, and the blocks that would put it     *)
(* back exactly.                                                           *)
Told(l)  == [d \in 1 .. Depth |-> before[d][l]]
Exact(l) == {d \in AtomicDepths : l \notin leaked[d]}

Shape ==
  /\ blocks \in Seq(Block) /\ IsSeq(before) /\ leaked \in Seq(SUBSET Ledgers)
  /\ Len(before) = Depth /\ Len(leaked) = Depth
  /\ DOMAIN entries = Ledgers /\ DOMAIN head = Ledgers /\ DOMAIN savepoints = Ledgers
  /\ entries = [l \in Ledgers |-> entries[l]]
  /\ head = [l \in Ledgers |-> head[l]]
  /\ savepoints = [l \in Ledgers |-> savepoints[l]]

Sound(l) ==
  Good(entries[l], head[l], savepoints[l], EnrolledIn(l), Depth, Told(l), Exact(l))

IInv == Shape /\ \A l \in Ledgers : Sound(l)

(* It says all that is claimed of a state.                                 *)
LEMMA SoundImplies ==
  ASSUME IInv
  PROVE  ChainsVerify /\ MarksNest
<1>1. ChainsVerify
  BY DEF IInv, Sound, Good, Chained, ChainsVerify
<1>2. SUFFICES ASSUME NEW l \in Ledgers
               PROVE  /\ \A d \in EnrolledIn(l) :
                           /\ Rank(EnrolledIn(l), d) <= Len(savepoints[l])
                           /\ savepoints[l][Rank(EnrolledIn(l), d)].count >= Len(before[d][l])
                      /\ EnrolledIn(l) = {} => savepoints[l] = <<>>
                      /\ \A i \in 1 .. Len(savepoints[l]) :
                           /\ savepoints[l][i].count <= Len(entries[l])
                           /\ savepoints[l][i].head = HashAt(entries[l], savepoints[l][i].count)
                           /\ i > 1 => savepoints[l][i - 1].count <= savepoints[l][i].count
  BY <1>1 DEF MarksNest
<1> DEFINE E == entries[l]
           S == savepoints[l]
           D == EnrolledIn(l)
<1>3. /\ Chained(E, head[l]) /\ Marks(E, S) /\ Within(D, Depth) /\ Cardinality(D) = Len(S)
      /\ Keeps(E, S, D, Depth, Told(l), Exact(l)) /\ Depth \in Nat
  BY DEF IInv, Sound, Good, Within
<1>4. Len(S) \in Nat /\ Len(E) \in Nat
  BY <1>3 DEF Marks, Chained, IsSeq
<1> HIDE DEF E, S, D
<1>5. ASSUME NEW d \in D
      PROVE  Rank(D, d) <= Len(S) /\ S[Rank(D, d)].count >= Len(before[d][l])
  <2>1. d \in 1 .. Depth /\ d \in Nat
    BY <1>3 DEF Within
  <2>2. /\ Below(D, d) \in Nat /\ Below(D, d) < Cardinality(D)
        /\ Rank(D, d) = Below(D, d) + 1
    BY <1>3, <2>1, BelowType
  <2>3. Len(Told(l)[d]) <= Found(E, S, D, d)
    BY <1>3, <2>1 DEF Keeps
  <2>4. Told(l)[d] = before[d][l]
    BY <2>1 DEF Told
  <2>5. Found(E, S, D, d) = S[Rank(D, d)].count
    BY <1>3, <2>2 DEF Found
  <2>6. Len(before[d][l]) \in Nat
    BY <1>3, <2>1, <2>4 DEF Keeps, Prefix, IsSeq
  <2>7. Rank(D, d) \in 1 .. Len(S)
    BY <1>3, <1>4, <2>2
  <2>8. S[Rank(D, d)].count \in Nat
    BY <1>3, <1>4, <2>7 DEF Marks
  <2>9. QED
    BY <2>3, <2>4, <2>5, <2>6, <2>7, <2>8
<1>6. D = {} => S = <<>>
  <2>1. ASSUME D = {}
        PROVE  Len(S) = 0
    BY <1>3, <2>1, FS_EmptySet
  <2>2. QED
    BY <1>3, <2>1 DEF Marks, IsSeq
<1>7. ASSUME NEW i \in 1 .. Len(S)
      PROVE  /\ S[i].count <= Len(E) /\ S[i].head = HashAt(E, S[i].count)
             /\ i > 1 => S[i - 1].count <= S[i].count
  <2>1. i > 1 => i - 1 \in 1 .. Len(S) /\ i - 1 <= i
    BY <1>4
  <2>2. QED
    BY <1>3, <1>4, <2>1 DEF Marks
<1>8. QED
  BY <1>5, <1>6, <1>7 DEF E, S, D

-----------------------------------------------------------------------------
(* What the steps have in common. *)

(* The innermost atomic block encloses no other.                           *)
LEMMA InnermostIs ==
  ASSUME Shape
  PROVE  /\ Innermost # 0 => Innermost \in AtomicDepths
         /\ \A d \in AtomicDepths : Innermost # 0 /\ d <= Innermost
<1>1. Depth \in Nat /\ AtomicDepths \subseteq 1 .. Depth
  BY DEF Shape, Depth, AtomicDepths
<1>2. CASE AtomicDepths = {}
  BY <1>2 DEF Innermost
<1>3. CASE AtomicDepths # {}
  <2>1. \E d \in AtomicDepths : \A other \in AtomicDepths : other <= d
    BY <1>1, <1>3, Greatest
  <2>2. Innermost \in AtomicDepths /\ \A other \in AtomicDepths : other <= Innermost
    BY <1>3, <2>1 DEF Innermost
  <2>3. QED
    BY <1>1, <2>2
<1>4. QED
  BY <1>2, <1>3

LEMMA Enrolled ==
  ASSUME Shape, NEW l \in Ledgers
  PROVE  /\ Depth \in Nat /\ EnrolledIn(l) \subseteq AtomicDepths /\ AtomicDepths \subseteq 1 .. Depth
         /\ Depth > 0 => Top = blocks[Depth]
         /\ Depth > 0 => (Depth \in EnrolledIn(l) <=> Top.kind = "atomic" /\ l \in Top.enrolled)
         /\ Exact(l) \subseteq AtomicDepths
BY DEF Shape, Depth, EnrolledIn, AtomicDepths, Top, Last, Exact

(* A block is gone.                                                        *)
LEMMA Closing ==
  ASSUME Shape, Depth > 0, Close
  PROVE  /\ Depth' = Depth - 1 /\ blocks' \in Seq(Block)
         /\ IsSeq(before') /\ Len(before') = Depth - 1
         /\ \A d \in 1 .. Depth - 1 : blocks'[d] = blocks[d] /\ before'[d] = before[d]
         /\ AtomicDepths' = AtomicDepths \ {Depth}
         /\ \A l \in Ledgers : EnrolledIn(l)' = EnrolledIn(l) \ {Depth}
<1>1. blocks \in Seq(Block) /\ Depth = Len(blocks) /\ Depth \in Nat /\ blocks' = Front(blocks)
  BY DEF Shape, Depth, Close
<1>2. /\ blocks' \in Seq(Block) /\ Len(blocks') = Depth - 1
      /\ \A d \in 1 .. Depth - 1 : blocks'[d] = blocks[d]
  BY <1>1 DEF Front
<1>3. /\ IsSeq(before') /\ Len(before') = Depth - 1
      /\ \A d \in 1 .. Depth - 1 : before'[d] = before[d]
  <2>1. IsSeq(before) /\ Len(before) = Depth /\ before' = Front(before)
    BY DEF Shape, Close
  <2>2. QED
    BY <1>1, <2>1, FrontSeq
<1>4. Depth' = Depth - 1
  BY <1>2 DEF Depth
<1>5. AtomicDepths' = AtomicDepths \ {Depth}
  BY <1>1, <1>2, <1>4 DEF AtomicDepths
<1>6. ASSUME NEW l \in Ledgers
      PROVE  EnrolledIn(l)' = EnrolledIn(l) \ {Depth}
  <2>1. AtomicDepths' \subseteq 1 .. Depth - 1
    BY <1>1, <1>5 DEF AtomicDepths
  <2>2. \A d \in AtomicDepths' : blocks'[d] = blocks[d]
    BY <1>2, <2>1
  <2>3. QED
    BY <1>5, <2>2 DEF EnrolledIn
<1>7. QED
  BY <1>2, <1>3, <1>4, <1>5, <1>6

(* The blocks still open found what they had found.                        *)
LEMMA ClosingTold ==
  ASSUME Shape, Depth > 0, Close, NEW l \in Ledgers,
         \A d \in 1 .. Depth - 1 : leaked[d] \subseteq leaked'[d]
  PROVE  Retold(Told(l)', Exact(l)', Told(l), Exact(l), Depth - 1)
<1>1. Depth' = Depth - 1 /\ Depth \in Nat
  BY Closing DEF Shape, Depth
<1>2. SUFFICES ASSUME NEW d \in 1 .. Depth - 1
               PROVE  Told(l)'[d] = Told(l)[d] /\ (d \in Exact(l)' => d \in Exact(l))
  BY DEF Retold
<1>3. d \in 1 .. Depth /\ d \in 1 .. Depth'
  BY <1>1, <1>2
<1>4. Told(l)'[d] = before'[d][l] /\ Told(l)[d] = before[d][l]
  BY <1>3 DEF Told
<1>5. before'[d] = before[d] /\ AtomicDepths' = AtomicDepths \ {Depth}
  BY <1>2, Closing
<1>6. QED
  BY <1>2, <1>4, <1>5 DEF Exact

(* A block is gone that had not enrolled the ledger.                       *)
LEMMA ClosingKeeps ==
  ASSUME Shape, Depth > 0, Close, NEW l \in Ledgers, Sound(l),
         entries'[l] = entries[l], head'[l] = head[l], savepoints'[l] = savepoints[l],
         \A d \in 1 .. Depth - 1 : leaked[d] \subseteq leaked'[d],
         ~(Top.kind = "atomic" /\ l \in Top.enrolled)
  PROVE  Sound(l)'
<1>1. Depth' = Depth - 1 /\ EnrolledIn(l)' = EnrolledIn(l) \ {Depth}
  BY Closing
<1>2. Depth \notin EnrolledIn(l)
  BY Enrolled
<1>3. EnrolledIn(l)' = EnrolledIn(l)
  BY <1>1, <1>2
<1>4. Retold(Told(l)', Exact(l)', Told(l), Exact(l), Depth - 1)
  BY ClosingTold
<1>5. Good(entries[l], head[l], savepoints[l], EnrolledIn(l), Depth - 1, Told(l)', Exact(l)')
  BY <1>2, <1>4, GoodLeave DEF Sound
<1>6. QED
  BY <1>1, <1>3, <1>5 DEF Sound

-----------------------------------------------------------------------------
(* Every step keeps the invariant. *)

LEMMA InitIInv ==
  ASSUME Init
  PROVE  IInv
<1>1. Depth = 0 /\ AtomicDepths = {}
  BY DEF Init, Depth, AtomicDepths
<1>2. IsSeq(<<>>) /\ Len(<<>>) = 0
  BY DEF IsSeq
<1>3. Shape
  BY <1>1, <1>2 DEF Init, Shape
<1>4. ASSUME NEW l \in Ledgers
      PROVE  Sound(l)
  <2>1. entries[l] = <<>> /\ head[l] = Zero /\ savepoints[l] = <<>> /\ EnrolledIn(l) = {}
    BY <1>1 DEF Init, EnrolledIn
  <2>2. Chained(<<>>, Zero) /\ Marks(<<>>, <<>>)
    BY <1>2 DEF Chained, Verifies, HashAt, Marks
  <2>3. Cardinality({}) = 0 /\ Within({}, 0)
    BY FS_EmptySet DEF Within
  <2>4. Keeps(<<>>, <<>>, {}, 0, Told(l), Exact(l))
    BY DEF Keeps
  <2>5. QED
    BY <1>1, <1>2, <2>1, <2>2, <2>3, <2>4 DEF Sound, Good
<1>5. QED
  BY <1>3, <1>4 DEF IInv

(* A step that touches neither ledgers nor blocks.                         *)
LEMMA IdleStep ==
  ASSUME IInv, UNCHANGED <<entries, head, savepoints, blocks, before, leaked>>
  PROVE  IInv'
BY DEF IInv, Shape, Sound, Told, Exact, EnrolledIn, AtomicDepths, Depth

LEMMA EnterStep ==
  ASSUME IInv, NEW kind \in Kinds, Enter(kind)
  PROVE  IInv'
<1> DEFINE block == [kind |-> kind, enrolled |-> {}]
<1>1. /\ Shape /\ Depth \in Nat /\ block \in Block
      /\ UNCHANGED <<entries, head, savepoints>>
      /\ blocks' = Append(blocks, block) /\ before' = Append(before, entries)
      /\ leaked' = Append(leaked, {})
  BY DEF IInv, Shape, Depth, Enter, Block
<1>2. /\ blocks' \in Seq(Block) /\ Depth' = Depth + 1 /\ blocks'[Depth + 1] = block
      /\ \A d \in 1 .. Depth : blocks'[d] = blocks[d]
  BY <1>1 DEF Shape, Depth
<1>3. /\ IsSeq(before') /\ Len(before') = Depth + 1 /\ before'[Depth + 1] = entries
      /\ \A d \in 1 .. Depth : before'[d] = before[d]
  BY <1>1, AppendSeq DEF Shape
<1>4. /\ leaked' \in Seq(SUBSET Ledgers) /\ Len(leaked') = Depth + 1
      /\ \A d \in 1 .. Depth : leaked'[d] = leaked[d]
  BY <1>1 DEF Shape, Depth
<1>5. Shape'
  BY <1>1, <1>2, <1>3, <1>4 DEF Shape
<1>6. ASSUME NEW l \in Ledgers
      PROVE  Sound(l)'
  <2>1. EnrolledIn(l)' = EnrolledIn(l)
    <3>1. block.enrolled = {}
      OBVIOUS
    <3> HIDE DEF block
    <3>2. QED
      <4>1. \A d \in 1 .. Depth + 1 : d \in 1 .. Depth \/ d = Depth + 1
        BY <1>1
      <4>2. \A d \in 1 .. Depth : d \in 1 .. Depth + 1
        BY <1>1
      <4>3. QED
        BY <1>2, <3>1, <4>1, <4>2 DEF EnrolledIn, AtomicDepths
  <2>2. Told(l)'[Depth + 1] = entries[l]
    BY <1>1, <1>2, <1>3 DEF Told
  <2>3. Retold(Told(l)', Exact(l)', Told(l), Exact(l), Depth)
    <3>1. SUFFICES ASSUME NEW d \in 1 .. Depth
                   PROVE  Told(l)'[d] = Told(l)[d] /\ (d \in Exact(l)' => d \in Exact(l))
      BY DEF Retold
    <3>2. d \in 1 .. Depth'
      BY <1>1, <1>2
    <3>3. Told(l)'[d] = before'[d][l] /\ Told(l)[d] = before[d][l]
      BY <3>2 DEF Told
    <3>4. d \in AtomicDepths' => d \in AtomicDepths
      BY <1>2 DEF AtomicDepths
    <3>5. QED
      BY <1>3, <1>4, <3>3, <3>4 DEF Exact
  <2>4. Good(entries[l], head[l], savepoints[l], EnrolledIn(l), Depth, Told(l), Exact(l))
    BY DEF IInv, Sound
  <2>5. Good(entries[l], head[l], savepoints[l], EnrolledIn(l), Depth + 1, Told(l)', Exact(l)')
    BY <2>2, <2>3, <2>4, GoodEnter
  <2>6. QED
    BY <1>1, <1>2, <2>1, <2>5 DEF Sound
<1>7. QED
  BY <1>5, <1>6 DEF IInv

(* An append: the other ledgers do not see it.                             *)
LEMMA AppendStep ==
  ASSUME IInv, NEW l \in Ledgers, NEW p \in Payloads, AppendTo(l, p)
  PROVE  IInv'
<1> DEFINE e == Entry(head[l], Len(entries[l]), p)
           mark == [count |-> Len(entries[l]), head |-> head[l]]
<1>1. /\ Shape /\ UNCHANGED <<before, leaked>>
      /\ entries' = [entries EXCEPT ![l] = Append(@, e)]
      /\ head' = [head EXCEPT ![l] = e.hash]
  BY DEF IInv, AppendTo
<1>2. /\ entries'[l] = Append(entries[l], e) /\ head'[l] = e.hash
      /\ \A k \in Ledgers : k # l => entries'[k] = entries[k] /\ head'[k] = head[k]
      /\ entries' = [k \in Ledgers |-> entries'[k]] /\ DOMAIN entries' = Ledgers
      /\ head' = [k \in Ledgers |-> head'[k]] /\ DOMAIN head' = Ledgers
  <2> HIDE DEF e
  <2>1. QED
    BY <1>1 DEF Shape
<1>3. \A k \in Ledgers : Sound(k)
  BY DEF IInv
<1>4. CASE ~Enrolls(l)
  <2>1. UNCHANGED <<savepoints, blocks>>
    BY <1>4 DEF AppendTo
  <2>2. Shape'
    BY <1>1, <1>2, <2>1 DEF Shape, Depth
  <2>3. /\ Depth' = Depth /\ AtomicDepths' = AtomicDepths
        /\ \A k \in Ledgers : /\ EnrolledIn(k)' = EnrolledIn(k)
                              /\ Told(k)' = Told(k) /\ Exact(k)' = Exact(k)
    BY <1>1, <2>1 DEF Depth, AtomicDepths, EnrolledIn, Told, Exact
  <2>4. ASSUME NEW k \in Ledgers, k # l
        PROVE  Sound(k)'
    BY <1>2, <1>3, <2>1, <2>3, <2>4 DEF Sound
  <2>5. Sound(l)'
    <3>1. \A d \in Exact(l) : \E m \in EnrolledIn(l) : d <= m
      <4>1. SUFFICES ASSUME NEW d \in Exact(l)
                     PROVE  \E m \in EnrolledIn(l) : d <= m
        OBVIOUS
      <4>2. d \in AtomicDepths
        BY DEF Exact
      <4>3. Innermost # 0 /\ d <= Innermost /\ Innermost \in AtomicDepths
        BY <1>1, <4>2, InnermostIs
      <4>4. Innermost \in EnrolledIn(l)
        BY <1>4, <4>3 DEF Enrolls, EnrolledIn
      <4>5. QED
        BY <4>3, <4>4
    <3>2. Good(entries[l], head[l], savepoints[l], EnrolledIn(l), Depth, Told(l), Exact(l))
      BY <1>3 DEF Sound
    <3> HIDE DEF e
    <3>3. Good(entries'[l], e.hash, savepoints[l], EnrolledIn(l), Depth, Told(l), Exact(l))
      BY <1>2, <3>1, <3>2, GoodAppend DEF e
    <3>4. QED
      BY <1>2, <2>1, <2>3, <3>3 DEF Sound
  <2>6. QED
    BY <2>2, <2>4, <2>5 DEF IInv
<1>5. CASE Enrolls(l)
  <2> DEFINE m == Innermost
  <2>1. /\ savepoints' = [savepoints EXCEPT ![l] = Append(@, mark)]
        /\ blocks' = [blocks EXCEPT ![Innermost].enrolled = @ \cup {l}]
    BY <1>5 DEF AppendTo
  <2>2. m \in AtomicDepths /\ m \in 1 .. Depth /\ l \notin blocks[m].enrolled
        /\ \A d \in AtomicDepths : d <= m
    <3>1. m # 0 /\ l \notin blocks[m].enrolled
      BY <1>5 DEF Enrolls
    <3>2. QED
      BY <1>1, <3>1, InnermostIs DEF AtomicDepths
  <2> HIDE DEF m, mark, e
  <2>3. /\ savepoints'[l] = Append(savepoints[l], mark)
        /\ \A k \in Ledgers : k # l => savepoints'[k] = savepoints[k]
        /\ savepoints' = [k \in Ledgers |-> savepoints'[k]] /\ DOMAIN savepoints' = Ledgers
    BY <1>1, <2>1 DEF Shape
  <2>4. /\ blocks \in Seq(Block) /\ Depth = Len(blocks) /\ Depth \in Nat
        /\ blocks' = [blocks EXCEPT ![m].enrolled = @ \cup {l}]
    BY <1>1, <2>1 DEF Shape, Depth, m
  <2>5. /\ blocks' \in Seq(Block) /\ Len(blocks') = Depth
        /\ \A d \in 1 .. Depth :
             /\ blocks'[d].kind = blocks[d].kind
             /\ blocks'[d].enrolled = IF d = m THEN blocks[d].enrolled \cup {l}
                                      ELSE blocks[d].enrolled
    <3> DEFINE b == [blocks[m] EXCEPT !.enrolled = @ \cup {l}]
    <3>1. b \in Block /\ b.kind = blocks[m].kind /\ b.enrolled = blocks[m].enrolled \cup {l}
      <4>1. blocks[m] \in Block
        BY <2>2, <2>4
      <4>2. QED
        BY <4>1 DEF Block
    <3>2. blocks' = [blocks EXCEPT ![m] = b]
      BY <2>4
    <3> HIDE DEF b
    <3>3. blocks \in Seq(Block) /\ Depth = Len(blocks) /\ Depth \in Nat
      BY <2>4
    <3>4. blocks' \in Seq(Block) /\ Len(blocks') = Depth
      BY <2>2, <3>1, <3>2, <3>3
    <3>5. \A d \in 1 .. Depth : blocks'[d] = IF d = m THEN b ELSE blocks[d]
      BY <2>2, <3>2, <3>3
    <3>6. QED
      BY <3>1, <3>4, <3>5
  <2>6. Depth' = Depth /\ AtomicDepths' = AtomicDepths
    BY <2>5 DEF Depth, AtomicDepths
  <2>7. Shape'
    BY <1>1, <1>2, <2>3, <2>5, <2>6 DEF Shape
  <2>8. \A k \in Ledgers : Told(k)' = Told(k) /\ Exact(k)' = Exact(k)
    BY <1>1, <2>6 DEF Told, Exact
  <2>9. \A k \in Ledgers : k # l => EnrolledIn(k)' = EnrolledIn(k)
    BY <2>5, <2>6 DEF EnrolledIn, AtomicDepths
  <2>10. Adds(EnrolledIn(l)', EnrolledIn(l), m)
    <3>1. m \notin EnrolledIn(l)
      BY <2>2 DEF EnrolledIn
    <3>2. \A d \in AtomicDepths : d \in 1 .. Depth
      BY DEF AtomicDepths
    <3>3. EnrolledIn(l)' = EnrolledIn(l) \cup {m}
      BY <2>2, <2>5, <2>6, <3>2 DEF EnrolledIn
    <3>4. \A d \in EnrolledIn(l) : d <= m /\ d # m /\ d \in 1 .. Depth
      BY <2>2, <3>1, <3>2 DEF EnrolledIn
    <3>5. QED
      BY <2>2, <3>1, <3>3, <3>4 DEF Adds
  <2>11. ASSUME NEW k \in Ledgers, k # l
         PROVE  Sound(k)'
    BY <1>2, <1>3, <2>3, <2>6, <2>8, <2>9, <2>11 DEF Sound
  <2>12. Sound(l)'
    <3>1. \A d \in Exact(l) : d <= m
      BY <2>2 DEF Exact
    <3>2. Good(entries[l], head[l], savepoints[l], EnrolledIn(l), Depth, Told(l), Exact(l))
      BY <1>3 DEF Sound
    <3>3. mark.count = Len(entries[l]) /\ mark.head = head[l]
      BY DEF mark
    <3>4. Good(entries'[l], e.hash, savepoints'[l], EnrolledIn(l)', Depth, Told(l), Exact(l))
      <4>1. /\ entries'[l] = Append(entries[l], e) /\ e = Entry(head[l], Len(entries[l]), p)
            /\ savepoints'[l] = Append(savepoints[l], mark) /\ m \in 1 .. Depth
        BY <1>2, <2>2, <2>3 DEF e
      <4>2. QED
        BY <2>10, <3>1, <3>2, <3>3, <4>1, GoodEnroll
    <3>5. QED
      BY <1>2, <2>6, <2>8, <3>4 DEF Sound
  <2>13. QED
    BY <2>7, <2>11, <2>12 DEF IInv
<1>6. QED
  BY <1>4, <1>5

(* The ledgers and the marks keep their shape, whatever is in them.        *)
LEMMA ClosingShape ==
  ASSUME Shape, Depth > 0, Close, leaked' \in Seq(SUBSET Ledgers), Len(leaked') = Depth - 1,
         DOMAIN entries' = Ledgers, entries' = [l \in Ledgers |-> entries'[l]],
         DOMAIN head' = Ledgers, head' = [l \in Ledgers |-> head'[l]],
         DOMAIN savepoints' = Ledgers, savepoints' = [l \in Ledgers |-> savepoints'[l]]
  PROVE  Shape'
BY Closing DEF Shape

LEMMA FrontLeaked ==
  ASSUME Shape, Depth > 0, leaked' = Front(leaked)
  PROVE  /\ leaked' \in Seq(SUBSET Ledgers) /\ Len(leaked') = Depth - 1
         /\ \A d \in 1 .. Depth - 1 : leaked[d] \subseteq leaked'[d]
<1>1. leaked \in Seq(SUBSET Ledgers) /\ Len(leaked) = Depth /\ Depth \in Nat
  BY DEF Shape, Depth
<1>2. QED
  BY <1>1 DEF Front

(* A block of another kind is gone.                                        *)
LEMMA LeaveBlock ==
  ASSUME IInv, Depth > 0, Top.kind # "atomic", Close, leaked' = Front(leaked),
         UNCHANGED <<entries, head, savepoints>>
  PROVE  IInv'
<1>1. Shape /\ \A l \in Ledgers : Sound(l)
  BY DEF IInv
<1>2. Shape'
  <2>1. leaked' \in Seq(SUBSET Ledgers) /\ Len(leaked') = Depth - 1
    BY <1>1, FrontLeaked
  <2>2. /\ DOMAIN entries' = Ledgers /\ entries' = [l \in Ledgers |-> entries'[l]]
        /\ DOMAIN head' = Ledgers /\ head' = [l \in Ledgers |-> head'[l]]
        /\ DOMAIN savepoints' = Ledgers /\ savepoints' = [l \in Ledgers |-> savepoints'[l]]
    BY <1>1 DEF Shape
  <2>3. QED
    BY <1>1, <2>1, <2>2, ClosingShape
<1>3. ASSUME NEW l \in Ledgers
      PROVE  Sound(l)'
  <2>1. \A d \in 1 .. Depth - 1 : leaked[d] \subseteq leaked'[d]
    BY <1>1, FrontLeaked
  <2>2. entries'[l] = entries[l] /\ head'[l] = head[l] /\ savepoints'[l] = savepoints[l]
    OBVIOUS
  <2>3. QED
    BY <1>1, <2>1, <2>2, ClosingKeeps
<1>4. QED
  BY <1>2, <1>3 DEF IInv

LEMMA UnwindStep ==
  ASSUME IInv, Unwind
  PROVE  IInv'
<1>1. CASE Stays(Top.kind, raised)
  BY <1>1, IdleStep DEF Unwind
<1>2. CASE ~Stays(Top.kind, raised)
  BY <1>2, LeaveBlock DEF Unwind
<1>3. QED
  BY <1>1, <1>2

(* A ledger the innermost block enrolled has a mark to drop.               *)
LEMMA MarkIsThere ==
  ASSUME IInv, Depth > 0, Top.kind = "atomic", Close, Unmark, NEW l \in Ledgers
  PROVE  /\ l \in Top.enrolled => /\ Drops(EnrolledIn(l)', EnrolledIn(l), Depth)
                                  /\ savepoints'[l] = Front(savepoints[l])
                                  /\ savepoints[l] # <<>>
         /\ l \notin Top.enrolled => savepoints'[l] = savepoints[l]
<1>1. savepoints'[l] = IF l \in Top.enrolled THEN Front(savepoints[l]) ELSE savepoints[l]
  BY DEF Unmark
<1>2. CASE l \notin Top.enrolled
  BY <1>1, <1>2
<1>3. CASE l \in Top.enrolled
  <2>1. Depth \in EnrolledIn(l)
    BY <1>3, Enrolled DEF IInv
  <2>2. EnrolledIn(l)' = EnrolledIn(l) \ {Depth}
    BY Closing DEF IInv
  <2>3. Drops(EnrolledIn(l)', EnrolledIn(l), Depth)
    BY <2>1, <2>2 DEF Drops
  <2>4. Len(savepoints[l]) > 0
    BY <2>3, MarkDropped DEF IInv, Sound
  <2>5. QED
    BY <1>1, <1>3, <2>3, <2>4
<1>4. QED
  BY <1>2, <1>3

LEMMA CommitStep ==
  ASSUME IInv, Commit
  PROVE  IInv'
<1>1. /\ Shape /\ Depth > 0 /\ Top.kind = "atomic" /\ Close /\ Unmark
      /\ UNCHANGED <<entries, head>> /\ Depth \in Nat
      /\ leaked' = [d \in 1 .. Depth - 1 |->
                      leaked[d] \cup (Top.enrolled \ blocks[d].enrolled)]
  BY DEF IInv, Shape, Depth, Commit
<1>2. Top.enrolled \subseteq Ledgers
  <2>1. Top = blocks[Depth] /\ Depth \in 1 .. Len(blocks) /\ blocks \in Seq(Block)
    BY <1>1 DEF Shape, Depth, Top, Last
  <2>2. Top \in Block
    BY <2>1
  <2>3. QED
    BY <2>2 DEF Block
<1>3. /\ leaked' \in Seq(SUBSET Ledgers) /\ Len(leaked') = Depth - 1
      /\ \A d \in 1 .. Depth - 1 : leaked[d] \subseteq leaked'[d]
  <2>1. \A d \in 1 .. Depth - 1 : leaked[d] \in SUBSET Ledgers
    BY <1>1 DEF Shape
  <2>2. \A d \in 1 .. Depth - 1 : leaked[d] \cup (Top.enrolled \ blocks[d].enrolled) \in SUBSET Ledgers
    BY <1>2, <2>1
  <2>3. Depth - 1 \in Nat
    BY <1>1
  <2>4. QED
    BY <1>1, <2>2, <2>3
<1>4. Shape'
  <2>1. /\ DOMAIN entries' = Ledgers /\ entries' = [l \in Ledgers |-> entries'[l]]
        /\ DOMAIN head' = Ledgers /\ head' = [l \in Ledgers |-> head'[l]]
    BY <1>1 DEF Shape
  <2>2. DOMAIN savepoints' = Ledgers /\ savepoints' = [l \in Ledgers |-> savepoints'[l]]
    BY <1>1 DEF Unmark
  <2>3. QED
    BY <1>1, <1>3, <2>1, <2>2, ClosingShape
<1>5. ASSUME NEW l \in Ledgers
      PROVE  Sound(l)'
  <2>1. Sound(l) /\ entries'[l] = entries[l] /\ head'[l] = head[l]
    BY <1>1 DEF IInv
  <2>2. CASE l \notin Top.enrolled
    <3>1. savepoints'[l] = savepoints[l]
      BY <1>1, <2>2, MarkIsThere
    <3>2. QED
      BY <1>1, <1>3, <2>1, <2>2, <3>1, ClosingKeeps
  <2>3. CASE l \in Top.enrolled
    <3>1. /\ Drops(EnrolledIn(l)', EnrolledIn(l), Depth)
          /\ savepoints'[l] = Front(savepoints[l])
      BY <1>1, <2>3, MarkIsThere
    <3>2. Retold(Told(l)', Exact(l)', Told(l), Exact(l), Depth - 1)
      BY <1>1, <1>3, ClosingTold
    <3>3. \A d \in Exact(l)' : d \in 1 .. Depth - 1 => d \in EnrolledIn(l)
      <4>1. SUFFICES ASSUME NEW d \in 1 .. Depth - 1, d \in Exact(l)'
                     PROVE  d \in EnrolledIn(l)
        OBVIOUS
      <4>2. d \in AtomicDepths /\ l \notin leaked'[d]
        BY <1>1, <4>1, Closing DEF Exact
      <4>3. l \in blocks[d].enrolled
        BY <1>1, <2>3, <4>2
      <4>4. QED
        BY <4>2, <4>3 DEF EnrolledIn
    <3>4. Good(entries[l], head[l], savepoints[l], EnrolledIn(l), Depth, Told(l), Exact(l))
      BY <2>1 DEF Sound
    <3>5. Good(entries[l], head[l], savepoints'[l], EnrolledIn(l)', Depth - 1, Told(l)', Exact(l)')
      BY <3>1, <3>2, <3>3, <3>4, GoodCommit
    <3>6. Depth' = Depth - 1
      BY <1>1, Closing
    <3>7. QED
      BY <2>1, <3>5, <3>6 DEF Sound
  <2>4. QED
    BY <2>2, <2>3
<1>6. QED
  BY <1>4, <1>5 DEF IInv

-----------------------------------------------------------------------------
(* A block undone: what becomes of one ledger.                             *)
LEMMA AbortLedger ==
  ASSUME IInv, Abort, NEW l \in Ledgers
  PROVE  /\ Sound(l)' /\ Prefix(before[Depth][l], entries'[l])
         /\ l \notin leaked[Depth] => entries'[l] = before[Depth][l]
<1>1. /\ Shape /\ Depth > 0 /\ Top.kind = "atomic" /\ Close /\ Unmark /\ Depth \in Nat
      /\ leaked' = Front(leaked)
      /\ entries'[l] = IF l \in Marked THEN SubSeq(entries[l], 1, Last(savepoints[l]).count)
                       ELSE entries[l]
      /\ head'[l] = IF l \in Marked THEN Last(savepoints[l]).head ELSE head[l]
  BY DEF IInv, Shape, Depth, Abort
<1>2. \A d \in 1 .. Depth - 1 : leaked[d] \subseteq leaked'[d]
  BY <1>1, FrontLeaked
<1>3. Sound(l) /\ Depth' = Depth - 1
  BY <1>1, Closing DEF IInv
<1>4. Good(entries[l], head[l], savepoints[l], EnrolledIn(l), Depth, Told(l), Exact(l))
  BY <1>3 DEF Sound
<1>5. Told(l)[Depth] = before[Depth][l] /\ (l \notin leaked[Depth] => Depth \in Exact(l))
  <2>1. Depth \in 1 .. Depth /\ blocks[Depth].kind = "atomic"
    BY <1>1, Enrolled
  <2>2. QED
    BY <2>1 DEF Told, Exact, AtomicDepths
<1>6. CASE l \notin Top.enrolled
  <2>1. entries'[l] = entries[l] /\ head'[l] = head[l] /\ savepoints'[l] = savepoints[l]
    <3>1. l \notin Marked
      BY <1>6 DEF Marked
    <3>2. savepoints'[l] = savepoints[l]
      BY <1>1, <1>6, MarkIsThere
    <3>3. QED
      BY <1>1, <3>1, <3>2
  <2>2. Sound(l)'
    BY <1>1, <1>2, <1>3, <1>6, <2>1, ClosingKeeps
  <2>3. /\ Prefix(Told(l)[Depth], entries[l])
        /\ Depth \in Exact(l) => Len(Told(l)[Depth]) = Len(entries[l])
    <3> DEFINE D == EnrolledIn(l)
               S == savepoints[l]
    <3>1. /\ Within(D, Depth) /\ Cardinality(D) = Len(S) /\ Depth \notin D
          /\ Keeps(entries[l], S, D, Depth, Told(l), Exact(l))
      BY <1>1, <1>4, <1>6, Enrolled DEF Good
    <3> HIDE DEF D, S
    <3>2. \A o \in D : o < Depth
      BY <1>1, <3>1 DEF Within
    <3>3. Below(D, Depth) = Len(S) /\ Len(S) \in Nat
      BY <1>1, <3>1, <3>2, BelowType
    <3>4. Found(entries[l], S, D, Depth) = Len(entries[l])
      BY <3>3 DEF Found
    <3>5. QED
      BY <1>1, <3>1, <3>4 DEF Keeps
  <2>4. ASSUME Depth \in Exact(l)
        PROVE  entries[l] = Told(l)[Depth]
    BY <1>4, <2>3, <2>4, SameSeq DEF Prefix, Good, Chained
  <2>5. QED
    BY <1>5, <2>1, <2>2, <2>3, <2>4
<1>7. CASE l \in Top.enrolled
  <2>1. /\ Drops(EnrolledIn(l)', EnrolledIn(l), Depth)
        /\ savepoints'[l] = Front(savepoints[l]) /\ l \in Marked
    BY <1>1, <1>7, MarkIsThere DEF Marked
  <2>2. Retold(Told(l)', Exact(l)', Told(l), Exact(l), Depth - 1)
    BY <1>1, <1>2, ClosingTold
  <2>3. entries'[l] = SubSeq(entries[l], 1, Last(savepoints[l]).count) /\ head'[l] = Last(savepoints[l]).head
    BY <1>1, <2>1
  <2>4. /\ Good(entries'[l], Last(savepoints[l]).head, savepoints'[l], EnrolledIn(l)',
                Depth - 1, Told(l)', Exact(l)')
        /\ Prefix(Told(l)[Depth], entries'[l])
        /\ Depth \in Exact(l) => entries'[l] = Told(l)[Depth]
    <3> DEFINE E == entries[l]
               h == head[l]
               S == savepoints[l]
               D == EnrolledIn(l)
               B == Told(l)
               A == Exact(l)
               C == Told(l)'
               G == Exact(l)'
               T == savepoints'[l]
               R == EnrolledIn(l)'
               F == entries'[l]
    <3>1. /\ Good(E, h, S, D, Depth, B, A) /\ Retold(C, G, B, A, Depth - 1)
          /\ T = Front(S) /\ Drops(R, D, Depth) /\ Undone(F, E, S)
      BY <1>4, <2>1, <2>2, <2>3 DEF Undone
    <3> HIDE DEF E, h, S, D, B, A, C, G, T, R, F
    <3>2. /\ Good(F, Last(S).head, T, R, Depth - 1, C, G)
          /\ Prefix(B[Depth], F) /\ (Depth \in A => F = B[Depth])
      BY <3>1, GoodAbort
    <3>3. QED
      BY <3>2 DEF E, h, S, D, B, A, C, G, T, R, F
  <2>5. QED
    BY <1>3, <1>5, <2>3, <2>4 DEF Sound
<1>8. QED
  BY <1>6, <1>7

LEMMA AbortStep ==
  ASSUME IInv, Abort
  PROVE  IInv'
<1>1. /\ Shape /\ Depth > 0 /\ Close /\ Unmark /\ leaked' = Front(leaked)
      /\ DOMAIN entries' = Ledgers /\ entries' = [l \in Ledgers |-> entries'[l]]
      /\ DOMAIN head' = Ledgers /\ head' = [l \in Ledgers |-> head'[l]]
  BY DEF IInv, Abort
<1>2. DOMAIN savepoints' = Ledgers /\ savepoints' = [l \in Ledgers |-> savepoints'[l]]
  BY <1>1 DEF Unmark
<1>3. leaked' \in Seq(SUBSET Ledgers) /\ Len(leaked') = Depth - 1
  BY <1>1, FrontLeaked
<1>4. Shape'
  BY <1>1, <1>2, <1>3, ClosingShape
<1>5. QED
  BY <1>4, AbortLedger DEF IInv

LEMMA NextStep ==
  ASSUME IInv, [Next]_vars
  PROVE  IInv'
<1>1. CASE \E kind \in Kinds : Enter(kind)
  BY <1>1, EnterStep
<1>2. CASE \E l \in Ledgers, p \in Payloads : AppendTo(l, p)
  BY <1>2, AppendStep
<1>3. CASE Commit
  BY <1>3, CommitStep
<1>4. CASE Leave
  BY <1>4, LeaveBlock DEF Leave
<1>5. CASE \E r \in Raised : Raise(r)
  BY <1>5, IdleStep DEF Raise
<1>6. CASE Abort
  BY <1>6, AbortStep
<1>7. CASE Unwind
  BY <1>7, UnwindStep
<1>8. CASE Report
  BY <1>8, IdleStep DEF Report
<1>9. CASE UNCHANGED vars
  BY <1>9, IdleStep DEF vars
<1>10. QED
  BY <1>1, <1>2, <1>3, <1>4, <1>5, <1>6, <1>7, <1>8, <1>9 DEF Next

THEOREM Invariant == Spec => []IInv
BY InitIInv, NextStep, PTL DEF Spec

-----------------------------------------------------------------------------
(* Ledger.verify never fails on a chain the program made: after any        *)
(* commits and rollbacks, nested as they may be, head and entries agree.   *)
THEOREM ChainsAlwaysVerify == Spec => []ChainsVerify
BY Invariant, SoundImplies, PTL

(* A block that ends, however it ends, drops its own mark and no other's.  *)
THEOREM MarksAlwaysNest == Spec => []MarksNest
BY Invariant, SoundImplies, PTL

(* Only a rollback takes an atomic block away while something is raised.   *)
LEMMA AbortingIsAbort ==
  ASSUME IInv, [Next]_vars, Aborting
  PROVE  /\ Abort /\ Depth \in Nat /\ Depth > 0
         /\ Last(before) = before[Depth] /\ Last(leaked) = leaked[Depth]
<1>1. Depth \in Nat /\ raised # "none" /\ Depth > 0 /\ Top.kind = "atomic" /\ Len(blocks') < Depth
  BY DEF IInv, Shape, Depth, Aborting
<1>2. ~UNCHANGED vars
  BY <1>1 DEF vars, Depth
<1>3. ASSUME raised = "none" \/ Top.kind # "atomic" \/ Depth = 0
      PROVE  FALSE
  BY <1>1, <1>3
<1>4. Abort
  <2>1. CASE \E kind \in Kinds : Enter(kind)
    BY <1>3, <2>1 DEF Enter
  <2>2. CASE \E l \in Ledgers, p \in Payloads : AppendTo(l, p)
    BY <1>3, <2>2 DEF AppendTo
  <2>3. CASE Commit \/ Leave
    BY <1>3, <2>3 DEF Commit, Leave
  <2>4. CASE \E r \in Raised : Raise(r)
    BY <1>3, <2>4 DEF Raise
  <2>5. CASE Unwind \/ Report
    BY <1>3, <2>5 DEF Unwind, Report
  <2>6. QED
    BY <1>2, <2>1, <2>2, <2>3, <2>4, <2>5 DEF Next
<1>5. QED
  BY <1>1, <1>4 DEF IInv, Shape, Last

(* An atomic block left early leaves no trace on any ledger, but for what  *)
(* a block inside it had committed to a ledger it had not touched itself.  *)
THEOREM AbortsRestore == Spec => AbortRestores
<1>1. ASSUME IInv, [Next]_vars
      PROVE  Aborting => \A l \in Ledgers \ Last(leaked) : entries'[l] = Last(before)[l]
  BY <1>1, AbortingIsAbort, AbortLedger
<1>2. QED
  BY <1>1, Invariant, PTL DEF Spec, AbortRestores

(* It never takes away what was there before it began.                     *)
THEOREM AbortsKeepOlder == Spec => AbortKeepsOlder
<1>1. ASSUME IInv, [Next]_vars
      PROVE  Aborting => \A l \in Ledgers : IsPrefix(Last(before)[l], entries'[l])
  <2> SUFFICES ASSUME Aborting, NEW l \in Ledgers
               PROVE  IsPrefix(Last(before)[l], entries'[l])
    OBVIOUS
  <2>1. Prefix(Last(before)[l], entries'[l]) /\ IsSeq(entries'[l])
    BY <1>1, AbortingIsAbort, AbortLedger DEF Sound, Good, Chained
  <2>2. QED
    BY <2>1, PrefixIsPrefix
<1>2. QED
  BY <1>1, Invariant, PTL DEF Spec, AbortKeepsOlder
=============================================================================
