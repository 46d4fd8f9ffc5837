---------------------------- MODULE Scopes_proofs ----------------------------
(***************************************************************************)
(* What is proved of Scopes, for every value of its constants.             *)
(*                                                                         *)
(* First, of the code alone: Shape, the invariant that Envs are nested,    *)
(* that each pooled frame is in one place of the pool with its parameters  *)
(* still in front, and that a cache is warm only with what a walk from its *)
(* Env would find.  It gives CachesFresh.                                  *)
(*                                                                         *)
(* Then, of the code and Lexical's scopes: IInv, which says that some T    *)
(* takes each Env to the scope it stands for now, and that some set F of   *)
(* Envs is firm: what a closure keeps is in F, and no Env of F is written  *)
(* over for another scope.  It needs ~RecordsInFrames: a record type may   *)
(* be declared in a frame, or in the scope of a loop, that is used again,  *)
(* and keeps it.  IInv gives HeldScopesKept, and that every step is a step *)
(* of Lexical or none.                                                     *)
(***************************************************************************)
EXTENDS Scopes, SequenceTheorems, FiniteSetTheorems, WellFoundedInduction, TLAPS

-----------------------------------------------------------------------------
(* Natural numbers and sequences. *)

(* What holds of 0, and of n + 1 when of n.                                *)
LEMMA AllNaturals ==
  ASSUME NEW N, 0 \in N, \A n \in Nat : n \in N => n + 1 \in N
  PROVE  Nat \subseteq N
<1> DEFINE Others == {n \in Nat : n \notin N}
           Less == OpToRel(<, Nat)
<1>1. SUFFICES ASSUME Others # {} PROVE FALSE
  BY DEF Others
<1>2. PICK m : m \in Others /\ \A n \in Others : m <= n
  <2>1. IsWellFoundedOn(Less, Nat)
    BY NatLessThanWellFounded
  <2>2. \A m, n \in Nat : m < n => <<m, n>> \in Less
    BY DEF OpToRel
  <2> HIDE DEF Less
  <2>3. PICK m \in Others : \A n \in Others : <<n, m>> \notin Less
    BY <1>1, <2>1, WFMin
  <2>4. \A n \in Others : ~ (n < m)
    BY <2>2, <2>3
  <2>5. \A n \in Others : m <= n
    BY <2>4
  <2>6. QED
    BY <2>5
<1>3. m \in Nat /\ m # 0 /\ m \notin N
  BY <1>2 DEF Others
<1>4. m - 1 \in Nat /\ (m - 1) + 1 = m /\ ~ (m <= m - 1)
  BY <1>3
<1>5. m - 1 \in N
  BY <1>2, <1>4 DEF Others
<1>6. QED
  BY <1>3, <1>4, <1>5

LEMMA TakeIs ==
  ASSUME NEW S, NEW s \in Seq(S), NEW n \in 0 .. Len(s)
  PROVE  /\ SubSeq(s, 1, n) \in Seq(S) /\ Len(SubSeq(s, 1, n)) = n
         /\ \A i \in 1 .. n : SubSeq(s, 1, n)[i] = s[i]
<1>1. Len(s) \in Nat /\ n \in Nat /\ \A i \in 1 .. n : s[i] \in S
  BY LenProperties, ElementOfSeq
<1>2. QED
  BY <1>1, SubSeqProperties

LEMMA RemoveAtIs ==
  ASSUME NEW S, NEW s \in Seq(S), NEW p \in 1 .. Len(s)
  PROVE  /\ RemoveAt(s, p) \in Seq(S) /\ Len(RemoveAt(s, p)) = Len(s) - 1
         /\ \A i \in 1 .. Len(s) - 1 : RemoveAt(s, p)[i] = IF i < p THEN s[i] ELSE s[i + 1]
<1> DEFINE u == SubSeq(s, 1, p - 1)
           v == SubSeq(s, p + 1, Len(s))
<1>1. Len(s) \in Nat /\ p \in Nat /\ p - 1 \in 0 .. Len(s) /\ \A i \in 1 .. Len(s) : s[i] \in S
  BY LenProperties, ElementOfSeq
<1>2. u \in Seq(S) /\ Len(u) = p - 1 /\ \A i \in 1 .. p - 1 : u[i] = s[i]
  BY <1>1, TakeIs
<1>3. v \in Seq(S) /\ Len(v) = Len(s) - p /\ \A i \in 1 .. Len(s) - p : v[i] = s[p + i]
  <2>1. \A i \in p + 1 .. Len(s) : i \in 1 .. Len(s)
    BY <1>1
  <2>2. /\ v \in Seq(S) /\ Len(v) = IF p + 1 <= Len(s) THEN Len(s) - (p + 1) + 1 ELSE 0
        /\ \A i \in 1 .. Len(s) - (p + 1) + 1 : v[i] = s[(p + 1) + i - 1]
    BY <1>1, <2>1, SubSeqProperties
  <2> HIDE DEF v
  <2>3. QED
    BY <1>1, <2>2
<1> HIDE DEF u, v
<1>4. u \o v \in Seq(S) /\ Len(u \o v) = Len(s) - 1
  <2>1. u \o v \in Seq(S) /\ Len(u \o v) = Len(u) + Len(v)
    BY <1>2, <1>3, ConcatProperties
  <2>2. QED
    BY <1>1, <1>2, <1>3, <2>1
<1>5. \A i \in 1 .. Len(s) - 1 : (u \o v)[i] = IF i <= p - 1 THEN u[i] ELSE v[i - (p - 1)]
  <2>1. \A i \in 1 .. Len(s) - 1 : i \in 1 .. Len(u) + Len(v)
    BY <1>1, <1>2, <1>3
  <2>2. QED
    BY <1>2, <1>3, <2>1, ConcatProperties
<1>6. ASSUME NEW i \in 1 .. Len(s) - 1 PROVE (u \o v)[i] = IF i < p THEN s[i] ELSE s[i + 1]
  <2>1. CASE i < p
    BY <1>1, <1>2, <1>5, <2>1
  <2>2. CASE ~ (i < p)
    <3>1. i - (p - 1) \in 1 .. Len(s) - p /\ p + (i - (p - 1)) = i + 1 /\ ~ (i <= p - 1)
      BY <1>1, <2>2
    <3>2. QED
      BY <1>3, <1>5, <2>2, <3>1
  <2>3. QED
    BY <2>1, <2>2
<1>7. RemoveAt(s, p) = u \o v
  BY DEF RemoveAt, u, v
<1>8. QED
  BY <1>4, <1>6, <1>7

-----------------------------------------------------------------------------
(* The Env class. *)

Shaped(e) ==
  e = [parent |-> e.parent, names |-> e.names, slots |-> e.slots, count |-> e.count,
       shared |-> e.shared, big |-> e.big, map |-> e.map]

IsEnv(e) ==
  /\ Shaped(e)
  /\ ~ e.big => /\ e.names \in Seq(Names) /\ e.slots \in Seq(Nat)
                /\ e.count \in Nat /\ e.count <= Len(e.names) /\ e.count <= Len(e.slots)
                /\ \A i, j \in 1 .. e.count : e.names[i] = e.names[j] => i = j

(* A frame still has the parameters where the call put them.               *)
HasParams(e, params) ==
  ~ e.big => Len(params) <= e.count /\ \A i \in 1 .. Len(params) : e.names[i] = params[i]

LEMMA OwnAt ==
  ASSUME NEW e, IsEnv(e), ~ e.big
  PROVE  /\ \A i \in 1 .. e.count : e.names[i] \in Held(e) /\ own(e, e.names[i]) = e.slots[i]
         /\ \A n \in Held(e) : \E i \in 1 .. e.count : n = e.names[i]
<1>1. \A i \in 1 .. e.count : PlaceOf(e, e.names[i]) = i
  BY DEF IsEnv, Shaped, PlaceOf, Places
<1>2. QED
  BY <1>1 DEF Held, own, Places

LEMMA NewIs ==
  ASSUME NEW p
  PROVE  IsEnv(Env(p)) /\ Held(Env(p)) = {} /\ Env(p).parent = p
<1>1. <<>> \in Seq(Names) /\ <<>> \in Seq(Nat) /\ Len(<<>>) = 0
  OBVIOUS
<1>2. QED
  BY <1>1 DEF IsEnv, Shaped, Env, Held, Places

LEMMA ViewIs ==
  ASSUME NEW e, IsEnv(e)
  PROVE  /\ IsEnv(vars_view(e)) /\ vars_view(e).big /\ vars_view(e).parent = e.parent
         /\ Held(vars_view(e)) = Held(e) /\ \A n \in Held(e) : own(vars_view(e), n) = own(e, n)
<1>1. vars_view(e) = [parent |-> e.parent, names |-> <<>>, slots |-> <<>>, count |-> 0,
                      shared |-> FALSE, big |-> TRUE, map |-> AsMap(e)]
  <2> DEFINE p == e.parent
             m == AsMap(e)
             yes == TRUE
             no == FALSE
             b == Env(p)
  <2>1. b = [parent |-> p, names |-> <<>>, slots |-> <<>>, count |-> 0,
             shared |-> no, big |-> no, map |-> <<>>]
    BY DEF Env
  <2>2. vars_view(e) = [b EXCEPT !.big = yes, !.map = m]
    BY DEF vars_view
  <2> HIDE DEF p, m, yes, no, b
  <2>3. vars_view(e) = [parent |-> p, names |-> <<>>, slots |-> <<>>, count |-> 0,
                        shared |-> no, big |-> yes, map |-> m]
    BY <2>1, <2>2
  <2>4. QED
    BY <2>3 DEF p, m, yes, no
<1>2. DOMAIN AsMap(e) = Held(e) /\ \A n \in Held(e) : AsMap(e)[n] = own(e, n)
  BY DEF AsMap
<1> DEFINE f == vars_view(e)
<1>3. f.parent = e.parent /\ f.big /\ f.map = AsMap(e) /\ IsEnv(f)
  BY <1>1 DEF IsEnv, Shaped
<1> HIDE DEF f
<1>4. Held(f) = DOMAIN f.map /\ \A n : own(f, n) = f.map[n]
  BY <1>3 DEF Held, own
<1>5. QED
  BY <1>2, <1>3, <1>4 DEF f

LEMMA ClearIs ==
  ASSUME NEW e, IsEnv(e)
  PROVE  IsEnv(clearVars(e)) /\ Held(clearVars(e)) = {} /\ clearVars(e).parent = e.parent
<1>1. CASE e.big
  <2>1. clearVars(e) = [parent |-> e.parent, names |-> e.names, slots |-> e.slots, count |-> e.count,
                        shared |-> e.shared, big |-> e.big, map |-> <<>>]
    BY <1>1 DEF clearVars, IsEnv, Shaped
  <2>2. QED
    BY <1>1, <2>1 DEF IsEnv, Shaped, Held
<1>2. CASE ~ e.big
  <2>1. clearVars(e) = [parent |-> e.parent, names |-> e.names, slots |-> e.slots, count |-> 0,
                        shared |-> e.shared, big |-> e.big, map |-> e.map]
    BY <1>2 DEF clearVars, IsEnv, Shaped
  <2>2. Len(e.names) \in Nat /\ Len(e.slots) \in Nat
    BY <1>2, LenProperties DEF IsEnv, Shaped
  <2>3. QED
    BY <1>2, <2>1, <2>2 DEF IsEnv, Shaped, Held, Places
<1>3. QED
  BY <1>1, <1>2


LEMMA OwnedIs ==
  ASSUME NEW e, IsEnv(e), ~ e.big
  PROVE  /\ Owned(e) \in Seq(Names) /\ e.count <= Len(Owned(e))
         /\ \A i \in 1 .. e.count : Owned(e)[i] = e.names[i]
<1>1. e.names \in Seq(Names) /\ e.count \in 0 .. Len(e.names)
  BY LenProperties DEF IsEnv, Shaped
<1>2. CASE e.shared
  BY <1>1, <1>2, TakeIs DEF Owned
<1>3. CASE ~ e.shared
  BY <1>1, <1>3 DEF Owned
<1>4. QED
  BY <1>2, <1>3

LEMMA StoreIs ==
  ASSUME NEW S, NEW s \in Seq(S), NEW i \in 1 .. Len(s) + 1, NEW x \in S
  PROVE  /\ Store(s, i, x) \in Seq(S) /\ Store(s, i, x)[i] = x
         /\ Len(s) <= Len(Store(s, i, x)) /\ i <= Len(Store(s, i, x))
         /\ \A j \in 1 .. Len(s) : j # i => Store(s, i, x)[j] = s[j]
<1>1. Len(s) \in Nat /\ DOMAIN s = 1 .. Len(s)
  BY LenProperties
<1>2. CASE i \in 1 .. Len(s)
  <2>1. Store(s, i, x) = [s EXCEPT ![i] = x]
    BY <1>1, <1>2 DEF Store
  <2>2. Len([s EXCEPT ![i] = x]) = Len(s) /\ [s EXCEPT ![i] = x] \in Seq(S)
    BY <1>1, <1>2, ExceptSeq
  <2>3. QED
    BY <1>1, <1>2, <2>1, <2>2
<1>3. CASE i = Len(s) + 1
  <2>1. Store(s, i, x) = Append(s, x)
    <3>1. i \notin DOMAIN s
      BY <1>1, <1>3
    <3>2. QED
      BY <3>1 DEF Store
  <2>2. QED
    BY <1>1, <1>3, <2>1, AppendProperties
<1>4. QED
  BY <1>1, <1>2, <1>3

(* A binding in a Map.                                                     *)
MapPuts(f, e, n, s) ==
  /\ Shaped(f) /\ f.parent = e.parent /\ f.big = e.big
  /\ DOMAIN f.map = DOMAIN e.map \cup {n} /\ f.map[n] = s
  /\ \A m \in DOMAIN e.map : m # n => f.map[m] = e.map[m]

LEMMA MapPut ==
  ASSUME NEW e, IsEnv(e), e.big, NEW n, NEW s, NEW f, MapPuts(f, e, n, s)
  PROVE  /\ IsEnv(f) /\ f.big /\ f.parent = e.parent
         /\ Held(f) = Held(e) \cup {n} /\ own(f, n) = s
         /\ \A m \in Held(e) \ {n} : own(f, m) = own(e, m)
<1>1. IsEnv(f)
  BY DEF IsEnv, MapPuts
<1>2. QED
  BY <1>1 DEF Held, own, MapPuts

(* A binding that is there already, in arrays.                             *)
LEMMA PlacePut ==
  ASSUME NEW e, IsEnv(e), ~ e.big, NEW n \in Held(e), NEW s \in Nat, NEW f,
         Shaped(f), f.parent = e.parent, f.names = Owned(e), f.count = e.count, f.big = e.big,
         f.slots = [e.slots EXCEPT ![PlaceOf(e, n)] = s]
  PROVE  /\ IsEnv(f) /\ f.parent = e.parent
         /\ Held(f) = Held(e) /\ own(f, n) = s
         /\ \A m \in Held(e) \ {n} : own(f, m) = own(e, m)
<1> DEFINE o == Owned(e)
           p == PlaceOf(e, n)
           v == [e.slots EXCEPT ![p] = s]
<1>2. PICK i \in 1 .. e.count : n = e.names[i]
  BY OwnAt
<1>3. p = i
  BY <1>2 DEF PlaceOf, Places, IsEnv
<1>4. o \in Seq(Names) /\ e.count <= Len(o) /\ \A j \in 1 .. e.count : o[j] = e.names[j]
  BY OwnedIs
<1>5. /\ v \in Seq(Nat) /\ Len(v) = Len(e.slots) /\ v[i] = s
      /\ \A j \in 1 .. e.count : j # i => v[j] = e.slots[j]
  <2>1. e.slots \in Seq(Nat) /\ Len(e.slots) \in Nat /\ i \in 1 .. Len(e.slots) /\ DOMAIN e.slots = 1 .. Len(e.slots)
    BY LenProperties DEF IsEnv
  <2>2. \A j \in 1 .. e.count : j \in 1 .. Len(e.slots)
    BY <2>1 DEF IsEnv
  <2>3. QED
    BY <1>3, <2>1, <2>2, ExceptSeq
<1>6. /\ f.parent = e.parent /\ f.names = o /\ f.slots = v /\ f.count = e.count /\ f.big = e.big
      /\ Shaped(f)
  OBVIOUS
<1> HIDE DEF o, v, p
<1>7. IsEnv(f)
  BY <1>4, <1>5, <1>6 DEF IsEnv
<1>8. Held(f) = Held(e)
  BY <1>4, <1>6 DEF Held, Places
<1>9. \A j \in 1 .. e.count : own(f, e.names[j]) = v[j] /\ own(e, e.names[j]) = e.slots[j]
  BY <1>4, <1>6, <1>7, OwnAt
<1>10. own(f, n) = s
  BY <1>2, <1>5, <1>9
<1>11. \A m \in Held(e) \ {n} : own(f, m) = own(e, m)
  BY <1>2, <1>5, <1>9, OwnAt
<1>12. QED
  BY <1>6, <1>7, <1>8, <1>10, <1>11

(* A binding that is new, in arrays.                                       *)
LEMMA EndPut ==
  ASSUME NEW e, IsEnv(e), ~ e.big, NEW n \in Names \ Held(e), NEW s \in Nat, NEW f,
         Shaped(f), f.parent = e.parent, f.names = Store(Owned(e), e.count + 1, n), f.big = e.big,
         f.slots = Store(e.slots, e.count + 1, s), f.count = e.count + 1
  PROVE  /\ IsEnv(f) /\ f.parent = e.parent
         /\ Held(f) = Held(e) \cup {n} /\ own(f, n) = s
         /\ \A m \in Held(e) \ {n} : own(f, m) = own(e, m)
         /\ \A params \in Seq(Names) : HasParams(e, params) => HasParams(f, params)
<1> DEFINE c == e.count + 1
           o == Store(Owned(e), c, n)
           v == Store(e.slots, c, s)
<1>2. e.count \in Nat /\ c \in Nat /\ \A i \in 1 .. c : i = c \/ i \in 1 .. e.count
  BY DEF IsEnv
<1>3. o \in Seq(Names) /\ c <= Len(o) /\ o[c] = n /\ \A j \in 1 .. e.count : o[j] = e.names[j]
  <2> DEFINE q == Owned(e)
  <2>1. q \in Seq(Names) /\ e.count <= Len(q) /\ Len(q) \in Nat /\ \A j \in 1 .. e.count : q[j] = e.names[j]
    BY OwnedIs, LenProperties
  <2> HIDE DEF q
  <2>2. c \in 1 .. Len(q) + 1 /\ \A j \in 1 .. e.count : j \in 1 .. Len(q) /\ j # c
    BY <1>2, <2>1
  <2> HIDE DEF c
  <2>3. /\ Store(q, c, n) \in Seq(Names) /\ Store(q, c, n)[c] = n /\ c <= Len(Store(q, c, n))
        /\ \A j \in 1 .. Len(q) : j # c => Store(q, c, n)[j] = q[j]
    BY <2>1, <2>2, StoreIs
  <2>4. QED
    BY <2>1, <2>2, <2>3 DEF q
<1>4. v \in Seq(Nat) /\ c <= Len(v) /\ v[c] = s /\ \A j \in 1 .. e.count : v[j] = e.slots[j]
  <2> DEFINE q == e.slots
             N == Nat
  <2>1. q \in Seq(N) /\ e.count <= Len(q) /\ Len(q) \in Nat /\ s \in N
    BY LenProperties DEF IsEnv
  <2> HIDE DEF q, N
  <2>2. c \in 1 .. Len(q) + 1 /\ \A j \in 1 .. e.count : j \in 1 .. Len(q) /\ j # c
    BY <1>2, <2>1
  <2> HIDE DEF c
  <2>3. /\ Store(q, c, s) \in Seq(N) /\ Store(q, c, s)[c] = s /\ c <= Len(Store(q, c, s))
        /\ \A j \in 1 .. Len(q) : j # c => Store(q, c, s)[j] = q[j]
    BY <2>1, <2>2, StoreIs
  <2>4. QED
    BY <2>1, <2>2, <2>3 DEF q, N
<1>5. \A j \in 1 .. e.count : j \in 1 .. c /\ e.names[j] # n
  BY <1>2, OwnAt
<1>6. /\ f.parent = e.parent /\ f.names = o /\ f.slots = v /\ f.count = c /\ f.big = e.big
      /\ Shaped(f)
  OBVIOUS
<1> HIDE DEF o, v
<1> HIDE DEF c
<1>7. IsEnv(f)
  <2>1. \A i, j \in 1 .. c : o[i] = o[j] => i = j
    BY <1>2, <1>3, <1>5 DEF IsEnv
  <2>2. QED
    BY <1>2, <1>3, <1>4, <1>6, <2>1 DEF IsEnv
<1>8. c \in 1 .. c
  BY <1>2 DEF c
<1>9. Held(f) = Held(e) \cup {n}
  <2>1. Held(f) = {o[i] : i \in 1 .. c} /\ Held(e) = {e.names[i] : i \in 1 .. e.count}
    BY <1>6 DEF Held, Places
  <2>2. QED
    BY <1>2, <1>3, <1>5, <1>8, <2>1
<1>10. \A j \in 1 .. c : own(f, o[j]) = v[j]
  BY <1>6, <1>7, OwnAt
<1>11. own(f, n) = s
  BY <1>3, <1>4, <1>8, <1>10
<1>12. \A m \in Held(e) \ {n} : own(f, m) = own(e, m)
  <2>1. \A j \in 1 .. e.count : own(f, e.names[j]) = own(e, e.names[j])
    BY <1>3, <1>4, <1>5, <1>10, OwnAt
  <2>2. QED
    BY <2>1, OwnAt
<1>13. ASSUME NEW params \in Seq(Names), HasParams(e, params) PROVE HasParams(f, params)
  <2>1. Len(params) \in Nat /\ Len(params) <= e.count /\ \A i \in 1 .. Len(params) : e.names[i] = params[i]
    BY <1>13, LenProperties DEF HasParams
  <2>2. \A i \in 1 .. Len(params) : i \in 1 .. e.count
    BY <1>2, <2>1
  <2>3. Len(params) <= c
    BY <1>2, <2>1 DEF c
  <2>4. QED
    BY <1>3, <1>6, <2>1, <2>2, <2>3 DEF HasParams
<1>14. QED
  BY <1>6, <1>7, <1>9, <1>11, <1>12, <1>13 DEF c

LEMMA PutIs ==
  ASSUME NEW e, IsEnv(e), NEW n \in Names, NEW s \in Nat
  PROVE  /\ IsEnv(putSlot(e, n, s)) /\ putSlot(e, n, s).parent = e.parent
         /\ Held(putSlot(e, n, s)) = Held(e) \cup {n} /\ own(putSlot(e, n, s), n) = s
         /\ \A m \in Held(e) \ {n} : own(putSlot(e, n, s), m) = own(e, m)
         /\ n \notin Held(e) =>
              \A params \in Seq(Names) : HasParams(e, params) => HasParams(putSlot(e, n, s), params)
<1>1. CASE e.big
  <2> DEFINE f == putSlot(e, n, s)
             w == L!With(e.map, n, s)
  <2>1. Shaped(f) /\ f.parent = e.parent /\ f.big = e.big /\ f.map = w
    <3>1. f = [e EXCEPT !.map = w]
      BY <1>1 DEF putSlot
    <3> HIDE DEF w, f
    <3>2. f = [parent |-> e.parent, names |-> e.names, slots |-> e.slots, count |-> e.count,
               shared |-> e.shared, big |-> e.big, map |-> w]
      BY <3>1 DEF IsEnv, Shaped
    <3>3. QED
      BY <3>2 DEF Shaped
  <2>4. DOMAIN w = DOMAIN e.map \cup {n} /\ w[n] = s /\ \A m \in DOMAIN e.map : m # n => w[m] = e.map[m]
    BY DEF L!With
  <2> HIDE DEF f, w
  <2>2. /\ IsEnv(f) /\ f.big /\ f.parent = e.parent /\ Held(f) = Held(e) \cup {n} /\ own(f, n) = s
        /\ \A m \in Held(e) \ {n} : own(f, m) = own(e, m)
    <3>1. DOMAIN f.map = DOMAIN e.map \cup {n} /\ f.map[n] = s /\ \A m \in DOMAIN e.map : m # n => f.map[m] = e.map[m]
      BY <2>1, <2>4
    <3>2. MapPuts(f, e, n, s)
      BY <2>1, <3>1 DEF MapPuts
    <3>3. QED
      BY <1>1, <3>2, MapPut
  <2>3. \A params : HasParams(f, params)
    BY <2>2 DEF HasParams
  <2>5. QED
    BY <2>2, <2>3 DEF f
<1>2. CASE ~ e.big /\ n \in Held(e)
  <2> DEFINE f == putSlot(e, n, s)
             o == Owned(e)
             v == [e.slots EXCEPT ![PlaceOf(e, n)] = s]
             no == FALSE
  <2>1. Shaped(f) /\ f.parent = e.parent /\ f.names = o /\ f.slots = v /\ f.count = e.count /\ f.big = e.big
    <3>1. f = [e EXCEPT !.names = o, !.shared = no, !.slots = v]
      BY <1>2 DEF putSlot, IsEnv, Shaped
    <3> HIDE DEF o, v, no, f
    <3>2. f = [parent |-> e.parent, names |-> o, slots |-> v, count |-> e.count,
               shared |-> no, big |-> e.big, map |-> e.map]
      BY <3>1 DEF IsEnv, Shaped
    <3>3. QED
      BY <3>2 DEF Shaped
  <2> HIDE DEF f
  <2>2. /\ IsEnv(f) /\ f.parent = e.parent /\ Held(f) = Held(e) /\ own(f, n) = s
        /\ \A m \in Held(e) \ {n} : own(f, m) = own(e, m)
    BY <1>2, <2>1, PlacePut
  <2>3. QED
    BY <1>2, <2>2 DEF f
<1>3. CASE ~ e.big /\ n \notin Held(e) /\ e.count >= Small
  <2> DEFINE v == vars_view(e)
             f == putSlot(e, n, s)
  <2> DEFINE w == L!With(v.map, n, s)
  <2>1. f = [v EXCEPT !.map = w]
    BY <1>3 DEF putSlot
  <2> HIDE DEF f
  <2>2. /\ IsEnv(v) /\ v.big /\ v.parent = e.parent
        /\ Held(v) = Held(e) /\ \A m \in Held(e) : own(v, m) = own(e, m)
    BY ViewIs
  <2> HIDE DEF v
  <2>6. Shaped(f) /\ f.parent = v.parent /\ f.big = v.big /\ f.map = w
    <3> HIDE DEF w
    <3>1. f = [parent |-> v.parent, names |-> v.names, slots |-> v.slots, count |-> v.count,
               shared |-> v.shared, big |-> v.big, map |-> w]
      BY <2>1, <2>2 DEF IsEnv, Shaped
    <3>2. QED
      BY <3>1 DEF Shaped
  <2>7. DOMAIN w = DOMAIN v.map \cup {n} /\ w[n] = s /\ \A m \in DOMAIN v.map : m # n => w[m] = v.map[m]
    BY DEF L!With
  <2> HIDE DEF w
  <2>3. /\ IsEnv(f) /\ f.big /\ f.parent = v.parent /\ Held(f) = Held(v) \cup {n} /\ own(f, n) = s
        /\ \A m \in Held(v) \ {n} : own(f, m) = own(v, m)
    <3>1. DOMAIN f.map = DOMAIN v.map \cup {n} /\ f.map[n] = s /\ \A m \in DOMAIN v.map : m # n => f.map[m] = v.map[m]
      BY <2>6, <2>7
    <3>2. MapPuts(f, v, n, s)
      BY <2>6, <3>1 DEF MapPuts
    <3>3. QED
      BY <2>2, <3>2, MapPut
  <2>4. \A params : HasParams(f, params)
    BY <2>3 DEF HasParams
  <2>5. QED
    BY <1>3, <2>2, <2>3, <2>4 DEF f
<1>4. CASE ~ e.big /\ n \notin Held(e) /\ ~ (e.count >= Small)
  <2> DEFINE f == putSlot(e, n, s)
             c == e.count + 1
             o == Store(Owned(e), c, n)
             v == Store(e.slots, c, s)
             no == FALSE
  <2>1. Shaped(f) /\ f.parent = e.parent /\ f.names = o /\ f.slots = v /\ f.count = c /\ f.big = e.big
    <3>1. f = [e EXCEPT !.names = o, !.shared = no, !.slots = v, !.count = c]
      BY <1>4 DEF putSlot, IsEnv, Shaped
    <3> HIDE DEF o, v, no, f, c
    <3>2. f = [parent |-> e.parent, names |-> o, slots |-> v, count |-> c,
               shared |-> no, big |-> e.big, map |-> e.map]
      BY <3>1 DEF IsEnv, Shaped
    <3>3. QED
      BY <3>2 DEF Shaped
  <2> HIDE DEF f
  <2>2. /\ IsEnv(f) /\ f.parent = e.parent
        /\ Held(f) = Held(e) \cup {n} /\ own(f, n) = s
        /\ \A m \in Held(e) \ {n} : own(f, m) = own(e, m)
        /\ \A params \in Seq(Names) : HasParams(e, params) => HasParams(f, params)
    BY <1>4, <2>1, EndPut
  <2>3. QED
    BY <2>2 DEF f
<1>5. QED
  BY <1>1, <1>2, <1>3, <1>4

LEMMA DeleteIs ==
  ASSUME NEW e, IsEnv(e), NEW n
  PROVE  /\ IsEnv(deleteVar(e, n)) /\ deleteVar(e, n).parent = e.parent
         /\ Held(deleteVar(e, n)) = Held(e) \ {n}
         /\ \A m \in Held(e) \ {n} : own(deleteVar(e, n), m) = own(e, m)
<1>1. CASE n \notin Held(e)
  <2>1. deleteVar(e, n) = e
    BY <1>1 DEF deleteVar
  <2>2. QED
    BY <1>1, <2>1
<1>2. CASE n \in Held(e) /\ e.big
  <2> DEFINE w == [m \in DOMAIN e.map \ {n} |-> e.map[m]]
             f == [e EXCEPT !.map = [m \in DOMAIN @ \ {n} |-> @[m]]]
  <2>1. deleteVar(e, n) = f
    BY <1>2 DEF deleteVar
  <2>2. f = [parent |-> e.parent, names |-> e.names, slots |-> e.slots, count |-> e.count,
             shared |-> e.shared, big |-> e.big, map |-> w]
    <3>1. f = [e EXCEPT !.map = w]
      OBVIOUS
    <3> HIDE DEF w, f
    <3>2. QED
      BY <3>1 DEF IsEnv, Shaped
  <2>3. DOMAIN w = DOMAIN e.map \ {n} /\ \A m \in DOMAIN e.map : m # n => w[m] = e.map[m]
    OBVIOUS
  <2> HIDE DEF w, f
  <2>4. f.parent = e.parent /\ f.big /\ f.map = w /\ IsEnv(f)
    BY <1>2, <2>2 DEF IsEnv, Shaped
  <2>5. QED
    BY <1>2, <2>1, <2>3, <2>4 DEF Held, own
<1>3. CASE n \in Held(e) /\ ~ e.big
  <2> DEFINE c == e.count
             a == SubSeq(e.names, 1, c)
             b == SubSeq(e.slots, 1, c)
             p == PlaceOf(e, n)
             o == RemoveAt(a, p)
             v == RemoveAt(b, p)
             d == c - 1
             no == FALSE
             f == deleteVar(e, n)
  <2>1. f = [parent |-> e.parent, names |-> o, slots |-> v, count |-> d,
             shared |-> no, big |-> e.big, map |-> e.map]
    <3>1. f = [e EXCEPT !.names = o, !.shared = no, !.slots = v, !.count = d]
      BY <1>3 DEF deleteVar, IsEnv, Shaped
    <3> HIDE DEF o, v, no, f, d
    <3>2. QED
      BY <3>1 DEF IsEnv, Shaped
  <2>2. PICK i \in 1 .. c : n = e.names[i]
    BY <1>3, OwnAt
  <2>3. p = i
    BY <1>3, <2>2 DEF PlaceOf, Places, IsEnv, Shaped
  <2>4. c \in Nat /\ c \in 0 .. Len(e.names) /\ c \in 0 .. Len(e.slots) /\ e.names \in Seq(Names) /\ e.slots \in Seq(Nat)
    BY <1>3, LenProperties DEF IsEnv, Shaped
  <2>5. a \in Seq(Names) /\ Len(a) = c /\ \A j \in 1 .. c : a[j] = e.names[j]
    BY <2>4, TakeIs
  <2>6. b \in Seq(Nat) /\ Len(b) = c /\ \A j \in 1 .. c : b[j] = e.slots[j]
    <3> DEFINE N == Nat
               q == e.slots
    <3>1. q \in Seq(N) /\ c \in 0 .. Len(q)
      BY <2>4
    <3> HIDE DEF N, q, c
    <3>2. SubSeq(q, 1, c) \in Seq(N) /\ Len(SubSeq(q, 1, c)) = c /\ \A j \in 1 .. c : SubSeq(q, 1, c)[j] = q[j]
      BY <3>1, TakeIs
    <3>3. QED
      BY <3>2 DEF N, q
  <2> HIDE DEF a, b, p
  <2>7. o \in Seq(Names) /\ Len(o) = d /\ \A j \in 1 .. d : o[j] = IF j < i THEN a[j] ELSE a[j + 1]
    <3>1. a \in Seq(Names) /\ i \in 1 .. Len(a)
      BY <2>2, <2>5
    <3> HIDE DEF o
    <3>2. /\ RemoveAt(a, i) \in Seq(Names) /\ Len(RemoveAt(a, i)) = Len(a) - 1
          /\ \A j \in 1 .. Len(a) - 1 : RemoveAt(a, i)[j] = IF j < i THEN a[j] ELSE a[j + 1]
      BY <3>1, RemoveAtIs
    <3>3. o = RemoveAt(a, i)
      BY <2>3 DEF o
    <3>4. QED
      BY <2>5, <3>2, <3>3
  <2>8. v \in Seq(Nat) /\ Len(v) = d /\ \A j \in 1 .. d : v[j] = IF j < i THEN b[j] ELSE b[j + 1]
    <3> DEFINE N == Nat
    <3>1. b \in Seq(N) /\ i \in 1 .. Len(b)
      BY <2>2, <2>6
    <3> HIDE DEF N, v
    <3>2. /\ RemoveAt(b, i) \in Seq(N) /\ Len(RemoveAt(b, i)) = Len(b) - 1
          /\ \A j \in 1 .. Len(b) - 1 : RemoveAt(b, i)[j] = IF j < i THEN b[j] ELSE b[j + 1]
      BY <3>1, RemoveAtIs
    <3>3. v = RemoveAt(b, i)
      BY <2>3 DEF v
    <3>4. QED
      BY <2>6, <3>2, <3>3 DEF N
  <2> HIDE DEF o, v, no, f
  <2>9. d \in Nat /\ d + 1 = c /\ \A j \in 1 .. d : j \in 1 .. c /\ j + 1 \in 1 .. c
    BY <2>2, <2>4
  <2> HIDE DEF c, d
  <2>10. \A j \in 1 .. d : o[j] = e.names[IF j < i THEN j ELSE j + 1] /\ v[j] = e.slots[IF j < i THEN j ELSE j + 1]
    BY <2>5, <2>6, <2>7, <2>8, <2>9
  <2>11. /\ f.parent = e.parent /\ f.names = o /\ f.slots = v /\ f.count = d /\ f.big = e.big
         /\ Shaped(f)
    BY <2>1 DEF Shaped
  <2>12. \A j, k \in 1 .. c : e.names[j] = e.names[k] => j = k
    BY <1>3 DEF IsEnv, Shaped, c
  <2>13. IsEnv(f)
    <3>1. ASSUME NEW j \in 1 .. d, NEW k \in 1 .. d, o[j] = o[k] PROVE j = k
      <4> DEFINE x == IF j < i THEN j ELSE j + 1
                 y == IF k < i THEN k ELSE k + 1
      <4>1. x \in 1 .. c /\ y \in 1 .. c /\ (x = y => j = k)
        BY <2>2, <2>9
      <4>2. e.names[x] = e.names[y]
        BY <2>10, <3>1
      <4>3. QED
        BY <2>12, <4>1, <4>2
    <3>2. QED
      BY <2>7, <2>8, <2>9, <2>11, <3>1 DEF IsEnv, Shaped
  <2>14. \A j \in 1 .. d : own(f, o[j]) = v[j]
    BY <1>3, <2>11, <2>13, OwnAt
  <2>15. \A j \in 1 .. c : j # i => \E k \in 1 .. d : j = IF k < i THEN k ELSE k + 1
    <3> SUFFICES ASSUME NEW j \in 1 .. c, j # i PROVE \E k \in 1 .. d : j = IF k < i THEN k ELSE k + 1
      OBVIOUS
    <3>1. CASE j < i
      <4>1. j \in 1 .. d
        BY <2>2, <2>4, <2>9, <3>1 
      <4>2. QED
        BY <3>1, <4>1
    <3>2. CASE ~ (j < i)
      <4>1. j - 1 \in 1 .. d /\ ~ (j - 1 < i) /\ j = (j - 1) + 1
        BY <2>2, <2>4, <2>9, <3>2
      <4>2. QED
        BY <4>1
    <3>3. QED
      BY <3>1, <3>2
  <2>16. Held(e) = {e.names[j] : j \in 1 .. c} /\ Held(f) = {o[j] : j \in 1 .. d}
    BY <1>3, <2>11 DEF Held, Places, c
  <2>17. ASSUME NEW j \in 1 .. d
         PROVE  o[j] \in Held(e) /\ o[j] # n /\ own(f, o[j]) = own(e, o[j])
    <3> DEFINE x == IF j < i THEN j ELSE j + 1
    <3>1. x \in 1 .. c /\ x # i /\ o[j] = e.names[x] /\ v[j] = e.slots[x]
      BY <2>2, <2>9, <2>10
    <3> HIDE DEF x
    <3>2. own(e, e.names[x]) = e.slots[x]
      BY <1>3, <3>1, OwnAt DEF c
    <3>3. QED
      BY <2>2, <2>12, <2>14, <2>16, <3>1, <3>2
  <2>18. ASSUME NEW m \in Held(e) \ {n} PROVE \E j \in 1 .. d : m = o[j]
    <3>1. PICK x \in 1 .. c : m = e.names[x]
      BY <2>16
    <3>2. PICK k \in 1 .. d : x = IF k < i THEN k ELSE k + 1
      BY <2>2, <2>15, <3>1
    <3>3. QED
      BY <2>10, <3>1, <3>2
  <2>19. Held(f) = Held(e) \ {n}
    BY <2>16, <2>17, <2>18
  <2>20. \A m \in Held(e) \ {n} : own(f, m) = own(e, m)
    BY <2>17, <2>18
  <2>21. QED
    BY <2>11, <2>13, <2>19, <2>20 DEF f
<1>4. QED
  BY <1>1, <1>2, <1>3

LEMMA ReuseIs ==
  ASSUME NEW e, IsEnv(e), ~ e.big, NEW params \in Seq(Names), HasParams(e, params),
         \A i, j \in DOMAIN params : params[i] = params[j] => i = j
  PROVE  LET f == reuseFrame(e, params)
         IN /\ IsEnv(f) /\ ~ f.big /\ f.parent = e.parent /\ HasParams(f, params)
            /\ Held(f) = {params[i] : i \in 1 .. Len(params)}
            /\ Held(e) = Held(f) \cup LeftBehind(e, params)
            /\ Held(f) \cap LeftBehind(e, params) = {}
            /\ \A i \in 1 .. Len(params) : own(f, params[i]) = e.slots[i] /\ own(e, params[i]) = e.slots[i]
<1> DEFINE f == reuseFrame(e, params)
           k == Len(params)
           o == IF e.shared THEN e.names ELSE params
           yes == TRUE
<1>1. f = [parent |-> e.parent, names |-> o, slots |-> e.slots, count |-> k,
           shared |-> yes, big |-> e.big, map |-> e.map]
  <2>1. f = [e EXCEPT !.names = o, !.count = k, !.shared = yes]
    BY DEF reuseFrame, IsEnv, Shaped
  <2> HIDE DEF o, yes, f, k
  <2>2. QED
    BY <2>1 DEF IsEnv, Shaped
<1>2. /\ k \in Nat /\ k <= e.count /\ (\A i \in 1 .. k : e.names[i] = params[i])
      /\ DOMAIN params = 1 .. k /\ e.count \in Nat /\ e.names \in Seq(Names)
      /\ e.count <= Len(e.names) /\ e.count <= Len(e.slots) /\ Len(e.names) \in Nat /\ Len(e.slots) \in Nat
  BY LenProperties DEF HasParams, IsEnv, Shaped
<1>3. o \in Seq(Names) /\ k <= Len(o) /\ \A i \in 1 .. k : o[i] = params[i]
  BY <1>2
<1>4. k <= Len(e.slots)
  BY <1>2
<1> HIDE DEF o, yes, f, k
<1>5. /\ f.parent = e.parent /\ f.names = o /\ f.slots = e.slots /\ f.count = k /\ f.big = e.big
      /\ Shaped(f)
  BY <1>1 DEF Shaped
<1>6. IsEnv(f)
  BY <1>2, <1>3, <1>4, <1>5 DEF IsEnv, Shaped
<1>7. HasParams(f, params)
  BY <1>2, <1>3, <1>5 DEF HasParams, k
<1>8. Held(f) = {params[i] : i \in 1 .. k}
  <2>1. Held(f) = {o[i] : i \in 1 .. k}
    BY <1>5 DEF Held, Places
  <2>2. QED
    BY <1>3, <2>1
<1>9. \A i \in 1 .. k : i \in 1 .. e.count /\ own(f, params[i]) = e.slots[i] /\ own(e, params[i]) = e.slots[i]
  <2>1. \A i \in 1 .. k : own(f, f.names[i]) = f.slots[i]
    BY <1>5, <1>6, OwnAt
  <2>2. \A i \in 1 .. k : i \in 1 .. e.count
    BY <1>2
  <2>3. \A i \in 1 .. k : own(e, e.names[i]) = e.slots[i]
    BY <2>2, OwnAt
  <2> DEFINE a == e.names
             b == e.slots
             O(n) == own(e, n)
             P(n) == own(f, n)
  <2>4. /\ \A i \in 1 .. k : P(o[i]) = b[i] /\ O(a[i]) = b[i]
        /\ \A i \in 1 .. k : a[i] = params[i] /\ o[i] = params[i]
    BY <1>2, <1>3, <1>5, <2>1, <2>3
  <2> HIDE DEF a, b, O, P
  <2>5. \A i \in 1 .. k : P(params[i]) = b[i] /\ O(params[i]) = b[i]
    BY <2>4
  <2>6. QED
    BY <2>2, <2>5 DEF a, b, O, P
<1>10. Held(e) = Held(f) \cup LeftBehind(e, params)
  <2>1. Held(e) = {e.names[i] : i \in 1 .. e.count} /\ LeftBehind(e, params) = {e.names[i] : i \in k + 1 .. e.count}
    BY DEF Held, Places, LeftBehind, k
  <2>2. \A i \in 1 .. e.count : i \in 1 .. k \/ i \in k + 1 .. e.count
    BY <1>2
  <2>3. \A i \in k + 1 .. e.count : i \in 1 .. e.count
    BY <1>2
  <2>4. QED
    BY <1>2, <1>8, <1>9, <2>1, <2>2, <2>3
<1>11. Held(f) \cap LeftBehind(e, params) = {}
  <2>1. LeftBehind(e, params) = {e.names[i] : i \in k + 1 .. e.count}
    BY DEF LeftBehind, k
  <2>2. \A i \in 1 .. k : \A j \in k + 1 .. e.count : i \in 1 .. e.count /\ j \in 1 .. e.count /\ i # j
    BY <1>2
  <2>3. \A i, j \in 1 .. e.count : e.names[i] = e.names[j] => i = j
    BY DEF IsEnv, Shaped
  <2>4. QED
    BY <1>2, <1>8, <2>1, <2>2, <2>3
<1>12. QED
  BY <1>5, <1>6, <1>7, <1>8, <1>9, <1>10, <1>11 DEF f, k

Adopts(f, p, params, slots) == f = adoptFrame(Env(p), params, slots)
Apart(params) == \A i, j \in DOMAIN params : params[i] = params[j] => i = j

Adopted(f, p, params, slots) ==
  /\ IsEnv(f) /\ f.parent = p /\ HasParams(f, params)
  /\ Held(f) = {params[i] : i \in 1 .. Len(params)} /\ f.slots = slots
  /\ \A i \in 1 .. Len(params) : own(f, params[i]) = slots[i]

LEMMA AdoptIs ==
  ASSUME NEW p, NEW params \in Seq(Names), NEW slots \in Seq(Nat), Len(slots) = Len(params),
         Apart(params), NEW f, Adopts(f, p, params, slots)
  PROVE  Adopted(f, p, params, slots)
<1> DEFINE k == Len(params)
           yes == TRUE
           no == FALSE
<1>1. f = [parent |-> p, names |-> params, slots |-> slots, count |-> k,
           shared |-> yes, big |-> no, map |-> <<>>]
  <2> DEFINE b == Env(p)
  <2>1. b = [parent |-> p, names |-> <<>>, slots |-> <<>>, count |-> 0,
             shared |-> no, big |-> no, map |-> <<>>]
    BY DEF Env
  <2>2. f = [b EXCEPT !.names = params, !.slots = slots, !.count = k, !.shared = yes]
    BY DEF adoptFrame, Adopts
  <2> HIDE DEF yes, no, k, b
  <2>3. QED
    BY <2>1, <2>2
<1>2. k \in Nat /\ DOMAIN params = 1 .. k
  BY LenProperties
<1> HIDE DEF k
<1>3. /\ f.parent = p /\ f.names = params /\ f.slots = slots /\ f.count = k /\ ~ f.big
      /\ Shaped(f)
  BY <1>1 DEF Shaped
<1> HIDE DEF yes, no
<1>4. IsEnv(f)
  BY <1>2, <1>3 DEF IsEnv, Shaped, k, Apart
<1>5. Held(f) = {params[i] : i \in 1 .. k} /\ HasParams(f, params)
  BY <1>2, <1>3 DEF Held, Places, HasParams, k
<1>6. \A i \in 1 .. k : own(f, params[i]) = slots[i]
  BY <1>3, <1>4, OwnAt
<1>7. QED
  BY <1>3, <1>4, <1>5, <1>6 DEF k, Adopted

-----------------------------------------------------------------------------
(* Lists of anything. *)

Listed(s) == \E S : s \in Seq(S)

LEMMA ListIs ==
  ASSUME NEW s, Listed(s)
  PROVE  Len(s) \in Nat /\ DOMAIN s = 1 .. Len(s)
BY LenProperties DEF Listed

LEMMA ListAppend ==
  ASSUME NEW s, Listed(s), NEW x
  PROVE  /\ Listed(Append(s, x)) /\ Len(Append(s, x)) = Len(s) + 1
         /\ Append(s, x)[Len(s) + 1] = x /\ \A i \in 1 .. Len(s) : Append(s, x)[i] = s[i]
<1>1. PICK S : s \in Seq(S)
  BY DEF Listed
<1> DEFINE T == S \cup {x}
<1>2. s \in Seq(T) /\ x \in T
  BY <1>1, SeqMonotonic
<1> HIDE DEF T
<1>3. QED
  BY <1>2, AppendProperties DEF Listed

LEMMA ListSet ==
  ASSUME NEW s, Listed(s), NEW i \in 1 .. Len(s), NEW x
  PROVE  /\ Listed([s EXCEPT ![i] = x]) /\ Len([s EXCEPT ![i] = x]) = Len(s)
         /\ [s EXCEPT ![i] = x][i] = x /\ \A j \in 1 .. Len(s) : j # i => [s EXCEPT ![i] = x][j] = s[j]
<1>1. PICK S : s \in Seq(S)
  BY DEF Listed
<1> DEFINE T == S \cup {x}
<1>2. s \in Seq(T) /\ x \in T
  BY <1>1, SeqMonotonic
<1> HIDE DEF T
<1>3. QED
  BY <1>2, ExceptSeq DEF Listed

LEMMA ListTake ==
  ASSUME NEW s, Listed(s), NEW n \in 0 .. Len(s)
  PROVE  /\ Listed(SubSeq(s, 1, n)) /\ Len(SubSeq(s, 1, n)) = n
         /\ \A i \in 1 .. n : SubSeq(s, 1, n)[i] = s[i]
<1>1. PICK S : s \in Seq(S)
  BY DEF Listed
<1>2. QED
  BY <1>1, TakeIs DEF Listed

Joined(u, s, t) == u = s \o t

LEMMA ListConcat ==
  ASSUME NEW s, Listed(s), NEW t, Listed(t), NEW u, Joined(u, s, t)
  PROVE  /\ Listed(u) /\ Len(u) = Len(s) + Len(t)
         /\ \A i \in 1 .. Len(s) : u[i] = s[i]
         /\ \A i \in 1 .. Len(t) : u[Len(s) + i] = t[i]
<1>1. PICK S : s \in Seq(S)
  BY DEF Listed
<1>2. PICK R : t \in Seq(R)
  BY DEF Listed
<1> DEFINE T == S \cup R
<1>3. s \in Seq(T) /\ t \in Seq(T)
  BY <1>1, <1>2, SeqMonotonic
<1> HIDE DEF T
<1>4. Len(s) \in Nat /\ Len(t) \in Nat
  BY <1>3, LenProperties
<1>5. /\ s \o t \in Seq(T) /\ Len(s \o t) = Len(s) + Len(t)
      /\ \A i \in 1 .. Len(s) + Len(t) : (s \o t)[i] = IF i <= Len(s) THEN s[i] ELSE t[i - Len(s)]
  BY <1>3, ConcatProperties
<1>6. ASSUME NEW i \in 1 .. Len(s) PROVE (s \o t)[i] = s[i]
  BY <1>4, <1>5
<1>7. ASSUME NEW i \in 1 .. Len(t) PROVE (s \o t)[Len(s) + i] = t[i]
  <2>1. Len(s) + i \in 1 .. Len(s) + Len(t) /\ ~ (Len(s) + i <= Len(s)) /\ (Len(s) + i) - Len(s) = i
    BY <1>4
  <2>2. QED
    BY <1>5, <2>1
<1>8. QED
  BY <1>5, <1>6, <1>7 DEF Listed, Joined

LEMMA ListMap ==
  ASSUME NEW s, NEW n \in Nat, DOMAIN s = 1 .. n, s = [i \in 1 .. n |-> s[i]]
  PROVE  Listed(s) /\ Len(s) = n
<1> DEFINE S == {s[i] : i \in 1 .. n}
<1>1. s \in [1 .. n -> S]
  OBVIOUS
<1> HIDE DEF S
<1>2. s \in Seq(S) /\ Len(s) = n
  BY <1>1
<1>3. QED
  BY <1>2 DEF Listed

-----------------------------------------------------------------------------
(* The walk outwards, from a scope to the one around it. *)

Climbs(g, N, P, H, V) ==
  g = [f \in 0 .. N |-> IF f = 0 THEN 0 ELSE IF f \in H THEN V[f] ELSE g[P[f]]]

LEMMA ClimbExists ==
  ASSUME NEW N \in Nat, NEW P, NEW H, NEW V, \A f \in 1 .. N : P[f] \in 0 .. f - 1
  PROVE  \E g : Climbs(g, N, P, H, V)
<1> DEFINE Takes(g, f) == IF f = 0 THEN 0 ELSE IF f \in H THEN V[f] ELSE g[P[f]]
           Some == {m \in Nat : m <= N => \E g : g = [f \in 0 .. m |-> Takes(g, f)]}
<1>1. 0 \in Some
  <2> DEFINE g == [f \in 0 .. 0 |-> 0]
  <2>1. \A f \in 0 .. 0 : Takes(g, f) = 0
    OBVIOUS
  <2> HIDE DEF Takes
  <2>2. g = [f \in 0 .. 0 |-> Takes(g, f)]
    BY <2>1
  <2>3. QED
    BY <2>2
<1>2. ASSUME NEW m \in Nat, m \in Some PROVE m + 1 \in Some
  <2> SUFFICES ASSUME m + 1 <= N PROVE \E g : g = [f \in 0 .. m + 1 |-> Takes(g, f)]
    OBVIOUS
  <2>1. PICK h : h = [f \in 0 .. m |-> Takes(h, f)]
    BY <1>2
  <2> DEFINE g == [f \in 0 .. m + 1 |-> Takes(h, f)]
  <2>2. g = [f \in 0 .. m + 1 |-> Takes(h, f)]
    OBVIOUS
  <2> HIDE DEF g
  <2>3. \A f \in 0 .. m : f \in 0 .. m + 1
    OBVIOUS
  <2>4. \A f \in 0 .. m : g[f] = h[f]
    <3> HIDE DEF Takes
    <3>1. QED
      BY <2>1, <2>2, <2>3
  <2>5. \A f \in 0 .. m + 1 : f # 0 => P[f] \in 0 .. m
    <3> SUFFICES ASSUME NEW f \in 0 .. m + 1, f # 0 PROVE P[f] \in 0 .. m
      OBVIOUS
    <3>1. f \in 1 .. N
      OBVIOUS
    <3>2. P[f] \in 0 .. f - 1
      BY <3>1
    <3>3. QED
      BY <3>2
  <2>6. \A f \in 0 .. m + 1 : Takes(g, f) = Takes(h, f)
    BY <2>4, <2>5
  <2> HIDE DEF Takes
  <2>7. g = [f \in 0 .. m + 1 |-> Takes(g, f)]
    BY <2>2, <2>6
  <2>8. QED
    BY <2>7
<1>3. N \in Some
  <2> HIDE DEF Some
  <2>1. QED
    BY <1>1, <1>2, AllNaturals
<1>4. \E g : g = [f \in 0 .. N |-> Takes(g, f)]
  BY <1>3
<1>5. QED
  BY <1>4 DEF Climbs

LEMMA ClimbIs ==
  ASSUME NEW N \in Nat, NEW P, NEW H, NEW V, NEW g, Climbs(g, N, P, H, V)
  PROVE  /\ g[0] = 0
         /\ \A f \in 1 .. N : g[f] = IF f \in H THEN V[f] ELSE g[P[f]]
<1>1. 0 \in 0 .. N /\ \A f \in 1 .. N : f \in 0 .. N /\ f # 0
  OBVIOUS
<1>2. QED
  BY <1>1 DEF Climbs

(* Env.slot. *)
Nested(E) == \A f \in 1 .. Len(E) : E[f].parent \in 0 .. f - 1

Found(E, e, n) ==
  LET found[f \in 0 .. Len(E)] ==
        IF f = 0 THEN 0
        ELSE IF n \in Held(E[f]) THEN own(E[f], n) ELSE found[E[f].parent]
  IN found[e]

LEMMA SlotFound == \A e, n : slot(e, n) = Found(envs, e, n)
  BY DEF slot, Found

LEMMA FoundIs ==
  ASSUME NEW E, Len(E) \in Nat, Nested(E), NEW n
  PROVE  /\ Found(E, 0, n) = 0
         /\ \A f \in 1 .. Len(E) :
              Found(E, f, n) = IF n \in Held(E[f]) THEN own(E[f], n) ELSE Found(E, E[f].parent, n)
<1> DEFINE N == Len(E)
           P == [f \in 1 .. N |-> E[f].parent]
           H == {f \in 1 .. N : n \in Held(E[f])}
           V == [f \in 1 .. N |-> own(E[f], n)]
           Takes(g, f) == IF f = 0 THEN 0 ELSE IF n \in Held(E[f]) THEN own(E[f], n) ELSE g[E[f].parent]
           g == CHOOSE g : g = [f \in 0 .. N |-> Takes(g, f)]
<1>1. N \in Nat /\ \A f \in 1 .. N : P[f] \in 0 .. f - 1
  BY DEF Nested
<1>2. PICK h : Climbs(h, N, P, H, V)
  <2> HIDE DEF P, H, V, N
  <2>1. QED
    BY <1>1, ClimbExists
<1>3. h = [f \in 0 .. N |-> Takes(h, f)]
  <2> DEFINE Climb(f) == IF f = 0 THEN 0 ELSE IF f \in H THEN V[f] ELSE h[P[f]]
  <2>1. \A f \in 0 .. N : Climb(f) = Takes(h, f)
    <3>1. \A f \in 0 .. N : f = 0 \/ f \in 1 .. N
      BY <1>1
    <3> HIDE DEF N
    <3>2. QED
      BY <3>1
  <2>2. h = [f \in 0 .. N |-> Climb(f)]
    BY <1>2 DEF Climbs
  <2> HIDE DEF Climb, Takes
  <2>3. QED
    BY <2>1, <2>2
<1>4. g = [f \in 0 .. N |-> Takes(g, f)]
  <2> DEFINE Is(k) == k = [f \in 0 .. N |-> Takes(k, f)]
  <2>1. \E k : Is(k)
    BY <1>3
  <2> HIDE DEF Is, Takes
  <2>2. Is(CHOOSE k : Is(k))
    BY <2>1
  <2>3. QED
    BY <2>2 DEF Is
<1>5. \A f : Found(E, f, n) = g[f]
  BY DEF Found
<1> HIDE DEF g
<1>6. g[0] = 0
  <2>1. 0 \in 0 .. N
    BY <1>1
  <2>2. QED
    BY <1>4, <2>1
<1>7. ASSUME NEW f \in 1 .. N PROVE g[f] = IF n \in Held(E[f]) THEN own(E[f], n) ELSE g[E[f].parent]
  <2>1. f \in 0 .. N /\ f # 0
    BY <1>1
  <2> HIDE DEF N
  <2>2. QED
    BY <1>4, <2>1
<1>8. QED
  BY <1>5, <1>6, <1>7

(* Scopes that hold the same under a name give the same.                   *)
LEMMA FoundSame ==
  ASSUME NEW E, NEW F, Len(E) \in Nat, Len(F) \in Nat, Len(E) <= Len(F), Nested(E), Nested(F), NEW n,
         \A f \in 1 .. Len(E) : /\ F[f].parent = E[f].parent
                                /\ (n \in Held(F[f]) <=> n \in Held(E[f]))
                                /\ n \in Held(E[f]) => own(F[f], n) = own(E[f], n)
  PROVE  \A e \in 0 .. Len(E) : Found(F, e, n) = Found(E, e, n)
<1> DEFINE Done == {m \in Nat : m <= Len(E) => \A e \in 0 .. m : Found(F, e, n) = Found(E, e, n)}
<1>1. 0 \in Done
  <2>1. \A e \in 0 .. 0 : e = 0
    OBVIOUS
  <2>2. QED
    BY <2>1, FoundIs
<1>2. ASSUME NEW m \in Nat, m \in Done PROVE m + 1 \in Done
  <2> SUFFICES ASSUME m + 1 <= Len(E) PROVE \A e \in 0 .. m + 1 : Found(F, e, n) = Found(E, e, n)
    OBVIOUS
  <2>1. \A e \in 0 .. m : Found(F, e, n) = Found(E, e, n)
    BY <1>2
  <2>2. m + 1 \in 1 .. Len(E) /\ m + 1 \in 1 .. Len(F) /\ E[m + 1].parent \in 0 .. m
    <3>1. m + 1 \in 1 .. Len(E) /\ m + 1 \in 1 .. Len(F) /\ (m + 1) - 1 = m
      OBVIOUS
    <3>2. E[m + 1].parent \in 0 .. (m + 1) - 1
      BY <3>1 DEF Nested
    <3>3. QED
      BY <3>1, <3>2
  <2>3. Found(E, m + 1, n) = IF n \in Held(E[m + 1]) THEN own(E[m + 1], n) ELSE Found(E, E[m + 1].parent, n)
    BY <2>2, FoundIs
  <2>4. Found(F, m + 1, n) = IF n \in Held(F[m + 1]) THEN own(F[m + 1], n) ELSE Found(F, F[m + 1].parent, n)
    BY <2>2, FoundIs
  <2>5. Found(F, m + 1, n) = Found(E, m + 1, n)
    BY <2>1, <2>2, <2>3, <2>4
  <2>6. \A e \in 0 .. m + 1 : e = m + 1 \/ e \in 0 .. m
    OBVIOUS
  <2>7. QED
    BY <2>1, <2>5, <2>6
<1>3. Len(E) \in Done
  <2> HIDE DEF Done
  <2>1. QED
    BY <1>1, <1>2, AllNaturals
<1>4. QED
  BY <1>3

-----------------------------------------------------------------------------
(* What holds of scopes, stack, closures, pool and caches whatever is      *)
(* declared where.                                                         *)

EnvsFine(E) == Listed(E) /\ Nested(E) /\ \A e \in 1 .. Len(E) : IsEnv(E[e])

(* Every entry of the stack runs in some Env; the prompt's is the first.   *)
EntryFine(x, N) ==
  /\ x = [kind |-> x.kind, scope |-> x.scope, decl |-> x.decl, body |-> x.body, var |-> x.var,
          env |-> x.env, home |-> x.home]
  /\ x.env \in 1 .. N /\ x.home \in Nat /\ x.var \in Names \cup {"none"}

StackFine(K, N) ==
  /\ Listed(K) /\ Len(K) >= 1 /\ K[1].env = 1
  /\ \A d \in 1 .. Len(K) : EntryFine(K[d], N) /\ (K[d].kind = "top" <=> d = 1)

ClosuresFine(C, N) ==
  /\ Listed(C)
  /\ \A c \in 1 .. Len(C) : C[c].env \in 1 .. N /\ C[c].decl \in Decls

(* A frame of the pool is nowhere else in the pool, and is no loop's.      *)
Refilled(x) == x.kind = "loop" /\ x.body = "binding"

PoolFine(P, E, K) ==
  /\ DOMAIN P = Decls
  /\ \A d \in Decls : \A k \in DOMAIN P[d].envs :
       /\ P[d].envs[k] \in 2 .. Len(E) /\ HasParams(E[P[d].envs[k]], Params[d])
       /\ \A i \in 1 .. Len(K) : Refilled(K[i]) => K[i].env # P[d].envs[k]
       /\ \A b \in Decls : \A j \in DOMAIN P[b].envs : P[b].envs[j] = P[d].envs[k] => b = d /\ j = k

(* A cache that is warm holds what a walk from its Env finds.              *)
CacheFine(C, E) ==
  /\ DOMAIN C = Names
  /\ \A n \in Names : \/ C[n] = Cold
                      \/ (C[n].env \in 1 .. Len(E) /\ Found(E, C[n].env, n) = C[n].slot)

Shape ==
  /\ EnvsFine(envs) /\ Listed(cells)
  /\ StackFine(stack, Len(envs)) /\ ClosuresFine(closures, Len(envs))
  /\ PoolFine(pool, envs, stack) /\ CacheFine(cache, envs)

LEMMA ParamsAre ==
  \A d \in Decls : /\ Params[d] \in Seq(Names)
                   /\ \A i, j \in DOMAIN Params[d] : Params[d][i] = Params[d][j] => i = j
BY ScopesAssumption DEF ScopesAssumption, Decls, L!Decls, ToSet, L!ToSet

LEMMA AppendEnv ==
  ASSUME NEW E, EnvsFine(E), NEW f, IsEnv(f), f.parent \in 0 .. Len(E)
  PROVE  /\ EnvsFine(Append(E, f)) /\ Len(Append(E, f)) = Len(E) + 1
         /\ Append(E, f)[Len(E) + 1] = f /\ \A e \in 1 .. Len(E) : Append(E, f)[e] = E[e]
         /\ \A n : \A e \in 0 .. Len(E) : Found(Append(E, f), e, n) = Found(E, e, n)
<1> DEFINE F == Append(E, f)
<1>1. Listed(F) /\ Len(F) = Len(E) + 1 /\ F[Len(E) + 1] = f /\ \A e \in 1 .. Len(E) : F[e] = E[e]
  BY ListAppend DEF EnvsFine
<1>2. Len(E) \in Nat
  BY ListIs DEF EnvsFine
<1> HIDE DEF F
<1>3. \A e \in 1 .. Len(F) : e = Len(E) + 1 \/ e \in 1 .. Len(E)
  BY <1>1, <1>2
<1>4. EnvsFine(F)
  <2>1. ASSUME NEW e \in 1 .. Len(F) PROVE IsEnv(F[e]) /\ F[e].parent \in 0 .. e - 1
    <3>1. CASE e = Len(E) + 1
      <4>1. (Len(E) + 1) - 1 = Len(E)
        BY <1>2
      <4>2. QED
        BY <1>1, <3>1, <4>1
    <3>2. CASE e \in 1 .. Len(E)
      BY <1>1, <3>2 DEF EnvsFine, Nested
    <3>3. QED
      BY <1>3, <3>1, <3>2
  <2>2. QED
    BY <1>1, <2>1 DEF EnvsFine, Nested
<1>5. \A n : \A e \in 0 .. Len(E) : Found(F, e, n) = Found(E, e, n)
  <2> TAKE n
  <2>1. Len(F) \in Nat /\ Len(E) <= Len(F) /\ Nested(E) /\ Nested(F)
    BY <1>1, <1>2, <1>4 DEF EnvsFine
  <2>2. \A e \in 1 .. Len(E) : /\ F[e].parent = E[e].parent
                               /\ (n \in Held(F[e]) <=> n \in Held(E[e]))
                               /\ n \in Held(E[e]) => own(F[e], n) = own(E[e], n)
    BY <1>1
  <2>3. QED
    BY <1>2, <2>1, <2>2, FoundSame
<1>6. QED
  BY <1>1, <1>4, <1>5 DEF F

EnvIsSet(F, E, r, f) == F = [E EXCEPT ![r] = f]

LEMMA SetEnv ==
  ASSUME NEW E, EnvsFine(E), NEW r \in 1 .. Len(E), NEW f, IsEnv(f), f.parent = E[r].parent,
         NEW F, EnvIsSet(F, E, r, f)
  PROVE  /\ EnvsFine(F) /\ Len(F) = Len(E)
         /\ F[r] = f /\ \A e \in 1 .. Len(E) : e # r => F[e] = E[e]
         /\ \A n : /\ (n \in Held(f) <=> n \in Held(E[r]))
                   /\ n \in Held(E[r]) => own(f, n) = own(E[r], n)
                   => \A e \in 0 .. Len(E) : Found(F, e, n) = Found(E, e, n)
<1>1. Listed(F) /\ Len(F) = Len(E) /\ F[r] = f /\ \A e \in 1 .. Len(E) : e # r => F[e] = E[e]
  <2> DEFINE G == [E EXCEPT ![r] = f]
  <2>1. Listed(G) /\ Len(G) = Len(E) /\ G[r] = f /\ \A e \in 1 .. Len(E) : e # r => G[e] = E[e]
    BY ListSet DEF EnvsFine
  <2>2. F = G
    BY DEF EnvIsSet
  <2> HIDE DEF G
  <2>3. QED
    BY <2>1, <2>2
<1>2. Len(E) \in Nat
  BY ListIs DEF EnvsFine
<1>3. \A e \in 1 .. Len(E) : F[e].parent = E[e].parent /\ IsEnv(F[e])
  BY <1>1 DEF EnvsFine
<1>4. EnvsFine(F)
  BY <1>1, <1>3 DEF EnvsFine, Nested
<1>5. ASSUME NEW n, n \in Held(f) <=> n \in Held(E[r]), n \in Held(E[r]) => own(f, n) = own(E[r], n)
      PROVE  \A e \in 0 .. Len(E) : Found(F, e, n) = Found(E, e, n)
  <2>1. Len(F) \in Nat /\ Len(E) <= Len(F) /\ Nested(E) /\ Nested(F)
    BY <1>1, <1>2, <1>4 DEF EnvsFine
  <2>2. \A e \in 1 .. Len(E) : /\ F[e].parent = E[e].parent
                               /\ (n \in Held(F[e]) <=> n \in Held(E[e]))
                               /\ n \in Held(E[e]) => own(F[e], n) = own(E[e], n)
    BY <1>1, <1>3, <1>5
  <2>3. QED
    BY <1>2, <2>1, <2>2, FoundSame
<1>6. QED
  BY <1>1, <1>4, <1>5

(* The scopes around are converted.                                        *)
Viewed(F, E, W) ==
  F = [e \in DOMAIN E |-> IF e \in W /\ ~ E[e].big THEN vars_view(E[e]) ELSE E[e]]

LEMMA ViewEnvs ==
  ASSUME NEW E, EnvsFine(E), NEW W, NEW F, Viewed(F, E, W)
  PROVE  /\ EnvsFine(F) /\ Len(F) = Len(E)
         /\ \A e \in 1 .. Len(E) : /\ F[e].parent = E[e].parent /\ Held(F[e]) = Held(E[e])
                                   /\ \A n \in Held(E[e]) : own(F[e], n) = own(E[e], n)
                                   /\ F[e].big \/ F[e] = E[e]
         /\ \A n : \A e \in 0 .. Len(E) : Found(F, e, n) = Found(E, e, n)
<1>1. Len(E) \in Nat /\ DOMAIN E = 1 .. Len(E) /\ \A e \in 1 .. Len(E) : IsEnv(E[e])
  BY ListIs DEF EnvsFine
<1>2. DOMAIN F = 1 .. Len(E) /\ F = [e \in 1 .. Len(E) |-> F[e]]
  BY <1>1 DEF Viewed
<1>3. Listed(F) /\ Len(F) = Len(E)
  BY <1>1, <1>2, ListMap
<1>4. ASSUME NEW e \in 1 .. Len(E)
      PROVE  /\ F[e].parent = E[e].parent /\ Held(F[e]) = Held(E[e]) /\ IsEnv(F[e])
             /\ \A n \in Held(E[e]) : own(F[e], n) = own(E[e], n)
             /\ F[e].big \/ F[e] = E[e]
  <2>1. F[e] = vars_view(E[e]) \/ F[e] = E[e]
    BY <1>1 DEF Viewed
  <2>2. IsEnv(E[e])
    BY <1>1
  <2>3. CASE F[e] = E[e]
    BY <2>2, <2>3
  <2>4. CASE F[e] = vars_view(E[e])
    <3> DEFINE x == E[e]
    <3>1. IsEnv(x)
      BY <2>2
    <3> HIDE DEF x
    <3>2. /\ IsEnv(vars_view(x)) /\ vars_view(x).big /\ vars_view(x).parent = x.parent
          /\ Held(vars_view(x)) = Held(x) /\ \A n \in Held(x) : own(vars_view(x), n) = own(x, n)
      BY <3>1, ViewIs
    <3>3. QED
      BY <2>4, <3>2 DEF x
  <2>5. QED
    BY <2>1, <2>3, <2>4
<1>5. EnvsFine(F)
  BY <1>3, <1>4 DEF EnvsFine, Nested
<1>6. \A n : \A e \in 0 .. Len(E) : Found(F, e, n) = Found(E, e, n)
  <2> TAKE n
  <2>1. Len(F) \in Nat /\ Len(E) <= Len(F) /\ Nested(E) /\ Nested(F)
    BY <1>1, <1>3, <1>5 DEF EnvsFine
  <2>2. \A e \in 1 .. Len(E) : /\ F[e].parent = E[e].parent
                               /\ (n \in Held(F[e]) <=> n \in Held(E[e]))
                               /\ n \in Held(E[e]) => own(F[e], n) = own(E[e], n)
    BY <1>4
  <2>3. QED
    BY <1>1, <2>1, <2>2, FoundSame
<1>7. QED
  BY <1>3, <1>4, <1>5, <1>6

-----------------------------------------------------------------------------
(* Parts of the state when others change. *)

LEMMA StackGrows ==
  ASSUME NEW K, NEW N \in Nat, StackFine(K, N), NEW M \in Nat, N <= M
  PROVE  StackFine(K, M)
<1>1. \A e \in 1 .. N : e \in 1 .. M
  OBVIOUS
<1>2. QED
  BY <1>1 DEF StackFine, EntryFine

LEMMA ClosuresGrow ==
  ASSUME NEW C, NEW N \in Nat, ClosuresFine(C, N), NEW M \in Nat, N <= M
  PROVE  ClosuresFine(C, M)
<1>1. \A e \in 1 .. N : e \in 1 .. M
  OBVIOUS
<1>2. QED
  BY <1>1 DEF ClosuresFine

LEMMA PoolKept ==
  ASSUME NEW P, NEW E, NEW K, PoolFine(P, E, K), NEW F, Len(E) \in Nat, Len(F) \in Nat, Len(E) <= Len(F),
         \A e \in 2 .. Len(E) : (\E d \in Decls : \E k \in DOMAIN P[d].envs : P[d].envs[k] = e) =>
             \A params \in Seq(Names) : HasParams(E[e], params) => HasParams(F[e], params)
  PROVE  PoolFine(P, F, K)
<1>1. \A e \in 2 .. Len(E) : e \in 2 .. Len(F)
  OBVIOUS
<1>2. QED
  BY <1>1, ParamsAre DEF PoolFine

LEMMA CacheKept ==
  ASSUME NEW C, NEW E, CacheFine(C, E), NEW F, Len(E) \in Nat, Len(F) \in Nat, Len(E) <= Len(F),
         NEW D, DOMAIN D = Names,
         \A n \in Names : \/ D[n] = Cold
                          \/ (D[n] = C[n] /\ \A e \in 0 .. Len(E) : Found(F, e, n) = Found(E, e, n))
  PROVE  CacheFine(D, F)
<1>1. \A e \in 1 .. Len(E) : e \in 0 .. Len(E) /\ e \in 1 .. Len(F)
  OBVIOUS
<1>2. QED
  BY <1>1 DEF CacheFine

LEMMA PushFine ==
  ASSUME NEW K, NEW N \in Nat, StackFine(K, N), NEW M \in Nat, N <= M,
         NEW x, EntryFine(x, M), x.kind # "top"
  PROVE  StackFine(Append(K, x), M)
<1> DEFINE A == Append(K, x)
<1>1. StackFine(K, M) /\ Len(K) \in Nat
  BY StackGrows, ListIs DEF StackFine
<1>2. Listed(A) /\ Len(A) = Len(K) + 1 /\ A[Len(K) + 1] = x /\ \A i \in 1 .. Len(K) : A[i] = K[i]
  BY ListAppend DEF StackFine
<1> HIDE DEF A
<1>3. Len(A) >= 1 /\ A[1] = K[1] /\ \A d \in 1 .. Len(A) : d \in 1 .. Len(K) \/ (d = Len(K) + 1 /\ d # 1)
  BY <1>1, <1>2 DEF StackFine
<1>4. QED
  BY <1>1, <1>2, <1>3 DEF StackFine, A

LEMMA TakeFine ==
  ASSUME NEW K, NEW N, StackFine(K, N), NEW n \in 1 .. Len(K)
  PROVE  StackFine(SubSeq(K, 1, n), N)
<1> DEFINE A == SubSeq(K, 1, n)
<1>1. Len(K) \in Nat
  BY ListIs DEF StackFine
<1>2. Listed(A) /\ Len(A) = n /\ \A i \in 1 .. n : A[i] = K[i]
  BY <1>1, ListTake DEF StackFine
<1> HIDE DEF A
<1>3. 1 \in 1 .. n /\ \A i \in 1 .. n : i \in 1 .. Len(K)
  BY <1>1
<1>4. QED
  BY <1>2, <1>3 DEF StackFine, A

(* A stack whose entries were on the other, or are not refilled loops.     *)
LEMMA PoolOver ==
  ASSUME NEW P, NEW E, NEW K, PoolFine(P, E, K), NEW A,
         \A i \in 1 .. Len(A) : \/ \E j \in 1 .. Len(K) : A[i].env = K[j].env /\ (Refilled(A[i]) => Refilled(K[j]))
                                \/ ~ Refilled(A[i])
                                \/ \A d \in Decls : \A k \in DOMAIN P[d].envs : A[i].env # P[d].envs[k]
  PROVE  PoolFine(P, E, A)
BY DEF PoolFine

LEMMA TopIs ==
  ASSUME NEW K, NEW N \in Nat, StackFine(K, N)
  PROVE  /\ Len(K) \in Nat /\ Len(K) \in 1 .. Len(K) /\ Last(K) = K[Len(K)]
         /\ Last(K).env \in 1 .. N /\ Last(K).home \in Nat /\ Last(K).var \in Names \cup {"none"}
<1>1. Len(K) \in Nat /\ Len(K) \in 1 .. Len(K)
  BY ListIs DEF StackFine
<1>2. QED
  BY <1>1 DEF StackFine, EntryFine, Last

LEMMA NewSlotsIs ==
  ASSUME Listed(cells), NEW values, Listed(values), NEW mutable, NewSlots(values, mutable)
  PROVE  /\ Listed(cells') /\ Len(cells') = Len(cells) + Len(values)
         /\ \A i \in 1 .. Len(cells) : cells'[i] = cells[i]
         /\ \A i \in 1 .. Len(values) :
              cells'[Len(cells) + i] = [value |-> values[i], mutable |-> mutable]
<1> DEFINE new == [i \in DOMAIN values |-> [value |-> values[i], mutable |-> mutable]]
<1>1. Len(values) \in Nat /\ DOMAIN values = 1 .. Len(values)
  BY ListIs
<1>2. DOMAIN new = 1 .. Len(values) /\ \A i \in 1 .. Len(values) : new[i] = [value |-> values[i], mutable |-> mutable]
  BY <1>1
<1>3. new = [i \in 1 .. Len(values) |-> new[i]]
  BY <1>1
<1>4. cells' = cells \o new
  BY DEF NewSlots
<1>5. Joined(cells', cells, new)
  BY <1>4 DEF Joined
<1> HIDE DEF new
<1>6. Listed(new) /\ Len(new) = Len(values)
  BY <1>1, <1>2, <1>3, ListMap
<1>7. /\ Listed(cells') /\ Len(cells') = Len(cells) + Len(new)
      /\ \A i \in 1 .. Len(cells) : cells'[i] = cells[i]
      /\ \A i \in 1 .. Len(new) : cells'[Len(cells) + i] = new[i]
  BY <1>5, <1>6, ListConcat
<1>8. QED
  BY <1>2, <1>6, <1>7

LEMMA ShortLists ==
  /\ Listed(<<>>) /\ Len(<<>>) = 0
  /\ \A x : Listed(<<x>>) /\ Len(<<x>>) = 1 /\ <<x>>[1] = x
<1>1. Listed(<<>>) /\ Len(<<>>) = 0
  BY DEF Listed
<1>2. ASSUME NEW x PROVE Listed(<<x>>) /\ Len(<<x>>) = 1 /\ <<x>>[1] = x
  <2>1. <<x>> \in Seq({x})
    OBVIOUS
  <2>2. QED
    BY <2>1 DEF Listed
<1>3. QED
  BY <1>1, <1>2

LEMMA InitShape == Init => Shape
<1> SUFFICES ASSUME Init PROVE Shape
  OBVIOUS
<1>1. envs = <<Env(0)>> /\ Listed(envs) /\ Len(envs) = 1 /\ envs[1] = Env(0)
  BY ShortLists DEF Init
<1>2. EnvsFine(envs)
  <2>1. \A e \in 1 .. Len(envs) : e = 1
    BY <1>1
  <2>2. IsEnv(Env(0)) /\ Env(0).parent = 0 /\ 0 \in 0 .. 1 - 1
    BY NewIs
  <2>3. QED
    BY <1>1, <2>1, <2>2 DEF EnvsFine, Nested
<1>3. Listed(cells)
  BY ShortLists DEF Init
<1>4. StackFine(stack, Len(envs))
  <2> DEFINE x == In(L!Entry("top", 1, "none"), 1, 0)
  <2>1. x = [kind |-> "top", scope |-> 1, decl |-> "none", body |-> "binding", var |-> "none",
             env |-> 1, home |-> 0]
    BY DEF In, L!Entry
  <2>2. stack = <<x>>
    BY DEF Init
  <2> HIDE DEF x
  <2>3. Listed(stack) /\ Len(stack) = 1 /\ stack[1] = x
    BY <2>2, ShortLists
  <2>4. EntryFine(x, 1) /\ x.kind = "top" /\ x.env = 1
    BY <2>1 DEF EntryFine
  <2>5. \A d \in 1 .. Len(stack) : d = 1
    BY <2>3
  <2>6. QED
    BY <1>1, <2>3, <2>4, <2>5 DEF StackFine
<1>5. ClosuresFine(closures, Len(envs))
  <2>1. Named \in Seq(ToSet(Named))
    BY ScopesAssumption DEF ScopesAssumption
  <2>2. Len(Named) \in Nat /\ DOMAIN Named = 1 .. Len(Named)
    BY <2>1, LenProperties
  <2>3. /\ DOMAIN closures = 1 .. Len(Named)
        /\ \A c \in 1 .. Len(Named) : closures[c] = [kind |-> "fn", decl |-> Named[c], scope |-> 1, env |-> 1]
        /\ closures = [c \in 1 .. Len(Named) |-> closures[c]]
    BY <2>2 DEF Init
  <2>4. Listed(closures) /\ Len(closures) = Len(Named)
    BY <2>2, <2>3, ListMap
  <2>5. \A c \in 1 .. Len(Named) : Named[c] \in Decls
    BY <2>2 DEF Decls, L!Decls, L!ToSet
  <2>6. QED
    BY <1>1, <2>3, <2>4, <2>5 DEF ClosuresFine
<1>6. PoolFine(pool, envs, stack)
  <2>1. DOMAIN pool = Decls /\ \A d \in Decls : DOMAIN pool[d].envs = {}
    BY DEF Init
  <2>2. QED
    BY <2>1 DEF PoolFine
<1>7. CacheFine(cache, envs)
  BY DEF Init, CacheFine
<1>8. QED
  BY <1>2, <1>3, <1>4, <1>5, <1>6, <1>7 DEF Shape

LEMMA Sizes ==
  ASSUME Shape
  PROVE  /\ Len(envs) \in Nat /\ Len(cells) \in Nat /\ Len(closures) \in Nat /\ DOMAIN closures = 1 .. Len(closures)
         /\ DOMAIN envs = 1 .. Len(envs) /\ DOMAIN cells = 1 .. Len(cells) /\ DOMAIN stack = 1 .. Len(stack)
         /\ Len(stack) \in Nat /\ Len(stack) \in 1 .. Len(stack) /\ Running = stack[Len(stack)]
         /\ Running.env \in 1 .. Len(envs) /\ Running.env \in 0 .. Len(envs)
         /\ Running.home \in Nat /\ Running.var \in Names \cup {"none"}
<1>1. Len(envs) \in Nat /\ DOMAIN envs = 1 .. Len(envs)
  BY ListIs DEF Shape, EnvsFine
<1>2. Len(cells) \in Nat /\ DOMAIN cells = 1 .. Len(cells)
  BY ListIs DEF Shape
<1>3. Len(closures) \in Nat /\ DOMAIN closures = 1 .. Len(closures)
  BY ListIs DEF Shape, ClosuresFine
<1>4. DOMAIN stack = 1 .. Len(stack)
  BY ListIs DEF Shape, StackFine
<1>5. StackFine(stack, Len(envs)) /\ Running = Last(stack)
  BY DEF Shape, Running
<1>6. /\ Len(stack) \in Nat /\ Len(stack) \in 1 .. Len(stack) /\ Running = stack[Len(stack)]
      /\ Running.env \in 1 .. Len(envs)
      /\ Running.home \in Nat /\ Running.var \in Names \cup {"none"}
  BY <1>1, <1>5, TopIs
<1>7. Running.env \in 0 .. Len(envs)
  BY <1>1, <1>6
<1>8. QED
  BY <1>1, <1>2, <1>3, <1>4, <1>6, <1>7

(* What a cache answers is what a walk answers.                            *)
LEMMA ResolveIs ==
  ASSUME Shape, NEW n \in Names, NEW cached
  PROVE  Resolve(n, cached) = slot(Running.env, n) /\ (Hit(n) => cache[n].slot = slot(Running.env, n))
<1>1. Hit(n) => cache[n].slot = slot(Running.env, n)
  <2> SUFFICES ASSUME Hit(n) PROVE cache[n].slot = slot(Running.env, n)
    OBVIOUS
  <2>1. cache[n].env = Running.env
    BY DEF Hit
  <2>2. cache[n] # Cold
    <3>1. Cold.env = 0
      BY DEF Cold
    <3>2. Running.env # 0
      BY Sizes
    <3>3. QED
      BY <2>1, <3>1, <3>2
  <2>3. QED
    BY <2>1, <2>2, SlotFound DEF Shape, CacheFine
<1>2. QED
  BY <1>1 DEF Resolve

LEMMA RememberFine ==
  ASSUME Shape, NEW n \in Names, NEW cached, Remember(n, cached)
  PROVE  CacheFine(cache', envs)
<1>1. CASE cached
  <2> DEFINE r == Running.env
             s == Resolve(n, TRUE)
             x == [env |-> r, slot |-> s]
  <2>1. cache' = [cache EXCEPT ![n] = x]
    BY <1>1 DEF Remember
  <2>2. r \in 1 .. Len(envs) /\ s = Found(envs, r, n)
    BY Sizes, ResolveIs, SlotFound
  <2>3. x.env = r /\ x.slot = s
    OBVIOUS
  <2> HIDE DEF r, s, x
  <2>4. DOMAIN cache = Names
    BY DEF Shape, CacheFine
  <2>5. DOMAIN cache' = Names /\ cache'[n] = x /\ \A m \in Names : m # n => cache'[m] = cache[m]
    BY <2>1, <2>4
  <2>6. QED
    BY <2>2, <2>3, <2>5 DEF Shape, CacheFine
<1>2. CASE ~ cached
  BY <1>2 DEF Remember, Shape
<1>3. QED
  BY <1>1, <1>2

LEMMA BumpFine ==
  ASSUME Shape, NEW names, bump(names), Len(envs') \in Nat, Len(envs) <= Len(envs'),
         \A n \in Names : n \notin names => \A e \in 0 .. Len(envs) : Found(envs', e, n) = Found(envs, e, n)
  PROVE  CacheFine(cache', envs')
<1>1. DOMAIN cache' = Names /\ \A n \in Names : cache'[n] = IF n \in names THEN Cold ELSE cache[n]
  BY DEF bump
<1>2. CacheFine(cache, envs) /\ Len(envs) \in Nat
  BY Sizes DEF Shape
<1>3. \A n \in Names : \/ cache'[n] = Cold
                       \/ (cache'[n] = cache[n] /\ \A e \in 0 .. Len(envs) : Found(envs', e, n) = Found(envs, e, n))
  BY <1>1
<1>4. QED
  BY <1>1, <1>2, <1>3, CacheKept

LEMMA ReadShape ==
  ASSUME Shape, NEW n \in Names, NEW cached, Read(n, cached)
  PROVE  Shape'
<1>1. CacheFine(cache', envs)
  BY RememberFine DEF Read
<1>2. QED
  BY <1>1 DEF Read, Shape, Calling

LEMMA FailShape ==
  ASSUME Shape, NEW n \in Names, NEW depth \in DOMAIN stack, Fail(n, depth)
  PROVE  Shape'
<1> DEFINE W == Outwards(Running.env)
<1>1. Viewed(envs', envs, W)
  BY DEF Fail, Viewed
<1> HIDE DEF W
<1>2. EnvsFine(envs)
  BY DEF Shape
<1>3. /\ EnvsFine(envs') /\ Len(envs') = Len(envs)
      /\ (\A e \in 1 .. Len(envs) : envs'[e].big \/ envs'[e] = envs[e])
      /\ \A m : \A e \in 0 .. Len(envs) : Found(envs', e, m) = Found(envs, e, m)
  BY <1>1, <1>2, ViewEnvs
<1>4. Len(envs) \in Nat /\ depth \in 1 .. Len(stack)
  BY Sizes
<1>5. StackFine(stack', Len(envs'))
  BY <1>3, <1>4, TakeFine DEF Fail, Shape
<1>6. \A i \in 1 .. Len(stack') : \E j \in 1 .. Len(stack) : stack'[i].env = stack[j].env /\ (Refilled(stack'[i]) => Refilled(stack[j]))
  <2>1. depth \in 0 .. Len(stack) /\ \A i \in 1 .. depth : i \in 1 .. Len(stack)
    BY <1>4, Sizes
  <2>2. stack' = SubSeq(stack, 1, depth) /\ Listed(stack)
    BY DEF Fail, Shape, StackFine
  <2>3. Len(stack') = depth /\ \A i \in 1 .. depth : stack'[i] = stack[i]
    BY <2>1, <2>2, ListTake
  <2>4. QED
    BY <2>1, <2>3
<1>7. PoolFine(pool', envs', stack')
  <2>1. pool' = pool
    BY DEF Fail, Calling
  <2>2. \A e \in 2 .. Len(envs) : \A params \in Seq(Names) : HasParams(envs[e], params) => HasParams(envs'[e], params)
    <3>1. \A e \in 2 .. Len(envs) : e \in 1 .. Len(envs)
      BY <1>4
    <3>2. QED
      BY <1>3, <3>1 DEF HasParams
  <2>3. PoolFine(pool, envs', stack)
    BY <1>3, <1>4, <2>2, PoolKept DEF Shape
  <2>4. QED
    BY <1>6, <2>1, <2>3, PoolOver
<1>8. CacheFine(cache', envs')
  BY <1>3 DEF Fail, Shape, CacheFine
<1>9. QED
  BY <1>3, <1>5, <1>7, <1>8 DEF Fail, Shape

LEMMA AssignShape ==
  ASSUME Shape, NEW n \in Names, NEW cached, Assign(n, cached)
  PROVE  Shape'
<1>1. CacheFine(cache', envs)
  BY RememberFine DEF Assign
<1>2. Listed(cells')
  <2> DEFINE s == Resolve(n, cached)
  <2>1. PICK x : cells' = [cells EXCEPT ![s] = x]
    BY DEF Assign
  <2>2. Len(cells) \in Nat /\ DOMAIN cells = 1 .. Len(cells)
    BY Sizes
  <2> HIDE DEF s
  <2>3. DOMAIN cells' = 1 .. Len(cells) /\ cells' = [i \in 1 .. Len(cells) |-> cells'[i]]
    BY <2>1, <2>2
  <2>4. QED
    BY <2>2, <2>3, ListMap
<1>3. QED
  BY <1>1, <1>2 DEF Assign, Shape, Calling

LEMMA DeclareShape ==
  ASSUME Shape, NEW n \in Names, Declare(n)
  PROVE  Shape'
<1> DEFINE r == Running.env
           e == envs[r]
           d == IF Running.kind = "top" THEN deleteVar(e, n) ELSE e
           c == Len(cells) + 1
           f == putSlot(d, n, c)
<1>1. r \in 1 .. Len(envs) /\ c \in Nat /\ Len(envs) \in Nat /\ IsEnv(e) /\ Len(cells) \in Nat
  BY Sizes DEF Shape, EnvsFine
<1>2. envs' = [envs EXCEPT ![r] = f] /\ bump({n}) /\ UNCHANGED <<stack, closures, pool>>
  BY DEF Declare, Calling
<1> HIDE DEF r, c
<1>3. IsEnv(d) /\ d.parent = e.parent /\ \A m \in Names : m # n => (m \in Held(d) <=> m \in Held(e)) /\ (m \in Held(e) => own(d, m) = own(e, m))
  <2>1. CASE Running.kind = "top"
    <3> HIDE DEF e
    <3>1. /\ IsEnv(deleteVar(e, n)) /\ deleteVar(e, n).parent = e.parent
          /\ Held(deleteVar(e, n)) = Held(e) \ {n}
          /\ \A m \in Held(e) \ {n} : own(deleteVar(e, n), m) = own(e, m)
      BY <1>1, DeleteIs
    <3>2. QED
      BY <2>1, <3>1
  <2>2. CASE ~ (Running.kind = "top")
    BY <1>1, <2>2
  <2>3. QED
    BY <2>1, <2>2
<1> HIDE DEF d
<1>4. /\ IsEnv(f) /\ f.parent = d.parent /\ Held(f) = Held(d) \cup {n}
      /\ \A m \in Held(d) \ {n} : own(f, m) = own(d, m)
      /\ n \notin Held(d) => \A params \in Seq(Names) : HasParams(d, params) => HasParams(f, params)
  BY <1>1, <1>3, PutIs
<1> HIDE DEF f
<1>5. EnvsFine(envs) /\ f.parent = envs[r].parent
  BY <1>3, <1>4 DEF Shape
<1>6. /\ EnvsFine(envs') /\ Len(envs') = Len(envs) /\ envs'[r] = f
      /\ \A x \in 1 .. Len(envs) : x # r => envs'[x] = envs[x]
      /\ \A m : /\ (m \in Held(f) <=> m \in Held(envs[r]))
                /\ m \in Held(envs[r]) => own(f, m) = own(envs[r], m)
                => \A x \in 0 .. Len(envs) : Found(envs', x, m) = Found(envs, x, m)
  <2>1. EnvIsSet(envs', envs, r, f)
    BY <1>2 DEF EnvIsSet
  <2>2. QED
    BY <1>1, <1>4, <1>5, <2>1, SetEnv
<1>7. CacheFine(cache', envs')
  <2>1. ASSUME NEW m \in Names, m \notin {n} PROVE \A x \in 0 .. Len(envs) : Found(envs', x, m) = Found(envs, x, m)
    <3>1. m \in Held(f) <=> m \in Held(envs[r])
      BY <1>3, <1>4, <2>1
    <3>2. m \in Held(envs[r]) => own(f, m) = own(envs[r], m)
      BY <1>3, <1>4, <2>1
    <3>3. QED
      BY <1>6, <3>1, <3>2
  <2> DEFINE names == {n}
  <2>2. bump(names) /\ \A m \in Names : m \notin names => \A x \in 0 .. Len(envs) : Found(envs', x, m) = Found(envs, x, m)
    BY <1>2, <2>1
  <2> HIDE DEF names
  <2>3. Len(envs') \in Nat /\ Len(envs) <= Len(envs')
    BY <1>1, <1>6
  <2>4. QED
    BY <2>2, <2>3, BumpFine
<1>8. Listed(cells')
  BY NewSlotsIs, ShortLists DEF Declare, Shape
<1>9. PoolFine(pool, envs', stack)
  <2>1. ASSUME NEW x \in 2 .. Len(envs), NEW params \in Seq(Names), HasParams(envs[x], params)
        PROVE  HasParams(envs'[x], params)
    <3>1. x \in 1 .. Len(envs) /\ x # 1
      BY <1>1
    <3>2. CASE x # r
      BY <1>6, <2>1, <3>1, <3>2
    <3>3. CASE x = r
      <4>1. Running.kind # "top"
        <5>1. Running.kind = "top" => r = 1
          BY Sizes DEF Shape, StackFine, r
        <5>2. QED
          BY <3>1, <3>3, <5>1
      <4>2. n \notin Held(e) /\ d = e
        BY <4>1 DEF Declare, d, r
      <4>3. QED
        BY <1>4, <1>6, <2>1, <3>3, <4>2
    <3>4. QED
      BY <3>2, <3>3
  <2>2. QED
    BY <1>1, <1>6, <2>1, PoolKept DEF Shape
<1>10. QED
  BY <1>2, <1>6, <1>7, <1>8, <1>9 DEF Shape

(* A new scope on top of the stack, in one Env of its own.                 *)
LEMMA EnvPushed ==
  ASSUME Shape, NEW f, IsEnv(f), f.parent \in 1 .. Len(envs), NewEnv(f),
         NEW entry, entry.kind # "top", entry.var \in Names \cup {"none"},
         NEW home \in Nat, Push(entry, Len(envs'), home)
  PROVE  /\ EnvsFine(envs') /\ StackFine(stack', Len(envs')) /\ ClosuresFine(closures, Len(envs'))
         /\ PoolFine(pool, envs', stack') /\ Len(envs') = Len(envs) + 1
         /\ \A m : \A e \in 0 .. Len(envs) : Found(envs', e, m) = Found(envs, e, m)
<1>1. Len(envs) \in Nat /\ EnvsFine(envs) /\ f.parent \in 0 .. Len(envs) /\ envs' = Append(envs, f)
  BY Sizes DEF Shape, NewEnv
<1>2. /\ EnvsFine(envs') /\ Len(envs') = Len(envs) + 1
      /\ \A e \in 1 .. Len(envs) : envs'[e] = envs[e]
      /\ \A m : \A e \in 0 .. Len(envs) : Found(envs', e, m) = Found(envs, e, m)
  BY <1>1, AppendEnv
<1> DEFINE x == In(entry, Len(envs'), home)
<1>3. EntryFine(x, Len(envs')) /\ x.kind # "top" /\ x.env = Len(envs')
  <2>1. x = [kind |-> entry.kind, scope |-> entry.scope, decl |-> entry.decl, body |-> entry.body,
             var |-> entry.var, env |-> Len(envs'), home |-> home]
    BY DEF In
  <2> HIDE DEF x
  <2>2. /\ x.kind = entry.kind /\ x.var = entry.var /\ x.env = Len(envs') /\ x.home = home
        /\ x = [kind |-> x.kind, scope |-> x.scope, decl |-> x.decl, body |-> x.body,
                var |-> x.var, env |-> x.env, home |-> x.home]
    BY <2>1
  <2>3. Len(envs') \in 1 .. Len(envs')
    BY <1>1, <1>2
  <2>4. QED
    BY <2>2, <2>3 DEF EntryFine
<1>4. stack' = Append(stack, x)
  BY DEF Push
<1> HIDE DEF x
<1>5. Len(envs') \in Nat /\ Len(envs) <= Len(envs')
  BY <1>1, <1>2
<1>6. StackFine(stack', Len(envs'))
  BY <1>1, <1>3, <1>4, <1>5, PushFine DEF Shape
<1>7. PoolFine(pool, envs', stack')
  <2>1. \A e \in 2 .. Len(envs) : e \in 1 .. Len(envs) /\ e # Len(envs')
    BY <1>1, <1>2
  <2>2. PoolFine(pool, envs', stack)
    BY <1>1, <1>2, <1>5, <2>1, PoolKept DEF Shape
  <2>3. Listed(stack) /\ Len(stack) \in Nat
    BY Sizes DEF Shape, StackFine
  <2>4. Len(stack') = Len(stack) + 1 /\ stack'[Len(stack) + 1] = x /\ \A i \in 1 .. Len(stack) : stack'[i] = stack[i]
    BY <1>4, <2>3, ListAppend
  <2>5. \A i \in 1 .. Len(stack') : i \in 1 .. Len(stack) \/ i = Len(stack) + 1
    BY <2>3, <2>4
  <2>6. \A d \in Decls : \A k \in DOMAIN pool[d].envs : x.env # pool[d].envs[k]
    BY <1>3, <2>1 DEF Shape, PoolFine
  <2>7. QED
    BY <2>2, <2>4, <2>5, <2>6, PoolOver
<1>8. ClosuresFine(closures, Len(envs'))
  BY <1>1, <1>5, ClosuresGrow DEF Shape
<1>9. QED
  BY <1>2, <1>6, <1>7, <1>8

LEMMA EnterBlockShape ==
  ASSUME Shape, EnterBlock
  PROVE  Shape'
<1> DEFINE f == Env(Running.env)
           entry == L!Entry("block", Len(scopes'), "none")
<1>1. IsEnv(f) /\ f.parent = Running.env
  BY NewIs
<1>2. NewEnv(f) /\ Push(entry, Len(envs'), 0) /\ UNCHANGED <<closures, cells, cache, pool>>
  BY DEF EnterBlock, Calling
<1>3. entry.kind # "top" /\ entry.var \in Names \cup {"none"}
  BY DEF L!Entry
<1>4. f.parent \in 1 .. Len(envs)
  BY <1>1, Sizes
<1> HIDE DEF f, entry
<1>5. /\ EnvsFine(envs') /\ StackFine(stack', Len(envs')) /\ ClosuresFine(closures, Len(envs'))
      /\ PoolFine(pool, envs', stack') /\ Len(envs') = Len(envs) + 1
      /\ \A m : \A e \in 0 .. Len(envs) : Found(envs', e, m) = Found(envs, e, m)
  BY <1>1, <1>2, <1>3, <1>4, EnvPushed
<1>6. CacheFine(cache, envs')
  <2>1. CacheFine(cache, envs) /\ DOMAIN cache = Names /\ Len(envs) \in Nat /\ Len(envs') \in Nat /\ Len(envs) <= Len(envs')
    BY <1>5, Sizes DEF Shape, CacheFine
  <2>2. QED
    BY <1>5, <2>1, CacheKept
<1>7. QED
  BY <1>2, <1>5, <1>6 DEF Shape

(* The Env of a pass.                                                      *)
FirstEnv(p, var, c) == IF var = "none" THEN Env(p) ELSE putSlot(Env(p), var, c)

LEMMA FirstIs ==
  ASSUME NEW p, NEW var \in Names \cup {"none"}, NEW c \in Nat
  PROVE  /\ IsEnv(FirstEnv(p, var, c)) /\ FirstEnv(p, var, c).parent = p
         /\ Held(FirstEnv(p, var, c)) = {var} \ {"none"}
         /\ var # "none" => own(FirstEnv(p, var, c), var) = c
<1>1. IsEnv(Env(p)) /\ Held(Env(p)) = {} /\ Env(p).parent = p
  BY NewIs
<1> DEFINE e == Env(p)
           f == FirstEnv(p, var, c)
<1>2. CASE var = "none"
  <2>1. f = e
    BY <1>2 DEF FirstEnv
  <2> HIDE DEF f, e
  <2>2. QED
    BY <1>1, <1>2, <2>1 DEF f, e
<1>3. CASE var # "none"
  <2>1. f = putSlot(e, var, c) /\ var \in Names
    BY <1>3 DEF FirstEnv
  <2>2. IsEnv(e) /\ Held(e) = {} /\ e.parent = p
    BY <1>1
  <2> HIDE DEF f, e
  <2>3. IsEnv(f) /\ f.parent = e.parent /\ Held(f) = Held(e) \cup {var} /\ own(f, var) = c
    BY <2>1, <2>2, PutIs
  <2>4. "none" \notin Names
    BY ScopesAssumption DEF ScopesAssumption
  <2>5. IsEnv(f) /\ f.parent = p /\ Held(f) = {var} \ {"none"} /\ own(f, var) = c
    BY <2>1, <2>2, <2>3, <2>4
  <2>6. QED
    BY <2>5 DEF f
<1>4. QED
  BY <1>2, <1>3

LEMMA NewPassIs ==
  ASSUME Shape, NEW p, NEW var, NewPass(p, var)
  PROVE  /\ NewEnv(FirstEnv(p, var, Len(cells) + 1)) /\ bump({var})
         /\ Listed(cells') /\ Len(cells') = Len(cells) + (IF var = "none" THEN 0 ELSE 1)
         /\ \A i \in 1 .. Len(cells) : cells'[i] = cells[i]
         /\ var # "none" => cells'[Len(cells) + 1] = [value |-> L!Newest, mutable |-> FALSE]
<1> DEFINE values == IF var = "none" THEN <<>> ELSE <<L!Newest>>
           no == FALSE
<1>1. NewEnv(FirstEnv(p, var, Len(cells) + 1)) /\ bump({var}) /\ NewSlots(values, no)
  BY DEF NewPass, PassEnv, FirstEnv
<1>2. Listed(values) /\ Len(values) = (IF var = "none" THEN 0 ELSE 1) /\ (var # "none" => values[1] = L!Newest)
  BY ShortLists
<1>3. Listed(cells)
  BY DEF Shape
<1> HIDE DEF values
<1>4. /\ Listed(cells') /\ Len(cells') = Len(cells) + Len(values)
      /\ \A i \in 1 .. Len(cells) : cells'[i] = cells[i]
      /\ \A i \in 1 .. Len(values) : cells'[Len(cells) + i] = [value |-> values[i], mutable |-> no]
  <2> HIDE DEF no
  <2>1. NewSlots(values, no) /\ Listed(values) /\ Listed(cells)
    BY <1>1, <1>2, <1>3
  <2>2. QED
    BY <2>1, NewSlotsIs
<1>5. var # "none" => cells'[Len(cells) + 1] = [value |-> L!Newest, mutable |-> no]
  <2> SUFFICES ASSUME var # "none" PROVE cells'[Len(cells) + 1] = [value |-> L!Newest, mutable |-> no]
    OBVIOUS
  <2>1. 1 \in 1 .. Len(values) /\ values[1] = L!Newest
    BY <1>2
  <2> HIDE DEF no
  <2>2. cells'[Len(cells) + 1] = [value |-> values[1], mutable |-> no]
    BY <1>4, <2>1
  <2>3. QED
    BY <2>1, <2>2
<1>6. QED
  BY <1>1, <1>2, <1>4, <1>5

LEMMA EnterLoopShape ==
  ASSUME Shape, NEW body, NEW var \in LoopVars, EnterLoop(body, var)
  PROVE  Shape'
<1> DEFINE entry == [kind |-> "loop", scope |-> Len(scopes) + 1, decl |-> "none",
                     body |-> body, var |-> var]
           none == body = "bare" /\ var = "none"
<1>0. entry.kind = "loop" /\ entry.var = var /\ entry.body = body
  OBVIOUS
<1>10. var \in Names \cup {"none"}
  BY ScopesAssumption DEF ScopesAssumption
<1>1. UNCHANGED <<closures, pool>>
  BY DEF EnterLoop, Calling
<1>2. CASE none
  <2>1. envs' = envs /\ cells' = cells /\ cache' = cache /\ Push(entry, Running.env, Len(cells'))
    BY <1>2 DEF EnterLoop
  <2> DEFINE x == In(entry, Running.env, Len(cells'))
  <2>2. stack' = Append(stack, x)
    BY <2>1 DEF Push
  <2>3. EntryFine(x, Len(envs)) /\ x.kind # "top" /\ ~ Refilled(x)
    <3>1. x = [kind |-> "loop", scope |-> entry.scope, decl |-> entry.decl, body |-> body,
               var |-> var, env |-> Running.env, home |-> Len(cells')]
      BY <1>0 DEF In
    <3> HIDE DEF x
    <3>2. /\ x.kind = "loop" /\ x.body = body /\ x.var = var /\ x.env = Running.env /\ x.home = Len(cells')
          /\ x = [kind |-> x.kind, scope |-> x.scope, decl |-> x.decl, body |-> x.body,
                  var |-> x.var, env |-> x.env, home |-> x.home]
      BY <3>1
    <3>3. QED
      BY <1>10, <1>2, <2>1, <3>2, Sizes DEF EntryFine, Refilled
  <2> HIDE DEF x
  <2>4. StackFine(stack', Len(envs))
    BY <2>2, <2>3, Sizes, PushFine DEF Shape
  <2>5. PoolFine(pool, envs, stack')
    <3>1. Listed(stack) /\ Len(stack) \in Nat
      BY Sizes DEF Shape, StackFine
    <3>2. Len(stack') = Len(stack) + 1 /\ stack'[Len(stack) + 1] = x /\ \A i \in 1 .. Len(stack) : stack'[i] = stack[i]
      BY <2>2, <3>1, ListAppend
    <3>3. \A i \in 1 .. Len(stack') : i \in 1 .. Len(stack) \/ i = Len(stack) + 1
      BY <3>1, <3>2
    <3>4. QED
      BY <2>3, <3>2, <3>3, PoolOver DEF Shape
  <2>6. QED
    BY <1>1, <2>1, <2>4, <2>5 DEF Shape
<1>3. CASE ~ none
  <2> DEFINE p == Running.env
             c == Len(cells) + 1
             f == FirstEnv(p, var, c)
  <2>1. NewPass(p, var) /\ Push(entry, Len(envs'), Len(cells'))
    BY <1>3 DEF EnterLoop
  <2>2. NewEnv(f) /\ bump({var}) /\ Listed(cells')
    BY <2>1, NewPassIs
  <2>3. c \in Nat /\ p \in 1 .. Len(envs) /\ Len(envs) \in Nat
    BY Sizes
  <2>4. IsEnv(f) /\ f.parent = p
    <3> HIDE DEF c, p
    <3>1. QED
      BY <1>10, <2>3, FirstIs
  <2> HIDE DEF f
  <2>5. Len(cells') \in Nat /\ f.parent \in 1 .. Len(envs) /\ entry.kind # "top" /\ entry.var \in Names \cup {"none"}
    BY <1>0, <1>10, <2>2, <2>3, <2>4, ListIs
  <2> HIDE DEF entry, p, c
  <2>6. /\ EnvsFine(envs') /\ StackFine(stack', Len(envs')) /\ ClosuresFine(closures, Len(envs'))
        /\ PoolFine(pool, envs', stack') /\ Len(envs') = Len(envs) + 1
        /\ \A m : \A e \in 0 .. Len(envs) : Found(envs', e, m) = Found(envs, e, m)
    BY <2>1, <2>2, <2>4, <2>5, EnvPushed
  <2>7. CacheFine(cache', envs')
    <3>1. Len(envs') \in Nat /\ Len(envs) <= Len(envs')
      BY <2>3, <2>6
    <3>2. QED
      BY <2>2, <2>6, <3>1, BumpFine
  <2>8. QED
    BY <1>1, <2>2, <2>6, <2>7 DEF Shape
<1>4. QED
  BY <1>2, <1>3

(* The entry of a loop is put on its next pass.                            *)
Onto(A, K, s, env) == A = [K EXCEPT ![Len(K)].scope = s, ![Len(K)].env = env]

LEMMA OntoIs ==
  ASSUME NEW K, NEW N, StackFine(K, N), NEW s, NEW env, NEW A, Onto(A, K, s, env)
  PROVE  /\ Listed(A) /\ Len(A) = Len(K) /\ \A i \in 1 .. Len(K) : i # Len(K) => A[i] = K[i]
         /\ LET x == K[Len(K)]
            IN  A[Len(K)] = [kind |-> x.kind, scope |-> s, decl |-> x.decl, body |-> x.body, var |-> x.var,
                             env |-> env, home |-> x.home]
<1> DEFINE n == Len(K)
           x == K[n]
           y == [kind |-> x.kind, scope |-> s, decl |-> x.decl, body |-> x.body, var |-> x.var,
                 env |-> env, home |-> x.home]
           G == [K EXCEPT ![n] = y]
<1>1. n \in Nat /\ n \in 1 .. n /\ DOMAIN K = 1 .. n /\ Listed(K) /\ EntryFine(x, N)
  BY ListIs DEF StackFine
<1>2. y = [x EXCEPT !.scope = s, !.env = env]
  <2> DEFINE a == x.kind
             b == x.decl
             c == x.body
             v == x.var
             h == x.home
  <2>1. x = [kind |-> a, scope |-> x.scope, decl |-> b, body |-> c, var |-> v, env |-> x.env, home |-> h]
    BY <1>1 DEF EntryFine
  <2>2. y = [kind |-> a, scope |-> s, decl |-> b, body |-> c, var |-> v, env |-> env, home |-> h]
    OBVIOUS
  <2> DEFINE w == [x EXCEPT !.scope = s]
             z == [w EXCEPT !.env = env]
             p == x.scope
             q == x.env
  <2> HIDE DEF a, b, c, v, h, p, q
  <2>3. x = [kind |-> a, scope |-> p, decl |-> b, body |-> c, var |-> v, env |-> q, home |-> h]
    BY <2>1 DEF p, q
  <2>6. w = [x EXCEPT !.scope = s] /\ z = [w EXCEPT !.env = env]
    OBVIOUS
  <2> HIDE DEF y, x, w, z
  <2>7. w = [kind |-> a, scope |-> s, decl |-> b, body |-> c, var |-> v, env |-> q, home |-> h]
    BY <2>3, <2>6
  <2>4. z = [kind |-> a, scope |-> s, decl |-> b, body |-> c, var |-> v, env |-> env, home |-> h]
    <3>1. z = [w EXCEPT !.env = env]
      BY <2>6
    <3>2. QED
      BY <2>7, <3>1
  <2>5. y = z
    BY <2>2, <2>4
  <2>8. QED
    BY <2>5 DEF z, w
<1>3. A = G
  <2>1. A = [K EXCEPT ![n] = [x EXCEPT !.scope = s, !.env = env]]
    BY <1>1 DEF Onto
  <2> HIDE DEF y
  <2>2. QED
    BY <1>2, <2>1
<1> HIDE DEF y
<1>4. Listed(G) /\ Len(G) = n /\ G[n] = y /\ \A j \in 1 .. n : j # n => G[j] = K[j]
  BY <1>1, ListSet
<1> HIDE DEF G
<1>5. QED
  BY <1>3, <1>4 DEF y

Follows(A, K, env) ==
  \A i \in 1 .. Len(A) : \/ \E j \in 1 .. Len(K) : A[i].env = K[j].env /\ (Refilled(A[i]) => Refilled(K[j]))
                         \/ (A[i].env = env /\ (Refilled(A[i]) <=> Refilled(Last(K))))

LEMMA OntoFine ==
  ASSUME NEW K, NEW N \in Nat, StackFine(K, N), NEW M \in Nat, N <= M, NEW s, NEW env \in 1 .. M, NEW A,
         Onto(A, K, s, env), Last(K).kind = "loop"
  PROVE  StackFine(A, M) /\ Follows(A, K, env)
<1> DEFINE n == Len(K)
           x == K[n]
           y == A[n]
<1>1. n \in Nat /\ n \in 1 .. n /\ Last(K) = x
  BY TopIs
<1>2. /\ Listed(A) /\ Len(A) = n /\ \A i \in 1 .. n : i # n => A[i] = K[i]
      /\ y = [kind |-> x.kind, scope |-> s, decl |-> x.decl, body |-> x.body, var |-> x.var,
              env |-> env, home |-> x.home]
  BY OntoIs
<1>3. StackFine(K, M)
  BY StackGrows
<1>4. x.kind = "loop" /\ n # 1 /\ x.home \in Nat /\ x.var \in Names \cup {"none"}
  BY <1>1 DEF StackFine, EntryFine
<1> HIDE DEF x, y
<1>5. /\ y.kind = "loop" /\ y.body = x.body /\ y.var = x.var /\ y.env = env /\ y.home = x.home
      /\ y = [kind |-> y.kind, scope |-> y.scope, decl |-> y.decl, body |-> y.body, var |-> y.var,
              env |-> y.env, home |-> y.home]
  BY <1>2, <1>4
<1>6. EntryFine(y, M)
  BY <1>4, <1>5 DEF EntryFine
<1>7. 1 \in 1 .. n
  BY <1>1
<1>8. StackFine(A, M)
  <2>1. Len(A) >= 1 /\ A[1].env = 1
    BY <1>1, <1>2, <1>3, <1>4, <1>7 DEF StackFine
  <2>2. ASSUME NEW d \in 1 .. n PROVE EntryFine(A[d], M) /\ (A[d].kind = "top" <=> d = 1)
    <3>1. CASE d = n
      BY <1>4, <1>5, <1>6, <3>1 DEF y
    <3>2. CASE d # n
      BY <1>2, <1>3, <3>2 DEF StackFine
    <3>3. QED
      BY <3>1, <3>2
  <2>3. QED
    BY <1>2, <2>1, <2>2 DEF StackFine
<1>9. ASSUME NEW i \in 1 .. Len(A)
      PROVE  \/ \E j \in 1 .. Len(K) : A[i].env = K[j].env /\ (Refilled(A[i]) => Refilled(K[j]))
             \/ (A[i].env = env /\ (Refilled(A[i]) <=> Refilled(Last(K))))
  <2>1. CASE i = n
    BY <1>1, <1>4, <1>5, <2>1 DEF Refilled, y
  <2>2. CASE i # n
    BY <1>2, <2>2
  <2>3. QED
    BY <2>1, <2>2
<1>10. QED
  BY <1>8, <1>9 DEF Follows

LEMMA SetCells ==
  ASSUME Listed(cells), NEW C, DOMAIN C = DOMAIN cells, C = [s \in DOMAIN cells |-> C[s]]
  PROVE  Listed(C) /\ Len(C) = Len(cells)
<1>1. Len(cells) \in Nat /\ DOMAIN cells = 1 .. Len(cells)
  BY ListIs
<1>2. QED
  BY <1>1, ListMap

LEMMA NextPassShape ==
  ASSUME Shape, NextPass
  PROVE  Shape'
<1> DEFINE var == Running.var
           r == Running.env
           e == envs[r]
           n == Len(stack)
           up == stack[n - 1].env
           s == Len(scopes')
<1>1. /\ r \in 1 .. Len(envs) /\ Len(envs) \in Nat /\ Len(cells) \in Nat /\ var \in Names \cup {"none"}
      /\ n \in Nat /\ n \in 1 .. n /\ Running = stack[n] /\ Running = Last(stack) /\ Running.home \in Nat
      /\ StackFine(stack, Len(envs)) /\ EnvsFine(envs) /\ IsEnv(e) /\ PoolFine(pool, envs, stack)
  BY Sizes DEF Shape, Running, EnvsFine
<1>2. Running.kind = "loop" /\ UNCHANGED <<closures, pool>>
  BY DEF NextPass, Calling
<1>3. up \in 1 .. Len(envs)
  <2>1. n # 1
    BY <1>1, <1>2 DEF StackFine
  <2>2. n - 1 \in 1 .. n
    <3>1. n \in Nat /\ n \in 1 .. n
      BY <1>1
    <3> HIDE DEF n
    <3>2. QED
      BY <2>1, <3>1
  <2>3. QED
    BY <1>1, <2>2 DEF StackFine, EntryFine
<1>4. CASE Running.body = "making"
  <2> DEFINE c == Len(cells) + 1
             f == FirstEnv(up, var, c)
  <2>1. NewPass(up, var) /\ stack' = [stack EXCEPT ![n].scope = s, ![n].env = Len(envs')]
    BY <1>4 DEF NextPass
  <2>2. NewEnv(f) /\ bump({var}) /\ Listed(cells')
    <3> HIDE DEF var, up
    <3>1. QED
      BY <2>1, NewPassIs
  <2>3. c \in Nat
    BY <1>1
  <2>4. IsEnv(f) /\ f.parent = up
    <3> HIDE DEF c, var, up
    <3>1. QED
      BY <1>1, <2>3, FirstIs
  <2>5. f.parent \in 0 .. Len(envs) /\ envs' = Append(envs, f)
    BY <1>1, <1>3, <2>2, <2>4 DEF NewEnv
  <2> HIDE DEF f, var, up
  <2>6. /\ EnvsFine(envs') /\ Len(envs') = Len(envs) + 1
        /\ \A x \in 1 .. Len(envs) : envs'[x] = envs[x]
        /\ \A m : \A x \in 0 .. Len(envs) : Found(envs', x, m) = Found(envs, x, m)
    BY <1>1, <2>4, <2>5, AppendEnv
  <2>7. Len(envs') \in Nat /\ Len(envs) <= Len(envs') /\ Len(envs') \in 1 .. Len(envs')
    BY <1>1, <2>6
  <2>8. Onto(stack', stack, s, Len(envs'))
    BY <2>1 DEF Onto
  <2>9. StackFine(stack', Len(envs')) /\ Follows(stack', stack, Len(envs'))
    <3> HIDE DEF s
    <3>1. Last(stack).kind = "loop"
      BY <1>1, <1>2
    <3>2. QED
      BY <1>1, <2>7, <2>8, <3>1, OntoFine
  <2>10. PoolFine(pool, envs', stack')
    <3>1. \A x \in 2 .. Len(envs) : x \in 1 .. Len(envs)
      BY <1>1
    <3>2. PoolFine(pool, envs', stack)
      BY <1>1, <2>6, <2>7, <3>1, PoolKept
    <3>3. ~ Refilled(Last(stack))
      BY <1>1, <1>4 DEF Refilled
    <3>4. QED
      <4>1. \A i \in 1 .. Len(stack') :
              \/ \E j \in 1 .. Len(stack) : stack'[i].env = stack[j].env /\ (Refilled(stack'[i]) => Refilled(stack[j]))
              \/ ~ Refilled(stack'[i])
        BY <2>9, <3>3 DEF Follows
      <4>2. QED
        BY <3>2, <4>1, PoolOver
  <2>11. ClosuresFine(closures, Len(envs'))
    BY <1>1, <2>7, ClosuresGrow DEF Shape
  <2>12. CacheFine(cache', envs')
    BY <2>2, <2>6, <2>7, BumpFine
  <2>13. QED
    BY <1>2, <2>2, <2>6, <2>9, <2>10, <2>11, <2>12 DEF Shape
<1>5. ASSUME stack' = [stack EXCEPT ![n].scope = s, ![n].env = r], Len(envs') = Len(envs)
      PROVE  /\ StackFine(stack', Len(envs'))
             /\ \A P, E : PoolFine(P, E, stack) => PoolFine(P, E, stack')
  <2>1. Onto(stack', stack, s, r) /\ Last(stack).kind = "loop" /\ Last(stack) = stack[n] /\ stack[n].env = r
    BY <1>1, <1>2, <1>5 DEF Onto
  <2> HIDE DEF s, r
  <2>2. StackFine(stack', Len(envs)) /\ Follows(stack', stack, r)
    <3>1. Len(envs) <= Len(envs) /\ r \in 1 .. Len(envs) /\ Len(envs) \in Nat /\ StackFine(stack, Len(envs))
      BY <1>1 DEF r
    <3>2. QED
      BY <2>1, <3>1, OntoFine
  <2>3. \A i \in 1 .. Len(stack') :
          \E j \in 1 .. Len(stack) : stack'[i].env = stack[j].env /\ (Refilled(stack'[i]) => Refilled(stack[j]))
    BY <1>1, <2>1, <2>2 DEF Follows
  <2>4. QED
    BY <1>5, <2>2, <2>3, PoolOver
<1>6. ASSUME cells' = IF var = "none" THEN cells ELSE [cells EXCEPT ![Running.home].value = L!Newest]
      PROVE  Listed(cells')
  <2>1. Listed(cells)
    BY DEF Shape
  <2>2. CASE var = "none"
    BY <1>6, <2>1, <2>2
  <2>3. CASE var # "none"
    <3>1. PICK x : cells' = [cells EXCEPT ![Running.home] = x]
      BY <1>6, <2>3
    <3>2. DOMAIN cells' = DOMAIN cells /\ cells' = [i \in DOMAIN cells |-> cells'[i]]
      BY <3>1
    <3>3. QED
      BY <2>1, <3>2, SetCells
  <2>4. QED
    BY <2>2, <2>3
<1>7. CASE Running.body = "binding"
  <2> DEFINE f == IF var = "none" THEN clearVars(e) ELSE putSlot(clearVars(e), var, Running.home)
             names == Held(e) \cup {var}
             clean == clearVars(e)
  <2>1. /\ envs' = [envs EXCEPT ![r] = f] /\ bump(names) /\ stack' = [stack EXCEPT ![n].scope = s, ![n].env = r]
        /\ Listed(cells')
    BY <1>6, <1>7 DEF NextPass
  <2>2. IsEnv(clean) /\ Held(clean) = {} /\ clean.parent = e.parent
    <3> HIDE DEF e
    <3>1. QED
      BY <1>1, ClearIs
  <2> HIDE DEF clean
  <2>3. IsEnv(f) /\ f.parent = e.parent /\ Held(f) = {var} \ {"none"}
    <3>1. CASE var = "none"
      <4>1. f = clean
        BY <3>1 DEF clean
      <4> HIDE DEF f
      <4>2. QED
        BY <2>2, <3>1, <4>1
    <3>2. CASE var # "none"
      <4>1. f = putSlot(clean, var, Running.home) /\ var \in Names
        BY <1>1, <3>2 DEF clean
      <4> HIDE DEF f, var
      <4>2. IsEnv(f) /\ f.parent = clean.parent /\ Held(f) = Held(clean) \cup {var}
        BY <1>1, <2>2, <4>1, PutIs
      <4>3. "none" \notin Names
        BY ScopesAssumption DEF ScopesAssumption
      <4>4. QED
        BY <2>2, <4>1, <4>2, <4>3
    <3>3. QED
      BY <3>1, <3>2
  <2> HIDE DEF f
  <2>4. EnvIsSet(envs', envs, r, f)
    BY <2>1 DEF EnvIsSet
  <2> HIDE DEF r
  <2>5. /\ EnvsFine(envs') /\ Len(envs') = Len(envs)
        /\ \A x \in 1 .. Len(envs) : x # r => envs'[x] = envs[x]
        /\ \A m : /\ (m \in Held(f) <=> m \in Held(envs[r]))
                  /\ m \in Held(envs[r]) => own(f, m) = own(envs[r], m)
                  => \A x \in 0 .. Len(envs) : Found(envs', x, m) = Found(envs, x, m)
    <3>1. EnvsFine(envs) /\ r \in 1 .. Len(envs) /\ f.parent = envs[r].parent /\ IsEnv(f)
      BY <1>1, <2>3 DEF r
    <3>2. QED
      BY <2>4, <3>1, SetEnv
  <2>6. ASSUME NEW m, m \notin names PROVE \A x \in 0 .. Len(envs) : Found(envs', x, m) = Found(envs, x, m)
    BY <2>3, <2>5, <2>6
  <2> HIDE DEF names
  <2>7. CacheFine(cache', envs')
    <3>1. Len(envs') \in Nat /\ Len(envs) <= Len(envs')
      BY <1>1, <2>5
    <3>2. QED
      BY <2>1, <2>6, <3>1, BumpFine
  <2>8. \A x \in 2 .. Len(envs) : x \in 1 .. Len(envs)
    BY <1>1
  <2>9. \A d \in Decls : \A k \in DOMAIN pool[d].envs : pool[d].envs[k] # r
    <3>1. PoolFine(pool, envs, stack) /\ n \in 1 .. Len(stack) /\ Refilled(stack[n]) /\ stack[n].env = r
      BY <1>1, <1>2, <1>7 DEF Shape, Refilled, r
    <3> HIDE DEF n
    <3>2. QED
      BY <3>1 DEF PoolFine
  <2>10. PoolFine(pool, envs', stack)
    BY <1>1, <2>5, <2>8, <2>9, PoolKept
  <2>11. StackFine(stack', Len(envs')) /\ PoolFine(pool, envs', stack')
    BY <1>5, <2>1, <2>5, <2>10 DEF r
  <2>12. ClosuresFine(closures, Len(envs'))
    BY <2>5 DEF Shape
  <2>13. QED
    BY <1>2, <2>1, <2>5, <2>7, <2>11, <2>12 DEF Shape
<1>8. CASE Running.body = "bare"
  <2>1. /\ envs' = envs /\ cache' = cache /\ stack' = [stack EXCEPT ![n].scope = s, ![n].env = r]
        /\ Listed(cells')
    BY <1>6, <1>8 DEF NextPass
  <2>2. StackFine(stack', Len(envs')) /\ PoolFine(pool, envs, stack')
    BY <1>1, <1>5, <2>1
  <2>3. QED
    BY <1>2, <2>1, <2>2 DEF Shape
<1>9. QED
  BY <1>4, <1>7, <1>8 DEF NextPass

LEMMA LeaveShape ==
  ASSUME Shape, Leave
  PROVE  Shape'
<1> DEFINE n == Len(stack) - 1
<1>1. Len(stack) \in Nat /\ n \in 1 .. Len(stack) /\ n \in 0 .. Len(stack) /\ \A i \in 1 .. n : i \in 1 .. Len(stack)
  BY Sizes DEF Leave
<1>2. stack' = SubSeq(stack, 1, n) /\ Listed(stack) /\ StackFine(stack, Len(envs))
  BY DEF Leave, Front, Shape, StackFine
<1> HIDE DEF n
<1>3. StackFine(stack', Len(envs))
  BY <1>1, <1>2, TakeFine
<1>4. PoolFine(pool, envs, stack')
  <2>1. Len(stack') = n /\ \A i \in 1 .. n : stack'[i] = stack[i]
    BY <1>1, <1>2, ListTake
  <2>2. \A i \in 1 .. Len(stack') : \E j \in 1 .. Len(stack) : stack'[i].env = stack[j].env /\ (Refilled(stack'[i]) => Refilled(stack[j]))
    BY <1>1, <2>1
  <2>3. QED
    BY <2>2, PoolOver DEF Shape
<1>5. QED
  BY <1>3, <1>4 DEF Leave, Shape, Calling

LEMMA CaptureShape ==
  ASSUME Shape, NEW kind, NEW d \in Inner, Capture(kind, d)
  PROVE  Shape'
<1> DEFINE x == [kind |-> kind, decl |-> d, scope |-> Running.scope, env |-> Running.env]
<1>1. closures' = Append(closures, x) /\ x.env = Running.env /\ x.decl = d
  BY DEF Capture
<1> HIDE DEF x
<1>2. Listed(closures) /\ Len(closures) \in Nat
  BY Sizes DEF Shape, ClosuresFine
<1>3. /\ Listed(closures') /\ Len(closures') = Len(closures) + 1 /\ closures'[Len(closures) + 1] = x
      /\ \A i \in 1 .. Len(closures) : closures'[i] = closures[i]
  BY <1>1, <1>2, ListAppend
<1>4. \A i \in 1 .. Len(closures') : i \in 1 .. Len(closures) \/ i = Len(closures) + 1
  BY <1>2, <1>3
<1>5. d \in Decls
  BY DEF Decls, L!Decls
<1>6. ClosuresFine(closures', Len(envs))
  BY <1>1, <1>3, <1>4, <1>5, Sizes DEF Shape, ClosuresFine
<1>7. QED
  BY <1>6 DEF Capture, Shape, Calling

ParamNames(d) == {Params[d][i] : i \in 1 .. Len(Params[d])}

(* A frame that is allocated for a call.                                   *)
NewFrame(c) ==
  adoptFrame(Env(closures[c].env), Params[closures[c].decl], NextSlots(Len(Params[closures[c].decl])))

LEMMA FreshIs ==
  ASSUME Shape, NEW c \in 1 .. Len(closures), FreshFrame(c), NEW d, d = closures[c].decl
  PROVE  /\ d \in Decls /\ NewEnv(NewFrame(c)) /\ IsEnv(NewFrame(c)) /\ NewFrame(c).parent = closures[c].env
         /\ closures[c].env \in 1 .. Len(envs)
         /\ HasParams(NewFrame(c), Params[d]) /\ Held(NewFrame(c)) = ParamNames(d)
         /\ \A i \in 1 .. Len(Params[d]) : own(NewFrame(c), Params[d][i]) = Len(cells) + i
         /\ Listed(cells') /\ Len(cells') = Len(cells) + Len(Params[d])
         /\ \A i \in 1 .. Len(cells) : cells'[i] = cells[i]
         /\ \A i \in 1 .. Len(Params[d]) : cells'[Len(cells) + i] = [value |-> writes + i, mutable |-> FALSE]
         /\ cache' = cache
<1> DEFINE params == Params[d]
           k == Len(params)
           slots == NextSlots(k)
           no == FALSE
           p == closures[c].env
           f == NewFrame(c)
<1>1. d \in Decls /\ p \in 1 .. Len(envs)
  BY DEF Shape, ClosuresFine
<1>2. /\ params \in Seq(Names) /\ k \in Nat /\ DOMAIN params = 1 .. k
      /\ \A i, j \in DOMAIN params : params[i] = params[j] => i = j
  BY <1>1, ParamsAre, LenProperties
<1>3. NewSlots(Args(d), no) /\ NewEnv(f) /\ cache' = cache
  BY DEF FreshFrame, NewFrame
<1>4. f = adoptFrame(Env(p), params, slots)
  BY DEF NewFrame
<1> HIDE DEF f, p, params
<1>5. slots \in Seq(Nat) /\ Len(slots) = k /\ \A i \in 1 .. k : slots[i] = Len(cells) + i
  <2>1. Len(cells) \in Nat
    BY Sizes
  <2>2. slots = [i \in 1 .. k |-> Len(cells) + i]
    BY DEF NextSlots
  <2> HIDE DEF slots, k
  <2>3. slots \in [1 .. k -> Nat]
    BY <1>2, <2>1, <2>2
  <2>4. QED
    BY <1>2, <2>2, <2>3
<1> HIDE DEF slots, k
<1>6. /\ IsEnv(f) /\ f.parent = p /\ HasParams(f, params)
      /\ Held(f) = {params[i] : i \in 1 .. k}
      /\ \A i \in 1 .. k : own(f, params[i]) = slots[i]
  <2>1. Len(slots) = Len(params) /\ k = Len(params)
    BY <1>5 DEF k
  <2> HIDE DEF k
  <2>2. Adopts(f, p, params, slots) /\ Apart(params)
    BY <1>2, <1>4 DEF Adopts, Apart
  <2>3. Adopted(f, p, params, slots)
    <3>1. params \in Seq(Names) /\ slots \in Seq(Nat)
      BY <1>2, <1>5
    <3>2. QED
      BY <2>1, <2>2, <3>1, AdoptIs
  <2>4. QED
    BY <2>1, <2>3 DEF Adopted
<1>7. Listed(Args(d)) /\ Len(Args(d)) = k /\ \A i \in 1 .. k : Args(d)[i] = writes + i
  <2> DEFINE a == Args(d)
  <2>1. a = [i \in 1 .. k |-> writes + i]
    BY <1>2 DEF Args, params
  <2> HIDE DEF a
  <2>2. DOMAIN a = 1 .. k /\ a = [i \in 1 .. k |-> a[i]]
    BY <2>1
  <2>3. Listed(a) /\ Len(a) = k
    BY <1>2, <2>2, ListMap
  <2>4. QED
    BY <2>1, <2>3 DEF a
<1>8. /\ Listed(cells') /\ Len(cells') = Len(cells) + k
      /\ \A i \in 1 .. Len(cells) : cells'[i] = cells[i]
      /\ \A i \in 1 .. k : cells'[Len(cells) + i] = [value |-> writes + i, mutable |-> no]
  <2> HIDE DEF no
  <2> DEFINE a == Args(d)
  <2>1. Listed(a) /\ NewSlots(a, no) /\ Listed(cells) /\ Len(a) = k /\ \A i \in 1 .. k : a[i] = writes + i
    BY <1>3, <1>7 DEF Shape
  <2> HIDE DEF a
  <2>2. /\ Listed(cells') /\ Len(cells') = Len(cells) + Len(a)
        /\ \A i \in 1 .. Len(cells) : cells'[i] = cells[i]
        /\ \A i \in 1 .. Len(a) : cells'[Len(cells) + i] = [value |-> a[i], mutable |-> no]
    BY <2>1, NewSlotsIs
  <2>3. QED
    BY <2>1, <2>2
<1>9. QED
  BY <1>1, <1>3, <1>5, <1>6, <1>8 DEF f, params, k, p, ParamNames

PoolIsSet(Q, P, d, x, m) == Q = [P EXCEPT ![d] = [closure |-> x, envs |-> m]]
Fits(m, P, E, K, d, q) ==
  \A k \in DOMAIN m :
    \/ k \in DOMAIN P[d].envs /\ m[k] = P[d].envs[k]
    \/ /\ k = q /\ m[k] \in 2 .. Len(E) /\ HasParams(E[m[k]], Params[d])
       /\ \A i \in 1 .. Len(K) : Refilled(K[i]) => K[i].env # m[k]
       /\ \A b \in Decls : \A j \in DOMAIN P[b].envs : P[b].envs[j] # m[k]

LEMMA PoolPut ==
  ASSUME NEW P, NEW E, NEW K, PoolFine(P, E, K), NEW d \in Decls, NEW m, NEW x, NEW Q,
         PoolIsSet(Q, P, d, x, m), NEW q, Fits(m, P, E, K, d, q)
  PROVE  PoolFine(Q, E, K)
<1>1. DOMAIN Q = Decls /\ Q[d].envs = m /\ \A b \in Decls : b # d => Q[b] = P[b]
  <2> DEFINE z == [closure |-> x, envs |-> m]
  <2>1. Q = [P EXCEPT ![d] = z] /\ z.envs = m /\ DOMAIN P = Decls
    BY DEF PoolFine, PoolIsSet
  <2> HIDE DEF z
  <2>2. QED
    BY <2>1
<1>2. ASSUME NEW b \in Decls, NEW k \in DOMAIN Q[b].envs
      PROVE  /\ Q[b].envs[k] \in 2 .. Len(E) /\ HasParams(E[Q[b].envs[k]], Params[b])
             /\ \A i \in 1 .. Len(K) : Refilled(K[i]) => K[i].env # Q[b].envs[k]
  BY <1>1, <1>2 DEF PoolFine, Fits
<1>3. ASSUME NEW b \in Decls, NEW k \in DOMAIN Q[b].envs, NEW a \in Decls, NEW j \in DOMAIN Q[a].envs,
             Q[a].envs[j] = Q[b].envs[k]
      PROVE  a = b /\ j = k
  BY <1>1, <1>3 DEF PoolFine, Fits
<1>4. QED
  BY <1>1, <1>2, <1>3 DEF PoolFine

Mine(c) ==
  IF pool[closures[c].decl].closure = 0 THEN [closure |-> closures[c].env, envs |-> <<>>]
  ELSE pool[closures[c].decl]

Kept(c) == callDepth \in DOMAIN Mine(c).envs /\ reusable(envs[Mine(c).envs[callDepth]])

LEMMA MineIs ==
  ASSUME NEW c, NEW d, d = closures[c].decl
  PROVE  \A k \in DOMAIN Mine(c).envs : k \in DOMAIN pool[d].envs /\ Mine(c).envs[k] = pool[d].envs[k]
<1>1. CASE pool[d].closure = 0
  <2>1. Mine(c).envs = <<>>
    BY <1>1 DEF Mine
  <2>2. QED
    BY <2>1
<1>2. CASE pool[d].closure # 0
  BY <1>2 DEF Mine
<1>3. QED
  BY <1>1, <1>2

(* The ways a call gets its frame.                                         *)
Reuses(c) ==
  /\ Kept(c) /\ PooledFrame(c, Mine(c).envs) /\ Mine(c).closure = closures[c].env /\ UNCHANGED escapes
  /\ Push(L!Entry("call", Len(scopes'), closures[c].decl), Mine(c).envs[callDepth], 0)
Pools(c) ==
  /\ FreshFrame(c) /\ Mine(c).closure = closures[c].env /\ UNCHANGED escapes
  /\ pool' = [pool EXCEPT ![closures[c].decl] =
                [closure |-> closures[c].env, envs |-> L!With(Mine(c).envs, callDepth, Len(envs'))]]
  /\ Push(L!Entry("call", Len(scopes'), closures[c].decl), Len(envs'), 0)
Unpools(c) ==
  /\ FreshFrame(c)
  /\ pool' = [pool EXCEPT ![closures[c].decl] = [closure |-> 0, envs |-> <<>>]]
  /\ escapes' = [escapes EXCEPT ![closures[c].decl] = TRUE]
  /\ Push(L!Entry("call", Len(scopes'), closures[c].decl), Len(envs'), 0)
Keeps(c) ==
  /\ FreshFrame(c) /\ UNCHANGED <<pool, escapes>>
  /\ Push(L!Entry("call", Len(scopes'), closures[c].decl), Len(envs'), 0)

LEMMA FrameIs ==
  ASSUME NEW c, NEW fast, Frame(c, fast)
  PROVE  \/ Reuses(c) /\ (fast \/ ~ escapes[closures[c].decl])
         \/ Pools(c) /\ (fast \/ ~ escapes[closures[c].decl])
         \/ Unpools(c) /\ ~ escapes[closures[c].decl]
         \/ Keeps(c) /\ escapes[closures[c].decl]
BY DEF Frame, Reuses, Pools, Unpools, Keeps, Mine, Kept

LEMMA CallEntry ==
  \A s, d : /\ L!Entry("call", s, d).kind = "call" /\ L!Entry("call", s, d).var = "none"
            /\ L!Entry("call", s, d).body = "binding" /\ L!Entry("call", s, d).decl = d
            /\ L!Entry("call", s, d).scope = s
BY DEF L!Entry

(* Calls with a new frame.                                                 *)
LEMMA FreshShape ==
  ASSUME Shape, NEW c \in 1 .. Len(closures), FreshFrame(c), UNCHANGED closures,
         Push(L!Entry("call", Len(scopes'), closures[c].decl), Len(envs'), 0)
  PROVE  /\ EnvsFine(envs') /\ Listed(cells') /\ StackFine(stack', Len(envs')) /\ ClosuresFine(closures', Len(envs'))
         /\ PoolFine(pool, envs', stack') /\ CacheFine(cache', envs') /\ Len(envs') = Len(envs) + 1
         /\ envs'[Len(envs')] = NewFrame(c)
<1> DEFINE f == NewFrame(c)
           entry == L!Entry("call", Len(scopes'), closures[c].decl)
<1>1. NewEnv(f) /\ IsEnv(f) /\ f.parent \in 1 .. Len(envs) /\ Listed(cells') /\ cache' = cache
  BY FreshIs
<1>2. entry.kind # "top" /\ entry.var \in Names \cup {"none"} /\ Push(entry, Len(envs'), 0)
  BY CallEntry
<1> HIDE DEF f, entry
<1>3. /\ EnvsFine(envs') /\ StackFine(stack', Len(envs')) /\ ClosuresFine(closures, Len(envs'))
      /\ PoolFine(pool, envs', stack') /\ Len(envs') = Len(envs) + 1
      /\ \A m : \A e \in 0 .. Len(envs) : Found(envs', e, m) = Found(envs, e, m)
  <2>1. 0 \in Nat
    OBVIOUS
  <2>2. QED
    BY <1>1, <1>2, <2>1, EnvPushed
<1>4. CacheFine(cache, envs')
  <2>1. CacheFine(cache, envs) /\ DOMAIN cache = Names /\ Len(envs) \in Nat /\ Len(envs') \in Nat /\ Len(envs) <= Len(envs')
    BY <1>3, Sizes DEF Shape, CacheFine
  <2>2. QED
    BY <1>3, <2>1, CacheKept
<1>5. envs'[Len(envs')] = f
  <2>1. EnvsFine(envs) /\ envs' = Append(envs, f) /\ f.parent \in 0 .. Len(envs)
    BY <1>1, Sizes DEF Shape, NewEnv
  <2>2. QED
    BY <1>1, <1>3, <2>1, AppendEnv
<1>6. QED
  BY <1>1, <1>3, <1>4, <1>5 DEF f

LEMMA PoolsShape ==
  ASSUME Shape, NEW c \in 1 .. Len(closures), Pools(c), UNCHANGED closures
  PROVE  Shape'
<1> DEFINE d == closures[c].decl
           m == L!With(Mine(c).envs, callDepth, Len(envs'))
           N == Len(envs')
<1>1. /\ EnvsFine(envs') /\ Listed(cells') /\ StackFine(stack', N) /\ ClosuresFine(closures', N)
      /\ PoolFine(pool, envs', stack') /\ CacheFine(cache', envs') /\ N = Len(envs) + 1
      /\ envs'[N] = NewFrame(c)
  BY FreshShape DEF Pools
<1>2. d \in Decls /\ HasParams(envs'[N], Params[d])
  BY <1>1, FreshIs DEF Pools
<1>3. Len(envs) \in Nat /\ N \in 2 .. N /\ N \notin 1 .. Len(envs) /\ \A e \in 2 .. Len(envs) : e \in 1 .. Len(envs)
  <2>1. Len(envs) \in Nat /\ Len(envs) >= 1
    BY Sizes
  <2> HIDE DEF N
  <2>2. QED
    BY <1>1, <2>1
<1>4. pool' = [pool EXCEPT ![d] = [closure |-> closures[c].env, envs |-> m]]
  BY DEF Pools
<1>5. DOMAIN m = DOMAIN Mine(c).envs \cup {callDepth} /\ m[callDepth] = N
      /\ \A k \in DOMAIN Mine(c).envs : k # callDepth => m[k] = Mine(c).envs[k]
  BY DEF L!With
<1>6. \A b \in Decls : \A j \in DOMAIN pool[b].envs : pool[b].envs[j] # N
  BY <1>3 DEF Shape, PoolFine
<1>7. \A i \in 1 .. Len(stack') : Refilled(stack'[i]) => stack'[i].env # N
  <2> DEFINE x == In(L!Entry("call", Len(scopes'), d), Len(envs'), 0)
  <2>1. stack' = Append(stack, x) /\ ~ Refilled(x)
    BY CallEntry DEF Pools, Push, Refilled, In
  <2> HIDE DEF x
  <2>2. Listed(stack) /\ Len(stack) \in Nat
    BY Sizes DEF Shape, StackFine
  <2>3. Len(stack') = Len(stack) + 1 /\ stack'[Len(stack) + 1] = x /\ \A i \in 1 .. Len(stack) : stack'[i] = stack[i]
    BY <2>1, <2>2, ListAppend
  <2>4. \A i \in 1 .. Len(stack') : i \in 1 .. Len(stack) \/ i = Len(stack) + 1
    BY <2>2, <2>3
  <2>5. \A i \in 1 .. Len(stack) : stack[i].env # N
    BY <1>3 DEF Shape, StackFine, EntryFine
  <2>6. QED
    BY <2>1, <2>3, <2>4, <2>5
<1> HIDE DEF m, N
<1>8. \A k \in DOMAIN m :
         \/ k \in DOMAIN pool[d].envs /\ m[k] = pool[d].envs[k]
         \/ /\ k = callDepth /\ m[k] \in 2 .. Len(envs') /\ HasParams(envs'[m[k]], Params[d])
            /\ \A i \in 1 .. Len(stack') : Refilled(stack'[i]) => stack'[i].env # m[k]
            /\ \A b \in Decls : \A j \in DOMAIN pool[b].envs : pool[b].envs[j] # m[k]
  <2> TAKE k \in DOMAIN m
  <2>1. CASE k = callDepth
    BY <1>2, <1>3, <1>5, <1>6, <1>7, <2>1 DEF N
  <2>2. CASE k # callDepth
    BY <1>5, <2>2, MineIs
  <2>3. QED
    BY <2>1, <2>2
<1>9. PoolFine(pool', envs', stack')
  <2> DEFINE x == closures[c].env
  <2>1. PoolIsSet(pool', pool, d, x, m) /\ Fits(m, pool, envs', stack', d, callDepth)
    BY <1>4, <1>8 DEF PoolIsSet, Fits
  <2> HIDE DEF d, x
  <2>2. QED
    BY <1>1, <1>2, <2>1, PoolPut
<1>10. QED
  BY <1>1, <1>9 DEF Shape, N

LEMMA UnpoolsShape ==
  ASSUME Shape, NEW c \in 1 .. Len(closures), Unpools(c) \/ Keeps(c), UNCHANGED closures
  PROVE  Shape'
<1>1. /\ EnvsFine(envs') /\ Listed(cells') /\ StackFine(stack', Len(envs')) /\ ClosuresFine(closures', Len(envs'))
      /\ PoolFine(pool, envs', stack') /\ CacheFine(cache', envs')
  BY FreshShape DEF Unpools, Keeps
<1>2. CASE Keeps(c)
  BY <1>1, <1>2 DEF Keeps, Shape
<1>3. CASE Unpools(c)
  <2> DEFINE d == closures[c].decl
             m == <<>>
  <2>1. d \in Decls
    BY DEF Shape, ClosuresFine
  <2>2. pool' = [pool EXCEPT ![d] = [closure |-> 0, envs |-> m]] /\ DOMAIN m = {}
    BY <1>3 DEF Unpools
  <2> HIDE DEF d, m
  <2>3. PoolIsSet(pool', pool, d, 0, m) /\ Fits(m, pool, envs', stack', d, 0)
    BY <2>2 DEF PoolIsSet, Fits
  <2>4. PoolFine(pool', envs', stack')
    BY <1>1, <2>1, <2>3, PoolPut
  <2>5. QED
    BY <1>1, <2>4 DEF Shape
<1>4. QED
  BY <1>2, <1>3

(* An Env with its parameters in front.                                    *)
Borrows(e, s) ==
  /\ ~ e.big /\ HasParams(e, s) /\ IsEnv(e) /\ s \in Seq(Names)
  /\ \A i, j \in DOMAIN s : s[i] = s[j] => i = j

(* A frame that is written over.                                           *)
LEMMA ReusedIs ==
  ASSUME Shape, NEW c \in 1 .. Len(closures), Reuses(c), NEW d, d = closures[c].decl,
         NEW r, r = Mine(c).envs[callDepth]
  PROVE  /\ d \in Decls /\ callDepth \in DOMAIN pool[d].envs /\ r = pool[d].envs[callDepth]
         /\ r \in 2 .. Len(envs) /\ r \in 1 .. Len(envs) /\ Borrows(envs[r], Params[d])
<1>1. d \in Decls
  BY DEF Shape, ClosuresFine
<1>2. callDepth \in DOMAIN Mine(c).envs /\ ~ envs[r].big
  BY DEF Reuses, Kept, reusable
<1>3. callDepth \in DOMAIN pool[d].envs /\ r = pool[d].envs[callDepth]
  BY <1>2, MineIs
<1>4. r \in 2 .. Len(envs) /\ HasParams(envs[r], Params[d])
  BY <1>1, <1>3 DEF Shape, PoolFine
<1>5. r \in 1 .. Len(envs) 
  BY <1>4, Sizes
<1>6. IsEnv(envs[r])
  BY <1>5 DEF Shape, EnvsFine
<1>7. QED
  BY <1>1, <1>2, <1>3, <1>4, <1>5, <1>6, ParamsAre DEF Borrows

LEMMA ReusesShape ==
  ASSUME Shape, NEW c \in 1 .. Len(closures), Reuses(c), UNCHANGED closures
  PROVE  Shape'
<1> DEFINE d == closures[c].decl
           params == Params[d]
           r == Mine(c).envs[callDepth]
           e == envs[r]
           f == reuseFrame(e, params)
           m == Mine(c).envs
           names == LeftBehind(e, params)
           x == In(L!Entry("call", Len(scopes'), d), r, 0)
<1>1. /\ d \in Decls /\ callDepth \in DOMAIN pool[d].envs /\ r = pool[d].envs[callDepth]
      /\ r \in 2 .. Len(envs) /\ r \in 1 .. Len(envs) /\ ~ e.big /\ HasParams(e, params)
      /\ IsEnv(e) /\ params \in Seq(Names)
      /\ \A i, j \in DOMAIN params : params[i] = params[j] => i = j
  <2>1. d = closures[c].decl /\ r = Mine(c).envs[callDepth] /\ e = envs[r] /\ params = Params[d]
    OBVIOUS
  <2> HIDE DEF d, r, e, params
  <2>2. /\ d \in Decls /\ callDepth \in DOMAIN pool[d].envs /\ r = pool[d].envs[callDepth]
        /\ r \in 2 .. Len(envs) /\ r \in 1 .. Len(envs) /\ Borrows(envs[r], Params[d])
    BY <2>1, ReusedIs
  <2>3. Borrows(e, params)
    BY <2>1, <2>2
  <2>4. QED
    BY <2>2, <2>3 DEF Borrows
<1>2. /\ envs' = [envs EXCEPT ![r] = f] /\ bump(names) /\ pool' = [pool EXCEPT ![d] = [closure |-> closures[c].env, envs |-> m]]
      /\ stack' = Append(stack, x)
  BY DEF Reuses, PooledFrame, Push
<1>3. Listed(cells')
  <2>1. DOMAIN cells' = DOMAIN cells /\ cells' = [s \in DOMAIN cells |-> cells'[s]]
    BY DEF Reuses, PooledFrame
  <2>2. QED
    BY <2>1, SetCells DEF Shape
<1>4. EntryFine(x, Len(envs)) /\ x.kind = "call"
  <2> DEFINE entry == L!Entry("call", Len(scopes'), d)
  <2>1. entry.kind = "call" /\ entry.var = "none"
    BY CallEntry
  <2>2. x = [kind |-> entry.kind, scope |-> entry.scope, decl |-> entry.decl, body |-> entry.body,
             var |-> entry.var, env |-> r, home |-> 0]
    BY DEF In
  <2> HIDE DEF x, entry, r
  <2>3. /\ x.kind = "call" /\ x.var = "none" /\ x.env = r /\ x.home = 0
        /\ x = [kind |-> x.kind, scope |-> x.scope, decl |-> x.decl, body |-> x.body,
                var |-> x.var, env |-> x.env, home |-> x.home]
    BY <2>1, <2>2
  <2>4. r \in 1 .. Len(envs)
    BY <1>1
  <2>5. x.env \in 1 .. Len(envs) /\ x.home \in Nat /\ x.var \in Names \cup {"none"}
    BY <2>3, <2>4
  <2>6. QED
    BY <2>3, <2>5 DEF EntryFine
<1>5. /\ IsEnv(f) /\ ~ f.big /\ f.parent = e.parent /\ HasParams(f, params)
      /\ Held(f) = {params[i] : i \in 1 .. Len(params)}
      /\ Held(e) = Held(f) \cup names
      /\ \A i \in 1 .. Len(params) : own(f, params[i]) = e.slots[i] /\ own(e, params[i]) = e.slots[i]
  <2> HIDE DEF e, params
  <2>1. QED
    BY <1>1, ReuseIs
<1>6. EnvIsSet(envs', envs, r, f) /\ EnvsFine(envs)
  BY <1>2 DEF EnvIsSet, Shape
<1> HIDE DEF f, r, m, names, x, params
<1>7. /\ EnvsFine(envs') /\ Len(envs') = Len(envs) /\ envs'[r] = f
      /\ \A z \in 1 .. Len(envs) : z # r => envs'[z] = envs[z]
      /\ \A n : /\ (n \in Held(f) <=> n \in Held(envs[r]))
                /\ n \in Held(envs[r]) => own(f, n) = own(envs[r], n)
                => \A z \in 0 .. Len(envs) : Found(envs', z, n) = Found(envs, z, n)
  <2>1. r \in 1 .. Len(envs) /\ f.parent = envs[r].parent /\ IsEnv(f)
    BY <1>1, <1>5
  <2>2. QED
    BY <1>6, <2>1, SetEnv
<1>8. CacheFine(cache', envs')
  <2>1. ASSUME NEW n, n \notin names PROVE \A z \in 0 .. Len(envs) : Found(envs', z, n) = Found(envs, z, n)
    <3>1. n \in Held(f) <=> n \in Held(envs[r])
      BY <1>5, <2>1
    <3>2. n \in Held(envs[r]) => own(f, n) = own(envs[r], n)
      BY <1>5, <3>1
    <3>3. QED
      BY <1>7, <3>1, <3>2
  <2>2. Len(envs') \in Nat /\ Len(envs) <= Len(envs')
    BY <1>7, Sizes
  <2>3. QED
    BY <1>2, <2>1, <2>2, BumpFine
<1>9. StackFine(stack', Len(envs'))
  <2>1. Len(envs) \in Nat /\ Len(envs) <= Len(envs) /\ StackFine(stack, Len(envs)) /\ x.kind # "top"
    BY <1>4, Sizes DEF Shape
  <2>2. QED
    BY <1>2, <1>4, <1>7, <2>1, PushFine
<1>10. PoolFine(pool, envs', stack)
  <2>1. PoolFine(pool, envs, stack) /\ Len(envs') = Len(envs) /\ Len(envs) \in Nat
    BY <1>7, Sizes DEF Shape
  <2>2. \A b \in Decls : \A k \in DOMAIN pool[b].envs : HasParams(envs'[pool[b].envs[k]], Params[b])
    <3> TAKE b \in Decls
    <3> TAKE k \in DOMAIN pool[b].envs
    <3> DEFINE z == pool[b].envs[k]
    <3>1. z \in 2 .. Len(envs) /\ HasParams(envs[z], Params[b]) /\ (z = r => b = d)
      BY <1>1, <2>1 DEF PoolFine
    <3>2. z \in 1 .. Len(envs)
      BY <2>1, <3>1
    <3> HIDE DEF z
    <3>3. HasParams(envs'[z], Params[b])
      BY <1>5, <1>7, <3>1, <3>2 DEF params
    <3>4. QED
      BY <3>3 DEF z
  <2>3. QED
    BY <2>1, <2>2 DEF PoolFine
<1>11. PoolFine(pool, envs', stack')
  <2>1. Listed(stack) /\ Len(stack) \in Nat
    BY Sizes DEF Shape, StackFine
  <2>2. Len(stack') = Len(stack) + 1 /\ stack'[Len(stack) + 1] = x /\ \A i \in 1 .. Len(stack) : stack'[i] = stack[i]
    BY <1>2, <2>1, ListAppend
  <2>3. \A i \in 1 .. Len(stack') : i \in 1 .. Len(stack) \/ i = Len(stack) + 1
    BY <2>1, <2>2
  <2>4. ~ Refilled(x)
    BY <1>4 DEF Refilled
  <2>5. QED
    BY <1>10, <2>2, <2>3, <2>4, PoolOver
<1>12. PoolFine(pool', envs', stack')
  <2>1. \A k \in DOMAIN m : k \in DOMAIN pool[d].envs /\ m[k] = pool[d].envs[k]
    BY MineIs DEF m
  <2> DEFINE z == closures[c].env
  <2>2. PoolIsSet(pool', pool, d, z, m) /\ Fits(m, pool, envs', stack', d, 0)
    BY <1>2, <2>1 DEF PoolIsSet, Fits
  <2> HIDE DEF d, z
  <2>3. QED
    BY <1>1, <1>11, <2>2, PoolPut
<1>13. ClosuresFine(closures', Len(envs'))
  BY <1>7 DEF Shape
<1>14. QED
  BY <1>3, <1>7, <1>8, <1>9, <1>12, <1>13 DEF Shape

LEMMA CallShape ==
  ASSUME Shape, NEW c \in DOMAIN closures, NEW fast, Call(c, fast)
  PROVE  Shape'
<1>1. c \in 1 .. Len(closures) /\ UNCHANGED closures /\ Frame(c, fast)
  BY Sizes DEF Call
<1>2. Reuses(c) \/ Pools(c) \/ Unpools(c) \/ Keeps(c)
  BY <1>1, FrameIs
<1>3. QED
  BY <1>1, <1>2, ReusesShape, PoolsShape, UnpoolsShape

LEMMA NextShape == Shape /\ [Next]_vars => Shape'
<1> SUFFICES ASSUME Shape, [Next]_vars PROVE Shape'
  OBVIOUS
<1>1. ASSUME NEW n \in Names, NEW cached \in BOOLEAN, Read(n, cached) PROVE Shape'
  BY <1>1, ReadShape
<1>2. ASSUME NEW n \in Names, NEW cached \in BOOLEAN, Assign(n, cached) PROVE Shape'
  BY <1>2, AssignShape
<1>3. ASSUME NEW n \in Names, Declare(n) PROVE Shape'
  BY <1>3, DeclareShape
<1>4. ASSUME NEW n \in Names, NEW depth \in DOMAIN stack, Fail(n, depth) PROVE Shape'
  BY <1>4, FailShape
<1>5. CASE EnterBlock
  BY <1>5, EnterBlockShape
<1>6. ASSUME NEW body \in {"making", "binding", "bare"}, NEW var \in LoopVars, EnterLoop(body, var) PROVE Shape'
  BY <1>6, EnterLoopShape
<1>7. CASE NextPass
  BY <1>7, NextPassShape
<1>8. CASE Leave
  BY <1>8, LeaveShape
<1>9. ASSUME NEW c \in DOMAIN closures, NEW fast \in BOOLEAN, Call(c, fast) PROVE Shape'
  BY <1>9, CallShape
<1>10. ASSUME NEW kind \in {"fn", "record"}, NEW d \in Inner, Capture(kind, d) PROVE Shape'
  BY <1>10, CaptureShape
<1>11. ASSUME NEW c \in DOMAIN closures, NEW n \in Names, Check(c, n) PROVE Shape'
  BY <1>11 DEF Check, Shape, Calling
<1>12. CASE UNCHANGED vars
  BY <1>12 DEF vars, Shape
<1>13. QED
  BY <1>1, <1>2, <1>3, <1>4, <1>5, <1>6, <1>7, <1>8, <1>9, <1>10, <1>11, <1>12 DEF Next

(* The shape of what there is: Envs nested, frames of the pool each in one *)
(* place with their parameters still in front, caches that are warm only   *)
(* with what a walk would find.                                            *)
THEOREM ShapeKept == Spec => []Shape
<1>1. Init => Shape
  BY InitShape
<1>2. Shape /\ [Next]_vars => Shape'
  BY NextShape
<1>3. QED
  BY <1>1, <1>2, PTL DEF Spec

(* No inline cache is ever stale: what it holds is the slot a walk from    *)
(* its scope would find.                                                   *)
THEOREM NoStaleCache == Spec => []CachesFresh
<1>1. Shape => CachesFresh
  <2> SUFFICES ASSUME Shape, NEW n \in Names, cache[n] # Cold PROVE slot(cache[n].env, n) = cache[n].slot
    BY DEF CachesFresh
  <2>1. QED
    BY SlotFound DEF Shape, CacheFine
<1>2. QED
  BY <1>1, ShapeKept, PTL

-----------------------------------------------------------------------------
(* What ties the Envs to the scopes.  In what follows E is envs, C cells,  *)
(* Z scopes, K stack, Q closures and P pool, before a step or after one.   *)

(* Env e holds, in cells C, what v binds.                                  *)
Binds(e, C, v) ==
  /\ Held(e) = DOMAIN v
  /\ \A n \in Held(e) : own(e, n) \in 1 .. Len(C) /\ C[own(e, n)] = v[n]

(* The scopes of the text, each in one that is older.                      *)
Texts(Z) ==
  Listed(Z) /\ Nested(Z) /\ \A s \in 1 .. Len(Z) : Z[s] = [parent |-> Z[s].parent, vals |-> Z[s].vals]

(* Each of N Envs stands for a scope of its own.                           *)
Stands(T, N, M) ==
  /\ \A e \in 1 .. N : T[e] \in 1 .. M
  /\ \A e, f \in 1 .. N : T[e] = T[f] => e = f

(* A slot, with what is bound there.                                       *)
SlotsFine(C) ==
  \A i \in 1 .. Len(C) : C[i] = [value |-> C[i].value, mutable |-> C[i].mutable] /\ C[i].mutable \in BOOLEAN

(* Each Env holds what its scope binds, each name in a slot of its own.    *)
Match(E, C, Z, T) == \A e \in 1 .. Len(E) : Binds(E[e], C, Z[T[e]].vals)

Distinct(E) ==
  \A e, f \in 1 .. Len(E) : \A n \in Held(E[e]), m \in Held(E[f]) :
    own(E[e], n) = own(E[f], m) => e = f /\ n = m

(* Envs that stay: around a firm Env, only firm ones, and they stand for   *)
(* the scopes around its scope.                                            *)
Anchored(e, s, E, Z, T, F) ==
  \/ E[e].parent = 0 /\ Z[s].parent = 0
  \/ E[e].parent \in F /\ T[E[e].parent] = Z[s].parent
Firm(F, T, E, Z) == \A e \in F : e \in 1 .. Len(E) /\ Anchored(e, T[e], E, Z, T, F)

(* What a closure keeps stands for the scope it was made in, and stays.    *)
KeptFine(Q, T, F) == \A c \in 1 .. Len(Q) : Q[c].env \in F /\ T[Q[c].env] = Q[c].scope

(* Loops: a `while` whose body binds nothing has no Env of its own, one    *)
(* whose body makes functions a new one for each pass, any other one that  *)
(* is written over.                                                        *)
Thin(x) == x.kind = "loop" /\ x.body = "bare" /\ x.var = "none"
Making(x) == x.kind = "block" \/ (x.kind = "loop" /\ x.body = "making")
Rewritten(x) == x.kind = "loop" /\ x.body # "making" /\ ~ Thin(x)

(* A loop that is written over still has its variable where it put it.     *)
VarFine(x, e, s) ==
  /\ Thin(x) => DOMAIN s.vals = {}
  /\ Rewritten(x) /\ x.var # "none" =>
       /\ x.var \in Held(e) /\ own(e, x.var) = x.home /\ ~ s.vals[x.var].mutable
       /\ x.body = "bare" => DOMAIN s.vals = {x.var}

(* Entry x of the stack, on entry y: its Env stands for its scope, and is  *)
(* firm where functions can be made.                                       *)
EntryIs(x, y, E, Z, T, F) ==
  /\ x.kind \in {"block", "loop", "call"}
  /\ IF Thin(x) THEN x.env = y.env ELSE T[x.env] = x.scope
  /\ x.kind # "call" => /\ Z[x.scope].parent = y.scope
                        /\ ~ Thin(x) => E[x.env].parent = y.env
  /\ x.kind = "call" => E[x.env].parent \in F /\ T[E[x.env].parent] = Z[x.scope].parent
  /\ VarFine(x, E[x.env], Z[x.scope])
  /\ x.kind = "call" /\ x.decl \in Makers => x.env \in F
  /\ Making(x) /\ ~ Thin(y) /\ y.env \in F => x.env \in F
  /\ Rewritten(x) => x.env \notin F

Rising(K, M) ==
  /\ \A d \in 1 .. Len(K) : K[d].scope \in 1 .. M
  /\ \A d, b \in 1 .. Len(K) : d < b => K[d].scope < K[b].scope

StackIs(K, E, Z, T, F) ==
  /\ Rising(K, Len(Z)) /\ K[1].scope = 1 /\ T[1] = 1 /\ 1 \in F
  /\ \A d \in 2 .. Len(K) : EntryIs(K[d], K[d - 1], E, Z, T, F)

CallsIn(K, i) == Cardinality({j \in 1 .. i : K[j].kind = "call"})

(* A frame kept for call depth k is used only by calls deeper than k, or   *)
(* by the loops without an Env in them: no call that is running at depth k *)
(* can lose its frame to the next one.                                     *)
Above(K, e, k) ==
  \A i \in 1 .. Len(K) : K[i].env = e => k < CallsIn(K, i) /\ (K[i].kind = "loop" => Thin(K[i]))

(* Frame e, kept for the calls of d at depth k, is not firm: nothing keeps *)
(* it, for d makes no functions.                                           *)
FrameFine(e, k, d, c, E, Z, T, F, K) ==
  /\ k \in Nat /\ d \notin Makers /\ E[e].parent = c /\ e \notin F
  /\ \A i \in 1 .. Len(Params[d]) :
       Params[d][i] \in DOMAIN Z[T[e]].vals /\ ~ Z[T[e]].vals[Params[d][i]].mutable
  /\ Above(K, e, k)

FramesFine(P, E, Z, T, F, K) ==
  \A d \in Decls : \A k \in DOMAIN P[d].envs :
    FrameFine(P[d].envs[k], k, d, P[d].closure, E, Z, T, F, K)

(* What makes functions was seen to, and no call site calls it the short   *)
(* way.                                                                    *)
MakersFine(esc, sim, Q) ==
  /\ DOMAIN esc = Decls /\ DOMAIN sim.decl = Decls /\ sim.sites \subseteq 1 .. Len(Q)
  /\ \A d \in Decls : d \in Makers => esc[d] /\ sim.decl[d] # "yes" /\ \A c \in sim.sites : Q[c].decl # d

Tied(T, F) ==
  /\ SlotsFine(cells) /\ Texts(scopes) /\ Stands(T, Len(envs), Len(scopes)) /\ Match(envs, cells, scopes, T)
  /\ Distinct(envs) /\ Firm(F, T, envs, scopes) /\ KeptFine(closures, T, F)
  /\ StackIs(stack, envs, scopes, T, F) /\ FramesFine(pool, envs, scopes, T, F, stack)
  /\ MakersFine(escapes, simple, closures)

(* The inductive invariant.                                                *)
IInv == Shape /\ \E T, F : Tied(T, F)

-----------------------------------------------------------------------------
(* Names, looked up on both sides. *)

OwnerIn(Z, s, n) ==
  LET owner[t \in 0 .. Len(Z)] ==
        IF t = 0 THEN 0
        ELSE IF n \in DOMAIN Z[t].vals THEN t ELSE owner[Z[t].parent]
  IN owner[s]

LEMMA OwnerFound == \A s, n : L!Owner(s, n) = OwnerIn(scopes, s, n)
  BY DEF L!Owner, OwnerIn

LEMMA OwnerIs ==
  ASSUME NEW Z, Len(Z) \in Nat, Nested(Z), NEW n
  PROVE  /\ OwnerIn(Z, 0, n) = 0
         /\ \A f \in 1 .. Len(Z) :
              OwnerIn(Z, f, n) = IF n \in DOMAIN Z[f].vals THEN f ELSE OwnerIn(Z, Z[f].parent, n)
<1> DEFINE N == Len(Z)
           P == [f \in 1 .. N |-> Z[f].parent]
           H == {f \in 1 .. N : n \in DOMAIN Z[f].vals}
           V == [f \in 1 .. N |-> f]
           Takes(g, f) == IF f = 0 THEN 0 ELSE IF n \in DOMAIN Z[f].vals THEN f ELSE g[Z[f].parent]
           g == CHOOSE g : g = [f \in 0 .. N |-> Takes(g, f)]
<1>1. N \in Nat /\ \A f \in 1 .. N : P[f] \in 0 .. f - 1
  BY DEF Nested
<1>2. PICK h : Climbs(h, N, P, H, V)
  <2> HIDE DEF P, H, V, N
  <2>1. QED
    BY <1>1, ClimbExists
<1>3. h = [f \in 0 .. N |-> Takes(h, f)]
  <2> DEFINE Climb(f) == IF f = 0 THEN 0 ELSE IF f \in H THEN V[f] ELSE h[P[f]]
  <2>1. \A f \in 0 .. N : Climb(f) = Takes(h, f)
    <3>1. \A f \in 0 .. N : f = 0 \/ f \in 1 .. N
      BY <1>1
    <3> HIDE DEF N
    <3>2. QED
      BY <3>1
  <2>2. h = [f \in 0 .. N |-> Climb(f)]
    BY <1>2 DEF Climbs
  <2> HIDE DEF Climb, Takes
  <2>3. QED
    BY <2>1, <2>2
<1>4. g = [f \in 0 .. N |-> Takes(g, f)]
  <2> DEFINE Is(k) == k = [f \in 0 .. N |-> Takes(k, f)]
  <2>1. \E k : Is(k)
    BY <1>3
  <2> HIDE DEF Is, Takes
  <2>2. Is(CHOOSE k : Is(k))
    BY <2>1
  <2>3. QED
    BY <2>2 DEF Is
<1>5. \A f : OwnerIn(Z, f, n) = g[f]
  BY DEF OwnerIn
<1> HIDE DEF g
<1>6. g[0] = 0
  <2>1. 0 \in 0 .. N
    BY <1>1
  <2>2. QED
    BY <1>4, <2>1
<1>7. ASSUME NEW f \in 1 .. N PROVE g[f] = IF n \in DOMAIN Z[f].vals THEN f ELSE g[Z[f].parent]
  <2>1. f \in 0 .. N /\ f # 0
    BY <1>1
  <2> HIDE DEF N
  <2>2. QED
    BY <1>4, <2>1
<1>8. QED
  BY <1>5, <1>6, <1>7

(* A name is bound in the same place, seen from an Env and from a scope.   *)
Agrees(E, Z, T, e, s, n) ==
  \/ Found(E, e, n) = 0 /\ OwnerIn(Z, s, n) = 0
  \/ \E h \in 1 .. Len(E) : n \in Held(E[h]) /\ Found(E, e, n) = own(E[h], n) /\ OwnerIn(Z, s, n) = T[h]

LEMMA AgreeStep ==
  ASSUME NEW E, EnvsFine(E), NEW Z, Texts(Z), NEW T, NEW C, Stands(T, Len(E), Len(Z)), Match(E, C, Z, T),
         NEW n, NEW e \in 1 .. Len(E), NEW s, s = T[e], Agrees(E, Z, T, E[e].parent, Z[s].parent, n)
  PROVE  Agrees(E, Z, T, e, s, n)
<1>1. Len(E) \in Nat /\ Len(Z) \in Nat /\ Nested(E) /\ Nested(Z)
  BY ListIs DEF EnvsFine, Texts
<1>2. s \in 1 .. Len(Z) /\ (n \in Held(E[e]) <=> n \in DOMAIN Z[s].vals)
  BY DEF Stands, Match, Binds
<1>3. Found(E, e, n) = IF n \in Held(E[e]) THEN own(E[e], n) ELSE Found(E, E[e].parent, n)
  BY <1>1, FoundIs
<1>4. OwnerIn(Z, s, n) = IF n \in DOMAIN Z[s].vals THEN s ELSE OwnerIn(Z, Z[s].parent, n)
  BY <1>1, <1>2, OwnerIs
<1>5. QED
  BY <1>2, <1>3, <1>4 DEF Agrees

LEMMA FirmAgree ==
  ASSUME NEW E, EnvsFine(E), NEW Z, Texts(Z), NEW T, NEW C, Stands(T, Len(E), Len(Z)), Match(E, C, Z, T),
         NEW F, Firm(F, T, E, Z), NEW n
  PROVE  \A e \in F : Agrees(E, Z, T, e, T[e], n)
<1> DEFINE Done == {m \in Nat : \A e \in F : e <= m => Agrees(E, Z, T, e, T[e], n)}
<1>1. Len(E) \in Nat /\ Len(Z) \in Nat /\ Nested(E) /\ Nested(Z)
  BY ListIs DEF EnvsFine, Texts
<1>2. 0 \in Done
  BY <1>1 DEF Firm
<1>3. ASSUME NEW m \in Nat, m \in Done PROVE m + 1 \in Done
  <2> SUFFICES ASSUME NEW e \in F, e <= m + 1 PROVE Agrees(E, Z, T, e, T[e], n)
    OBVIOUS
  <2>1. e \in 1 .. Len(E) /\ Anchored(e, T[e], E, Z, T, F)
    BY DEF Firm
  <2>2. E[e].parent \in 0 .. e - 1
    BY <1>1, <2>1 DEF Nested
  <2>3. Agrees(E, Z, T, E[e].parent, Z[T[e]].parent, n)
    <3>1. CASE E[e].parent = 0 /\ Z[T[e]].parent = 0
      BY <1>1, <3>1, FoundIs, OwnerIs DEF Agrees
    <3>2. CASE E[e].parent \in F /\ T[E[e].parent] = Z[T[e]].parent
      <4>1. E[e].parent <= m
        BY <1>1, <2>1, <2>2
      <4>2. QED
        BY <1>3, <3>2, <4>1
    <3>3. QED
      BY <2>1, <3>1, <3>2 DEF Anchored
  <2>4. QED
    BY <2>1, <2>3, AgreeStep
<1>4. Len(E) \in Done
  <2> HIDE DEF Done
  <2>1. QED
    BY <1>1, <1>2, <1>3, AllNaturals
<1>5. \A e \in F : e <= Len(E)
  BY <1>1 DEF Firm
<1>6. QED
  BY <1>4, <1>5

LEMMA StackAgree ==
  ASSUME NEW E, EnvsFine(E), NEW Z, Texts(Z), NEW T, NEW C, Stands(T, Len(E), Len(Z)), Match(E, C, Z, T),
         NEW F, Firm(F, T, E, Z), NEW K, StackFine(K, Len(E)), StackIs(K, E, Z, T, F), NEW n
  PROVE  \A d \in 1 .. Len(K) : Agrees(E, Z, T, K[d].env, K[d].scope, n)
<1> DEFINE Done == {m \in Nat : \A d \in 1 .. Len(K) : d <= m => Agrees(E, Z, T, K[d].env, K[d].scope, n)}
<1>1. Len(E) \in Nat /\ Len(Z) \in Nat /\ Nested(Z) /\ Len(K) \in Nat
  BY ListIs DEF EnvsFine, Texts, StackFine
<1>2. 0 \in Done
  BY <1>1
<1>3. ASSUME NEW m \in Nat, m \in Done PROVE m + 1 \in Done
  <2> SUFFICES ASSUME NEW d \in 1 .. Len(K), d <= m + 1 PROVE Agrees(E, Z, T, K[d].env, K[d].scope, n)
    OBVIOUS
  <2>1. CASE d = 1
    <3>1. K[1].env = 1 /\ K[1].scope = 1 /\ T[1] = 1 /\ 1 \in F
      BY DEF StackFine, StackIs
    <3>2. QED
      BY <2>1, <3>1, FirmAgree
  <2>2. CASE d # 1
    <3> DEFINE x == K[d]
               y == K[d - 1]
    <3>1. d \in 2 .. Len(K) /\ d - 1 \in 1 .. Len(K) /\ d - 1 <= m
      BY <1>1, <2>2
    <3>2. Agrees(E, Z, T, y.env, y.scope, n)
      BY <1>3, <3>1
    <3>3. EntryIs(x, y, E, Z, T, F) /\ x.scope \in 1 .. Len(Z)
      BY <3>1 DEF StackIs, Rising
    <3>4. x.env \in 1 .. Len(E)
      BY DEF StackFine, EntryFine
    <3> HIDE DEF x, y
    <3>5. CASE Thin(x)
      <4>1. x.env = y.env /\ n \notin DOMAIN Z[x.scope].vals /\ Z[x.scope].parent = y.scope
        BY <3>3, <3>5 DEF EntryIs, VarFine, Thin
      <4>2. OwnerIn(Z, x.scope, n) = OwnerIn(Z, y.scope, n)
        BY <1>1, <3>3, <4>1, OwnerIs
      <4>3. QED
        BY <3>2, <4>1, <4>2 DEF Agrees, x
    <3>6. CASE ~ Thin(x)
      <4>1. x.scope = T[x.env]
        BY <3>3, <3>6 DEF EntryIs
      <4>2. CASE x.kind = "call"
        <5>1. E[x.env].parent \in F /\ T[E[x.env].parent] = Z[x.scope].parent
          BY <3>3, <4>2 DEF EntryIs
        <5>2. Agrees(E, Z, T, E[x.env].parent, Z[x.scope].parent, n)
          BY <5>1, FirmAgree
        <5>3. QED
          BY <3>4, <4>1, <5>2, AgreeStep DEF x
      <4>3. CASE x.kind # "call"
        <5>1. Agrees(E, Z, T, E[x.env].parent, Z[x.scope].parent, n)
          BY <3>2, <3>3, <3>6, <4>3 DEF EntryIs
        <5>2. QED
          BY <3>4, <4>1, <5>1, AgreeStep DEF x
      <4>4. QED
        BY <4>2, <4>3
    <3>7. QED
      BY <3>5, <3>6
  <2>3. QED
    BY <2>1, <2>2
<1>4. Len(K) \in Done
  <2> HIDE DEF Done
  <2>1. QED
    BY <1>1, <1>2, <1>3, AllNaturals
<1>5. \A d \in 1 .. Len(K) : d <= Len(K)
  BY <1>1
<1>6. QED
  BY <1>4, <1>5

LEMMA AgreeSeen ==
  ASSUME NEW E, EnvsFine(E), NEW Z, Texts(Z), NEW T, NEW C, Stands(T, Len(E), Len(Z)), Match(E, C, Z, T),
         NEW e, NEW s, NEW n, Agrees(E, Z, T, e, s, n)
  PROVE  /\ Found(E, e, n) = 0 <=> OwnerIn(Z, s, n) = 0
         /\ Found(E, e, n) # 0 =>
              \E h \in 1 .. Len(E) :
                /\ n \in Held(E[h]) /\ Found(E, e, n) = own(E[h], n) /\ OwnerIn(Z, s, n) = T[h]
                /\ T[h] \in 1 .. Len(Z) /\ own(E[h], n) \in 1 .. Len(C)
                /\ n \in DOMAIN Z[T[h]].vals /\ C[own(E[h], n)] = Z[T[h]].vals[n]
<1>1. Len(E) \in Nat /\ Len(Z) \in Nat
  BY ListIs DEF EnvsFine, Texts
<1>2. ASSUME NEW h \in 1 .. Len(E), n \in Held(E[h])
      PROVE  /\ own(E[h], n) \in 1 .. Len(C) /\ own(E[h], n) # 0 /\ T[h] \in 1 .. Len(Z) /\ T[h] # 0
             /\ n \in DOMAIN Z[T[h]].vals /\ C[own(E[h], n)] = Z[T[h]].vals[n]
  <2>1. Binds(E[h], C, Z[T[h]].vals) /\ T[h] \in 1 .. Len(Z)
    BY <1>2 DEF Match, Stands
  <2>2. \A i \in 1 .. Len(C) : i # 0
    OBVIOUS
  <2>3. QED
    BY <1>1, <1>2, <2>1, <2>2 DEF Binds
<1>3. QED
  BY <1>2 DEF Agrees

(* What is found under a name.                                             *)
ValueIn(C, s) == IF s = 0 THEN 0 ELSE C[s].value
SeenIn(Z, s, n) == IF OwnerIn(Z, s, n) = 0 THEN 0 ELSE Z[OwnerIn(Z, s, n)].vals[n].value

LEMMA AgreeValue ==
  ASSUME NEW E, EnvsFine(E), NEW Z, Texts(Z), NEW T, NEW C, Stands(T, Len(E), Len(Z)), Match(E, C, Z, T),
         NEW e, NEW s, NEW n, Agrees(E, Z, T, e, s, n)
  PROVE  ValueIn(C, Found(E, e, n)) = SeenIn(Z, s, n)
<1>1. CASE Found(E, e, n) = 0
  BY <1>1, AgreeSeen DEF ValueIn, SeenIn
<1>2. CASE Found(E, e, n) # 0
  BY <1>2, AgreeSeen DEF ValueIn, SeenIn
<1>3. QED
  BY <1>1, <1>2

LEMMA SeenFound == \A s, n : L!Seen(s, n) = SeenIn(scopes, s, n)
  BY OwnerFound DEF L!Seen, SeenIn, L!Unbound

LEMMA ValueFound == \A s : Value(s) = ValueIn(cells, s)
  BY DEF Value, ValueIn, L!Unbound

LEMMA KeptSeen == IInv => HeldScopesKept
<1> SUFFICES ASSUME Shape, NEW T, NEW F, Tied(T, F), NEW c \in DOMAIN closures, NEW n \in Names
             PROVE  Value(slot(closures[c].env, n)) = L!Seen(closures[c].scope, n)
  BY DEF IInv, HeldScopesKept
<1>1. c \in 1 .. Len(closures)
  BY Sizes
<1>2. closures[c].env \in F /\ T[closures[c].env] = closures[c].scope
  BY <1>1 DEF Tied, KeptFine
<1>3. /\ EnvsFine(envs) /\ Texts(scopes) /\ Stands(T, Len(envs), Len(scopes)) /\ Match(envs, cells, scopes, T)
      /\ Firm(F, T, envs, scopes)
  BY DEF Tied, Shape
<1>4. Agrees(envs, scopes, T, closures[c].env, closures[c].scope, n)
  BY <1>2, <1>3, FirmAgree
<1>5. ValueIn(cells, Found(envs, closures[c].env, n)) = SeenIn(scopes, closures[c].scope, n)
  BY <1>3, <1>4, AgreeValue
<1>6. QED
  BY <1>5, SlotFound, SeenFound, ValueFound

LEMMA RunningAgrees ==
  ASSUME Shape, NEW T, NEW F, Tied(T, F), NEW n
  PROVE  /\ Agrees(envs, scopes, T, Running.env, Running.scope, n)
         /\ slot(Running.env, n) = 0 <=> L!Owner(Running.scope, n) = 0
         /\ slot(Running.env, n) # 0 =>
              \E h \in 1 .. Len(envs) :
                /\ n \in Held(envs[h]) /\ slot(Running.env, n) = own(envs[h], n) /\ L!Owner(Running.scope, n) = T[h]
                /\ T[h] \in 1 .. Len(scopes) /\ own(envs[h], n) \in 1 .. Len(cells)
                /\ n \in DOMAIN scopes[T[h]].vals /\ cells[own(envs[h], n)] = scopes[T[h]].vals[n]
<1>1. /\ EnvsFine(envs) /\ Texts(scopes) /\ Stands(T, Len(envs), Len(scopes)) /\ Match(envs, cells, scopes, T)
      /\ Firm(F, T, envs, scopes) /\ StackFine(stack, Len(envs)) /\ StackIs(stack, envs, scopes, T, F)
  BY DEF Tied, Shape
<1>2. Len(stack) \in 1 .. Len(stack) /\ Running = stack[Len(stack)]
  BY Sizes
<1>3. Agrees(envs, scopes, T, Running.env, Running.scope, n)
  BY <1>1, <1>2, StackAgree
<1> DEFINE e == Running.env
           s == Running.scope
<1>4. slot(e, n) = Found(envs, e, n) /\ L!Owner(s, n) = OwnerIn(scopes, s, n)
  BY SlotFound, OwnerFound
<1>5. Agrees(envs, scopes, T, e, s, n)
  BY <1>3
<1> HIDE DEF e, s
<1>6. /\ Found(envs, e, n) = 0 <=> OwnerIn(scopes, s, n) = 0
      /\ Found(envs, e, n) # 0 =>
              \E h \in 1 .. Len(envs) :
                /\ n \in Held(envs[h]) /\ Found(envs, e, n) = own(envs[h], n) /\ OwnerIn(scopes, s, n) = T[h]
                /\ T[h] \in 1 .. Len(scopes) /\ own(envs[h], n) \in 1 .. Len(cells)
                /\ n \in DOMAIN scopes[T[h]].vals /\ cells[own(envs[h], n)] = scopes[T[h]].vals[n]
  BY <1>1, <1>5, AgreeSeen
<1>7. QED
  BY <1>3, <1>4, <1>6 DEF e, s

-----------------------------------------------------------------------------
(* Counting calls. *)

LEMMA CallsAre ==
  ASSUME NEW K, NEW i \in Nat
  PROVE  /\ CallsIn(K, i) \in Nat
         /\ CallsIn(K, i + 1) = CallsIn(K, i) + (IF K[i + 1].kind = "call" THEN 1 ELSE 0)
<1> DEFINE A == {j \in 1 .. i : K[j].kind = "call"}
           B == {j \in 1 .. i + 1 : K[j].kind = "call"}
           I == 1 .. i
<1>1. IsFiniteSet(A) /\ Cardinality(A) \in Nat
  <2>1. IsFiniteSet(I)
    BY FS_Interval
  <2>2. A \subseteq I
    OBVIOUS
  <2> HIDE DEF A, I
  <2>3. QED
    BY <2>1, <2>2, FS_Subset, FS_CardinalityType
<1>2. CallsIn(K, i) = Cardinality(A) /\ CallsIn(K, i + 1) = Cardinality(B)
  BY DEF CallsIn
<1>3. CASE K[i + 1].kind = "call"
  <2>1. B = A \cup {i + 1} /\ i + 1 \notin A
    BY <1>3
  <2> HIDE DEF A, B
  <2>2. Cardinality(A \cup {i + 1}) = Cardinality(A) + 1
    BY <1>1, <2>1, FS_AddElement
  <2>3. QED
    BY <1>1, <1>2, <1>3, <2>1, <2>2
<1>4. CASE K[i + 1].kind # "call"
  <2>1. B = A
    BY <1>4
  <2> HIDE DEF A, B
  <2>2. QED
    BY <1>1, <1>2, <1>4, <2>1
<1>5. QED
  BY <1>3, <1>4

LEMMA CallsSame ==
  ASSUME NEW K, NEW A, NEW i \in Nat, \A j \in 1 .. i : A[j] = K[j]
  PROVE  CallsIn(A, i) = CallsIn(K, i)
<1>1. {j \in 1 .. i : A[j].kind = "call"} = {j \in 1 .. i : K[j].kind = "call"}
  OBVIOUS
<1>2. QED
  BY <1>1 DEF CallsIn

LEMMA CallsUp ==
  ASSUME NEW K, NEW n \in Nat
  PROVE  \A i \in Nat : i <= n => CallsIn(K, i) <= CallsIn(K, n)
<1> DEFINE Done == {m \in Nat : \A i \in Nat : i <= m => CallsIn(K, i) <= CallsIn(K, m)}
<1>1. 0 \in Done
  <2>1. CallsIn(K, 0) \in Nat
    BY CallsAre
  <2>2. \A i \in Nat : i <= 0 => i = 0
    OBVIOUS
  <2>3. QED
    BY <2>1, <2>2
<1>2. ASSUME NEW m \in Nat, m \in Done PROVE m + 1 \in Done
  <2>1. /\ CallsIn(K, m) \in Nat /\ CallsIn(K, m + 1) \in Nat /\ CallsIn(K, m) <= CallsIn(K, m + 1)
    BY CallsAre
  <2>2. ASSUME NEW i \in Nat, i <= m + 1 PROVE CallsIn(K, i) <= CallsIn(K, m + 1)
    <3>1. CallsIn(K, i) \in Nat
      BY CallsAre
    <3>2. CASE i = m + 1
      BY <3>1, <3>2
    <3>3. CASE i # m + 1
      <4>1. CallsIn(K, i) <= CallsIn(K, m)
        BY <1>2, <2>2, <3>3
      <4>2. QED
        BY <2>1, <3>1, <4>1
    <3>4. QED
      BY <3>2, <3>3
  <2>3. QED
    BY <2>2
<1>3. n \in Done
  <2> HIDE DEF Done
  <2>1. QED
    BY <1>1, <1>2, AllNaturals
<1>4. QED
  BY <1>3

LEMMA DepthIs ==
  ASSUME Shape
  PROVE  callDepth = CallsIn(stack, Len(stack)) /\ callDepth \in Nat
<1>1. DOMAIN stack = 1 .. Len(stack) /\ Len(stack) \in Nat
  BY Sizes
<1> DEFINE K == [d \in DOMAIN stack |->
              [kind |-> stack[d].kind, scope |-> stack[d].scope, decl |-> stack[d].decl,
               body |-> stack[d].body, var |-> stack[d].var]]
<1>2. DOMAIN K = 1 .. Len(stack) /\ \A d \in 1 .. Len(stack) : K[d].kind = stack[d].kind
  BY <1>1
<1>3. callDepth = Cardinality({d \in DOMAIN K : K[d].kind = "call"})
  <2> HIDE DEF K
  <2>1. \A S : L!Cardinality(S) = Cardinality(S)
    BY DEF L!Cardinality, Cardinality, L!IsFiniteSet, IsFiniteSet
  <2>2. callDepth = L!Cardinality({d \in DOMAIN K : K[d].kind = "call"})
    BY DEF callDepth, L!Calls, K
  <2>3. QED
    BY <2>1, <2>2
<1> HIDE DEF K
<1>4. {d \in DOMAIN K : K[d].kind = "call"} = {d \in 1 .. Len(stack) : stack[d].kind = "call"}
  BY <1>2
<1>5. QED
  BY <1>1, <1>3, <1>4, CallsAre DEF CallsIn

-----------------------------------------------------------------------------
(* A scope is entered: in a new Env, or one that is filled again.          *)

LEMMA ScopesGrow ==
  ASSUME NEW Z, Texts(Z), NEW p \in 0 .. Len(Z), NEW v
  PROVE  LET Y == Append(Z, [parent |-> p, vals |-> v])
         IN /\ Texts(Y) /\ Len(Y) = Len(Z) + 1 /\ Len(Z) \in Nat /\ \A s \in 1 .. Len(Z) : Y[s] = Z[s]
            /\ Y[Len(Z) + 1].parent = p /\ Y[Len(Z) + 1].vals = v
<1> DEFINE z == [parent |-> p, vals |-> v]
           Y == Append(Z, z)
<1>1. z.parent = p /\ z.vals = v /\ z = [parent |-> z.parent, vals |-> z.vals]
  OBVIOUS
<1> HIDE DEF z
<1>2. Listed(Y) /\ Len(Y) = Len(Z) + 1 /\ Y[Len(Z) + 1] = z /\ \A s \in 1 .. Len(Z) : Y[s] = Z[s]
  BY ListAppend DEF Texts
<1>3. Len(Z) \in Nat /\ Nested(Z)
  BY ListIs DEF Texts
<1> HIDE DEF Y
<1>4. ASSUME NEW s \in 1 .. Len(Y) PROVE Y[s].parent \in 0 .. s - 1 /\ Y[s] = [parent |-> Y[s].parent, vals |-> Y[s].vals]
  <2>1. CASE s = Len(Z) + 1
    BY <1>1, <1>2, <1>3, <2>1
  <2>2. CASE s # Len(Z) + 1
    <3>1. s \in 1 .. Len(Z)
      BY <1>2, <1>3, <2>2
    <3>2. QED
      BY <1>2, <1>3, <3>1 DEF Nested, Texts
  <2>3. QED
    BY <2>1, <2>2
<1>5. Texts(Y)
  BY <1>2, <1>4 DEF Texts, Nested
<1>6. QED
  BY <1>1, <1>2, <1>3, <1>5 DEF Y, z

(* The scopes there were are still there.                                  *)
Grown(Y, Z) == Texts(Y) /\ Len(Y) = Len(Z) + 1 /\ Len(Z) \in Nat /\ \A s \in 1 .. Len(Z) : Y[s] = Z[s]

Enters(E, C, T, D, B, U, r, M, v) ==
  /\ Len(E) \in Nat /\ Len(E) <= Len(D) /\ r \in 1 .. Len(D) /\ U[r] = M
  /\ \A e \in 1 .. Len(D) : e # r => e \in 1 .. Len(E) /\ D[e] = E[e] /\ U[e] = T[e]
  /\ \A e \in 1 .. Len(E) : e # r => \A m \in Held(E[e]) :
       /\ own(E[e], m) \in 1 .. Len(B) /\ B[own(E[e], m)] = C[own(E[e], m)]
       /\ \A n \in Held(D[r]) : own(D[r], n) # own(E[e], m)
  /\ Binds(D[r], B, v)
  /\ \A n, m \in Held(D[r]) : own(D[r], n) = own(D[r], m) => n = m

LEMMA OnePlace ==
  ASSUME NEW E, Distinct(E), NEW e, NEW f, NEW n, NEW m, e \in 1 .. Len(E), f \in 1 .. Len(E),
         n \in Held(E[e]), m \in Held(E[f]), own(E[e], n) = own(E[f], m)
  PROVE  e = f /\ n = m
BY DEF Distinct

LEMMA EnterTies ==
  ASSUME NEW E, NEW C, NEW Z, NEW T, Stands(T, Len(E), Len(Z)), Match(E, C, Z, T), Distinct(E),
         NEW D, NEW B, NEW Y, NEW U, Grown(Y, Z), NEW r, NEW v, Enters(E, C, T, D, B, U, r, Len(Y), v),
         Y[Len(Y)].vals = v
  PROVE  Stands(U, Len(D), Len(Y)) /\ Match(D, B, Y, U) /\ Distinct(D)
<1> DEFINE M == Len(Y)
<1>1. M \in 1 .. M /\ \A s \in 1 .. Len(Z) : s \in 1 .. M /\ s # M /\ Y[s] = Z[s]
  BY DEF Grown
<1>2. \A e \in 1 .. Len(D) : e # r => e \in 1 .. Len(E) /\ D[e] = E[e] /\ U[e] = T[e] /\ T[e] \in 1 .. Len(Z)
  BY DEF Enters, Stands
<1>3. U[r] = M
  BY DEF Enters
<1> HIDE DEF M
<1>4. Stands(U, Len(D), M)
  <2>1. ASSUME NEW e \in 1 .. Len(D) PROVE U[e] \in 1 .. M
    BY <1>1, <1>2, <1>3
  <2>2. ASSUME NEW e \in 1 .. Len(D), NEW f \in 1 .. Len(D), U[e] = U[f] PROVE e = f
    <3>1. e # r /\ f # r => e = f
      BY <1>2, <2>2 DEF Stands
    <3>2. e = r => f = r
      BY <1>1, <1>2, <1>3, <2>2
    <3>3. f = r => e = r
      BY <1>1, <1>2, <1>3, <2>2
    <3>4. QED
      BY <3>1, <3>2, <3>3
  <2>3. QED
    BY <2>1, <2>2 DEF Stands
<1>5. Match(D, B, Y, U)
  <2> SUFFICES ASSUME NEW e \in 1 .. Len(D) PROVE Binds(D[e], B, Y[U[e]].vals)
    BY DEF Match
  <2>1. CASE e = r
    BY <1>3, <2>1 DEF Enters, M
  <2>2. CASE e # r
    <3>1. e \in 1 .. Len(E) /\ D[e] = E[e] /\ Y[U[e]] = Z[T[e]]
      BY <1>1, <1>2, <2>2
    <3>2. Binds(E[e], C, Z[T[e]].vals)
      BY <3>1 DEF Match
    <3>3. \A m \in Held(E[e]) : own(E[e], m) \in 1 .. Len(B) /\ B[own(E[e], m)] = C[own(E[e], m)]
      BY <2>2, <3>1 DEF Enters
    <3>4. QED
      BY <3>1, <3>2, <3>3 DEF Binds
  <2>3. QED
    BY <2>1, <2>2
<1>6. Distinct(D)
  <2> SUFFICES ASSUME NEW e \in 1 .. Len(D), NEW f \in 1 .. Len(D), NEW n \in Held(D[e]), NEW m \in Held(D[f]),
                      own(D[e], n) = own(D[f], m)
               PROVE  e = f /\ n = m
    BY DEF Distinct
  <2>1. CASE e = r /\ f = r
    BY <2>1 DEF Enters
  <2>2. CASE e = r /\ f # r
    <3>1. f \in 1 .. Len(E) /\ D[f] = E[f]
      BY <1>2, <2>2
    <3>2. own(D[r], n) # own(E[f], m)
      BY <2>2, <3>1 DEF Enters
    <3>3. QED
      BY <2>2, <3>1, <3>2
  <2>3. CASE e # r /\ f = r
    <3>1. e \in 1 .. Len(E) /\ D[e] = E[e]
      BY <1>2, <2>3
    <3>2. own(D[r], m) # own(E[e], n)
      BY <2>3, <3>1 DEF Enters
    <3>3. QED
      BY <2>3, <3>1, <3>2
  <2>4. CASE e # r /\ f # r
    <3>1. e \in 1 .. Len(E) /\ D[e] = E[e] /\ f \in 1 .. Len(E) /\ D[f] = E[f]
      BY <1>2, <2>4
    <3>2. n \in Held(E[e]) /\ m \in Held(E[f])
      BY <3>1
    <3>3. own(E[e], n) = own(E[f], m)
      BY <3>1
    <3>4. e \in 1 .. Len(E) /\ f \in 1 .. Len(E)
      BY <3>1
    <3>5. QED
      BY <3>2, <3>3, <3>4 DEF Distinct
  <2>5. QED
    BY <2>1, <2>2, <2>3, <2>4
<1>7. QED
  BY <1>4, <1>5, <1>6 DEF M

(* Which Envs are firm.                                                    *)
Firms(G, F, r, D, T, p) ==
  /\ r \notin F /\ (G = F \/ (G = F \cup {r} /\ D[r].parent \in F /\ T[D[r].parent] = p))

StillFirm(F, G, r, U, T) == \A e \in F : e \in G /\ e # r /\ U[e] = T[e]

LEMMA EnterFirm ==
  ASSUME NEW E, NEW C, NEW Z, NEW T, Stands(T, Len(E), Len(Z)), NEW F, Firm(F, T, E, Z),
         NEW D, NEW B, NEW Y, NEW U, Grown(Y, Z), NEW r, NEW v, Enters(E, C, T, D, B, U, r, Len(Y), v),
         NEW G, NEW p, p = Y[Len(Y)].parent, Firms(G, F, r, D, T, p)
  PROVE  Firm(G, U, D, Y) /\ StillFirm(F, G, r, U, T)
<1>1. \A e \in F : e \in G /\ e # r /\ e \in 1 .. Len(E) /\ e \in 1 .. Len(D)
  BY DEF Firms, Firm, Enters
<1>2. \A e \in F : D[e] = E[e] /\ U[e] = T[e] /\ Y[U[e]] = Z[T[e]]
  BY <1>1 DEF Enters, Grown, Stands
<1>3. ASSUME NEW e \in F PROVE e \in 1 .. Len(D) /\ Anchored(e, U[e], D, Y, U, G)
  <2>1. Anchored(e, T[e], E, Z, T, F)
    BY DEF Firm
  <2>2. QED
    BY <1>1, <1>2, <2>1 DEF Anchored
<1>4. ASSUME G = F \cup {r}, D[r].parent \in F, T[D[r].parent] = Y[Len(Y)].parent
      PROVE  r \in 1 .. Len(D) /\ Anchored(r, U[r], D, Y, U, G)
  <2>1. r \in 1 .. Len(D) /\ U[r] = Len(Y)
    BY DEF Enters
  <2>2. QED
    BY <1>1, <1>2, <1>4, <2>1 DEF Anchored
<1>5. Firm(G, U, D, Y)
  BY <1>3, <1>4 DEF Firm, Firms
<1>6. QED
  BY <1>1, <1>2, <1>5 DEF StillFirm

LEMMA KeptStay ==
  ASSUME NEW Q, NEW T, NEW F, KeptFine(Q, T, F), NEW U, NEW G, \A e \in F : e \in G /\ U[e] = T[e]
  PROVE  KeptFine(Q, U, G)
BY DEF KeptFine

LEMMA EntryStays ==
  ASSUME NEW x, NEW y, NEW E, NEW Z, NEW T, NEW F, EntryIs(x, y, E, Z, T, F), NEW D, NEW Y, NEW U, NEW G,
         D[x.env].parent = E[x.env].parent, U[x.env] = T[x.env], Y[x.scope].parent = Z[x.scope].parent,
         VarFine(x, D[x.env], Y[x.scope]), \A e \in F : e \in G /\ U[e] = T[e],
         x.env \in G <=> x.env \in F, y.env \in G <=> y.env \in F
  PROVE  EntryIs(x, y, D, Y, U, G)
BY DEF EntryIs

(* A stack that ends in x, and was the other one before.                   *)
StackEnd(A, K, m, x) ==
  /\ m \in Nat /\ m >= 2 /\ m - 1 <= Len(K) /\ Len(K) \in Nat
  /\ Len(A) = m /\ A[m] = x /\ \A d \in 1 .. m - 1 : A[d] = K[d]

StaysFor(e, E, T, F, D, U, G) == D[e] = E[e] /\ U[e] = T[e] /\ (e \in G <=> e \in F)

LEMMA StackOver ==
  ASSUME NEW K, NEW E, NEW Z, NEW T, NEW F, StackIs(K, E, Z, T, F), NEW D, NEW Y, NEW U, NEW G, Grown(Y, Z),
         NEW A, NEW m, NEW x, StackEnd(A, K, m, x), x.scope = Len(Y),
         \A e \in F : e \in G /\ U[e] = T[e],
         \A d \in 1 .. m - 1 : StaysFor(K[d].env, E, T, F, D, U, G),
         EntryIs(x, K[m - 1], D, Y, U, G)
  PROVE  StackIs(A, D, Y, U, G)
<1>1. /\ m \in Nat /\ Len(A) = m /\ A[m] = x /\ \A d \in 1 .. m : d = m \/ (d \in 1 .. m - 1 /\ d \in 1 .. Len(K) /\ A[d] = K[d])
      /\ 1 \in 1 .. m - 1 /\ m - 1 \in 1 .. m - 1
      /\ \A d \in 2 .. m : d = m \/ (d \in 1 .. m - 1 /\ d - 1 \in 1 .. m - 1 /\ d \in 2 .. Len(K) /\ d < m)
  BY DEF StackEnd
<1>2. /\ \A s \in 1 .. Len(Z) : s \in 1 .. Len(Y) /\ s < Len(Y) /\ Y[s] = Z[s]
      /\ Len(Y) \in 1 .. Len(Y)
  BY DEF Grown
<1>3. \A d \in 1 .. m - 1 : K[d].scope \in 1 .. Len(Z)
  BY <1>1 DEF StackIs, Rising, StackEnd
<1>4. Rising(A, Len(Y))
  <2>1. \A d \in 1 .. Len(A) : A[d].scope \in 1 .. Len(Y)
    BY <1>1, <1>2, <1>3
  <2>2. ASSUME NEW d \in 1 .. Len(A), NEW b \in 1 .. Len(A), d < b PROVE A[d].scope < A[b].scope
    <3>1. d # m
      BY <1>1, <2>2
    <3>2. CASE b = m
      BY <1>1, <1>2, <1>3, <3>1, <3>2
    <3>3. CASE b # m
      BY <1>1, <2>2, <3>1, <3>3 DEF StackIs, Rising
    <3>4. QED
      BY <3>2, <3>3
  <2>3. QED
    BY <2>1, <2>2 DEF Rising
<1>5. A[1].scope = 1 /\ U[1] = 1 /\ 1 \in G
  BY <1>1 DEF StackIs, StackEnd
<1>6. ASSUME NEW d \in 2 .. Len(A) PROVE EntryIs(A[d], A[d - 1], D, Y, U, G)
  <2>1. CASE d = m
    BY <1>1, <2>1 DEF StackEnd
  <2>2. CASE d # m
    <3> DEFINE z == K[d]
               y == K[d - 1]
    <3>1. d \in 1 .. m - 1 /\ d - 1 \in 1 .. m - 1 /\ d \in 2 .. Len(K)
      BY <1>1, <2>2
    <3>2. A[d] = z /\ A[d - 1] = y
      BY <3>1 DEF StackEnd
    <3>3. EntryIs(z, y, E, Z, T, F)
      BY <3>1 DEF StackIs
    <3>4. StaysFor(z.env, E, T, F, D, U, G) /\ StaysFor(y.env, E, T, F, D, U, G)
      BY <3>1
    <3>5. Y[z.scope] = Z[z.scope]
      BY <1>2, <1>3, <3>1
    <3> HIDE DEF z, y
    <3>6. VarFine(z, D[z.env], Y[z.scope])
      BY <3>3, <3>4, <3>5 DEF EntryIs, StaysFor
    <3>7. EntryIs(z, y, D, Y, U, G)
      BY <3>3, <3>4, <3>5, <3>6, EntryStays DEF StaysFor
    <3>8. QED
      BY <3>2, <3>7
  <2>3. QED
    BY <2>1, <2>2
<1>7. QED
  BY <1>4, <1>5, <1>6 DEF StackIs

(* The scopes below the top of the stack are others than the top's.        *)
LEMMA StackBelow ==
  ASSUME NEW K, NEW E, NEW Z, NEW T, NEW F, StackIs(K, E, Z, T, F), StackFine(K, Len(E)), Stands(T, Len(E), Len(Z)),
         Len(Z) \in Nat
  PROVE  \A d \in 1 .. Len(K) : T[K[d].env] <= K[d].scope
<1> DEFINE Done == {m \in Nat : \A d \in 1 .. Len(K) : d <= m => T[K[d].env] <= K[d].scope}
<1>1. Len(K) \in Nat
  BY ListIs DEF StackFine
<1>2. 0 \in Done
  BY <1>1
<1>3. ASSUME NEW m \in Nat, m \in Done PROVE m + 1 \in Done
  <2> SUFFICES ASSUME NEW d \in 1 .. Len(K), d <= m + 1 PROVE T[K[d].env] <= K[d].scope
    OBVIOUS
  <2>1. K[d].env \in 1 .. Len(E) /\ T[K[d].env] \in 1 .. Len(Z) /\ K[d].scope \in 1 .. Len(Z)
    BY DEF StackFine, EntryFine, StackIs, Rising, Stands
  <2>2. CASE d = 1
    BY <2>2 DEF StackFine, StackIs
  <2>3. CASE d # 1
    <3>1. d \in 2 .. Len(K) /\ d - 1 \in 1 .. Len(K) /\ d - 1 <= m /\ d - 1 < d
      BY <1>1, <2>3
    <3>2. T[K[d - 1].env] <= K[d - 1].scope
      BY <1>3, <3>1
    <3>3. K[d - 1].scope < K[d].scope /\ K[d - 1].scope \in 1 .. Len(Z)
      BY <3>1 DEF StackIs, Rising
    <3>4. K[d].env = K[d - 1].env \/ T[K[d].env] = K[d].scope
      BY <3>1 DEF StackIs, EntryIs
    <3>5. CASE T[K[d].env] = K[d].scope
      BY <2>1, <3>5
    <3>6. CASE K[d].env = K[d - 1].env
      BY <2>1, <3>2, <3>3, <3>6
    <3>7. QED
      BY <3>4, <3>5, <3>6
  <2>4. QED
    BY <2>2, <2>3
<1>4. Len(K) \in Done
  <2> HIDE DEF Done
  <2>1. QED
    BY <1>1, <1>2, <1>3, AllNaturals
<1>5. \A d \in 1 .. Len(K) : d <= Len(K)
  BY <1>1
<1>6. QED
  BY <1>4, <1>5

LEMMA TopAlone ==
  ASSUME NEW K, NEW E, NEW Z, NEW T, NEW F, StackIs(K, E, Z, T, F), StackFine(K, Len(E)), Stands(T, Len(E), Len(Z)),
         Len(Z) \in Nat, NEW n, n = Len(K), T[K[n].env] = K[n].scope
  PROVE  \A d \in 1 .. n - 1 : K[d].env # K[n].env
<1> SUFFICES ASSUME NEW d \in 1 .. n - 1, K[d].env = K[n].env PROVE FALSE
  OBVIOUS
<1>1. n \in Nat /\ d \in 1 .. n /\ n \in 1 .. n /\ d < n
  BY ListIs DEF StackFine
<1>2. T[K[d].env] <= K[d].scope
  BY <1>1, StackBelow
<1>3. K[d].scope < K[n].scope /\ K[d].scope \in 1 .. Len(Z) /\ K[n].scope \in 1 .. Len(Z)
  BY <1>1 DEF StackIs, Rising
<1>4. QED
  BY <1>2, <1>3

-----------------------------------------------------------------------------
(* Frames that are kept. *)

LEMMA AboveStays ==
  ASSUME NEW K, NEW e, NEW k \in Nat, Above(K, e, k), NEW A, NEW m, NEW x, StackEnd(A, K, m, x),
         x.env # e \/ (Thin(x) /\ x.env = K[m - 1].env)
  PROVE  Above(A, e, k)
<1>1. /\ m \in Nat /\ m - 1 \in Nat /\ (m - 1) + 1 = m /\ Len(A) = m /\ m - 1 \in 1 .. Len(K) /\ A[m] = x
      /\ \A i \in 1 .. m : i = m \/ (i \in 1 .. m - 1 /\ i \in 1 .. Len(K) /\ A[i] = K[i] /\ i \in Nat)
  BY DEF StackEnd
<1>2. ASSUME NEW i \in 1 .. m - 1 PROVE CallsIn(A, i) = CallsIn(K, i)
  <2>1. i \in Nat /\ \A j \in 1 .. i : j \in 1 .. m - 1
    BY <1>1
  <2>2. \A j \in 1 .. i : A[j] = K[j]
    BY <2>1 DEF StackEnd
  <2>3. QED
    BY <2>1, <2>2, CallsSame
<1>3. ASSUME NEW i \in 1 .. m, A[i].env = e
      PROVE  k < CallsIn(A, i) /\ (A[i].kind = "loop" => Thin(A[i]))
  <2>1. CASE i # m
    BY <1>1, <1>2, <1>3, <2>1 DEF Above
  <2>2. CASE i = m
    <3>1. Thin(x) /\ K[m - 1].env = e
      BY <1>1, <1>3, <2>2
    <3>2. k < CallsIn(K, m - 1) /\ m - 1 \in 1 .. m - 1
      BY <1>1, <3>1 DEF Above
    <3>3. k < CallsIn(A, m - 1)
      BY <1>2, <3>2
    <3>4. CallsIn(A, m - 1) <= CallsIn(A, m) /\ CallsIn(A, m - 1) \in Nat /\ CallsIn(A, m) \in Nat
      <4>1. m - 1 <= m
        BY <1>1
      <4>2. QED
        BY <1>1, <4>1, CallsUp, CallsAre
    <3>5. QED
      BY <1>1, <2>2, <3>1, <3>3, <3>4
  <2>3. QED
    BY <2>1, <2>2
<1>4. QED
  BY <1>1, <1>3 DEF Above

LEMMA AboveTaken ==
  ASSUME NEW K, NEW e, NEW k, Above(K, e, k), NEW A, Len(K) \in Nat, Len(A) \in 0 .. Len(K),
         \A i \in 1 .. Len(A) : A[i] = K[i]
  PROVE  Above(A, e, k)
<1> SUFFICES ASSUME NEW i \in 1 .. Len(A), A[i].env = e
             PROVE  k < CallsIn(A, i) /\ (A[i].kind = "loop" => Thin(A[i]))
  BY DEF Above
<1>1. i \in Nat /\ i \in 1 .. Len(K) /\ \A j \in 1 .. i : j \in 1 .. Len(A)
  OBVIOUS
<1>2. CallsIn(A, i) = CallsIn(K, i)
  BY <1>1, CallsSame
<1>3. QED
  BY <1>1, <1>2 DEF Above

(* A call that is entered is above all that was there.                     *)
LEMMA AboveNew ==
  ASSUME NEW K, NEW A, NEW m, NEW x, StackEnd(A, K, m, x), x.kind = "call", m = Len(K) + 1,
         \A d \in 1 .. m - 1 : K[d].env # x.env
  PROVE  Above(A, x.env, CallsIn(K, Len(K)))
<1> SUFFICES ASSUME NEW i \in 1 .. Len(A), A[i].env = x.env
             PROVE  CallsIn(K, Len(K)) < CallsIn(A, i) /\ A[i].kind # "loop"
  BY DEF Above
<1>1. /\ m \in Nat /\ m - 1 = Len(K) /\ Len(K) \in Nat /\ Len(A) = m /\ A[m] = x /\ (Len(K)) + 1 = m
      /\ \A d \in 1 .. m : d = m \/ d \in 1 .. m - 1
  BY DEF StackEnd
<1>2. i = m
  BY <1>1 DEF StackEnd
<1>3. CallsIn(A, Len(K)) = CallsIn(K, Len(K))
  BY <1>1, CallsSame DEF StackEnd
<1>4. CallsIn(A, m) = CallsIn(A, Len(K)) + 1 /\ CallsIn(A, Len(K)) \in Nat
  BY <1>1, CallsAre
<1>5. QED
  BY <1>1, <1>2, <1>3, <1>4

LEMMA FrameOver ==
  ASSUME NEW e, NEW k, NEW d, NEW c, NEW E, NEW Z, NEW T, NEW F, NEW K, FrameFine(e, k, d, c, E, Z, T, F, K),
         e \in 1 .. Len(E), Stands(T, Len(E), Len(Z)), NEW D, NEW Y, NEW U, NEW G, Grown(Y, Z),
         StaysFor(e, E, T, F, D, U, G), NEW A, NEW m, NEW x, StackEnd(A, K, m, x),
         x.env # e \/ (Thin(x) /\ x.env = K[m - 1].env)
  PROVE  FrameFine(e, k, d, c, D, Y, U, G, A)
<1>1. T[e] \in 1 .. Len(Z)
  BY DEF Stands
<1>2. Y[U[e]] = Z[T[e]]
  BY <1>1 DEF StaysFor, Grown
<1>3. Above(A, e, k)
  BY AboveStays DEF FrameFine
<1>4. QED
  BY <1>2, <1>3 DEF FrameFine, StaysFor

-----------------------------------------------------------------------------
(* Steps that enter no scope. *)

LEMMA TiedSame ==
  ASSUME NEW T, NEW F, Tied(T, F), UNCHANGED <<scopes, envs, cells, stack, closures, pool, escapes, simple>>
  PROVE  Tied(T, F)'
BY DEF Tied

LEMMA TiedRead ==
  ASSUME NEW T, NEW F, Tied(T, F), NEW n, NEW cached, Read(n, cached)
  PROVE  Tied(T, F)'
BY TiedSame DEF Read, Calling

LEMMA TiedCheck ==
  ASSUME NEW T, NEW F, Tied(T, F), NEW c, NEW n, Check(c, n)
  PROVE  Tied(T, F)'
BY TiedSame DEF Check, Calling

(* What was on the stack is left, down to one of its entries.              *)
Prefix(A, K) == Len(K) \in Nat /\ Len(A) \in 1 .. Len(K) /\ \A i \in 1 .. Len(A) : A[i] = K[i]

LEMMA TakenIs ==
  ASSUME NEW K, NEW N, StackFine(K, N), NEW n \in 1 .. Len(K), NEW A, A = SubSeq(K, 1, n)
  PROVE  Prefix(A, K)
<1>1. Listed(K) /\ Len(K) \in Nat /\ n \in 0 .. Len(K)
  BY ListIs DEF StackFine
<1>2. Len(A) = n /\ \A i \in 1 .. n : A[i] = K[i]
  BY <1>1, ListTake
<1>3. QED
  BY <1>1, <1>2 DEF Prefix

LEMMA StackTaken ==
  ASSUME NEW K, NEW E, NEW Z, NEW T, NEW F, StackIs(K, E, Z, T, F), NEW A, Prefix(A, K)
  PROVE  StackIs(A, E, Z, T, F)
<1>1. /\ \A d \in 1 .. Len(A) : d \in 1 .. Len(K) /\ A[d] = K[d]
      /\ \A d \in 2 .. Len(A) : d \in 2 .. Len(K) /\ A[d] = K[d] /\ A[d - 1] = K[d - 1]
      /\ A[1] = K[1]
  BY DEF Prefix
<1>2. Rising(A, Len(Z))
  BY <1>1 DEF StackIs, Rising
<1>3. QED
  BY <1>1, <1>2 DEF StackIs

LEMMA FramesTaken ==
  ASSUME NEW P, NEW E, NEW Z, NEW T, NEW F, NEW K, FramesFine(P, E, Z, T, F, K), NEW A, Prefix(A, K)
  PROVE  FramesFine(P, E, Z, T, F, A)
<1>1. \A e, k : Above(K, e, k) => Above(A, e, k)
  <2>1. Len(K) \in Nat /\ Len(A) \in 0 .. Len(K) /\ \A i \in 1 .. Len(A) : A[i] = K[i]
    BY DEF Prefix
  <2>2. QED
    BY <2>1, AboveTaken
<1>2. QED
  BY <1>1 DEF FramesFine, FrameFine

(* Envs that hold the same, in other storage.                              *)
Alike(D, E) ==
  /\ Len(D) = Len(E)
  /\ \A e \in 1 .. Len(E) : /\ D[e].parent = E[e].parent /\ Held(D[e]) = Held(E[e])
                            /\ \A n \in Held(E[e]) : own(D[e], n) = own(E[e], n)

LEMMA AlikeTies ==
  ASSUME NEW E, NEW D, Alike(D, E), NEW C, NEW Z, NEW T, NEW F, Match(E, C, Z, T), Distinct(E), Firm(F, T, E, Z)
  PROVE  Match(D, C, Z, T) /\ Distinct(D) /\ Firm(F, T, D, Z)
<1>1. Match(D, C, Z, T)
  <2>1. ASSUME NEW e \in 1 .. Len(E) PROVE Binds(D[e], C, Z[T[e]].vals)
    <3>1. Held(D[e]) = Held(E[e]) /\ \A n \in Held(E[e]) : own(D[e], n) = own(E[e], n)
      BY <2>1 DEF Alike
    <3>2. Binds(E[e], C, Z[T[e]].vals)
      BY <2>1 DEF Match
    <3>3. QED
      BY <3>1, <3>2 DEF Binds
  <2>2. QED
    BY <2>1 DEF Alike, Match
<1>2. Distinct(D)
  <2> SUFFICES ASSUME NEW e \in 1 .. Len(D), NEW f \in 1 .. Len(D), NEW n \in Held(D[e]), NEW m \in Held(D[f]),
                      own(D[e], n) = own(D[f], m)
               PROVE  e = f /\ n = m
    BY DEF Distinct
  <2>1. e \in 1 .. Len(E) /\ f \in 1 .. Len(E) /\ n \in Held(E[e]) /\ m \in Held(E[f])
    BY DEF Alike
  <2>2. own(D[e], n) = own(E[e], n) /\ own(D[f], m) = own(E[f], m)
    BY <2>1 DEF Alike
  <2>3. own(E[e], n) = own(E[f], m)
    BY <2>2
  <2>4. QED
    BY <2>1, <2>3, OnePlace
<1>3. Firm(F, T, D, Z)
  BY DEF Alike, Firm, Anchored
<1>4. QED
  BY <1>1, <1>2, <1>3

LEMMA AlikeStack ==
  ASSUME NEW E, NEW D, Alike(D, E), NEW Z, NEW T, NEW F, NEW K, StackIs(K, E, Z, T, F), StackFine(K, Len(E))
  PROVE  StackIs(K, D, Z, T, F)
<1>1. ASSUME NEW d \in 2 .. Len(K) PROVE EntryIs(K[d], K[d - 1], D, Z, T, F)
  <2> DEFINE x == K[d]
             y == K[d - 1]
  <2>1. d \in 1 .. Len(K)
    BY ListIs DEF StackFine
  <2>2. x.env \in 1 .. Len(E) /\ EntryIs(x, y, E, Z, T, F)
    BY <2>1 DEF StackFine, EntryFine, StackIs
  <2> HIDE DEF x, y
  <2>3. D[x.env].parent = E[x.env].parent /\ VarFine(x, D[x.env], Z[x.scope])
    BY <2>2 DEF Alike, EntryIs, VarFine
  <2>4. QED
    BY <2>2, <2>3, EntryStays DEF x, y
<1>2. QED
  BY <1>1 DEF StackIs

LEMMA AlikeFrames ==
  ASSUME NEW E, NEW D, Alike(D, E), NEW P, NEW Z, NEW T, NEW F, NEW K, FramesFine(P, E, Z, T, F, K),
         PoolFine(P, E, K), Len(E) \in Nat
  PROVE  FramesFine(P, D, Z, T, F, K)
<1>1. ASSUME NEW d \in Decls, NEW k \in DOMAIN P[d].envs PROVE D[P[d].envs[k]].parent = P[d].closure
  <2> DEFINE e == P[d].envs[k]
  <2>1. e \in 2 .. Len(E) /\ E[e].parent = P[d].closure
    BY DEF PoolFine, FramesFine, FrameFine
  <2> HIDE DEF e
  <2>2. e \in 1 .. Len(E)
    BY <2>1
  <2>3. QED
    BY <2>1, <2>2 DEF Alike, e
<1>2. QED
  BY <1>1 DEF FramesFine, FrameFine

LEMMA TiedTaken ==
  ASSUME Shape, NEW T, NEW F, Tied(T, F), Prefix(stack', stack), Alike(envs', envs),
         UNCHANGED <<scopes, cells, closures, pool, escapes, simple>>
  PROVE  Tied(T, F)'
<1>1. /\ Match(envs', cells, scopes, T) /\ Distinct(envs') /\ Firm(F, T, envs', scopes)
  BY AlikeTies DEF Tied
<1>2. StackIs(stack', envs', scopes, T, F)
  <2>1. StackIs(stack, envs', scopes, T, F)
    BY AlikeStack DEF Tied, Shape
  <2>2. QED
    BY <2>1, StackTaken
<1>3. FramesFine(pool, envs', scopes, T, F, stack')
  <2>1. Len(envs) \in Nat
    BY Sizes
  <2>2. FramesFine(pool, envs', scopes, T, F, stack)
    BY <2>1, AlikeFrames DEF Tied, Shape
  <2>3. QED
    BY <2>2, FramesTaken
<1>4. Len(envs') = Len(envs)
  BY DEF Alike
<1>5. QED
  BY <1>1, <1>2, <1>3, <1>4 DEF Tied

LEMMA TiedLeave ==
  ASSUME Shape, NEW T, NEW F, Tied(T, F), Leave
  PROVE  Tied(T, F)'
<1> DEFINE n == Len(stack) - 1
<1>1. n \in 1 .. Len(stack)
  BY Sizes DEF Leave
<1>2. stack' = SubSeq(stack, 1, n)
  BY DEF Leave, Front
<1> HIDE DEF n
<1>3. Prefix(stack', stack)
  BY <1>1, <1>2, TakenIs DEF Shape
<1>4. Alike(envs', envs)
  BY DEF Alike, Leave
<1>5. QED
  BY <1>3, <1>4, TiedTaken DEF Leave, Calling

LEMMA TiedFail ==
  ASSUME Shape, NEW T, NEW F, Tied(T, F), NEW n \in Names, NEW depth \in DOMAIN stack, Fail(n, depth)
  PROVE  Tied(T, F)'
<1> DEFINE W == Outwards(Running.env)
<1>1. Viewed(envs', envs, W)
  BY DEF Fail, Viewed
<1> HIDE DEF W
<1>2. Alike(envs', envs)
  <2>1. EnvsFine(envs)
    BY DEF Shape
  <2>2. QED
    BY <1>1, <2>1, ViewEnvs DEF Alike
<1>3. Prefix(stack', stack)
  BY Sizes, TakenIs DEF Fail, Shape
<1>4. QED
  BY <1>2, <1>3, TiedTaken DEF Fail, Calling

(* Where functions can be made, what is run has an Env that stays.         *)
LEMMA MakingIsFirm ==
  ASSUME Shape, NEW T, NEW F, Tied(T, F), L!MakesClosures
  PROVE  Running.env \in F /\ T[Running.env] = Running.scope
<1> DEFINE K == stack
<1>1. /\ DOMAIN stack = 1 .. Len(stack) /\ Len(stack) \in Nat /\ Len(stack) \in 1 .. Len(stack)
      /\ Running = stack[Len(stack)]
  BY Sizes
<1>2. PICK c \in 1 .. Len(stack) :
        /\ stack[c].kind = "top" \/ (stack[c].kind = "call" /\ stack[c].decl \in Makers)
        /\ \A d \in c + 1 .. Len(stack) : Making(stack[d])
  <2> DEFINE S == [d \in DOMAIN stack |->
              [kind |-> stack[d].kind, scope |-> stack[d].scope, decl |-> stack[d].decl,
               body |-> stack[d].body, var |-> stack[d].var]]
  <2>1. /\ DOMAIN S = 1 .. Len(stack)
        /\ \A d \in 1 .. Len(stack) : S[d].kind = stack[d].kind /\ S[d].decl = stack[d].decl /\ S[d].body = stack[d].body
    BY <1>1
  <2>2. Len(S) = Len(stack)
    <3>1. S = [d \in 1 .. Len(stack) |-> S[d]]
      BY <1>1
    <3> HIDE DEF S
    <3>2. QED
      BY <1>1, <2>1, <3>1, ListMap
  <2>3. \E c \in DOMAIN S :
          /\ S[c].kind = "top" \/ (S[c].kind = "call" /\ S[c].decl \in Makers)
          /\ \A d \in c + 1 .. L!Len(S) : S[d].kind = "block" \/ (S[d].kind = "loop" /\ S[d].body = "making")
    BY DEF L!MakesClosures
  <2> HIDE DEF S
  <2>4. PICK c \in 1 .. Len(stack) :
          /\ S[c].kind = "top" \/ (S[c].kind = "call" /\ S[c].decl \in Makers)
          /\ \A d \in c + 1 .. Len(stack) : S[d].kind = "block" \/ (S[d].kind = "loop" /\ S[d].body = "making")
    BY <2>1, <2>2, <2>3
  <2>5. \A d \in c + 1 .. Len(stack) : d \in 1 .. Len(stack)
    BY <1>1
  <2>6. QED
    BY <2>1, <2>4, <2>5 DEF Making
<1>3. StackIs(stack, envs, scopes, T, F) /\ StackFine(stack, Len(envs))
  BY DEF Tied, Shape
<1> DEFINE Good(d) == stack[d].env \in F /\ ~ Thin(stack[d])
           Done == {m \in Nat : c + m <= Len(stack) => Good(c + m)}
<1>4. 0 \in Done
  <2>1. ~ Thin(stack[c]) /\ c + 0 = c
    BY <1>1, <1>2 DEF Thin
  <2>2. CASE stack[c].kind = "top"
    <3>1. c = 1 /\ stack[1].env = 1 /\ 1 \in F
      BY <1>3, <2>2 DEF StackFine, StackIs
    <3>2. QED
      BY <2>1, <3>1
  <2>3. CASE stack[c].kind = "call" /\ stack[c].decl \in Makers
    <3>1. c # 1
      BY <1>3, <2>3 DEF StackFine
    <3>2. c \in 2 .. Len(stack)
      BY <1>1, <3>1
    <3>3. stack[c].env \in F
      BY <1>3, <2>3, <3>2 DEF StackIs, EntryIs
    <3>4. QED
      BY <2>1, <3>3
  <2>4. QED
    BY <1>2, <2>2, <2>3
<1>5. ASSUME NEW m \in Nat, m \in Done PROVE m + 1 \in Done
  <2> SUFFICES ASSUME c + (m + 1) <= Len(stack) PROVE Good(c + (m + 1))
    OBVIOUS
  <2> DEFINE d == c + (m + 1)
  <2>1. d \in c + 1 .. Len(stack) /\ d \in 2 .. Len(stack) /\ d - 1 = c + m /\ c + m <= Len(stack)
    BY <1>1
  <2>2. Making(stack[d]) /\ Good(d - 1)
    BY <1>2, <1>5, <2>1
  <2> HIDE DEF d
  <2>3. EntryIs(stack[d], stack[d - 1], envs, scopes, T, F)
    BY <1>3, <2>1 DEF StackIs
  <2>4. stack[d].env \in F /\ ~ Thin(stack[d])
    BY <2>2, <2>3 DEF EntryIs, Making, Thin
  <2>5. QED
    BY <2>4 DEF d
<1>6. Len(stack) - c \in Done
  <2>1. Len(stack) - c \in Nat
    BY <1>1
  <2> HIDE DEF Done
  <2>2. QED
    BY <1>4, <1>5, <2>1, AllNaturals
<1>7. Good(Len(stack))
  <2>1. c + (Len(stack) - c) = Len(stack)
    BY <1>1
  <2>2. QED
    BY <1>1, <1>6, <2>1
<1>8. T[Running.env] = Running.scope
  <2>1. CASE Len(stack) = 1
    BY <1>1, <1>3, <2>1 DEF StackIs, StackFine
  <2>2. CASE Len(stack) # 1
    <3>1. Len(stack) \in 2 .. Len(stack)
      BY <1>1, <2>2
    <3>2. QED
      BY <1>1, <1>3, <1>7, <3>1 DEF StackIs, EntryIs
  <2>3. QED
    BY <2>1, <2>2
<1>9. QED
  BY <1>1, <1>7, <1>8

LEMMA TiedCapture ==
  ASSUME Shape, NEW T, NEW F, Tied(T, F), ~ RecordsInFrames, NEW kind, NEW d \in Inner, Capture(kind, d)
  PROVE  Tied(T, F)'
<1> DEFINE x == [kind |-> kind, decl |-> d, scope |-> Running.scope, env |-> Running.env]
<1>1. closures' = Append(closures, x) /\ x.env = Running.env /\ x.scope = Running.scope
  BY DEF Capture
<1> HIDE DEF x
<1>2. Listed(closures) /\ Len(closures) \in Nat
  BY Sizes DEF Shape, ClosuresFine
<1>3. /\ Len(closures') = Len(closures) + 1 /\ closures'[Len(closures) + 1] = x
      /\ \A i \in 1 .. Len(closures) : closures'[i] = closures[i]
  BY <1>1, <1>2, ListAppend
<1>4. \A i \in 1 .. Len(closures') : i \in 1 .. Len(closures) \/ i = Len(closures) + 1
  BY <1>2, <1>3
<1>5. Running.env \in F /\ T[Running.env] = Running.scope
  BY MakingIsFirm DEF Capture
<1>6. KeptFine(closures', T, F)
  BY <1>1, <1>3, <1>4, <1>5 DEF Tied, KeptFine
<1>7. MakersFine(escapes, simple, closures')
  <2>1. \A i \in 1 .. Len(closures) : i \in 1 .. Len(closures')
    BY <1>2, <1>3
  <2>2. \A i \in simple.sites : i \in 1 .. Len(closures)
    BY DEF Tied, MakersFine
  <2>3. QED
    BY <1>3, <2>1, <2>2 DEF Tied, MakersFine
<1>8. QED
  BY <1>6, <1>7 DEF Tied, Capture, Calling

-----------------------------------------------------------------------------
(* A name is bound, anew or again, in Env r and the scope it stands for.   *)

Rebound(Y, Z, o, n, b) == Y = [Z EXCEPT ![o].vals = L!With(@, n, b)]

LEMMA ReboundIs ==
  ASSUME NEW Z, Texts(Z), NEW o \in 1 .. Len(Z), NEW n, NEW b, NEW Y, Rebound(Y, Z, o, n, b)
  PROVE  /\ Texts(Y) /\ Len(Y) = Len(Z) /\ \A s \in 1 .. Len(Z) : Y[s].parent = Z[s].parent /\ (s # o => Y[s] = Z[s])
         /\ DOMAIN Y[o].vals = DOMAIN Z[o].vals \cup {n} /\ Y[o].vals[n] = b
         /\ \A m \in DOMAIN Z[o].vals : m # n => Y[o].vals[m] = Z[o].vals[m]
<1>0. Len(Z) \in Nat /\ DOMAIN Z = 1 .. Len(Z) /\ Listed(Z) /\ Nested(Z)
  BY ListIs DEF Texts
<1> DEFINE w == L!With(Z[o].vals, n, b)
           z == [Z[o] EXCEPT !.vals = w]
<1>1. Y = [Z EXCEPT ![o] = z]
  BY DEF Rebound
<1>2. DOMAIN w = DOMAIN Z[o].vals \cup {n} /\ w[n] = b /\ \A m \in DOMAIN Z[o].vals : m # n => w[m] = Z[o].vals[m]
  BY DEF L!With
<1> HIDE DEF w
<1>3. z.parent = Z[o].parent /\ z.vals = w /\ z = [parent |-> z.parent, vals |-> z.vals]
  <2> DEFINE p == Z[o].parent
             v == Z[o].vals
  <2>1. Z[o] = [parent |-> p, vals |-> v]
    BY DEF Texts
  <2> HIDE DEF p, v
  <2>2. z = [parent |-> p, vals |-> w]
    BY <2>1
  <2> HIDE DEF z
  <2>3. QED
    BY <2>2 DEF p
<1> HIDE DEF z
<1>4. Listed(Y) /\ Len(Y) = Len(Z) /\ Y[o] = z /\ \A s \in 1 .. Len(Z) : s # o => Y[s] = Z[s]
  <2> DEFINE X == [Z EXCEPT ![o] = z]
  <2>1. Listed(X) /\ Len(X) = Len(Z) /\ X[o] = z /\ \A s \in 1 .. Len(Z) : s # o => X[s] = Z[s]
    BY <1>0, ListSet
  <2>2. Y = X
    BY <1>1
  <2> HIDE DEF X
  <2>3. QED
    BY <2>1, <2>2
<1>5. \A s \in 1 .. Len(Z) : Y[s].parent = Z[s].parent
  BY <1>3, <1>4
<1>6. Texts(Y)
  <2>1. \A s \in 1 .. Len(Z) : Y[s] = [parent |-> Y[s].parent, vals |-> Y[s].vals]
    BY <1>3, <1>4 DEF Texts
  <2>2. QED
    BY <1>0, <1>4, <1>5, <2>1 DEF Texts, Nested
<1>7. QED
  BY <1>2, <1>3, <1>4, <1>5, <1>6

(* What a write to one name changes.                                       *)
Writes(E, C, T, D, B, r, n, b, i) ==
  /\ Len(D) = Len(E) /\ r \in 1 .. Len(E) /\ Len(C) \in Nat /\ Len(B) \in Nat /\ Len(C) <= Len(B)
  /\ \A e \in 1 .. Len(E) : D[e].parent = E[e].parent /\ (e # r => D[e] = E[e])
  /\ Held(D[r]) = Held(E[r]) \cup {n} /\ own(D[r], n) = i
  /\ \A m \in Held(E[r]) : m # n => own(D[r], m) = own(E[r], m)
  /\ i \in 1 .. Len(B) /\ B[i] = b /\ \A j \in 1 .. Len(C) : j # i => B[j] = C[j]
  /\ \A e \in 1 .. Len(E) : \A m \in Held(E[e]) : own(E[e], m) = i => e = r /\ m = n

LEMMA WriteTies ==
  ASSUME NEW E, NEW C, NEW Z, NEW T, Texts(Z), Stands(T, Len(E), Len(Z)), Match(E, C, Z, T), Distinct(E),
         NEW F, Firm(F, T, E, Z), NEW D, NEW B, NEW Y, NEW r, NEW n, NEW b, NEW i,
         Writes(E, C, T, D, B, r, n, b, i), Rebound(Y, Z, T[r], n, b)
  PROVE  Match(D, B, Y, T) /\ Distinct(D) /\ Firm(F, T, D, Y)
<1> DEFINE o == T[r]
<1>1. o \in 1 .. Len(Z) /\ r \in 1 .. Len(E)
  BY DEF Writes, Stands
<1>2. Rebound(Y, Z, o, n, b) /\ \A e \in 1 .. Len(E) : e # r => T[e] # o /\ T[e] \in 1 .. Len(Z)
  BY <1>1 DEF Stands
<1>3. T[r] = o
  OBVIOUS
<1> HIDE DEF o
<1>4. /\ \A s \in 1 .. Len(Z) : Y[s].parent = Z[s].parent /\ (s # o => Y[s] = Z[s])
      /\ DOMAIN Y[o].vals = DOMAIN Z[o].vals \cup {n} /\ Y[o].vals[n] = b
      /\ \A m \in DOMAIN Z[o].vals : m # n => Y[o].vals[m] = Z[o].vals[m]
  BY <1>1, <1>2, ReboundIs
<1>5. \A j \in 1 .. Len(C) : j \in 1 .. Len(B)
  BY DEF Writes
<1>6. ASSUME NEW e \in 1 .. Len(E) PROVE Binds(D[e], B, Y[T[e]].vals)
  <2>1. Binds(E[e], C, Z[T[e]].vals)
    BY DEF Match
  <2>2. CASE e # r
    <3>1. D[e] = E[e] /\ Y[T[e]] = Z[T[e]]
      BY <1>2, <1>4, <2>2 DEF Writes
    <3>2. \A m \in Held(E[e]) : own(E[e], m) # i
      BY <2>2 DEF Writes
    <3>3. \A m \in Held(E[e]) : own(E[e], m) \in 1 .. Len(B) /\ B[own(E[e], m)] = C[own(E[e], m)]
      BY <1>5, <2>1, <3>2 DEF Writes, Binds
    <3>4. QED
      BY <2>1, <3>1, <3>3 DEF Binds
  <2>3. CASE e = r
    <3>1. Binds(E[r], C, Z[o].vals)
      BY <1>3, <2>1, <2>3
    <3>2. Held(D[r]) = DOMAIN Y[o].vals
      BY <1>4, <3>1 DEF Writes, Binds
    <3>3. ASSUME NEW m \in Held(D[r]) PROVE own(D[r], m) \in 1 .. Len(B) /\ B[own(D[r], m)] = Y[o].vals[m]
      <4>1. CASE m = n
        BY <1>4, <4>1 DEF Writes
      <4>2. CASE m # n
        <5>1. m \in Held(E[r]) /\ own(D[r], m) = own(E[r], m)
          BY <4>2 DEF Writes
        <5>2. own(E[r], m) # i /\ own(E[r], m) \in 1 .. Len(C) /\ C[own(E[r], m)] = Z[o].vals[m] /\ m \in DOMAIN Z[o].vals
          BY <1>1, <3>1, <4>2, <5>1 DEF Writes, Binds
        <5>3. B[own(E[r], m)] = C[own(E[r], m)]
          BY <5>2 DEF Writes
        <5>4. QED
          BY <1>4, <1>5, <4>2, <5>1, <5>2, <5>3
      <4>3. QED
        BY <4>1, <4>2
    <3>4. QED
      BY <1>3, <2>3, <3>2, <3>3 DEF Binds
  <2>4. QED
    BY <2>2, <2>3
<1>7. Match(D, B, Y, T)
  BY <1>6 DEF Match, Writes
<1>8. Distinct(D)
  <2> SUFFICES ASSUME NEW e \in 1 .. Len(D), NEW f \in 1 .. Len(D), NEW k \in Held(D[e]), NEW m \in Held(D[f]),
                      own(D[e], k) = own(D[f], m)
               PROVE  e = f /\ k = m
    BY DEF Distinct
  <2>1. e \in 1 .. Len(E) /\ f \in 1 .. Len(E)
    BY DEF Writes
  <2>2. ASSUME NEW a \in 1 .. Len(E), NEW q \in Held(D[a])
        PROVE  \/ a = r /\ q = n /\ own(D[a], q) = i
               \/ q \in Held(E[a]) /\ own(D[a], q) = own(E[a], q) /\ own(D[a], q) # i
    <3>1. CASE a # r
      BY <3>1 DEF Writes
    <3>2. CASE a = r /\ q # n
      BY <3>2 DEF Writes
    <3>3. CASE a = r /\ q = n
      BY <3>3 DEF Writes
    <3>4. QED
      BY <3>1, <3>2, <3>3
  <2>3. CASE own(D[e], k) = i
    <3>1. e = r /\ k = n
      BY <2>1, <2>2, <2>3
    <3>2. own(D[f], m) = i
      BY <2>3
    <3>3. f = r /\ m = n
      BY <2>1, <2>2, <3>2
    <3>4. QED
      BY <3>1, <3>3
  <2>4. CASE own(D[e], k) # i
    <3>1. /\ k \in Held(E[e]) /\ m \in Held(E[f]) /\ own(D[e], k) = own(E[e], k) /\ own(D[f], m) = own(E[f], m)
      BY <2>1, <2>2, <2>4
    <3>2. own(E[e], k) = own(E[f], m)
      BY <3>1
    <3>3. QED
      BY <2>1, <3>1, <3>2, OnePlace
  <2>5. QED
    BY <2>3, <2>4
<1>9. Firm(F, T, D, Y)
  <2> SUFFICES ASSUME NEW e \in F PROVE e \in 1 .. Len(D) /\ Anchored(e, T[e], D, Y, T, F)
    BY DEF Firm
  <2>1. e \in 1 .. Len(E) /\ Anchored(e, T[e], E, Z, T, F) /\ T[e] \in 1 .. Len(Z)
    BY DEF Firm, Stands
  <2>2. D[e].parent = E[e].parent /\ Y[T[e]].parent = Z[T[e]].parent /\ Len(D) = Len(E)
    BY <1>4, <2>1 DEF Writes
  <2>3. QED
    BY <2>1, <2>2 DEF Anchored
<1>10. QED
  BY <1>7, <1>8, <1>9

(* No parameter and no loop variable is written.                           *)
Mutes(Z, o, n) == o = 1 \/ \A m \in DOMAIN Z[o].vals : ~ Z[o].vals[m].mutable => m # n

LEMMA WriteStack ==
  ASSUME NEW E, NEW C, NEW Z, NEW T, Texts(Z), Stands(T, Len(E), Len(Z)), Match(E, C, Z, T),
         NEW F, NEW D, NEW B, NEW Y, NEW r, NEW n, NEW b, NEW i,
         Writes(E, C, T, D, B, r, n, b, i), Rebound(Y, Z, T[r], n, b), Mutes(Z, T[r], n),
         NEW K, StackIs(K, E, Z, T, F), StackFine(K, Len(E)),
         \A d \in 1 .. Len(K) : K[d].scope = T[r] => K[d].body # "bare" \/ n \in DOMAIN Z[T[r]].vals
  PROVE  StackIs(K, D, Y, T, F)
<1> DEFINE o == T[r]
<1>1. o \in 1 .. Len(Z) /\ r \in 1 .. Len(E)
  BY DEF Writes, Stands
<1>2. Rebound(Y, Z, o, n, b) /\ Mutes(Z, o, n)
  OBVIOUS
<1>3. T[r] = o /\ \A e \in 1 .. Len(E) : T[e] = o => e = r
  BY <1>1 DEF Stands
<1>4. \A d \in 1 .. Len(K) : K[d].scope = o => K[d].body # "bare" \/ n \in DOMAIN Z[o].vals
  OBVIOUS
<1> HIDE DEF o
<1>5. /\ Texts(Y) /\ Len(Y) = Len(Z) /\ \A s \in 1 .. Len(Z) : Y[s].parent = Z[s].parent /\ (s # o => Y[s] = Z[s])
      /\ DOMAIN Y[o].vals = DOMAIN Z[o].vals \cup {n}
      /\ \A m \in DOMAIN Z[o].vals : m # n => Y[o].vals[m] = Z[o].vals[m]
  BY <1>1, <1>2, ReboundIs
<1>6. ASSUME NEW d \in 2 .. Len(K) PROVE EntryIs(K[d], K[d - 1], D, Y, T, F)
  <2> DEFINE x == K[d]
             y == K[d - 1]
  <2>1. d \in 1 .. Len(K) /\ 1 \in 1 .. Len(K) /\ 1 < d
    BY ListIs DEF StackFine
  <2>2. /\ x.env \in 1 .. Len(E) /\ EntryIs(x, y, E, Z, T, F) /\ x.scope \in 1 .. Len(Z)
        /\ (x.scope = o => x.body # "bare" \/ n \in DOMAIN Z[o].vals)
    BY <1>4, <2>1 DEF StackFine, EntryFine, StackIs, Rising
  <2>3. x.scope # 1
    <3>1. K[1].scope < K[d].scope /\ K[1].scope = 1
      BY <2>1 DEF StackIs, Rising
    <3>2. QED
      BY <3>1
  <2> HIDE DEF x, y
  <2>4. VarFine(x, E[x.env], Z[x.scope])
    BY <2>2 DEF EntryIs
  <2>5. VarFine(x, D[x.env], Y[x.scope])
    <3>1. CASE x.scope # o
      <4>1. Y[x.scope] = Z[x.scope]
        BY <1>5, <2>2, <3>1
      <4>2. Rewritten(x) => D[x.env] = E[x.env]
        <5>1. Rewritten(x) => T[x.env] = x.scope
          BY <2>2 DEF EntryIs, Rewritten
        <5>2. Rewritten(x) => x.env # r
          BY <1>3, <3>1, <5>1
        <5>3. QED
          BY <2>2, <5>2 DEF Writes
      <4>3. QED
        BY <2>4, <4>1, <4>2 DEF VarFine
    <3>2. CASE x.scope = o
      <4>1. ~ Thin(x) /\ (x.body = "bare" => n \in DOMAIN Z[o].vals)
        BY <2>2, <2>4, <3>2 DEF VarFine, Thin
      <4>2. ASSUME Rewritten(x), x.var # "none"
            PROVE  /\ x.var \in Held(D[x.env]) /\ own(D[x.env], x.var) = x.home /\ ~ Y[x.scope].vals[x.var].mutable
                   /\ x.body = "bare" => DOMAIN Y[x.scope].vals = {x.var}
        <5>1. /\ x.var \in Held(E[x.env]) /\ own(E[x.env], x.var) = x.home /\ ~ Z[o].vals[x.var].mutable
              /\ x.body = "bare" => DOMAIN Z[o].vals = {x.var}
          BY <2>4, <3>2, <4>2 DEF VarFine
        <5>2. x.env = r
          BY <1>3, <2>2, <3>2, <4>1 DEF EntryIs
        <5>3. Held(E[r]) = DOMAIN Z[o].vals
          BY <1>1, <1>3 DEF Match, Binds
        <5>4. x.var \in DOMAIN Z[o].vals /\ x.var # n
          BY <1>2, <2>3, <3>2, <5>1, <5>2, <5>3 DEF Mutes
        <5>5. x.var \in Held(D[r]) /\ own(D[r], x.var) = own(E[r], x.var)
          BY <5>1, <5>2, <5>4 DEF Writes
        <5>6. Y[o].vals[x.var] = Z[o].vals[x.var]
          BY <1>5, <5>4
        <5>7. x.body = "bare" => DOMAIN Y[o].vals = {x.var}
          BY <1>5, <4>1, <5>1
        <5>8. QED
          BY <3>2, <5>1, <5>2, <5>5, <5>6, <5>7
      <4>3. QED
        BY <4>1, <4>2 DEF VarFine
    <3>3. QED
      BY <3>1, <3>2
  <2>6. D[x.env].parent = E[x.env].parent /\ Y[x.scope].parent = Z[x.scope].parent
    BY <1>5, <2>2 DEF Writes
  <2>7. QED
    BY <2>2, <2>5, <2>6, EntryStays DEF x, y
<1>7. QED
  BY <1>5, <1>6 DEF StackIs

LEMMA WriteFrames ==
  ASSUME NEW E, NEW C, NEW Z, NEW T, Texts(Z), Stands(T, Len(E), Len(Z)), T[1] = 1,
         NEW F, NEW D, NEW B, NEW Y, NEW r, NEW n, NEW b, NEW i, Len(E) \in Nat,
         Writes(E, C, T, D, B, r, n, b, i), Rebound(Y, Z, T[r], n, b), Mutes(Z, T[r], n),
         NEW P, NEW K, FramesFine(P, E, Z, T, F, K), PoolFine(P, E, K)
  PROVE  FramesFine(P, D, Y, T, F, K)
<1> DEFINE o == T[r]
<1>1. o \in 1 .. Len(Z) /\ r \in 1 .. Len(E)
  BY DEF Writes, Stands
<1>2. Rebound(Y, Z, o, n, b) /\ Mutes(Z, o, n)
  OBVIOUS
<1> HIDE DEF o
<1>3. /\ \A s \in 1 .. Len(Z) : s # o => Y[s] = Z[s]
      /\ DOMAIN Y[o].vals = DOMAIN Z[o].vals \cup {n}
      /\ \A m \in DOMAIN Z[o].vals : m # n => Y[o].vals[m] = Z[o].vals[m]
  BY <1>1, <1>2, ReboundIs
<1>4. ASSUME NEW d \in Decls, NEW k \in DOMAIN P[d].envs
      PROVE  FrameFine(P[d].envs[k], k, d, P[d].closure, D, Y, T, F, K)
  <2> DEFINE e == P[d].envs[k]
  <2>1. e \in 2 .. Len(E) /\ FrameFine(e, k, d, P[d].closure, E, Z, T, F, K)
    BY DEF PoolFine, FramesFine
  <2> HIDE DEF e
  <2>2. e \in 1 .. Len(E) /\ e # 1 /\ 1 \in 1 .. Len(E)
    BY <2>1
  <2>3. D[e].parent = E[e].parent
    BY <2>2 DEF Writes
  <2>4. T[e] \in 1 .. Len(Z) /\ T[e] # 1
    BY <2>2 DEF Stands
  <2>5. \A j \in 1 .. Len(Params[d]) :
          Params[d][j] \in DOMAIN Y[T[e]].vals /\ ~ Y[T[e]].vals[Params[d][j]].mutable
    <3>1. CASE T[e] # o
      BY <1>3, <2>1, <2>4, <3>1 DEF FrameFine
    <3>2. CASE T[e] = o
      <4>1. \A j \in 1 .. Len(Params[d]) :
              Params[d][j] \in DOMAIN Z[o].vals /\ ~ Z[o].vals[Params[d][j]].mutable /\ Params[d][j] # n
        BY <1>2, <2>1, <2>4, <3>2 DEF FrameFine, Mutes
      <4>2. QED
        BY <1>3, <3>2, <4>1
    <3>3. QED
      BY <3>1, <3>2
  <2>6. QED
    BY <2>1, <2>3, <2>5 DEF FrameFine, e
<1>5. QED
  BY <1>4 DEF FramesFine

(* Slots, with one that is new or written to.                              *)
LEMMA SlotsWritten ==
  ASSUME NEW C, Listed(C), SlotsFine(C), NEW i, NEW b, b = [value |-> b.value, mutable |-> b.mutable],
         b.mutable \in BOOLEAN, NEW B, Len(B) \in Nat, i \in 1 .. Len(B),
         B[i] = b, \A j \in 1 .. Len(B) : j # i => j \in 1 .. Len(C) /\ B[j] = C[j]
  PROVE  SlotsFine(B)
<1> SUFFICES ASSUME NEW j \in 1 .. Len(B)
             PROVE  B[j] = [value |-> B[j].value, mutable |-> B[j].mutable] /\ B[j].mutable \in BOOLEAN
  BY DEF SlotsFine
<1>1. CASE j = i
  BY <1>1
<1>2. CASE j # i
  BY <1>2 DEF SlotsFine
<1>3. QED
  BY <1>1, <1>2

LEMMA TiedInit == Init => IInv
<1> SUFFICES ASSUME Init PROVE Shape /\ \E T, F : Tied(T, F)
  BY DEF IInv
<1> DEFINE T == [e \in 1 .. 1 |-> 1]
           F == {1}
           z == [parent |-> 0, vals |-> <<>>]
           x == In(L!Entry("top", 1, "none"), 1, 0)
<1>1. Shape
  BY InitShape
<1>2. envs = <<Env(0)>> /\ Len(envs) = 1 /\ envs[1] = Env(0)
  BY ShortLists DEF Init
<1>3. scopes = <<z>> /\ Listed(scopes) /\ Len(scopes) = 1 /\ scopes[1] = z
  BY ShortLists DEF Init
<1>4. T[1] = 1 /\ Held(Env(0)) = {} /\ Env(0).parent = 0 /\ z.parent = 0 /\ DOMAIN z.vals = {}
  BY NewIs
<1>5. SlotsFine(cells)
  BY ShortLists DEF Init, SlotsFine
<1>6. Texts(scopes)
  <2>1. \A s \in 1 .. Len(scopes) : s = 1
    BY <1>3
  <2>2. 0 \in 0 .. 1 - 1
    OBVIOUS
  <2>3. z = [parent |-> z.parent, vals |-> z.vals]
    OBVIOUS
  <2> HIDE DEF z
  <2>4. QED
    BY <1>3, <1>4, <2>1, <2>2, <2>3 DEF Texts, Nested
<1>7. stack = <<x>> /\ Len(stack) = 1 /\ stack[1] = x /\ x.scope = 1 /\ x.env = 1
  <2>1. x = [kind |-> "top", scope |-> 1, decl |-> "none", body |-> "binding", var |-> "none",
             env |-> 1, home |-> 0]
    BY DEF In, L!Entry
  <2>2. stack = <<x>>
    BY DEF Init
  <2>3. x.scope = 1 /\ x.env = 1
    BY <2>1
  <2> HIDE DEF x
  <2>4. QED
    BY <2>2, <2>3, ShortLists
<1> HIDE DEF x, z
<1>8. Stands(T, Len(envs), Len(scopes))
  BY <1>2, <1>3, <1>4 DEF Stands
<1> HIDE DEF T
<1>9. \A e \in 1 .. Len(envs) : e = 1
  BY <1>2
<1>10. Match(envs, cells, scopes, T)
  BY <1>2, <1>3, <1>4, <1>9 DEF Match, Binds
<1>11. Distinct(envs)
  BY <1>2, <1>4, <1>9 DEF Distinct
<1>12. Firm(F, T, envs, scopes)
  BY <1>2, <1>3, <1>4 DEF Firm, Anchored
<1>13. KeptFine(closures, T, F)
  <2>1. Len(Named) \in Nat /\ DOMAIN Named = 1 .. Len(Named)
    BY ScopesAssumption, LenProperties DEF ScopesAssumption
  <2>2. \A c \in 1 .. Len(closures) : c \in DOMAIN closures
    BY Sizes, <1>1
  <2>3. \A c \in DOMAIN closures : closures[c].env = 1 /\ closures[c].scope = 1
    BY DEF Init
  <2>4. QED
    BY <1>4, <2>2, <2>3 DEF KeptFine
<1>14. StackIs(stack, envs, scopes, T, F)
  <2>1. \A d \in 1 .. Len(stack) : d = 1
    BY <1>7
  <2>2. Rising(stack, Len(scopes))
    BY <1>3, <1>7, <2>1 DEF Rising
  <2>3. \A d \in 2 .. Len(stack) : FALSE
    BY <1>7
  <2>4. QED
    BY <1>4, <1>7, <2>2, <2>3 DEF StackIs
<1>15. FramesFine(pool, envs, scopes, T, F, stack)
  <2>1. \A d \in Decls : pool[d].envs = <<>>
    BY DEF Init
  <2>2. \A d \in Decls : DOMAIN pool[d].envs = {}
    BY <2>1
  <2>3. QED
    BY <2>2 DEF FramesFine
<1>16. MakersFine(escapes, simple, closures)
  <2> DEFINE esc(d) == d \in Makers
  <2>1. escapes = [d \in Decls |-> esc(d)]
    BY DEF Init, framesEscape
  <2>2. simple.decl = [d \in Decls |-> "unset"] /\ simple.sites = {}
    BY DEF Init
  <2>3. \A d \in Decls : escapes[d] = esc(d)
    BY <2>1
  <2>4. DOMAIN escapes = Decls
    BY <2>1
  <2>5. \A d \in Decls : d \in Makers => escapes[d]
    BY <2>3
  <2>6. QED
    BY <2>2, <2>4, <2>5 DEF MakersFine
<1>17. Tied(T, F)
  BY <1>5, <1>6, <1>8, <1>10, <1>11, <1>12, <1>13, <1>14, <1>15, <1>16 DEF Tied
<1>18. QED
  BY <1>1, <1>17

LEMMA TiedWritten ==
  ASSUME Shape, NEW T, NEW F, Tied(T, F), NEW r, NEW n, NEW b, NEW i,
         Writes(envs, cells, T, envs', cells', r, n, b, i), Rebound(scopes', scopes, T[r], n, b), Mutes(scopes, T[r], n),
         \A d \in 1 .. Len(stack) : stack[d].scope = T[r] => stack[d].body # "bare" \/ n \in DOMAIN scopes[T[r]].vals,
         SlotsFine(cells'), UNCHANGED <<stack, closures, pool, escapes, simple>>
  PROVE  Tied(T, F)'
<1>1. /\ Texts(scopes) /\ Stands(T, Len(envs), Len(scopes)) /\ Match(envs, cells, scopes, T) /\ Distinct(envs)
      /\ Firm(F, T, envs, scopes) /\ StackIs(stack, envs, scopes, T, F) /\ FramesFine(pool, envs, scopes, T, F, stack)
      /\ StackFine(stack, Len(envs)) /\ PoolFine(pool, envs, stack) /\ T[1] = 1
  BY DEF Tied, Shape, StackIs
<1>2. r \in 1 .. Len(envs) /\ Len(envs') = Len(envs) /\ Len(envs) \in Nat
  BY Sizes DEF Writes
<1>3. Texts(scopes') /\ Len(scopes') = Len(scopes)
  <2>1. T[r] \in 1 .. Len(scopes)
    BY <1>1, <1>2 DEF Stands
  <2>2. QED
    BY <1>1, <2>1, ReboundIs
<1>4. Match(envs', cells', scopes', T) /\ Distinct(envs') /\ Firm(F, T, envs', scopes')
  BY <1>1, WriteTies
<1>5. StackIs(stack, envs', scopes', T, F)
  BY <1>1, WriteStack
<1>6. FramesFine(pool, envs', scopes', T, F, stack)
  BY <1>1, <1>2, WriteFrames
<1>7. Stands(T, Len(envs'), Len(scopes'))
  BY <1>1, <1>2, <1>3
<1>8. QED
  BY <1>3, <1>4, <1>5, <1>6, <1>7 DEF Tied

LEMMA TiedAssign ==
  ASSUME Shape, NEW T, NEW F, Tied(T, F), NEW n \in Names, NEW cached, Assign(n, cached)
  PROVE  Tied(T, F)'
<1> DEFINE s == slot(Running.env, n)
           o == L!Owner(Running.scope, n)
           b == L!Bound(L!Newest, TRUE)
<1>1. /\ s # 0 /\ cells[s].mutable /\ cells' = [cells EXCEPT ![s].value = L!Newest]
      /\ L!Bind(o, n, b) /\ UNCHANGED <<stack, closures, envs, pool, escapes, simple>>
  BY ResolveIs DEF Assign, Calling
<1>2. PICK h \in 1 .. Len(envs) :
        /\ n \in Held(envs[h]) /\ s = own(envs[h], n) /\ o = T[h]
        /\ T[h] \in 1 .. Len(scopes) /\ own(envs[h], n) \in 1 .. Len(cells)
        /\ n \in DOMAIN scopes[T[h]].vals /\ cells[own(envs[h], n)] = scopes[T[h]].vals[n]
  BY <1>1, RunningAgrees
<1>3. Listed(cells) /\ SlotsFine(cells) /\ Len(cells) \in Nat /\ DOMAIN cells = 1 .. Len(cells)
  BY Sizes DEF Tied, Shape
<1>4. Rebound(scopes', scopes, T[h], n, b)
  BY <1>1, <1>2 DEF L!Bind, Rebound
<1>5. b = [value |-> b.value, mutable |-> b.mutable] /\ b.mutable \in BOOLEAN
  BY DEF L!Bound
<1>6. s \in 1 .. Len(cells)
  BY <1>2
<1>7. cells'[s] = b
  <2> DEFINE v == L!Newest
             x == cells[s]
  <2>1. x = [value |-> x.value, mutable |-> x.mutable] /\ x.mutable \in BOOLEAN /\ x.mutable
    BY <1>1, <1>3, <1>6 DEF SlotsFine
  <2>2. cells' = [cells EXCEPT ![s] = [x EXCEPT !.value = v]]
    BY <1>1
  <2>3. b = [value |-> v, mutable |-> TRUE]
    BY DEF L!Bound
  <2> HIDE DEF v, x, s, b
  <2>4. cells'[s] = [x EXCEPT !.value = v]
    BY <1>3, <1>6, <2>2
  <2>5. [x EXCEPT !.value = v] = [value |-> v, mutable |-> x.mutable]
    <3>1. x = [value |-> x.value, mutable |-> x.mutable]
      BY <2>1
    <3>2. QED
      BY <3>1
  <2>6. x.mutable = TRUE
    BY <2>1
  <2>7. QED
    BY <2>3, <2>4, <2>5, <2>6
<1>8. \A j \in 1 .. Len(cells) : j # s => cells'[j] = cells[j]
  <2> HIDE DEF s
  <2>1. QED
    BY <1>1, <1>3
<1>9. Listed(cells') /\ Len(cells') = Len(cells)
  <2>1. PICK x : cells' = [cells EXCEPT ![s] = x]
    BY <1>1
  <2> HIDE DEF s
  <2>2. QED
    BY <1>3, <1>6, <2>1, ListSet
<1>10. SlotsFine(cells')
  <2> HIDE DEF s, b
  <2>1. Len(cells') \in Nat /\ s \in 1 .. Len(cells') /\ \A j \in 1 .. Len(cells') : j # s => j \in 1 .. Len(cells) /\ cells'[j] = cells[j]
    BY <1>3, <1>6, <1>8, <1>9
  <2>2. QED
    BY <1>3, <1>5, <1>7, <2>1, SlotsWritten
<1>11. Writes(envs, cells, T, envs', cells', h, n, b, s)
  <2> HIDE DEF s, b
  <2>1. Distinct(envs)
    BY DEF Tied
  <2>2. \A e \in 1 .. Len(envs) : \A m \in Held(envs[e]) : own(envs[e], m) = s => e = h /\ m = n
    BY <1>2, <2>1, OnePlace
  <2>3. Held(envs[h]) = Held(envs[h]) \cup {n}
    BY <1>2
  <2>4. Len(cells) <= Len(cells') /\ Len(cells') \in Nat
    BY <1>3, <1>9
  <2>5. envs' = envs
    BY <1>1
  <2>6. QED
    BY <1>2, <1>3, <1>6, <1>7, <1>8, <1>9, <2>2, <2>3, <2>4, <2>5 DEF Writes
<1>12. Mutes(scopes, T[h], n)
  <2>1. scopes[T[h]].vals[n].mutable
    BY <1>1, <1>2
  <2>2. QED
    BY <2>1 DEF Mutes
<1> HIDE DEF s, o, b
<1>13. QED
  BY <1>1, <1>2, <1>4, <1>10, <1>11, <1>12, TiedWritten

LEMMA TiedDeclare ==
  ASSUME Shape, NEW T, NEW F, Tied(T, F), NEW n \in Names, Declare(n)
  PROVE  Tied(T, F)'
<1> DEFINE r == Running.env
           e == envs[r]
           d == IF Running.kind = "top" THEN deleteVar(e, n) ELSE e
           c == Len(cells) + 1
           f == putSlot(d, n, c)
           b == L!Bound(L!Newest, TRUE)
<1>1. r \in 1 .. Len(envs) /\ c \in Nat /\ Len(envs) \in Nat /\ IsEnv(e) /\ Len(cells) \in Nat /\ Listed(cells)
  BY Sizes DEF Shape, EnvsFine
<1>2. /\ envs' = [envs EXCEPT ![r] = f] /\ UNCHANGED <<stack, closures, pool, escapes, simple>>
      /\ L!Bind(Running.scope, n, b) /\ Running.body # "bare" /\ (Running.kind = "top" \/ n \notin Held(e))
  BY DEF Declare, Calling
<1>3. T[r] = Running.scope /\ (Running.kind = "top" => T[r] = 1)
  <2>1. StackFine(stack, Len(envs)) /\ StackIs(stack, envs, scopes, T, F) /\ Len(stack) \in Nat /\ Len(stack) \in 1 .. Len(stack)
        /\ Running = stack[Len(stack)]
    BY Sizes DEF Tied, Shape
  <2>2. CASE Running.kind = "top"
    <3>1. Len(stack) = 1
      BY <2>1, <2>2 DEF StackFine
    <3>2. QED
      BY <2>1, <3>1 DEF StackFine, StackIs
  <2>3. CASE Running.kind # "top"
    <3>1. Len(stack) \in 2 .. Len(stack)
      BY <2>1, <2>3 DEF StackFine
    <3>2. EntryIs(Running, stack[Len(stack) - 1], envs, scopes, T, F)
      BY <2>1, <3>1 DEF StackIs
    <3>3. ~ Thin(Running)
      BY <1>2 DEF Thin
    <3>4. QED
      BY <2>3, <3>2, <3>3 DEF EntryIs
  <2>4. QED
    BY <2>2, <2>3
<1> HIDE DEF r
<1>4. NewSlots(<<L!Newest>>, TRUE)
  BY DEF Declare
<1>5. Listed(cells') /\ Len(cells') = c /\ cells'[c] = b /\ \A i \in 1 .. Len(cells) : cells'[i] = cells[i]
  <2> DEFINE v == L!Newest
             values == <<v>>
             yes == TRUE
  <2>1. Listed(values) /\ Len(values) = 1 /\ values[1] = v /\ NewSlots(values, yes)
    BY <1>4, ShortLists
  <2>2. b = [value |-> v, mutable |-> yes]
    BY DEF L!Bound
  <2> HIDE DEF values, v, yes, b
  <2>3. /\ Listed(cells') /\ Len(cells') = Len(cells) + Len(values)
        /\ \A i \in 1 .. Len(cells) : cells'[i] = cells[i]
        /\ \A i \in 1 .. Len(values) : cells'[Len(cells) + i] = [value |-> values[i], mutable |-> yes]
    BY <1>1, <2>1, NewSlotsIs
  <2>4. 1 \in 1 .. Len(values)
    BY <2>1
  <2>5. cells'[Len(cells) + 1] = [value |-> v, mutable |-> yes]
    BY <2>1, <2>3, <2>4
  <2>6. QED
    BY <2>1, <2>2, <2>3, <2>5
<1>6. /\ IsEnv(d) /\ d.parent = e.parent
      /\ Held(d) \cup {n} = Held(e) \cup {n} /\ Held(d) \ {n} = Held(e) \ {n}
      /\ \A m \in Held(e) \ {n} : own(d, m) = own(e, m)
  <2>1. CASE Running.kind = "top"
    <3> HIDE DEF e
    <3>1. /\ IsEnv(deleteVar(e, n)) /\ deleteVar(e, n).parent = e.parent
          /\ Held(deleteVar(e, n)) = Held(e) \ {n}
          /\ \A m \in Held(e) \ {n} : own(deleteVar(e, n), m) = own(e, m)
      BY <1>1, DeleteIs
    <3>2. QED
      BY <2>1, <3>1
  <2>2. CASE ~ (Running.kind = "top")
    BY <1>1, <2>2
  <2>3. QED
    BY <2>1, <2>2
<1> HIDE DEF d
<1>7. /\ IsEnv(f) /\ f.parent = d.parent /\ Held(f) = Held(d) \cup {n} /\ own(f, n) = c
      /\ \A m \in Held(d) \ {n} : own(f, m) = own(d, m)
  <2>1. f = putSlot(d, n, c) /\ IsEnv(d) /\ c \in Nat
    BY <1>1, <1>6
  <2> HIDE DEF c, f
  <2>2. QED
    BY <2>1, PutIs
<1> HIDE DEF f
<1>8. /\ Len(envs') = Len(envs) /\ envs'[r] = f /\ \A x \in 1 .. Len(envs) : x # r => envs'[x] = envs[x]
  <2>1. EnvsFine(envs)
    BY DEF Shape
  <2>2. QED
    BY <1>1, <1>2, <2>1, ListSet DEF EnvsFine
<1>9. b = [value |-> b.value, mutable |-> b.mutable] /\ b.mutable \in BOOLEAN
  BY DEF L!Bound
<1> HIDE DEF b
<1>10. SlotsFine(cells')
  <2>1. SlotsFine(cells)
    BY DEF Tied
  <2>2. Len(cells') \in Nat /\ c \in 1 .. Len(cells') /\ \A j \in 1 .. Len(cells') : j # c => j \in 1 .. Len(cells) /\ cells'[j] = cells[j]
    BY <1>1, <1>5
  <2> HIDE DEF c
  <2>3. QED
    BY <1>1, <1>5, <1>9, <2>1, <2>2, SlotsWritten
<1>11. Rebound(scopes', scopes, T[r], n, b)
  BY <1>2, <1>3 DEF L!Bind, Rebound
<1>12. Writes(envs, cells, T, envs', cells', r, n, b, c)
  <2>1. \A x \in 1 .. Len(envs) : envs'[x].parent = envs[x].parent /\ (x # r => envs'[x] = envs[x])
    BY <1>6, <1>7, <1>8
  <2>2. /\ Held(envs'[r]) = Held(envs[r]) \cup {n} /\ own(envs'[r], n) = c
        /\ \A m \in Held(envs[r]) : m # n => own(envs'[r], m) = own(envs[r], m)
    BY <1>6, <1>7, <1>8
  <2>3. c \in 1 .. Len(cells') /\ Len(cells') \in Nat /\ Len(cells) <= Len(cells') /\ ~ (c \in 1 .. Len(cells))
    BY <1>1, <1>5
  <2>4. \A x \in 1 .. Len(envs) : \A m \in Held(envs[x]) : own(envs[x], m) \in 1 .. Len(cells)
    BY DEF Tied, Match, Binds
  <2> HIDE DEF c, e
  <2>5. QED
    BY <1>1, <1>5, <1>8, <2>1, <2>2, <2>3, <2>4 DEF Writes
<1>13. Mutes(scopes, T[r], n)
  <2>1. Held(envs[r]) = DOMAIN scopes[T[r]].vals
    BY <1>1 DEF Tied, Match, Binds
  <2>2. QED
    BY <1>2, <1>3, <2>1 DEF Mutes
<1>14. ASSUME NEW k \in 1 .. Len(stack), stack[k].scope = T[r] PROVE stack[k].body # "bare"
  <2>1. Rising(stack, Len(scopes)) /\ Len(stack) \in Nat /\ Len(stack) \in 1 .. Len(stack) /\ Running = stack[Len(stack)]
    BY Sizes DEF Tied, StackIs
  <2>2. k = Len(stack)
    <3>1. SUFFICES ASSUME k # Len(stack) PROVE FALSE
      OBVIOUS
    <3>2. k < Len(stack)
      BY <2>1, <3>1
    <3>3. stack[k].scope < stack[Len(stack)].scope /\ stack[Len(stack)].scope \in Nat
      BY <2>1, <3>2 DEF Rising
    <3>4. QED
      BY <1>3, <1>14, <2>1, <3>3
  <2>3. QED
    BY <1>2, <2>1, <2>2
<1> HIDE DEF c
<1>15. QED
  BY <1>2, <1>10, <1>11, <1>12, <1>13, <1>14, TiedWritten

-----------------------------------------------------------------------------
(* Steps that enter a scope. *)

(* With an Env of its own, r.                                              *)
LEMMA EnterStays ==
  ASSUME NEW E, NEW C, NEW T, NEW F, NEW D, NEW B, NEW U, NEW r, NEW M, NEW v, Enters(E, C, T, D, B, U, r, M, v),
         NEW G, NEW p, Firms(G, F, r, D, T, p), NEW e \in 1 .. Len(E), e # r
  PROVE  StaysFor(e, E, T, F, D, U, G)
<1>1. Len(E) \in Nat /\ Len(E) <= Len(D) /\ r \in 1 .. Len(D)
  BY DEF Enters
<1>2. e \in 1 .. Len(D)
  BY <1>1
<1>3. D[e] = E[e] /\ U[e] = T[e]
  BY <1>2 DEF Enters
<1>4. e \in G <=> e \in F
  BY DEF Firms
<1>5. QED
  BY <1>3, <1>4 DEF StaysFor

LEMMA TiedEntered ==
  ASSUME Shape, NEW T, NEW F, Tied(T, F), Grown(scopes', scopes), NEW U, NEW r, NEW v,
         Enters(envs, cells, T, envs', cells', U, r, Len(scopes'), v), scopes'[Len(scopes')].vals = v,
         NEW G, NEW p, p = scopes'[Len(scopes')].parent, Firms(G, F, r, envs', T, p),
         NEW m, NEW x, StackEnd(stack', stack, m, x), x.scope = Len(scopes'), x.env = r,
         \A d \in 1 .. m - 1 : stack[d].env # r,
         EntryIs(x, stack[m - 1], envs', scopes', U, G),
         FramesFine(pool', envs', scopes', U, G, stack'), SlotsFine(cells'),
         MakersFine(escapes', simple', closures'), closures' = closures
  PROVE  Tied(U, G)'
<1>1. /\ Texts(scopes) /\ Stands(T, Len(envs), Len(scopes)) /\ Match(envs, cells, scopes, T) /\ Distinct(envs)
      /\ Firm(F, T, envs, scopes) /\ StackIs(stack, envs, scopes, T, F) /\ KeptFine(closures, T, F)
      /\ StackFine(stack, Len(envs))
  BY DEF Tied, Shape
<1>2. Texts(scopes')
  BY DEF Grown
<1>3. Stands(U, Len(envs'), Len(scopes')) /\ Match(envs', cells', scopes', U) /\ Distinct(envs')
  BY <1>1, EnterTies
<1>4. Firm(G, U, envs', scopes') /\ StillFirm(F, G, r, U, T)
  BY <1>1, EnterFirm
<1>5. KeptFine(closures', U, G)
  BY <1>1, <1>4, KeptStay DEF StillFirm
<1>6. StackIs(stack', envs', scopes', U, G)
  <2>1. ASSUME NEW d \in 1 .. m - 1 PROVE StaysFor(stack[d].env, envs, T, F, envs', U, G)
    <3>1. d \in 1 .. Len(stack)
      BY DEF StackEnd
    <3>2. stack[d].env \in 1 .. Len(envs) /\ stack[d].env # r
      BY <1>1, <3>1 DEF StackFine, EntryFine
    <3>3. QED
      BY <3>2, EnterStays
  <2>2. QED
    BY <1>1, <1>4, <2>1, StackOver DEF StillFirm
<1>7. QED
  BY <1>2, <1>3, <1>4, <1>5, <1>6 DEF Tied

(* The frames that are kept are as they were.                              *)
LEMMA FrameStays ==
  ASSUME Shape, NEW T, NEW F, Tied(T, F), Grown(scopes', scopes), NEW U, NEW r, NEW v,
         Enters(envs, cells, T, envs', cells', U, r, Len(scopes'), v),
         NEW G, NEW p, Firms(G, F, r, envs', T, p),
         NEW m, NEW x, StackEnd(stack', stack, m, x), x.env = r,
         NEW d \in Decls, NEW k \in DOMAIN pool[d].envs, NEW e, e = pool[d].envs[k], e # r
  PROVE  FrameFine(e, k, d, pool[d].closure, envs', scopes', U, G, stack')
<1>1. /\ FrameFine(e, k, d, pool[d].closure, envs, scopes, T, F, stack) /\ e \in 2 .. Len(envs)
      /\ Stands(T, Len(envs), Len(scopes))
  BY DEF Tied, Shape, FramesFine, PoolFine
<1>2. e \in 1 .. Len(envs)
  BY <1>1
<1>3. StaysFor(e, envs, T, F, envs', U, G)
  BY <1>2, EnterStays
<1>4. QED
  BY <1>1, <1>2, <1>3, FrameOver

(* Without an Env.                                                         *)
LEMMA TiedThin ==
  ASSUME Shape, NEW T, NEW F, Tied(T, F), Grown(scopes', scopes), DOMAIN scopes'[Len(scopes')].vals = {},
         NEW m, NEW x, StackEnd(stack', stack, m, x), x.scope = Len(scopes'), Thin(x), x.env = stack[m - 1].env,
         scopes'[Len(scopes')].parent = stack[m - 1].scope,
         UNCHANGED <<envs, cells, closures, pool, escapes, simple>>
  PROVE  Tied(T, F)'
<1>1. /\ Texts(scopes) /\ Stands(T, Len(envs), Len(scopes)) /\ Match(envs, cells, scopes, T) /\ Distinct(envs)
      /\ Firm(F, T, envs, scopes) /\ StackIs(stack, envs, scopes, T, F) /\ KeptFine(closures, T, F)
      /\ StackFine(stack, Len(envs)) /\ FramesFine(pool, envs, scopes, T, F, stack) /\ PoolFine(pool, envs, stack)
  BY DEF Tied, Shape
<1>2. /\ Texts(scopes') /\ Len(scopes') = Len(scopes) + 1 /\ Len(scopes) \in Nat
      /\ \A s \in 1 .. Len(scopes) : scopes'[s] = scopes[s]
  BY DEF Grown
<1>3. \A e \in 1 .. Len(envs) : T[e] \in 1 .. Len(scopes) /\ T[e] \in 1 .. Len(scopes') /\ scopes'[T[e]] = scopes[T[e]]
  BY <1>1, <1>2 DEF Stands
<1>4. Stands(T, Len(envs), Len(scopes'))
  BY <1>1, <1>3 DEF Stands
<1>5. Match(envs, cells, scopes', T)
  BY <1>1, <1>3 DEF Match
<1>6. Firm(F, T, envs, scopes')
  BY <1>1, <1>3 DEF Firm, Anchored
<1>7. \A e : StaysFor(e, envs, T, F, envs, T, F)
  BY DEF StaysFor
<1>8. EntryIs(x, stack[m - 1], envs, scopes', T, F)
  BY DEF EntryIs, VarFine, Thin, Making, Rewritten
<1>9. StackIs(stack', envs, scopes', T, F)
  BY <1>1, <1>7, <1>8, StackOver
<1>10. FramesFine(pool, envs, scopes', T, F, stack')
  <2> SUFFICES ASSUME NEW d \in Decls, NEW k \in DOMAIN pool[d].envs
               PROVE  FrameFine(pool[d].envs[k], k, d, pool[d].closure, envs, scopes', T, F, stack')
    BY DEF FramesFine
  <2> DEFINE e == pool[d].envs[k]
             c == pool[d].closure
  <2>1. e \in 2 .. Len(envs) /\ FrameFine(e, k, d, c, envs, scopes, T, F, stack)
    BY <1>1 DEF PoolFine, FramesFine
  <2> HIDE DEF e, c
  <2>2. e \in 1 .. Len(envs)
    BY <2>1
  <2>3. FrameFine(e, k, d, c, envs, scopes', T, F, stack')
    BY <1>1, <1>7, <2>1, <2>2, FrameOver
  <2>4. QED
    BY <2>3 DEF e, c
<1>11. QED
  BY <1>2, <1>4, <1>5, <1>6, <1>9, <1>10 DEF Tied

LEMMA EntryStands ==
  ASSUME Shape, NEW T, NEW F, Tied(T, F), NEW d \in 1 .. Len(stack), ~ Thin(stack[d])
  PROVE  T[stack[d].env] = stack[d].scope
<1>1. StackFine(stack, Len(envs)) /\ StackIs(stack, envs, scopes, T, F) /\ Len(stack) \in Nat
  BY Sizes DEF Tied, Shape
<1>2. CASE d = 1
  BY <1>1, <1>2 DEF StackFine, StackIs
<1>3. CASE d # 1
  <2>1. d \in 2 .. Len(stack)
    BY <1>1, <1>3
  <2>2. EntryIs(stack[d], stack[d - 1], envs, scopes, T, F)
    BY <1>1, <2>1 DEF StackIs
  <2>3. QED
    BY <2>2 DEF EntryIs
<1>4. QED
  BY <1>2, <1>3

(* An Env that is new, with slots that are new.                            *)
Longer(B, C) ==
  Len(C) \in Nat /\ Len(B) \in Nat /\ Len(C) <= Len(B) /\ \A i \in 1 .. Len(C) : B[i] = C[i]

Apiece(f, C) ==
  \A n \in Held(f) : /\ own(f, n) \notin 1 .. Len(C)
                     /\ \A m \in Held(f) : own(f, n) = own(f, m) => n = m

Moves(U, T, N, r, M) == U[r] = M /\ \A e \in 1 .. N : e # r => U[e] = T[e]

LEMMA SomeMoves ==
  ASSUME NEW T, NEW N, NEW r, NEW M
  PROVE  \E U : Moves(U, T, N, r, M)
<1> DEFINE U == [e \in 1 .. N \cup {r} |-> IF e = r THEN M ELSE T[e]]
<1>1. U[r] = M /\ \A e \in 1 .. N : e # r => U[e] = T[e]
  OBVIOUS
<1> HIDE DEF U
<1>2. QED
  BY <1>1 DEF Moves

LEMMA NewEnters ==
  ASSUME NEW E, NEW C, NEW Z, NEW T, Match(E, C, Z, T), NEW D, Longer(D, E), Len(D) = Len(E) + 1,
         NEW B, Longer(B, C), NEW r, r = Len(D), NEW v, Binds(D[r], B, v), Apiece(D[r], C),
         NEW U, NEW M, Moves(U, T, Len(E), r, M)
  PROVE  Enters(E, C, T, D, B, U, r, M, v)
<1>1. Len(E) \in Nat /\ Len(E) <= Len(D) /\ r \in 1 .. Len(D) /\ U[r] = M
  BY DEF Longer, Moves
<1>2. \A e \in 1 .. Len(D) : e # r => e \in 1 .. Len(E) /\ D[e] = E[e] /\ U[e] = T[e]
  <2> SUFFICES ASSUME NEW e \in 1 .. Len(D), e # r PROVE e \in 1 .. Len(E) /\ D[e] = E[e] /\ U[e] = T[e]
    OBVIOUS
  <2>1. e \in 1 .. Len(E)
    BY <1>1
  <2>2. QED
    BY <2>1 DEF Longer, Moves
<1>3. \A e \in 1 .. Len(E) : \A m \in Held(E[e]) :
        own(E[e], m) \in 1 .. Len(C) /\ own(E[e], m) \in 1 .. Len(B) /\ B[own(E[e], m)] = C[own(E[e], m)]
  <2>1. 1 .. Len(C) \subseteq 1 .. Len(B) /\ \A i \in 1 .. Len(C) : B[i] = C[i]
    BY DEF Longer
  <2>2. \A e \in 1 .. Len(E) : \A m \in Held(E[e]) : own(E[e], m) \in 1 .. Len(C)
    BY DEF Match, Binds
  <2>3. QED
    BY <2>1, <2>2
<1>4. QED
  BY <1>1, <1>2, <1>3 DEF Enters, Apiece

(* A block is entered, or a loop, or a pass with an Env of its own.        *)
LEMMA TiedPassed ==
  ASSUME Shape, NEW T, NEW F, Tied(T, F), Grown(scopes', scopes), Longer(envs', envs), Len(envs') = Len(envs) + 1,
         Longer(cells', cells), SlotsFine(cells'),
         NEW f, f = envs'[Len(envs')], NEW s, s = scopes'[Len(scopes')], Binds(f, cells', s.vals), Apiece(f, cells),
         NEW m, NEW x, StackEnd(stack', stack, m, x), x.kind \in {"block", "loop"}, ~ Thin(x),
         x.scope = Len(scopes'), x.env = Len(envs'), f.parent = stack[m - 1].env, s.parent = stack[m - 1].scope,
         VarFine(x, f, s), UNCHANGED <<closures, pool, escapes, simple>>
  PROVE  \E U, G : Tied(U, G)'
<1> DEFINE y == stack[m - 1]
           r == Len(envs')
<1>0. PICK G : G = IF Making(x) /\ ~ Thin(y) /\ y.env \in F THEN F \cup {r} ELSE F
  OBVIOUS
<1>1. /\ Match(envs, cells, scopes, T) /\ Firm(F, T, envs, scopes) /\ StackFine(stack, Len(envs))
      /\ PoolFine(pool, envs, stack) /\ MakersFine(escapes, simple, closures)
  BY DEF Tied, Shape
<1>2. Len(envs) \in Nat /\ r \notin 1 .. Len(envs)
  BY Sizes
<1>3. m - 1 \in 1 .. Len(stack)
  BY DEF StackEnd
<1>4. y.env \in 1 .. Len(envs)
  BY <1>1, <1>3 DEF StackFine, EntryFine
<1>5. ~ Thin(y) => T[y.env] = y.scope
  BY <1>3, EntryStands
<1>6. PICK U : Moves(U, T, Len(envs), r, Len(scopes'))
  BY SomeMoves
<1>7. Enters(envs, cells, T, envs', cells', U, r, Len(scopes'), s.vals)
  <2> HIDE DEF y
  <2>1. r = Len(envs')
    OBVIOUS
  <2>2. Binds(envs'[r], cells', s.vals) /\ Apiece(envs'[r], cells)
    BY <2>1
  <2> HIDE DEF r
  <2>3. QED
    BY <1>1, <1>6, <2>1, <2>2, NewEnters
<1>8. Firms(G, F, r, envs', T, s.parent)
  <2>1. r \notin F
    BY <1>1, <1>2 DEF Firm
  <2>2. envs'[r] = f
    OBVIOUS
  <2> HIDE DEF r
  <2>3. QED
    BY <1>0, <1>5, <2>1, <2>2 DEF Firms
<1>9. r \in G <=> Making(x) /\ ~ Thin(y) /\ y.env \in F
  <2>1. r \notin F
    BY <1>1, <1>2 DEF Firm
  <2> HIDE DEF r
  <2>2. QED
    BY <1>0, <2>1
<1>10. y.env \in G => y.env \in F
  BY <1>0, <1>2, <1>4
<1>11. envs'[r] = f /\ scopes'[Len(scopes')] = s
  OBVIOUS
<1> HIDE DEF y, r
<1>12. EntryIs(x, y, envs', scopes', U, G)
  <2>1. x.env = r /\ U[r] = x.scope /\ f.parent = y.env /\ s.parent = y.scope /\ scopes'[x.scope] = s /\ envs'[x.env] = f
    BY <1>6, <1>11 DEF Moves, r, y
  <2>2. x.kind # "call"
    OBVIOUS
  <2>3. Rewritten(x) => ~ Making(x)
    BY DEF Rewritten, Making
  <2>4. QED
    BY <1>9, <1>10, <2>1, <2>2, <2>3 DEF EntryIs
<1>13. \A d \in 1 .. m - 1 : stack[d].env # r
  <2>1. ASSUME NEW d \in 1 .. m - 1 PROVE d \in 1 .. Len(stack)
    BY DEF StackEnd
  <2>2. QED
    BY <1>1, <1>2, <2>1 DEF StackFine, EntryFine
<1>14. FramesFine(pool, envs', scopes', U, G, stack')
  <2> SUFFICES ASSUME NEW d \in Decls, NEW k \in DOMAIN pool[d].envs
               PROVE  FrameFine(pool[d].envs[k], k, d, pool[d].closure, envs', scopes', U, G, stack')
    BY DEF FramesFine
  <2> DEFINE e == pool[d].envs[k]
  <2>1. e # r
    BY <1>1, <1>2 DEF PoolFine
  <2>2. e = pool[d].envs[k] /\ x.env = r
    BY DEF r
  <2> HIDE DEF e
  <2>3. FrameFine(e, k, d, pool[d].closure, envs', scopes', U, G, stack')
    BY <1>7, <1>8, <2>1, <2>2, FrameStays
  <2>4. QED
    BY <2>3 DEF e
<1>15. MakersFine(escapes', simple', closures')
  BY <1>1
<1>16. FramesFine(pool', envs', scopes', U, G, stack')
  BY <1>14
<1>17. x.env = r /\ s.parent = scopes'[Len(scopes')].parent /\ scopes'[Len(scopes')].vals = s.vals /\ closures' = closures
  BY DEF r
<1>18. EntryIs(x, stack[m - 1], envs', scopes', U, G)
  BY <1>12 DEF y
<1>19. Tied(U, G)'
  BY <1>7, <1>8, <1>13, <1>15, <1>16, <1>17, <1>18, TiedEntered
<1>20. QED
  BY <1>19

LEMMA TextsGrown ==
  ASSUME NEW T, NEW F, Tied(T, F), NEW p \in 0 .. Len(scopes), NEW v, L!NewScope(p, v)
  PROVE  /\ Grown(scopes', scopes) /\ Len(scopes') = Len(scopes) + 1
         /\ scopes'[Len(scopes')].parent = p /\ scopes'[Len(scopes')].vals = v
<1> DEFINE Y == Append(scopes, [parent |-> p, vals |-> v])
<1>1. scopes' = Y
  BY DEF L!NewScope
<1>2. Texts(scopes)
  BY DEF Tied
<1>3. /\ Texts(Y) /\ Len(Y) = Len(scopes) + 1 /\ Len(scopes) \in Nat /\ \A s \in 1 .. Len(scopes) : Y[s] = scopes[s]
      /\ Y[Len(scopes) + 1].parent = p /\ Y[Len(scopes) + 1].vals = v
  BY <1>2, ScopesGrow
<1> HIDE DEF Y
<1>4. QED
  BY <1>1, <1>3 DEF Grown

LEMMA StackPushed ==
  ASSUME Shape, NEW entry, NEW env, NEW home, Push(entry, env, home)
  PROVE  /\ StackEnd(stack', stack, Len(stack) + 1, In(entry, env, home)) /\ stack[(Len(stack) + 1) - 1] = Running
         /\ (Len(stack) + 1) - 1 = Len(stack)
<1> DEFINE x == In(entry, env, home)
<1>1. stack' = Append(stack, x)
  BY DEF Push
<1>2. Listed(stack) /\ Len(stack) \in Nat /\ Len(stack) >= 1 /\ Running = stack[Len(stack)]
  BY Sizes DEF Shape, StackFine
<1> HIDE DEF x
<1>3. Len(stack') = Len(stack) + 1 /\ stack'[Len(stack) + 1] = x /\ \A i \in 1 .. Len(stack) : stack'[i] = stack[i]
  BY <1>1, <1>2, ListAppend
<1>4. (Len(stack) + 1) - 1 = Len(stack) /\ Len(stack) + 1 \in Nat /\ Len(stack) + 1 >= 2
  BY <1>2
<1>5. QED
  BY <1>2, <1>3, <1>4 DEF StackEnd, x

LEMMA EnvAdded ==
  ASSUME Shape, NEW f, NewEnv(f)
  PROVE  Longer(envs', envs) /\ Len(envs') = Len(envs) + 1 /\ envs'[Len(envs')] = f
<1>1. envs' = Append(envs, f) /\ Listed(envs) /\ Len(envs) \in Nat
  BY Sizes DEF NewEnv, Shape, EnvsFine
<1>2. Len(envs') = Len(envs) + 1 /\ envs'[Len(envs) + 1] = f /\ \A i \in 1 .. Len(envs) : envs'[i] = envs[i]
  BY <1>1, ListAppend
<1>3. QED
  BY <1>1, <1>2 DEF Longer

LEMMA RunningScope ==
  ASSUME Shape, NEW T, NEW F, Tied(T, F)
  PROVE  Running.scope \in 1 .. Len(scopes) /\ Running.scope \in 0 .. Len(scopes)
<1>1. StackIs(stack, envs, scopes, T, F) /\ Len(stack) \in 1 .. Len(stack) /\ Running = stack[Len(stack)]
  BY Sizes DEF Tied
<1>2. QED
  BY <1>1 DEF StackIs, Rising

LEMMA TiedEnterBlock ==
  ASSUME Shape, NEW T, NEW F, Tied(T, F), EnterBlock
  PROVE  \E U, G : Tied(U, G)'
<1> DEFINE f == Env(Running.env)
           M == Len(scopes')
           entry == L!Entry("block", M, "none")
           x == In(entry, Len(envs'), 0)
           s == scopes'[M]
           m == Len(stack) + 1
           p == Running.scope
           v == <<>>
<1>1. NewEnv(f) /\ Push(entry, Len(envs'), 0) /\ L!NewScope(p, v) /\ UNCHANGED <<closures, cells, pool, escapes, simple>>
  BY DEF EnterBlock, Calling
<1>2. Held(f) = {} /\ f.parent = Running.env
  BY NewIs
<1>3. /\ x.kind = "block" /\ x.scope = M /\ x.env = Len(envs')
  BY DEF In, L!Entry
<1>4. StackEnd(stack', stack, m, x) /\ stack[m - 1] = Running
  <2> HIDE DEF entry
  <2>1. QED
    BY <1>1, StackPushed
<1>5. DOMAIN v = {}
  OBVIOUS
<1>6. Grown(scopes', scopes) /\ s.parent = p /\ s.vals = v
  <2>1. p \in 0 .. Len(scopes)
    BY RunningScope
  <2> HIDE DEF p, v
  <2>2. QED
    BY <1>1, <2>1, TextsGrown
<1> HIDE DEF x, entry, f, p, v
<1>7. Longer(envs', envs) /\ Len(envs') = Len(envs) + 1 /\ f = envs'[Len(envs')]
  BY <1>1, EnvAdded
<1>8. Longer(cells', cells) /\ SlotsFine(cells')
  <2>1. Len(cells) \in Nat /\ cells' = cells /\ SlotsFine(cells)
    BY <1>1, Sizes DEF Tied
  <2>2. QED
    BY <2>1 DEF Longer
<1>9. Binds(f, cells', s.vals) /\ Apiece(f, cells)
  BY <1>2, <1>5, <1>6 DEF Binds, Apiece
<1>10. ~ Thin(x) /\ VarFine(x, f, s) /\ x.kind \in {"block", "loop"}
  BY <1>3 DEF Thin, VarFine, Rewritten
<1>11. f.parent = stack[m - 1].env /\ s.parent = stack[m - 1].scope
  BY <1>2, <1>4, <1>6 DEF p
<1> HIDE DEF m
<1>12. QED
  BY <1>1, <1>3, <1>4, <1>6, <1>7, <1>8, <1>9, <1>10, <1>11, TiedPassed

(* A pass: its variable in a slot of its own.                              *)
LEMMA PassFits ==
  ASSUME Shape, NEW T, NEW F, Tied(T, F), NEW p, NEW var \in Names \cup {"none"}, NewPass(p, var),
         NEW f, f = FirstEnv(p, var, Len(cells) + 1), NEW v, v = L!PassVals(var)
  PROVE  /\ NewEnv(f) /\ f.parent = p /\ Longer(cells', cells) /\ SlotsFine(cells')
         /\ Binds(f, cells', v) /\ Apiece(f, cells) /\ Held(f) = {var} \ {"none"}
         /\ var # "none" => own(f, var) = Len(cells') /\ ~ v[var].mutable
<1> DEFINE c == Len(cells) + 1
           b == L!Bound(L!Newest, FALSE)
<1>1. Len(cells) \in Nat /\ Listed(cells) /\ SlotsFine(cells) /\ c \in Nat
  BY Sizes DEF Tied, Shape
<1>2. /\ NewEnv(f)
      /\ Listed(cells') /\ Len(cells') = Len(cells) + (IF var = "none" THEN 0 ELSE 1)
      /\ \A i \in 1 .. Len(cells) : cells'[i] = cells[i]
      /\ var # "none" => cells'[c] = [value |-> L!Newest, mutable |-> FALSE]
  <2>1. Shape /\ NewPass(p, var)
    OBVIOUS
  <2>2. /\ NewEnv(FirstEnv(p, var, Len(cells) + 1)) /\ bump({var})
        /\ Listed(cells') /\ Len(cells') = Len(cells) + (IF var = "none" THEN 0 ELSE 1)
        /\ \A i \in 1 .. Len(cells) : cells'[i] = cells[i]
        /\ var # "none" => cells'[Len(cells) + 1] = [value |-> L!Newest, mutable |-> FALSE]
    BY <2>1, NewPassIs
  <2>3. QED
    BY <2>2
<1>3. b = [value |-> L!Newest, mutable |-> FALSE] /\ b = [value |-> b.value, mutable |-> b.mutable] /\ b.mutable \in BOOLEAN /\ ~ b.mutable
  BY DEF L!Bound
<1>4. /\ f.parent = p /\ Held(f) = {var} \ {"none"}
      /\ var # "none" => own(f, var) = c
  <2> HIDE DEF c
  <2>1. f = FirstEnv(p, var, c)
    BY DEF c
  <2>2. /\ FirstEnv(p, var, c).parent = p
        /\ Held(FirstEnv(p, var, c)) = {var} \ {"none"}
        /\ var # "none" => own(FirstEnv(p, var, c), var) = c
    BY <1>1, FirstIs
  <2>3. QED
    BY <2>1, <2>2
<1>5. DOMAIN v = {var} \ {"none"} /\ (var # "none" => v[var] = b)
  <2>1. CASE var = "none"
    <3>1. v = <<>>
      BY <2>1 DEF L!PassVals
    <3>2. DOMAIN v = {}
      BY <3>1
    <3>3. QED
      BY <2>1, <3>2
  <2>2. CASE var # "none"
    <3>1. v = [n \in {var} |-> b]
      BY <2>2 DEF L!PassVals
    <3> HIDE DEF b
    <3>2. QED
      BY <2>2, <3>1
  <2>3. QED
    BY <2>1, <2>2
<1>6. var # "none" => cells'[c] = b
  BY <1>2, <1>3
<1> HIDE DEF b
<1>7. Longer(cells', cells)
  BY <1>1, <1>2 DEF Longer
<1>8. SlotsFine(cells')
  <2>1. CASE var = "none"
    <3>1. \A i \in 1 .. Len(cells') : i \in 1 .. Len(cells)
      BY <1>1, <1>2, <2>1
    <3>2. QED
      BY <1>1, <1>2, <3>1 DEF SlotsFine
  <2>2. CASE var # "none"
    <3>1. /\ Len(cells') \in Nat /\ c \in 1 .. Len(cells')
          /\ \A j \in 1 .. Len(cells') : j # c => j \in 1 .. Len(cells) /\ cells'[j] = cells[j]
      BY <1>1, <1>2, <2>2
    <3> HIDE DEF c
    <3>2. QED
      BY <1>1, <1>3, <1>6, <2>2, <3>1, SlotsWritten
  <2>3. QED
    BY <2>1, <2>2
<1>9. /\ \A n \in Held(f) : n = var /\ var # "none" /\ own(f, n) = c
      /\ var # "none" => c \in 1 .. Len(cells') /\ c = Len(cells') /\ c \notin 1 .. Len(cells)
  BY <1>1, <1>2, <1>4
<1> HIDE DEF c
<1>10. Binds(f, cells', v)
  BY <1>4, <1>5, <1>6, <1>9 DEF Binds
<1>11. Apiece(f, cells)
  BY <1>9 DEF Apiece
<1>12. QED
  BY <1>2, <1>3, <1>4, <1>5, <1>7, <1>8, <1>9, <1>10, <1>11

LEMMA TiedEnterLoop ==
  ASSUME Shape, NEW T, NEW F, Tied(T, F), NEW body, NEW var \in LoopVars, EnterLoop(body, var)
  PROVE  \E U, G : Tied(U, G)'
<1> DEFINE entry == [kind |-> "loop", scope |-> Len(scopes) + 1, decl |-> "none",
                     body |-> body, var |-> var]
           none == body = "bare" /\ var = "none"
           M == Len(scopes')
           s == scopes'[M]
           m == Len(stack) + 1
           p == Running.scope
           v == L!PassVals(var)
           env == IF none THEN Running.env ELSE Len(envs')
           x == In(entry, env, Len(cells'))
<1>1. var \in Names \cup {"none"}
  BY ScopesAssumption DEF ScopesAssumption
<1>2. L!NewScope(p, v) /\ Push(entry, env, Len(cells')) /\ UNCHANGED <<closures, pool, escapes, simple>>
  BY DEF EnterLoop, Calling
<1>3. x.kind = "loop" /\ x.scope = Len(scopes) + 1 /\ x.env = env /\ x.body = body /\ x.var = var /\ x.home = Len(cells')
  BY DEF In
<1>4. StackEnd(stack', stack, m, x) /\ stack[m - 1] = Running
  <2> HIDE DEF entry, env
  <2>1. QED
    BY <1>2, StackPushed
<1>5. Grown(scopes', scopes) /\ s.parent = p /\ s.vals = v /\ M = Len(scopes) + 1
  <2>1. p \in 0 .. Len(scopes)
    BY RunningScope
  <2> HIDE DEF p, v
  <2>2. QED
    BY <1>2, <2>1, TextsGrown
<1>6. x.scope = M
  BY <1>3, <1>5
<1>7. s.parent = stack[m - 1].scope
  BY <1>4, <1>5
<1>8. CASE none
  <2>1. UNCHANGED <<envs, cells>>
    BY <1>8 DEF EnterLoop
  <2>2. Thin(x) /\ x.env = stack[m - 1].env
    BY <1>3, <1>4, <1>8 DEF Thin
  <2>3. v = <<>>
    BY <1>8 DEF L!PassVals
  <2>4. DOMAIN s.vals = {}
    BY <1>5, <2>3
  <2> HIDE DEF x, m, v, p
  <2>5. Tied(T, F)'
    BY <1>2, <1>4, <1>5, <1>6, <1>7, <2>1, <2>2, <2>4, TiedThin
  <2>6. QED
    BY <2>5
<1>9. CASE ~ none
  <2> DEFINE q == Running.env
             f == FirstEnv(q, var, Len(cells) + 1)
  <2>1. NewPass(q, var) /\ env = Len(envs')
    BY <1>9 DEF EnterLoop
  <2>2. ~ Thin(x)
    BY <1>3, <1>9 DEF Thin
  <2> HIDE DEF x, m, p, q, env, none
  <2>3. /\ NewEnv(f) /\ f.parent = q /\ Longer(cells', cells) /\ SlotsFine(cells')
        /\ Binds(f, cells', v) /\ Apiece(f, cells) /\ Held(f) = {var} \ {"none"}
        /\ var # "none" => own(f, var) = Len(cells') /\ ~ v[var].mutable
    <3> HIDE DEF f, v
    <3>1. f = FirstEnv(q, var, Len(cells) + 1) /\ v = L!PassVals(var)
      BY DEF f, v
    <3>2. QED
      BY <1>1, <2>1, <3>1, PassFits
  <2> HIDE DEF f, v
  <2>4. Longer(envs', envs) /\ Len(envs') = Len(envs) + 1 /\ f = envs'[Len(envs')]
    BY <2>3, EnvAdded
  <2>5. Binds(f, cells', s.vals)
    BY <1>5, <2>3
  <2>6. VarFine(x, f, s)
    <3>1. s.vals = v /\ DOMAIN v = Held(f)
      BY <1>5, <2>3 DEF Binds
    <3>2. var # "none" => var \in Held(f) /\ Held(f) = {var}
      BY <2>3
    <3>3. QED
      BY <1>3, <2>2, <2>3, <3>1, <3>2 DEF VarFine
  <2>7. f.parent = stack[m - 1].env /\ x.env = Len(envs') /\ x.kind \in {"block", "loop"}
    BY <1>3, <1>4, <2>1, <2>3 DEF q
  <2>8. QED
    BY <1>2, <1>4, <1>5, <1>6, <1>7, <2>2, <2>3, <2>4, <2>5, <2>6, <2>7, TiedPassed
<1>10. QED
  BY <1>8, <1>9

(* A loop is put on its next pass.                                         *)
LEMMA StackOnto ==
  ASSUME Shape, NEW s, NEW env, NEW A, Onto(A, stack, s, env), Running.kind = "loop"
  PROVE  \E x : /\ StackEnd(A, stack, Len(stack), x)
                /\ x.kind = "loop" /\ x.scope = s /\ x.env = env /\ x.body = Running.body /\ x.var = Running.var
                /\ x.home = Running.home
<1> DEFINE n == Len(stack)
           y == stack[n]
           x == [kind |-> y.kind, scope |-> s, decl |-> y.decl, body |-> y.body, var |-> y.var,
                 env |-> env, home |-> y.home]
<1>1. StackFine(stack, Len(envs)) /\ n \in Nat /\ n \in 1 .. n /\ Running = y
  BY Sizes DEF Shape
<1>2. n # 1
  BY <1>1 DEF StackFine
<1>3. Listed(A) /\ Len(A) = n /\ (\A i \in 1 .. n : i # n => A[i] = stack[i]) /\ A[n] = x
  BY <1>1, OntoIs
<1>4. x.kind = "loop" /\ x.scope = s /\ x.env = env /\ x.body = Running.body /\ x.var = Running.var /\ x.home = Running.home
  BY <1>1
<1> HIDE DEF x, y
<1>5. StackEnd(A, stack, n, x)
  <2>1. n \in Nat
    BY <1>1
  <2> HIDE DEF n
  <2>2. n >= 2 /\ \A d \in 1 .. n - 1 : d \in 1 .. n /\ d # n
    BY <1>1, <1>2, <2>1
  <2>3. n - 1 <= n
    BY <2>1
  <2>4. Len(stack) = n
    BY DEF n
  <2>5. QED
    BY <1>3, <2>1, <2>2, <2>3, <2>4 DEF StackEnd
<1>6. QED
  BY <1>4, <1>5

LEMMA LoopIs ==
  ASSUME Shape, NEW T, NEW F, Tied(T, F), Running.kind = "loop"
  PROVE  /\ Len(stack) \in 2 .. Len(stack) /\ Len(stack) - 1 \in 1 .. Len(stack)
         /\ EntryIs(Running, stack[Len(stack) - 1], envs, scopes, T, F)
         /\ scopes[Running.scope].parent = stack[Len(stack) - 1].scope
         /\ scopes[Running.scope].parent \in 0 .. Len(scopes)
<1> DEFINE n == Len(stack)
<1>1. StackFine(stack, Len(envs)) /\ StackIs(stack, envs, scopes, T, F) /\ n \in Nat /\ n \in 1 .. n /\ Running = stack[n]
  BY Sizes DEF Shape, Tied
<1>2. n # 1
  BY <1>1 DEF StackFine
<1>3. Texts(scopes) /\ Len(scopes) \in Nat
  BY ListIs DEF Tied, Texts
<1>4. n \in 2 .. n /\ n - 1 \in 1 .. n
  <2>1. n \in Nat /\ n \in 1 .. n /\ n # 1
    BY <1>1, <1>2
  <2> HIDE DEF n
  <2>2. QED
    BY <2>1
<1>5. EntryIs(Running, stack[n - 1], envs, scopes, T, F)
  BY <1>1, <1>4 DEF StackIs
<1>6. scopes[Running.scope].parent = stack[n - 1].scope
  BY <1>5 DEF EntryIs
<1>7. Running.scope \in 1 .. Len(scopes)
  BY RunningScope
<1>8. scopes[Running.scope].parent \in 0 .. Running.scope - 1
  BY <1>3, <1>7 DEF Texts, Nested
<1> DEFINE a == Running.scope
<1>9. 0 .. a - 1 \subseteq 0 .. Len(scopes)
  <2>1. a \in 1 .. Len(scopes)
    BY <1>7
  <2> HIDE DEF a
  <2>2. QED
    BY <1>3, <2>1
<1>10. QED
  BY <1>4, <1>5, <1>6, <1>8, <1>9

(* A slot that is written over.                                            *)
Fixed(w) == L!Bound(w, FALSE)
SlotIsSet(B, C, i, w) == B = [C EXCEPT ![i].value = w]

LEMMA SlotOver ==
  ASSUME NEW C, Listed(C), SlotsFine(C), NEW i \in 1 .. Len(C), ~ C[i].mutable, NEW w, NEW B,
         SlotIsSet(B, C, i, w)
  PROVE  /\ SlotsFine(B) /\ Len(B) = Len(C) /\ Len(B) \in Nat /\ B[i] = Fixed(w)
         /\ \A j \in 1 .. Len(C) : j # i => B[j] = C[j]
<1> DEFINE x == C[i]
           no == FALSE
           b == [value |-> w, mutable |-> no]
<1>1. Len(C) \in Nat /\ DOMAIN C = 1 .. Len(C)
  BY ListIs
<1>2. x = [value |-> x.value, mutable |-> x.mutable] /\ x.mutable = no
  BY DEF SlotsFine
<1>3. B = [C EXCEPT ![i] = [x EXCEPT !.value = w]]
  BY DEF SlotIsSet
<1>4. Fixed(w) = b /\ b.mutable \in BOOLEAN /\ b = [value |-> b.value, mutable |-> b.mutable]
  BY DEF L!Bound, Fixed
<1> HIDE DEF x, no
<1>5. [x EXCEPT !.value = w] = b
  <2>1. x = [value |-> x.value, mutable |-> no]
    BY <1>2
  <2>2. QED
    BY <2>1
<1> HIDE DEF b
<1>6. B = [C EXCEPT ![i] = b]
  BY <1>3, <1>5
<1>7. Len(B) = Len(C) /\ B[i] = b /\ \A j \in 1 .. Len(C) : j # i => B[j] = C[j]
  BY <1>6, ListSet
<1>8. SlotsFine(B)
  <2>1. Len(B) \in Nat /\ i \in 1 .. Len(B) /\ \A j \in 1 .. Len(B) : j # i => j \in 1 .. Len(C) /\ B[j] = C[j]
    BY <1>1, <1>7
  <2>2. QED
    BY <1>4, <1>7, <2>1, SlotsWritten
<1>9. QED
  BY <1>1, <1>4, <1>7, <1>8

(* A pass in the Env of the one before.                                    *)
Writable(C, var, i) == var # "none" => i \in 1 .. Len(C) /\ ~ C[i].mutable
Rewrites(C, B, var, home, w) == B = IF var = "none" THEN C ELSE [C EXCEPT ![home].value = w]

LEMMA RewritesIs ==
  ASSUME NEW C, Listed(C), SlotsFine(C), NEW var, NEW i, Writable(C, var, i), NEW w, NEW B,
         Rewrites(C, B, var, i, w)
  PROVE  /\ SlotsFine(B) /\ Len(B) = Len(C) /\ (var # "none" => B[i] = Fixed(w))
         /\ \A j \in 1 .. Len(C) : var = "none" \/ j # i => B[j] = C[j]
<1>1. CASE var = "none"
  BY <1>1 DEF Rewrites
<1>2. CASE var # "none"
  <2>1. SlotIsSet(B, C, i, w) /\ i \in 1 .. Len(C) /\ ~ C[i].mutable
    BY <1>2 DEF Rewrites, SlotIsSet, Writable
  <2>2. /\ SlotsFine(B) /\ Len(B) = Len(C) /\ Len(B) \in Nat /\ B[i] = Fixed(w)
        /\ \A j \in 1 .. Len(C) : j # i => B[j] = C[j]
    BY <2>1, SlotOver
  <2>3. QED
    BY <1>2, <2>2
<1>3. QED
  BY <1>1, <1>2

Refills(E, D, r, var, home) ==
  /\ Len(D) = Len(E) /\ \A e \in 1 .. Len(E) : e # r => D[e] = E[e]
  /\ D[r].parent = E[r].parent /\ Held(D[r]) = {var} \ {"none"} /\ (var # "none" => own(D[r], var) = home)

LEMMA RefillEnters ==
  ASSUME NEW E, Len(E) \in Nat, NEW C, Listed(C), SlotsFine(C), NEW Z, NEW T, Match(E, C, Z, T), Distinct(E),
         NEW r \in 1 .. Len(E), NEW var, NEW i, var # "none" => var \in Held(E[r]) /\ own(E[r], var) = i /\ ~ C[i].mutable,
         NEW D, Refills(E, D, r, var, i), NEW B, NEW w, Rewrites(C, B, var, i, w), NEW v,
         DOMAIN v = {var} \ {"none"}, var # "none" => v[var] = Fixed(w),
         NEW U, NEW M, Moves(U, T, Len(E), r, M)
  PROVE  Enters(E, C, T, D, B, U, r, M, v)
<1>1. \A e \in 1 .. Len(E) : \A m \in Held(E[e]) : own(E[e], m) \in 1 .. Len(C)
  BY DEF Match, Binds
<1>2. Writable(C, var, i) /\ (var # "none" => i \in 1 .. Len(C))
  BY <1>1 DEF Writable
<1>3. /\ Len(B) = Len(C) /\ (var # "none" => B[i] = Fixed(w))
      /\ \A j \in 1 .. Len(C) : var = "none" \/ j # i => B[j] = C[j]
  BY <1>2, RewritesIs
<1>4. ASSUME NEW e \in 1 .. Len(E), e # r, NEW m \in Held(E[e]) PROVE var = "none" \/ own(E[e], m) # i
  BY <1>4, OnePlace
<1>5. \A n \in Held(D[r]) : n = var /\ var # "none" /\ own(D[r], n) = i
  BY DEF Refills
<1>6. Binds(D[r], B, v)
  BY <1>2, <1>3, <1>5 DEF Binds, Refills
<1>7. Len(E) <= Len(D) /\ r \in 1 .. Len(D) /\ U[r] = M
  BY DEF Refills, Moves
<1>8. \A e \in 1 .. Len(D) : e # r => e \in 1 .. Len(E) /\ D[e] = E[e] /\ U[e] = T[e]
  BY DEF Refills, Moves
<1>9. ASSUME NEW e \in 1 .. Len(E), e # r, NEW m \in Held(E[e])
      PROVE  /\ own(E[e], m) \in 1 .. Len(B) /\ B[own(E[e], m)] = C[own(E[e], m)]
             /\ \A n \in Held(D[r]) : own(D[r], n) # own(E[e], m)
  BY <1>1, <1>3, <1>4, <1>5, <1>9
<1>10. QED
  BY <1>5, <1>6, <1>7, <1>8, <1>9 DEF Enters

(* What the loop that runs has for its variable.                           *)
LEMMA LoopVarIs ==
  ASSUME Shape, NEW T, NEW F, Tied(T, F), Running.kind = "loop", Rewritten(Running)
  PROVE  /\ T[Running.env] = Running.scope /\ Running.env \notin F
         /\ Running.var # "none" =>
              Running.var \in Held(envs[Running.env]) /\ own(envs[Running.env], Running.var) = Running.home
              /\ Running.home \in 1 .. Len(cells) /\ ~ cells[Running.home].mutable
         /\ Running.body = "bare" => Held(envs[Running.env]) = {Running.var}
         /\ \A d \in 1 .. Len(stack) - 1 : stack[d].env # Running.env
         /\ \A d \in Decls : \A k \in DOMAIN pool[d].envs : pool[d].envs[k] # Running.env
<1> DEFINE r == Running.env
           n == Len(stack)
           y == stack[n - 1]
           x == Running
<1>1. EntryIs(x, y, envs, scopes, T, F)
  BY LoopIs
<1>2. /\ StackFine(stack, Len(envs)) /\ StackIs(stack, envs, scopes, T, F) /\ Stands(T, Len(envs), Len(scopes))
      /\ Match(envs, cells, scopes, T) /\ Len(scopes) \in Nat /\ x = stack[n] /\ n \in 1 .. n /\ r \in 1 .. Len(envs)
      /\ FramesFine(pool, envs, scopes, T, F, stack)
  BY Sizes, ListIs DEF Tied, Shape, Texts
<1>3. ~ Thin(x)
  BY DEF Rewritten
<1>4. T[r] = x.scope /\ r \notin F
  BY <1>1, <1>3 DEF EntryIs
<1>5. VarFine(x, envs[r], scopes[T[r]])
  BY <1>1, <1>4 DEF EntryIs
<1>6. Binds(envs[r], cells, scopes[T[r]].vals)
  BY <1>2 DEF Match
<1>7. x.var # "none" =>
              /\ x.var \in Held(envs[r]) /\ own(envs[r], x.var) = x.home
              /\ x.home \in 1 .. Len(cells) /\ ~ cells[x.home].mutable
              /\ x.body = "bare" => Held(envs[r]) = {x.var}
  <2> HIDE DEF x, r
  <2>1. QED
    BY <1>5, <1>6 DEF VarFine, Binds, x
<1>8. x.body = "bare" => x.var # "none"
  BY <1>3 DEF Thin
<1>9. T[stack[n].env] = stack[n].scope
  BY <1>2, <1>4
<1>10. \A d \in 1 .. n - 1 : stack[d].env # stack[n].env
  <2>1. n = Len(stack)
    OBVIOUS
  <2> HIDE DEF n
  <2>2. QED
    BY <1>2, <1>9, <2>1, TopAlone
<1>11. ASSUME NEW d \in Decls, NEW k \in DOMAIN pool[d].envs PROVE pool[d].envs[k] # r
  <2>1. Above(stack, pool[d].envs[k], k)
    BY <1>2 DEF FramesFine, FrameFine
  <2>2. QED
    BY <1>2, <1>3, <2>1 DEF Above
<1>12. QED
  BY <1>2, <1>4, <1>7, <1>8, <1>10, <1>11

LEMMA TiedRefilled ==
  ASSUME Shape, NEW T, NEW F, Tied(T, F), Running.kind = "loop", Rewritten(Running),
         NEW p, p = scopes[Running.scope].parent, NEW v, v = L!PassVals(Running.var), L!NewScope(p, v),
         Onto(stack', stack, Len(scopes'), Running.env), Refills(envs, envs', Running.env, Running.var, Running.home),
         Rewrites(cells, cells', Running.var, Running.home, L!Newest), UNCHANGED <<closures, pool, escapes, simple>>
  PROVE  \E U, G : Tied(U, G)'
<1> DEFINE r == Running.env
           n == Len(stack)
           y == stack[n - 1]
           var == Running.var
           home == Running.home
           w == L!Newest
           s == scopes'[Len(scopes')]
<1>1. /\ n \in 2 .. n /\ n - 1 \in 1 .. n /\ EntryIs(Running, y, envs, scopes, T, F)
      /\ p = y.scope /\ p \in 0 .. Len(scopes)
  BY LoopIs
<1>2. Grown(scopes', scopes) /\ s.parent = p /\ s.vals = v
  BY <1>1, TextsGrown
<1>3. PICK x : /\ StackEnd(stack', stack, n, x)
               /\ x.kind = "loop" /\ x.scope = Len(scopes') /\ x.env = r /\ x.body = Running.body /\ x.var = var
               /\ x.home = home
  <2> DEFINE M == Len(scopes')
             A == stack'
  <2>1. Onto(A, stack, M, r)
    OBVIOUS
  <2> HIDE DEF M, A, r, n, var, home
  <2>2. \E x : /\ StackEnd(A, stack, Len(stack), x)
                /\ x.kind = "loop" /\ x.scope = M /\ x.env = r /\ x.body = Running.body /\ x.var = Running.var
                /\ x.home = Running.home
    BY <2>1, StackOnto
  <2>3. QED
    BY <2>2 DEF M, A, n, var, home
<1>4. /\ T[r] = Running.scope /\ r \notin F
      /\ var # "none" => /\ var \in Held(envs[r]) /\ own(envs[r], var) = home
                         /\ home \in 1 .. Len(cells) /\ ~ cells[home].mutable
      /\ \A d \in 1 .. n - 1 : stack[d].env # r
      /\ \A d \in Decls : \A k \in DOMAIN pool[d].envs : pool[d].envs[k] # r
  BY LoopVarIs
<1>5. PICK U : Moves(U, T, Len(envs), r, Len(scopes'))
  BY SomeMoves
<1>6. DOMAIN v = {var} \ {"none"} /\ (var # "none" => v[var] = Fixed(w)) /\ ~ Fixed(w).mutable
  <2>1. CASE var = "none"
    <3>1. v = <<>>
      BY <2>1 DEF L!PassVals
    <3>2. DOMAIN v = {} /\ ~ Fixed(w).mutable
      BY <3>1 DEF Fixed, L!Bound
    <3>3. QED
      BY <2>1, <3>2
  <2>2. CASE var # "none"
    <3>1. v = [m \in {var} |-> Fixed(w)] /\ ~ Fixed(w).mutable
      BY <2>2 DEF L!PassVals, Fixed, L!Bound
    <3> HIDE DEF w, var
    <3>2. QED
      BY <2>2, <3>1
  <2>3. QED
    BY <2>1, <2>2
<1>7. /\ Match(envs, cells, scopes, T) /\ Distinct(envs) /\ Listed(cells) /\ SlotsFine(cells)
      /\ r \in 1 .. Len(envs) /\ Len(envs) \in Nat /\ MakersFine(escapes, simple, closures)
      /\ StackFine(stack, Len(envs))
  BY Sizes DEF Tied, Shape
<1>8. Refills(envs, envs', r, var, home) /\ Rewrites(cells, cells', var, home, w)
  OBVIOUS
<1> HIDE DEF r, w, var, home, s
<1>9. Enters(envs, cells, T, envs', cells', U, r, Len(scopes'), v)
  BY <1>4, <1>5, <1>6, <1>7, <1>8, RefillEnters
<1>10. SlotsFine(cells')
  <2>1. Writable(cells, var, home)
    BY <1>4 DEF Writable
  <2>2. QED
    BY <1>7, <1>8, <2>1, RewritesIs
<1>11. Firms(F, F, r, envs', T, p)
  BY <1>4 DEF Firms
<1>12. Rewritten(x) /\ ~ Thin(x)
  BY <1>3 DEF Rewritten, Thin, var
<1> HIDE DEF y, n
<1>13. EntryIs(x, y, envs', scopes', U, F)
  <2>1. U[x.env] = x.scope /\ scopes'[x.scope] = s /\ envs[r].parent = y.env
    BY <1>1, <1>3, <1>5, <1>12 DEF Moves, EntryIs, s, r, Rewritten
  <2>2. envs'[x.env].parent = y.env
    BY <1>3, <1>8, <2>1 DEF Refills
  <2>3. VarFine(x, envs'[x.env], s)
    <3>1. DOMAIN s.vals = {var} \ {"none"} /\ (var # "none" => s.vals[var] = Fixed(w))
      BY <1>2, <1>6
    <3>2. Held(envs'[r]) = {var} \ {"none"} /\ (var # "none" => own(envs'[r], var) = home)
      BY <1>8 DEF Refills
    <3>3. QED
      BY <1>3, <1>6, <1>12, <3>1, <3>2 DEF VarFine
  <2>4. x.kind # "call" /\ ~ Making(x)
    BY <1>3, <1>12 DEF Rewritten, Making
  <2>5. QED
    BY <1>1, <1>2, <1>3, <1>4, <1>12, <2>1, <2>2, <2>3, <2>4 DEF EntryIs
<1>14. FramesFine(pool, envs', scopes', U, F, stack')
  <2> SUFFICES ASSUME NEW d \in Decls, NEW k \in DOMAIN pool[d].envs
               PROVE  FrameFine(pool[d].envs[k], k, d, pool[d].closure, envs', scopes', U, F, stack')
    BY DEF FramesFine
  <2> DEFINE e == pool[d].envs[k]
  <2>1. e # r
    BY <1>4
  <2>2. e = pool[d].envs[k] /\ x.env = r
    BY <1>3
  <2> HIDE DEF e
  <2>3. FrameFine(e, k, d, pool[d].closure, envs', scopes', U, F, stack')
    BY <1>2, <1>3, <1>9, <1>11, <2>1, <2>2, FrameStays
  <2>4. QED
    BY <2>3 DEF e
<1>15. MakersFine(escapes', simple', closures') /\ FramesFine(pool', envs', scopes', U, F, stack') /\ closures' = closures
  BY <1>7, <1>14
<1>16. p = scopes'[Len(scopes')].parent /\ scopes'[Len(scopes')].vals = v
  BY <1>2 DEF s
<1>17. EntryIs(x, stack[n - 1], envs', scopes', U, F)
  BY <1>13 DEF y
<1>18. Tied(U, F)'
  BY <1>2, <1>3, <1>4, <1>9, <1>10, <1>11, <1>15, <1>16, <1>17, TiedEntered
<1>19. QED
  BY <1>18

LEMMA PassMade ==
  ASSUME Shape, NEW T, NEW F, Tied(T, F), NextPass, Running.body = "making"
  PROVE  \E U, G : Tied(U, G)'
<1> DEFINE n == Len(stack)
           y == stack[n - 1]
           var == Running.var
           q == y.env
           p == scopes[Running.scope].parent
           v == L!PassVals(var)
           s == scopes'[Len(scopes')]
           f == FirstEnv(q, var, Len(cells) + 1)
<1>1. /\ Running.kind = "loop" /\ NewPass(q, var) /\ L!NewScope(p, v)
      /\ UNCHANGED <<closures, pool, escapes, simple>>
  BY DEF NextPass, Calling
<1>2. Onto(stack', stack, Len(scopes'), Len(envs'))
  BY DEF NextPass, Onto
<1>3. p = y.scope /\ p \in 0 .. Len(scopes)
  BY <1>1, LoopIs
<1>4. Grown(scopes', scopes) /\ s.parent = p /\ s.vals = v
  <2> HIDE DEF p, v
  <2>1. QED
    BY <1>1, <1>3, TextsGrown
<1>5. var \in Names \cup {"none"}
  BY Sizes
<1>6. PICK x : /\ StackEnd(stack', stack, n, x)
               /\ x.kind = "loop" /\ x.scope = Len(scopes') /\ x.env = Len(envs') /\ x.body = Running.body /\ x.var = var
  <2> DEFINE M == Len(scopes')
             N == Len(envs')
             A == stack'
  <2>1. Onto(A, stack, M, N)
    BY <1>2
  <2> HIDE DEF M, A, N, n, var
  <2>2. \E x : /\ StackEnd(A, stack, Len(stack), x)
                /\ x.kind = "loop" /\ x.scope = M /\ x.env = N /\ x.body = Running.body /\ x.var = Running.var
                /\ x.home = Running.home
    BY <1>1, <2>1, StackOnto
  <2>3. QED
    BY <2>2 DEF M, A, N, n, var
<1>7. /\ NewEnv(f) /\ f.parent = q /\ Longer(cells', cells) /\ SlotsFine(cells')
      /\ Binds(f, cells', v) /\ Apiece(f, cells)
  <2> HIDE DEF f, v, q, var
  <2>1. f = FirstEnv(q, var, Len(cells) + 1) /\ v = L!PassVals(var)
    BY DEF f, v
  <2>2. QED
    BY <1>1, <1>5, <2>1, PassFits
<1> HIDE DEF f, v, p, q, var
<1>8. Longer(envs', envs) /\ Len(envs') = Len(envs) + 1 /\ f = envs'[Len(envs')]
  BY <1>7, EnvAdded
<1>9. ~ Thin(x) /\ VarFine(x, f, s) /\ x.kind \in {"block", "loop"}
  BY <1>6 DEF Thin, VarFine, Rewritten
<1>10. f.parent = stack[n - 1].env /\ s.parent = stack[n - 1].scope
  BY <1>3, <1>4, <1>7 DEF q
<1>11. Binds(f, cells', s.vals)
  BY <1>4, <1>7
<1> HIDE DEF n
<1>12. QED
  BY <1>1, <1>4, <1>6, <1>7, <1>8, <1>9, <1>10, <1>11, TiedPassed

LEMMA PassThin ==
  ASSUME Shape, NEW T, NEW F, Tied(T, F), NextPass, Running.body = "bare", Running.var = "none"
  PROVE  \E U, G : Tied(U, G)'
<1> DEFINE n == Len(stack)
           y == stack[n - 1]
           p == scopes[Running.scope].parent
           v == <<>>
           s == scopes'[Len(scopes')]
<1>1. /\ Running.kind = "loop" /\ L!NewScope(p, v) /\ UNCHANGED <<envs, cells, closures, pool, escapes, simple>>
  BY DEF NextPass, Calling, L!PassVals
<1>2. Onto(stack', stack, Len(scopes'), Running.env)
  BY DEF NextPass, Onto
<1>3. p = y.scope /\ p \in 0 .. Len(scopes) /\ EntryIs(Running, y, envs, scopes, T, F)
  BY <1>1, LoopIs
<1>4. DOMAIN v = {}
  OBVIOUS
<1>5. Grown(scopes', scopes) /\ s.parent = p /\ s.vals = v
  <2> HIDE DEF p, v
  <2>1. QED
    BY <1>1, <1>3, TextsGrown
<1> HIDE DEF v
<1>6. Running.env = y.env
  <2>1. Thin(Running)
    BY <1>1 DEF Thin
  <2>2. QED
    BY <1>3, <2>1 DEF EntryIs
<1>7. PICK x : /\ StackEnd(stack', stack, n, x)
               /\ x.kind = "loop" /\ x.scope = Len(scopes') /\ x.env = Running.env /\ x.body = Running.body
               /\ x.var = Running.var
  <2> DEFINE M == Len(scopes')
             A == stack'
             r == Running.env
  <2>1. Onto(A, stack, M, r)
    BY <1>2
  <2> HIDE DEF M, A, r, n
  <2>2. \E x : /\ StackEnd(A, stack, Len(stack), x)
                /\ x.kind = "loop" /\ x.scope = M /\ x.env = r /\ x.body = Running.body /\ x.var = Running.var
                /\ x.home = Running.home
    BY <1>1, <2>1, StackOnto
  <2>3. QED
    BY <2>2 DEF M, A, n, r
<1>8. Thin(x) /\ x.env = stack[n - 1].env /\ s.parent = stack[n - 1].scope
  BY <1>3, <1>5, <1>6, <1>7 DEF Thin
<1>9. DOMAIN scopes'[Len(scopes')].vals = {}
  BY <1>4, <1>5
<1> HIDE DEF n, p
<1>10. Tied(T, F)'
  BY <1>1, <1>5, <1>7, <1>8, <1>9, TiedThin
<1>11. QED
  BY <1>10

LEMMA TiedNextPass ==
  ASSUME Shape, NEW T, NEW F, Tied(T, F), NextPass
  PROVE  \E U, G : Tied(U, G)'
<1> DEFINE var == Running.var
           r == Running.env
           e == envs[r]
           p == scopes[Running.scope].parent
           v == L!PassVals(var)
           home == Running.home
<1>1. /\ Running.kind = "loop" /\ L!NewScope(p, v) /\ UNCHANGED <<closures, pool, escapes, simple>>
      /\ Running.body \in {"making", "binding", "bare"}
  BY DEF NextPass, Calling
<1>2. /\ r \in 1 .. Len(envs) /\ Len(envs) \in Nat /\ var \in Names \cup {"none"} /\ home \in Nat
      /\ EnvsFine(envs) /\ IsEnv(e)
  BY Sizes DEF Shape, EnvsFine
<1>3. ASSUME Running.body # "making", Rewritten(Running) PROVE \E U, G : Tied(U, G)'
  <2>1. Onto(stack', stack, Len(scopes'), r)
    BY <1>3 DEF NextPass, Onto
  <2>2. Rewrites(cells, cells', var, home, L!Newest)
    BY <1>3 DEF NextPass, Rewrites
  <2>3. Refills(envs, envs', r, var, home)
    <3>1. CASE Running.body = "bare"
      <4>1. envs' = envs /\ var # "none"
        BY <1>3, <3>1 DEF NextPass, Rewritten, Thin
      <4>2. /\ var \in Held(e) /\ own(e, var) = home /\ Held(e) = {var}
        BY <1>1, <1>3, <3>1, <4>1, LoopVarIs
      <4>3. Held(e) = {var} \ {"none"}
        BY <4>1, <4>2
      <4>4. QED
        BY <4>1, <4>2, <4>3 DEF Refills
    <3>2. CASE Running.body = "binding"
      <4> DEFINE clean == clearVars(e)
                 f == IF var = "none" THEN clean ELSE putSlot(clean, var, home)
      <4>1. envs' = [envs EXCEPT ![r] = f]
        BY <3>2 DEF NextPass
      <4>2. IsEnv(clean) /\ Held(clean) = {} /\ clean.parent = e.parent
        <5> HIDE DEF e
        <5>1. QED
          BY <1>2, ClearIs
      <4> HIDE DEF clean, e
      <4>3. f.parent = e.parent /\ Held(f) = {var} \ {"none"} /\ (var # "none" => own(f, var) = home)
        <5>1. CASE var = "none"
          <6>1. f = clean
            BY <5>1
          <6> HIDE DEF f
          <6>2. QED
            BY <4>2, <5>1, <6>1
        <5>2. CASE var # "none"
          <6>1. f = putSlot(clean, var, home) /\ var \in Names
            BY <1>2, <5>2
          <6>2. IsEnv(clean) /\ home \in Nat
            BY <1>2, <4>2
          <6> HIDE DEF f, var, home
          <6>3. f.parent = clean.parent /\ Held(f) = Held(clean) \cup {var} /\ own(f, var) = home
            BY <6>1, <6>2, PutIs
          <6>4. QED
            BY <4>2, <5>2, <6>3
        <5>3. QED
          BY <5>1, <5>2
      <4> HIDE DEF f, r
      <4>4. Len(envs') = Len(envs) /\ envs'[r] = f /\ \A i \in 1 .. Len(envs) : i # r => envs'[i] = envs[i]
        BY <1>2, <4>1, ListSet DEF EnvsFine
      <4>5. QED
        BY <4>3, <4>4 DEF Refills, e
    <3>3. QED
      BY <1>1, <1>3, <3>1, <3>2
  <2>4. p = scopes[Running.scope].parent /\ v = L!PassVals(Running.var)
    OBVIOUS
  <2> HIDE DEF p, v
  <2>5. QED
    BY <1>1, <1>3, <2>1, <2>2, <2>3, <2>4, TiedRefilled
<1>4. CASE Running.body = "making"
  BY <1>4, PassMade
<1>5. CASE Running.body # "making" /\ Thin(Running)
  BY <1>5, PassThin DEF Thin
<1>6. CASE Running.body # "making" /\ ~ Thin(Running)
  <2>1. Rewritten(Running)
    BY <1>1, <1>6 DEF Rewritten
  <2>2. QED
    BY <1>3, <1>6, <2>1
<1>7. QED
  BY <1>4, <1>5, <1>6

-----------------------------------------------------------------------------
(* Calls. *)

Argument(i) == L!Bound(writes + i, FALSE)

LEMMA ArgumentIs ==
  \A i : /\ Argument(i) = [value |-> writes + i, mutable |-> FALSE]
         /\ Argument(i) = [value |-> Argument(i).value, mutable |-> Argument(i).mutable]
         /\ Argument(i).mutable \in BOOLEAN /\ ~ Argument(i).mutable
  BY DEF Argument, L!Bound

LEMMA ArgumentsAre ==
  ASSUME NEW d \in Decls, NEW v, v = L!Arguments(d)
  PROVE  /\ DOMAIN v = ParamNames(d)
         /\ \A i \in 1 .. Len(Params[d]) : v[Params[d][i]] = Argument(i)
<1> DEFINE s == Params[d]
           at(n) == CHOOSE i \in DOMAIN s : s[i] = n
<1>1. s \in Seq(Names) /\ \A i, j \in DOMAIN s : s[i] = s[j] => i = j
  BY ParamsAre
<1>2. DOMAIN s = 1 .. Len(s)
  BY <1>1
<1>3. L!ToSet(s) = ParamNames(d)
  BY <1>2 DEF L!ToSet, ParamNames
<1>4. v = [n \in ParamNames(d) |-> Argument(at(n))]
  BY <1>3 DEF L!Arguments, Argument
<1>5. \A i \in 1 .. Len(s) : s[i] \in ParamNames(d)
  BY DEF ParamNames
<1>6. ASSUME NEW i \in 1 .. Len(s) PROVE at(s[i]) = i
  <2>1. \E j \in DOMAIN s : s[j] = s[i]
    BY <1>2
  <2>2. at(s[i]) \in DOMAIN s /\ s[at(s[i])] = s[i]
    BY <2>1
  <2> HIDE DEF at
  <2>3. QED
    BY <1>1, <1>2, <2>2
<1> HIDE DEF at
<1>7. QED
  BY <1>4, <1>5, <1>6

(* A frame that is new, with what the call was given.                      *)
LEMMA FreshFits ==
  ASSUME Shape, NEW T, NEW F, Tied(T, F), NEW c \in 1 .. Len(closures), FreshFrame(c), NEW d, d = closures[c].decl,
         NEW v, v = L!Arguments(d), NEW f, f = NewFrame(c)
  PROVE  /\ NewEnv(f) /\ f.parent = closures[c].env /\ Longer(cells', cells) /\ SlotsFine(cells')
         /\ Binds(f, cells', v) /\ Apiece(f, cells)
<1> DEFINE s == Params[d]
           C == Len(cells)
<1>1. /\ d \in Decls /\ NewEnv(f) /\ f.parent = closures[c].env /\ Held(f) = ParamNames(d)
      /\ \A i \in 1 .. Len(s) : own(f, s[i]) = C + i
      /\ Listed(cells') /\ Len(cells') = C + Len(s) /\ \A i \in 1 .. C : cells'[i] = cells[i]
      /\ \A i \in 1 .. Len(s) : cells'[C + i] = [value |-> writes + i, mutable |-> FALSE]
  BY FreshIs
<1>2. DOMAIN v = ParamNames(d) /\ \A i \in 1 .. Len(s) : v[s[i]] = Argument(i)
  BY <1>1, ArgumentsAre
<1>3. s \in Seq(Names) /\ Len(s) \in Nat /\ \A i, j \in 1 .. Len(s) : s[i] = s[j] => i = j
  BY <1>1, ParamsAre
<1>4. C \in Nat /\ SlotsFine(cells)
  BY Sizes DEF Tied
<1>5. \A i \in 1 .. Len(s) : cells'[C + i] = Argument(i)
  BY <1>1, ArgumentIs
<1>6. \A n \in Held(f) : \E i \in 1 .. Len(s) : n = s[i] /\ own(f, n) = C + i
  BY <1>1 DEF ParamNames
<1> HIDE DEF s, C
<1>7. \A i \in 1 .. Len(s) : C + i \in 1 .. Len(cells') /\ C + i \notin 1 .. C
  BY <1>1, <1>3, <1>4
<1>8. Longer(cells', cells)
  BY <1>1, <1>3, <1>4 DEF Longer, C
<1>9. SlotsFine(cells')
  <2> SUFFICES ASSUME NEW j \in 1 .. Len(cells')
               PROVE  cells'[j] = [value |-> cells'[j].value, mutable |-> cells'[j].mutable] /\ cells'[j].mutable \in BOOLEAN
    BY DEF SlotsFine
  <2>1. CASE j \in 1 .. C
    BY <1>1, <1>4, <2>1 DEF SlotsFine, C
  <2>2. CASE j \notin 1 .. C
    <3>1. j - C \in 1 .. Len(s) /\ C + (j - C) = j
      BY <1>1, <1>3, <1>4, <2>2
    <3>2. cells'[j] = Argument(j - C)
      BY <1>5, <3>1
    <3>3. QED
      BY <3>2, ArgumentIs
  <2>3. QED
    BY <2>1, <2>2
<1>10. Binds(f, cells', v)
  BY <1>1, <1>2, <1>5, <1>6, <1>7 DEF Binds
<1>11. Apiece(f, cells)
  <2>1. \A i, j \in 1 .. Len(s) : C + i = C + j => i = j
    BY <1>3, <1>4
  <2>2. \A n \in Held(f) : own(f, n) \notin 1 .. C
    BY <1>6, <1>7
  <2>3. ASSUME NEW n \in Held(f), NEW m \in Held(f), own(f, n) = own(f, m) PROVE n = m
    <3>1. PICK i \in 1 .. Len(s) : n = s[i] /\ own(f, n) = C + i
      BY <1>6
    <3>2. PICK j \in 1 .. Len(s) : m = s[j] /\ own(f, m) = C + j
      BY <1>6
    <3>3. QED
      BY <2>1, <2>3, <3>1, <3>2
  <2>4. QED
    BY <2>2, <2>3 DEF Apiece, C
<1>12. QED
  BY <1>1, <1>8, <1>9, <1>10, <1>11

(* What holds of a call's entry x, in Env r.                               *)
LEMMA CallIs ==
  ASSUME NEW x, x.kind = "call", NEW y, NEW E, NEW Z, NEW T, NEW F, T[x.env] = x.scope,
         E[x.env].parent \in F, T[E[x.env].parent] = Z[x.scope].parent, x.decl \in Makers => x.env \in F
  PROVE  EntryIs(x, y, E, Z, T, F)
BY DEF EntryIs, VarFine, Thin, Making, Rewritten

LEMMA CallEntryIn ==
  ASSUME NEW s, NEW d, NEW env, NEW x, x = In(L!Entry("call", s, d), env, 0)
  PROVE  x.kind = "call" /\ x.scope = s /\ x.decl = d /\ x.env = env
BY DEF In, L!Entry

(* A call in a frame that is new.                                          *)
FreshCall(c, d, v, x, r) ==
  /\ FreshFrame(c) /\ d = closures[c].decl /\ v = L!Arguments(d) /\ L!NewScope(closures[c].scope, v)
  /\ Push(L!Entry("call", Len(scopes'), d), Len(envs'), 0)
  /\ x = In(L!Entry("call", Len(scopes'), d), Len(envs'), 0) /\ r = Len(envs')

FreshEnd(T, F, U, G, c, v, m, x, r) ==
  /\ Grown(scopes', scopes) /\ Enters(envs, cells, T, envs', cells', U, r, Len(scopes'), v)
  /\ scopes'[Len(scopes')].vals = v /\ Firms(G, F, r, envs', T, scopes'[Len(scopes')].parent)
  /\ StackEnd(stack', stack, m, x) /\ x.scope = Len(scopes') /\ x.env = r /\ x.kind = "call"
  /\ \A b \in 1 .. m - 1 : stack[b].env # r
  /\ EntryIs(x, stack[m - 1], envs', scopes', U, G)
  /\ SlotsFine(cells') /\ r \notin 1 .. Len(envs) /\ envs'[r].parent = closures[c].env

LEMMA FreshEntered ==
  ASSUME Shape, NEW T, NEW F, Tied(T, F), NEW c \in 1 .. Len(closures), NEW d, NEW v, NEW x, NEW r, FreshCall(c, d, v, x, r),
         NEW U, Moves(U, T, Len(envs), r, Len(scopes')),
         NEW G, (G = F /\ d \notin Makers) \/ G = F \cup {r},
         NEW m, m = Len(stack) + 1
  PROVE  FreshEnd(T, F, U, G, c, v, m, x, r)
<1> DEFINE M == Len(scopes')
           entry == L!Entry("call", M, d)
           f == NewFrame(c)
           p == closures[c].scope
           e == closures[c].env
<1>1. /\ Match(envs, cells, scopes, T) /\ Firm(F, T, envs, scopes) /\ KeptFine(closures, T, F)
      /\ Stands(T, Len(envs), Len(scopes)) /\ StackFine(stack, Len(envs)) /\ Len(envs) \in Nat /\ Len(stack) \in Nat
      /\ ClosuresFine(closures, Len(envs)) /\ Len(scopes) \in Nat
  BY Sizes, ListIs DEF Tied, Shape, Texts
<1>2. e \in F /\ T[e] = p /\ e \in 1 .. Len(envs) /\ p \in 1 .. Len(scopes)
  BY <1>1 DEF KeptFine, ClosuresFine, Stands
<1>3. Grown(scopes', scopes) /\ scopes'[M].parent = p /\ scopes'[M].vals = v
  <2>1. p \in 0 .. Len(scopes) /\ L!NewScope(p, v)
    BY <1>1, <1>2 DEF FreshCall
  <2> HIDE DEF p
  <2>2. QED
    BY <2>1, TextsGrown
<1>4. x.kind = "call" /\ x.scope = M /\ x.decl = d /\ x.env = r
  BY CallEntryIn DEF FreshCall
<1>5. StackEnd(stack', stack, m, x) /\ m - 1 = Len(stack)
  <2>1. Push(entry, Len(envs'), 0) /\ x = In(entry, Len(envs'), 0)
    BY DEF FreshCall
  <2> HIDE DEF entry
  <2>2. QED
    BY <2>1, StackPushed
<1>6. /\ NewEnv(f) /\ f.parent = e /\ Longer(cells', cells) /\ SlotsFine(cells')
      /\ Binds(f, cells', v) /\ Apiece(f, cells)
  <2> HIDE DEF f
  <2>1. f = NewFrame(c) /\ FreshFrame(c) /\ d = closures[c].decl /\ v = L!Arguments(d)
    BY DEF f, FreshCall
  <2>2. QED
    BY <2>1, FreshFits
<1> HIDE DEF f
<1>7. Longer(envs', envs) /\ Len(envs') = Len(envs) + 1 /\ envs'[r] = f /\ r = Len(envs')
  BY <1>6, EnvAdded DEF FreshCall
<1>8. r \notin 1 .. Len(envs)
  BY <1>1, <1>7
<1>9. r \notin F
  BY <1>1, <1>8 DEF Firm
<1>10. Enters(envs, cells, T, envs', cells', U, r, M, v)
  <2>1. Binds(envs'[r], cells', v) /\ Apiece(envs'[r], cells)
    BY <1>6, <1>7
  <2> HIDE DEF M
  <2>2. QED
    BY <1>1, <1>6, <1>7, <2>1, NewEnters DEF M
<1>11. Firms(G, F, r, envs', T, scopes'[M].parent)
  BY <1>2, <1>3, <1>6, <1>7, <1>9 DEF Firms
<1>12. \A b \in 1 .. m - 1 : stack[b].env # r
  BY <1>1, <1>5, <1>8 DEF StackFine, EntryFine
<1>13. EntryIs(x, stack[m - 1], envs', scopes', U, G)
  <2>1. U[r] = M /\ U[e] = T[e]
    BY <1>2, <1>8 DEF Moves
  <2>2. U[x.env] = x.scope /\ envs'[x.env].parent \in G /\ U[envs'[x.env].parent] = scopes'[x.scope].parent
    BY <1>2, <1>3, <1>4, <1>6, <1>7, <2>1
  <2>3. x.decl \in Makers => x.env \in G
    BY <1>4
  <2>4. QED
    BY <1>4, <2>2, <2>3, CallIs
<1>14. envs'[r].parent = e
  BY <1>6, <1>7
<1>15. QED
  BY <1>3, <1>4, <1>5, <1>6, <1>8, <1>10, <1>11, <1>12, <1>13, <1>14 DEF FreshEnd

(* A frame that stays: the function makes functions, or the pool gave up.  *)
LEMMA TiedKeeps ==
  ASSUME Shape, NEW T, NEW F, Tied(T, F), NEW c \in 1 .. Len(closures), Unpools(c) \/ Keeps(c),
         L!NewScope(closures[c].scope, L!Arguments(closures[c].decl)), closures' = closures,
         MakersFine(escapes', simple', closures')
  PROVE  \E U, G : Tied(U, G)'
<1> DEFINE d == closures[c].decl
           v == L!Arguments(d)
           r == Len(envs')
           x == In(L!Entry("call", Len(scopes'), d), Len(envs'), 0)
           m == Len(stack) + 1
<1>1. PICK U : Moves(U, T, Len(envs), r, Len(scopes'))
  BY SomeMoves
<1>2. PICK G : G = F \cup {r}
  OBVIOUS
<1>3. FreshCall(c, d, v, x, r)
  BY DEF Unpools, Keeps, FreshCall
<1>4. FreshEnd(T, F, U, G, c, v, m, x, r)
  <2>1. ((G = F /\ d \notin Makers) \/ G = F \cup {r}) /\ m = Len(stack) + 1
    BY <1>2
  <2> HIDE DEF d, v, x, r, m
  <2>2. QED
    BY <1>1, <1>3, <2>1, FreshEntered
<1> HIDE DEF d, v, x, r, m
<1>5. FramesFine(pool', envs', scopes', U, G, stack')
  <2> SUFFICES ASSUME NEW b \in Decls, NEW k \in DOMAIN pool'[b].envs
               PROVE  FrameFine(pool'[b].envs[k], k, b, pool'[b].closure, envs', scopes', U, G, stack')
    BY DEF FramesFine
  <2>1. DOMAIN pool = Decls
    BY DEF Shape, PoolFine
  <2>2. pool'[b] = pool[b]
    <3>1. CASE Keeps(c)
      BY <3>1 DEF Keeps
    <3>2. CASE Unpools(c)
      <4>1. pool' = [pool EXCEPT ![d] = [closure |-> 0, envs |-> <<>>]]
        BY <3>2 DEF Unpools, d
      <4>2. CASE b = d
        <5>1. pool'[b].envs = <<>>
          BY <2>1, <4>1, <4>2
        <5>2. DOMAIN pool'[b].envs = {}
          BY <5>1
        <5>3. QED
          BY <5>2
      <4>3. CASE b # d
        BY <4>1, <4>3
      <4>4. QED
        BY <4>2, <4>3
    <3>3. QED
      BY <3>1, <3>2
  <2> DEFINE e == pool[b].envs[k]
  <2>3. k \in DOMAIN pool[b].envs
    BY <2>2
  <2>4. e \in 2 .. Len(envs)
    BY <2>3 DEF Shape, PoolFine
  <2>5. e # r
    BY <1>4, <2>4 DEF FreshEnd
  <2>6. e = pool[b].envs[k]
    OBVIOUS
  <2> HIDE DEF e
  <2>7. FrameFine(e, k, b, pool[b].closure, envs', scopes', U, G, stack')
    BY <1>4, <2>3, <2>5, <2>6, FrameStays DEF FreshEnd
  <2>8. QED
    BY <2>2, <2>7 DEF e
<1>6. Tied(U, G)'
  <2> DEFINE p == scopes'[Len(scopes')].parent
  <2>1. p = scopes'[Len(scopes')].parent /\ Firms(G, F, r, envs', T, p)
    BY <1>4 DEF FreshEnd
  <2> HIDE DEF p
  <2>2. QED
    BY <1>4, <1>5, <2>1, TiedEntered DEF FreshEnd
<1>7. QED
  BY <1>6

(* The pool once a call has its frame there, r.                            *)
Pooled(Q, P, c, d, m, k, r) ==
  /\ DOMAIN Q = DOMAIN P /\ Q[d] = [closure |-> closures[c].env, envs |-> m]
  /\ \A b \in DOMAIN P : b # d => Q[b] = P[b]
  /\ k \in DOMAIN m /\ m[k] = r
  /\ \A j \in DOMAIN m : j # k => j \in DOMAIN P[d].envs /\ m[j] = P[d].envs[j] /\ P[d].closure = closures[c].env

LEMMA FramesPooled ==
  ASSUME Shape, NEW T, NEW F, Tied(T, F), Grown(scopes', scopes), NEW U, NEW r, NEW v,
         Enters(envs, cells, T, envs', cells', U, r, Len(scopes'), v), scopes'[Len(scopes')].vals = v,
         Firms(F, F, r, envs', T, scopes'[Len(scopes')].parent),
         NEW m, NEW x, StackEnd(stack', stack, m, x), x.env = r, x.kind = "call", m = Len(stack) + 1,
         \A b \in 1 .. m - 1 : stack[b].env # r,
         NEW c, NEW d \in Decls, d \notin Makers, v = L!Arguments(d), envs'[r].parent = closures[c].env,
         NEW f, Pooled(pool', pool, c, d, f, callDepth, r),
         \A b \in Decls : \A k \in DOMAIN pool[b].envs : b # d \/ k # callDepth => pool[b].envs[k] # r
  PROVE  FramesFine(pool', envs', scopes', U, F, stack')
<1> SUFFICES ASSUME NEW b \in Decls, NEW k \in DOMAIN pool'[b].envs
             PROVE  FrameFine(pool'[b].envs[k], k, b, pool'[b].closure, envs', scopes', U, F, stack')
  BY DEF FramesFine
<1>1. DOMAIN pool = Decls
  BY DEF Shape, PoolFine
<1>2. CASE b = d /\ k = callDepth
  <2>1. pool'[b].envs[k] = r /\ pool'[b].closure = closures[c].env
    BY <1>2 DEF Pooled
  <2>2. callDepth \in Nat /\ callDepth = CallsIn(stack, Len(stack))
    BY DepthIs
  <2>3. Above(stack', r, k)
    <3>1. Above(stack', x.env, CallsIn(stack, Len(stack)))
      BY AboveNew
    <3>2. QED
      BY <1>2, <2>2, <3>1
  <2>4. r \notin F
    BY DEF Firms
  <2>5. scopes'[U[r]].vals = v
    BY DEF Enters
  <2>6. \A i \in 1 .. Len(Params[d]) : Params[d][i] \in DOMAIN v /\ ~ v[Params[d][i]].mutable
    <3>1. DOMAIN v = ParamNames(d) /\ \A i \in 1 .. Len(Params[d]) : v[Params[d][i]] = Argument(i)
      BY ArgumentsAre
    <3>2. \A i \in 1 .. Len(Params[d]) : Params[d][i] \in ParamNames(d)
      BY DEF ParamNames
    <3>3. QED
      BY <3>1, <3>2, ArgumentIs
  <2>7. FrameFine(r, k, d, closures[c].env, envs', scopes', U, F, stack')
    BY <1>2, <2>2, <2>3, <2>4, <2>5, <2>6 DEF FrameFine
  <2>8. QED
    BY <1>2, <2>1, <2>7
<1>3. CASE ~ (b = d /\ k = callDepth)
  <2>1. k \in DOMAIN pool[b].envs /\ pool'[b].envs[k] = pool[b].envs[k] /\ pool'[b].closure = pool[b].closure
    BY <1>1, <1>3 DEF Pooled
  <2> DEFINE e == pool[b].envs[k]
  <2>2. e # r /\ e = pool[b].envs[k]
    BY <1>3, <2>1
  <2> HIDE DEF e
  <2>3. FrameFine(e, k, b, pool[b].closure, envs', scopes', U, F, stack')
    <3> DEFINE p == scopes'[Len(scopes')].parent
    <3>1. Firms(F, F, r, envs', T, p)
      OBVIOUS
    <3> HIDE DEF p
    <3>2. QED
      BY <2>1, <2>2, <3>1, FrameStays
  <2>4. QED
    BY <2>1, <2>3 DEF e
<1>4. QED
  BY <1>2, <1>3

LEMMA MineMatches ==
  ASSUME NEW c, NEW d, d = closures[c].decl, Mine(c).closure = closures[c].env
  PROVE  \A k \in DOMAIN Mine(c).envs :
           k \in DOMAIN pool[d].envs /\ Mine(c).envs[k] = pool[d].envs[k] /\ pool[d].closure = closures[c].env
<1>1. CASE pool[d].closure = 0
  <2>1. Mine(c).envs = <<>>
    BY <1>1 DEF Mine
  <2>2. DOMAIN Mine(c).envs = {}
    BY <2>1
  <2>3. QED
    BY <2>2
<1>2. CASE pool[d].closure # 0
  <2>1. Mine(c) = pool[d]
    BY <1>2 DEF Mine
  <2>2. QED
    BY <2>1
<1>3. QED
  BY <1>1, <1>2

(* A frame that is new, and put in the pool.                               *)
LEMMA TiedPools ==
  ASSUME Shape, NEW T, NEW F, Tied(T, F), NEW c \in 1 .. Len(closures), Pools(c), closures[c].decl \notin Makers,
         L!NewScope(closures[c].scope, L!Arguments(closures[c].decl)), closures' = closures,
         MakersFine(escapes', simple', closures')
  PROVE  \E U, G : Tied(U, G)'
<1> DEFINE d == closures[c].decl
           v == L!Arguments(d)
           r == Len(envs')
           x == In(L!Entry("call", Len(scopes'), d), Len(envs'), 0)
           m == Len(stack) + 1
           f == L!With(Mine(c).envs, callDepth, r)
<1>1. PICK U : Moves(U, T, Len(envs), r, Len(scopes'))
  BY SomeMoves
<1>2. FreshCall(c, d, v, x, r) /\ Mine(c).closure = closures[c].env
  BY DEF Pools, FreshCall
<1>3. pool' = [pool EXCEPT ![d] = [closure |-> closures[c].env, envs |-> f]]
  BY DEF Pools
<1>4. FreshEnd(T, F, U, F, c, v, m, x, r)
  <2>1. ((F = F /\ d \notin Makers) \/ F = F \cup {r}) /\ m = Len(stack) + 1
    OBVIOUS
  <2> HIDE DEF d, v, x, r, m
  <2>2. QED
    BY <1>1, <1>2, <2>1, FreshEntered
<1>5. DOMAIN pool = Decls /\ d \in Decls
  BY DEF Shape, PoolFine, ClosuresFine
<1>6. Pooled(pool', pool, c, d, f, callDepth, r)
  <2>1. DOMAIN f = DOMAIN Mine(c).envs \cup {callDepth} /\ f[callDepth] = r
        /\ \A k \in DOMAIN Mine(c).envs : k # callDepth => f[k] = Mine(c).envs[k]
    BY DEF L!With
  <2> HIDE DEF f, d, r
  <2>2. DOMAIN pool' = DOMAIN pool /\ pool'[d] = [closure |-> closures[c].env, envs |-> f]
        /\ \A b \in DOMAIN pool : b # d => pool'[b] = pool[b]
    BY <1>3, <1>5
  <2>3. \A k \in DOMAIN Mine(c).envs :
           k \in DOMAIN pool[d].envs /\ Mine(c).envs[k] = pool[d].envs[k] /\ pool[d].closure = closures[c].env
    BY <1>2, MineMatches DEF d
  <2>4. QED
    BY <2>1, <2>2, <2>3 DEF Pooled
<1>7. \A b \in Decls : \A k \in DOMAIN pool[b].envs : pool[b].envs[k] # r
  <2>1. \A e \in 2 .. Len(envs) : e \in 1 .. Len(envs)
    BY Sizes
  <2>2. QED
    BY <1>4, <2>1 DEF FreshEnd, Shape, PoolFine
<1>8. m = Len(stack) + 1 /\ v = L!Arguments(d) /\ d \notin Makers
  OBVIOUS
<1> HIDE DEF d, v, x, r, m, f
<1>9. FramesFine(pool', envs', scopes', U, F, stack')
  BY <1>4, <1>5, <1>6, <1>7, <1>8, FramesPooled DEF FreshEnd
<1>10. Tied(U, F)'
  <2> DEFINE p == scopes'[Len(scopes')].parent
  <2>1. p = scopes'[Len(scopes')].parent /\ Firms(F, F, r, envs', T, p)
    BY <1>4 DEF FreshEnd
  <2> HIDE DEF p
  <2>2. QED
    BY <1>4, <1>9, <2>1, TiedEntered DEF FreshEnd
<1>11. QED
  BY <1>10

(* The slots of a frame that is written over.                              *)
Mines(d, e, s) == {i \in DOMAIN Params[d] : e.slots[i] = s}

LEMMA ReusedSlots ==
  ASSUME Listed(cells), SlotsFine(cells), NEW c, PooledFrame(c, Mine(c).envs), NEW d, d = closures[c].decl,
         Len(Params[d]) \in Nat, DOMAIN Params[d] = 1 .. Len(Params[d]), NEW e, e = envs[Mine(c).envs[callDepth]]
  PROVE  /\ Len(cells') = Len(cells) /\ SlotsFine(cells')
         /\ \A s \in 1 .. Len(cells) : Mines(d, e, s) = {} => cells'[s] = cells[s]
         /\ \A s \in 1 .. Len(cells) : \A i \in 1 .. Len(Params[d]) :
              Mines(d, e, s) = {i} /\ ~ cells[s].mutable => cells'[s] = Argument(i)
<1> DEFINE chosen(s) == CHOOSE i \in Mines(d, e, s) : TRUE
           val(s) == IF Mines(d, e, s) = {} THEN cells[s].value ELSE Args(d)[chosen(s)]
<1>1. Len(cells) \in Nat /\ DOMAIN cells = 1 .. Len(cells)
  BY ListIs
<1>2. cells' = [s \in DOMAIN cells |-> [cells[s] EXCEPT !.value = val(s)]]
  BY DEF PooledFrame, Mines
<1> HIDE DEF val
<1>3. DOMAIN cells' = 1 .. Len(cells) /\ \A s \in 1 .. Len(cells) : cells'[s] = [cells[s] EXCEPT !.value = val(s)]
  BY <1>1, <1>2
<1>4. Len(cells') = Len(cells)
  <2>1. cells' = [s \in DOMAIN cells |-> cells'[s]]
    BY <1>1, <1>2, <1>3
  <2> DEFINE C == cells'
  <2>2. DOMAIN C = DOMAIN cells /\ C = [s \in DOMAIN cells |-> C[s]]
    BY <1>1, <1>3, <2>1
  <2> HIDE DEF C
  <2>3. Len(C) = Len(cells)
    BY <2>2, SetCells
  <2>4. QED
    BY <2>3 DEF C
<1>5. ASSUME NEW s \in 1 .. Len(cells)
      PROVE  cells'[s] = [value |-> val(s), mutable |-> cells[s].mutable] /\ cells[s].mutable \in BOOLEAN
  <2> DEFINE x == cells[s]
             a == cells'[s]
             w == val(s)
  <2>1. x = [value |-> x.value, mutable |-> x.mutable]
    BY DEF SlotsFine
  <2>2. x.mutable \in BOOLEAN
    BY DEF SlotsFine
  <2>3. a = [x EXCEPT !.value = w]
    BY <1>3
  <2> HIDE DEF x, a, w
  <2>4. a = [value |-> w, mutable |-> x.mutable]
    BY <2>1, <2>3
  <2>5. QED
    BY <2>2, <2>4 DEF x, a, w
<1>6. SlotsFine(cells')
  <2>1. ASSUME NEW s \in 1 .. Len(cells)
        PROVE  cells'[s] = [value |-> cells'[s].value, mutable |-> cells'[s].mutable] /\ cells'[s].mutable \in BOOLEAN
    <3> DEFINE a == cells'[s]
               b == cells[s].mutable
               w == val(s)
    <3>1. a = [value |-> w, mutable |-> b]
      BY <1>5
    <3>2. b \in BOOLEAN
      BY <1>5
    <3> HIDE DEF a, b, w
    <3>3. a.value = w /\ a.mutable = b
      BY <3>1
    <3>4. a = [value |-> a.value, mutable |-> a.mutable] /\ a.mutable \in BOOLEAN
      BY <3>1, <3>2, <3>3
    <3>5. QED
      BY <3>4 DEF a
  <2>2. QED
    BY <1>4, <2>1 DEF SlotsFine
<1>7. ASSUME NEW s \in 1 .. Len(cells), Mines(d, e, s) = {} PROVE cells'[s] = cells[s]
  <2>1. val(s) = cells[s].value
    BY <1>7 DEF val
  <2>2. cells[s] = [value |-> cells[s].value, mutable |-> cells[s].mutable]
    BY DEF SlotsFine
  <2>3. QED
    BY <1>5, <2>1, <2>2
<1>8. ASSUME NEW s \in 1 .. Len(cells), NEW i \in 1 .. Len(Params[d]), Mines(d, e, s) = {i}, ~ cells[s].mutable
      PROVE  cells'[s] = Argument(i)
  <2>1. chosen(s) = i /\ Mines(d, e, s) # {}
    BY <1>8
  <2>2. Args(d)[i] = writes + i
    BY DEF Args
  <2> HIDE DEF chosen
  <2>3. val(s) = writes + i
    BY <2>1, <2>2 DEF val
  <2> DEFINE b == cells[s].mutable
             no == FALSE
             a == cells'[s]
  <2>4. b = no
    <3>1. b \in BOOLEAN
      BY <1>5
    <3>2. QED
      BY <1>8, <3>1
  <2>5. a = [value |-> val(s), mutable |-> b]
    BY <1>5
  <2>6. Argument(i) = [value |-> writes + i, mutable |-> no]
    BY ArgumentIs
  <2> HIDE DEF a, b, no
  <2>7. a = Argument(i)
    BY <2>3, <2>4, <2>5, <2>6
  <2>8. QED
    BY <2>7 DEF a
<1>9. QED
  BY <1>4, <1>6, <1>7, <1>8

LEMMA ReusedEnters ==
  ASSUME Shape, NEW T, NEW F, Tied(T, F), NEW c \in 1 .. Len(closures), Reuses(c), NEW d, d = closures[c].decl,
         NEW v, v = L!Arguments(d), NEW r, r = Mine(c).envs[callDepth],
         NEW U, NEW M, Moves(U, T, Len(envs), r, M), NEW e, e = envs[r], NEW s, s = Params[d]
  PROVE  /\ Enters(envs, cells, T, envs', cells', U, r, M, v) /\ SlotsFine(cells')
         /\ envs'[r].parent = envs[r].parent
<1> DEFINE f == reuseFrame(e, s)
<1>1. /\ d \in Decls /\ callDepth \in DOMAIN pool[d].envs /\ r = pool[d].envs[callDepth]
      /\ r \in 1 .. Len(envs) /\ Borrows(e, s)
  <2>1. /\ d \in Decls /\ callDepth \in DOMAIN pool[d].envs /\ r = pool[d].envs[callDepth]
        /\ r \in 1 .. Len(envs) /\ Borrows(envs[r], Params[d])
    BY ReusedIs
  <2>2. QED
    BY <2>1
<1>2. Len(s) \in Nat /\ DOMAIN s = 1 .. Len(s)
  <2>1. s \in Seq(Names)
    BY <1>1 DEF Borrows
  <2>2. QED
    BY <2>1, LenProperties
<1>3. envs' = [envs EXCEPT ![r] = f] /\ PooledFrame(c, Mine(c).envs) /\ e = envs[Mine(c).envs[callDepth]]
  BY DEF Reuses, PooledFrame
<1>4. /\ Match(envs, cells, scopes, T) /\ Distinct(envs) /\ Listed(cells) /\ SlotsFine(cells) /\ Len(cells) \in Nat
      /\ FramesFine(pool, envs, scopes, T, F, stack) /\ EnvsFine(envs) /\ Len(envs) \in Nat
  BY Sizes DEF Tied, Shape
<1>5. /\ f.parent = e.parent /\ Held(f) = {s[i] : i \in 1 .. Len(s)}
      /\ \A i \in 1 .. Len(s) : own(f, s[i]) = e.slots[i] /\ own(e, s[i]) = e.slots[i]
  <2>1. IsEnv(e) /\ ~ e.big /\ s \in Seq(Names) /\ HasParams(e, s) /\ \A i, j \in DOMAIN s : s[i] = s[j] => i = j
    BY <1>1 DEF Borrows
  <2>2. QED
    BY <2>1, ReuseIs
<1>6. \A i \in 1 .. Len(s) : s[i] \in Held(e) /\ cells[own(e, s[i])] = scopes[T[r]].vals[s[i]]
                             /\ ~ scopes[T[r]].vals[s[i]].mutable /\ own(e, s[i]) \in 1 .. Len(cells)
  <2>1. FrameFine(r, callDepth, d, pool[d].closure, envs, scopes, T, F, stack)
    <3>1. FramesFine(pool, envs, scopes, T, F, stack) /\ d \in Decls /\ callDepth \in DOMAIN pool[d].envs
      BY <1>1, <1>4
    <3>2. FrameFine(pool[d].envs[callDepth], callDepth, d, pool[d].closure, envs, scopes, T, F, stack)
      BY <3>1 DEF FramesFine
    <3>3. QED
      BY <1>1, <3>2
  <2>2. Binds(e, cells, scopes[T[r]].vals)
    BY <1>1, <1>4 DEF Match
  <2>3. QED
    BY <2>1, <2>2 DEF FrameFine, Binds
<1> HIDE DEF f
<1>7. Len(envs') = Len(envs) /\ envs'[r] = f /\ \A i \in 1 .. Len(envs) : i # r => envs'[i] = envs[i]
  <2>1. Listed(envs) /\ r \in 1 .. Len(envs)
    BY <1>1, <1>4 DEF EnvsFine
  <2>2. envs' = [envs EXCEPT ![r] = f]
    BY <1>3
  <2>3. QED
    BY <2>1, <2>2, ListSet
<1>8. /\ Len(cells') = Len(cells) /\ SlotsFine(cells')
      /\ \A i \in 1 .. Len(cells) : Mines(d, e, i) = {} => cells'[i] = cells[i]
      /\ \A i \in 1 .. Len(cells) : \A j \in 1 .. Len(s) :
              Mines(d, e, i) = {j} /\ ~ cells[i].mutable => cells'[i] = Argument(j)
  <2>1. QED
    BY <1>2, <1>3, <1>4, ReusedSlots
<1>20. r \in 1 .. Len(envs) /\ Distinct(envs)
  BY <1>1, <1>4
<1>21. \A i, j \in 1 .. Len(s) : s[i] = s[j] => i = j
  BY <1>1, <1>2 DEF Borrows
<1>22. ASSUME NEW n, NEW m, n \in Held(e), m \in Held(e), own(e, n) = own(e, m) PROVE n = m
  <2>1. n \in Held(envs[r]) /\ m \in Held(envs[r]) /\ own(envs[r], n) = own(envs[r], m)
    BY <1>22
  <2>2. QED
    BY <1>20, <2>1, OnePlace
<1>9. ASSUME NEW i \in 1 .. Len(s) PROVE cells'[own(e, s[i])] = Argument(i)
  <2>1. \A j \in 1 .. Len(s) : own(e, s[j]) = own(e, s[i]) => j = i
    <3> SUFFICES ASSUME NEW j \in 1 .. Len(s), own(e, s[j]) = own(e, s[i]) PROVE j = i
      OBVIOUS
    <3>1. s[j] \in Held(e) /\ s[i] \in Held(e)
      BY <1>6
    <3>2. s[j] = s[i]
      BY <1>22, <3>1
    <3>3. QED
      BY <1>21, <3>2
  <2>2. Mines(d, e, own(e, s[i])) = {i}
    BY <1>2, <1>5, <2>1 DEF Mines
  <2>3. ~ cells[own(e, s[i])].mutable
    BY <1>6
  <2>4. QED
    BY <1>6, <1>8, <2>2, <2>3
<1>10. DOMAIN v = ParamNames(d) /\ \A i \in 1 .. Len(s) : v[s[i]] = Argument(i)
  <2>1. d \in Decls /\ v = L!Arguments(d)
    BY <1>1
  <2>2. DOMAIN v = ParamNames(d) /\ \A i \in 1 .. Len(Params[d]) : v[Params[d][i]] = Argument(i)
    BY <2>1, ArgumentsAre
  <2>3. QED
    BY <2>2
<1>11. Binds(f, cells', v)
  <2>1. Held(f) = DOMAIN v
    BY <1>5, <1>10 DEF ParamNames
  <2>2. ASSUME NEW n \in Held(f) PROVE own(f, n) \in 1 .. Len(cells') /\ cells'[own(f, n)] = v[n]
    <3>1. PICK i \in 1 .. Len(s) : n = s[i]
      BY <1>5
    <3>2. own(f, n) = own(e, s[i]) /\ own(e, s[i]) \in 1 .. Len(cells)
      BY <1>5, <1>6, <3>1
    <3>3. cells'[own(f, n)] = v[n]
      BY <1>9, <1>10, <3>1, <3>2
    <3>4. Len(cells') = Len(cells)
      BY <1>8
    <3>5. QED
      BY <3>2, <3>3, <3>4
  <2>3. QED
    BY <2>1, <2>2 DEF Binds
<1>12. ASSUME NEW n \in Held(f), NEW m \in Held(f), own(f, n) = own(f, m) PROVE n = m
  <2>1. PICK i \in 1 .. Len(s) : n = s[i]
    BY <1>5
  <2>2. PICK j \in 1 .. Len(s) : m = s[j]
    BY <1>5
  <2>3. n \in Held(e) /\ m \in Held(e)
    BY <1>6, <2>1, <2>2
  <2>4. own(f, n) = own(e, n)
    <3>1. own(f, s[i]) = own(e, s[i])
      BY <1>5
    <3>2. QED
      BY <2>1, <3>1
  <2>5. own(f, m) = own(e, m)
    <3>1. own(f, s[j]) = own(e, s[j])
      BY <1>5
    <3>2. QED
      BY <2>2, <3>1
  <2>6. own(e, n) = own(e, m)
    BY <1>12, <2>4, <2>5
  <2>7. QED
    BY <1>22, <2>3, <2>6
<1>13. ASSUME NEW b \in 1 .. Len(envs), b # r, NEW m \in Held(envs[b])
       PROVE  /\ own(envs[b], m) \in 1 .. Len(cells') /\ cells'[own(envs[b], m)] = cells[own(envs[b], m)]
              /\ \A n \in Held(f) : own(f, n) # own(envs[b], m)
  <2> DEFINE q == own(envs[b], m)
  <2>1. q \in 1 .. Len(cells)
    BY <1>4 DEF Match, Binds
  <2>2. \A i \in 1 .. Len(s) : own(e, s[i]) # q
    BY <1>1, <1>4, <1>6, <1>13, OnePlace
  <2>3. Mines(d, e, q) = {}
    BY <1>2, <1>5, <2>2 DEF Mines
  <2>4. \A n \in Held(f) : own(f, n) # q
    BY <1>5, <2>2
  <2> HIDE DEF q
  <2>5. cells'[q] = cells[q] /\ q \in 1 .. Len(cells')
    BY <1>8, <2>1, <2>3
  <2>6. QED
    BY <2>4, <2>5 DEF q
<1>14. Enters(envs, cells, T, envs', cells', U, r, M, v)
  <2>1. r \in 1 .. Len(envs') /\ U[r] = M /\ Len(envs) <= Len(envs') /\ Len(envs) \in Nat
    <3>1. Len(envs') = Len(envs) /\ Len(envs) \in Nat
      BY <1>4, <1>7
    <3>2. U[r] = M
      BY DEF Moves
    <3>3. QED
      BY <1>20, <3>1, <3>2
  <2>2. \A b \in 1 .. Len(envs') : b # r => b \in 1 .. Len(envs) /\ envs'[b] = envs[b] /\ U[b] = T[b]
    BY <1>7 DEF Moves
  <2>3. QED
    <3>1. Binds(envs'[r], cells', v)
      BY <1>7, <1>11
    <3>2. \A n, m \in Held(envs'[r]) : own(envs'[r], n) = own(envs'[r], m) => n = m
      BY <1>7, <1>12
    <3>3. \A b \in 1 .. Len(envs) : b # r => \A m \in Held(envs[b]) :
            /\ own(envs[b], m) \in 1 .. Len(cells') /\ cells'[own(envs[b], m)] = cells[own(envs[b], m)]
            /\ \A n \in Held(envs'[r]) : own(envs'[r], n) # own(envs[b], m)
      BY <1>7, <1>13
    <3>4. QED
      BY <2>1, <2>2, <3>1, <3>2, <3>3 DEF Enters
<1>15. QED
  BY <1>5, <1>7, <1>8, <1>14

(* A call in the frame that is kept for its depth.                         *)
ReuseCall(c, d, v, x, r) ==
  /\ Reuses(c) /\ d = closures[c].decl /\ v = L!Arguments(d) /\ L!NewScope(closures[c].scope, v)
  /\ Push(L!Entry("call", Len(scopes'), d), r, 0)
  /\ x = In(L!Entry("call", Len(scopes'), d), r, 0) /\ r = Mine(c).envs[callDepth]

LEMMA ReusedFrame ==
  ASSUME Shape, NEW T, NEW F, Tied(T, F), NEW c \in 1 .. Len(closures), Reuses(c), NEW d, d = closures[c].decl,
         NEW r, r = Mine(c).envs[callDepth]
  PROVE  /\ d \in Decls /\ d \notin Makers /\ r \notin F /\ r \in 1 .. Len(envs)
         /\ envs[r].parent = closures[c].env
         /\ \A i \in 1 .. Len(stack) : stack[i].env # r
         /\ callDepth \in DOMAIN pool[d].envs /\ r = pool[d].envs[callDepth]
<1>1. d \in Decls /\ callDepth \in DOMAIN pool[d].envs /\ r = pool[d].envs[callDepth] /\ r \in 1 .. Len(envs)
  BY ReusedIs
<1>2. FrameFine(r, callDepth, d, pool[d].closure, envs, scopes, T, F, stack)
  BY <1>1 DEF Tied, FramesFine
<1>3. d \notin Makers /\ r \notin F /\ envs[r].parent = pool[d].closure /\ Above(stack, r, callDepth)
  BY <1>2 DEF FrameFine
<1>4. pool[d].closure = closures[c].env
  <2>1. Mine(c).closure = closures[c].env /\ callDepth \in DOMAIN Mine(c).envs
    BY DEF Reuses, Kept
  <2>2. QED
    BY <2>1, MineMatches
<1>5. ASSUME NEW i \in 1 .. Len(stack), stack[i].env = r PROVE FALSE
  <2> DEFINE n == Len(stack)
  <2>1. callDepth = CallsIn(stack, n) /\ callDepth \in Nat
    BY DepthIs
  <2>2. callDepth < CallsIn(stack, i)
    BY <1>3, <1>5 DEF Above
  <2>3. n \in Nat
    BY Sizes
  <2> HIDE DEF n
  <2>4. i \in Nat /\ i <= n
    BY <2>3 DEF n
  <2>5. CallsIn(stack, i) <= CallsIn(stack, n)
    BY <2>3, <2>4, CallsUp
  <2>6. CallsIn(stack, i) \in Nat
    BY <2>4, CallsAre
  <2>7. QED
    BY <2>1, <2>2, <2>5, <2>6
<1>6. QED
  BY <1>1, <1>3, <1>4, <1>5

ReuseEnd(T, F, U, c, v, m, x, r) ==
  /\ Grown(scopes', scopes) /\ Enters(envs, cells, T, envs', cells', U, r, Len(scopes'), v)
  /\ scopes'[Len(scopes')].vals = v /\ Firms(F, F, r, envs', T, scopes'[Len(scopes')].parent)
  /\ StackEnd(stack', stack, m, x) /\ x.scope = Len(scopes') /\ x.env = r /\ x.kind = "call"
  /\ \A b \in 1 .. m - 1 : stack[b].env # r
  /\ EntryIs(x, stack[m - 1], envs', scopes', U, F)
  /\ SlotsFine(cells') /\ envs'[r].parent = closures[c].env

LEMMA ReuseEntered ==
  ASSUME Shape, NEW T, NEW F, Tied(T, F), NEW c \in 1 .. Len(closures), NEW d, NEW v, NEW x, NEW r, ReuseCall(c, d, v, x, r),
         NEW U, Moves(U, T, Len(envs), r, Len(scopes')), NEW m, m = Len(stack) + 1
  PROVE  ReuseEnd(T, F, U, c, v, m, x, r)
<1> DEFINE M == Len(scopes')
           entry == L!Entry("call", M, d)
           p == closures[c].scope
           e == closures[c].env
<1>1. KeptFine(closures, T, F) /\ Stands(T, Len(envs), Len(scopes)) /\ ClosuresFine(closures, Len(envs))
  BY DEF Tied, Shape
<1>2. e \in F /\ T[e] = p /\ e \in 1 .. Len(envs) /\ p \in 1 .. Len(scopes)
  BY <1>1 DEF KeptFine, ClosuresFine, Stands
<1>3. Grown(scopes', scopes) /\ scopes'[M].parent = p /\ scopes'[M].vals = v
  <2>1. p \in 0 .. Len(scopes) /\ L!NewScope(p, v)
    BY <1>2 DEF ReuseCall
  <2> HIDE DEF p
  <2>2. QED
    BY <2>1, TextsGrown
<1>4. x.kind = "call" /\ x.scope = M /\ x.decl = d /\ x.env = r
  BY CallEntryIn DEF ReuseCall
<1>5. StackEnd(stack', stack, m, x) /\ m - 1 = Len(stack)
  <2>1. Push(entry, r, 0) /\ x = In(entry, r, 0)
    BY DEF ReuseCall
  <2> HIDE DEF entry
  <2>2. QED
    BY <2>1, StackPushed
<1>6. /\ d \in Decls /\ d \notin Makers /\ r \notin F /\ envs[r].parent = e
      /\ \A i \in 1 .. Len(stack) : stack[i].env # r
  <2> HIDE DEF e
  <2>1. QED
    BY ReusedFrame DEF ReuseCall, e
<1>7. Enters(envs, cells, T, envs', cells', U, r, M, v) /\ SlotsFine(cells') /\ envs'[r].parent = e
  <2>1. Reuses(c) /\ d = closures[c].decl /\ v = L!Arguments(d) /\ r = Mine(c).envs[callDepth]
    BY DEF ReuseCall
  <2> HIDE DEF M, e
  <2>2. PICK a, s : a = envs[r] /\ s = Params[d]
    OBVIOUS
  <2>3. Moves(U, T, Len(envs), r, M)
    BY DEF M
  <2>4. Enters(envs, cells, T, envs', cells', U, r, M, v) /\ SlotsFine(cells') /\ envs'[r].parent = envs[r].parent
    BY <2>1, <2>2, <2>3, ReusedEnters
  <2>5. QED
    BY <1>6, <2>4
<1>8. Firms(F, F, r, envs', T, scopes'[M].parent)
  BY <1>6 DEF Firms
<1>9. EntryIs(x, stack[m - 1], envs', scopes', U, F)
  <2>1. U[r] = M /\ U[e] = T[e]
    BY <1>2, <1>6 DEF Moves
  <2>2. U[x.env] = x.scope /\ envs'[x.env].parent \in F /\ U[envs'[x.env].parent] = scopes'[x.scope].parent
    BY <1>2, <1>3, <1>4, <1>7, <2>1
  <2>3. x.decl \in Makers => x.env \in F
    BY <1>4, <1>6
  <2>4. QED
    BY <1>4, <2>2, <2>3, CallIs
<1>10. QED
  BY <1>3, <1>4, <1>5, <1>6, <1>7, <1>8, <1>9 DEF ReuseEnd

LEMMA TiedReuses ==
  ASSUME Shape, NEW T, NEW F, Tied(T, F), NEW c \in 1 .. Len(closures), Reuses(c),
         L!NewScope(closures[c].scope, L!Arguments(closures[c].decl)), closures' = closures,
         MakersFine(escapes', simple', closures')
  PROVE  \E U, G : Tied(U, G)'
<1> DEFINE d == closures[c].decl
           v == L!Arguments(d)
           r == Mine(c).envs[callDepth]
           x == In(L!Entry("call", Len(scopes'), d), r, 0)
           m == Len(stack) + 1
           f == Mine(c).envs
<1>1. PICK U : Moves(U, T, Len(envs), r, Len(scopes'))
  BY SomeMoves
<1>2. ReuseCall(c, d, v, x, r)
  BY DEF Reuses, ReuseCall
<1>3. ReuseEnd(T, F, U, c, v, m, x, r)
  <2>1. m = Len(stack) + 1
    OBVIOUS
  <2> HIDE DEF d, v, x, r, m
  <2>2. QED
    BY <1>1, <1>2, <2>1, ReuseEntered
<1>4. /\ d \in Decls /\ d \notin Makers /\ callDepth \in DOMAIN pool[d].envs /\ r = pool[d].envs[callDepth]
  BY ReusedFrame
<1>5. pool' = [pool EXCEPT ![d] = [closure |-> closures[c].env, envs |-> f]]
      /\ callDepth \in DOMAIN f /\ f[callDepth] = r /\ Mine(c).closure = closures[c].env
  BY DEF Reuses, Kept, PooledFrame
<1>6. Pooled(pool', pool, c, d, f, callDepth, r)
  <2>1. d = closures[c].decl /\ f = Mine(c).envs
    OBVIOUS
  <2>2. DOMAIN pool = Decls
    BY DEF Shape, PoolFine
  <2> HIDE DEF f, d, r
  <2>3. DOMAIN pool' = DOMAIN pool /\ pool'[d] = [closure |-> closures[c].env, envs |-> f]
        /\ \A b \in DOMAIN pool : b # d => pool'[b] = pool[b]
    BY <1>4, <1>5, <2>2
  <2>4. \A k \in DOMAIN f : k \in DOMAIN pool[d].envs /\ f[k] = pool[d].envs[k] /\ pool[d].closure = closures[c].env
    BY <1>5, <2>1, MineMatches
  <2>5. QED
    BY <1>5, <2>3, <2>4 DEF Pooled
<1>7. \A b \in Decls : \A k \in DOMAIN pool[b].envs : b # d \/ k # callDepth => pool[b].envs[k] # r
  <2> HIDE DEF d, r
  <2>1. PoolFine(pool, envs, stack)
    BY DEF Shape
  <2>2. QED
    BY <1>4, <2>1 DEF PoolFine
<1>8. m = Len(stack) + 1 /\ v = L!Arguments(d)
  OBVIOUS
<1> HIDE DEF d, v, x, r, m, f
<1>9. FramesFine(pool', envs', scopes', U, F, stack')
  <2>1. /\ Grown(scopes', scopes) /\ Enters(envs, cells, T, envs', cells', U, r, Len(scopes'), v)
        /\ scopes'[Len(scopes')].vals = v /\ Firms(F, F, r, envs', T, scopes'[Len(scopes')].parent)
        /\ StackEnd(stack', stack, m, x) /\ x.env = r /\ x.kind = "call"
        /\ \A b \in 1 .. m - 1 : stack[b].env # r
        /\ envs'[r].parent = closures[c].env
    BY <1>3 DEF ReuseEnd
  <2>2. d \in Decls /\ d \notin Makers /\ m = Len(stack) + 1 /\ v = L!Arguments(d)
    BY <1>4, <1>8
  <2>3. /\ Pooled(pool', pool, c, d, f, callDepth, r)
        /\ \A b \in Decls : \A k \in DOMAIN pool[b].envs : b # d \/ k # callDepth => pool[b].envs[k] # r
    BY <1>6, <1>7
  <2>4. QED
    BY <2>1, <2>2, <2>3, FramesPooled
<1>10. Tied(U, F)'
  <2> DEFINE p == scopes'[Len(scopes')].parent
  <2>1. p = scopes'[Len(scopes')].parent /\ Firms(F, F, r, envs', T, p)
    BY <1>3 DEF ReuseEnd
  <2> HIDE DEF p
  <2>2. QED
    BY <1>3, <1>9, <2>1, TiedEntered DEF ReuseEnd
<1>11. QED
  BY <1>10

(* A function that makes functions is not called the short way.            *)
LEMMA SimpleMakesNone ==
  ASSUME Shape, MakersFine(escapes, simple, closures), NEW c \in 1 .. Len(closures), canCallSimple(c)
  PROVE  closures[c].decl \notin Makers
<1> DEFINE d == closures[c].decl
<1>1. d \in Decls
  BY DEF Shape, ClosuresFine
<1>2. SUFFICES ASSUME d \in Makers PROVE FALSE
  OBVIOUS
<1>3. escapes[d] /\ simple.decl[d] # "yes" /\ \A b \in simple.sites : closures[b].decl # d
  BY <1>1, <1>2 DEF MakersFine
<1>4. c \in simple.sites \/ simple.decl[d] = "yes" \/ (simple.decl[d] = "unset" /\ ~ escapes[d])
  BY DEF canCallSimple
<1>5. QED
  BY <1>3, <1>4

LEMMA EscapesGrow ==
  ASSUME NEW esc, NEW d \in DOMAIN esc, NEW new, new = [esc EXCEPT ![d] = TRUE]
  PROVE  DOMAIN new = DOMAIN esc /\ \A b \in DOMAIN esc : esc[b] => new[b]
<1> DEFINE yes == TRUE
<1>1. new = [esc EXCEPT ![d] = yes]
  OBVIOUS
<1>2. yes
  OBVIOUS
<1> HIDE DEF yes
<1>3. DOMAIN new = DOMAIN esc /\ new[d] = yes /\ \A b \in DOMAIN esc : b # d => new[b] = esc[b]
  BY <1>1
<1>4. QED
  BY <1>2, <1>3

LEMMA EscapesStay ==
  ASSUME Shape, MakersFine(escapes, simple, closures), NEW c \in 1 .. Len(closures), NEW fast, Frame(c, fast)
  PROVE  DOMAIN escapes' = Decls /\ \A d \in Decls : escapes[d] => escapes'[d]
<1>1. DOMAIN escapes = Decls /\ closures[c].decl \in Decls
  BY DEF MakersFine, Shape, ClosuresFine
<1>2. CASE UNCHANGED escapes
  BY <1>1, <1>2
<1>3. CASE escapes' = [escapes EXCEPT ![closures[c].decl] = TRUE]
  <2> DEFINE d == closures[c].decl
             new == escapes'
  <2>1. new = [escapes EXCEPT ![d] = TRUE] /\ d \in DOMAIN escapes
    BY <1>1, <1>3
  <2> HIDE DEF d, new
  <2>2. DOMAIN new = DOMAIN escapes /\ \A b \in DOMAIN escapes : escapes[b] => new[b]
    BY <2>1, EscapesGrow
  <2>3. QED
    BY <1>1, <2>2 DEF new
<1>4. QED
  BY <1>2, <1>3, FrameIs DEF Reuses, Pools, Unpools, Keeps

LEMMA MakersKept ==
  ASSUME Shape, MakersFine(escapes, simple, closures), NEW c \in 1 .. Len(closures), NEW fast \in BOOLEAN, Call(c, fast)
  PROVE  MakersFine(escapes', simple', closures') /\ (fast => closures[c].decl \notin Makers)
<1> DEFINE d == closures[c].decl
<1>1. closures' = closures /\ Frame(c, fast) /\ (fast => canCallSimple(c))
  BY DEF Call
<1>2. fast => d \notin Makers
  BY <1>1, SimpleMakesNone
<1>3. DOMAIN escapes' = Decls /\ \A b \in Decls : escapes[b] => escapes'[b]
  BY <1>1, EscapesStay
<1>4. CASE ~ fast
  <2>1. simple' = simple
    BY <1>4 DEF Call
  <2>2. QED
    BY <1>1, <1>2, <1>3, <2>1 DEF MakersFine
<1>5. CASE fast
  <2>1. PICK w : simple' = [decl |-> [simple.decl EXCEPT ![d] = w], sites |-> simple.sites \cup {c}]
    BY <1>5 DEF Call
  <2> DEFINE s == simple'
  <2>2. s.decl = [simple.decl EXCEPT ![d] = w] /\ s.sites = simple.sites \cup {c}
    BY <2>1
  <2> HIDE DEF s
  <2>3. DOMAIN simple.decl = Decls /\ simple.sites \subseteq 1 .. Len(closures)
    BY DEF MakersFine
  <2>4. DOMAIN s.decl = Decls /\ s.sites \subseteq 1 .. Len(closures)
    BY <2>2, <2>3
  <2>5. ASSUME NEW b \in Decls, b \in Makers
        PROVE  escapes'[b] /\ s.decl[b] # "yes" /\ \A a \in s.sites : closures[a].decl # b
    <3>1. escapes[b] /\ simple.decl[b] # "yes" /\ \A a \in simple.sites : closures[a].decl # b
      BY <2>5 DEF MakersFine
    <3>2. b # d
      BY <1>2, <1>5, <2>5
    <3>3. s.decl[b] = simple.decl[b]
      BY <2>2, <2>3, <3>2
    <3>4. QED
      BY <1>3, <2>2, <3>1, <3>2, <3>3
  <2>6. MakersFine(escapes', s, closures')
    BY <1>1, <1>3, <2>4, <2>5 DEF MakersFine
  <2>7. QED
    BY <1>2, <2>6 DEF s
<1>6. QED
  BY <1>4, <1>5

LEMMA TiedCall ==
  ASSUME Shape, NEW T, NEW F, Tied(T, F), NEW c \in DOMAIN closures, NEW fast \in BOOLEAN, Call(c, fast)
  PROVE  \E U, G : Tied(U, G)'
<1>1. c \in 1 .. Len(closures)
  BY ListIs DEF Shape, ClosuresFine
<1>2. MakersFine(escapes, simple, closures)
  BY DEF Tied
<1>3. MakersFine(escapes', simple', closures') /\ (fast => closures[c].decl \notin Makers)
  BY <1>1, <1>2, MakersKept
<1>4. L!NewScope(closures[c].scope, L!Arguments(closures[c].decl)) /\ closures' = closures /\ Frame(c, fast)
  BY DEF Call
<1>5. closures[c].decl \in Decls
  BY <1>1 DEF Shape, ClosuresFine
<1>6. fast \/ ~ escapes[closures[c].decl] => closures[c].decl \notin Makers
  BY <1>2, <1>3, <1>5 DEF MakersFine
<1>7. CASE Reuses(c)
  BY <1>1, <1>3, <1>4, <1>7, TiedReuses
<1>8. CASE Pools(c) /\ closures[c].decl \notin Makers
  BY <1>1, <1>3, <1>4, <1>8, TiedPools
<1>9. CASE Unpools(c) \/ Keeps(c)
  BY <1>1, <1>3, <1>4, <1>9, TiedKeeps
<1>10. QED
  BY <1>4, <1>6, <1>7, <1>8, <1>9, FrameIs

(* Every step keeps the Envs and the scopes tied.                          *)
LEMMA NextTied ==
  ~ RecordsInFrames => (Shape /\ (\E T, F : Tied(T, F)) /\ [Next]_vars => \E U, G : Tied(U, G)')
<1> SUFFICES ASSUME ~ RecordsInFrames, Shape, NEW T, NEW F, Tied(T, F), [Next]_vars PROVE \E U, G : Tied(U, G)'
  OBVIOUS
<1>1. ASSUME NEW n \in Names, NEW cached \in BOOLEAN, Read(n, cached) PROVE Tied(T, F)'
  BY <1>1, TiedRead
<1>2. ASSUME NEW n \in Names, NEW cached \in BOOLEAN, Assign(n, cached) PROVE Tied(T, F)'
  BY <1>2, TiedAssign
<1>3. ASSUME NEW n \in Names, Declare(n) PROVE Tied(T, F)'
  BY <1>3, TiedDeclare
<1>4. ASSUME NEW n \in Names, NEW depth \in DOMAIN stack, Fail(n, depth) PROVE Tied(T, F)'
  BY <1>4, TiedFail
<1>5. CASE EnterBlock
  BY <1>5, TiedEnterBlock
<1>6. ASSUME NEW body \in {"making", "binding", "bare"}, NEW var \in LoopVars, EnterLoop(body, var)
      PROVE  \E U, G : Tied(U, G)'
  BY <1>6, TiedEnterLoop
<1>7. CASE NextPass
  BY <1>7, TiedNextPass
<1>8. CASE Leave
  BY <1>8, TiedLeave
<1>9. ASSUME NEW c \in DOMAIN closures, NEW fast \in BOOLEAN, Call(c, fast) PROVE \E U, G : Tied(U, G)'
  BY <1>9, TiedCall
<1>10. ASSUME NEW kind \in {"fn", "record"}, NEW d \in Inner, Capture(kind, d) PROVE Tied(T, F)'
  BY <1>10, TiedCapture
<1>11. ASSUME NEW c \in DOMAIN closures, NEW n \in Names, Check(c, n) PROVE Tied(T, F)'
  BY <1>11, TiedCheck
<1>12. CASE UNCHANGED vars
  BY <1>12, TiedSame DEF vars
<1>13. QED
  BY <1>1, <1>2, <1>3, <1>4, <1>5, <1>6, <1>7, <1>8, <1>9, <1>10, <1>11, <1>12 DEF Next

(* The Envs stand for the scopes of the program's text, in every state.    *)
THEOREM EnvsAreTheScopes == ~ RecordsInFrames => (Spec => []IInv)
<1> SUFFICES ASSUME ~ RecordsInFrames PROVE Spec => []IInv
  OBVIOUS
<1>1. Init => IInv
  BY TiedInit
<1>2. IInv /\ [Next]_vars => IInv'
  <2> SUFFICES ASSUME IInv, [Next]_vars PROVE IInv'
    OBVIOUS
  <2>1. Shape'
    BY NextShape DEF IInv
  <2>2. \E U, G : Tied(U, G)'
    BY NextTied DEF IInv
  <2>3. QED
    BY <2>1, <2>2 DEF IInv
<1>3. QED
  BY <1>1, <1>2, PTL DEF Spec

(* What a function keeps of the scopes around it is what those scopes      *)
(* hold: no pooled frame, no loop scope and no converted scope is written  *)
(* over while something still sees it.                                     *)
THEOREM KeptScopesHold == ~ RecordsInFrames => (Spec => []HeldScopesKept)
<1> SUFFICES ASSUME ~ RecordsInFrames PROVE Spec => []HeldScopesKept
  OBVIOUS
<1>1. IInv => HeldScopesKept
  BY KeptSeen
<1>2. QED
  BY <1>1, EnvsAreTheScopes, PTL

-----------------------------------------------------------------------------
(* What Lexical sees of the stack and of the closures. *)
EntrySeen(x) == [kind |-> x.kind, scope |-> x.scope, decl |-> x.decl, body |-> x.body, var |-> x.var]
StackSeen(K) == [d \in DOMAIN K |-> EntrySeen(K[d])]
ClosureSeen(q) == [kind |-> q.kind, decl |-> q.decl, scope |-> q.scope]
ClosuresSeen(Q) == [c \in DOMAIN Q |-> ClosureSeen(Q[c])]

LEMMA ListsEqual ==
  ASSUME NEW s, NEW t, Listed(s), Listed(t), Len(s) = Len(t), \A i \in 1 .. Len(s) : s[i] = t[i]
  PROVE  s = t
<1>1. PICK S, R : s \in Seq(S) /\ t \in Seq(R)
  BY DEF Listed
<1> DEFINE W == S \cup R
<1>2. s \in Seq(W) /\ t \in Seq(W)
  BY <1>1, SeqMonotonic
<1> HIDE DEF W
<1>3. QED
  BY <1>2, SeqEqual

LEMMA StackSeenIs ==
  ASSUME NEW K, Listed(K)
  PROVE  Listed(StackSeen(K)) /\ Len(StackSeen(K)) = Len(K) /\ \A d \in 1 .. Len(K) : StackSeen(K)[d] = EntrySeen(K[d])
<1> DEFINE n == Len(K)
           s == StackSeen(K)
<1>1. n \in Nat /\ DOMAIN K = 1 .. n
  BY ListIs
<1>2. DOMAIN s = 1 .. n /\ s = [d \in 1 .. n |-> s[d]] /\ \A d \in 1 .. n : s[d] = EntrySeen(K[d])
  BY <1>1 DEF StackSeen
<1> HIDE DEF n, s
<1>3. Listed(s) /\ Len(s) = n
  BY <1>1, <1>2, ListMap
<1>4. QED
  BY <1>2, <1>3 DEF n, s

LEMMA ClosuresSeenIs ==
  ASSUME NEW Q, Listed(Q)
  PROVE  /\ Listed(ClosuresSeen(Q)) /\ Len(ClosuresSeen(Q)) = Len(Q)
         /\ \A c \in 1 .. Len(Q) : ClosuresSeen(Q)[c] = ClosureSeen(Q[c])
<1> DEFINE n == Len(Q)
           s == ClosuresSeen(Q)
<1>1. n \in Nat /\ DOMAIN Q = 1 .. n
  BY ListIs
<1>2. DOMAIN s = 1 .. n /\ s = [d \in 1 .. n |-> s[d]] /\ \A d \in 1 .. n : s[d] = ClosureSeen(Q[d])
  BY <1>1 DEF ClosuresSeen
<1> HIDE DEF n, s
<1>3. Listed(s) /\ Len(s) = n
  BY <1>1, <1>2, ListMap
<1>4. QED
  BY <1>2, <1>3 DEF n, s

LEMMA SeenPushed ==
  ASSUME NEW K, Listed(K), NEW x
  PROVE  StackSeen(Append(K, x)) = Append(StackSeen(K), EntrySeen(x))
<1> DEFINE A == Append(K, x)
           s == StackSeen(A)
           t == Append(StackSeen(K), EntrySeen(x))
           n == Len(K)
<1>1. Listed(A) /\ Len(A) = n + 1 /\ A[n + 1] = x /\ \A i \in 1 .. n : A[i] = K[i]
  BY ListAppend
<1>2. n \in Nat /\ Listed(StackSeen(K)) /\ Len(StackSeen(K)) = n /\ \A d \in 1 .. n : StackSeen(K)[d] = EntrySeen(K[d])
  BY ListIs, StackSeenIs
<1>3. Listed(t) /\ Len(t) = n + 1 /\ t[n + 1] = EntrySeen(x) /\ \A i \in 1 .. n : t[i] = StackSeen(K)[i]
  <2> HIDE DEF n
  <2>1. QED
    BY <1>2, ListAppend
<1> HIDE DEF A, n
<1>4. Listed(s) /\ Len(s) = n + 1 /\ \A d \in 1 .. n + 1 : s[d] = EntrySeen(A[d])
  BY <1>1, StackSeenIs
<1> HIDE DEF s, t
<1>5. ASSUME NEW i \in 1 .. n + 1 PROVE s[i] = t[i]
  <2>1. CASE i = n + 1
    BY <1>1, <1>3, <1>4, <2>1
  <2>2. CASE i \in 1 .. n
    BY <1>1, <1>2, <1>3, <1>4, <2>2
  <2>3. QED
    BY <1>2, <2>1, <2>2
<1>6. s = t
  BY <1>3, <1>4, <1>5, ListsEqual
<1>7. QED
  BY <1>6 DEF s, t, A

LEMMA SeenTaken ==
  ASSUME NEW K, Listed(K), NEW n \in 0 .. Len(K)
  PROVE  StackSeen(SubSeq(K, 1, n)) = SubSeq(StackSeen(K), 1, n)
<1> DEFINE A == SubSeq(K, 1, n)
           s == StackSeen(A)
           m == StackSeen(K)
           t == SubSeq(m, 1, n)
<1>1. Listed(A) /\ Len(A) = n /\ \A i \in 1 .. n : A[i] = K[i]
  BY ListTake
<1>2. Len(K) \in Nat /\ Listed(m) /\ Len(m) = Len(K) /\ \A d \in 1 .. Len(K) : m[d] = EntrySeen(K[d])
  BY ListIs, StackSeenIs
<1> HIDE DEF A, m
<1>3. Listed(t) /\ Len(t) = n /\ \A i \in 1 .. n : t[i] = m[i]
  BY <1>2, ListTake
<1>4. Listed(s) /\ Len(s) = n /\ \A d \in 1 .. n : s[d] = EntrySeen(A[d])
  BY <1>1, StackSeenIs
<1> HIDE DEF s, t
<1>5. ASSUME NEW i \in 1 .. n PROVE s[i] = t[i]
  <2>1. i \in 1 .. Len(K)
    BY <1>2
  <2>2. QED
    BY <1>1, <1>2, <1>3, <1>4, <2>1
<1>6. s = t
  BY <1>3, <1>4, <1>5, ListsEqual
<1>7. QED
  BY <1>6 DEF s, t, A, m

LEMMA SeenMade ==
  ASSUME NEW Q, Listed(Q), NEW q
  PROVE  ClosuresSeen(Append(Q, q)) = Append(ClosuresSeen(Q), ClosureSeen(q))
<1> DEFINE A == Append(Q, q)
           s == ClosuresSeen(A)
           t == Append(ClosuresSeen(Q), ClosureSeen(q))
           n == Len(Q)
<1>1. Listed(A) /\ Len(A) = n + 1 /\ A[n + 1] = q /\ \A i \in 1 .. n : A[i] = Q[i]
  BY ListAppend
<1>2. n \in Nat /\ Listed(ClosuresSeen(Q)) /\ Len(ClosuresSeen(Q)) = n
      /\ \A d \in 1 .. n : ClosuresSeen(Q)[d] = ClosureSeen(Q[d])
  BY ListIs, ClosuresSeenIs
<1>3. Listed(t) /\ Len(t) = n + 1 /\ t[n + 1] = ClosureSeen(q) /\ \A i \in 1 .. n : t[i] = ClosuresSeen(Q)[i]
  <2> HIDE DEF n
  <2>1. QED
    BY <1>2, ListAppend
<1> HIDE DEF A, n
<1>4. Listed(s) /\ Len(s) = n + 1 /\ \A d \in 1 .. n + 1 : s[d] = ClosureSeen(A[d])
  BY <1>1, ClosuresSeenIs
<1> HIDE DEF s, t
<1>5. ASSUME NEW i \in 1 .. n + 1 PROVE s[i] = t[i]
  <2>1. CASE i = n + 1
    BY <1>1, <1>3, <1>4, <2>1
  <2>2. CASE i \in 1 .. n
    BY <1>1, <1>2, <1>3, <1>4, <2>2
  <2>3. QED
    BY <1>2, <2>1, <2>2
<1>6. s = t
  BY <1>3, <1>4, <1>5, ListsEqual
<1>7. QED
  BY <1>6 DEF s, t, A

(* A loop is put on its next pass, seen from Lexical.                      *)
LEMMA SeenOnto ==
  ASSUME NEW K, Listed(K), NEW A, Listed(A), NEW n, n = Len(K), Len(A) = n, n \in 1 .. n, NEW s,
         \A i \in 1 .. n : i # n => A[i] = K[i],
         A[n].kind = K[n].kind, A[n].scope = s, A[n].decl = K[n].decl, A[n].body = K[n].body, A[n].var = K[n].var
  PROVE  StackSeen(A) = [StackSeen(K) EXCEPT ![n].scope = s]
<1> DEFINE m == StackSeen(K)
           a == StackSeen(A)
           x == [m[n] EXCEPT !.scope = s]
           t == [m EXCEPT ![n] = x]
<1>1. Listed(m) /\ Len(m) = n /\ \A d \in 1 .. n : m[d] = EntrySeen(K[d])
  BY StackSeenIs
<1>2. Listed(a) /\ Len(a) = n /\ \A d \in 1 .. n : a[d] = EntrySeen(A[d])
  BY StackSeenIs
<1>3. x = EntrySeen(A[n])
  <2> DEFINE y == m[n]
             k == K[n]
             b == A[n]
  <2>1. y = EntrySeen(k) /\ x = [y EXCEPT !.scope = s]
    BY <1>1
  <2>2. b.kind = k.kind /\ b.scope = s /\ b.decl = k.decl /\ b.body = k.body /\ b.var = k.var
    OBVIOUS
  <2> HIDE DEF x, y, k, b
  <2>3. y = [kind |-> k.kind, scope |-> k.scope, decl |-> k.decl, body |-> k.body, var |-> k.var]
    BY <2>1 DEF EntrySeen
  <2>4. x = [kind |-> k.kind, scope |-> s, decl |-> k.decl, body |-> k.body, var |-> k.var]
    BY <2>1, <2>3
  <2>5. EntrySeen(b) = [kind |-> k.kind, scope |-> s, decl |-> k.decl, body |-> k.body, var |-> k.var]
    BY <2>2 DEF EntrySeen
  <2>6. QED
    BY <2>4, <2>5 DEF b
<1>4. [StackSeen(K) EXCEPT ![n].scope = s] = t
  OBVIOUS
<1> HIDE DEF m, a, x
<1>5. Listed(t) /\ Len(t) = n /\ t[n] = x /\ \A j \in 1 .. n : j # n => t[j] = m[j]
  <2>1. n \in 1 .. Len(m) /\ Listed(m) /\ Len(m) = n
    BY <1>1
  <2>2. Listed(t) /\ Len(t) = Len(m) /\ t[n] = x /\ \A j \in 1 .. Len(m) : j # n => t[j] = m[j]
    BY <2>1, ListSet
  <2>3. QED
    BY <2>1, <2>2
<1> HIDE DEF t
<1>6. ASSUME NEW i \in 1 .. n PROVE a[i] = t[i]
  <2>1. CASE i = n
    BY <1>2, <1>3, <1>5, <2>1
  <2>2. CASE i # n
    BY <1>1, <1>2, <1>5, <2>2
  <2>3. QED
    BY <2>1, <2>2
<1>7. a = t
  BY <1>2, <1>5, <1>6, ListsEqual
<1>8. QED
  BY <1>4, <1>7 DEF a

LEMMA RunningSeen ==
  ASSUME Shape
  PROVE  /\ L!Running = EntrySeen(Running) /\ L!Running.kind = Running.kind /\ L!Running.scope = Running.scope
         /\ L!Running.decl = Running.decl /\ L!Running.body = Running.body /\ L!Running.var = Running.var
         /\ Listed(stack) /\ Listed(closures) /\ Len(StackSeen(stack)) = Len(stack)
         /\ Len(ClosuresSeen(closures)) = Len(closures)
<1>1. Listed(stack) /\ Listed(closures) /\ Len(stack) \in 1 .. Len(stack) /\ Running = stack[Len(stack)]
  BY Sizes DEF Shape, StackFine, ClosuresFine
<1>2. /\ Len(StackSeen(stack)) = Len(stack) /\ Len(ClosuresSeen(closures)) = Len(closures)
      /\ StackSeen(stack)[Len(stack)] = EntrySeen(Running)
  BY <1>1, StackSeenIs, ClosuresSeenIs
<1>3. L!Running = StackSeen(stack)[Len(StackSeen(stack))]
  BY DEF L!Running, L!Last, StackSeen, EntrySeen
<1>4. L!Running = EntrySeen(Running)
  BY <1>2, <1>3
<1>5. QED
  BY <1>1, <1>2, <1>4 DEF EntrySeen

LEMMA LeaveMeans ==
  ASSUME Len(StackSeen(stack)) > 1, StackSeen(stack') = SubSeq(StackSeen(stack), 1, Len(StackSeen(stack)) - 1),
         answer' = L!Unbound, UNCHANGED <<scopes, closures, writes>>
  PROVE  L!Leave
BY DEF L!Leave, L!Front, StackSeen, EntrySeen

LEMMA LeaveIs ==
  ASSUME Shape, Leave
  PROVE  L!Leave
<1>1. Len(stack) > 1 /\ stack' = SubSeq(stack, 1, Len(stack) - 1) /\ answer' = L!Unbound
      /\ UNCHANGED <<scopes, closures, writes>>
  BY DEF Leave, Front
<1>2. Listed(stack) /\ Len(StackSeen(stack)) = Len(stack) /\ Len(stack) \in Nat
  BY Sizes, RunningSeen
<1>3. Len(stack) - 1 \in 0 .. Len(stack)
  BY <1>1, <1>2
<1>4. StackSeen(stack') = SubSeq(StackSeen(stack), 1, Len(stack) - 1)
  <2> DEFINE k == Len(stack) - 1
  <2>1. k \in 0 .. Len(stack) /\ stack' = SubSeq(stack, 1, k)
    BY <1>1, <1>3
  <2> HIDE DEF k
  <2>2. StackSeen(stack') = SubSeq(StackSeen(stack), 1, k)
    BY <1>2, <2>1, SeenTaken
  <2>3. QED
    BY <2>2 DEF k
<1>5. QED
  BY <1>1, <1>2, <1>4, LeaveMeans

LEMMA FailMeans ==
  ASSUME NEW n, NEW depth, L!Owner(L!Running.scope, n) = 0, depth = 1 \/ depth < Len(StackSeen(stack)),
         StackSeen(stack') = SubSeq(StackSeen(stack), 1, depth),
         answer' = L!Unbound, UNCHANGED <<scopes, closures, writes>>
  PROVE  L!Fail(n, depth)
BY DEF L!Fail, StackSeen, EntrySeen

LEMMA FailIs ==
  ASSUME Shape, NEW T, NEW F, Tied(T, F), NEW n \in Names, NEW depth \in DOMAIN stack, Fail(n, depth)
  PROVE  L!Fail(n, depth)
<1>1. /\ slot(Running.env, n) = 0 /\ (depth = 1 \/ depth < Len(stack)) /\ stack' = SubSeq(stack, 1, depth)
      /\ answer' = L!Unbound /\ UNCHANGED <<scopes, closures, writes>>
  BY DEF Fail
<1>2. /\ Listed(stack) /\ Len(StackSeen(stack)) = Len(stack) /\ Len(stack) \in Nat /\ depth \in 0 .. Len(stack)
      /\ L!Running.scope = Running.scope
  BY Sizes, RunningSeen
<1>3. StackSeen(stack') = SubSeq(StackSeen(stack), 1, depth)
  BY <1>1, <1>2, SeenTaken
<1>4. L!Owner(L!Running.scope, n) = 0
  BY <1>1, <1>2, RunningAgrees
<1>5. QED
  BY <1>1, <1>2, <1>3, <1>4, FailMeans

LEMMA ReadMeans ==
  ASSUME NEW n, L!Owner(L!Running.scope, n) # 0, answer' = L!Seen(L!Running.scope, n),
         UNCHANGED <<scopes, stack, closures, writes>>
  PROVE  L!Read(n)
BY DEF L!Read, StackSeen, EntrySeen

LEMMA ReadIs ==
  ASSUME Shape, NEW T, NEW F, Tied(T, F), NEW n \in Names, NEW cached \in BOOLEAN, Read(n, cached)
  PROVE  L!Read(n)
<1> DEFINE s == slot(Running.env, n)
           o == L!Owner(Running.scope, n)
<1>1. s # 0 /\ answer' = cells[s].value /\ UNCHANGED <<scopes, stack, closures, writes>>
  BY ResolveIs DEF Read
<1>2. o # 0 /\ cells[s] = scopes[o].vals[n]
  <2>2. PICK h \in 1 .. Len(envs) :
        /\ s = own(envs[h], n) /\ o = T[h] /\ T[h] \in 1 .. Len(scopes)
        /\ cells[own(envs[h], n)] = scopes[T[h]].vals[n]
    BY <1>1, RunningAgrees
  <2>3. QED
    BY <2>2
<1>3. L!Seen(Running.scope, n) = scopes[o].vals[n].value
  BY <1>2 DEF L!Seen
<1>4. L!Running.scope = Running.scope
  BY RunningSeen
<1> HIDE DEF s
<1>5. L!Owner(L!Running.scope, n) # 0 /\ answer' = L!Seen(L!Running.scope, n)
  BY <1>1, <1>2, <1>3, <1>4
<1>6. QED
  BY <1>1, <1>5, ReadMeans

LEMMA CheckMeans ==
  ASSUME NEW c, NEW n, ClosuresSeen(closures)[c].kind = "record",
         answer' = L!Seen(ClosuresSeen(closures)[c].scope, n), UNCHANGED <<scopes, stack, closures, writes>>
  PROVE  L!Check(c, n)
BY DEF L!Check, StackSeen, EntrySeen, ClosuresSeen, ClosureSeen

LEMMA ClosureOf ==
  ASSUME Shape, NEW c \in DOMAIN closures
  PROVE  /\ ClosuresSeen(closures)[c].kind = closures[c].kind /\ ClosuresSeen(closures)[c].decl = closures[c].decl
         /\ ClosuresSeen(closures)[c].scope = closures[c].scope
BY DEF ClosuresSeen, ClosureSeen

LEMMA CheckIs ==
  ASSUME IInv, NEW c \in DOMAIN closures, NEW n \in Names, Check(c, n)
  PROVE  L!Check(c, n)
<1>1. HeldScopesKept
  BY KeptSeen
<1>2. answer' = Value(slot(closures[c].env, n)) /\ closures[c].kind = "record"
      /\ UNCHANGED <<scopes, stack, closures, writes>>
  BY DEF Check
<1>3. answer' = L!Seen(closures[c].scope, n)
  BY <1>1, <1>2 DEF HeldScopesKept
<1>4. Shape
  BY DEF IInv
<1>5. QED
  BY <1>2, <1>3, <1>4, ClosureOf, CheckMeans

LEMMA AssignMeans ==
  ASSUME NEW n, NEW s, s = L!Owner(L!Running.scope, n), s # 0, scopes[s].vals[n].mutable, L!Write(1),
         L!Bind(s, n, L!Bound(L!Newest, TRUE)), answer' = L!Newest, UNCHANGED <<stack, closures>>
  PROVE  L!Assign(n)
BY DEF L!Assign, StackSeen, EntrySeen

LEMMA AssignIs ==
  ASSUME Shape, NEW T, NEW F, Tied(T, F), NEW n \in Names, NEW cached \in BOOLEAN, Assign(n, cached)
  PROVE  L!Assign(n)
<1> DEFINE s == slot(Running.env, n)
           o == L!Owner(Running.scope, n)
<1>1. s # 0 /\ cells[s].mutable /\ answer' = L!Newest /\ UNCHANGED <<stack, closures>>
  BY ResolveIs DEF Assign
<1>2. L!Bind(o, n, L!Bound(L!Newest, TRUE)) /\ L!Write(1)
  BY DEF Assign
<1>3. o # 0 /\ cells[s] = scopes[o].vals[n]
  <2>1. PICK h \in 1 .. Len(envs) :
        /\ s = own(envs[h], n) /\ o = T[h] /\ T[h] \in 1 .. Len(scopes)
        /\ cells[own(envs[h], n)] = scopes[T[h]].vals[n]
    BY <1>1, RunningAgrees
  <2>2. QED
    BY <2>1
<1>4. o = L!Owner(L!Running.scope, n)
  BY RunningSeen
<1> HIDE DEF s, o
<1>5. scopes[o].vals[n].mutable
  BY <1>1, <1>3
<1>6. QED
  BY <1>1, <1>2, <1>3, <1>4, <1>5, AssignMeans

LEMMA DeclareMeans ==
  ASSUME NEW n, n \in Declared[L!Body(L!Running)], L!Running.body # "bare",
         L!Running.kind = "top" \/ n \notin DOMAIN scopes[L!Running.scope].vals, L!Write(1),
         L!Bind(L!Running.scope, n, L!Bound(L!Newest, TRUE)), answer' = L!Unbound, UNCHANGED <<stack, closures>>
  PROVE  L!Declare(n)
BY DEF L!Declare, StackSeen, EntrySeen

LEMMA DeclareIs ==
  ASSUME Shape, NEW T, NEW F, Tied(T, F), NEW n \in Names, Declare(n)
  PROVE  L!Declare(n)
<1>1. /\ n \in Declared[L!Body(Running)] /\ Running.body # "bare"
      /\ (Running.kind = "top" \/ n \notin Held(envs[Running.env])) /\ answer' = L!Unbound
      /\ UNCHANGED <<stack, closures>> /\ L!Write(1)
  BY DEF Declare
<1>2. L!Bind(Running.scope, n, L!Bound(L!Newest, TRUE))
  BY DEF Declare
<1>3. /\ L!Running.kind = Running.kind /\ L!Running.scope = Running.scope
      /\ L!Running.decl = Running.decl /\ L!Running.body = Running.body
  BY RunningSeen
<1>4. L!Body(L!Running) = L!Body(Running)
  BY <1>3 DEF L!Body
<1>5. Held(envs[Running.env]) = DOMAIN scopes[Running.scope].vals
  <2>1. /\ Running = stack[Len(stack)] /\ Len(stack) \in 1 .. Len(stack) /\ Running.env \in 1 .. Len(envs)
    BY Sizes
  <2>2. ~ Thin(Running)
    BY <1>1 DEF Thin
  <2>3. T[Running.env] = Running.scope
    BY <2>1, <2>2, EntryStands
  <2>4. Binds(envs[Running.env], cells, scopes[T[Running.env]].vals)
    BY <2>1 DEF Tied, Match
  <2>5. QED
    BY <2>3, <2>4 DEF Binds
<1>6. QED
  BY <1>1, <1>2, <1>3, <1>4, <1>5, DeclareMeans

LEMMA PushSeen ==
  ASSUME Shape, NEW entry, NEW env, NEW home, Push(entry, env, home)
  PROVE  StackSeen(stack') = Append(StackSeen(stack), EntrySeen(In(entry, env, home)))
BY RunningSeen, SeenPushed DEF Push

LEMMA InSeen ==
  \A kind, s, d, env, home : EntrySeen(In(L!Entry(kind, s, d), env, home)) = L!Entry(kind, s, d)
BY DEF EntrySeen, In, L!Entry

LEMMA EnterBlockMeans ==
  ASSUME Len(StackSeen(stack)) < MaxDepth, L!NewScope(L!Running.scope, <<>>),
         StackSeen(stack') = Append(StackSeen(stack), L!Entry("block", Len(scopes'), "none")),
         answer' = L!Unbound, UNCHANGED <<closures, writes>>
  PROVE  L!EnterBlock
BY DEF L!EnterBlock, StackSeen, EntrySeen

LEMMA EnterBlockIs ==
  ASSUME Shape, EnterBlock
  PROVE  L!EnterBlock
<1>1. /\ Len(stack) < MaxDepth /\ Push(L!Entry("block", Len(scopes'), "none"), Len(envs'), 0)
      /\ answer' = L!Unbound /\ UNCHANGED <<closures, writes>>
  BY DEF EnterBlock
<1>2. L!NewScope(L!Running.scope, <<>>)
  BY RunningSeen DEF EnterBlock
<1>3. StackSeen(stack') = Append(StackSeen(stack), L!Entry("block", Len(scopes'), "none"))
  <2> DEFINE entry == L!Entry("block", Len(scopes'), "none")
             env == Len(envs')
  <2>1. Push(entry, env, 0) /\ EntrySeen(In(entry, env, 0)) = entry
    BY <1>1, InSeen
  <2> HIDE DEF entry, env
  <2>2. StackSeen(stack') = Append(StackSeen(stack), entry)
    BY <2>1, PushSeen
  <2>3. QED
    BY <2>2 DEF entry
<1>4. QED
  BY <1>1, <1>2, <1>3, RunningSeen, EnterBlockMeans

LEMMA EnterLoopMeans ==
  ASSUME NEW body, NEW var, Len(StackSeen(stack)) < MaxDepth, body = "making" => L!MakesClosures, L!PassWrite(var),
         L!NewScope(L!Running.scope, L!PassVals(var)), NEW entry,
         entry = [kind |-> "loop", scope |-> Len(scopes'), decl |-> "none", body |-> body, var |-> var],
         StackSeen(stack') = Append(StackSeen(stack), entry), answer' = L!Unbound, UNCHANGED closures
  PROVE  L!EnterLoop(body, var)
BY DEF L!EnterLoop, StackSeen, EntrySeen

LEMMA EnterLoopIs ==
  ASSUME Shape, NEW T, NEW F, Tied(T, F), NEW body, NEW var \in LoopVars, EnterLoop(body, var)
  PROVE  L!EnterLoop(body, var)
<1> DEFINE entry == [kind |-> "loop", scope |-> Len(scopes) + 1, decl |-> "none", body |-> body, var |-> var]
           env == IF body = "bare" /\ var = "none" THEN Running.env ELSE Len(envs')
           home == Len(cells')
           p == Running.scope
           v == L!PassVals(var)
<1>1. /\ Len(stack) < MaxDepth /\ (body = "making" => L!MakesClosures) /\ L!PassWrite(var)
      /\ answer' = L!Unbound /\ UNCHANGED closures
  BY DEF EnterLoop
<1>2. L!NewScope(p, v) /\ Push(entry, env, home)
  BY DEF EnterLoop
<1>3. Len(scopes') = Len(scopes) + 1
  <2>1. p \in 0 .. Len(scopes)
    BY RunningScope
  <2> HIDE DEF p, v
  <2>2. QED
    BY <1>2, <2>1, TextsGrown
<1>4. EntrySeen(In(entry, env, home)) = entry
  <2> HIDE DEF env, home
  <2>1. QED
    BY DEF EntrySeen, In
<1>5. entry = [kind |-> "loop", scope |-> Len(scopes'), decl |-> "none", body |-> body, var |-> var]
  BY <1>3
<1> HIDE DEF entry, env, home
<1>6. StackSeen(stack') = Append(StackSeen(stack), entry)
  BY <1>2, <1>4, PushSeen
<1>7. L!NewScope(L!Running.scope, L!PassVals(var))
  BY <1>2, RunningSeen
<1>8. QED
  BY <1>1, <1>5, <1>6, <1>7, RunningSeen, EnterLoopMeans

LEMMA NextPassMeans ==
  ASSUME L!Running.kind = "loop", L!PassWrite(L!Running.var),
         L!NewScope(scopes[L!Running.scope].parent, L!PassVals(L!Running.var)),
         StackSeen(stack') = [StackSeen(stack) EXCEPT ![Len(StackSeen(stack))].scope = Len(scopes')],
         answer' = L!Unbound, UNCHANGED closures
  PROVE  L!NextPass
BY DEF L!NextPass, StackSeen, EntrySeen

LEMMA NextPassIs ==
  ASSUME Shape, NextPass
  PROVE  L!NextPass
<1> DEFINE M == Len(scopes')
           n == Len(stack)
<1>1. /\ Running.kind = "loop" /\ L!PassWrite(Running.var)
      /\ L!NewScope(scopes[Running.scope].parent, L!PassVals(Running.var))
      /\ answer' = L!Unbound /\ UNCHANGED closures
  BY DEF NextPass
<1>2. PICK env : Onto(stack', stack, M, env)
  BY DEF NextPass, Onto
<1>3. StackFine(stack, Len(envs)) /\ n \in 1 .. n /\ Listed(stack)
  BY Sizes, RunningSeen DEF Shape
<1> HIDE DEF M, n
<1>4. /\ Listed(stack') /\ Len(stack') = n /\ (\A i \in 1 .. n : i # n => stack'[i] = stack[i])
      /\ stack'[n].kind = stack[n].kind /\ stack'[n].scope = M /\ stack'[n].decl = stack[n].decl
      /\ stack'[n].body = stack[n].body /\ stack'[n].var = stack[n].var
  <2> DEFINE x == stack[n]
             y == stack'[n]
  <2>1. /\ Listed(stack') /\ Len(stack') = n /\ (\A i \in 1 .. n : i # n => stack'[i] = stack[i])
        /\ y = [kind |-> x.kind, scope |-> M, decl |-> x.decl, body |-> x.body, var |-> x.var, env |-> env, home |-> x.home]
    BY <1>2, <1>3, OntoIs DEF n
  <2> HIDE DEF x, y
  <2>2. y.kind = x.kind /\ y.scope = M /\ y.decl = x.decl /\ y.body = x.body /\ y.var = x.var
    BY <2>1
  <2>3. QED
    BY <2>1, <2>2 DEF x, y
<1>5. StackSeen(stack') = [StackSeen(stack) EXCEPT ![n].scope = M]
  <2>1. n = Len(stack)
    BY DEF n
  <2>2. QED
    BY <1>3, <1>4, <2>1, SeenOnto
<1>6. StackSeen(stack') = [StackSeen(stack) EXCEPT ![Len(StackSeen(stack))].scope = Len(scopes')]
  BY <1>5, RunningSeen DEF n, M
<1>7. L!Running.kind = Running.kind /\ L!Running.scope = Running.scope /\ L!Running.var = Running.var
  BY RunningSeen
<1>8. QED
  BY <1>1, <1>6, <1>7, NextPassMeans

LEMMA CallMeans ==
  ASSUME NEW c, NEW d, d = ClosuresSeen(closures)[c].decl, ClosuresSeen(closures)[c].kind = "fn",
         Len(StackSeen(stack)) < MaxDepth, L!Write(Len(Params[d])),
         L!NewScope(ClosuresSeen(closures)[c].scope, L!Arguments(d)),
         StackSeen(stack') = Append(StackSeen(stack), L!Entry("call", Len(scopes'), d)),
         answer' = L!Unbound, UNCHANGED closures
  PROVE  L!Call(c)
BY DEF L!Call, StackSeen, EntrySeen, ClosuresSeen, ClosureSeen

LEMMA CallIsOne ==
  ASSUME Shape, NEW c \in DOMAIN closures, NEW fast \in BOOLEAN, Call(c, fast)
  PROVE  L!Call(c)
<1> DEFINE d == closures[c].decl
           entry == L!Entry("call", Len(scopes'), d)
<1>1. /\ closures[c].kind = "fn" /\ Len(stack) < MaxDepth /\ L!Write(Len(Params[d]))
      /\ answer' = L!Unbound /\ UNCHANGED closures /\ Frame(c, fast)
  BY DEF Call
<1>2. L!NewScope(closures[c].scope, L!Arguments(d))
  BY DEF Call
<1>3. PICK env : Push(entry, env, 0)
  BY <1>1, FrameIs DEF Reuses, Pools, Unpools, Keeps
<1>4. EntrySeen(In(entry, env, 0)) = entry
  BY InSeen
<1>5. StackSeen(stack') = Append(StackSeen(stack), entry)
  <2> HIDE DEF entry
  <2>1. QED
    BY <1>3, <1>4, PushSeen
<1>6. /\ ClosuresSeen(closures)[c].kind = closures[c].kind /\ ClosuresSeen(closures)[c].decl = d
      /\ ClosuresSeen(closures)[c].scope = closures[c].scope
  BY ClosureOf
<1>7. Len(StackSeen(stack)) < MaxDepth
  BY <1>1, RunningSeen
<1> HIDE DEF d
<1>8. QED
  BY <1>1, <1>2, <1>5, <1>6, <1>7, CallMeans

LEMMA CaptureMeans ==
  ASSUME NEW kind, NEW d, Len(ClosuresSeen(closures)) < MaxClosures,
         L!MakesClosures \/ (kind = "record" /\ RecordsInFrames), NEW q,
         q = [kind |-> kind, decl |-> d, scope |-> L!Running.scope],
         ClosuresSeen(closures') = Append(ClosuresSeen(closures), q),
         answer' = L!Unbound, UNCHANGED <<scopes, stack, writes>>
  PROVE  L!Capture(kind, d)
BY DEF L!Capture, StackSeen, EntrySeen, ClosuresSeen, ClosureSeen

LEMMA CaptureIs ==
  ASSUME Shape, NEW kind, NEW d, Capture(kind, d)
  PROVE  L!Capture(kind, d)
<1> DEFINE x == [kind |-> kind, decl |-> d, scope |-> Running.scope, env |-> Running.env]
           q == [kind |-> kind, decl |-> d, scope |-> L!Running.scope]
<1>1. /\ Len(closures) < MaxClosures /\ (L!MakesClosures \/ (kind = "record" /\ RecordsInFrames))
      /\ closures' = Append(closures, x) /\ answer' = L!Unbound /\ UNCHANGED <<scopes, stack, writes>>
  BY DEF Capture
<1>2. ClosureSeen(x) = q
  BY RunningSeen DEF ClosureSeen
<1>3. q = [kind |-> kind, decl |-> d, scope |-> L!Running.scope]
  OBVIOUS
<1> HIDE DEF x, q
<1>4. ClosuresSeen(closures') = Append(ClosuresSeen(closures), q)
  BY <1>1, <1>2, RunningSeen, SeenMade
<1>5. QED
  BY <1>1, <1>3, <1>4, RunningSeen, CaptureMeans

LEMMA InitMeans ==
  ASSUME scopes = <<[parent |-> 0, vals |-> <<>>]>>, StackSeen(stack) = <<L!Entry("top", 1, "none")>>,
         ClosuresSeen(closures) = [c \in DOMAIN Named |-> [kind |-> "fn", decl |-> Named[c], scope |-> 1]],
         answer = L!Unbound, writes = 0
  PROVE  L!Init
BY DEF L!Init, StackSeen, EntrySeen, ClosuresSeen, ClosureSeen

LEMMA InitIs == Init => L!Init
<1> SUFFICES ASSUME Init PROVE L!Init
  OBVIOUS
<1> DEFINE top == L!Entry("top", 1, "none")
           x == In(top, 1, 0)
<1>1. /\ scopes = <<[parent |-> 0, vals |-> <<>>]>> /\ stack = <<x>> /\ answer = L!Unbound /\ writes = 0
      /\ closures = [c \in DOMAIN Named |-> [kind |-> "fn", decl |-> Named[c], scope |-> 1, env |-> 1]]
  BY DEF Init
<1>2. EntrySeen(x) = top
  BY InSeen
<1> HIDE DEF top, x
<1>3. StackSeen(stack) = <<top>>
  <2>1. DOMAIN stack = 1 .. 1 /\ stack[1] = x
    BY <1>1
  <2>2. StackSeen(stack) = [d \in 1 .. 1 |-> top]
    BY <1>2, <2>1 DEF StackSeen
  <2>3. QED
    BY <2>2
<1>4. ClosuresSeen(closures) = [c \in DOMAIN Named |-> [kind |-> "fn", decl |-> Named[c], scope |-> 1]]
  BY <1>1 DEF ClosuresSeen, ClosureSeen
<1>5. QED
  BY <1>1, <1>3, <1>4, InitMeans DEF top

LEMMA SameMeans ==
  ASSUME UNCHANGED vars
  PROVE  UNCHANGED L!lexicalVars
BY DEF vars, L!lexicalVars

(* Each step of the program is one of the text's, or none.                 *)
LEMMA StepIs ==
  ASSUME IInv, [Next]_vars
  PROVE  L!Next \/ UNCHANGED L!lexicalVars
<1>1. Shape
  BY DEF IInv
<1>2. PICK T, F : Tied(T, F)
  BY DEF IInv
<1>3. ASSUME NEW n \in Names, NEW cached \in BOOLEAN, Read(n, cached) PROVE L!Next
  BY <1>1, <1>2, <1>3, ReadIs DEF L!Next
<1>4. ASSUME NEW n \in Names, NEW cached \in BOOLEAN, Assign(n, cached) PROVE L!Next
  BY <1>1, <1>2, <1>4, AssignIs DEF L!Next
<1>5. ASSUME NEW n \in Names, Declare(n) PROVE L!Next
  BY <1>1, <1>2, <1>5, DeclareIs DEF L!Next
<1>6. ASSUME NEW n \in Names, NEW depth \in DOMAIN stack, Fail(n, depth) PROVE L!Next
  <2>1. L!Fail(n, depth)
    BY <1>1, <1>2, <1>6, FailIs
  <2>2. QED
    BY <2>1 DEF L!Next
<1>7. CASE EnterBlock
  BY <1>1, <1>7, EnterBlockIs DEF L!Next
<1>8. ASSUME NEW body \in {"making", "binding", "bare"}, NEW var \in LoopVars, EnterLoop(body, var) PROVE L!Next
  <2>1. L!EnterLoop(body, var)
    BY <1>1, <1>2, <1>8, EnterLoopIs
  <2>2. QED
    BY <2>1 DEF L!Next
<1>9. CASE NextPass
  BY <1>1, <1>9, NextPassIs DEF L!Next
<1>10. CASE Leave
  BY <1>1, <1>10, LeaveIs DEF L!Next
<1>11. ASSUME NEW c \in DOMAIN closures, NEW fast \in BOOLEAN, Call(c, fast) PROVE L!Next
  <2>1. L!Call(c)
    BY <1>1, <1>11, CallIsOne
  <2>2. QED
    BY <2>1 DEF L!Next
<1>12. ASSUME NEW kind \in {"fn", "record"}, NEW d \in Inner, Capture(kind, d) PROVE L!Next
  <2>1. L!Capture(kind, d)
    BY <1>1, <1>12, CaptureIs
  <2>2. QED
    BY <2>1 DEF L!Next
<1>13. ASSUME NEW c \in DOMAIN closures, NEW n \in Names, Check(c, n) PROVE L!Next
  <2>1. L!Check(c, n)
    BY <1>13, CheckIs
  <2>2. QED
    BY <2>1 DEF L!Next
<1>14. CASE UNCHANGED vars
  BY <1>14, SameMeans
<1>15. QED
  BY <1>3, <1>4, <1>5, <1>6, <1>7, <1>8, <1>9, <1>10, <1>11, <1>12, <1>13, <1>14 DEF Next

(* Frames that are pooled, scopes that are filled again and names that are *)
(* cached are lexical scoping: every read, through a cache or not, answers *)
(* what the scopes of the program's text say.                              *)
THEOREM LexicalScopingHolds == ~ RecordsInFrames => (Spec => LexicalScoping)
<1> SUFFICES ASSUME ~ RecordsInFrames PROVE Spec => LexicalScoping
  OBVIOUS
<1>1. Init => L!Init
  BY InitIs
<1>2. IInv /\ [Next]_vars => [L!Next]_(L!lexicalVars)
  BY StepIs
<1>3. QED
  BY <1>1, <1>2, EnvsAreTheScopes, PTL DEF Spec, LexicalScoping, L!Spec
=============================================================================
