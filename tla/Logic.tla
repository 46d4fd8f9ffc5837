--------------------------------- MODULE Logic ---------------------------------
(***************************************************************************)
(* The decision procedure of src/src/logic.js: exact rationals, linear     *)
(* terms, Fourier-Motzkin elimination and the search over the truth values *)
(* of the atoms above it.                                                  *)
(*                                                                         *)
(* Conjunctions, coefficients and constraints are sets and functions: the  *)
(* order the code keeps them in decides only which of two equal answers is *)
(* found first.                                                            *)
(***************************************************************************)
EXTENDS Integers, FiniteSets, FiniteSetsExt, Functions, Sequences, TLC

CONSTANTS MaxAtoms, Budget, MaxDisequalities

-----------------------------------------------------------------------------
(* Rat: a fraction, reduced.                                               *)
RECURSIVE gcd(_, _)
gcd(a, b) == IF b = 0 THEN a ELSE gcd(b, a % b)
Abs(a) == IF a < 0 THEN -a ELSE a

Rat(n, d) ==
  LET g == gcd(Abs(n), Abs(d))
      s == IF d < 0 THEN -1 ELSE 1
  IN  [n |-> s * (n \div g), d |-> s * (d \div g)]

ZERO == Rat(0, 1)
ONE == Rat(1, 1)
add(a, b) == Rat(a.n * b.d + b.n * a.d, a.d * b.d)
mul(a, b) == Rat(a.n * b.n, a.d * b.d)
div(a, b) == Rat(a.n * b.d, a.d * b.n)
neg(a) == Rat(-a.n, a.d)

-----------------------------------------------------------------------------
(* Linear: what each variable is multiplied by, none by zero, and a        *)
(* constant.                                                               *)
Linear(coeffs, constant) == [coeffs |-> coeffs, constant |-> constant]
Constant(r) == Linear(<<>>, r)
Variable(v) == Linear(v :> ONE, ZERO)
IsConstant(l) == DOMAIN l.coeffs = {}

Coeff(l, v) == IF v \in DOMAIN l.coeffs THEN l.coeffs[v] ELSE ZERO

plus(l, m) ==
  LET sum == [v \in DOMAIN l.coeffs \cup DOMAIN m.coeffs |-> add(Coeff(l, v), Coeff(m, v))]
  IN  Linear([v \in {w \in DOMAIN sum : sum[w] # ZERO} |-> sum[v]], add(l.constant, m.constant))

scale(l, k) ==
  IF k = ZERO THEN Constant(ZERO)
  ELSE Linear([v \in DOMAIN l.coeffs |-> mul(l.coeffs[v], k)], mul(l.constant, k))

negated(l) == scale(l, Rat(-1, 1))
minus(l, m) == plus(l, negated(m))

-----------------------------------------------------------------------------
(* Formulas.  An atom is a linear term compared with zero.                 *)
atom(op, l) == [k |-> "atom", op |-> op, linear |-> l]
boolAtom(key) == [k |-> "bool", key |-> key]
True == [k |-> "true"]
False == [k |-> "false"]

Flat(k, parts) == UNION {IF p.k = k THEN p.parts ELSE {p} : p \in parts}
Joined(k, parts, unit, zero) ==
  LET kept == Flat(k, parts) \ {unit}
  IN  CASE zero \in kept -> zero
        [] zero \notin kept /\ kept = {} -> unit
        [] zero \notin kept /\ Cardinality(kept) = 1 -> CHOOSE p \in kept : TRUE
        [] OTHER -> [k |-> k, parts |-> kept]
and(parts) == Joined("and", parts, True, False)
or(parts) == Joined("or", parts, False, True)
not(f) == CASE f = True -> False
            [] f = False -> True
            [] f.k = "not" -> f.f
            [] OTHER -> [k |-> "not", f |-> f]
implies(f, g) == or({not(f), g})

-----------------------------------------------------------------------------
(* Fourier-Motzkin: a constraint is linear < 0 when strict, else <= 0.     *)
Constraint(l, strict) == [linear |-> l, strict |-> strict]
Without(l, v) == Linear(Restrict(l.coeffs, DOMAIN l.coeffs \ {v}), l.constant)

BetweenWeak(lo, hi) == Constraint(minus(lo.linear, hi.linear), lo.strict /\ hi.strict)

(* A lower bound and an upper one: lo <= v <= hi means lo - hi <= 0.       *)
Between(lo, hi) == Constraint(minus(lo.linear, hi.linear), lo.strict \/ hi.strict)

(* Whether no value satisfies the constraints, each variable eliminated in *)
(* turn.                                                                   *)
RECURSIVE satisfiable(_)
satisfiable(constraints) ==
  LET variables == UNION {DOMAIN c.linear.coeffs : c \in constraints}
      v == CHOOSE w \in variables : TRUE
      bound(c) == Constraint(scale(Without(c.linear, v), neg(div(ONE, c.linear.coeffs[v]))), c.strict)
      having(sign) == {c \in constraints : v \in DOMAIN c.linear.coeffs /\ c.linear.coeffs[v].n * sign > 0}
      lower == {bound(c) : c \in having(-1)}
      upper == {bound(c) : c \in having(1)}
      next == (constraints \ (having(-1) \cup having(1))) \cup {Between(lo, hi) : lo \in lower, hi \in upper}
  IN  CASE variables = {} ->
             IF \A c \in constraints : IF c.strict THEN c.linear.constant.n < 0 ELSE c.linear.constant.n <= 0
             THEN "yes" ELSE "no"
        [] variables # {} /\ (Cardinality(lower) * Cardinality(upper) > Budget \/ Cardinality(next) > Budget) -> "unknown"
        [] OTHER -> satisfiable(next)

-----------------------------------------------------------------------------
RECURSIVE collectAtoms(_)
collectAtoms(f) ==
  CASE f.k \in {"atom", "bool"} -> {f}
    [] f.k = "not" -> collectAtoms(f.f)
    [] f.k \in {"and", "or"} -> UNION {collectAtoms(p) : p \in f.parts}
    [] OTHER -> {}

(* The truth of a formula as far as its atoms are decided.                 *)
RECURSIVE evaluated(_, _)
evaluated(f, values) ==
  LET parts == {evaluated(p, values) : p \in f.parts}
      inner == evaluated(f.f, values)
  IN  CASE f.k = "true" -> "true"
        [] f.k = "false" -> "false"
        [] f.k \in {"atom", "bool"} ->
             IF f \notin DOMAIN values THEN "undecided" ELSE IF values[f] THEN "true" ELSE "false"
        [] f.k = "not" -> CASE inner = "true" -> "false" [] inner = "false" -> "true" [] OTHER -> inner
        [] f.k = "and" -> CASE "false" \in parts -> "false" [] parts = {"true"} -> "true" [] OTHER -> "undecided"
        [] f.k = "or" -> CASE "true" \in parts -> "true" [] parts = {"false"} -> "false" [] OTHER -> "undecided"

(* What an atom's truth value says, and a refused equality's two sides.    *)
Says(a, truth) ==
  CASE a.op = "<=" -> {IF truth THEN Constraint(a.linear, FALSE) ELSE Constraint(negated(a.linear), TRUE)}
    [] a.op = "<" -> {IF truth THEN Constraint(a.linear, TRUE) ELSE Constraint(negated(a.linear), FALSE)}
    [] a.op = "=" -> IF truth THEN {Constraint(a.linear, FALSE), Constraint(negated(a.linear), FALSE)} ELSE {}
Sides(l) == {Constraint(l, TRUE), Constraint(negated(l), TRUE)}

constraintSetsOf(values) ==
  LET arithmetic == {a \in DOMAIN values : a.k = "atom"}
      disequalities == {a.linear : a \in {b \in arithmetic : b.op = "=" /\ ~values[b]}}
      said == UNION {Says(a, values[a]) : a \in arithmetic}
  IN  {said \cup Range(chosen) :
         chosen \in {c \in [disequalities -> UNION {Sides(l) : l \in disequalities}] :
                       \A l \in disequalities : c[l] \in Sides(l)}}
Disequalities(values) == Cardinality({a \in DOMAIN values : a.k = "atom" /\ a.op = "=" /\ ~values[a]})

RECURSIVE search(_, _, _)
search(f, atoms, values) ==
  LET shape == evaluated(f, values)
      a == CHOOSE b \in atoms : TRUE
      guess(truth) == search(f, atoms \ {a}, (a :> truth) @@ values)
      found == {satisfiable(cs) : cs \in constraintSetsOf(values)}
  IN  CASE shape = "false" -> "no"
        [] shape # "false" /\ atoms # {} ->
             LET first == guess(TRUE) IN IF first = "no" THEN guess(FALSE) ELSE first
        [] shape # "false" /\ atoms = {} /\ Disequalities(values) > MaxDisequalities -> "unknown"
        [] OTHER -> CASE "yes" \in found -> "yes" [] "unknown" \in found -> "unknown" [] OTHER -> "no"

isSatisfiable(f) ==
  LET atoms == collectAtoms(f)
  IN  IF Cardinality(atoms) > MaxAtoms THEN "unknown" ELSE search(f, atoms, <<>>)

isValid(f) ==
  LET result == isSatisfiable(not(f))
  IN  CASE result = "no" -> "proved" [] result = "yes" -> "refuted" [] OTHER -> "unknown"
=============================================================================
