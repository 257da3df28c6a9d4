---------------------------- MODULE DerivMeaning -----------------------------
(***************************************************************************)
(* What the derivator's formulas and trees mean, stated without its        *)
(* algorithms: the grammar as a relation between the stretches of a        *)
(* formula and trees, and the Taylor coefficients of a tree by the         *)
(* arithmetic of power series.                                             *)
(***************************************************************************)
EXTENDS DerivText, SequencesExt

CONSTANT MaxOrder     \* of the coefficients

Orders == 0..MaxOrder
ASSUME MaxOrderAssumption == MaxOrder \in Nat /\ MaxOrder < P

-----------------------------------------------------------------------------
(* Formulas *)

IsCall(i) == NameAt(i) \in FunctionNames /\ TypeAt(i + 1) = "("

(* The variables are numbered as their names first come.                   *)
FirstOf(i) == \A j \in 1..(i - 1) : NameAt(j) # NameAt(i) \/ IsCall(j)
VariableNames ==
    LET at == {i \in DOMAIN formula : TypeAt(i) = "name" /\ ~IsCall(i) /\ FirstOf(i)}
    IN  [k \in 1..Cardinality(at) |-> NameAt(CHOOSE i \in at : Cardinality(at \cap 1..i) = k)]

RECURSIVE Readings(_, _, _)

(* A stretch i..j whose operator at some k is one of ops.                  *)
Splits(ops, left, right, i, j) ==
    UNION {{Operator(TypeAt(k), l, r) : l \in Readings(left, i, k - 1),
                                        r \in Readings(right, k + 1, j)}
              : k \in {k \in (i + 1)..(j - 1) : TypeAt(k) \in ops}}

(* A number, with its sign if it has one, or a variable.                   *)
Leaves(i, j) ==
    CASE i = j /\ TypeAt(i) = "number" -> {Number(formula[i].num)}
      [] i = j /\ TypeAt(i) = "name" ->
            {Variable(k) : k \in {k \in DOMAIN VariableNames : VariableNames[k] = NameAt(i)}}
      [] j = i + 1 /\ TypeAt(i) = "+" /\ TypeAt(j) = "number" -> {Number(formula[j].num)}
      [] j = i + 1 /\ TypeAt(i) = "-" /\ TypeAt(j) = "number" -> {Number((-formula[j].num) % P)}
      [] OTHER -> {}

(* The trees that the stretch i..j denotes.                                *)
Readings(level, i, j) ==
    CASE i > j -> {}
      [] i <= j /\ level = "sum" ->
            Readings("term", i, j) \cup Splits({"+", "-"}, "sum", "term", i, j)
      [] i <= j /\ level = "term" ->
            Readings("power", i, j) \cup Splits({"*", "/"}, "term", "power", i, j)
      [] i <= j /\ level = "power" ->
            Readings("item", i, j) \cup Splits({"^"}, "item", "power", i, j)
      [] i <= j /\ level = "item" ->
            IF TypeAt(j) # ")" THEN Leaves(i, j)
            ELSE IF TypeAt(i) = "(" THEN Readings("sum", i + 1, j - 1)
            ELSE IF IsCall(i) THEN {Call(NameAt(i)[1], t) : t \in Readings("sum", i + 2, j - 1)}
            ELSE {}

(* A tree with six significant digits of each of its numbers.              *)
RECURSIVE ShortNumbers(_)
ShortNumbers(t) ==
    CASE t.type = "number" -> Number(Reread(t.fnum))
      [] t.type = "operator" -> Operator(t.op, ShortNumbers(t.left), ShortNumbers(t.right))
      [] OTHER -> t

(* The formula is what stands before the first end.                        *)
FormulaLength == (CHOOSE i \in DOMAIN formula : TypeAt(i) = "end" /\ \A j \in 1..(i - 1) : TypeAt(j) # "end") - 1

-----------------------------------------------------------------------------
(* Power series around a point, up to MaxOrder; Undefined where there is   *)
(* none.                                                                   *)

Undefined == [k \in {} |-> 0]
Constantly(a) == [k \in Orders |-> IF k = 0 THEN a ELSE 0]
Over(a, b) == Times(a, Inverse1(b % P))

Convolution(a, b, k) == MapThenSumSet(LAMBDA i : a[i] * b[k - i], 0..k) % P
ProductSeries(a, b) == [k \in Orders |-> Convolution(a, b, k)]
QuotientSeries(a, b) ==
    LET q[k \in Orders] ==
            Over(a[k] - MapThenSumSet(LAMBDA i : q[i] * b[k - i], 0..(k - 1)), b[0])
    IN  q

(* The derivative of a series (its last coefficient is not known) and the  *)
(* series that begins with a and has the derivative d.                     *)
Slope(u) == [k \in Orders |-> IF k = MaxOrder THEN 0 ELSE ((k + 1) * u[k + 1]) % P]
From(a, d) == [k \in Orders |-> IF k = 0 THEN a ELSE Over(d[k - 1], k)]

LogSeries(u) == From(Ln[u[0]], QuotientSeries(Slope(u), u))

(* f' = f * g'                                                             *)
GrowthSeries(a, g) ==
    LET f[k \in Orders] ==
            IF k = 0 THEN a
            ELSE Over(MapThenSumSet(LAMBDA i : f[i] * Slope(g)[k - 1 - i], 0..(k - 1)), k)
    IN  f

(* s' = c * u' and c' = - s * u', together.                                *)
CircleSeries(u) ==
    LET sc[k \in Orders] ==
            IF k = 0 THEN [sin |-> Sin[u[0]], cos |-> Cos[u[0]]]
            ELSE [sin |-> Over(MapThenSumSet(LAMBDA i : sc[i].cos * Slope(u)[k - 1 - i], 0..(k - 1)), k),
                  cos |-> Over(-MapThenSumSet(LAMBDA i : sc[i].sin * Slope(u)[k - 1 - i], 0..(k - 1)), k)]
    IN  sc

PowerSeries(u, n) == FoldLeft(LAMBDA s, k : ProductSeries(s, u), Constantly(1), [k \in 1..n |-> k])

RECURSIVE Subtrees(_)
Subtrees(t) == IF t = Nil THEN {} ELSE {t} \cup Subtrees(t.left) \cup Subtrees(t.right)
VariablesOf(t) == {s.varidx : s \in {s \in Subtrees(t) : s.type = "variable"}}

(* What the series of an operator is made of those of its operands; fixed  *)
(* is whether the second of them has no variable.                          *)
SeriesOf(op, u, v, fixed) ==
    IF Undefined \in {u, v} THEN Undefined ELSE
    CASE op = "+" -> [k \in Orders |-> (u[k] + v[k]) % P]
      [] op = "-" -> [k \in Orders |-> (u[k] - v[k]) % P]
      [] op = "*" -> ProductSeries(u, v)
      [] op = "/" -> IF v[0] = 0 THEN Undefined ELSE QuotientSeries(u, v)
      [] op = "^" /\ fixed -> PowerSeries(u, v[0])
      [] op = "^" /\ ~fixed ->
            IF u[0] = 0 THEN Undefined
            ELSE GrowthSeries(Power(u[0], v[0]), ProductSeries(v, LogSeries(u)))
      [] op = "ln" -> IF u[0] = 0 THEN Undefined ELSE LogSeries(u)
      [] op \in {"sin", "cos"} -> [k \in Orders |-> CircleSeries(u)[k][op]]
      [] op = "o" -> Constantly(0)

(* t around x, for every variable of t.                                    *)
RECURSIVE Series(_, _)
Series(t, x) ==
    CASE t.type = "nil" -> Constantly(0)
      [] t.type = "number" -> Constantly(t.fnum)
      [] t.type = "variable" -> [k \in Orders |-> IF k = 0 THEN x ELSE IF k = 1 THEN 1 ELSE 0]
      [] t.type = "operator" ->
            SeriesOf(t.op, Series(t.left, x), Series(t.right, x), VariablesOf(t.right) = {})

(* What is derived has no quotient in it: but for those of numbers.        *)
QuotientFree(t) == \A s \in Subtrees(t) : IsOperator(s, "/") => VariablesOf(s) = {}
=============================================================================
