------------------------------ MODULE DerivTree ------------------------------
(***************************************************************************)
(* Expressions of derivator/: the nodes of a tree, their evaluation, their *)
(* simplification and the rules of derivation.                             *)
(*                                                                         *)
(* A double is an element of the field of P elements: what is added,       *)
(* multiplied and divided is exact there, and a value below deps is 0.     *)
(* The library's sin, cos and log are the tables Sin, Cos and Ln: no rule  *)
(* knows more of them than its own identity.  NaN is every value that is   *)
(* not finite.                                                             *)
(***************************************************************************)
EXTENDS Integers, Sequences

CONSTANTS P, Sin, Cos, Ln

Field == 0..(P - 1)
ASSUME PAssumption == P \in Nat \ {0, 1} /\ \A a \in 1..(P - 1) : \E b \in Field : (a * b) % P = 1
ASSUME TablesAssumption == {Sin, Cos} \subseteq [Field -> Field] /\ Ln \in [1..(P - 1) -> Field]

NaN == P
S_FAIL == -1

Times(a, b) == (a * b) % P
Inverse1(a) == CHOOSE b \in Field : Times(a, b) = 1
Power(a, b) == IF b = 0 THEN 1 ELSE (a ^ b) % P

-----------------------------------------------------------------------------
(* Nodes.  An operator of constants is marked constant when it is made.    *)

Nil == [type |-> "nil", constant |-> TRUE]
Number(a) == [type |-> "number", fnum |-> a, left |-> Nil, right |-> Nil, constant |-> TRUE]
Variable(i) == [type |-> "variable", varidx |-> i, left |-> Nil, right |-> Nil, constant |-> FALSE]
Operator(op, l, r) == [type |-> "operator", op |-> op, left |-> l, right |-> r,
                       constant |-> l.constant /\ r.constant /\ ~(l = Nil /\ r = Nil)]

Zero == Number(0)
One == Number(1)
IsNumber(t) == t.type = "number"
IsOperator(t, op) == t.type = "operator" /\ t.op = op

Functions1 == {"ln", "sin", "cos", "o"}

-----------------------------------------------------------------------------
(* expression_evaluate.c *)

(* What the evaluator of an operator makes of the values of its operands.  *)
Evaluated(op, a, b) ==
    IF S_FAIL \in {a, b} \/ (op = "/" /\ b = 0) THEN S_FAIL
    ELSE IF op = "o" THEN 0
    ELSE IF op = "^" /\ (b = 0 \/ a = 1) THEN 1
    ELSE IF NaN \in {a, b} \/ (op = "ln" /\ a = 0) THEN NaN
    ELSE CASE op = "+" -> (a + b) % P
           [] op = "-" -> (a - b) % P
           [] op = "*" -> Times(a, b)
           [] op = "/" -> Times(a, Inverse1(b))
           [] op = "^" -> Power(a, b)
           [] op = "ln" -> Ln[a]
           [] op = "sin" -> Sin[a]
           [] op = "cos" -> Cos[a]

RECURSIVE tnode_evaluate(_, _)
tnode_evaluate(vars, t) ==
    CASE t.type = "nil" -> S_FAIL
      [] t.type = "number" -> t.fnum
      [] t.type = "variable" -> IF t.varidx \in DOMAIN vars THEN vars[t.varidx].value ELSE S_FAIL
      [] t.type = "operator" ->
            Evaluated(t.op, tnode_evaluate(vars, t.left),
                      IF t.op \in Functions1 THEN 0 ELSE tnode_evaluate(vars, t.right))

(* The value of t with the variable at x, which is put back afterwards.    *)
evaluate_tnode_at_x(vars, t, x) ==
    IF vars = <<>> THEN NaN
    ELSE LET v == tnode_evaluate([vars EXCEPT ![1].value = x], t)
         IN  IF v = S_FAIL THEN NaN ELSE v

-----------------------------------------------------------------------------
(* expression_simplify.c *)

(* Faulty variant: the outer factor of c * (d * y) is lost.                *)
Gathered_inner(l, r) ==
    IF IsNumber(l) /\ IsOperator(r, "*") /\ IsNumber(r.left) THEN <<r.left, r.right>> ELSE <<l, r>>

(* The factors of c * (d * y) are gathered: (c * d) * y.                   *)
Gathered(l, r) ==
    IF IsNumber(l) /\ IsOperator(r, "*") /\ IsNumber(r.left)
    THEN <<Number(Evaluated("*", l.fnum, r.left.fnum)), r.right>> ELSE <<l, r>>

Product(l, r) ==
    IF Zero \in {l, r} THEN Zero
    ELSE LET f == Gathered(l, r)
         IN  CASE f[1] = One -> f[2]
               [] f[1] # One /\ f[2] = One -> f[1]
               [] OTHER -> Operator("*", f[1], f[2])

(* An operator over operands that are simplified already.                  *)
Shortened(op, l, r) ==
    CASE op = "*" -> Product(l, r)
      [] op = "/" /\ l = Zero -> Zero
      [] op = "+" /\ l = Zero -> r
      [] op \in {"+", "-"} /\ r = Zero -> l
      [] op = "^" /\ r = Zero -> One
      [] op = "^" /\ r = One -> l
      [] OTHER -> Operator(op, l, r)

RECURSIVE tnode_simplify(_, _)
tnode_simplify(vars, t) ==
    IF t = Nil THEN Nil
    ELSE IF t.constant THEN
        LET v == tnode_evaluate(vars, t) IN IF v = S_FAIL THEN Nil ELSE Number(v)
    ELSE IF t.type # "operator" THEN t
    ELSE LET l == tnode_simplify(vars, t.left)
             r == tnode_simplify(vars, t.right)
         IN  IF (l = Nil) # (t.left = Nil) \/ (r = Nil) # (t.right = Nil) THEN Nil
             ELSE Shortened(t.op, l, r)

-----------------------------------------------------------------------------
(* expression_derive.c.  A rule that cannot derive an operand makes Nil.   *)

Made(op, l, r) == IF Nil \in {l, r} THEN Nil ELSE Operator(op, l, r)
Call(op, l) == Operator(op, l, Nil)

RECURSIVE tnode_derive(_, _)
RECURSIVE Derived(_, _)

Sum(vars, t) == Made(t.op, tnode_derive(vars, t.left), tnode_derive(vars, t.right))

(* u * dv and v * du, joined.                                              *)
Products(vars, t, op) ==
    Made(op, Made("*", t.left, tnode_derive(vars, t.right)),
             Made("*", t.right, tnode_derive(vars, t.left)))

(* The products are those of the product rule, their sum made a difference.*)
Quotient(vars, t) == Made("/", Products(vars, t, "-"), Operator("^", t.right, Number(2 % P)))

PowerConst(vars, u, c) ==
    Made("*", Operator("*", c, Operator("^", u, Operator("-", c, One))), tnode_derive(vars, u))

PowerRule(vars, t) ==
    IF t.right.constant THEN PowerConst(vars, t.left, t.right)
    ELSE Made("*", t, tnode_derive(vars, Operator("*", t.right, Call("ln", t.left))))

LogRule(vars, t) == IF t.right # Nil THEN Nil ELSE Made("/", tnode_derive(vars, t.left), t.left)

CosRule(vars, t) ==
    IF t.right # Nil THEN Nil
    ELSE Made("*", Operator("*", Number((-1) % P), Call("sin", t.left)), tnode_derive(vars, t.left))

SinRule(vars, t) ==
    IF t.right # Nil THEN Nil ELSE Made("*", Call("cos", t.left), tnode_derive(vars, t.left))

Derived(vars, t) ==
    CASE t.type = "number" -> Zero
      [] t.type = "variable" -> One
      [] t.type = "operator" ->
            CASE t.op \in {"+", "-"} -> Sum(vars, t)
              [] t.op = "*" -> Products(vars, t, "+")
              [] t.op = "/" -> Quotient(vars, t)
              [] t.op = "^" -> PowerRule(vars, t)
              [] t.op = "ln" -> LogRule(vars, t)
              [] t.op = "cos" -> CosRule(vars, t)
              [] t.op = "sin" -> SinRule(vars, t)
              [] t.op = "o" -> t

tnode_derive(vars, t) == tnode_simplify(vars, Derived(vars, t))
=============================================================================
