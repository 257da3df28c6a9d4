---------------------------- MODULE LangMiddleend ----------------------------
(***************************************************************************)
(* The middle end of lang/: it folds operators whose operands are numbers. *)
(* Numbers are words of the processor, which the host computes with too.   *)
(***************************************************************************)
EXTENDS LangTree, SpuAlu

RECURSIVE fastpow(_, _)
fastpow(num, deg) ==
    IF num = 1 THEN 1
    ELSE IF deg < 0 THEN 0
    ELSE IF deg = 0 THEN 1
    ELSE IF deg % 2 # 0 THEN Wrap(fastpow(num, deg - 1) * num)
    ELSE LET nnum == fastpow(num, deg \div 2) IN Wrap(nnum * nnum)

Truth(b) == IF b THEN 1 ELSE 0
Comparison(op, a, b) ==
    Truth(CASE op = "<" -> a < b [] op = ">" -> a > b [] op = "==" -> a = b
            [] op = "<=" -> a <= b [] op = ">=" -> a >= b [] op = "!=" -> a # b)

Folded(op, a, b) ==
    CASE op = "*" -> Wrap(a * b)
      [] op = "+" -> Wrap(a + b)
      [] op = "-" -> Wrap(a - b)
      [] op = "/" -> Wrap(Truncated(a, b))
      [] op = "^" -> fastpow(a, b)
      [] op \in CompareOps -> Comparison(op, a, b)

(* Shifts and bit operations stay, and so does a division by zero.         *)
Foldable(op, l, r) ==
    /\ l.kind = "number" /\ r.kind = "number"
    /\ op \in ArithmeticOps \cup CompareOps
    /\ ~(op = "/" /\ r.num = 0)

RECURSIVE tnode_simplify(_)
tnode_simplify(n) ==
    IF n.kind # "operator" THEN n
    ELSE LET l == tnode_simplify(n.left)
             r == tnode_simplify(n.right)
         IN  IF Foldable(n.op, l, r) THEN Number(Folded(n.op, l.num, r.num))
             ELSE Operator(n.op, l, r)
=============================================================================
