------------------------------- MODULE SpuAlu -------------------------------
(***************************************************************************)
(* What the processor of spu/ computes: comparisons, conditions and        *)
(* arithmetic on words, which have 64 bits in the code.                    *)
(***************************************************************************)
EXTENDS SpuIsa

CONSTANTS
    WordHalf,      \* words are -WordHalf .. WordHalf - 1
    BitOp(_, _, _) \* what or, xor, and, shl, shr, not and sqrt compute

Word == -WordHalf..WordHalf - 1
BitOps == {"shr", "shl", "or", "xor", "and", "sqrt", "not"}

ASSUME AluAssumption ==
    /\ WordHalf \in Nat \ {0} /\ FieldHalf <= WordHalf
    /\ \A op \in BitOps : \A a, b \in Word : BitOp(op, a, b) \in Word

-----------------------------------------------------------------------------
(* Conditions *)

CMP_EQ_FLAG == "CMP_EQ_FLAG"
CMP_SIGN_FLAG == "CMP_SIGN_FLAG"

FlagsOf(a, b) == {f \in {CMP_EQ_FLAG, CMP_SIGN_FLAG} :
                    IF f = CMP_EQ_FLAG THEN a = b ELSE a < b}

Taken(cond, flags) ==
    LET eq == CMP_EQ_FLAG \in flags
        less == CMP_SIGN_FLAG \in flags
    IN  \/ cond = "always"
        \/ cond = "eq" /\ eq
        \/ cond = "neq" /\ ~eq
        \/ cond = "geq" /\ ~less
        \/ cond = "gt" /\ ~less /\ ~eq
        \/ cond = "leq" /\ (less \/ eq)
        \/ cond = "lt" /\ less

-----------------------------------------------------------------------------
(* Arithmetic: results wrap around, as the hardware computes them; C's     *)
(* division truncates towards zero.                                        *)

Wrap(n) == ((n + WordHalf) % (2 * WordHalf)) - WordHalf

Magnitude(n) == IF n < 0 THEN -n ELSE n
Truncated(a, b) ==
    LET q == Magnitude(a) \div Magnitude(b)
    IN  IF (a < 0) = (b < 0) THEN q ELSE -q

Result(op, a, b) ==
    CASE op = "add" -> Wrap(a + b)
      [] op = "sub" -> Wrap(a - b)
      [] op = "mul" -> Wrap(a * b)
      [] op = "div" -> Wrap(Truncated(a, b))
      [] op = "mod" -> Wrap(a - b * Truncated(a, b))
      [] OTHER      -> BitOp(op, a, b)

DivisionOps == {"div", "mod"}
=============================================================================
