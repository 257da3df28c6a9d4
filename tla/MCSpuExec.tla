----------------------------- MODULE MCSpuExec -----------------------------
(* Small processors for TLC: two registers, words of three bits, a RAM of  *)
(* three indexes of which one is allocated, and every program of up to     *)
(* three instructions from a pool.                                         *)
EXTENDS SpuExec, Bitwise

Instr(op, cond, d, s1, s2, n) ==
    [op |-> op, cond |-> cond, rdest |-> d, rsrc1 |-> s1, rsrc2 |-> s2, num |-> n]
Jmp(op, cond, n) == Instr(op, cond, 0, 0, 0, n)
NoArg(op) == Instr(op, "always", 0, 0, 0, 0)
Single(op, r) == Instr(op, "always", r, 0, 0, 0)
Double(op, r, s) == Instr(op, "always", r, s, 0, 0)
Triple(op, d, s, t) == Instr(op, "always", d, s, t, 0)
Number(op, r, n) == Instr(op, "always", r, 0, 0, n)

Unsigned(n) == n % (2 * WordHalf)
(* The least shift count that shifts every bit out; counts wrap there.     *)
MCBitOp(op, a, b) ==
    LET ua == Unsigned(a)
        ub == Unsigned(b)
        count == Unsigned(b) % 3
    IN  CASE op = "or" -> Wrap(ua | ub)
          [] op = "xor" -> Wrap(ua ^^ ub)
          [] op = "and" -> Wrap(ua & ub)
          [] op = "not" -> -1 - a
          [] op = "shl" -> Wrap(ua * 2^count)
          [] op = "shr" -> Wrap(ua \div 2^count)
          [] op = "sqrt" -> CHOOSE r \in 0..Magnitude(a) :
                              r * r <= Magnitude(a) /\ Magnitude(a) < (r + 1) * (r + 1)

UpTo(n, pool) == UNION {[1..k -> pool] : k \in 0..n}

ControlPool ==
    {Jmp("jmp", "always", n) : n \in {-3, -1, 0, 1}}
        \cup {Jmp("jmp", c, 1) : c \in {"gt", "leq", "reserved"}}
        \cup {Jmp("call", "always", n) : n \in {-2, -1, 0, 1}}
        \cup {Jmp("call", c, 1) : c \in {"neq", "lt"}}
        \cup {NoArg("ret"), Double("cmp", 0, 1), Single("input", 0)}

DataPool ==
    {Number("ldc", 0, n) : n \in {-4, 1}} \cup {Number("ldp", 1, n) : n \in {-1, 0, 1}}
        \cup {Single(op, 0) : op \in {"push", "draw"}} \cup {Single("pop", 1)}
        \cup {Double(op, 1, 0) : op \in {"mov", "sqrt", "not", "scrhw", "stm"}}
        \cup {Double(op, 0, 1) : op \in {"cmp", "ldm"}}
        \cup {Triple(op, 1, 0, 1) : op \in TripleRegOps}
        \cup {NoArg("unknown"), NoArg("dump"), NoArg("halt"), Single("print", 0)}

(* Registers are loaded from the console, so that every word occurs.       *)
Loaded(programs) == {<<Single("input", 0), Single("input", 1)>> \o p : p \in programs}

ControlPrograms == UpTo(3, ControlPool)
DataPrograms == Loaded(UpTo(2, DataPool))
(* Longer programs that only call and return: nested and crossing calls.   *)
CallPool == {Jmp("call", "always", n) : n \in 0..2} \cup {Jmp("call", "lt", 1), NoArg("ret")}
CallPrograms == [1..5 -> CallPool]

MCPrograms == ControlPrograms \cup DataPrograms \cup CallPrograms
=============================================================================
