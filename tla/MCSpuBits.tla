----------------------------- MODULE MCSpuBits -----------------------------
(* Lines and words for TLC: every operation with registers at the edges of *)
(* their fields and numbers at the edges of 20 bits, lines with a wrong    *)
(* number of operands, and words with every opcode and extreme arguments.  *)
EXTENDS SpuBits

Edges == {0, 15, 16, 30, 31, 32}
Nums == {0, 1, -1, 2^19 - 1, 2^19, -2^19, -2^19 - 1, 2 * IntHalf + 1}

Line(op, arg, regs, nums) == [op |-> op, op_arg |-> arg, regs |-> regs, nums |-> nums]
Args(op) == IF op \in JumpOps THEN {"none", "nosuch"} \cup Range(jmp_conditions)
                              ELSE {"none", "eq"}
MCTexts ==
    UNION {{Line(op, a, r, n) : a \in Args(op),
               r \in IF op \in JumpOps THEN {<<>>} ELSE [1..Registers(op) -> Edges],
               n \in IF HasNumber(op) THEN {<<k>> : k \in Nums} ELSE {<<>>}} : op \in Opcodes}
        \cup {Line(op, "none", r, <<>>) : op \in Opcodes, r \in {<<>>, <<1>>, <<1, 2, 3, 4>>}}

MCWords ==
    {[code |-> c, reg_extended |-> e, arg |-> a] :
        c \in Range(Basic) \cup {0, 6, 63}, e \in {0, 1},
        a \in {0, 1, 2^19, 2^20 - 1, 2^20, 2^24 - 1, 7 * 2^20 + 5}}
    \cup {[code |-> DIRECTIVE_OPCODE, reg_extended |-> e, arg |-> d * 2^14 + a] :
            d \in Range(Directive) \cup {0, 9, 256, 1022, 1023}, e \in {0, 1},
            a \in {0, 1, 31, 32, 2^9, 2^10 - 1, 2^13, 2^14 - 1}}
=============================================================================
