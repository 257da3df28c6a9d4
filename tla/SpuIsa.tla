------------------------------- MODULE SpuIsa -------------------------------
(***************************************************************************)
(* The instruction set of spu/: what the fields of an instruction may      *)
(* hold and the 20-bit numbers of ldc and jmp.  Sizes are constants; in    *)
(* the code a register is one of 32 and a field has 20 bits.               *)
(***************************************************************************)
EXTENDS Integers, Sequences

CONSTANTS
    N_REGISTERS,
    FieldHalf,     \* numbers in an instruction are -FieldHalf .. FieldHalf - 1
    MemoryMayFail  \* whether resizing an array may fail

Field == -FieldHalf..FieldHalf - 1
Register == 0..N_REGISTERS - 1

ASSUME IsaAssumption ==
    /\ N_REGISTERS \in Nat \ {0}
    /\ FieldHalf \in Nat \ {0}
    /\ MemoryMayFail \in BOOLEAN

-----------------------------------------------------------------------------
(* Instructions, grouped by the registers their layout names *)

JumpOps == {"jmp", "call"}
NoArgOps == {"ret", "dump", "halt"}
SingleRegOps == {"push", "pop", "input", "print", "draw"}
DoubleRegOps == {"cmp", "ldm", "stm", "scrhw", "mov", "sqrt", "not"}
TripleRegOps == {"add", "mul", "sub", "div", "mod", "shr", "shl", "or", "xor", "and"}
NumberOps == {"ldc", "ldp"}
Opcodes == JumpOps \cup NoArgOps \cup SingleRegOps \cup DoubleRegOps \cup TripleRegOps
           \cup NumberOps

(* "reserved" stands for the condition codes 7..31, "unknown" for the      *)
(* opcodes op_table has no entry for.                                      *)
Conditions == {"always", "eq", "neq", "geq", "gt", "leq", "lt"}
InstrData == [op : Opcodes \cup {"unknown"}, cond : Conditions \cup {"reserved"},
              rdest : Register, rsrc1 : Register, rsrc2 : Register, num : Field]

(* The registers that the layout of an instruction names.                  *)
Named(i) ==
    {r \in Register :
        \/ i.op \in SingleRegOps \cup NumberOps /\ r = i.rdest
        \/ i.op \in DoubleRegOps /\ r \in {i.rdest, i.rsrc1}
        \/ i.op \in TripleRegOps /\ r \in {i.rdest, i.rsrc1, i.rsrc2}}

-----------------------------------------------------------------------------
(* Numbers in instructions *)

test_integer_bounds(n) == n \in Field
Encoded(n) == n % (2 * FieldHalf)
(* Faulty variant: the sign is not extended.                               *)
bit_extend_signed_zero(u) == u
bit_extend_signed(u) == IF u < FieldHalf THEN u ELSE u - 2 * FieldHalf
=============================================================================
