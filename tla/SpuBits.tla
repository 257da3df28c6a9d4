------------------------------- MODULE SpuBits -------------------------------
(***************************************************************************)
(* How spu/ writes an instruction down: as a line of assembly, as the      *)
(* fields of spu_instr_data and as a 32-bit word, and the four conversions *)
(* between them that each operation's layout (spu_lib/opls) provides.  The *)
(* assembler goes text - fields - word, the disassembler word - fields -   *)
(* text, the processor word - fields.  Here a line, or a word from any     *)
(* binary, is taken around that circle.                                    *)
(***************************************************************************)
EXTENDS SpuIsa, Functions

CONSTANTS
    IntHalf,   \* an int32_t is -IntHalf .. IntHalf - 1
    Texts,     \* the lines that may be assembled
    Words      \* the words that may be disassembled

SPU_INSTR_ARG_BITLEN == 24
DIRECTIVE_INSTR_BITLEN == 10
REGISTER_BIT_LEN == 5
FREGISTER_BIT_LEN == 4
INTEGER_BLEN == 20
N_GENERAL_REGISTERS == 31
DIRECTIVE_OPCODE == 62
MAX_OPCODE == 1023

ASSUME BitsAssumption ==
    /\ FieldHalf = 2^(INTEGER_BLEN - 1) /\ N_REGISTERS = 2^REGISTER_BIT_LEN
    /\ IntHalf \in Nat /\ FieldHalf <= IntHalf
    /\ Texts \subseteq [op : Opcodes, op_arg : STRING, regs : Seq(Int), nums : Seq(Int)]
    /\ Words \subseteq [code : 0..63, reg_extended : 0..1, arg : 0..2^SPU_INSTR_ARG_BITLEN - 1]

VARIABLES
    text,       \* [op, op_arg, regs, nums]: a line, split into its operands
    data,       \* spu_instr_data
    word,       \* spu_instruction
    phase,      \* which of them is current
    \* History: the fields that were first made of the line or the word
    meaning

vars == <<text, data, word, phase, meaning>>

-----------------------------------------------------------------------------
(* op_table: the opcodes, and the operands of each layout *)

Basic == [mov |-> 1, ldc |-> 2, jmp |-> 3, call |-> 4, ldp |-> 5]
Directive ==
    [add |-> 1, mul |-> 2, sub |-> 3, div |-> 4, mod |-> 5, shr |-> 6, shl |-> 7, sqrt |-> 8,
     or |-> 16, xor |-> 17, and |-> 18, not |-> 19, ldm |-> 22, stm |-> 23,
     push |-> 32, pop |-> 33, input |-> 80, print |-> 81, ret |-> 96,
     scrhw |-> 101, draw |-> 102, cmp |-> 112, dump |-> 254, halt |-> 255]

is_directive(op) == op \in DOMAIN Directive
Code(op) == IF is_directive(op) THEN Directive[op] ELSE Basic[op]

(* The entries of the table that init_op_cmd_opcode_table files there.     *)
find_op_cmd_opcode(code, directive) ==
    {op \in Opcodes : code < MAX_OPCODE /\ is_directive(op) = directive /\ Code(op) = code}

(* How many of rdest, rsrc1, rsrc2 a layout names; the first one of a jump *)
(* is its condition.                                                       *)
Registers(op) ==
    CASE op \in TripleRegOps -> 3
      [] op \in DoubleRegOps -> 2
      [] op \in SingleRegOps \cup NumberOps \cup JumpOps -> 1
      [] OTHER -> 0
Operands(d) == <<d.rdest, d.rsrc1, d.rsrc2>>
HasNumber(op) == op \in NumberOps \cup JumpOps

Offset(op) == IF is_directive(op) THEN DIRECTIVE_INSTR_BITLEN ELSE 0
Position(op, k) ==
    Offset(op) + (IF k = 1 THEN 0 ELSE FREGISTER_BIT_LEN + (k - 2) * REGISTER_BIT_LEN)

jmp_conditions == <<"eq", "neq", "geq", "gt", "leq", "lt">>

-----------------------------------------------------------------------------
(* spu_bit_ops *)

instr_set_bitfield(field, len, arg, pos) ==
    LET shift == SPU_INSTR_ARG_BITLEN - len - pos
        old == (arg \div 2^shift) % 2^len
    IN  arg + ((field % 2^len) - old) * 2^shift

instr_get_bitfield(len, arg, pos) ==
    (arg \div 2^(SPU_INSTR_ARG_BITLEN - len - pos)) % 2^len

(* Faulty variant: the high bit of the first register stays in its byte.   *)
instr_set_register_low(reg, instr, pos, head) ==
    [instr EXCEPT !.arg = instr_set_bitfield(reg, FREGISTER_BIT_LEN, @, pos)]

(* With a head bit the highest bit of the number goes into the opcode byte.*)
instr_set_register(reg, instr, pos, head) ==
    IF head
    THEN [instr EXCEPT !.reg_extended = reg \div 2^FREGISTER_BIT_LEN,
                       !.arg = instr_set_bitfield(reg, FREGISTER_BIT_LEN, @, pos)]
    ELSE [instr EXCEPT !.arg = instr_set_bitfield(reg, REGISTER_BIT_LEN, @, pos)]

instr_get_register(instr, pos, head) ==
    IF head THEN instr_get_bitfield(FREGISTER_BIT_LEN, instr.arg, pos)
                    + instr.reg_extended * 2^FREGISTER_BIT_LEN
            ELSE instr_get_bitfield(REGISTER_BIT_LEN, instr.arg, pos)

-----------------------------------------------------------------------------
(* The binary writers and parsers of the layouts *)

Blank == [code |-> 0, reg_extended |-> 0, arg |-> 0]

SetOperand(instr, d, k) ==
    IF k > Registers(d.op) THEN instr
    ELSE instr_set_register(Operands(d)[k], instr, Position(d.op, k), k = 1)

WithRegisters(d) == SetOperand(SetOperand(SetOperand(Blank, d, 1), d, 2), d, 3)

write_binary(d) ==
    LET regs == WithRegisters(d)
        nums == [regs EXCEPT !.arg = instr_set_bitfield(d.num, INTEGER_BLEN, @,
                                                        FREGISTER_BIT_LEN)]
    IN  IF is_directive(d.op)
        THEN [regs EXCEPT !.arg = instr_set_bitfield(Code(d.op), DIRECTIVE_INSTR_BITLEN, @, 0),
                          !.code = DIRECTIVE_OPCODE]
        ELSE [(IF HasNumber(d.op) THEN nums ELSE regs) EXCEPT !.code = Code(d.op)]

Opcode(instr) ==
    IF instr.code = DIRECTIVE_OPCODE
    THEN find_op_cmd_opcode(instr_get_bitfield(DIRECTIVE_INSTR_BITLEN, instr.arg, 0), TRUE)
    ELSE find_op_cmd_opcode(instr.code, FALSE)

Zeros == [op |-> "halt", rdest |-> 0, rsrc1 |-> 0, rsrc2 |-> 0, num |-> 0]

GetOperand(instr, op, k) ==
    IF k > Registers(op) THEN 0 ELSE instr_get_register(instr, Position(op, k), k = 1)

GetNumber(instr) ==
    bit_extend_signed(instr_get_bitfield(INTEGER_BLEN, instr.arg, FREGISTER_BIT_LEN))

parse_binary(instr, op) ==
    [op |-> op,
     rdest |-> GetOperand(instr, op, 1),
     rsrc1 |-> GetOperand(instr, op, 2),
     rsrc2 |-> GetOperand(instr, op, 3),
     num |-> IF HasNumber(op) THEN GetNumber(instr) ELSE 0]

-----------------------------------------------------------------------------
(* The assembly writers and parsers *)

(* A register prints as its number; a condition without a name prints as   *)
(* "unknown_cond".                                                         *)
write_asm(d) ==
    [op |-> d.op,
     op_arg |-> IF d.op \notin JumpOps \/ d.rdest = 0 THEN "none"
                ELSE IF d.rdest \in DOMAIN jmp_conditions THEN jmp_conditions[d.rdest]
                ELSE "unknown_cond",
     regs |-> IF d.op \in JumpOps THEN <<>>
              ELSE [k \in 1..Registers(d.op) |-> Operands(d)[k]],
     nums |-> IF HasNumber(d.op) THEN <<d.num>> ELSE <<>>]

parse_register(n) == n \in 0..N_GENERAL_REGISTERS - 1

(* strtol's result is cast to int32_t.                                     *)
parse_literal_number(n) == ((n + IntHalf) % (2 * IntHalf)) - IntHalf

parse_jmp_condition(t) ==
    IF t.op_arg = "none" THEN 0 ELSE CHOOSE c \in DOMAIN jmp_conditions : jmp_conditions[c] = t.op_arg

(* Operands of an operation without any are not looked at; the part after  *)
(* the point of a command matters to jumps only.                           *)
Accepted(t) ==
    /\ t.op \notin NoArgOps =>
          /\ Len(t.regs) = IF t.op \in JumpOps THEN 0 ELSE Registers(t.op)
          /\ Len(t.nums) = IF HasNumber(t.op) THEN 1 ELSE 0
          /\ \A k \in DOMAIN t.regs : parse_register(t.regs[k])
          /\ \A k \in DOMAIN t.nums : test_integer_bounds(parse_literal_number(t.nums[k]))
    /\ t.op \in JumpOps => t.op_arg \in {"none"} \cup Range(jmp_conditions)

RegisterAt(t, k) == IF k > Registers(t.op) THEN 0 ELSE t.regs[k]

Fields(t) ==
    [op |-> t.op,
     rdest |-> IF t.op \in JumpOps THEN parse_jmp_condition(t) ELSE RegisterAt(t, 1),
     rsrc1 |-> RegisterAt(t, 2),
     rsrc2 |-> RegisterAt(t, 3),
     num |-> IF HasNumber(t.op) THEN parse_literal_number(t.nums[1]) ELSE 0]

-----------------------------------------------------------------------------

Nothing == [Zeros EXCEPT !.op = "unknown"]

Init ==
    /\ data = Zeros /\ meaning = Nothing
    /\ \/ phase = "text" /\ text \in Texts /\ word = Blank
       \/ phase = "word" /\ word \in Words /\ text = write_asm(Zeros)

Known == meaning # Nothing
Keep(d) == meaning' = IF Known THEN meaning ELSE d

parse_asm ==
    /\ phase = "text"
    /\ \/ ~Accepted(text) /\ phase' = "rejected" /\ UNCHANGED <<data, meaning>>
       \/ /\ Accepted(text) /\ phase' = "parsed"
          /\ data' = Fields(text) /\ Keep(data')
    /\ UNCHANGED <<text, word>>

Write == /\ phase = "parsed" /\ phase' = "word"
         /\ word' = write_binary(data)
         /\ UNCHANGED <<text, data, meaning>>

Decode ==
    /\ phase = "word"
    /\ \/ Opcode(word) = {} /\ phase' = "unknown" /\ UNCHANGED <<data, meaning>>
       \/ \E op \in Opcode(word) :
             /\ phase' = "decoded"
             /\ data' = parse_binary(word, op) /\ Keep(data')
    /\ UNCHANGED <<text, word>>

disasm_instruction ==
    /\ phase = "decoded" /\ phase' = "text"
    /\ text' = write_asm(data)
    /\ UNCHANGED <<data, word, meaning>>

Ended == phase \in {"rejected", "unknown"} /\ UNCHANGED vars

Next == parse_asm \/ Write \/ Decode \/ disasm_instruction \/ Ended
Spec == Init /\ [][Next]_vars

-----------------------------------------------------------------------------
(* Properties *)

(* However often an instruction is written, read, disassembled and         *)
(* assembled again, it keeps its operation, registers, condition and       *)
(* number: no field of the word runs into another one.                     *)
MeaningKept == phase \in {"parsed", "decoded"} => data = meaning

(* The assembler takes back whatever the disassembler makes of its own     *)
(* output; only words it never writes (condition codes without a name,     *)
(* rsp) come out as lines it rejects.                                      *)
Writable == /\ \A k \in 1..Registers(meaning.op) :
                  meaning.op \notin JumpOps => Operands(meaning)[k] # 31
            /\ meaning.op \in JumpOps => meaning.rdest \in 0..Len(jmp_conditions)
ReassemblyAccepted == phase = "rejected" /\ Known => ~Writable
=============================================================================
