---------------------------- MODULE SpuBitsProofs ----------------------------
(* Proofs about the forms of an instruction, for every line and every word *)
(* that may be given: whatever is written is read back, so the meaning of  *)
(* an instruction survives the circle, and the assembler accepts what the  *)
(* disassembler makes of its output.  The argument is one about digits: a  *)
(* bit field is a digit of the argument, and setting one leaves the others.*)
EXTENDS SpuBits, TLAPS

(* What fields the assembler makes of a line, and a binary parser of a     *)
(* word: registers and numbers that fit their fields, and zeros in the     *)
(* fields that the layout does not name.                                   *)
Encodable(d) ==
    /\ d \in [op : Opcodes, rdest : Register, rsrc1 : Register, rsrc2 : Register, num : Field]
    /\ Registers(d.op) < 1 => d.rdest = 0
    /\ Registers(d.op) < 2 => d.rsrc1 = 0
    /\ Registers(d.op) < 3 => d.rsrc2 = 0
    /\ ~HasNumber(d.op) => d.num = 0

-----------------------------------------------------------------------------
(* Numbers written in digits *)

LEMMA DivMod ==
    ASSUME NEW m \in Nat \ {0}, NEW q \in Int, NEW r \in 0..m - 1
    PROVE  (q * m + r) \div m = q /\ (q * m + r) % m = r
BY Z3

(* The digit of base L at the weight P.                                    *)
Digit(arg, L, P, x) ==
    /\ x \in 0..L - 1
    /\ \E hi \in Nat, lo \in 0..P - 1 : arg = (hi * L + x) * P + lo

LEMMA IsDigit ==
    ASSUME NEW arg, NEW L, NEW P, NEW x \in 0..L - 1, NEW hi \in Nat, NEW lo \in 0..P - 1,
           arg = (hi * L + x) * P + lo
    PROVE  Digit(arg, L, P, x)
BY Zenon DEF Digit

LEMMA DigitRead ==
    ASSUME NEW arg, NEW L \in Nat \ {0}, NEW P \in Nat \ {0}, NEW x, Digit(arg, L, P, x)
    PROVE  (arg \div P) % L = x
<1>1. PICK hi \in Nat, lo \in 0..P - 1 : arg = (hi * L + x) * P + lo
  BY DEF Digit
<1>2. x \in 0..L - 1
  BY DEF Digit
<1>3. hi * L + x \in Int
  BY <1>2, Z3
<1>4. arg \div P = hi * L + x
  BY <1>1, <1>3, DivMod
<1>5. (hi * L + x) % L = x
  BY <1>2, DivMod
<1> QED BY <1>4, <1>5

(* A bit field of len bits at pos is a digit; setting it changes no other. *)
LEMMA GetDigit ==
    ASSUME NEW len, NEW pos, NEW arg, NEW L \in Nat \ {0}, NEW P \in Nat \ {0}, NEW x,
           2^len = L, 2^(SPU_INSTR_ARG_BITLEN - len - pos) = P, Digit(arg, L, P, x)
    PROVE  instr_get_bitfield(len, arg, pos) = x
BY DigitRead, Zenon DEF instr_get_bitfield

(* What is left of a field that was zero.                                  *)
LEMMA DigitOf ==
    ASSUME NEW f \in Int, NEW L \in Nat \ {0}, NEW x, x = 0
    PROVE  f % L \in Int /\ (f % L) - x = f % L
<1>1. f % L \in Int
  BY Z3
<1> QED BY <1>1, SMT

-----------------------------------------------------------------------------
(* The words of directives and of basic operations *)

W10 == 1024
W14 == 16384
W15 == 32768
W20 == 1048576

DirectiveArg(c, a, b, e) == c * W14 + a * W10 + b * 32 + e
NumberArg(a, n) == a * W20 + n

(* What the shifts of the bit fields come to.                              *)
LEMMA DirectiveShifts ==
    /\ W10 \in Nat \ {0} /\ W14 \in Nat \ {0} /\ W10 = 32 * 32 /\ W14 = 16 * W10
    /\ 2^FREGISTER_BIT_LEN = 16 /\ 2^REGISTER_BIT_LEN = 32 /\ 2^DIRECTIVE_INSTR_BITLEN = W10
    /\ 2^(SPU_INSTR_ARG_BITLEN - DIRECTIVE_INSTR_BITLEN - 0) = W14
    /\ 2^(SPU_INSTR_ARG_BITLEN - FREGISTER_BIT_LEN - 10) = W10
    /\ 2^(SPU_INSTR_ARG_BITLEN - REGISTER_BIT_LEN - 14) = 32
    /\ 2^(SPU_INSTR_ARG_BITLEN - REGISTER_BIT_LEN - 19) = 1
BY SMT DEF W10, W14, FREGISTER_BIT_LEN, REGISTER_BIT_LEN, DIRECTIVE_INSTR_BITLEN, SPU_INSTR_ARG_BITLEN

LEMMA NumberShifts ==
    /\ W15 \in Nat \ {0} /\ W20 \in Nat \ {0} /\ W20 = 32 * W15
    /\ 2^FREGISTER_BIT_LEN = 16 /\ 2^REGISTER_BIT_LEN = 32 /\ 2^INTEGER_BLEN = W20
    /\ 2^(SPU_INSTR_ARG_BITLEN - FREGISTER_BIT_LEN - 0) = W20
    /\ 2^(SPU_INSTR_ARG_BITLEN - REGISTER_BIT_LEN - 4) = W15
    /\ 2^(SPU_INSTR_ARG_BITLEN - INTEGER_BLEN - FREGISTER_BIT_LEN) = 1
BY SMT DEF W15, W20, FREGISTER_BIT_LEN, REGISTER_BIT_LEN, INTEGER_BLEN, SPU_INSTR_ARG_BITLEN

(* The opcode and the three registers of a directive are digits.           *)
LEMMA DirectiveDigits ==
    ASSUME NEW c \in Nat, NEW a \in Nat, NEW b \in Nat, NEW e \in Nat,
           c < W10, a < 16, b < 32, e < 32
    PROVE  /\ Digit(DirectiveArg(c, a, b, e), W10, W14, c)
           /\ Digit(DirectiveArg(c, a, b, e), 16, W10, a)
           /\ Digit(DirectiveArg(c, a, b, e), 32, 32, b)
           /\ Digit(DirectiveArg(c, a, b, e), 32, 1, e)
<1> DEFINE arg == DirectiveArg(c, a, b, e)
           hi == c * 16 + a
<1>1. W10 \in Nat /\ W14 \in Nat /\ W10 = 32 * 32 /\ W14 = 16 * W10
  BY DirectiveShifts
<1>2. /\ 0 \in Nat /\ hi \in Nat /\ hi * 32 + b \in Nat
      /\ c \in 0..W10 - 1 /\ a \in 0..16 - 1 /\ b \in 0..32 - 1 /\ e \in 0..32 - 1
      /\ a * W10 + b * 32 + e \in 0..W14 - 1 /\ b * 32 + e \in 0..W10 - 1 /\ 0 \in 0..1 - 1
  BY <1>1, SMT
<1>3. arg = (0 * W10 + c) * W14 + (a * W10 + b * 32 + e)
  BY <1>1, SMT DEF DirectiveArg
<1>4. arg = (c * 16 + a) * W10 + (b * 32 + e)
  BY <1>1, SMT DEF DirectiveArg
<1>5. arg = (hi * 32 + b) * 32 + e
  BY <1>1, SMT DEF DirectiveArg
<1>6. arg = ((hi * 32 + b) * 32 + e) * 1 + 0
  BY <1>2, <1>5, SMT
<1> HIDE DEF arg, hi
<1>7. Digit(arg, W10, W14, c)
  BY <1>2, <1>3, IsDigit, Zenon
<1>8. Digit(arg, 16, W10, a)
  BY <1>2, <1>4, IsDigit, Zenon
<1>9. Digit(arg, 32, 32, b)
  BY <1>2, <1>5, IsDigit, Zenon
<1>10. Digit(arg, 32, 1, e)
  BY <1>2, <1>6, IsDigit, Zenon
<1> QED BY <1>7, <1>8, <1>9, <1>10 DEF arg

(* Each field of a directive is read back.                                 *)
LEMMA DirectiveGets ==
    ASSUME NEW c \in Nat, NEW a \in Nat, NEW b \in Nat, NEW e \in Nat,
           c < W10, a < 16, b < 32, e < 32
    PROVE  /\ instr_get_bitfield(DIRECTIVE_INSTR_BITLEN, DirectiveArg(c, a, b, e), 0) = c
           /\ instr_get_bitfield(FREGISTER_BIT_LEN, DirectiveArg(c, a, b, e), 10) = a
           /\ instr_get_bitfield(REGISTER_BIT_LEN, DirectiveArg(c, a, b, e), 14) = b
           /\ instr_get_bitfield(REGISTER_BIT_LEN, DirectiveArg(c, a, b, e), 19) = e
<1>1. 16 \in Nat \ {0} /\ 32 \in Nat \ {0} /\ 1 \in Nat \ {0}
  OBVIOUS
<1> QED BY <1>1, DirectiveDigits, DirectiveShifts, GetDigit, SMT

(* Each field of a directive is set on its own.                            *)
LEMMA RdestSet ==
    ASSUME NEW f \in Nat
    PROVE  instr_set_bitfield(f, FREGISTER_BIT_LEN, DirectiveArg(0, 0, 0, 0), 10) =
                DirectiveArg(0, f % 16, 0, 0)
<1> DEFINE arg == DirectiveArg(0, 0, 0, 0)
           base == 16
           old == 0
           unit == W10
<1>1. /\ base \in Nat \ {0} /\ unit \in Nat \ {0} /\ f \in Int /\ old = 0
      /\ 2^FREGISTER_BIT_LEN = base
      /\ 2^(SPU_INSTR_ARG_BITLEN - FREGISTER_BIT_LEN - 10) = unit
  BY DirectiveShifts
<1>2. Digit(arg, base, unit, old)
  BY DirectiveShifts, DirectiveDigits, SMT
<1>3. \A g \in Int : arg + g * unit = DirectiveArg(0, g, 0, 0)
  BY DirectiveShifts, SMT DEF DirectiveArg
<1> HIDE DEF arg, base, old, unit
<1>4. instr_set_bitfield(f, FREGISTER_BIT_LEN, arg, 10) =
        arg + ((f % base) - old) * unit
  <2>1. (arg \div unit) % base = old
    BY <1>1, <1>2, DigitRead, SMT
  <2> QED BY <1>1, <2>1, Zenon DEF instr_set_bitfield
<1>5. f % base \in Int /\ (f % base) - old = f % base
  BY <1>1, DigitOf
<1> QED BY <1>3, <1>4, <1>5, Zenon DEF arg, base

LEMMA Rsrc1Set ==
    ASSUME NEW f \in Nat, NEW a \in Nat, a < 16
    PROVE  instr_set_bitfield(f, REGISTER_BIT_LEN, DirectiveArg(0, a, 0, 0), 14) =
                DirectiveArg(0, a, f % 32, 0)
<1> DEFINE arg == DirectiveArg(0, a, 0, 0)
           base == 32
           old == 0
           unit == 32
<1>1. /\ base \in Nat \ {0} /\ unit \in Nat \ {0} /\ f \in Int /\ old = 0
      /\ 2^REGISTER_BIT_LEN = base
      /\ 2^(SPU_INSTR_ARG_BITLEN - REGISTER_BIT_LEN - 14) = unit
  BY DirectiveShifts
<1>2. Digit(arg, base, unit, old)
  BY DirectiveShifts, DirectiveDigits, SMT
<1>3. \A g \in Int : arg + g * unit = DirectiveArg(0, a, g, 0)
  BY DirectiveShifts, SMT DEF DirectiveArg
<1> HIDE DEF arg, base, old, unit
<1>4. instr_set_bitfield(f, REGISTER_BIT_LEN, arg, 14) =
        arg + ((f % base) - old) * unit
  <2>1. (arg \div unit) % base = old
    BY <1>1, <1>2, DigitRead, SMT
  <2> QED BY <1>1, <2>1, Zenon DEF instr_set_bitfield
<1>5. f % base \in Int /\ (f % base) - old = f % base
  BY <1>1, DigitOf
<1> QED BY <1>3, <1>4, <1>5, Zenon DEF arg, base

LEMMA Rsrc2Set ==
    ASSUME NEW f \in Nat, NEW a \in Nat, NEW b \in Nat, a < 16, b < 32
    PROVE  instr_set_bitfield(f, REGISTER_BIT_LEN, DirectiveArg(0, a, b, 0), 19) =
                DirectiveArg(0, a, b, f % 32)
<1> DEFINE arg == DirectiveArg(0, a, b, 0)
           base == 32
           old == 0
           unit == 1
<1>1. /\ base \in Nat \ {0} /\ unit \in Nat \ {0} /\ f \in Int /\ old = 0
      /\ 2^REGISTER_BIT_LEN = base
      /\ 2^(SPU_INSTR_ARG_BITLEN - REGISTER_BIT_LEN - 19) = unit
  BY DirectiveShifts
<1>2. Digit(arg, base, unit, old)
  BY DirectiveShifts, DirectiveDigits, SMT
<1>3. \A g \in Int : arg + g * unit = DirectiveArg(0, a, b, g)
  BY DirectiveShifts, SMT DEF DirectiveArg
<1> HIDE DEF arg, base, old, unit
<1>4. instr_set_bitfield(f, REGISTER_BIT_LEN, arg, 19) =
        arg + ((f % base) - old) * unit
  <2>1. (arg \div unit) % base = old
    BY <1>1, <1>2, DigitRead, SMT
  <2> QED BY <1>1, <2>1, Zenon DEF instr_set_bitfield
<1>5. f % base \in Int /\ (f % base) - old = f % base
  BY <1>1, DigitOf
<1> QED BY <1>3, <1>4, <1>5, Zenon DEF arg, base

LEMMA OpcodeSet ==
    ASSUME NEW f \in Nat, NEW a \in Nat, NEW b \in Nat, NEW e \in Nat, a < 16, b < 32, e < 32
    PROVE  instr_set_bitfield(f, DIRECTIVE_INSTR_BITLEN, DirectiveArg(0, a, b, e), 0) =
                DirectiveArg(f % W10, a, b, e)
<1> DEFINE arg == DirectiveArg(0, a, b, e)
           base == W10
           old == 0
           unit == W14
<1>1. /\ base \in Nat \ {0} /\ unit \in Nat \ {0} /\ f \in Int /\ old = 0
      /\ 2^DIRECTIVE_INSTR_BITLEN = base
      /\ 2^(SPU_INSTR_ARG_BITLEN - DIRECTIVE_INSTR_BITLEN - 0) = unit
  BY DirectiveShifts
<1>2. Digit(arg, base, unit, old)
  BY DirectiveShifts, DirectiveDigits, SMT
<1>3. \A g \in Int : arg + g * unit = DirectiveArg(g, a, b, e)
  BY DirectiveShifts, SMT DEF DirectiveArg
<1> HIDE DEF arg, base, old, unit
<1>4. instr_set_bitfield(f, DIRECTIVE_INSTR_BITLEN, arg, 0) =
        arg + ((f % base) - old) * unit
  <2>1. (arg \div unit) % base = old
    BY <1>1, <1>2, DigitRead, SMT
  <2> QED BY <1>1, <2>1, Zenon DEF instr_set_bitfield
<1>5. f % base \in Int /\ (f % base) - old = f % base
  BY <1>1, DigitOf
<1> QED BY <1>3, <1>4, <1>5, Zenon DEF arg, base

(* The fields of a basic operation are digits, too: the first register and *)
(* a number, or for mov a second register in the number's place.           *)
LEMMA NumberDigits ==
    ASSUME NEW a \in Nat, NEW n \in Nat, a < 16, n < W20
    PROVE  Digit(NumberArg(a, n), 16, W20, a) /\ Digit(NumberArg(a, n), W20, 1, n)
<1> DEFINE arg == NumberArg(a, n)
<1>1. a \in 0..16 - 1 /\ 0 \in Nat /\ 0 \in 0..1 - 1
  BY SMT
<1>2. n \in 0..W20 - 1 /\ W20 \in Nat \ {0}
  BY NumberShifts, SMT
<1>3. arg = (0 * 16 + a) * W20 + n /\ arg = (a * W20 + n) * 1 + 0
  BY <1>1, <1>2, SMT DEF NumberArg
<1> HIDE DEF arg
<1>4. Digit(arg, 16, W20, a) /\ Digit(arg, W20, 1, n)
  BY <1>1, <1>2, <1>3, IsDigit, Zenon
<1> QED BY <1>4 DEF arg

LEMMA MovDigit ==
    ASSUME NEW a \in Nat, NEW b \in Nat, a < 16, b < 32
    PROVE  Digit(NumberArg(a, b * W15), 32, W15, b)
<1> DEFINE arg == NumberArg(a, b * W15)
<1>1. arg = (a * 32 + b) * W15 + 0 /\ b \in 0..32 - 1 /\ 0 \in 0..W15 - 1
  BY NumberShifts, SMT DEF NumberArg
<1> HIDE DEF arg
<1>2. Digit(arg, 32, W15, b)
  BY <1>1, IsDigit, Zenon
<1> QED BY <1>2 DEF arg

LEMMA BasicGets ==
    ASSUME NEW a \in Nat, NEW n \in Nat, a < 16, n < W20
    PROVE  /\ instr_get_bitfield(FREGISTER_BIT_LEN, NumberArg(a, n), 0) = a
           /\ instr_get_bitfield(INTEGER_BLEN, NumberArg(a, n), FREGISTER_BIT_LEN) = n
<1>1. 16 \in Nat \ {0} /\ 1 \in Nat \ {0}
  OBVIOUS
<1> QED BY <1>1, NumberDigits, NumberShifts, GetDigit

LEMMA MovGets ==
    ASSUME NEW a \in Nat, NEW b \in Nat, a < 16, b < 32
    PROVE  instr_get_bitfield(REGISTER_BIT_LEN, NumberArg(a, b * W15), 4) = b
<1>1. 32 \in Nat \ {0}
  OBVIOUS
<1> QED BY <1>1, MovDigit, NumberShifts, GetDigit

(* Each field of a basic operation is set on its own.                      *)
LEMMA HeadSet ==
    ASSUME NEW f \in Nat
    PROVE  instr_set_bitfield(f, FREGISTER_BIT_LEN, NumberArg(0, 0), 0) =
                NumberArg(f % 16, 0)
<1> DEFINE arg == NumberArg(0, 0)
           base == 16
           old == 0
           unit == W20
<1>1. /\ base \in Nat \ {0} /\ unit \in Nat \ {0} /\ f \in Int /\ old = 0
      /\ 2^FREGISTER_BIT_LEN = base
      /\ 2^(SPU_INSTR_ARG_BITLEN - FREGISTER_BIT_LEN - 0) = unit
  BY NumberShifts
<1>2. Digit(arg, base, unit, old)
  BY NumberShifts, NumberDigits, SMT
<1>3. \A g \in Int : arg + g * unit = NumberArg(g, 0)
  BY NumberShifts, SMT DEF NumberArg
<1> HIDE DEF arg, base, old, unit
<1>4. instr_set_bitfield(f, FREGISTER_BIT_LEN, arg, 0) =
        arg + ((f % base) - old) * unit
  <2>1. (arg \div unit) % base = old
    BY <1>1, <1>2, DigitRead, SMT
  <2> QED BY <1>1, <2>1, Zenon DEF instr_set_bitfield
<1>5. f % base \in Int /\ (f % base) - old = f % base
  BY <1>1, DigitOf
<1> QED BY <1>3, <1>4, <1>5, Zenon DEF arg, base

LEMMA MovSet ==
    ASSUME NEW f \in Nat, NEW a \in Nat, a < 16
    PROVE  instr_set_bitfield(f, REGISTER_BIT_LEN, NumberArg(a, 0), 4) =
                NumberArg(a, (f % 32) * W15)
<1> DEFINE arg == NumberArg(a, 0)
           base == 32
           old == 0
           unit == W15
<1>1. /\ base \in Nat \ {0} /\ unit \in Nat \ {0} /\ f \in Int /\ old = 0
      /\ 2^REGISTER_BIT_LEN = base
      /\ 2^(SPU_INSTR_ARG_BITLEN - REGISTER_BIT_LEN - 4) = unit
  BY NumberShifts
<1>2. Digit(arg, base, unit, old)
  BY NumberShifts, MovDigit, SMT
<1>3. \A g \in Int : arg + g * unit = NumberArg(a, g * W15)
  BY NumberShifts, SMT DEF NumberArg
<1> HIDE DEF arg, base, old, unit
<1>4. instr_set_bitfield(f, REGISTER_BIT_LEN, arg, 4) =
        arg + ((f % base) - old) * unit
  <2>1. (arg \div unit) % base = old
    BY <1>1, <1>2, DigitRead, SMT
  <2> QED BY <1>1, <2>1, Zenon DEF instr_set_bitfield
<1>5. f % base \in Int /\ (f % base) - old = f % base
  BY <1>1, DigitOf
<1> QED BY <1>3, <1>4, <1>5, Zenon DEF arg, base

LEMMA NumberSet ==
    ASSUME NEW n \in Int, NEW a \in Nat, a < 16
    PROVE  instr_set_bitfield(n, INTEGER_BLEN, NumberArg(a, 0), FREGISTER_BIT_LEN) =
                NumberArg(a, n % W20)
<1> DEFINE arg == NumberArg(a, 0)
           base == W20
           old == 0
           unit == 1
<1>1. /\ base \in Nat \ {0} /\ unit \in Nat \ {0} /\ n \in Int /\ old = 0
      /\ 2^INTEGER_BLEN = base
      /\ 2^(SPU_INSTR_ARG_BITLEN - INTEGER_BLEN - FREGISTER_BIT_LEN) = unit
  BY NumberShifts
<1>2. Digit(arg, base, unit, old)
  BY NumberShifts, NumberDigits, SMT
<1>3. \A g \in Int : arg + g * unit = NumberArg(a, g)
  BY NumberShifts, SMT DEF NumberArg
<1> HIDE DEF arg, base, old, unit
<1>4. instr_set_bitfield(n, INTEGER_BLEN, arg, FREGISTER_BIT_LEN) =
        arg + ((n % base) - old) * unit
  <2>1. (arg \div unit) % base = old
    BY <1>1, <1>2, DigitRead, SMT
  <2> QED BY <1>1, <2>1, Zenon DEF instr_set_bitfield
<1>5. n % base \in Int /\ (n % base) - old = n % base
  BY <1>1, DigitOf
<1> QED BY <1>3, <1>4, <1>5, Zenon DEF arg, base

-----------------------------------------------------------------------------
(* op_table *)

(* Directives have no number and a code that the table holds; of the       *)
(* others, mov has two registers and the rest a register (or condition) and*)
(* a number.                                                               *)
LEMMA Layouts ==
    ASSUME NEW op \in Opcodes
    PROVE  /\ Registers(op) \in 0..3
           /\ is_directive(op) \in BOOLEAN
           /\ is_directive(op) => ~HasNumber(op) /\ Code(op) \in Nat /\ Code(op) < MAX_OPCODE
           /\ ~is_directive(op) => /\ Code(op) \in 1..5
                                   /\ \/ op = "mov" /\ Registers(op) = 2 /\ ~HasNumber(op)
                                      \/ Registers(op) = 1 /\ HasNumber(op)
<1>1. Registers(op) \in 0..3 /\ is_directive(op) \in BOOLEAN
  BY DEF Registers, is_directive
<1>2. CASE op \in {"mov", "ldc", "jmp", "call", "ldp"}
  <2>1. ~is_directive(op)
    BY <1>2 DEF is_directive, Directive
  <2>2. Code(op) \in 1..5
    BY <1>2, <2>1 DEF Code, Basic
  <2>3. \/ op = "mov" /\ Registers(op) = 2 /\ ~HasNumber(op)
        \/ Registers(op) = 1 /\ HasNumber(op)
    <3>1. CASE op = "mov"
      <4>1. /\ op \notin TripleRegOps /\ op \in DoubleRegOps /\ op \notin NumberOps \cup JumpOps
            /\ op \notin SingleRegOps
        BY <3>1 DEF JumpOps, NumberOps, SingleRegOps, DoubleRegOps, TripleRegOps
      <4> QED BY <3>1, <4>1 DEF Registers, HasNumber
    <3>2. CASE op # "mov"
      <4>1. /\ op \notin TripleRegOps /\ op \notin DoubleRegOps /\ op \in NumberOps \cup JumpOps
            /\ op \notin SingleRegOps
        BY <1>2, <3>2 DEF JumpOps, NumberOps, SingleRegOps, DoubleRegOps, TripleRegOps
      <4>2. op \in SingleRegOps \cup NumberOps \cup JumpOps
        BY <4>1
      <4>3. Registers(op) = 1
        BY <4>1, <4>2 DEF Registers
      <4> QED BY <4>1, <4>3 DEF HasNumber
    <3> QED BY <3>1, <3>2
  <2> QED BY <1>1, <2>1, <2>2, <2>3
<1>3. CASE op \notin {"mov", "ldc", "jmp", "call", "ldp"}
  <2>1. is_directive(op)
    BY <1>3 DEF is_directive, Directive, Opcodes, NoArgOps, JumpOps, NumberOps, SingleRegOps,
                DoubleRegOps, TripleRegOps
  <2>2. ~HasNumber(op)
    BY <1>3 DEF HasNumber, JumpOps, NumberOps
  <2>3. Code(op) \in Nat /\ Code(op) < MAX_OPCODE
    BY <2>1, SMT DEF MAX_OPCODE, Code, Directive, is_directive
  <2> QED BY <1>1, <2>1, <2>2, <2>3
<1> QED BY <1>2, <1>3

(* No two entries of one table have the same code.                         *)
LEMMA CodesDiffer ==
    ASSUME NEW op \in Opcodes, NEW other \in Opcodes, is_directive(op) = is_directive(other),
           Code(op) = Code(other)
    PROVE  op = other
<1>1. CASE is_directive(op)
  <2>1. Directive[op] = Directive[other] /\ op \in DOMAIN Directive /\ other \in DOMAIN Directive
    BY <1>1 DEF is_directive, Code
  <2> QED BY <2>1 DEF Directive
<1>2. CASE ~is_directive(op)
  <2>1. Basic[op] = Basic[other]
    BY <1>2 DEF Code
  <2>2. \A o \in Opcodes : ~is_directive(o) => o \in DOMAIN Basic
    BY DEF is_directive, Directive, Opcodes, NoArgOps, JumpOps, NumberOps, SingleRegOps,
           DoubleRegOps, TripleRegOps, Basic
  <2> QED BY <1>2, <2>1, <2>2 DEF Basic
<1> QED BY <1>1, <1>2 DEF is_directive

-----------------------------------------------------------------------------
(* Instructions *)

Instr(code, head, arg) == [code |-> code, reg_extended |-> head, arg |-> arg]

(* The fields of an instruction, and what setting one of them makes.       *)
LEMMA InstrFields ==
    ASSUME NEW c, NEW e, NEW x, NEW r, r = Instr(c, e, x)
    PROVE  r.code = c /\ r.reg_extended = e /\ r.arg = x
BY DEF Instr

LEMMA InstrArgSet ==
    ASSUME NEW c, NEW e, NEW x, NEW y, NEW r, r = Instr(c, e, x), NEW s, s = [r EXCEPT !.arg = y]
    PROVE  s = Instr(c, e, y)
<1>1. s.arg = y /\ s.code = c /\ s.reg_extended = e
  BY DEF Instr
<1>2. s = [code |-> s.code, reg_extended |-> s.reg_extended, arg |-> s.arg]
  BY DEF Instr
<1> QED BY <1>1, <1>2 DEF Instr

LEMMA InstrCodeSet ==
    ASSUME NEW c, NEW e, NEW x, NEW h, NEW r, r = Instr(c, e, x), NEW s, s = [r EXCEPT !.code = h]
    PROVE  s = Instr(h, e, x)
<1>1. s.arg = x /\ s.code = h /\ s.reg_extended = e
  BY DEF Instr
<1>2. s = [code |-> s.code, reg_extended |-> s.reg_extended, arg |-> s.arg]
  BY DEF Instr
<1> QED BY <1>1, <1>2 DEF Instr

LEMMA Positions ==
    ASSUME NEW op \in Opcodes
    PROVE  /\ is_directive(op) => /\ Position(op, 1) = 10 /\ Position(op, 2) = 14
                                  /\ Position(op, 3) = 19
           /\ ~is_directive(op) => Position(op, 1) = 0 /\ Position(op, 2) = 4
BY SMT DEF Position, Offset, DIRECTIVE_INSTR_BITLEN, FREGISTER_BIT_LEN, REGISTER_BIT_LEN

(* A register is a head bit and a tail of four bits.                       *)
LEMMA HeadAndTail ==
    ASSUME NEW r \in Nat, r < 32
    PROVE  /\ r \div 16 \in 0..1 /\ r % 16 \in Nat /\ r % 16 < 16 /\ r % 32 = r
           /\ (r % 16) + (r \div 16) * 16 = r
BY SMT

(* What SetOperand does to an instruction.                                 *)
LEMMA OperandSet ==
    ASSUME NEW d, NEW c, NEW e, NEW x, Registers(d.op) \in 0..3
    PROVE  /\ ~(Registers(d.op) < 1) =>
                 SetOperand(Instr(c, e, x), d, 1) =
                 Instr(c, d.rdest \div 16,
                       instr_set_bitfield(d.rdest, FREGISTER_BIT_LEN, x, Position(d.op, 1)))
           /\ ~(Registers(d.op) < 2) =>
                 SetOperand(Instr(c, e, x), d, 2) =
                 Instr(c, e, instr_set_bitfield(d.rsrc1, REGISTER_BIT_LEN, x, Position(d.op, 2)))
           /\ ~(Registers(d.op) < 3) =>
                 SetOperand(Instr(c, e, x), d, 3) =
                 Instr(c, e, instr_set_bitfield(d.rsrc2, REGISTER_BIT_LEN, x, Position(d.op, 3)))
<1> DEFINE i == Instr(c, e, x)
<1>1. Operands(d)[1] = d.rdest /\ Operands(d)[2] = d.rsrc1 /\ Operands(d)[3] = d.rsrc2
  BY DEF Operands
<1>2. 2^FREGISTER_BIT_LEN = 16
  BY DirectiveShifts
<1>6. i = Instr(c, e, x)
  OBVIOUS
<1> HIDE DEF i
<1>3. ASSUME ~(Registers(d.op) < 1)
      PROVE  SetOperand(i, d, 1) =
               Instr(c, d.rdest \div 16, instr_set_bitfield(d.rdest, FREGISTER_BIT_LEN, x, Position(d.op, 1)))
  <2> DEFINE h == d.rdest \div 2^FREGISTER_BIT_LEN
             y == instr_set_bitfield(d.rdest, FREGISTER_BIT_LEN, x, Position(d.op, 1))
  <2>1. SetOperand(i, d, 1) = instr_set_register(d.rdest, i, Position(d.op, 1), 1 = 1)
    BY <1>1, <1>3, SMT DEF SetOperand
  <2>2. i.arg = x
    BY <1>6, InstrFields
  <2>3. SetOperand(i, d, 1) = [i EXCEPT !.reg_extended = h, !.arg = y]
    BY <2>1, <2>2, SMT DEF instr_set_register
  <2> HIDE DEF h, y
  <2> DEFINE s == SetOperand(i, d, 1)
  <2>5. s = [i EXCEPT !.reg_extended = h, !.arg = y]
    BY <2>3
  <2> HIDE DEF s
  <2>6. s.arg = y /\ s.code = c /\ s.reg_extended = h
    BY <1>6, <2>5 DEF Instr
  <2>7. s = [code |-> s.code, reg_extended |-> s.reg_extended, arg |-> s.arg]
    BY <1>6, <2>5 DEF Instr
  <2>4. s = Instr(c, h, y)
    BY <2>6, <2>7, Zenon DEF Instr
  <2> QED BY <1>2, <2>4, Zenon DEF h, y, s
<1>4. ASSUME ~(Registers(d.op) < 2)
      PROVE  SetOperand(i, d, 2) =
               Instr(c, e, instr_set_bitfield(d.rsrc1, REGISTER_BIT_LEN, x, Position(d.op, 2)))
  <2> DEFINE y == instr_set_bitfield(d.rsrc1, REGISTER_BIT_LEN, x, Position(d.op, 2))
  <2>1. SetOperand(i, d, 2) = instr_set_register(d.rsrc1, i, Position(d.op, 2), 2 = 1)
    BY <1>1, <1>4, SMT DEF SetOperand
  <2>2. i.arg = x
    BY <1>6, InstrFields
  <2>3. SetOperand(i, d, 2) = [i EXCEPT !.arg = y]
    BY <2>1, <2>2, SMT DEF instr_set_register
  <2> HIDE DEF y
  <2>4. SetOperand(i, d, 2) = Instr(c, e, y)
    BY <1>6, <2>3, InstrArgSet
  <2> QED BY <2>4 DEF y
<1>5. ASSUME ~(Registers(d.op) < 3)
      PROVE  SetOperand(i, d, 3) =
               Instr(c, e, instr_set_bitfield(d.rsrc2, REGISTER_BIT_LEN, x, Position(d.op, 3)))
  <2> DEFINE y == instr_set_bitfield(d.rsrc2, REGISTER_BIT_LEN, x, Position(d.op, 3))
  <2>1. SetOperand(i, d, 3) = instr_set_register(d.rsrc2, i, Position(d.op, 3), 3 = 1)
    BY <1>1, <1>5, SMT DEF SetOperand
  <2>2. i.arg = x
    BY <1>6, InstrFields
  <2>3. SetOperand(i, d, 3) = [i EXCEPT !.arg = y]
    BY <2>1, <2>2, SMT DEF instr_set_register
  <2> HIDE DEF y
  <2>4. SetOperand(i, d, 3) = Instr(c, e, y)
    BY <1>6, <2>3, InstrArgSet
  <2> QED BY <2>4 DEF y
<1> QED BY <1>3, <1>4, <1>5 DEF i

(* The word that the writer of a directive makes.                          *)
LEMMA DirectiveWritten ==
    ASSUME NEW d, Encodable(d), is_directive(d.op)
    PROVE  write_binary(d) = Instr(DIRECTIVE_OPCODE, d.rdest \div 16,
                                   DirectiveArg(Code(d.op), d.rdest % 16, d.rsrc1, d.rsrc2))
<1> DEFINE op == d.op
           a == d.rdest % 16
           h == d.rdest \div 16
           one == SetOperand(Blank, d, 1)
           two == SetOperand(one, d, 2)
           three == SetOperand(two, d, 3)
<1>1. /\ op \in Opcodes /\ d.rdest \in Nat /\ d.rsrc1 \in Nat /\ d.rsrc2 \in Nat
      /\ d.rdest < 32 /\ d.rsrc1 < 32 /\ d.rsrc2 < 32
  BY BitsAssumption, NumberShifts, SMT DEF Encodable, Register
<1>2. a \in Nat /\ a < 16 /\ d.rsrc1 % 32 = d.rsrc1 /\ d.rsrc2 % 32 = d.rsrc2
  BY <1>1, HeadAndTail
<1>4. Position(op, 1) = 10 /\ Position(op, 2) = 14 /\ Position(op, 3) = 19
  BY <1>1, Positions
<1>5. Registers(op) \in 0..3 /\ Code(op) \in Nat /\ Code(op) < MAX_OPCODE
  BY <1>1, Layouts, Zenon
<1>6. Blank = Instr(0, 0, DirectiveArg(0, 0, 0, 0))
  BY DirectiveShifts, SMT DEF Blank, Instr, DirectiveArg
<1>7. one = Instr(0, h, DirectiveArg(0, a, 0, 0))
  <2>1. CASE Registers(op) < 1
    <3>1. d.rdest = 0
      BY <2>1 DEF Encodable
    <3>2. one = Blank
      BY <1>5, <2>1 DEF SetOperand
    <3> QED BY <1>6, <3>1, <3>2, SMT
  <2>2. CASE ~(Registers(op) < 1)
    <3>1. one = Instr(0, h, instr_set_bitfield(d.rdest, FREGISTER_BIT_LEN, DirectiveArg(0, 0, 0, 0), 10))
      BY <1>4, <1>5, <1>6, <2>2, OperandSet
    <3>2. instr_set_bitfield(d.rdest, FREGISTER_BIT_LEN, DirectiveArg(0, 0, 0, 0), 10) =
            DirectiveArg(0, a, 0, 0)
      BY <1>1, RdestSet, SMT
    <3> QED BY <3>1, <3>2, Zenon
  <2> QED BY <2>1, <2>2
<1>8. two = Instr(0, h, DirectiveArg(0, a, d.rsrc1, 0))
  <2> HIDE DEF one, a, h
  <2>1. CASE Registers(op) < 2
    <3>1. d.rsrc1 = 0
      BY <2>1 DEF Encodable
    <3>2. two = one
      BY <1>5, <2>1 DEF SetOperand
    <3> QED BY <1>7, <3>1, <3>2
  <2>2. CASE ~(Registers(op) < 2)
    <3>1. two = Instr(0, h, instr_set_bitfield(d.rsrc1, REGISTER_BIT_LEN, DirectiveArg(0, a, 0, 0), 14))
      BY <1>4, <1>5, <1>7, <2>2, OperandSet
    <3>2. instr_set_bitfield(d.rsrc1, REGISTER_BIT_LEN, DirectiveArg(0, a, 0, 0), 14) =
            DirectiveArg(0, a, d.rsrc1, 0)
      BY <1>1, <1>2, Rsrc1Set, SMT
    <3> QED BY <3>1, <3>2, Zenon
  <2> QED BY <2>1, <2>2
<1>9. three = Instr(0, h, DirectiveArg(0, a, d.rsrc1, d.rsrc2))
  <2> HIDE DEF two, a, h
  <2>1. CASE Registers(op) < 3
    <3>1. d.rsrc2 = 0
      BY <2>1 DEF Encodable
    <3>2. three = two
      BY <1>5, <2>1 DEF SetOperand
    <3> QED BY <1>8, <3>1, <3>2
  <2>2. CASE ~(Registers(op) < 3)
    <3>1. three = Instr(0, h, instr_set_bitfield(d.rsrc2, REGISTER_BIT_LEN, DirectiveArg(0, a, d.rsrc1, 0), 19))
      BY <1>4, <1>5, <1>8, <2>2, OperandSet
    <3>2. instr_set_bitfield(d.rsrc2, REGISTER_BIT_LEN, DirectiveArg(0, a, d.rsrc1, 0), 19) =
            DirectiveArg(0, a, d.rsrc1, d.rsrc2)
      BY <1>1, <1>2, Rsrc2Set, SMT
    <3> QED BY <3>1, <3>2, Zenon
  <2> QED BY <2>1, <2>2
<1>10. write_binary(d) = [three EXCEPT !.arg = instr_set_bitfield(Code(op), DIRECTIVE_INSTR_BITLEN, @, 0),
                                       !.code = DIRECTIVE_OPCODE]
  BY DEF write_binary, WithRegisters
<1> HIDE DEF three, a, h, op
<1>11. write_binary(d) = Instr(DIRECTIVE_OPCODE, h,
            instr_set_bitfield(Code(op), DIRECTIVE_INSTR_BITLEN, DirectiveArg(0, a, d.rsrc1, d.rsrc2), 0))
  BY <1>9, <1>10 DEF Instr
<1>12. instr_set_bitfield(Code(op), DIRECTIVE_INSTR_BITLEN, DirectiveArg(0, a, d.rsrc1, d.rsrc2), 0) =
        DirectiveArg(Code(op) % W10, a, d.rsrc1, d.rsrc2)
  BY <1>1, <1>2, <1>5, OpcodeSet, SMT
<1>13. Code(op) % W10 = Code(op)
  BY <1>5, SMT DEF W10, MAX_OPCODE
<1> QED BY <1>11, <1>12, <1>13 DEF op, a, h

(* The word that the writer of any other operation makes.                  *)
LEMMA BasicWritten ==
    ASSUME NEW d, Encodable(d), ~is_directive(d.op)
    PROVE  write_binary(d) =
             Instr(Code(d.op), d.rdest \div 16,
                   NumberArg(d.rdest % 16, IF d.op = "mov" THEN d.rsrc1 * W15 ELSE d.num % W20))
<1> DEFINE op == d.op
           a == d.rdest % 16
           h == d.rdest \div 16
           one == SetOperand(Blank, d, 1)
           two == SetOperand(one, d, 2)
           three == SetOperand(two, d, 3)
<1>1. /\ op \in Opcodes /\ d.rdest \in Nat /\ d.rsrc1 \in Nat /\ d.num \in Int
      /\ d.rdest < 32 /\ d.rsrc1 < 32
  BY BitsAssumption, NumberShifts, IsaAssumption, SMT DEF Encodable, Register, Field
<1>2. a \in Nat /\ a < 16 /\ d.rsrc1 % 32 = d.rsrc1
  BY <1>1, HeadAndTail
<1>3. Position(op, 1) = 0 /\ Position(op, 2) = 4
  BY <1>1, Positions
<1>4. Registers(op) \in 0..3 /\ Code(op) \in 1..5
      /\ (\/ op = "mov" /\ Registers(op) = 2 /\ ~HasNumber(op)
          \/ op # "mov" /\ Registers(op) = 1 /\ HasNumber(op))
  BY <1>1, Layouts DEF HasNumber, NumberOps, JumpOps
<1>5. Blank = Instr(0, 0, NumberArg(0, 0))
  BY NumberShifts, SMT DEF Blank, Instr, NumberArg
<1>6. one = Instr(0, h, NumberArg(a, 0))
  <2>1. one = Instr(0, h, instr_set_bitfield(d.rdest, FREGISTER_BIT_LEN, NumberArg(0, 0), 0))
    BY <1>3, <1>4, <1>5, OperandSet
  <2>2. instr_set_bitfield(d.rdest, FREGISTER_BIT_LEN, NumberArg(0, 0), 0) = NumberArg(a, 0)
    BY <1>1, <1>2, HeadSet, Zenon
  <2> QED BY <2>1, <2>2, Zenon
<1> HIDE DEF one, a, h
<1>7. three = two
  BY <1>4 DEF SetOperand
<1>8. CASE op = "mov" /\ Registers(op) = 2 /\ ~HasNumber(op)
  <2>1. two = Instr(0, h, instr_set_bitfield(d.rsrc1, REGISTER_BIT_LEN, NumberArg(a, 0), 4))
    BY <1>3, <1>4, <1>6, <1>8, OperandSet
  <2>2. instr_set_bitfield(d.rsrc1, REGISTER_BIT_LEN, NumberArg(a, 0), 4) = NumberArg(a, d.rsrc1 * W15)
    BY <1>1, <1>2, MovSet, Zenon
  <2>3. two = Instr(0, h, NumberArg(a, d.rsrc1 * W15))
    BY <2>1, <2>2, Zenon
  <2>4. write_binary(d) = [three EXCEPT !.code = Code(op)]
    BY <1>8 DEF write_binary, WithRegisters, one
  <2> HIDE DEF two, three
  <2>5. write_binary(d) = Instr(Code(op), h, NumberArg(a, d.rsrc1 * W15))
    BY <1>7, <2>3, <2>4, InstrCodeSet
  <2> QED BY <1>8, <2>5 DEF a, h
<1>9. CASE op # "mov" /\ Registers(op) = 1 /\ HasNumber(op)
  <2> DEFINE nums == [three EXCEPT !.arg = instr_set_bitfield(d.num, INTEGER_BLEN, @, FREGISTER_BIT_LEN)]
             x == instr_set_bitfield(d.num, INTEGER_BLEN, NumberArg(a, 0), FREGISTER_BIT_LEN)
  <2>1. two = one
    BY <1>4, <1>9 DEF SetOperand
  <2>2. x = NumberArg(a, d.num % W20)
    BY <1>1, <1>2, NumberSet, Zenon
  <2>3. write_binary(d) = [nums EXCEPT !.code = Code(op)]
    BY <1>9 DEF write_binary, WithRegisters, one
  <2> HIDE DEF two, three
  <2>4. three = Instr(0, h, NumberArg(a, 0))
    BY <1>6, <1>7, <2>1
  <2>5. three.arg = NumberArg(a, 0)
    BY <2>4, InstrFields
  <2>6. nums = [three EXCEPT !.arg = x]
    BY <2>5
  <2> HIDE DEF nums, x
  <2>7. nums = Instr(0, h, x)
    BY <2>4, <2>6, InstrArgSet
  <2>8. write_binary(d) = Instr(Code(op), h, x)
    BY <2>3, <2>7, InstrCodeSet
  <2> QED BY <1>9, <2>2, <2>8 DEF a, h
<1> QED BY <1>4, <1>8, <1>9

-----------------------------------------------------------------------------
(* A written instruction is read back *)

LEMMA EncodableFields ==
    ASSUME NEW d, Encodable(d)
    PROVE  /\ d.op \in Opcodes /\ d.rdest \in Nat /\ d.rsrc1 \in Nat /\ d.rsrc2 \in Nat
           /\ d.rdest < 32 /\ d.rsrc1 < 32 /\ d.rsrc2 < 32 /\ d.num \in Field
           /\ d = [op |-> d.op, rdest |-> d.rdest, rsrc1 |-> d.rsrc1, rsrc2 |-> d.rsrc2, num |-> d.num]
<1>1. N_REGISTERS = 32
  BY BitsAssumption, NumberShifts
<1>2. d \in [op : Opcodes, rdest : Register, rsrc1 : Register, rsrc2 : Register, num : Field]
  BY DEF Encodable
<1>3. d = [op |-> d.op, rdest |-> d.rdest, rsrc1 |-> d.rsrc1, rsrc2 |-> d.rsrc2, num |-> d.num]
  BY <1>2
<1> QED BY <1>1, <1>2, <1>3, SMT DEF Register

(* The table finds an operation by its code.                               *)
LEMMA Found ==
    ASSUME NEW op \in Opcodes
    PROVE  find_op_cmd_opcode(Code(op), is_directive(op)) = {op}
<1>1. Code(op) < MAX_OPCODE
  BY Layouts, SMT DEF MAX_OPCODE
<1>2. \A other \in Opcodes : is_directive(other) = is_directive(op) /\ Code(other) = Code(op)
                                => other = op
  BY CodesDiffer, Zenon
<1> QED BY <1>1, <1>2, Zenon DEF find_op_cmd_opcode

(* A number of 20 bits keeps its sign.                                     *)
LEMMA SignExtended ==
    ASSUME NEW n \in Field
    PROVE  n % W20 \in Nat /\ n % W20 < W20 /\ bit_extend_signed(n % W20) = n
<1>1. FieldHalf \in Nat \ {0} /\ W20 = 2 * FieldHalf
  <2>1. FieldHalf = 2^19
    BY BitsAssumption, SMT DEF INTEGER_BLEN
  <2> QED BY <2>1, SMT DEF W20
<1>2. n \in Int /\ -FieldHalf <= n /\ n < FieldHalf
  BY <1>1 DEF Field
<1>3. CASE n >= 0
  <2>1. n % W20 = n
    <3>1. n = 0 * W20 + n /\ n \in 0..W20 - 1 /\ W20 \in Nat \ {0}
      BY <1>1, <1>2, <1>3, SMT
    <3> QED BY <1>1, <1>2, <1>3, Z3
  <2> QED BY <1>1, <1>2, <1>3, <2>1 DEF bit_extend_signed
<1>4. CASE n < 0
  <2>1. n % W20 = n + W20
    BY <1>1, <1>2, <1>4, Z3
  <2> QED BY <1>1, <1>2, <1>4, <2>1 DEF bit_extend_signed
<1> QED BY <1>2, <1>3, <1>4

(* The operation of a written word is found again.                         *)
LEMMA OpcodeReadBack ==
    ASSUME NEW d, Encodable(d)
    PROVE  Opcode(write_binary(d)) = {d.op}
<1> DEFINE w == write_binary(d)
           a == d.rdest % 16
<1>1. d.op \in Opcodes
  BY EncodableFields
<1>2. CASE is_directive(d.op)
  <2> DEFINE x == DirectiveArg(Code(d.op), a, d.rsrc1, d.rsrc2)
  <2>1. w = Instr(DIRECTIVE_OPCODE, d.rdest \div 16, x)
    BY <1>2, DirectiveWritten, Zenon
  <2>2. /\ Code(d.op) \in Nat /\ Code(d.op) < W10 /\ a \in Nat /\ a < 16
        /\ d.rsrc1 \in Nat /\ d.rsrc1 < 32 /\ d.rsrc2 \in Nat /\ d.rsrc2 < 32
    BY <1>1, <1>2, Layouts, EncodableFields, HeadAndTail, SMT DEF W10, MAX_OPCODE
  <2>3. instr_get_bitfield(DIRECTIVE_INSTR_BITLEN, x, 0) = Code(d.op)
    BY <2>2, DirectiveGets, SMT
  <2> HIDE DEF x, w, a
  <2>4. w.code = DIRECTIVE_OPCODE /\ w.arg = x
    BY <2>1, InstrFields
  <2>5. Opcode(w) = find_op_cmd_opcode(Code(d.op), TRUE)
    BY <2>3, <2>4, Zenon DEF Opcode
  <2>6. is_directive(d.op) = TRUE
    BY <1>1, <1>2, Layouts
  <2> QED BY <1>1, <2>5, <2>6, Found, Zenon DEF w
<1>3. CASE ~is_directive(d.op)
  <2>1. w.code = Code(d.op)
    <3>1. PICK x : w = Instr(Code(d.op), d.rdest \div 16, x)
      BY <1>3, BasicWritten, Zenon
    <3> QED BY <3>1, InstrFields
  <2>2. Code(d.op) # DIRECTIVE_OPCODE
    BY <1>1, <1>3, Layouts, SMT DEF DIRECTIVE_OPCODE
  <2> HIDE DEF w
  <2>3. Opcode(w) = find_op_cmd_opcode(Code(d.op), FALSE)
    BY <2>1, <2>2, Zenon DEF Opcode
  <2>4. is_directive(d.op) = FALSE
    BY <1>1, <1>3, Layouts
  <2> QED BY <1>1, <2>3, <2>4, Found, Zenon DEF w
<1> QED BY <1>2, <1>3

(* What GetOperand finds in an instruction.                                *)
LEMMA OperandRead ==
    ASSUME NEW op, NEW c, NEW e, NEW x, NEW w, w = Instr(c, e, x), Registers(op) \in 0..3
    PROVE  /\ GetOperand(w, op, 1) =
                 IF Registers(op) < 1 THEN 0
                 ELSE instr_get_bitfield(FREGISTER_BIT_LEN, x, Position(op, 1)) + e * 16
           /\ GetOperand(w, op, 2) =
                 IF Registers(op) < 2 THEN 0
                 ELSE instr_get_bitfield(REGISTER_BIT_LEN, x, Position(op, 2))
           /\ GetOperand(w, op, 3) =
                 IF Registers(op) < 3 THEN 0
                 ELSE instr_get_bitfield(REGISTER_BIT_LEN, x, Position(op, 3))
<1>1. w.reg_extended = e /\ w.arg = x
  BY InstrFields
<1>2. 2^FREGISTER_BIT_LEN = 16
  BY DirectiveShifts
<1>5. Registers(op) < 1 <=> 1 > Registers(op)
  BY SMT
<1>6. Registers(op) < 2 <=> 2 > Registers(op)
  BY SMT
<1>7. Registers(op) < 3 <=> 3 > Registers(op)
  BY SMT
<1>8. GetOperand(w, op, 1) =
        IF Registers(op) < 1 THEN 0
        ELSE instr_get_bitfield(FREGISTER_BIT_LEN, x, Position(op, 1)) + e * 16
  BY <1>1, <1>2, <1>5, SMT DEF GetOperand, instr_get_register
<1>9. GetOperand(w, op, 2) =
        IF Registers(op) < 2 THEN 0 ELSE instr_get_bitfield(REGISTER_BIT_LEN, x, Position(op, 2))
  BY <1>1, <1>6, SMT DEF GetOperand, instr_get_register
<1>10. GetOperand(w, op, 3) =
        IF Registers(op) < 3 THEN 0 ELSE instr_get_bitfield(REGISTER_BIT_LEN, x, Position(op, 3))
  BY <1>1, <1>7, SMT DEF GetOperand, instr_get_register
<1> QED BY <1>8, <1>9, <1>10

LEMMA OperandsReadBack ==
    ASSUME NEW d, Encodable(d)
    PROVE  /\ GetOperand(write_binary(d), d.op, 1) = d.rdest
           /\ GetOperand(write_binary(d), d.op, 2) = d.rsrc1
           /\ GetOperand(write_binary(d), d.op, 3) = d.rsrc2
<1> DEFINE w == write_binary(d)
           a == d.rdest % 16
           h == d.rdest \div 16
<1>1. /\ d.op \in Opcodes /\ Registers(d.op) \in 0..3
      /\ Registers(d.op) < 1 => d.rdest = 0
      /\ Registers(d.op) < 2 => d.rsrc1 = 0
      /\ Registers(d.op) < 3 => d.rsrc2 = 0
      /\ d.rsrc1 \in Nat /\ d.rsrc1 < 32 /\ d.rsrc2 \in Nat /\ d.rsrc2 < 32
  BY EncodableFields, Layouts DEF Encodable
<1>2. a + h * 16 = d.rdest /\ a \in Nat /\ a < 16
  BY EncodableFields, HeadAndTail
<1>3. CASE is_directive(d.op)
  <2> DEFINE x == DirectiveArg(Code(d.op), a, d.rsrc1, d.rsrc2)
  <2>1. w = Instr(DIRECTIVE_OPCODE, h, x)
    BY <1>3, DirectiveWritten, Zenon
  <2>2. Code(d.op) \in Nat /\ Code(d.op) < W10
    BY <1>1, <1>3, Layouts, SMT DEF W10, MAX_OPCODE
  <2>3. /\ instr_get_bitfield(FREGISTER_BIT_LEN, x, 10) = a
        /\ instr_get_bitfield(REGISTER_BIT_LEN, x, 14) = d.rsrc1
        /\ instr_get_bitfield(REGISTER_BIT_LEN, x, 19) = d.rsrc2
    BY <1>1, <1>2, <2>2, DirectiveGets, SMT
  <2>4. Position(d.op, 1) = 10 /\ Position(d.op, 2) = 14 /\ Position(d.op, 3) = 19
    BY <1>1, <1>3, Positions
  <2> HIDE DEF x, w, a, h
  <2> QED BY <1>1, <1>2, <2>1, <2>3, <2>4, OperandRead DEF w
<1>4. CASE ~is_directive(d.op)
  <2> DEFINE n == IF d.op = "mov" THEN d.rsrc1 * W15 ELSE d.num % W20
             x == NumberArg(a, n)
  <2>1. w = Instr(Code(d.op), h, x)
    BY <1>4, BasicWritten, Zenon
  <2>2. Position(d.op, 1) = 0 /\ Position(d.op, 2) = 4
    BY <1>1, <1>4, Positions
  <2>3. \/ d.op = "mov" /\ Registers(d.op) = 2
        \/ Registers(d.op) = 1
    BY <1>1, <1>4, Layouts, Zenon
  <2>4. n \in Nat /\ n < W20
    <3>1. d.rsrc1 * W15 \in Nat /\ d.rsrc1 * W15 < W20
      BY <1>1, SMT DEF W15, W20
    <3>2. d.num % W20 \in Nat /\ d.num % W20 < W20
      BY EncodableFields, SignExtended
    <3> QED BY <3>1, <3>2
  <2>5. instr_get_bitfield(FREGISTER_BIT_LEN, x, 0) = a
    <3> HIDE DEF n
    <3> QED BY <1>2, <2>4, BasicGets, Zenon
  <2>6. d.op = "mov" => instr_get_bitfield(REGISTER_BIT_LEN, x, 4) = d.rsrc1
    <3>1. instr_get_bitfield(REGISTER_BIT_LEN, NumberArg(a, d.rsrc1 * W15), 4) = d.rsrc1
      BY <1>1, <1>2, MovGets, Zenon
    <3> QED BY <3>1, Zenon
  <2> HIDE DEF x, w, a, h
  <2>7. GetOperand(w, d.op, 1) = d.rdest
    BY <1>1, <1>2, <2>1, <2>2, <2>3, <2>5, OperandRead
  <2>8. GetOperand(w, d.op, 2) = d.rsrc1
    BY <1>1, <2>1, <2>2, <2>3, <2>6, OperandRead
  <2>9. GetOperand(w, d.op, 3) = d.rsrc2
    BY <1>1, <2>1, <2>3, OperandRead
  <2> QED BY <2>7, <2>8, <2>9 DEF w
<1> QED BY <1>3, <1>4

(* parse_binary undoes write_binary, for all operations and operands: no   *)
(* field of the word runs into another one, and no register loses its head *)
(* bit.                                                                    *)
THEOREM WordReadBack ==
    ASSUME NEW d, Encodable(d)
    PROVE  parse_binary(write_binary(d), d.op) = d
<1> DEFINE w == write_binary(d)
           n == IF HasNumber(d.op) THEN GetNumber(w) ELSE 0
<1>1. n = d.num
  <2>1. CASE HasNumber(d.op)
    <3> DEFINE u == d.num % W20
               a == d.rdest % 16
    <3>1. ~is_directive(d.op) /\ d.op # "mov"
      BY <2>1, EncodableFields, Layouts DEF HasNumber, NumberOps, JumpOps
    <3>2. w.arg = NumberArg(d.rdest % 16, u)
      <4>1. w = Instr(Code(d.op), d.rdest \div 16, NumberArg(d.rdest % 16, u))
        BY <3>1, BasicWritten
      <4> HIDE DEF w, u
      <4> QED BY <4>1, InstrFields
    <3>3. u \in Nat /\ u < W20 /\ bit_extend_signed(u) = d.num
      BY EncodableFields, SignExtended
    <3>4. d.rdest % 16 \in Nat /\ d.rdest % 16 < 16
      BY EncodableFields, HeadAndTail
    <3> HIDE DEF a, u, w
    <3>6. instr_get_bitfield(INTEGER_BLEN, NumberArg(a, u), FREGISTER_BIT_LEN) = u
      BY <3>3, <3>4, BasicGets, Zenon DEF a
    <3>5. instr_get_bitfield(INTEGER_BLEN, w.arg, FREGISTER_BIT_LEN) = u
      BY <3>2, <3>6, Zenon DEF a
    <3> QED BY <2>1, <3>3, <3>5, Zenon DEF GetNumber
  <2>2. CASE ~HasNumber(d.op)
    BY <2>2 DEF Encodable
  <2> QED BY <2>1, <2>2
<1> HIDE DEF n, w
<1>2. parse_binary(w, d.op) =
        [op |-> d.op, rdest |-> GetOperand(w, d.op, 1), rsrc1 |-> GetOperand(w, d.op, 2),
         rsrc2 |-> GetOperand(w, d.op, 3), num |-> n]
  BY Zenon DEF parse_binary, n
<1>3. /\ GetOperand(w, d.op, 1) = d.rdest /\ GetOperand(w, d.op, 2) = d.rsrc1
      /\ GetOperand(w, d.op, 3) = d.rsrc2
  BY OperandsReadBack, Zenon DEF w
<1>4. parse_binary(w, d.op) =
        [op |-> d.op, rdest |-> d.rdest, rsrc1 |-> d.rsrc1, rsrc2 |-> d.rsrc2, num |-> d.num]
  BY <1>1, <1>2, <1>3, Zenon
<1> QED BY <1>4, EncodableFields, Zenon DEF w

-----------------------------------------------------------------------------
(* What is read from a word or from a line can be encoded *)

LEMMA BitfieldBounded ==
    ASSUME NEW len, NEW pos, NEW arg \in Int, NEW L \in Nat \ {0}, NEW P \in Nat \ {0},
           2^len = L, 2^(SPU_INSTR_ARG_BITLEN - len - pos) = P
    PROVE  instr_get_bitfield(len, arg, pos) \in Nat /\ instr_get_bitfield(len, arg, pos) < L
<1>1. (arg \div P) % L \in Nat /\ (arg \div P) % L < L
  BY Z3
<1> QED BY <1>1, Zenon DEF instr_get_bitfield

(* Every bit field is bounded, whatever the word.                          *)
LEMMA RegisterFieldsBounded ==
    ASSUME NEW arg \in Int
    PROVE  /\ \A pos \in {0, 10} : /\ instr_get_bitfield(FREGISTER_BIT_LEN, arg, pos) \in Nat
                                   /\ instr_get_bitfield(FREGISTER_BIT_LEN, arg, pos) < 16
           /\ \A pos \in {4, 14, 19} : /\ instr_get_bitfield(REGISTER_BIT_LEN, arg, pos) \in Nat
                                       /\ instr_get_bitfield(REGISTER_BIT_LEN, arg, pos) < 32
           /\ instr_get_bitfield(INTEGER_BLEN, arg, FREGISTER_BIT_LEN) \in Nat
           /\ instr_get_bitfield(INTEGER_BLEN, arg, FREGISTER_BIT_LEN) < W20
<1>1. /\ 16 \in Nat \ {0} /\ 32 \in Nat \ {0} /\ 1 \in Nat \ {0}
      /\ W10 \in Nat \ {0} /\ W15 \in Nat \ {0} /\ W20 \in Nat \ {0}
  BY DirectiveShifts, NumberShifts
<1>2. ASSUME NEW pos \in {0, 10}
      PROVE  /\ instr_get_bitfield(FREGISTER_BIT_LEN, arg, pos) \in Nat
             /\ instr_get_bitfield(FREGISTER_BIT_LEN, arg, pos) < 16
  BY <1>1, DirectiveShifts, NumberShifts, BitfieldBounded, Zenon
<1>3. ASSUME NEW pos \in {4, 14, 19}
      PROVE  /\ instr_get_bitfield(REGISTER_BIT_LEN, arg, pos) \in Nat
             /\ instr_get_bitfield(REGISTER_BIT_LEN, arg, pos) < 32
  BY <1>1, DirectiveShifts, NumberShifts, BitfieldBounded, Zenon
<1>4. /\ instr_get_bitfield(INTEGER_BLEN, arg, FREGISTER_BIT_LEN) \in Nat
      /\ instr_get_bitfield(INTEGER_BLEN, arg, FREGISTER_BIT_LEN) < W20
  BY <1>1, NumberShifts, BitfieldBounded, Zenon
<1> QED BY <1>2, <1>3, <1>4

LEMMA NoOperands ==
    ASSUME NEW op \in Opcodes
    PROVE  /\ op \in NoArgOps => Registers(op) = 0 /\ ~HasNumber(op) /\ op \notin JumpOps
           /\ op \in JumpOps => Registers(op) = 1 /\ HasNumber(op)
<1>1. CASE op \in NoArgOps
  <2>1. /\ op \notin TripleRegOps /\ op \notin DoubleRegOps /\ op \notin JumpOps
        /\ op \notin NumberOps /\ op \notin SingleRegOps
    BY <1>1 DEF NoArgOps, JumpOps, NumberOps, SingleRegOps, DoubleRegOps, TripleRegOps
  <2>2. op \notin SingleRegOps \cup NumberOps \cup JumpOps
    BY <2>1
  <2> QED BY <2>1, <2>2 DEF Registers, HasNumber
<1>2. CASE op \in JumpOps
  <2>1. op \notin TripleRegOps /\ op \notin DoubleRegOps /\ op \notin NoArgOps
    BY <1>2 DEF NoArgOps, JumpOps, DoubleRegOps, TripleRegOps
  <2>2. op \in SingleRegOps \cup NumberOps \cup JumpOps
    BY <1>2
  <2> QED BY <1>2, <2>1, <2>2 DEF Registers, HasNumber
<1> QED BY <1>1, <1>2

LEMMA ArgSize == 2^SPU_INSTR_ARG_BITLEN \in Nat
BY SMT DEF SPU_INSTR_ARG_BITLEN

(* Whatever binary a word comes from, what the parser makes of it fits.    *)
LEMMA ParsedEncodable ==
    ASSUME NEW w \in [code : 0..63, reg_extended : 0..1, arg : 0..2^SPU_INSTR_ARG_BITLEN - 1],
           NEW op \in Opcodes
    PROVE  Encodable(parse_binary(w, op)) /\ parse_binary(w, op).op = op
<1> DEFINE d == parse_binary(w, op)
           g1 == GetOperand(w, op, 1)
           g2 == GetOperand(w, op, 2)
           g3 == GetOperand(w, op, 3)
           n == IF HasNumber(op) THEN GetNumber(w) ELSE 0
<1>1. PICK c \in 0..63, e \in 0..1, x \in Int : w = Instr(c, e, x)
  <2> DEFINE size == 2^SPU_INSTR_ARG_BITLEN
             args == 0..size - 1
  <2>7. size \in Nat
    BY ArgSize
  <2>1. args \subseteq Int
    <3> HIDE DEF size
    <3> QED BY <2>7
  <2>2. w \in [code : 0..63, reg_extended : 0..1, arg : args]
    OBVIOUS
  <2> HIDE DEF args
  <2>3. w.code \in 0..63 /\ w.reg_extended \in 0..1 /\ w.arg \in args
    BY <2>2
  <2>4. w = [code |-> w.code, reg_extended |-> w.reg_extended, arg |-> w.arg]
    BY <2>2
  <2>5. \A c, e, x : [code |-> c, reg_extended |-> e, arg |-> x] = Instr(c, e, x)
    BY DEF Instr
  <2>6. w = Instr(w.code, w.reg_extended, w.arg)
    BY <2>4, <2>5, Zenon
  <2> QED BY <2>1, <2>3, <2>6, Zenon
<1>2. Registers(op) \in 0..3 /\ (is_directive(op) \/ Registers(op) < 3)
  BY Layouts
<1>3. /\ is_directive(op) => Position(op, 1) = 10 /\ Position(op, 2) = 14 /\ Position(op, 3) = 19
      /\ ~is_directive(op) => Position(op, 1) = 0 /\ Position(op, 2) = 4
  BY Positions
<1>14. w.arg = x
  BY <1>1, InstrFields
<1>4. /\ g1 = IF Registers(op) < 1 THEN 0
              ELSE instr_get_bitfield(FREGISTER_BIT_LEN, x, Position(op, 1)) + e * 16
      /\ g2 = IF Registers(op) < 2 THEN 0
              ELSE instr_get_bitfield(REGISTER_BIT_LEN, x, Position(op, 2))
      /\ g3 = IF Registers(op) < 3 THEN 0
              ELSE instr_get_bitfield(REGISTER_BIT_LEN, x, Position(op, 3))
  BY <1>1, <1>2, OperandRead
<1>5. g1 \in 0..31 /\ (Registers(op) < 1 => g1 = 0)
  <2>1. Position(op, 1) \in {0, 10}
    BY <1>3
  <2> DEFINE low == instr_get_bitfield(FREGISTER_BIT_LEN, x, Position(op, 1))
  <2>2. low \in Nat /\ low < 16
    BY <1>1, <2>1, RegisterFieldsBounded, Zenon
  <2>3. g1 = IF Registers(op) < 1 THEN 0 ELSE low + e * 16
    BY <1>4
  <2> HIDE DEF low, g1
  <2> QED BY <1>1, <2>2, <2>3
<1>6. g2 \in 0..31 /\ (Registers(op) < 2 => g2 = 0)
  <2>1. Position(op, 2) \in {4, 14, 19}
    BY <1>3
  <2> DEFINE low == instr_get_bitfield(REGISTER_BIT_LEN, x, Position(op, 2))
  <2>2. low \in Nat /\ low < 32
    BY <1>1, <2>1, RegisterFieldsBounded, Zenon
  <2>3. g2 = IF Registers(op) < 2 THEN 0 ELSE low
    BY <1>4
  <2> HIDE DEF low, g2
  <2> QED BY <2>2, <2>3
<1>7. g3 \in 0..31 /\ (Registers(op) < 3 => g3 = 0)
  <2>1. Position(op, 3) \in {4, 14, 19} \/ Registers(op) < 3
    BY <1>2, <1>3
  <2> DEFINE low == instr_get_bitfield(REGISTER_BIT_LEN, x, Position(op, 3))
  <2>2. Registers(op) < 3 \/ (low \in Nat /\ low < 32)
    BY <1>1, <2>1, RegisterFieldsBounded, Zenon
  <2>3. g3 = IF Registers(op) < 3 THEN 0 ELSE low
    BY <1>4
  <2> HIDE DEF low, g3
  <2> QED BY <2>2, <2>3
<1>8. n \in Field /\ (~HasNumber(op) => n = 0)
  <2>1. FieldHalf \in Nat \ {0} /\ W20 = 2 * FieldHalf
    <3>1. FieldHalf = 2^19
      BY BitsAssumption, SMT DEF INTEGER_BLEN
    <3> QED BY <3>1, SMT DEF W20
  <2> DEFINE u == instr_get_bitfield(INTEGER_BLEN, x, FREGISTER_BIT_LEN)
  <2>2. u \in Nat /\ u < W20
    BY <1>1, RegisterFieldsBounded
  <2>3. GetNumber(w) = bit_extend_signed(u)
    BY <1>14, Zenon DEF GetNumber
  <2> HIDE DEF u
  <2>4. GetNumber(w) \in Field
    BY <2>1, <2>2, <2>3, SMT DEF bit_extend_signed, Field
  <2>5. 0 \in Field
    BY <2>1, SMT DEF Field
  <2> QED BY <2>4, <2>5
<1>9. Register = 0..31
  <2>1. N_REGISTERS = 32
    BY BitsAssumption, NumberShifts
  <2> QED BY <2>1 DEF Register
<1> HIDE DEF g1, g2, g3, n
<1>10. d = [op |-> op, rdest |-> g1, rsrc1 |-> g2, rsrc2 |-> g3, num |-> n]
  BY Zenon DEF parse_binary, g1, g2, g3, n
<1> HIDE DEF d
<1>11. d.op = op /\ d.rdest = g1 /\ d.rsrc1 = g2 /\ d.rsrc2 = g3 /\ d.num = n
  BY <1>10
<1>12. d \in [op : Opcodes, rdest : Register, rsrc1 : Register, rsrc2 : Register, num : Field]
  BY <1>5, <1>6, <1>7, <1>8, <1>9, <1>10
<1>13. Encodable(d)
  BY <1>5, <1>6, <1>7, <1>8, <1>11, <1>12, Zenon DEF Encodable
<1> QED BY <1>11, <1>13 DEF d

LEMMA Sizes ==
    /\ Register = 0..31 /\ IntHalf \in Nat /\ FieldHalf \in Nat \ {0} /\ FieldHalf <= IntHalf
    /\ 0 \in Field /\ Field \subseteq Int
<1>1. N_REGISTERS = 32
  BY BitsAssumption, NumberShifts
<1>2. IntHalf \in Nat /\ FieldHalf \in Nat \ {0} /\ FieldHalf <= IntHalf
  BY BitsAssumption, IsaAssumption
<1>3. 0 \in Field /\ Field \subseteq Int
  BY <1>2 DEF Field
<1>4. Register = 0..31
  BY <1>1 DEF Register
<1> QED BY <1>2, <1>3, <1>4

(* The number of a condition is that of its name.                          *)
LEMMA ConditionNames ==
    /\ DOMAIN jmp_conditions = 1..6 /\ Len(jmp_conditions) = 6
    /\ \A c \in 1..6 : /\ jmp_conditions[c] \notin {"none", "unknown_cond"}
                       /\ \A other \in 1..6 : jmp_conditions[other] = jmp_conditions[c] => other = c
    /\ "unknown_cond" \notin {"none"} \cup Range(jmp_conditions)
<1>1. DOMAIN jmp_conditions = 1..6 /\ Len(jmp_conditions) = 6
  BY SMT DEF jmp_conditions
<1>2. \A c \in 1..6 : /\ jmp_conditions[c] # "none" /\ jmp_conditions[c] # "unknown_cond"
                       /\ \A other \in 1..6 : jmp_conditions[other] = jmp_conditions[c] => other = c
  BY SMT DEF jmp_conditions
<1>3. \A name \in Range(jmp_conditions) : \E c \in 1..6 : name = jmp_conditions[c]
  BY <1>1, Zenon DEF Range
<1>4. "unknown_cond" # "none"
  OBVIOUS
<1> QED BY <1>1, <1>2, <1>3, <1>4, Zenon

(* parse_jmp_condition finds the number of a name.                         *)
LEMMA ConditionParsed ==
    ASSUME NEW t, t.op_arg \in {"none"} \cup Range(jmp_conditions)
    PROVE  /\ parse_jmp_condition(t) \in 0..6
           /\ t.op_arg = "none" => parse_jmp_condition(t) = 0
           /\ \A c \in 1..6 : t.op_arg = jmp_conditions[c] => parse_jmp_condition(t) = c
<1>1. CASE t.op_arg = "none"
  <2>1. parse_jmp_condition(t) = 0
    BY <1>1 DEF parse_jmp_condition
  <2>2. \A c \in 1..6 : t.op_arg # jmp_conditions[c]
    BY <1>1, ConditionNames, Zenon
  <2> QED BY <1>1, <2>1, <2>2
<1>2. CASE t.op_arg # "none"
  <2> DEFINE n == CHOOSE c \in DOMAIN jmp_conditions : jmp_conditions[c] = t.op_arg
  <2>1. \E c \in DOMAIN jmp_conditions : jmp_conditions[c] = t.op_arg
    BY <1>2, Zenon DEF Range
  <2>2. n \in DOMAIN jmp_conditions /\ jmp_conditions[n] = t.op_arg
    BY <2>1, Zenon
  <2>3. parse_jmp_condition(t) = n
    BY <1>2 DEF parse_jmp_condition
  <2> HIDE DEF n
  <2>4. n \in 1..6
    BY <2>2, ConditionNames
  <2>5. \A c \in 1..6 : t.op_arg = jmp_conditions[c] => n = c
    BY <2>2, <2>4, ConditionNames, Zenon
  <2> QED BY <1>2, <2>3, <2>4, <2>5
<1> QED BY <1>1, <1>2

(* The cast to int32_t leaves the numbers that fit their field.            *)
LEMMA LiteralParsed ==
    ASSUME NEW n \in Field
    PROVE  parse_literal_number(n) = n
<1>1. n \in Int /\ IntHalf \in Nat /\ -IntHalf <= n /\ n < IntHalf
  BY Sizes DEF Field
<1>2. (n + IntHalf) % (2 * IntHalf) = n + IntHalf
  BY <1>1, Z3
<1> QED BY <1>1, <1>2 DEF parse_literal_number

(* What the assembler makes of a line that it accepts fits.                *)
LEMMA FieldsEncodable ==
    ASSUME NEW t \in [op : Opcodes, op_arg : STRING, regs : Seq(Int), nums : Seq(Int)], Accepted(t)
    PROVE  Encodable(Fields(t)) /\ Fields(t).op = t.op
<1> DEFINE d == Fields(t)
           r1 == IF t.op \in JumpOps THEN parse_jmp_condition(t) ELSE RegisterAt(t, 1)
           r2 == RegisterAt(t, 2)
           r3 == RegisterAt(t, 3)
           n == IF HasNumber(t.op) THEN parse_literal_number(t.nums[1]) ELSE 0
           Reg(k) == RegisterAt(t, k) \in 0..31 /\ (Registers(t.op) < k => RegisterAt(t, k) = 0)
<1>1. t.op \in Opcodes /\ Registers(t.op) \in 0..3 /\ t.regs \in Seq(Int) /\ t.nums \in Seq(Int)
  BY Layouts
<1>2. ASSUME t.op \notin JumpOps, NEW k \in 1..3
      PROVE  Reg(k)
  <2>1. CASE k > Registers(t.op)
    BY <1>1, <2>1 DEF RegisterAt
  <2>2. CASE ~(k > Registers(t.op))
    <3>1. t.op \notin NoArgOps
      BY <1>1, <2>2, NoOperands
    <3>2. Len(t.regs) = Registers(t.op) /\ \A i \in DOMAIN t.regs : parse_register(t.regs[i])
      BY <1>2, <3>1 DEF Accepted
    <3>3. k \in DOMAIN t.regs
      BY <1>1, <2>2, <3>2
    <3>4. t.regs[k] \in 0..31
      BY <3>2, <3>3 DEF parse_register, N_GENERAL_REGISTERS
    <3>5. RegisterAt(t, k) = t.regs[k]
      BY <2>2 DEF RegisterAt
    <3> QED BY <1>1, <2>2, <3>4, <3>5
  <2> QED BY <2>1, <2>2
<1>3. /\ r1 \in 0..31 /\ r2 \in 0..31 /\ r3 \in 0..31
      /\ (Registers(t.op) < 1 => r1 = 0) /\ (Registers(t.op) < 2 => r2 = 0)
      /\ (Registers(t.op) < 3 => r3 = 0)
  <2>1. CASE t.op \in JumpOps
    <3>1. t.op_arg \in {"none"} \cup Range(jmp_conditions)
      BY <2>1 DEF Accepted
    <3>2. r1 \in 0..6
      BY <2>1, <3>1, ConditionParsed
    <3>3. Registers(t.op) = 1
      BY <1>1, <2>1, NoOperands
    <3>4. r2 = 0 /\ r3 = 0
      BY <3>3 DEF RegisterAt
    <3> HIDE DEF r1, r2, r3
    <3> QED BY <3>2, <3>3, <3>4
  <2>2. CASE t.op \notin JumpOps
    <3>1. Reg(1) /\ Reg(2) /\ Reg(3)
      BY <1>2, <2>2
    <3> QED BY <2>2, <3>1
  <2> QED BY <2>1, <2>2
<1>4. n \in Field /\ (~HasNumber(t.op) => n = 0)
  <2>1. CASE HasNumber(t.op)
    <3>1. t.op \notin NoArgOps
      BY <1>1, <2>1, NoOperands
    <3>2. Len(t.nums) = 1
          /\ \A i \in DOMAIN t.nums : test_integer_bounds(parse_literal_number(t.nums[i]))
      BY <2>1, <3>1 DEF Accepted
    <3>3. 1 \in DOMAIN t.nums
      BY <1>1, <3>2
    <3> QED BY <2>1, <3>2, <3>3, Zenon DEF test_integer_bounds
  <2>2. CASE ~HasNumber(t.op)
    BY <2>2, Sizes
  <2> QED BY <2>1, <2>2
<1> HIDE DEF r1, r2, r3, n
<1>5. d = [op |-> t.op, rdest |-> r1, rsrc1 |-> r2, rsrc2 |-> r3, num |-> n]
  BY Zenon DEF Fields, r1, r2, r3, n
<1> HIDE DEF d
<1>6. d.op = t.op /\ d.rdest = r1 /\ d.rsrc1 = r2 /\ d.rsrc2 = r3 /\ d.num = n
  BY <1>5
<1>7. d \in [op : Opcodes, rdest : Register, rsrc1 : Register, rsrc2 : Register, num : Field]
  BY <1>1, <1>3, <1>4, <1>5, Sizes
<1>8. Encodable(d)
  BY <1>3, <1>4, <1>6, <1>7, Zenon DEF Encodable
<1> QED BY <1>6, <1>8 DEF d

-----------------------------------------------------------------------------
(* A disassembled instruction is assembled again *)

(* The line that the disassembler writes.                                  *)
LEMMA WrittenLine ==
    ASSUME NEW d, Encodable(d)
    PROVE  /\ write_asm(d).op = d.op
           /\ HasNumber(d.op) => write_asm(d).nums = <<d.num>>
           /\ ~HasNumber(d.op) => write_asm(d).nums = <<>>
           /\ d.op \in JumpOps =>
                 /\ write_asm(d).regs = <<>>
                 /\ write_asm(d).op_arg =
                       IF d.rdest = 0 THEN "none"
                       ELSE IF d.rdest \in 1..6 THEN jmp_conditions[d.rdest] ELSE "unknown_cond"
           /\ d.op \notin JumpOps =>
                 /\ Len(write_asm(d).regs) = Registers(d.op)
                 /\ \A k \in 1..Registers(d.op) : write_asm(d).regs[k] = Operands(d)[k]
<1> DEFINE t == write_asm(d)
           regs == IF d.op \in JumpOps THEN <<>>
                   ELSE [k \in 1..Registers(d.op) |-> Operands(d)[k]]
           nums == IF HasNumber(d.op) THEN <<d.num>> ELSE <<>>
           name == IF d.op \notin JumpOps \/ d.rdest = 0 THEN "none"
                   ELSE IF d.rdest \in DOMAIN jmp_conditions THEN jmp_conditions[d.rdest]
                   ELSE "unknown_cond"
<1> HIDE DEF regs, nums, name
<1>1. t = [op |-> d.op, op_arg |-> name, regs |-> regs, nums |-> nums]
  BY Zenon DEF write_asm, regs, nums, name
<1> HIDE DEF t
<1>2. t.op = d.op /\ t.op_arg = name /\ t.regs = regs /\ t.nums = nums
  BY <1>1
<1>3. Registers(d.op) \in 0..3
  BY EncodableFields, Layouts
<1>4. /\ HasNumber(d.op) => nums = <<d.num>>
      /\ ~HasNumber(d.op) => nums = <<>>
  BY DEF nums
<1>5. ASSUME d.op \in JumpOps
      PROVE  /\ regs = <<>>
             /\ name = IF d.rdest = 0 THEN "none"
                       ELSE IF d.rdest \in 1..6 THEN jmp_conditions[d.rdest] ELSE "unknown_cond"
  BY <1>5, ConditionNames, Zenon DEF regs, name
<1>6. ASSUME d.op \notin JumpOps
      PROVE  /\ Len(regs) = Registers(d.op)
             /\ \A k \in 1..Registers(d.op) : regs[k] = Operands(d)[k]
  <2>1. regs = [k \in 1..Registers(d.op) |-> Operands(d)[k]]
    BY <1>6 DEF regs
  <2> QED BY <1>3, <2>1
<1> QED BY <1>2, <1>4, <1>5, <1>6, Zenon DEF t

LEMMA OperandsOf ==
    ASSUME NEW d
    PROVE  Operands(d)[1] = d.rdest /\ Operands(d)[2] = d.rsrc1 /\ Operands(d)[3] = d.rsrc2
BY DEF Operands

(* The assembler reads a disassembled line that it accepts as the          *)
(* instruction it was written from.                                        *)
THEOREM LineReadBack ==
    ASSUME NEW d, Encodable(d), Accepted(write_asm(d))
    PROVE  Fields(write_asm(d)) = d
<1> DEFINE t == write_asm(d)
           op == d.op
           r1 == IF t.op \in JumpOps THEN parse_jmp_condition(t) ELSE RegisterAt(t, 1)
           r2 == RegisterAt(t, 2)
           r3 == RegisterAt(t, 3)
           n == IF HasNumber(t.op) THEN parse_literal_number(t.nums[1]) ELSE 0
<1>1. /\ op \in Opcodes /\ Registers(op) \in 0..3 /\ t.op = op /\ d.num \in Field
      /\ d.rdest \in Nat /\ d.rdest < 32
      /\ Registers(op) < 1 => d.rdest = 0
      /\ Registers(op) < 2 => d.rsrc1 = 0
      /\ Registers(op) < 3 => d.rsrc2 = 0
      /\ ~HasNumber(op) => d.num = 0
  <2>1. op \in Opcodes /\ d.num \in Field /\ d.rdest \in Nat /\ d.rdest < 32
    BY EncodableFields
  <2>2. Registers(op) \in 0..3
    BY <2>1, Layouts
  <2>3. t.op = op
    BY WrittenLine
  <2> QED BY <2>1, <2>2, <2>3, Zenon DEF Encodable
<1> HIDE DEF t
<1>2. n = d.num
  <2>1. CASE HasNumber(op)
    <3>1. t.nums = <<d.num>>
      BY <2>1, WrittenLine, Zenon DEF t
    <3>2. t.nums[1] = d.num
      BY <3>1
    <3> QED BY <1>1, <2>1, <3>2, LiteralParsed
  <2>2. CASE ~HasNumber(op)
    BY <1>1, <2>2
  <2> QED BY <2>1, <2>2
<1>3. ASSUME op \notin JumpOps, NEW k \in 1..3
      PROVE  RegisterAt(t, k) = IF Registers(op) < k THEN 0 ELSE Operands(d)[k]
  <2>1. \A i \in 1..Registers(op) : t.regs[i] = Operands(d)[i]
    BY <1>3, WrittenLine, Zenon DEF t
  <2>2. CASE Registers(op) < k
    BY <1>1, <2>2 DEF RegisterAt
  <2>3. CASE ~(Registers(op) < k)
    <3>1. k \in 1..Registers(op) /\ ~(k > Registers(op))
      BY <1>1, <2>3
    <3> QED BY <1>1, <2>1, <2>3, <3>1 DEF RegisterAt
  <2> QED BY <2>2, <2>3
<1>4. r1 = d.rdest /\ r2 = d.rsrc1 /\ r3 = d.rsrc2
  <2>1. CASE op \notin JumpOps
    <3>1. /\ RegisterAt(t, 1) = IF Registers(op) < 1 THEN 0 ELSE d.rdest
          /\ RegisterAt(t, 2) = IF Registers(op) < 2 THEN 0 ELSE d.rsrc1
          /\ RegisterAt(t, 3) = IF Registers(op) < 3 THEN 0 ELSE d.rsrc2
      BY <1>3, <2>1, OperandsOf
    <3>2. r1 = RegisterAt(t, 1)
      BY <1>1, <2>1
    <3> HIDE DEF r1
    <3> QED BY <1>1, <3>1, <3>2
  <2>2. CASE op \in JumpOps
    <3>1. Registers(op) = 1
      BY <1>1, <2>2, NoOperands
    <3>2. r2 = 0 /\ r3 = 0
      BY <1>1, <3>1 DEF RegisterAt
    <3>3. d.rsrc1 = 0 /\ d.rsrc2 = 0
      BY <1>1, <3>1
    <3>4. t.op_arg \in {"none"} \cup Range(jmp_conditions)
      BY <1>1, <2>2, Zenon DEF Accepted, t
    <3>5. t.op_arg = IF d.rdest = 0 THEN "none"
                     ELSE IF d.rdest \in 1..6 THEN jmp_conditions[d.rdest] ELSE "unknown_cond"
      BY <2>2, WrittenLine, Zenon DEF t
    <3>6. d.rdest = 0 \/ d.rdest \in 1..6
      BY <3>4, <3>5, ConditionNames, Zenon
    <3>7. parse_jmp_condition(t) = d.rdest
      BY <3>4, <3>5, <3>6, ConditionParsed
    <3>8. r1 = d.rdest
      BY <1>1, <2>2, <3>7
    <3> QED BY <3>2, <3>3, <3>8, Zenon
  <2> QED BY <2>1, <2>2
<1> HIDE DEF r1, r2, r3, n
<1>5. Fields(t) = [op |-> t.op, rdest |-> r1, rsrc1 |-> r2, rsrc2 |-> r3, num |-> n]
  BY Zenon DEF Fields, r1, r2, r3, n
<1>6. Fields(t) = [op |-> d.op, rdest |-> d.rdest, rsrc1 |-> d.rsrc1, rsrc2 |-> d.rsrc2, num |-> d.num]
  BY <1>1, <1>2, <1>4, <1>5, Zenon
<1> QED BY <1>6, EncodableFields, Zenon DEF t

(* The lines that name every condition and never rsp are accepted.         *)
LEMMA LineAccepted ==
    ASSUME NEW d, Encodable(d),
           \A k \in 1..Registers(d.op) : d.op \notin JumpOps => Operands(d)[k] # 31,
           d.op \in JumpOps => d.rdest \in 0..Len(jmp_conditions)
    PROVE  Accepted(write_asm(d))
<1> DEFINE t == write_asm(d)
           op == d.op
<1>1. /\ op \in Opcodes /\ Registers(op) \in 0..3 /\ t.op = op /\ d.num \in Field
      /\ d.rdest \in 0..31 /\ d.rsrc1 \in 0..31 /\ d.rsrc2 \in 0..31
  <2>1. /\ op \in Opcodes /\ d.num \in Field
        /\ d.rdest \in Register /\ d.rsrc1 \in Register /\ d.rsrc2 \in Register
    BY DEF Encodable
  <2>2. Registers(op) \in 0..3
    BY <2>1, Layouts
  <2>3. t.op = op
    BY WrittenLine
  <2> QED BY <2>1, <2>2, <2>3, Sizes
<1> HIDE DEF t
<1>2. ASSUME op \notin NoArgOps
      PROVE  /\ Len(t.regs) = IF op \in JumpOps THEN 0 ELSE Registers(op)
             /\ \A k \in DOMAIN t.regs : parse_register(t.regs[k])
  <2>1. CASE op \in JumpOps
    <3>1. t.regs = <<>>
      BY <2>1, WrittenLine, Zenon DEF t
    <3> QED BY <2>1, <3>1
  <2>2. CASE op \notin JumpOps
    <3>1. Len(t.regs) = Registers(op) /\ \A k \in 1..Registers(op) : t.regs[k] = Operands(d)[k]
      BY <2>2, WrittenLine, Zenon DEF t
    <3>2. t.regs = [k \in 1..Registers(op) |-> Operands(d)[k]]
      <4>1. t = [op |-> d.op, op_arg |-> t.op_arg,
                 regs |-> [k \in 1..Registers(op) |-> Operands(d)[k]], nums |-> t.nums]
        BY <2>2 DEF write_asm, t
      <4> QED BY <4>1
    <3>3. DOMAIN t.regs = 1..Registers(op)
      BY <3>2
    <3>4. ASSUME NEW k \in 1..Registers(op)
          PROVE  parse_register(Operands(d)[k])
      <4>1. Operands(d)[k] # 31
        BY <2>2
      <4>2. k \in 1..3
        BY <1>1
      <4>3. Operands(d)[k] \in 0..31
        <5>1. k = 1 \/ k = 2 \/ k = 3
          BY <4>2
        <5> QED BY <1>1, <5>1, OperandsOf, Zenon
      <4> QED BY <4>1, <4>3 DEF parse_register, N_GENERAL_REGISTERS
    <3> QED BY <2>2, <3>1, <3>3, <3>4
  <2> QED BY <2>1, <2>2
<1>3. /\ Len(t.nums) = IF HasNumber(op) THEN 1 ELSE 0
      /\ \A k \in DOMAIN t.nums : test_integer_bounds(parse_literal_number(t.nums[k]))
  <2>1. CASE HasNumber(op)
    <3>1. t.nums = <<d.num>>
      BY <2>1, WrittenLine, Zenon DEF t
    <3>2. Len(t.nums) = 1 /\ DOMAIN t.nums = 1..1 /\ t.nums[1] = d.num
      BY <3>1
    <3>3. test_integer_bounds(parse_literal_number(d.num))
      BY <1>1, LiteralParsed DEF test_integer_bounds
    <3> QED BY <2>1, <3>2, <3>3
  <2>2. CASE ~HasNumber(op)
    <3>1. t.nums = <<>>
      BY <2>2, WrittenLine, Zenon DEF t
    <3> QED BY <2>2, <3>1
  <2> QED BY <2>1, <2>2
<1>4. ASSUME op \in JumpOps
      PROVE  t.op_arg \in {"none"} \cup Range(jmp_conditions)
  <2>1. t.op_arg = IF d.rdest = 0 THEN "none"
                   ELSE IF d.rdest \in 1..6 THEN jmp_conditions[d.rdest] ELSE "unknown_cond"
    BY <1>4, WrittenLine, Zenon DEF t
  <2>2. d.rdest = 0 \/ d.rdest \in 1..6
    BY <1>1, <1>4, ConditionNames
  <2>3. \A c \in 1..6 : jmp_conditions[c] \in Range(jmp_conditions)
    BY ConditionNames, Zenon DEF Range
  <2> QED BY <2>1, <2>2, <2>3, Zenon
<1> QED BY <1>1, <1>2, <1>3, <1>4, Zenon DEF Accepted, t

-----------------------------------------------------------------------------
(* The circle *)

Phases == {"text", "parsed", "word", "decoded", "rejected", "unknown"}

Line == [op : Opcodes, op_arg : STRING, regs : Seq(Int), nums : Seq(Int)]
Word == [code : 0..63, reg_extended : 0..1, arg : 0..2^SPU_INSTR_ARG_BITLEN - 1]

(* Before the first conversion the line or the word is one that may be     *)
(* given; after it whatever is current is what the meaning is written as.  *)
Circle ==
    /\ phase \in Phases
    /\ ~Known => /\ phase \in {"text", "word", "rejected", "unknown"}
                 /\ phase = "text" => text \in Line
                 /\ phase = "word" => word \in Word
    /\ Known => /\ Encodable(meaning) /\ phase # "unknown"
                /\ phase \in {"parsed", "decoded"} => data = meaning
                /\ phase = "text" => text = write_asm(meaning)
                /\ phase = "word" => word = write_binary(meaning)
                /\ phase = "rejected" => ~Accepted(write_asm(meaning))

(* A given line or word has no meaning yet.                                *)
LEMMA CircleInit == Init => Circle
<1> SUFFICES ASSUME Init PROVE Circle
  OBVIOUS
<1>1. ~Known
  BY DEF Init, Known
<1>2. phase \in {"text", "word"} /\ (phase = "text" => text \in Texts)
      /\ (phase = "word" => word \in Words)
  BY DEF Init
<1>3. Texts \subseteq Line /\ Words \subseteq Word
  BY BitsAssumption, Zenon DEF Line, Word
<1> QED BY <1>1, <1>2, <1>3 DEF Circle, Phases

(* An encodable meaning is a known one.                                    *)
LEMMA EncodableKnown ==
    ASSUME NEW d, Encodable(d)
    PROVE  d # Nothing
<1>1. d.op \in Opcodes
  BY EncodableFields
<1>2. Nothing.op = "unknown"
  BY DEF Nothing, Zeros
<1>3. "unknown" \notin Opcodes
  BY DEF Opcodes, NoArgOps, JumpOps, NumberOps, SingleRegOps, DoubleRegOps, TripleRegOps
<1> QED BY <1>1, <1>2, <1>3

(* Reading gives the known meaning, or makes one known.                    *)
LEMMA MeaningRead ==
    ASSUME NEW d, Encodable(d), Keep(d), data' = d, Known => d = meaning
    PROVE  Known' /\ Encodable(meaning') /\ data' = meaning'
<1>1. meaning' = d
  BY DEF Keep
<1> QED BY <1>1, EncodableKnown DEF Known

(* Every conversion keeps to the circle.                                   *)
LEMMA CircleStep == Circle /\ [Next]_vars => Circle'
<1> SUFFICES ASSUME Circle, [Next]_vars PROVE Circle'
  OBVIOUS
<1>1. CASE parse_asm
  <2>1. phase = "text" /\ (Known => text = write_asm(meaning) /\ Encodable(meaning))
        /\ (~Known => text \in Line)
    BY <1>1 DEF parse_asm, Circle
  <2>2. CASE ~Accepted(text) /\ phase' = "rejected" /\ UNCHANGED <<data, meaning>>
    <3>1. Known' = Known /\ meaning' = meaning
      BY <2>2 DEF Known
    <3> QED BY <2>1, <2>2, <3>1 DEF Circle, Phases
  <2>3. CASE Accepted(text) /\ phase' = "parsed" /\ data' = Fields(text) /\ Keep(data')
    <3>1. Encodable(Fields(text)) /\ (Known => Fields(text) = meaning)
      <4>1. CASE Known
        BY <2>1, <2>3, <4>1, LineReadBack
      <4>2. CASE ~Known
        BY <2>1, <2>3, <4>2, FieldsEncodable DEF Line
      <4> QED BY <4>1, <4>2
    <3>2. Known' /\ Encodable(meaning') /\ data' = meaning'
      BY <2>3, <3>1, MeaningRead
    <3> QED BY <2>3, <3>2 DEF Circle, Phases
  <2> QED BY <1>1, <2>2, <2>3 DEF parse_asm
<1>2. CASE Write
  <2>1. Known /\ phase = "parsed" /\ data = meaning /\ Encodable(meaning)
    BY <1>2 DEF Write, Circle
  <2>2. phase' = "word" /\ word' = write_binary(data) /\ meaning' = meaning
    BY <1>2 DEF Write
  <2> QED BY <2>1, <2>2 DEF Circle, Phases, Known
<1>3. CASE Decode
  <2>1. phase = "word" /\ (Known => word = write_binary(meaning) /\ Encodable(meaning))
        /\ (~Known => word \in Word)
    BY <1>3 DEF Decode, Circle
  <2>2. CASE Opcode(word) = {} /\ phase' = "unknown" /\ UNCHANGED <<data, meaning>>
    <3>1. Known' = Known /\ meaning' = meaning
      BY <2>2 DEF Known
    <3>2. ~Known
      BY <2>1, <2>2, OpcodeReadBack
    <3> QED BY <2>2, <3>1, <3>2 DEF Circle, Phases
  <2>3. CASE \E op \in Opcode(word) :
               /\ phase' = "decoded"
               /\ data' = parse_binary(word, op) /\ Keep(data')
    <3>1. PICK op \in Opcode(word) :
               phase' = "decoded" /\ data' = parse_binary(word, op) /\ Keep(data')
      BY <2>3
    <3>2. op \in Opcodes
      BY DEF Opcode, find_op_cmd_opcode
    <3>3. Encodable(parse_binary(word, op)) /\ (Known => parse_binary(word, op) = meaning)
      <4>1. CASE Known
        <5>1. op = meaning.op
          BY <2>1, <4>1, OpcodeReadBack
        <5> QED BY <2>1, <4>1, <5>1, WordReadBack
      <4>2. CASE ~Known
        BY <2>1, <3>2, <4>2, ParsedEncodable, Zenon DEF Word
      <4> QED BY <4>1, <4>2
    <3>4. Known' /\ Encodable(meaning') /\ data' = meaning'
      BY <3>1, <3>3, MeaningRead
    <3> QED BY <3>1, <3>4 DEF Circle, Phases
  <2> QED BY <1>3, <2>2, <2>3 DEF Decode
<1>4. CASE disasm_instruction
  <2>1. Known /\ phase = "decoded" /\ data = meaning /\ Encodable(meaning)
    BY <1>4 DEF disasm_instruction, Circle
  <2>2. phase' = "text" /\ text' = write_asm(data) /\ meaning' = meaning
    BY <1>4 DEF disasm_instruction
  <2> QED BY <2>1, <2>2 DEF Circle, Phases, Known
<1>5. CASE Ended \/ UNCHANGED vars
  <2>1. UNCHANGED vars
    BY <1>5 DEF Ended
  <2> QED BY <2>1 DEF vars, Circle, Known
<1> QED BY <1>1, <1>2, <1>3, <1>4, <1>5 DEF Next

(* Circle, the type and the argument of the two properties, is an          *)
(* invariant.                                                              *)
THEOREM CircleAlways == Spec => []Circle
BY CircleInit, CircleStep, PTL DEF Spec

(* However often an instruction is written, read, disassembled and         *)
(* assembled again, for every given line and word, its fields stay what    *)
(* they were.                                                              *)
THEOREM MeaningAlwaysKept == Spec => []MeaningKept
<1>1. Circle => MeaningKept
  BY DEF Circle, MeaningKept
<1> QED BY <1>1, CircleAlways, PTL

(* The assembler takes back every line the disassembler makes of its       *)
(* output.                                                                 *)
THEOREM ReassemblyAlwaysAccepted == Spec => []ReassemblyAccepted
<1>1. Circle => ReassemblyAccepted
  <2> SUFFICES ASSUME Circle, phase = "rejected", Known, Writable PROVE FALSE
    BY DEF ReassemblyAccepted
  <2>1. Encodable(meaning) /\ ~Accepted(write_asm(meaning))
    BY DEF Circle
  <2>2. Accepted(write_asm(meaning))
    BY <2>1, LineAccepted DEF Writable
  <2> QED BY <2>1, <2>2
<1> QED BY <1>1, CircleAlways, PTL
=============================================================================
