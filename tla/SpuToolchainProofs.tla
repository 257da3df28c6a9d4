-------------------------- MODULE SpuToolchainProofs --------------------------
(* Proofs about processor, assembler and loader, for every program, every  *)
(* set of sources and every size: the processor alone is sound whatever it *)
(* runs, the two passes agree, jumps land behind their labels, and the     *)
(* machine runs a text as SpuSource describes it.                          *)
EXTENDS SpuToolchain, NatRecursion, SequenceTheorems, FiniteSetTheorems, TLAPS

-----------------------------------------------------------------------------
(* The processor, running any program *)

(* The type invariant of a processor that runs some program: the flags say *)
(* at most one thing about the last comparison.                            *)
Sound ==
    /\ program \in Seq(InstrData)
    /\ ip \in 0..Len(program)
    /\ registers \in [Register -> Word]
    /\ RFLAGS \in {{}, {CMP_EQ_FLAG}, {CMP_SIGN_FLAG}}
    /\ stack \in Seq(Word) /\ call_stack \in Seq(Nat)
    /\ ram \in [Addresses -> Word \cup {Unwritten}]
    /\ status \in Statuses

ExecInv == Sound /\ ReturnsFollowCalls

-----------------------------------------------------------------------------
(* Words *)

(* Wrapping makes a word of every number.                                  *)
LEMMA WrapInWord == ASSUME NEW n \in Int PROVE Wrap(n) \in Word
<1>1. WordHalf \in Nat \ {0}
  BY AluAssumption
<1> DEFINE m == 2 * WordHalf
<1>2. m \in Nat \ {0}
  BY <1>1
<1>3. n + WordHalf \in Int
  BY <1>1
<1>4. (n + WordHalf) % m \in 0..m-1
  BY <1>2, <1>3, Z3
<1> QED BY <1>1, <1>4 DEF Wrap, Word

(* What is divided is a number; the quotient is one too.                   *)
LEMMA TruncatedInInt ==
    ASSUME NEW a \in Word, NEW b \in Word, b # 0
    PROVE  Truncated(a, b) \in Int
<1>1. WordHalf \in Nat
  BY AluAssumption
<1>2. Magnitude(a) \in Int /\ Magnitude(b) \in Nat \ {0}
  BY <1>1 DEF Magnitude, Word
<1>3. Magnitude(a) \div Magnitude(b) \in Int
  BY <1>2
<1> QED BY <1>3 DEF Truncated

(* Every operation of the processor computes a word.                       *)
LEMMA ResultInWord ==
    ASSUME NEW op \in TripleRegOps, NEW a \in Word, NEW b \in Word,
           op \in DivisionOps => b # 0
    PROVE  Result(op, a, b) \in Word
<1>1. a \in Int /\ b \in Int
  BY AluAssumption DEF Word
<1>2. CASE op \in {"add", "sub", "mul"}
  <2>1. a + b \in Int /\ a - b \in Int /\ a * b \in Int
    BY <1>1
  <2> QED BY <1>2, <2>1, WrapInWord DEF Result
<1>3. CASE op \in DivisionOps
  <2>1. Truncated(a, b) \in Int
    BY <1>3, TruncatedInInt
  <2> DEFINE q == Truncated(a, b)
  <2>2. b * q \in Int
    BY <1>1, <2>1
  <2>3. a - b * q \in Int
    BY <1>1, <2>2
  <2>4. Wrap(Truncated(a, b)) \in Word /\ Wrap(a - b * Truncated(a, b)) \in Word
    BY <2>1, <2>3, WrapInWord
  <2> QED BY <1>3, <2>4 DEF Result, DivisionOps
<1>4. CASE op \in BitOps
  BY <1>4, AluAssumption DEF Result, BitOps
<1> QED BY <1>2, <1>3, <1>4 DEF TripleRegOps, DivisionOps, BitOps

(* After a comparison, a conditional jump is taken exactly when the two    *)
(* words compared are in the relation that its condition is named for.     *)
THEOREM ConditionsMeanComparisons ==
    ASSUME NEW a \in Word, NEW b \in Word
    PROVE  /\ Taken("eq", FlagsOf(a, b)) <=> a = b
           /\ Taken("neq", FlagsOf(a, b)) <=> a # b
           /\ Taken("geq", FlagsOf(a, b)) <=> a >= b
           /\ Taken("gt", FlagsOf(a, b)) <=> a > b
           /\ Taken("leq", FlagsOf(a, b)) <=> a <= b
           /\ Taken("lt", FlagsOf(a, b)) <=> a < b
<1>1. CMP_EQ_FLAG # CMP_SIGN_FLAG
  BY DEF CMP_EQ_FLAG, CMP_SIGN_FLAG
<1>2. /\ CMP_EQ_FLAG \in FlagsOf(a, b) <=> a = b
      /\ CMP_SIGN_FLAG \in FlagsOf(a, b) <=> a < b
  BY <1>1 DEF FlagsOf
<1>3. a \in Int /\ b \in Int
  BY AluAssumption DEF Word
<1> QED BY <1>2, <1>3 DEF Taken

(* A comparison sets one flag at most.                                     *)
LEMMA OneOutcome ==
    ASSUME NEW a \in Word, NEW b \in Word
    PROVE  FlagsOf(a, b) \in {{}, {CMP_EQ_FLAG}, {CMP_SIGN_FLAG}}
<1>1. a \in Int /\ b \in Int
  BY AluAssumption DEF Word
<1>2. CASE a = b
  <2>1. ~(a < b)
    BY <1>1, <1>2
  <2>2. FlagsOf(a, b) = {CMP_EQ_FLAG}
    BY <1>2, <2>1 DEF FlagsOf, CMP_EQ_FLAG, CMP_SIGN_FLAG
  <2> QED BY <2>2
<1>3. CASE a < b
  <2>1. a # b
    BY <1>1, <1>3
  <2>2. FlagsOf(a, b) = {CMP_SIGN_FLAG}
    BY <1>3, <2>1 DEF FlagsOf, CMP_EQ_FLAG, CMP_SIGN_FLAG
  <2> QED BY <2>2
<1>4. CASE a # b /\ ~(a < b)
  BY <1>4 DEF FlagsOf
<1> QED BY <1>2, <1>3, <1>4

-----------------------------------------------------------------------------
(* Steps *)

(* The instruction fetched is one of the instruction set.                  *)
LEMMA FetchedType ==
    ASSUME Sound, ip < Len(program)
    PROVE  /\ Fetched \in InstrData /\ program \in Seq(InstrData)
           /\ ip \in Nat /\ ip + 1 \in 1..Len(program)
BY DEF Sound, Fetched

(* An instruction that only says how it ended keeps the invariant.         *)
LEMMA StopInv ==
    ASSUME ExecInv, ip < Len(program), NEW s \in Statuses, Stop(s)
    PROVE  ExecInv'
<1>1. ip \in Nat /\ ip + 1 \in 1..Len(program)
  BY FetchedType DEF ExecInv
<1>2. Sound'
  BY <1>1 DEF ExecInv, Sound, Stop, Advance
<1>3. ReturnsFollowCalls'
  BY DEF ExecInv, ReturnsFollowCalls, Stop, Advance
<1> QED BY <1>2, <1>3 DEF ExecInv

(* So does one that writes a word to a register.                           *)
LEMMA WriteInv ==
    ASSUME ExecInv, ip < Len(program), NEW r \in Register, NEW v \in Word, Write(r, v)
    PROVE  ExecInv'
<1>1. ip \in Nat /\ ip + 1 \in 1..Len(program)
  BY FetchedType DEF ExecInv
<1>2. Sound'
  BY <1>1 DEF ExecInv, Sound, Write, Advance, Statuses
<1>3. ReturnsFollowCalls'
  BY DEF ExecInv, ReturnsFollowCalls, Write, Advance
<1> QED BY <1>2, <1>3 DEF ExecInv

(* A jump leads into the program or fails.                                 *)
LEMMA JumpStays ==
    ASSUME Sound, ip < Len(program), NEW i \in InstrData, Jump(i)
    PROVE  ip' \in 0..Len(program) /\ status' \in Statuses
<1>1. ip \in Nat /\ ip + 1 \in 0..Len(program)
  BY FetchedType
<1> QED BY <1>1 DEF Jump, Advance, Statuses

(* The top of a nonempty stack and what is left when it is popped.         *)
LEMMA PoppedType ==
    ASSUME NEW S, NEW q \in Seq(S), q # <<>>
    PROVE  /\ Top(q) \in S /\ Popped(q) \in Seq(S)
           /\ Len(Popped(q)) = Len(q) - 1
           /\ \A k \in 1..Len(Popped(q)) : Popped(q)[k] = q[k]
<1>1. Len(q) \in Nat \ {0}
  OBVIOUS
<1>2. Top(q) \in S
  BY <1>1 DEF Top
<1>3. \A k \in 1..Len(q) - 1 : q[k] \in S
  BY <1>1
<1>4. /\ Popped(q) \in Seq(S)
      /\ Len(Popped(q)) = IF 1 <= Len(q) - 1 THEN (Len(q) - 1) - 1 + 1 ELSE 0
      /\ \A k \in 1..(Len(q) - 1) - 1 + 1 : Popped(q)[k] = q[1 + k - 1]
  BY <1>1, <1>3, SubSeqProperties DEF Popped
<1>5. Len(Popped(q)) = Len(q) - 1
  <2>1. CASE Len(q) = 1
    BY <1>4, <2>1
  <2>2. CASE 1 <= Len(q) - 1
    <3>1. (Len(q) - 1) - 1 + 1 = Len(q) - 1
      BY <1>1
    <3> QED BY <1>4, <2>2, <3>1
  <2>3. \A n \in Nat \ {0} : n = 1 \/ 1 <= n - 1
    OBVIOUS
  <2> QED BY <1>1, <2>1, <2>2, <2>3, Zenon
<1>6. ASSUME NEW k \in 1..Len(Popped(q))
      PROVE  Popped(q)[k] = q[k]
  <2>1. k \in 1..(Len(q) - 1) - 1 + 1 /\ 1 + k - 1 = k
    BY <1>1, <1>5
  <2> QED BY <1>4, <2>1
<1> QED BY <1>2, <1>4, <1>5, <1>6

LEMMA jmp_execInv ==
    ASSUME ExecInv, ip < Len(program), NEW i \in InstrData, jmp_exec(i)
    PROVE  ExecInv'
<1>1. ip' \in 0..Len(program) /\ status' \in Statuses
  BY JumpStays DEF ExecInv, jmp_exec
<1>2. UNCHANGED <<program, registers, RFLAGS, stack, ram, call_stack>>
  BY DEF jmp_exec, Jump
<1> QED BY <1>1, <1>2 DEF ExecInv, Sound, ReturnsFollowCalls

LEMMA call_execInv ==
    ASSUME ExecInv, ip < Len(program), call_exec(Fetched)
    PROVE  ExecInv'
<1>1. CASE Stop("failed")
  BY <1>1, StopInv DEF Statuses
<1>2. CASE /\ Len(call_stack) < RET_STACK_MAX_SIZE
           /\ call_stack' = Append(call_stack, ip + 1)
           /\ Jump(Fetched)
  <2>1. /\ Fetched \in InstrData /\ program \in Seq(InstrData)
        /\ ip \in Nat /\ ip + 1 \in 1..Len(program)
    BY FetchedType DEF ExecInv
  <2>2. ip' \in 0..Len(program) /\ status' \in Statuses
    BY <1>2, <2>1, JumpStays DEF ExecInv
  <2>3. UNCHANGED <<program, registers, RFLAGS, stack, ram>>
    BY <1>2 DEF Jump
  <2>4. call_stack \in Seq(Nat)
    BY DEF ExecInv, Sound
  <2>5. /\ call_stack' \in Seq(Nat) /\ Len(call_stack') = Len(call_stack) + 1
        /\ \A k \in 1..Len(call_stack) : call_stack'[k] = call_stack[k]
        /\ call_stack'[Len(call_stack) + 1] = ip + 1
    BY <1>2, <2>1, <2>4
  <2>6. Sound'
    BY <2>2, <2>3, <2>5 DEF ExecInv, Sound
  <2>7. program[ip + 1].op = "call"
    BY DEF call_exec, Fetched
  <2>8. ReturnsFollowCalls'
    <3>1. Len(call_stack') <= RET_STACK_MAX_SIZE
      BY <1>2, <2>4, <2>5, ExecAssumption
    <3>2. ASSUME NEW k \in 1..Len(call_stack')
          PROVE  call_stack'[k] \in 1..Len(program) /\ program[call_stack'[k]].op = "call"
      <4>1. CASE k \in 1..Len(call_stack)
        BY <4>1, <2>5 DEF ExecInv, ReturnsFollowCalls
      <4>2. CASE k = Len(call_stack) + 1
        BY <4>2, <2>1, <2>5, <2>7
      <4> QED BY <4>1, <4>2, <2>4, <2>5
    <3> QED BY <2>3, <3>1, <3>2 DEF ReturnsFollowCalls
  <2> QED BY <2>6, <2>8 DEF ExecInv
<1> QED BY <1>1, <1>2 DEF call_exec

LEMMA ret_execInv ==
    ASSUME ExecInv, ip < Len(program), NEW i \in InstrData, ret_exec(i)
    PROVE  ExecInv'
<1>1. CASE Stop("failed")
  BY <1>1, StopInv DEF Statuses
<1>2. CASE /\ call_stack # <<>>
           /\ call_stack' = Popped(call_stack)
           /\ UNCHANGED <<program, registers, RFLAGS, stack, ram>>
           /\ \/ /\ Top(call_stack) <= Len(program)
                 /\ ip' = Top(call_stack) /\ status' = "running"
              \/ Advance("failed")
  <2>1. ip \in Nat /\ ip + 1 \in 0..Len(program)
    BY FetchedType DEF ExecInv
  <2>2. call_stack \in Seq(Nat)
    BY DEF ExecInv, Sound
  <2>3. /\ Top(call_stack) \in Nat /\ call_stack' \in Seq(Nat)
        /\ Len(call_stack') = Len(call_stack) - 1
        /\ \A k \in 1..Len(call_stack') : call_stack'[k] = call_stack[k]
    BY <1>2, <2>2, PoppedType
  <2>4. ip' \in 0..Len(program) /\ status' \in Statuses
    <3>1. Len(program) \in Nat
      BY FetchedType DEF ExecInv
    <3> QED BY <1>2, <2>1, <2>3, <3>1 DEF Advance, Statuses
  <2>5. Sound'
    BY <1>2, <2>3, <2>4 DEF ExecInv, Sound
  <2>6. ReturnsFollowCalls'
    <3>1. /\ Len(call_stack) <= RET_STACK_MAX_SIZE
          /\ \A k \in 1..Len(call_stack) :
                call_stack[k] \in 1..Len(program) /\ program[call_stack[k]].op = "call"
      BY DEF ExecInv, ReturnsFollowCalls
    <3>2. Len(call_stack') <= RET_STACK_MAX_SIZE /\ Len(call_stack') \in Nat
      BY <2>2, <2>3, <3>1, ExecAssumption
    <3>3. ASSUME NEW k \in 1..Len(call_stack')
          PROVE  call_stack'[k] \in 1..Len(program) /\ program[call_stack'[k]].op = "call"
      <4>1. call_stack'[k] = call_stack[k]
        BY <2>3, Zenon
      <4>2. Len(call_stack) \in Nat
        BY <2>2
      <4>3. k \in 1..Len(call_stack)
        BY <2>3, <3>2, <4>2
      <4> QED BY <3>1, <4>1, <4>3, Zenon
    <3>4. program' = program
      BY <1>2
    <3> QED BY <3>2, <3>3, <3>4 DEF ReturnsFollowCalls
  <2> QED BY <2>5, <2>6 DEF ExecInv
<1> QED BY <1>1, <1>2 DEF ret_exec

LEMMA rpush_pop_execInv ==
    ASSUME ExecInv, ip < Len(program), NEW i \in InstrData, rpush_pop_exec(i)
    PROVE  ExecInv'
<1>0. /\ ip \in Nat /\ ip + 1 \in 0..Len(program)
      /\ i.rdest \in Register /\ registers \in [Register -> Word] /\ stack \in Seq(Word)
  BY FetchedType DEF ExecInv, Sound, InstrData
<1>1. CASE Stop("failed")
  BY <1>1, StopInv DEF Statuses
<1>2. CASE /\ stack' = Append(stack, registers[i.rdest])
           /\ Advance("running") /\ UNCHANGED <<registers, RFLAGS, call_stack, ram>>
  <2>1. stack' \in Seq(Word)
    BY <1>0, <1>2
  <2> QED BY <1>0, <1>2, <2>1 DEF ExecInv, Sound, ReturnsFollowCalls, Advance, Statuses
<1>3. CASE /\ stack # <<>>
           /\ registers' = [registers EXCEPT ![i.rdest] = Top(stack)]
           /\ stack' = Popped(stack)
           /\ \E s \in Shrunk : Advance(s)
           /\ UNCHANGED <<RFLAGS, call_stack, ram>>
  <2>1. stack' \in Seq(Word) /\ Top(stack) \in Word
    BY <1>0, <1>3, PoppedType
  <2>2. registers' \in [Register -> Word]
    BY <1>0, <1>3, <2>1
  <2>3. ip' = ip + 1 /\ status' \in Statuses /\ program' = program
    BY <1>3 DEF Advance, Shrunk, Statuses
  <2> QED BY <1>0, <1>3, <2>1, <2>2, <2>3 DEF ExecInv, Sound, ReturnsFollowCalls
<1> QED BY <1>1, <1>2, <1>3 DEF rpush_pop_exec

LEMMA arithmInv ==
    ASSUME ExecInv, ip < Len(program), NEW i \in InstrData,
           arithm_unary_exec(i) \/ arithm_binary_exec(i)
    PROVE  ExecInv'
<1> DEFINE a == registers[i.rsrc1]
           b == registers[i.rsrc2]
<1>0. i.rdest \in Register /\ a \in Word /\ b \in Word
  BY DEF ExecInv, Sound, InstrData
<1>1. CASE Stop("failed") \/ Stop("crashed")
  BY <1>1, StopInv DEF Statuses
<1>2. CASE arithm_unary_exec(i) /\ ~Stop("failed")
  <2>1. BitOp("not", a, a) \in Word /\ BitOp("sqrt", a, a) \in Word
    BY <1>0, AluAssumption DEF BitOps
  <2>2. PICK v \in Word : Write(i.rdest, v)
    BY <1>0, <1>2, <2>1 DEF arithm_unary_exec
  <2> QED BY <1>0, <2>2, WriteInv
<1>3. CASE arithm_binary_exec(i) /\ ~Stop("failed") /\ ~Stop("crashed")
  <2>1. i.op \in TripleRegOps /\ (i.op \in DivisionOps => b # 0)
        /\ Write(i.rdest, Result(i.op, a, b))
    BY <1>3 DEF arithm_binary_exec, TripleRegOps, DivisionOps
  <2>2. Result(i.op, a, b) \in Word
    BY <1>0, <2>1, ResultInWord
  <2> QED BY <1>0, <2>1, <2>2, WriteInv
<1> QED BY <1>1, <1>2, <1>3

LEMMA ram_execInv ==
    ASSUME ExecInv, ip < Len(program), NEW i \in InstrData, ram_exec(i)
    PROVE  ExecInv'
<1> DEFINE mem_idx == registers[i.rdest]
<1>0. /\ ip \in Nat /\ ip + 1 \in 0..Len(program)
      /\ i.rdest \in Register /\ i.rsrc1 \in Register
      /\ registers \in [Register -> Word] /\ ram \in [Addresses -> Word \cup {Unwritten}]
  BY FetchedType DEF ExecInv, Sound, InstrData
<1>1. CASE Stop("failed") \/ Stop("undefined")
  BY <1>1, StopInv DEF Statuses
<1>2. CASE /\ mem_idx \in Addresses
           /\ ram' = [ram EXCEPT ![mem_idx] = registers[i.rsrc1]]
           /\ Advance("running") /\ UNCHANGED <<registers, RFLAGS, stack, call_stack>>
  <2>1. ram' \in [Addresses -> Word \cup {Unwritten}]
    BY <1>0, <1>2
  <2> QED BY <1>0, <1>2, <2>1 DEF ExecInv, Sound, ReturnsFollowCalls, Advance, Statuses
<1>3. CASE /\ mem_idx \in Addresses
           /\ \E v \in IF ram[mem_idx] = Unwritten THEN Word ELSE {ram[mem_idx]} :
                 /\ ram' = [ram EXCEPT ![mem_idx] = v]
                 /\ registers' = [registers EXCEPT ![i.rsrc1] = v]
           /\ Advance("running") /\ UNCHANGED <<RFLAGS, stack, call_stack>>
  <2>1. PICK v \in Word : /\ ram' = [ram EXCEPT ![mem_idx] = v]
                          /\ registers' = [registers EXCEPT ![i.rsrc1] = v]
    BY <1>0, <1>3
  <2>2. /\ ram' \in [Addresses -> Word \cup {Unwritten}]
        /\ registers' \in [Register -> Word]
    BY <1>0, <2>1
  <2> QED BY <1>0, <1>3, <2>2 DEF ExecInv, Sound, ReturnsFollowCalls, Advance, Statuses
<1> QED BY <1>1, <1>2, <1>3 DEF ram_exec

(* The instructions that only move words between registers.                *)
LEMMA MovesInv ==
    ASSUME ExecInv, ip < Len(program), NEW i \in InstrData,
           \/ ldc_exec(i) \/ ldp_exec(i) \/ cmp_exec(i) \/ simple_io_exec(i)
           \/ scrhw_exec(i) \/ draw_exec(i) \/ noarg_exec(i)
    PROVE  ExecInv'
<1>0a. Field \subseteq Word
  BY IsaAssumption, AluAssumption DEF Field, Word
<1>0. /\ ip \in Nat /\ ip + 1 \in 0..Len(program)
      /\ i.rdest \in Register /\ i.rsrc1 \in Register /\ i.num \in Word
      /\ registers \in [Register -> Word] /\ stack \in Seq(Word)
  BY <1>0a, FetchedType DEF ExecInv, Sound, InstrData
<1>1. CASE \E s \in Statuses : Stop(s)
  BY <1>1, StopInv
<1>2. CASE \E r \in Register, v \in Word : Write(r, v)
  BY <1>2, WriteInv
<1>3. CASE cmp_exec(i)
  <2>1. registers[i.rdest] \in Word /\ registers[i.rsrc1] \in Word
    BY <1>0
  <2>2. RFLAGS' \in {{}, {CMP_EQ_FLAG}, {CMP_SIGN_FLAG}}
    BY <1>3, <2>1, OneOutcome DEF cmp_exec
  <2> QED BY <1>0, <1>3, <2>2
          DEF cmp_exec, ExecInv, Sound, ReturnsFollowCalls, Advance, Statuses
<1>4. CASE scrhw_exec(i)
  <2>1. registers' \in [Register -> Word]
    BY <1>0, <1>4, ExecAssumption DEF scrhw_exec
  <2> QED BY <1>0, <1>4, <2>1
          DEF scrhw_exec, ExecInv, Sound, ReturnsFollowCalls, Advance, Statuses
<1>5. CASE ldp_exec(i)
  <2>1. i.num \in 0..Len(stack) - 1 => stack[Len(stack) - i.num] \in Word
    BY <1>0
  <2> QED BY <1>0, <1>1, <1>2, <1>5, <2>1 DEF ldp_exec, Statuses
<1>6. CASE ldc_exec(i) \/ simple_io_exec(i) \/ draw_exec(i) \/ noarg_exec(i)
  BY <1>0, <1>1, <1>2, <1>6
  DEF ldc_exec, simple_io_exec, draw_exec, noarg_exec, Statuses
<1> QED BY <1>3, <1>4, <1>5, <1>6

-----------------------------------------------------------------------------
(* The invariant *)

LEMMA InitInv == ASSUME Init PROVE ExecInv
<1>1. program \in Seq(InstrData)
  BY ExecAssumption DEF Init
<1>2. 0 \in Word
  BY AluAssumption DEF Word
<1>3. Sound
  BY <1>1, <1>2 DEF Init, Sound, Statuses
<1>4. ReturnsFollowCalls
  BY ExecAssumption DEF Init, ReturnsFollowCalls
<1> QED BY <1>3, <1>4 DEF ExecInv

LEMMA NextInv == ASSUME ExecInv, [Next]_vars PROVE ExecInv'
<1>1. CASE UNCHANGED vars
  BY <1>1 DEF vars, ExecInv, Sound, ReturnsFollowCalls
<1>2. CASE /\ ip = Len(program) /\ status' = "done"
           /\ UNCHANGED <<program, ip, registers, RFLAGS, stack, call_stack, ram>>
  BY <1>2 DEF ExecInv, Sound, ReturnsFollowCalls, Statuses
<1>3. CASE ip < Len(program) /\ SPUExecuteInstruction(Fetched)
  <2>1. Fetched \in InstrData
    BY <1>3, FetchedType DEF ExecInv
  <2> DEFINE i == Fetched
  <2>2. CASE jmp_exec(i)
    BY <1>3, <2>1, <2>2, jmp_execInv
  <2>3. CASE call_exec(i)
    BY <1>3, <2>3, call_execInv
  <2>4. CASE ret_exec(i)
    BY <1>3, <2>1, <2>4, ret_execInv
  <2>5. CASE rpush_pop_exec(i)
    BY <1>3, <2>1, <2>5, rpush_pop_execInv
  <2>6. CASE arithm_unary_exec(i) \/ arithm_binary_exec(i)
    BY <1>3, <2>1, <2>6, arithmInv
  <2>7. CASE ram_exec(i)
    BY <1>3, <2>1, <2>7, ram_execInv
  <2>8. CASE \/ ldc_exec(i) \/ ldp_exec(i) \/ cmp_exec(i) \/ simple_io_exec(i)
             \/ scrhw_exec(i) \/ draw_exec(i) \/ noarg_exec(i)
    BY <1>3, <2>1, <2>8, MovesInv
  <2>9. CASE Stop("failed")
    BY <1>3, <2>9, StopInv DEF Statuses
  <2> QED BY <1>3, <2>2, <2>3, <2>4, <2>5, <2>6, <2>7, <2>8, <2>9
          DEF SPUExecuteInstruction
<1> QED BY <1>1, <1>2, <1>3 DEF Next, SPUExecute, Returned

LEMMA Invariance == Spec => []ExecInv
<1>1. Init => ExecInv
  BY InitInv
<1>2. ExecInv /\ [Next]_vars => ExecInv'
  BY NextInv
<1> QED BY <1>1, <1>2, PTL DEF Spec

(* No step changes the program.                                            *)
LEMMA StepKeepsProgram == ASSUME [Next]_vars PROVE program' = program
BY DEF Next, vars, SPUExecute, Returned, SPUExecuteInstruction, Stop, Write, Advance, Jump,
       jmp_exec, call_exec, ret_exec, noarg_exec, ldc_exec, ldp_exec, cmp_exec,
       rpush_pop_exec, simple_io_exec, arithm_unary_exec, arithm_binary_exec, ram_exec,
       scrhw_exec, draw_exec

(* Whatever program is loaded, every variable keeps its type: in           *)
(* particular the instruction pointer stays within the program.            *)
THEOREM TypeCorrect == Spec => []TypeOK
<1> DEFINE Loaded == program \in Programs
<1>1. Init => Loaded
  BY DEF Init
<1>2. ExecInv /\ Loaded /\ [Next]_vars => Loaded'
  BY StepKeepsProgram
<1>3. ExecInv /\ Loaded => TypeOK
  BY DEF ExecInv, Sound, TypeOK
<1> QED BY <1>1, <1>2, <1>3, Invariance, PTL DEF Spec

(* Whatever program is loaded, the call stack stays within its limit and   *)
(* holds only addresses behind calls, conditional calls included.          *)
THEOREM ReturnsAlwaysFollowCalls == Spec => []ReturnsFollowCalls
<1>1. ExecInv => ReturnsFollowCalls
  BY DEF ExecInv
<1> QED BY <1>1, Invariance, PTL

(* Only registers that the fields of an instruction name are written.      *)
LEMMA StepWritesNamed ==
    ASSUME ExecInv, Next, NEW r \in Register, registers'[r] # registers[r]
    PROVE  r \in Named(Fetched)
<1>1. ip < Len(program) /\ SPUExecuteInstruction(Fetched)
  BY DEF Next, SPUExecute, Returned, vars
<1> DEFINE i == Fetched
<1>2. i \in InstrData /\ registers \in [Register -> Word]
  BY <1>1, FetchedType DEF ExecInv, Sound
<1>3. \A s : ~Stop(s)
  BY DEF Stop
<1>4. ~Jump(i)
  BY DEF Jump
<1>5. CASE ret_exec(i) \/ jmp_exec(i) \/ call_exec(i) \/ noarg_exec(i)
  BY <1>3, <1>4, <1>5 DEF ret_exec, jmp_exec, call_exec, noarg_exec
<1>6. \A q \in Register : \A v : Write(q, v) => r = q
  BY <1>2 DEF Write
<1>7. CASE ldc_exec(i) \/ ldp_exec(i) \/ simple_io_exec(i) \/ draw_exec(i) \/ cmp_exec(i)
  BY <1>2, <1>3, <1>6, <1>7
  DEF ldc_exec, ldp_exec, simple_io_exec, draw_exec, cmp_exec, Named, InstrData,
      NumberOps, SingleRegOps, DoubleRegOps
<1>8. CASE rpush_pop_exec(i)
  BY <1>2, <1>3, <1>8 DEF rpush_pop_exec, Named, InstrData, SingleRegOps
<1>9. CASE arithm_unary_exec(i)
  BY <1>2, <1>3, <1>6, <1>9 DEF arithm_unary_exec, Named, InstrData, DoubleRegOps
<1>10. CASE arithm_binary_exec(i)
  BY <1>2, <1>3, <1>6, <1>10
  DEF arithm_binary_exec, Named, InstrData, TripleRegOps, DivisionOps
<1>11. CASE ram_exec(i)
  BY <1>2, <1>3, <1>11 DEF ram_exec, Named, InstrData, DoubleRegOps
<1>12. CASE scrhw_exec(i)
  BY <1>2, <1>12 DEF scrhw_exec, Named, InstrData, DoubleRegOps
<1> QED BY <1>1, <1>3, <1>5, <1>7, <1>8, <1>9, <1>10, <1>11, <1>12
        DEF SPUExecuteInstruction

(* Whatever program runs, no instruction changes a register that none of   *)
(* its fields names.                                                       *)
THEOREM NothingImplicit == Spec => NoImplicitChange
<1>1. ExecInv /\ [Next]_vars =>
        [\A r \in Register :
            registers'[r] # registers[r] => r \in Named(Fetched)]_vars
  BY StepWritesNamed
<1> QED BY <1>1, Invariance, PTL DEF Spec, NoImplicitChange

-----------------------------------------------------------------------------
(* Counting instructions *)

(* How many instructions stand above line k of a text s.                   *)
Above(s, k) == Cardinality({j \in 1..k - 1 : s[j].kind = "instruction"})

LEMMA AboveFinite ==
    ASSUME NEW s, NEW k \in Nat \ {0}
    PROVE  /\ IsFiniteSet({j \in 1..k - 1 : s[j].kind = "instruction"})
           /\ Above(s, k) \in Nat
<1> DEFINE I == {j \in 1..k - 1 : s[j].kind = "instruction"}
<1>1. IsFiniteSet(1..k - 1)
  BY FS_Interval
<1>2. I \in SUBSET (1..k - 1)
  OBVIOUS
<1> HIDE DEF I
<1>3. IsFiniteSet(I)
  BY <1>1, <1>2, FS_Subset
<1>4. Cardinality(I) \in Nat
  BY <1>3, FS_CardinalityType
<1> QED BY <1>3, <1>4 DEF Above, I

LEMMA AboveFirst == ASSUME NEW s PROVE Above(s, 1) = 0
<1>1. {j \in 1..1 - 1 : s[j].kind = "instruction"} = {}
  OBVIOUS
<1> QED BY <1>1, FS_EmptySet DEF Above

LEMMA AboveNext ==
    ASSUME NEW s, NEW k \in Nat \ {0}
    PROVE  Above(s, k + 1) = IF s[k].kind = "instruction" THEN Above(s, k) + 1 ELSE Above(s, k)
<1> DEFINE I == {j \in 1..k - 1 : s[j].kind = "instruction"}
           J == {j \in 1..k + 1 - 1 : s[j].kind = "instruction"}
<1>1. IsFiniteSet(I)
  BY AboveFinite
<1>2. k \notin I
  OBVIOUS
<1>3. CASE s[k].kind = "instruction"
  <2>1. J = I \cup {k}
    BY <1>3
  <2> HIDE DEF I, J
  <2>2. Cardinality(J) = Cardinality(I) + 1
    BY <1>1, <1>2, <2>1, FS_AddElement
  <2> QED BY <1>3, <2>2 DEF Above, I, J
<1>4. CASE s[k].kind # "instruction"
  <2>1. J = I
    BY <1>4
  <2> HIDE DEF I, J
  <2>2. Cardinality(J) = Cardinality(I)
    BY <2>1
  <2> QED BY <1>4, <2>2 DEF Above, I, J
<1> QED BY <1>3, <1>4

(* Further down there are as many or more; an instruction counts itself.   *)
LEMMA AboveGrows ==
    ASSUME NEW s, NEW j \in Nat \ {0}, NEW k \in Nat, j <= k
    PROVE  /\ Above(s, j) <= Above(s, k)
           /\ j < k /\ s[j].kind = "instruction" => Above(s, j) + 1 <= Above(s, k)
<1>1. ASSUME NEW a \in Nat \ {0}, a <= k
      PROVE  Above(s, a) <= Above(s, k)
  <2> DEFINE I == {i \in 1..a - 1 : s[i].kind = "instruction"}
             J == {i \in 1..k - 1 : s[i].kind = "instruction"}
  <2>1. I \in SUBSET J
    BY <1>1
  <2>2. k \in Nat \ {0}
    BY <1>1
  <2>4. IsFiniteSet(J)
    BY <2>2, AboveFinite
  <2> HIDE DEF I, J
  <2>3. Cardinality(I) <= Cardinality(J)
    BY <2>1, <2>4, FS_Subset
  <2> QED BY <2>3 DEF I, J, Above
<1>2. ASSUME j < k, s[j].kind = "instruction" PROVE Above(s, j) + 1 <= Above(s, k)
  <2>1. j + 1 \in Nat \ {0} /\ j + 1 <= k
    BY <1>2
  <2>2. Above(s, j + 1) <= Above(s, k)
    BY <2>1, <1>1
  <2>3. Above(s, j + 1) = Above(s, j) + 1
    BY <1>2, AboveNext
  <2> QED BY <2>2, <2>3
<1> QED BY <1>1, <1>2

(* No two instructions have the same number above them, and every number   *)
(* below the count is that of an instruction.                              *)
LEMMA AboveTells ==
    ASSUME NEW s, NEW j \in Nat \ {0}, NEW k \in Nat \ {0},
           s[j].kind = "instruction", s[k].kind = "instruction", Above(s, j) = Above(s, k)
    PROVE  j = k
<1>1. Above(s, j) \in Nat /\ Above(s, k) \in Nat
  BY AboveFinite
<1>2. CASE j < k
  <2>1. Above(s, j) + 1 <= Above(s, k)
    BY <1>2, AboveGrows
  <2> QED BY <1>1, <2>1
<1>3. CASE k < j
  <2>1. Above(s, k) + 1 <= Above(s, j)
    BY <1>3, AboveGrows
  <2> QED BY <1>1, <2>1
<1> QED BY <1>2, <1>3

LEMMA AboveReaches ==
    ASSUME NEW s, NEW N \in Nat, NEW n \in Nat, n < Above(s, N + 1)
    PROVE  \E j \in 1..N : s[j].kind = "instruction" /\ Above(s, j) = n
<1> DEFINE Reached(m) == n < Above(s, m + 1) =>
                \E j \in 1..m : s[j].kind = "instruction" /\ Above(s, j) = n
           S == {m \in Nat : Reached(m)}
<1>1. 0 \in S
  BY AboveFirst
<1>2. ASSUME NEW m \in Nat, m \in S PROVE m + 1 \in S
  <2>1. SUFFICES ASSUME n < Above(s, (m + 1) + 1)
                 PROVE  \E j \in 1..m + 1 : s[j].kind = "instruction" /\ Above(s, j) = n
    OBVIOUS
  <2>2. m + 1 \in Nat \ {0}
    OBVIOUS
  <2>3. Above(s, (m + 1) + 1) = IF s[m + 1].kind = "instruction" THEN Above(s, m + 1) + 1
                                ELSE Above(s, m + 1)
    BY <2>2, AboveNext, Zenon
  <2>4. Above(s, m + 1) \in Nat
    BY <2>2, AboveFinite, Zenon
  <2>5. CASE n < Above(s, m + 1)
    BY <1>2, <2>5
  <2>6. CASE ~(n < Above(s, m + 1))
    <3>1. s[m + 1].kind = "instruction" /\ Above(s, m + 1) = n
      BY <2>1, <2>3, <2>4, <2>6
    <3> QED BY <3>1
  <2> QED BY <2>5, <2>6
<1> HIDE DEF S
<1>3. Nat \subseteq S
  BY <1>1, <1>2, SetInduction
<1> QED BY <1>3 DEF S
-----------------------------------------------------------------------------
(* Tokenizing *)

LEMMA AppendAt ==
    ASSUME NEW S, NEW a \in Seq(S), NEW e \in S
    PROVE  /\ Append(a, e) \in Seq(S) /\ Len(Append(a, e)) = Len(a) + 1
           /\ \A k \in 1..Len(a) : Append(a, e)[k] = a[k]
           /\ Append(a, e)[Len(a) + 1] = e
OBVIOUS

(* f[n] holds what is left of the first n lines.                           *)
Pushes(s, f) ==
    /\ f \in [0..Len(s) -> Seq(Lines)]
    /\ f[0] = <<>>
    /\ \A n \in 0..Len(s) - 1 :
          f[n + 1] = IF s[n + 1].kind = "empty" THEN f[n] ELSE Append(f[n], s[n + 1])

LEMMA TokenizedIs ==
    ASSUME NEW s \in Seq(Lines)
    PROVE  \E f : Pushes(s, f) /\ Tokenized(s) = f[Len(s)]
<1> DEFINE N == Len(s)
           Push(t, l) == IF l.kind = "empty" THEN t ELSE Append(t, l)
           step == [q \in (0..N - 1) \X Seq(Lines) |-> Push(q[2], s[q[1] + 1])]
           IsUpTo(u) == u = [n \in 0..N |-> IF n = 0 THEN <<>>
                                            ELSE IF s[n].kind = "empty" THEN u[n - 1]
                                            ELSE Append(u[n - 1], s[n])]
<1>1. N \in Nat /\ \A n \in 1..N : s[n] \in Lines
  OBVIOUS
<1>2. \A n \in 0..N - 1 : s[n + 1] \in Lines
  BY <1>1
<1>3. \A n \in 0..N - 1, v \in Seq(Lines) :
         /\ step[<<n, v>>] = Push(v, s[n + 1])
         /\ Push(v, s[n + 1]) \in Seq(Lines)
  <2>1. ASSUME NEW n \in 0..N - 1, NEW v \in Seq(Lines)
        PROVE  /\ step[<<n, v>>] = Push(v, s[n + 1])
               /\ Push(v, s[n + 1]) \in Seq(Lines)
    <3>1. step[<<n, v>>] = Push(v, s[n + 1])
      OBVIOUS
    <3>2. Append(v, s[n + 1]) \in Seq(Lines)
      BY <1>2, AppendAt
    <3> QED BY <3>1, <3>2
  <2> QED BY <2>1
<1> HIDE DEF step, N
<1>4. PICK g : RecursUpTo(g, N, Seq(Lines), <<>>, step)
  <2>1. <<>> \in Seq(Lines)
    OBVIOUS
  <2>2. \A n \in 0..N - 1, v \in Seq(Lines) : step[<<n, v>>] \in Seq(Lines)
    BY <1>3
  <2>3. IsRecursionUpTo(N, Seq(Lines), <<>>, step)
    BY <2>1, <2>2, Zenon DEF IsRecursionUpTo
  <2> QED BY <1>1, <2>3, RecursionUpTo
<1>5. IsUpTo(g)
  <2>1. ASSUME NEW n \in 0..N, n # 0 PROVE g[n] = Push(g[n - 1], s[n])
    <3>1. n - 1 \in 0..N - 1 /\ n - 1 \in 0..N /\ (n - 1) + 1 = n
      BY <1>1, <2>1
    <3>2. g[n] = step[<<n - 1, g[n - 1]>>] /\ g[n - 1] \in Seq(Lines)
      BY <1>4, <3>1 DEF RecursUpTo
    <3> QED BY <1>3, <3>1, <3>2
  <2>2. \A n \in 0..N : g[n] = IF n = 0 THEN <<>> ELSE Push(g[n - 1], s[n])
    BY <1>4, <2>1 DEF RecursUpTo
  <2> QED BY <1>4, <2>2 DEF RecursUpTo
<1> DEFINE f == CHOOSE u : IsUpTo(u)
<1>6. IsUpTo(f)
  BY <1>5
<1>7. Tokenized(s) = f[N]
  BY DEF Tokenized, N
<1> HIDE DEF f
<1>8. f[0] = <<>> /\ DOMAIN f = 0..N
  BY <1>1, <1>6
<1>9. \A n \in 0..N - 1 : f[n + 1] = Push(f[n], s[n + 1])
  <2>1. \A n \in 0..N : f[n] = IF n = 0 THEN <<>> ELSE Push(f[n - 1], s[n])
    BY <1>6
  <2>2. ASSUME NEW n \in 0..N - 1 PROVE f[n + 1] = Push(f[n], s[n + 1])
    <3>1. n + 1 \in 0..N /\ n + 1 # 0 /\ (n + 1) - 1 = n
      BY <1>1
    <3> HIDE DEF Push
    <3> QED BY <2>1, <3>1
  <2> QED BY <2>2
<1> DEFINE S == {n \in 0..N : f[n] \in Seq(Lines)}
<1> HIDE DEF Push
<1>10. 0..N \subseteq S
  <2>1. 0 \in S
    <3>1. <<>> \in Seq(Lines) /\ 0 \in 0..N
      BY <1>1
    <3> QED BY <1>8, <3>1, Zenon
  <2>2. ASSUME NEW n \in 0..N - 1, n \in S PROVE n + 1 \in S
    <3>1. Push(f[n], s[n + 1]) \in Seq(Lines)
      BY <1>3, <2>2
    <3>2. n + 1 \in 0..N
      BY <1>1
    <3> QED BY <1>9, <3>1, <3>2, Zenon
  <2> HIDE DEF S
  <2> QED BY <1>1, <2>1, <2>2, SetInductionUpTo
<1>11. f \in [0..N -> Seq(Lines)]
  BY <1>6, <1>10
<1> QED BY <1>7, <1>8, <1>9, <1>11 DEF Pushes, N, Push

(* The lines t are those of the first n of s that are not empty, in their  *)
(* order: line m was line p[m].                                            *)
Kept(t, s, n, p) ==
    /\ t \in Seq(Lines)
    /\ p \in [1..Len(t) -> 1..n]
    /\ \A m \in 1..Len(t) : t[m] = s[p[m]] /\ t[m].kind # "empty"
    /\ \A l, m \in 1..Len(t) : l < m => p[l] < p[m]
    /\ \A k \in 1..n : s[k].kind # "empty" => \E m \in 1..Len(t) : p[m] = k

LEMMA KeptPushed ==
    ASSUME NEW s \in Seq(Lines), NEW n \in 0..Len(s) - 1, NEW t, NEW p, Kept(t, s, n, p),
           s[n + 1].kind # "empty"
    PROVE  \E q : Kept(Append(t, s[n + 1]), s, n + 1, q)
<1> DEFINE l == s[n + 1]
           u == Append(t, l)
           L == Len(t)
           q == [m \in 1..L + 1 |-> IF m = L + 1 THEN n + 1 ELSE p[m]]
<1>1. /\ t \in Seq(Lines) /\ p \in [1..L -> 1..n] /\ L \in Nat /\ n \in Nat
      /\ \A m \in 1..L : t[m] = s[p[m]] /\ t[m].kind # "empty"
      /\ \A i, m \in 1..L : i < m => p[i] < p[m]
      /\ \A k \in 1..n : s[k].kind # "empty" => \E m \in 1..L : p[m] = k
  BY DEF Kept
<1>2. l \in Lines
  <2>1. n + 1 \in 1..Len(s)
    BY <1>1
  <2> QED BY <2>1
<1>3. /\ u \in Seq(Lines) /\ Len(u) = L + 1 /\ u[L + 1] = l
      /\ \A m \in 1..L : u[m] = t[m]
  BY <1>1, <1>2, AppendAt
<1>4. \A m \in 1..L : p[m] \in Nat /\ p[m] <= n /\ 1 <= p[m]
  BY <1>1
<1>5. \A m \in 1..L + 1 : m = L + 1 \/ (m \in 1..L /\ m # L + 1)
  BY <1>1
<1>6. /\ DOMAIN q = 1..L + 1 /\ q[L + 1] = n + 1
      /\ \A m \in 1..L : q[m] = p[m]
  <2>1. L + 1 \in 1..L + 1 /\ \A m \in 1..L : m \in 1..L + 1 /\ m # L + 1
    BY <1>1
  <2> QED BY <2>1
<1>7. q \in [1..L + 1 -> 1..n + 1]
  <2>1. ASSUME NEW m \in 1..L + 1 PROVE (IF m = L + 1 THEN n + 1 ELSE p[m]) \in 1..n + 1
    <3>1. n + 1 \in 1..n + 1
      BY <1>1
    <3>2. m # L + 1 => p[m] \in 1..n + 1
      BY <1>1, <1>4, <1>5
    <3> QED BY <3>1, <3>2
  <2> QED BY <2>1
<1> HIDE DEF q, u, l
<1>8. \A m \in 1..L + 1 : u[m] = s[q[m]] /\ u[m].kind # "empty"
  <2>1. u[L + 1] = s[q[L + 1]] /\ u[L + 1].kind # "empty"
    BY <1>3, <1>6 DEF l
  <2>2. \A m \in 1..L : u[m] = s[q[m]] /\ u[m].kind # "empty"
    BY <1>1, <1>3, <1>6
  <2> QED BY <1>5, <2>1, <2>2
<1>9. \A i, m \in 1..L + 1 : i < m => q[i] < q[m]
  <2>1. ASSUME NEW i \in 1..L + 1, NEW m \in 1..L + 1, i < m PROVE q[i] < q[m]
    <3>1. i \in 1..L /\ q[i] = p[i]
      BY <1>1, <1>6, <2>1
    <3>2. CASE m \in 1..L
      BY <1>1, <1>6, <2>1, <3>1, <3>2
    <3>3. CASE m = L + 1
      <4>1. p[i] \in Nat /\ p[i] <= n
        BY <1>4, <3>1
      <4>2. q[m] = n + 1
        BY <1>6, <3>3
      <4> QED BY <1>1, <3>1, <4>1, <4>2
    <3> QED BY <1>5, <3>2, <3>3
  <2> QED BY <2>1
<1>10. \A k \in 1..n + 1 : s[k].kind # "empty" => \E m \in 1..L + 1 : q[m] = k
  <2>1. ASSUME NEW k \in 1..n + 1, s[k].kind # "empty" PROVE \E m \in 1..L + 1 : q[m] = k
    <3>1. CASE k = n + 1
      <4>1. L + 1 \in 1..L + 1
        BY <1>1
      <4> QED BY <1>6, <3>1, <4>1
    <3>2. CASE k \in 1..n
      <4>1. PICK m \in 1..L : p[m] = k
        BY <1>1, <2>1, <3>2
      <4>2. m \in 1..L + 1 /\ q[m] = k
        BY <1>1, <1>6, <4>1
      <4> QED BY <4>2
    <3> QED BY <1>1, <3>1, <3>2
  <2> QED BY <2>1
<1>11. Kept(u, s, n + 1, q)
  <2> HIDE DEF L
  <2> QED BY <1>3, <1>7, <1>8, <1>9, <1>10, Zenon DEF Kept
<1> QED BY <1>11 DEF u, l

LEMMA TokenizedKeeps ==
    ASSUME NEW s \in Seq(Lines)
    PROVE  \E p : Kept(Tokenized(s), s, Len(s), p)
<1>1. PICK f : Pushes(s, f) /\ Tokenized(s) = f[Len(s)]
  BY TokenizedIs
<1> DEFINE N == Len(s)
           S == {n \in 0..N : \E p : Kept(f[n], s, n, p)}
<1>2. N \in Nat
  OBVIOUS
<1>3. 0 \in S
  <2>1. <<>> \in Seq(Lines) /\ Len(<<>>) = 0
    OBVIOUS
  <2>2. Kept(<<>>, s, 0, [m \in 1..0 |-> 1])
    BY <2>1 DEF Kept
  <2>3. f[0] = <<>> /\ 0 \in 0..N
    BY <1>1, <1>2 DEF Pushes
  <2> QED BY <2>2, <2>3
<1>4. ASSUME NEW n \in 0..N - 1, n \in S PROVE n + 1 \in S
  <2>1. n + 1 \in 0..N /\ n \in Nat
    BY <1>2
  <2>2. PICK p : Kept(f[n], s, n, p)
    BY <1>4
  <2>3. f[n + 1] = IF s[n + 1].kind = "empty" THEN f[n] ELSE Append(f[n], s[n + 1])
    BY <1>1 DEF Pushes
  <2>4. CASE s[n + 1].kind # "empty"
    <3>1. \E q : Kept(Append(f[n], s[n + 1]), s, n + 1, q)
      BY <2>2, <2>4, KeptPushed
    <3> QED BY <2>1, <2>3, <2>4, <3>1
  <2>5. CASE s[n + 1].kind = "empty"
    <3> DEFINE t == f[n]
    <3>1. t \in Seq(Lines) /\ p \in [1..Len(t) -> 1..n]
      BY <2>2 DEF Kept
    <3>2. p \in [1..Len(t) -> 1..n + 1]
      <4>1. 1..n \subseteq 1..n + 1
        BY <2>1
      <4> QED BY <3>1, <4>1
    <3>3. \A k \in 1..n + 1 : s[k].kind # "empty" => k \in 1..n
      BY <2>1, <2>5
    <3>4. Kept(t, s, n + 1, p)
      BY <2>2, <3>2, <3>3, Zenon DEF Kept
    <3> QED BY <2>1, <2>3, <2>5, <3>4
  <2> QED BY <2>4, <2>5
<1> HIDE DEF S
<1>5. 0..N \subseteq S
  BY <1>2, <1>3, <1>4, SetInductionUpTo
<1>6. N \in 0..N
  BY <1>2
<1> QED BY <1>1, <1>5, <1>6 DEF S

(* Dropping empty lines moves no instruction: as many stand above a line   *)
(* afterwards as before.                                                   *)
LEMMA KeptAbove ==
    ASSUME NEW s \in Seq(Lines), NEW t, NEW p, Kept(t, s, Len(s), p), NEW m \in 1..Len(t) + 1,
           NEW k \in 1..Len(s) + 1,
           m \in 1..Len(t) => k = p[m], m = Len(t) + 1 => k = Len(s) + 1
    PROVE  Above(t, m) = Above(s, k)
<1> DEFINE I == {i \in 1..m - 1 : t[i].kind = "instruction"}
           J == {j \in 1..k - 1 : s[j].kind = "instruction"}
           b == [i \in I |-> p[i]]
<1>1. /\ t \in Seq(Lines) /\ p \in [1..Len(t) -> 1..Len(s)]
      /\ \A i \in 1..Len(t) : t[i] = s[p[i]] /\ t[i].kind # "empty"
      /\ \A i, j \in 1..Len(t) : i < j => p[i] < p[j]
      /\ \A i \in 1..Len(s) : s[i].kind # "empty" => \E j \in 1..Len(t) : p[j] = i
  BY DEF Kept
<1>2. Len(t) \in Nat /\ Len(s) \in Nat /\ m \in Nat \ {0} /\ k \in Nat \ {0}
  BY <1>1
<1>3. \A i \in 1..Len(t) : p[i] \in 1..Len(s) /\ p[i] \in Nat
  BY <1>1
<1>4. \A i \in 1..m - 1 : i \in 1..Len(t)
  BY <1>2
<1>5. \A i \in 1..Len(t) : i < m <=> p[i] < k
  <2>1. ASSUME NEW i \in 1..Len(t) PROVE i < m <=> p[i] < k
    <3>1. CASE m \in 1..Len(t)
      <4>1. k = p[m]
        BY <3>1
      <4>2. i < m => p[i] < p[m]
        BY <1>1, <3>1
      <4>3. m < i => p[m] < p[i]
        BY <1>1, <3>1
      <4>4. p[i] \in Nat /\ p[m] \in Nat
        BY <1>3, <3>1
      <4>5. CASE i = m
        BY <4>1, <4>5, <1>2, <4>4
      <4> QED BY <1>2, <4>1, <4>2, <4>3, <4>4, <4>5
    <3>2. CASE m = Len(t) + 1
      <4>1. k = Len(s) + 1
        BY <3>2
      <4>2. p[i] \in 1..Len(s)
        BY <1>3
      <4> QED BY <1>2, <3>2, <4>1, <4>2
    <3> QED BY <1>2, <3>1, <3>2
  <2> QED BY <2>1
<1>6. \A i \in I : p[i] \in J
  <2>1. ASSUME NEW i \in I PROVE p[i] \in J
    <3>1. i \in 1..Len(t) /\ i < m /\ t[i].kind = "instruction"
      BY <1>2, <1>4
    <3>2. p[i] \in 1..Len(s) /\ p[i] < k /\ s[p[i]].kind = "instruction"
      BY <1>1, <1>3, <1>5, <3>1
    <3>3. p[i] \in 1..k - 1
      BY <1>2, <3>2
    <3> QED BY <3>2, <3>3
  <2> QED BY <2>1
<1>7. \A j \in J : \E i \in I : p[i] = j
  <2>1. ASSUME NEW j \in J PROVE \E i \in I : p[i] = j
    <3>1. j \in 1..Len(s) /\ j < k /\ s[j].kind = "instruction"
      BY <1>2
    <3>2. PICK i \in 1..Len(t) : p[i] = j
      BY <1>1, <3>1
    <3>3. i < m /\ t[i].kind = "instruction"
      BY <1>1, <1>5, <3>1, <3>2
    <3>4. i \in 1..m - 1
      BY <1>2, <3>3
    <3> QED BY <3>2, <3>3, <3>4
  <2> QED BY <2>1
<1>8. \A i, j \in I : p[i] = p[j] => i = j
  <2>1. ASSUME NEW i \in I, NEW j \in I, p[i] = p[j] PROVE i = j
    <3>1. i \in 1..Len(t) /\ j \in 1..Len(t)
      BY <1>4
    <3>2. i < j => p[i] < p[j]
      BY <1>1, <3>1
    <3>3. j < i => p[j] < p[i]
      BY <1>1, <3>1
    <3>4. p[i] \in Nat /\ p[j] \in Nat /\ i \in Nat /\ j \in Nat
      BY <1>2, <1>3, <3>1
    <3> QED BY <2>1, <3>2, <3>3, <3>4
  <2> QED BY <2>1
<1>9. IsFiniteSet(I)
  BY <1>2, AboveFinite
<1> HIDE DEF I, J
<1>10. b \in Bijection(I, J)
  <2>1. b \in [I -> J] /\ DOMAIN b = I /\ \A i \in I : b[i] = p[i]
    BY <1>6
  <2>2. \A i, j \in DOMAIN b : b[i] = b[j] => i = j
    BY <1>8, <2>1
  <2>3. \A j \in J : \E i \in I : b[i] = j
    BY <1>7, <2>1
  <2> HIDE DEF b
  <2> QED BY <2>1, <2>2, <2>3 DEF Bijection, Injection, Surjection, IsInjective
<1>11. ExistsBijection(I, J)
  BY <1>10 DEF ExistsBijection
<1>12. Cardinality(J) = Cardinality(I)
  BY <1>9, <1>11, FS_Bijection
<1> QED BY <1>12 DEF Above, I, J
-----------------------------------------------------------------------------
(* The invariant of the assembler *)

(* The entries of table T are the labels of t above line n, with as many   *)
(* instructions as stand above them; no two of these lines declare the     *)
(* same label.                                                             *)
LabelsKnown(t, T, n) ==
    /\ \A i \in 1..Len(T) : \E k \in 1..n - 1 :
          /\ t[k].kind = "label" /\ t[k].label = T[i].label
          /\ T[i].instruction_ptr = Above(t, k)
    /\ \A k \in 1..n - 1 : t[k].kind = "label" =>
          \E i \in 1..Len(T) : T[i].label = t[k].label
    /\ \A j, k \in 1..n - 1 :
          t[j].kind = "label" /\ t[k].kind = "label" /\ t[j].label = t[k].label => j = k

Labelled(l) == l.instr.op \in JumpOps /\ l.label # NoLabel

(* w is what line k becomes: its fields, and a number that leads a jump    *)
(* from behind itself to where its label stands.                           *)
Translates(t, k, w) ==
    \E x \in Field :
        /\ w = [t[k].instr EXCEPT !.num = Encoded(x)]
        /\ ~Labelled(t[k]) => x = t[k].instr.num
        /\ Labelled(t[k]) => \A d \in 1..Len(t) :
              t[d].kind = "label" /\ t[d].label = t[k].label =>
                  x = Above(t, d) - Above(t, k) - 1

Translated(t, b, n) ==
    \A k \in 1..n - 1 : t[k].kind = "instruction" => Translates(t, k, b[Above(t, k) + 1])

WellFormed(t, n) == \A k \in 1..n - 1 : t[k].wellFormed

Known(s) == \A k \in 1..Len(s) : s[k].kind = "instruction" => s[k].instr.op # "unknown"

(* The first pass has collected the labels above its line; for the second  *)
(* one all of them are there.                                              *)
Collected == IF second_compilation THEN Len(asm_instr_arr) + 1 ELSE line

Reading ==
    /\ asm_instr_arr = <<>> /\ labels_table = <<>> /\ bin_instr_arr = <<>>
    /\ n_instruction = 0 /\ line = 1 /\ second_compilation = FALSE

Assembling ==
    /\ asm_instr_arr = Tokenized(source) /\ Known(source)
    /\ n_instruction = Above(asm_instr_arr, line)
    /\ WellFormed(asm_instr_arr, Collected)
    /\ LabelsKnown(asm_instr_arr, labels_table, Collected)
    /\ second_compilation => Translated(asm_instr_arr, bin_instr_arr, line)

AsmInv ==
    /\ AsmTypeOK /\ source \in Sources
    /\ result = "reading" => Reading
    /\ result \in {"assembling", "written"} => Assembling
    /\ result = "written" => second_compilation /\ line = Len(asm_instr_arr) + 1

Binary == [op : Opcodes, cond : Conditions, rdest : Register, rsrc1 : Register,
           rsrc2 : Register, num : 0..2 * FieldHalf - 1]

-----------------------------------------------------------------------------
(* Numbers in instructions *)

(* A number of the field comes back out of its encoding.                   *)
LEMMA NumbersComeBack ==
    ASSUME NEW x \in Field
    PROVE  Encoded(x) \in 0..2 * FieldHalf - 1 /\ bit_extend_signed(Encoded(x)) = x
<1>1. FieldHalf \in Nat \ {0}
  BY IsaAssumption
<1> DEFINE m == 2 * FieldHalf
<1>2. x \in Int /\ -FieldHalf <= x /\ x < FieldHalf /\ m \in Nat \ {0}
  BY <1>1 DEF Field
<1>3. CASE 0 <= x
  <2>1. x % m = x
    BY <1>1, <1>2, <1>3, Z3
  <2> QED BY <1>1, <1>2, <1>3, <2>1 DEF Encoded, bit_extend_signed
<1>4. CASE x < 0
  <2>1. x % m = x + m
    <3> DEFINE q == x \div m
               r == x % m
    <3>1. q \in Int /\ r \in 0..m - 1 /\ x = m * q + r
      BY <1>2, Z3
    <3>2. -m <= x
      BY <1>1, <1>2
    <3> HIDE DEF q, r, m
    <3>3. CASE q >= 0
      <4>1. m * q >= 0
        BY <1>2, <3>1, <3>3
      <4> QED BY <1>2, <1>4, <3>1, <4>1
    <3>4. CASE q <= -2
      <4>1. m * (q + 2) <= 0
        BY <1>2, <3>1, <3>4
      <4>2. m * (q + 2) = m * q + 2 * m /\ m * q \in Int
        BY <1>2, <3>1
      <4> QED BY <1>2, <3>1, <3>2, <4>1, <4>2
    <3>5. CASE q = -1
      <4>1. m * q = -m
        BY <1>2, <3>5
      <4> QED BY <1>2, <3>1, <4>1 DEF r
    <3> QED BY <3>1, <3>3, <3>4, <3>5
  <2>2. x + m \in 0..m - 1 /\ ~(x + m < FieldHalf) /\ (x + m) - m = x
    BY <1>1, <1>2, <1>4
  <2> QED BY <1>1, <2>1, <2>2 DEF Encoded, bit_extend_signed
<1> QED BY <1>2, <1>3, <1>4

-----------------------------------------------------------------------------
(* The assembler's steps *)

LEMMA AsmInitInv == ASSUME AsmInit PROVE AsmInv
<1>1. <<>> \in Seq(Lines) /\ <<>> \in Seq([label : Labels, instruction_ptr : Nat])
      /\ <<>> \in Seq(Binary) /\ Len(<<>>) = 0
  OBVIOUS
<1>2. AsmTypeOK
  <2>1. 1 \in 1..Len(<<>>) + 1
    BY <1>1
  <2> QED BY <1>1, <2>1 DEF AsmInit, AsmTypeOK, Binary
<1> QED BY <1>2 DEF AsmInit, AsmInv, Reading

LEMMA RejectInv == ASSUME AsmInv, Reject PROVE AsmInv'
BY DEF Reject, AsmInv, AsmTypeOK

LEMMA tokenizeInv == ASSUME AsmInv, tokenize_instructions PROVE AsmInv'
<1>1. CASE Reject
  BY <1>1, RejectInv
<1>2. CASE ~Reject
  <2>1. /\ result = "reading" /\ result' = "assembling" /\ asm_instr_arr' = Tokenized(source)
        /\ UNCHANGED <<source, labels_table, bin_instr_arr, n_instruction,
                       second_compilation, line>>
    BY <1>2 DEF tokenize_instructions
  <2>2. Known(source)
    BY <1>2 DEF tokenize_instructions, Known
  <2>3. source \in Sources /\ Reading /\ AsmTypeOK
    BY <2>1 DEF AsmInv
  <2>4. source \in Seq(Lines)
    BY <2>3, AsmAssumption
  <2>5. PICK p : Kept(Tokenized(source), source, Len(source), p)
    BY <2>4, TokenizedKeeps
  <2>6. Tokenized(source) \in Seq(Lines)
    BY <2>5 DEF Kept
  <2> DEFINE t == Tokenized(source)
  <2> HIDE DEF t
  <2>7. t \in Seq(Lines) /\ Len(t) \in Nat /\ asm_instr_arr' = t
    BY <2>1, <2>6 DEF t
  <2>8. 1 \in 1..Len(t) + 1
    BY <2>7
  <2>9. AsmTypeOK'
    BY <2>1, <2>3, <2>7, <2>8 DEF AsmTypeOK, Reading
  <2>10. Above(t, 1) = 0 /\ \A k \in 1..1 - 1 : FALSE
    BY AboveFirst
  <2>11. labels_table' = <<>> /\ n_instruction' = 0 /\ line' = 1 /\ second_compilation' = FALSE
         /\ source' = source
    BY <2>1, <2>3 DEF Reading
  <2>12. Collected' = 1
    BY <2>11 DEF Collected
  <2>13. WellFormed(t, 1) /\ LabelsKnown(t, <<>>, 1)
    BY <2>10 DEF WellFormed, LabelsKnown
  <2>14. Assembling'
    BY <2>2, <2>7, <2>10, <2>11, <2>12, <2>13, Zenon DEF Assembling, t
  <2> QED BY <2>1, <2>3, <2>9, <2>11, <2>14 DEF AsmInv
<1> QED BY <1>1, <1>2

(* What is known of a line that is being read.                             *)
LEMMA OnLineFacts ==
    ASSUME AsmInv, NEW kind, OnLine(kind)
    PROVE  /\ Line \in Lines /\ Line = asm_instr_arr[line] /\ Line.kind = kind
           /\ line \in 1..Len(asm_instr_arr) /\ Len(asm_instr_arr) \in Nat
           /\ asm_instr_arr \in Seq(Lines) /\ Assembling /\ AsmTypeOK
           /\ line + 1 \in 1..Len(asm_instr_arr) + 1
           /\ result = "assembling" /\ source \in Sources
<1>1. /\ result = "assembling" /\ line <= Len(asm_instr_arr) /\ Line.kind = kind
  BY DEF OnLine
<1>2. AsmTypeOK /\ Assembling /\ source \in Sources
  BY <1>1 DEF AsmInv
<1>3. asm_instr_arr \in Seq(Lines) /\ line \in 1..Len(asm_instr_arr) + 1
  BY <1>2 DEF AsmTypeOK
<1>4. line \in 1..Len(asm_instr_arr) /\ Len(asm_instr_arr) \in Nat
  BY <1>1, <1>3
<1> QED BY <1>1, <1>2, <1>3, <1>4 DEF Line

(* Every line that is left comes from the source.                          *)
LEMMA FromSource ==
    ASSUME NEW s \in Sources, NEW k \in 1..Len(Tokenized(s))
    PROVE  \E j \in 1..Len(s) : Tokenized(s)[k] = s[j]
<1>1. s \in Seq(Lines)
  BY AsmAssumption
<1>2. PICK p : Kept(Tokenized(s), s, Len(s), p)
  BY <1>1, TokenizedKeeps
<1> QED BY <1>2 DEF Kept
(* The label on the next line is entered.                                  *)
LEMMA LabelEntered ==
    ASSUME NEW t, NEW T \in Seq([label : Labels, instruction_ptr : Nat]), NEW n \in Nat \ {0},
           NEW e \in [label : Labels, instruction_ptr : Nat], LabelsKnown(t, T, n),
           t[n].kind = "label", e.label = t[n].label, e.instruction_ptr = Above(t, n),
           \A i \in 1..Len(T) : T[i].label # t[n].label
    PROVE  LabelsKnown(t, Append(T, e), n + 1)
<1> DEFINE U == Append(T, e)
           L == Len(T)
<1>1. /\ U \in Seq([label : Labels, instruction_ptr : Nat]) /\ Len(U) = L + 1 /\ L \in Nat
      /\ \A i \in 1..L : U[i] = T[i]
      /\ U[L + 1] = e
  OBVIOUS
<1>2. \A k \in 1..(n + 1) - 1 : k = n \/ k \in 1..n - 1
  OBVIOUS
<1>3. n \in 1..(n + 1) - 1 /\ \A k \in 1..n - 1 : k \in 1..(n + 1) - 1
  OBVIOUS
<1>4. /\ \A i \in 1..L : \E k \in 1..n - 1 :
            /\ t[k].kind = "label" /\ t[k].label = T[i].label
            /\ T[i].instruction_ptr = Above(t, k)
      /\ \A k \in 1..n - 1 : t[k].kind = "label" => \E i \in 1..L : T[i].label = t[k].label
      /\ \A j, k \in 1..n - 1 :
            t[j].kind = "label" /\ t[k].kind = "label" /\ t[j].label = t[k].label => j = k
  BY DEF LabelsKnown
<1>5. \A i \in 1..L + 1 : i = L + 1 \/ i \in 1..L
  BY <1>1
<1> HIDE DEF U
<1>6. \A i \in 1..L + 1 : \E k \in 1..(n + 1) - 1 :
            /\ t[k].kind = "label" /\ t[k].label = U[i].label
            /\ U[i].instruction_ptr = Above(t, k)
  <2>1. ASSUME NEW i \in 1..L + 1
        PROVE  \E k \in 1..(n + 1) - 1 :
                  /\ t[k].kind = "label" /\ t[k].label = U[i].label
                  /\ U[i].instruction_ptr = Above(t, k)
    <3>1. CASE i = L + 1
      BY <1>1, <1>3, <3>1
    <3>2. CASE i \in 1..L
      <4>1. PICK k \in 1..n - 1 : /\ t[k].kind = "label" /\ t[k].label = T[i].label
                                  /\ T[i].instruction_ptr = Above(t, k)
        BY <1>4, <3>2
      <4> QED BY <1>1, <1>3, <3>2, <4>1
    <3> QED BY <1>5, <3>1, <3>2
  <2> QED BY <2>1
<1>7. \A k \in 1..(n + 1) - 1 : t[k].kind = "label" =>
          \E i \in 1..L + 1 : U[i].label = t[k].label
  <2>1. ASSUME NEW k \in 1..(n + 1) - 1, t[k].kind = "label"
        PROVE  \E i \in 1..L + 1 : U[i].label = t[k].label
    <3>1. CASE k = n
      <4>1. L + 1 \in 1..L + 1
        BY <1>1
      <4> QED BY <1>1, <3>1, <4>1
    <3>2. CASE k \in 1..n - 1
      <4>1. PICK i \in 1..L : T[i].label = t[k].label
        BY <1>4, <2>1, <3>2
      <4>2. i \in 1..L + 1 /\ U[i] = T[i]
        BY <1>1
      <4> QED BY <4>1, <4>2
    <3> QED BY <1>2, <3>1, <3>2
  <2> QED BY <2>1
<1>8. \A k \in 1..n - 1 : t[k].kind = "label" => t[k].label # t[n].label
  BY <1>4
<1>9. \A j, k \in 1..(n + 1) - 1 :
          t[j].kind = "label" /\ t[k].kind = "label" /\ t[j].label = t[k].label => j = k
  <2>1. ASSUME NEW j \in 1..(n + 1) - 1, NEW k \in 1..(n + 1) - 1, t[j].kind = "label",
               t[k].kind = "label", t[j].label = t[k].label
        PROVE  j = k
    <3>1. CASE j = n /\ k = n
      BY <3>1
    <3>2. CASE j \in 1..n - 1 /\ k \in 1..n - 1
      BY <1>4, <2>1, <3>2
    <3>3. CASE j = n /\ k \in 1..n - 1
      BY <1>8, <2>1, <3>3
    <3>4. CASE k = n /\ j \in 1..n - 1
      BY <1>8, <2>1, <3>4
    <3> QED BY <1>2, <3>1, <3>2, <3>3, <3>4
  <2> QED BY <2>1
<1> HIDE DEF L
<1>10. LabelsKnown(t, U, n + 1)
  BY <1>1, <1>6, <1>7, <1>9 DEF LabelsKnown
<1> QED BY <1>10 DEF U

(* An instruction on the next line enters nothing.                         *)
LEMMA NothingEntered ==
    ASSUME NEW t, NEW T, NEW n \in Nat \ {0}, LabelsKnown(t, T, n), t[n].kind # "label"
    PROVE  LabelsKnown(t, T, n + 1)
<1>1. \A k \in 1..(n + 1) - 1 : k = n \/ k \in 1..n - 1
  OBVIOUS
<1>2. \A k \in 1..n - 1 : k \in 1..(n + 1) - 1
  OBVIOUS
<1> QED BY <1>1, <1>2, Zenon DEF LabelsKnown

LEMMA WellFormedNext ==
    ASSUME NEW t, NEW n \in Nat \ {0}, WellFormed(t, n), t[n].wellFormed
    PROVE  WellFormed(t, n + 1)
<1>1. \A k \in 1..(n + 1) - 1 : k = n \/ k \in 1..n - 1
  OBVIOUS
<1> QED BY <1>1, Zenon DEF WellFormed

LEMMA LabelNotTranslated ==
    ASSUME NEW t, NEW b, NEW n \in Nat \ {0}, Translated(t, b, n), t[n].kind = "label"
    PROVE  Translated(t, b, n + 1)
<1>1. \A k \in 1..(n + 1) - 1 : k = n \/ k \in 1..n - 1
  OBVIOUS
<1>2. "label" # "instruction"
  OBVIOUS
<1> QED BY <1>1, <1>2, Zenon DEF Translated

(* The words already there stay, the next one is added.                    *)
LEMMA TranslatedNext ==
    ASSUME NEW t, NEW b \in Seq(Binary), NEW n \in Nat \ {0}, Translated(t, b, n),
           t[n].kind = "instruction", Above(t, n) = Len(b),
           NEW w \in Binary, Translates(t, n, w)
    PROVE  Translated(t, Append(b, w), n + 1)
<1> DEFINE c == Append(b, w)
<1>1. Len(b) \in Nat /\ \A i \in 1..Len(b) : c[i] = b[i]
  OBVIOUS
<1>2. c[Len(b) + 1] = w
  OBVIOUS
<1> HIDE DEF c
<1>3. ASSUME NEW k \in 1..(n + 1) - 1, t[k].kind = "instruction"
      PROVE  Translates(t, k, c[Above(t, k) + 1])
  <2>1. CASE k = n
    BY <1>2, <2>1
  <2>2. CASE k \in 1..n - 1
    <3>1. k \in Nat \ {0} /\ k < n /\ k <= n /\ n \in Nat
      BY <2>2
    <3>2. Above(t, k) + 1 <= Above(t, n)
      BY <1>3, <3>1, AboveGrows
    <3>3. Above(t, k) \in Nat
      BY <3>1, AboveFinite
    <3>4. Above(t, k) + 1 \in 1..Len(b)
      BY <1>1, <3>2, <3>3
    <3>5. c[Above(t, k) + 1] = b[Above(t, k) + 1]
      BY <1>1, <3>4, Zenon
    <3>6. Translates(t, k, b[Above(t, k) + 1])
      BY <1>3, <2>2 DEF Translated
    <3> QED BY <3>5, <3>6, Zenon
  <2> QED BY <2>1, <2>2
<1> QED BY <1>3 DEF Translated, c

(* A label that is in the table has the address where it stands.           *)
LEMMA FoundWhereItStands ==
    ASSUME AsmTypeOK, NEW n \in Nat, LabelsKnown(asm_instr_arr, labels_table, n),
           NEW d \in 1..n - 1, asm_instr_arr[d].kind = "label"
    PROVE  /\ Found(asm_instr_arr[d].label) # {}
           /\ AddressOf(asm_instr_arr[d].label) = Above(asm_instr_arr, d)
<1> DEFINE t == asm_instr_arr
           l == t[d].label
           T == labels_table
           first == CHOOSE k \in Found(l) : \A j \in Found(l) : k <= j
<1>1. PICK i \in 1..Len(T) : T[i].label = l
  BY DEF LabelsKnown
<1>2. i \in Found(l)
  BY <1>1 DEF Found
<1>3. Found(l) \subseteq 1..Len(T) /\ Len(T) \in Nat
  BY DEF Found, AsmTypeOK
<1>4. \E k \in Found(l) : \A j \in Found(l) : k <= j
  <2>1. Found(l) \in SUBSET Nat
    BY <1>3
  <2>2. \A S \in SUBSET Nat : S # {} => \E k \in S : \A j \in S : k <= j
    BY LeastOf
  <2> QED BY <1>2, <2>1, <2>2
<1>5. first \in Found(l)
  BY <1>4
<1> HIDE DEF first
<1>6. first \in 1..Len(T) /\ T[first].label = l
  BY <1>5 DEF Found
<1>7. PICK k \in 1..n - 1 : /\ t[k].kind = "label" /\ t[k].label = T[first].label
                            /\ T[first].instruction_ptr = Above(t, k)
  BY <1>6 DEF LabelsKnown
<1>8. k = d
  BY <1>6, <1>7 DEF LabelsKnown
<1> QED BY <1>2, <1>7, <1>8 DEF AddressOf, first

(* And what is not in the table stands nowhere above.                      *)
LEMMA NotFoundNowhere ==
    ASSUME NEW n, LabelsKnown(asm_instr_arr, labels_table, n), NEW l, Found(l) = {}
    PROVE  \A i \in 1..Len(labels_table) : labels_table[i].label # l
BY DEF Found
LEMMA process_labelInv == ASSUME AsmInv, process_label PROVE AsmInv'
<1> DEFINE t == asm_instr_arr
<1>1. /\ Line \in Lines /\ Line = t[line] /\ Line.kind = "label"
      /\ line \in 1..Len(t) /\ Len(t) \in Nat
      /\ t \in Seq(Lines) /\ Assembling /\ AsmTypeOK
      /\ line + 1 \in 1..Len(t) + 1
      /\ result = "assembling" /\ source \in Sources
  BY OnLineFacts DEF process_label
<1>2. line \in Nat \ {0}
  BY <1>1
<1>3. Above(t, line + 1) = Above(t, line)
  BY <1>1, <1>2, AboveNext
<1>4. CASE Reject
  BY <1>4, RejectInv
<1>5. CASE /\ second_compilation
           /\ line' = line + 1
           /\ UNCHANGED <<source, asm_instr_arr, labels_table, bin_instr_arr, n_instruction,
                          second_compilation, result>>
  <2>1. Translated(t, bin_instr_arr, line + 1)
    BY <1>1, <1>2, <1>5, LabelNotTranslated DEF Assembling
  <2>2. Collected = Len(t) + 1 /\ Collected' = Len(t) + 1
    BY <1>5 DEF Collected
  <2>3. Assembling'
    BY <1>1, <1>3, <1>5, <2>1, <2>2 DEF Assembling
  <2>4. AsmTypeOK'
    BY <1>1, <1>5 DEF AsmTypeOK
  <2> QED BY <1>1, <1>5, <2>3, <2>4 DEF AsmInv
<1>6. CASE /\ ~second_compilation
           /\ Line.wellFormed /\ Found(Line.label) = {}
           /\ labels_table' = Append(labels_table,
                 [label |-> Line.label, instruction_ptr |-> n_instruction])
           /\ line' = line + 1
           /\ UNCHANGED <<source, asm_instr_arr, bin_instr_arr, n_instruction,
                          second_compilation, result>>
  <2> DEFINE e == [label |-> Line.label, instruction_ptr |-> n_instruction]
             T == labels_table
  <2>1. Line.label \in Labels
    <3>1. t = Tokenized(source)
      BY <1>1 DEF Assembling
    <3>2. PICK j \in 1..Len(source) : Tokenized(source)[line] = source[j]
      BY <1>1, <3>1, FromSource
    <3>3. source[j].kind = "label" /\ source[j].wellFormed
      BY <1>1, <1>6, <3>1, <3>2
    <3>4. source[j].label \in Labels
      BY <1>1, <3>3, AsmAssumption
    <3> QED BY <1>1, <3>1, <3>2, <3>4
  <2>2. n_instruction = Above(t, line) /\ n_instruction \in Nat
    BY <1>1, <1>2, AboveFinite DEF Assembling
  <2>3. e \in [label : Labels, instruction_ptr : Nat]
    BY <2>1, <2>2
  <2>4. T \in Seq([label : Labels, instruction_ptr : Nat])
    BY <1>1 DEF AsmTypeOK
  <2>5. Collected = line /\ Collected' = line + 1
    BY <1>6 DEF Collected
  <2>6. LabelsKnown(t, T, line)
    BY <1>1, <2>5 DEF Assembling
  <2>7. \A i \in 1..Len(T) : T[i].label # t[line].label
    BY <1>1, <1>6, <2>6, NotFoundNowhere
  <2>8. e.label = t[line].label /\ e.instruction_ptr = Above(t, line) /\ t[line].kind = "label"
    BY <1>1, <2>2
  <2> HIDE DEF e, T
  <2>9. LabelsKnown(t, Append(T, e), line + 1)
    BY <1>2, <2>3, <2>4, <2>6, <2>7, <2>8, LabelEntered
  <2>10. WellFormed(t, line + 1)
    BY <1>1, <1>2, <1>6, <2>5, WellFormedNext DEF Assembling
  <2>11. labels_table' = Append(T, e) /\ Append(T, e) \in Seq([label : Labels, instruction_ptr : Nat])
    BY <1>6, <2>3, <2>4, AppendAt DEF e, T
  <2>12. Assembling'
    BY <1>1, <1>3, <1>6, <2>5, <2>9, <2>10, <2>11, Zenon DEF Assembling
  <2>13. AsmTypeOK'
    BY <1>1, <1>6, <2>11 DEF AsmTypeOK
  <2> QED BY <1>1, <1>6, <2>12, <2>13 DEF AsmInv
<1> QED BY <1>4, <1>5, <1>6 DEF process_label

(* In the second pass the number assembled is the one meant.               *)
LEMMA AssembledTranslates ==
    ASSUME AsmInv, OnLine("instruction"), second_compilation,
           test_integer_bounds(Displacement(Line))
    PROVE  Translates(asm_instr_arr, line, Assembled(Line))
<1> DEFINE t == asm_instr_arr
           x == Displacement(Line)
<1>1. /\ Line \in Lines /\ Line = t[line] /\ AsmTypeOK /\ Assembling
      /\ line \in 1..Len(t) /\ Len(t) \in Nat
  BY OnLineFacts
<1>2. x \in Field
  BY DEF test_integer_bounds
<1>3. Assembled(Line) = [t[line].instr EXCEPT !.num = Encoded(x)]
  BY <1>1 DEF Assembled
<1>4. ~Labelled(t[line]) => x = t[line].instr.num
  BY <1>1 DEF Displacement, Labelled
<1>5. ASSUME Labelled(t[line]), NEW d \in 1..Len(t), t[d].kind = "label",
             t[d].label = t[line].label
      PROVE  x = Above(t, d) - Above(t, line) - 1
  <2> DEFINE n == Len(t) + 1
  <2>1. n \in Nat /\ d \in 1..n - 1 /\ Collected = n
    BY <1>1 DEF Collected
  <2>2. LabelsKnown(t, labels_table, n)
    BY <1>1, <2>1 DEF Assembling
  <2> HIDE DEF n
  <2>3. Found(t[d].label) # {} /\ AddressOf(t[d].label) = Above(t, d)
    BY <1>1, <1>5, <2>1, <2>2, FoundWhereItStands
  <2>4. n_instruction = Above(t, line)
    BY <1>1 DEF Assembling
  <2> QED BY <1>1, <1>5, <2>3, <2>4 DEF Displacement, Labelled
<1> HIDE DEF x
<1> QED BY <1>2, <1>3, <1>4, <1>5 DEF Translates

LEMMA assemble_instructionInv == ASSUME AsmInv, assemble_instruction PROVE AsmInv'
<1> DEFINE t == asm_instr_arr
           b == bin_instr_arr
           w == Assembled(Line)
<1>1. /\ Line \in Lines /\ Line = t[line] /\ Line.kind = "instruction"
      /\ line \in 1..Len(t) /\ Len(t) \in Nat
      /\ t \in Seq(Lines) /\ Assembling /\ AsmTypeOK
      /\ line + 1 \in 1..Len(t) + 1
      /\ result = "assembling" /\ source \in Sources
  BY OnLineFacts DEF assemble_instruction
<1>2. line \in Nat \ {0}
  BY <1>1
<1>3. Above(t, line + 1) = Above(t, line) + 1
  BY <1>1, <1>2, AboveNext
<1>4. CASE Reject
  BY <1>4, RejectInv
<1>5. CASE ~Reject
  <2>1. /\ Line.wellFormed /\ test_integer_bounds(Displacement(Line))
        /\ bin_instr_arr' = Append(b, w)
        /\ n_instruction' = n_instruction + 1
        /\ line' = line + 1
        /\ UNCHANGED <<source, asm_instr_arr, labels_table, second_compilation, result>>
    BY <1>5 DEF assemble_instruction
  <2>2. Line.instr.op # "unknown"
    <3>1. t = Tokenized(source) /\ Known(source)
      BY <1>1 DEF Assembling
    <3>2. PICK j \in 1..Len(source) : Tokenized(source)[line] = source[j]
      BY <1>1, <3>1, FromSource
    <3> QED BY <1>1, <3>1, <3>2 DEF Known
  <2>3. Encoded(Displacement(Line)) \in 0..2 * FieldHalf - 1
    BY <2>1, NumbersComeBack DEF test_integer_bounds
  <2>4. w \in Binary
    <3> DEFINE n == Encoded(Displacement(Line))
    <3>1. Line.instr \in [op : Opcodes \cup {"unknown"}, cond : Conditions,
                          rdest : Register, rsrc1 : Register, rsrc2 : Register, num : Int]
      BY <1>1 DEF Lines
    <3>2. w = [Line.instr EXCEPT !.num = n] /\ n \in 0..2 * FieldHalf - 1
      BY <2>3 DEF Assembled
    <3> HIDE DEF n, w
    <3> QED BY <2>2, <3>1, <3>2 DEF Binary
  <2>5. b \in Seq(Binary) /\ n_instruction = Len(b) /\ Len(b) = Above(t, line)
    BY <1>1 DEF AsmTypeOK, Binary, Assembling
  <2> HIDE DEF w
  <2>6. /\ Append(b, w) \in Seq(Binary) /\ Len(Append(b, w)) = Len(b) + 1
    BY <2>4, <2>5, AppendAt
  <2>7. AsmTypeOK'
    BY <1>1, <2>1, <2>5, <2>6 DEF AsmTypeOK, Binary
  <2>8. second_compilation => Translated(t, Append(b, w), line + 1)
    <3> SUFFICES ASSUME second_compilation PROVE Translated(t, Append(b, w), line + 1)
      OBVIOUS
    <3>1. Translates(t, line, w)
      BY <2>1, AssembledTranslates DEF assemble_instruction, w
    <3>2. Translated(t, b, line)
      BY <1>1 DEF Assembling
    <3> QED BY <1>1, <1>2, <2>4, <2>5, <3>1, <3>2, TranslatedNext
  <2>9. WellFormed(t, Collected') /\ LabelsKnown(t, labels_table, Collected')
    <3>1. CASE second_compilation
      <4>1. Collected' = Collected
        BY <2>1, <3>1 DEF Collected
      <4> QED BY <1>1, <4>1 DEF Assembling
    <3>2. CASE ~second_compilation
      <4>1. Collected = line /\ Collected' = line + 1
        BY <2>1, <3>2 DEF Collected
      <4>2. WellFormed(t, line + 1)
        BY <1>1, <1>2, <2>1, <4>1, WellFormedNext DEF Assembling
      <4>3. t[line].kind # "label"
        BY <1>1
      <4>4. LabelsKnown(t, labels_table, line + 1)
        BY <1>1, <1>2, <4>1, <4>3, NothingEntered DEF Assembling
      <4> QED BY <4>1, <4>2, <4>4
    <3> QED BY <3>1, <3>2
  <2>10. n_instruction' = Above(t, line + 1)
    BY <1>3, <2>1, <2>5
  <2>11. Assembling'
    BY <1>1, <2>1, <2>8, <2>9, <2>10, Zenon DEF Assembling
  <2> QED BY <1>1, <2>1, <2>7, <2>11 DEF AsmInv
<1> QED BY <1>4, <1>5

LEMMA PassEndsInv == ASSUME AsmInv, PassEnds PROVE AsmInv'
<1> DEFINE t == asm_instr_arr
<1>1. result = "assembling" /\ line > Len(t) /\ AsmTypeOK /\ Assembling /\ source \in Sources
  BY DEF PassEnds, AsmInv
<1>2. t \in Seq(Lines) /\ Len(t) \in Nat /\ line = Len(t) + 1 /\ 1 \in 1..Len(t) + 1
  <2>1. t \in Seq(Lines) /\ line \in 1..Len(t) + 1
    BY <1>1 DEF AsmTypeOK
  <2>2. Len(t) \in Nat
    BY <2>1
  <2> HIDE DEF t
  <2> QED BY <1>1, <2>1, <2>2
<1>3. CASE /\ ~second_compilation
           /\ second_compilation' = TRUE
           /\ bin_instr_arr' = <<>> /\ n_instruction' = 0 /\ line' = 1
           /\ UNCHANGED <<source, asm_instr_arr, labels_table, result>>
  <2>1. Collected = line /\ Collected' = line
    BY <1>2, <1>3 DEF Collected
  <2>2. Translated(t, <<>>, 1)
    BY DEF Translated
  <2>3. Above(t, 1) = 0
    BY AboveFirst
  <2>4. Assembling'
    BY <1>1, <1>3, <2>1, <2>2, <2>3, Zenon DEF Assembling
  <2>5. <<>> \in Seq(Binary) /\ Len(<<>>) = 0
    OBVIOUS
  <2>6. AsmTypeOK'
    BY <1>1, <1>2, <1>3, <2>5 DEF AsmTypeOK, Binary
  <2> QED BY <1>1, <1>3, <2>4, <2>6 DEF AsmInv
<1>4. CASE /\ second_compilation
           /\ result' = "written"
           /\ UNCHANGED <<source, asm_instr_arr, labels_table, bin_instr_arr, n_instruction,
                          second_compilation, line>>
  <2>1. Collected' = Collected
    BY <1>4 DEF Collected
  <2>2. Assembling'
    BY <1>1, <1>4, <2>1 DEF Assembling
  <2>3. AsmTypeOK'
    BY <1>1, <1>4 DEF AsmTypeOK
  <2> QED BY <1>1, <1>2, <1>4, <2>2, <2>3 DEF AsmInv
<1> QED BY <1>3, <1>4 DEF PassEnds

LEMMA AsmStepInv == ASSUME AsmInv, AsmStep \/ UNCHANGED asmVars PROVE AsmInv'
<1>1. CASE UNCHANGED asmVars
  BY <1>1 DEF asmVars, AsmInv, AsmTypeOK, Reading, Assembling, Collected
<1>2. CASE OutOfMemory
  BY <1>2, RejectInv DEF OutOfMemory
<1> QED BY <1>1, <1>2, tokenizeInv, process_labelInv, assemble_instructionInv, PassEndsInv
        DEF AsmStep
(* What is in the binary for an instruction, as the processor will read    *)
(* it.                                                                     *)
LEMMA WrittenWord ==
    ASSUME AsmInv, result = "written", NEW k \in 1..Len(asm_instr_arr),
           asm_instr_arr[k].kind = "instruction"
    PROVE  LET b == bin_instr_arr[Above(asm_instr_arr, k) + 1]
               l == asm_instr_arr[k]
           IN  /\ b.op = l.instr.op /\ b.cond = l.instr.cond
               /\ bit_extend_signed(b.num) \in Field
               /\ ~Labelled(l) => bit_extend_signed(b.num) = l.instr.num
               /\ Labelled(l) => \A d \in 1..Len(asm_instr_arr) :
                     asm_instr_arr[d].kind = "label" /\ asm_instr_arr[d].label = l.label =>
                        bit_extend_signed(b.num) =
                            Above(asm_instr_arr, d) - Above(asm_instr_arr, k) - 1
<1> DEFINE t == asm_instr_arr
           b == bin_instr_arr[Above(t, k) + 1]
           i == t[k].instr
<1>1. /\ t \in Seq(Lines) /\ Translated(t, bin_instr_arr, line) /\ line = Len(t) + 1
      /\ Len(t) \in Nat
  BY DEF AsmInv, Assembling, AsmTypeOK
<1>2. k \in 1..line - 1
  BY <1>1
<1>3. Translates(t, k, b)
  BY <1>1, <1>2 DEF Translated
<1>4. PICK x \in Field :
        /\ b = [i EXCEPT !.num = Encoded(x)]
        /\ ~Labelled(t[k]) => x = i.num
        /\ Labelled(t[k]) => \A d \in 1..Len(t) :
              t[d].kind = "label" /\ t[d].label = t[k].label =>
                  x = Above(t, d) - Above(t, k) - 1
  BY <1>3 DEF Translates
<1>5. t[k] \in Lines
  BY <1>1
<1>6. i \in [op : Opcodes \cup {"unknown"}, cond : Conditions, rdest : Register,
             rsrc1 : Register, rsrc2 : Register, num : Int]
  BY <1>5 DEF Lines
<1> HIDE DEF i
<1>7. b.op = i.op /\ b.cond = i.cond /\ b.num = Encoded(x)
  BY <1>4, <1>6
<1>8. bit_extend_signed(b.num) = x
  BY <1>7, NumbersComeBack
<1> QED BY <1>4, <1>7, <1>8 DEF i

(* The invariant gives the properties of the assembler.                    *)
LEMMA PassesAgreeHolds == AsmInv => PassesAgree
<1> SUFFICES ASSUME AsmInv, OnLine("label"), second_compilation
             PROVE  AddressOf(Line.label) = n_instruction
  BY DEF PassesAgree
<1> DEFINE t == asm_instr_arr
           n == Len(t) + 1
<1>1. /\ Line = t[line] /\ Line.kind = "label" /\ line \in 1..Len(t) /\ Len(t) \in Nat
      /\ Assembling /\ AsmTypeOK
  BY OnLineFacts
<1>2. n \in Nat /\ line \in 1..n - 1 /\ Collected = n
  BY <1>1 DEF Collected
<1>3. LabelsKnown(t, labels_table, n) /\ n_instruction = Above(t, line)
  BY <1>1, <1>2 DEF Assembling
<1> HIDE DEF n
<1>4. AddressOf(t[line].label) = Above(t, line)
  BY <1>1, <1>2, <1>3, FoundWhereItStands
<1> QED BY <1>1, <1>3, <1>4

LEMMA JumpsReachLabelsHolds == AsmInv => JumpsReachLabels
<1> SUFFICES ASSUME AsmInv, result = "written", NEW k \in 1..Len(asm_instr_arr), Jumping(k),
                    NEW d \in Declared(asm_instr_arr[k].label)
             PROVE  Before(d) = Before(k) + 1
                                + bit_extend_signed(bin_instr_arr[Before(k) + 1].num)
  BY DEF JumpsReachLabels
<1> DEFINE t == asm_instr_arr
<1>1. Before(k) = Above(t, k) /\ Before(d) = Above(t, d)
  BY DEF Before, Above
<1>2. /\ d \in 1..Len(t) /\ t[d].kind = "label" /\ t[d].label = t[k].label
      /\ t[k].kind = "instruction" /\ Labelled(t[k])
  BY DEF Declared, Jumping, Labelled
<1>3. bit_extend_signed(bin_instr_arr[Above(t, k) + 1].num) = Above(t, d) - Above(t, k) - 1
  BY <1>2, WrittenWord
<1>4. Above(t, k) \in Nat /\ Above(t, d) \in Nat
  <2>1. Len(t) \in Nat
    BY DEF AsmInv, AsmTypeOK
  <2>2. k \in Nat \ {0} /\ d \in Nat \ {0}
    BY <1>2, <2>1
  <2> QED BY <2>2, AboveFinite
<1> QED BY <1>1, <1>3, <1>4

-----------------------------------------------------------------------------
(* The invariant of the chain of programs *)

Unstarted ==
    /\ program = <<>> /\ ip = 0
    /\ registers = [r \in Register |-> 0] /\ RFLAGS = {}
    /\ stack = <<>> /\ call_stack = <<>>
    /\ ram = [a \in Addresses |-> Unwritten]

Loaded ==
    /\ result = "written"
    /\ program = [k \in 1..Len(bin_instr_arr) |-> Decoded(bin_instr_arr[k])]
    /\ ExecInv

ToolInv ==
    /\ AsmInv
    /\ status = "unloaded" => Unstarted
    /\ status # "unloaded" => Loaded

LEMMA DecodedType == ASSUME NEW b \in Binary PROVE Decoded(b) \in InstrData
<1>1. FieldHalf \in Nat \ {0}
  BY IsaAssumption
<1>2. b.num \in 0..2 * FieldHalf - 1
  BY DEF Binary
<1>3. bit_extend_signed(b.num) \in Field
  BY <1>1, <1>2 DEF bit_extend_signed, Field
<1> DEFINE x == bit_extend_signed(b.num)
<1> HIDE DEF x
<1>4. [b EXCEPT !.num = x] \in InstrData
  BY <1>3 DEF Binary, InstrData, x
<1> QED BY <1>4 DEF Decoded, x

LEMMA ToolInitInv == ASSUME ToolInit PROVE ToolInv
BY AsmInitInv DEF ToolInit, ToolInv, Unstarted

LEMMA LoadInv == ASSUME ToolInv, SPULoadBinary PROVE ToolInv'
<1>1. /\ result = "written" /\ status = "unloaded" /\ status' = "running"
      /\ program' = [k \in 1..Len(bin_instr_arr) |-> Decoded(bin_instr_arr[k])]
      /\ UNCHANGED <<asmVars, ip, registers, RFLAGS, stack, call_stack, ram>>
  BY DEF SPULoadBinary
<1>2. AsmInv /\ Unstarted
  BY <1>1 DEF ToolInv
<1>3. AsmInv'
  BY <1>1, <1>2, AsmStepInv
<1>4. bin_instr_arr \in Seq(Binary)
  BY <1>2 DEF AsmInv, AsmTypeOK, Binary
<1>5. program' \in Seq(InstrData) /\ Len(program') \in Nat
  <2>1. Len(bin_instr_arr) \in Nat /\ \A k \in 1..Len(bin_instr_arr) : bin_instr_arr[k] \in Binary
    BY <1>4
  <2>2. \A k \in 1..Len(bin_instr_arr) : Decoded(bin_instr_arr[k]) \in InstrData
    BY <2>1, DecodedType
  <2> QED BY <1>1, <2>1, <2>2
<1>6. 0 \in Word /\ 0 \in 0..Len(program')
  BY <1>5, AluAssumption DEF Word
<1>7. Sound'
  BY <1>1, <1>2, <1>5, <1>6 DEF Sound, Unstarted, Statuses
<1>8. ReturnsFollowCalls'
  <2>1. call_stack' = <<>> /\ Len(<<>>) = 0
    BY <1>1, <1>2 DEF Unstarted
  <2> QED BY <2>1, ExecAssumption DEF ReturnsFollowCalls
<1>9. Loaded'
  BY <1>1, <1>7, <1>8 DEF Loaded, ExecInv, asmVars
<1> QED BY <1>1, <1>3, <1>9 DEF ToolInv

LEMMA ToolNextInv == ASSUME ToolInv, [ToolNext]_toolVars PROVE ToolInv'
<1>1. CASE Assemble
  <2>1. AsmInv' /\ UNCHANGED vars
    BY <1>1, AsmStepInv DEF Assemble, ToolInv
  <2>2. result # "written"
    BY <1>1 DEF Assemble, AsmStep, tokenize_instructions, process_label, assemble_instruction,
                OnLine, PassEnds, OutOfMemory
  <2>3. status = "unloaded" /\ status' = "unloaded" /\ Unstarted'
    BY <2>1, <2>2 DEF ToolInv, Loaded, Unstarted, vars
  <2> QED BY <2>1, <2>3 DEF ToolInv
<1>2. CASE SPULoadBinary
  BY <1>2, LoadInv
<1>3. CASE Run
  <2>1. SPUExecute /\ UNCHANGED asmVars /\ status = "running"
    BY <1>3 DEF Run, SPUExecute
  <2>2. AsmInv'
    BY <2>1, AsmStepInv DEF ToolInv
  <2>3. Loaded
    BY <2>1 DEF ToolInv
  <2>4. ExecInv' /\ program' = program
    BY <2>1, <2>3, NextInv, StepKeepsProgram DEF Loaded, Next
  <2>5. Loaded'
    BY <2>1, <2>3, <2>4 DEF Loaded, asmVars
  <2>6. status' # "unloaded"
    BY <2>4 DEF ExecInv, Sound, Statuses
  <2> QED BY <2>2, <2>5, <2>6 DEF ToolInv
<1>4. CASE UNCHANGED toolVars
  <2>1. AsmInv'
    BY <1>4, AsmStepInv DEF ToolInv, toolVars
  <2>2. ExecInv => ExecInv'
    BY <1>4, NextInv DEF toolVars
  <2> QED BY <1>4, <2>1, <2>2 DEF ToolInv, Unstarted, Loaded, toolVars, vars, asmVars
<1> QED BY <1>1, <1>2, <1>3, <1>4 DEF ToolNext, Finished

LEMMA ToolInvariance == ToolSpec => []ToolInv
<1>1. ToolInit => ToolInv
  BY ToolInitInv
<1>2. ToolInv /\ [ToolNext]_toolVars => ToolInv'
  BY ToolNextInv
<1> QED BY <1>1, <1>2, PTL DEF ToolSpec

(* Whatever is assembled, table, binary, counter and line keep their       *)
(* types, and the counter is the length of the binary: every number        *)
(* written fits its field.                                                 *)
THEOREM AssemblerTypeCorrect == ToolSpec => []AsmTypeOK
<1>1. ToolInv => AsmTypeOK
  BY DEF ToolInv, AsmInv
<1> QED BY <1>1, ToolInvariance, PTL

(* For every source and every order of its labels and jumps, the second    *)
(* pass meets a label at the address that the first one has entered for    *)
(* it.                                                                     *)
THEOREM PassesAlwaysAgree == ToolSpec => []PassesAgree
<1>1. ToolInv => PassesAgree
  BY PassesAgreeHolds DEF ToolInv
<1> QED BY <1>1, ToolInvariance, PTL

(* In every binary that is written, every jump to a label of the source    *)
(* leads to the first instruction after that label.                        *)
THEOREM JumpsAlwaysReachLabels == ToolSpec => []JumpsReachLabels
<1>1. ToolInv => JumpsReachLabels
  BY JumpsReachLabelsHolds DEF ToolInv
<1> QED BY <1>1, ToolInvariance, PTL
-----------------------------------------------------------------------------
(* The text and its binary *)

(* What the source must keep to, because of what the programs do not       *)
(* refuse: jumps go to labels that are declared, and calls are not         *)
(* conditional.                                                            *)
DeclaresAndCalls(s) ==
    /\ \A k \in 1..Len(s) : s[k].kind = "instruction" /\ Labelled(s[k]) =>
          \E j \in 1..Len(s) : s[j].kind = "label" /\ s[j].label = s[k].label
    /\ \A k \in 1..Len(s) : s[k].kind = "instruction" /\ s[k].instr.op = "call" =>
          s[k].instr.cond = "always"

LEMMA SourceAbove == ASSUME NEW k PROVE Source!Above(k) = Above(source, k)
<1> DEFINE I == {j \in 1..k - 1 : source[j].kind = "instruction"}
<1>1. \A S : Source!Cardinality(S) = Cardinality(S)
  BY DEF Source!Cardinality, Cardinality
<1>2. {j \in 1..k - 1 : Source!IsInstruction(source[j])} = I
  BY DEF Source!IsInstruction
<1>3. Source!Above(k) = Source!Cardinality(I)
  BY <1>2 DEF Source!Above
<1> QED BY <1>1, <1>3 DEF Above

LEMMA SourceLabelled == ASSUME NEW l PROVE Source!ToLabel(l) <=> Labelled(l)
BY DEF Source!ToLabel, Source!IsJump, Labelled, JumpOps

(* A source that is written is well formed and declares no label twice.    *)
LEMMA WrittenRunnable ==
    ASSUME AsmInv, result = "written", DeclaresAndCalls(source)
    PROVE  Source!Runnable
<1> DEFINE t == asm_instr_arr
           s == source
<1>1. /\ t = Tokenized(s) /\ WellFormed(t, Len(t) + 1)
      /\ LabelsKnown(t, labels_table, Len(t) + 1) /\ s \in Sources /\ t \in Seq(Lines)
  BY DEF AsmInv, Assembling, Collected, AsmTypeOK
<1>2. s \in Seq(Lines)
  BY <1>1, AsmAssumption
<1>3. PICK p : Kept(t, s, Len(s), p)
  BY <1>1, <1>2, TokenizedKeeps
<1>4. Len(t) \in Nat /\ \A m \in 1..Len(t) : m \in 1..(Len(t) + 1) - 1
  BY <1>1
<1>5. \A k \in 1..Len(s) : s[k].kind # "empty" =>
         \E m \in 1..Len(t) : p[m] = k /\ t[m] = s[k]
  BY <1>3 DEF Kept
<1>6. \A k \in 1..Len(s) : s[k].kind # "empty" => s[k].wellFormed
  BY <1>1, <1>4, <1>5 DEF WellFormed
<1>7. \A k \in 1..Len(s) : s[k].kind = "instruction" /\ Source!ToLabel(s[k]) =>
         \E j \in 1..Len(s) : s[j].kind = "label" /\ s[j].label = s[k].label
  BY SourceLabelled DEF DeclaresAndCalls
<1>8. \A j, k \in 1..Len(s) :
         s[j].kind = "label" /\ s[k].kind = "label" /\ s[j].label = s[k].label => j = k
  <2>1. ASSUME NEW j \in 1..Len(s), NEW k \in 1..Len(s), s[j].kind = "label",
               s[k].kind = "label", s[j].label = s[k].label
        PROVE  j = k
    <3>1. PICK m \in 1..Len(t) : p[m] = j /\ t[m] = s[j]
      BY <1>5, <2>1
    <3>2. PICK n \in 1..Len(t) : p[n] = k /\ t[n] = s[k]
      BY <1>5, <2>1
    <3>3. m = n
      BY <1>1, <1>4, <2>1, <3>1, <3>2 DEF LabelsKnown
    <3> QED BY <3>1, <3>2, <3>3
  <2> QED BY <2>1
<1> QED BY <1>6, <1>7, <1>8 DEF Source!Runnable, Source!IsInstruction

(* The program loaded is as long as the text has instructions.             *)
LEMMA SizeIsLength ==
    ASSUME AsmInv, Loaded
    PROVE  Len(program) = Source!Size /\ Source!Size \in Nat /\ Len(bin_instr_arr) = Len(program)
<1> DEFINE t == asm_instr_arr
           s == source
<1>1. /\ t = Tokenized(s) /\ s \in Sources /\ t \in Seq(Lines) /\ line = Len(t) + 1
      /\ n_instruction = Above(t, line) /\ n_instruction = Len(bin_instr_arr)
      /\ bin_instr_arr \in Seq(Binary)
  BY DEF AsmInv, Assembling, Collected, AsmTypeOK, Loaded, Binary
<1>2. s \in Seq(Lines) /\ Len(s) + 1 \in 1..Len(s) + 1 /\ Len(t) \in Nat
  <2>1. s \in Seq(Lines)
    BY <1>1, AsmAssumption
  <2>2. Len(s) \in Nat /\ Len(t) \in Nat
    BY <1>1, <2>1
  <2> QED BY <2>1, <2>2
<1>3. PICK p : Kept(t, s, Len(s), p)
  BY <1>1, <1>2, TokenizedKeeps
<1>4. Len(t) + 1 \in 1..Len(t) + 1 /\ Len(t) + 1 \notin 1..Len(t)
  BY <1>2
<1>5. Above(t, Len(t) + 1) = Above(s, Len(s) + 1)
  BY <1>2, <1>3, <1>4, KeptAbove
<1>6. Source!Size = Above(s, Len(s) + 1)
  BY SourceAbove DEF Source!Size
<1>7. Len(program) = Len(bin_instr_arr) /\ Len(bin_instr_arr) \in Nat
  BY <1>1 DEF Loaded
<1> QED BY <1>1, <1>5, <1>6, <1>7

(* The instruction fetched is the current one of the text, and a jump goes *)
(* from it to its target in the text.                                      *)
LEMMA FetchedIsCurrent ==
    ASSUME AsmInv, Loaded, status = "running", DeclaresAndCalls(source), ip < Len(program)
    PROVE  /\ Fetched.op = Source!Op /\ Fetched.cond = Source!Current.instr.cond
           /\ Source!Op = "call" => Fetched.cond = "always"
           /\ Fetched.cond \in Conditions /\ Fetched.op # "unknown"
           /\ ip + 1 + Fetched.num = Source!Target
           /\ Source!ToLabel(Source!Current) => Source!Target \in 0..Source!Size
<1> DEFINE t == asm_instr_arr
           s == source
           c == Source!Current
<1>1. /\ t = Tokenized(s) /\ s \in Sources /\ t \in Seq(Lines) /\ line = Len(t) + 1
      /\ n_instruction = Above(t, line) /\ n_instruction = Len(bin_instr_arr)
      /\ Known(s) /\ result = "written" /\ bin_instr_arr \in Seq(Binary)
  BY DEF AsmInv, Assembling, Collected, AsmTypeOK, Loaded, Binary
<1>2. s \in Seq(Lines) /\ Len(s) \in Nat /\ Len(t) \in Nat
  <2>1. s \in Seq(Lines)
    BY <1>1, AsmAssumption
  <2> QED BY <1>1, <2>1
<1>3. PICK p : Kept(t, s, Len(s), p)
  BY <1>1, <1>2, TokenizedKeeps
<1>4. /\ p \in [1..Len(t) -> 1..Len(s)]
      /\ \A m \in 1..Len(t) : t[m] = s[p[m]]
      /\ \A k \in 1..Len(s) : s[k].kind # "empty" => \E m \in 1..Len(t) : p[m] = k
  BY <1>3 DEF Kept
<1>5. \A m \in 1..Len(t) : Above(t, m) = Above(s, p[m])
  <2>1. ASSUME NEW m \in 1..Len(t) PROVE Above(t, m) = Above(s, p[m])
    <3>1. p[m] \in 1..Len(s)
      BY <1>4
    <3>2. m \in 1..Len(t) + 1 /\ m # Len(t) + 1 /\ p[m] \in 1..Len(s) + 1
      BY <1>2, <3>1
    <3> QED BY <1>2, <1>3, <3>2, KeptAbove
  <2> QED BY <2>1
<1>6. ip \in Nat /\ ip < Above(t, Len(t) + 1)
  <2>1. ip \in Nat
    BY FetchedType DEF Loaded, ExecInv
  <2>2. Len(program) = Len(bin_instr_arr)
    BY SizeIsLength
  <2> QED BY <1>1, <2>1, <2>2
<1>7. PICK m \in 1..Len(t) : t[m].kind = "instruction" /\ Above(t, m) = ip
  BY <1>2, <1>6, AboveReaches
<1> DEFINE k == p[m]
           IsCurrent(j) == Source!IsInstruction(s[j]) /\ Source!Above(j) = ip
<1>8. k \in 1..Len(s) /\ s[k] = t[m] /\ s[k].kind = "instruction" /\ Above(s, k) = ip
  BY <1>4, <1>5, <1>7
<1>9. IsCurrent(k)
  BY <1>8, SourceAbove DEF Source!IsInstruction
<1>10. ASSUME NEW j \in 1..Len(s), IsCurrent(j) PROVE j = k
  <2>1. s[j].kind = "instruction" /\ Above(s, j) = ip
    BY <1>10, SourceAbove DEF Source!IsInstruction
  <2>2. j \in Nat \ {0} /\ k \in Nat \ {0}
    BY <1>2, <1>8
  <2> QED BY <1>8, <2>1, <2>2, AboveTells
<1>11. c = t[m]
  <2> DEFINE j == CHOOSE j \in 1..Len(s) : IsCurrent(j)
  <2>1. j \in 1..Len(s) /\ IsCurrent(j)
    BY <1>8, <1>9
  <2>2. j = k
    BY <1>10, <2>1
  <2>3. c = s[j]
    BY DEF Source!Current, runs
  <2> QED BY <1>8, <2>2, <2>3
<1> DEFINE b == bin_instr_arr[ip + 1]
           x == bit_extend_signed(b.num)
<1>12. /\ b.op = c.instr.op /\ b.cond = c.instr.cond /\ x \in Field
       /\ ~Labelled(c) => x = c.instr.num
       /\ Labelled(c) => \A d \in 1..Len(t) :
             t[d].kind = "label" /\ t[d].label = c.label =>
                x = Above(t, d) - ip - 1
  BY <1>1, <1>7, <1>11, WrittenWord
<1>13. Fetched.op = b.op /\ Fetched.cond = b.cond /\ Fetched.num = x
       /\ Fetched.cond \in Conditions
  <2>1. Len(program) = Len(bin_instr_arr) /\ Len(program) \in Nat
    BY SizeIsLength
  <2>2. ip + 1 \in 1..Len(bin_instr_arr)
    BY <1>6, <2>1
  <2>3. Fetched = Decoded(b)
    BY <2>2 DEF Loaded, Fetched
  <2>4. b \in Binary
    BY <1>1, <2>2
  <2> QED BY <2>3, <2>4 DEF Decoded, Binary
<1> HIDE DEF b, x, c
<1>14. Source!Op = c.instr.op
  BY DEF Source!Op, c
<1>15. Fetched.op # "unknown"
  BY <1>8, <1>1, <1>11, <1>12, <1>13 DEF Known
<1>16. c.instr.op = "call" => Fetched.cond = "always"
  BY <1>8, <1>11, <1>12, <1>13 DEF DeclaresAndCalls
<1>17. Source!Target = IF Labelled(c) THEN Source!Place(c.label) ELSE ip + 1 + c.instr.num
  BY SourceLabelled DEF Source!Target, runs, c
<1>18. ASSUME Labelled(c)
       PROVE  /\ ip + 1 + x = Source!Place(c.label)
              /\ Source!Place(c.label) \in 0..Source!Size
  <2> DEFINE Declares(j) == s[j].kind = "label" /\ s[j].label = c.label
             d == CHOOSE j \in 1..Len(s) : Declares(j)
  <2>1. \E j \in 1..Len(s) : Declares(j)
    BY <1>8, <1>11, <1>18 DEF DeclaresAndCalls
  <2>2. d \in 1..Len(s) /\ Declares(d)
    BY <2>1
  <2>3. Source!Place(c.label) = Above(s, d)
    BY SourceAbove DEF Source!Place, Source!LabelLine
  <2> HIDE DEF d
  <2>4. s[d].kind # "empty"
    BY <2>2
  <2>5. PICK e \in 1..Len(t) : p[e] = d
    BY <1>4, <2>2, <2>4
  <2>6. t[e].kind = "label" /\ t[e].label = c.label /\ Above(t, e) = Above(s, d)
    BY <1>4, <1>5, <2>2, <2>5
  <2>7. x = Above(s, d) - ip - 1
    BY <1>12, <1>18, <2>6
  <2>8. d \in Nat \ {0} /\ d <= Len(s) + 1 /\ Len(s) + 1 \in Nat \ {0}
    BY <1>2, <2>2
  <2>9. Above(s, d) \in Nat /\ Above(s, Len(s) + 1) \in Nat
    BY <2>8, AboveFinite
  <2>10. Above(s, d) <= Above(s, Len(s) + 1)
    BY <2>8, AboveGrows
  <2>11. Source!Size = Above(s, Len(s) + 1)
    BY SourceAbove DEF Source!Size
  <2> QED BY <1>6, <2>3, <2>7, <2>9, <2>10, <2>11
<1>19. ip + 1 + Fetched.num = Source!Target
  BY <1>12, <1>13, <1>17, <1>18
<1>20. Source!ToLabel(c) => Source!Target \in 0..Source!Size
  BY <1>17, <1>18, SourceLabelled
<1> QED BY <1>11, <1>12, <1>13, <1>14, <1>15, <1>16, <1>19, <1>20 DEF c
-----------------------------------------------------------------------------
(* The programs of spu/ implement SpuSource *)

LEMMA InitImplements == ASSUME ToolInit PROVE Source!Init
BY DEF ToolInit, AsmInit, Source!Init, state, order, runs

(* While the processor runs, the text is where the program is.             *)
LEMMA RunningState ==
    ASSUME status = "running", result = "written"
    PROVE  runs /\ state = "running"
BY DEF runs, state

LEMMA HoldsIsTaken ==
    ASSUME status = "running", NEW cond \in Conditions,
           RFLAGS \in {{}, {CMP_EQ_FLAG}, {CMP_SIGN_FLAG}}
    PROVE  Source!Holds(cond) <=> Taken(cond, RFLAGS)
<1> DEFINE eq == CMP_EQ_FLAG \in RFLAGS
           less == CMP_SIGN_FLAG \in RFLAGS
<1>1. ~(eq /\ less)
  BY DEF CMP_EQ_FLAG, CMP_SIGN_FLAG
<1>2. order = IF eq THEN "equal" ELSE IF less THEN "less" ELSE "greater"
  <2>1. runs
    BY DEF runs
  <2>2. CASE eq
    <3>1. ~(CMP_SIGN_FLAG \in RFLAGS)
      BY <1>1, <2>2
    <3> QED BY <2>1, <2>2, <3>1 DEF order
  <2>3. CASE less
    <3>1. ~(CMP_EQ_FLAG \in RFLAGS)
      BY <1>1, <2>3
    <3> QED BY <2>1, <2>3, <3>1 DEF order
  <2>4. CASE ~eq /\ ~less
    BY <2>1, <2>4 DEF order
  <2> QED BY <2>2, <2>3, <2>4
<1> HIDE DEF eq, less
<1>3. cond \in {"always", "eq", "neq", "geq", "gt", "leq", "lt"}
  BY DEF Conditions
<1>4. Taken(cond, RFLAGS) <=>
        \/ cond = "always"
        \/ cond = "eq" /\ eq
        \/ cond = "neq" /\ ~eq
        \/ cond = "geq" /\ ~less
        \/ cond = "gt" /\ ~less /\ ~eq
        \/ cond = "leq" /\ (less \/ eq)
        \/ cond = "lt" /\ less
  BY DEF Taken, eq, less
<1>5. (order = "equal" <=> eq) /\ (order = "less" <=> less) /\ (order = "greater" <=> ~eq /\ ~less)
  BY <1>1, <1>2
<1> HIDE DEF order
<1>6. CASE cond = "always"
  BY <1>4, <1>6 DEF Source!Holds
<1>7. CASE cond = "eq"
  BY <1>4, <1>5, <1>7 DEF Source!Holds
<1>8. CASE cond = "neq"
  BY <1>4, <1>5, <1>8 DEF Source!Holds
<1>9. CASE cond = "geq"
  BY <1>4, <1>5, <1>9 DEF Source!Holds
<1>10. CASE cond = "gt"
  BY <1>4, <1>5, <1>10 DEF Source!Holds
<1>11. CASE cond = "leq"
  BY <1>1, <1>4, <1>5, <1>11 DEF Source!Holds
<1>12. CASE cond = "lt"
  BY <1>4, <1>5, <1>12 DEF Source!Holds
<1> QED BY <1>3, <1>6, <1>7, <1>8, <1>9, <1>10, <1>11, <1>12

(* When the processor stops, so does the text, where it may.               *)
LEMMA StopImplements ==
    ASSUME status = "running", result = "written", result' = result, source' = source,
           status' \in Statuses \ {"running"},
           ip < Source!Size =>
              Source!Op # "cmp" /\ ~(Source!Op = "jmp" /\ Source!ToLabel(Source!Current))
    PROVE  Source!Stop
<1>1. runs /\ state = "running"
  BY RunningState
<1>2. ~runs' /\ status' # "unloaded" /\ result' # "rejected"
  BY DEF runs, Statuses
<1>3. state' = "stopped"
  BY <1>2 DEF state
<1>4. order' = "greater"
  BY <1>2 DEF order
<1> QED BY <1>1, <1>2, <1>3, <1>4 DEF Source!Stop

(* What every step has in common after which the processor still runs.     *)
Continues ==
    /\ status = "running" /\ status' = "running" /\ result = "written"
    /\ result' = result /\ source' = source /\ ip < Source!Size

LEMMA ContinuesRunning ==
    ASSUME Continues
    PROVE  Source!Running /\ runs /\ runs'
BY DEF Continues, Source!Running, runs, state

(* All but jumps, calls, returns and comparisons.                          *)
LEMMA OtherStep ==
    ASSUME SPUExecuteInstruction(Fetched), Fetched.op \notin {"jmp", "call", "ret", "cmp"}
    PROVE  \/ status' \in Statuses \ {"running"}
           \/ /\ status' = "running" /\ ip' = ip + 1 /\ UNCHANGED <<RFLAGS, call_stack>>
              /\ Fetched.op # "halt"
<1> DEFINE i == Fetched
           Goes == ip' = ip + 1 /\ status' = "running" /\ UNCHANGED <<RFLAGS, call_stack>>
           Ends == status' \in Statuses \ {"running"}
<1>1. ASSUME NEW z \in {"failed", "done", "crashed", "undefined"}, Stop(z) PROVE Ends
  BY <1>1 DEF Stop, Advance, Statuses
<1>2. Stop("running") => Goes
  BY DEF Stop, Advance
<1>3. ASSUME NEW r, NEW v, Write(r, v) PROVE Goes
  BY <1>3 DEF Write, Advance
<1>4. Stop("failed") => Ends
  BY <1>1
<1>5. Stop("done") => Ends
  BY <1>1
<1>6. Stop("crashed") => Ends
  BY <1>1
<1>7. Stop("undefined") => Ends
  BY <1>1
<1>8. ~jmp_exec(i) /\ ~call_exec(i) /\ ~ret_exec(i) /\ ~cmp_exec(i)
  BY DEF jmp_exec, call_exec, ret_exec, cmp_exec
<1> HIDE DEF Goes, Ends, i
<1>9. CASE noarg_exec(i)
  <2>1. CASE i.op = "halt" /\ Stop("done")
    BY <1>5, <2>1 DEF Ends
  <2>2. CASE i.op = "dump" /\ Stop("running")
    BY <1>2, <2>2 DEF Goes, i
  <2> QED BY <1>9, <2>1, <2>2 DEF noarg_exec
<1>10. CASE ldc_exec(i) \/ ldp_exec(i)
  <2>1. i.op # "halt" /\ (Goes \/ Ends)
    BY <1>3, <1>4, <1>10 DEF ldc_exec, ldp_exec
  <2> QED BY <2>1 DEF Goes, Ends, i
<1>11. CASE rpush_pop_exec(i)
  <2>1. i.op # "halt"
    BY <1>11 DEF rpush_pop_exec
  <2>2. CASE Stop("failed")
    BY <1>4, <2>2 DEF Ends
  <2>3. CASE /\ (\E z \in Shrunk : Advance(z)) /\ UNCHANGED <<RFLAGS, call_stack>>
    <3>1. ip' = ip + 1 /\ status' \in {"running", "failed"}
      BY <2>3 DEF Shrunk, Advance
    <3> QED BY <2>1, <2>3, <3>1 DEF Statuses, i
  <2>4. CASE Advance("running") /\ UNCHANGED <<RFLAGS, call_stack>>
    BY <2>1, <2>4 DEF Advance, i
  <2> QED BY <1>11, <2>2, <2>3, <2>4 DEF rpush_pop_exec
<1>12. CASE simple_io_exec(i) \/ arithm_unary_exec(i) \/ arithm_binary_exec(i)
  <2>1. i.op # "halt" /\ (Goes \/ Ends)
    BY <1>2, <1>3, <1>4, <1>6, <1>12
    DEF simple_io_exec, arithm_unary_exec, arithm_binary_exec, TripleRegOps, DivisionOps
  <2> QED BY <2>1 DEF Goes, Ends, i
<1>13. CASE ram_exec(i) \/ scrhw_exec(i) \/ draw_exec(i)
  <2>1. i.op # "halt"
    BY <1>13 DEF ram_exec, scrhw_exec, draw_exec
  <2>2. Goes \/ Ends
    BY <1>2, <1>4, <1>7, <1>13 DEF ram_exec, scrhw_exec, draw_exec, Goes, Advance
  <2> QED BY <2>1, <2>2 DEF Goes, Ends, i
<1>14. CASE Stop("failed")
  BY <1>4, <1>14 DEF Ends
<1> QED BY <1>8, <1>9, <1>10, <1>11, <1>12, <1>13, <1>14 DEF SPUExecuteInstruction, i
(* What a step of the processor does to the text.                          *)
LEMMA RunImplements ==
    ASSUME ToolInv, ToolInv', Run, DeclaresAndCalls(source)
    PROVE  Source!Next
<1> DEFINE c == Source!Current
           Top1 == call_stack[Len(call_stack)]
<1>1. /\ status = "running" /\ result = "written" /\ AsmInv /\ Loaded /\ SPUExecute
      /\ result' = result /\ source' = source /\ status' \in Statuses
  <2>1. SPUExecute /\ UNCHANGED asmVars /\ status = "running"
    BY DEF Run, SPUExecute
  <2>2. AsmInv /\ Loaded
    BY <2>1 DEF ToolInv
  <2>3. ExecInv'
    BY <2>1, <2>2, NextInv DEF Loaded, Next
  <2> QED BY <2>1, <2>2, <2>3 DEF asmVars, Loaded, ExecInv, Sound
<1>2. /\ ip \in Nat /\ Len(program) = Source!Size /\ Source!Size \in Nat
      /\ call_stack \in Seq(Nat) /\ RFLAGS \in {{}, {CMP_EQ_FLAG}, {CMP_SIGN_FLAG}}
      /\ runs /\ state = "running" /\ status' # "unloaded"
  BY <1>1, SizeIsLength, RunningState DEF Loaded, ExecInv, Sound, Statuses
<1>3. CASE ~(ip < Len(program))
  <2>1. status' = "done"
    BY <1>1, <1>3 DEF SPUExecute
  <2>2. Source!Stop
    BY <1>1, <1>2, <1>3, <2>1, StopImplements DEF Statuses
  <2> QED BY <2>2 DEF Source!Next
<1>4. CASE ip < Len(program)
  <2>1. /\ Fetched.op = Source!Op /\ Fetched.cond = c.instr.cond
        /\ Source!Op = "call" => Fetched.cond = "always"
        /\ Fetched.cond \in Conditions /\ Fetched.op # "unknown"
        /\ ip + 1 + Fetched.num = Source!Target
        /\ Source!ToLabel(c) => Source!Target \in 0..Source!Size
    BY <1>1, <1>4, FetchedIsCurrent
  <2>2. SPUExecuteInstruction(Fetched)
    BY <1>1, <1>2, <1>4 DEF SPUExecute
  <2>3. Source!Holds(c.instr.cond) <=> Taken(Fetched.cond, RFLAGS)
    BY <1>1, <1>2, <2>1, HoldsIsTaken
  <2>4. status' = "running" => Continues /\ Source!Running /\ runs'
    BY <1>1, <1>2, <1>4, ContinuesRunning DEF Continues
  <2>5. Fetched.cond # "reserved"
    BY <2>1 DEF Conditions
  <2>6. ip + 1 \in 0..Source!Size
    BY <1>2, <1>4
  <2> HIDE DEF c
  <2>7. ASSUME status' \in Statuses \ {"running"}, Source!Op # "cmp",
               ~(Source!Op = "jmp" /\ Source!ToLabel(c))
        PROVE  Source!Stop
    BY <1>1, <2>7, StopImplements DEF c
  <2>8. CASE Fetched.op = "jmp"
    <3>1. Jump(Fetched) /\ call_stack' = call_stack
      BY <2>2, <2>8
      DEF SPUExecuteInstruction, jmp_exec, call_exec, ret_exec, noarg_exec, ldc_exec, ldp_exec,
          cmp_exec, rpush_pop_exec, simple_io_exec, arithm_unary_exec, arithm_binary_exec,
          ram_exec, scrhw_exec, draw_exec, TripleRegOps, DivisionOps
    <3>2. RFLAGS' = RFLAGS
      BY <3>1 DEF Jump
    <3>3. CASE status' = "running"
      <4>1. Source!Running /\ runs' /\ order' = order
        BY <1>2, <2>4, <3>2, <3>3 DEF order
      <4>2. ip' = (IF Source!Holds(c.instr.cond) THEN Source!Target ELSE ip + 1)
        BY <2>1, <2>3, <2>5, <3>1, <3>3 DEF Jump, Advance
      <4>3. ip' \in 0..Source!Size
        BY <1>2, <2>6, <3>1, <3>3 DEF Jump, Advance
      <4>4. Source!Jump
        BY <1>2, <2>1, <2>8, <3>1, <4>1, <4>2, <4>3 DEF Source!Jump, c
      <4> QED BY <4>4 DEF Source!Next
    <3>4. CASE status' # "running"
      <4>1. ~Source!ToLabel(c)
        BY <1>2, <2>1, <2>5, <3>1, <3>4 DEF Jump, Advance
      <4>2. Source!Stop
        BY <1>1, <2>1, <2>7, <2>8, <3>4, <4>1
      <4> QED BY <4>2 DEF Source!Next
    <3> QED BY <3>3, <3>4
  <2>9. CASE Fetched.op = "call"
    <3>1. call_exec(Fetched)
      BY <2>2, <2>9
      DEF SPUExecuteInstruction, jmp_exec, call_exec, ret_exec, noarg_exec, ldc_exec, ldp_exec,
          cmp_exec, rpush_pop_exec, simple_io_exec, arithm_unary_exec, arithm_binary_exec,
          ram_exec, scrhw_exec, draw_exec, TripleRegOps, DivisionOps
    <3>2. CASE status' = "running"
      <4>1. Jump(Fetched) /\ call_stack' = Append(call_stack, ip + 1)
        BY <3>1, <3>2 DEF call_exec, Stop, Advance
      <4>2. Source!Running /\ runs' /\ order' = order
        BY <1>2, <2>4, <3>2, <4>1 DEF order, Jump
      <4>3. Source!Holds(c.instr.cond)
        BY <2>1, <2>3, <2>9 DEF Taken
      <4>4. ip' = Source!Target /\ ip' \in 0..Source!Size
        BY <1>2, <2>1, <2>3, <2>5, <3>2, <4>1, <4>3 DEF Jump, Advance
      <4>5. Source!Call
        BY <1>2, <2>1, <2>9, <4>1, <4>2, <4>3, <4>4 DEF Source!Call, c
      <4> QED BY <4>5 DEF Source!Next
    <3>3. CASE status' # "running"
      <4>1. Source!Stop
        BY <1>1, <2>1, <2>7, <2>9, <3>3
      <4> QED BY <4>1 DEF Source!Next
    <3> QED BY <3>2, <3>3
  <2>10. CASE Fetched.op = "ret"
    <3>1. ret_exec(Fetched)
      BY <2>2, <2>10
      DEF SPUExecuteInstruction, jmp_exec, call_exec, ret_exec, noarg_exec, ldc_exec, ldp_exec,
          cmp_exec, rpush_pop_exec, simple_io_exec, arithm_unary_exec, arithm_binary_exec,
          ram_exec, scrhw_exec, draw_exec, TripleRegOps, DivisionOps
    <3>2. CASE status' = "running"
      <4>1. /\ call_stack # <<>> /\ call_stack' = Popped(call_stack)
            /\ ip' = Top(call_stack) /\ RFLAGS' = RFLAGS
        BY <3>1, <3>2 DEF ret_exec, Stop, Advance
      <4>2. Source!Running /\ runs' /\ order' = order
        BY <1>2, <2>4, <3>2, <4>1 DEF order
      <4>3. Source!Return
        BY <1>2, <2>1, <2>10, <4>1, <4>2 DEF Source!Return, Top, Popped
      <4> QED BY <4>3 DEF Source!Next
    <3>3. CASE status' # "running"
      <4>1. Source!Stop
        BY <1>1, <2>1, <2>7, <2>10, <3>3
      <4> QED BY <4>1 DEF Source!Next
    <3> QED BY <3>2, <3>3
  <2>11. CASE Fetched.op = "cmp"
    <3>1. cmp_exec(Fetched)
      BY <2>2, <2>11
      DEF SPUExecuteInstruction, jmp_exec, call_exec, ret_exec, noarg_exec, ldc_exec, ldp_exec,
          cmp_exec, rpush_pop_exec, simple_io_exec, arithm_unary_exec, arithm_binary_exec,
          ram_exec, scrhw_exec, draw_exec, TripleRegOps, DivisionOps
    <3>2. status' = "running" /\ ip' = ip + 1 /\ call_stack' = call_stack
      BY <3>1 DEF cmp_exec, Advance
    <3>3. Source!Running /\ runs'
      BY <2>4, <3>2
    <3>4. order' \in Source!Orders
      BY DEF order, Source!Orders
    <3>5. Source!Compare
      BY <1>2, <2>1, <2>11, <3>2, <3>3, <3>4 DEF Source!Compare
    <3> QED BY <3>5 DEF Source!Next
  <2>12. CASE Fetched.op \notin {"jmp", "call", "ret", "cmp"}
    <3>1. CASE status' \in Statuses \ {"running"}
      <4>1. Source!Stop
        BY <2>1, <2>7, <2>12, <3>1
      <4> QED BY <4>1 DEF Source!Next
    <3>2. CASE /\ status' = "running" /\ ip' = ip + 1 /\ UNCHANGED <<RFLAGS, call_stack>>
               /\ Fetched.op # "halt"
      <4>1. Source!Running /\ runs' /\ order' = order
        BY <1>2, <2>4, <3>2 DEF order
      <4>2. Source!Plain
        BY <1>2, <2>1, <2>12, <3>2, <4>1 DEF Source!Plain
      <4> QED BY <4>2 DEF Source!Next
    <3> QED BY <2>2, <2>12, <3>1, <3>2, OtherStep
  <2> QED BY <2>8, <2>9, <2>10, <2>11, <2>12
<1> QED BY <1>3, <1>4

LEMMA StepImplements ==
    ASSUME ToolInv, ToolInv', [ToolNext]_toolVars, DeclaresAndCalls(source)
    PROVE  [Source!Next]_Source!sourceVars
<1>1. CASE Assemble
  <2>1. /\ AsmStep /\ UNCHANGED vars /\ source' = source
        /\ result \in {"reading", "assembling"}
    BY <1>1 DEF Assemble, AsmStep, tokenize_instructions, process_label, assemble_instruction,
                OnLine, PassEnds, OutOfMemory, Reject
  <2>2. status = "unloaded" /\ status' = "unloaded" /\ ~runs /\ ~runs'
    BY <2>1 DEF ToolInv, Loaded, vars, runs
  <2>3. state = "idle" /\ order = "greater" /\ order' = "greater"
    BY <2>1, <2>2 DEF state, order
  <2>4. CASE result' = "rejected"
    <3>1. state' = "rejected"
      BY <2>4 DEF state
    <3> QED BY <2>1, <2>2, <2>3, <3>1 DEF Source!Next, Source!Reject
  <2>5. CASE result' # "rejected"
    <3>1. state' = "idle"
      BY <2>2, <2>5 DEF state
    <3> QED BY <2>1, <2>2, <2>3, <3>1 DEF Source!sourceVars
  <2> QED BY <2>4, <2>5
<1>2. CASE SPULoadBinary
  <2>1. /\ result = "written" /\ status = "unloaded" /\ status' = "running"
        /\ UNCHANGED <<asmVars, ip, registers, RFLAGS, stack, call_stack, ram>>
    BY <1>2 DEF SPULoadBinary
  <2>2. AsmInv /\ ip = 0 /\ call_stack = <<>> /\ RFLAGS = {}
    BY <2>1 DEF ToolInv, Unstarted
  <2>3. ip' = 0 /\ call_stack' = <<>> /\ RFLAGS' = {} /\ source' = source /\ result' = "written"
    BY <2>1, <2>2 DEF asmVars
  <2>4. ~runs /\ runs'
    BY <2>1 DEF runs
  <2>5. state = "idle" /\ order = "greater" /\ state' = "running" /\ order' = "greater"
    BY <2>1, <2>3, <2>4 DEF state, order
  <2>6. Source!Runnable
    BY <2>1, <2>2, WrittenRunnable
  <2>7. Source!Begin
    BY <2>3, <2>4, <2>5, <2>6 DEF Source!Begin
  <2> QED BY <2>7 DEF Source!Next
<1>3. CASE Run
  BY <1>3, RunImplements
<1>4. CASE UNCHANGED toolVars
  BY <1>4 DEF toolVars, asmVars, vars, Source!sourceVars, state, order, runs
<1> QED BY <1>1, <1>2, <1>3, <1>4 DEF ToolNext, Finished

(* A text whose labels are declared and whose calls are unconditional is   *)
(* rejected, or run as SpuSource says: labels mean in the binary the       *)
(* places where they stand in the text, a jump to one of them never fails, *)
(* conditions compare the words that cmp compared, and a call comes back   *)
(* behind itself. This holds for all texts of every length, and all sizes  *)
(* of fields, words, registers, stacks and memory, one of which may run    *)
(* out at any time.                                                        *)
THEOREM ToolchainRunsAsWritten == ToolSpec /\ DeclaresAndCalls(source) => RunsAsWritten
<1> DEFINE Kept1 == DeclaresAndCalls(source)
<1>1. ToolInit => Source!Init
  BY InitImplements
<1>2. Kept1 /\ ToolInv /\ [ToolNext]_toolVars => Kept1'
  <2> SUFFICES ASSUME Kept1, ToolInv, [ToolNext]_toolVars PROVE source' = source
    OBVIOUS
  <2> QED BY DEF ToolNext, toolVars, asmVars, Assemble, AsmStep, tokenize_instructions,
                 process_label, assemble_instruction, PassEnds, OutOfMemory, Reject,
                 SPULoadBinary, Run, Finished
<1>3. ToolInv /\ ToolInv' /\ Kept1 /\ [ToolNext]_toolVars => [Source!Next]_Source!sourceVars
  BY StepImplements
<1> HIDE DEF Kept1
<1>4. ToolSpec /\ Kept1 => Source!Spec
  BY <1>1, <1>2, <1>3, ToolInvariance, PTL DEF ToolSpec, Source!Spec
<1> QED BY <1>4 DEF RunsAsWritten, Kept1
=============================================================================
