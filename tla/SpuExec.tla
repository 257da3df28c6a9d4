------------------------------- MODULE SpuExec -------------------------------
(***************************************************************************)
(* The processor of spu/: it executes one of Programs, whatever that       *)
(* program is; a binary may hold any word, so nothing here assumes that    *)
(* an assembler wrote it.                                                  *)
(***************************************************************************)
EXTENDS SpuAlu

CONSTANTS
    Programs,            \* the binaries that may be loaded
    RET_STACK_MAX_SIZE, RAM_SIZE,
    RamWords,            \* the words that fit in the RAM_SIZE bytes allocated
    DrawnWords,          \* the words that the pixels of the screen lie in
    DrawLength,          \* scr_mem_len: the words that draw_exec checks
    ScreenSide,          \* SCREEN_HEIGHT and SCREEN_WIDTH
    StackMemory          \* bound: the data stack cannot grow past this

ASSUME ExecAssumption ==
    /\ Programs \subseteq Seq(InstrData)
    /\ RET_STACK_MAX_SIZE \in Nat /\ StackMemory \in Nat
    /\ RAM_SIZE \in Nat /\ RamWords \in 0..RAM_SIZE
    /\ DrawnWords \in Nat /\ DrawLength \in Nat /\ ScreenSide \in Word

Unwritten == WordHalf   \* no word: stands for what malloc left in the memory
Addresses == 0..RamWords - 1

VARIABLES program, ip, registers, RFLAGS, stack, call_stack, ram,
          status           \* what SPUExecute has come to

vars == <<program, ip, registers, RFLAGS, stack, call_stack, ram, status>>

(* "crashed" is a trap of the host's division, "undefined" an access       *)
(* outside the allocated memory, after which nothing is known.             *)
Statuses == {"running", "done", "failed", "crashed", "undefined"}

Init ==
    /\ program \in Programs
    /\ ip = 0
    /\ registers = [r \in Register |-> 0]
    /\ RFLAGS = {}
    /\ stack = <<>> /\ call_stack = <<>>
    /\ ram = [a \in Addresses |-> Unwritten]
    /\ status = "running"

-----------------------------------------------------------------------------
(* How an instruction ends: ip has moved past it before it runs *)

Advance(s) == ip' = ip + 1 /\ status' = s /\ UNCHANGED program

Stop(s) == Advance(s) /\ UNCHANGED <<registers, RFLAGS, stack, call_stack, ram>>

Write(r, v) ==
    /\ registers' = [registers EXCEPT ![r] = v]
    /\ Advance("running") /\ UNCHANGED <<RFLAGS, stack, call_stack, ram>>

Top(s) == s[Len(s)]
Popped(s) == SubSeq(s, 1, Len(s) - 1)

(* Popping may shrink the array; it reports a failure after it has popped. *)
Shrunk == {"running"} \cup (IF MemoryMayFail THEN {"failed"} ELSE {})

-----------------------------------------------------------------------------
(* Control *)

(* Faulty variant: the target of a jump is not checked.                    *)
Jump_unchecked(i) ==
    /\ UNCHANGED <<program, registers, RFLAGS, stack, ram>>
    /\ ip' = (IF Taken(i.cond, RFLAGS) THEN ip + 1 + i.num ELSE ip + 1)
    /\ status' = (IF i.cond = "reserved" THEN "failed" ELSE "running")

Jump(i) ==
    LET new_ip == ip + 1 + i.num
    IN  /\ UNCHANGED <<program, registers, RFLAGS, stack, ram>>
        /\ \/ /\ Taken(i.cond, RFLAGS) /\ new_ip \in 0..Len(program)
              /\ ip' = new_ip /\ status' = "running"
           \/ /\ Taken(i.cond, RFLAGS) /\ new_ip \notin 0..Len(program)
              /\ Advance("failed")
           \/ ~Taken(i.cond, RFLAGS) /\ i.cond # "reserved" /\ Advance("running")
           \/ i.cond = "reserved" /\ Advance("failed")

jmp_exec(i) == i.op = "jmp" /\ Jump(i) /\ UNCHANGED call_stack

(* Faulty variant: the address of the call itself is remembered.           *)
call_exec_itself(i) ==
    /\ i.op = "call"
    /\ \/ Len(call_stack) >= RET_STACK_MAX_SIZE /\ Stop("failed")
       \/ /\ Len(call_stack) < RET_STACK_MAX_SIZE
          /\ call_stack' = Append(call_stack, ip)
          /\ Jump(i)

call_exec(i) ==
    /\ i.op = "call"
    /\ \/ Len(call_stack) >= RET_STACK_MAX_SIZE /\ Stop("failed")
       \/ MemoryMayFail /\ Stop("failed")
       \/ /\ Len(call_stack) < RET_STACK_MAX_SIZE
          /\ call_stack' = Append(call_stack, ip + 1)
          /\ Jump(i)

(* Faulty variants: ret pops through a register; it returns to the call.   *)
ret_exec_clobbering(i) ==
    /\ i.op = "ret"
    /\ \/ call_stack = <<>> /\ Stop("failed")
       \/ /\ call_stack # <<>>
          /\ call_stack' = Popped(call_stack) /\ ip' = Top(call_stack)
          /\ registers' = [registers EXCEPT ![0] = Top(call_stack)]
          /\ UNCHANGED <<program, RFLAGS, stack, ram, status>>

ret_exec_again(i) ==
    /\ i.op = "ret"
    /\ \/ call_stack = <<>> /\ Stop("failed")
       \/ /\ call_stack # <<>>
          /\ call_stack' = Popped(call_stack) /\ ip' = Top(call_stack) - 1
          /\ UNCHANGED <<program, registers, RFLAGS, stack, ram, status>>

ret_exec(i) ==
    /\ i.op = "ret"
    /\ \/ call_stack = <<>> /\ Stop("failed")
       \/ /\ call_stack # <<>>
          /\ call_stack' = Popped(call_stack)
          /\ UNCHANGED <<program, registers, RFLAGS, stack, ram>>
          /\ \/ /\ Top(call_stack) <= Len(program)
                /\ ip' = Top(call_stack) /\ status' = "running"
             \/ Top(call_stack) > Len(program) /\ Advance("failed")
             \/ "failed" \in Shrunk /\ Advance("failed")

noarg_exec(i) ==
    \/ i.op = "halt" /\ Stop("done")
    \/ i.op = "dump" /\ Stop("running")

-----------------------------------------------------------------------------
(* Data *)

ldc_exec(i) == i.op = "ldc" /\ Write(i.rdest, i.num)

ldp_exec(i) ==
    /\ i.op = "ldp"
    /\ \/ i.num \in 0..Len(stack) - 1 /\ Write(i.rdest, stack[Len(stack) - i.num])
       \/ i.num \notin 0..Len(stack) - 1 /\ Stop("failed")

cmp_exec(i) ==
    /\ i.op = "cmp"
    /\ RFLAGS' = FlagsOf(registers[i.rdest], registers[i.rsrc1])
    /\ Advance("running") /\ UNCHANGED <<registers, stack, call_stack, ram>>

rpush_pop_exec(i) ==
    \/ /\ i.op = "push" /\ Len(stack) < StackMemory
       /\ stack' = Append(stack, registers[i.rdest])
       /\ Advance("running") /\ UNCHANGED <<registers, RFLAGS, call_stack, ram>>
    \/ i.op = "push" /\ (MemoryMayFail \/ Len(stack) >= StackMemory) /\ Stop("failed")
    \/ i.op = "pop" /\ stack = <<>> /\ Stop("failed")
    \/ /\ i.op = "pop" /\ stack # <<>>
       /\ registers' = [registers EXCEPT ![i.rdest] = Top(stack)]
       /\ stack' = Popped(stack)
       /\ \E s \in Shrunk : Advance(s)
       /\ UNCHANGED <<RFLAGS, call_stack, ram>>

(* The console is not kept: print changes nothing, and input reads any     *)
(* number, or no number.                                                   *)
simple_io_exec(i) ==
    \/ i.op = "input" /\ \E v \in Word : Write(i.rdest, v)
    \/ i.op = "input" /\ Stop("failed")
    \/ i.op = "print" /\ Stop("running")

arithm_unary_exec(i) ==
    LET a == registers[i.rsrc1]
    IN  \/ i.op = "mov" /\ Write(i.rdest, a)
        \/ i.op = "not" /\ Write(i.rdest, BitOp("not", a, a))
        \/ i.op = "sqrt" /\ a >= 0 /\ Write(i.rdest, BitOp("sqrt", a, a))
        \/ i.op = "sqrt" /\ a < 0 /\ Stop("failed")

(* The least word divided by -1 overflows: the host's division traps.      *)
arithm_binary_exec(i) ==
    LET a == registers[i.rsrc1]
        b == registers[i.rsrc2]
        traps == a = -WordHalf /\ b = -1
    IN  \/ i.op \in TripleRegOps \ DivisionOps /\ Write(i.rdest, Result(i.op, a, b))
        \/ i.op \in DivisionOps /\ b = 0 /\ Stop("failed")
        \/ i.op \in DivisionOps /\ traps /\ Stop("crashed")
        \/ i.op \in DivisionOps /\ b # 0 /\ ~traps /\ Write(i.rdest, Result(i.op, a, b))

(* The bound that is checked counts words, the memory RAM_SIZE bytes.      *)
ram_exec(i) ==
    LET mem_idx == registers[i.rdest]
    IN  \/ i.op \in {"ldm", "stm"} /\ mem_idx \notin 0..RAM_SIZE - 1 /\ Stop("failed")
        \/ i.op \in {"ldm", "stm"} /\ mem_idx \in RamWords..RAM_SIZE - 1 /\ Stop("undefined")
        \/ /\ i.op = "stm" /\ mem_idx \in Addresses
           /\ ram' = [ram EXCEPT ![mem_idx] = registers[i.rsrc1]]
           /\ Advance("running") /\ UNCHANGED <<registers, RFLAGS, stack, call_stack>>
        \/ /\ i.op = "ldm" /\ mem_idx \in Addresses
           /\ \E v \in IF ram[mem_idx] = Unwritten THEN Word ELSE {ram[mem_idx]} :
                 /\ ram' = [ram EXCEPT ![mem_idx] = v]
                 /\ registers' = [registers EXCEPT ![i.rsrc1] = v]
           /\ Advance("running") /\ UNCHANGED <<RFLAGS, stack, call_stack>>

scrhw_exec(i) ==
    /\ i.op = "scrhw"
    /\ registers' = [registers EXCEPT ![i.rdest] = ScreenSide, ![i.rsrc1] = ScreenSide]
    /\ Advance("running") /\ UNCHANGED <<RFLAGS, stack, call_stack, ram>>

draw_exec(i) ==
    LET mem_addr == registers[i.rdest]
        checked == mem_addr \in 0..RAM_SIZE /\ mem_addr + DrawLength <= RAM_SIZE
        allocated == mem_addr + DrawnWords <= RamWords
    IN  \/ i.op = "draw" /\ ~checked /\ Stop("failed")
        \/ i.op = "draw" /\ checked /\ allocated /\ Stop("running")
        \/ i.op = "draw" /\ checked /\ ~allocated /\ Stop("undefined")

-----------------------------------------------------------------------------

SPUExecuteInstruction(i) ==
    \/ jmp_exec(i) \/ call_exec(i) \/ ret_exec(i) \/ noarg_exec(i)
    \/ ldc_exec(i) \/ ldp_exec(i) \/ cmp_exec(i) \/ rpush_pop_exec(i)
    \/ simple_io_exec(i) \/ arithm_unary_exec(i) \/ arithm_binary_exec(i)
    \/ ram_exec(i) \/ scrhw_exec(i) \/ draw_exec(i)
    \/ i.op = "unknown" /\ Stop("failed")

Fetched == program[ip + 1]

SPUExecute ==
    /\ status = "running"
    /\ \/ ip < Len(program) /\ SPUExecuteInstruction(Fetched)
       \/ /\ ip = Len(program) /\ status' = "done"
          /\ UNCHANGED <<program, ip, registers, RFLAGS, stack, call_stack, ram>>

Returned == status # "running" /\ UNCHANGED vars

Next == SPUExecute \/ Returned

Spec == Init /\ [][Next]_vars
FairSpec == Spec /\ WF_vars(SPUExecute)

-----------------------------------------------------------------------------
(* Properties *)

(* Every variable keeps its type; in particular the instruction pointer    *)
(* never leaves the program, whatever jumps, calls and returns ran.        *)
TypeOK ==
    /\ program \in Programs
    /\ ip \in 0..Len(program)
    /\ registers \in [Register -> Word]
    /\ RFLAGS \subseteq {CMP_EQ_FLAG, CMP_SIGN_FLAG}
    /\ stack \in Seq(Word) /\ call_stack \in Seq(Nat)
    /\ ram \in [Addresses -> Word \cup {Unwritten}]
    /\ status \in Statuses

(* The call stack stays within its limit and holds only addresses just     *)
(* after a call instruction of the program, so that ret never goes         *)
(* anywhere but behind a call and its own range check never fires.         *)
ReturnsFollowCalls ==
    /\ Len(call_stack) <= RET_STACK_MAX_SIZE
    /\ \A k \in 1..Len(call_stack) :
          /\ call_stack[k] \in 1..Len(program)
          /\ program[call_stack[k]].op = "call"

(* "Operations MUST NOT implicitly change the registers": a step changes   *)
(* no register but those the fields of its instruction name.               *)
NoImplicitChange ==
    [][\A r \in Register :
          registers'[r] # registers[r] => r \in Named(Fetched)]_vars

(* A program none of whose jumps and calls goes backwards ends, although   *)
(* its returns go backwards.                                               *)
ForwardOnly == \A k \in 1..Len(program) : program[k].op \in JumpOps => program[k].num >= 0
ForwardProgramsEnd == ForwardOnly => <>(status # "running")
=============================================================================
