----------------------------- MODULE SpuToolchain -----------------------------
(***************************************************************************)
(* The two programs of spu/ one after the other: the translator assembles  *)
(* a source, the runner loads what it wrote and executes it.  Together     *)
(* they run the source as SpuSource describes it.                          *)
(***************************************************************************)
EXTENDS SpuAsm, SpuExec

toolVars == <<asmVars, vars>>

(* The runner has not been started: the state SPUCtor leaves.              *)
ToolInit ==
    /\ AsmInit
    /\ program = <<>> /\ ip = 0
    /\ registers = [r \in Register |-> 0] /\ RFLAGS = {}
    /\ stack = <<>> /\ call_stack = <<>>
    /\ ram = [a \in Addresses |-> Unwritten]
    /\ status = "unloaded"

Assemble == AsmStep /\ UNCHANGED vars

(* What the binary parsers make of the words that the writers wrote.       *)
Decoded(b) == [b EXCEPT !.num = bit_extend_signed(b.num)]

SPULoadBinary ==
    /\ result = "written" /\ status = "unloaded"
    /\ program' = [k \in 1..Len(bin_instr_arr) |-> Decoded(bin_instr_arr[k])]
    /\ status' = "running"
    /\ UNCHANGED <<asmVars, ip, registers, RFLAGS, stack, call_stack, ram>>

Run == SPUExecute /\ UNCHANGED asmVars

Finished == (result = "rejected" \/ status \notin {"unloaded", "running"})
            /\ UNCHANGED toolVars

ToolNext == Assemble \/ SPULoadBinary \/ Run \/ Finished
ToolSpec == ToolInit /\ [][ToolNext]_toolVars

-----------------------------------------------------------------------------
(* The refinement mapping: instruction addresses are instruction counts,   *)
(* and the flags encode the outcome of the last comparison.                *)

runs == status = "running"
state == IF result = "rejected" THEN "rejected"
         ELSE IF status = "unloaded" THEN "idle"
         ELSE IF runs THEN "running" ELSE "stopped"
order == IF runs /\ CMP_EQ_FLAG \in RFLAGS THEN "equal"
         ELSE IF runs /\ CMP_SIGN_FLAG \in RFLAGS THEN "less"
         ELSE "greater"

Source == INSTANCE SpuSource
            WITH Texts <- Sources, text <- source,
                 at <- IF runs THEN ip ELSE 0,
                 frames <- IF runs THEN call_stack ELSE <<>>

(* Whatever the assembler accepts and the processor executes is what       *)
(* SpuSource allows for the text: labels mean the places they stand at in  *)
(* the binary too, conditions compare the words that cmp compared, calls   *)
(* come back behind themselves.                                            *)
RunsAsWritten == Source!Spec
=============================================================================
