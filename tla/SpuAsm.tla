-------------------------------- MODULE SpuAsm --------------------------------
(***************************************************************************)
(* The assembler of spu/src/translator: two passes over the lines of a     *)
(* source.  The first one collects the labels and assembles with whatever  *)
(* labels it has met, the second one assembles again with all of them.     *)
(***************************************************************************)
EXTENDS SpuIsa, FiniteSets

CONSTANTS
    Labels,    \* names of labels
    Sources    \* the sources that may be assembled

(* A line is a label, or an instruction whose jump target is a label or,   *)
(* for NoLabel, its own number.  Empty lines and comments are dropped; a   *)
(* line whose command is not in op_table is "unknown", and an ill-formed   *)
(* one has operands that do not parse (or a name that is no label).        *)
NoLabel == "no label"
Kinds == {"label", "instruction", "empty"}
Lines == [kind : Kinds, instr : [op : Opcodes \cup {"unknown"}, cond : Conditions,
                                 rdest : Register, rsrc1 : Register, rsrc2 : Register,
                                 num : Int],
          label : Labels \cup {NoLabel}, wellFormed : BOOLEAN]

ASSUME AsmAssumption ==
    /\ Sources \subseteq Seq(Lines) /\ NoLabel \notin Labels
    /\ \A s \in Sources : \A k \in 1..Len(s) :
          s[k].kind = "label" /\ s[k].wellFormed => s[k].label \in Labels

VARIABLES
    source,
    asm_instr_arr,       \* the lines that are left after tokenizing
    labels_table,        \* label_instance records, in the order they appear
    bin_instr_arr, n_instruction,
    second_compilation,
    line,                \* loop variable of assembly()
    result               \* what parse_text has come to

asmVars == <<source, asm_instr_arr, labels_table, bin_instr_arr, n_instruction,
             second_compilation, line, result>>

AsmInit ==
    /\ source \in Sources
    /\ asm_instr_arr = <<>> /\ labels_table = <<>> /\ bin_instr_arr = <<>>
    /\ n_instruction = 0 /\ second_compilation = FALSE /\ line = 1
    /\ result = "reading"

Reject ==
    /\ result' = "rejected"
    /\ UNCHANGED <<source, asm_instr_arr, labels_table, bin_instr_arr, n_instruction,
                   second_compilation, line>>

(* The lines with a command or a label, pushed one after the other.        *)
Tokenized(s) ==
    LET upTo[n \in 0..Len(s)] ==
            IF n = 0 THEN <<>>
            ELSE IF s[n].kind = "empty" THEN upTo[n - 1]
            ELSE Append(upTo[n - 1], s[n])
    IN  upTo[Len(s)]

tokenize_instructions ==
    LET Unknown(l) == l.kind = "instruction" /\ l.instr.op = "unknown"
        lines == {source[k] : k \in 1..Len(source)}
    IN  /\ result = "reading"
        /\ \/ (\E l \in lines : Unknown(l)) /\ Reject
           \/ /\ \A l \in lines : ~Unknown(l)
              /\ asm_instr_arr' = Tokenized(source)
              /\ result' = "assembling"
              /\ UNCHANGED <<source, labels_table, bin_instr_arr, n_instruction,
                             second_compilation, line>>

-----------------------------------------------------------------------------
(* One line of a pass *)

Line == asm_instr_arr[line]
OnLine(kind) == result = "assembling" /\ line <= Len(asm_instr_arr) /\ Line.kind = kind

Found(l) == {k \in 1..Len(labels_table) : labels_table[k].label = l}

(* find_label: the first entry of that name.                               *)
AddressOf(l) == labels_table[CHOOSE k \in Found(l) : \A j \in Found(l) : k <= j].instruction_ptr

(* Faulty variant: a label takes the address of the instruction after its  *)
(* own, as if it were an instruction itself.                               *)
process_label_counted ==
    /\ OnLine("label")
    /\ \/ ~second_compilation /\ (~Line.wellFormed \/ Found(Line.label) # {}) /\ Reject
       \/ /\ second_compilation \/ (Line.wellFormed /\ Found(Line.label) = {})
          /\ labels_table' = (IF second_compilation THEN labels_table ELSE
                Append(labels_table, [label |-> Line.label,
                                      instruction_ptr |-> n_instruction + 1]))
          /\ line' = line + 1
          /\ UNCHANGED <<source, asm_instr_arr, bin_instr_arr, n_instruction,
                         second_compilation, result>>

process_label ==
    /\ OnLine("label")
    /\ \/ /\ second_compilation
          /\ line' = line + 1
          /\ UNCHANGED <<source, asm_instr_arr, labels_table, bin_instr_arr, n_instruction,
                         second_compilation, result>>
       \/ /\ ~second_compilation
          /\ ~Line.wellFormed \/ Found(Line.label) # {}
          /\ Reject
       \/ /\ ~second_compilation
          /\ Line.wellFormed /\ Found(Line.label) = {}
          /\ labels_table' = Append(labels_table,
                [label |-> Line.label, instruction_ptr |-> n_instruction])
          /\ line' = line + 1
          /\ UNCHANGED <<source, asm_instr_arr, bin_instr_arr, n_instruction,
                         second_compilation, result>>

(* The operand of a jump: the placeholder that find_label's caller makes   *)
(* for a name it does not know is never stored, so that such a jump gets   *)
(* the displacement 0 in the second pass as well.                          *)
Displacement(l) ==
    IF l.instr.op \notin JumpOps \/ l.label = NoLabel THEN l.instr.num
    ELSE IF Found(l.label) = {} THEN 0
    ELSE AddressOf(l.label) - n_instruction - 1

(* Numbers of other instructions are 0 and fit.                            *)
Assembled(l) == [l.instr EXCEPT !.num = Encoded(Displacement(l))]

assemble_instruction ==
    /\ OnLine("instruction")
    /\ \/ ~(Line.wellFormed /\ test_integer_bounds(Displacement(Line))) /\ Reject
       \/ /\ Line.wellFormed /\ test_integer_bounds(Displacement(Line))
          /\ bin_instr_arr' = Append(bin_instr_arr, Assembled(Line))
          /\ n_instruction' = n_instruction + 1
          /\ line' = line + 1
          /\ UNCHANGED <<source, asm_instr_arr, labels_table, second_compilation, result>>

(* Faulty variants: the second pass goes on counting; a source with labels *)
(* is written after one pass.                                              *)
PassEnds_counting ==
    /\ result = "assembling" /\ line > Len(asm_instr_arr)
    /\ \/ /\ ~second_compilation
          /\ second_compilation' = TRUE
          /\ bin_instr_arr' = <<>> /\ line' = 1
          /\ UNCHANGED <<source, asm_instr_arr, labels_table, n_instruction, result>>
       \/ /\ second_compilation
          /\ result' = "written"
          /\ UNCHANGED <<source, asm_instr_arr, labels_table, bin_instr_arr, n_instruction,
                         second_compilation, line>>

PassEnds_once ==
    /\ result = "assembling" /\ line > Len(asm_instr_arr)
    /\ result' = "written"
    /\ UNCHANGED <<source, asm_instr_arr, labels_table, bin_instr_arr, n_instruction,
                   second_compilation, line>>

PassEnds ==
    /\ result = "assembling" /\ line > Len(asm_instr_arr)
    /\ \/ /\ ~second_compilation
          /\ second_compilation' = TRUE
          /\ bin_instr_arr' = <<>> /\ n_instruction' = 0 /\ line' = 1
          /\ UNCHANGED <<source, asm_instr_arr, labels_table, result>>
       \/ /\ second_compilation
          /\ result' = "written"
          /\ UNCHANGED <<source, asm_instr_arr, labels_table, bin_instr_arr, n_instruction,
                         second_compilation, line>>

(* pvector_push_back and the buffers of tokenizing may run out of memory.  *)
OutOfMemory == MemoryMayFail /\ result \in {"reading", "assembling"} /\ Reject

AsmStep == tokenize_instructions \/ process_label \/ assemble_instruction \/ PassEnds
           \/ OutOfMemory

AsmDone == result \in {"written", "rejected"} /\ UNCHANGED asmVars

AsmNext == AsmStep \/ AsmDone
AsmSpec == AsmInit /\ [][AsmNext]_asmVars

-----------------------------------------------------------------------------
(* Properties *)

AsmTypeOK ==
    /\ asm_instr_arr \in Seq(Lines)
    /\ labels_table \in Seq([label : Labels, instruction_ptr : Nat])
    /\ bin_instr_arr \in Seq([op : Opcodes, cond : Conditions, rdest : Register,
                              rsrc1 : Register, rsrc2 : Register,
                              num : 0..2 * FieldHalf - 1])
    /\ n_instruction = Len(bin_instr_arr)
    /\ second_compilation \in BOOLEAN /\ line \in 1..Len(asm_instr_arr) + 1
    /\ result \in {"reading", "assembling", "written", "rejected"}

(* Both passes put a label at the same address, so that the displacements  *)
(* of the second one lead to where its instructions really are.            *)
PassesAgree ==
    OnLine("label") /\ second_compilation => AddressOf(Line.label) = n_instruction

(* In a written binary every jump to a label of the source lands on the    *)
(* first instruction after that label.                                     *)
Before(k) == Cardinality({j \in 1..k - 1 : asm_instr_arr[j].kind = "instruction"})
Jumping(k) == /\ asm_instr_arr[k].kind = "instruction"
              /\ asm_instr_arr[k].instr.op \in JumpOps
              /\ asm_instr_arr[k].label # NoLabel
Declared(l) == {k \in 1..Len(asm_instr_arr) :
                  asm_instr_arr[k].kind = "label" /\ asm_instr_arr[k].label = l}
JumpsReachLabels ==
    result = "written" =>
        \A k \in 1..Len(asm_instr_arr) : Jumping(k) =>
            \A d \in Declared(asm_instr_arr[k].label) :
                Before(d) = Before(k) + 1
                            + bit_extend_signed(bin_instr_arr[Before(k) + 1].num)
=============================================================================
