------------------------------ MODULE SpuSource ------------------------------
(***************************************************************************)
(* What a programmer who writes assembly for spu/ relies on: a text is     *)
(* rejected, or run instruction by instruction.  A jump to a label goes on *)
(* with the first instruction after that label and never fails, a call     *)
(* comes back to the instruction after it, and nothing below the last      *)
(* instruction runs.  Of the data, only the outcome of the last comparison *)
(* is kept; whether an instruction fails on its data is left open.         *)
(***************************************************************************)
EXTENDS Integers, Sequences, FiniteSets

CONSTANTS Texts, NoLabel

Orders == {"less", "equal", "greater"}

VARIABLES text,      \* the lines of the program
          state,     \* "idle", "rejected", "running" or "stopped"
          at,        \* how many instructions stand before the current one
          frames,    \* where the calls that have not returned come back to
          order      \* the outcome of the last comparison

sourceVars == <<text, state, at, frames, order>>

IsInstruction(l) == l.kind = "instruction"
Above(k) == Cardinality({j \in 1..k - 1 : IsInstruction(text[j])})
Size == Above(Len(text) + 1)

(* A label stands for the number of instructions above it.                 *)
LabelLine(l) == CHOOSE k \in 1..Len(text) : text[k].kind = "label" /\ text[k].label = l
Place(l) == Above(LabelLine(l))

IsJump(l) == l.instr.op \in {"jmp", "call"}
ToLabel(l) == IsJump(l) /\ l.label # NoLabel

(* Texts that may be run: everything is well formed, every label that is   *)
(* jumped to is declared and no label is declared twice.                   *)
Runnable ==
    /\ \A k \in 1..Len(text) : text[k].kind # "empty" => text[k].wellFormed
    /\ \A k \in 1..Len(text) : IsInstruction(text[k]) /\ ToLabel(text[k]) =>
          \E j \in 1..Len(text) : text[j].kind = "label" /\ text[j].label = text[k].label
    /\ \A j, k \in 1..Len(text) :
          text[j].kind = "label" /\ text[k].kind = "label" /\ text[j].label = text[k].label
              => j = k

Init ==
    /\ text \in Texts
    /\ state = "idle" /\ at = 0 /\ frames = <<>> /\ order = "greater"

Reject == state = "idle" /\ state' = "rejected" /\ UNCHANGED <<text, at, frames, order>>

Begin == /\ state = "idle" /\ Runnable
         /\ state' = "running" /\ UNCHANGED <<text, at, frames, order>>

-----------------------------------------------------------------------------

Holds(cond) ==
    CASE cond = "always" -> TRUE
      [] cond = "eq"  -> order = "equal"
      [] cond = "neq" -> order # "equal"
      [] cond = "geq" -> order # "less"
      [] cond = "gt"  -> order = "greater"
      [] cond = "leq" -> order # "greater"
      [] cond = "lt"  -> order = "less"

Current == text[CHOOSE k \in 1..Len(text) : IsInstruction(text[k]) /\ Above(k) = at]
Op == Current.instr.op
Target == IF ToLabel(Current) THEN Place(Current.label) ELSE at + 1 + Current.instr.num

Running == state = "running" /\ at < Size /\ UNCHANGED <<text, state>>

Plain == /\ Running /\ Op \notin {"jmp", "call", "ret", "halt", "cmp"}
         /\ at' = at + 1 /\ UNCHANGED <<frames, order>>

Compare == /\ Running /\ Op = "cmp"
           /\ order' \in Orders
           /\ at' = at + 1 /\ UNCHANGED frames

Jump == /\ Running /\ Op = "jmp"
        /\ at' = (IF Holds(Current.instr.cond) THEN Target ELSE at + 1)
        /\ at' \in 0..Size
        /\ UNCHANGED <<frames, order>>

(* A call that is not taken leaves nothing to come back from.              *)
Call == /\ Running /\ Op = "call"
        /\ IF Holds(Current.instr.cond)
           THEN at' = Target /\ frames' = Append(frames, at + 1)
           ELSE at' = at + 1 /\ UNCHANGED frames
        /\ at' \in 0..Size
        /\ UNCHANGED order

Return == /\ Running /\ Op = "ret" /\ frames # <<>>
          /\ at' = frames[Len(frames)]
          /\ frames' = SubSeq(frames, 1, Len(frames) - 1)
          /\ UNCHANGED order

(* The end of the text, halt, and instructions that fail on their data.    *)
Stop == /\ state = "running"
        /\ at < Size => Op # "cmp" /\ ~(Op = "jmp" /\ ToLabel(Current))
        /\ state' = "stopped" /\ at' = 0 /\ frames' = <<>> /\ order' = "greater"
        /\ UNCHANGED text

Next == Reject \/ Begin \/ Plain \/ Compare \/ Jump \/ Call \/ Return \/ Stop

Spec == Init /\ [][Next]_sourceVars
=============================================================================
