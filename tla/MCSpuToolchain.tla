--------------------------- MODULE MCSpuToolchain ---------------------------
(* Sources for TLC: texts of four lines, a procedure with every body of up *)
(* to three, texts with faults in them, and jumps too long for their       *)
(* field.  They declare the labels they jump to, and call unconditionally. *)
EXTENDS SpuToolchain

NoBitOp(op, a, b) == 0

Plain(op, cond, s) ==
    [op |-> op, cond |-> cond, rdest |-> 0, rsrc1 |-> s, rsrc2 |-> 0, num |-> 0]
Label(l) == [kind |-> "label", instr |-> Plain("dump", "always", 0), label |-> l,
             wellFormed |-> TRUE]
Instruction(op, s) == [Label(NoLabel) EXCEPT !.kind = "instruction",
                                             !.instr = Plain(op, "always", s)]
JumpTo(op, cond, l) == [Instruction(op, 0) EXCEPT !.label = l, !.instr.cond = cond]
JumpBy(op, n) == [Instruction(op, 0) EXCEPT !.instr.num = n]
Empty == [Label(NoLabel) EXCEPT !.kind = "empty"]

MCLines ==
    {Label(l) : l \in Labels} \cup {JumpTo("jmp", c, "a") : c \in {"geq", "lt", "leq"}}
        \cup {JumpTo("jmp", "always", "b"), JumpTo("call", "always", "a"), JumpBy("jmp", 1),
              Empty, Instruction("ret", 0), Instruction("cmp", 1),
              Instruction("input", 0), Instruction("halt", 0)}

DeclaresItsLabels(s) ==
    \A k \in DOMAIN s : s[k].kind = "instruction" /\ s[k].label # NoLabel =>
        \E j \in DOMAIN s : s[j] = Label(s[k].label)
Short == UNION {[1..n -> MCLines] : n \in 1..3}

(* A procedure that is called from the top and has a short body.           *)
Procedure == <<Instruction("input", 0), JumpTo("call", "always", "a"), Instruction("cmp", 1),
               JumpTo("jmp", "lt", "a"), Label("a")>>

(* Lines that the assembler must refuse, among others.                     *)
IllFormed(l) == [l EXCEPT !.wellFormed = FALSE]
Faults == {Instruction("unknown", 0), IllFormed(Instruction("ldc", 0)), IllFormed(Label("b"))}
Faulty == UNION {[1..n -> Faults \cup {Label("a"), Label("b"), JumpTo("jmp", "lt", "a"), Empty}] :
                   n \in 0..3}

Between(n) == [k \in 1..n |-> Instruction("input", 0)]
Long == {<<JumpTo("jmp", "lt", "a")>> \o Between(n) \o <<Label("a")>> : n \in 0..4}
            \cup {<<Label("a")>> \o Between(n) \o <<JumpTo("jmp", "lt", "a")>> : n \in 0..4}

MCSources == {s \in [1..4 -> MCLines] \cup {Procedure \o body : body \in Short}
                       \cup Faulty \cup Long : DeclaresItsLabels(s)}
=============================================================================
