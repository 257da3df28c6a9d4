----------------------------- MODULE LangBackend -----------------------------
(***************************************************************************)
(* The back end of lang/: it writes assembly for spu/ while it walks the   *)
(* tree.  A value is computed on the data stack; a variable is a cell of   *)
(* the memory.  What has been written before an error stays written.       *)
(***************************************************************************)
EXTENDS LangTree, SequencesExt

NoTarget == "no label"

(* translation_context, with the status of the last call.                  *)
EmptyContext == [asm |-> <<>>, variables |-> <<>>, functions |-> <<>>, jmp_idx |-> 0,
                 status |-> "BTRST_OK"]

Failed(c) == c.status # "BTRST_OK"
Fail(c, s) == [c EXCEPT !.status = s]
Pass(c, F(_)) == IF Failed(c) THEN c ELSE F(c)
Ignored(c) == [c EXCEPT !.status = "BTRST_OK"]
Emit(c, lines) == [c EXCEPT !.asm = @ \o lines]

-----------------------------------------------------------------------------
(* Lines of assembly *)

Instr(op, d, s1, s2) ==
    [kind |-> "instruction", label |-> NoTarget, wellFormed |-> TRUE,
     instr |-> [op |-> op, cond |-> "always", rdest |-> d, rsrc1 |-> s1, rsrc2 |-> s2, num |-> 0]]
Bare(op) == Instr(op, 0, 0, 0)
Single(op, r) == Instr(op, r, 0, 0)
Push(r) == Single("push", r)
Pop(r) == Single("pop", r)
Double(op, d, s) == Instr(op, d, s, 0)
ldc(r, n) == [Single("ldc", r) EXCEPT !.instr.num = n]
Goto(op, cond, l) == [Bare(op) EXCEPT !.instr.cond = cond, !.label = l]
LabelLine(l) == [Bare("dump") EXCEPT !.kind = "label", !.label = l]

jmp_tps(n) == "_jmp_tps__" \o ToString(n)
func_(name) == "func_" \o name

-----------------------------------------------------------------------------
(* Variables and functions *)

push_variable(c, v) ==
    IF Contains(c.variables, v) THEN Fail(c, "BTRST_ALREADY_DECLARED_VAR")
    ELSE [c EXCEPT !.variables = Append(@, v)]
var_pointer(c, v) == SelectInSeq(c.variables, LAMBDA w : w = v) - 1

(* A function is declared by whatever comes first, a call or its text; the *)
(* other has to agree about the number of arguments.                       *)
(* Faulty variant: what has been called cannot be declared any more.       *)
DeclareFunction_once(c, name, n_args) ==
    IF \E k \in DOMAIN c.functions : c.functions[k].func_name = name
    THEN Fail(c, "BTRST_ALREADY_DECLARED_VAR")
    ELSE [c EXCEPT !.functions = Append(@, [func_name |-> name, n_args |-> n_args])]

DeclareFunction(c, name, n_args) ==
    LET k == SelectInSeq(c.functions, LAMBDA f : f.func_name = name)
    IN  IF k = 0 THEN [c EXCEPT !.functions = Append(@, [func_name |-> name, n_args |-> n_args])]
        ELSE IF c.functions[k].n_args # n_args THEN Fail(c, "BTRST_TREE_INVALID")
        ELSE c

(* The items of a comma list, whichever way its tree leans.                *)
RECURSIVE Items(_)
Items(n) == IF n = Nil THEN <<>>
            ELSE IF IsOp(n, ",") THEN Items(n.left) \o Items(n.right)
            ELSE <<n>>

-----------------------------------------------------------------------------
(* Expressions: the code leaves one value on the data stack *)

Load(addr) == <<ldc(0, addr), Double("ldm", 0, 0), Push(0)>>
Store(addr) == <<Pop(0), ldc(1, addr), Double("stm", 1, 0)>>

InstructionOf == [o \in {"+", "-", "*", "/", "<<", ">>", "&", "|"} |->
    CASE o = "+" -> "add" [] o = "-" -> "sub" [] o = "*" -> "mul" [] o = "/" -> "div"
      [] o = "<<" -> "shl" [] o = ">>" -> "shr" [] o = "&" -> "and" [] o = "|" -> "or"]

(* The jump that is taken when the comparison does not hold.               *)
Opposite == [o \in CompareOps |->
    CASE o = "==" -> "neq" [] o = "<" -> "geq" [] o = ">" -> "leq"
      [] o = "!=" -> "eq" [] o = "<=" -> "gt" [] o = ">=" -> "lt"]

tpush_cmp_r01(c, o) ==
    Emit([c EXCEPT !.jmp_idx = @ + 1],
         <<Double("cmp", 0, 1), ldc(0, 0), Goto("jmp", Opposite[o], jmp_tps(c.jmp_idx)),
           ldc(0, 1), LabelLine(jmp_tps(c.jmp_idx)), Push(0)>>)

(* The operands are in r0 and r1.                                          *)
Apply(c, o) ==
    CASE o \in DOMAIN InstructionOf -> Emit(c, <<Instr(InstructionOf[o], 0, 0, 1), Push(0)>>)
      [] o \in CompareOps -> tpush_cmp_r01(c, o)
      [] o \in {"print", "input", "draw"} -> Emit(c, <<Single(o, 0), Push(0)>>)
      [] o = "sqrt" -> Emit(c, <<Double("sqrt", 0, 0), Push(0)>>)
      [] o = "scrht" -> Emit(c, <<Double("scrhw", 0, 1), Push(0)>>)
      [] o = "scrwt" -> Emit(c, <<Double("scrhw", 0, 1), Push(1)>>)
      [] o = "<-" -> Emit(c, <<Double("stm", 0, 1), Push(1)>>)
      [] o = "memload" -> Emit(c, <<Double("ldm", 0, 1), Push(1)>>)
      [] o = "return" -> Emit(c, <<Bare("ret")>>)
      [] OTHER -> Fail(c, "BTRST_INTERNAL_FAILURE")

RECURSIVE tpush_expression(_, _)

(* Faulty variant: from the first argument to the last.                    *)
PushArguments_forward(c, args) ==
    FoldLeft(LAMBDA d, a : Ignored(tpush_expression(a, d)), c, args)

(* From the last argument to the first; their statuses are dropped.        *)
PushArguments(c, args) ==
    FoldRight(LAMBDA a, d : Ignored(tpush_expression(a, d)), args, c)

tpush_func_call(n, c) ==
    LET args == Items(n.right)
    IN  Pass(DeclareFunction(PushArguments(c, args), n.left.name, Len(args)), LAMBDA d :
             Emit(d, <<Goto("call", "always", func_(n.left.name)), Push(0)>>))

tpush_operator(n, c) ==
    CASE n.op \in UnaryOps ->
           Pass(tpush_expression(n.left, c), LAMBDA d : Apply(Emit(d, <<Pop(0)>>), n.op))
      [] n.op \in BinaryOps ->
           Pass(tpush_expression(n.left, c), LAMBDA d :
           Pass(tpush_expression(n.right, d), LAMBDA e : Apply(Emit(e, <<Pop(1), Pop(0)>>), n.op)))
      [] n.op \in NoArgFunctions -> Apply(c, n.op)
      [] n.op = "call" -> tpush_func_call(n, c)
      [] OTHER -> Fail(c, "BTRST_TREE_INVALID")

tpush_expression(n, c) ==
    CASE n.kind = "nil" -> Fail(c, "BTRST_TREE_INVALID")
      [] n.kind = "number" -> Emit(c, <<ldc(0, n.num), Push(0)>>)
      [] n.kind = "variable" ->
           IF ~Contains(c.variables, n.name) THEN Fail(c, "BTRST_UNDECLARED_VARIABLE")
           ELSE Emit(c, Load(var_pointer(c, n.name)))
      [] n.kind = "operator" -> tpush_operator(n, c)

-----------------------------------------------------------------------------
(* Statements *)

translate_assignment(n, c) ==
    IF ~Contains(c.variables, n.left.name) THEN Fail(c, "BTRST_UNDECLARED_VARIABLE")
    ELSE Pass(tpush_expression(n.right, c), LAMBDA d : Emit(d, Store(var_pointer(d, n.left.name))))

translate_declaration(n, c) ==
    Pass(push_variable(c, n.left.name), LAMBDA d : translate_assignment(n, d))

JumpIfZero(l) == <<Pop(0), ldc(1, 0), Double("cmp", 0, 1), Goto("jmp", "eq", l)>>

(* An expression as a statement; the faulty variant leaves its value.      *)
Dummy_kept(n, c) == tpush_expression(n, c)
Dummy(n, c) == Emit(tpush_expression(n, c), <<Pop(0)>>)

RECURSIVE translate_statement(_, _)

(* The statuses of the bodies are dropped.                                 *)
Body(n, c) == Ignored(translate_statement(n, c))

(* What follows the condition.                                             *)
Branches(yes, no, d) ==
    LET out == jmp_tps(d.jmp_idx)
        otherwise == jmp_tps(d.jmp_idx + 1)
        tested(k, l) == Body(yes, Emit([d EXCEPT !.jmp_idx = @ + k], JumpIfZero(l)))
        chosen == IF no = Nil THEN tested(1, out)
                  ELSE Body(no, Emit(tested(2, otherwise),
                                     <<Goto("jmp", "always", out), LabelLine(otherwise)>>))
    IN  Emit(chosen, <<LabelLine(out)>>)

translate_conditional(n, c) ==
    Pass(tpush_expression(n.left, c), LAMBDA d :
         IF IsOp(n.right, "else") THEN Branches(n.right.left, n.right.right, d)
                                  ELSE Branches(n.right, Nil, d))

translate_cycle(n, c) ==
    LET begin == jmp_tps(c.jmp_idx)
        out == jmp_tps(c.jmp_idx + 1)
    IN  Pass(tpush_expression(n.left, Emit([c EXCEPT !.jmp_idx = @ + 2], <<LabelLine(begin)>>)),
             LAMBDA d : Emit(Body(n.right, Emit(d, JumpIfZero(out))),
                             <<Goto("jmp", "always", begin), LabelLine(out)>>))

(* A function pops its arguments into the cells of its parameters.         *)
translate_parameter(c, p) ==
    Pass(c, LAMBDA d :
         IF p.kind # "variable" THEN Fail(d, "BTRST_TREE_INVALID")
         ELSE Pass(push_variable(d, p.name), LAMBDA e : Emit(e, Store(var_pointer(e, p.name)))))

translate_function(n, c) ==
    LET name == n.left.left.name
        params == Items(n.left.right)
        start == Emit(c, <<LabelLine(IF n.op = "main" THEN "_start" ELSE func_(name))>>)
    IN  Pass(FoldLeft(translate_parameter, start, params), LAMBDA d :
        Pass(DeclareFunction(d, name, Len(params)), LAMBDA e :
             Emit(translate_statement(n.right, e), <<Bare("ret")>>)))

translate_statement(n, c) ==
    CASE n.kind \in {"nil", "number"} -> c
      [] n.kind = "variable" ->
           IF Contains(c.variables, n.name) THEN c ELSE Fail(c, "BTRST_UNDECLARED_VARIABLE")
      [] IsOp(n, ";") ->
           Pass(translate_statement(n.left, c), LAMBDA d : translate_statement(n.right, d))
      [] IsOp(n, ":=") -> translate_declaration(n, c)
      [] IsOp(n, "=") -> translate_assignment(n, c)
      [] IsOp(n, "if") -> translate_conditional(n, c)
      [] IsOp(n, "while") -> translate_cycle(n, c)
      [] n.kind = "operator" /\ n.op \in {"main", "func"} -> translate_function(n, c)
      [] OTHER -> Dummy(n, c)

(* An empty tree runs into an assertion.                                   *)
backend_translator(n) ==
    IF n = Nil THEN Fail(EmptyContext, "assertion")
    ELSE translate_statement(n, Emit(EmptyContext,
             <<Goto("call", "always", "_start"), Bare("dump"), Bare("halt")>>))
=============================================================================
