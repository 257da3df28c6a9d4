------------------------------ MODULE DerivText ------------------------------
(***************************************************************************)
(* The two texts of an expression: the formula that the recursive descent  *)
(* parser reads, and the file that a tree is stored in.                    *)
(*                                                                         *)
(* A formula is a sequence of tokens: [type |-> "number", num], [type |->  *)
(* "name", name], one for each operator and bracket, and "end" for each of *)
(* the characters that end it.                                             *)
(***************************************************************************)
EXTENDS DerivTree

(* The number that strtod reads where printf has written another with "%g":*)
(* the one that its first six significant digits name.  Like the tables of *)
(* functions it is arbitrary where nothing is known of it.                 *)
CONSTANT SixDigits

ASSUME SixDigitsAssumption ==
    /\ SixDigits \in [Field -> Field]
    /\ SixDigits[0] = 0 /\ SixDigits[1] = 1
    /\ \A a \in Field : /\ SixDigits[SixDigits[a]] = SixDigits[a]
                        /\ SixDigits[(-a) % P] = (-SixDigits[a]) % P

(* "nan" and "inf" are read back as well.                                  *)
Reread(a) == IF a = NaN THEN NaN ELSE SixDigits[a]

VARIABLES formula,   \* the formula in expr.txt
          file       \* the words of the file a tree is stored in

TypeAt(i) == IF i \in DOMAIN formula THEN formula[i].type ELSE "past"
NameAt(i) == IF TypeAt(i) = "name" THEN formula[i].name ELSE <<>>

-----------------------------------------------------------------------------
(* expression_parser.c.  A parser is given where it starts and the         *)
(* variables named so far, and returns a status with a node.               *)

OK(i, vars, n) == [ret |-> "S_OK", idx |-> i, vars |-> vars, node |-> n]
FAIL(i) == [ret |-> "S_FAIL", idx |-> i, vars |-> <<>>, node |-> Nil]
CONTINUE(i) == [ret |-> "S_CONTINUE", idx |-> i]

(* What comes after r, and what is tried where r has not begun.            *)
After(r, F(_)) == IF r.ret = "S_OK" THEN F(r) ELSE r
OrElse(r, F(_)) == IF r.ret = "S_CONTINUE" THEN F(r.idx) ELSE r

(* strtod takes a sign with the number.                                    *)
getNumber(i, vars) ==
    CASE TypeAt(i) = "number" -> OK(i + 1, vars, Number(formula[i].num))
      [] TypeAt(i) \in {"+", "-"} /\ TypeAt(i + 1) = "number" ->
            OK(i + 2, vars, Number(Evaluated(TypeAt(i), 0, formula[i + 1].num)))
      [] OTHER -> CONTINUE(i)

(* strncmp compares as many characters as the formula's name has.          *)
Matches(var, name) == Len(name) <= Len(var.name) /\ SubSeq(var.name, 1, Len(name)) = name

getVariable(i, vars) ==
    LET known == {k \in DOMAIN vars : Matches(vars[k], NameAt(i))}
    IN  IF TypeAt(i) # "name" THEN CONTINUE(i)
        ELSE IF known # {} THEN
            OK(i + 1, vars, Variable(CHOOSE k \in known : \A j \in known : k <= j))
        ELSE OK(i + 1, Append(vars, [name |-> NameAt(i), value |-> 0]), Variable(Len(vars) + 1))

FunctionNames == {<<f>> : f \in Functions1}

RECURSIVE getPow(_, _), Operands(_, _, _), ChainFrom(_, _)

(* The operators of the two loops, the looser first.                       *)
Chain == <<{"+", "-"}, {"*", "/"}>>

getExpression(i, vars) == Operands(1, i, vars)

(* What follows the argument is skipped, whatever it is.                   *)
getOperator(i, vars) ==
    IF TypeAt(i + 1) # "(" \/ NameAt(i) \notin FunctionNames THEN CONTINUE(i)
    ELSE After(getExpression(i + 2, vars), LAMBDA r :
               OK(r.idx + 1, r.vars, Call(NameAt(i)[1], r.node)))

getC(i, vars) ==
    OrElse(getNumber(i, vars), LAMBDA j :
    OrElse(getOperator(j, vars), LAMBDA k :
    OrElse(getVariable(k, vars), FAIL)))

getPrimaryExpression(i, vars) ==
    IF TypeAt(i) # "(" THEN getC(i, vars)
    ELSE After(getExpression(i + 1, vars), LAMBDA r :
               IF TypeAt(r.idx) = ")" THEN [r EXCEPT !.idx = @ + 1] ELSE FAIL(r.idx))

(* Faulty variant: a power is raised to what follows it.                   *)
getPow_left(i, vars) ==
    After(getPrimaryExpression(i, vars), LAMBDA l :
        IF TypeAt(l.idx) # "^" THEN l
        ELSE After(getPrimaryExpression(l.idx + 1, l.vars), LAMBDA r :
            IF TypeAt(r.idx) # "^" THEN OK(r.idx, r.vars, Operator("^", l.node, r.node))
            ELSE After(getPow(r.idx + 1, r.vars), LAMBDA s :
                OK(s.idx, s.vars, Operator("^", Operator("^", l.node, r.node), s.node)))))

getPow(i, vars) ==
    After(getPrimaryExpression(i, vars), LAMBDA l :
        IF TypeAt(l.idx) # "^" THEN l
        ELSE After(getPow(l.idx + 1, l.vars), LAMBDA r :
                   OK(r.idx, r.vars, Operator("^", l.node, r.node))))

(* getExpression and getTerm are one loop each.                            *)
ChainFrom(level, l) ==
    IF l.ret # "S_OK" \/ TypeAt(l.idx) \notin Chain[level] THEN l
    ELSE After(Operands(level + 1, l.idx + 1, l.vars), LAMBDA r :
               ChainFrom(level, OK(r.idx, r.vars, Operator(TypeAt(l.idx), l.node, r.node))))

Operands(level, i, vars) ==
    IF level > Len(Chain) THEN getPow(i, vars) ELSE ChainFrom(level, Operands(level + 1, i, vars))

getG ==
    After(getExpression(1, <<>>), LAMBDA r : IF TypeAt(r.idx) = "end" THEN r ELSE FAIL(r.idx))
-----------------------------------------------------------------------------
(* The stored tree: expression_serializer and expression_deserializer for  *)
(* the values, tree_serialize_node and tree_deserialize_node around them.  *)

Mark(c) == [word |-> c]

(* The digits written are all that is left of a number.                    *)
expression_serializer(t) ==
    CASE t.type = "number" -> [word |-> "number", fnum |-> Reread(t.fnum)]
      [] t.type = "variable" -> Mark("x")
      [] t.type = "operator" -> [word |-> "operator", op |-> t.op]

RECURSIVE tree_serialize_node(_)
tree_serialize_node(t) ==
    IF t = Nil THEN <<Mark("nil")>>
    ELSE <<Mark("("), expression_serializer(t)>>
            \o tree_serialize_node(t.left) \o tree_serialize_node(t.right) \o <<Mark(")")>>

WordAt(i) == IF i \in DOMAIN file THEN file[i].word ELSE "past"
Read(ok, i, n) == [ok |-> ok, idx |-> i, node |-> n]
Refused == Read(FALSE, 0, Nil)

(* The names are those of the operators: that of a variable is none.  The  *)
(* node is not marked constant.                                            *)
expression_deserializer(w, l, r) ==
    IF w.word = "number" THEN [type |-> "number", fnum |-> w.fnum, left |-> l, right |-> r,
                               constant |-> FALSE]
    ELSE [Operator(w.op, l, r) EXCEPT !.constant = FALSE]

(* Where the closing bracket is missing the status is the last one, DS_OK, *)
(* and there is no node.                                                   *)
RECURSIVE tree_deserialize_node(_)
tree_deserialize_node(i) ==
    CASE WordAt(i) = "nil" -> Read(TRUE, i + 1, Nil)
      [] WordAt(i) = "(" /\ WordAt(i + 1) \in {"number", "operator"} ->
            LET l == tree_deserialize_node(i + 2)
                r == tree_deserialize_node(l.idx)
            IN  IF ~l.ok \/ ~r.ok THEN Refused
                ELSE IF WordAt(r.idx) # ")" THEN Read(TRUE, r.idx, Nil)
                ELSE Read(TRUE, r.idx + 1, expression_deserializer(file[i + 1], l.node, r.node))
      [] OTHER -> Refused

(* Faulty variant: nothing is marked.                                      *)
tnode_validate_unmarked(t) == t

(* tnode_validate marks what is constant; Nil is a tree that is refused.   *)
RECURSIVE tnode_validate(_)
tnode_validate(t) ==
    CASE t = Nil -> Nil
      [] t.type = "number" -> IF <<t.left, t.right>> = <<Nil, Nil>> THEN Number(t.fnum) ELSE Nil
      [] t.type = "operator" ->
            LET l == tnode_validate(t.left)
                r == tnode_validate(t.right)
            IN  IF (l = Nil) # (t.left = Nil) \/ (r = Nil) # (t.right = Nil) THEN Nil
                ELSE Operator(t.op, l, r)

expression_load == IF tree_deserialize_node(1).ok THEN tnode_validate(tree_deserialize_node(1).node)
                   ELSE Nil
=============================================================================
