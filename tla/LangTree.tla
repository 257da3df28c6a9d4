------------------------------- MODULE LangTree -------------------------------
(***************************************************************************)
(* The trees that the three programs of lang/ hand each other, and the     *)
(* text they are stored in between two programs.                           *)
(***************************************************************************)
EXTENDS Integers, Sequences

Nil == [kind |-> "nil"]
Number(n) == [kind |-> "number", num |-> n, left |-> Nil, right |-> Nil]
Variable(v) == [kind |-> "variable", name |-> v, left |-> Nil, right |-> Nil]
Operator(o, l, r) == [kind |-> "operator", op |-> o, left |-> l, right |-> r]

IsOp(n, o) == n.kind = "operator" /\ n.op = o

(* Operators are named by the tokens that stand for them.                  *)
ArithmeticOps == {"+", "-", "*", "/", "^"}
CompareOps == {"==", ">", "<", "!=", ">=", "<="}
BitwiseOps == {"<<", ">>", "&", "|"}
BinaryOps == ArithmeticOps \cup CompareOps \cup BitwiseOps \cup {"<-"}
NoArgFunctions == {"input", "scrht", "scrwt"}
UnaryOps == {"print", "sqrt", "return", "draw", "memload"}

-----------------------------------------------------------------------------
(* The text form, as its tokens: "nil", or a value and two subtrees in     *)
(* parentheses.  A value is written without the subtrees of its node.      *)

Open == [kind |-> "("]
Close == [kind |-> ")"]
Value(n) == [n EXCEPT !.left = Nil, !.right = Nil]

RECURSIVE Serialized(_)
Serialized(n) ==
    IF n = Nil THEN <<Nil>>
    ELSE <<Open, Value(n)>> \o Serialized(n.left) \o Serialized(n.right) \o <<Close>>

(* Reading gives a node and the position behind it.  A missing ")" is not  *)
(* reported: the node is dropped and the caller goes on.                   *)
RECURSIVE ReadNode(_, _)
ReadNode(s, pos) ==
    IF pos > Len(s) \/ s[pos] \notin {Nil, Open} THEN [ok |-> FALSE, node |-> Nil, pos |-> pos]
    ELSE IF s[pos] = Nil THEN [ok |-> TRUE, node |-> Nil, pos |-> pos + 1]
    ELSE LET l == ReadNode(s, pos + 2)
             r == ReadNode(s, l.pos)
             closed == r.pos <= Len(s) /\ s[r.pos] = Close
         IN  IF ~l.ok THEN [l EXCEPT !.node = Nil]
             ELSE IF ~r.ok THEN [r EXCEPT !.node = Nil]
             ELSE [ok |-> TRUE, pos |-> IF closed THEN r.pos + 1 ELSE r.pos,
                   node |-> IF closed THEN [s[pos + 1] EXCEPT !.left = l.node, !.right = r.node]
                                      ELSE Nil]

Deserialized(s) == ReadNode(s, 1).node
=============================================================================
