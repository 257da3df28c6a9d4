----------------------------- MODULE LangMeaning -----------------------------
(***************************************************************************)
(* The language of lang/ without its compiler: how a program is written,   *)
(* which programs are well formed, and what a run of one leaves in its     *)
(* variables.  Every variable, parameters included, is one cell for the    *)
(* whole program, and the cells are addresses that "<-" and memload use.   *)
(***************************************************************************)
EXTENDS LangTree, SpuAlu, SequencesExt

CONSTANTS Cells,       \* the number of cells
          RunDepth     \* bound: calls and rounds of loops that a run may nest

VARIABLE written       \* the program

-----------------------------------------------------------------------------
(* How a program is written: with the fewest parentheses *)

Token(t) == [type |-> t]
Lexeme(w) == [type |-> "word", word |-> w]
Enclosed(open, s, close) == <<Token(open)>> \o s \o <<Token(close)>>

Level(n) == IF n.kind # "operator" THEN 5
            ELSE CASE n.op = "," -> 0
                   [] n.op \in CompareOps \cup BitwiseOps -> 1
                   [] n.op \in {"+", "-"} -> 2
                   [] n.op \in {"*", "/"} -> 3
                   [] n.op = "^" -> 4
                   [] OTHER -> 5

RECURSIVE Expr(_, _), Statement(_)

(* All operators associate to the left, but the power to the right.        *)
Expr(n, level) ==
    LET right == n.op = "^"
        l == Expr(n.left, Level(n) + (IF right THEN 1 ELSE 0))
        r == Expr(n.right, Level(n) + (IF right THEN 0 ELSE 1))
    IN  CASE n.kind = "nil" -> <<>>
          [] n.kind = "number" -> <<[type |-> "number", num |-> n.num]>>
          [] n.kind = "variable" -> <<Lexeme(n.name)>>
          [] OTHER ->
               IF Level(n) < level THEN Enclosed("(", Expr(n, 0), ")")
               ELSE IF Level(n) < 5 THEN l \o <<Token(n.op)>> \o r
               ELSE IF n.op = "call"
               THEN <<Lexeme(n.left.name)>> \o Enclosed("(", Expr(n.right, 0), ")")
               ELSE <<Lexeme(n.op)>> \o Enclosed("(", Expr(n.left, 0), ")")

Block(n) == Enclosed("{", Statement(n), "}")

Statement(n) ==
    LET no == IF n.right.right = Nil THEN <<>> ELSE <<Lexeme("else")>> \o Block(n.right.right)
        cond == Enclosed("(", Expr(n.left, 1), ")")
    IN  CASE n = Nil -> <<>>
          [] IsOp(n, ";") -> Statement(n.left) \o Statement(n.right)
          [] IsOp(n, "if") -> <<Lexeme("if")>> \o cond \o Block(n.right.left) \o no
          [] IsOp(n, "while") -> <<Lexeme("while")>> \o cond \o Block(n.right)
          [] n.kind = "operator" /\ n.op \in {":=", "=", "<-"} ->
               <<Lexeme(n.left.name), Token(n.op)>> \o Expr(n.right, 1) \o <<Token(";")>>
          [] n.kind = "operator" /\ n.op \in {"func", "main"} ->
               <<Lexeme("func"), Lexeme(n.left.left.name)>>
                  \o Enclosed("(", Expr(n.left.right, 0), ")") \o Block(n.right)
          [] OTHER -> Expr(n, 1) \o <<Token(";")>>

-----------------------------------------------------------------------------
(* Names, in the order of the text *)

RECURSIVE Items(_)
Items(n) == IF n = Nil THEN <<>>
            ELSE IF IsOp(n, ",") THEN Items(n.left) \o Items(n.right) ELSE <<n>>

RECURSIVE Subtrees(_)
Subtrees(n) == IF n = Nil THEN <<>> ELSE <<n>> \o Subtrees(n.left) \o Subtrees(n.right)

Program == Subtrees(written)
Functions == SelectSeq(Program, LAMBDA n : IsOp(n, "func") \/ IsOp(n, "main"))
Params(f) == [k \in 1..Len(Items(f.left.right)) |-> Items(f.left.right)[k].name]
FunctionNamed(v) == CHOOSE f \in ToSet(Functions) : f.left.left.name = v

Declares(n) == IF IsOp(n, ":=") THEN <<n.left.name>>
               ELSE IF IsOp(n, "func") \/ IsOp(n, "main") THEN Params(n) ELSE <<>>
Names == FlattenSeq([k \in DOMAIN Program |-> Declares(Program[k])])
Cell(v) == SelectInSeq(Names, LAMBDA w : w = v) - 1

(* A variable is declared once, and above its uses.                        *)
Declaration(v) == CHOOSE k \in DOMAIN Program : Contains(Declares(Program[k]), v)
IsFunctionName(k) ==
    \/ k > 1 /\ IsOp(Program[k - 1], "call")
    \/ k > 2 /\ IsOp(Program[k - 1], ",") /\ Program[k - 2] \in ToSet(Functions)
Scoped ==
    /\ IsInjective(Names) /\ Len(Names) <= Cells
    /\ \A k \in DOMAIN Program : Program[k].kind = "variable" /\ ~IsFunctionName(k) =>
          Contains(Names, Program[k].name) /\ Declaration(Program[k].name) < k

(* Calls name a function that takes as many arguments; main takes none.    *)
Linked ==
    /\ IsInjective([k \in DOMAIN Functions |-> Functions[k].left.left.name])
    /\ \E f \in ToSet(Functions) : f.op = "main" /\ Params(f) = <<>>
    /\ \A n \in ToSet(Program) : IsOp(n, "call") =>
          \E f \in ToSet(Functions) :
             /\ f.op = "func" /\ f.left.left.name = n.left.name
             /\ Len(Params(f)) = Len(Items(n.right))

(* return is a statement and powers are constants: only the middle end     *)
(* knows them.                                                             *)
RECURSIVE Constant(_)
Constant(n) == \/ n.kind = "number"
               \/ /\ n.kind = "operator" /\ n.op \in ArithmeticOps \ {"/"}
                  /\ Constant(n.left) /\ Constant(n.right)
Compilable ==
    \A n \in ToSet(Program) : n.kind = "operator" =>
       /\ n.op = "^" => Constant(n)
       /\ IsOp(n.left, "return") => n.op \in {";", "else"}
       /\ IsOp(n.right, "return") => n.op \in {";", "else", "while", "func", "main"}

WellFormed == Scoped /\ Linked /\ Compilable

-----------------------------------------------------------------------------
(* Runs.  "open" stands for a run of which nothing is promised: it goes    *)
(* past the bound, or depends on what was never assigned or returned.      *)

Unknown == WordHalf

Start == [mem |-> [a \in 0..Cells - 1 |-> Unknown], how |-> "goes on", val |-> Unknown]

GoesOn(s) == s.how = "goes on"
Val(s, v) == [s EXCEPT !.val = v]
Ends(s, how) == [s EXCEPT !.how = how]

Stored(s, a, v) == IF a \in DOMAIN s.mem THEN [Val(s, v) EXCEPT !.mem[a] = v] ELSE Ends(s, "open")

RECURSIVE Power(_, _)
Power(a, b) == IF b = 0 THEN 1 ELSE Wrap(a * Power(a, b - 1))

Compares(o, a, b) ==
    CASE o = "==" -> a = b [] o = "!=" -> a # b [] o = "<" -> a < b
      [] o = "<=" -> a <= b [] o = ">" -> a > b [] o = ">=" -> a >= b

Computed(o, a, b, s) ==
    IF a = Unknown \/ b = Unknown THEN Ends(s, "open") ELSE
    CASE o = "/" -> IF b = 0 THEN Ends(s, "fails") ELSE Val(s, Wrap(Truncated(a, b)))
      [] o = "+" -> Val(s, Wrap(a + b))
      [] o = "-" -> Val(s, Wrap(a - b))
      [] o = "*" -> Val(s, Wrap(a * b))
      [] o = "^" -> IF b < 0 THEN Ends(s, "open") ELSE Val(s, Power(a, b))
      [] o = "<<" -> Val(s, BitOp("shl", a, b))
      [] o = ">>" -> Val(s, BitOp("shr", a, b))
      [] o = "&" -> Val(s, BitOp("and", a, b))
      [] o = "|" -> Val(s, BitOp("or", a, b))
      [] o = "<-" -> Stored(s, a, b)
      [] OTHER -> Val(s, IF Compares(o, a, b) THEN 1 ELSE 0)

Function(o, s) ==
    IF o = "print" THEN s
    ELSE IF s.val = Unknown THEN Ends(s, "open") ELSE
    CASE o = "sqrt" -> IF s.val < 0 THEN Ends(s, "fails") ELSE Val(s, BitOp("sqrt", s.val, s.val))
      [] o = "memload" -> IF s.val \in DOMAIN s.mem THEN Val(s, s.mem[s.val]) ELSE Ends(s, "open")
      [] OTHER -> Ends(s, "open")

RECURSIVE Evaluated(_, _, _), Executed(_, _, _)

(* The arguments are evaluated from the last to the first, and are all     *)
(* known before a parameter changes.                                       *)
Called(n, s, d) ==
    LET f == FunctionNamed(n.left.name)
        args == FoldRight(LAMBDA a, acc : LET t == Evaluated(a, acc.s, d)
                                          IN  [s |-> t, vals |-> <<t.val>> \o acc.vals],
                          Items(n.right), [s |-> s, vals |-> <<>>])
        entered == FoldLeft(LAMBDA t, k : Stored(t, Cell(Params(f)[k]), args.vals[k]),
                            args.s, [k \in DOMAIN Params(f) |-> k])
        left == Executed(f.right, entered, d - 1)
    IN  IF ~GoesOn(args.s) THEN args.s
        ELSE IF d = 0 THEN Ends(s, "open")
        ELSE IF left.how = "returns" THEN Ends(left, "goes on")
        ELSE Val(left, Unknown)

Evaluated(n, s, d) ==
    LET l == Evaluated(n.left, s, d)
        r == Evaluated(n.right, l, d)
    IN  IF ~GoesOn(s) THEN s
        ELSE CASE n.kind = "number" -> Val(s, n.num)
               [] n.kind = "variable" -> Val(s, s.mem[Cell(n.name)])
               [] IsOp(n, "call") -> Called(n, s, d)
               [] n.kind = "operator" /\ n.op \in BinaryOps ->
                    IF GoesOn(r) THEN Computed(n.op, l.val, r.val, r) ELSE r
               [] n.kind = "operator" /\ n.op \in UnaryOps ->
                    IF GoesOn(l) THEN Function(n.op, l) ELSE l
               [] OTHER -> Ends(s, "open")

Executed(n, s, d) ==
    LET value == Evaluated(IF n.op \in {":=", "="} THEN n.right ELSE n.left, s, d)
        again == Executed(n, Executed(n.right, value, d), d - 1)
    IN  IF ~GoesOn(s) \/ n.kind # "operator" THEN s
        ELSE IF n.op = ";" THEN Executed(n.right, Executed(n.left, s, d), d)
        ELSE IF n.op \notin {":=", "=", "if", "while", "return"} THEN Evaluated(n, s, d)
        ELSE IF ~GoesOn(value) THEN value
        ELSE IF n.op = "return" THEN Ends(value, "returns")
        ELSE IF n.op \in {":=", "="} THEN Stored(value, Cell(n.left.name), value.val)
        ELSE IF value.val = Unknown \/ d = 0 THEN Ends(s, "open")
        ELSE IF n.op = "while" THEN (IF value.val = 0 THEN value ELSE again)
        ELSE Executed(IF value.val # 0 THEN n.right.left ELSE n.right.right, value, d)

Outcome == Executed(FunctionNamed("main").right, Start, RunDepth)
=============================================================================
