----------------------------- MODULE LangFrontend -----------------------------
(***************************************************************************)
(* The front end of lang/: the lexer makes tokens of a text, and the       *)
(* recursive descent parser makes a tree of them.                          *)
(***************************************************************************)
EXTENDS LangTree

VARIABLES text,    \* words, numbers and operators: [type, word] or [type, num]
          tokens

-----------------------------------------------------------------------------
(* lexer.c *)

lexer_keyword_table == <<"input", "print", "if", "else", "sqrt", "func", "return", "while",
                         "scrht", "scrwt", "draw", "memload">>

(* strncmp compares as many characters as the word has: a word is taken    *)
(* for the first keyword that begins with it.                              *)
Matches(kw, word) == Len(word) <= Len(kw) /\ SubSeq(kw, 1, Len(word)) = word

lexer_parse_var(lx) ==
    LET found == {k \in DOMAIN lexer_keyword_table : Matches(lexer_keyword_table[k], lx.word)}
    IN  IF found = {} THEN [lx EXCEPT !.type = "variable"]
        ELSE [lx EXCEPT !.type = lexer_keyword_table[CHOOSE k \in found :
                                                        \A j \in found : k <= j]]

Lexed(t) == [k \in DOMAIN t |-> IF t[k].type = "word" THEN lexer_parse_var(t[k]) ELSE t[k]]

-----------------------------------------------------------------------------
(* expression_parser.c.  A parser starts at a token and returns a status,  *)
(* the index it has moved lexer_idx to and a node.  S_CONTINUE means that  *)
(* something else may stand here; the caller goes on from where the index  *)
(* has been left.                                                          *)

S_OK(i, n) == [ret |-> "S_OK", idx |-> i, node |-> n]
S_FAIL(i) == [ret |-> "S_FAIL", idx |-> i, node |-> Nil]
S_CONTINUE(i) == [ret |-> "S_CONTINUE", idx |-> i, node |-> Nil]
S_EMPTY_EXPRESSION(i) == [ret |-> "S_EMPTY_EXPRESSION", idx |-> i, node |-> Nil]

Good(r) == r.ret = "S_OK"
Continues(r) == r.ret = "S_CONTINUE"
TypeAt(i) == IF i <= Len(tokens) THEN tokens[i].type ELSE "end"

(* What comes after r, and what is tried where r has stopped instead of it. *)
After(r, F(_)) == IF Good(r) THEN F(r) ELSE r
OrElse(r, F(_)) == IF Continues(r) THEN F(r.idx) ELSE r

(* What r has read, and the token that has to come next.                   *)
Then(r, type) ==
    After(r, LAMBDA g : IF TypeAt(g.idx) = type THEN [g EXCEPT !.idx = @ + 1] ELSE S_FAIL(g.idx))
OrFail(r) == IF Good(r) THEN r ELSE S_FAIL(r.idx)

getNumber(i) ==
    IF TypeAt(i) = "number" THEN S_OK(i + 1, Number(tokens[i].num)) ELSE S_CONTINUE(i)
getVariable(i) ==
    IF TypeAt(i) = "variable" THEN S_OK(i + 1, Variable(tokens[i].word)) ELSE S_CONTINUE(i)

(* The chains of operators, the loosest first.                             *)
Chain == <<{","}, CompareOps \cup BitwiseOps, {"+", "-"}, {"*", "/"}>>

RECURSIVE Operand(_, _), ChainFrom(_, _), getPow(_), getCodeBlock(_), BlockFrom(_, _)

getCommaSeparatedList(i) == Operand(1, i)
getComprasion(i) == Operand(2, i)

getRoundBracketsExpression(i) ==
    IF TypeAt(i) # "(" THEN S_CONTINUE(i)
    ELSE IF TypeAt(i + 1) = ")" THEN S_EMPTY_EXPRESSION(i + 2)
    ELSE Then(getComprasion(i + 1), ")")

getArgumentsList(i) ==
    IF TypeAt(i) # "(" THEN S_CONTINUE(i)
    ELSE Then(IF TypeAt(i + 1) = ")" THEN S_OK(i + 1, Nil) ELSE getCommaSeparatedList(i + 1), ")")

(* A keyword and what has been read behind it.                             *)
KeywordOp(op, arg) ==
    LET empty == arg.ret = "S_EMPTY_EXPRESSION"
    IN  IF ~Good(arg) /\ ~empty THEN arg
        ELSE IF empty # (op \in NoArgFunctions) THEN S_FAIL(arg.idx)
        ELSE S_OK(arg.idx, Operator(op, arg.node, Nil))

getFunKeywordOp(i) ==
    IF TypeAt(i) \notin UnaryOps \cup NoArgFunctions THEN S_CONTINUE(i)
    ELSE KeywordOp(TypeAt(i), getRoundBracketsExpression(i + 1))

getFunctionCall(i) ==
    IF TypeAt(i) # "variable" \/ TypeAt(i + 1) # "(" THEN S_CONTINUE(i)
    ELSE After(getArgumentsList(i + 1), LAMBDA args :
               S_OK(args.idx, Operator("call", Variable(tokens[i].word), args.node)))

getC(i) ==
    OrElse(getNumber(i), LAMBDA j :
    OrElse(getFunKeywordOp(j), LAMBDA k :
    OrElse(getFunctionCall(k), LAMBDA l :
    OrElse(getVariable(l), S_FAIL))))

getPrimaryExpression(i) ==
    IF TypeAt(i) = "(" THEN Then(getComprasion(i + 1), ")") ELSE getC(i)

getPow(i) ==
    After(getPrimaryExpression(i), LAMBDA l :
        IF TypeAt(l.idx) # "^" THEN l
        ELSE After(getPow(l.idx + 1), LAMBDA r : S_OK(r.idx, Operator("^", l.node, r.node))))

(* getCommaSeparatedList, getComprasion, getExpression and getTerm are one *)
(* loop each; they differ in the operators they gather.                    *)
(* Faulty variant: the right operand takes all that follows.               *)
ChainFrom_right(level, l) ==
    IF ~Good(l) \/ TypeAt(l.idx) \notin Chain[level] THEN l
    ELSE After(Operand(level, l.idx + 1), LAMBDA r :
               ChainFrom(level, S_OK(r.idx, Operator(TypeAt(l.idx), l.node, r.node))))

ChainFrom(level, l) ==
    IF ~Good(l) \/ TypeAt(l.idx) \notin Chain[level] THEN l
    ELSE After(Operand(level + 1, l.idx + 1), LAMBDA r :
               ChainFrom(level, S_OK(r.idx, Operator(TypeAt(l.idx), l.node, r.node))))

Operand(level, i) ==
    IF level > Len(Chain) THEN getPow(i) ELSE ChainFrom(level, Operand(level + 1, i))

-----------------------------------------------------------------------------
(* Statements *)

getDeclarationOrAssignment(i) ==
    IF TypeAt(i) # "variable" \/ TypeAt(i + 1) \notin {":=", "=", "<-"} THEN S_CONTINUE(i)
    ELSE After(getComprasion(i + 2), LAMBDA r :
               S_OK(r.idx, Operator(TypeAt(i + 1), Variable(tokens[i].word), r.node)))

getStatement(i) ==
    IF TypeAt(i) = ";" THEN S_OK(i + 1, Nil)
    ELSE Then(OrElse(getDeclarationOrAssignment(i), getComprasion), ";")

getConditionalExpression(i) ==
    IF TypeAt(i) # "if" THEN S_CONTINUE(i)
    ELSE After(getRoundBracketsExpression(i + 1), LAMBDA cond :
         After(getCodeBlock(cond.idx), LAMBDA yes :
         After(IF TypeAt(yes.idx) = "else" THEN getCodeBlock(yes.idx + 1) ELSE S_OK(yes.idx, Nil),
               LAMBDA no :
         S_OK(no.idx, Operator("if", cond.node, Operator("else", yes.node, no.node))))))

getCycleExpression(i) ==
    IF TypeAt(i) # "while" THEN S_CONTINUE(i)
    ELSE After(getRoundBracketsExpression(i + 1), LAMBDA cond :
         After(getCodeBlock(cond.idx), LAMBDA body :
         S_OK(body.idx, Operator("while", cond.node, body.node))))

getLangPunct(i) ==
    OrElse(getConditionalExpression(i), LAMBDA j : OrElse(getCycleExpression(j), getStatement))

(* Statements that leave no node are not chained.                          *)
Sequenced(l, r) == IF r = Nil THEN l ELSE IF l = Nil THEN r ELSE Operator(";", l, r)

BlockFrom(l, i) ==
    IF TypeAt(i) = "}" THEN S_OK(i + 1, l)
    ELSE After(getLangPunct(i), LAMBDA r : BlockFrom(Sequenced(l, r.node), r.idx))

getCodeBlock(i) == IF TypeAt(i) = "{" THEN BlockFrom(Nil, i + 1) ELSE getLangPunct(i)

-----------------------------------------------------------------------------
(* Functions *)

getFunc(i) ==
    OrFail(After(getVariable(i + 1), LAMBDA name :
           After(getArgumentsList(name.idx), LAMBDA args :
           After(getCodeBlock(args.idx), LAMBDA body :
           S_OK(body.idx, Operator(IF name.node.name = "main" THEN "main" ELSE "func",
                                   Operator(",", name.node, args.node), body.node))))))

RECURSIVE FunctionsFrom(_, _)
FunctionsFrom(l, i) ==
    IF TypeAt(i) # "func" THEN S_OK(i, l)
    ELSE After(getFunc(i), LAMBDA r : FunctionsFrom(Sequenced(l, r.node), r.idx))

getFunctions(i) == FunctionsFrom(Nil, i)

getG == Then(getFunctions(1), "end")
=============================================================================
