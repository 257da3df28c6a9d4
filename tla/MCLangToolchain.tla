--------------------------- MODULE MCLangToolchain ---------------------------
(* Programs of lang/ for TLC.  Those of the families below that are ill    *)
(* formed are written down too: the compiler may refuse them.              *)
EXTENDS LangToolchain, Bitwise, SequencesExt

Bits(a) == a % (2 * WordHalf)
RECURSIVE Root(_, _)
Root(a, r) == IF (r + 1) * (r + 1) > a THEN r ELSE Root(a, r + 1)
MCBitOp(op, a, b) ==
    Wrap(CASE op = "and" -> Bits(a) & Bits(b)
           [] op = "or" -> Bits(a) | Bits(b)
           [] op = "shl" -> a * 2^(b % 4)
           [] op = "shr" -> a \div 2^(b % 4)
           [] op = "sqrt" -> IF a < 0 THEN 0 ELSE Root(a, 0)
           [] OTHER -> 0)

V(v) == Variable(v)
N(n) == Number(n)
Op(o, l, r) == Operator(o, l, r)
Calls(f, args) == Op("call", V(f), args)
Fun(name, params, body) == Op(IF name = "main" THEN "main" ELSE "func", Op(",", V(name), params), body)
Main(body) == Fun("main", Nil, body)
Do(s) == FoldLeft(Sequenced, Nil, s)
If(c, a, b) == Op("if", c, Op("else", a, b))
Let(v, e) == Op(":=", V(v), e)
Set(v, e) == Op("=", V(v), e)

(* Expressions of one and of two operators.                                *)
Atoms == {N(0), N(3), V("a")}
Ones == {Op(o, l, r) : o \in BinaryOps \ {"<-", "^"}, l \in Atoms, r \in Atoms}
            \cup {Op("^", l, r) : l \in {N(2), V("a")}, r \in {N(0), N(3)}}
            \cup {Op(o, l, Nil) : o \in {"print", "sqrt", "memload"}, l \in Atoms}
Picked == {"-", "/", "<", "^"}
Twos == {Op(o, l, r) : o \in Picked,
                       l \in {Op(p, N(2), x) : p \in Picked, x \in {N(3), V("a")}}, r \in {N(2), V("a")}}
            \cup {Op(o, l, r) : o \in Picked, l \in {N(2), V("a")},
                                r \in {Op(p, N(2), x) : p \in Picked, x \in {N(3), V("a")}}}
Computations == {Main(Do(<<Let("a", N(2)), Let("b", e)>>)) : e \in Ones \cup Twos}

(* Statements, one after another.                                          *)
Down == Set("a", Op("-", V("a"), N(1)))
Up == Set("b", Op("+", V("b"), N(2)))
Loop == Op("while", Op("<", N(0), V("a")), Do(<<Down, Up>>))
Simple == {Down, Up, Op("<-", V("a"), N(3)), Op("print", V("b"), Nil),
           If(Op("==", V("a"), V("b")), Up, Down), If(V("a"), Up, Nil), If(V("a"), Nil, Up),
           Loop, Op("while", Op("<", V("b"), N(4)), If(V("a"), Loop, Up)),
           If(V("a"), If(V("b"), Down, Nil), Up), Op("return", V("a"), Nil),
           If(Op(">", V("a"), N(1)), Op("return", N(1), Nil), Nil),
           Let("b", V("a")), Set("c", N(1)), V("b"), V("c")}
Sequences2 == {Main(Do(<<Let("a", N(a)), Let("b", N(1)), s, t>>)) : a \in {0, 2}, s \in Simple, t \in Simple}

(* Functions, called before and after their text.                          *)
Both(f, m) == {Do(<<f, Main(m)>>), Do(<<Main(m), f>>)}
Less == Fun("less", Op(",", V("x"), V("y")), Op("return", Op("-", V("x"), V("y")), Nil))
Down2 == Fun("less", Op(",", V("x"), V("y")),
            If(V("x"), Op("return", Calls("less", Op(",", Op("-", V("x"), N(1)), V("x"))), Nil),
                       Op("return", V("y"), Nil)))
Fact == Fun("less", Op(",", V("x"), V("y")),
            Do(<<If(Op("<=", V("x"), N(1)), Op("return", N(1), Nil), Nil),
                 Op("return", Op("*", V("x"), Calls("less", Op(",", Op("-", V("x"), N(1)), V("y")))),
                    Nil)>>))
Silent == Fun("less", Op(",", V("x"), V("y")), Set("x", V("y")))
Arguments == {Op(",", N(3), N(1)), Op(",", V("a"), Calls("less", Op(",", V("a"), N(1)))),
              Op(",", Calls("less", Op(",", N(2), N(1))), V("a")), N(3), Nil}
Uses(args) == {<<Let("b", Calls("less", args))>>,
               <<Let("b", Op("-", N(1), Calls("less", args)))>>,
               <<Let("b", Op("-", Calls("less", args), Calls("less", Op(",", V("a"), N(0)))))>>,
               <<Calls("less", args), Let("b", N(1))>>, <<Let("b", Calls("other", args))>>}
WithCalls == UNION {Both(f, Do(<<Let("a", N(2))>> \o u)) :
                      f \in {Less, Down2, Fact, Silent}, u \in UNION {Uses(args) : args \in Arguments}}

Further == {Do(<<Less, Fun("other", V("x"), V("x")), Main(Nil)>>), Less,
            Main(If(Calls("main", Nil), Nil, Nil)),
            Main(Do(<<Let("a", N(2)), Let("b", Op("+", V("a"), Op("return", V("a"), Nil)))>>))}

MCPrograms == Computations \cup Sequences2 \cup WithCalls \cup Further

-----------------------------------------------------------------------------
(* Texts that stand for no tree. *)

Words(s) == [k \in 1..Len(s) |->
    IF s[k] \in {"func", "main", "x", "p", "re", "print", "return", "input", "if", "while", "else"}
    THEN [type |-> "word", word |-> s[k]]
    ELSE IF s[k] \in {"0", "5"} THEN [type |-> "number", num |-> 5] ELSE [type |-> s[k]]]
InMain(s) == Words(<<"func", "main", "(", ")", "{", "x", ":=", "5", ";">> \o s \o <<"}">>)
Broken == {<<"x">>, <<"(", "x", ";">>, <<"x", "=", ";">>, <<"print", "(", ")", ";">>,
           <<"input", "(", "x", ")", ";">>, <<"if", "(", ")", "x", ";">>, <<"else", "x", ";">>,
           <<"x", "(", "x", ";">>, <<"other">>, <<"}">>, <<"print", "5", ";">>}
MCTexts == {InMain(s) : s \in Broken} \cup {<<>>, Words(<<"func", "(", ")", "x", ";">>)}

(* Keywords without parentheses, as README.md and the programs write them. *)
Bracketless == {<<"print", "x", "+", "x", ";">>, <<"return", "x", ";">>}
MCKeywordTexts == {InMain(s) : s \in Bracketless}
MCLabels == {"_start", "func_less", "func_other", "func_main"}
              \cup {"_jmp_tps__" \o ToString(k) : k \in 0..20}
=============================================================================
