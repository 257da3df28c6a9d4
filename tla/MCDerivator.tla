----------------------------- MODULE MCDerivator -----------------------------
(* Formulas of derivator/ for TLC.                                         *)
EXTENDS Derivator

T(type) == [type |-> type]
N(n) == [type |-> "number", num |-> n]
Name(f) == [type |-> "name", name |-> f]
Ended(s) == s \o <<T("end"), T("end")>>

MCSin == <<2, 5, 3, 0, 6, 1, 4>>
MCCos == <<3, 3, 1, 5, 0, 2, 6>>
FromZero(s) == [a \in 0..(Len(s) - 1) |-> s[a + 1]]
MCSinTable == FromZero(MCSin)
MCCosTable == FromZero(MCCos)
MCLn == <<0, 2, 1, 4, 5, 3>>

(* 3 and 4 stand for numbers of more than six digits.                      *)
MCSixDigits == FromZero(<<0, 1, 2, 2, 5, 5, 6>>)

(* Every short sequence of tokens.                                         *)
X == Name(<<"x">>)
Alphabet == {X, N(2), T("+"), T("-"), T("*"), T("^"), T("("), T(")"), Name(<<"ln">>)}
Short == UNION {[1..k -> Alphabet] : k \in 1..4}

(* Formulas written with all their brackets.                               *)
Bin(op, l, r) == <<T("(")>> \o l \o <<T(op)>> \o r \o <<T(")")>>
Fun(f, l) == <<Name(<<f>>), T("(")>> \o l \o <<T(")")>>
Ops == {"+", "-", "*", "^"}
Inner == {Bin(op, l, r) : op \in Ops, l \in {<<X>>, <<N(2)>>}, r \in {<<X>>, <<N(3)>>}}
            \cup {Fun(f, <<X>>) : f \in {"sin", "cos", "ln"}}
            \cup {Bin("/", <<X>>, <<N(2)>>), Bin("/", <<N(2)>>, <<X>>)}
Nested == {Bin(op, l, r) : op \in Ops \cup {"/"}, l \in Inner, r \in {<<X>>, <<N(0)>>, <<N(2)>>}}
            \cup {Bin(op, l, r) : op \in Ops \cup {"/"}, r \in Inner, l \in {<<X>>, <<N(0)>>, <<N(1)>>}}
            \cup {Fun(f, l) : f \in {"sin", "cos", "ln", "o"}, l \in Inner}

(* Without brackets; names of more than a letter; a division by zero.      *)
Flat == {<<X, T(a), N(2), T(b), X, T(c), N(3)>> : a, b, c \in Ops \cup {"/"}}
Odd == {<<Name(<<"y", "x">>), T("*"), X, T("+"), Name(<<"y", "x">>)>>,
        <<Name(<<"x", "y">>), T("*"), X>>,
        <<N(2), T("/"), N(0), T("*"), X>>,
        <<N(2), T("*"), T("("), N(3), T("*"), X, T(")")>>,
        <<N(3), T("+"), Name(<<"sin">>), T("("), N(2), T("*"), N(5), T(")")>>,
        <<X, T("^"), T("-"), N(2)>>,
        <<Name(<<"sin">>), T("("), X>>}

MCRequests == {-1, 1, 3}
MCFormulas == {Ended(s) : s \in Short \cup Inner \cup Nested \cup Flat \cup Odd}
=============================================================================
