------------------------------ MODULE MCPrintf ------------------------------
(* Calls for Printf: every sequence of at most two pieces out of all, every  *)
(* sequence of exactly MixLength pieces out of those that tell the registers *)
(* and the stack slots apart, and a number printed as a text.                *)
EXTENDS Printf
LOCAL INSTANCE SequencesExt

CONSTANTS MixLength,    \* pieces of the long calls
          MaxFloats     \* doubles of a call

MCChar == {"\n", "%", "-", ".", "?"}
             \cup {"0", "1", "2", "3", "4", "5", "6", "7", "8", "9"}
             \cup {"a", "b", "c", "d", "e", "f", "i", "l", "m", "n", "o", "q", "s", "v", "x"}

Arg(type, v) == [kind |-> "int", type |-> type, v |-> v]
Double(negative, num) == [kind |-> "float", type |-> "double", class |-> "finite",
                          negative |-> negative, num |-> num]
Special(class, negative) == [kind |-> "float", type |-> "double", class |-> class,
                             negative |-> negative]

Piece(letter, arg) == [fmt |-> <<"%", letter>>, args |-> <<arg>>]
Plain(text) == [fmt |-> text, args |-> <<>>]

Numbers == {0, 7, 10, 4095, 32767, 32768, 65535}
Doubles == {Double(FALSE, 0), Double(TRUE, 1), Double(FALSE, 79), Double(TRUE, 262143),
            Double(FALSE, 262144), Special("inf", TRUE), Special("nan", FALSE)}
Words == {Piece(l, Arg("word", v)) : l \in {"x", "o", "b", "d"}, v \in Numbers}
Texts == {Piece("s", Arg("text", t)) : t \in {<<>>, <<"l", "\n", "o", "v", "e", "\n">>}}
            \cup {Piece("c", Arg("char", c)) : c \in {"a", "\n"}}
Pieces == Words \cup Texts \cup {Piece("f", d) : d \in Doubles}
            \cup {Plain(t) : t \in {<<"m">>, <<"\n">>, <<"%", "%">>, <<"%", "q">>}}
Mixed == {Piece("d", Arg("word", 4)), Piece("x", Arg("word", 5)),
          Piece("f", Double(FALSE, 12)), Piece("f", Special("inf", FALSE))}

Call(pieces) == [fmt |-> FlattenSeq([i \in DOMAIN pieces |-> pieces[i].fmt]),
                 args |-> FlattenSeq([i \in DOMAIN pieces |-> pieces[i].args])]
Few == {Call(p) : p \in SeqOf(Pieces, 2)} \cup {Call(<<p, Plain(<<"%">>)>>) : p \in Pieces}
Many == {Call(p) : p \in [1 .. MixLength -> Mixed]}
Floats(c) == Len(SelectSeq(c.args, LAMBDA a : a.kind = "float"))
MCCalls == {c \in Few \cup Many : Floats(c) <= MaxFloats}
              \cup {Call(<<Plain(<<"m">>), Piece("s", Arg("word", 7)), Plain(<<"m">>)>>)}
=============================================================================
