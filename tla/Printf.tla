------------------------------- MODULE Printf -------------------------------
(* my_printf (src/x86_64_printf/printf.s): the format is printed by the      *)
(* assembly through a buffer of BUFFER_SIZE bytes, and the same call is then *)
(* handed on to the C library's printf. One action per branch of the format  *)
(* loop. A string or a character argument is its text, a number a word of    *)
(* WordBits bits, a double a class, a sign and a multiple of 1/FloatUnit.    *)
EXTENDS Integers, Sequences, FiniteSets
LOCAL INSTANCE SequencesExt

CONSTANTS WordBits,    \* bits of a general register (64)
          BufferSize,  \* BUFFER_SIZE (256)
          IntRegs,     \* general registers with arguments, the format aside (5)
          FloatRegs,   \* xmm registers with arguments (8)
          Precision,   \* FLOAT_PRECISION (6)
          FloatUnit,   \* the doubles of the model are multiples of 1/FloatUnit
          Mantissa,    \* bits of a double's mantissa (53)
          Char,        \* the characters
          Calls        \* the calls made: [fmt |-> characters, args |-> arguments]

MinWord == 2 ^ (WordBits - 1)          \* 80..0h: the least signed number

\* What the caller may pass; a double that is not finite has no number.
Arguments ==
    [kind : {"int"}, type : {"word"}, v : 0 .. 2 ^ WordBits - 1]
    \cup [kind : {"int"}, type : {"char"}, v : Char]
    \cup [kind : {"int"}, type : {"text"}, v : Seq(Char)]
    \cup [kind : {"float"}, type : {"double"}, class : {"finite"}, negative : BOOLEAN, num : Nat]
    \cup [kind : {"float"}, type : {"double"}, class : {"inf", "nan"}, negative : BOOLEAN]

ASSUME PrintfAssumption ==
    /\ {WordBits, BufferSize, IntRegs, FloatRegs, Precision, FloatUnit} \subseteq Nat \ {0}
    /\ WordBits % 12 = 4 /\ 10 ^ Precision < MinWord
    /\ 10 > FloatRegs
    /\ Calls \subseteq [fmt : Seq(Char), args : Seq(Arguments)]

\* The doubles are so coarse that mulsd has nothing to round when it moves their
\* decimal places in front of the point: finer ones are not in the model.
ASSUME ExactAssumption ==
    /\ Mantissa \in Nat /\ \E k \in 0 .. Mantissa : FloatUnit = 2 ^ k
    /\ FloatUnit * (10 ^ Precision) <= 2 ^ Mantissa

DigitNames == <<"0", "1", "2", "3", "4", "5", "6", "7", "8", "9", "a", "b", "c", "d", "e", "f">>
Unsaid == <<"?">>                      \* stands for text of which nothing can be said

ASSUME CharAssumption == /\ {"%", "i", "n", "f", "a", "-", ".", "0", "?"} \subseteq Char
                         /\ \A d \in 1 .. 16 : DigitNames[d] \in Char

\* Arithmetic that holds of every word and precision: how the powers go on.
ASSUME PowersAssumption ==
    /\ 2 ^ 0 = 1 /\ \A n \in 0 .. WordBits - 1 : 2 ^ (n + 1) = 2 * (2 ^ n)
    /\ 10 ^ 0 = 1 /\ \A n \in 0 .. (WordBits \div 3) + Precision : 10 ^ (n + 1) = 10 * (10 ^ n)
    /\ 8 ^ 0 = 1 /\ \A n \in 0 .. WordBits \div 3 : 8 ^ (n + 1) = 8 * (8 ^ n)
    /\ 16 ^ 0 = 1 /\ \A n \in 0 .. (WordBits \div 4) - 1 : 16 ^ (n + 1) = 16 * (16 ^ n)

VARIABLES pc,      \* "idle", "format" (in the format loop), "libc" (at its printf) or
                   \* "undefined" (nothing can be said of what the program does next)
          call,    \* the call in progress
          regs,    \* the registers the caller and printf know of
          frame,   \* what my_printf and my_printf_internal saved of them
          rsi,     \* the format still to be read
          out      \* my_printf_buffer, and the write system calls of this call
vars == <<pc, call, regs, frame, rsi, out>>

Newline == "\n"
Junk == [type |-> "junk"]              \* what nobody put there

(***************************************************************************)
(* The caller's side of a variadic call (System V): which register or      *)
(* stack slot holds which argument.                                        *)
(***************************************************************************)
Args == call.args
OfKind(args, k) == {i \in DOMAIN args : args[i].kind = k}
Before(args, i) == Cardinality({j \in 1 .. i - 1 : args[j].kind = args[i].kind})
Registers(k) == IF k = "int" THEN IntRegs ELSE FloatRegs
Spilled(args) == {i \in DOMAIN args : Before(args, i) >= Registers(args[i].kind)}
Nth(args, places, n) ==
    LET nth == {i \in places : Cardinality({j \in places : j < i}) = n - 1}
    IN IF nth = {} THEN Junk ELSE args[CHOOSE i \in nth : TRUE]

\* The registers as the caller leaves them; al counts the xmm registers in use.
CallerRegs(args) ==
    [ints |-> [n \in 1 .. IntRegs |-> Nth(args, OfKind(args, "int"), n)],
     xmm  |-> [n \in 1 .. FloatRegs |-> Nth(args, OfKind(args, "float"), n)],
     rax  |-> LET n == Cardinality(OfKind(args, "float"))
              IN IF n < FloatRegs THEN n ELSE FloatRegs,
     rbx |-> "caller's rbx", r12 |-> "caller's r12", r9 |-> Junk]

\* printf_reg_ptr: the saved registers and, right above them because the return
\* address was popped first, the arguments the caller left on the stack.
Slot(n) == IF n <= IntRegs THEN frame.ints[n] ELSE Nth(Args, Spilled(Args), n - IntRegs)

(***************************************************************************)
(* The output buffer.                                                      *)
(***************************************************************************)
forcePrintBuffer(o) == [buffer |-> <<>>, writes |-> Append(o.writes, o.buffer)]

printChar_full_late(o, c) ==
    LET room == IF Len(o.buffer) <= BufferSize THEN o ELSE forcePrintBuffer(o)
        added == [room EXCEPT !.buffer = Append(@, c)]
    IN IF c = Newline THEN forcePrintBuffer(added) ELSE added

printChar(o, c) ==
    LET room == IF Len(o.buffer) < BufferSize THEN o ELSE forcePrintBuffer(o)
        added == [room EXCEPT !.buffer = Append(@, c)]
    IN IF c = Newline THEN forcePrintBuffer(added) ELSE added

printString(o, text) ==
    LET upTo[n \in 0 .. Len(text)] == IF n = 0 THEN o ELSE printChar(upTo[n - 1], text[n])
    IN upTo[Len(text)]

(***************************************************************************)
(* The text of a number.                                                   *)
(***************************************************************************)
printDigit(d) == DigitNames[d + 1]

RotateLeft(w, n) == LET k == n % WordBits
                    IN ((w * (2 ^ k)) % (2 ^ WordBits)) + (w \div (2 ^ (WordBits - k)))

\* printXOBNumber: rotated right until the highest whole digit is the lowest one,
\* then left digit by digit; zeros in front of the last digit are skipped.
printXOBNumber(w, r8) ==
    LET n == WordBits \div r8
        top == RotateLeft(w, WordBits - (n - 1) * r8)
        digit(i) == RotateLeft(top, (i - 1) * r8) % (2 ^ r8)
        skipped == {i \in 1 .. n - 1 : \A j \in 1 .. i : digit(j) = 0}
    IN [i \in 1 .. n - Cardinality(skipped) |-> printDigit(digit(i + Cardinality(skipped)))]

\* printDecimalNumber: the digits that div by ten gives, the last one first, and
\* zeros in front up to r8 of them; neg leaves MinWord as it is and div is unsigned.
DecimalDigits[w \in Nat] == IF w = 0 THEN <<>> ELSE Append(DecimalDigits[w \div 10], w % 10)
printDecimalNumber(w, r8) ==
    LET negative == w >= MinWord
        digits == DecimalDigits[IF negative THEN 2 ^ WordBits - w ELSE w]
        wanted == IF r8 = 0 THEN 1 ELSE r8
        zeros == IF Len(digits) < wanted THEN wanted - Len(digits) ELSE 0
    IN (IF negative THEN <<"-">> ELSE <<>>)
       \o [i \in 1 .. zeros |-> "0"] \o [i \in DOMAIN digits |-> printDigit(digits[i])]

\* cvttsd2si of num / FloatUnit >= 0: what no register holds becomes MinWord.
cvttsd2si(num) == IF num \div FloatUnit < MinWord THEN num \div FloatUnit ELSE MinWord
Signed(w) == IF w >= MinWord THEN w - 2 ^ WordBits ELSE w

printfFloatingPointTruncated(num) ==
    LET whole == cvttsd2si(num)
        rest == num - Signed(whole) * FloatUnit
    IN printDecimalNumber(whole, 0) \o <<".">>
       \o printDecimalNumber(cvttsd2si(rest * (10 ^ Precision)), Precision)

FloatText(d) ==
    (IF d.negative THEN <<"-">> ELSE <<>>)
    \o (IF d.class = "finite" THEN printfFloatingPointTruncated(d.num)
        ELSE IF d.class = "inf" THEN <<"i", "n", "f">> ELSE <<"n", "a", "n">>)

(***************************************************************************)
(* exchangeABIXMM: xmm0 becomes the next double. r12 is the number of the  *)
(* next one and r9 the xmm registers left -- until printDecimalNumber has  *)
(* used r9 for its ten. The jump by r12 lands behind the eighth register   *)
(* on the code that reads the stack, and one step further on its ret; what *)
(* comes after that is another routine.                                    *)
(***************************************************************************)
JumpsOut(r) == r.r9 # 0 /\ r.r12 > FloatRegs + 1
FromStack_not_counted(r) == [r EXCEPT !.xmm[1] = Slot(r.rbx), !.r12 = @ + 1]
FromStack(r) == [r EXCEPT !.xmm[1] = Slot(r.rbx), !.rbx = @ + 1, !.r12 = @ + 1]
exchangeABIXMM(r) ==
    LET s == [r EXCEPT !.r9 = @ - 1]
    IN IF r.r9 = 0 THEN FromStack(r)
       ELSE IF r.r12 < FloatRegs
       THEN [s EXCEPT !.xmm[1] = r.xmm[r.r12 + 1], !.r12 = @ + 1]
       ELSE IF r.r12 = FloatRegs THEN FromStack(s) ELSE s

(***************************************************************************)
(* The actions.                                                            *)
(***************************************************************************)
NoCall == [fmt |-> <<>>, args |-> <<>>]

Init ==
    /\ pc = "idle" /\ call = NoCall /\ regs = CallerRegs(<<>>) /\ frame = regs
    /\ rsi = <<>> /\ out = [buffer |-> <<>>, writes |-> <<>>]

\* my_printf up to the loop: the argument registers go to the stack, what the
\* callee must preserve and al are saved, r9 counts the xmm registers left.
Enter ==
    /\ pc = "idle"
    /\ \E c \in Calls :
          LET r == CallerRegs(c.args)
          IN /\ call' = c /\ frame' = r /\ rsi' = c.fmt
             /\ regs' = [ints |-> [n \in 1 .. IntRegs |-> Junk], xmm |-> r.xmm, rax |-> Junk,
                         rbx |-> 1, r12 |-> 0, r9 |-> r.rax]
    /\ pc' = "format" /\ UNCHANGED out

Letters == {"c", "s", "x", "o", "b", "d", "f"}
InFormat == pc = "format" /\ rsi # <<>>
Conversion(letters) == InFormat /\ rsi[1] = "%" /\ Len(rsi) > 1 /\ rsi[2] \in letters

PlainChar ==
    /\ InFormat /\ rsi[1] # "%"
    /\ out' = printChar(out, rsi[1]) /\ rsi' = Tail(rsi)
    /\ UNCHANGED <<pc, call, regs, frame>>

PercentFmt ==
    /\ Conversion({"%"})
    /\ out' = printChar(out, "%") /\ rsi' = Tail(Tail(rsi))
    /\ UNCHANGED <<pc, call, regs, frame>>

\* .unknown_code: the letter is left to be printed as any other character.
UnknownCode ==
    /\ InFormat /\ rsi[1] = "%"
    /\ Len(rsi) > 1 => rsi[2] \notin Letters \cup {"%"}
    /\ rsi' = Tail(rsi)
    /\ UNCHANGED <<pc, call, regs, frame, out>>

\* What a conversion prints of a slot; one that was not meant for it is Unsaid.
TypeOf(letter) == CASE letter = "c" -> "char" [] letter = "s" -> "text"
                    [] letter = "f" -> "double" [] OTHER -> "word"
SlotText(letter, arg) ==
    IF arg.type # TypeOf(letter) THEN Unsaid ELSE
    CASE letter = "c" -> <<arg.v>>
      [] letter = "s" -> arg.v
      [] letter = "x" -> printXOBNumber(arg.v, 4)
      [] letter = "o" -> printXOBNumber(arg.v, 3)
      [] letter = "b" -> printXOBNumber(arg.v, 1)
      [] letter = "d" -> printDecimalNumber(arg.v, 0)
      [] letter = "f" -> FloatText(arg)

GeneralFmt ==
    /\ Conversion({"c", "s", "x", "o", "b", "d"})
    /\ rsi[2] = "s" => Slot(regs.rbx).type = "text"
    /\ out' = printString(out, SlotText(rsi[2], Slot(regs.rbx)))
    /\ regs' = [regs EXCEPT !.rbx = @ + 1, !.r9 = IF rsi[2] = "d" THEN 10 ELSE @]
    /\ rsi' = Tail(Tail(rsi))
    /\ UNCHANGED <<pc, call, frame>>

FloatFmt ==
    /\ Conversion({"f"}) /\ ~JumpsOut(regs)
    /\ LET r == exchangeABIXMM(regs)
           d == r.xmm[1]
           finite == [r EXCEPT !.r9 = 10]
       IN /\ out' = printString(out, SlotText("f", d))
          /\ IF d.type # "double" THEN regs' \in {r, finite}
             ELSE regs' = IF d.class = "finite" THEN finite ELSE r
    /\ rsi' = Tail(Tail(rsi))
    /\ UNCHANGED <<pc, call, frame>>

\* The program is lost: a jump that leaves the code of exchangeABIXMM, and a text
\* read where no text is.
JumpLost ==
    /\ Conversion({"f"}) /\ JumpsOut(regs)
    /\ pc' = "undefined" /\ UNCHANGED <<call, regs, frame, rsi, out>>
TextLost ==
    /\ Conversion({"s"}) /\ Slot(regs.rbx).type # "text"
    /\ pc' = "undefined" /\ UNCHANGED <<call, regs, frame, rsi, out>>

\* What the frame f saved, and of the xmm registers of r all that it did not save.
Restored_without_xmm0(f, r) == [f EXCEPT !.xmm = r.xmm]
Restored(f, r) == [f EXCEPT !.xmm = [r.xmm EXCEPT ![1] = f.xmm[1]]]

\* .stop_fmt and the rest of my_printf: what is left of the buffer is written and
\* every register is as the caller had it when the C library's printf is called.
Leave ==
    /\ pc = "format" /\ rsi = <<>>
    /\ out' = forcePrintBuffer(out) /\ regs' = Restored(frame, regs) /\ pc' = "libc"
    /\ UNCHANGED <<call, frame, rsi>>

\* The C library's printf, with the caller's return address kept meanwhile in the
\* thread's my_printf_main_ret; of the call only the buffer is left afterwards.
LibcPrintf ==
    /\ pc = "libc" /\ pc' = "idle"
    /\ call' = NoCall /\ regs' = CallerRegs(<<>>) /\ frame' = regs' /\ rsi' = <<>>
    /\ out' = [out EXCEPT !.writes = <<>>]

Next == \/ Enter \/ PlainChar \/ PercentFmt \/ UnknownCode \/ GeneralFmt \/ FloatFmt
        \/ JumpLost \/ TextLost \/ Leave \/ LibcPrintf
Spec == Init /\ [][Next]_vars

(***************************************************************************)
(* What a format means, argument by argument, with no registers, slots,    *)
(* rotations or buffers: each conversion as the manual of printf has it    *)
(* (and %b for base two), but for two things. A double is cut off after    *)
(* Precision places, where the manual rounds it, and flags, widths and     *)
(* other letters mean themselves.                                          *)
(***************************************************************************)
Digit(base, v, place) == DigitNames[((v \div (base ^ place)) % base) + 1]
Numeral(base, v) ==
    LET n == CHOOSE m \in 1 .. WordBits : v < base ^ m /\ \A k \in 1 .. m - 1 : v >= base ^ k
    IN [i \in 1 .. n |-> Digit(base, v, n - i)]
Minus(negative) == IF negative THEN <<"-">> ELSE <<>>
Fraction(num) == LET f == (num * (10 ^ Precision)) \div FloatUnit
                 IN [i \in 1 .. Precision |-> Digit(10, f, Precision - i)]
Meaning(letter, a) ==
    IF a.type # TypeOf(letter) THEN Unsaid ELSE
    CASE letter = "c" -> <<a.v>>
      [] letter = "s" -> a.v
      [] letter = "x" -> Numeral(16, a.v)
      [] letter = "o" -> Numeral(8, a.v)
      [] letter = "b" -> Numeral(2, a.v)
      [] letter = "d" -> Minus(Signed(a.v) < 0)
                         \o Numeral(10, IF Signed(a.v) < 0 THEN -Signed(a.v) ELSE a.v)
      [] letter = "f" /\ a.class = "inf" -> Minus(a.negative) \o <<"i", "n", "f">>
      [] letter = "f" /\ a.class = "nan" -> Minus(a.negative) \o <<"n", "a", "n">>
      [] letter = "f" /\ a.class = "finite" ->
            Minus(a.negative) \o Numeral(10, a.num \div FloatUnit) \o <<".">> \o Fraction(a.num)

Given(c, n) == IF n \in DOMAIN c.args THEN c.args[n] ELSE Junk

\* What the first i characters of a format mean: their text, whether the last of
\* them is a % that waits for its letter, and how many arguments they use.
Understood(c) ==
    LET U[i \in 0 .. Len(c.fmt)] ==
          IF i = 0 THEN [text |-> <<>>, percent |-> FALSE, used |-> 0]
          ELSE LET u == U[i - 1]
                   ch == c.fmt[i]
               IN IF u.percent /\ ch \in Letters
                  THEN [text |-> u.text \o Meaning(ch, Given(c, u.used + 1)),
                        percent |-> FALSE, used |-> u.used + 1]
                  ELSE IF ~u.percent /\ ch = "%"
                  THEN [text |-> u.text, percent |-> TRUE, used |-> u.used]
                  ELSE [text |-> Append(u.text, ch), percent |-> FALSE, used |-> u.used]
    IN U
FormatMeaning(c) == Understood(c)[Len(c.fmt)].text

(***************************************************************************)
(* The limits of the program, as the caller has to know them.              *)
(***************************************************************************)
\* Every conversion has an argument of the type that it names.
ArgumentsMatch(c) ==
    \A i \in 1 .. Len(c.fmt) :
       LET u == Understood(c)[i - 1]
       IN u.percent /\ c.fmt[i] \in Letters => Given(c, u.used + 1).type = TypeOf(c.fmt[i])

\* A double that has no register left is found on the stack only when every
\* general register has been read before it, and only one such double is found.
FloatsInReach(c) ==
    LET floats == {i \in DOMAIN c.args : c.args[i].kind = "float"}
    IN /\ Cardinality(floats) <= FloatRegs + 1
       /\ \A i \in floats : Before(c.args, i) = FloatRegs
                               => Cardinality((1 .. i - 1) \ floats) >= IntRegs
DoublesFit(c) == \A i \in DOMAIN c.args :
    c.args[i].type = "double" /\ c.args[i].class = "finite"
        => c.args[i].num \div FloatUnit < MinWord
\* The top bit is above the last whole digit of three, and is not printed, although the
\* comment of printXOBNumber says that it prints the eight-byte number.
NoOctalTopBit(c) ==
    LET octal == \E i \in 1 .. Len(c.fmt) - 1 : c.fmt[i] = "%" /\ c.fmt[i + 1] = "o"
    IN octal => \A i \in DOMAIN c.args : c.args[i].type = "word" => c.args[i].v < MinWord

(***************************************************************************)
(* Properties.                                                             *)
(***************************************************************************)
Written == FlattenSeq(out.writes)

\* When the format is done, what has gone to the descriptor is what the format
\* means for the arguments of the call (doubles cut off, not rounded), wherever the
\* calling convention had put them and however r9, r12 and rbx were used on the way.
PrintsTheFormat ==
    (/\ pc = "libc" /\ ArgumentsMatch(call)
     /\ FloatsInReach(call) /\ DoublesFit(call) /\ NoOctalTopBit(call))
        => Written = FormatMeaning(call)

\* A write never carries more than the buffer holds; a line goes out with its
\* newline, at the end of a write; a write without one at its end was full or is
\* the last of its call, which leaves nothing behind in the buffer.
LinesGoOut ==
    /\ Len(out.buffer) <= BufferSize /\ (pc \in {"idle", "libc"} => out.buffer = <<>>)
    /\ \A n \in DOMAIN out.writes :
          LET w == out.writes[n]
          IN /\ Len(w) <= BufferSize
             /\ \A i \in DOMAIN w : w[i] = Newline => i = Len(w)
             /\ \/ w # <<>> /\ w[Len(w)] = Newline
                \/ Len(w) = BufferSize
                \/ n = Len(out.writes) /\ pc \in {"idle", "libc"}

\* The C library's printf gets the call as the caller made it: the argument
\* registers, al and the double in xmm0 too, and so do rbx and r12 come back.
HandedOn == pc = "libc" => regs = CallerRegs(Args)
=============================================================================
