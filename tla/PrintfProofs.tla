---------------------------- MODULE PrintfProofs ----------------------------
(***************************************************************************)
(* Proofs about my_printf (Printf), for every word and buffer size, every  *)
(* number of registers and every set of calls: its lines go out whole, the *)
(* C library's printf gets the call as the caller made it, and what is     *)
(* written is what the format means. The last rests on two things proved   *)
(* first: that rotated words and the remainders of div give the numeral,   *)
(* and that rbx, r12 and r9 count the arguments well enough to find them.  *)
(***************************************************************************)
EXTENDS Printf, NatRecursion, FiniteSetTheorems, SequenceTheorems
LOCAL INSTANCE SequencesExt

Output == [buffer : Seq(Char), writes : Seq(Seq(Char))]
Slots == Arguments \cup {Junk}
Registry == [ints : [1 .. IntRegs -> Slots], xmm : [1 .. FloatRegs -> Slots],
             rax : Nat \cup {Junk}, rbx : Nat \cup {"caller's rbx"},
             r12 : Nat \cup {"caller's r12"}, r9 : Int \cup {Junk}]

LEMMA Sizes ==
    /\ WordBits \in Nat \ {0} /\ BufferSize \in Nat \ {0} /\ IntRegs \in Nat \ {0}
    /\ FloatRegs \in Nat \ {0} /\ Precision \in Nat \ {0} /\ FloatUnit \in Nat \ {0}
BY PrintfAssumption

-----------------------------------------------------------------------------
(* Powers *)

LEMMA TwoUp == \A n \in 0 .. WordBits - 1 : 2 ^ (n + 1) = 2 * (2 ^ n)
BY PowersAssumption

LEMMA TwosAreNumbers == \A n \in 0 .. WordBits : 2 ^ n \in Nat \ {0}
<1> DEFINE S == {n \in 0 .. WordBits : 2 ^ n \in Nat \ {0}}
<1>1. 0 \in S
  BY PowersAssumption, Sizes
<1>2. ASSUME NEW n \in 0 .. WordBits - 1, n \in S PROVE n + 1 \in S
  <2>1. n + 1 \in 0 .. WordBits /\ 2 ^ (n + 1) = 2 * (2 ^ n) /\ 2 ^ n \in Nat \ {0}
    BY <1>2, TwoUp, Sizes
  <2> QED BY <2>1
<1>3. 0 .. WordBits \subseteq S
  <2> HIDE DEF S
  <2> QED BY <1>1, <1>2, SetInductionUpTo, Sizes
<1> QED BY <1>3

\* The power of a sum.
LEMMA TwosMultiply ==
    ASSUME NEW m \in Nat, NEW n \in Nat, m + n <= WordBits
    PROVE  2 ^ (m + n) = (2 ^ m) * (2 ^ n)
<1> DEFINE S == {k \in 0 .. n : 2 ^ (m + k) = (2 ^ m) * (2 ^ k)}
<1>1. m \in 0 .. WordBits /\ 2 ^ m \in Nat \ {0}
  BY TwosAreNumbers, Sizes
<1>2. 0 \in S
  <2>1. m + 0 = m /\ 2 ^ 0 = 1
    BY PowersAssumption
  <2> DEFINE p == 2 ^ m
  <2>2. p = p * 1
    BY <1>1
  <2> QED BY <1>1, <2>1, <2>2
<1>3. ASSUME NEW k \in 0 .. n - 1, k \in S PROVE k + 1 \in S
  <2>1. /\ k \in 0 .. WordBits - 1 /\ m + k \in 0 .. WordBits - 1 /\ k \in 0 .. WordBits
        /\ m + (k + 1) = (m + k) + 1
    BY Sizes
  <2>2. 2 ^ (k + 1) = 2 * (2 ^ k) /\ 2 ^ ((m + k) + 1) = 2 * (2 ^ (m + k))
        /\ 2 ^ (m + k) = (2 ^ m) * (2 ^ k) /\ 2 ^ k \in Nat
    BY <1>3, <2>1, TwoUp, TwosAreNumbers
  <2>3. \A a, b \in Nat : 2 * (a * b) = a * (2 * b)
    OBVIOUS
  <2>4. 2 * ((2 ^ m) * (2 ^ k)) = (2 ^ m) * (2 * (2 ^ k))
    BY <1>1, <2>2, <2>3
  <2>5. 2 ^ (m + (k + 1)) = (2 ^ m) * (2 ^ (k + 1))
    BY <2>1, <2>2, <2>4, Zenon
  <2> QED BY <2>5
<1>4. 0 .. n \subseteq S
  <2> HIDE DEF S
  <2> QED BY <1>2, <1>3, SetInductionUpTo
<1> QED BY <1>4

LEMMA TwosGrow ==
    ASSUME NEW m \in 0 .. WordBits, NEW n \in 0 .. m PROVE 2 ^ n <= 2 ^ m
<1>1. 2 ^ ((m - n) + n) = (2 ^ (m - n)) * (2 ^ n)
  <2>1. m - n \in Nat /\ n \in Nat /\ (m - n) + n <= WordBits
    BY Sizes
  <2> QED BY <2>1, TwosMultiply
<1>2. 2 ^ (m - n) \in Nat \ {0} /\ 2 ^ n \in Nat \ {0}
  <2>1. m - n \in 0 .. WordBits /\ n \in 0 .. WordBits
    BY Sizes
  <2> QED BY <2>1, TwosAreNumbers
<1>3. \A a, b \in Nat \ {0} : b <= a * b
  OBVIOUS
<1>4. (m - n) + n = m
  OBVIOUS
<1> QED BY <1>1, <1>2, <1>3, <1>4

\* The powers of ten that a word or a fraction needs.
Tens == (WordBits \div 3) + Precision + 1

LEMMA TenUp == /\ Tens \in Nat /\ Precision \in 0 .. Tens
               /\ 10 ^ 0 = 1 /\ \A n \in 0 .. Tens - 1 : 10 ^ (n + 1) = 10 * (10 ^ n)
<1>1. WordBits \div 3 \in Nat
  BY Sizes
<1>2. Tens \in Nat /\ Precision \in 0 .. Tens /\ Tens - 1 = (WordBits \div 3) + Precision
  BY <1>1, Sizes DEF Tens
<1> QED BY <1>2, PowersAssumption

LEMMA TensAreNumbers == \A n \in 0 .. Tens : 10 ^ n \in Nat \ {0}
<1> DEFINE S == {n \in 0 .. Tens : 10 ^ n \in Nat \ {0}}
<1>1. 0 \in S
  BY TenUp
<1>2. ASSUME NEW n \in 0 .. Tens - 1, n \in S PROVE n + 1 \in S
  <2>1. n + 1 \in 0 .. Tens /\ 10 ^ (n + 1) = 10 * (10 ^ n) /\ 10 ^ n \in Nat \ {0}
    BY <1>2, TenUp
  <2> QED BY <2>1
<1>3. 0 .. Tens \subseteq S
  <2> HIDE DEF S
  <2> QED BY <1>1, <1>2, SetInductionUpTo, TenUp
<1> QED BY <1>3

LEMMA TensMultiply ==
    ASSUME NEW m \in Nat, NEW n \in Nat, m + n <= Tens
    PROVE  10 ^ (m + n) = (10 ^ m) * (10 ^ n)
<1> DEFINE S == {k \in 0 .. n : 10 ^ (m + k) = (10 ^ m) * (10 ^ k)}
<1>1. m \in 0 .. Tens /\ 10 ^ m \in Nat \ {0}
  BY TensAreNumbers, TenUp
<1>2. 0 \in S
  <2>1. m + 0 = m /\ 10 ^ 0 = 1
    BY TenUp
  <2> DEFINE p == 10 ^ m
  <2>2. p = p * 1
    BY <1>1
  <2> QED BY <1>1, <2>1, <2>2
<1>3. ASSUME NEW k \in 0 .. n - 1, k \in S PROVE k + 1 \in S
  <2>1. /\ k \in 0 .. Tens - 1 /\ m + k \in 0 .. Tens - 1 /\ k \in 0 .. Tens
        /\ m + (k + 1) = (m + k) + 1
    BY TenUp
  <2>2. 10 ^ (k + 1) = 10 * (10 ^ k) /\ 10 ^ ((m + k) + 1) = 10 * (10 ^ (m + k))
        /\ 10 ^ (m + k) = (10 ^ m) * (10 ^ k) /\ 10 ^ k \in Nat
    BY <1>3, <2>1, TenUp, TensAreNumbers
  <2>3. \A a, b \in Nat : 10 * (a * b) = a * (10 * b)
    OBVIOUS
  <2>4. 10 * ((10 ^ m) * (10 ^ k)) = (10 ^ m) * (10 * (10 ^ k))
    BY <1>1, <2>2, <2>3
  <2>5. 10 ^ (m + (k + 1)) = (10 ^ m) * (10 ^ (k + 1))
    BY <2>1, <2>2, <2>4, Zenon
  <2> QED BY <2>5
<1>4. 0 .. n \subseteq S
  <2> HIDE DEF S
  <2> QED BY <1>2, <1>3, SetInductionUpTo
<1> QED BY <1>4

LEMMA TensGrow ==
    ASSUME NEW m \in 0 .. Tens, NEW n \in 0 .. m PROVE 10 ^ n <= 10 ^ m
<1>1. 10 ^ ((m - n) + n) = (10 ^ (m - n)) * (10 ^ n)
  <2>1. m - n \in Nat /\ n \in Nat /\ (m - n) + n <= Tens
    BY TenUp
  <2> QED BY <2>1, TensMultiply
<1>2. 10 ^ (m - n) \in Nat \ {0} /\ 10 ^ n \in Nat \ {0}
  <2>1. m - n \in 0 .. Tens /\ n \in 0 .. Tens
    BY TenUp
  <2> QED BY <2>1, TensAreNumbers
<1>3. \A a, b \in Nat \ {0} : b <= a * b
  OBVIOUS
<1>4. (m - n) + n = m
  OBVIOUS
<1> QED BY <1>1, <1>2, <1>3, <1>4

LEMMA Words ==
    /\ MinWord \in Nat \ {0} /\ 2 ^ WordBits = 2 * MinWord /\ 10 ^ Precision \in Nat
<1>1. WordBits - 1 \in 0 .. WordBits /\ WordBits - 1 \in 0 .. WordBits - 1
      /\ (WordBits - 1) + 1 = WordBits
  BY Sizes
<1>2. 2 ^ ((WordBits - 1) + 1) = 2 * (2 ^ (WordBits - 1)) /\ 2 ^ (WordBits - 1) \in Nat \ {0}
  BY <1>1, TwoUp, TwosAreNumbers
<1> QED BY <1>1, <1>2, TenUp, TensAreNumbers DEF MinWord

LEMMA CallsTyped ==
    ASSUME NEW c \in Calls PROVE c.fmt \in Seq(Char) /\ c.args \in Seq(Arguments)
BY PrintfAssumption

-----------------------------------------------------------------------------
(* What the caller leaves in the registers and on the stack *)

LEMMA NthTyped ==
    ASSUME NEW args \in Seq(Arguments), NEW places \in SUBSET DOMAIN args, NEW n
    PROVE  Nth(args, places, n) \in Slots
<1> DEFINE nth == {i \in places : Cardinality({j \in places : j < i}) = n - 1}
<1>1. CASE nth = {}
  BY <1>1 DEF Nth, Slots
<1>2. CASE nth # {}
  <2>1. (CHOOSE i \in nth : TRUE) \in nth
    BY <1>2
  <2>2. (CHOOSE i \in nth : TRUE) \in DOMAIN args
    BY <2>1
  <2>3. Nth(args, places, n) = args[CHOOSE i \in nth : TRUE]
    BY <1>2 DEF Nth
  <2> HIDE DEF nth
  <2> QED BY <2>2, <2>3 DEF Slots
<1> QED BY <1>1, <1>2

LEMMA CallerRegsTyped ==
    ASSUME NEW args \in Seq(Arguments)
    PROVE  CallerRegs(args) \in Registry /\ CallerRegs(args).rax \in Nat
<1>1. \A k : OfKind(args, k) \in SUBSET DOMAIN args
  BY DEF OfKind
<1>2. \A k, n : Nth(args, OfKind(args, k), n) \in Slots
  BY <1>1, NthTyped
<1>3. Cardinality(OfKind(args, "float")) \in Nat
  <2>1. DOMAIN args = 1 .. Len(args) /\ Len(args) \in Nat
    OBVIOUS
  <2>2. IsFiniteSet(1 .. Len(args))
    BY <2>1, FS_Interval
  <2>3. IsFiniteSet(OfKind(args, "float"))
    BY <1>1, <2>1, <2>2, FS_Subset
  <2> QED BY <2>3, FS_CardinalityType
<1> DEFINE ints == [n \in 1 .. IntRegs |-> Nth(args, OfKind(args, "int"), n)]
           xmm == [n \in 1 .. FloatRegs |-> Nth(args, OfKind(args, "float"), n)]
           count == Cardinality(OfKind(args, "float"))
           rax == IF count < FloatRegs THEN count ELSE FloatRegs
<1>4. ints \in [1 .. IntRegs -> Slots] /\ xmm \in [1 .. FloatRegs -> Slots]
  BY <1>2
<1>5. rax \in Nat
  BY <1>3, Sizes
<1>6. CallerRegs(args) = [ints |-> ints, xmm |-> xmm, rax |-> rax, rbx |-> "caller's rbx",
                          r12 |-> "caller's r12", r9 |-> Junk]
  BY DEF CallerRegs
<1> HIDE DEF ints, xmm, rax, count
<1> DEFINE Rbx == Nat \cup {"caller's rbx"}
           R12 == Nat \cup {"caller's r12"}
           Rax == Nat \cup {Junk}
           R9 == Int \cup {Junk}
           Ints == [1 .. IntRegs -> Slots]
           Xmm == [1 .. FloatRegs -> Slots]
<1>7. rax \in Rax /\ Junk \in R9 /\ "caller's rbx" \in Rbx /\ "caller's r12" \in R12
  BY <1>5
<1>8. ints \in Ints /\ xmm \in Xmm
  BY <1>4
<1>9. Registry = [ints : Ints, xmm : Xmm, rax : Rax, rbx : Rbx, r12 : R12, r9 : R9]
  BY DEF Registry
<1> HIDE DEF Rbx, R12, Rax, R9, Ints, Xmm
<1>10. [ints |-> ints, xmm |-> xmm, rax |-> rax, rbx |-> "caller's rbx",
        r12 |-> "caller's r12", r9 |-> Junk]
          \in [ints : Ints, xmm : Xmm, rax : Rax, rbx : Rbx, r12 : R12, r9 : R9]
  BY <1>7, <1>8
<1>11. CallerRegs(args).rax \in Nat
  <2>1. CallerRegs(args).rax = rax
    BY Zenon DEF CallerRegs, rax, count
  <2> QED BY <1>5, <2>1
<1> QED BY <1>6, <1>9, <1>10, <1>11

-----------------------------------------------------------------------------
(* The output buffer *)

\* A write that is no longer than the buffer and ends at a newline or is full.
WholeLines(w) ==
    /\ w \in Seq(Char) /\ Len(w) <= BufferSize
    /\ \A i \in DOMAIN w : w[i] = Newline => i = Len(w)
    /\ (w # <<>> /\ w[Len(w)] = Newline) \/ Len(w) = BufferSize

\* What is still in the buffer holds no newline: one would have been written.
Pending(w) == /\ w \in Seq(Char) /\ Len(w) <= BufferSize
              /\ \A i \in DOMAIN w : w[i] # Newline

WritesWhole(o) ==
    /\ o \in Output /\ Pending(o.buffer)
    /\ \A n \in DOMAIN o.writes : WholeLines(o.writes[n])

\* Writing the buffer adds it to the writes and leaves it empty.
LEMMA BufferForced ==
    ASSUME NEW o \in Output
    PROVE  /\ forcePrintBuffer(o) \in Output /\ forcePrintBuffer(o).buffer = <<>>
           /\ Len(forcePrintBuffer(o).writes) = Len(o.writes) + 1
           /\ forcePrintBuffer(o).writes[Len(o.writes) + 1] = o.buffer
           /\ \A n \in 1 .. Len(o.writes) : forcePrintBuffer(o).writes[n] = o.writes[n]
<1>1. o.buffer \in Seq(Char) /\ o.writes \in Seq(Seq(Char))
  BY DEF Output
<1>2. /\ forcePrintBuffer(o).buffer = <<>>
      /\ forcePrintBuffer(o).writes = Append(o.writes, o.buffer)
  BY DEF forcePrintBuffer
<1>3. Append(o.writes, o.buffer) \in Seq(Seq(Char))
  BY <1>1
<1>4. forcePrintBuffer(o) \in Output
  BY <1>1, <1>3 DEF forcePrintBuffer, Output
<1> QED BY <1>1, <1>2, <1>4

LEMMA WholeBufferForced ==
    ASSUME NEW o, o \in Output, WholeLines(o.buffer),
           \A n \in DOMAIN o.writes : WholeLines(o.writes[n])
    PROVE  WritesWhole(forcePrintBuffer(o))
<1> DEFINE f == forcePrintBuffer(o)
<1>1. /\ f \in Output /\ f.buffer = <<>>
      /\ Len(f.writes) = Len(o.writes) + 1
      /\ f.writes[Len(o.writes) + 1] = o.buffer
      /\ \A n \in 1 .. Len(o.writes) : f.writes[n] = o.writes[n]
  BY BufferForced
<1> HIDE DEF f
<1>2. Len(o.writes) \in Nat /\ DOMAIN o.writes = 1 .. Len(o.writes)
      /\ DOMAIN f.writes = 1 .. Len(f.writes)
  BY <1>1 DEF Output
<1>3. ASSUME NEW n \in DOMAIN f.writes PROVE WholeLines(f.writes[n])
  <2>1. n = Len(o.writes) + 1 \/ n \in 1 .. Len(o.writes)
    BY <1>1, <1>2
  <2> QED BY <1>1, <1>2, <2>1, Zenon
<1>4. Pending(<<>>)
  BY Sizes DEF Pending
<1>5. WritesWhole(f)
  BY <1>1, <1>3, <1>4, Zenon DEF WritesWhole
<1> QED BY <1>5 DEF f

\* One character keeps the lines whole, whether the buffer is full or not.
LEMMA CharKeepsLinesWhole ==
    ASSUME NEW o, WritesWhole(o), NEW c \in Char PROVE WritesWhole(printChar(o, c))
<1> DEFINE room == IF Len(o.buffer) < BufferSize THEN o ELSE forcePrintBuffer(o)
           added == [room EXCEPT !.buffer = Append(@, c)]
<1>1. WritesWhole(room) /\ Len(room.buffer) < BufferSize
  <2>1. CASE Len(o.buffer) < BufferSize
    BY <2>1
  <2>2. CASE ~(Len(o.buffer) < BufferSize)
    <3>1. o \in Output /\ o.buffer \in Seq(Char)
      BY DEF WritesWhole, Output
    <3>2. WholeLines(o.buffer)
      <4>1. Len(o.buffer) = BufferSize
        BY <2>2, <3>1, Sizes DEF WritesWhole, Pending
      <4> QED BY <3>1, <4>1, Sizes DEF WholeLines, WritesWhole, Pending
    <3>3. WritesWhole(forcePrintBuffer(o))
      BY <3>1, <3>2, WholeBufferForced DEF WritesWhole
    <3>4. forcePrintBuffer(o).buffer = <<>>
      BY DEF forcePrintBuffer
    <3> QED BY <2>2, <3>3, <3>4, Sizes
  <2> QED BY <2>1, <2>2
<1>2. room \in Output /\ room.buffer \in Seq(Char) /\ Pending(room.buffer)
  BY <1>1 DEF WritesWhole, Output
<1>3. printChar(o, c) = IF c = Newline THEN forcePrintBuffer(added) ELSE added
  BY DEF printChar
<1> HIDE DEF room
<1>4. added \in Output /\ added.buffer = Append(room.buffer, c) /\ added.writes = room.writes
  <2>1. Append(room.buffer, c) \in Seq(Char) /\ room.writes \in Seq(Seq(Char))
    BY <1>2 DEF Output
  <2>2. room = [buffer |-> room.buffer, writes |-> room.writes]
    BY <1>2 DEF Output
  <2>3. added = [buffer |-> Append(room.buffer, c), writes |-> room.writes]
    BY <2>2
  <2> HIDE DEF added
  <2> QED BY <2>1, <2>3 DEF Output
<1>5. /\ Len(added.buffer) = Len(room.buffer) + 1 /\ added.buffer \in Seq(Char)
      /\ Len(added.buffer) <= BufferSize
      /\ added.buffer[Len(added.buffer)] = c
      /\ \A i \in DOMAIN added.buffer : i # Len(added.buffer) => added.buffer[i] # Newline
  BY <1>1, <1>2, <1>4, Sizes DEF Pending
<1>6. \A n \in DOMAIN added.writes : WholeLines(added.writes[n])
  BY <1>1, <1>4 DEF WritesWhole
<1> HIDE DEF added
<1>7. CASE c = Newline
  <2>1. WholeLines(added.buffer)
    BY <1>2, <1>4, <1>5, <1>7 DEF WholeLines
  <2> QED BY <1>3, <1>4, <1>6, <1>7, <2>1, WholeBufferForced
<1>8. CASE c # Newline
  <2>1. Pending(added.buffer)
    BY <1>5, <1>8 DEF Pending
  <2> QED BY <1>3, <1>4, <1>6, <1>8, <2>1 DEF WritesWhole
<1> QED BY <1>7, <1>8

\* Printing a character leaves an output.
LEMMA CharPrinted == ASSUME NEW o \in Output, NEW c \in Char PROVE printChar(o, c) \in Output
<1> DEFINE room == IF Len(o.buffer) < BufferSize THEN o ELSE forcePrintBuffer(o)
           added == [room EXCEPT !.buffer = Append(@, c)]
<1>1. room \in Output
  BY BufferForced
<1> HIDE DEF room
<1>2. added \in Output
  <2>1. room.buffer \in Seq(Char)
    BY <1>1 DEF Output
  <2>2. PICK b : b = Append(room.buffer, c)
    OBVIOUS
  <2>3. b \in Seq(Char)
    BY <2>1, <2>2
  <2>4. added = [room EXCEPT !.buffer = b]
    BY <2>2
  <2> HIDE DEF added
  <2> QED BY <1>1, <2>3, <2>4 DEF Output
<1>3. printChar(o, c) = IF c = Newline THEN forcePrintBuffer(added) ELSE added
  BY DEF printChar, room
<1> HIDE DEF added
<1> QED BY <1>2, <1>3, BufferForced

\* A text is printed character by character.
LEMMA PrintedUpTo ==
    ASSUME NEW o \in Output, NEW text \in Seq(Char)
    PROVE  \E f : /\ f[0] = o /\ f[Len(text)] = printString(o, text)
                  /\ \A n \in 1 .. Len(text) : f[n] = printChar(f[n - 1], text[n])
<1> DEFINE N == Len(text)
           step == [p \in (0 .. N - 1) \X Output |-> printChar(p[2], text[p[1] + 1])]
           IsUpTo(u) == u = [n \in 0 .. N |-> IF n = 0 THEN o ELSE printChar(u[n - 1], text[n])]
<1>1. N \in Nat /\ \A n \in 1 .. N : text[n] \in Char
  OBVIOUS
<1>2. \A n \in 0 .. N - 1, u \in Output : step[<<n, u>>] = printChar(u, text[n + 1])
  OBVIOUS
<1>3. ASSUME NEW n \in 0 .. N - 1, NEW u \in Output PROVE step[<<n, u>>] \in Output
  <2>1. n + 1 \in 1 .. N
    BY <1>1
  <2>2. printChar(u, text[n + 1]) \in Output
    BY <1>1, <2>1, CharPrinted
  <2> HIDE DEF step
  <2> QED BY <1>2, <2>2
<1> HIDE DEF N, step
<1>4. IsRecursionUpTo(N, Output, o, step)
  BY <1>3, Zenon DEF IsRecursionUpTo
<1>5. PICK g : RecursUpTo(g, N, Output, o, step)
  BY <1>1, <1>4, RecursionUpTo
<1>6. IsUpTo(g)
  <2>1. ASSUME NEW n \in 0 .. N, n # 0 PROVE g[n] = printChar(g[n - 1], text[n])
    <3>1. n - 1 \in 0 .. N - 1 /\ n - 1 \in 0 .. N /\ (n - 1) + 1 = n
      BY <1>1, <2>1
    <3>2. g[n] = step[<<n - 1, g[n - 1]>>] /\ g[n - 1] \in Output
      BY <1>5, <3>1 DEF RecursUpTo
    <3> QED BY <1>2, <3>1, <3>2
  <2>2. \A n \in 0 .. N : g[n] = IF n = 0 THEN o ELSE printChar(g[n - 1], text[n])
    BY <1>5, <2>1 DEF RecursUpTo
  <2> QED BY <1>5, <2>2 DEF RecursUpTo
<1> DEFINE f == CHOOSE u : IsUpTo(u)
<1>7. IsUpTo(f)
  BY <1>6
<1>8. printString(o, text) = f[N]
  BY DEF printString, N
<1> HIDE DEF f
<1>9. f[0] = o /\ \A n \in 1 .. N : f[n] = printChar(f[n - 1], text[n])
  BY <1>1, <1>7
<1> QED BY <1>8, <1>9 DEF N

\* A text leaves whole lines as well.
LEMMA StringKeepsLinesWhole ==
    ASSUME NEW o, WritesWhole(o), NEW text \in Seq(Char)
    PROVE  WritesWhole(printString(o, text))
<1> DEFINE N == Len(text)
<1>1. N \in Nat /\ \A n \in 1 .. N : text[n] \in Char
  OBVIOUS
<1>2. o \in Output
  BY DEF WritesWhole
<1>3. PICK f : /\ f[0] = o /\ f[N] = printString(o, text)
               /\ \A n \in 1 .. N : f[n] = printChar(f[n - 1], text[n])
  BY <1>2, PrintedUpTo
<1> HIDE DEF N
<1> DEFINE S == {n \in 0 .. N : WritesWhole(f[n])}
<1>4. 0 \in S
  BY <1>1, <1>3
<1>5. ASSUME NEW n \in 0 .. N - 1, n \in S PROVE n + 1 \in S
  <2>1. n + 1 \in 1 .. N /\ n + 1 \in 0 .. N /\ (n + 1) - 1 = n
    BY <1>1
  <2>2. f[n + 1] = printChar(f[n], text[n + 1])
    BY <1>3, <2>1
  <2>3. WritesWhole(f[n + 1])
    BY <1>1, <1>5, <2>1, <2>2, CharKeepsLinesWhole
  <2> QED BY <2>1, <2>3
<1>6. 0 .. N \subseteq S
  <2> HIDE DEF S
  <2> QED BY <1>1, <1>4, <1>5, SetInductionUpTo
<1> QED BY <1>1, <1>3, <1>6

-----------------------------------------------------------------------------
(* What the conversions print is text *)

\* The quotient by ten is smaller and the remainder is a digit.
LEMMA ByTen == \A w \in Nat : /\ w % 10 \in 0 .. 9 /\ w \div 10 \in Nat
                             /\ w # 0 => w \div 10 < w
OBVIOUS

(* The digits exist: read with ever more steps allowed, a number's digits  *)
(* no longer change once there are as many steps as the number is large.   *)
LEMMA DigitsTyped ==
    /\ DecimalDigits \in [Nat -> Seq(0 .. 9)]
    /\ \A w \in Nat : DecimalDigits[w] = IF w = 0 THEN <<>>
                                         ELSE Append(DecimalDigits[w \div 10], w % 10)
<1> DEFINE V == [Nat -> Seq(0 .. 9)]
           Next1(u) == [w \in Nat |-> IF w = 0 THEN <<>> ELSE Append(u[w \div 10], w % 10)]
           base == [w \in Nat |-> <<>>]
           step == [p \in Nat \X V |-> Next1(p[2])]
           IsDigits(f) == f = Next1(f)
<1>1. base \in V
  OBVIOUS
<1>2. ASSUME NEW u \in V PROVE Next1(u) \in V
  <2>1. ASSUME NEW w \in Nat, w # 0 PROVE Append(u[w \div 10], w % 10) \in Seq(0 .. 9)
    BY <2>1, ByTen
  <2>2. <<>> \in Seq(0 .. 9)
    OBVIOUS
  <2> QED BY <2>1, <2>2
<1>3. \A n \in Nat, u \in V : step[<<n, u>>] = Next1(u)
  OBVIOUS
<1>4. \A u \in V, w \in Nat : Next1(u)[w] = IF w = 0 THEN <<>> ELSE Append(u[w \div 10], w % 10)
  OBVIOUS
<1> HIDE DEF V, Next1, base, step
<1>5. IsRecursion(V, base, step)
  BY <1>1, <1>2, <1>3 DEF IsRecursion
<1>6. PICK g : Recurs(g, V, base, step)
  BY <1>5, RecursionExists
<1>7. \A n \in Nat : g[n] \in V /\ g[n + 1] \in V
  BY <1>6 DEF Recurs
<1>8. \A n \in Nat, w \in Nat :
         g[n + 1][w] = IF w = 0 THEN <<>> ELSE Append(g[n][w \div 10], w % 10)
  <2>1. ASSUME NEW n \in Nat PROVE g[n + 1] = Next1(g[n])
    BY <1>3, <1>6, <1>7 DEF Recurs
  <2> QED BY <1>4, <1>7, <2>1
<1>9. g[0] = base /\ g[0][0] = <<>>
  BY <1>6 DEF Recurs, base
<1> DEFINE S == {n \in Nat : \A w \in 0 .. n : g[n + 1][w] = g[n][w]}
<1>10. Nat \subseteq S
  <2>1. 0 \in S
    BY <1>8, <1>9
  <2>2. ASSUME NEW n \in Nat, n \in S PROVE n + 1 \in S
    <3>1. ASSUME NEW w \in 0 .. n + 1 PROVE g[(n + 1) + 1][w] = g[n + 1][w]
      <4>1. w \in Nat /\ n + 1 \in Nat
        OBVIOUS
      <4>2. /\ g[(n + 1) + 1][w] = IF w = 0 THEN <<>> ELSE Append(g[n + 1][w \div 10], w % 10)
            /\ g[n + 1][w] = IF w = 0 THEN <<>> ELSE Append(g[n][w \div 10], w % 10)
        BY <1>8, <4>1
      <4>3. CASE w = 0
        BY <4>2, <4>3
      <4>4. CASE w # 0
        <5>1. w \div 10 \in 0 .. n
          BY <4>1, <4>4, ByTen
        <5>2. g[n + 1][w \div 10] = g[n][w \div 10]
          BY <2>2, <5>1
        <5> QED BY <4>2, <4>4, <5>2
      <4> QED BY <4>3, <4>4
    <3> QED BY <3>1
  <2> HIDE DEF S
  <2> QED BY <2>1, <2>2, SetInduction
<1>11. \A v \in Nat, k \in Nat : g[v + k][v] = g[v][v]
  <2> SUFFICES ASSUME NEW v \in Nat PROVE \A k \in Nat : g[v + k][v] = g[v][v]
    OBVIOUS
  <2> DEFINE U == {k \in Nat : g[v + k][v] = g[v][v]}
  <2>1. 0 \in U
    OBVIOUS
  <2>2. ASSUME NEW k \in Nat, k \in U PROVE k + 1 \in U
    <3>1. v + k \in Nat /\ v \in 0 .. v + k /\ v + (k + 1) = (v + k) + 1
      OBVIOUS
    <3>2. g[(v + k) + 1][v] = g[v + k][v]
      BY <1>10, <3>1
    <3>3. g[v + k][v] = g[v][v]
      BY <2>2
    <3> QED BY <3>1, <3>2, <3>3
  <2>3. Nat \subseteq U
    <3> HIDE DEF U
    <3> QED BY <2>1, <2>2, SetInduction
  <2> QED BY <2>3
<1> DEFINE h == [w \in Nat |-> g[w][w]]
<1>12. h \in V
  <2>1. \A w \in Nat : g[w][w] \in Seq(0 .. 9)
    BY <1>7 DEF V
  <2> QED BY <2>1 DEF V
<1>13. IsDigits(h)
  <2>1. ASSUME NEW w \in Nat
        PROVE  h[w] = IF w = 0 THEN <<>> ELSE Append(h[w \div 10], w % 10)
    <3>1. CASE w = 0
      BY <1>9, <3>1
    <3>2. CASE w # 0
      <4>1. w - 1 \in Nat /\ (w - 1) + 1 = w /\ w \div 10 \in Nat
            /\ w - 1 - (w \div 10) \in Nat
            /\ (w \div 10) + (w - 1 - (w \div 10)) = w - 1
        BY <3>2, ByTen
      <4>2. g[w][w] = Append(g[w - 1][w \div 10], w % 10)
        <5>1. g[(w - 1) + 1][w] = Append(g[w - 1][w \div 10], w % 10)
          BY <1>8, <3>2, <4>1
        <5> QED BY <4>1, <5>1
      <4>3. g[w - 1][w \div 10] = g[w \div 10][w \div 10]
        <5>1. g[(w \div 10) + (w - 1 - (w \div 10))][w \div 10] = g[w \div 10][w \div 10]
          BY <1>11, <4>1
        <5> QED BY <4>1, <5>1
      <4>4. h[w] = g[w][w] /\ h[w \div 10] = g[w \div 10][w \div 10]
        BY <4>1
      <4> QED BY <3>2, <4>2, <4>3, <4>4
    <3> QED BY <3>1, <3>2
  <2>2. h = [w \in Nat |-> h[w]]
    OBVIOUS
  <2> HIDE DEF h
  <2> QED BY <2>1, <2>2 DEF Next1
<1>14. IsDigits(DecimalDigits)
  <2>1. DecimalDigits = CHOOSE f : IsDigits(f)
    BY DEF DecimalDigits, Next1
  <2> QED BY <1>13, <2>1
<1> DEFINE W == {w \in Nat : \A v \in 0 .. w : DecimalDigits[v] \in Seq(0 .. 9)}
<1>15. /\ DOMAIN DecimalDigits = Nat
       /\ DecimalDigits = [w \in Nat |-> DecimalDigits[w]]
       /\ \A w \in Nat : DecimalDigits[w] = IF w = 0 THEN <<>>
                                           ELSE Append(DecimalDigits[w \div 10], w % 10)
  <2>1. \A f : IsDigits(f) => /\ DOMAIN f = Nat /\ f = [w \in Nat |-> f[w]]
                              /\ \A w \in Nat : f[w] = IF w = 0 THEN <<>>
                                                      ELSE Append(f[w \div 10], w % 10)
    BY DEF Next1
  <2> QED BY <1>14, <2>1
<1>16. Nat \subseteq W
  <2>1. 0 \in W
    <3>1. DecimalDigits[0] = <<>>
      BY <1>15, Zenon
    <3>2. DecimalDigits[0] \in Seq(0 .. 9)
      BY <3>1
    <3>3. \A v \in 0 .. 0 : v = 0
      OBVIOUS
    <3> QED BY <3>2, <3>3
  <2>2. ASSUME NEW w \in Nat, w \in W PROVE w + 1 \in W
    <3>1. (w + 1) \div 10 \in 0 .. w /\ (w + 1) % 10 \in 0 .. 9 /\ w + 1 # 0 /\ w + 1 \in Nat
      BY ByTen
    <3>2. DecimalDigits[w + 1] = Append(DecimalDigits[(w + 1) \div 10], (w + 1) % 10)
      BY <1>15, <3>1
    <3>3. DecimalDigits[(w + 1) \div 10] \in Seq(0 .. 9)
      BY <2>2, <3>1
    <3>4. DecimalDigits[w + 1] \in Seq(0 .. 9)
      BY <3>1, <3>2, <3>3
    <3> QED BY <2>2, <3>4
  <2> HIDE DEF W
  <2> QED BY <2>1, <2>2, SetInduction
<1>17. DecimalDigits \in [Nat -> Seq(0 .. 9)]
  BY <1>15, <1>16
<1> QED BY <1>15, <1>17, Zenon

LEMMA DigitIsCharacter == \A d \in 0 .. 15 : printDigit(d) \in Char
BY CharAssumption DEF printDigit

\* Two texts one after the other are a text.
LEMMA Joined == \A s, t \in Seq(Char) : s \o t \in Seq(Char)
OBVIOUS

LEMMA DecimalIsText ==
    ASSUME NEW w \in 0 .. 2 ^ WordBits - 1, NEW r8 \in Nat
    PROVE  printDecimalNumber(w, r8) \in Seq(Char)
<1> DEFINE negative == w >= MinWord
           digits == DecimalDigits[IF negative THEN 2 ^ WordBits - w ELSE w]
           wanted == IF r8 = 0 THEN 1 ELSE r8
           zeros == IF Len(digits) < wanted THEN wanted - Len(digits) ELSE 0
           sign == IF negative THEN <<"-">> ELSE <<>>
           padding == [i \in 1 .. zeros |-> "0"]
           names == [i \in DOMAIN digits |-> printDigit(digits[i])]
<1>1. (IF negative THEN 2 ^ WordBits - w ELSE w) \in Nat
  BY Words
<1>2. digits \in Seq(0 .. 9)
  <2> HIDE DEF negative
  <2> QED BY <1>1, DigitsTyped
<1> HIDE DEF digits
<1>3. zeros \in Nat
  BY <1>2
<1> HIDE DEF zeros
<1>4. sign \in Seq(Char) /\ padding \in Seq(Char)
  <2>1. padding \in Seq(Char)
    BY <1>3, CharAssumption
  <2>2. <<>> \in Seq(Char) /\ <<"-">> \in Seq(Char)
    BY CharAssumption
  <2> QED BY <2>1, <2>2
<1>5. names \in Seq(Char)
  <2>1. \A i \in DOMAIN digits : printDigit(digits[i]) \in Char
    BY <1>2, DigitIsCharacter
  <2>2. DOMAIN digits = 1 .. Len(digits) /\ Len(digits) \in Nat
    BY <1>2
  <2> QED BY <2>1, <2>2
<1>6. printDecimalNumber(w, r8) = sign \o padding \o names
  BY DEF printDecimalNumber, digits, zeros
<1> HIDE DEF sign, padding, names
<1> QED BY <1>4, <1>5, <1>6, Joined

LEMMA RotatedTyped ==
    ASSUME NEW w \in Int, NEW n \in Int PROVE RotateLeft(w, n) \in Int
<1> DEFINE k == n % WordBits
<1>1. k \in 0 .. WordBits /\ WordBits - k \in 0 .. WordBits /\ WordBits \in 0 .. WordBits
  BY Sizes
<1> HIDE DEF k
<1>2. 2 ^ k \in Nat \ {0} /\ 2 ^ (WordBits - k) \in Nat \ {0} /\ 2 ^ WordBits \in Nat \ {0}
  BY <1>1, TwosAreNumbers
<1>3. w * (2 ^ k) \in Int /\ w \div (2 ^ (WordBits - k)) \in Int
  BY <1>2
<1>4. (w * (2 ^ k)) % (2 ^ WordBits) \in Int
  BY <1>2, <1>3
<1>5. RotateLeft(w, n) = ((w * (2 ^ k)) % (2 ^ WordBits)) + (w \div (2 ^ (WordBits - k)))
  BY DEF RotateLeft, k
<1> QED BY <1>3, <1>4, <1>5

LEMMA XOBIsText ==
    ASSUME NEW w \in Int, NEW r8 \in {1, 3, 4} PROVE printXOBNumber(w, r8) \in Seq(Char)
<1> DEFINE n == WordBits \div r8
           top == RotateLeft(w, WordBits - (n - 1) * r8)
           digit(i) == RotateLeft(top, (i - 1) * r8) % (2 ^ r8)
           skipped == {i \in 1 .. n - 1 : \A j \in 1 .. i : digit(j) = 0}
           left == n - Cardinality(skipped)
<1>1. printXOBNumber(w, r8)
        = [i \in 1 .. left |-> printDigit(digit(i + Cardinality(skipped)))]
  BY DEF printXOBNumber
<1>2. n \in Nat \ {0}
  <2>1. WordBits \in Nat /\ WordBits >= 4
    BY PrintfAssumption
  <2> QED BY <2>1
<1>3. skipped \subseteq 1 .. n - 1
  OBVIOUS
<1> HIDE DEF n, skipped
<1>4. IsFiniteSet(1 .. n - 1) /\ Cardinality(1 .. n - 1) \in Nat
      /\ Cardinality(1 .. n - 1) <= n - 1
  <2>1. n - 1 \in Int /\ 1 \in Int
    BY <1>2
  <2>2. /\ IsFiniteSet(1 .. n - 1)
        /\ Cardinality(1 .. n - 1) = IF 1 > n - 1 THEN 0 ELSE (n - 1) - 1 + 1
    BY <2>1, FS_Interval
  <2> QED BY <1>2, <2>2
<1>5. /\ Cardinality(skipped) \in Nat /\ Cardinality(skipped) <= n - 1
  <2>1. IsFiniteSet(skipped) /\ Cardinality(skipped) <= Cardinality(1 .. n - 1)
    BY <1>3, <1>4, FS_Subset
  <2>2. Cardinality(skipped) \in Nat
    BY <2>1, FS_CardinalityType
  <2> QED BY <1>2, <1>4, <2>1, <2>2
<1>6. left \in Nat
  BY <1>2, <1>5
<1>7. ASSUME NEW i \in Int PROVE printDigit(digit(i)) \in Char
  <2>1. digit(i) \in 0 .. 15
    <3>1. top \in Int
      <4>1. WordBits - (n - 1) * r8 \in Int
        BY <1>2, Sizes
      <4> QED BY <4>1, RotatedTyped
    <3>2. (i - 1) * r8 \in Int
      OBVIOUS
    <3> HIDE DEF top
    <3>3. RotateLeft(top, (i - 1) * r8) \in Int
      BY <3>1, <3>2, RotatedTyped
    <3>4. 2 ^ 1 = 2 /\ 2 ^ 3 = 8 /\ 2 ^ 4 = 16
      OBVIOUS
    <3>5. digit(i) = RotateLeft(top, (i - 1) * r8) % (2 ^ r8)
      OBVIOUS
    <3>6. 2 ^ r8 \in {2, 8, 16}
      BY <3>4
    <3>7. \A x \in Int, m \in {2, 8, 16} : x % m \in 0 .. 15
      OBVIOUS
    <3> HIDE DEF digit
    <3> QED BY <3>3, <3>5, <3>6, <3>7
  <2> HIDE DEF digit
  <2> QED BY <2>1, DigitIsCharacter
<1> HIDE DEF left, digit
<1>8. \A i \in 1 .. left : printDigit(digit(i + Cardinality(skipped))) \in Char
  BY <1>5, <1>6, <1>7
<1> QED BY <1>1, <1>6, <1>8

\* The whole part of a double, or the number that stands for one too large.
LEMMA WholePart ==
    ASSUME NEW num \in Nat
    PROVE  /\ cvttsd2si(num) \in 0 .. 2 ^ WordBits - 1
           /\ (num - Signed(cvttsd2si(num)) * FloatUnit) * (10 ^ Precision) \in Nat
<1> DEFINE q == num \div FloatUnit
<1>1. q \in Nat /\ q * FloatUnit <= num
  BY Sizes
<1>2. MinWord \in Nat \ {0} /\ 2 ^ WordBits = 2 * MinWord /\ 10 ^ Precision \in Nat
  BY Words
<1> HIDE DEF q
<1>3. cvttsd2si(num) = IF q < MinWord THEN q ELSE MinWord
  BY DEF cvttsd2si, q
<1>4. cvttsd2si(num) \in 0 .. 2 ^ WordBits - 1
  BY <1>1, <1>2, <1>3
<1>5. num - Signed(cvttsd2si(num)) * FloatUnit \in Nat
  <2>1. CASE q < MinWord
    <3>1. Signed(cvttsd2si(num)) = q
      BY <1>1, <1>2, <1>3, <2>1 DEF Signed
    <3> QED BY <1>1, <3>1, Sizes
  <2>2. CASE ~(q < MinWord)
    <3>1. Signed(cvttsd2si(num)) = -MinWord
      BY <1>1, <1>2, <1>3, <2>2 DEF Signed
    <3>2. MinWord * FloatUnit \in Nat
      BY <1>2, Sizes
    <3>3. num - (-MinWord) * FloatUnit = num + MinWord * FloatUnit
      BY <1>2, Sizes
    <3> QED BY <3>1, <3>2, <3>3
  <2> QED BY <2>1, <2>2
<1>6. \A a, b \in Nat : a * b \in Nat
  OBVIOUS
<1> QED BY <1>2, <1>4, <1>5, <1>6

LEMMA FloatIsText ==
    ASSUME NEW d \in Slots, d.type = "double" PROVE FloatText(d) \in Seq(Char)
<1>1. (IF d.negative THEN <<"-">> ELSE <<>>) \in Seq(Char)
  BY CharAssumption
<1>2. <<".">> \in Seq(Char) /\ <<"i", "n", "f">> \in Seq(Char) /\ <<"n", "a", "n">> \in Seq(Char)
  BY CharAssumption
<1>3. ASSUME d.class = "finite" PROVE printfFloatingPointTruncated(d.num) \in Seq(Char)
  <2>1. d.num \in Nat
    BY <1>3 DEF Slots, Arguments, Junk
  <2> DEFINE whole == cvttsd2si(d.num)
             rest == d.num - Signed(whole) * FloatUnit
             part == cvttsd2si(rest * (10 ^ Precision))
  <2>2. whole \in 0 .. 2 ^ WordBits - 1 /\ rest * (10 ^ Precision) \in Nat
    BY <2>1, WholePart
  <2> HIDE DEF rest
  <2>3. part \in 0 .. 2 ^ WordBits - 1
    BY <2>2, WholePart
  <2> HIDE DEF whole, part
  <2>4. printDecimalNumber(whole, 0) \in Seq(Char)
        /\ printDecimalNumber(part, Precision) \in Seq(Char)
    BY <2>2, <2>3, DecimalIsText, Sizes
  <2>5. printfFloatingPointTruncated(d.num)
          = printDecimalNumber(whole, 0) \o <<".">> \o printDecimalNumber(part, Precision)
    BY DEF printfFloatingPointTruncated, whole, part, rest
  <2> QED BY <1>2, <2>4, <2>5, Joined
<1>4. FloatText(d) = (IF d.negative THEN <<"-">> ELSE <<>>)
        \o (IF d.class = "finite" THEN printfFloatingPointTruncated(d.num)
            ELSE IF d.class = "inf" THEN <<"i", "n", "f">> ELSE <<"n", "a", "n">>)
  BY DEF FloatText
<1>5. (IF d.class = "finite" THEN printfFloatingPointTruncated(d.num)
       ELSE IF d.class = "inf" THEN <<"i", "n", "f">> ELSE <<"n", "a", "n">>) \in Seq(Char)
  BY <1>2, <1>3
<1> QED BY <1>1, <1>4, <1>5, Joined

LEMMA SlotIsText ==
    ASSUME NEW a \in Slots, NEW letter \in {"c", "s", "x", "o", "b", "d", "f"}
    PROVE  SlotText(letter, a) \in Seq(Char)
<1>1. CASE a.type # TypeOf(letter)
  <2>1. SlotText(letter, a) = <<"?">>
    BY <1>1 DEF SlotText, Unsaid
  <2> QED BY <2>1, CharAssumption
<1>2. CASE a.type = TypeOf(letter)
  <2>1. /\ letter = "c" => a.v \in Char
        /\ letter = "s" => a.v \in Seq(Char)
        /\ letter \in {"x", "o", "b", "d"} => a.v \in 0 .. 2 ^ WordBits - 1
        /\ letter = "f" => a.type = "double"
    BY <1>2 DEF TypeOf, Slots, Arguments, Junk
  <2>2. CASE letter = "c"
    BY <1>2, <2>1, <2>2 DEF SlotText
  <2>3. CASE letter = "s"
    BY <1>2, <2>1, <2>3 DEF SlotText
  <2>4. CASE letter = "x"
    BY <1>2, <2>1, <2>4, XOBIsText DEF SlotText
  <2>5. CASE letter = "o"
    BY <1>2, <2>1, <2>5, XOBIsText DEF SlotText
  <2>6. CASE letter = "b"
    BY <1>2, <2>1, <2>6, XOBIsText DEF SlotText
  <2>7. CASE letter = "d"
    BY <1>2, <2>1, <2>7, DecimalIsText DEF SlotText
  <2>8. CASE letter = "f"
    BY <1>2, <2>1, <2>8, FloatIsText DEF SlotText
  <2> QED BY <2>2, <2>3, <2>4, <2>5, <2>6, <2>7, <2>8
<1> QED BY <1>1, <1>2

-----------------------------------------------------------------------------
(* The invariant *)

\* In the format loop: rbx counts the slots from one, r12 the doubles and r9 the
\* registers left, and xmm0 is the only xmm register that was written.
Reading(r) ==
    /\ r \in Registry /\ r.rbx \in Nat \ {0} /\ r.r12 \in Nat /\ r.r9 \in Int
    /\ \A i \in 2 .. FloatRegs : r.xmm[i] = frame.xmm[i]

CallKept == /\ pc \in {"idle", "format", "libc", "undefined"}
            /\ Args \in Seq(Arguments) /\ rsi \in Seq(Char)
            /\ frame = CallerRegs(Args)
            /\ pc = "format" => Reading(regs)

LinesWhole ==
    /\ out \in Output
    /\ pc = "idle" => out = [buffer |-> <<>>, writes |-> <<>>]
    /\ pc \in {"format", "undefined"} => WritesWhole(out)

PrintfInv == CallKept /\ LinesWhole /\ HandedOn /\ LinesGoOut

\* An update of one register keeps the others.
LEMMA RegistryRecord ==
    ASSUME NEW r \in Registry
    PROVE  /\ r = [ints |-> r.ints, xmm |-> r.xmm, rax |-> r.rax, rbx |-> r.rbx,
                   r12 |-> r.r12, r9 |-> r.r9]
           /\ r.ints \in [1 .. IntRegs -> Slots] /\ r.xmm \in [1 .. FloatRegs -> Slots]
           /\ r.rax \in Nat \cup {Junk} /\ r.rbx \in Nat \cup {"caller's rbx"}
           /\ r.r12 \in Nat \cup {"caller's r12"} /\ r.r9 \in Int \cup {Junk}
BY DEF Registry

LEMMA RegistryMade ==
    ASSUME NEW ints \in [1 .. IntRegs -> Slots], NEW xmm \in [1 .. FloatRegs -> Slots],
           NEW rax \in Nat \cup {Junk}, NEW rbx \in Nat, NEW r12 \in Nat, NEW r9 \in Int,
           NEW s, s = [ints |-> ints, xmm |-> xmm, rax |-> rax, rbx |-> rbx, r12 |-> r12, r9 |-> r9]
    PROVE  s \in Registry
<1> DEFINE Rbx == Nat \cup {"caller's rbx"}
           R12 == Nat \cup {"caller's r12"}
           Rax == Nat \cup {Junk}
           R9 == Int \cup {Junk}
           Ints == [1 .. IntRegs -> Slots]
           Xmm == [1 .. FloatRegs -> Slots]
<1>1. rax \in Rax /\ rbx \in Rbx /\ r12 \in R12 /\ r9 \in R9 /\ ints \in Ints /\ xmm \in Xmm
  OBVIOUS
<1>2. Registry = [ints : Ints, xmm : Xmm, rax : Rax, rbx : Rbx, r12 : R12, r9 : R9]
  BY DEF Registry
<1> HIDE DEF Rbx, R12, Rax, R9, Ints, Xmm
<1>3. [ints |-> ints, xmm |-> xmm, rax |-> rax, rbx |-> rbx, r12 |-> r12, r9 |-> r9]
         \in [ints : Ints, xmm : Xmm, rax : Rax, rbx : Rbx, r12 : R12, r9 : R9]
  BY <1>1
<1> QED BY <1>2, <1>3

LEMMA SlotTyped ==
    ASSUME CallKept, NEW n \in Nat \ {0} PROVE Slot(n) \in Slots
<1>1. frame.ints \in [1 .. IntRegs -> Slots]
  BY CallerRegsTyped, RegistryRecord DEF CallKept
<1>2. Spilled(Args) \in SUBSET DOMAIN Args
  BY DEF Spilled
<1>3. Nth(Args, Spilled(Args), n - IntRegs) \in Slots
  BY <1>2, NthTyped DEF CallKept
<1>4. n <= IntRegs => n \in 1 .. IntRegs
  BY Sizes
<1> QED BY <1>1, <1>3, <1>4 DEF Slot

\* Registers with another xmm0, count of slots, doubles and registers left.
Renewed(r, x, rbx, r12, r9) ==
    [ints |-> r.ints, xmm |-> [r.xmm EXCEPT ![1] = x], rax |-> r.rax,
     rbx |-> rbx, r12 |-> r12, r9 |-> r9]

LEMMA ReadOn ==
    ASSUME NEW r, Reading(r), NEW x \in Slots, NEW rbx \in Nat \ {0}, NEW r12 \in Nat,
           NEW r9 \in Int
    PROVE  /\ Reading(Renewed(r, x, rbx, r12, r9))
           /\ Renewed(r, x, rbx, r12, r9).xmm[1] = x
<1> DEFINE s == Renewed(r, x, rbx, r12, r9)
<1>1. r \in Registry
  BY DEF Reading
<1>2. /\ r.ints \in [1 .. IntRegs -> Slots] /\ r.xmm \in [1 .. FloatRegs -> Slots]
      /\ r.rax \in Nat \cup {Junk}
  BY <1>1, RegistryRecord
<1> DEFINE xmm == [r.xmm EXCEPT ![1] = x]
<1>3. /\ xmm \in [1 .. FloatRegs -> Slots] /\ xmm[1] = x
      /\ \A i \in 2 .. FloatRegs : xmm[i] = r.xmm[i]
  BY <1>2, Sizes
<1>4. s.xmm = xmm /\ s.rbx = rbx /\ s.r12 = r12 /\ s.r9 = r9
  BY DEF Renewed
<1>5. s = [ints |-> r.ints, xmm |-> xmm, rax |-> r.rax, rbx |-> rbx, r12 |-> r12, r9 |-> r9]
  BY DEF Renewed
<1> HIDE DEF xmm, s
<1>6. s \in Registry
  <2> DEFINE ints == r.ints
             rax == r.rax
  <2>1. ints \in [1 .. IntRegs -> Slots] /\ rax \in Nat \cup {Junk}
    BY <1>2
  <2>2. s = [ints |-> ints, xmm |-> xmm, rax |-> rax, rbx |-> rbx, r12 |-> r12, r9 |-> r9]
    BY <1>5
  <2>3. rbx \in Nat
    OBVIOUS
  <2> HIDE DEF ints, rax
  <2> QED BY <1>3, <2>1, <2>2, <2>3, RegistryMade
<1>7. Reading(s) /\ s.xmm[1] = x
  BY <1>3, <1>4, <1>6 DEF Reading
<1> QED BY <1>7 DEF s

LEMMA ExchangeReadsOn ==
    ASSUME CallKept, Reading(regs)
    PROVE  Reading(exchangeABIXMM(regs)) /\ exchangeABIXMM(regs).xmm[1] \in Slots
<1> DEFINE e == exchangeABIXMM(regs)
           s == [regs EXCEPT !.r9 = @ - 1]
           x0 == Slot(regs.rbx)
           Good(u) == Reading(u) /\ u.xmm[1] \in Slots
<1> SUFFICES Good(e)
  OBVIOUS
<1>1. PICK i, x, a, b, c, d :
         /\ regs = [ints |-> i, xmm |-> x, rax |-> a, rbx |-> b, r12 |-> c, r9 |-> d]
         /\ x \in [1 .. FloatRegs -> Slots] /\ b \in Nat \ {0} /\ c \in Nat /\ d \in Int
  <2>1. regs.xmm \in [1 .. FloatRegs -> Slots]
    BY RegistryRecord DEF Reading
  <2>2. regs = [ints |-> regs.ints, xmm |-> regs.xmm, rax |-> regs.rax, rbx |-> regs.rbx,
                r12 |-> regs.r12, r9 |-> regs.r9]
    BY RegistryRecord DEF Reading
  <2> QED BY <2>1, <2>2, Zenon DEF Reading
<1>2. b + 1 \in Nat \ {0} /\ c + 1 \in Nat /\ d - 1 \in Int /\ x[1] \in Slots
  BY <1>1, Sizes
<1>3. regs.ints = i /\ regs.xmm = x /\ regs.rax = a /\ regs.rbx = b /\ regs.r12 = c /\ regs.r9 = d
  BY <1>1
<1>4. s = [ints |-> i, xmm |-> x, rax |-> a, rbx |-> b, r12 |-> c, r9 |-> d - 1]
  BY <1>1
<1>5. x0 \in Slots
  BY <1>1, <1>3, SlotTyped
<1>6. FromStack(regs) = Renewed(regs, x0, b + 1, c + 1, d)
  <2>1. FromStack(regs) = [regs EXCEPT !.xmm[1] = x0, !.rbx = @ + 1, !.r12 = @ + 1]
    BY DEF FromStack
  <2> HIDE DEF x0
  <2>2. FromStack(regs) = [ints |-> i, xmm |-> [x EXCEPT ![1] = x0], rax |-> a,
                           rbx |-> b + 1, r12 |-> c + 1, r9 |-> d]
    BY <1>1, <2>1
  <2> QED BY <1>3, <2>2 DEF Renewed
<1>7. FromStack(s) = Renewed(regs, x0, b + 1, c + 1, d - 1)
  <2>1. s.rbx = regs.rbx
    BY <1>3, <1>4
  <2> HIDE DEF s
  <2>2. FromStack(s) = [s EXCEPT !.xmm[1] = x0, !.rbx = @ + 1, !.r12 = @ + 1]
    BY <2>1 DEF FromStack
  <2> HIDE DEF x0
  <2>3. FromStack(s) = [ints |-> i, xmm |-> [x EXCEPT ![1] = x0], rax |-> a,
                        rbx |-> b + 1, r12 |-> c + 1, r9 |-> d - 1]
    BY <1>4, <2>2
  <2> QED BY <1>3, <2>3 DEF Renewed
<1>8. [s EXCEPT !.xmm[1] = x[c + 1], !.r12 = @ + 1]
        = Renewed(regs, x[c + 1], b, c + 1, d - 1)
  <2> DEFINE y == x[c + 1]
  <2> HIDE DEF s, y
  <2> DEFINE u == [s EXCEPT !.xmm[1] = y]
  <2>1. u = [ints |-> i, xmm |-> [x EXCEPT ![1] = y], rax |-> a, rbx |-> b, r12 |-> c,
             r9 |-> d - 1]
    BY <1>4
  <2>3. [s EXCEPT !.xmm[1] = y, !.r12 = @ + 1] = [u EXCEPT !.r12 = @ + 1]
    OBVIOUS
  <2> HIDE DEF u
  <2>4. [u EXCEPT !.r12 = @ + 1]
          = [ints |-> i, xmm |-> [x EXCEPT ![1] = y], rax |-> a,
             rbx |-> b, r12 |-> c + 1, r9 |-> d - 1]
    BY <2>1
  <2>2. [s EXCEPT !.xmm[1] = y, !.r12 = @ + 1] = Renewed(regs, y, b, c + 1, d - 1)
    BY <1>3, <2>3, <2>4 DEF Renewed
  <2> QED BY <2>2 DEF y
<1>9. s = Renewed(regs, x[1], b, c, d - 1)
  <2>1. [x EXCEPT ![1] = x[1]] = x
    BY <1>1
  <2> HIDE DEF s
  <2> QED BY <1>3, <1>4, <2>1 DEF Renewed
<1>10. \A y \in Slots, m \in Nat \ {0}, n \in Nat, k \in Int : Good(Renewed(regs, y, m, n, k))
  <2> SUFFICES ASSUME NEW y \in Slots, NEW m \in Nat \ {0}, NEW n \in Nat, NEW k \in Int
               PROVE  Good(Renewed(regs, y, m, n, k))
    BY Zenon
  <2>1. Reading(Renewed(regs, y, m, n, k)) /\ Renewed(regs, y, m, n, k).xmm[1] = y
    BY ReadOn
  <2> QED BY <2>1
<1>11. e = IF d = 0 THEN FromStack(regs)
           ELSE IF c < FloatRegs
           THEN [s EXCEPT !.xmm[1] = x[c + 1], !.r12 = @ + 1]
           ELSE IF c = FloatRegs THEN FromStack(s) ELSE s
  BY <1>3 DEF exchangeABIXMM, s
<1> HIDE DEF x0, Good, s, e
<1>12. CASE d = 0
  BY <1>1, <1>2, <1>5, <1>6, <1>10, <1>11, <1>12
<1>13. CASE d # 0 /\ c < FloatRegs
  <2>1. x[c + 1] \in Slots
    BY <1>1, <1>13, Sizes
  <2>2. e = Renewed(regs, x[c + 1], b, c + 1, d - 1)
    BY <1>8, <1>11, <1>13
  <2> QED BY <1>1, <1>2, <1>10, <2>1, <2>2
<1>14. CASE d # 0 /\ ~(c < FloatRegs)
  <2>1. e = Renewed(regs, x0, b + 1, c + 1, d - 1) \/ e = Renewed(regs, x[1], b, c, d - 1)
    BY <1>7, <1>9, <1>11, <1>14
  <2> QED BY <1>1, <1>2, <1>5, <1>10, <2>1
<1> QED BY <1>12, <1>13, <1>14

\* What was saved, put back over what was read with, is what the caller had.
LEMMA RestoredIsCallers ==
    ASSUME frame \in Registry, Reading(regs) PROVE Restored(frame, regs) = frame
<1>1. /\ frame = [ints |-> frame.ints, xmm |-> frame.xmm, rax |-> frame.rax,
                  rbx |-> frame.rbx, r12 |-> frame.r12, r9 |-> frame.r9]
      /\ frame.xmm \in [1 .. FloatRegs -> Slots]
  BY RegistryRecord
<1>2. regs.xmm \in [1 .. FloatRegs -> Slots]
  BY RegistryRecord DEF Reading
<1>3. [regs.xmm EXCEPT ![1] = frame.xmm[1]] = frame.xmm
  BY <1>1, <1>2, Sizes DEF Reading
<1>4. Restored(frame, regs) = [frame EXCEPT !.xmm = frame.xmm]
  BY <1>3 DEF Restored
<1>5. [frame EXCEPT !.xmm = frame.xmm] = frame
  BY DEF Registry
<1> QED BY <1>4, <1>5

-----------------------------------------------------------------------------
(* The steps *)

LEMMA StartsWell == Init => PrintfInv
<1> SUFFICES ASSUME Init PROVE PrintfInv
  OBVIOUS
<1>1. Args = <<>> /\ Args \in Seq(Arguments) /\ rsi \in Seq(Char)
  BY DEF Init, Args, NoCall
<1>2. CallKept
  BY <1>1 DEF Init, CallKept
<1>3. out = [buffer |-> <<>>, writes |-> <<>>] /\ out \in Output
  BY DEF Init, Output
<1>4. out.buffer = <<>> /\ out.writes = <<>>
  BY <1>3
<1>5. LinesGoOut
  BY <1>4, Sizes DEF Init, LinesGoOut
<1>6. LinesWhole /\ HandedOn
  BY <1>3 DEF Init, LinesWhole, HandedOn
<1> QED BY <1>2, <1>5, <1>6 DEF PrintfInv

LEMMA EnterKeeps == PrintfInv /\ Enter => PrintfInv'
<1> SUFFICES ASSUME PrintfInv, Enter PROVE PrintfInv'
  OBVIOUS
<1> USE DEF PrintfInv
<1>1. PICK c \in Calls :
         /\ call' = c /\ frame' = CallerRegs(c.args) /\ rsi' = c.fmt
         /\ regs' = [ints |-> [n \in 1 .. IntRegs |-> Junk], xmm |-> CallerRegs(c.args).xmm,
                     rax |-> Junk, rbx |-> 1, r12 |-> 0, r9 |-> CallerRegs(c.args).rax]
  BY Zenon DEF Enter
<1> DEFINE f == CallerRegs(c.args)
           x == f.xmm
           a == f.rax
           junk == [n \in 1 .. IntRegs |-> Junk]
<1>2. /\ Args' = c.args /\ Args' \in Seq(Arguments) /\ rsi' \in Seq(Char) /\ f \in Registry
      /\ a \in Nat /\ a \in Int
  BY <1>1, CallsTyped, CallerRegsTyped DEF Args
<1> HIDE DEF f
<1>3. x \in [1 .. FloatRegs -> Slots]
  BY <1>2, RegistryRecord
<1> HIDE DEF x, a
<1>4. regs' = [ints |-> junk, xmm |-> x, rax |-> Junk, rbx |-> 1, r12 |-> 0, r9 |-> a]
  BY <1>1 DEF x, a, f
<1>5. /\ junk \in [1 .. IntRegs -> Slots] /\ Junk \in Nat \cup {Junk}
      /\ 1 \in Nat /\ 0 \in Nat
  BY DEF Slots
<1> HIDE DEF junk
<1>6. regs' \in Registry
  BY <1>2, <1>3, <1>4, <1>5, RegistryMade
<1>8. Reading(regs)'
  <2>1. regs'.rbx = 1 /\ regs'.r12 = 0 /\ regs'.r9 = a /\ regs'.xmm = x /\ frame'.xmm = x
    BY <1>1, <1>4 DEF x, f
  <2> QED BY <1>2, <1>6, <2>1 DEF Reading
<1>9. CallKept'
  BY <1>1, <1>2, <1>8 DEF Enter, CallKept
<1>10. out' = [buffer |-> <<>>, writes |-> <<>>] /\ out' \in Output /\ pc' = "format"
  BY DEF Enter, LinesWhole
<1>11. WritesWhole(out)'
  BY <1>10, Sizes DEF WritesWhole, Pending
<1>12. LinesWhole' /\ HandedOn'
  BY <1>10, <1>11 DEF LinesWhole, HandedOn
<1>13. LinesGoOut'
  BY <1>10, <1>11 DEF LinesGoOut, WritesWhole, WholeLines, Pending
<1> QED BY <1>9, <1>12, <1>13

\* In the loop it is enough that the lines and the registers are kept.
LEMMA LoopKeeps ==
    ASSUME PrintfInv, pc = "format", pc' = "format", UNCHANGED <<call, frame>>,
           rsi' \in Seq(Char), Reading(regs)', WritesWhole(out')
    PROVE  PrintfInv'
<1>1. CallKept'
  BY DEF PrintfInv, CallKept, Args
<1>2. LinesWhole' /\ HandedOn'
  BY DEF LinesWhole, HandedOn, WritesWhole
<1>3. LinesGoOut'
  BY DEF LinesGoOut, WritesWhole, WholeLines, Pending
<1> QED BY <1>1, <1>2, <1>3 DEF PrintfInv

LEMMA Unread ==
    ASSUME rsi \in Seq(Char), InFormat
    PROVE  /\ rsi[1] \in Char /\ Tail(rsi) \in Seq(Char)
           /\ Len(rsi) > 1 => Tail(Tail(rsi)) \in Seq(Char)
<1>1. rsi # <<>>
  BY DEF InFormat
<1>2. Len(rsi) \in Nat /\ Len(rsi) # 0 /\ Tail(rsi) \in Seq(Char) /\ Len(Tail(rsi)) = Len(rsi) - 1
  BY <1>1
<1>3. ASSUME Len(rsi) > 1 PROVE Tail(Tail(rsi)) \in Seq(Char)
  <2>1. Len(Tail(rsi)) # 0 /\ Len(<<>>) = 0
    BY <1>2, <1>3
  <2>2. \A t \in Seq(Char) : Len(t) # 0 => Tail(t) \in Seq(Char)
    OBVIOUS
  <2> QED BY <1>2, <2>1, <2>2
<1> QED BY <1>2, <1>3

LEMMA PlainKeeps ==
    PrintfInv /\ (PlainChar \/ PercentFmt \/ UnknownCode) => PrintfInv'
<1> SUFFICES ASSUME PrintfInv, PlainChar \/ PercentFmt \/ UnknownCode PROVE PrintfInv'
  OBVIOUS
<1>1. /\ pc = "format" /\ pc' = "format" /\ InFormat
      /\ call' = call /\ frame' = frame /\ regs' = regs
  BY DEF PlainChar, PercentFmt, UnknownCode, Conversion, InFormat
<1>2. rsi \in Seq(Char) /\ Reading(regs) /\ WritesWhole(out)
  BY <1>1 DEF PrintfInv, CallKept, LinesWhole
<1>3. /\ rsi[1] \in Char /\ Tail(rsi) \in Seq(Char)
      /\ Len(rsi) > 1 => Tail(Tail(rsi)) \in Seq(Char)
  BY <1>1, <1>2, Unread
<1>4. Reading(regs)'
  BY <1>1, <1>2 DEF Reading
<1>5. rsi' \in Seq(Char)
  BY <1>3 DEF PlainChar, PercentFmt, UnknownCode, Conversion
<1>6. out' = printChar(out, rsi[1]) \/ out' = printChar(out, "%") \/ out' = out
  BY DEF PlainChar, PercentFmt, UnknownCode
<1>7. WritesWhole(out')
  BY <1>2, <1>3, <1>6, CharKeepsLinesWhole, CharAssumption
<1> QED BY <1>1, <1>4, <1>5, <1>7, LoopKeeps

LEMMA GeneralKeeps == PrintfInv /\ GeneralFmt => PrintfInv'
<1> SUFFICES ASSUME PrintfInv, GeneralFmt PROVE PrintfInv'
  OBVIOUS
<1>1. /\ pc = "format" /\ pc' = "format" /\ InFormat /\ Len(rsi) > 1
      /\ rsi[2] \in {"c", "s", "x", "o", "b", "d", "f"}
      /\ call' = call /\ frame' = frame /\ rsi' = Tail(Tail(rsi))
  BY DEF GeneralFmt, Conversion, InFormat
<1>2. CallKept /\ rsi \in Seq(Char) /\ Reading(regs) /\ WritesWhole(out)
  BY <1>1 DEF PrintfInv, CallKept, LinesWhole
<1>3. rsi' \in Seq(Char)
  BY <1>1, <1>2, Unread
<1>4. Slot(regs.rbx) \in Slots
  BY <1>2, SlotTyped DEF Reading
<1>5. SlotText(rsi[2], Slot(regs.rbx)) \in Seq(Char)
  BY <1>1, <1>4, SlotIsText
<1>6. WritesWhole(out')
  <2>1. out' = printString(out, SlotText(rsi[2], Slot(regs.rbx)))
    BY DEF GeneralFmt
  <2> QED BY <1>2, <1>5, <2>1, StringKeepsLinesWhole
<1>7. Reading(regs)'
  <2>1. PICK i, x, a, b, c, d :
           /\ regs = [ints |-> i, xmm |-> x, rax |-> a, rbx |-> b, r12 |-> c, r9 |-> d]
           /\ i \in [1 .. IntRegs -> Slots] /\ x \in [1 .. FloatRegs -> Slots]
           /\ a \in Nat \cup {Junk}
    BY <1>2, RegistryRecord, Zenon DEF Reading
  <2>2. b \in Nat \ {0} /\ c \in Nat /\ d \in Int /\ regs.xmm = x
    BY <1>2, <2>1 DEF Reading
  <2>3. regs' = [regs EXCEPT !.rbx = @ + 1, !.r9 = IF rsi[2] = "d" THEN 10 ELSE @]
    BY DEF GeneralFmt
  <2>4. PICK k : k = IF rsi[2] = "d" THEN 10 ELSE d
    OBVIOUS
  <2>5. regs' = [ints |-> i, xmm |-> x, rax |-> a, rbx |-> b + 1, r12 |-> c, r9 |-> k]
    BY <2>1, <2>3, <2>4
  <2>6. b + 1 \in Nat \ {0} /\ k \in Int /\ b + 1 \in Nat
    BY <2>2, <2>4
  <2>7. regs' \in Registry
    BY <2>1, <2>2, <2>5, <2>6, RegistryMade
  <2>8. regs'.rbx = b + 1 /\ regs'.r12 = c /\ regs'.r9 = k /\ regs'.xmm = x
    BY <2>5
  <2> QED BY <1>1, <1>2, <2>2, <2>6, <2>7, <2>8 DEF Reading
<1> QED BY <1>1, <1>3, <1>6, <1>7, LoopKeeps

LEMMA FloatKeeps == PrintfInv /\ FloatFmt => PrintfInv'
<1> SUFFICES ASSUME PrintfInv, FloatFmt PROVE PrintfInv'
  OBVIOUS
<1> DEFINE r == exchangeABIXMM(regs)
           finite == [r EXCEPT !.r9 = 10]
<1>1. /\ pc = "format" /\ pc' = "format" /\ InFormat /\ Len(rsi) > 1
      /\ call' = call /\ frame' = frame /\ rsi' = Tail(Tail(rsi))
  BY DEF FloatFmt, Conversion, InFormat
<1>2. CallKept /\ rsi \in Seq(Char) /\ Reading(regs) /\ WritesWhole(out)
  BY <1>1 DEF PrintfInv, CallKept, LinesWhole
<1>3. rsi' \in Seq(Char)
  BY <1>1, <1>2, Unread
<1>4. Reading(r) /\ r.xmm[1] \in Slots
  BY <1>2, ExchangeReadsOn
<1>5. out' = printString(out, SlotText("f", r.xmm[1])) /\ (regs' = r \/ regs' = finite)
  BY DEF FloatFmt
<1> HIDE DEF r
<1>6. WritesWhole(out')
  <2>1. SlotText("f", r.xmm[1]) \in Seq(Char)
    BY <1>4, SlotIsText
  <2> QED BY <1>2, <1>5, <2>1, StringKeepsLinesWhole
<1>7. Reading(finite)
  <2>1. PICK i, x, a, b, c, d :
           /\ r = [ints |-> i, xmm |-> x, rax |-> a, rbx |-> b, r12 |-> c, r9 |-> d]
           /\ i \in [1 .. IntRegs -> Slots] /\ x \in [1 .. FloatRegs -> Slots]
           /\ a \in Nat \cup {Junk}
    BY <1>4, RegistryRecord, Zenon DEF Reading
  <2>2. b \in Nat \ {0} /\ b \in Nat /\ c \in Nat /\ r.xmm = x
    BY <1>4, <2>1 DEF Reading
  <2>3. finite = [ints |-> i, xmm |-> x, rax |-> a, rbx |-> b, r12 |-> c, r9 |-> 10]
    BY <2>1
  <2>4. finite.rbx = b /\ finite.r12 = c /\ finite.r9 = 10 /\ finite.xmm = x
    BY <2>3
  <2> HIDE DEF finite
  <2>5. finite \in Registry
    <3>1. 10 \in Int
      OBVIOUS
    <3> QED BY <2>1, <2>2, <2>3, <3>1, RegistryMade
  <2> QED BY <1>4, <2>2, <2>4, <2>5 DEF Reading
<1>8. Reading(regs)'
  <2> HIDE DEF finite
  <2> QED BY <1>1, <1>4, <1>5, <1>7 DEF Reading
<1> QED BY <1>1, <1>3, <1>6, <1>8, LoopKeeps

LEMMA LeaveKeeps == PrintfInv /\ Leave => PrintfInv'
<1> SUFFICES ASSUME PrintfInv, Leave PROVE PrintfInv'
  OBVIOUS
<1>1. /\ pc = "format" /\ pc' = "libc" /\ call' = call /\ frame' = frame /\ rsi' = rsi
      /\ out' = forcePrintBuffer(out) /\ regs' = Restored(frame, regs)
  BY DEF Leave
<1>2. CallKept /\ Reading(regs) /\ WritesWhole(out) /\ out \in Output
  BY <1>1 DEF PrintfInv, CallKept, LinesWhole
<1>3. regs' = CallerRegs(Args)
  <2>1. frame = CallerRegs(Args) /\ frame \in Registry
    BY <1>2, CallerRegsTyped DEF CallKept
  <2> QED BY <1>1, <1>2, <2>1, RestoredIsCallers
<1>4. CallKept' /\ HandedOn'
  BY <1>1, <1>2, <1>3 DEF CallKept, HandedOn, Args
<1>5. /\ out' \in Output /\ out'.buffer = <<>> /\ Len(out'.writes) = Len(out.writes) + 1
      /\ out'.writes[Len(out.writes) + 1] = out.buffer
      /\ \A n \in 1 .. Len(out.writes) : out'.writes[n] = out.writes[n]
  BY <1>1, <1>2, BufferForced
<1>6. LinesWhole'
  BY <1>1, <1>5 DEF LinesWhole
<1>7. LinesGoOut'
  <2>1. Len(out.writes) \in Nat /\ DOMAIN out.writes = 1 .. Len(out.writes)
        /\ DOMAIN out'.writes = 1 .. Len(out'.writes)
    BY <1>2, <1>5 DEF Output
  <2>2. ASSUME NEW n \in DOMAIN out'.writes
        PROVE  LET w == out'.writes[n]
               IN /\ Len(w) <= BufferSize
                  /\ \A i \in DOMAIN w : w[i] = Newline => i = Len(w)
                  /\ \/ w # <<>> /\ w[Len(w)] = Newline
                     \/ Len(w) = BufferSize
                     \/ n = Len(out'.writes) /\ pc' \in {"idle", "libc"}
    <3>1. CASE n = Len(out.writes) + 1
      BY <1>1, <1>2, <1>5, <3>1 DEF WritesWhole, Pending
    <3>2. CASE n \in 1 .. Len(out.writes)
      <4>1. WholeLines(out.writes[n]) /\ out'.writes[n] = out.writes[n]
        BY <1>2, <1>5, <2>1, <3>2 DEF WritesWhole
      <4> QED BY <4>1 DEF WholeLines
    <3> QED BY <1>5, <2>1, <3>1, <3>2
  <2>3. Len(out'.buffer) <= BufferSize
    BY <1>5, Sizes
  <2> QED BY <1>5, <2>2, <2>3 DEF LinesGoOut
<1> QED BY <1>4, <1>6, <1>7 DEF PrintfInv

LEMMA LibcKeeps == PrintfInv /\ LibcPrintf => PrintfInv'
<1> SUFFICES ASSUME PrintfInv, LibcPrintf PROVE PrintfInv'
  OBVIOUS
<1>1. /\ pc = "libc" /\ pc' = "idle" /\ call' = NoCall /\ regs' = CallerRegs(<<>>)
      /\ frame' = regs' /\ rsi' = <<>> /\ out' = [out EXCEPT !.writes = <<>>]
  BY DEF LibcPrintf
<1>2. Args' = <<>> /\ Args' \in Seq(Arguments) /\ rsi' \in Seq(Char)
  BY <1>1 DEF Args, NoCall
<1>3. CallKept' /\ HandedOn'
  BY <1>1, <1>2 DEF CallKept, HandedOn
<1>4. out.buffer = <<>> /\ out \in Output
  BY <1>1 DEF PrintfInv, LinesGoOut, LinesWhole
<1>5. out' = [buffer |-> <<>>, writes |-> <<>>]
  BY <1>1, <1>4 DEF Output
<1>6. out'.buffer = <<>> /\ out'.writes = <<>> /\ out' \in Output
  BY <1>5 DEF Output
<1>7. LinesWhole'
  BY <1>1, <1>5, <1>6 DEF LinesWhole
<1>8. LinesGoOut'
  BY <1>1, <1>6, Sizes DEF LinesGoOut
<1> QED BY <1>3, <1>7, <1>8 DEF PrintfInv

\* A program that is lost has done what it did before.
LEMMA LostKeeps == PrintfInv /\ (JumpLost \/ TextLost) => PrintfInv'
<1> SUFFICES ASSUME PrintfInv, JumpLost \/ TextLost PROVE PrintfInv'
  OBVIOUS
<1>1. /\ pc = "format" /\ pc' = "undefined"
      /\ call' = call /\ frame' = frame /\ rsi' = rsi /\ out' = out
  BY DEF JumpLost, TextLost, Conversion, InFormat
<1>2. CallKept' /\ HandedOn'
  BY <1>1 DEF PrintfInv, CallKept, HandedOn, Args
<1>3. LinesWhole' /\ LinesGoOut'
  BY <1>1 DEF PrintfInv, LinesWhole, LinesGoOut
<1> QED BY <1>2, <1>3 DEF PrintfInv

LEMMA StutterKeeps == PrintfInv /\ UNCHANGED vars => PrintfInv'
<1> SUFFICES ASSUME PrintfInv, UNCHANGED vars PROVE PrintfInv'
  OBVIOUS
<1>1. /\ pc' = pc /\ call' = call /\ regs' = regs /\ frame' = frame /\ rsi' = rsi /\ out' = out
  BY DEF vars
<1>2. CallKept' /\ HandedOn'
  BY <1>1 DEF PrintfInv, CallKept, HandedOn, Args, Reading
<1>3. LinesWhole' /\ LinesGoOut'
  BY <1>1 DEF PrintfInv, LinesWhole, LinesGoOut
<1> QED BY <1>2, <1>3 DEF PrintfInv

(* The registers that the loop reads with and the lines in the buffer are  *)
(* kept by every branch of the format loop.                                *)
THEOREM PrintfInvariance == Spec => []PrintfInv
<1>1. Init => PrintfInv
  BY StartsWell
<1>2. PrintfInv /\ [Next]_vars => PrintfInv'
  BY EnterKeeps, PlainKeeps, GeneralKeeps, FloatKeeps, LostKeeps, LeaveKeeps, LibcKeeps,
     StutterKeeps
     DEF Next
<1> QED BY <1>1, <1>2, PTL DEF Spec

(* Whatever the formats, the arguments and the size of the buffer, no line *)
(* is held back or split but for want of room: printChar and the write at  *)
(* .stop_fmt are all that my_printf's output rests on. It is said of every *)
(* call up to the point, if it has one, at which the program is lost.      *)
THEOREM LinesAlwaysGoOut == Spec => []LinesGoOut
<1>1. PrintfInv => LinesGoOut
  BY DEF PrintfInv
<1> QED BY <1>1, PrintfInvariance, PTL

(* Whatever was converted on the way, the C library's printf is called     *)
(* with the registers of the caller: the ones my_printf reads with are     *)
(* saved, and of the xmm registers only xmm0 is ever written. A call on    *)
(* which the program is lost (JumpLost, TextLost) does not get that far.   *)
THEOREM AlwaysHandedOn == Spec => []HandedOn
<1>1. PrintfInv => HandedOn
  BY DEF PrintfInv
<1> QED BY <1>1, PrintfInvariance, PTL

-----------------------------------------------------------------------------
(* Quotients and remainders *)

LEMMA Divided ==
    ASSUME NEW n \in Nat, NEW d \in Nat \ {0}
    PROVE  /\ n \div d \in Nat /\ n % d \in Nat /\ n % d < d
           /\ n = (n \div d) * d + (n % d)
OBVIOUS

LEMMA TimesGrows == \A k \in Nat \ {0}, d \in Nat : d <= k * d
OBVIOUS

\* They are determined by what they have to be.
LEMMA Quotient ==
    ASSUME NEW d \in Nat \ {0}, NEW q \in Nat, NEW r \in Nat, r < d
    PROVE  /\ q * d \in Nat /\ (q * d) + r \in Nat
           /\ ((q * d) + r) \div d = q /\ ((q * d) + r) % d = r
<1> DEFINE n == (q * d) + r
           u == n \div d
           v == n % d
<1>1. q * d \in Nat /\ n \in Nat
  OBVIOUS
<1>2. u \in Nat /\ v \in Nat /\ v < d /\ n = (u * d) + v
  <2> HIDE DEF n
  <2> QED BY <1>1, Divided
<1>3. (q * d) + r = (u * d) + v
  BY <1>2
<1> HIDE DEF n, u, v
<1>4. u = q
  <2>1. ASSUME u < q PROVE FALSE
    <3>1. q - u \in Nat \ {0} /\ (q - u) * d = (q * d) - (u * d) /\ u * d \in Nat
      BY <1>2, <2>1
    <3>2. d <= (q - u) * d
      BY <3>1, TimesGrows
    <3> DEFINE a == q * d
               b == u * d
    <3>3. a \in Nat /\ b \in Nat /\ d <= a - b /\ a + r = b + v
      BY <1>1, <1>3, <3>1, <3>2
    <3> HIDE DEF a, b
    <3> QED BY <1>2, <3>3
  <2>2. ASSUME q < u PROVE FALSE
    <3>1. u - q \in Nat \ {0} /\ (u - q) * d = (u * d) - (q * d) /\ u * d \in Nat
      BY <1>2, <2>2
    <3>2. d <= (u - q) * d
      BY <3>1, TimesGrows
    <3> DEFINE a == q * d
               b == u * d
    <3>3. a \in Nat /\ b \in Nat /\ d <= b - a /\ a + r = b + v
      BY <1>1, <1>3, <3>1, <3>2
    <3> HIDE DEF a, b
    <3> QED BY <1>2, <3>3
  <2> QED BY <1>2, <2>1, <2>2
<1>5. v = r
  <2> DEFINE a == q * d
  <2>1. a \in Nat /\ a + r = a + v
    BY <1>1, <1>3, <1>4
  <2> HIDE DEF a
  <2> QED BY <1>2, <2>1
<1> QED BY <1>1, <1>4, <1>5 DEF u, v, n

LEMMA Products == \A a, b \in Nat : a * b \in Nat
OBVIOUS

\* Dividing twice is dividing by the product.
LEMMA DividedTwice ==
    ASSUME NEW n \in Nat, NEW a \in Nat \ {0}, NEW b \in Nat \ {0}
    PROVE  (n \div a) \div b = n \div (a * b)
<1> DEFINE q == n \div a
           r == n % a
           u == q \div b
           v == q % b
<1>1. q \in Nat /\ r \in Nat /\ r < a /\ n = (q * a) + r
  BY Divided
<1>2. u \in Nat /\ v \in Nat /\ v < b /\ q = (u * b) + v
  <2> HIDE DEF q
  <2> QED BY <1>1, Divided
<1> HIDE DEF q, r, u, v
<1>3. n = (u * (a * b)) + ((v * a) + r)
  <2>1. ((u * b) + v) * a = (u * (a * b)) + (v * a)
    BY <1>2
  <2> DEFINE x == u * (a * b)
             y == v * a
             z == q * a
  <2>2. z = x + y /\ n = z + r /\ x \in Nat /\ y \in Nat
    BY <1>1, <1>2, <2>1
  <2> HIDE DEF x, y, z
  <2>3. n = x + (y + r)
    BY <1>1, <2>2
  <2> QED BY <2>3 DEF x, y
<1>4. (v * a) + r \in Nat /\ (v * a) + r < a * b
  <2>1. v + 1 <= b /\ v + 1 \in Nat
    BY <1>2
  <2>2. (v + 1) * a <= b * a
    BY <1>2, <2>1
  <2>3. (v + 1) * a = (v * a) + a /\ v * a \in Nat /\ b * a = a * b
    BY <1>2
  <2> DEFINE y == v * a
             z == a * b
  <2>4. y + a <= z /\ y \in Nat
    BY <2>2, <2>3
  <2>5. z \in Nat
    OBVIOUS
  <2> HIDE DEF y, z
  <2>6. y + r \in Nat /\ y + r < z
    BY <1>1, <2>4, <2>5
  <2> QED BY <2>6 DEF y, z
<1>5. a * b \in Nat \ {0}
  OBVIOUS
<1> DEFINE d == a * b
           s == (v * a) + r
<1>6. d \in Nat \ {0} /\ s \in Nat /\ s < d /\ n = (u * d) + s
  BY <1>3, <1>4, <1>5
<1> HIDE DEF d, s
<1>7. n \div d = u
  BY <1>2, <1>6, Quotient
<1> QED BY <1>7 DEF d, u, q

\* A multiple of the divisor more changes the quotient by as much, and no remainder.
LEMMA MultipleAdded ==
    ASSUME NEW d \in Nat \ {0}, NEW k \in Nat, NEW n \in Nat
    PROVE  /\ ((k * d) + n) \div d = k + (n \div d)
           /\ ((k * d) + n) % d = n % d
<1> DEFINE q == n \div d
           r == n % d
<1>1. q \in Nat /\ r \in Nat /\ r < d /\ n = (q * d) + r
  BY Divided
<1> HIDE DEF q, r
<1>2. (k * d) + n = ((k + q) * d) + r
  <2>1. (k + q) * d = (k * d) + (q * d)
    BY <1>1
  <2> DEFINE x == k * d
             y == q * d
             z == (k + q) * d
  <2>2. x \in Nat /\ y \in Nat /\ z = x + y /\ n = y + r
    BY <1>1, <2>1
  <2> HIDE DEF x, y, z
  <2>3. x + n = z + r
    BY <1>1, <2>2
  <2> QED BY <2>3 DEF x, z
<1>3. k + q \in Nat
  BY <1>1
<1>4. (((k + q) * d) + r) \div d = k + q /\ (((k + q) * d) + r) % d = r
  BY <1>1, <1>3, Quotient
<1> QED BY <1>2, <1>4 DEF q, r

\* How large a quotient is.
LEMMA QuotientBounds ==
    ASSUME NEW n \in Nat, NEW a \in Nat \ {0}, NEW b \in Nat
    PROVE  n < b * a <=> n \div a < b
<1> DEFINE q == n \div a
           r == n % a
<1>1. q \in Nat /\ r \in Nat /\ r < a /\ n = (q * a) + r
  BY Divided
<1> HIDE DEF q, r
<1>2. ASSUME q < b PROVE n < b * a
  <2>1. (q + 1) * a <= b * a /\ (q + 1) * a = (q * a) + a
    BY <1>1, <1>2
  <2> DEFINE x == q * a
             y == b * a
  <2>2. x + a <= y /\ n = x + r /\ x \in Nat /\ y \in Nat
    BY <1>1, <2>1
  <2> HIDE DEF x, y
  <2>3. n < y
    BY <1>1, <2>2
  <2> QED BY <2>3 DEF y
<1>3. ASSUME ~(q < b) PROVE ~(n < b * a)
  <2>1. b * a <= q * a
    BY <1>1, <1>3
  <2> DEFINE x == q * a
             y == b * a
  <2>2. y <= x /\ n = x + r /\ x \in Nat /\ y \in Nat
    BY <1>1, <2>1
  <2> HIDE DEF x, y
  <2>3. ~(n < y)
    BY <1>1, <2>2
  <2> QED BY <2>3 DEF y
<1> QED BY <1>2, <1>3 DEF q

-----------------------------------------------------------------------------
(* Rotations *)

\* A word cut after its upper H * (lower part) ... and turned by the size of its lower part.
LEMMA TurnedOnce ==
    ASSUME NEW H \in Nat \ {0}, NEW A \in Nat \ {0}, NEW h \in Nat, NEW l \in Nat,
           h < H, l < A
    PROVE  (((h * A) + l) * H) % (H * A) = l * H
<1>1. ((h * A) + l) * H = (h * (H * A)) + (l * H)
  OBVIOUS
<1>2. l * H \in Nat /\ H * A \in Nat \ {0} /\ l * H < H * A
  <2>1. l + 1 <= A /\ (l + 1) * H <= A * H
    OBVIOUS
  <2>2. (l + 1) * H = (l * H) + H /\ A * H = H * A
    OBVIOUS
  <2> DEFINE x == l * H
             y == H * A
  <2>3. x + H <= y /\ x \in Nat /\ y \in Nat
    BY <2>1, <2>2
  <2> HIDE DEF x, y
  <2>4. x \in Nat /\ y \in Nat \ {0} /\ x < y
    BY <2>3
  <2> QED BY <2>4 DEF x, y
<1> DEFINE d == H * A
           r == l * H
<1>3. d \in Nat \ {0} /\ r \in Nat /\ r < d
  BY <1>2
<1> HIDE DEF d, r
<1>4. ((h * d) + r) % d = r
  BY <1>3, Quotient
<1> QED BY <1>1, <1>4 DEF d, r

\* The upper part below all but the first of C pieces of the lower one.
LEMMA PiecesBelow ==
    ASSUME NEW H \in Nat \ {0}, NEW C \in Nat \ {0}, NEW h \in Nat, NEW l \in Nat,
           h < H, l < C
    PROVE  (l * H) + h \in Nat /\ H * C \in Nat \ {0} /\ (l * H) + h < H * C
<1> DEFINE x == l * H
           y == H * C
<1>1. (l + 1) * H <= C * H
  <2>1. l + 1 <= C
    OBVIOUS
  <2> QED BY <2>1
<1>2. (l + 1) * H = x + H /\ C * H = y /\ x \in Nat /\ y \in Nat \ {0}
  OBVIOUS
<1> HIDE DEF x, y
<1>3. x + h \in Nat /\ y \in Nat \ {0} /\ x + h < y
  BY <1>1, <1>2
<1> QED BY <1>3 DEF x, y

\* Rotated right by a and left again by b, a word has lowest the bits that begin with
\* the one at a - b, as many as there are above a.
LEMMA RotatedDigit ==
    ASSUME NEW w \in Nat, w < 2 ^ WordBits, NEW a \in Nat, NEW b \in 0 .. a,
           NEW s \in {1, 3, 4}, a + s <= WordBits
    PROVE  RotateLeft(RotateLeft(w, WordBits - a), b) % (2 ^ s)
              = (w \div (2 ^ (a - b))) % (2 ^ s)
<1> DEFINE W == WordBits
           H == 2 ^ (WordBits - a)
           A == 2 ^ a
           B == 2 ^ b
           C == 2 ^ (a - b)
           D == 2 ^ s
           G == 2 ^ ((WordBits - a) - s)
           V == 2 ^ WordBits
           HC == 2 ^ (WordBits - b)
<1>1. /\ WordBits - a \in 0 .. WordBits /\ a \in 0 .. WordBits /\ b \in 0 .. WordBits
      /\ a - b \in 0 .. WordBits /\ s \in 0 .. WordBits /\ (WordBits - a) - s \in 0 .. WordBits
      /\ WordBits \in 0 .. WordBits /\ WordBits - b \in 0 .. WordBits
  BY Sizes
<1>2. /\ H \in Nat \ {0} /\ A \in Nat \ {0} /\ B \in Nat \ {0} /\ C \in Nat \ {0}
      /\ D \in Nat \ {0} /\ G \in Nat \ {0} /\ V \in Nat \ {0} /\ HC \in Nat \ {0}
  BY <1>1, TwosAreNumbers
<1>3. V = H * A
  <2>1. WordBits - a \in Nat /\ (WordBits - a) + a <= WordBits /\ (WordBits - a) + a = WordBits
    BY Sizes
  <2>2. 2 ^ ((WordBits - a) + a) = (2 ^ (WordBits - a)) * (2 ^ a)
    BY <2>1, TwosMultiply
  <2> QED BY <2>1, <2>2
<1>4. A = B * C
  <2>1. b \in Nat /\ a - b \in Nat /\ b + (a - b) <= WordBits /\ b + (a - b) = a
    BY Sizes
  <2>2. 2 ^ (b + (a - b)) = (2 ^ b) * (2 ^ (a - b))
    BY <2>1, TwosMultiply
  <2> QED BY <2>1, <2>2
<1>5. H = G * D
  <2>1. s \in Nat /\ (WordBits - a) - s \in Nat /\ ((WordBits - a) - s) + s <= WordBits
        /\ ((WordBits - a) - s) + s = WordBits - a
    BY Sizes
  <2>2. 2 ^ (((WordBits - a) - s) + s) = (2 ^ ((WordBits - a) - s)) * (2 ^ s)
    BY <2>1, TwosMultiply
  <2> QED BY <2>1, <2>2
<1>6. HC = H * C
  <2>1. WordBits - a \in Nat /\ a - b \in Nat /\ (WordBits - a) + (a - b) <= WordBits
        /\ (WordBits - a) + (a - b) = WordBits - b
    BY Sizes
  <2>2. 2 ^ ((WordBits - a) + (a - b)) = (2 ^ (WordBits - a)) * (2 ^ (a - b))
    BY <2>1, TwosMultiply
  <2> QED BY <2>1, <2>2
<1> DEFINE h == w \div A
           l == w % A
           m == l \div C
           n == l % C
<1>7. h \in Nat /\ l \in Nat /\ l < A /\ w = (h * A) + l
  <2> HIDE DEF A
  <2> QED BY <1>2, Divided
<1>8. h < H
  <2>1. w < H * A
    BY <1>3
  <2> HIDE DEF H, A
  <2> QED BY <1>2, <2>1, QuotientBounds
<1> HIDE DEF h, l
<1>9. m \in Nat /\ n \in Nat /\ n < C /\ l = (m * C) + n
  <2> HIDE DEF C
  <2> QED BY <1>2, <1>7, Divided
<1>10. m < B
  <2>1. l < B * C
    BY <1>4, <1>7
  <2> HIDE DEF B, C
  <2> QED BY <1>2, <1>7, <2>1, QuotientBounds
<1> HIDE DEF m, n
<1> DEFINE top == (l * H) + h
\* The first rotation: the lower part of the word comes to stand above the upper one.
<1>11. RotateLeft(w, WordBits - a) = top
  <2>1. CASE a = 0
    <3>1. (WordBits - a) % WordBits = 0
      BY <2>1, Sizes
    <3>2. /\ 2 ^ 0 = 1 /\ A = 1
      BY <2>1, PowersAssumption
    <3>3. l = 0 /\ h = w
      BY <1>7, <3>2
    <3>4. RotateLeft(w, WordBits - a) = ((w * (2 ^ 0)) % V) + (w \div (2 ^ (WordBits - 0)))
      BY <3>1 DEF RotateLeft
    <3>5. WordBits - 0 = WordBits
      BY Sizes
    <3>6. (w * 1) % V = w /\ w \div V = 0
      <4> HIDE DEF V
      <4>1. w < V
        BY DEF V
      <4>2. w * 1 = (0 * V) + w
        BY <1>2
      <4>3. ((0 * V) + w) \div V = 0 /\ ((0 * V) + w) % V = w
        BY <1>2, <4>1, Quotient
      <4> QED BY <4>2, <4>3
    <3>7. RotateLeft(w, WordBits - a) = w
      <4>1. RotateLeft(w, WordBits - a) = ((w * 1) % V) + (w \div V)
        BY <3>2, <3>4, <3>5
      <4> HIDE DEF V
      <4> QED BY <3>6, <4>1
    <3>8. top = w
      <4>1. 0 * H = 0
        BY <1>2
      <4> QED BY <3>3, <4>1
    <3> QED BY <3>7, <3>8
  <2>2. CASE a # 0
    <3>1. (WordBits - a) % WordBits = WordBits - a /\ WordBits - (WordBits - a) = a
      <4>1. WordBits - a < WordBits /\ WordBits - a \in Nat
        BY <2>2, Sizes
      <4> QED BY <4>1, Sizes
    <3>2. RotateLeft(w, WordBits - a) = ((w * H) % V) + (w \div A)
      BY <3>1 DEF RotateLeft
    <3>3. (w * H) % V = l * H /\ w \div A = h
      <4>1. (((h * A) + l) * H) % (H * A) = l * H
        <5> HIDE DEF H, A
        <5> QED BY <1>2, <1>7, <1>8, TurnedOnce
      <4>2. ((h * A) + l) \div A = h
        <5> HIDE DEF H, A
        <5> QED BY <1>2, <1>7, Quotient
      <4> HIDE DEF H, A, V
      <4> QED BY <1>3, <1>7, <4>1, <4>2, Zenon
    <3> QED BY <3>2, <3>3
  <2> QED BY <2>1, <2>2
\* The second one.
<1>12. RotateLeft(top, b) = (((n * B) * H) + (h * B)) + m
  <2>1. b % WordBits = b
    <3>1. b < WordBits /\ b \in Nat
      BY Sizes
    <3> QED BY <3>1, Sizes
  <2>2. RotateLeft(top, b) = ((top * B) % V) + (top \div HC)
    BY <2>1 DEF RotateLeft
  <2> DEFINE y == H * C
             r == (n * H) + h
  <2>3. r \in Nat /\ y \in Nat \ {0} /\ r < y
    <3> HIDE DEF H, C
    <3> QED BY <1>2, <1>7, <1>8, <1>9, PiecesBelow
  <2>4. top = (m * y) + r
    <3>1. ((m * C) + n) * H = (m * (H * C)) + (n * H)
      <4> HIDE DEF H, C
      <4> QED BY <1>2, <1>9
    <3> DEFINE p == m * y
               q == n * H
    <3>2. top = (p + q) + h /\ p \in Nat /\ q \in Nat
      <4>1. top = (((m * C) + n) * H) + h
        <5> HIDE DEF H, C
        <5> QED BY <1>9, Zenon
      <4>2. p \in Nat /\ q \in Nat
        <5> HIDE DEF H, y
        <5> QED BY <1>2, <1>9, <2>3
      <4> QED BY <3>1, <4>1, <4>2, Zenon
    <3> HIDE DEF p, q, top
    <3>3. top = p + (q + h)
      BY <1>7, <3>2
    <3> QED BY <3>3 DEF p, q
  <2>5. B * y = V
    <3>1. V = H * (B * C)
      <4> HIDE DEF V, H, B, C, A
      <4> QED BY <1>3, <1>4
    <3> HIDE DEF V, H, B, C
    <3> QED BY <1>2, <3>1
  <2>6. top \div HC = m
    <3> HIDE DEF top, H, C, HC, y, r
    <3>1. ((m * y) + r) \div y = m
      BY <1>9, <2>3, Quotient
    <3> QED BY <1>6, <2>4, <3>1 DEF y
  <2>7. (top * B) % V = r * B
    <3> HIDE DEF top, V, B, y, r
    <3>1. (((m * y) + r) * B) % (B * y) = r * B
      BY <1>2, <1>9, <1>10, <2>3, TurnedOnce
    <3> QED BY <2>4, <2>5, <3>1, Zenon
  <2>8. r * B = ((n * B) * H) + (h * B)
    <3> HIDE DEF H, B
    <3> QED BY <1>2, <1>7, <1>9
  <2> HIDE DEF top, r
  <2> QED BY <2>2, <2>6, <2>7, <2>8, Zenon
<1> DEFINE u == (h * B) + m
<1>13. u \in Nat
  <2> HIDE DEF B
  <2> QED BY <1>2, <1>7, <1>9
<1>14. w \div C = u
  <2>1. w = (u * C) + n
    <3> HIDE DEF B, C, A
    <3>1. h * (B * C) = (h * B) * C /\ ((h * B) + m) * C = ((h * B) * C) + (m * C)
          /\ (h * B) * C \in Nat /\ m * C \in Nat
      BY <1>2, <1>7, <1>9
    <3> DEFINE x == h * A
               y == m * C
               z == ((h * B) + m) * C
    <3>2. x = h * (B * C) /\ z = x + y /\ x \in Nat /\ y \in Nat /\ l = y + n /\ w = x + l
      BY <1>4, <1>7, <1>9, <3>1, Zenon
    <3> HIDE DEF x, y, z
    <3>3. w = z + n
      BY <1>9, <3>2
    <3> QED BY <3>3 DEF z
  <2> HIDE DEF u, C
  <2> QED BY <1>2, <1>9, <1>13, <2>1, Quotient
<1>15. ((((n * B) * H) + (h * B)) + m) % D = u % D
  <2> HIDE DEF H, B, C, D, G
  <2> DEFINE k == (n * B) * G
  <2>1. k \in Nat
    BY <1>2, <1>9
  <2>2. (((n * B) * H) + (h * B)) + m = (k * D) + u
    <3>1. (n * B) * (G * D) = k * D
      BY <1>2, <1>9
    <3> DEFINE x == (n * B) * H
               y == k * D
               z == h * B
    <3>2. x = y
      BY <1>5, <3>1, Zenon
    <3>3. x \in Nat /\ z \in Nat
      BY <1>2, <1>7, <1>9
    <3> HIDE DEF x, y, z
    <3>4. (x + z) + m = y + (z + m)
      BY <1>9, <3>2, <3>3
    <3> QED BY <3>4 DEF x, y, z
  <2> HIDE DEF k, u
  <2>3. ((k * D) + u) % D = u % D
    BY <1>2, <1>13, <2>1, MultipleAdded, Zenon
  <2> QED BY <2>2, <2>3, Zenon
<1> QED BY <1>11, <1>12, <1>14, <1>15

-----------------------------------------------------------------------------
(* Numerals *)

\* The numeral of v has as many digits as v needs.
LEMMA NumeralIs ==
    ASSUME NEW base, NEW v, NEW n \in 1 .. WordBits, v < base ^ n,
           \A k \in 1 .. n - 1 : v >= base ^ k, \A k \in 1 .. n : base ^ k \in Nat,
           v \in Nat
    PROVE  Numeral(base, v) = [i \in 1 .. n |-> Digit(base, v, n - i)]
<1> DEFINE Fits(m) == v < base ^ m /\ \A k \in 1 .. m - 1 : v >= base ^ k
           c == CHOOSE m \in 1 .. WordBits : Fits(m)
<1>1. Fits(n)
  OBVIOUS
<1>2. c \in 1 .. WordBits /\ Fits(c)
  <2> HIDE DEF Fits
  <2> QED BY <1>1
<1> HIDE DEF c
<1>3. c = n
  <2>1. ASSUME c < n PROVE FALSE
    <3>1. c \in 1 .. n - 1
      BY <1>2, <2>1, Sizes
    <3>2. v >= base ^ c /\ v < base ^ c /\ base ^ c \in Nat
      BY <1>2, <3>1
    <3> QED BY <3>2
  <2>2. ASSUME n < c PROVE FALSE
    <3>1. n \in 1 .. c - 1
      BY <1>2, <2>2, Sizes
    <3>2. v >= base ^ n /\ v < base ^ n /\ base ^ n \in Nat
      BY <1>2, <3>1
    <3> QED BY <3>2
  <2> QED BY <1>2, <2>1, <2>2, Sizes
<1>4. Numeral(base, v) = [i \in 1 .. c |-> Digit(base, v, c - i)]
  BY DEF Numeral, c
<1> QED BY <1>3, <1>4

\* Powers of eight and of sixteen are powers of two.
LEMMA EightsAre == \A k \in 0 .. WordBits \div 3 : 8 ^ k = 2 ^ (3 * k)
<1> DEFINE t == WordBits \div 3
           S == {k \in 0 .. t : 8 ^ k = 2 ^ (3 * k)}
<1>1. t \in Nat /\ 3 * t <= WordBits
  BY Sizes
<1>2. 8 ^ 0 = 1 /\ \A n \in 0 .. t : 8 ^ (n + 1) = 8 * (8 ^ n)
  BY PowersAssumption
<1> HIDE DEF t
<1>3. 0 \in S
  <2>1. 3 * 0 = 0 /\ 0 \in 0 .. t
    BY <1>1
  <2> QED BY <1>2, <2>1, PowersAssumption
<1>4. ASSUME NEW k \in 0 .. t - 1, k \in S PROVE k + 1 \in S
  <2>1. /\ 3 * k \in Nat /\ 3 * k + 3 <= WordBits /\ 3 * (k + 1) = 3 * k + 3 /\ k + 1 \in 0 .. t
        /\ 3 * k \in 0 .. WordBits /\ k \in 0 .. t /\ 3 \in Nat
    BY <1>1, Sizes
  <2>2. 2 ^ (3 * k + 3) = (2 ^ (3 * k)) * (2 ^ 3)
    BY <2>1, TwosMultiply
  <2>3. 2 ^ 3 = 8 /\ 2 ^ (3 * k) \in Nat
    BY <2>1, TwosAreNumbers
  <2> DEFINE a == 2 ^ (3 * k)
  <2>4. 8 ^ (k + 1) = 8 * a /\ a \in Nat /\ 2 ^ (3 * (k + 1)) = a * 8
    BY <1>2, <1>4, <2>1, <2>2, <2>3
  <2> HIDE DEF a
  <2> QED BY <2>1, <2>4
<1>5. 0 .. t \subseteq S
  <2> HIDE DEF S
  <2> QED BY <1>1, <1>3, <1>4, SetInductionUpTo
<1> QED BY <1>5 DEF t

LEMMA SixteensAre == \A k \in 0 .. WordBits \div 4 : 16 ^ k = 2 ^ (4 * k)
<1> DEFINE t == WordBits \div 4
           S == {k \in 0 .. t : 16 ^ k = 2 ^ (4 * k)}
<1>1. t \in Nat /\ 4 * t <= WordBits
  BY Sizes
<1>2. 16 ^ 0 = 1 /\ \A n \in 0 .. t - 1 : 16 ^ (n + 1) = 16 * (16 ^ n)
  BY PowersAssumption
<1> HIDE DEF t
<1>3. 0 \in S
  <2>1. 4 * 0 = 0 /\ 0 \in 0 .. t
    BY <1>1
  <2> QED BY <1>2, <2>1, PowersAssumption
<1>4. ASSUME NEW k \in 0 .. t - 1, k \in S PROVE k + 1 \in S
  <2>1. /\ 4 * k \in Nat /\ 4 * k + 4 <= WordBits /\ 4 * (k + 1) = 4 * k + 4 /\ k + 1 \in 0 .. t
        /\ 4 * k \in 0 .. WordBits /\ 4 \in Nat
    BY <1>1, Sizes
  <2>2. 2 ^ (4 * k + 4) = (2 ^ (4 * k)) * (2 ^ 4)
    BY <2>1, TwosMultiply
  <2>3. 2 ^ 4 = 16 /\ 2 ^ (4 * k) \in Nat
    BY <2>1, TwosAreNumbers
  <2> DEFINE a == 2 ^ (4 * k)
  <2>4. 16 ^ (k + 1) = 16 * a /\ a \in Nat /\ 2 ^ (4 * (k + 1)) = a * 16
    BY <1>2, <1>4, <2>1, <2>2, <2>3
  <2> HIDE DEF a
  <2> QED BY <2>1, <2>4
<1>5. 0 .. t \subseteq S
  <2> HIDE DEF S
  <2> QED BY <1>1, <1>3, <1>4, SetInductionUpTo
<1> QED BY <1>5 DEF t

LEMMA BasePowers ==
    ASSUME NEW s \in {1, 3, 4}, NEW k \in 0 .. WordBits \div s
    PROVE  /\ (2 ^ s) ^ k = 2 ^ (k * s)
           /\ k * s \in 0 .. WordBits
<1>1. k * s \in 0 .. WordBits
  <2>1. CASE s = 1
    BY <2>1, Sizes
  <2>2. CASE s = 3
    BY <2>2, Sizes
  <2>3. CASE s = 4
    BY <2>3, Sizes
  <2> QED BY <2>1, <2>2, <2>3
<1>2. CASE s = 1
  <2>1. 2 ^ 1 = 2 /\ k * 1 = k
    BY Sizes, <1>2
  <2> QED BY <1>1, <1>2, <2>1
<1>3. CASE s = 3
  <2>1. 2 ^ 3 = 8 /\ k * 3 = 3 * k
    BY Sizes, <1>3
  <2>2. 8 ^ k = 2 ^ (3 * k)
    BY <1>3, EightsAre
  <2> QED BY <1>1, <1>3, <2>1, <2>2
<1>4. CASE s = 4
  <2>1. 2 ^ 4 = 16 /\ k * 4 = 4 * k
    BY Sizes, <1>4
  <2>2. 16 ^ k = 2 ^ (4 * k)
    BY <1>4, SixteensAre
  <2> QED BY <1>1, <1>4, <2>1, <2>2
<1> QED BY <1>2, <1>3, <1>4

(* printXOBNumber prints what the digits of a word are, if no bit is above *)
(* the highest whole digit: rotation by the width of a digit brings every  *)
(* one of them down in turn, and the zeros that are skipped are exactly    *)
(* those in front of the numeral.                                          *)
THEOREM XOBIsNumeral ==
    ASSUME NEW w \in Nat, NEW s \in {1, 3, 4}, w < 2 ^ ((WordBits \div s) * s)
    PROVE  printXOBNumber(w, s) = Numeral(2 ^ s, w)
<1> DEFINE n == WordBits \div s
           D == 2 ^ s
           E(k) == 2 ^ (k * s)
           top == RotateLeft(w, WordBits - (n - 1) * s)
           digit(i) == RotateLeft(top, (i - 1) * s) % (2 ^ s)
           skipped == {i \in 1 .. n - 1 : \A j \in 1 .. i : digit(j) = 0}
<1>1. n \in Nat \ {0} /\ s \in Nat /\ n <= WordBits
  <2>1. WordBits \in Nat /\ WordBits >= 4
    BY PrintfAssumption
  <2> QED BY <2>1
<1>2. \A k \in 0 .. n : k * s \in 0 .. WordBits /\ E(k) \in Nat \ {0} /\ D ^ k = E(k)
  BY BasePowers, TwosAreNumbers
<1>3. D \in Nat \ {0}
  <2>1. s \in 0 .. WordBits
    <3>1. WordBits \in Nat /\ WordBits >= 4
      BY PrintfAssumption
    <3> QED BY <3>1
  <2> QED BY <2>1, TwosAreNumbers
<1>4. ASSUME NEW k \in 0 .. n - 1 PROVE E(k + 1) = D * E(k)
  <2>1. (k + 1) * s = s + k * s
    BY <1>1
  <2>2. k * s \in Nat /\ k + 1 \in 0 .. n
    BY <1>1
  <2>3. s + k * s <= WordBits
    BY <1>2, <2>1, <2>2
  <2>4. 2 ^ (s + k * s) = (2 ^ s) * (2 ^ (k * s))
    BY <1>1, <2>2, <2>3, TwosMultiply
  <2> QED BY <2>1, <2>4
<1>5. ASSUME NEW j \in 0 .. n, NEW k \in 0 .. j PROVE E(k) <= E(j)
  <2>1. k * s <= j * s /\ k * s \in Nat
    BY <1>1
  <2>2. j * s \in 0 .. WordBits
    BY <1>2
  <2>3. k * s \in 0 .. j * s
    BY <2>1, <2>2
  <2> QED BY <2>2, <2>3, TwosGrow
<1>6. w < E(n)
  OBVIOUS
<1>7. ASSUME NEW i \in 1 .. n PROVE digit(i) = (w \div E(n - i)) % D
  <2> DEFINE a == (n - 1) * s
             b == (i - 1) * s
  <2>1. a \in Nat /\ b \in 0 .. a /\ a - b = (n - i) * s /\ a + s = n * s
    <3>1. i - 1 \in Nat /\ n - 1 \in Nat /\ i - 1 <= n - 1
      BY <1>1
    <3>2. a \in Nat /\ b \in Nat /\ b <= a
      BY <1>1, <3>1
    <3>3. a - b = (n - i) * s /\ a + s = n * s
      BY <1>1
    <3> HIDE DEF a, b, n
    <3> QED BY <3>2, <3>3
  <2>2. n * s <= WordBits /\ n * s \in 0 .. WordBits
    BY <1>1, <1>2
  <2>3. w < 2 ^ WordBits
    <3>1. 2 ^ (n * s) <= 2 ^ WordBits
      <4>1. WordBits \in 0 .. WordBits
        BY Sizes
      <4> QED BY <2>2, <4>1, TwosGrow
    <3>2. 2 ^ (n * s) \in Nat /\ 2 ^ WordBits \in Nat
      BY <2>2, TwosAreNumbers, Sizes
    <3> QED BY <1>6, <3>1, <3>2
  <2>4. RotateLeft(RotateLeft(w, WordBits - a), b) % (2 ^ s) = (w \div (2 ^ (a - b))) % (2 ^ s)
    <3>1. a + s <= WordBits
      BY <2>1, <2>2
    <3> HIDE DEF a, b
    <3> QED BY <2>1, <2>3, <3>1, RotatedDigit
  <2> HIDE DEF n
  <2> QED BY <2>1, <2>4
<1>8. printXOBNumber(w, s) = [i \in 1 .. n - Cardinality(skipped) |->
                                printDigit(digit(i + Cardinality(skipped)))]
  BY DEF printXOBNumber
<1> HIDE DEF n, D, E, digit
<1> DEFINE S == {k \in 1 .. n : w < E(k)}
<1>9. PICK m \in 1 .. n : w < E(m) /\ \A k \in 1 .. m - 1 : w >= E(k)
  <2>1. n \in S /\ S \in SUBSET (1 .. n)
    BY <1>1, <1>6
  <2>2. PICK m \in S : \A k \in 1 .. m - 1 : k \notin S
    <3> HIDE DEF S
    <3>1. S \in SUBSET Nat /\ S # {}
      BY <1>1, <2>1
    <3>2. PICK m \in S : \A j \in S : m <= j
      BY <3>1, LeastOf
    <3>3. \A k \in 1 .. m - 1 : k \notin S
      BY <3>1, <3>2
    <3> QED BY <3>2, <3>3
  <2>3. ASSUME NEW k \in 1 .. m - 1 PROVE w >= E(k)
    <3>1. k \in 1 .. n /\ k \in 0 .. n /\ ~(w < E(k))
      BY <1>1, <2>2
    <3>2. E(k) \in Nat
      BY <1>2, <3>1
    <3> QED BY <3>1, <3>2
  <2> QED BY <2>2, <2>3
<1>10. ASSUME NEW i \in 1 .. n - m PROVE digit(i) = 0
  <2>1. i \in 1 .. n /\ n - i \in 0 .. n /\ m \in 0 .. n - i /\ m \in 0 .. n
    BY <1>1
  <2>2. E(m) <= E(n - i) /\ E(m) \in Nat /\ E(n - i) \in Nat \ {0}
    BY <1>2, <1>5, <2>1
  <2>3. w < 1 * E(n - i)
    BY <1>9, <2>2
  <2>4. w \div E(n - i) < 1 /\ w \div E(n - i) \in Nat
    BY <2>2, <2>3, QuotientBounds, Divided
  <2>5. w \div E(n - i) = 0
    BY <2>4
  <2>6. 0 % D = 0
    BY <1>3
  <2> QED BY <1>7, <2>1, <2>5, <2>6
<1>11. ASSUME m # 1 PROVE digit((n - m) + 1) # 0 /\ (n - m) + 1 \in 1 .. n
  <2>1. /\ (n - m) + 1 \in 1 .. n /\ n - ((n - m) + 1) = m - 1 /\ m - 1 \in 1 .. m - 1
        /\ m - 1 \in 0 .. n - 1 /\ (m - 1) + 1 = m /\ m - 1 \in 0 .. n
    BY <1>1, <1>11
  <2> DEFINE e == E(m - 1)
             q == w \div e
  <2>2. e \in Nat \ {0} /\ w >= e /\ w < D * e
    <3>1. E((m - 1) + 1) = D * E(m - 1)
      BY <1>4, <2>1
    <3> QED BY <1>2, <1>9, <2>1, <3>1
  <2>3. q < D /\ q \in Nat /\ ~(q < 1)
    <3>1. ~(w < 1 * e)
      BY <2>2
    <3> HIDE DEF e
    <3>2. q < D
      BY <1>3, <2>2, QuotientBounds
    <3>3. ~(q < 1) /\ q \in Nat
      BY <2>2, <3>1, QuotientBounds, Divided
    <3> QED BY <3>2, <3>3
  <2>4. digit((n - m) + 1) = q % D
    BY <1>7, <2>1
  <2> HIDE DEF q
  <2>5. q % D = q
    <3>1. ((0 * D) + q) % D = q
      BY <1>3, <2>3, Quotient
    <3>2. (0 * D) + q = q
      BY <1>3, <2>3
    <3> QED BY <3>1, <3>2
  <2> QED BY <2>1, <2>3, <2>4, <2>5
<1>12. skipped = 1 .. n - m
  <2>1. ASSUME NEW i \in 1 .. n - m PROVE i \in skipped
    <3>1. i \in 1 .. n - 1 /\ \A j \in 1 .. i : j \in 1 .. n - m
      BY <1>1
    <3> QED BY <1>10, <3>1
  <2>2. ASSUME NEW i \in skipped PROVE i \in 1 .. n - m
    <3>1. ASSUME i > n - m PROVE FALSE
      <4>1. m # 1 /\ (n - m) + 1 \in 1 .. i
        BY <1>1, <3>1
      <4> QED BY <1>11, <4>1
    <3>2. i \in 1 .. n - 1
      OBVIOUS
    <3> HIDE DEF skipped
    <3>3. i \in 1 .. n - 1 /\ ~(i > n - m) /\ m \in 1 .. n
      BY <3>1, <3>2
    <3> QED BY <1>1, <3>3
  <2> HIDE DEF skipped
  <2> QED BY <2>1, <2>2
<1>13. Cardinality(skipped) = n - m
  <2>1. n - m \in Nat /\ n - m \in Int /\ 1 \in Int
    BY <1>1
  <2> DEFINE d == n - m
  <2> HIDE DEF d, skipped
  <2>2. Cardinality(1 .. d) = IF 1 > d THEN 0 ELSE d - 1 + 1
    BY <2>1, FS_Interval DEF d
  <2>3. Cardinality(1 .. d) = d
    BY <2>1, <2>2 DEF d
  <2> QED BY <1>12, <2>3, Zenon DEF d
<1> HIDE DEF skipped
<1>14. printXOBNumber(w, s) = [i \in 1 .. m |-> printDigit(digit(i + (n - m)))]
  <2>1. n - (n - m) = m
    BY <1>1
  <2> QED BY <1>8, <1>13, <2>1
<1>15. Numeral(D, w) = [i \in 1 .. m |-> Digit(D, w, m - i)]
  <2>1. m \in 1 .. WordBits
    BY <1>1, Sizes
  <2>2. \A k \in 1 .. m : D ^ k = E(k) /\ D ^ k \in Nat
    <3>1. \A k \in 1 .. m : k \in 0 .. n
      BY <1>1
    <3> QED BY <1>2, <3>1
  <2>3. w < D ^ m /\ \A k \in 1 .. m - 1 : w >= D ^ k
    <3>1. m \in 1 .. m /\ \A k \in 1 .. m - 1 : k \in 1 .. m
      BY <1>1
    <3> QED BY <1>9, <2>2, <3>1
  <2> QED BY <2>1, <2>2, <2>3, NumeralIs
<1>16. ASSUME NEW i \in 1 .. m
       PROVE  printDigit(digit(i + (n - m))) = Digit(D, w, m - i)
  <2>1. i + (n - m) \in 1 .. n /\ n - (i + (n - m)) = m - i /\ m - i \in 0 .. n
    BY <1>1
  <2>2. digit(i + (n - m)) = (w \div E(m - i)) % D
    BY <1>7, <2>1
  <2>3. D ^ (m - i) = E(m - i)
    BY <1>2, <2>1
  <2> QED BY <2>2, <2>3 DEF printDigit, Digit
<1>17. printXOBNumber(w, s) = Numeral(D, w)
  BY <1>14, <1>15, <1>16
<1> QED BY <1>17 DEF D

\* L digits are what w has, none of them a zero in front.
Decimal(w, L) ==
    /\ L = Len(DecimalDigits[w])
    /\ w < 10 ^ L
    /\ w = 0 => L = 0
    /\ w # 0 => L # 0 /\ w >= 10 ^ (L - 1)
    /\ \A i \in 1 .. L : DecimalDigits[w][i] = (w \div (10 ^ (L - i))) % 10

LEMMA DecimalStep ==
    ASSUME NEW w \in Nat \ {0}, NEW K \in 0 .. Tens - 1, Decimal(w \div 10, K)
    PROVE  Decimal(w, K + 1)
<1> DEFINE q == w \div 10
           d == DecimalDigits[q]
           e == DecimalDigits[w]
<1>1. q \in Nat /\ d \in Seq(0 .. 9) /\ e = Append(d, w % 10) /\ w % 10 \in 0 .. 9
  <2>1. q \in Nat /\ w % 10 \in 0 .. 9 /\ w # 0 /\ w \in Nat
    BY ByTen
  <2>2. e = Append(d, w % 10)
    BY <2>1, DigitsTyped
  <2>3. d \in Seq(0 .. 9)
    <3> HIDE DEF q
    <3> QED BY <2>1, DigitsTyped
  <2> QED BY <2>1, <2>2, <2>3
<1>2. Len(d) = K /\ Len(e) = K + 1 /\ K \in Nat
  BY <1>1, TenUp DEF Decimal
<1>3. /\ \A i \in 1 .. K : e[i] = d[i]
      /\ e[K + 1] = w % 10
  <2> HIDE DEF d, e
  <2> QED BY <1>1, <1>2
<1>4. 10 ^ K \in Nat \ {0} /\ 10 ^ (K + 1) = 10 * (10 ^ K) /\ 10 ^ (K + 1) = (10 ^ K) * 10
  <2>1. K \in 0 .. Tens
    BY TenUp
  <2>2. 10 ^ K \in Nat \ {0} /\ 10 ^ (K + 1) = 10 * (10 ^ K)
    BY <2>1, TenUp, TensAreNumbers
  <2> QED BY <2>2
<1>5. w < 10 ^ (K + 1)
  <2>1. w \div 10 < 10 ^ K
    BY DEF Decimal
  <2>2. 10 \in Nat \ {0} /\ 10 ^ K \in Nat
    BY <1>4
  <2>3. w < (10 ^ K) * 10
    BY <2>1, <2>2, QuotientBounds
  <2> QED BY <1>4, <2>3
<1>6. w >= 10 ^ K
  <2>1. CASE q = 0
    <3>1. K = 0 /\ 10 ^ 0 = 1
      BY <2>1, TenUp DEF Decimal
    <3> QED BY <3>1
  <2>2. CASE q # 0
    <3>1. K # 0 /\ q >= 10 ^ (K - 1)
      BY <2>2 DEF Decimal
    <3>2. K - 1 \in 0 .. Tens - 1 /\ K - 1 \in 0 .. Tens /\ (K - 1) + 1 = K
      BY <1>2, <3>1, TenUp
    <3>3. 10 ^ ((K - 1) + 1) = 10 * (10 ^ (K - 1)) /\ 10 ^ (K - 1) \in Nat
      BY <3>2, TenUp, TensAreNumbers
    <3> DEFINE p == 10 ^ (K - 1)
    <3>4. p \in Nat /\ q >= p /\ 10 ^ K = p * 10
      BY <3>1, <3>2, <3>3
    <3>5. ~(w \div 10 < p)
      BY <1>1, <3>4
    <3>6. ~(w < p * 10)
      <4> HIDE DEF p
      <4>1. 10 \in Nat \ {0}
        OBVIOUS
      <4> QED BY <3>4, <3>5, <4>1, QuotientBounds
    <3> HIDE DEF p
    <3> QED BY <1>4, <3>4, <3>6
  <2> QED BY <2>1, <2>2
<1>7. ASSUME NEW i \in 1 .. K + 1 PROVE e[i] = (w \div (10 ^ ((K + 1) - i))) % 10
  <2>1. CASE i = K + 1
    <3>1. (K + 1) - i = 0 /\ 10 ^ 0 = 1
      BY <1>2, <2>1, TenUp
    <3>2. w \div 1 = w
      OBVIOUS
    <3>3. e[i] = w % 10
      BY <1>3, <2>1
    <3> QED BY <3>1, <3>2, <3>3
  <2>2. CASE i # K + 1
    <3>1. /\ i \in 1 .. K /\ K - i \in 0 .. Tens - 1 /\ K - i \in 0 .. Tens
          /\ (K + 1) - i = (K - i) + 1
      BY <1>2, <2>2, TenUp
    <3>2. e[i] = (q \div (10 ^ (K - i))) % 10
      BY <1>3, <3>1 DEF Decimal
    <3>3. 10 ^ ((K - i) + 1) = 10 * (10 ^ (K - i)) /\ 10 ^ (K - i) \in Nat \ {0}
      BY <3>1, TenUp, TensAreNumbers
    <3>4. (w \div 10) \div (10 ^ (K - i)) = w \div (10 * (10 ^ (K - i)))
      <4> DEFINE p == 10 ^ (K - i)
      <4>1. p \in Nat \ {0} /\ 10 \in Nat \ {0}
        BY <3>3
      <4> HIDE DEF p
      <4>2. (w \div 10) \div p = w \div (10 * p)
        BY <4>1, DividedTwice
      <4> QED BY <4>2 DEF p
    <3> QED BY <3>1, <3>2, <3>3, <3>4
  <2> QED BY <2>1, <2>2
<1> HIDE DEF e
<1>8. (K + 1) - 1 = K /\ K + 1 # 0 /\ w # 0
  BY <1>2
<1> QED BY <1>2, <1>5, <1>6, <1>7, <1>8 DEF Decimal, e

\* Division by ten yields the digits, as many as there are.
LEMMA DecimalsAre ==
    \A m \in 0 .. Tens : \A w \in Nat : w < 10 ^ m => \E L \in 0 .. m : Decimal(w, L)
<1> DEFINE S == {m \in 0 .. Tens : \A w \in Nat : w < 10 ^ m => \E L \in 0 .. m : Decimal(w, L)}
<1>0. ASSUME NEW w \in Nat, w = 0 PROVE Decimal(w, 0)
  <2>1. DecimalDigits[0] = <<>>
    BY DigitsTyped
  <2> QED BY <1>0, <2>1, TenUp DEF Decimal
<1>1. 0 \in S
  <2>1. ASSUME NEW w \in Nat, w < 10 ^ 0 PROVE w = 0
    BY <2>1, TenUp
  <2>2. \A w \in Nat : w < 10 ^ 0 => \E L \in 0 .. 0 : Decimal(w, L)
    BY <1>0, <2>1
  <2> QED BY <2>2, TenUp
<1>2. ASSUME NEW m \in 0 .. Tens - 1, m \in S PROVE m + 1 \in S
  <2>1. ASSUME NEW w \in Nat, w < 10 ^ (m + 1) PROVE \E L \in 0 .. m + 1 : Decimal(w, L)
    <3>1. CASE w = 0
      <4>1. 0 \in 0 .. m + 1
        BY TenUp
      <4> QED BY <1>0, <3>1, <4>1
    <3>2. CASE w # 0
      <4>1. 10 ^ (m + 1) = (10 ^ m) * 10 /\ 10 ^ m \in Nat
        <5>1. 10 ^ (m + 1) = 10 * (10 ^ m) /\ m \in 0 .. Tens
          BY TenUp
        <5>2. 10 ^ m \in Nat
          BY <5>1, TensAreNumbers
        <5> QED BY <5>1, <5>2
      <4>2. w \div 10 < 10 ^ m /\ w \div 10 \in Nat
        <5>1. 10 \in Nat \ {0} /\ w < (10 ^ m) * 10
          BY <2>1, <4>1
        <5> QED BY <4>1, <5>1, QuotientBounds, ByTen
      <4>3. PICK K \in 0 .. m : Decimal(w \div 10, K)
        BY <1>2, <4>2
      <4>4. Decimal(w, K + 1)
        <5>1. K \in 0 .. Tens - 1 /\ w \in Nat \ {0}
          BY <3>2, TenUp
        <5> QED BY <4>3, <5>1, DecimalStep
      <4>5. K + 1 \in 0 .. m + 1
        BY TenUp
      <4> QED BY <4>4, <4>5
    <3> QED BY <3>1, <3>2
  <2>2. m + 1 \in 0 .. Tens
    BY TenUp
  <2> QED BY <2>1, <2>2
<1>3. 0 .. Tens \subseteq S
  <2> HIDE DEF S
  <2> QED BY <1>1, <1>2, SetInductionUpTo, TenUp
<1> QED BY <1>3

\* A word has no more decimal than octal digits and one.
Decimals == (WordBits \div 3) + 1

LEMMA WordsAreShort ==
    /\ Decimals \in Nat \ {0} /\ Decimals <= Tens /\ Decimals <= WordBits
    /\ MinWord < 10 ^ Decimals
<1> DEFINE t == WordBits \div 3
           S == {k \in 0 .. t : 2 ^ (3 * k) <= 10 ^ k}
<1>1. /\ t \in Nat \ {0} /\ 3 * t = WordBits - 1 /\ t + 1 <= Tens /\ Decimals = t + 1
      /\ t + 1 <= WordBits
  <2>1. WordBits \in Nat /\ WordBits % 12 = 4 /\ WordBits >= 4
    BY PrintfAssumption
  <2>2. t \in Nat \ {0} /\ 3 * t = WordBits - 1
    BY <2>1
  <2> HIDE DEF t
  <2> QED BY <2>1, <2>2, Sizes DEF Tens, Decimals, t
<1> HIDE DEF t
<1>2. 0 \in S
  <2>1. 3 * 0 = 0 /\ 0 \in 0 .. t
    BY <1>1
  <2> QED BY <2>1, PowersAssumption
<1>3. ASSUME NEW k \in 0 .. t - 1, k \in S PROVE k + 1 \in S
  <2>1. /\ 3 * k \in Nat /\ 3 * k + 3 <= WordBits /\ 3 * (k + 1) = 3 * k + 3 /\ k + 1 \in 0 .. t
        /\ 3 * k \in 0 .. WordBits /\ k \in 0 .. Tens - 1 /\ k \in 0 .. Tens
    BY <1>1, TenUp, Sizes
  <2>2. 2 ^ (3 * k + 3) = (2 ^ (3 * k)) * (2 ^ 3)
    BY <2>1, TwosMultiply
  <2>3. 2 ^ 3 = 8 /\ 2 ^ (3 * k) \in Nat /\ 10 ^ (k + 1) = 10 * (10 ^ k) /\ 10 ^ k \in Nat
    BY <2>1, TwosAreNumbers, TenUp, TensAreNumbers
  <2>4. 2 ^ (3 * k) <= 10 ^ k
    BY <1>3
  <2>5. (2 ^ (3 * k)) * 8 <= 10 * (10 ^ k)
    <3> DEFINE a == 2 ^ (3 * k)
               b == 10 ^ k
    <3>1. a \in Nat /\ b \in Nat /\ a <= b
      BY <2>3, <2>4
    <3> HIDE DEF a, b
    <3>2. a * 8 <= 10 * b
      BY <3>1
    <3> QED BY <3>2 DEF a, b
  <2> QED BY <2>1, <2>2, <2>3, <2>5
<1>4. 0 .. t \subseteq S
  <2> HIDE DEF S
  <2> QED BY <1>1, <1>2, <1>3, SetInductionUpTo
<1>5. MinWord <= 10 ^ t
  <2>1. t \in 0 .. t
    BY <1>1
  <2>2. t \in S
    BY <1>4, <2>1
  <2> QED BY <1>1, <2>2 DEF MinWord
<1>6. 10 ^ (t + 1) = 10 * (10 ^ t) /\ 10 ^ t \in Nat \ {0}
  <2>1. t \in 0 .. Tens - 1 /\ t \in 0 .. Tens
    BY <1>1, TenUp
  <2> QED BY <2>1, TenUp, TensAreNumbers
<1>7. 10 ^ t < 10 ^ (t + 1)
  <2> DEFINE p == 10 ^ t
  <2>1. p \in Nat \ {0} /\ 10 ^ (t + 1) = 10 * p
    BY <1>6
  <2> HIDE DEF p
  <2>2. p < 10 ^ (t + 1)
    BY <2>1
  <2> QED BY <2>2 DEF p
<1>8. MinWord \in Nat /\ 10 ^ (t + 1) \in Nat
  BY <1>6, Words
<1> QED BY <1>1, <1>5, <1>6, <1>7, <1>8

\* A text in two parts.
LEMMA TwoParts ==
    ASSUME NEW s \in Seq(Char), NEW t \in Seq(Char), NEW u \in Seq(Char),
           Len(u) = Len(s) + Len(t),
           \A i \in 1 .. Len(s) : u[i] = s[i], \A i \in 1 .. Len(t) : u[Len(s) + i] = t[i]
    PROVE  s \o t = u
<1>1. Len(s) \in Nat /\ Len(t) \in Nat
  OBVIOUS
<1>2. /\ s \o t \in Seq(Char) /\ Len(s \o t) = Len(s) + Len(t)
      /\ \A i \in 1 .. Len(s) + Len(t) : (s \o t)[i] = IF i <= Len(s) THEN s[i] ELSE t[i - Len(s)]
  OBVIOUS
<1>3. ASSUME NEW i \in 1 .. Len(s) + Len(t) PROVE (s \o t)[i] = u[i]
  <2>1. CASE i <= Len(s)
    BY <1>1, <1>2, <2>1
  <2>2. CASE ~(i <= Len(s))
    <3>1. i - Len(s) \in 1 .. Len(t) /\ Len(s) + (i - Len(s)) = i
      BY <1>1, <2>2
    <3>2. u[Len(s) + (i - Len(s))] = t[i - Len(s)]
      BY <3>1
    <3> QED BY <1>2, <2>2, <3>1, <3>2
  <2> QED BY <2>1, <2>2
<1> DEFINE c == s \o t
<1>4. c \in Seq(Char) /\ Len(c) = Len(u) /\ \A i \in 1 .. Len(c) : c[i] = u[i]
  BY <1>2, <1>3
<1> HIDE DEF c
<1>5. c = u
  BY <1>4, SeqEqual
<1> QED BY <1>5 DEF c

LEMMA DigitTyped ==
    ASSUME NEW v \in Nat, NEW p \in 0 .. Tens PROVE Digit(10, v, p) \in Char
<1>1. v \div (10 ^ p) \in Nat
  <2>1. 10 ^ p \in Nat \ {0}
    BY TensAreNumbers
  <2> QED BY <2>1, Divided
<1>2. (v \div (10 ^ p)) % 10 \in 0 .. 15
  BY <1>1
<1> QED BY <1>2, DigitIsCharacter DEF Digit, printDigit

\* The L digits of v and the zeros in front of them are n, no fewer than are wanted.
Padded(v, L, wanted, zeros, n) ==
    /\ v \in Nat /\ L \in 0 .. Tens /\ Decimal(v, L) /\ wanted \in 0 .. Tens
    /\ zeros = IF L < wanted THEN wanted - L ELSE 0
    /\ n = IF L < wanted THEN wanted ELSE L

\* Zeros, the digits that div gives, and the digits by their places.
Zeros(z) == [i \in 1 .. z |-> "0"]
Names(v) == [i \in DOMAIN DecimalDigits[v] |-> printDigit(DecimalDigits[v][i])]
InPlaces(v, n) == [i \in 1 .. n |-> Digit(10, v, n - i)]

\* The digits that division yields, with zeros in front up to the number wanted.
LEMMA PaddedDigits ==
    ASSUME NEW v, NEW L, NEW wanted, NEW zeros, NEW n, Padded(v, L, wanted, zeros, n)
    PROVE  Zeros(zeros) \o Names(v) = InPlaces(v, n)
<1> DEFINE s == [i \in 1 .. zeros |-> "0"]
           d == DecimalDigits[v]
           t == [i \in DOMAIN d |-> printDigit(d[i])]
           u == [i \in 1 .. n |-> Digit(10, v, n - i)]
<1>1. /\ zeros \in Nat /\ n \in 0 .. Tens /\ n = zeros + L /\ L \in Nat
      /\ L \in 0 .. Tens /\ v \in Nat /\ Decimal(v, L)
  BY TenUp DEF Padded
<1>2. d \in Seq(0 .. 9) /\ Len(d) = L /\ DOMAIN d = 1 .. L
  <2>1. DecimalDigits[v] \in Seq(0 .. 9)
    BY <1>1, DigitsTyped
  <2> QED BY <1>1, <2>1 DEF Decimal
<1>3. s \in [1 .. zeros -> Char]
  BY CharAssumption
<1>4. t \in [1 .. L -> Char]
  <2> HIDE DEF d
  <2>1. \A i \in 1 .. L : printDigit(d[i]) \in Char
    <3>1. \A i \in 1 .. L : d[i] \in 0 .. 15
      BY <1>2
    <3> QED BY <3>1, DigitIsCharacter
  <2>2. t = [i \in 1 .. L |-> printDigit(d[i])]
    BY <1>2
  <2> HIDE DEF t
  <2> QED BY <2>1, <2>2
<1>5. u \in [1 .. n -> Char]
  <2>1. \A i \in 1 .. n : n - i \in 0 .. Tens
    BY <1>1, TenUp
  <2>2. \A i \in 1 .. n : Digit(10, v, n - i) \in Char
    BY <1>1, <2>1, DigitTyped
  <2> QED BY <1>1, <2>2
<1>6. ASSUME NEW i \in 1 .. zeros PROVE u[i] = s[i]
  <2>1. n - i \in 0 .. Tens /\ L \in 0 .. n - i /\ i \in 1 .. n
    BY <1>1, TenUp
  <2> DEFINE p == 10 ^ (n - i)
             k == 10 ^ L
  <2>2. k <= p /\ k \in Nat /\ p \in Nat \ {0} /\ v < k
    BY <1>1, <2>1, TensGrow, TensAreNumbers DEF Decimal
  <2> HIDE DEF p, k
  <2>3. v < 1 * p
    BY <1>1, <2>2
  <2>4. v \div p < 1 /\ v \div p \in Nat
    BY <1>1, <2>2, <2>3, QuotientBounds, Divided
  <2>5. (v \div p) % 10 = 0
    BY <2>4
  <2>6. Digit(10, v, n - i) = "0"
    <3>1. Digit(10, v, n - i) = DigitNames[0 + 1]
      BY <2>5 DEF Digit, p
    <3> QED BY <3>1 DEF DigitNames
  <2> QED BY <2>1, <2>6
<1>7. ASSUME NEW i \in 1 .. L PROVE u[zeros + i] = t[i]
  <2>1. zeros + i \in 1 .. n /\ n - (zeros + i) = L - i
    BY <1>1
  <2>2. d[i] = (v \div (10 ^ (L - i))) % 10
    BY <1>1 DEF Decimal
  <2> HIDE DEF d
  <2>3. t[i] = printDigit(d[i])
    BY <1>2
  <2>4. u[zeros + i] = Digit(10, v, L - i)
    BY <2>1
  <2> HIDE DEF t, u
  <2> QED BY <2>2, <2>3, <2>4 DEF Digit, printDigit
<1> HIDE DEF s, t, u, d
<1>8. /\ s \in Seq(Char) /\ Len(s) = zeros /\ t \in Seq(Char) /\ Len(t) = L
      /\ u \in Seq(Char) /\ Len(u) = n
  BY <1>1, <1>3, <1>4, <1>5
<1>9. /\ \A i \in 1 .. Len(s) : u[i] = s[i]
      /\ \A i \in 1 .. Len(t) : u[Len(s) + i] = t[i]
      /\ Len(u) = Len(s) + Len(t)
  BY <1>1, <1>6, <1>7, <1>8
<1>10. s \o t = u
  BY <1>8, <1>9, TwoParts, Zenon
<1> QED BY <1>10, Zenon DEF s, t, u, d, Zeros, Names, InPlaces

\* The numeral of a number that a word holds, and the digits that division yields.
LEMMA DecimalNumeral ==
    ASSUME NEW v \in 0 .. MinWord
    PROVE  \E L \in 0 .. Tens :
              /\ Decimal(v, L)
              /\ \A n : n = (IF L < 1 THEN 1 ELSE L)
                           => Numeral(10, v) = InPlaces(v, n)
<1>1. v \in Nat /\ v < 10 ^ Decimals /\ Decimals \in 0 .. Tens
  <2>1. Decimals \in 0 .. Tens
    BY WordsAreShort, TenUp
  <2>2. 10 ^ Decimals \in Nat
    BY <2>1, TensAreNumbers
  <2> QED BY <2>1, <2>2, Words, WordsAreShort
<1>2. PICK L \in 0 .. Decimals : Decimal(v, L)
  BY <1>1, DecimalsAre
<1>3. ASSUME NEW n, n = (IF L < 1 THEN 1 ELSE L)
      PROVE  Numeral(10, v) = InPlaces(v, n)
  <2>1. n \in 1 .. WordBits /\ n \in 0 .. Tens
    BY <1>3, WordsAreShort, Sizes, TenUp
  <2>2. \A k \in 1 .. n : k \in 0 .. Tens /\ 10 ^ k \in Nat
    <3>1. \A k \in 1 .. n : k \in 0 .. Tens
      BY <2>1, TenUp
    <3> QED BY <3>1, TensAreNumbers
  <2>3. v < 10 ^ n
    <3>1. CASE L < 1
      <4>1. L = 0 /\ n = 1 /\ 10 ^ 0 = 1 /\ 0 \in 0 .. Tens - 1 /\ 0 + 1 = 1
        BY <1>3, <3>1, TenUp, WordsAreShort
      <4>2. 10 ^ (0 + 1) = 10 * (10 ^ 0)
        BY <4>1, TenUp
      <4>3. v < 1
        BY <1>2, <4>1 DEF Decimal
      <4>4. 10 ^ 1 = 10
        BY <4>1, <4>2
      <4> QED BY <1>1, <4>1, <4>3, <4>4
    <3>2. CASE ~(L < 1)
      BY <1>2, <1>3, <3>2 DEF Decimal
    <3> QED BY <3>1, <3>2
  <2>4. ASSUME NEW k \in 1 .. n - 1 PROVE v >= 10 ^ k
    <3>1. L # 0 /\ n = L /\ k \in 0 .. L - 1 /\ L - 1 \in 0 .. Tens /\ k \in 0 .. Tens
      BY <1>3, <2>1, WordsAreShort, TenUp
    <3>2. v # 0
      BY <1>2, <3>1 DEF Decimal
    <3>3. v >= 10 ^ (L - 1)
      BY <1>2, <3>2 DEF Decimal
    <3>4. 10 ^ k <= 10 ^ (L - 1) /\ 10 ^ k \in Nat /\ 10 ^ (L - 1) \in Nat
      BY <3>1, TensGrow, TensAreNumbers
    <3> QED BY <1>1, <3>3, <3>4
  <2> QED BY <1>1, <2>1, <2>2, <2>3, <2>4, NumeralIs DEF InPlaces
<1>4. L \in 0 .. Tens
  BY <1>1, <1>2, TenUp
<1>5. \A n : n = (IF L < 1 THEN 1 ELSE L)
                 => Numeral(10, v) = InPlaces(v, n)
  BY <1>3
<1> QED BY <1>2, <1>4, <1>5, Zenon

LEMMA Associated == \A s, t, u \in Seq(Char) : (s \o t) \o u = s \o (t \o u)
BY ConcatAssociative

LEMMA NothingBefore == \A s \in Seq(Char) : <<>> \o s = s
BY ConcatEmptySeq

LEMMA MinusIsText == \A b : Minus(b) \in Seq(Char) /\ Minus(FALSE) = <<>>
BY CharAssumption DEF Minus

\* A text of digits.
LEMMA PlacesAreText ==
    ASSUME NEW v \in Nat, NEW n \in 0 .. Tens
    PROVE  InPlaces(v, n) \in Seq(Char)
<1>1. \A i \in 1 .. n : n - i \in 0 .. Tens
  BY TenUp
<1>2. \A i \in 1 .. n : Digit(10, v, n - i) \in Char
  BY <1>1, DigitTyped
<1>3. n \in Nat
  BY TenUp
<1> DEFINE s == InPlaces(v, n)
<1>4. s \in [1 .. n -> Char]
  BY <1>2 DEF InPlaces
<1> HIDE DEF s
<1>5. s \in Seq(Char)
  BY <1>3, <1>4
<1> QED BY <1>5 DEF s

\* The number v that w stands for has L digits, and at least r8 are printed: n in all.
Places(w, r8, v, L, n) ==
    /\ r8 \in 0 .. Tens /\ L \in 0 .. Tens /\ v \in Nat /\ Decimal(v, L)
    /\ v = IF w >= MinWord THEN 2 ^ WordBits - w ELSE w
    /\ LET wanted == IF r8 = 0 THEN 1 ELSE r8
       IN /\ wanted \in 0 .. Tens /\ n \in 0 .. Tens
          /\ n = IF L < wanted THEN wanted ELSE L

\* What printDecimalNumber prints: the sign and the digits, with enough zeros in front.
LEMMA DecimalPrinted ==
    ASSUME NEW w, NEW r8, NEW v, NEW L, NEW n, Places(w, r8, v, L, n)
    PROVE  printDecimalNumber(w, r8)
             = Minus(w >= MinWord) \o InPlaces(v, n)
<1> DEFINE wanted == IF r8 = 0 THEN 1 ELSE r8
           digits == DecimalDigits[v]
           zeros == IF L < wanted THEN wanted - L ELSE 0
           padding == [i \in 1 .. zeros |-> "0"]
           names == [i \in DOMAIN digits |-> printDigit(digits[i])]
           sign == Minus(w >= MinWord)
           places == [i \in 1 .. n |-> Digit(10, v, n - i)]
<1>0. /\ v \in Nat /\ L \in 0 .. Tens /\ Decimal(v, L) /\ wanted \in 0 .. Tens /\ n \in 0 .. Tens
      /\ v = IF w >= MinWord THEN 2 ^ WordBits - w ELSE w
      /\ n = IF L < wanted THEN wanted ELSE L
  BY DEF Places
<1>1. Len(digits) = L
  BY <1>0 DEF Decimal
<1>2. printDecimalNumber(w, r8) = sign \o padding \o names
  BY <1>0, <1>1, Zenon DEF printDecimalNumber, Minus
<1> HIDE DEF wanted
<1>3. padding \o names = places
  <2>1. PICK z : z = zeros
    OBVIOUS
  <2>2. Padded(v, L, wanted, z, n)
    BY <1>0, <2>1 DEF Padded
  <2>3. Zeros(z) \o Names(v) = InPlaces(v, n)
    BY <2>2, PaddedDigits, Zenon
  <2> QED BY <2>1, <2>3, Zenon DEF Zeros, Names, InPlaces
<1>4. padding \in Seq(Char)
  <2>0. zeros \in Nat
    BY <1>0, TenUp
  <2>1. PICK z \in Nat : z = zeros
    BY <2>0, Zenon
  <2>2. [i \in 1 .. z |-> "0"] \in Seq(Char)
    BY CharAssumption
  <2> QED BY <2>1, <2>2, Zenon
<1>5. names \in Seq(Char)
  <2>1. digits \in Seq(0 .. 9)
    BY <1>0, DigitsTyped
  <2> HIDE DEF digits
  <2>2. \A i \in DOMAIN digits : printDigit(digits[i]) \in Char
    <3>1. \A i \in DOMAIN digits : digits[i] \in 0 .. 15
      BY <2>1
    <3> QED BY <3>1, DigitIsCharacter
  <2>3. DOMAIN digits = 1 .. Len(digits) /\ Len(digits) \in Nat
    BY <2>1
  <2> QED BY <2>2, <2>3
<1>6. sign \in Seq(Char)
  BY MinusIsText
<1> HIDE DEF padding, names, sign, places
<1>7. sign \o padding \o names = sign \o (padding \o names)
  BY <1>4, <1>5, <1>6, Associated
<1>8. printDecimalNumber(w, r8) = sign \o places
  BY <1>2, <1>3, <1>7
<1> QED BY <1>8, Zenon DEF sign, places, InPlaces

\* A word of which the sign is taken is what a word holds.
LEMMA Magnitude ==
    ASSUME NEW w \in 0 .. 2 ^ WordBits - 1
    PROVE  (IF w >= MinWord THEN 2 ^ WordBits - w ELSE w) \in 0 .. MinWord
BY Words

\* A signed word prints as its sign and its numeral.
LEMMA WordPrinted ==
    ASSUME NEW w \in 0 .. 2 ^ WordBits - 1,
           NEW v, v = IF w >= MinWord THEN 2 ^ WordBits - w ELSE w
    PROVE  printDecimalNumber(w, 0) = Minus(w >= MinWord) \o Numeral(10, v)
<1>1. v \in 0 .. MinWord /\ v \in Nat
  BY Magnitude, Words
<1>2. PICK L \in 0 .. Tens :
         /\ Decimal(v, L)
         /\ \A n : n = (IF L < 1 THEN 1 ELSE L)
                      => Numeral(10, v) = InPlaces(v, n)
  BY <1>1, DecimalNumeral
<1>3. PICK n : n = IF L < 1 THEN 1 ELSE L
  OBVIOUS
<1>4. 0 \in 0 .. Tens /\ 1 \in 0 .. Tens /\ n \in 0 .. Tens
  BY <1>3, TenUp, Sizes
<1>6. Places(w, 0, v, L, n)
  BY <1>1, <1>2, <1>3, <1>4 DEF Places
<1>7. printDecimalNumber(w, 0) = Minus(w >= MinWord) \o InPlaces(v, n)
  BY <1>6, DecimalPrinted, Zenon
<1>8. Numeral(10, v) = InPlaces(v, n)
  BY <1>2, <1>3
<1> QED BY <1>7, <1>8, Zenon

LEMMA NumeralIsText ==
    ASSUME NEW v \in 0 .. MinWord PROVE Numeral(10, v) \in Seq(Char)
<1>1. PICK L \in 0 .. Tens :
         \A n : n = (IF L < 1 THEN 1 ELSE L) => Numeral(10, v) = InPlaces(v, n)
  BY DecimalNumeral
<1>2. PICK n : n = IF L < 1 THEN 1 ELSE L
  OBVIOUS
<1>3. n \in 0 .. Tens /\ v \in Nat
  BY <1>2, TenUp, Sizes, Words
<1>4. InPlaces(v, n) \in Seq(Char)
  BY <1>3, PlacesAreText
<1> QED BY <1>1, <1>2, <1>4

\* The digits behind the point.
LEMMA FractionPrinted ==
    ASSUME NEW f \in Nat, f < 10 ^ Precision
    PROVE  printDecimalNumber(f, Precision)
             = InPlaces(f, Precision)
<1>1. f < MinWord /\ f \in 0 .. 2 ^ WordBits - 1 /\ f = IF f >= MinWord THEN 2 ^ WordBits - f ELSE f
  BY Words, PrintfAssumption
<1>2. PICK L \in 0 .. Precision : Decimal(f, L)
  BY DecimalsAre, TenUp
<1>3. /\ L \in 0 .. Tens /\ Precision \in 0 .. Tens
      /\ Precision = IF Precision = 0 THEN 1 ELSE Precision
      /\ Precision = IF L < Precision THEN Precision ELSE L
  BY <1>2, TenUp, Sizes
<1>4. printDecimalNumber(f, Precision)
        = Minus(f >= MinWord) \o InPlaces(f, Precision)
  <2>1. Places(f, Precision, f, L, Precision)
    BY <1>1, <1>2, <1>3 DEF Places
  <2> QED BY <2>1, DecimalPrinted, Zenon
<1> DEFINE places == InPlaces(f, Precision)
<1>5. Minus(f >= MinWord) = <<>> /\ places \in Seq(Char)
  <2>1. ~(f >= MinWord)
    BY <1>1, Words
  <2>2. Minus(f >= MinWord) = <<>>
    BY <2>1 DEF Minus
  <2>3. places \in Seq(Char)
    BY <1>3, PlacesAreText
  <2> QED BY <2>2, <2>3
<1> HIDE DEF places
<1>6. <<>> \o places = places
  BY <1>5, NothingBefore
<1> QED BY <1>4, <1>5, <1>6, Zenon DEF places

\* A multiple of 10 ^ Precision more leaves the digits below it as they are.
LEMMA SameDigits ==
    ASSUME NEW q \in Nat, NEW f \in Nat, NEW p \in 0 .. Precision - 1
    PROVE  Digit(10, q * (10 ^ Precision) + f, p) = Digit(10, f, p)
<1> DEFINE k == Precision - p
           a == 10 ^ (k - 1)
           b == 10 ^ k
           c == 10 ^ p
           T == 10 ^ Precision
<1>1. /\ k - 1 \in 0 .. Tens - 1 /\ k - 1 \in 0 .. Tens /\ k \in 0 .. Tens /\ p \in 0 .. Tens
      /\ (k - 1) + 1 = k /\ k + p = Precision /\ k \in Nat /\ p \in Nat
  BY TenUp, Sizes
<1>2. a \in Nat \ {0} /\ b \in Nat \ {0} /\ c \in Nat \ {0} /\ T \in Nat
  BY <1>1, TensAreNumbers, Words
<1>3. b = 10 * a
  BY <1>1, TenUp
<1>4. T = b * c
  <2>1. k + p <= Tens
    BY <1>1, TenUp
  <2> HIDE DEF k
  <2>2. 10 ^ (k + p) = (10 ^ k) * (10 ^ p)
    BY <1>1, <2>1, TensMultiply
  <2> QED BY <1>1, <2>2, Zenon
<1> HIDE DEF a, b, c, T
<1>5. q * T = (q * b) * c /\ q * b = (q * a) * 10 /\ q * b \in Nat /\ q * a \in Nat
  <2>1. q * (b * c) = (q * b) * c
    BY <1>2
  <2>2. q * (10 * a) = (q * a) * 10
    BY <1>2
  <2> QED BY <1>2, <1>3, <1>4, <2>1, <2>2, Products
<1> DEFINE x == q * b
           y == q * a
<1>6. x \in Nat /\ y \in Nat /\ q * T = x * c /\ x = y * 10
  BY <1>5
<1> HIDE DEF x, y
<1>7. (x * c + f) \div c = x + (f \div c)
  BY <1>2, <1>6, MultipleAdded
<1>8. f \div c \in Nat
  BY <1>2, Divided
<1>9. (y * 10 + (f \div c)) % 10 = (f \div c) % 10
  <2>1. 10 \in Nat \ {0}
    OBVIOUS
  <2> DEFINE g == f \div c
  <2>2. g \in Nat
    BY <1>8
  <2> HIDE DEF g
  <2>3. (y * 10 + g) % 10 = g % 10
    BY <1>6, <2>1, <2>2, MultipleAdded
  <2> QED BY <2>3 DEF g
<1>10. (((q * T) + f) \div c) % 10 = (f \div c) % 10
  BY <1>6, <1>7, <1>9, Zenon
<1> QED BY <1>10, Zenon DEF Digit, T, c

\* A double in reach of the registers prints as its whole part and its fraction.
LEMMA FloatPrinted ==
    ASSUME NEW num \in Nat, num \div FloatUnit < MinWord
    PROVE  printfFloatingPointTruncated(num)
             = Numeral(10, num \div FloatUnit) \o <<".">> \o Fraction(num)
<1> DEFINE q == num \div FloatUnit
           r == num % FloatUnit
           T == 10 ^ Precision
           f == (r * T) \div FloatUnit
<1>1. FloatUnit \in Nat \ {0} /\ Precision \in Nat \ {0} /\ MinWord \in Nat \ {0}
      /\ 2 ^ WordBits = 2 * MinWord
  BY Sizes, Words
<1>2. q \in Nat /\ r \in Nat /\ r < FloatUnit /\ num = q * FloatUnit + r /\ q < MinWord
  BY <1>1, Divided
<1>3. T \in Nat \ {0} /\ T < MinWord
  BY TenUp, TensAreNumbers, PrintfAssumption
<1> HIDE DEF r, T
<1>4. r * T \in Nat /\ f \in Nat /\ f < T
  <2>1. r * T \in Nat
    BY <1>2, <1>3
  <2>2. r * T < T * FloatUnit
    <3>1. r + 1 <= FloatUnit /\ r + 1 \in Nat
      BY <1>1, <1>2
    <3>2. T * (r + 1) <= T * FloatUnit
      BY <1>1, <1>3, <3>1
    <3>3. T * (r + 1) = r * T + T
      BY <1>2, <1>3
    <3>4. T * FloatUnit \in Nat
      BY <1>1, <1>3
    <3> DEFINE x == r * T
               y == T * FloatUnit
    <3>5. x \in Nat /\ y \in Nat /\ x + T <= y
      BY <2>1, <3>2, <3>3, <3>4
    <3> HIDE DEF x, y
    <3>6. x < y
      BY <1>3, <3>5
    <3> QED BY <3>6 DEF x, y
  <2> DEFINE x == r * T
  <2>3. x \in Nat /\ x < T * FloatUnit
    BY <2>1, <2>2
  <2> HIDE DEF x
  <2>4. x \div FloatUnit < T /\ x \div FloatUnit \in Nat
    BY <1>1, <1>3, <2>3, QuotientBounds, Divided
  <2> QED BY <2>1, <2>4 DEF x
<1>5. cvttsd2si(num) = q /\ Signed(q) = q /\ q \in 0 .. 2 ^ WordBits - 1 /\ ~(q >= MinWord)
  BY <1>1, <1>2 DEF cvttsd2si, Signed
<1> HIDE DEF q
<1>6. num - q * FloatUnit = r
  <2> DEFINE x == q * FloatUnit
  <2>1. x \in Nat /\ num = x + r
    BY <1>1, <1>2
  <2> HIDE DEF x
  <2>2. num - x = r
    BY <1>2, <2>1
  <2> QED BY <2>2 DEF x
<1>7. cvttsd2si(r * T) = f
  BY <1>1, <1>3, <1>4 DEF cvttsd2si
<1> HIDE DEF f
<1>8. printfFloatingPointTruncated(num)
        = printDecimalNumber(q, 0) \o <<".">> \o printDecimalNumber(f, Precision)
  BY <1>5, <1>6, <1>7, Zenon DEF printfFloatingPointTruncated, T
<1>9. printDecimalNumber(q, 0) = Numeral(10, q)
  <2>1. PICK v : v = IF q >= MinWord THEN 2 ^ WordBits - q ELSE q
    OBVIOUS
  <2>2. v = q
    BY <1>5, <2>1
  <2>3. printDecimalNumber(q, 0) = Minus(q >= MinWord) \o Numeral(10, v)
    BY <1>5, <2>1, WordPrinted
  <2>4. Minus(q >= MinWord) = <<>>
    BY <1>5 DEF Minus
  <2>5. Numeral(10, q) \in Seq(Char)
    <3>1. q \in 0 .. MinWord
      BY <1>1, <1>2
    <3> QED BY <3>1, NumeralIsText
  <2> QED BY <2>2, <2>3, <2>4, <2>5, NothingBefore, Zenon
<1>10. printDecimalNumber(f, Precision) = Fraction(num)
  <2>1. printDecimalNumber(f, Precision) = InPlaces(f, Precision)
    BY <1>3, <1>4, FractionPrinted DEF T
  <2> DEFINE F == (num * T) \div FloatUnit
  <2>2. F = q * T + f
    <3>1. (q * FloatUnit + r) * T = (q * T) * FloatUnit + r * T
      BY <1>1, <1>2, <1>3
    <3> DEFINE x == q * T
               y == r * T
    <3>2. x \in Nat /\ y \in Nat /\ num * T = x * FloatUnit + y
      BY <1>2, <1>3, <3>1
    <3>3. f = y \div FloatUnit
      BY DEF f
    <3> HIDE DEF x, y
    <3>4. (x * FloatUnit + y) \div FloatUnit = x + (y \div FloatUnit)
      BY <1>1, <3>2, MultipleAdded
    <3> QED BY <3>2, <3>3, <3>4, Zenon DEF x, y
  <2>3. Fraction(num) = [i \in 1 .. Precision |-> Digit(10, F, Precision - i)]
    BY Zenon DEF Fraction, T
  <2> HIDE DEF F
  <2>4. \A i \in 1 .. Precision : Digit(10, F, Precision - i) = Digit(10, f, Precision - i)
    <3>1. ASSUME NEW p \in 0 .. Precision - 1 PROVE Digit(10, F, p) = Digit(10, f, p)
      BY <1>2, <1>4, <2>2, SameDigits, Zenon DEF T
    <3>2. \A i \in 1 .. Precision : Precision - i \in 0 .. Precision - 1
      BY <1>1
    <3> QED BY <3>1, <3>2
  <2> QED BY <2>1, <2>3, <2>4 DEF InPlaces
<1> QED BY <1>8, <1>9, <1>10, Zenon DEF q

\* A double whose whole part a register holds.
Fits(a) == a.type = "double" /\ a.class = "finite" => a.num \div FloatUnit < MinWord

LEMMA ArgumentOf ==
    ASSUME NEW a \in Slots, NEW letter \in Letters, a.type = TypeOf(letter)
    PROVE  /\ letter = "c" => a.v \in Char
           /\ letter = "s" => a.v \in Seq(Char)
           /\ letter \in {"x", "o", "b", "d"} => a.v \in 0 .. 2 ^ WordBits - 1
           /\ letter = "f" => /\ a.type = "double" /\ a.class \in {"finite", "inf", "nan"}
                              /\ a.class = "finite" => a.num \in Nat
BY DEF TypeOf, Slots, Arguments, Junk, Letters

\* Whole digits of a word.
LEMMA WholeDigits ==
    /\ (WordBits \div 1) * 1 = WordBits /\ (WordBits \div 4) * 4 = WordBits
    /\ (WordBits \div 3) * 3 = WordBits - 1
<1>1. WordBits \in Nat /\ WordBits % 12 = 4
  BY PrintfAssumption
<1> QED BY <1>1

LEMMA XOBMeans ==
    ASSUME NEW v \in 0 .. 2 ^ WordBits - 1
    PROVE  /\ printXOBNumber(v, 4) = Numeral(16, v)
           /\ printXOBNumber(v, 1) = Numeral(2, v)
           /\ v < MinWord => printXOBNumber(v, 3) = Numeral(8, v)
<1>1. v \in Nat /\ v < 2 ^ WordBits /\ 2 ^ 1 = 2 /\ 2 ^ 3 = 8 /\ 2 ^ 4 = 16
      /\ MinWord = 2 ^ (WordBits - 1)
  BY Words DEF MinWord
<1>2. printXOBNumber(v, 4) = Numeral(2 ^ 4, v) /\ printXOBNumber(v, 1) = Numeral(2 ^ 1, v)
  BY <1>1, WholeDigits, XOBIsNumeral
<1>3. ASSUME v < MinWord PROVE printXOBNumber(v, 3) = Numeral(2 ^ 3, v)
  BY <1>1, <1>3, WholeDigits, XOBIsNumeral
<1> QED BY <1>1, <1>2, <1>3

LEMMA SignedMeans ==
    ASSUME NEW v \in 0 .. 2 ^ WordBits - 1
    PROVE  printDecimalNumber(v, 0)
             = Minus(Signed(v) < 0) \o Numeral(10, IF Signed(v) < 0 THEN -Signed(v) ELSE v)
<1>1. PICK m : m = IF v >= MinWord THEN 2 ^ WordBits - v ELSE v
  OBVIOUS
<1>2. printDecimalNumber(v, 0) = Minus(v >= MinWord) \o Numeral(10, m)
  BY <1>1, WordPrinted
<1>3. (v >= MinWord) <=> (Signed(v) < 0)
  BY Words DEF Signed
<1>4. m = IF Signed(v) < 0 THEN -Signed(v) ELSE v
  BY <1>1, <1>3, Words DEF Signed
<1>5. Minus(v >= MinWord) = Minus(Signed(v) < 0)
  BY <1>3 DEF Minus
<1> QED BY <1>2, <1>4, <1>5, Zenon

LEMMA FloatMeans ==
    ASSUME NEW a \in Slots, a.type = "double", Fits(a)
    PROVE  FloatText(a) = Meaning("f", a)
<1>1. /\ a.class \in {"finite", "inf", "nan"} /\ TypeOf("f") = "double"
      /\ a.class = "finite" => a.num \in Nat
  BY DEF Slots, Arguments, Junk, TypeOf
<1>2. FloatText(a) = Minus(a.negative)
        \o (IF a.class = "finite" THEN printfFloatingPointTruncated(a.num)
            ELSE IF a.class = "inf" THEN <<"i", "n", "f">> ELSE <<"n", "a", "n">>)
  BY DEF FloatText, Minus
<1>3. CASE a.class = "inf"
  <2>1. Meaning("f", a) = Minus(a.negative) \o <<"i", "n", "f">>
    BY <1>1, <1>3 DEF Meaning
  <2> QED BY <1>2, <1>3, <2>1
<1>4. CASE a.class = "nan"
  <2>1. Meaning("f", a) = Minus(a.negative) \o <<"n", "a", "n">>
    BY <1>1, <1>4 DEF Meaning
  <2> QED BY <1>2, <1>4, <2>1
<1>5. CASE a.class = "finite"
  <2> DEFINE n == Numeral(10, a.num \div FloatUnit)
             f == Fraction(a.num)
             s == Minus(a.negative)
  <2>1. Meaning("f", a) = s \o n \o <<".">> \o f
    BY <1>1, <1>5 DEF Meaning
  <2>2. a.num \in Nat /\ a.num \div FloatUnit < MinWord /\ a.num \div FloatUnit \in Nat
    BY <1>1, <1>5, Sizes, Divided DEF Fits
  <2>3. FloatText(a) = s \o (n \o <<".">> \o f)
    BY <1>2, <1>5, <2>2, FloatPrinted
  <2>4. n \in Seq(Char)
    <3>1. a.num \div FloatUnit \in 0 .. MinWord
      BY <2>2, Words
    <3> QED BY <3>1, NumeralIsText
  <2>5. f \in Seq(Char)
    <3> DEFINE F == (a.num * (10 ^ Precision)) \div FloatUnit
    <3>1. F \in Nat /\ Precision \in 0 .. Tens
      <4>1. a.num * (10 ^ Precision) \in Nat
        BY <2>2, Words, Products
      <4> QED BY <4>1, Divided, Sizes, TenUp
    <3>2. f = InPlaces(F, Precision)
      BY Zenon DEF Fraction, InPlaces
    <3> HIDE DEF F, f
    <3> QED BY <3>1, <3>2, PlacesAreText
  <2>6. s \in Seq(Char) /\ <<".">> \in Seq(Char)
    BY MinusIsText, CharAssumption
  <2> HIDE DEF n, f, s
  <2>7. s \o n \o <<".">> \o f = s \o (n \o <<".">> \o f)
    <3> DEFINE p == <<".">>
    <3>1. p \in Seq(Char)
      BY <2>6
    <3> HIDE DEF p
    <3>2. (s \o n) \o p = s \o (n \o p)
      BY <2>4, <2>6, <3>1, Associated
    <3>3. n \o p \in Seq(Char)
      BY <2>4, <3>1, Joined
    <3>4. (s \o (n \o p)) \o f = s \o ((n \o p) \o f)
      BY <2>5, <2>6, <3>3, Associated
    <3>5. s \o n \o p \o f = s \o (n \o p \o f)
      BY <3>2, <3>4, Zenon
    <3> QED BY <3>5 DEF p
  <2> QED BY <2>1, <2>3, <2>7
<1> QED BY <1>1, <1>3, <1>4, <1>5

(* What each conversion prints of its argument is its numeral, worked out  *)
(* from the value and not from rotations and remainders: the digits of any *)
(* word in the four bases with its sign; of a double, whose whole part     *)
(* fits and which is one of ExactAssumption's, the whole part and the      *)
(* first Precision places. The places after them are cut off as the code   *)
(* does, not rounded as the C library's printf would.                      *)
THEOREM ConversionsMean ==
    ASSUME NEW a \in Slots, NEW letter \in Letters, a.type = TypeOf(letter),
           letter = "o" => a.v < MinWord, Fits(a)
    PROVE  SlotText(letter, a) = Meaning(letter, a)
<1>1. CASE letter = "c"
  BY <1>1 DEF SlotText, Meaning
<1>2. CASE letter = "s"
  BY <1>2 DEF SlotText, Meaning
<1>3. CASE letter \in {"x", "o", "b"}
  <2>1. a.v \in 0 .. 2 ^ WordBits - 1
    BY <1>3, ArgumentOf
  <2>2. /\ printXOBNumber(a.v, 4) = Numeral(16, a.v)
        /\ printXOBNumber(a.v, 1) = Numeral(2, a.v)
        /\ a.v < MinWord => printXOBNumber(a.v, 3) = Numeral(8, a.v)
    BY <2>1, XOBMeans
  <2> QED BY <1>3, <2>2 DEF SlotText, Meaning
<1>4. CASE letter = "d"
  <2>1. a.v \in 0 .. 2 ^ WordBits - 1
    BY <1>4, ArgumentOf
  <2>2. SlotText(letter, a) = printDecimalNumber(a.v, 0)
    BY <1>4 DEF SlotText
  <2>3. Meaning(letter, a) = Minus(Signed(a.v) < 0)
                         \o Numeral(10, IF Signed(a.v) < 0 THEN -Signed(a.v) ELSE a.v)
    BY <1>4 DEF Meaning
  <2> QED BY <2>1, <2>2, <2>3, SignedMeans, Zenon
<1>5. CASE letter = "f"
  <2>1. SlotText(letter, a) = FloatText(a) /\ a.type = "double"
    BY <1>5 DEF SlotText, TypeOf
  <2> QED BY <1>5, <2>1, FloatMeans
<1> QED BY <1>1, <1>2, <1>3, <1>4, <1>5 DEF Letters

\* The numeral of a word in eights has one digit more when the top bit is set.
LEMMA OctalIsText ==
    ASSUME NEW v \in 0 .. 2 ^ WordBits - 1 PROVE Numeral(8, v) \in Seq(Char)
<1> DEFINE t == WordBits \div 3
<1>1. t \in Nat \ {0} /\ t * 3 = WordBits - 1 /\ 3 * t = WordBits - 1 /\ t + 1 \in 1 .. WordBits
  <2>1. WordBits \in Nat /\ WordBits % 12 = 4 /\ WordBits >= 4
    BY PrintfAssumption
  <2> QED BY <2>1
<1>2. /\ \A k \in 0 .. t : 8 ^ k = 2 ^ (3 * k) /\ 3 * k \in 0 .. WordBits - 1
      /\ 8 ^ (t + 1) = 8 * (8 ^ t)
  BY <1>1, EightsAre, PowersAssumption
<1> HIDE DEF t
<1>3. CASE v < MinWord
  <2>1. printXOBNumber(v, 3) = Numeral(8, v) /\ v \in Int
    BY <1>3, XOBMeans
  <2> QED BY <2>1, XOBIsText
<1>4. CASE ~(v < MinWord)
  <2>1. 8 ^ t = MinWord /\ t \in 0 .. t
    BY <1>1, <1>2 DEF MinWord
  <2>2. \A k \in 0 .. t : 8 ^ k \in Nat \ {0}
    BY <1>1, <1>2, TwosAreNumbers, Sizes
  <2>3. v < 8 ^ (t + 1) /\ v \in Nat /\ 8 ^ (t + 1) \in Nat
    <3> DEFINE p == 8 ^ (t + 1)
    <3>1. p = 8 * MinWord
      BY <1>2, <2>1
    <3> HIDE DEF p
    <3>2. v < p /\ v \in Nat /\ p \in Nat
      BY <3>1, Words
    <3> QED BY <3>2 DEF p
  <2>4. ASSUME NEW k \in 1 .. (t + 1) - 1 PROVE v >= 8 ^ k
    <3>1. k \in 0 .. t /\ 3 * k \in 0 .. WordBits - 1
      BY <1>1, <1>2
    <3>2. 2 ^ (3 * k) <= 2 ^ (WordBits - 1)
      <4>1. WordBits - 1 \in 0 .. WordBits
        BY Sizes
      <4> QED BY <3>1, <4>1, TwosGrow
    <3>3. 8 ^ k <= MinWord /\ 8 ^ k \in Nat
      BY <1>2, <2>2, <3>1, <3>2 DEF MinWord
    <3> QED BY <1>4, <2>3, <3>3, Words
  <2>5. \A k \in 1 .. t + 1 : 8 ^ k \in Nat
    <3>1. \A k \in 1 .. t + 1 : k \in 0 .. t \/ k = t + 1
      BY <1>1
    <3> QED BY <2>2, <2>3, <3>1
  <2>6. Numeral(8, v) = [i \in 1 .. t + 1 |-> Digit(8, v, (t + 1) - i)]
    <3> DEFINE m == t + 1
    <3>1. /\ m \in 1 .. WordBits /\ v \in Nat /\ v < 8 ^ m
          /\ \A k \in 1 .. m - 1 : v >= 8 ^ k
          /\ \A k \in 1 .. m : 8 ^ k \in Nat
      BY <1>1, <2>3, <2>4, <2>5
    <3> HIDE DEF m
    <3>2. Numeral(8, v) = [i \in 1 .. m |-> Digit(8, v, m - i)]
      BY <3>1, NumeralIs
    <3> QED BY <3>2, Zenon DEF m
  <2>7. ASSUME NEW i \in 1 .. t + 1 PROVE Digit(8, v, (t + 1) - i) \in Char
    <3> DEFINE p == 8 ^ ((t + 1) - i)
    <3>1. p \in Nat \ {0}
      <4>1. (t + 1) - i \in 0 .. t
        BY <1>1
      <4> QED BY <2>2, <4>1
    <3> HIDE DEF p
    <3>2. v \div p \in Nat
      BY <2>3, <3>1, Divided
    <3>3. (v \div p) % 8 \in 0 .. 15
      BY <3>2
    <3>4. printDigit((v \div p) % 8) \in Char
      BY <3>3, DigitIsCharacter
    <3> QED BY <3>4, Zenon DEF Digit, printDigit, p
  <2> DEFINE m == t + 1
             s == [i \in 1 .. m |-> Digit(8, v, m - i)]
  <2>8. m \in Nat /\ s \in [1 .. m -> Char]
    BY <1>1, <2>7
  <2> HIDE DEF m, s
  <2>9. s \in Seq(Char)
    BY <2>8
  <2> QED BY <2>6, <2>9 DEF s, m
<1> QED BY <1>3, <1>4

LEMMA MeaningIsText ==
    ASSUME NEW a \in Slots, NEW letter \in Letters, Fits(a)
    PROVE  Meaning(letter, a) \in Seq(Char)
<1>1. CASE a.type # TypeOf(letter)
  BY <1>1, CharAssumption DEF Meaning, Unsaid
<1>2. CASE a.type = TypeOf(letter) /\ (letter = "o" => a.v < MinWord)
  <2>1. SlotText(letter, a) \in Seq(Char)
    BY SlotIsText DEF Letters
  <2> QED BY <1>2, <2>1, ConversionsMean
<1>3. CASE a.type = TypeOf(letter) /\ letter = "o"
  <2>1. Meaning(letter, a) = Numeral(8, a.v) /\ a.v \in 0 .. 2 ^ WordBits - 1
    BY <1>3, ArgumentOf DEF Meaning
  <2> QED BY <2>1, OctalIsText
<1> QED BY <1>1, <1>2, <1>3

-----------------------------------------------------------------------------
(* What has been printed, written or still in the buffer *)

\* f is the concatenation of the first texts of ws, as FlattenSeq builds it.
IsFlat(f, ws) == f = [i \in 1 .. Len(ws) |-> IF i = 1 THEN ws[i] ELSE f[i - 1] \o ws[i]]

LEMMA FlatSteps ==
    ASSUME NEW ws \in Seq(Seq(Char)), NEW f, IsFlat(f, ws)
    PROVE  \A i \in 1 .. Len(ws) : f[i] = IF i = 1 THEN ws[i] ELSE f[i - 1] \o ws[i]
BY DEF IsFlat

LEMMA FlatExists ==
    ASSUME NEW ws \in Seq(Seq(Char)), Len(ws) # 0
    PROVE  \E f : IsFlat(f, ws)
<1> DEFINE V == Seq(Char)
           N == Len(ws) - 1
           step == [p \in (0 .. N - 1) \X V |-> p[2] \o ws[p[1] + 2]]
<1>1. N \in Nat /\ Len(ws) = N + 1 /\ \A i \in 1 .. N + 1 : ws[i] \in V
  OBVIOUS
<1>2. \A n \in 0 .. N - 1, v \in V : step[<<n, v>>] = v \o ws[n + 2]
  OBVIOUS
<1>3. ASSUME NEW n \in 0 .. N - 1, NEW v \in V PROVE v \o ws[n + 2] \in V
  <2>1. n + 2 \in 1 .. N + 1
    BY <1>1
  <2>2. ws[n + 2] \in V
    BY <1>1, <2>1
  <2> QED BY <2>2, Joined
<1>4. ws[1] \in V
  BY <1>1
<1> HIDE DEF V, N, step
<1>5. IsRecursionUpTo(N, V, ws[1], step)
  BY <1>2, <1>3, <1>4 DEF IsRecursionUpTo
<1>6. PICK g : RecursUpTo(g, N, V, ws[1], step)
  BY <1>1, <1>5, RecursionUpTo
<1> DEFINE f == [i \in 1 .. N + 1 |-> g[i - 1]]
<1>7. ASSUME NEW i \in 1 .. N + 1
      PROVE  g[i - 1] = IF i = 1 THEN ws[i] ELSE f[i - 1] \o ws[i]
  <2>1. CASE i = 1
    BY <1>6, <2>1 DEF RecursUpTo
  <2>2. CASE i # 1
    <3>1. i - 2 \in 0 .. N - 1 /\ i - 2 \in 0 .. N /\ (i - 2) + 1 = i - 1 /\ (i - 2) + 2 = i
          /\ i - 1 \in 1 .. N + 1 /\ (i - 1) - 1 = i - 2
      BY <1>1, <2>2
    <3>2. g[i - 1] = step[<<i - 2, g[i - 2]>>] /\ g[i - 2] \in V
      BY <1>6, <3>1 DEF RecursUpTo
    <3>3. step[<<i - 2, g[i - 2]>>] = g[i - 2] \o ws[i]
      BY <1>2, <3>1, <3>2
    <3>4. f[i - 1] = g[i - 2]
      BY <3>1
    <3> HIDE DEF f
    <3> QED BY <2>2, <3>2, <3>3, <3>4
  <2> QED BY <2>1, <2>2
<1>8. f = [i \in 1 .. Len(ws) |-> IF i = 1 THEN ws[i] ELSE f[i - 1] \o ws[i]]
  <2> HIDE DEF f
  <2>1. \A i \in 1 .. N + 1 : g[i - 1] = IF i = 1 THEN ws[i] ELSE f[i - 1] \o ws[i]
    BY <1>7
  <2>2. f = [i \in 1 .. N + 1 |-> g[i - 1]]
    BY DEF f
  <2> QED BY <1>1, <2>1, <2>2
<1> HIDE DEF f
<1> QED BY <1>8 DEF IsFlat

LEMMA FlatTyped ==
    ASSUME NEW ws \in Seq(Seq(Char)), Len(ws) # 0, NEW f, IsFlat(f, ws)
    PROVE  \A i \in 1 .. Len(ws) : f[i] \in Seq(Char)
<1> DEFINE N == Len(ws) - 1
           S == {n \in 0 .. N : f[n + 1] \in Seq(Char)}
<1>1. N \in Nat /\ Len(ws) = N + 1 /\ \A i \in 1 .. N + 1 : ws[i] \in Seq(Char)
  OBVIOUS
<1>2. \A i \in 1 .. N + 1 : f[i] = IF i = 1 THEN ws[i] ELSE f[i - 1] \o ws[i]
  BY <1>1, FlatSteps
<1> HIDE DEF N
<1>3. 0 \in S
  BY <1>1, <1>2
<1>4. ASSUME NEW n \in 0 .. N - 1, n \in S PROVE n + 1 \in S
  <2>1. /\ n + 1 \in 0 .. N /\ (n + 1) + 1 \in 1 .. N + 1 /\ (n + 1) + 1 # 1
        /\ ((n + 1) + 1) - 1 = n + 1
    BY <1>1
  <2>2. f[(n + 1) + 1] = f[n + 1] \o ws[(n + 1) + 1] /\ ws[(n + 1) + 1] \in Seq(Char)
    BY <1>1, <1>2, <2>1
  <2>3. f[(n + 1) + 1] \in Seq(Char)
    BY <1>4, <2>2, Joined
  <2> QED BY <2>1, <2>3
<1>5. 0 .. N \subseteq S
  <2> HIDE DEF S
  <2> QED BY <1>1, <1>3, <1>4, SetInductionUpTo
<1>6. ASSUME NEW i \in 1 .. N + 1 PROVE f[i] \in Seq(Char)
  <2>1. i - 1 \in 0 .. N /\ (i - 1) + 1 = i
    BY <1>1
  <2>2. i - 1 \in S
    BY <1>5, <2>1
  <2> QED BY <2>1, <2>2
<1> QED BY <1>1, <1>6

\* One more text leaves the beginning as it was.
LEMMA FlatLonger ==
    ASSUME NEW ws \in Seq(Seq(Char)), Len(ws) # 0, NEW b \in Seq(Char),
           NEW f, IsFlat(f, ws), NEW g, IsFlat(g, Append(ws, b))
    PROVE  g[Len(ws)] = f[Len(ws)]
<1> DEFINE N == Len(ws) - 1
           us == Append(ws, b)
           S == {n \in 0 .. N : g[n + 1] = f[n + 1]}
<1>1. /\ N \in Nat /\ Len(ws) = N + 1 /\ us \in Seq(Seq(Char)) /\ Len(us) = N + 2
      /\ \A i \in 1 .. N + 1 : us[i] = ws[i]
  OBVIOUS
<1>2. \A i \in 1 .. N + 1 : f[i] = IF i = 1 THEN ws[i] ELSE f[i - 1] \o ws[i]
  <2> HIDE DEF us, N
  <2>1. \A i \in 1 .. Len(ws) : f[i] = IF i = 1 THEN ws[i] ELSE f[i - 1] \o ws[i]
    BY FlatSteps
  <2> QED BY <1>1, <2>1
<1>3. \A i \in 1 .. N + 2 : g[i] = IF i = 1 THEN us[i] ELSE g[i - 1] \o us[i]
  <2> HIDE DEF us, N
  <2>1. IsFlat(g, us)
    BY DEF us
  <2>2. us \in Seq(Seq(Char)) /\ Len(us) = N + 2
    BY <1>1
  <2>3. \A i \in 1 .. Len(us) : g[i] = IF i = 1 THEN us[i] ELSE g[i - 1] \o us[i]
    BY <2>1, <2>2, FlatSteps
  <2> QED BY <2>2, <2>3
<1> HIDE DEF N, us
<1>4. 0 \in S
  BY <1>1, <1>2, <1>3
<1>5. ASSUME NEW n \in 0 .. N - 1, n \in S PROVE n + 1 \in S
  <2>1. /\ n + 1 \in 0 .. N /\ (n + 1) + 1 \in 1 .. N + 1 /\ (n + 1) + 1 \in 1 .. N + 2
        /\ (n + 1) + 1 # 1 /\ ((n + 1) + 1) - 1 = n + 1
    BY <1>1
  <2>2. /\ f[(n + 1) + 1] = f[n + 1] \o ws[(n + 1) + 1]
        /\ g[(n + 1) + 1] = g[n + 1] \o us[(n + 1) + 1]
        /\ us[(n + 1) + 1] = ws[(n + 1) + 1]
    BY <1>1, <1>2, <1>3, <2>1
  <2>3. g[n + 1] = f[n + 1]
    BY <1>5
  <2> QED BY <2>1, <2>2, <2>3
<1>6. 0 .. N \subseteq S
  <2> HIDE DEF S
  <2> QED BY <1>1, <1>4, <1>5, SetInductionUpTo
<1>7. N \in S
  BY <1>1, <1>6
<1> QED BY <1>1, <1>7

LEMMA FlattenIs ==
    ASSUME NEW ws \in Seq(Seq(Char)), Len(ws) # 0
    PROVE  \E f : IsFlat(f, ws) /\ FlattenSeq(ws) = f[Len(ws)]
<1> DEFINE f == CHOOSE u : IsFlat(u, ws)
<1>1. IsFlat(f, ws)
  BY FlatExists
<1>2. FlattenSeq(ws) = f[Len(ws)]
  BY DEF FlattenSeq, IsFlat
<1> QED BY <1>1, <1>2

\* The texts one after the other, with one more behind them.
LEMMA FlattenAppend ==
    ASSUME NEW ws \in Seq(Seq(Char)), NEW b \in Seq(Char)
    PROVE  /\ FlattenSeq(ws) \in Seq(Char)
           /\ FlattenSeq(Append(ws, b)) = FlattenSeq(ws) \o b
<1> DEFINE us == Append(ws, b)
<1>1. us \in Seq(Seq(Char)) /\ Len(us) = Len(ws) + 1 /\ us[Len(ws) + 1] = b /\ Len(ws) \in Nat
  OBVIOUS
<1> HIDE DEF us
<1>2. PICK g : IsFlat(g, us) /\ FlattenSeq(us) = g[Len(us)]
  BY <1>1, FlattenIs
<1>3. \A i \in 1 .. Len(us) : g[i] = IF i = 1 THEN us[i] ELSE g[i - 1] \o us[i]
  BY <1>1, <1>2, FlatSteps
<1>4. CASE Len(ws) = 0
  <2>1. FlattenSeq(ws) = ws /\ ws = <<>>
    BY <1>4 DEF FlattenSeq
  <2>2. FlattenSeq(us) = b
    BY <1>1, <1>2, <1>3, <1>4
  <2>3. <<>> \o b = b /\ <<>> \in Seq(Char)
    BY NothingBefore
  <2> QED BY <2>1, <2>2, <2>3, Zenon DEF us
<1>5. CASE Len(ws) # 0
  <2>1. PICK f : IsFlat(f, ws) /\ FlattenSeq(ws) = f[Len(ws)]
    BY <1>5, FlattenIs
  <2>2. f[Len(ws)] \in Seq(Char)
    BY <1>1, <1>5, <2>1, FlatTyped
  <2>3. g[Len(ws)] = f[Len(ws)]
    BY <1>2, <1>5, <2>1, FlatLonger DEF us
  <2>4. g[Len(ws) + 1] = g[Len(ws)] \o b
    <3>1. Len(ws) + 1 \in 1 .. Len(us) /\ Len(ws) + 1 # 1 /\ (Len(ws) + 1) - 1 = Len(ws)
      BY <1>1, <1>5
    <3> QED BY <1>1, <1>3, <3>1
  <2> QED BY <1>1, <1>2, <2>1, <2>2, <2>3, <2>4 DEF us
<1> QED BY <1>4, <1>5

\* What was printed, whether it has been written yet or not.
Sent(o) == FlattenSeq(o.writes) \o o.buffer

LEMMA SentTyped == ASSUME NEW o \in Output PROVE Sent(o) \in Seq(Char)
<1>1. o.writes \in Seq(Seq(Char)) /\ o.buffer \in Seq(Char)
  BY DEF Output
<1>2. FlattenSeq(o.writes) \in Seq(Char)
  BY <1>1, FlattenAppend
<1> QED BY <1>1, <1>2, Joined DEF Sent

LEMMA SentForced ==
    ASSUME NEW o \in Output
    PROVE  /\ Sent(forcePrintBuffer(o)) = Sent(o)
           /\ FlattenSeq(forcePrintBuffer(o).writes) = Sent(o)
<1>1. o.writes \in Seq(Seq(Char)) /\ o.buffer \in Seq(Char)
  BY DEF Output
<1>2. FlattenSeq(Append(o.writes, o.buffer)) = FlattenSeq(o.writes) \o o.buffer
  BY <1>1, FlattenAppend
<1>3. /\ forcePrintBuffer(o).buffer = <<>>
      /\ forcePrintBuffer(o).writes = Append(o.writes, o.buffer)
  BY DEF forcePrintBuffer
<1>4. Sent(o) \o <<>> = Sent(o)
  BY SentTyped, ConcatEmptySeq
<1> QED BY <1>2, <1>3, <1>4 DEF Sent

LEMMA AppendedLast ==
    ASSUME NEW s \in Seq(Char), NEW t \in Seq(Char), NEW c \in Char
    PROVE  s \o Append(t, c) = Append(s \o t, c)
OBVIOUS

LEMMA SentChar ==
    ASSUME NEW o \in Output, NEW c \in Char
    PROVE  Sent(printChar(o, c)) = Append(Sent(o), c) /\ printChar(o, c) \in Output
<1> DEFINE room == IF Len(o.buffer) < BufferSize THEN o ELSE forcePrintBuffer(o)
           added == [room EXCEPT !.buffer = Append(@, c)]
<1>1. printChar(o, c) = IF c = Newline THEN forcePrintBuffer(added) ELSE added
  BY DEF printChar
<1>2. room \in Output /\ Sent(room) = Sent(o)
  BY BufferForced, SentForced
<1> HIDE DEF room
<1>3. room.buffer \in Seq(Char) /\ room.writes \in Seq(Seq(Char))
      /\ room = [buffer |-> room.buffer, writes |-> room.writes]
  BY <1>2 DEF Output
<1>4. added = [buffer |-> Append(room.buffer, c), writes |-> room.writes]
  <2> DEFINE b == room.buffer
             v == room.writes
  <2>1. room = [buffer |-> b, writes |-> v]
    BY <1>3
  <2> HIDE DEF b, v
  <2>2. added = [buffer |-> Append(b, c), writes |-> v]
    BY <2>1
  <2> QED BY <2>2 DEF b, v
<1>5. Append(room.buffer, c) \in Seq(Char)
  BY <1>3
<1> HIDE DEF added
<1>6. added \in Output /\ added.buffer = Append(room.buffer, c) /\ added.writes = room.writes
  BY <1>3, <1>4, <1>5 DEF Output
<1>7. Sent(added) = Append(Sent(room), c)
  <2>1. FlattenSeq(room.writes) \in Seq(Char)
    BY <1>3, FlattenAppend
  <2>2. FlattenSeq(room.writes) \o Append(room.buffer, c)
          = Append(FlattenSeq(room.writes) \o room.buffer, c)
    BY <1>3, <2>1, AppendedLast
  <2> QED BY <1>6, <2>2, Zenon DEF Sent
<1>8. forcePrintBuffer(added) \in Output /\ Sent(forcePrintBuffer(added)) = Sent(added)
  BY <1>6, BufferForced, SentForced
<1> QED BY <1>1, <1>2, <1>6, <1>7, <1>8

LEMMA SentString ==
    ASSUME NEW o \in Output, NEW text \in Seq(Char)
    PROVE  /\ Sent(printString(o, text)) = Sent(o) \o text
           /\ printString(o, text) \in Output
<1> DEFINE N == Len(text)
           upto(n) == SubSeq(text, 1, n)
<1>1. N \in Nat /\ \A n \in 1 .. N : text[n] \in Char
  OBVIOUS
<1>2. PICK f : /\ f[0] = o /\ f[N] = printString(o, text)
               /\ \A n \in 1 .. N : f[n] = printChar(f[n - 1], text[n])
  BY PrintedUpTo
<1>3. /\ upto(0) = <<>> /\ upto(N) = text
      /\ \A n \in 0 .. N : upto(n) \in Seq(Char)
      /\ \A n \in 0 .. N - 1 : upto(n + 1) = Append(upto(n), text[n + 1])
  OBVIOUS
<1> DEFINE S == {n \in 0 .. N : f[n] \in Output /\ Sent(f[n]) = Sent(o) \o upto(n)}
<1> HIDE DEF N, upto
<1>4. 0 \in S
  <2>1. Sent(o) \o <<>> = Sent(o)
    BY SentTyped, ConcatEmptySeq
  <2>2. 0 \in 0 .. N
    BY <1>1
  <2> QED BY <1>2, <1>3, <2>1, <2>2, Zenon
<1>5. ASSUME NEW n \in 0 .. N - 1, n \in S PROVE n + 1 \in S
  <2>1. n + 1 \in 1 .. N /\ n + 1 \in 0 .. N /\ (n + 1) - 1 = n /\ n \in 0 .. N
    BY <1>1
  <2>2. f[n + 1] = printChar(f[n], text[n + 1]) /\ text[n + 1] \in Char
    BY <1>1, <1>2, <2>1
  <2>3. f[n] \in Output /\ Sent(f[n]) = Sent(o) \o upto(n)
    BY <1>5
  <2>4. f[n + 1] \in Output /\ Sent(f[n + 1]) = Append(Sent(f[n]), text[n + 1])
    BY <2>2, <2>3, SentChar
  <2>5. Sent(o) \o Append(upto(n), text[n + 1]) = Append(Sent(o) \o upto(n), text[n + 1])
    <3>1. Sent(o) \in Seq(Char) /\ upto(n) \in Seq(Char)
      BY <1>3, <2>1, SentTyped
    <3> QED BY <2>2, <3>1, AppendedLast
  <2>6. Sent(f[n + 1]) = Sent(o) \o upto(n + 1)
    BY <1>3, <2>3, <2>4, <2>5
  <2> QED BY <2>1, <2>4, <2>6
<1>6. 0 .. N \subseteq S
  <2> HIDE DEF S
  <2> QED BY <1>1, <1>4, <1>5, SetInductionUpTo
<1>7. N \in S
  BY <1>1, <1>6
<1> QED BY <1>2, <1>3, <1>7

-----------------------------------------------------------------------------
(* What the format means *)

\* What a part of a format can mean.
Hearing == [text : Seq(Char), percent : BOOLEAN, used : Nat]

\* One character more of the format of c, and what is understood then.
Heard(c, u, ch) ==
    IF u.percent /\ ch \in Letters
    THEN [text |-> u.text \o Meaning(ch, Given(c, u.used + 1)),
          percent |-> FALSE, used |-> u.used + 1]
    ELSE IF ~u.percent /\ ch = "%"
    THEN [text |-> u.text, percent |-> TRUE, used |-> u.used]
    ELSE [text |-> Append(u.text, ch), percent |-> FALSE, used |-> u.used]

LEMMA GivenFits ==
    ASSUME NEW c \in Calls, DoublesFit(c), NEW n
    PROVE  Given(c, n) \in Slots /\ Fits(Given(c, n))
<1>1. c.args \in Seq(Arguments)
  BY CallsTyped
<1>2. CASE n \in DOMAIN c.args
  <2>1. Given(c, n) = c.args[n]
    BY <1>2 DEF Given
  <2>2. Fits(c.args[n])
    BY <1>2 DEF DoublesFit, Fits
  <2>3. c.args[n] \in Arguments
    BY <1>1, <1>2
  <2> QED BY <2>1, <2>2, <2>3 DEF Slots
<1>3. CASE n \notin DOMAIN c.args
  BY <1>3 DEF Given, Slots, Fits, Junk
<1> QED BY <1>2, <1>3

LEMMA HeardTyped ==
    ASSUME NEW c \in Calls, DoublesFit(c), NEW u \in Hearing, NEW ch \in Char
    PROVE  Heard(c, u, ch) \in Hearing
<1>1. u.text \in Seq(Char) /\ u.used \in Nat /\ u.used + 1 \in Nat
      /\ TRUE \in BOOLEAN /\ FALSE \in BOOLEAN
  BY DEF Hearing
<1>2. CASE u.percent /\ ch \in Letters
  <2> DEFINE m == Meaning(ch, Given(c, u.used + 1))
             t == u.text \o m
             k == u.used + 1
  <2>1. m \in Seq(Char)
    BY <1>2, GivenFits, MeaningIsText
  <2>2. t \in Seq(Char)
    <3> HIDE DEF m
    <3> QED BY <1>1, <2>1, Joined
  <2>3. Heard(c, u, ch) = [text |-> t, percent |-> FALSE, used |-> k]
    BY <1>2 DEF Heard
  <2>4. k \in Nat
    BY <1>1
  <2> HIDE DEF t, k
  <2> QED BY <2>2, <2>3, <2>4 DEF Hearing
<1>3. CASE ~(u.percent /\ ch \in Letters)
  <2>1. Append(u.text, ch) \in Seq(Char)
    BY <1>1
  <2> QED BY <1>1, <1>3, <2>1 DEF Heard, Hearing
<1> QED BY <1>2, <1>3

Nothing == [text |-> <<>>, percent |-> FALSE, used |-> 0]

\* The format is understood character by character.
LEMMA Understanding ==
    ASSUME NEW c \in Calls, DoublesFit(c)
    PROVE  /\ Understood(c)[0] = Nothing
           /\ \A i \in 0 .. Len(c.fmt) : Understood(c)[i] \in Hearing
           /\ \A i \in 1 .. Len(c.fmt) : Understood(c)[i] = Heard(c, Understood(c)[i - 1], c.fmt[i])
<1> DEFINE N == Len(c.fmt)
           Is(f) == f = [i \in 0 .. N |-> IF i = 0 THEN Nothing ELSE Heard(c, f[i - 1], c.fmt[i])]
           step == [p \in (1 .. N) \X Hearing |-> Heard(c, p[2], c.fmt[p[1]])]
<1>1. N \in Nat /\ \A i \in 1 .. N : c.fmt[i] \in Char
  BY CallsTyped
<1>2. Nothing \in Hearing
  BY DEF Nothing, Hearing
<1>3. \A i \in 1 .. N, u \in Hearing : step[<<i, u>>] = Heard(c, u, c.fmt[i])
  OBVIOUS
<1>4. \A i \in 1 .. N, u \in Hearing : Heard(c, u, c.fmt[i]) \in Hearing
  BY <1>1, HeardTyped
<1>5. step \in [(1 .. N) \X Hearing -> Hearing]
  <2> SUFFICES ASSUME NEW p \in (1 .. N) \X Hearing PROVE Heard(c, p[2], c.fmt[p[1]]) \in Hearing
    OBVIOUS
  <2>1. p[1] \in 1 .. N /\ p[2] \in Hearing
    OBVIOUS
  <2> QED BY <1>4, <2>1
<1>6. Understood(c) = CHOOSE f : Is(f)
  BY DEF Understood, Heard, Nothing, N
<1> HIDE DEF N, step
<1>7. PICK f : Loops(f, N, Hearing, Nothing, step)
  BY <1>1, <1>2, <1>5, LoopExists
<1>8. Is(f)
  <2>1. /\ f \in [0 .. N -> Hearing] /\ f[0] = Nothing
        /\ \A n \in 1 .. N : f[n] = step[<<n, f[n - 1]>>]
    BY <1>7 DEF Loops
  <2>2. ASSUME NEW i \in 0 .. N, i # 0 PROVE f[i] = Heard(c, f[i - 1], c.fmt[i])
    <3>1. i \in 1 .. N /\ i - 1 \in 0 .. N
      BY <1>1, <2>2
    <3>2. f[i - 1] \in Hearing
      BY <2>1, <3>1
    <3> QED BY <1>3, <2>1, <3>1, <3>2
  <2> QED BY <2>1, <2>2
<1>9. Is(Understood(c))
  <2> HIDE DEF Is
  <2> QED BY <1>6, <1>8
<1> DEFINE U == Understood(c)
           S == {i \in 0 .. N : U[i] \in Hearing}
<1> HIDE DEF U
<1>10. U[0] = Nothing /\ \A i \in 1 .. N : U[i] = Heard(c, U[i - 1], c.fmt[i])
  <2>1. Is(U)
    BY <1>9 DEF U
  <2>2. \A i \in 1 .. N : i \in 0 .. N /\ i # 0
    BY <1>1
  <2>3. 0 \in 0 .. N
    BY <1>1
  <2> QED BY <2>1, <2>2, <2>3
<1>11. 0 .. N \subseteq S
  <2>1. 0 \in S
    BY <1>1, <1>2, <1>10
  <2>2. ASSUME NEW n \in 1 .. N, n - 1 \in S PROVE n \in S
    <3>1. U[n] = Heard(c, U[n - 1], c.fmt[n]) /\ U[n - 1] \in Hearing /\ n \in 0 .. N
      BY <1>1, <1>10, <2>2
    <3> QED BY <1>4, <3>1
  <2> HIDE DEF S
  <2> QED BY <1>1, <2>1, <2>2, LoopInvariant
<1> QED BY <1>10, <1>11 DEF U, N

-----------------------------------------------------------------------------
(* Which register or slot holds which argument *)

\* The places of P in front of i.
Passed(P, i) == Cardinality({j \in P : j < i})
\* How many of n go beyond m.
Beyond(n, m) == IF n > m THEN n - m ELSE 0

LEMMA PassedTyped ==
    ASSUME NEW N \in Nat, NEW P \in SUBSET (1 .. N), NEW i
    PROVE  IsFiniteSet({j \in P : j < i}) /\ Passed(P, i) \in Nat
<1>1. IsFiniteSet(1 .. N)
  <2>1. 1 \in Int /\ N \in Int
    OBVIOUS
  <2> QED BY <2>1, FS_Interval
<1>2. {j \in P : j < i} \subseteq 1 .. N
  OBVIOUS
<1>3. IsFiniteSet({j \in P : j < i})
  BY <1>1, <1>2, FS_Subset
<1> QED BY <1>3, FS_CardinalityType DEF Passed

LEMMA PassedNext ==
    ASSUME NEW N \in Nat, NEW P \in SUBSET (1 .. N), NEW i \in Nat
    PROVE  Passed(P, i + 1) = IF i \in P THEN Passed(P, i) + 1 ELSE Passed(P, i)
<1> DEFINE S == {j \in P : j < i}
           T == {j \in P : j < i + 1}
<1>1. IsFiniteSet(S)
  BY PassedTyped
<1>2. Cardinality(S \cup {i}) = IF i \in S THEN Cardinality(S) ELSE Cardinality(S) + 1
  <2> HIDE DEF S
  <2> QED BY <1>1, FS_AddElement
<1>3. i \notin S
  OBVIOUS
<1>4. T = IF i \in P THEN S \cup {i} ELSE S
  <2>1. \A j \in P : j < i + 1 <=> j < i \/ j = i
    OBVIOUS
  <2>2. T = {j \in P : j < i \/ j = i}
    BY <2>1
  <2>3. {j \in P : j < i \/ j = i} = IF i \in P THEN S \cup {i} ELSE S
    BY Zenon
  <2> QED BY <2>2, <2>3
<1> HIDE DEF S, T
<1>5. Cardinality(T) = IF i \in P THEN Cardinality(S) + 1 ELSE Cardinality(S)
  BY <1>2, <1>3, <1>4
<1> QED BY <1>5 DEF Passed, S, T

LEMMA PassedGrows ==
    ASSUME NEW N \in Nat, NEW P \in SUBSET (1 .. N), NEW k \in Nat, NEW i \in Nat, i <= k
    PROVE  Passed(P, i) <= Passed(P, k)
<1>1. {j \in P : j < i} \subseteq {j \in P : j < k}
  <2>1. \A j \in P : j < i => j < k
    OBVIOUS
  <2> QED BY <2>1, Zenon
<1>2. IsFiniteSet({j \in P : j < k})
  BY PassedTyped
<1> QED BY <1>1, <1>2, FS_Subset DEF Passed

LEMMA PassedNone ==
    ASSUME NEW N \in Nat, NEW P \in SUBSET (1 .. N) PROVE Passed(P, 1) = 0
<1>1. {j \in P : j < 1} = {}
  <2>1. \A j \in P : ~(j < 1)
    OBVIOUS
  <2> QED BY <2>1, Zenon
<1> QED BY <1>1, FS_EmptySet DEF Passed

LEMMA PassedAll ==
    ASSUME NEW N \in Nat, NEW P \in SUBSET (1 .. N), NEW i
    PROVE  Passed(P, i) <= Cardinality(P)
<1>1. IsFiniteSet(1 .. N)
  <2>1. 1 \in Int /\ N \in Int
    OBVIOUS
  <2> QED BY <2>1, FS_Interval
<1>2. IsFiniteSet(P)
  BY <1>1, FS_Subset
<1>3. {j \in P : j < i} \subseteq P
  OBVIOUS
<1> QED BY <1>2, <1>3, FS_Subset DEF Passed

\* The one that has so many in front of it is the next.
LEMMA NthAt ==
    ASSUME NEW args \in Seq(Arguments), NEW P \in SUBSET DOMAIN args, NEW i \in P,
           NEW n, n = Passed(P, i) + 1
    PROVE  Nth(args, P, n) = args[i]
<1> DEFINE N == Len(args)
           nth == {k \in P : Cardinality({j \in P : j < k}) = n - 1}
<1>1. N \in Nat /\ P \in SUBSET (1 .. N) /\ i \in 1 .. N
  OBVIOUS
<1>2. Passed(P, i) \in Nat /\ n - 1 = Passed(P, i)
  <2>1. Passed(P, i) \in Nat
    <3> HIDE DEF N
    <3> QED BY <1>1, PassedTyped
  <2> QED BY <2>1
<1>3. i \in nth
  BY <1>2 DEF Passed
<1>4. ASSUME NEW k \in nth PROVE k = i
  <2>1. k \in P /\ Passed(P, k) = Passed(P, i) /\ k \in Nat /\ i \in Nat
    BY <1>1, <1>2 DEF Passed
  <2> HIDE DEF N, nth
  <2>2. ASSUME NEW a \in P, NEW b \in P, a < b PROVE Passed(P, a) < Passed(P, b)
    <3>1. a \in Nat /\ b \in Nat /\ a + 1 \in Nat /\ a + 1 <= b
      BY <1>1, <2>2
    <3>2. Passed(P, a + 1) = Passed(P, a) + 1
      BY <1>1, <3>1, PassedNext
    <3>3. Passed(P, a + 1) <= Passed(P, b)
      BY <1>1, <3>1, PassedGrows
    <3>4. Passed(P, a) \in Nat /\ Passed(P, b) \in Nat
      BY <1>1, PassedTyped
    <3> QED BY <3>2, <3>3, <3>4
  <2>3. Passed(P, i) \in Nat
    BY <1>2
  <2>4. ~(k < i) /\ ~(i < k)
    BY <2>1, <2>2, <2>3
  <2> QED BY <2>1, <2>4
<1>5. (CHOOSE k \in nth : TRUE) = i /\ nth # {}
  BY <1>3, <1>4
<1>6. Nth(args, P, n) = IF nth = {} THEN Junk ELSE args[CHOOSE k \in nth : TRUE]
  BY DEF Nth
<1> HIDE DEF nth
<1> QED BY <1>5, <1>6

\* A call's places by kind, and those that are on the stack.
LEMMA KindsOfPlaces ==
    ASSUME NEW args \in Seq(Arguments)
    PROVE  /\ OfKind(args, "int") \in SUBSET (1 .. Len(args))
           /\ OfKind(args, "float") \in SUBSET (1 .. Len(args))
           /\ Spilled(args) \in SUBSET (1 .. Len(args))
           /\ DOMAIN args = 1 .. Len(args) /\ Len(args) \in Nat
           /\ \A i \in 1 .. Len(args) :
                 /\ i \in OfKind(args, "int") <=> args[i].kind = "int"
                 /\ i \in OfKind(args, "float") <=> args[i].kind = "float"
                 /\ args[i].kind = "int" \/ args[i].kind = "float"
<1>1. DOMAIN args = 1 .. Len(args) /\ Len(args) \in Nat
      /\ \A i \in 1 .. Len(args) : args[i] \in Arguments
  OBVIOUS
<1>2. \A a \in Arguments : a.kind = "int" \/ a.kind = "float"
  BY DEF Arguments
<1> QED BY <1>1, <1>2 DEF OfKind, Spilled

LEMMA BeforeIs ==
    ASSUME NEW args \in Seq(Arguments), NEW i \in 1 .. Len(args)
    PROVE  /\ args[i].kind = "int" => Before(args, i) = Passed(OfKind(args, "int"), i)
           /\ args[i].kind = "float" => Before(args, i) = Passed(OfKind(args, "float"), i)
<1>1. DOMAIN args = 1 .. Len(args) /\ Len(args) \in Nat
  OBVIOUS
<1>2. \A k : {j \in 1 .. i - 1 : args[j].kind = k}
                = {j \in {m \in DOMAIN args : args[m].kind = k} : j < i}
  BY <1>1
<1> QED BY <1>2 DEF Before, Passed, OfKind

(* On the stack are the arguments of either kind that its registers do not *)
(* hold.                                                                   *)
LEMMA SpilledCount ==
    ASSUME NEW args \in Seq(Arguments)
    PROVE  \A k \in 0 .. Len(args) :
              Passed(Spilled(args), k + 1)
                = Beyond(Passed(OfKind(args, "int"), k + 1), IntRegs)
                    + Beyond(Passed(OfKind(args, "float"), k + 1), FloatRegs)
<1> DEFINE N == Len(args)
           I == OfKind(args, "int")
           F == OfKind(args, "float")
           P == Spilled(args)
           Good(k) == Passed(P, k + 1) = Beyond(Passed(I, k + 1), IntRegs)
                                           + Beyond(Passed(F, k + 1), FloatRegs)
           S == {k \in 0 .. N : Good(k)}
<1>1. N \in Nat /\ I \in SUBSET (1 .. N) /\ F \in SUBSET (1 .. N) /\ P \in SUBSET (1 .. N)
  BY KindsOfPlaces
<1>2. ASSUME NEW i \in 1 .. N
      PROVE  \/ i \in I /\ i \notin F /\ (i \in P <=> Passed(I, i) >= IntRegs)
             \/ i \in F /\ i \notin I /\ (i \in P <=> Passed(F, i) >= FloatRegs)
  <2>1. /\ i \in I <=> args[i].kind = "int"
        /\ i \in F <=> args[i].kind = "float"
        /\ args[i].kind = "int" \/ args[i].kind = "float"
        /\ DOMAIN args = 1 .. N
    BY KindsOfPlaces
  <2>2. i \in P <=> Before(args, i) >= Registers(args[i].kind)
    BY <2>1 DEF Spilled
  <2>3. /\ args[i].kind = "int" => Before(args, i) = Passed(I, i)
        /\ args[i].kind = "float" => Before(args, i) = Passed(F, i)
    BY BeforeIs
  <2>4. Registers("int") = IntRegs /\ Registers("float") = FloatRegs
    BY DEF Registers
  <2> HIDE DEF I, F, P, N
  <2>5. CASE args[i].kind = "int"
    <3>1. i \in I /\ i \notin F /\ (i \in P <=> Passed(I, i) >= IntRegs)
      BY <2>1, <2>2, <2>3, <2>4, <2>5
    <3> QED BY <3>1
  <2>6. CASE args[i].kind = "float"
    <3>1. i \in F /\ i \notin I /\ (i \in P <=> Passed(F, i) >= FloatRegs)
      BY <2>1, <2>2, <2>3, <2>4, <2>6
    <3> QED BY <3>1
  <2> QED BY <2>1, <2>5, <2>6
<1> HIDE DEF I, F, P, N
<1>3. 0 \in S
  <2>1. Passed(P, 1) = 0 /\ Passed(I, 1) = 0 /\ Passed(F, 1) = 0
    BY <1>1, PassedNone
  <2>2. 0 + 1 = 1 /\ 0 \in 0 .. N
    BY <1>1
  <2> QED BY <2>1, <2>2, Sizes DEF Beyond
<1>4. ASSUME NEW k \in 0 .. N - 1, k \in S PROVE k + 1 \in S
  <2>1. k + 1 \in 1 .. N /\ k + 1 \in 0 .. N /\ k + 1 \in Nat
    BY <1>1
  <2>2. /\ Passed(P, (k + 1) + 1) = IF k + 1 \in P THEN Passed(P, k + 1) + 1 ELSE Passed(P, k + 1)
        /\ Passed(I, (k + 1) + 1) = IF k + 1 \in I THEN Passed(I, k + 1) + 1 ELSE Passed(I, k + 1)
        /\ Passed(F, (k + 1) + 1) = IF k + 1 \in F THEN Passed(F, k + 1) + 1 ELSE Passed(F, k + 1)
    BY <1>1, <2>1, PassedNext
  <2>3. Passed(P, k + 1) \in Nat /\ Passed(I, k + 1) \in Nat /\ Passed(F, k + 1) \in Nat
    BY <1>1, PassedTyped
  <2>4. Good(k)
    BY <1>4
  <2> DEFINE p == Passed(P, k + 1)
             a == Passed(I, k + 1)
             b == Passed(F, k + 1)
             x == Passed(P, (k + 1) + 1)
             y == Passed(I, (k + 1) + 1)
             z == Passed(F, (k + 1) + 1)
  <2>6. /\ p \in Nat /\ a \in Nat /\ b \in Nat /\ p = Beyond(a, IntRegs) + Beyond(b, FloatRegs)
        /\ x = IF k + 1 \in P THEN p + 1 ELSE p
        /\ y = IF k + 1 \in I THEN a + 1 ELSE a
        /\ z = IF k + 1 \in F THEN b + 1 ELSE b
    BY <2>2, <2>3, <2>4
  <2>7. \/ k + 1 \in I /\ k + 1 \notin F /\ (k + 1 \in P <=> a >= IntRegs)
        \/ k + 1 \in F /\ k + 1 \notin I /\ (k + 1 \in P <=> b >= FloatRegs)
    BY <1>2, <2>1, Zenon
  <2>8. x = Beyond(y, IntRegs) + Beyond(z, FloatRegs)
    <3> HIDE DEF p, a, b, x, y, z
    <3>1. CASE k + 1 \in I /\ k + 1 \notin F /\ (k + 1 \in P <=> a >= IntRegs)
      <4>1. y = a + 1 /\ z = b /\ (x = IF a >= IntRegs THEN p + 1 ELSE p)
        BY <2>6, <3>1
      <4> QED BY <2>6, <4>1, Sizes DEF Beyond
    <3>2. CASE k + 1 \in F /\ k + 1 \notin I /\ (k + 1 \in P <=> b >= FloatRegs)
      <4>1. y = a /\ z = b + 1 /\ (x = IF b >= FloatRegs THEN p + 1 ELSE p)
        BY <2>6, <3>2
      <4> QED BY <2>6, <4>1, Sizes DEF Beyond
    <3> QED BY <2>7, <3>1, <3>2
  <2>5. Good(k + 1)
    BY <2>8
  <2> QED BY <2>1, <2>5
<1>5. 0 .. N \subseteq S
  <2> HIDE DEF S
  <2> QED BY <1>1, <1>3, <1>4, SetInductionUpTo
<1> QED BY <1>5 DEF N, I, F, P

-----------------------------------------------------------------------------
(* The next argument is where the registers count it to be *)

\* The arguments of either kind among the first k of a call.
IntsIn(args, k) == Passed(OfKind(args, "int"), k + 1)
FloatsIn(args, k) == Passed(OfKind(args, "float"), k + 1)

LEMMA CountsNext ==
    ASSUME NEW args \in Seq(Arguments), NEW k \in 0 .. Len(args) - 1
    PROVE  /\ IntsIn(args, k) \in Nat /\ FloatsIn(args, k) \in Nat
           /\ args[k + 1].kind = "int" => /\ IntsIn(args, k + 1) = IntsIn(args, k) + 1
                                          /\ FloatsIn(args, k + 1) = FloatsIn(args, k)
           /\ args[k + 1].kind = "float" => /\ IntsIn(args, k + 1) = IntsIn(args, k)
                                            /\ FloatsIn(args, k + 1) = FloatsIn(args, k) + 1
<1> DEFINE N == Len(args)
           I == OfKind(args, "int")
           F == OfKind(args, "float")
<1>1. /\ N \in Nat /\ I \in SUBSET (1 .. N) /\ F \in SUBSET (1 .. N)
      /\ \A i \in 1 .. N : /\ i \in I <=> args[i].kind = "int"
                           /\ i \in F <=> args[i].kind = "float"
  BY KindsOfPlaces
<1> HIDE DEF N, I, F
<1>2. k + 1 \in 1 .. N /\ k + 1 \in Nat
  BY <1>1 DEF N
<1>3. /\ Passed(I, (k + 1) + 1) = IF k + 1 \in I THEN Passed(I, k + 1) + 1 ELSE Passed(I, k + 1)
      /\ Passed(F, (k + 1) + 1) = IF k + 1 \in F THEN Passed(F, k + 1) + 1 ELSE Passed(F, k + 1)
  BY <1>1, <1>2, PassedNext
<1>4. Passed(I, k + 1) \in Nat /\ Passed(F, k + 1) \in Nat
  BY <1>1, PassedTyped
<1>5. /\ k + 1 \in I <=> args[k + 1].kind = "int"
      /\ k + 1 \in F <=> args[k + 1].kind = "float"
  BY <1>1, <1>2
<1>6. ASSUME args[k + 1].kind = "int"
      PROVE  IntsIn(args, k + 1) = IntsIn(args, k) + 1 /\ FloatsIn(args, k + 1) = FloatsIn(args, k)
  BY <1>3, <1>5, <1>6, Zenon DEF IntsIn, FloatsIn, I, F
<1>7. ASSUME args[k + 1].kind = "float"
      PROVE  IntsIn(args, k + 1) = IntsIn(args, k) /\ FloatsIn(args, k + 1) = FloatsIn(args, k) + 1
  BY <1>3, <1>5, <1>7, Zenon DEF IntsIn, FloatsIn, I, F
<1> QED BY <1>4, <1>6, <1>7, Zenon DEF IntsIn, FloatsIn, I, F

\* The doubles of a call come to no more than one on the stack, behind the
\* general registers.
LEMMA NextFloatInReach ==
    ASSUME NEW c \in Calls, FloatsInReach(c), NEW k \in 0 .. Len(c.args) - 1,
           c.args[k + 1].kind = "float"
    PROVE  /\ FloatsIn(c.args, k) <= FloatRegs
           /\ FloatsIn(c.args, k) = FloatRegs => IntsIn(c.args, k) >= IntRegs
           /\ FloatsIn(c.args, k) < FloatRegs => CallerRegs(c.args).rax > FloatsIn(c.args, k)
<1> DEFINE args == c.args
           N == Len(args)
           I == OfKind(args, "int")
           F == OfKind(args, "float")
           f == FloatsIn(args, k)
           n == Cardinality(F)
<1>0. args \in Seq(Arguments)
  BY CallsTyped
<1>1. /\ N \in Nat /\ I \in SUBSET (1 .. N) /\ F \in SUBSET (1 .. N)
      /\ DOMAIN args = 1 .. N
      /\ \A i \in 1 .. N : /\ i \in I <=> args[i].kind = "int"
                           /\ i \in F <=> args[i].kind = "float"
                           /\ args[i].kind = "int" \/ args[i].kind = "float"
  BY <1>0, KindsOfPlaces
<1>2. /\ n <= FloatRegs + 1
      /\ \A i \in F : Before(args, i) = FloatRegs => Cardinality((1 .. i - 1) \ F) >= IntRegs
  BY DEF FloatsInReach, OfKind
<1>3. CallerRegs(args).rax = IF n < FloatRegs THEN n ELSE FloatRegs
  BY DEF CallerRegs
<1>4. k + 1 \in 1 .. N /\ k \in 0 .. N - 1 /\ args[k + 1].kind = "float"
  BY <1>1
<1>5. FloatsIn(args, k + 1) = f + 1 /\ f \in Nat
  BY <1>0, CountsNext
<1>6. n \in Nat
  <2>1. IsFiniteSet(1 .. N)
    <3>1. 1 \in Int /\ N \in Int
      BY <1>1
    <3> QED BY <3>1, FS_Interval
  <2>2. IsFiniteSet(F)
    <3> HIDE DEF F, N
    <3> QED BY <1>1, <2>1, FS_Subset
  <2> QED BY <2>2, FS_CardinalityType
<1>7. f + 1 <= n
  <2>1. FloatsIn(args, k + 1) <= Cardinality(F)
    <3> HIDE DEF N
    <3>1. Passed(F, (k + 1) + 1) <= Cardinality(F)
      BY <1>1, PassedAll
    <3> QED BY <3>1 DEF FloatsIn
  <2> QED BY <1>5, <2>1
<1>8. Before(args, k + 1) = f
  BY <1>0, <1>4, BeforeIs DEF FloatsIn
<1>9. k + 1 \in F
  <2> HIDE DEF F
  <2> QED BY <1>1, <1>4
<1>10. Cardinality((1 .. (k + 1) - 1) \ F) = IntsIn(args, k)
  <2>1. (1 .. (k + 1) - 1) \ F = {j \in I : j < k + 1}
    <3> HIDE DEF I, F, N
    <3>1. \A j \in 1 .. N : j \notin F <=> j \in I
      BY <1>1
    <3>2. \A j : j \in 1 .. (k + 1) - 1 <=> j \in 1 .. N /\ j < k + 1
      BY <1>1, <1>4
    <3>3. \A j \in I : j \in 1 .. N
      BY <1>1
    <3> QED BY <3>1, <3>2, <3>3
  <2> QED BY <2>1, Zenon DEF IntsIn, Passed, I
<1> HIDE DEF f, F, n
<1>11. f = FloatRegs => IntsIn(args, k) >= IntRegs
  BY <1>2, <1>8, <1>9, <1>10
<1>12. f <= FloatRegs /\ (f < FloatRegs => CallerRegs(args).rax > f)
  BY <1>2, <1>3, <1>5, <1>6, <1>7, Sizes
<1> QED BY <1>11, <1>12, Zenon DEF f

LEMMA Reach ==
    ASSUME NEW c \in Calls, FloatsInReach(c)
    PROVE  \A k \in 0 .. Len(c.args) :
              FloatsIn(c.args, k) > FloatRegs => IntsIn(c.args, k) >= IntRegs
<1> DEFINE args == c.args
           N == Len(args)
           S == {k \in 0 .. N : FloatsIn(args, k) > FloatRegs => IntsIn(args, k) >= IntRegs}
<1>1. /\ args \in Seq(Arguments) /\ N \in Nat /\ OfKind(args, "float") \in SUBSET (1 .. N)
      /\ \A i \in 1 .. N : args[i].kind = "int" \/ args[i].kind = "float"
  BY CallsTyped, KindsOfPlaces
<1>2. 0 \in S
  <2>1. Passed(OfKind(args, "float"), 1) = 0
    <3> HIDE DEF N
    <3> QED BY <1>1, PassedNone
  <2>2. FloatsIn(args, 0) = 0
    BY <2>1 DEF FloatsIn
  <2> QED BY <1>1, <2>2, Sizes
<1>3. ASSUME NEW k \in 0 .. N - 1, k \in S PROVE k + 1 \in S
  <2>1. k + 1 \in 1 .. N /\ k + 1 \in 0 .. N
    BY <1>1
  <2>2. /\ IntsIn(args, k) \in Nat /\ FloatsIn(args, k) \in Nat
        /\ args[k + 1].kind = "int" => /\ IntsIn(args, k + 1) = IntsIn(args, k) + 1
                                       /\ FloatsIn(args, k + 1) = FloatsIn(args, k)
        /\ args[k + 1].kind = "float" => /\ IntsIn(args, k + 1) = IntsIn(args, k)
                                         /\ FloatsIn(args, k + 1) = FloatsIn(args, k) + 1
    BY <1>1, CountsNext
  <2>3. CASE args[k + 1].kind = "int"
    <3>1. FloatsIn(args, k) > FloatRegs => IntsIn(args, k) >= IntRegs
      BY <1>3
    <3>2. FloatsIn(args, k + 1) > FloatRegs => IntsIn(args, k + 1) >= IntRegs
      <4> HIDE DEF args
      <4> QED BY <2>2, <2>3, <3>1, Sizes
    <3> QED BY <2>1, <3>2
  <2>4. CASE args[k + 1].kind = "float"
    <3>1. /\ FloatsIn(args, k) <= FloatRegs
          /\ FloatsIn(args, k) = FloatRegs => IntsIn(args, k) >= IntRegs
      BY <2>4, NextFloatInReach
    <3>2. FloatsIn(args, k + 1) > FloatRegs => IntsIn(args, k + 1) >= IntRegs
      <4> HIDE DEF args
      <4> QED BY <2>2, <2>4, <3>1, Sizes
    <3> QED BY <2>1, <3>2
  <2> QED BY <1>1, <2>1, <2>3, <2>4
<1>4. 0 .. N \subseteq S
  <2> HIDE DEF S
  <2> QED BY <1>1, <1>2, <1>3, SetInductionUpTo
<1> QED BY <1>4

\* A general register or a stack slot holds the next argument when as many slots
\* have been read as the arguments before it take.
LEMMA SlotHolds ==
    ASSUME NEW args \in Seq(Arguments), Args = args, frame = CallerRegs(args),
           NEW k \in 0 .. Len(args) - 1,
           NEW i, i = IntsIn(args, k), NEW f, f = FloatsIn(args, k),
           NEW n, n = 1 + i + Beyond(f, FloatRegs),
           \/ args[k + 1].kind = "int" /\ (f > FloatRegs => i >= IntRegs)
           \/ args[k + 1].kind = "float" /\ f = FloatRegs /\ i >= IntRegs
    PROVE  Slot(n) = args[k + 1]
<1> DEFINE N == Len(args)
           I == OfKind(args, "int")
           F == OfKind(args, "float")
           P == Spilled(args)
           s == Passed(P, k + 1)
<1>1. /\ N \in Nat /\ I \in SUBSET (1 .. N) /\ F \in SUBSET (1 .. N) /\ P \in SUBSET (1 .. N)
      /\ DOMAIN args = 1 .. N
      /\ \A j \in 1 .. N : /\ j \in I <=> args[j].kind = "int"
                           /\ j \in F <=> args[j].kind = "float"
  BY KindsOfPlaces
<1>2. k + 1 \in 1 .. N /\ k \in 0 .. N
  BY <1>1
<1>3. i \in Nat /\ f \in Nat
  BY CountsNext
<1>4. s = Beyond(i, IntRegs) + Beyond(f, FloatRegs)
  BY <1>2, SpilledCount DEF IntsIn, FloatsIn
<1> HIDE DEF N, I, F, P, s
<1>5. CASE i < IntRegs
  <2>1. n = i + 1 /\ args[k + 1].kind = "int" /\ n \in 1 .. IntRegs
    BY <1>3, <1>5, Sizes DEF Beyond
  <2>2. Slot(n) = Nth(args, I, n)
    <3>1. frame.ints = [m \in 1 .. IntRegs |-> Nth(args, I, m)]
      BY DEF CallerRegs, I
    <3>2. Slot(n) = frame.ints[n]
      BY <2>1, Sizes DEF Slot
    <3> QED BY <2>1, <3>1, <3>2
  <2>3. k + 1 \in I /\ n = Passed(I, k + 1) + 1
    BY <1>1, <1>2, <2>1 DEF IntsIn, I
  <2>4. Nth(args, I, n) = args[k + 1]
    <3>1. I \in SUBSET DOMAIN args
      BY <1>1
    <3> QED BY <2>3, <3>1, NthAt, Zenon
  <2> QED BY <2>2, <2>4
<1>6. CASE ~(i < IntRegs)
  <2>1. s + 1 = n - IntRegs /\ ~(n <= IntRegs)
    BY <1>3, <1>4, <1>6, Sizes DEF Beyond
  <2>2. Slot(n) = Nth(args, P, n - IntRegs)
    BY <2>1 DEF Slot, P
  <2>3. k + 1 \in P
    <3>1. k + 1 \in P <=> Before(args, k + 1) >= Registers(args[k + 1].kind)
      BY <1>1, <1>2 DEF Spilled, P
    <3>2. /\ args[k + 1].kind = "int" => Before(args, k + 1) = i
          /\ args[k + 1].kind = "float" => Before(args, k + 1) = f
      BY <1>2, BeforeIs DEF IntsIn, FloatsIn, N
    <3>3. Registers("int") = IntRegs /\ Registers("float") = FloatRegs
      BY DEF Registers
    <3> QED BY <1>3, <1>6, <3>1, <3>2, <3>3, Sizes
  <2>4. Nth(args, P, n - IntRegs) = args[k + 1]
    <3>1. n - IntRegs = Passed(P, k + 1) + 1
      BY <2>1 DEF s
    <3>2. P \in SUBSET DOMAIN args
      BY <1>1
    <3> QED BY <2>3, <3>1, <3>2, NthAt, Zenon
  <2> QED BY <2>2, <2>4
<1> QED BY <1>3, <1>5, <1>6, Sizes

\* An xmm register holds the next double when as many have been read as came before.
LEMMA XmmHolds ==
    ASSUME NEW args \in Seq(Arguments), frame = CallerRegs(args),
           NEW k \in 0 .. Len(args) - 1, args[k + 1].kind = "float",
           FloatsIn(args, k) < FloatRegs
    PROVE  frame.xmm[FloatsIn(args, k) + 1] = args[k + 1]
<1> DEFINE N == Len(args)
           F == OfKind(args, "float")
           n == FloatsIn(args, k) + 1
<1>1. /\ N \in Nat /\ F \in SUBSET (1 .. N) /\ DOMAIN args = 1 .. N
      /\ \A j \in 1 .. N : j \in F <=> args[j].kind = "float"
  BY KindsOfPlaces
<1>2. k + 1 \in 1 .. N
  BY <1>1
<1>3. FloatsIn(args, k) \in Nat
  BY CountsNext
<1> HIDE DEF N, F
<1>4. k + 1 \in F /\ n = Passed(F, k + 1) + 1 /\ n \in 1 .. FloatRegs
  BY <1>1, <1>2, <1>3, Sizes DEF FloatsIn, F
<1>5. frame.xmm = [m \in 1 .. FloatRegs |-> Nth(args, F, m)]
  BY DEF CallerRegs, F
<1> HIDE DEF n
<1>6. Nth(args, F, n) = args[k + 1]
  BY <1>1, <1>4, NthAt
<1> QED BY <1>4, <1>5, <1>6 DEF n

-----------------------------------------------------------------------------
(* What the format means is printed *)

\* A call within the limits of the program.
Fair(c) == ArgumentsMatch(c) /\ FloatsInReach(c) /\ DoublesFit(c) /\ NoOctalTopBit(c)

\* rbx, r12, r9 and xmm0 when i general arguments and f doubles of a call that
\* came with the registers saved have been read.
Counted(r, saved, i, f) ==
    /\ r.rbx = 1 + i + Beyond(f, FloatRegs)
    /\ r.r12 = f
    /\ f <= FloatRegs => r.r9 = saved.rax - f \/ r.r9 >= 10 - f
    /\ f = 0 => r.xmm[1] = saved.xmm[1]

\* When k characters of the format have been read, u is what they mean: a % that
\* still waits is one whose letter is none, and the rest of u has been printed.
Underway(k, u) ==
    /\ Len(rsi) = Len(call.fmt) - k
    /\ \A i \in 1 .. Len(rsi) : rsi[i] = call.fmt[k + i]
    /\ u.percent => (rsi # <<>> => rsi[1] \notin Letters \cup {"%"})
    /\ Sent(out) = u.text
    /\ u.used \in 0 .. Len(Args)
    /\ Counted(regs, frame, IntsIn(Args, u.used), FloatsIn(Args, u.used))

SoFar == pc = "format" /\ Fair(call)
            => \E k \in 0 .. Len(call.fmt) : Underway(k, Understood(call)[k])
CallIsOne == pc # "idle" => call \in Calls

FormatInv == PrintfInv /\ CallIsOne /\ SoFar /\ PrintsTheFormat

LEMMA MeaningNext ==
    ASSUME NEW c \in Calls, Fair(c), NEW k \in 0 .. Len(c.fmt) - 1
    PROVE  /\ Len(c.fmt) \in Nat /\ k \in 0 .. Len(c.fmt) /\ k + 1 \in 0 .. Len(c.fmt)
           /\ Understood(c)[k] \in Hearing
           /\ Understood(c)[k + 1] = Heard(c, Understood(c)[k], c.fmt[k + 1])
<1>1. Len(c.fmt) \in Nat
  BY CallsTyped
<1>2. k \in 0 .. Len(c.fmt) /\ k + 1 \in 1 .. Len(c.fmt) /\ (k + 1) - 1 = k
  BY <1>1
<1>3. DoublesFit(c)
  BY DEF Fair
<1> QED BY <1>1, <1>2, <1>3, Understanding

\* In the loop nothing but rsi, out and regs goes on.
LEMMA Onward ==
    ASSUME pc' = "format", call' = call, frame' = frame,
           NEW k \in 0 .. Len(call.fmt), NEW u, u = Understood(call)[k],
           Len(rsi') = Len(call.fmt) - k,
           \A i \in 1 .. Len(rsi') : rsi'[i] = call.fmt[k + i],
           u.percent => (rsi' # <<>> => rsi'[1] \notin Letters \cup {"%"}),
           Sent(out') = u.text, u.used \in 0 .. Len(Args),
           Counted(regs', frame, IntsIn(Args, u.used), FloatsIn(Args, u.used))
    PROVE  SoFar'
<1>1. Args' = Args
  BY DEF Args
<1>2. Underway(k, u)'
  BY <1>1 DEF Underway
<1>3. Understood(call)' = Understood(call)
  OBVIOUS
<1>4. Underway(k, Understood(call)[k])'
  BY <1>2
<1> QED BY <1>4 DEF SoFar

\* What is left of the format, one character on.
LEMMA OneOn ==
    ASSUME NEW s \in Seq(Char), s # <<>>
    PROVE  /\ Len(s) \in Nat \ {0} /\ Tail(s) \in Seq(Char) /\ Len(Tail(s)) = Len(s) - 1
           /\ \A i \in 1 .. Len(s) - 1 : Tail(s)[i] = s[i + 1]
OBVIOUS

LEMMA TwoOn ==
    ASSUME NEW s \in Seq(Char), Len(s) > 1
    PROVE  /\ Len(s) \in Nat /\ Tail(Tail(s)) \in Seq(Char) /\ Len(Tail(Tail(s))) = Len(s) - 2
           /\ \A i \in 1 .. Len(s) - 2 : Tail(Tail(s))[i] = s[i + 2]
<1>1. s # <<>>
  OBVIOUS
<1>2. /\ Len(s) \in Nat \ {0} /\ Tail(s) \in Seq(Char) /\ Len(Tail(s)) = Len(s) - 1
      /\ \A i \in 1 .. Len(s) - 1 : Tail(s)[i] = s[i + 1]
  BY <1>1, OneOn
<1>3. Tail(s) # <<>>
  <2>1. Len(Tail(s)) # 0 /\ Len(<<>>) = 0
    BY <1>2
  <2> QED BY <2>1
<1> DEFINE t == Tail(s)
<1> HIDE DEF t
<1>4. /\ Tail(t) \in Seq(Char) /\ Len(Tail(t)) = Len(t) - 1
      /\ \A i \in 1 .. Len(t) - 1 : Tail(t)[i] = t[i + 1]
  BY <1>2, <1>3, OneOn DEF t
<1>5. \A i \in 1 .. Len(s) - 2 : i \in 1 .. Len(t) - 1 /\ i + 1 \in 1 .. Len(s) - 1
                                 /\ (i + 1) + 1 = i + 2
  BY <1>2 DEF t
<1>6. Len(Tail(t)) = Len(s) - 2
  BY <1>2, <1>4 DEF t
<1>7. \A i \in 1 .. Len(s) - 2 : Tail(t)[i] = s[i + 2]
  BY <1>2, <1>4, <1>5 DEF t
<1> QED BY <1>2, <1>4, <1>6, <1>7 DEF t

\* What the invariant says of the format under way.
LEMMA Reads ==
    ASSUME FormatInv, pc = "format", Fair(call)
    PROVE  /\ call \in Calls /\ rsi \in Seq(Char) /\ out \in Output
           /\ Args \in Seq(Arguments) /\ Args = call.args /\ Len(Args) \in Nat
           /\ Len(call.fmt) \in Nat
           /\ Reading(regs) /\ frame = CallerRegs(Args)
           /\ \E k \in 0 .. Len(call.fmt) : Underway(k, Understood(call)[k])
<1>1. call \in Calls
  BY DEF FormatInv, CallIsOne
<1>2. Args \in Seq(Arguments) /\ Args = call.args /\ Len(Args) \in Nat /\ Len(call.fmt) \in Nat
  BY <1>1, CallsTyped DEF Args
<1>3. rsi \in Seq(Char) /\ out \in Output /\ Reading(regs) /\ frame = CallerRegs(Args)
  BY DEF FormatInv, PrintfInv, CallKept, LinesWhole
<1> QED BY <1>1, <1>2, <1>3 DEF FormatInv, SoFar

LEMMA PlainGoesOn ==
    ASSUME FormatInv, Fair(call), PlainChar PROVE SoFar'
<1>1. /\ pc = "format" /\ pc' = "format" /\ call' = call /\ frame' = frame /\ regs' = regs
      /\ rsi # <<>> /\ rsi[1] # "%" /\ out' = printChar(out, rsi[1]) /\ rsi' = Tail(rsi)
  BY DEF PlainChar, InFormat
<1>2. /\ call \in Calls /\ rsi \in Seq(Char) /\ out \in Output /\ Len(call.fmt) \in Nat
  BY <1>1, Reads
<1>3. PICK k \in 0 .. Len(call.fmt) : Underway(k, Understood(call)[k])
  BY <1>1, Reads
<1> DEFINE u == Understood(call)[k]
           w == Understood(call)[k + 1]
           ch == rsi[1]
<1>4. /\ Len(rsi) \in Nat \ {0} /\ Len(rsi') = Len(rsi) - 1
      /\ \A i \in 1 .. Len(rsi) - 1 : rsi'[i] = rsi[i + 1]
  BY <1>1, <1>2, OneOn
<1>5. /\ Len(rsi) = Len(call.fmt) - k /\ \A i \in 1 .. Len(rsi) : rsi[i] = call.fmt[k + i]
      /\ u.percent => ch \notin Letters
      /\ Sent(out) = u.text /\ u.used \in 0 .. Len(Args)
      /\ Counted(regs, frame, IntsIn(Args, u.used), FloatsIn(Args, u.used))
  BY <1>1, <1>3 DEF Underway
<1>6. k \in 0 .. Len(call.fmt) - 1 /\ k + 1 \in 0 .. Len(call.fmt) /\ ch = call.fmt[k + 1]
      /\ ch \in Char
  BY <1>2, <1>4, <1>5
<1>7. w = Heard(call, u, ch)
  BY <1>2, <1>6, MeaningNext
<1> HIDE DEF u, w, ch
<1>8. w = [text |-> Append(u.text, ch), percent |-> FALSE, used |-> u.used]
  BY <1>1, <1>5, <1>7 DEF Heard, ch
<1>9. w.text = Append(u.text, ch) /\ w.percent = FALSE /\ w.used = u.used
  BY <1>8
<1>10. Sent(out') = w.text
  BY <1>1, <1>2, <1>5, <1>6, <1>9, SentChar DEF ch
<1>11. Len(rsi') = Len(call.fmt) - (k + 1)
  BY <1>2, <1>4, <1>5
<1>12. \A i \in 1 .. Len(rsi') : rsi'[i] = call.fmt[(k + 1) + i]
  <2> SUFFICES ASSUME NEW i \in 1 .. Len(rsi') PROVE rsi'[i] = call.fmt[(k + 1) + i]
    OBVIOUS
  <2>1. i \in 1 .. Len(rsi) - 1 /\ i + 1 \in 1 .. Len(rsi) /\ k + (i + 1) = (k + 1) + i
    BY <1>4
  <2> QED BY <1>4, <1>5, <2>1
<1>13. Counted(regs', frame, IntsIn(Args, w.used), FloatsIn(Args, w.used))
  BY <1>1, <1>5, <1>9
<1>14. w = Understood(call)[k + 1]
  BY DEF w
<1> QED BY <1>1, <1>5, <1>6, <1>9, <1>10, <1>11, <1>12, <1>13, <1>14, Onward

LEMMA UnknownGoesOn ==
    ASSUME FormatInv, Fair(call), UnknownCode PROVE SoFar'
<1>1. /\ pc = "format" /\ pc' = "format" /\ call' = call /\ frame' = frame /\ regs' = regs
      /\ rsi # <<>> /\ rsi[1] = "%" /\ out' = out /\ rsi' = Tail(rsi)
      /\ Len(rsi) > 1 => rsi[2] \notin Letters \cup {"%"}
  BY DEF UnknownCode, InFormat
<1>2. /\ call \in Calls /\ rsi \in Seq(Char) /\ out \in Output /\ Len(call.fmt) \in Nat
  BY <1>1, Reads
<1>3. PICK k \in 0 .. Len(call.fmt) : Underway(k, Understood(call)[k])
  BY <1>1, Reads
<1> DEFINE u == Understood(call)[k]
           w == Understood(call)[k + 1]
<1>4. /\ Len(rsi) \in Nat \ {0} /\ Len(rsi') = Len(rsi) - 1
      /\ \A i \in 1 .. Len(rsi) - 1 : rsi'[i] = rsi[i + 1]
  BY <1>1, <1>2, OneOn
<1>5. /\ Len(rsi) = Len(call.fmt) - k /\ \A i \in 1 .. Len(rsi) : rsi[i] = call.fmt[k + i]
      /\ ~u.percent
      /\ Sent(out) = u.text /\ u.used \in 0 .. Len(Args)
      /\ Counted(regs, frame, IntsIn(Args, u.used), FloatsIn(Args, u.used))
  BY <1>1, <1>3 DEF Underway
<1>6. k \in 0 .. Len(call.fmt) - 1 /\ k + 1 \in 0 .. Len(call.fmt) /\ "%" = call.fmt[k + 1]
  BY <1>1, <1>2, <1>4, <1>5
<1>7. w = Heard(call, u, "%")
  BY <1>2, <1>6, MeaningNext
<1> HIDE DEF u, w
<1>8. w = [text |-> u.text, percent |-> TRUE, used |-> u.used]
  BY <1>5, <1>7 DEF Heard
<1>9. w.text = u.text /\ w.percent = TRUE /\ w.used = u.used
  BY <1>8
<1>10. Sent(out') = w.text
  BY <1>1, <1>5, <1>9
<1>11. Len(rsi') = Len(call.fmt) - (k + 1)
  BY <1>2, <1>4, <1>5
<1>12. \A i \in 1 .. Len(rsi') : rsi'[i] = call.fmt[(k + 1) + i]
  <2> SUFFICES ASSUME NEW i \in 1 .. Len(rsi') PROVE rsi'[i] = call.fmt[(k + 1) + i]
    OBVIOUS
  <2>1. i \in 1 .. Len(rsi) - 1 /\ i + 1 \in 1 .. Len(rsi) /\ k + (i + 1) = (k + 1) + i
    BY <1>4
  <2> QED BY <1>4, <1>5, <2>1
<1>13. Counted(regs', frame, IntsIn(Args, w.used), FloatsIn(Args, w.used))
  BY <1>1, <1>5, <1>9
<1>14. w = Understood(call)[k + 1]
  BY DEF w
<1>15. rsi' # <<>> => rsi'[1] \notin Letters \cup {"%"}
  <2> SUFFICES ASSUME rsi' # <<>> PROVE rsi'[1] \notin Letters \cup {"%"}
    OBVIOUS
  <2>1. rsi' \in Seq(Char)
    BY <1>1, <1>2, OneOn
  <2>2. Len(rsi') # 0
    BY <2>1
  <2>3. Len(rsi) > 1 /\ 1 \in 1 .. Len(rsi) - 1 /\ rsi'[1] = rsi[2]
    BY <1>4, <2>2
  <2> QED BY <1>1, <2>3
<1> QED BY <1>1, <1>5, <1>6, <1>9, <1>10, <1>11, <1>12, <1>13, <1>14, <1>15, Onward

\* A % and the character behind it, and what is understood then.
LEMMA PairMeans ==
    ASSUME FormatInv, pc = "format", Fair(call), rsi # <<>>, rsi[1] = "%", Len(rsi) > 1,
           rsi[2] \in Letters \cup {"%"},
           NEW k \in 0 .. Len(call.fmt), NEW u, u = Understood(call)[k], Underway(k, u)
    PROVE  /\ k + 2 \in 0 .. Len(call.fmt) /\ k + 1 \in 1 .. Len(call.fmt) - 1
           /\ call.fmt[k + 1] = "%" /\ call.fmt[k + 2] = rsi[2]
           /\ u \in Hearing /\ u.used \in 0 .. Len(Args)
           /\ Understood(call)[k + 1] = [text |-> u.text, percent |-> TRUE, used |-> u.used]
           /\ Understood(call)[k + 2] = IF rsi[2] = "%"
                THEN [text |-> Append(u.text, "%"), percent |-> FALSE, used |-> u.used]
                ELSE [text |-> u.text \o Meaning(rsi[2], Given(call, u.used + 1)),
                      percent |-> FALSE, used |-> u.used + 1]
           /\ Len(Tail(Tail(rsi))) = Len(call.fmt) - (k + 2)
           /\ \A i \in 1 .. Len(Tail(Tail(rsi))) : Tail(Tail(rsi))[i] = call.fmt[(k + 2) + i]
<1> DEFINE v == Understood(call)[k + 1]
           w == Understood(call)[k + 2]
           t == Tail(Tail(rsi))
<1>1. /\ call \in Calls /\ rsi \in Seq(Char) /\ Len(call.fmt) \in Nat
  BY Reads
<1>2. /\ Len(rsi) \in Nat /\ Len(t) = Len(rsi) - 2
      /\ \A i \in 1 .. Len(rsi) - 2 : t[i] = rsi[i + 2]
  BY <1>1, TwoOn
<1>3. /\ Len(rsi) = Len(call.fmt) - k /\ \A i \in 1 .. Len(rsi) : rsi[i] = call.fmt[k + i]
      /\ ~u.percent /\ u.used \in 0 .. Len(Args)
  BY DEF Underway
<1>4. /\ k \in 0 .. Len(call.fmt) - 1 /\ k + 1 \in 0 .. Len(call.fmt) - 1
      /\ k + 2 \in 0 .. Len(call.fmt) /\ k + 1 \in 1 .. Len(call.fmt) - 1
      /\ 1 \in 1 .. Len(rsi) /\ 2 \in 1 .. Len(rsi) /\ (k + 1) + 1 = k + 2
  BY <1>1, <1>3
<1>5. "%" = call.fmt[k + 1] /\ rsi[2] = call.fmt[k + 2]
  BY <1>3, <1>4
<1>6. u \in Hearing /\ v = Heard(call, u, "%") /\ w = Heard(call, v, rsi[2])
  <2>1. v = Heard(call, u, call.fmt[k + 1]) /\ u \in Hearing
    BY <1>1, <1>4, MeaningNext
  <2>2. Understood(call)[(k + 1) + 1] = Heard(call, v, call.fmt[(k + 1) + 1])
    BY <1>1, <1>4, MeaningNext
  <2> QED BY <1>4, <1>5, <2>1, <2>2
<1> HIDE DEF v, w, t
<1>7. v = [text |-> u.text, percent |-> TRUE, used |-> u.used]
  BY <1>3, <1>6 DEF Heard
<1>8. v.text = u.text /\ v.percent = TRUE /\ v.used = u.used
  BY <1>7
<1>9. "%" \notin Letters
  BY DEF Letters
<1>10. w = IF rsi[2] = "%"
           THEN [text |-> Append(u.text, "%"), percent |-> FALSE, used |-> u.used]
           ELSE [text |-> u.text \o Meaning(rsi[2], Given(call, u.used + 1)),
                 percent |-> FALSE, used |-> u.used + 1]
  <2> DEFINE a == [text |-> Append(u.text, "%"), percent |-> FALSE, used |-> u.used]
             b == [text |-> u.text \o Meaning(rsi[2], Given(call, u.used + 1)),
                   percent |-> FALSE, used |-> u.used + 1]
  <2>1. rsi[2] = "%" => w = a
    BY <1>6, <1>8, <1>9 DEF Heard
  <2>2. rsi[2] # "%" => w = b
    BY <1>6, <1>8 DEF Heard
  <2> HIDE DEF a, b
  <2>3. w = IF rsi[2] = "%" THEN a ELSE b
    BY <2>1, <2>2
  <2> QED BY <2>3 DEF a, b
<1>11. Len(t) = Len(call.fmt) - (k + 2)
  BY <1>1, <1>2, <1>3
<1>12. \A i \in 1 .. Len(t) : t[i] = call.fmt[(k + 2) + i]
  <2> SUFFICES ASSUME NEW i \in 1 .. Len(t) PROVE t[i] = call.fmt[(k + 2) + i]
    OBVIOUS
  <2>1. i \in 1 .. Len(rsi) - 2 /\ i + 2 \in 1 .. Len(rsi) /\ k + (i + 2) = (k + 2) + i
    BY <1>2
  <2> QED BY <1>2, <1>3, <2>1
<1> QED BY <1>3, <1>4, <1>5, <1>6, <1>7, <1>10, <1>11, <1>12, Zenon DEF v, w, t

LEMMA PercentGoesOn ==
    ASSUME FormatInv, Fair(call), PercentFmt PROVE SoFar'
<1>1. /\ pc = "format" /\ pc' = "format" /\ call' = call /\ frame' = frame /\ regs' = regs
      /\ rsi # <<>> /\ rsi[1] = "%" /\ Len(rsi) > 1 /\ rsi[2] = "%"
      /\ out' = printChar(out, "%") /\ rsi' = Tail(Tail(rsi))
  BY DEF PercentFmt, Conversion, InFormat
<1>2. out \in Output /\ "%" \in Char
  BY <1>1, Reads, CharAssumption
<1>3. PICK k \in 0 .. Len(call.fmt) : Underway(k, Understood(call)[k])
  BY <1>1, Reads
<1> DEFINE u == Understood(call)[k]
           w == Understood(call)[k + 2]
<1>4. /\ k + 2 \in 0 .. Len(call.fmt)
      /\ w = [text |-> Append(u.text, "%"), percent |-> FALSE, used |-> u.used]
      /\ Len(rsi') = Len(call.fmt) - (k + 2)
      /\ \A i \in 1 .. Len(rsi') : rsi'[i] = call.fmt[(k + 2) + i]
  BY <1>1, <1>3, PairMeans
<1>5. /\ Sent(out) = u.text /\ u.used \in 0 .. Len(Args)
      /\ Counted(regs, frame, IntsIn(Args, u.used), FloatsIn(Args, u.used))
  BY <1>3 DEF Underway
<1> HIDE DEF u, w
<1>6. w.text = Append(u.text, "%") /\ w.percent = FALSE /\ w.used = u.used
  BY <1>4
<1>7. Sent(out') = w.text
  BY <1>1, <1>2, <1>5, <1>6, SentChar
<1>8. w = Understood(call)[k + 2]
  BY DEF w
<1> QED BY <1>1, <1>4, <1>5, <1>6, <1>7, <1>8, Onward

LEMMA FitsIn == ASSUME NEW c \in Calls, DoublesFit(c), NEW i \in DOMAIN c.args
                PROVE  c.args[i] \in Arguments /\ Fits(c.args[i])
<1>1. c.args \in Seq(Arguments)
  BY CallsTyped
<1>2. Fits(c.args[i])
  BY DEF DoublesFit, Fits
<1> QED BY <1>1, <1>2

\* The argument of a conversion, and what it prints of it when it finds it.
LEMMA ConversionMeans ==
    ASSUME FormatInv, pc = "format", Fair(call), rsi # <<>>, rsi[1] = "%", Len(rsi) > 1,
           rsi[2] \in Letters,
           NEW k \in 0 .. Len(call.fmt), NEW u, u = Understood(call)[k], Underway(k, u),
           NEW a, a = Given(call, u.used + 1)
    PROVE  /\ u.used \in 0 .. Len(Args) - 1 /\ a = Args[u.used + 1] /\ a \in Arguments
           /\ a.type = TypeOf(rsi[2])
           /\ rsi[2] = "f" => a.kind = "float"
           /\ rsi[2] # "f" => a.kind = "int"
           /\ SlotText(rsi[2], a) = Meaning(rsi[2], a)
           /\ Meaning(rsi[2], a) \in Seq(Char)
<1>1. /\ call \in Calls /\ Args = call.args /\ Len(Args) \in Nat /\ Len(call.fmt) \in Nat
      /\ Args \in Seq(Arguments)
  BY Reads
<1>2. /\ k + 2 \in 0 .. Len(call.fmt) /\ k + 1 \in 1 .. Len(call.fmt) - 1
      /\ call.fmt[k + 1] = "%" /\ call.fmt[k + 2] = rsi[2]
      /\ u.used \in 0 .. Len(Args)
      /\ Understood(call)[k + 1] = [text |-> u.text, percent |-> TRUE, used |-> u.used]
  BY PairMeans
<1>3. DoublesFit(call) /\ ArgumentsMatch(call) /\ NoOctalTopBit(call)
  BY DEF Fair
<1>4. a.type = TypeOf(rsi[2])
  <2> DEFINE v == Understood(call)[k + 1]
  <2>1. v.percent = TRUE /\ v.used = u.used
    BY <1>2
  <2>2. k + 2 \in 1 .. Len(call.fmt) /\ (k + 2) - 1 = k + 1
    BY <1>1, <1>2
  <2>3. Understood(call)[(k + 2) - 1].percent /\ call.fmt[k + 2] \in Letters
           => Given(call, Understood(call)[(k + 2) - 1].used + 1).type = TypeOf(call.fmt[k + 2])
    BY <1>3, <2>2, Zenon DEF ArgumentsMatch
  <2> HIDE DEF v
  <2>4. v.percent /\ call.fmt[k + 2] \in Letters
           => Given(call, v.used + 1).type = TypeOf(call.fmt[k + 2])
    BY <2>2, <2>3 DEF v
  <2> QED BY <1>2, <2>1, <2>4
<1>5. TypeOf(rsi[2]) \in {"char", "text", "double", "word"} /\ Junk.type = "junk"
  BY DEF TypeOf, Letters, Junk
<1>6. u.used + 1 \in DOMAIN call.args
  <2>1. a # Junk
    BY <1>4, <1>5
  <2> QED BY <2>1 DEF Given
<1>7. u.used \in 0 .. Len(Args) - 1 /\ a = Args[u.used + 1]
  <2>1. DOMAIN Args = 1 .. Len(Args)
    BY <1>1
  <2>2. a = Args[u.used + 1]
    BY <1>1, <1>6 DEF Given
  <2> QED BY <1>1, <1>2, <1>6, <2>1, <2>2
<1>8. a \in Arguments /\ Fits(a)
  BY <1>1, <1>3, <1>6, <1>7, FitsIn
<1>9. /\ rsi[2] = "f" => a.kind = "float"
      /\ rsi[2] # "f" => a.kind = "int"
  <2>1. (a.type = "double" => a.kind = "float") /\ (a.type # "double" => a.kind = "int")
    BY <1>8 DEF Arguments
  <2>2. (rsi[2] = "f" => TypeOf(rsi[2]) = "double") /\ (rsi[2] # "f" => TypeOf(rsi[2]) # "double")
    BY DEF TypeOf, Letters
  <2> QED BY <1>4, <2>1, <2>2
<1>10. rsi[2] = "o" => a.v < MinWord
  <2> SUFFICES ASSUME rsi[2] = "o" PROVE a.v < MinWord
    OBVIOUS
  <2>1. a.type = "word"
    BY <1>4 DEF TypeOf
  <2>2. call.fmt[k + 1] = "%" /\ call.fmt[(k + 1) + 1] = "o"
    <3>1. (k + 1) + 1 = k + 2
      OBVIOUS
    <3> QED BY <1>2, <3>1
  <2>3. \A i \in DOMAIN call.args : call.args[i].type = "word" => call.args[i].v < MinWord
    BY <1>2, <1>3, <2>2, Zenon DEF NoOctalTopBit
  <2> QED BY <1>1, <1>6, <1>7, <2>1, <2>3
<1>11. a \in Slots
  BY <1>8 DEF Slots
<1>12. SlotText(rsi[2], a) = Meaning(rsi[2], a)
  BY <1>4, <1>8, <1>10, <1>11, ConversionsMean
<1>13. Meaning(rsi[2], a) \in Seq(Char)
  BY <1>8, <1>11, MeaningIsText
<1> QED BY <1>4, <1>7, <1>8, <1>9, <1>12, <1>13

\* A conversion that prints what it means goes on to what follows it.
LEMMA Converts ==
    ASSUME FormatInv, Fair(call), pc = "format", pc' = "format", call' = call, frame' = frame,
           rsi # <<>>, rsi[1] = "%", Len(rsi) > 1, rsi[2] \in Letters, rsi' = Tail(Tail(rsi)),
           NEW k \in 0 .. Len(call.fmt), NEW u, u = Understood(call)[k], Underway(k, u),
           NEW a, a = Given(call, u.used + 1),
           out' = printString(out, SlotText(rsi[2], a)),
           Counted(regs', frame, IntsIn(Args, u.used + 1), FloatsIn(Args, u.used + 1))
    PROVE  SoFar'
<1> DEFINE w == Understood(call)[k + 2]
           m == Meaning(rsi[2], a)
<1>1. /\ u.used \in 0 .. Len(Args) - 1 /\ m \in Seq(Char) /\ SlotText(rsi[2], a) = m
  BY ConversionMeans
<1>2. rsi[2] # "%"
  BY DEF Letters
<1>3. /\ k + 2 \in 0 .. Len(call.fmt)
      /\ w = [text |-> u.text \o m, percent |-> FALSE, used |-> u.used + 1]
      /\ Len(rsi') = Len(call.fmt) - (k + 2)
      /\ \A i \in 1 .. Len(rsi') : rsi'[i] = call.fmt[(k + 2) + i]
  BY <1>2, PairMeans
<1>4. out \in Output /\ Sent(out) = u.text /\ Len(Args) \in Nat
  BY Reads DEF Underway
<1> HIDE DEF w, m
<1>5. w.text = u.text \o m /\ w.percent = FALSE /\ w.used = u.used + 1
  BY <1>3
<1>6. Sent(out') = w.text
  BY <1>1, <1>4, <1>5, SentString
<1>7. w = Understood(call)[k + 2] /\ w.used \in 0 .. Len(Args)
  BY <1>1, <1>4, <1>5 DEF w
<1> QED BY <1>3, <1>5, <1>6, <1>7, Onward

LEMMA GeneralGoesOn ==
    ASSUME FormatInv, Fair(call), GeneralFmt PROVE SoFar'
<1>1. /\ pc = "format" /\ pc' = "format" /\ call' = call /\ frame' = frame
      /\ rsi # <<>> /\ rsi[1] = "%" /\ Len(rsi) > 1 /\ rsi' = Tail(Tail(rsi))
      /\ rsi[2] \in Letters /\ rsi[2] # "f"
      /\ out' = printString(out, SlotText(rsi[2], Slot(regs.rbx)))
      /\ regs' = [regs EXCEPT !.rbx = @ + 1, !.r9 = IF rsi[2] = "d" THEN 10 ELSE @]
  BY DEF GeneralFmt, Conversion, InFormat, Letters
<1>2. /\ call \in Calls /\ Args \in Seq(Arguments) /\ Args = call.args /\ Len(Args) \in Nat
      /\ Reading(regs) /\ frame = CallerRegs(Args)
  BY <1>1, Reads
<1>3. PICK k \in 0 .. Len(call.fmt) : Underway(k, Understood(call)[k])
  BY <1>1, Reads
<1>4. PICK u : u = Understood(call)[k]
  OBVIOUS
<1>5. PICK a : a = Given(call, u.used + 1)
  OBVIOUS
<1>6. Underway(k, u)
  BY <1>3, <1>4
<1>7. /\ u.used \in 0 .. Len(Args) - 1 /\ a = Args[u.used + 1] /\ a.kind = "int"
  BY <1>1, <1>4, <1>5, <1>6, ConversionMeans
<1>8. PICK n, i, f : n = u.used /\ i = IntsIn(Args, n) /\ f = FloatsIn(Args, n)
  OBVIOUS
<1>9. Counted(regs, frame, i, f)
  BY <1>6, <1>8 DEF Underway
<1>10. /\ i \in Nat /\ f \in Nat
       /\ IntsIn(Args, n + 1) = i + 1 /\ FloatsIn(Args, n + 1) = f
  BY <1>2, <1>7, <1>8, CountsNext
<1>11. f > FloatRegs => i >= IntRegs
  <2>1. FloatsInReach(call) /\ n \in 0 .. Len(call.args)
    BY <1>2, <1>7, <1>8 DEF Fair
  <2> QED BY <1>2, <1>8, <2>1, Reach
<1>12. Slot(regs.rbx) = a
  <2>1. regs.rbx = 1 + i + Beyond(f, FloatRegs)
    BY <1>9 DEF Counted
  <2>2. n \in 0 .. Len(Args) - 1 /\ Args[n + 1].kind = "int" /\ a = Args[n + 1]
    BY <1>7, <1>8
  <2> QED BY <1>2, <1>8, <1>11, <2>1, <2>2, SlotHolds
<1>13. Counted(regs', frame, i + 1, f)
  <2>1. /\ regs'.rbx = regs.rbx + 1 /\ regs'.r12 = regs.r12 /\ regs'.xmm = regs.xmm
        /\ regs'.r9 = 10 \/ regs'.r9 = regs.r9
    BY <1>1, <1>2 DEF Reading, Registry
  <2>2. Beyond(f, FloatRegs) \in Nat
    BY <1>10, Sizes DEF Beyond
  <2>3. regs'.rbx = 1 + (i + 1) + Beyond(f, FloatRegs)
    BY <1>9, <1>10, <2>1, <2>2 DEF Counted
  <2>4. regs'.r9 = 10 => regs'.r9 >= 10 - f
    BY <1>10
  <2> QED BY <1>9, <2>1, <2>3, <2>4 DEF Counted
<1>14. Counted(regs', frame, IntsIn(Args, u.used + 1), FloatsIn(Args, u.used + 1))
  BY <1>8, <1>10, <1>13
<1>15. out' = printString(out, SlotText(rsi[2], a))
  BY <1>1, <1>12
<1> QED BY <1>1, <1>4, <1>5, <1>6, <1>14, <1>15, Converts

\* exchangeABIXMM finds the next double, and counts it.
LEMMA ExchangeFinds ==
    ASSUME CallKept, Reading(regs), call \in Calls, FloatsInReach(call),
           NEW n \in 0 .. Len(Args) - 1, Args[n + 1].kind = "float",
           NEW i, i = IntsIn(Args, n), NEW f, f = FloatsIn(Args, n),
           Counted(regs, frame, i, f)
    PROVE  /\ exchangeABIXMM(regs).xmm[1] = Args[n + 1]
           /\ exchangeABIXMM(regs).rbx = 1 + i + Beyond(f + 1, FloatRegs)
           /\ exchangeABIXMM(regs).r12 = f + 1
           /\ f + 1 <= FloatRegs => \/ exchangeABIXMM(regs).r9 = frame.rax - (f + 1)
                                    \/ exchangeABIXMM(regs).r9 >= 10 - (f + 1)
<1> DEFINE e == exchangeABIXMM(regs)
           s == [regs EXCEPT !.r9 = @ - 1]
           a == Args[n + 1]
           x0 == Slot(regs.rbx)
           Good(u) == /\ u.xmm[1] = a
                      /\ u.rbx = 1 + i + Beyond(f + 1, FloatRegs)
                      /\ u.r12 = f + 1
                      /\ f + 1 <= FloatRegs => u.r9 = frame.rax - (f + 1) \/ u.r9 >= 10 - (f + 1)
<1> SUFFICES Good(e)
  OBVIOUS
<1>1. Args \in Seq(Arguments) /\ Args = call.args /\ frame = CallerRegs(Args) /\ Len(Args) \in Nat
  BY CallsTyped DEF CallKept, Args
<1>2. /\ i \in Nat /\ f \in Nat
  BY <1>1, CountsNext
<1>3. /\ f <= FloatRegs
      /\ f = FloatRegs => i >= IntRegs
      /\ f < FloatRegs => frame.rax > f
  <2>1. n \in 0 .. Len(call.args) - 1 /\ call.args[n + 1].kind = "float"
    BY <1>1
  <2> QED BY <1>1, <2>1, NextFloatInReach
<1>4. PICK p, x, q, b, c, d :
         /\ regs = [ints |-> p, xmm |-> x, rax |-> q, rbx |-> b, r12 |-> c, r9 |-> d]
         /\ x \in [1 .. FloatRegs -> Slots]
  <2>1. regs.xmm \in [1 .. FloatRegs -> Slots]
    BY RegistryRecord DEF Reading
  <2>2. regs = [ints |-> regs.ints, xmm |-> regs.xmm, rax |-> regs.rax, rbx |-> regs.rbx,
                r12 |-> regs.r12, r9 |-> regs.r9]
    BY RegistryRecord DEF Reading
  <2> QED BY <2>1, <2>2, Zenon DEF Reading
<1>5. /\ regs.xmm = x /\ regs.rbx = b /\ regs.r12 = c /\ regs.r9 = d /\ d \in Int
      /\ \A j \in 2 .. FloatRegs : x[j] = frame.xmm[j]
  BY <1>4 DEF Reading
<1>6. /\ b = 1 + i + Beyond(f, FloatRegs) /\ c = f
      /\ d = frame.rax - f \/ d >= 10 - f
      /\ f = 0 => x[1] = frame.xmm[1]
  BY <1>3, <1>5 DEF Counted
<1>7. s = [ints |-> p, xmm |-> x, rax |-> q, rbx |-> b, r12 |-> c, r9 |-> d - 1]
  BY <1>4
<1>8. e = IF d = 0 THEN FromStack(regs)
          ELSE IF c < FloatRegs
          THEN [s EXCEPT !.xmm[1] = x[c + 1], !.r12 = @ + 1]
          ELSE IF c = FloatRegs THEN FromStack(s) ELSE s
  BY <1>5 DEF exchangeABIXMM, s
<1>9. ASSUME f = FloatRegs PROVE x0 = a
  <2>1. i >= IntRegs /\ b = 1 + i + Beyond(f, FloatRegs)
    BY <1>3, <1>6, <1>9
  <2> QED BY <1>1, <1>5, <1>9, <2>1, SlotHolds
<1>10. ASSUME f < FloatRegs PROVE x[c + 1] = a
  <2>1. frame.xmm[f + 1] = a
    BY <1>1, <1>10, XmmHolds
  <2>2. f # 0 => f + 1 \in 2 .. FloatRegs
    BY <1>2, <1>10, Sizes
  <2> QED BY <1>2, <1>5, <1>6, <2>1, <2>2
<1>11. /\ f = FloatRegs => Beyond(f, FloatRegs) = 0 /\ Beyond(f + 1, FloatRegs) = 1
       /\ f < FloatRegs => Beyond(f, FloatRegs) = 0 /\ Beyond(f + 1, FloatRegs) = 0
  BY <1>2, Sizes DEF Beyond
<1>12. ASSUME NEW v, NEW z, v = [ints |-> p, xmm |-> x, rax |-> q, rbx |-> b, r12 |-> c, r9 |-> z]
       PROVE  /\ v.rbx = b => FromStack(v) = [ints |-> p, xmm |-> [x EXCEPT ![1] = x0],
                                rax |-> q, rbx |-> b + 1, r12 |-> c + 1, r9 |-> z]
  <2>1. Slot(v.rbx) = x0
    BY <1>5, <1>12
  <2> HIDE DEF x0
  <2>2. FromStack(v) = [v EXCEPT !.xmm[1] = x0, !.rbx = @ + 1, !.r12 = @ + 1]
    BY <2>1 DEF FromStack
  <2> QED BY <1>12, <2>2
<1> HIDE DEF a, x0, s, e
<1>13. CASE f = FloatRegs
  <2>1. e = FromStack(regs) \/ e = FromStack(s)
    BY <1>6, <1>8, <1>13, Sizes
  <2>2. PICK z : e = [ints |-> p, xmm |-> [x EXCEPT ![1] = x0],
                      rax |-> q, rbx |-> b + 1, r12 |-> c + 1, r9 |-> z]
    <3>1. regs.rbx = b /\ s.rbx = b
      BY <1>5, <1>7
    <3> QED BY <1>4, <1>7, <1>12, <2>1, <3>1
  <2>3. /\ e.xmm = [x EXCEPT ![1] = x0] /\ e.rbx = b + 1 /\ e.r12 = c + 1
    BY <2>2
  <2>4. e.xmm[1] = a
    BY <1>4, <1>9, <1>13, <2>3, Sizes
  <2>5. ~(f + 1 <= FloatRegs)
    BY <1>2, <1>13
  <2>6. e.rbx = 1 + i + Beyond(f + 1, FloatRegs) /\ e.r12 = f + 1
    <3>1. Beyond(f, FloatRegs) = 0 /\ Beyond(f + 1, FloatRegs) = 1
      BY <1>11, <1>13
    <3>2. b = 1 + i + 0 /\ c = f
      BY <1>6, <3>1
    <3>3. e.rbx = 1 + i + 1
      BY <1>2, <2>3, <3>2
    <3> QED BY <2>3, <3>1, <3>2, <3>3
  <2> QED BY <2>4, <2>5, <2>6, Zenon
<1>14. CASE f < FloatRegs
  <2>1. d # 0
    <3>1. frame.rax \in Nat
      BY <1>1, CallerRegsTyped
    <3>2. 10 > FloatRegs
      BY PrintfAssumption
    <3> QED BY <1>2, <1>3, <1>6, <1>14, <3>1, <3>2, Sizes
  <2> DEFINE y == x[c + 1]
  <2>2. e = [s EXCEPT !.xmm[1] = y, !.r12 = @ + 1]
    BY <1>6, <1>8, <1>14, <2>1
  <2>3. y = a
    BY <1>10, <1>14
  <2> HIDE DEF y
  <2>4. e = [ints |-> p, xmm |-> [x EXCEPT ![1] = y], rax |-> q, rbx |-> b,
             r12 |-> c + 1, r9 |-> d - 1]
    BY <1>7, <2>2
  <2>5. e.xmm = [x EXCEPT ![1] = y] /\ e.rbx = b /\ e.r12 = c + 1 /\ e.r9 = d - 1
    BY <2>4
  <2>6. e.xmm[1] = a
    BY <1>4, <2>3, <2>5, Sizes
  <2>7. frame.rax \in Nat
    BY <1>1, CallerRegsTyped
  <2>8. ASSUME f + 1 <= FloatRegs
        PROVE  e.r9 = frame.rax - (f + 1) \/ e.r9 >= 10 - (f + 1)
    <3>1. e.r9 = d - 1 /\ d \in Int /\ f \in Nat
      BY <1>2, <1>5, <2>5
    <3> QED BY <1>6, <2>7, <3>1
  <2>9. e.rbx = 1 + i + Beyond(f + 1, FloatRegs) /\ e.r12 = f + 1
    BY <1>6, <1>11, <1>14, <2>5
  <2> QED BY <2>6, <2>8, <2>9, Zenon
<1> QED BY <1>2, <1>3, <1>13, <1>14, Sizes

LEMMA FloatGoesOn ==
    ASSUME FormatInv, Fair(call), FloatFmt PROVE SoFar'
<1> DEFINE r == exchangeABIXMM(regs)
           finite == [r EXCEPT !.r9 = 10]
<1>1. /\ pc = "format" /\ pc' = "format" /\ call' = call /\ frame' = frame
      /\ rsi # <<>> /\ rsi[1] = "%" /\ Len(rsi) > 1 /\ rsi' = Tail(Tail(rsi))
      /\ rsi[2] \in Letters /\ rsi[2] = "f"
      /\ out' = printString(out, SlotText("f", r.xmm[1]))
      /\ regs' = r \/ regs' = finite
  BY DEF FloatFmt, Conversion, InFormat, Letters
<1>2. /\ call \in Calls /\ Args \in Seq(Arguments) /\ Args = call.args /\ Len(Args) \in Nat
      /\ Reading(regs) /\ CallKept /\ FloatsInReach(call)
  BY <1>1, Reads DEF FormatInv, PrintfInv, Fair
<1>3. PICK k \in 0 .. Len(call.fmt) : Underway(k, Understood(call)[k])
  BY <1>1, Reads
<1>4. PICK u : u = Understood(call)[k]
  OBVIOUS
<1>5. PICK a : a = Given(call, u.used + 1)
  OBVIOUS
<1>6. Underway(k, u)
  BY <1>3, <1>4
<1>7. /\ u.used \in 0 .. Len(Args) - 1 /\ a = Args[u.used + 1] /\ a.kind = "float"
  BY <1>1, <1>4, <1>5, <1>6, ConversionMeans
<1>8. PICK n, i, f : n = u.used /\ i = IntsIn(Args, n) /\ f = FloatsIn(Args, n)
  OBVIOUS
<1>9. Counted(regs, frame, i, f)
  BY <1>6, <1>8 DEF Underway
<1>10. /\ i \in Nat /\ f \in Nat
       /\ IntsIn(Args, n + 1) = i /\ FloatsIn(Args, n + 1) = f + 1
  BY <1>2, <1>7, <1>8, CountsNext
<1>11. /\ r.xmm[1] = a /\ r.rbx = 1 + i + Beyond(f + 1, FloatRegs) /\ r.r12 = f + 1
       /\ f + 1 <= FloatRegs => r.r9 = frame.rax - (f + 1) \/ r.r9 >= 10 - (f + 1)
  <2>1. n \in 0 .. Len(Args) - 1 /\ Args[n + 1].kind = "float" /\ a = Args[n + 1]
    BY <1>7, <1>8
  <2> QED BY <1>2, <1>8, <1>9, <2>1, ExchangeFinds
<1>12. r \in Registry
  BY <1>2, ExchangeReadsOn DEF Reading
<1> HIDE DEF r
<1>13. Counted(regs', frame, i, f + 1)
  <2>1. f + 1 # 0 /\ 10 >= 10 - (f + 1)
    BY <1>10
  <2>2. /\ regs'.rbx = r.rbx /\ regs'.r12 = r.r12
        /\ regs'.r9 = 10 \/ regs'.r9 = r.r9
    BY <1>1, <1>12 DEF Registry
  <2> QED BY <1>11, <2>1, <2>2 DEF Counted
<1>14. Counted(regs', frame, IntsIn(Args, u.used + 1), FloatsIn(Args, u.used + 1))
  BY <1>8, <1>10, <1>13
<1>15. out' = printString(out, SlotText(rsi[2], a))
  BY <1>1, <1>11
<1> QED BY <1>1, <1>4, <1>5, <1>6, <1>14, <1>15, Converts

LEMMA NothingSent == Sent([buffer |-> <<>>, writes |-> <<>>]) = <<>>
<1>1. FlattenSeq(<<>>) = <<>>
  BY DEF FlattenSeq
<1>2. \A o : o = [buffer |-> <<>>, writes |-> <<>>] => o.buffer = <<>> /\ o.writes = <<>>
  OBVIOUS
<1>3. <<>> \o <<>> = <<>>
  OBVIOUS
<1> QED BY <1>1, <1>2, <1>3, Zenon DEF Sent

\* The loop keeps what has been printed what the format means so far.
LEMMA LoopGoesOn ==
    FormatInv /\ (PlainChar \/ PercentFmt \/ UnknownCode \/ GeneralFmt \/ FloatFmt)
        => CallIsOne' /\ SoFar' /\ PrintsTheFormat'
<1> SUFFICES ASSUME FormatInv, PlainChar \/ PercentFmt \/ UnknownCode \/ GeneralFmt \/ FloatFmt
             PROVE  CallIsOne' /\ SoFar' /\ PrintsTheFormat'
  OBVIOUS
<1>1. pc = "format" /\ pc' = "format" /\ call' = call
  BY DEF PlainChar, PercentFmt, UnknownCode, GeneralFmt, FloatFmt, Conversion, InFormat
<1>2. CallIsOne' /\ PrintsTheFormat'
  BY <1>1 DEF FormatInv, CallIsOne, PrintsTheFormat
<1>3. CASE Fair(call)
  BY <1>2, <1>3, PlainGoesOn, PercentGoesOn, UnknownGoesOn, GeneralGoesOn, FloatGoesOn
<1>4. CASE ~Fair(call)
  <2>1. ~Fair(call')
    BY <1>1, <1>4
  <2> QED BY <1>2, <2>1 DEF SoFar
<1> QED BY <1>2, <1>3, <1>4

LEMMA EnterGoesOn == FormatInv /\ Enter => CallIsOne' /\ SoFar' /\ PrintsTheFormat'
<1> SUFFICES ASSUME FormatInv, Enter PROVE CallIsOne' /\ SoFar' /\ PrintsTheFormat'
  OBVIOUS
<1>1. pc = "idle" /\ pc' = "format" /\ out' = out
  BY DEF Enter
<1>2. PICK c \in Calls :
         /\ call' = c /\ frame' = CallerRegs(c.args) /\ rsi' = c.fmt
         /\ regs' = [ints |-> [n \in 1 .. IntRegs |-> Junk], xmm |-> CallerRegs(c.args).xmm,
                     rax |-> Junk, rbx |-> 1, r12 |-> 0, r9 |-> CallerRegs(c.args).rax]
  BY Zenon DEF Enter
<1>3. CallIsOne' /\ PrintsTheFormat'
  BY <1>1, <1>2 DEF CallIsOne, PrintsTheFormat
<1>4. /\ regs'.rbx = 1 /\ regs'.r12 = 0 /\ regs'.r9 = frame'.rax /\ regs'.xmm = frame'.xmm
  BY <1>2
<1>5. ASSUME Fair(c)
      PROVE  \E k \in 0 .. Len(c.fmt) : Underway(k, Understood(c)[k])'
  <2>1. c.fmt \in Seq(Char) /\ c.args \in Seq(Arguments) /\ Args' = c.args
        /\ Len(c.fmt) \in Nat /\ Len(c.args) \in Nat
    BY <1>2, CallsTyped DEF Args
  <2>2. Understood(c)[0] = Nothing
    BY <1>5, Understanding DEF Fair
  <2>3. PICK u : u = Understood(c)[0]
    OBVIOUS
  <2>4. u.text = <<>> /\ u.percent = FALSE /\ u.used = 0
    BY <2>2, <2>3 DEF Nothing
  <2>5. Sent(out') = u.text
    <3>1. out = [buffer |-> <<>>, writes |-> <<>>]
      BY <1>1 DEF FormatInv, PrintfInv, LinesWhole
    <3>2. Sent(out) = <<>>
      BY <3>1, NothingSent
    <3> QED BY <1>1, <2>4, <3>2
  <2>6. IntsIn(Args', 0) = 0 /\ FloatsIn(Args', 0) = 0
    <3>1. /\ OfKind(c.args, "int") \in SUBSET (1 .. Len(c.args))
          /\ OfKind(c.args, "float") \in SUBSET (1 .. Len(c.args))
      BY <2>1, KindsOfPlaces
    <3>2. /\ Passed(OfKind(c.args, "int"), 1) = 0 /\ Passed(OfKind(c.args, "float"), 1) = 0
      BY <2>1, <3>1, PassedNone
    <3>3. 0 + 1 = 1
      OBVIOUS
    <3> QED BY <2>1, <3>2, <3>3 DEF IntsIn, FloatsIn
  <2>7. Counted(regs', frame', 0, 0)
    <3>1. Beyond(0, FloatRegs) = 0 /\ frame'.rax - 0 = frame'.rax
      BY <1>2, <2>1, CallerRegsTyped, Sizes DEF Beyond
    <3> QED BY <1>4, <3>1 DEF Counted
  <2>8. Underway(0, u)'
    <3>1. Len(rsi') = Len(c.fmt) - 0 /\ \A i \in 1 .. Len(rsi') : rsi'[i] = c.fmt[0 + i]
      BY <1>2, <2>1
    <3> QED BY <1>2, <2>1, <2>4, <2>5, <2>6, <2>7, <3>1 DEF Underway
  <2>9. Underway(0, Understood(c)[0])'
    BY <2>3, <2>8
  <2>10. 0 \in 0 .. Len(c.fmt)
    BY <2>1
  <2> QED BY <2>9, <2>10
<1>6. SoFar'
  BY <1>2, <1>5 DEF SoFar
<1> QED BY <1>3, <1>6

LEMMA LeaveGoesOn == FormatInv /\ Leave => CallIsOne' /\ SoFar' /\ PrintsTheFormat'
<1> SUFFICES ASSUME FormatInv, Leave PROVE CallIsOne' /\ SoFar' /\ PrintsTheFormat'
  OBVIOUS
<1>1. /\ pc = "format" /\ rsi = <<>> /\ pc' = "libc" /\ call' = call
      /\ out' = forcePrintBuffer(out)
  BY DEF Leave
<1>2. CallIsOne' /\ SoFar'
  BY <1>1 DEF FormatInv, CallIsOne, SoFar
<1>3. ASSUME Fair(call) PROVE Written' = FormatMeaning(call)
  <2>1. out \in Output /\ Len(call.fmt) \in Nat
    BY <1>1, <1>3, Reads
  <2>2. PICK k \in 0 .. Len(call.fmt) : Underway(k, Understood(call)[k])
    BY <1>1, <1>3, Reads
  <2>3. k = Len(call.fmt) /\ Sent(out) = Understood(call)[k].text
    <3>1. Len(rsi) = 0
      BY <1>1
    <3> QED BY <2>1, <2>2, <3>1 DEF Underway
  <2>4. FlattenSeq(out'.writes) = Sent(out)
    BY <1>1, <2>1, SentForced
  <2> QED BY <2>3, <2>4 DEF Written, FormatMeaning
<1>4. PrintsTheFormat'
  BY <1>1, <1>3 DEF PrintsTheFormat, Fair
<1> QED BY <1>2, <1>4

LEMMA FormatStarts == Init => FormatInv
BY StartsWell DEF Init, FormatInv, CallIsOne, SoFar, PrintsTheFormat

LEMMA FormatKept == FormatInv /\ [Next]_vars => FormatInv'
<1> SUFFICES ASSUME FormatInv, [Next]_vars PROVE FormatInv'
  OBVIOUS
<1>1. PrintfInv'
  BY EnterKeeps, PlainKeeps, GeneralKeeps, FloatKeeps, LostKeeps, LeaveKeeps, LibcKeeps,
     StutterKeeps
     DEF Next, FormatInv
<1>2. CallIsOne' /\ SoFar' /\ PrintsTheFormat'
  <2>1. CASE LibcPrintf
    BY <2>1 DEF LibcPrintf, CallIsOne, SoFar, PrintsTheFormat
  <2>3. CASE JumpLost \/ TextLost
    BY <2>3 DEF JumpLost, TextLost, Conversion, InFormat, FormatInv, CallIsOne, SoFar,
                PrintsTheFormat
  <2>2. CASE UNCHANGED vars
    <3>1. UNCHANGED <<pc, call, regs, frame, rsi, out>>
      BY <2>2 DEF vars
    <3>2. CallIsOne' /\ SoFar' /\ PrintsTheFormat'
      BY <3>1 DEF FormatInv, CallIsOne, SoFar, PrintsTheFormat, Underway, Args, Written
    <3> QED BY <3>2
  <2> QED BY <2>1, <2>2, <2>3, EnterGoesOn, LoopGoesOn, LeaveGoesOn DEF Next
<1> QED BY <1>1, <1>2 DEF FormatInv

(* What my_printf has written when it calls the C library's printf is what *)
(* the format means for the arguments of the call, as far as those are of  *)
(* the kinds the format names and within what the program can find and     *)
(* print: read where rbx, r12 and r9 happen to point, rotated or divided   *)
(* into digits, and put through a buffer of any size.                      *)
THEOREM AlwaysPrintsTheFormat == Spec => []PrintsTheFormat
<1>1. FormatInv => PrintsTheFormat
  BY DEF FormatInv
<1> QED BY <1>1, FormatStarts, FormatKept, PTL DEF Spec
=============================================================================
