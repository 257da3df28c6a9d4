# Verification of the programs of this repository

The repository is the work of one course on systems programming: a dozen
programs in C, C++ and assembly that grow out of each other. This directory
holds TLA+ models of those with a state or an algorithm worth checking, the
configurations with which TLC checks them, and proofs for the TLA+ proof
system. Run `tlc -config X.cfg M.tla` for a configuration and `tlapm M.tla`
for a module of proofs; `PROJECT.json` lists every run, which lines of the
sources each definition stands for, and one mutant per property: a plausible
bug, written down in the modules as a "faulty variant", that the property
detects.

## 1. Inventory

### The programs

| Component (sources) | State | Operations | Interacts with |
|---|---|---|---|
| Array list (`shared/src/list.cpp`, copy in `x86_64_hashtable/src/list.c`) | an array of nodes with `next`/`prev`/`value`, capacities, head of the free chain | construct, destroy, grow, insert after a node, drop, linearize, verify | buckets of the hash table are such lists |
| Hash table (`x86_64_hashtable/src/ht_chains.c`) | an array of buckets, the number of entries, copies of long keys on the heap | construct, destroy, add, get, delete; rehash when the load factor is reached | array list, `malloc` |
| Keyboard driver (`dos_asm/kb_drvr/kb_rdt.asm`) | the resident part's flag, two copies of the screen under its popup, saved vectors | install itself; handlers of interrupts 9 and 8 | the running program (through video memory), BIOS handlers (chained), interrupt controller and keyboard (ports) |
| SPU assembler (`spu/src/translator`, `spu/src/spu_lib`) | lines, label table, binary, pass | two passes over the lines, one parser per layout of instructions | writes the binary that the processor loads |
| SPU processor (`spu/src/spu_lib`) | registers, flags, data stack, call stack, memory, `ip` | load; one handler per instruction | pvector of `shared/` for the stacks; console, screen |
| SPU bit operations and disassembler (`spu_bit_ops.cpp`, `spu/src/disasm`) | none | fields to word, word to fields, fields to text | assembler, processor |
| Language front end (`lang/frontend`) | tokens, position of the parser | lexer; recursive descent parser | writes a tree as text |
| Language middle end (`lang/middleend`) | none | folds constants | reads and writes a tree |
| Language back end (`lang/backend`) | variables, functions, number of labels used, output | one function per kind of node | reads a tree, writes assembly for the SPU |
| Language tree (`lang/shared`) | a tree | serialize, deserialize, create nodes | all three programs |
| Vector with checks (`stack/`), vector (`shared/src/pvector.cpp`) | a growing array, flags; canaries, two hashes and poison in the first | construct, destroy, clone, flags, destructor, capacity, push, pop, get, verify; in the second also empty and sort | the SPU's stacks and most programs use the second; a destructor of the caller's is called back |
| Sorting (`shared/src/sort.cpp`, copy in `onegin/`) | an array | merge sort, bubble sort, `qsort` | the vector calls it on its array |
| Derivator (`derivator/`) | a formula with its variables, their values, the list of its derivatives | parse, load, store, simplify, evaluate, derive n times, Taylor series, plot, LaTeX | files; LaTeX and gnuplot through pipes |
| printf in assembly (`x86_64_printf/`) | a static buffer, a position among the arguments, registers | one branch per conversion; write when full, after a newline, at the end | its caller's registers and stack, the C library's printf, which it calls with the same arguments |
| Text sorter (`onegin/`), quadratic equations, mandelbrot, benchmarks and stream hashes, helpers of `shared/`, DOS exercises | (none, or numerical) | | |

### Where they are hard

* **Concurrency** exists in one place only: the driver's handlers interrupt
  the program, and the driver's own installation, between any two of their
  instructions; the screen is shared memory without a lock.
* **Failure.** Every growth of an array may fail. The list and the table
  promise to be as before; the vector's pop reports a failure after it has
  removed the element; the back end drops statuses.
* **Long sequences of legal calls.** Free chain and links of the list share
  fields; handles go stale; rehashing moves every entry; linearizing renumbers.
* **Bookkeeping that must keep up.** The checked vector's canaries, poison and two
  hashes are touched by every operation; the list of derivatives is extended by
  later requests; the number of arguments read is kept in three registers, one
  of which is used for something else.
* **Boundaries.** Fields of 20 bits with a sign, registers split over two
  bytes of a word, jumps one past the last instruction, an index compared with
  a size in bytes; a merge block shorter than its width; arguments that no
  register is left for; a buffer that is just full.
* **Two descriptions that must agree.** Two passes of the assembler; parser and
  printer of a tree; writer and reader of an instruction; what a program means
  and what its translation does.

The hazards at their lines, with the properties that watch over them, are in
`PROJECT.json`.

### What makes each part correct

* *List*: links mutual, free chain apart from them, nothing leaked, growth only
  when nothing can be reused; seen from outside, a sequence with stable handles.
  The verifier refuses no list but the one that was never given a sentinel.
* *Table*: a map, whatever rehash fails in the middle; each heap copy owned once.
* *Driver*: hiding the popup restores what the program put on the screen; no
  interrupt is lost or left unacknowledged.
* *SPU*: the processor never leaves program, stacks or registers whatever the
  binary; assembler and processor together do what the text says; words and
  texts go round without loss.
* *Vector*: it never finds itself corrupt, and always finds what others corrupted;
  seen from outside it is a stack, and owned elements leave through the destructor
  once (in `stack/`, a popped one as poison).
* *Derivator*: a text is read as its grammar says, simplification keeps values,
  derivatives and Taylor polynomials are those of the function, a stored tree
  comes back with six digits of its numbers or not at all.
* *printf*: the text is what the format means for the arguments, wherever the
  calling convention puts them, and the C library gets the call unharmed.
* *Language*: what is read is what was written; what compiles computes what the
  program means and leaves the stack as it was.

## 2. Modules

`MC*` modules only give constants their values for TLC.

### List: `HandleSeq`, `ArrayList`, `NatRecursion`, `ArrayListProofs`, `ListLinearize`

`ArrayList` keeps the array as one function per field, defined on exactly the
indexes that the code has initialised, so that reading anything else is an
error of the model. Each call of the interface is one action, with
`list_set_capacity`, `find_free_ptr` and the failing `realloc` inside it. The
capacities asked for start at 0: `realloc` of no bytes makes a block for a list
without one and gives the block back of a list that has one (as the C library of
the build does), so `array` says whether the pointer is null, a block, or a block
given back; through the last every call but `list_ctor` is `UseFreed`, the end of
the model. Capacities whose size in bytes wraps around are not asked for.
`list_verify` is an operator that returns the same error bits as the code.
`HandleSeq` is the abstract list: a sequence of handles with a value each; the
refinement mapping walks the ring. `ListLinearize` adds `list_linearize`, one
step per iteration of its loop, with the code's order of assignments through
aliased nodes, beside all the operations of the list; where the loop leaves the
array the model stops in `"overrun"`. `NatRecursion` has no model in it: it is
the induction that this and the later proof modules rest on (section 4).

### Vector and sorts: `Sorts`, `ElementStack`, `Pvector`, `PvectorProofs`

`Sorts` gives merge sort (its passes, blocks and the merge with two indexes) and
bubble sort as functions on sequences. `Pvector` is both vectors: `debug`, chosen
at the start, says whether the code is compiled with `PVECTOR_DEBUG`. A CRC is
taken to tell any two contents apart, so a hash is the content it was made of.
`pvector_verify` returns the code's error bits, and every operation but one
begins with it, as in the code. `StrayWrite` is a write of somebody else's to
what canary, hash or poison guard. A clone is made into a zeroed structure, as
all callers do (into one that was in use, the checked build would move the new
array's start). A stray write hits a vector that verifies, so that one is
found before the next is made. `ElementStack` is what callers rely on.

### Derivator: `DerivTree`, `DerivText`, `DerivMeaning`, `Derivator`, `MCDerivator`

`DerivTree` has the nodes, the evaluators, the simplifier and one operator per
rule of derivation, which builds the same tree as the code; `DerivText` the
recursive descent parser on tokens and the file form with its reader;
`Derivator` the calls of `derivator_main.c` in any order, the list of derivatives
in its state. TLC has no reals: numbers are those of the field with P = 7
elements, a division by zero is "no number" (as the code's NaN and infinity
together), and sine, cosine and logarithm are uninterpreted functions that are
given by tables, as is what six digits (`"%g"`, then `strtod`) leave of a number:
`SixDigits` changes some numbers of the field and keeps the others. A rule of derivation is an identity between terms, so one that
is wrong for real numbers is wrong here unless the identity happens to hold mod
7 at all points and tables tried. `DerivMeaning` is the reference: a grammar
of readings instead of a parser, and power series around a point, multiplied,
divided and composed, instead of rules.

### printf: `Printf`, `MCPrintf`, `PrintfProofs`

One action per branch of the format loop. The caller's side of a variadic call
(which register or slot holds which argument) is the system's convention,
written beside it. `r9`, `r12` and `rbx` are used exactly as in the code,
including the computed jump that runs off the table of `movaps` into the code
behind it: one entry further it reads the stack, one more it returns, and beyond
that it lands in another routine (`JumpLost`), where the model ends, as it does
when a text is read where none is (`TextLost`). Numerals are made as the code makes
them (rotation, division). `FormatMeaning` is the reference, character by character
and argument by argument: the manual's reading for integers, characters and texts,
while of a double it takes the first `Precision` places as the code does and not, as
the manual says, the nearest number with so many places. Doubles are multiples of
`1/FloatUnit`, with places few enough for `mulsd` to be exact (`ExactAssumption`); what
its rounding does to others, 0.3 among them, is not modelled. Where a conversion
reads a slot that holds something else, the text is one that no property speaks of;
`ArgumentsMatch` says that the format names the types of the arguments.

### Hash table: `KeyValueMap`, `HtChains`, `MCHtChains`, `HtChainsProofs`

A bucket is the sequence of its entries and a capacity (the list itself is the
business of `ArrayList`). Every allocation may fail: the table's arrays, the
copy of a long key, the growth of a bucket, and the growth of a new bucket in
the middle of a rehash. After that last failure keys still in use have been
freed; the history variable `bereft` records it, and using such a key leads to
`"undefined"`. `KeyValueMap` is the abstract map, in which a failed call
changes nothing.

### Keyboard driver: `KbRdt`, `MCKbRdt`, `KbRdtProofs`

The actions are those of the program (write a word, copy a word as scrolling
does, run the driver again, one step of its installation), the hardware (a scan
code arrives, an interrupt is taken), the two handlers of every installed
instance, and the BIOS handlers they chain to. A handler is one step from its
entry to its `iret` or its jump to the next in the chain: interrupts are
disabled there. `truth` is what the program believes to be on the screen.

### SPU: `SpuIsa`, `SpuAlu`, `SpuExec`, `SpuAsm`, `SpuSource`, `SpuToolchain`, `SpuToolchainProofs`, `SpuBits`, `SpuBitsProofs`

`SpuIsa` names the operations by their layout and the fields of an instruction;
`SpuAlu` is the arithmetic on words of a given width. `SpuExec` has one action
per handler of `spu_execs/`; a host trap (least word divided by -1) is the
status `"crashed"`, an access outside the allocation `"undefined"`. The binary
is arbitrary: no assembler is assumed to have written it. `SpuAsm` is the two
passes, line by line. `SpuSource` is what a programmer relies on, written
without binaries or addresses, and `SpuToolchain` composes assembler, loader and
processor and refines it. `SpuBits` takes lines and words round the conversions
text - fields - word - fields - text.

### Language: `LangTree`, `LangFrontend`, `LangMiddleend`, `LangBackend`, `LangMeaning`, `LangToolchain`, `MCLangToolchain`

`LangTree` is the tree and its text form. `LangFrontend` is the lexer (on words;
grouping characters into words is left out) and the parser, one operator per
function, which returns status, position and node: position matters, because an
alternative that gives up may have moved it. Four of the parser's loops are the
same code with other operators; they are one operator here with a table.
`LangMiddleend` folds constants. `LangBackend` is `backend.c` as functions of a
context record, statuses dropped where the code drops them.
`LangToolchain` chains the programs as `lang/gen_pg_files.sh` does and then the
SPU's, by extending `SpuToolchain`: a listing of the back end is a source of the
assembler. The middle end may be left out.

`LangMeaning` is written from nobody's code: how a tree is written with the
fewest parentheses, which programs are well formed, and what they leave in
their variables. Two things there are read off the compiler, because the
repository says nothing else: variables and parameters are one cell each for
the whole program (a recursive call overwrites its caller's), and arguments are
evaluated from the last to the first.

## 3. Runs

| Run | Question | Bounds, and why they suffice |
|---|---|---|
| `list` | Are links, free chain and `list_verify` sound after every call, linearizing included, growth minimal, the order kept, and is the list a sequence? | Two values, capacities 2 and 4, a third growth refused, `list_set_capacity` from 0 to 6. Inserts and drops at both ends and in the middle, a free chain of all freed nodes, growth with and without failure, a first and a second capacity of 0, and linearizing of every such list all occur; an operation rewrites four nodes at most. `CHECK_DEADLOCK FALSE`: after an overrun, or on a block given back (section 6), the program has no defined next step. |
| `pvector` | Does the vector accept itself, betray stray writes, hand over its elements, and is it a stack with sorts? | Three element values, the poison among them; 5 elements (3 while they are hashed), capacities 0 to 12, an initial capacity of 1 so that growing, shrinking and failing to do either all happen; stray writes at any place and time, one before each verification. |
| `ht` | Is the table a map that owns its keys? | One short and three long keys with colliding hashes, buckets that hold one entry before they grow, one bucket at first, load factor 2: the array doubles twice (a third rehash would need more keys). Values are symmetric. |
| `kb` | Is the screen restored, and is every interrupt delivered and acknowledged? | Two cells, two words, two register contents that differ in one cell, so that drawing changes one cell and not another, and a word of the program may equal a drawn one; two instances, the second installed at any moment. |
| `spu_exec` | Do processor and stacks keep within bounds for every binary? | Words of 3 bits, two registers, call stack of 2, 3 words of memory of which 1 is allocated; all programs of up to three control instructions, of up to two data instructions behind two inputs (so that every pair of words occurs), of five calls and returns. |
| `spu_toolchain` | Do the passes agree and does the machine do what the text says? | All texts of four lines from a pool, a procedure with every body of up to three lines, faulty texts, jumps longer than the field of 3 bits. Texts declare the labels they jump to and call unconditionally, because of the flaws of section 6. |
| `spu_bits` | Do fields survive the way through a word and a text? | The real layout: 32 registers, 20-bit numbers; registers and numbers at the edges of their fields, every opcode. An `int32_t` has 22 bits, which still exceeds the field on both sides. |
| `lang` | Is a program read as written, compiled, and does it compute what it means on an empty stack? | Words of 8 bits, 4 cells, loops and calls nested up to 8 in the reference. 996 inputs: every operator on constants and variables, pairs of nested operators, every pair of statements from a pool (assignments, conditionals with and without else, nested loops, returns), functions before and after their use with nested, recursive and mismatched calls, and broken texts. Over a thousand of the resulting compilations, with and without folding, run to the end and are compared with the meaning; some divide by zero; 300 are refused, ill-formed ones among them. |
| `lang_keyword` | Does every keyword reach the tree? Expected violation. | |
| `derivator` | Is a text read as the grammar says, does simplification keep values, are derivatives and Taylor polynomials right, and what is loaded from a file, whole or cut? | Every sequence of up to four out of nine tokens (most are no formula, and must be refused); every operator and function over every bracketed formula of one operator, with the constants 0, 1 and 2 where the simplifier looks for them; every chain of three operators without brackets; a name of two letters, a division by zero, an unclosed bracket; derivatives up to the third, requested in any order with the variable changed in between; Taylor series around one point; files cut after every word, of numbers that six digits keep and of others. |
| `derivator_quotient` | Is a quotient derived by the rule stated above the code? Expected violation. | |
| `printf` | Is the text what the format means, does the buffer let lines go, and is the call handed on as it came? | Words of 16 bits (one bit more than whole octal digits, as with 64), two argument registers of each kind, a buffer of 4. Every sequence of two conversions out of 43 with numbers at the edges of a word, and every sequence of six out of four that tell registers and stack apart, so that both kinds of registers run out and up to three more doubles follow, the last of which loses the program; a text read from a number. Doubles are eighths, printed with two places. `CHECK_DEADLOCK FALSE`: a lost program has no defined next step. |

What each property says is written above its definition.

### Fairness

* `KbRdt`: weak fairness of the handlers, because a handler runs with interrupts
  off and nothing else has the processor; strong fairness of the keyboard
  interrupt, because a handler of another interrupt may have the processor
  again and again, but the timer ticks only 18 times a second. No fairness of
  the program or the user.
* `SpuExec`: weak fairness of the `while` loop of `SPUExecute`, which has
  nothing to wait for. It serves `ForwardProgramsEnd`.
* All other specifications are without fairness and have only safety properties.

## 4. What is proved

Everything here holds for every value of the constants that satisfies the
assumptions named, where a run shows it for one.

**Induction (`NatRecursion`).** The library's induction takes a predicate, which
no prover here can instantiate. `SetInduction` takes a set instead and follows
from the order of the numbers being well-founded; `RecursionUpTo` then shows that
a first value and a step determine a function. Walks, folds and digits are
written as recursive functions in the modules with proofs, and their properties
are proved from the two.

**List (`ArrayListProofs`;** initial capacity at least 2**).** `TypeOK`, `LinksMutual`
and `FreeChainSound` are proved together: their conjunction `Inv` is inductive, none of
the three is, since an insertion takes the head of the free chain on trust and a
drop trusts the links (`SpliceLinks` is the lemma on the four pointers every
insertion rewrites). From `Inv`: the walk along `next` comes back to the sentinel
after visiting each linked node once, and so does the walk along the free chain,
hence `ListAlwaysVerifies` (of every list that has a sentinel or no array at all;
the block of capacity 0 is the one list that `list_verify` finds corrupt, and
nothing is said of a block given back); `OnlyAFullArrayGrows`; and, as an insertion or drop
changes the walk in one place, `ArrayImplementsSequence`, the refinement of
`HandleSeq`. All this is about `ArrayList`'s specification, that is every operation
but `list_linearize`, which may leave the array (section 6); the run `list`
includes it.

**Vector (`PvectorProofs`;** of `VectorAssumption` only `Capacities \subseteq Nat` and the
naturalness of the initial capacity**).** `SoundAccepted`, `AcceptedIsIntact` and the
action property `ElementsHandedOver`. The invariant `IInv` has three parts: the
shape of the array; that a checked vector whose content is in order is the one
that the calls made (`ContentIntact`); and that everything is in order until
somebody else writes. `AcceptedIsIntact` alone is not inductive:
`pvector_set_element_destructor` makes the structure's hash again without verifying, so
the invariant has to show that the content betrays every stray write without
that hash. `OwnedElementsHandedOver` says of each element with a destructor that it
goes through it once, and as what: as it was, in `shared/` and when a vector is
destroyed; as poison, when the `pvector_pop_back` of `stack/` takes it off
(section 6). `pvector_empty` drops elements without their destructor.

**Sorts and stack (also `PvectorProofs`;** arrays of integers, of any length**).**
`BubbleSortSorts` and `MergeSortSorts`: both return what `ElementStack` calls the
ordered elements, a rearrangement (given by a bijection of the indexes) that ascends.
Each loop has its invariant: after a pass of the bubble sort its last elements are in
place and above all others; a merge has taken, from each of its two runs, the part
below what it takes next; after a pass of the merge sort every block of twice the
length is in order. With `CellsHoldIntegers` (what is compared is a number) they
give `VectorIsAStack`, the refinement `ImplementsElementStack`, call by call.

**Hash table (`HtChainsProofs`;** any keys, hash function, load factor and bucket
capacity above 1**).** The invariant says that there is a length and a set of entries
such that every entry of the set stands, once, in the bucket its hash names at
that length, that as many are counted, and that the heap holds their long keys
unless a rehash gave up in the middle. The set is what makes it inductive:
rehash walks through the buckets in one order and fills the others in another,
and only the set is the same before and after. From it `EntriesAlwaysInPlace`,
`TableAlwaysOwnsItsKeys`, the refinement `TableImplementsMap`, and
`FreedOnlyByAFailedMove`: the use after free of section 6 has no other cause.

**Keyboard driver (`KbRdtProofs`;** any cells, words, pictures, number of
instances**).** `AlwaysAcknowledged`, `PictureAlwaysKnown`, `OnlyUnseenEverLost` and
`ChainsAlwaysDescend`. The first needs that the controller waits for exactly the
interrupt being handled (`InServiceIsHandled`). That handlers chain to older
instances only is not inductive by itself: between two steps of an installation a
vector may already point to the instance being installed, which must by then
have saved where it points (`VectorsBehind`). What the driver knows of the screen
(`DriverKnows`) is, cell by cell, what the two buffers and the history variable
`defect` have to say to each other.

**SPU processor (`SpuToolchainProofs`, first part;** any program, sizes of words, fields, registers,
stacks and memory; bit operations yield words**).** `TypeCorrect` (the instruction
pointer stays within the program), `ReturnsAlwaysFollowCalls` and the action property
`NothingImplicit`. The invariant is `ExecInv`, types (`Sound`) and
`ReturnsFollowCalls` together: that `ret` stays in the program needs the addresses on
the call stack to be places behind calls. `Sound` does not say which programs are
run, so the toolchain can use it for the one it has assembled.
`ConditionsMeanComparisons` says that the flags of `cmp` and the six conditions fit
together for all words.

**SPU toolchain (`SpuToolchainProofs`;** any set of texts, any sizes; a label is a
name**).** In both passes the counter is the number of instructions above the line
(`Above`), so a label's address does not depend on the pass, and a jump's
displacement is a difference of two such counts: `AssemblerTypeCorrect`,
`PassesAlwaysAgree`, `JumpsAlwaysReachLabels`. `ToolchainRunsAsWritten` is the
refinement of `SpuSource` by assembler, loader and processor, step by step: a text is
rejected or the machine does what the text says. Its hypothesis
`DeclaresAndCalls` (labels that are jumped to are declared, calls are
unconditional) excludes what section 6 shows to go wrong otherwise; the
same restriction is in the run's texts. Empty lines are dropped before the
passes, so the proof carries a map from the tokenized lines to those of the text.

**SPU encodings (`SpuBitsProofs`;** any texts and words, any width of an `int` not
below that of a number's field; the layout of a word is the real one, which
`BitsAssumption` fixes**).** The assembler sets the fields of a word one by one by
masks and shifts, and the loader reads them back likewise: both are proved to be digits
of the 24-bit argument, and that a later field does not disturb an earlier one.
`WordReadBack` says that fields written into a word are read from it, for every
operation, `LineReadBack` that a line written from them is parsed to them again if
it is accepted. The inductive
invariant is `Circle`: before the first conversion the line or the word is one of
those given; afterwards whichever of text, fields and word is current is what the
noted meaning is written as. From it `MeaningAlwaysKept` and
`ReassemblyAlwaysAccepted`. Neither of the two invariants is inductive: they
compare the ends of the circle and say nothing of the form in between.

**printf (`PrintfProofs`;** any buffer size, number of general registers, formats and
arguments, however many doubles among them; any words whose width is one bit more
than whole octal and a multiple of hexadecimal digits, and any precision of which a word holds the fraction;
`PowersAssumption` states the recurrence of the powers, which the provers do not
know, and `PrintfAssumption` that there are fewer than ten xmm registers, because
the decimal conversion leaves ten in the register that counts them;
`ExactAssumption` that the places of a double are few enough for `mulsd` to be
exact, with the real 53 bits and six places multiples of 1/2^33**).**
`LinesAlwaysGoOut` and `AlwaysHandedOn` hold of every call, whether its arguments fit
the format or not, as long as the program is not lost: it is lost at a `%s` without
a text, and at the jump of `printf.s:663` when more than `FloatRegs + 1` doubles have been
read and the register that counts them was set to ten since. What a conversion
prints of an argument of another type is a text that stands for any.
`LinesAlwaysGoOut`: what the buffer holds contains no newline, and every
write made so far ends in one or is full, kept by each character and hence by
each text, since every conversion yields a sequence of characters (that the
decimal digits exist at all is an induction). `AlwaysHandedOn`: the invariant
`Reading` says which registers the format loop uses, and that of the xmm registers
only `xmm0` is written, the one that is saved.

`AlwaysPrintsTheFormat` is what the program is for. `XOBIsNumeral`: digit i of the
rotated word is the word divided by a power of the base, so that the zeros skipped
are those in front of the numeral; the top bit has to be clear for octal digits
only. The quotients and remainders of `div` give the same digits in the order they
come in, so a fraction padded with zeros is as many digits as `Precision` says:
`ConversionsMean` is that for all seven conversions, doubles cut off after `Precision`
places. Then the format: the invariant
`SoFar` says that after k characters what was written, with what is in the buffer,
is what these k characters mean (for calls within the limits that `PrintsTheFormat`
names), and `Counted` where the next argument is read:
`rbx` is one more than the integers so far and the doubles beyond the registers,
`r12` the doubles, and `r9` is either the xmm registers left or, after a decimal
number, at least ten less the doubles. The first is zero just when the
registers are used up, the second never is before that, and the computed jump
then reads the stack: that `PrintsTheFormat` holds of both is why `r9` may be
clobbered. `SpilledCount` counts the slots on the stack by both kinds.

Not proved but model-checked:

* liveness (`ForwardProgramsEnd` and the driver's) and `ENABLED`, which are out of the
  proof system's reach;
* the language, the derivator and their references: trees are made and read by
  `RECURSIVE` operators, with which the provers do not work;
* `LinearizedOnReturn`, which only holds of lists on which the loop comes to its end.

## 5. What is not modelled, or abstracted

* Characters: lexers group them, parsers split lines; models start at words.
* Real numbers: the derivator's are elements of a small field (and which of them six
  digits keep is a table); printf's doubles are multiples of 1/8 in the run and in
  the proofs so coarse that no product is rounded, so what `mulsd` rounds is left out;
  quadratic and mandelbrot, which are nothing but real
  arithmetic, are left out. Drawings, dumps, LaTeX, logs, time measurement.
* Of the derivator `expression_clone` and `tree_dump`, which nobody calls; of
  printf the routine for exponents, which nobody calls either.
* printf's write system call takes all it is given (its result is ignored by the
  code); several threads in `my_printf` at a time, which would share the buffer.
* Failures to allocate in the language's programs, which end them.
* Addresses of nodes in the list: they are indexes, so that an address kept over a
  `realloc` cannot be expressed. Sizes in bytes that wrap around.
* Widths: words of the SPU have 3 or 8 bits in runs; the proofs cover all widths.
  In the language modules the host's arithmetic wraps as the processor's does;
  in C an overflow while folding is undefined, which no input of the run reaches
  in a way that matters.
* Registers of the interrupted program, direction flag and stack of the driver.
* Components listed as `not_modelled` in `PROJECT.json`, with the reason there.

## 6. Where the code and its documents disagree

Shown by runs:

1. A keyword without parentheses disappears (`lang/frontend/src/expression_parser.c:214`):
   `print x + y;` and `return x;`, as `lang/README.md` and the sample programs
   write them. `factorial.pg` still works, since the value to be returned
   happens to lie in `r0`.
2. The derivative of a quotient has the wrong sign
   (`derivator/src/expression_derive.c:160` against the comment at 145).

Met while modelling, without a run of their own:

* `list_linearize` (`shared/src/list.cpp:217`) swaps neighbours as if they were
  apart, makes a node its own neighbour and walks off the array (`"overrun"` in
  `ListLinearize`).
* `list_set_capacity(list, 0)` on a new list succeeds (`shared/src/list.cpp:42`) and
  leaves a block without a sentinel (59); `list_verify` then follows links nobody has
  written and reports a corrupt list, and so does `list_linearize`. A second such call
  gives the block back, returns an error and keeps the pointer (48).
* A jump to a label that nobody declares is assembled with displacement 0
  (`spu/src/spu_lib/opls/jmp.cpp:64`), though line 80 has an error for it.
* A number of more than 32 bits is cut before its length is tested
  (`spu/src/spu_lib/translator_parsers.cpp:72`), though `ldc.cpp:45` has an error
  for numbers that are too long.
* Hiding the popup loses a word that the program wrote since the last tick
  (against `dos_asm/README.md:28`): `OnlyUnseenChangesLost` says exactly which.
  The handlers copy with the interrupted program's direction flag
  (`kb_rdt.asm:286`).
* With two instances of the driver, F2 reaches only the later one.
* A call that is not taken leaves its return address on the call stack
  (`spu/src/spu_lib/spu_execs/jmp.cpp:79`); `ReturnsFollowCalls` holds, the
  source-level view does not, so `spu_toolchain` calls unconditionally.
* `rsp` cannot be written in assembly (`translator_parsers.cpp:38`).
* `ldm`, `stm` and `draw` compare an index of words with a size in bytes.
* A rehash that fails in the middle frees keys in use (`ht_chains.c:264`).
* The lexer takes any word that is the beginning of a keyword (`p`, `re`, `i`)
  for that keyword (`lexer.c:156`); the language's README sample has no
  function and is refused.
* A power is known to the middle end only; a program with a body that does not
  compile may be translated without an error (`backend.c:541`).
* The checked vector poisons a popped element before it gives it to the
  destructor (`stack/src/pvector.cpp:455`), and a destroyed one reports itself
  corrupt ever after; in `shared/`, sorting and emptying leave the hash of the
  elements as it was.
* The derivator's parser does not look at what follows a function's argument
  (`expression_parser.c:89`) and takes a name that begins an earlier variable's
  for that variable (126); all variables are derived to 1; a Taylor series that
  could not be made is not noticed by `main`; LaTeX shows a - (b - c) without
  brackets; a tree that is stored keeps six digits of a number
  (`expression.c:188`), so that 1234567 comes back as 1.23457e+06.
* `my_printf` loses the top bit of an octal number (`printf.s:262`), although line
  245 speaks of the eight-byte number; finds a double beyond the eighth only when
  five integers were read before it, and then only one, because the decimal
  conversion uses the register that counts them (`printf.s:337`); after two more
  doubles its jump can leave `exchangeABIXMM` (663); prints the least integer for every
  double a word does not hold; and truncates where the C library rounds.

## 7. Plan

Done: list, vector and sorts, hash table, keyboard driver, SPU, language,
derivator, printf: what carries the repository's own logic.

Next to model:

1. `KbRegisters`: the stack discipline of the driver's prologues and epilogues,
   direction flag included.
2. `StrSplit`: the splitting of lines and the search of `shared/`, against their
   definitions over short texts.

Next to prove: a bound on the steps of `list_linearize` on lists where it comes to
its end.
