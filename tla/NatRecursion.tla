---------------------------- MODULE NatRecursion ----------------------------
(***************************************************************************)
(* Induction over the natural numbers with a set in place of a predicate,  *)
(* and the recursive functions it justifies with a step function in place  *)
(* of an operator: the forms that first-order provers can instantiate.     *)
(***************************************************************************)
EXTENDS Integers, WellFoundedInduction, TLAPS

(* Induction: the least number outside the set would have its predecessor  *)
(* in it.                                                                  *)
THEOREM SetInduction ==
    ASSUME NEW S, 0 \in S, \A n \in Nat : n \in S => n + 1 \in S
    PROVE  Nat \subseteq S
<1> DEFINE T == Nat \ S
           R == {ss \in Nat \X Nat : ss[1] < ss[2]}
<1> SUFFICES ASSUME T # {} PROVE FALSE
  OBVIOUS
<1>1. IsWellFoundedOn(R, Nat)
  BY NatLessThanWellFounded DEF OpToRel
<1>2. PICK x \in T : \A y \in T : <<y, x>> \notin R
  <2> HIDE DEF R, T
  <2>1. T \subseteq Nat
    BY DEF T
  <2> QED BY <1>1, <2>1, WFMin
<1>3. x # 0 /\ x - 1 \in T
  BY DEF T
<1>4. <<x - 1, x>> \in R
  BY <1>3
<1> QED BY <1>2, <1>3, <1>4

(* The same up to a bound.                                                 *)
THEOREM SetInductionUpTo ==
    ASSUME NEW N \in Nat, NEW S, 0 \in S, \A n \in 0..N - 1 : n \in S => n + 1 \in S
    PROVE  0..N \subseteq S
<1> DEFINE T == {n \in Nat : n <= N => n \in S}
<1>1. 0 \in T
  OBVIOUS
<1>2. \A n \in Nat : n \in T => n + 1 \in T
  OBVIOUS
<1>3. Nat \subseteq T
  <2> HIDE DEF T
  <2> QED BY <1>1, <1>2, SetInduction
<1> QED BY <1>3

(* A set of numbers that has an element has a least one.                   *)
THEOREM LeastOf == \A S \in SUBSET Nat : S # {} => \E k \in S : \A j \in S : k <= j
<1> SUFFICES ASSUME NEW S \in SUBSET Nat, S # {}, ~\E k \in S : \A j \in S : k <= j
             PROVE  FALSE
  OBVIOUS
<1> DEFINE U == {n \in Nat : \A k \in 0..n : k \notin S}
<1>1. 0 \in U
  <2>1. \A k \in 0..0 : k = 0
    OBVIOUS
  <2>2. \A j \in S : 0 <= j
    OBVIOUS
  <2> QED BY <2>1, <2>2
<1>2. ASSUME NEW n \in Nat, n \in U PROVE n + 1 \in U
  <2>1. \A j \in S : n + 1 <= j
    BY <1>2
  <2>2. n + 1 \notin S
    BY <2>1
  <2> QED BY <1>2, <2>2
<1> HIDE DEF U
<1>3. Nat \subseteq U
  BY <1>1, <1>2, SetInduction
<1>4. PICK j \in Nat : j \in S
  OBVIOUS
<1>5. j \in U /\ j \in 0..j
  BY <1>3
<1> QED BY <1>4, <1>5 DEF U

\* From v at n on to step[<<n, v>>] at n + 1, with the values in V.
IsRecursion(V, base, step) ==
    base \in V /\ \A n \in Nat, v \in V : step[<<n, v>>] \in V

Recurs(f, V, base, step) ==
    /\ f \in [Nat -> V]
    /\ f[0] = base
    /\ \A n \in Nat : f[n + 1] = step[<<n, f[n]>>]

(* The beginning of such a function, up to n.                              *)
LOCAL Begins(V, base, step, n, g) ==
    /\ g \in [0..n -> V]
    /\ g[0] = base
    /\ \A i \in 0..n - 1 : g[i + 1] = step[<<i, g[i]>>]

LEMMA BeginningsAgree ==
    ASSUME NEW V, NEW base, NEW step, NEW m \in Nat, NEW n \in Nat, m <= n, NEW g, NEW h,
           Begins(V, base, step, m, g), Begins(V, base, step, n, h)
    PROVE  g[m] = h[m]
<1> DEFINE U == {i \in 0..m : g[i] = h[i]}
<1>1. 0 \in U
  BY DEF Begins
<1>2. ASSUME NEW i \in 0..m - 1, i \in U PROVE i + 1 \in U
  <2>1. i \in 0..n - 1 /\ i + 1 \in 0..m
    OBVIOUS
  <2>2. g[i + 1] = step[<<i, g[i]>>] /\ h[i + 1] = step[<<i, h[i]>>]
    BY <2>1 DEF Begins
  <2> QED BY <1>2, <2>1, <2>2
<1>3. 0..m \subseteq U
  <2> HIDE DEF U
  <2> QED BY <1>1, <1>2, SetInductionUpTo
<1> QED BY <1>3

(* A value for 0 and a step determine a function on the numbers.           *)
THEOREM RecursionExists ==
    ASSUME NEW V, NEW base, NEW step, IsRecursion(V, base, step)
    PROVE  \E f : Recurs(f, V, base, step)
<1> DEFINE B(n, g) == Begins(V, base, step, n, g)
           S == {n \in Nat : \E g : B(n, g)}
<1>1. \A n \in Nat : \E g : B(n, g)
  <2>1. 0 \in S
    <3>1. B(0, [i \in 0..0 |-> base])
      BY DEF Begins, IsRecursion
    <3> QED BY <3>1
  <2>2. ASSUME NEW n \in Nat, n \in S PROVE n + 1 \in S
    <3>1. PICK g : B(n, g)
      BY <2>2
    <3> DEFINE h == [i \in 0..n + 1 |-> IF i = n + 1 THEN step[<<n, g[n]>>] ELSE g[i]]
    <3>2. n \in 0..n /\ g[n] \in V /\ step[<<n, g[n]>>] \in V
      <4>1. n \in 0..n /\ g[n] \in V
        BY <3>1 DEF Begins
      <4> QED BY <4>1 DEF IsRecursion
    <3>3. h \in [0..n + 1 -> V]
      BY <3>1, <3>2 DEF Begins
    <3>4. h[0] = base
      BY <3>1 DEF Begins
    <3>5. ASSUME NEW i \in 0..n PROVE h[i + 1] = step[<<i, h[i]>>]
      <4>1. h[i] = g[i]
        OBVIOUS
      <4>2. CASE i = n
        <5>1. h[n + 1] = step[<<n, g[n]>>]
          OBVIOUS
        <5> HIDE DEF h
        <5> QED BY <4>1, <4>2, <5>1
      <4>3. CASE i # n
        <5>1. i \in 0..n - 1 /\ i + 1 \in 0..n /\ h[i + 1] = g[i + 1]
          BY <4>3
        <5>2. g[i + 1] = step[<<i, g[i]>>]
          BY <3>1, <5>1 DEF Begins
        <5> HIDE DEF h
        <5> QED BY <4>1, <5>1, <5>2
      <4> QED BY <4>2, <4>3
    <3>6. B(n + 1, h)
      <4> HIDE DEF h
      <4> QED BY <3>3, <3>4, <3>5 DEF Begins
    <3> QED BY <3>6
  <2>3. Nat \subseteq S
    <3> HIDE DEF S
    <3> QED BY <2>1, <2>2, SetInduction
  <2> QED BY <2>3
<1> DEFINE G(n) == CHOOSE g : B(n, g)
           f == [n \in Nat |-> G(n)[n]]
<1>2. \A n \in Nat : B(n, G(n))
  BY <1>1
<1> HIDE DEF G
<1>3. f \in [Nat -> V]
  <2>1. ASSUME NEW n \in Nat PROVE G(n)[n] \in V
    BY <1>2 DEF Begins
  <2> QED BY <2>1
<1>4. f[0] = base
  BY <1>2 DEF Begins
<1>5. ASSUME NEW n \in Nat PROVE f[n + 1] = step[<<n, f[n]>>]
  <2>1. G(n + 1)[n + 1] = step[<<n, G(n + 1)[n]>>]
    BY <1>2 DEF Begins
  <2>2. G(n)[n] = G(n + 1)[n]
    BY <1>2, BeginningsAgree
  <2> QED BY <2>1, <2>2
<1> HIDE DEF f
<1> QED BY <1>3, <1>4, <1>5 DEF Recurs

\* The same for N steps only.
IsRecursionUpTo(N, V, base, step) ==
    base \in V /\ \A n \in 0..N - 1, v \in V : step[<<n, v>>] \in V

RecursUpTo(g, N, V, base, step) ==
    /\ g \in [0..N -> V]
    /\ g[0] = base
    /\ \A n \in 0..N - 1 : g[n + 1] = step[<<n, g[n]>>]

(* The steps need not be defined beyond N.                                 *)
THEOREM RecursionUpTo ==
    ASSUME NEW N \in Nat, NEW V, NEW base, NEW step, IsRecursionUpTo(N, V, base, step)
    PROVE  \E g : RecursUpTo(g, N, V, base, step)
<1> DEFINE on == [p \in Nat \X V |-> IF p[1] < N THEN step[p] ELSE p[2]]
<1>1. \A n \in Nat, v \in V : on[<<n, v>>] = IF n < N THEN step[<<n, v>>] ELSE v
  OBVIOUS
<1> HIDE DEF on
<1>2. IsRecursion(V, base, on)
  <2>1. ASSUME NEW n \in Nat, NEW v \in V PROVE on[<<n, v>>] \in V
    <3>1. CASE n < N
      BY <1>1, <3>1 DEF IsRecursionUpTo
    <3>2. CASE ~(n < N)
      BY <1>1, <3>2
    <3> QED BY <3>1, <3>2
  <2> QED BY <2>1 DEF IsRecursion, IsRecursionUpTo
<1>3. PICK f : Recurs(f, V, base, on)
  BY <1>2, RecursionExists
<1> DEFINE g == [n \in 0..N |-> f[n]]
<1>4. g \in [0..N -> V] /\ g[0] = base
  BY <1>3 DEF Recurs
<1>5. ASSUME NEW n \in 0..N - 1 PROVE g[n + 1] = step[<<n, g[n]>>]
  <2>1. f[n + 1] = on[<<n, f[n]>>] /\ f[n] \in V
    BY <1>3 DEF Recurs
  <2>2. g[n + 1] = f[n + 1] /\ g[n] = f[n] /\ n < N /\ n \in Nat
    OBVIOUS
  <2> HIDE DEF g
  <2> QED BY <1>1, <2>1, <2>2
<1> HIDE DEF g
<1> QED BY <1>4, <1>5 DEF RecursUpTo

\* A loop that makes N turns, the n-th with step[<<n, v>>].
Loops(f, N, V, base, step) ==
    /\ f \in [0..N -> V]
    /\ f[0] = base
    /\ \A n \in 1..N : f[n] = step[<<n, f[n - 1]>>]

(* The form in which a definition recurses: such a function is there.      *)
THEOREM LoopExists ==
    ASSUME NEW N \in Nat, NEW V, NEW base \in V, NEW step \in [(1..N) \X V -> V]
    PROVE  \E f : Loops(f, N, V, base, step)
<1> DEFINE next == [q \in (0..N - 1) \X V |-> step[<<q[1] + 1, q[2]>>]]
<1>1. \A n \in 0..N - 1, v \in V : next[<<n, v>>] = step[<<n + 1, v>>] /\ n + 1 \in 1..N
  OBVIOUS
<1> HIDE DEF next
<1>2. IsRecursionUpTo(N, V, base, next)
  BY <1>1 DEF IsRecursionUpTo
<1>3. PICK g : RecursUpTo(g, N, V, base, next)
  BY <1>2, RecursionUpTo
<1>4. g \in [0..N -> V] /\ g[0] = base
  BY <1>3 DEF RecursUpTo
<1>5. ASSUME NEW n \in 1..N PROVE g[n] = step[<<n, g[n - 1]>>]
  <2>1. n - 1 \in 0..N - 1 /\ n - 1 \in 0..N /\ (n - 1) + 1 = n
    BY <1>5
  <2>2. g[n] = next[<<n - 1, g[n - 1]>>] /\ g[n - 1] \in V
    BY <1>3, <2>1 DEF RecursUpTo
  <2> QED BY <1>1, <2>1, <2>2
<1> QED BY <1>4, <1>5 DEF Loops

(* What holds before a loop and is kept by each turn holds throughout.     *)
THEOREM LoopInvariant ==
    ASSUME NEW N \in Nat, NEW S, 0 \in S, \A n \in 1..N : n - 1 \in S => n \in S
    PROVE  0..N \subseteq S
<1>1. ASSUME NEW n \in 0..N - 1, n \in S PROVE n + 1 \in S
  <2>1. n + 1 \in 1..N /\ (n + 1) - 1 = n
    OBVIOUS
  <2> QED BY <1>1, <2>1
<1> QED BY <1>1, SetInductionUpTo
=============================================================================
