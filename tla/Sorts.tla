------------------------------- MODULE Sorts -------------------------------
(***************************************************************************)
(* The sorts of shared/src/sort.cpp (and its copy onegin/src/sort.cpp) as  *)
(* functions from the array before to the array after.  Elements are       *)
(* integers and the comparator is their order.  Indexes of the code start  *)
(* at 0, those of a sequence at 1.  A loop is a function from the number   *)
(* of turns it has made; n turns are enough for each loop of these.        *)
(***************************************************************************)
EXTENDS Integers, Sequences, FiniteSets

Exchanged(s, i, j) == [s EXCEPT ![i] = s[j], ![j] = s[i]]

Compared(s, i, j) == IF s[i] < s[j] THEN Exchanged(s, i, j) ELSE s

\* The i-th element is compared with all that stand before it.
Settled(s, i) ==
    LET turn[j \in 0..i - 1] == IF j = 0 THEN s ELSE Compared(turn[j - 1], i, j)
    IN  turn[i - 1]

alg_bubble_sort(s) ==
    LET turn[i \in 0..Len(s)] == IF i = 0 THEN s ELSE Settled(turn[i - 1], i)
    IN  turn[Len(s)]

\* The next element is the right half's, p being how far the two have come.
TakesRight(s, mid, right, p) ==
    \/ p[1] >= mid
    \/ p[2] < right /\ s[p[1] + 1] >= s[p[2] + 1]

\* Merges [left, mid) and [mid, right): the k-th element of the result is
\* copied from one of the two places that consumed[k] says come next.
merge_arr(s, left, mid, right) ==
    LET consumed[k \in 0..right - left] ==
            IF k = 0 THEN <<left, mid>>
            ELSE LET p == consumed[k - 1]
                 IN  IF TakesRight(s, mid, right, p) THEN <<p[1], p[2] + 1>>
                                                     ELSE <<p[1] + 1, p[2]>>
        source(k) == IF TakesRight(s, mid, right, consumed[k]) THEN consumed[k][2]
                                                               ELSE consumed[k][1]
    IN  [i \in DOMAIN s |-> IF i - 1 \in left..right - 1
                            THEN s[source(i - 1 - left) + 1] ELSE s[i]]

\* Faulty: a block that is not as long as the width is left out.
HasSecondHalf_whole(n, i, j) == j + 2 * i <= n

\* The inner loop's condition: the block at j is longer than its first half.
HasSecondHalf(n, i, j) == j < n - i

BlockEnd(n, i, j) == IF j + 2 * i > n THEN n ELSE j + 2 * i

\* The inner loop: blocks of i elements are merged to blocks of 2 * i.
MergedInPairs(s, i) ==
    LET n == Len(s)
        turn[k \in 0..n] ==
            IF k = 0 THEN [arr |-> s, j |-> 0]
            ELSE LET t == turn[k - 1]
                 IN  IF HasSecondHalf(n, i, t.j)
                     THEN [arr |-> merge_arr(t.arr, t.j, t.j + i, BlockEnd(n, i, t.j)),
                           j |-> t.j + 2 * i]
                     ELSE t
    IN  turn[n].arr

alg_merge_sort(s) ==
    LET n == Len(s)
        turn[k \in 0..n] ==
            IF k = 0 THEN [arr |-> s, i |-> 1]
            ELSE LET t == turn[k - 1]
                 IN  IF t.i < n THEN [arr |-> MergedInPairs(t.arr, t.i), i |-> 2 * t.i] ELSE t
    IN  turn[n].arr

Ascending(s) == \A i \in 1..Len(s) - 1 : s[i] <= s[i + 1]

IsPermutation(s, t) ==
    /\ Len(s) = Len(t)
    /\ \A v \in {s[i] : i \in DOMAIN s} \cup {t[i] : i \in DOMAIN t} :
          Cardinality({i \in DOMAIN s : s[i] = v}) = Cardinality({i \in DOMAIN t : t[i] = v})

\* What each sort promises, and qsort of the C library for alg_quick_sort: on
\* integers there is one such t.
SortOf(s, t) == Ascending(t) /\ IsPermutation(s, t)
=============================================================================
