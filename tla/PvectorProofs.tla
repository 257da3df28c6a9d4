--------------------------- MODULE PvectorProofs ---------------------------
(***************************************************************************)
(* For all values, capacities and sequences of calls: a vector that        *)
(* verifies holds what the calls put there (AcceptedIsIntact), one that    *)
(* nobody else has written to verifies (SoundAccepted), the elements it    *)
(* owns leave it through their destructor (ElementsHandedOver), and the    *)
(* whole is a stack (ImplementsElementStack).  The last needs the sorts:   *)
(* alg_bubble_sort and alg_merge_sort return the elements of any array of  *)
(* integers in order.                                                      *)
(***************************************************************************)
EXTENDS Pvector, NatRecursion, FiniteSetTheorems

-----------------------------------------------------------------------------
(* The inductive invariant *)

\* The array has its cells, whoever wrote what into them.
Shape ==
    /\ capacity \in Nat /\ len \in 0..capacity
    /\ arr = [i \in 0..capacity-1 |-> arr[i]]
    /\ capacity # 0 => allocated
    /\ ~allocated => canary /\ arr_hash = <<>>
    /\ debug => ~hashStale
    /\ strayed => debug

\* What the verification looks at besides the shape, piece by piece.
StructHashed == struct_hash = fields \/ (debug /\ ~allocated)
ArrayHashed == HASH \in flags /\ ~hashStale => arr_hash = Elements
CanarySet == CANARY \in flags /\ allocated => canary
Poisoned == debug => /\ \A i \in 0..len-1 : arr[i] # Poison
                     /\ \A i \in len..capacity-1 : arr[i] = Poison

\* A vector of stack/ whose content is in order is the one the calls made, however
\* often the hash of the structure was made again over a stray write.
ContentIntact ==
    debug /\ ArrayHashed /\ CanarySet /\ Poisoned =>
        Elements = intended /\ (CANARY \in flags => canary)

\* As long as only the vector writes to its memory, everything is in order.
OwnWritesOnly == ~strayed => StructHashed /\ ArrayHashed /\ CanarySet /\ Poisoned

IInv == Shape /\ ContentIntact /\ OwnWritesOnly

Observed == <<memory, intended, strayed, hashStale, debug>>

-----------------------------------------------------------------------------
(* Facts about the vector's helpers *)

\* Content is decided cell by cell.
LEMMA ContentEq ==
    ASSUME NEW a, NEW b, NEW n \in Nat, \A i \in 0..n-1 : a[i] = b[i]
    PROVE  Content(a, n) = Content(b, n)
<1>1. \A i \in 1..n : i - 1 \in 0..n-1
  OBVIOUS
<1> QED
  BY <1>1 DEF Content

\* Equal contents agree cell by cell.
LEMMA ContentCell ==
    ASSUME NEW a, NEW b, NEW n \in Nat, Content(a, n) = Content(b, n), NEW i \in 0..n-1
    PROVE  a[i] = b[i]
<1>1. i + 1 \in 1..n /\ (i + 1) - 1 = i
  OBVIOUS
<1>2. Content(a, n)[i + 1] = a[i] /\ Content(b, n)[i + 1] = b[i]
  BY <1>1 DEF Content
<1> QED
  BY <1>2

\* A sequence of elements grows at its end as its array does.
LEMMA ContentAppend ==
    ASSUME NEW a, NEW n \in Nat
    PROVE  Append(Content(a, n), a[n]) = Content(a, n + 1)
<1> DEFINE S == {a[i] : i \in 0..n}
<1>1. Content(a, n) \in Seq(S) /\ Len(Content(a, n)) = n
  <2>1. Content(a, n) \in [1..n -> S]
    <3>1. \A i \in 1..n : i - 1 \in 0..n
      OBVIOUS
    <3> QED
      BY <3>1 DEF Content
  <2> QED
    BY <2>1
<1>2. a[n] \in S
  OBVIOUS
<1>3. Append(Content(a, n), a[n]) = [i \in 1..n+1 |-> IF i = n + 1 THEN a[n] ELSE Content(a, n)[i]]
  BY <1>1, <1>2
<1>4. ASSUME NEW i \in 1..n+1
      PROVE  (IF i = n + 1 THEN a[n] ELSE Content(a, n)[i]) = a[i - 1]
  BY DEF Content
<1> QED
  BY <1>3, <1>4 DEF Content

\* A verification that finds nothing has found the content in order.
LEMMA VerifiedContent ==
    ASSUME Shape, debug, pvector_verify = {}
    PROVE  ArrayHashed /\ CanarySet /\ Poisoned
<1>1. ShapeErrors = {}
  BY DEF pvector_verify
<1>2. ContentErrors = {}
  BY <1>1 DEF pvector_verify
<1> QED
  BY <1>2 DEF ContentErrors, errorIf, ArrayHashed, CanarySet, Poisoned

\* A step that changes nothing the invariant speaks of keeps it.
LEMMA Unobserved ==
    ASSUME IInv, UNCHANGED Observed
    PROVE  IInv'
BY DEF IInv, Observed, memory, fields, Shape, ContentIntact, OwnWritesOnly, StructHashed,
       ArrayHashed, CanarySet, Poisoned, Elements, Content

\* A call that makes the hash of the structure again, and its elements the intended
\* ones, needs a look only at the shape and at the rest of what is verified.
LEMMA AdoptedInv ==
    ASSUME Shape', Adopted, pvector_rehash, (ArrayHashed /\ CanarySet /\ Poisoned)'
    PROVE  IInv'
<1>1. ContentIntact'
  BY DEF ContentIntact, CanarySet, Adopted, Elements, Shape
<1>2. OwnWritesOnly'
  BY DEF OwnWritesOnly, StructHashed, pvector_rehash
<1> QED
  BY <1>1, <1>2 DEF IInv

-----------------------------------------------------------------------------
(* The operations *)

\* Whatever refuses a call leaves everything as it was.
LEMMA RefusedInv ==
    ASSUME IInv, UNCHANGED debug, NEW errors, Refused(errors)
    PROVE  IInv'
BY Unobserved DEF Refused, Observed, memory

\* An array without cells, and its empty content.
LEMMA NoCells ==
    ASSUME NEW a, a = [i \in {} |-> Unread]
    PROVE  a = [i \in 0..0-1 |-> a[i]] /\ Content(a, 0) = <<>>
<1>1. 0..0-1 = {} /\ 1..0 = {}
  OBVIOUS
<1> QED
  BY <1>1 DEF Content

LEMMA InitInv ==
    ASSUME Init
    PROVE  IInv
<1>1. arr = [i \in 0..capacity-1 |-> arr[i]] /\ Elements = <<>>
  BY NoCells DEF Init, Elements
<1> QED
  BY <1>1 DEF Init, IInv, Shape, ContentIntact, OwnWritesOnly, StructHashed, ArrayHashed,
        CanarySet, Poisoned

\* pvector_init and pvector_destroy: an empty vector.
LEMMA EmptiedInv ==
    ASSUME IInv, UNCHANGED debug, pvector_init \/ pvector_destroy
    PROVE  IInv'
<1>1. /\ arr' = [i \in {} |-> Unread] /\ capacity' = 0 /\ len' = 0 /\ ~allocated' /\ canary'
      /\ arr_hash' = <<>> /\ intended' = <<>> /\ ~hashStale'
  BY DEF pvector_init, pvector_destroy
<1>2. arr' = [i \in 0..capacity'-1 |-> arr'[i]] /\ Elements' = <<>>
  BY <1>1, NoCells DEF Elements
<1>3. canary' = TRUE /\ allocated' = FALSE
  BY DEF pvector_init, pvector_destroy
<1>4. strayed' => debug'
  <2>1. strayed' = strayed /\ debug' = debug /\ (strayed => debug)
    BY DEF pvector_init, pvector_destroy, IInv, Shape
  <2> QED
    BY <2>1
<1>5. Shape' /\ Elements' = intended'
  BY <1>1, <1>2, <1>3, <1>4 DEF Shape
<1>6. debug' \/ struct_hash' = fields'
  BY DEF pvector_init, pvector_destroy, pvector_rehash
<1>7. StructHashed' /\ ArrayHashed' /\ CanarySet' /\ Poisoned'
  BY <1>1, <1>2, <1>6 DEF StructHashed, ArrayHashed, CanarySet, Poisoned
<1> QED
  BY <1>1, <1>5, <1>7 DEF IInv, ContentIntact, OwnWritesOnly

\* What a verified call starts from, in either build.
LEMMA AtVerifiedCall ==
    ASSUME IInv, Verdict = {}
    PROVE  ArrayHashed /\ CanarySet /\ Poisoned
BY VerifiedContent DEF Verdict, IInv, OwnWritesOnly, Shape

LEMMA SetFlagsInv ==
    ASSUME IInv, UNCHANGED debug, NEW f, pvector_set_flags(f)
    PROVE  IInv'
<1>1. CASE Refused(Verdict) \/ Refused({"INVALID_ARG"})
  BY <1>1, RefusedInv
<1>2. CASE /\ Verdict = {} /\ flags' = f /\ Adopted /\ pvector_rehash
           /\ allocated => (CANARY \in f <=> CANARY \in flags)
           /\ IF allocated /\ HASH \in f \ flags
              THEN arr_hash' = Elements /\ hashStale' = FALSE
              ELSE UNCHANGED <<arr_hash, hashStale>>
           /\ UNCHANGED <<arr, allocated, capacity, len, element_destructor, canary>>
  <2> USE <1>2
  <2>1. Elements' = Elements
    BY DEF Elements, Content
  <2>2. Shape'
    BY DEF IInv, Shape, Adopted
  <2>3. CanarySet' /\ Poisoned'
    BY AtVerifiedCall DEF CanarySet, Poisoned
  <2>4. ArrayHashed'
    <3>1. CASE allocated
      BY <2>1, <3>1, AtVerifiedCall DEF ArrayHashed
    <3>2. CASE ~allocated
      <4>1. len = 0 /\ arr_hash = <<>>
        BY <3>2 DEF IInv, Shape
      <4>2. Elements = <<>>
        BY <4>1 DEF Elements, Content
      <4> QED
        BY <2>1, <3>2, <4>1, <4>2 DEF ArrayHashed
    <3> QED
      BY <3>1, <3>2
  <2> QED
    BY <2>2, <2>3, <2>4, AdoptedInv
<1> QED
  BY <1>1, <1>2 DEF pvector_set_flags, Verified

LEMMA SetDestructorInv ==
    ASSUME IInv, UNCHANGED debug, NEW d, pvector_set_element_destructor(d)
    PROVE  IInv'
<1> USE DEF pvector_set_element_destructor
<1>1. Elements' = Elements
  BY DEF Elements, Content
<1>2. Shape' /\ (ArrayHashed' <=> ArrayHashed) /\ (CanarySet' <=> CanarySet)
        /\ (Poisoned' <=> Poisoned) /\ StructHashed'
  BY <1>1 DEF IInv, Shape, ArrayHashed, CanarySet, Poisoned, StructHashed, pvector_rehash
<1> QED
  BY <1>1, <1>2 DEF IInv, ContentIntact, OwnWritesOnly

\* An array of n cells takes over those there are room for.
LEMMA MovedCells ==
    ASSUME Shape, NEW n \in Nat, len <= n
    PROVE  /\ Moved(arr, n) = [i \in 0..n-1 |-> Moved(arr, n)[i]]
           /\ \A i \in 0..len-1 : Moved(arr, n)[i] = arr[i]
           /\ debug /\ Poisoned => \A i \in len..n-1 : Moved(arr, n)[i] = Poison
           /\ Content(Moved(arr, n), len) = Elements
<1>1. \A i \in 0..len-1 : i \in 0..n-1 /\ i \in Cells
  BY DEF Shape, Cells
<1>2. \A i \in 0..len-1 : Moved(arr, n)[i] = arr[i]
  BY <1>1 DEF Moved
<1>3. ASSUME debug, Poisoned, NEW i \in len..n-1
      PROVE  Moved(arr, n)[i] = Poison
  <2>1. i \in 0..n-1
    BY DEF Shape
  <2>2. Moved(arr, n)[i] = IF i \in Cells THEN arr[i] ELSE Poison
    BY <1>3, <2>1 DEF Moved, Unused
  <2>3. i \in Cells => i \in len..capacity-1
    BY DEF Cells, Shape
  <2> QED
    BY <1>3, <2>2, <2>3 DEF Poisoned
<1>4. Content(Moved(arr, n), len) = Elements
  BY <1>2, ContentEq DEF Elements, Shape
<1> QED
  BY <1>2, <1>3, <1>4 DEF Moved

LEMMA SetCapacityInv ==
    ASSUME IInv, UNCHANGED debug, NEW n \in Nat, pvector_set_capacity(n)
    PROVE  IInv'
<1>1. CASE Refused(Verdict) \/ Refused({"INVALID_ARG"}) \/ Refused({"ALLOCATION"})
  BY <1>1, RefusedInv
<1>2. CASE /\ Verdict = {} /\ n >= len /\ Resized(CapacityFor(n))
           /\ arr' = Moved(arr, CapacityFor(n))
           /\ UNCHANGED <<len, flags, element_destructor, arr_hash, hashStale>>
           /\ pvector_rehash /\ Adopted
  <2> USE <1>2
  <2>1. CapacityFor(n) \in Nat /\ len <= CapacityFor(n) /\ capacity' = CapacityFor(n)
    BY VectorAssumption DEF CapacityFor, Resized, IInv, Shape
  <2>2. Shape'
    BY <2>1, MovedCells DEF IInv, Shape, Resized, Adopted
  <2>3. CanarySet' /\ Poisoned'
    BY <2>1, MovedCells, AtVerifiedCall DEF CanarySet, Poisoned, Resized, IInv
  <2>4. Elements' = Elements
    BY <2>1, MovedCells DEF Elements, IInv
  <2>5. ArrayHashed'
    BY <2>4, AtVerifiedCall DEF ArrayHashed
  <2> QED
    BY <2>2, <2>3, <2>5, AdoptedInv
<1> QED
  BY <1>1, <1>2 DEF pvector_set_capacity, Verified

\* The index behind n elements, in an array of m cells.
LEMMA Indexes ==
    ASSUME NEW n \in Nat, NEW m \in Nat, n < m
    PROVE  /\ n \in 0..m-1 /\ (n + 1) - 1 = n
           /\ \A i \in 0..n : i # n => i \in 0..n-1 /\ i \in 0..m-1
           /\ \A i \in n+1..m-1 : i \in n..m-1 /\ i \in 0..m-1 /\ i # n
OBVIOUS

LEMMA PushInv ==
    ASSUME IInv, UNCHANGED debug, NEW v, pvector_push_back(v)
    PROVE  IInv'
<1>1. CASE Refused(Verdict) \/ Refused({"POISONED"}) \/ Refused({"ALLOCATION"})
  BY <1>1, RefusedInv
<1>2. CASE /\ Verdict = {} /\ (debug => v # Poison)
           /\ \/ len < capacity /\ UNCHANGED <<allocated, capacity, canary>>
              \/ len >= capacity /\ Resized(CapacityFor(capacity * 2))
           /\ arr' = [Moved(arr, capacity') EXCEPT ![len] = v]
           /\ len' = len + 1 /\ arr_hash' = ExtendedHash(v)
           /\ UNCHANGED <<flags, element_destructor, hashStale>>
           /\ pvector_rehash /\ Adopted
  <2> USE <1>2
  <2> DEFINE moved == Moved(arr, capacity')
  <2>1. len \in Nat /\ capacity \in Nat /\ capacity' \in Nat /\ len < capacity'
    BY VectorAssumption DEF CapacityFor, Resized, IInv, Shape
  <2>2. allocated' /\ (CanarySet => CanarySet')
    <3>1. CASE len < capacity
      BY <2>1, <3>1 DEF CanarySet, IInv, Shape
    <3>2. CASE Resized(CapacityFor(capacity * 2))
      <4>1. allocated' = TRUE /\ canary' = (canary \/ CANARY \in flags) /\ flags' = flags
        BY <3>2 DEF Resized
      <4> QED
        BY <4>1 DEF CanarySet
    <3> QED
      BY <2>1, <3>1, <3>2
  <2>3. /\ moved = [i \in 0..capacity'-1 |-> moved[i]]
        /\ \A i \in 0..len-1 : moved[i] = arr[i]
        /\ debug /\ Poisoned => \A i \in len..capacity'-1 : moved[i] = Poison
        /\ Content(moved, len) = Elements
    BY <2>1, MovedCells DEF IInv
  <2> HIDE DEF moved
  <2>4. arr' = [moved EXCEPT ![len] = v]
    BY DEF moved
  <2> HIDE <1>2
  <2>5. /\ arr' = [i \in 0..capacity'-1 |-> arr'[i]] /\ arr'[len] = v
        /\ \A i \in 0..capacity'-1 : i # len => arr'[i] = moved[i]
    <3>1. DOMAIN moved = 0..capacity'-1
      BY <2>3
    <3>2. arr' = [i \in 0..capacity'-1 |-> IF i = len THEN v ELSE moved[i]]
      BY <2>4, <3>1
    <3>3. len \in 0..capacity'-1
      BY <2>1, Indexes
    <3> QED
      BY <3>2, <3>3
  <2>6. Shape'
    BY <1>2, <2>1, <2>2, <2>5 DEF IInv, Shape, Adopted
  <2>7. Poisoned'
    <3>1. ASSUME debug, NEW i \in 0..len PROVE arr'[i] # Poison
      <4>1. CASE i = len
        BY <1>2, <2>5, <3>1, <4>1
      <4>2. CASE i # len
        <5>1. i \in 0..len-1 /\ i \in 0..capacity'-1
          BY <2>1, <4>2, Indexes
        <5>2. arr'[i] = arr[i]
          BY <2>3, <2>5, <4>2, <5>1
        <5> QED
          BY <1>2, <3>1, <5>1, <5>2, AtVerifiedCall DEF Poisoned
      <4> QED
        BY <4>1, <4>2
    <3>2. ASSUME debug, NEW i \in len+1..capacity'-1 PROVE arr'[i] = Poison
      <4>1. i \in len..capacity'-1 /\ i \in 0..capacity'-1 /\ i # len
        BY <2>1, Indexes
      <4> QED
        BY <1>2, <2>3, <2>5, <3>2, <4>1, AtVerifiedCall
    <3> QED
      <4>1. len' - 1 = len /\ len' = len + 1 /\ debug' = debug
        BY <1>2, <2>1, Indexes
      <4> QED
        BY <3>1, <3>2, <4>1 DEF Poisoned
  <2>8. Elements' = Append(Elements, v)
    <3>1. Content(arr', len) = Elements
      BY <2>1, <2>3, <2>5, ContentEq
    <3> QED
      BY <1>2, <2>1, <2>5, <3>1, ContentAppend DEF Elements
  <2>9. ArrayHashed'
    BY <1>2, <2>8, AtVerifiedCall DEF ArrayHashed, ExtendedHash
  <2> QED
    BY <1>2, <2>2, <2>6, <2>7, <2>9, AtVerifiedCall, AdoptedInv
<1> QED
  BY <1>1, <1>2 DEF pvector_push_back, Verified

\* The indexes below the last of n elements.
LEMMA TopIndex ==
    ASSUME NEW n \in Nat, n > 0, NEW m \in Nat, n <= m
    PROVE  /\ n - 1 \in Nat /\ n - 1 \in 0..m-1 /\ n - 1 \in 0..m /\ m # 0
           /\ \A i \in 0..(n-1)-1 : i \in 0..n-1 /\ i \in 0..m-1 /\ i # n - 1
           /\ \A i \in n-1..m-1 : i \in 0..m-1 /\ (i # n - 1 => i \in n..m-1)
           /\ (n-1)..(n-1)-1 = {}
OBVIOUS

\* Both ways pvector_pop_back goes on end with one element less.
LEMMA PopEnds ==
    ASSUME IInv, UNCHANGED debug, Verdict = {}, len > 0, len' = len - 1,
           arr_hash' = IF HASH \in flags THEN Content(arr, len - 1) ELSE arr_hash,
           hashStale' = (hashStale /\ HASH \notin flags), flags' = flags,
           pvector_rehash, Adopted,
           capacity' \in Nat, len' \in 0..capacity', allocated', CanarySet',
           arr' = [i \in 0..capacity'-1 |-> arr'[i]],
           \A i \in 0..len'-1 : arr'[i] = arr[i],
           debug => \A i \in len'..capacity'-1 : arr'[i] = Poison
    PROVE  IInv'
<1>1. (strayed => debug) /\ (debug => ~hashStale)
  BY DEF IInv, Shape
<1>2. (strayed' => debug') /\ (debug' => ~hashStale')
  BY <1>1 DEF Adopted
<1>3. Shape'
  BY <1>2 DEF Shape
<1>4. len \in Nat /\ len - 1 \in Nat /\ \A i \in 0..len'-1 : i \in 0..len-1
  BY DEF IInv, Shape
<1>5. Poisoned'
  BY <1>4, AtVerifiedCall DEF Poisoned
<1>6. Elements' = Content(arr, len - 1)
  BY <1>4, ContentEq DEF Elements
<1>7. ArrayHashed'
  BY <1>6 DEF ArrayHashed
<1> QED
  BY <1>3, <1>5, <1>7, AdoptedInv

LEMMA PopInv ==
    ASSUME IInv, UNCHANGED debug, pvector_pop_back
    PROVE  IInv'
<1>1. CASE Refused(Verdict) \/ Refused({"INVALID_STATE"})
  BY <1>1, RefusedInv
<1>2. CASE /\ Verdict = {} /\ len > 0 /\ len' = len - 1
           /\ arr_hash' = IF HASH \in flags THEN Content(arr, len - 1) ELSE arr_hash
           /\ \/ Resized(len - 1) /\ arr' = Moved(arr, len - 1)
              \/ /\ UNCHANGED <<allocated, capacity, canary>>
                 /\ arr' = [arr EXCEPT ![len - 1] = Unused]
           /\ UNCHANGED <<flags, element_destructor>>
           /\ hashStale' = (hashStale /\ HASH \notin flags)
           /\ pvector_rehash /\ Adopted
  <2>1. len \in Nat /\ capacity \in Nat /\ len > 0 /\ len <= capacity
        /\ arr = [i \in 0..capacity-1 |-> arr[i]]
    BY <1>2 DEF IInv, Shape
  <2>2. CASE Resized(len - 1) /\ arr' = Moved(arr, len - 1)
    <3>1. capacity' = len - 1 /\ allocated' = TRUE /\ canary' = (canary \/ CANARY \in flags)
      BY <2>2 DEF Resized
    <3>2. arr' = [i \in 0..capacity'-1 |-> arr'[i]]
            /\ \A i \in 0..len'-1 : arr'[i] = arr[i]
      BY <1>2, <2>1, <2>2, <3>1, TopIndex DEF Moved, Cells
    <3>3. CanarySet'
      BY <1>2, <3>1 DEF CanarySet
    <3>4. \A i \in len'..capacity'-1 : FALSE
      BY <1>2, <2>1, <3>1, TopIndex
    <3>5. capacity' \in Nat /\ len' \in 0..capacity' /\ allocated'
      BY <1>2, <2>1, <3>1, TopIndex
    <3> QED
      BY <1>2, <3>2, <3>3, <3>4, <3>5, PopEnds
  <2>3. CASE /\ UNCHANGED <<allocated, capacity, canary>>
             /\ arr' = [arr EXCEPT ![len - 1] = Unused]
    <3>1. arr' = [i \in 0..capacity-1 |-> IF i = len - 1 THEN Unused ELSE arr[i]]
      BY <2>1, <2>3
    <3>2. arr' = [i \in 0..capacity'-1 |-> arr'[i]]
            /\ \A i \in 0..len'-1 : arr'[i] = arr[i]
      BY <1>2, <2>1, <2>3, <3>1, TopIndex
    <3>3. CanarySet'
      BY <1>2, <2>3, AtVerifiedCall DEF CanarySet
    <3>4. ASSUME debug, NEW i \in len'..capacity'-1 PROVE arr'[i] = Poison
      <4>1. i \in 0..capacity-1 /\ (i # len - 1 => i \in len..capacity-1)
        BY <1>2, <2>1, <2>3, TopIndex
      <4> QED
        BY <1>2, <3>1, <3>4, <4>1, AtVerifiedCall DEF Unused, Poisoned
    <3>5. capacity' \in Nat /\ len' \in 0..capacity' /\ allocated'
      BY <1>2, <2>1, <2>3, TopIndex DEF IInv, Shape
    <3> QED
      BY <1>2, <3>2, <3>3, <3>4, <3>5, PopEnds
  <2> QED
    BY <1>2, <2>2, <2>3
<1> QED
  BY <1>1, <1>2 DEF pvector_pop_back, Verified

LEMMA CloneInv ==
    ASSUME IInv, UNCHANGED debug, pvector_clone
    PROVE  IInv'
<1>1. CASE Refused(Verdict) \/ Refused({"ALLOCATION"})
  BY <1>1, RefusedInv
<1>2. CASE /\ Verdict = {}
           /\ allocated' = TRUE /\ capacity' = len
           /\ arr' = [i \in 0..len-1 |-> arr[i]] /\ canary' = TRUE
           /\ flags' = {} /\ UNCHANGED <<len, arr_hash, hashStale>>
           /\ pvector_rehash /\ Adopted
  <2>1. (strayed => debug) /\ (debug => ~hashStale) /\ len \in Nat
    BY DEF IInv, Shape
  <2>2. arr' = [i \in 0..capacity'-1 |-> arr'[i]] /\ len' \in 0..capacity'
    BY <1>2, <2>1
  <2>3. Shape'
    BY <1>2, <2>1, <2>2 DEF Shape, Adopted
  <2>4. ArrayHashed' /\ CanarySet'
    BY <1>2 DEF ArrayHashed, CanarySet
  <2>5. Poisoned'
    BY <1>2, <2>1, AtVerifiedCall DEF Poisoned
  <2> QED
    BY <1>2, <2>3, <2>4, <2>5, AdoptedInv
<1> QED
  BY <1>1, <1>2 DEF pvector_clone, Verified

LEMMA GetInv ==
    ASSUME IInv, UNCHANGED debug, NEW i, pvector_get(i)
    PROVE  IInv'
<1>1. CASE Refused(Verdict)
  BY <1>1, RefusedInv
<1>2. CASE UNCHANGED <<memory, intended, strayed, hashStale>>
  BY <1>2, Unobserved DEF Observed
<1> QED
  BY <1>1, <1>2 DEF pvector_get, Verified

\* pvector_empty and the sorts change the elements only where no hash is looked at,
\* and only in the build that nobody else is known to write to.
LEMMA BehindTheHashInv ==
    ASSUME IInv, UNCHANGED debug, pvector_empty \/ pvector_sort
    PROVE  IInv'
<1>1. CASE Refused({"ALLOCATION"})
  BY <1>1, RefusedInv
<1>2. CASE /\ ~debug /\ hashStale' = TRUE /\ Adopted
           /\ arr' = [i \in Cells |-> arr'[i]] /\ len' \in {0, len}
           /\ UNCHANGED <<allocated, capacity, arr_hash, flags, canary>>
           /\ pvector_rehash \/ UNCHANGED <<fields, struct_hash>>
  <2>1. /\ ~strayed /\ ~debug' /\ strayed' = strayed
        /\ capacity \in Nat /\ len \in 0..capacity
    BY <1>2 DEF IInv, Shape, Adopted
  <2>2. Shape'
    <3>1. arr' = [i \in 0..capacity'-1 |-> arr'[i]] /\ len' \in 0..capacity'
      BY <1>2, <2>1 DEF Cells
    <3> QED
      BY <1>2, <2>1, <3>1 DEF IInv, Shape
  <2>3. StructHashed'
    <3>1. struct_hash = fields
      BY <1>2, <2>1 DEF IInv, OwnWritesOnly, StructHashed
    <3> QED
      BY <1>2, <3>1 DEF StructHashed, pvector_rehash
  <2>4. ArrayHashed' /\ Poisoned'
    BY <1>2, <2>1 DEF ArrayHashed, Poisoned
  <2>5. CanarySet'
    BY <1>2, <2>1 DEF CanarySet, IInv, OwnWritesOnly
  <2> QED
    BY <2>1, <2>2, <2>3, <2>4, <2>5 DEF IInv, ContentIntact, OwnWritesOnly
<1>3. ASSUME pvector_empty
      PROVE  arr' = [i \in Cells |-> arr'[i]]
  BY <1>3 DEF pvector_empty
<1>4. ASSUME NEW s, arr' = [i \in Cells |-> IF i < len THEN s[i + 1] ELSE arr[i]]
      PROVE  arr' = [i \in Cells |-> arr'[i]]
  BY <1>4
<1>5. CASE pvector_empty
  BY <1>2, <1>3, <1>5 DEF pvector_empty
<1>6. CASE pvector_sort
  BY <1>1, <1>2, <1>4, <1>6 DEF pvector_sort, fields
<1> QED
  BY <1>5, <1>6

\* A stray write to what the flags guard leaves a content that is not in order, or
\* the content that was there.
LEMMA StrayInv ==
    ASSUME IInv, UNCHANGED debug, StrayWrite
    PROVE  IInv'
<1>1. /\ debug /\ Verdict = {} /\ strayed' = TRUE /\ debug' = debug
      /\ UNCHANGED <<allocated, capacity, flags, arr_hash, intended, hashStale>>
      /\ allocated
  BY DEF StrayWrite
<1>2. ArrayHashed /\ CanarySet /\ Poisoned
  BY <1>1, AtVerifiedCall
<1>3. Elements = intended /\ ~hashStale /\ (CANARY \in flags => canary)
  BY <1>1, <1>2 DEF IInv, ContentIntact, Shape
<1>4. /\ capacity \in Nat /\ len \in 0..capacity
      /\ arr = [i \in 0..capacity-1 |-> arr[i]]
  BY DEF IInv, Shape
<1>5. ASSUME NEW i \in GuardedPlaces, NEW v \in Values,
             arr' = [arr EXCEPT ![i] = v], UNCHANGED <<len, canary>>
      PROVE  IInv'
  <2>1. i \in 0..capacity-1
    BY <1>4 DEF GuardedPlaces
  <2>2. arr' = [j \in 0..capacity-1 |-> IF j = i THEN v ELSE arr[j]]
    BY <1>4, <1>5
  <2>3. Shape'
    BY <1>1, <1>3, <1>4, <1>5, <2>2 DEF Shape
  <2>4. ASSUME ArrayHashed', Poisoned'
        PROVE  Elements' = Elements
    <3>1. CASE HASH \in flags
      BY <1>1, <1>2, <1>3, <2>4, <3>1 DEF ArrayHashed
    <3>2. CASE HASH \notin flags
      <4>1. \A j \in 0..len-1 : arr'[j] = arr[j]
        BY <1>4, <2>2, <3>2 DEF GuardedPlaces
      <4> QED
        BY <1>4, <1>5, <4>1, ContentEq DEF Elements
    <3> QED
      BY <3>1, <3>2
  <2> QED
    BY <1>1, <1>3, <1>5, <2>3, <2>4 DEF IInv, ContentIntact, OwnWritesOnly
<1>6. ASSUME CANARY \in flags, canary' = FALSE, UNCHANGED <<arr, len>>
      PROVE  IInv'
  <2>1. Shape' /\ ~CanarySet'
    BY <1>1, <1>3, <1>4, <1>6 DEF Shape, CanarySet
  <2> QED
    BY <1>1, <2>1 DEF IInv, ContentIntact, OwnWritesOnly
<1>7. ASSUME len > 0, len' = len - 1, UNCHANGED <<arr, canary>>
      PROVE  IInv'
  <2>1. Shape'
    BY <1>1, <1>3, <1>4, <1>7 DEF Shape
  <2>2. ~Poisoned'
    <3>1. len' \in 0..len-1 /\ len' \in len'..capacity'-1
      BY <1>1, <1>4, <1>7
    <3> QED
      BY <1>1, <1>2, <1>7, <3>1 DEF Poisoned
  <2> QED
    BY <1>1, <2>1, <2>2 DEF IInv, ContentIntact, OwnWritesOnly
<1> QED
  BY <1>5, <1>6, <1>7 DEF StrayWrite

-----------------------------------------------------------------------------
(* The theorems *)

LEMMA StepInv ==
    ASSUME IInv, [Next]_vars
    PROVE  IInv'
<1>1. CASE UNCHANGED vars
  BY <1>1, Unobserved DEF vars, Observed
<1>2. CASE Next
  <2>1. UNCHANGED debug
    BY <1>2 DEF Next
  <2>2. CASE pvector_init \/ pvector_destroy
    BY <2>1, <2>2, EmptiedInv
  <2>3. CASE \E f \in SUBSET {CANARY, HASH} : pvector_set_flags(f)
    BY <2>1, <2>3, SetFlagsInv
  <2>4. CASE \E d \in BOOLEAN : pvector_set_element_destructor(d)
    BY <2>1, <2>4, SetDestructorInv
  <2>5. CASE \E n \in Capacities : pvector_set_capacity(n)
    BY <2>1, <2>5, SetCapacityInv, VectorAssumption
  <2>6. CASE \E v \in Values : pvector_push_back(v)
    BY <2>1, <2>6, PushInv
  <2>7. CASE pvector_pop_back
    BY <2>1, <2>7, PopInv
  <2>8. CASE pvector_clone
    BY <2>1, <2>8, CloneInv
  <2>9. CASE \E i \in 0..len : pvector_get(i)
    BY <2>1, <2>9, GetInv
  <2>10. CASE pvector_empty \/ pvector_sort
    BY <2>1, <2>10, BehindTheHashInv
  <2>11. CASE StrayWrite
    BY <2>1, <2>11, StrayInv
  <2> QED
    BY <1>2, <2>2, <2>3, <2>4, <2>5, <2>6, <2>7, <2>8, <2>9, <2>10, <2>11 DEF Next
<1> QED
  BY <1>1, <1>2

\* The invariant that carries both theorems: the shape of the vector, what follows
\* from a content in order, and that everything is in order until somebody else
\* writes.
THEOREM Inductive == Spec => []IInv
<1> QED
  BY InitInv, StepInv, PTL DEF Spec

\* AcceptedIsIntact: a vector of stack/ that pvector_verify accepts holds the
\* elements that the calls put there, between intact canaries, whatever was written
\* to it meanwhile, also when the structure's hash was made again over the damage.
THEOREM AcceptedVectorsIntact == Spec => []AcceptedIsIntact
<1>1. ASSUME IInv PROVE AcceptedIsIntact
  BY <1>1, VerifiedContent DEF AcceptedIsIntact, IInv, ContentIntact
<1> QED
  BY <1>1, Inductive, PTL

\* The invariant leaves pvector_verify nothing to find.
LEMMA SoundOnce ==
    ASSUME IInv PROVE SoundAccepted
<1>1. SUFFICES ASSUME ~strayed
               PROVE  pvector_verify \subseteq
                          errorIf(debug /\ ~allocated, "STRUCT_HASH_CORRUPT")
                            \cup errorIf(~debug /\ hashStale, "ARRAY_HASH_CORRUPT")
  BY DEF SoundAccepted
<1>2. StructHashed /\ ArrayHashed /\ CanarySet /\ Poisoned
  BY <1>1 DEF IInv, OwnWritesOnly
<1>3. ShapeErrors = {}
  BY DEF IInv, Shape, ShapeErrors, errorIf
<1>4. ContentErrors \subseteq errorIf(~debug /\ hashStale, "ARRAY_HASH_CORRUPT")
  BY <1>2 DEF IInv, Shape, ContentErrors, errorIf, ArrayHashed, CanarySet, Poisoned
<1>5. errorIf(struct_hash # fields, "STRUCT_HASH_CORRUPT")
          \subseteq errorIf(debug /\ ~allocated, "STRUCT_HASH_CORRUPT")
  BY <1>2 DEF StructHashed, errorIf
<1> QED
  BY <1>3, <1>4, <1>5 DEF pvector_verify

\* SoundAccepted: pvector_verify finds no fault with a vector only the calls have
\* touched, for all values, capacities and sequences of calls and failures.
THEOREM SoundVectorsAccepted == Spec => []SoundAccepted
<1> QED
  BY SoundOnce, Inductive, PTL

-----------------------------------------------------------------------------
(* The elements a vector owns *)

\* The elements as a sequence: all of it, and its top.
LEMMA ContentIsSeq ==
    ASSUME NEW a, NEW n \in Nat
    PROVE  /\ Len(Content(a, n)) = n
           /\ SubSeq(Content(a, n), 1, n) = Content(a, n)
           /\ n > 0 => SubSeq(Content(a, n), n, n) = <<a[n - 1]>>
           /\ n > 0 => Content(a, n) # <<>>
<1> DEFINE S == {a[i - 1] : i \in 1..n}
           c == Content(a, n)
<1>1. c \in [1..n -> S]
  BY DEF Content
<1>3. n > 0 => c[n] = a[n - 1]
  BY DEF Content
<1> HIDE DEF c, S
<1>2. c \in Seq(S) /\ Len(c) = n
  BY <1>1
<1>4. SubSeq(c, 1, n) = c
  BY <1>2
<1>5. ASSUME n > 0 PROVE SubSeq(c, n, n) = <<c[n]>>
  <2> DEFINE d == SubSeq(c, n, n)
  <2>1. d \in Seq(S) /\ Len(d) = 1 /\ d[1] = c[n]
    BY <1>2, <1>5
  <2> HIDE DEF d
  <2>2. d = <<c[n]>>
    BY <2>1
  <2> QED BY <2>2 DEF d
<1> QED BY <1>2, <1>3, <1>4, <1>5 DEF c

\* What ElementsHandedOver says of a step.
HandedOver ==
    /\ given' # <<>> =>
            /\ element_destructor
            /\ Len(given') = len - len'
            /\ given' = IF debug /\ allocated' THEN <<Poison>>
                        ELSE SubSeq(Elements, len' + 1, len)
    /\ element_destructor /\ len' < len /\ ~strayed' =>
            given' # <<>> \/ (~debug /\ allocated' /\ len' = 0 /\ hashStale')

\* A call that gives nothing away and drops nothing.
LEMMA NothingGiven ==
    ASSUME IInv, given' = <<>>, ~(len' < len) \/ strayed'
    PROVE  HandedOver
BY DEF HandedOver, IInv, Shape

\* A refused call does not touch the elements.
LEMMA RefusedHands ==
    ASSUME IInv, NEW errors, Refused(errors) PROVE HandedOver
<1>1. given' = <<>> /\ len' = len /\ len \in Nat
  BY DEF Refused, memory, fields, IInv, Shape
<1> QED BY <1>1, NothingGiven

\* pvector_pop_back gives the top, which in stack/ is poison by then.
LEMMA PopHands ==
    ASSUME IInv, pvector_pop_back PROVE HandedOver
<1>1. CASE Refused(Verdict) \/ Refused({"INVALID_STATE"})
  BY <1>1, RefusedHands
<1>2. CASE /\ len > 0 /\ len' = len - 1
           /\ given' = IF ~element_destructor THEN <<>>
                       ELSE IF debug THEN <<Poison>> ELSE <<arr[len - 1]>>
           /\ allocated'
  <2>1. len \in Nat /\ len - len' = 1 /\ len' + 1 = len /\ len' < len
    BY <1>2 DEF IInv, Shape
  <2>2. SubSeq(Elements, len' + 1, len) = <<arr[len - 1]>>
    BY <1>2, <2>1, ContentIsSeq DEF Elements
  <2>3. CASE element_destructor
    <3>1. given' = (IF debug THEN <<Poison>> ELSE <<arr[len - 1]>>)
      BY <1>2, <2>3
    <3>2. Len(given') = 1 /\ given' # <<>>
      BY <3>1
    <3> QED BY <1>2, <2>1, <2>2, <2>3, <3>1, <3>2 DEF HandedOver
  <2>4. CASE ~element_destructor
    BY <1>2, <2>4 DEF HandedOver
  <2> QED BY <2>3, <2>4
<1>3. ASSUME len > 0, allocated' = allocated \/ allocated' = TRUE PROVE allocated'
  BY <1>3 DEF IInv, Shape
<1> QED BY <1>1, <1>2, <1>3 DEF pvector_pop_back, Verified, Resized

\* pvector_destroy gives all elements; it finds a sound vector sound first.
LEMMA DestroyHands ==
    ASSUME IInv, UNCHANGED debug, pvector_destroy PROVE HandedOver
<1>1. /\ given' = GivenAtDestruction /\ len' = 0 /\ strayed' = strayed
      /\ len \in Nat /\ capacity \in Nat
  BY DEF pvector_destroy, IInv, Shape
<1>2. Len(Elements) = len /\ SubSeq(Elements, 1, len) = Elements /\ (len > 0 => Elements # <<>>)
  BY <1>1, ContentIsSeq DEF Elements
<1>3. given' # <<>> => /\ element_destructor
                       /\ Len(given') = len - len'
                       /\ given' = SubSeq(Elements, len' + 1, len)
  <2>1. len - len' = len /\ len' + 1 = 1
    BY <1>1
  <2> QED BY <1>1, <1>2, <2>1 DEF GivenAtDestruction
<1>4. ASSUME element_destructor, len' < len, ~strayed' PROVE given' # <<>>
  <2>1. allocated /\ len > 0
    BY <1>1, <1>4 DEF IInv, Shape
  <2>2. SoundAccepted
    BY SoundOnce
  <2>3. Verdict = {}
    BY <1>1, <1>4, <2>1, <2>2 DEF SoundAccepted, errorIf, Verdict, IInv, Shape
  <2> QED BY <1>1, <1>2, <1>4, <2>1, <2>3 DEF GivenAtDestruction
<1>5. ~allocated'
  BY DEF pvector_destroy
<1> QED BY <1>3, <1>4, <1>5 DEF HandedOver

\* The other calls give nothing, and only pvector_empty drops elements.
LEMMA StepHands ==
    ASSUME IInv, Next PROVE HandedOver
<1>1. UNCHANGED debug /\ len \in Nat /\ (~allocated => len = 0)
  BY DEF Next, IInv, Shape
<1>2. CASE pvector_init
  <2>1. given' = <<>> /\ len' = 0 /\ len = 0
    BY <1>1, <1>2 DEF pvector_init
  <2> QED BY <2>1, NothingGiven
<1>3. ASSUME NEW f, pvector_set_flags(f) PROVE HandedOver
  <2>1. Refused(Verdict) \/ Refused({"INVALID_ARG"}) \/ (given' = <<>> /\ len' = len)
    BY <1>3 DEF pvector_set_flags, Verified
  <2> QED BY <1>1, <2>1, NothingGiven, RefusedHands
<1>4. ASSUME NEW d, pvector_set_element_destructor(d) PROVE HandedOver
  <2>1. given' = <<>> /\ len' = len
    BY <1>4 DEF pvector_set_element_destructor
  <2> QED BY <1>1, <2>1, NothingGiven
<1>5. ASSUME NEW n, pvector_set_capacity(n) PROVE HandedOver
  <2>1. Refused(Verdict) \/ Refused({"INVALID_ARG"}) \/ Refused({"ALLOCATION"})
          \/ (given' = <<>> /\ len' = len)
    BY <1>5 DEF pvector_set_capacity, Verified
  <2> QED BY <1>1, <2>1, NothingGiven, RefusedHands
<1>6. ASSUME NEW v, pvector_push_back(v) PROVE HandedOver
  <2>1. Refused(Verdict) \/ Refused({"POISONED"}) \/ Refused({"ALLOCATION"})
          \/ (given' = <<>> /\ len' = len + 1)
    BY <1>6 DEF pvector_push_back, Verified
  <2> QED BY <1>1, <2>1, NothingGiven, RefusedHands
<1>7. CASE pvector_clone
  <2>1. Refused(Verdict) \/ Refused({"ALLOCATION"}) \/ (given' = <<>> /\ len' = len)
    BY <1>7 DEF pvector_clone, Verified
  <2> QED BY <1>1, <2>1, NothingGiven, RefusedHands
<1>8. ASSUME NEW i, pvector_get(i) PROVE HandedOver
  <2>1. Refused(Verdict) \/ (given' = <<>> /\ len' = len)
    BY <1>8 DEF pvector_get, Verified, memory, fields
  <2> QED BY <1>1, <2>1, NothingGiven, RefusedHands
<1>9. CASE pvector_empty
  <2>1. /\ given' = <<>> /\ len' = 0 /\ ~debug /\ hashStale'
        /\ allocated' = allocated
    BY <1>9 DEF pvector_empty
  <2> QED BY <1>1, <2>1 DEF HandedOver
<1>10. CASE pvector_sort
  <2>1. Refused({"ALLOCATION"}) \/ (given' = <<>> /\ len' = len)
    BY <1>10 DEF pvector_sort, fields
  <2> QED BY <1>1, <2>1, NothingGiven, RefusedHands
<1>11. CASE StrayWrite
  <2>1. given' = <<>> /\ strayed'
    BY <1>11 DEF StrayWrite
  <2> QED BY <2>1, NothingGiven
<1> QED BY <1>1, <1>2, <1>3, <1>4, <1>5, <1>6, <1>7, <1>8, <1>9, <1>10, <1>11,
           PopHands, DestroyHands DEF Next

\* ElementsHandedOver: for all values, capacities and sequences of calls, what leaves
\* the vector that owns it goes through the destructor, each element once and as it
\* was, but poisoned in pvector_pop_back of stack/, and not at all in pvector_empty.
THEOREM OwnedElementsHandedOver == Spec => ElementsHandedOver
<1>1. ASSUME IInv, [Next]_vars
      PROVE  [/\ given' # <<>> =>
                    /\ element_destructor
                    /\ Len(given') = len - len'
                    /\ given' = IF debug /\ allocated' THEN <<Poison>>
                                ELSE SubSeq(Elements, len' + 1, len)
              /\ element_destructor /\ len' < len /\ ~strayed' =>
                    given' # <<>> \/ (~debug /\ allocated' /\ len' = 0 /\ hashStale')]_vars
  BY <1>1, StepHands DEF HandedOver
<1> QED BY <1>1, Inductive, PTL DEF Spec, ElementsHandedOver

-----------------------------------------------------------------------------
(* Arrays of integers, rearranged and in order *)

Arrays(n) == [1..n -> Int]

\* t holds the elements of s, each taken from a place of its own.
Rearranged(n, s, t) ==
    \E from \in [1..n -> 1..n] :
        /\ \A i, j \in 1..n : from[i] = from[j] => i = j
        /\ \A k \in 1..n : \E i \in 1..n : from[i] = k
        /\ \A i \in 1..n : t[i] = s[from[i]]

\* The array is a rearrangement of itself,
LEMMA RearrangedSelf ==
    ASSUME NEW n \in Nat, NEW s PROVE Rearranged(n, s, s)
<1> DEFINE id == [i \in 1..n |-> i]
<1>1. /\ id \in [1..n -> 1..n]
      /\ \A i \in 1..n : id[i] = i
  OBVIOUS
<1> HIDE DEF id
<1> QED BY <1>1 DEF Rearranged

\* of what its rearrangements are rearrangements of,
LEMMA RearrangedAgain ==
    ASSUME NEW n \in Nat, NEW s, NEW t, NEW u, Rearranged(n, s, t), Rearranged(n, t, u)
    PROVE  Rearranged(n, s, u)
<1>1. PICK f \in [1..n -> 1..n] : /\ \A i, j \in 1..n : f[i] = f[j] => i = j
                                  /\ \A k \in 1..n : \E i \in 1..n : f[i] = k
                                  /\ \A i \in 1..n : t[i] = s[f[i]]
  BY DEF Rearranged
<1>2. PICK g \in [1..n -> 1..n] : /\ \A i, j \in 1..n : g[i] = g[j] => i = j
                                  /\ \A k \in 1..n : \E i \in 1..n : g[i] = k
                                  /\ \A i \in 1..n : u[i] = t[g[i]]
  BY DEF Rearranged
<1> DEFINE h == [i \in 1..n |-> f[g[i]]]
<1>3. h \in [1..n -> 1..n] /\ \A i \in 1..n : h[i] = f[g[i]] /\ g[i] \in 1..n
  OBVIOUS
<1> HIDE DEF h
<1>4. ASSUME NEW i \in 1..n, NEW j \in 1..n, h[i] = h[j] PROVE i = j
  <2>1. f[g[i]] = f[g[j]] /\ g[i] \in 1..n /\ g[j] \in 1..n
    BY <1>3, <1>4
  <2>2. g[i] = g[j]
    BY <1>1, <2>1
  <2> QED BY <1>2, <2>2
<1>5. \A k \in 1..n : \E i \in 1..n : h[i] = k
  <2>1. ASSUME NEW k \in 1..n PROVE \E i \in 1..n : h[i] = k
    <3>1. PICK m \in 1..n : f[m] = k
      BY <1>1
    <3>2. PICK i \in 1..n : g[i] = m
      BY <1>2
    <3> QED BY <1>3, <3>1, <3>2
  <2> QED BY <2>1
<1>6. ASSUME NEW i \in 1..n PROVE u[i] = s[h[i]]
  <2>1. g[i] \in 1..n /\ h[i] = f[g[i]]
    BY <1>3
  <2>2. u[i] = t[g[i]] /\ t[g[i]] = s[f[g[i]]]
    BY <1>1, <1>2, <2>1
  <2> QED BY <2>1, <2>2
<1> QED BY <1>3, <1>4, <1>5, <1>6 DEF Rearranged

\* and of what two of its elements were exchanged in.
LEMMA ExchangedRearranged ==
    ASSUME NEW n \in Nat, NEW s \in Arrays(n), NEW i \in 1..n, NEW j \in 1..n
    PROVE  Exchanged(s, i, j) \in Arrays(n) /\ Rearranged(n, s, Exchanged(s, i, j))
<1> DEFINE f == [k \in 1..n |-> IF k = i THEN j ELSE IF k = j THEN i ELSE k]
           t == Exchanged(s, i, j)
<1>1. /\ f \in [1..n -> 1..n] 
      /\ \A k \in 1..n : f[k] = IF k = i THEN j ELSE IF k = j THEN i ELSE k
  OBVIOUS
<1>2. t \in Arrays(n) /\ \A k \in 1..n : t[k] = IF k = i THEN s[j] ELSE IF k = j THEN s[i] ELSE s[k]
  BY DEF Exchanged, Arrays
<1> HIDE DEF f, t
<1>3. \A k, m \in 1..n : f[k] = f[m] => k = m
  BY <1>1
<1>4. \A k \in 1..n : \E m \in 1..n : f[m] = k
  <2>1. \A k \in 1..n : f[f[k]] = k
    BY <1>1
  <2> QED BY <1>1, <2>1
<1>5. \A k \in 1..n : t[k] = s[f[k]]
  BY <1>1, <1>2
<1>6. Rearranged(n, s, t)
  BY <1>1, <1>3, <1>4, <1>5 DEF Rearranged
<1> QED BY <1>2, <1>6 DEF t

\* A rearrangement has each element as often: the places of an element are mapped to
\* each other one to one.
LEMMA RearrangedIsPermutation ==
    ASSUME NEW n \in Nat, NEW s \in Arrays(n), NEW t \in Arrays(n), Rearranged(n, s, t)
    PROVE  IsPermutation(s, t)
<1>1. PICK f \in [1..n -> 1..n] : /\ \A i, j \in 1..n : f[i] = f[j] => i = j
                                  /\ \A k \in 1..n : \E i \in 1..n : f[i] = k
                                  /\ \A i \in 1..n : t[i] = s[f[i]]
  BY DEF Rearranged
<1>2. Len(s) = n /\ Len(t) = n /\ DOMAIN s = 1..n /\ DOMAIN t = 1..n
  BY DEF Arrays
<1>3. ASSUME NEW v
      PROVE  Cardinality({i \in 1..n : s[i] = v}) = Cardinality({i \in 1..n : t[i] = v})
  <2> DEFINE S == {i \in 1..n : s[i] = v}
             T == {i \in 1..n : t[i] = v}
             g == [i \in T |-> f[i]]
  <2>1. IsFiniteSet(T)
    <3>1. IsFiniteSet(1..n)
      BY FS_Interval
    <3> QED BY <3>1, FS_Subset
  <2>2. g \in [T -> S]
    BY <1>1
  <2>3. \A i, j \in T : g[i] = g[j] => i = j
    BY <1>1
  <2>4. ASSUME NEW k \in S PROVE \E i \in T : g[i] = k
    <3>1. PICK i \in 1..n : f[i] = k
      BY <1>1
    <3>2. i \in T
      BY <1>1, <3>1
    <3> QED BY <3>1, <3>2
  <2> HIDE DEF g, S, T
  <2>5. g \in Bijection(T, S)
    <3>1. DOMAIN g = T
      BY <2>2
    <3>2. g \in Injection(T, S)
      BY <2>2, <2>3, <3>1 DEF Injection, IsInjective
    <3>3. g \in Surjection(T, S)
      BY <2>2, <2>4, <3>1 DEF Surjection
    <3> QED BY <3>2, <3>3 DEF Bijection
  <2>6. ExistsBijection(T, S)
    BY <2>5 DEF ExistsBijection
  <2>7. Cardinality(S) = Cardinality(T)
    BY <2>1, <2>6, FS_Bijection
  <2> QED BY <2>7 DEF S, T
<1> QED BY <1>2, <1>3 DEF IsPermutation

\* The places after lo up to hi hold elements in order.
Sorted(s, lo, hi) == \A i, j \in Nat : lo < i /\ i < j /\ j <= hi => s[i] <= s[j]

-----------------------------------------------------------------------------
(* Bubble sort *)

\* The loop that settles the i-th element, turn by turn.
LEMMA SettledTurns ==
    ASSUME NEW n \in Nat, NEW s \in Arrays(n), NEW i \in 1..n
    PROVE  \E f : /\ f[0] = s
                  /\ \A j \in 1..i - 1 : f[j] = Compared(f[j - 1], i, j)
                  /\ Settled(s, i) = f[i - 1]
<1> DEFINE step == [q \in (1..i - 1) \X Arrays(n) |-> Compared(q[2], i, q[1])]
           Is(u) == u = [j \in 0..i - 1 |-> IF j = 0 THEN s ELSE Compared(u[j - 1], i, j)]
<1>1. i - 1 \in Nat /\ s \in Arrays(n)
  OBVIOUS
<1>2. \A j \in 1..i - 1, u \in Arrays(n) : step[<<j, u>>] = Compared(u, i, j)
  OBVIOUS
<1>3. step \in [(1..i - 1) \X Arrays(n) -> Arrays(n)]
  <2>1. ASSUME NEW j \in 1..i - 1, NEW u \in Arrays(n) PROVE Compared(u, i, j) \in Arrays(n)
    <3>1. j \in 1..n
      OBVIOUS
    <3> QED BY <3>1, ExchangedRearranged DEF Compared
  <2> QED BY <2>1
<1> HIDE DEF step
<1>4. PICK g : Loops(g, i - 1, Arrays(n), s, step)
  BY <1>1, <1>3, LoopExists
<1>5. Is(g)
  <2>1. ASSUME NEW j \in 0..i - 1, j # 0 PROVE g[j] = Compared(g[j - 1], i, j)
    <3>1. j \in 1..i - 1 /\ g[j - 1] \in Arrays(n)
      BY <2>1, <1>4 DEF Loops
    <3> QED BY <1>2, <1>4, <3>1 DEF Loops
  <2> QED BY <1>4, <2>1 DEF Loops
<1> DEFINE f == CHOOSE u : Is(u)
<1>6. Is(f)
  BY <1>5
<1>7. Settled(s, i) = f[i - 1]
  BY DEF Settled
<1> HIDE DEF f
<1>8. f[0] = s /\ \A j \in 1..i - 1 : f[j] = Compared(f[j - 1], i, j)
  BY <1>6
<1> QED BY <1>7, <1>8

\* While the i-th element settles: it is no less than those it was compared with.
Settling(n, s, i, j, u) ==
    /\ u \in Arrays(n) /\ Rearranged(n, s, u)
    /\ Sorted(u, 0, i - 1)
    /\ \A k \in 1..j : u[k] <= u[i]

\* The i-th element is compared with one more.
LEMMA ComparedSettles ==
    ASSUME NEW n \in Nat, NEW s, NEW i \in 1..n, NEW j \in 1..i - 1, NEW u,
           Settling(n, s, i, j - 1, u)
    PROVE  Settling(n, s, i, j, Compared(u, i, j))
<1> DEFINE v == Compared(u, i, j)
<1>1. /\ u \in Arrays(n) /\ Rearranged(n, s, u) /\ Sorted(u, 0, i - 1)
      /\ \A k \in 1..j - 1 : u[k] <= u[i]
  BY DEF Settling
<1>2. j \in 1..n
  OBVIOUS
<1>3. CASE ~(u[i] < u[j])
  <2>1. v = u
    BY <1>3 DEF Compared
  <2>2. \A k \in 1..j : u[k] <= u[i]
    BY <1>1, <1>2, <1>3 DEF Arrays
  <2> QED BY <1>1, <2>1, <2>2 DEF Settling
<1>4. CASE u[i] < u[j]
  <2>1. v = Exchanged(u, i, j)
    BY <1>4 DEF Compared
  <2>2. v \in Arrays(n) /\ Rearranged(n, u, v)
    BY <1>1, <1>2, <2>1, ExchangedRearranged
  <2>3. Rearranged(n, s, v)
    BY <1>1, <2>2, RearrangedAgain
  <2>4. \A k \in 1..n : v[k] = IF k = i THEN u[j] ELSE IF k = j THEN u[i] ELSE u[k]
    BY <1>1, <1>2, <2>1 DEF Exchanged, Arrays
  <2> HIDE DEF v
  <2>5. \A k \in 1..n : u[k] \in Int
    BY <1>1 DEF Arrays
  <2>6. \A k, m \in Nat : 0 < k /\ k < m /\ m <= i - 1 => u[k] <= u[m]
    BY <1>1 DEF Sorted
  <2>7. ASSUME NEW k \in Nat, NEW m \in Nat, 0 < k, k < m, m <= i - 1 PROVE v[k] <= v[m]
    <3>1. /\ k \in 1..n /\ m \in 1..n /\ k # i /\ m # i /\ u[k] <= u[m]
          /\ v[k] = (IF k = j THEN u[i] ELSE u[k]) /\ v[m] = (IF m = j THEN u[i] ELSE u[m])
      BY <2>4, <2>6, <2>7
    <3>2. m = j => u[k] <= u[i]
      BY <1>1, <2>7
    <3> QED BY <1>2, <1>4, <2>5, <2>7, <3>1, <3>2
  <2>8. ASSUME NEW k \in 1..j PROVE v[k] <= v[i]
    <3>1. k \in 1..n /\ k # i /\ v[i] = u[j] /\ v[k] = (IF k = j THEN u[i] ELSE u[k])
      BY <1>2, <2>4
    <3>2. k # j => u[k] <= u[i]
      BY <1>1
    <3> QED BY <1>2, <1>4, <2>5, <3>1, <3>2
  <2> QED BY <2>2, <2>3, <2>7, <2>8 DEF Settling, Sorted, v
<1> QED BY <1>3, <1>4

\* An element settled behind a sorted beginning is its part; where the beginning is
\* not sorted, the array is still rearranged only.
LEMMA SettledSorts ==
    ASSUME NEW n \in Nat, NEW s \in Arrays(n), NEW i \in 1..n
    PROVE  /\ Settled(s, i) \in Arrays(n) /\ Rearranged(n, s, Settled(s, i))
           /\ Sorted(s, 0, i - 1) => Sorted(Settled(s, i), 0, i)
<1>1. PICK f : /\ f[0] = s
               /\ \A j \in 1..i - 1 : f[j] = Compared(f[j - 1], i, j)
               /\ Settled(s, i) = f[i - 1]
  BY SettledTurns
<1> DEFINE OK(j) == /\ f[j] \in Arrays(n) /\ Rearranged(n, s, f[j])
                    /\ Sorted(s, 0, i - 1) => Settling(n, s, i, j, f[j])
           T == {j \in 0..i - 1 : OK(j)}
<1>2. 0 \in T
  BY <1>1, RearrangedSelf DEF Settling
<1>3. ASSUME NEW j \in 1..i - 1, j - 1 \in T PROVE j \in T
  <2>1. j \in 1..n /\ f[j] = Compared(f[j - 1], i, j)
    BY <1>1
  <2>2. f[j] \in Arrays(n) /\ Rearranged(n, f[j - 1], f[j])
    BY <1>3, <2>1, ExchangedRearranged, RearrangedSelf DEF Compared
  <2>3. Rearranged(n, s, f[j])
    BY <1>3, <2>2, RearrangedAgain
  <2>4. Sorted(s, 0, i - 1) => Settling(n, s, i, j, f[j])
    BY <1>3, <2>1, ComparedSettles
  <2> QED BY <2>2, <2>3, <2>4
<1>4. 0..i - 1 \subseteq T
  <2> HIDE DEF T
  <2>1. i - 1 \in Nat
    OBVIOUS
  <2> QED BY <1>2, <1>3, <2>1, LoopInvariant
<1> DEFINE u == Settled(s, i)
<1>5. u \in Arrays(n) /\ Rearranged(n, s, u)
      /\ (Sorted(s, 0, i - 1) => Settling(n, s, i, i - 1, u))
  BY <1>1, <1>4
<1> HIDE DEF u
<1>6. ASSUME Sorted(s, 0, i - 1), NEW k \in Nat, NEW m \in Nat, 0 < k, k < m, m <= i
      PROVE  u[k] <= u[m]
  <2>1. CASE m = i
    BY <1>5, <1>6, <2>1 DEF Settling
  <2>2. CASE m # i
    BY <1>5, <1>6, <2>2 DEF Settling, Sorted
  <2> QED BY <2>1, <2>2
<1> QED BY <1>5, <1>6 DEF Settling, Sorted, u

\* In order throughout is in order from neighbour to neighbour.
LEMMA SortedIsAscending ==
    ASSUME NEW n \in Nat, NEW s \in Arrays(n), Sorted(s, 0, n) PROVE Ascending(s)
BY DEF Sorted, Ascending, Arrays

\* alg_bubble_sort returns the elements of any array of integers in order.
THEOREM BubbleSortSorts ==
    ASSUME NEW n \in Nat, NEW s \in Arrays(n)
    PROVE  alg_bubble_sort(s) \in Arrays(n) /\ SortOf(s, alg_bubble_sort(s))
<1> DEFINE step == [q \in (1..n) \X Arrays(n) |-> Settled(q[2], q[1])]
           Is(u) == u = [i \in 0..n |-> IF i = 0 THEN s ELSE Settled(u[i - 1], i)]
<1>1. \A i \in 1..n, u \in Arrays(n) : step[<<i, u>>] = Settled(u, i)
  OBVIOUS
<1>2. step \in [(1..n) \X Arrays(n) -> Arrays(n)]
  <2>1. ASSUME NEW i \in 1..n, NEW u \in Arrays(n) PROVE Settled(u, i) \in Arrays(n)
    BY SettledSorts
  <2> QED BY <2>1
<1> HIDE DEF step
<1>3. PICK g : Loops(g, n, Arrays(n), s, step)
  BY <1>2, LoopExists
<1>4. Is(g)
  <2>1. ASSUME NEW i \in 0..n, i # 0 PROVE g[i] = Settled(g[i - 1], i)
    <3>1. i \in 1..n /\ g[i - 1] \in Arrays(n)
      BY <2>1, <1>3 DEF Loops
    <3> QED BY <1>1, <1>3, <3>1 DEF Loops
  <2> QED BY <1>3, <2>1 DEF Loops
<1> DEFINE f == CHOOSE u : Is(u)
<1>5. Is(f)
  BY <1>4
<1>6. alg_bubble_sort(s) = f[n]
  <2>1. Len(s) = n
    BY DEF Arrays
  <2> QED BY <2>1 DEF alg_bubble_sort
<1> HIDE DEF f
<1>7. f[0] = s /\ \A i \in 1..n : f[i] = Settled(f[i - 1], i)
  BY <1>5
<1> DEFINE T == {i \in 0..n : f[i] \in Arrays(n) /\ Rearranged(n, s, f[i]) /\ Sorted(f[i], 0, i)}
<1>8. 0..n \subseteq T
  <2>1. 0 \in T
    BY <1>7, RearrangedSelf DEF Sorted
  <2>2. ASSUME NEW i \in 1..n, i - 1 \in T PROVE i \in T
    <3>1. /\ f[i] \in Arrays(n) /\ Rearranged(n, f[i - 1], f[i])
          /\ Sorted(f[i], 0, i)
      BY <1>7, <2>2, SettledSorts
    <3>2. Rearranged(n, s, f[i])
      BY <2>2, <3>1, RearrangedAgain
    <3> QED BY <3>1, <3>2
  <2> HIDE DEF T
  <2> QED BY <2>1, <2>2, LoopInvariant
<1>9. f[n] \in Arrays(n) /\ Rearranged(n, s, f[n]) /\ Sorted(f[n], 0, n)
  BY <1>8
<1> QED BY <1>6, <1>9, RearrangedIsPermutation, SortedIsAscending DEF SortOf

-----------------------------------------------------------------------------
(* Merge sort: the merge, the inner loop, the outer loop *)

\* The place the next element is copied from, and how far the halves then are.
Source(s, mid, right, p) == IF TakesRight(s, mid, right, p) THEN p[2] ELSE p[1]
Advanced(s, mid, right, p) ==
    IF TakesRight(s, mid, right, p) THEN <<p[1], p[2] + 1>> ELSE <<p[1] + 1, p[2]>>

Bounds(n, left, mid, right) ==
    left \in Nat /\ mid \in Nat /\ right \in Nat /\ left <= mid /\ mid <= right /\ right <= n

\* The array that copying from these places makes.
MergedBy(n, s, left, mid, right, f) ==
    [i \in 1..n |-> IF i - 1 \in left..right - 1
                    THEN s[Source(s, mid, right, f[i - 1 - left]) + 1] ELSE s[i]]

\* merge_arr's loop, turn by turn.
LEMMA MergeTurns ==
    ASSUME NEW n \in Nat, NEW s \in Arrays(n), NEW left, NEW mid, NEW right,
           Bounds(n, left, mid, right)
    PROVE  \E f : /\ f[0] = <<left, mid>>
                  /\ \A k \in 1..right - left : f[k] = Advanced(s, mid, right, f[k - 1])
                  /\ merge_arr(s, left, mid, right) = MergedBy(n, s, left, mid, right, f)
<1> DEFINE V == Nat \X Nat
           A(p) == Advanced(s, mid, right, p)
           step == [q \in (1..right - left) \X V |-> A(q[2])]
           Is(u) == u = [k \in 0..right - left |->
                            IF k = 0 THEN <<left, mid>>
                            ELSE LET p == u[k - 1]
                                 IN  IF TakesRight(s, mid, right, p) THEN <<p[1], p[2] + 1>>
                                                                     ELSE <<p[1] + 1, p[2]>>]
<1>1. right - left \in Nat /\ <<left, mid>> \in V
  BY DEF Bounds
<1>2. \A k \in 1..right - left, p \in V : step[<<k, p>>] = A(p)
  OBVIOUS
<1>3. step \in [(1..right - left) \X V -> V]
  <2>1. \A p \in V : A(p) \in V
    BY DEF Advanced
  <2> HIDE DEF A, V
  <2> QED BY <2>1
<1> HIDE DEF step
<1>4. PICK g : Loops(g, right - left, V, <<left, mid>>, step)
  <2> HIDE DEF V
  <2> QED BY <1>1, <1>3, LoopExists
<1>5. Is(g)
  <2>1. ASSUME NEW k \in 0..right - left, k # 0 PROVE g[k] = A(g[k - 1])
    <3>1. k \in 1..right - left /\ g[k - 1] \in V
      <4> HIDE DEF V
      <4> QED BY <1>1, <2>1, <1>4 DEF Loops
    <3> HIDE DEF V, A
    <3> QED BY <1>2, <1>4, <3>1 DEF Loops
  <2>2. g = [k \in 0..right - left |-> IF k = 0 THEN <<left, mid>> ELSE A(g[k - 1])]
    <3> HIDE DEF A
    <3> QED BY <1>4, <2>1 DEF Loops
  <2> QED BY <2>2, Zenon DEF Advanced
<1> DEFINE f == CHOOSE u : Is(u)
<1>6. Is(f)
  BY <1>5
<1>7. merge_arr(s, left, mid, right) =
         [i \in DOMAIN s |-> IF i - 1 \in left..right - 1
                         THEN s[(IF TakesRight(s, mid, right, f[i - 1 - left])
                                 THEN f[i - 1 - left][2] ELSE f[i - 1 - left][1]) + 1]
                         ELSE s[i]]
  BY Zenon DEF merge_arr
<1> HIDE DEF f
<1>8. f[0] = <<left, mid>> /\ \A k \in 1..right - left : f[k] = A(f[k - 1])
  <2>1. 0 \in 0..right - left /\ \A k \in 1..right - left : k \in 0..right - left /\ k # 0
    BY <1>1
  <2> QED BY <1>6, <2>1 DEF Advanced
<1>9. DOMAIN s = 1..n
  BY DEF Arrays
<1> QED BY <1>7, <1>8, <1>9, Zenon DEF Source, MergedBy

\* k elements are merged when the halves have come to p.
Merging(left, mid, right, k, p) ==
    /\ p[1] \in left..mid /\ p[2] \in mid..right
    /\ p[1] + p[2] = left + mid + k

Taken(mid, p, x) == x < p[1] \/ (mid <= x /\ x < p[2])

\* A turn takes the least of what is left, and nothing twice.
LEMMA MergeTurn ==
    ASSUME NEW n \in Nat, NEW s \in Arrays(n), NEW left, NEW mid, NEW right,
           Bounds(n, left, mid, right), NEW k \in 0..right - left - 1, NEW p,
           Merging(left, mid, right, k, p), NEW q, q = Advanced(s, mid, right, p),
           NEW x, x = Source(s, mid, right, p)
    PROVE  /\ Merging(left, mid, right, k + 1, q)
           /\ x \in left..right - 1 /\ ~Taken(mid, p, x)
           /\ \A y \in left..right - 1 : Taken(mid, q, y) <=> Taken(mid, p, y) \/ y = x
           /\ Sorted(s, left, mid) /\ Sorted(s, mid, right) =>
                 \A y \in left..right - 1 : Taken(mid, p, y) \/ s[x + 1] <= s[y + 1]
<1> DEFINE a == p[1]
           b == p[2]
<1>1. /\ left \in Nat /\ mid \in Nat /\ right \in Nat /\ right <= n
      /\ a \in left..mid /\ b \in mid..right /\ a + b = left + mid + k /\ k < right - left
  BY DEF Bounds, Merging
<1>2. ASSUME NEW y \in left..right - 1 PROVE y + 1 \in Nat /\ y + 1 \in 1..n /\ s[y + 1] \in Int
  BY <1>1 DEF Arrays
<1>3. CASE TakesRight(s, mid, right, p)
  <2>1. b < right /\ (a >= mid \/ s[a + 1] >= s[b + 1])
    BY <1>1, <1>3 DEF TakesRight
  <2>2. x = b /\ q[1] = a /\ q[2] = b + 1
    BY <1>3 DEF Source, Advanced
  <2> HIDE DEF a, b
  <2>3. ASSUME Sorted(s, left, mid), Sorted(s, mid, right), NEW y \in left..right - 1,
               ~(y < a \/ (mid <= y /\ y < b))
        PROVE  s[b + 1] <= s[y + 1]
    <3>0. b \in left..right - 1 /\ b \in Nat /\ y \in Nat
      BY <1>1, <2>1
    <3>1. CASE y >= mid
      <4>1. y = b \/ s[b + 1] <= s[y + 1]
        BY <1>1, <1>2, <2>3, <3>0, <3>1 DEF Sorted
      <4> QED BY <1>2, <3>0, <4>1
    <3>2. CASE y < mid
      <4>1. a <= y /\ a < mid /\ s[a + 1] >= s[b + 1] /\ a \in left..right - 1
        BY <1>1, <2>1, <2>3, <3>0, <3>2
      <4>2. y = a \/ s[a + 1] <= s[y + 1]
        BY <1>1, <1>2, <2>3, <3>0, <3>2, <4>1 DEF Sorted
      <4>3. s[a + 1] \in Int /\ s[b + 1] \in Int /\ s[y + 1] \in Int
        BY <1>2, <3>0, <4>1
      <4> QED BY <4>1, <4>2, <4>3
    <3> QED BY <3>0, <3>1, <3>2, <1>1
  <2> QED BY <1>1, <2>1, <2>2, <2>3 DEF Merging, Taken, a, b
<1>4. CASE ~TakesRight(s, mid, right, p)
  <2>1. a < mid /\ (b >= right \/ ~(s[a + 1] >= s[b + 1]))
    BY <1>1, <1>4 DEF TakesRight
  <2>2. x = a /\ q[1] = a + 1 /\ q[2] = b
    BY <1>4 DEF Source, Advanced
  <2> HIDE DEF a, b
  <2>3. ASSUME Sorted(s, left, mid), Sorted(s, mid, right), NEW y \in left..right - 1,
               ~(y < a \/ (mid <= y /\ y < b))
        PROVE  s[a + 1] <= s[y + 1]
    <3>0. a \in left..right - 1 /\ a \in Nat /\ y \in Nat
      BY <1>1, <2>1
    <3>1. CASE y < mid
      <4>1. y = a \/ s[a + 1] <= s[y + 1]
        BY <1>1, <1>2, <2>3, <3>0, <3>1 DEF Sorted
      <4> QED BY <1>2, <3>0, <4>1
    <3>2. CASE y >= mid
      <4>1. b <= y /\ b < right /\ ~(s[a + 1] >= s[b + 1]) /\ b \in left..right - 1
        BY <1>1, <2>1, <2>3, <3>0, <3>2
      <4>2. y = b \/ s[b + 1] <= s[y + 1]
        BY <1>1, <1>2, <2>3, <3>0, <3>2, <4>1 DEF Sorted
      <4>3. s[a + 1] \in Int /\ s[b + 1] \in Int /\ s[y + 1] \in Int
        BY <1>2, <3>0, <4>1
      <4> QED BY <4>1, <4>2, <4>3
    <3> QED BY <3>0, <3>1, <3>2, <1>1
  <2> QED BY <1>1, <2>1, <2>2, <2>3 DEF Merging, Taken, a, b
<1> QED BY <1>3, <1>4

\* What merge_arr copies: each place of the two halves once, and no element before a
\* smaller one if the halves are in order.
LEMMA MergeSources ==
    ASSUME NEW n \in Nat, NEW s \in Arrays(n), NEW left, NEW mid, NEW right,
           Bounds(n, left, mid, right)
    PROVE  \E src \in [0..right - left - 1 -> left..right - 1] :
              /\ \A j, k \in 0..right - left - 1 : src[j] = src[k] => j = k
              /\ \A y \in left..right - 1 : \E j \in 0..right - left - 1 : src[j] = y
              /\ Sorted(s, left, mid) /\ Sorted(s, mid, right) =>
                    \A j, k \in 0..right - left - 1 : j < k => s[src[j] + 1] <= s[src[k] + 1]
              /\ merge_arr(s, left, mid, right) =
                    [i \in 1..n |-> IF i - 1 \in left..right - 1
                                    THEN s[src[i - 1 - left] + 1] ELSE s[i]]
<1> DEFINE M == right - left
<1>1. /\ left \in Nat /\ mid \in Nat /\ right \in Nat /\ M \in Nat
      /\ left <= mid /\ mid <= right /\ right <= n
  BY DEF Bounds
<1>2. PICK f : /\ f[0] = <<left, mid>>
               /\ \A k \in 1..M : f[k] = Advanced(s, mid, right, f[k - 1])
               /\ merge_arr(s, left, mid, right) = MergedBy(n, s, left, mid, right, f)
  BY MergeTurns
<1> DEFINE src == [k \in 0..M - 1 |-> Source(s, mid, right, f[k])]
<1>3. \A k \in 0..M - 1 : src[k] = Source(s, mid, right, f[k])
  OBVIOUS
<1>4. DOMAIN src = 0..M - 1 /\ src = [k \in 0..M - 1 |-> src[k]]
  OBVIOUS
<1>5. merge_arr(s, left, mid, right) =
         [i \in 1..n |-> IF i - 1 \in left..right - 1 THEN s[src[i - 1 - left] + 1] ELSE s[i]]
  <2>1. \A i \in 1..n : i - 1 \in left..right - 1 => i - 1 - left \in 0..M - 1
    BY <1>1
  <2> DEFINE By(i) == IF i - 1 \in left..right - 1
                      THEN s[Source(s, mid, right, f[i - 1 - left]) + 1] ELSE s[i]
             To(i) == IF i - 1 \in left..right - 1 THEN s[src[i - 1 - left] + 1] ELSE s[i]
  <2>2. \A i \in 1..n : By(i) = To(i)
    <3> HIDE DEF src
    <3> QED BY <1>3, <2>1
  <2>3. merge_arr(s, left, mid, right) = [i \in 1..n |-> By(i)]
    BY <1>2 DEF MergedBy
  <2> HIDE DEF By, To
  <2>4. merge_arr(s, left, mid, right) = [i \in 1..n |-> To(i)]
    BY <2>2, <2>3
  <2> QED BY <2>4 DEF To
<1> HIDE DEF src
<1> DEFINE T == {k \in 0..M : Merging(left, mid, right, k, f[k])}
<1>6. 0..M \subseteq T
  <2>1. 0 \in T
    BY <1>1, <1>2 DEF Merging
  <2>2. ASSUME NEW k \in 1..M, k - 1 \in T PROVE k \in T
    <3>1. k - 1 \in 0..M - 1 /\ (k - 1) + 1 = k /\ k \in 0..M
      BY <1>1
    <3>2. Merging(left, mid, right, (k - 1) + 1, f[k])
      <4> HIDE DEF M
      <4> QED BY <1>2, <2>2, <3>1, MergeTurn DEF M
    <3> QED BY <3>1, <3>2
  <2> HIDE DEF T, M
  <2> QED BY <1>1, <2>1, <2>2, LoopInvariant
<1>7. ASSUME NEW k \in 0..M - 1
      PROVE  /\ src[k] \in left..right - 1 /\ ~Taken(mid, f[k], src[k])
             /\ \A y \in left..right - 1 :
                   Taken(mid, f[k + 1], y) <=> Taken(mid, f[k], y) \/ y = src[k]
             /\ Sorted(s, left, mid) /\ Sorted(s, mid, right) =>
                   \A y \in left..right - 1 :
                      Taken(mid, f[k], y) \/ s[src[k] + 1] <= s[y + 1]
  <2>1. k + 1 \in 1..M /\ (k + 1) - 1 = k /\ k \in 0..M
    BY <1>1
  <2>2. f[k + 1] = Advanced(s, mid, right, f[k]) /\ Merging(left, mid, right, k, f[k])
    BY <1>2, <1>6, <2>1
  <2> QED BY <1>3, <2>2, MergeTurn
<1>8. src \in [0..M - 1 -> left..right - 1]
  BY <1>4, <1>7
<1> DEFINE U == {k \in 0..M : \A y \in left..right - 1 :
                                 Taken(mid, f[k], y) <=> \E j \in 0..k - 1 : src[j] = y}
<1>9. 0..M \subseteq U
  <2>1. 0 \in U
    BY <1>1, <1>2 DEF Taken
  <2>2. ASSUME NEW k \in 1..M, k - 1 \in U PROVE k \in U
    <3>1. /\ k - 1 \in 0..M - 1 /\ (k - 1) + 1 = k /\ k \in 0..M
          /\ \A j \in 0..k - 1 : j = k - 1 \/ j \in 0..(k - 1) - 1
          /\ \A j \in 0..(k - 1) - 1 : j \in 0..k - 1
          /\ k - 1 \in 0..k - 1
      BY <1>1
    <3>2. ASSUME NEW y \in left..right - 1
          PROVE  Taken(mid, f[k], y) <=> \E j \in 0..k - 1 : src[j] = y
      <4>1. Taken(mid, f[k], y) <=> Taken(mid, f[k - 1], y) \/ y = src[k - 1]
        BY <1>7, <3>1
      <4>2. Taken(mid, f[k - 1], y) <=> \E j \in 0..(k - 1) - 1 : src[j] = y
        BY <2>2
      <4> QED BY <3>1, <4>1, <4>2
    <3> QED BY <3>1, <3>2
  <2> HIDE DEF U, M
  <2> QED BY <1>1, <2>1, <2>2, LoopInvariant
<1>10. ASSUME NEW j \in 0..M - 1, NEW k \in 0..M - 1, j < k
       PROVE  src[j] # src[k] /\ ~Taken(mid, f[j], src[k])
  <2>1. j \in 0..k - 1 /\ k \in 0..M /\ j \in 0..M /\ \A m \in 0..j - 1 : m \in 0..k - 1
    BY <1>1, <1>10
  <2>2. \A m \in 0..k - 1 : src[m] # src[k]
    BY <1>7, <1>9, <2>1
  <2>3. src[k] \in left..right - 1
    BY <1>7
  <2> QED BY <1>9, <2>1, <2>2, <2>3
<1>11. ASSUME NEW j \in 0..M - 1, NEW k \in 0..M - 1, src[j] = src[k] PROVE j = k
  BY <1>1, <1>10, <1>11
<1>12. ASSUME NEW y \in left..right - 1 PROVE \E j \in 0..M - 1 : src[j] = y
  <2>1. M \in 0..M /\ Merging(left, mid, right, M, f[M])
    BY <1>1, <1>6
  <2>2. Taken(mid, f[M], y)
    BY <1>1, <2>1 DEF Taken, Merging
  <2> QED BY <1>9, <2>1, <2>2
<1>13. ASSUME Sorted(s, left, mid), Sorted(s, mid, right),
              NEW j \in 0..M - 1, NEW k \in 0..M - 1, j < k
       PROVE  s[src[j] + 1] <= s[src[k] + 1]
  BY <1>7, <1>10, <1>13
<1> QED BY <1>5, <1>8, <1>11, <1>12, <1>13

\* merge_arr puts the elements of two neighbours in order in order, and leaves the rest.
LEMMA MergeSorts ==
    ASSUME NEW n \in Nat, NEW s \in Arrays(n), NEW left, NEW mid, NEW right,
           Bounds(n, left, mid, right), NEW t, t = merge_arr(s, left, mid, right)
    PROVE  /\ t \in Arrays(n) /\ Rearranged(n, s, t)
           /\ \A i \in 1..n : i <= left \/ right < i => t[i] = s[i]
           /\ Sorted(s, left, mid) /\ Sorted(s, mid, right) => Sorted(t, left, right)
<1> DEFINE M == right - left
<1>1. /\ left \in Nat /\ mid \in Nat /\ right \in Nat /\ M \in Nat
      /\ left <= mid /\ mid <= right /\ right <= n
  BY DEF Bounds
<1>2. PICK src \in [0..M - 1 -> left..right - 1] :
              /\ \A j, k \in 0..M - 1 : src[j] = src[k] => j = k
              /\ \A y \in left..right - 1 : \E j \in 0..M - 1 : src[j] = y
              /\ Sorted(s, left, mid) /\ Sorted(s, mid, right) =>
                    \A j, k \in 0..M - 1 : j < k => s[src[j] + 1] <= s[src[k] + 1]
              /\ t = [i \in 1..n |-> IF i - 1 \in left..right - 1
                                     THEN s[src[i - 1 - left] + 1] ELSE s[i]]
  BY MergeSources
<1> DEFINE from == [i \in 1..n |-> IF i - 1 \in left..right - 1
                                   THEN src[i - 1 - left] + 1 ELSE i]
           In(i) == i - 1 \in left..right - 1
<1>3. \A i \in 1..n : In(i) => i - 1 - left \in 0..M - 1
  BY <1>1
<1>4. \A i \in 1..n : /\ from[i] \in 1..n
                      /\ In(i) => from[i] = src[i - 1 - left] + 1 /\ In(from[i])
                      /\ ~In(i) => from[i] = i
  <2>1. ASSUME NEW i \in 1..n
        PROVE  /\ from[i] \in 1..n
               /\ In(i) => from[i] = src[i - 1 - left] + 1 /\ In(from[i])
               /\ ~In(i) => from[i] = i
    <3>1. In(i) => src[i - 1 - left] \in left..right - 1
      BY <1>2, <1>3
    <3> QED BY <1>1, <3>1
  <2> QED BY <2>1
<1>5. from \in [1..n -> 1..n]
  BY <1>4
<1> HIDE DEF from
<1>6. \A i \in 1..n : t[i] = s[from[i]]
  BY <1>2, <1>4
<1>7. ASSUME NEW i \in 1..n, NEW j \in 1..n, from[i] = from[j] PROVE i = j
  <2>1. In(i) <=> In(j)
    BY <1>4, <1>7
  <2>2. CASE In(i)
    <3>1. src[i - 1 - left] + 1 = src[j - 1 - left] + 1
      BY <1>4, <1>7, <2>1, <2>2
    <3>2. i - 1 - left \in 0..M - 1 /\ j - 1 - left \in 0..M - 1
      BY <1>3, <2>1, <2>2
    <3>3. src[i - 1 - left] \in Nat /\ src[j - 1 - left] \in Nat
      BY <1>1, <3>2
    <3>4. i - 1 - left = j - 1 - left
      BY <1>2, <3>1, <3>2, <3>3
    <3> QED BY <1>1, <3>4
  <2>3. CASE ~In(i)
    BY <1>4, <1>7, <2>1, <2>3
  <2> QED BY <2>2, <2>3
<1>8. ASSUME NEW k \in 1..n PROVE \E i \in 1..n : from[i] = k
  <2>1. CASE In(k)
    <3>1. PICK j \in 0..M - 1 : src[j] = k - 1
      BY <1>2, <2>1
    <3>2. j + left + 1 \in 1..n /\ In(j + left + 1) /\ (j + left + 1) - 1 - left = j
      BY <1>1
    <3>3. from[j + left + 1] = (k - 1) + 1
      BY <1>4, <3>1, <3>2
    <3> QED BY <3>2, <3>3
  <2>2. CASE ~In(k)
    BY <1>4, <2>2
  <2> QED BY <2>1, <2>2
<1>9. t \in Arrays(n)
  <2>1. \A i \in 1..n : t[i] \in Int
    BY <1>4, <1>6 DEF Arrays
  <2> QED BY <1>2, <2>1 DEF Arrays
<1>10. Rearranged(n, s, t)
  BY <1>5, <1>6, <1>7, <1>8 DEF Rearranged
<1>11. \A i \in 1..n : i <= left \/ right < i => t[i] = s[i]
  BY <1>1, <1>2
<1>12. ASSUME Sorted(s, left, mid), Sorted(s, mid, right),
              NEW i \in Nat, NEW j \in Nat, left < i, i < j, j <= right
       PROVE  t[i] <= t[j]
  <2>1. i \in 1..n /\ j \in 1..n /\ In(i) /\ In(j)
        /\ i - 1 - left \in 0..M - 1 /\ j - 1 - left \in 0..M - 1 /\ i - 1 - left < j - 1 - left
    BY <1>1, <1>12
  <2>2. t[i] = s[src[i - 1 - left] + 1] /\ t[j] = s[src[j - 1 - left] + 1]
    BY <1>2, <2>1
  <2> QED BY <1>2, <1>12, <2>1, <2>2
<1> QED BY <1>9, <1>10, <1>11, <1>12 DEF Sorted

\* The same within an array of n.
SortedWithin(n, s, lo, hi) == \A a, b \in 1..n : lo < a /\ a < b /\ b <= hi => s[a] <= s[b]

\* Each block of w elements is in order.
InBlocks(n, s, w) == \A m \in Nat : SortedWithin(n, s, w * m, w * m + w)

\* A turn of the inner loop.
Paired(n, w, t) ==
    IF HasSecondHalf(n, w, t.j)
    THEN [arr |-> merge_arr(t.arr, t.j, t.j + w, BlockEnd(n, w, t.j)), j |-> t.j + 2 * w]
    ELSE t

Pairings(n) == [arr : Arrays(n), j : Nat]

\* A turn merges inside the array.
LEMMA PairedTyped ==
    ASSUME NEW n \in Nat, NEW w \in Nat \ {0}, NEW t \in Pairings(n)
    PROVE  /\ Paired(n, w, t) \in Pairings(n)
           /\ Rearranged(n, t.arr, Paired(n, w, t).arr)
           /\ HasSecondHalf(n, w, t.j) => Bounds(n, t.j, t.j + w, BlockEnd(n, w, t.j))
<1> DEFINE e == BlockEnd(n, w, t.j)
           u == merge_arr(t.arr, t.j, t.j + w, e)
<1>1. t.arr \in Arrays(n) /\ t.j \in Nat
  BY DEF Pairings
<1>2. CASE HasSecondHalf(n, w, t.j)
  <2>1. Bounds(n, t.j, t.j + w, e)
    BY <1>1, <1>2 DEF Bounds, BlockEnd, HasSecondHalf
  <2>2. u \in Arrays(n) /\ Rearranged(n, t.arr, u)
    BY <1>1, <2>1, MergeSorts
  <2>3. Paired(n, w, t) = [arr |-> u, j |-> t.j + 2 * w] /\ t.j + 2 * w \in Nat
    BY <1>1, <1>2 DEF Paired
  <2> HIDE DEF u
  <2> QED BY <2>1, <2>2, <2>3 DEF Pairings
<1>3. CASE ~HasSecondHalf(n, w, t.j)
  BY <1>1, <1>3, RearrangedSelf DEF Paired
<1> QED BY <1>2, <1>3

\* The inner loop, turn by turn.
LEMMA PairingTurns ==
    ASSUME NEW n \in Nat, NEW s \in Arrays(n), NEW w \in Nat \ {0}
    PROVE  \E f : /\ f[0] = [arr |-> s, j |-> 0]
                  /\ \A k \in 1..n : f[k] = Paired(n, w, f[k - 1])
                  /\ MergedInPairs(s, w) = f[n].arr
<1> DEFINE V == Pairings(n)
           base == [arr |-> s, j |-> 0]
           P(t) == Paired(n, w, t)
           step == [q \in (1..n) \X V |-> P(q[2])]
           Is(u) == u = [k \in 0..n |-> IF k = 0 THEN base ELSE P(u[k - 1])]
<1>1. base \in V
  BY DEF Pairings
<1>2. \A k \in 1..n, t \in V : step[<<k, t>>] = P(t)
  OBVIOUS
<1>3. step \in [(1..n) \X V -> V]
  <2>1. \A t \in V : P(t) \in V
    BY PairedTyped
  <2> HIDE DEF P, V
  <2> QED BY <2>1
<1> HIDE DEF step, base
<1>4. PICK g : Loops(g, n, V, base, step)
  <2> HIDE DEF V
  <2> QED BY <1>1, <1>3, LoopExists
<1>5. Is(g)
  <2>1. ASSUME NEW k \in 0..n, k # 0 PROVE g[k] = P(g[k - 1])
    <3> HIDE DEF V, P
    <3>1. k \in 1..n /\ g[k - 1] \in V
      BY <2>1, <1>4 DEF Loops
    <3> QED BY <1>2, <1>4, <3>1 DEF Loops
  <2> HIDE DEF P, V
  <2> QED BY <1>4, <2>1 DEF Loops
<1> DEFINE f == CHOOSE u : Is(u)
<1>6. Is(f)
  <2> HIDE DEF Is
  <2> QED BY <1>5
<1>7. MergedInPairs(s, w) = f[n].arr
  <2>1. Len(s) = n
    BY DEF Arrays
  <2> QED BY <2>1, Zenon DEF MergedInPairs, Paired, base
<1> HIDE DEF f
<1>8. f[0] = base /\ \A k \in 1..n : f[k] = P(f[k - 1])
  <2> HIDE DEF P
  <2> QED BY <1>6
<1> QED BY <1>7, <1>8 DEF base

\* Where blocks of w and of 2 * w begin.
LEMMA Multiples ==
    ASSUME NEW w \in Nat \ {0}, NEW M \in Nat
    PROVE  /\ (2 * w) * M \in Nat
           /\ w * (2 * M) = (2 * w) * M /\ w * (2 * M + 1) = (2 * w) * M + w
           /\ (2 * w) * (M + 1) = (2 * w) * M + 2 * w
           /\ \A m \in Nat : m < M => (2 * w) * m + 2 * w <= (2 * w) * M
           /\ \A m \in Nat : M < m => (2 * w) * M + 2 * w <= (2 * w) * m
           /\ \A m \in Nat : 2 * M + 2 <= m => (2 * w) * M + 2 * w <= w * m
<1>1. \A a, b, d \in Nat : a * d \in Nat /\ a * (b + 1 + d) = a * b + a + a * d
  OBVIOUS
<1>2. \A a, b, c \in Nat : b < c => a * b + a <= a * c
  <2>1. ASSUME NEW a \in Nat, NEW b \in Nat, NEW c \in Nat, b < c PROVE a * b + a <= a * c
    <3> DEFINE d == c - b - 1
    <3>1. d \in Nat /\ c = b + 1 + d
      BY <2>1
    <3> HIDE DEF d
    <3>2. a * c = a * b + a + a * d /\ a * d \in Nat /\ a * b \in Nat
      BY <1>1, <3>1
    <3> QED BY <3>2
  <2> QED BY <2>1
<1>3. /\ (2 * w) * M \in Nat /\ 2 * w \in Nat
      /\ w * (2 * M) = (2 * w) * M /\ w * (2 * M + 1) = (2 * w) * M + w
      /\ (2 * w) * (M + 1) = (2 * w) * M + 2 * w
  OBVIOUS
<1>4. ASSUME NEW m \in Nat, 2 * M + 2 <= m PROVE (2 * w) * M + 2 * w <= w * m
  <2>1. 2 * M + 1 \in Nat /\ 2 * M + 1 < m
    BY <1>4
  <2>2. w * (2 * M + 1) + w <= w * m
    BY <1>2, <2>1
  <2> QED BY <1>3, <2>2
<1> QED BY <1>2, <1>3, <1>4

\* The inner loop with M blocks paired: those before M are in order at their new
\* width, those after at the old.
Pairing(n, s, w, k, t) ==
    /\ t \in Pairings(n) /\ Rearranged(n, s, t.arr)
    /\ t.j >= n - w \/ t.j >= k
    /\ \E M \in Nat :
          /\ t.j = (2 * w) * M
          /\ \A m \in Nat : m < M => SortedWithin(n, t.arr, (2 * w) * m, (2 * w) * m + 2 * w)
          /\ \A m \in Nat : 2 * M <= m => SortedWithin(n, t.arr, w * m, w * m + w)

\* A turn pairs one more block, or leaves the loop with at most half a block left.
LEMMA PairedOn ==
    ASSUME NEW n \in Nat, NEW s, NEW w \in Nat \ {0}, NEW k \in 1..n, NEW t,
           Pairing(n, s, w, k - 1, t)
    PROVE  Pairing(n, s, w, k, Paired(n, w, t))
<1> DEFINE v == Paired(n, w, t)
           e == BlockEnd(n, w, t.j)
<1>1. /\ t \in Pairings(n) /\ Rearranged(n, s, t.arr) /\ t.arr \in Arrays(n) /\ t.j \in Nat
      /\ t.j >= n - w \/ t.j >= k - 1
  BY DEF Pairing, Pairings
<1>2. PICK M \in Nat :
          /\ t.j = (2 * w) * M
          /\ \A m \in Nat : m < M => SortedWithin(n, t.arr, (2 * w) * m, (2 * w) * m + 2 * w)
          /\ \A m \in Nat : 2 * M <= m => SortedWithin(n, t.arr, w * m, w * m + w)
  BY DEF Pairing
<1>3. v \in Pairings(n) /\ Rearranged(n, s, v.arr)
  BY <1>1, PairedTyped, RearrangedAgain
<1>4. CASE ~HasSecondHalf(n, w, t.j)
  <2>1. v = t /\ t.j >= n - w
    BY <1>1, <1>4 DEF Paired, HasSecondHalf
  <2> HIDE DEF v
  <2>2. Pairing(n, s, w, k, t)
    BY <1>1, <1>2, <2>1, Zenon DEF Pairing
  <2> QED BY <2>1, <2>2, Zenon DEF v
<1>5. CASE HasSecondHalf(n, w, t.j)
  <2> DEFINE j == t.j
             u == t.arr
             x == merge_arr(u, j, j + w, e)
  <2>1. v = [arr |-> x, j |-> j + 2 * w]
    BY <1>5 DEF Paired
  <2>2. Bounds(n, j, j + w, e) /\ u \in Arrays(n) /\ j \in Nat
    BY <1>1, <1>5, PairedTyped
  <2>3. e \in Nat /\ e <= n /\ e <= j + 2 * w /\ j + w < n /\ (e = n \/ e = j + 2 * w)
    BY <1>1, <1>5 DEF BlockEnd, HasSecondHalf
  <2>4. v.arr = x /\ v.j = j + 2 * w
    BY <2>1
  <2>5. /\ x \in Arrays(n)
        /\ \A i \in 1..n : i <= j \/ e < i => x[i] = u[i]
        /\ Sorted(u, j, j + w) /\ Sorted(u, j + w, e) => Sorted(x, j, e)
    <3> HIDE DEF j, u, x, e
    <3> QED BY <2>2, MergeSorts DEF x
  <2> HIDE DEF v, x, u, j, e
  <2>6. j = (2 * w) * M
    BY <1>2 DEF j
  <2>7. /\ \A m \in Nat : m < M => SortedWithin(n, u, (2 * w) * m, (2 * w) * m + 2 * w)
        /\ \A m \in Nat : 2 * M <= m => SortedWithin(n, u, w * m, w * m + w)
    BY <1>2 DEF u
  <2>8. Sorted(u, j, j + w)
    <3>1. SortedWithin(n, u, j, j + w)
      BY <2>6, <2>7, Multiples
    <3> QED BY <2>2, <2>3, <3>1 DEF SortedWithin, Sorted
  <2>9. Sorted(u, j + w, e)
    <3>0. 2 * M + 1 \in Nat /\ 2 * M <= 2 * M + 1
      OBVIOUS
    <3>1. SortedWithin(n, u, w * (2 * M + 1), w * (2 * M + 1) + w)
      BY <2>7, <3>0, Zenon
    <3>2. SortedWithin(n, u, j + w, j + w + w)
      BY <2>6, <3>1, Multiples
    <3> QED BY <2>2, <2>3, <3>2 DEF SortedWithin, Sorted
  <2>10. Sorted(x, j, e)
    BY <2>5, <2>8, <2>9
  <2>11. v.j = (2 * w) * (M + 1)
    BY <2>4, <2>6, Multiples
  <2>12. ASSUME NEW m \in Nat, m < M + 1
         PROVE  SortedWithin(n, x, (2 * w) * m, (2 * w) * m + 2 * w)
    <3>1. CASE m = M
      <4>1. SortedWithin(n, x, j, j + 2 * w)
        BY <2>2, <2>3, <2>10 DEF SortedWithin, Sorted
      <4> QED BY <2>6, <3>1, <4>1
    <3>2. CASE m < M
      <4> DEFINE lo == (2 * w) * m
      <4>1. SortedWithin(n, u, lo, lo + 2 * w)
        BY <2>7, <3>2
      <4>2. lo + 2 * w <= j /\ lo \in Nat
        BY <2>6, <3>2, Multiples
      <4> HIDE DEF lo
      <4>3. SortedWithin(n, x, lo, lo + 2 * w)
        BY <2>2, <2>5, <4>1, <4>2 DEF SortedWithin
      <4> QED BY <4>3 DEF lo
    <3> QED BY <2>12, <3>1, <3>2
  <2>13. ASSUME NEW m \in Nat, 2 * (M + 1) <= m
         PROVE  SortedWithin(n, x, w * m, w * m + w)
    <3> DEFINE lo == w * m
    <3>0. 2 * M <= m
      BY <2>13
    <3>1. SortedWithin(n, u, lo, lo + w)
      BY <2>7, <3>0, Zenon
    <3>2. j + 2 * w <= lo /\ lo \in Nat
      <4>1. 2 * M + 2 <= m
        BY <2>13
      <4> QED BY <2>6, <4>1, Multiples
    <3> HIDE DEF lo
    <3>3. SortedWithin(n, x, lo, lo + w)
      BY <2>2, <2>3, <2>5, <3>1, <3>2 DEF SortedWithin
    <3> QED BY <3>3 DEF lo
  <2>14. v.j >= k
    BY <1>1, <1>5, <2>2, <2>4 DEF HasSecondHalf, j
  <2>15. M + 1 \in Nat
    OBVIOUS
  <2> QED BY <1>3, <2>4, <2>11, <2>12, <2>13, <2>14, <2>15 DEF Pairing, v
<1> QED BY <1>4, <1>5

\* The inner loop doubles the width of the blocks that are in order.
LEMMA PairsSorted ==
    ASSUME NEW n \in Nat, NEW s \in Arrays(n), NEW w \in Nat \ {0}
    PROVE  /\ MergedInPairs(s, w) \in Arrays(n) /\ Rearranged(n, s, MergedInPairs(s, w))
           /\ InBlocks(n, s, w) => InBlocks(n, MergedInPairs(s, w), 2 * w)
<1>1. PICK f : /\ f[0] = [arr |-> s, j |-> 0]
               /\ \A k \in 1..n : f[k] = Paired(n, w, f[k - 1])
               /\ MergedInPairs(s, w) = f[n].arr
  BY PairingTurns
<1> DEFINE T == {k \in 0..n : /\ f[k] \in Pairings(n) /\ Rearranged(n, s, f[k].arr)
                              /\ InBlocks(n, s, w) => Pairing(n, s, w, k, f[k])}
<1>2. 0..n \subseteq T
  <2>1. 0 \in T
    <3>1. f[0] \in Pairings(n) /\ f[0].arr = s /\ f[0].j = 0
      BY <1>1 DEF Pairings
    <3>2. ASSUME InBlocks(n, s, w) PROVE Pairing(n, s, w, 0, f[0])
      <4>1. (2 * w) * 0 = 0
        OBVIOUS
      <4>2. \A m \in Nat : SortedWithin(n, s, w * m, w * m + w)
        BY <3>2 DEF InBlocks
      <4> QED BY <3>1, <4>1, <4>2, RearrangedSelf DEF Pairing
    <3> QED BY <3>1, <3>2, RearrangedSelf
  <2>2. ASSUME NEW k \in 1..n, k - 1 \in T PROVE k \in T
    <3>1. f[k] = Paired(n, w, f[k - 1])
      BY <1>1
    <3>2. f[k] \in Pairings(n) /\ Rearranged(n, f[k - 1].arr, f[k].arr)
      BY <2>2, <3>1, PairedTyped
    <3>3. Rearranged(n, s, f[k].arr)
      BY <2>2, <3>2, RearrangedAgain
    <3>4. InBlocks(n, s, w) => Pairing(n, s, w, k, f[k])
      BY <2>2, <3>1, PairedOn
    <3> QED BY <3>2, <3>3, <3>4
  <2> HIDE DEF T
  <2> QED BY <2>1, <2>2, LoopInvariant
<1> DEFINE t == f[n]
           u == t.arr
<1>3. /\ t \in Pairings(n) /\ Rearranged(n, s, u)
      /\ InBlocks(n, s, w) => Pairing(n, s, w, n, t)
  <2>1. n \in 0..n
    OBVIOUS
  <2> QED BY <1>2, <2>1
<1>4. u \in Arrays(n)
  BY <1>3 DEF Pairings
<1> HIDE DEF t
<1>5. ASSUME Pairing(n, s, w, n, t), NEW m \in Nat
      PROVE  SortedWithin(n, u, (2 * w) * m, (2 * w) * m + 2 * w)
  <2>1. t.j \in Nat /\ t.j >= n - w
    BY <1>5 DEF Pairing, Pairings
  <2>2. PICK M \in Nat :
          /\ t.j = (2 * w) * M
          /\ \A i \in Nat : i < M => SortedWithin(n, u, (2 * w) * i, (2 * w) * i + 2 * w)
          /\ \A i \in Nat : 2 * M <= i => SortedWithin(n, u, w * i, w * i + w)
    BY <1>5 DEF Pairing
  <2> DEFINE j == t.j
  <2> HIDE DEF u
  <2>3. CASE m < M
    BY <2>2, <2>3
  <2>4. CASE m = M
    <3>1. SortedWithin(n, u, j, j + w)
      <4>1. SortedWithin(n, u, w * (2 * M), w * (2 * M) + w)
        BY <2>2
      <4> QED BY <2>2, <4>1, Multiples
    <3>2. SortedWithin(n, u, j, j + 2 * w)
      BY <2>1, <3>1 DEF SortedWithin
    <3> QED BY <2>2, <2>4, <3>2
  <2>5. CASE M < m
    <3> DEFINE lo == (2 * w) * m
    <3>1. j + 2 * w <= lo /\ lo \in Nat
      BY <2>2, <2>5, Multiples
    <3> HIDE DEF lo
    <3>2. SortedWithin(n, u, lo, lo + 2 * w)
      BY <2>1, <3>1 DEF SortedWithin
    <3> QED BY <3>2 DEF lo
  <2> QED BY <2>3, <2>4, <2>5
<1> QED BY <1>1, <1>3, <1>4, <1>5 DEF InBlocks, t

\* A turn of the outer loop.
Doubled(n, t) == IF t.i < n THEN [arr |-> MergedInPairs(t.arr, t.i), i |-> 2 * t.i] ELSE t

Doublings(n) == [arr : Arrays(n), i : Nat \ {0}]

\* After k turns the width is above k, or the array is one block.
Doubling(n, s, k, t) ==
    /\ t \in Doublings(n) /\ Rearranged(n, s, t.arr)
    /\ InBlocks(n, t.arr, t.i)
    /\ t.i >= n \/ t.i > k

\* A turn leaves an array and a width.
LEMMA DoubledTyped ==
    ASSUME NEW n \in Nat, NEW t \in Doublings(n) PROVE Doubled(n, t) \in Doublings(n)
<1> DEFINE u == MergedInPairs(t.arr, t.i)
<1>1. t.arr \in Arrays(n) /\ t.i \in Nat \ {0} /\ 2 * t.i \in Nat \ {0}
  BY DEF Doublings
<1>2. u \in Arrays(n)
  BY <1>1, PairsSorted
<1> HIDE DEF u
<1>3. [arr |-> u, i |-> 2 * t.i] \in Doublings(n)
  BY <1>1, <1>2 DEF Doublings
<1> QED BY <1>3 DEF Doubled, u

\* A turn doubles the width up to which the array is in order.
LEMMA DoubledOn ==
    ASSUME NEW n \in Nat, NEW s, NEW k \in 1..n, NEW t, Doubling(n, s, k - 1, t)
    PROVE  Doubling(n, s, k, Doubled(n, t))
<1> DEFINE u == MergedInPairs(t.arr, t.i)
           v == Doubled(n, t)
<1>1. /\ t \in Doublings(n) /\ Rearranged(n, s, t.arr)
      /\ InBlocks(n, t.arr, t.i)
      /\ t.i >= n \/ t.i > k - 1
      /\ t.arr \in Arrays(n) /\ t.i \in Nat \ {0}
  BY DEF Doubling, Doublings
<1>2. CASE t.i < n
  <2>1. u \in Arrays(n) /\ Rearranged(n, t.arr, u) /\ InBlocks(n, u, 2 * t.i)
    BY <1>1, PairsSorted
  <2>2. v = [arr |-> u, i |-> 2 * t.i]
    BY <1>2 DEF Doubled
  <2> HIDE DEF u
  <2>3. v.arr = u /\ v.i = 2 * t.i
    BY <2>2
  <2>4. v \in Doublings(n)
    BY <1>1, DoubledTyped
  <2> HIDE DEF v
  <2>5. Rearranged(n, s, u)
    BY <1>1, <2>1, RearrangedAgain
  <2>6. v.i > k
    BY <1>1, <1>2, <2>3
  <2>7. Doubling(n, s, k, v)
    BY <2>1, <2>3, <2>4, <2>5, <2>6 DEF Doubling
  <2> QED BY <2>7 DEF v
<1>3. CASE ~(t.i < n)
  <2>1. Doubled(n, t) = t /\ t.i >= n
    BY <1>1, <1>3 DEF Doubled
  <2>2. Doubling(n, s, k, t)
    BY <1>1, <2>1 DEF Doubling
  <2> QED BY <2>1, <2>2, Zenon
<1> QED BY <1>2, <1>3

\* alg_merge_sort returns the elements of any array of integers in order.
THEOREM MergeSortSorts ==
    ASSUME NEW n \in Nat, NEW s \in Arrays(n)
    PROVE  alg_merge_sort(s) \in Arrays(n) /\ SortOf(s, alg_merge_sort(s))
<1> DEFINE V == Doublings(n)
           base == [arr |-> s, i |-> 1]
           D(t) == Doubled(n, t)
           step == [q \in (1..n) \X V |-> D(q[2])]
           Is(u) == u = [k \in 0..n |-> IF k = 0 THEN base ELSE D(u[k - 1])]
<1>1. base \in V /\ base.arr = s /\ base.i = 1
  BY DEF Doublings
<1>2. \A k \in 1..n, t \in V : step[<<k, t>>] = D(t)
  OBVIOUS
<1>3. step \in [(1..n) \X V -> V]
  <2>1. \A t \in V : D(t) \in V
    BY DoubledTyped
  <2> HIDE DEF D, V
  <2> QED BY <2>1
<1> HIDE DEF step, base
<1>4. PICK g : Loops(g, n, V, base, step)
  <2> HIDE DEF V
  <2> QED BY <1>1, <1>3, LoopExists
<1>5. Is(g)
  <2>1. ASSUME NEW k \in 0..n, k # 0 PROVE g[k] = D(g[k - 1])
    <3> HIDE DEF V, D
    <3>1. k \in 1..n /\ g[k - 1] \in V
      BY <2>1, <1>4 DEF Loops
    <3> QED BY <1>2, <1>4, <3>1 DEF Loops
  <2> HIDE DEF D, V
  <2> QED BY <1>4, <2>1 DEF Loops
<1> DEFINE f == CHOOSE u : Is(u)
<1>6. Is(f)
  <2> HIDE DEF Is
  <2> QED BY <1>5
<1>7. alg_merge_sort(s) = f[n].arr
  <2>1. Len(s) = n
    BY DEF Arrays
  <2> QED BY <2>1, Zenon DEF alg_merge_sort, Doubled, base
<1> HIDE DEF f
<1>8. f[0] = base /\ \A k \in 1..n : f[k] = D(f[k - 1])
  <2> HIDE DEF D
  <2> QED BY <1>6
<1> DEFINE T == {k \in 0..n : Doubling(n, s, k, f[k])}
<1>9. 0..n \subseteq T
  <2>1. 0 \in T
    <3>1. \A m \in Nat : 1 * m = m
      OBVIOUS
    <3>2. InBlocks(n, s, 1)
      BY <3>1 DEF InBlocks, SortedWithin
    <3> QED BY <1>1, <1>8, <3>2, RearrangedSelf DEF Doubling
  <2>2. ASSUME NEW k \in 1..n, k - 1 \in T PROVE k \in T
    <3>1. f[k] = Doubled(n, f[k - 1])
      BY <1>8
    <3>2. Doubling(n, s, k, f[k])
      BY <2>2, <3>1, DoubledOn
    <3> QED BY <3>2
  <2> HIDE DEF T
  <2> QED BY <2>1, <2>2, LoopInvariant
<1> DEFINE t == f[n]
<1>10. Doubling(n, s, n, t)
  BY <1>9
<1> HIDE DEF t
<1>11. t.arr \in Arrays(n) /\ Rearranged(n, s, t.arr) /\ t.i \in Nat /\ t.i >= n
  BY <1>10 DEF Doubling, Doublings
<1>12. Sorted(t.arr, 0, n)
  <2>1. t.i * 0 = 0
    BY <1>11
  <2>2. SortedWithin(n, t.arr, t.i * 0, t.i * 0 + t.i)
    BY <1>10 DEF Doubling, InBlocks
  <2>3. SortedWithin(n, t.arr, 0, t.i)
    BY <1>11, <2>1, <2>2
  <2> QED BY <1>11, <2>3 DEF SortedWithin, Sorted
<1>13. SortOf(s, t.arr)
  BY <1>11, <1>12, RearrangedIsPermutation, SortedIsAscending DEF SortOf
<1> QED BY <1>7, <1>11, <1>13 DEF t

-----------------------------------------------------------------------------
(* The vector is a stack *)

\* Every cell can be compared: it holds an element, poison or what nobody wrote.
CellsHoldIntegers == \A i \in 0..capacity-1 : arr[i] \in Int

\* A moved array holds integers, in its new cells too.
LEMMA IntegersAdded ==
    ASSUME Shape, CellsHoldIntegers, NEW n \in Nat
    PROVE  \A i \in 0..n-1 : Moved(arr, n)[i] \in Int
<1>1. Unused \in Int
  BY VectorAssumption DEF Unused, Unread
<1> QED BY <1>1 DEF Moved, Cells, CellsHoldIntegers

\* The elements are an array of integers, and their number is len.
LEMMA ElementsAreIntegers ==
    ASSUME Shape, CellsHoldIntegers PROVE Elements \in Arrays(len) /\ len \in Nat
<1>1. \A i \in 1..len : i - 1 \in 0..capacity-1
  BY DEF Shape
<1> QED BY <1>1 DEF Elements, Content, CellsHoldIntegers, Arrays, Shape

\* A refused call changes no cell.
LEMMA RefusedIntegers ==
    ASSUME CellsHoldIntegers, NEW e, Refused(e) PROVE CellsHoldIntegers'
BY DEF Refused, memory, fields, CellsHoldIntegers

\* Whatever is called or written, cells hold integers.
LEMMA IntegersKept ==
    ASSUME IInv, IInv', CellsHoldIntegers, [Next]_vars PROVE CellsHoldIntegers'
<1>1. capacity \in Nat /\ capacity' \in Nat /\ len \in 0..capacity /\ Unused \in Int
      /\ arr = [i \in 0..capacity-1 |-> arr[i]] /\ Shape
  BY VectorAssumption DEF IInv, Shape, Unused, Unread
<1>2. CASE UNCHANGED <<arr, capacity>>
  BY <1>2 DEF CellsHoldIntegers
<1>3. CASE \E e : Refused(e)
  BY <1>3, RefusedIntegers
<1>4. ASSUME NEW n \in Nat, capacity' = n, arr' = Moved(arr, n)
      PROVE  CellsHoldIntegers'
  BY <1>1, <1>4, IntegersAdded DEF CellsHoldIntegers
<1>5. ASSUME NEW n \in Nat, NEW j, NEW v \in Int, capacity' = n,
             arr' = [Moved(arr, n) EXCEPT ![j] = v]
      PROVE  CellsHoldIntegers'
  <2> DEFINE moved == Moved(arr, n)
  <2>1. \A i \in 0..n-1 : moved[i] \in Int
    BY <1>1, IntegersAdded
  <2>2. DOMAIN moved = 0..n-1
    BY DEF Moved
  <2> HIDE DEF moved
  <2>3. \A i \in 0..n-1 : arr'[i] = moved[i] \/ arr'[i] = v
    BY <1>5, <2>2 DEF moved
  <2> QED BY <1>5, <2>1, <2>3 DEF CellsHoldIntegers
<1>6. ASSUME NEW j, NEW v \in Int, capacity' = capacity, arr' = [arr EXCEPT ![j] = v]
      PROVE  CellsHoldIntegers'
  <2>1. \A i \in 0..capacity-1 : arr'[i] = arr[i] \/ arr'[i] = v
    BY <1>1, <1>6
  <2> QED BY <1>6, <2>1 DEF CellsHoldIntegers
<1>7. CASE pvector_init \/ pvector_destroy
  BY <1>7 DEF pvector_init, pvector_destroy, CellsHoldIntegers
<1>8. ASSUME NEW f, pvector_set_flags(f) PROVE CellsHoldIntegers'
  BY <1>2, <1>3, <1>8 DEF pvector_set_flags, Verified
<1>9. ASSUME NEW d, pvector_set_element_destructor(d) PROVE CellsHoldIntegers'
  BY <1>2, <1>9 DEF pvector_set_element_destructor
<1>10. ASSUME NEW n \in Nat, pvector_set_capacity(n) PROVE CellsHoldIntegers'
  <2>1. CapacityFor(n) \in Nat
    BY VectorAssumption DEF CapacityFor
  <2> QED BY <1>3, <1>4, <1>10, <2>1 DEF pvector_set_capacity, Verified, Resized
<1>11. ASSUME NEW v \in Values, pvector_push_back(v) PROVE CellsHoldIntegers'
  <2>1. v \in Int
    BY VectorAssumption
  <2>2. (\E e : Refused(e)) \/ arr' = [Moved(arr, capacity') EXCEPT ![len] = v]
    BY <1>11 DEF pvector_push_back, Verified
  <2> QED BY <1>1, <1>3, <1>5, <2>1, <2>2
<1>12. CASE pvector_pop_back
  <2>1. \/ \E e : Refused(e)
        \/ Resized(len - 1) /\ arr' = Moved(arr, len - 1)
        \/ UNCHANGED capacity /\ arr' = [arr EXCEPT ![len - 1] = Unused]
    BY <1>12 DEF pvector_pop_back, Verified
  <2>2. CASE Resized(len - 1) /\ arr' = Moved(arr, len - 1)
    BY <1>1, <1>4, <2>2 DEF Resized
  <2> QED BY <1>1, <1>3, <1>6, <2>1, <2>2
<1>13. CASE pvector_clone
  <2>1. (\E e : Refused(e)) \/ (capacity' = len /\ arr' = [i \in 0..len-1 |-> arr[i]])
    BY <1>13 DEF pvector_clone, Verified
  <2>2. \A i \in 0..len-1 : i \in 0..capacity-1
    BY <1>1
  <2> QED BY <1>3, <2>1, <2>2 DEF CellsHoldIntegers
<1>14. ASSUME NEW i, pvector_get(i) PROVE CellsHoldIntegers'
  BY <1>2, <1>3, <1>14 DEF pvector_get, Verified, memory, fields
<1>15. CASE pvector_empty
  <2>1. capacity' = capacity /\ arr' = [i \in 0..capacity-1 |-> Unused]
    BY <1>15 DEF pvector_empty, Cells
  <2> QED BY <1>1, <2>1 DEF CellsHoldIntegers
<1>16. CASE pvector_sort
  <2>1. CASE Refused({"ALLOCATION"})
    BY <1>3, <2>1
  <2>2. ASSUME NEW sorted \in {alg_merge_sort(Elements), alg_bubble_sort(Elements)},
               arr' = [i \in Cells |-> IF i < len THEN sorted[i + 1] ELSE arr[i]],
               UNCHANGED fields
        PROVE  CellsHoldIntegers'
    <3>1. sorted \in Arrays(len)
      BY <1>1, ElementsAreIntegers, BubbleSortSorts, MergeSortSorts
    <3>2. \A i \in 0..capacity-1 : i < len => i + 1 \in 1..len
      BY <1>1
    <3> QED BY <1>1, <2>2, <3>1, <3>2 DEF CellsHoldIntegers, Cells, fields, Arrays
  <2> QED BY <1>16, <2>1, <2>2 DEF pvector_sort
<1>17. CASE StrayWrite
  <2>1. \/ \E j \in GuardedPlaces, v \in Values : arr' = [arr EXCEPT ![j] = v]
        \/ arr' = arr
    BY <1>17 DEF StrayWrite
  <2>2. capacity' = capacity
    BY <1>17 DEF StrayWrite
  <2>3. \A v \in Values : v \in Int
    BY VectorAssumption
  <2> QED BY <1>2, <1>6, <2>1, <2>2, <2>3
<1>18. CASE UNCHANGED vars
  BY <1>2, <1>18 DEF vars, memory, fields
<1> QED BY <1>7, <1>8, <1>9, <1>10, <1>11, <1>12, <1>13, <1>14, <1>15, <1>16, <1>17, <1>18,
           VectorAssumption DEF Next

\* Both invariants hold throughout.
LEMMA AlwaysIntegers == Spec => [](IInv /\ CellsHoldIntegers)
<1>1. ASSUME Init PROVE CellsHoldIntegers
  BY <1>1 DEF Init, CellsHoldIntegers
<1>2. ASSUME IInv, IInv', CellsHoldIntegers, [Next]_vars PROVE CellsHoldIntegers'
  BY <1>2, IntegersKept
<1> QED BY <1>1, <1>2, Inductive, PTL DEF Spec

\* A refused call reports it and leaves the elements.
LEMMA RefusedRefuses ==
    ASSUME NEW e, e # {}, Refused(e) PROVE Stack_!Refuse
<1>1. arr' = arr /\ len' = len
  BY DEF Refused, memory, fields
<1>2. Elements' = Elements
  BY <1>1 DEF Elements, Content
<1> QED BY <1>2 DEF Refused, Stack_!Refuse

\* A call that succeeds and leaves the elements is a look.
LEMMA SameElements ==
    ASSUME ret' = {}, Elements' = Elements, strayed' = strayed PROVE Stack_!Look
BY DEF Stack_!Look

\* So does one that the verification refuses.
LEMMA VerdictRefuses ==
    ASSUME Verdict # {}, Refused(Verdict) PROVE Stack_!Refuse
BY RefusedRefuses

\* What sorted means is the same on both sides.
LEMMA SameSortOf ==
    ASSUME NEW s, NEW t, SortOf(s, t) PROVE Stack_!SortOf(s, t)
<1>1. \A S : Stack_!Cardinality(S) = Cardinality(S)
  BY DEF Stack_!Cardinality, Cardinality
<1>2. IsPermutation(s, t) => Stack_!IsPermutation(s, t)
  BY <1>1 DEF IsPermutation, Stack_!IsPermutation
<1> QED BY <1>2 DEF SortOf, Ascending, Stack_!SortOf, Stack_!Ascending

\* Every step of the vector is one of the stack, or none.
LEMMA StepsOfTheStack ==
    ASSUME IInv, IInv', CellsHoldIntegers, [Next]_vars
    PROVE  [Stack_!Next]_<<Elements, ret = {}, strayed>>
<1>1. /\ capacity \in Nat /\ len \in 0..capacity /\ len \in Nat /\ Shape
      /\ arr = [i \in 0..capacity-1 |-> arr[i]]
  BY DEF IInv, Shape
<1>2. \A e : e # {} /\ Refused(e) => Stack_!Next
  BY RefusedRefuses DEF Stack_!Next
<1>3. Verdict # {} /\ Refused(Verdict) => Stack_!Next
  BY <1>2
<1>4. ASSUME ret' = {}, Elements' = Elements, strayed' = strayed PROVE Stack_!Next
  BY <1>4, SameElements DEF Stack_!Next
<1>5. ASSUME ret' = {}, len' = 0, strayed' = strayed PROVE Stack_!Next
  <2>1. Elements' = <<>>
    BY <1>5 DEF Elements, Content
  <2> QED BY <1>5, <2>1 DEF Stack_!Next, Stack_!Clear
<1>6. ASSUME len > 0, len' = len - 1, \A i \in 0..(len - 1)-1 : arr'[i] = arr[i], strayed' = strayed
      PROVE  Stack_!Next
  <2>0. len - 1 \in Nat
    BY <1>1, <1>6
  <2>1. Content(arr', len - 1) = Content(arr, len - 1)
    BY <1>6, <2>0, ContentEq
  <2>2. Len(Elements) = len /\ Len(Elements) > 0
    BY <1>1, <1>6, ContentIsSeq DEF Elements
  <2>3. SubSeq(Elements, 1, len - 1) = Content(arr, len - 1)
    <3>1. \A i \in 1..len - 1 : Elements[i] = arr[i - 1]
      BY <1>1 DEF Elements, Content
    <3>2. \E S : Elements \in Seq(S)
      <4>1. Elements \in [1..len -> {arr[i - 1] : i \in 1..len}]
        BY DEF Elements, Content
      <4> QED BY <1>1, <4>1
    <3>3. SubSeq(Elements, 1, len - 1) = [i \in 1..len - 1 |-> Elements[i]]
      BY <1>1, <1>6, <2>2, <3>2
    <3> QED BY <3>1, <3>3 DEF Content
  <2>4. Elements' = SubSeq(Elements, 1, Len(Elements) - 1)
    BY <1>6, <2>1, <2>2, <2>3 DEF Elements
  <2> QED BY <1>6, <2>2, <2>4 DEF Stack_!Next, Stack_!Pop
<1>7. ASSUME ret' = {}, len' = len + 1, \A i \in 0..len-1 : arr'[i] = arr[i], strayed' = strayed
      PROVE  Stack_!Next
  <2>1. Content(arr', len) = Elements
    BY <1>1, <1>7, ContentEq DEF Elements
  <2>2. len + 1 \in Nat /\ Len(Elements) = len /\ Len(Elements') = len + 1
    BY <1>1, <1>7, ContentIsSeq DEF Elements
  <2>3. SubSeq(Elements', 1, len) = Content(arr', len)
    <3> DEFINE w == Content(arr', len + 1)
    <3>1. \A i \in 1..len : w[i] = arr'[i - 1]
      BY <1>1 DEF Content
    <3>2. \E S : w \in Seq(S)
      <4> DEFINE S == {arr'[i - 1] : i \in 1..len + 1}
      <4>1. w \in [1..len + 1 -> S]
        BY DEF Content
      <4> HIDE DEF w, S
      <4> QED BY <1>1, <4>1
    <3>3. Len(w) = len + 1 /\ w = Elements'
      BY <1>7, <2>2, ContentIsSeq DEF Elements
    <3> HIDE DEF w
    <3>4. SubSeq(w, 1, len) = [i \in 1..len |-> w[i]]
      BY <1>1, <3>2, <3>3
    <3> QED BY <3>1, <3>3, <3>4 DEF Content
  <2> QED BY <1>7, <2>1, <2>2, <2>3 DEF Stack_!Next, Stack_!Push
<1>8. CASE pvector_init \/ pvector_destroy
  BY <1>5, <1>8 DEF pvector_init, pvector_destroy
<1>9. ASSUME NEW f, pvector_set_flags(f) PROVE Stack_!Next
  <2>1. \/ Verdict # {} /\ Refused(Verdict)
        \/ Refused({"INVALID_ARG"})
        \/ ret' = {} /\ arr' = arr /\ len' = len /\ strayed' = strayed
    BY <1>9 DEF pvector_set_flags, Verified, Adopted
  <2> QED BY <1>2, <1>3, <1>4, <2>1 DEF Elements, Content
<1>10. ASSUME NEW d, pvector_set_element_destructor(d) PROVE Stack_!Next
  <2>1. ret' = {} /\ arr' = arr /\ len' = len /\ strayed' = strayed
    BY <1>10 DEF pvector_set_element_destructor
  <2> QED BY <1>4, <2>1 DEF Elements, Content
<1>11. ASSUME NEW n \in Nat, pvector_set_capacity(n) PROVE Stack_!Next
  <2>1. \/ Verdict # {} /\ Refused(Verdict)
        \/ Refused({"INVALID_ARG"}) \/ Refused({"ALLOCATION"})
        \/ /\ n >= len /\ arr' = Moved(arr, CapacityFor(n)) /\ len' = len
           /\ ret' = {} /\ strayed' = strayed
    BY <1>11 DEF pvector_set_capacity, Verified, Adopted
  <2>2. CapacityFor(n) \in Nat /\ (n >= len => CapacityFor(n) >= len)
    BY <1>1, VectorAssumption DEF CapacityFor
  <2>3. n >= len => Content(Moved(arr, CapacityFor(n)), len) = Elements
    BY <1>1, <2>2, MovedCells
  <2> QED BY <1>2, <1>3, <1>4, <2>1, <2>3 DEF Elements
<1>12. ASSUME NEW v, pvector_push_back(v) PROVE Stack_!Next
  <2>1. \/ Verdict # {} /\ Refused(Verdict)
        \/ Refused({"POISONED"}) \/ Refused({"ALLOCATION"})
        \/ /\ arr' = [Moved(arr, capacity') EXCEPT ![len] = v] /\ len' = len + 1
           /\ ret' = {} /\ strayed' = strayed
    BY <1>12 DEF pvector_push_back, Verified, Adopted
  <2>2. ASSUME arr' = [Moved(arr, capacity') EXCEPT ![len] = v], len' = len + 1
        PROVE  \A i \in 0..len-1 : arr'[i] = arr[i]
    <3>1. capacity' \in Nat /\ len <= capacity'
      BY <1>1, <2>2 DEF IInv, Shape
    <3>2. /\ \A i \in 0..len-1 : Moved(arr, capacity')[i] = arr[i]
          /\ DOMAIN Moved(arr, capacity') = 0..capacity'-1
      BY <1>1, <3>1, MovedCells DEF Moved
    <3>3. \A i \in 0..len-1 : i \in 0..capacity'-1 /\ i # len
      BY <1>1, <3>1
    <3> QED BY <2>2, <3>2, <3>3
  <2> QED BY <1>2, <1>3, <1>7, <2>1, <2>2
<1>13. CASE pvector_pop_back
  <2>1. \/ Verdict # {} /\ Refused(Verdict)
        \/ Refused({"INVALID_STATE"})
        \/ /\ len > 0 /\ len' = len - 1 /\ strayed' = strayed
           /\ arr' = Moved(arr, len - 1) \/ arr' = [arr EXCEPT ![len - 1] = Unused]
    BY <1>13 DEF pvector_pop_back, Verified, Adopted
  <2>2. ASSUME len > 0, arr' = Moved(arr, len - 1) \/ arr' = [arr EXCEPT ![len - 1] = Unused]
        PROVE  \A i \in 0..(len - 1)-1 : arr'[i] = arr[i]
    <3>1. \A i \in 0..(len - 1)-1 : i \in 0..(len - 1)-1 /\ i \in 0..capacity-1 /\ i # len - 1
      BY <1>1, <2>2
    <3> QED BY <1>1, <2>2, <3>1 DEF Moved, Cells
  <2> QED BY <1>2, <1>3, <1>6, <2>1, <2>2
<1>14. CASE pvector_clone
  <2>1. \/ Verdict # {} /\ Refused(Verdict)
        \/ Refused({"ALLOCATION"})
        \/ /\ arr' = [i \in 0..len-1 |-> arr[i]] /\ len' = len
           /\ ret' = {} /\ strayed' = strayed
    BY <1>14 DEF pvector_clone, Verified, Adopted
  <2>2. ASSUME arr' = [i \in 0..len-1 |-> arr[i]], len' = len PROVE Elements' = Elements
    <3>1. \A i \in 0..len-1 : arr'[i] = arr[i]
      BY <2>2
    <3> QED BY <1>1, <2>2, <3>1, ContentEq DEF Elements
  <2> QED BY <1>2, <1>3, <1>4, <2>1, <2>2
<1>15. ASSUME NEW i, pvector_get(i) PROVE Stack_!Next
  <2>1. \/ Verdict # {} /\ Refused(Verdict)
        \/ /\ ret' = errorIf(i >= len, "INVALID_ARG")
           /\ arr' = arr /\ len' = len /\ strayed' = strayed
    BY <1>15 DEF pvector_get, Verified, memory, fields
  <2>2. ASSUME ret' # {}, arr' = arr, len' = len, strayed' = strayed PROVE Stack_!Next
    <3>1. Elements' = Elements
      BY <2>2 DEF Elements, Content
    <3> QED BY <2>2, <3>1 DEF Stack_!Next, Stack_!Refuse
  <2> QED BY <1>3, <1>4, <2>1, <2>2 DEF Elements, Content
<1>16. CASE pvector_empty
  BY <1>5, <1>16 DEF pvector_empty, Adopted
<1>17. CASE pvector_sort
  <2>1. \/ Refused({"ALLOCATION"})
        \/ \E sorted \in {alg_merge_sort(Elements), alg_bubble_sort(Elements)} :
              /\ arr' = [i \in Cells |-> IF i < len THEN sorted[i + 1] ELSE arr[i]]
              /\ len' = len /\ ret' = {} /\ strayed' = strayed
    BY <1>17 DEF pvector_sort, Adopted, fields
  <2>2. ASSUME NEW sorted \in {alg_merge_sort(Elements), alg_bubble_sort(Elements)},
               arr' = [i \in Cells |-> IF i < len THEN sorted[i + 1] ELSE arr[i]],
               len' = len, ret' = {}, strayed' = strayed
        PROVE  Stack_!Next
    <3>1. sorted \in Arrays(len) /\ SortOf(Elements, sorted)
      BY <1>1, ElementsAreIntegers, BubbleSortSorts, MergeSortSorts
    <3>2. \A i \in 1..len : i - 1 \in Cells /\ i - 1 < len /\ (i - 1) + 1 = i
      BY <1>1 DEF Cells
    <3>3. \A i \in 1..len : arr'[i - 1] = sorted[i]
      BY <2>2, <3>2
    <3>4. Elements' = [i \in 1..len |-> sorted[i]]
      BY <2>2, <3>3 DEF Elements, Content
    <3>5. Elements' = sorted
      BY <3>1, <3>4 DEF Arrays
    <3>6. Stack_!SortOf(Elements, Elements')
      <4>1. Stack_!SortOf(Elements, sorted)
        BY <3>1, SameSortOf
      <4> QED BY <3>5, <4>1
    <3> QED BY <2>2, <3>6 DEF Stack_!Next, Stack_!Sort
  <2> QED BY <1>2, <2>1, <2>2
<1>18. CASE StrayWrite
  BY <1>18 DEF StrayWrite, Stack_!Next, Stack_!Scribble
<1>19. CASE UNCHANGED vars
  BY <1>19 DEF vars, memory, fields, Elements, Content
<1> QED BY <1>8, <1>9, <1>10, <1>11, <1>12, <1>13, <1>14, <1>15, <1>16, <1>17, <1>18, <1>19,
           VectorAssumption DEF Next

\* ImplementsElementStack: for all values, capacities, flags, orders of calls and
\* failing allocations the vector is the stack that its callers rely on.
THEOREM VectorIsAStack == Spec => ImplementsElementStack
<1>1. ASSUME Init PROVE Stack_!Init
  BY <1>1 DEF Init, Stack_!Init, Elements, Content
<1>2. ASSUME IInv, IInv', CellsHoldIntegers, [Next]_vars
      PROVE  [Stack_!Next]_<<Elements, ret = {}, strayed>>
  BY <1>2, StepsOfTheStack
<1> QED BY <1>1, <1>2, AlwaysIntegers, PTL DEF ImplementsElementStack, Stack_!Spec, Spec
=============================================================================
