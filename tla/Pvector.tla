------------------------------ MODULE Pvector ------------------------------
(***************************************************************************)
(* The growing array of stack/src/pvector.cpp, which checks itself at      *)
(* every call (hashes, canaries, poison), and of shared/src/pvector.cpp,   *)
(* the same code compiled without PVECTOR_DEBUG, with a few operations     *)
(* more.  Which of the two a behaviour runs is chosen at its start.        *)
(*                                                                         *)
(* A CRC is taken to tell any two contents apart: a hash is the content    *)
(* it was made of.  A canary is set or overwritten.  What an operation     *)
(* leaves beyond the last element is `Unused`.                             *)
(***************************************************************************)
EXTENDS Sorts

CONSTANTS
    Values,                  \* elements, as the comparator orders them
    Poison,                  \* the one whose bytes are all PVECTOR_DEBUG_POISON
    PVECTOR_INIT_CAPACITY,   \* 128 in the code
    MaxCapacity,             \* realloc of more elements than this always fails
    MaxLen, MaxHashed,       \* bounds: of elements pushed, and pushed or kept
                             \* while there is a hash of them
    Capacities               \* bound: what callers ask pvector_set_capacity for

ASSUME VectorAssumption ==
    /\ Values \subseteq Nat /\ Poison \in Values
    /\ PVECTOR_INIT_CAPACITY \in Nat \ {0}
    /\ MaxCapacity \in Nat /\ MaxLen \in Nat /\ MaxHashed \in 0..MaxLen
    /\ Capacities \subseteq Nat

VARIABLES
    debug,                   \* PVECTOR_DEBUG
    arr,                     \* the cells of the array: indexes 0..capacity-1
    allocated,               \* arr # NULL
    capacity, len, flags, element_destructor, arr_hash, struct_hash,
    canary,                  \* both canaries are as they were set
    ret,                     \* what the last call returned: {} is DS_OK
    given,                   \* what the last call handed to the destructor
    intended,                \* the elements, as the calls alone would have them
    strayed, hashStale       \* a stray write, a sort or an emptying has happened

fields == <<allocated, capacity, len, flags, element_destructor, arr_hash>>
memory == <<arr, fields, struct_hash, canary>>
vars == <<debug, memory, ret, given, intended, strayed, hashStale>>

CANARY == "FPVECTOR_USE_CANARY"
HASH == "FPVECTOR_USE_ARRAY_HASH"

\* A cell no element has been written to, where nothing poisons it.
Unread == -1
Unused == IF debug THEN Poison ELSE Unread

Cells == 0..capacity-1
Content(a, n) == [i \in 1..n |-> a[i - 1]]
Elements == Content(arr, len)

-----------------------------------------------------------------------------
(* Verification *)

errorIf(b, e) == IF b THEN {e} ELSE {}

ShapeErrors ==
    errorIf(len > capacity, "STRUCT_CORRUPT")
      \cup errorIf(capacity # 0 /\ ~allocated, "INVALID_POINTER")

\* Faulty: the elements are not compared with their hash.
ContentErrors_unhashed ==
    errorIf(CANARY \in flags /\ allocated /\ ~canary, "CANARY_CORRUPT")
      \cup errorIf(debug /\ \E i \in len..capacity-1 : arr[i] # Poison, "POISONED")

\* What is looked at only if the shape allows to.
ContentErrors ==
    errorIf(CANARY \in flags /\ allocated /\ ~canary, "CANARY_CORRUPT")
      \cup errorIf(HASH \in flags /\ arr_hash # Elements, "ARRAY_HASH_CORRUPT")
      \cup errorIf(debug /\ \/ \E i \in 0..len-1 : arr[i] = Poison
                            \/ \E i \in len..capacity-1 : arr[i] # Poison,
                   "POISONED")

pvector_verify ==
    errorIf(struct_hash # fields, "STRUCT_HASH_CORRUPT")
      \cup ShapeErrors
      \cup (IF ShapeErrors = {} THEN ContentErrors ELSE {})

\* PVECTOR_VERIFY: nothing in the build without PVECTOR_DEBUG.
Verdict == IF debug THEN pvector_verify ELSE {}

-----------------------------------------------------------------------------
(* How a call ends *)

Refused(errors) ==
    /\ ret' = errors /\ given' = <<>>
    /\ UNCHANGED <<memory, intended, strayed, hashStale>>

pvector_rehash == struct_hash' = fields'

\* The vector's elements are now what the call has made of them.
Adopted == intended' = Content(arr', len') /\ UNCHANGED strayed

\* A call begins with PVECTOR_VERIFY_AND_RETURN.
Verified(call) ==
    \/ Verdict # {} /\ Refused(Verdict)
    \/ Verdict = {} /\ call

-----------------------------------------------------------------------------
(* Operations *)

\* pvector_init and PVECTOR_CREATE; the caller has nothing to lose.
pvector_init ==
    /\ ~allocated
    /\ allocated' = FALSE /\ capacity' = 0 /\ len' = 0
    /\ arr' = [i \in {} |-> Unread] /\ canary' = TRUE
    /\ flags' = IF debug THEN {CANARY, HASH} ELSE {}
    /\ element_destructor' = FALSE /\ arr_hash' = <<>>
    /\ pvector_rehash
    /\ ret' = {} /\ given' = <<>> /\ intended' = <<>>
    /\ strayed' = strayed /\ hashStale' = FALSE

pvector_set_flags(f) == Verified(
    \/ /\ allocated /\ (CANARY \in f) # (CANARY \in flags)
       /\ Refused({"INVALID_ARG"})
    \/ /\ allocated => (CANARY \in f <=> CANARY \in flags)
       /\ flags' = f
       /\ IF allocated /\ HASH \in f \ flags
          THEN arr_hash' = Elements /\ hashStale' = FALSE
          ELSE UNCHANGED <<arr_hash, hashStale>>
       /\ UNCHANGED <<arr, allocated, capacity, len, element_destructor, canary>>
       /\ pvector_rehash
       /\ ret' = {} /\ given' = <<>> /\ Adopted)

\* The one operation that does not verify.
pvector_set_element_destructor(d) ==
    /\ element_destructor' = d
    /\ UNCHANGED <<arr, allocated, capacity, len, flags, arr_hash, canary>>
    /\ pvector_rehash
    /\ ret' = {} /\ given' = <<>> /\ UNCHANGED <<intended, strayed, hashStale>>

\* The array is moved to n cells, its canaries are set, new cells are poisoned.
Resized(n) ==
    /\ n <= MaxCapacity
    /\ allocated' = TRUE /\ capacity' = n
    /\ canary' = (canary \/ CANARY \in flags)

\* Faulty: the new cells are not poisoned.
Moved_unpoisoned(a, n) ==
    [i \in 0..n-1 |-> IF i \in Cells THEN a[i] ELSE Unread]

Moved(a, n) == [i \in 0..n-1 |-> IF i \in Cells THEN a[i] ELSE Unused]

CapacityFor(n) == IF n = 0 THEN PVECTOR_INIT_CAPACITY ELSE n

pvector_set_capacity(n) == Verified(
    \/ n < len /\ Refused({"INVALID_ARG"})
    \/ n >= len /\ Refused({"ALLOCATION"})
    \/ /\ n >= len
       /\ Resized(CapacityFor(n))
       /\ arr' = Moved(arr, CapacityFor(n))
       /\ UNCHANGED <<len, flags, element_destructor, arr_hash, hashStale>>
       /\ pvector_rehash
       /\ ret' = {} /\ given' = <<>> /\ Adopted)

\* Faulty: the running hash of the elements is not extended.
ExtendedHash_not(v) == arr_hash

ExtendedHash(v) == IF HASH \in flags THEN Append(arr_hash, v) ELSE arr_hash

pvector_push_back(v) == Verified(
    \/ debug /\ v = Poison /\ Refused({"POISONED"})
    \/ (debug => v # Poison) /\ len >= capacity /\ Refused({"ALLOCATION"})
    \/ /\ debug => v # Poison
       /\ \/ len < capacity /\ UNCHANGED <<allocated, capacity, canary>>
          \/ len >= capacity /\ Resized(CapacityFor(capacity * 2))
       /\ arr' = [Moved(arr, capacity') EXCEPT ![len] = v]
       /\ len' = len + 1
       /\ arr_hash' = ExtendedHash(v)
       /\ UNCHANGED <<flags, element_destructor, hashStale>>
       /\ pvector_rehash
       /\ ret' = {} /\ given' = <<>> /\ Adopted)

ShouldShrink(n) == n < capacity \div 4 /\ n > PVECTOR_INIT_CAPACITY

\* The top is copied to the caller, its cell poisoned, and only then is the
\* cell given to the destructor.  A failure to shrink is the call's result.
pvector_pop_back == Verified(
    \/ len = 0 /\ Refused({"INVALID_STATE"})
    \/ /\ len > 0
       /\ len' = len - 1
       /\ arr_hash' = IF HASH \in flags THEN Content(arr, len - 1) ELSE arr_hash
       /\ \/ /\ ShouldShrink(len - 1)
             /\ Resized(len - 1) /\ arr' = Moved(arr, len - 1)
             /\ ret' = {}
          \/ /\ UNCHANGED <<allocated, capacity, canary>>
             /\ arr' = [arr EXCEPT ![len - 1] = Unused]
             /\ ret' = errorIf(ShouldShrink(len - 1), "ALLOCATION")
       /\ given' = IF ~element_destructor THEN <<>>
                   ELSE IF debug THEN <<Poison>> ELSE <<arr[len - 1]>>
       /\ UNCHANGED <<flags, element_destructor>>
       /\ hashStale' = (hashStale /\ HASH \notin flags)
       /\ pvector_rehash /\ Adopted)

\* Faulty: the memory goes without the destructor being called.
GivenAtDestruction_none == <<>>

GivenAtDestruction ==
    IF element_destructor /\ Verdict = {} THEN Elements ELSE <<>>

\* The vector of stack/ leaves the hash of the structure as it was, so that
\* later calls are refused; a corrupt vector's elements are not destroyed.
pvector_destroy ==
    /\ given' = GivenAtDestruction
    /\ allocated' = FALSE /\ capacity' = 0 /\ len' = 0
    /\ arr' = [i \in {} |-> Unread] /\ canary' = TRUE
    /\ flags' = {} /\ element_destructor' = FALSE /\ arr_hash' = <<>>
    /\ IF debug THEN UNCHANGED struct_hash ELSE pvector_rehash
    /\ ret' = {} /\ intended' = <<>>
    /\ strayed' = strayed /\ hashStale' = FALSE

\* The caller goes on with a clone in a zeroed structure, the original being
\* left to another.  The clone has no flags, and owns no elements.
pvector_clone == Verified(
    \/ Refused({"ALLOCATION"})
    \/ /\ len <= MaxCapacity
       /\ allocated' = TRUE /\ capacity' = len
       /\ arr' = [i \in 0..len-1 |-> arr[i]] /\ canary' = TRUE
       /\ flags' = {} /\ element_destructor' = FALSE
       /\ UNCHANGED <<len, arr_hash>>
       /\ pvector_rehash
       /\ ret' = {} /\ given' = <<>> /\ Adopted /\ UNCHANGED hashStale)

\* pvector_get, pvector_top and pvector_has: a pointer to an element, or none.
pvector_get(idx) == Verified(
    /\ ret' = errorIf(idx >= len, "INVALID_ARG") /\ given' = <<>>
    /\ UNCHANGED <<memory, intended, strayed, hashStale>>)

-----------------------------------------------------------------------------
(* What only shared/src/pvector.cpp has *)

\* No element is given to the destructor, and their hash is not touched.
pvector_empty ==
    /\ ~debug
    /\ len' = 0 /\ arr' = [i \in Cells |-> Unused]
    /\ UNCHANGED <<allocated, capacity, flags, element_destructor, arr_hash, canary>>
    /\ pvector_rehash
    /\ ret' = {} /\ given' = <<>> /\ Adopted /\ hashStale' = TRUE

\* pvector_merge_sort, which may fail to allocate and sorts nothing then, and
\* pvector_bubble_sort; pvector_quick_sort leaves the same.  They work on the
\* array behind the vector's back.
pvector_sort ==
    /\ ~debug /\ allocated
    /\ \/ Refused({"ALLOCATION"})
       \/ \E sorted \in {alg_merge_sort(Elements), alg_bubble_sort(Elements)} :
             /\ arr' = [i \in Cells |-> IF i < len THEN sorted[i + 1] ELSE arr[i]]
             /\ UNCHANGED <<fields, struct_hash, canary>>
             /\ ret' = {} /\ given' = <<>> /\ Adopted /\ hashStale' = TRUE

-----------------------------------------------------------------------------
(* Writes that are not the vector's: a neighbour's overflow, a pointer from   *)
(* pvector_get used too late.  Only the build that looks for them is followed. *)

\* Where the flags of the vector put a guard; the cells beyond are poisoned.
GuardedPlaces == (IF HASH \in flags THEN 0..len-1 ELSE {}) \cup len..capacity-1

StrayWrite ==
    /\ debug /\ allocated /\ Verdict = {}
    /\ \/ \E i \in GuardedPlaces, v \in Values :
             arr' = [arr EXCEPT ![i] = v] /\ UNCHANGED <<len, canary>>
       \/ /\ CANARY \in flags
          /\ canary' = FALSE /\ UNCHANGED <<arr, len>>
       \/ /\ len > 0
          /\ len' = len - 1 /\ UNCHANGED <<arr, canary>>
    /\ strayed' = TRUE
    /\ given' = <<>>
    /\ UNCHANGED <<allocated, capacity, flags, element_destructor, arr_hash,
                   struct_hash, ret, intended, hashStale>>

-----------------------------------------------------------------------------

Init ==
    /\ debug \in BOOLEAN
    /\ arr = [i \in {} |-> Unread] /\ allocated = FALSE
    /\ capacity = 0 /\ len = 0
    /\ flags = (IF debug THEN {CANARY, HASH} ELSE {})
    /\ element_destructor = FALSE
    /\ arr_hash = <<>> /\ struct_hash = fields
    /\ canary = TRUE
    /\ ret = {} /\ given = <<>> /\ intended = <<>>
    /\ strayed = FALSE /\ hashStale = FALSE

LengthBound ==
    IF arr_hash = <<>> /\ HASH \notin flags THEN MaxLen
    ELSE IF Len(arr_hash) < MaxHashed THEN MaxHashed ELSE 0

Next ==
    /\ UNCHANGED debug
    /\ \/ pvector_init
       \/ len <= MaxHashed /\ \E f \in SUBSET {CANARY, HASH} : pvector_set_flags(f)
       \/ \E d \in BOOLEAN : pvector_set_element_destructor(d)
       \/ \E n \in Capacities : pvector_set_capacity(n)
       \/ len < LengthBound /\ \E v \in Values : pvector_push_back(v)
       \/ pvector_pop_back
       \/ pvector_destroy
       \/ pvector_clone
       \/ \E i \in 0..len : pvector_get(i)
       \/ pvector_empty
       \/ pvector_sort
       \/ StrayWrite

Spec == Init /\ [][Next]_vars

-----------------------------------------------------------------------------
(* Properties *)

\* Whatever was called in whatever order, with growths and shrinkings failing
\* or not, pvector_verify finds fault with no vector that the calls alone have
\* made, except: one of stack/ that was destroyed (its structure is not hashed
\* again), and the array hash after a sort or an emptying.
SoundAccepted ==
    ~strayed => pvector_verify \subseteq
        errorIf(debug /\ ~allocated, "STRUCT_HASH_CORRUPT")
          \cup errorIf(~debug /\ hashStale, "ARRAY_HASH_CORRUPT")

\* test_pvector.cpp writes through arr behind the vector's back and expects
\* DS_ARRAY_HASH_CORRUPT.  So for every write to a guarded place, and whatever
\* is called between the write and the verification: a vector of stack/ that
\* verifies holds what the calls put there, between its canaries.
AcceptedIsIntact ==
    debug /\ pvector_verify = {} =>
        Elements = intended /\ (CANARY \in flags => canary)

\* The elements a vector owns leave it through the destructor, each once, and
\* only pvector_empty of shared/ drops them.  The destructor is given what they
\* were, with one exception: what pvector_pop_back of stack/ takes off (the array
\* stays, unlike in pvector_destroy) the destructor finds poisoned.
ElementsHandedOver ==
    [][/\ given' # <<>> =>
            /\ element_destructor
            /\ Len(given') = len - len'
            /\ given' = IF debug /\ allocated' THEN <<Poison>>
                        ELSE SubSeq(Elements, len' + 1, len)
       /\ element_destructor /\ len' < len /\ ~strayed' =>
            given' # <<>> \/ (~debug /\ allocated' /\ len' = 0 /\ hashStale')]_vars

Stack_ == INSTANCE ElementStack WITH items <- Elements, ok <- ret = {}

\* The array implements the stack that its callers rely on, sorts included.
ImplementsElementStack == Stack_!Spec
=============================================================================
