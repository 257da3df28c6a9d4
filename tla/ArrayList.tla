----------------------------- MODULE ArrayList -----------------------------
(***************************************************************************)
(* The array-backed doubly linked list of shared/src/list.cpp (and its     *)
(* copy x86_64_hashtable/src/list.c).  Nodes live in one growing array;    *)
(* node LIST_ROOT_EL is the sentinel of a ring; a dropped node is marked   *)
(* prev = LIST_PREV_FREE and pushed on a LIFO free list threaded through   *)
(* next.  list_linearize is the subject of the module ListLinearize.       *)
(*                                                                         *)
(* The node array is kept as one function per field, defined only on the   *)
(* indexes the code has initialised, 0..used_capacity-1 (value, which the  *)
(* sentinel does not have, on 1..used_capacity-1): the specification       *)
(* cannot read memory the program has not written.                         *)
(***************************************************************************)
EXTENDS Integers, Sequences, FiniteSets

CONSTANTS
    Values,             \* list_dtype
    INITIAL_CAPACITY,   \* 128 in the code
    MaxCapacity         \* realloc of more nodes than this always fails

ASSUME CapacityAssumption ==
    /\ INITIAL_CAPACITY \in Nat /\ INITIAL_CAPACITY >= 2
    /\ MaxCapacity \in Nat

LIST_ROOT_EL == 0
LIST_PREV_FREE == -1

VARIABLES
    array,              \* the pointer: "null", "held" (a block of the heap),
                        \* or "freed" (it still names a block given back)
    next, prev, value,  \* the fields of array[0..used_capacity-1]
    capacity, used_capacity, list_free_head,
    constructed,        \* between list_ctor and list_dtor
    ret                 \* what the last call returned

list == <<array, next, prev, value, capacity, used_capacity, list_free_head>>
vars == <<list, constructed, ret>>

\* "undefined" is no answer: the program has no defined next step.
Errors == {"DS_OK", "DS_ALLOCATION", "DS_INVALID_ARG",
           "DS_LIST_CONNECTIVITY_CORRUPT", "undefined"}

-----------------------------------------------------------------------------
(* The shape of the array *)

Nodes == 0..used_capacity-1
Linked == {i \in Nodes : prev[i] # LIST_PREV_FREE}
Free == Nodes \ Linked

\* A pointer field of an array that holds nothing, or only the sentinel.
NoNodes == [i \in {} |-> LIST_ROOT_EL]
RootOnly == [i \in {LIST_ROOT_EL} |-> LIST_ROOT_EL]

\* A list whose first capacity was 0: it has a block, and in it no sentinel.
Nodeless == array = "held" /\ used_capacity = 0

-----------------------------------------------------------------------------
(* Operations *)

Reset ==
    /\ next' = NoNodes /\ prev' = NoNodes /\ value' = <<>>
    /\ capacity' = 0 /\ used_capacity' = 0
    /\ list_free_head' = LIST_ROOT_EL
    /\ ret' = "DS_OK"

list_ctor == ~constructed /\ Reset /\ constructed' = TRUE /\ array' = "null"

\* free(NULL) does nothing.  The pointer is left as it is: the protocol of the
\* callers is that only list_ctor may follow.
list_dtor ==
    /\ constructed /\ array # "freed"
    /\ Reset
    /\ constructed' = FALSE
    /\ array' = IF array = "null" THEN "null" ELSE "freed"

\* What realloc(capacity * sizeof(list_node_t)) may do: it may always fail.
\* Of no bytes at all it makes a block where there was none, and gives back
\* the one there was, for which its answer is NULL (the C library of the build).
CanAllocate(n) == n <= MaxCapacity
GivesBack(n) == n = 0 /\ array = "held"

\* The array after list_set_capacity: the first nodes have the sentinel before
\* them.
Sized(n) ==
    /\ capacity' = n /\ array' = "held"
    /\ IF capacity = 0 /\ n > 0
       THEN /\ next' = RootOnly /\ prev' = RootOnly
            /\ used_capacity' = 1
       ELSE UNCHANGED <<next, prev, used_capacity>>
    /\ UNCHANGED value

\* Faulty: the array may be cut below the nodes in use.
list_set_capacity_unchecked(n) ==
    /\ constructed /\ array # "freed"
    /\ UNCHANGED <<constructed, list_free_head>>
    /\ CanAllocate(n) /\ ~GivesBack(n) /\ ret' = "DS_OK" /\ Sized(n)

list_set_capacity(n) ==
    /\ constructed /\ array # "freed"
    /\ UNCHANGED <<constructed, list_free_head>>
    /\ \/ /\ n < used_capacity
          /\ ret' = "DS_INVALID_ARG"
          /\ UNCHANGED list
       \/ /\ n >= used_capacity
          /\ ret' = "DS_ALLOCATION"
          /\ array' = IF GivesBack(n) THEN "freed" ELSE array
          /\ UNCHANGED <<next, prev, value, capacity, used_capacity>>
       \/ /\ n >= used_capacity /\ CanAllocate(n) /\ ~GivesBack(n)
          /\ ret' = "DS_OK"
          /\ Sized(n)

\* list_increment_capacity: the capacity asked for when the array is full.
IncrementedCapacity ==
    IF capacity * 2 < INITIAL_CAPACITY THEN INITIAL_CAPACITY ELSE capacity * 2

\* find_free_ptr followed by the splice of list_insert: node n, either a free
\* node or the one just after the used part, is linked after parent.  The
\* fields not yet initialised are those of the sentinel of a new array.
SpliceAfter(parent, n) ==
    LET old(f, i) == IF i \in Nodes THEN f[i] ELSE LIST_ROOT_EL
        after == old(next, parent)
        used == used_capacity'
    IN  /\ next' = [i \in 0..used-1 |-> IF i = n THEN after
                                        ELSE IF i = parent THEN n
                                        ELSE old(next, i)]
        /\ prev' = [i \in 0..used-1 |-> IF i = after THEN n
                                        ELSE IF i = n THEN parent
                                        ELSE old(prev, i)]

\* Faulty: the node stays at the head of the free list.
ReuseFreeNode_unpopped(parent, v) ==
    /\ list_free_head # LIST_ROOT_EL
    /\ UNCHANGED <<array, capacity, used_capacity, list_free_head>>
    /\ SpliceAfter(parent, list_free_head)
    /\ value' = [value EXCEPT ![list_free_head] = v]

ReuseFreeNode(parent, v) ==
    /\ list_free_head # LIST_ROOT_EL
    /\ list_free_head' = next[list_free_head]
    /\ UNCHANGED <<array, capacity, used_capacity>>
    /\ SpliceAfter(parent, list_free_head)
    /\ value' = [value EXCEPT ![list_free_head] = v]

\* The node a call takes at the end of the used part, growing the array when it
\* is full.  The first nodes come with the sentinel.
NewNode == IF capacity = 0 THEN 1 ELSE used_capacity

Extend ==
    /\ \/ used_capacity < capacity /\ UNCHANGED <<array, capacity>>
       \/ /\ used_capacity >= capacity
          /\ CanAllocate(IncrementedCapacity)
          /\ array' = "held" /\ capacity' = IncrementedCapacity
    /\ used_capacity' = NewNode + 1
    /\ UNCHANGED list_free_head

\* Faulty: the free list is not looked at first.
TakeNewNode_always(parent, v) ==
    /\ Extend
    /\ SpliceAfter(parent, NewNode)
    /\ value' = Append(value, v)

TakeNewNode(parent, v) ==
    /\ list_free_head = LIST_ROOT_EL
    /\ Extend
    /\ SpliceAfter(parent, NewNode)
    /\ value' = [i \in 1..NewNode |-> IF i = NewNode THEN v ELSE value[i]]

\* Callers pass the sentinel or a node that is linked.
list_insert(parent, v) ==
    /\ constructed /\ array # "freed"
    /\ parent \in Linked \cup {LIST_ROOT_EL}
    /\ UNCHANGED constructed
    /\ \/ ret' = "DS_OK" /\ (ReuseFreeNode(parent, v) \/ TakeNewNode(parent, v))
       \/ /\ list_free_head = LIST_ROOT_EL /\ used_capacity >= capacity
          /\ ret' = "DS_ALLOCATION"
          /\ UNCHANGED list

\* Faulty: the successor's prev still names the dropped node.
list_drop_oneway(n) ==
    /\ constructed /\ n \in Linked \ {LIST_ROOT_EL}
    /\ next' = [next EXCEPT ![prev[n]] = next[n], ![n] = list_free_head]
    /\ prev' = [prev EXCEPT ![n] = LIST_PREV_FREE]
    /\ list_free_head' = n /\ ret' = "DS_OK"
    /\ UNCHANGED <<array, value, capacity, used_capacity, constructed>>

\* Faulty: the dropped node is marked free and not pushed on the free list.
list_drop_leaking(n) ==
    /\ constructed /\ n \in Linked \ {LIST_ROOT_EL}
    /\ next' = [next EXCEPT ![prev[n]] = next[n], ![n] = list_free_head]
    /\ prev' = [prev EXCEPT ![next[n]] = prev[n], ![n] = LIST_PREV_FREE]
    /\ ret' = "DS_OK"
    /\ UNCHANGED <<array, value, capacity, used_capacity, list_free_head, constructed>>

\* Callers pass the sentinel, which is refused, or a node that is linked.
list_drop(n) ==
    /\ constructed
    /\ n \in Linked \cup {LIST_ROOT_EL}
    /\ UNCHANGED constructed
    /\ \/ /\ n = LIST_ROOT_EL
          /\ ret' = "DS_INVALID_ARG"
          /\ UNCHANGED list
       \/ /\ n # LIST_ROOT_EL
          /\ next' = [next EXCEPT ![prev[n]] = next[n], ![n] = list_free_head]
          /\ prev' = [prev EXCEPT ![next[n]] = prev[n], ![n] = LIST_PREV_FREE]
          /\ list_free_head' = n
          /\ ret' = "DS_OK"
          /\ UNCHANGED <<array, value, capacity, used_capacity>>

\* Every other call goes through the pointer to the block that is given back.
UseFreed ==
    /\ constructed /\ array = "freed"
    /\ ret' = "undefined"
    /\ UNCHANGED <<list, constructed>>

Init ==
    /\ array = "null"
    /\ next = NoNodes /\ prev = NoNodes /\ value = <<>>
    /\ capacity = 0 /\ used_capacity = 0
    /\ list_free_head = LIST_ROOT_EL
    /\ constructed = FALSE
    /\ ret = "DS_OK"

Next ==
    /\ ret # "undefined"
    /\ \/ list_ctor
       \/ list_dtor
       \/ \E n \in 0..MaxCapacity + 1 : list_set_capacity(n)
       \/ \E p \in Nodes \cup {LIST_ROOT_EL}, v \in Values : list_insert(p, v)
       \/ \E n \in Nodes \cup {LIST_ROOT_EL} : list_drop(n)
       \/ UseFreed

Spec == Init /\ [][Next]_vars

-----------------------------------------------------------------------------
(* The walks of the code, and list_verify *)

\* The nodes met from index start along the pointers f before the sentinel,
\* given up after `fuel` of them as the code gives up on a cycle.
Walk(f, start, fuel) ==
    LET at[k \in Nat] == IF k = 0 THEN start ELSE f[at[k-1]]
        stops == {k \in 0..fuel : at[k] = LIST_ROOT_EL
                                  /\ \A j \in 0..k-1 : at[j] # LIST_ROOT_EL}
        len == IF stops = {} THEN fuel ELSE CHOOSE k \in stops : TRUE
    IN  [k \in 1..len |-> at[k-1]]

\* The handles of the linked nodes, first to last.
Order == IF used_capacity = 0 THEN <<>>
         ELSE Walk(next, next[LIST_ROOT_EL], used_capacity)

FreeOrder == IF used_capacity = 0 THEN <<>>
             ELSE Walk(next, list_free_head, used_capacity)

BackwardOrder == IF used_capacity = 0 THEN <<>>
                 ELSE Walk(prev, prev[LIST_ROOT_EL], used_capacity)

\* The error bits of list_verify (that pointers stay below used_capacity is
\* part of TypeOK).  In a block without nodes it counts the sentinel that is
\* not there, after it has followed links that nobody has written: they may add
\* errors to this one.
list_verify ==
    IF Nodeless THEN {"CONNECTIVITY_CORRUPT"} ELSE
    LET gathered == 1 + Len(Order) + Len(FreeOrder)
        errorIf(b, e) == IF b THEN {e} ELSE {}
        before(i) == IF i = 1 THEN LIST_ROOT_EL ELSE Order[i-1]
    IN  errorIf(used_capacity > capacity, "STRUCT_CORRUPT") \cup
        IF used_capacity = 0 THEN {} ELSE
        errorIf(\E i \in DOMAIN Order : prev[Order[i]] # before(i),
                "CONN_BACKWARD_CORRUPT") \cup
        errorIf(1 + Len(Order) > used_capacity, "INFINITY_FORWARD_CYCLE") \cup
        errorIf(\E i \in DOMAIN FreeOrder : prev[FreeOrder[i]] # LIST_PREV_FREE,
                "CONNECTIVITY_CORRUPT") \cup
        errorIf(gathered > used_capacity, "INFINITY_FREE_CYCLE") \cup
        errorIf(gathered # used_capacity, "CONNECTIVITY_CORRUPT") \cup
        errorIf(1 + Len(BackwardOrder) > used_capacity, "INFINITY_BACKWARD_CYCLE")

-----------------------------------------------------------------------------
(* Properties *)

\* Type invariant: every pointer of the initialised part of the array stays in
\* it, which is what makes each array[...] access of the code defined.
TypeOK ==
    /\ capacity \in 0..MaxCapacity
    /\ used_capacity \in 0..capacity
    /\ capacity = 0 <=> used_capacity = 0
    /\ array \in {"null", "held", "freed"}
    /\ used_capacity > 0 => array = "held"
    /\ list_free_head \in Nodes \cup {LIST_ROOT_EL}
    /\ next \in [Nodes -> Nodes]
    /\ prev \in [Nodes -> Nodes \cup {LIST_PREV_FREE}]
    /\ value \in [1..used_capacity-1 -> Values]
    /\ constructed \in BOOLEAN
    /\ ret \in Errors

\* The linked nodes form a ring structure through the sentinel: following next
\* and then prev, or prev and then next, leads back to the same node, and no
\* linked node points at a free one.  (list_insert and list_drop each rewrite
\* four pointers, with the sentinel possibly on both sides.)
LinksMutual ==
    /\ used_capacity > 0 => LIST_ROOT_EL \in Linked
    /\ \A i \in Linked :
          /\ next[i] \in Linked /\ prev[next[i]] = i
          /\ prev[i] \in Linked /\ next[prev[i]] = i

\* The free list never meets the linked list, and no free node is on it
\* twice: a node handed out by find_free_ptr is never handed out again before
\* it is dropped.
FreeChainSound ==
    /\ list_free_head \in Free \cup {LIST_ROOT_EL}
    /\ \A i \in Free :
          /\ next[i] \in Free \cup {LIST_ROOT_EL}
          /\ next[i] # LIST_ROOT_EL =>
                /\ next[i] # list_free_head
                /\ \A j \in Free : next[j] = next[i] => j = i

\* What test_list_unit.cpp asserts after its sequences of operations, for every
\* sequence: list_verify finds nothing wrong, so the two lists together hold
\* every node of the array exactly once and none has leaked.  The only sound
\* list that it condemns is the one that was asked to hold no node before it
\* held any (and one whose block was given back cannot be asked).
ListVerifyOK == array # "freed" => (list_verify = {} <=> ~Nodeless)

\* The array is extended only when no dropped node is left to reuse, so its
\* used part never exceeds the largest number of nodes held at once.
GrowsOnlyWhenFull ==
    [][used_capacity' > used_capacity /\ used_capacity > 0
         => Len(Order) + 1 = used_capacity]_vars

-----------------------------------------------------------------------------
(* The list as a sequence of handles with values *)

Seq_ == INSTANCE HandleSeq WITH
            Handles <- 1..MaxCapacity,
            order <- Order,
            val <- [h \in {Order[i] : i \in DOMAIN Order} |-> value[h]]

\* The array implements the sequence HandleSeq specifies: an insertion puts a
\* handle that is not in use right after its parent, a drop removes that handle
\* only, and every other handle keeps its place and its value.
ImplementsHandleSeq == Seq_!Spec
=============================================================================
