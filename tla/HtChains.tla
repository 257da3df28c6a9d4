------------------------------ MODULE HtChains ------------------------------
(***************************************************************************)
(* The hash table of x86_64_hashtable/src/ht_chains.c: an array of         *)
(* buckets, each an array list of entries, that doubles when it holds too  *)
(* many entries for its length.  A key of 64 bytes or more is copied to    *)
(* the heap and its entry points there; any allocation may fail.           *)
(*                                                                         *)
(* A bucket is the sequence of its entries (the list is the subject of the *)
(* module ArrayList) and the capacity of its array.                        *)
(***************************************************************************)
EXTENDS Naturals, SequencesExt

CONSTANTS
    Keys, Values, Nothing,
    LongKeys,              \* the keys that are copied to the heap
    Hash,                  \* crc32 of each key
    STARTING_ARRLEN, CRITICAL_LOAD_FACTOR,
    BucketCapacity,        \* 20 in the code: bucket_init
    INITIAL_CAPACITY,      \* 128 in the code: the least that a list grows to
    MemoryMayFail

ASSUME HtAssumption ==
    /\ LongKeys \subseteq Keys /\ Hash \in [Keys -> Nat] /\ Nothing \notin Values
    /\ STARTING_ARRLEN \in Nat \ {0} /\ CRITICAL_LOAD_FACTOR \in Nat \ {0}
    /\ BucketCapacity \in Nat \ {0, 1} /\ INITIAL_CAPACITY \in Nat
    /\ MemoryMayFail \in BOOLEAN

VARIABLES
    life,        \* "none", "live" or "undefined": freed memory has been used
    arr,         \* the buckets, numbered from 0
    n_elements,
    heap,        \* the keys whose copy is allocated
    reply,       \* what the last call returned
    \* History: a rehash that gave up in the middle has freed copies of keys
    \* that the table still points to
    bereft

vars == <<life, arr, n_elements, heap, reply, bereft>>

Done == [failed |-> FALSE, value |-> Nothing]
Failed == [failed |-> TRUE, value |-> Nothing]

-----------------------------------------------------------------------------
(* Buckets *)

hash_key(k, modulo) == Hash[k] % modulo

bucket_init == [nodes |-> <<>>, capacity |-> BucketCapacity]
NewArray(len) == [i \in 0..len - 1 |-> bucket_init]
arr_len == Cardinality(DOMAIN arr)

\* One node of the array is the sentinel.
Full(bucket) == Len(bucket.nodes) + 1 = bucket.capacity

\* list_insert at the sentinel: in front of all others.
list_insert(bucket, e) ==
    [nodes |-> <<e>> \o bucket.nodes,
     capacity |-> IF ~Full(bucket) THEN bucket.capacity
                  ELSE Max({2 * bucket.capacity, INITIAL_CAPACITY})]

bucket_find_node(bucket, k) ==
    {n \in DOMAIN bucket.nodes :
        bucket.nodes[n].key = k /\ \A m \in 1..n - 1 : bucket.nodes[m].key # k}

\* The entries whose keys are compared on the way.
Compared(bucket, k) ==
    {bucket.nodes[n].key : n \in {m \in DOMAIN bucket.nodes :
        \A f \in bucket_find_node(bucket, k) : m <= f}}

KeysIn(entries) == {entries[n].key : n \in DOMAIN entries}

\* All entries of a table, bucket after bucket.
Entries(table) ==
    LET upTo[i \in 0..Cardinality(DOMAIN table)] ==
            IF i = 0 THEN <<>> ELSE upTo[i - 1] \o table[i - 1].nodes
    IN  upTo[Cardinality(DOMAIN table)]

Dangling(keys, allocated) == ~(keys \cap LongKeys \subseteq allocated)

\* The program goes on after reading, or freeing, freed memory; nothing is
\* known of what it does.
UseAfterFree == life' = "undefined" /\ UNCHANGED <<arr, n_elements, heap, reply, bereft>>

-----------------------------------------------------------------------------
(* Growth *)

\* The new array once the first n of the entries have been moved to it.
bucket_move_all(entries, n, len) ==
    LET table[m \in 0..Len(entries)] ==
            IF m = 0 THEN NewArray(len)
            ELSE [table[m - 1] EXCEPT ![hash_key(entries[m].key, len)] = list_insert(@, entries[m])]
    IN  table[n]

\* Faulty: entries stay at the index they had.
rehash_unhashed(table, allocated, len) ==
    /\ arr' = [i \in 0..len - 1 |-> IF i \in DOMAIN table THEN table[i] ELSE bucket_init]
    /\ heap' = allocated /\ UNCHANGED <<life, bereft>>

\* What becomes of a table (with its allocated keys).  When an insertion into a
\* full new bucket fails, bucket_cleanup frees the keys of the entries that
\* have been moved, and the old buckets stay.
rehash(table, allocated, len) ==
    LET entries == Entries(table)
        moved(n) == SubSeq(entries, 1, n)
        stopsAfter(n) == Full(bucket_move_all(entries, n, len)[hash_key(entries[n + 1].key, len)])
    IN  \/ /\ Dangling(KeysIn(entries), allocated)
           /\ life' = "undefined" /\ arr' = table /\ heap' = allocated /\ UNCHANGED bereft
        \/ /\ ~Dangling(KeysIn(entries), allocated)
           /\ arr' = bucket_move_all(entries, Len(entries), len)
           /\ heap' = allocated /\ UNCHANGED <<life, bereft>>
        \/ /\ MemoryMayFail
           /\ arr' = table /\ heap' = allocated /\ UNCHANGED <<life, bereft>>
        \/ /\ MemoryMayFail
           /\ \E n \in 0..Len(entries) - 1 :
                 /\ ~Dangling(KeysIn(moved(n + 1)), allocated) /\ stopsAfter(n)
                 /\ heap' = allocated \ KeysIn(moved(n))
                 /\ bereft' = (bereft \/ KeysIn(moved(n)) \cap LongKeys # {})
           /\ arr' = table /\ UNCHANGED life

\* Its result does not reach the caller of hashtable_add.
probe_load_factor(table, allocated, n) ==
    IF n < CRITICAL_LOAD_FACTOR * arr_len
    THEN arr' = table /\ heap' = allocated /\ UNCHANGED <<life, bereft>>
    ELSE rehash(table, allocated, 2 * arr_len)

-----------------------------------------------------------------------------
(* Operations *)

hashtable_ctor ==
    /\ life = "none"
    /\ \/ /\ life' = "live" /\ arr' = NewArray(STARTING_ARRLEN) /\ n_elements' = 0
          /\ heap' = {} /\ reply' = Done /\ bereft' = FALSE
       \/ /\ MemoryMayFail
          /\ reply' = Failed /\ UNCHANGED <<life, arr, n_elements, heap, bereft>>

hashtable_dtor ==
    /\ life = "live"
    /\ \/ Dangling(KeysIn(Entries(arr)), heap) /\ UseAfterFree
       \/ /\ ~Dangling(KeysIn(Entries(arr)), heap)
          /\ life' = "none" /\ arr' = NewArray(0) /\ n_elements' = 0
          /\ heap' = heap \ KeysIn(Entries(arr)) /\ reply' = Done
          /\ UNCHANGED bereft

Place(k) == hash_key(k, arr_len)
Bucket(k) == arr[Place(k)]
Sound(k) == life = "live" /\ ~Dangling(Compared(Bucket(k), k), heap)

Update(k, v) ==
    /\ Sound(k)
    /\ \E n \in bucket_find_node(Bucket(k), k) :
          arr' = [arr EXCEPT ![Place(k)].nodes[n].value = v]
    /\ reply' = Done
    /\ UNCHANGED <<life, n_elements, heap, bereft>>

\* Faulty: the copy of the key is not freed when the insertion fails.
Refuse_leaking(k) ==
    /\ Sound(k) /\ bucket_find_node(Bucket(k), k) = {}
    /\ MemoryMayFail /\ Full(Bucket(k))
    /\ heap' = heap \cup ({k} \cap LongKeys)
    /\ reply' = Failed
    /\ UNCHANGED <<life, arr, n_elements, bereft>>

\* The copy of the key, or the growth of the bucket, fails.
Refuse(k) ==
    /\ Sound(k) /\ bucket_find_node(Bucket(k), k) = {}
    /\ MemoryMayFail /\ (k \in LongKeys \/ Full(Bucket(k)))
    /\ reply' = Failed
    /\ UNCHANGED <<life, arr, n_elements, heap, bereft>>

\* Faulty: a failed rehash is reported, though the key is in the table.
Enter_reporting(k, v) ==
    /\ Sound(k) /\ bucket_find_node(Bucket(k), k) = {}
    /\ n_elements' = n_elements + 1
    /\ probe_load_factor([arr EXCEPT ![Place(k)] = list_insert(@, [key |-> k, value |-> v])],
                         heap \cup ({k} \cap LongKeys), n_elements + 1)
    /\ reply' = IF n_elements' >= CRITICAL_LOAD_FACTOR * arr_len /\ DOMAIN arr' = DOMAIN arr
                THEN Failed ELSE Done

Enter(k, v) ==
    /\ Sound(k) /\ bucket_find_node(Bucket(k), k) = {}
    /\ n_elements' = n_elements + 1
    /\ probe_load_factor([arr EXCEPT ![Place(k)] = list_insert(@, [key |-> k, value |-> v])],
                         heap \cup ({k} \cap LongKeys), n_elements + 1)
    /\ reply' = Done

hashtable_add(k, v) == Update(k, v) \/ Refuse(k) \/ Enter(k, v)

hashtable_get(k) ==
    /\ Sound(k)
    /\ reply' = IF bucket_find_node(Bucket(k), k) = {} THEN Failed
                ELSE [failed |-> FALSE,
                      value |-> LET n == CHOOSE n \in bucket_find_node(Bucket(k), k) : TRUE
                                IN  Bucket(k).nodes[n].value]
    /\ UNCHANGED <<life, arr, n_elements, heap, bereft>>

hashtable_del(k) ==
    /\ Sound(k)
    /\ \/ /\ bucket_find_node(Bucket(k), k) = {} /\ reply' = Failed
          /\ UNCHANGED <<life, arr, n_elements, heap, bereft>>
       \/ /\ \E n \in bucket_find_node(Bucket(k), k) :
                arr' = [arr EXCEPT ![Place(k)].nodes = RemoveAt(@, n)]
          /\ heap' = heap \ {k}
          /\ n_elements' = n_elements - 1
          /\ reply' = Done
          /\ UNCHANGED <<life, bereft>>

\* Any call that looks a key up in a bucket with a freed key before it.
Astray(k) ==
    /\ life = "live" /\ Dangling(Compared(Bucket(k), k), heap)
    /\ UseAfterFree

Over == life = "undefined" /\ UNCHANGED vars

Init ==
    /\ life = "none" /\ arr = NewArray(0) /\ n_elements = 0
    /\ heap = {} /\ reply = Done /\ bereft = FALSE

Next ==
    \/ hashtable_ctor \/ hashtable_dtor
    \/ \E k \in Keys : hashtable_get(k) \/ hashtable_del(k) \/ Astray(k)
    \/ \E k \in Keys, v \in Values : hashtable_add(k, v)
    \/ Over

Spec == Init /\ [][Next]_vars

-----------------------------------------------------------------------------
(* Properties *)

\* Every entry stands in the bucket that a look-up of its key searches, no key
\* stands twice, every bucket has its sentinel, and n_elements counts the entries,
\* also after a rehash, and after one that failed.
EntriesInPlace ==
    /\ \A i \in DOMAIN arr : arr[i].capacity > Len(arr[i].nodes)
    /\ \A i \in DOMAIN arr : \A n \in DOMAIN arr[i].nodes :
          /\ hash_key(arr[i].nodes[n].key, arr_len) = i
          /\ n \in bucket_find_node(arr[i], arr[i].nodes[n].key)
    /\ n_elements = Len(Entries(arr))

\* The copies of long keys on the heap are exactly those of the keys in the
\* table: none is leaked, freed twice or freed too early, unless a rehash
\* failed in the middle of its move.
OwnsItsKeys == ~bereft => heap = KeysIn(Entries(arr)) \cap LongKeys

\* The table is a map, rehashes and their failures unseen, as long as no freed
\* key is used.
map == [k \in Keys |-> LET at == {i \in DOMAIN Entries(arr) : Entries(arr)[i].key = k}
                       IN  IF at = {} THEN Nothing
                           ELSE Entries(arr)[CHOOSE i \in at : TRUE].value]
Map == INSTANCE KeyValueMap
ImplementsMap == Map!Spec
=============================================================================
