-------------------------- MODULE ArrayListProofs --------------------------
(***************************************************************************)
(* Proofs about ArrayList, for every capacity and every set of values.     *)
(* The first half is about pointers alone: the invariant Inv and the three *)
(* properties it is made of.  The second half is about order: the ring and *)
(* the free list are two chains that visit every node once (HoldsSome), a  *)
(* step moves at most one node in them (EveryStepMoves), the walks of the  *)
(* code find them (WalksFind), and so list_verify finds nothing wrong and  *)
(* the array implements the sequence of HandleSeq.                         *)
(***************************************************************************)
EXTENDS ArrayList, NatRecursion, TLAPS

Inv == TypeOK /\ LinksMutual /\ FreeChainSound

(* The initial state has no node at all.                                   *)
LEMMA InitInv == ASSUME Init PROVE Inv
<1>1. Nodes = {} /\ Linked = {} /\ Free = {}
  BY DEF Init, Nodes, Linked, Free
<1>2. TypeOK
  <2>1. /\ capacity \in 0..MaxCapacity /\ used_capacity \in 0..capacity
        /\ capacity = 0 <=> used_capacity = 0
        /\ array \in {"null", "held", "freed"} /\ (used_capacity > 0 => array = "held")
        /\ list_free_head \in Nodes \cup {LIST_ROOT_EL}
    BY CapacityAssumption DEF Init
  <2>2. next \in [Nodes -> Nodes] /\ prev \in [Nodes -> Nodes \cup {LIST_PREV_FREE}]
    BY <1>1 DEF Init, NoNodes
  <2>3. value \in [1..used_capacity-1 -> Values]
    BY DEF Init
  <2>4. constructed \in BOOLEAN /\ ret \in Errors
    BY DEF Init, Errors
  <2> QED BY <2>1, <2>2, <2>3, <2>4 DEF TypeOK
<1>3. LinksMutual /\ FreeChainSound
  BY <1>1 DEF Init, LinksMutual, FreeChainSound
<1> QED BY <1>2, <1>3 DEF Inv

(* list_ctor and list_dtor leave the list as it is initially.              *)
LEMMA ResetInv ==
    ASSUME Reset, constructed' \in BOOLEAN, array' \in {"null", "freed"}
    PROVE  Inv'
BY CapacityAssumption DEF Reset, Inv, TypeOK, LinksMutual, FreeChainSound, NoNodes,
   Nodes, Linked, Free, Errors, LIST_ROOT_EL, LIST_PREV_FREE

(* A call that does not touch the list keeps the invariant.                *)
LEMMA UntouchedInv ==
    ASSUME Inv, UNCHANGED <<list, constructed>>, ret' \in Errors
    PROVE  Inv'
BY DEF list, Inv, TypeOK, LinksMutual, FreeChainSound, Nodes, Linked, Free

(* A block that holds no node is got, or given back.                       *)
LEMMA BlockInv ==
    ASSUME Inv, UNCHANGED <<next, prev, value, capacity, used_capacity, list_free_head>>,
           used_capacity = 0, array' \in {"held", "freed"},
           constructed' \in BOOLEAN, ret' \in Errors
    PROVE  Inv'
BY DEF Inv, TypeOK, LinksMutual, FreeChainSound, Nodes, Linked, Free

(* list_set_capacity: the array keeps its nodes, or gets its sentinel, or  *)
(* is a block without any.                                                 *)
LEMMA SetCapacityInv ==
    ASSUME Inv, NEW n \in 0..MaxCapacity + 1, list_set_capacity(n)
    PROVE  Inv'
<1>0. constructed' \in BOOLEAN /\ ret' \in Errors
  BY DEF list_set_capacity, Inv, TypeOK, Errors
<1>1. CASE UNCHANGED list
  BY <1>1, UntouchedInv DEF list_set_capacity, Errors
<1>3. CASE /\ GivesBack(n) /\ n >= used_capacity /\ array' = "freed"
            /\ UNCHANGED <<next, prev, value, capacity, used_capacity>>
  <2>1. used_capacity = 0
    BY <1>3 DEF GivesBack, Inv, TypeOK
  <2> QED BY <1>0, <1>3, <2>1, BlockInv DEF list_set_capacity
<1>2. CASE n >= used_capacity /\ CanAllocate(n) /\ Sized(n) /\ ret' = "DS_OK"
  <2>0. array' = "held"
    BY <1>2 DEF Sized
  <2>3. CASE capacity = 0 /\ n = 0
    <3>1. UNCHANGED <<next, prev, value, capacity, used_capacity, list_free_head>>
      BY <1>2, <2>3 DEF list_set_capacity, Sized
    <3>2. used_capacity = 0
      BY <2>3 DEF Inv, TypeOK
    <3> QED BY <1>0, <2>0, <3>1, <3>2, BlockInv
  <2>1. CASE capacity = 0 /\ n > 0
    <3>1. /\ used_capacity' = 1 /\ capacity' \in 1..MaxCapacity
          /\ list_free_head' = LIST_ROOT_EL /\ next' = RootOnly /\ prev' = RootOnly
      BY <1>2, <2>1 DEF list_set_capacity, Sized, CanAllocate, Inv, TypeOK, Nodes,
         LIST_ROOT_EL
    <3>2. value' \in [1..used_capacity'-1 -> Values]
      BY <1>2, <2>1, <3>1 DEF Sized, Inv, TypeOK
    <3>3. Nodes' = {0} /\ Linked' = {0} /\ Free' = {}
      BY <3>1 DEF Nodes, Linked, Free, RootOnly, LIST_ROOT_EL, LIST_PREV_FREE
    <3>4. next' \in [Nodes' -> Nodes'] /\ prev' \in [Nodes' -> Nodes' \cup {LIST_PREV_FREE}]
      BY <3>1, <3>3 DEF RootOnly, LIST_ROOT_EL
    <3>5. TypeOK'
      BY <1>0, <2>0, <3>1, <3>2, <3>3, <3>4 DEF TypeOK, LIST_ROOT_EL
    <3>6. LinksMutual' /\ FreeChainSound'
      BY <3>1, <3>3 DEF LinksMutual, FreeChainSound, RootOnly, LIST_ROOT_EL
    <3> QED BY <3>5, <3>6 DEF Inv
  <2>2. CASE capacity # 0
    <3>1. /\ UNCHANGED <<next, prev, value, used_capacity, list_free_head, constructed>>
          /\ capacity' = n /\ n > 0 /\ n <= MaxCapacity
      BY <1>2, <2>2 DEF list_set_capacity, Sized, CanAllocate, Inv, TypeOK
    <3>2. Nodes' = Nodes /\ Linked' = Linked /\ Free' = Free
      BY <3>1 DEF Nodes, Linked, Free
    <3>3. TypeOK'
      BY <1>0, <2>0, <1>2, <2>2, <3>1, <3>2, CapacityAssumption DEF Inv, TypeOK
    <3>4. LinksMutual' /\ FreeChainSound'
      BY <3>1, <3>2 DEF Inv, LinksMutual, FreeChainSound
    <3> QED BY <3>3, <3>4 DEF Inv
  <2> QED BY <2>1, <2>2, <2>3
<1>4. CASE ~GivesBack(n) /\ n >= used_capacity /\ array' = array
           /\ UNCHANGED <<next, prev, value, capacity, used_capacity>>
  <2>1. UNCHANGED list
    BY <1>4 DEF list_set_capacity, list
  <2> QED BY <1>1, <2>1
<1> QED BY <1>1, <1>2, <1>3, <1>4 DEF list_set_capacity

(* Linking a node n that is not linked between p and its successor, in an  *)
(* array that is otherwise as before.                                      *)
LEMMA SpliceLinks ==
    ASSUME Inv, NEW p \in Linked, NEW n, n \notin Linked,
           Linked' = Linked \cup {n}, LIST_ROOT_EL \in Linked,
           next'[n] = next[p], next'[p] = n, prev'[next[p]] = n, prev'[n] = p,
           \A i \in Linked : i # p => next'[i] = next[i],
           \A i \in Linked : i # next[p] => prev'[i] = prev[i]
    PROVE  LinksMutual'
<1> USE DEF Inv, LinksMutual
<1>1. next[p] \in Linked /\ prev[next[p]] = p /\ n # p /\ n # next[p]
  OBVIOUS
<1>2. ASSUME NEW i \in Linked'
      PROVE  /\ next'[i] \in Linked' /\ prev'[next'[i]] = i
             /\ prev'[i] \in Linked' /\ next'[prev'[i]] = i
  <2>1. CASE i = n
    BY <1>1, <2>1
  <2>2. CASE i # n
    <3>1. i \in Linked
      BY <2>2
    <3>2. next'[i] \in Linked' /\ prev'[next'[i]] = i
      BY <1>1, <2>2, <3>1
    <3>3. prev'[i] \in Linked' /\ next'[prev'[i]] = i
      BY <1>1, <2>2, <3>1
    <3> QED BY <3>2, <3>3
  <2> QED BY <2>1, <2>2
<1> QED BY <1>2 DEF LIST_ROOT_EL

(* What reusing the head of the free list does to the nodes and their      *)
(* successors.                                                             *)
ReuseShape(p) ==
    LET n == list_free_head
    IN  /\ n \in Free /\ n \in Nodes /\ n # p /\ n # next[p] /\ n # LIST_ROOT_EL
        /\ p \in Nodes /\ next[p] \in Linked /\ next[p] \in Nodes /\ prev[next[p]] = p
        /\ n \notin Linked /\ LIST_ROOT_EL \in Linked
        /\ next' = [i \in Nodes |-> IF i = n THEN next[p] ELSE IF i = p THEN n ELSE next[i]]
        /\ prev' = [i \in Nodes |-> IF i = next[p] THEN n ELSE IF i = n THEN p ELSE prev[i]]
        /\ Nodes' = Nodes /\ Linked' = Linked \cup {n} /\ Free' = Free \ {n}

LEMMA ReuseHasShape ==
    ASSUME Inv, NEW p \in Linked, NEW v, ReuseFreeNode(p, v)
    PROVE  ReuseShape(p)
<1> DEFINE n == list_free_head
           a == next[p]
<1>1. /\ n \in Free /\ n \in Nodes /\ n # p /\ n # a /\ n # LIST_ROOT_EL
      /\ p \in Nodes /\ a \in Linked /\ a \in Nodes /\ prev[a] = p
      /\ n \notin Linked /\ LIST_ROOT_EL \in Linked
  <2>1. n \in Free /\ n # LIST_ROOT_EL
    BY DEF Inv, FreeChainSound, ReuseFreeNode
  <2>2. n \in Nodes /\ n \notin Linked /\ p \in Nodes
    BY <2>1 DEF Free, Linked
  <2>3. a \in Linked /\ prev[a] = p
    BY DEF Inv, LinksMutual
  <2>4. used_capacity > 0
    BY <2>2 DEF Nodes, Inv, TypeOK
  <2>5. LIST_ROOT_EL \in Linked
    BY <2>4 DEF Inv, LinksMutual
  <2> QED BY <2>1, <2>2, <2>3, <2>5 DEF Linked
<1>2. /\ next' = [i \in Nodes |-> IF i = n THEN a ELSE IF i = p THEN n ELSE next[i]]
      /\ prev' = [i \in Nodes |-> IF i = a THEN n ELSE IF i = n THEN p ELSE prev[i]]
      /\ Nodes' = Nodes
  BY <1>1, Z3 DEF ReuseFreeNode, SpliceAfter, Nodes, Inv, TypeOK
<1>3. Linked' = Linked \cup {n}
  <2>1. \A i \in Nodes : prev'[i] # LIST_PREV_FREE <=> i \in Linked \cup {n}
    BY <1>1, <1>2 DEF Linked, Nodes, LIST_PREV_FREE
  <2> QED BY <1>1, <1>2, <2>1 DEF Linked
<1>4. Free' = Free \ {n}
  BY <1>2, <1>3 DEF Free
<1> QED BY <1>1, <1>2, <1>3, <1>4 DEF ReuseShape

(* Reusing the head of the free list.                                      *)
LEMMA ReuseInv ==
    ASSUME Inv, NEW p \in Linked, NEW v \in Values,
           ReuseFreeNode(p, v), constructed' \in BOOLEAN, ret' \in Errors
    PROVE  Inv'
<1> DEFINE n == list_free_head
           a == next[p]
<1>1. /\ n \in Free /\ n \in Nodes /\ n # p /\ n # a /\ n # LIST_ROOT_EL
      /\ p \in Nodes /\ a \in Linked /\ a \in Nodes /\ prev[a] = p
      /\ n \notin Linked /\ LIST_ROOT_EL \in Linked
  BY ReuseHasShape DEF ReuseShape
<1>2. /\ next' = [i \in Nodes |-> IF i = n THEN a ELSE IF i = p THEN n ELSE next[i]]
      /\ prev' = [i \in Nodes |-> IF i = a THEN n ELSE IF i = n THEN p ELSE prev[i]]
      /\ Nodes' = Nodes
  BY ReuseHasShape DEF ReuseShape
<1>3. Linked' = Linked \cup {n}
  BY ReuseHasShape DEF ReuseShape
<1>4. Free' = Free \ {n}
  BY ReuseHasShape DEF ReuseShape
<1>5. TypeOK'
  BY <1>1, <1>2 DEF Inv, TypeOK, ReuseFreeNode, FreeChainSound, Nodes, Free, LIST_ROOT_EL
<1>6. LinksMutual'
  <2>1. \A i \in Linked : i \in Nodes
    BY DEF Linked
  <2> HIDE DEF n, a
  <2> QED BY <1>1, <1>2, <1>3, <2>1, SpliceLinks DEF a
<1>7. FreeChainSound'
  <2>1. \A i \in Free \ {n} : next'[i] = next[i]
    BY <1>1, <1>2 DEF Free, Linked
  <2> QED BY <1>1, <1>4, <2>1 DEF Inv, FreeChainSound, ReuseFreeNode, LIST_ROOT_EL
<1> QED BY <1>5, <1>6, <1>7 DEF Inv

(* The first insertion makes the array, its sentinel and node 1.           *)
LEMMA FirstNodeInv ==
    ASSUME Inv, NEW v \in Values, capacity = 0,
           TakeNewNode(LIST_ROOT_EL, v), constructed' \in BOOLEAN, ret' \in Errors
    PROVE  Inv'
<1>1. /\ used_capacity' = 2 /\ list_free_head' = LIST_ROOT_EL
      /\ capacity' \in 2..MaxCapacity
      /\ Nodes = {}
  BY CapacityAssumption
  DEF TakeNewNode, NewNode, Extend, Inv, TypeOK, Nodes, CanAllocate, IncrementedCapacity
<1>2. Nodes' = {0, 1}
  BY <1>1 DEF Nodes
<1>3. /\ next' = [i \in {0, 1} |-> IF i = 1 THEN 0 ELSE 1]
      /\ prev' = [i \in {0, 1} |-> IF i = 0 THEN 1 ELSE 0]
  BY <1>1 DEF TakeNewNode, NewNode, SpliceAfter, LIST_ROOT_EL
<1>4. Linked' = {0, 1} /\ Free' = {}
  BY <1>2, <1>3 DEF Linked, Free, LIST_PREV_FREE
<1>5. value' \in [1..1 -> Values]
  BY DEF TakeNewNode, NewNode
<1>6. TypeOK'
  <2>1. array' = "held"
    BY DEF Inv, TypeOK, TakeNewNode, Extend
  <2> QED BY <1>1, <1>2, <1>3, <1>5, <2>1 DEF TypeOK
<1>7. LinksMutual' /\ FreeChainSound'
  BY <1>1, <1>3, <1>4 DEF LinksMutual, FreeChainSound, LIST_ROOT_EL
<1> QED BY <1>6, <1>7 DEF Inv

(* What taking the node after the used part of an array that exists does   *)
(* to the nodes and their successors.                                      *)
TakeNewShape(p) ==
    LET n == used_capacity
    IN  /\ n \in Nat /\ n > 0 /\ n \notin Nodes /\ used_capacity' = n + 1
        /\ capacity' \in n+1..MaxCapacity
        /\ list_free_head = LIST_ROOT_EL /\ list_free_head' = LIST_ROOT_EL
        /\ p \in Nodes /\ next[p] \in Linked /\ next[p] \in Nodes /\ prev[next[p]] = p
        /\ LIST_ROOT_EL \in Linked /\ n \notin Linked /\ n # p /\ n # next[p]
        /\ Nodes' = Nodes \cup {n}
        /\ next' = [i \in Nodes' |-> IF i = n THEN next[p] ELSE IF i = p THEN n
                                     ELSE IF i \in Nodes THEN next[i] ELSE LIST_ROOT_EL]
        /\ prev' = [i \in Nodes' |-> IF i = next[p] THEN n ELSE IF i = n THEN p
                                     ELSE IF i \in Nodes THEN prev[i] ELSE LIST_ROOT_EL]
        /\ Linked' = Linked \cup {n} /\ Free' = Free

LEMMA TakeNewHasShape ==
    ASSUME Inv, NEW p \in Linked, NEW v, capacity # 0, TakeNewNode(p, v)
    PROVE  TakeNewShape(p)
<1> DEFINE n == used_capacity
           a == next[p]
<1>1. /\ n \in Nat /\ n > 0 /\ n \notin Nodes /\ used_capacity' = n + 1
      /\ capacity' \in n+1..MaxCapacity
      /\ list_free_head = LIST_ROOT_EL /\ list_free_head' = LIST_ROOT_EL
  <2>1. /\ capacity \in Nat /\ capacity > 0 /\ capacity <= MaxCapacity
        /\ used_capacity \in Nat /\ used_capacity > 0 /\ used_capacity <= capacity
    BY CapacityAssumption DEF Inv, TypeOK
  <2>2. /\ used_capacity' = used_capacity + 1 /\ list_free_head = LIST_ROOT_EL
        /\ list_free_head' = list_free_head
    BY DEF TakeNewNode, NewNode, Extend
  <2>3. \/ used_capacity < capacity /\ capacity' = capacity
        \/ capacity' = IncrementedCapacity /\ IncrementedCapacity <= MaxCapacity
    BY DEF TakeNewNode, Extend, CanAllocate
  <2>4. IncrementedCapacity \in Nat /\ IncrementedCapacity > capacity
    BY <2>1, CapacityAssumption DEF IncrementedCapacity
  <2> QED BY <2>1, <2>2, <2>3, <2>4, CapacityAssumption DEF Nodes
<1>2. /\ p \in Nodes /\ a \in Linked /\ a \in Nodes /\ prev[a] = p
      /\ LIST_ROOT_EL \in Linked /\ n \notin Linked /\ n # p /\ n # a
  BY <1>1 DEF Inv, LinksMutual, Linked
<1>3. Nodes' = Nodes \cup {n}
  BY <1>1 DEF Nodes
<1>4. /\ next' = [i \in Nodes' |-> IF i = n THEN a ELSE IF i = p THEN n
                                   ELSE IF i \in Nodes THEN next[i] ELSE LIST_ROOT_EL]
      /\ prev' = [i \in Nodes' |-> IF i = a THEN n ELSE IF i = n THEN p
                                   ELSE IF i \in Nodes THEN prev[i] ELSE LIST_ROOT_EL]
  BY <1>1, <1>2 DEF TakeNewNode, NewNode, SpliceAfter, Nodes
<1>5. Linked' = Linked \cup {n}
  <2>1. \A i \in Nodes' : prev'[i] # LIST_PREV_FREE <=> i \in Linked \cup {n}
    BY <1>1, <1>2, <1>3, <1>4 DEF Linked, Nodes, LIST_PREV_FREE
  <2> QED BY <1>2, <1>3, <2>1 DEF Linked
<1>6. Free' = Free
  BY <1>1, <1>2, <1>3, <1>5 DEF Free
<1> QED BY <1>1, <1>2, <1>3, <1>4, <1>5, <1>6 DEF TakeNewShape

(* Taking the node after the used part of an array that exists.            *)
LEMMA TakeNewInv ==
    ASSUME Inv, NEW p \in Linked, NEW v \in Values, capacity # 0,
           TakeNewNode(p, v), constructed' \in BOOLEAN, ret' \in Errors
    PROVE  Inv'
<1> DEFINE n == used_capacity
           a == next[p]
<1>1. /\ n \in Nat /\ n > 0 /\ n \notin Nodes /\ used_capacity' = n + 1
      /\ capacity' \in n+1..MaxCapacity
      /\ list_free_head = LIST_ROOT_EL /\ list_free_head' = LIST_ROOT_EL
  BY TakeNewHasShape DEF TakeNewShape
<1>2. /\ p \in Nodes /\ a \in Linked /\ a \in Nodes /\ prev[a] = p
      /\ LIST_ROOT_EL \in Linked /\ n \notin Linked /\ n # p /\ n # a
  BY TakeNewHasShape DEF TakeNewShape
<1>3. Nodes' = Nodes \cup {n}
  BY TakeNewHasShape DEF TakeNewShape
<1>4. /\ next' = [i \in Nodes' |-> IF i = n THEN a ELSE IF i = p THEN n
                                   ELSE IF i \in Nodes THEN next[i] ELSE LIST_ROOT_EL]
      /\ prev' = [i \in Nodes' |-> IF i = a THEN n ELSE IF i = n THEN p
                                   ELSE IF i \in Nodes THEN prev[i] ELSE LIST_ROOT_EL]
  BY TakeNewHasShape DEF TakeNewShape
<1>5. Linked' = Linked \cup {n}
  BY TakeNewHasShape DEF TakeNewShape
<1>6. Free' = Free
  BY TakeNewHasShape DEF TakeNewShape
<1>7. TypeOK'
  <2>1. next' \in [Nodes' -> Nodes'] /\ prev' \in [Nodes' -> Nodes' \cup {LIST_PREV_FREE}]
    BY <1>2, <1>3, <1>4 DEF Inv, TypeOK
  <2>2. value' \in [1..used_capacity'-1 -> Values]
    BY <1>1 DEF Inv, TypeOK, TakeNewNode, NewNode
  <2>3. array' = "held"
    BY <1>1 DEF Inv, TypeOK, TakeNewNode, Extend
  <2> QED BY <1>1, <2>1, <2>2, <2>3 DEF TypeOK
<1>8. LinksMutual'
  <2>1. \A i \in Linked : i \in Nodes
    BY DEF Linked
  <2> HIDE DEF n, a
  <2> QED BY <1>2, <1>3, <1>4, <1>5, <2>1, SpliceLinks DEF a
<1>9. FreeChainSound'
  <2>1. \A i \in Free : next'[i] = next[i]
    BY <1>1, <1>2, <1>3, <1>4 DEF Free, Linked
  <2> QED BY <1>1, <1>6, <2>1 DEF Inv, FreeChainSound
<1> QED BY <1>7, <1>8, <1>9 DEF Inv

(* list_insert, with or without room.                                      *)
LEMMA InsertInv ==
    ASSUME Inv, NEW p \in Nodes \cup {LIST_ROOT_EL}, NEW v \in Values,
           list_insert(p, v)
    PROVE  Inv'
<1>1. constructed' \in BOOLEAN /\ ret' \in Errors
  BY DEF list_insert, Inv, TypeOK, Errors
<1>2. CASE UNCHANGED list
  BY <1>1, <1>2, UntouchedInv DEF list_insert
<1>3. CASE ReuseFreeNode(p, v)
  <2>1. Linked # {}
    BY <1>3 DEF ReuseFreeNode, Inv, FreeChainSound, Free, LinksMutual, TypeOK, Nodes
  <2>2. p \in Linked
    BY <2>1 DEF list_insert, Inv, LinksMutual, TypeOK, Linked, Nodes
  <2> QED BY <1>1, <1>3, <2>2, ReuseInv
<1>4. CASE TakeNewNode(p, v)
  <2>1. CASE capacity = 0
    <3>1. p = LIST_ROOT_EL
      BY <2>1 DEF Inv, TypeOK, Nodes
    <3> QED BY <1>1, <1>4, <2>1, <3>1, FirstNodeInv
  <2>2. CASE capacity # 0
    <3>1. p \in Linked
      BY <2>2 DEF list_insert, Inv, LinksMutual, TypeOK
    <3> QED BY <1>1, <1>4, <2>2, <3>1, TakeNewInv
  <2> QED BY <2>1, <2>2
<1> QED BY <1>2, <1>3, <1>4 DEF list_insert

(* What unlinking a node and pushing it on the free list does to the nodes  *)
(* and their links.  Nothing in Inv excludes a ring of n alone; dropping it *)
(* would be harmless.                                                      *)
DropShape(n) ==
    /\ n \in Linked /\ next[n] \in Linked /\ prev[n] \in Linked
    /\ prev[next[n]] = n /\ next[prev[n]] = n
    /\ LIST_ROOT_EL \in Linked
    /\ \A i \in Linked : (next[i] = n <=> i = prev[n]) /\ (prev[i] = n <=> i = next[n])
    /\ \A i \in Nodes : next'[i] = IF i = n THEN list_free_head
                                   ELSE IF i = prev[n] THEN next[n] ELSE next[i]
    /\ \A i \in Nodes : prev'[i] = IF i = n THEN LIST_PREV_FREE
                                   ELSE IF i = next[n] THEN prev[n] ELSE prev[i]
    /\ Nodes' = Nodes /\ list_free_head' = n
    /\ Linked' = Linked \ {n} /\ Free' = Free \cup {n}

LEMMA DropHasShape ==
    ASSUME Inv, NEW n, n # LIST_ROOT_EL, list_drop(n)
    PROVE  DropShape(n)
<1> DEFINE b == prev[n]
           a == next[n]
<1>1. /\ n \in Linked /\ a \in Linked /\ b \in Linked
      /\ prev[a] = n /\ next[b] = n
      /\ LIST_ROOT_EL \in Linked
  <2>1. n \in Linked
    BY DEF list_drop
  <2>2. used_capacity > 0
    BY <2>1 DEF Linked, Nodes, Inv, TypeOK
  <2> QED BY <2>1, <2>2 DEF Inv, LinksMutual
<1>2. \A i \in Linked : (next[i] = n <=> i = b) /\ (prev[i] = n <=> i = a)
  BY <1>1 DEF Inv, LinksMutual
<1>3. /\ \A i \in Nodes : next'[i] = IF i = n THEN list_free_head
                                   ELSE IF i = b THEN a ELSE next[i]
      /\ \A i \in Nodes : prev'[i] = IF i = n THEN LIST_PREV_FREE
                                   ELSE IF i = a THEN b ELSE prev[i]
      /\ Nodes' = Nodes /\ list_free_head' = n
  BY <1>1 DEF list_drop, Nodes, Linked, Inv, TypeOK
<1>4. Linked' = Linked \ {n} /\ Free' = Free \cup {n}
  <2>1. \A i \in Nodes : prev'[i] # LIST_PREV_FREE <=> i \in Linked \ {n}
    BY <1>1, <1>3 DEF Linked
  <2> QED BY <1>1, <1>3, <2>1 DEF Linked, Free
<1> QED BY <1>1, <1>2, <1>3, <1>4 DEF DropShape

(* Unlinking a node and pushing it on the free list.                       *)
LEMMA DropInv ==
    ASSUME Inv, NEW n \in Nodes \cup {LIST_ROOT_EL}, list_drop(n)
    PROVE  Inv'
<1>1. constructed' \in BOOLEAN /\ ret' \in Errors
  BY DEF list_drop, Inv, TypeOK, Errors
<1>2. CASE n = LIST_ROOT_EL
  <2>1. UNCHANGED list
    BY <1>2 DEF list_drop
  <2> QED BY <1>1, <2>1, UntouchedInv DEF list_drop
<1>3. CASE n # LIST_ROOT_EL
  <2> DEFINE b == prev[n]
             a == next[n]
  <2>1. /\ n \in Linked /\ a \in Linked /\ b \in Linked
        /\ prev[a] = n /\ next[b] = n
        /\ LIST_ROOT_EL \in Linked
    BY <1>3, DropHasShape DEF DropShape
  <2>2. \A i \in Linked : (next[i] = n <=> i = b) /\ (prev[i] = n <=> i = a)
    BY <1>3, DropHasShape DEF DropShape
  <2>3. /\ \A i \in Nodes : next'[i] = IF i = n THEN list_free_head
                                     ELSE IF i = b THEN a ELSE next[i]
        /\ \A i \in Nodes : prev'[i] = IF i = n THEN LIST_PREV_FREE
                                     ELSE IF i = a THEN b ELSE prev[i]
        /\ Nodes' = Nodes /\ list_free_head' = n
    BY <1>3, DropHasShape DEF DropShape
  <2>4. Linked' = Linked \ {n} /\ Free' = Free \cup {n}
    BY <1>3, DropHasShape DEF DropShape
  <2>5. TypeOK'
    <3>1. list_free_head \in Nodes /\ a \in Nodes /\ b \in Nodes /\ n \in Nodes
      BY <2>1 DEF Linked, Inv, TypeOK, LIST_ROOT_EL
    <3>2. next' \in [Nodes -> Nodes] /\ prev' \in [Nodes -> Nodes \cup {LIST_PREV_FREE}]
      BY <1>3, <3>1 DEF list_drop, Inv, TypeOK
    <3> QED BY <1>1, <1>3, <2>3, <3>1, <3>2 DEF list_drop, Inv, TypeOK
  <2>6. LinksMutual'
    <3>1. ASSUME NEW i \in Linked, i # n
          PROVE  /\ next'[i] \in Linked \ {n} /\ prev'[next'[i]] = i
                 /\ prev'[i] \in Linked \ {n} /\ next'[prev'[i]] = i
      <4>1. i \in Nodes /\ next[i] \in Linked /\ prev[i] \in Linked
            /\ next[i] \in Nodes /\ prev[i] \in Nodes
            /\ prev[next[i]] = i /\ next[prev[i]] = i
        BY DEF Inv, LinksMutual, Linked
      <4>2. next'[i] \in Linked \ {n} /\ prev'[next'[i]] = i
        BY <2>1, <2>2, <2>3, <3>1, <4>1 DEF Linked
      <4>3. prev'[i] \in Linked \ {n} /\ next'[prev'[i]] = i
        BY <2>1, <2>2, <2>3, <3>1, <4>1 DEF Linked
      <4> QED BY <4>2, <4>3
    <3> QED BY <1>3, <2>1, <2>4, <3>1 DEF LinksMutual
  <2>7. FreeChainSound'
    <3>1. \A i \in Free : next'[i] = next[i] /\ i # n /\ next[i] # n
      BY <1>3, <2>1, <2>3 DEF Inv, FreeChainSound, Free, Linked
    <3>2. next'[n] = list_free_head /\ n \notin Free
      BY <2>1, <2>3 DEF Linked, Free
    <3> QED BY <1>3, <2>3, <2>4, <3>1, <3>2 DEF Inv, FreeChainSound
  <2> QED BY <2>5, <2>6, <2>7 DEF Inv
<1> QED BY <1>2, <1>3

(* Every step of the list keeps the invariant.                             *)
LEMMA NextInv == ASSUME Inv, [Next]_vars PROVE Inv'
<1>1. CASE list_ctor
  BY <1>1, ResetInv DEF list_ctor
<1>2. CASE list_dtor
  <2>1. array' \in {"null", "freed"}
    BY <1>2 DEF list_dtor
  <2> QED BY <1>2, <2>1, ResetInv DEF list_dtor
<1>7. CASE UseFreed
  BY <1>7, UntouchedInv DEF UseFreed, Inv, TypeOK, Errors
<1>3. CASE \E n \in 0..MaxCapacity + 1 : list_set_capacity(n)
  BY <1>3, SetCapacityInv
<1>4. CASE \E p \in Nodes \cup {LIST_ROOT_EL}, v \in Values : list_insert(p, v)
  BY <1>4, InsertInv
<1>5. CASE \E n \in Nodes \cup {LIST_ROOT_EL} : list_drop(n)
  BY <1>5, DropInv
<1>6. CASE UNCHANGED vars
  BY <1>6, UntouchedInv DEF vars, Inv, TypeOK
<1> QED BY <1>1, <1>2, <1>3, <1>4, <1>5, <1>6, <1>7 DEF Next

(* The three parts of the invariant hold of every list, whatever the       *)
(* sequence of calls and wherever realloc fails.                           *)
THEOREM Invariance == Spec => []Inv
BY InitInv, NextInv, PTL DEF Spec

(* Every array index the code computes stays in the initialised part.      *)
THEOREM TypeCorrect == Spec => []TypeOK
BY Invariance, PTL DEF Inv

(* next and prev are inverse on the linked nodes, sentinel included.       *)
THEOREM LinksAlwaysMutual == Spec => []LinksMutual
BY Invariance, PTL DEF Inv

(* The free list shares no node with the linked list and has no node twice. *)
THEOREM FreeChainAlwaysSound == Spec => []FreeChainSound
BY Invariance, PTL DEF Inv

-----------------------------------------------------------------------------
(* Chains of pointers                                                      *)

(* Following f from start visits s and then the sentinel.                  *)
Chain(f, start, s) ==
    /\ \A i \in 1..Len(s) : s[i] # LIST_ROOT_EL
    /\ start = IF Len(s) = 0 THEN LIST_ROOT_EL ELSE s[1]
    /\ \A i \in 1..Len(s) : f[s[i]] = IF i = Len(s) THEN LIST_ROOT_EL ELSE s[i + 1]

(* The walk of the code along f from start returns the chain from start,   *)
(* when its fuel is enough for it.                                         *)
LEMMA WalkFollowsChain ==
    ASSUME NEW V, NEW f, \A x \in V : f[x] \in V, NEW start \in V,
           NEW fuel \in Nat, NEW s \in Seq(V), Chain(f, start, s), Len(s) <= fuel
    PROVE  Walk(f, start, fuel) = s
<1> DEFINE at == CHOOSE g : g = [k \in Nat |-> IF k = 0 THEN start ELSE f[g[k-1]]]
<1>1. \E g : g = [k \in Nat |-> IF k = 0 THEN start ELSE f[g[k-1]]]
  <2> DEFINE step == [p \in Nat \X V |-> f[p[2]]]
  <2>1. IsRecursion(V, start, step)
    BY DEF IsRecursion
  <2> HIDE DEF step
  <2>2. PICK g : Recurs(g, V, start, step)
    BY <2>1, RecursionExists
  <2> USE DEF Recurs
  <2>3. \A n \in Nat : n # 0 => g[n] = f[g[n - 1]]
    <3>1. ASSUME NEW n \in Nat, n # 0 PROVE g[n] = f[g[n - 1]]
      <4>1. n - 1 \in Nat /\ (n - 1) + 1 = n
        BY <3>1
      <4>2. g[n] = step[<<n - 1, g[n - 1]>>]
        BY <2>2, <4>1
      <4>3. g[n - 1] \in V
        BY <2>2, <4>1
      <4> QED BY <4>1, <4>2, <4>3 DEF step
    <3> QED BY <3>1
  <2>4. g = [k \in Nat |-> IF k = 0 THEN start ELSE f[g[k-1]]]
    BY <2>2, <2>3
  <2> QED BY <2>4
<1>2. at = [k \in Nat |-> IF k = 0 THEN start ELSE f[at[k-1]]]
  BY <1>1
<1> HIDE DEF at
<1>3. at[0] = start /\ \A k \in Nat : at[k + 1] = f[at[k]]
  BY <1>2
<1> DEFINE n == Len(s)
<1> n \in Nat
  OBVIOUS
<1>4. \A k \in 0..n : at[k] = IF k = n THEN LIST_ROOT_EL ELSE s[k + 1]
  <2> DEFINE S == {k \in 0..n : at[k] = IF k = n THEN LIST_ROOT_EL ELSE s[k + 1]}
  <2>1. 0 \in S
    BY <1>3 DEF Chain
  <2>2. ASSUME NEW k \in 0..n - 1, k \in S PROVE k + 1 \in S
    <3>0. k \in Nat /\ k # n /\ k + 1 \in 1..n
      OBVIOUS
    <3>1. at[k] = s[k + 1] /\ at[k + 1] = f[at[k]] /\ k + 1 \in 1..n
      BY <1>3, <2>2, <3>0
    <3>2. f[s[k + 1]] = IF k + 1 = n THEN LIST_ROOT_EL ELSE s[(k + 1) + 1]
      BY <3>1 DEF Chain
    <3> QED BY <3>1, <3>2
  <2>3. 0..n \subseteq S
    <3> HIDE DEF S
    <3> QED BY <2>1, <2>2, SetInductionUpTo
  <2> QED BY <2>3
<1>5. at[n] = LIST_ROOT_EL /\ \A k \in 1..n : at[k - 1] = s[k] /\ s[k] # LIST_ROOT_EL
  BY <1>4 DEF Chain
<1> DEFINE stops == {k \in 0..fuel : at[k] = LIST_ROOT_EL /\ \A j \in 0..k-1 : at[j] # LIST_ROOT_EL}
<1>6. stops = {n}
  <2>1. n \in stops
    BY <1>5
  <2>2. \A k \in stops : k = n
    BY <1>5
  <2> HIDE DEF stops
  <2> QED BY <2>1, <2>2
<1> HIDE DEF stops
<1>7. Walk(f, start, fuel) = [k \in 1..(IF stops = {} THEN fuel ELSE CHOOSE k \in stops : TRUE) |-> at[k-1]]
  BY DEF Walk, stops, at
<1>8. (IF stops = {} THEN fuel ELSE CHOOSE k \in stops : TRUE) = n
  BY <1>6
<1>9. Walk(f, start, fuel) = [k \in 1..n |-> at[k-1]]
  BY <1>7, <1>8
<1> QED BY <1>5, <1>9

(* The chain s of f from start visits every node of E once, and no other.  *)
Threads(f, start, E, s) ==
    /\ s \in Seq(E)
    /\ Chain(f, start, s)
    /\ \A i, j \in 1..Len(s) : s[i] = s[j] => i = j
    /\ \A x \in E : \E i \in 1..Len(s) : s[i] = x

\* s with n after its i-th element, or without that element.
Inserted(s, i, n) ==
    [j \in 1..Len(s) + 1 |-> IF j <= i THEN s[j] ELSE IF j = i + 1 THEN n ELSE s[j - 1]]
Removed(s, i) == [j \in 1..Len(s) - 1 |-> IF j < i THEN s[j] ELSE s[j + 1]]

(* The elements of a sequence with one element more.                       *)
LEMMA InsertedSeq ==
    ASSUME NEW E, NEW s \in Seq(E), NEW i \in 0..Len(s), NEW n
    PROVE  /\ Inserted(s, i, n) \in Seq(E \cup {n})
           /\ Len(Inserted(s, i, n)) = Len(s) + 1
           /\ \A j \in 1..Len(s) + 1 :
                 Inserted(s, i, n)[j] = IF j <= i THEN s[j]
                                        ELSE IF j = i + 1 THEN n ELSE s[j - 1]
<1>1. Inserted(s, i, n) \in [1..Len(s) + 1 -> E \cup {n}]
  BY DEF Inserted
<1>2. Len(s) + 1 \in Nat
  OBVIOUS
<1> QED BY <1>1, <1>2 DEF Inserted

(* A new node in front.                                                    *)
LEMMA ThreadsPush ==
    ASSUME NEW f, NEW g, NEW start, NEW E, NEW s, Threads(f, start, E, s),
           NEW n, n \notin E, n # LIST_ROOT_EL, g[n] = start, \A x \in E : g[x] = f[x]
    PROVE  Threads(g, n, E \cup {n}, Inserted(s, 0, n))
<1> DEFINE t == Inserted(s, 0, n)
<1>1. s \in Seq(E) /\ Len(s) \in Nat /\ \A i \in 1..Len(s) : s[i] \in E
  BY DEF Threads
<1>a. /\ t \in Seq(E \cup {n}) /\ Len(t) = Len(s) + 1
      /\ \A j \in 1..Len(s) + 1 :
            t[j] = IF j <= 0 THEN s[j] ELSE IF j = 0 + 1 THEN n ELSE s[j - 1]
  BY <1>1, InsertedSeq
<1> HIDE DEF t
<1>2. /\ t \in Seq(E \cup {n}) /\ Len(t) = Len(s) + 1
      /\ t[1] = n /\ \A j \in 2..Len(s) + 1 : t[j] = s[j - 1] /\ j - 1 \in 1..Len(s)
  BY <1>1, <1>a
<1>3. Chain(g, n, t)
  <2>1. \A j \in 1..Len(t) : t[j] # LIST_ROOT_EL
    <3>1. \A j \in 1..Len(s) : s[j] # LIST_ROOT_EL
      BY DEF Threads, Chain
    <3>2. ASSUME NEW j \in 1..Len(t) PROVE t[j] # LIST_ROOT_EL
      <4>1. j = 1 \/ j \in 2..Len(s) + 1
        BY <1>1, <1>2
      <4> QED BY <1>2, <3>1, <4>1
    <3> QED BY <3>2
  <2>2. ASSUME NEW j \in 1..Len(t)
        PROVE  g[t[j]] = IF j = Len(t) THEN LIST_ROOT_EL ELSE t[j + 1]
    <3>1. CASE j = 1
      <4>1. g[t[j]] = start
        BY <1>2, <3>1
      <4>2. CASE Len(s) = 0
        BY <1>2, <3>1, <4>1, <4>2 DEF Threads, Chain
      <4>3. CASE Len(s) # 0
        BY <1>1, <1>2, <3>1, <4>1, <4>3 DEF Threads, Chain
      <4> QED BY <4>2, <4>3
    <3>2. CASE j # 1
      <4>1. j - 1 \in 1..Len(s) /\ t[j] = s[j - 1]
        BY <1>1, <1>2, <3>2
      <4>2. g[t[j]] = f[s[j - 1]]
        BY <1>1, <4>1
      <4>3. f[s[j - 1]] = IF j - 1 = Len(s) THEN LIST_ROOT_EL ELSE s[(j - 1) + 1]
        BY <4>1 DEF Threads, Chain
      <4> QED BY <1>1, <1>2, <3>2, <4>1, <4>2, <4>3
    <3> QED BY <3>1, <3>2
  <2> QED BY <1>1, <1>2, <2>1, <2>2 DEF Chain
<1>4. \A i, j \in 1..Len(t) : t[i] = t[j] => i = j
  <2>1. \A j \in 1..Len(t) : j # 1 => t[j] \in E
    BY <1>1, <1>2
  <2>2. ASSUME NEW i \in 1..Len(t), NEW j \in 1..Len(t), t[i] = t[j] PROVE i = j
    <3>1. CASE i = 1 \/ j = 1
      BY <1>2, <2>1, <2>2, <3>1
    <3>2. CASE i # 1 /\ j # 1
      <4>1. i - 1 \in 1..Len(s) /\ j - 1 \in 1..Len(s) /\ s[i - 1] = s[j - 1]
        BY <1>1, <1>2, <2>2, <3>2
      <4>2. i - 1 = j - 1
        BY <4>1 DEF Threads
      <4> QED BY <4>2
    <3> QED BY <3>1, <3>2
  <2> QED BY <2>2
<1>5. ASSUME NEW x \in E \cup {n} PROVE \E i \in 1..Len(t) : t[i] = x
  <2>1. CASE x = n
    BY <1>1, <1>2, <2>1
  <2>2. CASE x \in E
    <3>1. PICK i \in 1..Len(s) : s[i] = x
      BY <2>2 DEF Threads
    <3>2. i + 1 \in 2..Len(s) + 1 /\ t[i + 1] = s[(i + 1) - 1]
      BY <1>1, <1>2
    <3> QED BY <1>1, <1>2, <3>1, <3>2
  <2> QED BY <2>1, <2>2
<1> QED BY <1>2, <1>3, <1>4, <1>5 DEF Threads, t

(* A new node after the i-th.                                              *)
LEMMA ThreadsInsert ==
    ASSUME NEW f, NEW g, NEW start, NEW E, NEW s, Threads(f, start, E, s),
           NEW i \in 1..Len(s), NEW n, n \notin E, n # LIST_ROOT_EL,
           g[s[i]] = n, g[n] = f[s[i]], \A x \in E : x # s[i] => g[x] = f[x]
    PROVE  Threads(g, start, E \cup {n}, Inserted(s, i, n))
<1> DEFINE t == Inserted(s, i, n)
<1>1. /\ s \in Seq(E) /\ Len(s) \in Nat /\ i \in Nat /\ i <= Len(s) /\ i >= 1
      /\ \A j \in 1..Len(s) : s[j] \in E /\ s[j] # n
      /\ \A j \in 1..Len(s) : j # i => s[j] # s[i]
  BY DEF Threads
<1>2. /\ t \in Seq(E \cup {n}) /\ Len(t) = Len(s) + 1
      /\ \A j \in 1..Len(s) + 1 :
            t[j] = IF j <= i THEN s[j] ELSE IF j = i + 1 THEN n ELSE s[j - 1]
  <2>1. i \in 0..Len(s)
    BY <1>1
  <2>2. s \in Seq(E)
    BY <1>1
  <2>3. t \in Seq(E \cup {n})
    BY <2>1, <2>2, InsertedSeq
  <2>4. Len(t) = Len(s) + 1
    BY <2>1, <2>2, <2>3, InsertedSeq
  <2>5. \A j \in 1..Len(s) + 1 :
            t[j] = IF j <= i THEN s[j] ELSE IF j = i + 1 THEN n ELSE s[j - 1]
    BY <2>1, <2>2 DEF Inserted
  <2> QED BY <2>3, <2>4, <2>5
<1> HIDE DEF t
<1>3. /\ \A j \in 1..i : t[j] = s[j] /\ j \in 1..Len(s)
      /\ t[i + 1] = n /\ i + 1 \in 1..Len(t)
      /\ \A j \in i+2..Len(s) + 1 : t[j] = s[j - 1] /\ j - 1 \in 1..Len(s)
  BY <1>1, <1>2
<1>4. Chain(g, start, t)
  <2>1. \A j \in 1..Len(t) : t[j] # LIST_ROOT_EL
    <3>1. \A j \in 1..Len(s) : s[j] # LIST_ROOT_EL
      BY DEF Threads, Chain
    <3>2. ASSUME NEW j \in 1..Len(t) PROVE t[j] # LIST_ROOT_EL
      <4>1. \/ j \in 1..i \/ j = i + 1 \/ j \in i+2..Len(s) + 1
        BY <1>1, <1>2
      <4> QED BY <1>1, <1>3, <3>1, <4>1
    <3> QED BY <3>2
  <2>2. ASSUME NEW j \in 1..Len(t)
        PROVE  g[t[j]] = IF j = Len(t) THEN LIST_ROOT_EL ELSE t[j + 1]
    <3>1. \A k \in 1..Len(s) : f[s[k]] = IF k = Len(s) THEN LIST_ROOT_EL ELSE s[k + 1]
      BY DEF Threads, Chain
    <3>2. CASE j < i
      <4>0. j \in 1..i /\ j + 1 \in 1..i /\ j \in 1..Len(s) /\ j # Len(s) /\ j # i
        BY <1>1, <3>2
      <4>1. t[j] = s[j] /\ t[j + 1] = s[j + 1] /\ g[s[j]] = f[s[j]] /\ j # Len(s)
        BY <1>1, <1>3, <4>0
      <4> QED BY <1>1, <1>2, <3>1, <3>2, <4>1
    <3>3. CASE j = i
      BY <1>1, <1>2, <1>3, <3>3
    <3>4. CASE j = i + 1
      <4>1. g[t[j]] = f[s[i]]
        BY <1>3, <3>4
      <4>2. CASE i = Len(s)
        BY <1>1, <1>2, <3>1, <3>4, <4>1, <4>2
      <4>3. CASE i # Len(s)
        <5>1. i + 2 \in i+2..Len(s) + 1
          BY <1>1, <4>3
        <5>2. t[i + 2] = s[i + 1]
          BY <1>1, <1>3, <5>1
        <5> QED BY <1>1, <1>2, <3>1, <3>4, <4>1, <4>3, <5>2
      <4> QED BY <4>2, <4>3
    <3>5. CASE j > i + 1
      <4>1. j \in i+2..Len(s) + 1
        BY <1>1, <1>2, <3>5
      <4>2. t[j] = s[j - 1] /\ j - 1 \in 1..Len(s) /\ j - 1 # i
        BY <1>1, <1>3, <4>1
      <4>3. g[t[j]] = f[s[j - 1]]
        BY <1>1, <4>2
      <4>4. f[s[j - 1]] = IF j - 1 = Len(s) THEN LIST_ROOT_EL ELSE s[(j - 1) + 1]
        BY <3>1, <4>2
      <4>5. j # Len(t) => t[j + 1] = s[j]
        <5>0. Len(t) = Len(s) + 1 /\ Len(s) \in Nat /\ i \in Nat /\ j \in 1..Len(t)
          BY <1>1, <1>2
        <5>1. j # Len(t) => j + 1 \in i+2..Len(s) + 1
          BY <3>5, <5>0
        <5>2. j # Len(t) => t[j + 1] = s[(j + 1) - 1]
          BY <1>3, <5>1
        <5>3. (j + 1) - 1 = j
          BY <1>1, <1>2
        <5> QED BY <5>2, <5>3, Zenon
      <4> QED BY <1>1, <1>2, <4>2, <4>3, <4>4, <4>5
    <3> QED BY <1>1, <3>2, <3>3, <3>4, <3>5
  <2>3. start = t[1] /\ Len(t) # 0
    BY <1>1, <1>2, <1>3 DEF Threads, Chain
  <2> QED BY <2>1, <2>2, <2>3 DEF Chain
<1>5. ASSUME NEW a \in 1..Len(t), NEW b \in 1..Len(t), t[a] = t[b] PROVE a = b
  <2> DEFINE back(j) == IF j <= i THEN j ELSE j - 1
  <2>1. ASSUME NEW j \in 1..Len(t), j # i + 1
        PROVE  back(j) \in 1..Len(s) /\ t[j] = s[back(j)]
    BY <1>1, <1>2, <2>1
  <2>2. CASE a = i + 1 \/ b = i + 1
    <3>1. \A j \in 1..Len(t) : j # i + 1 => t[j] # n
      BY <1>1, <2>1
    <3> QED BY <1>3, <1>5, <2>2, <3>1
  <2>3. CASE a # i + 1 /\ b # i + 1
    <3>1. back(a) = back(b)
      <4>1. /\ back(a) \in 1..Len(s) /\ back(b) \in 1..Len(s)
            /\ s[back(a)] = s[back(b)]
        <5> HIDE DEF back
        <5> QED BY <1>5, <2>1, <2>3
      <4> HIDE DEF back
      <4> QED BY <4>1 DEF Threads
    <3> QED BY <1>1, <1>2, <2>3, <3>1
  <2> QED BY <2>2, <2>3
<1>6. ASSUME NEW x \in E \cup {n} PROVE \E j \in 1..Len(t) : t[j] = x
  <2>1. CASE x = n
    BY <1>1, <1>2, <1>3, <2>1
  <2>2. CASE x \in E
    <3>1. PICK j \in 1..Len(s) : s[j] = x
      BY <2>2 DEF Threads
    <3>2. CASE j <= i
      BY <1>1, <1>2, <1>3, <3>1, <3>2
    <3>3. CASE j > i
      <4>1. j + 1 \in i+2..Len(s) + 1 /\ (j + 1) - 1 = j /\ j + 1 \in 1..Len(t)
        BY <1>1, <1>2, <3>3
      <4> QED BY <1>3, <3>1, <4>1
    <3> QED BY <1>1, <3>2, <3>3
  <2> QED BY <2>1, <2>2
<1> QED BY <1>2, <1>4, <1>5, <1>6 DEF Threads, t

\* What is known of t, which is s without its i-th element.
Without(E, s, i, t) ==
    /\ t \in Seq(E \ {s[i]}) /\ Len(t) = Len(s) - 1
    /\ \A j \in 1..i - 1 : t[j] = s[j] /\ j \in 1..Len(s)
    /\ \A j \in i..Len(s) - 1 : t[j] = s[j + 1] /\ j + 1 \in 1..Len(s)
    /\ \A a, b \in 1..Len(t) : t[a] = t[b] => a = b
    /\ \A x \in E \ {s[i]} : \E j \in 1..Len(t) : t[j] = x

(* The elements of a sequence without repetitions with one element less.   *)
LEMMA RemovedSeq ==
    ASSUME NEW f, NEW start, NEW E, NEW s, Threads(f, start, E, s), NEW i \in 1..Len(s)
    PROVE  Without(E, s, i, Removed(s, i))
<1> DEFINE t == Removed(s, i)
<1>1. /\ s \in Seq(E) /\ Len(s) \in Nat /\ i \in Nat /\ i >= 1 /\ i <= Len(s)
      /\ \A j \in 1..Len(s) : s[j] \in E
      /\ \A a, b \in 1..Len(s) : s[a] = s[b] => a = b
  BY DEF Threads
<1> DEFINE fwd(j) == IF j < i THEN j ELSE j + 1
<1>2. ASSUME NEW j \in 1..Len(s) - 1
      PROVE  fwd(j) \in 1..Len(s) /\ fwd(j) # i /\ t[j] = s[fwd(j)]
  BY <1>1 DEF Removed
<1>3. t \in [1..Len(s) - 1 -> E \ {s[i]}]
  <2>1. \A j \in 1..Len(s) - 1 : s[fwd(j)] \in E \ {s[i]}
    <3> HIDE DEF fwd
    <3> QED BY <1>1, <1>2
  <2>2. t = [j \in 1..Len(s) - 1 |-> s[fwd(j)]]
    BY <1>1 DEF Removed
  <2> HIDE DEF fwd
  <2> QED BY <2>1, <2>2
<1>4. t \in Seq(E \ {s[i]}) /\ Len(t) = Len(s) - 1
  <2>1. Len(s) - 1 \in Nat
    BY <1>1
  <2> QED BY <1>3, <2>1
<1>5. \A j \in 1..i - 1 : t[j] = s[j] /\ j \in 1..Len(s)
  BY <1>1, <1>2
<1>6. \A j \in i..Len(s) - 1 : t[j] = s[j + 1] /\ j + 1 \in 1..Len(s)
  BY <1>1, <1>2
<1>7. ASSUME NEW a \in 1..Len(t), NEW b \in 1..Len(t), t[a] = t[b] PROVE a = b
  <2>1. a \in 1..Len(s) - 1 /\ b \in 1..Len(s) - 1
    BY <1>4
  <2>2. fwd(a) = fwd(b)
    <3> HIDE DEF fwd
    <3> QED BY <1>1, <1>2, <1>7, <2>1
  <2> QED BY <1>1, <2>1, <2>2
<1>8. ASSUME NEW x \in E \ {s[i]} PROVE \E j \in 1..Len(t) : t[j] = x
  <2>1. PICK k \in 1..Len(s) : s[k] = x
    BY DEF Threads
  <2>2. k # i
    BY <2>1
  <2>3. CASE k < i
    <3>1. k \in 1..i - 1 /\ k \in 1..Len(t)
      BY <1>1, <1>4, <2>3
    <3> QED BY <1>5, <2>1, <3>1
  <2>4. CASE k > i
    <3>1. k - 1 \in i..Len(s) - 1 /\ k - 1 \in 1..Len(t) /\ (k - 1) + 1 = k
      BY <1>1, <1>4, <2>4
    <3> QED BY <1>6, <2>1, <3>1
  <2> QED BY <1>1, <2>2, <2>3, <2>4
<1> HIDE DEF t
<1> QED BY <1>4, <1>5, <1>6, <1>7, <1>8 DEF Without, t

(* The first node leaves.                                                  *)
LEMMA ThreadsPop ==
    ASSUME NEW f, NEW g, NEW start, NEW E, NEW s, Threads(f, start, E, s),
           Len(s) # 0, \A x \in E \ {s[1]} : g[x] = f[x]
    PROVE  Threads(g, f[s[1]], E \ {s[1]}, Removed(s, 1))
<1> DEFINE t == Removed(s, 1)
<1>1. s \in Seq(E) /\ Len(s) \in Nat /\ 1 \in 1..Len(s)
  BY DEF Threads
<1>2. /\ t \in Seq(E \ {s[1]}) /\ Len(t) = Len(s) - 1
      /\ \A j \in 1..Len(s) - 1 : t[j] = s[j + 1] /\ j + 1 \in 1..Len(s)
      /\ \A a, b \in 1..Len(t) : t[a] = t[b] => a = b
      /\ \A x \in E \ {s[1]} : \E j \in 1..Len(t) : t[j] = x
  <2>1. Without(E, s, 1, t)
    BY <1>1, RemovedSeq
  <2> HIDE DEF t
  <2> QED BY <2>1 DEF Without
<1> HIDE DEF t
<1>3. \A k \in 1..Len(s) : /\ f[s[k]] = IF k = Len(s) THEN LIST_ROOT_EL ELSE s[k + 1]
                           /\ s[k] # LIST_ROOT_EL
  BY DEF Threads, Chain
<1>4. ASSUME NEW j \in 1..Len(t)
      PROVE  /\ t[j] # LIST_ROOT_EL
             /\ g[t[j]] = IF j = Len(t) THEN LIST_ROOT_EL ELSE t[j + 1]
  <2>1. j \in 1..Len(s) - 1 /\ t[j] = s[j + 1] /\ j + 1 \in 1..Len(s)
    BY <1>2
  <2>2. t[j] \in E \ {s[1]}
    BY <1>2
  <2>3. g[t[j]] = IF j + 1 = Len(s) THEN LIST_ROOT_EL ELSE s[(j + 1) + 1]
    BY <1>3, <2>1, <2>2
  <2>4. j # Len(t) => t[j + 1] = s[(j + 1) + 1]
    <3>1. j # Len(t) => j + 1 \in 1..Len(s) - 1
      BY <1>1, <1>2
    <3> QED BY <1>2, <3>1
  <2> QED BY <1>1, <1>2, <1>3, <2>1, <2>3, <2>4
<1>5. f[s[1]] = IF Len(t) = 0 THEN LIST_ROOT_EL ELSE t[1]
  <2>1. f[s[1]] = IF 1 = Len(s) THEN LIST_ROOT_EL ELSE s[1 + 1]
    BY <1>1, <1>3
  <2>2. Len(t) # 0 => t[1] = s[1 + 1]
    <3>1. Len(t) # 0 => 1 \in 1..Len(s) - 1
      BY <1>1, <1>2
    <3> QED BY <1>2, <3>1
  <2> QED BY <1>1, <1>2, <2>1, <2>2
<1>6. Chain(g, f[s[1]], t)
  BY <1>4, <1>5 DEF Chain
<1> QED BY <1>2, <1>6 DEF Threads, t

(* Another node leaves.                                                    *)
LEMMA ThreadsRemove ==
    ASSUME NEW f, NEW g, NEW start, NEW E, NEW s, Threads(f, start, E, s),
           NEW i \in 1..Len(s), i # 1, g[s[i - 1]] = f[s[i]],
           \A x \in E \ {s[i]} : x # s[i - 1] => g[x] = f[x]
    PROVE  Threads(g, start, E \ {s[i]}, Removed(s, i))
<1> DEFINE t == Removed(s, i)
<1>1. /\ s \in Seq(E) /\ Len(s) \in Nat /\ i \in Nat /\ i <= Len(s) /\ i >= 2
      /\ \A a, b \in 1..Len(s) : s[a] = s[b] => a = b
  <2>1. s \in Seq(E)
    BY DEF Threads
  <2>2. Len(s) \in Nat
    BY <2>1
  <2>3. i \in Nat /\ i <= Len(s) /\ i >= 2
    BY <2>2
  <2> QED BY <2>1, <2>2, <2>3 DEF Threads
<1>2. /\ t \in Seq(E \ {s[i]}) /\ Len(t) = Len(s) - 1
      /\ \A j \in 1..i - 1 : t[j] = s[j] /\ j \in 1..Len(s)
      /\ \A j \in i..Len(s) - 1 : t[j] = s[j + 1] /\ j + 1 \in 1..Len(s)
      /\ \A a, b \in 1..Len(t) : t[a] = t[b] => a = b
      /\ \A x \in E \ {s[i]} : \E j \in 1..Len(t) : t[j] = x
  <2>1. i \in 1..Len(s)
    BY <1>1
  <2>2. Without(E, s, i, t)
    BY <2>1, RemovedSeq
  <2> HIDE DEF t
  <2> QED BY <2>2 DEF Without
<1> HIDE DEF t
<1>3. \A k \in 1..Len(s) : /\ f[s[k]] = IF k = Len(s) THEN LIST_ROOT_EL ELSE s[k + 1]
                           /\ s[k] # LIST_ROOT_EL
  BY DEF Threads, Chain
<1>4. ASSUME NEW j \in 1..Len(t)
      PROVE  /\ t[j] # LIST_ROOT_EL
             /\ g[t[j]] = IF j = Len(t) THEN LIST_ROOT_EL ELSE t[j + 1]
  <2>0. t[j] \in E \ {s[i]} /\ j \in Nat /\ j <= Len(s) - 1 /\ j >= 1
    BY <1>1, <1>2
  <2>1. CASE j < i - 1
    <3>1. j \in 1..i - 1 /\ j + 1 \in 1..i - 1 /\ i - 1 \in 1..Len(s) /\ j # i - 1
      BY <1>1, <2>0, <2>1
    <3>2. t[j] = s[j] /\ t[j + 1] = s[j + 1] /\ s[j] # s[i - 1] /\ j \in 1..Len(s)
      BY <1>1, <1>2, <3>1
    <3>3. g[t[j]] = f[s[j]]
      BY <2>0, <3>2
    <3>4. f[s[j]] = s[j + 1] /\ t[j] # LIST_ROOT_EL
      BY <1>1, <1>3, <2>0, <2>1, <3>2
    <3>5. j # Len(t)
      BY <1>1, <1>2, <2>1
    <3> QED BY <3>2, <3>3, <3>4, <3>5
  <2>2. CASE j = i - 1
    <3>0. j \in 1..i - 1 /\ i - 1 \in 1..Len(s)
      BY <1>1, <2>0, <2>2
    <3>1. t[j] = s[i - 1] /\ i - 1 \in 1..Len(s) /\ i \in 1..Len(s)
      BY <1>2, <2>2, <3>0
    <3>2. g[t[j]] = IF i = Len(s) THEN LIST_ROOT_EL ELSE s[i + 1]
      BY <1>3, <3>1
    <3>3. i # Len(s) => t[i] = s[i + 1]
      <4>1. i # Len(s) => i \in i..Len(s) - 1
        BY <1>1
      <4> QED BY <1>2, <4>1
    <3>4. j + 1 = i /\ (j = Len(t) <=> i = Len(s)) /\ t[j] # LIST_ROOT_EL
      BY <1>1, <1>2, <1>3, <2>2, <3>1
    <3> QED BY <3>2, <3>3, <3>4
  <2>3. CASE j > i - 1
    <3>0. Len(t) = Len(s) - 1
      BY <1>2
    <3>1. /\ j \in i..Len(s) - 1 /\ i - 1 \in 1..Len(s)
          /\ j # Len(t) => j + 1 \in i..Len(s) - 1
      BY <1>1, <2>0, <2>3, <3>0
    <3>2. t[j] = s[j + 1] /\ j + 1 \in 1..Len(s) /\ s[j + 1] # s[i - 1]
      <4>1. t[j] = s[j + 1] /\ j + 1 \in 1..Len(s)
        BY <1>2, <3>1
      <4>2. j + 1 # i - 1
        BY <1>1, <2>0, <2>3
      <4> QED BY <1>1, <3>1, <4>1, <4>2
    <3>3. g[t[j]] = f[s[j + 1]]
      BY <2>0, <3>2
    <3>4. f[s[j + 1]] = IF j + 1 = Len(s) THEN LIST_ROOT_EL ELSE s[(j + 1) + 1]
      BY <1>3, <3>2
    <3>5. j # Len(t) => t[j + 1] = s[(j + 1) + 1]
      BY <1>2, <3>1
    <3>6. t[j] # LIST_ROOT_EL
      BY <1>3, <3>2
    <3> QED BY <1>1, <2>0, <3>0, <3>2, <3>3, <3>4, <3>5, <3>6
  <2> QED BY <1>1, <2>0, <2>1, <2>2, <2>3
<1>5. start = t[1] /\ Len(t) # 0
  <2>1. start = s[1] /\ Len(s) # 0
    BY <1>1 DEF Threads, Chain
  <2>2. 1 \in 1..i - 1
    BY <1>1
  <2>3. Len(t) = Len(s) - 1
    BY <1>2
  <2>4. Len(t) # 0
    BY <1>1, <2>3
  <2> QED BY <1>2, <2>1, <2>2, <2>4
<1>6. Chain(g, start, t)
  BY <1>4, <1>5 DEF Chain
<1> QED BY <1>2, <1>6 DEF Threads, t

-----------------------------------------------------------------------------
(* The ring and the free list as chains that share out the nodes           *)

\* The nodes the callers have handles to.
Elements == Linked \ {LIST_ROOT_EL}

\* s is the ring from its first element, t the free list from its head.
ListsAre(s, t) ==
    /\ Threads(next, next[LIST_ROOT_EL], Elements, s)
    /\ Threads(next, list_free_head, Free, t)
    /\ Len(s) + Len(t) + 1 = used_capacity

(* A node linked after p comes after p in the ring, whatever else moves.   *)
LEMMA RingGrows ==
    ASSUME NEW s, Threads(next, next[LIST_ROOT_EL], Elements, s),
           LIST_ROOT_EL \in Linked, NEW p \in Linked, NEW n, n \notin Linked,
           Linked' = Linked \cup {n}, next'[p] = n, next'[n] = next[p],
           \A x \in Linked : x # p => next'[x] = next[x]
    PROVE  \E i \in 0..Len(s) :
              /\ p = IF i = 0 THEN LIST_ROOT_EL ELSE s[i]
              /\ Threads(next', next'[LIST_ROOT_EL], Elements', Inserted(s, i, n))
<1>1. /\ n \notin Elements /\ n # LIST_ROOT_EL /\ Elements' = Elements \cup {n}
      /\ Len(s) \in Nat
  BY DEF Elements, Threads
<1>2. CASE p = LIST_ROOT_EL
  <2>1. Threads(next', n, Elements \cup {n}, Inserted(s, 0, n))
    <3>1. next'[n] = next[LIST_ROOT_EL] /\ \A x \in Elements : next'[x] = next[x]
      BY <1>2 DEF Elements
    <3> QED BY <1>1, <3>1, ThreadsPush
  <2> QED BY <1>1, <1>2, <2>1
<1>3. CASE p # LIST_ROOT_EL
  <2>1. PICK i \in 1..Len(s) : s[i] = p
    BY <1>3 DEF Threads, Elements
  <2>2. next'[LIST_ROOT_EL] = next[LIST_ROOT_EL]
    BY <1>3
  <2>3. /\ next'[s[i]] = n /\ next'[n] = next[s[i]]
        /\ \A x \in Elements : x # s[i] => next'[x] = next[x]
    BY <2>1 DEF Elements
  <2>4. Threads(next', next[LIST_ROOT_EL], Elements \cup {n}, Inserted(s, i, n))
    BY <1>1, <2>3, ThreadsInsert
  <2>5. i \in 0..Len(s) /\ i # 0
    BY <1>1
  <2> QED BY <1>1, <2>1, <2>2, <2>4, <2>5
<1> QED BY <1>2, <1>3

(* A node that leaves the ring does not move the others.                   *)
LEMMA RingShrinks ==
    ASSUME NEW s, Threads(next, next[LIST_ROOT_EL], Elements, s), Inv,
           NEW n \in Elements, DropShape(n)
    PROVE  \E i \in 1..Len(s) :
              /\ s[i] = n
              /\ Threads(next', next'[LIST_ROOT_EL], Elements', Removed(s, i))
<1>1. PICK i \in 1..Len(s) : s[i] = n
  BY DEF Threads
<1>2. Elements' = Elements \ {s[i]} /\ Len(s) \in Nat /\ LIST_ROOT_EL \in Nodes
  BY <1>1 DEF DropShape, Elements, Threads, Linked
<1>3. \A k \in 1..Len(s) : /\ next[s[k]] = IF k = Len(s) THEN LIST_ROOT_EL ELSE s[k + 1]
                           /\ s[k] \in Elements /\ s[k] \in Nodes
  BY DEF Threads, Chain, Elements, Linked
<1>4. \A x \in Elements \ {n} : x # prev[n] => next'[x] = next[x]
  BY DEF DropShape, Elements, Linked
<1>5. CASE i = 1
  <2>1. next[LIST_ROOT_EL] = n
    BY <1>1, <1>2, <1>5 DEF Threads, Chain
  <2>2. prev[n] = LIST_ROOT_EL
    BY <2>1 DEF DropShape
  <2>3. next'[LIST_ROOT_EL] = next[n]
    BY <1>2, <2>2 DEF DropShape, Elements
  <2>4. \A x \in Elements \ {s[1]} : next'[x] = next[x]
    BY <1>1, <1>4, <1>5, <2>2 DEF Elements
  <2>5. Threads(next', next[s[1]], Elements \ {s[1]}, Removed(s, 1))
    <3>1. Len(s) # 0
      BY <1>2, <1>5
    <3> QED BY <2>4, <3>1, ThreadsPop
  <2> QED BY <1>1, <1>2, <1>5, <2>3, <2>5
<1>6. CASE i # 1
  <2>1. i - 1 \in 1..Len(s) /\ (i - 1) + 1 = i /\ i - 1 # Len(s)
    BY <1>2, <1>6
  <2>2. next[s[i - 1]] = n
    BY <1>1, <1>3, <2>1
  <2>3. prev[n] = s[i - 1] /\ s[i - 1] # LIST_ROOT_EL /\ s[i - 1] # n
    <3>1. \A a, b \in 1..Len(s) : s[a] = s[b] => a = b
      BY DEF Threads
    <3>2. s[i - 1] # n
      BY <1>1, <2>1, <3>1
    <3>3. s[i - 1] \in Linked /\ s[i - 1] # LIST_ROOT_EL
      BY <1>3, <2>1 DEF Elements
    <3>4. prev[n] = s[i - 1]
      BY <2>2, <3>3 DEF DropShape
    <3> QED BY <3>2, <3>3, <3>4
  <2>4. next'[s[i - 1]] = next[s[i]]
    BY <1>1, <1>3, <2>1, <2>3 DEF DropShape
  <2>5. next'[LIST_ROOT_EL] = next[LIST_ROOT_EL]
    BY <1>2, <2>3 DEF DropShape, Elements
  <2>6. \A x \in Elements \ {s[i]} : x # s[i - 1] => next'[x] = next[x]
    BY <1>1, <1>4, <2>3
  <2>7. Threads(next', next[LIST_ROOT_EL], Elements \ {s[i]}, Removed(s, i))
    BY <1>6, <2>4, <2>6, ThreadsRemove
  <2> QED BY <1>1, <1>2, <2>5, <2>7
<1> QED BY <1>5, <1>6

\* The two chains after a step.
ListsNext(s, t) ==
    /\ Threads(next', next'[LIST_ROOT_EL], Elements', s)
    /\ Threads(next', list_free_head', Free', t)
    /\ Len(s) + Len(t) + 1 = used_capacity'

(* Reusing a free node takes it from the head of the free list and puts it *)
(* right after its parent.                                                 *)
LEMMA ReuseMoves ==
    ASSUME Inv, NEW s, NEW t, ListsAre(s, t), NEW p \in Linked, NEW v, ReuseFreeNode(p, v)
    PROVE  \E i \in 0..Len(s) :
              /\ p = IF i = 0 THEN LIST_ROOT_EL ELSE s[i]
              /\ ListsNext(Inserted(s, i, list_free_head), Removed(t, 1))
<1> DEFINE n == list_free_head
<1>1. ReuseShape(p)
  BY ReuseHasShape
<1>2. Threads(next, next[LIST_ROOT_EL], Elements, s) /\ Threads(next, n, Free, t)
  BY DEF ListsAre
<1>3. \E i \in 0..Len(s) :
              /\ p = IF i = 0 THEN LIST_ROOT_EL ELSE s[i]
              /\ Threads(next', next'[LIST_ROOT_EL], Elements', Inserted(s, i, n))
  <2>1. /\ LIST_ROOT_EL \in Linked /\ n \notin Linked /\ Linked' = Linked \cup {n}
        /\ next'[p] = n /\ next'[n] = next[p]
        /\ \A x \in Linked : x # p => next'[x] = next[x]
    BY <1>1 DEF ReuseShape, Linked
  <2> HIDE DEF n
  <2> QED BY <1>2, <2>1, RingGrows
<1>4. Len(t) # 0 /\ t[1] = n
  <2>1. n \in Free /\ n # LIST_ROOT_EL
    BY <1>1 DEF ReuseShape
  <2> QED BY <1>2, <2>1 DEF Threads, Chain
<1>5. Threads(next', list_free_head', Free', Removed(t, 1))
  <2>1. \A x \in Free \ {t[1]} : next'[x] = next[x]
    BY <1>1, <1>4 DEF ReuseShape, Free, Linked
  <2>2. list_free_head' = next[t[1]] /\ Free' = Free \ {t[1]}
    BY <1>1, <1>4 DEF ReuseShape, ReuseFreeNode
  <2> QED BY <1>2, <1>4, <2>1, <2>2, ThreadsPop
<1>6. \A i \in 0..Len(s) : Len(Inserted(s, i, n)) + Len(Removed(t, 1)) + 1 = used_capacity'
  <2>1. s \in Seq(Elements) /\ t \in Seq(Free) /\ 1 \in 1..Len(t)
    BY <1>2, <1>4 DEF Threads
  <2>2. \A i \in 0..Len(s) : Len(Inserted(s, i, n)) = Len(s) + 1
    BY <2>1, InsertedSeq
  <2>3. Without(Free, t, 1, Removed(t, 1))
    BY <1>2, <2>1, RemovedSeq
  <2>4. Len(Removed(t, 1)) = Len(t) - 1
    BY <2>3 DEF Without
  <2>5. Len(s) \in Nat /\ Len(t) \in Nat
    BY <2>1
  <2>6. used_capacity' = Len(s) + Len(t) + 1
    BY DEF ReuseFreeNode, ListsAre
  <2> QED BY <2>2, <2>4, <2>5, <2>6
<1> QED BY <1>3, <1>5, <1>6 DEF ListsNext

(* A free list whose head is the sentinel is empty.                        *)
LEMMA FreeListEmpty ==
    ASSUME NEW s, NEW t, ListsAre(s, t), list_free_head = LIST_ROOT_EL
    PROVE  t = <<>> /\ Free = {}
<1>1. t \in Seq(Free) /\ Len(t) \in Nat
  BY DEF ListsAre, Threads
<1>2. Len(t) = 0
  BY <1>1 DEF ListsAre, Threads, Chain
<1> QED BY <1>1, <1>2 DEF ListsAre, Threads

(* A new node comes right after its parent.                                *)
LEMMA TakeNewMoves ==
    ASSUME Inv, NEW s, NEW t, ListsAre(s, t), NEW p \in Linked, NEW v,
           capacity # 0, TakeNewNode(p, v)
    PROVE  \E i \in 0..Len(s) :
              /\ p = IF i = 0 THEN LIST_ROOT_EL ELSE s[i]
              /\ ListsNext(Inserted(s, i, used_capacity), t)
<1> DEFINE n == used_capacity
<1>1. TakeNewShape(p)
  BY TakeNewHasShape
<1>2. Threads(next, next[LIST_ROOT_EL], Elements, s) /\ Threads(next, list_free_head, Free, t)
  BY DEF ListsAre
<1>3. \E i \in 0..Len(s) :
              /\ p = IF i = 0 THEN LIST_ROOT_EL ELSE s[i]
              /\ Threads(next', next'[LIST_ROOT_EL], Elements', Inserted(s, i, n))
  <2>1. /\ LIST_ROOT_EL \in Linked /\ n \notin Linked /\ Linked' = Linked \cup {n}
        /\ next'[p] = n /\ next'[n] = next[p]
        /\ \A x \in Linked : x # p => next'[x] = next[x]
    BY <1>1 DEF TakeNewShape, Linked
  <2> HIDE DEF n
  <2> QED BY <1>2, <2>1, RingGrows
<1>4. t = <<>> /\ Free' = {} /\ list_free_head' = LIST_ROOT_EL
  BY <1>1, FreeListEmpty DEF TakeNewShape
<1>5. Threads(next', list_free_head', Free', t)
  BY <1>4 DEF Threads, Chain
<1>6. \A i \in 0..Len(s) : Len(Inserted(s, i, n)) + Len(t) + 1 = used_capacity'
  <2>1. s \in Seq(Elements)
    BY <1>2 DEF Threads
  <2>2. \A i \in 0..Len(s) : Len(Inserted(s, i, n)) = Len(s) + 1
    BY <2>1, InsertedSeq
  <2>5. Len(s) \in Nat /\ Len(t) = 0
    BY <1>4, <2>1
  <2>6. used_capacity' = Len(s) + Len(t) + 2
    BY <1>1, <2>5 DEF TakeNewShape, ListsAre
  <2> QED BY <2>2, <2>5, <2>6
<1> QED BY <1>3, <1>5, <1>6 DEF ListsNext

(* A dropped node leaves its place in the ring for the head of the free    *)
(* list.                                                                   *)
LEMMA DropMoves ==
    ASSUME Inv, NEW s, NEW t, ListsAre(s, t), NEW n, n # LIST_ROOT_EL, list_drop(n)
    PROVE  \E i \in 1..Len(s) :
              /\ s[i] = n
              /\ ListsNext(Removed(s, i), Inserted(t, 0, n))
<1>1. DropShape(n) /\ n \in Elements /\ n \notin Free
  BY DropHasShape DEF DropShape, Elements, Free
<1>2. Threads(next, next[LIST_ROOT_EL], Elements, s) /\ Threads(next, list_free_head, Free, t)
  BY DEF ListsAre
<1>3. \E i \in 1..Len(s) :
              /\ s[i] = n
              /\ Threads(next', next'[LIST_ROOT_EL], Elements', Removed(s, i))
  BY <1>1, <1>2, RingShrinks
<1>4. Threads(next', list_free_head', Free', Inserted(t, 0, n))
  <2>1. next'[n] = list_free_head /\ \A x \in Free : next'[x] = next[x]
    BY <1>1 DEF DropShape, Free, Linked
  <2>2. list_free_head' = n /\ Free' = Free \cup {n}
    BY <1>1 DEF DropShape
  <2>3. Threads(next', n, Free \cup {n}, Inserted(t, 0, n))
    BY <1>1, <1>2, <2>1, ThreadsPush
  <2> QED BY <2>2, <2>3
<1>5. \A i \in 1..Len(s) : Len(Removed(s, i)) + Len(Inserted(t, 0, n)) + 1 = used_capacity'
  <2>1. s \in Seq(Elements) /\ t \in Seq(Free)
    BY <1>2 DEF Threads
  <2>2. Len(s) \in Nat /\ Len(t) \in Nat
    BY <2>1
  <2>3. Len(Inserted(t, 0, n)) = Len(t) + 1
    <3>1. 0 \in 0..Len(t)
      BY <2>2
    <3> QED BY <2>1, <3>1, InsertedSeq
  <2>4. ASSUME NEW i \in 1..Len(s) PROVE Len(Removed(s, i)) = Len(s) - 1
    <3>1. Without(Elements, s, i, Removed(s, i))
      BY <1>2, RemovedSeq
    <3> QED BY <3>1 DEF Without
  <2>5. used_capacity' = Len(s) + Len(t) + 1
    <3>1. used_capacity' = used_capacity
      BY DEF list_drop, list
    <3> QED BY <2>2, <3>1 DEF ListsAre
  <2>6. ASSUME NEW i \in 1..Len(s)
        PROVE  Len(Removed(s, i)) + Len(Inserted(t, 0, n)) + 1 = used_capacity'
    <3>1. Len(Removed(s, i)) = Len(s) - 1
      BY <2>4
    <3> QED BY <2>2, <2>3, <2>5, <3>1
  <2> QED BY <2>6
<1> QED BY <1>3, <1>4, <1>5 DEF ListsNext

(* The first insertion makes a ring of one element.                        *)
LEMMA FirstNodeMoves ==
    ASSUME Inv, NEW v, capacity = 0, TakeNewNode(LIST_ROOT_EL, v)
    PROVE  ListsNext(<<1>>, <<>>)
<1>1. /\ used_capacity' = 2 /\ list_free_head' = LIST_ROOT_EL /\ Nodes = {}
  BY CapacityAssumption
  DEF TakeNewNode, NewNode, Extend, Inv, TypeOK, Nodes, CanAllocate, IncrementedCapacity
<1>2. Nodes' = {0, 1}
  BY <1>1 DEF Nodes
<1>3. /\ next' = [i \in {0, 1} |-> IF i = 1 THEN 0 ELSE 1]
      /\ prev' = [i \in {0, 1} |-> IF i = 0 THEN 1 ELSE 0]
  BY <1>1 DEF TakeNewNode, NewNode, SpliceAfter, LIST_ROOT_EL
<1>4. Elements' = {1} /\ Free' = {}
  BY <1>2, <1>3 DEF Elements, Linked, Free, LIST_PREV_FREE, LIST_ROOT_EL
<1>5. /\ <<1>> \in Seq({1}) /\ Len(<<1>>) = 1 /\ <<1>>[1] = 1
      /\ <<>> \in Seq({}) /\ Len(<<>>) = 0
  OBVIOUS
<1>6. Chain(next', next'[LIST_ROOT_EL], <<1>>)
  BY <1>3, <1>5 DEF Chain, LIST_ROOT_EL
<1>7. Chain(next', list_free_head', <<>>)
  BY <1>1, <1>5 DEF Chain
<1>8. Threads(next', next'[LIST_ROOT_EL], Elements', <<1>>)
  BY <1>4, <1>5, <1>6 DEF Threads
<1>9. Threads(next', list_free_head', Free', <<>>)
  BY <1>4, <1>5, <1>7 DEF Threads
<1> QED BY <1>1, <1>5, <1>8, <1>9 DEF ListsNext

(* The first allocation makes an empty ring.                               *)
LEMMA FirstArrayMoves ==
    ASSUME Inv, capacity = 0, UNCHANGED list_free_head, next' = RootOnly, prev' = RootOnly,
           used_capacity' = 1
    PROVE  ListsNext(<<>>, <<>>)
<1>1. list_free_head' = LIST_ROOT_EL
  BY DEF Inv, TypeOK, Nodes
<1>2. Nodes' = {0} /\ Linked' = {0}
  BY DEF Nodes, Linked, RootOnly, LIST_ROOT_EL, LIST_PREV_FREE
<1>3. Elements' = {} /\ Free' = {}
  BY <1>2 DEF Elements, Free, LIST_ROOT_EL
<1>4. <<>> \in Seq({}) /\ Len(<<>>) = 0
  OBVIOUS
<1>5. Chain(next', next'[LIST_ROOT_EL], <<>>) /\ Chain(next', list_free_head', <<>>)
  BY <1>1, <1>4 DEF Chain, RootOnly
<1> QED BY <1>3, <1>4, <1>5 DEF ListsNext, Threads

\* s is the ring and t the free list, before and after a step.
Holds(s, t) == IF used_capacity = 0 THEN s = <<>> /\ t = <<>> ELSE ListsAre(s, t)
HoldsNext(s, t) == IF used_capacity' = 0 THEN s = <<>> /\ t = <<>> ELSE ListsNext(s, t)

(* What a step may do to the ring s and to the free list t.                *)
Kept(s, t, s2, t2) ==
    /\ s2 = s /\ t2 = t /\ UNCHANGED value
    /\ used_capacity # 0 => UNCHANGED used_capacity
Cleared(s2, t2) == s2 = <<>> /\ t2 = <<>> /\ used_capacity' = 0
Entered(s, t, s2, t2) ==
    \E i \in 0..Len(s), n \in 1..MaxCapacity, v \in Values :
       /\ n \notin Elements /\ s2 = Inserted(s, i, n)
       /\ value'[n] = v /\ \A m \in Elements : value'[m] = value[m]
       /\ used_capacity' # used_capacity => t = <<>>
Left(s, t, s2, t2) ==
    \E i \in 1..Len(s) : /\ s2 = Removed(s, i) /\ t2 = Inserted(t, 0, s[i])
                         /\ UNCHANGED <<value, used_capacity>>
Moved(s, t, s2, t2) ==
    /\ HoldsNext(s2, t2)
    /\ \/ Kept(s, t, s2, t2) \/ Cleared(s2, t2) \/ Entered(s, t, s2, t2)
       \/ Left(s, t, s2, t2)

(* list_ctor and list_dtor leave nothing.                                  *)
LEMMA ResetMoves == ASSUME NEW s, NEW t, Reset PROVE Moved(s, t, <<>>, <<>>)
BY DEF Reset, Moved, HoldsNext, Cleared

(* A call that does not touch the list moves nothing.                      *)
LEMMA UntouchedMoves ==
    ASSUME NEW s, NEW t, Holds(s, t), UNCHANGED list PROVE Moved(s, t, s, t)
BY DEF list, Holds, HoldsNext, ListsAre, ListsNext, Moved, Kept, Elements, Linked, Free, Nodes

(* list_set_capacity moves nothing.                                        *)
LEMMA SetCapacityMoves ==
    ASSUME Inv, NEW s, NEW t, Holds(s, t), NEW n \in 0..MaxCapacity + 1,
           list_set_capacity(n)
    PROVE  Moved(s, t, s, t)
<1>1. CASE UNCHANGED list
  BY <1>1, UntouchedMoves
<1>4. CASE UNCHANGED <<next, prev, value, capacity, used_capacity>>
  BY <1>4 DEF list_set_capacity, Holds, HoldsNext, ListsAre, ListsNext, Moved, Kept, Elements,
     Linked, Free, Nodes
<1>5. CASE Sized(n) /\ capacity = 0 /\ ~(n > 0)
  <2>1. n = 0 /\ capacity' = n
    BY <1>5 DEF Sized
  <2>2. UNCHANGED <<next, prev, value, capacity, used_capacity>>
    BY <1>5, <2>1 DEF Sized
  <2> QED BY <1>4, <2>2
<1>2. CASE Sized(n) /\ capacity = 0 /\ n > 0
  <2>1. ListsNext(<<>>, <<>>)
    BY <1>2, FirstArrayMoves DEF Sized, list_set_capacity
  <2>2. s = <<>> /\ t = <<>> /\ used_capacity = 0 /\ used_capacity' = 1
    BY <1>2 DEF Holds, Inv, TypeOK, Sized
  <2> QED BY <1>2, <2>1, <2>2 DEF Moved, HoldsNext, Kept, Sized
<1>3. CASE Sized(n) /\ capacity # 0
  BY <1>3 DEF Sized, list_set_capacity, Holds, HoldsNext, ListsAre, ListsNext, Moved, Kept,
     Elements, Linked, Free, Nodes
<1>6. UNCHANGED <<next, prev, value, capacity, used_capacity>> \/ UNCHANGED list \/ Sized(n)
  BY DEF list_set_capacity
<1>7. capacity = 0 \/ capacity # 0
  OBVIOUS
<1> QED BY <1>1, <1>2, <1>3, <1>4, <1>5, <1>6, <1>7, Zenon

(* list_insert moves one node into the ring, or nothing.                   *)
LEMMA InsertMoves ==
    ASSUME Inv, NEW s, NEW t, Holds(s, t), NEW p \in Nodes \cup {LIST_ROOT_EL},
           NEW v \in Values, list_insert(p, v)
    PROVE  \E s2, t2 : Moved(s, t, s2, t2)
<1>1. CASE UNCHANGED list
  BY <1>1, UntouchedMoves
<1>2. CASE ReuseFreeNode(p, v)
  <2>1. used_capacity # 0
    BY <1>2 DEF ReuseFreeNode, Inv, TypeOK, Nodes
  <2>2. p \in Linked /\ ListsAre(s, t)
    BY <2>1 DEF list_insert, Inv, LinksMutual, TypeOK, Holds
  <2>3. ReuseShape(p)
    BY <1>2, <2>2, ReuseHasShape
  <2>4. PICK i \in 0..Len(s) : ListsNext(Inserted(s, i, list_free_head), Removed(t, 1))
    BY <1>2, <2>2, ReuseMoves
  <2>5. used_capacity' = used_capacity
    BY <1>2 DEF ReuseFreeNode
  <2>6. /\ list_free_head \in 1..MaxCapacity /\ list_free_head \notin Elements
        /\ list_free_head \in 1..used_capacity-1
    <3>1. /\ list_free_head \notin Linked /\ list_free_head \in Nodes
          /\ list_free_head # LIST_ROOT_EL
      BY <2>3 DEF ReuseShape
    <3>2. capacity \in 0..MaxCapacity /\ used_capacity \in 0..capacity
      BY DEF Inv, TypeOK
    <3> QED BY <3>1, <3>2, CapacityAssumption DEF Nodes, Elements, LIST_ROOT_EL
  <2>7. /\ value'[list_free_head] = v
        /\ \A m \in Elements : value'[m] = value[m]
    <3>1. \A m \in Elements : m \in 1..used_capacity-1
      BY DEF Elements, Linked, Nodes, LIST_ROOT_EL
    <3> QED BY <1>2, <2>6, <3>1 DEF ReuseFreeNode, Inv, TypeOK
  <2>8. Entered(s, t, Inserted(s, i, list_free_head), Removed(t, 1))
    BY <2>5, <2>6, <2>7 DEF Entered
  <2> QED BY <2>1, <2>4, <2>5, <2>8 DEF Moved, HoldsNext
<1>3. CASE TakeNewNode(p, v) /\ capacity # 0
  <2>1. used_capacity # 0
    BY <1>3 DEF Inv, TypeOK
  <2>2. p \in Linked /\ ListsAre(s, t)
    BY <2>1 DEF list_insert, Inv, LinksMutual, TypeOK, Holds
  <2>3. TakeNewShape(p) /\ NewNode = used_capacity
    BY <1>3, <2>2, TakeNewHasShape DEF NewNode
  <2>4. PICK i \in 0..Len(s) : ListsNext(Inserted(s, i, used_capacity), t)
    BY <1>3, <2>2, TakeNewMoves
  <2>5. t = <<>>
    BY <2>2, <2>3, FreeListEmpty DEF TakeNewShape
  <2>6. /\ used_capacity \in 1..MaxCapacity /\ used_capacity \notin Elements
        /\ used_capacity' # 0
    <3>1. /\ used_capacity \in Nat /\ used_capacity > 0 /\ used_capacity \notin Linked
          /\ used_capacity' = used_capacity + 1
      BY <2>3 DEF TakeNewShape
    <3>2. capacity \in 0..MaxCapacity /\ used_capacity \in 0..capacity
      BY DEF Inv, TypeOK
    <3> QED BY <3>1, <3>2, CapacityAssumption DEF Elements
  <2>7. value'[used_capacity] = v /\ \A m \in Elements : value'[m] = value[m]
    <3>1. \A m \in Elements : m \in 1..used_capacity /\ m # used_capacity
      BY <2>6 DEF Elements, Linked, Nodes, LIST_ROOT_EL
    <3>2. value' = [i_1 \in 1..used_capacity |-> IF i_1 = used_capacity THEN v ELSE value[i_1]]
      BY <1>3, <2>3 DEF TakeNewNode
    <3>3. used_capacity \in 1..used_capacity
      BY <2>6
    <3> QED BY <3>1, <3>2, <3>3
  <2>8. Entered(s, t, Inserted(s, i, used_capacity), t)
    BY <2>5, <2>6, <2>7 DEF Entered
  <2> QED BY <2>4, <2>6, <2>8 DEF Moved, HoldsNext
<1>4. CASE TakeNewNode(p, v) /\ capacity = 0
  <2>1. used_capacity = 0 /\ Nodes = {} /\ p = LIST_ROOT_EL /\ s = <<>> /\ t = <<>>
    BY <1>4 DEF Inv, TypeOK, Nodes, Holds
  <2>2. ListsNext(<<1>>, <<>>)
    BY <1>4, <2>1, FirstNodeMoves
  <2>3. used_capacity' = 2 /\ 1 \in 1..MaxCapacity
    BY <1>4, CapacityAssumption
    DEF TakeNewNode, NewNode, Extend, Inv, TypeOK, CanAllocate, IncrementedCapacity
  <2>4. value'[1] = v /\ Elements = {}
    BY <1>4, <2>1 DEF TakeNewNode, NewNode, Elements, Linked
  <2>5. <<1>> = Inserted(s, 0, 1)
    <3>1. Len(s) = 0
      BY <2>1
    <3> QED BY <3>1 DEF Inserted
  <2>6. 0 \in 0..Len(s)
    BY <2>1
  <2>7. Entered(s, t, <<1>>, <<>>)
    BY <2>1, <2>3, <2>4, <2>5, <2>6 DEF Entered
  <2> QED BY <2>2, <2>3, <2>7 DEF Moved, HoldsNext
<1> QED BY <1>1, <1>2, <1>3, <1>4 DEF list_insert

(* list_drop moves one node out of the ring, or nothing.                   *)
LEMMA DropsMove ==
    ASSUME Inv, NEW s, NEW t, Holds(s, t), NEW n, list_drop(n)
    PROVE  \E s2, t2 : Moved(s, t, s2, t2)
<1>1. CASE UNCHANGED list
  BY <1>1, UntouchedMoves
<1>2. CASE n # LIST_ROOT_EL
  <2>1. UNCHANGED <<value, used_capacity>> /\ used_capacity # 0
    BY <1>2 DEF list_drop, Linked, Nodes
  <2>2. ListsAre(s, t)
    BY <2>1 DEF Holds
  <2>3. PICK i \in 1..Len(s) : s[i] = n /\ ListsNext(Removed(s, i), Inserted(t, 0, n))
    BY <1>2, <2>2, DropMoves
  <2>4. Left(s, t, Removed(s, i), Inserted(t, 0, n))
    BY <2>1, <2>3 DEF Left
  <2> QED BY <2>1, <2>3, <2>4 DEF Moved, HoldsNext
<1> QED BY <1>1, <1>2 DEF list_drop

(* So every step moves at most one node, or empties the list.              *)
LEMMA EveryStepMoves ==
    ASSUME Inv, NEW s, NEW t, Holds(s, t), [Next]_vars
    PROVE  \E s2, t2 : Moved(s, t, s2, t2)
<1>1. CASE list_ctor \/ list_dtor
  BY <1>1, ResetMoves DEF list_ctor, list_dtor
<1>2. CASE \E n \in 0..MaxCapacity + 1 : list_set_capacity(n)
  BY <1>2, SetCapacityMoves
<1>3. CASE \E p \in Nodes \cup {LIST_ROOT_EL}, v \in Values : list_insert(p, v)
  BY <1>3, InsertMoves
<1>4. CASE \E n \in Nodes \cup {LIST_ROOT_EL} : list_drop(n)
  BY <1>4, DropsMove
<1>5. CASE UseFreed \/ UNCHANGED vars
  BY <1>5, UntouchedMoves DEF UseFreed, vars
<1> QED BY <1>1, <1>2, <1>3, <1>4, <1>5 DEF Next

-----------------------------------------------------------------------------
(* What the walks of the code find                                         *)

\* The part of the invariant about order.
HoldsSome == \E s, t : Holds(s, t)

(* The walks of the code find the chains.                                  *)
LEMMA WalksFind ==
    ASSUME NEW f, NEW start, NEW N \in Nat, \A x \in 0..N-1 : f[x] \in 0..N-1,
           NEW E \in SUBSET (0..N-1), NEW s, Threads(f, start, E, s), Len(s) < N
    PROVE  Walk(f, start, N) = s
<1>1. s \in Seq(E) /\ Chain(f, start, s) /\ Len(s) \in Nat
  BY DEF Threads
<1> DEFINE V == 0..N-1
<1>2. s \in Seq(V)
  <2>1. s \in [1..Len(s) -> E] /\ E \subseteq V
    BY <1>1
  <2>2. s \in [1..Len(s) -> V]
    BY <2>1
  <2> QED BY <1>1, <2>2
<1>3. start \in V
  BY <1>1 DEF Chain, LIST_ROOT_EL
<1>4. Len(s) <= N
  BY <1>1
<1>5. \A x \in V : f[x] \in V
  OBVIOUS
<1> HIDE DEF V
<1> QED BY <1>1, <1>2, <1>3, <1>4, <1>5, WalkFollowsChain

(* Order and FreeOrder are the two chains.                                 *)
LEMMA OrdersAre ==
    ASSUME TypeOK, NEW s, NEW t, Holds(s, t)
    PROVE  Order = s /\ FreeOrder = t
<1>1. CASE used_capacity = 0
  BY <1>1 DEF Holds, Order, FreeOrder
<1>2. CASE used_capacity # 0
  <2>1. /\ Threads(next, next[LIST_ROOT_EL], Elements, s)
        /\ Threads(next, list_free_head, Free, t)
        /\ Len(s) + Len(t) + 1 = used_capacity
    BY <1>2 DEF Holds, ListsAre
  <2>2. used_capacity \in Nat
    BY DEF TypeOK
  <2>3. \A x \in 0..used_capacity-1 : next[x] \in 0..used_capacity-1
    BY DEF TypeOK, Nodes
  <2>4. Elements \in SUBSET (0..used_capacity-1) /\ Free \in SUBSET (0..used_capacity-1)
    BY DEF Elements, Free, Linked, Nodes
  <2>5. Len(s) < used_capacity /\ Len(t) < used_capacity
    <3>1. s \in Seq(Elements) /\ t \in Seq(Free)
      BY <2>1 DEF Threads
    <3>2. Len(s) \in Nat /\ Len(t) \in Nat
      BY <3>1
    <3> QED BY <2>1, <2>2, <3>2
  <2>6. Walk(next, next[LIST_ROOT_EL], used_capacity) = s
    BY <2>1, <2>2, <2>3, <2>4, <2>5, WalksFind
  <2>7. Walk(next, list_free_head, used_capacity) = t
    BY <2>1, <2>2, <2>3, <2>4, <2>5, WalksFind
  <2> QED BY <1>2, <2>6, <2>7 DEF Order, FreeOrder
<1> QED BY <1>1, <1>2

(* The same after a step, for Order.                                       *)
LEMMA NextOrderIs ==
    ASSUME TypeOK', NEW s, NEW t, HoldsNext(s, t)
    PROVE  Order' = s
<1>1. CASE used_capacity' = 0
  BY <1>1 DEF HoldsNext, Order
<1>2. CASE used_capacity' # 0
  <2>1. /\ Threads(next', next'[LIST_ROOT_EL], Elements', s)
        /\ Len(s) + Len(t) + 1 = used_capacity'
        /\ t \in Seq(Free')
    BY <1>2 DEF HoldsNext, ListsNext, Threads
  <2>2. used_capacity' \in Nat
    BY DEF TypeOK
  <2>3. \A x \in 0..used_capacity'-1 : next'[x] \in 0..used_capacity'-1
    BY DEF TypeOK, Nodes
  <2>4. Elements' \in SUBSET (0..used_capacity'-1)
    BY DEF Elements, Linked, Nodes
  <2>5. Len(s) < used_capacity'
    <3>1. s \in Seq(Elements')
      BY <2>1 DEF Threads
    <3>2. Len(s) \in Nat /\ Len(t) \in Nat
      BY <2>1, <3>1
    <3> QED BY <2>1, <2>2, <3>2
  <2>6. Walk(next', next'[LIST_ROOT_EL], used_capacity') = s
    BY <2>1, <2>2, <2>3, <2>4, <2>5, WalksFind
  <2> QED BY <1>2, <2>6 DEF Order
<1> QED BY <1>1, <1>2

(* There are two chains after a step if there were two before it.          *)
LEMMA StepHolds ==
    ASSUME Inv, HoldsSome, [Next]_vars
    PROVE  HoldsSome'
<1>1. PICK s, t : Holds(s, t)
  BY DEF HoldsSome
<1>2. PICK s2, t2 : Moved(s, t, s2, t2)
  BY <1>1, EveryStepMoves
<1>3. Holds(s2, t2)'
  BY <1>2 DEF Moved, HoldsNext, Holds, ListsNext, ListsAre
<1> QED BY <1>3 DEF HoldsSome

(* The invariant the three theorems below need.                            *)
LEMMA AlwaysHolds == Spec => [](Inv /\ HoldsSome)
<1>1. Init => HoldsSome
  BY DEF Init, HoldsSome, Holds
<1> QED BY <1>1, InitInv, NextInv, StepHolds, PTL DEF Spec

(* prev of an element of the ring is the element before it.                *)
LEMMA PointsBack ==
    ASSUME Inv, NEW s, Threads(next, next[LIST_ROOT_EL], Elements, s), used_capacity # 0
    PROVE  \A i \in 1..Len(s) : prev[s[i]] = IF i = 1 THEN LIST_ROOT_EL ELSE s[i - 1]
<1> DEFINE n == Len(s)
<1>1. s \in Seq(Elements) /\ n \in Nat
  BY DEF Threads
<1>2. \A i \in 1..n : s[i] \in Linked
  BY <1>1 DEF Elements
<1>3. LIST_ROOT_EL \in Linked /\ \A x \in Linked : prev[next[x]] = x
  BY DEF Inv, LinksMutual, TypeOK
<1>4. ASSUME NEW i \in 1..n, i = 1 PROVE prev[s[i]] = LIST_ROOT_EL
  <2>1. next[LIST_ROOT_EL] = s[1]
    BY <1>1, <1>4 DEF Threads, Chain
  <2> QED BY <1>3, <1>4, <2>1
<1>5. ASSUME NEW i \in 1..n, i # 1 PROVE prev[s[i]] = s[i - 1]
  <2>1. i - 1 \in 1..n /\ i - 1 # n /\ (i - 1) + 1 = i
    BY <1>1, <1>5
  <2>2. next[s[i - 1]] = s[(i - 1) + 1]
    BY <2>1 DEF Threads, Chain
  <2> QED BY <1>2, <1>3, <2>1, <2>2
<1> QED BY <1>4, <1>5

(* Backwards, the ring is visited in the opposite order.                   *)
LEMMA BackwardsToo ==
    ASSUME Inv, NEW s, NEW t, Holds(s, t), used_capacity # 0
    PROVE  Len(BackwardOrder) = Len(s)
<1> DEFINE n == Len(s)
           r == [i \in 1..n |-> s[n + 1 - i]]
<1>1. /\ Threads(next, next[LIST_ROOT_EL], Elements, s) /\ Len(s) + Len(t) + 1 = used_capacity
      /\ t \in Seq(Free)
  BY DEF Holds, ListsAre, Threads
<1>2. s \in Seq(Elements) /\ n \in Nat /\ Len(t) \in Nat /\ n < used_capacity
  BY <1>1 DEF Threads
<1>3. \A i \in 1..n : s[i] \in Elements /\ s[i] \in Linked /\ s[i] # LIST_ROOT_EL
  BY <1>2 DEF Elements
<1>4. r \in Seq(Linked) /\ Len(r) = n
  <2>1. \A i \in 1..n : n + 1 - i \in 1..n
    BY <1>2
  <2>2. r \in [1..n -> Linked]
    BY <1>3, <2>1
  <2> QED BY <1>2, <2>2
<1>5. LIST_ROOT_EL \in Linked /\ \A x \in Linked : prev[x] \in Linked /\ prev[next[x]] = x
  BY <1>2 DEF Inv, LinksMutual, TypeOK
<1>6. \A i \in 1..n : prev[s[i]] = IF i = 1 THEN LIST_ROOT_EL ELSE s[i - 1]
  BY <1>1, PointsBack
<1>7. prev[LIST_ROOT_EL] = IF n = 0 THEN LIST_ROOT_EL ELSE s[n]
  <2>1. CASE n = 0
    <3>1. next[LIST_ROOT_EL] = LIST_ROOT_EL
      BY <1>1, <2>1 DEF Threads, Chain
    <3> QED BY <1>5, <2>1, <3>1
  <2>2. CASE n # 0
    <3>1. n \in 1..n
      BY <1>2, <2>2
    <3>2. next[s[n]] = LIST_ROOT_EL
      BY <1>1, <3>1 DEF Threads, Chain
    <3> QED BY <1>3, <1>5, <2>2, <3>1, <3>2
  <2> QED BY <2>1, <2>2
<1>8. Chain(prev, prev[LIST_ROOT_EL], r)
  <2>1. ASSUME NEW i \in 1..n
        PROVE  /\ r[i] # LIST_ROOT_EL
               /\ prev[r[i]] = IF i = n THEN LIST_ROOT_EL ELSE r[i + 1]
    <3>1. n + 1 - i \in 1..n /\ (n + 1 - i = 1 <=> i = n)
      BY <1>2
    <3>2. r[i] = s[n + 1 - i]
      OBVIOUS
    <3>3. i # n => i + 1 \in 1..n /\ r[i + 1] = s[(n + 1 - i) - 1]
      BY <1>2
    <3> QED BY <1>3, <1>6, <3>1, <3>2, <3>3
  <2>2. n # 0 => r[1] = s[n]
    BY <1>2
  <2> HIDE DEF r
  <2> QED BY <1>4, <1>7, <2>1, <2>2 DEF Chain
<1>9. Walk(prev, prev[LIST_ROOT_EL], used_capacity) = r
  <2>1. used_capacity \in Nat /\ n <= used_capacity
    BY <1>2 DEF Inv, TypeOK
  <2> HIDE DEF r
  <2> QED BY <1>4, <1>5, <1>8, <2>1, WalkFollowsChain
<1> HIDE DEF r
<1> QED BY <1>4, <1>9 DEF BackwardOrder

(* list_verify, which test_list_unit.cpp calls between its operations,     *)
(* finds nothing wrong with any list, one without a node in its block      *)
(* excepted: prev mirrors next, neither walk runs into a cycle, and ring   *)
(* and free list together hold every node once.                            *)
THEOREM ListAlwaysVerifies == Spec => []ListVerifyOK
<1>1. ASSUME Inv, HoldsSome PROVE ListVerifyOK
  <2>1. PICK s, t : Holds(s, t)
    BY <1>1 DEF HoldsSome
  <2>2. Order = s /\ FreeOrder = t
    BY <1>1, <2>1, OrdersAre DEF Inv
  <2>3. used_capacity <= capacity
    BY <1>1 DEF Inv, TypeOK
  <2>6. CASE Nodeless
    BY <2>6, Zenon DEF ListVerifyOK, list_verify
  <2>4. CASE used_capacity = 0 /\ ~Nodeless
    <3>1. ~(used_capacity > capacity)
      BY <1>1, <2>3 DEF Inv, TypeOK
    <3>2. list_verify = {}
      BY <2>4, <3>1, Zenon DEF list_verify
    <3> QED BY <2>4, <3>2, Zenon DEF ListVerifyOK
  <2>5. CASE used_capacity # 0
    <3>1. /\ Threads(next, next[LIST_ROOT_EL], Elements, s)
          /\ Threads(next, list_free_head, Free, t)
          /\ Len(s) + Len(t) + 1 = used_capacity
      BY <2>1, <2>5 DEF Holds, ListsAre
    <3>2. s \in Seq(Elements) /\ t \in Seq(Free)
      BY <3>1 DEF Threads
    <3>3. Len(s) \in Nat /\ Len(t) \in Nat /\ DOMAIN s = 1..Len(s) /\ DOMAIN t = 1..Len(t)
      BY <3>2
    <3>4. Len(BackwardOrder) = Len(s)
      BY <1>1, <2>1, <2>5, BackwardsToo
    <3>5. \A i \in DOMAIN s : prev[s[i]] = IF i = 1 THEN LIST_ROOT_EL ELSE s[i-1]
      BY <1>1, <2>5, <3>1, <3>3, PointsBack
    <3>6. \A i \in DOMAIN t : prev[t[i]] = LIST_PREV_FREE
      BY <3>2, <3>3 DEF Free, Linked
    <3>7. 1 + Len(s) + Len(t) = used_capacity /\ ~(1 + Len(s) > used_capacity)
      BY <3>1, <3>3
    <3>8. ~\E i \in DOMAIN Order : prev[Order[i]] # IF i = 1 THEN LIST_ROOT_EL ELSE Order[i-1]
      BY <2>2, <3>5
    <3>9. ~\E i \in DOMAIN FreeOrder : prev[FreeOrder[i]] # LIST_PREV_FREE
      BY <2>2, <3>6
    <3>10. ~(1 + Len(BackwardOrder) > used_capacity)
      BY <3>4, <3>7
    <3>11. 1 + Len(Order) + Len(FreeOrder) = used_capacity /\ ~(1 + Len(Order) > used_capacity)
      BY <2>2, <3>7
    <3>12. ~(used_capacity > capacity) /\ ~(1 + Len(Order) + Len(FreeOrder) > used_capacity)
      BY <2>3, <1>1, <3>11 DEF Inv, TypeOK
    <3>13. ~Nodeless
      BY <2>5 DEF Nodeless
    <3>14. list_verify = {}
      BY <2>5, <3>8, <3>9, <3>10, <3>11, <3>12, <3>13, Zenon DEF list_verify
    <3> QED BY <3>13, <3>14, Zenon DEF ListVerifyOK
  <2> QED BY <2>4, <2>5, <2>6
<1> QED BY <1>1, AlwaysHolds, PTL

(* find_free_ptr extends the array only when every node of it is linked,   *)
(* so a dropped node is always reused first.                               *)
THEOREM OnlyAFullArrayGrows == Spec => GrowsOnlyWhenFull
<1>1. ASSUME Inv, HoldsSome, [Next]_vars
      PROVE  [used_capacity' > used_capacity /\ used_capacity > 0
                => Len(Order) + 1 = used_capacity]_vars
  <2> SUFFICES ASSUME used_capacity' > used_capacity, used_capacity > 0
               PROVE  Len(Order) + 1 = used_capacity
    OBVIOUS
  <2>1. PICK s, t : Holds(s, t)
    BY <1>1 DEF HoldsSome
  <2>2. PICK s2, t2 : Moved(s, t, s2, t2)
    BY <1>1, <2>1, EveryStepMoves
  <2>3. used_capacity \in Nat /\ used_capacity # 0 /\ used_capacity' # used_capacity
        /\ used_capacity' # 0
    BY <1>1 DEF Inv, TypeOK
  <2>4. t = <<>>
    BY <2>2, <2>3 DEF Moved, Kept, Cleared, Entered, Left
  <2>5. s \in Seq(Elements) /\ Len(s) + Len(t) + 1 = used_capacity
    BY <2>1, <2>3 DEF Holds, ListsAre, Threads
  <2>6. Order = s
    BY <1>1, <2>1, OrdersAre DEF Inv
  <2>7. Len(s) \in Nat /\ Len(t) = 0
    BY <2>4, <2>5
  <2> QED BY <2>5, <2>6, <2>7
<1> QED BY <1>1, AlwaysHolds, PTL DEF GrowsOnlyWhenFull, Spec

-----------------------------------------------------------------------------
(* The sequence the array implements                                       *)

(* The elements of a concatenation.                                        *)
LEMMA ConcatAt ==
    ASSUME NEW E, NEW a \in Seq(E), NEW b \in Seq(E)
    PROVE  /\ Len(a \o b) = Len(a) + Len(b)
           /\ \A j \in 1..Len(a) + Len(b) :
                 (a \o b)[j] = IF j <= Len(a) THEN a[j] ELSE b[j - Len(a)]
OBVIOUS

(* HandleSeq inserts as the ring does.                                     *)
LEMMA InsertAtIsInserted ==
    ASSUME NEW E, NEW s \in Seq(E), NEW i \in 0..Len(s), NEW n
    PROVE  Seq_!InsertAt(s, i + 1, n) = Inserted(s, i, n)
<1> DEFINE F == E \cup {n}
           a == SubSeq(s, 1, i)
           b == SubSeq(s, i + 1, Len(s))
<1>1. s \in Seq(F) /\ Len(s) \in Nat /\ i \in Nat /\ i <= Len(s) /\ n \in F
  <2>1. s \in [1..Len(s) -> F] /\ Len(s) \in Nat
    OBVIOUS
  <2> QED BY <2>1
<1>2. a \in Seq(F) /\ Len(a) = i /\ \A j \in 1..i : a[j] = s[j]
  BY <1>1
<1>3. b \in Seq(F) /\ Len(b) = Len(s) - i /\ \A j \in 1..Len(s)-i : b[j] = s[i + j]
  BY <1>1
<1> HIDE DEF a, b, F
<1>4. (a \o <<n>>) \in Seq(F) /\ Len(a \o <<n>>) = i + 1
      /\ \A j \in 1..i + 1 : (a \o <<n>>)[j] = IF j <= i THEN s[j] ELSE n
  BY <1>1, <1>2
<1> DEFINE c == a \o <<n>>
<1> HIDE DEF c
<1>5. c \in Seq(F) /\ Len(c) = i + 1 /\ \A j \in 1..i + 1 : c[j] = IF j <= i THEN s[j] ELSE n
  BY <1>4 DEF c
<1>6. /\ Len(c \o b) = Len(s) + 1
      /\ \A j \in 1..Len(s) + 1 : (c \o b)[j] = IF j <= i + 1 THEN c[j] ELSE b[j - (i + 1)]
  <2>1. /\ Len(c \o b) = Len(c) + Len(b)
        /\ \A j \in 1..Len(c) + Len(b) :
              (c \o b)[j] = IF j <= Len(c) THEN c[j] ELSE b[j - Len(c)]
    <3>1. c \in Seq(F) /\ b \in Seq(F)
      BY <1>3, <1>5
    <3> QED BY <3>1, ConcatAt, Zenon
  <2>2. Len(c) = i + 1 /\ Len(c) + Len(b) = Len(s) + 1
    BY <1>1, <1>3, <1>5
  <2> QED BY <2>1, <2>2, Zenon
<1>7. \A j \in 1..Len(s) + 1 : (c \o b)[j] = Inserted(s, i, n)[j]
  <2>1. ASSUME NEW j \in 1..Len(s) + 1 PROVE (c \o b)[j] = Inserted(s, i, n)[j]
    <3>1. Inserted(s, i, n)[j] = IF j <= i THEN s[j] ELSE IF j = i + 1 THEN n ELSE s[j - 1]
      BY DEF Inserted
    <3>2. CASE j <= i + 1
      BY <1>1, <1>5, <1>6, <3>1, <3>2
    <3>3. CASE ~(j <= i + 1)
      <4> DEFINE k == j - (i + 1)
      <4>1. k \in 1..Len(s) - i /\ i + k = j - 1 /\ ~(j <= i) /\ j # i + 1
        BY <1>1, <3>3
      <4>2. (c \o b)[j] = b[k]
        BY <1>1, <1>6, <3>3
      <4> HIDE DEF k
      <4>3. b[k] = s[j - 1]
        BY <1>3, <4>1
      <4> QED BY <3>1, <4>1, <4>2, <4>3
    <3> QED BY <3>2, <3>3, Zenon
  <2> QED BY <2>1
<1>8. c \o b = [j \in 1..Len(s) + 1 |-> (c \o b)[j]]
  <2>1. (c \o b) \in Seq(F) /\ Len(c \o b) = Len(s) + 1
    <3>1. c \in Seq(F) /\ b \in Seq(F)
      BY <1>3, <1>5
    <3>2. (c \o b) \in Seq(F)
      BY <3>1
    <3> QED BY <1>6, <3>2
  <2> DEFINE d == c \o b
  <2> HIDE DEF d
  <2>2. d \in Seq(F) /\ Len(d) = Len(s) + 1
    BY <2>1 DEF d
  <2>3. d = [j \in 1..Len(s) + 1 |-> d[j]]
    BY <2>2
  <2> QED BY <2>3, Zenon DEF d
<1>9. Inserted(s, i, n) = [j \in 1..Len(s) + 1 |-> Inserted(s, i, n)[j]]
  BY DEF Inserted
<1>10. c \o b = Inserted(s, i, n)
  BY <1>7, <1>8, <1>9
<1>11. (i + 1) - 1 = i
  BY <1>1
<1> QED BY <1>10, <1>11, Zenon DEF Seq_!InsertAt, a, b, c

(* HandleSeq removes as the ring does.                                     *)
LEMMA RemoveAtIsRemoved ==
    ASSUME NEW E, NEW s \in Seq(E), NEW i \in 1..Len(s)
    PROVE  Seq_!RemoveAt(s, i) = Removed(s, i)
<1> DEFINE a == SubSeq(s, 1, i - 1)
           b == SubSeq(s, i + 1, Len(s))
<1>1. Len(s) \in Nat /\ i \in Nat /\ i <= Len(s) /\ i >= 1
  OBVIOUS
<1>2. a \in Seq(E) /\ Len(a) = i - 1 /\ \A j \in 1..i - 1 : a[j] = s[j]
  BY <1>1
<1>3. b \in Seq(E) /\ Len(b) = Len(s) - i /\ \A j \in 1..Len(s)-i : b[j] = s[i + j]
  BY <1>1
<1> HIDE DEF a, b
<1>6. /\ Len(a \o b) = Len(s) - 1
      /\ \A j \in 1..Len(s) - 1 : (a \o b)[j] = IF j <= i - 1 THEN a[j] ELSE b[j - (i - 1)]
  <2>1. /\ Len(a \o b) = Len(a) + Len(b)
        /\ \A j \in 1..Len(a) + Len(b) :
              (a \o b)[j] = IF j <= Len(a) THEN a[j] ELSE b[j - Len(a)]
    <3>1. a \in Seq(E) /\ b \in Seq(E)
      BY <1>2, <1>3
    <3> QED BY <3>1, ConcatAt, Zenon
  <2>2. Len(a) = i - 1 /\ Len(a) + Len(b) = Len(s) - 1
    BY <1>1, <1>2, <1>3
  <2> QED BY <2>1, <2>2, Zenon
<1>7. \A j \in 1..Len(s) - 1 : (a \o b)[j] = Removed(s, i)[j]
  <2>1. ASSUME NEW j \in 1..Len(s) - 1 PROVE (a \o b)[j] = Removed(s, i)[j]
    <3>1. Removed(s, i)[j] = IF j < i THEN s[j] ELSE s[j + 1]
      BY DEF Removed
    <3>2. CASE j <= i - 1
      BY <1>1, <1>2, <1>6, <3>1, <3>2
    <3>3. CASE ~(j <= i - 1)
      <4> DEFINE k == j - (i - 1)
      <4>1. k \in 1..Len(s) - i /\ i + k = j + 1 /\ ~(j < i)
        BY <1>1, <3>3
      <4>2. (a \o b)[j] = b[k]
        BY <1>1, <1>6, <3>3
      <4> HIDE DEF k
      <4>3. b[k] = s[j + 1]
        BY <1>3, <4>1
      <4> QED BY <3>1, <4>1, <4>2, <4>3
    <3> QED BY <3>2, <3>3, Zenon
  <2> QED BY <2>1
<1>8. a \o b = [j \in 1..Len(s) - 1 |-> (a \o b)[j]]
  <2>1. (a \o b) \in Seq(E) /\ Len(a \o b) = Len(s) - 1
    <3>1. a \in Seq(E) /\ b \in Seq(E)
      BY <1>2, <1>3
    <3>2. (a \o b) \in Seq(E)
      BY <3>1
    <3> QED BY <1>6, <3>2
  <2> DEFINE d == a \o b
  <2> HIDE DEF d
  <2>2. d \in Seq(E) /\ Len(d) = Len(s) - 1
    BY <2>1 DEF d
  <2>3. d = [j \in 1..Len(s) - 1 |-> d[j]]
    BY <2>2
  <2> QED BY <2>3, Zenon DEF d
<1>9. Removed(s, i) = [j \in 1..Len(s) - 1 |-> Removed(s, i)[j]]
  BY DEF Removed
<1>10. a \o b = Removed(s, i)
  BY <1>7, <1>8, <1>9
<1> QED BY <1>10, Zenon DEF Seq_!RemoveAt, a, b

\* What HandleSeq keeps in val.
Held == [h \in {Order[i] : i \in DOMAIN Order} |-> value[h]]

\* The values held by the handles of s, before and after a step.
HeldBy(s) == [h \in {s[i] : i \in DOMAIN s} |-> value[h]]
HeldByNext(s) == [h \in {s[i] : i \in DOMAIN s} |-> value'[h]]

(* The list starts as the empty sequence.                                  *)
LEMMA InitialSequence == ASSUME Init PROVE Seq_!Init
<1>1. Order = <<>>
  BY DEF Init, Order
<1>2. {Order[i] : i \in DOMAIN Order} = {}
  BY <1>1
<1>3. [h \in {Order[i] : i \in DOMAIN Order} |-> value[h]] = <<>>
  BY <1>2
<1> QED BY <1>1, <1>3 DEF Seq_!Init

(* Every step of the list is a step of the sequence, or changes nothing.   *)
LEMMA StepOfSequence ==
    ASSUME Inv, HoldsSome, [Next]_vars
    PROVE  [Seq_!Next]_<<Order, Held>>
<1>1. PICK s, t : Holds(s, t)
  BY DEF HoldsSome
<1>2. PICK s2, t2 : Moved(s, t, s2, t2)
  BY <1>1, EveryStepMoves
<1>3. Order = s /\ Order' = s2
  BY <1>1, <1>2, NextInv, OrdersAre, NextOrderIs DEF Inv, Moved
<1>4. Held = HeldBy(s) /\ Held' = HeldByNext(s2)
  BY <1>3 DEF Held, HeldBy, HeldByNext
<1>5. s \in Seq(Elements) /\ {s[i] : i \in DOMAIN s} = Elements
      /\ \A i, j \in 1..Len(s) : s[i] = s[j] => i = j
  <2>1. CASE used_capacity = 0
    <3>1. s = <<>> /\ Elements = {}
      BY <1>1, <2>1 DEF Holds, Elements, Linked, Nodes
    <3> QED BY <3>1
  <2>2. CASE used_capacity # 0
    <3>1. Threads(next, next[LIST_ROOT_EL], Elements, s)
      BY <1>1, <2>2 DEF Holds, ListsAre
    <3>2. /\ s \in Seq(Elements) /\ \A i, j \in 1..Len(s) : s[i] = s[j] => i = j
          /\ \A x \in Elements : \E i \in 1..Len(s) : s[i] = x
      BY <3>1 DEF Threads
    <3>3. DOMAIN s = 1..Len(s) /\ \A i \in DOMAIN s : s[i] \in Elements
      BY <3>2
    <3>4. {s[i] : i \in DOMAIN s} = Elements
      BY <3>2, <3>3
    <3> QED BY <3>2, <3>4
  <2> QED BY <2>1, <2>2
<1>6. Len(s) \in Nat /\ DOMAIN s = 1..Len(s)
  BY <1>5
<1>7. CASE Kept(s, t, s2, t2)
  <2>1. s2 = s /\ value' = value
    BY <1>7 DEF Kept
  <2> QED BY <1>3, <1>4, <2>1 DEF HeldBy, HeldByNext
<1>8. CASE Cleared(s2, t2)
  <2>1. s2 = <<>> /\ HeldByNext(s2) = <<>>
    BY <1>8 DEF Cleared, HeldByNext
  <2> QED BY <1>3, <1>4, <2>1 DEF Seq_!Next, Seq_!Clear, Held
<1>9. CASE Entered(s, t, s2, t2)
  <2>1. PICK i \in 0..Len(s), n \in 1..MaxCapacity, v \in Values :
           /\ n \notin Elements /\ s2 = Inserted(s, i, n)
           /\ value'[n] = v /\ \A m \in Elements : value'[m] = value[m]
    BY <1>9 DEF Entered
  <2>2. Order' = Seq_!InsertAt(s, i + 1, n)
    BY <1>3, <1>5, <2>1, InsertAtIsInserted
  <2>3. {s2[j] : j \in DOMAIN s2} = Elements \cup {n}
    <3>1. /\ s2 \in Seq(Elements \cup {n}) /\ Len(s2) = Len(s) + 1
          /\ \A j \in 1..Len(s) + 1 :
                 s2[j] = IF j <= i THEN s[j] ELSE IF j = i + 1 THEN n ELSE s[j - 1]
      BY <1>5, <2>1, InsertedSeq
    <3>2. DOMAIN s2 = 1..Len(s) + 1 /\ \A j \in DOMAIN s2 : s2[j] \in Elements \cup {n}
      BY <3>1
    <3>3. \E j \in DOMAIN s2 : s2[j] = n
      <4>1. i + 1 \in 1..Len(s) + 1 /\ s2[i + 1] = n
        BY <1>6, <3>1
      <4> QED BY <3>2, <4>1
    <3>4. ASSUME NEW x \in Elements PROVE \E j \in DOMAIN s2 : s2[j] = x
      <4>1. PICK k \in 1..Len(s) : s[k] = x
        BY <1>5, <1>6
      <4>2. CASE k <= i
        BY <1>6, <3>1, <3>2, <4>1, <4>2
      <4>3. CASE k > i
        <5>1. k + 1 \in 1..Len(s) + 1 /\ ~(k + 1 <= i) /\ k + 1 # i + 1 /\ (k + 1) - 1 = k
          BY <1>6, <4>3
        <5>2. s2[k + 1] = s[k]
          BY <3>1, <5>1
        <5> QED BY <3>2, <4>1, <5>1, <5>2
      <4> QED BY <1>6, <4>2, <4>3
    <3> QED BY <3>2, <3>3, <3>4
  <2>4. HeldByNext(s2) = [g \in Elements \cup {n} |-> IF g = n THEN v ELSE HeldBy(s)[g]]
    BY <1>5, <2>1, <2>3 DEF HeldByNext, HeldBy
  <2>5. Seq_!Used = Elements
    BY <1>3, <1>5 DEF Seq_!Used
  <2>6. i \in Seq_!Places /\ n \in 1..MaxCapacity \ Seq_!Used
    BY <1>3, <2>1, <2>5 DEF Seq_!Places
  <2>7. Held' = [g \in Seq_!Used \cup {n} |-> IF g = n THEN v ELSE Held[g]]
    BY <1>4, <2>4, <2>5
  <2>8. Seq_!Insert
    BY <1>3, <2>2, <2>6, <2>7, Zenon DEF Seq_!Insert, Held
  <2> QED BY <2>8 DEF Seq_!Next
<1>10. CASE Left(s, t, s2, t2)
  <2>1. PICK i \in 1..Len(s) : s2 = Removed(s, i) /\ value' = value
    BY <1>10 DEF Left
  <2>2. Order' = Seq_!RemoveAt(s, i)
    BY <1>3, <1>5, <2>1, RemoveAtIsRemoved
  <2>3. {s2[j] : j \in DOMAIN s2} = Elements \ {s[i]}
    <3>1. Len(s2) = Len(s) - 1 /\ DOMAIN s2 = 1..Len(s) - 1
          /\ \A j \in 1..Len(s) - 1 : s2[j] = IF j < i THEN s[j] ELSE s[j + 1]
      BY <1>6, <2>1 DEF Removed
    <3>2. ASSUME NEW j \in DOMAIN s2 PROVE s2[j] \in Elements \ {s[i]}
      <4>1. CASE j < i
        BY <1>5, <1>6, <3>1, <3>2, <4>1
      <4>2. CASE ~(j < i)
        <5>1. j + 1 \in 1..Len(s) /\ j + 1 # i
          BY <1>6, <3>1, <4>2
        <5> QED BY <1>5, <1>6, <3>1, <4>2, <5>1
      <4> QED BY <4>1, <4>2
    <3>3. ASSUME NEW x \in Elements \ {s[i]} PROVE \E j \in DOMAIN s2 : s2[j] = x
      <4>1. PICK k \in 1..Len(s) : s[k] = x
        BY <1>5, <1>6
      <4>2. CASE k < i
        <5>1. k \in 1..Len(s) - 1
          BY <1>6, <4>2
        <5> QED BY <3>1, <4>1, <4>2, <5>1
      <4>3. CASE k > i
        <5>1. k - 1 \in 1..Len(s) - 1 /\ ~(k - 1 < i) /\ (k - 1) + 1 = k
          BY <1>6, <4>3
        <5>2. s2[k - 1] = s[k]
          BY <3>1, <5>1
        <5> QED BY <3>1, <4>1, <5>1, <5>2
      <4>4. k # i
        BY <4>1
      <4> QED BY <1>6, <4>2, <4>3, <4>4
    <3> QED BY <3>2, <3>3
  <2>4. HeldByNext(s2) = [g \in Elements \ {s[i]} |-> HeldBy(s)[g]]
    BY <1>5, <2>1, <2>3 DEF HeldByNext, HeldBy
  <2>5. Seq_!Used = Elements
    BY <1>3, <1>5 DEF Seq_!Used
  <2>6. i \in DOMAIN Order
    BY <1>3, <1>6
  <2>7. Seq_!Drop
    BY <1>3, <1>4, <2>2, <2>4, <2>5, <2>6 DEF Seq_!Drop, Held
  <2> QED BY <2>7 DEF Seq_!Next
<1> QED BY <1>2, <1>7, <1>8, <1>9, <1>10 DEF Moved

(* The array implements the sequence of handles: list_insert puts a handle *)
(* that is not in use right after its parent, list_drop removes one, and   *)
(* every other handle keeps its place in the order and its value.          *)
THEOREM ArrayImplementsSequence == Spec => ImplementsHandleSeq
<1>1. ASSUME Inv, HoldsSome, [Next]_vars
      PROVE  [Seq_!Next]_<<Order, [h \in {Order[i] : i \in DOMAIN Order} |-> value[h]]>>
  BY <1>1, StepOfSequence DEF Held
<1> QED BY <1>1, InitialSequence, AlwaysHolds, PTL DEF ImplementsHandleSeq, Seq_!Spec, Spec
=============================================================================
