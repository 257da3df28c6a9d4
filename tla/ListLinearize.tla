--------------------------- MODULE ListLinearize ---------------------------
(***************************************************************************)
(* list_linearize of shared/src/list.cpp: move the k-th element of the     *)
(* list to node k of the array, for every k, and forget the free nodes.    *)
(* One step per iteration of its loop.  During a call `work` is the array  *)
(* as the loop has rewritten it so far, and the variables of ArrayList are *)
(* the list that the caller passed; the two become one when it returns.    *)
(***************************************************************************)
EXTENDS ArrayList

VARIABLES
    pc,           \* "idle", "loop", or "overrun": icap has left the array
    work,         \* the fields of the array during a call
    icap, inode   \* the loop's variables

loopVars == <<pc, work, icap, inode>>
lvars == <<vars, loopVars>>

NotCalled ==
    [pc |-> "idle", work |-> [next |-> NoNodes, prev |-> NoNodes, value |-> <<>>],
     icap |-> 1, inode |-> LIST_ROOT_EL]

LinearizeInit ==
    /\ Init
    /\ pc = "idle" /\ work = NotCalled.work
    /\ icap = NotCalled.icap /\ inode = NotCalled.inode

OtherOperation == pc = "idle" /\ Next /\ UNCHANGED loopVars

\* A list without an array is returned as it is.  The verifier's error is
\* passed on; the links it has read there are not written ones, and may as well
\* lead out of the block.
ReturnAtOnce ==
    /\ pc = "idle" /\ constructed /\ ret # "undefined" /\ array # "freed"
    /\ \/ array = "null" /\ list_verify = {} /\ ret' = "DS_OK"
       \/ list_verify # {} /\ ret' \in {"DS_LIST_CONNECTIVITY_CORRUPT", "undefined"}
    /\ UNCHANGED <<list, constructed, loopVars>>

Call ==
    /\ pc = "idle" /\ constructed
    /\ list_verify = {} /\ array = "held"
    /\ pc' = "loop"
    /\ work' = [next |-> next, prev |-> prev, value |-> value]
    /\ icap' = 1 /\ inode' = next[LIST_ROOT_EL]
    /\ UNCHANGED vars

InLoop == pc = "loop" /\ inode # LIST_ROOT_EL /\ icap \in Nodes

\* One iteration leaves the array as w; its last step is
\* inode = array[icap++].next.
Advance(w) ==
    /\ work' = w
    /\ inode' = w.next[icap]
    /\ icap' = icap + 1
    /\ UNCHANGED <<vars, pc>>

AlreadyThere == InLoop /\ icap = inode /\ Advance(work)

\* Node inode takes the place icap in the ring, before anything else moves:
\* nx_node->prev, array[nx_node->prev].next and array[nx_node->next].prev are
\* assigned.
Redirected ==
    LET w == [work EXCEPT !.next[icap - 1] = icap, !.prev[inode] = icap - 1]
    IN  [w EXCEPT !.prev[w.next[inode]] = icap]

\* Faulty: a free place is passed over and the element stays where it is.
MoveToFree_leavingGap ==
    InLoop /\ icap # inode /\ work.prev[icap] = LIST_PREV_FREE /\ Advance(Redirected)

MoveToFree ==
    /\ InLoop /\ icap # inode /\ work.prev[icap] = LIST_PREV_FREE
    /\ Advance([Redirected EXCEPT
                  !.next[icap] = Redirected.next[inode], !.next[inode] = inode,
                  !.prev[icap] = Redirected.prev[inode],
                  !.prev[inode] = LIST_PREV_FREE,
                  !.value[icap] = work.value[inode]])

\* The two assignments through icap_node read what the lines above have just
\* written when icap follows inode in the list.
SwappedPointers ==
    LET w == [Redirected EXCEPT !.next[Redirected.prev[icap]] = inode]
    IN  [w EXCEPT !.prev[w.next[icap]] = inode]

Swap(f) == [f EXCEPT ![inode] = f[icap], ![icap] = f[inode]]

\* Faulty: the pointers of the two nodes change places, their values do not.
Swapped_pointersOnly ==
    [next |-> Swap(SwappedPointers.next), prev |-> Swap(SwappedPointers.prev),
     value |-> work.value]

Swapped ==
    [next |-> Swap(SwappedPointers.next), prev |-> Swap(SwappedPointers.prev),
     value |-> Swap(work.value)]

SwapNodes ==
    /\ InLoop /\ icap # inode /\ work.prev[icap] # LIST_PREV_FREE
    /\ Advance(Swapped)

Return ==
    /\ pc = "loop" /\ inode = LIST_ROOT_EL
    /\ pc' = "idle" /\ work' = NotCalled.work
    /\ icap' = NotCalled.icap /\ inode' = NotCalled.inode
    /\ next' = [i \in 0..icap-1 |-> work.next[i]]
    /\ prev' = [i \in 0..icap-1 |-> work.prev[i]]
    /\ value' = [i \in 1..icap-1 |-> work.value[i]]
    /\ used_capacity' = icap
    /\ list_free_head' = LIST_ROOT_EL
    /\ ret' = "DS_OK"
    /\ UNCHANGED <<array, capacity, constructed>>

\* Nothing in the loop stops icap at the end of the array: the code goes on in
\* memory it has not initialised, and then in memory it does not own.
LeaveArray ==
    /\ pc = "loop" /\ inode # LIST_ROOT_EL /\ icap \notin Nodes
    /\ pc' = "overrun"
    /\ UNCHANGED <<vars, work, icap, inode>>

LinearizeNext ==
    \/ OtherOperation \/ ReturnAtOnce \/ Call \/ AlreadyThere \/ MoveToFree \/ SwapNodes
    \/ Return \/ LeaveArray

LinearizeSpec == LinearizeInit /\ [][LinearizeNext]_lvars

-----------------------------------------------------------------------------
(* Properties *)

\* A list that list_linearize returns holds its elements at the nodes 1, 2, ...
\* in their order, and no node is left over: the array's used part is minimal.
\* (That the values move with their elements is ImplementsHandleSeq.)
LinearizedOnReturn ==
    [][pc = "loop" /\ pc' = "idle" =>
          /\ Order' = [k \in 1..used_capacity'-1 |-> k]
          /\ Len(Order') = Len(Order)]_lvars
=============================================================================
