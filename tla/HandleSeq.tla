----------------------------- MODULE HandleSeq -----------------------------
(***************************************************************************)
(* What the list of shared/include/list.h promises its callers: a sequence *)
(* of elements, each reached by a handle (list_ptr_t) that stays valid and *)
(* keeps its value until the element is dropped.                           *)
(***************************************************************************)
EXTENDS Sequences, Naturals, SequencesExt

CONSTANTS Handles, Values

VARIABLES
    order,  \* the handles in use, first to last
    val     \* the value each of them holds

Used == {order[i] : i \in DOMAIN order}

Init == order = <<>> /\ val = <<>>

\* The place of a parent: 0 for the sentinel, which is before every element.
Places == 0..Len(order)

Insert == \E i \in Places, h \in Handles \ Used, v \in Values :
    /\ order' = InsertAt(order, i + 1, h)
    /\ val' = [g \in Used \cup {h} |-> IF g = h THEN v ELSE val[g]]

Drop == \E i \in DOMAIN order :
    /\ order' = RemoveAt(order, i)
    /\ val' = [g \in Used \ {order[i]} |-> val[g]]

Clear == order' = <<>> /\ val' = <<>>

\* list_linearize: the handles become the places, 1 to the length, and each
\* element keeps its place and its value.
Renumber ==
    /\ order' = [i \in DOMAIN order |-> i]
    /\ val' = [i \in DOMAIN order |-> val[order[i]]]

Next == Insert \/ Drop \/ Clear \/ Renumber

Spec == Init /\ [][Next]_<<order, val>>
=============================================================================
