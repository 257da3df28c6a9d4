---------------------------- MODULE ElementStack ----------------------------
(***************************************************************************)
(* What the vector of shared/include/pvector.h and stack/include/pvector.h *)
(* promises its callers: a stack of elements that a failing call leaves as *)
(* it was, one call excepted: pvector_pop_back may report a failure after  *)
(* it has removed the element.                                             *)
(***************************************************************************)
EXTENDS Sorts

VARIABLES
    items,     \* the elements, first to last
    ok,        \* the last call reported no error
    strayed    \* something else has written to the vector's memory

Init == items = <<>> /\ ok = TRUE /\ strayed = FALSE

Push == /\ ok'
        /\ Len(items') = Len(items) + 1
        /\ items = SubSeq(items', 1, Len(items))
        /\ UNCHANGED strayed

\* With or without the report of a failure to shrink.
Pop == /\ Len(items) > 0
       /\ items' = SubSeq(items, 1, Len(items) - 1)
       /\ ok' \in BOOLEAN
       /\ UNCHANGED strayed

Sort == ok' /\ SortOf(items, items') /\ UNCHANGED strayed

Clear == items' = <<>> /\ ok' /\ UNCHANGED strayed

Refuse == ~ok' /\ UNCHANGED <<items, strayed>>

Look == ok' /\ UNCHANGED <<items, strayed>>

Scribble == strayed' /\ UNCHANGED ok

Next == Push \/ Pop \/ Sort \/ Clear \/ Refuse \/ Look \/ Scribble

Spec == Init /\ [][Next]_<<items, ok, strayed>>
=============================================================================
