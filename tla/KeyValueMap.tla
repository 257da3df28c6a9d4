---------------------------- MODULE KeyValueMap ----------------------------
(***************************************************************************)
(* What the hash table of x86_64_hashtable/include/hash_table.h promises:  *)
(* a map from keys to values.  An addition may be refused for lack of      *)
(* memory, but only of a key that the map does not hold.                   *)
(***************************************************************************)
CONSTANTS Keys, Values, Nothing

VARIABLES
    map,     \* the value of each key, or Nothing
    reply    \* what the last call returned: [failed, value]

Empty == [k \in Keys |-> Nothing]
Done == [failed |-> FALSE, value |-> Nothing]
Failed == [failed |-> TRUE, value |-> Nothing]

Init == map = Empty /\ reply = Done

Add(k, v) == map' = [map EXCEPT ![k] = v] /\ reply' = Done
Refuse(k) == map[k] = Nothing /\ reply' = Failed /\ UNCHANGED map

Get(k) ==
    /\ reply' = (IF map[k] = Nothing THEN Failed ELSE [failed |-> FALSE, value |-> map[k]])
    /\ UNCHANGED map

Del(k) ==
    /\ reply' = (IF map[k] = Nothing THEN Failed ELSE Done)
    /\ map' = [map EXCEPT ![k] = Nothing]

\* Creating or destroying the table.
Clear == map' = Empty /\ reply' \in {Done, Failed}

Next ==
    \/ \E k \in Keys : Refuse(k) \/ Get(k) \/ Del(k)
    \/ \E k \in Keys, v \in Values : Add(k, v)
    \/ Clear

Spec == Init /\ [][Next]_<<map, reply>>
=============================================================================
