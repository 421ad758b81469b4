------------------------------ MODULE HashMap -------------------------------
(***************************************************************************)
(* What a hash table promises its callers: a map from keys to values.      *)
(* The last call, with its return code and the value it handed back, is in *)
(* last.                                                                   *)
(***************************************************************************)
CONSTANTS Keys, Values, NULL

VARIABLES
    map,                \* the value of each key, NULL if it has none
    last                \* [op, key, rc, val]

Answer(op, k, rc, val) == last' = [op |-> op, key |-> k, rc |-> rc, val |-> val]

Found(k) == IF map[k] = NULL THEN "NO_SUCH_KEY" ELSE "SUCCESS"

Init ==
    /\ map = [k \in Keys |-> NULL]
    /\ last = NULL

Test(k) ==
    /\ Answer("TEST_ONLY", k, Found(k), NULL)
    /\ UNCHANGED map

Set(k, v) ==
    /\ map' = [map EXCEPT ![k] = v]
    /\ \/ Answer("SET_OVERWRITE", k, "SUCCESS", NULL)
       \/ map[k] = NULL /\ Answer("SET_NO_OVERWRITE", k, "SUCCESS", NULL)

(***************************************************************************)
(* A set fails because the key has a value that may not be overwritten, or *)
(* because it has none and there is no memory for it.                      *)
(***************************************************************************)
SetFailed(k) ==
    /\ \/ map[k] # NULL /\ Answer("SET_NO_OVERWRITE", k, "KEY_ALREADY_EXISTS", NULL)
       \/ \E op \in {"SET_OVERWRITE", "SET_NO_OVERWRITE"} :
             map[k] = NULL /\ Answer(op, k, "MALLOC_ERROR", NULL)
    /\ UNCHANGED map

Get(k) ==
    /\ Answer("GET", k, Found(k), map[k])
    /\ UNCHANGED map

Del(k) ==
    /\ Answer("DEL", k, Found(k), map[k])
    /\ map' = [map EXCEPT ![k] = NULL]

Next ==
    \E k \in Keys :
        \/ Test(k) \/ SetFailed(k) \/ Get(k) \/ Del(k)
        \/ \E v \in Values : Set(k, v)

Spec == Init /\ [][Next]_<<map, last>>
=============================================================================
