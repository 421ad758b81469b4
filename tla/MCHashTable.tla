---------------------------- MODULE MCHashTable -----------------------------
(***************************************************************************)
(* The instances of HashTable that TLC checks: of four keys, three share a *)
(* row and two of these also their rbt_value.                              *)
(***************************************************************************)
EXTENDS HashTable, TLC

CONSTANTS k1, k2, k3, k4, v1, v2

FourKeys == {k1, k2, k3, k4}
RowOf == k1 :> 0 @@ k2 :> 0 @@ k3 :> 0 @@ k4 :> 1
RbtOf == k1 :> 7 @@ k2 :> 7 @@ k3 :> 9 @@ k4 :> 7
=============================================================================
