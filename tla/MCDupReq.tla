------------------------------ MODULE MCDupReq ------------------------------
(***************************************************************************)
(* The instance of DupReq that TLC checks.                                 *)
(***************************************************************************)
EXTENDS DupReq, TLC

CONSTANTS c1, c2, c3, e1, e2, e3

\* Every client chose another xid.
ThreeXids == c1 :> 101 @@ c2 :> 102 @@ c3 :> 103

\* Nothing tells the structures of a pool apart.
EntrySymmetry == Permutations({e1, e2, e3})
=============================================================================
