------------------------------ MODULE MCRWLock ------------------------------
(***************************************************************************)
(* The instances of RWLock that TLC checks.                                *)
(***************************************************************************)
EXTENDS RWLock

CONSTANTS t1, t2, t3, t4

ThreeThreads == {t1, t2, t3}
FourThreads == {t1, t2, t3, t4}
=============================================================================
