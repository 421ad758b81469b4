----------------------------- MODULE MCPipeline -----------------------------
(***************************************************************************)
(* The instances of RequestPipeline that TLC checks.                       *)
(***************************************************************************)
EXTENDS RequestPipeline

CONSTANTS w1, w2, c1, b1, b2, b3, b4, u1, u2, u3, m1, t1

OneWorker == {w1}
TwoWorkers == {w1, w2}
OneConn == {c1}
NoCalls == {}
=============================================================================
