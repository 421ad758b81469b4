------------------------------- MODULE MCNLM --------------------------------
(* Instances of NLM: two hosts, one of them with two lock owners. *)
EXTENDS NLM

MCHostOf == [o \in Owners |-> IF o = "o1" THEN "h1" ELSE "h2"]

\* The whole file, its first byte, and a range that splits the whole.
Whole == [start |-> 0, len |-> 0]
First == [start |-> 0, len |-> 1]
Middle == [start |-> 1, len |-> 1]
MCRanges == {Whole, First, Middle}

Ask(o, r, x) == [owner |-> o, fh |-> "f", start |-> r.start, len |-> r.len, exclusive |-> x]
MCLockArgs == {Ask("o1", Whole, TRUE), Ask("o1", First, FALSE),
               Ask("o2", Middle, TRUE)}
=============================================================================
