---------------------------- MODULE MCOpenState ----------------------------
(***************************************************************************)
(* Instances of OpenState.                                                 *)
(***************************************************************************)
EXTENDS OpenState, TLC

CONSTANTS o1, o2, o3, f1, f2

Names == (o1 :> o1) @@ (o2 :> o2) @@ (o3 :> o1)

Open(o, f, how, access, deny) ==
    [owner |-> o, file |-> f, how |-> how, access |-> access, deny |-> deny]

\* On the file that exists a reader that denies writes and a writer that
\* denies reads, which does not look for conflicts; and a creation.
SomeOpens == {Open(o1, f1, "NOCREATE", {"R"}, {"W"}),
              Open(o3, f1, "UNCHECKED4", {"W"}, {"R"}),
              Open(o2, f2, "EXCLUSIVE4", {"W"}, {})}

SomeAccesses == {[owner |-> NULL, file |-> f1, access |-> {"W"}],
                 [owner |-> o1, file |-> f1, access |-> {"R"}]}

Symmetry == Permutations(States) \union Permutations(Workers)
=============================================================================
