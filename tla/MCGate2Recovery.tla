--------------------------- MODULE MCGate2Recovery ---------------------------
(* Three rejected proposals, two of them from one window. *)
EXTENDS Gate2Recovery, TLC

Three == <<"first", "sibling", "second">>
TwoWindows == [d \in Proposals |-> IF d = "second" THEN "w2" ELSE "w1"]

\* A proposal that cannot be rerun, and three that can.
Unfit == <<"unfit", "first", "second", "third">>
OneUnfit == [d \in Proposals |-> IF d = "unfit" THEN "none" ELSE d]

WorkerSymmetry == Permutations(Workers)
=============================================================================
