--------------------------- MODULE MCMmapDurable ---------------------------
(* Small instances of MmapDurable for TLC. *)
EXTENDS MmapDurable

Sizes == [v \in Val |-> 1]

Put(k, v) == [key |-> k, val |-> v]

\* One leaf with one key and a free page, or two leaves below a root.
OneOrTwoLeaves == {[i \in 1..5 |-> Put(1, "a")], [i \in 1..4 |-> Put(i, "a")]}

\* The right leaf changes, to which the left one is relinked.
ReplaceRight == {Put(3, "b")}
=============================================================================
