----------------------------- MODULE MCMmapSync -----------------------------
(* Small instances of MmapSync for TLC. *)
EXTENDS MmapSync

Sizes == [v \in Val |-> 1]

Symmetry == Permutations(Snap)

Put(k, v) == [key |-> k, val |-> v]
Delete(k) == [key |-> k, val |-> Missing]

\* A new database: one meta page of revision 0 is on disk.
Nothing == {<<>>}

\* One leaf with one key, published at revision 1.
OneKey == {<<Put(1, "a")>>}

\* Two leaves of two keys below a root: a mutation copies a leaf and the
\* root, and the sibling link to the left of the copy has to follow.
TwoLeaves == {[i \in 1..4 |-> Put(i, "a")]}

\* One leaf with one key and a free page, or two leaves below a root.
OneOrTwoLeaves == {[i \in 1..5 |-> Put(1, "a")], [i \in 1..4 |-> Put(i, "a")]}

\* The only key changes between two values: every mutation reuses the leaf of
\* the one before the last, unless a snapshot or a chain is in the way.
Replace == {Put(1, "a"), Put(1, "b")}

\* The left leaf changes, or the right one, to which the left one is relinked.
ReplaceEither == {Put(1, "b"), Put(3, "b")}

\* The left leaf changes, or the right one shrinks and grows.
ReplaceAndDelete == {Put(1, "b"), Delete(3), Put(3, "b")}
=============================================================================
