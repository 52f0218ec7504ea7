------------------------------ MODULE MCCowTree ------------------------------
(* Small instances of CowTree for TLC. *)
EXTENDS CowTree

\* A page of 8 units: three small cells or two medium ones fit, a big value
\* always needs a chain of two overflow pages.
Sizes == [v \in Val |-> CASE v = "s" -> 1 [] v = "m" -> 3 [] v = "b" -> 6]

Symmetry == Permutations(Snap)

Put(k, v) == [key |-> k, val |-> v]
Delete(k) == [key |-> k, val |-> Missing]

Disabled == -1

Empty == {<<>>}

\* A full leaf that holds an overflow reference.
FullLeaf == {<<Put(1, "s"), Put(2, "b"), Put(4, "s")>>}

\* Two leaves under a branch, one with an overflow reference, and what callers
\* do to them: a key is put, put (then put again), and one deleted (then missed).
TwoLeaves == {<<Put(1, "s"), Put(2, "b"), Put(4, "s"), Put(5, "s")>>}
SomeOps == {Put(3, "b"), Delete(5)}

\* Trees of three levels, all reached by 14 mutations: ascending and descending
\* fills, a narrow and a wide branch side by side, leaves of uneven sizes.
Keys14 == 1..14
Deep == {
    [i \in 1..14 |-> Put(i, "s")],
    [i \in 1..14 |-> Put(15 - i, "s")],
    [i \in 1..14 |-> Put(IF i <= 7 THEN 2 * i ELSE 2 * (15 - i) - 1, "s")],
    [i \in 1..14 |-> IF i <= 10 THEN Put(i + 2, "m") ELSE Delete(2 * (i - 9))]}

\* Bounds of scans and cursors: none, and pairs that meet separators, gaps and
\* the ends, an empty one among them.
Unbounded == {<<NoBound, NoBound>>}
SmallRanges == (Key \X (Key \union {NoBound})) \union Unbounded
SomeRanges == Unbounded \union
    {<<3, 8>>, <<5, 12>>, <<11, 4>>}
=============================================================================
