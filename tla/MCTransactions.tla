--------------------------- MODULE MCTransactions ----------------------------
(* Model checking of Transactions: two keys or three, two values. *)
EXTENDS Transactions, TLC

\* The tree's order is that of the strings.
Bytewise == {<<a, b>> \in Bound \X Bound : a < b}

\* The trees whose every key but the second is there.
Trees == {[k \in Key |-> IF k = 2 THEN Missing ELSE v] : v \in Val}

Symmetry == Permutations(Tx) \union Permutations(Val)
=============================================================================
