----------------------------- MODULE MCPageStore -----------------------------
(* Small instances of PageStore for TLC. *)
EXTENDS PageStore, TLC

Symmetry == Permutations(Snap) \union Permutations(Content)
=============================================================================
