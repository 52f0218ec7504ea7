---------------------------- MODULE MCDurableTree ----------------------------
(* Small instances of DurableTree for TLC. *)
EXTENDS DurableTree

CONSTANTS Leaves, Roots

\* A tree is a leaf, or a root over the leaf in page 2 (body 2).
Bodies == Leaves \union Roots
BelowBody(b) == {b} \intersect Roots

IsLeaf(root, image) == DOMAIN image = {root} /\ image[root].body \in Leaves
IsRoot(root, image) == DOMAIN image = {root, 2} /\ root # 2 /\ image[root].body = 2 /\ image[2].body \in Leaves
IsTree(root, length, image) ==
    \/ root = 0
    \/ root \in DOMAIN image /\ (IsLeaf(root, image) \/ IsRoot(root, image))

\* Lengths play no part, since no step writes a wrong one.
Lengths == {0}

\* A link is right when it agrees with that of the root: a mutation that copies
\* the root only may have the leaf relinked in place.
IsLinked(root, image) == \A p \in DOMAIN image : image[p].next = image[root].next

\* The proofs about page ids end where a process ends otherwise than by Close.
NothingEnded == ~crash.ended
IdsUntilEnd == NothingEnded => IdsInv /\ NoPageLost /\ ChainsIntact
=============================================================================

