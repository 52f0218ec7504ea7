---------------------------- MODULE VersionedMap -----------------------------
(***************************************************************************)
(* What a tree promises its callers: a map from keys to values, changed by *)
(* single mutations and by batches that take effect all at once, and       *)
(* snapshots that keep showing the map as it was when they were opened.    *)
(***************************************************************************)
EXTENDS Integers, Sequences, SequencesExt

CONSTANTS
    Key, Val,
    Missing,    \* the value of an absent key
    Snap,       \* snapshot handles
    NoView,     \* the view of a handle that is not open
    MaxBatch    \* bound: staged operations per batch

VARIABLES
    map,        \* [Key -> Val \union {Missing}]
    revision,   \* advances once per published change
    views       \* what each snapshot shows

vars == <<map, revision, views>>

\* A staged operation: Put of a value, or Delete (val = Missing).
Op == [key : Key, val : Val \union {Missing}]

ApplyOp(m, op) == [m EXCEPT ![op.key] = op.val]
\* The operations one after the other (a recursive function and no fold: the
\* proofs unfold it).
ApplyAll(m, ops) ==
    LET after[i \in 0..Len(ops)] == IF i = 0 THEN m ELSE ApplyOp(after[i - 1], ops[i])
    IN after[Len(ops)]

\* A Put always changes the tree, a Delete only when the key is there.
Changes(m, op) == op.val # Missing \/ m[op.key] # Missing

Init ==
    /\ map = [k \in Key |-> Missing]
    /\ revision = 0
    /\ views = [s \in Snap |-> NoView]

Mutate(op) ==
    /\ Changes(map, op)
    /\ map' = ApplyOp(map, op)
    /\ revision' = revision + 1
    /\ UNCHANGED views

Commit(ops) ==
    /\ \E i \in 1..Len(ops) : Changes(ApplyAll(map, SubSeq(ops, 1, i - 1)), ops[i])
    /\ map' = ApplyAll(map, ops)
    /\ revision' = revision + 1
    /\ UNCHANGED views

OpenSnapshot(s) ==
    /\ views[s] = NoView
    /\ views' = [views EXCEPT ![s] = map]
    /\ UNCHANGED <<map, revision>>

CloseSnapshot(s) ==
    /\ views[s] # NoView
    /\ views' = [views EXCEPT ![s] = NoView]
    /\ UNCHANGED <<map, revision>>

Next ==
    \/ \E op \in Op : Mutate(op)
    \/ \E ops \in BoundedSeq(Op, MaxBatch) : Commit(ops)
    \/ \E s \in Snap : OpenSnapshot(s) \/ CloseSnapshot(s)

Spec == Init /\ [][Next]_vars
=============================================================================
