------------------------------ MODULE Versions -------------------------------
(***************************************************************************)
(* What the page store promises whoever reads it: one published state that *)
(* is replaced as a whole, once per revision, and handles that go on       *)
(* showing the state that was published when they were opened.  What a     *)
(* state is, and how much of it a step may replace, is left open.          *)
(***************************************************************************)
EXTENDS Naturals

CONSTANTS
    Snap,   \* snapshot handles
    NoView  \* the view of a handle that is not open

VARIABLES
    published,  \* the state that Get and Snapshot read
    revision,   \* how often it was replaced
    views       \* what each handle shows

vars == <<published, revision, views>>

Init ==
    /\ revision = 0
    /\ views = [s \in Snap |-> NoView]

\* A mutation, or a commit with all of its operations.
Publish ==
    /\ revision' = revision + 1
    /\ UNCHANGED views

OpenSnapshot(s) ==
    /\ views[s] = NoView
    /\ views' = [views EXCEPT ![s] = published]
    /\ UNCHANGED <<published, revision>>

CloseSnapshot(s) ==
    /\ views[s] # NoView
    /\ views' = [views EXCEPT ![s] = NoView]
    /\ UNCHANGED <<published, revision>>

Next ==
    \/ Publish
    \/ \E s \in Snap : OpenSnapshot(s) \/ CloseSnapshot(s)

Spec == Init /\ [][Next]_vars
=============================================================================
