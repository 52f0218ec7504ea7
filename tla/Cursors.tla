------------------------------- MODULE Cursors -------------------------------
(***************************************************************************)
(* Bounded range scans and snapshot cursors over the pages of a tree.      *)
(*                                                                         *)
(* A cursor keeps the path to its leaf slot as a stack of frames, a page   *)
(* id and a position in that page, and never reads a sibling link: the     *)
(* links of the pages that a snapshot sees may be stale.                   *)
(***************************************************************************)
EXTENDS BPlusTree

NoBound == 0    \* no lower bound (hasLower) or no end (hasEnd)
NoKey == 0      \* the key of a cursor that is not valid
ASSUME KeysArePositive == Key \subseteq Nat \ {0}

BeforeEnd(k, end) == end = NoBound \/ k < end

----------------------------------------------------------------------------
(* RangeFrom (end = NoBound) and RangeBetween *)

\* rangeLeafSlots: from slot first on, until a key reaches the end.
RangeLeafSlots(pages, id, first, end) ==
    LET visited == VisitLeaf(pages, id)
    IN SelectSeq(SubSeq(visited, first, Len(visited)), LAMBDA e : BeforeEnd(e[1], end))

RangePageFrom_SkipsFirst(pages, root, start, end) ==  \* slip: starts right of the child of start
    LET visit[id \in {0} \union DOMAIN pages] ==
            IF id = 0 THEN <<>>
            ELSE IF pages[id].kind = "leaf"
            THEN RangeLeafSlots(pages, id, SlotIndex(KeysOf(pages[id].entries), start), end)
            ELSE LET p == pages[id]
                     first == SlotIndex(p.keys, start) + 1
                 IN FlattenSeq([i \in 1..(Len(p.children) - first + 1) |->
                                   visit[p.children[first + i - 1]]])
    IN visit[root]
\* rangePageFrom and rangePageBetween: from the child of start on, up to the
\* first child whose lower bound reaches the end.
RangePageFrom(pages, root, start, end) ==
    LET visit[id \in {0} \union DOMAIN pages] ==
            IF id = 0 THEN <<>>
            ELSE IF pages[id].kind = "leaf"
            THEN RangeLeafSlots(pages, id, SlotIndex(KeysOf(pages[id].entries), start), end)
            ELSE LET p == pages[id]
                     first == ChildIndex(p.keys, start)
                     reached == {i \in first..Len(p.children) :
                                    i = 1 \/ BeforeEnd(p.keys[i - 1], end)}
                 IN FlattenSeq([i \in 1..Cardinality(reached) |->
                                   visit[p.children[first + i - 1]]])
    IN visit[root]

\* rangeLinkedLeavesFrom and rangeLinkedLeavesBetween.
RECURSIVE WalkLinksFrom(_, _, _, _, _, _)
WalkLinksFrom(pages, id, start, end, seen, out) ==
    IF id = 0 \/ id \in seen THEN [ok |-> TRUE, out |-> out]
    ELSE IF id \notin DOMAIN pages \/ pages[id].kind # "leaf"
         THEN [ok |-> FALSE, out |-> out]
    ELSE LET keys == KeysOf(pages[id].entries)
             first == IF seen = {} THEN SlotIndex(keys, start) ELSE 1
         IN IF keys # <<>> /\ ~BeforeEnd(keys[1], end)
            THEN [ok |-> TRUE, out |-> out]
            ELSE WalkLinksFrom(pages, pages[id].next, start, end, seen \union {id},
                               out \o RangeLeafSlots(pages, id, first, end))

\* Tree.RangeFrom and Tree.RangeBetween: what the visitor is called with.
TreeRangeFrom(st, hasSnapshots, start, end) ==
    LET linked == WalkLinksFrom(st.pages, LeafForKey(st.pages, st.root, start),
                                start, end, {}, <<>>)
        walked == RangePageFrom(st.pages, st.root, start, end)
    IN IF ~BeforeEnd(start, end) THEN <<>>
       ELSE IF hasSnapshots THEN walked
       ELSE IF linked.ok THEN linked.out
       ELSE linked.out \o walked

----------------------------------------------------------------------------
(* Cursors *)

\* newCursor and newCursorBetween, before they move to the first key.
NewCursor(lower, end) ==
    [stack |-> <<>>, key |-> NoKey, val |-> Missing, lower |-> lower, end |-> end]
Invalid(c) == [c EXCEPT !.key = NoKey, !.val = Missing]
Valid(c) == c.key # NoKey

Frame(id, index) == [id |-> id, index |-> index]
Push(c, id, index) == [c EXCEPT !.stack = Append(@, Frame(id, index))]
Pop(c) == [c EXCEPT !.stack = Front(@)]
Shift(c, n) == [c EXCEPT !.stack[Len(c.stack)].index = @ + n]

LoadLeafSlot(pages, c, f) ==
    LET e == pages[f.id].entries[f.index]
    IN [c EXCEPT !.key = e.key, !.val = ResolveLeafValue(pages, e)]

\* loadForward: the slot of the top frame, or the first one to its right.
RECURSIVE LoadForward(_, _), DescendLeft(_, _, _), LoadBackward(_, _), DescendRight(_, _, _)
LoadForward(pages, c) ==
    IF c.stack = <<>> THEN Invalid(c)
    ELSE LET f == Last(c.stack)
             p == pages[f.id]
         IN IF p.kind = "leaf"
            THEN IF f.index > Len(p.entries) THEN LoadForward(pages, Pop(c))
                 ELSE IF BeforeEnd(p.entries[f.index].key, c.end)
                 THEN LoadLeafSlot(pages, c, f) ELSE Invalid(c)
            ELSE IF f.index < Len(p.children)
            THEN DescendLeft(pages, Shift(c, 1), p.children[f.index + 1])
            ELSE LoadForward(pages, Pop(c))
DescendLeft(pages, c, id) ==
    IF id = 0 THEN Invalid(c)
    ELSE IF pages[id].kind = "leaf" THEN LoadForward(pages, Push(c, id, 1))
    ELSE DescendLeft(pages, Push(c, id, 1), pages[id].children[1])

\* loadBackward: the slot of the top frame, or the last one to its left.
LoadBackward(pages, c) ==
    IF c.stack = <<>> THEN Invalid(c)
    ELSE LET f == Last(c.stack)
             p == pages[f.id]
         IN IF p.kind = "leaf"
            THEN IF f.index < 1 THEN LoadBackward(pages, Pop(c))
                 ELSE IF p.entries[f.index].key >= c.lower
                 THEN LoadLeafSlot(pages, c, f) ELSE Invalid(c)
            ELSE IF f.index > 1
            THEN DescendRight(pages, Shift(c, -1), p.children[f.index - 1])
            ELSE LoadBackward(pages, Pop(c))
DescendRight(pages, c, id) ==
    IF id = 0 THEN Invalid(c)
    ELSE IF pages[id].kind = "leaf"
    THEN LoadBackward(pages, Push(c, id, Len(pages[id].entries)))
    ELSE DescendRight(pages, Push(c, id, Len(pages[id].children)), Last(pages[id].children))

Restarted(c) == [c EXCEPT !.stack = <<>>]

\* Cursor.Seek: the path to the first slot whose key is k or more.
RECURSIVE SeekFrom(_, _, _, _)
SeekFrom(pages, c, id, k) ==
    IF id = 0 THEN Invalid(c)
    ELSE LET p == pages[id]
             i == IF p.kind = "leaf" THEN SlotIndex(KeysOf(p.entries), k)
                                     ELSE ChildIndex(p.keys, k)
         IN IF p.kind = "leaf" THEN LoadForward(pages, Push(c, id, i))
            ELSE SeekFrom(pages, Push(c, id, i), p.children[i], k)
Seek_NotClamped(pages, root, c, k) ==  \* slip: the lower bound is forgotten
    IF BeforeEnd(k, c.end) THEN SeekFrom(pages, Restarted(c), root, k)
                           ELSE Invalid(c)
Seek(pages, root, c, k) ==
    LET from == Larger(k, c.lower)
    IN IF BeforeEnd(from, c.end) THEN SeekFrom(pages, Restarted(c), root, from)
                                 ELSE Invalid(c)

First(pages, root, c) ==
    IF c.lower # NoBound THEN Seek(pages, root, c, c.lower)
                         ELSE DescendLeft(pages, Restarted(c), root)

\* seekBefore: the path to the last slot whose key is below k; a separator
\* equal to k leads left.
RECURSIVE SeekBackFrom(_, _, _, _)
SeekBackFrom(pages, c, id, k) ==
    IF id = 0 THEN Invalid(c)
    ELSE LET p == pages[id]
         IN IF p.kind = "leaf"
            THEN LoadBackward(pages, Push(c, id, SlotIndex(KeysOf(p.entries), k) - 1))
            ELSE SeekBackFrom(pages, Push(c, id, SlotIndex(p.keys, k)),
                              p.children[SlotIndex(p.keys, k)], k)
SeekBefore(pages, root, c, k) ==
    IF k <= c.lower THEN Invalid(c) ELSE SeekBackFrom(pages, Restarted(c), root, k)

LastKey(pages, root, c) ==
    IF c.end # NoBound THEN SeekBefore(pages, root, c, c.end)
                       ELSE DescendRight(pages, Restarted(c), root)

Next_(pages, c) == IF Valid(c) THEN LoadForward(pages, Shift(c, 1)) ELSE c
Prev(pages, c) == IF Valid(c) THEN LoadBackward(pages, Shift(c, -1)) ELSE c

----------------------------------------------------------------------------
(* The walks that a caller makes *)

RECURSIVE WalkForward(_, _), WalkBackward(_, _)
WalkForward(pages, c) ==
    IF Valid(c) THEN <<c>> \o WalkForward(pages, Next_(pages, c)) ELSE <<>>
WalkBackward(pages, c) ==
    IF Valid(c) THEN <<c>> \o WalkBackward(pages, Prev(pages, c)) ELSE <<>>
=============================================================================
