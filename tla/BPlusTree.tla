------------------------------ MODULE BPlusTree ------------------------------
(***************************************************************************)
(* The copy-on-write B+tree algorithms of pagebtree as operators on a      *)
(* store: a record of the fields of Tree that a mutation reads and writes. *)
(*                                                                         *)
(*   pages     page id -> page        root      root page id, 0 when empty *)
(*   nextPage  next unused id         length    number of keys             *)
(*   revision  published revision     free      sequence, used as a stack  *)
(*   retired   sequence of [id, revision]                                  *)
(*                                                                         *)
(* A page is a leaf (entries, next), a branch (keys, children) or one link *)
(* of an overflow chain.  Keys are numbers in comparator order.  Bytes are *)
(* counted in units: a cell is one unit for slot and key plus its value or *)
(* its overflow reference; a page header is not counted.                   *)
(***************************************************************************)
EXTENDS Integers, Sequences, SequencesExt, FiniteSets, TLC

CONSTANTS
    Key,            \* a set of numbers
    Val,            \* the values (strings)
    ValSize,        \* units of a value: [Val -> Nat \ {0}]
    Degree,         \* t.degree
    PageUnits,      \* PageSize
    RefUnits,       \* overflowRefSize
    OverflowUnits,  \* overflowPayloadSize
    MinFillUnits    \* minRepairPageFillBytes

\* A leaf of maxKeys references fits a page: keys are small enough never to
\* make writeLeafEntries panic.
ASSUME UnitsFit ==
    /\ Degree \in Nat /\ Degree >= 2
    /\ ValSize \in [Val -> Nat \ {0}]
    /\ (2 * Degree - 1) * (1 + RefUnits) <= PageUnits
    /\ OverflowUnits \in Nat \ {0}

MaxKeys == 2 * Degree - 1
MinKeys == Degree - 1

Spilled == "spilled"    \* the value of a cell that holds an overflow reference
Missing == "missing"    \* what Get reports for an absent key
Corrupt == "corrupt"    \* a value whose overflow chain is not intact

Leaf(entries, next) == [kind |-> "leaf", entries |-> entries, next |-> next]
Branch(keys, children) == [kind |-> "branch", keys |-> keys, children |-> children]
OverflowPage(val, part, next) ==
    [kind |-> "overflow", val |-> val, part |-> part, next |-> next]
Entry(k, v) == [key |-> k, val |-> v, overflow |-> 0]

EmptyStore(first) ==
    [pages |-> <<>>, root |-> 0, nextPage |-> first, length |-> 0,
     revision |-> 0, free |-> <<>>, retired |-> <<>>]

\* The first of the candidates with the smallest distance (the loops that keep
\* the best split only replace it by a strictly better one).
FirstBest(candidates, Distance(_)) ==
    CHOOSE i \in candidates : \A j \in candidates :
        Distance(i) < Distance(j) \/ (Distance(i) = Distance(j) /\ i <= j)

Abs(n) == IF n < 0 THEN -n ELSE n
Larger(a, b) == IF a >= b THEN a ELSE b
Smaller(a, b) == IF a <= b THEN a ELSE b

----------------------------------------------------------------------------
(* Page allocation and retirement *)

Write(st, id, page) == [st EXCEPT !.pages = (id :> page) @@ @]

AllocPage(st) ==
    IF st.free # <<>>
    THEN [id |-> Last(st.free), st |-> [st EXCEPT !.free = Front(@)]]
    ELSE [id |-> st.nextPage, st |-> [st EXCEPT !.nextPage = @ + 1]]

NewPage(st, page) ==
    LET a == AllocPage(st) IN [id |-> a.id, st |-> Write(a.st, a.id, page)]

RetirePage(st, id) ==
    [st EXCEPT !.retired = Append(@, [id |-> id, revision |-> st.revision])]

CopyPage_InPlace(st, id) == [id |-> id, st |-> st]  \* slip: no copy on write
CopyPage(st, id) ==
    LET a == NewPage(st, st.pages[id])
    IN [id |-> a.id, st |-> RetirePage(a.st, id)]

----------------------------------------------------------------------------
(* Values and overflow chains *)

CellUnits(e) == 1 + (IF e.overflow = 0 THEN ValSize[e.val] ELSE RefUnits)
SumUnits(entries) == FoldLeft(LAMBDA n, e : n + CellUnits(e), 0, entries)

ShouldStoreOverflow(e) == e.overflow = 0 /\ 2 * (1 + ValSize[e.val]) > PageUnits

ChainLength(v) == (ValSize[v] + OverflowUnits - 1) \div OverflowUnits

\* writeOverflowChain: all ids are allocated first ...
AllocPages(st, n) ==
    FoldLeft(LAMBDA a, i : LET b == AllocPage(a.st)
                           IN [ids |-> Append(a.ids, b.id), st |-> b.st],
             [ids |-> <<>>, st |-> st], [i \in 1..n |-> i])

\* ... then linked in that order.
LinkOverflowChain(alloc, v) ==
    LET n == Len(alloc.ids)
        NextId(i) == IF i < n THEN alloc.ids[i + 1] ELSE 0
    IN [first |-> alloc.ids[1],
        st |-> FoldLeft(LAMBDA s, i : Write(s, alloc.ids[i],
                                            OverflowPage(v, i, NextId(i))),
                        alloc.st, [i \in 1..n |-> i])]

WriteOverflowChain(st, v) == LinkOverflowChain(AllocPages(st, ChainLength(v)), v)

\* overflowCellValue: entry i moves its value to a chain.
Spill(acc, i) ==
    LET w == WriteOverflowChain(acc.st, acc.entries[i].val)
    IN [st |-> w.st,
        entries |-> [acc.entries EXCEPT ![i].val = Spilled, ![i].overflow = w.first]]

\* The loop of writeLeafEntries: spill the largest inline value until it fits.
RECURSIVE FitLeaf(_)
FitLeaf(acc) ==
    IF SumUnits(acc.entries) <= PageUnits
    THEN acc
    ELSE LET inline == {i \in 1..Len(acc.entries) : acc.entries[i].overflow = 0}
         IN FitLeaf(Spill(acc, FirstBest(inline, LAMBDA i : -CellUnits(acc.entries[i]))))

SpillLarge(st, entries) ==
    FoldLeft(LAMBDA acc, i : IF ShouldStoreOverflow(acc.entries[i])
                             THEN Spill(acc, i) ELSE acc,
             [st |-> st, entries |-> entries], [i \in 1..Len(entries) |-> i])

WriteLeaf(fit, id, next) == Write(fit.st, id, Leaf(fit.entries, next))

WriteLeafEntries(st, id, entries) ==
    WriteLeaf(FitLeaf(SpillLarge(st, entries)), id, st.pages[id].next)

SetNextLeaf(st, id, next) == [st EXCEPT !.pages[id].next = next]

RECURSIVE RetireChain(_, _)
RetireChain(st, id) ==
    IF id = 0 THEN st
    ELSE RetireChain(RetirePage(st, id), st.pages[id].next)

RetireOverflowValue(st, e) == RetireChain(st, e.overflow)

\* resolveLeafValue / readOverflowChain: the parts met along the chain must be
\* those of one value, all of them, in order.
RECURSIVE ReadChain(_, _, _)
ReadChain(pages, id, part) ==
    IF id = 0 THEN <<>>
    ELSE IF id \notin DOMAIN pages \/ pages[id].kind # "overflow" THEN <<Corrupt>>
    ELSE <<<<pages[id].val, pages[id].part>>>> \o
         (IF part > Cardinality(DOMAIN pages) THEN <<Corrupt>>
          ELSE ReadChain(pages, pages[id].next, part + 1))

ResolveLeafValue(pages, e) ==
    IF e.overflow = 0 THEN e.val
    ELSE LET chain == ReadChain(pages, e.overflow, 1)
             whole == {v \in Val : chain = [i \in 1..ChainLength(v) |-> <<v, i>>]}
         IN IF whole = {} THEN Corrupt ELSE CHOOSE v \in whole : TRUE

----------------------------------------------------------------------------
(* Search *)

\* Position of the first element that is not before k (searchSlot).
SlotIndex(keys, k) == 1 + Cardinality({i \in 1..Len(keys) : keys[i] < k})
KeysOf(entries) == [i \in 1..Len(entries) |-> entries[i].key]
HasKey(entries, k) == \E i \in 1..Len(entries) : entries[i].key = k

\* childIndex: a key equal to a separator is in the child to its right.
ChildIndex(keys, k) == 1 + Cardinality({i \in 1..Len(keys) : keys[i] <= k})

LeafForKey(pages, root, k) ==
    LET descend[id \in {0} \union DOMAIN pages] ==
            IF id = 0 \/ pages[id].kind = "leaf" THEN id
            ELSE descend[pages[id].children[ChildIndex(pages[id].keys, k)]]
    IN descend[root]

SearchPage(pages, root, k) ==
    LET search[id \in {0} \union DOMAIN pages] ==
            IF id = 0 THEN Missing
            ELSE IF pages[id].kind # "leaf"
            THEN search[pages[id].children[ChildIndex(pages[id].keys, k)]]
            ELSE LET es == pages[id].entries
                 IN IF HasKey(es, k) THEN ResolveLeafValue(pages, es[SlotIndex(KeysOf(es), k)])
                                     ELSE Missing
    IN search[root]

\* collectLeavesInOrder
Leaves(pages, root) ==
    LET collect[id \in {0} \union DOMAIN pages] ==
            IF id = 0 THEN <<>>
            ELSE IF pages[id].kind = "leaf" THEN <<id>>
            ELSE FlattenSeq([i \in 1..Len(pages[id].children) |->
                                collect[pages[id].children[i]]])
    IN collect[root]

VisitLeaf(pages, id) ==
    [i \in 1..Len(pages[id].entries) |->
        <<pages[id].entries[i].key, ResolveLeafValue(pages, pages[id].entries[i])>>]

\* rangePage: the recursive walk, which never reads a sibling link.
RangePage(pages, root) ==
    LET ls == Leaves(pages, root)
    IN FlattenSeq([i \in 1..Len(ls) |-> VisitLeaf(pages, ls[i])])

\* rangeLinkedLeaves from a leaf on: ok is FALSE when the chain leaves the
\* leaves, and then the caller starts again with the recursive walk.
RECURSIVE WalkLinks(_, _, _, _)
WalkLinks(pages, id, seen, out) ==
    IF id = 0 \/ id \in seen THEN [ok |-> TRUE, out |-> out]
    ELSE IF id \notin DOMAIN pages \/ pages[id].kind # "leaf"
         THEN [ok |-> FALSE, out |-> out]
    ELSE WalkLinks(pages, pages[id].next, seen \union {id},
                   out \o VisitLeaf(pages, id))

LeftmostLeaf(pages, root) ==
    LET descend[id \in {0} \union DOMAIN pages] ==
            IF id = 0 \/ pages[id].kind = "leaf" THEN id
            ELSE descend[pages[id].children[1]]
    IN descend[root]

\* Tree.Range: what the visitor is called with.
TreeRange(st, hasSnapshots) ==
    LET linked == WalkLinks(st.pages, LeftmostLeaf(st.pages, st.root), {}, <<>>)
    IN IF hasSnapshots THEN RangePage(st.pages, st.root)
       ELSE IF linked.ok THEN linked.out
       ELSE linked.out \o RangePage(st.pages, st.root)

----------------------------------------------------------------------------
(* Put *)

\* leafSplitIndex: how many entries stay on the left.
LeafSplitIndex(entries) ==
    LET n == Len(entries)
        small == Larger(1, Degree - 1)
        least == IF small > n - 1 THEN n \div 2 ELSE small
        maxLeft == Smaller(n - least, MaxKeys)
        minLeft == Larger(least, n - MaxKeys)
    IN IF n < 2 THEN n
       ELSE IF minLeft > maxLeft THEN n \div 2
       ELSE FirstBest(minLeft..maxLeft,
               LAMBDA i : Abs(SumUnits(entries) - 2 * SumUnits(SubSeq(entries, 1, i))))

\* branchSplitIndex: position (from 0) of the separator that is promoted.
\* Every branch cell is one unit, so bytes are counts.
BranchSplitIndex(n) ==
    LET lo == Larger(Larger(1, Degree - 1), n - 1 - MaxKeys)
        hi == Smaller(MaxKeys, n - 1 - Larger(1, Degree - 1))
    IN IF n < 3 \/ lo > hi THEN n \div 2
       ELSE FirstBest(lo..hi, LAMBDA i : Abs(i - (n - (i + 1))))

NoSplit == [separator |-> 0, right |-> 0]

\* The leaf id keeps the left part of grown, a new page gets the right part
\* and is linked behind it.
SplitLeaf(st, id, grown, right, mid) ==
    [st |-> SetNextLeaf(
              SetNextLeaf(
                WriteLeafEntries(
                  WriteLeafEntries(right.st, id, SubSeq(grown, 1, mid)),
                  right.id, SubSeq(grown, mid + 1, Len(grown))),
                id, right.id),
              right.id, st.pages[id].next),
     replaced |-> FALSE,
     split |-> [separator |-> grown[mid + 1].key, right |-> right.id]]

InsertLeaf(st, id, k, v) ==
    LET es == st.pages[id].entries
        i == SlotIndex(KeysOf(es), k)
        grown == InsertAt(es, i, Entry(k, v))
    IN IF HasKey(es, k)
       THEN [st |-> WriteLeafEntries(RetireOverflowValue(st, es[i]), id,
                                     ReplaceAt(es, i, Entry(k, v))),
             replaced |-> TRUE, split |-> NoSplit]
       ELSE IF Len(grown) <= MaxKeys
       THEN [st |-> WriteLeafEntries(st, id, grown), replaced |-> FALSE,
             split |-> NoSplit]
       ELSE SplitLeaf(st, id, grown, NewPage(st, Leaf(<<>>, 0)), LeafSplitIndex(grown))

RECURSIVE Insert(_, _, _, _)
\* The branch id keeps the children left of separator mid (counted from 0),
\* right is the page with those to its right.
SplitBranch(below, right, id, ks, cs, mid) ==
    [st |-> Write(right.st, id, Branch(SubSeq(ks, 1, mid), SubSeq(cs, 1, mid + 1))),
     replaced |-> below.replaced,
     split |-> [separator |-> ks[mid + 1], right |-> right.id]]

\* Put the page that splitting child i made into the branch id.
InsertSplit(below, id, i) ==
    LET p == below.st.pages[id]
        ks == InsertAt(p.keys, i, below.split.separator)
        cs == InsertAt(p.children, i + 1, below.split.right)
        mid == BranchSplitIndex(Len(ks))
    IN IF below.split = NoSplit
       THEN below
       ELSE IF Len(ks) <= MaxKeys
       THEN [below EXCEPT !.st = Write(@, id, Branch(ks, cs)), !.split = NoSplit]
       ELSE SplitBranch(below,
                        NewPage(below.st, Branch(SubSeq(ks, mid + 2, Len(ks)),
                                                 SubSeq(cs, mid + 2, Len(cs)))),
                        id, ks, cs, mid)

SetChild(copy, id, i) ==
    [copy EXCEPT !.st.pages[id].children[i] = copy.id]

InsertBelow(child, k, v) == Insert(child.st, child.id, k, v)
InsertBranch(st, id, k, v) ==
    LET p == st.pages[id]
        i == ChildIndex(p.keys, k)
    IN InsertSplit(InsertBelow(SetChild(CopyPage(st, p.children[i]), id, i), k, v),
                   id, i)
Insert(st, id, k, v) ==
    IF st.pages[id].kind = "leaf" THEN InsertLeaf(st, id, k, v)
                                  ELSE InsertBranch(st, id, k, v)

SetRoot(a) == [a.st EXCEPT !.root = a.id]

\* The root after an insertion into page id: a new branch if id was split.
GrowRoot(ins, id) ==
    SetRoot(IF ins.split = NoSplit
            THEN [id |-> id, st |-> ins.st]
            ELSE NewPage(ins.st, Branch(<<ins.split.separator>>,
                                        <<id, ins.split.right>>)))

PutRoot(ins, id) ==
    [GrowRoot(ins, id) EXCEPT !.length = IF ins.replaced THEN @ ELSE @ + 1]

PutBelow(copy, k, v) == PutRoot(Insert(copy.st, copy.id, k, v), copy.id)

PutStaged(st, k, v) ==
    IF st.root = 0
    THEN LET leaf == NewPage(st, Leaf(<<>>, 0))
         IN [WriteLeafEntries(leaf.st, leaf.id, <<Entry(k, v)>>)
               EXCEPT !.root = leaf.id, !.length = 1]
    ELSE PutBelow(CopyPage(st, st.root), k, v)

----------------------------------------------------------------------------
(* Delete *)

FirstKey(st, id) == st.pages[LeftmostLeaf(st.pages, id)].entries[1].key

WriteBranchChildren_OwnKey(st, id, cs) ==  \* slip: the separator is the left child's key
    Write(st, id,
          IF cs = <<>> THEN Leaf(<<>>, 0)
          ELSE Branch([i \in 1..(Len(cs) - 1) |-> FirstKey(st, cs[i])], cs))
WriteBranchChildren(st, id, cs) ==
    Write(st, id,
          IF cs = <<>> THEN Leaf(<<>>, 0)
          ELSE Branch([i \in 1..(Len(cs) - 1) |-> FirstKey(st, cs[i + 1])], cs))

IsBranch(st, id) == st.pages[id].kind = "branch"
IsLeaf(st, id) == st.pages[id].kind = "leaf"
KeyCount(st, id) == IF IsBranch(st, id) THEN Len(st.pages[id].keys)
                                        ELSE Len(st.pages[id].entries)

UnitsUsed(st, id) == IF IsBranch(st, id) THEN Len(st.pages[id].keys)
                                         ELSE SumUnits(st.pages[id].entries)

\* leafNeedsRepair, branchNeedsRepair
NeedsRepair(st, id) ==
    \/ KeyCount(st, id) < MinKeys
    \/ KeyCount(st, id) <= MinKeys /\ UnitsUsed(st, id) < MinFillUnits

CanLend(st, id) == IsBranch(st, id) /\ KeyCount(st, id) > MinKeys

\* The left and the right page of a pair of siblings get new children.
WritePair(st, l, lcs, r, rcs) ==
    WriteBranchChildren(WriteBranchChildren(st, l, lcs), r, rcs)

\* One child moves between the copies a and b of a pair of branches.
MoveToRight(st, a, b) ==
    WritePair(st, a, Front(st.pages[a].children),
              b, <<Last(st.pages[a].children)>> \o st.pages[b].children)
MoveToLeft(st, a, b) ==
    WritePair(st, a, Append(st.pages[a].children, st.pages[b].children[1]),
              b, Tail(st.pages[b].children))

\* a and b are the copies of the children low and low + 1.
Borrowed(a, b, cs, low, toRight) ==
    [st |-> IF toRight THEN MoveToRight(b.st, a, b.id) ELSE MoveToLeft(b.st, a, b.id),
     children |-> [cs EXCEPT ![low] = a, ![low + 1] = b.id],
     copied |-> TRUE]

\* The left page of the pair is copied first.
BorrowPair(a, cs, low, toRight) ==
    Borrowed(a.id, CopyPage(a.st, cs[low + 1]), cs, low, toRight)

\* borrowBranchChildBeforeDescent
BorrowBranchChild(st, cs, i) ==
    LET lender == IF i > 1 /\ CanLend(st, cs[i - 1]) THEN i - 1
                  ELSE IF i < Len(cs) /\ CanLend(st, cs[i + 1]) THEN i + 1
                  ELSE 0
        low == Smaller(i, lender)
    IN IF ~IsBranch(st, cs[i]) \/ KeyCount(st, cs[i]) > MinKeys \/ lender = 0
       THEN [st |-> st, children |-> cs, copied |-> FALSE]
       ELSE BorrowPair(CopyPage(st, cs[low]), cs, low, lender < i)

LeafFits(entries) == Len(entries) <= MaxKeys /\ SumUnits(entries) <= PageUnits

\* The leaves l and r, children low and low + 1, become one page, or two of
\* more even size if one cannot hold their entries.
MergeLeaves(st, l, r, cs, low) ==
    LET merged == st.pages[l].entries \o st.pages[r].entries
        mid == LeafSplitIndex(merged)
    IN IF LeafFits(merged)
       THEN [st |-> RetirePage(SetNextLeaf(WriteLeafEntries(st, l, merged),
                                           l, st.pages[r].next), r),
             children |-> RemoveAt(cs, low + 1)]
       ELSE [st |-> WriteLeafEntries(
                      SetNextLeaf(WriteLeafEntries(st, l, SubSeq(merged, 1, mid)), l, r),
                      r, SubSeq(merged, mid + 1, Len(merged))),
             children |-> cs]

MergeCopiedLeaf(copy, cs, low, sib) ==
    LET renamed == ReplaceAt(cs, sib, copy.id)
    IN MergeLeaves(copy.st, renamed[low], renamed[low + 1], renamed, low)

\* mergeUnderfullLeaf: with the left sibling if there is one, else the right.
MergeUnderfullLeaf(st, cs, i) ==
    LET toLeft == i > 1 /\ IsLeaf(st, cs[i - 1])
        toRight == ~toLeft /\ i < Len(cs) /\ IsLeaf(st, cs[i + 1])
        sib == IF toLeft THEN i - 1 ELSE i + 1
    IN IF \/ Len(cs) <= 1 \/ i > Len(cs) \/ ~(toLeft \/ toRight)
          \/ ~(IsLeaf(st, cs[i]) /\ NeedsRepair(st, cs[i]))
       THEN [st |-> st, children |-> cs]
       ELSE MergeCopiedLeaf(CopyPage(st, cs[sib]), cs, Smaller(i, sib), sib)

BranchChildSplitIndex_Full(n) == Smaller(MaxKeys + 1, n - 1)  \* slip: fills the left page

\* branchChildSplitIndex: how many children stay on the left.
BranchChildSplitIndex(n) ==
    LET lo == Larger(Degree, n - (MaxKeys + 1))
        hi == Smaller(MaxKeys + 1, n - Degree)
    IN IF n < 2 THEN n
       ELSE IF lo > hi THEN n \div 2
       ELSE FirstBest(lo..hi, LAMBDA i : Abs((i - 1) - (n - i - 1)))

MergeBranches(copy, cs, low, sib, merged, fits) ==
    LET renamed == ReplaceAt(cs, sib, copy.id)
        mid == BranchChildSplitIndex(Len(merged))
    IN IF fits
       THEN [st |-> RetirePage(WriteBranchChildren(copy.st, renamed[low], merged),
                               renamed[low + 1]),
             children |-> RemoveAt(renamed, low + 1)]
       ELSE [st |-> WritePair(copy.st, renamed[low], SubSeq(merged, 1, mid),
                              renamed[low + 1], SubSeq(merged, mid + 1, Len(merged))),
             children |-> renamed]

\* mergeUnderfullBranch: a right sibling that is merged away is retired
\* without being copied first.
MergeUnderfullBranch(st, cs, i) ==
    LET toLeft == i > 1 /\ IsBranch(st, cs[i - 1])
        toRight == ~toLeft /\ i < Len(cs) /\ IsBranch(st, cs[i + 1])
        sib == IF toLeft THEN i - 1 ELSE i + 1
        low == Smaller(i, sib)
        merged == st.pages[cs[low]].children \o st.pages[cs[low + 1]].children
        fits == Len(merged) <= MaxKeys + 1 /\ Len(merged) - 1 <= PageUnits
    IN IF \/ Len(cs) <= 1 \/ i > Len(cs) \/ ~(toLeft \/ toRight)
          \/ ~(IsBranch(st, cs[i]) /\ NeedsRepair(st, cs[i]))
       THEN [st |-> st, children |-> cs]
       ELSE MergeBranches(IF toRight /\ fits THEN [id |-> cs[sib], st |-> st]
                          ELSE CopyPage(st, cs[sib]),
                          cs, low, sib, merged, fits)

RECURSIVE SubtreeEmpty(_, _)
SubtreeEmpty(st, id) ==
    IF IsLeaf(st, id) THEN st.pages[id].entries = <<>>
    ELSE \A i \in 1..Len(st.pages[id].children) :
            SubtreeEmpty(st, st.pages[id].children[i])

RECURSIVE DeleteFrom(_, _, _)
DeleteFromLeaf(st, id, k) ==
    LET es == st.pages[id].entries
        i == SlotIndex(KeysOf(es), k)
    IN WriteLeafEntries(RetireOverflowValue(st, es[i]), id, RemoveAt(es, i))

\* Unless the borrow did, child i is copied.
CopyChild(b, i) ==
    IF b.copied THEN b
    ELSE LET copy == CopyPage(b.st, b.children[i])
         IN [st |-> copy.st, children |-> ReplaceAt(b.children, i, copy.id), copied |-> TRUE]

WriteRepaired(r, id) == WriteBranchChildren(r.st, id, r.children)
RepairBranch(r, i) == MergeUnderfullBranch(r.st, r.children, i)

\* After the deletion below child i: drop the child if it is empty, else merge.
RepairChild(st, id, cs, i) ==
    IF SubtreeEmpty(st, cs[i])
    THEN WriteBranchChildren(RetirePage(st, cs[i]), id, RemoveAt(cs, i))
    ELSE WriteRepaired(RepairBranch(MergeUnderfullLeaf(st, cs, i), i), id)

DeleteBelow(b, id, i, k) ==
    RepairChild(DeleteFrom(b.st, b.children[i], k), id, b.children, i)
DeleteFromBranch(st, id, k) ==
    LET p == st.pages[id]
        i == ChildIndex(p.keys, k)
    IN DeleteBelow(CopyChild(BorrowBranchChild(st, p.children, i), i), id, i, k)
DeleteFrom(st, id, k) ==
    IF IsLeaf(st, id) THEN DeleteFromLeaf(st, id, k) ELSE DeleteFromBranch(st, id, k)

\* collapseRoot
RECURSIVE CollapseRoot(_, _)
CollapseRoot(st, id) ==
    IF IsLeaf(st, id)
    THEN IF st.pages[id].entries = <<>> THEN [RetirePage(st, id) EXCEPT !.root = 0]
                                        ELSE [st EXCEPT !.root = id]
    ELSE IF Len(st.pages[id].children) = 1
    THEN CollapseRoot(RetirePage(st, id), st.pages[id].children[1])
    ELSE [st EXCEPT !.root = id]

DeleteBelowRoot(copy, k) ==
    CollapseRoot(DeleteFrom(copy.st, copy.id, k), copy.id)

DeleteStaged(st, k) ==
    IF SearchPage(st.pages, st.root, k) = Missing
    THEN st
    ELSE [DeleteBelowRoot(CopyPage(st, st.root), k) EXCEPT !.length = @ - 1]

----------------------------------------------------------------------------
(* One operation, staged but not published *)

Op == [key : Key, val : Val \union {Missing}]

Stage(st, op) == IF op.val = Missing THEN DeleteStaged(st, op.key)
                                     ELSE PutStaged(st, op.key, op.val)

\* Whether the staged operation reports changed.
StageChanges(st, op) ==
    op.val # Missing \/ SearchPage(st.pages, st.root, op.key) # Missing

----------------------------------------------------------------------------
(* Publication *)

\* reclaimRetiredPages, given the revisions the snapshots pin.
ReclaimRetiredPages_Strict(st, readers) ==  \* slip: a reader of the same revision is ignored
    LET Stays(r) == \E v \in readers : v < r.revision
        gone == SelectSeq(st.retired, LAMBDA r : ~Stays(r))
    IN [st EXCEPT !.retired = SelectSeq(@, Stays),
                  !.free = @ \o [i \in 1..Len(gone) |-> gone[i].id]]
ReclaimRetiredPages(st, readers) ==
    LET Stays(r) == \E v \in readers : v <= r.revision
        gone == SelectSeq(st.retired, LAMBDA r : ~Stays(r))
    IN [st EXCEPT !.retired = SelectSeq(@, Stays),
                  !.free = @ \o [i \in 1..Len(gone) |-> gone[i].id]]

\* relinkLeaves: sibling links are rewritten in place, but only when no
\* snapshot is open.
RelinkLeaves(st, readers) ==
    LET ls == Leaves(st.pages, st.root)
        linked == [i \in 1..Len(ls) |->
                      [st.pages[ls[i]] EXCEPT !.next =
                          IF i < Len(ls) THEN ls[i + 1] ELSE 0]]
    IN IF readers # {} THEN st
       ELSE [st EXCEPT !.pages = [id \in DOMAIN @ |->
                IF \E i \in 1..Len(ls) : ls[i] = id
                THEN linked[CHOOSE i \in 1..Len(ls) : ls[i] = id] ELSE @[id]]]

PublishStagedMutation(st, readers) ==
    RelinkLeaves(ReclaimRetiredPages([st EXCEPT !.revision = @ + 1], readers), readers)
=============================================================================
