------------------------------ MODULE Integrity ------------------------------
(***************************************************************************)
(* What Tree.Check verifies of an open tree, and what OpenMmap verifies of *)
(* a root that it finds in a file: integrity.go.  A store may hold any     *)
(* pages here, also pages that another root has overwritten since.         *)
(***************************************************************************)
EXTENDS BPlusTree

\* The page ids that a page names as its children or as its overflow chain.
Below(p) == CASE p.kind = "leaf" -> [i \in 1..Len(p.entries) |-> p.entries[i].overflow]
              [] p.kind = "branch" -> p.children
              [] p.kind = "overflow" -> <<p.next>>
              [] OTHER -> <<>>

\* The page ids that a walk from ids meets, overflow chains included.
RECURSIVE Closure(_, _)
Closure(pages, ids) ==
    LET held == ids \intersect DOMAIN pages
        met == ids \union (UNION {ToSet(Below(pages[id])) : id \in held} \ {0})
    IN IF met = ids THEN ids ELSE Closure(pages, met)

Reachable(pages, root) == Closure(pages, {root} \ {0})

\* The seen map: every page that is reached exists, and is named once.
ReachedOnce(st) ==
    LET reached == Reachable(st.pages, st.root)
    IN /\ reached \subseteq DOMAIN st.pages
       /\ \A p, q \in reached :
             LET a == Below(st.pages[p])
                 b == Below(st.pages[q])
             IN \A i \in 1..Len(a), j \in 1..Len(b) :
                   a[i] = b[j] /\ a[i] # 0 => p = q /\ i = j
       /\ \A p \in reached : st.root \notin ToSet(Below(st.pages[p]))

\* validatePageBounds of page id, whose keys lie in [lower, upper).  A page
\* that fails its checksum is neither a leaf nor a branch here.
RECURSIVE ValidPage(_, _, _, _)
ValidPage(st, id, lower, upper) ==
    LET p == st.pages[id]
        n == KeyCount(st, id)
        Lower(i) == IF i > 1 THEN p.keys[i - 1] ELSE lower
        Upper(i) == IF i <= n THEN p.keys[i] ELSE upper
    IN /\ IsLeaf(st, id) \/ IsBranch(st, id)
       /\ id # st.root => n >= MinKeys
       /\ UnitsUsed(st, id) <= PageUnits
       /\ IF IsLeaf(st, id)
          THEN /\ \A i \in 1..n : lower <= p.entries[i].key /\ p.entries[i].key < upper
               /\ \A i \in 1..(n - 1) : p.entries[i].key < p.entries[i + 1].key
               /\ \A i \in 1..n : ResolveLeafValue(st.pages, p.entries[i]) # Corrupt
          ELSE \A i \in 1..(n + 1) :
                  /\ Lower(i) < Upper(i)
                  /\ ValidPage(st, p.children[i], Lower(i), Upper(i))
                  /\ i > 1 => p.keys[i - 1] = FirstKey(st, p.children[i])

NoDuplicates(seq) == \A i, j \in 1..Len(seq) : seq[i] = seq[j] => i = j

\* validateReachablePages
ValidReachable(st) ==
    st.root # 0 =>
        /\ ReachedOnce(st)
        /\ ValidPage(st, st.root, 0, Cardinality(Key) + 1)

\* validateLeafLinks
ValidLeafLinks(st) ==
    LET ls == Leaves(st.pages, st.root)
    IN \A i \in 1..Len(ls) :
          st.pages[ls[i]].next = IF i < Len(ls) THEN ls[i + 1] ELSE 0

\* countReachableKeys
ValidLength(st) == st.length = Len(RangePage(st.pages, st.root))

\* validateReusablePages, without its rule on revision 0.
ValidReusable(st) ==
    LET ids == st.free \o [i \in 1..Len(st.retired) |-> st.retired[i].id]
    IN /\ NoDuplicates(ids)
       /\ ToSet(ids) \subseteq 1..(st.nextPage - 1)
       /\ ToSet(ids) \intersect Reachable(st.pages, st.root) = {}

RetiredRevisionsNonzero(st) ==
    \A i \in 1..Len(st.retired) : st.retired[i].revision # 0
=============================================================================
