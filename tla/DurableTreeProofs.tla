--------------------------- MODULE DurableTreeProofs ---------------------------
(***************************************************************************)
(* What Sync and recovery promise of DurableTree, proved for every kind of *)
(* page, every number of pages, snapshots, Syncs and crashes.              *)
(***************************************************************************)
EXTENDS DurableTree, FiniteSetTheorems, TLAPS

----------------------------------------------------------------------------
(* Pages and trees *)

LEMMA PageBounds ==
    /\ FirstPage = 2 /\ MaxPage \in Nat /\ MaxRevision \in Nat
    /\ Page \subseteq Nat \ {0, 1}
    /\ 0 \in Revision /\ Revision \subseteq Nat
    /\ Slot = {0, 1}
BY BoundsAreNat DEF FirstPage, Page, Revision, Slot

LEMMA KindsOfBytes ==
    ASSUME NEW b \in Bytes
    PROVE  /\ BelowPage(b) \subseteq Page
           /\ b.kind = "tree" => b \in TreePage
           /\ b.kind = "chain" => b.records \in SUBSET ReclaimRecord
BY BelowArePages DEF Bytes, BelowPage, TreePage, ChainPage, Torn, Blank

LEMMA ReachIsPages ==
    ASSUME NEW P, NEW root
    PROVE  Reach(P, root) \subseteq Page
BY DEF Reach, Nameable

LEMMA ReachIsClosed ==
    ASSUME NEW P \in [Page -> Bytes], NEW root \in {0} \union Page
    PROVE  ClosedUnder(P, root, Reach(P, root))
<1>1. root # 0 => root \in Reach(P, root)
  BY DEF Reach, ClosedUnder, Nameable
<1>2. ASSUME NEW p \in Reach(P, root)
      PROVE  BelowPage(P[p]) \subseteq Reach(P, root)
  <2>1. p \in Page
    BY <1>2, ReachIsPages
  <2>2. BelowPage(P[p]) \subseteq Page
    BY <2>1, KindsOfBytes
  <2>3. BelowPage(P[p]) \subseteq Nameable(P, root)
    BY <2>1, <2>2 DEF Nameable
  <2> QED
    BY <1>2, <2>3 DEF Reach, ClosedUnder
<1> QED
  BY <1>1, <1>2 DEF ClosedUnder

LEMMA ReachIsLeast ==
    ASSUME NEW P, NEW root, NEW S \in SUBSET Page, ClosedUnder(P, root, S)
    PROVE  Reach(P, root) \subseteq S
<1> DEFINE T == S \intersect Nameable(P, root)
<1>1. ASSUME NEW p \in T
      PROVE  BelowPage(P[p]) \subseteq T
  <2>1. BelowPage(P[p]) \subseteq S
    BY DEF ClosedUnder
  <2>2. BelowPage(P[p]) \subseteq Nameable(P, root)
    BY <2>1 DEF Nameable
  <2> QED
    BY <2>1, <2>2
<1>2. root # 0 => root \in T
  BY DEF ClosedUnder, Nameable
<1>3. ClosedUnder(P, root, T)
  BY <1>1, <1>2 DEF ClosedUnder
<1> QED
  BY <1>3 DEF Reach

\* What is reached depends on what the reached pages name, and on no other page.
LEMMA ReachIsLocal ==
    ASSUME NEW P \in [Page -> Bytes], NEW Q \in [Page -> Bytes],
           NEW root \in {0} \union Page,
           \A p \in Reach(P, root) : BelowPage(Q[p]) = BelowPage(P[p])
    PROVE  Reach(Q, root) = Reach(P, root)
<1>1. ClosedUnder(Q, root, Reach(P, root))
  BY ReachIsClosed DEF ClosedUnder
<1>2. Reach(Q, root) \subseteq Reach(P, root)
  BY <1>1, ReachIsLeast, ReachIsPages
<1>3. ClosedUnder(P, root, Reach(Q, root))
  <2>1. ClosedUnder(Q, root, Reach(Q, root))
    BY ReachIsClosed
  <2> QED
    BY <1>2, <2>1 DEF ClosedUnder
<1>4. Reach(P, root) \subseteq Reach(Q, root)
  BY <1>3, ReachIsLeast, ReachIsPages
<1> QED
  BY <1>2, <1>4

LEMMA ImageIsLocal ==
    ASSUME NEW P \in [Page -> Bytes], NEW Q \in [Page -> Bytes],
           NEW root \in {0} \union Page,
           \A p \in Reach(P, root) : Q[p] = P[p]
    PROVE  Reach(Q, root) = Reach(P, root) /\ Image(Q, root) = Image(P, root)
<1>1. Reach(Q, root) = Reach(P, root)
  BY ReachIsLocal
<1> QED
  BY <1>1 DEF Image

\* Equal images are images of equal pages.
LEMMA ImageShowsPages ==
    ASSUME NEW P, NEW Q, NEW root, Image(Q, root) = Image(P, root)
    PROVE  /\ Reach(Q, root) = Reach(P, root)
           /\ \A p \in Reach(P, root) : Q[p] = P[p]
<1>1. DOMAIN Image(Q, root) = Reach(Q, root) /\ DOMAIN Image(P, root) = Reach(P, root)
  BY DEF Image
<1>2. \A p \in Reach(P, root) : Image(P, root)[p] = P[p]
  BY DEF Image
<1>3. \A p \in Reach(Q, root) : Image(Q, root)[p] = Q[p]
  BY DEF Image
<1> QED
  BY <1>1, <1>2, <1>3

\* A record is as sound as the pages it names.
LEMMA RecordIsLocal ==
    ASSUME NEW P \in [Page -> Bytes], NEW Q \in [Page -> Bytes],
           NEW m \in MetaRecords,
           \A p \in Reach(P, m.root) \union m.chain : Q[p] = P[p],
           NEW L, NEW M, L \subseteq M, SoundRecord(P, L, m)
    PROVE  /\ SoundRecord(Q, M, m)
           /\ RecordedStore(Q, m) = RecordedStore(P, m)
           /\ Reach(Q, m.root) = Reach(P, m.root)
           /\ Image(Q, m.root) = Image(P, m.root)
<1>1. m.root \in {0} \union Page
  BY DEF MetaRecords
<1>2. Reach(Q, m.root) = Reach(P, m.root) /\ Image(Q, m.root) = Image(P, m.root)
  BY <1>1, ImageIsLocal
<1>3. ChainRecords(Q, m) = ChainRecords(P, m)
  BY DEF ChainRecords
<1>4. RecordedStore(Q, m) = RecordedStore(P, m)
  BY <1>3 DEF RecordedStore
<1>5. ResolvedChain(Q, m)
  BY <1>3 DEF ResolvedChain, SoundRecord
<1>6. \A p \in Reach(P, m.root) : Q[p].kind = "tree"
  BY DEF SoundRecord
<1> QED
  BY <1>2, <1>4, <1>5, <1>6 DEF SoundRecord

----------------------------------------------------------------------------
(* Records *)

LEMMA RecordsAreFinite ==
    /\ IsFiniteSet(Page)
    /\ IsFiniteSet(ReclaimRecord)
<1>1. IsFiniteSet(Page) /\ IsFiniteSet(Revision)
  BY PageBounds, FS_Interval DEF Page, Revision
<1>2. IsFiniteSet(Page \X Revision)
  BY <1>1, FS_Product
<1> DEFINE f == [x \in Page \X Revision |-> [id |-> x[1], revision |-> x[2]]]
<1>3. f \in Surjection(Page \X Revision, ReclaimRecord)
  <2>1. f \in [Page \X Revision -> ReclaimRecord]
    BY DEF ReclaimRecord
  <2>2. ASSUME NEW r \in ReclaimRecord
        PROVE  \E x \in Page \X Revision : f[x] = r
    <3>1. <<r.id, r.revision>> \in Page \X Revision
      BY DEF ReclaimRecord
    <3>2. f[<<r.id, r.revision>>] = r
      BY <3>1 DEF ReclaimRecord
    <3> QED
      BY <3>1, <3>2
  <2> QED
    BY <2>1, <2>2 DEF Surjection
<1> QED
  BY <1>1, <1>2, <1>3, FS_Surjection

LEMMA RecordsAreCounted ==
    ASSUME NEW st \in Stores
    PROVE  /\ MetadataRecords(st) \in SUBSET ReclaimRecord
           /\ Cardinality(MetadataRecords(st)) \in Nat
<1>1. [id : st.free, revision : {0}] \subseteq ReclaimRecord
  BY PageBounds DEF Stores, ReclaimRecord
<1>2. MetadataRecords(st) \subseteq ReclaimRecord
  BY <1>1 DEF MetadataRecords, Stores
<1> QED
  BY <1>2, RecordsAreFinite, FS_Subset, FS_CardinalityType

LEMMA RecordIsTyped ==
    ASSUME NEW st \in Stores
    PROVE  /\ MetaRecord(st) \in MetaRecords
           /\ MetaRecord(st).kind = "meta"
           /\ MetaRecord(st).revision = st.revision
           /\ MetaRecord(st).root = st.root
           /\ MetaRecord(st).length = st.length
           /\ MetaRecord(st).nextPage = st.nextPage
           /\ MetaRecord(st).chain = st.chain
           /\ MetaRecord(st).free = IF st.chain = {} THEN st.free ELSE {}
           /\ MetaRecord(st).count = Cardinality(MetadataRecords(st))
BY RecordsAreCounted DEF MetaRecord, MetaRecords, Stores

LEMMA RetiredIdsOf ==
    ASSUME NEW R \in SUBSET ReclaimRecord
    PROVE  /\ RetiredIds(R) \in SUBSET Page
           /\ \A r \in R : r.id \in RetiredIds(R) /\ r.revision \in Revision
           /\ \A x \in RetiredIds(R) : \E r \in R : r.id = x
BY DEF RetiredIds, ReclaimRecord

\* What reclaiming changes.
LEMMA ReclaimedStore ==
    ASSUME NEW st \in Stores, NEW readers, NEW new, new = Reclaimed(st, readers)
    PROVE  /\ new \in Stores
           /\ new.root = st.root /\ new.length = st.length
           /\ new.revision = st.revision /\ new.nextPage = st.nextPage
           /\ new.chain = st.chain
           /\ new.retired \subseteq st.retired
           /\ \A r \in st.retired : Pinned(readers, r.revision) => r \in new.retired
           /\ st.free \subseteq new.free
           /\ new.free \subseteq st.free \union RetiredIds(st.retired)
           /\ readers = {} => new.retired = {}
           /\ \A x \in new.free : x \in st.free
                  \/ \E r \in st.retired : r.id = x /\ r \notin new.retired
           /\ RetiredIds(st.retired) \subseteq new.free \union RetiredIds(new.retired)
<1> DEFINE gone == {r \in st.retired : ~Pinned(readers, r.revision)}
<1>1. gone \in SUBSET ReclaimRecord /\ st.retired \in SUBSET ReclaimRecord
  BY DEF Stores
<1>2. new = [st EXCEPT !.retired = st.retired \ gone, !.free = st.free \union RetiredIds(gone)]
  BY DEF Reclaimed
<1>3. /\ new.root = st.root /\ new.length = st.length
      /\ new.revision = st.revision /\ new.nextPage = st.nextPage
      /\ new.chain = st.chain /\ new.retired = st.retired \ gone
      /\ new.free = st.free \union RetiredIds(gone)
  BY <1>2 DEF Stores
<1>4. new \in Stores
  BY <1>1, <1>2, RetiredIdsOf DEF Stores
<1>5. readers = {} => gone = st.retired
  BY DEF Pinned
<1>6. RetiredIds(gone) \subseteq RetiredIds(st.retired)
  BY DEF RetiredIds
<1>7. \A x \in RetiredIds(gone) : \E r \in gone : r.id = x
  BY DEF RetiredIds
<1>8. RetiredIds(st.retired) \subseteq RetiredIds(gone) \union RetiredIds(st.retired \ gone)
  BY DEF RetiredIds
<1> QED
  BY <1>1, <1>3, <1>4, <1>5, <1>6, <1>7, <1>8

LEMMA ReclaimedSafely ==
    ASSUME NEW st \in Stores, NEW readers, NEW reached, ReusableSafely(st, reached)
    PROVE  ReusableSafely(Reclaimed(st, readers), reached)
<1> DEFINE new == Reclaimed(st, readers)
<1>1. /\ new \in Stores
      /\ new.revision = st.revision /\ new.nextPage = st.nextPage
      /\ new.chain = st.chain
      /\ new.retired \subseteq st.retired
      /\ new.free \subseteq st.free \union RetiredIds(st.retired)
      /\ \A x \in new.free : x \in st.free
             \/ \E r \in st.retired : r.id = x /\ r \notin new.retired
  BY ReclaimedStore
<1>2. st.retired \in SUBSET ReclaimRecord /\ new.retired \in SUBSET ReclaimRecord
  BY <1>1 DEF Stores
<1>3. RetiredIds(new.retired) \subseteq RetiredIds(st.retired)
  BY <1>1 DEF RetiredIds
<1>4. new.free \intersect RetiredIds(new.retired) = {}
  BY <1>1, <1>2, RetiredIdsOf DEF ReusableSafely
<1> QED
  BY <1>1, <1>3, <1>4 DEF ReusableSafely

\* What is below the root of st, and its chain, is fit to be published.
Publishable(P, st) ==
    LET reached == Reach(P, st.root)
    IN /\ \A p \in reached : P[p].kind = "tree"
       /\ reached \union st.chain \subseteq FirstPage..(st.nextPage - 1)
       /\ ValidTree(st.root, st.length, Image(P, st.root))
       /\ ReusableSafely(st, reached)
       /\ reached \intersect st.chain = {}
       /\ \A p \in st.chain : P[p].kind = "chain"
       /\ UNION {P[p].records : p \in st.chain} = MetadataRecords(st)
       /\ MetadataRecords(st) = {} => st.chain = {}

\* Recovery accepts what persistMeta writes, and reads back the same store.
LEMMA WrittenRecordIsSound ==
    ASSUME NEW P, NEW st \in Stores, Publishable(P, st)
    PROVE  /\ SoundRecord(P, FirstPage..(st.nextPage - 1), MetaRecord(st))
           /\ RecordedStore(P, MetaRecord(st)) = st
           /\ ChainRecords(P, MetaRecord(st)) = MetadataRecords(st)
<1> DEFINE m == MetaRecord(st)
           records == ChainRecords(P, m)
<1>1. /\ m.revision = st.revision /\ m.root = st.root /\ m.length = st.length
      /\ m.nextPage = st.nextPage /\ m.chain = st.chain
      /\ m.free = IF st.chain = {} THEN st.free ELSE {}
      /\ m.count = Cardinality(MetadataRecords(st))
  BY RecordIsTyped, Zenon
<1>2. records = MetadataRecords(st)
  <2>1. {q \in m.chain : P[q].kind = "chain"} = st.chain
    BY <1>1 DEF Publishable
  <2>2. records = UNION {P[p].records : p \in st.chain}
    BY <2>1 DEF ChainRecords
  <2> QED
    BY <2>2 DEF Publishable
<1>3. \A r \in st.retired : r \in ReclaimRecord /\ r.revision \in Revision /\ r.revision # 0
  BY PageBounds DEF Publishable, ReusableSafely, Stores, ReclaimRecord
<1>4. {r \in records : r.revision # 0} = st.retired
  <2> DEFINE free == [id : st.free, revision : {0}]
  <2>1. \A r \in free : r.revision = 0
    OBVIOUS
  <2>2. CASE st.retired # {}
    <3>1. records = free \union st.retired
      BY <1>2, <2>2 DEF MetadataRecords
    <3> HIDE DEF free, records
    <3> QED
      BY <1>3, <2>1, <3>1
  <2>3. CASE st.retired = {}
    <3>1. records \in {free, {}}
      BY <1>2, <2>3 DEF MetadataRecords
    <3> HIDE DEF free, records
    <3> QED
      BY <2>1, <2>3, <3>1
  <2> QED
    BY <2>2, <2>3
<1>5. st.chain # {} => {r.id : r \in {q \in records : q.revision = 0}} = st.free
  <2> SUFFICES ASSUME st.chain # {}
               PROVE  {r.id : r \in {q \in records : q.revision = 0}} = st.free
    OBVIOUS
  <2> DEFINE free == [id : st.free, revision : {0}]
             shown == {q \in records : q.revision = 0}
  <2>1. /\ \A x \in st.free : [id |-> x, revision |-> 0] \in free
        /\ \A r \in free : r.id \in st.free /\ r.revision = 0
    OBVIOUS
  <2>2. records # {}
    BY <1>2 DEF Publishable
  <2>3. records = free \union st.retired
    BY <1>2, <2>2 DEF MetadataRecords
  <2> HIDE DEF free, records
  <2>4. shown = free
    BY <1>3, <2>1, <2>3
  <2>5. \A x \in st.free : \E r \in shown : r.id = x
    <3>1. \A x \in st.free : [id |-> x, revision |-> 0] \in shown
      BY <2>1, <2>4
    <3> QED
      BY <3>1
  <2>6. \A r \in shown : r.id \in st.free
    BY <2>1, <2>4
  <2> HIDE DEF shown
  <2>7. {r.id : r \in shown} = st.free
    BY <2>5, <2>6
  <2> QED
    BY <2>7 DEF shown
<1>6. st.chain = {} => st.retired = {}
  <2>1. st.chain = {} => records = {}
    BY <1>2 DEF Publishable
  <2> QED
    BY <1>4, <2>1
<1>7. RecordedStore(P, m) = st
  <2>1. RecordedStore(P, m) =
          [root |-> st.root, length |-> st.length, revision |-> st.revision,
           nextPage |-> st.nextPage, chain |-> st.chain, free |-> st.free,
           retired |-> st.retired]
    BY <1>1, <1>4, <1>5 DEF RecordedStore
  <2> QED
    BY <2>1 DEF Stores
<1>8. ResolvedChain(P, m)
  <2>1. st.nextPage \in Int
    BY PageBounds DEF Stores
  <2>2. \A p \in m.chain : p < m.nextPage /\ P[p].kind = "chain"
    BY <1>1, <2>1, PageBounds DEF Publishable
  <2> HIDE DEF m
  <2> QED
    BY <1>1, <1>2, <2>2 DEF ResolvedChain
<1> HIDE DEF m
<1>9. SoundRecord(P, FirstPage..(st.nextPage - 1), m)
  BY <1>1, <1>7, <1>8 DEF SoundRecord, Publishable
<1> QED
  BY <1>2, <1>7, <1>9 DEF m

----------------------------------------------------------------------------
(* Steps that rewrite the tree *)

MayRelink(P, ids, next, readers) ==
    /\ P \in [Page -> Bytes] /\ ids \in SUBSET Page
    /\ \A p \in ids : P[p].kind = "tree"
    /\ readers = {} => next \in Relinks(ids, readers)

\* Q differs from P in links only.
OnlyRelinked(P, Q, ids, readers) ==
    /\ Q \in [Page -> Bytes]
    /\ \A p \in Page : Q[p] # P[p] => p \in ids /\ readers = {}
    /\ \A p \in Page : Q[p].kind = P[p].kind
    /\ \A r \in {0} \union Page : Reach(Q, r) = Reach(P, r)

\* Setting links leaves alone what is reached.
LEMMA RelinkedPages ==
    ASSUME NEW P, NEW ids, NEW next, NEW readers, MayRelink(P, ids, next, readers),
           NEW Q, Q = Relinked(P, ids, next, readers)
    PROVE  OnlyRelinked(P, Q, ids, readers)
<1>1. P \in [Page -> Bytes] /\ ids \in SUBSET Page
  BY DEF MayRelink
<1>2. ASSUME NEW p \in Page, p \in ids, readers = {}
      PROVE  /\ Q[p] = [P[p] EXCEPT !.next = next[p]]
             /\ P[p] \in TreePage
             /\ next[p] \in Link
  BY <1>1, <1>2, KindsOfBytes DEF Relinked, Relinks, MayRelink
<1>3. ASSUME NEW p \in Page, ~(p \in ids /\ readers = {})
      PROVE  Q[p] = P[p]
  BY <1>3 DEF Relinked
<1>4. ASSUME NEW p \in Page, p \in ids, readers = {}
      PROVE  Q[p] \in TreePage /\ Q[p].kind = P[p].kind /\ BelowPage(Q[p]) = BelowPage(P[p])
  BY <1>2, <1>4 DEF TreePage, BelowPage
<1>5. Q \in [Page -> Bytes]
  <2>1. \A p \in Page : Q[p] \in Bytes
    BY <1>1, <1>3, <1>4 DEF Bytes
  <2>2. Q = [p \in Page |-> Q[p]]
    BY DEF Relinked
  <2> QED
    BY <2>1, <2>2
<1>6. \A p \in Page : Q[p].kind = P[p].kind /\ BelowPage(Q[p]) = BelowPage(P[p])
  BY <1>3, <1>4
<1>7. \A r \in {0} \union Page : Reach(Q, r) = Reach(P, r)
  BY <1>1, <1>5, <1>6, ReachIsLocal, ReachIsPages
<1> QED
  BY <1>3, <1>5, <1>6, <1>7 DEF OnlyRelinked

\* An id that the handle has a use for, and one that a step leaves without.
Accounted(p) == p \in Tree \union store.free \union RetiredIds(store.retired)
Passed(p) == ~Accounted(p) /\ p < store.nextPage

\* What a mutation and the close of a snapshot have in common.
Rewrites ==
    /\ Idle
    /\ UNCHANGED <<status, meta, sync, disk, crash>>
    /\ TypeOK' /\ HandleSound'
    /\ Readers' \subseteq Readers
    /\ store'.revision >= store.revision
    /\ store'.nextPage >= store.nextPage
    /\ store'.chain = store.chain
    /\ \A p \in Page : pages'[p] # pages[p] => pages'[p].kind = "tree"
    /\ \A p \in Page : Readers' # {} /\ p < store.nextPage /\ p \notin store.free
          => pages'[p] = pages[p]
    /\ \A r \in store'.retired : pages'[r.id].kind # "chain"
    /\ \A x \in store'.free : x \in store.free \/ pages'[x].kind # "chain"
    /\ \A p \in FirstPage..(store'.nextPage - 1) : Accounted(p)' \/ Passed(p)
    /\ \A p \in Page : p < store.nextPage /\ p \notin Tree \union store.free
          => pages'[p] = pages[p]
    /\ \A p \in Tree' : p \notin dirty' =>
          p \in Tree /\ p \notin dirty /\ pages'[p] = pages[p]
    /\ \A v \in Readers' : v <= store.revision =>
          Tree \union RetiredIds({r \in store.retired : r.revision >= v})
             \subseteq Tree' \union RetiredIds({r \in store'.retired : r.revision >= v})
    /\ durable' = [durable EXCEPT !.quiet = durable'.quiet]
    /\ durable'.quiet =>
          /\ durable.quiet /\ pages' = pages
          /\ store'.root = store.root /\ store'.length = store.length
          /\ store'.revision = store.revision
    /\ store'.revision = store.revision
       /\ durable.quiet /\ Linked(store.root, Image(pages, store.root))
          => durable'.quiet

\* Sets of numbers between two bounds.
LEMMA PageNumbers ==
    /\ \A n \in FirstPage..(MaxPage + 1) : n \in Int /\ FirstPage..(n - 1) \subseteq Page
    /\ \A p \in Page : p \in Int /\ p >= FirstPage /\ p <= MaxPage
    /\ \A v \in Revision : v \in Int /\ v >= 0
    /\ \A r \in ReclaimRecord : r.id \in Page /\ r.revision \in Int
BY PageBounds DEF Page, FirstPage, Revision, ReclaimRecord

\* A mutation below a new root.
LEMMA MutateRewrites ==
    ASSUME TypeOK, HandleSound, ChainsRetireTrees, MutateTree
    PROVE  Rewrites
<1>1. PICK F \in SUBSET store.free, n \in (store.nextPage - 1)..MaxPage :
         \E new \in [Allocated(F, n) -> TreePage], root \in {0} \union Allocated(F, n) :
            \E length \in Length, next \in Relinks(Reach(Written(F, n, new), root), Readers) :
               Mutate(F, n, new, root, length, next)
  BY DEF MutateTree
<1>2. PICK new \in [Allocated(F, n) -> TreePage], root \in {0} \union Allocated(F, n) :
         \E length \in Length, next \in Relinks(Reach(Written(F, n, new), root), Readers) :
            Mutate(F, n, new, root, length, next)
  BY <1>1
<1>3. PICK length \in Length, next \in Relinks(Reach(Written(F, n, new), root), Readers) :
         Mutate(F, n, new, root, length, next)
  BY <1>2
<1> DEFINE A == Allocated(F, n)
           written == Written(F, n, new)
           reached == Reach(written, root)
           dropped == (Tree \union A) \ reached
           more == [id : dropped, revision : {store.revision}]
           staged == [root |-> root, length |-> length, revision |-> store.revision + 1,
                      nextPage |-> n + 1, free |-> store.free \ F, chain |-> store.chain,
                      retired |-> store.retired \union more]
<1>4. /\ Idle /\ status = "open" /\ store.revision < MaxRevision
      /\ reached \subseteq Tree \union A
      /\ store.revision = 0 => dropped = {}
      /\ root \in {0} \union A /\ next \in Relinks(reached, Readers)
      /\ pages' = Relinked(written, reached, next, Readers)
      /\ ValidTree(root, length, Image(pages', root))
      /\ store' = Reclaimed(staged, Readers)
      /\ dirty' = DirtyAfter(F, n)
      /\ durable' = [durable EXCEPT !.quiet = FALSE]
      /\ UNCHANGED <<status, meta, snaps, sync, disk, crash, count>>
  BY <1>3, Zenon DEF Mutate, Idle
<1>5. /\ store \in Stores /\ pages \in [Page -> Bytes]
      /\ store.nextPage \in FirstPage..(MaxPage + 1)
      /\ store.free \in SUBSET Page /\ store.retired \in SUBSET ReclaimRecord
      /\ store.revision \in Revision /\ store.root \in {0} \union Page
      /\ store.chain \in SUBSET Page
      /\ store.revision \in Int /\ store.nextPage \in Int
      /\ \A r \in store.retired : r.id \in Page /\ r.revision \in Int
  BY PageNumbers DEF TypeOK, Stores
<1>6. /\ Tree \subseteq Page /\ \A p \in Tree : pages[p].kind = "tree"
      /\ Tree \union store.chain \subseteq FirstPage..(store.nextPage - 1)
      /\ ReusableSafely(store, Tree)
      /\ Tree \intersect store.chain = {}
  BY <1>4, ReachIsPages DEF HandleSound, Tree
<1>7. /\ A \subseteq FirstPage..n /\ A \subseteq Page
      /\ n + 1 \in FirstPage..(MaxPage + 1)
      /\ A \intersect (Tree \union RetiredIds(store.retired) \union store.chain) = {}
      /\ \A p \in A : p \in store.free \/ p >= store.nextPage
      /\ \A x \in store.free \ F : x \notin A
  <2>1. /\ A = F \union (store.nextPage..n)
        /\ F \subseteq store.free
        /\ store.free \union RetiredIds(store.retired) \subseteq FirstPage..(store.nextPage - 1)
    BY <1>6 DEF Allocated, ReusableSafely
  <2>2. F \intersect (Tree \union RetiredIds(store.retired) \union store.chain) = {}
    BY <1>6, <2>1 DEF ReusableSafely
  <2> HIDE DEF A
  <2>3. n \in Int /\ n >= store.nextPage - 1 /\ n <= MaxPage /\ store.nextPage \in Int
        /\ store.nextPage >= FirstPage /\ FirstPage = 2 /\ MaxPage \in Nat
    BY <1>5, PageBounds
  <2> QED
    BY <1>6, <2>1, <2>2, <2>3 DEF Page
<1>8. /\ written \in [Page -> Bytes]
      /\ \A p \in Page \ A : written[p] = pages[p]
      /\ \A p \in A : written[p] \in TreePage
  BY <1>5, <1>7 DEF Written, Bytes
<1>9. /\ reached \subseteq Page
      /\ \A p \in Tree \union A : written[p].kind = "tree"
  <2>1. \A p \in A : written[p].kind = "tree"
    BY <1>8 DEF TreePage
  <2>2. \A p \in Tree : written[p].kind = "tree"
    BY <1>6, <1>7, <1>8
  <2> QED
    BY <2>1, <2>2, ReachIsPages
<1>10. /\ pages' \in [Page -> Bytes]
       /\ \A p \in Page : pages'[p].kind = written[p].kind
       /\ \A p \in Page : pages'[p] # written[p] =>
             p \in reached /\ Readers = {} /\ pages'[p].kind = "tree"
       /\ Reach(pages', root) = reached
  <2>1. root \in {0} \union Page
    BY <1>7
  <2>2. \A p \in reached : written[p].kind = "tree"
    BY <1>4, <1>9
  <2> HIDE DEF A, written, reached
  <2>3. MayRelink(written, reached, next, Readers)
    BY <1>4, <1>8, <1>9, <2>2 DEF MayRelink
  <2>4. OnlyRelinked(written, pages', reached, Readers)
    BY <1>4, <2>3, RelinkedPages
  <2>5. Reach(written, root) = reached
    BY DEF reached
  <2> QED
    BY <2>1, <2>2, <2>4, <2>5 DEF OnlyRelinked
<1> HIDE DEF A, written, reached
<1>11. more \in SUBSET ReclaimRecord
  BY <1>5, <1>6, <1>7 DEF ReclaimRecord
<1>12. root \in {0} \union Page /\ store.revision + 1 \in Revision
  BY <1>4, <1>5, <1>7, PageBounds DEF Revision
<1>13. staged \in Stores
  <2> HIDE DEF more
  <2> QED
    BY <1>3, <1>5, <1>7, <1>11, <1>12 DEF Stores
<1>14. /\ \A r \in more : r.id \in dropped /\ r.revision = store.revision
       /\ \A x \in dropped : [id |-> x, revision |-> store.revision] \in more
       /\ \A q, r \in more : q.id = r.id => q = r
       /\ dropped \subseteq Tree \union A /\ dropped \intersect reached = {}
  OBVIOUS
<1> HIDE DEF more, dropped
<1>15. RetiredIds(store.retired \union more) = RetiredIds(store.retired) \union dropped
  <2>1. RetiredIds(more) = dropped
    <3>1. \A x \in dropped : \E r \in more : r.id = x
      BY <1>14
    <3> QED
      BY <1>14, <3>1 DEF RetiredIds
  <2> QED
    BY <2>1 DEF RetiredIds
<1>16. /\ staged.root = root /\ staged.length = length
       /\ staged.revision = store.revision + 1
       /\ staged.nextPage = n + 1 /\ staged.chain = store.chain
       /\ staged.free = store.free \ F
       /\ staged.retired = store.retired \union more
  OBVIOUS
<1> HIDE DEF staged
<1>17. ReusableSafely(staged, reached)
  <2>1. staged.free \union RetiredIds(staged.retired) \subseteq FirstPage..(staged.nextPage - 1)
    <3>1. store.free \union RetiredIds(store.retired) \union Tree
             \subseteq FirstPage..(store.nextPage - 1)
      BY <1>6 DEF ReusableSafely
    <3>2. FirstPage..(store.nextPage - 1) \subseteq FirstPage..n
      BY <1>5, PageBounds
    <3>3. FirstPage..(staged.nextPage - 1) = FirstPage..n
      BY <1>16, <1>5
    <3>4. RetiredIds(staged.retired) \subseteq RetiredIds(store.retired) \union Tree \union A
      BY <1>14, <1>15, <1>16
    <3>5. staged.free \subseteq store.free
      BY <1>16
    <3> QED
      BY <1>7, <3>1, <3>2, <3>3, <3>4, <3>5
  <2>2. dropped \intersect (RetiredIds(store.retired) \union store.chain \union (store.free \ F)) = {}
    BY <1>6, <1>7, <1>14 DEF ReusableSafely
  <2>3. staged.free \intersect RetiredIds(staged.retired) = {}
    BY <1>6, <1>15, <1>16, <2>2 DEF ReusableSafely
  <2>4. \A q, r \in staged.retired : q.id = r.id => q = r
    <3>1. \A q \in store.retired, r \in more : q.id # r.id
      <4>1. \A q \in store.retired : q.id \in RetiredIds(store.retired)
        BY DEF RetiredIds
      <4> QED
        BY <1>14, <2>2, <4>1
    <3>2. \A q, r \in more : q.id = r.id => q = r
      BY <1>14
    <3> QED
      BY <1>6, <1>16, <3>1, <3>2 DEF ReusableSafely
  <2>5. (staged.free \union RetiredIds(staged.retired)) \intersect (reached \union staged.chain) = {}
    <3>1. reached \intersect (RetiredIds(store.retired) \union (store.free \ F)) = {}
      BY <1>4, <1>6, <1>7 DEF ReusableSafely
    <3> QED
      BY <1>6, <1>14, <1>15, <1>16, <2>2, <3>1 DEF ReusableSafely
  <2>6. \A r \in staged.retired : r.revision \in 1..staged.revision
    <3>1. \A r \in more : r.revision \in 1..(store.revision + 1)
      BY <1>4, <1>5, <1>14, PageBounds
    <3>2. \A r \in store.retired : r.revision \in 1..(store.revision + 1)
      BY <1>5, <1>6, PageBounds DEF ReusableSafely
    <3> QED
      BY <1>16, <3>1, <3>2
  <2> QED
    BY <2>1, <2>3, <2>4, <2>5, <2>6 DEF ReusableSafely
<1>18. /\ store' \in Stores
       /\ store'.root = root /\ store'.length = length
       /\ store'.revision = store.revision + 1
       /\ store'.nextPage = n + 1 /\ store'.chain = store.chain
       /\ store'.retired \subseteq store.retired \union more
       /\ \A r \in store.retired \union more : Pinned(Readers, r.revision) => r \in store'.retired
       /\ \A x \in store'.free : x \in store.free \ F
              \/ \E r \in store.retired \union more : r.id = x /\ r \notin store'.retired
       /\ ReusableSafely(store', reached)
       /\ store.free \ F \subseteq store'.free
       /\ RetiredIds(store.retired \union more) \subseteq store'.free \union RetiredIds(store'.retired)
  <2>1. /\ store' \in Stores
        /\ store'.root = staged.root /\ store'.length = staged.length
        /\ store'.revision = staged.revision
        /\ store'.nextPage = staged.nextPage /\ store'.chain = staged.chain
        /\ store'.retired \subseteq staged.retired
        /\ \A r \in staged.retired : Pinned(Readers, r.revision) => r \in store'.retired
        /\ \A x \in store'.free : x \in staged.free
              \/ \E r \in staged.retired : r.id = x /\ r \notin store'.retired
        /\ staged.free \subseteq store'.free
        /\ RetiredIds(staged.retired) \subseteq store'.free \union RetiredIds(store'.retired)
    BY <1>4, <1>13, ReclaimedStore
  <2>2. ReusableSafely(store', reached)
    BY <1>4, <1>13, <1>17, ReclaimedSafely
  <2> QED
    BY <1>16, <2>1, <2>2
<1>19. Tree' = reached /\ Readers' = Readers
  BY <1>4, <1>10, <1>18 DEF Tree, Readers
<1>20. \A p \in reached : pages'[p].kind = "tree"
  BY <1>4, <1>9, <1>10
<1>21. HandleSound'
  <2>1. reached \union store.chain \subseteq FirstPage..(n + 1 - 1)
    <3>1. FirstPage..(store.nextPage - 1) \subseteq FirstPage..n
      BY <1>5, PageBounds
    <3>2. n + 1 - 1 = n
      OBVIOUS
    <3> QED
      BY <1>4, <1>6, <1>7, <3>1, <3>2
  <2>2. reached \intersect store.chain = {}
    BY <1>4, <1>6, <1>7
  <2> QED
    BY <1>4, <1>18, <1>19, <1>20, <2>1, <2>2 DEF HandleSound
<1>22. dirty' = dirty \union A \union {p \in Page : pages'[p] # pages[p]}
  BY <1>4 DEF DirtyAfter, A
<1>23. /\ DOMAIN durable' = DOMAIN durable
       /\ durable'.record = durable.record /\ durable'.image = durable.image
       /\ durable'.linked = durable.linked /\ durable'.quiet = FALSE
       /\ durable' = [durable EXCEPT !.quiet = durable'.quiet]
  BY <1>4 DEF TypeOK
<1>24. TypeOK'
  <2>1. dirty' \in SUBSET Page
    BY <1>7, <1>22 DEF TypeOK
  <2> QED
    BY <1>4, <1>10, <1>18, <1>23, <2>1 DEF TypeOK
<1>25. \A p \in Page : pages'[p] # pages[p] => pages'[p].kind = "tree"
  BY <1>8, <1>9, <1>10
<1>26. \A p \in Page : Readers # {} /\ p < store.nextPage /\ p \notin store.free
          => pages'[p] = pages[p]
  <2>1. \A p \in A : p \in store.free \/ ~(p < store.nextPage)
    BY <1>5, <1>7, PageNumbers
  <2> QED
    BY <1>8, <1>10, <2>1
<1>27. /\ \A r \in store.retired \union more : pages'[r.id].kind # "chain"
  <2>1. \A r \in more : pages'[r.id].kind = "tree"
    BY <1>9, <1>10, <1>11, <1>14 DEF ReclaimRecord
  <2>2. \A r \in store.retired : r.id \in Page /\ pages[r.id].kind # "chain"
    BY <1>4, <1>5 DEF ChainsRetireTrees, ReclaimRecord
  <2> QED
    BY <1>25, <2>1, <2>2
<1>28. \A p \in Tree' : p \notin dirty' =>
          p \in Tree /\ p \notin dirty /\ pages'[p] = pages[p]
  BY <1>4, <1>9, <1>19, <1>22
<1>29. ASSUME NEW v \in Readers, v <= store.revision
       PROVE  Tree \union RetiredIds({r \in store.retired : r.revision >= v})
                 \subseteq reached \union RetiredIds({r \in store'.retired : r.revision >= v})
  <2>1. \A r \in store.retired \union more : r.revision >= v => r \in store'.retired
    <3>1. \A r \in store.retired \union more : r.revision >= v => Pinned(Readers, r.revision)
      <4>1. v \in Int
        BY PageNumbers DEF TypeOK, Readers
      <4>2. \A r \in store.retired \union more : r.revision \in Int
        BY <1>5, <1>11, PageNumbers
      <4> QED
        BY <1>29, <4>1, <4>2 DEF Pinned
    <3> QED
      BY <1>18, <3>1
  <2>2. \A p \in Tree : p \in reached \/ [id |-> p, revision |-> store.revision] \in more
    BY <1>14 DEF dropped
  <2>3. \A p \in Tree : p \in reached
           \/ p \in RetiredIds({r \in store'.retired : r.revision >= v})
    <3>1. ASSUME NEW p \in Tree, p \notin reached
          PROVE  \E r \in store'.retired : r.revision >= v /\ r.id = p
      <4> DEFINE q == [id |-> p, revision |-> store.revision]
      <4>1. q.id = p /\ q.revision = store.revision
        OBVIOUS
      <4>2. q \in more
        BY <2>2, <3>1
      <4>3. v \in Int
        BY PageNumbers DEF TypeOK, Readers
      <4> HIDE DEF q
      <4>4. q \in store'.retired /\ q.revision >= v
        BY <1>5, <1>29, <2>1, <4>1, <4>2, <4>3
      <4> QED
        BY <4>1, <4>4
    <3> QED
      BY <3>1 DEF RetiredIds
  <2>4. RetiredIds({r \in store.retired : r.revision >= v})
           \subseteq RetiredIds({r \in store'.retired : r.revision >= v})
    BY <2>1 DEF RetiredIds
  <2> QED
    BY <2>3, <2>4
<1>30. store'.revision >= store.revision /\ store'.nextPage >= store.nextPage
  BY <1>5, <1>18, PageBounds
<1>31. store'.revision # store.revision
  BY <1>5, <1>18, PageBounds
<1>32. /\ \A r \in store'.retired : pages'[r.id].kind # "chain"
       /\ \A x \in store'.free : x \in store.free \/ pages'[x].kind # "chain"
  BY <1>18, <1>27
<1>33. UNCHANGED <<status, meta, sync, disk, crash>>
  BY <1>4
<1>34. ASSUME NEW p \in FirstPage..(store'.nextPage - 1), ~Accounted(p)'
       PROVE  Passed(p)
  <2>1. p \notin reached \union store'.free \union RetiredIds(store'.retired)
    BY <1>19, <1>34 DEF Accounted
  <2>2. p \notin (store.free \ F) \union RetiredIds(store.retired) \union dropped
    BY <1>15, <1>18, <2>1
  <2>3. p \notin Tree \union A
    BY <2>1, <2>2 DEF dropped
  <2>4. p \notin F /\ p \notin store.nextPage..n
    BY <2>3 DEF A, Allocated
  <2>5. p < store.nextPage
    BY <1>5, <1>18, <2>4, PageNumbers DEF Stores
  <2> QED
    BY <2>2, <2>3, <2>4, <2>5 DEF Accounted, Passed
<1>35. ASSUME NEW p \in Page, p < store.nextPage, p \notin Tree \union store.free
       PROVE  pages'[p] = pages[p]
  <2>1. p \notin A
    BY <1>5, <1>7, <1>35, PageNumbers
  <2> QED
    BY <1>4, <1>8, <1>10, <1>35, <2>1
<1> QED
  BY <1>4, <1>18, <1>19, <1>21, <1>23, <1>24, <1>25, <1>26, <1>28, <1>29, <1>30, <1>31,
     <1>32, <1>33, <1>34, <1>35, Zenon DEF Rewrites

\* Snapshot.Close, which reclaims and may repair the links.
LEMMA CloseRewrites ==
    ASSUME TypeOK, HandleSound, ChainsRetireTrees, CloseSnapshot
    PROVE  Rewrites
<1>0. PICK s \in Snap : \E next \in Relinks(Tree, Readers \ {snaps[s]}) : SnapshotClose(s, next)
  BY DEF CloseSnapshot
<1>1. PICK next \in Relinks(Tree, Readers \ {snaps[s]}) : SnapshotClose(s, next)
  BY <1>0
<1>2. /\ Idle /\ status = "open" /\ snaps[s] # NoRevision
      /\ snaps' = [snaps EXCEPT ![s] = NoRevision]
      /\ store' = Reclaimed(store, Readers')
      /\ \/ pages' = pages
         \/ pages' = Relinked(pages, Tree, next, Readers')
      /\ Linked(store.root, Image(pages, store.root)) => pages' = pages
      /\ ValidTree(store.root, store.length, Image(pages', store.root))
      /\ dirty' = dirty \union {p \in Page : pages'[p] # pages[p]}
      /\ durable' = [durable EXCEPT !.quiet = @ /\ pages' = pages]
      /\ UNCHANGED <<status, meta, sync, disk, crash, count>>
  BY <1>1, Zenon DEF SnapshotClose, Idle
<1>3. /\ store \in Stores /\ pages \in [Page -> Bytes]
      /\ store.root \in {0} \union Page
      /\ store.retired \in SUBSET ReclaimRecord
      /\ store.revision \in Int /\ store.nextPage \in Int
      /\ \A r \in store.retired : r.id \in Page /\ r.revision \in Int
  BY PageNumbers DEF TypeOK, Stores
<1>4. /\ Tree \subseteq Page /\ \A p \in Tree : pages[p].kind = "tree"
      /\ Tree \union store.chain \subseteq FirstPage..(store.nextPage - 1)
      /\ ReusableSafely(store, Tree)
      /\ Tree \intersect store.chain = {}
  BY <1>2, ReachIsPages DEF HandleSound, Tree
<1>5. Readers' \subseteq Readers
  BY <1>1, <1>2 DEF Readers, TypeOK
<1>6. /\ store' \in Stores
      /\ store'.root = store.root /\ store'.length = store.length
      /\ store'.revision = store.revision
      /\ store'.nextPage = store.nextPage /\ store'.chain = store.chain
      /\ store'.retired \subseteq store.retired
      /\ \A r \in store.retired : Pinned(Readers', r.revision) => r \in store'.retired
      /\ \A x \in store'.free : x \in store.free
             \/ \E r \in store.retired : r.id = x /\ r \notin store'.retired
      /\ store.free \subseteq store'.free
      /\ RetiredIds(store.retired) \subseteq store'.free \union RetiredIds(store'.retired)
  BY <1>2, <1>3, ReclaimedStore
<1>7. ReusableSafely(store', Tree)
  BY <1>2, <1>3, <1>4, ReclaimedSafely
<1>8. /\ pages' \in [Page -> Bytes]
      /\ \A p \in Page : pages'[p].kind = pages[p].kind
      /\ \A p \in Page : pages'[p] # pages[p] =>
            p \in Tree /\ Readers' = {} /\ pages'[p].kind = "tree"
      /\ Reach(pages', store.root) = Tree
  <2>1. CASE pages' = pages
    BY <1>3, <2>1 DEF Tree
  <2>2. CASE pages' = Relinked(pages, Tree, next, Readers')
    <3>1. Readers' = {} => Readers \ {snaps[s]} = {}
      BY <1>1, <1>2 DEF Readers, TypeOK
    <3>2. MayRelink(pages, Tree, next, Readers')
      BY <1>1, <1>3, <1>4, <3>1 DEF MayRelink
    <3>3. OnlyRelinked(pages, pages', Tree, Readers')
      BY <2>2, <3>2, RelinkedPages
    <3>4. Reach(pages', store.root) = Tree
      BY <1>3, <3>3 DEF Tree, OnlyRelinked
    <3> QED
      BY <1>4, <3>3, <3>4 DEF OnlyRelinked
  <2> QED
    BY <1>2, <2>1, <2>2
<1>9. Tree' = Tree
  BY <1>6, <1>8 DEF Tree
<1>10. HandleSound'
  BY <1>2, <1>4, <1>6, <1>7, <1>8, <1>9 DEF HandleSound
<1>11. /\ DOMAIN durable' = DOMAIN durable
       /\ durable'.record = durable.record
       /\ durable'.linked = durable.linked
       /\ durable'.quiet = (durable.quiet /\ pages' = pages)
       /\ durable' = [durable EXCEPT !.quiet = durable'.quiet]
  BY <1>2 DEF TypeOK
<1>12. TypeOK'
  <2>1. dirty' \in SUBSET Page
    BY <1>2 DEF TypeOK
  <2>2. snaps' \in [Snap -> {NoRevision} \union Revision]
    BY <1>2 DEF TypeOK
  <2>3. durable'.quiet \in BOOLEAN
    BY <1>11 DEF TypeOK
  <2> QED
    BY <1>2, <1>6, <1>8, <1>11, <2>1, <2>2, <2>3 DEF TypeOK
<1>13. /\ \A r \in store'.retired : pages'[r.id].kind # "chain"
       /\ \A x \in store'.free : x \in store.free \/ pages'[x].kind # "chain"
  <2>1. \A r \in store.retired : pages'[r.id].kind # "chain"
    BY <1>2, <1>3, <1>8 DEF ChainsRetireTrees
  <2> QED
    BY <1>6, <2>1
<1>14. ASSUME NEW v \in Readers', v <= store.revision
       PROVE  Tree \union RetiredIds({r \in store.retired : r.revision >= v})
                 \subseteq Tree' \union RetiredIds({r \in store'.retired : r.revision >= v})
  <2>1. v \in Int
    BY <1>5, PageNumbers DEF TypeOK, Readers
  <2>2. \A r \in store.retired : r.revision >= v => r \in store'.retired
    BY <1>3, <1>6, <2>1 DEF Pinned
  <2>3. RetiredIds({r \in store.retired : r.revision >= v})
           \subseteq RetiredIds({r \in store'.retired : r.revision >= v})
    BY <2>2 DEF RetiredIds
  <2> QED
    BY <1>9, <2>3
<1>15. \A p \in Tree' : p \notin dirty' =>
          p \in Tree /\ p \notin dirty /\ pages'[p] = pages[p]
  BY <1>2, <1>4, <1>9
<1>16. \A p \in Page : Readers' # {} => pages'[p] = pages[p]
  BY <1>8
<1>17. store'.revision >= store.revision /\ store'.nextPage >= store.nextPage
  BY <1>3, <1>6
<1>18. UNCHANGED <<status, meta, sync, disk, crash>>
  BY <1>2
<1>19. ASSUME NEW p \in FirstPage..(store'.nextPage - 1), ~Accounted(p)'
       PROVE  Passed(p)
  <2>1. p < store.nextPage
    BY <1>3, <1>6, PageNumbers DEF Stores
  <2> QED
    BY <1>6, <1>9, <1>19, <2>1 DEF Accounted, Passed
<1>20. \A p \in Page : p \notin Tree => pages'[p] = pages[p]
  BY <1>8
<1> QED
  BY <1>2, <1>5, <1>6, <1>8, <1>10, <1>11, <1>12, <1>13, <1>14, <1>15, <1>16, <1>17, <1>18, <1>19, <1>20, Zenon
  DEF Rewrites

----------------------------------------------------------------------------
(* What steps keep of the records *)

LEMMA SettledBetween ==
    ASSUME TypeOK
    PROVE  /\ sync.phase # "written" => Settled = meta
           /\ Settled \in [Slot -> MetaPages]
           /\ MetaSlot(store) \in Slot
           /\ \A i \in Slot : \A m \in Published(i) : m \in MetaRecords /\ m.kind = "meta"
<1>1. sync.phase # "written" => Settled = meta
  BY DEF Settled
<1>2. MetaSlot(store) \in Slot
  BY PageNumbers DEF TypeOK, Stores, MetaSlot, Slot
<1>3. Settled \in [Slot -> MetaPages]
  BY <1>2 DEF TypeOK, Settled
<1>4. ASSUME NEW i \in Slot, NEW m \in Published(i)
      PROVE  m \in MetaRecords /\ m.kind = "meta"
  <2>1. m \in MetaPages /\ m.kind = "meta"
    BY <1>3, <1>4 DEF TypeOK, Published
  <2> QED
    BY <2>1 DEF MetaPages, Zero, Torn
<1> QED
  BY <1>1, <1>2, <1>3, <1>4

LEMMA RecordFields ==
    ASSUME NEW m \in MetaRecords
    PROVE  /\ m.kind = "meta" /\ m.revision \in Int /\ m.nextPage \in Int
           /\ m.root \in {0} \union Page /\ m.chain \in SUBSET Page
           /\ m.revision \in Revision /\ m.length \in Length
           /\ m.nextPage \in FirstPage..(MaxPage + 1) /\ m.free \in SUBSET Page
BY PageNumbers DEF MetaRecords

\* The chain pages of X below k come from A or from B.
ChainsFrom(X, A, B, k) ==
    /\ X \in [Page -> Bytes]
    /\ \A p \in Page : p < k /\ X[p].kind = "chain" => X[p] \in {A[p], B[p]}

AllRetireTrees(m, A, B) == \A P, Q \in {A, B} : RetiresTrees(m, P, Q)

LEMMA MixedRetireTrees ==
    ASSUME NEW m \in MetaRecords, m.chain \subseteq FirstPage..(m.nextPage - 1),
           NEW A, NEW B, AllRetireTrees(m, A, B),
           NEW X, NEW Y, ChainsFrom(X, A, B, m.nextPage), ChainsFrom(Y, A, B, m.nextPage)
    PROVE  RetiresTrees(m, X, Y)
<1> SUFFICES ASSUME NEW p \in m.chain, X[p].kind = "chain",
                    NEW r \in X[p].records, r.revision # 0
             PROVE  r.id < m.nextPage /\ Y[r.id].kind # "chain"
  BY DEF RetiresTrees
<1>1. p \in Page /\ p < m.nextPage
  BY RecordFields, PageNumbers
<1>2. r.id \in Page
  <2>1. X[p] \in Bytes
    BY <1>1 DEF ChainsFrom
  <2>2. r \in ReclaimRecord
    BY <2>1, KindsOfBytes
  <2> QED
    BY <2>2, PageNumbers
<1>3. X[p] \in {A[p], B[p]}
  BY <1>1 DEF ChainsFrom
<1>4. RetiresTrees(m, A, A) /\ RetiresTrees(m, A, B) /\ RetiresTrees(m, B, A) /\ RetiresTrees(m, B, B)
  BY DEF AllRetireTrees
<1>5. r.id < m.nextPage /\ A[r.id].kind # "chain" /\ B[r.id].kind # "chain"
  BY <1>3, <1>4 DEF RetiresTrees
<1>6. Y[r.id].kind = "chain" => Y[r.id] \in {A[r.id], B[r.id]}
  BY <1>2, <1>5 DEF ChainsFrom
<1> QED
  BY <1>5, <1>6

\* While no step adds a record, nor writes below k a chain page that neither the
\* mapping nor the disk had, the chains go on to retire pages of trees.
LEMMA ChainsKept ==
    ASSUME TypeOK, RecordsOrdered, ChainsRetireTrees, NEW k,
           \A i \in Slot : \A m \in Published(i)' : m \in Published(i) /\ m.nextPage <= k,
           k \in Int,
           ChainsFrom(pages', pages, disk.pages, k),
           ChainsFrom(disk'.pages, pages, disk.pages, k)
    PROVE  \A i \in Slot : \A m \in Published(i)', P, Q \in {pages', disk'.pages} :
              RetiresTrees(m, P, Q)
<1> SUFFICES ASSUME NEW i \in Slot, NEW m \in Published(i)',
                    NEW P \in {pages', disk'.pages}, NEW Q \in {pages', disk'.pages}
             PROVE  RetiresTrees(m, P, Q)
  OBVIOUS
<1>1. m \in Published(i) /\ m.nextPage <= k
  OBVIOUS
<1>2. m \in MetaRecords /\ m.chain \subseteq FirstPage..(m.nextPage - 1) /\ m.nextPage \in Int
  BY <1>1, SettledBetween, RecordFields DEF RecordsOrdered
<1>3. AllRetireTrees(m, pages, disk.pages)
  BY <1>1 DEF ChainsRetireTrees, AllRetireTrees
<1>4. ASSUME NEW X, ChainsFrom(X, pages, disk.pages, k)
      PROVE  ChainsFrom(X, pages, disk.pages, m.nextPage)
  <2>1. \A p \in Page : p < m.nextPage => p < k
    BY <1>1, <1>2, PageNumbers
  <2> QED
    BY <1>4, <2>1 DEF ChainsFrom
<1>5. /\ ChainsFrom(P, pages, disk.pages, m.nextPage)
      /\ ChainsFrom(Q, pages, disk.pages, m.nextPage)
  BY <1>4
<1> QED
  BY <1>2, <1>3, <1>5, MixedRetireTrees

\* The durable tree where its bytes are kept.
LEMMA DurableBytesKept ==
    ASSUME TypeOK, TypeOK', Known, DurableKept,
           durable'.record = durable.record, durable'.image = durable.image,
           \A p \in Reach(pages, durable.record.root) \union durable.record.chain :
              pages'[p] = pages[p] /\ disk'.pages[p] = pages[p]
    PROVE  /\ DurableKept'
           /\ Reach(pages', durable.record.root) = Reach(pages, durable.record.root)
           /\ Image(pages', durable.record.root) = Image(pages, durable.record.root)
<1> DEFINE m == durable.record
           L == FirstPage..(m.nextPage - 1)
<1>1. m \in MetaRecords
  BY DEF TypeOK, Known
<1>2. pages \in [Page -> Bytes] /\ pages' \in [Page -> Bytes]
  BY DEF TypeOK
<1>3. SoundRecord(pages, L, m) /\ durable.image = Image(pages, m.root)
  BY DEF DurableKept
<1> HIDE DEF L
<1>4. /\ SoundRecord(pages', L, m)
      /\ Reach(pages', m.root) = Reach(pages, m.root)
      /\ Image(pages', m.root) = Image(pages, m.root)
  <2>1. \A p \in Reach(pages, m.root) \union m.chain : pages'[p] = pages[p]
    OBVIOUS
  <2> QED
    BY <1>1, <1>2, <1>3, <2>1, RecordIsLocal
<1>5. DurableKept'
  BY <1>3, <1>4 DEF DurableKept, L
<1> QED
  BY <1>4, <1>5

\* The record of the durable tree, while the file is open.
LEMMA DurableRecord ==
    ASSUME TypeOK, FileSound, status = "open", Known
    PROVE  /\ disk.meta = Settled /\ DurableNewest(Settled)
           /\ durable.linked => Linked(durable.record.root, durable.image)
           /\ durable.record \in MetaRecords
           /\ durable.record.revision \in Int
           /\ durable.record.revision <= store.revision
           /\ durable.record.nextPage <= store.nextPage
           /\ durable.record.root \in {0} \union Page
           /\ durable.record.chain \subseteq Page
           /\ \A p \in durable.record.chain : p < store.nextPage
<1>1. /\ disk.meta = Settled /\ DurableNewest(Settled)
      /\ durable.linked => Linked(durable.record.root, durable.image)
      /\ durable.record.revision <= store.revision
  BY DEF FileSound, DurableSound
<1>2. durable.record \in MetaRecords
  BY DEF TypeOK, Known
<1>3. DurableSlot \in Slot
  BY <1>2, RecordFields DEF DurableSlot, Slot
<1>4. durable.record \in Published(DurableSlot)
  BY <1>1, <1>2, <1>3, RecordFields DEF Published, DurableNewest
<1>5. /\ durable.record.nextPage <= store.nextPage
      /\ durable.record.chain \subseteq FirstPage..(durable.record.nextPage - 1)
  BY <1>3, <1>4 DEF FileSound, RecordsOrdered
<1>6. store.nextPage \in Int
  BY PageNumbers DEF TypeOK, Stores
<1>7. \A p \in durable.record.chain : p < store.nextPage
  BY <1>2, <1>5, <1>6, RecordFields, PageNumbers
<1> QED
  BY <1>1, <1>2, <1>5, <1>7, RecordFields

\* A mutation or the close of a snapshot keeps what is durable.
LEMMA RewritesKeep ==
    ASSUME TypeOK, HandleSound, FileSound, Rewrites
    PROVE  FileSound'
<1>1. /\ status = "open" /\ status' = "open" /\ sync.phase = "none" /\ sync' = sync
      /\ meta' = meta /\ disk' = disk /\ crash' = crash
      /\ TypeOK' /\ Readers' \subseteq Readers
      /\ store'.revision >= store.revision /\ store'.nextPage >= store.nextPage
  BY DEF Rewrites, Idle
<1>2. RecordsOrdered /\ ChainsRetireTrees /\ DirtySound /\ DurableSound /\ DownSound
  BY DEF FileSound
<1>3. /\ Settled = meta /\ Settled' = meta
      /\ \A i \in Slot : Published(i)' = Published(i)
  BY <1>1 DEF Settled, Published
<1>4. /\ store.revision \in Int /\ store'.revision \in Int
      /\ store.nextPage \in Int /\ store'.nextPage \in Int
      /\ store.free \in SUBSET Page
      /\ pages \in [Page -> Bytes] /\ pages' \in [Page -> Bytes]
      /\ disk.pages \in [Page -> Bytes]
  BY <1>1, PageNumbers DEF TypeOK, Stores
<1>5. \A i \in Slot : \A m \in Published(i) :
         m \in MetaRecords /\ m.nextPage \in Int /\ m.revision \in Int
         /\ m.nextPage <= store.nextPage /\ m.revision <= store.revision
  BY <1>1, <1>2, SettledBetween, RecordFields DEF RecordsOrdered
<1>6. RecordsOrdered'
  <2>1. \A i \in Slot : \A m \in Published(i) :
           m.revision <= store'.revision /\ m.nextPage <= store'.nextPage
    BY <1>1, <1>4, <1>5
  <2> QED
    BY <1>1, <1>2, <1>3, <2>1 DEF RecordsOrdered
<1>7. \A p \in Page : pages'[p] # pages[p] => pages'[p].kind = "tree"
  BY DEF Rewrites
<1>8. ChainsRetireTrees'
  <2>1. /\ ChainsFrom(pages', pages, disk.pages, store.nextPage)
        /\ ChainsFrom(disk'.pages, pages, disk.pages, store.nextPage)
    BY <1>1, <1>4, <1>7 DEF ChainsFrom
  <2>2. \A i \in Slot : \A m \in Published(i)' : m \in Published(i) /\ m.nextPage <= store.nextPage
    BY <1>3, <1>5
  <2>3. \A i \in Slot : \A m \in Published(i)', P, Q \in {pages', disk'.pages} :
           RetiresTrees(m, P, Q)
    BY <1>2, <1>4, <2>1, <2>2, ChainsKept
  <2>4. \A r \in store'.retired : pages'[r.id].kind # "chain"
    BY DEF Rewrites
  <2> QED
    BY <2>3, <2>4 DEF ChainsRetireTrees
<1>9. SyncSound'
  BY <1>1 DEF SyncSound
<1>10. durable' = [durable EXCEPT !.quiet = durable'.quiet]
  BY DEF Rewrites
<1>11. /\ durable'.record = durable.record /\ durable'.image = durable.image
       /\ durable'.linked = durable.linked
  <2>1. DOMAIN durable = {"record", "image", "linked", "quiet"}
    BY DEF TypeOK
  <2> QED
    BY <1>10, <2>1
<1>12. Known' = Known /\ DurableSlot' = DurableSlot
  BY <1>11 DEF Known, DurableSlot
<1>13. DirtySound'
  <2>1. ASSUME Known, NEW p \in Tree', disk.pages[p] # pages'[p]
        PROVE  p \in dirty'
    <3>1. p \notin dirty' => p \in Tree /\ p \notin dirty /\ pages'[p] = pages[p]
      BY DEF Rewrites
    <3> QED
      BY <1>1, <1>2, <2>1, <3>1 DEF DirtySound
  <2> QED
    BY <1>1, <1>12, <2>1 DEF DirtySound
<1>14. ASSUME Known, durable.linked, durable'.quiet \/ durable.record.revision \in Readers'
       PROVE  /\ DurableKept'
              /\ Reach(pages', durable.record.root) \subseteq
                    Tree' \union RetiredIds({r \in store'.retired :
                                              r.revision >= durable.record.revision})
              /\ durable.record.chain \intersect store'.free = {}
  <2> DEFINE old == {r \in store.retired : r.revision >= durable.record.revision}
             new == {r \in store'.retired : r.revision >= durable.record.revision}
             reached == Reach(pages, durable.record.root)
  <2>1. durable'.quiet =>
           /\ durable.quiet /\ pages' = pages
           /\ store'.root = store.root
    BY DEF Rewrites
  <2>2. /\ DurableKept
        /\ reached \subseteq Tree \union RetiredIds(old)
        /\ durable.record.chain \intersect store.free = {}
        /\ durable.quiet => store.root = durable.record.root
    BY <1>1, <1>2, <1>14, <2>1 DEF DurableSound
  <2>3. /\ durable.record.chain \subseteq Page
        /\ \A p \in durable.record.chain : p < store.nextPage
        /\ durable.record.revision <= store.revision
        /\ durable.record.root \in {0} \union Page
    BY <1>1, <1>14, DurableRecord
  <2>4. \A p \in RetiredIds(store.retired) \union Tree : p < store.nextPage /\ p \notin store.free
    BY <1>1, <1>4, PageNumbers DEF HandleSound, ReusableSafely
  <2>5. RetiredIds(old) \subseteq RetiredIds(store.retired)
    BY DEF RetiredIds
  <2>6. reached \subseteq Page
    BY ReachIsPages
  <2>7. \A p \in reached \union durable.record.chain :
           p \in Page /\ p < store.nextPage /\ p \notin store.free
    BY <2>2, <2>3, <2>4, <2>5, <2>6
  <2>8. \A p \in reached \union durable.record.chain : pages'[p] = pages[p]
    <3>1. CASE durable'.quiet
      BY <2>1, <3>1
    <3>2. CASE Readers' # {}
      BY <2>7, <3>2 DEF Rewrites
    <3> QED
      BY <1>14, <3>1, <3>2
  <2>9. \A p \in reached \union durable.record.chain : disk.pages[p] = pages[p]
    BY <2>2 DEF DurableKept
  <2>10. DurableKept' /\ Reach(pages', durable.record.root) = reached
    BY <1>1, <1>11, <1>14, <2>2, <2>8, <2>9, DurableBytesKept
  <2>11. reached \subseteq Tree' \union RetiredIds(new)
    <3>1. CASE durable'.quiet
      BY <2>1, <2>2, <3>1 DEF Tree
    <3>2. CASE durable.record.revision \in Readers'
      <4>1. Tree \union RetiredIds(old) \subseteq Tree' \union RetiredIds(new)
        BY <2>3, <3>2 DEF Rewrites
      <4> QED
        BY <2>2, <4>1
    <3> QED
      BY <1>14, <3>1, <3>2
  <2>12. \A p \in durable.record.chain : pages'[p].kind = "chain"
    <3>1. SoundRecord(pages, FirstPage..(durable.record.nextPage - 1), durable.record)
      BY <2>2 DEF DurableKept
    <3> QED
      BY <2>8, <3>1 DEF SoundRecord, ResolvedChain
  <2>13. \A x \in store'.free : x \in store.free \/ pages'[x].kind # "chain"
    BY DEF Rewrites
  <2>14. durable.record.chain \intersect store'.free = {}
    BY <2>2, <2>12, <2>13
  <2> QED
    BY <2>10, <2>11, <2>14
<1>15. ASSUME Known, durable.linked, durable.record.revision = store'.revision
       PROVE  durable'.quiet
  <2>1. durable.record.revision <= store.revision /\ durable.record.revision \in Int
        /\ Linked(durable.record.root, durable.image)
    BY <1>1, <1>15, DurableRecord
  <2>2. store'.revision = store.revision
    BY <1>1, <1>4, <1>15, <2>1
  <2>3. durable.quiet
    BY <1>1, <1>2, <1>15, <2>2 DEF DurableSound
  <2>4. store.root = durable.record.root /\ DurableKept
    BY <1>1, <1>2, <1>15, <2>3 DEF DurableSound
  <2>5. Linked(store.root, Image(pages, store.root))
    BY <2>1, <2>4 DEF DurableKept
  <2> QED
    BY <2>2, <2>3, <2>5 DEF Rewrites
<1>16. ASSUME Known
       PROVE  durable'.quiet => /\ store'.revision = durable.record.revision
                                /\ store'.root = durable.record.root
                                /\ store'.length = durable.record.length
  <2>1. durable'.quiet =>
           /\ durable.quiet
           /\ store'.root = store.root /\ store'.length = store.length
           /\ store'.revision = store.revision
    BY DEF Rewrites
  <2> QED
    BY <1>1, <1>2, <1>16, <2>1 DEF DurableSound
<1>17. DurableSound'
  <2> SUFFICES ASSUME Known
               PROVE  DurableSound'
    BY <1>12 DEF DurableSound
  <2>1. /\ disk.meta = Settled /\ DurableNewest(Settled)
        /\ durable.linked => Linked(durable.record.root, durable.image)
        /\ durable.record.revision <= store.revision
        /\ durable.record.revision \in Int
    BY <1>1, DurableRecord
  <2>2. disk'.meta = Settled' /\ DurableNewest(Settled)'
    BY <1>1, <1>3, <1>11, <1>12, <2>1 DEF DurableNewest
  <2>3. durable.record.revision <= store'.revision
    BY <1>1, <1>4, <2>1
  <2> QED
    BY <1>11, <1>14, <1>15, <1>16, <2>1, <2>2, <2>3, Zenon DEF DurableSound
<1>18. DownSound'
  BY <1>1, <1>2 DEF DownSound
<1> QED
  BY <1>6, <1>8, <1>9, <1>13, <1>17, <1>18 DEF FileSound

LEMMA SnapshotOpenKeeps ==
    ASSUME TypeOK, HandleSound, FileSound, NEW s \in Snap, SnapshotOpen(s)
    PROVE  TypeOK' /\ HandleSound' /\ FileSound'
<1>1. /\ status = "open" /\ sync.phase = "none"
      /\ snaps' = [snaps EXCEPT ![s] = store.revision]
      /\ status' = status /\ pages' = pages /\ store' = store /\ meta' = meta /\ dirty' = dirty
      /\ sync' = sync /\ disk' = disk /\ durable' = durable /\ crash' = crash /\ count' = count
  BY DEF SnapshotOpen, Idle
<1>2. RecordsOrdered /\ ChainsRetireTrees /\ DirtySound /\ DurableSound /\ DownSound
  BY DEF FileSound
<1>3. TypeOK'
  <2>1. store.revision \in Revision
    BY DEF TypeOK, Stores
  <2>2. snaps' \in [Snap -> {NoRevision} \union Revision]
    BY <1>1, <2>1 DEF TypeOK
  <2> QED
    BY <1>1, <2>2 DEF TypeOK
<1>4. Readers' \subseteq Readers \union {store.revision}
  BY <1>1 DEF Readers, TypeOK
<1>5. /\ Tree' = Tree /\ Settled' = Settled /\ Known' = Known /\ DurableKept' = DurableKept
      /\ \A i \in Slot : Published(i)' = Published(i)
  BY <1>1 DEF Tree, Settled, Known, DurableKept, Published, MetaSlot
<1>6. HandleSound'
  BY <1>1, <1>5 DEF HandleSound
<1>7. RecordsOrdered'
  BY <1>1, <1>2, <1>5 DEF RecordsOrdered
<1>8. ChainsRetireTrees'
  BY <1>1, <1>2, <1>5 DEF ChainsRetireTrees
<1>9. SyncSound'
  BY <1>1 DEF SyncSound
<1>10. DirtySound'
  BY <1>1, <1>2, <1>5 DEF DirtySound
<1>11. DurableSound'
  <2> SUFFICES ASSUME Known
               PROVE  DurableSound'
    BY <1>5 DEF DurableSound
  <2>1. DurableNewest(Settled)' = DurableNewest(Settled)
    BY <1>1, <1>5 DEF DurableNewest, DurableSlot
  <2>2. durable.linked /\ (durable.quiet \/ durable.record.revision \in Readers')
           => durable.quiet \/ durable.record.revision \in Readers
    BY <1>1, <1>2, <1>4 DEF DurableSound
  <2> QED
    BY <1>1, <1>2, <1>5, <2>1, <2>2 DEF DurableSound
<1>12. DownSound'
  BY <1>1, <1>2 DEF DownSound
<1> QED
  BY <1>3, <1>6, <1>7, <1>8, <1>9, <1>10, <1>11, <1>12 DEF FileSound

----------------------------------------------------------------------------
(* Sync *)

\* Sync fills its chain with pages that nothing uses yet.
LEMMA SyncBeginKeeps ==
    ASSUME TypeOK, HandleSound, FileSound, BeginSync
    PROVE  TypeOK' /\ HandleSound' /\ FileSound'
<1>1. PICK closing \in BOOLEAN, n \in (store.nextPage - 1)..MaxPage :
         \E part \in [MetadataRecords(IF closing THEN Reclaimed(store, {}) ELSE store)
                         -> store.nextPage..n] :
            SyncBegin(closing, n, part)
  BY DEF BeginSync
<1> DEFINE st == IF closing THEN Reclaimed(store, {}) ELSE store
           chain == store.nextPage..n
           records == MetadataRecords(st)
<1>2. PICK part \in [records -> chain] : SyncBegin(closing, n, part)
  BY <1>1
<1>3. /\ status = "open" /\ sync.phase = "none"
      /\ closing => Readers = {}
      /\ store' = st
      /\ Cardinality(chain) = (Cardinality(records) + RecordsPerPage - 1) \div RecordsPerPage
      /\ pages' = [p \in Page |-> IF p \in chain
                                  THEN ChainPage({r \in records : part[r] = p})
                                  ELSE pages[p]]
      /\ sync' = [phase |-> "prepared", nextPage |-> n + 1, chain |-> chain,
                  closing |-> closing, dirty |-> dirty, previous |-> meta[MetaSlot(store)]]
      /\ dirty' = dirty \union chain
      /\ count' = [count EXCEPT !.syncs = @ + 1]
      /\ status' = status /\ meta' = meta /\ snaps' = snaps /\ disk' = disk
      /\ durable' = durable /\ crash' = crash
  BY <1>2 DEF SyncBegin, Idle
<1>4. RecordsOrdered /\ ChainsRetireTrees /\ DirtySound /\ DurableSound /\ DownSound
  BY DEF FileSound
<1>5. /\ store \in Stores /\ pages \in [Page -> Bytes] /\ disk.pages \in [Page -> Bytes]
      /\ store.nextPage \in FirstPage..(MaxPage + 1)
      /\ store.nextPage \in Int /\ store.revision \in Int
      /\ store.retired \in SUBSET ReclaimRecord
      /\ store.root \in {0} \union Page
      /\ dirty \in SUBSET Page
  BY PageNumbers DEF TypeOK, Stores
<1>6. /\ st \in Stores
      /\ st.root = store.root /\ st.length = store.length
      /\ st.revision = store.revision
      /\ st.nextPage = store.nextPage /\ st.chain = store.chain
      /\ st.retired \subseteq store.retired
      /\ ~closing => st = store
      /\ \A x \in st.free : x \in store.free \/ \E r \in store.retired : r.id = x
  <2>1. CASE closing
    BY <1>5, <2>1, ReclaimedStore
  <2>2. CASE ~closing
    BY <1>5, <2>2
  <2> QED
    BY <2>1, <2>2
<1>7. /\ records \in SUBSET ReclaimRecord
      /\ Cardinality(records) \in Nat
  BY <1>6, RecordsAreCounted
<1> HIDE DEF st
<1>8. /\ chain \subseteq Page /\ \A p \in chain : p >= store.nextPage
      /\ n + 1 \in FirstPage..(MaxPage + 1) /\ n + 1 >= store.nextPage
      /\ n + 1 \in Int /\ chain = store.nextPage..(n + 1 - 1)
  <2>1. n \in Int /\ n >= store.nextPage - 1 /\ n <= MaxPage
        /\ store.nextPage >= FirstPage /\ FirstPage = 2 /\ MaxPage \in Nat
    BY <1>5, PageBounds
  <2> QED
    BY <1>5, <2>1 DEF Page
<1> HIDE DEF records, chain
<1>9. /\ pages' \in [Page -> Bytes]
      /\ \A p \in Page : p < store.nextPage => pages'[p] = pages[p]
      /\ \A p \in chain : pages'[p] = ChainPage({r \in records : part[r] = p})
      /\ \A p \in chain : pages'[p].kind = "chain"
                          /\ pages'[p].records = {r \in records : part[r] = p}
  <2>1. \A p \in Page : p < store.nextPage => p \notin chain
    BY <1>5, <1>8, PageNumbers
  <2>2. \A p \in chain : ChainPage({r \in records : part[r] = p}) \in Bytes
    BY <1>7 DEF ChainPage, Bytes
  <2>3. \A p \in chain : pages'[p] = ChainPage({r \in records : part[r] = p})
    BY <1>3, <1>8
  <2>4. \A p \in chain : pages'[p].kind = "chain"
                         /\ pages'[p].records = {r \in records : part[r] = p}
    <3>1. \A R : ChainPage(R).kind = "chain" /\ ChainPage(R).records = R
      BY DEF ChainPage
    <3>2. ASSUME NEW p \in chain
          PROVE  pages'[p].kind = "chain" /\ pages'[p].records = {r \in records : part[r] = p}
      <4> DEFINE R == {r \in records : part[r] = p}
      <4>1. pages'[p] = ChainPage(R)
        BY <2>3
      <4> HIDE DEF R
      <4>2. pages'[p].kind = "chain" /\ pages'[p].records = R
        BY <3>1, <4>1
      <4> QED
        BY <4>2 DEF R
    <3> QED
      BY <3>2
  <2>5. pages' \in [Page -> Bytes]
    <3>1. \A p \in Page : pages'[p] \in Bytes
      BY <1>3, <1>5, <2>2
    <3>2. pages' = [p \in Page |-> pages'[p]]
      BY <1>3
    <3> QED
      BY <3>1, <3>2
  <2>6. \A p \in Page : p \notin chain => pages'[p] = pages[p]
    BY <1>3
  <2> QED
    BY <2>1, <2>3, <2>4, <2>5, <2>6
<1>10. UNION {pages'[p].records : p \in chain} = records
  <2>1. \A p \in chain : pages'[p].records \subseteq records
    BY <1>9
  <2>2. \A r \in records : part[r] \in chain /\ r \in pages'[part[r]].records
    BY <1>9
  <2> QED
    BY <2>1, <2>2
<1>11. records = {} => chain = {}
  <2>1. (0 + RecordsPerPage - 1) \div RecordsPerPage = 0
    BY SomeRecords
  <2>2. records = {} => Cardinality(records) = 0
    BY FS_EmptySet
  <2>3. IsFiniteSet(chain)
    BY <1>8, RecordsAreFinite, FS_Subset
  <2>4. Cardinality(chain) = 0 => chain = {}
    BY <2>3, FS_EmptySet
  <2> QED
    BY <1>3, <2>1, <2>2, <2>4
<1>12. /\ store' \in Stores
       /\ store'.root = store.root /\ store'.length = store.length
       /\ store'.revision = store.revision
       /\ store'.nextPage = store.nextPage /\ store'.chain = store.chain
       /\ store'.retired \subseteq store.retired
       /\ \A x \in store'.free : x \in store.free \/ \E r \in store.retired : r.id = x
  BY <1>3, <1>6
<1>13. /\ sync'.phase = "prepared" /\ sync'.nextPage = n + 1 /\ sync'.chain = chain
       /\ sync'.closing = closing /\ sync'.dirty = dirty
       /\ sync'.previous = meta[MetaSlot(store)]
  BY <1>3
<1>14. TypeOK'
  <2>1. meta[MetaSlot(store)] \in MetaPages
    BY SettledBetween DEF TypeOK
  <2>2. sync' \in [phase : {"none", "prepared", "flushed", "written"},
                   nextPage : FirstPage..(MaxPage + 1), chain : SUBSET Page,
                   closing : BOOLEAN, dirty : SUBSET Page, previous : MetaPages]
    BY <1>3, <1>5, <1>8, <2>1
  <2>3. dirty' \in SUBSET Page
    BY <1>3, <1>5, <1>8
  <2>4. count' \in [syncs : Nat, ends : Nat]
    BY <1>3 DEF TypeOK
  <2> QED
    BY <1>3, <1>9, <1>12, <2>2, <2>3, <2>4 DEF TypeOK
<1>15. \A p \in Tree : p < store.nextPage /\ p \in Page
  BY <1>3, <1>5, PageNumbers, ReachIsPages DEF HandleSound, Tree
<1>16. Tree' = Tree /\ Image(pages', store.root) = Image(pages, store.root)
  <2>1. \A p \in Reach(pages, store.root) : pages'[p] = pages[p]
    BY <1>9, <1>15 DEF Tree
  <2>2. pages' \in [Page -> Bytes]
    BY <1>9
  <2>3. /\ Reach(pages', store.root) = Reach(pages, store.root)
        /\ Image(pages', store.root) = Image(pages, store.root)
    BY <1>5, <2>1, <2>2, ImageIsLocal
  <2> QED
    BY <1>12, <2>3 DEF Tree
<1>17. HandleSound'
  <2>1. ReusableSafely(st, Tree)
    <3>1. ReusableSafely(store, Tree)
      BY <1>3 DEF HandleSound
    <3> QED
      BY <1>5, <3>1, ReclaimedSafely DEF st
  <2>2. \A p \in Tree : pages'[p].kind = "tree"
    BY <1>3, <1>9, <1>15 DEF HandleSound
  <2> QED
    BY <1>3, <1>12, <1>16, <2>1, <2>2 DEF HandleSound
<1>18. /\ Settled = meta /\ Settled' = meta
       /\ \A i \in Slot : Published(i)' = Published(i)
  BY <1>3, <1>13 DEF Settled, Published
<1>19. RecordsOrdered'
  BY <1>3, <1>4, <1>12, <1>18 DEF RecordsOrdered
<1>20. ChainsRetireTrees'
  <2>1. /\ ChainsFrom(pages', pages, disk.pages, store.nextPage)
        /\ ChainsFrom(disk'.pages, pages, disk.pages, store.nextPage)
    BY <1>3, <1>5, <1>9 DEF ChainsFrom
  <2>2. \A i \in Slot : \A m \in Published(i)' : m \in Published(i) /\ m.nextPage <= store.nextPage
    BY <1>3, <1>4, <1>18 DEF RecordsOrdered
  <2>3. \A i \in Slot : \A m \in Published(i)', P, Q \in {pages', disk'.pages} :
           RetiresTrees(m, P, Q)
    BY <1>4, <1>5, <2>1, <2>2, ChainsKept
  <2>4. \A r \in store.retired : r.id \in Page /\ r.id < store.nextPage
    <3>1. \A r \in store.retired : r.id \in FirstPage..(store.nextPage - 1)
      BY <1>3 DEF HandleSound, ReusableSafely, RetiredIds
    <3> QED
      BY <1>5, <3>1, PageNumbers
  <2>5. \A r \in store'.retired : pages'[r.id].kind # "chain"
    BY <1>3, <1>4, <1>9, <1>12, <2>4 DEF ChainsRetireTrees
  <2> QED
    BY <2>3, <2>5 DEF ChainsRetireTrees
<1>21. MetadataRecords(store') = records
  BY <1>3 DEF records
<1>22. SyncSound'
  <2>1. sync'.previous = Settled'[MetaSlot(store')]
    BY <1>12, <1>13, <1>18 DEF MetaSlot
  <2>2. Readers' = Readers
    BY <1>3 DEF Readers
  <2>3. /\ sync'.nextPage >= store'.nextPage
        /\ sync'.chain = store'.nextPage..(sync'.nextPage - 1)
    BY <1>8, <1>12, <1>13
  <2>4. /\ \A p \in sync'.chain : pages'[p].kind = "chain"
        /\ UNION {pages'[p].records : p \in sync'.chain} = MetadataRecords(store')
        /\ MetadataRecords(store') = {} => sync'.chain = {}
    BY <1>9, <1>10, <1>11, <1>13, <1>21
  <2>5. /\ status' = "open"
        /\ sync'.closing => Readers' = {}
        /\ dirty' = sync'.dirty \union sync'.chain
    BY <1>3, <1>13, <2>2
  <2> QED
    BY <1>13, <2>1, <2>3, <2>4, <2>5 DEF SyncSound
<1>23. DirtySound'
  <2>1. Known' = Known
    BY <1>3 DEF Known
  <2>2. ASSUME Known, NEW p \in Tree', disk'.pages[p] # pages'[p]
        PROVE  p \in dirty
    <3>1. p \in Tree /\ disk.pages[p] # pages[p]
      BY <1>3, <1>9, <1>15, <1>16, <2>2
    <3> QED
      BY <1>3, <1>4, <2>2, <3>1 DEF DirtySound
  <2> QED
    BY <1>13, <2>1, <2>2 DEF DirtySound
<1>24. ASSUME Known, durable.linked, durable.quiet \/ durable.record.revision \in Readers
       PROVE  /\ DurableKept'
              /\ Reach(pages', durable.record.root) \subseteq
                    Tree' \union RetiredIds({r \in store'.retired :
                                              r.revision >= durable.record.revision})
              /\ durable.record.chain \intersect store'.free = {}
  <2> DEFINE old == {r \in store.retired : r.revision >= durable.record.revision}
             new == {r \in store'.retired : r.revision >= durable.record.revision}
             reached == Reach(pages, durable.record.root)
  <2>1. /\ DurableKept
        /\ reached \subseteq Tree \union RetiredIds(old)
        /\ durable.record.chain \intersect store.free = {}
        /\ durable.quiet => store.root = durable.record.root
    BY <1>3, <1>4, <1>24 DEF DurableSound
  <2>2. /\ durable.record.chain \subseteq Page
        /\ \A p \in durable.record.chain : p < store.nextPage
    BY <1>3, <1>24, DurableRecord
  <2>3. RetiredIds(store.retired) \subseteq FirstPage..(store.nextPage - 1)
    BY <1>3 DEF HandleSound, ReusableSafely
  <2>4. RetiredIds(old) \subseteq RetiredIds(store.retired)
    BY DEF RetiredIds
  <2>5. \A p \in RetiredIds(store.retired) : p \in Page /\ p < store.nextPage
    BY <1>5, <2>3, PageNumbers
  <2>6. \A p \in reached \union durable.record.chain : p \in Page /\ p < store.nextPage
    BY <1>15, <2>1, <2>2, <2>4, <2>5
  <2>7. \A p \in reached \union durable.record.chain :
           pages'[p] = pages[p] /\ disk'.pages[p] = pages[p]
    BY <1>3, <1>9, <2>1, <2>6 DEF DurableKept
  <2>8. DurableKept' /\ Reach(pages', durable.record.root) = reached
    BY <1>3, <1>14, <1>24, <2>1, <2>7, DurableBytesKept
  <2>9. reached \subseteq Tree' \union RetiredIds(new)
    <3>1. CASE closing
      <4>1. durable.quiet
        BY <1>3, <1>24, <3>1
      <4> QED
        BY <1>16, <2>1, <4>1 DEF Tree
    <3>2. CASE ~closing
      BY <1>3, <1>6, <1>16, <2>1, <3>2
    <3> QED
      BY <3>1, <3>2
  <2>10. durable.record.chain \intersect store'.free = {}
    <3>1. \A p \in durable.record.chain : pages[p].kind = "chain"
      BY <2>1 DEF DurableKept, SoundRecord, ResolvedChain
    <3>2. \A r \in store.retired : pages[r.id].kind # "chain"
      BY <1>3, <1>4 DEF ChainsRetireTrees
    <3> QED
      BY <1>12, <2>1, <3>1, <3>2
  <2> QED
    BY <2>8, <2>9, <2>10
<1>25. DurableSound'
  <2>1. Known' = Known /\ Readers' = Readers /\ disk'.meta = disk.meta /\ Settled' = Settled
        /\ DurableNewest(Settled)' = DurableNewest(Settled)
    BY <1>3, <1>18 DEF Known, Readers, DurableNewest, DurableSlot
  <2> QED
    BY <1>3, <1>4, <1>12, <1>24, <2>1, Zenon DEF DurableSound
<1>26. DownSound'
  BY <1>3, <1>4 DEF DownSound
<1> QED
  BY <1>14, <1>17, <1>19, <1>20, <1>22, <1>23, <1>25, <1>26 DEF FileSound

LEMMA SyncStoreFields ==
    ASSUME TypeOK
    PROVE  /\ SyncStore \in Stores
           /\ SyncStore.root = store.root /\ SyncStore.length = store.length
           /\ SyncStore.revision = store.revision
           /\ SyncStore.nextPage = sync.nextPage /\ SyncStore.chain = sync.chain
           /\ SyncStore.free = store.free /\ SyncStore.retired = store.retired
           /\ MetadataRecords(SyncStore) = MetadataRecords(store)
<1>1. /\ store \in Stores /\ sync.nextPage \in FirstPage..(MaxPage + 1)
      /\ sync.chain \in SUBSET Page
  BY DEF TypeOK
<1>2. SyncStore = [store EXCEPT !.nextPage = sync.nextPage, !.chain = sync.chain]
  BY DEF SyncStore
<1>3. /\ SyncStore.root = store.root /\ SyncStore.length = store.length
      /\ SyncStore.revision = store.revision
      /\ SyncStore.nextPage = sync.nextPage /\ SyncStore.chain = sync.chain
      /\ SyncStore.free = store.free /\ SyncStore.retired = store.retired
  BY <1>1, <1>2 DEF Stores
<1>4. SyncStore \in Stores
  BY <1>1, <1>2 DEF Stores
<1>5. MetadataRecords(SyncStore) = MetadataRecords(store)
  BY <1>3 DEF MetadataRecords
<1> QED
  BY <1>3, <1>4, <1>5

\* What a Sync in progress publishes is what recovery accepts.
LEMMA PreparedIsPublishable ==
    ASSUME TypeOK, HandleSound, SyncSound, sync.phase # "none"
    PROVE  Publishable(pages, SyncStore)
<1>1. /\ status = "open"
      /\ sync.nextPage >= store.nextPage
      /\ sync.chain = store.nextPage..(sync.nextPage - 1)
      /\ \A p \in sync.chain : pages[p].kind = "chain"
      /\ UNION {pages[p].records : p \in sync.chain} = MetadataRecords(store)
      /\ MetadataRecords(store) = {} => sync.chain = {}
  BY DEF SyncSound
<1>2. /\ \A p \in Tree : pages[p].kind = "tree"
      /\ Tree \subseteq FirstPage..(store.nextPage - 1)
      /\ ValidTree(store.root, store.length, Image(pages, store.root))
      /\ ReusableSafely(store, Tree)
  BY <1>1 DEF HandleSound
<1>3. /\ SyncStore \in Stores
      /\ SyncStore.root = store.root /\ SyncStore.length = store.length
      /\ SyncStore.revision = store.revision
      /\ SyncStore.nextPage = sync.nextPage /\ SyncStore.chain = sync.chain
      /\ SyncStore.free = store.free /\ SyncStore.retired = store.retired
      /\ MetadataRecords(SyncStore) = MetadataRecords(store)
  BY SyncStoreFields
<1>4. /\ store.nextPage \in Int /\ sync.nextPage \in Int /\ store.nextPage >= FirstPage
      /\ FirstPage = 2
  BY PageNumbers, PageBounds DEF TypeOK, Stores
<1>5. /\ FirstPage..(store.nextPage - 1) \subseteq FirstPage..(sync.nextPage - 1)
      /\ sync.chain \subseteq FirstPage..(sync.nextPage - 1)
      /\ sync.chain \intersect (FirstPage..(store.nextPage - 1)) = {}
  BY <1>1, <1>4
<1>6. ReusableSafely(SyncStore, Tree)
  <2>1. /\ store.free \union RetiredIds(store.retired) \subseteq FirstPage..(store.nextPage - 1)
        /\ store.free \intersect RetiredIds(store.retired) = {}
        /\ \A q, r \in store.retired : q.id = r.id => q = r
        /\ (store.free \union RetiredIds(store.retired)) \intersect Tree = {}
        /\ \A r \in store.retired : r.revision \in 1..store.revision
    BY <1>2 DEF ReusableSafely
  <2>2. (store.free \union RetiredIds(store.retired)) \intersect sync.chain = {}
    BY <1>5, <2>1
  <2>3. store.free \union RetiredIds(store.retired) \subseteq FirstPage..(sync.nextPage - 1)
    BY <1>5, <2>1
  <2> QED
    BY <1>3, <2>1, <2>2, <2>3 DEF ReusableSafely
<1>7. Tree = Reach(pages, SyncStore.root)
  BY <1>3 DEF Tree
<1>8. Tree \union sync.chain \subseteq FirstPage..(sync.nextPage - 1)
      /\ Tree \intersect sync.chain = {}
  BY <1>2, <1>5
<1> QED
  BY <1>1, <1>2, <1>3, <1>6, <1>7, <1>8 DEF Publishable

\* The record that a Sync in progress writes.
LEMMA NewRecord ==
    ASSUME TypeOK, HandleSound, SyncSound, sync.phase # "none",
           NEW m, m = MetaRecord(SyncStore)
    PROVE  /\ m \in MetaRecords /\ m.kind = "meta"
           /\ m.revision = store.revision /\ m.root = store.root /\ m.length = store.length
           /\ m.nextPage = sync.nextPage /\ m.chain = sync.chain
           /\ SoundRecord(pages, FirstPage..(sync.nextPage - 1), m)
           /\ ChainRecords(pages, m) = MetadataRecords(store)
           /\ store.nextPage <= sync.nextPage
           /\ m.chain \subseteq FirstPage..(m.nextPage - 1)
           /\ m.revision % 2 = MetaSlot(store)
<1>1. /\ SyncStore \in Stores
      /\ SyncStore.root = store.root /\ SyncStore.length = store.length
      /\ SyncStore.revision = store.revision
      /\ SyncStore.nextPage = sync.nextPage /\ SyncStore.chain = sync.chain
      /\ MetadataRecords(SyncStore) = MetadataRecords(store)
  BY SyncStoreFields
<1>2. Publishable(pages, SyncStore)
  BY PreparedIsPublishable
<1>3. /\ SoundRecord(pages, FirstPage..(SyncStore.nextPage - 1), MetaRecord(SyncStore))
      /\ ChainRecords(pages, MetaRecord(SyncStore)) = MetadataRecords(SyncStore)
  BY <1>1, <1>2, WrittenRecordIsSound
<1>4. /\ m \in MetaRecords /\ m.kind = "meta"
      /\ m.revision = SyncStore.revision /\ m.root = SyncStore.root
      /\ m.length = SyncStore.length
      /\ m.nextPage = SyncStore.nextPage /\ m.chain = SyncStore.chain
  BY <1>1, RecordIsTyped
<1>5. store.nextPage <= sync.nextPage
  BY PageNumbers DEF SyncSound, TypeOK, Stores
<1>6. sync.chain \subseteq FirstPage..(sync.nextPage - 1)
  BY <1>1, <1>2 DEF Publishable
<1> QED
  BY <1>1, <1>3, <1>4, <1>5, <1>6 DEF MetaSlot

\* Flushing the pages.
LEMMA SyncDataKeeps ==
    ASSUME TypeOK, HandleSound, FileSound, SyncData
    PROVE  TypeOK' /\ HandleSound' /\ FileSound'
<1>1. /\ sync.phase = "prepared"
      /\ disk' = IF \E p \in dirty : p < sync.nextPage THEN Fsynced ELSE disk
      /\ sync' = [sync EXCEPT !.phase = "flushed"]
      /\ dirty' = {}
      /\ status' = status /\ pages' = pages /\ store' = store /\ meta' = meta
      /\ snaps' = snaps /\ durable' = durable /\ crash' = crash /\ count' = count
  BY DEF SyncData
<1>2. RecordsOrdered /\ ChainsRetireTrees /\ SyncSound /\ DirtySound /\ DurableSound /\ DownSound
  BY DEF FileSound
<1>3. /\ status = "open" /\ sync.nextPage >= store.nextPage
      /\ sync.chain = store.nextPage..(sync.nextPage - 1)
      /\ dirty = sync.dirty \union sync.chain
  BY <1>1, <1>2 DEF SyncSound
<1>4. /\ store \in Stores /\ pages \in [Page -> Bytes] /\ disk.pages \in [Page -> Bytes]
      /\ store.nextPage \in Int /\ sync.nextPage \in Int
      /\ meta \in [Slot -> MetaPages]
  BY PageNumbers DEF TypeOK, Stores
<1>5. /\ sync'.phase = "flushed" /\ sync'.nextPage = sync.nextPage /\ sync'.chain = sync.chain
      /\ sync'.closing = sync.closing /\ sync'.dirty = sync.dirty
      /\ sync'.previous = sync.previous
  BY <1>1 DEF TypeOK
<1>6. /\ disk'.pages \in {pages, disk.pages} /\ disk'.meta \in {meta, disk.meta}
      /\ disk' \in [pages : [Page -> Bytes], meta : [Slot -> MetaPages]]
      /\ (\E p \in dirty : p < sync.nextPage) => disk'.pages = pages
      /\ ~(\E p \in dirty : p < sync.nextPage) => disk'.pages = disk.pages
  BY <1>1, <1>4 DEF Fsynced, TypeOK
<1>7. TypeOK'
  BY <1>1, <1>6 DEF TypeOK
<1>8. Settled = meta /\ Settled' = meta
  BY <1>1, <1>5 DEF Settled
<1>9. \A i \in Slot : \A m \in Published(i)' : m \in Published(i)
  BY <1>6, <1>8 DEF Published
<1>10. Tree' = Tree
  BY <1>1 DEF Tree
<1>11. HandleSound'
  BY <1>1, <1>10 DEF HandleSound
<1>12. RecordsOrdered'
  <2>1. \A i \in Slot : disk'.meta[i].kind = "meta" =>
           /\ meta[i].kind = "meta"
           /\ disk'.meta[i].revision <= meta[i].revision
           /\ disk'.meta[i].nextPage <= meta[i].nextPage
    <3>1. CASE disk'.meta = meta
      <4>1. \A i \in Slot : meta[i].kind = "meta" =>
               meta[i].revision \in Int /\ meta[i].nextPage \in Int
        BY <1>8, SettledBetween, RecordFields DEF Published
      <4> QED
        BY <3>1, <4>1
    <3>2. CASE disk'.meta = disk.meta
      BY <1>2, <1>8, <3>2 DEF RecordsOrdered
    <3> QED
      BY <1>6, <3>1, <3>2
  <2> QED
    BY <1>1, <1>2, <1>8, <1>9, <2>1 DEF RecordsOrdered
<1>13. ChainsRetireTrees'
  <2>1. \A i \in Slot : \A m \in Published(i)', P, Q \in {pages', disk'.pages} :
           RetiresTrees(m, P, Q)
    BY <1>1, <1>2, <1>6, <1>9 DEF ChainsRetireTrees
  <2> QED
    BY <1>1, <1>2, <2>1 DEF ChainsRetireTrees
<1>14. SyncSound'
  <2>1. sync.chain # {} => disk'.pages = pages
    <3>1. \A p \in sync.chain : p \in dirty /\ p < sync.nextPage
      BY <1>3, <1>4
    <3> QED
      BY <1>6, <3>1
  <2>2. Readers' = Readers /\ MetaSlot(store') = MetaSlot(store)
    BY <1>1 DEF Readers
  <2> QED
    BY <1>1, <1>2, <1>5, <1>8, <2>1, <2>2 DEF SyncSound
<1>15. DirtySound'
  <2>1. Known' = Known
    BY <1>1 DEF Known
  <2>2. ASSUME Known, NEW p \in Tree, disk'.pages[p] # pages[p]
        PROVE  FALSE
    <3>1. ~(\E q \in dirty : q < sync.nextPage) /\ disk.pages[p] # pages[p]
      BY <1>6, <2>2
    <3>2. p \in dirty
      BY <1>1, <1>2, <1>3, <2>2, <3>1 DEF DirtySound
    <3>3. p \in FirstPage..(store.nextPage - 1)
      BY <1>3 DEF HandleSound
    <3>4. p < sync.nextPage
      BY <1>3, <1>4, <3>3, PageBounds
    <3> QED
      BY <3>1, <3>2, <3>4
  <2> QED
    BY <1>1, <1>10, <2>1, <2>2 DEF DirtySound
<1>16. DurableSound'
  <2>1. /\ Known' = Known /\ Readers' = Readers /\ Settled' = Settled
        /\ DurableNewest(Settled)' = DurableNewest(Settled)
    BY <1>1, <1>8 DEF Known, Readers, DurableNewest, DurableSlot
  <2>2. DurableKept => DurableKept'
    BY <1>1, <1>6 DEF DurableKept
  <2>3. Known => disk'.meta = Settled'
    BY <1>2, <1>3, <1>6, <1>8 DEF DurableSound
  <2> QED
    BY <1>1, <1>2, <1>10, <2>1, <2>2, <2>3, Zenon DEF DurableSound
<1>17. DownSound'
  BY <1>1, <1>2, <1>3 DEF DownSound
<1> QED
  BY <1>7, <1>11, <1>12, <1>13, <1>14, <1>15, <1>16, <1>17 DEF FileSound

\* Writing the meta page: the record may still be taken back.
LEMMA SyncMetaKeeps ==
    ASSUME TypeOK, HandleSound, FileSound, SyncMeta
    PROVE  TypeOK' /\ HandleSound' /\ FileSound'
<1> DEFINE m == MetaRecord(SyncStore)
           slot == MetaSlot(store)
<1>1. /\ sync.phase = "flushed"
      /\ sync' = [sync EXCEPT !.phase = "written"]
      /\ meta' = [meta EXCEPT ![slot] = m]
      /\ status' = status /\ pages' = pages /\ store' = store /\ dirty' = dirty
      /\ snaps' = snaps /\ disk' = disk /\ durable' = durable /\ crash' = crash /\ count' = count
  BY DEF SyncMeta
<1>2. RecordsOrdered /\ ChainsRetireTrees /\ SyncSound /\ DirtySound /\ DurableSound /\ DownSound
  BY DEF FileSound
<1>3. /\ status = "open" /\ slot \in Slot /\ Settled = meta
      /\ sync.previous = meta[slot]
  BY <1>1, <1>2, SettledBetween DEF SyncSound
<1>4. m \in MetaRecords
  BY <1>1, <1>2, NewRecord
<1>5. /\ sync'.phase = "written" /\ sync'.nextPage = sync.nextPage /\ sync'.chain = sync.chain
      /\ sync'.closing = sync.closing /\ sync'.dirty = sync.dirty
      /\ sync'.previous = sync.previous
  BY <1>1 DEF TypeOK
<1>6. meta \in [Slot -> MetaPages] /\ meta' \in [Slot -> MetaPages]
  BY <1>1, <1>4 DEF TypeOK, MetaPages
<1>7. TypeOK'
  BY <1>1, <1>6 DEF TypeOK
<1>8. MetaSlot(store') = slot /\ SyncStore' = SyncStore
  BY <1>1, <1>5 DEF SyncStore
<1> HIDE DEF m, slot
<1>9. Settled' = meta
  <2>1. Settled' = [meta' EXCEPT ![slot] = sync.previous]
    BY <1>5, <1>8 DEF Settled
  <2>2. \A i \in Slot : [meta' EXCEPT ![slot] = sync.previous][i] = meta[i]
    BY <1>1, <1>3, <1>6
  <2> QED
    BY <1>6, <2>1, <2>2
<1>10. \A i \in Slot : Published(i)' = Published(i)
  BY <1>1, <1>3, <1>9 DEF Published
<1>11. Tree' = Tree
  BY <1>1 DEF Tree
<1>12. HandleSound'
  BY <1>1, <1>11 DEF HandleSound
<1>13. RecordsOrdered'
  BY <1>1, <1>2, <1>3, <1>9, <1>10 DEF RecordsOrdered
<1>14. ChainsRetireTrees'
  BY <1>1, <1>2, <1>10 DEF ChainsRetireTrees
<1>15. SyncSound'
  <2>1. sync'.previous = Settled'[MetaSlot(store')]
    BY <1>3, <1>5, <1>8, <1>9
  <2>2. meta'[MetaSlot(store')] = MetaRecord(SyncStore')
    BY <1>1, <1>3, <1>6, <1>8 DEF m
  <2>3. Readers' = Readers
    BY <1>1 DEF Readers
  <2> QED
    BY <1>1, <1>2, <1>5, <2>1, <2>2, <2>3 DEF SyncSound
<1>16. DirtySound'
  <2>1. Known' = Known
    BY <1>1 DEF Known
  <2> QED
    BY <1>1, <1>2, <1>3, <1>11, <2>1 DEF DirtySound
<1>17. DurableSound'
  <2>1. /\ Known' = Known /\ Readers' = Readers /\ DurableKept' = DurableKept
        /\ DurableNewest(Settled)' = DurableNewest(Settled)
    BY <1>1, <1>3, <1>9 DEF Known, Readers, DurableKept, DurableNewest, DurableSlot
  <2> QED
    BY <1>1, <1>2, <1>3, <1>9, <1>11, <2>1, Zenon DEF DurableSound
<1>18. DownSound'
  BY <1>1, <1>2, <1>3 DEF DownSound
<1> QED
  BY <1>7, <1>12, <1>13, <1>14, <1>15, <1>16, <1>17, <1>18 DEF FileSound

----------------------------------------------------------------------------
(* What recovery may find *)

\* The record that a Sync in progress writes retires no page of a chain.
LEMMA NewRecordRetiresTrees ==
    ASSUME TypeOK, HandleSound, SyncSound, ChainsRetireTrees, sync.phase # "none",
           sync.chain # {} => disk.pages = pages
    PROVE  AllRetireTrees(MetaRecord(SyncStore), pages, disk.pages)
<1> DEFINE m == MetaRecord(SyncStore)
<1>1. /\ m.chain = sync.chain /\ m.nextPage = sync.nextPage
      /\ store.nextPage <= sync.nextPage /\ status = "open"
      /\ \A p \in sync.chain : pages[p].kind = "chain"
      /\ UNION {pages[p].records : p \in sync.chain} = MetadataRecords(store)
  BY NewRecord DEF SyncSound
<1> HIDE DEF m
<1>2. CASE sync.chain = {}
  BY <1>1, <1>2 DEF AllRetireTrees, RetiresTrees, m
<1>3. CASE sync.chain # {}
  <2>1. ASSUME NEW p \in sync.chain, NEW r \in pages[p].records, r.revision # 0
        PROVE  r.id < m.nextPage /\ pages[r.id].kind # "chain"
    <3>1. r \in MetadataRecords(store)
      BY <1>1, <2>1
    <3>2. r \in store.retired
      BY <2>1, <3>1 DEF MetadataRecords
    <3>3. r.id \in FirstPage..(store.nextPage - 1)
      BY <1>1, <3>2 DEF HandleSound, ReusableSafely, RetiredIds
    <3>4. store.nextPage \in Int /\ sync.nextPage \in Int /\ FirstPage \in Int
      BY PageNumbers, PageBounds DEF TypeOK, Stores
    <3>5. r.id < m.nextPage
      BY <1>1, <3>3, <3>4
    <3> QED
      BY <1>1, <3>2, <3>5 DEF ChainsRetireTrees
  <2>2. RetiresTrees(m, pages, pages)
    BY <1>1, <2>1 DEF RetiresTrees
  <2> QED
    BY <1>3, <2>2 DEF AllRetireTrees, m
<1> QED
  BY <1>2, <1>3

\* The records that are in the mapping, on disk, or about to be taken back.
Possible(i) == {m \in {Settled[i], disk.meta[i], meta[i]} : m.kind = "meta"}

SoundPossible(i) ==
    \A m \in Possible(i) :
        /\ m \in MetaRecords /\ m.revision % 2 = i
        /\ m.chain \subseteq FirstPage..(m.nextPage - 1)
        /\ AllRetireTrees(m, pages, disk.pages)
        /\ m.revision <= store.revision

OrderedPossible ==
    /\ \A i, j \in Slot : \A x \in Possible(i), y \in Possible(j) :
          x.revision < y.revision => x.nextPage <= y.nextPage
    /\ \A i \in Slot : disk.meta[i].kind = "meta" =>
          /\ meta[i].kind = "meta"
          /\ disk.meta[i].revision <= meta[i].revision
          /\ disk.meta[i].nextPage <= meta[i].nextPage

LEMMA PossibleRecords ==
    ASSUME TypeOK, HandleSound, FileSound, status = "open"
    PROVE  (\A i \in Slot : SoundPossible(i)) /\ OrderedPossible
<1>1. RecordsOrdered /\ ChainsRetireTrees /\ SyncSound
  BY DEF FileSound
<1>2. /\ Settled \in [Slot -> MetaPages] /\ MetaSlot(store) \in Slot
      /\ \A i \in Slot : \A m \in Published(i) : m \in MetaRecords /\ m.kind = "meta"
      /\ meta \in [Slot -> MetaPages]
  BY SettledBetween DEF TypeOK
<1>3. \A i \in Slot : \A m \in Published(i) :
         /\ m \in MetaRecords /\ m.revision % 2 = i
         /\ m.chain \subseteq FirstPage..(m.nextPage - 1)
         /\ AllRetireTrees(m, pages, disk.pages)
         /\ m.revision <= store.revision /\ m.nextPage <= store.nextPage
         /\ m.revision \in Int /\ m.nextPage \in Int
  <2>1. \A i \in Slot : \A m \in Published(i) :
           /\ m.revision % 2 = i
           /\ m.chain \subseteq FirstPage..(m.nextPage - 1)
           /\ m.revision <= store.revision /\ m.nextPage <= store.nextPage
    BY <1>1 DEF RecordsOrdered
  <2>2. \A i \in Slot : \A m \in Published(i) : AllRetireTrees(m, pages, disk.pages)
    BY <1>1 DEF ChainsRetireTrees, AllRetireTrees
  <2> QED
    BY <1>2, <2>1, <2>2, RecordFields
<1>4. CASE sync.phase # "written"
  <2>1. Settled = meta
    BY <1>4, SettledBetween
  <2>2. \A i \in Slot : Possible(i) = Published(i)
    BY <2>1 DEF Possible, Published
  <2>3. \A i \in Slot : SoundPossible(i)
    BY <1>3, <2>2 DEF SoundPossible
  <2>4. OrderedPossible
    BY <1>1, <2>1, <2>2 DEF OrderedPossible, RecordsOrdered
  <2> QED
    BY <2>3, <2>4
<1>5. CASE sync.phase = "written"
  <2> DEFINE new == MetaRecord(SyncStore)
             slot == MetaSlot(store)
  <2>1. /\ new \in MetaRecords /\ new.kind = "meta" /\ new.revision = store.revision
        /\ new.nextPage = sync.nextPage /\ store.nextPage <= sync.nextPage
        /\ new.chain \subseteq FirstPage..(new.nextPage - 1)
        /\ new.revision % 2 = slot
    BY <1>1, <1>5, NewRecord
  <2>2. AllRetireTrees(new, pages, disk.pages)
    BY <1>1, <1>5, NewRecordRetiresTrees DEF SyncSound
  <2>3. meta[slot] = new
    BY <1>1, <1>5 DEF SyncSound
  <2>4. \A i \in Slot : i # slot => Settled[i] = meta[i]
    BY <1>2, <1>5 DEF Settled
  <2>5. /\ store.revision \in Int /\ store.nextPage \in Int /\ sync.nextPage \in Int
        /\ new.revision \in Int
    BY <2>1, PageNumbers DEF TypeOK, Stores
  <2> HIDE DEF new, slot
  <2>6. \A i \in Slot : \A m \in Possible(i) : m \in Published(i) \/ (i = slot /\ m = new)
    BY <2>3, <2>4 DEF Possible, Published
  <2>7. \A i \in Slot : SoundPossible(i)
    <3>1. new.revision <= store.revision
      BY <2>1, <2>5
    <3> QED
      BY <1>3, <2>1, <2>2, <2>6, <3>1 DEF SoundPossible
  <2>8. ASSUME NEW i \in Slot, NEW j \in Slot, NEW x \in Possible(i), NEW y \in Possible(j),
               x.revision < y.revision
        PROVE  x.nextPage <= y.nextPage
    <3>1. CASE x \in Published(i) /\ y \in Published(j)
      BY <1>1, <2>8, <3>1 DEF RecordsOrdered
    <3>2. CASE x \in Published(i) /\ y = new
      BY <1>3, <2>1, <2>5, <3>2
    <3>3. CASE x = new
      <4>1. y.revision <= store.revision /\ y.revision \in Int
        BY <2>7, RecordFields DEF SoundPossible
      <4> QED
        BY <2>1, <2>5, <2>8, <3>3, <4>1
    <3> QED
      BY <2>6, <3>1, <3>2, <3>3
  <2>9. ASSUME NEW i \in Slot, disk.meta[i].kind = "meta"
        PROVE  /\ meta[i].kind = "meta"
               /\ disk.meta[i].revision <= meta[i].revision
               /\ disk.meta[i].nextPage <= meta[i].nextPage
    <3>1. CASE i # slot
      BY <1>1, <2>4, <2>9, <3>1 DEF RecordsOrdered
    <3>2. CASE i = slot
      <4>1. disk.meta[i] \in Published(i)
        BY <2>9 DEF Published
      <4> QED
        BY <1>3, <2>1, <2>3, <2>5, <3>2, <4>1
    <3> QED
      BY <3>1, <3>2
  <2>10. OrderedPossible
    BY <2>8, <2>9 DEF OrderedPossible
  <2> QED
    BY <2>7, <2>10
<1> QED
  BY <1>4, <1>5

\* A record is found where its slot is the newest and its pages are in place.
LEMMA FoundRecord ==
    ASSUME NEW P \in [Page -> Bytes], NEW Q \in [Page -> Bytes], NEW m \in MetaRecords,
           NEW metas, NEW i \in Slot, metas[i] = m, m.revision % 2 = i,
           \A j \in Slot : metas[j].kind = "meta" => metas[j].revision <= m.revision,
           SoundRecord(Q, FirstPage..(m.nextPage - 1), m),
           \A p \in Reach(Q, m.root) \union m.chain : P[p] = Q[p],
           Linked(m.root, Image(Q, m.root))
    PROVE  /\ Newest(metas, i) /\ Usable(P, metas, i)
           /\ Image(P, m.root) = Image(Q, m.root)
<1>1. m.kind = "meta" /\ m.nextPage \in FirstPage..(MaxPage + 1) /\ m.nextPage \in Int
  BY RecordFields
<1>2. i \in Candidates(metas)
  BY <1>1 DEF Candidates
<1>3. Newest(metas, i)
  BY <1>2 DEF Newest, Candidates
<1>4. FirstPage..(m.nextPage - 1) \subseteq Listed(metas)
  <2>1. \A p \in FirstPage..(m.nextPage - 1) : p \in Page /\ p < m.nextPage
    BY <1>1, PageNumbers, PageBounds
  <2> QED
    BY <1>2, <2>1 DEF Listed
<1>5. /\ SoundRecord(P, Listed(metas), m)
      /\ Image(P, m.root) = Image(Q, m.root)
  <2> DEFINE L == FirstPage..(m.nextPage - 1)
             M == Listed(metas)
  <2>1. SoundRecord(Q, L, m) /\ L \subseteq M
    BY <1>4
  <2> HIDE DEF L, M
  <2>2. SoundRecord(P, M, m) /\ Image(P, m.root) = Image(Q, m.root)
    BY <2>1, RecordIsLocal
  <2> QED
    BY <2>2 DEF M
<1>6. Usable(P, metas, i)
  BY <1>5 DEF Usable
<1> QED
  BY <1>3, <1>5, <1>6

\* The obsolete pages of chains can be handed out.
LEMMA ObsoleteIsFree ==
    ASSUME NEW P, NEW metas, NEW st \in Stores, NEW reached, ReusableSafely(st, reached),
           \A p \in reached : P[p].kind = "tree",
           \A r \in st.retired : P[r.id].kind # "chain",
           NEW new, new = [st EXCEPT !.free = @ \union Obsolete(P, metas, st)]
    PROVE  /\ new \in Stores
           /\ new.root = st.root /\ new.length = st.length /\ new.revision = st.revision
           /\ new.nextPage = st.nextPage /\ new.chain = st.chain /\ new.retired = st.retired
           /\ new.free = st.free \union Obsolete(P, metas, st)
           /\ ReusableSafely(new, reached)
<1> DEFINE gone == Obsolete(P, metas, st)
<1>1. /\ gone \subseteq FirstPage..(st.nextPage - 1)
      /\ gone \intersect st.chain = {}
      /\ \A p \in gone : P[p].kind = "chain"
  BY DEF Obsolete
<1>2. gone \subseteq Page
  BY <1>1, PageNumbers DEF Stores
<1> HIDE DEF gone
<1>3. new = [st EXCEPT !.free = st.free \union gone]
  BY DEF gone
<1>4. /\ new.root = st.root /\ new.length = st.length /\ new.revision = st.revision
      /\ new.nextPage = st.nextPage /\ new.chain = st.chain /\ new.retired = st.retired
      /\ new.free = st.free \union gone
  BY <1>3 DEF Stores
<1>5. new \in Stores
  BY <1>2, <1>3 DEF Stores
<1>6. gone \intersect RetiredIds(st.retired) = {} /\ gone \intersect reached = {}
  BY <1>1 DEF RetiredIds
<1>7. ReusableSafely(new, reached)
  BY <1>1, <1>4, <1>6 DEF ReusableSafely
<1> QED
  BY <1>4, <1>5, <1>7 DEF gone

\* The meta page reaches the disk.
LEMMA SyncEndKeeps ==
    ASSUME TypeOK, HandleSound, FileSound, SyncEnd
    PROVE  TypeOK' /\ HandleSound' /\ FileSound'
<1> DEFINE m == MetaRecord(SyncStore)
           slot == MetaSlot(store)
           gone == Obsolete(pages, meta, SyncStore)
<1>1. /\ sync.phase = "written"
      /\ disk' = Fsynced
      /\ store' = [SyncStore EXCEPT !.free = @ \union Obsolete(pages, meta, SyncStore)]
      /\ durable' = [record |-> meta[MetaSlot(store)], image |-> Image(pages, store.root),
                     linked |-> Linked(store.root, Image(pages, store.root)), quiet |-> TRUE]
      /\ status' = IF sync.closing THEN "down" ELSE "open"
      /\ sync' = NoSync
      /\ pages' = pages /\ meta' = meta /\ dirty' = dirty /\ snaps' = snaps
      /\ crash' = crash /\ count' = count
  BY DEF SyncEnd
<1>2. RecordsOrdered /\ ChainsRetireTrees /\ SyncSound /\ DirtySound /\ DurableSound /\ DownSound
  BY DEF FileSound
<1>3. /\ status = "open" /\ slot \in Slot /\ meta[slot] = m
      /\ sync.chain = store.nextPage..(sync.nextPage - 1)
  BY <1>1, <1>2, SettledBetween DEF SyncSound
<1>4. /\ store \in Stores /\ pages \in [Page -> Bytes] /\ meta \in [Slot -> MetaPages]
      /\ store.nextPage \in Int /\ sync.nextPage \in Int /\ store.revision \in Int
      /\ store.root \in {0} \union Page
  BY PageNumbers DEF TypeOK, Stores
<1>5. /\ m \in MetaRecords /\ m.kind = "meta"
      /\ m.revision = store.revision /\ m.root = store.root /\ m.length = store.length
      /\ m.nextPage = sync.nextPage /\ m.chain = sync.chain
      /\ SoundRecord(pages, FirstPage..(m.nextPage - 1), m)
      /\ m.chain \subseteq FirstPage..(m.nextPage - 1)
      /\ m.revision % 2 = slot
  BY <1>1, <1>2, NewRecord
<1>6. /\ (\A i \in Slot : SoundPossible(i)) /\ OrderedPossible
  BY <1>3, PossibleRecords
<1>7. /\ SyncStore \in Stores
      /\ SyncStore.root = store.root /\ SyncStore.length = store.length
      /\ SyncStore.revision = store.revision
      /\ SyncStore.nextPage = sync.nextPage /\ SyncStore.chain = sync.chain
      /\ SyncStore.free = store.free /\ SyncStore.retired = store.retired
  BY SyncStoreFields
<1>8. /\ \A p \in Tree : pages[p].kind = "tree"
      /\ Tree \union sync.chain \subseteq FirstPage..(sync.nextPage - 1)
      /\ ValidTree(store.root, store.length, Image(pages, store.root))
      /\ ReusableSafely(SyncStore, Tree)
      /\ Tree \intersect sync.chain = {}
  <2>1. Publishable(pages, SyncStore)
    BY <1>1, <1>2, PreparedIsPublishable
  <2> QED
    BY <1>7, <2>1 DEF Publishable, Tree
<1>9. /\ store' \in Stores
      /\ store'.root = store.root /\ store'.length = store.length
      /\ store'.revision = store.revision /\ store'.nextPage = sync.nextPage
      /\ store'.chain = sync.chain /\ store'.retired = store.retired
      /\ store'.free = store.free \union gone
      /\ ReusableSafely(store', Tree)
  <2>1. \A r \in SyncStore.retired : pages[r.id].kind # "chain"
    BY <1>2, <1>3, <1>7 DEF ChainsRetireTrees
  <2>2. \A p \in Tree : pages[p].kind = "tree"
    BY <1>8
  <2>3. /\ store' \in Stores
        /\ store'.root = SyncStore.root /\ store'.length = SyncStore.length
        /\ store'.revision = SyncStore.revision /\ store'.nextPage = SyncStore.nextPage
        /\ store'.chain = SyncStore.chain /\ store'.retired = SyncStore.retired
        /\ store'.free = SyncStore.free \union Obsolete(pages, meta, SyncStore)
        /\ ReusableSafely(store', Tree)
    BY <1>1, <1>7, <1>8, <2>1, <2>2, ObsoleteIsFree
  <2> QED
    BY <1>7, <2>3
<1>10. gone \intersect sync.chain = {}
  BY <1>7 DEF Obsolete
<1> HIDE DEF m, slot, gone
<1>11. /\ sync'.phase = "none" /\ disk'.pages = pages /\ disk'.meta = meta
       /\ durable'.record = m /\ durable'.image = Image(pages, store.root)
       /\ durable'.linked = Linked(store.root, Image(pages, store.root))
       /\ durable'.quiet = TRUE
       /\ DOMAIN durable' = {"record", "image", "linked", "quiet"}
       /\ status' \in {"open", "down"}
  BY <1>1, <1>3 DEF NoSync, Fsynced, slot
<1>12. TypeOK'
  <2>1. disk' \in [pages : [Page -> Bytes], meta : [Slot -> MetaPages]]
    BY <1>1, <1>4 DEF Fsynced
  <2>2. sync' \in [phase : {"none", "prepared", "flushed", "written"},
                   nextPage : FirstPage..(MaxPage + 1), chain : SUBSET Page,
                   closing : BOOLEAN, dirty : SUBSET Page, previous : MetaPages]
    <3>1. FirstPage \in FirstPage..(MaxPage + 1) /\ Zero \in MetaPages
      BY PageBounds, BoundsAreNat DEF MetaPages
    <3> QED
      BY <1>1, <3>1 DEF NoSync
  <2> QED
    BY <1>1, <1>5, <1>9, <1>11, <2>1, <2>2 DEF TypeOK
<1>13. Tree' = Tree
  BY <1>1, <1>9 DEF Tree
<1>14. HandleSound'
  BY <1>1, <1>8, <1>9, <1>13 DEF HandleSound
<1>15. Settled' = meta
  BY <1>1, <1>11 DEF Settled
<1>16. \A i \in Slot : Published(i)' = {n \in {meta[i]} : n.kind = "meta"}
  BY <1>11, <1>15 DEF Published
<1>17. ASSUME NEW i \in Slot, NEW n \in Published(i)'
       PROVE  /\ n \in Possible(i) /\ n = meta[i] /\ n \in MetaRecords
              /\ n.revision \in Int /\ n.nextPage \in Int
              /\ n.revision <= store.revision /\ n.nextPage <= sync.nextPage
  <2>1. n \in Possible(i) /\ n = meta[i]
    BY <1>16 DEF Possible
  <2>2. n \in MetaRecords /\ n.revision <= store.revision
    BY <1>6, <2>1 DEF SoundPossible
  <2>3. n.revision \in Int /\ n.nextPage \in Int
    BY <2>2, RecordFields
  <2>4. n.nextPage <= sync.nextPage
    <3>1. CASE i = slot
      BY <1>3, <1>4, <1>5, <2>1, <3>1
    <3>2. CASE i # slot
      <4>1. n \in Published(i)
        BY <1>1, <1>16, <3>2 DEF Published, Settled, slot
      <4>2. n.nextPage <= store.nextPage /\ store.nextPage <= sync.nextPage
        BY <1>1, <1>2, <1>3, <4>1 DEF RecordsOrdered, SyncSound
      <4> QED
        BY <1>4, <2>3, <4>2
    <3> QED
      BY <3>1, <3>2
  <2> QED
    BY <2>1, <2>2, <2>3, <2>4
<1>18. RecordsOrdered'
  <2>1. \A i \in Slot : \A n \in Published(i)' :
           n.revision % 2 = i /\ n.chain \subseteq FirstPage..(n.nextPage - 1)
    BY <1>6, <1>17 DEF SoundPossible
  <2>2. \A i, j \in Slot : \A x \in Published(i)', y \in Published(j)' :
           x.revision < y.revision => x.nextPage <= y.nextPage
    BY <1>6, <1>17 DEF OrderedPossible
  <2>3. \A i \in Slot : meta[i].kind = "meta" =>
           meta[i].revision <= meta[i].revision /\ meta[i].nextPage <= meta[i].nextPage
    BY <1>16, <1>17
  <2>4. \A i \in Slot : \A n \in Published(i)' :
           n.revision <= store'.revision /\ n.nextPage <= store'.nextPage
    BY <1>9, <1>17
  <2> QED
    BY <1>11, <1>15, <2>1, <2>2, <2>3, <2>4 DEF RecordsOrdered
<1>19. ChainsRetireTrees'
  <2>1. \A i \in Slot : \A n \in Published(i)' : RetiresTrees(n, pages, pages)
    BY <1>6, <1>17 DEF SoundPossible, AllRetireTrees
  <2> QED
    BY <1>1, <1>2, <1>3, <1>9, <1>11, <2>1 DEF ChainsRetireTrees
<1>20. SyncSound'
  BY <1>11 DEF SyncSound
<1>21. DirtySound'
  BY <1>1, <1>11 DEF DirtySound
<1>22. Known' /\ DurableSlot' = slot
  BY <1>5, <1>11 DEF Known, Zero, DurableSlot
<1>23. ASSUME NEW j \in Slot, meta[j].kind = "meta"
       PROVE  /\ meta[j].revision <= m.revision
              /\ j # slot => meta[j].revision < m.revision
  <2>1. meta[j] \in Possible(j)
    BY <1>23 DEF Possible
  <2>2. meta[j].revision % 2 = j /\ meta[j].revision <= m.revision /\ meta[j].revision \in Int
    BY <1>5, <1>6, <2>1, RecordFields DEF SoundPossible
  <2>3. j # slot => meta[j].revision # m.revision
    BY <1>5, <2>2
  <2> QED
    BY <1>4, <1>5, <2>2, <2>3
<1>24. DurableNewest(meta)'
  <2>1. 1 - slot \in Slot /\ 1 - slot # slot
    BY <1>3 DEF Slot
  <2>2. meta[1 - slot].kind = "meta" => meta[1 - slot].revision < m.revision
    BY <1>23, <2>1
  <2> QED
    BY <1>1, <1>3, <1>11, <1>22, <2>2 DEF DurableNewest
<1>25. DurableKept'
  BY <1>1, <1>5, <1>11 DEF DurableKept
<1>26. DurableSound'
  <2>1. DurableNewest(Settled)'
    BY <1>1, <1>15, <1>24 DEF DurableNewest
  <2>2. m.chain \intersect store'.free = {}
    <3>1. store.free \subseteq FirstPage..(store.nextPage - 1)
      BY <1>3 DEF HandleSound, ReusableSafely
    <3>2. \A p \in sync.chain : p \notin store.free
      BY <1>3, <1>4, <3>1, PageBounds
    <3> QED
      BY <1>5, <1>9, <1>10, <3>2
  <2>3. Reach(pages', m.root) \subseteq Tree'
    BY <1>1, <1>5, <1>13 DEF Tree
  <2>4. m.revision <= store'.revision
    BY <1>4, <1>5, <1>9
  <2> QED
    BY <1>1, <1>5, <1>9, <1>11, <1>15, <1>25, <2>1, <2>2, <2>3, <2>4 DEF DurableSound
<1>27. DownSound'
  <2>1. ~crash'.ended
    BY <1>1, <1>2, <1>3 DEF DownSound
  <2>2. ASSUME durable'.linked
        PROVE  Recoverable(durable.record, durable.image)'
    <3>1. Linked(m.root, Image(pages, m.root))
      BY <1>5, <1>11, <2>2
    <3>2. /\ Newest(meta, slot) /\ Usable(pages, meta, slot)
      BY <1>3, <1>4, <1>5, <1>23, <3>1, FoundRecord
    <3>3. /\ meta'[slot].revision = durable'.record.revision
          /\ meta'[slot].root = durable'.record.root
          /\ meta'[slot].length = durable'.record.length
          /\ Image(pages', durable'.record.root) = durable'.image
      BY <1>1, <1>3, <1>5, <1>11
    <3> QED
      BY <1>1, <1>3, <3>2, <3>3 DEF Recoverable
  <2>3. PromisesQuiet' \/ PromisesPinned' => durable'.linked
    BY DEF PromisesQuiet, PromisesPinned
  <2>4. ~PromisesNew'
    BY <2>1 DEF PromisesNew
  <2>5. durable'.linked = Linked(durable'.record.root, durable'.image)
    BY <1>5, <1>11
  <2> QED
    BY <1>1, <1>11, <1>22, <1>24, <1>25, <2>1, <2>2, <2>3, <2>4, <2>5 DEF DownSound
<1> QED
  BY <1>12, <1>14, <1>18, <1>19, <1>20, <1>21, <1>26, <1>27 DEF FileSound

\* The durable record is found as long as its pages are in place.
LEMMA DurableFound ==
    ASSUME TypeOK, FileSound, status = "open", Known, durable.linked,
           durable.quiet \/ durable.record.revision \in Readers,
           NEW P \in [Page -> Bytes], NEW metas \in [Slot -> MetaPages], DurableNewest(metas),
           \A p \in Reach(pages, durable.record.root) \union durable.record.chain :
              P[p] = pages[p]
    PROVE  \E i \in Slot :
              /\ Newest(metas, i) /\ Usable(P, metas, i)
              /\ metas[i] = durable.record
              /\ Image(P, durable.record.root) = durable.image
<1> DEFINE m == durable.record
<1>1. m \in MetaRecords /\ m.revision \in Int /\ Linked(m.root, durable.image)
  BY DurableRecord
<1>2. DurableKept
  BY DEF FileSound, DurableSound
<1>3. /\ durable.image = Image(pages, m.root)
      /\ SoundRecord(pages, FirstPage..(m.nextPage - 1), m)
  BY <1>2 DEF DurableKept
<1>4. /\ DurableSlot \in Slot /\ m.revision % 2 = DurableSlot
      /\ \A j \in Slot : j # DurableSlot => j = 1 - DurableSlot
  BY <1>1 DEF DurableSlot, Slot
<1>5. metas[DurableSlot] = m
      /\ \A j \in Slot : metas[j].kind = "meta" => metas[j].revision <= m.revision
  <2>1. /\ metas[DurableSlot] = m
        /\ metas[1 - DurableSlot].kind = "meta" => metas[1 - DurableSlot].revision < m.revision
    BY DEF DurableNewest
  <2>2. ASSUME NEW j \in Slot, metas[j].kind = "meta"
        PROVE  metas[j].revision <= m.revision
    <3>1. CASE j = DurableSlot
      BY <1>1, <2>1, <3>1
    <3>2. CASE j # DurableSlot
      <4>1. metas[j].revision < m.revision
        BY <1>4, <2>1, <2>2, <3>2
      <4>2. metas[j].revision \in Int
        BY <2>2, RecordFields DEF MetaPages, Zero, Torn
      <4> QED
        BY <1>1, <4>1, <4>2
    <3> QED
      BY <3>1, <3>2
  <2> QED
    BY <2>1, <2>2
<1>6. pages \in [Page -> Bytes] /\ Linked(m.root, Image(pages, m.root))
  BY <1>1, <1>3 DEF TypeOK
<1> HIDE DEF m
<1>7. /\ \A p \in Reach(pages, m.root) \union m.chain : P[p] = pages[p]
  BY DEF m
<1>8. /\ Newest(metas, DurableSlot) /\ Usable(P, metas, DurableSlot)
      /\ Image(P, m.root) = Image(pages, m.root)
  BY <1>1, <1>3, <1>4, <1>5, <1>6, <1>7, FoundRecord
<1> QED
  BY <1>3, <1>4, <1>5, <1>8 DEF m

LEMMA StandingFields ==
    ASSUME TypeOK, HandleSound, SyncSound, NEW power \in BOOLEAN,
           NEW now, now = Standing(power)
    PROVE  /\ DOMAIN now = DOMAIN NotEnded
           /\ now.ended = TRUE /\ now.power = power /\ now.phase = sync.phase
           /\ now.pinned => durable.record.kind = "meta" /\ durable.record.revision \in Readers
           /\ now.inherits <=> ~Known
           /\ now.metaFlushed <=> meta = disk.meta
           /\ now.record = IF sync.phase = "none" THEN Zero ELSE MetaRecord(SyncStore)
           /\ now.record \in MetaRecords \union {Zero}
           /\ now.image = Image(pages, store.root)
           /\ now.linked = Linked(store.root, Image(pages, store.root))
<1>1. /\ DOMAIN now = DOMAIN NotEnded
      /\ now.ended = TRUE /\ now.power = power /\ now.phase = sync.phase
      /\ now.pinned => durable.record.kind = "meta" /\ durable.record.revision \in Readers
      /\ now.inherits <=> ~Known
      /\ now.metaFlushed <=> meta = disk.meta
      /\ now.record = IF sync.phase = "none" THEN Zero ELSE MetaRecord(SyncStore)
      /\ now.image = Image(pages, store.root)
      /\ now.linked = Linked(store.root, Image(pages, store.root))
  BY DEF Standing, NotEnded, Known
<1>2. sync.phase # "none" => MetaRecord(SyncStore) \in MetaRecords
  BY NewRecord
<1> QED
  BY <1>1, <1>2

\* A step of Sync fails.
LEMMA SyncFailKeeps ==
    ASSUME TypeOK, HandleSound, FileSound, SyncFail
    PROVE  TypeOK' /\ HandleSound' /\ (status' \in {"open", "down"} => FileSound')
<1> DEFINE slot == MetaSlot(store)
<1>1. /\ sync.phase # "none"
      /\ meta' = [meta EXCEPT ![slot] = sync.previous]
      /\ \E arrived \in {disk.meta[slot], meta[slot]} :
            disk' = [disk EXCEPT !.meta = [disk.meta EXCEPT ![slot] = arrived]]
      /\ status' = IF disk'.meta # meta' THEN "doubt"
                   ELSE IF sync.closing THEN "down" ELSE "open"
      /\ dirty' = IF sync.closing THEN {} ELSE sync.dirty
      /\ crash' = IF sync.closing
                  THEN [Standing(FALSE) EXCEPT !.phase = "none", !.record = Zero]
                  ELSE crash
      /\ sync' = NoSync
      /\ pages' = pages /\ store' = store /\ snaps' = snaps /\ durable' = durable
      /\ count' = count
  BY DEF SyncFail
<1>2. RecordsOrdered /\ ChainsRetireTrees /\ SyncSound /\ DirtySound /\ DurableSound /\ DownSound
  BY DEF FileSound
<1>3. /\ status = "open" /\ slot \in Slot /\ sync.previous = Settled[slot]
      /\ sync.closing => Readers = {}
      /\ sync.phase \in {"prepared", "flushed", "written"}
      /\ sync.dirty \in SUBSET Page /\ sync.closing \in BOOLEAN
  BY <1>1, <1>2, SettledBetween DEF SyncSound, TypeOK
<1>4. meta \in [Slot -> MetaPages] /\ Settled \in [Slot -> MetaPages]
      /\ disk.pages \in [Page -> Bytes] /\ disk.meta \in [Slot -> MetaPages]
      /\ pages \in [Page -> Bytes]
  BY SettledBetween DEF TypeOK
<1> HIDE DEF slot
<1>5. meta' = Settled
  <2>1. CASE sync.phase = "written"
    BY <1>1, <2>1 DEF Settled, slot
  <2>2. CASE sync.phase # "written"
    <3>1. Settled = meta
      BY <2>2 DEF Settled
    <3>2. \A i \in Slot : [meta EXCEPT ![slot] = sync.previous][i] = meta[i]
      BY <1>3, <1>4, <3>1
    <3> QED
      BY <1>1, <1>4, <3>1, <3>2
  <2> QED
    BY <2>1, <2>2
<1>6. /\ disk'.pages = disk.pages
      /\ disk' \in [pages : [Page -> Bytes], meta : [Slot -> MetaPages]]
  <2>1. PICK arrived \in {disk.meta[slot], meta[slot]} :
           disk' = [disk EXCEPT !.meta = [disk.meta EXCEPT ![slot] = arrived]]
    BY <1>1
  <2> DEFINE metas == [disk.meta EXCEPT ![slot] = arrived]
  <2>2. metas \in [Slot -> MetaPages]
    BY <1>3, <1>4
  <2>3. disk' = [disk EXCEPT !.meta = metas]
    BY <2>1
  <2> HIDE DEF metas
  <2> QED
    BY <1>4, <2>2, <2>3 DEF TypeOK
<1>7. /\ DOMAIN crash' = DOMAIN NotEnded /\ crash'.ended \in BOOLEAN /\ crash'.power \in BOOLEAN
      /\ crash'.record \in MetaRecords \union {Zero}
      /\ ~sync.closing => crash' = crash
      /\ sync.closing => crash'.ended /\ crash'.phase = "none" /\ ~crash'.pinned
  <2>1. CASE ~sync.closing
    BY <1>1, <2>1 DEF TypeOK
  <2>2. CASE sync.closing
    <3> DEFINE now == Standing(FALSE)
    <3>1. /\ DOMAIN now = DOMAIN NotEnded
          /\ now.ended = TRUE /\ now.power = FALSE
          /\ now.pinned => durable.record.revision \in Readers
      BY <1>2, StandingFields
    <3>2. crash' = [now EXCEPT !.phase = "none", !.record = Zero]
      BY <1>1, <2>2
    <3> HIDE DEF now
    <3>3. DOMAIN NotEnded = {"ended", "power", "phase", "pinned", "inherits", "metaFlushed",
                             "record", "image", "linked"}
      BY DEF NotEnded
    <3> QED
      BY <1>3, <2>2, <3>1, <3>2, <3>3
  <2> QED
    BY <2>1, <2>2
<1>8. TypeOK'
  <2>1. sync' \in [phase : {"none", "prepared", "flushed", "written"},
                   nextPage : FirstPage..(MaxPage + 1), chain : SUBSET Page,
                   closing : BOOLEAN, dirty : SUBSET Page, previous : MetaPages]
    <3>1. FirstPage \in FirstPage..(MaxPage + 1) /\ Zero \in MetaPages
      BY PageBounds, BoundsAreNat DEF MetaPages
    <3> QED
      BY <1>1, <3>1 DEF NoSync
  <2>2. dirty' \in SUBSET Page /\ status' \in {"open", "down", "refused", "doubt"}
    BY <1>1, <1>3
  <2> QED
    BY <1>1, <1>4, <1>5, <1>6, <1>7, <2>1, <2>2 DEF TypeOK
<1>9. Tree' = Tree
  BY <1>1 DEF Tree
<1>10. HandleSound'
  BY <1>1, <1>3, <1>9 DEF HandleSound
<1> SUFFICES ASSUME status' \in {"open", "down"}
             PROVE  FileSound'
  BY <1>8, <1>10
<1>11. /\ disk'.meta = Settled
       /\ status' = IF sync.closing THEN "down" ELSE "open"
  BY <1>1, <1>5
<1>12. sync'.phase = "none" /\ Settled' = Settled
  BY <1>1, <1>5 DEF NoSync, Settled
<1>13. \A i \in Slot : Published(i)' = {n \in {Settled[i]} : n.kind = "meta"}
  BY <1>11, <1>12 DEF Published
<1>14. \A i \in Slot : \A n \in Published(i)' :
          /\ n \in Published(i) /\ n = Settled[i]
          /\ n.revision \in Int /\ n.nextPage \in Int
  <2>1. \A i \in Slot : \A n \in Published(i)' : n \in Published(i) /\ n = Settled[i]
    BY <1>13 DEF Published
  <2> QED
    BY <2>1, SettledBetween, RecordFields
<1>15. RecordsOrdered'
  <2>1. \A i \in Slot : \A n \in Published(i)' :
           n.revision % 2 = i /\ n.chain \subseteq FirstPage..(n.nextPage - 1)
    BY <1>2, <1>14 DEF RecordsOrdered
  <2>2. \A i, j \in Slot : \A x \in Published(i)', y \in Published(j)' :
           x.revision < y.revision => x.nextPage <= y.nextPage
    BY <1>2, <1>14 DEF RecordsOrdered
  <2>3. \A i \in Slot : Settled[i].kind = "meta" =>
           Settled[i].revision <= Settled[i].revision /\ Settled[i].nextPage <= Settled[i].nextPage
    BY <1>13, <1>14
  <2>4. \A i \in Slot : \A n \in Published(i)' :
           n.revision <= store.revision /\ n.nextPage <= store.nextPage
    BY <1>2, <1>3, <1>14 DEF RecordsOrdered
  <2> QED
    BY <1>1, <1>11, <1>12, <2>1, <2>2, <2>3, <2>4 DEF RecordsOrdered
<1>16. ChainsRetireTrees'
  <2>1. \A i \in Slot : \A n \in Published(i)', P, Q \in {pages, disk.pages} : RetiresTrees(n, P, Q)
    BY <1>2, <1>14 DEF ChainsRetireTrees
  <2> QED
    BY <1>1, <1>2, <1>3, <1>6, <2>1 DEF ChainsRetireTrees
<1>17. SyncSound'
  BY <1>12 DEF SyncSound
<1>18. Known' = Known /\ DurableKept' = DurableKept /\ Readers' = Readers
       /\ (DurableNewest(Settled)' <=> DurableNewest(Settled))
  BY <1>1, <1>6, <1>12 DEF Known, DurableKept, Readers, DurableNewest, DurableSlot
<1>19. DirtySound'
  BY <1>1, <1>2, <1>3, <1>6, <1>9, <1>11, <1>12, <1>18 DEF DirtySound
<1>20. DurableSound'
  BY <1>1, <1>2, <1>3, <1>9, <1>11, <1>12, <1>18, Zenon DEF DurableSound
<1>21. CASE sync.closing
  <2>1. ~PromisesNew' /\ ~PromisesPinned'
    BY <1>7, <1>21 DEF PromisesNew, PromisesPinned
  <2>2. ASSUME PromisesQuiet'
        PROVE  Recoverable(durable.record, durable.image)'
    <3>1. Known /\ durable.quiet /\ durable.linked
      BY <1>1, <2>2 DEF PromisesQuiet, Known
    <3>2. DurableNewest(Settled)
      BY <1>3, <3>1, DurableRecord
    <3>3. PICK i \in Slot :
             /\ Newest(Settled, i) /\ Usable(pages, Settled, i)
             /\ Settled[i] = durable.record
             /\ Image(pages, durable.record.root) = durable.image
      BY <1>3, <1>4, <3>1, <3>2, DurableFound
    <3> QED
      BY <1>1, <1>5, <3>3 DEF Recoverable
  <2>3. DownSound'
    BY <1>7, <1>11, <1>12, <1>21, <2>1, <2>2 DEF DownSound
  <2> QED
    BY <1>15, <1>16, <1>17, <1>19, <1>20, <2>3 DEF FileSound
<1>22. CASE ~sync.closing
  <2>1. DownSound'
    BY <1>2, <1>3, <1>7, <1>11, <1>22 DEF DownSound
  <2> QED
    BY <1>15, <1>16, <1>17, <1>19, <1>20, <2>1 DEF FileSound
<1> QED
  BY <1>21, <1>22

----------------------------------------------------------------------------
(* The end of the process and of power *)

\* The record that a Sync has written is found as long as its pages are in place.
LEMMA NewFound ==
    ASSUME TypeOK, HandleSound, FileSound, sync.phase = "written",
           Linked(store.root, Image(pages, store.root)),
           NEW P \in [Page -> Bytes], NEW metas, NEW m, m = MetaRecord(SyncStore),
           metas[MetaSlot(store)] = m,
           \A j \in Slot : metas[j].kind = "meta" => metas[j].revision <= store.revision,
           \A p \in Tree \union sync.chain : P[p] = pages[p]
    PROVE  \E i \in Slot :
              /\ Newest(metas, i) /\ Usable(P, metas, i)
              /\ metas[i] = m
              /\ Image(P, store.root) = Image(pages, store.root)
<1>1. /\ m \in MetaRecords
      /\ m.revision = store.revision /\ m.root = store.root
      /\ m.nextPage = sync.nextPage /\ m.chain = sync.chain
      /\ SoundRecord(pages, FirstPage..(m.nextPage - 1), m)
      /\ m.revision % 2 = MetaSlot(store)
  BY NewRecord DEF FileSound
<1>2. MetaSlot(store) \in Slot
  BY SettledBetween
<1>3. pages \in [Page -> Bytes]
  BY DEF TypeOK
<1>4. \A j \in Slot : metas[j].kind = "meta" => metas[j].revision <= m.revision
  BY <1>1
<1>5. \A p \in Reach(pages, m.root) \union m.chain : P[p] = pages[p]
  BY <1>1 DEF Tree
<1>6. Linked(m.root, Image(pages, m.root))
  BY <1>1
<1> DEFINE slot == MetaSlot(store)
<1>7. slot \in Slot /\ metas[slot] = m /\ m.revision % 2 = slot
  BY <1>1, <1>2
<1> HIDE DEF slot
<1>8. /\ Newest(metas, slot) /\ Usable(P, metas, slot)
      /\ Image(P, m.root) = Image(pages, m.root)
  BY <1>1, <1>3, <1>4, <1>5, <1>6, <1>7, FoundRecord
<1> QED
  BY <1>1, <1>7, <1>8

\* The file after an end, as far as every end leaves it alike.
Stops ==
    /\ Down
    /\ \E power \in BOOLEAN : crash' = Standing(power)
    /\ durable' = durable
    /\ pages' \in [Page -> Bytes] /\ meta' \in [Slot -> MetaPages]
    /\ disk' \in [pages : [Page -> Bytes], meta : [Slot -> MetaPages]]
    /\ \A p \in Page : pages'[p] \in {pages[p], disk.pages[p], Torn}
                       /\ disk'.pages[p] \in {pages[p], disk.pages[p], Torn}
    /\ \A i \in Slot : \A m \in {meta'[i], disk'.meta[i]} : m.kind = "meta" => m \in Possible(i)
    /\ \A i \in Slot : disk'.meta[i].kind = "meta" =>
          /\ meta'[i].kind = "meta"
          /\ disk'.meta[i].revision <= meta'[i].revision
          /\ disk'.meta[i].nextPage <= meta'[i].nextPage

LEMMA StopsKeep ==
    ASSUME TypeOK, HandleSound, FileSound, Stops,
           PromisesQuiet' \/ PromisesPinned' => Recoverable(durable.record, durable.image)',
           PromisesNew' => Recoverable(crash.record, crash.image)'
    PROVE  TypeOK' /\ HandleSound' /\ FileSound'
<1>1. PICK power \in BOOLEAN : crash' = Standing(power)
  BY DEF Stops
<1>2. /\ status = "open" /\ status' = "down" /\ store' = NewStore /\ dirty' = {}
      /\ count' = [count EXCEPT !.ends = @ + 1]
      /\ snaps' = [s \in Snap |-> NoRevision] /\ sync' = NoSync /\ durable' = durable
  BY DEF Stops, Down
<1>3. SyncSound
  BY DEF FileSound
<1>4. /\ DOMAIN crash' = DOMAIN NotEnded /\ crash'.ended = TRUE /\ crash'.power \in BOOLEAN
      /\ crash'.record \in MetaRecords \union {Zero}
  BY <1>1, <1>3, StandingFields
<1>5. TypeOK'
  <2>1. FirstPage \in FirstPage..(MaxPage + 1) /\ Zero \in MetaPages /\ 0 \in Revision
    BY PageBounds, BoundsAreNat DEF MetaPages
  <2>2. sync' \in [phase : {"none", "prepared", "flushed", "written"},
                   nextPage : FirstPage..(MaxPage + 1), chain : SUBSET Page,
                   closing : BOOLEAN, dirty : SUBSET Page, previous : MetaPages]
    BY <1>2, <2>1 DEF NoSync
  <2>3. store' \in Stores
    BY <1>2, <2>1, EmptyIsTree DEF NewStore, Stores
  <2>4. snaps' \in [Snap -> {NoRevision} \union Revision]
    BY <1>2
  <2>5. count' \in [syncs : Nat, ends : Nat]
    BY <1>2 DEF TypeOK
  <2>6. /\ pages' \in [Page -> Bytes] /\ meta' \in [Slot -> MetaPages]
        /\ disk' \in [pages : [Page -> Bytes], meta : [Slot -> MetaPages]]
    BY DEF Stops
  <2>7. dirty' \in SUBSET Page
    BY <1>2
  <2> QED
    BY <1>2, <1>4, <2>2, <2>3, <2>4, <2>5, <2>6, <2>7 DEF TypeOK
<1>6. HandleSound'
  BY <1>2 DEF HandleSound
<1>7. Settled' = meta'
  BY <1>2 DEF Settled, NoSync
<1>8. /\ (\A i \in Slot : SoundPossible(i)) /\ OrderedPossible
  BY <1>2, PossibleRecords
<1>9. \A i \in Slot : \A m \in Published(i)' : m \in Possible(i)
  BY <1>7 DEF Published, Stops
<1>10. RecordsOrdered'
  <2>1. \A i \in Slot : \A m \in Published(i)' :
           m.revision % 2 = i /\ m.chain \subseteq FirstPage..(m.nextPage - 1)
    BY <1>8, <1>9 DEF SoundPossible
  <2>2. \A i, j \in Slot : \A x \in Published(i)', y \in Published(j)' :
           x.revision < y.revision => x.nextPage <= y.nextPage
    BY <1>8, <1>9 DEF OrderedPossible
  <2>3. \A i \in Slot : disk'.meta[i].kind = "meta" =>
           /\ meta'[i].kind = "meta"
           /\ disk'.meta[i].revision <= meta'[i].revision
           /\ disk'.meta[i].nextPage <= meta'[i].nextPage
    BY DEF Stops
  <2> QED
    BY <1>2, <1>7, <2>1, <2>2, <2>3 DEF RecordsOrdered
<1>11. ChainsRetireTrees'
  <2> SUFFICES ASSUME NEW i \in Slot, NEW m \in Published(i)',
                      NEW P \in {pages', disk'.pages}, NEW Q \in {pages', disk'.pages}
               PROVE  RetiresTrees(m, P, Q)
    BY <1>2 DEF ChainsRetireTrees
  <2>1. /\ m \in MetaRecords /\ m.chain \subseteq FirstPage..(m.nextPage - 1)
        /\ AllRetireTrees(m, pages, disk.pages)
    BY <1>8, <1>9 DEF SoundPossible
  <2>2. /\ ChainsFrom(P, pages, disk.pages, m.nextPage)
        /\ ChainsFrom(Q, pages, disk.pages, m.nextPage)
    <3>1. \A p \in Page : /\ P[p] \in {pages[p], disk.pages[p], Torn}
                          /\ Q[p] \in {pages[p], disk.pages[p], Torn}
      BY DEF Stops
    <3>2. P \in [Page -> Bytes] /\ Q \in [Page -> Bytes]
      BY DEF Stops
    <3>3. Torn.kind # "chain"
      BY DEF Torn
    <3> QED
      BY <3>1, <3>2, <3>3 DEF ChainsFrom
  <2> QED
    BY <2>1, <2>2, MixedRetireTrees
<1>12. SyncSound' /\ DirtySound' /\ DurableSound'
  BY <1>2 DEF SyncSound, DirtySound, DurableSound, NoSync
<1>13. DownSound'
  BY <1>2, <1>4 DEF DownSound, NoSync
<1> QED
  BY <1>5, <1>6, <1>10, <1>11, <1>12, <1>13 DEF FileSound

\* The process is killed.
LEMMA ProcessCrashKeeps ==
    ASSUME TypeOK, HandleSound, FileSound, ProcessCrash
    PROVE  TypeOK' /\ HandleSound' /\ FileSound'
<1> DEFINE m == MetaRecord(SyncStore)
           slot == MetaSlot(store)
<1>1. /\ crash' = Standing(FALSE) /\ Down
      /\ pages' = pages /\ meta' = meta /\ disk' = disk /\ durable' = durable
  BY DEF ProcessCrash
<1>2. status = "open"
  BY <1>1 DEF Down
<1>3. RecordsOrdered /\ ChainsRetireTrees /\ SyncSound /\ DirtySound /\ DurableSound
  BY DEF FileSound
<1>4. /\ pages \in [Page -> Bytes] /\ meta \in [Slot -> MetaPages]
      /\ disk \in [pages : [Page -> Bytes], meta : [Slot -> MetaPages]]
      /\ slot \in Slot
  BY SettledBetween DEF TypeOK
<1>5. /\ crash'.phase = sync.phase
      /\ crash'.pinned => durable.record.kind = "meta" /\ durable.record.revision \in Readers
      /\ crash'.record = IF sync.phase = "none" THEN Zero ELSE m
      /\ crash'.image = Image(pages, store.root)
      /\ crash'.linked = Linked(store.root, Image(pages, store.root))
  BY <1>1, <1>3, StandingFields
<1>6. (\A i \in Slot : SoundPossible(i)) /\ OrderedPossible
  BY <1>2, PossibleRecords
<1>7. Stops
  <2>1. \A i \in Slot : \A n \in {meta[i], disk.meta[i]} : n.kind = "meta" => n \in Possible(i)
    BY DEF Possible
  <2>2. FALSE \in BOOLEAN
    OBVIOUS
  <2> QED
    BY <1>1, <1>4, <1>6, <2>1, <2>2 DEF Stops, OrderedPossible
<1>8. ASSUME sync.phase = "written", Linked(store.root, Image(pages, store.root))
      PROVE  \E i \in Slot : /\ Newest(meta, i) /\ Usable(pages, meta, i)
                             /\ meta[i] = m
  <2>1. meta[slot] = m
    BY <1>3, <1>8 DEF SyncSound
  <2>2. \A j \in Slot : meta[j].kind = "meta" => meta[j].revision <= store.revision
    BY <1>6 DEF SoundPossible, Possible
  <2> HIDE DEF m
  <2> QED
    BY <1>4, <1>8, <2>1, <2>2, NewFound DEF m
<1> HIDE DEF m, slot
<1>9. ASSUME sync.phase # "written", Known, durable.linked,
             durable.quiet \/ durable.record.revision \in Readers
      PROVE  Recoverable(durable.record, durable.image)'
  <2>1. Settled = meta /\ DurableNewest(meta)
    BY <1>2, <1>9, DurableRecord DEF Settled
  <2>2. PICK i \in Slot :
           /\ Newest(meta, i) /\ Usable(pages, meta, i)
           /\ meta[i] = durable.record
           /\ Image(pages, durable.record.root) = durable.image
    BY <1>2, <1>4, <1>9, <2>1, DurableFound
  <2> QED
    BY <1>1, <2>2 DEF Recoverable
<1>10. ASSUME PromisesQuiet'
       PROVE  Recoverable(durable.record, durable.image)'
  <2>1. Known /\ durable.quiet /\ durable.linked
    BY <1>1, <1>10 DEF PromisesQuiet, Known
  <2>2. CASE sync.phase # "written"
    BY <1>9, <2>1, <2>2
  <2>3. CASE sync.phase = "written"
    <3>1. /\ store.revision = durable.record.revision
          /\ store.root = durable.record.root
          /\ store.length = durable.record.length
          /\ durable.image = Image(pages, durable.record.root)
          /\ Linked(durable.record.root, durable.image)
      BY <1>2, <1>3, <2>1 DEF DurableSound, DurableKept
    <3>2. m.revision = store.revision /\ m.root = store.root /\ m.length = store.length
      BY <1>3, <2>3, NewRecord DEF m
    <3>3. PICK i \in Slot : /\ Newest(meta, i) /\ Usable(pages, meta, i)
                            /\ meta[i] = m
      BY <1>8, <2>3, <3>1
    <3> QED
      BY <1>1, <3>1, <3>2, <3>3 DEF Recoverable
  <2> QED
    BY <2>2, <2>3
<1>11. ASSUME PromisesPinned'
       PROVE  Recoverable(durable.record, durable.image)'
  <2>1. /\ Known /\ durable.record.revision \in Readers /\ durable.linked
        /\ sync.phase # "written"
    <3>1. crash'.pinned /\ crash'.phase # "written" /\ durable'.linked
      BY <1>11 DEF PromisesPinned
    <3>2. durable.record.kind = "meta" /\ durable.record.revision \in Readers
      BY <1>5, <3>1
    <3>3. Known
      BY <3>2 DEF Known, Zero
    <3> QED
      BY <1>1, <1>5, <3>1, <3>2, <3>3
  <2> QED
    BY <1>9, <2>1
<1>12. ASSUME PromisesNew'
       PROVE  Recoverable(crash.record, crash.image)'
  <2>1. sync.phase = "written" /\ Linked(store.root, Image(pages, store.root))
    BY <1>5, <1>12 DEF PromisesNew
  <2>2. PICK i \in Slot : /\ Newest(meta, i) /\ Usable(pages, meta, i)
                          /\ meta[i] = m
    BY <1>8, <2>1
  <2>3. m.root = store.root
    BY <1>3, <2>1, NewRecord DEF m
  <2>4. crash'.record = m /\ crash'.image = Image(pages, m.root)
    BY <1>5, <2>1, <2>3
  <2> QED
    BY <1>1, <2>2, <2>4 DEF Recoverable
<1> QED
  BY <1>7, <1>10, <1>11, <1>12, StopsKeep

\* Power ends.
LEMMA PowerLossKeeps ==
    ASSUME TypeOK, HandleSound, FileSound, LosePower
    PROVE  TypeOK' /\ HandleSound' /\ FileSound'
<1> DEFINE m == MetaRecord(SyncStore)
           slot == MetaSlot(store)
<1>1. PICK arrived \in SUBSET Unflushed, arrivedMeta \in SUBSET UnflushedMeta :
         \E torn \in SUBSET (Unflushed \ arrived), tornMeta \in SUBSET (UnflushedMeta \ arrivedMeta) :
            PowerLoss(arrived, torn, arrivedMeta, tornMeta)
  BY DEF LosePower
<1>2. PICK torn \in SUBSET (Unflushed \ arrived), tornMeta \in SUBSET (UnflushedMeta \ arrivedMeta) :
         PowerLoss(arrived, torn, arrivedMeta, tornMeta)
  BY <1>1
<1>3. /\ crash' = Standing(TRUE) /\ Down
      /\ pages' = [p \in Page |-> IF p \in torn THEN Torn
                                  ELSE IF p \in arrived THEN pages[p] ELSE disk.pages[p]]
      /\ meta' = [i \in Slot |-> IF i \in tornMeta THEN Torn
                                 ELSE IF i \in arrivedMeta THEN meta[i] ELSE disk.meta[i]]
      /\ disk' = [pages |-> pages', meta |-> meta']
      /\ durable' = durable
  BY <1>2 DEF PowerLoss
<1>4. status = "open"
  BY <1>3 DEF Down
<1>5. RecordsOrdered /\ ChainsRetireTrees /\ SyncSound /\ DirtySound /\ DurableSound
  BY DEF FileSound
<1>6. /\ pages \in [Page -> Bytes] /\ meta \in [Slot -> MetaPages]
      /\ disk.pages \in [Page -> Bytes] /\ disk.meta \in [Slot -> MetaPages]
      /\ slot \in Slot
  BY SettledBetween DEF TypeOK
<1>7. /\ crash'.phase = sync.phase /\ crash'.ended = TRUE /\ crash'.power = TRUE
      /\ crash'.pinned => durable.record.kind = "meta" /\ durable.record.revision \in Readers
      /\ crash'.inherits <=> ~Known
      /\ crash'.metaFlushed <=> meta = disk.meta
      /\ crash'.record = IF sync.phase = "none" THEN Zero ELSE m
      /\ crash'.image = Image(pages, store.root)
      /\ crash'.linked = Linked(store.root, Image(pages, store.root))
  BY <1>3, <1>5, StandingFields
<1>8. (\A i \in Slot : SoundPossible(i)) /\ OrderedPossible
  BY <1>4, PossibleRecords
<1> HIDE DEF m, slot
<1>9. /\ pages' \in [Page -> Bytes] /\ meta' \in [Slot -> MetaPages]
      /\ disk'.pages = pages' /\ disk'.meta = meta'
      /\ disk' \in [pages : [Page -> Bytes], meta : [Slot -> MetaPages]]
  <2>1. Torn \in Bytes /\ Torn \in MetaPages
    BY DEF Bytes, MetaPages
  <2>2. pages' \in [Page -> Bytes] /\ meta' \in [Slot -> MetaPages]
    BY <1>3, <1>6, <2>1
  <2> QED
    BY <1>3, <2>2
<1>10. /\ \A p \in Page : /\ pages'[p] \in {pages[p], disk.pages[p], Torn}
                          /\ disk.pages[p] = pages[p] => pages'[p] = pages[p]
       /\ \A i \in Slot : /\ meta'[i] \in {meta[i], disk.meta[i], Torn}
                          /\ disk.meta[i] = meta[i] => meta'[i] = meta[i]
  <2>1. torn \subseteq Unflushed /\ tornMeta \subseteq UnflushedMeta
    BY <1>2
  <2>2. \A p \in Page : disk.pages[p] = pages[p] => p \notin torn
    BY <2>1 DEF Unflushed
  <2>3. \A i \in Slot : disk.meta[i] = meta[i] => i \notin tornMeta
    BY <2>1 DEF UnflushedMeta
  <2> QED
    BY <1>3, <2>2, <2>3
<1>11. \A i \in Slot : meta'[i].kind = "meta" =>
          /\ meta'[i] \in Possible(i) /\ meta'[i] \in MetaRecords
          /\ meta'[i].revision \in Int /\ meta'[i].nextPage \in Int
          /\ meta'[i].revision <= store.revision /\ meta'[i].revision % 2 = i
  <2>1. \A i \in Slot : meta'[i].kind = "meta" => meta'[i] \in Possible(i)
    BY <1>10 DEF Torn, Possible
  <2> QED
    BY <1>8, <2>1, RecordFields DEF SoundPossible
<1>12. Stops
  <2>1. \A i \in Slot : disk'.meta[i].kind = "meta" =>
           /\ meta'[i].kind = "meta"
           /\ disk'.meta[i].revision <= meta'[i].revision
           /\ disk'.meta[i].nextPage <= meta'[i].nextPage
    BY <1>9, <1>11
  <2>2. TRUE \in BOOLEAN
    OBVIOUS
  <2>3. \A p \in Page : pages'[p] \in {pages[p], disk.pages[p], Torn}
                        /\ disk'.pages[p] \in {pages[p], disk.pages[p], Torn}
    BY <1>9, <1>10
  <2>4. \A i \in Slot : \A n \in {meta'[i], disk'.meta[i]} : n.kind = "meta" => n \in Possible(i)
    BY <1>9, <1>11
  <2> QED
    BY <1>3, <1>9, <2>1, <2>2, <2>3, <2>4 DEF Stops
<1>13. ASSUME Known, durable.linked, meta = disk.meta,
              durable.quiet \/ durable.record.revision \in Readers
       PROVE  Recoverable(durable.record, durable.image)'
  <2>1. meta' = meta
    <3>1. \A i \in Slot : meta'[i] = meta[i]
      BY <1>10, <1>13
    <3> QED
      BY <1>6, <1>9, <3>1
  <2>2. DurableNewest(meta')
    BY <1>4, <1>13, <2>1, DurableRecord
  <2>3. DurableKept
    BY <1>4, <1>5, <1>13 DEF DurableSound
  <2>4. Reach(pages, durable.record.root) \union durable.record.chain \subseteq Page
    BY <1>4, <1>13, DurableRecord, ReachIsPages
  <2>5. \A p \in Reach(pages, durable.record.root) \union durable.record.chain :
           pages'[p] = pages[p]
    BY <1>10, <2>3, <2>4 DEF DurableKept
  <2>6. PICK i \in Slot :
           /\ Newest(meta', i) /\ Usable(pages', meta', i)
           /\ meta'[i] = durable.record
           /\ Image(pages', durable.record.root) = durable.image
    BY <1>4, <1>9, <1>13, <2>2, <2>5, DurableFound
  <2> QED
    BY <1>3, <2>6 DEF Recoverable
<1>14. ASSUME PromisesQuiet' \/ PromisesPinned'
       PROVE  Recoverable(durable.record, durable.image)'
  <2>1. MetaSettled' /\ durable'.linked
    BY <1>14 DEF PromisesQuiet, PromisesPinned
  <2>2. meta = disk.meta /\ durable.linked
    BY <1>3, <1>7, <2>1 DEF MetaSettled
  <2>3. CASE PromisesQuiet'
    <3>1. Known /\ durable.quiet
      BY <1>3, <2>3 DEF PromisesQuiet, Known
    <3> QED
      BY <1>13, <2>2, <3>1
  <2>4. CASE PromisesPinned'
    <3>1. crash'.pinned
      BY <2>4 DEF PromisesPinned
    <3>2. durable.record.kind = "meta" /\ durable.record.revision \in Readers
      BY <1>7, <3>1
    <3>3. Known
      BY <3>2 DEF Known, Zero
    <3> QED
      BY <1>13, <2>2, <3>2, <3>3
  <2> QED
    BY <1>14, <2>3, <2>4
<1>15. ASSUME PromisesNew'
       PROVE  Recoverable(crash.record, crash.image)'
  <2>1. /\ crash'.phase = "written" /\ crash'.linked
        /\ crash'.record \in {meta'[0], meta'[1]}
        /\ ~(crash'.power /\ crash'.inherits)
    BY <1>15 DEF PromisesNew
  <2>2. /\ sync.phase = "written" /\ Linked(store.root, Image(pages, store.root))
        /\ Known /\ m \in {meta'[0], meta'[1]}
        /\ crash'.record = m
    BY <1>7, <2>1
  <2>3. m.kind = "meta" /\ m.revision % 2 = slot /\ m.root = store.root
    BY <1>5, <2>2, NewRecord DEF m, slot
  <2>4. meta'[slot] = m
    <3>1. \A i \in Slot : meta'[i] = m => i = slot
      BY <1>11, <2>3
    <3> QED
      BY <2>2, <3>1, PageBounds
  <2>5. \A p \in Tree \union sync.chain : pages'[p] = pages[p]
    <3>1. \A p \in Tree : p \in Page /\ disk.pages[p] = pages[p]
      BY <1>4, <1>5, <2>2, ReachIsPages DEF DirtySound, Tree
    <3>2. sync.chain # {} => disk.pages = pages
      BY <1>5, <2>2 DEF SyncSound
    <3>3. sync.chain \in SUBSET Page
      BY DEF TypeOK
    <3> QED
      BY <1>10, <3>1, <3>2, <3>3
  <2>6. \A j \in Slot : meta'[j].kind = "meta" => meta'[j].revision <= store.revision
    BY <1>11
  <2>7. PICK i \in Slot :
           /\ Newest(meta', i) /\ Usable(pages', meta', i)
           /\ meta'[i] = m
           /\ Image(pages', store.root) = Image(pages, store.root)
    BY <1>9, <2>2, <2>4, <2>5, <2>6, NewFound DEF m, slot
  <2>8. crash'.image = Image(pages', m.root)
    BY <1>7, <2>3, <2>7
  <2> QED
    BY <2>2, <2>7, <2>8 DEF Recoverable
<1> QED
  BY <1>12, <1>14, <1>15, StopsKeep

----------------------------------------------------------------------------
(* Recovery *)

\* What a record of revision n allots, the newest one allots too.
LEMMA NewestAllotsMost ==
    ASSUME TypeOK, RecordsOrdered, sync.phase = "none", NEW i \in Slot, Newest(meta, i)
    PROVE  /\ meta[i] \in MetaRecords /\ meta[i].kind = "meta"
           /\ meta[i] \in Published(i)
           /\ \A j \in Slot : \A n \in Published(j) :
                 n.revision <= meta[i].revision /\ n.nextPage <= meta[i].nextPage
           /\ Listed(meta) \subseteq FirstPage..(meta[i].nextPage - 1)
<1>1. Settled = meta /\ meta \in [Slot -> MetaPages]
  BY SettledBetween DEF TypeOK
<1>2. /\ meta[i].kind = "meta" /\ meta[i].revision % 2 = i
      /\ \A j \in Candidates(meta) : meta[j].revision <= meta[i].revision
  BY DEF Newest, Candidates
<1>3. meta[i] \in Published(i)
  BY <1>1, <1>2 DEF Published
<1>4. \A j \in Slot : \A n \in Published(j) :
         n \in MetaRecords /\ n.revision \in Int /\ n.nextPage \in Int /\ n.revision % 2 = j
  BY SettledBetween, RecordFields DEF RecordsOrdered
<1>5. ASSUME NEW j \in Slot, meta[j].kind = "meta"
      PROVE  meta[j].revision <= meta[i].revision /\ meta[j].nextPage <= meta[i].nextPage
  <2>1. meta[j] \in Published(j)
    BY <1>1, <1>5 DEF Published
  <2>2. meta[j].revision <= meta[i].revision
    BY <1>2, <1>4, <1>5, <2>1 DEF Candidates
  <2>3. CASE meta[j].revision < meta[i].revision
    BY <1>3, <2>1, <2>2, <2>3 DEF RecordsOrdered
  <2>4. CASE meta[j].revision = meta[i].revision
    <3>1. i = j
      BY <1>2, <1>4, <2>1, <2>4
    <3> QED
      BY <1>4, <2>1, <2>2, <3>1
  <2> QED
    BY <1>3, <1>4, <2>1, <2>2, <2>3, <2>4
<1>6. ASSUME NEW j \in Slot, NEW n \in Published(j)
      PROVE  n.revision <= meta[i].revision /\ n.nextPage <= meta[i].nextPage
  <2>1. n.kind = "meta" /\ (n = meta[j] \/ n = disk.meta[j])
    BY <1>1 DEF Published
  <2>2. /\ meta[j].kind = "meta"
        /\ n.revision <= meta[j].revision /\ n.nextPage <= meta[j].nextPage
    <3>1. CASE n = meta[j]
      BY <1>4, <2>1, <3>1
    <3>2. CASE n = disk.meta[j]
      BY <1>1, <2>1, <3>2 DEF RecordsOrdered
    <3> QED
      BY <2>1, <3>1, <3>2
  <2>3. meta[j] \in Published(j)
    BY <1>1, <2>2 DEF Published
  <2> QED
    BY <1>3, <1>4, <1>5, <2>2, <2>3
<1>7. Listed(meta) \subseteq FirstPage..(meta[i].nextPage - 1)
  <2> SUFFICES ASSUME NEW p \in Listed(meta)
               PROVE  p \in FirstPage..(meta[i].nextPage - 1)
    OBVIOUS
  <2>1. PICK j \in Slot : meta[j].kind = "meta" /\ p < meta[j].nextPage
    BY DEF Listed, Candidates
  <2>2. p \in Page
    BY DEF Listed
  <2>3. meta[j].nextPage <= meta[i].nextPage
    BY <1>5, <2>1
  <2>4. meta[j].nextPage \in Int /\ meta[i].nextPage \in Int
    BY <1>1, <1>3, <1>4, <2>1 DEF Published
  <2> QED
    BY <2>1, <2>2, <2>3, <2>4, PageNumbers, PageBounds
<1> QED
  BY <1>2, <1>3, <1>4, <1>6, <1>7

\* What recovery reads back from a record it accepts.
LEMMA RecordedIsTyped ==
    ASSUME NEW P \in [Page -> Bytes], NEW m \in MetaRecords, NEW st, st = RecordedStore(P, m)
    PROVE  /\ st \in Stores
           /\ st.root = m.root /\ st.length = m.length /\ st.revision = m.revision
           /\ st.nextPage = m.nextPage /\ st.chain = m.chain
           /\ \A r \in st.retired :
                 r.revision # 0 /\ \E p \in m.chain : P[p].kind = "chain" /\ r \in P[p].records
<1>1. ChainRecords(P, m) \in SUBSET ReclaimRecord
  <2>1. \A p \in m.chain : P[p].kind = "chain" => P[p].records \subseteq ReclaimRecord
    BY RecordFields, KindsOfBytes
  <2> QED
    BY <2>1 DEF ChainRecords
<1> DEFINE records == ChainRecords(P, m)
           free == IF m.chain = {} THEN m.free ELSE {r.id : r \in {q \in records : q.revision = 0}}
           retired == {r \in records : r.revision # 0}
<1>2. st = [root |-> m.root, length |-> m.length, revision |-> m.revision,
            nextPage |-> m.nextPage, chain |-> m.chain, free |-> free, retired |-> retired]
  BY DEF RecordedStore
<1>3. free \in SUBSET Page /\ retired \in SUBSET ReclaimRecord
  BY <1>1, RecordFields, PageNumbers
<1>4. \A r \in retired :
         r.revision # 0 /\ \E p \in m.chain : P[p].kind = "chain" /\ r \in P[p].records
  BY DEF ChainRecords
<1> HIDE DEF free, retired
<1>5. /\ st.root = m.root /\ st.length = m.length /\ st.revision = m.revision
      /\ st.nextPage = m.nextPage /\ st.chain = m.chain /\ st.retired = retired
  BY <1>2
<1>6. st \in Stores
  BY <1>2, <1>3, RecordFields DEF Stores
<1> QED
  BY <1>4, <1>5, <1>6

\* The file is opened on the newest root.
LEMMA OpenKeeps ==
    ASSUME TypeOK, HandleSound, FileSound, NEW i \in Slot, Open(i)
    PROVE  TypeOK' /\ HandleSound' /\ FileSound'
<1> DEFINE m == meta[i]
           found == RecordedStore(pages, m)
           reached == Reach(pages, m.root)
<1>1. /\ status = "down" /\ Newest(meta, i) /\ Usable(pages, meta, i)
      /\ status' = "open"
      /\ store' = [found EXCEPT !.free = @ \union Obsolete(pages, meta, found)]
      /\ durable' = IF crash.ended THEN [durable EXCEPT !.record = Zero, !.quiet = FALSE]
                    ELSE durable
      /\ crash' = NotEnded
      /\ pages' = pages /\ meta' = meta /\ dirty' = dirty /\ snaps' = snaps
      /\ sync' = sync /\ disk' = disk /\ count' = count
  BY DEF Open
<1>2. RecordsOrdered /\ ChainsRetireTrees /\ DownSound
  BY DEF FileSound
<1>3. /\ sync.phase = "none"
      /\ ~crash.ended =>
            /\ Known /\ durable.quiet
            /\ disk.meta = meta /\ disk.pages = pages
            /\ DurableNewest(meta)
            /\ DurableKept
            /\ durable.linked = Linked(durable.record.root, durable.image)
  BY <1>1, <1>2 DEF DownSound
<1>4. /\ m \in MetaRecords /\ m.kind = "meta" /\ m \in Published(i)
      /\ \A j \in Slot : \A n \in Published(j) :
            n.revision <= m.revision /\ n.nextPage <= m.nextPage
      /\ Listed(meta) \subseteq FirstPage..(m.nextPage - 1)
  BY <1>1, <1>2, <1>3, NewestAllotsMost
<1>5. /\ reached \subseteq Listed(meta)
      /\ \A p \in reached : pages[p].kind = "tree"
      /\ ValidTree(m.root, m.length, Image(pages, m.root))
      /\ reached \intersect m.chain = {}
      /\ ReusableSafely(found, reached)
  BY <1>1 DEF Usable, SoundRecord
<1>6. pages \in [Page -> Bytes]
  BY DEF TypeOK
<1>7. /\ found \in Stores
      /\ found.root = m.root /\ found.length = m.length /\ found.revision = m.revision
      /\ found.nextPage = m.nextPage /\ found.chain = m.chain
      /\ \A r \in found.retired :
            r.revision # 0 /\ \E p \in m.chain : pages[p].kind = "chain" /\ r \in pages[p].records
  <2> HIDE DEF m
  <2> QED
    BY <1>4, <1>6, RecordedIsTyped
<1>8. \A r \in found.retired : pages[r.id].kind # "chain"
  <2>1. RetiresTrees(m, pages, pages)
    BY <1>4, <1>2 DEF ChainsRetireTrees
  <2> QED
    BY <1>7, <2>1 DEF RetiresTrees
<1> HIDE DEF m, found, reached
<1>9. /\ store' \in Stores
      /\ store'.root = m.root /\ store'.length = m.length /\ store'.revision = m.revision
      /\ store'.nextPage = m.nextPage /\ store'.chain = m.chain
      /\ store'.retired = found.retired
      /\ ReusableSafely(store', reached)
  <2>1. /\ store' \in Stores
        /\ store'.root = found.root /\ store'.length = found.length
        /\ store'.revision = found.revision
        /\ store'.nextPage = found.nextPage /\ store'.chain = found.chain
        /\ store'.retired = found.retired
        /\ ReusableSafely(store', reached)
    BY <1>1, <1>5, <1>7, <1>8, ObsoleteIsFree
  <2> QED
    BY <1>7, <2>1
<1>10. Tree' = reached
  BY <1>1, <1>9 DEF Tree, reached
<1>11. TypeOK'
  <2>1. /\ DOMAIN durable' = {"record", "image", "linked", "quiet"}
        /\ durable'.record \in MetaRecords \union {Zero}
        /\ durable'.quiet \in BOOLEAN
    BY <1>1 DEF TypeOK
  <2>2. /\ DOMAIN crash' = DOMAIN NotEnded
        /\ crash'.ended \in BOOLEAN /\ crash'.power \in BOOLEAN
        /\ crash'.record \in MetaRecords \union {Zero}
    BY <1>1 DEF NotEnded
  <2> QED
    BY <1>1, <1>9, <2>1, <2>2 DEF TypeOK
<1>12. m.chain \subseteq FirstPage..(m.nextPage - 1)
  BY <1>2, <1>4 DEF RecordsOrdered
<1>13. HandleSound'
  BY <1>1, <1>4, <1>5, <1>9, <1>10, <1>12 DEF HandleSound, reached
<1>14. Settled = meta /\ Settled' = meta /\ \A j \in Slot : Published(j)' = Published(j)
  BY <1>1, <1>3 DEF Settled, Published
<1>15. RecordsOrdered'
  BY <1>1, <1>2, <1>4, <1>9, <1>14 DEF RecordsOrdered
<1>16. ChainsRetireTrees'
  BY <1>1, <1>2, <1>8, <1>9, <1>14 DEF ChainsRetireTrees
<1>17. SyncSound'
  BY <1>1, <1>3 DEF SyncSound
<1>18. Known' => ~crash.ended /\ durable' = durable
  <2>1. DOMAIN durable = {"record", "image", "linked", "quiet"}
    BY DEF TypeOK
  <2>2. crash.ended => durable'.record = Zero
    BY <1>1, <2>1
  <2> QED
    BY <1>1, <2>2 DEF Known
<1>19. DirtySound'
  BY <1>1, <1>3, <1>18 DEF DirtySound
<1>20. DurableSound'
  <2> SUFFICES ASSUME Known'
               PROVE  DurableSound'
    BY DEF DurableSound
  <2>1. /\ ~crash.ended /\ durable' = durable
        /\ Known /\ durable.quiet
        /\ disk.meta = meta /\ disk.pages = pages
        /\ DurableNewest(meta)
        /\ DurableKept
        /\ durable.linked = Linked(durable.record.root, durable.image)
    BY <1>3, <1>18
  <2>2. durable.record \in MetaRecords /\ durable.record.revision \in Int
        /\ durable.record.kind = "meta"
    BY <2>1, RecordFields DEF TypeOK, Known
  <2>3. DurableSlot \in Slot /\ durable.record.revision % 2 = DurableSlot
    BY <2>2 DEF DurableSlot, Slot
  <2>4. m = durable.record
    <3>1. /\ meta[DurableSlot] = durable.record
          /\ meta[1 - DurableSlot].kind = "meta"
                => meta[1 - DurableSlot].revision < durable.record.revision
      BY <2>1 DEF DurableNewest
    <3>2. durable.record \in Published(DurableSlot)
      BY <1>14, <2>2, <3>1 DEF Published
    <3>3. durable.record.revision <= m.revision
      BY <1>4, <2>3, <3>2
    <3>4. CASE i = DurableSlot
      BY <3>1, <3>4 DEF m
    <3>5. CASE i # DurableSlot
      <4>1. i = 1 - DurableSlot
        BY <2>3, <3>5, PageBounds
      <4>2. m.revision < durable.record.revision /\ m.revision \in Int
        BY <1>4, <3>1, <4>1, RecordFields DEF m
      <4> QED
        BY <2>2, <3>3, <4>2
    <3> QED
      BY <3>4, <3>5
  <2>5. /\ DurableNewest(Settled)' /\ DurableKept' /\ disk'.meta = Settled'
    BY <1>1, <1>14, <2>1 DEF DurableNewest, DurableSlot, DurableKept
  <2>6. m.chain \intersect store'.free = {}
    BY <1>9 DEF ReusableSafely
  <2>7. Reach(pages', durable'.record.root) \subseteq Tree'
    BY <1>1, <1>10, <2>1, <2>4 DEF reached
  <2>8. /\ durable'.record.revision <= store'.revision
        /\ store'.revision = durable'.record.revision
        /\ store'.root = durable'.record.root /\ store'.length = durable'.record.length
    BY <1>9, <2>1, <2>2, <2>4
  <2> QED
    BY <2>1, <2>4, <2>5, <2>6, <2>7, <2>8 DEF DurableSound
<1>21. DownSound'
  BY <1>1 DEF DownSound, NotEnded
<1> QED
  BY <1>11, <1>13, <1>15, <1>16, <1>17, <1>19, <1>20, <1>21 DEF FileSound

\* Recovery passes over the newest root, or finds none.
LEMMA OpenPassesKeeps ==
    ASSUME TypeOK, OpenPasses
    PROVE  TypeOK' /\ HandleSound' /\ status' \notin {"open", "down"}
<1>1. /\ status' \in {"refused", "doubt"}
      /\ UNCHANGED <<pages, store, meta, dirty, snaps, sync, disk, durable, crash, count>>
  BY DEF OpenPasses
<1>2. TypeOK'
  BY <1>1 DEF TypeOK
<1>3. HandleSound' /\ status' \notin {"open", "down"}
  BY <1>1 DEF HandleSound
<1> QED
  BY <1>2, <1>3

----------------------------------------------------------------------------
(* The invariant *)

LEMMA NothingIsReached ==
    ASSUME NEW P
    PROVE  Reach(P, 0) = {} /\ Image(P, 0) = NoImage
<1>1. ClosedUnder(P, 0, {})
  BY DEF ClosedUnder
<1>2. Reach(P, 0) = {}
  BY <1>1, ReachIsLeast
<1> QED
  BY <1>2 DEF Image, NoImage

LEMMA InitKeeps ==
    ASSUME Init
    PROVE  TypeOK /\ HandleSound /\ FileSound
<1> DEFINE m == MetaRecord(NewStore)
<1>1. /\ status = "open"
      /\ pages = [p \in Page |-> Blank]
      /\ store = NewStore
      /\ meta = [i \in Slot |-> IF i = 0 THEN m ELSE Zero]
      /\ dirty = {}
      /\ snaps = [s \in Snap |-> NoRevision]
      /\ sync = NoSync
      /\ disk = [pages |-> pages, meta |-> meta]
      /\ durable = [record |-> meta[0], image |-> NoImage, linked |-> TRUE, quiet |-> TRUE]
      /\ crash = NotEnded
      /\ count = [syncs |-> 0, ends |-> 0]
  BY DEF Init
<1>2. FirstPage \in FirstPage..(MaxPage + 1) /\ 0 \in Revision /\ 0 \in Length
      /\ Zero \in MetaPages
  BY PageBounds, BoundsAreNat, EmptyIsTree DEF MetaPages
<1>3. /\ NewStore \in Stores
      /\ NewStore.root = 0 /\ NewStore.length = 0 /\ NewStore.revision = 0
      /\ NewStore.nextPage = FirstPage /\ NewStore.free = {} /\ NewStore.retired = {}
      /\ NewStore.chain = {}
  BY <1>2 DEF NewStore, Stores
<1>4. MetadataRecords(NewStore) = {}
  <2>1. [id : NewStore.free, revision : {0}] = {}
    BY <1>3
  <2> QED
    BY <1>3, <2>1 DEF MetadataRecords
<1>5. Reach(pages, 0) = {} /\ Image(pages, 0) = NoImage
  BY NothingIsReached
<1>6. /\ ValidTree(NewStore.root, NewStore.length, Image(pages, NewStore.root))
      /\ Linked(NewStore.root, Image(pages, NewStore.root))
  BY <1>3, <1>5, EmptyIsTree
<1>7. ReusableSafely(NewStore, {})
  BY <1>3 DEF ReusableSafely, RetiredIds
<1>8. Publishable(pages, NewStore)
  <2>1. UNION {pages[p].records : p \in NewStore.chain} = {}
    BY <1>3
  <2> QED
    BY <1>3, <1>4, <1>5, <1>6, <1>7, <2>1 DEF Publishable
<1>9. /\ m \in MetaRecords /\ m.kind = "meta"
      /\ m.revision = 0 /\ m.root = 0 /\ m.length = 0
      /\ m.nextPage = FirstPage /\ m.chain = {}
      /\ SoundRecord(pages, FirstPage..(m.nextPage - 1), m)
  <2>1. /\ m \in MetaRecords /\ m.kind = "meta"
        /\ m.revision = NewStore.revision /\ m.root = NewStore.root
        /\ m.length = NewStore.length
        /\ m.nextPage = NewStore.nextPage /\ m.chain = NewStore.chain
    BY <1>3, RecordIsTyped
  <2>2. SoundRecord(pages, FirstPage..(NewStore.nextPage - 1), m)
    BY <1>3, <1>8, WrittenRecordIsSound
  <2> QED
    BY <1>3, <2>1, <2>2
<1> HIDE DEF m
<1>10. /\ meta[0] = m /\ meta[1] = Zero /\ Zero.kind # "meta" /\ Slot = {0, 1}
       /\ disk.pages = pages /\ disk.meta = meta
       /\ durable.record = m /\ durable.image = NoImage /\ durable.linked = TRUE
       /\ durable.quiet = TRUE
       /\ DOMAIN durable = {"record", "image", "linked", "quiet"}
       /\ sync.phase = "none"
  BY <1>1, PageBounds DEF Zero, NoSync
<1>11. TypeOK
  <2>1. pages \in [Page -> Bytes]
    BY <1>1 DEF Bytes
  <2>2. meta \in [Slot -> MetaPages]
    BY <1>1, <1>2, <1>9 DEF MetaPages
  <2>3. sync \in [phase : {"none", "prepared", "flushed", "written"},
                  nextPage : FirstPage..(MaxPage + 1), chain : SUBSET Page,
                  closing : BOOLEAN, dirty : SUBSET Page, previous : MetaPages]
    BY <1>1, <1>2 DEF NoSync
  <2>4. disk \in [pages : [Page -> Bytes], meta : [Slot -> MetaPages]]
    BY <1>1, <2>1, <2>2
  <2>5. snaps \in [Snap -> {NoRevision} \union Revision]
    BY <1>1
  <2>6. /\ DOMAIN crash = DOMAIN NotEnded /\ crash.ended \in BOOLEAN /\ crash.power \in BOOLEAN
        /\ crash.record \in MetaRecords \union {Zero}
    BY <1>1 DEF NotEnded
  <2>7. count \in [syncs : Nat, ends : Nat] /\ dirty \in SUBSET Page
    BY <1>1
  <2>8. durable.record \in MetaRecords \union {Zero} /\ durable.quiet \in BOOLEAN
    BY <1>9, <1>10
  <2> QED
    BY <1>1, <1>3, <1>10, <2>1, <2>2, <2>3, <2>4, <2>5, <2>6, <2>7, <2>8 DEF TypeOK
<1>12. Tree = {}
  BY <1>1, <1>3, <1>5 DEF Tree
<1>13. HandleSound
  BY <1>1, <1>3, <1>6, <1>7, <1>12 DEF HandleSound
<1>14. Settled = meta
  BY <1>10 DEF Settled
<1>15. \A i \in Slot : \A n \in Published(i) : i = 0 /\ n = m
  BY <1>10, <1>14 DEF Published
<1>16. FirstPage \in Int
  BY PageBounds
<1>17. RecordsOrdered
  BY <1>1, <1>3, <1>9, <1>10, <1>14, <1>15, <1>16 DEF RecordsOrdered
<1>18. ChainsRetireTrees
  <2>1. \A P, Q : RetiresTrees(m, P, Q)
    BY <1>9 DEF RetiresTrees
  <2> QED
    BY <1>1, <1>3, <1>15, <2>1 DEF ChainsRetireTrees
<1>19. SyncSound /\ DirtySound
  BY <1>10, <1>12 DEF SyncSound, DirtySound
<1>20. DurableSound
  <2>1. DurableSlot = 0
    BY <1>9, <1>10 DEF DurableSlot
  <2>2. DurableNewest(Settled)
    BY <1>10, <1>14, <2>1 DEF DurableNewest
  <2>3. Linked(durable.record.root, durable.image)
    BY <1>9, <1>10, EmptyIsTree
  <2>4. DurableKept
    BY <1>5, <1>9, <1>10 DEF DurableKept
  <2>5. Reach(pages, durable.record.root) = {}
    BY <1>5, <1>9, <1>10
  <2> QED
    BY <1>1, <1>3, <1>9, <1>10, <1>14, <2>2, <2>3, <2>4, <2>5 DEF DurableSound
<1>21. DownSound
  BY <1>1 DEF DownSound, NotEnded
<1> QED
  BY <1>11, <1>13, <1>17, <1>18, <1>19, <1>20, <1>21 DEF FileSound

\* A step of the handle, of Sync, of an end or of recovery keeps the invariant.
LEMMA StepKeepsIndInv ==
    ASSUME IndInv, [Next]_vars
    PROVE  IndInv'
<1>1. TypeOK /\ HandleSound
  BY DEF IndInv
<1>2. sync.phase # "none" => status = "open"
  BY DEF IndInv
<1>3. status \in {"open", "down"} => FileSound
  BY DEF IndInv
<1>4. ASSUME status \in {"open", "down"}, TypeOK', HandleSound', FileSound'
      PROVE  IndInv'
  <2>1. sync'.phase # "none" => status' = "open"
    BY <1>4 DEF FileSound, SyncSound
  <2> QED
    BY <1>4, <2>1 DEF IndInv
<1>5. ASSUME status = "open", MutateTree \/ CloseSnapshot
      PROVE  IndInv'
  <2>1. Rewrites
    <3>1. CASE MutateTree
      BY <1>1, <1>3, <1>5, <3>1, MutateRewrites DEF FileSound
    <3>2. CASE CloseSnapshot
      BY <1>1, <1>3, <1>5, <3>2, CloseRewrites DEF FileSound
    <3> QED
      BY <1>5, <3>1, <3>2
  <2>2. FileSound'
    BY <1>1, <1>3, <1>5, <2>1, RewritesKeep
  <2> QED
    BY <1>4, <1>5, <2>1, <2>2 DEF Rewrites
<1>6. CASE MutateTree
  BY <1>5, <1>6 DEF MutateTree, Idle
<1>7. CASE CloseSnapshot
  BY <1>5, <1>7 DEF CloseSnapshot, SnapshotClose, Idle
<1>8. ASSUME NEW s \in Snap, SnapshotOpen(s)
      PROVE  IndInv'
  <2>1. status = "open"
    BY <1>8 DEF SnapshotOpen, Idle
  <2>2. TypeOK' /\ HandleSound' /\ FileSound'
    BY <1>1, <1>3, <1>8, <2>1, SnapshotOpenKeeps
  <2> QED
    BY <1>4, <2>1, <2>2
<1>9. CASE BeginSync
  <2>1. status = "open"
    BY <1>9 DEF BeginSync, SyncBegin, Idle
  <2>2. TypeOK' /\ HandleSound' /\ FileSound'
    BY <1>1, <1>3, <1>9, <2>1, SyncBeginKeeps
  <2> QED
    BY <1>4, <2>1, <2>2
<1>10. CASE SyncData
  <2>1. status = "open"
    BY <1>2, <1>10 DEF SyncData
  <2>2. TypeOK' /\ HandleSound' /\ FileSound'
    BY <1>1, <1>3, <1>10, <2>1, SyncDataKeeps
  <2> QED
    BY <1>4, <2>1, <2>2
<1>11. CASE SyncMeta
  <2>1. status = "open"
    BY <1>2, <1>11 DEF SyncMeta
  <2>2. TypeOK' /\ HandleSound' /\ FileSound'
    BY <1>1, <1>3, <1>11, <2>1, SyncMetaKeeps
  <2> QED
    BY <1>4, <2>1, <2>2
<1>12. CASE SyncEnd
  <2>1. status = "open"
    BY <1>2, <1>12 DEF SyncEnd
  <2>2. TypeOK' /\ HandleSound' /\ FileSound'
    BY <1>1, <1>3, <1>12, <2>1, SyncEndKeeps
  <2> QED
    BY <1>4, <2>1, <2>2
<1>13. CASE SyncFail
  <2>1. status = "open" /\ sync'.phase = "none"
    BY <1>2, <1>13 DEF SyncFail, NoSync
  <2>2. TypeOK' /\ HandleSound' /\ (status' \in {"open", "down"} => FileSound')
    BY <1>1, <1>3, <1>13, <2>1, SyncFailKeeps
  <2> QED
    BY <2>1, <2>2 DEF IndInv
<1>14. CASE ProcessCrash
  <2>1. status = "open"
    BY <1>14 DEF ProcessCrash, Down
  <2>2. TypeOK' /\ HandleSound' /\ FileSound'
    BY <1>1, <1>3, <1>14, <2>1, ProcessCrashKeeps
  <2> QED
    BY <1>4, <2>1, <2>2
<1>15. CASE LosePower
  <2>1. status = "open"
    BY <1>15 DEF LosePower, PowerLoss, Down
  <2>2. TypeOK' /\ HandleSound' /\ FileSound'
    BY <1>1, <1>3, <1>15, <2>1, PowerLossKeeps
  <2> QED
    BY <1>4, <2>1, <2>2
<1>16. ASSUME NEW i \in Slot, Open(i)
       PROVE  IndInv'
  <2>1. status = "down"
    BY <1>16 DEF Open
  <2>2. TypeOK' /\ HandleSound' /\ FileSound'
    BY <1>1, <1>3, <1>16, <2>1, OpenKeeps
  <2> QED
    BY <1>4, <2>1, <2>2
<1>17. CASE OpenPasses
  <2>1. status = "down" /\ sync' = sync
    BY <1>17 DEF OpenPasses
  <2>2. TypeOK' /\ HandleSound' /\ status' \notin {"open", "down"}
    BY <1>1, <1>17, OpenPassesKeeps
  <2>3. sync'.phase = "none"
    BY <1>2, <2>1
  <2> QED
    BY <2>2, <2>3 DEF IndInv
<1>18. CASE UNCHANGED vars
  <2>1. /\ TypeOK' = TypeOK /\ HandleSound' = HandleSound
    BY <1>18 DEF vars, TypeOK, HandleSound, Tree
  <2>2. FileSound' = FileSound
    <3>1. /\ status' = status /\ pages' = pages /\ store' = store /\ meta' = meta
          /\ dirty' = dirty /\ snaps' = snaps /\ sync' = sync /\ disk' = disk
          /\ durable' = durable /\ crash' = crash
      BY <1>18 DEF vars
    <3>2. Tree' = Tree /\ Readers' = Readers /\ SyncStore' = SyncStore /\ Settled' = Settled
      BY <3>1 DEF Tree, Readers, SyncStore, Settled
    <3>3. /\ RecordsOrdered' = RecordsOrdered
          /\ ChainsRetireTrees' = ChainsRetireTrees
      BY <3>1, <3>2 DEF RecordsOrdered, ChainsRetireTrees, Published
    <3>4. SyncSound' = SyncSound /\ DirtySound' = DirtySound
      BY <3>1, <3>2 DEF SyncSound, DirtySound, Known
    <3>5. DurableSound' = DurableSound
      BY <3>1, <3>2 DEF DurableSound, Known, DurableNewest, DurableSlot, DurableKept
    <3>6. DownSound' = DownSound
      BY <3>1, <3>2 DEF DownSound, Known, DurableNewest, DurableSlot, DurableKept, PromisesQuiet,
                        PromisesPinned, PromisesNew, MetaSettled, Recoverable
    <3> QED
      BY <3>3, <3>4, <3>5, <3>6 DEF FileSound
  <2> QED
    BY <1>1, <1>2, <1>3, <1>18, <2>1, <2>2 DEF IndInv, vars
<1> QED
  BY <1>6, <1>7, <1>8, <1>9, <1>10, <1>11, <1>12, <1>13, <1>14, <1>15, <1>16, <1>17, <1>18
  DEF Next

----------------------------------------------------------------------------
(* The theorems *)

\* A process that goes down leaves nothing behind that writes to the file.
LEMMA DownOnlyReopens ==
    ASSUME IndInv, Next, status = "down"
    PROVE  (\E i \in Slot : Open(i)) \/ OpenPasses
<1>1. sync.phase = "none"
  BY DEF IndInv
<1>2. ~MutateTree /\ ~CloseSnapshot /\ ~BeginSync /\ ~(\E s \in Snap : SnapshotOpen(s))
  BY DEF MutateTree, CloseSnapshot, SnapshotClose, BeginSync, SyncBegin, SnapshotOpen, Idle
<1>3. ~SyncData /\ ~SyncMeta /\ ~SyncEnd /\ ~SyncFail
  BY <1>1 DEF SyncData, SyncMeta, SyncEnd, SyncFail
<1>4. ~ProcessCrash /\ ~LosePower
  BY DEF ProcessCrash, LosePower, PowerLoss, Down
<1> QED
  BY <1>2, <1>3, <1>4 DEF Next

\* The file is opened on what is recoverable, and on nothing else.
LEMMA RecoverableIsOpened ==
    ASSUME IndInv, Next, status = "down", NEW record, NEW image, Recoverable(record, image)
    PROVE  Recovers(record, image)
<1>1. PICK i \in Slot :
         /\ Newest(meta, i) /\ Usable(pages, meta, i)
         /\ meta[i].revision = record.revision
         /\ meta[i].root = record.root /\ meta[i].length = record.length
         /\ Image(pages, record.root) = image
  BY DEF Recoverable
<1>2. ~OpenPasses
  BY <1>1 DEF OpenPasses
<1>3. PICK j \in Slot : Open(j)
  BY <1>2, DownOnlyReopens
<1>4. /\ Newest(meta, j) /\ status' = "open" /\ pages' = pages
      /\ store' = [RecordedStore(pages, meta[j]) EXCEPT
                      !.free = @ \union Obsolete(pages, meta, RecordedStore(pages, meta[j]))]
  BY <1>3 DEF Open
<1>5. meta[i] \in MetaRecords /\ meta[j] \in MetaRecords
      /\ meta[i].revision % 2 = i /\ meta[j].revision % 2 = j
      /\ meta[i].revision <= meta[j].revision /\ meta[j].revision <= meta[i].revision
  <2>1. meta[i] \in MetaPages /\ meta[j] \in MetaPages
    BY DEF IndInv, TypeOK
  <2> QED
    BY <1>1, <1>4, <2>1 DEF Newest, Candidates, MetaPages, Zero, Torn
<1>6. i = j
  BY <1>5, RecordFields
<1>7. /\ store'.revision = meta[j].revision /\ store'.root = meta[j].root
      /\ store'.length = meta[j].length
  BY <1>4 DEF RecordedStore
<1>8. status' = "open" /\ Image(pages', record.root) = image
  BY <1>1, <1>4
<1> QED
  BY <1>1, <1>6, <1>7, <1>8 DEF Recovers

\* What holds of the file in every state, whatever was written and wherever the
\* process, the power or a Sync ended.
THEOREM DurableInvariant == Spec => []IndInv
<1>1. Init => IndInv
  BY InitKeeps DEF IndInv, Init
<1>2. IndInv /\ [Next]_vars => IndInv'
  BY StepKeepsIndInv
<1> QED
  BY <1>1, <1>2, PTL DEF Spec

\* Type correctness of the mapping, the handle, the disk and the histories.
THEOREM DurableTypes == Spec => []TypeOK
<1>1. IndInv => TypeOK
  BY DEF IndInv
<1> QED
  BY <1>1, DurableInvariant, PTL

\* The handle that is open, first or after any recovery, can go on and be synced:
\* its tree, free list, retired records and chain are disjoint and below nextPage.
THEOREM HandleStaysSound == Spec => []HandleSound
<1>1. IndInv => HandleSound
  BY DEF IndInv
<1> QED
  BY <1>1, DurableInvariant, PTL

\* While nothing changes a page after a Sync, the file opens on the tree that the
\* Sync published (syncMmap, loadMeta).
THEOREM SyncedTreeIsFound == Spec => SyncIsDurable
<1>1. ASSUME IndInv, [Next]_vars
      PROVE  [Reopens /\ PromisesQuiet => Recovers(durable.record, durable.image)]_vars
  <2> SUFFICES ASSUME Next, Reopens, PromisesQuiet
               PROVE  Recovers(durable.record, durable.image)
    BY <1>1
  <2>1. status = "down"
    BY DEF Reopens
  <2>2. Recoverable(durable.record, durable.image)
    BY <1>1, <2>1 DEF IndInv, FileSound, DownSound
  <2> QED
    BY <1>1, <2>1, <2>2, RecoverableIsOpened
<1> QED
  BY <1>1, DurableInvariant, PTL DEF Spec, SyncIsDurable

\* While a snapshot pins the last synced revision, no mutation takes that
\* revision from the file (reclaimRetiredPages, oldestReaderRevision).
THEOREM PinnedTreeIsFound == Spec => SnapshotKeepsDurable
<1>1. ASSUME IndInv, [Next]_vars
      PROVE  [Reopens /\ PromisesPinned => Recovers(durable.record, durable.image)]_vars
  <2> SUFFICES ASSUME Next, Reopens, PromisesPinned
               PROVE  Recovers(durable.record, durable.image)
    BY <1>1
  <2>1. status = "down"
    BY DEF Reopens
  <2>2. Recoverable(durable.record, durable.image)
    BY <1>1, <2>1 DEF IndInv, FileSound, DownSound
  <2> QED
    BY <1>1, <2>1, <2>2, RecoverableIsOpened
<1> QED
  BY <1>1, DurableInvariant, PTL DEF Spec, SnapshotKeepsDurable

\* Where the new bytes of a meta page are in the file, so is all that its root
\* needs, and the file opens on that root (syncDataPages before publishMeta).
THEOREM WrittenRootIsFound == Spec => NewRootAfterMetaWrite
<1>1. ASSUME IndInv, [Next]_vars
      PROVE  [Reopens /\ PromisesNew => Recovers(crash.record, crash.image)]_vars
  <2> SUFFICES ASSUME Next, Reopens, PromisesNew
               PROVE  Recovers(crash.record, crash.image)
    BY <1>1
  <2>1. status = "down"
    BY DEF Reopens
  <2>2. Recoverable(crash.record, crash.image)
    BY <1>1, <2>1 DEF IndInv, FileSound, DownSound
  <2> QED
    BY <1>1, <2>1, <2>2, RecoverableIsOpened
<1> QED
  BY <1>1, DurableInvariant, PTL DEF Spec, NewRootAfterMetaWrite
=============================================================================
