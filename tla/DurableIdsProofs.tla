--------------------------- MODULE DurableIdsProofs ---------------------------
(***************************************************************************)
(* Page ids of DurableTree: as long as every process leaves the file by    *)
(* Close, no id is lost, and no chain that a meta page names is freed.     *)
(***************************************************************************)
EXTENDS DurableTreeProofs

\* No process ended otherwise than by a Close that succeeded.
LeftByClose == ~crash.ended

\* The part of the invariant about an open handle.
HandleTraced ==
    /\ Traced(store, Tree)
    /\ store.chain \subseteq Named(Settled)
    /\ Named(Settled) \intersect store.free = {}
    /\ \A p \in FirstPage..(store.nextPage - 1) :
          pages[p].kind = "chain" => p \in Named(Settled) \union store.free

ChainsResolved == \A i \in Slot : Settled[i].kind = "meta" => ResolvedChain(pages, Settled[i])

LEMMA OpenIds ==
    ASSUME status = "open"
    PROVE  IdsInv <=> ChainsResolved /\ HandleTraced
BY DEF IdsInv, ChainsResolved, HandleTraced

\* Chains that are named lie below nextPage and outside tree and retired ids.
LEMMA NamedPages ==
    ASSUME IndInv, ChainsResolved, status = "open", NEW p \in Named(Settled)
    PROVE  /\ p \in FirstPage..(store.nextPage - 1) /\ p \in Page /\ p < store.nextPage
           /\ pages[p].kind = "chain"
           /\ p \notin Tree
           /\ p \notin RetiredIds(store.retired)
<1>1. PICK i \in Slot : Settled[i].kind = "meta" /\ p \in Settled[i].chain
  BY DEF Named
<1>2. Settled[i] \in Published(i)
  BY <1>1 DEF Published
<1>3. /\ Settled[i].chain \subseteq FirstPage..(Settled[i].nextPage - 1)
      /\ Settled[i].nextPage <= store.nextPage
  BY <1>2 DEF IndInv, FileSound, RecordsOrdered
<1>4. /\ Settled[i].nextPage \in FirstPage..(MaxPage + 1)
      /\ store.nextPage \in FirstPage..(MaxPage + 1)
  BY <1>2, SettledBetween, RecordFields DEF IndInv, TypeOK, Stores
<1>5. p \in FirstPage..(store.nextPage - 1) /\ p < store.nextPage /\ p \in Page
  BY <1>1, <1>3, <1>4, PageNumbers
<1>6. pages[p].kind = "chain"
  BY <1>1 DEF ChainsResolved, ResolvedChain
<1>7. p \notin Tree
  BY <1>6 DEF IndInv, HandleSound
<1>8. p \notin RetiredIds(store.retired)
  BY <1>6 DEF IndInv, FileSound, ChainsRetireTrees, RetiredIds
<1> QED
  BY <1>5, <1>6, <1>7, <1>8

\* A chain stays resolved where its pages stay.
LEMMA ResolvedIsLocal ==
    ASSUME NEW P, NEW Q, NEW m, \A p \in m.chain : Q[p] = P[p], ResolvedChain(P, m)
    PROVE  ResolvedChain(Q, m)
<1>1. ChainRecords(Q, m) = ChainRecords(P, m)
  BY DEF ChainRecords
<1> QED
  BY <1>1 DEF ResolvedChain

\* Mutations and closing snapshots.
LEMMA RewritesKeepIds ==
    ASSUME IndInv, IndInv', IdsInv, Rewrites
    PROVE  IdsInv'
<1>1. /\ status = "open" /\ status' = "open" /\ sync.phase = "none" /\ sync'.phase = "none"
      /\ meta' = meta
  BY DEF Rewrites, Idle
<1>2. Settled = meta /\ Settled' = meta
  BY <1>1 DEF Settled
<1>3. ChainsResolved /\ HandleTraced
  BY <1>1, OpenIds
<1>4. \A p \in Named(Settled) : pages'[p] = pages[p] /\ pages[p].kind = "chain"
  <2>1. \A p \in Page : p < store.nextPage /\ p \notin Tree \union store.free
           => pages'[p] = pages[p]
    BY DEF Rewrites
  <2> QED
    BY <1>1, <1>3, <2>1, NamedPages DEF HandleTraced
<1>5. ChainsResolved'
  <2> SUFFICES ASSUME NEW i \in Slot, meta[i].kind = "meta"
               PROVE  ResolvedChain(pages', meta[i])
    BY <1>2 DEF ChainsResolved
  <2>1. \A p \in meta[i].chain : pages'[p] = pages[p]
    BY <1>2, <1>4 DEF Named
  <2>2. ResolvedChain(pages, meta[i])
    BY <1>2, <1>3 DEF ChainsResolved
  <2> QED
    BY <2>1, <2>2, ResolvedIsLocal
<1>6. Named(Settled)' = Named(Settled)
  BY <1>2 DEF Named
<1>7. \A p : Accounted(p)' <=> p \in Tree' \union store'.free \union RetiredIds(store'.retired)
  BY DEF Accounted
<1>8. \A p \in Tree' \union RetiredIds(store'.retired) : pages'[p].kind # "chain"
  <2>1. \A p \in Tree' : pages'[p].kind = "tree"
    BY <1>1 DEF IndInv, HandleSound
  <2>2. \A r \in store'.retired : pages'[r.id].kind # "chain"
    BY DEF Rewrites
  <2> QED
    BY <2>1, <2>2 DEF RetiredIds
<1>9. ASSUME NEW p \in FirstPage..(store'.nextPage - 1), Passed(p)
      PROVE  /\ pages'[p] = pages[p] /\ pages[p].kind = "chain"
             /\ p \in Named(Settled)
  <2>1. /\ p \notin Tree \union store.free \union RetiredIds(store.retired)
        /\ p < store.nextPage
    BY <1>9 DEF Passed, Accounted
  <2>2. p \in FirstPage..(store.nextPage - 1) /\ p \in Page
    BY <2>1, PageNumbers DEF IndInv, TypeOK, Stores
  <2>3. pages'[p] = pages[p]
    BY <2>1, <2>2 DEF Rewrites
  <2> QED
    BY <1>3, <2>1, <2>2, <2>3 DEF HandleTraced, Traced
<1>10. \A p \in FirstPage..(store'.nextPage - 1) : Accounted(p)' \/ Passed(p)
  BY DEF Rewrites
<1>11. Traced(store, Tree)'
  BY <1>7, <1>9, <1>10 DEF Traced
<1>12. \A p \in FirstPage..(store'.nextPage - 1) :
          pages'[p].kind = "chain" => p \in Named(Settled) \union store'.free
  BY <1>7, <1>8, <1>9, <1>10
<1>13. Named(Settled) \intersect store'.free = {}
  <2>1. \A x \in store'.free : x \in store.free \/ pages'[x].kind # "chain"
    BY DEF Rewrites
  <2> QED
    BY <1>3, <1>4, <2>1 DEF HandleTraced
<1>14. store'.chain \subseteq Named(Settled)
  BY <1>3 DEF HandleTraced, Rewrites
<1>15. HandleTraced'
  BY <1>6, <1>11, <1>12, <1>13, <1>14 DEF HandleTraced
<1> QED
  BY <1>1, <1>5, <1>15 DEF IdsInv, ChainsResolved, HandleTraced

\* Steps that leave ids and published chains alone.
LEMMA SameIds ==
    ASSUME IdsInv, status = "open", status' = "open", Settled' = Settled,
           UNCHANGED <<pages, store>>
    PROVE  IdsInv'
<1>1. ChainsResolved /\ HandleTraced
  BY OpenIds
<1>2. Tree' = Tree /\ Named(Settled)' = Named(Settled)
  BY DEF Tree, Named
<1>3. ChainsResolved' /\ HandleTraced'
  BY <1>1, <1>2 DEF ChainsResolved, HandleTraced, Traced
<1> QED
  BY <1>3 DEF IdsInv, ChainsResolved, HandleTraced

\* Sync fills a chain past nextPage; Close reclaims first.
LEMMA SyncBeginKeepsIds ==
    ASSUME IndInv, IdsInv, BeginSync
    PROVE  IdsInv'
<1>1. PICK closing \in BOOLEAN, n \in (store.nextPage - 1)..MaxPage :
         \E part \in [MetadataRecords(IF closing THEN Reclaimed(store, {}) ELSE store)
                         -> store.nextPage..n] :
            SyncBegin(closing, n, part)
  BY DEF BeginSync
<1> DEFINE st == IF closing THEN Reclaimed(store, {}) ELSE store
           chain == store.nextPage..n
           records == MetadataRecords(st)
<1>2. PICK part \in [records -> chain] : SyncBegin(closing, n, part)
  BY <1>1
<1>3. /\ status = "open" /\ status' = "open" /\ sync.phase = "none"
      /\ sync'.phase = "prepared"
      /\ store' = st /\ meta' = meta
      /\ pages' = [p \in Page |-> IF p \in chain
                                  THEN ChainPage({r \in records : part[r] = p})
                                  ELSE pages[p]]
  BY <1>2 DEF SyncBegin, Idle
<1>4. Settled = meta /\ Settled' = meta
  BY <1>3 DEF Settled
<1>5. ChainsResolved /\ HandleTraced
  BY <1>3, OpenIds
<1>6. /\ store \in Stores /\ pages \in [Page -> Bytes]
      /\ store.nextPage \in FirstPage..(MaxPage + 1)
      /\ store.root \in {0} \union Page
  BY DEF IndInv, TypeOK, Stores
<1>7. /\ store'.root = store.root /\ store'.nextPage = store.nextPage
      /\ store'.chain = store.chain
      /\ store.free \subseteq store'.free
      /\ store'.free \subseteq store.free \union RetiredIds(store.retired)
      /\ RetiredIds(store.retired) \subseteq store'.free \union RetiredIds(store'.retired)
  <2>1. CASE closing
    BY <1>3, <1>6, <2>1, ReclaimedStore
  <2>2. CASE ~closing
    BY <1>3, <2>2
  <2> QED
    BY <2>1, <2>2
<1>8. \A p \in FirstPage..(store.nextPage - 1) : p \in Page /\ pages'[p] = pages[p]
  BY <1>3, <1>6, PageNumbers
<1>9. Tree' = Tree
  <2>1. Tree \subseteq FirstPage..(store.nextPage - 1)
    BY <1>3 DEF IndInv, HandleSound
  <2>2. pages' \in [Page -> Bytes]
    <3>1. \A p \in Page : pages'[p] \in Bytes
      <4>1. records \subseteq ReclaimRecord
        BY <1>3, <1>6, ReclaimedStore, RecordsAreCounted
      <4> QED
        BY <1>3, <1>6, <4>1 DEF ChainPage, Bytes
    <3> HIDE DEF chain, records
    <3> QED
      BY <1>3, <3>1
  <2> QED
    BY <1>6, <1>7, <1>8, <2>1, <2>2, ImageIsLocal DEF Tree
<1>10. Named(Settled)' = Named(Settled)
  BY <1>4 DEF Named
<1>11. ChainsResolved'
  <2> SUFFICES ASSUME NEW i \in Slot, meta[i].kind = "meta"
               PROVE  ResolvedChain(pages', meta[i])
    BY <1>4 DEF ChainsResolved
  <2>1. \A p \in meta[i].chain : pages'[p] = pages[p]
    <3>1. meta[i].chain \subseteq Named(Settled)
      BY <1>4 DEF Named
    <3> QED
      BY <1>3, <1>5, <1>8, <3>1, NamedPages
  <2>2. ResolvedChain(pages, meta[i])
    BY <1>4, <1>5 DEF ChainsResolved
  <2> QED
    BY <2>1, <2>2, ResolvedIsLocal
<1>12. Traced(store, Tree)'
  BY <1>5, <1>7, <1>8, <1>9 DEF HandleTraced, Traced
<1>13. Named(Settled) \intersect store'.free = {}
  BY <1>3, <1>5, <1>7, NamedPages DEF HandleTraced
<1>14. HandleTraced'
  BY <1>5, <1>7, <1>8, <1>10, <1>12, <1>13 DEF HandleTraced
<1> QED
  BY <1>3, <1>11, <1>14 DEF IdsInv, ChainsResolved, HandleTraced
\* Opening a snapshot, flushing the pages and writing the meta page.
LEMMA QuietStepsKeepIds ==
    ASSUME IndInv, IdsInv, (\E s \in Snap : SnapshotOpen(s)) \/ SyncData \/ SyncMeta
    PROVE  IdsInv'
<1>1. TypeOK /\ pages' = pages /\ store' = store /\ status' = status
  BY DEF IndInv, SnapshotOpen, SyncData, SyncMeta
<1>2. status = "open"
  BY DEF IndInv, SnapshotOpen, SyncData, SyncMeta, Idle
<1>3. Settled' = Settled
  <2>1. CASE \E s \in Snap : SnapshotOpen(s)
    BY <2>1 DEF SnapshotOpen, Settled
  <2>2. CASE SyncData
    BY <1>1, <2>2 DEF SyncData, Settled, TypeOK
  <2>3. CASE SyncMeta
    <3> DEFINE slot == MetaSlot(store)
    <3>1. /\ sync.phase = "flushed" /\ sync' = [sync EXCEPT !.phase = "written"]
          /\ meta' = [meta EXCEPT ![slot] = MetaRecord(SyncStore)]
      BY <2>3 DEF SyncMeta
    <3>2. Settled = meta /\ slot \in Slot /\ sync.previous = meta[slot]
      BY <1>1, <1>2, <3>1, SettledBetween DEF IndInv, FileSound, SyncSound
    <3>3. sync'.phase = "written" /\ sync'.previous = meta[slot]
      BY <1>1, <3>1, <3>2 DEF TypeOK
    <3> HIDE DEF slot
    <3>4. [meta' EXCEPT ![slot] = meta[slot]] = meta
      BY <1>1, <3>1, <3>2 DEF TypeOK
    <3> QED
      BY <1>1, <3>2, <3>3, <3>4 DEF Settled, slot
  <2> QED
    BY <2>1, <2>2, <2>3
<1> QED
  BY <1>1, <1>2, <1>3, SameIds

\* Sync publishes its chain and frees the chains that are no longer named.
LEMMA SyncEndKeepsIds ==
    ASSUME IndInv, IdsInv, SyncEnd
    PROVE  IdsInv'
<1> DEFINE m == MetaRecord(SyncStore)
           slot == MetaSlot(store)
           gone == Obsolete(pages, meta, SyncStore)
<1>1. /\ sync.phase = "written"
      /\ store' = [SyncStore EXCEPT !.free = @ \union gone]
      /\ durable'.record = meta[slot]
      /\ status' = IF sync.closing THEN "down" ELSE "open"
      /\ sync'.phase = "none" /\ pages' = pages /\ meta' = meta
  BY DEF SyncEnd, NoSync
<1>2. /\ TypeOK /\ HandleSound /\ SyncSound /\ status = "open" /\ slot \in Slot
      /\ sync.chain = store.nextPage..(sync.nextPage - 1) /\ meta[slot] = m
      /\ \A p \in sync.chain : pages[p].kind = "chain"
  BY <1>1, SettledBetween DEF IndInv, FileSound, SyncSound
<1>3. ChainsResolved /\ HandleTraced
  BY <1>2, OpenIds
<1>4. /\ SyncStore \in Stores /\ SyncStore.root = store.root
      /\ SyncStore.nextPage = sync.nextPage /\ SyncStore.chain = sync.chain
      /\ SyncStore.free = store.free /\ SyncStore.retired = store.retired
      /\ store.nextPage \in Int /\ sync.nextPage \in Int
  BY <1>2, SyncStoreFields, PageNumbers DEF TypeOK, Stores
<1>5. /\ m.kind = "meta" /\ m.root = store.root /\ m.chain = sync.chain
      /\ ResolvedChain(pages, m)
  BY <1>1, <1>2, NewRecord DEF SoundRecord
<1>6. RecordedStore(pages, m) = SyncStore
  BY <1>1, <1>2, <1>4, PreparedIsPublishable, WrittenRecordIsSound
<1>7. /\ store'.root = store.root /\ store'.nextPage = sync.nextPage
      /\ store'.chain = sync.chain /\ store'.retired = store.retired
      /\ store'.free = store.free \union gone
  <2> HIDE DEF gone
  <2> QED
    BY <1>1, <1>4 DEF Stores
<1>8. gone = {p \in FirstPage..(sync.nextPage - 1) : pages[p].kind = "chain"}
                \ (Named(meta) \union sync.chain \union store.free)
  BY <1>4 DEF Obsolete
<1> HIDE DEF m, gone
<1>9. \A i \in Slot : i # slot => meta[i] = Settled[i]
  BY <1>1, <1>2 DEF Settled, slot, IndInv, TypeOK
<1>10. Settled' = meta /\ Named(Settled)' = Named(meta) /\ Named(meta)' = Named(meta)
  BY <1>1 DEF Settled, Named
<1>11. ChainsResolved'
  <2>1. \A i \in Slot : meta[i].kind = "meta" => ResolvedChain(pages, meta[i])
    BY <1>2, <1>3, <1>5, <1>9 DEF ChainsResolved
  <2> QED
    BY <1>1, <1>10, <2>1 DEF ChainsResolved
<1>12. sync.chain \subseteq Named(meta)
  BY <1>2, <1>5 DEF Named
<1>13. ASSUME NEW p \in Named(meta)
       PROVE  p \in sync.chain \/ p \in Named(Settled)
  <2>1. PICK i \in Slot : meta[i].kind = "meta" /\ p \in meta[i].chain
    BY DEF Named
  <2>2. CASE i = slot
    BY <1>2, <1>5, <2>1, <2>2
  <2>3. CASE i # slot
    <3>1. meta[i] = Settled[i]
      BY <1>9, <2>3
    <3> QED
      BY <2>1, <3>1 DEF Named
  <2> QED
    BY <2>2, <2>3
<1>14. Named(meta) \intersect store.free = {}
  <2>1. store.free \subseteq FirstPage..(store.nextPage - 1)
    BY <1>2 DEF HandleSound, ReusableSafely
  <2>2. \A p \in sync.chain : p \notin store.free
    BY <1>2, <1>4, <2>1, PageBounds
  <2> QED
    BY <1>3, <1>13, <2>2 DEF HandleTraced
<1>15. ASSUME NEW p \in FirstPage..(sync.nextPage - 1)
       PROVE  \/ p \in Tree \union store.free \union RetiredIds(store.retired)
              \/ pages[p].kind = "chain"
  <2>1. p \in FirstPage..(store.nextPage - 1) \/ p \in sync.chain
    BY <1>2, <1>4, PageBounds
  <2> QED
    BY <1>2, <1>3, <2>1 DEF HandleTraced, Traced
<1>16. CASE status' = "open"
  <2>1. Tree' = Tree
    BY <1>1, <1>7 DEF Tree
  <2>2. Traced(store, Tree)'
    BY <1>1, <1>7, <1>15, <2>1 DEF Traced
  <2>3. store'.chain \subseteq Named(meta)
    BY <1>7, <1>12
  <2>4. Named(meta) \intersect store'.free = {}
    BY <1>7, <1>8, <1>14
  <2>5. \A p \in FirstPage..(store'.nextPage - 1) :
           pages'[p].kind = "chain" => p \in Named(meta) \union store'.free
    BY <1>1, <1>7, <1>8, <1>12
  <2>6. HandleTraced'
    BY <1>10, <2>2, <2>3, <2>4, <2>5 DEF HandleTraced
  <2> QED
    BY <1>11, <1>16, <2>6 DEF IdsInv, ChainsResolved, HandleTraced
<1>17. CASE status' = "down"
  <2>1. durable'.record = m /\ RecordedStore(pages', durable'.record) = SyncStore
    BY <1>1, <1>2, <1>6
  <2>2. Reach(pages', durable'.record.root) = Tree
    BY <1>1, <1>5, <2>1 DEF Tree
  <2>3. Traced(RecordedStore(pages, durable.record), Reach(pages, durable.record.root))'
    BY <1>1, <1>4, <1>15, <2>1, <2>2 DEF Traced
  <2>4. Named(meta)' \intersect RecordedStore(pages', durable'.record).free = {}
    BY <1>4, <1>10, <1>14, <2>1
  <2> QED
    BY <1>11, <1>17, <2>3, <2>4 DEF IdsInv, ChainsResolved
<1> QED
  BY <1>1, <1>16, <1>17

\* A Sync that fails, outside Close, takes back what it wrote.
LEMMA SyncFailKeepsIds ==
    ASSUME IndInv, IdsInv, SyncFail, ~crash'.ended
    PROVE  IdsInv'
<1> DEFINE slot == MetaSlot(store)
<1>1. /\ sync.phase # "none"
      /\ meta' = [meta EXCEPT ![slot] = sync.previous]
      /\ sync.closing => status' \in {"doubt", "down"}
      /\ ~sync.closing => status' \in {"doubt", "open"}
      /\ sync.closing => crash' = [Standing(FALSE) EXCEPT !.phase = "none", !.record = Zero]
      /\ sync'.phase = "none" /\ pages' = pages /\ store' = store
  BY DEF SyncFail, NoSync
<1>2. /\ TypeOK /\ HandleSound /\ SyncSound /\ status = "open" /\ slot \in Slot
      /\ sync.previous = Settled[slot]
  BY <1>1, SettledBetween DEF IndInv, FileSound, SyncSound
<1>3. ~sync.closing
  BY <1>1, <1>2 DEF Standing
<1>4. meta' = Settled
  <2>1. CASE sync.phase = "written"
    BY <1>1, <2>1 DEF Settled
  <2>2. CASE sync.phase # "written"
    <3>1. Settled = meta /\ meta \in [Slot -> MetaPages]
      BY <1>2, <2>2 DEF Settled, TypeOK
    <3> HIDE DEF slot
    <3> QED
      BY <1>1, <1>2, <3>1
  <2> QED
    BY <2>1, <2>2
<1>5. Settled' = Settled
  BY <1>1, <1>4 DEF Settled
<1>6. CASE status' = "open"
  BY <1>1, <1>2, <1>5, <1>6, SameIds
<1>7. CASE status' = "doubt"
  BY <1>7 DEF IdsInv
<1> QED
  BY <1>1, <1>3, <1>6, <1>7

\* What Close left is opened on the record that it published.
LEMMA NewestIsDurable ==
    ASSUME IndInv, status = "down", ~crash.ended, NEW i \in Slot, Newest(meta, i)
    PROVE  meta[i] = durable.record /\ meta[i] \in MetaRecords /\ Settled = meta
<1>1. /\ TypeOK /\ RecordsOrdered /\ sync.phase = "none" /\ Known /\ DurableNewest(meta)
  BY DEF IndInv, FileSound, DownSound
<1>2. /\ meta[i] \in MetaRecords /\ meta[i].revision \in Int
      /\ \A j \in Slot : \A n \in Published(j) : n.revision <= meta[i].revision
  BY <1>1, NewestAllotsMost, RecordFields
<1>3. Settled = meta
  BY <1>1 DEF Settled
<1>4. /\ durable.record \in MetaRecords /\ durable.record.revision \in Int
      /\ durable.record.kind = "meta"
  BY <1>1, RecordFields DEF TypeOK, Known
<1>5. DurableSlot \in Slot /\ i \in {DurableSlot, 1 - DurableSlot}
  BY <1>4 DEF DurableSlot, Slot
<1>6. /\ meta[DurableSlot] = durable.record
      /\ meta[1 - DurableSlot].kind = "meta"
            => meta[1 - DurableSlot].revision < durable.record.revision
  BY <1>1 DEF DurableNewest
<1>7. durable.record.revision <= meta[i].revision
  BY <1>2, <1>3, <1>4, <1>5, <1>6 DEF Published
<1>8. i # 1 - DurableSlot
  BY <1>2, <1>4, <1>6, <1>7 DEF MetaRecords
<1> QED
  BY <1>2, <1>3, <1>5, <1>6, <1>8

\* OpenMmap frees the chains that nothing names.
LEMMA OpenKeepsIds ==
    ASSUME IndInv, IdsInv, ~crash.ended, NEW i \in Slot, Open(i)
    PROVE  IdsInv'
<1> DEFINE m == meta[i]
           found == RecordedStore(pages, m)
           gone == Obsolete(pages, meta, found)
<1>1. /\ status = "down" /\ status' = "open" /\ Newest(meta, i)
      /\ store' = [found EXCEPT !.free = @ \union gone]
      /\ pages' = pages /\ meta' = meta /\ sync'.phase = "none"
  BY DEF Open, IndInv, FileSound, DownSound
<1>2. m = durable.record /\ m \in MetaRecords /\ Settled = meta
  BY <1>1, NewestIsDurable
<1>3. /\ ChainsResolved
      /\ Traced(found, Reach(pages, m.root))
      /\ Named(meta) \intersect found.free = {}
  BY <1>1, <1>2 DEF IdsInv, ChainsResolved
<1>4. /\ found \in Stores /\ found.root = m.root /\ found.nextPage = m.nextPage
      /\ found.chain = m.chain
  <2>1. pages \in [Page -> Bytes]
    BY DEF IndInv, TypeOK
  <2> HIDE DEF m
  <2> QED
    BY <1>2, <2>1, RecordedIsTyped
<1>5. /\ store'.root = m.root /\ store'.nextPage = found.nextPage
      /\ store'.chain = m.chain /\ store'.retired = found.retired
      /\ store'.free = found.free \union gone
  <2> HIDE DEF m, found, gone
  <2> QED
    BY <1>1, <1>4 DEF Stores
<1>6. gone = {p \in FirstPage..(found.nextPage - 1) : pages[p].kind = "chain"}
                \ (Named(meta) \union m.chain \union found.free)
  BY <1>4 DEF Obsolete
<1>7. m.chain \subseteq Named(meta)
  BY <1>2, RecordFields DEF Named
<1> HIDE DEF m, found, gone
<1>8. Settled' = meta /\ Named(Settled)' = Named(meta)
  BY <1>1, <1>2 DEF Settled, Named
<1>9. ChainsResolved'
  BY <1>1, <1>2, <1>3, <1>8 DEF ChainsResolved
<1>10. Tree' = Reach(pages, m.root)
  BY <1>1, <1>5 DEF Tree
<1>11. Traced(store, Tree)'
  BY <1>1, <1>3, <1>5, <1>10 DEF Traced
<1>12. Named(meta) \intersect store'.free = {}
  BY <1>3, <1>5, <1>6
<1>13. \A p \in FirstPage..(store'.nextPage - 1) :
          pages'[p].kind = "chain" => p \in Named(meta) \union store'.free
  BY <1>1, <1>5, <1>6, <1>7
<1>14. HandleTraced'
  BY <1>5, <1>7, <1>8, <1>11, <1>12, <1>13 DEF HandleTraced
<1> QED
  BY <1>1, <1>9, <1>14 DEF IdsInv, ChainsResolved, HandleTraced

\* A new database has no ids yet.
LEMMA InitHasIds ==
    ASSUME Init
    PROVE  IdsInv
<1>1. /\ status = "open" /\ store = NewStore /\ sync = NoSync
      /\ meta = [i \in Slot |-> IF i = 0 THEN MetaRecord(NewStore) ELSE Zero]
  BY DEF Init
<1>2. Settled = meta
  BY <1>1 DEF Settled, NoSync
<1>3. MetaRecord(NewStore).chain = {} /\ NewStore.chain = {} /\ NewStore.free = {}
      /\ NewStore.nextPage = FirstPage
  BY DEF MetaRecord, NewStore
<1>4. \A i \in Slot : Settled[i].kind = "meta" => Settled[i].chain = {}
  BY <1>1, <1>2, <1>3 DEF Zero
<1>5. ChainsResolved
  BY <1>4 DEF ChainsResolved, ResolvedChain
<1>6. FirstPage..(store.nextPage - 1) = {}
  BY <1>1, <1>3 DEF FirstPage
<1>7. HandleTraced
  BY <1>1, <1>3, <1>6 DEF HandleTraced, Traced
<1> QED
  BY <1>1, <1>5, <1>7, OpenIds

LEMMA StepKeepsIds ==
    ASSUME IndInv, IndInv', IdsInv, ~crash.ended, ~crash'.ended, [Next]_vars
    PROVE  IdsInv'
<1>1. CASE MutateTree \/ CloseSnapshot
  <2>1. status = "open"
    BY <1>1 DEF MutateTree, CloseSnapshot, SnapshotClose, Idle
  <2>2. Rewrites
    BY <1>1, <2>1, MutateRewrites, CloseRewrites DEF IndInv, FileSound
  <2> QED
    BY <2>2, RewritesKeepIds
<1>2. CASE (\E s \in Snap : SnapshotOpen(s)) \/ SyncData \/ SyncMeta
  BY <1>2, QuietStepsKeepIds
<1>3. CASE BeginSync
  BY <1>3, SyncBeginKeepsIds
<1>4. CASE SyncEnd
  BY <1>4, SyncEndKeepsIds
<1>5. CASE SyncFail
  BY <1>5, SyncFailKeepsIds
<1>6. ~ProcessCrash /\ ~LosePower
  BY DEF ProcessCrash, LosePower, PowerLoss, Standing
<1>7. ASSUME NEW i \in Slot, Open(i)
      PROVE  IdsInv'
  BY <1>7, OpenKeepsIds
<1>8. CASE OpenPasses
  BY <1>8 DEF OpenPasses, IdsInv
<1>9. CASE UNCHANGED vars
  <2>1. /\ status' = status /\ pages' = pages /\ store' = store /\ meta' = meta
        /\ sync' = sync /\ durable' = durable
    BY <1>9 DEF vars
  <2>2. Settled' = Settled /\ Tree' = Tree
    BY <2>1 DEF Settled, Tree
  <2> QED
    BY <2>1, <2>2 DEF IdsInv, Named, Traced
<1> QED
  BY <1>1, <1>2, <1>3, <1>4, <1>5, <1>6, <1>7, <1>8, <1>9 DEF Next

----------------------------------------------------------------------------
(* The theorems, of files that every process leaves by a Close that succeeds *)

\* Whatever is written, synced and closed, an id below nextPage that neither the
\* tree nor the free list nor a retired record holds is that of a chain page, the
\* chains that meta pages name are not free, all others are, and OpenMmap finds
\* the same (reclaimObsoleteMetaFreelistPages, prepareMetaFreelistPages).
THEOREM IdsStayTraced == Spec /\ []LeftByClose => []IdsInv
<1>1. Init => IdsInv
  BY InitHasIds
<1>2. IndInv /\ IndInv' /\ LeftByClose /\ LeftByClose' /\ IdsInv /\ [Next]_vars => IdsInv'
  BY StepKeepsIds DEF LeftByClose
<1> QED
  BY <1>1, <1>2, DurableInvariant, PTL DEF Spec

\* Between operations every id below nextPage is in the tree, free, retired or
\* in a chain that a meta page names: Sync, a Sync that fails, Close and Open,
\* in any order with mutations under snapshots, lose none.
THEOREM NoPageIsLost == Spec /\ []LeftByClose => []NoPageLost
<1>1. IdsInv => NoPageLost
  <2> SUFFICES ASSUME IdsInv, Idle, NEW p \in FirstPage..(store.nextPage - 1)
               PROVE  p \in Tree \union store.free \union RetiredIds(store.retired)
                               \union Named(meta)
    BY DEF NoPageLost
  <2>1. status = "open" /\ Settled = meta
    BY DEF Idle, Settled
  <2>2. HandleTraced
    BY <2>1, OpenIds
  <2> QED
    BY <2>1, <2>2 DEF HandleTraced, Traced
<1> QED
  BY <1>1, IdsStayTraced, PTL

\* No mutation, snapshot or Sync writes to a page of a chain that a meta page
\* names: both can be read, with as many records as they say, so recovery has
\* the older to go back to (reclaimObsoleteMetaFreelistPages, resolveMetaReclaim).
THEOREM ChainsStayIntact == Spec /\ []LeftByClose => []ChainsIntact
<1>1. IdsInv => ChainsIntact
  BY DEF IdsInv, ChainsIntact, Idle, Settled
<1> QED
  BY <1>1, IdsStayTraced, PTL
=============================================================================
