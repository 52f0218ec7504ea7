------------------------------ MODULE DurableTree ------------------------------
(***************************************************************************)
(* What a file keeps of a tree whatever its shape: MmapSync.tla with the   *)
(* B+tree left out.  A page of the tree is a body, which names the pages   *)
(* below it, and a sibling link; which bodies make a valid tree and which  *)
(* links are right is left open.  Mutations write pages of the mapping,    *)
(* Sync publishes a root through one of two meta pages, the process or the *)
(* machine stops anywhere, and OpenMmap recovers a root.                   *)
(*                                                                         *)
(* A behaviour ends where recovery passes over the newest meta page and    *)
(* where a failed Sync leaves a meta page on disk that it took back in the *)
(* mapping (status "doubt"); MmapSync goes on and shows what then happens. *)
(* As there, the file neither grows nor shrinks, the tree is used by one   *)
(* goroutine, and a batch is not told from a mutation.                     *)
(***************************************************************************)
EXTENDS Integers, FiniteSets

CONSTANTS
    Body,             \* what a tree page holds besides its sibling link
    Below(_),         \* the ids that a body names: children, overflow pages
    Link,             \* what a sibling link can be
    Length,           \* what the number of keys can be
    ValidTree(_,_,_), \* root, length and image (id -> page) pass loadMeta's checks
    Linked(_,_),      \* the links between the leaves of root and image are right
    Snap,             \* snapshot handles
    MaxPage,          \* bound: page ids are FirstPage..MaxPage
    MaxAllocated,     \* bound: pages that one mutation allocates
    MaxRevision,      \* bound: revisions are 0..MaxRevision
    MaxMetaFree,      \* maxMetaFreePages: free ids that fit the meta page
    RecordsPerPage,   \* freelistPageCapacity, reclaimPageCapacity
    MaxSyncs,         \* bound: calls of Sync, the one by Close included
    MaxEnds,          \* bound: ends of the process or of power
    MaxTorn           \* bound: pages that an end of power leaves half written

FirstPage == 2
Page == FirstPage..MaxPage
Revision == 0..MaxRevision
Slot == 0..1
NoRevision == -1
NoImage == [p \in {} |-> {}]

ASSUME BoundsAreNat == MaxPage \in Nat \ {0} /\ MaxRevision \in Nat /\ MaxMetaFree \in Nat
ASSUME SomeRecords == RecordsPerPage \in Nat \ {0}
ASSUME BelowArePages == \A b \in Body : Below(b) \subseteq Page
ASSUME EmptyIsTree == 0 \in Length /\ ValidTree(0, 0, NoImage) /\ Linked(0, NoImage)

\* A record of a freelist or reclaim page; revision 0 stands for a free id.
ReclaimRecord == [id : Page, revision : Revision]

TreePage == [kind : {"tree"}, body : Body, next : Link]
ChainPage(records) == [kind |-> "chain", records |-> records]
Torn == [kind |-> "torn"]    \* a page whose checksum does not match
Blank == [kind |-> "blank"]  \* a page that was never written
Bytes == TreePage \union [kind : {"chain"}, records : SUBSET ReclaimRecord] \union {Torn, Blank}

VARIABLES
    status,  \* "open", "down" (no process has the file), "refused" or "doubt"
    pages,   \* the pages of the mapping
    store,   \* the handle: root, length, revision, nextPage, free, retired, chain
    meta,    \* the two meta pages of the mapping
    dirty,   \* arena.dirtyPages
    snaps,   \* handle -> the revision it pins, or NoRevision
    sync,    \* the Sync in progress and what it restores if it fails
    disk,    \* what an end of power leaves: pages and meta pages
    durable, \* history: the record of the last Sync that succeeded, its tree, and
             \* whether the bytes of the tree changed since (quiet)
    crash,   \* history: how things stood when the process ended
    count    \* Syncs, and ends of the process or of power

vars == <<status, pages, store, meta, dirty, snaps, sync, disk, durable, crash, count>>

Zero == [kind |-> "zero"]  \* a meta page that was never written, or no record

Readers == {snaps[s] : s \in Snap} \ {NoRevision}

----------------------------------------------------------------------------
(* Trees *)

BelowPage(b) == IF b.kind = "tree" THEN Below(b.body) ELSE {}

\* S holds the root and, with each page, the pages it names.
ClosedUnder(P, root, S) ==
    /\ root # 0 => root \in S
    /\ \A p \in S : BelowPage(P[p]) \subseteq S

\* The pages that the root or another page names.
Nameable(P, root) == Page \intersect ({root} \union UNION {BelowPage(P[p]) : p \in Page})

\* The pages that a walk from the root meets: those in every such set.
Reach(P, root) ==
    LET closed == {S \in SUBSET Nameable(P, root) : ClosedUnder(P, root, S)}
    IN {p \in Nameable(P, root) : \A S \in closed : p \in S}

Image(P, root) == [p \in Reach(P, root) |-> P[p]]

Tree == Reach(pages, store.root)

RetiredIds(retired) == {r.id : r \in retired}

----------------------------------------------------------------------------
(* Metadata: what Sync writes *)

\* The records of the chain: with retired pages those and the free ids, else
\* the free ids if they do not fit the meta page.
MetadataRecords(st) ==
    LET free == [id : st.free, revision : {0}]
    IN IF st.retired # {} THEN free \union st.retired
       ELSE IF Cardinality(st.free) > MaxMetaFree THEN free ELSE {}

MetaRecord_CountsRetired(st) ==  \* slip: the free ids in the chain are not counted
    [kind |-> "meta", revision |-> st.revision, root |-> st.root, length |-> st.length,
     nextPage |-> st.nextPage, chain |-> st.chain,
     free |-> IF st.chain = {} THEN st.free ELSE {},
     count |-> Cardinality(st.retired)]
\* persistMeta
MetaRecord(st) ==
    [kind |-> "meta", revision |-> st.revision, root |-> st.root, length |-> st.length,
     nextPage |-> st.nextPage, chain |-> st.chain,
     free |-> IF st.chain = {} THEN st.free ELSE {},
     count |-> Cardinality(MetadataRecords(st))]

MetaSlot(st) == st.revision % 2

\* The chains that the meta pages name, one that cannot be read aside.
Named(metas) == UNION {metas[i].chain : i \in {j \in Slot : metas[j].kind = "meta"}}

Obsolete_Own(P, metas, st) ==  \* slip: the chain in use is freed too
    {p \in FirstPage..(st.nextPage - 1) : P[p].kind = "chain"} \ st.free
\* reclaimObsoleteMetaFreelistPages
Obsolete(P, metas, st) ==
    {p \in FirstPage..(st.nextPage - 1) : P[p].kind = "chain"}
        \ (Named(metas) \union st.chain \union st.free)

----------------------------------------------------------------------------
(* Recovery: loadMeta *)

\* The meta pages whose record passes the checks on the page itself.
Candidates(metas) == {i \in Slot : metas[i].kind = "meta" /\ metas[i].revision % 2 = i}

\* The pages that recovery loads.
Listed(metas) == {p \in Page : \E i \in Candidates(metas) : p < metas[i].nextPage}

ChainRecords(P, m) == UNION {P[p].records : p \in {q \in m.chain : P[q].kind = "chain"}}

\* The store that a record and its chain describe.
RecordedStore(P, m) ==
    LET records == ChainRecords(P, m)
    IN [root |-> m.root, length |-> m.length, revision |-> m.revision,
        nextPage |-> m.nextPage, chain |-> m.chain,
        free |-> IF m.chain = {} THEN m.free
                 ELSE {r.id : r \in {q \in records : q.revision = 0}},
        retired |-> {r \in records : r.revision # 0}]

\* resolveMetaFreelist and resolveMetaReclaim
ResolvedChain(P, m) ==
    /\ \A p \in m.chain : p < m.nextPage /\ P[p].kind = "chain"
    /\ m.chain # {} => Cardinality(ChainRecords(P, m)) = m.count

\* validateFreelist and validateRetiredPages
ReusableSafely(st, reached) ==
    /\ st.free \union RetiredIds(st.retired) \subseteq FirstPage..(st.nextPage - 1)
    /\ st.free \intersect RetiredIds(st.retired) = {}
    /\ \A q, r \in st.retired : q.id = r.id => q = r
    /\ (st.free \union RetiredIds(st.retired)) \intersect (reached \union st.chain) = {}
    /\ \A r \in st.retired : r.revision \in 1..st.revision

\* What loadMeta verifies of a candidate, the sibling links aside.
SoundRecord(P, listed, m) ==
    LET reached == Reach(P, m.root)
    IN /\ ResolvedChain(P, m)
       /\ reached \subseteq listed
       /\ \A p \in reached : P[p].kind = "tree"
       /\ ValidTree(m.root, m.length, Image(P, m.root))
       /\ reached \intersect m.chain = {}
       /\ ReusableSafely(RecordedStore(P, m), reached)

Usable(P, metas, i) ==
    /\ SoundRecord(P, Listed(metas), metas[i])
    /\ Linked(metas[i].root, Image(P, metas[i].root))

UsableSlots == {i \in Candidates(meta) : Usable(pages, meta, i)}

\* Slot i has the newest of the candidates.
Newest(metas, i) ==
    /\ i \in Candidates(metas)
    /\ \A j \in Candidates(metas) : metas[j].revision <= metas[i].revision

----------------------------------------------------------------------------
(* States *)

NoSync == [phase |-> "none", nextPage |-> FirstPage, chain |-> {}, closing |-> FALSE,
           dirty |-> {}, previous |-> Zero]

NotEnded == [ended |-> FALSE, power |-> FALSE, phase |-> "none", pinned |-> FALSE,
             inherits |-> FALSE, metaFlushed |-> FALSE, record |-> Zero,
             image |-> NoImage, linked |-> FALSE]

\* What a Sync in progress will publish.
SyncStore == [store EXCEPT !.nextPage = sync.nextPage, !.chain = sync.chain]

NewStore == [root |-> 0, length |-> 0, revision |-> 0, nextPage |-> FirstPage,
             free |-> {}, retired |-> {}, chain |-> {}]

\* A new database: one meta page of revision 0 is on disk.
Init ==
    /\ status = "open"
    /\ pages = [p \in Page |-> Blank]
    /\ store = NewStore
    /\ meta = [i \in Slot |-> IF i = 0 THEN MetaRecord(NewStore) ELSE Zero]
    /\ dirty = {}
    /\ snaps = [s \in Snap |-> NoRevision]
    /\ sync = NoSync
    /\ disk = [pages |-> pages, meta |-> meta]
    /\ durable = [record |-> meta[0], image |-> NoImage, linked |-> TRUE, quiet |-> TRUE]
    /\ crash = NotEnded
    /\ count = [syncs |-> 0, ends |-> 0]

Idle == status = "open" /\ sync.phase = "none"

\* reclaimRetiredPages: a record stays while a reader is not newer.
Pinned(readers, v) == \E w \in readers : w <= v
Reclaimed_Strict(st, readers) ==  \* slip: a reader of the record's own revision is ignored
    LET gone == {r \in st.retired : ~\E w \in readers : w < r.revision}
    IN [st EXCEPT !.retired = @ \ gone, !.free = @ \union RetiredIds(gone)]
Reclaimed(st, readers) ==
    LET gone == {r \in st.retired : ~Pinned(readers, r.revision)}
    IN [st EXCEPT !.retired = @ \ gone, !.free = @ \union RetiredIds(gone)]

\* allocPage takes free ids first and grows nextPage when there are none left.
Allocatable(F, n) ==
    /\ F \subseteq store.free
    /\ n \in (store.nextPage - 1)..MaxPage
    /\ n >= store.nextPage => F = store.free

Allocated(F, n) == F \union (store.nextPage..n)

\* newPage writes the allocated pages.
Written(F, n, new) == [p \in Page |-> IF p \in Allocated(F, n) THEN new[p] ELSE pages[p]]

\* relinkLeaves sets the links of the leaves of ids in place, if no snapshot
\* is open.
Relinked(P, ids, next, readers) ==
    [p \in Page |-> IF readers = {} /\ p \in ids THEN [P[p] EXCEPT !.next = next[p]] ELSE P[p]]

\* What newPage and relinkLeaves mark dirty.
DirtyAfter(F, n) ==
    dirty \union Allocated(F, n) \union {p \in Page : pages'[p] # pages[p]}

\* Put, Delete or a commit: below a new root the tree takes over pages of the one
\* before and allocated ones; what it drops of both is retired.  At revision 0
\* nothing is retired: the first Put finds no page to copy.
Mutate(F, n, new, root, length, next) ==
    /\ Idle
    /\ store.revision < MaxRevision
    /\ Allocatable(F, n)
    /\ LET written == Written(F, n, new)
           reached == Reach(written, root)
           dropped == (Tree \union Allocated(F, n)) \ reached
           staged == [root |-> root, length |-> length, revision |-> store.revision + 1,
                      nextPage |-> n + 1, free |-> store.free \ F, chain |-> store.chain,
                      retired |-> store.retired
                                  \union [id : dropped, revision : {store.revision}]]
       IN /\ root \in {0} \union Allocated(F, n)
          /\ reached \subseteq Tree \union Allocated(F, n)
          /\ store.revision = 0 => dropped = {}
          /\ pages' = Relinked(written, reached, next, Readers)
          /\ ValidTree(root, length, Image(pages', root))
          /\ Readers = {} => Linked(root, Image(pages', root))
          /\ store' = Reclaimed(staged, Readers)
    /\ dirty' = DirtyAfter(F, n)
    /\ durable' = [durable EXCEPT !.quiet = FALSE]
    /\ UNCHANGED <<status, meta, snaps, sync, disk, crash, count>>

SnapshotOpen(s) ==
    /\ Idle
    /\ snaps[s] = NoRevision
    /\ snaps' = [snaps EXCEPT ![s] = store.revision]
    /\ UNCHANGED <<status, pages, store, meta, dirty, sync, disk, durable, crash, count>>

\* Snapshot.Close reclaims, and the last one to close repairs the links.
SnapshotClose(s, next) ==
    /\ Idle
    /\ snaps[s] # NoRevision
    /\ snaps' = [snaps EXCEPT ![s] = NoRevision]
    /\ store' = Reclaimed(store, Readers')
    /\ IF Linked(store.root, Image(pages, store.root))
       THEN UNCHANGED pages
       ELSE pages' = Relinked(pages, Tree, next, Readers')
    /\ Readers' = {} => Linked(store.root, Image(pages', store.root))
    /\ ValidTree(store.root, store.length, Image(pages', store.root))
    /\ dirty' = dirty \union {p \in Page : pages'[p] # pages[p]}
    /\ durable' = [durable EXCEPT !.quiet = @ /\ pages' = pages]
    /\ UNCHANGED <<status, meta, sync, disk, crash, count>>

----------------------------------------------------------------------------
(* Sync, in the steps between which it can be interrupted: syncMmap *)

\* prepareMetaFreelistPages fills a chain of new pages, part says which record
\* goes where.  Close reclaims first and is refused under a snapshot.
SyncBegin(closing, n, part) ==
    LET st == IF closing THEN Reclaimed(store, {}) ELSE store
        chain == store.nextPage..n
        records == MetadataRecords(st)
    IN /\ Idle
       /\ count.syncs < MaxSyncs
       /\ closing => Readers = {}
       /\ store' = st
       /\ n \in (store.nextPage - 1)..MaxPage
       /\ Cardinality(chain) = (Cardinality(records) + RecordsPerPage - 1) \div RecordsPerPage
       /\ part \in [records -> chain]
       /\ \A p \in chain : Cardinality({r \in records : part[r] = p}) <= RecordsPerPage
       /\ pages' = [p \in Page |-> IF p \in chain
                                   THEN ChainPage({r \in records : part[r] = p})
                                   ELSE pages[p]]
       /\ sync' = [phase |-> "prepared", nextPage |-> n + 1, chain |-> chain,
                   closing |-> closing, dirty |-> dirty, previous |-> meta[MetaSlot(store)]]
       /\ dirty' = dirty \union chain
       /\ count' = [count EXCEPT !.syncs = @ + 1]
       /\ UNCHANGED <<status, meta, snaps, disk, durable, crash>>

\* fsync: every byte of the file is on disk, written through the mapping or not.
Fsynced == [pages |-> pages, meta |-> meta]

SyncData_Skipped ==  \* slip: a tree without metadata chain is not flushed
    /\ sync.phase = "prepared"
    /\ disk' = IF sync.chain # {} THEN Fsynced ELSE disk
    /\ sync' = [sync EXCEPT !.phase = "flushed"]
    /\ dirty' = {}
    /\ UNCHANGED <<status, pages, store, meta, snaps, durable, crash, count>>
\* syncDataPages: the dirty pages below nextPage are flushed and the file is
\* synced, unless there is none.
SyncData ==
    /\ sync.phase = "prepared"
    /\ disk' = IF \E p \in dirty : p < sync.nextPage THEN Fsynced ELSE disk
    /\ sync' = [sync EXCEPT !.phase = "flushed"]
    /\ dirty' = {}
    /\ UNCHANGED <<status, pages, store, meta, snaps, durable, crash, count>>

\* publishMeta writes the meta page of the revision into the mapping ...
SyncMeta ==
    /\ sync.phase = "flushed"
    /\ sync' = [sync EXCEPT !.phase = "written"]
    /\ meta' = [meta EXCEPT ![MetaSlot(store)] = MetaRecord(SyncStore)]
    /\ UNCHANGED <<status, pages, store, dirty, snaps, disk, durable, crash, count>>

\* ... and flushes it; then the chains that nothing names any more are freed.
SyncEnd ==
    /\ sync.phase = "written"
    /\ disk' = Fsynced
    /\ store' = [SyncStore EXCEPT !.free = @ \union Obsolete(pages, meta, SyncStore)]
    /\ durable' = [record |-> meta[MetaSlot(store)], image |-> Image(pages, store.root),
                   linked |-> Linked(store.root, Image(pages, store.root)),
                   quiet |-> TRUE]
    /\ status' = IF sync.closing THEN "down" ELSE "open"
    /\ sync' = NoSync
    /\ UNCHANGED <<pages, meta, dirty, snaps, crash, count>>

\* How things stand, for the properties of the recovery that follows.
Standing(power) ==
    LET image == Image(pages, store.root) IN
    [ended |-> TRUE, power |-> power, phase |-> sync.phase,
     pinned |-> durable.record.kind = "meta" /\ durable.record.revision \in Readers,
     inherits |-> durable.record = Zero,
     metaFlushed |-> meta = disk.meta,
     record |-> IF sync.phase = "none" THEN Zero ELSE MetaRecord(SyncStore),
     image |-> image,
     linked |-> Linked(store.root, image)]

\* A step of Sync or Close returns an error: the meta page in the mapping is
\* restored, whether or not its new bytes reached the disk.  Sync restores
\* nextPage, the chain and the dirty set; Close closes all the same.
SyncFail ==
    LET slot == MetaSlot(store)
    IN /\ sync.phase # "none"
       /\ meta' = [meta EXCEPT ![slot] = sync.previous]
       /\ \E arrived \in {disk.meta[slot], meta[slot]} :
             disk' = [disk EXCEPT !.meta = [@ EXCEPT ![slot] = arrived]]
       /\ status' = IF disk'.meta # meta' THEN "doubt"
                    ELSE IF sync.closing THEN "down" ELSE "open"
       /\ dirty' = IF sync.closing THEN {} ELSE sync.dirty
       /\ crash' = IF sync.closing
                   THEN [Standing(FALSE) EXCEPT !.phase = "none", !.record = Zero]
                   ELSE crash
       /\ sync' = NoSync
       /\ UNCHANGED <<pages, store, snaps, durable, count>>

----------------------------------------------------------------------------
(* The end of the process and of power, and recovery *)

Down ==
    /\ status = "open"
    /\ count.ends < MaxEnds
    /\ count' = [count EXCEPT !.ends = @ + 1]
    /\ status' = "down"
    /\ store' = NewStore
    /\ dirty' = {}
    /\ snaps' = [s \in Snap |-> NoRevision]
    /\ sync' = NoSync

\* The process is killed: the file holds every byte of the mapping.
ProcessCrash ==
    /\ crash' = Standing(FALSE)
    /\ Down
    /\ UNCHANGED <<pages, meta, disk, durable>>

Unflushed == {p \in Page : disk.pages[p] # pages[p]}
UnflushedMeta == {i \in Slot : disk.meta[i] # meta[i]}

\* Power ends, in an operation or between two: of what was not flushed some has
\* reached the disk in time, some only in part.
PowerLoss(arrived, torn, arrivedMeta, tornMeta) ==
    /\ crash' = Standing(TRUE)
    /\ Cardinality(torn) + Cardinality(tornMeta) <= MaxTorn
    /\ pages' = [p \in Page |-> IF p \in torn THEN Torn
                                ELSE IF p \in arrived THEN pages[p] ELSE disk.pages[p]]
    /\ meta' = [i \in Slot |-> IF i \in tornMeta THEN Torn
                               ELSE IF i \in arrivedMeta THEN meta[i] ELSE disk.meta[i]]
    /\ disk' = [pages |-> pages', meta |-> meta']
    /\ Down
    /\ UNCHANGED durable

\* OpenMmap: the newest candidate is usable, and the chains that nothing names
\* are freed.
Open(i) ==
    /\ status = "down"
    /\ Newest(meta, i) /\ Usable(pages, meta, i)
    /\ status' = "open"
    /\ LET found == RecordedStore(pages, meta[i])
       IN store' = [found EXCEPT !.free = @ \union Obsolete(pages, meta, found)]
    /\ durable' = IF crash.ended THEN [durable EXCEPT !.record = Zero, !.quiet = FALSE]
                  ELSE durable
    /\ crash' = NotEnded
    /\ UNCHANGED <<pages, meta, dirty, snaps, sync, disk, count>>

\* The newest candidate is not usable: the older one is taken, or none.
OpenPasses ==
    /\ status = "down"
    /\ \A i \in Slot : Newest(meta, i) => ~Usable(pages, meta, i)
    /\ status' = IF UsableSlots = {} THEN "refused" ELSE "doubt"
    /\ UNCHANGED <<pages, store, meta, dirty, snaps, sync, disk, durable, crash, count>>

\* The links that relinkLeaves may set.
Relinks(ids, readers) == [IF readers = {} THEN ids ELSE {} -> Link]

MutateTree ==
    \E F \in SUBSET store.free, n \in (store.nextPage - 1)..MaxPage :
        /\ Idle
        /\ Allocatable(F, n)
        /\ Cardinality(Allocated(F, n)) <= MaxAllocated
        /\ \E new \in [Allocated(F, n) -> TreePage],
              root \in {0} \union Allocated(F, n) :
              \E length \in Length, next \in Relinks(Reach(Written(F, n, new), root), Readers) :
                 Mutate(F, n, new, root, length, next)

CloseSnapshot ==
    \E s \in Snap :
        \E next \in Relinks(Tree, Readers \ {snaps[s]}) : SnapshotClose(s, next)

BeginSync ==
    \E closing \in BOOLEAN, n \in (store.nextPage - 1)..MaxPage :
        LET records == MetadataRecords(IF closing THEN Reclaimed(store, {}) ELSE store)
        IN \E part \in [records -> store.nextPage..n] : SyncBegin(closing, n, part)

LosePower ==
    \E arrived \in SUBSET Unflushed, arrivedMeta \in SUBSET UnflushedMeta :
        \E torn \in SUBSET (Unflushed \ arrived), tornMeta \in SUBSET (UnflushedMeta \ arrivedMeta) :
           PowerLoss(arrived, torn, arrivedMeta, tornMeta)

Next ==
    \/ MutateTree
    \/ \E s \in Snap : SnapshotOpen(s)
    \/ CloseSnapshot
    \/ BeginSync
    \/ SyncData
    \/ SyncMeta
    \/ SyncEnd
    \/ SyncFail
    \/ ProcessCrash
    \/ LosePower
    \/ \E i \in Slot : Open(i)
    \/ OpenPasses

Spec == Init /\ [][Next]_vars

----------------------------------------------------------------------------
(* Properties *)

MetaRecords ==
    [kind : {"meta"}, revision : Revision, root : {0} \union Page, length : Length,
     nextPage : FirstPage..(MaxPage + 1), chain : SUBSET Page, free : SUBSET Page,
     count : Nat]
MetaPages == MetaRecords \union {Zero, Torn}
Stores ==
    [root : {0} \union Page, length : Length, revision : Revision,
     nextPage : FirstPage..(MaxPage + 1), free : SUBSET Page,
     retired : SUBSET ReclaimRecord, chain : SUBSET Page]

\* Type correctness of the mapping, the handle, the disk and the histories.
TypeOK ==
    /\ status \in {"open", "down", "refused", "doubt"}
    /\ pages \in [Page -> Bytes]
    /\ store \in Stores
    /\ meta \in [Slot -> MetaPages]
    /\ dirty \in SUBSET Page
    /\ snaps \in [Snap -> {NoRevision} \union Revision]
    /\ sync \in [phase : {"none", "prepared", "flushed", "written"},
                 nextPage : FirstPage..(MaxPage + 1), chain : SUBSET Page,
                 closing : BOOLEAN, dirty : SUBSET Page, previous : MetaPages]
    /\ disk \in [pages : [Page -> Bytes], meta : [Slot -> MetaPages]]
    /\ DOMAIN durable = {"record", "image", "linked", "quiet"}
    /\ durable.record \in MetaRecords \union {Zero}
    /\ durable.quiet \in BOOLEAN
    /\ DOMAIN crash = DOMAIN NotEnded
    /\ crash.ended \in BOOLEAN /\ crash.power \in BOOLEAN
    /\ crash.record \in MetaRecords \union {Zero}
    /\ count \in [syncs : Nat, ends : Nat]

\* The open handle can go on and be synced: no id is in two of the tree, the
\* free list, the retired records and the chain, and the tree is one that
\* recovery accepts.
HandleSound ==
    status = "open" =>
        /\ \A p \in Tree : pages[p].kind = "tree"
        /\ Tree \union store.chain \subseteq FirstPage..(store.nextPage - 1)
        /\ ValidTree(store.root, store.length, Image(pages, store.root))
        /\ ReusableSafely(store, Tree)
        /\ Tree \intersect store.chain = {}

\* A step that opens the file, and what it has to find there.
Reopens == status = "down"
Recovers(record, image) ==
    /\ status' = "open"
    /\ store'.revision = record.revision
    /\ store'.root = record.root
    /\ store'.length = record.length
    /\ Image(pages', record.root) = image

\* No flush of a meta page was cut short when power ended.
MetaSettled == ~crash.ended \/ ~crash.power \/ crash.metaFlushed

\* What SyncIsDurable promises of the state that is found.
PromisesQuiet == durable.record # Zero /\ durable.quiet /\ durable.linked /\ MetaSettled

\* Sync is durable: while nothing changes a page after it, the file opens on
\* the tree that it published, after Close, after the end of the process at any
\* point of a further Sync, and after the end of power (syncMmap, loadMeta).
SyncIsDurable ==
    [][Reopens /\ PromisesQuiet => Recovers(durable.record, durable.image)]_vars

PromisesPinned ==
    /\ crash.ended /\ crash.pinned /\ crash.phase # "written"
    /\ durable.linked /\ MetaSettled

\* A snapshot of the last synced revision keeps its pages from reuse, and so
\* whatever mutations followed, and whichever of their pages reached the disk,
\* the file opens on that revision (reclaimRetiredPages, oldestReaderRevision).
SnapshotKeepsDurable ==
    [][Reopens /\ PromisesPinned => Recovers(durable.record, durable.image)]_vars

PromisesNew ==
    /\ crash.ended /\ crash.phase = "written" /\ crash.linked
    /\ crash.record \in {meta[0], meta[1]}
    /\ ~(crash.power /\ crash.inherits)

\* Once the new bytes of the meta page are in the file, because the process was
\* killed after publishMeta wrote them or because they reached the disk before
\* power ended, the file opens on the new root: all that it needs, its chain and
\* the relinked leaves included, was flushed before (syncMmap, markDirtyPage).
\* A process that opened what another left behind is excluded where power
\* ends: pages that the other changed and never flushed are not in its dirty set.
NewRootAfterMetaWrite ==
    [][Reopens /\ PromisesNew => Recovers(crash.record, crash.image)]_vars

\* Between two operations every id below nextPage has a role, and the chains that
\* the meta pages name can be read.  Both are stated of files that no process has
\* left otherwise than by Close: what a later recovery finds may lack pages whose
\* bytes a lost mutation changed (reclaimObsoleteMetaFreelistPages).
NoPageLost ==
    Idle => FirstPage..(store.nextPage - 1)
               \subseteq Tree \union store.free \union RetiredIds(store.retired) \union Named(meta)

ChainsIntact ==
    Idle => \A i \in Slot : meta[i].kind = "meta" => ResolvedChain(pages, meta[i])

----------------------------------------------------------------------------
(* The inductive invariant behind the properties *)

\* The meta pages without what a Sync in progress may take back.
Settled == IF sync.phase = "written" THEN [meta EXCEPT ![MetaSlot(store)] = sync.previous]
           ELSE meta

\* The records that were published before, in the mapping or on disk.
Published(i) == {m \in {Settled[i], disk.meta[i]} : m.kind = "meta"}

\* A newer record never allots fewer pages, and the disk is not ahead.
RecordsOrdered ==
    /\ \A i \in Slot : \A m \in Published(i) :
          m.revision % 2 = i /\ m.chain \subseteq FirstPage..(m.nextPage - 1)
    /\ \A i, j \in Slot : \A x \in Published(i), y \in Published(j) :
          x.revision < y.revision => x.nextPage <= y.nextPage
    /\ \A i \in Slot : disk.meta[i].kind = "meta" =>
          /\ Settled[i].kind = "meta"
          /\ disk.meta[i].revision <= Settled[i].revision
          /\ disk.meta[i].nextPage <= Settled[i].nextPage
    /\ status = "open" => \A i \in Slot : \A m \in Published(i) :
          m.revision <= store.revision /\ m.nextPage <= store.nextPage

\* No page that the chain of m retires looks like a page of a chain.
RetiresTrees(m, P, Q) ==
    \A p \in m.chain : P[p].kind = "chain" =>
        \A r \in P[p].records : r.revision # 0 => r.id < m.nextPage /\ Q[r.id].kind # "chain"

\* So obsolete chain pages are not retired as well, whichever bytes the mapping
\* and the disk contribute to the next recovery.
ChainsRetireTrees ==
    /\ \A i \in Slot : \A m \in Published(i), P, Q \in {pages, disk.pages} : RetiresTrees(m, P, Q)
    /\ status = "open" => \A r \in store.retired : pages[r.id].kind # "chain"

\* What a Sync has prepared, flushed and written.
SyncSound ==
    sync.phase # "none" =>
        /\ status = "open"
        /\ sync.nextPage >= store.nextPage
        /\ sync.chain = store.nextPage..(sync.nextPage - 1)
        /\ sync.previous = Settled[MetaSlot(store)]
        /\ \A p \in sync.chain : pages[p].kind = "chain"
        /\ UNION {pages[p].records : p \in sync.chain} = MetadataRecords(store)
        /\ MetadataRecords(store) = {} => sync.chain = {}
        /\ sync.closing => Readers = {}
        /\ sync.phase = "prepared" => dirty = sync.dirty \union sync.chain
        /\ sync.phase = "written" => meta[MetaSlot(store)] = MetaRecord(SyncStore)
        /\ sync.phase # "prepared" /\ sync.chain # {} => disk.pages = pages

\* The last Sync that succeeded was performed by this process, or left by a
\* Close of the one before.
Known == durable.record # Zero

\* Pages of the tree that differ from the disk are dirty until they are flushed.
DirtySound ==
    status = "open" /\ Known =>
        \A p \in Tree : disk.pages[p] # pages[p] =>
            /\ sync.phase \in {"none", "prepared"}
            /\ p \in IF sync.phase = "none" THEN dirty ELSE sync.dirty

DurableSlot == durable.record.revision % 2

\* The bytes of the durable tree and its chain are where they were.
DurableKept ==
    /\ durable.image = Image(pages, durable.record.root)
    /\ SoundRecord(pages, FirstPage..(durable.record.nextPage - 1), durable.record)
    /\ \A p \in Reach(pages, durable.record.root) \union durable.record.chain :
          disk.pages[p] = pages[p]

DurableNewest(metas) ==
    /\ metas[DurableSlot] = durable.record
    /\ metas[1 - DurableSlot].kind = "meta"
          => metas[1 - DurableSlot].revision < durable.record.revision

\* As long as the tree is quiet or a snapshot pins the durable revision,
\* nothing that it reaches can be written.
DurableSound ==
    status = "open" /\ Known =>
        /\ disk.meta = Settled
        /\ DurableNewest(Settled)
        /\ durable.linked => Linked(durable.record.root, durable.image)
        /\ durable.record.revision <= store.revision
        /\ durable.linked /\ durable.record.revision = store.revision => durable.quiet
        /\ durable.quiet => /\ store.revision = durable.record.revision
                            /\ store.root = durable.record.root
                            /\ store.length = durable.record.length
        /\ durable.linked /\ (durable.quiet \/ durable.record.revision \in Readers) =>
              /\ DurableKept
              /\ Reach(pages, durable.record.root) \subseteq
                    Tree \union RetiredIds({r \in store.retired :
                                              r.revision >= durable.record.revision})
              /\ durable.record.chain \intersect store.free = {}

\* The next recovery finds record with image.
Recoverable(record, image) ==
    \E i \in Slot :
        /\ Newest(meta, i)
        /\ Usable(pages, meta, i)
        /\ meta[i].revision = record.revision
        /\ meta[i].root = record.root
        /\ meta[i].length = record.length
        /\ Image(pages, record.root) = image

DownSound ==
    IF status = "open" THEN ~crash.ended
    ELSE
        /\ sync.phase = "none"
        /\ PromisesQuiet \/ PromisesPinned => Recoverable(durable.record, durable.image)
        /\ PromisesNew => Recoverable(crash.record, crash.image)
        /\ ~crash.ended =>
              /\ Known /\ durable.quiet
              /\ disk.meta = meta /\ disk.pages = pages
              /\ DurableNewest(meta)
              /\ DurableKept
              /\ durable.linked = Linked(durable.record.root, durable.image)

\* The file and the handle, while recovery finds what was published last.
FileSound ==
    /\ RecordsOrdered
    /\ ChainsRetireTrees
    /\ SyncSound
    /\ DirtySound
    /\ DurableSound
    /\ DownSound

IndInv ==
    /\ TypeOK
    /\ HandleSound
    /\ sync.phase # "none" => status = "open"
    /\ status \in {"open", "down"} => FileSound

\* Ids that nothing names are recognised as pages of an obsolete chain.
Traced(st, reached) ==
    \A p \in FirstPage..(st.nextPage - 1) :
        p \in reached \union st.free \union RetiredIds(st.retired) \/ pages[p].kind = "chain"

\* While no process ended otherwise than by Close, no chain that a meta page
\* names is free, all others are, and the same will hold of what Open finds.
IdsInv ==
    status \in {"open", "down"} =>
        LET found == RecordedStore(pages, durable.record) IN
        /\ \A i \in Slot : Settled[i].kind = "meta" => ResolvedChain(pages, Settled[i])
        /\ status = "open" =>
              /\ Traced(store, Tree)
              /\ store.chain \subseteq Named(Settled)
              /\ Named(Settled) \intersect store.free = {}
              /\ \A p \in FirstPage..(store.nextPage - 1) :
                    pages[p].kind = "chain" => p \in Named(Settled) \union store.free
        /\ status = "down" =>
              /\ Traced(found, Reach(pages, durable.record.root))
              /\ Named(meta) \intersect found.free = {}
=============================================================================
