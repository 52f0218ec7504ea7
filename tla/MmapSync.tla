------------------------------- MODULE MmapSync -------------------------------
(***************************************************************************)
(* The durable life of an mmap-backed pagebtree: Sync publishes the tree   *)
(* through one of two meta pages, the process or the machine stops at any  *)
(* point, and OpenMmap recovers a root from what the file then holds.      *)
(*                                                                         *)
(* A mutation writes into the shared mapping, so its bytes survive the end *)
(* of the process at once, but the end of power only if they were flushed. *)
(* The file neither grows nor shrinks here, and every value fits a cell.   *)
(***************************************************************************)
EXTENDS Integrity

CONSTANTS
    Ops,            \* the operations that a run performs, a subset of Op
    Snap,           \* snapshot handles
    Preloads,       \* histories applied and synced before the run starts
    MaxMetaFree,    \* maxMetaFreePages
    RecordsPerPage, \* freelistPageCapacity, reclaimPageCapacity
    MaxMutations,   \* bound: calls of Put and Delete that change the tree
    MaxSyncs,       \* bound: calls of Sync, the one by Close included
    MaxFails,       \* bound: Syncs and Closes that return an error
    MaxKills,       \* bound: ends of the process
    MaxLosses,      \* bound: ends of power
    MaxEnds,        \* bound: ends of either kind
    MaxTorn         \* bound: pages that an end of power leaves half written

ASSUME OpsAreOps == Ops \subseteq Op
ASSUME ValuesInline == \A v \in Val : MaxKeys * (1 + ValSize[v]) <= PageUnits
ASSUME SomeRecords == MaxMetaFree \in Nat /\ RecordsPerPage \in Nat \ {0}

VARIABLES
    status,     \* "open", "down" (no process has the file) or "refused"
    store,      \* the handle: its pages are the bytes of the mapping
    unlisted,   \* the bytes of the mapping that t.pages does not list
    meta,       \* the two meta pages of the mapping
    dirty,      \* arena.dirtyPages
    snaps,      \* handle -> the revision it pins, or NoRevision
    sync,       \* the Sync in progress and what it restores if it fails
    disk,       \* what an end of power leaves: pages and meta pages
    durable,    \* history: the last Sync that succeeded, and whether the bytes
                \* of the tree changed since (quiet)
    crash,      \* history: how things stood when the process ended
    doubt,      \* history: recovery passed over the newest meta page, or the disk
                \* kept one that a failed Sync took back
    count       \* mutations, Syncs, those that fail, Closes that fail, kills, losses

vars == <<status, store, unlisted, meta, dirty, snaps, sync, disk, durable, crash, doubt,
          count>>

Slot == 0..1
FirstPage == 2
NoRevision == -1
Zero == [kind |-> "zero"]  \* a meta page that was never written
Torn == [kind |-> "torn"]  \* a page whose checksum does not match
MetadataKinds == {"freelist", "reclaim"}

Readers == {snaps[s] : s \in Snap} \ {NoRevision}

NewStore == EmptyStore(FirstPage) @@ [chain |-> <<>>]

View(st) == [k \in Key |-> SearchPage(st.pages, st.root, k)]

----------------------------------------------------------------------------
(* Metadata: what Sync writes *)

\* t.metaFreelistPages is st.chain: new pages, never free ones, which hold the
\* free ids (revision 0) and the retired ones, or the free ids alone if they do
\* not fit the meta page.
MetadataRecords(st) ==
    LET free == [i \in 1..Len(st.free) |-> [id |-> st.free[i], revision |-> 0]]
    IN IF st.retired # <<>> THEN free \o st.retired
       ELSE IF Len(st.free) > MaxMetaFree THEN free ELSE <<>>

ChainPage(kind, records, i, first) ==
    LET from == (i - 1) * RecordsPerPage + 1
        to == Smaller(i * RecordsPerPage, Len(records))
    IN [kind |-> kind, records |-> SubSeq(records, from, to),
        next |-> IF to < Len(records) THEN first + i ELSE 0]

\* prepareMetaFreelistPages
PrepareMeta_DropsLast(st) ==  \* slip: the last page of the chain is not filled up
    LET records == MetadataRecords(st)
        n == Len(records) \div RecordsPerPage
        kind == IF st.retired # <<>> THEN "reclaim" ELSE "freelist"
        first == st.nextPage
        chain == [i \in 1..n |-> first + i - 1]
    IN [st EXCEPT !.pages = [id \in ToSet(chain) |->
                                ChainPage(kind, records, id - first + 1, first)] @@ @,
                  !.nextPage = first + n,
                  !.chain = chain]
PrepareMeta(st) ==
    LET records == MetadataRecords(st)
        n == (Len(records) + RecordsPerPage - 1) \div RecordsPerPage
        kind == IF st.retired # <<>> THEN "reclaim" ELSE "freelist"
        first == st.nextPage
        chain == [i \in 1..n |-> first + i - 1]
    IN [st EXCEPT !.pages = [id \in ToSet(chain) |->
                                ChainPage(kind, records, id - first + 1, first)] @@ @,
                  !.nextPage = first + n,
                  !.chain = chain]

\* persistMeta: version 3 names reclaim records, version 2 free ids only.
MetaRecord(st) ==
    [kind |-> "meta", revision |-> st.revision, root |-> st.root,
     nextPage |-> st.nextPage, length |-> st.length,
     chainKind |-> IF st.retired # <<>> THEN "reclaim" ELSE "freelist",
     count |-> Len(st.free) + Len(st.retired),
     chainRoot |-> IF st.chain = <<>> THEN 0 ELSE st.chain[1],
     free |-> IF st.chain = <<>> THEN st.free ELSE <<>>]

MetaSlot(st) == st.revision % 2

\* The metadata pages met from id on, and where the walk ends: 0 if it is whole.
RECURSIVE FollowChain(_, _, _)
FollowChain(pages, id, ids) ==
    IF id \in {0} \union ToSet(ids) \/ id \notin DOMAIN pages
    THEN [ids |-> ids, stop |-> id]
    ELSE IF pages[id].kind \notin MetadataKinds THEN [ids |-> ids, stop |-> id]
    ELSE FollowChain(pages, pages[id].next, Append(ids, id))

ChainOf(pages, record) == FollowChain(pages, record.chainRoot, <<>>)

\* collectFreelistChainLenient, from each meta page that can be read.
Named(pages, metas) ==
    UNION {LET chain == ChainOf(pages, metas[i])
           IN ToSet(chain.ids) \union {chain.stop} :
              i \in {j \in Slot : metas[j].kind = "meta"}}

\* reclaimObsoleteMetaFreelistPages: metadata pages that nothing names, which
\* are appended to t.free in some order.
Obsolete_FreesAgain(st, metas) ==  \* slip: freed pages are not excluded
    {id \in DOMAIN st.pages : st.pages[id].kind \in MetadataKinds}
        \ (Named(st.pages, metas) \union ToSet(st.chain))
Obsolete(st, metas) ==
    {id \in DOMAIN st.pages : st.pages[id].kind \in MetadataKinds}
        \ (Named(st.pages, metas) \union ToSet(st.chain) \union ToSet(st.free))

----------------------------------------------------------------------------
(* Recovery: loadMeta *)

\* The part of the record that is resolved from its chain: reclaim records of
\* revision 0 are free ids.
ChainRecords(pages, ids) == FlattenSeq([i \in 1..Len(ids) |-> pages[ids[i]].records])

IdsOf(records) == [i \in 1..Len(records) |-> records[i].id]

RecordedStore(pages, record, ids) ==
    LET records == ChainRecords(pages, ids)
    IN [pages |-> pages, root |-> record.root, nextPage |-> record.nextPage,
        length |-> record.length, revision |-> record.revision,
        free |-> IF record.chainRoot = 0 THEN record.free
                 ELSE IdsOf(SelectSeq(records, LAMBDA r : r.revision = 0)),
        retired |-> SelectSeq(records, LAMBDA r : r.revision # 0),
        chain |-> ids]

\* resolveMetaFreelist and resolveMetaReclaim
ResolvedChain(pages, record) ==
    LET chain == ChainOf(pages, record)
    IN /\ chain.stop = 0
       /\ \A i \in 1..Len(chain.ids) :
             /\ pages[chain.ids[i]].kind = record.chainKind
             /\ chain.ids[i] < record.nextPage
       /\ record.chainRoot # 0 => Len(ChainRecords(pages, chain.ids)) = record.count

\* validateFreelist and validateRetiredPages
ReusableSafely(st) ==
    LET ids == st.free \o IdsOf(st.retired)
        owned == Reachable(st.pages, st.root) \union ToSet(st.chain)
    IN /\ NoDuplicates(ids)
       /\ ToSet(ids) \subseteq FirstPage..(st.nextPage - 1)
       /\ ToSet(ids) \intersect owned = {}
       /\ \A i \in 1..Len(st.retired) : st.retired[i].revision \in 1..st.revision

\* What loadMeta verifies of a candidate root, in its order.
UsableStore(st) ==
    /\ ValidReachable(st)
    /\ Reachable(st.pages, st.root) \intersect ToSet(st.chain) = {}
    /\ ReusableSafely(st)
    /\ ValidLeafLinks(st)
    /\ ValidLength(st)

Usable(pages, record) ==
    /\ ResolvedChain(pages, record)
    /\ UsableStore(RecordedStore(pages, record, ChainOf(pages, record).ids))

\* The meta pages whose record passes the checks on the page itself.
Candidates(metas) ==
    {i \in Slot : metas[i].kind = "meta" /\ metas[i].revision % 2 = i}

\* t.pages lists the ids below the largest nextPage of the candidates.
Listed(pages, metas) ==
    [id \in {p \in DOMAIN pages : \E i \in Candidates(metas) : p < metas[i].nextPage}
        |-> pages[id]]

UsableSlots(pages, metas) ==
    {i \in Candidates(metas) : Usable(Listed(pages, metas), metas[i])}

Newest(metas, slots) ==
    CHOOSE i \in slots : \A j \in slots : metas[i].revision >= metas[j].revision

\* The root that recovery accepts, before obsolete chains are reclaimed.
Recovered(pages, metas) ==
    LET record == metas[Newest(metas, UsableSlots(pages, metas))]
        listed == Listed(pages, metas)
    IN RecordedStore(listed, record, ChainOf(listed, record).ids)

----------------------------------------------------------------------------
(* States *)

NoSync == [phase |-> "none", store |-> <<>>, closing |-> FALSE, dirty |-> {}, previous |-> Zero]

\* The bytes of the mapping: a Sync in progress has written its chain.
Mapped ==
    (IF sync.phase = "none" THEN store.pages ELSE sync.store.pages) @@ unlisted

\* A durable database: the tree of a history of mutations, synced once.
Init ==
    /\ status = "open"
    /\ \E history \in Preloads :
          store = FoldLeft(LAMBDA st, op : PublishStagedMutation(Stage(st, op), {}),
                           NewStore, history)
    /\ Len(store.free) <= MaxMetaFree
    /\ unlisted = <<>>
    /\ meta = [i \in Slot |-> IF i = MetaSlot(store) THEN MetaRecord(store)
                              ELSE IF i = 0 THEN MetaRecord(NewStore) ELSE Zero]
    /\ dirty = {}
    /\ snaps = [s \in Snap |-> NoRevision]
    /\ sync = NoSync
    /\ disk = [pages |-> store.pages, meta |-> meta]
    /\ durable = [revision |-> store.revision, view |-> View(store), linked |-> TRUE,
                  quiet |-> TRUE]
    /\ crash = <<>>
    /\ doubt = FALSE
    /\ count = [mutations |-> 0, syncs |-> 0, fails |-> 0, closeFails |-> 0, kills |-> 0, losses |-> 0]

Idle == status = "open" /\ sync.phase = "none"

Relinked_StaysClean(before, after) == {}  \* slip: relinked leaves are not marked
\* The ids whose sibling links a relink rewrote.
Relinked(before, after) ==
    {id \in DOMAIN before.pages : before.pages[id] # after.pages[id]}

\* The ids that newPage and relinkLeaves mark dirty.
Dirtied(before, staged, after) ==
    (ToSet(before.free) \ ToSet(staged.free))
    \union before.nextPage..(staged.nextPage - 1)
    \union Relinked(staged, after)

\* Put and Delete of a mapped tree.
Mutate(op) ==
    /\ Idle
    /\ count.mutations < MaxMutations
    /\ count' = [count EXCEPT !.mutations = @ + 1]
    /\ StageChanges(store, op)
    /\ \E staged \in {Stage(store, op)} :
          /\ store' = PublishStagedMutation(staged, Readers)
          /\ dirty' = dirty \union Dirtied(store, staged, store')
    /\ durable' = [durable EXCEPT !.quiet = FALSE]
    /\ UNCHANGED <<status, unlisted, meta, snaps, sync, disk, crash, doubt>>

SnapshotOpen(s) ==
    /\ Idle
    /\ snaps[s] = NoRevision
    /\ snaps' = [snaps EXCEPT ![s] = store.revision]
    /\ UNCHANGED <<status, store, unlisted, meta, dirty, sync, disk, durable, crash, doubt, count>>

SnapshotClose(s) ==
    /\ Idle
    /\ snaps[s] # NoRevision
    /\ snaps' = [snaps EXCEPT ![s] = NoRevision]
    /\ store' = RelinkLeaves(ReclaimRetiredPages(store, Readers'), Readers')
    /\ dirty' = dirty \union Relinked(store, store')
    /\ durable' = [durable EXCEPT !.quiet = @ /\ store'.pages = store.pages]
    /\ UNCHANGED <<status, unlisted, meta, sync, disk, crash, doubt, count>>

\* How things stand, for the properties of the recovery that follows.
Standing(power) ==
    [power |-> power,
     phase |-> sync.phase,
     pinned |-> durable.revision \in Readers,
     inherits |-> durable.revision = NoRevision,
     metaFlushed |-> meta = disk.meta,
     next |-> IF sync.phase = "none" THEN NoSync
              ELSE [meta |-> MetaRecord(sync.store), view |-> View(sync.store),
                    linked |-> ValidLeafLinks(sync.store)]]

----------------------------------------------------------------------------
(* Sync, in the steps between which it can be interrupted: syncMmap *)

\* Sync, or Close, which reclaims first and is refused under a snapshot.
SyncBegin(closing) ==
    /\ Idle
    /\ count.syncs < MaxSyncs
    /\ closing => Readers = {}
    /\ store' = IF closing THEN ReclaimRetiredPages(store, {}) ELSE store
    /\ sync' = [phase |-> "prepared", store |-> PrepareMeta(store'), closing |-> closing,
                dirty |-> dirty, previous |-> meta[MetaSlot(store)]]
    /\ dirty' = dirty \union ToSet(sync'.store.chain)
    /\ count' = [count EXCEPT !.syncs = @ + 1]
    /\ UNCHANGED <<status, unlisted, meta, snaps, disk, durable, crash, doubt>>

\* fsync: every byte of the file is on disk, written through the mapping or not.
Fsynced == [pages |-> Mapped, meta |-> meta]

\* syncDataPages: the dirty pages below nextPage are flushed and the file is
\* synced, unless there is none.
SyncData ==
    /\ sync.phase = "prepared"
    /\ disk' = IF \E id \in dirty : id < sync.store.nextPage THEN Fsynced ELSE disk
    /\ sync' = [sync EXCEPT !.phase = "flushed"]
    /\ dirty' = {}
    /\ UNCHANGED <<status, store, unlisted, meta, snaps, durable, crash, doubt, count>>

\* publishMeta writes the meta page of the revision into the mapping ...
SyncMeta ==
    /\ sync.phase = "flushed"
    /\ sync' = [sync EXCEPT !.phase = "written"]
    /\ meta' = [meta EXCEPT ![MetaSlot(sync.store)] = MetaRecord(sync.store)]
    /\ UNCHANGED <<status, store, unlisted, dirty, snaps, disk, durable, crash, doubt, count>>

\* ... and flushes it; then the chains that nothing names any more are freed.
SyncEnd ==
    /\ sync.phase = "written"
    /\ disk' = Fsynced
    /\ \E gone \in SetToSeqs(Obsolete(sync.store, meta)) :
          store' = [sync.store EXCEPT !.free = @ \o gone]
    /\ sync' = NoSync
    /\ durable' = [revision |-> store'.revision, view |-> View(store'),
                   linked |-> ValidLeafLinks(store'), quiet |-> TRUE]
    /\ IF sync.closing
       THEN /\ status' = "down"
            /\ unlisted' = store'.pages @@ unlisted
       ELSE UNCHANGED <<status, unlisted>>
    /\ UNCHANGED <<meta, dirty, snaps, crash, doubt, count>>

\* A step of Sync returns an error: the meta page in the mapping is restored,
\* whether or not its new bytes reached the disk.
TakeBack ==
    /\ sync.phase # "none"
    /\ count.fails + count.closeFails < MaxFails
    /\ LET slot == MetaSlot(sync.store)
       IN /\ meta' = [meta EXCEPT ![slot] = sync.previous]
          /\ \E arrived \in {disk.meta[slot], meta[slot]} :
                disk' = [disk EXCEPT !.meta[slot] = arrived]
    /\ doubt' = (doubt \/ disk'.meta # meta')
    /\ sync' = NoSync
    /\ UNCHANGED durable

\* nextPage, the chain and the dirty set are restored, and the new chain is no
\* longer listed.
SyncFail ==
    /\ ~sync.closing
    /\ TakeBack
    /\ count' = [count EXCEPT !.fails = @ + 1]
    /\ dirty' = sync.dirty
    /\ LET dropped == ToSet(sync.store.chain)
       IN /\ store' = [store EXCEPT !.pages = [id \in DOMAIN @ \ dropped |-> @[id]]]
          /\ unlisted' = [id \in dropped |-> Mapped[id]] @@ unlisted
    /\ UNCHANGED <<status, snaps, crash>>

\* Close closes all the same.
CloseFail ==
    /\ sync.closing
    /\ TakeBack
    /\ count' = [count EXCEPT !.closeFails = @ + 1]
    /\ status' = "down"
    /\ unlisted' = Mapped
    /\ dirty' = {}
    /\ crash' = [Standing(FALSE) EXCEPT !.phase = "none"]
    /\ UNCHANGED <<store, snaps>>

----------------------------------------------------------------------------
(* The end of the process and of power, and recovery *)

Down ==
    /\ status' = "down"
    /\ store' = NewStore
    /\ dirty' = {}
    /\ snaps' = [s \in Snap |-> NoRevision]
    /\ sync' = NoSync

\* The process is killed: the file holds every byte of the mapping.
ProcessCrash ==
    /\ status = "open"
    /\ count.kills < MaxKills /\ count.kills + count.losses < MaxEnds
    /\ count' = [count EXCEPT !.kills = @ + 1]
    /\ crash' = Standing(FALSE)
    /\ unlisted' = Mapped
    /\ Down
    /\ UNCHANGED <<meta, disk, durable, doubt>>

\* What an end of power can leave of new, where old was flushed last: ids in
\* arrived were written back in time, those in torn only in part.
Mixed(old, new, arrived, torn) ==
    [id \in DOMAIN new \intersect (DOMAIN old \union arrived \union torn) |->
        IF id \in torn THEN Torn ELSE IF id \in arrived THEN new[id] ELSE old[id]]

Differing(old, new) ==
    {id \in DOMAIN new : id \notin DOMAIN old \/ old[id] # new[id]}

\* Power ends, in an operation or between two: of what was not flushed, any
\* part may have reached the disk.
PowerLoss ==
    /\ status = "open"
    /\ count.losses < MaxLosses /\ count.kills + count.losses < MaxEnds
    /\ count' = [count EXCEPT !.losses = @ + 1]
    /\ crash' = Standing(TRUE)
    /\ \E arrived \in SUBSET Differing(disk.pages, Mapped),
          arrivedMeta \in SUBSET Differing(disk.meta, meta) :
          \E torn \in SUBSET (Differing(disk.pages, Mapped) \ arrived),
             tornMeta \in SUBSET (Differing(disk.meta, meta) \ arrivedMeta) :
             /\ Cardinality(torn) + Cardinality(tornMeta) <= MaxTorn
             /\ unlisted' = Mixed(disk.pages, Mapped, arrived, torn)
             /\ meta' = Mixed(disk.meta, meta, arrivedMeta, tornMeta)
    /\ disk' = [pages |-> unlisted', meta |-> meta']
    /\ Down
    /\ UNCHANGED <<durable, doubt>>

\* OpenMmap of an existing file: the newest usable root, and the chains that
\* nothing names are freed.
Open ==
    /\ status = "down"
    /\ UsableSlots(unlisted, meta) # {}
    /\ status' = "open"
    /\ \E found \in {Recovered(unlisted, meta)} :
          /\ \E gone \in SetToSeqs(Obsolete(found, meta)) :
                store' = [found EXCEPT !.free = @ \o gone]
          /\ unlisted' = [id \in DOMAIN unlisted \ DOMAIN found.pages |-> unlisted[id]]
    /\ durable' = IF crash = <<>> THEN durable
                  ELSE [durable EXCEPT !.revision = NoRevision, !.quiet = FALSE]
    /\ doubt' = (doubt \/ Newest(meta, Candidates(meta)) \notin UsableSlots(unlisted, meta))
    /\ crash' = <<>>
    /\ UNCHANGED <<meta, dirty, snaps, sync, disk, count>>

\* OpenMmap of a file in which no root is usable: an error.
OpenRefused ==
    /\ status = "down"
    /\ UsableSlots(unlisted, meta) = {}
    /\ status' = "refused"
    /\ UNCHANGED <<store, unlisted, meta, dirty, snaps, sync, disk, durable, crash, doubt, count>>

Next ==
    \/ \E op \in Ops : Mutate(op)
    \/ \E s \in Snap : SnapshotOpen(s) \/ SnapshotClose(s)
    \/ \E closing \in BOOLEAN : SyncBegin(closing)
    \/ SyncData
    \/ SyncMeta
    \/ SyncEnd
    \/ SyncFail
    \/ CloseFail
    \/ ProcessCrash
    \/ PowerLoss
    \/ Open
    \/ OpenRefused

Spec == Init /\ [][Next]_vars

----------------------------------------------------------------------------
(* Properties *)

\* The variables have the shape that the code keeps; of the meta pages only
\* the kind is constrained, since an end of power can leave either of them torn.
TypeOK ==
    /\ status \in {"open", "down", "refused"}
    /\ sync.phase \in {"none", "prepared", "flushed", "written"}
    /\ \A s \in Snap : snaps[s] \in NoRevision..store.revision
    /\ \A i \in Slot : meta[i].kind \in {"zero", "torn", "meta"}
    /\ dirty \subseteq DOMAIN Mapped
    /\ doubt \in BOOLEAN

\* A step that opens the file, and what it has to find there.
Reopens == status = "down"
Recovers(revision, view) ==
    /\ status' = "open"
    /\ store'.revision = revision
    /\ View(store') = view

\* No flush of a meta page was cut short when power ended.
MetaSettled == crash = <<>> \/ ~crash.power \/ crash.metaFlushed

\* Sync is durable: while nothing changes a page after it, the file opens on
\* the tree that it published, after Close, after the end of the process at any
\* point of a further Sync, and after the end of power (syncMmap, loadMeta).
SyncIsDurable ==
    [][Reopens /\ durable.quiet /\ durable.linked /\ MetaSettled /\ ~doubt
         => Recovers(durable.revision, durable.view)]_vars

\* A snapshot of the last synced revision keeps its pages from reuse, and so
\* whatever mutations followed, and whichever of their pages reached the disk,
\* the file opens on that revision (reclaimRetiredPages, oldestReaderRevision).
SnapshotKeepsDurable ==
    [][Reopens /\ crash # <<>> /\ durable.linked /\ MetaSettled /\ ~doubt
         => (crash.pinned /\ crash.phase # "written"
                => Recovers(durable.revision, durable.view))]_vars

\* Once the new bytes of the meta page are in the file, because the process was
\* killed after publishMeta wrote them or because they reached the disk before
\* power ended, the file opens on the new root: all that it needs, its chain and
\* the relinked leaves included, was flushed before (syncMmap, markDirtyPage).
\* A process that opened what another left behind is excluded where power
\* ends: pages that the other changed and never flushed are not in its dirty set.
NewRootAfterMetaWrite ==
    [][Reopens /\ crash # <<>> /\ ~doubt
         => (/\ crash.phase = "written"
                /\ crash.next.linked
                /\ crash.next.meta \in {meta[0], meta[1]}
                /\ ~(crash.power /\ crash.inherits)
                => Recovers(crash.next.meta.revision, crash.next.view))]_vars

\* Pages of a chain are reused only once neither meta page names the chain:
\* both can be resolved at any time, by the next recovery or by Punch
\* (reclaimObsoleteMetaFreelistPages).
ChainsIntact ==
    Idle /\ ~doubt
        => \A i \in Slot : meta[i].kind = "meta" => ResolvedChain(store.pages, meta[i])

\* Whatever was recovered, Tree.Check accepts the open tree: no page is at
\* once reachable and reusable, or reusable twice, once the chains that Sync
\* and recovery found obsolete were freed (validateReusablePages).
OpenTreeChecks ==
    Idle /\ ~doubt
        => ValidReachable(store) /\ ValidLength(store) /\ ValidReusable(store)

MetaChains ==
    UNION {ToSet(ChainOf(store.pages, meta[i]).ids) : i \in {j \in Slot : meta[j].kind = "meta"}}

\* Sync, a failed Sync, Close and reopening lose no page: each id that was ever
\* allocated is reachable, reusable, retired or part of a chain (after a crash
\* or a Close that failed this does not hold: a page of an obsolete chain that
\* was reused by a mutation that is lost belongs to nothing).
NoPageLost ==
    Idle /\ count.closeFails = 0 /\ count.kills = 0 /\ count.losses = 0
        => FirstPage..(store.nextPage - 1) \subseteq
               Reachable(store.pages, store.root) \union MetaChains
                   \union ToSet(store.free \o IdsOf(store.retired))

\* Between operations the handle can go on and the file can be recovered: Check
\* accepts the tree, and every id is in a chain that is intact, in use or reusable.
OpenTreeSound ==
    /\ TypeOK
    /\ ChainsIntact
    /\ OpenTreeChecks
    /\ NoPageLost

----------------------------------------------------------------------------
(* What the documentation says and the code does not do *)

\* A kill before the dirty pages are flushed recovers the old root.
OldRootRecovered ==
    [][Reopens /\ crash # <<>> /\ durable.linked
         => (~crash.power /\ crash.phase \in {"none", "prepared"}
                => Recovers(durable.revision, durable.view))]_vars

\* Sync is the durability boundary also while a snapshot is open.
SyncDurableUnderSnapshots ==
    [][Reopens /\ durable.quiet /\ MetaSettled /\ ~doubt
         => Recovers(durable.revision, durable.view)]_vars

\* If the newest meta page is torn, the older one still points to a root.
TornMetaFallsBack ==
    [][Reopens /\ crash # <<>>
         => (crash.power /\ crash.phase = "written" => status' = "open")]_vars

\* OpenMmap accepts no image that Check rejects.
AcceptedPassesCheck ==
    Idle => ValidReachable(store) /\ ValidReusable(store)

\* Sync and Close are durable also after a recovery from the older meta page.
CloseDurableAfterFallback ==
    [][Reopens /\ crash = <<>>
         => Recovers(durable.revision, durable.view)]_vars
=============================================================================
