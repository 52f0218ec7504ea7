------------------------------ MODULE PageStore ------------------------------
(***************************************************************************)
(* The life of a page id in pagebtree: who may read a page, when a page    *)
(* that copy-on-write has replaced is retired, when it becomes free and    *)
(* when it is written again.                                               *)
(*                                                                         *)
(* A tree is abstracted to the set of page ids its root reaches, and a     *)
(* page to its bytes (a member of Content).  Which pages a mutation copies *)
(* and how many it allocates is left open: CowTree.tla says it exactly,    *)
(* and its runs show that every mutation of the B+tree is a step of this   *)
(* module.  The mutable sibling link of a leaf is not part of Content (no  *)
(* snapshot reads it); CowTree.tla models it.                              *)
(*                                                                         *)
(* The tree and its in-process snapshots are used by one goroutine (the    *)
(* package takes no lock), so an operation is one step.  A batch commit is *)
(* one step per staged mutation, because a panic may end it between any    *)
(* two of them; no other operation runs until it has ended.                *)
(***************************************************************************)
EXTENDS Integers, FiniteSets

CONSTANTS
    Content,      \* what the bytes of a page can be
    Snap,         \* handles that may hold an in-process snapshot
    FirstPage,    \* the first tree page id: 1 in memory, 2 in a file
    MaxPage,      \* bound: page ids are FirstPage..MaxPage
    MaxRevision,  \* bound: revisions are 0..MaxRevision
    Mmap,         \* TRUE: the tree is mmap-backed and has a reader table
    MaxMetaFree,  \* maxMetaFreePages: free ids that fit the meta page (501)
    RecordsPerPage \* freelistPageCapacity, reclaimPageCapacity

ASSUME SnapFinite == IsFiniteSet(Snap)
ASSUME BoundsAreNat == FirstPage \in Nat /\ MaxPage \in Nat /\ MaxRevision \in Nat
ASSUME SomePage == FirstPage <= MaxPage
ASSUME MmapIsBoolean == Mmap \in BOOLEAN
ASSUME CapacitiesAreNat == MaxMetaFree \in Nat /\ RecordsPerPage \in Nat \ {0}

PageID == FirstPage..MaxPage
Revision == 0..MaxRevision
Slot == 0..1  \* the two meta pages, which take turns: slot = revision % 2

\* What readerTable.oldest can report: no reader, or the oldest revision.  A
\* scan error is reported as revision 0 (freelist.go oldestReaderRevision).
NoReader == -1

\* The bytes of no page.
NoImage == [p \in {} |-> {}]

\* A snapshot handle that is not open.
Closed == [open |-> FALSE, revision |-> 0, pages |-> {}, image |-> NoImage]

VARIABLES
    content,        \* the bytes of every page
    live,           \* ids reachable from t.root; {} iff t.root = 0
    revision,       \* t.revision
    retired,        \* t.retired, as a set of [id, revision]
    free,           \* t.free, as a set of ids
    nextPage,       \* t.nextPage
    metaChain,      \* per meta page, the ids of the freelist or reclaim chain
                    \* it names; the newest one is t.metaFreelistPages
    activeReaders,  \* t.activeReaders: how many snapshots pin a revision
    snaps,          \* the snapshots held by the callers: revision, pages reached
                    \* and, as history, their bytes when it was opened
    tableOldest,    \* what the reader table reports (other processes)
    closed,         \* t.closed
    batch           \* the commit in progress, its saved batchTreeState and, as
                    \* history, the bytes of the saved tree

vars == <<content, live, revision, retired, free, nextPage, metaChain,
          activeReaders, snaps, tableOldest, closed, batch>>

Retired == [id : PageID, revision : Revision]

NoBatch == [active |-> FALSE, changed |-> FALSE, live |-> {}, image |-> NoImage,
            retired |-> {}, free |-> {}, nextPage |-> FirstPage]

\* The bytes of the pages the root reaches.
Image == [p \in live |-> content[p]]

----------------------------------------------------------------------------
(* Readers and reclamation: freelist.go *)

RetiredIds(ret) == {r.id : r \in ret}

\* activeReaderCount() > 0
HasSnapshots(readers) == \E v \in Revision : readers[v] > 0

Pinned_TableWins(readers, v) ==  \* slip: the reader table hides the snapshots
    IF tableOldest # NoReader
    THEN tableOldest <= v
    ELSE \E w \in Revision : readers[w] > 0 /\ w <= v

\* reclaimRetiredPages keeps a record when some reader exists and the oldest
\* one is not newer than the record: some reader is at or below revision v.
Pinned(readers, v) ==
    \/ \E w \in Revision : readers[w] > 0 /\ w <= v
    \/ tableOldest # NoReader /\ tableOldest <= v

\* reclaimRetiredPages splits t.retired in the records that stay ...
Kept(ret, readers) == {r \in ret : Pinned(readers, r.revision)}

\* ... and the ids that are appended to t.free.
Freed(ret, readers) == {r.id : r \in {q \in ret : ~Pinned(readers, q.revision)}}

----------------------------------------------------------------------------
(* One staged mutation: putStaged or deleteStaged *)

\* allocPage hands out reusable ids first (F, from the free list) and grows
\* t.nextPage, up to n, only when the free list is used up.
Allocatable(F, n) ==
    /\ F \subseteq free
    /\ n \in (nextPage - 1)..MaxPage
    /\ n >= nextPage => F = free

Allocated(F, n) == F \union (nextPage..n)

\* What a mutation does to the pages: it writes only ids that it allocates.
\* R are the reachable ids it retires (the ones it copied or merged away), D
\* the allocated ids that it retires itself (a sibling copied only to be
\* merged, a root copied only to be collapsed).
Rewrite(R, F, n, D) ==
    /\ R \subseteq live
    /\ Allocatable(F, n)
    /\ D \subseteq Allocated(F, n)
    /\ content' \in [PageID -> Content]
    /\ \A p \in PageID \ Allocated(F, n) : content'[p] = content[p]
    /\ live' = (live \ R) \union (Allocated(F, n) \ D)
    /\ nextPage' = n + 1

\* The records retirePage appends: tagged with the revision before publication.
Retire(R, D) == retired \union [id : R \union D, revision : {revision}]

----------------------------------------------------------------------------
(* Actions *)

Init ==
    /\ content \in [PageID -> Content]
    /\ live = {}
    /\ revision = 0
    /\ retired = {}
    /\ free = {}
    /\ nextPage = FirstPage
    /\ metaChain = [i \in Slot |-> {}]
    /\ activeReaders = [v \in Revision |-> 0]
    /\ snaps = [s \in Snap |-> Closed]
    /\ tableOldest = NoReader
    /\ closed = FALSE
    /\ batch = NoBatch

Idle == ~closed /\ ~batch.active

\* Put or Delete: a staged mutation, then publishStagedMutation.
Mutate(R, F, n, D) ==
    /\ Idle
    /\ revision < MaxRevision
    /\ Rewrite(R, F, n, D)
    /\ revision' = revision + 1
    /\ retired' = Kept(Retire(R, D), activeReaders)
    /\ free' = (free \ F) \union Freed(Retire(R, D), activeReaders)
    /\ UNCHANGED <<metaChain, activeReaders, snaps, tableOldest, closed, batch>>

\* CommitDetailed saves the tree state before the first staged operation.
CommitBegin ==
    /\ Idle
    /\ revision < MaxRevision
    /\ batch' = [active |-> TRUE, changed |-> FALSE, live |-> live, image |-> Image,
                 retired |-> retired, free |-> free, nextPage |-> nextPage]
    /\ UNCHANGED <<metaChain, content, live, revision, retired, free, nextPage,
                   activeReaders, snaps, tableOldest, closed>>

CommitStage_Reclaims(R, F, n, D) ==  \* slip: every staged operation reclaims
    /\ batch.active
    /\ Rewrite(R, F, n, D)
    /\ retired' = Kept(Retire(R, D), activeReaders)
    /\ free' = (free \ F) \union Freed(Retire(R, D), activeReaders)
    /\ batch' = [batch EXCEPT !.changed = TRUE]
    /\ UNCHANGED <<metaChain, revision, activeReaders, snaps, tableOldest, closed>>

\* One staged operation that changes the tree; nothing is reclaimed yet.
CommitStage(R, F, n, D) ==
    /\ batch.active
    /\ Rewrite(R, F, n, D)
    /\ retired' = Retire(R, D)
    /\ free' = free \ F
    /\ batch' = [batch EXCEPT !.changed = TRUE]
    /\ UNCHANGED <<metaChain, revision, activeReaders, snaps, tableOldest, closed>>

\* The staged operations are all replayed: publish once if one changed the tree.
CommitEnd ==
    /\ batch.active
    /\ IF batch.changed
       THEN /\ revision' = revision + 1
            /\ retired' = Kept(retired, activeReaders)
            /\ free' = free \union Freed(retired, activeReaders)
       ELSE UNCHANGED <<revision, retired, free>>
    /\ batch' = NoBatch
    /\ UNCHANGED <<metaChain, content, live, nextPage, activeReaders, snaps,
                   tableOldest, closed>>

CommitPanic_KeepsRoot ==  \* slip: the root of the staged tree stays
    /\ batch.active
    /\ retired' = batch.retired
    /\ free' = batch.free
    /\ nextPage' = batch.nextPage
    /\ batch' = NoBatch
    /\ UNCHANGED <<metaChain, content, live, revision, activeReaders, snaps,
                   tableOldest, closed>>

\* A staged operation panics: batchTreeState.restore.  The bytes written to
\* pages that were free or unallocated when the commit began stay written.
CommitPanic ==
    /\ batch.active
    /\ live' = batch.live
    /\ retired' = batch.retired
    /\ free' = batch.free
    /\ nextPage' = batch.nextPage
    /\ batch' = NoBatch
    /\ UNCHANGED <<metaChain, content, revision, activeReaders, snaps,
                   tableOldest, closed>>

\* Tree.Snapshot: register the current revision, remember the root.
SnapshotOpen(s) ==
    /\ Idle
    /\ ~snaps[s].open
    /\ snaps' = [snaps EXCEPT ![s] =
                    [open |-> TRUE, revision |-> revision, pages |-> live,
                     image |-> Image]]
    /\ activeReaders' = [activeReaders EXCEPT ![revision] = @ + 1]
    /\ UNCHANGED <<metaChain, content, live, revision, retired, free, nextPage,
                   tableOldest, closed, batch>>

SnapshotClose_DropsCount(s) ==  \* slip: all readers of the revision are forgotten
    /\ ~batch.active
    /\ snaps[s].open
    /\ snaps' = [snaps EXCEPT ![s] = Closed]
    /\ activeReaders' = [activeReaders EXCEPT ![snaps[s].revision] = 0]
    /\ retired' = Kept(retired, activeReaders')
    /\ free' = free \union Freed(retired, activeReaders')
    /\ UNCHANGED <<metaChain, content, live, revision, nextPage, tableOldest,
                   closed, batch>>
\* Snapshot.Close: endRead, which reclaims.  The tree may be closed already.
SnapshotClose(s) ==
    /\ ~batch.active
    /\ snaps[s].open
    /\ snaps' = [snaps EXCEPT ![s] = Closed]
    /\ activeReaders' = [activeReaders EXCEPT ![snaps[s].revision] =
                            IF @ <= 1 THEN 0 ELSE @ - 1]
    /\ retired' = Kept(retired, activeReaders')
    /\ free' = free \union Freed(retired, activeReaders')
    /\ UNCHANGED <<metaChain, content, live, revision, nextPage, tableOldest,
                   closed, batch>>

\* How many pages the chain of a metadata record takes: with retired pages
\* their records and those of the free pages, else the free pages if they do
\* not fit the meta page.
DivideRoundUp(n, k) == (n + k - 1) \div k
ChainLength(ret, fr) ==
    IF ret # {} THEN DivideRoundUp(Cardinality(ret) + Cardinality(fr), RecordsPerPage)
    ELSE IF Cardinality(fr) > MaxMetaFree
         THEN DivideRoundUp(Cardinality(fr), RecordsPerPage)
         ELSE 0

PublishMeta_FreesOther(fr, next) ==  \* slip: takes back the other record's chain
    \E n \in (next - 1)..MaxPage :
        LET slot == revision % 2
            chain == next..n
        IN /\ n - next + 1 = ChainLength(retired', fr)
           /\ content' \in [PageID -> Content]
           /\ \A p \in PageID \ chain : content'[p] = content[p]
           /\ metaChain' = [metaChain EXCEPT ![slot] = chain]
           /\ free' = fr \union metaChain[1 - slot]
           /\ nextPage' = n + 1

\* prepareMetaFreelistPages, publishMeta and reclaimObsoleteMetaFreelistPages:
\* the chain is written to new pages, the meta page of this revision names it,
\* and the pages of the chain it named before become free.  The pages of the
\* other meta page's chain stay taken.  fr and next are t.free and t.nextPage.
PublishMeta(fr, next) ==
    \E n \in (next - 1)..MaxPage :
        LET slot == revision % 2
            chain == next..n
        IN /\ n - next + 1 = ChainLength(retired', fr)
           /\ content' \in [PageID -> Content]
           /\ \A p \in PageID \ chain : content'[p] = content[p]
           /\ metaChain' = [metaChain EXCEPT ![slot] = chain]
           /\ free' = fr \union metaChain[slot]
           /\ nextPage' = n + 1

\* Tree.Sync of an mmap-backed tree.  A Sync that fails restores everything.
Sync ==
    /\ Mmap
    /\ Idle
    /\ retired' = retired
    /\ PublishMeta(free, nextPage)
    /\ UNCHANGED <<live, revision, activeReaders, snaps, tableOldest, closed, batch>>

\* trailingFreeNextPage: the ids from n on are all free, the one below is not.
TrailingFree(fr, n) ==
    /\ n..(nextPage - 1) \subseteq fr
    /\ n = FirstPage \/ n - 1 \notin fr

\* Tree.Compact: refused while any reader is known; reclaims, and on an
\* mmap-backed tree gives the free tail of the file back.  If there is no tail
\* or the compacted metadata cannot be published, nothing else changes.
Compact ==
    /\ Idle
    /\ ~HasSnapshots(activeReaders) /\ tableOldest = NoReader
    /\ retired' = Kept(retired, activeReaders)
    /\ LET allFree == free \union Freed(retired, activeReaders)
       IN \/ /\ free' = allFree
             /\ UNCHANGED <<content, nextPage, metaChain>>
          \/ \E tail \in FirstPage..nextPage :
                /\ Mmap /\ TrailingFree(allFree, tail)
                /\ PublishMeta({p \in allFree : p < tail}, tail)
    /\ UNCHANGED <<live, revision, activeReaders, snaps, tableOldest, closed, batch>>

\* Tree.Close: an mmap-backed tree refuses while an in-process snapshot is
\* open, reclaims and syncs, and is closed also when that fails; an in-memory
\* tree only becomes inert.
Close ==
    /\ Idle
    /\ IF Mmap
       THEN /\ ~HasSnapshots(activeReaders)
            /\ retired' = Kept(retired, activeReaders)
            /\ LET allFree == free \union Freed(retired, activeReaders)
               IN \/ PublishMeta(allFree, nextPage)
                  \/ free' = allFree /\ UNCHANGED <<content, nextPage, metaChain>>
       ELSE UNCHANGED <<content, retired, free, nextPage, metaChain>>
    /\ closed' = TRUE
    /\ UNCHANGED <<live, revision, activeReaders, snaps, tableOldest, batch>>

\* Other processes claim, update and release reader-table slots at any time,
\* also during a commit.  Any oldest revision up to the tree's can appear, and
\* a table that cannot be read counts as revision 0.
TableChanges ==
    /\ Mmap
    /\ tableOldest' \in {NoReader} \union (0..revision)
    /\ UNCHANGED <<metaChain, content, live, revision, retired, free, nextPage,
                   activeReaders, snaps, closed, batch>>

MutatePages ==
    \E F \in SUBSET free, n \in (nextPage - 1)..MaxPage :
        /\ Allocatable(F, n)
        /\ \E R \in SUBSET live, D \in SUBSET Allocated(F, n) :
              Mutate(R, F, n, D) \/ CommitStage(R, F, n, D)

Next ==
    \/ MutatePages
    \/ CommitBegin
    \/ CommitEnd
    \/ CommitPanic
    \/ \E s \in Snap : SnapshotOpen(s) \/ SnapshotClose(s)
    \/ Sync
    \/ Compact
    \/ Close
    \/ TableChanges

Spec == Init /\ [][Next]_vars

----------------------------------------------------------------------------
(* Properties *)

\* Type correctness of the page store.
TypeOK ==
    /\ content \in [PageID -> Content]
    /\ live \in SUBSET PageID
    /\ revision \in Revision
    /\ retired \in SUBSET Retired
    /\ free \in SUBSET PageID
    /\ nextPage \in FirstPage..(MaxPage + 1)
    /\ metaChain \in [Slot -> SUBSET PageID]
    /\ activeReaders \in [Revision -> Nat]
    /\ DOMAIN snaps = Snap
    /\ \A s \in Snap :
          /\ snaps[s].open \in BOOLEAN
          /\ snaps[s].revision \in Revision
          /\ snaps[s].pages \in SUBSET PageID
          /\ snaps[s].image \in [snaps[s].pages -> Content]
    /\ tableOldest \in {NoReader} \union Revision
    /\ closed \in BOOLEAN
    /\ DOMAIN batch = {"active", "changed", "live", "image", "retired", "free", "nextPage"}
    /\ batch.active \in BOOLEAN
    /\ batch.changed \in BOOLEAN
    /\ batch.live \in SUBSET PageID
    /\ batch.image \in [batch.live -> Content]
    /\ batch.retired \in SUBSET Retired
    /\ batch.free \in SUBSET PageID
    /\ batch.nextPage \in FirstPage..(MaxPage + 1)

\* An open snapshot reads, in every page its root reaches, the bytes that were
\* there when it was opened, whatever mutations, commits, rolled-back commits,
\* closes of other snapshots and compactions happen meanwhile (tree.go Put:
\* "Pages are never changed through an old page id").
SnapshotIsolation ==
    \A s \in Snap : snaps[s].open =>
        \A p \in snaps[s].pages : content[p] = snaps[s].image[p]

\* As long as a batch commit may still panic, the pages of the tree it would
\* restore hold the bytes they had when the commit began: staged operations
\* reuse neither them nor what earlier staged operations retired.
RollbackIntact ==
    batch.active => \A p \in batch.live : content[p] = batch.image[p]

\* The ids below nextPage are exactly the reachable, the retired and the free
\* ones and those of the chains that the meta pages name, each in one role and
\* retired at most once: no id is handed out twice and none is lost, also when a
\* commit is rolled back.
Accounted(lv, ret, fr, chains, next) ==
    /\ lv \union RetiredIds(ret) \union fr \union chains = FirstPage..(next - 1)
    /\ lv \intersect RetiredIds(ret) = {}
    /\ lv \intersect fr = {}
    /\ RetiredIds(ret) \intersect fr = {}
    /\ chains \intersect (lv \union RetiredIds(ret) \union fr) = {}
    /\ \A q, r \in ret : q.id = r.id => q = r

Chains == metaChain[0] \union metaChain[1]

PageAccounting ==
    /\ Accounted(live, retired, free, Chains, nextPage)
    /\ metaChain[0] \intersect metaChain[1] = {}

\* The handles of sn that are open at revision v.
OpenAt(sn, v) == {s \in Snap : sn[s].open /\ sn[s].revision = v}

\* t.activeReaders counts exactly the open snapshots of every revision, so
\* that the watermark of reclaimRetiredPages is never too new or stuck.
ReadersCounted ==
    \A v \in Revision : activeReaders[v] = Cardinality(OpenAt(snaps, v))

\* Every page an open snapshot reaches is inside the allocated range, so the
\* mapping that backs it is neither truncated by Compact nor unmapped by Close.
SnapshotsMapped ==
    \A s \in Snap : snaps[s].open =>
        /\ snaps[s].pages \subseteq FirstPage..(nextPage - 1)
        /\ Mmap => ~closed

\* What the store keeps for its snapshots in every state: their pages stay mapped,
\* the watermark knows each of them, and all fields have their types (beginRead,
\* endRead, Compact, Close).
StoreSound == TypeOK /\ ReadersCounted /\ SnapshotsMapped

\* Every record of ret waits for an open snapshot.
Waiting(sn, ret) ==
    \A r \in ret : \E s \in Snap : sn[s].open /\ sn[s].revision <= r.revision

\* In memory, where every release of a reader reclaims, a page waits in
\* t.retired only while an open snapshot is old enough to pin it.
PromptReclaim == ~Mmap /\ ~batch.active => Waiting(snaps, retired)

----------------------------------------------------------------------------
(* The inductive invariant behind the properties *)

\* A page that an open snapshot of sn reaches is reachable from the root (lv)
\* or is a retired record (ret) not older than the snapshot: just what
\* reclaimRetiredPages keeps.
Covered(sn, rev, lv, ret) ==
    \A s \in Snap : sn[s].open =>
        /\ sn[s].revision <= rev
        /\ \A p \in sn[s].pages :
              p \in lv \/ \E r \in ret : r.id = p /\ sn[s].revision <= r.revision

\* The state that a panic would restore is as good as the current one.
SavedStateGood ==
    batch.active =>
        /\ ~closed
        /\ revision < MaxRevision
        /\ Accounted(batch.live, batch.retired, batch.free, Chains, batch.nextPage)
        /\ Covered(snaps, revision, batch.live, batch.retired)
        /\ batch.live \subseteq live \union RetiredIds(retired)
        /\ ~batch.changed => retired = batch.retired
        /\ ~Mmap => Waiting(snaps, batch.retired)

\* A commit none of whose operations changed the tree still has the saved root.
UnchangedTree == batch.active /\ ~batch.changed => live = batch.live

\* Isolation depends on the accounting (ids handed out belong to nobody), on
\* the reader counts (the watermark is right) and on what a rollback restores.
IndInv ==
    /\ TypeOK
    /\ PageAccounting
    /\ ReadersCounted
    /\ Covered(snaps, revision, live, retired)
    /\ SnapshotIsolation
    /\ RollbackIntact
    /\ SavedStateGood
    /\ PromptReclaim
    /\ Mmap \/ tableOldest = NoReader
    /\ Mmap /\ closed => \A s \in Snap : ~snaps[s].open

----------------------------------------------------------------------------
(* The page store implements its promise to readers *)

\* What a root shows: the bytes of the pages it reaches, as they are now.
Shows(ids) == [p \in ids |-> content[p]]

\* While a commit replays its operations, readers see the state that it saved.
PublishedPages == IF batch.active THEN batch.live ELSE live

\* What a handle shows that is not open: no set of page ids has the id -1.
NotOpen == [p \in {-1} |-> "not open"]

\* What the callers see through their handles.
HandleViews ==
    [s \in Snap |-> IF snaps[s].open THEN Shows(snaps[s].pages) ELSE NotOpen]

Promise == INSTANCE Versions WITH
    NoView <- NotOpen,
    published <- Shows(PublishedPages),
    views <- HandleViews

\* A mutation and a commit replace what is published at once; staged operations, a
\* panic that rolls them back, Sync, Compact, Close and other processes
\* change nothing that a reader of the tree or of an open snapshot can see,
\* whichever ids they reuse (publishStagedMutation, batchTreeState.restore).
ImplementsVersions == Promise!Spec
=============================================================================
