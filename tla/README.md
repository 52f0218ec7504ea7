# Verification of cow-btree-course

TLA+ models of `pagebtree`, the page-backed copy-on-write B+tree of this
repository, with TLC configurations that check them and theorems that TLAPS
proves about them.

## The system

| Part | State | Operations | What makes it correct |
|---|---|---|---|
| Page life cycle: `freelist.go`, `tree.go` | `free` (a stack), `retired` ([id, revision]), `nextPage`, `revision`, `activeReaders` | `allocPage`, `copyPage`, `retirePage`, `reclaimRetiredPages`, `beginRead`, `endRead`, `Compact`, `Sync`, `Close` | a page some reader may still read is never rewritten; every id has exactly one role |
| B+tree: `insert.go`, `delete.go`, `overflow.go`, `search.go`, `leaf_links.go` | `root`, `pages`, `length`; leaves with sibling links, branches, overflow chains | `Put`, `Delete`, `Get`, `Range`, `relinkLeaves` | `Tree.Check` accepts every state; the tree is a map; a range visits each key once |
| Snapshots: `snapshot.go` | root, revision, length | `Snapshot`, `Get`, `Range`, `Close` | they keep showing the map of the moment they were opened |
| Batches: `batch.go` | staged operations, saved `batchTreeState` | `Put`, `Delete`, `DeleteRange`, `Rollback`, `CommitDetailed`, `CommitSync` | one revision per commit, all or nothing also when a staged operation panics |
| Transactions: `tx.go`, `tx_cursor.go` | a batch, its base revision, staged writes, a cursor over the staged view | `Get`, `Range`, `Put`, `Delete`, `DeleteRange`, `Commit`, `CommitSync`, `Rollback` | reads see own writes; a commit on a moved base is refused, and so commits are serial |
| Cursors: `cursor.go` | a snapshot, bounds, a stack of frames | `First`, `Last`, `Seek`, `Next`, `Prev` | walks every key between the bounds, in both directions |
| Mmap metadata and recovery: `mmap.go`, `reclaim_pages.go`, `freelist_pages.go` | two meta pages, dirty pages, chains, `syncedRevision` | `OpenMmap`, `Sync`, `publishMeta`, `loadMeta` | after a crash the tree of the last Sync, or a newer one, comes back whole |
| File geometry: `mmap.go`, `mmap_punch_unix.go` | file size, mapping, `maxPages` | growth, shrinking, hole punching | failures restore the old geometry; nothing points outside the mapping |
| Reader table: `reader_table_unix.go` | 64 slots of a sidecar file (process, revision, token) | claim, update, release, oldest, clean stale | no live reader is forgotten, no dead one is kept for ever |
| Locks and replacement: `mmap_locks_unix.go`, `compact_replace_unix.go`, `copy_compact.go` | writer mutex, file locks | open, copy, rename | one writer; a replaced file has the same contents |
| Branch cache: `page_cache.go` | decoded branches by id and checksum, LRU order | `branch`, eviction | never routes by an old version of a page |
| Generic B-tree: `btree/` | nodes | insert, delete, search | an ordered map |
| Statistics, traces, demos, tools | none of the tree's | reports | - |

A mutation of the tree calls the allocator for every page it copies; publication
(`publishStagedMutation`) advances the revision, reclaims and relinks; a snapshot
registers its revision and so holds reclamation back; closing it reclaims and
relinks; `Sync` writes the free and retired lists into the metadata; the writer
reads other processes' revisions from the reader table whenever it reclaims.

What is hard in this code: page ids are reused, so isolation depends on a
watermark over snapshots and foreign readers; a batch may stop after any staged
operation; sibling links are the one thing that is changed in place; the mapping is
shared, so the file changes before `Sync`; two meta pages take turns by the
parity of the revision. The package takes no lock around a `Tree`: a tree is
used by one goroutine, and only processes (through the file and the reader table)
run concurrently. `PROJECT.json` lists the hazards at their lines.

## Modules

`PageStore` models the life of page ids and nothing else: a tree is the set of ids
its root reaches, a page is its bytes (a member of `Content`). One action per
operation:

| Action | Code |
|---|---|
| `Mutate(R, F, n, D)` | `Put` or `Delete` with publication. F are ids taken from the free list, ids up to n are new, R are reachable ids that are retired, D ids that were taken and retired within the operation |
| `CommitBegin`, `CommitStage(R, F, n, D)`, `CommitEnd`, `CommitPanic` | `CommitDetailed`: save, one staged operation, publish once, restore |
| `SnapshotOpen`, `SnapshotClose` | `Tree.Snapshot`, `Snapshot.Close` |
| `Sync`, `Compact`, `Close` | the operations of that name; `PublishMeta` is their common part: a chain of new pages, named by the meta page of this revision, takes the retired (and free) ids, and the chain which that meta page named before becomes free |
| `TableChanges` | other processes register, move and leave; a table that cannot be read counts as revision 0 |

`Mmap` chooses between the in-memory tree and the mapped one. `content` of a page
leaves the sibling link out, which snapshots do not read.
In-memory, `SnapshotClose` may happen after `Close`.

`BPlusTree` has the algorithms as operators on a record of the tree's fields, one
operator per function of the code and under its name: splits balanced by bytes,
borrowing before the descent, merging or redistributing on the way back, the
overflow chain of a large value, spilling until a leaf fits, collapse of the root,
the linked and the recursive range. The order in which ids are taken from the
free stack and put on the retired list is that of the code. Bytes are counted in
units: a cell is one unit of slot and key plus its value.

`Integrity` has what `integrity.go` verifies of a tree, as predicates on the same
record: `Tree.Check` of an open tree, and the part that `OpenMmap` verifies of a
root it finds. The pages may hold anything here, also what another root wrote.

`CowTree` is the in-memory tree: `Tree`, `Snapshot` and `WriteBatch` as a state
machine over `BPlusTree`, with `Tree.Check` as an invariant. `last` is a history
variable: the operation of the last step and the ids it took and retired, which
serve as the parameters of the refined actions.

`VersionedMap` is the abstract specification: a map, a revision, and what each
snapshot shows. A commit is one atomic step. `Versions` is the same promise one level
below, where a state of the tree is a set of pages with their bytes and not yet a map: a
mutation or a commit that changes something publishes a new state, a snapshot shows the state in which it was
opened until it is closed, and no other step, reclamation, Sync and a commit that panics
included, changes what anybody sees.

`MmapSync` is the durable life of a mapped tree, with the real tree operations of
`BPlusTree` and the real checks of `Integrity`. A page exists up to three times:
`store.pages` and `meta` are the bytes of the mapping, `disk` is what an end of power is
sure to leave, and `unlisted` holds bytes of the mapping that the handle
does not list (all of them while no process has the file).

| Action | Code |
|---|---|
| `Mutate`, `SnapshotOpen`, `SnapshotClose` | as in `CowTree`, with the pages that `newPage` and `relinkLeaves` mark dirty |
| `SyncBegin` | `syncMmap` up to the flush; for `Close` also its guard and its reclamation. `PrepareMeta` writes the freelist or reclaim chain into new pages |
| `SyncData` | `syncDataPages`; nothing is flushed when no page is dirty |
| `SyncMeta` | `publishMeta` writes the meta page of slot `revision % 2` into the mapping |
| `SyncEnd` | it is flushed; chains that no meta page names are freed (`reclaimObsoleteMetaFreelistPages`); `Close` lets the file go |
| `SyncFail`, `CloseFail` | any of these steps returns an error: everything in memory goes back, the meta page in the mapping too, and its new bytes may be on disk or not |
| `ProcessCrash` | a kill: the file keeps all bytes of the shared mapping (external) |
| `PowerLoss` | of all pages that differ from `disk`, any subset arrived and at most `MaxTorn` are torn (external) |
| `Open`, `OpenRefused` | `OpenMmap` of an existing file: `loadMeta` with every check on the candidates, from the newest on, and the freeing of obsolete chains |

`fsync` in `syncDataPages` and `syncMetaPage` is on the file, and so flushes every
byte of the mapping. Write-back by the kernel at other times is not a step: it
matters only when power ends, and `PowerLoss` chooses what had been written back by then.
`durable`, `crash` and `doubt` are history variables: the tree of the last Sync that
succeeded, how things stood when the process ended, and whether a meta page newer
than what the handle believes may be on disk, because recovery passed over it or
because a failed Sync had written it. The properties on what is recovered make no
promise in doubt: `MCMmapSync_fallbackclose.cfg` shows why.

`DurableTree` is `MmapSync` for every tree. A page is a body, which names the pages below it, and a sibling
link; which images make a valid tree (`ValidTree`) and which links are right (`Linked`) are parameters, and a mutation may
build any new root out of allocated pages and pages of the old tree, as a copy-on-write
mutation does. The allocator, reclamation, relinking in place, the dirty set, the chains, the steps of Sync, its failures,
the ends of process and power, and the checks of recovery are those of `MmapSync`, one action each and under the same names, with three
differences: a chain is a set of pages and not a list, a fold over records is a union, and behaviours
end where recovery passes over the newest meta page or a failed Sync leaves one on the disk that the handle took back
(`status = "doubt"`), after which the code promises little (see `MCMmapSync_fallbackclose.cfg` below). The walk from a root is the least
set that is closed under `Below`, which needs no recursion, so that theorems can be proved.

`MmapDurable` is `MmapSync` with the refinement mapping to `DurableTree`: bodies and links are taken apart, sequences of ids become sets, a valid
tree is what `loadMeta` accepts of an image. Two history variables (`published`, `ended`) keep what the histories of `DurableTree` remember and those of
`MmapSync` do not; an auxiliary variable `shown`, which every step sets to the same function of the new state, holds the mapping and the disk in the
form of `DurableTree`, so that TLC translates them once per step. `ImplementsDurableTree` asks for more than a refinement by `Spec`: each step has to be the abstract step that
belongs to it, with the parameters read off the concrete one (which ids were allocated, what was written where, which leaves were relinked), so that TLC
need not search for them. From the step on that makes `status` "doubt", nothing is asked.

`Cursors` extends the algorithms by `RangeFrom` and `RangeBetween` (linked and
recursive) and by the cursor of `cursor.go`: a record of its bounds, its stack of
frames and its entry, and one operator per method. `BranchCache` has `pageCache`: entries by
page id, valid for one checksum (the bytes of the page), in LRU order, and the search that routes
through them. `CowTree` uses both: `Get`, and the searches in `Put`, `Delete` and batches
leave a cache behind, and ranges and cursors are read in every state.

`Transactions` is what callers of `tx.go`, `tx_cursor.go` and `batch.go` see of one
tree: the tree is the abstract map of `VersionedMap` with a revision, a transaction is its
base revision, its view and its staged operations, and every step of two transactions, a
batch, a cursor and direct mutations may come between any two others. A commit replays the
staged operations and publishes once, panics and publishes nothing, or is refused;
`CommitSync` syncs what it changed, and that may fail. `result` is what the
last commit returned. The base of a transaction is a snapshot, so its view is the map of that
moment (`CowTree` has the pages that make it so).

`ReaderTable` is the sidecar file through which processes meet. `slots` is the table,
`start`, `clock` and `boot` stand for the machine: which process has a process id, since when, in
which boot. Every operation on the table runs under one `flock` and is one action;
`OpenMmapReadOnly` is four.

| Action | Code |
|---|---|
| `Claim` | `openReaderTable`, `claim(0)`: the first slot that is free or whose owner is dead |
| `LoadMeta`, `UpdateRevision`, `Validate` | the rest of `OpenMmapReadOnly`, each of which may fail and give the slot back |
| `Close` | `Tree.Close` of the handle |
| `WriterOpen`, `WriterStop` | `OpenMmap` with its validation of the table; the end of the writer, by `Close` or not |
| `Mutate`, `Reclaim`, `CleanStale`, `Sync` | the writer's calls of `oldest` and `cleanStale`, with what they clear and free; what Sync publishes |
| `Start`, `Die`, `Reboot` | processes and the machine (external) |

A page is the tag of its retired record, so a root is intact while no tag below its revision
has been rewritten; whether recovery detects a rewritten root is `MmapSync`'s subject.

`MmapFile` is the geometry of the file: file size, mapping, `maxPages`, and which page structs
point into a mapping that was unmapped (`stale`).

| Action | Code |
|---|---|
| `CommitBegin`, `Stage`, `StageDrop`, `CommitEnd`, `CommitPanic` | a batch commit, one page at a time: `allocPage` with `growMmapForPage` and `remapMmap`; a growth that fails panics, and `restore` brings the saved page structs back |
| `Sync`, `Close` | `persistMeta` and `syncMmap` in one step with every outcome of its chain, flush and meta page; afterwards every listed page is read for obsolete chains |
| `CompactPublish`, `CompactShrink` | `compactMmapTail` up to publication, `shrinkMmap` |
| `Punch` | `PunchFreeMmapPages`; an error may end it after some of the ranges |
| `SnapshotOpen`, `SnapshotClose` | what holds retired pages back |
| `Kill`, `PowerLoss`, `Open` | the file as it is, or as the disk may hold it: any size and meta page since the last fsync (external), and `OpenMmap` of the newest root |

A resize has the outcomes that the calls in it can produce: the truncation, the fsync, the new
mapping and the unmapping of the old one fail one at a time, and what restores the size
may fail as well. `status = "fault"` is a read of memory that was unmapped. A mutation outside a batch whose growth
fails panics, which nothing in the package recovers: it is `Kill`.

`PageStoreProofs`, `ReaderTableProofs` and `TransactionsProofs` have the theorems about `PageStore`, `ReaderTable` and
`Transactions`; those about `MmapFile` are in `MmapFileProofs` (sizes), `MmapRootsProofs` (roots, flushing, mappings), which
extends it, and `MmapIdsProofs` (page ids), which extends both. `DurableTreeProofs` has those about what
`DurableTree` keeps, and `DurableIdsProofs`, which extends it, those about its page ids.
The modules named `MC...` instantiate for TLC.

Composition: `CowTree` implements `VersionedMap` (property `ImplementsMap`) and
`PageStore` (property `ImplementsPageStore`), each by an `INSTANCE ... WITH` refinement
mapping. The first says that the tree is right for its callers, the second that
the abstraction used in the proofs is one the real algorithms fit: every B+tree
operation writes only ids that it allocated, retires only ids that it may, and
leaves the others reachable. `PageStore` in turn implements `Versions` (property
`ImplementsVersions`, checked and proved): that nobody sees a reused page is there not an invariant about
ids but the statement that readers cannot tell the store from one that never reuses any. `MmapSync` implements `DurableTree` until it is in doubt (property `ImplementsDurableTree`
of `MmapDurable`), so that what is proved about recovery there, for trees of any shape, holds of the mapped B+tree as far as this has been checked.

An operator named `X_Something` with a comment `slip:` is a plausible bug in X, put
in X's place to see that a property notices it. No specification uses them.

## Runs

Most runs check safety only: nothing in a `Tree` happens unless its caller calls it, so no
action is fair. `readers` has two liveness properties, under weak fairness of the writer's
`CleanStale` and `Reclaim` alone: they say what happens if a writer that is open and has something to
clean or to reclaim goes on calling the operations that do so, which is what a writer that mutates does.
Nothing is assumed of readers, of new processes or of the machine.
Deadlock checking is off: every run has bounds at which it stops, and a
closed tree stops for good.

| Run | Question | Bounds |
|---|---|---|
| `pages_mmap` | isolation, rollback, accounting and reader counts of page ids under a moving reader-table watermark, Sync and its chains, Compact and Close; the refinement of `Versions` | ids 2..4, 3 revisions, 2 snapshots, 2 contents; a chain is needed from two free pages on, and holds two records a page (501 and 254 or 509 in the code) |
| `tree_snapshots` | the tree under two snapshots: Check, ranges, links, lost pages, prompt reclamation (`TreeSound`), and the refinement of the map | 4 keys, inline and overflow values, degree 2, 3 mutations after a full leaf |
| `tree_batches` | batches of two operations with a panic between any two, on overflow values; routing through a cache of one branch; both refinements | 5 keys in two leaves, 1 panic, 1 snapshot |
| `tree_deep` | every rebalancing case; bounded ranges and cursors on the tree and on a snapshot; both refinements (that of `PageStore` with `Mmap` false) | four trees of three levels with 14 puts or deletes each, then 2 mutations on any of 14 keys |
| `sync_crashes` | chains stay whole while a meta page names them, no page is lost or owned twice, the last Sync is recovered after Close, a kill or an end of power at any step; every step of the mapped B+tree is a step of `DurableTree` | a leaf and a free page, or two linked leaves under a root; 2 mutations, 3 Syncs or Closes of which one may fail, 1 kill or 1 end of power with any part written back but no torn page, 1 snapshot; two records a chain page, one free id fits the meta page |
| `durable` | the inductive invariant behind the proofs about recovery, and the properties that follow from it | a tree is a leaf or a root over the leaf in page 2; ids 2..4, 3 mutations of one allocated page each, 2 Syncs or Closes, 1 snapshot, 1 end, 1 torn page; chain pages of two records, one free id fits the meta page |
| `sync_stale_links` | violation: Sync under a snapshot | the smallest instance that shows it |
| `readers` | slots stay with their owners, what a reader needs stays pinned while it opens and the writer moves, the writer never distrusts the table, dead slots and their pins go away | 2 slots, 2 handles, 2 process ids, 2 boots, formats 0, 2 and 3 |
| `readers_recycled` | violation: a page freed before the reader claimed its slot | the smallest instance that shows it |
| `transactions` | commits are serial and report what they saw, staged ranges merge base and overlay, a revision names one content, a durable commit is durable | 2 transactions, 1 batch, 1 cursor, 2 keys, 1 panic or failing Sync |
| `mapping` | usable pages lie inside mapping and file, nothing in use is stale, the newest root fits its file whatever the disk holds, ids and dirty pages are accounted for, punching spares both roots | 4 page ids, 2 live pages, 2 revisions, 1 fault, 1 end, 1 snapshot; all free ids fit the meta page |
| `mapping_compact` | violation: they do not fit | one free id fits the meta page |

Why the bounds are enough. Isolation and accounting go wrong within one reuse of an
id: retire, reclaim, allocate; 3 revisions and 4 pages do this with both snapshots on
either side, and the theorems cover all sizes. At degree 2 a page holds 1 to 3
keys, so that 14 keys make three levels, and the preloaded trees put a
narrow branch beside a wide one and on either side of it: borrowing from the left and
from the right, merging with either sibling, redistribution of leaves and of
branches, spilling, root growth and collapse are all reached. Sizes 1, 3 and 6 in
a page of 8 units make three small cells or two medium ones fit and force a big
value into a chain of two pages; `MinFillUnits` makes a page with the
minimum of keys either sparse or not.

Recovery goes wrong within one cycle: Sync, one or two mutations which reuse pages of
the synced root, an interrupted Sync, reopening. In a tree of one leaf every mutation
rewrites the root and takes the free page, and the next one the page of the synced root; with two leaves the left one is relinked in place.
Three Syncs are needed for a chain to become obsolete and its pages to be freed and used again. Capacities of one or two records, where the code has
254 and 509, make chains of several pages out of a handful of records. What needs more is within the theorems about `DurableTree`, and these
configurations, too many or too large for the list above, have been run by hand with success:

- `MCMmapSync_kill.cfg`: `OpenTreeSound` and `SyncIsDurable` over 3 mutations of one key and 3 Syncs, with a kill (647,813 states);
- `MCMmapSync_power.cfg`: `SyncIsDurable`, `NewRootAfterMetaWrite` and `SnapshotKeepsDurable` of `MmapSync` itself, with an end of power and a torn page;
- `MCMmapDurable_torn.cfg`: `ImplementsDurableTree` with a kill, an end of power and a torn page in one behaviour (192,313 states);
- `MCDurableTree_links.cfg`: `durable` where links may be wrong and are repaired in place, with two mutations (305,425 states);
- `MCDurableTree_ids.cfg`: `IdsInv`, `NoPageLost` and `ChainsIntact` of `DurableTree` up to the first end of the process
  that is not a successful Close (20,634 states). Without that bound TLC finds `NoPageLost` violated after a kill.

The reader table goes wrong with two readers, or a reader and the owner that its slot had before: two
slots and handles, two process ids that are reused within a boot and over a reboot. Format 1 keeps neither
start nor boot and is covered by the proofs, except for `RefusedByNewerOnly`, which is false there (see Proofs). A growth doubles from two pages, so four ids see one
growth and one shrink; the second growth repeats the first. One fault is enough because every operation
restores what it changed or leaves the process, and two ends of the process add nothing after
`Open`, which starts from the file alone, except for the one history of two failures and two crashes that the
proof met and that its hypothesis `Settled` excludes (see Proofs).

### What the runs found

The first three are runs of the project. The others are stated and shown by the configurations named
with them, which are run by hand (`tlc -config MCMmapSync_oldroot.cfg MCMmapSync`).

- `sync_stale_links`: `relinkLeaves` does nothing while a snapshot is open, but Sync
  publishes all the same and recovery always checks the links; it rejects
  the synced root. `SyncIsDurable` therefore asks for a tree whose links were
  repaired (`durable.linked`).
- `readers_recycled`: a page that a mutation retires before the next Sync is free at once if nobody
  pins it. A read-only handle that opens the synced root after that claims its slot too late for this
  page, and the next mutation rewrites it under the handle, where
  `docs/08-mmap-backed-pages.md:358` promises new pages. `ReaderPinned` therefore leaves out what
  was free when the slot was claimed.
- `mapping_compact`: when more ids are free than fit the meta page, Compact publishes a root
  whose freelist chain takes an id past the trimmed `nextPage`, which grows the capacity again, and then
  truncates to the capacity from before. The newest root no longer fits the file, and
  recovery rejects it (`mmap.go:1828`). `mapping` has a meta page that holds all free ids.
- `MCMmapFile_rollback.cfg`, `NoFault`: a batch reuses a free id, then grows the file and panics.
  The page struct that `newPage` had replaced comes back with a slice of the mapping that is gone, on the
  free list, and the next Sync reads it when it looks for obsolete chains; `batch.go:139` says that
  a panic restores the tree's reachable state, which it does (`PagesReadable`).
- `MCCowTree_zerorev.cfg`, `RetiredNonzero`: pages are retired with the revision before publication. A
  batch of two puts on a tree that was never mutated, under a snapshot, retires
  a page with revision 0, which the snapshot keeps from being reclaimed;
  `Tree.Check` (`integrity.go:135`) then calls this sound tree broken, and
  `docs/08-mmap-backed-pages.md:45` forbids such a record in a file. Therefore
  `CheckAccepts` has the rest of `Check` and `RetiredNonzero` this rule.
- `MCCowTree_cache.cfg`, `CacheStaysDisabled`: after a panic `restore` calls `newPageCache` with the
  normalized capacity, where 0 stands for disabled, and gets the default;
  `docs/08-mmap-backed-pages.md:140` says that a negative capacity disables the cache. Routing is right with any capacity.

The documentation presents durability as a local harness without a complete
write-order protocol (`docs/08-mmap-backed-pages.md:400`); the rest says where
its more specific sentences do not hold.

- `MCMmapSync_oldroot.cfg`, `OldRootRecovered`: two puts after a Sync. The first retires the synced root and, no
  snapshot being open, frees it at once; the second allocates and overwrites it
  in the shared mapping. A kill then leaves a file that opens on the revision of the Sync
  with the value of the second put, where
  `docs/00-storage-engine-course.md:362` promises the old root. With a snapshot of
  the synced revision the promise holds: `SnapshotKeepsDurable`.
- `MCMmapSync_tornmeta.cfg`, `TornMetaFallsBack`: the slot is the parity of the revision, and revisions that no
  Sync publishes count too. Two puts on a new database and a Sync rewrite slot 0,
  the only meta page; if that write is torn, nothing can be opened. `SyncIsDurable`
  leaves out the end of power within the flush of a meta page (`MetaSettled`).
- `MCMmapSync_fallbackcheck.cfg`, `AcceptedPassesCheck`: recovery that falls back lists the pages up to the larger
  `nextPage` of the rejected root and frees its chain pages, which are past the accepted
  `nextPage`; `Check` then rejects the tree that `OpenMmap` accepted.
- `MCMmapSync_fallbackclose.cfg`, `CloseDurableAfterFallback`: after a fallback, revisions start again below that of the rejected
  meta page, which stays where it is. When a mutation rewrites the pages whose loss had
  made it unusable, it is valid again, outranks the root that a successful Close
  published, and the next `OpenMmap` opens it.

After a crash, a page of an obsolete chain that a lost mutation had reused, or that was punched,
is neither reachable nor free nor recognised as metadata: it is lost for good.
`NoPageLost` of `MmapSync` is stated for histories without a crash or a failed Close, its theorem about `DurableTree` has
that hypothesis (`LeftByClose`), and the part of
`IdsAccounted` that says no id is lost likewise. Its other part, that a free id is nothing else, leaves out the chain of a root that
has been spoilt: recovery may still read such a meta page, and `reclaimObsoleteMetaFreelistPages` then counts its
chain as named, but no promise about its pages is left to keep.

A process that reopens the file of a killed one starts with an empty dirty set, though
the page cache may hold pages which were changed and never flushed. Its next Sync may
so write a meta page before them; only the fsync after the meta page makes up for it.
`NewRootAfterMetaWrite` excludes this case (`crash.inherits`), `SyncIsDurable` includes
it. The pages of the root that it recovers were flushed (`DirtyCovers`).

## Proofs

`PageStoreProofs` proves, for every number of pages and revisions, every finite set
of snapshots, all contents, both values of `Mmap` and all capacities, that the
specification of `PageStore` keeps `StoreSound` (`TypeOK`, `ReadersCounted` and `SnapshotsMapped`), `SnapshotIsolation`, `RollbackIntact`,
`PageAccounting` and `PromptReclaim`.
Assumptions: `Snap` is finite, the bounds are natural numbers, at least one page
exists, `Mmap` is Boolean, a chain page holds at least one record.

The argument is one inductive invariant, `IndInv`. Isolation alone is not inductive:
that a step does not write a snapshot's page needs

- `Covered`: the page is still reachable or is a retired record at least as new as
  the snapshot, which is what `reclaimRetiredPages` keeps;
- `ReadersCounted`: the watermark knows this snapshot;
- `PageAccounting`: an id that is reachable or retired is neither free nor
  unused, so it is not handed out (`RewriteSpares`);
- `SavedStateGood`: all this also holds of the state a panic would restore, and
  the saved root's pages are reachable or retired, so `RollbackIntact` holds.

There is one lemma per action (`MutateGood` to `TableChangesGood`) over lemmas on what
reclaiming (`ReclaimAccounted`, `ReclaimCovered`, `ReclaimWaiting`), retiring
(`RetireIds`), a staged mutation (`RewriteAccounted`, `StageGood`) and publishing
metadata (`PublishGood`) preserve, and on counting open snapshots (`CountOpen`,
`CountClose`). `SnapshotsMapped` follows from `Covered` and `PageAccounting`.

`ReaderTableProofs` proves, for every set of processes and handles, every number of slots, every
format and any number of starts, boots, claims and revisions, that the specification of `ReaderTable`
keeps `TableSound` (`TypeOK` and `WriterTrusts`), `SlotHeld` and `ReaderPinned`. Assumptions: process ids are
positive, the bounds are natural numbers, formats are 0 to 3. `SlotHeld` needs that tokens in the
table were given out already and that a handle's process is the one that has its process id now, so that
neither a scan nor a claim takes the slot for a dead one. `ReaderPinned` needs in addition that the slot of a
handle that has not chosen its root says 0, that of an open handle its revision, and that what
is synced, retired and free stands in the order of the revisions that retired it; `WriterTrusts` that no slot is
ahead of the newest published root.

The action property `RefusedByNewerOnly` is proved for tables whose first format is not 1 (hypothesis `1 \notin Formats` of
`RefusalsByNewer`). It needs that a slot ahead of an open handle either belongs to a registered handle or is gone for
good: its start time has passed and is not that of the process that has its id now, so no process that starts
later in this boot revives it, and after a reboot no handle is open that it could be ahead of, even in format 2, which does not
tell boots apart. In format 1 the property is false, as TLC shows: a reader of a newer root registers and dies, another
process gets its id, and the slot without a start time refuses a reader that had chosen its root before. The run
checks formats 2 and 3.

`TransactionsProofs` proves, for every finite set of numeric keys, all values, all sets of transactions and batches, all bounds
and every tree to start from, that the specification of `Transactions` keeps `OldValuesSeen`, `RevisionNamesContents`,
`CommitSyncDurable`, `RangeMerges` and the action property `SerialCommits`. Assumptions: the marks for missing, deleted and unstaged are no
values, no handle is both a transaction and a batch, and what the tree holds at first maps the keys. None of the properties is inductive. A commit replays
the operations on the live tree, while the transaction answered from an overlay on its snapshot; the inductive invariant
`Inv` therefore says of every open transaction that replaying its operations on its base shows what its overlay shows, and
that each operation saw what replaying those before it shows (`TxsFaithful`), and that no transaction has a base ahead of the tree
(`Behind`), so that an equal revision means the same contents. The replay is a fold over a sequence. As the library's induction
theorems cannot be used, the proof gives the states between the operations as a function (`StepsExist`) and reasons about the least
step at which a statement fails (`LeastOf`). `RangeMerges` follows from a lemma that the keys
which base and overlay make visible are exactly those that Get shows (`VisibleIsShown`).

`MmapFileProofs` proves, for any number of pages, revisions, failures and crashes, that
the specification of `MmapFile` keeps `PagesInsideFile`, as long as the free ids together with the retired ones fit the meta
page (`FreeListFits`, a hypothesis of the theorem: without it Compact allocates a chain page past
the tail it cuts off, see `mapping_compact`). Assumption: the bounds are natural numbers and there is a page id. The
inductive invariant `Inv` adds what the property does not say: the state that a rollback would restore lies inside
the file as well; while Compact shrinks, the capacity is already the target, so that a failed truncation cannot leave
the file below it; both meta pages hold typed records, on the disk too, and the first one is never empty, so
that the root that `Open` picks exists; every size the file ever had holds the least capacity. The lemmas follow the
calls: each says what `syncDataPages`, `growMmapForPage`, `prepareMetaFreelistPages`, `publishMeta` and the whole of a Sync
leave of capacity, mapping and file in every outcome.

`MmapRootsProofs` proves `PagesReadable`, `NewestFits`, `DirtyCovers` and the action property `PunchKeepsRoots` of `MmapFile`
for the same constants, with one inductive invariant, `RootsInv`, on top of `Inv`. It speaks of every root that the disk may
hold, not only of the two meta pages that the process sees:

- `RootsKept`: the pages of a root that is not spoilt are flushed, and no chain has been written over its tree;
- `Ordered`: the newer of two such roots uses no page in the chain of the older one, so that falling back stays possible;
- `Fitting`: whatever sizes and meta pages are pending, the root that recovery takes fits the file, and no page that it still
  counts as retired has become a chain page;
- `Safe`, of the running tree and of the state that a rollback would restore: its ids are apart (`Apart`), no slice that
  is read is stale, what is not flushed is dirty, also what the disk may have no room for, and no chain of an acceptable root is in use (`Kept`).

The lemmas follow the calls again. Those that write no page leave the disk with fewer roots and no shorter size (`Calmer`), those
that write or punch pages mark the roots that they spoil (`Marked`), and publication (`PersistedIs`) has every outcome of the chain, the flush and the meta
page. The theorems have two hypotheses. `FreeListFits` is the one above. `Settled` says that when a process has ended, no meta page whose sync failed is
still on its way to the disk. Without it page ids are handed out twice, as TLC finds with two
failures and two crashes: the publication of revision n fails in its sync, which leaves n on the disk, and the process is killed;
the next process opens the older root, whose `nextPage` is lower, and writes a chain page at an id that n counts as
retired; power ends, and the disk holds n. `reclaimObsoleteMetaFreelistPages` (`mmap.go:1477`) finds there a page that reads as
an obsolete chain and frees it, though it is on the retired list, and `reclaimRetiredPages` (`freelist.go:44`) appends it to the free list again. The bounds
of the run `mapping` do not reach that history; every other failure and crash, at any point, is within the theorems.

`MmapIdsProofs` proves `IdsAccounted` under the same hypotheses. That a free id is nothing else follows from `RootsInv`. That no id is
lost needs `IdsInv`: until a process is killed, every id below `nextPage` is live, free, retired, or still reads as a chain page
(`Traced`), since that is how a chain that no meta page names is found again, and is in the chain of the tree or of a meta page if it is none of the
first three (`Named`); both hold of the state that a rollback restores, and the first of the root that a Close has left,
which the next process opens. A chain page that a failed publication wrote is at `nextPage`, so it was no id of the tree (`Fresh`).

`StoreImplementsVersions` proves that `PageStore` implements `Versions`, for the same constants as the invariants: the refinement
mapping shows the state of the live root (of the saved root while a commit runs) and, per snapshot, the pages its root reaches. Each action is a step of
`Versions` or leaves what it maps to alone; that is where `SnapshotIsolation` and `RollbackIntact` do their work, on
both sides of a step.

`DurableTreeProofs` proves, for every set of pages, bodies, links and lengths, every notion of a valid tree and of right links, every number of
revisions, Syncs, crashes and torn pages and every set of snapshots, that the specification of `DurableTree` keeps the invariant `HandleSound` and the action
properties `SyncIsDurable`, `SnapshotKeepsDurable` and `NewRootAfterMetaWrite`. Assumptions: there is a page id, the bounds are natural numbers, a chain
page holds a record, the ids that a body names are page ids, the empty tree is valid. No theorem of this module has a hypothesis besides these.

What recovery will find is decided long before, so the inductive invariant `IndInv` (checked by `durable`, and with wrong links by `MCDurableTree_links.cfg`) says of every moment what a
crash in it would leave:

- `HandleSound`: the ids of the handle are apart and its tree would pass recovery's checks;
- `RecordsOrdered`: of all meta pages in the mapping or on the disk, whichever of them survive, the newer has at least the
  `nextPage` of the older, so the range that recovery lists is that of the newest;
- `ChainsRetireTrees`: no page that a chain counts as retired reads as a chain page. Without it `reclaimObsoleteMetaFreelistPages` could free
  an id that is retired at the same time (the double allocation that `MmapFile` has when its hypothesis `Settled` fails);
- `SyncSound`: what a Sync in progress has prepared, what it flushed before the meta page, and what it would take back;
- `DirtySound`: a page of the tree that differs from the disk is dirty until it is flushed, relinked leaves included;
- `DurableSound`: the meta page of the last Sync is the newest in the mapping and on the disk, and while nothing changed since
  or a snapshot pins its revision, every page it reaches is as it was, on the disk too, and is in the tree or retired with a revision at least its
  own, so that nothing can reuse it. In the second case the invariant is that reclamation keeps the record, in the first that no page was written;
- `DownSound`: with the file closed or lost, the newest meta page is usable and holds what the properties promise.

There is one lemma per action and conjunct (`...Keeps...`), over lemmas on what a walk reaches when pages it does not meet are rewritten, on the
records of a chain, on what reclaiming and relinking leave alone, and on which meta page is newest when part of what was written arrived.
The three properties then follow from `DownSound` in a step that opens the file. The theorems do not reach the histories in doubt, where the properties make no promise.

`DurableIdsProofs` proves of the same specification, with the same freedom in sizes and trees, that no page id is lost (`NoPageLost`) and that
the chains which meta pages name can be read between two operations (`ChainsIntact`). They have one hypothesis, `[]LeftByClose`: every
process that left the file left it by a Close that succeeded. It is what `OpenTreeSound` assumes of `NoPageLost` too, and a kill shows why: the
bytes of a lost mutation stay in the page of an obsolete chain that it had reused, and nothing tells what the page was.
A Sync that fails outside Close is within the hypothesis. The inductive invariant `IdsInv`, proved relative to `IndInv`, says

- that an id below `nextPage` outside the tree, the free list and the retired records has a chain page (`Traced`);
- that a chain page is free unless a meta page names it, and then it is not. A Sync publishes its chain before it frees those which
  nothing names any more, and between the two the meta page in the mapping may be taken back, so this is said of the meta pages without
  it (`Settled`). A mutation writes to free and new pages and to leaves only, hence never to a named chain;
- that after Close the same holds of what the newest meta page describes, which by `IndInv` is the record that the Close published, so that
  Open goes on from where Close ended.

Only model-checked: everything about `BPlusTree`, `Cursors`, `BranchCache`, `CowTree` and `MmapSync`, whose operators are
recursive, which keeps them out of the prover's reach, as does induction over
the tree: `TreeSound`, `CacheRoutes`, `RangesVisitAll`, `CursorsWalk`, `OpenTreeSound`, the durability properties of `MmapSync` with its concrete
B+tree, the two refinements of `CowTree` and that of `MmapSync`. Of the parts of `OpenTreeSound`, `NoPageLost` and `ChainsIntact` are proved of
`DurableTree` under `[]LeftByClose`. `ImplementsPageStore` carries the proved properties of
`PageStore` to the bounded instances of `CowTree`, `ImplementsDurableTree` those of `DurableTree` to the bounded instances of `MmapSync`. `Transactions` has no refinement to `VersionedMap`: a commit changes the map and
closes its snapshot in one step, which are two steps there. Liveness (`OrphansEnd`, `PinsEnd`) stays with TLC.

## Not modelled

- Byte layout, checksums, codecs, key encodings, comparators: pure functions with
  unit tests. Keys are numbers in the order of the comparator.
- Older metadata versions and their upgrade (the one case in which `Sync` advances the revision), the
  persisted degree and key order. `MmapSync` has a file large enough from the start, no batches, no
  other processes and values that fit a cell; `MmapFile` has one process, chains of one page, and
  opens the newest root only.
- A panic outside a batch, which the package leaves to the caller.
- An error of `madvise` after a remap (`mmap.go:414`), which would leave all page structs bound to the
  removed mapping: it does not fail on a mapping that was just made. A second process that reads the older
  meta page's pages while `shrinkMmap` truncates the file.
- That repeated Syncs under one snapshot take new ids for their chain each time (`mmap.go:1397`): `MmapFile` has it
  within its bound on ids, and no bound is promised.
- `WriteBatch.DeleteRange` compares its bounds bytewise in every key order: `Transactions` has the guard, for any
  relation between the bounds (`BytesBefore`), but no document says what it should do.
- Copy compaction and the replacement of the file (`copy_compact.go`, `compact_replace_unix.go`): sequences of file
  system calls around operations modelled here; what can go wrong is in the file system.
- Locks: the models take the exclusion of `flock` as given.
- Statistics, profiles, traces, prefetch and cache advice, command-line tools: they report, and change no
  state that the tree reads.
- `btree/`: a teaching version of the same insertion, without deletion, pages or files.

## What could follow

- `MmapFile` with several processes and with the reader table's slots.
