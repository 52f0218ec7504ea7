-------------------------------- MODULE MmapFile --------------------------------
(***************************************************************************)
(* The file and the mapping under an mmap-backed tree: an allocation past  *)
(* the capacity grows the file and maps it again, Compact trims the free   *)
(* tail, publishes and then shrinks the file, and PunchFreeMmapPages gives *)
(* back the blocks of free pages.  Any system call of these may fail, a    *)
(* failed allocation ends a batch commit by a panic, and the process or    *)
(* the machine may stop between two steps.                                 *)
(*                                                                         *)
(* A page struct of t.pages holds a slice of the mapping; a page is stale  *)
(* when its slice belongs to a mapping that was unmapped.  Sizes count     *)
(* pages, the two meta pages included.  A tree is the set of pages that    *)
(* its root reaches (CowTree.tla says which pages a mutation copies).      *)
(***************************************************************************)
EXTENDS Integers, FiniteSets, FiniteSetsExt

CONSTANTS
    MaxMetaFree,  \* maxMetaFreePages: free ids that fit the meta page (501)
    MaxPage,      \* bound: page ids are 2..MaxPage
    MaxLive,      \* bound: pages that the root reaches
    MaxRevision,  \* bound: revisions are 0..MaxRevision
    MaxFaults,    \* bound: operations that fail: a system call or a panic
    MaxCrashes,   \* bound: Closes and ends of the process or of power
    MaxReaders    \* bound: snapshots that are opened, one after another

ASSUME BoundsAreNat ==
    /\ {MaxMetaFree, MaxPage, MaxLive, MaxRevision, MaxFaults, MaxCrashes, MaxReaders} \subseteq Nat
    /\ MaxPage > 1

VARIABLES
    status,  \* "open", "shrinking" (within Compact), "down", or "fault" when the
             \* process has read memory that is not mapped
    tree,    \* pages reached, t.free, t.retired, t.nextPage, t.metaFreelistPages
    arena,   \* the file, its mapping, the meta pages and what the disk may hold
    batch,   \* the commit in progress and its batchTreeState
    reader,  \* the revision that the open snapshot pins, or NoReader
    target,  \* the capacity that Compact shrinks the file to
    count    \* operations that failed, Closes, ends by a crash, snapshots

vars == <<status, tree, arena, batch, reader, target, count>>

FirstPage == 2        \* firstTreePageID, and metaPageCount
MinCapacity == 2      \* minMmapPageCount
Slot == 0..1
PageID == FirstPage..MaxPage
NoReader == -1
Zero == [revision |-> -1]   \* a meta page that was never written

Listed(t) == FirstPage..(t.nextPage - 1)  \* the ids of t.pages
Recorded(a) == {i \in Slot : a.meta[i] # Zero}
Owned(r) == IF r = Zero THEN {} ELSE r.live \union r.chain

----------------------------------------------------------------------------
(* The file *)

\* file.Sync: the disk holds exactly what the file holds.
Fsynced(a) ==
    [a EXCEPT !.unflushed = {},
              !.disk = [size |-> {a.file}, meta |-> [i \in Slot |-> {a.meta[i]}]]]

\* file.Truncate: until the next file.Sync the disk may have either size.
Truncated(a, size) == [a EXCEPT !.file = size, !.disk.size = @ \union {size}]

\* restoreFileSize: its truncation fails, or its sync, or none.
Restored(a, size) == {a, Truncated(a, size), Fsynced(Truncated(a, size))}

\* The file after a resize that failed: the truncation itself, or what follows it.
Unresized(a, capacity) ==
    LET truncated == Truncated(a, capacity + FirstPage)
    IN {a} \union UNION {Restored(b, a.mapped) : b \in {truncated, Fsynced(truncated)}}

\* The file is mapped again and rebindMmapPages moves the slices of t.pages.
Remapped_KeepsSlices(a, capacity) ==  \* slip: the slices are not moved
    [Fsynced(Truncated(a, capacity + FirstPage)) EXCEPT
        !.mapped = capacity + FirstPage, !.capacity = capacity, !.stale = PageID]
Remapped(a, capacity) ==
    [Fsynced(Truncated(a, capacity + FirstPage)) EXCEPT
        !.mapped = capacity + FirstPage, !.capacity = capacity, !.stale = {}]

Ok(a, moved) == [ok |-> TRUE, moved |-> moved, arena |-> a]
Failed(a) == [ok |-> FALSE, moved |-> FALSE, arena |-> a]

\* syncDataPages: dirty pages below nextPage are flushed, with the whole file.
SyncDataPages(a, nextPage) ==
    IF \A id \in a.dirty : id >= nextPage
    THEN {Ok([a EXCEPT !.dirty = {}], FALSE)}
    ELSE {Ok([Fsynced(a) EXCEPT !.dirty = {}], FALSE), Failed(a)}

\* growMmapForPage doubles the capacity until the id fits.
GrownCapacity(capacity, id) ==
    LET least == Max({capacity, MinCapacity})
    IN Min({n \in {least * k : k \in {1, 2, 4, 8}} : n >= id - FirstPage + 1})

\* remapMmap, as far as it is reached: whether it failed, and what it leaves.
GrowMmapForPage_Early(a, nextPage) ==  \* slip: the capacity is raised before the mapping
    IF nextPage < a.capacity + FirstPage THEN {Ok(a, FALSE)}
    ELSE LET capacity == GrownCapacity(a.capacity, nextPage)
         IN UNION {IF ~s.ok THEN {s}
                   ELSE {Ok(Remapped(s.arena, capacity), TRUE)}
                        \union {Failed([b EXCEPT !.capacity = capacity]) :
                                b \in Unresized(s.arena, capacity)} :
                   s \in SyncDataPages(a, nextPage)}
GrowMmapForPage(a, nextPage) ==
    IF nextPage < a.capacity + FirstPage THEN {Ok(a, FALSE)}
    ELSE LET capacity == GrownCapacity(a.capacity, nextPage)
         IN UNION {IF ~s.ok THEN {s}
                   ELSE {Ok(Remapped(s.arena, capacity), TRUE)}
                        \union {Failed(b) : b \in Unresized(s.arena, capacity)} :
                   s \in SyncDataPages(a, nextPage)}

\* A root is spoilt when one of the pages it owns is written again.
Spoilt(r, ids) ==
    IF ids \intersect Owned(r) = {} THEN r ELSE [r EXCEPT !.spoilt = TRUE]
Overwritten(a, ids) ==
    [a EXCEPT !.meta = [i \in Slot |-> Spoilt(@[i], ids)],
              !.disk.meta = [i \in Slot |-> {Spoilt(r, ids) : r \in @[i]}],
              !.chainBytes = @ \ ids]

\* newPage and its write: a new struct, in the current mapping.
Written(a, ids) ==
    [Overwritten(a, ids) EXCEPT
        !.stale = @ \ ids, !.dirty = @ \union ids, !.unflushed = @ \union ids]

----------------------------------------------------------------------------
(* Retirement: freelist.go *)

Retire(t, ids) == [t EXCEPT !.retired = @ \union [id : ids, revision : {t.revision}]]

ReclaimRetiredPages(t) ==
    LET kept == {r \in t.retired : reader # NoReader /\ reader <= r.revision}
    IN [t EXCEPT !.retired = kept, !.free = @ \union {r.id : r \in t.retired \ kept}]

\* reclaimObsoleteMetaFreelistPages: metadata pages that no meta page names.
ReclaimObsolete_IgnoresOther(t, a) ==  \* slip: the older meta page is not read
    [t EXCEPT !.free = @ \union ((Listed(t) \intersect a.chainBytes) \ t.chain)]
ReclaimObsolete(t, a) ==
    LET named == t.chain \union UNION {a.meta[i].chain : i \in Recorded(a)}
    IN [t EXCEPT !.free = @ \union ((Listed(t) \intersect a.chainBytes) \ named)]

----------------------------------------------------------------------------
(* Publication: prepareMetaFreelistPages, syncDataPages and publishMeta *)

Record(t, a) ==
    [revision |-> t.revision, nextPage |-> t.nextPage, maxPages |-> a.capacity,
     live |-> t.live, free |-> t.free, retired |-> t.retired, chain |-> t.chain,
     spoilt |-> FALSE]

NeedsChain(t) == t.retired # {} \/ Cardinality(t.free) > MaxMetaFree

\* The records fill one page, which is new: the id at t.nextPage.
PrepareMetaFreelistPages(t, a) ==
    IF ~NeedsChain(t)
    THEN {[ok |-> TRUE, moved |-> FALSE, tree |-> [t EXCEPT !.chain = {}], arena |-> a]}
    ELSE {IF ~g.ok THEN [ok |-> FALSE, moved |-> FALSE, tree |-> t, arena |-> g.arena]
          ELSE [ok |-> TRUE, moved |-> g.moved,
                tree |-> [t EXCEPT !.nextPage = @ + 1, !.chain = {t.nextPage}],
                arena |-> [Written(g.arena, {t.nextPage}) EXCEPT
                              !.chainBytes = @ \union {t.nextPage}]] :
          g \in GrowMmapForPage(a, t.nextPage)}

\* publishMeta: a meta page whose sync failed is restored in the mapping only.
PublishMeta_NotSynced(t, a) ==  \* slip: file.Sync is missing
    LET i == t.revision % 2
    IN {Ok([a EXCEPT !.meta[i] = Record(t, a), !.disk.meta[i] = @ \union {Record(t, a)}], FALSE),
        Failed([a EXCEPT !.disk.meta[i] = @ \union {Record(t, a), a.meta[i]}])}
PublishMeta(t, a) ==
    LET i == t.revision % 2
    IN {Ok(Fsynced([a EXCEPT !.meta[i] = Record(t, a)]), FALSE),
        Failed([a EXCEPT !.disk.meta[i] = @ \union {Record(t, a), a.meta[i]}])}

\* What persisting t in a comes to.  A failure restores the tree and the dirty set.
Persisted(t, a) ==
    LET undone(o, p) == [ok |-> FALSE, moved |-> p.moved, tree |-> t,
                         arena |-> [o EXCEPT !.dirty = a.dirty]]
    IN UNION {IF ~p.ok THEN {undone(p.arena, p)}
              ELSE UNION {IF ~s.ok THEN {undone(s.arena, p)}
                          ELSE {IF m.ok
                                THEN [ok |-> TRUE, moved |-> p.moved,
                                      tree |-> ReclaimObsolete(p.tree, m.arena), arena |-> m.arena]
                                ELSE undone(m.arena, p) :
                                m \in PublishMeta(p.tree, s.arena)} :
                          s \in SyncDataPages(p.arena, p.tree.nextPage)} :
              p \in PrepareMetaFreelistPages(t, a)}

----------------------------------------------------------------------------
(* Actions *)

NoBatch == [active |-> FALSE]

NewTree == [live |-> {}, free |-> {}, retired |-> {}, nextPage |-> FirstPage,
            chain |-> {}, revision |-> 0]

\* OpenMmap of a new file with the least capacity, which it syncs.
Init ==
    /\ status = "open"
    /\ tree = NewTree
    /\ LET size == MinCapacity + FirstPage
           empty == [file |-> size, mapped |-> size, capacity |-> MinCapacity,
                     stale |-> {}, dirty |-> {}, unflushed |-> {}, chainBytes |-> {},
                     meta |-> [i \in Slot |-> Zero],
                     disk |-> [size |-> {size}, meta |-> [i \in Slot |-> {Zero}]]]
       IN arena = Fsynced([empty EXCEPT !.meta[0] = Record(NewTree, empty)])
    /\ batch = NoBatch
    /\ reader = NoReader
    /\ target = 0
    /\ count = [faults |-> 0, closes |-> 0, crashes |-> 0, readers |-> 0]

Idle == status = "open" /\ ~batch.active

\* An operation may fail as long as the bound on failures is not met.
Counted(outcome) ==
    /\ outcome.ok \/ count.faults < MaxFaults
    /\ count' = IF outcome.ok THEN count ELSE [count EXCEPT !.faults = @ + 1]

\* A commit saves the state, and stages one mutation after another.
CommitBegin ==
    /\ Idle
    /\ tree.revision < MaxRevision
    /\ batch' = [active |-> TRUE, changed |-> FALSE, tree |-> tree, dirty |-> arena.dirty,
                 replaced |-> {}, lost |-> {}]
    /\ UNCHANGED <<status, tree, arena, reader, target, count>>

\* allocPage takes a free id, or the next one if there is room for it.
Allocations(t, a) ==
    IF t.free # {}
    THEN {[ok |-> TRUE, moved |-> FALSE, id |-> id, tree |-> [t EXCEPT !.free = @ \ {id}],
           arena |-> a] : id \in t.free}
    ELSE {[ok |-> g.ok, moved |-> g.moved, id |-> t.nextPage,
           tree |-> [t EXCEPT !.nextPage = @ + 1], arena |-> g.arena] :
          g \in GrowMmapForPage(a, t.nextPage)}

\* A growth moves the slices of t.pages, and not those of the structs that only
\* the saved state still holds.
Saved(o) ==
    LET lost == IF o.moved THEN batch.replaced ELSE {}
        again == {o.id} \intersect Listed(batch.tree)
    IN [batch EXCEPT !.changed = TRUE,
                     !.replaced = @ \union again,
                     !.lost = @ \union lost \union (again \intersect arena.stale)]

\* restore, after a panic: the saved structs are listed again.
Rollback_KeepsDirty(a) == [a EXCEPT !.stale = (@ \ batch.replaced) \union batch.lost,
                                    !.dirty = {}]  \* slip: the dirty set is lost
Rollback(a) == [a EXCEPT !.stale = (@ \ batch.replaced) \union batch.lost,
                         !.dirty = batch.dirty]

\* copyPage of a page in copied, or a new page if copied is empty.
Stage(copied) ==
    /\ status = "open" /\ batch.active
    /\ tree.free # {} \/ tree.nextPage <= MaxPage
    /\ Cardinality(tree.live \ copied) < MaxLive
    /\ \E o \in Allocations(tree, arena) :
          /\ Counted(o)
          /\ IF o.ok
             THEN /\ tree' = [Retire(o.tree, copied) EXCEPT !.live = (@ \ copied) \union {o.id}]
                  /\ arena' = Written(o.arena, {o.id})
                  /\ batch' = Saved(o)
             ELSE /\ tree' = batch.tree
                  /\ arena' = Rollback(o.arena)
                  /\ batch' = NoBatch
    /\ UNCHANGED <<status, reader, target>>

\* A page is merged away, or the root of a tree that is left empty.
StageDrop(id) ==
    /\ status = "open" /\ batch.active
    /\ tree' = [Retire(tree, {id}) EXCEPT !.live = @ \ {id}]
    /\ batch' = [batch EXCEPT !.changed = TRUE]
    /\ UNCHANGED <<status, arena, reader, target, count>>

\* Any other panic of a staged mutation: an entry that fits no page.
CommitPanic ==
    /\ status = "open" /\ batch.active
    /\ count.faults < MaxFaults
    /\ count' = [count EXCEPT !.faults = @ + 1]
    /\ tree' = batch.tree
    /\ arena' = Rollback(arena)
    /\ batch' = NoBatch
    /\ UNCHANGED <<status, reader, target>>

\* publishStagedMutation
CommitEnd ==
    /\ status = "open" /\ batch.active
    /\ batch.changed
    /\ tree' = ReclaimRetiredPages([tree EXCEPT !.revision = @ + 1])
    /\ batch' = NoBatch
    /\ UNCHANGED <<status, arena, reader, target, count>>

SnapshotOpen ==
    /\ Idle
    /\ reader = NoReader /\ count.readers < MaxReaders
    /\ reader' = tree.revision
    /\ count' = [count EXCEPT !.readers = @ + 1]
    /\ UNCHANGED <<status, tree, arena, batch, target>>

\* endRead, which reclaims.
SnapshotClose ==
    /\ Idle
    /\ reader # NoReader
    /\ reader' = NoReader
    /\ tree' = [tree EXCEPT !.retired = {}, !.free = @ \union {r.id : r \in tree.retired}]
    /\ UNCHANGED <<status, arena, batch, target, count>>

\* After publication every listed page is read, to find the obsolete chains.
AfterReads(t, a, next) == IF a.stale \intersect Listed(t) = {} THEN next ELSE "fault"

Sync ==
    /\ Idle
    /\ NeedsChain(tree) => tree.nextPage <= MaxPage
    /\ \E o \in Persisted(tree, arena) :
          /\ Counted(o)
          /\ tree' = o.tree
          /\ arena' = o.arena
          /\ status' = IF o.ok THEN AfterReads(o.tree, o.arena, "open") ELSE "open"
    /\ UNCHANGED <<batch, reader, target>>

\* trailingFreeNextPage
TrailingFreeNextPage(t) ==
    Min({n \in FirstPage..t.nextPage : n..(t.nextPage - 1) \subseteq t.free})

\* Compact up to its publication.  If it fails the tree, the capacity and the
\* removed structs are restored.
CompactPublish ==
    /\ Idle
    /\ reader = NoReader
    /\ LET before == ReclaimRetiredPages(tree)
           next == TrailingFreeNextPage(before)
           capacity == Max({next - FirstPage, MinCapacity})
           removed == next..(before.nextPage - 1)
           trimmed == [before EXCEPT !.free = @ \ removed, !.nextPage = next]
       IN /\ next < before.nextPage \/ capacity < arena.capacity
          /\ NeedsChain(trimmed) => next <= MaxPage
          /\ \E o \in Persisted(trimmed, [arena EXCEPT !.capacity = capacity,
                                                       !.dirty = @ \ removed,
                                                       !.stale = @ \ removed]) :
                /\ Counted(o)
                /\ IF o.ok
                   THEN /\ tree' = o.tree
                        /\ arena' = o.arena
                        /\ status' = AfterReads(o.tree, o.arena,
                                         IF capacity < arena.capacity THEN "shrinking" ELSE "open")
                        /\ target' = IF status' = "shrinking" THEN capacity ELSE 0
                   ELSE /\ tree' = before
                        /\ arena' = [o.arena EXCEPT
                              !.capacity = arena.capacity,
                              !.dirty = arena.dirty,
                              !.stale = @ \union (IF o.moved THEN removed
                                                  ELSE arena.stale \intersect removed)]
                        /\ UNCHANGED <<status, target>>
    /\ UNCHANGED <<batch, reader>>

\* Compact with nothing to trim only reclaims.
CompactNothing ==
    /\ Idle
    /\ reader = NoReader
    /\ tree.retired # {}
    /\ LET before == ReclaimRetiredPages(tree)
       IN /\ TrailingFreeNextPage(before) = before.nextPage
          /\ Max({before.nextPage - FirstPage, MinCapacity}) >= arena.capacity
          /\ tree' = before
    /\ UNCHANGED <<status, arena, batch, reader, target, count>>

\* shrinkMmap.  An old mapping that cannot be unmapped stays, over a file that is
\* already short.
CompactShrink ==
    /\ status = "shrinking"
    /\ LET size == target + FirstPage
           kept == Fsynced(Truncated(arena, size))
       IN \E o \in {Ok(Remapped(arena, target), TRUE), Failed(kept)}
                   \union {Failed(b) : b \in Unresized(arena, target)} :
             /\ Counted(o)
             /\ arena' = o.arena
    /\ status' = "open"
    /\ target' = 0
    /\ UNCHANGED <<tree, batch, reader>>

Fits(r, size) ==
    /\ r.maxPages >= MinCapacity
    /\ r.nextPage \in FirstPage..(r.maxPages + FirstPage)
    /\ r.nextPage <= size

\* recoverableMmapPages: the roots that recovery would accept now.  A root with a
\* page that was written again may or may not still check.
Candidates(a) == {i \in Recorded(a) : Fits(a.meta[i], a.mapped)}
Sound(a) == {i \in Candidates(a) : ~a.meta[i].spoilt}

RecoverablePages_Newest(a, accepted) ==  \* slip: the other root is not protected
    a.meta[CHOOSE i \in Recorded(a) : \A j \in Recorded(a) :
              a.meta[i].revision >= a.meta[j].revision].live
RecoverablePages(a, accepted) == UNION {a.meta[i].live : i \in accepted}

\* PunchFreeMmapPages: an error may end it after some of the ranges.  Punched pages
\* read as zeros.
Punch ==
    /\ Idle
    /\ \E accepted \in {s \in SUBSET Candidates(arena) : Sound(arena) \subseteq s} :
          LET before == ReclaimRetiredPages(tree)
              pages == before.free \ RecoverablePages(arena, accepted)
          IN \E end \in FirstPage..before.nextPage :
             LET punched == {id \in pages : id < end}
             IN /\ tree' = before
                /\ arena' = Overwritten(arena, punched)
                /\ count' = IF punched = pages THEN count
                            ELSE [count EXCEPT !.faults = @ + 1]
                /\ punched # pages => count.faults < MaxFaults
    /\ status' = IF arena.stale \intersect UNION {Owned(arena.meta[i]) : i \in Candidates(arena)} = {}
                 THEN "open" ELSE "fault"
    /\ UNCHANGED <<batch, reader, target>>

Unmapped(a) == [a EXCEPT !.mapped = 0, !.capacity = 0, !.stale = {}, !.dirty = {}]

Down(a) ==
    /\ status' = "down"
    /\ arena' = Unmapped(a)
    /\ tree' = NewTree
    /\ batch' = NoBatch
    /\ reader' = NoReader
    /\ target' = 0

\* Close syncs, and closes the arena whether or not the sync failed.
Close ==
    /\ Idle
    /\ reader = NoReader
    /\ count.closes + count.crashes < MaxCrashes
    /\ LET before == ReclaimRetiredPages(tree)
       IN /\ NeedsChain(before) => before.nextPage <= MaxPage
          /\ \E o \in Persisted(before, arena) :
                /\ o.ok \/ count.faults < MaxFaults
                /\ count' = IF o.ok THEN [count EXCEPT !.closes = @ + 1]
                            ELSE [count EXCEPT !.crashes = @ + 1, !.faults = @ + 1]
                /\ Down(o.arena)

\* The process ends: the file stays as it is, flushed or not.
Kill ==
    /\ status # "down"
    /\ count.closes + count.crashes < MaxCrashes
    /\ count' = [count EXCEPT !.crashes = @ + 1]
    /\ Down(arena)

\* Power ends: the file is one of those that the disk may hold.
PowerLoss ==
    /\ status # "down"
    /\ count.closes + count.crashes < MaxCrashes
    /\ count' = [count EXCEPT !.crashes = @ + 1]
    /\ \E size \in arena.disk.size, first \in arena.disk.meta[0], second \in arena.disk.meta[1] :
          Down(Fsynced([arena EXCEPT !.file = size,
                                     !.meta = [i \in Slot |-> IF i = 0 THEN first ELSE second]]))

Newest(meta) == CHOOSE i \in Slot : \A j \in Slot : meta[i].revision >= meta[j].revision

\* OpenMmap: the capacity is the file's.  (MmapSync.tla has the fallback to the
\* older root.)
Open ==
    /\ status = "down"
    /\ LET r == arena.meta[Newest(arena.meta)]
           opened == [arena EXCEPT !.mapped = arena.file, !.capacity = arena.file - FirstPage]
           found == [live |-> r.live, free |-> r.free, retired |-> r.retired,
                     nextPage |-> r.nextPage, chain |-> r.chain, revision |-> r.revision]
       IN /\ Fits(r, arena.file) /\ ~r.spoilt
          /\ tree' = ReclaimObsolete(found, opened)
          /\ arena' = opened
    /\ status' = "open"
    /\ UNCHANGED <<batch, reader, target, count>>

Next ==
    \/ CommitBegin
    \/ \E copied \in {{}} \union {{id} : id \in tree.live} : Stage(copied)
    \/ \E id \in tree.live : StageDrop(id)
    \/ CommitPanic
    \/ CommitEnd
    \/ SnapshotOpen
    \/ SnapshotClose
    \/ Sync
    \/ CompactPublish
    \/ CompactNothing
    \/ CompactShrink
    \/ Punch
    \/ Close
    \/ Kill
    \/ PowerLoss
    \/ Open

Spec == Init /\ [][Next]_vars

----------------------------------------------------------------------------
(* Properties *)

\* The state has its types, and the disk may hold what the file holds.
TypeOK ==
    /\ status \in {"open", "shrinking", "down", "fault"}
    /\ tree.live \union tree.free \union tree.chain \union arena.stale \union arena.dirty
          \union arena.unflushed \union arena.chainBytes \subseteq PageID
    /\ tree.retired \subseteq [id : PageID, revision : 0..MaxRevision]
    /\ tree.nextPage \in FirstPage..(MaxPage + 1)
    /\ tree.revision \in 0..MaxRevision
    /\ arena.file \in arena.disk.size
    /\ \A i \in Slot : arena.meta[i] \in arena.disk.meta[i]
    /\ reader \in 0..MaxRevision \union {NoReader}

Running == status \in {"open", "shrinking"}

\* Every id below t.nextPage and every id that may be allocated without growth lies
\* inside the mapping and inside the file, after any failure of a growth, of a
\* compaction or of a rollback (mmap.go pageBytes, remapMmap, restoreFileSize).
PagesInsideFile ==
    Running => /\ tree.nextPage <= arena.capacity + FirstPage
               /\ arena.capacity + FirstPage <= Min({arena.mapped, arena.file})

\* No slice through which the tree, a snapshot or the chain of the last Sync is read
\* belongs to an unmapped mapping, and the same is true of the state that a rollback
\* would bring back (mmap.go rebindMmapPages, batch.go restore).
PagesReadable ==
    /\ Running => arena.stale \intersect
                     (tree.live \union tree.chain \union {r.id : r \in tree.retired}) = {}
    /\ Running /\ batch.active =>
          Rollback(arena).stale \intersect (batch.tree.live \union batch.tree.chain) = {}

\* Whatever the disk holds when power ends, the newest root that it names lies inside
\* the file (mmap.go compactMmapTail, remapMmap, validateMetaBounds).
NewestFits ==
    \A size \in arena.disk.size, first \in arena.disk.meta[0], second \in arena.disk.meta[1] :
       Fits(IF first.revision >= second.revision THEN first ELSE second, size)

\* Between operations a free id is nothing else: no page of the tree, no retired page and
\* no page in the chain of this process or of a root that recovery could accept.  Until the
\* process is killed no id below t.nextPage is lost: it is in use, free, retired or the
\* chain of a meta page (mmap.go compactMmapTail, reclaimObsoleteMetaFreelistPages,
\* batch.go restore).  A kill can lose one: an obsolete chain page that was punched or
\* written again after the last Sync is no longer recognised by its bytes.
IdsAccounted ==
    status = "open" /\ ~batch.active =>
       LET chains(slots) == tree.chain \union UNION {arena.meta[i].chain : i \in slots}
           retired == {r.id : r \in tree.retired}
       IN /\ count.crashes = 0 =>
                Listed(tree) \subseteq tree.live \union tree.free \union retired
                                          \union chains(Recorded(arena))
          /\ tree.free \intersect (tree.live \union retired \union
                chains({i \in Recorded(arena) : ~arena.meta[i].spoilt})) = {}
          /\ tree.live \union tree.free \union retired \union tree.chain \subseteq Listed(tree)

\* A page of the tree, of its retired pages or of its chain whose bytes are not on disk
\* is in arena.dirtyPages, so that the next Sync flushes it, across rollbacks, failed
\* growths and a restart of the process (mmap.go syncDataPages, batch.go restore).
DirtyCovers ==
    Running => arena.unflushed \intersect (tree.live \union tree.chain) \subseteq arena.dirty

\* Hole punching destroys no root that recovery could have accepted, the older one
\* included (mmap_punch_unix.go recoverableMmapPages).
PunchKeepsRoots ==
    [][Punch => \A i \in Sound(arena) : ~arena'.meta[i].spoilt]_vars

\* The process never reads memory that a growth or a shrink has unmapped (batch.go:139
\* says that a panic before publication restores the tree's reachable state).
NoFault == status # "fault"
=============================================================================
