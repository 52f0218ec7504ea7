------------------------------- MODULE CowTree -------------------------------
(***************************************************************************)
(* The in-memory pagebtree: Tree, Snapshot and WriteBatch over the         *)
(* algorithms of BPlusTree.  The page ids, the free stack and the retired  *)
(* list are those the code would have.                                     *)
(*                                                                         *)
(* All snapshots read one shared page table, which is what the bytes of a  *)
(* mapped file do.  In memory a rolled-back batch leaves the snapshots the *)
(* old Go map and gives the tree a copy; that isolates them even more.     *)
(***************************************************************************)
EXTENDS Integrity, Cursors, BranchCache

CONSTANTS
    Snap,         \* snapshot handles
    Preloads,     \* histories: sequences of Op, one of which has been applied
                  \* to the tree, one by one, when the run starts
    PageCacheCapacity,  \* Options.PageCacheCapacity: negative disables
    Ranges,       \* pairs <<lower, end>> that scans and cursors are opened with
    MaxRevision,  \* bound: published revisions
    MaxBatch,     \* bound: staged operations per batch
    Ops,          \* the operations that callers issue, alone or in batches
    MaxPanics,    \* bound: commits that end in a panic
    MaxPage       \* bound used only to state the refinement of PageStore

VARIABLES
    store,          \* pages, root, nextPage, length, revision, free, retired
    activeReaders,  \* revision -> number of snapshots
    snaps,          \* open snapshots: root, revision, length and, as history,
                    \* the contents of the reachable pages when it was opened
    batch,          \* the commit in progress: operations left, saved state
    cache,          \* t.pageCache
    panics,         \* commits that have panicked, counted only to bound them
    last            \* history: the last step's staged operation, if it has one,
                    \* and the pages that it took and retired

vars == <<store, activeReaders, snaps, batch, cache, panics, last>>

PageIDs == 1..MaxPage
Revisions == 0..MaxRevision

Readers == {v \in Revisions : activeReaders[v] > 0}

\* What COW protects of a page: everything but the sibling link of a leaf.
Bytes(page) == IF page.kind = "leaf" THEN [page EXCEPT !.next = 0] ELSE page

ClosedSnap == [open |-> FALSE, root |-> 0, revision |-> 0, length |-> 0, image |-> <<>>]
NoBatch == [active |-> FALSE, ops |-> <<>>, todo |-> <<>>, changed |-> FALSE,
            saved |-> EmptyStore(1)]

\* History: ids taken from the free stack, new ids, and ids retired.
Taken(op, before, after) ==
    LET taken == ToSet(before.free) \ ToSet(after.free)
        gone == {after.retired[i].id : i \in (Len(before.retired) + 1)..Len(after.retired)}
        fresh == before.nextPage..(after.nextPage - 1)
    IN [op |-> op, R |-> gone \ (taken \union fresh), F |-> taken, n |-> after.nextPage - 1,
        D |-> gone \intersect (taken \union fresh)]

NothingTaken == [op |-> <<>>, R |-> {}, F |-> {}, n |-> 0, D |-> {}]

\* deleteStaged begins with a Get, which goes through the cache.
Warmed(op) == IF op.val = Missing THEN AfterGet(cache, store, op.key) ELSE cache

----------------------------------------------------------------------------
Init ==
    /\ \E history \in Preloads :
          store = FoldLeft(LAMBDA st, op : PublishStagedMutation(Stage(st, op), {}),
                           EmptyStore(1), history)
    /\ activeReaders = [v \in Revisions |-> 0]
    /\ snaps = [s \in Snap |-> ClosedSnap]
    /\ batch = NoBatch
    /\ cache = NewPageCache(PageCacheCapacity)
    /\ panics = 0
    /\ last = NothingTaken

\* Put and Delete: stage, then publish.
Mutate(op) ==
    /\ ~batch.active
    /\ store.revision < MaxRevision
    /\ StageChanges(store, op)
    /\ \E staged \in {Stage(store, op)} :
          /\ store' = PublishStagedMutation(staged, Readers)
          /\ last' = Taken(op, store, staged)
    /\ cache' = Warmed(op)
    /\ UNCHANGED <<activeReaders, snaps, batch, panics>>

\* Tree.Get, and Tree.Delete of an absent key; not a step if the cache stays.
Get(k) ==
    /\ ~batch.active
    /\ AfterGet(cache, store, k) # cache
    /\ cache' = AfterGet(cache, store, k)
    /\ UNCHANGED <<store, activeReaders, snaps, batch, panics, last>>

\* CommitDetailed: save the state, replay the operations, publish once.
CommitBegin(ops) ==
    /\ ~batch.active
    /\ store.revision < MaxRevision
    /\ batch' = [active |-> TRUE, ops |-> ops, todo |-> ops, changed |-> FALSE,
                 saved |-> [store EXCEPT !.pages = <<>>]]
    /\ last' = NothingTaken
    /\ UNCHANGED <<store, activeReaders, snaps, cache, panics>>

CommitStage_Publishes ==  \* slip: every staged operation is published
    /\ batch.active
    /\ batch.todo # <<>>
    /\ LET op == Head(batch.todo)
       IN \E staged \in {PublishStagedMutation(Stage(store, op), Readers)} :
             /\ store' = staged
             /\ last' = Taken(op, store, staged)
             /\ batch' = [batch EXCEPT !.todo = Tail(@),
                                       !.changed = @ \/ StageChanges(store, op)]
             /\ cache' = Warmed(op)
    /\ UNCHANGED <<activeReaders, snaps, panics>>
CommitStage_Reclaims ==   \* slip: every staged operation reclaims
    /\ batch.active
    /\ batch.todo # <<>>
    /\ LET op == Head(batch.todo)
       IN \E staged \in {ReclaimRetiredPages(Stage(store, op), Readers)} :
             /\ store' = staged
             /\ last' = Taken(op, store, staged)
             /\ batch' = [batch EXCEPT !.todo = Tail(@),
                                       !.changed = @ \/ StageChanges(store, op)]
             /\ cache' = Warmed(op)
    /\ UNCHANGED <<activeReaders, snaps, panics>>
CommitStage ==
    /\ batch.active
    /\ batch.todo # <<>>
    /\ LET op == Head(batch.todo)
       IN \E staged \in {Stage(store, op)} :
             /\ store' = staged
             /\ last' = Taken(op, store, staged)
             /\ batch' = [batch EXCEPT !.todo = Tail(@),
                                       !.changed = @ \/ StageChanges(store, op)]
             /\ cache' = Warmed(op)
    /\ UNCHANGED <<activeReaders, snaps, panics>>

CommitEnd ==
    /\ batch.active
    /\ batch.todo = <<>>
    /\ store' = IF batch.changed THEN PublishStagedMutation(store, Readers) ELSE store
    /\ batch' = NoBatch
    /\ last' = NothingTaken
    /\ UNCHANGED <<activeReaders, snaps, cache, panics>>

CommitPanic_KeepsFree ==    \* slip: the free list is not restored
    /\ batch.active
    /\ panics < MaxPanics
    /\ panics' = panics + 1
    /\ store' = [batch.saved EXCEPT !.pages = store.pages, !.free = store.free]
    /\ batch' = NoBatch
    /\ cache' = RestoredCache(cache)
    /\ last' = NothingTaken
    /\ UNCHANGED <<activeReaders, snaps>>

\* A staged operation panics: everything but the page bytes is restored.
CommitPanic ==
    /\ batch.active
    /\ panics < MaxPanics
    /\ panics' = panics + 1
    /\ store' = [batch.saved EXCEPT !.pages = store.pages]
    /\ batch' = NoBatch
    /\ cache' = RestoredCache(cache)
    /\ last' = NothingTaken
    /\ UNCHANGED <<activeReaders, snaps>>

SnapshotOpen(s) ==
    /\ ~batch.active
    /\ ~snaps[s].open
    /\ snaps' = [snaps EXCEPT ![s] =
                    [open |-> TRUE, root |-> store.root, revision |-> store.revision,
                     length |-> store.length,
                     image |-> [p \in Reachable(store.pages, store.root) |->
                                    Bytes(store.pages[p])]]]
    /\ activeReaders' = [activeReaders EXCEPT ![store.revision] = @ + 1]
    /\ last' = NothingTaken
    /\ UNCHANGED <<store, batch, cache, panics>>

SnapshotClose_NoRelink(s) ==  \* slip: the links stay as the snapshots left them
    /\ ~batch.active
    /\ snaps[s].open
    /\ snaps' = [snaps EXCEPT ![s] = ClosedSnap]
    /\ activeReaders' = [activeReaders EXCEPT ![snaps[s].revision] =
                            IF @ <= 1 THEN 0 ELSE @ - 1]
    /\ store' = ReclaimRetiredPages(store, Readers')
    /\ last' = NothingTaken
    /\ UNCHANGED <<batch, cache, panics>>

\* Snapshot.Close: endRead reclaims, then the links are repaired.
SnapshotClose(s) ==
    /\ ~batch.active
    /\ snaps[s].open
    /\ snaps' = [snaps EXCEPT ![s] = ClosedSnap]
    /\ activeReaders' = [activeReaders EXCEPT ![snaps[s].revision] =
                            IF @ <= 1 THEN 0 ELSE @ - 1]
    /\ store' = RelinkLeaves(ReclaimRetiredPages(store, Readers'), Readers')
    /\ last' = NothingTaken
    /\ UNCHANGED <<batch, cache, panics>>

Next ==
    \/ \E op \in Ops : Mutate(op)
    \/ \E k \in Key : Get(k)
    \/ \E ops \in BoundedSeq(Ops, MaxBatch) \ {<<>>} : CommitBegin(ops)
    \/ CommitStage
    \/ CommitEnd
    \/ CommitPanic
    \/ \E s \in Snap : SnapshotOpen(s) \/ SnapshotClose(s)

Spec == Init /\ [][Next]_vars

----------------------------------------------------------------------------
Idle == ~batch.active

----------------------------------------------------------------------------
(* Properties *)

\* Type correctness of the tree handle.
TypeOK ==
    /\ store.root \in {0} \union DOMAIN store.pages
    /\ store.revision \in Revisions
    /\ store.length \in 0..Cardinality(Key)
    /\ activeReaders \in [Revisions -> Nat]
    /\ \A s \in Snap : snaps[s].root \in {0} \union DOMAIN store.pages
    /\ batch.active \in BOOLEAN

\* Whatever the sequence of mutations, batches, rolled-back batches and
\* snapshots, Tree.Check accepts the tree: keys within the bounds of their
\* branch, separators equal to the first key on their right, pages neither
\* underfull nor too full for their bytes, every overflow chain intact, length
\* right, reusable ids distinct and unreachable.  Nor does any page hold more
\* than maxKeys keys, which Check does not look at.
CheckAccepts ==
    Idle => /\ ValidReachable(store)
            /\ ValidLength(store)
            /\ ValidReusable(store)
            /\ \A p \in Reachable(store.pages, store.root) :
                  store.pages[p].kind # "overflow" => KeyCount(store, p) <= MaxKeys

\* Tree.Range, which follows sibling links when no snapshot is open and walks
\* the branches otherwise, visits each key once, in order, with the value
\* that Get returns.
RangeVisitsAll ==
    Idle =>
        LET visited == TreeRange(store, Readers # {})
            Found(k) == SearchPage(store.pages, store.root, k)
        IN /\ \A i \in 1..(Len(visited) - 1) : visited[i][1] < visited[i + 1][1]
           /\ ToSet(visited) = {<<k, Found(k)>> : k \in {j \in Key : Found(j) # Missing}}

\* The tree and every open snapshot, as pages and a root.
Roots == {store.root} \union {snaps[s].root : s \in {t \in Snap : snaps[t].open}}

\* The keys of a root in [lower, end) with their values, in order.
KeysInOrder == [i \in 1..Cardinality(Key) |->
                   CHOOSE k \in Key : Cardinality({j \in Key : j < k}) = i - 1]
Shown(root, lower, end) ==
    LET found == [i \in DOMAIN KeysInOrder |->
                     <<KeysInOrder[i], SearchPage(store.pages, root, KeysInOrder[i])>>]
    IN SelectSeq(found, LAMBDA e : lower <= e[1] /\ BeforeEnd(e[1], end) /\ e[2] # Missing)

\* RangeFrom and RangeBetween visit what Get finds between their bounds: on the
\* tree along the sibling links, which may end half way and start over, on a
\* snapshot by the recursive walk, whatever the bounds have to do with the
\* separators.
RangesVisitAll ==
    Idle => \A r \in Ranges :
        /\ BeforeEnd(r[1], r[2]) =>
              TreeRangeFrom(store, Readers # {}, r[1], r[2]) = Shown(store.root, r[1], r[2])
        /\ \A root \in Roots :
              RangePageFrom(store.pages, root, r[1], r[2]) = Shown(root, r[1], r[2])

\* A cursor on the tree or on a snapshot walks the keys between its bounds in
\* order, forward and backward, comes back with Prev to where Next came from, and
\* Seek stops at the first key not before the one it was given.
CursorsWalk ==
    Idle => \A root \in Roots, r \in Ranges :
        LET pages == store.pages
            c == NewCursor(r[1], r[2])
            shown == Shown(root, r[1], r[2])
            forward == WalkForward(pages, First(pages, root, c))
            backward == WalkBackward(pages, LastKey(pages, root, c))
            At(d) == <<d.key, d.val>>
        IN /\ [i \in 1..Len(forward) |-> At(forward[i])] = shown
           /\ [i \in 1..Len(backward) |-> At(backward[i])] = Reverse(shown)
           /\ \A i \in 1..(Len(forward) - 1) :
                 At(Prev(pages, Next_(pages, forward[i]))) = shown[i]
           /\ \A k \in Key : At(Seek(pages, root, c, k)) =
                 LET later == SelectSeq(shown, LAMBDA e : e[1] >= k)
                 IN IF later = <<>> THEN <<NoKey, Missing>> ELSE later[1]

\* Routing through cached branches ends in the leaf that the pages themselves
\* lead to, also when an id has been given to another branch since it was cached
\* or a batch has been rolled back, and the cache keeps to its capacity.
CacheRoutes ==
    /\ \A k \in Key : RouteThrough(cache, store.pages, store.root, k).leaf =
                           LeafForKey(store.pages, store.root, k)
    /\ Len(cache.lru) <= cache.capacity
    /\ ToSet(cache.lru) = DOMAIN cache.branches

\* docs/08-mmap-backed-pages.md says that "A negative capacity disables this
\* derived cache".
CacheStaysDisabled == PageCacheCapacity < 0 => cache.capacity = 0

\* With no snapshot open the sibling links of the leaves are in key order, also
\* when the mutations that broke them happened under snapshots that were closed
\* in any order since.
LinksRepaired == Idle /\ Readers = {} => ValidLeafLinks(store)

\* No page id is lost: every id below nextPage is reachable, retired or free.
NoPageLost ==
    ToSet(store.free) \union {store.retired[i].id : i \in 1..Len(store.retired)}
        \union Reachable(store.pages, store.root) = 1..(store.nextPage - 1)

\* integrity.go rejects a retired page whose revision is 0, and
\* docs/08-mmap-backed-pages.md says that "Retired records must also name a
\* nonzero revision".
RetiredNonzero == Idle => RetiredRevisionsNonzero(store)

----------------------------------------------------------------------------
(* The tree implements the abstract map *)

View(root) == [k \in Key |-> SearchPage(store.pages, root, k)]
NoView == [k \in Key |-> Corrupt]

\* While a batch is replayed the published root is the saved one.
PublishedRoot == IF batch.active THEN batch.saved.root ELSE store.root

Abstract == INSTANCE VersionedMap WITH
    map <- View(PublishedRoot),
    revision <- store.revision,
    views <- [s \in Snap |-> IF snaps[s].open THEN View(snaps[s].root) ELSE NoView]

\* Every step of the tree is a step of the abstract map: Put and Delete change
\* one key, a commit takes effect at once or not at all, and what a snapshot
\* reads never changes while it is open.
ImplementsMap ==
    /\ store.revision = 0 => Abstract!Init
    /\ [][\/ last'.op # <<>> /\ Abstract!Mutate(last'.op)
          \/ Abstract!Commit(batch.ops)
          \/ \E s \in Snap : Abstract!OpenSnapshot(s) \/ Abstract!CloseSnapshot(s)
         ]_(Abstract!vars)

----------------------------------------------------------------------------
(* The tree implements the page life cycle *)

ContentSet ==
    [kind : {"leaf"}, next : {0},
     entries : Seq([key : Key, val : Val \union {Spilled}, overflow : Nat])]
    \union [kind : {"branch"}, keys : Seq(Key), children : Seq(Nat)]
    \union [kind : {"overflow"}, val : Val, part : Nat, next : Nat]
    \union [kind : {"blank"}]

RetiredSet(st) == {st.retired[i] : i \in 1..Len(st.retired)}

BytesAt(p) == IF p \in DOMAIN store.pages THEN Bytes(store.pages[p])
                                          ELSE [kind |-> "blank"]

\* The pages of the tree that a panic would restore.
SavedPages == IF batch.active THEN Reachable(store.pages, batch.saved.root) ELSE {}

Pages == INSTANCE PageStore WITH
    Content <- ContentSet,
    FirstPage <- 1,
    Mmap <- FALSE,
    MaxMetaFree <- 501,
    RecordsPerPage <- 255,
    metaChain <- [i \in {0, 1} |-> {}],
    content <- [p \in PageIDs |-> BytesAt(p)],
    live <- Reachable(store.pages, store.root),
    revision <- store.revision,
    retired <- RetiredSet(store),
    free <- ToSet(store.free),
    nextPage <- store.nextPage,
    snaps <- [s \in Snap |-> [open |-> snaps[s].open, revision |-> snaps[s].revision,
                              pages |-> DOMAIN snaps[s].image, image |-> snaps[s].image]],
    tableOldest <- -1,
    closed <- FALSE,
    batch <- [active |-> batch.active, changed |-> batch.changed,
              live |-> SavedPages, image |-> [p \in SavedPages |-> BytesAt(p)],
              retired |-> RetiredSet(batch.saved), free |-> ToSet(batch.saved.free),
              nextPage |-> batch.saved.nextPage]

\* Every step of the B+tree is a step of PageStore: a mutation writes only ids
\* it allocated, retires only ids that were reachable or that it allocated,
\* and keeps the rest reachable; so what is proved of PageStore holds of the
\* tree.
ImplementsPageStore ==
    /\ store.revision = 0 => Pages!Init
    /\ [][\/ ~batch.active /\ Pages!Mutate(last'.R, last'.F, last'.n, last'.D)
          \/ batch.active /\ Pages!CommitStage(last'.R, last'.F, last'.n, last'.D)
          \/ Pages!CommitBegin
          \/ Pages!CommitEnd
          \/ Pages!CommitPanic
          \/ \E s \in Snap : Pages!SnapshotOpen(s) \/ Pages!SnapshotClose(s)
         ]_(Pages!vars)

\* A page waits in t.retired only while an open snapshot is old enough to pin it:
\* closing the snapshots, in whatever order, releases every page with the last
\* one that needs it (Snapshot.Close, endRead, reclaimRetiredPages).
PromptReclaim == Pages!PromptReclaim

\* After every operation the tree is sound: Check accepts it, ranges and links are
\* right, and each page id is in use, waits for a reader that needs it, or is free.
TreeSound ==
    /\ TypeOK
    /\ CheckAccepts
    /\ RangeVisitsAll
    /\ LinksRepaired
    /\ NoPageLost
    /\ PromptReclaim
=============================================================================
