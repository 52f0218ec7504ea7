--------------------------- MODULE PageStoreProofs ---------------------------
(***************************************************************************)
(* Proofs that PageStore keeps its promises for every number of pages,     *)
(* revisions, snapshots and page contents.                                 *)
(***************************************************************************)
EXTENDS PageStore, FiniteSetTheorems, TLAPS

----------------------------------------------------------------------------
(* Reader counts *)

\* beginRead/endRead: a revision that some open snapshot has is counted.
LEMMA OpenIsCounted ==
    ASSUME NEW sn, NEW rd, NEW s \in Snap, sn[s].open, sn[s].revision \in Revision,
           \A v \in Revision : rd[v] = Cardinality(OpenAt(sn, v))
    PROVE  rd[sn[s].revision] > 0
<1> DEFINE S == OpenAt(sn, sn[s].revision)
<1>1. IsFiniteSet(S)
  BY SnapFinite, FS_Subset DEF OpenAt
<1>2. s \in S
  BY DEF OpenAt
<1>3. Cardinality(S) \in Nat /\ Cardinality(S) # 0
  BY <1>1, <1>2, FS_CardinalityType, FS_EmptySet
<1> QED
  BY <1>3

\* A revision that is counted belongs to some open snapshot.
LEMMA CountedIsOpen ==
    ASSUME NEW sn, NEW rd, NEW v \in Revision, rd[v] > 0,
           rd[v] = Cardinality(OpenAt(sn, v))
    PROVE  \E s \in Snap : sn[s].open /\ sn[s].revision = v
<1>1. OpenAt(sn, v) # {}
  BY FS_EmptySet
<1> QED
  BY <1>1 DEF OpenAt

\* Opening a handle at revision w adds one to the count of w only.
LEMMA CountOpen ==
    ASSUME NEW sn, NEW s \in Snap, ~sn[s].open, NEW w \in Revision, NEW sn2,
           sn2[s].open, sn2[s].revision = w,
           \A t \in Snap \ {s} : sn2[t] = sn[t],
           NEW v \in Revision
    PROVE  Cardinality(OpenAt(sn2, v)) =
              IF v = w THEN Cardinality(OpenAt(sn, v)) + 1 ELSE Cardinality(OpenAt(sn, v))
<1>1. IsFiniteSet(OpenAt(sn, v)) /\ s \notin OpenAt(sn, v)
  BY SnapFinite, FS_Subset DEF OpenAt
<1>2. CASE v = w
  <2>1. OpenAt(sn2, v) = OpenAt(sn, v) \union {s}
    BY <1>2 DEF OpenAt
  <2>2. Cardinality(OpenAt(sn, v) \union {s}) = Cardinality(OpenAt(sn, v)) + 1
    BY <1>1, FS_AddElement, Zenon
  <2> QED
    BY <1>2, <2>1, <2>2
<1>3. CASE v # w
  <2>1. OpenAt(sn2, v) = OpenAt(sn, v)
    BY <1>3 DEF OpenAt
  <2> QED
    BY <1>3, <2>1
<1> QED
  BY <1>2, <1>3

\* Closing a handle takes one from the count of its revision only.
LEMMA CountClose ==
    ASSUME NEW sn, NEW s \in Snap, sn[s].open, NEW sn2, ~sn2[s].open,
           \A t \in Snap \ {s} : sn2[t] = sn[t],
           NEW v \in Revision
    PROVE  /\ Cardinality(OpenAt(sn, v)) \in Nat
           /\ v = sn[s].revision =>
                /\ Cardinality(OpenAt(sn, v)) > 0
                /\ Cardinality(OpenAt(sn2, v)) = Cardinality(OpenAt(sn, v)) - 1
           /\ v # sn[s].revision =>
                Cardinality(OpenAt(sn2, v)) = Cardinality(OpenAt(sn, v))
<1>1. IsFiniteSet(OpenAt(sn, v))
  BY SnapFinite, FS_Subset DEF OpenAt
<1>2. Cardinality(OpenAt(sn, v)) \in Nat
  BY <1>1, FS_CardinalityType
<1>3. ASSUME v = sn[s].revision
      PROVE  /\ Cardinality(OpenAt(sn, v)) > 0
             /\ Cardinality(OpenAt(sn2, v)) = Cardinality(OpenAt(sn, v)) - 1
  <2>1. s \in OpenAt(sn, v)
    BY <1>3 DEF OpenAt
  <2>2. OpenAt(sn2, v) = OpenAt(sn, v) \ {s}
    BY <1>3 DEF OpenAt
  <2>3. Cardinality(OpenAt(sn, v)) # 0
    BY <1>1, <2>1, FS_EmptySet
  <2>4. Cardinality(OpenAt(sn, v) \ {s}) = Cardinality(OpenAt(sn, v)) - 1
    BY <1>1, <2>1, FS_RemoveElement, Zenon
  <2> QED
    BY <1>2, <2>2, <2>3, <2>4
<1>4. ASSUME v # sn[s].revision
      PROVE  Cardinality(OpenAt(sn2, v)) = Cardinality(OpenAt(sn, v))
  <2>1. OpenAt(sn2, v) = OpenAt(sn, v)
    BY <1>4 DEF OpenAt
  <2> QED
    BY <2>1
<1> QED
  BY <1>2, <1>3, <1>4

----------------------------------------------------------------------------
(* Reclaiming and retiring *)

\* reclaimRetiredPages moves ids from t.retired to t.free: none is lost, none
\* ends up in both.
LEMMA ReclaimAccounted ==
    ASSUME NEW lv, NEW ret, NEW fr, NEW ch, NEW next, NEW rd,
           Accounted(lv, ret, fr, ch, next)
    PROVE  Accounted(lv, Kept(ret, rd), fr \union Freed(ret, rd), ch, next)
<1> DEFINE kept == Kept(ret, rd)
           gone == {q \in ret : ~Pinned(rd, q.revision)}
<1>1. kept \subseteq ret /\ gone \subseteq ret /\ ret = kept \union gone
  BY DEF Kept
<1>2. kept \intersect gone = {}
  BY DEF Kept
<1>3. RetiredIds(ret) = RetiredIds(kept) \union Freed(ret, rd)
  BY <1>1 DEF RetiredIds, Freed
<1>4. RetiredIds(kept) \intersect Freed(ret, rd) = {}
  BY <1>1, <1>2 DEF RetiredIds, Freed, Accounted
<1> QED
  BY <1>1, <1>3, <1>4 DEF Accounted

\* reclaimRetiredPages only handles records and ids of the right kind.
LEMMA ReclaimType ==
    ASSUME NEW ret \in SUBSET Retired, NEW rd
    PROVE  Kept(ret, rd) \in SUBSET Retired /\ Freed(ret, rd) \in SUBSET PageID
BY DEF Kept, Freed, Retired

\* retirePage adds the ids R and D to the retired ones.
LEMMA RetireIds ==
    ASSUME NEW R, NEW D
    PROVE  RetiredIds(Retire(R, D)) = RetiredIds(retired) \union R \union D
<1> DEFINE new == [id : R \union D, revision : {revision}]
<1>1. \A x \in R \union D : [id |-> x, revision |-> revision] \in new
  OBVIOUS
<1>2. RetiredIds(new) = R \union D
  <2>1. \A r \in new : r.id \in R \union D
    OBVIOUS
  <2>2. \A x \in R \union D : \E r \in new : r.id = x
    BY <1>1
  <2> QED
    BY <2>1, <2>2 DEF RetiredIds
<1>3. RetiredIds(retired \union new) = RetiredIds(retired) \union RetiredIds(new)
  BY DEF RetiredIds
<1> QED
  BY <1>2, <1>3 DEF Retire

\* A staged mutation keeps the accounting: the ids it takes were free or
\* unused, the ids it retires were reachable or taken.
LEMMA RewriteAccounted ==
    ASSUME TypeOK, PageAccounting,
           NEW R, NEW F, NEW n, NEW D, Rewrite(R, F, n, D)
    PROVE  Accounted(live', Retire(R, D), free \ F, Chains, nextPage')
<1> DEFINE A == Allocated(F, n)
<1>1. /\ R \subseteq live
      /\ F \subseteq free
      /\ n \in (nextPage - 1)..MaxPage
      /\ D \subseteq A
      /\ live' = (live \ R) \union (A \ D)
      /\ nextPage' = n + 1
  BY DEF Rewrite, Allocatable
<1>2. /\ nextPage \in Int /\ FirstPage \in Int /\ n \in Int
      /\ FirstPage <= nextPage /\ nextPage <= n + 1
  BY <1>1, BoundsAreNat DEF TypeOK
<1>3. FirstPage..n = (FirstPage..(nextPage - 1)) \union (nextPage..n)
  BY <1>2
<1>4. (nextPage..n) \intersect (live \union RetiredIds(retired) \union free \union Chains) = {}
  BY <1>2 DEF PageAccounting, Accounted
<1>5. A \intersect (live \union RetiredIds(retired) \union Chains) = {}
  BY <1>1, <1>4 DEF PageAccounting, Accounted, Allocated
<1>6. RetiredIds(Retire(R, D)) = RetiredIds(retired) \union R \union D
  BY RetireIds
<1>7. live' \union RetiredIds(Retire(R, D)) \union (free \ F) \union Chains
        = FirstPage..(nextPage' - 1)
  <2>1. live' \union RetiredIds(Retire(R, D)) \union (free \ F) \union Chains
          = live \union RetiredIds(retired) \union free \union Chains \union (nextPage..n)
    BY <1>1, <1>6 DEF Allocated
  <2> QED
    BY <2>1, <1>1, <1>2, <1>3 DEF PageAccounting, Accounted
<1>8. /\ live' \intersect RetiredIds(Retire(R, D)) = {}
      /\ live' \intersect (free \ F) = {}
      /\ RetiredIds(Retire(R, D)) \intersect (free \ F) = {}
      /\ Chains \intersect (live' \union RetiredIds(Retire(R, D)) \union (free \ F)) = {}
  BY <1>1, <1>4, <1>5, <1>6 DEF PageAccounting, Accounted, Allocated
<1>9. ASSUME NEW q \in Retire(R, D), NEW r \in Retire(R, D), q.id = r.id
      PROVE  q = r
  <2> DEFINE new == [id : R \union D, revision : {revision}]
  <2>1. (R \union D) \intersect RetiredIds(retired) = {}
    BY <1>1, <1>5 DEF PageAccounting, Accounted
  <2>2. \A x \in new : x.id \notin RetiredIds(retired)
    BY <2>1
  <2>3. \A x \in retired : x.id \in RetiredIds(retired)
    BY DEF RetiredIds
  <2>4. CASE q \in retired /\ r \in retired
    BY <2>4, <1>9 DEF PageAccounting, Accounted
  <2>5. CASE q \in new /\ r \in new
    BY <2>5, <1>9
  <2> QED
    BY <2>2, <2>3, <2>4, <2>5, <1>9 DEF Retire
<1> QED
  BY <1>7, <1>8, <1>9 DEF Accounted

----------------------------------------------------------------------------
(* What the snapshots still need *)

\* The pages of an open snapshot are reachable or retired.
LEMMA CoveredPages ==
    ASSUME NEW sn, NEW rev, NEW lv, NEW ret, Covered(sn, rev, lv, ret),
           NEW s \in Snap, sn[s].open
    PROVE  sn[s].pages \subseteq lv \union RetiredIds(ret)
BY DEF Covered, RetiredIds

\* reclaimRetiredPages keeps the records that an open snapshot needs.
LEMMA ReclaimCovered ==
    ASSUME NEW sn, NEW rev, NEW lv, NEW ret, NEW rd,
           Covered(sn, rev, lv, ret),
           \A v \in Revision : rd[v] = Cardinality(OpenAt(sn, v)),
           \A s \in Snap : sn[s].revision \in Revision
    PROVE  Covered(sn, rev, lv, Kept(ret, rd))
<1> SUFFICES ASSUME NEW s \in Snap, sn[s].open, NEW r \in ret, sn[s].revision <= r.revision
             PROVE  r \in Kept(ret, rd)
  BY DEF Covered
<1>1. rd[sn[s].revision] > 0
  BY OpenIsCounted
<1> QED
  BY <1>1 DEF Kept, Pinned

\* In memory reclaimRetiredPages keeps nothing else.
LEMMA ReclaimWaiting ==
    ASSUME NEW sn, NEW ret, NEW rd, tableOldest = NoReader,
           \A v \in Revision : rd[v] = Cardinality(OpenAt(sn, v))
    PROVE  Waiting(sn, Kept(ret, rd))
<1> SUFFICES ASSUME NEW r \in Kept(ret, rd)
             PROVE  \E s \in Snap : sn[s].open /\ sn[s].revision <= r.revision
  BY DEF Waiting
<1>1. PICK w \in Revision : rd[w] > 0 /\ w <= r.revision
  BY DEF Kept, Pinned
<1>2. \E s \in Snap : sn[s].open /\ sn[s].revision = w
  BY <1>1, CountedIsOpen
<1> QED
  BY <1>1, <1>2

\* A staged mutation retires what it takes away from the root at the current
\* revision, which no open snapshot is newer than.
LEMMA RewriteCovered ==
    ASSUME Covered(snaps, revision, live, retired),
           NEW R, NEW F, NEW n, NEW D, Rewrite(R, F, n, D)
    PROVE  Covered(snaps, revision, live', Retire(R, D))
<1>1. live \subseteq live' \union R
  BY DEF Rewrite
<1>2. \A p \in R : \E r \in Retire(R, D) : r.id = p /\ r.revision = revision
  <2> TAKE p \in R
  <2>1. [id |-> p, revision |-> revision] \in Retire(R, D)
    BY DEF Retire
  <2> QED
    BY <2>1
<1>3. retired \subseteq Retire(R, D)
  BY DEF Retire
<1> QED
  BY <1>1, <1>2, <1>3 DEF Covered

\* A staged mutation does not write a page that is reachable or retired.
LEMMA RewriteSpares ==
    ASSUME TypeOK, PageAccounting,
           NEW R, NEW F, NEW n, NEW D, Rewrite(R, F, n, D),
           NEW p \in live \union RetiredIds(retired)
    PROVE  content'[p] = content[p]
<1>1. /\ nextPage \in Int /\ FirstPage \in Int /\ MaxPage \in Int
      /\ nextPage <= MaxPage + 1
  BY BoundsAreNat DEF TypeOK
<1>2. p \in FirstPage..(nextPage - 1) /\ p \notin free
  BY DEF PageAccounting, Accounted
<1>3. p \in PageID /\ p \notin nextPage..n
  BY <1>1, <1>2 DEF PageID
<1>4. p \notin Allocated(F, n)
  BY <1>2, <1>3 DEF Allocated, Rewrite, Allocatable
<1> QED
  BY <1>3, <1>4 DEF Rewrite

----------------------------------------------------------------------------
(* The invariant is inductive: one lemma per action *)

\* New: an in-memory tree with no page.
LEMMA InitGood == Init => IndInv
<1> SUFFICES ASSUME Init PROVE IndInv
  OBVIOUS
<1> USE DEF Init
<1>1. TypeOK
  <2>1. NoImage \in [{} -> Content]
    BY DEF NoImage
  <2>2. 0 \in Revision /\ FirstPage \in FirstPage..(MaxPage + 1)
    BY BoundsAreNat, SomePage DEF Revision
  <2>3. \A s \in Snap : snaps[s] = Closed
    OBVIOUS
  <2>4. /\ Closed.open = FALSE /\ Closed.revision = 0
        /\ Closed.pages = {} /\ Closed.image = NoImage
    BY DEF Closed
  <2>5. /\ DOMAIN batch = {"active", "changed", "live", "image", "retired", "free", "nextPage"}
        /\ batch.active = FALSE /\ batch.changed = FALSE /\ batch.live = {}
        /\ batch.image = NoImage /\ batch.retired = {} /\ batch.free = {}
        /\ batch.nextPage = FirstPage
    BY DEF NoBatch
  <2> QED
    BY <2>1, <2>2, <2>3, <2>4, <2>5 DEF TypeOK
<1>2. PageAccounting
  BY BoundsAreNat DEF Slot, Chains, PageAccounting, Accounted, RetiredIds
<1>3. ReadersCounted
  <2>1. \A v : OpenAt(snaps, v) = {}
    BY DEF OpenAt, Closed
  <2> QED
    BY <2>1, FS_EmptySet DEF ReadersCounted
<1>4. \A s \in Snap : ~snaps[s].open
  BY DEF Closed
<1>5. ~batch.active
  BY DEF NoBatch
<1>6. PromptReclaim
  BY DEF PromptReclaim, Waiting
<1> QED
  BY <1>1, <1>2, <1>3, <1>4, <1>5, <1>6
     DEF IndInv, Covered, SnapshotIsolation, RollbackIntact, SavedStateGood

\* What putStaged and deleteStaged keep, alone or as a part of a commit.
LEMMA StageGood ==
    ASSUME IndInv, NEW R, NEW F, NEW n, NEW D, Rewrite(R, F, n, D)
    PROVE  /\ content' \in [PageID -> Content]
           /\ live' \in SUBSET PageID
           /\ nextPage' \in FirstPage..(MaxPage + 1)
           /\ Retire(R, D) \in SUBSET Retired
           /\ Accounted(live', Retire(R, D), free \ F, Chains, nextPage')
           /\ Covered(snaps, revision, live', Retire(R, D))
           /\ \A s \in Snap : snaps[s].open =>
                 \A p \in snaps[s].pages : content'[p] = snaps[s].image[p]
           /\ batch.active => \A p \in batch.live : content'[p] = batch.image[p]
           /\ live \subseteq live' \union RetiredIds(Retire(R, D))
<1>1. Accounted(live', Retire(R, D), free \ F, Chains, nextPage')
  BY RewriteAccounted DEF IndInv
<1>2. Covered(snaps, revision, live', Retire(R, D))
  BY RewriteCovered DEF IndInv
<1>3. /\ content' \in [PageID -> Content]
      /\ nextPage' \in FirstPage..(MaxPage + 1)
  BY BoundsAreNat DEF Rewrite, Allocatable, IndInv, TypeOK
<1>4. live' \in SUBSET PageID
  BY <1>1, <1>3, BoundsAreNat DEF Accounted, PageID
<1>5. R \union D \subseteq PageID
  <2>1. R \subseteq PageID
    BY DEF Rewrite, IndInv, TypeOK
  <2>2. D \subseteq RetiredIds(Retire(R, D))
    BY RetireIds
  <2>3. RetiredIds(Retire(R, D)) \subseteq PageID
    BY <1>1, <1>3, BoundsAreNat DEF Accounted, PageID
  <2> QED
    BY <2>1, <2>2, <2>3
<1>6. Retire(R, D) \in SUBSET Retired
  BY <1>5 DEF Retire, Retired, IndInv, TypeOK
<1>7. ASSUME NEW s \in Snap, snaps[s].open, NEW p \in snaps[s].pages
      PROVE  content'[p] = snaps[s].image[p]
  <2>1. p \in live \union RetiredIds(retired)
    BY <1>7, CoveredPages DEF IndInv
  <2>2. content'[p] = content[p]
    BY <2>1, RewriteSpares DEF IndInv
  <2> QED
    BY <1>7, <2>2 DEF IndInv, SnapshotIsolation
<1>8. ASSUME batch.active, NEW p \in batch.live
      PROVE  content'[p] = batch.image[p]
  <2>1. p \in live \union RetiredIds(retired)
    BY <1>8 DEF IndInv, SavedStateGood
  <2>2. content'[p] = content[p]
    BY <2>1, RewriteSpares DEF IndInv
  <2> QED
    BY <1>8, <2>2 DEF IndInv, RollbackIntact
<1>9. live \subseteq live' \union RetiredIds(Retire(R, D))
  BY RetireIds DEF Rewrite
<1> QED
  BY <1>1, <1>2, <1>3, <1>4, <1>6, <1>7, <1>8, <1>9

\* Put and Delete.
LEMMA MutateGood ==
    ASSUME IndInv, NEW R, NEW F, NEW n, NEW D, Mutate(R, F, n, D)
    PROVE  IndInv'
<1> DEFINE ret == Retire(R, D)
<1>0. /\ Rewrite(R, F, n, D)
      /\ ~closed /\ ~batch.active
      /\ revision < MaxRevision /\ revision' = revision + 1
      /\ retired' = Kept(ret, activeReaders)
      /\ free' = (free \ F) \union Freed(ret, activeReaders)
      /\ UNCHANGED <<metaChain, activeReaders, snaps, tableOldest, closed, batch>>
  BY DEF Mutate, Idle
<1>1. TypeOK'
  <2>1. revision' \in Revision
    BY <1>0, BoundsAreNat DEF Revision, IndInv, TypeOK
  <2>2. retired' \in SUBSET Retired /\ free' \in SUBSET PageID
    BY <1>0, StageGood, ReclaimType DEF IndInv, TypeOK
  <2> QED
    BY <1>0, <2>1, <2>2, StageGood DEF IndInv, TypeOK
<1>2. PageAccounting'
  BY <1>0, StageGood, ReclaimAccounted DEF IndInv, Chains, PageAccounting
<1>3. ReadersCounted'
  BY <1>0 DEF IndInv, ReadersCounted
<1>4. Covered(snaps, revision, live, retired)'
  <2>1. Covered(snaps, revision, live', ret)
    BY <1>0, StageGood
  <2>2. Covered(snaps, revision, live', Kept(ret, activeReaders))
    BY <2>1, ReclaimCovered DEF IndInv, ReadersCounted, TypeOK
  <2>3. \A s \in Snap : snaps[s].revision <= revision => snaps[s].revision <= revision + 1
    BY BoundsAreNat DEF IndInv, TypeOK, Revision
  <2> QED
    BY <1>0, <2>2, <2>3 DEF Covered
<1>5. SnapshotIsolation'
  BY <1>0, StageGood DEF SnapshotIsolation
<1>6. RollbackIntact' /\ SavedStateGood'
  BY <1>0 DEF RollbackIntact, SavedStateGood
<1>7. PromptReclaim'
  BY <1>0, ReclaimWaiting DEF IndInv, ReadersCounted, PromptReclaim
<1> QED
  BY <1>0, <1>1, <1>2, <1>3, <1>4, <1>5, <1>6, <1>7 DEF IndInv

\* CommitDetailed: save.
LEMMA CommitBeginGood ==
    ASSUME IndInv, CommitBegin
    PROVE  IndInv'
<1>0. /\ ~closed /\ ~batch.active /\ revision < MaxRevision
      /\ batch' = [active |-> TRUE, changed |-> FALSE, live |-> live, image |-> Image,
                   retired |-> retired, free |-> free, nextPage |-> nextPage]
      /\ UNCHANGED <<metaChain, content, live, revision, retired, free, nextPage,
                     activeReaders, snaps, tableOldest, closed>>
  BY DEF CommitBegin, Idle
<1>1. Image \in [live -> Content]
  BY DEF Image, IndInv, TypeOK
<1>2. TypeOK'
  BY <1>0, <1>1 DEF IndInv, TypeOK
<1>3. RollbackIntact'
  BY <1>0 DEF RollbackIntact, Image
<1>4. SavedStateGood'
  BY <1>0 DEF Chains, IndInv, SavedStateGood, PageAccounting, PromptReclaim
<1> QED
  BY <1>0, <1>2, <1>3, <1>4
     DEF Chains, IndInv, PageAccounting, ReadersCounted, SnapshotIsolation, PromptReclaim

\* CommitDetailed: one staged operation.
LEMMA CommitStageGood ==
    ASSUME IndInv, NEW R, NEW F, NEW n, NEW D, CommitStage(R, F, n, D)
    PROVE  IndInv'
<1>0. /\ Rewrite(R, F, n, D)
      /\ batch.active
      /\ retired' = Retire(R, D)
      /\ free' = free \ F
      /\ batch' = [batch EXCEPT !.changed = TRUE]
      /\ UNCHANGED <<metaChain, revision, activeReaders, snaps, tableOldest, closed>>
  BY DEF CommitStage
<1>1. /\ DOMAIN batch' = DOMAIN batch
      /\ batch'.active /\ batch'.changed = TRUE
      /\ batch'.live = batch.live /\ batch'.image = batch.image
      /\ batch'.retired = batch.retired /\ batch'.free = batch.free
      /\ batch'.nextPage = batch.nextPage
  BY <1>0 DEF IndInv, TypeOK
<1>2. TypeOK'
  BY <1>0, <1>1, StageGood DEF IndInv, TypeOK
<1>3. PageAccounting'
  BY <1>0, StageGood DEF IndInv, Chains, PageAccounting
<1>4. Covered(snaps, revision, live, retired)'
  BY <1>0, StageGood
<1>5. SnapshotIsolation'
  BY <1>0, StageGood DEF SnapshotIsolation
<1>6. RollbackIntact'
  BY <1>0, <1>1, StageGood DEF RollbackIntact
<1>7. SavedStateGood'
  <2>1. batch.live \subseteq live' \union RetiredIds(retired')
    <3>1. RetiredIds(retired) \subseteq RetiredIds(retired')
      BY <1>0, RetireIds
    <3> QED
      BY <1>0, <3>1, StageGood DEF IndInv, SavedStateGood
  <2> QED
    BY <1>0, <1>1, <2>1 DEF Chains, IndInv, SavedStateGood
<1> QED
  BY <1>0, <1>1, <1>2, <1>3, <1>4, <1>5, <1>6, <1>7 DEF IndInv, ReadersCounted, PromptReclaim

\* CommitDetailed: publish, or nothing when no operation changed the tree.
LEMMA CommitEndGood ==
    ASSUME IndInv, CommitEnd
    PROVE  IndInv'
<1>0. /\ batch.active /\ batch' = NoBatch
      /\ ~closed /\ revision < MaxRevision
      /\ UNCHANGED <<metaChain, content, live, nextPage, activeReaders, snaps,
                     tableOldest, closed>>
  BY DEF CommitEnd, IndInv, SavedStateGood
<1>1. /\ batch'.active = FALSE /\ batch'.changed = FALSE /\ batch'.live = {}
      /\ batch'.image = NoImage /\ batch'.retired = {} /\ batch'.free = {}
      /\ batch'.nextPage = FirstPage
      /\ DOMAIN batch' = {"active", "changed", "live", "image", "retired", "free", "nextPage"}
      /\ NoImage \in [{} -> Content]
      /\ FirstPage \in FirstPage..(MaxPage + 1)
  BY <1>0, BoundsAreNat, SomePage DEF NoBatch, NoImage
<1>2. RollbackIntact' /\ SavedStateGood'
  BY <1>1 DEF RollbackIntact, SavedStateGood
<1>3. CASE batch.changed
  <2>1. /\ revision' = revision + 1
        /\ retired' = Kept(retired, activeReaders)
        /\ free' = free \union Freed(retired, activeReaders)
    BY <1>3 DEF CommitEnd
  <2>2. TypeOK'
    <3>1. revision' \in Revision
      BY <1>0, <2>1, BoundsAreNat DEF Revision, IndInv, TypeOK
    <3>2. retired' \in SUBSET Retired /\ free' \in SUBSET PageID
      BY <2>1, ReclaimType DEF IndInv, TypeOK
    <3> QED
      BY <1>0, <1>1, <3>1, <3>2 DEF IndInv, TypeOK
  <2>3. PageAccounting'
    BY <1>0, <2>1, ReclaimAccounted DEF Chains, IndInv, PageAccounting
  <2>4. Covered(snaps, revision, live, retired)'
    <3>1. Covered(snaps, revision, live, Kept(retired, activeReaders))
      BY ReclaimCovered DEF IndInv, ReadersCounted, TypeOK
    <3>2. \A s \in Snap : snaps[s].revision <= revision => snaps[s].revision <= revision + 1
      BY BoundsAreNat DEF IndInv, TypeOK, Revision
    <3> QED
      BY <1>0, <2>1, <3>1, <3>2 DEF Covered
  <2>5. PromptReclaim'
    BY <1>0, <2>1, ReclaimWaiting DEF IndInv, ReadersCounted, PromptReclaim
  <2> QED
    BY <1>0, <1>2, <2>2, <2>3, <2>4, <2>5 DEF IndInv, ReadersCounted, SnapshotIsolation
<1>4. CASE ~batch.changed
  <2>1. UNCHANGED <<revision, retired, free>>
    BY <1>4 DEF CommitEnd
  <2>2. TypeOK'
    BY <1>0, <1>1, <2>1 DEF IndInv, TypeOK
  <2>3. PromptReclaim'
    BY <1>0, <1>4, <2>1 DEF IndInv, SavedStateGood, PromptReclaim
  <2> QED
    BY <1>0, <1>2, <2>1, <2>2, <2>3
       DEF Chains, IndInv, PageAccounting, ReadersCounted, SnapshotIsolation
<1> QED
  BY <1>3, <1>4

\* CommitDetailed: a panic restores the saved state.
LEMMA CommitPanicGood ==
    ASSUME IndInv, CommitPanic
    PROVE  IndInv'
<1>0. /\ batch.active /\ batch' = NoBatch
      /\ live' = batch.live /\ retired' = batch.retired
      /\ free' = batch.free /\ nextPage' = batch.nextPage
      /\ UNCHANGED <<metaChain, content, revision, activeReaders, snaps, tableOldest, closed>>
  BY DEF CommitPanic
<1>1. /\ batch'.active = FALSE /\ batch'.changed = FALSE /\ batch'.live = {}
      /\ batch'.image = NoImage /\ batch'.retired = {} /\ batch'.free = {}
      /\ batch'.nextPage = FirstPage
      /\ DOMAIN batch' = {"active", "changed", "live", "image", "retired", "free", "nextPage"}
      /\ NoImage \in [{} -> Content]
      /\ FirstPage \in FirstPage..(MaxPage + 1)
  BY <1>0, BoundsAreNat, SomePage DEF NoBatch, NoImage
<1>2. RollbackIntact' /\ SavedStateGood'
  BY <1>1 DEF RollbackIntact, SavedStateGood
<1>3. TypeOK'
  BY <1>0, <1>1 DEF IndInv, TypeOK
<1>4. PageAccounting' /\ Covered(snaps, revision, live, retired)' /\ PromptReclaim'
  BY <1>0 DEF Chains, IndInv, SavedStateGood, PageAccounting, PromptReclaim
<1> QED
  BY <1>0, <1>2, <1>3, <1>4 DEF IndInv, ReadersCounted, SnapshotIsolation

\* Tree.Snapshot.
LEMMA SnapshotOpenGood ==
    ASSUME IndInv, NEW s \in Snap, SnapshotOpen(s)
    PROVE  IndInv'
<1> DEFINE rec == [open |-> TRUE, revision |-> revision, pages |-> live, image |-> Image]
<1>0. /\ ~closed /\ ~batch.active /\ ~snaps[s].open
      /\ snaps' = [snaps EXCEPT ![s] = rec]
      /\ activeReaders' = [activeReaders EXCEPT ![revision] = @ + 1]
      /\ UNCHANGED <<metaChain, content, live, revision, retired, free, nextPage,
                     tableOldest, closed, batch>>
  BY DEF SnapshotOpen, Idle
<1>1. /\ DOMAIN snaps' = Snap
      /\ snaps'[s] = rec
      /\ \A t \in Snap \ {s} : snaps'[t] = snaps[t]
  BY <1>0 DEF IndInv, TypeOK
<1>1a. /\ snaps'[s].open = TRUE /\ snaps'[s].revision = revision
       /\ snaps'[s].pages = live /\ snaps'[s].image = Image
  BY <1>1
<1>2. Image \in [live -> Content] /\ \A p \in live : Image[p] = content[p]
  BY DEF Image, IndInv, TypeOK
<1>3. TypeOK'
  <2>1. activeReaders' \in [Revision -> Nat]
    BY <1>0 DEF IndInv, TypeOK
  <2>2. \A t \in Snap : /\ snaps'[t].open \in BOOLEAN
                        /\ snaps'[t].revision \in Revision
                        /\ snaps'[t].pages \in SUBSET PageID
                        /\ snaps'[t].image \in [snaps'[t].pages -> Content]
    <3> TAKE t \in Snap
    <3>1. CASE t = s
      BY <1>1a, <1>2, <3>1 DEF IndInv, TypeOK
    <3>2. CASE t # s
      BY <1>1, <3>2 DEF IndInv, TypeOK
    <3> QED
      BY <3>1, <3>2
  <2> QED
    BY <1>0, <1>1, <2>1, <2>2 DEF IndInv, TypeOK
<1>4. ReadersCounted'
  <2> SUFFICES ASSUME NEW v \in Revision
               PROVE  activeReaders'[v] = Cardinality(OpenAt(snaps', v))
    BY DEF ReadersCounted
  <2>1. revision \in Revision /\ activeReaders \in [Revision -> Nat]
    BY DEF IndInv, TypeOK
  <2>2. Cardinality(OpenAt(snaps', v)) =
           IF v = revision THEN Cardinality(OpenAt(snaps, v)) + 1
                           ELSE Cardinality(OpenAt(snaps, v))
    <3>1. ~snaps[s].open /\ snaps'[s].open /\ snaps'[s].revision = revision
      BY <1>0, <1>1a
    <3>2. \A t \in Snap \ {s} : snaps'[t] = snaps[t]
      BY <1>1
    <3> QED
      BY <2>1, <3>1, <3>2, CountOpen
  <2> QED
    BY <1>0, <2>1, <2>2 DEF IndInv, ReadersCounted
<1>5. Covered(snaps, revision, live, retired)'
  <2>1. revision <= revision
    BY BoundsAreNat DEF IndInv, TypeOK, Revision
  <2> QED
    BY <1>0, <1>1, <2>1 DEF IndInv, Covered
<1>6. SnapshotIsolation'
  BY <1>0, <1>1, <1>2 DEF IndInv, SnapshotIsolation
<1>7. RollbackIntact' /\ SavedStateGood'
  BY <1>0 DEF RollbackIntact, SavedStateGood
<1>8. PromptReclaim'
  BY <1>0, <1>1 DEF IndInv, PromptReclaim, Waiting
<1> QED
  BY <1>0, <1>3, <1>4, <1>5, <1>6, <1>7, <1>8 DEF Chains, IndInv, PageAccounting

\* Snapshot.Close.
LEMMA SnapshotCloseGood ==
    ASSUME IndInv, NEW s \in Snap, SnapshotClose(s)
    PROVE  IndInv'
<1> DEFINE w == snaps[s].revision
<1>0. /\ ~batch.active /\ snaps[s].open
      /\ snaps' = [snaps EXCEPT ![s] = Closed]
      /\ activeReaders' = [activeReaders EXCEPT ![w] = IF @ <= 1 THEN 0 ELSE @ - 1]
      /\ retired' = Kept(retired, activeReaders')
      /\ free' = free \union Freed(retired, activeReaders')
      /\ UNCHANGED <<metaChain, content, live, revision, nextPage, tableOldest, closed, batch>>
  BY DEF SnapshotClose
<1>1. /\ DOMAIN snaps' = Snap
      /\ snaps'[s] = Closed
      /\ \A t \in Snap \ {s} : snaps'[t] = snaps[t]
  BY <1>0 DEF IndInv, TypeOK
<1>2. /\ Closed.open = FALSE /\ Closed.revision = 0 /\ Closed.pages = {}
      /\ Closed.image = NoImage
      /\ NoImage \in [{} -> Content] /\ 0 \in Revision
  BY BoundsAreNat DEF Closed, NoImage, Revision
<1>3. activeReaders \in [Revision -> Nat] /\ w \in Revision
  BY DEF IndInv, TypeOK
<1>4. activeReaders' \in [Revision -> Nat]
  BY <1>0, <1>3
<1>5. \A t \in Snap : /\ snaps'[t].open \in BOOLEAN
                      /\ snaps'[t].revision \in Revision
                      /\ snaps'[t].pages \in SUBSET PageID
                      /\ snaps'[t].image \in [snaps'[t].pages -> Content]
  BY <1>1, <1>2 DEF IndInv, TypeOK
<1>6. TypeOK'
  <2>1. retired' \in SUBSET Retired /\ free' \in SUBSET PageID
    BY <1>0, ReclaimType DEF IndInv, TypeOK
  <2> QED
    BY <1>0, <1>1, <1>4, <1>5, <2>1 DEF IndInv, TypeOK
<1>7. \A v \in Revision : activeReaders'[v] = Cardinality(OpenAt(snaps', v))
  <2> TAKE v \in Revision
  <2>1. activeReaders[v] = Cardinality(OpenAt(snaps, v))
    BY DEF IndInv, ReadersCounted
  <2>2. /\ v = w => /\ Cardinality(OpenAt(snaps, v)) > 0
                    /\ Cardinality(OpenAt(snaps', v)) = Cardinality(OpenAt(snaps, v)) - 1
        /\ v # w => Cardinality(OpenAt(snaps', v)) = Cardinality(OpenAt(snaps, v))
    <3>1. snaps[s].open /\ ~snaps'[s].open
      BY <1>0, <1>1, <1>2
    <3>2. \A t \in Snap \ {s} : snaps'[t] = snaps[t]
      BY <1>1
    <3> QED
      BY <3>1, <3>2, CountClose
  <2> QED
    BY <1>0, <1>3, <2>1, <2>2
<1>8. ReadersCounted'
  BY <1>7 DEF ReadersCounted
<1>9. PageAccounting'
  BY <1>0, ReclaimAccounted DEF Chains, IndInv, PageAccounting
<1>10. Covered(snaps, revision, live, retired)'
  <2>1. Covered(snaps', revision, live, retired)
    BY <1>1, <1>2 DEF IndInv, Covered
  <2>2. Covered(snaps', revision, live, Kept(retired, activeReaders'))
    <3>1. \A t \in Snap : snaps'[t].revision \in Revision
      BY <1>5
    <3> QED
      BY <1>7, <2>1, <3>1, ReclaimCovered, Zenon
  <2> QED
    BY <1>0, <2>2
<1>11. SnapshotIsolation'
  BY <1>0, <1>1, <1>2 DEF IndInv, SnapshotIsolation
<1>12. RollbackIntact' /\ SavedStateGood'
  BY <1>0 DEF RollbackIntact, SavedStateGood
<1>13. PromptReclaim'
  BY <1>0, <1>7, ReclaimWaiting DEF IndInv, PromptReclaim
<1>14. (Mmap /\ closed => \A t \in Snap : ~snaps[t].open)'
  BY <1>0, <1>1, <1>2 DEF IndInv
<1> QED
  BY <1>0, <1>6, <1>8, <1>9, <1>10, <1>11, <1>12, <1>13, <1>14 DEF IndInv

\* publishMeta: the new chain takes unused ids, the replaced one becomes free,
\* the one the other meta page names stays taken.
LEMMA PublishGood ==
    ASSUME NEW lv, NEW fr, NEW next \in FirstPage..(MaxPage + 1),
           revision \in Nat, metaChain \in [Slot -> SUBSET PageID],
           metaChain[0] \intersect metaChain[1] = {},
           fr \in SUBSET PageID,
           Accounted(lv, retired', fr, Chains, next),
           PublishMeta(fr, next)
    PROVE  /\ content' \in [PageID -> Content]
           /\ \A p \in FirstPage..(next - 1) : content'[p] = content[p]
           /\ nextPage' \in FirstPage..(MaxPage + 1)
           /\ metaChain' \in [Slot -> SUBSET PageID]
           /\ free' \in SUBSET PageID
           /\ Accounted(lv, retired', free', Chains', nextPage')
           /\ metaChain'[0] \intersect metaChain'[1] = {}
<1> DEFINE slot == revision % 2
<1>1. PICK n \in (next - 1)..MaxPage :
        /\ content' \in [PageID -> Content]
        /\ \A p \in PageID \ (next..n) : content'[p] = content[p]
        /\ metaChain' = [metaChain EXCEPT ![slot] = next..n]
        /\ free' = fr \union metaChain[slot]
        /\ nextPage' = n + 1
  BY Zenon DEF PublishMeta
<1>2. /\ next \in Int /\ FirstPage \in Int /\ MaxPage \in Int /\ n \in Int
      /\ FirstPage <= next /\ next <= n + 1 /\ n <= MaxPage
  BY BoundsAreNat
<1>3. slot = 0 \/ slot = 1
  OBVIOUS
<1>4. Slot = {0, 1}
  BY DEF Slot
<1>5. next..n \subseteq PageID
  BY <1>2 DEF PageID
<1>6. /\ metaChain'[slot] = next..n
      /\ metaChain'[1 - slot] = metaChain[1 - slot]
  BY <1>1, <1>3, <1>4
<1>7. /\ Chains = metaChain[slot] \union metaChain[1 - slot]
      /\ Chains' = (next..n) \union metaChain[1 - slot]
      /\ metaChain[slot] \intersect metaChain[1 - slot] = {}
  BY <1>3, <1>6 DEF Chains
<1>8. (next..n) \intersect (lv \union RetiredIds(retired') \union fr \union Chains) = {}
  BY <1>2 DEF Accounted
<1>9. FirstPage..n = (FirstPage..(next - 1)) \union (next..n)
  BY <1>2
<1>10. Accounted(lv, retired', free', Chains', nextPage')
  <2>1. lv \union RetiredIds(retired') \union free' \union Chains' = FirstPage..(nextPage' - 1)
    <3>1. nextPage' - 1 = n
      BY <1>1, <1>2
    <3>2. lv \union RetiredIds(retired') \union free' \union Chains'
            = (lv \union RetiredIds(retired') \union fr \union Chains) \union (next..n)
      BY <1>1, <1>7
    <3> QED
      BY <1>9, <3>1, <3>2 DEF Accounted
  <2> QED
    BY <2>1, <1>1, <1>7, <1>8 DEF Accounted
<1>11. metaChain'[0] \intersect metaChain'[1] = {}
  BY <1>3, <1>6, <1>7, <1>8
<1>12. metaChain' \in [Slot -> SUBSET PageID] /\ free' \in SUBSET PageID
  BY <1>1, <1>3, <1>4, <1>5
<1>13. ASSUME NEW p \in FirstPage..(next - 1) PROVE content'[p] = content[p]
  BY <1>1, <1>2 DEF PageID
<1> QED
  BY <1>1, <1>2, <1>10, <1>11, <1>12, <1>13

\* Tree.Sync writes nothing that a snapshot reads.
LEMMA SyncGood ==
    ASSUME IndInv, Sync
    PROVE  IndInv'
<1>0. /\ ~closed /\ ~batch.active /\ Mmap
      /\ PublishMeta(free, nextPage)
      /\ UNCHANGED <<live, revision, retired, activeReaders, snaps, tableOldest,
                     closed, batch>>
  BY DEF Sync, Idle
<1>1. /\ content' \in [PageID -> Content]
      /\ \A p \in FirstPage..(nextPage - 1) : content'[p] = content[p]
      /\ nextPage' \in FirstPage..(MaxPage + 1)
      /\ metaChain' \in [Slot -> SUBSET PageID]
      /\ free' \in SUBSET PageID
      /\ Accounted(live, retired', free', Chains', nextPage')
      /\ metaChain'[0] \intersect metaChain'[1] = {}
  <2>1. /\ Accounted(live, retired', free, Chains, nextPage)
        /\ metaChain[0] \intersect metaChain[1] = {}
    BY <1>0 DEF IndInv, PageAccounting
  <2>2. /\ nextPage \in FirstPage..(MaxPage + 1) /\ revision \in Nat
        /\ metaChain \in [Slot -> SUBSET PageID] /\ free \in SUBSET PageID
    BY BoundsAreNat DEF IndInv, TypeOK, Revision
  <2> QED
    BY <1>0, <2>1, <2>2, PublishGood
<1>2. TypeOK'
  BY <1>0, <1>1 DEF IndInv, TypeOK
<1>3. PageAccounting'
  BY <1>0, <1>1 DEF PageAccounting
<1>4. SnapshotIsolation'
  <2> SUFFICES ASSUME NEW s \in Snap, snaps[s].open, NEW p \in snaps[s].pages
               PROVE  content'[p] = snaps[s].image[p]
    BY <1>0 DEF SnapshotIsolation
  <2>1. p \in FirstPage..(nextPage - 1)
    BY CoveredPages DEF IndInv, PageAccounting, Accounted
  <2> QED
    BY <1>1, <2>1 DEF IndInv, SnapshotIsolation
<1>5. RollbackIntact' /\ SavedStateGood' /\ PromptReclaim'
  BY <1>0 DEF RollbackIntact, SavedStateGood, PromptReclaim
<1> QED
  BY <1>0, <1>2, <1>3, <1>4, <1>5 DEF IndInv, ReadersCounted, Covered

\* Tree.Compact: reclaims, and may give the free tail of the file back.
LEMMA CompactGood ==
    ASSUME IndInv, Compact
    PROVE  IndInv'
<1> DEFINE allFree == free \union Freed(retired, activeReaders)
<1>0. /\ ~closed /\ ~batch.active
      /\ ~HasSnapshots(activeReaders)
      /\ retired' = Kept(retired, activeReaders)
      /\ UNCHANGED <<live, revision, activeReaders, snaps, tableOldest, closed, batch>>
  BY DEF Compact, Idle
<1>1. /\ Accounted(live, retired', allFree, Chains, nextPage)
      /\ metaChain[0] \intersect metaChain[1] = {}
  BY <1>0, ReclaimAccounted DEF IndInv, PageAccounting
<1>2. retired' \in SUBSET Retired /\ allFree \in SUBSET PageID
  BY <1>0, ReclaimType DEF IndInv, TypeOK
<1>3. TypeOK' /\ PageAccounting'
  <2>1. CASE free' = allFree /\ UNCHANGED <<content, nextPage, metaChain>>
    BY <1>0, <1>1, <1>2, <2>1 DEF IndInv, TypeOK, PageAccounting, Chains
  <2>2. ASSUME NEW tail \in FirstPage..nextPage,
               TrailingFree(allFree, tail),
               PublishMeta({p \in allFree : p < tail}, tail)
        PROVE  TypeOK' /\ PageAccounting'
    <3> DEFINE fr == {p \in allFree : p < tail}
    <3>1. /\ nextPage \in Int /\ FirstPage \in Int /\ MaxPage \in Int /\ tail \in Int
          /\ FirstPage <= tail /\ tail <= nextPage /\ nextPage <= MaxPage + 1
      BY <2>2, BoundsAreNat DEF IndInv, TypeOK
    <3>2. tail..(nextPage - 1) \subseteq allFree
      BY <2>2 DEF TrailingFree
    <3>3. live \union RetiredIds(retired') \union fr \union Chains = FirstPage..(tail - 1)
      BY <1>1, <3>1, <3>2 DEF Accounted
    <3>4. fr \subseteq allFree /\ fr \in SUBSET PageID
      BY <1>2
    <3>5. Accounted(live, retired', fr, Chains, tail)
      BY <1>1, <3>3, <3>4 DEF Accounted
    <3>6. /\ tail \in FirstPage..(MaxPage + 1) /\ revision \in Nat
          /\ metaChain \in [Slot -> SUBSET PageID]
      BY <3>1, BoundsAreNat DEF IndInv, TypeOK, Revision
    <3>7. /\ content' \in [PageID -> Content]
          /\ nextPage' \in FirstPage..(MaxPage + 1)
          /\ metaChain' \in [Slot -> SUBSET PageID]
          /\ free' \in SUBSET PageID
          /\ Accounted(live, retired', free', Chains', nextPage')
          /\ metaChain'[0] \intersect metaChain'[1] = {}
      BY <1>1, <2>2, <3>4, <3>5, <3>6, PublishGood
    <3> QED
      BY <1>0, <1>2, <3>7 DEF IndInv, TypeOK, PageAccounting
  <2> QED
    BY <2>1, <2>2 DEF Compact
<1>4. \A s \in Snap : ~snaps[s].open
  BY <1>0, OpenIsCounted DEF HasSnapshots, IndInv, ReadersCounted, TypeOK
<1>5. Covered(snaps, revision, live, retired)' /\ SnapshotIsolation'
  BY <1>0, <1>4 DEF Covered, SnapshotIsolation
<1>6. RollbackIntact' /\ SavedStateGood'
  BY <1>0 DEF RollbackIntact, SavedStateGood
<1>7. PromptReclaim'
  BY <1>0, ReclaimWaiting DEF IndInv, ReadersCounted, PromptReclaim
<1> QED
  BY <1>0, <1>3, <1>5, <1>6, <1>7 DEF IndInv, ReadersCounted

\* Tree.Close.
LEMMA CloseGood ==
    ASSUME IndInv, Close
    PROVE  IndInv'
<1>0. /\ ~batch.active
      /\ UNCHANGED <<live, revision, activeReaders, snaps, tableOldest, batch>>
      /\ closed' = TRUE
  BY DEF Close, Idle
<1>1. RollbackIntact' /\ SavedStateGood' /\ ReadersCounted'
  BY <1>0 DEF IndInv, RollbackIntact, SavedStateGood, ReadersCounted
<1>2. CASE Mmap
  <2> DEFINE allFree == free \union Freed(retired, activeReaders)
  <2>1. /\ ~HasSnapshots(activeReaders)
        /\ retired' = Kept(retired, activeReaders)
        /\ \/ PublishMeta(allFree, nextPage)
           \/ free' = allFree /\ UNCHANGED <<content, nextPage, metaChain>>
    BY <1>2 DEF Close
  <2>2. /\ Accounted(live, retired', allFree, Chains, nextPage)
        /\ metaChain[0] \intersect metaChain[1] = {}
    BY <2>1, ReclaimAccounted DEF IndInv, PageAccounting
  <2>3. retired' \in SUBSET Retired /\ allFree \in SUBSET PageID
    BY <2>1, ReclaimType DEF IndInv, TypeOK
  <2>4. /\ nextPage \in FirstPage..(MaxPage + 1) /\ revision \in Nat
        /\ metaChain \in [Slot -> SUBSET PageID]
    BY BoundsAreNat DEF IndInv, TypeOK, Revision
  <2>5. /\ content' \in [PageID -> Content]
        /\ nextPage' \in FirstPage..(MaxPage + 1)
        /\ metaChain' \in [Slot -> SUBSET PageID]
        /\ free' \in SUBSET PageID
        /\ Accounted(live, retired', free', Chains', nextPage')
        /\ metaChain'[0] \intersect metaChain'[1] = {}
    <3>1. CASE PublishMeta(allFree, nextPage)
      BY <2>2, <2>3, <2>4, <3>1, PublishGood
    <3>2. CASE free' = allFree /\ UNCHANGED <<content, nextPage, metaChain>>
      BY <2>2, <2>3, <3>2 DEF IndInv, TypeOK, Chains
    <3> QED
      BY <2>1, <3>1, <3>2
  <2>6. TypeOK' /\ PageAccounting'
    BY <1>0, <2>3, <2>5 DEF IndInv, TypeOK, PageAccounting
  <2>7. \A s \in Snap : ~snaps[s].open
    BY <2>1, OpenIsCounted DEF HasSnapshots, IndInv, ReadersCounted, TypeOK
  <2>8. Covered(snaps, revision, live, retired)' /\ SnapshotIsolation'
    BY <1>0, <2>7 DEF Covered, SnapshotIsolation
  <2> QED
    BY <1>0, <1>1, <1>2, <2>6, <2>7, <2>8 DEF IndInv, PromptReclaim
<1>3. CASE ~Mmap
  <2>1. UNCHANGED <<content, retired, free, nextPage, metaChain>>
    BY <1>3 DEF Close
  <2>2. TypeOK' /\ PageAccounting' /\ PromptReclaim' /\ SnapshotIsolation'
    BY <1>0, <2>1 DEF IndInv, TypeOK, PageAccounting, Chains, PromptReclaim, SnapshotIsolation
  <2> QED
    BY <1>0, <1>1, <1>3, <2>1, <2>2 DEF IndInv
<1> QED
  BY <1>2, <1>3

\* Other processes change the reader table.
LEMMA TableChangesGood ==
    ASSUME IndInv, TableChanges
    PROVE  IndInv'
<1>0. /\ Mmap
      /\ tableOldest' \in {NoReader} \union (0..revision)
      /\ UNCHANGED <<metaChain, content, live, revision, retired, free, nextPage,
                     activeReaders, snaps, closed, batch>>
  BY DEF TableChanges
<1>1. tableOldest' \in {NoReader} \union Revision
  BY <1>0, BoundsAreNat DEF Revision, IndInv, TypeOK
<1>2. TypeOK'
  BY <1>0, <1>1 DEF IndInv, TypeOK
<1> QED
  BY <1>0, <1>2 DEF Chains, IndInv, PageAccounting, ReadersCounted, SnapshotIsolation,
     RollbackIntact, SavedStateGood, PromptReclaim

\* A step that changes nothing.
LEMMA StutterGood ==
    ASSUME IndInv, UNCHANGED vars
    PROVE  IndInv'
BY DEF Chains, vars, IndInv, TypeOK, PageAccounting, ReadersCounted, SnapshotIsolation,
   RollbackIntact, SavedStateGood, PromptReclaim

----------------------------------------------------------------------------
(* Theorems *)

\* The inductive invariant holds in every reachable state of the page store.
THEOREM Inductive == Spec => []IndInv
<1>1. Init => IndInv
  BY InitGood
<1>2. IndInv /\ [Next]_vars => IndInv'
  <2> SUFFICES ASSUME IndInv, [Next]_vars PROVE IndInv'
    OBVIOUS
  <2>1. CASE MutatePages
    <3>1. PICK R, F, n, D : Mutate(R, F, n, D) \/ CommitStage(R, F, n, D)
      BY <2>1 DEF MutatePages
    <3> QED
      BY <3>1, MutateGood, CommitStageGood
  <2>2. CASE CommitBegin
    BY <2>2, CommitBeginGood
  <2>3. CASE CommitEnd
    BY <2>3, CommitEndGood
  <2>4. CASE CommitPanic
    BY <2>4, CommitPanicGood
  <2>5. CASE \E s \in Snap : SnapshotOpen(s) \/ SnapshotClose(s)
    BY <2>5, SnapshotOpenGood, SnapshotCloseGood
  <2>6. CASE Compact
    BY <2>6, CompactGood
  <2>10. CASE Sync
    BY <2>10, SyncGood
  <2>7. CASE Close
    BY <2>7, CloseGood
  <2>8. CASE TableChanges
    BY <2>8, TableChangesGood
  <2>9. CASE UNCHANGED vars
    BY <2>9, StutterGood
  <2> QED
    BY <2>1, <2>2, <2>3, <2>4, <2>5, <2>6, <2>7, <2>8, <2>9, <2>10 DEF Next
<1> QED
  BY <1>1, <1>2, PTL DEF Spec

\* Type correctness of the page store.
THEOREM TypeCorrect == Spec => []TypeOK
<1>1. IndInv => TypeOK
  BY DEF IndInv
<1> QED
  BY <1>1, Inductive, PTL

\* Pages an open Snapshot reads are never written: copy-on-write, retirement
\* and the reclamation watermark isolate it whatever the writer does.
THEOREM SnapshotsIsolated == Spec => []SnapshotIsolation
<1>1. IndInv => SnapshotIsolation
  BY DEF IndInv
<1> QED
  BY <1>1, Inductive, PTL

\* A WriteBatch commit that panics can restore a tree whose pages are intact.
THEOREM RollbackSound == Spec => []RollbackIntact
<1>1. IndInv => RollbackIntact
  BY DEF IndInv
<1> QED
  BY <1>1, Inductive, PTL

\* allocPage, retirePage, reclaimRetiredPages, Compact and a rolled-back commit
\* neither lose a page id nor hand one out twice.
THEOREM PagesAccounted == Spec => []PageAccounting
<1>1. IndInv => PageAccounting
  BY DEF IndInv
<1> QED
  BY <1>1, Inductive, PTL

\* beginRead and endRead count the open snapshots of every revision.
THEOREM ReaderCountsExact == Spec => []ReadersCounted
<1>1. IndInv => ReadersCounted
  BY DEF IndInv
<1> QED
  BY <1>1, Inductive, PTL

\* Compact and Close never take the mapping from under an open snapshot.
THEOREM SnapshotsStayMapped == Spec => []SnapshotsMapped
<1>1. IndInv => SnapshotsMapped
  <2> SUFFICES ASSUME IndInv, NEW s \in Snap, snaps[s].open
               PROVE  /\ snaps[s].pages \subseteq FirstPage..(nextPage - 1)
                      /\ Mmap => ~closed
    BY DEF SnapshotsMapped
  <2>1. snaps[s].pages \subseteq live \union RetiredIds(retired)
    BY CoveredPages DEF IndInv
  <2> QED
    BY <2>1 DEF IndInv, PageAccounting, Accounted
<1> QED
  BY <1>1, Inductive, PTL

\* The types, the reader counts and the mapping of open snapshots together: what
\* beginRead, endRead, Compact and Close keep in every state.
THEOREM StoreStaysSound == Spec => []StoreSound
<1>1. TypeOK /\ ReadersCounted /\ SnapshotsMapped => StoreSound
  BY DEF StoreSound
<1> QED
  BY <1>1, TypeCorrect, ReaderCountsExact, SnapshotsStayMapped, PTL

\* In memory a retired page is reclaimed as soon as no snapshot needs it.
THEOREM ReclaimedPromptly == Spec => []PromptReclaim
<1>1. IndInv => PromptReclaim
  BY DEF IndInv
<1> QED
  BY <1>1, Inductive, PTL

----------------------------------------------------------------------------
(* Refinement: the page store implements Versions *)

\* A commit that has changed nothing so far still has the root it saved.
LEMMA TreeUnchanged == Spec => []UnchangedTree
<1>1. Init => UnchangedTree
  BY DEF Init, NoBatch, UnchangedTree
<1>2. IndInv /\ UnchangedTree /\ [Next]_vars => UnchangedTree'
  <2> SUFFICES ASSUME IndInv, UnchangedTree, [Next]_vars PROVE UnchangedTree'
    OBVIOUS
  <2>1. CASE MutatePages
    <3>1. PICK R, F, n, D : Mutate(R, F, n, D) \/ CommitStage(R, F, n, D)
      BY <2>1 DEF MutatePages
    <3>2. CASE Mutate(R, F, n, D)
      BY <3>2 DEF Mutate, Idle, UnchangedTree
    <3>3. CASE CommitStage(R, F, n, D)
      <4>1. batch' = [batch EXCEPT !.changed = TRUE]
        BY <3>3 DEF CommitStage
      <4>2. batch'.changed
        BY <4>1 DEF IndInv, TypeOK
      <4> QED
        BY <4>2 DEF UnchangedTree
    <3> QED
      BY <3>1, <3>2, <3>3
  <2>2. CASE CommitBegin
    BY <2>2 DEF CommitBegin, UnchangedTree
  <2>3. CASE CommitEnd
    BY <2>3 DEF CommitEnd, NoBatch, UnchangedTree
  <2>4. CASE CommitPanic
    BY <2>4 DEF CommitPanic, NoBatch, UnchangedTree
  <2>5. CASE UNCHANGED <<live, batch>>
    BY <2>5 DEF UnchangedTree
  <2> QED
    BY <2>1, <2>2, <2>3, <2>4, <2>5
       DEF Next, vars, SnapshotOpen, SnapshotClose, Sync, Compact, Close, TableChanges
<1> QED
  BY <1>1, <1>2, Inductive, PTL DEF Spec

\* The view of an open handle is never that of a closed one: -1 is not a page.
LEMMA OpenIsSeen ==
    ASSUME NEW S \in SUBSET PageID
    PROVE  Shows(S) # NotOpen
<1>1. -1 \in DOMAIN NotOpen /\ -1 \notin DOMAIN Shows(S)
  BY BoundsAreNat DEF NotOpen, Shows, PageID
<1> QED
  BY <1>1

\* Pages that keep their bytes show the same.
LEMMA SameBytesSameView ==
    ASSUME NEW S, \A p \in S : content'[p] = content[p]
    PROVE  [p \in S |-> content'[p]] = [p \in S |-> content[p]]
OBVIOUS

\* An open handle shows its image, whatever was written in between.
LEMMA HandleKeepsView ==
    ASSUME IndInv, IndInv', NEW s \in Snap, snaps[s].open, snaps'[s] = snaps[s]
    PROVE  Shows(snaps[s].pages)' = Shows(snaps[s].pages)
<1>1. \A p \in snaps[s].pages : content'[p] = content[p]
  BY DEF IndInv, SnapshotIsolation
<1> QED
  BY <1>1, SameBytesSameView DEF Shows

LEMMA HandlesKeepViews ==
    ASSUME IndInv, IndInv', UNCHANGED snaps
    PROVE  UNCHANGED HandleViews
<1>1. ASSUME NEW s \in Snap
      PROVE  (IF snaps[s].open THEN Shows(snaps[s].pages) ELSE NotOpen)'
               = (IF snaps[s].open THEN Shows(snaps[s].pages) ELSE NotOpen)
  BY HandleKeepsView DEF NotOpen
<1> QED
  BY <1>1 DEF HandleViews

\* The saved tree shows its image until the commit has ended.
LEMMA SavedKeepsView ==
    ASSUME IndInv, IndInv', batch.active, batch'.active,
           batch'.live = batch.live, batch'.image = batch.image
    PROVE  Shows(batch.live)' = Shows(batch.live)
<1>1. \A p \in batch.live : content'[p] = content[p]
  BY DEF IndInv, RollbackIntact
<1> QED
  BY <1>1, SameBytesSameView DEF Shows

\* Writing metadata chains, also below a shortened tail, spares the tree.
LEMMA PublishSparesTree ==
    ASSUME IndInv, Sync \/ Compact \/ Close
    PROVE  \A p \in live : content'[p] = content[p]
<1> DEFINE allFree == free \union Freed(retired, activeReaders)
<1>1. /\ nextPage \in FirstPage..(MaxPage + 1) /\ revision \in Nat
      /\ metaChain \in [Slot -> SUBSET PageID] /\ free \in SUBSET PageID
      /\ metaChain[0] \intersect metaChain[1] = {}
  BY BoundsAreNat DEF IndInv, TypeOK, Revision, PageAccounting
<1>2. live \subseteq FirstPage..(nextPage - 1)
  BY DEF IndInv, PageAccounting, Accounted
<1>3. /\ Accounted(live, Kept(retired, activeReaders), allFree, Chains, nextPage)
      /\ allFree \in SUBSET PageID
  BY ReclaimAccounted, ReclaimType DEF IndInv, PageAccounting, TypeOK
<1>4. CASE PublishMeta(free, nextPage) /\ retired' = retired
  <2>1. Accounted(live, retired', free, Chains, nextPage)
    BY <1>4 DEF IndInv, PageAccounting
  <2> QED
    BY <1>1, <1>2, <1>4, <2>1, PublishGood
<1>5. CASE PublishMeta(allFree, nextPage) /\ retired' = Kept(retired, activeReaders)
  BY <1>1, <1>2, <1>3, <1>5, PublishGood
<1>6. ASSUME NEW tail \in FirstPage..nextPage,
             TrailingFree(allFree, tail),
             retired' = Kept(retired, activeReaders),
             PublishMeta({p \in allFree : p < tail}, tail)
      PROVE  \A p \in live : content'[p] = content[p]
  <2> DEFINE fr == {p \in allFree : p < tail}
  <2>1. /\ nextPage \in Int /\ FirstPage \in Int /\ MaxPage \in Int /\ tail \in Int
        /\ FirstPage <= tail /\ tail <= nextPage /\ nextPage <= MaxPage + 1
    BY <1>1, <1>6, BoundsAreNat
  <2>2. tail..(nextPage - 1) \subseteq allFree
    BY <1>6 DEF TrailingFree
  <2>3. live \union RetiredIds(retired') \union fr \union Chains = FirstPage..(tail - 1)
    BY <1>3, <1>6, <2>1, <2>2 DEF Accounted
  <2>4. fr \subseteq allFree /\ fr \in SUBSET PageID
    BY <1>3
  <2>5. Accounted(live, retired', fr, Chains, tail)
    BY <1>3, <1>6, <2>3, <2>4 DEF Accounted
  <2>6. tail \in FirstPage..(MaxPage + 1)
    BY <2>1
  <2>7. \A p \in FirstPage..(tail - 1) : content'[p] = content[p]
    BY <1>1, <1>6, <2>4, <2>5, <2>6, PublishGood
  <2> QED
    BY <2>3, <2>7
<1>7. CASE UNCHANGED content
  BY <1>7
<1>8. CASE Sync
  BY <1>4, <1>8 DEF Sync
<1>9. CASE Compact
  BY <1>6, <1>7, <1>9 DEF Compact
<1>10. CASE Close
  BY <1>5, <1>7, <1>10 DEF Close
<1> QED
  BY <1>8, <1>9, <1>10

\* The three actions of Versions, as steps of the page store.
LEMMA PublishStep ==
    ASSUME IndInv, IndInv', UNCHANGED snaps, revision' = revision + 1
    PROVE  Promise!Publish
BY HandlesKeepViews DEF Promise!Publish

LEMMA OpenStep ==
    ASSUME IndInv, IndInv', NEW s \in Snap, SnapshotOpen(s)
    PROVE  Promise!OpenSnapshot(s)
<1>1. /\ ~batch.active /\ ~snaps[s].open
      /\ snaps' = [snaps EXCEPT ![s] = [open |-> TRUE, revision |-> revision,
                                        pages |-> live, image |-> Image]]
      /\ UNCHANGED <<content, live, revision, batch>>
  BY DEF SnapshotOpen, Idle
<1>2. DOMAIN snaps = Snap
  BY DEF IndInv, TypeOK
<1>3. HandleViews[s] = NotOpen
  BY <1>1 DEF HandleViews
<1>4. Shows(PublishedPages)' = Shows(PublishedPages) /\ Shows(PublishedPages) = Shows(live)
  BY <1>1 DEF Shows, PublishedPages
<1>5. HandleViews'[s] = Shows(live)
  BY <1>1, <1>2 DEF HandleViews, Shows
<1>6. ASSUME NEW t \in Snap, t # s
      PROVE  HandleViews'[t] = HandleViews[t]
  <2>1. snaps'[t] = snaps[t]
    BY <1>1, <1>2, <1>6
  <2> QED
    BY <1>1, <2>1 DEF HandleViews, Shows, NotOpen
<1>7. HandleViews' = [HandleViews EXCEPT ![s] = Shows(live)]
  BY <1>5, <1>6 DEF HandleViews
<1> QED
  BY <1>1, <1>3, <1>4, <1>7 DEF Promise!OpenSnapshot

LEMMA CloseStep ==
    ASSUME IndInv, IndInv', NEW s \in Snap, SnapshotClose(s)
    PROVE  Promise!CloseSnapshot(s)
<1>1. /\ ~batch.active /\ snaps[s].open
      /\ snaps' = [snaps EXCEPT ![s] = Closed]
      /\ UNCHANGED <<content, live, revision, batch>>
  BY DEF SnapshotClose
<1>2. DOMAIN snaps = Snap /\ snaps[s].pages \in SUBSET PageID
  BY DEF IndInv, TypeOK
<1>3. HandleViews[s] # NotOpen
  BY <1>1, <1>2, OpenIsSeen DEF HandleViews
<1>4. Shows(PublishedPages)' = Shows(PublishedPages)
  BY <1>1 DEF Shows, PublishedPages
<1>5. HandleViews'[s] = NotOpen
  BY <1>1, <1>2 DEF HandleViews, NotOpen, Closed
<1>6. ASSUME NEW t \in Snap, t # s
      PROVE  HandleViews'[t] = HandleViews[t]
  <2>1. snaps'[t] = snaps[t]
    BY <1>1, <1>2, <1>6
  <2> QED
    BY <1>1, <2>1 DEF HandleViews, Shows, NotOpen
<1>7. HandleViews' = [HandleViews EXCEPT ![s] = NotOpen]
  BY <1>5, <1>6 DEF HandleViews
<1> QED
  BY <1>1, <1>3, <1>4, <1>7 DEF Promise!CloseSnapshot

\* Every other step shows readers what they saw before.
LEMMA HiddenStep ==
    ASSUME IndInv, IndInv', UNCHANGED <<snaps, revision>>,
           Shows(PublishedPages)' = Shows(PublishedPages)
    PROVE  UNCHANGED Promise!vars
BY HandlesKeepViews DEF Promise!vars

LEMMA StepImplements ==
    ASSUME IndInv, IndInv', UnchangedTree, [Next]_vars
    PROVE  [Promise!Next]_Promise!vars
<1>1. CASE MutatePages
  <2>1. PICK R, F, n, D : Mutate(R, F, n, D) \/ CommitStage(R, F, n, D)
    BY <1>1 DEF MutatePages
  <2>2. CASE Mutate(R, F, n, D)
    <3>1. UNCHANGED snaps /\ revision' = revision + 1
      BY <2>2 DEF Mutate
    <3> QED
      BY <3>1, PublishStep DEF Promise!Next
  <2>3. CASE CommitStage(R, F, n, D)
    <3>1. /\ batch.active /\ batch' = [batch EXCEPT !.changed = TRUE]
          /\ UNCHANGED <<snaps, revision>>
      BY <2>3 DEF CommitStage
    <3>2. /\ batch'.active /\ batch'.live = batch.live /\ batch'.image = batch.image
      BY <3>1 DEF IndInv, TypeOK
    <3>3. Shows(PublishedPages)' = Shows(PublishedPages)
      BY <3>1, <3>2, SavedKeepsView DEF PublishedPages, Shows
    <3> QED
      BY <3>1, <3>3, HiddenStep
  <2> QED
    BY <2>1, <2>2, <2>3
<1>2. CASE CommitBegin
  <2>1. /\ ~batch.active /\ batch'.active /\ batch'.live = live
        /\ UNCHANGED <<content, snaps, revision>>
    BY <1>2 DEF CommitBegin, Idle
  <2>2. Shows(PublishedPages)' = Shows(PublishedPages)
    BY <2>1 DEF PublishedPages, Shows
  <2> QED
    BY <2>1, <2>2, HiddenStep
<1>3. CASE CommitEnd
  <2>1. batch.active /\ ~batch'.active /\ UNCHANGED <<content, live, snaps>>
    BY <1>3 DEF CommitEnd, NoBatch
  <2>2. CASE batch.changed
    <3>1. revision' = revision + 1
      BY <1>3, <2>2 DEF CommitEnd
    <3> QED
      BY <2>1, <3>1, PublishStep DEF Promise!Next
  <2>3. CASE ~batch.changed
    <3>1. revision' = revision /\ live = batch.live
      BY <1>3, <2>1, <2>3 DEF CommitEnd, UnchangedTree
    <3>2. Shows(PublishedPages)' = Shows(PublishedPages)
      BY <2>1, <3>1 DEF PublishedPages, Shows
    <3> QED
      BY <2>1, <3>1, <3>2, HiddenStep
  <2> QED
    BY <2>2, <2>3
<1>4. CASE CommitPanic
  <2>1. /\ batch.active /\ ~batch'.active /\ live' = batch.live
        /\ UNCHANGED <<content, snaps, revision>>
    BY <1>4 DEF CommitPanic, NoBatch
  <2>2. Shows(PublishedPages)' = Shows(PublishedPages)
    BY <2>1 DEF PublishedPages, Shows
  <2> QED
    BY <2>1, <2>2, HiddenStep
<1>5. CASE \E s \in Snap : SnapshotOpen(s) \/ SnapshotClose(s)
  BY <1>5, OpenStep, CloseStep DEF Promise!Next
<1>6. CASE Sync \/ Compact \/ Close
  <2>1. ~batch.active /\ UNCHANGED <<live, batch, snaps, revision>>
    BY <1>6 DEF Sync, Compact, Close, Idle
  <2>2. Shows(live)' = Shows(live)
    BY <1>6, <2>1, PublishSparesTree, SameBytesSameView DEF Shows
  <2>3. Shows(PublishedPages)' = Shows(PublishedPages)
    BY <2>1, <2>2 DEF PublishedPages, Shows
  <2> QED
    BY <2>1, <2>3, HiddenStep
<1>7. CASE UNCHANGED <<content, live, batch, snaps, revision>>
  <2>1. Shows(PublishedPages)' = Shows(PublishedPages)
    BY <1>7 DEF PublishedPages, Shows
  <2> QED
    BY <1>7, <2>1, HiddenStep
<1>8. TableChanges \/ UNCHANGED vars => UNCHANGED <<content, live, batch, snaps, revision>>
  BY DEF TableChanges, vars
<1> QED
  BY <1>1, <1>2, <1>3, <1>4, <1>5, <1>6, <1>7, <1>8 DEF Next

\* The page store implements Versions: only a mutation or a changed commit
\* (publishStagedMutation) replaces what readers of the tree see, and nothing at
\* all changes what an open Snapshot shows.
THEOREM StoreImplementsVersions == Spec => ImplementsVersions
<1>1. Init => Promise!Init
  BY DEF Init, Promise!Init, HandleViews, Closed
<1>2. IndInv /\ IndInv' /\ UnchangedTree /\ [Next]_vars => [Promise!Next]_Promise!vars
  BY StepImplements
<1> QED
  BY <1>1, <1>2, Inductive, TreeUnchanged, PTL DEF Spec, ImplementsVersions, Promise!Spec
=============================================================================
