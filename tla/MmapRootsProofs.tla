----------------------------- MODULE MmapRootsProofs -----------------------------
(***************************************************************************)
(* Proofs about what recovery and a running process find in the file: the  *)
(* pages of a root are on disk and in nobody else's hands, the newest root *)
(* lies inside the file, and no slice that is read belongs to a mapping    *)
(* that is gone.  They rest on the sizes that MmapFileProofs has proved.   *)
(***************************************************************************)
EXTENDS MmapFileProofs

Root == MetaRecord \union {Zero}

\* The ids that a tree, or a root, has in use or may hand out.
InUse(t) == t.live \union t.free \union RetiredIds(t)

\* Every id of a tree is one thing only, and lies below nextPage.
Apart(t) ==
    /\ t.live \intersect t.chain = {}
    /\ (t.free \union RetiredIds(t)) \intersect (t.live \union t.chain) = {}
    /\ t.free \intersect RetiredIds(t) = {}
    /\ \A r, s \in t.retired : r.id = s.id => r = s
    /\ InUse(t) \union t.chain \subseteq Listed(t)

\* A root none of whose pages has been written again.
Intact(r) == r # Zero /\ r.spoilt = FALSE

\* Of the roots in the two slots recovery takes the newer one.
Newer(r, s) == IF r.revision >= s.revision THEN r ELSE s
Openable(a) == {Newer(r, s) : r \in a.disk.meta[0], s \in a.disk.meta[1]}

\* The disk may hold what the file holds, and a slot holds the revisions of its parity.
Held(a) ==
    /\ a.file \in a.disk.size
    /\ \A i \in Slot : a.meta[i] \in a.disk.meta[i]
    /\ \A i \in Slot : \A r \in a.disk.meta[i] : r.revision % 2 = i

\* The pages of an intact root are on disk, and no chain has been written over its tree.
RootsKept(a) ==
    \A i \in Slot : \A r \in a.disk.meta[i] :
       /\ r # Zero => Apart(r)
       /\ Intact(r) => /\ a.unflushed \intersect (r.live \union r.chain) = {}
                       /\ a.chainBytes \intersect r.live = {}

\* The newer of two intact roots uses no page in the chain of the older one.
Ordered(a) ==
    \A i \in Slot : \A n \in a.disk.meta[i], o \in a.disk.meta[1 - i] :
       Intact(n) /\ Intact(o) /\ n.revision >= o.revision => o.chain \intersect InUse(n) = {}

\* Whatever the disk holds, the root that recovery takes fits it, and no page that the
\* root still counts as retired has become a chain.
Fitting(a) ==
    \A n \in Openable(a) :
       /\ n # Zero
       /\ \A size \in a.disk.size : Fits(n, size)
       /\ Intact(n) => a.chainBytes \intersect RetiredIds(n) = {}

Roots(a) == Held(a) /\ RootsKept(a) /\ Ordered(a) /\ Fitting(a)

\* What the running tree, or the one that a rollback restores, shares with the roots.
Kept(t, a) ==
    /\ Apart(t)
    /\ a.chainBytes \intersect (t.live \union RetiredIds(t)) = {}
    /\ a.stale \intersect (t.live \union t.chain \union RetiredIds(t)) = {}
    /\ \A i \in Slot : \A s \in a.disk.meta[i] :
          Intact(s) => /\ s.chain \intersect InUse(t) = {}
                       /\ s # a.meta[i] => s.chain \intersect Listed(t) = {}
    /\ \A i \in Slot : a.meta[i].revision <= t.revision

\* The ids that a root counts as retired are below nextPage still.
Ahead(t, a) == \A n \in Openable(a) : RetiredIds(n) \subseteq Listed(t)

\* What the next Sync flushes covers the pages that are not on disk, and those that the
\* disk may have no room for.
Covered(t, dirty, a) ==
    /\ a.unflushed \intersect (t.live \union t.chain) \subseteq dirty
    /\ \A id \in Listed(t), size \in a.disk.size : id >= size => id \in dirty

\* No root reaches beyond the capacity.
Reach(a, n) == \A r \in Openable(a) : r.nextPage <= n

----------------------------------------------------------------------------
(* Roots *)

LEMMA ZeroIsNoRecord == Zero \notin MetaRecord
BY Bounds DEF Zero, MetaRecord, Revision

LEMMA RootRevision ==
    ASSUME NEW r \in Root
    PROVE  r.revision \in Int /\ r.revision >= -1 /\ (r # Zero => r \in MetaRecord /\ r.revision >= 0)
BY Bounds, ZeroIsNoRecord DEF Root, Zero, MetaRecord, Revision

\* What spoiling a root changes.
LEMMA SpoiltIs ==
    ASSUME NEW r \in Root, NEW ids
    PROVE  LET s == Spoilt(r, ids)
           IN /\ s \in Root /\ s.revision = r.revision
              /\ s = Zero <=> r = Zero
              /\ r # Zero => /\ s.live = r.live /\ s.free = r.free /\ s.retired = r.retired
                             /\ s.chain = r.chain /\ s.nextPage = r.nextPage
                             /\ s.maxPages = r.maxPages
              /\ Intact(s) => Intact(r) /\ ids \intersect (r.live \union r.chain) = {}
<1>1. CASE r = Zero
  <2>1. Spoilt(r, ids) = r
    BY <1>1 DEF Spoilt, Owned
  <2> QED
    BY <1>1, <2>1 DEF Root, Intact
<1>2. CASE r # Zero /\ ids \intersect Owned(r) = {}
  BY <1>2 DEF Spoilt, Owned, Root
<1>3. CASE r # Zero /\ ids \intersect Owned(r) # {}
  <2>1. Spoilt(r, ids) = [r EXCEPT !.spoilt = TRUE] /\ r \in MetaRecord
    BY <1>3 DEF Spoilt, Root
  <2>2. LET s == [r EXCEPT !.spoilt = TRUE]
        IN /\ s \in MetaRecord /\ s.revision = r.revision
           /\ s.live = r.live /\ s.free = r.free /\ s.retired = r.retired
           /\ s.chain = r.chain /\ s.nextPage = r.nextPage
           /\ s.maxPages = r.maxPages /\ s.spoilt = TRUE
    BY <2>1 DEF MetaRecord
  <2> QED
    BY <1>3, <2>1, <2>2, ZeroIsNoRecord DEF Root, Intact
<1> QED
  BY <1>1, <1>2, <1>3

LEMMA NewerIs ==
    ASSUME NEW r \in Root, NEW s \in Root
    PROVE  /\ Newer(r, s) \in {r, s}
           /\ Newer(r, s).revision >= r.revision
           /\ Newer(r, s).revision >= s.revision
BY RootRevision DEF Newer

LEMMA ArenaFields ==
    ASSUME NEW a, ArenaTyped(a)
    PROVE  /\ a.file \in Size /\ a.capacity \in Nat /\ a.mapped \in Nat
           /\ a.disk.size \subseteq Size
           /\ \A i \in Slot : a.meta[i] \in Root /\ a.disk.meta[i] \subseteq Root
           /\ a.disk.meta[0] \subseteq MetaRecord /\ a.meta[0] \in MetaRecord
           /\ Openable(a) \subseteq Root
<1>1. /\ a.file \in Size /\ a.capacity \in Nat /\ a.mapped \in Nat
      /\ a.disk.size \subseteq Size
      /\ \A i \in Slot : a.meta[i] \in Root /\ a.disk.meta[i] \subseteq Root
      /\ a.disk.meta[0] \subseteq MetaRecord /\ a.meta[0] \in MetaRecord
  BY DEF ArenaTyped, ArenaRecord, Root
<1>2. Openable(a) \subseteq Root
  BY <1>1 DEF Openable, Newer, Slot
<1> QED
  BY <1>1, <1>2

----------------------------------------------------------------------------
(* Calls that write no page *)

\* After a call that writes no page the disk holds no root that it did not hold before,
\* and no size below k that it did not have before.
Calmer(b, a, k) ==
    /\ ArenaTyped(b)
    /\ b.meta = a.meta /\ b.chainBytes = a.chainBytes
    /\ b.unflushed \subseteq a.unflushed /\ b.stale \subseteq a.stale
    /\ \A i \in Slot : b.meta[i] \in b.disk.meta[i] /\ b.disk.meta[i] \subseteq a.disk.meta[i]
    /\ b.file \in b.disk.size
    /\ \A size \in b.disk.size : size \in a.disk.size \/ size >= k

\* The disk holds just what the file holds.
Flushed(a) ==
    /\ a.unflushed = {}
    /\ a.disk.size = {a.file}
    /\ \A i \in Slot : a.disk.meta[i] = {a.meta[i]}

LEMMA CalmerRefl ==
    ASSUME NEW a, ArenaTyped(a), Held(a), NEW k
    PROVE  Calmer(a, a, k)
BY DEF Calmer, Held

LEMMA CalmerTrans ==
    ASSUME NEW a, NEW b, NEW c, NEW k, Calmer(b, a, k), Calmer(c, b, k)
    PROVE  Calmer(c, a, k)
BY DEF Calmer

LEMMA CalmerHeld ==
    ASSUME NEW a, Held(a), NEW b, NEW k, Calmer(b, a, k)
    PROVE  Held(b)
BY DEF Calmer, Held

LEMMA FsyncedFields ==
    ASSUME NEW a, ArenaTyped(a)
    PROVE  LET b == Fsynced(a)
           IN /\ ArenaTyped(b) /\ Flushed(b)
              /\ b.meta = a.meta /\ b.chainBytes = a.chainBytes
              /\ b.stale = a.stale /\ b.dirty = a.dirty
              /\ b.file = a.file /\ b.capacity = a.capacity /\ b.mapped = a.mapped
<1> DEFINE synced == [i \in Slot |-> {a.meta[i]}]
           disk == [size |-> {a.file}, meta |-> synced]
<1>1. a \in ArenaRecord
  BY DEF ArenaTyped
<1>2. \A i \in Slot : synced[i] = {a.meta[i]}
  OBVIOUS
<1> HIDE DEF synced
<1>3. disk.size = {a.file} /\ disk.meta = synced
  OBVIOUS
<1> HIDE DEF disk
<1>4. Fsynced(a) = [a EXCEPT !.unflushed = {}, !.disk = disk]
  BY DEF Fsynced, disk, synced
<1>5. LET b == Fsynced(a)
      IN /\ b.unflushed = {} /\ b.disk = disk
         /\ b.meta = a.meta /\ b.chainBytes = a.chainBytes
         /\ b.stale = a.stale /\ b.dirty = a.dirty
         /\ b.file = a.file /\ b.capacity = a.capacity /\ b.mapped = a.mapped
  BY <1>1, <1>4 DEF ArenaRecord
<1> QED
  BY <1>2, <1>3, <1>5, FsyncedMapped DEF Flushed

LEMMA TruncatedFields ==
    ASSUME NEW a, ArenaTyped(a), NEW size \in Size
    PROVE  LET b == Truncated(a, size)
           IN /\ ArenaTyped(b)
              /\ b.meta = a.meta /\ b.chainBytes = a.chainBytes /\ b.unflushed = a.unflushed
              /\ b.stale = a.stale /\ b.dirty = a.dirty
              /\ b.file = size /\ b.capacity = a.capacity /\ b.mapped = a.mapped
              /\ b.disk.meta = a.disk.meta /\ b.disk.size = a.disk.size \union {size}
<1>1. ArenaTyped(Truncated(a, size))
  BY TruncatedMapped
<1> QED
  BY <1>1 DEF ArenaTyped, ArenaRecord, Truncated

LEMMA FsyncedCalmer ==
    ASSUME NEW a, ArenaTyped(a), Held(a), NEW k
    PROVE  Calmer(Fsynced(a), a, k)
BY FsyncedFields DEF Calmer, Held, Flushed

LEMMA TruncatedCalmer ==
    ASSUME NEW a, ArenaTyped(a), Held(a), NEW size \in Size, NEW k, size >= k
    PROVE  Calmer(Truncated(a, size), a, k)
BY TruncatedFields DEF Calmer, Held

LEMMA UnresizedCalmer ==
    ASSUME NEW a, Mapped(a), Held(a), NEW capacity \in Nat, capacity >= a.capacity,
           NEW b \in Unresized(a, capacity)
    PROVE  /\ Calmer(b, a, a.capacity + FirstPage)
           /\ b.dirty = a.dirty
<1> DEFINE k == a.capacity + FirstPage
           truncated == Truncated(a, capacity + FirstPage)
           Like(c) == Calmer(c, a, k) /\ c.dirty = a.dirty
<1>1. /\ ArenaTyped(a) /\ a.capacity \in Nat /\ a.mapped \in Nat
      /\ a.capacity >= MinCapacity /\ a.capacity + FirstPage <= a.mapped
  BY DEF Mapped, ArenaTyped, ArenaRecord
<1>2. /\ capacity + FirstPage \in Size /\ a.mapped \in Size
      /\ capacity + FirstPage >= k /\ a.mapped >= k
  BY <1>1 DEF Size, MinCapacity, FirstPage
<1> HIDE DEF k
<1>3. ASSUME NEW c, Like(c), NEW size \in Size, size >= k
      PROVE  Like(Truncated(c, size))
  <2>1. ArenaTyped(c) /\ Held(c)
    BY <1>3, CalmerHeld DEF Calmer
  <2>2. Calmer(Truncated(c, size), c, k) /\ Truncated(c, size).dirty = c.dirty
    BY <1>3, <2>1, TruncatedCalmer, TruncatedFields
  <2> QED
    BY <1>3, <2>2, CalmerTrans
<1>4. ASSUME NEW c, Like(c)
      PROVE  Like(Fsynced(c))
  <2>1. ArenaTyped(c) /\ Held(c)
    BY <1>4, CalmerHeld DEF Calmer
  <2>2. Calmer(Fsynced(c), c, k) /\ Fsynced(c).dirty = c.dirty
    BY <2>1, FsyncedCalmer, FsyncedFields
  <2> QED
    BY <1>4, <2>2, CalmerTrans
<1>5. Like(a)
  BY <1>1, CalmerRefl
<1>6. Like(truncated)
  BY <1>2, <1>3, <1>5
<1>7. Like(Fsynced(truncated))
  BY <1>4, <1>6
<1>8. ASSUME NEW c, Like(c), b \in Restored(c, a.mapped)
      PROVE  Like(b)
  BY <1>2, <1>3, <1>4, <1>8 DEF Restored
<1>9. \/ b = a
      \/ b \in Restored(truncated, a.mapped)
      \/ b \in Restored(Fsynced(truncated), a.mapped)
  BY DEF Unresized
<1> HIDE DEF Like, truncated
<1>10. Like(b)
  BY <1>5, <1>6, <1>7, <1>8, <1>9
<1> QED
  BY <1>10 DEF Like, k

\* A growth moves the slices of all pages, and flushes.
LEMMA RemappedCalmer ==
    ASSUME NEW a, ArenaTyped(a), Held(a), NEW capacity \in Nat, capacity >= MinCapacity,
           NEW k, capacity + FirstPage >= k
    PROVE  LET b == Remapped(a, capacity)
           IN Calmer(b, a, k) /\ Flushed(b) /\ b.dirty = a.dirty /\ b.stale = {}
<1> DEFINE c == Truncated(a, capacity + FirstPage)
           f == Fsynced(c)
<1>1. capacity + FirstPage \in Size /\ capacity + FirstPage \in Nat
  BY DEF Size, MinCapacity, FirstPage
<1>2. ArenaTyped(c) /\ Calmer(c, a, k) /\ c.dirty = a.dirty
  BY <1>1, TruncatedCalmer, TruncatedFields
<1>3. Held(c)
  BY <1>2, CalmerHeld
<1> HIDE DEF c
<1>4. ArenaTyped(f) /\ Calmer(f, c, k) /\ Flushed(f) /\ f.dirty = a.dirty
  BY <1>2, <1>3, FsyncedCalmer, FsyncedFields
<1>5. Calmer(f, a, k)
  BY <1>2, <1>4, CalmerTrans
<1> DEFINE b == [f EXCEPT !.mapped = capacity + FirstPage, !.capacity = capacity, !.stale = {}]
<1>6. Remapped(a, capacity) = b
  BY DEF Remapped, c
<1>7. ArenaTyped(Remapped(a, capacity))
  BY RemappedMapped DEF Mapped
<1> HIDE DEF f
<1>8. /\ b.meta = f.meta /\ b.chainBytes = f.chainBytes /\ b.unflushed = f.unflushed
      /\ b.stale = {} /\ b.dirty = f.dirty /\ b.disk = f.disk /\ b.file = f.file
  BY <1>4 DEF ArenaTyped, ArenaRecord
<1> HIDE DEF b
<1> QED
  BY <1>4, <1>5, <1>6, <1>7, <1>8 DEF Calmer, Flushed

LEMMA DirtyFields ==
    ASSUME NEW a, ArenaTyped(a), NEW ids \in SUBSET PageID
    PROVE  LET b == [a EXCEPT !.dirty = ids]
           IN /\ ArenaTyped(b) /\ b.dirty = ids
              /\ b.meta = a.meta /\ b.chainBytes = a.chainBytes /\ b.unflushed = a.unflushed
              /\ b.stale = a.stale /\ b.disk = a.disk
              /\ b.file = a.file /\ b.capacity = a.capacity /\ b.mapped = a.mapped
BY DEF ArenaTyped, ArenaRecord

\* syncDataPages that succeeds has flushed every dirty page below nextPage.
LEMMA SyncDataIs ==
    ASSUME NEW a, ArenaTyped(a), Held(a), NEW n, NEW k, NEW o \in SyncDataPages(a, n)
    PROVE  /\ Calmer(o.arena, a, k)
           /\ o.ok => /\ o.arena.dirty = {}
                      /\ (\A id \in a.dirty : id >= n) \/ Flushed(o.arena)
           /\ ~o.ok => o.arena = a
<1> DEFINE kept == [a EXCEPT !.dirty = {}]
           f == Fsynced(a)
           flushed == [f EXCEPT !.dirty = {}]
<1>1. \/ o = Ok(kept, FALSE) /\ \A id \in a.dirty : id >= n
      \/ o = Ok(flushed, FALSE)
      \/ o = Failed(a)
  BY DEF SyncDataPages
<1>2. Calmer(a, a, k)
  BY CalmerRefl
<1>3. Calmer(kept, a, k) /\ kept.dirty = {}
  <2>1. LET b == kept
        IN /\ ArenaTyped(b) /\ b.dirty = {}
           /\ b.meta = a.meta /\ b.chainBytes = a.chainBytes /\ b.unflushed = a.unflushed
           /\ b.stale = a.stale /\ b.disk = a.disk /\ b.file = a.file
    BY DirtyFields
  <2> HIDE DEF kept
  <2> QED
    BY <1>2, <2>1 DEF Calmer
<1>4. Calmer(flushed, a, k) /\ Flushed(flushed) /\ flushed.dirty = {}
  <2>1. ArenaTyped(f) /\ Calmer(f, a, k) /\ Flushed(f)
    BY FsyncedCalmer, FsyncedFields
  <2> HIDE DEF f
  <2>2. LET b == flushed
        IN /\ ArenaTyped(b) /\ b.dirty = {}
           /\ b.meta = f.meta /\ b.chainBytes = f.chainBytes /\ b.unflushed = f.unflushed
           /\ b.stale = f.stale /\ b.disk = f.disk /\ b.file = f.file
    BY <2>1, DirtyFields
  <2> HIDE DEF flushed
  <2> QED
    BY <2>1, <2>2 DEF Calmer, Flushed
<1> HIDE DEF kept, flushed
<1>5. CASE o = Ok(kept, FALSE) /\ \A id \in a.dirty : id >= n
  <2>1. o.ok = TRUE /\ o.arena = kept
    BY <1>5 DEF Ok
  <2> QED
    BY <1>3, <1>5, <2>1, Zenon
<1>6. CASE o = Ok(flushed, FALSE)
  <2>1. o.ok = TRUE /\ o.arena = flushed
    BY <1>6 DEF Ok
  <2> QED
    BY <1>4, <2>1, Zenon
<1>7. CASE o = Failed(a)
  <2>1. o.ok = FALSE /\ o.arena = a
    BY <1>7 DEF Failed
  <2> QED
    BY <1>2, <2>1, Zenon
<1> QED
  BY <1>1, <1>5, <1>6, <1>7

\* A growth that succeeds leaves the file as it is, or has flushed and moved it.
LEMMA GrowIs ==
    ASSUME NEW a, Mapped(a), Held(a), NEW n \in Nat, n <= a.capacity + FirstPage,
           NEW o \in GrowMmapForPage(a, n)
    PROVE  /\ Calmer(o.arena, a, a.capacity + FirstPage)
           /\ o.ok => \/ o.arena = a /\ o.moved = FALSE
                      \/ Flushed(o.arena) /\ o.arena.stale = {}
<1> DEFINE k == a.capacity + FirstPage
<1>0. ArenaTyped(a) /\ a.capacity \in Nat /\ a.capacity >= MinCapacity /\ k \in Nat
  BY DEF Mapped, ArenaTyped, ArenaRecord, FirstPage
<1>1. CASE n < a.capacity + FirstPage
  <2>1. o = Ok(a, FALSE)
    BY <1>1 DEF GrowMmapForPage
  <2>2. o.arena = a /\ o.moved = FALSE
    BY <2>1 DEF Ok
  <2> QED
    BY <1>0, <2>2, CalmerRefl
<1>2. CASE ~(n < a.capacity + FirstPage)
  <2> DEFINE capacity == GrownCapacity(a.capacity, n)
  <2>1. n = a.capacity + FirstPage
    BY <1>0, <1>2 DEF FirstPage
  <2>2. capacity \in Nat /\ capacity > a.capacity
    BY <1>0, <2>1, GrownIsEnough
  <2>3. PICK s \in SyncDataPages(a, n) :
           \/ ~s.ok /\ o = s
           \/ s.ok /\ o = Ok(Remapped(s.arena, capacity), TRUE)
           \/ s.ok /\ \E b \in Unresized(s.arena, capacity) : o = Failed(b)
    BY <1>2 DEF GrowMmapForPage
  <2>4. Mapped(s.arena) /\ s.arena.capacity = a.capacity
    BY SyncDataMapped DEF SameSizes
  <2>5. Calmer(s.arena, a, k)
    BY <1>0, SyncDataIs
  <2>6. Held(s.arena) /\ ArenaTyped(s.arena)
    BY <2>4, <2>5, CalmerHeld DEF Mapped
  <2> HIDE DEF capacity
  <2>7. CASE ~s.ok /\ o = s
    BY <2>5, <2>7
  <2>8. CASE o = Ok(Remapped(s.arena, capacity), TRUE)
    <3> DEFINE b == Remapped(s.arena, capacity)
    <3>1. capacity >= MinCapacity /\ capacity + FirstPage >= k
      BY <1>0, <2>2 DEF MinCapacity, FirstPage
    <3>2. Calmer(b, s.arena, k) /\ Flushed(b) /\ b.stale = {}
      BY <2>2, <2>6, <3>1, RemappedCalmer
    <3>3. o.arena = b
      BY <2>8 DEF Ok
    <3> QED
      BY <2>5, <3>2, <3>3, CalmerTrans
  <2>9. CASE \E b \in Unresized(s.arena, capacity) : o = Failed(b)
    <3>1. PICK b \in Unresized(s.arena, capacity) : o = Failed(b)
      BY <2>9
    <3>2. Calmer(b, s.arena, k)
      <4>1. capacity >= s.arena.capacity
        BY <1>0, <2>2, <2>4
      <4> QED
        BY <2>2, <2>4, <2>6, <4>1, UnresizedCalmer
    <3>3. o.arena = b /\ o.ok = FALSE
      BY <3>1 DEF Failed
    <3>4. Calmer(b, a, k)
      BY <2>5, <3>2, CalmerTrans
    <3> QED
      BY <3>3, <3>4, Zenon
  <2> QED
    BY <2>3, <2>7, <2>8, <2>9
<1> QED
  BY <1>1, <1>2

LEMMA CalmerOpenable ==
    ASSUME NEW a, NEW b, NEW k, Calmer(b, a, k)
    PROVE  Openable(b) \subseteq Openable(a)
<1>1. b.disk.meta[0] \subseteq a.disk.meta[0] /\ b.disk.meta[1] \subseteq a.disk.meta[1]
  BY DEF Calmer, Slot
<1> QED
  BY <1>1 DEF Openable

LEMMA CalmerRoots ==
    ASSUME NEW a, ArenaTyped(a), Roots(a), NEW k \in Nat, Reach(a, k), NEW b, Calmer(b, a, k)
    PROVE  Roots(b) /\ (\A n : Reach(a, n) => Reach(b, n))
<1>1. Openable(b) \subseteq Openable(a)
  BY CalmerOpenable
<1>2. Held(b)
  BY CalmerHeld DEF Roots
<1>3. RootsKept(b)
  BY DEF Roots, RootsKept, Calmer
<1>4. Ordered(b)
  <2> SUFFICES ASSUME NEW i \in Slot, NEW n \in b.disk.meta[i], NEW o \in b.disk.meta[1 - i],
                      Intact(n), Intact(o), n.revision >= o.revision
               PROVE  o.chain \intersect InUse(n) = {}
    BY DEF Ordered
  <2>1. 1 - i \in Slot
    BY DEF Slot
  <2>2. n \in a.disk.meta[i] /\ o \in a.disk.meta[1 - i]
    BY <2>1 DEF Calmer
  <2> QED
    BY <2>2 DEF Roots, Ordered
<1>5. Fitting(b)
  <2> SUFFICES ASSUME NEW n \in Openable(b)
               PROVE  /\ n # Zero
                      /\ \A size \in b.disk.size : Fits(n, size)
                      /\ Intact(n) => b.chainBytes \intersect RetiredIds(n) = {}
    BY DEF Fitting
  <2>1. /\ n \in Openable(a) /\ n # Zero /\ n \in Root
        /\ \A size \in a.disk.size : Fits(n, size)
        /\ Intact(n) => a.chainBytes \intersect RetiredIds(n) = {}
    BY <1>1, ArenaFields DEF Roots, Fitting
  <2>2. ASSUME NEW size \in b.disk.size PROVE Fits(n, size)
    <3>1. size \in a.disk.size \/ size >= k
      BY DEF Calmer
    <3>2. n \in MetaRecord /\ n.nextPage \in Nat /\ n.nextPage <= k
      BY <2>1, Bounds DEF Root, Reach, MetaRecord, FirstPage
    <3>3. Fits(n, a.file) /\ size \in Nat
      BY <2>1, ArenaFields DEF Roots, Held, Calmer, Size
    <3>4. CASE size >= k
      BY <3>2, <3>3, <3>4 DEF Fits
    <3> QED
      BY <2>1, <3>1, <3>4
  <2> QED
    BY <2>1, <2>2 DEF Calmer
<1> QED
  BY <1>1, <1>2, <1>3, <1>4, <1>5 DEF Roots, Reach

LEMMA CalmerKept ==
    ASSUME NEW a, NEW t, Kept(t, a), NEW k, NEW b, Calmer(b, a, k)
    PROVE  Kept(t, b) /\ (Ahead(t, a) => Ahead(t, b))
<1>1. Openable(b) \subseteq Openable(a)
  BY CalmerOpenable
<1> QED
  BY <1>1 DEF Kept, Ahead, Calmer

\* The ids of a tree are below a capacity that covers its nextPage.
LEMMA CalmerCovered ==
    ASSUME NEW a, ArenaTyped(a), NEW t \in TreeRecord, NEW ids, Covered(t, ids, a),
           NEW k \in Nat, t.nextPage <= k, NEW b, Calmer(b, a, k)
    PROVE  Covered(t, ids, b)
<1> SUFFICES ASSUME NEW id \in Listed(t), NEW size \in b.disk.size, id >= size
             PROVE  id \in ids
  BY DEF Covered, Calmer
<1>1. size \in a.disk.size \/ size >= k
  BY DEF Calmer
<1>2. t.nextPage \in Nat /\ id \in Nat /\ id < t.nextPage
  BY Bounds DEF TreeRecord, Listed, FirstPage
<1>3. size \in Nat
  BY ArenaFields DEF Calmer, Size
<1>4. size \in a.disk.size
  BY <1>1, <1>2, <1>3
<1> QED
  BY <1>4 DEF Covered

\* After a flush nothing is left that the dirty set has to cover.
LEMMA FlushedCovered ==
    ASSUME NEW b, Mapped(b), Flushed(b), NEW t \in TreeRecord, Below(t, b), NEW ids
    PROVE  Covered(t, ids, b)
<1>1. b.unflushed = {} /\ b.disk.size = {b.file}
  BY DEF Flushed
<1>2. /\ b.file \in Nat /\ b.capacity \in Nat /\ b.capacity + FirstPage <= b.file
      /\ t.nextPage <= b.capacity + FirstPage
  BY ArenaFields DEF Mapped, Size, Below
<1>3. ASSUME NEW id \in Listed(t) PROVE ~(id >= b.file)
  BY <1>2, Bounds DEF Listed, TreeRecord, FirstPage
<1> QED
  BY <1>1, <1>3 DEF Covered

----------------------------------------------------------------------------
(* Pages written *)

\* Pages are written, as pages of a tree or of a chain, or are punched.
Marked(b, a, ids) ==
    /\ \A i \in Slot : /\ b.meta[i] = Spoilt(a.meta[i], ids)
                       /\ b.disk.meta[i] = {Spoilt(r, ids) : r \in a.disk.meta[i]}
    /\ b.chainBytes \subseteq a.chainBytes \union ids
    /\ b.unflushed \subseteq a.unflushed \union ids
    /\ b.stale \subseteq a.stale
    /\ b.file = a.file /\ b.disk.size = a.disk.size

LEMMA MarkedOpenable ==
    ASSUME NEW a, ArenaTyped(a), NEW ids, NEW b, Marked(b, a, ids), NEW n \in Openable(b)
    PROVE  \E o \in Openable(a) : n = Spoilt(o, ids)
<1>1. PICK r \in a.disk.meta[0], s \in a.disk.meta[1] : n = Newer(Spoilt(r, ids), Spoilt(s, ids))
  BY DEF Openable, Marked, Slot
<1>2. r \in Root /\ s \in Root
  BY ArenaFields DEF Slot
<1>3. Spoilt(r, ids).revision = r.revision /\ Spoilt(s, ids).revision = s.revision
  BY <1>2, SpoiltIs
<1>4. n = Spoilt(Newer(r, s), ids)
  BY <1>1, <1>3 DEF Newer
<1> QED
  BY <1>4 DEF Openable

LEMMA MarkedRoots ==
    ASSUME NEW a, ArenaTyped(a), Roots(a), NEW ids, NEW b, Marked(b, a, ids),
           \A n \in Openable(a) : (b.chainBytes \ a.chainBytes) \intersect RetiredIds(n) = {}
    PROVE  Roots(b) /\ (\A k : Reach(a, k) => Reach(b, k))
<1>1. \A i \in Slot : a.meta[i] \in Root /\ a.disk.meta[i] \subseteq Root
  BY ArenaFields
<1>2. ASSUME NEW i \in Slot, NEW s \in b.disk.meta[i]
      PROVE  \E r \in a.disk.meta[i] : r \in Root /\ s = Spoilt(r, ids)
  BY <1>1, <1>2 DEF Marked
<1>3. Held(b)
  <2>1. ASSUME NEW i \in Slot PROVE b.meta[i] \in b.disk.meta[i]
    BY DEF Marked, Roots, Held
  <2>2. ASSUME NEW i \in Slot, NEW s \in b.disk.meta[i] PROVE s.revision % 2 = i
    <3>1. PICK r \in a.disk.meta[i] : r \in Root /\ s = Spoilt(r, ids)
      BY <1>2
    <3>2. s.revision = r.revision
      BY <3>1, SpoiltIs
    <3> QED
      BY <3>2 DEF Roots, Held
  <2> QED
    BY <2>1, <2>2 DEF Held, Marked, Roots
<1>4. RootsKept(b)
  <2> SUFFICES ASSUME NEW i \in Slot, NEW s \in b.disk.meta[i]
               PROVE  /\ s # Zero => Apart(s)
                      /\ Intact(s) => /\ b.unflushed \intersect (s.live \union s.chain) = {}
                                      /\ b.chainBytes \intersect s.live = {}
    BY DEF RootsKept
  <2>1. PICK r \in a.disk.meta[i] : r \in Root /\ s = Spoilt(r, ids)
    BY <1>2
  <2>2. /\ r # Zero => Apart(r)
        /\ Intact(r) => /\ a.unflushed \intersect (r.live \union r.chain) = {}
                        /\ a.chainBytes \intersect r.live = {}
    BY DEF Roots, RootsKept
  <2>3. s # Zero => Apart(s)
    BY <2>1, <2>2, SpoiltIs DEF Apart, InUse, RetiredIds, Listed
  <2>4. ASSUME Intact(s)
        PROVE  /\ b.unflushed \intersect (s.live \union s.chain) = {}
               /\ b.chainBytes \intersect s.live = {}
    <3>1. /\ Intact(r) /\ ids \intersect (r.live \union r.chain) = {}
          /\ s.live = r.live /\ s.chain = r.chain
      BY <2>1, <2>4, SpoiltIs DEF Intact
    <3> QED
      BY <2>2, <3>1 DEF Marked
  <2> QED
    BY <2>3, <2>4
<1>5. Ordered(b)
  <2> SUFFICES ASSUME NEW i \in Slot, NEW n \in b.disk.meta[i], NEW o \in b.disk.meta[1 - i],
                      Intact(n), Intact(o), n.revision >= o.revision
               PROVE  o.chain \intersect InUse(n) = {}
    BY DEF Ordered
  <2>1. 1 - i \in Slot
    BY DEF Slot
  <2>2. PICK r \in a.disk.meta[i] : r \in Root /\ n = Spoilt(r, ids)
    BY <1>2
  <2>3. PICK s \in a.disk.meta[1 - i] : s \in Root /\ o = Spoilt(s, ids)
    BY <1>2, <2>1
  <2>4. Intact(r) /\ n.revision = r.revision /\ InUse(n) = InUse(r)
    BY <2>2, SpoiltIs DEF Intact, InUse, RetiredIds
  <2>5. Intact(s) /\ o.revision = s.revision /\ o.chain = s.chain
    BY <2>3, SpoiltIs DEF Intact
  <2> QED
    BY <2>4, <2>5 DEF Roots, Ordered
<1>6. ASSUME NEW n \in Openable(b)
      PROVE  \E o \in Openable(a) : /\ o \in Root /\ o # Zero /\ n # Zero
                                    /\ n.nextPage = o.nextPage /\ n.maxPages = o.maxPages
                                    /\ Intact(n) => Intact(o) /\ RetiredIds(n) = RetiredIds(o)
  <2>1. PICK o \in Openable(a) : n = Spoilt(o, ids)
    BY MarkedOpenable
  <2>2. o \in Root /\ o # Zero
    BY ArenaFields DEF Roots, Fitting
  <2> QED
    BY <2>1, <2>2, SpoiltIs DEF RetiredIds
<1>7. Fitting(b)
  <2> SUFFICES ASSUME NEW n \in Openable(b)
               PROVE  /\ n # Zero
                      /\ \A size \in b.disk.size : Fits(n, size)
                      /\ Intact(n) => b.chainBytes \intersect RetiredIds(n) = {}
    BY DEF Fitting
  <2>1. PICK o \in Openable(a) : /\ o \in Root /\ o # Zero /\ n # Zero
                                 /\ n.nextPage = o.nextPage /\ n.maxPages = o.maxPages
                                 /\ Intact(n) => Intact(o) /\ RetiredIds(n) = RetiredIds(o)
    BY <1>6
  <2>2. /\ \A size \in a.disk.size : Fits(o, size)
        /\ Intact(o) => a.chainBytes \intersect RetiredIds(o) = {}
    BY DEF Roots, Fitting
  <2>3. (b.chainBytes \ a.chainBytes) \intersect RetiredIds(o) = {}
    OBVIOUS
  <2> QED
    BY <2>1, <2>2, <2>3 DEF Marked, Fits
<1>8. ASSUME NEW k, Reach(a, k) PROVE Reach(b, k)
  BY <1>6, <1>8 DEF Reach
<1> QED
  BY <1>3, <1>4, <1>5, <1>7, <1>8 DEF Roots

\* A tree whose pages are none of those keeps what it had.
LEMMA MarkedKept ==
    ASSUME NEW a, ArenaTyped(a), Roots(a), NEW ids, NEW b, Marked(b, a, ids),
           NEW t, Kept(t, a),
           (b.chainBytes \ a.chainBytes) \intersect (t.live \union RetiredIds(t)) = {}
    PROVE  Kept(t, b) /\ (Ahead(t, a) => Ahead(t, b))
<1>1. \A i \in Slot : a.meta[i] \in Root /\ a.disk.meta[i] \subseteq Root
  BY ArenaFields
<1>2. ASSUME NEW i \in Slot, NEW s \in b.disk.meta[i], Intact(s)
      PROVE  /\ s.chain \intersect InUse(t) = {}
             /\ s # b.meta[i] => s.chain \intersect Listed(t) = {}
  <2>1. PICK r \in a.disk.meta[i] : r \in Root /\ s = Spoilt(r, ids)
    BY <1>1, <1>2 DEF Marked
  <2>2. Intact(r) /\ s.chain = r.chain
    BY <1>2, <2>1, SpoiltIs DEF Intact
  <2>3. s # b.meta[i] => r # a.meta[i]
    BY <2>1 DEF Marked
  <2> QED
    BY <2>2, <2>3 DEF Kept
<1>3. ASSUME NEW i \in Slot PROVE b.meta[i].revision <= t.revision
  <2>1. b.meta[i].revision = a.meta[i].revision
    BY <1>1, SpoiltIs DEF Marked
  <2> QED
    BY <2>1 DEF Kept
<1>4. Kept(t, b)
  BY <1>2, <1>3 DEF Kept, Marked
<1>5. ASSUME Ahead(t, a) PROVE Ahead(t, b)
  <2> SUFFICES ASSUME NEW n \in Openable(b) PROVE RetiredIds(n) \subseteq Listed(t)
    BY DEF Ahead
  <2>1. PICK o \in Openable(a) : n = Spoilt(o, ids)
    BY MarkedOpenable
  <2>2. o \in Root /\ o # Zero
    BY ArenaFields DEF Roots, Fitting
  <2>3. RetiredIds(n) = RetiredIds(o)
    BY <2>1, <2>2, SpoiltIs DEF RetiredIds
  <2> QED
    BY <1>5, <2>3 DEF Ahead
<1> QED
  BY <1>4, <1>5

LEMMA MarkedCovered ==
    ASSUME NEW a, NEW ids, NEW b, Marked(b, a, ids), NEW t, NEW dirty, Covered(t, dirty, a),
           ids \intersect (t.live \union t.chain) \subseteq dirty
    PROVE  Covered(t, dirty, b)
BY DEF Covered, Marked

LEMMA OverwrittenFields ==
    ASSUME NEW a, ArenaTyped(a), NEW ids
    PROVE  LET b == Overwritten(a, ids)
           IN /\ ArenaTyped(b)
              /\ \A i \in Slot : /\ b.meta[i] = Spoilt(a.meta[i], ids)
                                 /\ b.disk.meta[i] = {Spoilt(r, ids) : r \in a.disk.meta[i]}
              /\ b.chainBytes = a.chainBytes \ ids /\ b.unflushed = a.unflushed
              /\ b.stale = a.stale /\ b.dirty = a.dirty /\ b.disk.size = a.disk.size
              /\ b.file = a.file /\ b.capacity = a.capacity /\ b.mapped = a.mapped
<1> DEFINE meta == [i \in Slot |-> Spoilt(a.meta[i], ids)]
           held == [i \in Slot |-> {Spoilt(r, ids) : r \in a.disk.meta[i]}]
           b == Overwritten(a, ids)
<1>1. /\ a \in ArenaRecord
      /\ a.meta \in [Slot -> MetaRecord \union {Zero}]
      /\ a.disk.meta \in [Slot -> SUBSET (MetaRecord \union {Zero})]
      /\ a.meta[0] \in MetaRecord /\ a.disk.meta[0] \subseteq MetaRecord
      /\ 0 \in Slot
  BY DEF ArenaTyped, ArenaRecord, Slot
<1>2. meta \in [Slot -> MetaRecord \union {Zero}] /\ meta[0] \in MetaRecord
  BY <1>1, SpoiltTyped
<1>3. held \in [Slot -> SUBSET (MetaRecord \union {Zero})] /\ held[0] \subseteq MetaRecord
  BY <1>1, SpoiltTyped
<1>4. /\ \A i \in Slot : meta[i] = Spoilt(a.meta[i], ids)
      /\ \A i \in Slot : held[i] = {Spoilt(r, ids) : r \in a.disk.meta[i]}
  OBVIOUS
<1>5. b = [a EXCEPT !.meta = meta, !.disk.meta = held, !.chainBytes = @ \ ids]
  BY DEF Overwritten
<1> HIDE DEF meta, held, b
<1>6. /\ b \in ArenaRecord /\ b.meta = meta /\ b.disk.meta = held
      /\ b.chainBytes = a.chainBytes \ ids /\ b.unflushed = a.unflushed
      /\ b.stale = a.stale /\ b.dirty = a.dirty /\ b.disk.size = a.disk.size
      /\ b.capacity = a.capacity /\ b.mapped = a.mapped /\ b.file = a.file
  BY <1>1, <1>2, <1>3, <1>5 DEF ArenaRecord
<1>7. ArenaTyped(b)
  BY <1>2, <1>3, <1>6 DEF ArenaTyped
<1> QED
  BY <1>4, <1>6, <1>7 DEF b

\* newPage and its write.
LEMMA WrittenFields ==
    ASSUME NEW a, ArenaTyped(a), NEW ids \in SUBSET PageID
    PROVE  LET b == Written(a, ids)
           IN /\ ArenaTyped(b) /\ Marked(b, a, ids)
              /\ b.chainBytes = a.chainBytes \ ids /\ b.unflushed = a.unflushed \union ids
              /\ b.stale = a.stale \ ids /\ b.dirty = a.dirty \union ids
              /\ b.file = a.file /\ b.capacity = a.capacity /\ b.mapped = a.mapped
<1> DEFINE c == Overwritten(a, ids)
           b == [c EXCEPT !.stale = @ \ ids, !.dirty = @ \union ids, !.unflushed = @ \union ids]
<1>1. /\ ArenaTyped(c)
      /\ \A i \in Slot : /\ c.meta[i] = Spoilt(a.meta[i], ids)
                         /\ c.disk.meta[i] = {Spoilt(r, ids) : r \in a.disk.meta[i]}
      /\ c.chainBytes = a.chainBytes \ ids /\ c.unflushed = a.unflushed
      /\ c.stale = a.stale /\ c.dirty = a.dirty /\ c.disk.size = a.disk.size
      /\ c.file = a.file /\ c.capacity = a.capacity /\ c.mapped = a.mapped
  BY OverwrittenFields
<1>2. Written(a, ids) = b
  BY DEF Written
<1> HIDE DEF c
<1>3. /\ b \in ArenaRecord /\ b.meta = c.meta /\ b.disk = c.disk
      /\ b.chainBytes = c.chainBytes /\ b.unflushed = c.unflushed \union ids
      /\ b.stale = c.stale \ ids /\ b.dirty = c.dirty \union ids
      /\ b.file = c.file /\ b.capacity = c.capacity /\ b.mapped = c.mapped
  BY <1>1 DEF ArenaTyped, ArenaRecord
<1> HIDE DEF b
<1>4. ArenaTyped(b)
  BY <1>1, <1>3 DEF ArenaTyped
<1>5. Marked(b, a, ids)
  BY <1>1, <1>3 DEF Marked
<1> QED
  BY <1>1, <1>2, <1>3, <1>4, <1>5

----------------------------------------------------------------------------
(* Publication *)

LEMMA RecordIs ==
    ASSUME NEW t \in TreeRecord, NEW a, Mapped(a)
    PROVE  LET r == Record(t, a)
           IN /\ r \in MetaRecord /\ r # Zero /\ Intact(r)
              /\ r.revision = t.revision /\ r.nextPage = t.nextPage /\ r.maxPages = a.capacity
              /\ r.live = t.live /\ r.free = t.free /\ r.retired = t.retired /\ r.chain = t.chain
              /\ InUse(r) = InUse(t) /\ RetiredIds(r) = RetiredIds(t) /\ Listed(r) = Listed(t)
              /\ Apart(t) => Apart(r)
<1> DEFINE r == Record(t, a)
<1>1. r \in MetaRecord
  BY RecordTyped
<1>2. /\ r.revision = t.revision /\ r.nextPage = t.nextPage /\ r.maxPages = a.capacity
      /\ r.live = t.live /\ r.free = t.free /\ r.retired = t.retired /\ r.chain = t.chain
      /\ r.spoilt = FALSE
  BY DEF Record
<1> HIDE DEF r
<1>3. r # Zero
  BY <1>1, ZeroIsNoRecord
<1>4. InUse(r) = InUse(t) /\ RetiredIds(r) = RetiredIds(t) /\ Listed(r) = Listed(t)
  BY <1>2 DEF InUse, RetiredIds, Listed
<1>5. Apart(t) => Apart(r)
  BY <1>2, <1>4 DEF Apart
<1> QED
  BY <1>1, <1>2, <1>3, <1>4, <1>5 DEF Intact, r

\* The meta page of a tree has been written, in slot i.
WroteFields(b, a, i, r) ==
    /\ ArenaTyped(b)
    /\ \A j \in Slot : b.meta[j] = IF j = i THEN r ELSE a.meta[j]
    /\ b.disk = a.disk
    /\ b.chainBytes = a.chainBytes /\ b.unflushed = a.unflushed /\ b.stale = a.stale
    /\ b.file = a.file /\ b.capacity = a.capacity /\ b.mapped = a.mapped

\* The sync of that meta page has failed.
LostFields(b, a, i, r) ==
    /\ ArenaTyped(b)
    /\ b.meta = a.meta
    /\ \A j \in Slot : b.disk.meta[j] = IF j = i THEN a.disk.meta[i] \union {r, a.meta[i]}
                                        ELSE a.disk.meta[j]
    /\ b.disk.size = a.disk.size
    /\ b.chainBytes = a.chainBytes /\ b.unflushed = a.unflushed
    /\ b.stale = a.stale /\ b.dirty = a.dirty
    /\ b.file = a.file /\ b.capacity = a.capacity /\ b.mapped = a.mapped

LEMMA SlotOfRevision ==
    ASSUME NEW t \in TreeRecord
    PROVE  t.revision \in Nat /\ t.revision % 2 \in Slot
<1>1. t.revision \in Nat
  BY Bounds DEF TreeRecord, Revision
<1> QED
  BY <1>1 DEF Slot

LEMMA PublishIs ==
    ASSUME NEW t \in TreeRecord, NEW a, Mapped(a), NEW m \in PublishMeta(t, a)
    PROVE  LET i == t.revision % 2
               r == Record(t, a)
           IN \/ m.ok /\ \E b : WroteFields(b, a, i, r) /\ m.arena = Fsynced(b)
              \/ ~m.ok /\ LostFields(m.arena, a, i, r)
<1> DEFINE i == t.revision % 2
           r == Record(t, a)
           wrote == [a EXCEPT !.meta[i] = r]
           lost == [a EXCEPT !.disk.meta[i] = @ \union {r, a.meta[i]}]
<1>1. /\ a \in ArenaRecord
      /\ a.meta \in [Slot -> MetaRecord \union {Zero}]
      /\ a.disk.meta \in [Slot -> SUBSET (MetaRecord \union {Zero})]
      /\ a.meta[0] \in MetaRecord /\ a.disk.meta[0] \subseteq MetaRecord
  BY DEF Mapped, ArenaTyped, ArenaRecord
<1>2. i \in Slot /\ r \in MetaRecord
  BY SlotOfRevision, RecordTyped
<1>3. m = Ok(Fsynced(wrote), FALSE) \/ m = Failed(lost)
  BY DEF PublishMeta
<1> HIDE DEF i, r
<1>4. WroteFields(wrote, a, i, r)
  <2> DEFINE meta == [a.meta EXCEPT ![i] = r]
  <2>1. /\ meta \in [Slot -> MetaRecord \union {Zero}] /\ meta[0] \in MetaRecord
        /\ \A j \in Slot : meta[j] = IF j = i THEN r ELSE a.meta[j]
    BY <1>1, <1>2 DEF Slot
  <2>2. wrote = [a EXCEPT !.meta = meta]
    BY <1>1
  <2> HIDE DEF meta, wrote
  <2>3. /\ wrote \in ArenaRecord /\ wrote.meta = meta /\ wrote.disk = a.disk
        /\ wrote.chainBytes = a.chainBytes /\ wrote.unflushed = a.unflushed
        /\ wrote.stale = a.stale
        /\ wrote.capacity = a.capacity /\ wrote.mapped = a.mapped /\ wrote.file = a.file
    BY <1>1, <2>1, <2>2 DEF ArenaRecord
  <2>4. ArenaTyped(wrote)
    BY <1>1, <2>1, <2>3 DEF ArenaTyped
  <2> QED
    BY <2>1, <2>3, <2>4 DEF WroteFields
<1>5. LostFields(lost, a, i, r)
  <2> DEFINE held == [a.disk.meta EXCEPT ![i] = @ \union {r, a.meta[i]}]
  <2>1. a.meta[i] \in MetaRecord \union {Zero} /\ a.disk.meta[i] \subseteq MetaRecord \union {Zero}
    BY <1>1, <1>2
  <2>2. /\ held \in [Slot -> SUBSET (MetaRecord \union {Zero})]
        /\ \A j \in Slot : held[j] = IF j = i THEN a.disk.meta[i] \union {r, a.meta[i]}
                                     ELSE a.disk.meta[j]
    BY <1>1, <1>2, <2>1
  <2>3. held[0] \subseteq MetaRecord
    BY <1>1, <1>2, <2>2 DEF Slot
  <2>4. lost = [a EXCEPT !.disk.meta = held]
    BY <1>1 DEF ArenaRecord
  <2> HIDE DEF held, lost
  <2>5. /\ lost \in ArenaRecord /\ lost.meta = a.meta /\ lost.disk.meta = held
        /\ lost.disk.size = a.disk.size
        /\ lost.chainBytes = a.chainBytes /\ lost.unflushed = a.unflushed
        /\ lost.stale = a.stale /\ lost.dirty = a.dirty
        /\ lost.capacity = a.capacity /\ lost.mapped = a.mapped /\ lost.file = a.file
    BY <1>1, <2>2, <2>4 DEF ArenaRecord
  <2>6. ArenaTyped(lost)
    BY <1>1, <2>3, <2>5 DEF ArenaTyped
  <2> QED
    BY <2>2, <2>5, <2>6 DEF LostFields
<1> HIDE DEF wrote, lost
<1>6. CASE m = Ok(Fsynced(wrote), FALSE)
  <2>1. m.ok = TRUE /\ m.arena = Fsynced(wrote)
    BY <1>6 DEF Ok
  <2>2. m.ok /\ \E b : WroteFields(b, a, i, r) /\ m.arena = Fsynced(b)
    BY <1>4, <2>1, Zenon
  <2> QED
    BY <2>2 DEF i, r
<1>7. CASE m = Failed(lost)
  <2>1. m.ok = FALSE /\ m.arena = lost
    BY <1>7 DEF Failed
  <2>2. ~m.ok /\ LostFields(m.arena, a, i, r)
    BY <1>5, <2>1, Zenon
  <2> QED
    BY <2>2 DEF i, r
<1> QED
  BY <1>3, <1>6, <1>7

\* What a tree must be like when its meta page is written: its pages are on disk, the disk
\* has room for it, and a new chain has gone through a flush of all that was pending.
Publishable(t, a) ==
    /\ Kept(t, a) /\ Below(t, a)
    /\ a.unflushed \intersect (t.live \union t.chain) = {}
    /\ \A size \in a.disk.size : t.nextPage <= size
    /\ t.chain # {} => Flushed(a)

LEMMA RecordFits ==
    ASSUME NEW t \in TreeRecord, NEW a, Mapped(a), Publishable(t, a), NEW size \in a.disk.size
    PROVE  Fits(Record(t, a), size)
<1>1. a.capacity \in Nat /\ a.capacity >= MinCapacity
  BY ArenaFields DEF Mapped
<1>2. t.nextPage \in Nat /\ t.nextPage >= FirstPage
  BY Bounds DEF TreeRecord, FirstPage
<1>3. t.nextPage <= a.capacity + FirstPage /\ t.nextPage <= size
  BY DEF Publishable, Below
<1>4. Record(t, a).maxPages = a.capacity /\ Record(t, a).nextPage = t.nextPage
  BY RecordIs
<1> QED
  BY <1>1, <1>2, <1>3, <1>4 DEF Fits, FirstPage

\* Two slots never hold the same revision.
LEMMA OtherSlot ==
    ASSUME NEW a, ArenaTyped(a), Held(a), NEW t \in TreeRecord, NEW i \in Slot,
           i = t.revision % 2, NEW s \in a.disk.meta[1 - i]
    PROVE  1 - i \in Slot /\ s.revision # t.revision
<1>1. 1 - i \in Slot /\ 1 - i # i
  BY DEF Slot
<1>2. s.revision % 2 = 1 - i
  BY <1>1 DEF Held
<1> QED
  BY <1>1, <1>2

\* A meta page whose sync failed is one more root that the disk may hold.
LEMMA LostOpenable ==
    ASSUME NEW t \in TreeRecord, NEW a, Mapped(a), Held(a), NEW i \in Slot, i = t.revision % 2,
           \A j \in Slot : a.meta[j].revision <= t.revision,
           NEW b, LostFields(b, a, i, Record(t, a)), NEW n \in Openable(b)
    PROVE  n \in Openable(a) \/ n = Record(t, a)
<1> DEFINE rec == Record(t, a)
<1>0. ArenaTyped(a) /\ t.revision \in Int /\ rec.revision = t.revision
  BY SlotOfRevision, RecordIs DEF Mapped
<1> HIDE DEF rec
<1>1. PICK r \in b.disk.meta[0], s \in b.disk.meta[1] : n = Newer(r, s)
  BY DEF Openable
<1>2. a.meta[0] \in a.disk.meta[0] /\ a.meta[1] \in a.disk.meta[1]
  BY DEF Held, Slot
<1>3. a.meta[0].revision <= t.revision /\ a.meta[1].revision <= t.revision
  BY DEF Slot
<1>4. a.meta[0].revision \in Int /\ a.meta[1].revision \in Int
  BY <1>0, ArenaFields, RootRevision DEF Slot
<1>5. CASE i = 0
  <2>1. s \in a.disk.meta[1] /\ (r \in a.disk.meta[0] \/ r = rec)
    BY <1>2, <1>5 DEF LostFields, Slot, rec
  <2>2. s.revision \in Int
    BY <1>0, <2>1, ArenaFields, RootRevision DEF Slot
  <2>3. CASE r = rec /\ ~(rec.revision >= s.revision)
    <3>1. n = Newer(a.meta[0], s)
      BY <1>0, <1>1, <1>3, <1>4, <2>2, <2>3 DEF Newer
    <3> QED
      BY <1>2, <2>1, <3>1 DEF Openable
  <2>4. CASE r = rec /\ rec.revision >= s.revision
    BY <1>1, <2>4 DEF Newer, rec
  <2>5. CASE r \in a.disk.meta[0]
    BY <1>1, <2>1, <2>5 DEF Openable
  <2> QED
    BY <2>1, <2>3, <2>4, <2>5
<1>6. CASE i = 1
  <2>1. r \in a.disk.meta[0] /\ (s \in a.disk.meta[1] \/ s = rec)
    BY <1>2, <1>6 DEF LostFields, Slot, rec
  <2>2. r.revision \in Int
    BY <1>0, <2>1, ArenaFields, RootRevision DEF Slot
  <2>3. CASE s = rec /\ r.revision >= rec.revision
    <3>1. n = Newer(r, a.meta[1])
      BY <1>0, <1>1, <1>3, <1>4, <2>2, <2>3 DEF Newer
    <3> QED
      BY <1>2, <2>1, <3>1 DEF Openable
  <2>4. CASE s = rec /\ ~(r.revision >= rec.revision)
    BY <1>1, <2>4 DEF Newer, rec
  <2>5. CASE s \in a.disk.meta[1]
    BY <1>1, <2>1, <2>5 DEF Openable
  <2> QED
    BY <2>1, <2>3, <2>4, <2>5
<1> QED
  BY <1>5, <1>6 DEF Slot

LEMMA LostRoots ==
    ASSUME NEW t \in TreeRecord, NEW a, Mapped(a), Roots(a), Publishable(t, a),
           NEW i \in Slot, i = t.revision % 2,
           NEW b, LostFields(b, a, i, Record(t, a))
    PROVE  Roots(b) /\ (\A k : Reach(a, k) /\ t.nextPage <= k => Reach(b, k))
<1> DEFINE rec == Record(t, a)
<1>1. /\ rec \in MetaRecord /\ rec # Zero /\ Intact(rec)
      /\ rec.revision = t.revision /\ rec.nextPage = t.nextPage
      /\ rec.live = t.live /\ rec.chain = t.chain
      /\ InUse(rec) = InUse(t) /\ RetiredIds(rec) = RetiredIds(t)
      /\ Apart(t) => Apart(rec)
  BY RecordIs
<1>2. ArenaTyped(a) /\ Held(a) /\ Kept(t, a)
  BY DEF Mapped, Roots, Publishable
<1>3. \A size \in a.disk.size : Fits(rec, size)
  BY RecordFits
<1>4. \A n \in Openable(b) : n \in Openable(a) \/ n = rec
  BY <1>2, LostOpenable DEF Kept
<1> HIDE DEF rec
<1>5. /\ b.meta = a.meta /\ b.disk.size = a.disk.size /\ b.chainBytes = a.chainBytes
      /\ b.unflushed = a.unflushed /\ b.file = a.file
      /\ \A j \in Slot : a.meta[j] \in a.disk.meta[j]
      /\ \A j \in Slot : \A s \in b.disk.meta[j] : s \in a.disk.meta[j] \/ (j = i /\ s = rec)
      /\ \A j \in Slot : a.disk.meta[j] \subseteq b.disk.meta[j]
  <2>1. \A j \in Slot : a.meta[j] \in a.disk.meta[j]
    BY <1>2 DEF Held
  <2>2. \A j \in Slot : b.disk.meta[j] = IF j = i THEN a.disk.meta[i] \union {rec, a.meta[i]}
                                         ELSE a.disk.meta[j]
    BY DEF LostFields, rec
  <2> QED
    BY <2>1, <2>2 DEF LostFields
<1>6. Held(b)
  <2>1. rec.revision % 2 = i
    BY <1>1
  <2> QED
    BY <1>2, <1>5, <2>1 DEF Held
<1>7. RootsKept(b)
  <2>1. /\ Apart(rec)
        /\ b.unflushed \intersect (rec.live \union rec.chain) = {}
        /\ b.chainBytes \intersect rec.live = {}
    BY <1>1, <1>2, <1>5 DEF Publishable, Kept
  <2> QED
    BY <1>5, <2>1 DEF Roots, RootsKept
<1>8. Ordered(b)
  <2> SUFFICES ASSUME NEW j \in Slot, NEW n \in b.disk.meta[j], NEW o \in b.disk.meta[1 - j],
                      Intact(n), Intact(o), n.revision >= o.revision
               PROVE  o.chain \intersect InUse(n) = {}
    BY DEF Ordered
  <2>1. 1 - j \in Slot /\ 1 - j # j /\ 1 - (1 - j) = j
    BY DEF Slot
  <2>2. CASE n \in a.disk.meta[j] /\ o \in a.disk.meta[1 - j]
    BY <2>2 DEF Roots, Ordered
  <2>3. CASE j = i /\ n = rec /\ o \in a.disk.meta[1 - j]
    BY <1>1, <1>2, <2>1, <2>3 DEF Kept
  <2>4. CASE 1 - j = i /\ o = rec /\ n \in a.disk.meta[j]
    <3>1. CASE t.chain = {}
      BY <1>1, <2>4, <3>1
    <3>2. CASE t.chain # {}
      <4>1. n = a.meta[j]
        BY <2>4, <3>2 DEF Publishable, Flushed
      <4>2. n.revision <= t.revision
        BY <1>2, <4>1 DEF Kept
      <4>3. n.revision # t.revision
        <5>1. j = 1 - i
          BY <2>1, <2>4
        <5> QED
          BY <1>2, <2>4, <5>1, OtherSlot
      <4>4. n.revision \in Int /\ t.revision \in Int
        BY <1>2, <4>1, ArenaFields, RootRevision, SlotOfRevision
      <4> QED
        BY <1>1, <2>4, <4>2, <4>3, <4>4
    <3> QED
      BY <3>1, <3>2
  <2> QED
    BY <1>5, <2>1, <2>2, <2>3, <2>4
<1>9. Fitting(b)
  <2>1. b.chainBytes \intersect RetiredIds(rec) = {}
    BY <1>1, <1>2, <1>5 DEF Kept
  <2> QED
    BY <1>1, <1>3, <1>4, <1>5, <2>1 DEF Roots, Fitting
<1>10. ASSUME NEW k, Reach(a, k), t.nextPage <= k PROVE Reach(b, k)
  BY <1>1, <1>4, <1>10 DEF Reach
<1> QED
  BY <1>6, <1>7, <1>8, <1>9, <1>10 DEF Roots

\* The tree that stays, which the chain of that root is no part of, keeps what it had.
LEMMA LostKept ==
    ASSUME NEW t \in TreeRecord, NEW a, Mapped(a), Held(a), NEW i \in Slot, i = t.revision % 2,
           NEW b, LostFields(b, a, i, Record(t, a)),
           NEW u, Kept(u, a), u.revision = t.revision, t.chain \intersect Listed(u) = {}
    PROVE  /\ Kept(u, b)
           /\ Ahead(u, a) /\ RetiredIds(t) \subseteq Listed(u) => Ahead(u, b)
<1> DEFINE rec == Record(t, a)
<1>1. rec.chain = t.chain /\ RetiredIds(rec) = RetiredIds(t)
  BY RecordIs
<1>2. \A n \in Openable(b) : n \in Openable(a) \/ n = rec
  BY LostOpenable DEF Kept
<1> HIDE DEF rec
<1>3. /\ b.meta = a.meta /\ b.chainBytes = a.chainBytes /\ b.stale = a.stale
      /\ \A j \in Slot : \A s \in b.disk.meta[j] : s \in a.disk.meta[j] \/ s = rec
  <2>1. \A j \in Slot : a.meta[j] \in a.disk.meta[j]
    BY DEF Held
  <2>2. \A j \in Slot : b.disk.meta[j] = IF j = i THEN a.disk.meta[i] \union {rec, a.meta[i]}
                                         ELSE a.disk.meta[j]
    BY DEF LostFields, rec
  <2> QED
    BY <2>1, <2>2 DEF LostFields
<1>4. rec.chain \intersect InUse(u) = {} /\ rec.chain \intersect Listed(u) = {}
  BY <1>1 DEF Kept, Apart
<1>5. Kept(u, b)
  BY <1>3, <1>4 DEF Kept
<1>6. ASSUME Ahead(u, a), RetiredIds(t) \subseteq Listed(u) PROVE Ahead(u, b)
  BY <1>1, <1>2, <1>6 DEF Ahead
<1> QED
  BY <1>5, <1>6

\* A meta page that is written and synced is the only root that recovery may take.
LEMMA DoneRoots ==
    ASSUME NEW t \in TreeRecord, NEW a, Mapped(a), Roots(a), Publishable(t, a),
           NEW i \in Slot, i = t.revision % 2,
           NEW b, WroteFields(b, a, i, Record(t, a)), NEW f, f = Fsynced(b)
    PROVE  /\ Roots(f) /\ Flushed(f) /\ Kept(t, f)
           /\ \A n \in Openable(f) : n.nextPage = t.nextPage /\ RetiredIds(n) = RetiredIds(t)
           /\ f.stale = a.stale
<1> DEFINE rec == Record(t, a)
<1>1. /\ rec \in MetaRecord /\ rec # Zero /\ Intact(rec)
      /\ rec.revision = t.revision /\ rec.nextPage = t.nextPage
      /\ rec.live = t.live /\ rec.chain = t.chain
      /\ InUse(rec) = InUse(t) /\ RetiredIds(rec) = RetiredIds(t)
      /\ Apart(t) => Apart(rec)
  BY RecordIs
<1>2. ArenaTyped(a) /\ Held(a) /\ Kept(t, a) /\ a.file \in a.disk.size
  BY DEF Mapped, Roots, Publishable, Held
<1>3. Fits(rec, a.file)
  BY <1>2, RecordFits
<1> HIDE DEF rec
<1>4. /\ ArenaTyped(f) /\ Flushed(f) /\ f.unflushed = {} /\ f.disk.size = {a.file}
      /\ f.chainBytes = a.chainBytes /\ f.stale = a.stale /\ f.file = a.file
      /\ \A j \in Slot : f.meta[j] = IF j = i THEN rec ELSE a.meta[j]
      /\ \A j \in Slot : f.disk.meta[j] = {f.meta[j]}
  <2>1. /\ ArenaTyped(b) /\ b.chainBytes = a.chainBytes /\ b.stale = a.stale /\ b.file = a.file
        /\ \A j \in Slot : b.meta[j] = IF j = i THEN rec ELSE a.meta[j]
    BY DEF WroteFields, rec
  <2>2. /\ ArenaTyped(f) /\ Flushed(f)
        /\ f.meta = b.meta /\ f.chainBytes = b.chainBytes /\ f.stale = b.stale /\ f.file = b.file
    BY <2>1, FsyncedFields
  <2> QED
    BY <2>1, <2>2 DEF Flushed
<1>5. /\ 1 - i \in Slot /\ 1 - i # i /\ Slot = {i, 1 - i}
      /\ \A j \in Slot : a.meta[j] \in a.disk.meta[j] /\ a.meta[j] \in Root
  BY <1>2, ArenaFields DEF Slot, Held
<1>6. a.meta[1 - i].revision \in Int /\ t.revision \in Int /\ a.meta[1 - i].revision < t.revision
  <2>1. a.meta[1 - i].revision # t.revision
    BY <1>2, <1>5, OtherSlot
  <2>2. a.meta[1 - i].revision <= t.revision
    BY <1>2, <1>5 DEF Kept
  <2> QED
    BY <1>5, <2>1, <2>2, RootRevision, SlotOfRevision
<1>7. \A n \in Openable(f) : n = rec
  <2> SUFFICES ASSUME NEW n \in Openable(f) PROVE n = rec
    OBVIOUS
  <2>1. n = Newer(f.meta[0], f.meta[1])
    BY <1>4 DEF Openable, Slot
  <2>2. CASE i = 0
    <3>1. f.meta[0] = rec /\ f.meta[1] = a.meta[1 - i]
      BY <1>4, <2>2 DEF Slot
    <3> QED
      BY <1>1, <1>6, <2>1, <3>1 DEF Newer
  <2>3. CASE i = 1
    <3>1. f.meta[1] = rec /\ f.meta[0] = a.meta[1 - i]
      BY <1>4, <2>3 DEF Slot
    <3> QED
      BY <1>1, <1>6, <2>1, <3>1 DEF Newer
  <2> QED
    BY <2>2, <2>3 DEF Slot
<1>8. Held(f)
  <2>1. rec.revision % 2 = i
    BY <1>1
  <2>2. a.meta[1 - i].revision % 2 = 1 - i
    BY <1>2, <1>5 DEF Held
  <2> QED
    BY <1>4, <1>5, <2>1, <2>2 DEF Held
<1>9. RootsKept(f)
  <2>1. Apart(rec) /\ f.chainBytes \intersect rec.live = {}
    BY <1>1, <1>2, <1>4 DEF Kept
  <2>2. /\ a.meta[1 - i] # Zero => Apart(a.meta[1 - i])
        /\ Intact(a.meta[1 - i]) => a.chainBytes \intersect a.meta[1 - i].live = {}
    BY <1>5 DEF Roots, RootsKept
  <2> QED
    BY <1>4, <1>5, <2>1, <2>2 DEF RootsKept
<1>10. Ordered(f)
  <2> SUFFICES ASSUME NEW j \in Slot, NEW n \in f.disk.meta[j], NEW o \in f.disk.meta[1 - j],
                      Intact(n), Intact(o), n.revision >= o.revision
               PROVE  o.chain \intersect InUse(n) = {}
    BY DEF Ordered
  <2>1. CASE j = i
    <3>1. n = rec /\ o = a.meta[1 - i]
      BY <1>4, <1>5, <2>1
    <3> QED
      BY <1>1, <1>2, <1>5, <3>1 DEF Kept
  <2>2. CASE j = 1 - i
    <3>1. 1 - j = i
      BY <2>2 DEF Slot
    <3>2. n = a.meta[1 - i] /\ o = rec
      BY <1>4, <1>5, <2>2, <3>1
    <3> QED
      BY <1>1, <1>6, <3>2
  <2> QED
    BY <1>5, <2>1, <2>2
<1>11. Fitting(f)
  <2>1. f.chainBytes \intersect RetiredIds(rec) = {}
    BY <1>1, <1>2, <1>4 DEF Kept
  <2> QED
    BY <1>1, <1>3, <1>4, <1>7, <2>1 DEF Fitting
<1>12. Kept(t, f)
  <2>1. ASSUME NEW j \in Slot, NEW s \in f.disk.meta[j], Intact(s)
        PROVE  s.chain \intersect InUse(t) = {} /\ s = f.meta[j]
    <3>1. s = f.meta[j]
      BY <1>4, <2>1
    <3>2. CASE j = i
      BY <1>1, <1>2, <1>4, <3>1, <3>2 DEF Kept, Apart, InUse
    <3>3. CASE j # i
      BY <1>2, <1>4, <1>5, <2>1, <3>1, <3>3 DEF Kept
    <3> QED
      BY <3>1, <3>2, <3>3
  <2>2. ASSUME NEW j \in Slot PROVE f.meta[j].revision <= t.revision
    BY <1>1, <1>2, <1>4, <1>6 DEF Kept
  <2> QED
    BY <1>2, <1>4, <2>1, <2>2 DEF Kept
<1> QED
  BY <1>1, <1>4, <1>7, <1>8, <1>9, <1>10, <1>11, <1>12 DEF Roots

\* u is t with free ids that were obsolete chain pages.
Regained(u, t, a) ==
    /\ u \in TreeRecord
    /\ u.live = t.live /\ u.retired = t.retired /\ u.chain = t.chain
    /\ u.nextPage = t.nextPage /\ u.revision = t.revision
    /\ t.free \subseteq u.free
    /\ \A id \in u.free \ t.free :
          /\ id \in Listed(t) /\ id \in a.chainBytes /\ id \notin t.chain
          /\ \A i \in Slot : a.meta[i] # Zero => id \notin a.meta[i].chain

LEMMA ObsoleteIs ==
    ASSUME NEW t \in TreeRecord, NEW a
    PROVE  Regained(ReclaimObsolete(t, a), t, a)
<1> DEFINE named == t.chain \union UNION {a.meta[i].chain : i \in Recorded(a)}
           more == (Listed(t) \intersect a.chainBytes) \ named
           u == ReclaimObsolete(t, a)
<1>1. u = [t EXCEPT !.free = @ \union more]
  BY DEF ReclaimObsolete
<1>2. \A id \in more : /\ id \in Listed(t) /\ id \in a.chainBytes /\ id \notin t.chain
                       /\ \A i \in Slot : a.meta[i] # Zero => id \notin a.meta[i].chain
  BY DEF Recorded
<1> HIDE DEF more, u
<1>3. /\ u.live = t.live /\ u.retired = t.retired /\ u.chain = t.chain
      /\ u.nextPage = t.nextPage /\ u.revision = t.revision
      /\ u.free = t.free \union more
  BY <1>1 DEF TreeRecord
<1>4. u \in TreeRecord
  BY ObsoleteTyped DEF u
<1>5. Regained(u, t, a)
  BY <1>2, <1>3, <1>4 DEF Regained
<1> QED
  BY <1>5 DEF u

\* What reclaimObsoleteMetaFreelistPages frees is nothing else.
LEMMA ObsoleteKept ==
    ASSUME NEW t \in TreeRecord, NEW a, Kept(t, a),
           \A i \in Slot : a.disk.meta[i] = {a.meta[i]},
           NEW u, Regained(u, t, a)
    PROVE  Kept(u, a) /\ (Ahead(t, a) => Ahead(u, a))
<1>1. /\ u.live = t.live /\ u.retired = t.retired /\ u.chain = t.chain
      /\ u.nextPage = t.nextPage /\ u.revision = t.revision /\ t.free \subseteq u.free
      /\ \A id \in u.free \ t.free :
            /\ id \in Listed(t) /\ id \in a.chainBytes /\ id \notin t.chain
            /\ \A i \in Slot : a.meta[i] # Zero => id \notin a.meta[i].chain
  BY DEF Regained
<1>2. RetiredIds(u) = RetiredIds(t) /\ Listed(u) = Listed(t)
  BY <1>1 DEF RetiredIds, Listed
<1>3. Apart(u)
  <2>1. \A id \in u.free \ t.free : id \notin t.live /\ id \notin RetiredIds(t)
    BY <1>1 DEF Kept
  <2>2. Apart(t)
    BY DEF Kept
  <2>3. /\ (u.free \union RetiredIds(u)) \intersect (u.live \union u.chain) = {}
        /\ u.free \intersect RetiredIds(u) = {}
        /\ InUse(u) \union u.chain \subseteq Listed(u)
    BY <1>1, <1>2, <2>1, <2>2 DEF Apart, InUse
  <2> QED
    BY <1>1, <2>2, <2>3 DEF Apart
<1>4. ASSUME NEW i \in Slot, NEW s \in a.disk.meta[i], Intact(s)
      PROVE  s.chain \intersect InUse(u) = {} /\ s = a.meta[i]
  <2>1. s = a.meta[i] /\ a.meta[i] # Zero
    BY <1>4 DEF Intact
  <2>2. s.chain \intersect InUse(t) = {}
    BY <1>4 DEF Kept
  <2> QED
    BY <1>1, <1>2, <2>1, <2>2 DEF InUse
<1>5. Kept(u, a)
  BY <1>1, <1>2, <1>3, <1>4 DEF Kept
<1> QED
  BY <1>2, <1>5 DEF Ahead

\* What a tree shares with the roots in a, it shares with those in b.
Carried(u, b, a) ==
    /\ Kept(u, a) => Kept(u, b)
    /\ Kept(u, a) /\ Ahead(u, a) => Ahead(u, b)
    /\ \A ids : Kept(u, a) /\ Covered(u, ids, a) => Covered(u, ids, b)

LEMMA CarriedTrans ==
    ASSUME NEW u, NEW a, NEW b, NEW c, Carried(u, b, a), Carried(u, c, b)
    PROVE  Carried(u, c, a)
BY DEF Carried

LEMMA CalmerCarried ==
    ASSUME NEW a, ArenaTyped(a), NEW u \in TreeRecord, NEW k \in Nat, u.nextPage <= k,
           NEW b, Calmer(b, a, k)
    PROVE  Carried(u, b, a)
<1>1. \A ids : Covered(u, ids, a) => Covered(u, ids, b)
  BY CalmerCovered
<1>2. Kept(u, a) => Kept(u, b) /\ (Ahead(u, a) => Ahead(u, b))
  BY CalmerKept
<1> QED
  BY <1>1, <1>2 DEF Carried

\* Only the set of dirty pages is another.
LEMMA DirtyCalmer ==
    ASSUME NEW a, ArenaTyped(a), Held(a), NEW ids \in SUBSET PageID, NEW k
    PROVE  Calmer([a EXCEPT !.dirty = ids], a, k)
<1> DEFINE b == [a EXCEPT !.dirty = ids]
<1>1. /\ ArenaTyped(b) /\ b.meta = a.meta /\ b.chainBytes = a.chainBytes
      /\ b.unflushed = a.unflushed /\ b.stale = a.stale /\ b.disk = a.disk /\ b.file = a.file
  BY DirtyFields
<1> HIDE DEF b
<1>2. Calmer(b, a, k)
  BY <1>1 DEF Calmer, Held
<1> QED
  BY <1>2 DEF b

\* A new chain page at nextPage is nobody else's, and the next flush covers it.
LEMMA ChainKept ==
    ASSUME NEW t \in TreeRecord, t.nextPage <= MaxPage,
           NEW a, Mapped(a), Roots(a), Below(t, a), Kept(t, a), Ahead(t, a),
           Covered(t, a.dirty, a),
           NEW ids, ids = {t.nextPage},
           NEW d, Marked(d, a, ids), d.stale = a.stale \ ids, d.dirty = a.dirty \union ids,
           d.chainBytes \subseteq a.chainBytes \union ids,
           NEW u \in TreeRecord, u.nextPage = t.nextPage + 1, u.chain = ids, u.live = t.live,
           u.free = t.free, u.retired = t.retired, u.revision = t.revision
    PROVE  /\ Roots(d) /\ (\A n : Reach(a, n) => Reach(d, n))
           /\ Kept(u, d) /\ Covered(u, d.dirty, d)
<1>1. /\ ArenaTyped(a) /\ t.nextPage \in Nat /\ t.nextPage >= FirstPage
      /\ t.nextPage \notin Listed(t)
      /\ Listed(u) = Listed(t) \union ids /\ RetiredIds(u) = RetiredIds(t) /\ InUse(u) = InUse(t)
  <2>1. t.nextPage \in Nat /\ t.nextPage >= FirstPage
    BY Bounds DEF TreeRecord, FirstPage
  <2>2. Listed(u) = Listed(t) \union ids
    BY <2>1 DEF Listed, FirstPage
  <2>3. t.nextPage \notin Listed(t)
    BY <2>1 DEF Listed, FirstPage
  <2> QED
    BY <2>1, <2>2, <2>3 DEF RetiredIds, InUse, Mapped
<1>2. (d.chainBytes \ a.chainBytes) \subseteq ids
  OBVIOUS
<1>3. Apart(t) /\ ids \intersect Listed(t) = {}
  BY <1>1 DEF Kept
<1>4. (d.chainBytes \ a.chainBytes) \intersect (t.live \union RetiredIds(t)) = {}
  BY <1>2, <1>3 DEF Apart, InUse
<1>5. ASSUME NEW n \in Openable(a)
      PROVE  (d.chainBytes \ a.chainBytes) \intersect RetiredIds(n) = {}
  BY <1>2, <1>3 DEF Ahead
<1>6. Roots(d) /\ (\A n : Reach(a, n) => Reach(d, n))
  BY <1>1, <1>5, MarkedRoots
<1>7. Kept(t, d)
  BY <1>1, <1>4, MarkedKept
<1>8. Kept(u, d)
  <2>1. Apart(u)
    BY <1>1, <1>3 DEF Apart, InUse
  <2>2. d.stale \intersect (u.live \union u.chain \union RetiredIds(u)) = {}
    BY <1>1, <1>7 DEF Kept
  <2>3. ASSUME NEW i \in Slot, NEW s \in d.disk.meta[i], Intact(s)
        PROVE  ids \intersect s.chain = {}
    <3>1. PICK r \in a.disk.meta[i] : r \in Root /\ s = Spoilt(r, ids)
      <4>1. a.disk.meta[i] \subseteq Root
        BY <1>1, ArenaFields
      <4>2. d.disk.meta[i] = {Spoilt(r, ids) : r \in a.disk.meta[i]}
        BY DEF Marked
      <4> QED
        BY <4>1, <4>2
    <3> QED
      BY <2>3, <3>1, SpoiltIs DEF Intact
  <2>4. d.chainBytes \intersect (u.live \union RetiredIds(u)) = {}
    BY <1>1, <1>7 DEF Kept
  <2> QED
    BY <1>1, <1>7, <2>1, <2>2, <2>3, <2>4 DEF Kept
<1>9. Covered(u, d.dirty, d)
  BY <1>1 DEF Covered, Marked
<1> QED
  BY <1>6, <1>8, <1>9

\* What a step of persisting t leaves to the roots, and to a tree u that may stay.
Passed(b, a, t, k) ==
    /\ Roots(b)
    /\ \A n \in Nat : k <= n /\ b.capacity + FirstPage <= n => Reach(b, n)
    /\ \A u \in TreeRecord :
          (u.nextPage <= t.nextPage \/ ~NeedsChain(t)) /\ u.nextPage <= k => Carried(u, b, a)

\* A tree that is about to be published: a chain page waits for the flush.
Pending(t, a) ==
    /\ Mapped(a) /\ t \in TreeRecord /\ Below(t, a)
    /\ Kept(t, a) /\ Covered(t, a.dirty, a) /\ t.chain \subseteq a.dirty

\* The roots reach up to k, which a growth does not go below.
Publishing(t, a, k) ==
    /\ Mapped(a) /\ Roots(a) /\ Below(t, a) /\ Kept(t, a) /\ Covered(t, a.dirty, a)
    /\ k \in Nat /\ a.capacity + FirstPage <= k /\ Reach(a, k)
    /\ NeedsChain(t) => k = a.capacity + FirstPage /\ Ahead(t, a) /\ t.nextPage <= MaxPage

LEMMA PrepareIs ==
    ASSUME NEW t \in TreeRecord, NEW a, NEW k, Publishing(t, a, k),
           NEW p \in PrepareMetaFreelistPages(t, a)
    PROVE  /\ Passed(p.arena, a, t, k)
           /\ p.ok => /\ Pending(p.tree, p.arena)
                      /\ p.tree.free = t.free /\ p.tree.retired = t.retired
                      /\ p.tree.revision = t.revision /\ p.tree.live = t.live
                      /\ \A u \in TreeRecord : u.nextPage <= t.nextPage \/ ~NeedsChain(t) =>
                                                  p.tree.chain \intersect Listed(u) = {}
<1>0. /\ t.nextPage \in Nat /\ t.nextPage >= FirstPage /\ a.capacity \in Nat /\ k \in Nat
      /\ ArenaTyped(a) /\ Mapped(a) /\ Held(a) /\ t.nextPage <= a.capacity + FirstPage
  BY Bounds DEF TreeRecord, FirstPage, Mapped, ArenaTyped, ArenaRecord, Publishing, Roots, Below
<1>1. /\ Mapped(p.arena) /\ p.tree \in TreeRecord /\ Below(p.tree, p.arena)
  BY PrepareMapped DEF Publishing
<1>2. \A n \in Nat : k <= n => Reach(a, n)
  <2> SUFFICES ASSUME NEW n \in Nat, k <= n, NEW r \in Openable(a) PROVE r.nextPage <= n
    BY DEF Reach
  <2>1. r \in MetaRecord /\ r.nextPage <= k
    BY <1>0, ArenaFields DEF Publishing, Roots, Fitting, Reach, Root
  <2>2. r.nextPage \in Nat
    BY <2>1, Bounds DEF MetaRecord, FirstPage
  <2> QED
    BY <1>0, <2>1, <2>2
<1>3. CASE ~NeedsChain(t)
  <2> DEFINE u == [t EXCEPT !.chain = {}]
  <2>1. p = [ok |-> TRUE, moved |-> FALSE, tree |-> u, arena |-> a]
    BY <1>3 DEF PrepareMetaFreelistPages
  <2>2. /\ u \in TreeRecord /\ u.live = t.live /\ u.free = t.free /\ u.retired = t.retired
        /\ u.nextPage = t.nextPage /\ u.revision = t.revision /\ u.chain = {}
    BY DEF TreeRecord
  <2>3. p.tree = u /\ p.arena = a
    BY <2>1
  <2> HIDE DEF u
  <2>4. RetiredIds(u) = RetiredIds(t) /\ Listed(u) = Listed(t) /\ InUse(u) = InUse(t)
    BY <2>2 DEF RetiredIds, Listed, InUse
  <2>5. Kept(u, a) /\ Covered(u, a.dirty, a)
    <3>1. Kept(t, a) /\ Covered(t, a.dirty, a)
      BY DEF Publishing
    <3>2. Apart(u)
      BY <2>2, <2>4, <3>1 DEF Kept, Apart
    <3> QED
      BY <2>2, <2>4, <3>1, <3>2 DEF Kept, Covered
  <2>6. Passed(a, a, t, k)
    BY <1>2 DEF Passed, Publishing, Carried
  <2>7. Pending(u, a)
    BY <1>1, <2>2, <2>3, <2>5 DEF Pending
  <2> QED
    BY <2>2, <2>3, <2>6, <2>7
<1>4. CASE NeedsChain(t)
  <2> DEFINE ids == {t.nextPage}
             u == [t EXCEPT !.nextPage = @ + 1, !.chain = ids]
             chained(g) == [Written(g.arena, ids) EXCEPT !.chainBytes = @ \union ids]
  <2>0. /\ k = a.capacity + FirstPage /\ Ahead(t, a) /\ t.nextPage <= MaxPage
        /\ Roots(a) /\ Kept(t, a) /\ Covered(t, a.dirty, a) /\ Reach(a, k) /\ Below(t, a)
    BY <1>4 DEF Publishing
  <2>1. PICK g \in GrowMmapForPage(a, t.nextPage) :
           \/ ~g.ok /\ p = [ok |-> FALSE, moved |-> FALSE, tree |-> t, arena |-> g.arena]
           \/ g.ok /\ p = [ok |-> TRUE, moved |-> g.moved, tree |-> u, arena |-> chained(g)]
    BY <1>4 DEF PrepareMetaFreelistPages
  <2>2. /\ Mapped(g.arena) /\ Calmer(g.arena, a, k)
        /\ g.ok => g.arena = a \/ Flushed(g.arena)
        /\ g.arena.capacity >= a.capacity
    BY <1>0, <2>0, GrowMapped, GrowIs
  <2>3. /\ Roots(g.arena) /\ \A n : Reach(a, n) => Reach(g.arena, n)
    BY <1>0, <2>0, <2>2, CalmerRoots
  <2>4. \A v \in TreeRecord : v.nextPage <= k => Carried(v, g.arena, a)
    BY <1>0, <2>2, CalmerCarried
  <2>5. Passed(g.arena, a, t, k)
    BY <1>2, <2>3, <2>4 DEF Passed
  <2>6. CASE ~g.ok /\ p = [ok |-> FALSE, moved |-> FALSE, tree |-> t, arena |-> g.arena]
    <3>1. p.ok = FALSE /\ p.arena = g.arena
      BY <2>6
    <3> QED
      BY <2>5, <3>1, Zenon
  <2>7. CASE g.ok /\ p = [ok |-> TRUE, moved |-> g.moved, tree |-> u, arena |-> chained(g)]
    <3> DEFINE b == Written(g.arena, ids)
               d == [b EXCEPT !.chainBytes = @ \union ids]
    <3>1. p.tree = u /\ p.arena = d
      BY <2>7
    <3>2. /\ u \in TreeRecord /\ u.nextPage = t.nextPage + 1 /\ u.chain = ids /\ u.live = t.live
          /\ u.free = t.free /\ u.retired = t.retired /\ u.revision = t.revision
      <4>1. ids \subseteq PageID /\ t.nextPage + 1 \in FirstPage..(MaxPage + 1)
        BY <1>0, <2>0, Bounds DEF PageID, FirstPage
      <4>2. u = [t EXCEPT !.nextPage = t.nextPage + 1, !.chain = ids]
        OBVIOUS
      <4> HIDE DEF u, ids
      <4> QED
        BY <4>1, <4>2 DEF TreeRecord
    <3>3. ids \in SUBSET PageID /\ ArenaTyped(g.arena)
      BY <1>0, <2>0, <2>2 DEF PageID, Mapped
    <3>4. /\ ArenaTyped(b) /\ Marked(b, g.arena, ids)
          /\ b.chainBytes = g.arena.chainBytes \ ids /\ b.unflushed = g.arena.unflushed \union ids
          /\ b.stale = g.arena.stale \ ids /\ b.dirty = g.arena.dirty \union ids
      BY <3>3, WrittenFields
    <3> HIDE DEF u, b
    <3>5. /\ d.meta = b.meta /\ d.disk = b.disk /\ d.file = b.file
          /\ d.chainBytes = b.chainBytes \union ids /\ d.unflushed = b.unflushed
          /\ d.stale = b.stale /\ d.dirty = b.dirty
      BY <3>4 DEF ArenaTyped, ArenaRecord
    <3> HIDE DEF d
    <3>6. /\ Marked(d, g.arena, ids)
          /\ d.stale = g.arena.stale \ ids /\ d.dirty = g.arena.dirty \union ids
          /\ d.chainBytes \subseteq g.arena.chainBytes \union ids
      BY <3>4, <3>5 DEF Marked
    <3>7. Below(t, g.arena) /\ t.nextPage <= k
      BY <1>0, <2>0, <2>2, ArenaFields DEF Below, Mapped, FirstPage
    <3>8. Kept(t, g.arena) /\ Ahead(t, g.arena)
      BY <2>0, <2>4, <3>7 DEF Carried
    <3>9. Covered(t, g.arena.dirty, g.arena)
      BY <2>0, <2>2, <2>7, <3>7, FlushedCovered
    <3>10. /\ Roots(d) /\ (\A n : Reach(g.arena, n) => Reach(d, n))
           /\ Kept(u, d) /\ Covered(u, d.dirty, d)
      <4> HIDE DEF ids
      <4>1. ids = {t.nextPage}
        BY DEF ids
      <4> QED
        BY <2>0, <2>2, <2>3, <3>2, <3>6, <3>7, <3>8, <3>9, <4>1, ChainKept
    <3>11. ASSUME NEW v \in TreeRecord, v.nextPage <= t.nextPage, v.nextPage <= k
           PROVE  Carried(v, d, a)
      <4>0. v.nextPage \in Nat /\ ids \intersect Listed(v) = {}
        BY <1>0, <3>11, Bounds DEF TreeRecord, FirstPage, Listed
      <4>1. Carried(v, g.arena, a)
        BY <2>4, <3>11
      <4>2. (d.chainBytes \ g.arena.chainBytes) \subseteq ids
        BY <3>6
      <4>3. ASSUME Kept(v, g.arena)
            PROVE  Kept(v, d) /\ (Ahead(v, g.arena) => Ahead(v, d))
        <5>1. (d.chainBytes \ g.arena.chainBytes) \intersect (v.live \union RetiredIds(v)) = {}
          BY <4>0, <4>2, <4>3 DEF Kept, Apart, InUse
        <5> HIDE DEF ids
        <5> QED
          BY <2>3, <3>3, <3>6, <4>3, <5>1, MarkedKept
      <4>4. ASSUME Kept(v, a), NEW dirty, Covered(v, dirty, a)
            PROVE  Covered(v, dirty, d)
        <5>1. Covered(v, dirty, g.arena)
          BY <4>1, <4>4 DEF Carried
        <5>2. ids \intersect (v.live \union v.chain) \subseteq dirty
          BY <4>0, <4>4 DEF Kept, Apart, InUse
        <5> HIDE DEF ids
        <5> QED
          BY <3>6, <5>1, <5>2, MarkedCovered
      <4> QED
        BY <4>1, <4>3, <4>4 DEF Carried
    <3>12. Passed(d, a, t, k)
      BY <1>2, <1>4, <2>3, <3>10, <3>11 DEF Passed
    <3>13. Pending(u, d)
      BY <1>1, <3>1, <3>2, <3>6, <3>10 DEF Pending
    <3>14. ASSUME NEW v \in TreeRecord, v.nextPage <= t.nextPage
           PROVE  u.chain \intersect Listed(v) = {}
      BY <1>0, <3>2, <3>14, Bounds DEF TreeRecord, FirstPage, Listed
    <3> QED
      BY <1>4, <3>1, <3>2, <3>12, <3>13, <3>14
  <2> QED
    BY <2>1, <2>6, <2>7
<1> QED
  BY <1>3, <1>4

\* After syncDataPages a tree can be published.
LEMMA SyncPending ==
    ASSUME NEW t, NEW a, Pending(t, a), Roots(a), NEW s \in SyncDataPages(a, t.nextPage), s.ok
    PROVE  Publishable(t, s.arena) /\ s.arena.dirty = {}
<1>0. /\ t.nextPage \in Nat /\ t.nextPage >= FirstPage /\ t \in TreeRecord /\ ArenaTyped(a)
      /\ Held(a) /\ Below(t, a) /\ Kept(t, a) /\ Apart(t)
  BY Bounds DEF TreeRecord, FirstPage, Mapped, Pending, Roots, Kept
<1>1. /\ Mapped(s.arena) /\ SameSizes(s.arena, a)
  BY SyncDataMapped DEF Pending
<1>2. \A k : Calmer(s.arena, a, k)
  BY <1>0, SyncDataIs
<1>3. s.arena.dirty = {} /\ ((\A id \in a.dirty : id >= t.nextPage) \/ Flushed(s.arena))
  BY <1>0, SyncDataIs
<1>4. Kept(t, s.arena)
  BY <1>0, <1>2, CalmerKept
<1>5. Below(t, s.arena)
  BY <1>0, <1>1 DEF Below, SameSizes
<1>6. CASE Flushed(s.arena)
  <2>1. /\ s.arena.file \in Nat /\ s.arena.capacity \in Nat
        /\ s.arena.capacity + FirstPage <= s.arena.file
    BY <1>1, ArenaFields DEF Mapped, Size
  <2>2. t.nextPage <= s.arena.file
    BY <1>0, <1>5, <2>1 DEF Below, FirstPage
  <2> QED
    BY <1>3, <1>4, <1>5, <1>6, <2>2 DEF Publishable, Flushed
<1>7. CASE \A id \in a.dirty : id >= t.nextPage
  <2>1. \A id \in Listed(t) : id \notin a.dirty
    BY <1>0, <1>7 DEF Listed, FirstPage
  <2>2. t.chain = {}
    BY <1>0, <2>1 DEF Pending, Apart
  <2>3. s.arena.unflushed \intersect (t.live \union t.chain) = {}
    <3>1. a.unflushed \intersect (t.live \union t.chain) \subseteq a.dirty
      BY DEF Pending, Covered
    <3>2. s.arena.unflushed \subseteq a.unflushed
      BY <1>2 DEF Calmer
    <3> QED
      BY <1>0, <2>1, <3>1, <3>2 DEF Apart, InUse
  <2>4. ASSUME NEW size \in s.arena.disk.size PROVE t.nextPage <= size
    <3>1. size \in a.disk.size \/ size >= t.nextPage
      BY <1>2 DEF Calmer
    <3>2. size \in Nat /\ size >= FirstPage
      BY <1>1, ArenaFields DEF Mapped, Size, MinCapacity, FirstPage
    <3>3. CASE size < t.nextPage
      <4>1. size \in Listed(t) /\ size \in a.disk.size /\ size >= size
        BY <1>0, <3>1, <3>2, <3>3 DEF Listed, FirstPage
      <4>2. size \in a.dirty
        BY <4>1 DEF Pending, Covered
      <4> QED
        BY <2>1, <4>1, <4>2
    <3> QED
      BY <1>0, <3>2, <3>3
  <2> QED
    BY <1>3, <1>4, <1>5, <2>2, <2>3, <2>4 DEF Publishable
<1> QED
  BY <1>3, <1>6, <1>7

\* A publication that has failed has at most added a root that the disk may hold.
LEMMA LostPassed ==
    ASSUME NEW t \in TreeRecord, NEW a, Mapped(a), Roots(a), Publishable(t, a),
           NEW i \in Slot, i = t.revision % 2, NEW b, LostFields(b, a, i, Record(t, a)),
           NEW u \in TreeRecord, u.revision = t.revision, RetiredIds(t) \subseteq Listed(u),
           t.chain \intersect Listed(u) = {}
    PROVE  Carried(u, b, a)
<1>1. Held(a)
  BY DEF Roots
<1>2. \A ids : Covered(u, ids, a) => Covered(u, ids, b)
  BY DEF Covered, LostFields
<1>3. ASSUME Kept(u, a) PROVE Kept(u, b) /\ (Ahead(u, a) => Ahead(u, b))
  BY <1>1, <1>3, LostKept
<1> QED
  BY <1>2, <1>3 DEF Carried

Safe(t, dirty, a) == Kept(t, a) /\ Ahead(t, a) /\ Covered(t, dirty, a)

\* A publication that succeeds leaves one root on the disk, that of the tree.
LEMMA DonePassed ==
    ASSUME NEW t \in TreeRecord, NEW a, Mapped(a), Roots(a), Publishable(t, a),
           NEW i \in Slot, i = t.revision % 2,
           NEW b, WroteFields(b, a, i, Record(t, a)), NEW f, f = Fsynced(b), Mapped(f), Below(t, f),
           NEW u, Regained(u, t, f)
    PROVE  /\ Roots(f) /\ Flushed(f) /\ Safe(u, f.dirty, f) /\ Reach(f, u.nextPage)
           /\ \A n \in Nat : f.capacity + FirstPage <= n => Reach(f, n)
<1>1. /\ Roots(f) /\ Flushed(f) /\ Kept(t, f)
      /\ \A n \in Openable(f) : n.nextPage = t.nextPage /\ RetiredIds(n) = RetiredIds(t)
  BY DoneRoots
<1>2. Ahead(t, f)
  BY <1>1 DEF Ahead, Kept, Apart, InUse
<1>3. Kept(u, f) /\ Ahead(u, f)
  <2>1. \A j \in Slot : f.disk.meta[j] = {f.meta[j]}
    BY <1>1 DEF Flushed
  <2> QED
    BY <1>1, <1>2, <2>1, ObsoleteKept
<1>4. u \in TreeRecord /\ u.nextPage = t.nextPage
  BY DEF Regained
<1>5. Covered(u, f.dirty, f)
  <2>1. Below(u, f)
    BY <1>4 DEF Below
  <2> QED
    BY <1>1, <1>4, <2>1, FlushedCovered
<1>6. Reach(f, u.nextPage)
  <2>1. t.nextPage \in Nat
    BY Bounds DEF TreeRecord, FirstPage
  <2> QED
    BY <1>1, <1>4, <2>1 DEF Reach
<1>7. ASSUME NEW n \in Nat, f.capacity + FirstPage <= n PROVE Reach(f, n)
  <2>1. t.nextPage \in Nat /\ f.capacity \in Nat /\ t.nextPage <= f.capacity + FirstPage
    BY Bounds, ArenaFields DEF TreeRecord, FirstPage, Mapped, Below
  <2> QED
    BY <1>1, <1>7, <2>1 DEF Reach, FirstPage
<1> QED
  BY <1>1, <1>3, <1>5, <1>6, <1>7 DEF Safe

\* A tree that stays when the publication of t has failed: t itself, or the one that a
\* compaction has cut t from.
Staying(u, t, k) ==
    /\ u \in TreeRecord
    /\ u.nextPage <= t.nextPage \/ ~NeedsChain(t)
    /\ u.nextPage <= k /\ u.revision = t.revision
    /\ RetiredIds(t) \subseteq Listed(u)

\* What persisting t in a has come to.
Published(o, t, a, k) ==
    /\ Roots(o.arena)
    /\ \A n \in Nat : k <= n /\ o.arena.capacity + FirstPage <= n => Reach(o.arena, n)
    /\ o.ok => /\ Safe(o.tree, o.arena.dirty, o.arena)
               /\ Flushed(o.arena) /\ Reach(o.arena, o.tree.nextPage)
               /\ \A n \in Nat : o.arena.capacity + FirstPage <= n => Reach(o.arena, n)
    /\ ~o.ok => /\ o.tree = t /\ o.arena.dirty = a.dirty
                /\ \A u : Staying(u, t, k) => Carried(u, o.arena, a)

LEMMA PersistedIs ==
    ASSUME NEW t \in TreeRecord, NEW a, NEW k, Publishing(t, a, k), NEW o \in Persisted(t, a)
    PROVE  Published(o, t, a, k)
<1> DEFINE undone(b, p) == [ok |-> FALSE, moved |-> p.moved, tree |-> t,
                            arena |-> [b EXCEPT !.dirty = a.dirty]]
           Left(b) == /\ ArenaTyped(b) /\ Roots(b)
                      /\ \A n \in Nat : k <= n /\ b.capacity + FirstPage <= n => Reach(b, n)
                      /\ \A u : Staying(u, t, k) => Carried(u, b, a)
<1>1. PICK p \in PrepareMetaFreelistPages(t, a) :
         \/ ~p.ok /\ o = undone(p.arena, p)
         \/ p.ok /\ \E s \in SyncDataPages(p.arena, p.tree.nextPage) :
               \/ ~s.ok /\ o = undone(s.arena, p)
               \/ s.ok /\ \E m \in PublishMeta(p.tree, s.arena) :
                     \/ ~m.ok /\ o = undone(m.arena, p)
                     \/ m.ok /\ o = [ok |-> TRUE, moved |-> p.moved,
                                     tree |-> ReclaimObsolete(p.tree, m.arena), arena |-> m.arena]
  BY DEF Persisted
<1>2. /\ Passed(p.arena, a, t, k)
      /\ p.ok => /\ Pending(p.tree, p.arena)
                 /\ p.tree.free = t.free /\ p.tree.retired = t.retired
                 /\ p.tree.revision = t.revision /\ p.tree.live = t.live
                 /\ \A u \in TreeRecord : u.nextPage <= t.nextPage \/ ~NeedsChain(t) =>
                                             p.tree.chain \intersect Listed(u) = {}
  BY PrepareIs
<1>3. Mapped(p.arena) /\ ArenaTyped(p.arena) /\ a.dirty \in SUBSET PageID
  BY PrepareMapped DEF Publishing, Mapped, ArenaTyped, ArenaRecord
<1>4. k \in Nat /\ ArenaTyped(a) /\ Roots(a)
  BY DEF Publishing, Mapped
<1>5. Left(p.arena)
  BY <1>2, <1>3 DEF Passed, Staying
<1>6. ASSUME NEW b, Left(b), o = undone(b, p)
      PROVE  /\ Roots(o.arena)
             /\ \A n \in Nat : k <= n /\ o.arena.capacity + FirstPage <= n => Reach(o.arena, n)
             /\ o.ok = FALSE /\ o.tree = t /\ o.arena.dirty = a.dirty
             /\ \A u : Staying(u, t, k) => Carried(u, o.arena, a)
  <2> DEFINE c == [b EXCEPT !.dirty = a.dirty]
  <2>1. o.ok = FALSE /\ o.tree = t /\ o.arena = c
    BY <1>6
  <2>2. c.dirty = a.dirty /\ c.capacity = b.capacity
    BY <1>3, <1>6, DirtyFields
  <2>3. Held(b)
    BY <1>6 DEF Roots
  <2>4. \A n : Calmer(c, b, n)
    BY <1>3, <1>6, <2>3, DirtyCalmer
  <2> HIDE DEF c
  <2>5. b.capacity \in Nat
    BY <1>6, ArenaFields
  <2>6. PICK n \in Nat : k <= n /\ b.capacity + FirstPage <= n
    <3>1. k + b.capacity + FirstPage \in Nat
      BY <1>4, <2>5 DEF FirstPage
    <3> QED
      BY <1>4, <2>5, <3>1 DEF FirstPage
  <2>7. Reach(b, n)
    BY <1>6, <2>6
  <2>8. Roots(c) /\ (\A j : Reach(b, j) => Reach(c, j))
    BY <1>6, <2>4, <2>7, CalmerRoots
  <2>9. ASSUME NEW u, Staying(u, t, k) PROVE Carried(u, c, a)
    <3>1. Carried(u, b, a)
      BY <1>6, <2>9
    <3>2. Carried(u, c, b)
      BY <1>4, <1>6, <2>4, <2>9, CalmerCarried DEF Staying
    <3> QED
      BY <3>1, <3>2, CarriedTrans
  <2>10. \A j \in Nat : k <= j /\ c.capacity + FirstPage <= j => Reach(c, j)
    BY <1>6, <2>2, <2>8
  <2> QED
    BY <2>1, <2>2, <2>8, <2>9, <2>10, Zenon
<1>7. ASSUME p.ok, NEW s \in SyncDataPages(p.arena, p.tree.nextPage)
      PROVE  Left(s.arena) /\ Mapped(s.arena)
  <2>1. Mapped(s.arena) /\ SameSizes(s.arena, p.arena)
    BY <1>3, SyncDataMapped
  <2>2. Held(p.arena) /\ Roots(p.arena)
    BY <1>2 DEF Passed, Roots
  <2>3. \A n : Calmer(s.arena, p.arena, n)
    BY <1>3, <2>2, SyncDataIs
  <2>4. p.arena.capacity \in Nat
    BY <1>3, ArenaFields
  <2>5. PICK n \in Nat : k <= n /\ p.arena.capacity + FirstPage <= n
    <3>1. k + p.arena.capacity + FirstPage \in Nat
      BY <1>4, <2>4 DEF FirstPage
    <3> QED
      BY <1>4, <2>4, <3>1 DEF FirstPage
  <2>6. Reach(p.arena, n)
    BY <1>2, <2>5 DEF Passed
  <2>7. Roots(s.arena) /\ (\A j : Reach(p.arena, j) => Reach(s.arena, j))
    BY <1>3, <2>2, <2>3, <2>6, CalmerRoots
  <2>8. ASSUME NEW u, Staying(u, t, k) PROVE Carried(u, s.arena, a)
    <3>1. Carried(u, p.arena, a)
      BY <1>5, <2>8
    <3>2. Carried(u, s.arena, p.arena)
      BY <1>3, <1>4, <2>3, <2>8, CalmerCarried DEF Staying
    <3> QED
      BY <3>1, <3>2, CarriedTrans
  <2>9. \A j \in Nat : k <= j /\ s.arena.capacity + FirstPage <= j => Reach(s.arena, j)
    BY <1>2, <2>1, <2>7 DEF Passed, SameSizes
  <2> QED
    BY <2>1, <2>7, <2>8, <2>9 DEF Mapped
<1>8. ASSUME p.ok, NEW s \in SyncDataPages(p.arena, p.tree.nextPage), s.ok
      PROVE  Publishable(p.tree, s.arena) /\ Mapped(s.arena) /\ Roots(s.arena)
             /\ p.tree \in TreeRecord /\ Left(s.arena)
  <2>1. Pending(p.tree, p.arena) /\ Roots(p.arena)
    BY <1>2, <1>8 DEF Passed
  <2>2. Publishable(p.tree, s.arena)
    BY <1>8, <2>1, SyncPending
  <2>3. Left(s.arena) /\ Mapped(s.arena)
    BY <1>7, <1>8
  <2> QED
    BY <2>1, <2>2, <2>3 DEF Pending
<1>9. ASSUME p.ok, NEW s \in SyncDataPages(p.arena, p.tree.nextPage), s.ok,
             NEW m \in PublishMeta(p.tree, s.arena), ~m.ok
      PROVE  Left(m.arena)
  <2> DEFINE i == p.tree.revision % 2
  <2>1. LostFields(m.arena, s.arena, i, Record(p.tree, s.arena))
    BY <1>8, <1>9, PublishIs
  <2>2. i \in Slot
    BY <1>8, <1>9, SlotOfRevision
  <2>3. /\ Roots(m.arena)
        /\ \A n : Reach(s.arena, n) /\ p.tree.nextPage <= n => Reach(m.arena, n)
    BY <1>8, <1>9, <2>1, <2>2, LostRoots
  <2>4. ArenaTyped(m.arena) /\ m.arena.capacity = s.arena.capacity
    BY <2>1 DEF LostFields
  <2>5. RetiredIds(p.tree) = RetiredIds(t)
    BY <1>2, <1>9 DEF RetiredIds
  <2>6. ASSUME NEW u, Staying(u, t, k) PROVE Carried(u, m.arena, a)
    <3>1. Carried(u, s.arena, a)
      BY <1>8, <1>9, <2>6
    <3>2. Carried(u, m.arena, s.arena)
      <4>1. u \in TreeRecord /\ u.revision = p.tree.revision
            /\ RetiredIds(p.tree) \subseteq Listed(u) /\ p.tree.chain \intersect Listed(u) = {}
        BY <1>2, <1>9, <2>5, <2>6 DEF Staying
      <4> QED
        BY <1>8, <1>9, <2>1, <2>2, <4>1, LostPassed
    <3> QED
      BY <3>1, <3>2, CarriedTrans
  <2>7. ASSUME NEW n \in Nat, k <= n, m.arena.capacity + FirstPage <= n
        PROVE  Reach(m.arena, n)
    <3>1. Below(p.tree, s.arena)
      BY <1>8, <1>9 DEF Publishable
    <3>2. p.tree.nextPage \in Nat /\ s.arena.capacity \in Nat
      BY <1>8, <1>9, Bounds, ArenaFields DEF TreeRecord, FirstPage, Mapped
    <3>3. p.tree.nextPage <= n
      BY <2>4, <2>7, <3>1, <3>2 DEF Below, FirstPage
    <3>4. Reach(s.arena, n)
      BY <1>8, <1>9, <2>4, <2>7
    <3> QED
      BY <2>3, <3>3, <3>4
  <2> QED
    BY <2>3, <2>4, <2>6, <2>7
<1>10. ASSUME p.ok, NEW s \in SyncDataPages(p.arena, p.tree.nextPage), s.ok,
             NEW m \in PublishMeta(p.tree, s.arena), m.ok,
             o = [ok |-> TRUE, moved |-> p.moved,
                  tree |-> ReclaimObsolete(p.tree, m.arena), arena |-> m.arena]
      PROVE  /\ Roots(o.arena) /\ o.ok = TRUE
             /\ Safe(o.tree, o.arena.dirty, o.arena)
             /\ Flushed(o.arena) /\ Reach(o.arena, o.tree.nextPage)
             /\ \A n \in Nat : o.arena.capacity + FirstPage <= n => Reach(o.arena, n)
  <2> DEFINE i == p.tree.revision % 2
             u == ReclaimObsolete(p.tree, m.arena)
  <2>1. PICK b : WroteFields(b, s.arena, i, Record(p.tree, s.arena)) /\ m.arena = Fsynced(b)
    BY <1>8, <1>10, PublishIs
  <2>2. i \in Slot
    BY <1>8, <1>10, SlotOfRevision
  <2>3. Mapped(m.arena) /\ SameSizes(m.arena, s.arena)
    BY <1>8, <1>10, PublishMapped
  <2>4. Below(p.tree, m.arena)
    BY <1>8, <1>10, <2>3 DEF Publishable, Below, SameSizes
  <2>5. Regained(u, p.tree, m.arena)
    BY <1>8, <1>10, ObsoleteIs
  <2> HIDE DEF u, i
  <2>6. /\ Roots(m.arena) /\ Flushed(m.arena) /\ Safe(u, m.arena.dirty, m.arena)
        /\ Reach(m.arena, u.nextPage)
        /\ \A n \in Nat : m.arena.capacity + FirstPage <= n => Reach(m.arena, n)
    <3>1. i = p.tree.revision % 2
      BY DEF i
    <3> QED
      BY <1>8, <1>10, <2>1, <2>2, <2>3, <2>4, <2>5, <3>1, DonePassed
  <2>7. o.tree = u /\ o.arena = m.arena /\ o.ok = TRUE
    BY <1>10 DEF u
  <2> QED
    BY <2>6, <2>7, Zenon
<1> HIDE DEF undone, Left
<1>11. ASSUME p.ok, NEW s \in SyncDataPages(p.arena, p.tree.nextPage), ~s.ok, o = undone(s.arena, p)
       PROVE  \E b : Left(b) /\ o = undone(b, p)
  BY <1>7, <1>11
<1>12. ASSUME p.ok, NEW s \in SyncDataPages(p.arena, p.tree.nextPage), s.ok,
             NEW m \in PublishMeta(p.tree, s.arena), ~m.ok, o = undone(m.arena, p)
       PROVE  \E b : Left(b) /\ o = undone(b, p)
  BY <1>9, <1>12
<1>13. ASSUME NEW b, Left(b), o = undone(b, p) PROVE Published(o, t, a, k)
  BY <1>6, <1>13, Zenon DEF Published
<1>14. ASSUME p.ok, NEW s \in SyncDataPages(p.arena, p.tree.nextPage), s.ok,
             NEW m \in PublishMeta(p.tree, s.arena), m.ok,
             o = [ok |-> TRUE, moved |-> p.moved,
                  tree |-> ReclaimObsolete(p.tree, m.arena), arena |-> m.arena]
       PROVE  Published(o, t, a, k)
  <2>1. /\ Roots(o.arena) /\ o.ok = TRUE
        /\ Safe(o.tree, o.arena.dirty, o.arena)
        /\ Flushed(o.arena) /\ Reach(o.arena, o.tree.nextPage)
        /\ \A n \in Nat : o.arena.capacity + FirstPage <= n => Reach(o.arena, n)
    BY <1>10, <1>14
  <2> QED
    BY <2>1, Zenon DEF Published
<1> QED
  BY <1>1, <1>5, <1>11, <1>12, <1>13, <1>14, Zenon

----------------------------------------------------------------------------
(* Steps of the process that leave the disk alone *)

\* The file, its roots and what is pending are the same.
SameDisk(b, a) ==
    /\ b.meta = a.meta /\ b.disk = a.disk /\ b.file = a.file
    /\ b.chainBytes = a.chainBytes /\ b.unflushed = a.unflushed

LEMMA SameDiskRoots ==
    ASSUME NEW a, NEW b, SameDisk(b, a), Roots(a)
    PROVE  Roots(b) /\ (\A n : Reach(a, n) => Reach(b, n))
<1>1. Openable(b) = Openable(a)
  BY DEF SameDisk, Openable
<1>2. Held(b)
  BY DEF SameDisk, Roots, Held
<1>3. RootsKept(b)
  BY DEF SameDisk, Roots, RootsKept
<1>4. Ordered(b)
  BY DEF SameDisk, Roots, Ordered
<1>5. Fitting(b)
  BY <1>1 DEF SameDisk, Roots, Fitting
<1> QED
  BY <1>1, <1>2, <1>3, <1>4, <1>5 DEF Roots, Reach

LEMMA SameDiskSafe ==
    ASSUME NEW a, NEW b, SameDisk(b, a), NEW t, NEW dirty, Safe(t, dirty, a),
           b.stale \intersect (t.live \union t.chain \union RetiredIds(t)) = {}
    PROVE  Safe(t, dirty, b)
<1>1. Openable(b) = Openable(a)
  BY DEF SameDisk, Openable
<1>2. Kept(t, b)
  BY DEF SameDisk, Safe, Kept
<1>3. Ahead(t, b)
  BY <1>1 DEF Safe, Ahead
<1>4. Covered(t, dirty, b)
  BY DEF SameDisk, Safe, Covered
<1> QED
  BY <1>2, <1>3, <1>4 DEF Safe

\* In u some of the retired pages of t are free.
Reclaimed(u, t) ==
    /\ u.live = t.live /\ u.chain = t.chain /\ u.nextPage = t.nextPage
    /\ t.revision <= u.revision
    /\ u.retired \subseteq t.retired
    /\ u.free = t.free \union {r.id : r \in t.retired \ u.retired}

LEMMA ReclaimedSafe ==
    ASSUME NEW t \in TreeRecord, NEW u \in TreeRecord, Reclaimed(u, t),
           NEW a, ArenaTyped(a), NEW dirty, Safe(t, dirty, a)
    PROVE  Safe(u, dirty, a)
<1>1. /\ RetiredIds(u) \subseteq RetiredIds(t) /\ Listed(u) = Listed(t) /\ InUse(u) = InUse(t)
  BY DEF Reclaimed, RetiredIds, Listed, InUse
<1>2. Kept(t, a) /\ Apart(t)
  BY DEF Safe, Kept
<1>3. Apart(u)
  <2>1. u.free \intersect RetiredIds(u) = {}
    BY <1>2 DEF Reclaimed, Apart, RetiredIds
  <2>2. u.free \union RetiredIds(u) \subseteq t.free \union RetiredIds(t)
    BY DEF Reclaimed, RetiredIds
  <2>3. \A r, s \in u.retired : r.id = s.id => r = s
    BY <1>2 DEF Reclaimed, Apart
  <2> QED
    BY <1>1, <1>2, <2>1, <2>2, <2>3 DEF Apart, Reclaimed
<1>4. \A i \in Slot : a.meta[i].revision <= u.revision
  <2> SUFFICES ASSUME NEW i \in Slot PROVE a.meta[i].revision <= u.revision
    OBVIOUS
  <2>1. a.meta[i].revision \in Int /\ a.meta[i].revision <= t.revision
    BY <1>2, ArenaFields, RootRevision DEF Kept
  <2>2. t.revision \in Int /\ u.revision \in Int /\ t.revision <= u.revision
    BY Bounds DEF TreeRecord, Revision, Reclaimed
  <2> QED
    BY <2>1, <2>2
<1>5. Kept(u, a)
  BY <1>1, <1>2, <1>3, <1>4 DEF Kept, Reclaimed
<1>6. Ahead(u, a)
  BY <1>1 DEF Safe, Ahead
<1>7. Covered(u, dirty, a)
  BY <1>1 DEF Safe, Covered, Reclaimed
<1> QED
  BY <1>5, <1>6, <1>7 DEF Safe

LEMMA ReclaimIs ==
    ASSUME NEW t \in TreeRecord
    PROVE  /\ ReclaimRetiredPages(t) \in TreeRecord /\ Reclaimed(ReclaimRetiredPages(t), t)
           /\ ReclaimRetiredPages(t).revision = t.revision
           /\ reader = NoReader => ReclaimRetiredPages(t).retired = {}
<1> DEFINE kept == {r \in t.retired : reader # NoReader /\ reader <= r.revision}
           ids == {r.id : r \in t.retired \ kept}
           u == ReclaimRetiredPages(t)
<1>1. u = [t EXCEPT !.retired = kept, !.free = @ \union ids]
  BY DEF ReclaimRetiredPages
<1>2. u \in TreeRecord /\ (reader = NoReader => u.retired = {})
  BY ReclaimTyped
<1>3. kept \subseteq t.retired
  OBVIOUS
<1> HIDE DEF kept, u
<1>4. /\ u.live = t.live /\ u.chain = t.chain /\ u.nextPage = t.nextPage
      /\ u.revision = t.revision /\ u.retired = kept /\ u.free = t.free \union ids
  BY <1>1 DEF TreeRecord
<1>5. u.revision \in Int
  BY <1>2, Bounds DEF TreeRecord, Revision
<1>6. Reclaimed(u, t)
  BY <1>3, <1>4, <1>5 DEF Reclaimed
<1> QED
  BY <1>2, <1>4, <1>6 DEF u

----------------------------------------------------------------------------
(* Mutations *)

\* The page that allocPage has found for t, and what is left of t.
Taken(u, id, t) ==
    /\ u.live = t.live /\ u.retired = t.retired /\ u.chain = t.chain /\ u.revision = t.revision
    /\ \/ id \in t.free /\ u.free = t.free \ {id} /\ u.nextPage = t.nextPage
       \/ id = t.nextPage /\ u.free = t.free /\ u.nextPage = t.nextPage + 1

LEMMA AllocationIs ==
    ASSUME NEW t \in TreeRecord, NEW a, Mapped(a), Held(a), Below(t, a),
           NEW o \in Allocations(t, a)
    PROVE  /\ Calmer(o.arena, a, a.capacity + FirstPage)
           /\ o.ok => /\ o.arena = a \/ Flushed(o.arena)
                      /\ Taken(o.tree, o.id, t)
<1>0. /\ t.nextPage \in Nat /\ t.nextPage <= a.capacity + FirstPage /\ ArenaTyped(a)
  BY Bounds DEF TreeRecord, FirstPage, Mapped, Below
<1>1. CASE t.free # {}
  <2>1. PICK id \in t.free :
           o = [ok |-> TRUE, moved |-> FALSE, id |-> id,
                tree |-> [t EXCEPT !.free = @ \ {id}], arena |-> a]
    BY <1>1 DEF Allocations
  <2> DEFINE u == [t EXCEPT !.free = @ \ {id}]
  <2>2. o.id = id /\ o.tree = u /\ o.arena = a
    BY <2>1
  <2>3. Taken(u, id, t)
    BY DEF TreeRecord, Taken
  <2>4. Calmer(a, a, a.capacity + FirstPage)
    BY <1>0, CalmerRefl
  <2> HIDE DEF u
  <2> QED
    BY <2>2, <2>3, <2>4
<1>2. CASE t.free = {}
  <2> DEFINE u == [t EXCEPT !.nextPage = @ + 1]
  <2>1. PICK g \in GrowMmapForPage(a, t.nextPage) :
           o = [ok |-> g.ok, moved |-> g.moved, id |-> t.nextPage, tree |-> u, arena |-> g.arena]
    BY <1>2 DEF Allocations
  <2>2. o.ok = g.ok /\ o.id = t.nextPage /\ o.tree = u /\ o.arena = g.arena
    BY <2>1
  <2>3. /\ Calmer(g.arena, a, a.capacity + FirstPage)
        /\ g.ok => g.arena = a \/ Flushed(g.arena)
    BY <1>0, GrowIs
  <2>4. Taken(u, t.nextPage, t)
    BY DEF TreeRecord, Taken
  <2> HIDE DEF u
  <2> QED
    BY <2>2, <2>3, <2>4
<1> QED
  BY <1>1, <1>2

\* The tree with a page written in place of those copied, which are retired.
Mutated(u, id, copied, t) ==
    /\ u.live = (t.live \ copied) \union {id}
    /\ u.chain = t.chain /\ u.revision = t.revision
    /\ RetiredIds(u) = RetiredIds(t) \union copied
    /\ \A r \in u.retired : r \in t.retired \/ (r.id \in copied /\ r.revision = t.revision)
    /\ u.retired \subseteq RetiredRecord
    /\ \/ id \in t.free /\ u.free = t.free \ {id} /\ u.nextPage = t.nextPage
       \/ id = t.nextPage /\ u.free = t.free /\ u.nextPage = t.nextPage + 1

\* copyPage, or a new page.
LEMMA MutatedIs ==
    ASSUME NEW t \in TreeRecord, NEW v \in TreeRecord, NEW id \in PageID, Taken(v, id, t),
           NEW copied \in SUBSET t.live, NEW w,
           w = [Retire(v, copied) EXCEPT !.live = (@ \ copied) \union {id}]
    PROVE  Mutated(w, id, copied, t)
<1> DEFINE ids == {id}
           u == Retire(v, copied)
           more == [id : copied, revision : {t.revision}]
<1>1. copied \subseteq PageID
  BY DEF TreeRecord
<1>2. /\ u \in TreeRecord /\ u.live = t.live /\ u.chain = t.chain
      /\ u.free = v.free /\ u.nextPage = v.nextPage /\ u.revision = t.revision
      /\ u.retired = t.retired \union more
  <2>1. u = [v EXCEPT !.retired = @ \union more]
    BY DEF Retire, Taken
  <2>2. u \in TreeRecord
    BY <1>1, RetireTyped
  <2> HIDE DEF u, more
  <2> QED
    BY <2>1, <2>2 DEF TreeRecord, Taken
<1>3. w = [u EXCEPT !.live = (@ \ copied) \union ids]
  OBVIOUS
<1> HIDE DEF u
<1>4. /\ w.live = (u.live \ copied) \union ids /\ w.retired = u.retired
      /\ w.chain = u.chain /\ w.free = u.free /\ w.nextPage = u.nextPage
      /\ w.revision = u.revision
  BY <1>2, <1>3 DEF TreeRecord
<1>5. RetiredIds(w) = RetiredIds(t) \union copied
  <2>1. {r.id : r \in more} = copied
    <3>1. ASSUME NEW c \in copied PROVE \E r \in more : r.id = c
      <4>1. [id |-> c, revision |-> t.revision] \in more
        OBVIOUS
      <4> QED
        BY <4>1
    <3> QED
      BY <3>1
  <2> QED
    BY <1>2, <1>4, <2>1 DEF RetiredIds
<1>6. \A r \in w.retired : r \in t.retired \/ (r.id \in copied /\ r.revision = t.revision)
  BY <1>2, <1>4
<1>7. w.retired \subseteq RetiredRecord
  BY <1>2, <1>4 DEF TreeRecord
<1> QED
  BY <1>2, <1>4, <1>5, <1>6, <1>7 DEF Mutated, Taken

LEMMA MutatedSafe ==
    ASSUME NEW t \in TreeRecord, NEW u, NEW id, NEW copied \in SUBSET t.live, Mutated(u, id, copied, t),
           NEW a, Mapped(a), Roots(a), Safe(t, a.dirty, a),
           NEW ids, ids = {id},
           NEW d, Marked(d, a, ids), d.stale = a.stale \ ids, d.dirty = a.dirty \union ids,
           d.chainBytes = a.chainBytes \ ids
    PROVE  Safe(u, d.dirty, d)
<1>0. /\ Kept(t, a) /\ Ahead(t, a) /\ Covered(t, a.dirty, a) /\ Apart(t) /\ ArenaTyped(a)
      /\ t.nextPage \in Nat /\ t.nextPage >= FirstPage
  BY Bounds DEF Safe, Kept, Mapped, TreeRecord, FirstPage
<1>1. /\ id \notin t.live \union t.chain \union RetiredIds(t) /\ id \notin copied
      /\ Listed(u) = Listed(t) \union ids
  <2>1. CASE id \in t.free /\ u.free = t.free \ {id} /\ u.nextPage = t.nextPage
    BY <1>0, <2>1 DEF Apart, InUse, Listed
  <2>2. CASE id = t.nextPage /\ u.free = t.free /\ u.nextPage = t.nextPage + 1
    <3>1. id \notin Listed(t)
      BY <1>0, <2>2 DEF Listed, FirstPage
    <3>2. Listed(u) = Listed(t) \union ids
      BY <1>0, <2>2 DEF Listed, FirstPage
    <3> QED
      BY <1>0, <3>1, <3>2 DEF Apart, InUse
  <2> QED
    BY <2>1, <2>2 DEF Mutated
<1>2. (d.chainBytes \ a.chainBytes) = {}
  OBVIOUS
<1>3. Kept(t, d) /\ Ahead(t, d)
  BY <1>0, <1>2, MarkedKept
<1>4. InUse(u) \subseteq InUse(t) \union ids
  BY DEF Mutated, InUse
<1>5. Apart(u)
  <2>1. /\ u.live \intersect u.chain = {}
        /\ InUse(u) \union u.chain \subseteq Listed(u)
    BY <1>0, <1>1, <1>4 DEF Mutated, Apart
  <2>2. u.free \subseteq t.free /\ id \notin u.free
    <3>1. CASE id \in t.free /\ u.free = t.free \ {id}
      BY <3>1
    <3>2. CASE id = t.nextPage /\ u.free = t.free
      <4>1. id \notin Listed(t)
        BY <1>0, <3>2 DEF Listed, FirstPage
      <4> QED
        BY <1>0, <3>2, <4>1 DEF Apart, InUse
    <3> QED
      BY <3>1, <3>2 DEF Mutated
  <2>3. (u.free \union RetiredIds(u)) \intersect (u.live \union u.chain) = {}
    BY <1>0, <1>1, <2>2 DEF Mutated, Apart
  <2>4. u.free \intersect RetiredIds(u) = {}
    BY <1>0, <2>2 DEF Mutated, Apart
  <2>5. ASSUME NEW r \in u.retired, NEW s \in u.retired, r.id = s.id PROVE r = s
    <3>1. \A x \in t.retired : x.id \notin copied
      BY <1>0 DEF Apart, RetiredIds
    <3>2. CASE r \in t.retired /\ s \in t.retired
      BY <1>0, <2>5, <3>2 DEF Apart
    <3>3. CASE r.id \in copied /\ r.revision = t.revision /\ s.id \in copied /\ s.revision = t.revision
      BY <2>5, <3>3 DEF Mutated, RetiredRecord
    <3> QED
      BY <2>5, <3>1, <3>2, <3>3 DEF Mutated
  <2> QED
    BY <2>1, <2>3, <2>4, <2>5 DEF Apart
<1>6. ASSUME NEW i \in Slot, NEW s \in d.disk.meta[i], Intact(s)
      PROVE  ids \intersect s.chain = {}
  <2>1. a.disk.meta[i] \subseteq Root
    BY <1>0, ArenaFields
  <2>2. d.disk.meta[i] = {Spoilt(r, ids) : r \in a.disk.meta[i]}
    BY DEF Marked
  <2>3. PICK r \in a.disk.meta[i] : r \in Root /\ s = Spoilt(r, ids)
    BY <2>1, <2>2
  <2>4. ids \intersect (r.live \union r.chain) = {} /\ r # Zero
    BY <1>6, <2>3, SpoiltIs DEF Intact
  <2>5. s.chain = r.chain
    BY <2>3, <2>4, SpoiltIs
  <2> QED
    BY <2>4, <2>5
<1>7. Kept(u, d)
  <2>1. d.chainBytes \intersect (u.live \union RetiredIds(u)) = {}
    BY <1>0 DEF Kept, Mutated
  <2>2. d.stale \intersect (u.live \union u.chain \union RetiredIds(u)) = {}
    BY <1>0 DEF Kept, Mutated
  <2>3. ASSUME NEW i \in Slot, NEW s \in d.disk.meta[i], Intact(s)
        PROVE  /\ s.chain \intersect InUse(u) = {}
               /\ s # d.meta[i] => s.chain \intersect Listed(u) = {}
    BY <1>1, <1>3, <1>4, <1>6, <2>3 DEF Kept
  <2>4. \A i \in Slot : d.meta[i].revision <= u.revision
    BY <1>3 DEF Kept, Mutated
  <2> QED
    BY <1>5, <2>1, <2>2, <2>3, <2>4 DEF Kept
<1>8. Ahead(u, d)
  BY <1>1, <1>3 DEF Ahead
<1>9. Covered(u, d.dirty, d)
  BY <1>0, <1>1 DEF Covered, Marked, Mutated
<1> QED
  BY <1>7, <1>8, <1>9 DEF Safe

\* Pages of another tree are written, or free pages are punched.
LEMMA MarkedSafe ==
    ASSUME NEW a, ArenaTyped(a), Roots(a), NEW ids, NEW d, Marked(d, a, ids),
           d.chainBytes \subseteq a.chainBytes,
           NEW v, NEW dirty, Safe(v, dirty, a), ids \intersect (v.live \union v.chain) = {}
    PROVE  Safe(v, dirty, d)
<1>1. (d.chainBytes \ a.chainBytes) = {}
  OBVIOUS
<1>2. Kept(v, d) /\ Ahead(v, d)
  BY <1>1, MarkedKept DEF Safe
<1>3. Covered(v, dirty, d)
  BY MarkedCovered DEF Safe
<1> QED
  BY <1>2, <1>3 DEF Safe

LEMMA CalmerSafe ==
    ASSUME NEW a, ArenaTyped(a), NEW u \in TreeRecord, NEW k \in Nat, u.nextPage <= k,
           NEW b, Calmer(b, a, k), NEW dirty, Safe(u, dirty, a)
    PROVE  Safe(u, dirty, b)
BY CalmerCarried DEF Carried, Safe

----------------------------------------------------------------------------
(* The invariant *)

\* A meta page whose sync has failed is not on disk once the process has ended.
Settled == status = "down" => \A i \in Slot : arena.disk.meta[i] = {arena.meta[i]}

\* What a batch has done since it began: the pages that it took were free, or new.
Since(t, b) ==
    /\ t.free \subseteq b.tree.free
    /\ b.tree.nextPage <= t.nextPage
    /\ b.replaced \union b.lost \subseteq b.tree.free

RootsInv ==
    /\ Roots(arena)
    /\ Running => Safe(tree, arena.dirty, arena) /\ Reach(arena, arena.capacity + FirstPage)
    /\ batch.active => /\ status = "open"
                       /\ Safe(batch.tree, batch.dirty, arena)
                       /\ Since(tree, batch)
    /\ status = "down" => arena.stale = {}

\* What a rollback brings back.
LEMMA RollbackSafe ==
    ASSUME batch \in BatchRecord, NEW a, Mapped(a), Roots(a), Safe(batch.tree, batch.dirty, a),
           batch.lost \subseteq batch.tree.free, NEW b, b = Rollback(a)
    PROVE  /\ Roots(b) /\ (\A n : Reach(a, n) => Reach(b, n))
           /\ b.dirty = batch.dirty /\ Safe(batch.tree, b.dirty, b)
           /\ b.capacity = a.capacity
<1>1. /\ SameDisk(b, a) /\ b.capacity = a.capacity
      /\ b.dirty = batch.dirty /\ b.stale \subseteq a.stale \union batch.lost
  BY DEF Rollback, BatchRecord, Mapped, ArenaTyped, ArenaRecord, SameDisk
<1>2. b.stale \intersect (batch.tree.live \union batch.tree.chain \union RetiredIds(batch.tree)) = {}
  BY <1>1 DEF Safe, Kept, Apart
<1>3. Safe(batch.tree, batch.dirty, b)
  BY <1>1, <1>2, SameDiskSafe
<1> QED
  BY <1>1, <1>3, SameDiskRoots

LEMMA ReachMore ==
    ASSUME NEW a, ArenaTyped(a), Roots(a), NEW m \in Nat, Reach(a, m), NEW n \in Nat, m <= n
    PROVE  Reach(a, n)
<1> SUFFICES ASSUME NEW r \in Openable(a) PROVE r.nextPage <= n
  BY DEF Reach
<1>1. r \in MetaRecord /\ r.nextPage <= m
  BY ArenaFields DEF Roots, Fitting, Reach, Root
<1>2. r.nextPage \in Nat
  BY <1>1, Bounds DEF MetaRecord, FirstPage
<1> QED
  BY <1>1, <1>2

LEMMA StageRoots ==
    ASSUME Inv, Inv', RootsInv, NEW copied \in SUBSET tree.live, Stage(copied)
    PROVE  RootsInv'
<1>1. /\ status = "open" /\ status' = "open" /\ Running /\ Running'
      /\ tree.free # {} \/ tree.nextPage <= MaxPage
  BY DEF Stage, Running
<1>2. batch \in BatchRecord /\ batch.active /\ batch.tree \in TreeRecord
  <2>1. batch \in BatchRecord /\ batch.active
    BY DEF Stage, Inv, NoBatch
  <2> QED
    BY <2>1 DEF BatchRecord
<1>3. /\ Mapped(arena) /\ ArenaTyped(arena) /\ Below(tree, arena) /\ Below(batch.tree, arena)
      /\ tree \in TreeRecord /\ arena.capacity + FirstPage \in Nat
      /\ tree.nextPage \in Nat /\ tree.nextPage <= arena.capacity + FirstPage
      /\ batch.tree.nextPage \in Nat /\ batch.tree.nextPage <= arena.capacity + FirstPage
  <2>1. Mapped(arena) /\ Below(tree, arena) /\ Below(batch.tree, arena) /\ tree \in TreeRecord
    BY <1>1, <1>2 DEF Inv, Inside
  <2> QED
    BY <1>2, <2>1, Bounds, ArenaFields DEF Mapped, Below, TreeRecord, FirstPage
<1>4. /\ Roots(arena) /\ Held(arena) /\ Safe(tree, arena.dirty, arena)
      /\ Reach(arena, arena.capacity + FirstPage)
      /\ Safe(batch.tree, batch.dirty, arena) /\ Since(tree, batch)
  BY <1>1, <1>2 DEF RootsInv, Roots
<1>5. PICK o \in Allocations(tree, arena) :
         IF o.ok
         THEN /\ tree' = [Retire(o.tree, copied) EXCEPT !.live = (@ \ copied) \union {o.id}]
              /\ arena' = Written(o.arena, {o.id})
              /\ batch' = Saved(o)
         ELSE /\ tree' = batch.tree
              /\ arena' = Rollback(o.arena)
              /\ batch' = NoBatch
  BY DEF Stage
<1>6. /\ Mapped(o.arena) /\ o.arena.capacity >= arena.capacity /\ o.id \in PageID
      /\ o.ok \in BOOLEAN
      /\ o.ok => o.tree \in TreeRecord /\ Below(o.tree, o.arena)
  BY <1>1, <1>3, AllocationMapped
<1>7. /\ Calmer(o.arena, arena, arena.capacity + FirstPage)
      /\ o.ok => /\ o.arena = arena \/ Flushed(o.arena)
                 /\ Taken(o.tree, o.id, tree)
  BY <1>3, <1>4, AllocationIs
<1>8. /\ Roots(o.arena) /\ Safe(batch.tree, batch.dirty, o.arena) /\ ArenaTyped(o.arena)
      /\ Safe(tree, arena.dirty, o.arena)
      /\ o.arena.capacity + FirstPage \in Nat /\ Reach(o.arena, o.arena.capacity + FirstPage)
  <2>1. Roots(o.arena) /\ (\A n : Reach(arena, n) => Reach(o.arena, n))
    BY <1>3, <1>4, <1>7, CalmerRoots
  <2>2. Safe(batch.tree, batch.dirty, o.arena)
    BY <1>2, <1>3, <1>4, <1>7, CalmerSafe
  <2>3. Safe(tree, arena.dirty, o.arena)
    BY <1>3, <1>4, <1>7, CalmerSafe
  <2>4. /\ o.arena.capacity + FirstPage \in Nat /\ ArenaTyped(o.arena)
        /\ arena.capacity + FirstPage <= o.arena.capacity + FirstPage
    BY <1>3, <1>6, ArenaFields DEF Mapped, FirstPage
  <2>5. Reach(o.arena, o.arena.capacity + FirstPage)
    BY <1>3, <1>4, <2>1, <2>4, ReachMore
  <2> QED
    BY <2>1, <2>2, <2>3, <2>4, <2>5
<1>9. CASE o.ok
  <2> DEFINE ids == {o.id}
             u == Retire(o.tree, copied)
  <2>1. /\ tree' = [u EXCEPT !.live = (@ \ copied) \union ids]
        /\ arena' = Written(o.arena, ids)
        /\ batch' = Saved(o)
    BY <1>5, <1>9
  <2>2. o.tree \in TreeRecord /\ Taken(o.tree, o.id, tree)
    BY <1>6, <1>7, <1>9
  <2>3. copied \subseteq PageID /\ copied \subseteq tree.live /\ ids \in SUBSET PageID
    BY <1>3, <1>6 DEF TreeRecord
  <2> HIDE DEF u
  <2>5. Mutated(tree', o.id, copied, tree)
    BY <1>3, <1>6, <2>1, <2>2, MutatedIs DEF u
  <2>6. /\ ArenaTyped(arena') /\ Marked(arena', o.arena, ids)
        /\ arena'.chainBytes = o.arena.chainBytes \ ids
        /\ arena'.stale = o.arena.stale \ ids /\ arena'.dirty = o.arena.dirty \union ids
        /\ arena'.capacity = o.arena.capacity
    BY <1>8, <2>1, <2>3, WrittenFields
  <2>7. Safe(tree, o.arena.dirty, o.arena)
    <3>1. CASE o.arena = arena
      BY <1>4, <3>1
    <3>2. CASE Flushed(o.arena)
      <4>1. Below(tree, o.arena)
        BY <1>3, <1>6, ArenaFields DEF Below, FirstPage, Mapped
      <4>2. Covered(tree, o.arena.dirty, o.arena)
        BY <1>3, <1>6, <3>2, <4>1, FlushedCovered
      <4> QED
        BY <1>8, <4>2 DEF Safe
    <3> QED
      BY <1>7, <1>9, <3>1, <3>2
  <2>8. Safe(tree', arena'.dirty, arena')
    <3>1. ids = {o.id}
      OBVIOUS
    <3> HIDE DEF ids
    <3> QED
      BY <1>3, <1>6, <1>8, <2>3, <2>5, <2>6, <2>7, <3>1, MutatedSafe
  <2>9. /\ Roots(arena') /\ Reach(arena', arena'.capacity + FirstPage)
    <3>1. \A n \in Openable(o.arena) : (arena'.chainBytes \ o.arena.chainBytes) \intersect RetiredIds(n) = {}
      BY <2>6
    <3> HIDE DEF ids
    <3>2. Roots(arena') /\ (\A k : Reach(o.arena, k) => Reach(arena', k))
      BY <1>8, <2>6, <3>1, MarkedRoots
    <3> QED
      BY <1>8, <2>6, <3>2
  <2>10. /\ o.id \in tree.free \/ o.id = tree.nextPage
         /\ o.id \notin Listed(batch.tree) \/ o.id \in batch.tree.free
         /\ tree'.free \subseteq batch.tree.free /\ batch.tree.nextPage <= tree'.nextPage
    <3>1. tree.free \subseteq batch.tree.free /\ batch.tree.nextPage <= tree.nextPage
      BY <1>4 DEF Since
    <3>2. CASE o.id \in tree.free /\ tree'.free = tree.free \ {o.id} /\ tree'.nextPage = tree.nextPage
      BY <3>1, <3>2
    <3>3. CASE o.id = tree.nextPage /\ tree'.free = tree.free /\ tree'.nextPage = tree.nextPage + 1
      BY <1>3, <3>1, <3>3 DEF Listed, FirstPage
    <3> QED
      BY <2>5, <3>2, <3>3 DEF Mutated
  <2>11. ids \intersect (batch.tree.live \union batch.tree.chain) = {}
    BY <1>4, <2>10 DEF Safe, Kept, Apart, InUse
  <2>12. Safe(batch.tree, batch.dirty, arena')
    <3> HIDE DEF ids
    <3> QED
      BY <1>8, <2>6, <2>11, MarkedSafe
  <2>13. /\ batch'.tree = batch.tree /\ batch'.dirty = batch.dirty
         /\ batch'.replaced \union batch'.lost \subseteq batch.tree.free
    <3> DEFINE lost == IF o.moved THEN batch.replaced ELSE {}
               again == ids \intersect Listed(batch.tree)
               spent == lost \union (again \intersect arena.stale)
    <3>1. lost \subseteq batch.tree.free /\ again \subseteq batch.tree.free
      BY <1>4, <2>10 DEF Since
    <3>2. batch' = [batch EXCEPT !.changed = TRUE, !.replaced = @ \union again,
                                 !.lost = @ \union spent]
      BY <2>1 DEF Saved
    <3>3. spent \subseteq batch.tree.free
      BY <3>1
    <3> HIDE DEF again, spent
    <3>4. /\ batch'.tree = batch.tree /\ batch'.dirty = batch.dirty
          /\ batch'.replaced = batch.replaced \union again /\ batch'.lost = batch.lost \union spent
      BY <1>2, <3>2 DEF BatchRecord
    <3> QED
      BY <1>4, <3>1, <3>3, <3>4 DEF Since
  <2> QED
    BY <1>1, <2>8, <2>9, <2>10, <2>12, <2>13 DEF RootsInv, Since
<1>10. CASE ~o.ok
  <2>1. tree' = batch.tree /\ arena' = Rollback(o.arena) /\ batch' = NoBatch
    BY <1>5, <1>10
  <2>2. /\ Roots(arena') /\ (\A n : Reach(o.arena, n) => Reach(arena', n))
        /\ Safe(tree', arena'.dirty, arena') /\ arena'.capacity = o.arena.capacity
    BY <1>2, <1>4, <1>6, <1>8, <2>1, RollbackSafe DEF Since
  <2> QED
    BY <1>1, <1>8, <2>1, <2>2 DEF RootsInv, NoBatch
<1> QED
  BY <1>6, <1>9, <1>10

\* The steps that only reclaim.
LEMMA ReclaimingIs ==
    ASSUME Inv, CommitEnd \/ SnapshotOpen \/ SnapshotClose \/ CompactNothing
    PROVE  /\ tree' \in TreeRecord /\ Reclaimed(tree', tree)
           /\ batch' = NoBatch /\ UNCHANGED <<status, arena>>
<1>0. tree \in TreeRecord /\ tree.revision \in Int
  BY Bounds DEF Inv, TreeRecord, Revision
<1>1. CASE CommitEnd
  <2> DEFINE u == [tree EXCEPT !.revision = @ + 1]
  <2>1. tree.revision < MaxRevision
    BY <1>1 DEF CommitEnd, Inv, NoBatch
  <2>2. /\ u \in TreeRecord /\ u.nextPage = tree.nextPage /\ u.live = tree.live
        /\ u.free = tree.free /\ u.chain = tree.chain /\ u.retired = tree.retired
        /\ u.revision = tree.revision + 1
    <3>1. tree.revision + 1 \in Revision
      BY <1>0, <2>1, Bounds DEF TreeRecord, Revision
    <3> QED
      BY <1>0, <3>1 DEF TreeRecord
  <2>3. tree' = ReclaimRetiredPages(u) /\ batch' = NoBatch /\ UNCHANGED <<status, arena, target>>
    BY <1>1 DEF CommitEnd
  <2> HIDE DEF u
  <2>4. tree' \in TreeRecord /\ Reclaimed(tree', u) /\ tree'.revision = u.revision
    BY <2>2, <2>3, ReclaimIs
  <2>5. Reclaimed(tree', tree)
    <3>1. tree.revision <= tree'.revision
      BY <1>0, <2>2, <2>4, Bounds DEF TreeRecord, Revision
    <3> QED
      BY <2>2, <2>4, <3>1 DEF Reclaimed
  <2> QED
    BY <2>3, <2>4, <2>5
<1>2. CASE SnapshotOpen
  <2>1. Reclaimed(tree, tree)
    BY <1>0 DEF Reclaimed
  <2> QED
    BY <1>0, <1>2, <2>1, IdleBatch DEF SnapshotOpen
<1>3. CASE SnapshotClose
  <2> DEFINE ids == {r.id : r \in tree.retired}
  <2>1. tree' = [tree EXCEPT !.retired = {}, !.free = @ \union ids]
    BY <1>3 DEF SnapshotClose
  <2>2. ids \subseteq PageID
    BY <1>0 DEF TreeRecord, RetiredRecord
  <2> HIDE DEF ids
  <2>3. /\ tree' \in TreeRecord /\ tree'.nextPage = tree.nextPage /\ tree'.live = tree.live
        /\ tree'.chain = tree.chain /\ tree'.revision = tree.revision /\ tree'.retired = {}
        /\ tree'.free = tree.free \union ids
    BY <1>0, <2>1, <2>2 DEF TreeRecord
  <2>4. Reclaimed(tree', tree)
    BY <1>0, <2>3 DEF Reclaimed, ids
  <2> QED
    BY <1>0, <1>3, <2>3, <2>4, IdleBatch DEF SnapshotClose
<1>4. CASE CompactNothing
  <2>1. tree' = ReclaimRetiredPages(tree) /\ batch' = NoBatch /\ UNCHANGED <<status, arena>>
    BY <1>4, IdleBatch DEF CompactNothing
  <2> QED
    BY <1>0, <2>1, ReclaimIs
<1> QED
  BY <1>1, <1>2, <1>3, <1>4

\* A step that leaves the file alone, and the tree or what it reclaims.
LEMMA ReclaimedRoots ==
    ASSUME RootsInv, Inv, UNCHANGED <<status, arena>>, batch' = NoBatch,
           tree' \in TreeRecord, Running => Reclaimed(tree', tree)
    PROVE  RootsInv'
<1>1. tree \in TreeRecord /\ ArenaTyped(arena)
  BY DEF Inv
<1>2. Running' = Running /\ ~batch'.active
  BY DEF Running, NoBatch
<1>3. ASSUME Running PROVE Safe(tree', arena'.dirty, arena')
  BY <1>1, <1>3, ReclaimedSafe DEF RootsInv
<1> QED
  BY <1>2, <1>3 DEF RootsInv

\* A page is merged away.
Dropped(w, id, t) ==
    /\ w.live = t.live \ {id} /\ w.free = t.free /\ w.chain = t.chain
    /\ w.nextPage = t.nextPage /\ w.revision = t.revision
    /\ w.retired = t.retired \union [id : {id}, revision : {t.revision}]

LEMMA DropIs ==
    ASSUME NEW t \in TreeRecord, NEW id \in t.live
    PROVE  Dropped([Retire(t, {id}) EXCEPT !.live = @ \ {id}], id, t)
<1> DEFINE u == Retire(t, {id})
           w == [u EXCEPT !.live = @ \ {id}]
           more == [id : {id}, revision : {t.revision}]
<1>1. {id} \subseteq PageID
  BY DEF TreeRecord
<1>2. u = [t EXCEPT !.retired = @ \union more] /\ u \in TreeRecord
  BY <1>1, RetireTyped DEF Retire
<1> SUFFICES Dropped(w, id, t)
  OBVIOUS
<1> HIDE DEF u, more
<1>3. /\ u.live = t.live /\ u.free = t.free /\ u.chain = t.chain
      /\ u.nextPage = t.nextPage /\ u.revision = t.revision
      /\ u.retired = t.retired \union more
  BY <1>2 DEF TreeRecord
<1>4. /\ w.live = t.live \ {id} /\ w.free = t.free /\ w.chain = t.chain
      /\ w.nextPage = t.nextPage /\ w.revision = t.revision
      /\ w.retired = t.retired \union more
  BY <1>2, <1>3 DEF TreeRecord
<1> HIDE DEF w
<1> QED
  BY <1>4 DEF Dropped, more

LEMMA DropSafe ==
    ASSUME NEW t \in TreeRecord, NEW id \in t.live, NEW u, Dropped(u, id, t),
           NEW dirty, NEW a, Safe(t, dirty, a)
    PROVE  Safe(u, dirty, a)
<1>0. /\ u.live = t.live \ {id} /\ u.free = t.free /\ u.chain = t.chain
      /\ u.nextPage = t.nextPage /\ u.revision = t.revision
      /\ u.retired = t.retired \union [id : {id}, revision : {t.revision}]
  BY DEF Dropped
<1>1. Kept(t, a) /\ Apart(t)
  BY DEF Safe, Kept
<1>2. \A r : r \in [id : {id}, revision : {t.revision}] <=> r = [id |-> id, revision |-> t.revision]
  OBVIOUS
<1>3. RetiredIds(u) = RetiredIds(t) \union {id}
  <2> DEFINE r == [id |-> id, revision |-> t.revision]
  <2>1. u.retired = t.retired \union {r} /\ r.id = id
    BY <1>0, <1>2
  <2> HIDE DEF r
  <2> QED
    BY <2>1 DEF RetiredIds
<1>4. Listed(u) = Listed(t) /\ InUse(u) = InUse(t)
  BY <1>0, <1>3 DEF Listed, InUse
<1>5. Apart(u)
  <2>1. \A r, s \in u.retired : r.id = s.id => r = s
    <3>1. \A r \in t.retired : r.id # id
      BY <1>1 DEF Apart, RetiredIds
    <3>2. \A r \in u.retired : r \in t.retired \/ r = [id |-> id, revision |-> t.revision]
      BY <1>0, <1>2
    <3>3. \A r, s \in t.retired : r.id = s.id => r = s
      BY <1>1 DEF Apart
    <3> QED
      BY <3>1, <3>2, <3>3
  <2>2. (u.free \union RetiredIds(u)) \intersect (u.live \union u.chain) = {}
    BY <1>0, <1>1, <1>3 DEF Apart
  <2>3. u.free \intersect RetiredIds(u) = {}
    BY <1>0, <1>1, <1>3 DEF Apart
  <2>4. u.live \intersect u.chain = {} /\ InUse(u) \union u.chain \subseteq Listed(u)
    BY <1>0, <1>1, <1>4 DEF Apart
  <2> QED
    BY <2>1, <2>2, <2>3, <2>4 DEF Apart
<1>6. Kept(u, a)
  <2>1. /\ a.chainBytes \intersect (u.live \union RetiredIds(u)) = {}
        /\ a.stale \intersect (u.live \union u.chain \union RetiredIds(u)) = {}
    BY <1>0, <1>1, <1>3 DEF Kept
  <2> QED
    BY <1>0, <1>1, <1>4, <1>5, <2>1 DEF Kept
<1> QED
  BY <1>0, <1>4, <1>6 DEF Safe, Ahead, Covered

LEMMA BatchRoots ==
    ASSUME Inv, Inv', RootsInv,
           CommitBegin \/ (\E id \in tree.live : StageDrop(id)) \/ CommitPanic \/ CommitEnd
    PROVE  RootsInv'
<1>1. tree \in TreeRecord /\ ArenaTyped(arena)
  BY DEF Inv
<1>2. CASE CommitBegin
  <2> DEFINE b == [active |-> TRUE, changed |-> FALSE, tree |-> tree, dirty |-> arena.dirty,
                   replaced |-> {}, lost |-> {}]
  <2>1. b.tree = tree /\ b.dirty = arena.dirty /\ b.replaced = {} /\ b.lost = {}
    OBVIOUS
  <2>2. /\ status = "open" /\ batch' = b
        /\ UNCHANGED <<status, tree, arena, target>>
    BY <1>2 DEF CommitBegin, Idle
  <2>3. Running /\ Running'
    BY <2>2 DEF Running
  <2> HIDE DEF b
  <2>4. Safe(tree, arena.dirty, arena) /\ Reach(arena, arena.capacity + FirstPage) /\ Roots(arena)
    BY <2>3 DEF RootsInv
  <2>5. Since(tree, b)
    <3>1. tree.nextPage \in Int
      BY <1>1, Bounds DEF TreeRecord, FirstPage
    <3> QED
      BY <2>1, <3>1 DEF Since
  <2> QED
    BY <2>1, <2>2, <2>3, <2>4, <2>5 DEF RootsInv
<1>3. CASE \E id \in tree.live : StageDrop(id)
  <2>1. PICK id \in tree.live : StageDrop(id)
    BY <1>3
  <2>2. /\ tree' = [Retire(tree, {id}) EXCEPT !.live = @ \ {id}]
        /\ batch' = [batch EXCEPT !.changed = TRUE]
        /\ status = "open" /\ batch.active
        /\ UNCHANGED <<status, arena, target>>
    BY <2>1 DEF StageDrop
  <2>3. Dropped(tree', id, tree)
    <3>1. Dropped([Retire(tree, {id}) EXCEPT !.live = @ \ {id}], id, tree)
      BY <1>1, DropIs
    <3> QED
      BY <2>2, <3>1, Zenon
  <2>4. Running /\ Running' /\ batch \in BatchRecord
    BY <2>2 DEF Running, Inv, NoBatch
  <2>5. Safe(tree, arena.dirty, arena) /\ Safe(batch.tree, batch.dirty, arena) /\ Since(tree, batch)
    BY <2>2, <2>4 DEF RootsInv
  <2>6. Safe(tree', arena'.dirty, arena')
    BY <1>1, <2>2, <2>3, <2>5, DropSafe
  <2>7. /\ batch'.tree = batch.tree /\ batch'.dirty = batch.dirty
         /\ batch'.replaced = batch.replaced /\ batch'.lost = batch.lost
    BY <2>2, <2>4 DEF BatchRecord
  <2>8. Since(tree', batch')
    BY <2>3, <2>5, <2>7 DEF Since, Dropped
  <2>9. Roots(arena') /\ Reach(arena', arena'.capacity + FirstPage) /\ status' = "open"
    BY <2>2, <2>4 DEF RootsInv
  <2>10. Safe(batch'.tree, batch'.dirty, arena')
    BY <2>2, <2>5, <2>7
  <2> QED
    BY <2>6, <2>8, <2>9, <2>10 DEF RootsInv
<1>4. CASE CommitPanic
  <2>1. /\ status = "open" /\ batch.active
        /\ tree' = batch.tree /\ arena' = Rollback(arena) /\ batch' = NoBatch
        /\ UNCHANGED <<status, target>>
    BY <1>4 DEF CommitPanic
  <2>2. batch \in BatchRecord /\ Mapped(arena) /\ Running /\ Running'
    BY <2>1 DEF Inv, Inside, Running, NoBatch
  <2>3. /\ Roots(arena) /\ Reach(arena, arena.capacity + FirstPage)
        /\ Safe(batch.tree, batch.dirty, arena) /\ batch.lost \subseteq batch.tree.free
    BY <2>1, <2>2 DEF RootsInv, Since
  <2>4. /\ Roots(arena') /\ (\A n : Reach(arena, n) => Reach(arena', n))
        /\ Safe(tree', arena'.dirty, arena') /\ arena'.capacity = arena.capacity
    BY <2>1, <2>2, <2>3, RollbackSafe
  <2> QED
    BY <2>1, <2>2, <2>3, <2>4 DEF RootsInv, NoBatch
<1>5. CASE CommitEnd
  BY <1>5, ReclaimingIs, ReclaimedRoots
<1> QED
  BY <1>2, <1>3, <1>4, <1>5

LEMMA SnapshotRoots ==
    ASSUME Inv, RootsInv, SnapshotOpen \/ SnapshotClose \/ CompactNothing
    PROVE  RootsInv'
BY ReclaimingIs, ReclaimedRoots

LEMMA SyncRoots ==
    ASSUME Inv, Inv', RootsInv, Sync
    PROVE  RootsInv'
<1>1. /\ batch = NoBatch /\ Mapped(arena) /\ Below(tree, arena) /\ tree \in TreeRecord
      /\ status = "open"
  BY IdleBatch DEF Sync, Inv, Idle
<1>2. PICK o \in Persisted(tree, arena) :
         /\ tree' = o.tree
         /\ arena' = o.arena
         /\ status' = IF o.ok THEN AfterReads(o.tree, o.arena, "open") ELSE "open"
  BY DEF Sync
<1>3. /\ NeedsChain(tree) => tree.nextPage <= MaxPage
      /\ batch' = NoBatch /\ status' # "down"
  BY <1>1, <1>2 DEF Sync, AfterReads
<1>4. /\ Roots(arena) /\ Safe(tree, arena.dirty, arena)
      /\ Reach(arena, arena.capacity + FirstPage)
  BY <1>1 DEF RootsInv, Running
<1> DEFINE k == arena.capacity + FirstPage
<1>5. k \in Nat /\ tree.nextPage <= k /\ ArenaTyped(arena)
  BY <1>1, ArenaFields DEF Mapped, Below, FirstPage
<1>6. Publishing(tree, arena, k)
  BY <1>1, <1>3, <1>4, <1>5 DEF Publishing, Safe
<1>7. Published(o, tree, arena, k)
  <2> HIDE DEF k
  <2> QED
    BY <1>1, <1>6, PersistedIs
<1>8. o.arena.capacity \in Nat /\ o.arena.capacity >= arena.capacity /\ ArenaTyped(o.arena)
  <2>1. Mapped(o.arena) /\ o.arena.capacity >= arena.capacity
    BY <1>1, <1>3, PersistedMapped
  <2> QED
    BY <2>1, ArenaFields DEF Mapped
<1>9. Reach(o.arena, o.arena.capacity + FirstPage)
  BY <1>1, <1>7, <1>8, ArenaFields DEF Published, FirstPage, Mapped
<1>10. Safe(o.tree, o.arena.dirty, o.arena)
  <2>1. CASE o.ok
    BY <1>7, <2>1 DEF Published
  <2>2. CASE ~o.ok
    <3>1. /\ o.tree = tree /\ o.arena.dirty = arena.dirty
          /\ \A u : Staying(u, tree, k) => Carried(u, o.arena, arena)
      BY <1>7, <2>2 DEF Published
    <3>2. Staying(tree, tree, k)
      <4>1. tree.nextPage \in Int /\ RetiredIds(tree) \subseteq Listed(tree)
        BY <1>1, <1>4, Bounds DEF TreeRecord, FirstPage, Safe, Kept, Apart, InUse
      <4> QED
        BY <1>1, <1>5, <4>1 DEF Staying
    <3>3. Carried(tree, o.arena, arena)
      BY <3>1, <3>2
    <3> QED
      BY <1>4, <3>1, <3>3 DEF Carried, Safe
  <2> QED
    BY <2>1, <2>2
<1>11. Roots(o.arena)
  BY <1>7 DEF Published
<1> QED
  BY <1>2, <1>3, <1>9, <1>10, <1>11 DEF RootsInv, NoBatch

\* The tree without its free tail has in the cut arena what it had before.
LEMMA CutSafe ==
    ASSUME NEW before \in TreeRecord, NEW trimmed \in TreeRecord, NEW removed,
           trimmed.nextPage <= before.nextPage,
           removed = trimmed.nextPage..(before.nextPage - 1), removed \subseteq before.free,
           trimmed.live = before.live, trimmed.chain = before.chain,
           trimmed.revision = before.revision, before.retired = {}, trimmed.retired = {},
           trimmed.free = before.free \ removed,
           NEW dirty, NEW a, Safe(before, dirty, a)
    PROVE  Kept(trimmed, a) /\ Covered(trimmed, dirty \ removed, a)
<1>1. Kept(before, a) /\ Apart(before) /\ Covered(before, dirty, a)
  BY DEF Safe, Kept
<1>2. RetiredIds(before) = {} /\ RetiredIds(trimmed) = {}
  BY DEF RetiredIds
<1>3. trimmed.nextPage \in Nat /\ before.nextPage \in Nat
  BY Bounds DEF TreeRecord, FirstPage
<1>4. Listed(trimmed) = Listed(before) \ removed
  BY <1>3 DEF Listed, FirstPage, TreeRecord
<1>5. InUse(trimmed) \union trimmed.chain \subseteq Listed(trimmed)
  BY <1>1, <1>2, <1>4 DEF InUse, Apart
<1>6. Apart(trimmed)
  BY <1>1, <1>2, <1>5 DEF Apart
<1>7. InUse(trimmed) \subseteq InUse(before)
  BY <1>2 DEF InUse
<1>8. Kept(trimmed, a)
  BY <1>1, <1>2, <1>4, <1>6, <1>7 DEF Kept
<1>9. Covered(trimmed, dirty \ removed, a)
  <2>1. (trimmed.live \union trimmed.chain) \intersect removed = {}
    BY <1>1 DEF Apart
  <2> QED
    BY <1>1, <1>4, <2>1 DEF Covered
<1> QED
  BY <1>8, <1>9

\* What Compact publishes, and the tree that it goes back to if that fails.
CutPublishing(before, trimmed, cut) ==
    /\ before \in TreeRecord /\ Reclaimed(before, tree) /\ Safe(before, arena.dirty, cut)
    /\ Publishing(trimmed, cut, arena.capacity + FirstPage)

LEMMA CutIsPublishing ==
    ASSUME Inv, FreeListFits, RootsInv, Idle, reader = NoReader
    PROVE  LET before == ReclaimRetiredPages(tree)
               next == TrailingFreeNextPage(before)
               capacity == Max({next - FirstPage, MinCapacity})
               removed == next..(before.nextPage - 1)
               trimmed == [before EXCEPT !.free = @ \ removed, !.nextPage = next]
               cut == [arena EXCEPT !.capacity = capacity, !.dirty = @ \ removed,
                                    !.stale = @ \ removed]
           IN  CutPublishing(before, trimmed, cut)
<1> DEFINE before == ReclaimRetiredPages(tree)
           next == TrailingFreeNextPage(before)
           capacity == Max({next - FirstPage, MinCapacity})
           removed == next..(before.nextPage - 1)
           trimmed == [before EXCEPT !.free = @ \ removed, !.nextPage = next]
           cut == [arena EXCEPT !.capacity = capacity, !.dirty = @ \ removed, !.stale = @ \ removed]
           k == arena.capacity + FirstPage
<1> SUFFICES CutPublishing(before, trimmed, cut)
  OBVIOUS
<1>1. /\ Mapped(arena) /\ Below(tree, arena) /\ tree \in TreeRecord /\ status = "open"
  BY IdleBatch DEF Inv, Idle
<1>2. CutFacts(before, next, capacity, removed, trimmed, cut)
  BY CutIs
<1>3. before \in TreeRecord /\ Reclaimed(before, tree)
  BY <1>1, ReclaimIs
<1>4. removed = next..(before.nextPage - 1)
  OBVIOUS
<1> HIDE DEF before, next, capacity, removed, trimmed, cut
<1>5. /\ trimmed \in TreeRecord /\ trimmed.nextPage = next /\ ~NeedsChain(trimmed)
      /\ trimmed.retired = {} /\ trimmed.revision = before.revision
      /\ removed \subseteq before.free /\ removed \subseteq PageID
      /\ Mapped(cut) /\ Below(trimmed, cut) /\ cut.capacity = capacity
      /\ capacity \in Nat /\ capacity <= arena.capacity
      /\ cut.dirty = arena.dirty \ removed /\ cut.stale = arena.stale \ removed
      /\ SameDisk(cut, arena) /\ before.nextPage = tree.nextPage
  BY <1>2 DEF CutFacts, SameDisk
<1>6. /\ Roots(arena) /\ Safe(tree, arena.dirty, arena) /\ Reach(arena, k)
  BY <1>1 DEF RootsInv, Running
<1>7. /\ k \in Nat /\ tree.nextPage <= k /\ ArenaTyped(arena) /\ arena.capacity \in Nat
      /\ cut.capacity + FirstPage <= k
  BY <1>1, <1>5, ArenaFields DEF Mapped, Below, FirstPage
<1>8. Safe(before, arena.dirty, arena)
  BY <1>1, <1>3, <1>6, <1>7, ReclaimedSafe
<1>9. Safe(before, arena.dirty, cut)
  <2>1. cut.stale \intersect (before.live \union before.chain \union RetiredIds(before)) = {}
    BY <1>5, <1>8 DEF Safe, Kept
  <2> QED
    BY <1>5, <1>8, <2>1, SameDiskSafe
<1>10. Kept(trimmed, cut) /\ Covered(trimmed, cut.dirty, cut)
  <2>1. /\ trimmed.nextPage <= before.nextPage
        /\ removed = trimmed.nextPage..(before.nextPage - 1) /\ removed \subseteq before.free
        /\ trimmed.live = before.live /\ trimmed.chain = before.chain
        /\ trimmed.revision = before.revision /\ before.retired = {} /\ trimmed.retired = {}
        /\ trimmed.free = before.free \ removed
    BY <1>2, <1>4 DEF CutFacts
  <2>2. Kept(trimmed, cut) /\ Covered(trimmed, arena.dirty \ removed, cut)
    BY <1>3, <1>5, <1>9, <2>1, CutSafe
  <2> QED
    BY <1>5, <2>2
<1>11. Publishing(trimmed, cut, k)
  BY <1>5, <1>6, <1>7, <1>10, SameDiskRoots DEF Publishing
<1> QED
  BY <1>3, <1>9, <1>11 DEF CutPublishing

LEMMA CompactPublishRoots ==
    ASSUME Inv, Inv', FreeListFits, RootsInv, CompactPublish
    PROVE  RootsInv'
<1> DEFINE before == ReclaimRetiredPages(tree)
           next == TrailingFreeNextPage(before)
           capacity == Max({next - FirstPage, MinCapacity})
           removed == next..(before.nextPage - 1)
           trimmed == [before EXCEPT !.free = @ \ removed, !.nextPage = next]
           cut == [arena EXCEPT !.capacity = capacity, !.dirty = @ \ removed, !.stale = @ \ removed]
           k == arena.capacity + FirstPage
<1>1. /\ batch = NoBatch /\ Mapped(arena) /\ Below(tree, arena) /\ tree \in TreeRecord
      /\ reader = NoReader /\ status = "open" /\ Idle
  BY IdleBatch DEF CompactPublish, Inv, Idle
<1>2. PICK o \in Persisted(trimmed, cut) :
         IF o.ok
         THEN /\ tree' = o.tree
              /\ arena' = o.arena
              /\ status' = AfterReads(o.tree, o.arena,
                               IF capacity < arena.capacity THEN "shrinking" ELSE "open")
              /\ target' = IF status' = "shrinking" THEN capacity ELSE 0
         ELSE /\ tree' = before
              /\ arena' = [o.arena EXCEPT
                    !.capacity = arena.capacity,
                    !.dirty = arena.dirty,
                    !.stale = @ \union (IF o.moved THEN removed
                                        ELSE arena.stale \intersect removed)]
              /\ UNCHANGED <<status, target>>
  BY DEF CompactPublish
<1>3. batch' = NoBatch
  BY <1>1 DEF CompactPublish
<1>4. CutFacts(before, next, capacity, removed, trimmed, cut)
  BY <1>1, CutIs
<1>5. CutPublishing(before, trimmed, cut)
  BY <1>1, CutIsPublishing
<1> HIDE DEF before, next, capacity, removed, trimmed, cut
<1>6. /\ trimmed \in TreeRecord /\ trimmed.nextPage = next /\ ~NeedsChain(trimmed)
      /\ trimmed.retired = {} /\ trimmed.revision = before.revision
      /\ removed \subseteq before.free
      /\ Mapped(cut) /\ Below(trimmed, cut) /\ cut.capacity = capacity
      /\ capacity \in Nat /\ capacity <= arena.capacity /\ before.nextPage = tree.nextPage
  BY <1>4 DEF CutFacts
<1>7. /\ k \in Nat /\ tree.nextPage <= k /\ arena.capacity \in Nat
      /\ cut.capacity + FirstPage <= k
  BY <1>1, <1>6, ArenaFields DEF Mapped, Below, FirstPage
<1>8. before \in TreeRecord /\ Safe(before, arena.dirty, cut)
  BY <1>5 DEF CutPublishing
<1>9. Publishing(trimmed, cut, k)
  BY <1>5 DEF CutPublishing
<1> HIDE DEF k
<1>10. Published(o, trimmed, cut, k)
  BY <1>6, <1>9, PersistedIs
<1>11. /\ Mapped(o.arena) /\ o.arena.capacity = capacity /\ ArenaTyped(o.arena)
  BY <1>6, PersistedMapped DEF SameSizes, Mapped
<1>12. CASE o.ok
  <2>1. tree' = o.tree /\ arena' = o.arena /\ status' # "down"
    BY <1>2, <1>12 DEF AfterReads
  <2>2. /\ Roots(o.arena) /\ Safe(o.tree, o.arena.dirty, o.arena)
        /\ Reach(o.arena, o.arena.capacity + FirstPage)
    BY <1>6, <1>10, <1>11, <1>12 DEF Published, FirstPage
  <2> QED
    BY <1>3, <2>1, <2>2 DEF RootsInv, NoBatch
<1>13. CASE ~o.ok
  <2> DEFINE more == IF o.moved THEN removed ELSE arena.stale \intersect removed
             b == [o.arena EXCEPT !.capacity = arena.capacity, !.dirty = arena.dirty,
                                  !.stale = @ \union more]
  <2>1. tree' = before /\ arena' = b /\ status' = "open"
    BY <1>1, <1>2, <1>13
  <2>2. more \subseteq removed
    OBVIOUS
  <2> HIDE DEF more
  <2>3. /\ SameDisk(b, o.arena) /\ b.capacity = arena.capacity /\ b.dirty = arena.dirty
        /\ b.stale = o.arena.stale \union more
    BY <1>11 DEF ArenaTyped, ArenaRecord, SameDisk
  <2> HIDE DEF b
  <2>4. Carried(before, o.arena, cut)
    <3>1. Staying(before, trimmed, k)
      BY <1>6, <1>7, <1>8 DEF Staying, RetiredIds
    <3> QED
      BY <1>10, <1>13, <3>1 DEF Published
  <2>5. Safe(before, arena.dirty, o.arena)
    BY <1>8, <2>4 DEF Safe, Carried
  <2>6. Safe(before, b.dirty, b)
    <3>1. b.stale \intersect (before.live \union before.chain \union RetiredIds(before)) = {}
      BY <1>6, <2>2, <2>3, <2>5 DEF Safe, Kept, Apart
    <3> QED
      BY <2>3, <2>5, <3>1, SameDiskSafe
  <2>7. Roots(o.arena) /\ Reach(o.arena, k)
    BY <1>6, <1>7, <1>10, <1>11 DEF Published
  <2>8. Roots(b) /\ Reach(b, b.capacity + FirstPage)
    BY <2>3, <2>7, SameDiskRoots DEF k
  <2> QED
    BY <1>3, <2>1, <2>6, <2>8 DEF RootsInv, NoBatch
<1> QED
  BY <1>12, <1>13

\* Whatever fails when the file is shrunk, no page is written.
LEMMA CompactShrinkIs ==
    ASSUME Inv, RootsInv, CompactShrink
    PROVE  /\ Calmer(arena', arena, arena.capacity + FirstPage)
           /\ arena'.capacity = arena.capacity /\ arena'.dirty = arena.dirty
<1> DEFINE k == arena.capacity + FirstPage
           size == target + FirstPage
           kept == Fsynced(Truncated(arena, size))
<1>1. status = "shrinking" /\ status' = "open" /\ UNCHANGED <<tree, batch>>
  BY DEF CompactShrink
<1>2. /\ Mapped(arena) /\ Below(tree, arena) /\ target = arena.capacity /\ tree \in TreeRecord
  BY <1>1 DEF Inv, Inside, Running
<1>3. /\ Roots(arena) /\ Safe(tree, arena.dirty, arena) /\ Reach(arena, k)
      /\ ~batch'.active /\ Held(arena)
  BY <1>1 DEF RootsInv, Running, Roots
<1>4. /\ ArenaTyped(arena) /\ target \in Nat /\ target >= MinCapacity
      /\ k \in Nat /\ size = k /\ size \in Size /\ size >= k
      /\ tree.nextPage <= k
  BY <1>2, ArenaFields DEF Mapped, Below, Size, MinCapacity, FirstPage
<1>5. PICK o \in {Ok(Remapped(arena, target), TRUE), Failed(kept)}
                  \union {Failed(b) : b \in Unresized(arena, target)} :
         arena' = o.arena
  BY DEF CompactShrink
<1>6. arena'.capacity = arena.capacity
  <2>1. CASE arena' = Remapped(arena, target)
    BY <1>2, <1>4, <2>1, RemappedMapped
  <2>2. CASE arena' = kept
    BY <1>4, <2>2, TruncatedFields, FsyncedFields
  <2>3. CASE arena' \in Unresized(arena, target)
    BY <1>2, <1>4, <2>3, UnresizedMapped
  <2> QED
    BY <1>5, <2>1, <2>2, <2>3 DEF Ok, Failed
<1>7. Calmer(arena', arena, k) /\ arena'.dirty = arena.dirty
  <2>1. CASE arena' = Remapped(arena, target)
    <3>1. target + FirstPage >= k
      BY <1>4
    <3> HIDE DEF k
    <3> QED
      BY <1>3, <1>4, <2>1, <3>1, RemappedCalmer
  <2>2. CASE arena' = kept
    <3> DEFINE cut == Truncated(arena, size)
    <3> HIDE DEF k, size
    <3>1. Calmer(cut, arena, k) /\ ArenaTyped(cut) /\ cut.dirty = arena.dirty
      BY <1>3, <1>4, TruncatedCalmer, TruncatedFields
    <3>2. Held(cut)
      BY <1>3, <3>1, CalmerHeld
    <3> HIDE DEF cut
    <3>3. Calmer(Fsynced(cut), cut, k) /\ Fsynced(cut).dirty = cut.dirty
      BY <3>1, <3>2, FsyncedCalmer, FsyncedFields
    <3>4. Calmer(Fsynced(cut), arena, k)
      BY <3>1, <3>3, CalmerTrans
    <3> QED
      BY <2>2, <3>1, <3>3, <3>4 DEF cut
  <2>3. CASE arena' \in Unresized(arena, target)
    BY <1>2, <1>3, <1>4, <2>3, UnresizedCalmer
  <2> QED
    BY <1>5, <2>1, <2>2, <2>3 DEF Ok, Failed
<1> QED
  BY <1>6, <1>7

LEMMA CompactShrinkRoots ==
    ASSUME Inv, RootsInv, CompactShrink
    PROVE  RootsInv'
<1> DEFINE k == arena.capacity + FirstPage
<1>1. status = "shrinking" /\ status' = "open" /\ UNCHANGED <<tree, batch>>
  BY DEF CompactShrink
<1>2. /\ Mapped(arena) /\ Below(tree, arena) /\ tree \in TreeRecord
  BY <1>1 DEF Inv, Inside, Running
<1>3. /\ Roots(arena) /\ Safe(tree, arena.dirty, arena) /\ Reach(arena, k)
      /\ ~batch'.active /\ Held(arena)
  BY <1>1 DEF RootsInv, Running, Roots
<1>4. ArenaTyped(arena) /\ k \in Nat /\ tree.nextPage <= k
  BY <1>2, ArenaFields DEF Mapped, Below, FirstPage
<1>5. /\ Calmer(arena', arena, k) /\ arena'.dirty = arena.dirty
      /\ arena'.capacity = arena.capacity
  BY CompactShrinkIs
<1> HIDE DEF k
<1>6. Roots(arena') /\ Reach(arena', k)
  BY <1>3, <1>4, <1>5, CalmerRoots
<1>7. Safe(tree, arena'.dirty, arena')
  BY <1>2, <1>3, <1>4, <1>5, CalmerSafe
<1> QED
  BY <1>1, <1>3, <1>5, <1>6, <1>7 DEF RootsInv, k

\* The free pages of a tree that PunchFreeMmapPages gives back.
LEMMA PunchIs ==
    ASSUME Punch
    PROVE  \E ids \in SUBSET ReclaimRetiredPages(tree).free :
              /\ tree' = ReclaimRetiredPages(tree) /\ arena' = Overwritten(arena, ids)
              /\ \A i \in Sound(arena) : ids \intersect arena.meta[i].live = {}
<1>1. PICK accepted \in SUBSET Candidates(arena) :
         /\ Sound(arena) \subseteq accepted
         /\ \E end \in FirstPage..ReclaimRetiredPages(tree).nextPage :
               LET pages == ReclaimRetiredPages(tree).free \ RecoverablePages(arena, accepted)
                   punched == {id \in pages : id < end}
               IN tree' = ReclaimRetiredPages(tree) /\ arena' = Overwritten(arena, punched)
  BY DEF Punch
<1>2. PICK end \in FirstPage..ReclaimRetiredPages(tree).nextPage :
         LET pages == ReclaimRetiredPages(tree).free \ RecoverablePages(arena, accepted)
             punched == {id \in pages : id < end}
         IN tree' = ReclaimRetiredPages(tree) /\ arena' = Overwritten(arena, punched)
  BY <1>1
<1> DEFINE pages == ReclaimRetiredPages(tree).free \ RecoverablePages(arena, accepted)
           punched == {id \in pages : id < end}
<1>3. punched \in SUBSET ReclaimRetiredPages(tree).free
  OBVIOUS
<1>4. \A i \in Sound(arena) : punched \intersect arena.meta[i].live = {}
  BY <1>1 DEF RecoverablePages
<1>5. tree' = ReclaimRetiredPages(tree) /\ arena' = Overwritten(arena, punched)
  BY <1>2
<1> HIDE DEF punched
<1> QED
  BY <1>3, <1>4, <1>5

LEMMA PunchRoots ==
    ASSUME Inv, Inv', RootsInv, Punch
    PROVE  RootsInv' /\ (\A i \in Sound(arena) : ~arena'.meta[i].spoilt)
<1>1. /\ batch = NoBatch /\ Mapped(arena) /\ tree \in TreeRecord
      /\ status = "open" /\ status' # "down" /\ batch' = NoBatch
  BY IdleBatch DEF Punch, Inv, Idle
<1>2. ArenaTyped(arena) /\ \A i \in Slot : arena.meta[i] \in Root
  BY <1>1, ArenaFields DEF Mapped
<1>3. /\ Roots(arena) /\ Safe(tree, arena.dirty, arena)
      /\ Reach(arena, arena.capacity + FirstPage)
  BY <1>1 DEF RootsInv, Running
<1> DEFINE before == ReclaimRetiredPages(tree)
<1>4. PICK ids \in SUBSET before.free :
         /\ tree' = before /\ arena' = Overwritten(arena, ids)
         /\ \A i \in Sound(arena) : ids \intersect arena.meta[i].live = {}
  BY PunchIs
<1>5. before \in TreeRecord /\ Reclaimed(before, tree)
  BY <1>1, ReclaimIs
<1> HIDE DEF before
<1>6. Safe(before, arena.dirty, arena)
  BY <1>1, <1>2, <1>3, <1>5, ReclaimedSafe
<1>7. /\ Marked(arena', arena, ids) /\ arena'.chainBytes \subseteq arena.chainBytes
      /\ arena'.dirty = arena.dirty /\ arena'.capacity = arena.capacity
      /\ \A i \in Slot : arena'.meta[i] = Spoilt(arena.meta[i], ids)
  BY <1>2, <1>4, OverwrittenFields DEF Marked
<1>8. Roots(arena') /\ Reach(arena', arena.capacity + FirstPage)
  <2>1. \A n \in Openable(arena) :
           (arena'.chainBytes \ arena.chainBytes) \intersect RetiredIds(n) = {}
    BY <1>7
  <2> QED
    BY <1>2, <1>3, <1>7, <2>1, MarkedRoots
<1>9. Safe(before, arena.dirty, arena')
  <2>1. ids \intersect (before.live \union before.chain) = {}
    BY <1>6 DEF Safe, Kept, Apart
  <2> QED
    BY <1>2, <1>3, <1>6, <1>7, <2>1, MarkedSafe
<1>10. RootsInv'
  BY <1>1, <1>4, <1>7, <1>8, <1>9 DEF RootsInv, NoBatch
<1>11. ASSUME NEW i \in Sound(arena) PROVE ~arena'.meta[i].spoilt
  <2>1. i \in Slot /\ arena.meta[i] \in MetaRecord /\ arena.meta[i] # Zero /\ ~arena.meta[i].spoilt
    BY <1>2 DEF Sound, Candidates, Recorded, Root
  <2>2. Intact(arena.meta[i])
    <3>1. arena.meta[i].spoilt \in BOOLEAN
      BY <2>1 DEF MetaRecord
    <3> QED
      BY <2>1, <3>1 DEF Intact
  <2>3. arena.meta[i].chain \intersect before.free = {}
    <3>1. arena.meta[i] \in arena.disk.meta[i]
      BY <1>3, <2>1 DEF Roots, Held
    <3> QED
      BY <1>6, <2>1, <2>2, <3>1 DEF Safe, Kept, InUse
  <2>4. ids \intersect Owned(arena.meta[i]) = {}
    BY <1>4, <2>1, <2>3 DEF Owned
  <2>5. arena'.meta[i] = arena.meta[i]
    BY <1>7, <2>1, <2>4 DEF Spoilt
  <2> QED
    BY <2>1, <2>5
<1> QED
  BY <1>10, <1>11

----------------------------------------------------------------------------
(* The end of a process, and the next one *)

LEMMA DownRoots ==
    ASSUME NEW a, ArenaTyped(a), Roots(a), Down(a)
    PROVE  RootsInv'
<1>1. SameDisk(Unmapped(a), a) /\ Unmapped(a).stale = {}
  BY DEF Unmapped, ArenaTyped, ArenaRecord, SameDisk
<1>2. /\ arena' = Unmapped(a) /\ status' = "down" /\ batch' = NoBatch
  BY DEF Down
<1>3. Roots(arena') /\ arena'.stale = {}
  BY <1>1, <1>2, SameDiskRoots
<1> QED
  BY <1>2, <1>3 DEF RootsInv, Running, NoBatch

\* The roots are those of the disk, whichever of them the file holds.
LEMMA PickedRoots ==
    ASSUME NEW a, Roots(a), NEW b, b.disk = a.disk, b.chainBytes = a.chainBytes,
           b.unflushed = a.unflushed, b.file \in a.disk.size,
           \A i \in Slot : b.meta[i] \in a.disk.meta[i]
    PROVE  Roots(b)
<1>1. Openable(b) = Openable(a)
  BY DEF Openable
<1>2. Held(b)
  BY DEF Roots, Held
<1>3. RootsKept(b) /\ Ordered(b)
  BY DEF Roots, RootsKept, Ordered
<1>4. Fitting(b)
  BY <1>1 DEF Roots, Fitting
<1> QED
  BY <1>2, <1>3, <1>4 DEF Roots

LEMMA CrashRoots ==
    ASSUME Inv, RootsInv, Close \/ Kill \/ PowerLoss
    PROVE  RootsInv'
<1>0. ArenaTyped(arena) /\ Roots(arena)
  BY DEF Inv, RootsInv
<1>1. CASE Close
  <2> DEFINE before == ReclaimRetiredPages(tree)
             k == arena.capacity + FirstPage
  <2>1. Mapped(arena) /\ Below(tree, arena) /\ tree \in TreeRecord /\ status = "open"
    BY <1>1, IdleBatch DEF Close, Inv, Idle
  <2>2. before \in TreeRecord /\ Reclaimed(before, tree)
    BY <2>1, ReclaimIs
  <2>3. PICK o \in Persisted(before, arena) : Down(o.arena)
    BY <1>1 DEF Close
  <2>4. NeedsChain(before) => before.nextPage <= MaxPage
    BY <1>1 DEF Close
  <2> HIDE DEF before
  <2>5. Safe(tree, arena.dirty, arena) /\ Reach(arena, k)
    BY <2>1 DEF RootsInv, Running
  <2>6. Safe(before, arena.dirty, arena)
    BY <1>0, <2>1, <2>2, <2>5, ReclaimedSafe
  <2>7. k \in Nat /\ Below(before, arena)
    BY <1>0, <2>1, <2>2, ArenaFields DEF FirstPage, Below, Reclaimed
  <2>8. Publishing(before, arena, k)
    BY <1>0, <2>1, <2>4, <2>5, <2>6, <2>7 DEF Publishing, Safe
  <2> HIDE DEF k
  <2>9. Roots(o.arena)
    BY <2>2, <2>8, PersistedIs DEF Published
  <2>10. ArenaTyped(o.arena)
    BY <2>1, <2>2, <2>4, <2>7, PersistedMapped DEF Mapped
  <2> QED
    BY <2>3, <2>9, <2>10, DownRoots
<1>2. CASE Kill
  BY <1>0, <1>2, DownRoots DEF Kill
<1>3. CASE PowerLoss
  <2>1. PICK size \in arena.disk.size, first \in arena.disk.meta[0],
             second \in arena.disk.meta[1] :
           Down(Fsynced([arena EXCEPT
                    !.file = size,
                    !.meta = [i \in Slot |-> IF i = 0 THEN first ELSE second]]))
    BY <1>3 DEF PowerLoss
  <2> DEFINE meta == [i \in Slot |-> IF i = 0 THEN first ELSE second]
             a == [arena EXCEPT !.file = size, !.meta = meta]
  <2>2. /\ arena \in ArenaRecord /\ arena.disk.size \subseteq Size
        /\ arena.disk.meta[0] \subseteq MetaRecord
        /\ arena.disk.meta[1] \subseteq MetaRecord \union {Zero}
    BY <1>0 DEF ArenaTyped, ArenaRecord, Slot
  <2>3. /\ meta \in [Slot -> MetaRecord \union {Zero}] /\ meta[0] \in MetaRecord
        /\ \A i \in Slot : meta[i] \in arena.disk.meta[i]
    BY <2>2 DEF Slot
  <2> HIDE DEF meta
  <2>4. /\ a \in ArenaRecord /\ a.meta = meta /\ a.disk = arena.disk /\ a.file = size
        /\ a.chainBytes = arena.chainBytes /\ a.unflushed = arena.unflushed
    BY <2>2, <2>3 DEF ArenaRecord
  <2>5. Down(Fsynced(a))
    BY <2>1 DEF meta
  <2> HIDE DEF a
  <2>6. ArenaTyped(a)
    BY <2>2, <2>3, <2>4 DEF ArenaTyped
  <2>7. Roots(a)
    BY <1>0, <2>3, <2>4, PickedRoots
  <2>8. Calmer(Fsynced(a), a, MaxPage + 1) /\ ArenaTyped(Fsynced(a))
    BY <2>6, <2>7, FsyncedCalmer, FsyncedFields DEF Roots
  <2>9. MaxPage + 1 \in Nat /\ Reach(a, MaxPage + 1)
    <3>1. \A r \in Openable(a) : r \in MetaRecord
      BY <2>6, <2>7, ArenaFields DEF Roots, Fitting, Root
    <3> QED
      BY <3>1, Bounds DEF Reach, MetaRecord, FirstPage
  <2>10. Roots(Fsynced(a))
    BY <2>6, <2>7, <2>8, <2>9, CalmerRoots
  <2> QED
    BY <2>5, <2>8, <2>10, DownRoots
<1> QED
  BY <1>1, <1>2, <1>3

LEMMA OpenRoots ==
    ASSUME Inv, Inv', RootsInv, Settled, Open
    PROVE  RootsInv'
<1> DEFINE r == arena.meta[Newest(arena.meta)]
           opened == [arena EXCEPT !.mapped = arena.file, !.capacity = arena.file - FirstPage]
           found == [live |-> r.live, free |-> r.free, retired |-> r.retired,
                     nextPage |-> r.nextPage, chain |-> r.chain, revision |-> r.revision]
<1>1. /\ status = "down" /\ status' = "open"
      /\ Fits(r, arena.file) /\ ~r.spoilt
      /\ tree' = ReclaimObsolete(found, opened)
      /\ arena' = opened
      /\ UNCHANGED batch
  BY DEF Open
<1>2. /\ ArenaTyped(arena) /\ Roots(arena) /\ Held(arena) /\ arena.stale = {} /\ ~batch.active
      /\ \A i \in Slot : arena.disk.meta[i] = {arena.meta[i]}
      /\ \A i \in Slot : arena.meta[i] \in Root
  BY <1>1, ArenaFields DEF Inv, RootsInv, Settled, Roots
<1>3. /\ Newest(arena.meta) \in Slot
      /\ \A j \in Slot : r.revision >= arena.meta[j].revision
  <2>1. \A i \in Slot : arena.meta[i].revision \in Int
    BY <1>2, RootRevision
  <2>2. \E i \in Slot : \A j \in Slot : arena.meta[i].revision >= arena.meta[j].revision
    <3>1. CASE arena.meta[0].revision >= arena.meta[1].revision
      BY <2>1, <3>1 DEF Slot
    <3>2. CASE arena.meta[1].revision >= arena.meta[0].revision
      BY <2>1, <3>2 DEF Slot
    <3> QED
      BY <2>1, <3>1, <3>2 DEF Slot
  <2> QED
    BY <2>2 DEF Newest
<1> DEFINE j == Newest(arena.meta)
<1>4. j \in Slot /\ r = arena.meta[j] /\ r \in arena.disk.meta[j] /\ r \in Root
  BY <1>2, <1>3
<1> HIDE DEF r, j
<1>5. Openable(arena) = {r}
  <2>1. arena.disk.meta[0] = {arena.meta[0]} /\ arena.disk.meta[1] = {arena.meta[1]}
    BY <1>2 DEF Slot
  <2>2. Openable(arena) = {Newer(arena.meta[0], arena.meta[1])}
    BY <2>1 DEF Openable
  <2>3. /\ r = arena.meta[0] \/ r = arena.meta[1]
        /\ r.revision >= arena.meta[0].revision /\ r.revision >= arena.meta[1].revision
    BY <1>3, <1>4 DEF Slot
  <2>4. arena.meta[0].revision # arena.meta[1].revision
    <3>1. arena.meta[0].revision % 2 = 0 /\ arena.meta[1].revision % 2 = 1
      BY <1>2 DEF Held, Slot
    <3> QED
      BY <3>1
  <2>5. arena.meta[0].revision \in Int /\ arena.meta[1].revision \in Int
    BY <1>2, RootRevision DEF Slot
  <2>6. Newer(arena.meta[0], arena.meta[1]) = r
    BY <2>3, <2>4, <2>5 DEF Newer
  <2> QED
    BY <2>2, <2>6
<1>6. /\ r # Zero /\ r \in MetaRecord
      /\ \A size \in arena.disk.size : Fits(r, size)
  BY <1>2, <1>4, <1>5 DEF Roots, Fitting, Root
<1>7. Intact(r)
  <2>1. r.spoilt \in BOOLEAN
    BY <1>6 DEF MetaRecord
  <2> QED
    BY <1>1, <1>6, <2>1 DEF Intact
<1>8. /\ Apart(r)
      /\ arena.unflushed \intersect (r.live \union r.chain) = {}
      /\ arena.chainBytes \intersect r.live = {}
      /\ arena.chainBytes \intersect RetiredIds(r) = {}
  BY <1>2, <1>4, <1>5, <1>6, <1>7 DEF Roots, RootsKept, Fitting
<1>9. found \in TreeRecord
  BY <1>6 DEF MetaRecord, TreeRecord
<1>10. /\ found.live = r.live /\ found.free = r.free /\ found.retired = r.retired
       /\ found.nextPage = r.nextPage /\ found.chain = r.chain /\ found.revision = r.revision
  OBVIOUS
<1>11. /\ SameDisk(opened, arena) /\ opened.capacity = arena.file - FirstPage
       /\ opened.stale = {} /\ opened.dirty = arena.dirty /\ arena.file \in Size
  BY <1>2 DEF ArenaTyped, ArenaRecord, SameDisk
<1> HIDE DEF found, opened
<1>12. /\ RetiredIds(found) = RetiredIds(r) /\ Listed(found) = Listed(r)
       /\ InUse(found) = InUse(r)
  BY <1>10 DEF RetiredIds, Listed, InUse
<1>13. Apart(found)
  BY <1>8, <1>10, <1>12 DEF Apart
<1>14. ASSUME NEW i \in Slot, NEW s \in arena.disk.meta[i], Intact(s)
       PROVE  s.chain \intersect InUse(r) = {} /\ s = arena.meta[i]
  <2>1. s = arena.meta[i]
    BY <1>2
  <2>2. CASE i = j
    <3>1. s = r
      BY <1>4, <2>1, <2>2
    <3> QED
      BY <1>8, <2>1, <3>1 DEF Apart, InUse
  <2>3. CASE i # j
    <3>1. i = 1 - j /\ s \in arena.disk.meta[1 - j] /\ r.revision >= s.revision
      BY <1>3, <1>4, <2>1, <2>3 DEF Slot
    <3> QED
      BY <1>2, <1>4, <1>7, <1>14, <2>1, <3>1 DEF Roots, Ordered
  <2> QED
    BY <2>2, <2>3
<1>15. Kept(found, opened)
  <2>1. \A i \in Slot : arena.meta[i].revision <= r.revision
    BY <1>2, <1>3, <1>4, RootRevision
  <2> QED
    BY <1>8, <1>10, <1>11, <1>12, <1>13, <1>14, <2>1 DEF Kept, SameDisk
<1>16. Openable(opened) = {r}
  BY <1>5, <1>11 DEF SameDisk, Openable
<1>17. Ahead(found, opened)
  BY <1>12, <1>13, <1>16 DEF Ahead, Apart, InUse
<1>18. Regained(tree', found, opened)
  BY <1>1, <1>9, ObsoleteIs
<1>19. Kept(tree', opened) /\ Ahead(tree', opened)
  <2>1. \A i \in Slot : opened.disk.meta[i] = {opened.meta[i]}
    BY <1>2, <1>11 DEF SameDisk
  <2> HIDE DEF Regained
  <2> QED
    BY <1>9, <1>15, <1>17, <1>18, <2>1, ObsoleteKept
<1>20. Covered(tree', opened.dirty, opened)
  <2>1. /\ tree'.live = r.live /\ tree'.chain = r.chain /\ tree'.nextPage = r.nextPage
    BY <1>10, <1>18 DEF Regained
  <2>2. opened.unflushed \intersect (tree'.live \union tree'.chain) = {}
    BY <1>8, <1>11, <2>1 DEF SameDisk
  <2>3. ASSUME NEW id \in Listed(tree'), NEW size \in opened.disk.size PROVE ~(id >= size)
    <3>1. r.nextPage \in Nat /\ id \in Nat /\ id < r.nextPage
      BY <1>6, <2>1, Bounds DEF MetaRecord, Listed, FirstPage
    <3>2. size \in Nat /\ r.nextPage <= size
      BY <1>2, <1>6, <1>11, ArenaFields DEF SameDisk, Fits, Size
    <3> QED
      BY <3>1, <3>2
  <2> QED
    BY <2>2, <2>3 DEF Covered
<1>21. Roots(opened)
  BY <1>2, <1>11, SameDiskRoots
<1>22. Reach(opened, opened.capacity + FirstPage)
  <2>1. r.nextPage <= arena.file /\ arena.file \in Nat
    BY <1>1, <1>11 DEF Fits, Size
  <2> QED
    BY <1>11, <1>16, <2>1 DEF Reach, FirstPage
<1> QED
  BY <1>1, <1>2, <1>19, <1>20, <1>21, <1>22 DEF RootsInv, Safe

----------------------------------------------------------------------------
(* The theorems *)

\* A new file holds one root, which has no page.
LEMMA InitRoots ==
    ASSUME Init
    PROVE  RootsInv
<1> DEFINE size == MinCapacity + FirstPage
           empty == [file |-> size, mapped |-> size, capacity |-> MinCapacity,
                     stale |-> {}, dirty |-> {}, unflushed |-> {}, chainBytes |-> {},
                     meta |-> [i \in Slot |-> Zero],
                     disk |-> [size |-> {size}, meta |-> [i \in Slot |-> {Zero}]]]
           r == Record(NewTree, empty)
           meta == [i \in Slot |-> IF i = 0 THEN r ELSE Zero]
           first == [empty EXCEPT !.meta[0] = r]
<1>0. arena = Fsynced(first)
  BY Zenon DEF Init
<1>1. status = "open" /\ tree = NewTree /\ batch = NoBatch
  BY DEF Init
<1>2. ArenaTyped(arena) /\ Mapped(arena) /\ Below(tree, arena)
  <2>1. Inv
    BY InitInv
  <2> QED
    BY <1>1, <2>1 DEF Inv, Inside, Running
<1>3. /\ NewTree.live = {} /\ NewTree.free = {} /\ NewTree.retired = {}
      /\ NewTree.nextPage = FirstPage /\ NewTree.chain = {} /\ NewTree.revision = 0
  BY DEF NewTree
<1>4. /\ r.revision = 0 /\ r.nextPage = FirstPage /\ r.live = {} /\ r.free = {}
      /\ r.retired = {} /\ r.chain = {} /\ r.maxPages = MinCapacity
  <2>1. /\ r.revision = NewTree.revision /\ r.nextPage = NewTree.nextPage /\ r.live = NewTree.live
        /\ r.free = NewTree.free /\ r.retired = NewTree.retired /\ r.chain = NewTree.chain
        /\ r.maxPages = empty.capacity
    <3> HIDE DEF empty
    <3> QED
      BY DEF Record
  <2>2. empty.capacity = MinCapacity
    OBVIOUS
  <2> HIDE DEF r, empty
  <2> QED
    BY <1>3, <2>1, <2>2
<1>5. empty.meta = [i \in Slot |-> Zero]
  OBVIOUS
<1>6. /\ empty.file = size /\ empty.stale = {} /\ empty.unflushed = {} /\ empty.chainBytes = {}
      /\ empty.dirty = {} /\ empty.capacity = MinCapacity
  OBVIOUS
<1>7. first = [empty EXCEPT !.meta = meta]
  <2> HIDE DEF r, empty
  <2>1. [empty.meta EXCEPT ![0] = r] = meta
    BY <1>5 DEF Slot
  <2> QED
    BY <2>1
<1>8. size \in Size /\ empty \in ArenaRecord
  BY DEF Size, MinCapacity, FirstPage, ArenaRecord
<1>9. r \in MetaRecord /\ Intact(r)
  <2>1. empty.capacity \in Nat
    BY DEF MinCapacity
  <2> HIDE DEF empty
  <2>2. r \in MetaRecord /\ r.spoilt = FALSE
    BY <2>1, NewTreeTyped DEF Record, TreeRecord, MetaRecord
  <2> HIDE DEF r
  <2> QED
    BY <2>2, ZeroIsNoRecord DEF Intact
<1> HIDE DEF r, empty, first
<1>10. /\ meta \in [Slot -> MetaRecord \union {Zero}] /\ meta[0] = r /\ meta[1] = Zero
  BY <1>9 DEF Slot
<1> HIDE DEF meta
<1>11. /\ first \in ArenaRecord /\ first.meta = meta /\ first.file = size
       /\ first.stale = {} /\ first.chainBytes = {} /\ first.dirty = {}
       /\ first.capacity = MinCapacity
  BY <1>6, <1>7, <1>8, <1>10 DEF ArenaRecord
<1> DEFINE held == [i \in Slot |-> {meta[i]}]
           disk == [size |-> {size}, meta |-> held]
<1>12. held[0] = {r} /\ held[1] = {Zero}
  BY <1>10 DEF Slot
<1>13. arena = [first EXCEPT !.unflushed = {}, !.disk = disk]
  BY <1>0, <1>11 DEF Fsynced
<1> HIDE DEF held, size
<1>14. disk.size = {size} /\ disk.meta = held
  OBVIOUS
<1> HIDE DEF disk
<1>15. /\ arena.meta = meta /\ arena.disk = disk /\ arena.file = size /\ arena.stale = {}
       /\ arena.chainBytes = {} /\ arena.dirty = {} /\ arena.unflushed = {}
       /\ arena.capacity = MinCapacity
  BY <1>11, <1>13 DEF ArenaRecord
<1>16. /\ arena.meta[0] = r /\ arena.meta[1] = Zero
       /\ arena.disk.meta[0] = {r} /\ arena.disk.meta[1] = {Zero} /\ arena.disk.size = {size}
  BY <1>10, <1>12, <1>14, <1>15
<1>17. /\ Zero.revision = -1 /\ size = 4 /\ ~Intact(Zero) /\ r # Zero
  BY <1>9 DEF Zero, size, MinCapacity, FirstPage, Intact
<1>18. RetiredIds(r) = {} /\ InUse(r) = {} /\ RetiredIds(tree) = {} /\ InUse(tree) = {}
  BY <1>1, <1>3, <1>4 DEF RetiredIds, InUse
<1>19. Openable(arena) = {r}
  <2>1. Newer(r, Zero) = r
    BY <1>4, <1>17 DEF Newer
  <2> QED
    BY <1>16, <2>1 DEF Openable
<1>20. Held(arena)
  BY <1>4, <1>15, <1>16, <1>17 DEF Held, Slot
<1>21. RootsKept(arena)
  <2>1. Apart(r)
    BY <1>4, <1>18 DEF Apart
  <2> QED
    BY <1>4, <1>15, <1>16, <1>17, <2>1 DEF RootsKept, Slot
<1>22. Ordered(arena)
  BY <1>16, <1>17 DEF Ordered, Slot
<1>23. Fitting(arena)
  <2>1. Fits(r, size)
    BY <1>4, <1>17 DEF Fits, MinCapacity, FirstPage
  <2> QED
    BY <1>15, <1>16, <1>17, <1>19, <2>1 DEF Fitting
<1>24. Safe(tree, arena.dirty, arena)
  <2>1. Listed(tree) = {}
    BY <1>1, <1>3 DEF Listed, FirstPage
  <2>2. Apart(tree)
    BY <1>1, <1>3, <1>18 DEF Apart
  <2>3. \A i \in Slot : arena.meta[i].revision <= tree.revision
    BY <1>1, <1>3, <1>4, <1>16, <1>17 DEF Slot
  <2>4. Kept(tree, arena)
    BY <1>1, <1>3, <1>15, <1>18, <2>1, <2>2, <2>3 DEF Kept
  <2>5. Ahead(tree, arena)
    BY <1>18, <1>19 DEF Ahead
  <2>6. Covered(tree, arena.dirty, arena)
    BY <1>15, <2>1 DEF Covered
  <2> QED
    BY <2>4, <2>5, <2>6 DEF Safe
<1>25. Reach(arena, arena.capacity + FirstPage)
  BY <1>4, <1>15, <1>19 DEF Reach, MinCapacity, FirstPage
<1> QED
  BY <1>1, <1>20, <1>21, <1>22, <1>23, <1>24, <1>25 DEF RootsInv, Roots, NoBatch

LEMMA StepRoots ==
    ASSUME Inv, Inv', RootsInv, FreeListFits, Settled, [Next]_vars
    PROVE  RootsInv'
<1>1. CASE UNCHANGED vars
  <2>1. UNCHANGED <<status, tree, arena, batch>>
    BY <1>1 DEF vars
  <2> QED
    BY <2>1 DEF RootsInv, Running
<1>2. CASE \E copied \in {{}} \union {{id} : id \in tree.live} : Stage(copied)
  <2>1. PICK copied \in {{}} \union {{id} : id \in tree.live} : Stage(copied)
    BY <1>2
  <2>2. copied \in SUBSET tree.live
    OBVIOUS
  <2> QED
    BY <2>1, <2>2, StageRoots
<1> QED
  BY <1>1, <1>2, BatchRoots, SnapshotRoots, SyncRoots, CompactPublishRoots, CompactShrinkRoots,
     PunchRoots, CrashRoots, OpenRoots DEF Next

LEMMA StartsSafe == Init => Inv /\ RootsInv
BY InitInv, InitRoots

LEMMA StaysSafe == (Inv /\ RootsInv) /\ (FreeListFits /\ Settled) /\ [Next]_vars => (Inv /\ RootsInv)'
BY StepInv, StepRoots

LEMMA Readable == Inv /\ RootsInv => PagesReadable
<1> SUFFICES ASSUME Inv, RootsInv PROVE PagesReadable
  OBVIOUS
<1>1. ASSUME Running
      PROVE  arena.stale \intersect (tree.live \union tree.chain \union {r.id : r \in tree.retired}) = {}
  BY <1>1 DEF RootsInv, Safe, Kept, RetiredIds
<1>2. ASSUME Running, batch.active
      PROVE  Rollback(arena).stale \intersect (batch.tree.live \union batch.tree.chain) = {}
  <2>1. Mapped(arena) /\ batch \in BatchRecord
    BY <1>2, ~NoBatch.active DEF Inv, Inside, NoBatch
  <2>2. Safe(batch.tree, batch.dirty, arena) /\ batch.lost \subseteq batch.tree.free /\ Roots(arena)
    BY <1>2 DEF RootsInv, Since
  <2>3. Safe(batch.tree, Rollback(arena).dirty, Rollback(arena))
    BY <2>1, <2>2, RollbackSafe
  <2> QED
    BY <2>3 DEF Safe, Kept
<1> QED
  BY <1>1, <1>2 DEF PagesReadable

\* No slice through which the tree, a snapshot or the chain of the last Sync is read, or the
\* tree that a rollback would bring back, belongs to a mapping that a growth or a shrink has
\* unmapped (mmap.go rebindMmapPages, batch.go restore).
THEOREM PagesStayReadable == Spec /\ [](FreeListFits /\ Settled) => []PagesReadable
BY StartsSafe, StaysSafe, Readable, PTL DEF Spec

LEMMA NewestIsOpenable == RootsInv => NewestFits
<1> SUFFICES ASSUME RootsInv, NEW size \in arena.disk.size,
                    NEW first \in arena.disk.meta[0], NEW second \in arena.disk.meta[1]
             PROVE  Fits(IF first.revision >= second.revision THEN first ELSE second, size)
  BY DEF NewestFits
<1>1. Newer(first, second) \in Openable(arena)
  BY DEF Openable
<1> QED
  BY <1>1 DEF RootsInv, Roots, Fitting, Newer

\* Whatever of the pending sizes and meta pages the disk holds when power ends, the newest
\* root lies inside the file (mmap.go compactMmapTail, remapMmap, validateMetaBounds).
THEOREM NewestAlwaysFits == Spec /\ [](FreeListFits /\ Settled) => []NewestFits
<1>1. Inv /\ RootsInv => NewestFits
  BY NewestIsOpenable
<1> QED
  BY <1>1, StartsSafe, StaysSafe, PTL DEF Spec

LEMMA DirtyIsCovered == RootsInv => DirtyCovers
BY DEF RootsInv, Safe, Covered, DirtyCovers

\* A page of the tree or of its chain that is not on disk is in arena.dirtyPages, across
\* rollbacks, failed growths, failed publications and restarts, so that no Sync publishes a
\* root before its pages are flushed (mmap.go syncDataPages, batch.go restore).
THEOREM DirtyAlwaysCovers == Spec /\ [](FreeListFits /\ Settled) => []DirtyCovers
<1>1. Inv /\ RootsInv => DirtyCovers
  BY DirtyIsCovered
<1> QED
  BY <1>1, StartsSafe, StaysSafe, PTL DEF Spec

\* Hole punching destroys no root that recovery could have accepted: its tree is protected,
\* and its chain is no free page (mmap_punch_unix.go recoverableMmapPages).
THEOREM PunchingKeepsRoots == Spec /\ [](FreeListFits /\ Settled) => PunchKeepsRoots
<1>1. (Inv /\ RootsInv) /\ (Inv /\ RootsInv)' /\ [Next]_vars =>
         [Punch => \A i \in Sound(arena) : ~arena'.meta[i].spoilt]_vars
  BY PunchRoots
<1> QED
  BY <1>1, StartsSafe, StaysSafe, PTL DEF Spec, PunchKeepsRoots
=============================================================================
