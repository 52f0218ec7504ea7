----------------------------- MODULE MmapFileProofs -----------------------------
(***************************************************************************)
(* Proof that the pages of the tree stay inside the mapping and inside the *)
(* file, for every number of pages, revisions, failures and crashes, as    *)
(* long as the free ids fit the meta page.                                 *)
(***************************************************************************)
EXTENDS MmapFile, FiniteSetTheorems, WellFoundedInduction, TLAPS

Size == {n \in Nat : n >= MinCapacity + FirstPage}
Revision == 0..MaxRevision
RetiredRecord == [id : PageID, revision : Revision]

TreeRecord ==
    [live : SUBSET PageID, free : SUBSET PageID, retired : SUBSET RetiredRecord,
     nextPage : FirstPage..(MaxPage + 1), chain : SUBSET PageID, revision : Revision]
MetaRecord ==
    [revision : Revision, nextPage : FirstPage..(MaxPage + 1), maxPages : Nat,
     live : SUBSET PageID, free : SUBSET PageID, retired : SUBSET RetiredRecord,
     chain : SUBSET PageID, spoilt : BOOLEAN]
ArenaRecord ==
    [file : Size, mapped : Nat, capacity : Nat, stale : SUBSET PageID, dirty : SUBSET PageID,
     unflushed : SUBSET PageID, chainBytes : SUBSET PageID,
     meta : [Slot -> MetaRecord \union {Zero}],
     disk : [size : SUBSET Size, meta : [Slot -> SUBSET (MetaRecord \union {Zero})]]]
BatchRecord ==
    [active : {TRUE}, changed : BOOLEAN, tree : TreeRecord, dirty : SUBSET PageID,
     replaced : SUBSET PageID, lost : SUBSET PageID]

\* The first meta page was written when the file was made.
ArenaTyped(a) ==
    /\ a \in ArenaRecord
    /\ a.meta[0] \in MetaRecord
    /\ a.disk.meta[0] \subseteq MetaRecord

\* The capacity lies inside the mapping and inside the file.
Mapped(a) ==
    /\ ArenaTyped(a)
    /\ a.capacity >= MinCapacity
    /\ a.capacity + FirstPage <= a.mapped
    /\ a.capacity + FirstPage <= a.file

Below(t, a) == t.nextPage <= a.capacity + FirstPage

SameSizes(b, a) == b.capacity = a.capacity /\ b.mapped = a.mapped /\ b.file = a.file

LEMMA Bounds == MaxPage \in Nat /\ MaxPage > 1 /\ MaxRevision \in Nat /\ MaxMetaFree \in Nat
BY BoundsAreNat

----------------------------------------------------------------------------
(* Least and greatest members *)

LEMMA MinOfNat ==
    ASSUME NEW S \in SUBSET Nat, S # {}
    PROVE  Min(S) \in S /\ \A n \in S : Min(S) <= n
<1>1. PICK x \in S : \A y \in S : ~ (<<y, x>> \in OpToRel(<, Nat))
  BY NatLessThanWellFounded, WFMin
<1>2. ASSUME NEW y \in S PROVE x <= y
  <2>1. <<y, x>> \in Nat \X Nat /\ x \in Nat /\ y \in Nat
    OBVIOUS
  <2>2. <<y, x>> \in OpToRel(<, Nat) <=> y < x
    BY <2>1 DEF OpToRel
  <2>3. ~(y < x)
    BY <1>1, <2>2, Zenon
  <2> QED
    BY <2>1, <2>3
<1> QED
  BY <1>2 DEF Min

LEMMA MaxOfTwo ==
    ASSUME NEW m \in Int, NEW n \in Int
    PROVE  /\ Max({m, n}) \in {m, n}
           /\ Max({m, n}) >= m /\ Max({m, n}) >= n
<1>1. \E x \in {m, n} : \A y \in {m, n} : x >= y
  <2>1. CASE m >= n
    BY <2>1
  <2>2. CASE n >= m
    BY <2>2
  <2> QED
    BY <2>1, <2>2
<1> QED
  BY <1>1 DEF Max

LEMMA MinOfTwo ==
    ASSUME NEW m \in Int, NEW n \in Int, NEW k \in Int, k <= m, k <= n
    PROVE  k <= Min({m, n})
<1>1. \E x \in {m, n} : \A y \in {m, n} : x <= y
  <2>1. CASE m <= n
    BY <2>1
  <2>2. CASE n <= m
    BY <2>2
  <2> QED
    BY <2>1, <2>2
<1> QED
  BY <1>1 DEF Min

\* growMmapForPage finds a capacity for the id that is next.
LEMMA GrownIsEnough ==
    ASSUME NEW c \in Nat, c >= MinCapacity
    PROVE  /\ GrownCapacity(c, c + FirstPage) \in Nat
           /\ GrownCapacity(c, c + FirstPage) > c
<1> DEFINE least == Max({c, MinCapacity})
           S == {n \in {least * k : k \in {1, 2, 4, 8}} : n >= (c + FirstPage) - FirstPage + 1}
<1>1. least = c
  BY MaxOfTwo DEF MinCapacity
<1>2. {least * k : k \in {1, 2, 4, 8}} = {c, c * 2, c * 4, c * 8}
  BY <1>1
<1>3. S \in SUBSET Nat /\ c * 2 \in S
  <2>1. S = {n \in {c, c * 2, c * 4, c * 8} : n >= c + 1}
    BY <1>2 DEF FirstPage
  <2>2. c * 2 >= c + 1
    BY DEF MinCapacity
  <2> HIDE DEF S
  <2> QED
    BY <2>1, <2>2
<1>4. Min(S) \in S
  BY <1>3, MinOfNat
<1> QED
  BY <1>3, <1>4 DEF GrownCapacity, FirstPage

LEMMA TrailingTyped ==
    ASSUME NEW t \in TreeRecord
    PROVE  /\ TrailingFreeNextPage(t) \in FirstPage..t.nextPage
           /\ TrailingFreeNextPage(t)..(t.nextPage - 1) \subseteq t.free
<1> DEFINE S == {n \in FirstPage..t.nextPage : n..(t.nextPage - 1) \subseteq t.free}
<1>1. t.nextPage \in Nat /\ t.nextPage >= FirstPage
  BY Bounds DEF TreeRecord, FirstPage
<1>2. t.nextPage \in S /\ S \in SUBSET Nat
  BY <1>1 DEF FirstPage
<1>3. Min(S) \in S
  BY <1>2, MinOfNat
<1> QED
  BY <1>3 DEF TrailingFreeNextPage

----------------------------------------------------------------------------
(* The file *)

LEMMA FsyncedMapped ==
    ASSUME NEW a, ArenaTyped(a)
    PROVE  /\ ArenaTyped(Fsynced(a))
           /\ Fsynced(a).capacity = a.capacity
           /\ Fsynced(a).mapped = a.mapped
           /\ Fsynced(a).file = a.file
<1> DEFINE synced == [i \in Slot |-> {a.meta[i]}]
           disk == [size |-> {a.file}, meta |-> synced]
<1>1. /\ a \in ArenaRecord /\ a.file \in Size
      /\ a.meta \in [Slot -> MetaRecord \union {Zero}]
  BY DEF ArenaTyped, ArenaRecord
<1>2. synced \in [Slot -> SUBSET (MetaRecord \union {Zero})] /\ synced[0] \subseteq MetaRecord
  BY <1>1 DEF ArenaTyped, Slot
<1>3. Fsynced(a) = [a EXCEPT !.unflushed = {}, !.disk = disk]
  BY DEF Fsynced
<1> HIDE DEF synced
<1>4. /\ disk \in [size : SUBSET Size, meta : [Slot -> SUBSET (MetaRecord \union {Zero})]]
      /\ disk.meta = synced
  BY <1>1, <1>2
<1> HIDE DEF disk
<1>5. /\ Fsynced(a) \in ArenaRecord
      /\ Fsynced(a).disk = disk /\ Fsynced(a).meta = a.meta
      /\ Fsynced(a).capacity = a.capacity
      /\ Fsynced(a).mapped = a.mapped
      /\ Fsynced(a).file = a.file
  BY <1>1, <1>3, <1>4 DEF ArenaRecord
<1> QED
  BY <1>2, <1>4, <1>5 DEF ArenaTyped

LEMMA TruncatedMapped ==
    ASSUME NEW a, ArenaTyped(a), NEW size \in Size
    PROVE  /\ ArenaTyped(Truncated(a, size))
           /\ Truncated(a, size).capacity = a.capacity
           /\ Truncated(a, size).mapped = a.mapped
           /\ Truncated(a, size).file = size
BY DEF ArenaTyped, ArenaRecord, Truncated

\* A resize that failed leaves the file at its old size, at the new one or at that of
\* the mapping, all of which hold the capacity.
LEMMA UnresizedMapped ==
    ASSUME NEW a, Mapped(a), NEW capacity \in Nat, capacity >= a.capacity,
           NEW b \in Unresized(a, capacity)
    PROVE  Mapped(b) /\ b.capacity = a.capacity
<1> DEFINE truncated == Truncated(a, capacity + FirstPage)
<1>1. /\ ArenaTyped(a) /\ a.capacity \in Nat /\ a.mapped \in Nat /\ a.file \in Nat
      /\ a.capacity >= MinCapacity
      /\ a.capacity + FirstPage <= a.mapped /\ a.capacity + FirstPage <= a.file
  BY DEF Mapped, ArenaTyped, ArenaRecord, Size
<1>2. capacity + FirstPage \in Size /\ a.mapped \in Size
  BY <1>1 DEF Size, MinCapacity, FirstPage
<1> DEFINE Same(c) == ArenaTyped(c) /\ c.capacity = a.capacity /\ c.mapped = a.mapped
<1>3. Same(truncated) /\ truncated.file = capacity + FirstPage
  BY <1>1, <1>2, TruncatedMapped
<1>4. Same(Fsynced(truncated)) /\ Fsynced(truncated).file = capacity + FirstPage
  <2> HIDE DEF truncated
  <2> QED
    BY <1>3, FsyncedMapped
<1>5. ASSUME NEW c, Same(c), c.file = capacity + FirstPage, b \in Restored(c, a.mapped)
      PROVE  Same(b) /\ (b.file = c.file \/ b.file = a.mapped)
  <2>1. Same(Truncated(c, a.mapped)) /\ Truncated(c, a.mapped).file = a.mapped
    BY <1>2, <1>5, TruncatedMapped
  <2>2. Same(Fsynced(Truncated(c, a.mapped))) /\ Fsynced(Truncated(c, a.mapped)).file = a.mapped
    BY <2>1, FsyncedMapped
  <2> QED
    BY <1>5, <2>1, <2>2 DEF Restored
<1>6. \/ b = a
      \/ b \in Restored(truncated, a.mapped)
      \/ b \in Restored(Fsynced(truncated), a.mapped)
  BY DEF Unresized
<1>7. Same(b) /\ (b.file = a.file \/ b.file = capacity + FirstPage \/ b.file = a.mapped)
  <2> HIDE DEF truncated
  <2>1. CASE b = a
    BY <1>1, <2>1
  <2>2. CASE b # a
    BY <1>3, <1>4, <1>5, <1>6, <2>2
  <2> QED
    BY <2>1, <2>2
<1> QED
  BY <1>1, <1>7 DEF Mapped, FirstPage

LEMMA RemappedMapped ==
    ASSUME NEW a, ArenaTyped(a), NEW capacity \in Nat, capacity >= MinCapacity
    PROVE  Mapped(Remapped(a, capacity)) /\ Remapped(a, capacity).capacity = capacity
<1> DEFINE b == Fsynced(Truncated(a, capacity + FirstPage))
<1>1. capacity + FirstPage \in Size /\ capacity + FirstPage \in Nat
  BY DEF Size, MinCapacity, FirstPage
<1>2. ArenaTyped(b) /\ b.file = capacity + FirstPage
  BY <1>1, TruncatedMapped, FsyncedMapped
<1>3. Remapped(a, capacity) = [b EXCEPT !.mapped = capacity + FirstPage,
                                        !.capacity = capacity, !.stale = {}]
  BY DEF Remapped
<1> HIDE DEF b
<1>4. ArenaTyped(Remapped(a, capacity))
  BY <1>1, <1>2, <1>3 DEF ArenaTyped, ArenaRecord
<1>5. /\ Remapped(a, capacity).mapped = capacity + FirstPage
      /\ Remapped(a, capacity).capacity = capacity
      /\ Remapped(a, capacity).file = b.file
  BY <1>2, <1>3 DEF ArenaTyped, ArenaRecord
<1> QED
  BY <1>1, <1>2, <1>4, <1>5 DEF Mapped

\* syncDataPages flushes, and moves nothing.
LEMMA SyncDataMapped ==
    ASSUME NEW a, Mapped(a), NEW n, NEW o \in SyncDataPages(a, n)
    PROVE  /\ Mapped(o.arena) /\ SameSizes(o.arena, a)
           /\ o.ok \in BOOLEAN /\ o.moved = FALSE
<1>1. ArenaTyped(a) /\ ArenaTyped(Fsynced(a))
  BY FsyncedMapped DEF Mapped
<1>2. ASSUME NEW b, ArenaTyped(b)
      PROVE  LET c == [b EXCEPT !.dirty = {}]
             IN /\ ArenaTyped(c) /\ c.capacity = b.capacity
                /\ c.mapped = b.mapped /\ c.file = b.file
  BY <1>2 DEF ArenaTyped, ArenaRecord
<1>3. o \in {Ok([a EXCEPT !.dirty = {}], FALSE), Ok([Fsynced(a) EXCEPT !.dirty = {}], FALSE),
             Failed(a)}
  BY DEF SyncDataPages
<1>4. Mapped([a EXCEPT !.dirty = {}]) /\ Mapped([Fsynced(a) EXCEPT !.dirty = {}])
  BY <1>1, <1>2, FsyncedMapped DEF Mapped
<1>5. /\ SameSizes([a EXCEPT !.dirty = {}], a)
      /\ SameSizes([Fsynced(a) EXCEPT !.dirty = {}], a)
      /\ SameSizes(a, a)
  BY <1>1, <1>2, FsyncedMapped DEF SameSizes
<1>6. CASE o = Ok([a EXCEPT !.dirty = {}], FALSE)
  <2>1. o.ok = TRUE /\ o.moved = FALSE /\ o.arena = [a EXCEPT !.dirty = {}]
    BY <1>6 DEF Ok
  <2> QED
    BY <1>4, <1>5, <2>1, Zenon
<1>7. CASE o = Ok([Fsynced(a) EXCEPT !.dirty = {}], FALSE)
  <2>1. o.ok = TRUE /\ o.moved = FALSE /\ o.arena = [Fsynced(a) EXCEPT !.dirty = {}]
    BY <1>7 DEF Ok
  <2> QED
    BY <1>4, <1>5, <2>1, Zenon
<1>8. CASE o = Failed(a)
  <2>1. o.ok = FALSE /\ o.moved = FALSE /\ o.arena = a
    BY <1>8 DEF Failed
  <2> QED
    BY <1>5, <2>1, Zenon
<1> QED
  BY <1>3, <1>6, <1>7, <1>8

\* After a growth that did not fail there is room for one more id.
LEMMA GrowMapped ==
    ASSUME NEW a, Mapped(a), NEW n \in Nat, n <= a.capacity + FirstPage,
           NEW o \in GrowMmapForPage(a, n)
    PROVE  /\ Mapped(o.arena) /\ o.arena.capacity >= a.capacity
           /\ o.ok => n + 1 <= o.arena.capacity + FirstPage
           /\ o.ok \in BOOLEAN
<1>0. a.capacity \in Nat /\ a.capacity >= MinCapacity
  BY DEF Mapped, ArenaTyped, ArenaRecord
<1>1. CASE n < a.capacity + FirstPage
  <2>1. o = Ok(a, FALSE)
    BY <1>1 DEF GrowMmapForPage
  <2> QED
    BY <1>0, <1>1, <2>1 DEF Ok, FirstPage
<1>2. CASE ~(n < a.capacity + FirstPage)
  <2> DEFINE capacity == GrownCapacity(a.capacity, n)
  <2>1. n = a.capacity + FirstPage
    BY <1>0, <1>2 DEF FirstPage
  <2>2. capacity \in Nat /\ capacity > a.capacity
    BY <1>0, <2>1, GrownIsEnough
  <2>3. PICK s \in SyncDataPages(a, n) :
           \/ ~s.ok /\ o = s
           \/ s.ok /\ o = Ok(Remapped(s.arena, capacity), TRUE)
           \/ s.ok /\ \E b \in Unresized(s.arena, capacity) : o = Failed(b)
    BY <1>2 DEF GrowMmapForPage
  <2>4. Mapped(s.arena) /\ s.arena.capacity = a.capacity /\ s.ok \in BOOLEAN
    BY SyncDataMapped DEF SameSizes
  <2> HIDE DEF capacity
  <2>5. CASE ~s.ok /\ o = s
    BY <1>0, <2>4, <2>5
  <2>6. CASE o = Ok(Remapped(s.arena, capacity), TRUE)
    <3>1. capacity >= MinCapacity
      BY <1>0, <2>2 DEF MinCapacity
    <3>2. Mapped(Remapped(s.arena, capacity)) /\ Remapped(s.arena, capacity).capacity = capacity
      BY <2>2, <2>4, <3>1, RemappedMapped DEF Mapped
    <3> QED
      BY <1>0, <2>1, <2>2, <2>6, <3>2 DEF Ok, FirstPage
  <2>7. CASE \E b \in Unresized(s.arena, capacity) : o = Failed(b)
    <3>1. PICK b \in Unresized(s.arena, capacity) : o = Failed(b)
      BY <2>7
    <3>2. Mapped(b) /\ b.capacity = a.capacity
      BY <1>0, <2>2, <2>4, UnresizedMapped
    <3> QED
      BY <1>0, <3>1, <3>2 DEF Failed
  <2> QED
    BY <2>3, <2>5, <2>6, <2>7
<1> QED
  BY <1>1, <1>2

LEMMA SpoiltTyped ==
    ASSUME NEW r \in MetaRecord \union {Zero}, NEW ids
    PROVE  /\ Spoilt(r, ids) \in MetaRecord \union {Zero}
           /\ r \in MetaRecord => Spoilt(r, ids) \in MetaRecord
<1>1. CASE r = Zero
  <2>1. Spoilt(r, ids) = r
    BY <1>1 DEF Spoilt, Owned
  <2> QED
    BY <2>1
<1>2. CASE r \in MetaRecord
  <2>1. [r EXCEPT !.spoilt = TRUE] \in MetaRecord
    BY <1>2 DEF MetaRecord
  <2> QED
    BY <1>2, <2>1 DEF Spoilt
<1> QED
  BY <1>1, <1>2

LEMMA OverwrittenMapped ==
    ASSUME NEW a, Mapped(a), NEW ids
    PROVE  Mapped(Overwritten(a, ids)) /\ Overwritten(a, ids).capacity = a.capacity
<1> DEFINE meta == [i \in Slot |-> Spoilt(a.meta[i], ids)]
           held == [i \in Slot |-> {Spoilt(r, ids) : r \in a.disk.meta[i]}]
           b == Overwritten(a, ids)
<1>1. /\ a \in ArenaRecord
      /\ a.meta \in [Slot -> MetaRecord \union {Zero}]
      /\ a.disk.meta \in [Slot -> SUBSET (MetaRecord \union {Zero})]
      /\ a.meta[0] \in MetaRecord /\ a.disk.meta[0] \subseteq MetaRecord
      /\ 0 \in Slot
  BY DEF Mapped, ArenaTyped, ArenaRecord, Slot
<1>2. meta \in [Slot -> MetaRecord \union {Zero}] /\ meta[0] \in MetaRecord
  BY <1>1, SpoiltTyped
<1>3. held \in [Slot -> SUBSET (MetaRecord \union {Zero})] /\ held[0] \subseteq MetaRecord
  BY <1>1, SpoiltTyped
<1>4. b = [a EXCEPT !.meta = meta, !.disk.meta = held, !.chainBytes = @ \ ids]
  BY DEF Overwritten
<1> HIDE DEF meta, held, b
<1>5. /\ b \in ArenaRecord /\ b.meta = meta /\ b.disk.meta = held
      /\ b.capacity = a.capacity /\ b.mapped = a.mapped /\ b.file = a.file
  BY <1>1, <1>2, <1>3, <1>4 DEF ArenaRecord
<1>6. ArenaTyped(b)
  BY <1>2, <1>3, <1>5 DEF ArenaTyped
<1> QED
  BY <1>5, <1>6 DEF Mapped, b

LEMMA WrittenMapped ==
    ASSUME NEW a, Mapped(a), NEW ids \in SUBSET PageID
    PROVE  Mapped(Written(a, ids)) /\ Written(a, ids).capacity = a.capacity
<1> DEFINE b == Overwritten(a, ids)
           c == [b EXCEPT !.stale = @ \ ids, !.dirty = @ \union ids, !.unflushed = @ \union ids]
<1>1. Mapped(b) /\ b.capacity = a.capacity
  BY OverwrittenMapped
<1>2. Written(a, ids) = c
  BY DEF Written
<1> HIDE DEF b
<1>3. /\ c \in ArenaRecord /\ c.meta = b.meta /\ c.disk = b.disk
      /\ c.capacity = b.capacity /\ c.mapped = b.mapped /\ c.file = b.file
  BY <1>1 DEF Mapped, ArenaTyped, ArenaRecord
<1> HIDE DEF c
<1> QED
  BY <1>1, <1>2, <1>3 DEF Mapped, ArenaTyped

----------------------------------------------------------------------------
(* Publication *)

LEMMA RecordTyped ==
    ASSUME NEW t \in TreeRecord, NEW a, Mapped(a)
    PROVE  Record(t, a) \in MetaRecord
BY DEF Record, TreeRecord, MetaRecord, Mapped, ArenaTyped, ArenaRecord

\* The chain takes the id that is next; a tree that needs none keeps its size.
LEMMA PrepareMapped ==
    ASSUME NEW t \in TreeRecord, NEW a, Mapped(a), Below(t, a),
           NeedsChain(t) => t.nextPage <= MaxPage,
           NEW p \in PrepareMetaFreelistPages(t, a)
    PROVE  /\ Mapped(p.arena) /\ p.tree \in TreeRecord /\ Below(p.tree, p.arena)
           /\ p.ok \in BOOLEAN
           /\ p.arena.capacity >= a.capacity
           /\ ~NeedsChain(t) => SameSizes(p.arena, a) /\ p.tree.nextPage = t.nextPage
<1>0. /\ t.nextPage \in Nat /\ t.nextPage >= FirstPage /\ t.nextPage <= MaxPage + 1
      /\ a.capacity \in Nat
  BY Bounds DEF TreeRecord, FirstPage, Mapped, ArenaTyped, ArenaRecord
<1>1. CASE ~NeedsChain(t)
  <2> DEFINE u == [t EXCEPT !.chain = {}]
  <2>1. p = [ok |-> TRUE, moved |-> FALSE, tree |-> u, arena |-> a]
    BY <1>1 DEF PrepareMetaFreelistPages
  <2>2. u \in TreeRecord /\ u.nextPage = t.nextPage
    BY DEF TreeRecord
  <2> HIDE DEF u
  <2> QED
    BY <1>0, <1>1, <2>1, <2>2 DEF Below, SameSizes
<1>2. CASE NeedsChain(t)
  <2> DEFINE ids == {t.nextPage}
             u == [t EXCEPT !.nextPage = @ + 1, !.chain = ids]
             chained(g) == [Written(g.arena, ids) EXCEPT !.chainBytes = @ \union ids]
  <2>1. PICK g \in GrowMmapForPage(a, t.nextPage) :
           \/ ~g.ok /\ p = [ok |-> FALSE, moved |-> FALSE, tree |-> t, arena |-> g.arena]
           \/ g.ok /\ p = [ok |-> TRUE, moved |-> g.moved, tree |-> u, arena |-> chained(g)]
    BY <1>2 DEF PrepareMetaFreelistPages
  <2>2. /\ Mapped(g.arena) /\ g.arena.capacity >= a.capacity
        /\ g.ok => t.nextPage + 1 <= g.arena.capacity + FirstPage
        /\ g.ok \in BOOLEAN
    BY <1>0, GrowMapped DEF Below
  <2>3. g.arena.capacity \in Nat
    BY <2>2 DEF Mapped, ArenaTyped, ArenaRecord
  <2>4. ids \subseteq PageID
    BY <1>0, <1>2 DEF PageID, FirstPage
  <2>5. Mapped(chained(g)) /\ chained(g).capacity = g.arena.capacity
    <3> DEFINE w == Written(g.arena, ids)
    <3>1. Mapped(w) /\ w.capacity = g.arena.capacity
      BY <2>2, <2>4, WrittenMapped
    <3> HIDE DEF w
    <3>2. Mapped([w EXCEPT !.chainBytes = @ \union ids])
      BY <2>4, <3>1 DEF Mapped, ArenaTyped, ArenaRecord
    <3>3. [w EXCEPT !.chainBytes = @ \union ids].capacity = w.capacity
      BY <3>1 DEF Mapped, ArenaTyped, ArenaRecord
    <3> QED
      BY <3>1, <3>2, <3>3 DEF w
  <2>6. u \in TreeRecord /\ u.nextPage = t.nextPage + 1
    <3>1. t.nextPage + 1 \in FirstPage..(MaxPage + 1)
      BY <1>0, <1>2, Bounds DEF FirstPage
    <3> HIDE DEF ids
    <3> QED
      BY <2>4, <3>1 DEF TreeRecord
  <2> HIDE DEF u, chained
  <2>7. CASE ~g.ok
    <3>1. p = [ok |-> FALSE, moved |-> FALSE, tree |-> t, arena |-> g.arena]
      BY <2>1, <2>7
    <3>2. p.ok = FALSE /\ p.tree = t /\ p.arena = g.arena
      BY <3>1
    <3>3. Below(t, g.arena)
      BY <1>0, <2>2, <2>3 DEF Below, FirstPage
    <3> QED
      BY <1>2, <2>2, <3>2, <3>3, Zenon
  <2>8. CASE g.ok
    <3>1. p = [ok |-> TRUE, moved |-> g.moved, tree |-> u, arena |-> chained(g)]
      BY <2>1, <2>8
    <3>2. p.ok = TRUE /\ p.tree = u /\ p.arena = chained(g)
      BY <3>1
    <3>3. Below(u, chained(g))
      BY <2>2, <2>5, <2>6, <2>8 DEF Below
    <3> QED
      BY <1>2, <2>2, <2>5, <2>6, <3>2, <3>3, Zenon
  <2> QED
    BY <2>2, <2>7, <2>8
<1> QED
  BY <1>1, <1>2

\* The flushed and the restored dirty sets change no size.
LEMMA DirtyMapped ==
    ASSUME NEW a, Mapped(a), NEW ids \in SUBSET PageID
    PROVE  LET b == [a EXCEPT !.dirty = ids]
           IN Mapped(b) /\ SameSizes(b, a)
BY DEF SameSizes, Mapped, ArenaTyped, ArenaRecord

LEMMA PublishMapped ==
    ASSUME NEW t \in TreeRecord, NEW a, Mapped(a), NEW m \in PublishMeta(t, a)
    PROVE  Mapped(m.arena) /\ SameSizes(m.arena, a) /\ m.ok \in BOOLEAN
<1> DEFINE i == t.revision % 2
           r == Record(t, a)
           wrote == [a EXCEPT !.meta[i] = r]
           lost == [a EXCEPT !.disk.meta[i] = @ \union {r, a.meta[i]}]
<1>1. /\ a \in ArenaRecord
      /\ a.meta \in [Slot -> MetaRecord \union {Zero}]
      /\ a.disk.meta \in [Slot -> SUBSET (MetaRecord \union {Zero})]
      /\ a.meta[0] \in MetaRecord /\ a.disk.meta[0] \subseteq MetaRecord
  BY DEF Mapped, ArenaTyped, ArenaRecord
<1>2. i \in Slot /\ r \in MetaRecord
  <2>1. t.revision \in Nat
    BY Bounds DEF TreeRecord, Revision
  <2>2. t.revision % 2 \in 0..1
    BY <2>1
  <2> QED
    BY <2>2, RecordTyped DEF Slot
<1> HIDE DEF i, r
<1>3. Mapped(wrote) /\ SameSizes(wrote, a)
  <2> DEFINE meta == [a.meta EXCEPT ![i] = r]
  <2>1. meta \in [Slot -> MetaRecord \union {Zero}] /\ meta[0] \in MetaRecord
    BY <1>1, <1>2 DEF Slot
  <2>2. wrote = [a EXCEPT !.meta = meta]
    BY <1>1
  <2> HIDE DEF meta, wrote
  <2>3. /\ wrote \in ArenaRecord /\ wrote.meta = meta /\ wrote.disk = a.disk
        /\ wrote.capacity = a.capacity /\ wrote.mapped = a.mapped /\ wrote.file = a.file
    BY <1>1, <2>1, <2>2 DEF ArenaRecord
  <2> QED
    BY <1>1, <2>1, <2>3 DEF Mapped, ArenaTyped, SameSizes
<1>4. Mapped(lost) /\ SameSizes(lost, a)
  <2> DEFINE held == [a.disk.meta EXCEPT ![i] = @ \union {r, a.meta[i]}]
  <2>1. held \in [Slot -> SUBSET (MetaRecord \union {Zero})] /\ held[0] \subseteq MetaRecord
    <3>1. a.meta[i] \in MetaRecord \union {Zero} /\ a.disk.meta[i] \subseteq MetaRecord \union {Zero}
      BY <1>1, <1>2
    <3>2. held \in [Slot -> SUBSET (MetaRecord \union {Zero})]
      BY <1>1, <1>2, <3>1
    <3>3. CASE i = 0
      BY <1>1, <1>2, <3>3
    <3>4. CASE i # 0
      BY <1>1, <1>2, <3>4 DEF Slot
    <3> QED
      BY <3>2, <3>3, <3>4
  <2>2. lost = [a EXCEPT !.disk.meta = held]
    BY <1>1 DEF ArenaRecord
  <2> HIDE DEF held, lost
  <2>3. /\ lost \in ArenaRecord /\ lost.meta = a.meta /\ lost.disk.meta = held
        /\ lost.capacity = a.capacity /\ lost.mapped = a.mapped /\ lost.file = a.file
    BY <1>1, <2>1, <2>2 DEF ArenaRecord
  <2> QED
    BY <1>1, <2>1, <2>3 DEF Mapped, ArenaTyped, SameSizes
<1>5. m = Ok(Fsynced(wrote), FALSE) \/ m = Failed(lost)
  BY DEF PublishMeta, i, r
<1> HIDE DEF wrote, lost
<1>6. Mapped(Fsynced(wrote)) /\ SameSizes(Fsynced(wrote), a)
  BY <1>3, FsyncedMapped DEF Mapped, SameSizes
<1>7. CASE m = Ok(Fsynced(wrote), FALSE)
  <2>1. m.ok = TRUE /\ m.arena = Fsynced(wrote)
    BY <1>7 DEF Ok
  <2> QED
    BY <1>6, <2>1, Zenon
<1>8. CASE m = Failed(lost)
  <2>1. m.ok = FALSE /\ m.arena = lost
    BY <1>8 DEF Failed
  <2> QED
    BY <1>4, <2>1, Zenon
<1> QED
  BY <1>5, <1>7, <1>8

LEMMA ObsoleteTyped ==
    ASSUME NEW t \in TreeRecord, NEW a
    PROVE  /\ ReclaimObsolete(t, a) \in TreeRecord
           /\ ReclaimObsolete(t, a).nextPage = t.nextPage
<1>1. Listed(t) \subseteq PageID
  BY Bounds DEF Listed, TreeRecord, PageID, FirstPage
<1> DEFINE named == t.chain \union UNION {a.meta[i].chain : i \in Recorded(a)}
           more == (Listed(t) \intersect a.chainBytes) \ named
<1>2. more \subseteq PageID
  BY <1>1
<1>3. ReclaimObsolete(t, a) = [t EXCEPT !.free = @ \union more]
  BY DEF ReclaimObsolete
<1> HIDE DEF more
<1> QED
  BY <1>2, <1>3 DEF TreeRecord

\* Persisting a tree keeps it inside the file, whichever step fails.
LEMMA PersistedMapped ==
    ASSUME NEW t \in TreeRecord, NEW a, Mapped(a), Below(t, a),
           NeedsChain(t) => t.nextPage <= MaxPage,
           NEW o \in Persisted(t, a)
    PROVE  /\ Mapped(o.arena) /\ o.tree \in TreeRecord /\ Below(o.tree, o.arena)
           /\ o.arena.capacity >= a.capacity
           /\ ~NeedsChain(t) => SameSizes(o.arena, a)
<1> DEFINE undone(b, p) == [ok |-> FALSE, moved |-> p.moved, tree |-> t,
                            arena |-> [b EXCEPT !.dirty = a.dirty]]
<1>1. PICK p \in PrepareMetaFreelistPages(t, a) :
         \/ o = undone(p.arena, p)
         \/ \E s \in SyncDataPages(p.arena, p.tree.nextPage) :
               \/ o = undone(s.arena, p)
               \/ \E m \in PublishMeta(p.tree, s.arena) :
                     \/ o = undone(m.arena, p)
                     \/ o = [ok |-> TRUE, moved |-> p.moved,
                             tree |-> ReclaimObsolete(p.tree, m.arena), arena |-> m.arena]
  BY DEF Persisted
<1>2. /\ Mapped(p.arena) /\ p.tree \in TreeRecord /\ Below(p.tree, p.arena)
      /\ p.arena.capacity >= a.capacity
      /\ ~NeedsChain(t) => SameSizes(p.arena, a)
      /\ SameSizes(p.arena, p.arena)
  BY PrepareMapped DEF SameSizes
<1>3. a.dirty \subseteq PageID
  BY DEF Mapped, ArenaTyped, ArenaRecord
<1>4. ASSUME NEW b, Mapped(b), SameSizes(b, p.arena), o = undone(b, p)
      PROVE  /\ Mapped(o.arena) /\ o.tree \in TreeRecord /\ Below(o.tree, o.arena)
             /\ o.arena.capacity >= a.capacity
             /\ ~NeedsChain(t) => SameSizes(o.arena, a)
  <2> DEFINE c == [b EXCEPT !.dirty = a.dirty]
  <2>1. Mapped(c) /\ SameSizes(c, p.arena)
    BY <1>3, <1>4, DirtyMapped DEF SameSizes
  <2>2. o.tree = t /\ o.arena = c
    BY <1>4
  <2>3. t.nextPage \in Nat /\ a.capacity \in Nat /\ c.capacity \in Nat
    BY <2>1, Bounds DEF TreeRecord, FirstPage, Mapped, ArenaTyped, ArenaRecord
  <2> HIDE DEF c
  <2> QED
    BY <1>2, <2>1, <2>2, <2>3 DEF Below, FirstPage, SameSizes
<1>5. ASSUME NEW s \in SyncDataPages(p.arena, p.tree.nextPage)
      PROVE  Mapped(s.arena) /\ SameSizes(s.arena, p.arena)
  BY <1>2, SyncDataMapped
<1>6. ASSUME NEW s \in SyncDataPages(p.arena, p.tree.nextPage),
             NEW m \in PublishMeta(p.tree, s.arena)
      PROVE  Mapped(m.arena) /\ SameSizes(m.arena, p.arena)
  BY <1>2, <1>5, PublishMapped DEF SameSizes
<1>7. ASSUME NEW s \in SyncDataPages(p.arena, p.tree.nextPage),
             NEW m \in PublishMeta(p.tree, s.arena),
             o = [ok |-> TRUE, moved |-> p.moved,
                  tree |-> ReclaimObsolete(p.tree, m.arena), arena |-> m.arena]
      PROVE  /\ Mapped(o.arena) /\ o.tree \in TreeRecord /\ Below(o.tree, o.arena)
             /\ o.arena.capacity >= a.capacity
             /\ ~NeedsChain(t) => SameSizes(o.arena, a)
  <2>1. o.tree = ReclaimObsolete(p.tree, m.arena) /\ o.arena = m.arena
    BY <1>7
  <2> QED
    BY <1>2, <1>6, <2>1, ObsoleteTyped DEF Below, SameSizes
<1> HIDE DEF undone
<1> QED
  BY <1>1, <1>2, <1>4, <1>5, <1>6, <1>7

----------------------------------------------------------------------------
(* Retirement *)

RetiredIds(t) == {r.id : r \in t.retired}

LEMMA RetireTyped ==
    ASSUME NEW t \in TreeRecord, NEW ids \in SUBSET PageID
    PROVE  /\ Retire(t, ids) \in TreeRecord
           /\ Retire(t, ids).nextPage = t.nextPage
           /\ Retire(t, ids).revision = t.revision
           /\ Retire(t, ids).live = t.live
<1> DEFINE more == [id : ids, revision : {t.revision}]
<1>1. more \subseteq RetiredRecord
  BY DEF TreeRecord, RetiredRecord
<1>2. Retire(t, ids) = [t EXCEPT !.retired = @ \union more]
  BY DEF Retire
<1> HIDE DEF more
<1> QED
  BY <1>1, <1>2 DEF TreeRecord

LEMMA ReclaimTyped ==
    ASSUME NEW t \in TreeRecord
    PROVE  LET u == ReclaimRetiredPages(t)
           IN /\ u \in TreeRecord
              /\ u.nextPage = t.nextPage
              /\ reader = NoReader => u.retired = {} /\ u.free = t.free \union RetiredIds(t)
<1> DEFINE kept == {r \in t.retired : reader # NoReader /\ reader <= r.revision}
           ids == {r.id : r \in t.retired \ kept}
<1>1. kept \subseteq RetiredRecord /\ ids \subseteq PageID
  BY DEF TreeRecord, RetiredRecord
<1>2. ReclaimRetiredPages(t) = [t EXCEPT !.retired = kept, !.free = @ \union ids]
  BY DEF ReclaimRetiredPages
<1>3. reader = NoReader => kept = {} /\ ids = RetiredIds(t)
  BY DEF RetiredIds
<1> HIDE DEF kept, ids
<1> QED
  BY <1>1, <1>2, <1>3 DEF TreeRecord

----------------------------------------------------------------------------
(* The invariant *)

\* The free ids, with those that a reclamation adds, fit the meta page, so that Compact
\* allocates no chain past the tail that it cuts off (mmap.go:511).
FreeListFits == Cardinality(tree.free \union RetiredIds(tree)) <= MaxMetaFree

\* What the running process relies on: a rollback and a snapshot included.
Inside ==
    Running => /\ Mapped(arena)
               /\ Below(tree, arena)
               /\ batch.active => Below(batch.tree, arena)

Inv ==
    /\ tree \in TreeRecord
    /\ ArenaTyped(arena)
    /\ \/ batch = NoBatch
       \/ batch \in BatchRecord /\ tree.revision < MaxRevision
    /\ status = "down" => batch = NoBatch
    /\ target \in Nat
    /\ status = "shrinking" => target = arena.capacity
    /\ Inside

LEMMA NewTreeTyped == NewTree \in TreeRecord /\ NewTree.nextPage = FirstPage
<1>1. FirstPage \in FirstPage..(MaxPage + 1) /\ 0 \in Revision
  BY Bounds DEF FirstPage, Revision
<1> QED
  BY <1>1 DEF NewTree, TreeRecord

LEMMA InitInv == Init => Inv
<1> SUFFICES ASSUME Init PROVE Inv
  OBVIOUS
<1> DEFINE size == MinCapacity + FirstPage
           empty == [file |-> size, mapped |-> size, capacity |-> MinCapacity,
                     stale |-> {}, dirty |-> {}, unflushed |-> {}, chainBytes |-> {},
                     meta |-> [i \in Slot |-> Zero],
                     disk |-> [size |-> {size}, meta |-> [i \in Slot |-> {Zero}]]]
           r == Record(NewTree, empty)
           first == [empty EXCEPT !.meta[0] = r]
<1>0. arena = Fsynced(first)
  BY Zenon DEF Init
<1>1. size \in Size /\ size \in Nat
  BY DEF Size, MinCapacity, FirstPage
<1>2. r \in MetaRecord
  <2>1. empty.capacity \in Nat
    BY DEF MinCapacity
  <2> HIDE DEF empty
  <2> QED
    BY <2>1, NewTreeTyped DEF Record, TreeRecord, MetaRecord
<1> HIDE DEF r
<1> DEFINE meta == [i \in Slot |-> IF i = 0 THEN r ELSE Zero]
           held == [i \in Slot |-> {meta[i]}]
           disk == [size |-> {size}, meta |-> held]
<1>3. /\ meta \in [Slot -> MetaRecord \union {Zero}] /\ meta[0] \in MetaRecord
      /\ held \in [Slot -> SUBSET (MetaRecord \union {Zero})] /\ held[0] \subseteq MetaRecord
  BY <1>2 DEF Slot
<1>4. empty \in ArenaRecord
  BY <1>1 DEF ArenaRecord, MinCapacity
<1>5. /\ empty.file = size /\ empty.mapped = size /\ empty.capacity = MinCapacity
      /\ empty.meta = [i \in Slot |-> Zero]
  OBVIOUS
<1> HIDE DEF empty
<1>6. first = [empty EXCEPT !.meta = meta]
  <2>1. [empty.meta EXCEPT ![0] = r] = meta
    BY <1>5 DEF Slot
  <2> QED
    BY <2>1
<1> HIDE DEF meta
<1>7. Mapped(arena) /\ arena.capacity = MinCapacity
  <2>1. /\ first \in ArenaRecord /\ first.meta = meta
        /\ first.file = size /\ first.mapped = size /\ first.capacity = MinCapacity
    BY <1>3, <1>4, <1>5, <1>6 DEF ArenaRecord
  <2> HIDE DEF first
  <2>2. arena = [first EXCEPT !.unflushed = {}, !.disk = disk]
    BY <1>0, <2>1 DEF Fsynced
  <2> HIDE DEF held
  <2>3. disk \in [size : SUBSET Size, meta : [Slot -> SUBSET (MetaRecord \union {Zero})]]
        /\ disk.meta = held
    BY <1>1, <1>3
  <2> HIDE DEF disk
  <2>4. /\ arena \in ArenaRecord /\ arena.meta = meta /\ arena.disk = disk
        /\ arena.file = size /\ arena.mapped = size /\ arena.capacity = MinCapacity
    BY <2>1, <2>2, <2>3 DEF ArenaRecord
  <2> QED
    BY <1>1, <1>3, <2>3, <2>4 DEF Mapped, ArenaTyped, MinCapacity, FirstPage
<1>8. tree.nextPage <= arena.capacity + FirstPage
  BY <1>7, NewTreeTyped DEF Init, MinCapacity, FirstPage
<1> QED
  BY <1>7, <1>8, NewTreeTyped DEF Init, Inv, Inside, Below, Mapped, NoBatch

\* What allocPage returns lies inside the file.
LEMMA AllocationMapped ==
    ASSUME NEW t \in TreeRecord, NEW a, Mapped(a), Below(t, a),
           t.free # {} \/ t.nextPage <= MaxPage,
           NEW o \in Allocations(t, a)
    PROVE  /\ Mapped(o.arena) /\ o.arena.capacity >= a.capacity
           /\ o.ok \in BOOLEAN /\ o.id \in PageID
           /\ o.ok => /\ o.tree \in TreeRecord /\ Below(o.tree, o.arena)
                      /\ o.tree.revision = t.revision
<1>0. /\ t.nextPage \in Nat /\ t.nextPage >= FirstPage /\ t.nextPage <= MaxPage + 1
      /\ a.capacity \in Nat
  BY Bounds DEF TreeRecord, FirstPage, Mapped, ArenaTyped, ArenaRecord
<1>1. CASE t.free # {}
  <2>1. PICK id \in t.free :
           o = [ok |-> TRUE, moved |-> FALSE, id |-> id,
                tree |-> [t EXCEPT !.free = @ \ {id}], arena |-> a]
    BY <1>1 DEF Allocations
  <2> DEFINE u == [t EXCEPT !.free = @ \ {id}]
  <2>2. o.ok = TRUE /\ o.id = id /\ o.tree = u /\ o.arena = a
    BY <2>1
  <2>3. u \in TreeRecord /\ u.nextPage = t.nextPage /\ u.revision = t.revision /\ id \in PageID
    BY DEF TreeRecord
  <2>4. Below(u, a) /\ a.capacity >= a.capacity
    BY <1>0, <2>3 DEF Below
  <2> HIDE DEF u
  <2> QED
    BY <2>2, <2>3, <2>4, Zenon
<1>2. CASE t.free = {}
  <2> DEFINE u == [t EXCEPT !.nextPage = @ + 1]
  <2>1. PICK g \in GrowMmapForPage(a, t.nextPage) :
           o = [ok |-> g.ok, moved |-> g.moved, id |-> t.nextPage, tree |-> u, arena |-> g.arena]
    BY <1>2 DEF Allocations
  <2>2. o.ok = g.ok /\ o.id = t.nextPage /\ o.tree = u /\ o.arena = g.arena
    BY <2>1
  <2>3. /\ Mapped(g.arena) /\ g.arena.capacity >= a.capacity
        /\ g.ok => t.nextPage + 1 <= g.arena.capacity + FirstPage
        /\ g.ok \in BOOLEAN
    BY <1>0, GrowMapped DEF Below
  <2>4. u \in TreeRecord /\ u.nextPage = t.nextPage + 1 /\ u.revision = t.revision
    <3>1. t.nextPage + 1 \in FirstPage..(MaxPage + 1)
      BY <1>0, <1>2, Bounds DEF FirstPage
    <3> QED
      BY <3>1 DEF TreeRecord
  <2>5. t.nextPage \in PageID
    BY <1>0, <1>2, Bounds DEF PageID, FirstPage
  <2> HIDE DEF u
  <2> QED
    BY <2>2, <2>3, <2>4, <2>5 DEF Below
<1> QED
  BY <1>1, <1>2

LEMMA RollbackMapped ==
    ASSUME NEW a, Mapped(a), batch \in BatchRecord
    PROVE  Mapped(Rollback(a)) /\ Rollback(a).capacity = a.capacity
BY DEF Rollback, BatchRecord, Mapped, ArenaTyped, ArenaRecord

\* A mutation takes a page, or ends the commit by a panic.
LEMMA StageInv ==
    ASSUME Inv, NEW copied \in SUBSET tree.live, Stage(copied)
    PROVE  Inv'
<1>1. /\ status = "open" /\ status' = status /\ target' = target /\ Running
      /\ tree.free # {} \/ tree.nextPage <= MaxPage
  BY DEF Stage, Running
<1>2. batch \in BatchRecord /\ batch.active /\ tree.revision < MaxRevision
  BY DEF Stage, Inv, NoBatch
<1>3. Mapped(arena) /\ Below(tree, arena) /\ Below(batch.tree, arena) /\ tree \in TreeRecord
  BY <1>1, <1>2 DEF Inv, Inside
<1>4. PICK o \in Allocations(tree, arena) :
         IF o.ok
         THEN /\ tree' = [Retire(o.tree, copied) EXCEPT !.live = (@ \ copied) \union {o.id}]
              /\ arena' = Written(o.arena, {o.id})
              /\ batch' = Saved(o)
         ELSE /\ tree' = batch.tree
              /\ arena' = Rollback(o.arena)
              /\ batch' = NoBatch
  BY DEF Stage
<1>5. /\ Mapped(o.arena) /\ o.arena.capacity >= arena.capacity
      /\ o.ok \in BOOLEAN /\ o.id \in PageID
      /\ o.ok => /\ o.tree \in TreeRecord /\ Below(o.tree, o.arena)
                 /\ o.tree.revision = tree.revision
  BY <1>1, <1>3, AllocationMapped
<1>6. batch.tree \in TreeRecord /\ Below(batch.tree, o.arena)
  <2>1. batch.tree \in TreeRecord
    BY <1>2 DEF BatchRecord
  <2>2. batch.tree.nextPage \in Nat /\ arena.capacity \in Nat /\ o.arena.capacity \in Nat
    BY <1>3, <1>5, <2>1, Bounds DEF TreeRecord, FirstPage, Mapped, ArenaTyped, ArenaRecord
  <2> QED
    BY <1>3, <1>5, <2>1, <2>2 DEF Below, FirstPage
<1>7. CASE o.ok
  <2> DEFINE u == Retire(o.tree, copied)
  <2>1. copied \subseteq PageID
    BY <1>3 DEF TreeRecord
  <2>2. u \in TreeRecord /\ u.nextPage = o.tree.nextPage /\ u.revision = tree.revision
    BY <1>5, <1>7, <2>1, RetireTyped
  <2>3. /\ tree' = [u EXCEPT !.live = (@ \ copied) \union {o.id}]
        /\ arena' = Written(o.arena, {o.id})
        /\ batch' = Saved(o)
    BY <1>4, <1>7
  <2> HIDE DEF u
  <2>4. tree' \in TreeRecord /\ tree'.nextPage = o.tree.nextPage /\ tree'.revision = tree.revision
    BY <1>5, <2>2, <2>3 DEF TreeRecord
  <2>5. Mapped(arena') /\ arena'.capacity = o.arena.capacity
    BY <1>5, <2>3, WrittenMapped
  <2>6. batch' \in BatchRecord /\ batch'.tree = batch.tree
    <3> DEFINE lost == IF o.moved THEN batch.replaced ELSE {}
               again == {o.id} \intersect Listed(batch.tree)
               spent == lost \union (again \intersect arena.stale)
    <3>1. lost \subseteq PageID /\ again \subseteq PageID
      BY <1>2, <1>5 DEF BatchRecord
    <3>2. batch' = [batch EXCEPT !.changed = TRUE, !.replaced = @ \union again,
                                 !.lost = @ \union spent]
      BY <2>3 DEF Saved
    <3>3. spent \subseteq PageID
      BY <3>1
    <3> HIDE DEF again, spent
    <3> QED
      BY <1>2, <3>1, <3>2, <3>3 DEF BatchRecord
  <2>7. Below(tree', arena') /\ Below(batch'.tree, arena')
    BY <1>5, <1>6, <1>7, <2>4, <2>5, <2>6 DEF Below
  <2> QED
    BY <1>1, <1>2, <2>4, <2>5, <2>6, <2>7 DEF Inv, Inside, Running, Mapped
<1>8. CASE ~o.ok
  <2>1. tree' = batch.tree /\ arena' = Rollback(o.arena) /\ batch' = NoBatch
    BY <1>4, <1>8
  <2>2. Mapped(arena') /\ arena'.capacity = o.arena.capacity
    BY <1>2, <1>5, <2>1, RollbackMapped
  <2>3. Below(tree', arena')
    BY <1>6, <2>1, <2>2 DEF Below
  <2> QED
    BY <1>1, <1>6, <2>1, <2>2, <2>3 DEF Inv, Inside, Running, Mapped, NoBatch
<1> QED
  BY <1>5, <1>7, <1>8

----------------------------------------------------------------------------
(* The operations *)

\* A step that leaves the file and the batch alone, and adds no id below t.nextPage.
LEMMA SameFileInv ==
    ASSUME Inv, UNCHANGED <<status, arena, target>>,
           tree' \in TreeRecord, tree'.nextPage = tree.nextPage,
           batch' = NoBatch
    PROVE  Inv'
BY DEF Inv, Inside, Running, Mapped, ArenaTyped, Below, NoBatch

LEMMA BatchInv ==
    ASSUME Inv, CommitBegin \/ (\E id \in tree.live : StageDrop(id)) \/ CommitPanic \/ CommitEnd
    PROVE  Inv'
<1>1. tree \in TreeRecord
  BY DEF Inv
<1>2. CASE CommitBegin
  <2> DEFINE b == [active |-> TRUE, changed |-> FALSE, tree |-> tree, dirty |-> arena.dirty,
                   replaced |-> {}, lost |-> {}]
  <2>1. b \in BatchRecord /\ b.tree = tree
    BY <1>1 DEF BatchRecord, Inv, ArenaTyped, ArenaRecord
  <2>2. /\ status = "open" /\ batch' = b /\ tree.revision < MaxRevision
        /\ UNCHANGED <<status, tree, arena, target>>
    BY <1>2 DEF CommitBegin, Idle
  <2> HIDE DEF b
  <2> QED
    BY <2>1, <2>2 DEF Inv, Inside, Running, Mapped, ArenaTyped, Below
<1>3. CASE \E id \in tree.live : StageDrop(id)
  <2>1. PICK id \in tree.live : StageDrop(id)
    BY <1>3
  <2> DEFINE u == Retire(tree, {id})
  <2>2. u \in TreeRecord /\ u.nextPage = tree.nextPage /\ u.revision = tree.revision
    <3>1. {id} \subseteq PageID
      BY <1>1 DEF TreeRecord
    <3> QED
      BY <1>1, <3>1, RetireTyped
  <2>3. /\ tree' = [u EXCEPT !.live = @ \ {id}]
        /\ batch' = [batch EXCEPT !.changed = TRUE]
        /\ status = "open" /\ batch.active
        /\ UNCHANGED <<status, arena, target>>
    BY <2>1 DEF StageDrop
  <2> HIDE DEF u
  <2>4. tree' \in TreeRecord /\ tree'.nextPage = tree.nextPage /\ tree'.revision = tree.revision
    BY <2>2, <2>3 DEF TreeRecord
  <2>5. batch \in BatchRecord /\ tree.revision < MaxRevision
    BY <2>3 DEF Inv, NoBatch
  <2>6. batch' \in BatchRecord /\ batch'.tree = batch.tree
    BY <2>3, <2>5 DEF BatchRecord
  <2> QED
    BY <2>3, <2>4, <2>5, <2>6 DEF Inv, Inside, Running, Mapped, ArenaTyped, Below
<1>4. CASE CommitPanic
  <2>1. /\ status = "open" /\ batch.active
        /\ tree' = batch.tree /\ arena' = Rollback(arena) /\ batch' = NoBatch
        /\ UNCHANGED <<status, target>>
    BY <1>4 DEF CommitPanic
  <2>2. batch \in BatchRecord /\ Mapped(arena) /\ Below(batch.tree, arena)
    BY <2>1 DEF Inv, Inside, Running, NoBatch
  <2>3. Mapped(arena') /\ arena'.capacity = arena.capacity
    BY <2>1, <2>2, RollbackMapped
  <2>4. tree' \in TreeRecord
    BY <2>1, <2>2 DEF BatchRecord
  <2> QED
    BY <2>1, <2>2, <2>3, <2>4 DEF Inv, Inside, Running, Mapped, Below, NoBatch
<1>5. CASE CommitEnd
  <2> DEFINE u == [tree EXCEPT !.revision = @ + 1]
  <2>1. tree.revision < MaxRevision
    BY <1>5 DEF CommitEnd, Inv, NoBatch
  <2>2. u \in TreeRecord /\ u.nextPage = tree.nextPage
    <3>1. tree.revision + 1 \in Revision
      BY <1>1, <2>1, Bounds DEF TreeRecord, Revision
    <3> QED
      BY <1>1, <3>1 DEF TreeRecord
  <2>3. tree' = ReclaimRetiredPages(u) /\ batch' = NoBatch /\ UNCHANGED <<status, arena, target>>
    BY <1>5 DEF CommitEnd
  <2> HIDE DEF u
  <2> QED
    BY <2>2, <2>3, ReclaimTyped, SameFileInv
<1> QED
  BY <1>2, <1>3, <1>4, <1>5

LEMMA IdleBatch == ASSUME Inv, Idle PROVE batch = NoBatch /\ Mapped(arena) /\ Below(tree, arena)
BY DEF Inv, Idle, Inside, Running, BatchRecord

LEMMA SnapshotInv ==
    ASSUME Inv, SnapshotOpen \/ SnapshotClose \/ CompactNothing
    PROVE  Inv'
<1>1. tree \in TreeRecord /\ batch = NoBatch
  BY IdleBatch DEF Inv, SnapshotOpen, SnapshotClose, CompactNothing
<1>2. CASE SnapshotOpen
  BY <1>1, <1>2, SameFileInv DEF SnapshotOpen
<1>3. CASE SnapshotClose
  <2> DEFINE ids == {r.id : r \in tree.retired}
  <2>1. tree' = [tree EXCEPT !.retired = {}, !.free = @ \union ids]
    BY <1>3 DEF SnapshotClose
  <2>2. ids \subseteq PageID
    BY <1>1 DEF TreeRecord, RetiredRecord
  <2> HIDE DEF ids
  <2>3. tree' \in TreeRecord /\ tree'.nextPage = tree.nextPage
    BY <1>1, <2>1, <2>2 DEF TreeRecord
  <2> QED
    BY <1>1, <1>3, <2>3, SameFileInv DEF SnapshotClose
<1>4. CASE CompactNothing
  BY <1>1, <1>4, ReclaimTyped, SameFileInv DEF CompactNothing
<1> QED
  BY <1>2, <1>3, <1>4

LEMMA SyncInv ==
    ASSUME Inv, Sync
    PROVE  Inv'
<1>1. batch = NoBatch /\ Mapped(arena) /\ Below(tree, arena) /\ tree \in TreeRecord
  BY IdleBatch DEF Sync, Inv
<1>2. PICK o \in Persisted(tree, arena) :
         /\ tree' = o.tree
         /\ arena' = o.arena
         /\ status' = IF o.ok THEN AfterReads(o.tree, o.arena, "open") ELSE "open"
  BY DEF Sync
<1>3. /\ Mapped(o.arena) /\ o.tree \in TreeRecord /\ Below(o.tree, o.arena)
      /\ NeedsChain(tree) => tree.nextPage <= MaxPage
      /\ UNCHANGED <<batch, target>>
  BY <1>1, PersistedMapped DEF Sync
<1>4. status' # "shrinking"
  BY <1>2 DEF AfterReads
<1> QED
  BY <1>1, <1>2, <1>3, <1>4 DEF Inv, Inside, Running, Mapped, NoBatch

LEMMA PageIDFinite == IsFiniteSet(PageID)
BY Bounds, FS_Interval DEF PageID, FirstPage

\* Compact cuts the pages `removed` off the tree `before`, and needs no chain for what is left.
CutFacts(before, next, capacity, removed, trimmed, cut) ==
    /\ before \in TreeRecord /\ before.nextPage = tree.nextPage /\ before.retired = {}
    /\ trimmed \in TreeRecord /\ trimmed.nextPage = next /\ trimmed.live = before.live
    /\ trimmed.retired = {} /\ trimmed.free = before.free \ removed
    /\ trimmed.chain = before.chain /\ trimmed.revision = before.revision
    /\ ~NeedsChain(trimmed)
    /\ next \in Nat /\ next >= FirstPage /\ next <= before.nextPage
    /\ removed \subseteq before.free /\ removed \subseteq PageID
    /\ capacity \in Nat /\ capacity <= arena.capacity
    /\ Mapped(cut) /\ Below(trimmed, cut) /\ cut.capacity = capacity
    /\ cut.mapped = arena.mapped /\ cut.file = arena.file
    /\ cut.meta = arena.meta /\ cut.disk = arena.disk
    /\ cut.chainBytes = arena.chainBytes /\ cut.unflushed = arena.unflushed
    /\ cut.dirty = arena.dirty \ removed /\ cut.stale = arena.stale \ removed

LEMMA CutIs ==
    ASSUME Inv, FreeListFits, Idle, reader = NoReader
    PROVE  LET before == ReclaimRetiredPages(tree)
               next == TrailingFreeNextPage(before)
               capacity == Max({next - FirstPage, MinCapacity})
               removed == next..(before.nextPage - 1)
               trimmed == [before EXCEPT !.free = @ \ removed, !.nextPage = next]
               cut == [arena EXCEPT !.capacity = capacity, !.dirty = @ \ removed,
                                    !.stale = @ \ removed]
           IN  CutFacts(before, next, capacity, removed, trimmed, cut)
<1> DEFINE before == ReclaimRetiredPages(tree)
           next == TrailingFreeNextPage(before)
           capacity == Max({next - FirstPage, MinCapacity})
           removed == next..(before.nextPage - 1)
           trimmed == [before EXCEPT !.free = @ \ removed, !.nextPage = next]
           cut == [arena EXCEPT !.capacity = capacity, !.dirty = @ \ removed, !.stale = @ \ removed]
<1> SUFFICES CutFacts(before, next, capacity, removed, trimmed, cut)
  OBVIOUS
<1> HIDE DEF next, capacity, removed, trimmed, cut
<1>1. /\ Mapped(arena) /\ Below(tree, arena) /\ tree \in TreeRecord
  BY IdleBatch DEF Inv
<1>2. /\ before \in TreeRecord /\ before.nextPage = tree.nextPage
      /\ before.retired = {} /\ before.free = tree.free \union RetiredIds(tree)
  BY <1>1, ReclaimTyped
<1>. HIDE DEF before
<1>3. /\ arena \in ArenaRecord /\ arena.capacity \in Nat /\ arena.mapped \in Nat
      /\ arena.file \in Nat
      /\ before.nextPage \in Nat /\ before.nextPage <= MaxPage + 1
      /\ before.nextPage <= arena.capacity + FirstPage
      /\ arena.capacity >= MinCapacity
      /\ arena.capacity + FirstPage <= arena.mapped /\ arena.capacity + FirstPage <= arena.file
  BY <1>1, <1>2, Bounds DEF Mapped, ArenaTyped, ArenaRecord, Size, Below, TreeRecord, FirstPage
<1>4. next \in FirstPage..before.nextPage /\ next..(before.nextPage - 1) \subseteq before.free
  BY <1>2, TrailingTyped DEF next, removed
<1>5. /\ next \in Nat /\ next >= FirstPage /\ next <= before.nextPage
      /\ capacity \in Nat /\ capacity >= MinCapacity
      /\ next <= capacity + FirstPage /\ capacity <= arena.capacity
  <2>1. next \in Nat /\ next >= FirstPage /\ next <= before.nextPage
    BY <1>3, <1>4 DEF FirstPage
  <2>2. next - FirstPage \in Int /\ MinCapacity \in Int
    BY <2>1 DEF FirstPage, MinCapacity
  <2>3. /\ capacity \in {next - FirstPage, MinCapacity}
        /\ capacity >= next - FirstPage /\ capacity >= MinCapacity
    BY <2>2, MaxOfTwo DEF capacity
  <2> QED
    BY <1>3, <2>1, <2>3 DEF FirstPage, MinCapacity
<1>6. removed \subseteq before.free /\ removed \subseteq PageID
  BY <1>2, <1>4 DEF TreeRecord, removed
<1>7. /\ trimmed \in TreeRecord /\ trimmed.nextPage = next /\ trimmed.live = before.live
      /\ trimmed.retired = {} /\ trimmed.free = before.free \ removed
      /\ trimmed.chain = before.chain /\ trimmed.revision = before.revision
  <2>1. next \in FirstPage..(MaxPage + 1)
    BY <1>3, <1>5, Bounds DEF FirstPage
  <2> QED
    BY <1>2, <2>1 DEF TreeRecord, trimmed
<1>8. ~NeedsChain(trimmed)
  <2>1. before.free \subseteq PageID
    BY <1>2 DEF TreeRecord
  <2>2. IsFiniteSet(before.free)
    BY <2>1, PageIDFinite, FS_Subset
  <2>3. /\ Cardinality(before.free \ removed) <= Cardinality(before.free)
        /\ IsFiniteSet(before.free \ removed)
    BY <2>2, FS_Subset
  <2>4. Cardinality(before.free) <= MaxMetaFree
    BY <1>2 DEF FreeListFits, before
  <2>5. Cardinality(before.free) \in Nat /\ Cardinality(before.free \ removed) \in Nat
    BY <2>2, <2>3, FS_CardinalityType
  <2>6. Cardinality(trimmed.free) <= MaxMetaFree
    BY <1>7, <2>3, <2>4, <2>5, Bounds
  <2> QED
    BY <1>7, <2>3, <2>5, <2>6, Bounds DEF NeedsChain
<1>9. /\ Mapped(cut) /\ cut.capacity = capacity
       /\ cut.mapped = arena.mapped /\ cut.file = arena.file
       /\ cut.meta = arena.meta /\ cut.disk = arena.disk
       /\ cut.chainBytes = arena.chainBytes /\ cut.unflushed = arena.unflushed
       /\ cut.dirty = arena.dirty \ removed /\ cut.stale = arena.stale \ removed
  <2>1. /\ cut \in ArenaRecord /\ cut.meta = arena.meta /\ cut.disk = arena.disk
        /\ cut.capacity = capacity /\ cut.mapped = arena.mapped /\ cut.file = arena.file
        /\ cut.chainBytes = arena.chainBytes /\ cut.unflushed = arena.unflushed
        /\ cut.dirty = arena.dirty \ removed /\ cut.stale = arena.stale \ removed
    BY <1>3, <1>5 DEF ArenaRecord, cut
  <2> QED
    BY <1>1, <1>3, <1>5, <2>1 DEF Mapped, ArenaTyped, FirstPage
<1>10. Below(trimmed, cut)
  BY <1>5, <1>7, <1>9 DEF Below
<1> QED
  BY <1>2, <1>5, <1>6, <1>7, <1>8, <1>9, <1>10 DEF CutFacts

LEMMA CompactPublishInv ==
    ASSUME Inv, FreeListFits, CompactPublish
    PROVE  Inv'
<1> DEFINE before == ReclaimRetiredPages(tree)
           next == TrailingFreeNextPage(before)
           capacity == Max({next - FirstPage, MinCapacity})
           removed == next..(before.nextPage - 1)
           trimmed == [before EXCEPT !.free = @ \ removed, !.nextPage = next]
           cut == [arena EXCEPT !.capacity = capacity, !.dirty = @ \ removed, !.stale = @ \ removed]
<1>1. /\ batch = NoBatch /\ Mapped(arena) /\ Below(tree, arena) /\ tree \in TreeRecord
      /\ reader = NoReader /\ status = "open" /\ Idle
  BY IdleBatch DEF CompactPublish, Inv, Idle
<1>2. PICK o \in Persisted(trimmed, cut) :
         IF o.ok
         THEN /\ tree' = o.tree
              /\ arena' = o.arena
              /\ status' = AfterReads(o.tree, o.arena,
                               IF capacity < arena.capacity THEN "shrinking" ELSE "open")
              /\ target' = IF status' = "shrinking" THEN capacity ELSE 0
         ELSE /\ tree' = before
              /\ arena' = [o.arena EXCEPT
                    !.capacity = arena.capacity,
                    !.dirty = arena.dirty,
                    !.stale = @ \union (IF o.moved THEN removed
                                        ELSE arena.stale \intersect removed)]
              /\ UNCHANGED <<status, target>>
  BY DEF CompactPublish
<1>3. UNCHANGED <<batch, reader>>
  BY DEF CompactPublish
<1>4. /\ before \in TreeRecord /\ before.nextPage = tree.nextPage
      /\ trimmed \in TreeRecord /\ ~NeedsChain(trimmed)
      /\ removed \subseteq PageID
      /\ capacity \in Nat
      /\ Mapped(cut) /\ Below(trimmed, cut) /\ cut.capacity = capacity
      /\ cut.mapped = arena.mapped /\ cut.file = arena.file
  <2>1. CutFacts(before, next, capacity, removed, trimmed, cut)
    BY <1>1, CutIs
  <2> HIDE DEF before, next, capacity, removed, trimmed, cut
  <2> QED
    BY <2>1 DEF CutFacts
<1> HIDE DEF before, next, capacity, removed, trimmed, cut
<1>5. /\ Mapped(o.arena) /\ o.tree \in TreeRecord /\ Below(o.tree, o.arena)
      /\ SameSizes(o.arena, cut)
  BY <1>4, PersistedMapped
<1>6. CASE o.ok
  <2>1. /\ tree' = o.tree /\ arena' = o.arena
        /\ target' = IF status' = "shrinking" THEN capacity ELSE 0
    BY <1>2, <1>6
  <2>2. target' \in Nat /\ (status' = "shrinking" => target' = arena'.capacity)
    BY <1>4, <1>5, <2>1 DEF SameSizes
  <2> QED
    BY <1>1, <1>3, <1>5, <2>1, <2>2 DEF Inv, Inside, Mapped, NoBatch
<1>7. CASE ~o.ok
  <2> DEFINE more == IF o.moved THEN removed ELSE arena.stale \intersect removed
             b == [o.arena EXCEPT !.capacity = arena.capacity, !.dirty = arena.dirty,
                                  !.stale = @ \union more]
  <2>1. tree' = before /\ arena' = b /\ UNCHANGED <<status, target>>
    BY <1>2, <1>7
  <2>2. /\ more \subseteq PageID /\ arena.dirty \subseteq PageID /\ arena \in ArenaRecord
        /\ arena.capacity \in Nat
    BY <1>1, <1>4 DEF ArenaRecord, Mapped, ArenaTyped
  <2> HIDE DEF more
  <2>3. /\ b \in ArenaRecord /\ b.meta = o.arena.meta /\ b.disk = o.arena.disk
        /\ b.capacity = arena.capacity /\ b.mapped = arena.mapped /\ b.file = arena.file
    BY <1>4, <1>5, <2>2 DEF Mapped, ArenaTyped, ArenaRecord, SameSizes
  <2> HIDE DEF b
  <2>4. Mapped(b)
    BY <1>1, <1>5, <2>3 DEF Mapped, ArenaTyped
  <2>5. Below(before, b)
    BY <1>1, <1>4, <2>3 DEF Below
  <2> QED
    BY <1>1, <1>3, <1>4, <2>1, <2>4, <2>5 DEF Inv, Inside, Mapped, NoBatch
<1> QED
  BY <1>6, <1>7

\* The capacity is the target already: whatever fails, the file holds it.
LEMMA CompactShrinkInv ==
    ASSUME Inv, CompactShrink
    PROVE  Inv'
<1> DEFINE size == target + FirstPage
           kept == Fsynced(Truncated(arena, size))
<1>1. /\ status = "shrinking" /\ status' = "open" /\ target' = 0
      /\ UNCHANGED <<tree, batch, reader>>
  BY DEF CompactShrink
<1>2. /\ Mapped(arena) /\ Below(tree, arena) /\ target = arena.capacity
      /\ batch.active => Below(batch.tree, arena)
  BY <1>1 DEF Inv, Inside, Running
<1>3. PICK o \in {Ok(Remapped(arena, target), TRUE), Failed(kept)}
                  \union {Failed(b) : b \in Unresized(arena, target)} :
         arena' = o.arena
  BY DEF CompactShrink
<1>4. /\ target \in Nat /\ target >= MinCapacity /\ target >= arena.capacity
      /\ target + FirstPage <= arena.mapped
  BY <1>2 DEF Mapped, ArenaTyped, ArenaRecord
<1>5. Mapped(arena') /\ arena'.capacity = arena.capacity
  <2>1. CASE arena' = Remapped(arena, target)
    BY <1>2, <1>4, <2>1, RemappedMapped DEF Mapped
  <2>2. CASE arena' = kept
    <3>1. size \in Size
      BY <1>4 DEF Size, MinCapacity, FirstPage
    <3>2. ArenaTyped(arena) /\ arena.capacity = target
      BY <1>2 DEF Mapped
    <3>3. /\ ArenaTyped(kept) /\ kept.capacity = arena.capacity
          /\ kept.mapped = arena.mapped /\ kept.file = size
      BY <3>1, <3>2, TruncatedMapped, FsyncedMapped
    <3> HIDE DEF kept
    <3> QED
      BY <1>2, <1>4, <2>2, <3>2, <3>3 DEF Mapped, FirstPage
  <2>3. CASE arena' \in Unresized(arena, target)
    BY <1>2, <1>4, <2>3, UnresizedMapped
  <2> QED
    BY <1>3, <2>1, <2>2, <2>3 DEF Ok, Failed
<1> QED
  BY <1>1, <1>2, <1>5 DEF Inv, Inside, Running, Mapped, Below

LEMMA PunchInv ==
    ASSUME Inv, Punch
    PROVE  Inv'
<1>1. batch = NoBatch /\ Mapped(arena) /\ Below(tree, arena) /\ tree \in TreeRecord
  BY IdleBatch DEF Punch, Inv
<1>2. PICK ids : tree' = ReclaimRetiredPages(tree) /\ arena' = Overwritten(arena, ids)
  BY DEF Punch
<1>3. Mapped(arena') /\ arena'.capacity = arena.capacity
  BY <1>1, <1>2, OverwrittenMapped
<1>4. tree' \in TreeRecord /\ tree'.nextPage = tree.nextPage
  BY <1>1, <1>2, ReclaimTyped
<1>5. status' # "shrinking" /\ UNCHANGED <<batch, target>>
  BY DEF Punch
<1> QED
  BY <1>1, <1>3, <1>4, <1>5 DEF Inv, Inside, Below, Mapped, NoBatch

LEMMA DownInv ==
    ASSUME NEW a, ArenaTyped(a), Down(a)
    PROVE  Inv'
<1>1. ArenaTyped(Unmapped(a))
  BY DEF Unmapped, ArenaTyped, ArenaRecord
<1> QED
  BY <1>1, NewTreeTyped DEF Down, Inv, Inside, Running

LEMMA CrashInv ==
    ASSUME Inv, Close \/ Kill \/ PowerLoss
    PROVE  Inv'
<1>1. CASE Close
  <2> DEFINE before == ReclaimRetiredPages(tree)
  <2>1. Mapped(arena) /\ Below(tree, arena) /\ tree \in TreeRecord
    BY <1>1, IdleBatch DEF Close, Inv
  <2>2. before \in TreeRecord /\ before.nextPage = tree.nextPage
    BY <2>1, ReclaimTyped
  <2>3. PICK o \in Persisted(before, arena) : Down(o.arena)
    BY <1>1 DEF Close
  <2>4. NeedsChain(before) => before.nextPage <= MaxPage
    BY <1>1 DEF Close
  <2> HIDE DEF before
  <2>5. ArenaTyped(o.arena)
    BY <2>1, <2>2, <2>3, <2>4, PersistedMapped DEF Below, Mapped
  <2> QED
    BY <2>3, <2>5, DownInv
<1>2. CASE Kill
  BY <1>2, DownInv DEF Kill, Inv
<1>3. CASE PowerLoss
  <2>1. PICK size \in arena.disk.size, first \in arena.disk.meta[0],
             second \in arena.disk.meta[1] :
           Down(Fsynced([arena EXCEPT
                    !.file = size,
                    !.meta = [i \in Slot |-> IF i = 0 THEN first ELSE second]]))
    BY <1>3 DEF PowerLoss
  <2> DEFINE meta == [i \in Slot |-> IF i = 0 THEN first ELSE second]
             a == [arena EXCEPT !.file = size, !.meta = meta]
  <2>2. /\ arena \in ArenaRecord /\ arena.disk.size \subseteq Size
        /\ arena.disk.meta[0] \subseteq MetaRecord
        /\ arena.disk.meta[1] \subseteq MetaRecord \union {Zero}
    BY DEF Inv, ArenaTyped, ArenaRecord, Slot
  <2>3. meta \in [Slot -> MetaRecord \union {Zero}] /\ meta[0] \in MetaRecord
    BY <2>2 DEF Slot
  <2> HIDE DEF meta
  <2>4. a \in ArenaRecord /\ a.meta = meta /\ a.disk = arena.disk
    BY <2>2, <2>3 DEF ArenaRecord
  <2>5. Down(Fsynced(a))
    BY <2>1 DEF meta
  <2> HIDE DEF a
  <2>6. ArenaTyped(a)
    BY <2>2, <2>3, <2>4 DEF ArenaTyped
  <2> QED
    BY <2>5, <2>6, FsyncedMapped, DownInv
<1> QED
  BY <1>1, <1>2, <1>3

\* Recovery finds a meta page that was written.
LEMMA NewestRecord ==
    ASSUME NEW a, ArenaTyped(a)
    PROVE  a.meta[Newest(a.meta)] \in MetaRecord
<1> DEFINE r == a.meta[Newest(a.meta)]
<1>0. a.meta \in [Slot -> MetaRecord \union {Zero}] /\ a.meta[0] \in MetaRecord
  BY DEF ArenaTyped, ArenaRecord
<1>1. a.meta[0].revision \in Nat
  BY <1>0, Bounds DEF MetaRecord, Revision
<1>2. \A i \in Slot : a.meta[i].revision \in Int
  BY <1>0, Bounds DEF MetaRecord, Revision, Zero
<1>3. \E i \in Slot : \A j \in Slot : a.meta[i].revision >= a.meta[j].revision
  <2>1. CASE a.meta[0].revision >= a.meta[1].revision
    BY <1>2, <2>1 DEF Slot
  <2>2. CASE a.meta[1].revision >= a.meta[0].revision
    BY <1>2, <2>2 DEF Slot
  <2> QED
    BY <1>2, <2>1, <2>2 DEF Slot
<1>4. /\ Newest(a.meta) \in Slot
      /\ \A j \in Slot : a.meta[Newest(a.meta)].revision >= a.meta[j].revision
  BY <1>3 DEF Newest
<1>5. r.revision >= a.meta[0].revision /\ r \in MetaRecord \union {Zero}
  BY <1>0, <1>4 DEF Slot
<1> HIDE DEF r
<1>6. r # Zero
  BY <1>1, <1>5 DEF Zero
<1> QED
  BY <1>5, <1>6 DEF r

\* A root that OpenMmap accepts fits the file that it maps.
LEMMA OpenInv ==
    ASSUME Inv, Open
    PROVE  Inv'
<1> DEFINE r == arena.meta[Newest(arena.meta)]
           opened == [arena EXCEPT !.mapped = arena.file, !.capacity = arena.file - FirstPage]
           found == [live |-> r.live, free |-> r.free, retired |-> r.retired,
                     nextPage |-> r.nextPage, chain |-> r.chain, revision |-> r.revision]
<1>1. /\ status = "down" /\ status' = "open"
      /\ Fits(r, arena.file)
      /\ tree' = ReclaimObsolete(found, opened)
      /\ arena' = opened
      /\ UNCHANGED <<batch, reader, target>>
  BY DEF Open
<1>2. /\ arena \in ArenaRecord /\ arena.file \in Size
      /\ arena.meta \in [Slot -> MetaRecord \union {Zero}]
      /\ arena.meta[0] \in MetaRecord
  BY DEF Inv, ArenaTyped, ArenaRecord
<1>3. r \in MetaRecord
  BY NewestRecord DEF Inv
<1> HIDE DEF r
<1>4. found \in TreeRecord /\ found.nextPage = r.nextPage
  BY <1>3 DEF MetaRecord, TreeRecord
<1>5. tree' \in TreeRecord /\ tree'.nextPage = r.nextPage
  BY <1>1, <1>4, ObsoleteTyped
<1>6. /\ arena.file \in Nat /\ arena.file >= MinCapacity + FirstPage
      /\ arena.file - FirstPage \in Nat
  BY <1>2 DEF Size, MinCapacity, FirstPage
<1>7. /\ opened \in ArenaRecord /\ opened.meta = arena.meta /\ opened.disk = arena.disk
      /\ opened.capacity = arena.file - FirstPage
      /\ opened.mapped = arena.file /\ opened.file = arena.file
  BY <1>2, <1>6 DEF ArenaRecord
<1> HIDE DEF opened, found
<1>8. Mapped(opened)
  BY <1>6, <1>7 DEF Mapped, Inv, ArenaTyped, MinCapacity, FirstPage
<1>9. Below(tree', opened)
  <2>1. r.nextPage \in Nat /\ r.nextPage <= arena.file
    BY <1>1, <1>3, Bounds DEF Fits, MetaRecord, FirstPage
  <2> QED
    BY <1>5, <1>6, <1>7, <2>1 DEF Below, FirstPage
<1> QED
  BY <1>1, <1>5, <1>8, <1>9 DEF Inv, Inside, Mapped, NoBatch

----------------------------------------------------------------------------
(* The theorem *)

LEMMA StepInv == Inv /\ FreeListFits /\ [Next]_vars => Inv'
<1> SUFFICES ASSUME Inv, FreeListFits, [Next]_vars PROVE Inv'
  OBVIOUS
<1>1. CASE UNCHANGED vars
  BY <1>1 DEF vars, Inv, Inside, Running, Mapped, ArenaTyped, Below
<1>2. CASE \E copied \in {{}} \union {{id} : id \in tree.live} : Stage(copied)
  <2>1. PICK copied \in {{}} \union {{id} : id \in tree.live} : Stage(copied)
    BY <1>2
  <2>2. copied \in SUBSET tree.live
    OBVIOUS
  <2> QED
    BY <2>1, <2>2, StageInv
<1> QED
  BY <1>1, <1>2, BatchInv, SnapshotInv, SyncInv, CompactPublishInv, CompactShrinkInv,
     PunchInv, CrashInv, OpenInv DEF Next

LEMMA InsideFile == Inv => PagesInsideFile
<1> SUFFICES ASSUME Inv, Running PROVE /\ tree.nextPage <= arena.capacity + FirstPage
                                       /\ arena.capacity + FirstPage <= Min({arena.mapped, arena.file})
  BY DEF PagesInsideFile
<1>1. Mapped(arena) /\ Below(tree, arena)
  BY DEF Inv, Inside
<1>2. /\ arena.capacity + FirstPage \in Int /\ arena.mapped \in Int /\ arena.file \in Int
      /\ arena.capacity + FirstPage <= arena.mapped
      /\ arena.capacity + FirstPage <= arena.file
  BY <1>1 DEF Mapped, ArenaTyped, ArenaRecord, Size, FirstPage
<1> QED
  BY <1>1, <1>2, MinOfTwo DEF Below

\* Every id below t.nextPage and every id that may be allocated without growth lies inside
\* the mapping and the file, through failed growths, shrinks, rollbacks and crashes, as
\* long as the free ids fit the meta page (mmap.go pageBytes, remapMmap, restoreFileSize).
THEOREM AlwaysInsideFile == Spec /\ []FreeListFits => []PagesInsideFile
<1>1. Init => Inv
  BY InitInv
<1>2. Inv /\ FreeListFits /\ [Next]_vars => Inv'
  BY StepInv
<1>3. Inv => PagesInsideFile
  BY InsideFile
<1> QED
  BY <1>1, <1>2, <1>3, PTL DEF Spec
=============================================================================
