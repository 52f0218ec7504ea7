------------------------------ MODULE MmapIdsProofs ------------------------------
(***************************************************************************)
(* Proof that page ids are accounted for: a free id is nothing else, and   *)
(* until the process is killed no id below nextPage is lost.  An obsolete  *)
(* chain is found again by its bytes, so that every id of a tree is in use *)
(* or still reads as a chain page.                                         *)
(***************************************************************************)
EXTENDS MmapRootsProofs

Chains(a) == UNION {a.meta[i].chain : i \in Recorded(a)}

\* Every id of a tree, or of a root, is in use or reads as a chain page.
Traced(t, a) == Listed(t) \subseteq InUse(t) \union a.chainBytes

\* Every id of a tree is in use or in the chain of the tree or of a meta page.
Named(t, a) == Listed(t) \subseteq InUse(t) \union t.chain \union Chains(a)

Accounted(t, a) == Traced(t, a) /\ Named(t, a)

CountRecord == [faults : Nat, closes : Nat, crashes : Nat, readers : Nat]

\* A process that was not killed, and the root that the last Close has left.
IdsInv ==
    /\ count \in CountRecord
    /\ count.crashes = 0 =>
          /\ Running => Accounted(tree, arena)
          /\ batch.active => Accounted(batch.tree, arena)
          /\ status = "down" => Traced(arena.meta[Newest(arena.meta)], arena)

\* The meta pages have the same chains, and other pages than ids read as they did.
Alike(b, a, ids) ==
    /\ Chains(b) = Chains(a)
    /\ a.chainBytes \ ids \subseteq b.chainBytes

LEMMA SameAlike ==
    ASSUME NEW a, NEW b, b.meta = a.meta, b.chainBytes = a.chainBytes, NEW ids
    PROVE  Alike(b, a, ids)
BY DEF Alike, Chains, Recorded

LEMMA CalmerAlike ==
    ASSUME NEW a, NEW b, NEW k, Calmer(b, a, k), NEW ids
    PROVE  Alike(b, a, ids)
BY SameAlike DEF Calmer

LEMMA AlikeTrans ==
    ASSUME NEW a, NEW b, NEW c, NEW ids, Alike(b, a, ids), Alike(c, b, ids)
    PROVE  Alike(c, a, ids)
BY DEF Alike

\* What is spoilt keeps its chain.
LEMMA MarkedAlike ==
    ASSUME NEW a, ArenaTyped(a), NEW b, NEW ids, Marked(b, a, ids),
           a.chainBytes \ ids \subseteq b.chainBytes
    PROVE  Alike(b, a, ids)
<1>1. ASSUME NEW i \in Slot
      PROVE  /\ a.meta[i] = Zero <=> b.meta[i] = Zero
             /\ a.meta[i] # Zero => b.meta[i].chain = a.meta[i].chain
  <2>1. a.meta[i] \in Root /\ b.meta[i] = Spoilt(a.meta[i], ids)
    BY ArenaFields DEF Marked
  <2> QED
    BY <2>1, SpoiltIs
<1>2. Recorded(b) = Recorded(a)
  BY <1>1 DEF Recorded
<1>3. \A i \in Recorded(a) : b.meta[i].chain = a.meta[i].chain
  BY <1>1 DEF Recorded
<1>4. Chains(b) = Chains(a)
  BY <1>2, <1>3 DEF Chains
<1> QED
  BY <1>4 DEF Alike

\* A tree that has in use the pages among ids stays accounted for.
LEMMA AlikeAccounted ==
    ASSUME NEW a, NEW b, NEW ids, Alike(b, a, ids), NEW t, ids \intersect Listed(t) \subseteq InUse(t)
    PROVE  /\ Traced(t, a) => Traced(t, b)
           /\ Named(t, a) => Named(t, b)
           /\ Accounted(t, a) => Accounted(t, b)
<1>1. Traced(t, a) => Traced(t, b)
  BY DEF Traced, Alike
<1>2. Named(t, a) => Named(t, b)
  BY DEF Named, Alike
<1> QED
  BY <1>1, <1>2 DEF Accounted

\* reclaimObsoleteMetaFreelistPages finds what no meta page names any more.
LEMMA ObsoleteAccounted ==
    ASSUME NEW t \in TreeRecord, NEW a, Traced(t, a)
    PROVE  Accounted(ReclaimObsolete(t, a), a)
<1> DEFINE named == t.chain \union UNION {a.meta[i].chain : i \in Recorded(a)}
           more == (Listed(t) \intersect a.chainBytes) \ named
           u == ReclaimObsolete(t, a)
<1>1. u = [t EXCEPT !.free = @ \union more]
  BY DEF ReclaimObsolete
<1>2. named = t.chain \union Chains(a)
  BY DEF Chains
<1> HIDE DEF u, named
<1>3. more = (Listed(t) \intersect a.chainBytes) \ named
  OBVIOUS
<1> HIDE DEF more
<1>4. /\ u.live = t.live /\ u.retired = t.retired /\ u.chain = t.chain
      /\ u.nextPage = t.nextPage /\ u.free = t.free \union more
  BY <1>1 DEF TreeRecord
<1>5. Listed(u) = Listed(t) /\ InUse(u) = InUse(t) \union more
  BY <1>4 DEF Listed, InUse, RetiredIds
<1>6. Traced(u, a)
  BY <1>5 DEF Traced
<1>7. Named(u, a)
  BY <1>2, <1>3, <1>4, <1>5 DEF Traced, Named
<1> QED
  BY <1>6, <1>7 DEF Accounted, u

\* A tree in which retired pages are free has the same ids in use.
LEMMA ReclaimedAccounted ==
    ASSUME NEW t, NEW u, Reclaimed(u, t), NEW a, Accounted(t, a)
    PROVE  Accounted(u, a)
<1>1. Listed(u) = Listed(t) /\ InUse(u) = InUse(t) /\ u.chain = t.chain
  BY DEF Reclaimed, RetiredIds, Listed, InUse
<1> QED
  BY <1>1 DEF Accounted, Traced, Named

----------------------------------------------------------------------------
(* Publication *)

\* The page that a new chain is written to.
Fresh(t) == IF NeedsChain(t) THEN {t.nextPage} ELSE {}

LEMMA PrepareAlike ==
    ASSUME NEW t \in TreeRecord, NEW a, NEW k, Publishing(t, a, k),
           NEW p \in PrepareMetaFreelistPages(t, a)
    PROVE  /\ Alike(p.arena, a, Fresh(t))
           /\ p.ok /\ Traced(t, a) => Traced(p.tree, p.arena)
<1>0. /\ t.nextPage \in Nat /\ t.nextPage >= FirstPage /\ ArenaTyped(a) /\ Mapped(a) /\ Held(a)
      /\ t.nextPage <= a.capacity + FirstPage /\ (NeedsChain(t) => t.nextPage <= MaxPage)
  BY Bounds DEF TreeRecord, FirstPage, Mapped, Publishing, Roots, Below
<1>1. CASE ~NeedsChain(t)
  <2> DEFINE u == [t EXCEPT !.chain = {}]
  <2>1. p = [ok |-> TRUE, moved |-> FALSE, tree |-> u, arena |-> a]
    BY <1>1 DEF PrepareMetaFreelistPages
  <2>2. /\ u.live = t.live /\ u.free = t.free /\ u.retired = t.retired /\ u.nextPage = t.nextPage
    BY DEF TreeRecord
  <2>3. p.tree = u /\ p.arena = a
    BY <2>1
  <2> HIDE DEF u
  <2>4. Listed(u) = Listed(t) /\ InUse(u) = InUse(t)
    BY <2>2 DEF RetiredIds, Listed, InUse
  <2>5. Alike(a, a, Fresh(t))
    BY SameAlike
  <2> QED
    BY <2>3, <2>4, <2>5 DEF Traced
<1>2. CASE NeedsChain(t)
  <2> DEFINE ids == {t.nextPage}
             u == [t EXCEPT !.nextPage = @ + 1, !.chain = ids]
             chained(g) == [Written(g.arena, ids) EXCEPT !.chainBytes = @ \union ids]
  <2>1. PICK g \in GrowMmapForPage(a, t.nextPage) :
           \/ ~g.ok /\ p = [ok |-> FALSE, moved |-> FALSE, tree |-> t, arena |-> g.arena]
           \/ g.ok /\ p = [ok |-> TRUE, moved |-> g.moved, tree |-> u, arena |-> chained(g)]
    BY <1>2 DEF PrepareMetaFreelistPages
  <2>2. Mapped(g.arena) /\ Calmer(g.arena, a, a.capacity + FirstPage)
    BY <1>0, <1>2, GrowMapped, GrowIs
  <2>3. Fresh(t) = ids
    BY <1>2 DEF Fresh
  <2>4. Alike(g.arena, a, ids)
    BY <2>2, CalmerAlike
  <2>5. CASE ~g.ok /\ p = [ok |-> FALSE, moved |-> FALSE, tree |-> t, arena |-> g.arena]
    <3>1. p.ok = FALSE /\ p.arena = g.arena
      BY <2>5
    <3> QED
      BY <2>3, <2>4, <3>1, Zenon
  <2>6. CASE g.ok /\ p = [ok |-> TRUE, moved |-> g.moved, tree |-> u, arena |-> chained(g)]
    <3> DEFINE b == Written(g.arena, ids)
               d == [b EXCEPT !.chainBytes = @ \union ids]
    <3>1. p.tree = u /\ p.arena = d
      BY <2>6
    <3>2. /\ u.nextPage = t.nextPage + 1 /\ u.live = t.live
          /\ u.free = t.free /\ u.retired = t.retired
      <4>1. u = [t EXCEPT !.nextPage = t.nextPage + 1, !.chain = ids]
        OBVIOUS
      <4> HIDE DEF u, ids
      <4> QED
        BY <4>1 DEF TreeRecord
    <3>3. ids \in SUBSET PageID /\ ArenaTyped(g.arena)
      BY <1>0, <1>2, <2>2 DEF PageID, Mapped
    <3>4. ArenaTyped(b) /\ Marked(b, g.arena, ids) /\ b.chainBytes = g.arena.chainBytes \ ids
      BY <3>3, WrittenFields
    <3> HIDE DEF u, b
    <3>5. d.meta = b.meta /\ d.chainBytes = b.chainBytes \union ids
      BY <3>4 DEF ArenaTyped, ArenaRecord
    <3> HIDE DEF d
    <3>6. Alike(b, g.arena, ids)
      <4> HIDE DEF ids
      <4> QED
        BY <3>3, <3>4, MarkedAlike
    <3>7. Alike(d, a, ids) /\ ids \subseteq d.chainBytes
      <4>1. Chains(d) = Chains(b)
        BY <3>5 DEF Chains, Recorded
      <4>2. Alike(d, b, ids)
        BY <3>5, <4>1 DEF Alike
      <4> HIDE DEF ids
      <4> QED
        BY <2>4, <3>5, <3>6, <4>2, AlikeTrans
    <3>8. Listed(u) = Listed(t) \union ids /\ InUse(u) = InUse(t)
      BY <1>0, <3>2 DEF Listed, InUse, RetiredIds, FirstPage
    <3>9. Traced(t, a) => Traced(u, d)
      BY <3>7, <3>8 DEF Traced, Alike
    <3> HIDE DEF ids
    <3> QED
      BY <2>3, <3>1, <3>7, <3>9
  <2> QED
    BY <2>1, <2>5, <2>6
<1> QED
  BY <1>1, <1>2

\* The meta page that has just been written is the newest.
LEMMA NewestIs ==
    ASSUME NEW a, ArenaTyped(a), Held(a), NEW i \in Slot,
           \A j \in Slot : a.meta[j].revision <= a.meta[i].revision
    PROVE  Newest(a.meta) = i
<1>1. \A j \in Slot : a.meta[j].revision \in Int /\ a.meta[j].revision % 2 = j
  BY ArenaFields, RootRevision DEF Held
<1>2. \A j \in Slot : (\A l \in Slot : a.meta[j].revision >= a.meta[l].revision) => j = i
  <2> SUFFICES ASSUME NEW j \in Slot, a.meta[j].revision >= a.meta[i].revision PROVE j = i
    OBVIOUS
  <2>1. a.meta[j].revision = a.meta[i].revision
    BY <1>1
  <2> QED
    BY <1>1, <2>1
<1>3. \A l \in Slot : a.meta[i].revision >= a.meta[l].revision
  BY <1>1
<1> QED
  BY <1>2, <1>3 DEF Newest

LEMMA PersistedAlike ==
    ASSUME NEW t \in TreeRecord, NEW a, NEW k, Publishing(t, a, k), NEW o \in Persisted(t, a)
    PROVE  /\ ~o.ok => Alike(o.arena, a, Fresh(t))
           /\ o.ok /\ Traced(t, a) => /\ Accounted(o.tree, o.arena)
                                      /\ Traced(o.arena.meta[Newest(o.arena.meta)], o.arena)
<1> DEFINE undone(b, p) == [ok |-> FALSE, moved |-> p.moved, tree |-> t,
                            arena |-> [b EXCEPT !.dirty = a.dirty]]
<1>1. PICK p \in PrepareMetaFreelistPages(t, a) :
         \/ ~p.ok /\ o = undone(p.arena, p)
         \/ p.ok /\ \E s \in SyncDataPages(p.arena, p.tree.nextPage) :
               \/ ~s.ok /\ o = undone(s.arena, p)
               \/ s.ok /\ \E m \in PublishMeta(p.tree, s.arena) :
                     \/ ~m.ok /\ o = undone(m.arena, p)
                     \/ m.ok /\ o = [ok |-> TRUE, moved |-> p.moved,
                                     tree |-> ReclaimObsolete(p.tree, m.arena), arena |-> m.arena]
  BY DEF Persisted
<1>2. /\ Mapped(p.arena) /\ ArenaTyped(p.arena) /\ a.dirty \in SUBSET PageID /\ Held(p.arena)
      /\ p.tree \in TreeRecord
  BY PrepareMapped, PrepareIs DEF Publishing, Mapped, ArenaTyped, ArenaRecord, Passed, Roots
<1>3. /\ Alike(p.arena, a, Fresh(t))
      /\ p.ok /\ Traced(t, a) => Traced(p.tree, p.arena)
  BY PrepareAlike
<1>4. ASSUME NEW b, ArenaTyped(b), Alike(b, a, Fresh(t)), o = undone(b, p)
      PROVE  o.ok = FALSE /\ Alike(o.arena, a, Fresh(t))
  <2> DEFINE c == [b EXCEPT !.dirty = a.dirty]
  <2>1. o.ok = FALSE /\ o.arena = c
    BY <1>4
  <2>2. c.meta = b.meta /\ c.chainBytes = b.chainBytes
    BY <1>2, <1>4, DirtyFields
  <2> HIDE DEF c
  <2>3. Alike(c, b, Fresh(t))
    BY <2>2, SameAlike
  <2>4. Alike(c, a, Fresh(t))
    BY <1>4, <2>3, AlikeTrans
  <2> QED
    BY <2>1, <2>4
<1>5. ASSUME NEW s \in SyncDataPages(p.arena, p.tree.nextPage)
      PROVE  /\ Mapped(s.arena) /\ Alike(s.arena, a, Fresh(t))
             /\ s.arena.chainBytes = p.arena.chainBytes
  <2>1. Mapped(s.arena)
    BY <1>2, SyncDataMapped
  <2>2. Calmer(s.arena, p.arena, 0)
    BY <1>2, SyncDataIs
  <2>3. Alike(s.arena, p.arena, Fresh(t))
    BY <2>2, CalmerAlike
  <2> QED
    BY <1>3, <2>1, <2>2, <2>3, AlikeTrans DEF Calmer
<1>6. CASE ~p.ok /\ o = undone(p.arena, p)
  <2>1. o.ok = FALSE /\ Alike(o.arena, a, Fresh(t))
    BY <1>2, <1>3, <1>4, <1>6
  <2> QED
    BY <2>1, Zenon
<1>7. ASSUME NEW s \in SyncDataPages(p.arena, p.tree.nextPage), o = undone(s.arena, p)
      PROVE  o.ok = FALSE /\ Alike(o.arena, a, Fresh(t))
  BY <1>4, <1>5, <1>7 DEF Mapped
<1>8. ASSUME NEW s \in SyncDataPages(p.arena, p.tree.nextPage),
             NEW m \in PublishMeta(p.tree, s.arena), ~m.ok, o = undone(m.arena, p)
      PROVE  o.ok = FALSE /\ Alike(o.arena, a, Fresh(t))
  <2> DEFINE i == p.tree.revision % 2
             r == Record(p.tree, s.arena)
  <2>1. LostFields(m.arena, s.arena, i, r)
    BY <1>2, <1>5, <1>8, PublishIs, Zenon
  <2> HIDE DEF i, r
  <2>2. ArenaTyped(m.arena) /\ Alike(m.arena, s.arena, Fresh(t))
    BY <2>1, SameAlike DEF LostFields
  <2>3. Alike(m.arena, a, Fresh(t))
    BY <1>5, <2>2, AlikeTrans
  <2> QED
    BY <1>4, <1>8, <2>2, <2>3
<1>9. ASSUME p.ok, NEW s \in SyncDataPages(p.arena, p.tree.nextPage),
             NEW m \in PublishMeta(p.tree, s.arena), m.ok,
             o = [ok |-> TRUE, moved |-> p.moved,
                  tree |-> ReclaimObsolete(p.tree, m.arena), arena |-> m.arena],
             Traced(t, a)
      PROVE  /\ o.ok = TRUE /\ Accounted(o.tree, o.arena)
             /\ Traced(o.arena.meta[Newest(o.arena.meta)], o.arena)
  <2> DEFINE i == p.tree.revision % 2
             r == Record(p.tree, s.arena)
             v == ReclaimObsolete(p.tree, m.arena)
  <2>1. PICK b : WroteFields(b, s.arena, i, r) /\ m.arena = Fsynced(b)
    BY <1>2, <1>5, <1>9, PublishIs, Zenon
  <2>2. i \in Slot
    BY <1>2, SlotOfRevision
  <2>3. /\ Listed(r) = Listed(p.tree) /\ InUse(r) = InUse(p.tree)
        /\ r.revision = p.tree.revision
    BY <1>2, <1>5, RecordIs
  <2>4. o.ok = TRUE /\ o.tree = v /\ o.arena = m.arena
    BY <1>9
  <2>5. Regained(v, p.tree, m.arena)
    BY <1>2, ObsoleteIs
  <2> HIDE DEF i, r
  <2>6. /\ ArenaTyped(m.arena) /\ m.arena.meta[i] = r
        /\ m.arena.chainBytes = s.arena.chainBytes
    BY <2>1, <2>2, FsyncedFields DEF WroteFields
  <2>7. Traced(p.tree, m.arena)
    BY <1>3, <1>5, <1>9, <2>6 DEF Traced
  <2>8. Accounted(v, m.arena)
    BY <1>2, <2>7, ObsoleteAccounted
  <2> HIDE DEF v
  <2>9. Roots(o.arena) /\ Kept(o.tree, o.arena)
    BY <2>4, PersistedIs DEF Published, Safe
  <2>10. \A j \in Slot : m.arena.meta[j].revision <= m.arena.meta[i].revision
    BY <2>3, <2>4, <2>5, <2>6, <2>9 DEF Kept, Regained
  <2>11. Newest(m.arena.meta) = i
    BY <2>2, <2>4, <2>6, <2>9, <2>10, NewestIs DEF Roots
  <2>12. Traced(r, m.arena)
    BY <2>3, <2>7 DEF Traced
  <2> QED
    BY <2>4, <2>6, <2>8, <2>11, <2>12
<1> HIDE DEF undone
<1>10. CASE o.ok
  <2> SUFFICES ASSUME Traced(t, a)
               PROVE  /\ Accounted(o.tree, o.arena)
                      /\ Traced(o.arena.meta[Newest(o.arena.meta)], o.arena)
    BY <1>10, Zenon
  <2> QED
    BY <1>1, <1>6, <1>7, <1>8, <1>9, <1>10, Zenon
<1>11. CASE ~o.ok
  <2>1. Alike(o.arena, a, Fresh(t))
    <3>1. ASSUME NEW m, o = [ok |-> TRUE, moved |-> p.moved,
                             tree |-> ReclaimObsolete(p.tree, m.arena), arena |-> m.arena]
          PROVE  FALSE
      <4>1. o.ok = TRUE
        BY <3>1
      <4> QED
        BY <1>11, <4>1, Zenon
    <3>2. \/ o = undone(p.arena, p) /\ ~p.ok
          \/ \E s \in SyncDataPages(p.arena, p.tree.nextPage) :
                \/ o = undone(s.arena, p)
                \/ \E m \in PublishMeta(p.tree, s.arena) : ~m.ok /\ o = undone(m.arena, p)
      BY <1>1, <3>1, Zenon
    <3> QED
      BY <1>6, <1>7, <1>8, <1>11, <3>2, Zenon
  <2> QED
    BY <1>11, <2>1, Zenon
<1> QED
  BY <1>10, <1>11, Zenon

----------------------------------------------------------------------------
(* Steps *)

LEMMA CountedIs ==
    ASSUME count \in CountRecord, NEW o, Counted(o)
    PROVE  count' \in CountRecord /\ count'.crashes = count.crashes
BY DEF Counted, CountRecord

\* A step of a process that goes on, without a batch.
LEMMA IdleIds ==
    ASSUME count' \in CountRecord, batch' = NoBatch, status' # "down",
           count'.crashes = 0 => Accounted(tree', arena')
    PROVE  IdsInv'
BY DEF IdsInv, NoBatch

LEMMA StageIds ==
    ASSUME Inv, RootsInv, IdsInv, NEW copied \in SUBSET tree.live, Stage(copied)
    PROVE  IdsInv'
<1>1. status = "open" /\ status' = "open" /\ (tree.free # {} \/ tree.nextPage <= MaxPage)
  BY DEF Stage
<1>2. batch \in BatchRecord /\ batch.active
  BY DEF Stage, Inv, NoBatch
<1>3. /\ Mapped(arena) /\ Below(tree, arena) /\ tree \in TreeRecord
      /\ Roots(arena) /\ Held(arena) /\ Since(tree, batch)
  BY <1>1, <1>2 DEF Inv, Inside, Running, RootsInv, Roots
<1>4. PICK o \in Allocations(tree, arena) :
         /\ Counted(o)
         /\ IF o.ok
            THEN /\ tree' = [Retire(o.tree, copied) EXCEPT !.live = (@ \ copied) \union {o.id}]
                 /\ arena' = Written(o.arena, {o.id})
                 /\ batch' = Saved(o)
            ELSE /\ tree' = batch.tree
                 /\ arena' = Rollback(o.arena)
                 /\ batch' = NoBatch
  BY DEF Stage
<1>5. /\ count' \in CountRecord /\ count'.crashes = count.crashes
  BY <1>4, CountedIs DEF IdsInv
<1>6. /\ Mapped(o.arena) /\ ArenaTyped(o.arena) /\ o.id \in PageID /\ o.ok \in BOOLEAN
      /\ o.ok => o.tree \in TreeRecord
  BY <1>1, <1>3, AllocationMapped DEF Mapped
<1>7. /\ Calmer(o.arena, arena, arena.capacity + FirstPage)
      /\ o.ok => Taken(o.tree, o.id, tree)
  BY <1>3, AllocationIs
<1>8. ASSUME count'.crashes = 0
      PROVE  Accounted(tree, arena) /\ Accounted(batch.tree, arena)
  BY <1>1, <1>2, <1>5, <1>8 DEF IdsInv, Running
<1>9. CASE o.ok
  <2> DEFINE ids == {o.id}
             u == Retire(o.tree, copied)
  <2>1. /\ tree' = [u EXCEPT !.live = (@ \ copied) \union ids]
        /\ arena' = Written(o.arena, ids)
        /\ batch' = Saved(o)
    BY <1>4, <1>9
  <2> HIDE DEF u
  <2>2. Mutated(tree', o.id, copied, tree)
    BY <1>3, <1>6, <1>7, <1>9, <2>1, MutatedIs DEF u
  <2>3. Alike(arena', arena, ids)
    <3>1. ids \in SUBSET PageID
      BY <1>6
    <3> HIDE DEF ids
    <3>2. Marked(arena', o.arena, ids) /\ arena'.chainBytes = o.arena.chainBytes \ ids
      BY <1>6, <2>1, <3>1, WrittenFields
    <3>3. Alike(arena', o.arena, ids)
      BY <1>6, <3>2, MarkedAlike
    <3>4. Alike(o.arena, arena, ids)
      BY <1>7, CalmerAlike
    <3> QED
      BY <3>3, <3>4, AlikeTrans
  <2>4. batch'.tree = batch.tree
    <3> DEFINE lost == IF o.moved THEN batch.replaced ELSE {}
               again == ids \intersect Listed(batch.tree)
               spent == lost \union (again \intersect arena.stale)
    <3>1. batch' = [batch EXCEPT !.changed = TRUE, !.replaced = @ \union again,
                                 !.lost = @ \union spent]
      BY <2>1 DEF Saved
    <3> HIDE DEF again, spent
    <3> QED
      BY <1>2, <3>1 DEF BatchRecord
  <2>5. tree.nextPage \in Nat /\ tree.nextPage >= FirstPage /\ batch.tree.nextPage \in Nat
    BY <1>2, <1>3, Bounds DEF TreeRecord, BatchRecord, FirstPage
  <2>6. ids \intersect Listed(batch.tree) \subseteq InUse(batch.tree)
    <3>1. tree.free \subseteq batch.tree.free /\ batch.tree.nextPage <= tree.nextPage
      BY <1>3 DEF Since
    <3>2. o.id \in tree.free \/ o.id = tree.nextPage
      BY <2>2 DEF Mutated
    <3> QED
      BY <2>5, <3>1, <3>2 DEF Listed, InUse, FirstPage
  <2>7. /\ Listed(tree') \subseteq Listed(tree) \union ids
        /\ InUse(tree) \union ids \subseteq InUse(tree') /\ tree'.chain = tree.chain
    BY <2>2, <2>5 DEF Mutated, Listed, InUse, FirstPage
  <2>8. ASSUME count'.crashes = 0 PROVE Accounted(tree', arena')
    BY <1>8, <2>3, <2>7, <2>8 DEF Accounted, Traced, Named, Alike
  <2>9. ASSUME count'.crashes = 0 PROVE Accounted(batch'.tree, arena')
    <3> HIDE DEF ids
    <3> QED
      BY <1>8, <2>3, <2>4, <2>6, <2>9, AlikeAccounted
  <2> QED
    BY <1>1, <1>5, <2>8, <2>9 DEF IdsInv
<1>10. CASE ~o.ok
  <2>1. tree' = batch.tree /\ arena' = Rollback(o.arena) /\ batch' = NoBatch
    BY <1>4, <1>10
  <2>2. arena'.meta = o.arena.meta /\ arena'.chainBytes = o.arena.chainBytes
    BY <1>6, <2>1 DEF Rollback, ArenaTyped, ArenaRecord
  <2>3. Alike(arena', arena, {})
    BY <1>7, <2>2, SameAlike, CalmerAlike, AlikeTrans
  <2>4. ASSUME count'.crashes = 0 PROVE Accounted(tree', arena')
    BY <1>8, <2>1, <2>3, <2>4, AlikeAccounted
  <2> QED
    BY <1>1, <1>5, <2>1, <2>4, IdleIds
<1> QED
  BY <1>6, <1>9, <1>10

LEMMA BatchIds ==
    ASSUME Inv, IdsInv, CommitBegin \/ (\E id \in tree.live : StageDrop(id)) \/ CommitPanic
    PROVE  IdsInv'
<1>1. tree \in TreeRecord /\ ArenaTyped(arena) /\ count \in CountRecord
  BY DEF Inv, IdsInv
<1>2. CASE CommitBegin
  <2> DEFINE b == [active |-> TRUE, changed |-> FALSE, tree |-> tree, dirty |-> arena.dirty,
                   replaced |-> {}, lost |-> {}]
  <2>1. b.tree = tree
    OBVIOUS
  <2>2. status = "open" /\ batch' = b /\ UNCHANGED <<status, tree, arena, count>>
    BY <1>2 DEF CommitBegin, Idle
  <2> HIDE DEF b
  <2> QED
    BY <2>1, <2>2 DEF IdsInv, Running
<1>3. CASE \E id \in tree.live : StageDrop(id)
  <2>1. PICK id \in tree.live : StageDrop(id)
    BY <1>3
  <2>2. /\ tree' = [Retire(tree, {id}) EXCEPT !.live = @ \ {id}]
        /\ batch' = [batch EXCEPT !.changed = TRUE]
        /\ status = "open" /\ batch.active /\ UNCHANGED <<status, arena, count>>
    BY <2>1 DEF StageDrop
  <2>3. Dropped(tree', id, tree)
    <3>1. Dropped([Retire(tree, {id}) EXCEPT !.live = @ \ {id}], id, tree)
      BY <1>1, DropIs
    <3> QED
      BY <2>2, <3>1, Zenon
  <2>4. batch'.tree = batch.tree
    BY <2>2 DEF Inv, BatchRecord, NoBatch
  <2>5. Listed(tree') = Listed(tree) /\ InUse(tree') = InUse(tree) /\ tree'.chain = tree.chain
    <3>1. RetiredIds(tree') = RetiredIds(tree) \union {id}
      <4> DEFINE r == [id |-> id, revision |-> tree.revision]
      <4>1. \A s : s \in [id : {id}, revision : {tree.revision}] <=> s = r
        OBVIOUS
      <4>2. r.id = id
        OBVIOUS
      <4> HIDE DEF r
      <4>3. tree'.retired = tree.retired \union {r}
        BY <2>3, <4>1 DEF Dropped
      <4> QED
        BY <4>2, <4>3 DEF RetiredIds
    <3> QED
      BY <2>3, <3>1 DEF Dropped, Listed, InUse
  <2>6. Accounted(tree, arena) => Accounted(tree', arena')
    BY <2>2, <2>5 DEF Accounted, Traced, Named
  <2> QED
    BY <2>2, <2>4, <2>6 DEF IdsInv, Running
<1>4. CASE CommitPanic
  <2>1. /\ status = "open" /\ status' = "open" /\ batch.active
        /\ tree' = batch.tree /\ arena' = Rollback(arena) /\ batch' = NoBatch
        /\ count' = [count EXCEPT !.faults = @ + 1]
    BY <1>4 DEF CommitPanic
  <2>2. count' \in CountRecord /\ count'.crashes = count.crashes
    BY <1>1, <2>1 DEF CountRecord
  <2>3. arena'.meta = arena.meta /\ arena'.chainBytes = arena.chainBytes
    BY <1>1, <2>1 DEF Rollback, ArenaTyped, ArenaRecord
  <2>4. ASSUME count'.crashes = 0 PROVE Accounted(tree', arena')
    <3>1. Accounted(batch.tree, arena)
      BY <2>1, <2>2, <2>4 DEF IdsInv
    <3>2. Alike(arena', arena, {})
      BY <2>3, SameAlike
    <3> QED
      BY <2>1, <3>1, <3>2, AlikeAccounted
  <2> QED
    BY <2>1, <2>2, <2>4, IdleIds
<1> QED
  BY <1>2, <1>3, <1>4

LEMMA ReclaimingIds ==
    ASSUME Inv, IdsInv, CommitEnd \/ SnapshotOpen \/ SnapshotClose \/ CompactNothing
    PROVE  IdsInv'
<1>1. /\ Reclaimed(tree', tree) /\ batch' = NoBatch /\ UNCHANGED <<status, arena>>
  BY ReclaimingIs
<1>2. status = "open"
  BY DEF CommitEnd, SnapshotOpen, SnapshotClose, CompactNothing, Idle
<1>3. count' \in CountRecord /\ count'.crashes = count.crashes
  BY DEF CommitEnd, SnapshotOpen, SnapshotClose, CompactNothing, IdsInv, CountRecord
<1>4. ASSUME count'.crashes = 0 PROVE Accounted(tree', arena')
  BY <1>1, <1>2, <1>3, <1>4, ReclaimedAccounted DEF IdsInv, Running
<1> QED
  BY <1>1, <1>2, <1>3, <1>4, IdleIds

LEMMA FreshIsNew ==
    ASSUME NEW t \in TreeRecord
    PROVE  Fresh(t) \intersect Listed(t) = {}
<1>1. t.nextPage \in Nat
  BY Bounds DEF TreeRecord, FirstPage
<1> QED
  BY <1>1 DEF Fresh, Listed, FirstPage

LEMMA SyncIds ==
    ASSUME Inv, RootsInv, IdsInv, Sync
    PROVE  IdsInv'
<1>1. /\ batch = NoBatch /\ Mapped(arena) /\ Below(tree, arena) /\ tree \in TreeRecord
      /\ status = "open"
  BY IdleBatch DEF Sync, Inv, Idle
<1>2. PICK o \in Persisted(tree, arena) :
         /\ Counted(o)
         /\ tree' = o.tree
         /\ arena' = o.arena
         /\ status' = IF o.ok THEN AfterReads(o.tree, o.arena, "open") ELSE "open"
  BY DEF Sync
<1>3. /\ NeedsChain(tree) => tree.nextPage <= MaxPage
      /\ batch' = NoBatch /\ status' # "down"
  BY <1>1, <1>2 DEF Sync, AfterReads
<1> DEFINE k == arena.capacity + FirstPage
<1>4. Publishing(tree, arena, k)
  <2>1. Roots(arena) /\ Safe(tree, arena.dirty, arena) /\ Reach(arena, k)
    BY <1>1 DEF RootsInv, Running
  <2>2. k \in Nat /\ tree.nextPage <= k /\ ArenaTyped(arena)
    BY <1>1, ArenaFields DEF Mapped, Below, FirstPage
  <2> QED
    BY <1>1, <1>3, <2>1, <2>2 DEF Publishing, Safe
<1> HIDE DEF k
<1>5. count' \in CountRecord /\ count'.crashes = count.crashes
  BY <1>2, CountedIs DEF IdsInv
<1>6. ASSUME count'.crashes = 0 PROVE Accounted(tree', arena')
  <2>1. Accounted(tree, arena) /\ Traced(tree, arena)
    BY <1>1, <1>5, <1>6 DEF IdsInv, Running, Accounted
  <2>2. CASE o.ok
    BY <1>1, <1>2, <1>4, <2>1, <2>2, PersistedAlike
  <2>3. CASE ~o.ok
    <3>1. Alike(o.arena, arena, Fresh(tree))
      BY <1>1, <1>4, <2>3, PersistedAlike
    <3>2. o.tree = tree
      BY <1>1, <1>4, <2>3, PersistedIs DEF Published
    <3>3. Fresh(tree) \intersect Listed(tree) \subseteq InUse(tree)
      BY <1>1, FreshIsNew
    <3> QED
      BY <1>2, <2>1, <3>1, <3>2, <3>3, AlikeAccounted
  <2> QED
    BY <2>2, <2>3
<1> QED
  BY <1>3, <1>5, <1>6, IdleIds

LEMMA CompactPublishIds ==
    ASSUME Inv, FreeListFits, RootsInv, IdsInv, CompactPublish
    PROVE  IdsInv'
<1> DEFINE before == ReclaimRetiredPages(tree)
           next == TrailingFreeNextPage(before)
           capacity == Max({next - FirstPage, MinCapacity})
           removed == next..(before.nextPage - 1)
           trimmed == [before EXCEPT !.free = @ \ removed, !.nextPage = next]
           cut == [arena EXCEPT !.capacity = capacity, !.dirty = @ \ removed, !.stale = @ \ removed]
           k == arena.capacity + FirstPage
<1>1. /\ batch = NoBatch /\ reader = NoReader /\ status = "open" /\ Idle
  BY IdleBatch DEF CompactPublish, Idle
<1>2. PICK o \in Persisted(trimmed, cut) :
         /\ Counted(o)
         /\ IF o.ok
            THEN /\ tree' = o.tree
                 /\ arena' = o.arena
                 /\ status' = AfterReads(o.tree, o.arena,
                                  IF capacity < arena.capacity THEN "shrinking" ELSE "open")
                 /\ target' = IF status' = "shrinking" THEN capacity ELSE 0
            ELSE /\ tree' = before
                 /\ arena' = [o.arena EXCEPT
                       !.capacity = arena.capacity,
                       !.dirty = arena.dirty,
                       !.stale = @ \union (IF o.moved THEN removed
                                           ELSE arena.stale \intersect removed)]
                 /\ UNCHANGED <<status, target>>
  BY DEF CompactPublish
<1>3. batch' = NoBatch
  BY <1>1 DEF CompactPublish
<1>4. CutFacts(before, next, capacity, removed, trimmed, cut)
  BY <1>1, CutIs
<1>5. CutPublishing(before, trimmed, cut)
  BY <1>1, CutIsPublishing
<1>6. removed = next..(before.nextPage - 1)
  OBVIOUS
<1> HIDE DEF before, next, capacity, removed, trimmed, cut
<1>7. /\ trimmed \in TreeRecord /\ Publishing(trimmed, cut, k) /\ before \in TreeRecord
      /\ Reclaimed(before, tree) /\ ~NeedsChain(trimmed) /\ Apart(before)
      /\ Mapped(cut) /\ Below(trimmed, cut)
  BY <1>4, <1>5 DEF CutFacts, CutPublishing, Safe, Kept
<1> HIDE DEF k
<1>8. count' \in CountRecord /\ count'.crashes = count.crashes
  BY <1>2, CountedIs DEF IdsInv
<1>9. Alike(cut, arena, {})
  BY <1>4, SameAlike DEF CutFacts
<1>10. ASSUME count'.crashes = 0 PROVE Accounted(before, cut)
  <2>1. Accounted(before, arena)
    BY <1>1, <1>7, <1>8, <1>10, ReclaimedAccounted DEF IdsInv, Running
  <2> QED
    BY <1>9, <2>1, AlikeAccounted
<1>11. ASSUME count'.crashes = 0 PROVE Traced(trimmed, cut)
  <2>1. /\ trimmed.nextPage = next /\ trimmed.live = before.live /\ removed \subseteq before.free
        /\ trimmed.retired = {} /\ before.retired = {} /\ trimmed.free = before.free \ removed
        /\ next \in Nat /\ next >= FirstPage /\ before.nextPage \in Nat
    BY <1>4, <1>7, Bounds DEF CutFacts, TreeRecord, FirstPage
  <2>2. Listed(trimmed) \subseteq Listed(before) \ removed
    BY <1>6, <1>4, <2>1 DEF Listed, FirstPage, CutFacts
  <2>3. InUse(before) \ removed \subseteq InUse(trimmed)
    BY <2>1 DEF InUse, RetiredIds
  <2> QED
    BY <1>10, <1>11, <2>2, <2>3 DEF Accounted, Traced
<1>12. CASE o.ok
  <2>1. tree' = o.tree /\ arena' = o.arena /\ status' # "down"
    BY <1>2, <1>12 DEF AfterReads
  <2>2. ASSUME count'.crashes = 0 PROVE Accounted(o.tree, o.arena)
    BY <1>7, <1>11, <1>12, <2>2, PersistedAlike
  <2> QED
    BY <1>3, <1>8, <2>1, <2>2, IdleIds
<1>13. CASE ~o.ok
  <2> DEFINE more == IF o.moved THEN removed ELSE arena.stale \intersect removed
             b == [o.arena EXCEPT !.capacity = arena.capacity, !.dirty = arena.dirty,
                                  !.stale = @ \union more]
  <2>1. tree' = before /\ arena' = b /\ status' = "open"
    BY <1>1, <1>2, <1>13
  <2>2. Fresh(trimmed) = {}
    BY <1>7 DEF Fresh
  <2>3. Alike(o.arena, cut, {})
    BY <1>7, <1>13, <2>2, PersistedAlike
  <2>4. ArenaTyped(o.arena)
    BY <1>7, PersistedMapped DEF Mapped
  <2> HIDE DEF more
  <2>5. b.meta = o.arena.meta /\ b.chainBytes = o.arena.chainBytes
    BY <2>4 DEF ArenaTyped, ArenaRecord
  <2> HIDE DEF b
  <2>6. Alike(b, cut, {})
    BY <2>3, <2>5, SameAlike, AlikeTrans
  <2>7. ASSUME count'.crashes = 0 PROVE Accounted(tree', arena')
    BY <1>10, <2>1, <2>6, <2>7, AlikeAccounted
  <2> QED
    BY <1>3, <1>8, <2>1, <2>7, IdleIds
<1> QED
  BY <1>12, <1>13

LEMMA CompactShrinkIds ==
    ASSUME Inv, RootsInv, IdsInv, CompactShrink
    PROVE  IdsInv'
<1>1. status = "shrinking" /\ status' = "open" /\ UNCHANGED <<tree, batch>>
  BY DEF CompactShrink
<1>2. PICK o : Counted(o)
  BY DEF CompactShrink
<1>3. count' \in CountRecord /\ count'.crashes = count.crashes /\ ~batch'.active
  BY <1>1, <1>2, CountedIs DEF IdsInv, RootsInv
<1>4. Alike(arena', arena, {})
  BY CompactShrinkIs, CalmerAlike
<1>5. ASSUME count'.crashes = 0 PROVE Accounted(tree', arena')
  <2>1. Accounted(tree, arena)
    BY <1>1, <1>3, <1>5 DEF IdsInv, Running
  <2> QED
    BY <1>1, <1>4, <2>1, AlikeAccounted
<1> QED
  BY <1>1, <1>3, <1>5 DEF IdsInv

LEMMA PunchIds ==
    ASSUME Inv, RootsInv, IdsInv, Punch
    PROVE  IdsInv'
<1>1. /\ batch = NoBatch /\ ArenaTyped(arena) /\ tree \in TreeRecord
      /\ status = "open" /\ status' # "down" /\ batch' = NoBatch
  BY IdleBatch DEF Punch, Inv, Idle
<1> DEFINE before == ReclaimRetiredPages(tree)
<1>2. PICK ids \in SUBSET before.free : tree' = before /\ arena' = Overwritten(arena, ids)
  BY PunchIs
<1>3. before \in TreeRecord /\ Reclaimed(before, tree)
  BY <1>1, ReclaimIs
<1> HIDE DEF before
<1>4. count' \in CountRecord /\ count'.crashes = count.crashes
  <2>1. count' = count \/ count' = [count EXCEPT !.faults = @ + 1]
    BY DEF Punch
  <2> QED
    BY <2>1 DEF IdsInv, CountRecord
<1>5. /\ Marked(arena', arena, ids) /\ arena'.chainBytes = arena.chainBytes \ ids
  BY <1>1, <1>2, OverwrittenFields DEF Marked
<1>6. Alike(arena', arena, ids)
  BY <1>1, <1>5, MarkedAlike
<1>7. ASSUME count'.crashes = 0 PROVE Accounted(tree', arena')
  <2>1. Accounted(before, arena)
    BY <1>1, <1>3, <1>4, <1>7, ReclaimedAccounted DEF IdsInv, Running
  <2>2. ids \intersect Listed(before) \subseteq InUse(before)
    BY DEF InUse
  <2> QED
    BY <1>2, <1>6, <2>1, <2>2, AlikeAccounted
<1> QED
  BY <1>1, <1>4, <1>7, IdleIds

----------------------------------------------------------------------------
(* The end of a process, and the next one *)

LEMMA DownIds ==
    ASSUME NEW a, ArenaTyped(a), Down(a), count' \in CountRecord,
           count'.crashes = 0 => Traced(a.meta[Newest(a.meta)], a)
    PROVE  IdsInv'
<1>1. /\ arena' = Unmapped(a) /\ status' = "down" /\ batch' = NoBatch
  BY DEF Down
<1>2. arena'.meta = a.meta /\ arena'.chainBytes = a.chainBytes
  BY <1>1 DEF Unmapped, ArenaTyped, ArenaRecord
<1>3. count'.crashes = 0 => Traced(arena'.meta[Newest(arena'.meta)], arena')
  BY <1>2 DEF Traced
<1> QED
  BY <1>1, <1>3 DEF IdsInv, Running, NoBatch

\* A process that is killed, or that closes without its last publication, promises nothing.
LEMMA CrashIds ==
    ASSUME Inv, RootsInv, IdsInv, Close \/ Kill \/ PowerLoss
    PROVE  IdsInv'
<1>0. /\ ArenaTyped(arena) /\ Roots(arena) /\ count \in CountRecord
      /\ count.crashes \in Nat /\ count.crashes + 1 # 0
  BY DEF Inv, RootsInv, IdsInv, CountRecord
<1>2. CASE Close
  <2> DEFINE before == ReclaimRetiredPages(tree)
             k == arena.capacity + FirstPage
  <2>1. Mapped(arena) /\ Below(tree, arena) /\ tree \in TreeRecord /\ status = "open"
    BY <1>2, IdleBatch DEF Close, Inv, Idle
  <2>2. before \in TreeRecord /\ Reclaimed(before, tree)
    BY <2>1, ReclaimIs
  <2>3. PICK o \in Persisted(before, arena) :
           /\ count' = IF o.ok THEN [count EXCEPT !.closes = @ + 1]
                       ELSE [count EXCEPT !.crashes = @ + 1, !.faults = @ + 1]
           /\ Down(o.arena)
    BY <1>2 DEF Close
  <2>4. NeedsChain(before) => before.nextPage <= MaxPage
    BY <1>2 DEF Close
  <2> HIDE DEF before
  <2>5. Safe(tree, arena.dirty, arena) /\ Reach(arena, k)
    BY <2>1 DEF RootsInv, Running
  <2>6. Safe(before, arena.dirty, arena)
    BY <1>0, <2>1, <2>2, <2>5, ReclaimedSafe
  <2>7. k \in Nat /\ Below(before, arena)
    BY <1>0, <2>1, <2>2, ArenaFields DEF FirstPage, Below, Reclaimed
  <2>8. Publishing(before, arena, k)
    BY <1>0, <2>1, <2>4, <2>5, <2>6, <2>7 DEF Publishing, Safe
  <2> HIDE DEF k
  <2>9. ArenaTyped(o.arena)
    BY <2>1, <2>2, <2>4, <2>7, PersistedMapped DEF Mapped
  <2>10. CASE o.ok
    <3>1. count' = [count EXCEPT !.closes = @ + 1]
      BY <2>3, <2>10
    <3>2. count' \in CountRecord /\ count'.crashes = count.crashes
      BY <1>0, <3>1 DEF CountRecord
    <3>3. ASSUME count'.crashes = 0 PROVE Traced(o.arena.meta[Newest(o.arena.meta)], o.arena)
      <4>1. Traced(before, arena)
        BY <2>1, <2>2, <3>2, <3>3, ReclaimedAccounted DEF IdsInv, Running, Accounted
      <4> QED
        BY <2>2, <2>8, <2>10, <4>1, PersistedAlike
    <3> QED
      BY <2>3, <2>9, <3>2, <3>3, DownIds
  <2>11. CASE ~o.ok
    <3>1. count' = [count EXCEPT !.crashes = @ + 1, !.faults = @ + 1]
      BY <2>3, <2>11
    <3>2. /\ count.faults \in Nat /\ count.crashes + 1 \in Nat /\ count.faults + 1 \in Nat
          /\ count' = [count EXCEPT !.crashes = count.crashes + 1, !.faults = count.faults + 1]
      BY <1>0, <3>1 DEF CountRecord
    <3>3. count' \in CountRecord /\ count'.crashes = count.crashes + 1
      BY <1>0, <3>2 DEF CountRecord
    <3> QED
      BY <1>0, <2>3, <2>9, <3>3, DownIds
  <2> QED
    BY <2>10, <2>11
<1>3. CASE Kill \/ PowerLoss
  <2>1. count' = [count EXCEPT !.crashes = @ + 1] /\ status' = "down" /\ batch' = NoBatch
    BY <1>3 DEF Kill, PowerLoss, Down
  <2>2. count' \in CountRecord /\ count'.crashes # 0
    BY <1>0, <2>1 DEF CountRecord
  <2> QED
    BY <2>1, <2>2 DEF IdsInv
<1> QED
  BY <1>2, <1>3

LEMMA OpenIds ==
    ASSUME Inv, RootsInv, IdsInv, Open
    PROVE  IdsInv'
<1> DEFINE r == arena.meta[Newest(arena.meta)]
           opened == [arena EXCEPT !.mapped = arena.file, !.capacity = arena.file - FirstPage]
           found == [live |-> r.live, free |-> r.free, retired |-> r.retired,
                     nextPage |-> r.nextPage, chain |-> r.chain, revision |-> r.revision]
<1>1. /\ status = "down" /\ status' = "open"
      /\ Fits(r, arena.file)
      /\ tree' = ReclaimObsolete(found, opened)
      /\ arena' = opened
      /\ UNCHANGED <<batch, count>>
  BY DEF Open
<1>2. /\ ArenaTyped(arena) /\ batch' = NoBatch
      /\ count' \in CountRecord /\ count'.crashes = count.crashes
  BY <1>1 DEF Inv, IdsInv
<1>3. r \in MetaRecord
  BY <1>2, NewestRecord
<1>4. count.crashes = 0 => Traced(r, arena)
  BY <1>1 DEF IdsInv
<1> HIDE DEF r
<1>5. found \in TreeRecord
  BY <1>3 DEF MetaRecord, TreeRecord
<1>6. /\ found.live = r.live /\ found.free = r.free /\ found.retired = r.retired
      /\ found.nextPage = r.nextPage
  OBVIOUS
<1>7. opened.chainBytes = arena.chainBytes
  BY <1>2 DEF ArenaTyped, ArenaRecord
<1> HIDE DEF found, opened
<1>8. Listed(found) = Listed(r) /\ InUse(found) = InUse(r)
  BY <1>6 DEF RetiredIds, Listed, InUse
<1>9. ASSUME count'.crashes = 0 PROVE Accounted(tree', arena')
  <2>1. Traced(found, opened)
    BY <1>2, <1>4, <1>7, <1>8, <1>9 DEF Traced
  <2> QED
    BY <1>1, <1>5, <2>1, ObsoleteAccounted
<1> QED
  BY <1>1, <1>2, <1>9, IdleIds

----------------------------------------------------------------------------
(* The theorem *)

LEMMA InitIds == Init => IdsInv
<1> SUFFICES ASSUME Init PROVE IdsInv
  OBVIOUS
<1>1. /\ status = "open" /\ tree = NewTree /\ batch = NoBatch
      /\ count = [faults |-> 0, closes |-> 0, crashes |-> 0, readers |-> 0]
  BY DEF Init
<1>2. count \in CountRecord
  BY <1>1 DEF CountRecord
<1>3. Listed(tree) = {}
  BY <1>1 DEF NewTree, Listed, FirstPage
<1>4. Accounted(tree, arena)
  BY <1>3 DEF Accounted, Traced, Named
<1> QED
  BY <1>1, <1>2, <1>4 DEF IdsInv, NoBatch

LEMMA StepIds ==
    ASSUME Inv, RootsInv, IdsInv, FreeListFits, [Next]_vars
    PROVE  IdsInv'
<1>1. CASE UNCHANGED vars
  <2>1. UNCHANGED <<status, tree, arena, batch, count>>
    BY <1>1 DEF vars
  <2> QED
    BY <2>1 DEF IdsInv, Running
<1>2. CASE \E copied \in {{}} \union {{id} : id \in tree.live} : Stage(copied)
  <2>1. PICK copied \in {{}} \union {{id} : id \in tree.live} : Stage(copied)
    BY <1>2
  <2>2. copied \in SUBSET tree.live
    OBVIOUS
  <2> QED
    BY <2>1, <2>2, StageIds
<1> QED
  BY <1>1, <1>2, BatchIds, ReclaimingIds, SyncIds, CompactPublishIds, CompactShrinkIds,
     PunchIds, CrashIds, OpenIds DEF Next

LEMMA InvAccounts == Inv /\ RootsInv /\ IdsInv => IdsAccounted
<1> DEFINE chains(slots) == tree.chain \union UNION {arena.meta[i].chain : i \in slots}
           retired == {r.id : r \in tree.retired}
<1> SUFFICES ASSUME Inv, RootsInv, IdsInv, status = "open", ~batch.active
             PROVE  /\ count.crashes = 0 =>
                          Listed(tree) \subseteq tree.live \union tree.free \union retired
                                                    \union chains(Recorded(arena))
                    /\ tree.free \intersect (tree.live \union retired \union
                          chains({i \in Recorded(arena) : ~arena.meta[i].spoilt})) = {}
                    /\ tree.live \union tree.free \union retired \union tree.chain
                          \subseteq Listed(tree)
  BY Zenon DEF IdsAccounted
<1>1. Kept(tree, arena) /\ Apart(tree) /\ Held(arena) /\ ArenaTyped(arena)
  BY DEF RootsInv, Running, Safe, Kept, Roots, Inv
<1>2. retired = RetiredIds(tree)
  BY DEF RetiredIds
<1>3. count.crashes = 0 => Named(tree, arena)
  BY DEF IdsInv, Running, Accounted
<1>4. ASSUME NEW i \in Recorded(arena), ~arena.meta[i].spoilt
      PROVE  tree.free \intersect arena.meta[i].chain = {}
  <2>1. i \in Slot /\ arena.meta[i] # Zero /\ arena.meta[i] \in Root
    BY <1>1, ArenaFields DEF Recorded
  <2>2. arena.meta[i].spoilt \in BOOLEAN
    BY <2>1 DEF Root, MetaRecord
  <2>3. Intact(arena.meta[i]) /\ arena.meta[i] \in arena.disk.meta[i]
    BY <1>1, <1>4, <2>1, <2>2 DEF Intact, Held
  <2> QED
    BY <1>1, <2>1, <2>3 DEF Kept, InUse
<1>5. count.crashes = 0 => Listed(tree) \subseteq tree.live \union tree.free \union retired
                                                    \union chains(Recorded(arena))
  BY <1>2, <1>3 DEF Named, InUse, Chains
<1> HIDE DEF retired
<1>6. tree.free \intersect (tree.live \union retired \union
         chains({i \in Recorded(arena) : ~arena.meta[i].spoilt})) = {}
  BY <1>1, <1>2, <1>4 DEF Apart
<1>7. tree.live \union tree.free \union retired \union tree.chain \subseteq Listed(tree)
  BY <1>1, <1>2 DEF Apart, InUse
<1> QED
  BY <1>5, <1>6, <1>7

\* Between operations a free id is in no tree, on no retired list and in no chain of a root
\* that recovery could accept, and until the process is killed no id below t.nextPage is
\* lost, through failed growths, failed publications, rollbacks, compactions, hole punching
\* and a Close and reopening (mmap.go compactMmapTail, reclaimObsoleteMetaFreelistPages,
\* batch.go restore).
THEOREM IdsAlwaysAccounted == Spec /\ [](FreeListFits /\ Settled) => []IdsAccounted
<1>1. Init => (Inv /\ RootsInv) /\ IdsInv
  BY StartsSafe, InitIds
<1>2. ((Inv /\ RootsInv) /\ IdsInv) /\ (FreeListFits /\ Settled) /\ [Next]_vars
         => ((Inv /\ RootsInv) /\ IdsInv)'
  BY StaysSafe, StepIds
<1>3. (Inv /\ RootsInv) /\ IdsInv => IdsAccounted
  BY InvAccounts
<1> QED
  BY <1>1, <1>2, <1>3, PTL DEF Spec
=============================================================================
