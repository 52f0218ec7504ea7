------------------------------ MODULE MmapDurable ------------------------------
(***************************************************************************)
(* MmapSync implements DurableTree: what is proved there of every tree is  *)
(* shown to fit the B+tree.  A page is split into its body and its sibling *)
(* link, sequences of ids become sets, and two history variables keep what *)
(* the abstract histories remember and those of MmapSync do not: the tree  *)
(* of the last Sync as an image, and how things stood at the last crash.   *)
(* A third variable, a function of the state, holds the mapping and the    *)
(* disk in the form of DurableTree, so that they are translated once.      *)
(***************************************************************************)
EXTENDS MmapSync

CONSTANTS MaxPage, MaxAllocated, MaxRevision  \* bounds that no run reaches

VARIABLES
    shown,      \* the mapping and the disk as DurableTree has them
    published,  \* history: record, image and links of the last Sync
    ended       \* history: crash of DurableTree

allVars == <<vars, shown, published, ended>>

Page == FirstPage..MaxPage

----------------------------------------------------------------------------
(* The refinement mapping *)

\* What a page holds besides its sibling link.
Bodies ==
    [kind : {"leaf"}, entries : Seq([key : Key, val : Val, overflow : {0}])]
    \union [kind : {"branch"}, keys : Seq(Key), children : Seq(Page)]

BelowBody(body) == IF body.kind = "branch" THEN ToSet(body.children) ELSE {}

AbstractPage(p) ==
    CASE p.kind = "leaf" -> [kind |-> "tree", next |-> p.next,
                             body |-> [kind |-> "leaf", entries |-> p.entries]]
      [] p.kind = "branch" -> [kind |-> "tree", next |-> 0, body |-> p]
      [] p.kind \in MetadataKinds -> [kind |-> "chain", records |-> ToSet(p.records)]
      [] OTHER -> p

AbstractPages(pages) ==
    [id \in Page |-> IF id \in DOMAIN pages THEN AbstractPage(pages[id]) ELSE [kind |-> "blank"]]

\* The tree that an image describes.
ImageStore(root, length, image) ==
    [root |-> root, length |-> length,
     pages |-> [id \in DOMAIN image |->
                   IF image[id].body.kind = "leaf"
                   THEN Leaf(image[id].body.entries, image[id].next) ELSE image[id].body]]

IsTree(root, length, image) ==
    LET st == ImageStore(root, length, image) IN ValidReachable(st) /\ ValidLength(st)

IsLinked(root, image) == ValidLeafLinks(ImageStore(root, 0, image))

AbstractStore(st) ==
    [root |-> st.root, length |-> st.length, revision |-> st.revision,
     nextPage |-> st.nextPage, free |-> ToSet(st.free), retired |-> ToSet(st.retired),
     chain |-> ToSet(st.chain)]

\* A chain has consecutive ids from its first page on.
AbstractMeta(m) ==
    IF m.kind # "meta" THEN m
    ELSE LET length == (m.count + RecordsPerPage - 1) \div RecordsPerPage
         IN [kind |-> "meta", revision |-> m.revision, root |-> m.root, length |-> m.length,
             nextPage |-> m.nextPage, free |-> ToSet(m.free),
             chain |-> IF m.chainRoot = 0 THEN {}
                       ELSE m.chainRoot..(m.chainRoot + length - 1),
             count |-> IF m.chainRoot = 0 THEN 0 ELSE m.count]

AbstractMetas(metas) == [i \in Slot |-> AbstractMeta(metas[i])]

AbstractSync ==
    IF sync.phase = "none"
    THEN [phase |-> "none", nextPage |-> FirstPage, chain |-> {}, closing |-> FALSE,
          dirty |-> {}, previous |-> Zero]
    ELSE [phase |-> sync.phase, nextPage |-> sync.store.nextPage,
          chain |-> ToSet(sync.store.chain), closing |-> sync.closing,
          dirty |-> sync.dirty, previous |-> AbstractMeta(sync.previous)]

Abstracted(mapped, metas, dsk) ==
    [pages |-> AbstractPages(mapped), meta |-> AbstractMetas(metas),
     disk |-> [pages |-> AbstractPages(dsk.pages), meta |-> AbstractMetas(dsk.meta)]]

D == INSTANCE DurableTree WITH
    Body <- Bodies,
    Below <- BelowBody,
    Link <- {0} \union Page,
    Length <- 0..Cardinality(Key),
    ValidTree <- IsTree,
    Linked <- IsLinked,
    status <- IF doubt THEN "doubt" ELSE status,
    pages <- shown.pages,
    store <- AbstractStore(store),
    meta <- shown.meta,
    sync <- AbstractSync,
    disk <- shown.disk,
    durable <- [record |-> published.record, image |-> published.image,
                linked |-> published.linked, quiet |-> durable.quiet],
    crash <- ended,
    count <- [syncs |-> count.syncs, ends |-> count.kills + count.losses]

----------------------------------------------------------------------------
(* The specification: MmapSync with its histories *)

TracedInit ==
    /\ Init
    /\ shown = Abstracted(Mapped, meta, disk)
    /\ published = [record |-> AbstractMeta(meta[MetaSlot(store)]),
                    image |-> D!Image(shown.pages, store.root), linked |-> TRUE]
    /\ ended = D!NotEnded

Shown == shown' = Abstracted(Mapped', meta', disk')

\* What DurableTree remembers of a step.
Publishes ==
    /\ SyncEnd
    /\ published' = [record |-> shown.meta[MetaSlot(sync.store)],
                     image |-> D!Image(shown.pages, store.root),
                     linked |-> ValidLeafLinks(store)]
    /\ Shown
    /\ UNCHANGED ended

Ends ==
    /\ \/ /\ CloseFail
          /\ ended' = [D!Standing(FALSE) EXCEPT !.phase = "none", !.record = D!Zero]
       \/ ProcessCrash /\ ended' = D!Standing(FALSE)
       \/ /\ status = "open" /\ count.losses < MaxLosses
          /\ count.kills + count.losses < MaxEnds
          /\ \E how \in {D!Standing(TRUE)} : PowerLoss /\ ended' = how
    /\ Shown
    /\ UNCHANGED published

Opens ==
    /\ Open
    /\ Shown
    /\ ended' = D!NotEnded
    /\ published' = [published EXCEPT !.record = IF ended.ended THEN D!Zero ELSE @]

Works ==
    /\ \/ \E op \in Ops : Mutate(op)
       \/ \E s \in Snap : SnapshotOpen(s) \/ SnapshotClose(s)
       \/ \E closing \in BOOLEAN : SyncBegin(closing)
       \/ SyncData
       \/ SyncMeta
       \/ SyncFail
       \/ OpenRefused
    /\ Shown
    /\ UNCHANGED <<published, ended>>

TracedNext == Works \/ Publishes \/ Ends \/ Opens

TracedSpec == TracedInit /\ [][TracedNext]_allVars

----------------------------------------------------------------------------
(* Every step is a step of DurableTree *)

\* The parameters of an abstract step are what the concrete one leaves behind.
Links(pages, ids) == [id \in ids |-> pages[id].next]

MutateStep ==
    /\ D!Idle
    /\ store'.revision = store.revision + 1
    /\ \E F \in SUBSET ToSet(store.free) :
           LET n == store'.nextPage - 1
               root == store'.root
           IN /\ D!Allocatable(F, n)
              /\ Cardinality(D!Allocated(F, n)) <= MaxAllocated
              /\ \E now \in {shown'.pages} :
                    LET new == [id \in D!Allocated(F, n) |-> now[id]]
                        reached == D!Reach(D!Written(F, n, new), root)
                        relinked == IF Readers = {} THEN reached ELSE {}
                    IN /\ new \in [D!Allocated(F, n) -> D!TreePage]
                       /\ \A id \in relinked : now[id].kind = "tree"
                       /\ D!Mutate(F, n, new, root, store'.length, Links(now, relinked))

CloseStep ==
    /\ D!Idle /\ status' = "open"
    /\ \E s \in Snap :
          /\ snaps[s] # NoRevision /\ snaps'[s] = NoRevision
          /\ \E now \in {shown'.pages} :
                D!SnapshotClose(s, Links(now, IF Readers' = {} THEN D!Tree ELSE {}))

BeginStep ==
    \E now \in {shown'.pages}, closing \in {sync'.closing} :
        /\ D!Idle
        /\ sync'.phase = "prepared"
        /\ LET n == sync'.store.nextPage - 1
               st == AbstractStore(store)
               records == D!MetadataRecords(IF closing THEN D!Reclaimed(st, {}) ELSE st)
           IN D!SyncBegin(closing, n,
                  [r \in records |->
                      CHOOSE p \in store.nextPage..n : r \in now[p].records])

LoseStep ==
    \E now \in {shown'.pages}, metas \in {shown'.meta} :
        LET torn == {p \in D!Unflushed : now[p] = Torn}
            tornMeta == {i \in D!UnflushedMeta : metas[i] = Torn}
        IN /\ status = "open"
           /\ ended'.power
           /\ D!PowerLoss({p \in D!Unflushed \ torn : now[p] = shown.pages[p]}, torn,
                          {i \in D!UnflushedMeta \ tornMeta : metas[i] = shown.meta[i]},
                          tornMeta)

\* Recovery passes over the newest meta page.
PassesOver ==
    /\ status = "down"
    /\ \A i \in Slot : D!Newest(shown.meta, i)
                          => ~D!Usable(shown.pages, shown.meta, i)

DurableStep ==
    \/ MutateStep
    \/ \E s \in Snap : D!SnapshotOpen(s)
    \/ CloseStep
    \/ BeginStep
    \/ D!SyncData
    \/ D!SyncMeta
    \/ D!SyncEnd
    \/ D!SyncFail
    \/ ended'.ended /\ ~ended'.power /\ D!ProcessCrash
    \/ LoseStep
    \/ \E i \in Slot : D!Open(i)
    \/ D!OpenPasses

\* Until recovery passes over the newest meta page, or a failed Sync leaves one
\* on disk, every operation of the mapped B+tree is a step of DurableTree, and so
\* keeps what is proved there: it writes pages it allocated or may relink, and Sync,
\* recovery and both ends find and leave what DurableTree says (syncMmap, loadMeta).
ImplementsDurableTree ==
    /\ D!IndInv
    /\ store.revision = 0 => D!Init
    /\ [][~doubt => IF doubt' /\ status = "down" THEN PassesOver ELSE DurableStep]_allVars
=============================================================================
