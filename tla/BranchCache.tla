----------------------------- MODULE BranchCache -----------------------------
(***************************************************************************)
(* The cache of decoded branches that Tree.Get routes through: page id to  *)
(* separators and children, with the checksum that the page had, bounded   *)
(* by evicting the least recently used entry.  A page's checksum stands    *)
(* for its bytes.                                                          *)
(*                                                                         *)
(*   capacity  0 when disabled       lru  ids, the latest used first       *)
(*   branches  id -> [checksum, keys, children]                            *)
(***************************************************************************)
EXTENDS BPlusTree

CONSTANT DefaultPageCacheCapacity
ASSUME DefaultIsPositive == DefaultPageCacheCapacity \in Nat \ {0}

NormalizePageCacheCapacity(option) ==
    IF option = 0 THEN DefaultPageCacheCapacity
    ELSE IF option < 0 THEN 0 ELSE option

NewPageCache(option) ==
    [capacity |-> NormalizePageCacheCapacity(option), lru |-> <<>>, branches |-> <<>>]

Without(cache, id) ==
    [cache EXCEPT !.lru = SelectSeq(@, LAMBDA j : j # id),
                  !.branches = [j \in DOMAIN @ \ {id} |-> @[j]]]

\* Make room, then put the new entry in front.
Insert_(cache, id, entry) ==
    IF cache.capacity = 0 THEN cache
    ELSE LET room == IF Len(cache.lru) >= cache.capacity
                     THEN Without(cache, Last(cache.lru)) ELSE cache
         IN [room EXCEPT !.lru = <<id>> \o @, !.branches = (id :> entry) @@ @]

Touch(cache, id) ==
    [cache EXCEPT !.lru = <<id>> \o SelectSeq(@, LAMBDA j : j # id)]

CachedBranch(page) == [checksum |-> page, keys |-> page.keys, children |-> page.children]

CacheBranch_ById(cache, id, page) ==    \* slip: the checksum is not compared
    IF id \in DOMAIN cache.branches
    THEN [entry |-> cache.branches[id], cache |-> Touch(cache, id)]
    ELSE [entry |-> CachedBranch(page),
          cache |-> Insert_(Without(cache, id), id, CachedBranch(page))]
\* pageCache.branch: a hit needs the id and the checksum.
CacheBranch(cache, id, page) ==
    IF id \in DOMAIN cache.branches /\ cache.branches[id].checksum = page
    THEN [entry |-> cache.branches[id], cache |-> Touch(cache, id)]
    ELSE [entry |-> CachedBranch(page),
          cache |-> Insert_(Without(cache, id), id, CachedBranch(page))]

\* searchPageWithCache: the leaf that a search ends in, and the cache after it.
RECURSIVE RouteThrough(_, _, _, _)
RouteThrough(cache, pages, id, k) ==
    IF id = 0 \/ pages[id].kind # "branch" THEN [leaf |-> id, cache |-> cache]
    ELSE LET hit == CacheBranch(cache, id, pages[id])
         IN RouteThrough(hit.cache, pages,
                         hit.entry.children[ChildIndex(hit.entry.keys, k)], k)

\* Tree.Get leaves the cache like this.
AfterGet(cache, st, k) == RouteThrough(cache, st.pages, st.root, k).cache

\* batchTreeState.restore: a new cache, from the capacity of the old one.
RestoredCache(cache) == NewPageCache(cache.capacity)
=============================================================================
