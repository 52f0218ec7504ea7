---------------------------- MODULE Transactions -----------------------------
(***************************************************************************)
(* Read-write transactions, transaction cursors and write batches over one *)
(* tree handle, interleaved with direct mutations, Sync and Close.         *)
(*                                                                         *)
(* The tree is what VersionedMap promises (CowTree implements it): a map   *)
(* and a revision, and snapshots that keep showing what they saw.  Keys    *)
(* are numbers in the order of the tree's comparator.                      *)
(***************************************************************************)
EXTENDS Integers, Sequences, SequencesExt, FiniteSets, FiniteSetsExt

CONSTANTS
    Key,          \* a set of numbers
    Val,          \* values
    Missing,      \* what Get shows of an absent key
    Deleted,      \* txValue.deleted
    Unstaged,     \* a key without an entry in tx.staged
    Tx,           \* transaction handles; a closed one may begin again
    Batch,        \* batch handles; likewise
    Arena,        \* the kinds of handle to start from: with a mapped file or not
    BytesBefore,  \* set of pairs <<a, b>> of bounds: a < b as strings
    Preloads,     \* maps that the tree may hold when the run starts
    MaxRevision,  \* bound: published revisions
    MaxOps,       \* bound: staged operations of all open handles together
    MaxOpen,      \* bound: transactions and batches open at a time
    MaxFaults     \* bound: panics of a commit and failures of a Sync

ASSUME KeysAreNumbers == Key \subseteq Nat /\ IsFiniteSet(Key)
ASSUME MarksAreNoValues ==
    /\ Missing \notin Val /\ Deleted \notin Val
    /\ Unstaged \notin Val \union {Deleted}
ASSUME HandlesDiffer == Tx \intersect Batch = {}
ASSUME StartsTyped ==
    Preloads \subseteq [Key -> Val \union {Missing}] /\ Arena \subseteq BOOLEAN

VARIABLES
    map, revision,  \* the published tree
    durable,        \* what the last successful Sync made durable
    handle,         \* Tree: arena, readOnly, closed
    tx,             \* per handle: open, view (the base snapshot), baseRevision,
                    \* staged, and the operations of its batch
    batch,          \* per handle: open, operations
    cursor,         \* TxCursor: its transaction, entries and position; 0 is invalid
    result,         \* what the last call returned, if it was a commit
    faults          \* panics and failures so far, counted only to bound them

vars == <<map, revision, durable, handle, tx, batch, cursor, result, faults>>
tree == <<map, revision>>

Bound == Key \union {1 + Max(Key)}
Empty == [k \in Key |-> Missing]

\* A staged operation; a Delete puts Missing.  seen is history: what the
\* transaction showed of the key when the operation was staged (Missing for a
\* batch, which shows nothing).
Op(k, v, seen) == [key |-> k, val |-> v, seen |-> seen]

Tree == INSTANCE VersionedMap
            WITH Snap <- Tx, NoView <- Unstaged, MaxBatch <- MaxOps,
                 views <- [x \in Tx |-> IF tx[x].open THEN tx[x].view ELSE Unstaged]

----------------------------------------------------------------------------
(* What a transaction shows *)

\* ReadWriteTx.Get
TxGet(t, k) ==
    IF ~t.open \/ t.staged[k] = Deleted THEN Missing
    ELSE IF t.staged[k] = Unstaged THEN t.view[k]
    ELSE t.staged[k]

Between(s, e) == {k \in Key : s <= k /\ k < e}
\* sort.Slice (SetToSortSeq, in terms that the proofs unfold).
InOrder(keys) ==
    CHOOSE s \in [1..Cardinality(keys) -> keys] :
        \A i, j \in 1..Cardinality(keys) : i < j => s[i] < s[j]

VisibleKeysBetween_BaseOnly(t, s, e) ==    \* slip: staged keys are left out
    {k \in Between(s, e) : t.view[k] # Missing /\ t.staged[k] # Deleted}

\* visibleKeysBetween: the base without what is staged as deleted, then the
\* staged puts of keys that the base does not have.  Its callers sort them.
VisibleKeysBetween(t, s, e) ==
    LET fromBase == {k \in Between(s, e) : t.view[k] # Missing /\ t.staged[k] # Deleted}
        fromStaged == {k \in Between(s, e) : /\ t.staged[k] \notin {Unstaged, Deleted}
                                             /\ t.view[k] = Missing}
    IN fromBase \union fromStaged

\* ReadWriteTx.RangeBetween: what the visitor is called with.
TxRange(t, s, e) ==
    IF t.open /\ s < e
    THEN LET shown == InOrder({k \in VisibleKeysBetween(t, s, e) : TxGet(t, k) # Missing})
         IN [i \in 1..Len(shown) |-> [key |-> shown[i], val |-> TxGet(t, shown[i])]]
    ELSE <<>>

----------------------------------------------------------------------------
(* Staging *)

ClosedTx == [open |-> FALSE, view |-> Empty, baseRevision |-> 0,
             staged |-> [k \in Key |-> Unstaged], ops |-> <<>>]
ClosedBatch == [open |-> FALSE, ops |-> <<>>]
ClosedCursor == [of |-> {}, entries |-> <<>>, index |-> 0]
NoResult == [of |-> {}, err |-> "", changed |-> FALSE, sync |-> FALSE, operations |-> <<>>]

TxStage(t, k, v) ==
    [t EXCEPT !.staged[k] = IF v = Missing THEN Deleted ELSE v,
              !.ops = Append(@, Op(k, v, TxGet(t, k)))]

TxStageAll(t, keys) ==
    LET after[i \in 0..Len(keys)] ==
            IF i = 0 THEN t ELSE TxStage(after[i - 1], keys[i], Missing)
    IN after[Len(keys)]

Room(n) ==
    n <= MaxOps - FoldSet(LAMBDA x, sum : sum + Len(tx[x].ops), 0, Tx)
                - FoldSet(LAMBDA b, sum : sum + Len(batch[b].ops), 0, Batch)

MayOpen == Cardinality({x \in Tx : tx[x].open} \union {b \in Batch : batch[b].open})
               < MaxOpen

BeginReadWrite(x) ==
    /\ ~tx[x].open
    /\ MayOpen
    /\ tx' = [tx EXCEPT ![x] = [ClosedTx EXCEPT
                  !.open = TRUE, !.baseRevision = revision,
                  !.view = IF handle.closed THEN Empty ELSE map]]
    /\ result' = NoResult
    /\ UNCHANGED <<tree, durable, handle, batch, cursor, faults>>

\* Put and Delete of ReadWriteTx.
TxMutate(x, k, v) ==
    /\ tx[x].open
    /\ Room(1)
    /\ tx' = [tx EXCEPT ![x] = TxStage(@, k, v)]
    /\ result' = NoResult
    /\ UNCHANGED <<tree, durable, handle, batch, cursor, faults>>

\* ReadWriteTx.DeleteRange
TxDeleteRange(x, s, e) ==
    /\ tx[x].open
    /\ s < e
    /\ LET keys == InOrder(VisibleKeysBetween(tx[x], s, e))
       IN /\ Room(Len(keys))
          /\ tx' = [tx EXCEPT ![x] = TxStageAll(@, keys)]
    /\ result' = NoResult
    /\ UNCHANGED <<tree, durable, handle, batch, cursor, faults>>

\* ReadWriteTx.close.  No cursor on the transaction is usable any more.
CloseTx(x) ==
    /\ tx' = [tx EXCEPT ![x] = ClosedTx]
    /\ cursor' = IF cursor.of = {x} THEN ClosedCursor ELSE cursor

TxRollback(x) ==
    /\ tx[x].open
    /\ CloseTx(x)
    /\ result' = NoResult
    /\ UNCHANGED <<tree, durable, handle, batch, faults>>

OpenBatch(b) ==
    /\ ~batch[b].open
    /\ MayOpen
    /\ batch' = [batch EXCEPT ![b] = [open |-> TRUE, ops |-> <<>>]]
    /\ result' = NoResult
    /\ UNCHANGED <<tree, durable, handle, tx, cursor, faults>>

\* Put and Delete of WriteBatch.
BatchMutate(b, k, v) ==
    /\ batch[b].open
    /\ Room(1)
    /\ batch' = [batch EXCEPT ![b].ops = Append(@, Op(k, v, Missing))]
    /\ result' = NoResult
    /\ UNCHANGED <<tree, durable, handle, tx, cursor, faults>>

\* WriteBatch.DeleteRange: guarded by the order of the strings, expanded
\* against the live tree, whatever the batch has staged.
BatchDeleteRange(b, s, e) ==
    /\ batch[b].open
    /\ <<s, e>> \in BytesBefore
    /\ LET keys == InOrder(IF handle.closed THEN {}
                           ELSE {k \in Between(s, e) : map[k] # Missing})
       IN /\ Room(Len(keys))
          /\ batch' = [batch EXCEPT ![b].ops =
                          @ \o [i \in 1..Len(keys) |-> Op(keys[i], Missing, Missing)]]
    /\ result' = NoResult
    /\ UNCHANGED <<tree, durable, handle, tx, cursor, faults>>

BatchRollback(b) ==
    /\ batch[b].open
    /\ batch' = [batch EXCEPT ![b] = ClosedBatch]
    /\ result' = NoResult
    /\ UNCHANGED <<tree, durable, handle, tx, cursor, faults>>

----------------------------------------------------------------------------
(* Committing *)

Replay_LastDecides(ops) ==  \* slip: changed is that of the last operation
    LET before(i) == Tree!ApplyAll(map, SubSeq(ops, 1, i - 1))
    IN [map |-> Tree!ApplyAll(map, ops),
        operations |-> [i \in 1..Len(ops) |->
                           [old |-> before(i)[ops[i].key], seen |-> ops[i].seen]],
        changed |-> ops # <<>> /\ Tree!Changes(before(Len(ops)), Last(ops))]
\* putStaged and deleteStaged of every operation in turn: the old values, and
\* whether the tree changes.
Replay(ops) ==
    LET before(i) == Tree!ApplyAll(map, SubSeq(ops, 1, i - 1))
    IN [map |-> Tree!ApplyAll(map, ops),
        operations |-> [i \in 1..Len(ops) |->
                           [old |-> before(i)[ops[i].key], seen |-> ops[i].seen]],
        changed |-> \E i \in 1..Len(ops) : Tree!Changes(before(i), ops[i])]

\* The early returns of WriteBatch.CommitDetailed.
Refusal == IF handle.closed THEN "tree closed"
           ELSE IF handle.readOnly THEN "read only" ELSE ""

Result(who, err, changed, sync, operations) ==
    [of |-> {who}, err |-> err, changed |-> changed, sync |-> sync,
     operations |-> operations]

Refused(who, err, sync) ==
    /\ result' = Result(who, err, FALSE, sync, <<>>)
    /\ UNCHANGED <<tree, durable, faults>>

\* A staged operation panics: the tree is what it was.
Panicked(who, sync) ==
    /\ faults < MaxFaults
    /\ faults' = faults + 1
    /\ result' = Result(who, "panic", FALSE, sync, <<>>)
    /\ UNCHANGED <<tree, durable>>

Durable == [map |-> map, revision |-> revision]

\* Tree.Sync of a changed tree, as the last step of a commit: err is its error.
SyncAfterCommit_Before(changed, err) ==     \* slip: Sync runs before the publication
    IF ~changed \/ err = "sync" THEN UNCHANGED durable ELSE durable' = Durable
SyncAfterCommit(changed, err) ==
    IF ~changed \/ err = "sync" THEN UNCHANGED durable ELSE durable' = Durable'

\* publishStagedMutation, once for the whole batch and only if it changed the
\* tree; the operations themselves have been staged in the tree already.
Published(replay) ==
    /\ map' = replay.map
    /\ revision' = revision + (IF replay.changed THEN 1 ELSE 0)

Applied(who, ops, sync) ==
    LET replay == Replay(ops)
    IN \E err \in {"", "sync"} :
          /\ err = "sync" => sync /\ replay.changed /\ handle.arena /\ faults < MaxFaults
          /\ replay.changed => revision < MaxRevision
          /\ faults' = IF err = "" THEN faults ELSE faults + 1
          /\ Published(replay)
          /\ IF sync THEN SyncAfterCommit(replay.changed, err) ELSE UNCHANGED durable
          /\ result' = Result(who, err, replay.changed, sync, replay.operations)

\* WriteBatch.CommitDetailed, followed by Sync if the caller asks for it.
CommitOps(who, ops, sync) ==
    IF Refusal # "" THEN Refused(who, Refusal, sync)
    ELSE \/ ops # <<>> /\ Panicked(who, sync)
         \/ Applied(who, ops, sync)

TxCommit_NoCheck(x, sync) ==    \* slip: whatever happened since the transaction began
    /\ tx[x].open
    /\ CloseTx(x)
    /\ CommitOps(x, tx[x].ops, sync)
    /\ UNCHANGED <<handle, batch>>
\* Commit, CommitSync and the detailed forms of ReadWriteTx.
TxCommit(x, sync) ==
    /\ tx[x].open
    /\ CloseTx(x)
    /\ IF revision # tx[x].baseRevision THEN Refused(x, "conflict", sync)
       ELSE CommitOps(x, tx[x].ops, sync)
    /\ UNCHANGED <<handle, batch>>

\* Commit, CommitSync and the detailed forms of WriteBatch.
BatchCommit(b, sync) ==
    /\ batch[b].open
    /\ batch' = [batch EXCEPT ![b] = ClosedBatch]
    /\ CommitOps(b, batch[b].ops, sync)
    /\ UNCHANGED <<handle, tx, cursor>>

----------------------------------------------------------------------------
(* The tree itself *)

\* Tree.Put and Tree.Delete.
TreeMutate(k, v) ==
    /\ Refusal = ""
    /\ revision < MaxRevision
    /\ result' = NoResult
    /\ UNCHANGED <<durable, handle, tx, batch, cursor, faults>>
    /\ Tree!Mutate([key |-> k, val |-> v])

TreeSync ==
    /\ Refusal = ""
    /\ durable' = Durable
    /\ result' = NoResult
    /\ UNCHANGED <<tree, handle, tx, batch, cursor, faults>>

\* Tree.Close: refused under readers of a mapped file; a failing Sync does not
\* keep a mapped tree open.
TreeClose ==
    /\ ~handle.closed
    /\ handle.arena => \A x \in Tx : ~tx[x].open
    /\ handle' = [handle EXCEPT !.closed = TRUE]
    /\ \/ durable' = (IF handle.readOnly THEN durable ELSE Durable) /\ UNCHANGED faults
       \/ /\ handle.arena /\ ~handle.readOnly /\ faults < MaxFaults
          /\ faults' = faults + 1 /\ UNCHANGED durable
    /\ result' = NoResult
    /\ UNCHANGED <<tree, tx, batch, cursor>>

----------------------------------------------------------------------------
(* Transaction cursors *)

\* CursorBetween materializes the visible range and moves to its first entry.
CursorBetween(x, s, e) ==
    /\ tx[x].open
    /\ s < e
    /\ LET entries == TxRange(tx[x], s, e)
       IN cursor' = [of |-> {x}, entries |-> entries,
                     index |-> IF entries = <<>> THEN 0 ELSE 1]
    /\ result' = NoResult
    /\ UNCHANGED <<tree, durable, handle, tx, batch, faults>>

CursorMove(index) ==
    /\ cursor' = [cursor EXCEPT !.index = IF index \in 1..Len(cursor.entries)
                                          THEN index ELSE 0]
    /\ result' = NoResult
    /\ UNCHANGED <<tree, durable, handle, tx, batch, faults>>

CursorFirst == cursor.of # {} /\ CursorMove(1)
CursorLast == cursor.of # {} /\ CursorMove(Len(cursor.entries))
CursorNext == cursor.index # 0 /\ CursorMove(cursor.index + 1)
CursorPrev == cursor.index # 0 /\ CursorMove(cursor.index - 1)
CursorSeek(k) ==
    /\ cursor.of # {}
    /\ CursorMove(SelectInSeq(cursor.entries, LAMBDA e : e.key >= k))

CursorDelete_Entry(x) ==    \* slip: reports the value that the cursor was opened with
    /\ cursor.of = {x} /\ cursor.index # 0
    /\ Room(1)
    /\ LET e == cursor.entries[cursor.index]
       IN tx' = [tx EXCEPT ![x] = [TxStage(@, e.key, Missing) EXCEPT
                                      !.ops[Len(tx[x].ops) + 1].seen = e.val]]
    /\ result' = NoResult
    /\ UNCHANGED <<tree, durable, handle, batch, cursor, faults>>
\* TxCursor.Delete: only of a key that the transaction still shows.  What it
\* returns is what the staged operation has seen.
CursorDelete(x) ==
    /\ cursor.of = {x} /\ cursor.index # 0
    /\ Room(1)
    /\ LET k == cursor.entries[cursor.index].key
       IN /\ TxGet(tx[x], k) # Missing
          /\ tx' = [tx EXCEPT ![x] = TxStage(@, k, Missing)]
    /\ result' = NoResult
    /\ UNCHANGED <<tree, durable, handle, batch, cursor, faults>>

CursorClose ==
    /\ cursor.of # {}
    /\ cursor' = ClosedCursor
    /\ result' = NoResult
    /\ UNCHANGED <<tree, durable, handle, tx, batch, faults>>

----------------------------------------------------------------------------
Init ==
    /\ map \in Preloads
    /\ revision = 0
    /\ durable = Durable
    /\ handle \in [arena : Arena, readOnly : BOOLEAN, closed : {FALSE}]
    /\ handle.readOnly => handle.arena
    /\ tx = [x \in Tx |-> ClosedTx]
    /\ batch = [b \in Batch |-> ClosedBatch]
    /\ cursor = ClosedCursor
    /\ result = NoResult
    /\ faults = 0

TxNext(x) ==
    \/ BeginReadWrite(x)
    \/ \E k \in Key, v \in Val \union {Missing} : TxMutate(x, k, v)
    \/ \E s, e \in Bound : TxDeleteRange(x, s, e) \/ CursorBetween(x, s, e)
    \/ CursorDelete(x)
    \/ TxRollback(x)
    \/ \E sync \in BOOLEAN : TxCommit(x, sync)

BatchNext(b) ==
    \/ OpenBatch(b)
    \/ \E k \in Key, v \in Val \union {Missing} : BatchMutate(b, k, v)
    \/ \E s, e \in Bound : BatchDeleteRange(b, s, e)
    \/ BatchRollback(b)
    \/ \E sync \in BOOLEAN : BatchCommit(b, sync)

CursorNextStep ==
    \/ CursorFirst \/ CursorLast \/ CursorNext \/ CursorPrev
    \/ \E k \in Bound : CursorSeek(k)
    \/ CursorClose

Next ==
    \/ \E x \in Tx : TxNext(x)
    \/ \E b \in Batch : BatchNext(b)
    \/ CursorNextStep
    \/ \E k \in Key, v \in Val \union {Missing} : TreeMutate(k, v)
    \/ TreeSync
    \/ TreeClose

Spec == Init /\ [][Next]_vars

----------------------------------------------------------------------------
(* Properties *)

\* Type correctness of the handles.
TypeOK ==
    /\ map \in [Key -> Val \union {Missing}]
    /\ revision \in 0..MaxRevision
    /\ \A x \in Tx : /\ tx[x].baseRevision \in 0..revision
                     /\ tx[x].staged \in [Key -> Val \union {Deleted, Unstaged}]
                     /\ Len(tx[x].ops) <= MaxOps
    /\ cursor.index \in 0..Len(cursor.entries)
    /\ cursor.of # {} => \E x \in Tx : cursor.of = {x} /\ tx[x].open

Succeeded(r) == r.err \in {"", "sync"}

\* A transaction that commits has seen nothing that is no longer so, and leaves
\* the tree showing what it showed itself: replaying its operations on the live
\* tree (CommitDetailed) comes to the same as its staged overlay on the base
\* snapshot, whatever other transactions, batches and mutations did meanwhile.
SerialCommits ==
    [][\A x \in Tx : result'.of = {x} /\ Succeeded(result') =>
          /\ map = tx[x].view
          /\ map' = [k \in Key |-> TxGet(tx[x], k)]
          /\ revision' = revision + (IF result'.changed THEN 1 ELSE 0)]_vars

\* The old values that CommitDetailed reports are those that the transaction
\* showed when each operation was staged, for Put, Delete, every key of
\* DeleteRange and what TxCursor.Delete has returned.
OldValuesSeen ==
    (\E x \in Tx : result.of = {x}) /\ Succeeded(result) =>
        \A i \in 1..Len(result.operations) :
            result.operations[i].old = result.operations[i].seen

\* RangeBetween merges base and overlay: it visits just the keys that Get shows,
\* once and in order, also keys that were deleted and staged again.
RangeMerges ==
    \A x \in Tx : tx[x].open => \A s, e \in Bound :
        s < e => TxRange(tx[x], s, e) =
                   LET keys == InOrder({k \in Between(s, e) : TxGet(tx[x], k) # Missing})
                   IN [i \in 1..Len(keys) |-> [key |-> keys[i], val |-> TxGet(tx[x], keys[i])]]

\* A revision names one content of the tree, across panics and failed Syncs: an
\* open transaction whose revision is current has the current tree as its base
\* (CommitDetailed compares only revisions), and SyncedRevision = Revision means
\* that all that is visible is durable.
RevisionNamesContents ==
    /\ \A x \in Tx : tx[x].open /\ ~handle.closed /\ tx[x].baseRevision = revision
                        => tx[x].view = map
    /\ durable.revision = revision => durable.map = map

\* A CommitSync that reports a change and no error has made all that is visible
\* durable, earlier commits whose Sync failed included.
CommitSyncDurable ==
    result.sync /\ result.err = "" /\ result.changed => durable = Durable
=============================================================================
