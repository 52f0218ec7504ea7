----------------------------- MODULE ReaderTable -----------------------------
(***************************************************************************)
(* The reader table of a mapped file (reader_table_unix.go): the sidecar   *)
(* through which read-only handles of other processes tell the writer      *)
(* which revision they may still read.                                     *)
(*                                                                         *)
(* Processes start, die without cleaning up, and reuse process ids; a      *)
(* machine restarts.  Every operation on the table runs under one flock    *)
(* (withLock), so it is one step; opening a read-only handle is four of    *)
(* them, and the writer may mutate, Sync, stop and open again in between.  *)
(*                                                                         *)
(* The pages are abstracted to the tags of their retired records: tag v    *)
(* stands for the pages that the mutation of revision v replaced, which    *)
(* every root up to v is taken to reach.  A root is intact while none of   *)
(* the pages it reaches has been written again.                            *)
(***************************************************************************)
EXTENDS Integers, FiniteSets

CONSTANTS
    Pid,           \* process ids
    Handle,        \* read-only handles that some process may hold
    SlotCount,     \* readerTableSlotCount (64)
    Formats,       \* formats of the table found at first: 0 for no file yet
    MaxStart,      \* bound: processes started in one boot
    MaxBoot,       \* bound: boots of the machine
    MaxToken,      \* bound: slots claimed
    MaxRevision    \* bound: revisions of the tree

ASSUME PidAssumption == Pid \subseteq Nat \ {0}
ASSUME SlotCountAssumption == SlotCount \in Nat
ASSUME FormatsAssumption == Formats \subseteq 0..3
ASSUME BoundsAssumption ==
    MaxStart \in Nat /\ MaxBoot \in Nat \ {0} /\ MaxToken \in Nat /\ MaxRevision \in Nat \ {0}

Slot == 1..SlotCount
Revision == 0..MaxRevision

VARIABLES
    format,       \* the version in the header of the table, 0 before it exists
    slots,        \* the slots of the table
    start,        \* per process id, when its process started; 0 if there is none
    clock,        \* the last start of this boot
    boot,         \* the identity of this boot
    token,        \* the last claim token given out
    handle,       \* the read-only handles: where OpenMmapReadOnly is, and its slot
    up,           \* a writable handle is open
    revision,     \* its t.revision
    retired,      \* its t.retired, as tags
    free,         \* its t.free, as tags
    rewritten,    \* tags of pages that were free and have been written again
    synced,       \* the newest metadata page: revision, retired, free
    early         \* history: per handle, the tags that were free at its claim

tableVars == <<format, slots>>
machineVars == <<start, clock, boot>>
writerVars == <<up, revision, retired, free, rewritten, synced>>
vars == <<tableVars, machineVars, token, handle, writerVars, early>>

EmptySlot == [active |-> FALSE, pid |-> 0, start |-> 0, boot |-> 0, revision |-> 0, token |-> 0]
ClosedHandle == [pc |-> "closed", pid |-> 0, slot |-> 0, token |-> 0, revision |-> 0]

----------------------------------------------------------------------------
(* The slots *)

\* A slot of the formats 1 and 2 has no room for the boot, of format 1 none for
\* the start of the process: both are read back as 0, unknown.
Stored(f, s) == [active |-> s.active, pid |-> s.pid, revision |-> s.revision, token |-> s.token,
                 start |-> IF f >= 2 THEN s.start ELSE 0,
                 boot |-> IF f >= 3 THEN s.boot ELSE 0]

WithRevision(s, r) == [active |-> s.active, pid |-> s.pid, revision |-> r, token |-> s.token,
                       start |-> s.start, boot |-> s.boot]

StartMatches(s) == s.start = 0 \/ s.start = start[s.pid]
BootMatches_Ignored(s) == TRUE                   \* slip: boots are not told apart
BootMatches(s) == s.boot = 0 \/ s.boot = boot

Alive_PidOnly(s) == start[s.pid] # 0             \* slip: a reused process id is alive

\* readerSlotAlive: the process id is in use, and by the process that claimed
\* the slot as far as the slot can tell.
Alive(s) == start[s.pid] # 0 /\ StartMatches(s) /\ BootMatches(s)

\* ownsSlot, for a process of id p
Owns(p, s) == s.pid = p /\ StartMatches(s) /\ BootMatches(s)

LiveSlots == {i \in Slot : slots[i].active /\ Alive(slots[i])}
DeadSlots == {i \in Slot : slots[i].active /\ ~Alive(slots[i])}

Malformed_AtLeast(i, max) == slots[i].token = 0 \/ slots[i].revision >= max  \* slip: off by one

\* validateReaderSlotRevision rejects a live slot without a token, or one that
\* is ahead of the tree of the process that looks.
Malformed(i, max) == slots[i].token = 0 \/ slots[i].revision > max
Untrusted(max) == {i \in LiveSlots : Malformed(i, max)}

\* writeSlotActiveLocked; nobody reads the rest of an inactive slot.
Cleared == EmptySlot

Scanned_ClearsAll(max) == [i \in Slot |-> Cleared]  \* slip: live slots are cleared too

\* oldest and cleanStale clear the dead slots on their way; the first slot that
\* they do not trust ends the scan.
Scanned(max) ==
    [i \in Slot |-> IF /\ i \in DeadSlots
                       /\ \A j \in Untrusted(max) : i < j
                    THEN Cleared ELSE slots[i]]

Pinned_Strict(v, max) ==          \* slip: a reader of the record's own revision is ignored
    Untrusted(max) # {} \/ \E i \in LiveSlots : slots[i].revision < v

\* reclaimRetiredPages keeps a record that the oldest reader may still reach; a
\* table that it does not trust counts as a reader of revision 0.
Pinned(v, max) ==
    Untrusted(max) # {} \/ \E i \in LiveSlots : slots[i].revision <= v

----------------------------------------------------------------------------
(* Processes *)

\* A file with one synced mutation, that nobody has open.
Init ==
    /\ format \in Formats
    /\ slots = [i \in Slot |-> EmptySlot]
    /\ start = [p \in Pid \union {0} |-> 0]
    /\ clock = 0
    /\ boot = 1
    /\ token = 0
    /\ handle = [h \in Handle |-> ClosedHandle]
    /\ up = FALSE
    /\ revision = 0
    /\ retired = {}
    /\ free = {}
    /\ rewritten = {}
    /\ synced = [revision |-> 1, retired |-> {}, free |-> {}]
    /\ early = [h \in Handle |-> {}]

\* A process gets the id p, which another process may have had before.
Start(p) ==
    /\ start[p] = 0
    /\ clock < MaxStart
    /\ start' = [start EXCEPT ![p] = clock + 1]
    /\ clock' = clock + 1
    /\ UNCHANGED <<tableVars, boot, token, handle, writerVars, early>>

\* A process ends at any point of what it is doing; its slots stay.
Die(p) ==
    /\ start[p] # 0
    /\ start' = [start EXCEPT ![p] = 0]
    /\ handle' = [h \in Handle |-> IF handle[h].pid = p THEN ClosedHandle ELSE handle[h]]
    /\ early' = [h \in Handle |-> IF handle[h].pid = p THEN {} ELSE early[h]]
    /\ UNCHANGED <<tableVars, clock, boot, token, writerVars>>

\* What a writer had not synced is gone with its process.
WriterForgets == up' = FALSE /\ revision' = 0 /\ retired' = {} /\ free' = {}

\* The machine restarts in an orderly way: start times begin again.
Reboot ==
    /\ boot < MaxBoot
    /\ boot' = boot + 1
    /\ start' = [p \in Pid \union {0} |-> 0]
    /\ clock' = 0
    /\ handle' = [h \in Handle |-> ClosedHandle]
    /\ early' = [h \in Handle |-> {}]
    /\ WriterForgets
    /\ UNCHANGED <<tableVars, token, rewritten, synced>>

----------------------------------------------------------------------------
(* A read-only handle: OpenMmapReadOnly, Close *)

Intact(root) == \A v \in rewritten : v < root

\* The first slot that is free or whose owner is dead
Claimable(i) ==
    /\ i \notin LiveSlots
    /\ \A j \in 1..(i - 1) : j \in LiveSlots

ProvisionalRevision_Max == MaxRevision + 1  \* slip: no pin until the root is chosen
ProvisionalRevision == 0

\* openReaderTable creates the table if there is none; claim(0) takes a slot, with a
\* fresh token, for a provisional revision that pins everything.  When all slots are
\* alive it is refused (ErrActiveReaders) and the handle stays closed.
Claim(h, p) ==
    /\ handle[h].pc = "closed"
    /\ p \in Pid
    /\ start[p] # 0
    /\ token < MaxToken
    /\ \E i \in Slot :
        /\ Claimable(i)
        /\ format' = IF format = 0 THEN 3 ELSE format
        /\ slots' = [slots EXCEPT ![i] = Stored(format', [active |-> TRUE, pid |-> p,
                         start |-> start[p], boot |-> boot,
                         revision |-> ProvisionalRevision, token |-> token + 1])]
        /\ handle' = [handle EXCEPT ![h] = [pc |-> "claimed", pid |-> p, slot |-> i,
                                            token |-> token + 1, revision |-> 0]]
    /\ token' = token + 1
    /\ early' = [early EXCEPT ![h] = free \union rewritten]
    /\ UNCHANGED <<machineVars, writerVars>>

\* Is the slot still the one this handle claimed?
Holds(h) ==
    LET s == slots[handle[h].slot]
    IN  s.active /\ s.token = handle[h].token /\ Owns(handle[h].pid, s)

\* release: the slot is cleared only if it still belongs to the handle.
Released(h) ==
    IF Holds(h) THEN [slots EXCEPT ![handle[h].slot] = Cleared] ELSE slots

Goto(h, pc, root) ==
    handle' = [handle EXCEPT ![h] = [pc |-> pc, pid |-> handle[h].pid, slot |-> handle[h].slot,
                                     token |-> handle[h].token, revision |-> root]]

CloseHandle(h) ==
    /\ slots' = Released(h)
    /\ handle' = [handle EXCEPT ![h] = ClosedHandle]
    /\ early' = [early EXCEPT ![h] = {}]

\* loadMeta chooses the newest root and rejects it if pages it reaches have been
\* written again (MmapSync.tla has what recovery accepts); the open then fails.
LoadMeta(h) ==
    /\ handle[h].pc = "claimed"
    /\ IF Intact(synced.revision)
       THEN /\ Goto(h, "loaded", synced.revision)
            /\ UNCHANGED <<slots, early>>
       ELSE CloseHandle(h)
    /\ UNCHANGED <<format, machineVars, token, writerVars>>

\* updateRevision puts the recovered revision in the slot.
UpdateRevision(h) ==
    /\ handle[h].pc = "loaded"
    /\ IF Holds(h)
       THEN /\ slots' = [slots EXCEPT ![handle[h].slot] =
                             WithRevision(slots[handle[h].slot], handle[h].revision)]
            /\ Goto(h, "registered", handle[h].revision)
            /\ UNCHANGED early
       ELSE CloseHandle(h)
    /\ UNCHANGED <<format, machineVars, token, writerVars>>

\* validate: the handle is returned unless some live slot is ahead of its root.
Validate(h) ==
    /\ handle[h].pc = "registered"
    /\ IF Untrusted(handle[h].revision) = {}
       THEN Goto(h, "open", handle[h].revision) /\ UNCHANGED <<slots, early>>
       ELSE CloseHandle(h)
    /\ UNCHANGED <<format, machineVars, token, writerVars>>

Close(h) ==
    /\ handle[h].pc = "open"
    /\ CloseHandle(h)
    /\ UNCHANGED <<format, machineVars, token, writerVars>>

----------------------------------------------------------------------------
(* The writer *)

\* OpenMmap: the newest root is recovered, and the table validated against it.
\* (A refused open leaves the writer closed.)
WriterOpen ==
    /\ ~up
    /\ Intact(synced.revision)
    /\ Untrusted(synced.revision) = {}
    /\ up' = TRUE
    /\ format' = IF format = 0 THEN 3 ELSE format
    /\ revision' = synced.revision
    /\ retired' = synced.retired
    /\ free' = synced.free
    /\ early' = [h \in Handle |-> {v \in early[h] : v < synced.revision}]
    /\ UNCHANGED <<slots, machineVars, token, handle, rewritten, synced>>

\* The writer closes, after a Sync, or its process ends.
WriterStop ==
    /\ up
    /\ WriterForgets
    /\ UNCHANGED <<tableVars, machineVars, token, handle, rewritten, synced, early>>

Reclaim_(ret, max) ==
    /\ slots' = IF ret = {} THEN slots ELSE Scanned(max)
    /\ retired' = {v \in ret : Pinned(v, max)}

\* A published mutation: its pages are taken from the free list as long as there
\* are any, the pages it replaced are retired under the old revision, and
\* reclaimRetiredPages runs with the new one.
Mutate ==
    /\ up
    /\ revision < MaxRevision
    /\ \E reused \in SUBSET free :
        /\ free # {} => reused # {}
        /\ LET ret == retired \union {revision}
           IN  /\ Reclaim_(ret, revision + 1)
               /\ free' = (free \ reused) \union {v \in ret : ~Pinned(v, revision + 1)}
        /\ rewritten' = rewritten \union reused
    /\ revision' = revision + 1
    /\ UNCHANGED <<format, machineVars, token, handle, up, synced, early>>

\* The other callers of reclaimRetiredPages: a snapshot that closes, punching holes
Reclaim ==
    /\ up
    /\ Reclaim_(retired, revision)
    /\ free' = free \union {v \in retired : ~Pinned(v, revision)}
    /\ UNCHANGED <<format, machineVars, token, handle, up, revision, rewritten, synced, early>>

\* CleanStaleMmapReaders
CleanStale ==
    /\ up
    /\ slots' = Scanned(revision)
    /\ UNCHANGED <<format, machineVars, token, handle, writerVars, early>>

\* Sync publishes the revision and what is retired and free.
Sync ==
    /\ up
    /\ synced' = [revision |-> revision, retired |-> retired, free |-> free]
    /\ UNCHANGED <<tableVars, machineVars, token, handle, up, revision, retired, free,
                   rewritten, early>>

----------------------------------------------------------------------------

OpenStep(h) == LoadMeta(h) \/ UpdateRevision(h) \/ Validate(h)
Reader(h) == (\E p \in Pid : Claim(h, p)) \/ OpenStep(h) \/ Close(h)
Machine == (\E p \in Pid : Start(p) \/ Die(p)) \/ Reboot
Writer == WriterOpen \/ WriterStop \/ Mutate \/ Reclaim \/ CleanStale \/ Sync

Next == Machine \/ Writer \/ \E h \in Handle : Reader(h)

Spec == Init /\ [][Next]_vars

\* A writer that stays open and has something to reclaim or to clean calls into
\* the table again.
Fairness ==
    /\ WF_vars(CleanStale)
    /\ WF_vars(Reclaim)

FairSpec == Spec /\ Fairness

----------------------------------------------------------------------------
(* Properties *)

HandleStates == {"closed", "claimed", "loaded", "registered", "open"}
SlotRecord == [active : BOOLEAN, pid : Pid \union {0}, start : Nat, boot : Nat,
               revision : Revision, token : Nat]
HandleRecord == [pc : HandleStates, pid : Pid \union {0}, slot : Slot \union {0},
                 token : Nat, revision : Revision]

\* The variables stay in their ranges.
TypeOK ==
    /\ format \in 0..3
    /\ slots \in [Slot -> SlotRecord]
    /\ start \in [Pid \union {0} -> Nat]
    /\ clock \in Nat
    /\ boot \in Nat
    /\ token \in Nat
    /\ handle \in [Handle -> HandleRecord]
    /\ up \in BOOLEAN
    /\ revision \in Revision
    /\ retired \subseteq Revision
    /\ free \subseteq Revision
    /\ rewritten \subseteq Revision
    /\ synced \in [revision : Revision, retired : SUBSET Revision, free : SUBSET Revision]
    /\ early \in [Handle -> SUBSET Revision]

Opened(h) == handle[h].pc \in {"loaded", "registered", "open"}

\* No operation of another process, and no reuse of its process id, takes the slot
\* of a handle away: release, updateRevision, claim and the cleaning scans touch
\* only slots whose owner is gone or is the caller.
SlotHeld == \A h \in Handle : handle[h].pc # "closed" => Holds(h)

\* What a read-only handle reaches and was not yet free when it claimed its slot
\* is neither freed nor written while the handle is open: the provisional claim
\* covers the time in which the handle chooses its root, and the writer may
\* mutate, Sync, stop and open again (claim, updateRevision, oldest).
ReaderPinned ==
    \A h \in Handle : Opened(h) =>
        \A v \in free \union rewritten : v >= handle[h].revision => v \in early[h]

\* No reader makes the writer distrust the table: no live slot is ahead of an
\* open writer, or of the root the next writer recovers, so that
\* validateReaderSlotRevision never pins everything and never refuses a writer.
WriterTrusts ==
    /\ Untrusted(synced.revision) = {}
    /\ up => Untrusted(revision) = {}

\* The table and what its processes believe of it fit together in every state
\* (openReaderTable, claim, updateRevision, oldest).
TableSound == TypeOK /\ WriterTrusts

\* validate refuses a reader only because another reader, live and of a newer
\* root, has registered since the first one chose its root.
RefusedByNewerOnly ==
    [][\A h \in Handle :
        handle[h].pc = "registered" /\ Validate(h) /\ handle'[h].pc = "closed"
            => \E g \in Handle \ {h} :
                 /\ handle[g].pc \in {"registered", "open"}
                 /\ handle[g].revision > handle[h].revision]_vars

\* A slot that no handle holds
Orphan(i) == slots[i].active /\ \A h \in Handle : handle[h].pc = "closed" \/ handle[h].slot # i

\* A slot that a dead process left behind does not stay claimed while the writer
\* is open, whoever has its process id now and even after a reboot (format 3).
OrphansEnd ==
    \A i \in Slot : (up /\ format = 3 /\ Orphan(i)) ~> (~up \/ ~Orphan(i))

\* When the readers are gone for good and the writer stays open, what they pinned
\* is freed (format 3).
PinsEnd ==
    <>[](up /\ format = 3 /\ \A h \in Handle : handle[h].pc = "closed") => []<>(retired = {})

\* "If any active reader can still see a retired page, the writer allocates new
\* pages instead of recycling that page ID" (docs/08-mmap-backed-pages.md:358):
\* the pages of an open handle are not written again.
ReaderKeepsPages == \A h \in Handle : handle[h].pc = "open" => Intact(handle[h].revision)
=============================================================================
