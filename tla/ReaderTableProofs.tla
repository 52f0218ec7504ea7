-------------------------- MODULE ReaderTableProofs --------------------------
(***************************************************************************)
(* Proofs that the reader table protects its readers, for every number of  *)
(* processes, handles and slots, and every format of the table; only the   *)
(* last theorem leaves out format 1.                                       *)
(***************************************************************************)
EXTENDS ReaderTable, TLAPS

Bounds == /\ MaxRevision \in Nat \ {0}
          /\ Revision = 0..MaxRevision
          /\ Pid \subseteq Nat \ {0}
          /\ Formats \subseteq 0..3

LEMMA BoundsHold == Bounds
BY PidAssumption, FormatsAssumption, BoundsAssumption DEF Bounds, Revision

----------------------------------------------------------------------------
(* Types *)

LEMMA EmptyTyped == EmptySlot \in SlotRecord /\ ClosedHandle \in HandleRecord
BY BoundsHold DEF EmptySlot, ClosedHandle, SlotRecord, HandleRecord, HandleStates, Bounds

LEMMA ScannedTyped ==
    ASSUME slots \in [Slot -> SlotRecord], NEW max
    PROVE  Scanned(max) \in [Slot -> SlotRecord]
BY EmptyTyped DEF Scanned, Cleared

LEMMA CloseTyped ==
    ASSUME TypeOK, NEW h \in Handle, CloseHandle(h)
    PROVE  /\ slots' \in [Slot -> SlotRecord]
           /\ handle' \in [Handle -> HandleRecord]
           /\ early' \in [Handle -> SUBSET Revision]
BY EmptyTyped DEF CloseHandle, Released, Cleared, TypeOK

LEMMA GotoTyped ==
    ASSUME TypeOK, NEW h \in Handle, NEW pc \in HandleStates, NEW root \in Revision,
           Goto(h, pc, root)
    PROVE  handle' \in [Handle -> HandleRecord]
BY DEF Goto, TypeOK, HandleRecord

LEMMA StoredTyped ==
    ASSUME NEW f \in 0..3, NEW s \in SlotRecord
    PROVE  Stored(f, s) \in SlotRecord
<1>1. /\ (IF f >= 2 THEN s.start ELSE 0) \in Nat
      /\ (IF f >= 3 THEN s.boot ELSE 0) \in Nat
  BY DEF SlotRecord
<1> QED
  BY <1>1 DEF Stored, SlotRecord

LEMMA InitType == Init => TypeOK
<1> SUFFICES ASSUME Init PROVE TypeOK
  OBVIOUS
<1>1. 0 \in Revision /\ 1 \in Revision /\ format \in 0..3
  BY BoundsHold DEF Init, Bounds
<1>2. synced \in [revision : Revision, retired : SUBSET Revision, free : SUBSET Revision]
  BY <1>1 DEF Init
<1>3. /\ slots \in [Slot -> SlotRecord]
      /\ handle \in [Handle -> HandleRecord]
      /\ early \in [Handle -> SUBSET Revision]
      /\ start \in [Pid \union {0} -> Nat]
  BY EmptyTyped DEF Init
<1> QED
  BY <1>1, <1>2, <1>3 DEF Init, TypeOK

LEMMA ReaderType ==
    ASSUME TypeOK, NEW h \in Handle, Reader(h)
    PROVE  TypeOK'
<1>1. CASE \E p \in Pid : Claim(h, p)
  <2>1. PICK p \in Pid : Claim(h, p)
    BY <1>1
  <2> DEFINE s == [active |-> TRUE, pid |-> p, start |-> start[p], boot |-> boot,
                   revision |-> ProvisionalRevision, token |-> token + 1]
  <2>2. s \in SlotRecord
    BY BoundsHold DEF TypeOK, SlotRecord, ProvisionalRevision, Bounds
  <2>3. PICK i \in Slot :
           /\ slots' = [slots EXCEPT ![i] = Stored(format', s)]
           /\ handle' = [handle EXCEPT ![h] = [pc |-> "claimed", pid |-> p, slot |-> i,
                                               token |-> token + 1, revision |-> 0]]
           /\ format' = IF format = 0 THEN 3 ELSE format
    BY <2>1 DEF Claim
  <2>4. slots' \in [Slot -> SlotRecord]
    <3>1. format' \in 0..3
      BY <2>3 DEF TypeOK
    <3>2. Stored(format', s) \in SlotRecord
      BY <2>2, <3>1, StoredTyped
    <3> QED
      BY <2>3, <3>2 DEF TypeOK
  <2>5. [pc |-> "claimed", pid |-> p, slot |-> i, token |-> token + 1, revision |-> 0]
            \in HandleRecord
    BY BoundsHold DEF HandleRecord, HandleStates, TypeOK, Bounds
  <2>6. handle' \in [Handle -> HandleRecord]
    BY <2>3, <2>5 DEF TypeOK
  <2>7. format' \in 0..3 /\ token' \in Nat /\ early' \in [Handle -> SUBSET Revision]
    BY <2>1, <2>3 DEF Claim, TypeOK
  <2> QED
    BY <2>1, <2>4, <2>6, <2>7 DEF Claim, TypeOK, machineVars, writerVars
<1>2. CASE OpenStep(h)
  <2>0. handle[h].revision \in Revision /\ synced.revision \in Revision
    BY DEF TypeOK, HandleRecord
  <2>1. handle' \in [Handle -> HandleRecord] /\ early' \in [Handle -> SUBSET Revision]
    <3>1. {"loaded", "registered", "open"} \subseteq HandleStates
      BY DEF HandleStates
    <3>2. early \in [Handle -> SUBSET Revision]
      BY DEF TypeOK
    <3> QED
      BY <1>2, <2>0, <3>1, <3>2, CloseTyped, GotoTyped
      DEF OpenStep, LoadMeta, UpdateRevision, Validate
  <2>2. slots' \in [Slot -> SlotRecord]
    <3>1. slots \in [Slot -> SlotRecord]
      BY DEF TypeOK
    <3>2. \A i \in Slot : WithRevision(slots[i], handle[h].revision) \in SlotRecord
      BY <2>0, <3>1 DEF WithRevision, SlotRecord
    <3>3. [slots EXCEPT ![handle[h].slot] = WithRevision(slots[handle[h].slot], handle[h].revision)]
              \in [Slot -> SlotRecord]
      BY <3>1, <3>2
    <3> QED
      BY <1>2, <3>1, <3>3, CloseTyped DEF OpenStep, LoadMeta, UpdateRevision, Validate
  <2> QED
    BY <1>2, <2>1, <2>2
    DEF OpenStep, LoadMeta, UpdateRevision, Validate, TypeOK, machineVars, writerVars
<1>3. CASE Close(h)
  BY <1>3, CloseTyped DEF Close, TypeOK, machineVars, writerVars
<1> QED
  BY <1>1, <1>2, <1>3 DEF Reader

LEMMA MachineType ==
    ASSUME TypeOK, Machine
    PROVE  TypeOK'
<1>1. ASSUME NEW p \in Pid, Start(p)
      PROVE  TypeOK'
  BY <1>1 DEF Start, TypeOK, tableVars, writerVars
<1>2. ASSUME NEW p \in Pid, Die(p)
      PROVE  TypeOK'
  BY <1>2, EmptyTyped DEF Die, TypeOK, tableVars, writerVars
<1>3. CASE Reboot
  <2>1. 0 \in Revision
    BY BoundsHold DEF Bounds
  <2>2. /\ handle' \in [Handle -> HandleRecord]
        /\ early' \in [Handle -> SUBSET Revision]
        /\ start' \in [Pid \union {0} -> Nat]
    BY <1>3, EmptyTyped DEF Reboot
  <2> QED
    <3>1. boot' \in Nat
      BY <1>3 DEF Reboot, TypeOK
    <3> QED
      BY <1>3, <2>1, <2>2, <3>1, BoundsAssumption DEF Reboot, WriterForgets, TypeOK, tableVars
<1> QED
  BY <1>1, <1>2, <1>3 DEF Machine

LEMMA WriterType ==
    ASSUME TypeOK, Writer
    PROVE  TypeOK'
<1> USE BoundsHold DEF Bounds
<1>1. CASE WriterOpen
  <2>1. revision' \in Revision /\ retired' \subseteq Revision /\ free' \subseteq Revision
    BY <1>1 DEF WriterOpen, TypeOK
  <2>2. format' \in 0..3
    BY <1>1 DEF WriterOpen, TypeOK
  <2>3. early' \in [Handle -> SUBSET Revision]
    BY <1>1 DEF WriterOpen, TypeOK
  <2> QED
    BY <1>1, <2>1, <2>2, <2>3 DEF WriterOpen, TypeOK, machineVars
<1>2. CASE WriterStop
  <2>1. revision' \in Revision /\ retired' \subseteq Revision /\ free' \subseteq Revision
    BY <1>2 DEF WriterStop, WriterForgets
  <2> QED
    BY <1>2, <2>1 DEF WriterStop, WriterForgets, TypeOK, machineVars, tableVars
<1>3. CASE Mutate
  <2>1. slots' \in [Slot -> SlotRecord]
    BY <1>3, ScannedTyped DEF Mutate, Reclaim_, TypeOK
  <2>2. PICK reused \in SUBSET free :
           /\ Reclaim_(retired \union {revision}, revision + 1)
           /\ free' = (free \ reused) \union
                  {v \in retired \union {revision} : ~Pinned(v, revision + 1)}
           /\ rewritten' = rewritten \union reused
    BY <1>3 DEF Mutate
  <2>3. retired' \subseteq Revision /\ free' \subseteq Revision /\ rewritten' \subseteq Revision
    BY <2>2 DEF Reclaim_, TypeOK
  <2>4. revision' \in Revision
    BY <1>3 DEF Mutate, TypeOK
  <2> QED
    BY <1>3, <2>1, <2>3, <2>4 DEF Mutate, TypeOK, machineVars
<1>4. CASE Reclaim
  <2>1. slots' \in [Slot -> SlotRecord]
    BY <1>4, ScannedTyped DEF Reclaim, Reclaim_, TypeOK
  <2>2. retired' \subseteq Revision /\ free' \subseteq Revision
    BY <1>4 DEF Reclaim, Reclaim_, TypeOK
  <2> QED
    BY <1>4, <2>1, <2>2 DEF Reclaim, TypeOK, machineVars
<1>5. CASE CleanStale
  BY <1>5, ScannedTyped DEF CleanStale, TypeOK, machineVars, writerVars
<1>6. CASE Sync
  BY <1>6 DEF Sync, TypeOK, machineVars, tableVars
<1> QED
  BY <1>1, <1>2, <1>3, <1>4, <1>5, <1>6 DEF Writer

\* Type correctness.
THEOREM TypeCorrect == Spec => []TypeOK
<1>1. TypeOK /\ [Next]_vars => TypeOK'
  <2> SUFFICES ASSUME TypeOK, [Next]_vars PROVE TypeOK'
    OBVIOUS
  <2>1. CASE UNCHANGED vars
    BY <2>1 DEF vars, tableVars, machineVars, writerVars, TypeOK
  <2> QED
    BY <2>1, ReaderType, MachineType, WriterType DEF Next
<1> QED
  BY InitType, <1>1, PTL DEF Spec

----------------------------------------------------------------------------
(* The slots of open handles *)

Running(h) == handle[h].pc # "closed"

\* The process of an open handle lives, and its slot is still the one claimed ...
HeldAlive ==
    \A h \in Handle : Running(h) =>
        /\ handle[h].pid \in Pid
        /\ start[handle[h].pid] # 0
        /\ handle[h].slot \in Slot
        /\ Holds(h)

\* ... no two handles have the same one ...
Apart ==
    \A g, h \in Handle : Running(g) /\ Running(h) /\ g # h => handle[g].slot # handle[h].slot

\* ... and it shows revision 0, then the revision of the chosen root.
SlotRevision ==
    \A h \in Handle : Running(h) =>
        slots[handle[h].slot].revision =
            IF handle[h].pc \in {"claimed", "loaded"} THEN 0 ELSE handle[h].revision

SInv == HeldAlive /\ Apart /\ SlotRevision

\* The slot of an open handle is live: nobody clears it or claims it.
LEMMA HeldIsLive ==
    ASSUME HeldAlive, NEW h \in Handle, Running(h)
    PROVE  handle[h].slot \in LiveSlots
BY DEF HeldAlive, LiveSlots, Holds, Owns, Alive

\* oldest, cleanStale: a scan leaves live slots alone.
LEMMA ScanKeepsLive ==
    ASSUME NEW max, NEW i \in LiveSlots
    PROVE  Scanned(max)[i] = slots[i]
BY DEF Scanned, DeadSlots, LiveSlots

\* Steps that leave the machine and the handles alone, and the live slots as they are.
LEMMA SInvKept ==
    ASSUME SInv, UNCHANGED <<machineVars, handle>>,
           \A i \in LiveSlots : slots'[i] = slots[i]
    PROVE  SInv'
<1>1. \A h \in Handle : Running(h)' <=> Running(h)
  BY DEF Running
<1>2. \A h \in Handle : Running(h) => slots'[handle[h].slot] = slots[handle[h].slot]
  BY HeldIsLive DEF SInv
<1>3. \A h \in Handle : Running(h) /\ Holds(h) => Holds(h)'
  BY <1>2 DEF Holds, Owns, StartMatches, BootMatches, machineVars
<1>4. HeldAlive'
  BY <1>1, <1>3 DEF SInv, HeldAlive, machineVars
<1>5. Apart'
  BY <1>1 DEF SInv, Apart
<1>6. SlotRevision'
  BY <1>1, <1>2 DEF SInv, SlotRevision
<1> QED
  BY <1>4, <1>5, <1>6 DEF SInv

LEMMA SInvWriter ==
    ASSUME SInv, Writer
    PROVE  SInv'
<1>1. CASE WriterOpen \/ WriterStop \/ Sync
  BY <1>1, SInvKept DEF WriterOpen, WriterStop, Sync, tableVars
<1>2. CASE Mutate
  <2>1. slots' = slots \/ slots' = Scanned(revision + 1)
    BY <1>2 DEF Mutate, Reclaim_
  <2> QED
    BY <1>2, <2>1, SInvKept, ScanKeepsLive DEF Mutate
<1>3. CASE Reclaim \/ CleanStale
  <2>1. slots' = slots \/ slots' = Scanned(revision)
    BY <1>3 DEF Reclaim, CleanStale, Reclaim_
  <2> QED
    BY <1>3, <2>1, SInvKept, ScanKeepsLive DEF Reclaim, CleanStale
<1> QED
  BY <1>1, <1>2, <1>3 DEF Writer

LEMMA SInvMachine ==
    ASSUME TypeOK, SInv, Machine
    PROVE  SInv'
<1>1. ASSUME NEW p \in Pid, Start(p)
      PROVE  SInv'
  <2>1. \A h \in Handle : Running(h)' <=> Running(h)
    BY <1>1 DEF Start, Running
  <2>2. \A h \in Handle : Running(h) => start'[handle[h].pid] = start[handle[h].pid]
    BY <1>1 DEF SInv, HeldAlive, Start, TypeOK
  <2>3. \A h \in Handle : Running(h) /\ Holds(h) => Holds(h)'
    BY <1>1, <2>2 DEF Start, tableVars, Holds, Owns, StartMatches, BootMatches
  <2>4. HeldAlive'
    BY <1>1, <2>1, <2>2, <2>3 DEF SInv, HeldAlive, Start
  <2>5. Apart' /\ SlotRevision'
    BY <1>1, <2>1 DEF SInv, Apart, SlotRevision, Start, tableVars
  <2> QED
    BY <2>4, <2>5 DEF SInv
<1>2. ASSUME NEW p \in Pid, Die(p)
      PROVE  SInv'
  <2>1. \A h \in Handle : Running(h)' => Running(h) /\ handle'[h] = handle[h] /\ handle[h].pid # p
    BY <1>2 DEF Die, Running, ClosedHandle
  <2>2. \A h \in Handle : Running(h)' => start'[handle[h].pid] = start[handle[h].pid]
    BY <1>2, <2>1 DEF SInv, HeldAlive, Die, TypeOK
  <2>3. \A h \in Handle : Running(h)' /\ Holds(h) => Holds(h)'
    BY <1>2, <2>1, <2>2 DEF Die, tableVars, Holds, Owns, StartMatches, BootMatches
  <2>4. HeldAlive'
    BY <1>2, <2>1, <2>2, <2>3 DEF SInv, HeldAlive, Die
  <2>5. Apart' /\ SlotRevision'
    BY <1>2, <2>1 DEF SInv, Apart, SlotRevision, Die, tableVars
  <2> QED
    BY <2>4, <2>5 DEF SInv
<1>3. CASE Reboot
  BY <1>3 DEF Reboot, SInv, HeldAlive, Apart, SlotRevision, Running, ClosedHandle
<1> QED
  BY <1>1, <1>2, <1>3 DEF Machine

\* claim: the slot taken is not the slot of another handle.
LEMMA SInvClaim ==
    ASSUME TypeOK, SInv, NEW h \in Handle, NEW p \in Pid, Claim(h, p)
    PROVE  SInv'
<1> DEFINE s == [active |-> TRUE, pid |-> p, start |-> start[p], boot |-> boot,
                 revision |-> ProvisionalRevision, token |-> token + 1]
<1>1. PICK i \in Slot :
         /\ Claimable(i)
         /\ slots' = [slots EXCEPT ![i] = Stored(format', s)]
         /\ handle' = [handle EXCEPT ![h] = [pc |-> "claimed", pid |-> p, slot |-> i,
                                             token |-> token + 1, revision |-> 0]]
  BY DEF Claim
<1>2. /\ slots'[i] = Stored(format', s)
      /\ \A j \in Slot \ {i} : slots'[j] = slots[j]
      /\ handle'[h] = [pc |-> "claimed", pid |-> p, slot |-> i,
                       token |-> token + 1, revision |-> 0]
      /\ \A g \in Handle \ {h} : handle'[g] = handle[g]
  BY <1>1 DEF TypeOK
<1>3. \A g \in Handle \ {h} : Running(g) => handle[g].slot \in Slot \ {i}
  BY <1>1, HeldIsLive DEF SInv, HeldAlive, Claimable
<1>4. \A g \in Handle \ {h} :
         /\ Running(g)' <=> Running(g)
         /\ Running(g) => handle'[g] = handle[g] /\ slots'[handle[g].slot] = slots[handle[g].slot]
  BY <1>2, <1>3 DEF Running
<1>5. start[p] # 0 /\ UNCHANGED <<start, boot>>
  BY DEF Claim, machineVars
<1>6. Holds(h)'
  BY <1>2, <1>5 DEF Holds, Owns, StartMatches, BootMatches, Stored
<1>7. \A g \in Handle \ {h} : Running(g) /\ Holds(g) => Holds(g)'
  BY <1>4, <1>5 DEF Holds, Owns, StartMatches, BootMatches
<1>8. HeldAlive'
  <2>1. \A g \in Handle \ {h} : Running(g)' =>
           handle'[g].pid \in Pid /\ start'[handle'[g].pid] # 0 /\ handle'[g].slot \in Slot /\ Holds(g)'
    BY <1>4, <1>5, <1>7 DEF SInv, HeldAlive
  <2>2. handle'[h].pid \in Pid /\ start'[handle'[h].pid] # 0 /\ handle'[h].slot \in Slot /\ Holds(h)'
    BY <1>2, <1>5, <1>6
  <2> QED
    BY <2>1, <2>2 DEF HeldAlive
<1>9. Apart'
  BY <1>2, <1>3, <1>4 DEF SInv, Apart
<1>10. SlotRevision'
  <2>1. slots'[handle'[h].slot].revision = 0 /\ handle'[h].pc = "claimed"
    BY <1>2 DEF Stored, ProvisionalRevision
  <2> QED
    BY <1>4, <2>1 DEF SInv, SlotRevision
<1> QED
  BY <1>8, <1>9, <1>10 DEF SInv

LEMMA SInvCloseHandle ==
    ASSUME TypeOK, SInv, NEW h \in Handle, Running(h), CloseHandle(h), UNCHANGED machineVars
    PROVE  SInv'
<1>1. /\ ~Running(h)'
      /\ \A g \in Handle \ {h} : handle'[g] = handle[g] /\ (Running(g)' <=> Running(g))
  BY DEF CloseHandle, Running, ClosedHandle, TypeOK
<1>2. \A j \in Slot \ {handle[h].slot} : slots'[j] = slots[j]
  BY DEF CloseHandle, Released, TypeOK
<1>3. \A g \in Handle \ {h} : Running(g) => slots'[handle[g].slot] = slots[handle[g].slot]
  BY <1>2 DEF SInv, HeldAlive, Apart
<1>4. \A g \in Handle \ {h} : Running(g) /\ Holds(g) => Holds(g)'
  BY <1>1, <1>3 DEF Holds, Owns, StartMatches, BootMatches, machineVars
<1>5. HeldAlive'
  BY <1>1, <1>4 DEF SInv, HeldAlive, machineVars
<1>6. Apart'
  BY <1>1 DEF SInv, Apart
<1>7. SlotRevision'
  BY <1>1, <1>3 DEF SInv, SlotRevision
<1> QED
  BY <1>5, <1>6, <1>7 DEF SInv

\* updateRevision and validate: the handle moves on, and its slot with it.
LEMMA SInvGoto ==
    ASSUME TypeOK, SInv, NEW h \in Handle, Running(h), UNCHANGED machineVars,
           NEW pc \in {"loaded", "registered", "open"}, NEW root, Goto(h, pc, root),
           \/ UNCHANGED slots
           \/ slots' = [slots EXCEPT ![handle[h].slot] = WithRevision(slots[handle[h].slot], root)],
           slots'[handle[h].slot].revision = IF pc = "loaded" THEN 0 ELSE root
    PROVE  SInv'
<1>1. /\ handle'[h] = [pc |-> pc, pid |-> handle[h].pid, slot |-> handle[h].slot,
                       token |-> handle[h].token, revision |-> root]
      /\ \A g \in Handle \ {h} : handle'[g] = handle[g]
  BY DEF Goto, TypeOK
<1>2. \A g \in Handle : Running(g)' <=> Running(g)
  BY <1>1 DEF Running
<1>3. \A g \in Handle : Running(g) => handle'[g].slot = handle[g].slot /\ handle[g].slot \in Slot
  BY <1>1 DEF SInv, HeldAlive
<1>4. \A j \in Slot \ {handle[h].slot} : slots'[j] = slots[j]
  BY DEF TypeOK
<1>5. \A g \in Handle \ {h} : Running(g) => slots'[handle[g].slot] = slots[handle[g].slot]
  BY <1>3, <1>4 DEF SInv, Apart
<1>6. \A g \in Handle \ {h} : Running(g) /\ Holds(g) => Holds(g)'
  BY <1>1, <1>5 DEF Holds, Owns, StartMatches, BootMatches, machineVars
<1>7. Holds(h)'
  <2>1. slots[handle[h].slot] \in SlotRecord /\ Holds(h)
    BY <1>3 DEF SInv, HeldAlive, TypeOK
  <2>2. /\ slots'[handle[h].slot].active = slots[handle[h].slot].active
        /\ slots'[handle[h].slot].pid = slots[handle[h].slot].pid
        /\ slots'[handle[h].slot].token = slots[handle[h].slot].token
        /\ slots'[handle[h].slot].start = slots[handle[h].slot].start
        /\ slots'[handle[h].slot].boot = slots[handle[h].slot].boot
    BY <1>3 DEF WithRevision, TypeOK
  <2>3. /\ handle'[h].pid = handle[h].pid
        /\ handle'[h].slot = handle[h].slot
        /\ handle'[h].token = handle[h].token
    BY <1>1
  <2>4. UNCHANGED <<start, boot>>
    BY DEF machineVars
  <2> QED
    BY <2>1, <2>2, <2>3, <2>4 DEF Holds, Owns, StartMatches, BootMatches
<1>8. HeldAlive'
  BY <1>1, <1>2, <1>3, <1>6, <1>7 DEF SInv, HeldAlive, machineVars
<1>9. Apart'
  BY <1>2, <1>3 DEF SInv, Apart
<1>10. SlotRevision'
  <2>1. slots'[handle'[h].slot].revision =
            IF handle'[h].pc \in {"claimed", "loaded"} THEN 0 ELSE handle'[h].revision
    BY <1>1
  <2> QED
    BY <1>1, <1>2, <1>5, <2>1 DEF SInv, SlotRevision
<1> QED
  BY <1>8, <1>9, <1>10 DEF SInv

LEMMA SInvReader ==
    ASSUME TypeOK, SInv, NEW h \in Handle, Reader(h)
    PROVE  SInv'
<1>1. CASE \E p \in Pid : Claim(h, p)
  BY <1>1, SInvClaim
<1>2. CASE LoadMeta(h)
  <2>1. Running(h) /\ UNCHANGED machineVars
    BY <1>2 DEF LoadMeta, Running
  <2>2. slots[handle[h].slot].revision = 0
    BY <1>2, <2>1 DEF LoadMeta, SInv, SlotRevision
  <2> QED
    BY <1>2, <2>1, <2>2, SInvGoto, SInvCloseHandle DEF LoadMeta
<1>3. CASE UpdateRevision(h)
  <2>1. Running(h) /\ UNCHANGED machineVars /\ handle[h].slot \in Slot /\ Holds(h)
    BY <1>3 DEF UpdateRevision, Running, SInv, HeldAlive
  <2>2. /\ slots' = [slots EXCEPT ![handle[h].slot] =
                         WithRevision(slots[handle[h].slot], handle[h].revision)]
        /\ Goto(h, "registered", handle[h].revision)
    BY <1>3, <2>1 DEF UpdateRevision
  <2>3. slots'[handle[h].slot].revision = IF "registered" = "loaded" THEN 0 ELSE handle[h].revision
    BY <2>1, <2>2 DEF TypeOK, WithRevision
  <2> QED
    BY <2>1, <2>2, <2>3, SInvGoto
<1>4. CASE Validate(h)
  <2>1. Running(h) /\ UNCHANGED machineVars
    BY <1>4 DEF Validate, Running
  <2>2. slots[handle[h].slot].revision = handle[h].revision
    BY <1>4, <2>1 DEF Validate, SInv, SlotRevision
  <2> QED
    BY <1>4, <2>1, <2>2, SInvGoto, SInvCloseHandle DEF Validate
<1>5. CASE Close(h)
  <2>1. Running(h) /\ UNCHANGED machineVars
    BY <1>5 DEF Close, Running
  <2> QED
    BY <1>5, <2>1, SInvCloseHandle DEF Close
<1> QED
  BY <1>1, <1>2, <1>3, <1>4, <1>5 DEF Reader, OpenStep

LEMMA SInvInit == Init => SInv
BY DEF Init, SInv, HeldAlive, Apart, SlotRevision, Running, ClosedHandle

LEMMA SInvNext ==
    ASSUME TypeOK, SInv, [Next]_vars
    PROVE  SInv'
<1>1. CASE UNCHANGED vars
  BY <1>1, SInvKept DEF vars, tableVars
<1> QED
  BY <1>1, SInvReader, SInvMachine, SInvWriter DEF Next

\* No process, whatever process ids it gets, takes the slot of an open handle
\* away (claim, release, updateRevision, oldest, cleanStale).
THEOREM SlotsHeld == Spec => []SlotHeld
<1>1. SInv => SlotHeld
  BY DEF SInv, HeldAlive, SlotHeld, Running
<1> QED
  BY <1>1, TypeCorrect, SInvInit, SInvNext, PTL DEF Spec

----------------------------------------------------------------------------
(* What open handles reach *)

\* Records carry revisions that are over; a Sync never goes back.
Bounded ==
    /\ up => synced.revision <= revision /\ \A v \in free \union retired : v < revision
    /\ \A v \in synced.free \union synced.retired : v < synced.revision

\* Roots come from metadata pages.
Rooted == \A h \in Handle : Opened(h) => handle[h].revision <= synced.revision

Trusted == \A i \in Slot : slots[i].active =>
    slots[i].token # 0 /\ slots[i].revision <= synced.revision

\* ReaderPinned, also for what a writer that opens again finds free ...
OpenedPinned ==
    \A h \in Handle : Opened(h) =>
        \A v \in free \union rewritten \union synced.free :
            v >= handle[h].revision => v \in early[h]

\* ... and for the root that a handle with a provisional claim will choose.
ClaimedPinned ==
    \A h \in Handle : handle[h].pc = "claimed" =>
        \A v \in free \union rewritten : v >= synced.revision => v \in early[h]

PInv == Bounded /\ Rooted /\ Trusted /\ OpenedPinned /\ ClaimedPinned

LEMMA OpenedRuns ==
    ASSUME NEW h \in Handle, Opened(h) \/ handle[h].pc = "claimed"
    PROVE  Running(h)
BY DEF Opened, Running

\* oldest: a record that is freed while a handle is open is older than its root,
\* and none is freed before it has registered a root.
LEMMA FreedIsOlder ==
    ASSUME TypeOK, SInv, NEW h \in Handle, Running(h),
           NEW v \in Revision, NEW max, ~Pinned(v, max)
    PROVE  handle[h].pc \notin {"claimed", "loaded"} /\ v < handle[h].revision
<1>1. handle[h].slot \in LiveSlots
  BY HeldIsLive DEF SInv
<1>2. ~(slots[handle[h].slot].revision <= v)
  BY <1>1 DEF Pinned
<1>3. handle[h].revision \in Nat /\ v \in Nat
  BY DEF TypeOK, HandleRecord, Revision
<1>4. slots[handle[h].slot].revision =
          IF handle[h].pc \in {"claimed", "loaded"} THEN 0 ELSE handle[h].revision
  BY DEF SInv, SlotRevision
<1> QED
  BY <1>2, <1>3, <1>4

LEMMA PInvInit == Init => PInv
BY DEF Init, PInv, Bounded, Rooted, Trusted, OpenedPinned, ClaimedPinned, Opened,
       ClosedHandle, EmptySlot

\* Steps that free only what FreedIsOlder allows, and rewrite only what is free.
LEMMA PInvFrees ==
    ASSUME TypeOK, SInv, PInv, UNCHANGED <<handle, synced, early>>,
           NEW ret \in SUBSET Revision, NEW max,
           \A v \in free' \union rewritten' :
               v \in free \union rewritten \/ (v \in ret /\ ~Pinned(v, max))
    PROVE  OpenedPinned' /\ ClaimedPinned'
<1>1. \A v \in Revision, h \in Handle : Running(h) /\ v \in ret /\ ~Pinned(v, max) =>
         handle[h].pc \notin {"claimed", "loaded"} /\ v < handle[h].revision
  BY FreedIsOlder
<1>2. \A h \in Handle : handle[h].revision \in Nat
  BY DEF TypeOK, HandleRecord, Revision
<1>3. OpenedPinned'
  <2> SUFFICES ASSUME NEW h \in Handle, Opened(h)',
                      NEW v \in free' \union rewritten' \union synced.free, v >= handle[h].revision
               PROVE  v \in early[h]
    BY DEF OpenedPinned
  <2>1. Opened(h) /\ Running(h)
    BY DEF Opened, Running
  <2>2. v \in free \union rewritten \union synced.free
    <3> SUFFICES ASSUME v \in ret, ~Pinned(v, max) PROVE FALSE
      OBVIOUS
    <3>1. v \in Nat /\ v < handle[h].revision
      BY <1>1, <2>1, BoundsAssumption DEF Revision
    <3> QED
      BY <1>2, <3>1
  <2> QED
    BY <2>1, <2>2 DEF PInv, OpenedPinned
<1>4. ClaimedPinned'
  <2> SUFFICES ASSUME NEW h \in Handle, handle[h].pc = "claimed",
                      NEW v \in free' \union rewritten', v >= synced.revision
               PROVE  v \in early[h]
    BY DEF ClaimedPinned
  <2>1. Running(h)
    BY DEF Running
  <2>2. v \in free \union rewritten
    BY <1>1, <2>1
  <2> QED
    BY <2>2 DEF PInv, ClaimedPinned
<1> QED
  BY <1>3, <1>4

LEMMA TrustedScan ==
    ASSUME Trusted, UNCHANGED synced, NEW max, slots' = slots \/ slots' = Scanned(max)
    PROVE  Trusted'
BY DEF Trusted, Scanned, Cleared, EmptySlot

LEMMA PInvWriter ==
    ASSUME TypeOK, SInv, PInv, Writer
    PROVE  PInv'
<1>0. /\ revision \in Nat /\ synced.revision \in Nat
      /\ retired \union {revision} \in SUBSET Revision
      /\ retired \subseteq Nat /\ free \subseteq Nat /\ rewritten \subseteq Nat
      /\ synced.free \subseteq Nat /\ synced.retired \subseteq Nat
  BY DEF TypeOK, Revision
<1>1. CASE WriterOpen
  <2>1. Bounded'
    BY <1>0, <1>1 DEF WriterOpen, PInv, Bounded
  <2>2. Rooted' /\ Trusted'
    BY <1>1 DEF WriterOpen, PInv, Rooted, Opened, Trusted
  <2>3. \A v \in free' \union rewritten' \union synced'.free : v < synced.revision
    BY <1>1 DEF WriterOpen, PInv, Bounded, Intact
  <2>4. OpenedPinned'
    <3> SUFFICES ASSUME NEW h \in Handle, Opened(h)',
                        NEW v \in free' \union rewritten' \union synced'.free,
                        v >= handle'[h].revision
                 PROVE  v \in early'[h]
      BY DEF OpenedPinned
    <3>1. Opened(h) /\ v \in rewritten \union synced.free /\ v >= handle[h].revision
      BY <1>1 DEF Opened, WriterOpen
    <3>2. v \in early[h]
      BY <3>1 DEF PInv, OpenedPinned
    <3> QED
      BY <1>1, <2>3, <3>2 DEF WriterOpen
  <2>5. ClaimedPinned'
    <3>1. \A v \in free' \union rewritten' : v \in Nat /\ v < synced'.revision
      BY <1>0, <1>1, <2>3 DEF WriterOpen
    <3>2. synced'.revision \in Nat
      BY <1>0, <1>1 DEF WriterOpen
    <3> QED
      BY <3>1, <3>2 DEF ClaimedPinned
  <2> QED
    BY <2>1, <2>2, <2>4, <2>5 DEF PInv
<1>2. CASE WriterStop
  BY <1>2 DEF WriterStop, WriterForgets, tableVars, PInv, Bounded, Rooted, Trusted,
              OpenedPinned, ClaimedPinned, Opened
<1>3. CASE Mutate
  <2> DEFINE ret == retired \union {revision}
  <2>1. PICK reused \in SUBSET free :
           /\ Reclaim_(ret, revision + 1)
           /\ free' = (free \ reused) \union {v \in ret : ~Pinned(v, revision + 1)}
           /\ rewritten' = rewritten \union reused
    BY <1>3 DEF Mutate
  <2>2. up /\ revision' = revision + 1 /\ UNCHANGED <<handle, up, synced, early>>
    BY <1>3 DEF Mutate
  <2>3. OpenedPinned' /\ ClaimedPinned'
    <3>1. \A v \in free' \union rewritten' :
             v \in free \union rewritten \/ (v \in ret /\ ~Pinned(v, revision + 1))
      BY <2>1
    <3> QED
      BY <1>0, <2>2, <3>1, PInvFrees
  <2>4. Bounded'
    <3>1. \A v \in free' \union retired' : v \in free \union retired \union {revision}
      BY <2>1 DEF Reclaim_
    <3>2. synced.revision <= revision /\ \A v \in free \union retired : v < revision
      BY <2>2 DEF PInv, Bounded
    <3>3. \A v \in free' \union retired' : v < revision'
      <4>1. \A v \in free \union retired \union {revision} : v \in Nat /\ v < revision + 1
        BY <1>0, <3>2
      <4> QED
        BY <2>2, <3>1, <4>1
    <3>4. synced'.revision <= revision'
      BY <1>0, <2>2, <3>2
    <3>5. synced' = synced /\ \A v \in synced.free \union synced.retired : v < synced.revision
      BY <2>2 DEF PInv, Bounded
    <3>6. \A v \in synced'.free \union synced'.retired : v < synced'.revision
      BY <3>5
    <3> QED
      BY <3>3, <3>4, <3>6, Zenon DEF Bounded
  <2>5. Rooted'
    BY <2>2 DEF PInv, Rooted, Opened
  <2>6. Trusted'
    BY <2>1, <2>2, TrustedScan DEF Reclaim_, PInv
  <2> QED
    BY <2>3, <2>4, <2>5, <2>6 DEF PInv
<1>4. CASE Reclaim
  <2>1. /\ Reclaim_(retired, revision)
        /\ free' = free \union {v \in retired : ~Pinned(v, revision)}
        /\ UNCHANGED <<handle, up, revision, rewritten, synced, early>>
    BY <1>4 DEF Reclaim
  <2>2. OpenedPinned' /\ ClaimedPinned'
    <3>1. \A v \in free' \union rewritten' :
             v \in free \union rewritten \/ (v \in retired /\ ~Pinned(v, revision))
      BY <2>1
    <3>2. retired \in SUBSET Revision
      BY DEF TypeOK
    <3> QED
      BY <2>1, <3>1, <3>2, PInvFrees
  <2>3. Bounded'
    <3>1. \A v \in free' \union retired' : v \in free \union retired
      BY <2>1 DEF Reclaim_
    <3> QED
      BY <2>1, <3>1 DEF PInv, Bounded
  <2>4. Rooted'
    BY <2>1 DEF PInv, Rooted, Opened
  <2>5. Trusted'
    BY <2>1, TrustedScan DEF Reclaim_, PInv
  <2> QED
    BY <2>2, <2>3, <2>4, <2>5 DEF PInv
<1>5. CASE CleanStale
  <2>1. Trusted'
    BY <1>5, TrustedScan DEF CleanStale, writerVars, PInv
  <2>2. Bounded' /\ Rooted' /\ OpenedPinned' /\ ClaimedPinned'
    BY <1>5 DEF CleanStale, writerVars, PInv, Bounded, Rooted, OpenedPinned, ClaimedPinned, Opened
  <2> QED
    BY <2>1, <2>2 DEF PInv
<1>6. CASE Sync
  <2>1. /\ up
        /\ synced' = [revision |-> revision, retired |-> retired, free |-> free]
        /\ UNCHANGED <<slots, handle, up, revision, retired, free, rewritten, early>>
    BY <1>6 DEF Sync, tableVars
  <2>2. synced.revision <= revision
    BY <2>1 DEF PInv, Bounded
  <2>3. Bounded'
    BY <1>0, <2>1 DEF PInv, Bounded
  <2>4. \A h \in Handle : handle[h].revision \in Nat
    BY DEF TypeOK, HandleRecord, Revision
  <2>5. Rooted'
    BY <1>0, <2>1, <2>2, <2>4 DEF PInv, Rooted, Opened
  <2>6. \A i \in Slot : slots[i].revision \in Nat
    BY DEF TypeOK, SlotRecord, Revision
  <2>7. Trusted'
    BY <1>0, <2>1, <2>2, <2>6 DEF PInv, Trusted
  <2>8. OpenedPinned'
    BY <2>1 DEF PInv, OpenedPinned, Opened
  <2>9. ClaimedPinned'
    BY <1>0, <2>1, <2>2 DEF PInv, ClaimedPinned
  <2> QED
    BY <2>3, <2>5, <2>7, <2>8, <2>9 DEF PInv
<1> QED
  BY <1>1, <1>2, <1>3, <1>4, <1>5, <1>6 DEF Writer

LEMMA PInvMachine ==
    ASSUME TypeOK, PInv, Machine
    PROVE  PInv'
<1>1. ASSUME NEW p \in Pid, Start(p)
      PROVE  PInv'
  BY <1>1 DEF Start, tableVars, writerVars, PInv, Bounded, Rooted, Trusted,
              OpenedPinned, ClaimedPinned, Opened
<1>2. ASSUME NEW p \in Pid, Die(p)
      PROVE  PInv'
  <2>1. UNCHANGED <<slots, up, revision, retired, free, rewritten, synced>>
    BY <1>2 DEF Die, tableVars, writerVars
  <2>2. \A h \in Handle : Opened(h)' \/ handle'[h].pc = "claimed" =>
           handle'[h] = handle[h] /\ early'[h] = early[h]
    BY <1>2 DEF Die, Opened, ClosedHandle
  <2>3. Bounded' /\ Trusted'
    BY <2>1 DEF PInv, Bounded, Trusted
  <2>4. Rooted'
    BY <2>1, <2>2 DEF PInv, Rooted, Opened
  <2>5. OpenedPinned' /\ ClaimedPinned'
    BY <2>1, <2>2 DEF PInv, OpenedPinned, ClaimedPinned, Opened
  <2> QED
    BY <2>3, <2>4, <2>5 DEF PInv
<1>3. CASE Reboot
  <2>1. UNCHANGED <<slots, synced>> /\ ~up'
    BY <1>3 DEF Reboot, WriterForgets, tableVars
  <2>2. \A h \in Handle : handle'[h].pc = "closed"
    BY <1>3 DEF Reboot, ClosedHandle
  <2> QED
    BY <2>1, <2>2 DEF PInv, Bounded, Rooted, Trusted, OpenedPinned, ClaimedPinned, Opened
<1> QED
  BY <1>1, <1>2, <1>3 DEF Machine

\* A step of one handle that leaves the writer alone: the other handles keep what
\* they had, and the slots stay trusted if the new one is.
LEMMA PInvHandle ==
    ASSUME TypeOK, PInv, NEW h \in Handle, UNCHANGED writerVars,
           \A g \in Handle \ {h} : handle'[g] = handle[g] /\ early'[g] = early[g],
           Opened(h)' => /\ handle'[h].revision <= synced.revision
                         /\ \A v \in free \union rewritten \union synced.free :
                               v >= handle'[h].revision => v \in early'[h],
           handle'[h].pc = "claimed" =>
               \A v \in free \union rewritten : v >= synced.revision => v \in early'[h],
           Trusted'
    PROVE  PInv'
<1>1. UNCHANGED <<up, revision, retired, free, rewritten, synced>>
  BY DEF writerVars
<1>2. Bounded'
  BY <1>1 DEF PInv, Bounded
<1>3. \A g \in Handle \ {h} : Opened(g)' <=> Opened(g)
  BY DEF Opened
<1>4. Rooted'
  BY <1>1, <1>3 DEF PInv, Rooted
<1>5. OpenedPinned'
  BY <1>1, <1>3 DEF PInv, OpenedPinned
<1>6. ClaimedPinned'
  BY <1>1 DEF PInv, ClaimedPinned
<1> QED
  BY <1>2, <1>4, <1>5, <1>6 DEF PInv

LEMMA PInvClose ==
    ASSUME TypeOK, PInv, NEW h \in Handle, CloseHandle(h), UNCHANGED writerVars
    PROVE  PInv'
<1>1. /\ handle'[h].pc = "closed"
      /\ \A g \in Handle \ {h} : handle'[g] = handle[g] /\ early'[g] = early[g]
  BY DEF CloseHandle, ClosedHandle, TypeOK
<1>2. Trusted'
  BY DEF CloseHandle, Released, Cleared, EmptySlot, writerVars, PInv, Trusted, TypeOK
<1> QED
  BY <1>1, <1>2, PInvHandle DEF Opened

LEMMA PInvReader ==
    ASSUME TypeOK, SInv, PInv, NEW h \in Handle, Reader(h)
    PROVE  PInv'
<1>0. /\ synced.revision \in Nat /\ token \in Nat
      /\ free \subseteq Nat /\ rewritten \subseteq Nat /\ synced.free \subseteq Nat
  BY DEF TypeOK, Revision
<1>1. ASSUME NEW p \in Pid, Claim(h, p)
      PROVE  PInv'
  <2> DEFINE s == [active |-> TRUE, pid |-> p, start |-> start[p], boot |-> boot,
                   revision |-> ProvisionalRevision, token |-> token + 1]
  <2>1. PICK i \in Slot :
           /\ slots' = [slots EXCEPT ![i] = Stored(format', s)]
           /\ handle' = [handle EXCEPT ![h] = [pc |-> "claimed", pid |-> p, slot |-> i,
                                               token |-> token + 1, revision |-> 0]]
    BY <1>1 DEF Claim
  <2>2. early' = [early EXCEPT ![h] = free \union rewritten] /\ UNCHANGED writerVars
    BY <1>1 DEF Claim
  <2>3. /\ handle'[h].pc = "claimed"
        /\ early'[h] = free \union rewritten
        /\ \A g \in Handle \ {h} : handle'[g] = handle[g] /\ early'[g] = early[g]
    BY <2>1, <2>2 DEF TypeOK
  <2>4. /\ slots'[i].token = token + 1 /\ slots'[i].revision = 0
        /\ \A j \in Slot \ {i} : slots'[j] = slots[j]
    BY <2>1 DEF Stored, ProvisionalRevision, TypeOK
  <2>5. synced' = synced
    BY <2>2 DEF writerVars
  <2>6. Trusted'
    <3>1. slots'[i].token # 0 /\ slots'[i].revision <= synced.revision
      BY <1>0, <2>4
    <3> QED
      BY <2>4, <2>5, <3>1 DEF PInv, Trusted
  <2> QED
    BY <2>2, <2>3, <2>6, PInvHandle DEF Opened
<1>2. CASE LoadMeta(h)
  <2>1. CASE Intact(synced.revision)
    <3>1. Goto(h, "loaded", synced.revision) /\ UNCHANGED <<slots, early, writerVars>>
      BY <1>2, <2>1 DEF LoadMeta
    <3>2. /\ handle'[h].pc = "loaded" /\ handle'[h].revision = synced.revision
          /\ \A g \in Handle \ {h} : handle'[g] = handle[g] /\ early'[g] = early[g]
      BY <3>1 DEF Goto, TypeOK
    <3>3. \A v \in free \union rewritten : v >= synced.revision => v \in early[h]
      BY <1>2 DEF LoadMeta, PInv, ClaimedPinned
    <3>4. \A v \in synced.free : v < synced.revision
      BY DEF PInv, Bounded
    <3>5. \A v \in free \union rewritten \union synced.free :
             v >= handle'[h].revision => v \in early'[h]
      <4>1. \A v \in free \union rewritten \union synced.free :
               v >= synced.revision => v \in early[h]
        BY <1>0, <3>3, <3>4
      <4> QED
        BY <3>1, <3>2, <4>1
    <3>6. Trusted'
      BY <3>1 DEF PInv, Trusted, writerVars
    <3> QED
      BY <1>0, <3>1, <3>2, <3>5, <3>6, PInvHandle
  <2>2. CASE ~Intact(synced.revision)
    BY <1>2, <2>2, PInvClose DEF LoadMeta
  <2> QED
    BY <2>1, <2>2
<1>3. CASE UpdateRevision(h)
  <2>1. Opened(h) /\ Holds(h) /\ handle[h].slot \in Slot
    BY <1>3 DEF UpdateRevision, Opened, SInv, HeldAlive, Running
  <2>2. /\ slots' = [slots EXCEPT ![handle[h].slot] =
                         WithRevision(slots[handle[h].slot], handle[h].revision)]
        /\ Goto(h, "registered", handle[h].revision)
        /\ UNCHANGED <<early, writerVars>>
    BY <1>3, <2>1 DEF UpdateRevision
  <2>3. /\ handle'[h].pc = "registered" /\ handle'[h].revision = handle[h].revision
        /\ \A g \in Handle \ {h} : handle'[g] = handle[g] /\ early'[g] = early[g]
    BY <2>2 DEF Goto, TypeOK
  <2>4. /\ slots'[handle[h].slot].token = slots[handle[h].slot].token
        /\ slots'[handle[h].slot].revision = handle[h].revision
        /\ slots[handle[h].slot].active
        /\ \A j \in Slot \ {handle[h].slot} : slots'[j] = slots[j]
    BY <2>1, <2>2 DEF WithRevision, TypeOK, Holds
  <2>5. handle[h].revision <= synced.revision
    BY <2>1 DEF PInv, Rooted
  <2>6. Trusted'
    BY <2>1, <2>2, <2>4, <2>5 DEF PInv, Trusted, writerVars
  <2>7. \A v \in free \union rewritten \union synced.free :
           v >= handle[h].revision => v \in early[h]
    BY <2>1 DEF PInv, OpenedPinned
  <2> QED
    BY <2>2, <2>3, <2>5, <2>6, <2>7, PInvHandle
<1>4. CASE Validate(h)
  <2>1. CASE Untrusted(handle[h].revision) = {}
    <3>1. Goto(h, "open", handle[h].revision) /\ UNCHANGED <<slots, early, writerVars>>
      BY <1>4, <2>1 DEF Validate
    <3>2. /\ handle'[h].pc = "open" /\ handle'[h].revision = handle[h].revision
          /\ \A g \in Handle \ {h} : handle'[g] = handle[g] /\ early'[g] = early[g]
      BY <3>1 DEF Goto, TypeOK
    <3>3. Opened(h)
      BY <1>4 DEF Validate, Opened
    <3>4. /\ handle[h].revision <= synced.revision
          /\ \A v \in free \union rewritten \union synced.free :
                v >= handle[h].revision => v \in early[h]
      BY <3>3 DEF PInv, Rooted, OpenedPinned
    <3>5. Trusted'
      BY <3>1 DEF PInv, Trusted, writerVars
    <3> QED
      BY <3>1, <3>2, <3>4, <3>5, PInvHandle
  <2>2. CASE Untrusted(handle[h].revision) # {}
    BY <1>4, <2>2, PInvClose DEF Validate
  <2> QED
    BY <2>1, <2>2
<1>5. CASE Close(h)
  BY <1>5, PInvClose DEF Close
<1> QED
  BY <1>1, <1>2, <1>3, <1>4, <1>5 DEF Reader, OpenStep

LEMMA PInvNext ==
    ASSUME TypeOK, SInv, PInv, [Next]_vars
    PROVE  PInv'
<1>1. CASE UNCHANGED vars
  BY <1>1 DEF vars, tableVars, writerVars, PInv, Bounded, Rooted, Trusted,
              OpenedPinned, ClaimedPinned, Opened
<1> QED
  BY <1>1, PInvReader, PInvMachine, PInvWriter DEF Next

LEMMA PInvAlways == Spec => []PInv
BY TypeCorrect, SInvInit, SInvNext, PInvInit, PInvNext, PTL DEF Spec

\* What a read-only handle reaches, and was not free before its claim, is neither
\* freed nor written while it is open, whatever the writer and the other
\* processes do.
THEOREM ReadersPinned == Spec => []ReaderPinned
<1>1. PInv => ReaderPinned
  BY DEF PInv, OpenedPinned, ReaderPinned
<1> QED
  BY <1>1, PInvAlways, PTL

\* No slot that a reader leaves makes a writer distrust the table.
THEOREM WritersTrust == Spec => []WriterTrusts
<1>1. TypeOK /\ PInv => WriterTrusts
  <2> SUFFICES ASSUME TypeOK, PInv PROVE WriterTrusts
    OBVIOUS
  <2>1. \A i \in LiveSlots : slots[i].token # 0 /\ slots[i].revision <= synced.revision
    BY DEF LiveSlots, PInv, Trusted
  <2>2. /\ synced.revision \in Nat /\ revision \in Nat
        /\ \A i \in LiveSlots : slots[i].revision \in Nat
    BY DEF TypeOK, SlotRecord, Revision, LiveSlots
  <2>3. up => synced.revision <= revision
    BY DEF PInv, Bounded
  <2> QED
    BY <2>1, <2>2, <2>3 DEF WriterTrusts, Untrusted, Malformed
<1> QED
  BY <1>1, TypeCorrect, PInvAlways, PTL

\* Types and trust together: in every state the writer can go on reclaiming by the
\* watermark that the table gives it (oldest, validateReaderSlotRevision).
THEOREM TableStaysSound == Spec => []TableSound
<1>1. TypeOK /\ WriterTrusts => TableSound
  BY DEF TableSound
<1> QED
  BY <1>1, TypeCorrect, WritersTrust, PTL

----------------------------------------------------------------------------
(* Who makes validate refuse a reader *)

\* From format 2 on a slot says when its process started, which no later process of
\* this boot repeats.
Clocked ==
    /\ format # 1
    /\ \A p \in Pid \union {0} : start[p] <= clock
    /\ \A i \in Slot : slots[i].active => slots[i].start # 0

\* The slot is dead, and no process that starts in this boot makes it alive.
Gone(i) == slots[i].start <= clock /\ slots[i].start # start[slots[i].pid]

Registered(h) == handle[h].pc \in {"registered", "open"}

\* A slot that is ahead of an open handle is gone, or belongs to another handle.
NewerHeld ==
    \A h \in Handle, i \in Slot :
        Opened(h) /\ slots[i].active /\ slots[i].revision > handle[h].revision =>
            Gone(i) \/ \E g \in Handle : Registered(g) /\ handle[g].slot = i

RInv == Clocked /\ NewerHeld

LEMMA RInvInit ==
    ASSUME 1 \notin Formats, Init
    PROVE  RInv
<1>1. Clocked
  BY DEF Init, Clocked, EmptySlot
<1>2. NewerHeld
  BY DEF Init, NewerHeld, EmptySlot
<1> QED
  BY <1>1, <1>2 DEF RInv

LEMMA RInvWriter ==
    ASSUME TypeOK, RInv, Writer
    PROVE  RInv'
<1>1. UNCHANGED <<machineVars, handle>> /\ format' \in {format, 3}
  BY DEF Writer, WriterOpen, WriterStop, Mutate, Reclaim, CleanStale, Sync, tableVars
<1>2. \E max : slots' = slots \/ slots' = Scanned(max)
  BY DEF Writer, WriterOpen, WriterStop, Mutate, Reclaim, CleanStale, Sync, Reclaim_, tableVars
<1>3. \A i \in Slot : slots'[i].active => slots'[i] = slots[i]
  BY <1>2 DEF Scanned, Cleared, EmptySlot
<1>4. Clocked'
  BY <1>1, <1>3 DEF RInv, Clocked, machineVars
<1>5. NewerHeld'
  <2> SUFFICES ASSUME NEW h \in Handle, NEW i \in Slot, Opened(h)', slots'[i].active,
                      slots'[i].revision > handle'[h].revision
               PROVE  Gone(i)' \/ \E g \in Handle : Registered(g)' /\ handle'[g].slot = i
    BY DEF NewerHeld
  <2>1. Opened(h) /\ slots[i].active /\ slots[i].revision > handle[h].revision
    BY <1>1, <1>3 DEF Opened
  <2>2. Gone(i) \/ \E g \in Handle : Registered(g) /\ handle[g].slot = i
    BY <2>1 DEF RInv, NewerHeld
  <2> QED
    BY <1>1, <1>3, <2>2 DEF Gone, Registered, machineVars
<1> QED
  BY <1>4, <1>5 DEF RInv

LEMMA RInvMachine ==
    ASSUME TypeOK, SInv, RInv, Machine
    PROVE  RInv'
<1>0. /\ clock \in Nat /\ start \in [Pid \union {0} -> Nat]
      /\ \A i \in Slot : slots[i] \in SlotRecord
      /\ \A i \in Slot : slots[i].start \in Nat /\ slots[i].pid \in Pid \union {0}
  BY DEF TypeOK, SlotRecord
<1>1. ASSUME NEW p \in Pid, Start(p)
      PROVE  RInv'
  <2>1. /\ start' = [start EXCEPT ![p] = clock + 1] /\ clock' = clock + 1
        /\ UNCHANGED <<format, slots, handle>>
    BY <1>1 DEF Start, tableVars
  <2>2. Clocked'
    BY <1>0, <2>1 DEF RInv, Clocked
  <2>3. \A i \in Slot : Gone(i) => Gone(i)'
    BY <1>0, <2>1 DEF Gone
  <2>4. \A g \in Handle : Opened(g)' = Opened(g) /\ Registered(g)' = Registered(g)
    BY <2>1 DEF Opened, Registered
  <2>5. NewerHeld'
    BY <2>1, <2>3, <2>4 DEF RInv, NewerHeld
  <2> QED
    BY <2>2, <2>5 DEF RInv
<1>2. ASSUME NEW p \in Pid, Die(p)
      PROVE  RInv'
  <2>1. /\ start' = [start EXCEPT ![p] = 0] /\ UNCHANGED <<format, slots, clock>>
        /\ \A h \in Handle : handle'[h] = IF handle[h].pid = p THEN ClosedHandle ELSE handle[h]
    BY <1>2 DEF Die, tableVars
  <2>2. Clocked'
    BY <1>0, <2>1 DEF RInv, Clocked
  <2>3. \A i \in Slot : slots[i].active /\ Gone(i) => Gone(i)'
    BY <1>0, <2>1 DEF Gone, RInv, Clocked
  <2>4. \A h \in Handle : Opened(h)' => handle'[h] = handle[h] /\ Opened(h)
    BY <2>1 DEF Opened, ClosedHandle
  <2>5. ASSUME NEW g \in Handle, Registered(g), handle[g].pid = p, NEW i \in Slot,
               handle[g].slot = i
        PROVE  Gone(i)'
    <3>1. Running(g)
      BY <2>5 DEF Registered, Running
    <3>2. Holds(g) /\ start[p] # 0
      BY <2>5, <3>1 DEF SInv, HeldAlive
    <3>3. slots[i].pid = p /\ slots[i].start = start[p]
      BY <2>5, <3>2 DEF Holds, Owns, StartMatches, RInv, Clocked
    <3>4. start[p] <= clock /\ start'[p] = 0
      BY <1>0, <2>1 DEF RInv, Clocked
    <3> QED
      BY <2>1, <3>2, <3>3, <3>4 DEF Gone
  <2>6. \A g \in Handle : Registered(g) /\ handle[g].pid # p =>
           Registered(g)' /\ handle'[g].slot = handle[g].slot
    BY <2>1 DEF Registered
  <2>7. NewerHeld'
    <3> SUFFICES ASSUME NEW h \in Handle, NEW i \in Slot, Opened(h)', slots'[i].active,
                        slots'[i].revision > handle'[h].revision
                 PROVE  Gone(i)' \/ \E g \in Handle : Registered(g)' /\ handle'[g].slot = i
      BY DEF NewerHeld
    <3>1. Opened(h) /\ slots[i].active /\ slots[i].revision > handle[h].revision
      BY <2>1, <2>4
    <3>2. Gone(i) \/ \E g \in Handle : Registered(g) /\ handle[g].slot = i
      BY <3>1 DEF RInv, NewerHeld
    <3>3. ASSUME NEW g \in Handle, Registered(g), handle[g].slot = i
          PROVE  Gone(i)' \/ \E f \in Handle : Registered(f)' /\ handle'[f].slot = i
      <4>1. CASE handle[g].pid = p
        BY <2>5, <3>3, <4>1
      <4>2. CASE handle[g].pid # p
        BY <2>6, <3>3, <4>2
      <4> QED
        BY <4>1, <4>2
    <3> QED
      BY <2>3, <3>1, <3>2, <3>3
  <2> QED
    BY <2>2, <2>7 DEF RInv
<1>3. CASE Reboot
  <2>1. /\ start' = [p \in Pid \union {0} |-> 0] /\ clock' = 0
        /\ \A h \in Handle : handle'[h].pc = "closed"
        /\ UNCHANGED <<format, slots>>
    BY <1>3 DEF Reboot, tableVars, ClosedHandle
  <2>2. Clocked'
    BY <2>1 DEF RInv, Clocked
  <2>3. NewerHeld'
    BY <2>1 DEF NewerHeld, Opened
  <2> QED
    BY <2>2, <2>3 DEF RInv
<1> QED
  BY <1>1, <1>2, <1>3 DEF Machine

\* A step of one handle: the slots that it changes are its own, and not ahead of others
\* unless it has registered.
LEMMA RInvHandle ==
    ASSUME TypeOK, RInv, UNCHANGED machineVars, format' # 1, NEW h \in Handle,
           \A g \in Handle \ {h} : handle'[g] = handle[g],
           \A i \in Slot : slots'[i].active => slots'[i].start # 0,
           \A i \in Slot : slots'[i].active /\ slots'[i] # slots[i] =>
              slots'[i].revision = 0 \/ (Registered(h)' /\ handle'[h].slot = i),
           \A i \in Slot : slots'[i].active /\ Registered(h) /\ handle[h].slot = i =>
              Registered(h)' /\ handle'[h].slot = i,
           Opened(h)' => \/ Opened(h) /\ handle'[h].revision = handle[h].revision
                         \/ \A i \in Slot : slots'[i].active => slots'[i].revision <= handle'[h].revision,
           handle'[h].revision \in Nat
    PROVE  RInv'
<1>1. /\ \A i \in Slot : slots'[i].revision = 0 \/ slots'[i] # slots[i] \/ slots[i].revision \in Nat
      /\ \A g \in Handle : handle'[g].revision \in Nat
  BY DEF TypeOK, SlotRecord, HandleRecord, Revision
<1>2. Clocked'
  BY DEF RInv, Clocked, machineVars
<1>3. NewerHeld'
  <2> SUFFICES ASSUME NEW k \in Handle, NEW i \in Slot, Opened(k)', slots'[i].active,
                      slots'[i].revision > handle'[k].revision
               PROVE  Gone(i)' \/ \E g \in Handle : Registered(g)' /\ handle'[g].slot = i
    BY DEF NewerHeld
  <2>1. CASE slots'[i] # slots[i]
    <3>1. slots'[i].revision # 0
      BY <1>1
    <3> QED
      BY <2>1, <3>1
  <2>2. CASE slots'[i] = slots[i]
    <3>1. slots[i].revision \in Nat
      BY DEF TypeOK, SlotRecord, Revision
    <3>2. Opened(k) /\ handle'[k].revision = handle[k].revision
      <4>1. CASE k = h
        BY <1>1, <2>2, <3>1, <4>1
      <4>2. CASE k # h
        BY <4>2 DEF Opened
      <4> QED
        BY <4>1, <4>2
    <3>3. Gone(i) \/ \E g \in Handle : Registered(g) /\ handle[g].slot = i
      BY <2>2, <3>2 DEF RInv, NewerHeld
    <3>4. Gone(i) => Gone(i)'
      BY <2>2 DEF Gone, machineVars
    <3>5. ASSUME NEW g \in Handle, Registered(g), handle[g].slot = i
          PROVE  Registered(g)' /\ handle'[g].slot = i
      <4>1. CASE g = h
        BY <3>5, <4>1
      <4>2. CASE g # h
        BY <3>5, <4>2 DEF Registered
      <4> QED
        BY <4>1, <4>2
    <3> QED
      BY <3>3, <3>4, <3>5
  <2> QED
    BY <2>1, <2>2
<1> QED
  BY <1>2, <1>3 DEF RInv

LEMMA RInvClose ==
    ASSUME TypeOK, SInv, RInv, NEW h \in Handle, Running(h), CloseHandle(h),
           UNCHANGED <<format, machineVars>>
    PROVE  RInv'
<1>1. /\ handle'[h].pc = "closed" /\ handle'[h].revision = 0
      /\ \A g \in Handle \ {h} : handle'[g] = handle[g]
  BY DEF CloseHandle, ClosedHandle, TypeOK
<1>2. handle[h].slot \in Slot /\ slots' = [slots EXCEPT ![handle[h].slot] = Cleared]
  BY DEF SInv, HeldAlive, CloseHandle, Released
<1>3. \A i \in Slot : slots'[i].active => slots'[i] = slots[i] /\ i # handle[h].slot
  BY <1>2 DEF Cleared, EmptySlot, TypeOK
<1>4. ~Opened(h)' /\ format' # 1
  BY <1>1 DEF Opened, RInv, Clocked
<1>5. \A i \in Slot : slots'[i].active => slots'[i].start # 0
  BY <1>3 DEF RInv, Clocked
<1> QED
  BY <1>1, <1>3, <1>4, <1>5, RInvHandle

\* The handle goes on, in the slot that it has.
LEMMA RInvGoto ==
    ASSUME TypeOK, RInv, UNCHANGED <<format, machineVars>>, NEW h \in Handle,
           NEW pc \in {"loaded", "registered", "open"}, NEW root \in Nat, Goto(h, pc, root),
           UNCHANGED slots, Registered(h) => pc # "loaded",
           \/ Opened(h) /\ root = handle[h].revision
           \/ \A i \in Slot : slots[i].active => slots[i].revision <= root
    PROVE  RInv'
<1>1. /\ handle'[h].pc = pc /\ handle'[h].slot = handle[h].slot /\ handle'[h].revision = root
      /\ \A g \in Handle \ {h} : handle'[g] = handle[g]
  BY DEF Goto, TypeOK
<1>2. Registered(h) => Registered(h)'
  BY <1>1 DEF Registered
<1>3. format' # 1 /\ \A i \in Slot : slots'[i].active => slots'[i].start # 0
  BY DEF RInv, Clocked
<1> QED
  BY <1>1, <1>2, <1>3, RInvHandle

LEMMA RInvReader ==
    ASSUME TypeOK, SInv, PInv, RInv, NEW h \in Handle, Reader(h)
    PROVE  RInv'
<1>0. synced.revision \in Nat /\ handle[h].revision \in Nat /\ handle[h] \in HandleRecord
  BY DEF TypeOK, Revision, HandleRecord
<1>1. ASSUME NEW p \in Pid, Claim(h, p)
      PROVE  RInv'
  <2> DEFINE s == [active |-> TRUE, pid |-> p, start |-> start[p], boot |-> boot,
                   revision |-> ProvisionalRevision, token |-> token + 1]
  <2>1. PICK i \in Slot :
           /\ slots' = [slots EXCEPT ![i] = Stored(format', s)]
           /\ handle' = [handle EXCEPT ![h] = [pc |-> "claimed", pid |-> p, slot |-> i,
                                               token |-> token + 1, revision |-> 0]]
    BY <1>1 DEF Claim
  <2>2. /\ start[p] # 0 /\ ~Registered(h) /\ format' = (IF format = 0 THEN 3 ELSE format)
        /\ UNCHANGED machineVars
    BY <1>1 DEF Claim, Registered
  <2>3. format' # 1 /\ format' >= 2
    BY <2>2 DEF RInv, Clocked, TypeOK
  <2>4. /\ handle'[h].pc = "claimed" /\ handle'[h].revision = 0
        /\ \A g \in Handle \ {h} : handle'[g] = handle[g]
    BY <2>1 DEF TypeOK
  <2>5. /\ slots'[i].start = start[p] /\ slots'[i].revision = 0
        /\ \A j \in Slot \ {i} : slots'[j] = slots[j]
    BY <2>1, <2>3 DEF Stored, ProvisionalRevision, TypeOK
  <2>6. \A j \in Slot : slots'[j].active => slots'[j].start # 0
    BY <2>2, <2>5 DEF RInv, Clocked
  <2>7. ~Opened(h)'
    BY <2>4 DEF Opened
  <2> QED
    BY <2>2, <2>3, <2>4, <2>5, <2>6, <2>7, RInvHandle
<1>2. CASE LoadMeta(h)
  <2>1. Running(h) /\ ~Registered(h) /\ UNCHANGED <<format, machineVars>>
    BY <1>2 DEF LoadMeta, Running, Registered
  <2>2. CASE Intact(synced.revision)
    <3>1. Goto(h, "loaded", synced.revision) /\ UNCHANGED slots
      BY <1>2, <2>2 DEF LoadMeta
    <3>2. \A i \in Slot : slots[i].active => slots[i].revision <= synced.revision
      BY DEF PInv, Trusted
    <3> QED
      BY <1>0, <2>1, <3>1, <3>2, RInvGoto
  <2>3. CASE ~Intact(synced.revision)
    BY <1>2, <2>1, <2>3, RInvClose DEF LoadMeta
  <2> QED
    BY <2>2, <2>3
<1>3. CASE UpdateRevision(h)
  <2>1. Opened(h) /\ ~Registered(h) /\ Holds(h) /\ handle[h].slot \in Slot
    BY <1>3 DEF UpdateRevision, Opened, Registered, SInv, HeldAlive, Running
  <2>2. /\ slots' = [slots EXCEPT ![handle[h].slot] =
                         WithRevision(slots[handle[h].slot], handle[h].revision)]
        /\ Goto(h, "registered", handle[h].revision)
        /\ UNCHANGED <<format, machineVars>>
    BY <1>3, <2>1 DEF UpdateRevision
  <2>3. /\ handle'[h].pc = "registered" /\ handle'[h].revision = handle[h].revision
        /\ handle'[h].slot = handle[h].slot
        /\ \A g \in Handle \ {h} : handle'[g] = handle[g]
    BY <2>2 DEF Goto, TypeOK
  <2>4. /\ slots'[handle[h].slot].start = slots[handle[h].slot].start
        /\ slots[handle[h].slot].active
        /\ \A j \in Slot \ {handle[h].slot} : slots'[j] = slots[j]
    BY <2>1, <2>2 DEF WithRevision, TypeOK, Holds
  <2>5. \A j \in Slot : slots'[j].active => slots'[j].start # 0
    BY <2>1, <2>4 DEF RInv, Clocked
  <2>6. Registered(h)' /\ format' # 1
    BY <2>2, <2>3 DEF Registered, RInv, Clocked
  <2> QED
    BY <1>0, <2>1, <2>2, <2>3, <2>4, <2>5, <2>6, RInvHandle
<1>4. CASE Validate(h)
  <2>1. Running(h) /\ Opened(h) /\ UNCHANGED <<format, machineVars>>
    BY <1>4 DEF Validate, Running, Opened
  <2>2. CASE Untrusted(handle[h].revision) = {}
    <3>1. Goto(h, "open", handle[h].revision) /\ UNCHANGED slots
      BY <1>4, <2>2 DEF Validate
    <3> QED
      BY <1>0, <2>1, <3>1, RInvGoto
  <2>3. CASE Untrusted(handle[h].revision) # {}
    BY <1>4, <2>1, <2>3, RInvClose DEF Validate
  <2> QED
    BY <2>2, <2>3
<1>5. CASE Close(h)
  <2>1. Running(h) /\ CloseHandle(h) /\ UNCHANGED <<format, machineVars>>
    BY <1>5 DEF Close, Running
  <2> QED
    BY <2>1, RInvClose
<1> QED
  BY <1>1, <1>2, <1>3, <1>4, <1>5 DEF Reader, OpenStep

LEMMA RInvNext ==
    ASSUME TypeOK, SInv, PInv, RInv, [Next]_vars
    PROVE  RInv'
<1>1. CASE UNCHANGED vars
  <2>1. UNCHANGED <<format, slots, start, clock, handle>>
    BY <1>1 DEF vars, tableVars, machineVars
  <2> QED
    BY <2>1 DEF RInv, Clocked, NewerHeld, Gone, Registered, Opened
<1> QED
  BY <1>1, RInvReader, RInvMachine, RInvWriter DEF Next

\* The slot that validate does not trust is live, so that a handle holds it.
LEMMA RefusedByNewer ==
    ASSUME TypeOK, SInv, PInv, RInv, NEW h \in Handle, handle[h].pc = "registered",
           Validate(h), handle'[h].pc = "closed"
    PROVE  \E g \in Handle \ {h} : /\ handle[g].pc \in {"registered", "open"}
                                   /\ handle[g].revision > handle[h].revision
<1>1. Opened(h) /\ Running(h)
  BY DEF Opened, Running
<1>2. Untrusted(handle[h].revision) # {}
  <2> SUFFICES ASSUME Untrusted(handle[h].revision) = {} PROVE FALSE
    OBVIOUS
  <2>1. Goto(h, "open", handle[h].revision)
    BY DEF Validate
  <2>2. handle'[h].pc = "open"
    BY <2>1 DEF Goto, TypeOK
  <2> QED
    BY <2>2
<1>3. PICK i \in Slot : slots[i].active /\ Alive(slots[i]) /\ Malformed(i, handle[h].revision)
  BY <1>2 DEF Untrusted, LiveSlots
<1>4. slots[i].token # 0 /\ slots[i].revision > handle[h].revision
  BY <1>3 DEF PInv, Trusted, Malformed
<1>5. ~Gone(i)
  BY <1>3 DEF Gone, Alive, StartMatches, RInv, Clocked
<1>6. PICK g \in Handle : Registered(g) /\ handle[g].slot = i
  BY <1>1, <1>3, <1>4, <1>5 DEF RInv, NewerHeld
<1>7. slots[i].revision = handle[g].revision
  BY <1>6 DEF SInv, SlotRevision, Registered, Running
<1>8. handle[g].revision > handle[h].revision /\ handle[h].revision \in Nat
  BY <1>4, <1>7 DEF TypeOK, HandleRecord, Revision
<1>9. g # h
  BY <1>8
<1> QED
  BY <1>6, <1>8, <1>9 DEF Registered

\* validate refuses a reader only because another reader, live and of a newer root, has
\* registered since the first one chose its root: no slot that a dead process left behind
\* does that, whoever has its process id now, even in the tables of format 2, which do not
\* tell boots apart (reader_table_unix.go validate, readerSlotAlive).  A table of format 1
\* has no start times, and a reused process id revives its slots.
THEOREM RefusalsByNewer ==
    ASSUME 1 \notin Formats
    PROVE  Spec => RefusedByNewerOnly
<1>1. Init => RInv
  BY RInvInit
<1>2. TypeOK /\ SInv /\ PInv /\ RInv /\ [Next]_vars => RInv'
  BY RInvNext
<1>3. TypeOK /\ SInv /\ PInv /\ RInv /\ [Next]_vars =>
         [\A h \in Handle :
            handle[h].pc = "registered" /\ Validate(h) /\ handle'[h].pc = "closed"
                => \E g \in Handle \ {h} :
                     /\ handle[g].pc \in {"registered", "open"}
                     /\ handle[g].revision > handle[h].revision]_vars
  BY RefusedByNewer
<1> QED
  BY <1>1, <1>2, <1>3, TypeCorrect, SInvInit, SInvNext, PInvAlways, PTL DEF Spec, RefusedByNewerOnly
=============================================================================
