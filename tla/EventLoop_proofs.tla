-------------------------- MODULE EventLoop_proofs --------------------------
(***************************************************************************)
(* Proofs about EventLoop, for any number of keys, slots, buffers and stop *)
(* fds and any ring size, full queues and failing polls included.          *)
(*                                                                         *)
(* No safety property of the loop is inductive by itself: that a slot has  *)
(* no stale operation needs the index (a packet only reaches a live flow), *)
(* the free list (a new flow only gets an empty slot) and the work lists   *)
(* of the timer (a listed flow is still there when its turn comes).  Core  *)
(* is the part about table and ring, which the fragments that handlers are *)
(* made of preserve; IInv adds what the loop itself remembers.             *)
(***************************************************************************)
EXTENDS EventLoop, TLAPS

\* A vacated slot is empty.
FreeIsEmpty == \A s \in free : ~Present(s)

TableInv == TableTypeOK /\ FreeIsEmpty /\ KeyIndexExact /\ BufferOwnership
OpsInv == RingTypeOK /\ NoStaleCompletion /\ CancelHitsClosing
Core == TableInv /\ OpsInv

\* The loop's own state: what is still to be done concerns live flows.
LoopInv ==
    /\ pc \in {"start", "loop", "udp", "tap", "periodic", "expire",
               "stopped", "failed"}
    /\ frame \in Keys \cup {NoKey}
    /\ pc = "udp" => frame \in UdpKeys
    /\ todo \in SUBSET Slots
    /\ \A s \in todo : Live(s)
    /\ pc \notin {"periodic", "expire"} => todo = {}
    /\ pc = "periodic" => \A s \in todo : IsTcp(flows[s])

IInv == Core /\ LoopInv

\* f is a later version of the flow in slot id.
SameFlow(id, f) ==
    /\ f \in Flow
    /\ f.key = flows[id].key /\ f.buf = flows[id].buf
    /\ f.closing = flows[id].closing

-----------------------------------------------------------------------------
(* The table's operations                                                  *)

\* Remove empties the slot, leaves every other slot alone and keeps the
\* table consistent (FlowTable::remove with pool.free).
LEMMA RemoveTable ==
    ASSUME TableInv, NEW id \in Slots, Present(id), Remove(id)
    PROVE  /\ TableInv'
           /\ ~Present(id)'
           /\ \A s \in Slots : s # id => flows'[s] = flows[s]
<1> USE DEF Present
<1>1. flows' = [flows EXCEPT ![id] = NoFlow] /\ free' = free \cup {id}
      /\ by_key' = Unindexed(id) /\ pool' = [pool EXCEPT ![flows[id].buf] = @ + 1]
  BY DEF Remove, Free
<1>2. flows[id] \in Flow /\ flows[id].buf \in Bufs /\ flows[id].key \in Keys
  BY DEF TableInv, TableTypeOK, Flow
<1>3. TableTypeOK'
  BY <1>1, <1>2 DEF TableInv, TableTypeOK, Unindexed
<1>4. FreeIsEmpty'
  BY <1>1 DEF TableInv, TableTypeOK, FreeIsEmpty
<1>5. KeyIndexExact'
  BY <1>1, <1>2, SlotsAssumption DEF TableInv, TableTypeOK, KeyIndexExact, Unindexed, Live, Flow
<1>6. BufferOwnership'
  BY <1>1, <1>2, BufsAssumption DEF TableInv, TableTypeOK, BufferOwnership, Flow
<1> QED BY <1>1, <1>3, <1>4, <1>5, <1>6 DEF TableInv, TableTypeOK

\* mark_closing takes the flow out of the index and nothing else.
LEMMA MarkClosingTable ==
    ASSUME TableInv, NEW id \in Slots, NEW f, Live(id), SameFlow(id, f),
           MarkClosing(id, f)
    PROVE  /\ TableInv'
           /\ Present(id)' /\ flows'[id].closing /\ flows'[id].key = f.key
           /\ flows'[id].poll_armed = f.poll_armed
           /\ \A s \in Slots : s # id => flows'[s] = flows[s]
<1> USE DEF Present, Live
<1> DEFINE g == [f EXCEPT !.closing = TRUE]
<1>1. /\ flows' = [flows EXCEPT ![id] = g] /\ by_key' = Unindexed(id)
      /\ free' = free /\ pool' = pool
  BY DEF MarkClosing
<1>2. /\ g \in Flow /\ g.closing /\ g.key = f.key /\ g.buf = f.buf
      /\ g.poll_armed = f.poll_armed
  BY DEF SameFlow, Flow
<1>3. g # NoFlow /\ flows[id] # NoFlow
  BY <1>2, NoFlowAssumption
<1>4. f.key = flows[id].key /\ f.buf = flows[id].buf /\ f.key \in Keys /\ f.buf \in Bufs
  BY DEF SameFlow, Flow
<1> HIDE DEF g
<1>5. TableTypeOK'
  BY <1>1, <1>2 DEF TableInv, TableTypeOK, Unindexed
<1>6. FreeIsEmpty'
  BY <1>1, <1>3 DEF TableInv, TableTypeOK, FreeIsEmpty
<1>7. KeyIndexExact'
  BY <1>1, <1>2, <1>3, <1>4, SlotsAssumption
     DEF TableInv, TableTypeOK, KeyIndexExact, Unindexed, Flow
<1>8. BufferOwnership'
  BY <1>1, <1>2, <1>3, <1>4, BufsAssumption DEF TableInv, TableTypeOK, BufferOwnership, Flow
<1> QED BY <1>1, <1>2, <1>3, <1>5, <1>6, <1>7, <1>8 DEF TableInv, TableTypeOK

\* Changing state or poll_armed of a live flow leaves the table consistent.
LEMMA SetFlowTable ==
    ASSUME TableInv, NEW id \in Slots, NEW f, Live(id), SameFlow(id, f),
           SetFlow(id, f)
    PROVE  /\ TableInv'
           /\ Live(id)' /\ flows'[id] = f
           /\ \A s \in Slots : s # id => flows'[s] = flows[s]
<1> USE DEF Present, Live
<1>1. /\ flows' = [flows EXCEPT ![id] = f] /\ by_key' = by_key
      /\ free' = free /\ pool' = pool
  BY DEF SetFlow
<1>2. /\ f \in Flow /\ ~f.closing /\ f.key = flows[id].key /\ f.buf = flows[id].buf
      /\ f # NoFlow /\ flows[id] # NoFlow /\ f.key \in Keys /\ f.buf \in Bufs
  BY NoFlowAssumption DEF SameFlow, Flow
<1>3. TableTypeOK'
  BY <1>1, <1>2 DEF TableInv, TableTypeOK
<1>4. FreeIsEmpty'
  BY <1>1, <1>2 DEF TableInv, TableTypeOK, FreeIsEmpty
<1>5. KeyIndexExact'
  BY <1>1, <1>2, SlotsAssumption DEF TableInv, TableTypeOK, KeyIndexExact, Flow
<1>6. BufferOwnership'
  BY <1>1, <1>2, BufsAssumption DEF TableInv, TableTypeOK, BufferOwnership, Flow
<1> QED BY <1>1, <1>2, <1>3, <1>4, <1>5, <1>6 DEF TableInv, TableTypeOK

\* A new flow gets an empty slot and a buffer nobody holds
\* (FlowTable::insert with pool.alloc).
LEMMA InsertTable ==
    ASSUME TableInv, NEW id \in InsertSlots, NEW f \in Flow,
           f.buf \in FreeBufs, ~f.closing, by_key[f.key] = NoSlot,
           Alloc(f.buf), Insert(id, f)
    PROVE  /\ TableInv'
           /\ id \in Slots /\ ~Present(id)
           /\ Live(id)' /\ flows'[id] = f
           /\ \A s \in Slots : s # id => flows'[s] = flows[s]
<1> USE DEF Present, Live
<1>1. /\ flows' = [flows EXCEPT ![id] = f] /\ free' = free \ {id}
      /\ by_key' = [by_key EXCEPT ![f.key] = id]
      /\ pool' = [pool EXCEPT ![f.buf] = @ - 1]
  BY DEF Alloc, Insert
<1>2. f # NoFlow /\ f.key \in Keys /\ f.buf \in Bufs
  BY NoFlowAssumption DEF Flow
<1>3. id \in Slots /\ flows[id] = NoFlow
  BY DEF InsertSlots, Slab, TableInv, TableTypeOK, FreeIsEmpty
<1>4. pool[f.buf] = 1 /\ pool'[f.buf] = 0 /\ f.buf # TapBuf
  BY <1>1, <1>2 DEF TableInv, TableTypeOK, FreeBufs, BufferOwnership
<1>5. TableTypeOK'
  BY <1>1, <1>2, <1>3, <1>4 DEF TableInv, TableTypeOK
<1>6. FreeIsEmpty'
  BY <1>1, <1>3 DEF TableInv, TableTypeOK, FreeIsEmpty
<1>7. KeyIndexExact'
  BY <1>1, <1>2, <1>3, SlotsAssumption DEF TableInv, TableTypeOK, KeyIndexExact, Flow
<1>8. BufferOwnership'
  BY <1>1, <1>2, <1>3, <1>4, BufsAssumption DEF TableInv, TableTypeOK, BufferOwnership, Flow
<1> QED BY <1>1, <1>2, <1>3, <1>5, <1>6, <1>7, <1>8 DEF TableInv, TableTypeOK

-----------------------------------------------------------------------------
(* The fragments of the loop's handlers                                    *)

\* The handler has at most taken a completion off the batch.
Taken == cqe' \in [UserData -> Nat] /\ \A s \in Slots : cqe'[s] <= cqe[s]

\* Operations of slot s that are left once the handler has taken its own.
Left(s) == sqArm[s] + kern[s] + cqe'[s]

\* Every push, successful or not, keeps the ring's counters natural.
LEMMA PushType ==
    ASSUME RingTypeOK, Taken, NEW u \in UserData,
           NoPush \/ PushFull \/ PushOp(u) \/ (u \in Slots /\ PushCancel(u))
    PROVE  RingTypeOK'
<1>1. /\ sqArm' \in [UserData -> Nat] /\ sqCancel' \in [Slots -> Nat]
      /\ kern' \in [UserData -> Nat] /\ cqe' \in [UserData -> Nat]
  BY DEF RingTypeOK, Taken, NoPush, PushFull, PushOp, PushCancel
<1>2. canceled' \in [Slots -> BOOLEAN]
  <2>1. CASE canceled' = canceled
    BY <2>1 DEF RingTypeOK
  <2>2. CASE u \in Slots /\ canceled' = [canceled EXCEPT
                             ![u] = @ \/ sqArm[u] + kern[u] > 0]
    BY <2>2 DEF RingTypeOK
  <2> QED BY <2>1, <2>2 DEF NoPush, PushFull, PushOp, PushCancel
<1>3. sqFull' = sqFull \/ sqFull' = TRUE
  BY DEF NoPush, PushFull, PushOp, PushCancel
<1>4. sqFull' \in BOOLEAN
  BY <1>3, Zenon DEF RingTypeOK
<1> QED BY <1>1, <1>2, <1>4 DEF RingTypeOK

\* A handler that changes neither table nor ring.
LEMMA IdleCore ==
    ASSUME Core, Taken, UNCHANGED tableVars, NoPush
    PROVE  Core'
<1>1. TableInv'
  BY DEF Core, tableVars, TableInv, TableTypeOK, FreeIsEmpty, KeyIndexExact,
         BufferOwnership, Present, Live
<1>2. RingTypeOK'
  BY DEF Core, OpsInv, RingTypeOK, NoPush, Taken
<1>3. Slots \subseteq UserData
  BY DEF UserData
<1>4. \A s \in Slots : Pending(s)' <= Pending(s) /\ Pending(s)' \in Nat /\ Pending(s) \in Nat
  BY <1>2, <1>3 DEF Core, OpsInv, RingTypeOK, NoPush, Taken, Pending
<1>5. NoStaleCompletion'
  BY <1>4 DEF Core, OpsInv, tableVars, NoStaleCompletion, Present, IsTcp
<1>6. CancelHitsClosing'
  BY DEF Core, OpsInv, NoPush, tableVars, CancelHitsClosing, Present
<1> QED BY <1>1, <1>2, <1>5, <1>6 DEF Core, OpsInv

\* remove_flow: the slot is emptied only when no operation of it is left,
\* otherwise the flow stays, closing, until that operation completes.
LEMMA RemoveFlowCore ==
    ASSUME Core, Taken, NEW id \in Slots, NEW f, Live(id), SameFlow(id, f),
           IsTcp(f) /\ ~f.poll_armed => Left(id) = 0,
           RemoveFlow(id, f)
    PROVE  /\ Core'
           /\ \A s \in Slots : s # id => flows'[s] = flows[s]
<1>0. Slots \subseteq UserData
  BY DEF UserData
<1>1. CASE ~IsTcp(f) \/ f.poll_armed
  <2>1. MarkClosing(id, f) /\ PushCancel(id)
    BY <1>1 DEF RemoveFlow
  <2>2. /\ TableInv' /\ Present(id)' /\ flows'[id].closing /\ flows'[id].key = f.key
        /\ flows'[id].poll_armed = f.poll_armed
        /\ \A s \in Slots : s # id => flows'[s] = flows[s]
    BY <2>1, MarkClosingTable DEF Core
  <2>3. RingTypeOK'
    BY <2>1, <1>0, PushType DEF Core, OpsInv
  <2>4. \A s \in Slots : Pending(s)' <= Pending(s)
    BY <2>1, <1>0 DEF PushCancel, Core, OpsInv, RingTypeOK, Taken, Pending
  <2>5. \A s \in Slots : Pending(s)' \in Nat /\ Pending(s) \in Nat
    BY <2>3, <1>0 DEF Core, OpsInv, RingTypeOK, Pending
  <2>6. NoStaleCompletion'
    BY <1>1, <2>2, <2>4, <2>5 DEF Core, OpsInv, NoStaleCompletion, IsTcp, Present
  <2>7. CancelHitsClosing'
    BY <2>1, <2>2 DEF Core, OpsInv, RingTypeOK, CancelHitsClosing, PushCancel, Present
  <2> QED BY <2>2, <2>3, <2>6, <2>7 DEF Core, OpsInv
<1>2. CASE IsTcp(f) /\ ~f.poll_armed
  <2>1. Remove(id) /\ NoPush /\ Left(id) = 0
    BY <1>2 DEF RemoveFlow
  <2>2. TableInv' /\ ~Present(id)' /\ \A s \in Slots : s # id => flows'[s] = flows[s]
    BY <2>1, RemoveTable DEF Core, Live
  <2>3. RingTypeOK'
    BY <2>1 DEF NoPush, Core, OpsInv, RingTypeOK, Taken
  <2>4. /\ Pending(id)' = 0
        /\ \A s \in Slots : Pending(s)' <= Pending(s)
    BY <2>1, <1>0 DEF NoPush, Core, OpsInv, RingTypeOK, Taken, Pending, Left
  <2>5. \A s \in Slots : Pending(s)' \in Nat /\ Pending(s) \in Nat
    BY <2>3, <1>0 DEF Core, OpsInv, RingTypeOK, Pending
  <2>6. NoStaleCompletion'
    BY <2>2, <2>4, <2>5 DEF Core, OpsInv, NoStaleCompletion, IsTcp, Present
  <2>7. CancelHitsClosing'
    BY <2>1, <2>2 DEF Core, OpsInv, CancelHitsClosing, NoPush, Present, Live
  <2> QED BY <2>2, <2>3, <2>6, <2>7 DEF Core, OpsInv
<1> QED BY <1>1, <1>2

\* SetFlow and a push, or none: poll_armed covers what is pushed.
LEMMA SetFlowCore ==
    ASSUME Core, Taken, NEW id \in Slots, NEW f, Live(id), SameFlow(id, f),
           IsTcp(f), SetFlow(id, f),
           \/ NoPush /\ (~f.poll_armed => Left(id) = 0)
           \/ PushFull /\ (~f.poll_armed => Left(id) = 0)
           \/ PushOp(id) /\ f.poll_armed /\ Left(id) = 0
    PROVE  /\ Core'
           /\ \A s \in Slots : s # id => flows'[s] = flows[s]
<1>0. Slots \subseteq UserData
  BY DEF UserData
<1>1. TableInv' /\ Live(id)' /\ flows'[id] = f
      /\ \A s \in Slots : s # id => flows'[s] = flows[s]
  BY SetFlowTable DEF Core
<1>2. RingTypeOK'
  BY <1>0, PushType DEF Core, OpsInv
<1>3. /\ \A s \in Slots : s # id => Pending(s)' <= Pending(s)
      /\ Pending(id)' <= 1
      /\ Pending(id)' = 1 => f.poll_armed
  BY <1>0 DEF NoPush, PushFull, PushOp, Core, OpsInv, RingTypeOK, Taken, Pending, Left,
              NoStaleCompletion
<1>4. \A s \in Slots : Pending(s)' \in Nat /\ Pending(s) \in Nat
  BY <1>2, <1>0 DEF Core, OpsInv, RingTypeOK, Pending
<1>5. NoStaleCompletion'
  BY <1>1, <1>3, <1>4 DEF Core, OpsInv, NoStaleCompletion, IsTcp, Present, Live
<1>6. CancelHitsClosing'
  BY <1>1 DEF Core, OpsInv, CancelHitsClosing, NoPush, PushFull, PushOp, Present, Live
<1> QED BY <1>1, <1>2, <1>5, <1>6 DEF Core, OpsInv

\* tcp_data_to_guest, as far as table and ring are concerned.
LEMMA TcpDataToGuestCore ==
    ASSUME Core, Taken, NEW id \in Slots, NEW f, Live(id), SameFlow(id, f),
           IsTcp(f), ~f.poll_armed => Left(id) = 0,
           TcpDataToGuest(id, f)
    PROVE  /\ Core'
           /\ \A s \in Slots : s # id => flows'[s] = flows[s]
<1>1. CASE SetFlow(id, f) /\ NoPush
  BY <1>1, SetFlowCore
<1>2. CASE ~f.poll_armed /\ ArmPoll(id, f)
  <2> DEFINE g == [f EXCEPT !.poll_armed = TRUE]
  <2>1. SameFlow(id, g) /\ g.poll_armed /\ IsTcp(g)
    BY DEF SameFlow, Flow, IsTcp
  <2>2. SetFlow(id, g) /\ (PushOp(id) \/ PushFull)
    BY <1>2 DEF ArmPoll
  <2> HIDE DEF g
  <2> QED BY <1>2, <2>1, <2>2, SetFlowCore
<1>3. CASE RemoveFlow(id, f)
  BY <1>3, RemoveFlowCore
<1> QED BY <1>1, <1>2, <1>3 DEF TcpDataToGuest

\* new_flow and new_tcp_flow: refused, inserted with its first operation
\* armed, undone because the queue is full, or an older flow evicted.
LEMMA NewFlowCore ==
    ASSUME Core, Taken, NEW k \in Keys, by_key[k] = NoSlot,
           \A s \in Slots : cqe'[s] = cqe[s],
           NewFlow(k)
    PROVE  Core'
<1>0. Slots \subseteq UserData
  BY DEF UserData
<1>1. CASE UNCHANGED tableVars /\ NoPush
  BY <1>1, IdleCore
<1>2. ASSUME NEW b \in FreeBufs, NEW id \in InsertSlots,
             PushOp(id), Alloc(b), Insert(id, FreshFlow(k, b))
      PROVE  Core'
  <2> DEFINE g == FreshFlow(k, b)
  <2>1. g \in Flow /\ g.buf = b /\ g.key = k /\ ~g.closing
    BY DEF FreshFlow, Flow, FreeBufs
  <2>a. g.key \in TcpKeys => g.poll_armed
    BY DEF FreshFlow
  <2>2. Alloc(g.buf) /\ Insert(id, g)
    BY <1>2, <2>1
  <2> HIDE DEF g
  <2>3. /\ TableInv' /\ id \in Slots /\ ~Present(id) /\ Live(id)' /\ flows'[id] = g
        /\ \A s \in Slots : s # id => flows'[s] = flows[s]
    BY <2>1, <2>2, InsertTable DEF Core
  <2>4. RingTypeOK'
    BY <1>0, <1>2, <2>3, PushType DEF Core, OpsInv
  <2>5. \A s \in Slots : Pending(s) \in Nat
    BY <1>0 DEF Core, OpsInv, RingTypeOK, Pending
  <2>6. Pending(id) = 0
    BY <2>3, <2>5 DEF Core, OpsInv, NoStaleCompletion
  <2>7. Pending(id)' = 1 /\ \A s \in Slots : s # id => Pending(s)' = Pending(s)
    BY <1>0, <1>2, <2>3, <2>6 DEF PushOp, Core, OpsInv, RingTypeOK, Pending
  <2>8. NoStaleCompletion'
    BY <2>a, <2>3, <2>7 DEF Core, OpsInv, NoStaleCompletion, IsTcp, Present, Live
  <2>9. CancelHitsClosing'
    BY <1>2, <2>3 DEF PushOp, Core, OpsInv, CancelHitsClosing, Present
  <2> QED BY <2>3, <2>4, <2>8, <2>9 DEF Core, OpsInv
<1>3. ASSUME NEW id \in InsertSlots, PushFull, free' = free \cup {id},
             UNCHANGED <<flows, by_key, pool>>
      PROVE  Core'
  <2>1. id \in Slots /\ ~Present(id)
    BY DEF InsertSlots, Slab, Core, TableInv, TableTypeOK, FreeIsEmpty, Present
  <2>2. TableInv'
    BY <1>3, <2>1 DEF Core, TableInv, TableTypeOK, FreeIsEmpty, KeyIndexExact,
         BufferOwnership, Present, Live
  <2>3. RingTypeOK'
    BY <1>0, <1>3, <2>1, PushType DEF Core, OpsInv
  <2>4. \A s \in Slots : Pending(s)' = Pending(s)
    BY <1>3 DEF PushFull, Pending
  <2>5. NoStaleCompletion'
    BY <1>3, <2>4 DEF Core, OpsInv, NoStaleCompletion, IsTcp, Present
  <2>6. CancelHitsClosing'
    BY <1>3 DEF PushFull, Core, OpsInv, CancelHitsClosing, Present
  <2> QED BY <2>2, <2>3, <2>5, <2>6 DEF Core, OpsInv
<1>4. ASSUME NEW id \in LruEvictable, RemoveFlow(id, flows[id])
      PROVE  Core'
  <2>1. id \in Slots /\ Live(id) /\ ~IsTcp(flows[id])
    BY DEF LruEvictable
  <2>2. SameFlow(id, flows[id])
    BY <2>1 DEF SameFlow, Core, TableInv, TableTypeOK, Live, Present
  <2> QED BY <1>4, <2>1, <2>2, RemoveFlowCore
<1> QED BY <1>1, <1>2, <1>3, <1>4 DEF NewFlow

\* Re-arming one of the loop's own operations touches no flow.
LEMMA ResubmitCore ==
    ASSUME Core, NEW u \in {Tap, Timer}, UNCHANGED <<tableVars, cqe>>,
           PushOp(u) \/ PushFull
    PROVE  Core'
<1>0. Slots \subseteq UserData /\ u \in UserData /\ u \notin Slots
  BY UserDataAssumption DEF UserData
<1>1. Taken
  BY <1>0 DEF Taken, Core, OpsInv, RingTypeOK
<1>2. TableInv'
  BY DEF Core, tableVars, TableInv, TableTypeOK, FreeIsEmpty, KeyIndexExact,
         BufferOwnership, Present, Live
<1>3. RingTypeOK'
  BY <1>0, <1>1, PushType DEF Core, OpsInv
<1>4. \A s \in Slots : Pending(s)' = Pending(s)
  BY <1>0 DEF PushFull, PushOp, Pending, Core, OpsInv, RingTypeOK
<1>5. NoStaleCompletion'
  BY <1>4 DEF Core, OpsInv, tableVars, NoStaleCompletion, Present, IsTcp
<1>6. CancelHitsClosing'
  BY DEF Core, OpsInv, PushFull, PushOp, tableVars, CancelHitsClosing, Present
<1> QED BY <1>2, <1>3, <1>5, <1>6 DEF Core, OpsInv

\* submit_and_wait moves operations along and loses or doubles none.
LEMMA CompleteCore ==
    ASSUME Core, NEW done \in SUBSET UserData, BatchHandled, Complete(done),
           UNCHANGED tableVars
    PROVE  Core'
<1>0. Slots \subseteq UserData
  BY DEF UserData
<1>1. TableInv'
  BY DEF Core, tableVars, TableInv, TableTypeOK, FreeIsEmpty, KeyIndexExact,
         BufferOwnership, Present, Live
<1>2. RingTypeOK'
  BY DEF Core, OpsInv, RingTypeOK, Complete
<1>3. \A s \in Slots : Pending(s)' = Pending(s)
  BY <1>0 DEF Core, OpsInv, RingTypeOK, Complete, BatchHandled, Pending
<1>4. NoStaleCompletion'
  BY <1>3 DEF Core, OpsInv, tableVars, NoStaleCompletion, Present, IsTcp
<1>5. CancelHitsClosing'
  BY DEF Core, OpsInv, Complete, tableVars, CancelHitsClosing, Present
<1> QED BY <1>1, <1>2, <1>4, <1>5 DEF Core, OpsInv

-----------------------------------------------------------------------------
(* The loop                                                                *)

\* Taking a completion of user_data u leaves one operation less under u and
\* the others alone.
LEMMA TakeOne ==
    ASSUME Core, NEW u \in UserData, Take(u)
    PROVE  /\ Taken
           /\ \A s \in Slots : s # u => cqe'[s] = cqe[s]
           /\ u \in Slots => Left(u) = 0 /\ Pending(u) = 1
<1>0. Slots \subseteq UserData
  BY DEF UserData
<1>1. Taken /\ \A s \in Slots : s # u => cqe'[s] = cqe[s]
  BY <1>0 DEF Core, OpsInv, RingTypeOK, Take, Taken
<1>2. u \in Slots => Left(u) = 0 /\ Pending(u) = 1
  BY DEF Core, OpsInv, RingTypeOK, Take, Left, Pending, NoStaleCompletion
<1> QED BY <1>1, <1>2

\* A live flow without an armed poll has no operation.
LEMMA UnarmedIsIdle ==
    ASSUME Core, NEW id \in Slots, Live(id), IsTcp(flows[id]),
           ~flows[id].poll_armed
    PROVE  Pending(id) = 0
<1>1. Pending(id) \in Nat
  BY DEF Core, OpsInv, RingTypeOK, Pending, UserData
<1> QED BY <1>1 DEF Core, OpsInv, NoStaleCompletion

\* The flow in a live slot, unchanged, is a legal next value of that slot.
LEMMA LiveSameFlow ==
    ASSUME Core, NEW id \in Slots, Live(id)
    PROVE  SameFlow(id, flows[id])
BY DEF SameFlow, Core, TableInv, TableTypeOK, Live, Present

\* A segment for an indexed flow, whatever it leads to.
LEMMA TcpFromGuestCore ==
    ASSUME Core, Taken, NEW k \in TcpKeys, by_key[k] # NoSlot,
           \A s \in Slots : cqe'[s] = cqe[s], TcpFromGuest(by_key[k])
    PROVE  Core'
<1> DEFINE id == by_key[k]
<1>1. id \in Slots /\ Live(id) /\ IsTcp(flows[id])
  BY DEF Core, TableInv, TableTypeOK, KeyIndexExact, IsTcp, Keys
<1>2. SameFlow(id, flows[id])
  BY <1>1, LiveSameFlow
<1>3. ~flows[id].poll_armed => Left(id) = 0
  BY <1>1, UnarmedIsIdle DEF Left, Pending
<1>4. TcpFromGuest(id)
  OBVIOUS
<1> HIDE DEF id
<1>5. CASE RemoveFlow(id, flows[id])
  BY <1>1, <1>2, <1>3, <1>5, RemoveFlowCore
<1>6. CASE UNCHANGED tableVars /\ NoPush
  BY <1>6, IdleCore
<1>7. CASE TcpDataToGuest(id, flows[id])
  BY <1>1, <1>2, <1>3, <1>7, TcpDataToGuestCore
<1> QED BY <1>4, <1>5, <1>6, <1>7 DEF TcpFromGuest

\* One datagram of the guest.
LEMMA ForwardCore ==
    ASSUME Core, Taken, NEW k \in DgramKeys, \A s \in Slots : cqe'[s] = cqe[s],
           Forward(k)
    PROVE  Core'
<1>1. CASE by_key[k] # NoSlot
  BY <1>1, IdleCore DEF Forward
<1>2. CASE by_key[k] = NoSlot
  <2>1. k \in Keys /\ NewFlow(k)
    BY <1>2 DEF Forward, Keys
  <2> QED BY <1>2, <2>1, NewFlowCore
<1> QED BY <1>1, <1>2

\* tcp_socket_ready: poll_armed is cleared because its operation is gone.
LEMMA TcpSocketReadyCore ==
    ASSUME Core, NEW id \in Slots, TcpSocketReady(id)
    PROVE  Core'
<1> DEFINE f == [flows[id] EXCEPT !.poll_armed = FALSE]
<1>1. Take(id) /\ Live(id) /\ IsTcp(flows[id])
  BY DEF TcpSocketReady, TakeFlow
<1>2. Taken /\ Left(id) = 0
  BY <1>1, TakeOne DEF UserData
<1>3. flows[id] \in Flow
  BY <1>1 DEF Core, TableInv, TableTypeOK, Live, Present
<1>4. SameFlow(id, f) /\ IsTcp(f) /\ ~f.poll_armed /\ f.state = flows[id].state
  BY <1>1, <1>3 DEF SameFlow, IsTcp, Flow
<1>5. \/ RemoveFlow(id, f)
      \/ ArmPoll(id, [f EXCEPT !.state = "Established"])
      \/ TcpDataToGuest(id, f)
  BY DEF TcpSocketReady
<1> HIDE DEF f
<1>6. CASE RemoveFlow(id, f)
  BY <1>1, <1>2, <1>4, <1>6, RemoveFlowCore
<1>7. CASE TcpDataToGuest(id, f)
  BY <1>1, <1>2, <1>4, <1>7, TcpDataToGuestCore
<1>8. CASE ArmPoll(id, [f EXCEPT !.state = "Established"])
  <2> DEFINE g == [[f EXCEPT !.state = "Established"] EXCEPT !.poll_armed = TRUE]
  <2>1. SameFlow(id, g) /\ IsTcp(g) /\ g.poll_armed
    BY <1>4 DEF SameFlow, Flow, IsTcp
  <2>2. SetFlow(id, g) /\ (PushOp(id) \/ PushFull)
    BY <1>8 DEF ArmPoll
  <2> HIDE DEF g
  <2> QED BY <1>1, <1>2, <2>1, <2>2, SetFlowCore
<1> QED BY <1>5, <1>6, <1>7, <1>8

\* The completion of a closing or canceled operation frees slot and buffer.
LEMMA ReapFlowCore ==
    ASSUME Core, NEW id \in Slots, ReapFlow(id)
    PROVE  Core'
<1>0. Slots \subseteq UserData
  BY DEF UserData
<1>1. Take(id) /\ Remove(id) /\ canceled' = [canceled EXCEPT ![id] = FALSE]
      /\ UNCHANGED <<sqArm, sqCancel, kern, sqFull>>
  BY DEF ReapFlow, TakeFlow
<1>2. Taken /\ Left(id) = 0 /\ Pending(id) = 1
  BY <1>0, <1>1, TakeOne
<1>3. Present(id)
  BY <1>2 DEF Core, OpsInv, NoStaleCompletion
<1>4. TableInv' /\ ~Present(id)' /\ \A s \in Slots : s # id => flows'[s] = flows[s]
  BY <1>1, <1>3, RemoveTable DEF Core
<1>5. RingTypeOK'
  BY <1>1, <1>2 DEF Core, OpsInv, RingTypeOK, Taken
<1>6. Pending(id)' = 0 /\ \A s \in Slots : Pending(s)' <= Pending(s)
  BY <1>0, <1>1, <1>2 DEF Core, OpsInv, RingTypeOK, Taken, Pending, Left
<1>7. \A s \in Slots : Pending(s)' \in Nat /\ Pending(s) \in Nat
  BY <1>0, <1>5 DEF Core, OpsInv, RingTypeOK, Pending
<1>8. NoStaleCompletion'
  BY <1>4, <1>6, <1>7 DEF Core, OpsInv, NoStaleCompletion, IsTcp, Present
<1>9. CancelHitsClosing'
  BY <1>1, <1>4 DEF Core, OpsInv, RingTypeOK, CancelHitsClosing, Present
<1> QED BY <1>4, <1>5, <1>8, <1>9 DEF Core, OpsInv

\* The next recv of a datagram flow replaces the one that completed.
LEMMA DatagramReadyCore ==
    ASSUME Core, NEW id \in Slots, DatagramReady(id)
    PROVE  Core'
<1>0. Slots \subseteq UserData
  BY DEF UserData
<1>1. /\ Take(id) /\ Live(id) /\ ~IsTcp(flows[id]) /\ UNCHANGED tableVars
      /\ PushOp(id) \/ PushFull
  BY DEF DatagramReady
<1>2. Taken /\ Left(id) = 0
  BY <1>0, <1>1, TakeOne
<1>3. TableInv'
  BY <1>1 DEF Core, tableVars, TableInv, TableTypeOK, FreeIsEmpty, KeyIndexExact,
         BufferOwnership, Present, Live
<1>4. RingTypeOK'
  BY <1>0, <1>1, <1>2, PushType DEF Core, OpsInv
<1>5. Pending(id)' <= 1 /\ \A s \in Slots : s # id => Pending(s)' <= Pending(s)
  BY <1>0, <1>1, <1>2 DEF PushOp, PushFull, Core, OpsInv, RingTypeOK, Taken, Pending, Left
<1>6. \A s \in Slots : Pending(s)' \in Nat /\ Pending(s) \in Nat
  BY <1>0, <1>4 DEF Core, OpsInv, RingTypeOK, Pending
<1>7. NoStaleCompletion'
  BY <1>1, <1>5, <1>6 DEF Core, OpsInv, NoStaleCompletion, IsTcp, Present, Live, tableVars
<1>8. CancelHitsClosing'
  BY <1>1 DEF PushOp, PushFull, Core, OpsInv, CancelHitsClosing, Present, tableVars
<1> QED BY <1>3, <1>4, <1>7, <1>8 DEF Core, OpsInv

\* Every step of the loop preserves the inductive invariant.
LEMMA NextInvariant == IInv /\ [Next]_vars => IInv'
<1> SUFFICES ASSUME IInv, [Next]_vars PROVE IInv'
  OBVIOUS
<1>0. Core /\ LoopInv /\ {Tap, Timer, Stop} \subseteq UserData /\ Slots \subseteq UserData
      /\ {Tap, Timer, Stop} \cap Slots = {}
  BY UserDataAssumption DEF IInv, UserData
<1>T. ASSUME NEW u \in {Tap, Timer, Stop}, Take(u)
      PROVE  Taken /\ \A s \in Slots : cqe'[s] = cqe[s]
  BY <1>0, <1>T, TakeOne
<1>U. cqe' = cqe => Taken /\ \A s \in Slots : cqe'[s] = cqe[s]
  BY <1>0 DEF Core, OpsInv, RingTypeOK, Taken
\* A step that starts at pc = "loop" and stays clear of the work lists.
<1>L. ASSUME pc = "loop", UNCHANGED <<frame, todo>>,
             pc' \in {"loop", "tap", "stopped", "failed"}
      PROVE  LoopInv'
  BY <1>0, <1>L DEF LoopInv
<1>1. CASE Start
  <2>1. Core'
    <3>1. TableInv'
      BY <1>0, <1>1 DEF Start, Core, tableVars, TableInv, TableTypeOK, FreeIsEmpty,
           KeyIndexExact, BufferOwnership, Present, Live
    <3>2. sqFull' \in BOOLEAN
      <4>1. sqFull' = sqFull \/ sqFull' = TRUE
        BY <1>1 DEF Start
      <4> QED BY <1>0, <4>1, Zenon DEF Core, OpsInv, RingTypeOK
    <3>3. RingTypeOK'
      BY <1>0, <1>1, <3>2, RingAssumption DEF Start, Core, OpsInv, RingTypeOK
    <3>4. \A s \in Slots : Pending(s)' = Pending(s)
      BY <1>0, <1>1 DEF Start, Pending, Core, OpsInv, RingTypeOK
    <3>5. NoStaleCompletion'
      BY <1>0, <1>1, <3>4 DEF Start, Core, OpsInv, tableVars, NoStaleCompletion, Present, IsTcp
    <3>6. CancelHitsClosing'
      BY <1>0, <1>1 DEF Start, Core, OpsInv, tableVars, CancelHitsClosing, Present
    <3> QED BY <3>1, <3>3, <3>5, <3>6 DEF Core, OpsInv
  <2>2. LoopInv'
    BY <1>0, <1>1 DEF Start, Goto, LoopInv
  <2> QED BY <2>1, <2>2 DEF IInv
<1>2. ASSUME NEW k \in UdpKeys, HandleUdp(k) PROVE IInv'
  <2>1. Core'
    BY <1>0, <1>2, <1>T, IdleCore DEF HandleUdp, NoPush
  <2>2. LoopInv'
    BY <1>0, <1>2 DEF HandleUdp, LoopInv, Keys, DgramKeys
  <2> QED BY <2>1, <2>2 DEF IInv
<1>3. CASE ForwardSegment \/ LastSegment
  <2>1. frame \in DgramKeys /\ Forward(frame) /\ cqe' = cqe /\ pc = "udp" /\ todo' = todo
    BY <1>0, <1>3 DEF ForwardSegment, LastSegment, LoopInv, DgramKeys, loopVars
  <2>2. Core'
    BY <1>0, <1>U, <2>1, ForwardCore
  <2>3. LoopInv'
    BY <1>0, <1>3, <2>1 DEF ForwardSegment, LastSegment, LoopInv, loopVars
  <2> QED BY <2>2, <2>3 DEF IInv
<1>4. ASSUME NEW k \in PingKeys, HandleIcmpEcho(k) PROVE IInv'
  <2>1. k \in DgramKeys /\ Forward(k) /\ Take(Tap) /\ pc = "loop" /\ Goto("tap")
    BY <1>4 DEF HandleIcmpEcho, DgramKeys
  <2>2. Core'
    BY <1>0, <1>T, <2>1, ForwardCore
  <2> QED BY <1>L, <2>1, <2>2 DEF Goto, IInv
<1>5. ASSUME NEW k \in TcpKeys, HandleTcp(k) PROVE IInv'
  <2>1. Take(Tap) /\ pc = "loop" /\ Goto("tap") /\ k \in Keys
    BY <1>5 DEF HandleTcp, Keys
  <2>2. Taken /\ \A s \in Slots : cqe'[s] = cqe[s]
    BY <1>T, <2>1
  <2>3. CASE by_key[k] # NoSlot
    BY <1>0, <1>5, <2>2, <2>3, <2>1, <1>L, TcpFromGuestCore DEF HandleTcp, Goto, IInv
  <2>4. CASE by_key[k] = NoSlot
    <3>1. NewFlow(k)
      BY <1>5, <2>4 DEF HandleTcp
    <3>2. Core'
      BY <1>0, <2>1, <2>2, <2>4, <3>1, NewFlowCore
    <3> QED BY <1>L, <2>1, <3>2 DEF Goto, IInv
  <2> QED BY <2>3, <2>4
<1>6. CASE IgnoreFrame \/ TapReadEnds \/ HandleStop
  <2>1. /\ pc = "loop" /\ UNCHANGED tableVars /\ NoPush
        /\ Take(Tap) \/ Take(Stop)
        /\ UNCHANGED <<frame, todo>> /\ pc' \in {"tap", "stopped", "failed"}
    BY <1>6 DEF IgnoreFrame, TapReadEnds, HandleStop, Goto
  <2>2. Core'
    BY <1>0, <1>T, <2>1, IdleCore
  <2> QED BY <1>L, <2>1, <2>2 DEF IInv
<1>7. CASE SubmitTapRead \/ SubmitTimer
  <2>1. \E u \in {Tap, Timer} : Resubmit(u)
    BY <1>7 DEF SubmitTapRead, SubmitTimer
  <2>2. Core'
    BY <1>0, <2>1, ResubmitCore DEF Resubmit
  <2>3. todo = {} /\ todo' = {} /\ frame' = frame /\ pc' \in {"loop", "failed"}
    BY <1>0, <1>7, <2>1 DEF SubmitTapRead, SubmitTimer, Resubmit, Goto, LoopInv
  <2>4. LoopInv'
    BY <1>0, <2>3 DEF LoopInv
  <2> QED BY <2>2, <2>4 DEF IInv
<1>8. ASSUME NEW due \in SUBSET Slots, HandleTimer(due) PROVE IInv'
  <2>1. Core'
    BY <1>0, <1>8, <1>T, IdleCore DEF HandleTimer, NoPush
  <2>2. LoopInv'
    BY <1>0, <1>8 DEF HandleTimer, LoopInv, TcpTimerDue, tableVars, Live, Present, IsTcp
  <2> QED BY <2>1, <2>2 DEF IInv
<1>9. ASSUME NEW expired \in SUBSET Slots, BeginExpiry(expired) PROVE IInv'
  <2>1. Core'
    BY <1>0, <1>9, <1>U, IdleCore DEF BeginExpiry, NoPush, ringVars
  <2>2. LoopInv'
    BY <1>0, <1>9 DEF BeginExpiry, LoopInv, Expirable, tableVars, Live, Present
  <2> QED BY <2>1, <2>2 DEF IInv
<1>10. ASSUME NEW id \in Slots, PeriodicFlow(id) PROVE IInv'
  <2>1. /\ id \in todo /\ Live(id) /\ IsTcp(flows[id]) /\ pc = "periodic"
        /\ todo' = todo \ {id} /\ cqe' = cqe /\ UNCHANGED <<pc, frame>>
        /\ TcpDataToGuest(id, flows[id])
    BY <1>0, <1>10 DEF PeriodicFlow, LoopInv
  <2>2. SameFlow(id, flows[id])
    BY <1>0, <2>1, LiveSameFlow
  <2>3. ~flows[id].poll_armed => Left(id) = 0
    BY <1>0, <2>1, UnarmedIsIdle DEF Left, Pending
  <2>4. Core' /\ \A s \in Slots : s # id => flows'[s] = flows[s]
    BY <1>0, <1>U, <2>1, <2>2, <2>3, TcpDataToGuestCore
  <2>5. LoopInv'
    BY <1>0, <2>1, <2>4 DEF LoopInv, Live, Present
  <2> QED BY <2>4, <2>5 DEF IInv
<1>11. ASSUME NEW id \in Slots, ExpireFlow(id) PROVE IInv'
  <2>1. /\ id \in todo /\ Live(id) /\ pc = "expire"
        /\ todo' = todo \ {id} /\ cqe' = cqe /\ UNCHANGED <<pc, frame>>
        /\ RemoveFlow(id, flows[id])
    BY <1>0, <1>11 DEF ExpireFlow, LoopInv
  <2>2. SameFlow(id, flows[id])
    BY <1>0, <2>1, LiveSameFlow
  <2>3. IsTcp(flows[id]) /\ ~flows[id].poll_armed => Left(id) = 0
    BY <1>0, <2>1, UnarmedIsIdle DEF Left, Pending
  <2>4. Core' /\ \A s \in Slots : s # id => flows'[s] = flows[s]
    BY <1>0, <1>U, <2>1, <2>2, <2>3, RemoveFlowCore
  <2>5. LoopInv'
    BY <1>0, <2>1, <2>4 DEF LoopInv, Live, Present
  <2> QED BY <2>4, <2>5 DEF IInv
<1>12. ASSUME NEW id \in Slots, ReapFlow(id) PROVE IInv'
  BY <1>0, <1>12, <1>L, ReapFlowCore DEF ReapFlow, TakeFlow, loopVars, IInv
<1>13. ASSUME NEW id \in Slots, DatagramReady(id) PROVE IInv'
  BY <1>0, <1>13, <1>L, DatagramReadyCore DEF DatagramReady, Goto, IInv
<1>14. ASSUME NEW id \in Slots, TcpSocketReady(id) PROVE IInv'
  BY <1>0, <1>14, <1>L, TcpSocketReadyCore DEF TcpSocketReady, TakeFlow, loopVars, IInv
<1>15. ASSUME NEW id \in Slots, PollFails(id) PROVE IInv'
  <2>1. /\ Take(id) /\ Live(id) /\ RemoveFlow(id, flows[id])
        /\ pc = "loop" /\ UNCHANGED loopVars
    BY <1>15 DEF PollFails, TakeFlow
  <2>2. Taken /\ Left(id) = 0
    BY <1>0, <2>1, TakeOne
  <2>3. Core'
    BY <1>0, <2>1, <2>2, LiveSameFlow, RemoveFlowCore
  <2> QED BY <1>L, <2>1, <2>3 DEF loopVars, IInv
<1>16. ASSUME NEW done \in SUBSET UserData, SubmitAndWait(done) PROVE IInv'
  BY <1>0, <1>16, <1>L, CompleteCore DEF SubmitAndWait, loopVars, IInv
<1>17. CASE UNCHANGED vars
  <2>1. Core'
    BY <1>0, <1>17, <1>U, IdleCore DEF vars, ringVars, NoPush
  <2>2. LoopInv'
    BY <1>0, <1>17 DEF vars, loopVars, tableVars, LoopInv, Live, Present, IsTcp
  <2> QED BY <2>1, <2>2 DEF IInv
<1> QED
  BY <1>1, <1>2, <1>3, <1>4, <1>5, <1>6, <1>7, <1>8, <1>9, <1>10, <1>11, <1>12,
     <1>13, <1>14, <1>15, <1>16, <1>17 DEF Next, Handle, Terminated

\* The state Uring::new and run() start from satisfies the invariant.
LEMMA InitInvariant == Init => IInv
<1> SUFFICES ASSUME Init PROVE IInv
  OBVIOUS
<1>1. TableInv
  BY BufsAssumption, SlotsAssumption
     DEF Init, TableInit, TableInv, TableTypeOK, FreeIsEmpty, KeyIndexExact,
         BufferOwnership, Present, Live
<1>2. RingTypeOK
  BY DEF Init, RingInit, RingTypeOK
<1>3. NoStaleCompletion
  BY DEF Init, RingInit, NoStaleCompletion, Pending, UserData
<1>4. CancelHitsClosing
  BY DEF Init, RingInit, CancelHitsClosing
<1>5. LoopInv
  BY DEF Init, LoopInv
<1> QED BY <1>1, <1>2, <1>3, <1>4, <1>5 DEF IInv, Core, OpsInv

\* The inductive invariant holds in every reachable state of the loop.
LEMMA Invariant == Spec => []IInv
BY InitInvariant, NextInvariant, PTL DEF Spec

-----------------------------------------------------------------------------
\* The table, the ring and the loop keep their types: no count of buffers or
\* operations goes below zero, and every id the loop holds is a slot.
THEOREM TypeCorrect == Spec => []TypeOK
<1>1. IInv => TypeOK
  BY DEF IInv, Core, TableInv, OpsInv, LoopInv, TypeOK
<1> QED BY <1>1, Invariant, PTL

\* A completion never concerns an empty slot or another flow than the one
\* that started the operation, even with a full queue or failing polls.
THEOREM CompletionSafety == Spec => []NoStaleCompletion
<1>1. IInv => NoStaleCompletion
  BY DEF IInv, Core, OpsInv
<1> QED BY <1>1, Invariant, PTL

\* Every buffer has exactly one owner and none is lost.
THEOREM BufferSafety == Spec => []BufferOwnership
<1>1. IInv => BufferOwnership
  BY DEF IInv, Core, TableInv
<1> QED BY <1>1, Invariant, PTL

\* The key index and the flows that are not closing agree.
THEOREM IndexSafety == Spec => []KeyIndexExact
<1>1. IInv => KeyIndexExact
  BY DEF IInv, Core, TableInv
<1> QED BY <1>1, Invariant, PTL

\* A cancel request never reaches the operation of a flow that is in use.
THEOREM CancelSafety == Spec => []CancelHitsClosing
<1>1. IInv => CancelHitsClosing
  BY DEF IInv, Core, OpsInv
<1> QED BY <1>1, Invariant, PTL

\* Making room for a new flow never touches a TCP flow.
LEMMA NewFlowKeepsTcp ==
    ASSUME Core, Taken, NEW k \in Keys, NewFlow(k),
           NEW s \in Slots, Live(s), IsTcp(flows[s])
    PROVE  flows'[s] = flows[s]
<1>1. CASE UNCHANGED tableVars
  BY <1>1 DEF tableVars
<1>2. ASSUME NEW b \in FreeBufs, NEW id \in InsertSlots, Insert(id, FreshFlow(k, b))
      PROVE  flows'[s] = flows[s]
  <2>1. id \in Slots /\ ~Present(id)
    BY DEF InsertSlots, Slab, Core, TableInv, TableTypeOK, FreeIsEmpty, Present
  <2> QED BY <1>2, <2>1 DEF Insert, Live, Core, TableInv, TableTypeOK
<1>3. CASE UNCHANGED flows
  BY <1>3
<1>4. ASSUME NEW id \in LruEvictable, RemoveFlow(id, flows[id])
      PROVE  flows'[s] = flows[s]
  <2>1. id \in Slots /\ Live(id) /\ ~IsTcp(flows[id])
    BY DEF LruEvictable
  <2> QED BY <1>4, <2>1, LiveSameFlow, RemoveFlowCore
<1> QED BY <1>1, <1>2, <1>3, <1>4 DEF NewFlow

\* Making room for a new flow of any kind never costs a TCP flow:
\* lru_evictable only offers datagram flows, and a new flow only gets an
\* empty slot.
THEOREM EvictionSafety == Spec => TcpNeverEvicted
<1> DEFINE Kept == \A s \in Slots : Live(s) /\ IsTcp(flows[s]) => flows'[s] = flows[s]
<1>1. ASSUME IInv, [Next]_vars, MakesRoom PROVE Kept
  <2>0. Core
    BY <1>1 DEF IInv
  <2>1. CASE UNCHANGED vars
    BY <2>1 DEF vars, tableVars
  <2>2. CASE ForwardSegment \/ LastSegment
    <3>1. Forward(frame) /\ cqe' = cqe /\ frame \in Keys
      BY <1>1, <2>2 DEF ForwardSegment, LastSegment, IInv, LoopInv, Keys, DgramKeys
    <3>2. Taken
      BY <2>0, <3>1 DEF Taken, Core, OpsInv, RingTypeOK, UserData
    <3>3. CASE UNCHANGED tableVars
      BY <3>3 DEF tableVars
    <3>4. CASE NewFlow(frame)
      BY <2>0, <3>1, <3>2, <3>4, NewFlowKeepsTcp
    <3> QED BY <3>1, <3>3, <3>4 DEF Forward
  <2>3. ASSUME NEW k \in Keys, by_key[k] = NoSlot, HandleIcmpEcho(k) \/ HandleTcp(k)
        PROVE  Kept
    <3>1. Take(Tap) /\ NewFlow(k)
      BY <2>3 DEF HandleIcmpEcho, HandleTcp, Forward
    <3>2. Taken
      BY <2>0, <3>1 DEF Taken, Take, Core, OpsInv, RingTypeOK, UserData
    <3> QED BY <2>0, <3>1, <3>2, NewFlowKeepsTcp
  <2>4. CASE pc = "udp"
    BY <1>1, <2>1, <2>2, <2>4
       DEF Next, Handle, Start, HandleUdp, HandleIcmpEcho, HandleTcp, IgnoreFrame,
           SubmitTapRead, TapReadEnds, HandleStop, HandleTimer, PeriodicFlow,
           BeginExpiry, ExpireFlow, SubmitTimer, ReapFlow, DatagramReady,
           TcpSocketReady, PollFails, TakeFlow, SubmitAndWait, Terminated
  <2> QED BY <1>1, <2>3, <2>4 DEF MakesRoom, Keys, DgramKeys
<1>2. IInv /\ [Next]_vars => [MakesRoom => Kept]_vars
  BY <1>1
<1> QED BY <1>2, Invariant, PTL DEF Spec, TcpNeverEvicted

-----------------------------------------------------------------------------
(* Every flow that waits for a completion has one coming, as long as no    *)
(* push has found the queue full and no poll fails.                        *)

Waits(s) ==
    Present(s) /\ (flows[s].poll_armed \/ ~IsTcp(flows[s]) \/ flows[s].closing)

AllWatched == \A s \in Slots : Waits(s) => Pending(s) = 1

ConnectingIsArmed ==
    \A s \in Slots :
        Live(s) /\ flows[s].state = "Connecting" => flows[s].poll_armed

Watch == ConnectingIsArmed /\ (~sqFull => AllWatched)

\* Other slots than id are as they were.
Others(id) ==
    \A s \in Slots : s # id => flows'[s] = flows[s] /\ Pending(s)' = Pending(s)

\* Enough for Watch': nothing but slot id has changed, and id is fine.
LEMMA WatchOne ==
    ASSUME Watch, NEW id \in Slots, Others(id),
           Live(id)' /\ flows'[id].state = "Connecting" => flows'[id].poll_armed,
           ~sqFull' => ~sqFull /\ (Waits(id)' => Pending(id)' = 1)
    PROVE  Watch'
<1>1. ConnectingIsArmed'
  BY DEF Watch, ConnectingIsArmed, Others, Live, Present
<1>2. ASSUME ~sqFull' PROVE AllWatched'
  BY <1>2 DEF Watch, AllWatched, Others, Waits, Present, IsTcp
<1> QED BY <1>1, <1>2 DEF Watch

\* A handler that changes no flow and takes no flow's completion.
LEMMA IdleWatch ==
    ASSUME Watch, UNCHANGED tableVars, \A s \in Slots : Pending(s)' = Pending(s),
           ~sqFull' => ~sqFull
    PROVE  Watch'
<1>1. ConnectingIsArmed'
  BY DEF Watch, ConnectingIsArmed, tableVars, Live, Present
<1>2. ASSUME ~sqFull' PROVE AllWatched'
  BY <1>2 DEF Watch, AllWatched, tableVars, Waits, Present, IsTcp
<1> QED BY <1>1, <1>2 DEF Watch

\* remove_flow of a flow whose operation is still out, or which has none.
LEMMA RemoveFlowWatch ==
    ASSUME Core, Watch, Taken, NEW id \in Slots, NEW f, Live(id), SameFlow(id, f),
           \A s \in Slots : s # id => cqe'[s] = cqe[s],
           ~IsTcp(f) \/ f.poll_armed => f = flows[id] /\ cqe'[id] = cqe[id],
           RemoveFlow(id, f)
    PROVE  Watch'
<1>1. CASE ~IsTcp(f) \/ f.poll_armed
  <2>1. MarkClosing(id, f) /\ PushCancel(id) /\ f = flows[id] /\ cqe'[id] = cqe[id]
    BY <1>1 DEF RemoveFlow
  <2>2. /\ flows'[id].closing
        /\ \A s \in Slots : s # id => flows'[s] = flows[s]
    BY <2>1, MarkClosingTable DEF Core
  <2>3. \A s \in Slots : Pending(s)' = Pending(s)
    BY <2>1 DEF PushCancel, Pending
  <2>4. ~sqFull' => ~sqFull
    BY <2>1 DEF PushCancel
  <2>5. ~sqFull => Pending(id) = 1
    BY <1>1, <2>1 DEF Watch, AllWatched, Waits, Live
  <2> QED BY <2>2, <2>3, <2>4, <2>5, WatchOne DEF Others, Live
<1>2. CASE IsTcp(f) /\ ~f.poll_armed
  <2>1. Remove(id) /\ NoPush
    BY <1>2 DEF RemoveFlow
  <2>2. ~Present(id)' /\ \A s \in Slots : s # id => flows'[s] = flows[s]
    BY <2>1, RemoveTable DEF Core, Live
  <2>3. \A s \in Slots : s # id => Pending(s)' = Pending(s)
    BY <2>1 DEF NoPush, Pending
  <2>4. sqFull' = sqFull
    BY <2>1 DEF NoPush
  <2> QED BY <2>2, <2>3, <2>4, WatchOne DEF Others, Live, Waits
<1> QED BY <1>1, <1>2

\* A flow is changed and a poll pushed, or nothing is.
LEMMA SetFlowWatch ==
    ASSUME Core, Watch, Taken, NEW id \in Slots, NEW f, Live(id), SameFlow(id, f),
           IsTcp(f), f.state = "Connecting" => f.poll_armed,
           \A s \in Slots : s # id => cqe'[s] = cqe[s],
           SetFlow(id, f),
           \/ NoPush /\ (f.poll_armed => f = flows[id] /\ cqe'[id] = cqe[id])
           \/ PushFull
           \/ PushOp(id) /\ Left(id) = 0
    PROVE  Watch'
<1>0. Slots \subseteq UserData
  BY DEF UserData
<1>1. /\ Live(id)' /\ flows'[id] = f
      /\ \A s \in Slots : s # id => flows'[s] = flows[s]
  BY SetFlowTable DEF Core
<1>2. \A s \in Slots : s # id => Pending(s)' = Pending(s)
  BY <1>0 DEF NoPush, PushFull, PushOp, Pending, Core, OpsInv, RingTypeOK
<1>3. CASE NoPush /\ (f.poll_armed => f = flows[id] /\ cqe'[id] = cqe[id])
  <2>1. sqFull' = sqFull /\ (f.poll_armed => Pending(id)' = Pending(id))
    BY <1>3 DEF NoPush, Pending
  <2>2. ~sqFull /\ f.poll_armed => Pending(id) = 1
    BY <1>3 DEF Watch, AllWatched, Waits, Live
  <2> QED BY <1>1, <1>2, <2>1, <2>2, WatchOne DEF Others, Waits, Live
<1>4. CASE PushFull
  <2>1. sqFull'
    BY <1>4 DEF PushFull
  <2> QED BY <1>1, <1>2, <2>1, WatchOne DEF Others
<1>5. CASE PushOp(id) /\ Left(id) = 0
  <2>1. sqFull' = sqFull
    BY <1>5 DEF PushOp
  <2>2. Pending(id)' = 1
    BY <1>0, <1>5 DEF PushOp, Pending, Left, Core, OpsInv, RingTypeOK, Taken
  <2> QED BY <1>1, <1>2, <2>1, <2>2, WatchOne DEF Others
<1> QED BY <1>3, <1>4, <1>5

\* tcp_data_to_guest leaves the flow polled, or removed and on its way out.
LEMMA TcpDataToGuestWatch ==
    ASSUME Core, Watch, Taken, NEW id \in Slots, NEW f, Live(id), SameFlow(id, f),
           IsTcp(f), f.state = "Connecting" => f.poll_armed,
           \A s \in Slots : s # id => cqe'[s] = cqe[s],
           f.poll_armed => f = flows[id] /\ cqe'[id] = cqe[id],
           ~f.poll_armed => Left(id) = 0,
           TcpDataToGuest(id, f)
    PROVE  Watch'
<1>1. CASE SetFlow(id, f) /\ NoPush
  BY <1>1, SetFlowWatch
<1>2. CASE ~f.poll_armed /\ ArmPoll(id, f)
  <2> DEFINE g == [f EXCEPT !.poll_armed = TRUE]
  <2>1. SameFlow(id, g) /\ g.poll_armed /\ IsTcp(g)
    BY DEF SameFlow, Flow, IsTcp
  <2>2. SetFlow(id, g) /\ (PushOp(id) \/ PushFull)
    BY <1>2 DEF ArmPoll
  <2> HIDE DEF g
  <2> QED BY <1>2, <2>1, <2>2, SetFlowWatch
<1>3. CASE RemoveFlow(id, f)
  BY <1>3, RemoveFlowWatch
<1> QED BY <1>1, <1>2, <1>3 DEF TcpDataToGuest

\* A new flow starts with its first operation pushed, or is undone.
LEMMA NewFlowWatch ==
    ASSUME Core, Watch, Taken, NEW k \in Keys, by_key[k] = NoSlot,
           \A s \in Slots : cqe'[s] = cqe[s],
           NewFlow(k)
    PROVE  Watch'
<1>0. Slots \subseteq UserData
  BY DEF UserData
<1>1. CASE UNCHANGED tableVars /\ NoPush
  BY <1>1, IdleWatch DEF NoPush, Pending
<1>2. ASSUME NEW b \in FreeBufs, NEW id \in InsertSlots,
             PushOp(id), Alloc(b), Insert(id, FreshFlow(k, b))
      PROVE  Watch'
  <2> DEFINE g == FreshFlow(k, b)
  <2>1. g \in Flow /\ g.buf = b /\ g.key = k /\ ~g.closing
    BY DEF FreshFlow, Flow, FreeBufs
  <2>2. g.state = "Connecting" => g.poll_armed
    BY DEF FreshFlow, Flow, FreeBufs
  <2>3. Alloc(g.buf) /\ Insert(id, g)
    BY <1>2, <2>1
  <2> HIDE DEF g
  <2>4. /\ id \in Slots /\ ~Present(id) /\ flows'[id] = g
        /\ \A s \in Slots : s # id => flows'[s] = flows[s]
    BY <2>1, <2>3, InsertTable DEF Core
  <2>5. Pending(id) = 0
    <3>1. Pending(id) \in Nat
      BY <1>0, <2>4 DEF Core, OpsInv, RingTypeOK, Pending
    <3> QED BY <2>4, <3>1 DEF Core, OpsInv, NoStaleCompletion
  <2>6. Pending(id)' = 1 /\ \A s \in Slots : s # id => Pending(s)' = Pending(s)
    BY <1>0, <1>2, <2>4, <2>5 DEF PushOp, Core, OpsInv, RingTypeOK, Pending
  <2>7. sqFull' = sqFull
    BY <1>2 DEF PushOp
  <2> QED BY <2>2, <2>4, <2>6, <2>7, WatchOne DEF Others
<1>3. ASSUME PushFull, UNCHANGED flows PROVE Watch'
  <2>1. sqFull' /\ ConnectingIsArmed'
    BY <1>3 DEF PushFull, Watch, ConnectingIsArmed, Live, Present
  <2> QED BY <2>1 DEF Watch
<1>4. ASSUME NEW id \in LruEvictable, RemoveFlow(id, flows[id])
      PROVE  Watch'
  <2>1. id \in Slots /\ Live(id)
    BY DEF LruEvictable
  <2> QED BY <1>4, <2>1, LiveSameFlow, RemoveFlowWatch
<1> QED BY <1>1, <1>2, <1>3, <1>4 DEF NewFlow

\* Every step keeps waiting flows watched, unless polls may fail.
LEMMA NextWatch ==
    ASSUME IInv, Watch, ~PollErrors, [Next]_vars
    PROVE  Watch'
<1>0. /\ Core /\ LoopInv
      /\ {Tap, Timer, Stop} \subseteq UserData /\ Slots \subseteq UserData
      /\ {Tap, Timer, Stop} \cap Slots = {}
  BY UserDataAssumption DEF IInv, UserData
<1>T. ASSUME NEW u \in {Tap, Timer, Stop}, Take(u)
      PROVE  Taken /\ \A s \in Slots : cqe'[s] = cqe[s]
  BY <1>0, <1>T, TakeOne
<1>U. cqe' = cqe => Taken /\ \A s \in Slots : cqe'[s] = cqe[s]
  BY <1>0 DEF Core, OpsInv, RingTypeOK, Taken
<1>I. ASSUME \A s \in Slots : cqe'[s] = cqe[s], UNCHANGED tableVars, NoPush
      PROVE  Watch'
  BY <1>I, IdleWatch DEF NoPush, Pending
<1>F. ASSUME NEW k \in DgramKeys, Forward(k), Taken, \A s \in Slots : cqe'[s] = cqe[s]
      PROVE  Watch'
  <2>1. CASE by_key[k] # NoSlot
    BY <1>F, <1>I, <2>1 DEF Forward
  <2>2. CASE by_key[k] = NoSlot
    <3>1. k \in Keys /\ NewFlow(k)
      BY <1>F, <2>2 DEF Forward, Keys
    <3> QED BY <1>0, <1>F, <2>2, <3>1, NewFlowWatch
  <2> QED BY <2>1, <2>2
\* A live TCP flow whose completion, if any, is still out.
<1>D. ASSUME NEW id \in Slots, Live(id), IsTcp(flows[id]), Taken,
             \A s \in Slots : cqe'[s] = cqe[s]
      PROVE  /\ TcpDataToGuest(id, flows[id]) => Watch'
             /\ RemoveFlow(id, flows[id]) => Watch'
  <2>1. SameFlow(id, flows[id])
    BY <1>0, <1>D, LiveSameFlow
  <2>2. ~flows[id].poll_armed => Left(id) = 0
    BY <1>0, <1>D, UnarmedIsIdle DEF Left, Pending
  <2>3. flows[id].state = "Connecting" => flows[id].poll_armed
    BY <1>D DEF Watch, ConnectingIsArmed
  <2> QED BY <1>0, <1>D, <2>1, <2>2, <2>3, TcpDataToGuestWatch, RemoveFlowWatch
<1>1. CASE Start
  <2>1. \A s \in Slots : Pending(s)' = Pending(s)
    BY <1>0, <1>1 DEF Start, Pending, Core, OpsInv, RingTypeOK
  <2>2. ~sqFull' => ~sqFull
    BY <1>1 DEF Start
  <2> QED BY <1>1, <2>1, <2>2, IdleWatch DEF Start
<1>2. ASSUME NEW k \in UdpKeys, HandleUdp(k) PROVE Watch'
  BY <1>2, <1>T, <1>I DEF HandleUdp, NoPush
<1>3. CASE ForwardSegment \/ LastSegment
  <2>1. frame \in DgramKeys /\ Forward(frame) /\ cqe' = cqe
    BY <1>0, <1>3 DEF ForwardSegment, LastSegment, LoopInv, DgramKeys
  <2> QED BY <1>F, <1>U, <2>1
<1>4. ASSUME NEW k \in PingKeys, HandleIcmpEcho(k) PROVE Watch'
  BY <1>4, <1>T, <1>F DEF HandleIcmpEcho, DgramKeys
<1>5. ASSUME NEW k \in TcpKeys, HandleTcp(k) PROVE Watch'
  <2>1. Taken /\ k \in Keys /\ \A s \in Slots : cqe'[s] = cqe[s]
    BY <1>5, <1>T DEF HandleTcp, Keys
  <2>2. CASE by_key[k] = NoSlot
    <3>1. NewFlow(k)
      BY <1>5, <2>2 DEF HandleTcp
    <3> QED BY <1>0, <2>1, <2>2, <3>1, NewFlowWatch
  <2>3. CASE by_key[k] # NoSlot
    <3> DEFINE id == by_key[k]
    <3>1. id \in Slots /\ Live(id) /\ IsTcp(flows[id])
      BY <1>0, <2>3 DEF Core, TableInv, TableTypeOK, KeyIndexExact, IsTcp, Keys
    <3>2. TcpFromGuest(id)
      BY <1>5, <2>3 DEF HandleTcp
    <3> HIDE DEF id
    <3> QED BY <1>D, <1>I, <2>1, <3>1, <3>2 DEF TcpFromGuest
  <2> QED BY <2>2, <2>3
<1>6. CASE IgnoreFrame \/ TapReadEnds \/ HandleStop
  BY <1>6, <1>T, <1>I DEF IgnoreFrame, TapReadEnds, HandleStop
<1>7. CASE SubmitTapRead \/ SubmitTimer
  <2>1. PICK u \in {Tap, Timer} : Resubmit(u)
    BY <1>7 DEF SubmitTapRead, SubmitTimer
  <2>2. \A s \in Slots : Pending(s)' = Pending(s)
    BY <1>0, <2>1 DEF Resubmit, PushFull, PushOp, Pending, Core, OpsInv, RingTypeOK
  <2>3. ~sqFull' => ~sqFull
    BY <2>1 DEF Resubmit, PushFull, PushOp
  <2> QED BY <2>1, <2>2, <2>3, IdleWatch DEF Resubmit
<1>8. ASSUME NEW due \in SUBSET Slots, HandleTimer(due) PROVE Watch'
  BY <1>8, <1>T, <1>I DEF HandleTimer, NoPush
<1>9. ASSUME NEW expired \in SUBSET Slots, BeginExpiry(expired) PROVE Watch'
  BY <1>9, <1>U, <1>I DEF BeginExpiry, NoPush, ringVars
<1>10. ASSUME NEW id \in Slots, PeriodicFlow(id) PROVE Watch'
  <2>1. /\ Live(id) /\ IsTcp(flows[id]) /\ cqe' = cqe /\ TcpDataToGuest(id, flows[id])
    BY <1>0, <1>10 DEF PeriodicFlow, LoopInv
  <2> QED BY <1>D, <1>U, <2>1
<1>11. ASSUME NEW id \in Slots, ExpireFlow(id) PROVE Watch'
  <2>1. Live(id) /\ cqe' = cqe /\ RemoveFlow(id, flows[id])
    BY <1>0, <1>11 DEF ExpireFlow, LoopInv
  <2> QED BY <1>0, <1>U, <2>1, LiveSameFlow, RemoveFlowWatch
<1>12. ASSUME NEW id \in Slots, ReapFlow(id) PROVE Watch'
  <2>1. Take(id) /\ Remove(id) /\ UNCHANGED <<sqArm, kern, sqFull>>
    BY <1>12 DEF ReapFlow, TakeFlow
  <2>2. Pending(id) = 1 /\ \A s \in Slots : s # id => cqe'[s] = cqe[s]
    BY <1>0, <2>1, TakeOne
  <2>3. Present(id)
    BY <1>0, <2>2 DEF Core, OpsInv, NoStaleCompletion
  <2>4. ~Present(id)' /\ \A s \in Slots : s # id => flows'[s] = flows[s]
    BY <1>0, <2>1, <2>3, RemoveTable DEF Core
  <2>5. \A s \in Slots : s # id => Pending(s)' = Pending(s)
    BY <2>1, <2>2 DEF Pending
  <2> QED BY <2>1, <2>4, <2>5, WatchOne DEF Others, Live, Waits
<1>13. ASSUME NEW id \in Slots, DatagramReady(id) PROVE Watch'
  <2>1. Take(id) /\ UNCHANGED tableVars /\ (PushOp(id) \/ PushFull)
    BY <1>13 DEF DatagramReady
  <2>2. Taken /\ Left(id) = 0 /\ \A s \in Slots : s # id => cqe'[s] = cqe[s]
    BY <1>0, <2>1, TakeOne
  <2>3. Others(id)
    BY <1>0, <2>1, <2>2
       DEF Others, tableVars, PushOp, PushFull, Pending, Core, OpsInv, RingTypeOK
  <2>4. Live(id)' /\ flows'[id].state = "Connecting" => flows'[id].poll_armed
    BY <2>1 DEF tableVars, Watch, ConnectingIsArmed, Live, Present
  <2>5. CASE PushOp(id)
    <3>1. sqFull' = sqFull /\ Pending(id)' = 1
      BY <1>0, <2>2, <2>5 DEF PushOp, Pending, Left, Core, OpsInv, RingTypeOK, Taken
    <3> QED BY <2>3, <2>4, <3>1, WatchOne
  <2>6. CASE PushFull
    <3>1. sqFull'
      BY <2>6 DEF PushFull
    <3> QED BY <2>3, <2>4, <3>1, WatchOne
  <2> QED BY <2>1, <2>5, <2>6
<1>14. ASSUME NEW id \in Slots, TcpSocketReady(id) PROVE Watch'
  <2> DEFINE f == [flows[id] EXCEPT !.poll_armed = FALSE]
  <2>1. Take(id) /\ Live(id) /\ IsTcp(flows[id])
    BY <1>14 DEF TcpSocketReady, TakeFlow
  <2>2. Taken /\ Left(id) = 0 /\ \A s \in Slots : s # id => cqe'[s] = cqe[s]
    BY <1>0, <2>1, TakeOne
  <2>3. flows[id] \in Flow
    BY <1>0, <2>1 DEF Core, TableInv, TableTypeOK, Live, Present
  <2>4. SameFlow(id, f) /\ IsTcp(f) /\ ~f.poll_armed
    BY <2>1, <2>3 DEF SameFlow, IsTcp, Flow
  <2>5. \/ RemoveFlow(id, f)
        \/ ArmPoll(id, [f EXCEPT !.state = "Established"])
        \/ f.state = "Established" /\ TcpDataToGuest(id, f)
    BY <1>14 DEF TcpSocketReady
  <2> HIDE DEF f
  <2>6. CASE RemoveFlow(id, f)
    BY <1>0, <2>1, <2>2, <2>4, <2>6, RemoveFlowWatch
  <2>7. CASE f.state = "Established" /\ TcpDataToGuest(id, f)
    BY <1>0, <2>1, <2>2, <2>4, <2>7, TcpDataToGuestWatch
  <2>8. CASE ArmPoll(id, [f EXCEPT !.state = "Established"])
    <3> DEFINE g == [[f EXCEPT !.state = "Established"] EXCEPT !.poll_armed = TRUE]
    <3>1. SameFlow(id, g) /\ IsTcp(g) /\ g.poll_armed
      BY <2>4 DEF SameFlow, Flow, IsTcp
    <3>2. SetFlow(id, g) /\ (PushOp(id) \/ PushFull)
      BY <2>8 DEF ArmPoll
    <3> HIDE DEF g
    <3> QED BY <1>0, <2>1, <2>2, <3>1, <3>2, SetFlowWatch
  <2> QED BY <2>5, <2>6, <2>7, <2>8
<1>15. ASSUME NEW id \in Slots, PollFails(id) PROVE Watch'
  BY <1>15 DEF PollFails
<1>16. ASSUME NEW done \in SUBSET UserData, SubmitAndWait(done) PROVE Watch'
  <2>1. BatchHandled /\ Complete(done) /\ UNCHANGED tableVars
    BY <1>16 DEF SubmitAndWait
  <2>2. \A s \in Slots : Pending(s)' = Pending(s)
    BY <1>0, <2>1 DEF Core, OpsInv, RingTypeOK, Complete, BatchHandled, Pending
  <2>3. sqFull' = sqFull
    BY <2>1 DEF Complete
  <2> QED BY <2>1, <2>2, <2>3, IdleWatch
<1>17. CASE UNCHANGED vars
  BY <1>17, <1>U, <1>I DEF vars, ringVars, NoPush
<1> QED
  BY <1>1, <1>2, <1>3, <1>4, <1>5, <1>6, <1>7, <1>8, <1>9, <1>10, <1>11, <1>12,
     <1>13, <1>14, <1>15, <1>16, <1>17 DEF Next, Handle, Terminated

\* In every reachable state waiting flows are watched, unless polls may fail.
LEMMA WatchInvariant == Spec => [](PollErrors \/ Watch)
<1>1. Init => Watch
  BY DEF Init, TableInit, Watch, ConnectingIsArmed, AllWatched, Waits, Live, Present
<1>2. IInv /\ (PollErrors \/ Watch) /\ [Next]_vars => (PollErrors \/ Watch)'
  BY NextWatch
<1> QED BY <1>1, <1>2, Invariant, PTL DEF Spec

\* As long as no push has found the queue full, and unless polls can fail,
\* every datagram flow, every flow with poll_armed set and every closing
\* flow has exactly the operation that will free or wake it.
THEOREM WaitingSafety == Spec => [](PollErrors \/ sqFull \/ WaitingIsPending)
<1>1. (PollErrors \/ Watch) => (PollErrors \/ sqFull \/ WaitingIsPending)
  BY DEF Watch, AllWatched, Waits, WaitingIsPending
<1> QED BY <1>1, WatchInvariant, PTL

\* Under the same conditions the outcome of every connect() is polled for.
THEOREM ConnectSafety == Spec => [](PollErrors \/ sqFull \/ ConnectIsWatched)
<1>1. (PollErrors \/ Watch) => (PollErrors \/ sqFull \/ ConnectIsWatched)
  BY DEF Watch, AllWatched, ConnectingIsArmed, Waits, Live, ConnectIsWatched
<1> QED BY <1>1, WatchInvariant, PTL
=============================================================================
