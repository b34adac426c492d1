----------------------------- MODULE FlowTable -----------------------------
(***************************************************************************)
(* The flow table (src/flow.rs) and the buffer pool (src/buf.rs): which     *)
(* slot of the slab holds which guest flow, which buffer that flow owns,   *)
(* and the index from the guest's key to the slot.                         *)
(*                                                                         *)
(* The operators below are action fragments: the event loop (EventLoop)    *)
(* is the only caller, and every handler of it is a conjunction of them.   *)
(*                                                                         *)
(* Data that no guard of the loop looks at (addresses, sockets, payload,   *)
(* sequence numbers) is left out; last_active only orders flows by age, so *)
(* "idle since before the cutoff" and "least recently used" become a free  *)
(* choice among the flows the code filters.                                *)
(***************************************************************************)
EXTENDS Naturals, FiniteSets

CONSTANTS
    UdpKeys,    \* keys with proto = UDP
    PingKeys,   \* keys with proto = ICMP or ICMPv6
    TcpKeys,    \* keys with proto = TCP
    Slots,      \* indices of the slab: flow ids, used as io_uring user_data
    Bufs,       \* buffer ids of the pool
    TapBuf,     \* the buffer EventLoop::new took for reading the tap
    NoFlow, NoSlot

DgramKeys == UdpKeys \cup PingKeys
Keys == DgramKeys \cup TcpKeys

ASSUME KeysAssumption == TcpKeys \cap DgramKeys = {}
ASSUME BufsAssumption == IsFiniteSet(Bufs) /\ TapBuf \in Bufs
ASSUME SlotsAssumption == IsFiniteSet(Slots) /\ NoSlot \notin Slots

VARIABLES
    flows,      \* slab: the flow in each slot, or NoFlow
    free,       \* slots vacated by remove; a slot in neither was never used
    by_key,     \* index of the flows that still receive guest packets
    pool        \* copies of each buffer on the pool's free list

tableVars == <<flows, free, by_key, pool>>

\* What the loop's guards read of a flow.  state and poll_armed live in
\* flow::Tcp; a datagram flow has neither (state "none").
Flow == [key : Keys, buf : Bufs, closing : BOOLEAN,
         state : {"none", "Connecting", "Established"},
         poll_armed : BOOLEAN]

ASSUME NoFlowAssumption == NoFlow \notin Flow

TableTypeOK ==
    /\ flows \in [Slots -> Flow \cup {NoFlow}]
    /\ free \in SUBSET Slots
    /\ by_key \in [Keys -> Slots \cup {NoSlot}]
    /\ pool \in [Bufs -> Nat]

\* FlowTable::default, and a pool from which tap_buf has been taken.
TableInit ==
    /\ flows = [s \in Slots |-> NoFlow]
    /\ free = {}
    /\ by_key = [k \in Keys |-> NoSlot]
    /\ pool = [b \in Bufs |-> IF b = TapBuf THEN 0 ELSE 1]

-----------------------------------------------------------------------------
Present(id) == flows[id] # NoFlow
Live(id) == Present(id) /\ ~flows[id].closing

IsTcp(f) == f.key \in TcpKeys

\* The slab: every slot that insert has pushed so far.
Slab == {s \in Slots : Present(s)} \cup free

\* Faulty: the free list is never consulted.
InsertSlotsAlwaysPush == Slots \ Slab

\* insert reuses a vacated slot if there is one and grows the slab if not.
InsertSlots == IF free # {} THEN free ELSE Slots \ Slab

\* Faulty: hands out buffers that are in use.
FreeBufsUnchecked == Bufs

FreeBufs == {b \in Bufs : pool[b] > 0}

Alloc(b) == pool' = [pool EXCEPT ![b] = @ - 1]
Free(b) == pool' = [pool EXCEPT ![b] = @ + 1]

Insert(id, f) ==
    /\ flows' = [flows EXCEPT ![id] = f]
    /\ free' = free \ {id}
    /\ by_key' = [by_key EXCEPT ![f.key] = id]

\* The index without its entry for the flow in slot id, if it points there.
Unindexed(id) ==
    [k \in Keys |-> IF k = flows[id].key /\ by_key[k] = id
                    THEN NoSlot ELSE by_key[k]]

\* Drop the flow and give its buffer back: remove is always followed by
\* pool.free in the loop.  Removing from an empty slot does nothing.
Remove(id) ==
    IF Present(id)
    THEN /\ flows' = [flows EXCEPT ![id] = NoFlow]
         /\ free' = free \cup {id}
         /\ by_key' = Unindexed(id)
         /\ Free(flows[id].buf)
    ELSE UNCHANGED tableVars

\* Faulty: leaves the dying flow in the index.
MarkClosingStillIndexed(id, f) ==
    /\ flows' = [flows EXCEPT ![id] = [f EXCEPT !.closing = TRUE]]
    /\ UNCHANGED <<by_key, free, pool>>

\* f is the flow in slot id as the calling handler has left it.
MarkClosing(id, f) ==
    /\ flows' = [flows EXCEPT ![id] = [f EXCEPT !.closing = TRUE]]
    /\ by_key' = Unindexed(id)
    /\ UNCHANGED <<free, pool>>

SetFlow(id, f) ==
    /\ flows' = [flows EXCEPT ![id] = f]
    /\ UNCHANGED <<free, by_key, pool>>

-----------------------------------------------------------------------------
\* Candidates of the queries; age decides among them in the code.
Expirable == {s \in Slots : Live(s)}
\* Faulty: TCP flows are evicted like any other.
LruEvictableAnyKind == Expirable

LruEvictable == {s \in Slots : Live(s) /\ ~IsTcp(flows[s])}

\* Retransmit, probe and delayed-ack conditions all need an established flow.
TcpTimerDue ==
    {s \in Slots : Live(s) /\ IsTcp(flows[s]) /\ flows[s].state = "Established"}
=============================================================================
