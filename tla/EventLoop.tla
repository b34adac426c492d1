----------------------------- MODULE EventLoop ------------------------------
(***************************************************************************)
(* The event loop (src/uring.rs): one thread that submits io_uring         *)
(* operations, drains a batch of completions and handles them one by one.  *)
(*                                                                         *)
(* Only the kernel runs beside it, and the loop hears of it only in        *)
(* SubmitAndWait.  A handler that makes several pushes is therefore        *)
(* written as a chain of steps, one push each, driven by pc: between two   *)
(* of them nothing else is enabled.                                        *)
(*                                                                         *)
(*   pc = "start"      run() before its loop                               *)
(*   pc = "loop"       a completion of the batch is handled next, or, when *)
(*                     the batch is empty, the ring is waited for          *)
(*   pc = "udp"        handle_udp is splitting a frame of key `frame'      *)
(*   pc = "tap"        handle_tap_frame has returned                       *)
(*   pc = "periodic"   tcp_periodic, with `todo' the due flows left        *)
(*   pc = "expire"     expire_flows, with `todo' the expired flows left    *)
(*   pc = "stopped"    run() returned Ok                                   *)
(*   pc = "failed"     run() returned Err                                  *)
(*                                                                         *)
(* What a TCP segment, a socket read or a timer does to the byte stream is *)
(* the subject of TcpFlow; here it is one of the outcomes it can have for  *)
(* the flow table: nothing, a poll is armed, or the flow is removed.       *)
(***************************************************************************)
EXTENDS Ring

CONSTANTS
    PollErrors,     \* may the kernel complete a poll with an error?
    NoKey

ASSUME LoopAssumption == PollErrors \in BOOLEAN /\ NoKey \notin Keys

VARIABLES pc, frame, todo

loopVars == <<pc, frame, todo>>
vars == <<tableVars, ringVars, loopVars>>

Exited == pc \in {"stopped", "failed"}

\* Types of the table, the ring and the loop; the pool's free list never
\* gives out a buffer it does not hold (no count below zero).
TypeOK ==
    /\ TableTypeOK
    /\ RingTypeOK
    /\ pc \in {"start", "loop", "udp", "tap", "periodic", "expire",
               "stopped", "failed"}
    /\ frame \in Keys \cup {NoKey}
    /\ todo \in SUBSET Slots

Init ==
    /\ TableInit
    /\ RingInit
    /\ pc = "start"
    /\ frame = NoKey
    /\ todo = {}

Goto(l) == pc' = l /\ UNCHANGED <<frame, todo>>

-----------------------------------------------------------------------------
\* run() up to its loop: tap read, timer, one poll per stop fd.  Nothing
\* is in the queue before, so only the number of stop fds can fill it.
Start ==
    /\ pc = "start"
    /\ IF 2 + NumStops <= RingEntries
       THEN /\ sqArm' = [sqArm EXCEPT ![Tap] = 1, ![Timer] = 1, ![Stop] = NumStops]
            /\ Goto("loop")
            /\ UNCHANGED <<sqCancel, kern, cqe, canceled, sqFull>>
       ELSE /\ sqFull' = TRUE
            /\ Goto("failed")
            /\ UNCHANGED <<sqArm, sqCancel, kern, cqe, canceled>>
    /\ UNCHANGED tableVars

SubmitAndWait(done) ==
    /\ pc = "loop"
    /\ BatchHandled
    /\ Complete(done)
    /\ UNCHANGED <<tableVars, loopVars>>

\* Re-arm a reserved operation; a full queue ends the loop.
Resubmit(u) ==
    /\ \/ PushOp(u) /\ Goto("loop")
       \/ PushFull /\ Goto("failed")
    /\ UNCHANGED <<tableVars, cqe>>

-----------------------------------------------------------------------------
\* Faulty: the slot and the buffer are freed at once.
RemoveFlowAtOnce(id, f) == Remove(id) /\ PushCancel(id)

\* Faulty: the buffer goes back when the flow starts closing.
RemoveFlowFreesBuffer(id, f) ==
    IF ~IsTcp(f) \/ f.poll_armed
    THEN /\ flows' = [flows EXCEPT ![id] = [f EXCEPT !.closing = TRUE]]
         /\ by_key' = Unindexed(id)
         /\ Free(f.buf)
         /\ UNCHANGED free
         /\ PushCancel(id)
    ELSE Remove(id) /\ NoPush

\* Faulty: the operation is canceled but the flow not marked.
RemoveFlowUnmarked(id, f) ==
    IF ~IsTcp(f) \/ f.poll_armed
    THEN UNCHANGED tableVars /\ PushCancel(id)
    ELSE Remove(id) /\ NoPush

\* Faulty: the flow is marked but its operation not canceled.
RemoveFlowNoCancel(id, f) ==
    IF ~IsTcp(f) \/ f.poll_armed
    THEN MarkClosing(id, f) /\ NoPush
    ELSE Remove(id) /\ NoPush

\* Close the flow in slot id, f being the flow as the handler left it.  With
\* an operation pending the slot stays taken until the operation completes.
RemoveFlow(id, f) ==
    IF ~IsTcp(f) \/ f.poll_armed
    THEN MarkClosing(id, f) /\ PushCancel(id)
    ELSE Remove(id) /\ NoPush

\* arm_poll records the poll before it pushes it; all callers but
\* new_tcp_flow ignore a full queue.
ArmPoll(id, f) ==
    /\ SetFlow(id, [f EXCEPT !.poll_armed = TRUE])
    /\ PushOp(id) \/ PushFull

\* What tcp_data_to_guest leaves behind for an established flow: nothing to
\* do, the drained socket is polled again, or a failed read resets the flow.
TcpDataToGuest(id, f) ==
    \/ SetFlow(id, f) /\ NoPush
    \/ ~f.poll_armed /\ ArmPoll(id, f)
    \/ RemoveFlow(id, f)

-----------------------------------------------------------------------------
\* The flow new_flow (datagrams) or new_tcp_flow makes, with its operation
\* about to be armed.
FreshFlow(k, b) ==
    [key |-> k, buf |-> b, closing |-> FALSE,
     state |-> IF k \in TcpKeys THEN "Connecting" ELSE "none",
     poll_armed |-> k \in TcpKeys]

\* Faulty: a flow whose first operation did not fit is not undone.
NewFlowNotUndone(k) ==
    \/ UNCHANGED tableVars /\ NoPush
    \/ \E b \in FreeBufs, id \in InsertSlots :
         /\ PushOp(id) \/ PushFull
         /\ Alloc(b)
         /\ flows' = [flows EXCEPT ![id] =
                        IF HasRoom THEN FreshFlow(k, b) ELSE NoFlow]
         /\ free' = IF HasRoom THEN free \ {id} ELSE free \cup {id}
         /\ by_key' = [by_key EXCEPT ![k] = id]
    \/ /\ FreeBufs = {}
       /\ \E id \in LruEvictable : RemoveFlow(id, flows[id])

\* The socket, its connect and the policy check come first and may all
\* refuse the flow without a trace.  Otherwise the pool decides: a buffer is
\* left and the first operation is armed (or, with a full queue, all is
\* undone), or the flow is dropped and the oldest datagram flow evicted.
NewFlow(k) ==
    \/ UNCHANGED tableVars /\ NoPush
    \/ \E b \in FreeBufs, id \in InsertSlots :
         \/ PushOp(id) /\ Alloc(b) /\ Insert(id, FreshFlow(k, b))
         \/ /\ PushFull
            /\ free' = free \cup {id}
            /\ UNCHANGED <<flows, by_key, pool>>
    \/ /\ FreeBufs = {}
       /\ \E id \in LruEvictable : RemoveFlow(id, flows[id])

\* One datagram: sent on the flow's socket if there is one.
Forward(k) ==
    IF by_key[k] # NoSlot
    THEN UNCHANGED tableVars /\ NoPush
    ELSE NewFlow(k)

\* A UDP frame from the guest; a GSO super-frame holds several datagrams of
\* one key, each forwarded on its own, so each may evict a flow.
HandleUdp(k) ==
    /\ pc = "loop"
    /\ Take(Tap)
    /\ pc' = "udp" /\ frame' = k
    /\ UNCHANGED <<tableVars, sqArm, sqCancel, kern, canceled, sqFull, todo>>

ForwardSegment ==
    /\ pc = "udp"
    /\ Forward(frame)
    /\ UNCHANGED <<cqe, loopVars>>

LastSegment ==
    /\ pc = "udp"
    /\ Forward(frame)
    /\ pc' = "tap" /\ frame' = NoKey
    /\ UNCHANGED <<cqe, todo>>

HandleIcmpEcho(k) ==
    /\ pc = "loop"
    /\ Take(Tap)
    /\ Forward(k)
    /\ Goto("tap")

\* Segment for an existing TCP flow: a RST removes it, a flow that is still
\* connecting ignores anything else, as does a retransmitted SYN; the rest
\* moves data and may find both directions closed.
TcpFromGuest(id) ==
    \/ RemoveFlow(id, flows[id])
    \/ UNCHANGED tableVars /\ NoPush
    \/ flows[id].state = "Established" /\ TcpDataToGuest(id, flows[id])

\* Without a flow a SYN opens one; anything else is answered with a RST
\* built in the tap buffer, or ignored.
HandleTcp(k) ==
    /\ pc = "loop"
    /\ Take(Tap)
    /\ IF by_key[k] # NoSlot
       THEN TcpFromGuest(by_key[k])
       ELSE NewFlow(k)
    /\ Goto("tap")

\* Faulty: returns early without reading the tap again.
IgnoreFrameNoRead ==
    /\ pc = "loop"
    /\ Take(Tap)
    /\ UNCHANGED loopVars
    /\ UNCHANGED tableVars /\ NoPush

\* Frames that do not parse, carry no datagram, or are not the guest's.
IgnoreFrame ==
    /\ pc = "loop"
    /\ Take(Tap)
    /\ Goto("tap")
    /\ UNCHANGED tableVars /\ NoPush

SubmitTapRead == pc = "tap" /\ Resubmit(Tap)

TapReadEnds ==
    /\ pc = "loop"
    /\ Take(Tap)
    /\ Goto("stopped") \/ Goto("failed")
    /\ UNCHANGED tableVars /\ NoPush

HandleStop ==
    /\ pc = "loop"
    /\ Take(Stop)
    /\ Goto("stopped")
    /\ UNCHANGED tableVars /\ NoPush

-----------------------------------------------------------------------------
\* The 500 ms timer: TCP maintenance, then expiry, then the next timeout.
HandleTimer(due) ==
    /\ pc = "loop"
    /\ Take(Timer)
    /\ due \subseteq TcpTimerDue
    /\ pc' = "periodic" /\ todo' = due
    /\ UNCHANGED <<tableVars, sqArm, sqCancel, kern, canceled, sqFull, frame>>

PeriodicFlow(id) ==
    /\ pc = "periodic"
    /\ id \in todo
    /\ todo' = todo \ {id}
    /\ TcpDataToGuest(id, flows[id])
    /\ UNCHANGED <<cqe, pc, frame>>

BeginExpiry(expired) ==
    /\ pc = "periodic"
    /\ todo = {}
    /\ expired \subseteq Expirable
    /\ pc' = "expire" /\ todo' = expired
    /\ UNCHANGED <<tableVars, ringVars, frame>>

ExpireFlow(id) ==
    /\ pc = "expire"
    /\ id \in todo
    /\ todo' = todo \ {id}
    /\ RemoveFlow(id, flows[id])
    /\ UNCHANGED <<cqe, pc, frame>>

SubmitTimer == pc = "expire" /\ todo = {} /\ Resubmit(Timer)

-----------------------------------------------------------------------------
\* Completions of a flow's own operation.
TakeFlow(id) ==
    /\ pc = "loop"
    /\ Take(id)
    /\ UNCHANGED loopVars

\* The slot is empty, its flow is closing, or the result is ECANCELED.
ReapFlow(id) ==
    /\ TakeFlow(id)
    /\ ~Live(id) \/ canceled[id]
    /\ Remove(id)
    /\ canceled' = [canceled EXCEPT ![id] = FALSE]
    /\ UNCHANGED <<sqArm, sqCancel, kern, sqFull>>

\* A datagram, or an error of the socket: delivered to the guest (which
\* changes no state here), and the next recv armed; a full queue ends the loop.
DatagramReady(id) ==
    /\ pc = "loop"
    /\ Take(id)
    /\ Live(id) /\ ~IsTcp(flows[id])
    /\ \/ PushOp(id) /\ Goto("loop")
       \/ PushFull /\ Goto("failed")
    /\ UNCHANGED tableVars

\* Faulty: poll_armed stays set.
TcpSocketReadyStillArmed(id) ==
    /\ TakeFlow(id)
    /\ Live(id) /\ IsTcp(flows[id])
    /\ LET f == flows[id]
       IN  \/ f.state = "Connecting" /\ ArmPoll(id, [f EXCEPT !.state = "Established"])
           \/ f.state = "Established" /\ TcpDataToGuest(id, f)

\* Faulty: a connect that is still in progress is not polled again.
TcpSocketReadyNotWatched(id) ==
    /\ TakeFlow(id)
    /\ Live(id) /\ IsTcp(flows[id])
    /\ SetFlow(id, [flows[id] EXCEPT !.poll_armed = FALSE]) /\ NoPush

\* tcp_socket_ready: the connect has resolved, or there is data, EOF or an
\* error.  poll_armed is cleared before anything else happens.
TcpSocketReady(id) ==
    /\ TakeFlow(id)
    /\ Live(id) /\ IsTcp(flows[id])
    /\ LET f == [flows[id] EXCEPT !.poll_armed = FALSE]
       IN  \/ RemoveFlow(id, f)
           \/ /\ f.state = "Connecting"
              /\ ArmPoll(id, [f EXCEPT !.state = "Established"])
           \/ f.state = "Established" /\ TcpDataToGuest(id, f)

\* A poll that fails resets the flow, with poll_armed still set.
PollFails(id) ==
    /\ PollErrors
    /\ TakeFlow(id)
    /\ Live(id) /\ IsTcp(flows[id])
    /\ RemoveFlow(id, flows[id])

-----------------------------------------------------------------------------
Terminated == Exited /\ UNCHANGED vars

\* Every step the loop's thread can take without waiting.
Handle ==
    \/ Start
    \/ \E k \in UdpKeys : HandleUdp(k)
    \/ ForwardSegment
    \/ LastSegment
    \/ \E k \in PingKeys : HandleIcmpEcho(k)
    \/ \E k \in TcpKeys : HandleTcp(k)
    \/ IgnoreFrame
    \/ SubmitTapRead
    \/ TapReadEnds
    \/ HandleStop
    \/ \E due \in SUBSET Slots : HandleTimer(due)
    \/ \E id \in Slots : PeriodicFlow(id)
    \/ \E expired \in SUBSET Slots : BeginExpiry(expired)
    \/ \E id \in Slots : ExpireFlow(id)
    \/ SubmitTimer
    \/ \E id \in Slots : ReapFlow(id)
    \/ \E id \in Slots : DatagramReady(id)
    \/ \E id \in Slots : TcpSocketReady(id)
    \/ \E id \in Slots : PollFails(id)

Next ==
    \/ Handle
    \/ \E done \in SUBSET UserData : SubmitAndWait(done)
    \/ Terminated

Spec == Init /\ [][Next]_vars

\* The thread keeps running, and a canceled operation completes: the kernel
\* owes a completion for it, which one of the next waits drains.  Nothing
\* is assumed about operations that no cancel request has reached.
Fairness ==
    /\ WF_vars(Handle)
    /\ \A id \in Slots :
         SF_vars(\E done \in SUBSET UserData :
                   id \in done /\ canceled[id] /\ SubmitAndWait(done))

FairSpec == Spec /\ Fairness

-----------------------------------------------------------------------------
(***************************************************************************)
(* Properties.                                                             *)
(***************************************************************************)

\* A completion never hits an empty slot or another flow (flow.rs, "Slots
\* of removed flows are reused only after their pending recv completed"):
\* a slot has at most one operation on its way, and only while the flow that
\* started it is still there and waits for it.
NoStaleCompletion ==
    \A s \in Slots :
        /\ Pending(s) <= 1
        /\ Pending(s) = 1 =>
              Present(s) /\ (IsTcp(flows[s]) => flows[s].poll_armed)

\* Every buffer is in exactly one place: the pool's free list, the tap
\* read, or one flow.  So the kernel never writes into a buffer that has
\* been given to someone else (push's SAFETY comment), and none leaks.
BufferOwnership ==
    /\ \A b \in Bufs : pool[b] <= 1
    /\ pool[TapBuf] = 0
    /\ \A s \in Slots : Present(s) =>
          /\ flows[s].buf # TapBuf
          /\ pool[flows[s].buf] = 0
          /\ \A r \in Slots : Present(r) /\ flows[r].buf = flows[s].buf => r = s
    /\ \A b \in Bufs \ {TapBuf} :
          pool[b] = 0 => \E s \in Slots : Present(s) /\ flows[s].buf = b

\* The key index holds exactly the flows that are not closing, so a guest
\* packet never lands in a dying flow, and no live flow is unreachable.
KeyIndexExact ==
    /\ \A s \in Slots : Live(s) => by_key[flows[s].key] = s
    /\ \A k \in Keys : by_key[k] # NoSlot =>
          Live(by_key[k]) /\ flows[by_key[k]].key = k

\* A flow that only a completion can free has one coming: every datagram
\* flow, every TCP flow with poll_armed set, and every closing flow.  This
\* is what poll_armed's comment says of it and what remove_flow relies on.
\* (While its own datagram handler runs there is no gap: it re-arms.)
WaitingIsPending ==
    ~Exited =>
      \A s \in Slots :
        Present(s) /\ (flows[s].poll_armed \/ ~IsTcp(flows[s]) \/ flows[s].closing)
            => Pending(s) = 1

\* A cancel request only ever reaches the operation of a closing flow, even
\* when the slot is reused in the batch that queued the request.
CancelHitsClosing ==
    \A s \in Slots : canceled[s] => Present(s) /\ flows[s].closing

\* A flow whose connect() is in progress has its poll outstanding, so the
\* outcome is always seen and the guest gets its SYN-ACK or RST.
ConnectIsWatched ==
    ~Exited =>
      \A s \in Slots : Live(s) /\ flows[s].state = "Connecting" => Pending(s) = 1

\* EventLoop::new sizes the ring "so a full burst of completions can re-arm
\* without overflowing the SQ": no push ever finds the queue full.
NoOverflow == ~sqFull

\* The slab never outgrows the flows that can exist at once: one per buffer
\* other than the tap's.
SlabBounded == Cardinality(Slab) <= Cardinality(Bufs) - 1

\* Exactly one tap read and one timeout are outstanding whenever the loop
\* waits, so guest frames and timers are never missed or doubled.
LoopIsFed ==
    pc = "loop" /\ BatchHandled => Pending(Tap) = 1 /\ Pending(Timer) = 1

\* A step that forwards a datagram, or handles an echo request or a segment
\* of a key that has no flow: the steps that may make room for a new flow.
MakesRoom ==
    \/ pc = "udp"
    \/ \E k \in PingKeys : by_key[k] = NoSlot /\ HandleIcmpEcho(k)
    \/ \E k \in TcpKeys : by_key[k] = NoSlot /\ HandleTcp(k)

\* Making room for a new flow, be it for a datagram, an echo request or a
\* SYN, never costs a TCP flow (lru_evictable: "TCP flows are never evicted
\* because they carry guest-visible connection state").
TcpNeverEvicted ==
    [][MakesRoom =>
         \A s \in Slots :
            Live(s) /\ IsTcp(flows[s]) => flows'[s] = flows[s]]_vars

\* A closing flow is reaped: its slot and buffer come back.
ClosingIsReaped ==
    \A s \in Slots :
        (Present(s) /\ flows[s].closing) ~> (~Present(s) \/ Exited)

-----------------------------------------------------------------------------
\* The flows as leases of their buffers, and the buffers of datagram flows
\* whose recv is queued or in the kernel.
FlowLeases ==
    {[buf |-> flows[s].buf, key |-> flows[s].key, closing |-> flows[s].closing] :
        s \in {r \in Slots : Present(r)}}

BuffersInKernel ==
    {flows[s].buf : s \in {r \in Slots : /\ Present(r) /\ ~IsTcp(flows[r])
                                          /\ sqArm[r] + kern[r] > 0}}

Lease == INSTANCE FlowLease
    WITH LeaseBufs <- Bufs \ {TapBuf}, StreamKeys <- TcpKeys, PacketKeys <- DgramKeys,
         leases <- FlowLeases, reading <- BuffersInKernel

\* Slots, free list, index, queue and completions implement FlowLease: no
\* handler ends a flow while the kernel may write into its buffer, gives a
\* buffer or a key to two open flows, or frees a datagram flow that was not
\* closed first (remove_flow defers to the completion of the pending recv).
ImplementsLease == Lease!Spec
=============================================================================
