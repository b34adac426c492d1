----------------------- MODULE EventLoop_lease_proofs -----------------------
(***************************************************************************)
(* EventLoop implements FlowLease, for any constants.  A handler touches   *)
(* at most one flow, so a step of the loop is, seen as leases, nothing or  *)
(* one abstract action: the lemmas of the first part say which, given what *)
(* happened to that one slot, and the second part finds the slot.          *)
(* Uniqueness of buffers (BufferOwnership) makes the map from slots to     *)
(* leases injective; NoStaleCompletion and Left say that a completed recv  *)
(* was the only one that could write into the buffer.                      *)
(***************************************************************************)
EXTENDS EventLoop_proofs

LeaseOf(f) == [buf |-> f.buf, key |-> f.key, closing |-> f.closing]

\* Slot s holds a datagram flow whose recv is queued or in the kernel.
Reads(s) == Present(s) /\ ~IsTcp(flows[s]) /\ sqArm[s] + kern[s] > 0

\* What FlowLease can see of slot s is as it was.
Kept(s) ==
    /\ Present(s)' <=> Present(s)
    /\ Present(s) => LeaseOf(flows'[s]) = LeaseOf(flows[s])
    /\ Reads(s)' <=> Reads(s)

LeaseStep == Lease!Next \/ UNCHANGED Lease!leaseVars

-----------------------------------------------------------------------------
(* From one slot to one abstract action                                    *)

\* The fields of a lease are those of its flow.
LEMMA LeaseFields ==
    ASSUME NEW f
    PROVE  /\ LeaseOf(f).buf = f.buf /\ LeaseOf(f).key = f.key
           /\ LeaseOf(f).closing = f.closing
BY DEF LeaseOf

\* The mapped variables, as sets over the slots.
LEMMA MappedSets ==
    /\ FlowLeases = {LeaseOf(flows[s]) : s \in {r \in Slots : Present(r)}}
    /\ BuffersInKernel = {flows[s].buf : s \in {r \in Slots : Reads(r)}}
    /\ FlowLeases' = {LeaseOf(flows'[s]) : s \in {r \in Slots : Present(r)'}}
    /\ BuffersInKernel' = {flows'[s].buf : s \in {r \in Slots : Reads(r)'}}
BY DEF FlowLeases, BuffersInKernel, LeaseOf, Reads

\* Two flows never have the same buffer, so never the same lease.
LEMMA LeaseInjective ==
    ASSUME TableInv, NEW r \in Slots, NEW s \in Slots, Present(r), Present(s),
           flows[r].buf = flows[s].buf
    PROVE  r = s
BY DEF TableInv, BufferOwnership

\* A step that changes no slot's lease is a stuttering step.
LEMMA StutterStep ==
    ASSUME \A s \in Slots : Kept(s)
    PROVE  LeaseStep
<1>1. FlowLeases' = FlowLeases
  BY MappedSets DEF Kept
<1>2. \A s \in Slots : Reads(s) => flows'[s].buf = flows[s].buf
  BY LeaseFields DEF Kept, Reads
<1>3. BuffersInKernel' = BuffersInKernel
  BY <1>2, MappedSets DEF Kept
<1> QED BY <1>1, <1>3 DEF LeaseStep, Lease!leaseVars

\* A flow that starts closing is Close of its lease (mark_closing).
LEMMA CloseStep ==
    ASSUME TableInv, NEW id \in Slots, Live(id), Present(id)',
           flows'[id].buf = flows[id].buf, flows'[id].key = flows[id].key,
           flows'[id].closing = TRUE, Reads(id)' <=> Reads(id),
           \A s \in Slots : s # id => Kept(s)
    PROVE  LeaseStep
<1> DEFINE l == LeaseOf(flows[id])
           m == LeaseOf(flows'[id])
<1>1. l \in FlowLeases /\ ~l.closing
  BY MappedSets, LeaseFields DEF Live
<1>2. m = [buf |-> l.buf, key |-> l.key, closing |-> TRUE]
  BY LeaseFields DEF LeaseOf
<1>3. \A s \in Slots : Present(s) /\ s # id => LeaseOf(flows[s]) # l
  BY LeaseInjective, LeaseFields DEF Live
<1>4. FlowLeases' = (FlowLeases \ {l}) \cup {m}
  <2> HIDE DEF l, m
  <2>0. l = LeaseOf(flows[id]) /\ m = LeaseOf(flows'[id]) /\ Present(id)
    BY DEF l, m, Live
  <2>1. ASSUME NEW x \in FlowLeases' PROVE x \in (FlowLeases \ {l}) \cup {m}
    <3>1. PICK s \in Slots : Present(s)' /\ x = LeaseOf(flows'[s])
      BY <2>1, MappedSets
    <3>2. CASE s = id
      BY <2>0, <3>1, <3>2
    <3>3. CASE s # id
      BY <1>3, <3>1, <3>3, MappedSets DEF Kept
    <3> QED BY <3>2, <3>3
  <2>2. ASSUME NEW x \in (FlowLeases \ {l}) \cup {m} PROVE x \in FlowLeases'
    <3>1. CASE x = m
      BY <2>0, <3>1, MappedSets
    <3>2. CASE x \in FlowLeases \ {l}
      <4>1. PICK s \in Slots : Present(s) /\ x = LeaseOf(flows[s])
        BY <3>2, MappedSets
      <4>2. s # id
        BY <2>0, <3>2, <4>1
      <4> QED BY <4>1, <4>2, MappedSets DEF Kept
    <3> QED BY <2>2, <3>1, <3>2
  <2> QED BY <2>1, <2>2
<1>5. \A s \in Slots : Reads(s) => flows'[s].buf = flows[s].buf
  BY LeaseFields DEF Kept, Reads
<1>6. BuffersInKernel' = BuffersInKernel
  BY <1>5, MappedSets DEF Kept
<1> HIDE DEF l, m
<1>7. Lease!Close(l)
  BY <1>1, <1>2, <1>4, <1>6 DEF Lease!Close
<1> QED BY <1>1, <1>7 DEF LeaseStep, Lease!Next

\* A slot that is vacated is Release of its lease, if nothing reads into the
\* buffer any more (FlowTable::remove with pool.free).
LEMMA ReleaseStep ==
    ASSUME TableInv, NEW id \in Slots, Present(id), ~Present(id)', ~Reads(id),
           flows[id].closing \/ IsTcp(flows[id]),
           \A s \in Slots : s # id => Kept(s)
    PROVE  LeaseStep
<1> DEFINE l == LeaseOf(flows[id])
<1>1. l \in FlowLeases /\ (l.closing \/ l.key \in TcpKeys) /\ l.buf = flows[id].buf
  BY MappedSets, LeaseFields DEF IsTcp
<1>2. \A s \in Slots : Present(s) /\ s # id => LeaseOf(flows[s]) # l
  BY LeaseInjective, LeaseFields
<1>3. l.buf \notin BuffersInKernel
  BY <1>1, LeaseInjective, MappedSets DEF Reads
<1>4. FlowLeases' = FlowLeases \ {l}
  <2> HIDE DEF l
  <2>0. l = LeaseOf(flows[id])
    BY DEF l
  <2>1. ASSUME NEW x \in FlowLeases' PROVE x \in FlowLeases \ {l}
    <3>1. PICK s \in Slots : Present(s)' /\ x = LeaseOf(flows'[s])
      BY <2>1, MappedSets
    <3> QED BY <1>2, <3>1, MappedSets DEF Kept
  <2>2. ASSUME NEW x \in FlowLeases \ {l} PROVE x \in FlowLeases'
    <3>1. PICK s \in Slots : Present(s) /\ x = LeaseOf(flows[s])
      BY <2>2, MappedSets
    <3>2. s # id
      BY <2>0, <2>2, <3>1
    <3> QED BY <3>1, <3>2, MappedSets DEF Kept
  <2> QED BY <2>1, <2>2
<1>5. \A s \in Slots : Reads(s) <=> Reads(s)'
  BY DEF Kept, Reads
<1>6. \A s \in Slots : Reads(s) => flows'[s].buf = flows[s].buf
  BY LeaseFields DEF Kept, Reads
<1>7. BuffersInKernel' = BuffersInKernel
  BY <1>5, <1>6, MappedSets
<1> HIDE DEF l
<1>8. Lease!Release(l)
  BY <1>1, <1>3, <1>4, <1>7 DEF Lease!Release
<1> QED BY <1>1, <1>8 DEF LeaseStep, Lease!Next

\* A slot that is filled is Open of a lease nobody holds: the buffer was on
\* the free list and the key not in the index (insert with pool.alloc).
LEMMA OpenStep ==
    ASSUME TableInv, NEW id \in Slots, ~Present(id), Present(id)',
           NEW k \in Keys, NEW b \in Bufs, by_key[k] = NoSlot, pool[b] > 0,
           flows'[id].buf = b, flows'[id].key = k, flows'[id].closing = FALSE,
           Reads(id)' <=> k \in DgramKeys,
           \A s \in Slots : s # id => Kept(s)
    PROVE  LeaseStep
<1> DEFINE m == LeaseOf(flows'[id])
<1>1. m = [buf |-> b, key |-> k, closing |-> FALSE]
  BY DEF LeaseOf
<1>2. \A s \in Slots : Present(s) => flows[s].buf # b /\ b # TapBuf
  BY DEF TableInv, TableTypeOK, BufferOwnership
<1>3. \A l \in FlowLeases : l.buf # b
  BY <1>2, MappedSets, LeaseFields
<1>4. \A l \in FlowLeases : l.key = k => l.closing
  BY SlotsAssumption, MappedSets, LeaseFields DEF TableInv, KeyIndexExact, Live
<1>5. FlowLeases' = FlowLeases \cup {m}
  BY MappedSets DEF Kept
<1>6. BuffersInKernel' = IF k \in DgramKeys THEN BuffersInKernel \cup {b}
                                            ELSE BuffersInKernel
  <2>1. ~Reads(id) /\ \A s \in Slots : Reads(s) => flows'[s].buf = flows[s].buf
    BY LeaseFields DEF Kept, Reads
  <2> QED BY <2>1, MappedSets DEF Kept
<1>7. b \in Bufs \ {TapBuf} /\ k \in TcpKeys \cup DgramKeys
  BY DEF TableInv, TableTypeOK, BufferOwnership, Keys
<1> HIDE DEF m
<1>8. Lease!Open(b, k)
  BY <1>1, <1>3, <1>4, <1>5, <1>6 DEF Lease!Open
<1> QED BY <1>7, <1>8 DEF LeaseStep, Lease!Next

\* A recv that is armed again is ReadAgain (submit_flow_recv).
LEMMA ReadAgainStep ==
    ASSUME TableInv, NEW id \in Slots, Live(id), ~IsTcp(flows[id]),
           UNCHANGED flows, ~Reads(id), Reads(id)',
           \A s \in Slots : s # id => Kept(s)
    PROVE  LeaseStep
<1> DEFINE l == LeaseOf(flows[id])
<1>1. l \in FlowLeases /\ ~l.closing /\ l.key \in DgramKeys /\ l.buf = flows[id].buf
  BY MappedSets, LeaseFields DEF Live, Present, TableInv, TableTypeOK, Flow, Keys, IsTcp
<1>2. l.buf \notin BuffersInKernel
  BY <1>1, LeaseInjective, MappedSets DEF Reads, Live
<1>3. FlowLeases' = FlowLeases
  BY MappedSets DEF Present
<1>4. BuffersInKernel' = BuffersInKernel \cup {l.buf}
  BY <1>1, MappedSets DEF Kept
<1> HIDE DEF l
<1>5. Lease!ReadAgain(l)
  BY <1>1, <1>2, <1>3, <1>4 DEF Lease!ReadAgain
<1> QED BY <1>1, <1>5 DEF LeaseStep, Lease!Next

\* Completions that leave the kernel are HandBack (submit_and_wait).
LEMMA HandBackStep ==
    ASSUME TableInv, UNCHANGED flows, \A s \in Slots : Reads(s)' => Reads(s)
    PROVE  LeaseStep
<1> DEFINE bs == BuffersInKernel \ BuffersInKernel'
<1>1. FlowLeases' = FlowLeases
  BY MappedSets DEF Present
<1>2. BuffersInKernel' \subseteq BuffersInKernel
  BY MappedSets
<1>3. BuffersInKernel \subseteq Bufs \ {TapBuf}
  BY MappedSets DEF TableInv, TableTypeOK, BufferOwnership, Reads, Present, Flow
<1>4. BuffersInKernel' = BuffersInKernel \ bs
  BY <1>2
<1>5. bs \in SUBSET (Bufs \ {TapBuf})
  BY <1>3
<1> HIDE DEF bs
<1>6. Lease!HandBack(bs)
  BY <1>1, <1>4 DEF Lease!HandBack
<1> QED BY <1>5, <1>6 DEF LeaseStep, Lease!Next

-----------------------------------------------------------------------------
(* From a handler to its slot                                              *)

\* A push for a slot without a datagram flow, a cancel request or a push
\* for the loop's own operations reads into no further buffer.
LEMMA UntouchedKept ==
    ASSUME RingTypeOK, NEW id, NEW s \in Slots, s # id, flows'[s] = flows[s],
           NoPush \/ PushFull \/ PushOp(id) \/ PushCancel(id)
    PROVE  Kept(s)
<1>1. sqArm'[s] = sqArm[s] /\ kern'[s] = kern[s]
  BY DEF RingTypeOK, UserData, NoPush, PushFull, PushOp, PushCancel
<1> QED BY <1>1 DEF Kept, Present, Reads, IsTcp, LeaseOf

\* Neither table nor ring changes, except for a push that is not a recv.
LEMMA IdleLease ==
    ASSUME Core, UNCHANGED flows, NEW u \in {Tap, Timer},
           NoPush \/ PushFull \/ PushOp(u)
    PROVE  LeaseStep
<1>1. \A s \in Slots : Kept(s)
  BY UntouchedKept, UserDataAssumption DEF Core, OpsInv
<1> QED BY <1>1, StutterStep

\* remove_flow closes the lease, or ends it at once if it is an idle
\* stream's.
LEMMA RemoveFlowLease ==
    ASSUME Core, NEW id \in Slots, NEW f, Live(id), SameFlow(id, f),
           RemoveFlow(id, f)
    PROVE  LeaseStep
<1>0. RingTypeOK /\ TableInv /\ IsTcp(f) = IsTcp(flows[id]) /\ Present(id)
  BY DEF Core, OpsInv, SameFlow, IsTcp, Live
<1>1. CASE ~IsTcp(f) \/ f.poll_armed
  <2>1. MarkClosing(id, f) /\ PushCancel(id)
    BY <1>1 DEF RemoveFlow
  <2>2. /\ Present(id)' /\ flows'[id].closing /\ flows'[id].key = f.key
        /\ \A s \in Slots : s # id => flows'[s] = flows[s]
    BY <1>0, <2>1, MarkClosingTable
  <2>3. flows'[id].buf = f.buf /\ flows'[id].closing = TRUE
    BY <1>0, <2>1 DEF MarkClosing, SameFlow, Flow, TableInv, TableTypeOK
  <2>4. f.key = flows[id].key /\ f.buf = flows[id].buf
    BY DEF SameFlow
  <2>5. Reads(id)' <=> Reads(id)
    BY <1>0, <2>1, <2>2, <2>4 DEF Reads, PushCancel, IsTcp
  <2> QED BY <1>0, <2>1, <2>2, <2>3, <2>4, <2>5, UntouchedKept, CloseStep
<1>2. CASE IsTcp(f) /\ ~f.poll_armed
  <2>1. Remove(id) /\ NoPush
    BY <1>2 DEF RemoveFlow
  <2>2. ~Present(id)' /\ \A s \in Slots : s # id => flows'[s] = flows[s]
    BY <1>0, <2>1, RemoveTable
  <2>3. ~Reads(id)
    BY <1>0, <1>2 DEF Reads
  <2> QED BY <1>0, <1>2, <2>1, <2>2, <2>3, UntouchedKept, ReleaseStep
<1> QED BY <1>1, <1>2

\* state and poll_armed of a TCP flow are no part of its lease, and its poll
\* reads into no buffer.
LEMMA SetFlowLease ==
    ASSUME Core, NEW id \in Slots, NEW f, Live(id), SameFlow(id, f), IsTcp(f),
           SetFlow(id, f), NoPush \/ PushFull \/ PushOp(id)
    PROVE  LeaseStep
<1>1. /\ Live(id)' /\ flows'[id] = f
      /\ \A s \in Slots : s # id => flows'[s] = flows[s]
  BY SetFlowTable DEF Core
<1>2. Kept(id)
  BY <1>1 DEF Kept, SameFlow, LeaseOf, Reads, IsTcp, Live
<1>3. \A s \in Slots : Kept(s)
  BY <1>1, <1>2, UntouchedKept DEF Core, OpsInv
<1> QED BY <1>3, StutterStep

\* tcp_data_to_guest at most closes or ends the lease.
LEMMA TcpDataToGuestLease ==
    ASSUME Core, NEW id \in Slots, NEW f, Live(id), SameFlow(id, f), IsTcp(f),
           TcpDataToGuest(id, f)
    PROVE  LeaseStep
<1>1. CASE SetFlow(id, f) /\ NoPush
  BY <1>1, SetFlowLease
<1>2. CASE ArmPoll(id, f)
  <2> DEFINE g == [f EXCEPT !.poll_armed = TRUE]
  <2>1. SameFlow(id, g) /\ IsTcp(g)
    BY DEF SameFlow, Flow, IsTcp
  <2>2. SetFlow(id, g) /\ (PushOp(id) \/ PushFull)
    BY <1>2 DEF ArmPoll
  <2> HIDE DEF g
  <2> QED BY <2>1, <2>2, SetFlowLease
<1>3. CASE RemoveFlow(id, f)
  BY <1>3, RemoveFlowLease
<1> QED BY <1>1, <1>2, <1>3 DEF TcpDataToGuest

\* A new flow opens a lease; an eviction closes one.
LEMMA NewFlowLease ==
    ASSUME Core, NEW k \in Keys, by_key[k] = NoSlot, NewFlow(k)
    PROVE  LeaseStep
<1>0. RingTypeOK /\ TableInv
  BY DEF Core, OpsInv
<1>1. CASE UNCHANGED tableVars /\ NoPush
  BY <1>1, IdleLease DEF tableVars
<1>2. ASSUME NEW b \in FreeBufs, NEW id \in InsertSlots,
             PushOp(id), Alloc(b), Insert(id, FreshFlow(k, b))
      PROVE  LeaseStep
  <2> DEFINE g == FreshFlow(k, b)
  <2>1. g \in Flow /\ g.buf = b /\ g.key = k /\ g.closing = FALSE
    BY DEF FreshFlow, Flow, FreeBufs
  <2>2. b \in Bufs /\ pool[b] > 0
    BY DEF FreeBufs
  <2>3. Alloc(g.buf) /\ Insert(id, g)
    BY <1>2, <2>1
  <2> HIDE DEF g
  <2>4. /\ id \in Slots /\ ~Present(id) /\ Live(id)' /\ flows'[id] = g
        /\ \A s \in Slots : s # id => flows'[s] = flows[s]
    BY <1>0, <2>1, <2>3, InsertTable
  <2>5. sqArm'[id] + kern'[id] > 0
    BY <1>0, <1>2, <2>4 DEF PushOp, RingTypeOK, UserData
  <2>6. Reads(id)' <=> k \in DgramKeys
    BY <2>1, <2>4, <2>5, KeysAssumption DEF Reads, Live, IsTcp, Keys
  <2>7. \A s \in Slots : s # id => Kept(s)
    BY <1>0, <1>2, <2>4, UntouchedKept
  <2> QED BY <1>0, <2>1, <2>2, <2>4, <2>6, <2>7, OpenStep DEF Live
<1>3. CASE PushFull /\ UNCHANGED flows
  BY <1>3, IdleLease
<1>4. ASSUME NEW id \in LruEvictable, RemoveFlow(id, flows[id])
      PROVE  LeaseStep
  <2>1. id \in Slots /\ Live(id)
    BY DEF LruEvictable
  <2> QED BY <1>4, <2>1, LiveSameFlow, RemoveFlowLease
<1> QED BY <1>1, <1>2, <1>3, <1>4 DEF NewFlow

\* One datagram of the guest.
LEMMA ForwardLease ==
    ASSUME Core, NEW k \in DgramKeys, Forward(k)
    PROVE  LeaseStep
<1>1. CASE by_key[k] # NoSlot
  BY <1>1, IdleLease DEF Forward, tableVars
<1>2. CASE by_key[k] = NoSlot
  BY <1>2, NewFlowLease DEF Forward, Keys
<1> QED BY <1>1, <1>2

\* A segment for an indexed flow.
LEMMA TcpFromGuestLease ==
    ASSUME Core, NEW k \in TcpKeys, by_key[k] # NoSlot, TcpFromGuest(by_key[k])
    PROVE  LeaseStep
<1> DEFINE id == by_key[k]
<1>1. id \in Slots /\ Live(id) /\ IsTcp(flows[id])
  BY DEF Core, TableInv, TableTypeOK, KeyIndexExact, IsTcp, Keys
<1>2. SameFlow(id, flows[id]) /\ TcpFromGuest(id)
  BY <1>1, LiveSameFlow
<1> HIDE DEF id
<1>3. CASE RemoveFlow(id, flows[id])
  BY <1>1, <1>2, <1>3, RemoveFlowLease
<1>4. CASE UNCHANGED tableVars /\ NoPush
  BY <1>4, IdleLease DEF tableVars
<1>5. CASE TcpDataToGuest(id, flows[id])
  BY <1>1, <1>2, <1>5, TcpDataToGuestLease
<1> QED BY <1>2, <1>3, <1>4, <1>5 DEF TcpFromGuest

\* A completed poll.
LEMMA TcpSocketReadyLease ==
    ASSUME Core, NEW id \in Slots, TcpSocketReady(id)
    PROVE  LeaseStep
<1> DEFINE f == [flows[id] EXCEPT !.poll_armed = FALSE]
<1>1. Live(id) /\ IsTcp(flows[id])
  BY DEF TcpSocketReady
<1>2. flows[id] \in Flow
  BY <1>1 DEF Core, TableInv, TableTypeOK, Live, Present
<1>3. SameFlow(id, f) /\ IsTcp(f)
  BY <1>1, <1>2 DEF SameFlow, IsTcp, Flow
<1>4. \/ RemoveFlow(id, f)
      \/ ArmPoll(id, [f EXCEPT !.state = "Established"])
      \/ TcpDataToGuest(id, f)
  BY DEF TcpSocketReady
<1> HIDE DEF f
<1>5. CASE RemoveFlow(id, f)
  BY <1>1, <1>3, <1>5, RemoveFlowLease
<1>6. CASE TcpDataToGuest(id, f)
  BY <1>1, <1>3, <1>6, TcpDataToGuestLease
<1>7. CASE ArmPoll(id, [f EXCEPT !.state = "Established"])
  <2> DEFINE g == [[f EXCEPT !.state = "Established"] EXCEPT !.poll_armed = TRUE]
  <2>1. SameFlow(id, g) /\ IsTcp(g)
    BY <1>3 DEF SameFlow, Flow, IsTcp
  <2>2. SetFlow(id, g) /\ (PushOp(id) \/ PushFull)
    BY <1>7 DEF ArmPoll
  <2> HIDE DEF g
  <2> QED BY <1>1, <2>1, <2>2, SetFlowLease
<1> QED BY <1>4, <1>5, <1>6, <1>7

\* The completion of a closing flow's operation: the flow is there, closing
\* (a cancel only reaches those), and nothing else reads into its buffer.
LEMMA ReapFlowLease ==
    ASSUME Core, NEW id \in Slots, ReapFlow(id)
    PROVE  LeaseStep
<1>1. Take(id) /\ Remove(id) /\ UNCHANGED <<sqArm, kern>> /\ (~Live(id) \/ canceled[id])
  BY DEF ReapFlow, TakeFlow
<1>2. Left(id) = 0 /\ Pending(id) = 1
  BY <1>1, TakeOne DEF UserData
<1>3. Present(id) /\ flows[id].closing
  BY <1>1, <1>2 DEF Core, OpsInv, NoStaleCompletion, CancelHitsClosing, Live
<1>4. ~Present(id)' /\ \A s \in Slots : s # id => flows'[s] = flows[s]
  BY <1>1, <1>3, RemoveTable DEF Core
<1>5. ~Reads(id)
  BY <1>1, <1>2 DEF Reads, Left, Take, Core, OpsInv, RingTypeOK, UserData
<1>6. \A s \in Slots : s # id => Kept(s)
  BY <1>1, <1>4 DEF Kept, Present, Reads, IsTcp, LeaseOf
<1> QED BY <1>3, <1>4, <1>5, <1>6, ReleaseStep DEF Core

\* A datagram or an error of the socket.
LEMMA DatagramReadyLease ==
    ASSUME Core, NEW id \in Slots, DatagramReady(id)
    PROVE  LeaseStep
<1>1. /\ Take(id) /\ Live(id) /\ ~IsTcp(flows[id]) /\ UNCHANGED flows
      /\ PushOp(id) \/ PushFull
  BY DEF DatagramReady, tableVars
<1>2. CASE PushFull
  BY <1>1, <1>2, IdleLease
<1>3. CASE PushOp(id)
  <2>1. Left(id) = 0
    BY <1>1, TakeOne DEF UserData
  <2>2. ~Reads(id)
    BY <1>1, <2>1 DEF Reads, Left, Take, Core, OpsInv, RingTypeOK, UserData
  <2>3. Reads(id)'
    BY <1>1, <1>3 DEF Reads, Live, Present, IsTcp, PushOp, Core, OpsInv, RingTypeOK, UserData
  <2>4. \A s \in Slots : s # id => Kept(s)
    BY <1>1, <1>3, UntouchedKept DEF Core, OpsInv
  <2> QED BY <1>1, <2>2, <2>3, <2>4, ReadAgainStep DEF Core
<1> QED BY <1>1, <1>2, <1>3

\* Every step of the loop is a step of FlowLease or leaves it alone.
LEMMA NextLease == IInv /\ [Next]_vars => LeaseStep
<1> SUFFICES ASSUME IInv, [Next]_vars PROVE LeaseStep
  OBVIOUS
<1>0. Core /\ LoopInv
  BY DEF IInv
<1>I. ASSUME UNCHANGED flows, NoPush \/ PushFull \/ PushOp(Tap) \/ PushOp(Timer)
      PROVE  LeaseStep
  BY <1>0, <1>I, IdleLease
<1>1. CASE Start
  <2>1. \A s \in Slots : sqArm'[s] = sqArm[s]
    BY <1>0, <1>1, UserDataAssumption DEF Start, Core, OpsInv, RingTypeOK, UserData
  <2>2. \A s \in Slots : Kept(s)
    BY <1>1, <2>1 DEF Start, tableVars, Kept, Present, Reads, IsTcp, LeaseOf
  <2> QED BY <2>2, StutterStep
<1>2. ASSUME NEW k \in UdpKeys, HandleUdp(k) PROVE LeaseStep
  BY <1>2, <1>I DEF HandleUdp, NoPush, tableVars
<1>3. CASE ForwardSegment \/ LastSegment
  <2>1. frame \in DgramKeys /\ Forward(frame)
    BY <1>0, <1>3 DEF ForwardSegment, LastSegment, LoopInv, DgramKeys
  <2> QED BY <1>0, <2>1, ForwardLease
<1>4. ASSUME NEW k \in PingKeys, HandleIcmpEcho(k) PROVE LeaseStep
  <2>1. k \in DgramKeys /\ Forward(k)
    BY <1>4 DEF HandleIcmpEcho, DgramKeys
  <2> QED BY <1>0, <2>1, ForwardLease
<1>5. ASSUME NEW k \in TcpKeys, HandleTcp(k) PROVE LeaseStep
  <2>1. CASE by_key[k] # NoSlot
    BY <1>0, <1>5, <2>1, TcpFromGuestLease DEF HandleTcp
  <2>2. CASE by_key[k] = NoSlot
    BY <1>0, <1>5, <2>2, NewFlowLease DEF HandleTcp, Keys
  <2> QED BY <2>1, <2>2
<1>6. CASE IgnoreFrame \/ TapReadEnds \/ HandleStop
  BY <1>6, <1>I DEF IgnoreFrame, TapReadEnds, HandleStop, tableVars
<1>7. CASE SubmitTapRead \/ SubmitTimer
  BY <1>7, <1>I DEF SubmitTapRead, SubmitTimer, Resubmit, tableVars
<1>8. ASSUME NEW due \in SUBSET Slots, HandleTimer(due) PROVE LeaseStep
  BY <1>8, <1>I DEF HandleTimer, NoPush, tableVars
<1>9. ASSUME NEW expired \in SUBSET Slots, BeginExpiry(expired) PROVE LeaseStep
  BY <1>9, <1>I DEF BeginExpiry, NoPush, ringVars, tableVars
<1>10. ASSUME NEW id \in Slots, PeriodicFlow(id) PROVE LeaseStep
  <2>1. Live(id) /\ IsTcp(flows[id]) /\ TcpDataToGuest(id, flows[id])
    BY <1>0, <1>10 DEF PeriodicFlow, LoopInv
  <2> QED BY <1>0, <2>1, LiveSameFlow, TcpDataToGuestLease
<1>11. ASSUME NEW id \in Slots, ExpireFlow(id) PROVE LeaseStep
  <2>1. Live(id) /\ RemoveFlow(id, flows[id])
    BY <1>0, <1>11 DEF ExpireFlow, LoopInv
  <2> QED BY <1>0, <2>1, LiveSameFlow, RemoveFlowLease
<1>12. ASSUME NEW id \in Slots, ReapFlow(id) PROVE LeaseStep
  BY <1>0, <1>12, ReapFlowLease
<1>13. ASSUME NEW id \in Slots, DatagramReady(id) PROVE LeaseStep
  BY <1>0, <1>13, DatagramReadyLease
<1>14. ASSUME NEW id \in Slots, TcpSocketReady(id) PROVE LeaseStep
  BY <1>0, <1>14, TcpSocketReadyLease
<1>15. ASSUME NEW id \in Slots, PollFails(id) PROVE LeaseStep
  <2>1. Live(id) /\ RemoveFlow(id, flows[id])
    BY <1>15 DEF PollFails
  <2> QED BY <1>0, <2>1, LiveSameFlow, RemoveFlowLease
<1>16. ASSUME NEW done \in SUBSET UserData, SubmitAndWait(done) PROVE LeaseStep
  <2>1. Complete(done) /\ UNCHANGED flows
    BY <1>16 DEF SubmitAndWait, tableVars
  <2>2. \A s \in Slots : Reads(s)' => Reads(s)
    BY <1>0, <2>1 DEF Complete, Reads, Present, IsTcp, Core, OpsInv, RingTypeOK, UserData
  <2> QED BY <1>0, <2>1, <2>2, HandBackStep DEF Core
<1>17. CASE UNCHANGED vars
  BY <1>17, <1>I DEF vars, tableVars, ringVars, NoPush
<1> QED
  BY <1>1, <1>2, <1>3, <1>4, <1>5, <1>6, <1>7, <1>8, <1>9, <1>10, <1>11, <1>12,
     <1>13, <1>14, <1>15, <1>16, <1>17 DEF Next, Handle, Terminated

\* The event loop implements the lease discipline: one owner per buffer, one
\* open flow per key, no buffer given back while the kernel may write to it.
THEOREM LeaseRefinement == Spec => ImplementsLease
<1>1. Init => Lease!Init
  BY MappedSets DEF Init, TableInit, Lease!Init, Present, Reads
<1>2. IInv /\ [Next]_vars => [Lease!Next]_(Lease!leaseVars)
  BY NextLease DEF LeaseStep
<1> QED BY <1>1, <1>2, Invariant, PTL DEF Spec, ImplementsLease, Lease!Spec
=============================================================================
