# TLA+ model of presto-pasta's datapath

presto-pasta gives a sandbox user-mode networking: it reads the guest's Ethernet
frames from a tap device, terminates the guest's UDP, ICMP echo and TCP flows,
and carries them on ordinary host sockets. One thread drives everything through
one io_uring instance (`src/src/uring.rs`). This directory holds a
specification of that datapath, the TLC runs that check it on small instances,
and TLAPS proofs for every size of its tables, buffers and inputs.

## The system

| Part | State | Operations | Modelled by |
|---|---|---|---|
| Flow table (`flow.rs`) | slab of flows, free slots, key index, `closing` marks | `insert`, `remove`, `mark_closing`, `expired`, `lru_evictable`, `tcp_timer_due` | `FlowTable` |
| Buffer pool (`buf.rs`) | free list; one buffer kept for the tap | `alloc`, `free` | `FlowTable` |
| Ring (`uring.rs`) | submission queue, operations in the kernel, drained completions | `push`, cancel, `submit_and_wait` | `Ring` |
| Event loop (`uring.rs`) | the handler in progress | `run`, the tap, timer, stop and flow completion handlers | `EventLoop` |
| TCP splice (`uring.rs`, `flow::Tcp`) | sequence numbers, ring buffer, windows, FIN state of one flow | `handle_tcp`, `tcp_socket_ready`, `tcp_periodic` and what they call | `TcpFlow` |
| UDP and ICMP (`uring.rs`) | buffer, socket queue and pending error of one flow | `forward`, `udp_to_guest`, `udp_error_to_guest`, `reply_to_guest` | `EventLoop` (table), `UdpFlow` (data) |
| Frames (`proto.rs`, `tap.rs`) | none between frames | parsing, GSO splitting, segment cutting, TCP options, checksums | `GuestFrame`, `TcpSend`, `TcpOptions`, `Checksum` |
| Policy and NAT64 (`lib.rs`) | configuration | `flow_allowed`, `is_public`, `nat64_target`, DNS redirect | `FlowPolicy` |
| DNS (`dns.rs`) | one query with retries | resolver lookup, NAT64 prefix discovery | `Dns` |
| Network setup (`netdev.rs`) | interface flags, addresses, neighbours, routes in the kernel | `configure` | `Netdev` |
| Seccomp, statistics | filter; counters | | not modelled |

**Interaction.** There is one thread. Handlers run to completion, so two of them
never interleave; what is concurrent is the *kernel*, which completes operations
in any order while the loop handles an earlier batch, and, for a TCP flow, the
guest's TCP stack and the host socket's peer. The table and the ring share a name
space without generation numbers: an operation's `user_data` is the slot of its
flow. A slot, its buffer and its operation therefore have to be retired in step.

**What is hard.** Slot and buffer reuse while operations and completions of the
former flow are still under way; cancel requests that name a slot; partial
failure (a full queue after socket, buffer and slot have been taken); capacity of
the ring; work lists collected before the handler changes the table; and in TCP
lost, repeated and late segments and acks, a ring and sequence numbers that wrap,
windows that close, and the end of both streams. `PROJECT.json` lists these under
"hazards", each at its line.

## Modules

`FlowTable` <- `Ring` <- `EventLoop` <- `MCEventLoop`, `EventLoop_proofs` <-
`EventLoop_lease_proofs`, `EventLoop_capacity_proofs`; `EventLoop` instantiates
`FlowLease`; `TcpFlow` <- `MCTcpFlow`, `TcpFlow_proofs`; `UdpFlow` <- `MCUdpFlow`,
`UdpFlow_proofs`; `GuestFrame`, `TcpSend`, `TcpOptions`, `Checksum`, `FlowPolicy`,
`Dns`, `Netdev`, `UdpFlow` <- `MCWire`; `GuestFrame`, `TcpSend` <- `Frame_proofs`;
`TcpOptions`, `Dns`, `Checksum` <- `Wire_proofs`; `FlowPolicy`, `Netdev` <-
`Setup_proofs`.

**FlowTable.** `flows`, `free` and `by_key` are the three fields of
`FlowTable`; `pool[b]` counts how often buffer b is on the pool's free list, so a
double free is expressible. A slot in neither `flows` nor `free` has not been
pushed onto the slab yet. Ages (`last_active`, `last_progress`) only choose among
the flows a query filters; the model leaves that choice free.

**Ring.** For each `user_data`, `sqArm`, `kern` and `cqe` count operations in
the queue, in the kernel and in the drained batch; two operations under one
slot are expressible. A cancel request is processed in queue order, so it concerns
exactly the operations pushed before it that have not completed: `canceled`
records that at the push.

**EventLoop.** One action per completion handler. A handler with several pushes
(a UDP super-frame, the timer's two work lists) is a chain of steps under `pc`,
one push each, between which nothing else is enabled; the chain exists because any
single push may find the queue full. What a segment does to the byte stream
appears here as its possible outcomes for the table: nothing, a poll armed, the
flow removed.

**FlowLease.** What table, pool and ring promise together, without slots, lists
or queues: a flow is a lease of one buffer to one key; a buffer has one lease, a
key one open lease, and a lease cannot end while the kernel may write into its
buffer. `EventLoop` maps its flows to leases and the buffers of datagram flows
whose recv is queued or in the kernel to `reading`; `ImplementsLease` says that it
implements the abstraction.

**TcpFlow.** `t` is `flow::Tcp`, `ring` the flow's buffer, `toGuest` and
`toPresto` the tap. `SegmentFromGuest`, `DataToGuest`, `FillBuffer`,
`AckFromGuest` follow `tcp_from_guest`, `tcp_data_to_guest`, `tcp_fill_buffer`,
`tcp_ack_from_guest` step by step; `Commit` is the part every caller ends with.
Byte n of a stream is the number n, so that delivering the right bytes is a
statement about values. The guest's TCP, the host socket and the tap are
external: the tap keeps order and may lose frames, the guest retransmits, probes
a closed window, and discards what is out of order. The poll of an established
flow is the flag `poll_armed`; its operation is EventLoop's subject.

**UdpFlow.** One flow between guest and host socket. `buf` and `seg` are the
locals of `udp_to_guest`; the drain is one step per `recv`, because datagrams
and ICMP errors keep arriving meanwhile, and each way out of that loop (nothing
left, an error, an empty datagram, a short one, one that does not fit) is an action.
A datagram's bytes carry its number, so loss, repetition, reordering and bytes moved
wrongly by `copy_within` are all visible. The host socket (a pending error is
reported once, by the next recv or send, before any datagram) and the guest's
resegmentation are external. The total length `Ipv4Hdr::write` puts into a frame is
a `u16` that wraps, as in a release build; the guest's IP layer discards a packet
whose total length is not its length, which `seen` records as `Malformed`. A build
with overflow checks panics there instead.

**GuestFrame.** What `parse_frame`, `handle_udp`, `handle_tcp` and
`handle_icmp_echo` do with the lengths a guest puts into a frame: the checks in
their order, the slices taken, the super-frame split. A frame is its length and its
length fields; nothing is assumed of their agreement. A frame whose TCP options the
option loop refuses counts as handled here (`TcpOptions` has that loop).

**TcpSend.** The loop of `tcp_data_to_guest` that TcpFlow takes as one step: MSS,
TSO, the IP length limit and the ring's wrap at once.

**TcpOptions, Checksum.** The option loop of `TcpHdr::parse` on any bytes against a reading
written from the format, and the three ways a checksum is written (full, over a
payload in two slices, offloaded to the guest's kernel), verified as a receiver
would. A byte has `Base` values, 256 in the code; the arithmetic of the carry and
of the odd byte is the same.

**FlowPolicy.** Addresses are classes (gateway, loopback, private, public, ...) in a
family; a guest may also write an address under the NAT64 prefix itself. From a
guest packet to the socket's target and, for an echo, back to the reply the guest
gets. That Linux connects a socket for an unspecified address to loopback is
external (`ReachesLoopback`).

**Dns.** The resolver choice, three tries with a timeout, a reply or a socket
error each, and `parse_nat64_prefix` on the bytes of a reply that is cut anywhere:
one step per label, question and record, each with the code's way out when bytes
are missing. A message is a list of items (a label; the end of a name with what
follows it), so that the result can be compared with the records it was made of.

**Netdev.** `configure` call by call against a kernel that remembers addresses,
neighbours and routes; every call may fail, or take effect and have its
acknowledgement lost, and the caller may run it again.

**MCWire.** These seven and UdpFlow share no state. One run holds them side by side,
and `part` says which one moves while the others rest in a fixed state, so their
state spaces add up and do not multiply. Only UdpFlow has fairness there, that of
`UdpSpec`.

Definitions marked "Faulty" are altered copies of the one that follows them;
they are used to confirm that each property notices a plausible mistake in the
code. No specification refers to them.

## Runs

| Run | Instance | Shows |
|---|---|---|
| `event_loop` | 1 UDP, 1 ping, 2 TCP keys, 3 flow buffers + the tap's | all invariants of the loop, that making room never costs a TCP flow, and that the loop implements `FlowLease` |
| `event_loop_degraded` | 3 keys, 2 flow buffers, ring of 4, failing polls, 2 stop fds | no corruption when pushes and polls fail |
| `event_loop_live` | 1 UDP, 1 TCP key, 2 flow buffers | a closing flow is reaped |
| `event_loop_poll_error` | as above, with failing polls | violation, finding 1 |
| `tcp_download` | 5 host bytes through a 4 byte ring, one loss | the guest sees the host's stream |
| `tcp_duplex` | one byte down, two up through a host send buffer of one, losses both ways, resets, aborts, an early timeout | upload, acks, teardown |
| `tcp_live` | one byte each way, guest window 1, one loss each way | both streams complete |
| `tcp_handshake_stall` | one host byte, losses, SYN retransmit | violation, finding 2 |
| `tcp_upload_stall` | two guest bytes, host send buffer of 1 | violation, finding 3 |
| `udp_error_lost` | 1 datagram, 1 error, 1 send | violation, finding 4 |
| `udp_oversize` | 1 datagram, at and above what IPv4 carries | violation, finding 5 |
| `wire` | every input of the first seven parts of MCWire, see below | slices in bounds, tiling, options, checksums, policy, prefix discovery, setup |
| | its UDP flow: 4 datagrams of lengths 0, 1, 2, 5; an ICMP error; 2 guest sends; every offload set; IPv4, IPv6, NAT64 | replies the guest's IP version can carry arrive whole, once, in order, and in the end; one too long leaves one discarded frame in its place |

**Bounds.** Four keys for three buffers make the pool run dry, so eviction, reuse
of slots within one batch and a new flow behind a closing one all happen; a slot
more than there are buffers lets `SlabBounded` fail if it could. The ring of twice
the buffers is tight: with 5 instead of 8 entries and three buffers `NoOverflow`
fails, which is also why `event_loop_degraded` uses 4. In `tcp_download` five bytes
through a ring of four wrap the ring and the sequence numbers (`SeqMod` is just
above what the assumption needs, `TCP_ISN` three below the wrap), frames of one
byte give the three duplicate acks a fast retransmit takes, and a stream longer
than the guest's buffer closes its window. `tcp_duplex` needs few bytes each
way for the order of data, FINs, their acks and resets. `tcp_live` keeps the host's
send buffer above the upload, because of finding 3. In the UDP flow of `wire` an IPv4 datagram holds at
most 4 bytes, an IPv6 one 5, and the buffer two of those: the same order as 65507,
65527 and the code's FRAME; with headers of 2 bytes the total length wraps above 6,
as the code's does above 65535. Lengths 1 and 2 join, end and overflow a run, 5 is
longer than any super-frame, 0 the empty datagram; four of them make a
run, its end, a flush and a start over. In `wire` the inputs lie on both
sides of each bound the code tests: a frame one byte short of each header, total
and payload lengths that disagree either way, IHL and data offsets below the
minimum, no gso_size, one that divides the payload, one that does not and one above it; a ring of 8
with heads and lengths that wrap it, pieces of at most 6, MSS from below the
minimum of 2 upwards; option lists with length bytes 0, 1, past the end and of the
wrong size for their kind; checksummed messages of odd and even length split
everywhere; every class of destination, port 53 or not, each policy and prefix
setting; DNS replies of every section cut anywhere; up to three runs of `configure`.
Symmetry is used among keys,
slots and buffers of one kind, in safety runs only.
`CHECK_DEADLOCK FALSE` is set for TcpFlow, UdpFlow and MCWire: a connection ends, the
bounded arrivals of datagrams are used up, an input has been handled. EventLoop is checked for deadlock; a loop that has returned stutters.

**Fairness.** EventLoop: the thread runs (weak fairness of the handlers), and an
operation a cancel request has reached does complete, which is io_uring's promise
(strong fairness, because the loop waits only now and then). Nothing is assumed of
other operations: a socket may stay silent for ever. TcpFlow: handlers run,
frames that are not lost are delivered, the guest's application reads and sends,
the host's peer drains the socket; timers are strongly fair, since the 500 ms
timer and the guest's timers recur in real time. Nothing is assumed of the host
writing or of either side closing. UdpFlow: weak fairness of the loop's handlers, which
includes the kernel completing a recv that has something to report; nothing is
assumed of peers or of the guest. The other parts in MCWire have no liveness property.

### Findings

1. **Failed poll.** `run()` resets a TCP flow whose poll completed with an error
   while `poll_armed` is still set (`uring.rs:231`). `remove_flow` then marks the
   flow closing and waits for an operation that does not exist; slot, buffer and
   socket are lost. Safety of the other flows is unaffected
   (`event_loop_degraded`).
2. **Rewind without resend.** A SYN for an established flow rewinds
   `sent_unacked` to resend the data "once the handshake completes"
   (`uring.rs:1038`). If the guest's ack of the repeated SYN-ACK is lost, no timer
   condition holds and nothing resends it.
3. **Window not reopened.** presto advertises its window only in segments it sends
   for another reason, and does not answer an empty window probe. After a zero
   window with everything acknowledged the upload stops, although the host drains
   its socket. With a deferred ack, data in flight or traffic the other way the
   next segment reopens the window.
4. **Error swallowed by the drain.** `udp_to_guest` ends its drain on any error
   of `recv` (`uring.rs:639`). A pending ICMP error is reported by that call
   and thereby cleared, so `udp_error_to_guest` never hears of it and the guest's
   socket does not see ECONNREFUSED. The ignored `send` in `forward` clears a
   pending error in the same way.
5. **Total length wraps.** Under NAT64 the host socket is IPv6 and delivers up to
   65527 bytes; `Ipv4Hdr::write` (`proto.rs:101`) adds 20 to the UDP length in `u16`.
   Above 65507 bytes a release build writes a total length below 20 and the guest
   discards the frame; with overflow checks the loop panics. The limit in
   `udp_to_guest` is applied to datagrams that join a super-frame only. A translator
   never passes on more than IPv4 carries, so it takes an IPv6 peer at an address
   under the prefix. No other reply is affected (`wire`).

Remarks without a run: `DESIGN.md` speaks of multishot recv, a hierarchical
timing wheel and no user-space retransmission; the code re-arms single recvs,
scans the table on one 500 ms timer, and retransmits. `lib.rs:115` says that a
refused flow shows the guest "an unreachable host"; the code drops the packet
silently. Above 16384 buffers the clamp at 32768 entries makes the ring smaller
than the two entries per buffer the sizing comment asks for. The default policy
compares with loopback only: an unspecified destination passes it, which Linux
connects to loopback, and an address the guest writes under the NAT64 prefix is
judged as the IPv6 address it is. `TargetAsAllowed` names both exceptions. With a
NAT64 prefix set every ICMPv4 echo request is rewritten to the ICMPv6 type
(`uring.rs:480`), while `nat64_target` leaves loopback to native IPv4 (`lib.rs:136`):
under a policy that allows loopback the IPv4 ping socket refuses the request.
`EchoRoundTrip` states that case as it is, and an answer for every other one.

## Proofs

`EventLoop_proofs` proves, for every choice of keys, slots, buffers, stop fds and
ring size that meets the named assumptions (`KeysAssumption`, `BufsAssumption`,
`SlotsAssumption`, `NoFlowAssumption`, `RingAssumption`, `UserDataAssumption`,
`LoopAssumption`: distinct names, finite sets), full queues and failing polls
included:

- `TypeCorrect`, `CompletionSafety`, `BufferSafety`, `IndexSafety`,
  `CancelSafety`: the invariants `TypeOK`, `NoStaleCompletion`,
  `BufferOwnership`, `KeyIndexExact`, `CancelHitsClosing`;
- `EvictionSafety`: the action property `TcpNeverEvicted`, for room made by a
  datagram, an echo request or a SYN;
- `WaitingSafety`, `ConnectSafety`: `WaitingIsPending` and `ConnectIsWatched`,
  unless polls may fail (finding 1) or a push has found the queue full.

None of these is inductive alone. That a slot has no stale operation relies on the
index (a packet reaches only flows that are not closing), on the free list (a new
flow gets an empty slot, `FreeIsEmpty`), and on the timer's lists (a listed flow is
still live when its turn comes, `LoopInv`); buffer ownership relies on the slots.
`Core` joins the parts about table and ring; every fragment a handler is made of
(`RemoveFlow`, `SetFlow` with a push, `NewFlow`, ...) preserves `Core`, in one lemma
each; `NextInvariant` goes through the actions, and `IInv` is `Core` with
`LoopInv`. The waiting properties add `Watch`: a connecting flow is armed, and
unless the queue has been full every waiting flow has its operation. `Watch` is
preserved given `IInv`, along the same fragments.

`EventLoop_lease_proofs` proves `LeaseRefinement`: the event loop implements
`FlowLease`, under the same assumptions. `IInv` is what the step needs: a handler's
table change is one of five changes of the mapped set (open, close, release,
the same lease under a changed flow, nothing), one lemma each, and `IInv` gives the
guards of the abstract action: a free buffer has no lease (buffer ownership), a new
key no open one (index), and a flow leaves the table only when its operation is
not in the kernel (`NoStaleCompletion` with the completion being handled). A
submit-and-wait that completes recvs is `HandBack`.

`EventLoop_capacity_proofs` proves the loop's limits, on top of `IInv`:

- `SlabSafety` (`SlabBounded`): the slab grows only when no slot is free, and then
  every slot holds a flow with a buffer of its own, so the slots map one to one
  into the buffers other than the tap's;
- `LoopFed` (`LoopIsFed`): `LoopOps` says at every `pc` whether the tap read and
  the timer are out, or the handler that re-arms them is running;
- `RingNeverFull` (`NoOverflow`), under `RingFits`: twice the buffers are not above
  the clamp `MaxRing`, and the polls of the stop fds fit beside tap read and timer.
  The queue holds at most one operation per `user_data` and one cancel request per
  slot. The second half is the difficult one, because a canceled slot can be reaped
  and given to a new flow before the queue is submitted. Only the tap's
  completion makes flows, and after that only the timer's, or the flow's own, could
  cancel the new one; `CanceledOnce` follows which of these a batch still holds.
  Before the first wait the queue holds the stop polls instead, and nothing else
  is pushed (`LoopOps`);
- `NothingForgotten`: under `RingFits` and without failing polls `WaitingIsPending`
  and `ConnectIsWatched` hold without the exceptions of `WaitingSafety`.

`TcpFlow_proofs` proves all safety invariants of `TcpFlow`: `TypeCorrect`,
`RingIsTheUnackedStream` (`RingHoldsUnacked`), `ReleaseFollowsReceipt`
(`ReleasedIsReceived`), `GuestReadsPrefix` (`GuestSeesHostStream`), `HostGetsPrefix`
(`HostSeesGuestStream`), `AcksFollowWrites` (`AcksAreBacked`), `FlushRespectsWindow`
(`GuestNotOverrun`) and `ClosedMeansDelivered` (`CloseIsComplete`), for every size of
ring, buffers, tap queue, segments and streams and any number of losses
(`TcpFlowAssumption`; it asks for a sequence space above what can be in flight,
which 2^32 is by far). They hold of every behaviour in which no second flow is opened,
`Spec /\ []OneFlow => []P`: a SYN that outlives a reset connection opens one with
the same numbers (see "Not modelled"). `SecondFlowNeedsReset` shows that this takes
both a retransmitted SYN and a host reset: with either one alone `OneFlow` holds.
The inductive invariant `IInv` has to bound what a wrapped number in
a queued segment stands for. Both bounds come from the order the tap keeps: acks are
monotone along a queue (`UpAcks`, `DownAcks`), and data reaches back at most one
ring, or one send buffer, behind what can have arrived before it (`DownOrder`,
`UpOrder`). `FlowInv` ties the flow's counters to the ring and both streams, `HostInv`
and `GuestInv` tie the two ends to each other, and `Life` says what the state of the
guest and `ended` imply. Each function of the code (`tcp_fill_buffer`,
`tcp_ack_from_guest`, `tcp_data_to_guest`, the receipt of a segment, `Commit`) has a
lemma about the intermediate flow record it is given and returns, and an action's
proof composes them.

`Frame_proofs` proves `FrameSafety` (`SlicesInBounds`) and `SplitCorrect`
(`SegmentsTile`) for every set of frames with natural lengths. The slices of the
later handlers are in bounds because of what the IP parser has checked, which
`L4Inside` carries along; the split needs its position (`SplitPosition`) and that
nothing was cut before the UDP handler ran (`NothingYet`). `FrameInv` is their
conjunction.

It also proves `PiecesCorrect` (`PiecesTile`) and `PiecesFromRing`
(`PiecesInRing`) for every ring size, limit and minimum MSS above 0
(`SendAssumption`). `SendInv` adds the types and that no piece means no progress.

`UdpFlow_proofs` proves `UdpTypeSafety` and `SuperFrameSafety` (`SuperFrameFits`) for
all sizes with room for two datagrams in a buffer (`SizeAssumption`) and any number
of arrivals. That the drain has room relies on what can be in the socket
(`QueueFits`) and on what the last check let into the buffer (`BufferFits`);
`UdpInv` joins them. `RepliesSafety` (`RepliesConserved`) compares what the guest has
with `Carried(arrived)`, the arrived datagrams with a discarded frame in the place of
each that IPv4 cannot carry: the total length is right exactly for the others
(`AcceptedIff`), and a super-frame of several datagrams is always among them. The
invariant adds that the super-frame under way is a whole number of segments
(`WholeSegments`): then the guest's kernel cuts off one more segment for each
datagram that is joined (`ResegmentJoins`), and what the guest has, what the buffer
holds and what the socket holds stay, in this order, what has arrived.

`Setup_proofs` proves `ConfigureSafety` (`ConfigureConverges`) for any number of
attempts: `NetInv` says that a running `configure` has done what precedes its next
call, so the link is up when the routes are set, and that every request is laid
out as the kernel reads it. `PolicySafety` (`TargetAsAllowed`) and
`EchoSafety` (`EchoRoundTrip`) follow from `PolicyInv`, the ICMP type an echo has at
each stage; TLC covers all inputs of that module as well.

`Wire_proofs` proves what the byte-level parts compute, for inputs of any length:

- `OptionsSafety` (`OptionsRead`), for every set of option lists that meets
  `OptionsAssumption`, cut anywhere. `LayoutExists` gives the start of every element
  in a concatenation of byte strings; `OptionsInv` says that the loop stands at the
  start of option k + 1 and holds the values of the last whole options up to k. The
  steps use that an option's bytes determine its kind and length (`OptionHere`),
  and that a length byte below 2 still advances by 2;
- `DnsSafety` (`PrefixIsGenuine`), for every set of replies that meets
  `RepliesAssumption`, cut anywhere. The same layout holds of a message's items;
  `ParseAt(k)`, the parser's part of `DnsInv`, says that its offset is the end of
  item k, that its rounds left are the header's count less the records passed
  (`RecordsCount`), and that no item up to k was a synthesized record;
- `ChecksumSafety` (`ChecksumVerifies`), for every byte size `Base` of at least 2,
  256 being the code's. Let M be the largest word. `FoldIs`: adding the carries
  back in leaves the residue modulo M, taken from 1..M unless the sum is zero.
  `SumIs`: adding words is adding bytes with weights Base and 1 in turn, so a
  second part behind an even number of bytes adds up as it is (`SumEven`), and
  behind an odd one its sum times Base is right modulo M, because Base * Base is
  M + 1 (`SumOdd`); swapping the bytes of the folded sum is that multiplication
  (`PartsFact`). The complement then makes the receiver's sum a multiple of M
  (`Complement`), and one that is not zero, which is what a check that comes out as
  zero takes (`NormMultiple`).

These parts are defined by recursive functions (`FlattenSeq`, `Sum`, `Fold`). The
induction they need is `SetInduction`, a form over subsets of Nat that the
provers can instantiate; it follows from `WFMin` and the well-foundedness of < on
Nat. A recursive function is handled by giving an explicit function, showing
that it solves the recursion, and by induction that the solution is unique.

Only model-checked: `ErrorReachesGuest`, `RewoundIsResent`, `ClosingIsReaped`,
`RepliesDelivered`, `DownloadCompletes`, `UploadCompletes`. They are liveness
properties, which the prover cannot do. Every invariant and action property of the
passing runs is also stated by a theorem, under the conditions named above.

## Not modelled

- The byte layout of written headers: fixed offsets, which the unit tests of
  `proto.rs` compare byte by byte. In TcpFlow a segment is its sequence numbers,
  flags, window and bytes; MSS and super-frames are one `Chunk` there, and
  TcpSend has the cutting.
- Window scaling: windows are in bytes. The rounding of a scaled window is lost.
- Time: an RTO or idle limit is a step that may happen. TcpFlow leaves out the
  idle expiry of a flow (`EventLoop`'s `ExpireFlow` has it); with it, stalled
  flows of findings 2 and 3 end in a silent drop.
- A write to the tap that fails: the code ignores the result. TcpFlow covers it for
  TCP, as a lost frame; for UDP and ICMP it would be a lost datagram.
- The length of `udp_to_guest`'s drain: with a peer that keeps the socket
  filled the loop does not end and holds up the other flows. The model bounds the
  arrivals, and the code has no limit to check against.
- An error of `submit_and_wait` itself (`uring.rs:187`): it only ends the loop.
- A SYN delayed past the end of its own connection. The initial sequence number is
  a constant (`uring.rs:46`), so such a SYN opens a second flow with the numbers
  of the first; if the first one's reset is lost as well, the guest mistakes the
  second for it. `tcp_duplex` therefore has no SYN retransmits together with
  resets; the case deserves a run of its own.
- Seccomp (a filter whose meaning is the kernel's) and statistics (counters no
  decision reads).

## Plan

1. A run for the SYN that outlives its connection, and with it the question which
   of TcpFlow's theorems survive without `OneFlow`.
2. Header layout (`Ipv4Hdr`, `Ipv6Hdr`, the vnet header) as bytes, which would let
   `ChecksumSafety` speak of whole frames.
