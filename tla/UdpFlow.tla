------------------------------ MODULE UdpFlow -------------------------------
(***************************************************************************)
(* One UDP flow: guest datagrams out, replies and socket errors back       *)
(* (src/uring.rs: forward, udp_to_guest, reply_to_guest,                   *)
(* udp_error_to_guest).                                                    *)
(*                                                                         *)
(* With UDP segmentation offload, udp_to_guest drains the socket into the  *)
(* flow's buffer and writes runs of equal datagrams as one super-frame     *)
(* that the guest's kernel cuts up again.  The drain is one step per recv, *)
(* because datagrams and errors keep arriving between two of them.         *)
(*                                                                         *)
(*   pc = "armed"    a recv is queued or in the kernel                     *)
(*   pc = "ready"    it completed: `res' is an errno, or `buf' a datagram  *)
(*   pc = "drain"    in the loop of udp_to_guest                           *)
(*                                                                         *)
(* A datagram is the sequence of its bytes, each byte being the number of  *)
(* its datagram.  The socket and the guest's kernel are external: a        *)
(* pending error is reported by the next recv or send, and only once.      *)
(*                                                                         *)
(* Length arithmetic is that of a release build, where u16 wraps; a build  *)
(* with overflow checks panics where the model delivers Malformed.         *)
(***************************************************************************)
EXTENDS Naturals, Sequences

CONSTANTS
    MaxPayload,     \* `max': payload an IPv4 total length leaves for UDP
    MaxDgram6,      \* largest payload an IPv6 socket delivers
    Headers,        \* IPv4 and UDP header; MaxPayload + Headers is u16::MAX
    Frame,          \* buf::FRAME, payload space of a buffer
    Lens,           \* lengths of the datagrams that arrive
    Errnos,         \* errors ICMP can put on the socket
    Translated,     \* those udp_error_to_guest has an ICMP code for
    NoError,
    MaxDgrams, MaxErrors, MaxSends      \* bounds on the environment

ASSUME SizeAssumption ==
    /\ {MaxPayload, MaxDgram6, Headers, Frame} \subseteq Nat
    /\ 0 < MaxPayload /\ MaxPayload <= MaxDgram6
    /\ MaxDgram6 + MaxDgram6 <= Frame
    /\ Lens \subseteq 0..MaxDgram6
ASSUME BoundAssumption == {MaxDgrams, MaxErrors, MaxSends} \subseteq Nat
ASSUME ErrnoAssumption == NoError \notin Errnos /\ Translated \subseteq Errnos

VARIABLES
    family,     \* of the guest's packets and of the host socket
    offloads,   \* what Tap::new negotiated
    pc, res,
    buf,        \* bytes received into the buffer, from HEADROOM on
    seg,        \* segment size of the super-frame under way
    queue,      \* the socket's receive queue
    err,        \* the socket's pending error
    arrived,    \* history: every datagram that reached the socket
    seen,       \* history: what the guest made of the frames
    told,       \* history: unreachable messages the guest got
    sends, errors

flowVars == <<family, offloads, pc, res, buf, seg>>
sockVars == <<queue, err, arrived, errors>>
guestVars == <<seen, told, sends>>
udpVars == <<flowVars, sockVars, guestVars>>

\* Families of (guest packets, host socket); under NAT64 they differ.
UdpFamilies == {"v4", "v6", "nat64"}

\* Tap::new asks for these in turn and keeps the first set the kernel takes.
Attempts == {{"csum", "tso", "uso"}, {"csum", "tso"}, {}}

MaxDgram == IF family = "v4" THEN MaxPayload ELSE MaxDgram6

UdpTypeOK ==
    /\ family \in UdpFamilies /\ offloads \in Attempts
    /\ pc \in {"armed", "ready", "drain"}
    /\ res \in Errnos \cup {NoError}
    /\ buf \in Seq(1..MaxDgrams)
    /\ seg \in 0..Frame
    /\ queue \in Seq(Seq(1..MaxDgrams))
    /\ err \in Errnos \cup {NoError}
    /\ told \in Seq(Translated)
    /\ sends \in 0..MaxSends /\ errors \in 0..MaxErrors

\* new_flow has armed the first recv.
UdpInit ==
    /\ family \in UdpFamilies /\ offloads \in Attempts
    /\ pc = "armed" /\ res = NoError
    /\ buf = <<>> /\ seg = 0
    /\ queue = <<>> /\ err = NoError /\ arrived = <<>>
    /\ seen = <<>> /\ told = <<>>
    /\ sends = 0 /\ errors = 0

-----------------------------------------------------------------------------
(* The outside: peers, and the guest as a sender                           *)

Arrive(len) ==
    /\ Len(arrived) < MaxDgrams
    /\ len <= MaxDgram
    /\ LET d == [i \in 1..len |-> Len(arrived) + 1]
       IN  queue' = Append(queue, d) /\ arrived' = Append(arrived, d)
    /\ UNCHANGED <<flowVars, guestVars, err, errors>>

\* An ICMP error for something the guest has sent.
SocketError(e) ==
    /\ errors < MaxErrors /\ sends > 0
    /\ err' = e /\ errors' = errors + 1
    /\ UNCHANGED <<flowVars, guestVars, queue, arrived>>

\* forward on an existing flow: the result of send is ignored, so a pending
\* error is taken off the socket and the datagram is not sent.  The loop does
\* nothing else while it drains.
ForwardDatagram ==
    /\ pc # "drain"
    /\ sends < MaxSends
    /\ sends' = sends + 1 /\ err' = NoError
    /\ UNCHANGED <<flowVars, seen, told, queue, arrived, errors>>

-----------------------------------------------------------------------------
(* recv, by the ring or by the drain                                       *)

\* The next datagram, cut to the room behind the first `at' bytes.
Incoming(at) ==
    LET d == Head(queue)
    IN  SubSeq(d, 1, IF Len(d) <= Frame - at THEN Len(d) ELSE Frame - at)

Receive ==
    /\ err = NoError /\ queue # <<>>
    /\ queue' = Tail(queue)
    /\ UNCHANGED <<err, arrived, errors>>

ReceiveError ==
    /\ err # NoError
    /\ err' = NoError
    /\ UNCHANGED <<queue, arrived, errors>>

RecvCompletes ==
    /\ pc = "armed"
    /\ pc' = "ready"
    /\ \/ Receive /\ buf' = Incoming(0) /\ res' = NoError
       \/ ReceiveError /\ res' = err /\ UNCHANGED buf
    /\ UNCHANGED <<family, offloads, seg, guestVars>>

-----------------------------------------------------------------------------
(* Frames to the guest                                                     *)

\* The guest's kernel cuts the payload of a super-frame into segments.
Resegment(bytes, gso) ==
    [i \in 1..((Len(bytes) + gso - 1) \div gso) |->
        SubSeq(bytes, (i - 1) * gso + 1,
               IF i * gso < Len(bytes) THEN i * gso ELSE Len(bytes))]

\* gso_of; 0 stands for None.
GsoOf(total, size) == IF total > size THEN size ELSE 0

\* Ipv4Hdr::write: the total length is a u16.
TotalLength(len) == (len + Headers) % (MaxPayload + Headers + 1)

\* A packet the guest's IP layer discards; no datagram has a byte 0.
Malformed == <<0>>

\* The guest discards an IPv4 packet whose total length is not its length.
Accepted(bytes) ==
    family # "v6" => TotalLength(Len(bytes)) = Len(bytes) + Headers

Segments(bytes, gso) == IF gso = 0 THEN <<bytes>> ELSE Resegment(bytes, gso)

\* reply_to_guest with frame_to_guest: what the guest makes of one frame.
Delivered(bytes, gso) ==
    IF Accepted(bytes) THEN Segments(bytes, gso) ELSE <<Malformed>>

SuperFrame(bytes) == Delivered(bytes, GsoOf(Len(bytes), seg))

ToGuest(dgrams) == seen' = seen \o dgrams /\ UNCHANGED <<told, sends>>

\* The handler is done and submit_flow_recv arms the next recv, which
\* overwrites the buffer.
Rearm ==
    /\ pc' = "armed" /\ res' = NoError /\ buf' = <<>> /\ seg' = 0
    /\ UNCHANGED <<family, offloads>>

-----------------------------------------------------------------------------
(* udp_to_guest and udp_error_to_guest                                     *)

Coalesces == {"csum", "uso"} \subseteq offloads

\* Without offload, or for an empty datagram: one datagram, one frame.
ReplyPlain ==
    /\ pc = "ready" /\ res = NoError
    /\ ~Coalesces \/ buf = <<>>
    /\ ToGuest(Delivered(buf, 0))
    /\ Rearm
    /\ UNCHANGED sockVars

BeginDrain ==
    /\ pc = "ready" /\ res = NoError
    /\ Coalesces /\ buf # <<>>
    /\ pc' = "drain" /\ seg' = Len(buf)
    /\ UNCHANGED <<family, offloads, res, buf, sockVars, guestVars>>

\* recv fails, for want of datagrams or because of a pending error, which
\* is thereby gone.
DrainEnds ==
    /\ pc = "drain"
    /\ \/ ReceiveError
       \/ err = NoError /\ queue = <<>> /\ UNCHANGED sockVars
    /\ ToGuest(SuperFrame(buf))
    /\ Rearm

\* Faulty: an empty datagram is taken for the end of the socket.
DrainEmptyDropped ==
    /\ pc = "drain"
    /\ Receive /\ Incoming(Len(buf)) = <<>>
    /\ ToGuest(SuperFrame(buf))
    /\ Rearm

\* An empty datagram cannot ride in a super-frame; it follows on its own.
DrainEmpty ==
    /\ pc = "drain"
    /\ Receive /\ Incoming(Len(buf)) = <<>>
    /\ ToGuest(SuperFrame(buf) \o Delivered(<<>>, 0))
    /\ Rearm

\* Faulty: only the segment size is looked at.
FitsAnyLength(d) == d # <<>> /\ Len(d) <= seg

Fits(d) == d # <<>> /\ Len(d) <= seg /\ Len(buf) + Len(d) <= MaxPayload

\* One more segment of the same size.
DrainJoins ==
    /\ pc = "drain"
    /\ Receive
    /\ LET d == Incoming(Len(buf))
       IN  Fits(d) /\ Len(d) = seg /\ buf' = buf \o d
    /\ UNCHANGED <<family, offloads, pc, res, seg, guestVars>>

\* A shorter one ends the run as its last segment.
DrainTail ==
    /\ pc = "drain"
    /\ Receive
    /\ LET d == Incoming(Len(buf))
       IN  Fits(d) /\ Len(d) < seg /\ ToGuest(SuperFrame(buf \o d))
    /\ Rearm

\* Faulty: the datagram is left where it was received.
DrainFlushNoCopy ==
    /\ pc = "drain"
    /\ Receive
    /\ LET d == Incoming(Len(buf))
       IN  /\ d # <<>> /\ ~Fits(d)
           /\ ToGuest(SuperFrame(buf))
           /\ buf' = SubSeq(buf \o d, 1, Len(d)) /\ seg' = Len(d)
    /\ UNCHANGED <<family, offloads, pc, res>>

\* It does not fit: flush, move it to the front and start over with it.
DrainFlush ==
    /\ pc = "drain"
    /\ Receive
    /\ LET d == Incoming(Len(buf))
       IN  /\ d # <<>> /\ ~Fits(d)
           /\ ToGuest(SuperFrame(buf))
           /\ buf' = d /\ seg' = Len(d)
    /\ UNCHANGED <<family, offloads, pc, res>>

\* Faulty: every errno is passed on.
UdpErrorToGuestAny ==
    /\ pc = "ready" /\ res # NoError
    /\ told' = Append(told, res)
    /\ Rearm
    /\ UNCHANGED <<sockVars, seen, sends>>

\* An unreachable message in place of the datagram the error is about; an
\* errno without a code is dropped.
UdpErrorToGuest ==
    /\ pc = "ready" /\ res # NoError
    /\ told' = IF res \in Translated THEN Append(told, res) ELSE told
    /\ Rearm
    /\ UNCHANGED <<sockVars, seen, sends>>

-----------------------------------------------------------------------------
\* The loop's own steps; the ring completes a recv as soon as it can.
UdpHandle ==
    \/ RecvCompletes
    \/ ReplyPlain
    \/ BeginDrain
    \/ DrainEnds
    \/ DrainEmpty
    \/ DrainJoins
    \/ DrainTail
    \/ DrainFlush
    \/ UdpErrorToGuest

UdpNext ==
    \/ \E len \in Lens : Arrive(len)
    \/ \E e \in Errnos : SocketError(e)
    \/ ForwardDatagram
    \/ UdpHandle

\* The loop's thread runs, and the kernel completes a recv that has
\* something to report.
UdpSpec == UdpInit /\ [][UdpNext]_udpVars /\ WF_udpVars(UdpHandle)

-----------------------------------------------------------------------------
(***************************************************************************)
(* Properties.                                                             *)
(***************************************************************************)

\* Datagrams too long for the guest's IP version, which only NAT64 brings.
Oversized(d) == family # "v6" /\ Len(d) > MaxPayload

\* What the guest can get of a sequence of datagrams.
Carried(dgrams) ==
    [i \in 1..Len(dgrams) |-> IF Oversized(dgrams[i]) THEN Malformed ELSE dgrams[i]]

\* The guest gets the datagrams of the socket, whole, in order, each once:
\* what it has, what the frame under way will give it and what waits in the
\* socket are together what arrived, except that in the place of one no IPv4
\* packet can carry there is a frame it discards (udp_to_guest's coalescing,
\* the guest's resegmentation, the total length of Ipv4Hdr::write, empty
\* datagrams and copy_within included).
RepliesConserved ==
    LET held == CASE pc = "ready" /\ res = NoError -> Delivered(buf, 0)
                  [] pc = "drain" -> SuperFrame(buf)
                  [] OTHER -> <<>>
    IN  seen \o held \o Carried(queue) = Carried(arrived)

\* The super-frame under way keeps room for a full datagram behind it, so
\* recv never truncates ("The buffer keeps at least a full datagram of space
\* beyond max"), and its length fits the header's length field ("one bound
\* covers both families").  Under NAT64 the second part needs the peer to
\* send no more than IPv4 could carry.
SuperFrameFits ==
    pc = "drain" =>
        /\ Len(buf) + MaxDgram <= Frame
        /\ family = "v4" => Len(buf) <= MaxPayload
        /\ Len(buf) > seg => Len(buf) <= MaxPayload

\* Every datagram that reaches the socket, and that the guest's IP version
\* can carry, reaches the guest in the end, with errors, guest datagrams and
\* oversized ones in between: each completion is followed by a new recv,
\* whichever way udp_to_guest returns.
RepliesDelivered ==
    \A n \in 1..MaxDgrams :
        Len(arrived) >= n ~> /\ Len(seen) >= n
                             /\ Oversized(arrived[n]) \/ seen[n] = arrived[n]

\* udp_to_guest: "Deliver a received UDP datagram of `len' bytes to the
\* guest", where the bound taken from IPv4's total length "covers both
\* families": no reply is framed with a length the guest cannot accept.
EveryReplyReadable == \A i \in 1..Len(seen) : seen[i] # Malformed

\* udp_error_to_guest: "Translate a host socket error on a UDP flow ... into
\* an ICMP/ICMPv6 destination unreachable towards the guest, so guest sockets
\* see e.g. ECONNREFUSED for closed ports just like on a kernel path."
ErrorReachesGuest ==
    \A e \in Translated : err = e ~> \E i \in 1..Len(told) : told[i] = e
=============================================================================
