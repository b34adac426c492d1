----------------------------- MODULE GuestFrame -----------------------------
(***************************************************************************)
(* From a frame read off the tap to the bytes that are forwarded:          *)
(* parse_frame, handle_tap_frame and the slicing of handle_udp, handle_tcp *)
(* and handle_icmp_echo (src/uring.rs), with the length checks of the      *)
(* header parsers (src/proto.rs).                                          *)
(*                                                                         *)
(* A frame is its length and the header fields the arithmetic depends on,  *)
(* all of them the guest's choice.  A field of a header that the frame is  *)
(* too short for has a value here too, but a parser returns None before it *)
(* looks.  `cuts' records every slice the code takes without asking: one   *)
(* out of bounds, or inverted, would panic.                                *)
(***************************************************************************)
EXTENDS Integers, Sequences

CONSTANT Frames

VnetLen == 10
EthLen == 14
Ipv4Len == 20
Ipv6Len == 40
UdpLen == 8
TcpLen == 20
IcmpLen == 8

\* parses: version and fragment bits are acceptable.  echo: an ICMP message is
\* an echo request, code 0, of the destination's family.  ip_len: total_len
\* (IPv4) or payload_len (IPv6).  gso: gso_size of
\* a frame marked UDP_L4, else 0.
FrameType ==
    [len : Nat, ethertype : {"v4", "v6", "other"}, parses : BOOLEAN,
     ihl : 0..15, ip_len : Nat, from_guest : BOOLEAN,
     proto : {"udp", "tcp", "icmp", "other"},
     udp_len : Nat, doff : 0..15, echo : BOOLEAN, gso : Nat]

ASSUME FramesAssumption == Frames \subseteq FrameType

VARIABLES
    frame,
    step,       \* "read", "l4", "split", "done"
    l4,         \* range of the L4 message
    payload,    \* range of the bytes to forward
    off,        \* position of the loop over GSO segments
    segments,   \* ranges forwarded so far
    cuts

frameVars == <<frame, step, l4, payload, off, segments, cuts>>

R(lo, hi) == [lo |-> lo, hi |-> hi]
Lower(a, b) == IF a < b THEN a ELSE b
Size(r) == r.hi - r.lo
Empty == R(0, 0)

FrameInit ==
    /\ frame \in Frames
    /\ step = "read" /\ l4 = Empty /\ payload = Empty
    /\ off = 0 /\ segments = <<>> /\ cuts = {}

-----------------------------------------------------------------------------
L3 == VnetLen + EthLen

\* The IP header's own length, and what it says follows it.
HeaderLen(f) == IF f.ethertype = "v4" THEN 4 * f.ihl ELSE Ipv6Len
PayloadLen(f) == IF f.ethertype = "v4" THEN f.ip_len - HeaderLen(f) ELSE f.ip_len

\* Ipv4Hdr::parse, Ipv6Hdr::parse and parse_frame's checked_sub.
IpParses(f) ==
    /\ f.len >= L3 /\ f.parses
    /\ \/ /\ f.ethertype = "v4"
          /\ HeaderLen(f) >= Ipv4Len /\ f.len - L3 >= HeaderLen(f)
          /\ f.ip_len >= HeaderLen(f)
       \/ f.ethertype = "v6" /\ f.len - L3 >= Ipv6Len

\* parse_frame, and the check of the source address.
ParseFrame ==
    /\ step = "read"
    /\ LET start == L3 + HeaderLen(frame)
       IN  IF IpParses(frame) /\ frame.from_guest
           THEN /\ l4' = R(start, Lower(start + PayloadLen(frame), frame.len))
                /\ step' = "l4"
           ELSE step' = "done" /\ UNCHANGED l4
    /\ UNCHANGED <<frame, payload, off, segments, cuts>>

\* One call of forward (or tcp_from_guest) with the bytes of range r.
Forwarded(r) == segments' = Append(segments, r) /\ cuts' = cuts \cup {l4, r}

Drop == cuts' = cuts \cup {l4} /\ step' = "done" /\ UNCHANGED <<payload, off, segments>>

\* Faulty: UdpHdr::parse without its check of the length field.
UdpParsesAnyLen(f) == Size(l4) >= UdpLen

UdpParses(f) == Size(l4) >= UdpLen /\ f.udp_len >= UdpLen

HandleUdpFrame ==
    /\ step = "l4" /\ frame.proto = "udp"
    /\ LET p == R(l4.lo + UdpLen, Lower(l4.lo + frame.udp_len, l4.hi))
       IN  \/ ~UdpParses(frame) /\ Drop
           \/ /\ UdpParses(frame) /\ frame.gso = 0
              /\ payload' = p /\ Forwarded(p)
              /\ step' = "done" /\ UNCHANGED off
           \/ /\ UdpParses(frame) /\ frame.gso > 0
              /\ payload' = p /\ off' = p.lo
              /\ step' = "split" /\ cuts' = cuts \cup {l4} /\ UNCHANGED segments
    /\ UNCHANGED <<frame, l4>>

\* Faulty: the last segment is not cut at the end of the payload.
SegmentEndUncut == off + frame.gso

SegmentEnd == Lower(off + frame.gso, payload.hi)

\* One iteration of the loop over a super-frame's datagrams.
ForwardGso ==
    /\ step = "split" /\ off < payload.hi
    /\ Forwarded(R(off, SegmentEnd))
    /\ off' = SegmentEnd
    /\ UNCHANGED <<frame, step, l4, payload>>

SplitDone ==
    /\ step = "split" /\ off >= payload.hi
    /\ step' = "done"
    /\ UNCHANGED <<frame, l4, payload, off, segments, cuts>>

\* TcpHdr::parse's checks of the data offset; it also slices the options.
\* Its loop over the options (module TcpOptions) may refuse a frame that
\* passes here; such a frame is taken to be handled, which adds behaviours.
TcpParses(f) ==
    Size(l4) >= TcpLen /\ 4 * f.doff >= TcpLen /\ Size(l4) >= 4 * f.doff

HandleTcpFrame ==
    /\ step = "l4" /\ frame.proto = "tcp"
    /\ LET p == R(l4.lo + 4 * frame.doff, l4.hi)
       IN  \/ ~TcpParses(frame) /\ Drop
           \/ /\ TcpParses(frame)
              /\ payload' = p /\ segments' = Append(segments, p)
              /\ cuts' = cuts \cup {l4, R(l4.lo + TcpLen, p.lo), p}
              /\ step' = "done" /\ UNCHANGED off
    /\ UNCHANGED <<frame, l4>>

\* The whole ICMP message is forwarded.
HandleIcmpFrame ==
    /\ step = "l4" /\ frame.proto = "icmp"
    /\ \/ ~(Size(l4) >= IcmpLen /\ frame.echo) /\ Drop
       \/ /\ Size(l4) >= IcmpLen /\ frame.echo
          /\ payload' = l4 /\ Forwarded(l4)
          /\ step' = "done" /\ UNCHANGED off
    /\ UNCHANGED <<frame, l4>>

OtherFrame ==
    /\ step = "l4" /\ frame.proto = "other"
    /\ step' = "done"
    /\ UNCHANGED <<frame, l4, payload, off, segments, cuts>>

FrameNext ==
    \/ ParseFrame
    \/ HandleUdpFrame
    \/ ForwardGso
    \/ SplitDone
    \/ HandleTcpFrame
    \/ HandleIcmpFrame
    \/ OtherFrame

FrameSpec == FrameInit /\ [][FrameNext]_frameVars

-----------------------------------------------------------------------------
(***************************************************************************)
(* Properties.                                                             *)
(***************************************************************************)

\* End of the IP packet inside the frame; an ethernet trailer is behind it.
PacketEnd == Lower(frame.len, L3 + HeaderLen(frame) + PayloadLen(frame))

\* No slice of a guest frame is out of bounds or inverted, whatever its
\* length fields say, and none reaches past the IP packet, so padding of the
\* frame is never forwarded.
SlicesInBounds ==
    \A c \in cuts : L3 <= c.lo /\ c.lo <= c.hi /\ c.hi <= PacketEnd

\* handle_udp cuts a GSO super-frame into the datagrams the guest put in:
\* consecutive, none empty, all of gso_size but the last, none missing.
SegmentsTile ==
    frame.proto = "udp" /\ frame.gso > 0 /\ step \in {"split", "done"} =>
        /\ \A i \in 1..Len(segments) :
              /\ segments[i].lo = payload.lo + (i - 1) * frame.gso
              /\ segments[i].hi = Lower(segments[i].lo + frame.gso, payload.hi)
              /\ segments[i].lo < segments[i].hi
        /\ step = "done" /\ payload.lo < payload.hi =>
              segments # <<>> /\ segments[Len(segments)].hi = payload.hi
=============================================================================
