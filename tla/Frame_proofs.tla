---------------------------- MODULE Frame_proofs ----------------------------
(***************************************************************************)
(* Frames from and to the guest.  For frames of any length with any header *)
(* fields: no slice of a guest frame is out of bounds, and a GSO           *)
(* super-frame is cut without gap or overlap.  For every ring size,        *)
(* segment limit, window and MSS: the loop of tcp_data_to_guest cuts the   *)
(* data into segments without gap or overlap and reads each from the right *)
(* bytes of the ring.                                                      *)
(***************************************************************************)
EXTENDS GuestFrame, TcpSend, TLAPS

RangeSet == [lo : Int, hi : Int]

FrameTypes ==
    /\ frame \in FrameType
    /\ l4 \in RangeSet /\ payload \in RangeSet
    /\ off \in Int
    /\ segments \in Seq(RangeSet)
    /\ cuts \subseteq RangeSet

Inside(r) == L3 <= r.lo /\ r.lo <= r.hi /\ r.hi <= PacketEnd

\* Once parse_frame has accepted a frame, its L4 message is inside the packet.
L4Inside == step \in {"l4", "split"} => Inside(l4)

NothingYet == step \in {"read", "l4"} => payload = Empty /\ segments = <<>>

\* The loop's position is where the segments forwarded so far end.
SplitPosition ==
    step = "split" =>
        /\ frame.proto = "udp" /\ frame.gso > 0
        /\ Inside(payload)
        /\ off = Lower(payload.lo + Len(segments) * frame.gso, payload.hi)

FrameInv ==
    /\ FrameTypes /\ L4Inside /\ NothingYet /\ SplitPosition
    /\ SlicesInBounds /\ SegmentsTile

LEMMA RangeFact ==
    ASSUME NEW a \in Int, NEW b \in Int
    PROVE  R(a, b) \in RangeSet /\ R(a, b).lo = a /\ R(a, b).hi = b
  BY DEF R, RangeSet

LEMMA LengthFact ==
    ASSUME NEW f \in FrameType
    PROVE  HeaderLen(f) \in Nat /\ PayloadLen(f) \in Int /\ f.len \in Nat
  BY DEF FrameType, HeaderLen, PayloadLen, Ipv6Len

LEMMA PacketEndFact ==
    ASSUME frame \in FrameType
    PROVE  /\ PacketEnd \in Int
           /\ PacketEnd = Lower(L3 + HeaderLen(frame) + PayloadLen(frame), frame.len)
  BY LengthFact DEF PacketEnd, Lower, L3, VnetLen, EthLen

LEMMA FrameInitInv == FrameInit => FrameInv
<1> SUFFICES ASSUME FrameInit PROVE FrameInv
  OBVIOUS
<1> USE DEF FrameInit
<1>1. FrameTypes
  BY FramesAssumption, RangeFact DEF FrameTypes, Empty
<1>2. L4Inside /\ NothingYet /\ SplitPosition
  BY DEF L4Inside, NothingYet, SplitPosition
<1>3. SlicesInBounds /\ SegmentsTile
  BY DEF SlicesInBounds, SegmentsTile
<1> QED
  BY <1>1, <1>2, <1>3 DEF FrameInv

\* Steps that end the handling of a frame without forwarding anything.
LEMMA NothingForwarded ==
    ASSUME FrameInv, UNCHANGED <<frame, l4, payload, off, segments>>,
           step \in {"read", "l4"}, step' = "done",
           cuts' \subseteq cuts \cup {l4}, step = "l4" \/ cuts' = cuts
    PROVE  FrameInv'
<1> USE DEF FrameInv
<1>1. FrameTypes'
  BY DEF FrameTypes
<1>2. L4Inside' /\ NothingYet' /\ SplitPosition'
  BY DEF L4Inside, NothingYet, SplitPosition
<1>3. SlicesInBounds'
  BY DEF SlicesInBounds, L4Inside, Inside, PacketEnd
<1>4. payload.lo = 0 /\ payload.hi = 0 /\ segments = <<>>
  BY RangeFact DEF NothingYet, Empty
<1>5. SegmentsTile'
  BY <1>4 DEF SegmentsTile, FrameTypes
<1> QED
  BY <1>1, <1>2, <1>3, <1>5

LEMMA ParseFrameInv ==
    ASSUME FrameInv, ParseFrame
    PROVE  FrameInv'
<1> USE DEF ParseFrame
<1>1. CASE ~(IpParses(frame) /\ frame.from_guest)
  BY <1>1, NothingForwarded
<1>2. CASE IpParses(frame) /\ frame.from_guest
  <2> DEFINE start == L3 + HeaderLen(frame)
             end == Lower(start + PayloadLen(frame), frame.len)
  <2>1. frame \in FrameType
    BY DEF FrameInv, FrameTypes
  <2>2. start \in Int /\ start + PayloadLen(frame) \in Int /\ end \in Int
    BY <2>1, LengthFact DEF L3, VnetLen, EthLen, Lower
  <2>3. L3 <= start /\ start <= end /\ end <= PacketEnd
    <3>1. HeaderLen(frame) >= 0 /\ PayloadLen(frame) >= 0 /\ start <= frame.len
      BY <1>2, <2>1, LengthFact
         DEF IpParses, HeaderLen, PayloadLen, L3, VnetLen, EthLen, FrameType
    <3>2. L3 \in Int
      BY DEF L3, VnetLen, EthLen
    <3>3. PacketEnd = end
      BY <2>1, PacketEndFact
    <3> QED
      BY <2>1, <2>2, <3>1, <3>2, <3>3, LengthFact DEF Lower
  <2>4. l4' = R(start, end) /\ step' = "l4"
    BY <1>2
  <2>5. step = "read" /\ UNCHANGED <<frame, payload, off, segments, cuts>>
    OBVIOUS
  <2>6. l4' \in RangeSet /\ l4'.lo = start /\ l4'.hi = end
    BY <2>2, <2>4, RangeFact
  <2> HIDE DEF start, end
  <2>7. FrameTypes'
    BY <2>5, <2>6 DEF FrameInv, FrameTypes
  <2>8. PacketEnd' = PacketEnd
    BY <2>5 DEF PacketEnd
  <2>9. L4Inside' /\ NothingYet' /\ SplitPosition'
    BY <2>3, <2>4, <2>5, <2>6, <2>8
       DEF FrameInv, L4Inside, NothingYet, SplitPosition, Inside
  <2>10. SlicesInBounds' /\ SegmentsTile'
    BY <2>4, <2>5, <2>8 DEF FrameInv, SlicesInBounds, SegmentsTile
  <2> QED
    BY <2>7, <2>9, <2>10 DEF FrameInv
<1> QED
  BY <1>1, <1>2

\* Steps that forward one range and are done with the frame; for a UDP frame
\* only the ones without GSO.
LEMMA OneForwarded ==
    ASSUME FrameInv, step = "l4", step' = "done", UNCHANGED <<frame, l4, off>>,
           NEW p \in RangeSet, Inside(p), payload' = p,
           segments' = Append(segments, p),
           frame.proto = "udp" => frame.gso = 0,
           NEW C \in SUBSET RangeSet, \A c \in C : Inside(c),
           cuts' = cuts \cup {l4, p} \cup C
    PROVE  FrameInv'
<1> USE DEF FrameInv
<1>1. FrameTypes'
  BY DEF FrameTypes
<1>2. L4Inside' /\ NothingYet' /\ SplitPosition'
  BY DEF L4Inside, NothingYet, SplitPosition
<1>3. SlicesInBounds'
  BY DEF SlicesInBounds, L4Inside, Inside, PacketEnd
<1>4. ~(frame.proto = "udp" /\ frame.gso > 0)
  BY DEF FrameTypes, FrameType
<1>5. SegmentsTile'
  BY <1>4 DEF SegmentsTile
<1> QED
  BY <1>1, <1>2, <1>3, <1>5

LEMMA UdpFrameInv ==
    ASSUME FrameInv, HandleUdpFrame
    PROVE  FrameInv'
<1> DEFINE p == R(l4.lo + UdpLen, Lower(l4.lo + frame.udp_len, l4.hi))
<1>1. /\ step = "l4" /\ frame.proto = "udp" /\ UNCHANGED <<frame, l4>>
      /\ frame \in FrameType /\ l4 \in RangeSet
  BY DEF HandleUdpFrame, FrameInv, FrameTypes
<1>2. CASE ~UdpParses(frame) /\ Drop
  BY <1>1, <1>2, NothingForwarded DEF Drop
<1>3. ASSUME UdpParses(frame) PROVE p \in RangeSet /\ Inside(p) /\ p.lo = l4.lo + UdpLen
  <2>1. /\ l4.lo + UdpLen \in Int /\ l4.lo + frame.udp_len \in Int
        /\ l4.lo \in Int /\ l4.hi \in Int /\ frame.udp_len \in Int
    BY <1>1 DEF RangeSet, FrameType, UdpLen
  <2>2. /\ Lower(l4.lo + frame.udp_len, l4.hi) \in Int
        /\ Lower(l4.lo + frame.udp_len, l4.hi) <= l4.hi
        /\ l4.lo + UdpLen <= Lower(l4.lo + frame.udp_len, l4.hi)
    BY <1>3, <2>1 DEF UdpParses, Size, UdpLen, Lower
  <2>3. /\ p \in RangeSet /\ p.lo = l4.lo + UdpLen
        /\ p.hi = Lower(l4.lo + frame.udp_len, l4.hi)
    BY <2>1, <2>2, RangeFact
  <2>4. Inside(l4)
    BY <1>1 DEF FrameInv, L4Inside
  <2>5. L3 \in Int /\ PacketEnd \in Int
    BY <1>1, PacketEndFact DEF L3, VnetLen, EthLen
  <2> QED
    BY <2>1, <2>2, <2>3, <2>4, <2>5 DEF Inside, UdpLen
<1>4. CASE /\ UdpParses(frame) /\ frame.gso = 0
           /\ payload' = p /\ Forwarded(p) /\ step' = "done" /\ UNCHANGED off
  <2>1. segments' = Append(segments, p) /\ cuts' = cuts \cup {l4, p} \cup {}
    BY <1>4 DEF Forwarded
  <2>2. p \in RangeSet /\ Inside(p)
    BY <1>3, <1>4
  <2> HIDE DEF p
  <2> QED
    <3>1. /\ payload' = p /\ step' = "done" /\ UNCHANGED <<frame, l4, off>>
          /\ frame.proto = "udp" => frame.gso = 0
          /\ {} \in SUBSET RangeSet /\ \A c \in {} : Inside(c)
      BY <1>1, <1>4
    <3> QED
      BY <1>1, <2>1, <2>2, <3>1, OneForwarded
<1>5. CASE /\ UdpParses(frame) /\ frame.gso > 0
           /\ payload' = p /\ off' = p.lo
           /\ step' = "split" /\ cuts' = cuts \cup {l4} /\ UNCHANGED segments
  <2> HIDE DEF p
  <2>1. p \in RangeSet /\ Inside(p) /\ p.lo \in Int /\ p.hi \in Int
    BY <1>3, <1>5 DEF RangeSet
  <2>2. PacketEnd' = PacketEnd
    BY <1>1 DEF PacketEnd
  <2>3. FrameTypes'
    BY <1>1, <1>5, <2>1 DEF FrameInv, FrameTypes
  <2>4. L4Inside' /\ NothingYet'
    BY <1>1, <1>5, <2>2 DEF FrameInv, L4Inside, NothingYet, Inside
  <2>5. segments' = <<>> /\ Len(segments') = 0
    BY <1>1, <1>5 DEF FrameInv, NothingYet
  <2>6. frame.gso \in Int
    BY <1>1 DEF FrameType
  <2>7. off' = Lower(payload'.lo + Len(segments') * frame'.gso, payload'.hi)
    BY <1>1, <1>5, <2>1, <2>5, <2>6 DEF Lower, Inside
  <2>8. SplitPosition'
    BY <1>1, <1>5, <2>1, <2>2, <2>7 DEF SplitPosition, Inside
  <2>9. SlicesInBounds'
    BY <1>1, <1>5, <2>2 DEF FrameInv, SlicesInBounds, L4Inside, Inside
  <2>10. SegmentsTile'
    BY <1>5, <2>5 DEF SegmentsTile
  <2> QED
    BY <2>3, <2>4, <2>8, <2>9, <2>10 DEF FrameInv
<1> QED
  BY <1>2, <1>4, <1>5 DEF HandleUdpFrame

LEMMA ForwardGsoInv ==
    ASSUME FrameInv, ForwardGso
    PROVE  FrameInv'
<1> DEFINE n == Len(segments)
           g == frame.gso
<1>1. /\ step = "split" /\ step' = "split" /\ off < payload.hi
      /\ UNCHANGED <<frame, l4, payload>>
      /\ segments' = Append(segments, R(off, SegmentEnd))
      /\ cuts' = cuts \cup {l4, R(off, SegmentEnd)} /\ off' = SegmentEnd
  BY DEF ForwardGso, Forwarded
<1>2. /\ n \in Nat /\ g \in Nat /\ g > 0 /\ off \in Int
      /\ payload.lo \in Int /\ payload.hi \in Int /\ Inside(payload)
      /\ frame \in FrameType
  BY <1>1 DEF FrameInv, FrameTypes, FrameType, RangeSet, SplitPosition
<1>3. n * g \in Nat /\ (n + 1) * g = n * g + g
  BY <1>2
<1>4. off = payload.lo + n * g
  <2>1. off = Lower(payload.lo + n * g, payload.hi)
    BY <1>1 DEF FrameInv, SplitPosition
  <2> HIDE DEF n, g
  <2> QED
    BY <1>1, <1>2, <1>3, <2>1 DEF Lower
<1>5. /\ SegmentEnd \in Int /\ SegmentEnd <= payload.hi /\ off < SegmentEnd
      /\ SegmentEnd = Lower(off + g, payload.hi)
  BY <1>1, <1>2 DEF SegmentEnd, Lower
<1> DEFINE r == R(off, SegmentEnd)
<1>6. r \in RangeSet /\ r.lo = off /\ r.hi = SegmentEnd
  BY <1>2, <1>5, RangeFact
<1> HIDE DEF r
<1>7. PacketEnd' = PacketEnd /\ PacketEnd \in Int
  BY <1>1, <1>2, PacketEndFact DEF PacketEnd
<1>8. Inside(r)
  <2>1. payload.lo <= off
    BY <1>2, <1>3, <1>4
  <2> HIDE DEF n, g
  <2> QED
    BY <1>2, <1>5, <1>6, <1>7, <2>1 DEF Inside, L3, VnetLen, EthLen
<1>9. segments' = Append(segments, r) /\ cuts' = cuts \cup {l4, r}
  BY <1>1 DEF r
<1>10. FrameTypes'
  BY <1>1, <1>5, <1>6, <1>9 DEF FrameInv, FrameTypes
<1>11. L4Inside' /\ NothingYet'
  BY <1>1, <1>7 DEF FrameInv, L4Inside, NothingYet, Inside
<1>12. SlicesInBounds'
  BY <1>1, <1>7, <1>8, <1>9 DEF FrameInv, SlicesInBounds, L4Inside, Inside
<1>13. segments \in Seq(RangeSet) /\ Len(segments') = n + 1
  BY <1>6, <1>9 DEF FrameInv, FrameTypes
<1>14. off' = Lower(payload'.lo + Len(segments') * frame'.gso, payload'.hi)
  <2>1. Len(segments') * frame'.gso = n * g + g
    BY <1>1, <1>3, <1>13
  <2>2. payload'.lo + Len(segments') * frame'.gso = off + g
    BY SMTT(60), <1>1, <1>2, <1>3, <1>4, <2>1
  <2> QED
    BY <1>1, <1>5, <2>2
<1>15. SplitPosition'
  BY <1>1, <1>7, <1>14 DEF FrameInv, SplitPosition, Inside
<1>16. SegmentsTile'
  <2> SUFFICES ASSUME NEW i \in 1..Len(segments')
               PROVE  /\ segments'[i].lo = payload.lo + (i - 1) * g
                      /\ segments'[i].hi = Lower(segments'[i].lo + g, payload.hi)
                      /\ segments'[i].lo < segments'[i].hi
    BY <1>1 DEF SegmentsTile
  <2>1. CASE i \in 1..n
    <3>1. segments'[i] = segments[i]
      BY <1>6, <1>9, <1>13, <2>1
    <3> QED
      BY <1>1, <2>1, <3>1 DEF FrameInv, SegmentsTile, SplitPosition
  <2>2. CASE i = n + 1
    <3>1. segments'[i] = r
      BY <1>6, <1>9, <1>13, <2>2
    <3>2. (i - 1) * g = n * g
      BY <1>2, <2>2
    <3> QED
      BY <1>4, <1>5, <1>6, <3>1, <3>2
  <2> QED
    BY <1>2, <1>13, <2>1, <2>2
<1> QED
  BY <1>10, <1>11, <1>12, <1>15, <1>16 DEF FrameInv

LEMMA SplitDoneInv ==
    ASSUME FrameInv, SplitDone
    PROVE  FrameInv'
<1>1. /\ step = "split" /\ step' = "done" /\ off >= payload.hi
      /\ UNCHANGED <<frame, l4, payload, off, segments, cuts>>
  BY DEF SplitDone
<1>2. FrameTypes' /\ L4Inside' /\ NothingYet' /\ SplitPosition' /\ SlicesInBounds'
  BY <1>1 DEF FrameInv, FrameTypes, L4Inside, NothingYet, SplitPosition,
              SlicesInBounds, PacketEnd
<1>3. ASSUME payload.lo < payload.hi
      PROVE  segments # <<>> /\ segments[Len(segments)].hi = payload.hi
  <2> DEFINE n == Len(segments)
             g == frame.gso
  <2>1. /\ n \in Nat /\ g \in Nat /\ off \in Int /\ segments \in Seq(RangeSet)
        /\ payload.lo \in Int /\ payload.hi \in Int
    BY DEF FrameInv, FrameTypes, FrameType, RangeSet
  <2>2. off = Lower(payload.lo + n * g, payload.hi) /\ n * g \in Nat
    BY <1>1, <2>1 DEF FrameInv, SplitPosition
  <2>3. off = payload.hi
    BY <1>1, <2>1, <2>2 DEF Lower
  <2>4. n # 0
    BY <1>3, <2>1, <2>2, <2>3 DEF Lower
  <2>5. n \in 1..n /\ (n - 1) * g + g = n * g
    BY <2>1, <2>4
  <2>6. /\ segments[n].lo = payload.lo + (n - 1) * g
        /\ segments[n].hi = Lower(segments[n].lo + g, payload.hi)
    BY <1>1, <2>5 DEF FrameInv, SegmentsTile, SplitPosition
  <2>7. (n - 1) * g \in Int
    BY <2>1
  <2>8. segments[n].lo + g = payload.lo + n * g
    BY SMTT(60), <2>1, <2>2, <2>5, <2>6, <2>7
  <2> QED
    BY <2>1, <2>2, <2>3, <2>4, <2>6, <2>8
<1>4. SegmentsTile'
  BY <1>1, <1>3 DEF FrameInv, SegmentsTile
<1> QED
  BY <1>2, <1>4 DEF FrameInv

LEMMA TcpFrameInv ==
    ASSUME FrameInv, HandleTcpFrame
    PROVE  FrameInv'
<1> DEFINE p == R(l4.lo + 4 * frame.doff, l4.hi)
           o == R(l4.lo + TcpLen, p.lo)
<1>1. /\ step = "l4" /\ frame.proto = "tcp" /\ UNCHANGED <<frame, l4>>
      /\ frame \in FrameType /\ l4 \in RangeSet /\ Inside(l4)
  BY DEF HandleTcpFrame, FrameInv, FrameTypes, L4Inside
<1>2. CASE ~TcpParses(frame) /\ Drop
  BY <1>1, <1>2, NothingForwarded DEF Drop
<1>3. CASE /\ TcpParses(frame)
           /\ payload' = p /\ segments' = Append(segments, p)
           /\ cuts' = cuts \cup {l4, o, p}
           /\ step' = "done" /\ UNCHANGED off
  <2>1. /\ l4.lo \in Int /\ l4.hi \in Int /\ 4 * frame.doff \in Int
        /\ L3 \in Int /\ PacketEnd \in Int
    BY <1>1, PacketEndFact DEF RangeSet, FrameType, L3, VnetLen, EthLen
  <2>2. p \in RangeSet /\ p.lo = l4.lo + 4 * frame.doff /\ p.hi = l4.hi
    BY <2>1, RangeFact
  <2>3. o \in RangeSet /\ o.lo = l4.lo + TcpLen /\ o.hi = p.lo
    BY <2>1, <2>2, RangeFact DEF TcpLen
  <2> HIDE DEF p, o
  <2>4. Inside(p) /\ Inside(o)
    BY SMTT(60), <1>1, <1>3, <2>1, <2>2, <2>3 DEF Inside, TcpParses, Size, TcpLen
  <2>5. cuts' = cuts \cup {l4, p} \cup {o}
    BY <1>3
  <2> QED
    BY <1>1, <1>3, <2>2, <2>3, <2>4, <2>5, OneForwarded
<1> QED
  BY <1>2, <1>3 DEF HandleTcpFrame

LEMMA IcmpFrameInv ==
    ASSUME FrameInv, HandleIcmpFrame
    PROVE  FrameInv'
<1>1. /\ step = "l4" /\ frame.proto = "icmp" /\ UNCHANGED <<frame, l4>>
      /\ l4 \in RangeSet /\ Inside(l4)
  BY DEF HandleIcmpFrame, FrameInv, FrameTypes, L4Inside
<1>2. CASE Drop
  BY <1>1, <1>2, NothingForwarded DEF Drop
<1>3. CASE payload' = l4 /\ Forwarded(l4) /\ step' = "done" /\ UNCHANGED off
  <2>1. segments' = Append(segments, l4) /\ cuts' = cuts \cup {l4, l4} \cup {}
    BY <1>3 DEF Forwarded
  <2> QED
    BY <1>1, <1>3, <2>1, OneForwarded
<1> QED
  BY <1>2, <1>3 DEF HandleIcmpFrame

LEMMA FrameStepInv == FrameInv /\ [FrameNext]_frameVars => FrameInv'
<1> SUFFICES ASSUME FrameInv, [FrameNext]_frameVars PROVE FrameInv'
  OBVIOUS
<1>1. CASE OtherFrame
  BY <1>1, NothingForwarded DEF OtherFrame
<1>2. CASE UNCHANGED frameVars
  BY <1>2 DEF frameVars, FrameInv, FrameTypes, L4Inside, NothingYet, SplitPosition,
              SlicesInBounds, SegmentsTile, Inside, PacketEnd
<1> QED
  BY <1>1, <1>2, ParseFrameInv, UdpFrameInv, ForwardGsoInv, SplitDoneInv,
     TcpFrameInv, IcmpFrameInv DEF FrameNext

LEMMA FrameInvariance == FrameSpec => []FrameInv
  BY FrameInitInv, FrameStepInv, PTL DEF FrameSpec

\* parse_frame, handle_udp, handle_tcp and handle_icmp_echo never index past
\* a frame, whatever its length and its header fields are.
THEOREM FrameSafety == FrameSpec => []SlicesInBounds
<1>1. FrameInv => SlicesInBounds
  BY DEF FrameInv
<1> QED
  BY <1>1, FrameInvariance, PTL

\* handle_udp forwards exactly the datagrams of a super-frame, for every
\* payload length and segment size.
THEOREM SplitCorrect == FrameSpec => []SegmentsTile
<1>1. FrameInv => SegmentsTile
  BY DEF FrameInv
<1> QED
  BY <1>1, FrameInvariance, PTL

-----------------------------------------------------------------------------
(* The send loop. *)

PieceSet == [off : Nat, len : Nat, pos : Nat, first : Nat]

SendTypes ==
    /\ send \in SendType /\ send.sent < send.buffered /\ send.budget > 0
    /\ sendOff \in Nat
    /\ pieces \in Seq(PieceSet)

SendInv ==
    /\ SendTypes
    /\ pieces = <<>> => sendOff = 0
    /\ PiecesTile /\ PiecesInRing

LEMMA SendLenFact ==
    ASSUME SendTypes
    PROVE  /\ SendLen \in Nat /\ SendLen > 0 /\ SendLen <= RingSize
           /\ Mss \in Nat /\ Mss > 0
           /\ Chunk \in Nat /\ Chunk > 0 /\ Chunk <= MaxPiece
           /\ UseGso \/ Chunk <= Mss
<1>1. SendLen \in Nat /\ SendLen > 0 /\ SendLen <= RingSize
  BY SendAssumption DEF SendTypes, SendType, SendLen, Smaller
<1>2. Mss \in Nat /\ Mss > 0
  BY SendAssumption DEF SendTypes, SendType, Mss, Larger
<1>3. /\ Chunk \in Nat /\ Chunk > 0 /\ Chunk <= MaxPiece
      /\ UseGso \/ Chunk <= Mss
  BY <1>1, <1>2, SendAssumption DEF Chunk, Smaller
<1> QED
  BY <1>1, <1>2, <1>3

LEMMA RingPosFact ==
    ASSUME SendTypes
    PROVE  RingPos \in Nat /\ RingPos < RingSize
<1>1. /\ send.head + send.sent + sendOff \in Nat
      /\ RingSize \in Nat /\ RingSize > 0
  BY SendAssumption DEF SendTypes, SendType
<1> QED
  BY <1>1 DEF RingPos

LEMMA SendInitInv == SendInit => SendInv
<1> SUFFICES ASSUME SendInit PROVE SendInv
  OBVIOUS
<1>1. SendTypes
  BY SendAssumption DEF SendInit, SendTypes
<1> QED
  BY <1>1, SendLenFact DEF SendInit, SendInv, PiecesTile, PiecesInRing

LEMMA SendPieceInv ==
    ASSUME SendInv, SendPiece
    PROVE  SendInv'
<1> DEFINE len == Smaller(Chunk, SendLen - sendOff)
           pos == RingPos
           first == Smaller(len, RingSize - pos)
           new == [off |-> sendOff, len |-> len, pos |-> pos, first |-> first]
           n == Len(pieces)
<1>1. /\ sendOff < SendLen /\ send' = send /\ sendOff' = sendOff + len
      /\ pieces' = Append(pieces, new)
  BY DEF SendPiece
<1>2. /\ SendTypes /\ sendOff \in Nat /\ pieces \in Seq(PieceSet) /\ n \in Nat
      /\ RingSize \in Nat /\ RingSize > 0
  BY SendAssumption DEF SendInv, SendTypes
<1>3. SendLen' = SendLen /\ Mss' = Mss /\ UseGso' = UseGso
  BY <1>1 DEF SendLen, Mss, UseGso
<1>4. /\ len \in Nat /\ 0 < len /\ len <= MaxPiece /\ len <= RingSize
      /\ UseGso \/ len <= Mss
      /\ sendOff + len <= SendLen
  BY <1>1, <1>2, SendLenFact, SendAssumption DEF Smaller
<1>5. pos \in Nat /\ pos < RingSize /\ pos = (send.head + send.sent + sendOff) % RingSize
  BY <1>2, RingPosFact DEF RingPos
<1> HIDE DEF len, pos
<1>6. /\ first \in Nat /\ first <= len /\ pos + first <= RingSize
      /\ first < len => pos + first = RingSize
      /\ len - first <= pos
  BY <1>2, <1>4, <1>5 DEF Smaller
<1> HIDE DEF first
<1>7. /\ new \in PieceSet
      /\ new.off = sendOff /\ new.len = len /\ new.pos = pos /\ new.first = first
  BY <1>2, <1>4, <1>5, <1>6 DEF PieceSet
<1> HIDE DEF new
<1>8. /\ pieces' \in Seq(PieceSet) /\ Len(pieces') = n + 1
      /\ pieces'[n + 1] = new /\ \A i \in 1..n : pieces'[i] = pieces[i]
  BY <1>1, <1>2, <1>7
<1>9. SendTypes' /\ (pieces = <<>> => sendOff = 0)' /\ sendOff' <= SendLen'
  BY <1>1, <1>2, <1>3, <1>4, <1>8 DEF SendTypes
<1>10. PiecesTile'
  <2> SUFFICES ASSUME NEW i \in 1..(n + 1)
               PROVE  LET p == pieces'[i]
                      IN  /\ 0 < p.len /\ p.len <= MaxPiece
                          /\ UseGso \/ p.len <= Mss
                          /\ p.off = (IF i = 1 THEN 0
                                      ELSE pieces'[i - 1].off + pieces'[i - 1].len)
                          /\ p.off + p.len <= sendOff'
                          /\ i = n + 1 => p.off + p.len = sendOff'
    BY <1>3, <1>8, <1>9 DEF PiecesTile
  <2>1. CASE i \in 1..n
    <3>1. /\ pieces'[i] = pieces[i] /\ (i # 1 => pieces'[i - 1] = pieces[i - 1])
          /\ pieces[i] \in PieceSet
      BY <1>2, <1>8, <2>1
    <3>2. LET p == pieces[i]
          IN  /\ 0 < p.len /\ p.len <= MaxPiece
              /\ UseGso \/ p.len <= Mss
              /\ p.off = (IF i = 1 THEN 0 ELSE pieces[i - 1].off + pieces[i - 1].len)
              /\ p.off + p.len <= sendOff
      BY <2>1 DEF SendInv, PiecesTile
    <3>3. sendOff <= sendOff' /\ sendOff' \in Nat /\ i # n + 1
      BY <1>1, <1>2, <1>4, <2>1
    <3>4. pieces[i].off + pieces[i].len <= sendOff'
      <4>1. pieces[i].off \in Nat /\ pieces[i].len \in Nat
        BY <3>1 DEF PieceSet
      <4> QED
        BY <1>2, <3>2, <3>3, <4>1
    <3> QED
      BY <3>1, <3>2, <3>3, <3>4
  <2>2. CASE i = n + 1
    <3>1. CASE n = 0
      <4>1. sendOff = 0
        BY <1>2, <3>1 DEF SendInv
      <4> QED
        BY <1>1, <1>2, <1>4, <1>7, <1>8, <2>2, <3>1, <4>1
    <3>2. CASE n # 0
      <4>1. pieces[n].off + pieces[n].len = sendOff /\ pieces'[i - 1] = pieces[n]
        BY <1>2, <1>8, <2>2, <3>2 DEF SendInv, PiecesTile
      <4> QED
        BY <1>1, <1>2, <1>4, <1>7, <1>8, <2>2, <3>2, <4>1
    <3> QED
      BY <3>1, <3>2
  <2> QED
    BY <1>2, <2>1, <2>2
<1>11. PiecesInRing'
  <2> SUFFICES ASSUME NEW i \in 1..(n + 1)
               PROVE  LET p == pieces'[i]
                      IN  /\ p.pos = (send.head + send.sent + p.off) % RingSize
                          /\ p.pos + p.first <= RingSize
                          /\ p.first <= p.len
                          /\ p.first < p.len => p.pos + p.first = RingSize
                          /\ p.len - p.first <= p.pos
    BY <1>1, <1>8 DEF PiecesInRing
  <2>1. CASE i \in 1..n
    BY <1>8, <2>1 DEF SendInv, PiecesInRing
  <2>2. CASE i = n + 1
    BY <1>5, <1>6, <1>7, <1>8, <2>2
  <2> QED
    BY <1>2, <2>1, <2>2
<1> QED
  BY <1>9, <1>10, <1>11 DEF SendInv

LEMMA SendStepInv == SendInv /\ [SendNext]_sendVars => SendInv'
<1> SUFFICES ASSUME SendInv, [SendNext]_sendVars PROVE SendInv'
  OBVIOUS
<1>1. CASE SendNext
  BY <1>1, SendPieceInv DEF SendNext
<1>2. CASE UNCHANGED sendVars
  BY <1>2 DEF sendVars, SendInv, SendTypes, PiecesTile, PiecesInRing, SendLen, Mss, UseGso
<1> QED
  BY <1>1, <1>2

LEMMA SendInvariance == SendSpec => []SendInv
  BY SendInitInv, SendStepInv, PTL DEF SendSpec

\* tcp_data_to_guest's segments are consecutive, never empty and never longer
\* than the IP length field, the MSS, the data or the window allow.
THEOREM PiecesCorrect == SendSpec => []PiecesTile
<1>1. SendInv => PiecesTile
  BY DEF SendInv
<1> QED
  BY <1>1, SendInvariance, PTL

\* Each segment's one or two slices of the ring are in bounds, disjoint and
\* at the stream position the sequence number says.
THEOREM PiecesFromRing == SendSpec => []PiecesInRing
<1>1. SendInv => PiecesInRing
  BY DEF SendInv
<1> QED
  BY <1>1, SendInvariance, PTL
=============================================================================
