--------------------------- MODULE TcpFlow_proofs ---------------------------
(***************************************************************************)
(* Safety of one spliced TCP connection, for every size of ring, buffers,  *)
(* windows, tap queue, segments and streams, and with any losses, resets   *)
(* and early timeouts.                                                     *)
(*                                                                         *)
(* The argument.  Sequence numbers wrap, so what a number in a queued      *)
(* segment stands for has to be bounded from both sides.  Both bounds come *)
(* from the order the tap keeps: a segment in the queue was written when   *)
(* the sender knew at least as much as all segments before it say.  Acks   *)
(* are therefore monotone along a queue (`UpAcks', `DownAcks'), and data   *)
(* reaches back at most one ring or one send buffer behind what can have   *)
(* arrived before it (`DownOrder', `UpOrder').  `FlowInv' relates the      *)
(* flow's counters to the ring and to both streams.                        *)
(***************************************************************************)
EXTENDS TcpFlow, TLAPS, SequenceTheorems

\* No second flow is opened: a SYN that is still queued when its flow has
\* left the table would open one with the sequence numbers of the first
\* (TCP_ISN is a constant).
OneFlow == ended # "no" => t = NoFlow

\* It takes a retransmitted SYN and a reset by the host to open one.
OneConnection == ~(SynRetries /\ HostResets)

Bit(b) == IF b THEN 1 ELSE 0

FlowSet ==
    [state : {"Connecting", "Established"},
     seq_from_guest : 0..SeqMod-1, seq_una : 0..SeqMod-1,
     sent_unacked : 0..FRAME, buffered : 0..FRAME,
     buf_head : 0..FRAME-1, host_eof : BOOLEAN,
     guest_window : 0..GuestBuf, dup_acks : 0..2,
     host_fin : {"NotSent", "Sent", "Acked"},
     guest_fin_received : BOOLEAN, ack_deferred : BOOLEAN,
     poll_armed : BOOLEAN]

HostSet ==
    [up : BOOLEAN, written : 0..HostLen, read : 0..HostLen, eof : BOOLEAN,
     reset : BOOLEAN, got : Seq(Nat), outq : Nat, shut : BOOLEAN]

GuestSet ==
    [state : {"Closed", "SynSent", "Established", "Reset"},
     una : Nat, nxt : Nat, wnd : 0..SndBuf, recv : Seq(Nat),
     unread : 0..GuestBuf, fin : BOOLEAN]

RingSet == [0..FRAME-1 -> 0..HostLen]

\* What each side has of the other's stream, its end included, and the right
\* edge of the guest's window.
Taken(h) == Len(h.got) + Bit(h.shut)
Seen(g) == Len(g.recv) + Bit(g.fin)
Edge(g) == Len(g.recv) + GuestWindow(g)

\* Bytes that have left the ring; the same with our FIN.
Rel(f, h) == h.read - f.buffered
Sure(f, h) == Rel(f, h) + Bit(f.host_fin = "Acked")

\* Byte j of the data is byte j of the stream from data[1] on.
Consecutive(d) ==
    /\ d[1] >= 1
    /\ \A j \in 1..Len(d) : d[j] = d[1] + j - 1
End(d) == d[1] + Len(d) - 1

-----------------------------------------------------------------------------
\* The flow f with ring r against the host socket h and the guest g.
FlowCounts(f, h, g) ==
    /\ f.sent_unacked <= f.buffered /\ f.buffered <= h.read
    /\ f.host_eof => h.eof /\ h.read = h.written
    /\ f.host_fin # "NotSent" => f.host_eof /\ f.buffered = 0
    /\ f.host_fin = "Acked" => g.fin
    /\ Rel(f, h) <= Len(g.recv)
    /\ Rel(f, h) + f.guest_window <= Edge(g) + Bit(g.fin)

FlowNumbers(f, h) ==
    /\ f.seq_from_guest = SeqOf(GuestISN, 1 + Taken(h))
    /\ f.guest_fin_received = h.shut
    /\ f.state = "Connecting" => h.read = 0 /\ f.host_fin = "NotSent"
    /\ f.state = "Established" => f.seq_una = SeqOf(TCP_ISN, 1 + Sure(f, h))

RingInv(f, r, h) ==
    \A i \in 0..f.buffered-1 : r[(f.buf_head + i) % FRAME] = Rel(f, h) + i + 1

FlowInv(f, r, h, g) ==
    /\ f \in FlowSet
    /\ FlowCounts(f, h, g)
    /\ FlowNumbers(f, h)
    /\ RingInv(f, r, h)

HostInv(h, g) ==
    /\ h \in HostSet
    /\ h.read <= h.written /\ Len(g.recv) <= h.read
    /\ \A i \in 1..Len(h.got) : h.got[i] = i
    /\ Len(h.got) <= GuestLen
    /\ h.shut => Len(h.got) = GuestLen
    /\ h.reset => HostResets

GuestInv(g, h) ==
    /\ g \in GuestSet
    /\ \A i \in 1..Len(g.recv) : g.recv[i] = i
    /\ g.fin => h.eof /\ Len(g.recv) = h.written
    /\ g.una <= Taken(h) /\ Taken(h) <= g.nxt /\ g.nxt <= GuestLen + 1
    /\ g.nxt <= g.una + SndBuf \/ (g.nxt = GuestLen + 1 /\ GuestLen <= g.una + SndBuf)
    /\ g.state \in {"Closed", "SynSent"} =>
          g.recv = <<>> /\ ~g.fin /\ g.unread = 0 /\ g.nxt = 0

-----------------------------------------------------------------------------
\* Segments on their way to the guest.
DownSeg(s, h, g) ==
    /\ s.win <= SndBuf
    /\ s.data # <<>> =>
          /\ Consecutive(s.data) /\ s.seq = SeqOf(TCP_ISN, s.data[1])
          /\ End(s.data) <= h.read /\ End(s.data) <= Edge(g)
          /\ Len(g.recv) < s.data[1] + FRAME
    /\ "FIN" \in s.flags =>
          /\ s.data = <<>> /\ h.eof /\ Len(g.recv) = h.written
          /\ s.seq = SeqOf(TCP_ISN, 1 + h.written)

DownOrder(q) ==
    \A i, j \in 1..Len(q) :
        i < j /\ q[i].data # <<>> /\ q[j].data # <<>>
          => End(q[i].data) < q[j].data[1] + FRAME

DownAcks(q, h, g) ==
    \E A \in [1..Len(q) -> Nat] :
        /\ \A i \in 1..Len(q) :
              /\ g.una <= A[i] /\ A[i] <= Taken(h)
              /\ "RST" \notin q[i].flags
                   => q[i].ack = SeqOf(GuestISN, 1 + A[i])
        /\ \A i, j \in 1..Len(q) : i < j => A[i] <= A[j]

DownInv(q, h, g) ==
    /\ q \in Seq(Segments) /\ Len(q) <= TapQueue
    /\ \A i \in 1..Len(q) : DownSeg(q[i], h, g)
    /\ DownOrder(q)
    /\ DownAcks(q, h, g)

\* Segments on their way to presto.
UpSeg(s, h, g) ==
    /\ s.win <= GuestBuf
    /\ "SYN" \in s.flags =>
          /\ s.flags = {"SYN"} /\ s.seq = GuestISN /\ s.win = GuestBuf
          /\ s.data = <<>>
    /\ "RST" \in s.flags => g.state = "Reset"
    /\ "SYN" \notin s.flags => g.state \in {"Established", "Reset"}
    /\ s.data # <<>> =>
          /\ Consecutive(s.data) /\ s.seq = SeqOf(GuestISN, s.data[1])
          /\ End(s.data) <= GuestLen /\ End(s.data) <= g.nxt
          /\ Taken(h) <= s.data[1] + SndBuf
    /\ "FIN" \in s.flags =>
          /\ g.nxt = GuestLen + 1
          /\ s.data # <<>> => End(s.data) = GuestLen
          /\ s.data = <<>> => s.seq = SeqOf(GuestISN, 1 + GuestLen)

UpOrder(q) ==
    \A i, j \in 1..Len(q) :
        i < j /\ q[j].data # <<>> =>
          /\ q[i].data # <<>> => End(q[i].data) <= q[j].data[1] + SndBuf
          /\ "FIN" \in q[i].flags => GuestLen + 1 <= q[j].data[1] + SndBuf

\* r is how much the guest had seen when it wrote s.
UpAck(s, r, lo, g) ==
    /\ lo <= r /\ r <= Seen(g)
    /\ "ACK" \in s.flags /\ "RST" \notin s.flags =>
          /\ s.ack = SeqOf(TCP_ISN, 1 + r)
          /\ r + s.win <= Edge(g) + Bit(g.fin)
    /\ "SYN" \in s.flags => r = 0

UpAcks(q, lo, g) ==
    \E R \in [1..Len(q) -> Nat] :
        /\ \A i \in 1..Len(q) : UpAck(q[i], R[i], lo, g)
        /\ \A i, j \in 1..Len(q) : i < j => R[i] <= R[j]

SynFirst(q) ==
    \A i, j \in 1..Len(q) :
        i < j /\ "SYN" \in q[j].flags => "SYN" \in q[i].flags

UpInv(q, h, g, lo) ==
    /\ q \in Seq(Segments) /\ Len(q) <= TapQueue
    /\ \A i \in 1..Len(q) : UpSeg(q[i], h, g)
    /\ UpOrder(q)
    /\ UpAcks(q, lo, g)
    /\ SynFirst(q)

-----------------------------------------------------------------------------
\* The life of the connection: at most one flow.
SynQueued(q) == \E i \in 1..Len(q) : "SYN" \in q[i].flags
OneSyn(q) ==
    \A i, j \in 1..Len(q) : "SYN" \in q[i].flags /\ "SYN" \in q[j].flags => i = j

NotBegun ==
    /\ host = NewHost /\ toGuest = <<>>
    /\ guest.state \in {"Closed", "SynSent", "Reset"}
    /\ guest.recv = <<>> /\ ~guest.fin /\ guest.unread = 0 /\ guest.nxt = 0
    /\ \A i \in 1..Len(toPresto) :
          "SYN" \in toPresto[i].flags \/ "RST" \in toPresto[i].flags

Life ==
    /\ ended \in {"no", "closed", "reset"}
    /\ t = NoFlow /\ ended = "no" => NotBegun
    /\ OneFlow
    /\ OneConnection /\ ended # "no" =>
          ~SynQueued(toPresto) /\ (guest.state = "SynSent" => ~SynRetries)
    /\ t # NoFlow \/ ended # "no" => guest.state # "Closed"
    /\ guest.state = "Closed" => toPresto = <<>>
    /\ ~SynRetries =>
          /\ t # NoFlow => ~SynQueued(toPresto)
          /\ OneSyn(toPresto)
    /\ ended = "closed" => guest.fin /\ host.shut

Lo == IF t # NoFlow /\ t.state = "Established" THEN Sure(t, host) ELSE 0

IInv ==
    /\ ring \in RingSet
    /\ t # NoFlow => FlowInv(t, ring, host, guest)
    /\ HostInv(host, guest)
    /\ GuestInv(guest, host)
    /\ DownInv(toGuest, host, guest)
    /\ UpInv(toPresto, host, guest, Lo)
    /\ Life

-----------------------------------------------------------------------------
\* Multiples of n, the remainder, and its uniqueness.
LEMMA MulGe ==
  ASSUME NEW n \in Nat \ {0}, NEW k \in Int, k >= 1
  PROVE  n * k >= n
  BY SMT

LEMMA MulLe ==
  ASSUME NEW n \in Nat \ {0}, NEW k \in Int, k <= -1
  PROVE  n * k <= -n
  BY SMT


LEMMA ModDef ==
  ASSUME NEW a \in Int, NEW n \in Nat \ {0}
  PROVE  /\ a % n \in 0..(n-1)
         /\ a = n * (a \div n) + (a % n) /\ a \div n \in Int
  BY SMT

LEMMA ModUnique ==
  ASSUME NEW n \in Nat \ {0}, NEW q \in Int, NEW r \in 0..(n-1)
  PROVE  (n * q + r) % n = r
<1> DEFINE a == n * q + r
           d == a \div n
           m == a % n
           k == q - d
<1>1. m \in 0..(n-1) /\ a = n * d + m /\ d \in Int
  BY ModDef
<1> HIDE DEF d, m
<1>2. k \in Int /\ n * k = m - r
  BY <1>1
<1> HIDE DEF k
<1>3. k = 0
  <2>1. CASE k >= 1
    BY <2>1, <1>1, <1>2, MulGe
  <2>2. CASE k <= -1
    BY <2>2, <1>1, <1>2, MulLe
  <2> QED BY <2>1, <2>2, <1>2
<1>4. m = r
  BY <1>1, <1>2, <1>3
<1> QED BY <1>4 DEF m

\* A remainder may be taken before or after a sum or difference.
LEMMA ModShift ==
  ASSUME NEW a \in Int, NEW b \in Int, NEW n \in Nat \ {0}
  PROVE  ((a % n) + b) % n = (a + b) % n
<1> DEFINE q == a \div n
           r == a % n
           p == (r + b) \div n
           s == (r + b) % n
<1>1. r \in 0..(n-1) /\ a = n * q + r /\ q \in Int
  BY ModDef
<1>2. s \in 0..(n-1) /\ r + b = n * p + s /\ p \in Int
  BY <1>1, ModDef
<1> HIDE DEF q, r, p, s
<1>3. a + b = n * (q + p) + s
  BY <1>1, <1>2
<1>4. (a + b) % n = s
  <2>1. q + p \in Int
    BY <1>1, <1>2
  <2>2. (n * (q + p) + s) % n = s
    BY <2>1, <1>2, ModUnique
  <2> QED BY <2>2, <1>3
<1> QED BY <1>4 DEF s, r

LEMMA ModShiftNeg ==
  ASSUME NEW a \in Int, NEW b \in Int, NEW n \in Nat \ {0}
  PROVE  (b - (a % n)) % n = (b - a) % n
<1> DEFINE q == a \div n
           r == a % n
           p == (b - r) \div n
           s == (b - r) % n
<1>1. r \in 0..(n-1) /\ a = n * q + r /\ q \in Int
  BY ModDef
<1>2. s \in 0..(n-1) /\ b - r = n * p + s /\ p \in Int
  BY <1>1, ModDef
<1> HIDE DEF q, r, p, s
<1>3. b - a = n * (p - q) + s
  BY <1>1, <1>2
<1>4. (b - a) % n = s
  <2>1. p - q \in Int
    BY <1>1, <1>2
  <2>2. (n * (p - q) + s) % n = s
    BY <2>1, <1>2, ModUnique
  <2> QED BY <2>2, <1>3
<1> QED BY <1>4 DEF s, r

\* Remainders within one period of 0.
LEMMA ModSmall ==
  ASSUME NEW n \in Nat \ {0}, NEW a \in 0..(n-1)
  PROVE  a % n = a
  BY ModUnique, (n * 0 + a) = a

LEMMA ModNeg ==
  ASSUME NEW n \in Nat \ {0}, NEW a \in Int, -n <= a, a < 0
  PROVE  a % n = a + n
<1>1. (n * (-1) + (a + n)) % n = a + n
  BY ModUnique
<1>2. n * (-1) + (a + n) = a
  OBVIOUS
<1> QED BY <1>1, <1>2

\* Equal remainders less than a period apart.
LEMMA ModInjective ==
  ASSUME NEW n \in Nat \ {0}, NEW a \in Int, NEW b \in Int,
         a % n = b % n, a - b < n, b - a < n
  PROVE  a = b
<1>1. (a - (b % n)) % n = (a - b) % n
  BY ModShiftNeg
<1>2. (a - (a % n)) % n = (a - a) % n
  BY ModShiftNeg
<1>3. (a - b) % n = 0
  BY <1>1, <1>2, ModSmall, a - a = 0
<1>4. CASE a - b >= 0
  BY <1>4, <1>3, ModSmall
<1>5. CASE a - b < 0
  BY <1>5, <1>3, ModNeg
<1> QED BY <1>4, <1>5

\* Sequence numbers: wrapping_add twice, wrapping_sub, comparison.
LEMMA SeqModFact == SeqMod \in Nat \ {0} /\ FRAME \in Nat \ {0}
  BY TcpFlowAssumption

LEMMA SeqOfType ==
  ASSUME NEW i \in Int, NEW n \in Int
  PROVE  SeqOf(i, n) \in 0..SeqMod-1
  BY SeqModFact, ModDef DEF SeqOf

LEMMA SeqOfPlus ==
  ASSUME NEW i \in Int, NEW a \in Int, NEW b \in Int
  PROVE  SeqOf(SeqOf(i, a), b) = SeqOf(i, a + b)
<1>1. ASSUME NEW k \in Int
      PROVE  ((k % SeqMod) + b) % SeqMod = (k + b) % SeqMod
  BY SeqModFact, ModShift
<1>2. (((i + a) % SeqMod) + b) % SeqMod = ((i + a) + b) % SeqMod
  BY <1>1, i + a \in Int
<1> QED BY <1>2, (i + a) + b = i + (a + b) DEF SeqOf

LEMMA DistFact ==
  ASSUME NEW i \in Int, NEW a \in Int, NEW b \in Int
  PROVE  Dist(SeqOf(i, a), SeqOf(i, b)) = (b - a) % SeqMod
<1> DEFINE x == i + a
           y == i + b
           s == y % SeqMod
<1>1. x \in Int /\ y \in Int /\ s \in Int
  BY SeqModFact, ModDef
<1> HIDE DEF x, y
<1>2. (s - (x % SeqMod)) % SeqMod = (s - x) % SeqMod
  <2> HIDE DEF s
  <2> QED BY ZenonT(60), <1>1, SeqModFact, ModShiftNeg
<1>3. (s + (-x)) % SeqMod = (y + (-x)) % SeqMod
  <2>1. -x \in Int
    BY <1>1
  <2> QED BY ZenonT(60), <1>1, <2>1, SeqModFact, ModShift
<1>4. y + (-x) = b - a
  BY DEF x, y
<1>5. s - x = s + (-x)
  BY <1>1
<1> QED BY <1>2, <1>3, <1>4, <1>5 DEF Dist, SeqOf, x, y

LEMMA DistSmall ==
  ASSUME NEW i \in Int, NEW a \in Int, NEW b \in Int, a <= b, b - a < SeqMod
  PROVE  Dist(SeqOf(i, a), SeqOf(i, b)) = b - a
<1>1. b - a \in 0..(SeqMod - 1)
  BY SeqModFact
<1>2. (b - a) % SeqMod = b - a
  BY <1>1, SeqModFact, ModSmall
<1> QED BY <1>2, DistFact

LEMMA DistBehind ==
  ASSUME NEW i \in Int, NEW a \in Int, NEW b \in Int, b < a, a - b <= SeqMod
  PROVE  Dist(SeqOf(i, a), SeqOf(i, b)) = SeqMod + b - a
<1>1. (b - a) % SeqMod = b - a + SeqMod
  BY SeqModFact, ModNeg
<1> QED BY <1>1, DistFact, SeqModFact

LEMMA SeqOfInjective ==
  ASSUME NEW i \in Int, NEW a \in Int, NEW b \in Int, SeqOf(i, a) = SeqOf(i, b),
         a - b < SeqMod, b - a < SeqMod
  PROVE  a = b
<1> DEFINE x == i + a
           y == i + b
<1>1. x \in Int /\ y \in Int /\ x % SeqMod = y % SeqMod /\ x - y < SeqMod /\ y - x < SeqMod
  BY DEF SeqOf
<1> HIDE DEF x, y
<1>2. x = y
  BY <1>1, SeqModFact, ModInjective
<1> QED BY <1>2 DEF x, y

LEMMA Sizes ==
    /\ FRAME \in Nat \ {0} /\ Chunk \in Nat \ {0} /\ SndBuf \in Nat \ {0}
    /\ GuestBuf \in Nat \ {0} /\ TapQueue \in Nat \ {0}
    /\ HostLen \in Nat /\ GuestLen \in Nat /\ SeqMod \in Nat \ {0}
    /\ TCP_ISN \in 0..SeqMod-1 /\ GuestISN \in 0..SeqMod-1
    /\ SeqMod > FRAME + FRAME + 4 /\ SeqMod > SndBuf + SndBuf + 4
  BY TcpFlowAssumption

-----------------------------------------------------------------------------
(* Queues                                                                  *)

LEMMA QueueFact ==
    ASSUME NEW q \in Seq(Segments), NEW segs \in Seq(Segments), Len(q) <= TapQueue
    PROVE  LET p == Queue(q, segs)
           IN  /\ p \in Seq(Segments) /\ Len(p) <= TapQueue
               /\ Len(q) <= Len(p) /\ Len(p) <= Len(q) + Len(segs)
               /\ \A i \in 1..Len(q) : p[i] = q[i]
               /\ \A i \in 1..Len(p) : i > Len(q) =>
                     i - Len(q) \in 1..Len(segs) /\ p[i] = segs[i - Len(q)]
<1> DEFINE c == q \o segs
           m == Min(TapQueue, Len(q) + Len(segs))
<1>1. Len(q) \in Nat /\ Len(segs) \in Nat
  BY LenProperties
<1>2. /\ c \in Seq(Segments) /\ Len(c) = Len(q) + Len(segs)
      /\ \A i \in 1..(Len(q) + Len(segs)) :
            c[i] = IF i <= Len(q) THEN q[i] ELSE segs[i - Len(q)]
  BY ConcatProperties
<1>3. m \in Nat /\ Len(q) <= m /\ m <= Len(q) + Len(segs) /\ m <= TapQueue
  BY <1>1, Sizes DEF Min
<1> HIDE DEF c, m
<1>4. \A i \in 1..m : c[i] \in Segments
  BY <1>1, <1>2, <1>3, ElementOfSeq
<1>5. /\ SubSeq(c, 1, m) \in Seq(Segments)
      /\ Len(SubSeq(c, 1, m)) = (IF 1 <= m THEN m - 1 + 1 ELSE 0)
      /\ \A i \in 1..(m - 1 + 1) : SubSeq(c, 1, m)[i] = c[1 + i - 1]
  BY <1>3, <1>4, SubSeqProperties
<1>6. Len(SubSeq(c, 1, m)) = m /\ \A i \in 1..m : SubSeq(c, 1, m)[i] = c[i]
  BY <1>3, <1>5
<1>7. Queue(q, segs) = SubSeq(c, 1, m)
  BY DEF Queue, c, m
<1> QED BY <1>1, <1>2, <1>3, <1>5, <1>6, <1>7

LEMMA TailFact ==
    ASSUME NEW S, NEW q \in Seq(S), q # <<>>
    PROVE  /\ Len(q) \in Nat \ {0} /\ Head(q) = q[1] /\ q[1] \in S
           /\ Tail(q) \in Seq(S) /\ Len(Tail(q)) = Len(q) - 1
           /\ \A i \in 1..Len(Tail(q)) : Tail(q)[i] = q[i + 1] /\ i + 1 \in 1..Len(q)
  BY HeadTailProperties, EmptySeq, LenProperties

LEMMA SegmentFact ==
    ASSUME NEW seq \in Int, NEW ack \in Int, NEW win \in 0..(SndBuf + GuestBuf),
           NEW flags \in SUBSET Flags, NEW data \in Seq(0..(HostLen + GuestLen))
    PROVE  LET s == Segment(seq, ack, win, flags, data)
           IN  /\ s \in Segments
               /\ s.seq = seq % SeqMod /\ s.ack = ack % SeqMod /\ s.win = win
               /\ s.flags = flags /\ s.data = data
<1>1. seq % SeqMod \in 0..SeqMod-1 /\ ack % SeqMod \in 0..SeqMod-1
  BY SeqModFact, ModDef
<1> QED BY <1>1 DEF Segment, Segments

\* A number that is already reduced is left alone.
LEMMA SeqOfReduced ==
    ASSUME NEW i \in Int, NEW n \in Int
    PROVE  SeqOf(i, n) % SeqMod = SeqOf(i, n) /\ (i + n) % SeqMod = SeqOf(i, n)
  BY SeqOfType, SeqModFact, ModSmall DEF SeqOf

LEMMA SegmentsFact ==
    ASSUME NEW s \in Segments
    PROVE  /\ s.seq \in 0..SeqMod-1 /\ s.ack \in 0..SeqMod-1
           /\ s.win \in 0..(SndBuf + GuestBuf) /\ s.flags \in SUBSET Flags
           /\ s.data \in Seq(0..(HostLen + GuestLen)) /\ Len(s.data) \in Nat
           /\ s.data # <<>> => Len(s.data) >= 1 /\ s.data[1] \in Nat
           /\ s.data = <<>> => Len(s.data) = 0
<1>1. /\ s.seq \in 0..SeqMod-1 /\ s.ack \in 0..SeqMod-1
      /\ s.win \in 0..(SndBuf + GuestBuf) /\ s.flags \in SUBSET Flags
      /\ s.data \in Seq(0..(HostLen + GuestLen))
  BY DEF Segments
<1>2. Len(s.data) \in Nat /\ (s.data # <<>> => Len(s.data) >= 1)
      /\ (s.data = <<>> => Len(s.data) = 0)
  BY <1>1, LenProperties, EmptySeq
<1>3. ASSUME s.data # <<>> PROVE s.data[1] \in 0..(HostLen + GuestLen)
  <2> DEFINE d == s.data
  <2>1. d \in Seq(0..(HostLen + GuestLen)) /\ 1 \in 1..Len(d)
    BY <1>1, <1>2, <1>3
  <2> HIDE DEF d
  <2>2. d[1] \in 0..(HostLen + GuestLen)
    BY <2>1, ElementOfSeq
  <2> QED BY <2>2 DEF d
<1> QED BY <1>1, <1>2, <1>3, Sizes

LEMMA EndFact ==
    ASSUME NEW s \in Segments, s.data # <<>>
    PROVE  End(s.data) \in Nat /\ End(s.data) >= s.data[1]
           /\ End(s.data) = s.data[1] + Len(s.data) - 1
<1> DEFINE a == s.data[1]
           n == Len(s.data)
<1>1. a \in Nat /\ n \in Nat /\ n >= 1 /\ End(s.data) = a + n - 1
  BY SegmentsFact DEF End
<1> HIDE DEF a, n
<1>2. a + n - 1 \in Nat /\ a + n - 1 >= a
  BY <1>1
<1> QED BY <1>1, <1>2 DEF a, n

LEMMA BitFact ==
    ASSUME NEW b \in BOOLEAN
    PROVE  Bit(b) \in 0..1 /\ (b => Bit(b) = 1) /\ (~b => Bit(b) = 0)
  BY DEF Bit

LEMMA HostFact ==
    ASSUME NEW h \in HostSet
    PROVE  /\ h.written \in Nat /\ h.read \in Nat /\ h.outq \in Nat
           /\ h.read <= HostLen /\ h.written <= HostLen
           /\ h.got \in Seq(Nat) /\ Len(h.got) \in Nat
           /\ h.eof \in BOOLEAN /\ h.shut \in BOOLEAN /\ h.reset \in BOOLEAN
           /\ h.up \in BOOLEAN
           /\ Bit(h.shut) \in 0..1 /\ Taken(h) = Len(h.got) + Bit(h.shut)
           /\ Taken(h) \in Nat
<1>1. /\ h.written \in 0..HostLen /\ h.read \in 0..HostLen /\ h.outq \in Nat
      /\ h.got \in Seq(Nat) /\ h.up \in BOOLEAN
      /\ h.eof \in BOOLEAN /\ h.shut \in BOOLEAN /\ h.reset \in BOOLEAN
  BY DEF HostSet
<1>2. Len(h.got) \in Nat
  BY <1>1, LenProperties
<1>3. Bit(h.shut) \in 0..1
  BY <1>1, BitFact
<1>4. Taken(h) = Len(h.got) + Bit(h.shut)
  BY DEF Taken
<1>5. Taken(h) \in Nat
  BY <1>2, <1>3, <1>4
<1>6. h.written \in Nat /\ h.read \in Nat /\ h.read <= HostLen /\ h.written <= HostLen
  BY <1>1, Sizes
<1> QED BY <1>1, <1>2, <1>3, <1>4, <1>5, <1>6

LEMMA GuestFact ==
    ASSUME NEW g \in GuestSet
    PROVE  /\ g.una \in Nat /\ g.nxt \in Nat /\ g.wnd \in 0..SndBuf
           /\ g.recv \in Seq(Nat) /\ Len(g.recv) \in Nat
           /\ g.unread \in 0..GuestBuf /\ g.fin \in BOOLEAN
           /\ g.state \in {"Closed", "SynSent", "Established", "Reset"}
           /\ Bit(g.fin) \in 0..1 /\ Seen(g) = Len(g.recv) + Bit(g.fin) /\ Seen(g) \in Nat
           /\ GuestWindow(g) = GuestBuf - g.unread /\ GuestWindow(g) \in 0..GuestBuf
           /\ Edge(g) = Len(g.recv) + GuestBuf - g.unread
           /\ Edge(g) \in Nat /\ Len(g.recv) <= Edge(g)
<1>1. /\ g.una \in Nat /\ g.nxt \in Nat /\ g.wnd \in 0..SndBuf
      /\ g.recv \in Seq(Nat) /\ g.unread \in 0..GuestBuf /\ g.fin \in BOOLEAN
      /\ g.state \in {"Closed", "SynSent", "Established", "Reset"}
  BY DEF GuestSet
<1>2. Len(g.recv) \in Nat
  BY <1>1, LenProperties
<1>3. Bit(g.fin) \in 0..1
  BY <1>1, BitFact
<1>4. Seen(g) = Len(g.recv) + Bit(g.fin)
  BY DEF Seen
<1>5. Seen(g) \in Nat
  BY <1>2, <1>3, <1>4
<1>6. GuestWindow(g) = GuestBuf - g.unread /\ GuestWindow(g) \in 0..GuestBuf
  BY <1>1, Sizes DEF GuestWindow
<1>7. Edge(g) = Len(g.recv) + GuestBuf - g.unread
  BY <1>1, <1>2, <1>6, Sizes DEF Edge
<1>8. Edge(g) \in Nat /\ Len(g.recv) <= Edge(g)
  BY <1>1, <1>2, <1>7, Sizes
<1> QED BY <1>1, <1>2, <1>3, <1>4, <1>5, <1>6, <1>7, <1>8

\* What never shrinks at the host, as far as queued segments depend on it.
HostGrows(h, k) ==
    /\ h.read <= k.read
    /\ h.eof => k.eof /\ k.written = h.written
    /\ Taken(h) <= Taken(k)

LEMMA DownHost ==
    ASSUME NEW q, NEW h \in HostSet, NEW k \in HostSet, NEW g \in GuestSet,
           DownInv(q, h, g), HostGrows(h, k)
    PROVE  DownInv(q, k, g)
<1>1. q \in Seq(Segments) /\ Len(q) <= TapQueue /\ DownOrder(q) /\ DownAcks(q, h, g)
      /\ \A i \in 1..Len(q) : DownSeg(q[i], h, g)
  BY DEF DownInv
<1>2. ASSUME NEW i \in 1..Len(q) PROVE DownSeg(q[i], k, g)
  <2>1. q[i] \in Segments
    BY <1>1, ElementOfSeq
  <2>2. DownSeg(q[i], h, g)
    BY <1>1
  <2> QED BY SMTT(60), <2>1, <2>2, SegmentsFact, HostFact DEF DownSeg, HostGrows, End
<1>3. DownAcks(q, k, g)
  <2>1. PICK A \in [1..Len(q) -> Nat] :
          /\ \A i \in 1..Len(q) :
                /\ g.una <= A[i] /\ A[i] <= Taken(h)
                /\ "RST" \notin q[i].flags
                     => q[i].ack = SeqOf(GuestISN, 1 + A[i])
          /\ \A i, j \in 1..Len(q) : i < j => A[i] <= A[j]
    BY <1>1 DEF DownAcks
  <2>2. Taken(h) \in Nat /\ Taken(k) \in Nat /\ Taken(h) <= Taken(k)
    BY HostFact DEF HostGrows
  <2>3. ASSUME NEW i \in 1..Len(q) PROVE A[i] <= Taken(k)
    <3>1. A[i] <= Taken(h) /\ A[i] \in Nat
      BY <2>1
    <3> QED BY <3>1, <2>2
  <2> QED BY <2>1, <2>3 DEF DownAcks
<1> QED BY <1>1, <1>2, <1>3 DEF DownInv

\* The guest moves without taking anything off the queue.
LEMMA DownGuest ==
    ASSUME NEW q, NEW h \in HostSet, NEW g \in GuestSet, NEW k \in GuestSet,
           DownInv(q, h, g), k.una = g.una, k.recv = g.recv, Edge(g) <= Edge(k)
    PROVE  DownInv(q, h, k)
<1>1. q \in Seq(Segments) /\ Len(q) <= TapQueue /\ DownOrder(q) /\ DownAcks(q, h, g)
      /\ \A i \in 1..Len(q) : DownSeg(q[i], h, g)
  BY DEF DownInv
<1>2. ASSUME NEW i \in 1..Len(q) PROVE DownSeg(q[i], h, k)
  <2>1. q[i] \in Segments
    BY <1>1, ElementOfSeq
  <2>2. DownSeg(q[i], h, g)
    BY <1>1
  <2>3. Edge(g) \in Nat /\ Edge(k) \in Nat
    BY GuestFact
  <2> DEFINE d == q[i].data
  <2>4. d # <<>> => End(d) \in Int
    BY <2>1, SegmentsFact DEF End
  <2> HIDE DEF d
  <2>5. d # <<>> => End(d) <= Edge(k)
    BY <2>2, <2>3, <2>4 DEF DownSeg, d
  <2> QED BY <2>2, <2>5 DEF DownSeg, d
<1>3. DownAcks(q, h, k)
  BY <1>1 DEF DownAcks
<1> QED BY <1>1, <1>2, <1>3 DEF DownInv

\* The head of the queue is taken off, and the guest becomes k by it.
LEMMA DownReceive ==
    ASSUME NEW q, NEW h \in HostSet, NEW g \in GuestSet, NEW k \in GuestSet,
           DownInv(q, h, g), q # <<>>, h.read <= h.written,
           Edge(g) <= Edge(k), Len(g.recv) <= Len(k.recv), Len(k.recv) <= h.read,
           Len(k.recv) = Len(g.recv)
             \/ (q[1].data # <<>> /\ Len(k.recv) <= End(q[1].data)),
           \A a \in Nat :
             /\ g.una <= a /\ a <= Taken(h)
             /\ "RST" \notin q[1].flags
                  => q[1].ack = SeqOf(GuestISN, 1 + a)
             => k.una <= a
    PROVE  DownInv(Tail(q), h, k)
<1> DEFINE p == Tail(q)
<1>1. q \in Seq(Segments) /\ Len(q) <= TapQueue /\ DownOrder(q) /\ DownAcks(q, h, g)
      /\ \A i \in 1..Len(q) : DownSeg(q[i], h, g)
  BY DEF DownInv
<1>2. /\ Len(q) \in Nat \ {0} /\ q[1] \in Segments
      /\ p \in Seq(Segments) /\ Len(p) = Len(q) - 1
      /\ \A i \in 1..Len(p) : p[i] = q[i + 1] /\ i + 1 \in 1..Len(q)
  BY <1>1, TailFact
<1> HIDE DEF p
<1>3. ASSUME NEW i \in 1..Len(p) PROVE DownSeg(p[i], h, k)
  <2>1. p[i] = q[i + 1] /\ i + 1 \in 1..Len(q) /\ 1 \in 1..Len(q) /\ 1 < i + 1
    BY <1>2
  <2>2. DownSeg(q[i + 1], h, g) /\ q[i + 1] \in Segments
    BY <2>1, <1>1, ElementOfSeq
  <2>3. q[1].data # <<>> /\ q[i + 1].data # <<>>
          => End(q[1].data) < q[i + 1].data[1] + FRAME
    BY <2>1, <1>1 DEF DownOrder
  <2> DEFINE s == q[i + 1]
             d == s.data
             e == q[1].data
  <2>4. /\ d # <<>> => End(d) \in Int /\ d[1] \in Nat
        /\ e # <<>> => End(e) \in Int
    <3>1. d # <<>> => d[1] \in Nat
      BY <2>2, SegmentsFact
    <3>2. d # <<>> => End(d) \in Nat
      BY <2>2, EndFact
    <3>3. e # <<>> => End(e) \in Nat
      BY <1>2, EndFact
    <3> QED BY <3>1, <3>2, <3>3
  <2>5. /\ Edge(g) \in Nat /\ Edge(k) \in Nat /\ h.read \in Nat /\ h.written \in Nat
        /\ Len(k.recv) \in Nat /\ Len(g.recv) \in Nat
    BY HostFact, GuestFact
  <2> HIDE DEF s, d, e
  <2>6. ASSUME d # <<>> PROVE End(d) <= Edge(k) /\ Len(k.recv) < d[1] + FRAME
    <3>1. End(d) <= Edge(g) /\ Len(g.recv) < d[1] + FRAME
      BY <2>2, <2>6 DEF DownSeg, d, s
    <3>2. e # <<>> => End(e) < d[1] + FRAME
      BY <2>3, <2>6 DEF d, e, s
    <3>3. Len(k.recv) = Len(g.recv) \/ (e # <<>> /\ Len(k.recv) <= End(e))
      BY DEF e
    <3> QED BY SMTT(60), <3>1, <3>2, <3>3, <2>4, <2>5, <2>6, Sizes
  <2>7. "FIN" \in s.flags => Len(k.recv) = h.written
    BY SMTT(60), <2>2, <2>5 DEF DownSeg, s
  <2>8. DownSeg(s, h, k)
    BY <2>2, <2>6, <2>7 DEF DownSeg, d, s
  <2> QED BY <2>1, <2>8 DEF s
<1>4. DownOrder(p)
  <2> SUFFICES ASSUME NEW i \in 1..Len(p), NEW j \in 1..Len(p), i < j,
                      p[i].data # <<>>, p[j].data # <<>>
               PROVE  End(p[i].data) < p[j].data[1] + FRAME
    BY DEF DownOrder
  <2>1. /\ p[i] = q[i + 1] /\ i + 1 \in 1..Len(q)
        /\ p[j] = q[j + 1] /\ j + 1 \in 1..Len(q) /\ i + 1 < j + 1
    BY <1>2
  <2> QED BY <2>1, <1>1 DEF DownOrder
<1>5. DownAcks(p, h, k)
  <2>1. PICK A \in [1..Len(q) -> Nat] :
          /\ \A i \in 1..Len(q) :
                /\ g.una <= A[i] /\ A[i] <= Taken(h)
                /\ "RST" \notin q[i].flags
                     => q[i].ack = SeqOf(GuestISN, 1 + A[i])
          /\ \A i, j \in 1..Len(q) : i < j => A[i] <= A[j]
    BY <1>1 DEF DownAcks
  <2> DEFINE B == [i \in 1..Len(p) |-> A[i + 1]]
  <2>2. k.una <= A[1] /\ A[1] \in Nat
    <3>1. 1 \in 1..Len(q)
      BY <1>2
    <3>2. A[1] \in Nat /\ g.una <= A[1] /\ A[1] <= Taken(h)
          /\ ("RST" \notin q[1].flags
               => q[1].ack = SeqOf(GuestISN, 1 + A[1]))
      BY <2>1, <3>1
    <3> QED BY <3>2
  <2>3. B \in [1..Len(p) -> Nat] /\ \A i \in 1..Len(p) : B[i] = A[i + 1]
    BY <1>2
  <2>4. ASSUME NEW i \in 1..Len(p)
        PROVE  /\ k.una <= B[i] /\ B[i] <= Taken(h)
               /\ "RST" \notin p[i].flags
                    => p[i].ack = SeqOf(GuestISN, 1 + B[i])
    <3>1. /\ p[i] = q[i + 1] /\ i + 1 \in 1..Len(q) /\ 1 \in 1..Len(q) /\ 1 < i + 1
          /\ B[i] = A[i + 1]
      BY <1>2, <2>3
    <3>2. A[1] <= A[i + 1] /\ A[i + 1] \in Nat /\ k.una \in Nat
      BY <2>1, <3>1, GuestFact
    <3>3. k.una <= A[i + 1]
      BY <3>2, <2>2
    <3> QED BY <3>1, <3>3, <2>1
  <2>5. \A i, j \in 1..Len(p) : i < j => B[i] <= B[j]
    BY <2>1, <2>3, <1>2
  <2> HIDE DEF B
  <2> QED BY <2>3, <2>4, <2>5 DEF DownAcks
<1>6. Len(p) <= TapQueue
  BY <1>1, <1>2, Sizes
<1> QED BY <1>2, <1>3, <1>4, <1>5, <1>6 DEF DownInv, p

\* A segment presto writes now: its data is not yet released, and it
\* acknowledges all the host has taken.
NewDown(s, lo, h, g) ==
    /\ s \in Segments
    /\ DownSeg(s, h, g)
    /\ s.data # <<>> => s.data[1] > lo
    /\ "RST" \notin s.flags => s.ack = SeqOf(GuestISN, 1 + Taken(h))

LEMMA DownAppend ==
    ASSUME NEW q, NEW segs \in Seq(Segments), NEW lo \in Int,
           NEW h \in HostSet, NEW g \in GuestSet,
           DownInv(q, h, g), g.una <= Taken(h), h.read <= lo + FRAME,
           \A i \in 1..Len(segs) : NewDown(segs[i], lo, h, g)
    PROVE  DownInv(Queue(q, segs), h, g)
<1> DEFINE p == Queue(q, segs)
<1>1. q \in Seq(Segments) /\ Len(q) <= TapQueue /\ DownOrder(q) /\ DownAcks(q, h, g)
      /\ \A i \in 1..Len(q) : DownSeg(q[i], h, g)
  BY DEF DownInv
<1>2. /\ p \in Seq(Segments) /\ Len(p) <= TapQueue
      /\ Len(q) <= Len(p) /\ Len(p) <= Len(q) + Len(segs)
      /\ \A i \in 1..Len(q) : p[i] = q[i]
      /\ \A i \in 1..Len(p) : i > Len(q) =>
            i - Len(q) \in 1..Len(segs) /\ p[i] = segs[i - Len(q)]
  BY <1>1, QueueFact
<1>3. Len(q) \in Nat /\ Len(p) \in Nat
  BY <1>1, <1>2, LenProperties
<1> HIDE DEF p
<1>4. \A i \in 1..Len(p) : i <= Len(q) => i \in 1..Len(q) /\ p[i] = q[i]
  BY <1>2, <1>3
<1>5. \A i \in 1..Len(p) : i > Len(q) => NewDown(p[i], lo, h, g)
  BY <1>2
<1>6. \A i \in 1..Len(p) : p[i] \in Segments
  BY <1>2, ElementOfSeq
<1>7. \A i \in 1..Len(p) : DownSeg(p[i], h, g)
  BY <1>1, <1>3, <1>4, <1>5 DEF NewDown
<1>8. DownOrder(p)
  <2> SUFFICES ASSUME NEW i \in 1..Len(p), NEW j \in 1..Len(p), i < j,
                      p[i].data # <<>>, p[j].data # <<>>
               PROVE  End(p[i].data) < p[j].data[1] + FRAME
    BY DEF DownOrder
  <2>1. CASE j <= Len(q)
    <3>1. i \in 1..Len(q) /\ j \in 1..Len(q) /\ p[i] = q[i] /\ p[j] = q[j]
      BY <2>1, <1>3, <1>4
    <3> QED BY <3>1, <1>1 DEF DownOrder
  <2>2. CASE j > Len(q)
    <3>1. p[j].data[1] > lo
      BY <2>2, <1>5 DEF NewDown
    <3>2. End(p[i].data) <= h.read
      BY <1>7 DEF DownSeg
    <3>3. p[j].data[1] \in Nat /\ p[i].data[1] \in Nat /\ Len(p[i].data) \in Nat
      BY <1>6, SegmentsFact
    <3> DEFINE e == End(p[i].data)
               d == p[j].data[1]
    <3>4. e \in Int /\ d \in Int /\ e <= h.read /\ d > lo /\ h.read \in Nat
      BY SMTT(60), <3>1, <3>2, <3>3, HostFact DEF End
    <3> HIDE DEF e, d
    <3>5. e < d + FRAME
      BY <3>4, Sizes
    <3> QED BY <3>5 DEF e, d
  <2> QED BY <2>1, <2>2, <1>3
<1>9. DownAcks(p, h, g)
  <2>1. PICK A \in [1..Len(q) -> Nat] :
          /\ \A i \in 1..Len(q) :
                /\ g.una <= A[i] /\ A[i] <= Taken(h)
                /\ "RST" \notin q[i].flags
                     => q[i].ack = SeqOf(GuestISN, 1 + A[i])
          /\ \A i, j \in 1..Len(q) : i < j => A[i] <= A[j]
    BY <1>1 DEF DownAcks
  <2> DEFINE B == [i \in 1..Len(p) |-> IF i <= Len(q) THEN A[i] ELSE Taken(h)]
  <2>2. /\ B \in [1..Len(p) -> Nat]
        /\ \A i \in 1..Len(p) : B[i] = IF i <= Len(q) THEN A[i] ELSE Taken(h)
    BY <1>3, <1>4, HostFact
  <2> HIDE DEF B
  <2>3. ASSUME NEW i \in 1..Len(p)
        PROVE  /\ g.una <= B[i] /\ B[i] <= Taken(h)
               /\ "RST" \notin p[i].flags
                    => p[i].ack = SeqOf(GuestISN, 1 + B[i])
    <3>1. CASE i <= Len(q)
      BY <3>1, <2>1, <2>2, <1>4
    <3>2. CASE i > Len(q)
      BY <3>2, <2>2, <1>3, <1>5, HostFact DEF NewDown
    <3> QED BY <3>1, <3>2, <1>3
  <2>4. ASSUME NEW i \in 1..Len(p), NEW j \in 1..Len(p), i < j PROVE B[i] <= B[j]
    <3>1. CASE j <= Len(q)
      BY SMTT(60), <3>1, <2>1, <2>2, <2>4, <1>3, <1>4
    <3>2. CASE j > Len(q)
      BY <3>2, <2>2, <2>3, <1>3
    <3> QED BY <3>1, <3>2, <1>3
  <2> QED BY <2>2, <2>3, <2>4 DEF DownAcks
<1> QED BY <1>2, <1>7, <1>8, <1>9 DEF DownInv, p

-----------------------------------------------------------------------------
(* The queue to presto                                                     *)

\* How the guest moves: what it has sent, seen and offered never shrinks.
GuestMoves(g, k) ==
    /\ g.nxt <= k.nxt /\ k.nxt <= GuestLen + 1
    /\ Seen(g) <= Seen(k) /\ Edge(g) + Bit(g.fin) <= Edge(k) + Bit(k.fin)
    /\ g.state \in {"Established", "Reset"} => k.state \in {"Established", "Reset"}
    /\ g.state = "Reset" => k.state = "Reset"

LEMMA UpSegMove ==
    ASSUME NEW s \in Segments, NEW h \in HostSet, NEW k \in HostSet,
           NEW g \in GuestSet, NEW m \in GuestSet,
           UpSeg(s, h, g), Taken(k) <= Taken(h), GuestMoves(g, m)
    PROVE  UpSeg(s, k, m)
<1> DEFINE d == s.data
           e == End(d)
           a == d[1]
<1>1. d # <<>> => e \in Nat /\ a \in Nat
  BY SegmentsFact, EndFact
<1>2. Taken(h) \in Nat /\ Taken(k) \in Nat /\ g.nxt \in Nat /\ m.nxt \in Nat
  BY HostFact, GuestFact
<1>3. d # <<>> => e <= g.nxt /\ Taken(h) <= a + SndBuf
  BY DEF UpSeg
<1>4. "FIN" \in s.flags => g.nxt = GuestLen + 1
  BY DEF UpSeg
<1> HIDE DEF d, e, a
<1>5. d # <<>> => e <= m.nxt /\ Taken(k) <= a + SndBuf
  BY <1>1, <1>2, <1>3, Sizes DEF GuestMoves
<1>6. "FIN" \in s.flags => m.nxt = GuestLen + 1
  BY <1>2, <1>4, Sizes DEF GuestMoves
<1>7. /\ "RST" \in s.flags => m.state = "Reset"
      /\ "SYN" \notin s.flags => m.state \in {"Established", "Reset"}
  BY DEF UpSeg, GuestMoves
<1> QED BY <1>5, <1>6, <1>7 DEF UpSeg, d, e, a

LEMMA UpAckMove ==
    ASSUME NEW s \in Segments, NEW r \in Nat, NEW lo \in Int, NEW lo2 \in Int,
           NEW g \in GuestSet, NEW m \in GuestSet,
           UpAck(s, r, lo, g), lo2 <= lo, GuestMoves(g, m)
    PROVE  UpAck(s, r, lo2, m)
<1> DEFINE eg == Edge(g) + Bit(g.fin)
           em == Edge(m) + Bit(m.fin)
<1> DEFINE ag == Edge(g)
           am == Edge(m)
           bg == Bit(g.fin)
           bm == Bit(m.fin)
<1>1. Seen(g) \in Nat /\ Seen(m) \in Nat /\ eg \in Int /\ em \in Int
  <2>1. ag \in Int /\ am \in Int /\ bg \in Int /\ bm \in Int
    BY GuestFact
  <2> HIDE DEF ag, am, bg, bm
  <2>2. ag + bg \in Int /\ am + bm \in Int
    BY <2>1
  <2> QED BY <2>2, GuestFact DEF ag, am, bg, bm
<1>2. s.win \in Nat
  BY SegmentsFact, Sizes
<1>3. eg <= em /\ Seen(g) <= Seen(m)
  BY DEF GuestMoves
<1>4. "ACK" \in s.flags /\ "RST" \notin s.flags => r + s.win <= eg
  BY DEF UpAck
<1>5. lo <= r /\ r <= Seen(g)
  BY DEF UpAck
<1> HIDE DEF eg, em
<1>6. "ACK" \in s.flags /\ "RST" \notin s.flags => r + s.win <= em
  BY <1>1, <1>2, <1>3, <1>4
<1>7. lo2 <= r /\ r <= Seen(m)
  BY <1>1, <1>3, <1>5
<1> QED BY <1>6, <1>7 DEF UpAck, em

\* Neither end takes anything off the queue.
LEMMA UpMove ==
    ASSUME NEW q, NEW h \in HostSet, NEW k \in HostSet,
           NEW g \in GuestSet, NEW m \in GuestSet, NEW lo \in Int, NEW lo2 \in Int,
           UpInv(q, h, g, lo), Taken(k) <= Taken(h), lo2 <= lo, GuestMoves(g, m)
    PROVE  UpInv(q, k, m, lo2)
<1>1. q \in Seq(Segments) /\ Len(q) <= TapQueue /\ UpOrder(q) /\ UpAcks(q, lo, g)
      /\ SynFirst(q) /\ \A i \in 1..Len(q) : UpSeg(q[i], h, g)
  BY DEF UpInv
<1>2. \A i \in 1..Len(q) : q[i] \in Segments
  BY <1>1, ElementOfSeq
<1>3. ASSUME NEW i \in 1..Len(q) PROVE UpSeg(q[i], k, m)
  BY <1>1, <1>2, UpSegMove
<1>4. UpAcks(q, lo2, m)
  <2>1. PICK R \in [1..Len(q) -> Nat] :
          /\ \A i \in 1..Len(q) : UpAck(q[i], R[i], lo, g)
          /\ \A i, j \in 1..Len(q) : i < j => R[i] <= R[j]
    BY <1>1 DEF UpAcks
  <2>2. ASSUME NEW i \in 1..Len(q) PROVE UpAck(q[i], R[i], lo2, m)
    <3>1. UpAck(q[i], R[i], lo, g) /\ R[i] \in Nat /\ q[i] \in Segments
      BY <2>1, <1>2
    <3> QED BY <3>1, UpAckMove
  <2> QED BY <2>1, <2>2 DEF UpAcks
<1> QED BY <1>1, <1>3, <1>4 DEF UpInv

\* presto takes the head of the queue; the host socket becomes k by it.
LEMMA UpReceive ==
    ASSUME NEW q, NEW h \in HostSet, NEW k \in HostSet, NEW g \in GuestSet,
           NEW lo \in Int, NEW lo2 \in Int,
           UpInv(q, h, g, lo), q # <<>>,
           \/ Taken(k) <= Taken(h)
           \/ q[1].data # <<>> /\ Taken(k) <= End(q[1].data)
           \/ "FIN" \in q[1].flags /\ Taken(k) <= GuestLen + 1,
           \A r \in Nat : UpAck(q[1], r, lo, g) => lo2 <= r
    PROVE  UpInv(Tail(q), k, g, lo2)
<1> DEFINE p == Tail(q)
<1>1. q \in Seq(Segments) /\ Len(q) <= TapQueue /\ UpOrder(q) /\ UpAcks(q, lo, g)
      /\ SynFirst(q) /\ \A i \in 1..Len(q) : UpSeg(q[i], h, g)
  BY DEF UpInv
<1>2. /\ Len(q) \in Nat \ {0} /\ q[1] \in Segments
      /\ p \in Seq(Segments) /\ Len(p) = Len(q) - 1
      /\ \A i \in 1..Len(p) : p[i] = q[i + 1] /\ i + 1 \in 1..Len(q)
  BY <1>1, TailFact
<1> HIDE DEF p
<1>3. ASSUME NEW i \in 1..Len(p) PROVE UpSeg(p[i], k, g)
  <2>1. p[i] = q[i + 1] /\ i + 1 \in 1..Len(q) /\ 1 \in 1..Len(q) /\ 1 < i + 1
    BY <1>2
  <2>2. UpSeg(p[i], h, g) /\ p[i] \in Segments
    BY <2>1, <1>1, ElementOfSeq
  <2> DEFINE a == p[i].data[1]
             e == End(q[1].data)
  <2>3. p[i].data # <<>> =>
          /\ q[1].data # <<>> => e <= a + SndBuf
          /\ "FIN" \in q[1].flags => GuestLen + 1 <= a + SndBuf
    BY <2>1, <1>1 DEF UpOrder
  <2>4. /\ p[i].data # <<>> => a \in Nat /\ Taken(h) <= a + SndBuf
        /\ q[1].data # <<>> => e \in Nat
    BY <2>2, <1>2, SegmentsFact, EndFact DEF UpSeg
  <2>5. Taken(h) \in Nat /\ Taken(k) \in Nat
    BY HostFact
  <2>6. \/ Taken(k) <= Taken(h)
        \/ q[1].data # <<>> /\ Taken(k) <= e
        \/ "FIN" \in q[1].flags /\ Taken(k) <= GuestLen + 1
    OBVIOUS
  <2> HIDE DEF a, e
  <2>7. p[i].data # <<>> => Taken(k) <= a + SndBuf
    BY <2>3, <2>4, <2>5, <2>6, Sizes
  <2> QED BY <2>2, <2>7 DEF UpSeg, a
<1>4. UpOrder(p)
  <2> SUFFICES ASSUME NEW i \in 1..Len(p), NEW j \in 1..Len(p), i < j,
                      p[j].data # <<>>
               PROVE  /\ p[i].data # <<>> => End(p[i].data) <= p[j].data[1] + SndBuf
                      /\ "FIN" \in p[i].flags => GuestLen + 1 <= p[j].data[1] + SndBuf
    BY DEF UpOrder
  <2>1. /\ p[i] = q[i + 1] /\ i + 1 \in 1..Len(q)
        /\ p[j] = q[j + 1] /\ j + 1 \in 1..Len(q) /\ i + 1 < j + 1
    BY SMTT(60), <1>2
  <2> QED BY <2>1, <1>1 DEF UpOrder
<1>5. UpAcks(p, lo2, g)
  <2>1. PICK R \in [1..Len(q) -> Nat] :
          /\ \A i \in 1..Len(q) : UpAck(q[i], R[i], lo, g)
          /\ \A i, j \in 1..Len(q) : i < j => R[i] <= R[j]
    BY <1>1 DEF UpAcks
  <2> DEFINE B == [i \in 1..Len(p) |-> R[i + 1]]
  <2>2. lo2 <= R[1] /\ R[1] \in Nat
    <3>1. 1 \in 1..Len(q)
      BY <1>2
    <3>2. R[1] \in Nat /\ UpAck(q[1], R[1], lo, g)
      BY <2>1, <3>1
    <3> QED BY <3>2
  <2>3. B \in [1..Len(p) -> Nat] /\ \A i \in 1..Len(p) : B[i] = R[i + 1]
    BY <1>2
  <2>4. ASSUME NEW i \in 1..Len(p) PROVE UpAck(p[i], B[i], lo2, g)
    <3>1. /\ p[i] = q[i + 1] /\ i + 1 \in 1..Len(q) /\ 1 \in 1..Len(q) /\ 1 < i + 1
          /\ B[i] = R[i + 1]
      BY <1>2, <2>3
    <3>2. R[1] <= R[i + 1] /\ R[i + 1] \in Nat /\ UpAck(q[i + 1], R[i + 1], lo, g)
      BY <2>1, <3>1
    <3>3. lo2 <= R[i + 1]
      BY <3>2, <2>2
    <3> QED BY <3>1, <3>2, <3>3 DEF UpAck
  <2>5. \A i, j \in 1..Len(p) : i < j => B[i] <= B[j]
    BY <2>1, <2>3, <1>2
  <2> HIDE DEF B
  <2> QED BY <2>3, <2>4, <2>5 DEF UpAcks
<1>6. SynFirst(p)
  <2> SUFFICES ASSUME NEW i \in 1..Len(p), NEW j \in 1..Len(p), i < j,
                      "SYN" \in p[j].flags
               PROVE  "SYN" \in p[i].flags
    BY DEF SynFirst
  <2>1. /\ p[i] = q[i + 1] /\ i + 1 \in 1..Len(q)
        /\ p[j] = q[j + 1] /\ j + 1 \in 1..Len(q) /\ i + 1 < j + 1
    BY <1>2
  <2> QED BY <2>1, <1>1 DEF SynFirst
<1>7. Len(p) <= TapQueue
  BY <1>1, <1>2, Sizes
<1> QED BY <1>2, <1>3, <1>4, <1>5, <1>6, <1>7 DEF UpInv, p

\* A segment the guest writes now: data is no further back than a send
\* buffer, and it acknowledges all the guest has seen.
NewUp(s, q, h, g) ==
    /\ s \in Segments
    /\ UpSeg(s, h, g)
    /\ s.data # <<>> => g.nxt <= s.data[1] + SndBuf
    /\ UpAck(s, Seen(g), 0, g)
    /\ "SYN" \in s.flags => \A i \in 1..Len(q) : "SYN" \in q[i].flags

LEMMA UpAppend ==
    ASSUME NEW q, NEW segs \in Seq(Segments), NEW lo \in Int,
           NEW h \in HostSet, NEW g \in GuestSet,
           UpInv(q, h, g, lo), lo <= Seen(g), Len(segs) <= 1,
           \A i \in 1..Len(segs) : NewUp(segs[i], q, h, g)
    PROVE  UpInv(Queue(q, segs), h, g, lo)
<1> DEFINE p == Queue(q, segs)
<1>1. q \in Seq(Segments) /\ Len(q) <= TapQueue /\ UpOrder(q) /\ UpAcks(q, lo, g)
      /\ SynFirst(q) /\ \A i \in 1..Len(q) : UpSeg(q[i], h, g)
  BY DEF UpInv
<1>2. /\ p \in Seq(Segments) /\ Len(p) <= TapQueue
      /\ Len(q) <= Len(p) /\ Len(p) <= Len(q) + Len(segs)
      /\ \A i \in 1..Len(q) : p[i] = q[i]
      /\ \A i \in 1..Len(p) : i > Len(q) =>
            i - Len(q) \in 1..Len(segs) /\ p[i] = segs[i - Len(q)]
  BY <1>1, QueueFact
<1>3. Len(q) \in Nat /\ Len(p) \in Nat /\ Len(segs) \in Nat
  BY <1>1, <1>2, LenProperties
<1> HIDE DEF p
<1>4. \A i \in 1..Len(p) : i <= Len(q) => i \in 1..Len(q) /\ p[i] = q[i]
  BY <1>2, <1>3
<1>5. \A i \in 1..Len(p) : i > Len(q) => NewUp(p[i], q, h, g) /\ i = Len(q) + 1
  BY <1>2, <1>3
<1>6. \A i \in 1..Len(p) : p[i] \in Segments
  BY <1>2, ElementOfSeq
<1>7. \A i \in 1..Len(p) : UpSeg(p[i], h, g)
  BY <1>1, <1>3, <1>4, <1>5 DEF NewUp
<1>8. UpOrder(p)
  <2> SUFFICES ASSUME NEW i \in 1..Len(p), NEW j \in 1..Len(p), i < j,
                      p[j].data # <<>>
               PROVE  /\ p[i].data # <<>> => End(p[i].data) <= p[j].data[1] + SndBuf
                      /\ "FIN" \in p[i].flags => GuestLen + 1 <= p[j].data[1] + SndBuf
    BY DEF UpOrder
  <2>1. CASE j <= Len(q)
    <3>1. i \in 1..Len(q) /\ j \in 1..Len(q) /\ p[i] = q[i] /\ p[j] = q[j]
      BY <2>1, <1>3, <1>4
    <3> QED BY <3>1, <1>1 DEF UpOrder
  <2>2. CASE j > Len(q)
    <3> DEFINE e == End(p[i].data)
               d == p[j].data[1]
    <3>1. g.nxt <= d + SndBuf
      BY <2>2, <1>5 DEF NewUp
    <3>2. /\ p[i].data # <<>> => e <= g.nxt /\ e \in Nat
          /\ "FIN" \in p[i].flags => g.nxt = GuestLen + 1
      BY <1>6, <1>7, EndFact DEF UpSeg
    <3>3. d \in Nat /\ g.nxt \in Nat
      BY <1>6, SegmentsFact, GuestFact
    <3> HIDE DEF e, d
    <3>5. /\ p[i].data # <<>> => e <= d + SndBuf
          /\ "FIN" \in p[i].flags => GuestLen + 1 <= d + SndBuf
      BY <3>1, <3>2, <3>3, Sizes
    <3> QED BY <3>5 DEF e, d
  <2> QED BY <2>1, <2>2, <1>3
<1>9. UpAcks(p, lo, g)
  <2>1. PICK R \in [1..Len(q) -> Nat] :
          /\ \A i \in 1..Len(q) : UpAck(q[i], R[i], lo, g)
          /\ \A i, j \in 1..Len(q) : i < j => R[i] <= R[j]
    BY <1>1 DEF UpAcks
  <2> DEFINE B == [i \in 1..Len(p) |-> IF i <= Len(q) THEN R[i] ELSE Seen(g)]
  <2>2. /\ B \in [1..Len(p) -> Nat]
        /\ \A i \in 1..Len(p) : B[i] = IF i <= Len(q) THEN R[i] ELSE Seen(g)
    BY <1>3, <1>4, GuestFact
  <2> HIDE DEF B
  <2>3. ASSUME NEW i \in 1..Len(p) PROVE UpAck(p[i], B[i], lo, g)
    <3>1. CASE i <= Len(q)
      BY <3>1, <2>1, <2>2, <1>4
    <3>2. CASE i > Len(q)
      <4>1. B[i] = Seen(g) /\ UpAck(p[i], Seen(g), 0, g)
        BY <3>2, <2>2, <1>3, <1>5 DEF NewUp
      <4> QED BY <4>1 DEF UpAck
    <3> QED BY <3>1, <3>2, <1>3
  <2>4. ASSUME NEW i \in 1..Len(p), NEW j \in 1..Len(p), i < j PROVE B[i] <= B[j]
    <3>1. CASE j <= Len(q)
      BY <3>1, <2>1, <2>2, <2>4, <1>3, <1>4
    <3>2. CASE j > Len(q)
      <4>1. B[i] <= Seen(g) /\ B[j] = Seen(g)
        BY <3>2, <2>2, <2>3, <1>3 DEF UpAck
      <4> QED BY <4>1
    <3> QED BY <3>1, <3>2, <1>3
  <2> QED BY <2>2, <2>3, <2>4 DEF UpAcks
<1>10. SynFirst(p)
  <2> SUFFICES ASSUME NEW i \in 1..Len(p), NEW j \in 1..Len(p), i < j,
                      "SYN" \in p[j].flags
               PROVE  "SYN" \in p[i].flags
    BY DEF SynFirst
  <2>1. CASE j <= Len(q)
    <3>1. i \in 1..Len(q) /\ j \in 1..Len(q) /\ p[i] = q[i] /\ p[j] = q[j]
      BY <2>1, <1>3, <1>4
    <3> QED BY <3>1, <1>1 DEF SynFirst
  <2>2. CASE j > Len(q)
    <3>1. i \in 1..Len(q) /\ p[i] = q[i]
      BY <2>2, <1>3, <1>4, <1>5
    <3> QED BY <3>1, <2>2, <1>5 DEF NewUp
  <2> QED BY <2>1, <2>2, <1>3
<1> QED BY <1>2, <1>7, <1>8, <1>9, <1>10 DEF UpInv, p

-----------------------------------------------------------------------------
(* The flow's counters                                                     *)

LEMMA FlowFact ==
    ASSUME NEW f \in FlowSet
    PROVE  /\ f.state \in {"Connecting", "Established"}
           /\ f.seq_from_guest \in 0..SeqMod-1 /\ f.seq_una \in 0..SeqMod-1
           /\ f.sent_unacked \in 0..FRAME /\ f.buffered \in 0..FRAME
           /\ f.buf_head \in 0..FRAME-1 /\ f.host_eof \in BOOLEAN
           /\ f.guest_window \in 0..GuestBuf /\ f.dup_acks \in 0..2
           /\ f.host_fin \in {"NotSent", "Sent", "Acked"}
           /\ f.guest_fin_received \in BOOLEAN /\ f.ack_deferred \in BOOLEAN
           /\ f.poll_armed \in BOOLEAN
  BY DEF FlowSet

LEMMA SureFact ==
    ASSUME NEW f \in FlowSet, NEW h \in HostSet
    PROVE  /\ Rel(f, h) = h.read - f.buffered /\ Rel(f, h) \in Int /\ Sure(f, h) \in Int
           /\ f.host_fin = "Acked" => Sure(f, h) = Rel(f, h) + 1
           /\ f.host_fin # "Acked" => Sure(f, h) = Rel(f, h)
<1>1. Rel(f, h) = h.read - f.buffered
  BY DEF Rel
<1>2. Rel(f, h) \in Int
  BY <1>1, HostFact, FlowFact, Sizes
<1>3. CASE f.host_fin = "Acked"
  BY <1>1, <1>2, <1>3 DEF Sure, Bit
<1>4. CASE f.host_fin # "Acked"
  BY <1>1, <1>2, <1>4 DEF Sure, Bit
<1> QED BY <1>1, <1>2, <1>3, <1>4

\* A flow that differs only where no other state is concerned.
LEMMA FlowSame ==
    ASSUME NEW f \in FlowSet, NEW e \in FlowSet, NEW r, NEW h \in HostSet,
           NEW g \in GuestSet, FlowInv(f, r, h, g),
           e.sent_unacked <= f.buffered, e.buffered = f.buffered,
           e.buf_head = f.buf_head, e.host_eof = f.host_eof,
           e.host_fin = f.host_fin,
           \/ e.guest_window = f.guest_window
           \/ Rel(f, h) + e.guest_window <= Edge(g) + Bit(g.fin),
           e.seq_from_guest = f.seq_from_guest, e.seq_una = f.seq_una,
           e.guest_fin_received = f.guest_fin_received, e.state = f.state
    PROVE  FlowInv(e, r, h, g) /\ Sure(e, h) = Sure(f, h) /\ Rel(e, h) = Rel(f, h)
<1>1. Sure(e, h) = Sure(f, h) /\ Rel(e, h) = Rel(f, h)
  BY DEF Sure, Rel
<1>2. FlowCounts(f, h, g) /\ FlowNumbers(f, h) /\ RingInv(f, r, h)
  BY DEF FlowInv
<1>4. FlowCounts(e, h, g)
  BY <1>1, <1>2 DEF FlowCounts
<1>5. FlowNumbers(e, h)
  BY <1>1, <1>2 DEF FlowNumbers
<1>6. RingInv(e, r, h)
  BY <1>1, <1>2 DEF RingInv
<1> QED BY <1>1, <1>4, <1>5, <1>6 DEF FlowInv

\* The head of the ring moves over d bytes.
LEMMA RingShift ==
    ASSUME NEW f \in FlowSet, NEW e \in FlowSet, NEW r, NEW h \in HostSet,
           RingInv(f, r, h), NEW d \in 0..FRAME, e.buffered = f.buffered - d,
           e.buf_head = (f.buf_head + d) % FRAME
    PROVE  RingInv(e, r, h)
<1> SUFFICES ASSUME NEW i \in 0..e.buffered-1
             PROVE  r[(e.buf_head + i) % FRAME] = Rel(e, h) + i + 1
  BY DEF RingInv
<1> DEFINE b == f.buffered
           p == f.buf_head
           x == p + d
           j == d + i
<1>1. b \in Int /\ p \in Int /\ d \in Int /\ i \in Int /\ i < b - d /\ 0 <= i /\ 0 <= d
  BY FlowFact, Sizes
<1>2. x \in Int /\ j \in 0..b-1 /\ x + i = p + j
  <2> HIDE DEF b, p
  <2> QED BY <1>1
<1>3. ((x % FRAME) + i) % FRAME = (x + i) % FRAME
  <2> HIDE DEF x
  <2> QED BY <1>1, <1>2, SeqModFact, ModShift
<1>4. r[(p + j) % FRAME] = Rel(f, h) + j + 1
  BY <1>2 DEF RingInv
<1>5. Rel(e, h) = Rel(f, h) + d /\ Rel(f, h) \in Int /\ Rel(e, h) \in Int
  <2>1. /\ Rel(e, h) = h.read - e.buffered /\ Rel(f, h) = h.read - b
        /\ Rel(f, h) \in Int /\ Rel(e, h) \in Int /\ h.read \in Int
    BY SureFact, HostFact
  <2>2. e.buffered = b - d
    OBVIOUS
  <2> HIDE DEF b
  <2> QED BY <1>1, <2>1, <2>2
<1>6. Rel(f, h) + j + 1 = Rel(e, h) + i + 1
  BY <1>1, <1>5
<1>7. e.buf_head = x % FRAME
  OBVIOUS
<1> QED BY <1>2, <1>3, <1>4, <1>6, <1>7

\* An ack that is in the queue counts at most what the guest has seen, so it
\* is told apart from an old one in spite of the wrapping.
LEMMA AckAdvance ==
    ASSUME NEW f \in FlowSet, NEW r, NEW h \in HostSet, NEW g \in GuestSet,
           FlowInv(f, r, h, g), HostInv(h, g), f.state = "Established",
           NEW s \in Segments, NEW n \in Nat, UpAck(s, n, Sure(f, h), g),
           "ACK" \in s.flags, "RST" \notin s.flags
    PROVE  Dist(f.seq_una, s.ack) = n - Sure(f, h) /\ n - Sure(f, h) \in Nat
<1> DEFINE a == Sure(f, h)
<1>1. a \in Int /\ a >= h.read - f.buffered
  <2>1. /\ a \in Int /\ (a = Rel(f, h) \/ a = Rel(f, h) + 1)
        /\ Rel(f, h) = h.read - f.buffered /\ Rel(f, h) \in Int
    BY SureFact
  <2> HIDE DEF a
  <2> QED BY <2>1
<1>2. f.seq_una = SeqOf(TCP_ISN, 1 + a) /\ s.ack = SeqOf(TCP_ISN, 1 + n)
  BY DEF FlowInv, FlowNumbers, UpAck
<1>3. a <= n /\ n <= Seen(g)
  BY DEF UpAck
<1>4. Seen(g) <= h.read + 1 /\ Seen(g) \in Nat
  <2>1. Len(g.recv) <= h.read
    BY DEF HostInv
  <2>2. /\ Seen(g) = Len(g.recv) + Bit(g.fin) /\ Bit(g.fin) \in 0..1
        /\ Len(g.recv) \in Nat /\ h.read \in Nat
    BY GuestFact, HostFact
  <2> QED BY <2>1, <2>2
<1> HIDE DEF a
<1>5. n - a < SeqMod
  <2> DEFINE hr == h.read
             bf == f.buffered
             sg == Seen(g)
  <2>1. hr \in Nat /\ bf \in 0..FRAME /\ sg \in Nat
    BY <1>4, HostFact, FlowFact
  <2>2. a >= hr - bf /\ a <= n /\ n <= sg /\ sg <= hr + 1
    BY <1>1, <1>3, <1>4
  <2>3. FRAME \in Nat /\ SeqMod \in Nat /\ SeqMod > FRAME + FRAME + 4
    BY Sizes
  <2> HIDE DEF hr, bf, sg
  <2> QED BY <1>1, <2>1, <2>2, <2>3
<1> DEFINE x == 1 + a
           y == 1 + n
<1>6. x \in Int /\ y \in Int /\ x <= y /\ y - x < SeqMod /\ y - x = n - a /\ n - a \in Nat
  BY <1>1, <1>3, <1>5, Sizes
<1>7. TCP_ISN \in Int
  BY Sizes
<1> HIDE DEF x, y
<1>8. Dist(SeqOf(TCP_ISN, x), SeqOf(TCP_ISN, y)) = y - x
  BY <1>6, <1>7, DistSmall
<1> QED BY <1>2, <1>6, <1>8 DEF a, x, y

\* What else an ack changes: nothing.
AckKeeps(f, e) ==
    /\ e.state = f.state /\ e.seq_from_guest = f.seq_from_guest
    /\ e.host_eof = f.host_eof /\ e.guest_fin_received = f.guest_fin_received
    /\ e.ack_deferred = f.ack_deferred /\ e.poll_armed = f.poll_armed

\* tcp_ack_from_guest: an ack that stands for n releases no more than n.
LEMMA AckStep ==
    ASSUME NEW f \in FlowSet, NEW r, NEW h \in HostSet, NEW g \in GuestSet,
           FlowInv(f, r, h, g), HostInv(h, g), GuestInv(g, h),
           f.state = "Established",
           NEW s \in Segments, NEW n \in Nat, UpAck(s, n, Sure(f, h), g),
           "ACK" \in s.flags, "RST" \notin s.flags, s.win <= GuestBuf
    PROVE  LET e == AckFromGuest(f, s)
           IN  e \in FlowSet /\ FlowInv(e, r, h, g) /\ Sure(e, h) <= n /\ AckKeeps(f, e)
<1> DEFINE e == AckFromGuest(f, s)
           adv == Dist(f.seq_una, s.ack)
           mx == f.sent_unacked + (IF f.host_fin # "NotSent" THEN 1 ELSE 0)
           da == Min(adv, f.sent_unacked)
           w == [f EXCEPT !.guest_window = s.win]
           rel == Rel(f, h)
           top == Edge(g) + Bit(g.fin)
<1>1. adv = n - Sure(f, h) /\ adv \in Nat
  BY AckAdvance
<1>2. /\ rel = h.read - f.buffered /\ rel \in Int /\ Sure(f, h) \in Int
      /\ f.host_fin = "Acked" => Sure(f, h) = rel + 1
      /\ f.host_fin # "Acked" => Sure(f, h) = rel
  BY SureFact
<1>3. /\ h.read \in Nat /\ h.written \in Nat /\ Seen(g) \in Nat /\ Len(g.recv) \in Nat
      /\ top \in Int /\ s.win \in 0..GuestBuf
  <2>1. Edge(g) \in Int /\ Bit(g.fin) \in Int
    BY GuestFact
  <2>2. s.win \in Nat
    BY SegmentsFact, Sizes
  <2> QED BY <2>1, <2>2, HostFact, GuestFact, Sizes
<1>4. n + s.win <= top /\ Sure(f, h) <= n /\ n <= Seen(g)
  BY DEF UpAck
<1>5. FlowCounts(f, h, g) /\ FlowNumbers(f, h) /\ RingInv(f, r, h)
  BY DEF FlowInv
<1>6. w \in FlowSet
  BY <1>3, FlowFact DEF FlowSet
<1> HIDE DEF adv, rel, top
<1>7. CASE ~(adv > 0 /\ adv <= mx)
  <2>1. \/ e = w
        \/ e = [w EXCEPT !.dup_acks = 0, !.sent_unacked = 0]
        \/ f.dup_acks + 1 < 3 /\ e = [w EXCEPT !.dup_acks = @ + 1]
    BY <1>7, FlowFact DEF AckFromGuest, adv
  <2>2. e \in FlowSet
    <3>1. 0 \in 0..2 /\ 0 \in 0..FRAME /\ (f.dup_acks + 1 < 3 => f.dup_acks + 1 \in 0..2)
      BY FlowFact, Sizes
    <3>2. w.dup_acks = f.dup_acks
      BY DEF FlowSet
    <3> HIDE DEF e, w
    <3>3. CASE e = w
      BY <3>3, <1>6
    <3>4. CASE e = [w EXCEPT !.dup_acks = 0, !.sent_unacked = 0]
      BY <3>1, <3>4, <1>6 DEF FlowSet
    <3>5. CASE f.dup_acks + 1 < 3 /\ e = [w EXCEPT !.dup_acks = @ + 1]
      BY <3>1, <3>2, <3>5, <1>6 DEF FlowSet
    <3> QED BY <2>1, <3>3, <3>4, <3>5
  <2>3. /\ e.sent_unacked \in {0, f.sent_unacked} /\ e.buffered = f.buffered
        /\ e.buf_head = f.buf_head /\ e.host_eof = f.host_eof
        /\ e.host_fin = f.host_fin /\ e.guest_window = s.win
        /\ e.seq_from_guest = f.seq_from_guest /\ e.seq_una = f.seq_una
        /\ e.guest_fin_received = f.guest_fin_received /\ e.state = f.state
        /\ e.ack_deferred = f.ack_deferred /\ e.poll_armed = f.poll_armed
    BY ZenonT(60), <2>1, <1>6 DEF FlowSet
  <2> HIDE DEF e, w
  <2>4. rel + s.win <= top
    BY <1>2, <1>3, <1>4
  <2>5. e.sent_unacked <= f.buffered
    BY <2>3, <1>5, FlowFact DEF FlowCounts
  <2>6. FlowInv(e, r, h, g) /\ Sure(e, h) = Sure(f, h)
    BY <2>2, <2>3, <2>4, <2>5, FlowSame DEF rel, top
  <2> QED BY <1>4, <2>2, <2>3, <2>6 DEF AckKeeps, e
<1>8. CASE adv > 0 /\ adv <= mx
  <2>1. e = [w EXCEPT !.dup_acks = 0, !.sent_unacked = @ - da,
                      !.seq_una = SeqOf(@, adv),
                      !.host_fin = IF adv > da THEN "Acked" ELSE @,
                      !.buffered = @ - da, !.buf_head = (@ + da) % FRAME]
    BY <1>8 DEF AckFromGuest, adv
  <2> HIDE DEF mx
  <2>2. /\ da \in 0..f.sent_unacked /\ da <= adv
        /\ f.sent_unacked \in Nat /\ f.buffered \in 0..FRAME /\ f.sent_unacked <= f.buffered
    BY <1>1, <1>5, FlowFact, Sizes DEF Min, FlowCounts
  <2>3. SeqOf(f.seq_una, adv) \in 0..SeqMod-1 /\ (f.buf_head + da) % FRAME \in 0..FRAME-1
    <3>1. f.seq_una \in Int /\ adv \in Int /\ f.buf_head + da \in Int
      BY <1>1, <2>2, FlowFact, Sizes
    <3> HIDE DEF da
    <3> QED BY <3>1, SeqOfType, ModDef, SeqModFact
  <2> HIDE DEF da
  <2>4. e \in FlowSet
    <3>1. f.sent_unacked - da \in 0..FRAME /\ f.buffered - da \in 0..FRAME
      BY <2>2, Sizes
    <3>2. 0 \in 0..2 /\ (IF adv > da THEN "Acked" ELSE f.host_fin)
                           \in {"NotSent", "Sent", "Acked"}
      BY FlowFact
    <3>3. /\ w.sent_unacked = f.sent_unacked /\ w.buffered = f.buffered
          /\ w.buf_head = f.buf_head /\ w.seq_una = f.seq_una /\ w.host_fin = f.host_fin
      BY DEF FlowSet
    <3>4. e = [w EXCEPT !.dup_acks = 0, !.sent_unacked = f.sent_unacked - da,
                        !.seq_una = SeqOf(f.seq_una, adv),
                        !.host_fin = IF adv > da THEN "Acked" ELSE f.host_fin,
                        !.buffered = f.buffered - da,
                        !.buf_head = (f.buf_head + da) % FRAME]
      BY <2>1, <3>3
    <3> HIDE DEF e, w
    <3> DEFINE x1 == f.sent_unacked - da
               x2 == SeqOf(f.seq_una, adv)
               x3 == IF adv > da THEN "Acked" ELSE f.host_fin
               x4 == f.buffered - da
               x5 == (f.buf_head + da) % FRAME
    <3>5. /\ e = [w EXCEPT !.dup_acks = 0, !.sent_unacked = x1, !.seq_una = x2,
                           !.host_fin = x3, !.buffered = x4, !.buf_head = x5]
          /\ x1 \in 0..FRAME /\ x2 \in 0..SeqMod-1 /\ x3 \in {"NotSent", "Sent", "Acked"}
          /\ x4 \in 0..FRAME /\ x5 \in 0..FRAME-1 /\ 0 \in 0..2
      BY <3>1, <3>2, <3>4, <2>3
    <3> HIDE DEF x1, x2, x3, x4, x5
    <3> QED BY <3>5, <1>6 DEF FlowSet
  <2>5. /\ e.sent_unacked = f.sent_unacked - da /\ e.buffered = f.buffered - da
        /\ e.buf_head = (f.buf_head + da) % FRAME /\ e.guest_window = s.win
        /\ e.seq_una = SeqOf(f.seq_una, adv)
        /\ e.host_fin = IF adv > da THEN "Acked" ELSE f.host_fin
        /\ AckKeeps(f, e)
    BY <2>1, <1>6 DEF FlowSet, AckKeeps
  <2> HIDE DEF e, w
  <2>6. /\ Rel(e, h) = rel + da /\ Rel(e, h) \in Int /\ Sure(e, h) \in Int
        /\ e.host_fin = "Acked" => Sure(e, h) = Rel(e, h) + 1
        /\ e.host_fin # "Acked" => Sure(e, h) = Rel(e, h)
    <3>1. /\ Rel(e, h) = h.read - e.buffered /\ Rel(e, h) \in Int /\ Sure(e, h) \in Int
          /\ e.host_fin = "Acked" => Sure(e, h) = Rel(e, h) + 1
          /\ e.host_fin # "Acked" => Sure(e, h) = Rel(e, h)
      BY <2>4, SureFact
    <3>2. f.buffered \in Int /\ da \in Int /\ e.buffered = f.buffered - da /\ h.read \in Int
      <4>1. e.buffered = f.buffered - da
        BY <2>5
      <4>2. f.buffered \in Int /\ da \in Int
        BY <2>2
      <4> QED BY <4>1, <4>2, <1>3
    <3>3. Rel(e, h) = rel + da
      BY <3>1, <3>2, <1>2
    <3> QED BY <3>1, <3>3
  <2>7. RingInv(e, r, h)
    <3>1. da \in 0..FRAME
      BY <2>2, FlowFact, Sizes
    <3> QED BY <3>1, <2>4, <2>5, <1>5, RingShift
  <2>8. Len(g.recv) <= h.read /\ h.read <= h.written
        /\ (g.fin => Len(g.recv) = h.written)
        /\ (g.fin => Seen(g) = Len(g.recv) + 1) /\ (~g.fin => Seen(g) = Len(g.recv))
    <3>1. g.fin \in BOOLEAN /\ Seen(g) = Len(g.recv) + Bit(g.fin) /\ Len(g.recv) \in Nat
      BY GuestFact
    <3>2. (g.fin => Bit(g.fin) = 1) /\ (~g.fin => Bit(g.fin) = 0)
      BY <3>1, BitFact
    <3> QED BY <3>1, <3>2 DEF HostInv, GuestInv
  <2>9. /\ Sure(e, h) = n /\ Rel(e, h) <= Len(g.recv) /\ Rel(e, h) + s.win <= top
        /\ e.host_fin = "Acked" => g.fin
        /\ e.host_fin # "NotSent" => f.host_fin # "NotSent"
        /\ f.host_fin # "NotSent" => da = 0
    <3>1. CASE f.host_fin = "NotSent"
      <4>1. mx = f.sent_unacked
        BY <3>1, <2>2 DEF mx
      <4>2. da = adv
        BY <4>1, <1>8, <1>1, <2>2 DEF da, Min
      <4>3. e.host_fin = "NotSent"
        BY <4>2, <3>1, <2>5, <1>1
      <4>4. Sure(e, h) = n /\ Rel(e, h) = n
        BY <4>2, <4>3, <3>1, <2>6, <1>1, <1>2
      <4>5. n <= Len(g.recv)
        <5>1. n = h.read - f.buffered + da
          BY <4>4, <2>6, <1>2
        <5> QED BY SMTT(60), <5>1, <1>3, <1>4, <2>2, <2>8
      <4> QED BY <4>2, <4>3, <4>4, <4>5, <3>1, <1>3, <1>4
    <3>2. CASE f.host_fin # "NotSent"
      <4>1. f.buffered = 0 /\ f.sent_unacked = 0 /\ da = 0
        BY <3>2, <1>5, <2>2 DEF FlowCounts
      <4>2. mx = 1
        BY <4>1, <3>2 DEF mx
      <4>3. adv = 1
        BY <4>2, <1>1, <1>8
      <4>4. rel = h.read
        BY <4>1, <1>2, <1>3
      <4>5. f.host_fin # "Acked"
        BY <4>3, <4>4, <1>1, <1>2, <1>3, <1>4, <2>8
      <4>6. n = h.read + 1
        BY <4>3, <4>4, <4>5, <1>1, <1>2
      <4>7. g.fin
        BY <4>6, <1>3, <1>4, <2>8
      <4>8. e.host_fin = "Acked"
        BY <4>1, <4>3, <2>5
      <4> QED BY SMTT(60), <4>1, <4>4, <4>6, <4>7, <4>8, <3>2, <2>6, <2>8, <1>2, <1>3, <1>4
    <3> QED BY <3>1, <3>2
  <2>10. FlowCounts(e, h, g)
    <3>1. e.sent_unacked <= e.buffered /\ e.buffered <= h.read
      <4>1. f.buffered <= h.read
        BY <1>5 DEF FlowCounts
      <4> QED BY <4>1, <2>2, <2>5, <1>3
    <3>2. e.host_fin # "NotSent" => e.host_eof /\ e.buffered = 0
      <4>1. f.host_fin # "NotSent" => f.host_eof /\ f.buffered = 0
        BY <1>5 DEF FlowCounts
      <4>2. e.host_eof = f.host_eof
        BY <2>5 DEF AckKeeps
      <4> QED BY <4>1, <4>2, <2>2, <2>5, <2>9
    <3>3. e.host_eof => h.eof /\ h.read = h.written
      BY <1>5, <2>5 DEF FlowCounts, AckKeeps
    <3> QED BY <3>1, <3>2, <3>3, <2>5, <2>9 DEF FlowCounts, top
  <2>11. FlowNumbers(e, h)
    <3>1. e.seq_una = SeqOf(TCP_ISN, 1 + Sure(e, h))
      <4> DEFINE x == 1 + Sure(f, h)
      <4>1. f.seq_una = SeqOf(TCP_ISN, x)
        BY <1>5 DEF FlowNumbers
      <4>2. x \in Int /\ adv \in Int /\ TCP_ISN \in Int /\ x + adv = 1 + Sure(e, h)
        BY SMTT(60), <1>1, <1>2, <2>6, <2>9, Sizes
      <4> HIDE DEF x
      <4>3. SeqOf(SeqOf(TCP_ISN, x), adv) = SeqOf(TCP_ISN, x + adv)
        BY <4>2, SeqOfPlus
      <4> QED BY <4>1, <4>2, <4>3, <2>5
    <3> QED BY <3>1, <1>5, <2>5 DEF FlowNumbers, AckKeeps
  <2> QED BY <1>3, <2>4, <2>5, <2>7, <2>9, <2>10, <2>11 DEF FlowInv, e
<1> QED BY <1>7, <1>8

-----------------------------------------------------------------------------
(* Host data towards the guest                                             *)

\* Reading from the host socket leaves the rest of it alone.
HostReads(h, k) ==
    /\ h.read <= k.read /\ k.read <= k.written
    /\ k.written = h.written /\ k.eof = h.eof /\ k.reset = h.reset
    /\ k.got = h.got /\ k.outq = h.outq /\ k.shut = h.shut

LEMMA HostReadsFact ==
    ASSUME NEW h \in HostSet, NEW k \in HostSet, NEW g \in GuestSet,
           HostInv(h, g), GuestInv(g, h), HostReads(h, k)
    PROVE  /\ HostInv(k, g) /\ GuestInv(g, k) /\ HostGrows(h, k) /\ Taken(k) = Taken(h)
<1>1. Taken(k) = Taken(h) /\ Taken(h) \in Nat
  BY HostFact DEF Taken, HostReads
<1>2. Len(g.recv) \in Nat /\ h.read \in Nat /\ k.read \in Nat
  BY HostFact, GuestFact
<1>3. Len(g.recv) <= k.read
  BY <1>2 DEF HostInv, HostReads
<1>4. HostInv(k, g)
  BY <1>3 DEF HostInv, HostReads
<1>5. GuestInv(g, k)
  BY <1>1 DEF GuestInv, HostReads
<1>6. HostGrows(h, k)
  BY <1>1 DEF HostGrows, HostReads
<1> QED BY <1>1, <1>4, <1>5, <1>6

\* What tcp_fill_buffer does not touch.
FillKeeps(f, e) ==
    /\ e.state = f.state /\ e.seq_from_guest = f.seq_from_guest
    /\ e.seq_una = f.seq_una /\ e.sent_unacked = f.sent_unacked
    /\ e.buf_head = f.buf_head /\ e.guest_window = f.guest_window
    /\ e.dup_acks = f.dup_acks /\ e.host_fin = f.host_fin
    /\ e.guest_fin_received = f.guest_fin_received
    /\ e.ack_deferred = f.ack_deferred /\ e.poll_armed = f.poll_armed
    /\ f.buffered <= e.buffered

\* tcp_fill_buffer: the bytes read land behind the buffered ones.
LEMMA FillStep ==
    ASSUME NEW f \in FlowSet, NEW r \in RingSet, NEW h \in HostSet, NEW g \in GuestSet,
           FlowInv(f, r, h, g), HostInv(h, g),
           f.state = "Established", f.host_fin = "NotSent"
    PROVE  LET o == FillBuffer(f, r, h)
           IN  /\ o.t \in FlowSet /\ o.ring \in RingSet /\ o.host \in HostSet
               /\ FlowInv(o.t, o.ring, o.host, g) /\ HostReads(h, o.host)
               /\ Rel(o.t, o.host) = Rel(f, h) /\ FillKeeps(f, o.t)
               /\ o.reset => h.reset
<1> DEFINE o == FillBuffer(f, r, h)
<1>1. FlowCounts(f, h, g) /\ FlowNumbers(f, h) /\ RingInv(f, r, h)
  BY DEF FlowInv
<1>2. h.read <= h.written /\ h.read \in Nat /\ h.written \in Nat /\ h.written <= HostLen
  BY HostFact DEF HostInv
<1>3. CASE f.host_eof \/ f.buffered >= FRAME
  <2>1. o.t = f /\ o.ring = r /\ o.host = h /\ o.reset = FALSE
    BY <1>3 DEF FillBuffer
  <2>2. f.buffered \in Nat
    BY FlowFact
  <2> QED BY <2>1, <2>2, <1>2 DEF HostReads, FillKeeps
<1>4. CASE ~(f.host_eof \/ f.buffered >= FRAME)
  <2> DEFINE b == f.buffered
             room == FRAME - b
             n == Min(h.written - h.read, room)
             wpos == f.buf_head + b
             off(i) == (i - wpos) % FRAME
             filled == [i \in 0..FRAME-1 |-> IF off(i) < n THEN h.read + off(i) + 1 ELSE r[i]]
             e == [f EXCEPT !.buffered = b + n, !.host_eof = (n = 0 /\ h.eof)]
             k == [h EXCEPT !.read = h.read + n]
  <2>1. o.t = e /\ o.ring = filled /\ o.host = k /\ o.reset = h.reset
    BY <1>4 DEF FillBuffer, HostAvail
  <2>2. b \in 0..FRAME /\ b < FRAME /\ f.buf_head \in 0..FRAME-1 /\ FRAME \in Nat \ {0}
    BY <1>4, FlowFact, Sizes
  <2>3. /\ room \in Nat /\ room > 0 /\ n \in Nat /\ n <= room /\ n <= h.written - h.read
        /\ n = 0 => h.written = h.read
    <3> HIDE DEF b
    <3> QED BY <2>2, <1>2 DEF Min
  <2>4. wpos \in Int /\ \A i \in Int : off(i) \in 0..FRAME-1
    <3>1. wpos \in Int
      BY <2>2
    <3> HIDE DEF wpos
    <3>2. \A i \in Int : i - wpos \in Int
      BY <3>1
    <3> QED BY <3>1, <3>2, SeqModFact, ModDef
  <2>5. filled \in RingSet
    <3> SUFFICES ASSUME NEW i \in 0..FRAME-1
                 PROVE  (IF off(i) < n THEN h.read + off(i) + 1 ELSE r[i]) \in 0..HostLen
      BY DEF RingSet
    <3>1. r[i] \in 0..HostLen /\ i \in Int
      BY DEF RingSet
    <3> HIDE DEF off, n
    <3>2. off(i) \in 0..FRAME-1
      BY <3>1, <2>4
    <3> QED BY <3>1, <3>2, <2>3, <1>2, Sizes
  <2>6. b + n \in 0..FRAME /\ h.read + n \in 0..HostLen /\ h.read + n <= h.written
    <3> HIDE DEF n, b
    <3> QED BY <2>2, <2>3, <1>2, Sizes DEF room
  <2> HIDE DEF n, b, off
  <2>7. e \in FlowSet
    <3>1. (n = 0 /\ h.eof) \in BOOLEAN
      OBVIOUS
    <3> QED BY <2>6, <3>1 DEF FlowSet
  <2>8. k \in HostSet
    BY <2>6 DEF HostSet
  <2>9. /\ e.buffered = b + n /\ (e.host_eof <=> (n = 0 /\ h.eof)) /\ k.read = h.read + n
        /\ FillKeeps(f, e) /\ HostReads(h, k)
    <3>1. e.buffered = b + n /\ (e.host_eof <=> (n = 0 /\ h.eof)) /\ k.read = h.read + n
      BY DEF FlowSet, HostSet
    <3>2. FillKeeps(f, e)
      <4>1. f.buffered <= b + n
        BY <2>2, <2>3 DEF b
      <4> QED BY <4>1 DEF FlowSet, FillKeeps
    <3>3. HostReads(h, k)
      <4>1. h.read <= h.read + n
        BY <2>3, <1>2
      <4> QED BY <4>1, <2>6 DEF HostSet, HostReads
    <3> QED BY <3>1, <3>2, <3>3
  <2> HIDE DEF e, k
  <2>10. Rel(e, k) = Rel(f, h) /\ Rel(f, h) \in Int /\ Rel(f, h) = h.read - b
    <3>1. /\ Rel(e, k) = k.read - e.buffered /\ Rel(f, h) = h.read - f.buffered
          /\ Rel(f, h) \in Int
      BY <2>7, <2>8, SureFact
    <3> QED BY <3>1, <2>2, <2>3, <2>9, <1>2 DEF b
  <2>11. Sure(e, k) = Sure(f, h) /\ Taken(k) = Taken(h)
    BY <2>9, <2>10 DEF Sure, Taken, FillKeeps, HostReads
  <2>12. RingInv(e, filled, k)
    <3> SUFFICES ASSUME NEW i \in 0..e.buffered-1
                 PROVE  filled[(e.buf_head + i) % FRAME] = Rel(e, k) + i + 1
      BY DEF RingInv
    <3>0. e.buffered = b + n /\ e.buf_head = f.buf_head /\ Rel(e, k) = Rel(f, h)
      BY <2>9, <2>10 DEF FillKeeps
    <3> SUFFICES filled[(f.buf_head + i) % FRAME] = Rel(f, h) + i + 1
      BY <3>0
    <3> DEFINE x == f.buf_head + i
               p == x % FRAME
    <3>1. x \in Int /\ i \in Int /\ 0 <= i /\ i < b + n
      BY <3>0, <2>2, <2>3
    <3>2. p \in 0..FRAME-1
      BY <3>1, SeqModFact, ModDef
    <3>3. off(p) = (i - b) % FRAME
      <4>1. -wpos \in Int /\ x + (-wpos) = i - b
        BY <2>2, <3>1
      <4> HIDE DEF x, wpos
      <4>2. ((x % FRAME) + (-wpos)) % FRAME = (x + (-wpos)) % FRAME
        BY <3>1, <4>1, SeqModFact, ModShift
      <4>3. p - wpos = p + (-wpos)
        BY <2>4, <3>2
      <4> QED BY <4>1, <4>2, <4>3 DEF off, p
    <3>4. filled[p] = IF off(p) < n THEN h.read + off(p) + 1 ELSE r[p]
      BY <3>2
    <3> HIDE DEF p, filled
    <3>5. CASE i < b
      <4>1. i - b \in Int /\ -FRAME <= i - b /\ i - b < 0
        BY <3>1, <3>5, <2>2
      <4>2. off(p) = i - b + FRAME
        BY <4>1, <3>3, SeqModFact, ModNeg
      <4>3. ~(off(p) < n)
        BY <4>2, <3>1, <2>2, <2>3 DEF room
      <4>4. r[p] = Rel(f, h) + i + 1
        <5>1. i \in 0..f.buffered-1
          BY <3>1, <3>5, <2>2 DEF b
        <5> QED BY <5>1, <1>1 DEF RingInv, p
      <4> QED BY <3>4, <4>3, <4>4 DEF p
    <3>6. CASE i >= b
      <4>1. i - b \in 0..FRAME-1 /\ i - b < n
        BY <3>1, <3>6, <2>2, <2>3 DEF room
      <4>2. off(p) = i - b
        BY <4>1, <3>3, SeqModFact, ModSmall
      <4>3. filled[p] = h.read + (i - b) + 1
        BY <4>1, <4>2, <3>4
      <4>4. h.read + (i - b) + 1 = Rel(f, h) + i + 1
        BY <2>2, <2>10, <3>1, <1>2
      <4> QED BY <4>3, <4>4 DEF p
    <3> QED BY <3>1, <3>5, <3>6, <2>2
  <2>13. FlowCounts(e, k, g)
    <3>1. f.sent_unacked <= e.buffered /\ e.buffered <= k.read
      <4>1. f.sent_unacked <= b /\ b <= h.read /\ f.sent_unacked \in Nat
        BY <1>1, FlowFact DEF FlowCounts, b
      <4> QED BY <4>1, <2>2, <2>3, <2>9, <1>2
    <3>2. e.host_eof => k.eof /\ k.read = k.written
      BY <2>9, <2>3, <1>2 DEF HostReads
    <3> QED BY <3>1, <3>2, <2>9, <2>10, <1>1 DEF FlowCounts, FillKeeps
  <2>14. FlowNumbers(e, k)
    <3>1. e.guest_fin_received = k.shut
      BY <2>9, <1>1 DEF FlowNumbers, FillKeeps, HostReads
    <3> QED BY <3>1, <2>9, <2>11, <1>1 DEF FlowNumbers, FillKeeps
  <2>15. FlowInv(e, filled, k, g)
    BY <2>7, <2>12, <2>13, <2>14 DEF FlowInv
  <2> HIDE DEF filled
  <2> QED BY <2>1, <2>5, <2>7, <2>8, <2>9, <2>10, <2>15
<1> QED BY <1>3, <1>4

LEMMA FunctionSeq ==
    ASSUME NEW S, NEW n \in Nat, NEW d \in [1..n -> S]
    PROVE  d \in Seq(S) /\ Len(d) = n
<1>1. d \in Seq(S)
  BY SeqDef
<1>2. Len(d) \in Nat /\ DOMAIN d = 1..Len(d) /\ DOMAIN d = 1..n
  BY <1>1, LenProperties
<1>3. Len(d) = n
  BY <1>2
<1> QED BY <1>1, <1>3

\* The number of chunks, and where each begins.
LEMMA ChunkFact ==
    ASSUME NEW n \in Nat, NEW c \in Nat \ {0}
    PROVE  /\ (n + c - 1) \div c \in Nat
           /\ \A i \in 1..((n + c - 1) \div c) : (i - 1) * c \in Nat /\ (i - 1) * c < n
<1> DEFINE x == n + c - 1
           q == x \div c
           m == x % c
<1>1. x \in Int /\ x = n + c - 1
  OBVIOUS
<1>2. m \in 0..(c-1) /\ x = c * q + m /\ q \in Int
  <2> HIDE DEF x
  <2> QED BY <1>1, ModDef
<1> HIDE DEF q, m
<1>3. q >= 0
  <2> SUFFICES ASSUME q <= -1 PROVE FALSE
    BY <1>2
  <2>1. c * q <= -c
    BY <1>2, MulLe
  <2> QED BY <2>1, <1>1, <1>2
<1>4. ASSUME NEW i \in 1..q PROVE (i - 1) * c \in Nat /\ (i - 1) * c < n
  <2> DEFINE k == q - i
  <2>1. i \in Int /\ i >= 1 /\ k \in Int /\ k >= 0 /\ q = i + k
    BY <1>2
  <2> HIDE DEF k
  <2>2. c * k >= 0 /\ c * k \in Int /\ c * i \in Int
    BY <2>1
  <2>3. c * q = c * i + c * k
    BY <2>1
  <2>4. c * i <= n + c - 1
    BY <1>1, <1>2, <2>2, <2>3
  <2>5. (i - 1) * c = c * i - c
    BY <2>1
  <2>6. (i - 1) * c >= 0
    BY <2>1
  <2> QED BY <2>2, <2>4, <2>5, <2>6
<1> QED BY <1>2, <1>3, <1>4 DEF q

LEMMA WindowFact ==
    ASSUME NEW h \in HostSet
    PROVE  WindowToGuest(h) \in 0..SndBuf
<1>1. h.outq \in Nat
  BY HostFact
<1> QED BY <1>1, Sizes DEF WindowToGuest, Monus

LEMMA EmptyData == <<>> \in Seq(0..(HostLen + GuestLen))
  OBVIOUS

\* A segment of presto's without data or FIN.
LEMMA BareNew ==
    ASSUME NEW seq \in Int, NEW f \in FlowSet, NEW win \in 0..SndBuf,
           NEW flags \in SUBSET Flags, "FIN" \notin flags, NEW lo,
           NEW k \in HostSet, NEW g \in GuestSet,
           "RST" \notin flags => f.seq_from_guest = SeqOf(GuestISN, 1 + Taken(k))
    PROVE  NewDown(Segment(seq, f.seq_from_guest, win, flags, <<>>), lo, k, g)
<1> DEFINE s == Segment(seq, f.seq_from_guest, win, flags, <<>>)
<1>1. f.seq_from_guest \in 0..SeqMod-1
  BY FlowFact
<1>2. win \in 0..(SndBuf + GuestBuf) /\ f.seq_from_guest \in Int
  BY <1>1, Sizes
<1> DEFINE d == <<>>
<1>20. d \in Seq(0..(HostLen + GuestLen))
  BY EmptyData
<1>3. /\ s \in Segments /\ s.win = win /\ s.flags = flags /\ s.data = <<>>
      /\ s.ack = f.seq_from_guest % SeqMod
  <2> HIDE DEF d
  <2>1. LET z == Segment(seq, f.seq_from_guest, win, flags, d)
        IN  z \in Segments /\ z.win = win /\ z.flags = flags /\ z.data = d
            /\ z.ack = f.seq_from_guest % SeqMod
    BY <1>2, <1>20, SegmentFact
  <2> QED BY <2>1 DEF d
<1>4. f.seq_from_guest % SeqMod = f.seq_from_guest
  BY <1>1, SeqModFact, ModSmall
<1> HIDE DEF s
<1>5. s.win <= SndBuf
  BY <1>3
<1>6. DownSeg(s, k, g)
  BY <1>3, <1>5 DEF DownSeg
<1>7. NewDown(s, lo, k, g)
  BY <1>3, <1>4, <1>6 DEF NewDown
<1> QED BY <1>7 DEF s

LEMMA ControlNew ==
    ASSUME NEW f \in FlowSet, NEW h \in HostSet, NEW flags \in SUBSET Flags,
           "FIN" \notin flags, NEW lo, NEW k \in HostSet, NEW g \in GuestSet,
           "RST" \notin flags => f.seq_from_guest = SeqOf(GuestISN, 1 + Taken(k))
    PROVE  NewDown(Control(f, h, flags), lo, k, g)
<1>1. f.seq_una + f.sent_unacked \in Int
  BY FlowFact
<1>2. (IF "RST" \in flags THEN 0 ELSE WindowToGuest(h)) \in 0..SndBuf
  BY WindowFact, Sizes
<1> QED BY <1>1, <1>2, BareNew DEF Control

\* Our FIN: everything read has been released.
LEMMA FinNew ==
    ASSUME NEW f \in FlowSet, NEW r, NEW h \in HostSet, NEW g \in GuestSet, NEW lo,
           FlowInv(f, r, h, g), HostInv(h, g), f.state = "Established",
           f.host_eof, f.buffered = 0, f.sent_unacked = 0, f.host_fin # "Acked"
    PROVE  NewDown(Control(f, h, {"FIN", "ACK"}), lo, h, g)
<1> DEFINE flags == {"FIN", "ACK"}
           s == Control(f, h, flags)
<1>1. /\ f.seq_from_guest \in 0..SeqMod-1 /\ f.seq_una \in 0..SeqMod-1
      /\ f.seq_una + f.sent_unacked = f.seq_una
  BY FlowFact
<1>2. WindowToGuest(h) \in 0..SndBuf /\ flags \in SUBSET Flags /\ "RST" \notin flags
  BY WindowFact DEF Flags
<1>3. s = Segment(f.seq_una, f.seq_from_guest, WindowToGuest(h), flags, <<>>)
  BY <1>1, <1>2 DEF Control
<1>4. /\ WindowToGuest(h) \in 0..(SndBuf + GuestBuf)
      /\ f.seq_from_guest \in Int /\ f.seq_una \in Int
  BY <1>1, <1>2, Sizes
<1> HIDE DEF flags
<1>5. /\ s \in Segments /\ s.win = WindowToGuest(h) /\ s.flags = flags /\ s.data = <<>>
      /\ s.ack = f.seq_from_guest % SeqMod /\ s.seq = f.seq_una % SeqMod
  <2> DEFINE d == <<>>
             w == WindowToGuest(h)
  <2>1. d \in Seq(0..(HostLen + GuestLen)) /\ w \in 0..(SndBuf + GuestBuf)
    BY <1>4, EmptyData
  <2> HIDE DEF d, w
  <2>2. LET z == Segment(f.seq_una, f.seq_from_guest, w, flags, d)
        IN  z \in Segments /\ z.win = w /\ z.flags = flags /\ z.data = d
            /\ z.ack = f.seq_from_guest % SeqMod /\ z.seq = f.seq_una % SeqMod
    BY <2>1, <1>2, <1>4, SegmentFact
  <2> QED BY <2>2, <1>3 DEF d, w
<1>6. f.seq_from_guest % SeqMod = f.seq_from_guest /\ f.seq_una % SeqMod = f.seq_una
  BY <1>1, SeqModFact, ModSmall
<1>7. FlowCounts(f, h, g) /\ FlowNumbers(f, h)
  BY DEF FlowInv
<1>8. h.eof /\ h.read = h.written /\ Rel(f, h) <= Len(g.recv) /\ Len(g.recv) <= h.read
  BY <1>7 DEF FlowCounts, HostInv
<1>9. /\ Rel(f, h) = h.read - f.buffered /\ Sure(f, h) = Rel(f, h)
      /\ h.read \in Nat /\ Len(g.recv) \in Nat
  BY SureFact, HostFact, GuestFact
<1>10. Sure(f, h) = h.written /\ Len(g.recv) = h.written
  BY <1>8, <1>9
<1>11. /\ f.seq_una = SeqOf(TCP_ISN, 1 + h.written)
       /\ f.seq_from_guest = SeqOf(GuestISN, 1 + Taken(h))
  BY <1>7, <1>10 DEF FlowNumbers
<1> HIDE DEF s
<1>12. s.win <= SndBuf
  BY <1>2, <1>5
<1>13. DownSeg(s, h, g)
  BY <1>5, <1>6, <1>8, <1>10, <1>11, <1>12 DEF DownSeg
<1>14. NewDown(s, lo, h, g)
  BY <1>5, <1>6, <1>11, <1>13 DEF NewDown
<1> QED BY <1>14 DEF s, flags

\* The send loop: n bytes behind the ones in flight, all within the window.
LEMMA DataNew ==
    ASSUME NEW f \in FlowSet, NEW r \in RingSet, NEW h \in HostSet, NEW g \in GuestSet,
           FlowInv(f, r, h, g), HostInv(h, g), GuestInv(g, h), f.state = "Established",
           f.host_fin # "Acked",
           NEW n \in Nat, f.sent_unacked + n <= f.buffered,
           n > 0 => f.sent_unacked + n <= f.guest_window,
           \* before the buffer was filled the guest had no more than a ring
           Len(g.recv) <= Rel(f, h) + FRAME
    PROVE  LET out == DataSegments(f, r, h, n)
           IN  /\ out \in Seq(Segments)
               /\ \A i \in 1..Len(out) : NewDown(out[i], Rel(f, h), h, g)
<1> DEFINE rel == Rel(f, h)
           su == f.sent_unacked
           m == (n + Chunk - 1) \div Chunk
           Off(i) == (i - 1) * Chunk
           Ln(i) == Min(Chunk, n - Off(i))
           Dat(i) == [j \in 1..Ln(i) |-> r[(f.buf_head + su + Off(i) + j - 1) % FRAME]]
           Sg(i) == Segment(f.seq_una + su + Off(i), f.seq_from_guest,
                            WindowToGuest(h), {"ACK"}, Dat(i))
           out == DataSegments(f, r, h, n)
<1>1. out = [i \in 1..m |-> Sg(i)]
  BY DEF DataSegments
<1>2. m \in Nat /\ \A i \in 1..m : Off(i) \in Nat /\ Off(i) < n
  BY ChunkFact, Sizes
<1>3. FlowCounts(f, h, g) /\ FlowNumbers(f, h) /\ RingInv(f, r, h)
  BY DEF FlowInv
<1>4. /\ su \in Nat /\ f.buffered \in 0..FRAME /\ f.buf_head \in 0..FRAME-1
      /\ f.guest_window \in Nat /\ f.seq_una \in Int
      /\ f.seq_from_guest \in 0..SeqMod-1 /\ f.seq_from_guest \in Int
  BY FlowFact, Sizes
<1>5. /\ rel \in Int /\ rel = h.read - f.buffered /\ Sure(f, h) = rel
      /\ h.read \in Nat /\ h.written \in Nat /\ h.read <= h.written
      /\ Len(g.recv) \in Nat /\ Edge(g) \in Nat /\ Len(g.recv) <= Edge(g)
      /\ h.written <= HostLen /\ g.fin \in BOOLEAN
  BY SureFact, HostFact, GuestFact DEF HostInv
<1>6. rel + f.guest_window <= Edge(g) + Bit(g.fin) /\ f.buffered <= h.read
  BY <1>3 DEF FlowCounts
<1>7. /\ f.seq_una = SeqOf(TCP_ISN, 1 + rel)
      /\ f.seq_from_guest = SeqOf(GuestISN, 1 + Taken(h))
  BY <1>3, <1>5 DEF FlowNumbers
<1> DEFINE bf == f.buffered
           hr == h.read
           hw == h.written
           gl == Len(g.recv)
           eg == Edge(g)
           gw == f.guest_window
           fb == Bit(g.fin)
<1>71. /\ rel \in Int /\ hr \in Nat /\ bf \in Nat /\ rel = hr - bf /\ hr <= hw
       /\ hw \in Nat /\ hw <= HostLen /\ gl \in Nat /\ eg \in Nat /\ gl <= eg
       /\ rel + gw <= eg + fb /\ bf <= hr /\ bf <= FRAME /\ gw \in Nat
       /\ su \in Nat /\ su + n <= bf /\ (n > 0 => su + n <= gw)
       /\ gl <= rel + FRAME /\ (g.fin => gl = hw) /\ f.buf_head \in Nat
  BY SMTT(60), <1>4, <1>5, <1>6 DEF GuestInv
<1> HIDE DEF out, m, rel, su, bf, hr, hw, gl, eg, gw, fb
<1>8. ASSUME NEW i \in 1..m PROVE Sg(i) \in Segments /\ NewDown(Sg(i), rel, h, g)
  <2> DEFINE o == Off(i)
             l == Ln(i)
             d == Dat(i)
             s == Sg(i)
  <2>1. o \in Nat /\ o < n
    BY <1>2
  <2> HIDE DEF o
  <2>2. l \in Nat /\ l >= 1 /\ o + l <= n
    <3>1. l = Min(Chunk, n - o)
      BY DEF o
    <3> HIDE DEF l
    <3> QED BY <3>1, <2>1, Sizes DEF Min
  <2> HIDE DEF l
  <2>3. d = [j \in 1..l |-> r[(f.buf_head + su + o + j - 1) % FRAME]]
    BY DEF o, l
  <2>4. ASSUME NEW j \in 1..l
        PROVE  r[(f.buf_head + su + o + j - 1) % FRAME] = rel + su + o + j
    <3> DEFINE x == su + o + j - 1
    <3>1. x \in 0..f.buffered-1 /\ f.buf_head + su + o + j - 1 = f.buf_head + x
      <4>1. x \in 0..bf-1 /\ f.buf_head + su + o + j - 1 = f.buf_head + x
        BY SMTT(60), <1>71, <2>1, <2>2
      <4> QED BY <4>1 DEF bf
    <3>2. r[(f.buf_head + x) % FRAME] = Rel(f, h) + x + 1
      <4> HIDE DEF x
      <4> QED BY <3>1, <1>3 DEF RingInv
    <3>3. Rel(f, h) + x + 1 = rel + su + o + j
      BY <1>4, <1>5, <2>1, <2>2 DEF rel
    <3> QED BY <3>1, <3>2, <3>3
  <2>5. d \in Seq(0..(HostLen + GuestLen)) /\ Len(d) = l
        /\ \A j \in 1..l : d[j] = rel + su + o + j
    <3>1. \A j \in 1..l : rel + su + o + j \in 0..(HostLen + GuestLen)
      BY <1>71, <2>1, <2>2, Sizes
    <3>2. d \in [1..l -> 0..(HostLen + GuestLen)]
      <4> HIDE DEF d
      <4> QED BY <3>1, <2>3, <2>4
    <3>3. \A j \in 1..l : d[j] = rel + su + o + j
      <4> HIDE DEF d
      <4> QED BY <2>3, <2>4
    <3> HIDE DEF d
    <3>4. d \in Seq(0..(HostLen + GuestLen)) /\ Len(d) = l
      BY <3>2, <2>2, FunctionSeq
    <3> QED BY <3>3, <3>4
  <2>6. s = Segment(f.seq_una + su + o, f.seq_from_guest, WindowToGuest(h), {"ACK"}, d)
    BY DEF o
  <2> HIDE DEF d, s
  <2>7. /\ s \in Segments /\ s.win = WindowToGuest(h) /\ s.flags = {"ACK"} /\ s.data = d
        /\ s.ack = f.seq_from_guest % SeqMod /\ s.seq = (f.seq_una + su + o) % SeqMod
    <3>1. WindowToGuest(h) \in 0..(SndBuf + GuestBuf)
      BY WindowFact, Sizes
    <3>2. f.seq_una + su + o \in Int /\ {"ACK"} \in SUBSET Flags
      BY <1>4, <2>1 DEF Flags
    <3> QED BY SMTT(60), <3>1, <3>2, <1>4, <2>5, <2>6, SegmentFact
  <2>8. d # <<>> /\ d[1] = rel + su + o + 1 /\ End(d) = rel + su + o + l
    <3>1. d[1] = rel + su + o + 1 /\ Len(d) = l /\ d # <<>>
      BY <2>2, <2>5
    <3> QED BY <3>1, <1>4, <1>5, <2>1, <2>2 DEF End
  <2>9. Consecutive(d)
    <3>1. d[1] >= 1
      BY <2>8, <1>71, <2>1
    <3>2. \A j \in 1..l : d[j] = d[1] + j - 1
      BY <2>5, <2>8, <1>4, <1>5, <2>1
    <3> QED BY <3>1, <3>2, <2>5 DEF Consecutive
  <2>10. s.seq = SeqOf(TCP_ISN, d[1])
    <3> DEFINE a == 1 + rel
               b == su + o
    <3>1. a \in Int /\ b \in Int /\ TCP_ISN \in Int /\ a + b = d[1]
          /\ f.seq_una + su + o = f.seq_una + b
      <4>1. f.seq_una \in Int /\ TCP_ISN \in Int
        BY <1>4, Sizes
      <4> QED BY SMTT(60), <4>1, <2>1, <2>8, <1>71
    <3>2. f.seq_una = SeqOf(TCP_ISN, a)
      BY <1>7
    <3> HIDE DEF a, b
    <3>3. SeqOf(SeqOf(TCP_ISN, a), b) = SeqOf(TCP_ISN, a + b)
      BY <3>1, SeqOfPlus
    <3>4. SeqOf(f.seq_una, b) = (f.seq_una + su + o) % SeqMod
      BY <3>1 DEF SeqOf
    <3> QED BY <3>1, <3>2, <3>3, <3>4, <2>7
  <2>11. End(d) <= h.read /\ End(d) <= Edge(g) /\ Len(g.recv) < d[1] + FRAME
    <3>0. End(d) \in Int /\ d[1] \in Int
      BY <2>8, <1>71, <2>1, <2>2
    <3>1. End(d) <= hr
      BY <2>8, <1>71, <2>1, <2>2
    <3>2. gl < d[1] + FRAME
      BY <2>8, <1>71, <2>1, Sizes
    <3>3. End(d) <= rel + gw
      BY <2>8, <1>71, <2>1, <2>2
    <3>4. CASE g.fin
      <4>1. End(d) <= eg
        BY <3>0, <3>1, <3>4, <1>71
      <4> QED BY <4>1, <3>1, <3>2 DEF hr, gl, eg
    <3>5. CASE ~g.fin
      <4>1. fb = 0
        BY <3>5, <1>5, BitFact DEF fb
      <4>2. End(d) <= eg
        BY <4>1, <3>0, <3>3, <1>71
      <4> QED BY <4>2, <3>1, <3>2 DEF hr, gl, eg
    <3> QED BY <3>4, <3>5
  <2>12. s.win <= SndBuf
    BY <2>7, WindowFact
  <2>13. DownSeg(s, h, g)
    BY <2>7, <2>9, <2>10, <2>11, <2>12 DEF DownSeg
  <2>14. d[1] > rel
    BY <2>8, <1>4, <1>5, <2>1
  <2>15. s.ack = SeqOf(GuestISN, 1 + Taken(h))
    BY <1>4, <1>7, <2>7, SeqModFact, ModSmall
  <2>16. s \in Segments /\ NewDown(s, rel, h, g)
    BY <2>7, <2>13, <2>14, <2>15 DEF NewDown
  <2> QED BY <2>16 DEF s
<1> HIDE DEF Sg
<1>9. out \in [1..m -> Segments]
  BY <1>1, <1>8
<1>10. out \in Seq(Segments) /\ Len(out) = m
  BY <1>2, <1>9, FunctionSeq
<1>11. \A i \in 1..m : NewDown(out[i], rel, h, g)
  BY <1>1, <1>8
<1> QED BY <1>10, <1>11 DEF out, rel

LEMMA OneSegment ==
    ASSUME NEW s \in Segments
    PROVE  <<s>> \in Seq(Segments) /\ Len(<<s>>) = 1 /\ <<s>>[1] = s
  OBVIOUS

\* The outcome of a handler that leaves what the flow is sure of alone.
Delivers(f, h, g, o) ==
    /\ o.t \in FlowSet /\ o.ring \in RingSet /\ o.host \in HostSet
    /\ FlowInv(o.t, o.ring, o.host, g) /\ HostReads(h, o.host)
    /\ Sure(o.t, o.host) = Sure(f, h) /\ Rel(o.t, o.host) = Rel(f, h)
    /\ o.t.state = f.state
    /\ o.out \in Seq(Segments)
    /\ \A i \in 1..Len(o.out) : NewDown(o.out[i], Rel(f, h), o.host, g)
    /\ o.reset \in BOOLEAN /\ (o.reset => h.reset)

\* tcp_data_to_guest
LEMMA DataStep ==
    ASSUME NEW f \in FlowSet, NEW r \in RingSet, NEW h \in HostSet, NEW g \in GuestSet,
           FlowInv(f, r, h, g), HostInv(h, g), GuestInv(g, h)
    PROVE  Delivers(f, h, g, DataToGuest(f, r, h))
<1> DEFINE o == DataToGuest(f, r, h)
           budget == Budget(f)
           fill == FillBuffer(f, r, h)
           e == fill.t
           k == fill.host
           new == e.buffered - f.sent_unacked
           n == Min(new, budget)
           rearm == fill.drained /\ ~f.poll_armed /\ n = new
           p == [e EXCEPT !.poll_armed = @ \/ rearm]
           Stop == \/ f.state # "Established" \/ f.host_fin # "NotSent"
                   \/ f.poll_armed /\ f.buffered = f.sent_unacked /\ ~f.host_eof
                   \/ budget = 0
           none == Outcome(f, r, h, <<>>)
           Fin == new = 0 /\ p.host_eof /\ f.sent_unacked = 0
           fin == Outcome([e EXCEPT !.host_fin = "Sent"], fill.ring, k,
                          <<Control(e, k, {"FIN", "ACK"})>>)
           data == Outcome([p EXCEPT !.sent_unacked = @ + n], fill.ring, k,
                           DataSegments(e, fill.ring, k, n))
<1>1. o = IF Stop THEN none
          ELSE IF fill.reset THEN [none EXCEPT !.reset = TRUE]
          ELSE IF Fin THEN fin ELSE data
  BY DEF DataToGuest
<1>2. ASSUME NEW b \in BOOLEAN, b => h.reset, NEW x,
             x.t = f, x.ring = r, x.host = h, x.out = <<>>, x.reset = b
      PROVE  Delivers(f, h, g, x)
  <2>1. <<>> \in Seq(Segments) /\ Len(<<>>) = 0
    OBVIOUS
  <2>2. HostReads(h, h)
    BY HostFact DEF HostReads, HostInv
  <2> QED BY <1>2, <2>1, <2>2 DEF Delivers
<1>3. /\ none.t = f /\ none.ring = r /\ none.host = h /\ none.out = <<>>
      /\ none.reset = FALSE
      /\ [none EXCEPT !.reset = TRUE].t = f /\ [none EXCEPT !.reset = TRUE].ring = r
      /\ [none EXCEPT !.reset = TRUE].host = h /\ [none EXCEPT !.reset = TRUE].out = <<>>
      /\ [none EXCEPT !.reset = TRUE].reset = TRUE
  BY DEF Outcome
<1> HIDE DEF none, fin, data, o, Stop, Fin, fill
<1>4. CASE Stop
  <2>1. Delivers(f, h, g, none)
    BY <1>2, <1>3
  <2> QED BY <2>1, <1>1, <1>4 DEF o
<1>5. CASE ~Stop
  <2>1. f.state = "Established" /\ f.host_fin = "NotSent" /\ budget # 0
    BY <1>5 DEF Stop
  <2>2. /\ e \in FlowSet /\ fill.ring \in RingSet /\ k \in HostSet
        /\ FlowInv(e, fill.ring, k, g) /\ HostReads(h, k)
        /\ Rel(e, k) = Rel(f, h) /\ FillKeeps(f, e)
        /\ fill.reset => h.reset
    BY <2>1, FillStep DEF fill
  <2>3. HostInv(k, g) /\ GuestInv(g, k)
    BY <2>2, HostReadsFact
  <2>4. CASE fill.reset
    <3>1. Delivers(f, h, g, [none EXCEPT !.reset = TRUE])
      BY <1>2, <1>3, <2>2, <2>4
    <3> QED BY <3>1, <1>1, <1>5, <2>4 DEF o
  <2>5. e.state = "Established" /\ e.host_fin = "NotSent" /\ e.sent_unacked = f.sent_unacked
        /\ e.guest_window = f.guest_window
    BY <2>1, <2>2 DEF FillKeeps
  <2>6. Sure(e, k) = Sure(f, h)
    BY <2>1, <2>2, <2>5, SureFact
  <2>7. f.sent_unacked \in Nat /\ e.buffered \in 0..FRAME /\ f.sent_unacked <= e.buffered
        /\ f.guest_window \in Nat
    <3>1. FlowCounts(e, k, g)
      BY <2>2 DEF FlowInv
    <3> QED BY <2>2, <2>5, <3>1, FlowFact, Sizes DEF FlowCounts
  <2>8. CASE ~fill.reset /\ Fin
    <3> DEFINE c == Control(e, k, {"FIN", "ACK"})
               x == [e EXCEPT !.host_fin = "Sent"]
    <3>1. /\ fin.t = x /\ fin.ring = fill.ring /\ fin.host = k
          /\ fin.out = <<c>> /\ fin.reset = FALSE
      BY DEF fin, Outcome
    <3>2. e.buffered = 0 /\ e.sent_unacked = 0 /\ e.host_eof
      <4>1. p.host_eof = e.host_eof
        BY <2>2 DEF FlowSet
      <4> QED BY <4>1, <2>5, <2>7, <2>8 DEF Fin
    <3>3. NewDown(c, Rel(f, h), k, g)
      BY <3>2, <2>2, <2>3, <2>5, FinNew
    <3>4. x \in FlowSet /\ x.host_fin = "Sent" /\ x.state = e.state
          /\ x.seq_una = e.seq_una /\ x.seq_from_guest = e.seq_from_guest
          /\ x.sent_unacked = e.sent_unacked /\ x.buffered = e.buffered
          /\ x.buf_head = e.buf_head /\ x.host_eof = e.host_eof
          /\ x.guest_window = e.guest_window
          /\ x.guest_fin_received = e.guest_fin_received
      BY <2>2 DEF FlowSet
    <3> HIDE DEF x, c
    <3>5. Rel(x, k) = Rel(e, k)
      BY <3>4 DEF Rel
    <3>6. Sure(x, k) = Sure(e, k)
      BY <3>4, <3>5, <2>2, <2>5, SureFact
    <3>7. FlowInv(x, fill.ring, k, g)
      <4>1. FlowCounts(e, k, g) /\ FlowNumbers(e, k) /\ RingInv(e, fill.ring, k)
        BY <2>2 DEF FlowInv
      <4>2. FlowCounts(x, k, g)
        BY <4>1, <3>2, <3>4, <3>5 DEF FlowCounts
      <4>3. FlowNumbers(x, k)
        BY <4>1, <3>4, <3>6, <2>5 DEF FlowNumbers
      <4>4. RingInv(x, fill.ring, k)
        BY <4>1, <3>4, <3>5 DEF RingInv
      <4> QED BY <4>2, <4>3, <4>4, <3>4 DEF FlowInv
    <3>8. c \in Segments
      BY <3>3 DEF NewDown
    <3>9. fin.out \in Seq(Segments) /\ Len(fin.out) = 1 /\ fin.out[1] = c
      BY <3>1, <3>8, OneSegment
    <3>10. \A i \in 1..Len(fin.out) : NewDown(fin.out[i], Rel(f, h), k, g)
      BY <3>3, <3>9
    <3>11. Delivers(f, h, g, fin)
      BY <3>1, <3>4, <3>5, <3>6, <3>7, <3>9, <3>10, <2>1, <2>2, <2>5, <2>6 DEF Delivers
    <3> QED BY <3>11, <1>1, <1>5, <2>8 DEF o
  <2>9. CASE ~fill.reset /\ ~Fin
    <3> DEFINE x == [p EXCEPT !.sent_unacked = @ + n]
               out == DataSegments(e, fill.ring, k, n)
    <3>1. /\ data.t = x /\ data.ring = fill.ring /\ data.host = k
          /\ data.out = out /\ data.reset = FALSE
      BY DEF data, Outcome
    <3>2. /\ n \in Nat /\ f.sent_unacked + n <= e.buffered
          /\ f.sent_unacked + n <= f.guest_window
      <4>1. budget = f.guest_window - f.sent_unacked /\ budget > 0
        BY <2>1, <2>7 DEF Budget, Monus
      <4> HIDE DEF budget
      <4> QED BY <4>1, <2>7 DEF Min
    <3> HIDE DEF n
    <3>3. Len(g.recv) <= Rel(e, k) + FRAME
      <4>1. /\ Rel(f, h) = h.read - f.buffered /\ f.buffered \in 0..FRAME
            /\ h.read \in Nat /\ Len(g.recv) \in Nat /\ Len(g.recv) <= h.read
        BY SureFact, FlowFact, HostFact, GuestFact DEF HostInv
      <4> QED BY <4>1, <2>2, Sizes
    <3>4. out \in Seq(Segments) /\ \A i \in 1..Len(out) : NewDown(out[i], Rel(e, k), k, g)
      <4>1. e.sent_unacked + n <= e.buffered /\ e.sent_unacked + n <= e.guest_window
            /\ e.host_fin # "Acked"
        BY <3>2, <2>5
      <4> QED BY <4>1, <3>2, <3>3, <2>2, <2>3, <2>5, DataNew
    <3>5. p \in FlowSet /\ p.sent_unacked = f.sent_unacked
      <4>1. (e.poll_armed \/ rearm) \in BOOLEAN
        OBVIOUS
      <4> HIDE DEF rearm
      <4> QED BY <4>1, <2>2, <2>5 DEF FlowSet
    <3>6. f.sent_unacked + n \in 0..FRAME
      BY <3>2, <2>7, Sizes
    <3>7. x \in FlowSet /\ x.host_fin = e.host_fin /\ x.state = e.state
          /\ x.seq_una = e.seq_una /\ x.seq_from_guest = e.seq_from_guest
          /\ x.sent_unacked = f.sent_unacked + n /\ x.buffered = e.buffered
          /\ x.buf_head = e.buf_head /\ x.host_eof = e.host_eof
          /\ x.guest_window = e.guest_window
          /\ x.guest_fin_received = e.guest_fin_received
      <4>1. /\ p.host_fin = e.host_fin /\ p.state = e.state
            /\ p.seq_una = e.seq_una /\ p.seq_from_guest = e.seq_from_guest
            /\ p.buffered = e.buffered /\ p.buf_head = e.buf_head
            /\ p.host_eof = e.host_eof /\ p.guest_window = e.guest_window
            /\ p.guest_fin_received = e.guest_fin_received
        BY <2>2 DEF FlowSet
      <4> HIDE DEF p
      <4>2. x = [p EXCEPT !.sent_unacked = f.sent_unacked + n]
        BY <3>5
      <4>3. x \in FlowSet
        BY <4>2, <3>5, <3>6 DEF FlowSet
      <4> QED BY <4>1, <4>2, <4>3, <3>5 DEF FlowSet
    <3> HIDE DEF x, out
    <3>8. FlowInv(x, fill.ring, k, g) /\ Sure(x, k) = Sure(e, k) /\ Rel(x, k) = Rel(e, k)
      <4>1. x.sent_unacked <= e.buffered
        BY <3>2, <3>7
      <4> QED BY <4>1, <3>7, <2>2, FlowSame
    <3>9. Delivers(f, h, g, data)
      BY <3>1, <3>4, <3>7, <3>8, <2>1, <2>2, <2>5, <2>6 DEF Delivers
    <3> QED BY <3>9, <1>1, <1>5, <2>9 DEF o
  <2> QED BY <2>4, <2>8, <2>9
<1> QED BY <1>4, <1>5

-----------------------------------------------------------------------------
(* Segments from the guest                                                 *)

\* The host socket takes guest data: the other direction is not concerned.
DownSame(f, e) ==
    /\ e.sent_unacked = f.sent_unacked /\ e.buffered = f.buffered
    /\ e.buf_head = f.buf_head /\ e.host_eof = f.host_eof
    /\ e.host_fin = f.host_fin /\ e.guest_window = f.guest_window
    /\ e.seq_una = f.seq_una /\ e.state = f.state
InputSame(h, k) ==
    k.read = h.read /\ k.written = h.written /\ k.eof = h.eof /\ k.reset = h.reset

GotTakes(h, k, d, n) == k.got = h.got \o SubSeq(d, 1, n)

LEMMA FlowTakes ==
    ASSUME NEW f \in FlowSet, NEW e \in FlowSet, NEW r, NEW h \in HostSet,
           NEW k \in HostSet, NEW g \in GuestSet, FlowInv(f, r, h, g),
           InputSame(h, k), DownSame(f, e),
           e.seq_from_guest = SeqOf(GuestISN, 1 + Taken(k)),
           e.guest_fin_received = k.shut
    PROVE  FlowInv(e, r, k, g) /\ Sure(e, k) = Sure(f, h) /\ Rel(e, k) = Rel(f, h)
<1>1. Sure(e, k) = Sure(f, h) /\ Rel(e, k) = Rel(f, h)
  BY DEF Sure, Rel, InputSame, DownSame
<1>2. FlowCounts(f, h, g) /\ FlowNumbers(f, h) /\ RingInv(f, r, h)
  BY DEF FlowInv
<1>3. FlowCounts(e, k, g)
  BY <1>1, <1>2 DEF FlowCounts, InputSame, DownSame
<1>4. FlowNumbers(e, k)
  BY <1>1, <1>2 DEF FlowNumbers, InputSame, DownSame
<1>5. RingInv(e, r, k)
  BY <1>1, <1>2 DEF RingInv, InputSame, DownSame
<1> QED BY <1>1, <1>3, <1>4, <1>5 DEF FlowInv

LEMMA HostTakes ==
    ASSUME NEW h \in HostSet, NEW k \in HostSet, NEW g \in GuestSet,
           HostInv(h, g), GuestInv(g, h),
           InputSame(h, k),
           \A i \in 1..Len(k.got) : k.got[i] = i, Len(k.got) <= GuestLen,
           k.shut => Len(k.got) = GuestLen,
           Taken(h) <= Taken(k), Taken(k) <= g.nxt
    PROVE  HostInv(k, g) /\ GuestInv(g, k) /\ HostGrows(h, k)
<1>1. HostInv(k, g)
  BY DEF HostInv, InputSame
<1>2. g.una <= Taken(k)
  <2>1. g.una <= Taken(h)
    BY DEF GuestInv
  <2>2. Taken(h) \in Nat /\ Taken(k) \in Nat /\ g.una \in Nat
    BY HostFact, GuestFact
  <2> QED BY <2>1, <2>2
<1>3. GuestInv(g, k)
  BY <1>2 DEF GuestInv, InputSame
<1>4. HostGrows(h, k)
  BY HostFact DEF HostGrows, InputSame
<1> QED BY <1>1, <1>3, <1>4

\* A number near the next expected one is not mistaken for it.
LEMMA NextExpected ==
    ASSUME NEW h \in HostSet, NEW g \in GuestSet, GuestInv(g, h),
           NEW a \in Nat, a <= g.nxt, Taken(h) <= a + SndBuf,
           SeqOf(GuestISN, a) = SeqOf(GuestISN, 1 + Taken(h))
    PROVE  a = 1 + Taken(h)
<1> DEFINE tk == Taken(h)
           nx == g.nxt
           un == g.una
           b == 1 + tk
<1>1. tk \in Nat /\ nx \in Nat /\ un \in Nat
  BY HostFact, GuestFact
<1>2. /\ un <= tk /\ tk <= nx
      /\ nx <= un + SndBuf \/ (nx = GuestLen + 1 /\ GuestLen <= un + SndBuf)
  BY DEF GuestInv
<1>3. a <= nx /\ tk <= a + SndBuf
  OBVIOUS
<1> HIDE DEF tk, nx, un
<1>4. b \in Int /\ a \in Int /\ GuestISN \in Int /\ a - b < SeqMod /\ b - a < SeqMod
  BY <1>1, <1>2, <1>3, Sizes
<1>5. SeqOf(GuestISN, a) = SeqOf(GuestISN, b)
  BY DEF tk
<1> HIDE DEF b
<1>6. a = b
  BY <1>4, <1>5, SeqOfInjective
<1> QED BY <1>6 DEF b, tk

\* The payload: what is taken is next in the guest's stream.
LEMMA PayloadStep ==
    ASSUME NEW f \in FlowSet, NEW r, NEW h \in HostSet, NEW g \in GuestSet,
           FlowInv(f, r, h, g), HostInv(h, g), GuestInv(g, h),
           NEW s \in Segments, UpSeg(s, h, g),
           NEW e \in FlowSet, NEW k \in HostSet, DownSame(f, e), InputSame(h, k),
           e.guest_fin_received = f.guest_fin_received, k.shut = h.shut,
           e.seq_from_guest = SeqOf(f.seq_from_guest, Accepted(f, h, s)),
           GotTakes(h, k, s.data, Accepted(f, h, s))
    PROVE  /\ FlowInv(e, r, k, g)
           /\ HostInv(k, g) /\ GuestInv(g, k) /\ HostGrows(h, k)
           /\ Sure(e, k) = Sure(f, h) /\ Rel(e, k) = Rel(f, h)
           /\ \/ Taken(k) <= Taken(h)
              \/ s.data # <<>> /\ Taken(k) <= End(s.data)
<1> DEFINE acc == Accepted(f, h, s)
           d == s.data
           tk == Taken(h)
           sub == SubSeq(d, 1, acc)
<1>1. h.outq \in Nat /\ Len(d) \in Nat /\ tk \in Nat /\ h.got \in Seq(Nat)
      /\ Len(h.got) \in Nat
  BY HostFact, SegmentsFact
<1>2. acc \in 0..Len(d)
        /\ (acc > 0 => s.seq = f.seq_from_guest /\ ~h.shut)
  <2>1. Monus(SndBuf, h.outq) \in Nat
    BY <1>1, Sizes DEF Monus
  <2> HIDE DEF d
  <2>2. acc = 0 \/ (acc = Min(Len(d), Monus(SndBuf, h.outq))
                     /\ s.seq = f.seq_from_guest /\ ~h.shut)
    BY DEF Accepted, d
  <2> QED BY <2>1, <2>2, <1>1 DEF Min
<1>3. f.seq_from_guest = SeqOf(GuestISN, 1 + tk) /\ f.guest_fin_received = h.shut
  BY DEF FlowInv, FlowNumbers
<1>4. ASSUME acc > 0
      PROVE  /\ d # <<>> /\ d[1] = 1 + tk /\ tk = Len(h.got)
             /\ \A j \in 1..acc : d[j] = tk + j
             /\ tk + acc <= End(d) /\ End(d) <= GuestLen /\ End(d) <= g.nxt
  <2>1. Len(d) >= 1
    BY <1>1, <1>2, <1>4
  <2>2. d # <<>> /\ d[1] \in Nat /\ End(d) \in Nat /\ End(d) >= d[1]
        /\ End(d) = d[1] + Len(d) - 1
    BY <2>1, SegmentsFact, EndFact
  <2>3. /\ Consecutive(d) /\ s.seq = SeqOf(GuestISN, d[1])
        /\ End(d) <= GuestLen /\ End(d) <= g.nxt /\ Taken(h) <= d[1] + SndBuf
    BY <2>2 DEF UpSeg
  <2>4. g.nxt \in Nat
    BY GuestFact
  <2>5. d[1] <= g.nxt
    BY <2>2, <2>3, <2>4
  <2>6. d[1] = 1 + tk
    <3> DEFINE a == d[1]
    <3>1. /\ a \in Nat /\ a <= g.nxt /\ Taken(h) <= a + SndBuf
          /\ SeqOf(GuestISN, a) = SeqOf(GuestISN, 1 + Taken(h))
      BY <2>2, <2>3, <2>5, <1>2, <1>3, <1>4
    <3> HIDE DEF a
    <3>2. a = 1 + Taken(h)
      BY <3>1, NextExpected
    <3> QED BY <3>2 DEF a
  <2>7. tk = Len(h.got)
    <3>1. ~h.shut /\ h.shut \in BOOLEAN
      BY <1>2, <1>4, HostFact
    <3>2. Bit(h.shut) = 0
      BY <3>1, BitFact
    <3> QED BY <3>2, <1>1 DEF Taken
  <2>8. \A j \in 1..acc : d[j] = tk + j
    <3> SUFFICES ASSUME NEW j \in 1..acc PROVE d[j] = tk + j
      OBVIOUS
    <3>1. j \in 1..Len(d)
      BY <1>1, <1>2
    <3>2. d[j] = d[1] + j - 1
      BY <3>1, <2>3 DEF Consecutive
    <3> HIDE DEF acc, d, tk
    <3> QED BY <3>1, <3>2, <2>6, <1>1
  <2>9. tk + acc <= End(d)
    <3> HIDE DEF acc, d, tk
    <3> QED BY <2>2, <2>6, <1>1, <1>2
  <2> QED BY <2>2, <2>3, <2>6, <2>7, <2>8, <2>9
<1>5. sub \in Seq(Nat) /\ Len(sub) = acc /\ \A j \in 1..acc : sub[j] = d[j]
  <2>1. d \in Seq(0..(HostLen + GuestLen))
    BY SegmentsFact
  <2> HIDE DEF acc, d
  <2>2. \A j \in 1..acc : d[j] \in 0..(HostLen + GuestLen)
    <3> SUFFICES ASSUME NEW j \in 1..acc PROVE d[j] \in 0..(HostLen + GuestLen)
      OBVIOUS
    <3>1. j \in 1..Len(d)
      BY <1>1, <1>2
    <3> QED BY <3>1, <2>1, ElementOfSeq
  <2>3. \A j \in 1..acc : d[j] \in Nat
    BY <2>2
  <2>4. /\ SubSeq(d, 1, acc) \in Seq(Nat)
        /\ Len(SubSeq(d, 1, acc)) = (IF 1 <= acc THEN acc - 1 + 1 ELSE 0)
        /\ \A j \in 1..(acc - 1 + 1) : SubSeq(d, 1, acc)[j] = d[1 + j - 1]
    BY <2>3, <1>2, SubSeqProperties
  <2>5. acc \in Nat /\ acc - 1 + 1 = acc /\ (1 <= acc \/ acc = 0)
    BY <1>2
  <2>6. Len(sub) = acc
    BY <2>4, <2>5
  <2>7. \A j \in 1..acc : sub[j] = d[j]
    BY <2>4, <2>5
  <2> QED BY <2>4, <2>6, <2>7
<1> DEFINE got == h.got \o sub
<1>6. /\ got \in Seq(Nat) /\ Len(got) = Len(h.got) + acc
      /\ \A i \in 1..(Len(h.got) + acc) :
            got[i] = IF i <= Len(h.got) THEN h.got[i] ELSE sub[i - Len(h.got)]
  <2> HIDE DEF sub, acc
  <2> QED BY ZenonT(60), <1>1, <1>5, ConcatProperties
<1>7. k.got = got /\ e.seq_from_guest = SeqOf(f.seq_from_guest, acc)
  BY DEF GotTakes
<1> HIDE DEF acc, sub, got
<1>8. Taken(k) = tk + acc
  <2> DEFINE b == Bit(h.shut)
             l == Len(h.got)
  <2>1. Taken(k) = Len(k.got) + b /\ tk = l + b /\ b \in Int
    BY HostFact
  <2>2. l \in Int /\ acc \in Int
    BY <1>1, <1>2
  <2>3. Len(k.got) = l + acc
    BY <1>6, <1>7
  <2> HIDE DEF tk, b, l
  <2> QED BY <2>1, <2>2, <2>3
<1>9. e.seq_from_guest = SeqOf(GuestISN, 1 + Taken(k))
  <2> DEFINE a == 1 + tk
  <2>1. a \in Int /\ acc \in Int /\ GuestISN \in Int /\ a + acc = 1 + Taken(k)
    <3>1. tk \in Int /\ acc \in Int /\ GuestISN \in Int
      BY <1>1, <1>2, Sizes
    <3> HIDE DEF tk
    <3> QED BY <3>1, <1>8
  <2>2. f.seq_from_guest = SeqOf(GuestISN, a)
    BY <1>3
  <2> HIDE DEF a
  <2>3. SeqOf(SeqOf(GuestISN, a), acc) = SeqOf(GuestISN, a + acc)
    BY <2>1, SeqOfPlus
  <2> QED BY <2>1, <2>2, <2>3, <1>7
<1>10. FlowInv(e, r, k, g) /\ Sure(e, k) = Sure(f, h) /\ Rel(e, k) = Rel(f, h)
  <2>1. e.guest_fin_received = k.shut
    BY <1>3
  <2> QED BY <2>1, <1>9, FlowTakes
<1>11. /\ \A i \in 1..Len(k.got) : k.got[i] = i
       /\ Len(k.got) <= GuestLen /\ (k.shut => Len(k.got) = GuestLen)
       /\ Taken(h) <= Taken(k) /\ Taken(k) <= g.nxt
  <2>1. /\ \A i \in 1..Len(h.got) : h.got[i] = i
        /\ Len(h.got) <= GuestLen /\ (h.shut => Len(h.got) = GuestLen)
        /\ tk <= g.nxt /\ g.nxt \in Nat
    BY GuestFact DEF HostInv, GuestInv
  <2>2. tk <= Taken(k)
    <3> HIDE DEF tk
    <3> QED BY <1>1, <1>2, <1>8
  <2>3. CASE acc = 0
    <3>1. Len(got) = Len(h.got)
      BY <2>3, <1>1, <1>6
    <3>2. \A i \in 1..Len(got) : got[i] = h.got[i]
      BY <3>1, <2>3, <1>1, <1>6
    <3>3. Taken(k) = tk
      BY <2>3, <1>1, <1>8
    <3>4. k.shut => Len(k.got) = GuestLen
      BY <3>1, <2>1, <1>7
    <3> QED BY <3>4, <3>1, <3>2, <3>3, <2>1, <2>2, <1>7
  <2>4. CASE acc > 0
    <3>1. /\ tk = Len(h.got) /\ (\A j \in 1..acc : d[j] = tk + j)
          /\ tk + acc <= End(d) /\ End(d) <= GuestLen /\ End(d) <= g.nxt /\ ~h.shut
          /\ End(d) \in Nat
      BY <2>4, <1>2, <1>4, EndFact
    <3> HIDE DEF d
    <3>2. ASSUME NEW i \in 1..Len(got) PROVE got[i] = i
      <4>1. i \in 1..(Len(h.got) + acc) /\ i \in Int
        BY <1>6
      <4>2. CASE i <= Len(h.got)
        <5>1. got[i] = h.got[i] /\ i \in 1..Len(h.got)
          BY <4>1, <4>2, <1>1, <1>6
        <5> QED BY <5>1, <2>1
      <4>3. CASE i > Len(h.got)
        <5> DEFINE j == i - Len(h.got)
        <5>1. j \in 1..acc /\ Len(h.got) + j = i
          BY <4>1, <4>3, <1>1, <1>2
        <5>2. got[i] = sub[j]
          BY <4>1, <4>3, <1>1, <1>6
        <5> HIDE DEF j
        <5>3. sub[j] = tk + j
          BY <5>1, <3>1, <1>5
        <5> QED BY <5>1, <5>2, <5>3, <3>1
      <4> QED BY <4>1, <4>2, <4>3, <1>1
    <3>3. Len(got) <= GuestLen
      <4> DEFINE l == Len(h.got)
      <4>1. Len(got) = l + acc /\ l + acc <= End(d) /\ l \in Int /\ acc \in Int
        BY <3>1, <1>1, <1>2, <1>6
      <4> HIDE DEF l
      <4> QED BY <4>1, <3>1, Sizes
    <3>4. Taken(k) <= g.nxt
      <4> HIDE DEF tk
      <4> QED BY <3>1, <2>1, <1>1, <1>2, <1>8
    <3>5. k.shut => Len(k.got) = GuestLen
      BY <3>1
    <3>6. \A i \in 1..Len(k.got) : k.got[i] = i
      BY <3>2, <1>7
    <3>7. Len(k.got) <= GuestLen
      BY <3>3, <1>7
    <3> QED BY <3>4, <3>5, <3>6, <3>7, <2>2
  <2> QED BY <2>3, <2>4, <1>2
<1>12. HostInv(k, g) /\ GuestInv(g, k) /\ HostGrows(h, k)
  BY <1>11, HostTakes
<1>13. Taken(k) <= Taken(h) \/ (s.data # <<>> /\ Taken(k) <= End(s.data))
  <2>1. CASE acc = 0
    BY <2>1, <1>1, <1>8
  <2>2. CASE acc > 0
    BY <2>2, <1>4, <1>8
  <2> QED BY <2>1, <2>2, <1>2
<1> QED BY <1>10, <1>12, <1>13

\* The guest's FIN: it is looked at only behind the last byte.
FinIsNext(f, s) == (s.seq + Len(s.data)) % SeqMod = f.seq_from_guest

FinTaken(f, e, k, m) ==
    /\ ~f.guest_fin_received /\ e.guest_fin_received = TRUE
    /\ e.seq_from_guest = SeqOf(f.seq_from_guest, 1)
    /\ m.shut = TRUE /\ m.got = k.got

LEMMA FinStep ==
    ASSUME NEW f \in FlowSet, NEW r, NEW h \in HostSet, NEW k \in HostSet,
           NEW g \in GuestSet, FlowInv(f, r, k, g), HostInv(k, g), GuestInv(g, k),
           NEW s \in Segments, UpSeg(s, h, g), "FIN" \in s.flags,
           FinIsNext(f, s),
           NEW e \in FlowSet, NEW m \in HostSet, DownSame(f, e), InputSame(k, m),
           FinTaken(f, e, k, m)
    PROVE  /\ FlowInv(e, r, m, g)
           /\ HostInv(m, g) /\ GuestInv(g, m) /\ HostGrows(k, m)
           /\ Sure(e, m) = Sure(f, k) /\ Rel(e, m) = Rel(f, k) /\ Taken(m) = GuestLen + 1
<1> DEFINE tk == Taken(k)
           d == s.data
           a == 1 + GuestLen
<1>1. /\ tk \in Nat /\ Len(k.got) \in Nat /\ k.shut \in BOOLEAN /\ g.nxt \in Nat
      /\ tk = Len(k.got) + Bit(k.shut) /\ GuestLen \in Nat
  BY HostFact, GuestFact, Sizes
<1>2. f.seq_from_guest = SeqOf(GuestISN, 1 + tk) /\ ~k.shut
  BY DEF FlowInv, FlowNumbers, FinTaken
<1>3. g.nxt = GuestLen + 1 /\ tk <= g.nxt
  BY DEF UpSeg, GuestInv
<1>4. (s.seq + Len(d)) % SeqMod = SeqOf(GuestISN, a)
  <2>1. CASE d = <<>>
    <3>1. s.seq = SeqOf(GuestISN, a) /\ Len(d) = 0 /\ s.seq \in 0..SeqMod-1
      BY <2>1, SegmentsFact DEF UpSeg
    <3>2. s.seq + Len(d) = s.seq
      BY <3>1
    <3>3. s.seq % SeqMod = s.seq
      BY <3>1, SeqModFact, ModSmall
    <3> QED BY <3>1, <3>2, <3>3
  <2>2. CASE d # <<>>
    <3> DEFINE x == d[1]
               l == Len(d)
    <3>1. x \in Nat /\ l \in Nat /\ s.seq = SeqOf(GuestISN, x) /\ End(d) = GuestLen
          /\ End(d) = x + l - 1
      BY <2>2, SegmentsFact, EndFact DEF UpSeg
    <3> HIDE DEF x, l
    <3>2. x \in Int /\ l \in Int /\ GuestISN \in Int /\ x + l = a
      <4>1. x \in Int /\ l \in Int /\ GuestISN \in Int /\ GuestLen = x + l - 1
        BY <3>1, Sizes
      <4> QED BY <4>1
    <3>3. SeqOf(SeqOf(GuestISN, x), l) = SeqOf(GuestISN, x + l)
      BY <3>2, SeqOfPlus
    <3>4. SeqOf(s.seq, l) = (s.seq + Len(d)) % SeqMod
      BY DEF SeqOf, l
    <3> QED BY <3>1, <3>2, <3>3, <3>4
  <2> QED BY <2>1, <2>2
<1>5. tk = GuestLen
  <2>1. a \in Nat /\ a <= g.nxt /\ Taken(k) <= a + SndBuf
    <3> HIDE DEF tk
    <3>1. tk <= a + SndBuf
      <4>1. tk \in Int /\ GuestLen \in Int /\ SndBuf \in Nat /\ tk <= GuestLen + 1
        BY <1>1, <1>3, Sizes
      <4> QED BY <4>1
    <3> QED BY <3>1, <1>1, <1>3 DEF tk
  <2>2. SeqOf(GuestISN, a) = SeqOf(GuestISN, 1 + Taken(k))
    BY <1>2, <1>4 DEF FinIsNext
  <2> HIDE DEF a
  <2>3. a = 1 + Taken(k)
    BY <2>1, <2>2, NextExpected
  <2> QED BY <2>3, <1>1 DEF a
<1>6. Len(k.got) = GuestLen
  <2>1. Bit(k.shut) = 0
    BY <1>1, <1>2, BitFact
  <2> QED BY <2>1, <1>1, <1>5
<1>7. Taken(m) = GuestLen + 1
  BY <1>6 DEF Taken, Bit, FinTaken
<1>8. e.seq_from_guest = SeqOf(GuestISN, 1 + Taken(m))
  <2> DEFINE b == 1 + tk
  <2>1. b \in Int /\ GuestISN \in Int /\ b + 1 = 1 + Taken(m)
    <3>1. tk \in Int /\ GuestISN \in Int /\ Taken(m) = tk + 1
      BY <1>1, <1>5, <1>7, Sizes
    <3> HIDE DEF tk
    <3> QED BY <3>1
  <2>2. f.seq_from_guest = SeqOf(GuestISN, b)
    BY <1>2
  <2> HIDE DEF b
  <2>3. SeqOf(SeqOf(GuestISN, b), 1) = SeqOf(GuestISN, b + 1)
    BY <2>1, SeqOfPlus
  <2> QED BY <2>1, <2>2, <2>3 DEF FinTaken
<1>9. FlowInv(e, r, m, g) /\ Sure(e, m) = Sure(f, k) /\ Rel(e, m) = Rel(f, k)
  <2>1. e.guest_fin_received = m.shut
    BY DEF FinTaken
  <2> QED BY <2>1, <1>8, FlowTakes
<1>10. Taken(k) <= Taken(m) /\ Taken(m) <= g.nxt
  BY <1>1, <1>3, <1>5, <1>7
<1>11. HostInv(m, g) /\ GuestInv(g, m) /\ HostGrows(k, m)
  <2>1. /\ \A i \in 1..Len(m.got) : m.got[i] = i
        /\ Len(m.got) <= GuestLen /\ (m.shut => Len(m.got) = GuestLen)
    BY <1>6 DEF HostInv, FinTaken
  <2> QED BY <2>1, <1>10, HostTakes
<1> QED BY <1>7, <1>9, <1>11

LEMMA AcceptedFact ==
    ASSUME NEW f, NEW h \in HostSet, NEW s \in Segments
    PROVE  Accepted(f, h, s) \in 0..Len(s.data)
<1> DEFINE l == Len(s.data)
           m == Monus(SndBuf, h.outq)
<1>1. l \in Nat /\ h.outq \in Nat
  BY HostFact, SegmentsFact
<1>2. m \in Nat
  BY <1>1, Sizes DEF Monus
<1>3. Accepted(f, h, s) = 0 \/ Accepted(f, h, s) = Min(l, m)
  BY DEF Accepted
<1> HIDE DEF l, m
<1>4. Accepted(f, h, s) \in 0..l
  BY <1>1, <1>2, <1>3 DEF Min
<1> QED BY <1>4 DEF l

LEMMA ConcatNew ==
    ASSUME NEW a \in Seq(Segments), NEW b \in Seq(Segments), NEW lo, NEW k, NEW g,
           \A i \in 1..Len(a) : NewDown(a[i], lo, k, g),
           \A i \in 1..Len(b) : NewDown(b[i], lo, k, g)
    PROVE  /\ a \o b \in Seq(Segments)
           /\ \A i \in 1..Len(a \o b) : NewDown((a \o b)[i], lo, k, g)
<1> DEFINE c == a \o b
<1>1. Len(a) \in Nat /\ Len(b) \in Nat
  BY LenProperties
<1>2. /\ c \in Seq(Segments) /\ Len(c) = Len(a) + Len(b)
      /\ \A i \in 1..(Len(a) + Len(b)) :
            c[i] = IF i <= Len(a) THEN a[i] ELSE b[i - Len(a)]
  BY ConcatProperties
<1> HIDE DEF c
<1>3. ASSUME NEW i \in 1..Len(c) PROVE NewDown(c[i], lo, k, g)
  <2>1. CASE i <= Len(a)
    <3>1. c[i] = a[i] /\ i \in 1..Len(a)
      BY <2>1, <1>1, <1>2
    <3> QED BY <3>1
  <2>2. CASE i > Len(a)
    <3>1. c[i] = b[i - Len(a)] /\ i - Len(a) \in 1..Len(b)
      BY <2>2, <1>1, <1>2
    <3> QED BY <3>1
  <2> QED BY <2>1, <2>2, <1>1, <1>2
<1> QED BY <1>2, <1>3 DEF c

LEMMA OneNew ==
    ASSUME NEW s, NEW lo, NEW k, NEW g, NewDown(s, lo, k, g)
    PROVE  <<s>> \in Seq(Segments) /\ \A i \in 1..Len(<<s>>) : NewDown(<<s>>[i], lo, k, g)
<1>1. s \in Segments
  BY DEF NewDown
<1>2. <<s>> \in Seq(Segments) /\ Len(<<s>>) = 1 /\ <<s>>[1] = s
  BY <1>1, OneSegment
<1> QED BY <1>2

LEMMA NoneNew ==
    ASSUME NEW lo, NEW k, NEW g
    PROVE  <<>> \in Seq(Segments) /\ \A i \in 1..Len(<<>>) : NewDown(<<>>[i], lo, k, g)
  OBVIOUS

\* The outcome of any handler of an established flow.
OutcomeOK(h, g, o) ==
    /\ o.t \in FlowSet /\ o.ring \in RingSet /\ o.host \in HostSet
    /\ FlowInv(o.t, o.ring, o.host, g)
    /\ HostInv(o.host, g) /\ GuestInv(g, o.host) /\ HostGrows(h, o.host)
    /\ o.out \in Seq(Segments)
    /\ \A i \in 1..Len(o.out) : NewDown(o.out[i], Rel(o.t, o.host), o.host, g)
    /\ o.reset \in BOOLEAN /\ (o.reset => HostResets)

\* Frames a written before the data: x is the outcome o of a delivery from flow f
\* and host k, the host having grown from h to k, with a in front of its frames.
After(f, h, k, g, o, x, a) ==
    /\ f \in FlowSet /\ h \in HostSet /\ k \in HostSet /\ g \in GuestSet
    /\ HostInv(k, g) /\ GuestInv(g, k) /\ HostGrows(h, k)
    /\ Delivers(f, k, g, o) /\ a \in Seq(Segments)
    /\ \A i \in 1..Len(a) : NewDown(a[i], Rel(f, k), o.host, g)
    /\ x.t = o.t /\ x.ring = o.ring /\ x.host = o.host /\ x.reset = o.reset
    /\ x.out = a \o o.out

LEMMA DeliversAfter ==
    ASSUME NEW f, NEW h, NEW k, NEW g, NEW o, NEW x, NEW a, After(f, h, k, g, o, x, a)
    PROVE  /\ OutcomeOK(h, g, x) /\ Sure(x.t, x.host) = Sure(f, k)
           /\ Taken(x.host) = Taken(k) /\ x.t.state = f.state
<1>1. /\ f \in FlowSet /\ h \in HostSet /\ k \in HostSet /\ g \in GuestSet
      /\ HostInv(k, g) /\ GuestInv(g, k) /\ HostGrows(h, k) /\ Delivers(f, k, g, o)
  BY DEF After
<1>2. a \in Seq(Segments) /\ \A i \in 1..Len(a) : NewDown(a[i], Rel(f, k), o.host, g)
  BY DEF After
<1>3. /\ x.t = o.t /\ x.ring = o.ring /\ x.host = o.host /\ x.reset = o.reset
      /\ x.out = a \o o.out
  BY DEF After
<1>4. /\ o.t \in FlowSet /\ o.ring \in RingSet /\ o.host \in HostSet
      /\ FlowInv(o.t, o.ring, o.host, g) /\ HostReads(k, o.host)
      /\ Sure(o.t, o.host) = Sure(f, k) /\ Rel(o.t, o.host) = Rel(f, k)
      /\ o.t.state = f.state /\ o.out \in Seq(Segments)
      /\ (\A i \in 1..Len(o.out) : NewDown(o.out[i], Rel(f, k), o.host, g))
      /\ o.reset \in BOOLEAN /\ (o.reset => k.reset)
  BY <1>1 DEF Delivers
<1>5. /\ HostInv(o.host, g) /\ GuestInv(g, o.host) /\ HostGrows(k, o.host)
      /\ Taken(o.host) = Taken(k)
  BY <1>4, <1>1, HostReadsFact
<1>6. HostGrows(h, o.host)
  <2>1. h.read \in Nat /\ k.read \in Nat /\ o.host.read \in Nat
        /\ Taken(h) \in Nat /\ Taken(k) \in Nat
    BY <1>4, <1>1, HostFact
  <2>2. h.read <= o.host.read
    BY <2>1, <1>5, <1>1 DEF HostGrows
  <2>3. Taken(h) <= Taken(o.host)
    BY <2>1, <1>5, <1>1 DEF HostGrows
  <2> QED BY <2>2, <2>3, <1>5, <1>1 DEF HostGrows
<1>7. /\ a \o o.out \in Seq(Segments)
      /\ \A i \in 1..Len(a \o o.out) : NewDown((a \o o.out)[i], Rel(o.t, o.host), o.host, g)
  BY <1>4, <1>2, ConcatNew
<1>8. o.reset => HostResets
  BY <1>4, <1>1 DEF HostInv
<1> QED BY <1>4, <1>5, <1>6, <1>7, <1>8, <1>3 DEF OutcomeOK

LEMMA SegmentStep ==
    ASSUME NEW f \in FlowSet, ring \in RingSet, host \in HostSet, guest \in GuestSet,
           FlowInv(f, ring, host, guest), HostInv(host, guest), GuestInv(guest, host),
           f.state = "Established", NEW s \in Segments, UpSeg(s, host, guest),
           NEW n \in Nat, UpAck(s, n, Sure(f, host), guest), "RST" \notin s.flags
    PROVE  LET o == SegmentFromGuest(f, s)
           IN  /\ OutcomeOK(host, guest, o)
               /\ Sure(o.t, o.host) <= n /\ o.t.state = "Established"
               /\ \/ Taken(o.host) <= Taken(host)
                  \/ s.data # <<>> /\ Taken(o.host) <= End(s.data)
                  \/ "FIN" \in s.flags /\ Taken(o.host) <= GuestLen + 1
<1> DEFINE f1 == IF "ACK" \in s.flags THEN AckFromGuest(f, s) ELSE f
           len == Len(s.data)
           acc == Accepted(f1, host, s)
           defer == len > 0 /\ acc = len /\ "PSH" \notin s.flags /\ ~f1.ack_deferred
           f2 == [Advance(f1, s, acc) EXCEPT !.ack_deferred = @ \/ defer]
           h2 == [host EXCEPT !.got = @ \o SubSeq(s.data, 1, acc), !.outq = @ + acc]
           fin == TakesFin(f2, s, acc)
           fin_new == /\ fin /\ ~f2.guest_fin_received
                      /\ (s.seq + len) % SeqMod = f2.seq_from_guest
           f3 == IF fin_new
                 THEN [f2 EXCEPT !.guest_fin_received = TRUE,
                                 !.seq_from_guest = SeqOf(@, 1)]
                 ELSE f2
           h3 == [h2 EXCEPT !.shut = @ \/ fin_new]
           ack_guest == (len > 0 /\ ~defer) \/ fin
           f4 == IF ack_guest THEN [f3 EXCEPT !.ack_deferred = FALSE] ELSE f3
           acks == IF ack_guest THEN <<Control(f4, h3, {"ACK"})>> ELSE <<>>
           data == DataToGuest(f4, ring, h3)
           o == SegmentFromGuest(f, s)
<1>1. o = [data EXCEPT !.out = acks \o @]
  BY DEF SegmentFromGuest
<1>2. f1 \in FlowSet /\ FlowInv(f1, ring, host, guest) /\ Sure(f1, host) <= n
      /\ f1.state = "Established"
  <2>1. CASE "ACK" \in s.flags
    <3>1. s.win <= GuestBuf
      BY DEF UpSeg
    <3>2. LET e == AckFromGuest(f, s)
          IN  e \in FlowSet /\ FlowInv(e, ring, host, guest) /\ Sure(e, host) <= n
              /\ AckKeeps(f, e)
      BY <2>1, <3>1, AckStep
    <3> QED BY <2>1, <3>2 DEF AckKeeps
  <2>2. CASE "ACK" \notin s.flags
    BY <2>2 DEF UpAck
  <2> QED BY <2>1, <2>2
<1> HIDE DEF f1
<1>3. acc \in Nat /\ host.outq \in Nat /\ host.got \in Seq(Nat)
      /\ SubSeq(s.data, 1, acc) \in Seq(Nat)
  <2>1. host.outq \in Nat /\ host.got \in Seq(Nat) /\ len \in Nat
        /\ s.data \in Seq(0..(HostLen + GuestLen))
    BY HostFact, SegmentsFact
  <2>2. acc \in 0..len
    BY AcceptedFact
  <2> HIDE DEF acc
  <2>3. \A j \in 1..acc : s.data[j] \in Nat
    <3> SUFFICES ASSUME NEW j \in 1..acc PROVE s.data[j] \in Nat
      OBVIOUS
    <3>1. j \in 1..Len(s.data)
      BY <2>1, <2>2
    <3>2. s.data[j] \in 0..(HostLen + GuestLen)
      BY <3>1, <2>1, ElementOfSeq
    <3> QED BY <3>2
  <2>4. SubSeq(s.data, 1, acc) \in Seq(Nat)
    BY <2>2, <2>3, SubSeqProperties
  <2> QED BY <2>1, <2>2, <2>4
<1>4. h2 \in HostSet /\ GotTakes(host, h2, s.data, acc)
      /\ InputSame(host, h2) /\ h2.shut = host.shut
  <2> HIDE DEF acc
  <2>1. host.got \o SubSeq(s.data, 1, acc) \in Seq(Nat)
    BY <1>3, ConcatProperties
  <2>2. host.outq + acc \in Nat
    BY <1>3
  <2> QED BY <2>1, <2>2 DEF HostSet, InputSame, GotTakes
<1>5. f2 \in FlowSet /\ DownSame(f1, f2) /\ f2.guest_fin_received = f1.guest_fin_received
      /\ f2.seq_from_guest = SeqOf(f1.seq_from_guest, acc)
  <2>1. SeqOf(f1.seq_from_guest, acc) \in 0..SeqMod-1
    <3>1. f1.seq_from_guest \in Int /\ acc \in Int
      BY <1>2, <1>3, FlowFact
    <3> QED BY <3>1, SeqOfType
  <2> DEFINE x == SeqOf(f1.seq_from_guest, acc)
             y == [f1 EXCEPT !.seq_from_guest = x]
  <2>2. f2 = [y EXCEPT !.ack_deferred = @ \/ defer]
    BY DEF Advance
  <2> HIDE DEF x, defer, acc, f2
  <2>3. y \in FlowSet /\ DownSame(f1, y) /\ y.guest_fin_received = f1.guest_fin_received
        /\ y.seq_from_guest = x
    BY <1>2, <2>1 DEF x, FlowSet, DownSame
  <2> HIDE DEF y
  <2>4. f2 \in FlowSet /\ DownSame(y, f2) /\ f2.guest_fin_received = y.guest_fin_received
        /\ f2.seq_from_guest = y.seq_from_guest
    <3>1. (y.ack_deferred \/ defer) \in BOOLEAN
      OBVIOUS
    <3> QED BY <3>1, <2>2, <2>3 DEF FlowSet, DownSame
  <2> QED BY <2>3, <2>4 DEF DownSame, x
<1> HIDE DEF f2, h2
<1>6. /\ FlowInv(f2, ring, h2, guest) /\ HostInv(h2, guest) /\ GuestInv(guest, h2)
      /\ HostGrows(host, h2) /\ Sure(f2, h2) = Sure(f1, host)
      /\ \/ Taken(h2) <= Taken(host)
         \/ s.data # <<>> /\ Taken(h2) <= End(s.data)
  BY <1>2, <1>4, <1>5, PayloadStep
<1>7. h3 \in HostSet /\ InputSame(h2, h3) /\ h3.got = h2.got
      /\ (fin_new => h3.shut = TRUE) /\ (~fin_new => h3.shut = h2.shut)
  <2> HIDE DEF fin_new
  <2>1. h2.shut \in BOOLEAN /\ (h2.shut \/ fin_new) \in BOOLEAN
    BY <1>4, HostFact
  <2>2. h3.shut = (h2.shut \/ fin_new)
    BY <1>4 DEF HostSet
  <2>3. h3 \in HostSet /\ InputSame(h2, h3) /\ h3.got = h2.got
    BY <2>1, <1>4 DEF HostSet, InputSame
  <2> HIDE DEF h3
  <2>4. (fin_new => h3.shut = TRUE) /\ (~fin_new => h3.shut = h2.shut)
    BY <2>1, <2>2
  <2> QED BY <2>3, <2>4
<1>8. f3 \in FlowSet /\ DownSame(f2, f3) /\ (~fin_new => f3 = f2)
      /\ (fin_new => f3.guest_fin_received = TRUE
                      /\ f3.seq_from_guest = SeqOf(f2.seq_from_guest, 1))
  <2> HIDE DEF fin_new
  <2>1. SeqOf(f2.seq_from_guest, 1) \in 0..SeqMod-1
    <3> DEFINE x == f2.seq_from_guest
    <3>1. x \in Int
      BY <1>5, FlowFact
    <3> HIDE DEF x
    <3>2. SeqOf(x, 1) \in 0..SeqMod-1
      BY <3>1, SeqOfType, 1 \in Int
    <3> QED BY <3>2 DEF x
  <2> QED BY <2>1, <1>5 DEF FlowSet, DownSame
<1> HIDE DEF f3, h3
<1>9. /\ FlowInv(f3, ring, h3, guest) /\ HostInv(h3, guest) /\ GuestInv(guest, h3)
      /\ HostGrows(host, h3) /\ Sure(f3, h3) = Sure(f1, host)
      /\ \/ Taken(h3) <= Taken(host)
         \/ s.data # <<>> /\ Taken(h3) <= End(s.data)
         \/ "FIN" \in s.flags /\ Taken(h3) <= GuestLen + 1
  <2>1. CASE fin_new
    <3>1. "FIN" \in s.flags /\ ~f2.guest_fin_received
          /\ FinIsNext(f2, s)
      BY <2>1 DEF TakesFin, FinIsNext
    <3>2. /\ f3.guest_fin_received = TRUE /\ h3.shut = TRUE
          /\ f3.seq_from_guest = SeqOf(f2.seq_from_guest, 1)
      BY <2>1, <1>7, <1>8
    <3> HIDE DEF fin_new
    <3>20. FinTaken(f2, f3, h2, h3)
      BY <3>1, <3>2, <1>7 DEF FinTaken
    <3>3. /\ FlowInv(f3, ring, h3, guest) /\ HostInv(h3, guest) /\ GuestInv(guest, h3)
          /\ HostGrows(h2, h3) /\ Sure(f3, h3) = Sure(f2, h2) /\ Taken(h3) = GuestLen + 1
      BY <3>1, <3>20, <1>4, <1>5, <1>6, <1>7, <1>8, FinStep
    <3>4. HostGrows(host, h3)
      <4>1. /\ Taken(host) \in Nat /\ Taken(h2) \in Nat /\ Taken(h3) \in Nat
            /\ host.read \in Nat /\ h2.read \in Nat /\ h3.read \in Nat
        BY <1>4, <1>7, HostFact
      <4>2. host.read <= h3.read
        BY <4>1, <3>3, <1>6 DEF HostGrows
      <4>3. Taken(host) <= Taken(h3)
        BY <4>1, <3>3, <1>6 DEF HostGrows
      <4> QED BY <4>2, <4>3, <3>3, <1>6 DEF HostGrows
    <3> QED BY <3>1, <3>3, <3>4, <1>6, Sizes
  <2>2. CASE ~fin_new
    <3>1. f3 = f2 /\ h3.shut = h2.shut
      BY <2>2, <1>7, <1>8
    <3>2. GotTakes(host, h3, s.data, acc) /\ InputSame(host, h3) /\ h3.shut = host.shut
      BY <3>1, <1>4, <1>7 DEF GotTakes, InputSame
    <3>3. /\ FlowInv(f3, ring, h3, guest) /\ HostInv(h3, guest) /\ GuestInv(guest, h3)
          /\ HostGrows(host, h3) /\ Sure(f3, h3) = Sure(f1, host)
          /\ \/ Taken(h3) <= Taken(host)
             \/ s.data # <<>> /\ Taken(h3) <= End(s.data)
      BY <3>1, <3>2, <1>2, <1>5, <1>7, PayloadStep
    <3> QED BY <3>3
  <2> QED BY <2>1, <2>2
<1> HIDE DEF ack_guest
<1>10. f4 \in FlowSet /\ FlowInv(f4, ring, h3, guest) /\ Sure(f4, h3) = Sure(f3, h3)
       /\ f4.state = "Established"
  <2>1. CASE ack_guest
    <3> DEFINE x == [f3 EXCEPT !.ack_deferred = FALSE]
    <3>1. x \in FlowSet /\ DownSame(f3, x) /\ x.seq_from_guest = f3.seq_from_guest
          /\ x.guest_fin_received = f3.guest_fin_received
      BY <1>8 DEF FlowSet, DownSame
    <3> HIDE DEF x
    <3>2. x.sent_unacked <= f3.buffered
      BY <3>1, <1>9 DEF DownSame, FlowInv, FlowCounts
    <3>3. FlowInv(x, ring, h3, guest) /\ Sure(x, h3) = Sure(f3, h3)
      BY <3>1, <3>2, <1>7, <1>8, <1>9, FlowSame DEF DownSame
    <3>4. x.state = "Established"
      BY <3>1, <1>2, <1>5, <1>8 DEF DownSame
    <3> QED BY <2>1, <3>1, <3>3, <3>4 DEF x
  <2>2. CASE ~ack_guest
    BY <2>2, <1>2, <1>5, <1>8, <1>9 DEF DownSame
  <2> QED BY <2>1, <2>2
<1> HIDE DEF f4
<1>11. Delivers(f4, h3, guest, data)
  BY <1>7, <1>9, <1>10, DataStep
<1>12. data.host \in HostSet /\ HostReads(h3, data.host)
  BY <1>11 DEF Delivers
<1>13. Taken(data.host) = Taken(h3)
  BY <1>7, <1>9, <1>12, HostReadsFact
<1>14. f4.seq_from_guest = SeqOf(GuestISN, 1 + Taken(data.host))
  BY <1>10, <1>13 DEF FlowInv, FlowNumbers
<1> HIDE DEF data
<1>15. acks \in Seq(Segments)
       /\ \A i \in 1..Len(acks) : NewDown(acks[i], Rel(f4, h3), data.host, guest)
  <2>1. CASE ack_guest
    <3>1. {"ACK"} \in SUBSET Flags /\ "FIN" \notin {"ACK"}
      BY DEF Flags
    <3>2. NewDown(Control(f4, h3, {"ACK"}), Rel(f4, h3), data.host, guest)
      <4> DEFINE fl == {"ACK"}
      <4>1. fl \in SUBSET Flags /\ "FIN" \notin fl
        BY <3>1
      <4> HIDE DEF fl
      <4>2. NewDown(Control(f4, h3, fl), Rel(f4, h3), data.host, guest)
        BY <4>1, <1>7, <1>10, <1>12, <1>14, ControlNew
      <4> QED BY <4>2 DEF fl
    <3> QED BY <2>1, <3>2, OneNew
  <2>2. CASE ~ack_guest
    BY SMTT(60), <2>2, NoneNew
  <2> QED BY <2>1, <2>2
<1> HIDE DEF acks
<1>16. /\ o.t = data.t /\ o.ring = data.ring /\ o.host = data.host
       /\ o.reset = data.reset /\ o.out = acks \o data.out
  BY <1>1 DEF data, DataToGuest, Outcome
<1> HIDE DEF o
<1>17. /\ OutcomeOK(host, guest, o) /\ Sure(o.t, o.host) = Sure(f4, h3)
       /\ Taken(o.host) = Taken(h3) /\ o.t.state = f4.state
  <2>1. After(f4, host, h3, guest, data, o, acks)
    BY <1>7, <1>9, <1>10, <1>11, <1>15, <1>16 DEF After
  <2> QED BY <2>1, DeliversAfter
<1>18. Sure(o.t, o.host) <= n /\ o.t.state = "Established"
  BY <1>2, <1>9, <1>10, <1>17
<1>19. \/ Taken(o.host) <= Taken(host)
       \/ s.data # <<>> /\ Taken(o.host) <= End(s.data)
       \/ "FIN" \in s.flags /\ Taken(o.host) <= GuestLen + 1
  BY <1>9, <1>17
<1> QED BY <1>17, <1>18, <1>19 DEF o

-----------------------------------------------------------------------------
(* Handlers take effect                                                    *)

LEMMA FlowIsFlow ==
    ASSUME NEW f \in FlowSet
    PROVE  f # NoFlow
<1>1. f.state # "none"
  BY FlowFact
<1>2. NoFlow.state = "none"
  BY DEF NoFlow
<1> QED BY <1>1, <1>2

LEMMA SureIsNat ==
    ASSUME NEW f \in FlowSet, NEW r, NEW h \in HostSet, NEW g \in GuestSet,
           FlowInv(f, r, h, g)
    PROVE  /\ Rel(f, h) \in Nat /\ Sure(f, h) \in Nat
           /\ h.read <= Rel(f, h) + FRAME
           /\ Sure(f, h) <= Seen(g)
           /\ f.host_fin = "Acked" => Sure(f, h) >= 1 /\ g.fin
           /\ f.state = "Connecting" => Sure(f, h) = 0
<1>1. f.buffered <= h.read /\ (f.host_fin = "Acked" => g.fin)
      /\ (f.state = "Connecting" => h.read = 0 /\ f.host_fin = "NotSent")
      /\ Rel(f, h) <= Len(g.recv)
  BY DEF FlowInv, FlowCounts, FlowNumbers
<1>2. h.read \in Nat /\ f.buffered \in 0..FRAME
  BY HostFact, FlowFact
<1>3. Rel(f, h) = h.read - f.buffered
      /\ (f.host_fin = "Acked" => Sure(f, h) = Rel(f, h) + 1)
      /\ (f.host_fin # "Acked" => Sure(f, h) = Rel(f, h))
  BY SureFact
<1>4. Seen(g) = Len(g.recv) + Bit(g.fin) /\ Len(g.recv) \in Nat /\ Bit(g.fin) \in 0..1
      /\ (g.fin => Bit(g.fin) = 1)
  BY GuestFact, BitFact
<1>5. Rel(f, h) \in Nat /\ Sure(f, h) \in Nat /\ h.read <= Rel(f, h) + FRAME
      /\ (f.host_fin = "Acked" => Sure(f, h) >= 1 /\ g.fin)
      /\ (f.state = "Connecting" => Sure(f, h) = 0)
  BY <1>1, <1>2, <1>3, Sizes
<1>6. Sure(f, h) <= Seen(g)
  BY <1>1, <1>3, <1>4, <1>5
<1> QED BY <1>5, <1>6

LEMMA LoIsSure ==
    ASSUME t # NoFlow, host \in HostSet, guest \in GuestSet,
           FlowInv(t, ring, host, guest)
    PROVE  Lo = Sure(t, host) /\ Lo \in Nat
<1>1. t \in FlowSet
  BY DEF FlowInv
<1>2. Sure(t, host) \in Nat /\ (t.state = "Connecting" => Sure(t, host) = 0)
  BY <1>1, SureIsNat
<1>3. t.state \in {"Connecting", "Established"}
  BY <1>1, FlowFact
<1> QED BY <1>2, <1>3 DEF Lo

\* What Commit leaves behind: the flow goes on, both directions are done, or
\* the flow is reset.
Settled(o) ==
    /\ ring' \in RingSet /\ host' = o.host
    /\ DownInv(toGuest', o.host, guest)
    /\ \/ t' = o.t /\ ring' = o.ring /\ ended' = ended
       \/ /\ t' = NoFlow /\ ended' = "closed"
          /\ guest.fin /\ o.host.shut /\ Sure(o.t, o.host) >= 1
       \/ t' = NoFlow /\ ended' = "reset" /\ HostResets

LEMMA RstNew ==
    ASSUME NEW f \in FlowSet, NEW h \in HostSet, NEW lo, NEW k \in HostSet,
           NEW g \in GuestSet
    PROVE  NewDown(Control(f, h, {"RST", "ACK"}), lo, k, g)
<1> DEFINE fl == {"RST", "ACK"}
<1>1. fl \in SUBSET Flags /\ "FIN" \notin fl /\ "RST" \in fl
  BY DEF Flags
<1> HIDE DEF fl
<1>2. NewDown(Control(f, h, fl), lo, k, g)
  BY <1>1, ControlNew
<1> QED BY <1>2 DEF fl

LEMMA CommitStep ==
    ASSUME host \in HostSet, guest \in GuestSet, DownInv(toGuest, host, guest),
           NEW o, OutcomeOK(host, guest, o), NEW b \in BOOLEAN, Commit(o, b)
    PROVE  Settled(o)
<1> DEFINE lo == Rel(o.t, o.host)
<1>1. /\ o.t \in FlowSet /\ o.ring \in RingSet /\ o.host \in HostSet
      /\ FlowInv(o.t, o.ring, o.host, guest)
      /\ HostInv(o.host, guest) /\ GuestInv(guest, o.host) /\ HostGrows(host, o.host)
      /\ o.out \in Seq(Segments)
      /\ \A i \in 1..Len(o.out) : NewDown(o.out[i], lo, o.host, guest)
      /\ (o.reset => HostResets)
  BY DEF OutcomeOK
<1>2. DownInv(toGuest, o.host, guest)
  BY <1>1, DownHost
<1>3. guest.una <= Taken(o.host)
  BY <1>1 DEF GuestInv
<1>4. lo \in Int /\ o.host.read <= lo + FRAME
  BY <1>1, SureIsNat
<1> HIDE DEF lo
<1>5. ASSUME NEW segs \in Seq(Segments),
             \A i \in 1..Len(segs) : NewDown(segs[i], lo, o.host, guest)
      PROVE  DownInv(Queue(toGuest, segs), o.host, guest)
  BY <1>1, <1>2, <1>3, <1>4, <1>5, DownAppend
<1>6. CASE o.reset
  <2> DEFINE rst == Control(o.t, o.host, {"RST", "ACK"})
             segs == o.out \o <<rst>>
  <2>1. ring' = o.ring /\ host' = o.host /\ t' = NoFlow /\ ended' = "reset"
        /\ toGuest' = Queue(toGuest, segs)
    BY <1>6 DEF Commit, Reset, Drop
  <2>2. NewDown(rst, lo, o.host, guest)
    BY <1>1, RstNew
  <2> HIDE DEF rst
  <2> DEFINE one == <<rst>>
  <2>3. one \in Seq(Segments) /\ \A i \in 1..Len(one) : NewDown(one[i], lo, o.host, guest)
    BY <2>2, OneNew
  <2> HIDE DEF one
  <2>4. LET x == o.out \o one
        IN  x \in Seq(Segments) /\ \A i \in 1..Len(x) : NewDown(x[i], lo, o.host, guest)
    BY <1>1, <2>3, ConcatNew
  <2>5. segs \in Seq(Segments) /\ \A i \in 1..Len(segs) : NewDown(segs[i], lo, o.host, guest)
    BY <2>4 DEF one
  <2> HIDE DEF segs
  <2>6. DownInv(toGuest', o.host, guest)
    BY <2>1, <2>5, <1>5
  <2> QED BY <2>1, <2>6, <1>1, <1>6 DEF Settled
<1>7. CASE ~o.reset
  <2>1. ring' = o.ring /\ host' = o.host /\ toGuest' = Queue(toGuest, o.out)
        /\ \/ t' = o.t /\ ended' = ended
           \/ MaybeClose(o.t) /\ t' = NoFlow /\ ended' = "closed"
    BY <1>7 DEF Commit, Drop
  <2>2. DownInv(toGuest', o.host, guest)
    BY <2>1, <1>1, <1>5
  <2>3. MaybeClose(o.t) => guest.fin /\ o.host.shut /\ Sure(o.t, o.host) >= 1
    <3>1. o.t.guest_fin_received = o.host.shut
      BY <1>1 DEF FlowInv, FlowNumbers
    <3>2. o.t.host_fin = "Acked" => Sure(o.t, o.host) >= 1 /\ guest.fin
      BY <1>1, SureIsNat
    <3> QED BY <3>1, <3>2 DEF MaybeClose
  <2> QED BY <2>1, <2>2, <2>3, <1>1 DEF Settled
<1> QED BY <1>6, <1>7

-----------------------------------------------------------------------------
(* The life of the connection                                              *)

\* A queue whose SYNs are among those of q.
SynsOf(p, q) ==
    /\ SynQueued(p) => SynQueued(q)
    /\ OneSyn(q) => OneSyn(p)

LEMMA SynTail ==
    ASSUME NEW q \in Seq(Segments), q # <<>>
    PROVE  SynsOf(Tail(q), q)
<1> DEFINE p == Tail(q)
<1>1. /\ Len(q) \in Nat /\ Len(p) = Len(q) - 1
      /\ \A i \in 1..Len(p) : p[i] = q[i + 1] /\ i + 1 \in 1..Len(q)
  BY TailFact
<1> HIDE DEF p
<1>2. SynQueued(p) => SynQueued(q)
  BY <1>1 DEF SynQueued
<1>3. ASSUME OneSyn(q), NEW i \in 1..Len(p), NEW j \in 1..Len(p),
             "SYN" \in p[i].flags, "SYN" \in p[j].flags
      PROVE  i = j
  <2>1. i \in Int /\ j \in Int
    BY <1>1
  <2>2. i + 1 \in 1..Len(q) /\ j + 1 \in 1..Len(q)
        /\ "SYN" \in q[i + 1].flags /\ "SYN" \in q[j + 1].flags
    BY <1>1, <1>3
  <2>3. i + 1 = j + 1
    BY <2>2, <1>3 DEF OneSyn
  <2> QED BY <2>1, <2>3
<1> QED BY <1>2, <1>3 DEF SynsOf, OneSyn, p

LEMMA SynAppend ==
    ASSUME NEW q \in Seq(Segments), Len(q) <= TapQueue, NEW segs \in Seq(Segments),
           \A i \in 1..Len(segs) : "SYN" \notin segs[i].flags
    PROVE  SynsOf(Queue(q, segs), q)
<1> DEFINE p == Queue(q, segs)
<1>1. /\ Len(q) \in Nat /\ Len(p) \in Nat /\ Len(q) <= Len(p)
      /\ \A i \in 1..Len(q) : p[i] = q[i]
      /\ \A i \in 1..Len(p) : i > Len(q) =>
            i - Len(q) \in 1..Len(segs) /\ p[i] = segs[i - Len(q)]
  BY QueueFact, LenProperties
<1> HIDE DEF p
<1>2. ASSUME NEW i \in 1..Len(p), "SYN" \in p[i].flags
      PROVE  i \in 1..Len(q) /\ "SYN" \in q[i].flags
  <2>1. ~(i > Len(q))
    <3> SUFFICES ASSUME i > Len(q) PROVE FALSE
      OBVIOUS
    <3>1. i - Len(q) \in 1..Len(segs) /\ p[i] = segs[i - Len(q)]
      BY <1>1
    <3>2. "SYN" \notin segs[i - Len(q)].flags
      BY <3>1
    <3> QED BY <3>1, <3>2, <1>2
  <2>2. i \in 1..Len(q)
    BY <2>1, <1>1
  <2> QED BY <2>2, <1>1, <1>2
<1> QED BY <1>2 DEF SynsOf, OneSyn, SynQueued, p

\* Once the flow is sure of something, no SYN is on its way any more.
LEMMA NoSynLeft ==
    ASSUME NEW q, NEW h \in HostSet, NEW g \in GuestSet, NEW lo \in Int,
           UpInv(q, h, g, lo), lo >= 1
    PROVE  ~SynQueued(q)
<1> SUFFICES ASSUME NEW i \in 1..Len(q), "SYN" \in q[i].flags PROVE FALSE
  BY DEF SynQueued
<1>1. PICK R \in [1..Len(q) -> Nat] : \A j \in 1..Len(q) : UpAck(q[j], R[j], lo, g)
  BY DEF UpInv, UpAcks
<1>2. lo <= R[i] /\ R[i] = 0
  BY <1>1 DEF UpAck
<1> QED BY <1>2

LEMMA IInvFact ==
    ASSUME IInv
    PROVE  /\ host \in HostSet /\ guest \in GuestSet /\ ring \in RingSet
           /\ HostInv(host, guest) /\ GuestInv(guest, host)
           /\ DownInv(toGuest, host, guest) /\ UpInv(toPresto, host, guest, Lo)
           /\ t # NoFlow => t \in FlowSet /\ FlowInv(t, ring, host, guest) /\ Lo = Sure(t, host)
           /\ t = NoFlow => Lo = 0
           /\ Lo \in Nat
           /\ toPresto \in Seq(Segments) /\ Len(toPresto) <= TapQueue
           /\ toGuest \in Seq(Segments) /\ Len(toGuest) <= TapQueue
           /\ Life
<1>1. host \in HostSet /\ guest \in GuestSet /\ toPresto \in Seq(Segments)
      /\ toGuest \in Seq(Segments) /\ Len(toPresto) <= TapQueue /\ Len(toGuest) <= TapQueue
  BY DEF IInv, HostInv, GuestInv, UpInv, DownInv
<1>2. t # NoFlow => t \in FlowSet /\ FlowInv(t, ring, host, guest) /\ Lo = Sure(t, host)
                    /\ Lo \in Nat
  BY <1>1, LoIsSure DEF IInv, FlowInv
<1>3. t = NoFlow => Lo = 0
  BY DEF Lo
<1> QED BY <1>1, <1>2, <1>3 DEF IInv

\* A handler's outcome has taken effect, and no SYN has been added.
LEMMA Concludes ==
    ASSUME IInv, t # NoFlow, NEW o, OutcomeOK(host, guest, o),
           Settled(o), guest' = guest, SynsOf(toPresto', toPresto),
           UpInv(toPresto', o.host, guest, Sure(o.t, o.host))
    PROVE  IInv'
<1>1. /\ host \in HostSet /\ guest \in GuestSet /\ GuestInv(guest, host) /\ Life
  BY IInvFact
<1>2. /\ o.t \in FlowSet /\ o.host \in HostSet /\ FlowInv(o.t, o.ring, o.host, guest)
      /\ HostInv(o.host, guest) /\ GuestInv(guest, o.host)
  BY DEF OutcomeOK
<1>3. /\ ring' \in RingSet /\ host' = o.host /\ DownInv(toGuest', o.host, guest)
  BY DEF Settled
<1>4. o.t # NoFlow /\ Sure(o.t, o.host) \in Nat
  <2>1. o.t # NoFlow
    BY <1>2, FlowIsFlow
  <2>2. Sure(o.t, o.host) \in Nat
    BY <1>1, <1>2, SureIsNat
  <2> QED BY <2>1, <2>2
<1>5. ended = "no" /\ guest.state # "Closed"
  BY <1>1 DEF Life, OneFlow
<1>6. \/ t' = o.t /\ ring' = o.ring /\ ended' = "no"
      \/ /\ t' = NoFlow /\ ended' = "closed"
         /\ guest.fin /\ o.host.shut /\ Sure(o.t, o.host) >= 1
      \/ t' = NoFlow /\ ended' = "reset" /\ HostResets
  BY <1>5 DEF Settled
<1>7. t' # NoFlow => FlowInv(t', ring', host', guest')
  BY <1>2, <1>3, <1>4, <1>6
<1>8. Lo' \in Int /\ Lo' <= Sure(o.t, o.host)
  <2>1. Lo' \in {0, Sure(o.t, o.host)}
    BY <1>3, <1>6 DEF Lo
  <2> QED BY <2>1, <1>4
<1>9. UpInv(toPresto', host', guest', Lo')
  <2>1. GuestMoves(guest, guest)
    <3>1. guest.nxt \in Nat /\ Seen(guest) \in Nat /\ Edge(guest) + Bit(guest.fin) \in Nat
          /\ guest.nxt <= GuestLen + 1
      BY SMTT(60), <1>1, GuestFact DEF GuestInv
    <3> QED BY <3>1 DEF GuestMoves
  <2>2. Taken(o.host) <= Taken(o.host) /\ Sure(o.t, o.host) \in Int
    BY <1>2, <1>4, HostFact
  <2>3. UpInv(toPresto', o.host, guest, Lo')
    BY <1>1, <1>2, <1>8, <2>1, <2>2, UpMove
  <2> QED BY <2>3, <1>3
<1>10. Life'
  <2>1. ended' \in {"no", "closed", "reset"} /\ ~(t' = NoFlow /\ ended' = "no")
        /\ (ended' # "no" => t' = NoFlow)
    BY <1>4, <1>6
  <2>2. ended' = "closed" => ~SynQueued(toPresto') /\ guest'.state # "SynSent"
                             /\ guest'.fin /\ host'.shut
    <3> SUFFICES ASSUME ended' = "closed"
                 PROVE  ~SynQueued(toPresto') /\ guest.state # "SynSent"
                        /\ guest.fin /\ o.host.shut
      BY <1>3
    <3>1. guest.fin /\ o.host.shut /\ Sure(o.t, o.host) >= 1
      BY <1>6
    <3>2. ~SynQueued(toPresto')
      BY <3>1, <1>1, <1>2, <1>4, NoSynLeft
    <3>3. guest.state # "SynSent"
      BY <3>1, <1>1 DEF GuestInv
    <3> QED BY <3>1, <3>2, <3>3
  <2>3. ~SynRetries => ~SynQueued(toPresto') /\ OneSyn(toPresto')
    BY <1>1 DEF Life, SynsOf
  <2>4. ended' = "reset" /\ OneConnection => ~SynRetries
    BY <1>6 DEF OneConnection
  <2>5. guest'.state # "Closed"
    BY <1>5
  <2> QED BY <2>1, <2>2, <2>3, <2>4, <2>5 DEF Life, OneFlow
<1> QED BY <1>2, <1>3, <1>7, <1>9, <1>10 DEF IInv

\* An outcome that has only written frames.
LEMMA BareOutcome ==
    ASSUME NEW f \in FlowSet, NEW r \in RingSet, NEW h \in HostSet, NEW g \in GuestSet,
           FlowInv(f, r, h, g), HostInv(h, g), GuestInv(g, h),
           NEW a \in Seq(Segments), \A i \in 1..Len(a) : NewDown(a[i], Rel(f, h), h, g),
           NEW x, x.t = f, x.ring = r, x.host = h, x.out = a,
           x.reset \in BOOLEAN, x.reset => HostResets
    PROVE  OutcomeOK(h, g, x)
<1>1. HostGrows(h, h)
  BY HostFact DEF HostGrows
<1> QED BY <1>1 DEF OutcomeOK

LEMMA DeliversAlone ==
    ASSUME NEW f \in FlowSet, NEW h \in HostSet, NEW g \in GuestSet,
           HostInv(h, g), GuestInv(g, h), NEW o, Delivers(f, h, g, o)
    PROVE  /\ OutcomeOK(h, g, o) /\ Sure(o.t, o.host) = Sure(f, h)
           /\ Taken(o.host) = Taken(h)
<1>1. o.host \in HostSet /\ HostReads(h, o.host) /\ Rel(o.t, o.host) = Rel(f, h)
  BY DEF Delivers
<1>2. HostInv(o.host, g) /\ GuestInv(g, o.host) /\ HostGrows(h, o.host)
      /\ Taken(o.host) = Taken(h)
  BY <1>1, HostReadsFact
<1>3. o.reset => HostResets
  BY DEF Delivers, HostInv
<1> QED BY <1>1, <1>2, <1>3 DEF Delivers, OutcomeOK

LEMMA SynsSame ==
    ASSUME NEW q
    PROVE  SynsOf(q, q)
  BY DEF SynsOf

\* A handler that takes no frame off the tap.
LEMMA CommitInv ==
    ASSUME IInv, t # NoFlow, NEW o, OutcomeOK(host, guest, o),
           Sure(o.t, o.host) = Sure(t, host), Taken(o.host) = Taken(host),
           NEW b \in BOOLEAN, Commit(o, b), guest' = guest, toPresto' = toPresto
    PROVE  IInv'
<1>1. /\ host \in HostSet /\ guest \in GuestSet /\ GuestInv(guest, host)
      /\ DownInv(toGuest, host, guest) /\ UpInv(toPresto, host, guest, Lo)
      /\ Lo = Sure(t, host) /\ Lo \in Nat
  BY IInvFact
<1>2. Settled(o)
  BY <1>1, CommitStep
<1>3. o.host \in HostSet
  BY DEF OutcomeOK
<1>4. UpInv(toPresto, o.host, guest, Lo)
  <2>1. GuestMoves(guest, guest)
    <3>1. guest.nxt \in Nat /\ Seen(guest) \in Nat /\ Edge(guest) + Bit(guest.fin) \in Nat
          /\ guest.nxt <= GuestLen + 1
      BY SMTT(60), <1>1, GuestFact DEF GuestInv
    <3> QED BY <3>1 DEF GuestMoves
  <2>2. Taken(o.host) <= Taken(host) /\ Lo \in Int /\ Lo <= Lo
    BY <1>1, HostFact
  <2> QED BY <1>1, <1>3, <2>1, <2>2, UpMove
<1>5. UpInv(toPresto', o.host, guest, Sure(o.t, o.host))
  BY <1>1, <1>4
<1>6. SynsOf(toPresto', toPresto)
  BY SynsSame
<1> QED BY <1>2, <1>5, <1>6, Concludes

-----------------------------------------------------------------------------
(* Each action keeps the invariant: presto                                 *)

LEMMA ResetKeeps ==
    ASSUME IInv, t # NoFlow, NEW f \in FlowSet, FlowInv(f, ring, host, guest),
           Sure(f, host) = Sure(t, host), HostResets,
           Reset(f, ring, host, <<>>), guest' = guest, toPresto' = toPresto
    PROVE  IInv'
<1> DEFINE o == [t |-> f, ring |-> ring, host |-> host, out |-> <<>>, reset |-> TRUE]
<1>1. /\ host \in HostSet /\ guest \in GuestSet /\ ring \in RingSet
      /\ HostInv(host, guest) /\ GuestInv(guest, host)
  BY IInvFact
<1>2. Commit(o, TRUE)
  BY DEF Commit
<1>3. o.t = f /\ o.ring = ring /\ o.host = host /\ o.out = <<>> /\ o.reset = TRUE
  OBVIOUS
<1> HIDE DEF o
<1>4. OutcomeOK(host, guest, o)
  <2> DEFINE a == <<>>
  <2>1. a \in Seq(Segments) /\ \A i \in 1..Len(a) : NewDown(a[i], Rel(f, host), host, guest)
    BY NoneNew
  <2>2. o.out = a
    BY <1>3
  <2> HIDE DEF a
  <2> QED BY <1>1, <1>3, <2>1, <2>2, BareOutcome
<1>5. Sure(o.t, o.host) = Sure(t, host) /\ Taken(o.host) = Taken(host)
  BY <1>3
<1> QED BY <1>2, <1>4, <1>5, CommitInv

LEMMA SocketReadyKeeps ==
    ASSUME IInv, SocketReady
    PROVE  IInv'
<1> DEFINE f == [t EXCEPT !.poll_armed = FALSE]
<1>1. t.state = "Established" /\ guest' = guest /\ toPresto' = toPresto
      /\ IF host.reset THEN Reset(f, ring, host, <<>>)
         ELSE Commit(DataToGuest(f, ring, host), TRUE)
  BY DEF SocketReady
<1>2. t # NoFlow
  BY <1>1 DEF NoFlow
<1>3. /\ host \in HostSet /\ guest \in GuestSet /\ ring \in RingSet
      /\ HostInv(host, guest) /\ GuestInv(guest, host)
      /\ t \in FlowSet /\ FlowInv(t, ring, host, guest)
  BY <1>2, IInvFact
<1>4. /\ f \in FlowSet
      /\ f.sent_unacked = t.sent_unacked /\ f.buffered = t.buffered
      /\ f.buf_head = t.buf_head /\ f.host_eof = t.host_eof
      /\ f.host_fin = t.host_fin /\ f.guest_window = t.guest_window
      /\ f.seq_from_guest = t.seq_from_guest /\ f.seq_una = t.seq_una
      /\ f.guest_fin_received = t.guest_fin_received /\ f.state = t.state
  BY <1>3 DEF FlowSet
<1> HIDE DEF f
<1>5. f.sent_unacked <= t.buffered
  BY <1>3, <1>4 DEF FlowInv, FlowCounts
<1>6. FlowInv(f, ring, host, guest) /\ Sure(f, host) = Sure(t, host)
  BY <1>3, <1>4, <1>5, FlowSame
<1>7. CASE host.reset
  <2>1. HostResets
    BY <1>3, <1>7 DEF HostInv
  <2>2. Reset(f, ring, host, <<>>)
    BY <1>1, <1>7
  <2> QED BY <1>1, <1>2, <1>4, <1>6, <2>1, <2>2, ResetKeeps
<1>8. CASE ~host.reset
  <2> DEFINE o == DataToGuest(f, ring, host)
  <2>1. Delivers(f, host, guest, o)
    BY <1>3, <1>4, <1>6, DataStep
  <2>2. Commit(o, TRUE)
    BY <1>1, <1>8
  <2> HIDE DEF o
  <2>3. /\ OutcomeOK(host, guest, o) /\ Sure(o.t, o.host) = Sure(f, host)
        /\ Taken(o.host) = Taken(host)
    BY <1>3, <1>4, <2>1, DeliversAlone
  <2> QED BY <1>1, <1>2, <1>6, <2>2, <2>3, CommitInv
<1> QED BY <1>7, <1>8

\* The ack that tcp_periodic sends for data whose ack was withheld.
LEMMA OwedAck ==
    ASSUME NEW f \in FlowSet, NEW r, NEW h \in HostSet, NEW k \in HostSet,
           NEW g \in GuestSet, FlowInv(f, r, h, g), Taken(k) = Taken(h), NEW lo
    PROVE  LET a == IF f.ack_deferred THEN <<Control(f, h, {"ACK"})>> ELSE <<>>
           IN  a \in Seq(Segments) /\ \A i \in 1..Len(a) : NewDown(a[i], lo, k, g)
<1> DEFINE fl == {"ACK"}
           s == Control(f, h, fl)
<1>1. fl \in SUBSET Flags /\ "FIN" \notin fl
  BY DEF Flags
<1>2. f.seq_from_guest = SeqOf(GuestISN, 1 + Taken(k))
  BY DEF FlowInv, FlowNumbers
<1> HIDE DEF fl
<1>3. NewDown(s, lo, k, g)
  BY <1>1, <1>2, ControlNew
<1> HIDE DEF s
<1>4. <<s>> \in Seq(Segments) /\ \A i \in 1..Len(<<s>>) : NewDown(<<s>>[i], lo, k, g)
  BY <1>3, OneNew
<1>5. <<>> \in Seq(Segments) /\ \A i \in 1..Len(<<>>) : NewDown(<<>>[i], lo, k, g)
  BY NoneNew
<1> QED BY <1>4, <1>5 DEF s, fl

LEMMA PeriodicKeeps ==
    ASSUME IInv, Periodic
    PROVE  IInv'
<1> DEFINE f == [t EXCEPT !.ack_deferred = FALSE]
           acks == IF t.ack_deferred THEN <<Control(t, host, {"ACK"})>> ELSE <<>>
           Sent(segs) == Outcome(f, ring, host, acks \o segs)
           again == [f EXCEPT !.sent_unacked = 0, !.dup_acks = 0]
           data == DataToGuest(again, ring, host)
<1>1. t # NoFlow /\ guest' = guest /\ toPresto' = toPresto
  BY DEF Periodic
<1>2. \/ Commit(Sent(<<>>), FALSE)
      \/ Commit([data EXCEPT !.out = acks \o @], FALSE)
      \/ /\ t.sent_unacked = 0 /\ t.host_fin = "Sent"
         /\ Commit(Sent(<<Control(t, host, {"FIN", "ACK"})>>), FALSE)
      \/ Commit(Sent(<<Probe(t, host)>>), FALSE)
  BY DEF Periodic
<1>3. /\ host \in HostSet /\ guest \in GuestSet /\ ring \in RingSet
      /\ HostInv(host, guest) /\ GuestInv(guest, host)
      /\ t \in FlowSet /\ FlowInv(t, ring, host, guest)
  BY <1>1, IInvFact
<1>4. /\ f \in FlowSet
      /\ f.sent_unacked = t.sent_unacked /\ f.buffered = t.buffered
      /\ f.buf_head = t.buf_head /\ f.host_eof = t.host_eof
      /\ f.host_fin = t.host_fin /\ f.guest_window = t.guest_window
      /\ f.seq_from_guest = t.seq_from_guest /\ f.seq_una = t.seq_una
      /\ f.guest_fin_received = t.guest_fin_received /\ f.state = t.state
  BY <1>3 DEF FlowSet
<1> HIDE DEF f
<1>5. FlowInv(f, ring, host, guest) /\ Sure(f, host) = Sure(t, host)
      /\ Rel(f, host) = Rel(t, host)
  <2>1. f.sent_unacked <= t.buffered
    BY <1>3, <1>4 DEF FlowInv, FlowCounts
  <2> QED BY <1>3, <1>4, <2>1, FlowSame
<1>6. acks \in Seq(Segments)
      /\ \A i \in 1..Len(acks) : NewDown(acks[i], Rel(f, host), host, guest)
  BY <1>3, OwedAck
<1>7. ASSUME NEW segs \in Seq(Segments),
             \A i \in 1..Len(segs) : NewDown(segs[i], Rel(f, host), host, guest),
             Commit(Sent(segs), FALSE)
      PROVE  IInv'
  <2> DEFINE o == Sent(segs)
             out == acks \o segs
  <2>1. out \in Seq(Segments)
        /\ \A i \in 1..Len(out) : NewDown(out[i], Rel(f, host), host, guest)
    <3> HIDE DEF acks
    <3> QED BY <1>6, <1>7, ConcatNew
  <2>2. o.t = f /\ o.ring = ring /\ o.host = host /\ o.out = out /\ o.reset = FALSE
    BY DEF Outcome
  <2>3. Commit(o, FALSE)
    BY <1>7
  <2> HIDE DEF o, out
  <2>4. OutcomeOK(host, guest, o)
    BY <1>3, <1>4, <1>5, <2>1, <2>2, BareOutcome
  <2>5. Sure(o.t, o.host) = Sure(t, host) /\ Taken(o.host) = Taken(host)
    BY <2>2, <1>5
  <2> QED BY <1>1, <2>3, <2>4, <2>5, CommitInv
<1>8. ASSUME NEW s, NewDown(s, Rel(f, host), host, guest), Commit(Sent(<<s>>), FALSE)
      PROVE  IInv'
  <2> DEFINE one == <<s>>
  <2>1. one \in Seq(Segments)
        /\ \A i \in 1..Len(one) : NewDown(one[i], Rel(f, host), host, guest)
    BY <1>8, OneNew
  <2>2. Commit(Sent(one), FALSE)
    BY <1>8
  <2> HIDE DEF one, Sent
  <2> QED BY <2>1, <2>2, <1>7
<1>9. CASE Commit(Sent(<<>>), FALSE)
  <2> DEFINE none == <<>>
  <2>1. none \in Seq(Segments)
        /\ \A i \in 1..Len(none) : NewDown(none[i], Rel(f, host), host, guest)
    BY NoneNew
  <2>2. Commit(Sent(none), FALSE)
    BY <1>9
  <2> HIDE DEF none, Sent
  <2> QED BY <2>1, <2>2, <1>7
<1>10. CASE Commit([data EXCEPT !.out = acks \o @], FALSE)
  <2> DEFINE x == [data EXCEPT !.out = acks \o @]
  <2>1. /\ again \in FlowSet /\ again.sent_unacked = 0
        /\ again.buffered = f.buffered
        /\ again.buf_head = f.buf_head /\ again.host_eof = f.host_eof
        /\ again.host_fin = f.host_fin /\ again.guest_window = f.guest_window
        /\ again.seq_from_guest = f.seq_from_guest /\ again.seq_una = f.seq_una
        /\ again.guest_fin_received = f.guest_fin_received /\ again.state = f.state
    <3>1. 0 \in 0..FRAME /\ 0 \in 0..2
      BY Sizes
    <3> QED BY <3>1, <1>4 DEF FlowSet
  <2> HIDE DEF again
  <2>2. again.sent_unacked <= f.buffered
    BY <1>4, <2>1, FlowFact
  <2>3. FlowInv(again, ring, host, guest) /\ Sure(again, host) = Sure(f, host)
    BY <1>3, <1>4, <1>5, <2>1, <2>2, FlowSame
  <2>4. Delivers(again, host, guest, data)
    BY SMTT(60), <1>3, <2>1, <2>3, DataStep
  <2>5. /\ x.t = data.t /\ x.ring = data.ring /\ x.host = data.host
        /\ x.reset = data.reset /\ x.out = acks \o data.out
    BY DEF DataToGuest, Outcome
  <2> HIDE DEF data
  <2>6. Taken(data.host) = Taken(host) /\ data.host \in HostSet
    BY <1>3, <2>1, <2>4, DeliversAlone DEF Delivers
  <2>7. acks \in Seq(Segments)
        /\ \A i \in 1..Len(acks) : NewDown(acks[i], Rel(again, host), data.host, guest)
    BY <1>3, <2>6, OwedAck
  <2>8. HostGrows(host, host)
    BY <1>3, HostFact DEF HostGrows
  <2>9. Commit(x, FALSE)
    BY <1>10
  <2> HIDE DEF x, acks
  <2>10. /\ OutcomeOK(host, guest, x) /\ Sure(x.t, x.host) = Sure(again, host)
         /\ Taken(x.host) = Taken(host)
    <3>1. again \in FlowSet /\ host \in HostSet /\ guest \in GuestSet
          /\ HostInv(host, guest) /\ GuestInv(guest, host)
      BY <1>3, <2>1
    <3>2. After(again, host, host, guest, data, x, acks)
      BY <3>1, <2>4, <2>5, <2>7, <2>8 DEF After
    <3> QED BY <3>2, DeliversAfter
  <2> QED BY <1>1, <1>5, <2>3, <2>9, <2>10, CommitInv
<1>11. CASE /\ t.sent_unacked = 0 /\ t.host_fin = "Sent"
            /\ Commit(Sent(<<Control(t, host, {"FIN", "ACK"})>>), FALSE)
  <2>1. t.host_eof /\ t.buffered = 0 /\ t.state # "Connecting"
    BY <1>3, <1>11 DEF FlowInv, FlowCounts, FlowNumbers
  <2>2. t.state = "Established"
    BY <1>3, <2>1, FlowFact
  <2>3. NewDown(Control(t, host, {"FIN", "ACK"}), Rel(f, host), host, guest)
    BY <1>3, <1>11, <2>1, <2>2, FinNew
  <2> HIDE DEF Sent
  <2> QED BY <1>8, <1>11, <2>3
<1>12. CASE Commit(Sent(<<Probe(t, host)>>), FALSE)
  <2> DEFINE fl == {"ACK"}
             seq == t.seq_una - 1
             win == WindowToGuest(host)
  <2>1. fl \in SUBSET Flags /\ "FIN" \notin fl
    BY DEF Flags
  <2>2. seq \in Int /\ win \in 0..SndBuf
    BY <1>3, FlowFact, WindowFact
  <2>3. t.seq_from_guest = SeqOf(GuestISN, 1 + Taken(host))
    BY <1>3 DEF FlowInv, FlowNumbers
  <2> HIDE DEF fl, seq, win
  <2>4. NewDown(Segment(seq, t.seq_from_guest, win, fl, <<>>), Rel(f, host), host, guest)
    BY <1>3, <2>1, <2>2, <2>3, BareNew
  <2>5. NewDown(Probe(t, host), Rel(f, host), host, guest)
    BY <2>4 DEF Probe, fl, seq, win
  <2> HIDE DEF Sent
  <2> QED BY <1>8, <1>12, <2>5
<1> HIDE DEF Sent, data, acks
<1> QED BY <1>2, <1>9, <1>10, <1>11, <1>12

\* send_syn_ack: the flow is established anew, and nothing is acknowledged.
SynAcked(f, e) ==
    /\ e.state = "Established" /\ e.seq_una = SeqOf(TCP_ISN, 1)
    /\ e.sent_unacked \in {0, f.sent_unacked}
    /\ e.buffered = f.buffered /\ e.buf_head = f.buf_head
    /\ e.host_eof = f.host_eof /\ e.host_fin = f.host_fin
    /\ e.guest_window = f.guest_window /\ e.seq_from_guest = f.seq_from_guest
    /\ e.guest_fin_received = f.guest_fin_received

SynAckOut(x, f, e, r, k) ==
    /\ x.t = e /\ x.ring = r /\ x.host = k
    /\ x.out = <<SynAck(f)>> /\ x.reset = FALSE

LEMMA SynAckOutcome ==
    ASSUME NEW f \in FlowSet, NEW r \in RingSet, NEW h \in HostSet, NEW k \in HostSet,
           NEW g \in GuestSet, FlowInv(f, r, h, g), HostInv(h, g), GuestInv(g, h),
           Sure(f, h) = 0, HostReads(h, k), k.read = h.read,
           NEW e \in FlowSet, SynAcked(f, e),
           NEW x, SynAckOut(x, f, e, r, k)
    PROVE  OutcomeOK(h, g, x) /\ Sure(e, k) = 0 /\ Taken(k) = Taken(h)
<1> USE DEF SynAckOut
<1>1. /\ HostInv(k, g) /\ GuestInv(g, k) /\ HostGrows(h, k) /\ Taken(k) = Taken(h)
  BY HostReadsFact
<1>2. Rel(e, k) = Rel(f, h) /\ Sure(e, k) = 0
  BY DEF Rel, Sure, SynAcked
<1>3. FlowInv(e, r, k, g)
  <2>1. e.sent_unacked <= e.buffered
    BY FlowFact DEF FlowInv, FlowCounts, SynAcked
  <2>2. FlowCounts(e, k, g)
    BY <1>2, <2>1 DEF FlowInv, FlowCounts, SynAcked, HostReads
  <2>3. FlowNumbers(e, k)
    <3>1. SeqOf(TCP_ISN, 1 + 0) = SeqOf(TCP_ISN, 1)
      OBVIOUS
    <3> QED BY <1>1, <1>2, <3>1 DEF FlowInv, FlowNumbers, SynAcked, HostReads
  <2>4. RingInv(e, r, k)
    BY <1>2 DEF FlowInv, RingInv, SynAcked
  <2> QED BY <2>2, <2>3, <2>4 DEF FlowInv
<1>4. NewDown(SynAck(f), Rel(e, k), k, g)
  <2> DEFINE fl == {"SYN", "ACK"}
  <2>1. fl \in SUBSET Flags /\ "FIN" \notin fl
    BY DEF Flags
  <2>2. TCP_ISN \in Int /\ SndBuf \in 0..SndBuf
    BY Sizes
  <2>3. f.seq_from_guest = SeqOf(GuestISN, 1 + Taken(k))
    BY <1>1 DEF FlowInv, FlowNumbers
  <2> HIDE DEF fl
  <2>4. NewDown(Segment(TCP_ISN, f.seq_from_guest, SndBuf, fl, <<>>), Rel(e, k), k, g)
    BY <2>1, <2>2, <2>3, BareNew
  <2> QED BY <2>4 DEF SynAck, fl
<1>5. x.out \in Seq(Segments)
      /\ \A i \in 1..Len(x.out) : NewDown(x.out[i], Rel(e, k), k, g)
  BY <1>4, OneNew
<1> QED BY <1>1, <1>2, <1>3, <1>5 DEF OutcomeOK

LEMMA ConnectReadyKeeps ==
    ASSUME IInv, ConnectReady
    PROVE  IInv'
<1>1. t.state = "Connecting" /\ guest' = guest /\ toPresto' = toPresto
  BY DEF ConnectReady
<1>2. t # NoFlow
  BY <1>1 DEF NoFlow
<1>3. /\ host \in HostSet /\ guest \in GuestSet /\ ring \in RingSet
      /\ HostInv(host, guest) /\ GuestInv(guest, host)
      /\ t \in FlowSet /\ FlowInv(t, ring, host, guest)
  BY <1>2, IInvFact
<1>4. CASE HostResets /\ Reset(t, ring, host, <<>>)
  BY <1>1, <1>2, <1>3, <1>4, ResetKeeps
<1>5. CASE /\ t' = AfterSynAck([t EXCEPT !.state = "Established"])
           /\ host' = [host EXCEPT !.up = TRUE]
           /\ toGuest' = Queue(toGuest, <<SynAck(t)>>)
           /\ UNCHANGED <<ring, ended>>
  <2> DEFINE e == AfterSynAck([t EXCEPT !.state = "Established"])
             k == [host EXCEPT !.up = TRUE]
             o == Outcome(e, ring, k, <<SynAck(t)>>)
  <2>1. e \in FlowSet /\ SynAcked(t, e)
    <3>1. SeqOf(TCP_ISN, 1) \in 0..SeqMod-1
      BY Sizes, SeqOfType, 1 \in Int
    <3> QED BY <3>1, <1>3 DEF AfterSynAck, FlowSet, SynAcked
  <2>2. k \in HostSet /\ HostReads(host, k) /\ k.read = host.read
    <3>1. k \in HostSet /\ k.read = host.read /\ k.written = host.written
          /\ k.eof = host.eof /\ k.reset = host.reset /\ k.got = host.got
          /\ k.outq = host.outq /\ k.shut = host.shut
      BY <1>3 DEF HostSet
    <3>2. host.read <= host.written /\ host.read \in Nat
      BY <1>3, HostFact DEF HostInv
    <3> QED BY <3>1, <3>2 DEF HostReads
  <2>3. SynAckOut(o, t, e, ring, k)
    BY DEF Outcome, SynAckOut
  <2>4. Commit(o, FALSE)
    BY <1>5, <2>3 DEF Commit, SynAckOut
  <2>5. Sure(t, host) = 0
    BY <1>1, <1>3, SureIsNat
  <2> HIDE DEF e, k, o
  <2>6. OutcomeOK(host, guest, o) /\ Sure(e, k) = 0 /\ Taken(k) = Taken(host)
    BY <1>3, <2>1, <2>2, <2>3, <2>5, SynAckOutcome
  <2>7. o.t = e /\ o.host = k
    BY <2>3 DEF SynAckOut
  <2> QED BY <1>1, <1>2, <2>4, <2>5, <2>6, <2>7, CommitInv
<1> QED BY <1>4, <1>5 DEF ConnectReady

\* A frame from the guest is taken off the queue.
LEMMA HeadFact ==
    ASSUME IInv, toPresto # <<>>
    PROVE  LET s == toPresto[1]
           IN  /\ s = Head(toPresto) /\ s \in Segments /\ UpSeg(s, host, guest)
               /\ Len(toPresto) \in Nat \ {0} /\ 1 \in 1..Len(toPresto)
               /\ \E n \in Nat : UpAck(s, n, Lo, guest)
               /\ guest.state # "Closed"
               /\ SynsOf(Tail(toPresto), toPresto)
               /\ "SYN" \in s.flags => SynQueued(toPresto)
<1>1. toPresto \in Seq(Segments) /\ UpInv(toPresto, host, guest, Lo) /\ Life
  BY IInvFact
<1>2. /\ Len(toPresto) \in Nat \ {0} /\ Head(toPresto) = toPresto[1]
      /\ toPresto[1] \in Segments
  BY <1>1, TailFact
<1>3. 1 \in 1..Len(toPresto)
  BY <1>2
<1>4. UpSeg(toPresto[1], host, guest)
  BY <1>1, <1>3 DEF UpInv
<1>5. \E n \in Nat : UpAck(toPresto[1], n, Lo, guest)
  <2>1. PICK R \in [1..Len(toPresto) -> Nat] :
           \A i \in 1..Len(toPresto) : UpAck(toPresto[i], R[i], Lo, guest)
    BY <1>1 DEF UpInv, UpAcks
  <2>2. R[1] \in Nat /\ UpAck(toPresto[1], R[1], Lo, guest)
    BY <2>1, <1>3
  <2> QED BY <2>2
<1>6. SynsOf(Tail(toPresto), toPresto)
  BY <1>1, SynTail
<1>7. guest.state # "Closed"
  BY <1>1 DEF Life
<1>8. "SYN" \in toPresto[1].flags => SynQueued(toPresto)
  BY <1>3 DEF SynQueued
<1> QED BY <1>2, <1>3, <1>4, <1>5, <1>6, <1>7, <1>8

\* It is taken off without effect on host or guest.
LEMMA TailInv ==
    ASSUME IInv, toPresto # <<>>, NEW lo \in Int, lo <= Lo
    PROVE  UpInv(Tail(toPresto), host, guest, lo)
<1>1. /\ host \in HostSet /\ guest \in GuestSet /\ UpInv(toPresto, host, guest, Lo)
      /\ Lo \in Int
  BY IInvFact
<1>2. Taken(host) <= Taken(host)
  BY <1>1, HostFact
<1>3. ASSUME NEW r \in Nat, UpAck(toPresto[1], r, Lo, guest) PROVE lo <= r
  BY <1>1, <1>3 DEF UpAck
<1> QED BY <1>1, <1>2, <1>3, UpReceive

LEMMA FrameIgnored ==
    ASSUME IInv, toPresto # <<>>, toPresto' = Tail(toPresto),
           UNCHANGED <<t, ring, host, toGuest, guest, ended>>
    PROVE  IInv'
<1>1. /\ SynsOf(Tail(toPresto), toPresto) /\ guest.state # "Closed" /\ Life
      /\ toPresto \in Seq(Segments) /\ Lo \in Int
  BY HeadFact, IInvFact
<1>2. Lo' = Lo
  BY DEF Lo
<1>3. UpInv(toPresto', host', guest', Lo')
  BY <1>1, <1>2, TailInv
<1>4. NotBegun => NotBegun'
  <2>1. \A i \in 1..Len(Tail(toPresto)) :
           Tail(toPresto)[i] = toPresto[i + 1] /\ i + 1 \in 1..Len(toPresto)
    BY <1>1, TailFact
  <2> QED BY <2>1 DEF NotBegun
<1>5. Life'
  BY <1>1, <1>4 DEF Life, OneFlow, SynsOf
<1> QED BY <1>3, <1>5 DEF IInv

\* new_tcp_flow: the connection has not begun, so both streams are at their
\* beginning.
LEMMA NewFlowKeeps ==
    ASSUME OneConnection \/ OneFlow', IInv, toPresto # <<>>, toPresto' = Tail(toPresto), t = NoFlow,
           "SYN" \in toPresto[1].flags, t' = NewTcp(toPresto[1]), host' = NewHost,
           UNCHANGED <<ring, toGuest, guest, ended>>
    PROVE  IInv'
<1> DEFINE s == toPresto[1]
           e == NewTcp(s)
<1>1. /\ s \in Segments /\ UpSeg(s, host, guest) /\ 1 \in 1..Len(toPresto)
      /\ guest.state # "Closed" /\ SynsOf(Tail(toPresto), toPresto)
      /\ SynQueued(toPresto)
  BY HeadFact
<1>2. /\ host \in HostSet /\ guest \in GuestSet /\ ring \in RingSet
      /\ HostInv(host, guest) /\ GuestInv(guest, host)
      /\ DownInv(toGuest, host, guest) /\ Life /\ toPresto \in Seq(Segments) /\ Lo = 0
  BY IInvFact
<1>3. ended = "no" /\ NotBegun
  <2>1. t' # NoFlow
    <3>1. t'.state = "Connecting" /\ NoFlow.state = "none"
      BY DEF NewTcp, NoFlow
    <3> QED BY <3>1
  <2>2. ended = "no"
    BY <1>1, <1>2, <2>1 DEF Life, OneFlow
  <2> QED BY <1>2, <2>2 DEF Life
<1>4. host' = host /\ host = NewHost
  BY <1>3 DEF NotBegun
<1>5. s.seq = GuestISN /\ s.win = GuestBuf
  BY <1>1 DEF UpSeg
<1>6. /\ host.read = 0 /\ host.got = <<>> /\ host.shut = FALSE
  BY <1>4 DEF NewHost
<1>7. /\ e \in FlowSet /\ e.state = "Connecting" /\ e.seq_from_guest = SeqOf(GuestISN, 1)
      /\ e.sent_unacked = 0 /\ e.buffered = 0 /\ e.host_eof = FALSE
      /\ e.guest_window = GuestBuf /\ e.host_fin = "NotSent"
      /\ e.guest_fin_received = FALSE
  <2>1. SeqOf(GuestISN, 1) \in 0..SeqMod-1
    <3>1. GuestISN \in Int
      BY Sizes
    <3> QED BY <3>1, SeqOfType, 1 \in Int
  <2>2. 0 \in 0..FRAME /\ 0 \in 0..FRAME-1 /\ GuestBuf \in 0..GuestBuf /\ 0 \in 0..2
        /\ TCP_ISN \in 0..SeqMod-1
    BY Sizes
  <2> QED BY <2>1, <2>2, <1>5 DEF NewTcp, FlowSet
<1> HIDE DEF e
<1>8. FlowInv(e, ring, host, guest)
  <2>1. Rel(e, host) = 0 /\ Taken(host) = 0
    BY <1>6, <1>7 DEF Rel, Taken, Bit
  <2>2. Len(guest.recv) = 0 /\ guest.unread = 0 /\ guest.fin = FALSE
    BY <1>2, <1>3, GuestFact DEF NotBegun
  <2>3. Edge(guest) = GuestBuf /\ Bit(guest.fin) = 0
    <3>1. Edge(guest) = Len(guest.recv) + GuestBuf - guest.unread
      BY <1>2, GuestFact
    <3>2. Edge(guest) = GuestBuf
      BY <2>2, <3>1, Sizes
    <3> QED BY <2>2, <3>2 DEF Bit
  <2>4. FlowCounts(e, host, guest)
    BY <1>6, <1>7, <2>1, <2>2, <2>3, Sizes DEF FlowCounts
  <2>5. FlowNumbers(e, host)
    <3>1. SeqOf(GuestISN, 1 + 0) = SeqOf(GuestISN, 1)
      OBVIOUS
    <3> QED BY <1>6, <1>7, <2>1, <3>1 DEF FlowNumbers
  <2>6. RingInv(e, ring, host)
    BY <1>7 DEF RingInv
  <2> QED BY <1>7, <2>4, <2>5, <2>6 DEF FlowInv
<1>9. t' = e /\ e # NoFlow
  BY <1>7, FlowIsFlow DEF e
<1>10. Lo' = 0
  BY <1>7, <1>9 DEF Lo
<1>11. UpInv(toPresto', host', guest', Lo')
  BY <1>2, <1>4, <1>10, TailInv, 0 \in Int, 0 <= 0
<1>12. ~SynRetries => ~SynQueued(toPresto') /\ OneSyn(toPresto')
  <2> SUFFICES ASSUME ~SynRetries PROVE ~SynQueued(toPresto') /\ OneSyn(toPresto')
    OBVIOUS
  <2>1. OneSyn(toPresto)
    BY <1>2 DEF Life
  <2>2. ASSUME NEW i \in 1..Len(Tail(toPresto)), "SYN" \in Tail(toPresto)[i].flags
        PROVE  FALSE
    <3>1. Tail(toPresto)[i] = toPresto[i + 1] /\ i + 1 \in 1..Len(toPresto)
      BY <1>2, TailFact
    <3>2. i + 1 = 1
      BY <1>1, <2>1, <2>2, <3>1 DEF OneSyn
    <3>3. i \in Nat /\ i >= 1
      BY <1>2, TailFact
    <3> QED BY <3>2, <3>3
  <2> QED BY <1>1, <2>1, <2>2 DEF SynQueued, SynsOf
<1>13. Life'
  BY <1>1, <1>3, <1>9, <1>12 DEF Life, OneFlow
<1> QED BY <1>2, <1>4, <1>8, <1>9, <1>11, <1>13 DEF IInv

\* send_tcp_rst_no_flow
LEMMA RstNoFlowFact ==
    ASSUME NEW s \in Segments
    PROVE  LET r == RstNoFlow(s)
           IN  /\ r \in Segments /\ r.win = 0 /\ r.data = <<>>
               /\ "RST" \in r.flags /\ "SYN" \notin r.flags /\ "FIN" \notin r.flags
<1>1. s.ack \in Int /\ s.seq \in Int /\ Len(s.data) \in Int
  BY SegmentsFact
<1>2. 0 \in 0..(SndBuf + GuestBuf)
  BY Sizes
<1>3. {"RST"} \in SUBSET Flags /\ {"RST", "ACK"} \in SUBSET Flags
  BY DEF Flags
<1>4. CASE "ACK" \in s.flags
  <2> DEFINE fl == {"RST"}
             d == <<>>
  <2>1. RstNoFlow(s) = Segment(s.ack, 0, 0, fl, d)
    BY <1>4 DEF RstNoFlow
  <2>2. fl \in SUBSET Flags /\ "RST" \in fl /\ "SYN" \notin fl /\ "FIN" \notin fl
        /\ d \in Seq(0..(HostLen + GuestLen))
    BY <1>3, EmptyData
  <2> HIDE DEF fl, d
  <2>3. LET r == Segment(s.ack, 0, 0, fl, d)
        IN  r \in Segments /\ r.win = 0 /\ r.flags = fl /\ r.data = d
    BY <1>1, <1>2, <2>2, SegmentFact, 0 \in Int
  <2> QED BY <2>1, <2>2, <2>3 DEF d
<1>5. CASE "ACK" \notin s.flags
  <2> DEFINE fl == {"RST", "ACK"}
             d == <<>>
             a == s.seq + Len(s.data)
                      + (IF "SYN" \in s.flags THEN 1 ELSE 0)
                      + (IF "FIN" \in s.flags THEN 1 ELSE 0)
             zero == 0
  <2>1. RstNoFlow(s) = Segment(zero, a, 0, fl, d)
    BY <1>5 DEF RstNoFlow
  <2>2. fl \in SUBSET Flags /\ "RST" \in fl /\ "SYN" \notin fl /\ "FIN" \notin fl
        /\ d \in Seq(0..(HostLen + GuestLen))
    BY <1>3, EmptyData
  <2>3. a \in Int /\ zero \in Int
    BY <1>1
  <2> HIDE DEF fl, a, d, zero
  <2>4. LET r == Segment(zero, a, 0, fl, d)
        IN  r \in Segments /\ r.win = 0 /\ r.flags = fl /\ r.data = d
    BY <1>2, <2>2, <2>3, SegmentFact, 0 \in Int
  <2> QED BY <2>1, <2>2, <2>4 DEF d
<1> QED BY <1>4, <1>5

LEMMA NoFlowKeeps ==
    ASSUME IInv, toPresto # <<>>, toPresto' = Tail(toPresto), t = NoFlow,
           "RST" \notin toPresto[1].flags,
           toPresto[1].flags \cap {"SYN", "ACK"} # {"SYN"},
           toGuest' = Queue(toGuest, <<RstNoFlow(toPresto[1])>>),
           UNCHANGED <<t, ring, host, guest, ended>>
    PROVE  IInv'
<1> DEFINE s == toPresto[1]
           r == RstNoFlow(s)
<1>1. /\ s \in Segments /\ UpSeg(s, host, guest) /\ 1 \in 1..Len(toPresto)
      /\ guest.state # "Closed" /\ SynsOf(Tail(toPresto), toPresto)
  BY HeadFact
<1>2. /\ host \in HostSet /\ guest \in GuestSet /\ ring \in RingSet
      /\ HostInv(host, guest) /\ GuestInv(guest, host)
      /\ DownInv(toGuest, host, guest) /\ Life /\ toPresto \in Seq(Segments) /\ Lo = 0
  BY IInvFact
<1>3. ended # "no"
  <2> SUFFICES ASSUME ended = "no" PROVE FALSE
    OBVIOUS
  <2>1. "SYN" \in s.flags
    BY <1>1, <1>2 DEF Life, NotBegun
  <2>2. s.flags = {"SYN"}
    BY <1>1, <2>1 DEF UpSeg
  <2> QED BY <2>2
<1>4. Lo' = 0
  BY DEF Lo
<1>5. UpInv(toPresto', host', guest', Lo')
  BY <1>2, <1>4, TailInv, 0 \in Int, 0 <= 0
<1>6. DownInv(toGuest', host', guest')
  <2>1. NewDown(r, host.read, host, guest)
    <3>1. /\ r \in Segments /\ r.win = 0 /\ r.data = <<>>
          /\ "RST" \in r.flags /\ "FIN" \notin r.flags
      BY <1>1, RstNoFlowFact
    <3> HIDE DEF r
    <3>2. DownSeg(r, host, guest)
      BY <3>1, Sizes DEF DownSeg
    <3> QED BY <3>1, <3>2 DEF NewDown
  <2> HIDE DEF r
  <2> DEFINE segs == <<r>>
  <2>2. segs \in Seq(Segments) /\ \A i \in 1..Len(segs) : NewDown(segs[i], host.read, host, guest)
    BY <2>1, OneNew
  <2>3. host.read \in Int /\ host.read <= host.read + FRAME /\ guest.una <= Taken(host)
    BY <1>2, HostFact, Sizes DEF GuestInv
  <2> HIDE DEF segs
  <2>4. DownInv(Queue(toGuest, segs), host, guest)
    BY <1>2, <2>2, <2>3, DownAppend
  <2> QED BY <2>4 DEF segs, r
<1>7. Life'
  BY <1>1, <1>2, <1>3 DEF Life, OneFlow, SynsOf
<1> QED BY <1>2, <1>5, <1>6, <1>7 DEF IInv

\* A RST from the guest: it has given up, and no SYN follows.
LEMMA RstKeeps ==
    ASSUME IInv, toPresto # <<>>, toPresto' = Tail(toPresto), t # NoFlow,
           "RST" \in toPresto[1].flags, Drop("reset"),
           UNCHANGED <<ring, host, toGuest, guest>>
    PROVE  IInv'
<1> DEFINE s == toPresto[1]
<1>1. /\ s \in Segments /\ UpSeg(s, host, guest) /\ 1 \in 1..Len(toPresto)
      /\ guest.state # "Closed" /\ SynsOf(Tail(toPresto), toPresto)
  BY HeadFact
<1>2. /\ host \in HostSet /\ guest \in GuestSet /\ ring \in RingSet
      /\ HostInv(host, guest) /\ GuestInv(guest, host)
      /\ DownInv(toGuest, host, guest) /\ UpInv(toPresto, host, guest, Lo)
      /\ Life /\ toPresto \in Seq(Segments) /\ Lo \in Nat
  BY IInvFact
<1>3. t' = NoFlow /\ ended' = "reset"
  BY DEF Drop
<1>4. guest.state = "Reset" /\ "SYN" \notin s.flags
  BY <1>1 DEF UpSeg
<1>5. Lo' = 0
  BY <1>3 DEF Lo
<1>6. UpInv(toPresto', host', guest', Lo')
  <2>1. 0 \in Int /\ 0 <= Lo
    BY <1>2
  <2>2. UpInv(Tail(toPresto), host, guest, 0)
    BY <2>1, TailInv
  <2> QED BY <2>2, <1>5
<1>7. ~SynQueued(toPresto')
  <2> SUFFICES ASSUME NEW i \in 1..Len(Tail(toPresto)), "SYN" \in Tail(toPresto)[i].flags
               PROVE  FALSE
    BY DEF SynQueued
  <2>1. Tail(toPresto)[i] = toPresto[i + 1] /\ i + 1 \in 1..Len(toPresto) /\ i \in Nat /\ i >= 1
    BY <1>2, TailFact
  <2>2. 1 < i + 1
    BY <2>1
  <2>3. SynFirst(toPresto)
    BY <1>2 DEF UpInv
  <2>4. "SYN" \in toPresto[1].flags
    BY <1>1, <2>1, <2>2, <2>3 DEF SynFirst
  <2> QED BY <1>4, <2>4
<1>8. Life'
  BY <1>1, <1>2, <1>3, <1>4, <1>7 DEF Life, OneFlow, SynsOf
<1> QED BY <1>2, <1>3, <1>6, <1>8 DEF IInv

\* A retransmitted SYN: whatever was sent since has not been acknowledged.
LEMMA SynAgainKeeps ==
    ASSUME IInv, toPresto # <<>>, toPresto' = Tail(toPresto), t # NoFlow,
           "SYN" \in toPresto[1].flags,
           t' = AfterSynAck([t EXCEPT !.sent_unacked = 0, !.dup_acks = 0]),
           toGuest' = Queue(toGuest, <<SynAck(t)>>),
           t.state = "Established", UNCHANGED <<ring, host, guest, ended>>
    PROVE  IInv'
<1> DEFINE s == toPresto[1]
           e == AfterSynAck([t EXCEPT !.sent_unacked = 0, !.dup_acks = 0])
           o == Outcome(e, ring, host, <<SynAck(t)>>)
<1>1. /\ \E n \in Nat : UpAck(s, n, Lo, guest)
      /\ SynsOf(Tail(toPresto), toPresto)
  BY HeadFact
<1>2. /\ host \in HostSet /\ guest \in GuestSet /\ ring \in RingSet
      /\ HostInv(host, guest) /\ GuestInv(guest, host)
      /\ DownInv(toGuest, host, guest) /\ Lo \in Nat
      /\ t \in FlowSet /\ FlowInv(t, ring, host, guest) /\ Lo = Sure(t, host)
  BY IInvFact
<1>3. Sure(t, host) = 0
  <2>1. PICK n \in Nat : UpAck(s, n, Lo, guest)
    BY <1>1
  <2>2. Lo <= n /\ n = 0
    BY <2>1 DEF UpAck
  <2> QED BY <1>2, <2>2
<1>4. e \in FlowSet /\ SynAcked(t, e)
  <2>1. SeqOf(TCP_ISN, 1) \in 0..SeqMod-1 /\ 0 \in 0..FRAME /\ 0 \in 0..2
    <3>1. TCP_ISN \in Int /\ 0 \in 0..FRAME
      BY Sizes
    <3> QED BY <3>1, SeqOfType, 1 \in Int
  <2> DEFINE x == [t EXCEPT !.sent_unacked = 0, !.dup_acks = 0]
  <2>2. /\ x \in FlowSet /\ x.sent_unacked = 0 /\ x.state = "Established"
        /\ x.buffered = t.buffered /\ x.buf_head = t.buf_head
        /\ x.host_eof = t.host_eof /\ x.host_fin = t.host_fin
        /\ x.guest_window = t.guest_window /\ x.seq_from_guest = t.seq_from_guest
        /\ x.guest_fin_received = t.guest_fin_received
    BY <1>2, <2>1 DEF FlowSet
  <2> HIDE DEF x
  <2>3. AfterSynAck(x) \in FlowSet /\ SynAcked(t, AfterSynAck(x))
    BY ZenonT(60), <2>1, <2>2 DEF AfterSynAck, FlowSet, SynAcked
  <2> QED BY <2>3 DEF x
<1>5. HostReads(host, host)
  BY <1>2, HostFact DEF HostReads, HostInv
<1>6. SynAckOut(o, t, e, ring, host)
  BY DEF Outcome, SynAckOut
<1>7. Commit(o, FALSE)
  BY <1>6 DEF Commit, SynAckOut
<1> HIDE DEF e, o
<1>8. OutcomeOK(host, guest, o) /\ Sure(e, host) = 0
  BY <1>2, <1>3, <1>4, <1>5, <1>6, SynAckOutcome
<1>9. Settled(o)
  BY <1>2, <1>7, <1>8, CommitStep
<1>10. UpInv(toPresto', o.host, guest, Sure(o.t, o.host))
  <2>1. UpInv(Tail(toPresto), host, guest, 0)
    BY <1>2, <1>3, TailInv, 0 \in Int, 0 <= 0
  <2>2. o.host = host /\ o.t = e
    BY <1>6 DEF SynAckOut
  <2> QED BY <1>8, <2>1, <2>2
<1> QED BY <1>1, <1>8, <1>9, <1>10, Concludes

\* tcp_from_guest on an established flow.
LEMMA SegmentKeeps ==
    ASSUME IInv, toPresto # <<>>, toPresto' = Tail(toPresto), t # NoFlow,
           t.state = "Established", "RST" \notin toPresto[1].flags,
           Commit(SegmentFromGuest(t, toPresto[1]), TRUE), guest' = guest
    PROVE  IInv'
<1> DEFINE s == toPresto[1]
           o == SegmentFromGuest(t, s)
<1>1. /\ s \in Segments /\ UpSeg(s, host, guest)
      /\ \E n \in Nat : UpAck(s, n, Lo, guest)
      /\ SynsOf(Tail(toPresto), toPresto)
  BY HeadFact
<1>2. /\ host \in HostSet /\ guest \in GuestSet /\ ring \in RingSet
      /\ HostInv(host, guest) /\ GuestInv(guest, host)
      /\ DownInv(toGuest, host, guest) /\ Lo \in Nat
      /\ UpInv(toPresto, host, guest, Lo)
      /\ t \in FlowSet /\ FlowInv(t, ring, host, guest) /\ Lo = Sure(t, host)
  BY IInvFact
<1>3. ASSUME NEW n \in Nat, UpAck(s, n, Lo, guest)
      PROVE  /\ OutcomeOK(host, guest, o) /\ Sure(o.t, o.host) <= n
             /\ \/ Taken(o.host) <= Taken(host)
                \/ s.data # <<>> /\ Taken(o.host) <= End(s.data)
                \/ "FIN" \in s.flags /\ Taken(o.host) <= GuestLen + 1
  BY <1>1, <1>2, <1>3, SegmentStep
<1> HIDE DEF o
<1>4. /\ OutcomeOK(host, guest, o)
      /\ \/ Taken(o.host) <= Taken(host)
         \/ s.data # <<>> /\ Taken(o.host) <= End(s.data)
         \/ "FIN" \in s.flags /\ Taken(o.host) <= GuestLen + 1
  BY <1>1, <1>3
<1>5. Settled(o)
  BY <1>2, <1>4, CommitStep DEF o
<1>6. o.host \in HostSet /\ Sure(o.t, o.host) \in Int
  <2>1. o.host \in HostSet /\ o.t \in FlowSet
    BY <1>4 DEF OutcomeOK
  <2> QED BY <2>1, SureFact
<1>7. UpInv(Tail(toPresto), o.host, guest, Sure(o.t, o.host))
  <2>1. \A n \in Nat : UpAck(toPresto[1], n, Lo, guest) => Sure(o.t, o.host) <= n
    BY <1>3
  <2> QED BY SMTT(60), <1>2, <1>4, <1>6, <2>1, UpReceive
<1> QED BY <1>1, <1>4, <1>5, <1>7, Concludes

LEMMA HandleTcpKeeps ==
    ASSUME OneConnection \/ OneFlow', IInv, HandleTcp
    PROVE  IInv'
<1> DEFINE s == toPresto[1]
<1>1. toPresto # <<>> /\ toPresto' = Tail(toPresto) /\ guest' = guest
  BY DEF HandleTcp
<1>2. s = Head(toPresto)
  BY <1>1, HeadFact
<1>3. \/ /\ t = NoFlow /\ s.flags \cap {"SYN", "ACK", "RST"} = {"SYN"}
         /\ t' = NewTcp(s) /\ host' = NewHost
         /\ UNCHANGED <<ring, toGuest, ended>>
      \/ /\ t = NoFlow /\ "RST" \notin s.flags /\ s.flags \cap {"SYN", "ACK"} # {"SYN"}
         /\ toGuest' = Queue(toGuest, <<RstNoFlow(s)>>)
         /\ UNCHANGED <<t, ring, host, ended>>
      \/ /\ t # NoFlow /\ "RST" \in s.flags
         /\ Drop("reset") /\ UNCHANGED <<ring, host, toGuest>>
      \/ /\ t # NoFlow /\ t.state = "Established" /\ "SYN" \in s.flags
         /\ t' = AfterSynAck([t EXCEPT !.sent_unacked = 0, !.dup_acks = 0])
         /\ toGuest' = Queue(toGuest, <<SynAck(t)>>)
         /\ UNCHANGED <<ring, host, ended>>
      \/ /\ t # NoFlow /\ t.state = "Established" /\ s.flags \cap {"SYN", "RST"} = {}
         /\ Commit(SegmentFromGuest(t, s), TRUE)
      \/ UNCHANGED <<t, ring, host, toGuest, ended>>
  <2> HIDE DEF s
  <2> QED BY <1>2 DEF HandleTcp
<1>4. CASE /\ t = NoFlow /\ s.flags \cap {"SYN", "ACK", "RST"} = {"SYN"}
           /\ t' = NewTcp(s) /\ host' = NewHost
           /\ UNCHANGED <<ring, toGuest, ended>>
  <2>1. "SYN" \in s.flags
    BY <1>4
  <2> QED BY <1>1, <1>4, <2>1, NewFlowKeeps
<1>5. CASE /\ t = NoFlow /\ "RST" \notin s.flags /\ s.flags \cap {"SYN", "ACK"} # {"SYN"}
           /\ toGuest' = Queue(toGuest, <<RstNoFlow(s)>>)
           /\ UNCHANGED <<t, ring, host, ended>>
  BY <1>1, <1>5, NoFlowKeeps
<1>6. CASE /\ t # NoFlow /\ "RST" \in s.flags
           /\ Drop("reset") /\ UNCHANGED <<ring, host, toGuest>>
  BY <1>1, <1>6, RstKeeps
<1>7. CASE /\ t # NoFlow /\ t.state = "Established" /\ "SYN" \in s.flags
           /\ t' = AfterSynAck([t EXCEPT !.sent_unacked = 0, !.dup_acks = 0])
           /\ toGuest' = Queue(toGuest, <<SynAck(t)>>)
           /\ UNCHANGED <<ring, host, ended>>
  BY <1>1, <1>7, SynAgainKeeps
<1>8. CASE /\ t # NoFlow /\ t.state = "Established" /\ s.flags \cap {"SYN", "RST"} = {}
           /\ Commit(SegmentFromGuest(t, s), TRUE)
  <2>1. "RST" \notin s.flags
    BY <1>8
  <2> QED BY <1>1, <1>8, <2>1, SegmentKeeps
<1>9. CASE UNCHANGED <<t, ring, host, toGuest, ended>>
  BY <1>1, <1>9, FrameIgnored
<1> HIDE DEF s
<1> QED BY <1>3, <1>4, <1>5, <1>6, <1>7, <1>8, <1>9

-----------------------------------------------------------------------------
(* Each action keeps the invariant: the host's end                         *)

HostMoves(h, k) ==
    /\ k.read = h.read /\ k.got = h.got /\ k.shut = h.shut
    /\ h.written <= k.written /\ (h.eof => k.eof /\ k.written = h.written)
    /\ k.reset => HostResets

LEMMA HostStepKeeps ==
    ASSUME IInv, NEW k \in HostSet, HostMoves(host, k), HostStep(k)
    PROVE  IInv'
<1>1. t # NoFlow /\ host' = k
      /\ UNCHANGED <<t, ring, toGuest, toPresto, guest, ended>>
  BY DEF HostStep
<1>2. /\ host \in HostSet /\ guest \in GuestSet /\ ring \in RingSet
      /\ HostInv(host, guest) /\ GuestInv(guest, host)
      /\ DownInv(toGuest, host, guest) /\ UpInv(toPresto, host, guest, Lo)
      /\ t \in FlowSet /\ FlowInv(t, ring, host, guest) /\ Lo \in Nat /\ Life
  BY <1>1, IInvFact
<1>3. Taken(k) = Taken(host)
  BY DEF Taken, HostMoves
<1>4. Rel(t, k) = Rel(t, host) /\ Sure(t, k) = Sure(t, host)
  BY DEF Rel, Sure, HostMoves
<1>5. FlowInv(t, ring, k, guest)
  <2>1. FlowCounts(t, k, guest)
    BY <1>2, <1>4 DEF FlowInv, FlowCounts, HostMoves
  <2>2. FlowNumbers(t, k)
    BY <1>2, <1>3, <1>4 DEF FlowInv, FlowNumbers, HostMoves
  <2>3. RingInv(t, ring, k)
    BY <1>2, <1>4 DEF FlowInv, RingInv
  <2> QED BY <1>2, <2>1, <2>2, <2>3 DEF FlowInv
<1>6. HostInv(k, guest)
  <2>1. host.read \in Nat /\ host.written \in Nat /\ k.written \in Nat
    BY <1>2, HostFact
  <2>2. k.read <= k.written
    BY <1>2, <2>1 DEF HostInv, HostMoves
  <2> QED BY <1>2, <2>2 DEF HostInv, HostMoves
<1>7. GuestInv(guest, k)
  BY <1>2, <1>3 DEF GuestInv, HostMoves
<1>8. DownInv(toGuest, k, guest)
  <2>1. HostGrows(host, k)
    <3>1. host.read \in Nat /\ Taken(host) \in Nat
      BY <1>2, HostFact
    <3> QED BY <1>3, <3>1 DEF HostGrows, HostMoves
  <2> QED BY <1>2, <2>1, DownHost
<1>9. Lo' = Lo
  BY <1>1, <1>4 DEF Lo
<1>10. UpInv(toPresto, k, guest, Lo)
  <2>1. GuestMoves(guest, guest)
    <3>1. guest.nxt \in Nat /\ Seen(guest) \in Nat /\ Edge(guest) + Bit(guest.fin) \in Nat
          /\ guest.nxt <= GuestLen + 1
      BY SMTT(60), <1>2, GuestFact DEF GuestInv
    <3> QED BY <3>1 DEF GuestMoves
  <2>2. Taken(k) <= Taken(host) /\ Lo \in Int /\ Lo <= Lo
    BY <1>2, <1>3, HostFact
  <2> QED BY <1>2, <2>1, <2>2, UpMove
<1>11. Life'
  BY <1>1, <1>2 DEF Life, OneFlow
<1> QED BY <1>1, <1>2, <1>5, <1>6, <1>7, <1>8, <1>9, <1>10, <1>11 DEF IInv

LEMMA HostKeeps ==
    ASSUME IInv, HostWrite \/ HostClose \/ HostDrain \/ HostReset
    PROVE  IInv'
<1>1. host \in HostSet /\ HostInv(host, guest)
  BY IInvFact
<1>2. /\ host.written \in Nat /\ host.read \in Nat /\ host.eof \in BOOLEAN
      /\ (host.reset => HostResets) /\ host.written <= HostLen /\ HostLen \in Nat
  BY <1>1, HostFact, Sizes DEF HostInv
<1>3. CASE HostWrite
  <2> DEFINE k == [host EXCEPT !.written = @ + 1]
  <2>1. host.written + 1 \in 0..HostLen /\ ~host.eof /\ HostStep(k)
    BY <1>2, <1>3 DEF HostWrite
  <2>2. k \in HostSet /\ k.read = host.read /\ k.got = host.got /\ k.shut = host.shut
        /\ k.written = host.written + 1 /\ k.reset = host.reset
    BY <1>1, <2>1 DEF HostSet
  <2> HIDE DEF k
  <2>3. HostMoves(host, k)
    BY <1>2, <2>1, <2>2 DEF HostMoves
  <2> QED BY <2>1, <2>2, <2>3, HostStepKeeps
<1>4. CASE HostClose
  <2> DEFINE k == [host EXCEPT !.eof = TRUE]
  <2>1. ~host.eof /\ HostStep(k)
    BY <1>4 DEF HostClose
  <2>2. k \in HostSet /\ k.read = host.read /\ k.got = host.got /\ k.shut = host.shut
        /\ k.written = host.written /\ k.reset = host.reset
    BY <1>1 DEF HostSet
  <2> HIDE DEF k
  <2>3. HostMoves(host, k)
    BY <1>2, <2>1, <2>2 DEF HostMoves
  <2> QED BY <2>1, <2>2, <2>3, HostStepKeeps
<1>5. CASE HostDrain
  <2> DEFINE k == [host EXCEPT !.outq = 0]
  <2>1. HostStep(k)
    BY <1>5 DEF HostDrain
  <2>2. k \in HostSet /\ k.read = host.read /\ k.got = host.got /\ k.shut = host.shut
        /\ k.written = host.written /\ k.eof = host.eof /\ k.reset = host.reset
    BY <1>1 DEF HostSet
  <2> HIDE DEF k
  <2>3. HostMoves(host, k)
    BY <1>2, <2>2 DEF HostMoves
  <2> QED BY <2>1, <2>2, <2>3, HostStepKeeps
<1>6. CASE HostReset
  <2> DEFINE k == [host EXCEPT !.reset = TRUE]
  <2>1. HostStep(k) /\ HostResets
    BY <1>6 DEF HostReset
  <2>2. k \in HostSet /\ k.read = host.read /\ k.got = host.got /\ k.shut = host.shut
        /\ k.written = host.written /\ k.eof = host.eof
    BY <1>1 DEF HostSet
  <2> HIDE DEF k
  <2>3. HostMoves(host, k)
    BY <1>2, <2>1, <2>2 DEF HostMoves
  <2> QED BY <2>1, <2>2, <2>3, HostStepKeeps
<1> QED BY <1>3, <1>4, <1>5, <1>6

-----------------------------------------------------------------------------
(* Each action keeps the invariant: the guest                              *)

LEMMA SeenGrows ==
    ASSUME IInv
    PROVE  Lo <= Seen(guest) /\ Lo \in Int
<1>1. /\ host \in HostSet /\ guest \in GuestSet /\ Lo \in Nat
      /\ (t # NoFlow => t \in FlowSet /\ FlowInv(t, ring, host, guest) /\ Lo = Sure(t, host))
      /\ (t = NoFlow => Lo = 0)
  BY IInvFact
<1>2. Seen(guest) \in Nat
  BY <1>1, GuestFact
<1>3. CASE t # NoFlow
  <2>1. Sure(t, host) <= Seen(guest)
    BY <1>1, <1>3, SureIsNat
  <2> QED BY <1>1, <1>3, <2>1
<1> QED BY <1>1, <1>2, <1>3

\* The guest becomes k and writes at most one segment.
GuestGrows(g, k) ==
    /\ GuestMoves(g, k)
    /\ Len(g.recv) <= Len(k.recv) /\ (g.fin => k.fin)

LEMMA GuestStepKeeps ==
    ASSUME IInv, NEW k \in GuestSet, GuestInv(k, host), Len(k.recv) <= host.read,
           GuestGrows(guest, k), DownInv(toGuest', host, k),
           NEW segs \in Seq(Segments), Len(segs) <= 1,
           \A i \in 1..Len(segs) : NewUp(segs[i], toPresto, host, k),
           guest' = k, toPresto' = Queue(toPresto, segs),
           UNCHANGED <<t, ring, host, ended>>, Life'
    PROVE  IInv'
<1>1. /\ host \in HostSet /\ guest \in GuestSet /\ ring \in RingSet
      /\ HostInv(host, guest) /\ UpInv(toPresto, host, guest, Lo)
      /\ (t # NoFlow => t \in FlowSet /\ FlowInv(t, ring, host, guest))
  BY IInvFact
<1>2. GuestMoves(guest, k) /\ Len(guest.recv) <= Len(k.recv) /\ (guest.fin => k.fin)
  BY DEF GuestGrows
<1>3. HostInv(host, k)
  BY <1>1 DEF HostInv
<1>4. t # NoFlow => FlowInv(t, ring, host, k)
  <2> SUFFICES ASSUME t # NoFlow PROVE FlowInv(t, ring, host, k)
    OBVIOUS
  <2>1. /\ t \in FlowSet /\ FlowCounts(t, host, guest) /\ FlowNumbers(t, host)
        /\ RingInv(t, ring, host)
    BY <1>1 DEF FlowInv
  <2>2. Rel(t, host) \in Int /\ t.guest_window \in Int
    BY <1>1, <2>1, SureFact, FlowFact
  <2>3. Len(guest.recv) \in Nat /\ Len(k.recv) \in Nat /\ Bit(guest.fin) \in Int
        /\ Bit(k.fin) \in Int /\ Edge(guest) \in Nat /\ Edge(k) \in Nat
    BY <1>1, GuestFact
  <2>4. Rel(t, host) <= Len(k.recv)
    BY <1>2, <2>1, <2>2, <2>3 DEF FlowCounts
  <2>5. Rel(t, host) + t.guest_window <= Edge(k) + Bit(k.fin)
    BY <1>2, <2>1, <2>2, <2>3 DEF FlowCounts, GuestMoves
  <2>6. FlowCounts(t, host, k)
    BY <1>2, <2>1, <2>4, <2>5 DEF FlowCounts
  <2> QED BY <2>1, <2>6 DEF FlowInv
<1>5. Lo <= Seen(k) /\ Lo \in Int /\ Lo <= Lo /\ Taken(host) <= Taken(host)
  <2>1. Lo <= Seen(guest) /\ Lo \in Int /\ Seen(guest) <= Seen(k)
    BY <1>2, SeenGrows DEF GuestMoves
  <2>2. Seen(guest) \in Nat /\ Seen(k) \in Nat /\ Taken(host) \in Nat
    BY <1>1, GuestFact, HostFact
  <2> QED BY <2>1, <2>2
<1>6. UpInv(toPresto, host, k, Lo)
  BY <1>1, <1>2, <1>5, UpMove
<1>7. UpInv(Queue(toPresto, segs), host, k, Lo)
  BY <1>1, <1>5, <1>6, UpAppend
<1>8. Lo' = Lo
  BY DEF Lo
<1> QED BY <1>1, <1>3, <1>4, <1>7, <1>8 DEF IInv

\* What is left of the life of the connection when no SYN is sent.
LEMMA LifeGoesOn ==
    ASSUME Life, UNCHANGED <<t, host, ended>>, SynsOf(toPresto', toPresto),
           guest.state # "Closed", guest'.state # "Closed",
           guest'.state = "SynSent" => guest.state = "SynSent",
           guest.fin => guest'.fin, NotBegun => NotBegun'
    PROVE  Life'
  BY DEF Life, OneFlow, SynsOf

\* A segment of the guest's.
UpData(n, data, k) ==
    data # <<>> =>
      /\ Consecutive(data) /\ data[1] = n + 1
      /\ End(data) <= GuestLen /\ End(data) <= k.nxt
      /\ k.nxt <= data[1] + SndBuf
UpFin(n, data, k) ==
    /\ k.nxt = GuestLen + 1
    /\ data # <<>> => End(data) = GuestLen
    /\ data = <<>> => n = GuestLen

LEMMA GuestSegmentNew ==
    ASSUME NEW h \in HostSet, NEW g \in GuestSet, NEW k \in GuestSet, GuestInv(k, h),
           k.recv = g.recv, k.fin = g.fin, k.unread = g.unread,
           NEW n \in Int, NEW flags \in SUBSET Flags, "SYN" \notin flags,
           NEW data \in Seq(0..GuestLen),
           k.state \in {"Established", "Reset"}, "RST" \in flags => k.state = "Reset",
           UpData(n, data, k), "FIN" \in flags => UpFin(n, data, k), NEW q
    PROVE  NewUp(GuestSegment(g, n, flags, data), q, h, k)
<1> DEFINE s == GuestSegment(g, n, flags, data)
           a == GuestSeq(n)
           b == RcvNxt(g)
           w == GuestWindow(g)
<1>1. a \in 0..SeqMod-1 /\ a = SeqOf(GuestISN, 1 + n)
  <2>1. GuestISN \in Int /\ 1 + n \in Int
    BY Sizes
  <2> QED BY <2>1, SeqOfType DEF GuestSeq
<1>2. b \in 0..SeqMod-1 /\ b = SeqOf(TCP_ISN, 1 + Seen(k))
  <2>1. Seen(k) = Len(g.recv) + (IF g.fin THEN 1 ELSE 0) /\ Seen(k) \in Nat
        /\ Len(g.recv) \in Nat
    BY GuestFact DEF Seen, Bit
  <2>2. 1 + Len(g.recv) + (IF g.fin THEN 1 ELSE 0) = 1 + Seen(k)
    <3> DEFINE x == Len(g.recv)
               y == IF g.fin THEN 1 ELSE 0
    <3>1. x \in Nat /\ y \in Nat /\ Seen(k) = x + y
      BY <2>1
    <3> HIDE DEF x, y
    <3>2. 1 + x + y = 1 + Seen(k)
      BY <3>1
    <3> QED BY <3>2 DEF x, y
  <2>3. TCP_ISN \in Int /\ 1 + Seen(k) \in Int
    BY <2>1, Sizes
  <2> QED BY <2>2, <2>3, SeqOfType DEF RcvNxt
<1>3. w \in 0..GuestBuf /\ w \in 0..(SndBuf + GuestBuf)
      /\ Seen(k) + w = Edge(k) + Bit(k.fin) /\ Seen(k) \in Nat
  <2>1. /\ w = GuestBuf - g.unread /\ w \in 0..GuestBuf
        /\ Edge(k) = Len(k.recv) + GuestBuf - k.unread
        /\ Seen(k) = Len(k.recv) + Bit(k.fin) /\ Bit(k.fin) \in 0..1
        /\ Len(k.recv) \in Nat /\ k.unread \in 0..GuestBuf /\ Seen(k) \in Nat
    BY GuestFact
  <2> HIDE DEF w
  <2>2. w \in 0..(SndBuf + GuestBuf)
    BY <2>1, Sizes
  <2>3. g.unread = k.unread /\ GuestBuf \in Nat
    BY Sizes
  <2>4. Seen(k) + w = Edge(k) + Bit(k.fin)
    <3> DEFINE x == Len(k.recv)
               y == Bit(k.fin)
               z == k.unread
    <3>1. /\ x \in Nat /\ y \in 0..1 /\ z \in 0..GuestBuf /\ Seen(k) = x + y
          /\ w = GuestBuf - z /\ Edge(k) = x + GuestBuf - z
      BY <2>1, <2>3
    <3> HIDE DEF x, y, z
    <3>2. Seen(k) + w = Edge(k) + y
      BY <2>3, <3>1
    <3> QED BY <3>2 DEF y
  <2> QED BY <2>1, <2>2, <2>4
<1>4. data \in Seq(0..(HostLen + GuestLen))
  <2>1. \A i \in 1..Len(data) : data[i] \in 0..(HostLen + GuestLen)
    <3> SUFFICES ASSUME NEW i \in 1..Len(data) PROVE data[i] \in 0..(HostLen + GuestLen)
      OBVIOUS
    <3>1. data[i] \in 0..GuestLen
      BY ElementOfSeq
    <3> QED BY <3>1, Sizes
  <2>2. data \in [1..Len(data) -> 0..(HostLen + GuestLen)] /\ Len(data) \in Nat
    <3>1. data \in [1..Len(data) -> 0..GuestLen] /\ Len(data) \in Nat
      BY LenProperties
    <3> QED BY <2>1, <3>1
  <2> QED BY <2>2, FunctionSeq
<1>5. a \in Int /\ b \in Int /\ a % SeqMod = a /\ b % SeqMod = b
  <2> HIDE DEF a, b
  <2> QED BY SMTT(60), <1>1, <1>2, SeqModFact, ModSmall
<1> HIDE DEF a, b, w
<1>6. /\ s \in Segments /\ s.seq = a /\ s.ack = b /\ s.win = w
      /\ s.flags = flags /\ s.data = data
  <2>1. s = Segment(a, b, w, flags, data)
    BY DEF GuestSegment, a, b, w
  <2>2. LET z == Segment(a, b, w, flags, data)
        IN  /\ z \in Segments /\ z.seq = a % SeqMod /\ z.ack = b % SeqMod /\ z.win = w
            /\ z.flags = flags /\ z.data = data
    BY <1>3, <1>4, <1>5, SegmentFact
  <2> QED BY <1>5, <2>1, <2>2
<1> HIDE DEF s
<1>7. s.data # <<>> => Taken(h) <= s.data[1] + SndBuf /\ s.seq = SeqOf(GuestISN, s.data[1])
  <2> SUFFICES ASSUME data # <<>>
               PROVE  Taken(h) <= data[1] + SndBuf /\ a = SeqOf(GuestISN, data[1])
    BY <1>6
  <2>1. data[1] = n + 1 /\ k.nxt <= data[1] + SndBuf
    BY DEF UpData
  <2>2. Taken(h) <= k.nxt /\ Taken(h) \in Nat /\ k.nxt \in Nat
    BY HostFact, GuestFact DEF GuestInv
  <2>3. n + 1 = 1 + n
    OBVIOUS
  <2> QED BY <1>1, <2>1, <2>2, <2>3, Sizes
<1>8. "FIN" \in s.flags =>
        /\ k.nxt = GuestLen + 1
        /\ s.data # <<>> => End(s.data) = GuestLen
        /\ s.data = <<>> => s.seq = SeqOf(GuestISN, 1 + GuestLen)
  BY <1>1, <1>6 DEF UpFin
<1>9. UpSeg(s, h, k)
  BY <1>3, <1>6, <1>7, <1>8 DEF UpSeg, UpData
<1>10. UpAck(s, Seen(k), 0, k)
  <2>1. Seen(k) <= Seen(k) /\ 0 <= Seen(k) /\ Seen(k) + w <= Edge(k) + Bit(k.fin)
    <3>1. Edge(k) + Bit(k.fin) \in Int
      BY GuestFact
    <3> QED BY <1>3, <3>1
  <2> QED BY <1>2, <1>6, <2>1 DEF UpAck
<1>11. NewUp(s, q, h, k)
  BY <1>6, <1>9, <1>10 DEF NewUp, UpData
<1> QED BY <1>11 DEF s

\* The guest sends without taking anything: its side of the state only grows.
LEMMA GuestSendsKeeps ==
    ASSUME IInv, guest.state # "Closed", NEW k \in GuestSet, GuestInv(k, host),
           k.recv = guest.recv, k.fin = guest.fin, k.una = guest.una,
           Edge(guest) <= Edge(k), guest.nxt <= k.nxt,
           k.state \in {"Established", "Reset"}, guest.state = "Reset" => k.state = "Reset",
           NEW segs \in Seq(Segments), Len(segs) <= 1,
           \A i \in 1..Len(segs) : NewUp(segs[i], toPresto, host, k),
           \A i \in 1..Len(segs) : "SYN" \notin segs[i].flags,
           GuestSends(k, segs), NotBegun => NotBegun'
    PROVE  IInv'
<1>1. guest' = k /\ toPresto' = Queue(toPresto, segs)
      /\ UNCHANGED <<t, ring, toGuest, host, ended>>
  BY DEF GuestSends
<1>2. /\ host \in HostSet /\ guest \in GuestSet /\ HostInv(host, guest)
      /\ DownInv(toGuest, host, guest) /\ Life
      /\ toPresto \in Seq(Segments) /\ Len(toPresto) <= TapQueue
  BY IInvFact
<1>3. DownInv(toGuest', host, k)
  BY <1>1, <1>2, DownGuest
<1>4. GuestGrows(guest, k)
  <2>1. Seen(k) = Seen(guest) /\ Bit(k.fin) = Bit(guest.fin) /\ Len(k.recv) = Len(guest.recv)
    BY DEF Seen
  <2>2. Seen(guest) \in Nat /\ Bit(guest.fin) \in Int /\ Edge(guest) \in Nat /\ Edge(k) \in Nat
        /\ Len(guest.recv) \in Nat
    BY <1>2, GuestFact
  <2>3. Edge(guest) + Bit(guest.fin) <= Edge(k) + Bit(k.fin)
    BY <2>1, <2>2
  <2>4. k.nxt <= GuestLen + 1
    BY DEF GuestInv
  <2>5. GuestMoves(guest, k)
    BY <2>1, <2>2, <2>3, <2>4 DEF GuestMoves
  <2> QED BY <2>1, <2>2, <2>5 DEF GuestGrows
<1>5. Len(k.recv) <= host.read
  BY <1>2 DEF HostInv
<1>6. SynsOf(toPresto', toPresto)
  BY <1>1, <1>2, SynAppend
<1>7. Life'
  BY <1>1, <1>2, <1>6, LifeGoesOn
<1> QED BY <1>1, <1>3, <1>4, <1>5, <1>7, GuestStepKeeps

\* The same for one segment.
LEMMA GuestSendsOne ==
    ASSUME IInv, guest.state # "Closed", NEW k \in GuestSet, GuestInv(k, host),
           k.recv = guest.recv, k.fin = guest.fin, k.una = guest.una,
           k.unread = guest.unread, guest.nxt <= k.nxt,
           k.state \in {"Established", "Reset"}, guest.state = "Reset" => k.state = "Reset",
           NEW n \in Int, NEW flags \in SUBSET Flags, "SYN" \notin flags,
           NEW data \in Seq(0..GuestLen), "RST" \in flags => k.state = "Reset",
           UpData(n, data, k), "FIN" \in flags => UpFin(n, data, k),
           GuestSends(k, <<GuestSegment(guest, n, flags, data)>>),
           NotBegun => NotBegun'
    PROVE  IInv'
<1> DEFINE s == GuestSegment(guest, n, flags, data)
           segs == <<s>>
<1>1. host \in HostSet /\ guest \in GuestSet
  BY IInvFact
<1>2. NewUp(s, toPresto, host, k)
  BY <1>1, GuestSegmentNew
<1>3. s.flags = flags
  BY DEF GuestSegment, Segment
<1>4. Edge(guest) <= Edge(k)
  <2>1. Edge(guest) = Edge(k) /\ Edge(k) \in Nat
    BY GuestFact DEF Edge, GuestWindow
  <2> QED BY <2>1
<1>5. GuestSends(k, segs)
  OBVIOUS
<1> HIDE DEF s
<1>6. segs \in Seq(Segments) /\ Len(segs) = 1 /\ segs[1] = s
  BY <1>2, OneSegment DEF NewUp
<1> HIDE DEF segs
<1>7. /\ \A i \in 1..Len(segs) : NewUp(segs[i], toPresto, host, k)
      /\ \A i \in 1..Len(segs) : "SYN" \notin segs[i].flags
      /\ Len(segs) <= 1
  BY <1>2, <1>3, <1>6
<1> QED BY <1>4, <1>5, <1>6, <1>7, GuestSendsKeeps

\* Data the guest sends: the n bytes behind byte m.
LEMMA UpDataFact ==
    ASSUME NEW m \in Nat, NEW n \in Nat, m + n <= GuestLen,
           NEW k \in GuestSet, m + n <= k.nxt, k.nxt <= m + 1 + SndBuf
    PROVE  LET d == [j \in 1..n |-> m + j]
           IN  /\ d \in Seq(0..GuestLen) /\ UpData(m, d, k)
               /\ n > 0 => d # <<>> /\ End(d) = m + n
               /\ n = 0 => d = <<>>
<1> DEFINE d == [j \in 1..n |-> m + j]
<1>1. d \in [1..n -> 0..GuestLen]
  <2>1. \A j \in 1..n : m + j \in 0..GuestLen
    BY Sizes
  <2> QED BY <2>1
<1>2. \A j \in 1..n : d[j] = m + j
  OBVIOUS
<1> HIDE DEF d
<1>3. d \in Seq(0..GuestLen) /\ Len(d) = n
  BY <1>1, FunctionSeq
<1>4. /\ UpData(m, d, k)
      /\ n > 0 => d # <<>> /\ End(d) = m + n
      /\ n = 0 => d = <<>>
  <2>1. CASE n = 0
    <3>1. d = <<>>
      BY <1>3, <2>1, EmptySeq
    <3> QED BY <2>1, <3>1 DEF UpData
  <2>2. CASE n > 0
    <3>1. d[1] = m + 1 /\ d # <<>>
      BY <1>2, <1>3, <2>2, EmptySeq
    <3>2. End(d) = m + n
      BY <1>3, <3>1 DEF End
    <3>3. Consecutive(d)
      <4>1. ASSUME NEW j \in 1..Len(d) PROVE d[j] = d[1] + j - 1
        <5>1. d[j] = m + j
          BY <1>2, <1>3
        <5> QED BY <3>1, <5>1, <1>3
      <4>2. d[1] >= 1
        BY <3>1
      <4> QED BY <4>1, <4>2 DEF Consecutive
    <3>4. d[1] + SndBuf = m + 1 + SndBuf
      BY <3>1, Sizes
    <3>5. UpData(m, d, k)
      BY <3>1, <3>2, <3>3, <3>4 DEF UpData
    <3> QED BY <2>2, <3>1, <3>2, <3>5
  <2> QED BY <2>1, <2>2
<1> QED BY <1>3, <1>4 DEF d

\* The guest's own numbers, as far as its sending depends on them.
LEMMA GuestNumbers ==
    ASSUME IInv
    PROVE  /\ guest \in GuestSet /\ host \in HostSet /\ GuestInv(guest, host)
           /\ guest.una \in Nat /\ guest.nxt \in Nat /\ guest.wnd \in 0..SndBuf
           /\ guest.una <= guest.nxt /\ guest.nxt <= GuestLen + 1
           /\ guest.nxt <= guest.una + 1 + SndBuf
           /\ GuestLen \in Nat /\ SndBuf \in Nat /\ Chunk \in Nat
<1>1. guest \in GuestSet /\ host \in HostSet /\ GuestInv(guest, host)
  BY IInvFact
<1>2. guest.una \in Nat /\ guest.nxt \in Nat /\ guest.wnd \in 0..SndBuf /\ Taken(host) \in Nat
  BY <1>1, GuestFact, HostFact
<1>3. /\ guest.una <= Taken(host) /\ Taken(host) <= guest.nxt /\ guest.nxt <= GuestLen + 1
      /\ guest.nxt <= guest.una + SndBuf
         \/ (guest.nxt = GuestLen + 1 /\ GuestLen <= guest.una + SndBuf)
  BY <1>1 DEF GuestInv
<1>4. GuestLen \in Nat /\ SndBuf \in Nat /\ Chunk \in Nat
  BY Sizes
<1>5. guest.una <= guest.nxt /\ guest.nxt <= guest.una + 1 + SndBuf
  BY <1>2, <1>3, <1>4
<1> QED BY <1>1, <1>2, <1>3, <1>4, <1>5

\* The guest has sent up to m.
LEMMA NxtMoves ==
    ASSUME IInv, guest.state = "Established", NEW m \in Nat, guest.nxt <= m, m <= GuestLen + 1,
           m <= guest.una + SndBuf \/ (m = GuestLen + 1 /\ GuestLen <= guest.una + SndBuf)
    PROVE  LET k == [guest EXCEPT !.nxt = m]
           IN  /\ k \in GuestSet /\ GuestInv(k, host) /\ k.recv = guest.recv
               /\ k.fin = guest.fin /\ k.una = guest.una /\ k.unread = guest.unread
               /\ k.nxt = m /\ k.state = "Established"
<1> DEFINE k == [guest EXCEPT !.nxt = m]
<1>1. guest \in GuestSet /\ host \in HostSet /\ GuestInv(guest, host)
  BY GuestNumbers
<1>2. /\ k \in GuestSet /\ k.recv = guest.recv
      /\ k.fin = guest.fin /\ k.una = guest.una /\ k.unread = guest.unread
      /\ k.nxt = m /\ k.state = "Established"
  BY <1>1 DEF GuestSet
<1> HIDE DEF k
<1>3. Taken(host) <= k.nxt
  <2>1. Taken(host) <= guest.nxt /\ Taken(host) \in Nat /\ guest.nxt \in Nat
    BY <1>1, HostFact, GuestFact DEF GuestInv
  <2> QED BY <1>2, <2>1
<1>4. GuestInv(k, host)
  BY <1>1, <1>2, <1>3 DEF GuestInv
<1> QED BY <1>2, <1>4 DEF k

LEMMA GuestSendKeeps ==
    ASSUME IInv, GuestSend
    PROVE  IInv'
<1> DEFINE n == Min(Min(Chunk, Monus(GuestLen, guest.nxt)),
                    Monus(guest.wnd, guest.nxt - guest.una))
           data == [j \in 1..n |-> guest.nxt + j]
           Fl(psh, fin) == {"ACK"} \cup (IF psh THEN {"PSH"} ELSE {})
                                   \cup (IF fin = 1 THEN {"FIN"} ELSE {})
<1>1. guest.state = "Established" /\ n > 0
  BY DEF GuestSend
<1>2. PICK psh \in BOOLEAN, fin \in {0, 1} :
        /\ fin = 1 => guest.nxt + n = GuestLen
        /\ GuestSends([guest EXCEPT !.nxt = @ + n + fin],
                      <<GuestSegment(guest, guest.nxt, Fl(psh, fin), data)>>)
  BY DEF GuestSend
<1> DEFINE m == guest.nxt + n + fin
           k == [guest EXCEPT !.nxt = m]
           flags == Fl(psh, fin)
<1>3. /\ guest \in GuestSet /\ host \in HostSet /\ GuestInv(guest, host)
      /\ guest.una \in Nat /\ guest.nxt \in Nat /\ guest.wnd \in 0..SndBuf
      /\ guest.una <= guest.nxt /\ guest.nxt <= GuestLen + 1
      /\ GuestLen \in Nat /\ SndBuf \in Nat /\ Chunk \in Nat
  BY GuestNumbers
<1>4. /\ n \in Nat /\ guest.nxt + n <= GuestLen /\ guest.nxt + n <= guest.una + SndBuf
      /\ n <= SndBuf
  BY <1>1, <1>3 DEF Min, Monus
<1> HIDE DEF n
<1>5. /\ m \in Nat /\ guest.nxt <= m /\ m <= GuestLen + 1 /\ guest.nxt + n <= m
      /\ m <= guest.nxt + 1 + SndBuf
      /\ m <= guest.una + SndBuf \/ (m = GuestLen + 1 /\ GuestLen <= guest.una + SndBuf)
      /\ fin = 1 => m = GuestLen + 1
  BY SMTT(60), <1>2, <1>3, <1>4
<1>6. GuestSends(k, <<GuestSegment(guest, guest.nxt, flags, data)>>)
  BY <1>2
<1>7. /\ flags \in SUBSET Flags /\ "SYN" \notin flags /\ "RST" \notin flags
      /\ "FIN" \in flags => fin = 1
  BY <1>2 DEF Flags
<1> HIDE DEF m, flags, Fl
<1>8. /\ k \in GuestSet /\ GuestInv(k, host) /\ k.recv = guest.recv
      /\ k.fin = guest.fin /\ k.una = guest.una /\ k.unread = guest.unread
      /\ k.nxt = m /\ k.state = "Established"
  BY <1>1, <1>5, NxtMoves
<1> HIDE DEF k
<1>9. /\ data \in Seq(0..GuestLen) /\ UpData(guest.nxt, data, k)
      /\ data # <<>> /\ End(data) = guest.nxt + n
  BY <1>1, <1>3, <1>4, <1>5, <1>8, UpDataFact
<1> HIDE DEF data
<1>10. "FIN" \in flags => UpFin(guest.nxt, data, k)
  BY <1>2, <1>5, <1>7, <1>8, <1>9 DEF UpFin
<1>11. ~NotBegun /\ guest.nxt \in Int
  BY <1>1, <1>3 DEF NotBegun
<1> QED BY <1>1, <1>5, <1>6, <1>7, <1>8, <1>9, <1>10, <1>11, GuestSendsOne

LEMMA GuestCloseKeeps ==
    ASSUME IInv, GuestClose
    PROVE  IInv'
<1> DEFINE m == guest.nxt + 1
           k == [guest EXCEPT !.nxt = m]
           flags == {"FIN", "ACK"}
           data == <<>>
<1>1. guest.state = "Established" /\ guest.nxt = GuestLen
      /\ GuestSends(k, <<GuestSegment(guest, guest.nxt, flags, data)>>)
  BY DEF GuestClose
<1>2. /\ guest \in GuestSet /\ host \in HostSet /\ GuestInv(guest, host)
      /\ guest.una \in Nat /\ guest.nxt \in Nat
      /\ GuestLen \in Nat /\ SndBuf \in Nat
  BY GuestNumbers
<1>3. /\ m \in Nat /\ guest.nxt <= m /\ m <= GuestLen + 1 /\ m = GuestLen + 1
      /\ GuestLen <= guest.una + SndBuf
  <2>1. guest.nxt <= guest.una + SndBuf
        \/ (guest.nxt = GuestLen + 1 /\ GuestLen <= guest.una + SndBuf)
    BY <1>2 DEF GuestInv
  <2> QED BY <1>1, <1>2, <2>1
<1>4. /\ flags \in SUBSET Flags /\ "SYN" \notin flags /\ "RST" \notin flags
  BY DEF Flags
<1> HIDE DEF m, flags
<1>5. /\ k \in GuestSet /\ GuestInv(k, host) /\ k.recv = guest.recv
      /\ k.fin = guest.fin /\ k.una = guest.una /\ k.unread = guest.unread
      /\ k.nxt = m /\ k.state = "Established"
  BY <1>1, <1>3, NxtMoves
<1> HIDE DEF k
<1>6. data \in Seq(0..GuestLen) /\ UpData(guest.nxt, data, k) /\ UpFin(guest.nxt, data, k)
  BY <1>1, <1>3, <1>5, EmptySeq DEF UpData, UpFin
<1>7. ~NotBegun /\ guest.nxt \in Int
  BY <1>1, <1>2 DEF NotBegun
<1> HIDE DEF data
<1> QED BY <1>1, <1>3, <1>4, <1>5, <1>6, <1>7, GuestSendsOne

\* A SYN: all that is queued before it are SYNs.
LEMMA SynNew ==
    ASSUME NEW h \in HostSet, NEW k \in GuestSet, Seen(k) = 0, NEW q,
           \A i \in 1..Len(q) : "SYN" \in q[i].flags
    PROVE  NewUp(Syn, q, h, k) /\ Syn.flags = {"SYN"}
<1> DEFINE fl == {"SYN"}
           d == <<>>
           zero == 0
<1>1. /\ fl \in SUBSET Flags /\ d \in Seq(0..(HostLen + GuestLen)) /\ zero \in Int
      /\ GuestISN \in Int /\ GuestBuf \in 0..(SndBuf + GuestBuf) /\ GuestBuf <= GuestBuf
  BY EmptyData, Sizes DEF Flags
<1>2. Syn = Segment(GuestISN, zero, GuestBuf, fl, d)
  BY DEF Syn
<1> HIDE DEF fl, d, zero
<1>3. /\ Syn \in Segments /\ Syn.seq = GuestISN % SeqMod /\ Syn.win = GuestBuf
      /\ Syn.flags = fl /\ Syn.data = d
  BY <1>1, <1>2, SegmentFact
<1>4. GuestISN % SeqMod = GuestISN
  BY Sizes, SeqModFact, ModSmall
<1>5. Syn.flags = {"SYN"} /\ Syn.data = <<>>
  BY <1>3 DEF fl, d
<1>6. UpSeg(Syn, h, k)
  BY <1>1, <1>3, <1>4, <1>5 DEF UpSeg
<1>7. UpAck(Syn, Seen(k), 0, k)
  BY <1>5 DEF UpAck
<1> QED BY <1>3, <1>5, <1>6, <1>7 DEF NewUp

LEMMA GuestRetransmitKeeps ==
    ASSUME IInv, guest.state = "Established", guest.una < guest.nxt,
           LET n == Min(Chunk, Min(guest.nxt, GuestLen) - guest.una)
               fin == guest.una + n = GuestLen /\ guest.nxt > GuestLen
           IN  GuestSends(guest,
                 <<GuestSegment(guest, guest.una,
                     {"ACK", "PSH"} \cup (IF fin THEN {"FIN"} ELSE {}),
                     [j \in 1..n |-> guest.una + j])>>)
    PROVE  IInv'
<1> DEFINE n == Min(Chunk, Min(guest.nxt, GuestLen) - guest.una)
           fin == guest.una + n = GuestLen /\ guest.nxt > GuestLen
           flags == {"ACK", "PSH"} \cup (IF fin THEN {"FIN"} ELSE {})
           data == [j \in 1..n |-> guest.una + j]
<1>1. GuestSends(guest, <<GuestSegment(guest, guest.una, flags, data)>>)
  OBVIOUS
<1>2. /\ guest \in GuestSet /\ host \in HostSet /\ GuestInv(guest, host)
      /\ guest.una \in Nat /\ guest.nxt \in Nat
      /\ guest.una <= guest.nxt /\ guest.nxt <= GuestLen + 1
      /\ guest.nxt <= guest.una + 1 + SndBuf
      /\ GuestLen \in Nat /\ SndBuf \in Nat /\ Chunk \in Nat
  BY GuestNumbers
<1>3. n \in Nat /\ guest.una + n <= GuestLen /\ guest.una + n <= guest.nxt
  BY SMTT(60), <1>2 DEF Min
<1> HIDE DEF n
<1>4. /\ flags \in SUBSET Flags /\ "SYN" \notin flags /\ "RST" \notin flags
      /\ "FIN" \in flags => fin
  BY DEF Flags
<1>5. /\ data \in Seq(0..GuestLen) /\ UpData(guest.una, data, guest)
      /\ n > 0 => data # <<>> /\ End(data) = guest.una + n
      /\ n = 0 => data = <<>>
  BY <1>2, <1>3, UpDataFact
<1> HIDE DEF data
<1>6. "FIN" \in flags => UpFin(guest.una, data, guest)
  <2> SUFFICES ASSUME "FIN" \in flags PROVE UpFin(guest.una, data, guest)
    OBVIOUS
  <2>1. guest.una + n = GuestLen /\ guest.nxt > GuestLen
    BY <1>4
  <2>2. guest.nxt = GuestLen + 1
    BY <1>2, <2>1
  <2>3. CASE n = 0
    <3>1. guest.una = GuestLen
      BY <1>2, <2>1, <2>3
    <3> QED BY <1>5, <2>2, <2>3, <3>1 DEF UpFin
  <2>4. CASE n > 0
    BY <1>5, <2>1, <2>2, <2>4 DEF UpFin
  <2> QED BY <1>3, <2>3, <2>4
<1> HIDE DEF flags, fin
<1>7. ~NotBegun /\ guest.una \in Int /\ guest.nxt <= guest.nxt
  BY <1>2 DEF NotBegun
<1> QED BY <1>1, <1>2, <1>4, <1>5, <1>6, <1>7, GuestSendsOne

LEMMA GuestProbeKeeps ==
    ASSUME IInv, GuestProbe
    PROVE  IInv'
<1> DEFINE m == guest.una - 1
           flags == {"ACK"}
           data == <<>>
<1>1. guest.state = "Established"
      /\ GuestSends(guest, <<GuestSegment(guest, m, flags, data)>>)
  BY DEF GuestProbe
<1>2. /\ guest \in GuestSet /\ host \in HostSet /\ GuestInv(guest, host)
      /\ guest.una \in Nat /\ guest.nxt \in Nat
  BY GuestNumbers
<1>3. /\ flags \in SUBSET Flags /\ "SYN" \notin flags /\ "RST" \notin flags
      /\ "FIN" \notin flags
  BY DEF Flags
<1>4. data \in Seq(0..GuestLen) /\ UpData(m, data, guest)
  BY EmptySeq DEF UpData
<1>5. ~NotBegun /\ m \in Int /\ guest.nxt <= guest.nxt
  BY <1>1, <1>2 DEF NotBegun
<1> HIDE DEF m, flags, data
<1> QED BY <1>1, <1>2, <1>3, <1>4, <1>5, GuestSendsOne

LEMMA GuestAbortKeeps ==
    ASSUME IInv, GuestAbort
    PROVE  IInv'
<1> DEFINE k == [guest EXCEPT !.state = "Reset"]
           flags == {"RST", "ACK"}
           data == <<>>
           s == GuestSegment(guest, guest.nxt, flags, data)
<1>1. guest.state \in {"SynSent", "Established"} /\ GuestSends(k, <<s>>)
  BY DEF GuestAbort
<1>2. /\ guest \in GuestSet /\ host \in HostSet /\ GuestInv(guest, host)
      /\ guest.nxt \in Nat
  BY GuestNumbers
<1>3. /\ flags \in SUBSET Flags /\ "SYN" \notin flags /\ "FIN" \notin flags
  BY DEF Flags
<1>4. /\ k \in GuestSet /\ k.state = "Reset" /\ k.recv = guest.recv /\ k.fin = guest.fin
      /\ k.una = guest.una /\ k.unread = guest.unread /\ k.nxt = guest.nxt
  BY <1>2 DEF GuestSet
<1> HIDE DEF k
<1>5. GuestInv(k, host)
  BY <1>2, <1>4 DEF GuestInv
<1>6. data \in Seq(0..GuestLen) /\ UpData(guest.nxt, data, k)
  BY EmptySeq DEF UpData
<1>7. guest.nxt \in Int /\ guest.nxt <= k.nxt
  BY <1>2, <1>4
<1>8. s.flags = flags /\ "RST" \in flags
  BY DEF GuestSegment, Segment
<1>9. NewUp(s, toPresto, host, k)
  <2> HIDE DEF flags, data
  <2> QED BY <1>2, <1>3, <1>4, <1>5, <1>6, <1>7, GuestSegmentNew
<1>10. NotBegun => NotBegun'
  <2> SUFFICES ASSUME NotBegun PROVE NotBegun'
    OBVIOUS
  <2>1. guest' = k /\ toPresto' = Queue(toPresto, <<s>>)
        /\ UNCHANGED <<toGuest, host>>
    BY <1>1 DEF GuestSends
  <2> HIDE DEF s
  <2> DEFINE segs == <<s>>
             p == Queue(toPresto, segs)
  <2>2. segs \in Seq(Segments) /\ Len(segs) = 1 /\ segs[1] = s
    BY <1>9, OneSegment DEF NewUp
  <2>3. toPresto \in Seq(Segments) /\ Len(toPresto) <= TapQueue /\ Len(toPresto) \in Nat
    BY IInvFact, LenProperties
  <2> HIDE DEF segs
  <2>4. /\ Len(p) \in Nat
        /\ \A i \in 1..Len(toPresto) : p[i] = toPresto[i]
        /\ \A i \in 1..Len(p) : i > Len(toPresto) =>
              i - Len(toPresto) \in 1..Len(segs) /\ p[i] = segs[i - Len(toPresto)]
    BY <2>2, <2>3, QueueFact, LenProperties
  <2> HIDE DEF p
  <2>5. ASSUME NEW i \in 1..Len(p) PROVE "SYN" \in p[i].flags \/ "RST" \in p[i].flags
    <3>1. CASE i > Len(toPresto)
      <4>1. i - Len(toPresto) = 1
        BY <2>2, <2>3, <2>4, <3>1
      <4>2. p[i] = s
        BY <2>2, <2>4, <3>1, <4>1
      <4> QED BY <1>8, <4>2
    <3>2. CASE ~(i > Len(toPresto))
      <4>1. i \in 1..Len(toPresto) /\ p[i] = toPresto[i]
        BY <2>3, <2>4, <3>2
      <4> QED BY <4>1 DEF NotBegun
    <3> QED BY <3>1, <3>2
  <2>6. toPresto' = p
    BY <2>1 DEF p, segs
  <2> QED BY <1>4, <2>1, <2>5, <2>6 DEF NotBegun
<1> HIDE DEF flags, data
<1> QED BY <1>1, <1>2, <1>3, <1>4, <1>5, <1>6, <1>7, <1>10, GuestSendsOne DEF s

LEMMA GuestReadKeeps ==
    ASSUME IInv, GuestRead
    PROVE  IInv'
<1> DEFINE k == [guest EXCEPT !.unread = 0]
           flags == {"ACK"}
           data == <<>>
           s == GuestSegment(k, k.nxt, flags, data)
           segs == IF GuestWindow(guest) = 0 THEN <<s>> ELSE <<>>
<1>1. guest.state = "Established" /\ GuestSends(k, segs)
  BY DEF GuestRead, GuestAck
<1>2. /\ guest \in GuestSet /\ host \in HostSet /\ GuestInv(guest, host)
      /\ guest.nxt \in Nat /\ guest.unread \in 0..GuestBuf /\ Len(guest.recv) \in Nat
  BY GuestNumbers, GuestFact
<1>3. /\ flags \in SUBSET Flags /\ "SYN" \notin flags /\ "RST" \notin flags
      /\ "FIN" \notin flags
  BY DEF Flags
<1>4. /\ k \in GuestSet /\ k.state = "Established" /\ k.recv = guest.recv
      /\ k.fin = guest.fin /\ k.una = guest.una /\ k.unread = 0 /\ k.nxt = guest.nxt
  <2>1. 0 \in 0..GuestBuf
    BY Sizes
  <2> QED BY <1>1, <1>2, <2>1 DEF GuestSet
<1> HIDE DEF k
<1>5. GuestInv(k, host)
  BY <1>2, <1>4 DEF GuestInv
<1>6. data \in Seq(0..GuestLen) /\ UpData(k.nxt, data, k)
  BY EmptySeq DEF UpData
<1>7. k.nxt \in Int /\ guest.nxt <= k.nxt
  BY <1>2, <1>4
<1>8. Edge(guest) <= Edge(k)
  <2>1. Edge(guest) = Len(guest.recv) + GuestBuf - guest.unread
        /\ Edge(k) = Len(k.recv) + GuestBuf - k.unread
    BY <1>2, <1>4, GuestFact
  <2> QED BY <1>2, <1>4, <2>1, Sizes
<1>9. s.flags = flags
  BY DEF GuestSegment, Segment
<1>10. NewUp(s, toPresto, host, k)
  <2> HIDE DEF flags, data
  <2> QED BY <1>2, <1>3, <1>4, <1>5, <1>6, <1>7, GuestSegmentNew
<1> HIDE DEF s
<1>11. <<s>> \in Seq(Segments) /\ Len(<<s>>) = 1 /\ <<s>>[1] = s
  BY <1>10, OneSegment DEF NewUp
<1>12. <<>> \in Seq(Segments) /\ Len(<<>>) = 0
  BY EmptySeq
<1>13. /\ segs \in Seq(Segments) /\ Len(segs) <= 1
       /\ \A i \in 1..Len(segs) : segs[i] = s
  BY <1>11, <1>12
<1> HIDE DEF segs
<1>14. /\ \A i \in 1..Len(segs) : NewUp(segs[i], toPresto, host, k)
       /\ \A i \in 1..Len(segs) : "SYN" \notin segs[i].flags
  BY <1>3, <1>9, <1>10, <1>13
<1>15. ~NotBegun
  BY <1>1 DEF NotBegun
<1> QED BY <1>1, <1>4, <1>5, <1>7, <1>8, <1>13, <1>14, <1>15, GuestSendsKeeps

\* The first SYN, or the same again while it is unanswered.
LEMMA SynKeeps ==
    ASSUME IInv, guest.state = "Closed" \/ (SynRetries /\ guest.state = "SynSent"),
           NEW k \in GuestSet, k.state = "SynSent", k.recv = guest.recv,
           k.fin = guest.fin, k.una = guest.una, k.unread = guest.unread,
           k.nxt = guest.nxt, k.wnd = guest.wnd, GuestSends(k, <<Syn>>)
    PROVE  IInv'
<1> DEFINE segs == <<Syn>>
<1>1. guest' = k /\ toPresto' = Queue(toPresto, segs)
      /\ UNCHANGED <<t, ring, toGuest, host, ended>>
  BY DEF GuestSends
<1>2. /\ host \in HostSet /\ guest \in GuestSet /\ HostInv(host, guest)
      /\ GuestInv(guest, host) /\ DownInv(toGuest, host, guest) /\ Life
      /\ toPresto \in Seq(Segments) /\ Len(toPresto) <= TapQueue /\ Len(toPresto) \in Nat
      /\ UpInv(toPresto, host, guest, Lo)
  BY IInvFact, LenProperties
<1>3. guest.recv = <<>> /\ ~guest.fin
  BY <1>2 DEF GuestInv
<1>4. Seen(k) = 0
  BY <1>3 DEF Seen, Bit
<1>5. \A i \in 1..Len(toPresto) : "SYN" \in toPresto[i].flags
  <2>1. guest.state \notin {"Established", "Reset"}
    OBVIOUS
  <2> QED BY <1>2, <2>1 DEF UpInv, UpSeg
<1>6. NewUp(Syn, toPresto, host, k) /\ "SYN" \in Syn.flags
  BY <1>2, <1>4, <1>5, SynNew
<1>7. segs \in Seq(Segments) /\ Len(segs) = 1 /\ segs[1] = Syn
  BY <1>6, OneSegment DEF NewUp
<1> HIDE DEF segs
<1>8. Len(segs) <= 1 /\ \A i \in 1..Len(segs) : NewUp(segs[i], toPresto, host, k)
  BY <1>6, <1>7
<1>9. Edge(k) = Edge(guest) /\ Edge(guest) \in Nat /\ Edge(guest) + Bit(guest.fin) \in Nat
      /\ Seen(guest) = Seen(k) /\ Len(guest.recv) \in Nat /\ guest.nxt \in Nat
  BY SMTT(60), <1>2, GuestFact DEF Edge, GuestWindow, Seen
<1>10. DownInv(toGuest', host, k)
  <2>1. Edge(guest) <= Edge(k)
    BY <1>9
  <2> QED BY <1>1, <1>2, <2>1, DownGuest
<1>11. GuestInv(k, host)
  BY <1>2 DEF GuestInv
<1>12. GuestGrows(guest, k)
  <2>1. k.nxt <= GuestLen + 1
    BY <1>11 DEF GuestInv
  <2>2. GuestMoves(guest, k)
    BY <1>4, <1>9, <2>1 DEF GuestMoves
  <2> QED BY <1>9, <2>2 DEF GuestGrows
<1>13. Len(k.recv) <= host.read
  BY <1>2 DEF HostInv
<1>14. Life'
  <2> DEFINE p == Queue(toPresto, segs)
  <2>1. /\ Len(p) \in Nat /\ Len(p) <= Len(toPresto) + 1
        /\ \A i \in 1..Len(toPresto) : p[i] = toPresto[i]
        /\ \A i \in 1..Len(p) : i > Len(toPresto) =>
              i - Len(toPresto) \in 1..Len(segs) /\ p[i] = segs[i - Len(toPresto)]
    BY <1>2, <1>7, QueueFact, LenProperties
  <2>2. toPresto' = p
    BY <1>1
  <2> HIDE DEF p
  <2>3. ASSUME NEW i \in 1..Len(p) PROVE "SYN" \in p[i].flags
    <3>1. CASE i > Len(toPresto)
      <4>1. i - Len(toPresto) = 1
        BY <1>2, <1>7, <2>1, <3>1
      <4>2. p[i] = Syn
        BY <1>7, <2>1, <3>1, <4>1
      <4> QED BY <1>6, <4>2
    <3>2. CASE ~(i > Len(toPresto))
      <4>1. i \in 1..Len(toPresto) /\ p[i] = toPresto[i]
        BY <1>2, <2>1, <3>2
      <4> QED BY <1>5, <4>1
    <3> QED BY <3>1, <3>2
  <2>4. NotBegun => NotBegun'
    BY <1>1, <2>2, <2>3 DEF NotBegun
  <2>5. OneConnection \/ guest.state = "Closed" => ended = "no"
    BY <1>2 DEF Life
  <2>6. ~SynRetries => t = NoFlow /\ OneSyn(p)
    <3> SUFFICES ASSUME ~SynRetries PROVE t = NoFlow /\ OneSyn(p)
      OBVIOUS
    <3>1. guest.state = "Closed"
      OBVIOUS
    <3>2. t = NoFlow /\ toPresto = <<>>
      BY <1>2, <3>1 DEF Life
    <3>3. Len(p) <= 1
      BY <2>1, <3>2
    <3>4. \A i, j \in 1..Len(p) : i = j
      BY <2>1, <3>3
    <3> QED BY <3>2, <3>4 DEF OneSyn
  <2> QED BY <1>1, <1>2, <2>2, <2>4, <2>5, <2>6 DEF Life, OneFlow
<1> QED BY <1>1, <1>7, <1>8, <1>10, <1>11, <1>12, <1>13, <1>14, GuestStepKeeps

LEMMA GuestTimerKeeps ==
    ASSUME IInv, GuestConnect \/ GuestTimer
    PROVE  IInv'
<1>1. guest \in GuestSet
  BY GuestNumbers
<1>2. CASE GuestConnect
  <2> DEFINE k == [guest EXCEPT !.state = "SynSent"]
  <2>1. guest.state = "Closed" /\ GuestSends(k, <<Syn>>)
    BY <1>2 DEF GuestConnect
  <2>2. /\ k \in GuestSet /\ k.state = "SynSent" /\ k.recv = guest.recv
        /\ k.fin = guest.fin /\ k.una = guest.una /\ k.unread = guest.unread
        /\ k.nxt = guest.nxt /\ k.wnd = guest.wnd
    BY <1>1 DEF GuestSet
  <2> HIDE DEF k
  <2> QED BY <2>1, <2>2, SynKeeps
<1>3. CASE GuestRetransmit
  <2>1. CASE SynRetries /\ guest.state = "SynSent" /\ GuestSends(guest, <<Syn>>)
    BY <1>1, <2>1, SynKeeps
  <2>2. CASE /\ guest.state = "Established" /\ guest.una < guest.nxt
             /\ LET n == Min(Chunk, Min(guest.nxt, GuestLen) - guest.una)
                    fin == guest.una + n = GuestLen /\ guest.nxt > GuestLen
                IN  GuestSends(guest,
                      <<GuestSegment(guest, guest.una,
                          {"ACK", "PSH"} \cup (IF fin THEN {"FIN"} ELSE {}),
                          [j \in 1..n |-> guest.una + j])>>)
    BY <2>2, GuestRetransmitKeeps
  <2> QED BY <1>3, <2>1, <2>2 DEF GuestRetransmit
<1>4. CASE GuestProbe
  BY <1>4, GuestProbeKeeps
<1> QED BY <1>2, <1>3, <1>4 DEF GuestTimer

\* What the guest takes of a segment's data: nothing, or all that is new,
\* however the sequence numbers wrap.
LEMMA NewData ==
    ASSUME NEW h \in HostSet, NEW g \in GuestSet, HostInv(h, g), GuestInv(g, h), ~g.fin,
           NEW s \in Segments, DownSeg(s, h, g), s.data # <<>>
    PROVE  LET old == Dist(s.seq, SeqOf(TCP_ISN, 1 + Len(g.recv)))
           IN  \/ old >= Len(s.data)
               \/ /\ old \in Nat /\ old < Len(s.data)
                  /\ s.data[1] + old = Len(g.recv) + 1
                  /\ Len(s.data) <= old + GuestWindow(g)
<1> DEFINE n == Len(g.recv)
           d == s.data[1]
           len == Len(s.data)
           old == Dist(s.seq, SeqOf(TCP_ISN, 1 + n))
           w == GuestWindow(g)
<1>1. /\ n \in Nat /\ d \in Nat /\ len \in Nat /\ len >= 1 /\ w \in 0..GuestBuf
      /\ End(s.data) = d + len - 1
  BY GuestFact, SegmentsFact, EndFact
<1>2. Edge(g) = n + w
  BY DEF Edge
<1>3. /\ s.seq = SeqOf(TCP_ISN, d) /\ n < d + FRAME /\ d + len - 1 <= n + w /\ d >= 1
  BY <1>1, <1>2 DEF DownSeg, Consecutive
<1>4. /\ TCP_ISN \in Int /\ FRAME \in Nat /\ GuestBuf \in Nat /\ SeqMod \in Nat
      /\ SeqMod > FRAME + GuestBuf + 2
  BY SMTT(60), TcpFlowAssumption
<1> HIDE DEF n, d, len, w
<1>5. CASE d <= n + 1
  <2>1. d <= 1 + n /\ (1 + n) - d < SeqMod /\ 1 + n \in Int /\ d \in Int
    BY SMTT(60), <1>1, <1>3, <1>4, <1>5
  <2>2. Dist(SeqOf(TCP_ISN, d), SeqOf(TCP_ISN, 1 + n)) = (1 + n) - d
    BY <1>4, <2>1, DistSmall
  <2>3. old = (1 + n) - d
    BY <1>3, <2>2
  <2> HIDE DEF old
  <2>4. old \in Nat /\ d + old = n + 1 /\ len <= old + w
    BY <1>1, <1>3, <1>5, <2>3
  <2> QED BY <1>1, <2>4 DEF n, d, len, w, old
<1>6. CASE d > n + 1
  <2>1. 1 + n < d /\ d - (1 + n) <= SeqMod /\ 1 + n \in Int /\ d \in Int
    BY SMTT(60), <1>1, <1>3, <1>4, <1>6
  <2>2. Dist(SeqOf(TCP_ISN, d), SeqOf(TCP_ISN, 1 + n)) = SeqMod + (1 + n) - d
    BY <1>4, <2>1, DistBehind
  <2>3. old = SeqMod + (1 + n) - d
    BY <1>3, <2>2
  <2> HIDE DEF old
  <2>4. old >= len
    BY SMTT(60), <1>1, <1>3, <1>4, <2>3
  <2> QED BY <2>4 DEF n, d, len, w, old
<1> QED BY <1>1, <1>5, <1>6

\* The stream with the new part of a segment appended.
LEMMA StreamGrows ==
    ASSUME NEW r \in Seq(Nat), \A i \in 1..Len(r) : r[i] = i,
           NEW s \in Segments, s.data # <<>>, Consecutive(s.data),
           NEW old \in Nat, old < Len(s.data), s.data[1] + old = Len(r) + 1
    PROVE  LET new == SubSeq(s.data, old + 1, Len(s.data))
           IN  /\ new \in Seq(Nat) /\ Len(new) = Len(s.data) - old
               /\ r \o new \in Seq(Nat) /\ Len(r \o new) = End(s.data)
               /\ Len(r \o new) = Len(r) + Len(new)
               /\ \A i \in 1..Len(r \o new) : (r \o new)[i] = i
<1> DEFINE d == s.data
           len == Len(d)
           new == SubSeq(d, old + 1, len)
           x == r \o new
<1>1. /\ len \in Nat /\ d[1] \in Nat /\ d \in Seq(0..(HostLen + GuestLen))
      /\ Len(r) \in Nat /\ End(d) = d[1] + len - 1
      /\ d[1] + old = Len(r) + 1 /\ old < len
  BY SegmentsFact, EndFact, LenProperties
<1>2. \A j \in 1..len : d[j] = d[1] + j - 1
  BY DEF Consecutive
<1>3. \A i \in (old + 1)..len : d[i] \in Nat
  <2> SUFFICES ASSUME NEW i \in (old + 1)..len PROVE d[i] \in Nat
    OBVIOUS
  <2>1. i \in 1..len /\ i \in Nat /\ i >= 1
    BY <1>1
  <2>2. d[i] = d[1] + i - 1
    BY <1>2, <2>1
  <2> QED BY <1>1, <2>1, <2>2
<1>4. /\ new \in Seq(Nat) /\ Len(new) = len - old
      /\ \A i \in 1..(len - old) : new[i] = d[old + i]
  <2> HIDE DEF d, len
  <2>1. /\ SubSeq(d, old + 1, len) \in Seq(Nat)
        /\ Len(SubSeq(d, old + 1, len))
             = IF old + 1 <= len THEN len - (old + 1) + 1 ELSE 0
        /\ \A i \in 1..(len - (old + 1) + 1) :
             SubSeq(d, old + 1, len)[i] = d[(old + 1) + i - 1]
    <3>1. old + 1 \in Int /\ len \in Int
      BY <1>1
    <3> QED BY <1>3, <3>1, SubSeqProperties
  <2>2. old + 1 <= len
    BY <1>1
  <2>3. len - (old + 1) + 1 = len - old
    BY <1>1
  <2>4. ASSUME NEW i \in 1..(len - old) PROVE new[i] = d[old + i]
    <3>1. (old + 1) + i - 1 = old + i /\ i \in 1..(len - (old + 1) + 1)
      BY <1>1, <2>3
    <3> QED BY <2>1, <3>1
  <2> QED BY <2>1, <2>2, <2>3, <2>4
<1> HIDE DEF new
<1>5. /\ x \in Seq(Nat) /\ Len(x) = Len(r) + Len(new)
      /\ \A i \in 1..Len(r) + Len(new) :
            x[i] = IF i <= Len(r) THEN r[i] ELSE new[i - Len(r)]
  BY <1>4, ConcatProperties
<1> DEFINE m == Len(r)
           n == Len(new)
           first == d[1]
<1> HIDE DEF x, d, len
<1>6. Len(x) = End(d)
  <2>1. m \in Nat /\ n = len - old /\ Len(x) = m + n /\ first + old = m + 1
        /\ first \in Nat /\ len \in Nat /\ End(d) = first + len - 1
    BY <1>1, <1>4, <1>5
  <2> HIDE DEF m, n, first
  <2> QED BY <2>1
<1>7. ASSUME NEW i \in 1..Len(x) PROVE x[i] = i
  <2>1. i \in 1..Len(r) + Len(new) /\ i \in Nat /\ i >= 1
    BY <1>1, <1>4, <1>5
  <2>2. CASE i <= Len(r)
    <3>1. i \in 1..Len(r)
      BY <1>1, <2>1, <2>2
    <3>2. x[i] = r[i]
      BY <1>5, <2>1, <2>2
    <3> QED BY <3>1, <3>2
  <2>3. CASE i > Len(r)
    <3> DEFINE j == i - Len(r)
    <3>1. j \in 1..(len - old) /\ j \in Nat /\ j >= 1 /\ x[i] = new[j]
      <4>1. x[i] = new[j]
        BY <1>1, <1>5, <2>1, <2>3
      <4>2. m \in Nat /\ n = len - old /\ i \in 1..m + n /\ i > m /\ j = i - m
        BY <1>1, <1>4, <2>1, <2>3
      <4> HIDE DEF m, n, j
      <4>3. j \in 1..(len - old) /\ j \in Nat /\ j >= 1
        BY <1>1, <4>2
      <4> QED BY <4>1, <4>3
    <3>2. x[i] = d[old + j]
      BY <1>4, <3>1
    <3>3. old + j \in 1..len
      BY <1>1, <3>1
    <3>4. d[old + j] = d[1] + (old + j) - 1
      BY <1>2, <3>3
    <3>5. d[1] + (old + j) - 1 = Len(r) + j
      <4>1. first + old = m + 1 /\ m \in Nat /\ first \in Nat
        BY <1>1
      <4> HIDE DEF j, m, first
      <4>2. first + (old + j) - 1 = m + j
        BY <3>1, <4>1
      <4> QED BY <4>2 DEF m, first
    <3>6. Len(r) + j = i
      BY <1>1, <2>1
    <3> QED BY <3>2, <3>4, <3>5, <3>6
  <2> QED BY <1>1, <2>1, <2>2, <2>3
<1> QED BY <1>4, <1>5, <1>6, <1>7 DEF new, x, d, len

\* The numbers behind the ack and the data of a segment the guest takes.
LEMMA AckedFact ==
    ASSUME NEW h \in HostSet, NEW g \in GuestSet, GuestInv(g, h),
           NEW a \in Nat, g.una <= a, a <= Taken(h)
    PROVE  /\ Dist(GuestSeq(g.una), SeqOf(GuestISN, 1 + a)) = a - g.una
           /\ a - g.una <= g.nxt - g.una /\ g.una + (a - g.una) = a
<1> DEFINE u == g.una
           x == g.nxt
           y == Taken(h)
<1>1. u \in Nat /\ x \in Nat /\ y \in Nat
  BY GuestFact, HostFact
<1>2. u <= a /\ a <= y /\ y <= x
      /\ (x <= u + SndBuf \/ (x = GuestLen + 1 /\ GuestLen <= u + SndBuf))
  BY DEF GuestInv
<1>3. GuestISN \in Int /\ SndBuf \in Nat /\ GuestLen \in Nat /\ SeqMod \in Nat
      /\ SeqMod > SndBuf + SndBuf + 4
  BY Sizes
<1> HIDE DEF u, x, y
<1>4. 1 + u <= 1 + a /\ (1 + a) - (1 + u) < SeqMod /\ 1 + a \in Int /\ 1 + u \in Int
  BY <1>1, <1>2, <1>3
<1>5. Dist(SeqOf(GuestISN, 1 + u), SeqOf(GuestISN, 1 + a)) = (1 + a) - (1 + u)
  BY <1>3, <1>4, DistSmall
<1>6. (1 + a) - (1 + u) = a - u /\ a - u <= x - u /\ u + (a - u) = a
  BY <1>1, <1>2
<1> QED BY <1>5, <1>6 DEF GuestSeq, u, x

\* The data that is taken: how the stream and the unread part grow.
Takes(g, h, s, new) ==
    /\ new \in Seq(Nat) /\ g.recv \o new \in Seq(Nat)
    /\ Len(g.recv \o new) = Len(g.recv) + Len(new)
    /\ \A i \in 1..Len(g.recv \o new) : (g.recv \o new)[i] = i
    /\ g.unread + Len(new) <= GuestBuf
    /\ Len(g.recv) + Len(new) <= h.read
    /\ Len(new) = 0 \/ (~g.fin /\ s.data # <<>> /\ Len(g.recv) + Len(new) <= End(s.data))

LEMMA TakesNone ==
    ASSUME NEW h \in HostSet, NEW g \in GuestSet, HostInv(h, g), GuestInv(g, h), NEW s
    PROVE  Takes(g, h, s, <<>>)
<1>1. g.recv \in Seq(Nat) /\ Len(g.recv) \in Nat /\ g.unread \in 0..GuestBuf
  BY GuestFact
<1>2. g.recv \o <<>> = g.recv /\ <<>> \in Seq(Nat) /\ Len(<<>>) = 0
  BY <1>1, ConcatEmptySeq, EmptySeq
<1>3. Len(g.recv) <= h.read /\ \A i \in 1..Len(g.recv) : g.recv[i] = i
  BY DEF HostInv, GuestInv
<1>4. Len(g.recv) = Len(g.recv) + 0 /\ g.unread + 0 <= GuestBuf /\ Len(g.recv) + 0 <= h.read
  BY <1>1, <1>3, Sizes
<1> QED BY <1>1, <1>2, <1>3, <1>4 DEF Takes

LEMMA TakesNew ==
    ASSUME NEW h \in HostSet, NEW g \in GuestSet, HostInv(h, g), GuestInv(g, h),
           NEW s \in Segments, DownSeg(s, h, g), NEW e \in GuestSet,
           e.recv = g.recv, e.fin = g.fin, e.unread = g.unread
    PROVE  LET old == Dist(s.seq, RcvNxt(e))
               new == IF e.fin \/ old >= Len(s.data) THEN <<>>
                      ELSE SubSeq(s.data, old + 1,
                                  Min(Len(s.data), old + GuestWindow(e)))
           IN  Takes(g, h, s, new)
<1> DEFINE old == Dist(s.seq, RcvNxt(e))
           new == IF e.fin \/ old >= Len(s.data) THEN <<>>
                  ELSE SubSeq(s.data, old + 1, Min(Len(s.data), old + GuestWindow(e)))
           len == Len(s.data)
           n == Len(g.recv)
           w == GuestWindow(g)
<1> SUFFICES Takes(g, h, s, new)
  OBVIOUS
<1>1. CASE e.fin \/ old >= len
  <2>1. new = <<>>
    BY <1>1
  <2> QED BY <2>1, TakesNone
<1>2. CASE ~(e.fin \/ old >= len)
  <2>1. ~g.fin /\ GuestWindow(e) = w
    BY <1>2 DEF GuestWindow
  <2>2. RcvNxt(e) = SeqOf(TCP_ISN, 1 + n)
    <3>1. n \in Nat
      BY GuestFact
    <3>2. RcvNxt(e) = SeqOf(TCP_ISN, 1 + n + 0)
      BY <2>1 DEF RcvNxt
    <3>3. 1 + n + 0 = 1 + n
      BY <3>1
    <3> QED BY <3>2, <3>3
  <2>3. s.data # <<>>
    <3> SUFFICES ASSUME s.data = <<>> PROVE FALSE
      OBVIOUS
    <3>1. len = 0
      BY SegmentsFact
    <3>2. old \in Nat
      <4>1. s.seq \in Int
        BY SegmentsFact
      <4>2. RcvNxt(e) \in Int
        <5>1. TCP_ISN \in Int /\ 1 + n \in Int
          BY Sizes, GuestFact
        <5>2. SeqOf(TCP_ISN, 1 + n) \in 0..SeqMod-1
          BY <5>1, SeqOfType
        <5> QED BY <2>2, <5>2, Sizes
      <4> DEFINE x == s.seq
                 y == RcvNxt(e)
      <4> HIDE DEF x, y
      <4>3. y - x \in Int
        BY <4>1, <4>2 DEF x, y
      <4>4. (y - x) % SeqMod \in 0..SeqMod-1
        BY <4>3, SeqModFact, ModDef
      <4>5. (y - x) % SeqMod \in Nat
        BY <4>4, Sizes
      <4> QED BY <4>5 DEF Dist, x, y
    <3> QED BY <1>2, <3>1, <3>2
  <2>4. \/ old >= len
        \/ /\ old \in Nat /\ old < len /\ s.data[1] + old = n + 1
           /\ len <= old + w
    BY <2>1, <2>2, <2>3, NewData
  <2>5. /\ old \in Nat /\ old < len /\ s.data[1] + old = n + 1 /\ len <= old + w
    BY <1>2, <2>4
  <2>6. len \in Nat /\ w \in Nat
    BY SegmentsFact, GuestFact
  <2> HIDE DEF old
  <2>7. Min(len, old + w) = len
    BY <2>5, <2>6 DEF Min
  <2>8. new = SubSeq(s.data, old + 1, len)
    BY <1>2, <2>1, <2>7
  <2>9. /\ g.recv \in Seq(Nat) /\ (\A i \in 1..Len(g.recv) : g.recv[i] = i)
        /\ Consecutive(s.data) /\ End(s.data) <= h.read /\ End(s.data) <= Edge(g)
    BY <2>3, GuestFact DEF GuestInv, DownSeg
  <2>10. LET z == SubSeq(s.data, old + 1, Len(s.data))
         IN  /\ z \in Seq(Nat) /\ Len(z) = Len(s.data) - old
             /\ g.recv \o z \in Seq(Nat) /\ Len(g.recv \o z) = End(s.data)
             /\ Len(g.recv \o z) = Len(g.recv) + Len(z)
             /\ \A i \in 1..Len(g.recv \o z) : (g.recv \o z)[i] = i
    BY <2>3, <2>5, <2>9, StreamGrows
  <2> HIDE DEF new
  <2>11. /\ new \in Seq(Nat) /\ g.recv \o new \in Seq(Nat)
         /\ Len(g.recv \o new) = End(s.data)
         /\ Len(g.recv \o new) = Len(g.recv) + Len(new)
         /\ \A i \in 1..Len(g.recv \o new) : (g.recv \o new)[i] = i
    BY <2>8, <2>10
  <2>12. g.unread + Len(new) <= GuestBuf /\ Len(g.recv) + Len(new) <= h.read
         /\ Len(g.recv) + Len(new) <= End(s.data)
    <3> DEFINE m == Len(new)
               u == g.unread
               z == End(s.data)
    <3>1. /\ Edge(g) = n + GuestBuf - u /\ n \in Nat /\ u \in 0..GuestBuf
          /\ z \in Nat /\ n + m = z /\ h.read \in Nat /\ z <= h.read
          /\ z <= Edge(g) /\ m \in Nat
      BY <2>3, <2>9, <2>11, GuestFact, HostFact, EndFact, LenProperties
    <3> HIDE DEF m, u, z, n
    <3>2. u + m <= GuestBuf /\ n + m <= h.read /\ n + m <= z
      BY <3>1, Sizes
    <3> QED BY <3>2 DEF m, u, z, n
  <2> QED BY <2>1, <2>3, <2>11, <2>12 DEF Takes
<1> QED BY <1>1, <1>2

\* A segment as the established guest takes it: its ack stands for a.
LEMMA GuestTakesStep ==
    ASSUME host \in HostSet, guest \in GuestSet, HostInv(host, guest),
           GuestInv(guest, host), guest.state = "Established",
           NEW s \in Segments, DownSeg(s, host, guest),
           NEW a \in Nat, guest.una <= a, a <= Taken(host),
           s.ack = SeqOf(GuestISN, 1 + a)
    PROVE  LET k == GuestTakes(s)
           IN  /\ k \in GuestSet /\ k.state = "Established" /\ k.una = a
               /\ GuestInv(k, host) /\ Len(k.recv) <= host.read
               /\ GuestGrows(guest, k) /\ Edge(guest) <= Edge(k)
               /\ Len(k.recv) = Len(guest.recv)
                    \/ (s.data # <<>> /\ Len(k.recv) <= End(s.data))
<1> DEFINE acked == Dist(GuestSeq(guest.una), s.ack)
           g1 == [guest EXCEPT !.una = IF acked <= guest.nxt - guest.una
                                       THEN @ + acked ELSE @,
                               !.wnd = s.win]
           old == Dist(s.seq, RcvNxt(g1))
           new == IF g1.fin \/ old >= Len(s.data) THEN <<>>
                  ELSE SubSeq(s.data, old + 1,
                              Min(Len(s.data), old + GuestWindow(g1)))
           g2 == [g1 EXCEPT !.recv = @ \o new, !.unread = @ + Len(new)]
           finNew == /\ "FIN" \in s.flags
                     /\ (s.seq + Len(s.data)) % SeqMod = RcvNxt(g2)
           k == [g2 EXCEPT !.fin = @ \/ finNew]
<1>1. GuestTakes(s) = k
  BY DEF GuestTakes
<1>2. acked = a - guest.una /\ acked <= guest.nxt - guest.una /\ guest.una + acked = a
  BY AckedFact
<1> HIDE DEF acked
<1>3. /\ g1 \in GuestSet /\ g1.una = a /\ g1.recv = guest.recv /\ g1.fin = guest.fin
      /\ g1.unread = guest.unread /\ g1.nxt = guest.nxt /\ g1.state = "Established"
  <2>1. s.win \in 0..SndBuf
    <3>1. s.win \in 0..(SndBuf + GuestBuf)
      BY SegmentsFact
    <3>2. s.win <= SndBuf
      BY DEF DownSeg
    <3> QED BY <3>1, <3>2, Sizes
  <2>2. g1 = [guest EXCEPT !.una = a, !.wnd = s.win]
    BY <1>2
  <2> HIDE DEF g1
  <2> QED BY <2>1, <2>2 DEF GuestSet
<1> HIDE DEF g1
<1>4. Takes(guest, host, s, new)
  BY <1>3, TakesNew
<1> HIDE DEF new, old
<1> DEFINE x == guest.recv \o new
           u == guest.unread + Len(new)
<1>5. /\ new \in Seq(Nat) /\ x \in Seq(Nat) /\ Len(x) = Len(guest.recv) + Len(new)
      /\ (\A i \in 1..Len(x) : x[i] = i) /\ u <= GuestBuf
      /\ Len(guest.recv) + Len(new) <= host.read
      /\ Len(new) = 0 \/ (~guest.fin /\ s.data # <<>>
                          /\ Len(guest.recv) + Len(new) <= End(s.data))
  BY <1>4 DEF Takes
<1>6. /\ Len(new) \in Nat /\ Len(guest.recv) \in Nat /\ guest.unread \in Nat
      /\ guest.fin \in BOOLEAN /\ u \in 0..GuestBuf
  <2>1. Len(new) \in Nat /\ Len(guest.recv) \in Nat /\ guest.unread \in 0..GuestBuf
        /\ guest.fin \in BOOLEAN
    BY <1>5, GuestFact, LenProperties
  <2> QED BY <1>5, <2>1, Sizes
<1>7. /\ g2 \in GuestSet /\ g2.una = a /\ g2.recv = x /\ g2.fin = guest.fin
      /\ g2.unread = u /\ g2.nxt = guest.nxt /\ g2.state = "Established"
  <2>1. g2 = [g1 EXCEPT !.recv = x, !.unread = u]
    BY <1>3
  <2> HIDE DEF g2, x, u
  <2> QED BY <1>3, <1>5, <1>6, <2>1 DEF GuestSet
<1> HIDE DEF g2, finNew
<1>8. /\ k \in GuestSet /\ k.una = a /\ k.recv = x
      /\ k.unread = u /\ k.nxt = guest.nxt /\ k.state = "Established"
      /\ (guest.fin => k.fin) /\ (k.fin => guest.fin \/ finNew)
  <2>1. (g2.fin \/ finNew) \in BOOLEAN
    OBVIOUS
  <2>2. /\ k \in GuestSet /\ k.una = a /\ k.recv = x /\ k.fin = (g2.fin \/ finNew)
        /\ k.unread = u /\ k.nxt = guest.nxt /\ k.state = "Established"
    BY <1>7, <2>1 DEF GuestSet
  <2> HIDE DEF k
  <2> QED BY <1>7, <2>2
<1> HIDE DEF k
<1>9. Len(k.recv) = Len(guest.recv) + Len(new) /\ Len(guest.recv) <= Len(k.recv)
  BY <1>5, <1>6, <1>8
<1>10. finNew => host.eof /\ Len(guest.recv) = host.written /\ s.data = <<>>
  BY DEF finNew, DownSeg
<1>11. k.fin => host.eof /\ Len(k.recv) = host.written
  <2> SUFFICES ASSUME k.fin PROVE host.eof /\ Len(k.recv) = host.written
    OBVIOUS
  <2>1. host.eof /\ Len(guest.recv) = host.written /\ (guest.fin \/ s.data = <<>>)
    BY <1>8, <1>10 DEF GuestInv
  <2>2. Len(new) = 0
    BY <1>5, <2>1
  <2> QED BY <1>6, <1>9, <2>1, <2>2
<1>12. GuestInv(k, host)
  <2>1. /\ Taken(host) <= guest.nxt /\ guest.nxt <= GuestLen + 1
        /\ guest.nxt <= guest.una + SndBuf
           \/ (guest.nxt = GuestLen + 1 /\ GuestLen <= guest.una + SndBuf)
    BY DEF GuestInv
  <2>2. guest.una \in Nat /\ guest.nxt \in Nat /\ SndBuf \in Nat /\ GuestLen \in Nat
    BY GuestFact, Sizes
  <2>3. guest.nxt <= a + SndBuf
        \/ (guest.nxt = GuestLen + 1 /\ GuestLen <= a + SndBuf)
    BY <2>1, <2>2
  <2>4. \A i \in 1..Len(k.recv) : k.recv[i] = i
    BY <1>5, <1>8
  <2> QED BY <1>8, <1>11, <2>1, <2>3, <2>4 DEF GuestInv
<1>13. Edge(k) = Edge(guest) /\ Edge(guest) \in Nat
  <2>1. Edge(guest) = Len(guest.recv) + GuestBuf - guest.unread
        /\ Edge(k) = Len(k.recv) + GuestBuf - k.unread /\ Edge(guest) \in Nat
    BY <1>8, GuestFact
  <2> QED BY SMTT(60), <1>6, <1>8, <1>9, <2>1, Sizes
<1>14. GuestGrows(guest, k)
  <2>1. /\ Seen(guest) = Len(guest.recv) + Bit(guest.fin)
        /\ Seen(k) = Len(k.recv) + Bit(k.fin)
        /\ Bit(guest.fin) \in 0..1 /\ Bit(k.fin) \in 0..1 /\ Len(k.recv) \in Nat
        /\ guest.nxt \in Nat
    BY <1>8, GuestFact
  <2>2. Bit(guest.fin) <= Bit(k.fin)
    BY <1>6, <1>8, <2>1 DEF Bit
  <2>3. Seen(guest) <= Seen(k) /\ Edge(guest) + Bit(guest.fin) <= Edge(k) + Bit(k.fin)
    BY <1>6, <1>9, <1>13, <2>1, <2>2
  <2>4. k.nxt <= GuestLen + 1
    BY <1>12 DEF GuestInv
  <2>5. GuestMoves(guest, k)
    BY <1>8, <2>1, <2>3, <2>4 DEF GuestMoves
  <2> QED BY <1>8, <1>9, <2>5 DEF GuestGrows
<1>15. /\ Len(k.recv) <= host.read /\ Edge(guest) <= Edge(k)
       /\ Len(k.recv) = Len(guest.recv)
            \/ (s.data # <<>> /\ Len(k.recv) <= End(s.data))
  BY <1>5, <1>6, <1>9, <1>13
<1> QED BY <1>1, <1>8, <1>12, <1>14, <1>15

\* The guest takes the head of its queue, becomes k and answers with at most
\* one segment.
LEMMA GuestReceives ==
    ASSUME IInv, toGuest # <<>>, NEW k \in GuestSet, GuestInv(k, host),
           Len(k.recv) <= host.read, GuestGrows(guest, k), Edge(guest) <= Edge(k),
           Len(k.recv) = Len(guest.recv)
             \/ (toGuest[1].data # <<>> /\ Len(k.recv) <= End(toGuest[1].data)),
           \A a \in Nat :
             /\ guest.una <= a /\ a <= Taken(host)
             /\ "RST" \notin toGuest[1].flags
                  => toGuest[1].ack = SeqOf(GuestISN, 1 + a)
             => k.una <= a,
           guest.state # "Closed", k.state # "Closed",
           k.state = "SynSent" => guest.state = "SynSent",
           NEW segs \in Seq(Segments), Len(segs) <= 1,
           \A i \in 1..Len(segs) : NewUp(segs[i], toPresto, host, k),
           \A i \in 1..Len(segs) : "SYN" \notin segs[i].flags,
           guest' = k, toPresto' = Queue(toPresto, segs), toGuest' = Tail(toGuest),
           UNCHANGED <<t, ring, host, ended>>
    PROVE  IInv'
<1>1. /\ host \in HostSet /\ guest \in GuestSet /\ HostInv(host, guest)
      /\ DownInv(toGuest, host, guest) /\ Life
      /\ toPresto \in Seq(Segments) /\ Len(toPresto) <= TapQueue
  BY IInvFact
<1>2. host.read <= host.written /\ Len(guest.recv) <= Len(k.recv) /\ (guest.fin => k.fin)
  BY <1>1 DEF HostInv, GuestGrows
<1>3. DownInv(toGuest', host, k)
  BY <1>1, <1>2, DownReceive
<1>4. SynsOf(toPresto', toPresto)
  BY <1>1, SynAppend
<1>5. ~NotBegun
  BY DEF NotBegun
<1>6. Life'
  BY <1>1, <1>2, <1>4, <1>5, LifeGoesOn
<1> QED BY <1>3, <1>6, GuestStepKeeps

\* The acknowledgement the guest writes.
LEMMA GuestAckNew ==
    ASSUME NEW h \in HostSet, NEW k \in GuestSet, GuestInv(k, h),
           k.state = "Established", NEW q
    PROVE  NewUp(GuestAck(k), q, h, k) /\ "SYN" \notin GuestAck(k).flags
<1> DEFINE flags == {"ACK"}
           data == <<>>
<1>1. GuestAck(k) = GuestSegment(k, k.nxt, flags, data)
  BY DEF GuestAck
<1>2. /\ flags \in SUBSET Flags /\ "SYN" \notin flags /\ "RST" \notin flags
      /\ "FIN" \notin flags
  BY DEF Flags
<1>3. data \in Seq(0..GuestLen) /\ UpData(k.nxt, data, k) /\ k.nxt \in Int
  BY EmptySeq, GuestFact DEF UpData
<1>4. GuestSegment(k, k.nxt, flags, data).flags = flags
  BY DEF GuestSegment, Segment
<1> HIDE DEF flags, data
<1>5. NewUp(GuestSegment(k, k.nxt, flags, data), q, h, k)
  BY <1>2, <1>3, GuestSegmentNew
<1> QED BY <1>1, <1>2, <1>4, <1>5

\* A RST of the guest's for a segment that arrives after its reset.
LEMMA GuestRstNew ==
    ASSUME NEW h \in HostSet, NEW k \in GuestSet, k.state = "Reset",
           NEW s \in Segments, NEW q
    PROVE  NewUp(RstNoFlow(s), q, h, k) /\ "SYN" \notin RstNoFlow(s).flags
<1> DEFINE r == RstNoFlow(s)
<1>1. /\ r \in Segments /\ r.win = 0 /\ r.data = <<>>
      /\ "RST" \in r.flags /\ "SYN" \notin r.flags /\ "FIN" \notin r.flags
  BY RstNoFlowFact
<1> HIDE DEF r
<1>2. UpSeg(r, h, k)
  BY <1>1, Sizes DEF UpSeg
<1>3. UpAck(r, Seen(k), 0, k)
  <2>1. Seen(k) \in Nat
    BY GuestFact
  <2> QED BY <1>1, <2>1 DEF UpAck
<1>4. NewUp(r, q, h, k)
  BY <1>1, <1>2, <1>3 DEF NewUp
<1> QED BY <1>1, <1>4 DEF r

\* One answer, or none.
LEMMA AnswerFact ==
    ASSUME NEW s, NEW q, NEW h, NEW k, NewUp(s, q, h, k), "SYN" \notin s.flags,
           NEW segs \in {<<>>, <<s>>}
    PROVE  /\ segs \in Seq(Segments) /\ Len(segs) <= 1
           /\ \A i \in 1..Len(segs) : NewUp(segs[i], q, h, k)
           /\ \A i \in 1..Len(segs) : "SYN" \notin segs[i].flags
<1>1. <<s>> \in Seq(Segments) /\ Len(<<s>>) = 1 /\ <<s>>[1] = s
  BY OneSegment DEF NewUp
<1>2. <<>> \in Seq(Segments) /\ Len(<<>>) = 0
  BY EmptySeq
<1>3. segs \in Seq(Segments) /\ Len(segs) <= 1 /\ \A i \in 1..Len(segs) : segs[i] = s
  <2>1. CASE segs = <<>>
    BY <1>2, <2>1
  <2>2. CASE segs = <<s>>
    <3> DEFINE one == <<s>>
    <3>1. one \in Seq(Segments) /\ Len(one) = 1 /\ one[1] = s
      BY <1>1
    <3> HIDE DEF one
    <3>2. \A i \in 1..Len(one) : one[i] = s
      BY <3>1
    <3> QED BY <2>2, <3>1, <3>2 DEF one
  <2> QED BY <2>1, <2>2
<1> QED BY <1>3

LEMMA GuestGrowsSelf ==
    ASSUME NEW g \in GuestSet, NEW k \in GuestSet, g.nxt <= GuestLen + 1,
           k.recv = g.recv, k.fin = g.fin, k.unread = g.unread, k.nxt = g.nxt,
           g.state \in {"Established", "Reset"} => k.state \in {"Established", "Reset"},
           g.state = "Reset" => k.state = "Reset"
    PROVE  GuestGrows(g, k) /\ Edge(g) <= Edge(k) /\ Len(k.recv) = Len(g.recv)
<1>1. Edge(k) = Edge(g) /\ Seen(k) = Seen(g) /\ Bit(k.fin) = Bit(g.fin)
  BY DEF Edge, GuestWindow, Seen
<1>2. Edge(g) \in Nat /\ Seen(g) \in Nat /\ Bit(g.fin) \in Int /\ g.nxt \in Nat
      /\ Len(g.recv) \in Nat
  BY GuestFact
<1>3. Edge(g) + Bit(g.fin) <= Edge(k) + Bit(k.fin) /\ Edge(g) <= Edge(k)
      /\ Seen(g) <= Seen(k) /\ g.nxt <= k.nxt /\ Len(g.recv) <= Len(k.recv)
  BY <1>1, <1>2
<1>4. GuestMoves(g, k)
  BY <1>3 DEF GuestMoves
<1> QED BY <1>3, <1>4 DEF GuestGrows

LEMMA GuestReceiveKeeps ==
    ASSUME IInv, GuestReceive
    PROVE  IInv'
<1> DEFINE s == toGuest[1]
           Reply(g, segs) == guest' = g /\ toPresto' = Queue(toPresto, segs)
<1>1. toGuest # <<>> /\ toGuest' = Tail(toGuest) /\ UNCHANGED <<t, ring, host, ended>>
  BY DEF GuestReceive
<1>2. /\ host \in HostSet /\ guest \in GuestSet /\ HostInv(host, guest)
      /\ GuestInv(guest, host) /\ DownInv(toGuest, host, guest) /\ Life
      /\ toGuest \in Seq(Segments)
  BY IInvFact
<1>3. /\ Head(toGuest) = s /\ s \in Segments /\ Len(toGuest) \in Nat \ {0}
      /\ 1 \in 1..Len(toGuest)
  BY <1>1, <1>2, TailFact
<1>4. DownSeg(s, host, guest)
  BY <1>2, <1>3 DEF DownInv
<1>5. guest.state # "Closed"
  <2> SUFFICES ASSUME guest.state = "Closed" PROVE FALSE
    OBVIOUS
  <2>1. NotBegun
    BY <1>2 DEF Life
  <2> QED BY <1>1, <2>1 DEF NotBegun
<1>6. /\ guest.state \in {"SynSent", "Established", "Reset"}
      /\ guest.nxt <= GuestLen + 1 /\ Len(guest.recv) <= host.read
  BY <1>2, <1>5, GuestFact DEF GuestInv, HostInv
<1>7. ASSUME NEW k \in GuestSet, k.recv = guest.recv, k.fin = guest.fin,
             k.unread = guest.unread, k.nxt = guest.nxt, k.una = guest.una,
             \/ k.state = guest.state \/ k.state = "Reset"
             \/ guest.state = "SynSent" /\ k.state = "Established",
             NEW segs \in Seq(Segments), Len(segs) <= 1,
             GuestInv(k, host) =>
               /\ \A i \in 1..Len(segs) : NewUp(segs[i], toPresto, host, k)
               /\ \A i \in 1..Len(segs) : "SYN" \notin segs[i].flags,
             Reply(k, segs)
      PROVE  IInv'
  <2>1. GuestInv(k, host)
    BY <1>2, <1>5, <1>7 DEF GuestInv
  <2>2. GuestGrows(guest, k) /\ Edge(guest) <= Edge(k) /\ Len(k.recv) = Len(guest.recv)
    BY <1>2, <1>6, <1>7, GuestGrowsSelf
  <2>3. k.state # "Closed" /\ (k.state = "SynSent" => guest.state = "SynSent")
    BY <1>5, <1>7
  <2>4. Len(k.recv) <= host.read
    BY <1>6, <1>7
  <2> QED BY <1>1, <1>5, <1>7, <2>1, <2>2, <2>3, <2>4, GuestReceives
<1>8. ASSUME NEW k \in GuestSet, k.recv = guest.recv, k.fin = guest.fin,
             k.unread = guest.unread, k.nxt = guest.nxt, k.una = guest.una,
             \/ k.state = guest.state \/ k.state = "Reset"
             \/ guest.state = "SynSent" /\ k.state = "Established",
             Reply(k, <<>>)
      PROVE  IInv'
  <2> DEFINE none == <<>>
  <2>1. none \in Seq(Segments) /\ Len(none) <= 1 /\ 1..Len(none) = {}
    BY EmptySeq
  <2>2. Reply(k, none)
    BY <1>8
  <2> HIDE DEF none
  <2> QED BY <1>7, <1>8, <2>1, <2>2
<1>9. CASE "RST" \in s.flags
  <2> DEFINE k == [guest EXCEPT !.state = "Reset"]
  <2>1. Reply(k, <<>>)
    BY <1>3, <1>9 DEF GuestReceive
  <2>2. /\ k \in GuestSet /\ k.recv = guest.recv /\ k.fin = guest.fin
        /\ k.unread = guest.unread /\ k.nxt = guest.nxt /\ k.una = guest.una
        /\ k.state = "Reset"
    BY <1>2 DEF GuestSet
  <2> HIDE DEF k
  <2> QED BY <1>8, <2>1, <2>2
<1>10. CASE "RST" \notin s.flags /\ guest.state = "Reset"
  <2> DEFINE r == RstNoFlow(s)
             segs == <<r>>
  <2>1. Reply(guest, segs)
    BY <1>3, <1>10 DEF GuestReceive
  <2>2. NewUp(r, toPresto, host, guest) /\ "SYN" \notin r.flags
    BY <1>2, <1>3, <1>10, GuestRstNew
  <2> HIDE DEF r
  <2>3. /\ segs \in Seq(Segments) /\ Len(segs) <= 1
        /\ \A i \in 1..Len(segs) : NewUp(segs[i], toPresto, host, guest)
        /\ \A i \in 1..Len(segs) : "SYN" \notin segs[i].flags
    BY <2>2, AnswerFact
  <2> HIDE DEF segs
  <2> QED BY <1>2, <1>7, <2>1, <2>3
<1>11. CASE "RST" \notin s.flags /\ guest.state = "SynSent"
  <2>1. CASE "SYN" \in s.flags
    <3> DEFINE k == [guest EXCEPT !.state = "Established", !.wnd = s.win]
               segs == <<GuestAck(k)>>
    <3>1. Reply(k, segs)
      BY <1>3, <1>11, <2>1 DEF GuestReceive
    <3>2. s.win \in 0..SndBuf
      <4>1. s.win \in 0..(SndBuf + GuestBuf)
        BY <1>3, SegmentsFact
      <4>2. s.win <= SndBuf
        BY <1>4 DEF DownSeg
      <4> QED BY <4>1, <4>2, Sizes
    <3>3. /\ k \in GuestSet /\ k.recv = guest.recv /\ k.fin = guest.fin
          /\ k.unread = guest.unread /\ k.nxt = guest.nxt /\ k.una = guest.una
          /\ k.state = "Established"
      BY <1>2, <3>2 DEF GuestSet
    <3> HIDE DEF k
    <3>4. GuestInv(k, host) =>
             NewUp(GuestAck(k), toPresto, host, k) /\ "SYN" \notin GuestAck(k).flags
      BY <1>2, <3>3, GuestAckNew
    <3>5. GuestInv(k, host)
      BY <1>2, <1>5, <3>3 DEF GuestInv
    <3>6. /\ segs \in Seq(Segments) /\ Len(segs) <= 1
          /\ \A i \in 1..Len(segs) : NewUp(segs[i], toPresto, host, k)
          /\ \A i \in 1..Len(segs) : "SYN" \notin segs[i].flags
      BY <3>4, <3>5, AnswerFact
    <3> HIDE DEF segs
    <3> QED BY <1>7, <1>11, <3>1, <3>3, <3>6
  <2>2. CASE "SYN" \notin s.flags
    <3>1. Reply(guest, <<>>)
      BY <1>3, <1>11, <2>2 DEF GuestReceive
    <3> QED BY <1>2, <1>8, <3>1
  <2> QED BY <2>1, <2>2
<1>12. CASE "RST" \notin s.flags /\ guest.state = "Established"
  <2> DEFINE k == IF "SYN" \in s.flags THEN guest ELSE GuestTakes(s)
             segs == IF GuestAnswers(s) THEN <<GuestAck(k)>> ELSE <<>>
  <2>1. Reply(k, segs)
    BY <1>3, <1>12 DEF GuestReceive
  <2>2. segs \in {<<>>, <<GuestAck(k)>>}
    OBVIOUS
  <2>3. CASE "SYN" \in s.flags
    <3>1. k = guest
      BY <2>3
    <3> HIDE DEF k
    <3>2. NewUp(GuestAck(k), toPresto, host, k) /\ "SYN" \notin GuestAck(k).flags
      BY <1>2, <1>12, <3>1, GuestAckNew
    <3> HIDE DEF segs
    <3>3. /\ segs \in Seq(Segments) /\ Len(segs) <= 1
          /\ \A i \in 1..Len(segs) : NewUp(segs[i], toPresto, host, k)
          /\ \A i \in 1..Len(segs) : "SYN" \notin segs[i].flags
      BY <2>2, <3>2, AnswerFact
    <3> QED BY <1>2, <1>7, <2>1, <3>1, <3>3
  <2>4. CASE "SYN" \notin s.flags
    <3>1. k = GuestTakes(s)
      BY <2>4
    <3>2. ASSUME NEW a \in Nat, guest.una <= a, a <= Taken(host),
                 s.ack = SeqOf(GuestISN, 1 + a)
          PROVE  /\ k \in GuestSet /\ k.state = "Established" /\ k.una = a
                 /\ GuestInv(k, host) /\ Len(k.recv) <= host.read
                 /\ GuestGrows(guest, k) /\ Edge(guest) <= Edge(k)
                 /\ Len(k.recv) = Len(guest.recv)
                      \/ (s.data # <<>> /\ Len(k.recv) <= End(s.data))
      BY <1>2, <1>3, <1>4, <1>12, <3>1, <3>2, GuestTakesStep
    <3>3. \E a \in Nat : guest.una <= a /\ a <= Taken(host) /\ s.ack = SeqOf(GuestISN, 1 + a)
      <4>1. PICK A \in [1..Len(toGuest) -> Nat] :
               \A i \in 1..Len(toGuest) :
                  /\ guest.una <= A[i] /\ A[i] <= Taken(host)
                  /\ "RST" \notin toGuest[i].flags
                       => toGuest[i].ack = SeqOf(GuestISN, 1 + A[i])
        BY <1>2 DEF DownInv, DownAcks
      <4>2. A[1] \in Nat /\ guest.una <= A[1] /\ A[1] <= Taken(host)
            /\ s.ack = SeqOf(GuestISN, 1 + A[1])
        BY <1>3, <1>12, <4>1
      <4> QED BY <4>2
    <3> HIDE DEF k
    <3>4. /\ k \in GuestSet /\ k.state = "Established"
          /\ GuestInv(k, host) /\ Len(k.recv) <= host.read
          /\ GuestGrows(guest, k) /\ Edge(guest) <= Edge(k)
          /\ Len(k.recv) = Len(guest.recv)
               \/ (s.data # <<>> /\ Len(k.recv) <= End(s.data))
      BY <3>2, <3>3
    <3>5. \A a \in Nat :
             /\ guest.una <= a /\ a <= Taken(host)
             /\ "RST" \notin toGuest[1].flags
                  => toGuest[1].ack = SeqOf(GuestISN, 1 + a)
             => k.una <= a
      BY <1>12, <3>2
    <3>6. NewUp(GuestAck(k), toPresto, host, k) /\ "SYN" \notin GuestAck(k).flags
      BY <1>2, <3>4, GuestAckNew
    <3> HIDE DEF segs
    <3>7. /\ segs \in Seq(Segments) /\ Len(segs) <= 1
          /\ \A i \in 1..Len(segs) : NewUp(segs[i], toPresto, host, k)
          /\ \A i \in 1..Len(segs) : "SYN" \notin segs[i].flags
      BY <2>2, <3>6, AnswerFact
    <3>8. guest' = k /\ toPresto' = Queue(toPresto, segs)
      BY <2>1
    <3>9. k.state # "Closed" /\ k.state # "SynSent"
      BY <3>4
    <3> QED BY <1>1, <1>5, <3>4, <3>5, <3>7, <3>8, <3>9, GuestReceives
  <2> QED BY <2>3, <2>4
<1> QED BY <1>6, <1>9, <1>10, <1>11, <1>12

LEMMA LossKeeps ==
    ASSUME IInv, LoseToGuest \/ LoseToPresto
    PROVE  IInv'
<1>1. CASE LoseToPresto
  BY <1>1, FrameIgnored DEF LoseToPresto
<1>2. CASE LoseToGuest
  <2>1. toGuest # <<>> /\ toGuest' = Tail(toGuest)
        /\ UNCHANGED <<t, ring, toPresto, guest, host, ended>>
    BY <1>2 DEF LoseToGuest
  <2>2. /\ host \in HostSet /\ guest \in GuestSet /\ HostInv(host, guest)
        /\ DownInv(toGuest, host, guest) /\ Life
    BY IInvFact
  <2>3. /\ host.read <= host.written /\ Edge(guest) <= Edge(guest)
        /\ Len(guest.recv) <= Len(guest.recv) /\ Len(guest.recv) <= host.read
    BY <2>2, GuestFact DEF HostInv
  <2>4. DownInv(toGuest', host, guest)
    BY <2>1, <2>2, <2>3, DownReceive
  <2>5. Lo' = Lo
    BY <2>1 DEF Lo
  <2>6. Life'
    BY <2>1, <2>2 DEF Life, OneFlow, NotBegun
  <2> QED BY <2>1, <2>4, <2>5, <2>6 DEF IInv
<1> QED BY <1>1, <1>2

-----------------------------------------------------------------------------
(* The invariant                                                           *)

LEMMA InitInv ==
    ASSUME Init
    PROVE  IInv
<1>1. /\ t = NoFlow /\ toGuest = <<>> /\ toPresto = <<>> /\ ended = "no"
      /\ host = NewHost /\ ring = [i \in 0..FRAME-1 |-> 0]
      /\ guest = [state |-> "Closed", una |-> 0, nxt |-> 0, wnd |-> 0,
                  recv |-> <<>>, unread |-> 0, fin |-> FALSE]
  BY DEF Init
<1>2. ring \in RingSet
  BY <1>1, Sizes DEF RingSet
<1>3. <<>> \in Seq(Nat) /\ <<>> \in Seq(Segments) /\ Len(<<>>) = 0
  BY EmptySeq
<1>4. host \in HostSet
  BY <1>1, <1>3, Sizes DEF NewHost, HostSet
<1>5. guest \in GuestSet
  BY <1>1, <1>3, Sizes DEF GuestSet
<1>6. /\ host.read = 0 /\ host.written = 0 /\ host.got = <<>> /\ host.shut = FALSE
      /\ host.reset = FALSE
  BY <1>1 DEF NewHost
<1>7. /\ guest.state = "Closed" /\ guest.recv = <<>> /\ guest.fin = FALSE
      /\ guest.una = 0 /\ guest.nxt = 0 /\ guest.unread = 0
  BY <1>1
<1>8. Len(host.got) = 0 /\ Len(guest.recv) = 0 /\ Taken(host) = 0
  BY <1>3, <1>6, <1>7 DEF Taken, Bit
<1>9. HostInv(host, guest)
  BY <1>4, <1>6, <1>8, Sizes DEF HostInv
<1>10. GuestInv(guest, host)
  <2>1. guest.nxt <= GuestLen + 1 /\ guest.nxt <= guest.una + SndBuf
    BY <1>7, Sizes
  <2> QED BY <1>5, <1>7, <1>8, <2>1 DEF GuestInv
<1>11. Len(toGuest) = 0 /\ Len(toPresto) = 0 /\ 1..0 = {} /\ 0 <= TapQueue
  BY <1>1, <1>3, Sizes
<1>12. DownInv(toGuest, host, guest)
  <2>1. DownAcks(toGuest, host, guest)
    <3>1. [i \in 1..0 |-> 0] \in [1..0 -> Nat]
      OBVIOUS
    <3> QED BY <1>11, <3>1 DEF DownAcks
  <2> QED BY <1>1, <1>3, <1>11, <2>1 DEF DownInv, DownOrder
<1>13. UpInv(toPresto, host, guest, Lo)
  <2>1. UpAcks(toPresto, Lo, guest)
    <3>1. [i \in 1..0 |-> 0] \in [1..0 -> Nat]
      OBVIOUS
    <3> QED BY <1>11, <3>1 DEF UpAcks
  <2> QED BY <1>1, <1>3, <1>11, <2>1 DEF UpInv, UpOrder, SynFirst
<1>14. Life
  <2>1. NotBegun
    BY <1>1, <1>7, <1>11 DEF NotBegun
  <2> QED BY <1>1, <1>11, <2>1 DEF Life, OneFlow, OneSyn
<1> QED BY <1>1, <1>2, <1>9, <1>10, <1>12, <1>13, <1>14 DEF IInv

LEMMA NextInv ==
    ASSUME OneConnection \/ OneFlow', IInv, [Next]_vars
    PROVE  IInv'
<1>1. CASE HandleTcp
  BY <1>1, HandleTcpKeeps
<1>2. CASE ConnectReady
  BY <1>2, ConnectReadyKeeps
<1>3. CASE SocketReady
  BY <1>3, SocketReadyKeeps
<1>4. CASE Periodic
  BY <1>4, PeriodicKeeps
<1>5. CASE HostWrite \/ HostClose \/ HostDrain \/ HostReset
  BY <1>5, HostKeeps
<1>6. CASE GuestConnect \/ GuestTimer
  BY <1>6, GuestTimerKeeps
<1>7. CASE GuestSend
  BY <1>7, GuestSendKeeps
<1>8. CASE GuestClose
  BY <1>8, GuestCloseKeeps
<1>9. CASE GuestRead
  BY <1>9, GuestReadKeeps
<1>10. CASE GuestAbort
  BY <1>10, GuestAbortKeeps
<1>11. CASE GuestReceive
  BY <1>11, GuestReceiveKeeps
<1>12. CASE LoseToGuest \/ LoseToPresto
  BY <1>12, LossKeeps
<1>13. CASE UNCHANGED vars
  <2>1. UNCHANGED <<t, ring, toGuest, toPresto, guest, host, ended>>
    BY <1>13 DEF vars
  <2>2. Lo' = Lo
    BY <2>1 DEF Lo
  <2>3. Life' = Life
    BY <2>1 DEF Life, OneFlow, NotBegun
  <2> QED BY <2>1, <2>2, <2>3 DEF IInv
<1> QED BY <1>1, <1>2, <1>3, <1>4, <1>5, <1>6, <1>7, <1>8, <1>9, <1>10,
           <1>11, <1>12, <1>13 DEF Next

\* The inductive invariant holds as long as no second flow is opened.
THEOREM Invariant == Spec /\ []OneFlow => []IInv
<1>1. Init => IInv
  BY InitInv
<1>2. IInv /\ OneFlow' /\ [Next]_vars => IInv'
  BY NextInv
<1> QED BY <1>1, <1>2, PTL DEF Spec

\* No second flow is opened unless SYNs are retransmitted and the host resets
\* connections: tcp_maybe_close drops a flow only when no SYN can be left.
THEOREM SecondFlowNeedsReset ==
    ASSUME OneConnection
    PROVE  Spec => []OneFlow
<1>1. Init => IInv
  BY InitInv
<1>2. IInv /\ [Next]_vars => IInv'
  BY NextInv
<1>3. IInv => OneFlow
  BY DEF IInv, Life
<1> QED BY <1>1, <1>2, <1>3, PTL DEF Spec

-----------------------------------------------------------------------------
(* What follows from the invariant                                         *)

LEMMA IInvType == ASSUME IInv PROVE TypeOK
<1>1. t # NoFlow => t \in FlowSet
  BY IInvFact
<1>2. guest.unread \in 0..GuestBuf
  BY IInvFact, GuestFact
<1>3. ended \in {"no", "closed", "reset"}
  BY DEF IInv, Life
<1>4. ring \in RingSet /\ toPresto \in Seq(Segments) /\ Len(toPresto) <= TapQueue
      /\ toGuest \in Seq(Segments) /\ Len(toGuest) <= TapQueue
  BY IInvFact
<1> QED BY <1>1, <1>2, <1>3, <1>4 DEF TypeOK, FlowSet, RingSet

LEMMA IInvRing == ASSUME IInv PROVE RingHoldsUnacked
<1> SUFFICES ASSUME t # NoFlow, t.state = "Established"
             PROVE  /\ t.sent_unacked <= t.buffered /\ t.buffered <= FRAME
                    /\ t.seq_una = SeqOf(TCP_ISN,
                          1 + Released + (IF t.host_fin = "Acked" THEN 1 ELSE 0))
                    /\ \A i \in 0..t.buffered-1 :
                          ring[(t.buf_head + i) % FRAME] = Released + i + 1
  BY DEF RingHoldsUnacked, Open
<1>1. FlowInv(t, ring, host, guest) /\ t.buffered \in 0..FRAME /\ host.read \in Nat
  BY IInvFact, HostFact DEF FlowSet
<1>2. t.sent_unacked <= t.buffered /\ t.buffered <= FRAME
  BY <1>1, Sizes DEF FlowInv, FlowCounts
<1>3. Released = Rel(t, host) /\ Rel(t, host) \in Int
  BY <1>1, Sizes DEF Released, Rel
<1>4. t.seq_una = SeqOf(TCP_ISN, 1 + Sure(t, host))
  BY <1>1 DEF FlowInv, FlowNumbers
<1> DEFINE b == IF t.host_fin = "Acked" THEN 1 ELSE 0
           r == Rel(t, host)
<1>5. Sure(t, host) = r + b /\ b \in Int
  BY DEF Sure, Bit
<1>6. 1 + Sure(t, host) = 1 + Released + b
  <2> HIDE DEF b, r
  <2>1. Released = r /\ r \in Int
    BY <1>3 DEF r
  <2> QED BY <2>1, <1>5
<1>7. \A i \in 0..t.buffered-1 :
        ring[(t.buf_head + i) % FRAME] = Released + i + 1
  BY <1>1, <1>3 DEF FlowInv, RingInv
<1> QED BY <1>2, <1>4, <1>6, <1>7

LEMMA IInvReleased == ASSUME IInv PROVE ReleasedIsReceived
<1>1. t # NoFlow => Rel(t, host) <= Len(guest.recv)
  BY IInvFact DEF FlowInv, FlowCounts
<1> QED BY <1>1 DEF ReleasedIsReceived, Released, Rel, Open

LEMMA IInvStreams == ASSUME IInv PROVE GuestSeesHostStream /\ HostSeesGuestStream
  BY DEF IInv, HostInv, GuestInv, GuestSeesHostStream, HostSeesGuestStream

LEMMA IInvAcks == ASSUME IInv PROVE AcksAreBacked
<1>1. Taken(host) \in Nat /\ guest.una <= Taken(host)
      /\ Taken(host) = Len(host.got) + (IF host.shut THEN 1 ELSE 0)
  BY IInvFact, HostFact DEF GuestInv, Taken, Bit
<1>2. ASSUME NEW i \in 1..Len(toGuest), "RST" \notin toGuest[i].flags
      PROVE  Dist(GuestSeq(0), toGuest[i].ack) <= Taken(host)
  <2>1. DownAcks(toGuest, host, guest)
    BY IInvFact DEF DownInv
  <2>2. PICK a \in Nat : a <= Taken(host) /\ toGuest[i].ack = SeqOf(GuestISN, 1 + a)
    BY <2>1, <1>2 DEF DownAcks
  <2>3. GuestSeq(0) = SeqOf(GuestISN, 1)
    BY Sizes DEF GuestSeq, SeqOf
  <2>4. Dist(SeqOf(GuestISN, 1), SeqOf(GuestISN, 1 + a)) = ((1 + a) - 1) % SeqMod
    BY DistFact, Sizes, 1 \in Int, 1 + a \in Int
  <2>5. (1 + a) - 1 = a
    OBVIOUS
  <2>6. a % SeqMod <= a
    <3>1. CASE a < SeqMod
      BY <3>1, SeqModFact, ModSmall, a \in 0..SeqMod-1
    <3>2. CASE a >= SeqMod
      <4>1. a % SeqMod \in 0..SeqMod-1
        BY SeqModFact, ModDef, a \in Int
      <4> QED BY <4>1, <3>2, SeqModFact
    <3> QED BY <3>1, <3>2, SeqModFact
  <2>7. a % SeqMod \in Nat
    BY SeqModFact, ModDef, a \in Int
  <2>8. Dist(GuestSeq(0), toGuest[i].ack) = a % SeqMod
    BY <2>2, <2>3, <2>4, <2>5
  <2> DEFINE m == a % SeqMod
             k == Taken(host)
  <2>9. m <= k
    <3>1. m \in Nat /\ m <= a /\ a <= k /\ k \in Nat
      BY <2>2, <2>6, <2>7, <1>1
    <3> HIDE DEF m, k
    <3> QED BY <3>1
  <2> QED BY <2>8, <2>9
<1> QED BY <1>1, <1>2 DEF AcksAreBacked

LEMMA IInvWindow == ASSUME IInv PROVE GuestNotOverrun
<1> SUFFICES ASSUME NEW i \in 1..Len(toGuest), toGuest[i].data # <<>>
             PROVE  toGuest[i].data[Len(toGuest[i].data)] <= Len(guest.recv) + GuestWindow(guest)
  BY DEF GuestNotOverrun
<1>1. toGuest \in Seq(Segments) /\ DownSeg(toGuest[i], host, guest)
  BY IInvFact DEF DownInv
<1>2. toGuest[i] \in Segments
  BY <1>1, ElementOfSeq
<1> DEFINE d == toGuest[i].data
           n == Len(d)
           a == d[1]
<1>3. n \in Nat /\ n >= 1 /\ a \in Nat
  BY <1>2, SegmentsFact
<1>4. \A j \in 1..n : d[j] = a + j - 1
  BY <1>1 DEF DownSeg, Consecutive
<1>5. End(d) = a + n - 1 /\ End(d) <= Edge(guest)
  BY <1>1 DEF DownSeg, End
<1> HIDE DEF a, n
<1>6. d[n] = End(d)
  BY <1>3, <1>4, <1>5
<1> QED BY <1>5, <1>6 DEF Edge, n

LEMMA IInvClosed == ASSUME IInv PROVE CloseIsComplete
  BY DEF IInv, Life, HostInv, GuestInv, CloseIsComplete

\* Every counter of a flow stays within the ring it indexes, the ring, the
\* queues and the guest's buffer within their sizes, however the tap, the
\* host socket and the timers are interleaved.
THEOREM TypeCorrect == Spec /\ []OneFlow => []TypeOK
<1>1. IInv => TypeOK
  BY IInvType
<1> QED BY <1>1, Invariant, PTL

\* The ring holds, from its head on and in order, the bytes read from the
\* host and not yet acknowledged, and seq_una numbers the first of them:
\* tcp_fill_buffer, tcp_ack_from_guest and the rewinds of tcp_periodic keep
\* it so for every size of the ring.
THEOREM RingIsTheUnackedStream == Spec /\ []OneFlow => []RingHoldsUnacked
<1>1. IInv => RingHoldsUnacked
  BY IInvRing
<1> QED BY <1>1, Invariant, PTL

\* An ack moves buf_head only past bytes the guest has received: old, lost
\* and duplicated acks never release a byte too many.
THEOREM ReleaseFollowsReceipt == Spec /\ []OneFlow => []ReleasedIsReceived
<1>1. IInv => ReleasedIsReceived
  BY IInvReleased
<1> QED BY <1>1, Invariant, PTL

\* Download: the guest's application reads a prefix of what the host wrote and
\* sees the end of the stream only behind its last byte, whatever frames and
\* acks the tap loses and tcp_data_to_guest sends again.
THEOREM GuestReadsPrefix == Spec /\ []OneFlow => []GuestSeesHostStream
<1>1. IInv => GuestSeesHostStream
  BY IInvStreams
<1> QED BY <1>1, Invariant, PTL

\* Upload: the host socket is given a prefix of what the guest wrote and shut
\* down only behind its last byte, although send takes part of a segment and
\* the guest repeats and overlaps what it sends.
THEOREM HostGetsPrefix == Spec /\ []OneFlow => []HostSeesGuestStream
<1>1. IInv => HostSeesGuestStream
  BY IInvStreams
<1> QED BY <1>1, Invariant, PTL

\* seq_from_guest, which every frame to the guest carries as its ack, is
\* never ahead of what send has put into the host socket, and the guest never
\* frees a byte the host socket has not taken.
THEOREM AcksFollowWrites == Spec /\ []OneFlow => []AcksAreBacked
<1>1. IInv => AcksAreBacked
  BY IInvAcks
<1> QED BY <1>1, Invariant, PTL

\* tcp_data_to_guest works from the last window it has seen; whatever acks
\* are lost or late, nothing it queues reaches beyond the guest's window.
THEOREM FlushRespectsWindow == Spec /\ []OneFlow => []GuestNotOverrun
<1>1. IInv => GuestNotOverrun
  BY IInvWindow
<1> QED BY <1>1, Invariant, PTL

\* A flow that tcp_maybe_close drops has delivered both streams, whole and
\* with their ends.
THEOREM ClosedMeansDelivered == Spec /\ []OneFlow => []CloseIsComplete
<1>1. IInv => CloseIsComplete
  BY IInvClosed
<1> QED BY <1>1, Invariant, PTL
=============================================================================
