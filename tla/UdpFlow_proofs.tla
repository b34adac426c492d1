--------------------------- MODULE UdpFlow_proofs ---------------------------
(***************************************************************************)
(* For every datagram size and number of datagrams: the drain of           *)
(* udp_to_guest never truncates and never outgrows the header's length     *)
(* field.                                                                  *)
(***************************************************************************)
EXTENDS UdpFlow, SequenceTheorems, TLAPS

Datagram == Seq(1..MaxDgrams)

\* What the socket holds came off the wire.
QueueFits == \A i \in 1..Len(queue) : Len(queue[i]) <= MaxDgram

\* A datagram just received, and the super-frame under way: of one datagram,
\* or of several within the IPv4 limit.
BufferFits ==
    /\ pc = "ready" /\ res = NoError => Len(buf) <= MaxDgram
    /\ pc = "drain" =>
          /\ res = NoError
          /\ 0 < seg /\ seg <= Len(buf)
          /\ Len(buf) = seg => Len(buf) <= MaxDgram
          /\ Len(buf) > seg => Len(buf) <= MaxPayload

UdpInv ==
    /\ UdpTypeOK /\ arrived \in Seq(Datagram)
    /\ QueueFits /\ BufferFits

LEMMA MaxDgramFact ==
    /\ MaxDgram \in Nat /\ MaxPayload \in Nat /\ Frame \in Nat
    /\ MaxPayload <= MaxDgram /\ MaxDgram + MaxDgram <= Frame
    /\ family = "v4" => MaxDgram = MaxPayload
  BY SizeAssumption DEF MaxDgram

LEMMA DrainRoom ==
    ASSUME UdpInv, pc = "drain"
    PROVE  Len(buf) \in Nat /\ Len(buf) <= MaxDgram
<1>1. Len(buf) \in Nat /\ seg \in Nat
  BY MaxDgramFact DEF UdpInv, UdpTypeOK
<1> QED
  BY <1>1, MaxDgramFact DEF UdpInv, BufferFits

LEMMA InvImpliesFits == UdpInv => SuperFrameFits
<1> SUFFICES ASSUME UdpInv, pc = "drain" PROVE SuperFrameFits
  BY DEF SuperFrameFits
<1> QED
  BY DrainRoom, MaxDgramFact DEF UdpInv, BufferFits, SuperFrameFits

\* recv takes a datagram as it is when there is room for a full one.
LEMMA IncomingWhole ==
    ASSUME UdpInv, queue # <<>>, NEW at \in Nat, at <= MaxDgram
    PROVE  /\ Incoming(at) \in Datagram /\ Len(Incoming(at)) <= MaxDgram
           /\ Len(Incoming(at)) \in Nat /\ Incoming(at) = Head(queue)
<1> DEFINE d == Head(queue)
<1>1. queue \in Seq(Datagram) /\ Len(queue) \in Nat /\ 1 \in 1..Len(queue)
  BY DEF UdpInv, UdpTypeOK, Datagram
<1>2. d = queue[1] /\ d \in Datagram /\ Len(d) \in Nat /\ Len(d) <= MaxDgram
  BY <1>1 DEF UdpInv, QueueFits, Datagram
<1>3. Len(d) <= Frame - at
  BY <1>2, MaxDgramFact
<1>4. Incoming(at) = SubSeq(d, 1, Len(d))
  BY <1>3 DEF Incoming
<1>5. SubSeq(d, 1, Len(d)) = d
  BY <1>2 DEF Datagram
<1> QED
  BY <1>2, <1>4, <1>5

LEMMA UdpInitInv == UdpInit => UdpInv
  BY SizeAssumption, BoundAssumption, ErrnoAssumption
     DEF UdpInit, UdpInv, UdpTypeOK, QueueFits, BufferFits, Datagram

LEMMA ArriveInv ==
    ASSUME UdpInv, NEW len \in Lens, Arrive(len)
    PROVE  UdpInv'
<1> DEFINE d == [i \in 1..len |-> Len(arrived) + 1]
<1>1. /\ Len(arrived) < MaxDgrams /\ len <= MaxDgram /\ len \in Nat
      /\ queue' = Append(queue, d) /\ arrived' = Append(arrived, d)
      /\ UNCHANGED <<flowVars, guestVars, err, errors>>
  BY SizeAssumption DEF Arrive
<1>2. Len(arrived) + 1 \in 1..MaxDgrams
  BY <1>1, BoundAssumption DEF UdpInv
<1>3. d \in Datagram /\ Len(d) = len
  BY <1>1, <1>2 DEF Datagram
<1> HIDE DEF d
<1>4. queue \in Seq(Datagram) /\ arrived \in Seq(Datagram)
  BY DEF UdpInv, UdpTypeOK, Datagram
<1>5. queue' \in Seq(Datagram) /\ arrived' \in Seq(Datagram)
  BY <1>1, <1>3, <1>4
<1>6. UdpTypeOK'
  BY <1>1, <1>5 DEF UdpInv, UdpTypeOK, Datagram, flowVars, guestVars
<1>7. MaxDgram' = MaxDgram
  BY <1>1 DEF MaxDgram, flowVars
<1>8. QueueFits'
  BY <1>1, <1>3, <1>4, <1>7 DEF UdpInv, QueueFits
<1>9. BufferFits'
  BY <1>1, <1>7 DEF UdpInv, BufferFits, flowVars
<1> QED
  BY <1>5, <1>6, <1>8, <1>9 DEF UdpInv

\* What a recv that succeeds, or fails, leaves in the socket.
LEMMA SocketInv ==
    ASSUME UdpInv, Receive \/ ReceiveError \/ UNCHANGED sockVars, family' = family
    PROVE  /\ queue' \in Seq(Datagram) /\ QueueFits'
           /\ arrived' \in Seq(Datagram)
           /\ err' \in Errnos \cup {NoError} /\ errors' \in 0..MaxErrors
<1>1. queue \in Seq(Datagram)
  BY DEF UdpInv, UdpTypeOK, Datagram
<1>2. MaxDgram' = MaxDgram
  BY DEF MaxDgram
<1>3. CASE Receive
  <2>1. queue # <<>> /\ queue' = Tail(queue)
    BY <1>3 DEF Receive
  <2>2. /\ queue' \in Seq(Datagram) /\ Len(queue') = Len(queue) - 1
        /\ Len(queue) \in Nat
        /\ \A i \in 1..Len(queue') : queue'[i] = queue[i + 1]
    BY <1>1, <2>1
  <2>3. QueueFits'
    BY <1>2, <2>2 DEF UdpInv, QueueFits
  <2> QED
    BY <1>3, <2>2, <2>3 DEF Receive, UdpInv, UdpTypeOK
<1>4. CASE ReceiveError \/ UNCHANGED sockVars
  BY <1>1, <1>2, <1>4 DEF ReceiveError, sockVars, UdpInv, UdpTypeOK, QueueFits
<1> QED
  BY <1>3, <1>4

\* Every return of udp_to_guest and udp_error_to_guest.
LEMMA RearmInv ==
    ASSUME UdpInv, Rearm, Receive \/ ReceiveError \/ UNCHANGED sockVars,
           told' \in Seq(Translated), sends' = sends
    PROVE  UdpInv'
<1>1. /\ queue' \in Seq(Datagram) /\ QueueFits'
      /\ arrived' \in Seq(Datagram)
      /\ err' \in Errnos \cup {NoError} /\ errors' \in 0..MaxErrors
  BY SocketInv DEF Rearm
<1>2. UdpTypeOK'
  BY <1>1, MaxDgramFact DEF Rearm, UdpInv, UdpTypeOK, Datagram
<1>3. BufferFits'
  BY DEF Rearm, BufferFits
<1> QED
  BY <1>1, <1>2, <1>3 DEF UdpInv

LEMMA RecvInv ==
    ASSUME UdpInv, RecvCompletes
    PROVE  UdpInv'
<1>1. /\ pc' = "ready" /\ UNCHANGED <<family, offloads, seg, guestVars>>
      /\ Receive \/ ReceiveError
  BY DEF RecvCompletes
<1>2. /\ queue' \in Seq(Datagram) /\ QueueFits'
      /\ arrived' \in Seq(Datagram)
      /\ err' \in Errnos \cup {NoError} /\ errors' \in 0..MaxErrors
  BY <1>1, SocketInv
<1>3. MaxDgram' = MaxDgram
  BY <1>1 DEF MaxDgram
<1>4. CASE Receive /\ buf' = Incoming(0) /\ res' = NoError
  <2>1. buf' \in Datagram /\ Len(buf') <= MaxDgram
    BY <1>4, IncomingWhole, MaxDgramFact DEF Receive
  <2> QED
    BY <1>1, <1>2, <1>3, <1>4, <2>1
       DEF UdpInv, UdpTypeOK, BufferFits, Datagram, guestVars
<1>5. CASE ReceiveError /\ res' = err /\ UNCHANGED buf
  <2>1. res' # NoError /\ res' \in Errnos \cup {NoError}
    BY <1>5 DEF ReceiveError, UdpInv, UdpTypeOK
  <2> QED
    BY <1>1, <1>2, <1>5, <2>1 DEF UdpInv, UdpTypeOK, BufferFits, Datagram, guestVars
<1> QED
  BY <1>4, <1>5 DEF RecvCompletes

LEMMA BeginDrainInv ==
    ASSUME UdpInv, BeginDrain
    PROVE  UdpInv'
<1>1. /\ pc = "ready" /\ res = NoError /\ buf # <<>>
      /\ pc' = "drain" /\ seg' = Len(buf)
      /\ UNCHANGED <<family, offloads, res, buf, sockVars, guestVars>>
  BY DEF BeginDrain
<1>2. Len(buf) \in Nat /\ Len(buf) > 0 /\ Len(buf) <= MaxDgram /\ seg' \in 0..Frame
  BY <1>1, MaxDgramFact DEF UdpInv, UdpTypeOK, BufferFits
<1>3. MaxDgram' = MaxDgram
  BY <1>1 DEF MaxDgram
<1> QED
  BY <1>1, <1>2, <1>3
     DEF UdpInv, UdpTypeOK, QueueFits, BufferFits, Datagram, sockVars, guestVars

LEMMA DrainJoinsInv ==
    ASSUME UdpInv, DrainJoins
    PROVE  UdpInv'
<1> DEFINE d == Incoming(Len(buf))
<1>1. /\ pc = "drain" /\ Receive /\ queue # <<>>
      /\ Fits(d) /\ Len(d) = seg /\ buf' = buf \o d
      /\ UNCHANGED <<family, offloads, pc, res, seg, guestVars>>
  BY DEF DrainJoins, Receive
<1>2. d \in Datagram /\ Len(d) \in Nat /\ buf \in Datagram /\ Len(buf) \in Nat
  BY <1>1, DrainRoom, IncomingWhole DEF UdpInv, UdpTypeOK, Datagram
<1> HIDE DEF d
<1>3. buf' \in Datagram /\ Len(buf') = Len(buf) + Len(d)
  BY <1>1, <1>2 DEF Datagram
<1>4. /\ 0 < seg /\ seg <= Len(buf) /\ res = NoError /\ Len(buf) + Len(d) <= MaxPayload
      /\ seg \in Nat
  BY <1>1, MaxDgramFact DEF UdpInv, UdpTypeOK, BufferFits, Fits
<1>5. Len(buf') > seg /\ Len(buf') <= MaxPayload /\ seg <= Len(buf')
  BY <1>1, <1>2, <1>3, <1>4
<1>6. /\ queue' \in Seq(Datagram) /\ QueueFits'
      /\ arrived' \in Seq(Datagram)
      /\ err' \in Errnos \cup {NoError} /\ errors' \in 0..MaxErrors
  BY <1>1, SocketInv
<1>7. UdpTypeOK'
  BY <1>1, <1>3, <1>6 DEF UdpInv, UdpTypeOK, Datagram, guestVars
<1>8. BufferFits'
  BY <1>1, <1>3, <1>4, <1>5 DEF BufferFits
<1> QED
  BY <1>6, <1>7, <1>8 DEF UdpInv

LEMMA DrainFlushInv ==
    ASSUME UdpInv, DrainFlush
    PROVE  UdpInv'
<1> DEFINE d == Incoming(Len(buf))
<1>1. /\ pc = "drain" /\ Receive /\ queue # <<>>
      /\ d # <<>> /\ buf' = d /\ seg' = Len(d)
      /\ UNCHANGED <<family, offloads, pc, res, told, sends>>
  BY DEF DrainFlush, Receive, ToGuest
<1>2. d \in Datagram /\ Len(d) \in Nat /\ Len(d) <= MaxDgram
  BY <1>1, DrainRoom, IncomingWhole
<1> HIDE DEF d
<1>3. Len(d) > 0 /\ Len(d) <= Frame
  BY <1>1, <1>2, MaxDgramFact DEF Datagram
<1>4. /\ queue' \in Seq(Datagram) /\ QueueFits'
      /\ arrived' \in Seq(Datagram)
      /\ err' \in Errnos \cup {NoError} /\ errors' \in 0..MaxErrors
  BY <1>1, SocketInv
<1>5. UdpTypeOK'
  BY <1>1, <1>2, <1>3, <1>4 DEF UdpInv, UdpTypeOK, Datagram
<1>6. MaxDgram' = MaxDgram
  BY <1>1 DEF MaxDgram
<1>7. BufferFits'
  BY <1>1, <1>2, <1>3, <1>6 DEF UdpInv, BufferFits
<1> QED
  BY <1>4, <1>5, <1>7 DEF UdpInv

LEMMA UdpStepInv == UdpInv /\ [UdpNext]_udpVars => UdpInv'
<1> SUFFICES ASSUME UdpInv, [UdpNext]_udpVars PROVE UdpInv'
  OBVIOUS
<1>1. ASSUME NEW e \in Errnos, SocketError(e) PROVE UdpInv'
  BY <1>1, BoundAssumption
     DEF SocketError, flowVars, guestVars, UdpInv, UdpTypeOK, QueueFits, BufferFits, MaxDgram
<1>2. CASE ForwardDatagram
  BY <1>2, BoundAssumption
     DEF ForwardDatagram, flowVars, UdpInv, UdpTypeOK, QueueFits, BufferFits, MaxDgram
<1>3. told \in Seq(Translated)
  BY DEF UdpInv, UdpTypeOK
<1>4. CASE ReplyPlain \/ DrainEnds \/ DrainEmpty \/ DrainTail
  <2>1. /\ Rearm
        /\ Receive \/ ReceiveError \/ UNCHANGED sockVars
        /\ told' = told /\ sends' = sends
    BY <1>4 DEF ReplyPlain, DrainEnds, DrainEmpty, DrainTail, ToGuest
  <2> QED
    BY <1>3, <2>1, RearmInv
<1>5. CASE UdpErrorToGuest
  <2>1. told' \in Seq(Translated)
    BY <1>3, <1>5 DEF UdpErrorToGuest
  <2>2. Rearm /\ UNCHANGED sockVars /\ sends' = sends
    BY <1>5 DEF UdpErrorToGuest
  <2> QED
    BY <2>1, <2>2, RearmInv
<1>6. CASE UNCHANGED udpVars
  BY <1>6 DEF udpVars, flowVars, sockVars, guestVars, UdpInv, UdpTypeOK, QueueFits,
              BufferFits, MaxDgram
<1> QED
  BY <1>1, <1>2, <1>4, <1>5, <1>6, ArriveInv, RecvInv, BeginDrainInv, DrainJoinsInv,
     DrainFlushInv DEF UdpNext, UdpHandle

LEMMA UdpInvariance == UdpSpec => []UdpInv
  BY UdpInitInv, UdpStepInv, PTL DEF UdpSpec

\* Types, and only errnos with an ICMP code reach the guest.
THEOREM UdpTypeSafety == UdpSpec => []UdpTypeOK
<1>1. UdpInv => UdpTypeOK
  BY DEF UdpInv
<1> QED
  BY <1>1, UdpInvariance, PTL

\* udp_to_guest always has room for a full datagram behind the super-frame
\* it collects, and what it collects fits the IPv4 length field.
THEOREM SuperFrameSafety == UdpSpec => []SuperFrameFits
  BY InvImpliesFits, UdpInvariance, PTL


-----------------------------------------------------------------------------
(***************************************************************************)
(* No reply is lost, doubled, cut or reordered.  The super-frame under way *)
(* is a whole number of segments, so what the guest's kernel cuts off it   *)
(* is what was received: another datagram of at most the segment size      *)
(* comes out as one more segment (CutJoins).  A frame of several datagrams  *)
(* is within the IPv4 limit, so only a datagram that exceeds it by itself  *)
(* is discarded (AcceptedIff).                                             *)
(***************************************************************************)

\* The datagrams the guest makes of a super-frame with segment size g.
Cut(bytes, g) == Delivered(bytes, GsoOf(Len(bytes), g))

\* What the guest makes of one datagram, and the type of that.
Outcome(d) == IF Oversized(d) THEN Malformed ELSE d
Reply == Seq(0..MaxDgrams)

Held == CASE pc = "ready" /\ res = NoError -> <<Outcome(buf)>>
          [] pc = "drain" -> Cut(buf, seg)
          [] OTHER -> <<>>

WholeSegments == pc = "drain" => \E k \in Nat : k >= 1 /\ Len(buf) = k * seg

ReplyInv ==
    /\ WholeSegments
    /\ seen \in Seq(Reply) /\ Held \in Seq(Reply)
    /\ (seen \o Held) \o Carried(queue) = Carried(arrived)

LEMMA MulGe ==
    ASSUME NEW g \in Nat, g > 0, NEW k \in Int, k >= 1
    PROVE  k * g >= g
  BY SMT

LEMMA MulLe ==
    ASSUME NEW g \in Nat, g > 0, NEW k \in Int, k <= -1
    PROVE  k * g <= -g
  BY SMT

LEMMA MulMono ==
    ASSUME NEW g \in Nat, NEW i \in Nat, NEW j \in Nat, i <= j
    PROVE  i * g \in Nat /\ i * g <= j * g
<1> DEFINE k == j - i
<1>1. k \in Nat /\ j = i + k
  OBVIOUS
<1> HIDE DEF k
<1>2. k * g \in Nat /\ i * g \in Nat
  BY <1>1
<1>3. j * g = i * g + k * g
  BY <1>1
<1> QED BY <1>2, <1>3

LEMMA QuotientIs ==
    ASSUME NEW g \in Nat, g > 0, NEW q \in Nat, NEW r \in Nat, r < g
    PROVE  (q * g + r) \div g = q
<1> DEFINE x == q * g + r
           c == x \div g
           m == x % g
           k == q - c
<1>1. x \in Int
  OBVIOUS
<1>2. m \in 0..(g - 1) /\ x = c * g + m /\ c \in Int
  <2> HIDE DEF x
  <2> QED BY <1>1
<1> HIDE DEF c, m
<1>3. k \in Int /\ k * g = m - r
  BY <1>2
<1> HIDE DEF k
<1>4. k = 0
  <2>1. CASE k >= 1
    BY <2>1, <1>2, <1>3, MulGe
  <2>2. CASE k <= -1
    BY <2>2, <1>2, <1>3, MulLe
  <2> QED BY <2>1, <2>2, <1>3
<1>5. c = q
  BY <1>2, <1>3, <1>4 DEF k
<1> QED BY <1>5 DEF c

LEMMA WrapsAbove ==
    ASSUME NEW n \in Nat, NEW w \in Nat, w > 0
    PROVE  n % w = n <=> n < w
<1>1. n % w < w
  OBVIOUS
<1>2. ASSUME n < w PROVE n % w = n
  <2>1. (0 * w + n) \div w = 0
    BY <1>2, QuotientIs
  <2>2. 0 * w + n = n
    OBVIOUS
  <2>3. n = w * (n \div w) + (n % w)
    OBVIOUS
  <2> QED BY <2>1, <2>2, <2>3
<1> QED BY <1>1, <1>2

\* The total length is the true one just for what IPv4 can carry.
LEMMA AcceptedIff ==
    ASSUME NEW d \in Datagram
    PROVE  Accepted(d) <=> ~Oversized(d)
<1> DEFINE n == Len(d) + Headers
           w == MaxPayload + Headers + 1
<1>1. Len(d) \in Nat /\ n \in Nat /\ w \in Nat /\ w > 0 /\ Headers \in Nat
      /\ MaxPayload \in Nat
  BY SizeAssumption DEF Datagram
<1>2. n < w <=> ~(Len(d) > MaxPayload)
  BY <1>1
<1>3. TotalLength(Len(d)) = n % w
  BY DEF TotalLength
<1> HIDE DEF n, w
<1>4. n % w = n <=> n < w
  BY <1>1, WrapsAbove
<1> QED BY <1>2, <1>3, <1>4 DEF Accepted, Oversized, n

LEMMA ReplyTypes ==
    /\ Datagram \subseteq Reply /\ Malformed \in Reply /\ Seq(Datagram) \subseteq Seq(Reply)
    /\ \A d \in Datagram : Outcome(d) \in Reply /\ <<Outcome(d)>> \in Seq(Reply)
<1>1. 1..MaxDgrams \subseteq 0..MaxDgrams /\ 0 \in 0..MaxDgrams
  BY BoundAssumption
<1>2. Datagram \subseteq Reply
  <2>1. \A d \in Seq(1..MaxDgrams) : d \in Seq(0..MaxDgrams)
    BY <1>1, SeqMonotonic, Zenon
  <2> QED BY <2>1 DEF Datagram, Reply
<1>3. Malformed \in Reply
  BY <1>1 DEF Malformed, Reply
<1>4. \A d \in Datagram : Outcome(d) \in Reply
  BY <1>2, <1>3 DEF Outcome
<1>5. Seq(Datagram) \subseteq Seq(Reply)
  BY <1>2
<1> QED BY <1>2, <1>3, <1>4, <1>5

LEMMA CarriedSeq ==
    ASSUME NEW s \in Seq(Datagram)
    PROVE  /\ Carried(s) \in Seq(Reply) /\ Len(Carried(s)) = Len(s)
           /\ \A i \in 1..Len(s) : Carried(s)[i] = Outcome(s[i])
<1> DEFINE c == Carried(s)
<1>1. Len(s) \in Nat /\ \A i \in 1..Len(s) : s[i] \in Datagram
  OBVIOUS
<1>2. c = [i \in 1..Len(s) |-> Outcome(s[i])]
  BY DEF Carried, Outcome
<1>3. c \in [1..Len(s) -> Reply]
  BY <1>1, <1>2, ReplyTypes
<1>4. \A i \in 1..Len(s) : c[i] = Outcome(s[i])
  BY <1>2
<1> HIDE DEF c
<1>5. c \in Seq(Reply) /\ Len(c) = Len(s)
  BY <1>1, <1>3
<1> QED BY <1>4, <1>5 DEF c

LEMMA CarriedAppend ==
    ASSUME NEW s \in Seq(Datagram), NEW d \in Datagram
    PROVE  Carried(Append(s, d)) = Append(Carried(s), Outcome(d))
<1> DEFINE e == Append(s, d)
           A == Carried(e)
           B == Append(Carried(s), Outcome(d))
<1>1. e \in Seq(Datagram) /\ Len(e) = Len(s) + 1 /\ Len(s) \in Nat
  OBVIOUS
<1>2. \A i \in 1..Len(e) : e[i] = IF i <= Len(s) THEN s[i] ELSE d
  BY <1>1
<1> HIDE DEF e
<1>3. /\ A \in Seq(Reply) /\ Len(A) = Len(s) + 1
      /\ \A i \in 1..(Len(s) + 1) : A[i] = Outcome(e[i])
  BY <1>1, CarriedSeq
<1>4. /\ Carried(s) \in Seq(Reply) /\ Len(Carried(s)) = Len(s)
      /\ \A i \in 1..Len(s) : Carried(s)[i] = Outcome(s[i])
  BY CarriedSeq
<1>5. Outcome(d) \in Reply
  BY ReplyTypes
<1>6. /\ B \in Seq(Reply) /\ Len(B) = Len(s) + 1
      /\ \A i \in 1..Len(s) : B[i] = Carried(s)[i]
      /\ B[Len(s) + 1] = Outcome(d)
  BY <1>4, <1>5, AppendProperties
<1> HIDE DEF A, B
<1>7. \A i \in 1..Len(A) : A[i] = B[i]
  <2>1. ASSUME NEW i \in 1..Len(A) PROVE A[i] = B[i]
    <3>1. CASE i <= Len(s)
      <4>1. i \in 1..Len(s) /\ i \in 1..(Len(s) + 1) /\ e[i] = s[i]
        BY <1>1, <1>2, <1>3, <3>1
      <4> QED BY <1>3, <1>4, <1>6, <4>1
    <3>2. CASE ~(i <= Len(s))
      <4>1. i = Len(s) + 1 /\ i \in 1..(Len(s) + 1) /\ e[i] = d
        BY <1>1, <1>2, <1>3, <3>2
      <4> QED BY <1>3, <1>6, <4>1
    <3> QED BY <3>1, <3>2
  <2> QED BY <2>1
<1>8. A = B
  BY <1>3, <1>6, <1>7, SeqEqual
<1> QED BY <1>8 DEF A, B, e

LEMMA PrependOne ==
    ASSUME NEW u \in Seq(Reply), NEW c \in Seq(Reply), Len(u) = 1
    PROVE  /\ u \o c \in Seq(Reply) /\ Len(u \o c) = 1 + Len(c)
           /\ \A i \in 1..(1 + Len(c)) : (u \o c)[i] = IF i <= 1 THEN u[i] ELSE c[i - 1]
<1> DEFINE w == u \o c
<1>1. /\ w \in Seq(Reply) /\ Len(w) = Len(u) + Len(c)
      /\ \A i \in 1..(Len(u) + Len(c)) : w[i] = IF i <= Len(u) THEN u[i] ELSE c[i - Len(u)]
  BY ConcatProperties
<1> HIDE DEF w
<1>2. /\ w \in Seq(Reply) /\ Len(w) = 1 + Len(c)
      /\ \A i \in 1..(1 + Len(c)) : w[i] = IF i <= 1 THEN u[i] ELSE c[i - 1]
  BY <1>1
<1> QED BY <1>2 DEF w

LEMMA CarriedHead ==
    ASSUME NEW s \in Seq(Datagram), s # <<>>
    PROVE  Carried(s) = <<Outcome(Head(s))>> \o Carried(Tail(s))
<1> DEFINE h == Head(s)
           t == Tail(s)
           u == <<Outcome(h)>>
           A == Carried(s)
           C == Carried(t)
           B == u \o C
<1>1. /\ t \in Seq(Datagram) /\ Len(s) \in Nat /\ Len(t) = Len(s) - 1 /\ Len(s) >= 1
      /\ h = s[1] /\ h \in Datagram /\ \A i \in 1..Len(t) : t[i] = s[i + 1]
  OBVIOUS
<1>2. /\ A \in Seq(Reply) /\ Len(A) = Len(s)
      /\ \A i \in 1..Len(s) : A[i] = Outcome(s[i])
  BY CarriedSeq
<1> HIDE DEF h, t, A
<1>3. /\ C \in Seq(Reply) /\ Len(C) = Len(t)
      /\ \A i \in 1..Len(t) : C[i] = Outcome(t[i])
  BY <1>1, CarriedSeq
<1>4. u \in Seq(Reply) /\ Len(u) = 1 /\ u[1] = Outcome(h)
  BY <1>1, ReplyTypes
<1> HIDE DEF u, C
<1>5. /\ B \in Seq(Reply) /\ Len(B) = 1 + Len(C)
      /\ \A i \in 1..(1 + Len(C)) : B[i] = IF i <= 1 THEN u[i] ELSE C[i - 1]
  BY <1>3, <1>4, PrependOne, Zenon
<1> HIDE DEF B
<1>6. ASSUME NEW i \in 1..Len(A) PROVE A[i] = B[i]
  <2>1. CASE i = 1
    BY <1>1, <1>2, <1>3, <1>4, <1>5, <2>1
  <2>2. CASE i # 1
    <3>1. i - 1 \in 1..Len(t) /\ i \in 1..(1 + Len(C)) /\ (i - 1) + 1 = i /\ i \in 1..Len(s)
      BY <1>1, <1>2, <1>3, <2>2
    <3>2. t[i - 1] = s[i]
      BY <1>1, <3>1
    <3>3. B[i] = C[i - 1]
      BY <1>5, <2>2, <3>1
    <3> QED BY <1>2, <1>3, <3>1, <3>2, <3>3
  <2> QED BY <2>1, <2>2
<1>7. A = B
  BY <1>1, <1>2, <1>3, <1>5, <1>6, SeqEqual
<1> QED BY <1>7 DEF A, B, C, h, t, u

\* Bytes of k full segments are cut into just these.
LEMMA ResegmentWhole ==
    ASSUME NEW b \in Datagram, NEW g \in Nat, g > 0, NEW k \in Nat, Len(b) = k * g
    PROVE  /\ Resegment(b, g) \in Seq(Datagram)
           /\ Len(Resegment(b, g)) = k
           /\ \A i \in 1..k :
                /\ (i - 1) * g + 1 \in 1..Len(b) /\ i * g \in 1..Len(b)
                /\ Resegment(b, g)[i] = SubSeq(b, (i - 1) * g + 1, i * g)
<1>1. (Len(b) + g - 1) \div g = k
  <2>1. Len(b) + g - 1 = k * g + (g - 1) /\ g - 1 \in Nat /\ g - 1 < g
    OBVIOUS
  <2> QED BY <2>1, QuotientIs
<1>2. ASSUME NEW i \in 1..k
      PROVE  /\ (i - 1) * g + 1 \in 1..Len(b) /\ i * g \in 1..Len(b)
             /\ (IF i * g < Len(b) THEN i * g ELSE Len(b)) = i * g
             /\ SubSeq(b, (i - 1) * g + 1, i * g) \in Datagram
  <2> DEFINE lo == (i - 1) * g
             hi == i * g
             n == Len(b)
  <2>1. lo \in Nat /\ hi \in Nat /\ n \in Nat /\ hi = lo + g
    <3>1. i \in Nat /\ i - 1 \in Nat
      OBVIOUS
    <3>2. lo \in Nat /\ hi \in Nat
      BY <3>1
    <3>3. hi = lo + g
      BY <3>1
    <3>4. n \in Nat
      BY DEF Datagram
    <3> QED BY <3>2, <3>3, <3>4
  <2>2. hi <= n
    BY MulMono
  <2> HIDE DEF lo, hi, n
  <2>3. lo + 1 \in 1..n /\ hi \in 1..n /\ (IF hi < n THEN hi ELSE n) = hi
    BY <2>1, <2>2
  <2>4. SubSeq(b, lo + 1, hi) \in Datagram
    <3>1. ASSUME NEW j \in (lo + 1)..hi PROVE b[j] \in 1..MaxDgrams
      <4>1. j \in 1..n
        BY <2>1, <2>2
      <4> QED BY <4>1, ElementOfSeq DEF n, Datagram
    <3> QED BY <2>1, <3>1, SubSeqProperties DEF Datagram
  <2> QED BY <2>3, <2>4 DEF lo, hi, n
<1>3. Resegment(b, g) = [i \in 1..k |-> SubSeq(b, (i - 1) * g + 1, i * g)]
  BY <1>1, <1>2 DEF Resegment
<1>4. Resegment(b, g) \in Seq(Datagram) /\ Len(Resegment(b, g)) = k
  <2> DEFINE c == Resegment(b, g)
  <2>1. c \in [1..k -> Datagram]
    BY <1>2, <1>3
  <2> HIDE DEF c
  <2>2. c \in Seq(Datagram) /\ Len(c) = k
    BY <2>1
  <2> QED BY <2>2 DEF c
<1> QED BY <1>2, <1>3, <1>4

\* A further segment, possibly a shorter one, is cut off as it was put in.
LEMMA ResegmentJoins ==
    ASSUME NEW b \in Datagram, NEW d \in Datagram, NEW g \in Nat, g > 0, NEW k \in Nat,
           Len(b) = k * g, 0 < Len(d), Len(d) <= g
    PROVE  Resegment(b \o d, g) = Append(Resegment(b, g), d)
<1> DEFINE r == Len(d)
           w == b \o d
           A == Resegment(b, g)
           B == Resegment(w, g)
<1>1. r \in Nat /\ Len(b) \in Nat /\ w \in Datagram /\ Len(w) = k * g + r
  BY DEF Datagram
<1>2. (Len(w) + g - 1) \div g = k + 1
  <2>1. k * g + r + g - 1 = (k + 1) * g + (r - 1) /\ r - 1 \in Nat /\ r - 1 < g
    <3> HIDE DEF r, w
    <3>1. (k + 1) * g = k * g + g
      OBVIOUS
    <3> QED BY <1>1, <3>1 DEF r
  <2> QED BY <1>1, <2>1, QuotientIs
<1>3. /\ A \in Seq(Datagram) /\ Len(A) = k
      /\ \A i \in 1..k :
           /\ (i - 1) * g + 1 \in 1..Len(b) /\ i * g \in 1..Len(b)
           /\ A[i] = SubSeq(b, (i - 1) * g + 1, i * g)
  BY ResegmentWhole
<1>4. ASSUME NEW i \in 1..k
      PROVE  SubSeq(w, (i - 1) * g + 1, IF i * g < Len(w) THEN i * g ELSE Len(w)) = A[i]
  <2>1. (i - 1) * g + 1 \in 1..Len(b) /\ i * g \in 1..Len(b)
    BY <1>3
  <2>2. i * g < Len(w)
    BY <1>1, <2>1
  <2>3. SubSeq(w, (i - 1) * g + 1, i * g) = SubSeq(b, (i - 1) * g + 1, i * g)
    BY <2>1, SubSeqOfConcat1 DEF Datagram
  <2> QED BY <1>3, <2>2, <2>3
<1>5. SubSeq(w, (k + 1 - 1) * g + 1, IF (k + 1) * g < Len(w) THEN (k + 1) * g ELSE Len(w)) = d
  <2>1. (k + 1 - 1) * g = Len(b) /\ (k + 1) * g = Len(b) + g
    BY <1>1
  <2>2. (IF (k + 1) * g < Len(w) THEN (k + 1) * g ELSE Len(w)) = Len(b) + r
    BY <1>1, <2>1
  <2>3. SubSeq(w, Len(b) + 1, Len(b) + r) = SubSeq(d, (Len(b) + 1) - Len(b), (Len(b) + r) - Len(b))
    <3>1. Len(b) + 1 \in (Len(b) + 1)..(Len(b) + Len(d))
      BY <1>1
    <3>2. Len(b) + r \in (Len(b) + 1)..(Len(b) + Len(d))
      BY <1>1
    <3> QED BY <3>1, <3>2, SubSeqOfConcat2 DEF Datagram
  <2>4. (Len(b) + 1) - Len(b) = 1 /\ (Len(b) + r) - Len(b) = Len(d)
    BY <1>1
  <2>5. SubSeq(d, 1, Len(d)) = d
    BY SubSeqFull DEF Datagram
  <2> QED BY <2>1, <2>2, <2>3, <2>4, <2>5
<1>6. B = [i \in 1..(k + 1) |->
             SubSeq(w, (i - 1) * g + 1, IF i * g < Len(w) THEN i * g ELSE Len(w))]
  BY <1>2 DEF Resegment
<1> HIDE DEF A, B, w
<1>7. \A i \in 1..(k + 1) : B[i] = IF i <= k THEN A[i] ELSE d
  <2>1. ASSUME NEW i \in 1..(k + 1) PROVE B[i] = IF i <= k THEN A[i] ELSE d
    <3>1. CASE i <= k
      <4>1. i \in 1..k
        BY <3>1
      <4>2. B[i] = A[i]
        BY <1>4, <1>6, <4>1
      <4> QED BY <3>1, <4>2
    <3>2. CASE ~(i <= k)
      <4>1. i = k + 1
        BY <3>2
      <4>2. k + 1 \in 1..(k + 1)
        OBVIOUS
      <4>3. B[k + 1] = d
        BY <1>5, <1>6, <4>2
      <4> QED BY <3>2, <4>1, <4>3
    <3> QED BY <3>1, <3>2
  <2> QED BY <2>1
<1>8. DOMAIN B = 1..(k + 1) /\ B = [i \in 1..(k + 1) |-> IF i <= k THEN A[i] ELSE d]
  BY <1>6, <1>7
<1>9. B \in Seq(Datagram) /\ Len(B) = k + 1
  BY <1>3, <1>8
<1>10. /\ Append(A, d) \in Seq(Datagram) /\ Len(Append(A, d)) = k + 1
       /\ \A i \in 1..(k + 1) : Append(A, d)[i] = IF i <= k THEN A[i] ELSE d
  <2> DEFINE C == Append(A, d)
  <2>1. /\ C \in Seq(Datagram) /\ Len(C) = Len(A) + 1
        /\ \A i \in 1..Len(A) : C[i] = A[i]
        /\ C[Len(A) + 1] = d
    BY <1>3, AppendProperties
  <2> HIDE DEF C
  <2>2. ASSUME NEW i \in 1..(k + 1) PROVE C[i] = IF i <= k THEN A[i] ELSE d
    BY <1>3, <2>1
  <2> QED BY <1>3, <2>1, <2>2 DEF C
<1> QED BY <1>7, <1>9, <1>10, SeqEqual DEF A, B, w


\* A super-frame of one datagram is that datagram; a super-frame of whole
\* segments takes one more datagram that is not longer than a segment.
LEMMA CutSingle ==
    ASSUME NEW d \in Datagram, NEW g, g = Len(d)
    PROVE  Cut(d, g) = <<Outcome(d)>> /\ Delivered(d, 0) = <<Outcome(d)>>
<1>1. Segments(d, GsoOf(Len(d), g)) = <<d>> /\ Segments(d, 0) = <<d>>
  BY DEF Segments, GsoOf, Datagram
<1> QED BY <1>1, AcceptedIff DEF Cut, Delivered, Outcome

LEMMA CutWhole ==
    ASSUME NEW b \in Datagram, ~Oversized(b),
           NEW g \in Nat, g > 0, NEW k \in Nat, k >= 1, Len(b) = k * g
    PROVE  Cut(b, g) = Resegment(b, g) /\ Cut(b, g) \in Seq(Datagram)
<1>0. Len(b) \in Nat /\ Resegment(b, g) \in Seq(Datagram)
  <2>1. Len(b) \in Nat
    BY DEF Datagram
  <2>2. Resegment(b, g) \in Seq(Datagram)
    BY ResegmentWhole
  <2> QED BY <2>1, <2>2
<1>1. CASE Len(b) > g
  <2>1. GsoOf(Len(b), g) = g /\ g # 0
    BY <1>1 DEF GsoOf
  <2> QED BY <1>0, <2>1, AcceptedIff DEF Cut, Delivered, Segments
<1>2. CASE ~(Len(b) > g)
  <2>1. Len(b) >= g
    BY MulGe
  <2>2. Len(b) = g
    BY <1>0, <1>2, <2>1
  <2>3. Cut(b, g) = <<b>>
    BY <2>2, CutSingle DEF Outcome
  <2> DEFINE e == <<>>
             z == 0
  <2>4. /\ e \in Datagram /\ z \in Nat /\ Len(e) = z * g /\ e \o b = b
        /\ 0 < Len(b) /\ Len(b) <= g
    BY <2>2, ConcatEmptySeq DEF Datagram
  <2> HIDE DEF e, z
  <2>5. Resegment(e \o b, g) = Append(Resegment(e, g), b)
    BY <2>4, ResegmentJoins
  <2>6. Resegment(e, g) \in Seq(Datagram) /\ Len(Resegment(e, g)) = z
    BY <2>4, ResegmentWhole
  <2>7. Resegment(e, g) = <<>>
    BY <2>6 DEF z
  <2>8. Append(<<>>, b) = <<b>>
    OBVIOUS
  <2> QED BY <1>0, <2>3, <2>4, <2>5, <2>7, <2>8
<1> QED BY <1>1, <1>2

LEMMA CutJoins ==
    ASSUME NEW b \in Datagram, NEW d \in Datagram, NEW g \in Nat, g > 0,
           NEW k \in Nat, k >= 1, Len(b) = k * g, 0 < Len(d), Len(d) <= g,
           Len(b) + Len(d) <= MaxPayload
    PROVE  /\ Cut(b \o d, g) = Cut(b, g) \o <<Outcome(d)>>
           /\ Cut(b, g) \in Seq(Datagram)
<1>2. /\ Len(b) \in Nat /\ Len(d) \in Nat /\ Len(b \o d) = Len(b) + Len(d) /\ Len(b) >= g
      /\ b \o d \in Datagram
  <2>1. /\ Len(b) \in Nat /\ Len(d) \in Nat /\ Len(b \o d) = Len(b) + Len(d)
        /\ b \o d \in Datagram
    BY DEF Datagram
  <2>2. Len(b) >= g
    BY MulGe
  <2> QED BY <2>1, <2>2
<1>0. ~Oversized(b) /\ ~Oversized(d) /\ ~Oversized(b \o d)
  <2>1. MaxPayload \in Nat
    BY SizeAssumption
  <2> QED BY <1>2, <2>1 DEF Oversized
<1>1. Cut(b, g) = Resegment(b, g) /\ Cut(b, g) \in Seq(Datagram)
  BY <1>0, CutWhole
<1>3. GsoOf(Len(b \o d), g) = g /\ g # 0
  BY <1>2 DEF GsoOf
<1>4. Cut(b \o d, g) = Resegment(b \o d, g)
  BY <1>0, <1>2, <1>3, AcceptedIff DEF Cut, Delivered, Segments
<1>5. Cut(b \o d, g) = Append(Cut(b, g), d)
  BY <1>1, <1>4, ResegmentJoins
<1>6. Outcome(d) = d
  BY <1>0 DEF Outcome
<1> QED BY <1>1, <1>5, <1>6, AppendIsConcat

LEMMA Regroup ==
    ASSUME NEW s \in Seq(Reply), NEW v \in Seq(Reply), NEW w \in Seq(Reply)
    PROVE  (s \o v) \o w = s \o (v \o w) /\ s \o v \in Seq(Reply)
<1>1. (s \o v) \o w = s \o (v \o w)
  BY ConcatAssociative, SMTT(60)
<1>2. s \o v \in Seq(Reply)
  BY ConcatProperties, SMTT(60)
<1> QED BY <1>1, <1>2

LEMMA OneReply == ASSUME NEW d \in Datagram PROVE <<Outcome(d)>> \in Seq(Reply)
  BY ReplyTypes

\* Nothing comes off the socket: what the guest has and what is held stay.
LEMMA KeepsReplies ==
    ASSUME ReplyInv, WholeSegments', seen' \in Seq(Reply), Held' \in Seq(Reply),
           seen' \o Held' = seen \o Held, queue' = queue, arrived' = arrived,
           family' = family
    PROVE  ReplyInv'
  BY DEF ReplyInv, Carried, Oversized

\* The first datagram of the socket comes next after them.
LEMMA TakesReply ==
    ASSUME UdpInv, ReplyInv, WholeSegments', seen' \in Seq(Reply), Held' \in Seq(Reply),
           queue # <<>>, queue' = Tail(queue), arrived' = arrived, family' = family,
           seen' \o Held' = (seen \o Held) \o <<Outcome(Head(queue))>>
    PROVE  ReplyInv'
<1> DEFINE X == seen \o Held
           q == Carried(Tail(queue))
           u == <<Outcome(Head(queue))>>
<1>1. queue \in Seq(Datagram)
  BY DEF UdpInv, UdpTypeOK, Datagram
<1>2. Head(queue) \in Datagram /\ Tail(queue) \in Seq(Datagram)
  BY <1>1
<1>3. X \in Seq(Reply) /\ u \in Seq(Reply) /\ q \in Seq(Reply)
  BY <1>2, OneReply, CarriedSeq, ConcatProperties DEF ReplyInv
<1>4. X \o Carried(queue) = Carried(arrived)
  BY DEF ReplyInv
<1>5. Carried(queue) = u \o q
  BY <1>1, CarriedHead
<1>6. Carried(queue)' = q /\ Carried(arrived)' = Carried(arrived)
  BY DEF Carried, Oversized
<1>7. seen' \o Held' = X \o u
  OBVIOUS
<1> HIDE DEF X, q, u
<1>8. (X \o u) \o q = X \o (u \o q)
  BY ONLY <1>3, Regroup
<1>9. (seen' \o Held') \o Carried(queue)' = Carried(arrived)'
  BY <1>4, <1>5, <1>6, <1>7, <1>8
<1> QED BY <1>9 DEF ReplyInv


\* In the drain: the next datagram, and the segments held so far.
LEMMA DrainFact ==
    ASSUME UdpInv, ReplyInv, pc = "drain"
    PROVE  /\ res = NoError /\ buf \in Datagram /\ seg \in Nat /\ seg > 0
           /\ \E k \in Nat : k >= 1 /\ Len(buf) = k * seg
           /\ Held = Cut(buf, seg) /\ SuperFrame(buf) = Cut(buf, seg)
           /\ Receive => /\ queue # <<>> /\ queue' = Tail(queue) /\ arrived' = arrived
                         /\ Incoming(Len(buf)) = Head(queue)
                         /\ Incoming(Len(buf)) \in Datagram
<1>1. res = NoError /\ buf \in Datagram /\ seg \in Nat /\ seg > 0
  BY MaxDgramFact DEF UdpInv, UdpTypeOK, BufferFits, Datagram
<1>2. \E k \in Nat : k >= 1 /\ Len(buf) = k * seg
  BY DEF ReplyInv, WholeSegments
<1>3. Held = Cut(buf, seg) /\ SuperFrame(buf) = Cut(buf, seg)
  BY DEF Held, SuperFrame, Cut
<1>4. Receive => queue # <<>> /\ queue' = Tail(queue) /\ arrived' = arrived
  BY DEF Receive
<1>5. Receive => /\ Incoming(Len(buf)) = Head(queue)
                 /\ Incoming(Len(buf)) \in Datagram
  BY <1>4, DrainRoom, IncomingWhole
<1> QED BY <1>1, <1>2, <1>3, <1>4, <1>5

\* At the next recv nothing is held.
LEMMA RearmHolds ==
    ASSUME Rearm PROVE WholeSegments' /\ Held' = <<>>
  BY DEF Rearm, WholeSegments, Held

\* What was held goes to the guest, with what came after it.
LEMMA FlushReplies ==
    ASSUME UdpInv, ReplyInv, pc = "drain", NEW rest \in Seq(Reply),
           seen' = seen \o (Held \o rest)
    PROVE  seen' \in Seq(Reply) /\ seen' = (seen \o Held) \o rest
<1>1. seen \in Seq(Reply) /\ Held \in Seq(Reply)
  BY DEF ReplyInv
<1>2. (seen \o Held) \o rest = seen \o (Held \o rest) /\ seen \o Held \in Seq(Reply)
  BY <1>1, Regroup, SMTT(60)
<1>3. (seen \o Held) \o rest \in Seq(Reply)
  BY <1>2, Regroup, SMTT(60)
<1> QED BY <1>2, <1>3, SMTT(60)

LEMMA ReplyStep ==
    ASSUME UdpInv, ReplyInv, [UdpNext]_udpVars
    PROVE  ReplyInv'
<1>0. /\ seen \in Seq(Reply) /\ Held \in Seq(Reply) /\ queue \in Seq(Datagram)
      /\ (seen \o Held) \o Carried(queue) = Carried(arrived)
      /\ seen \o Held \in Seq(Reply) /\ (seen \o Held) \o <<>> = seen \o Held
      /\ <<>> \in Seq(Reply) /\ family' = family
  <2>1. /\ seen \in Seq(Reply) /\ Held \in Seq(Reply) /\ queue \in Seq(Datagram)
        /\ (seen \o Held) \o Carried(queue) = Carried(arrived)
    BY DEF ReplyInv, UdpInv, UdpTypeOK, Datagram
  <2>2. seen \o Held \in Seq(Reply)
    BY <2>1, ConcatProperties
  <2>3. family' = family
    BY DEF UdpNext, UdpHandle, Arrive, SocketError, ForwardDatagram, RecvCompletes,
           ReplyPlain, BeginDrain, DrainEnds, DrainEmpty, DrainJoins, DrainTail,
           DrainFlush, UdpErrorToGuest, Rearm, flowVars, udpVars
  <2> QED BY <2>1, <2>2, <2>3, ConcatEmptySeq
<1>1. ASSUME NEW len \in Lens, Arrive(len) PROVE ReplyInv'
  <2> DEFINE d == [i \in 1..len |-> Len(arrived) + 1]
             X == seen \o Held
  <2>1. /\ Len(arrived) < MaxDgrams /\ len \in Nat
        /\ queue' = Append(queue, d) /\ arrived' = Append(arrived, d)
        /\ UNCHANGED <<flowVars, guestVars>>
    BY <1>1, SizeAssumption DEF Arrive
  <2>2. d \in Datagram
    <3>1. Len(arrived) + 1 \in 1..MaxDgrams
      BY <2>1, BoundAssumption DEF UdpInv
    <3> QED BY <2>1, <3>1 DEF Datagram
  <2>3. Held' = Held /\ seen' = seen /\ WholeSegments'
    BY <2>1 DEF Held, Cut, Delivered, Accepted, TotalLength, Outcome, Oversized,
                flowVars, guestVars, ReplyInv, WholeSegments
  <2>4. Carried(queue)' = Carried(Append(queue, d)) /\ Carried(arrived)' = Carried(Append(arrived, d))
    BY <1>0, <2>1 DEF Carried, Oversized
  <2> DEFINE u == <<Outcome(d)>>
             Q == Carried(queue)
             A == Carried(arrived)
  <2> HIDE DEF d
  <2>5. /\ Q \in Seq(Reply) /\ A \in Seq(Reply) /\ u \in Seq(Reply) /\ Outcome(d) \in Reply
        /\ X \in Seq(Reply) /\ X \o Q = A
    BY <1>0, <2>2, CarriedSeq, ReplyTypes DEF UdpInv
  <2>6. Carried(Append(queue, d)) = Append(Q, Outcome(d))
    BY <1>0, <2>2, CarriedAppend
  <2>7. Carried(Append(arrived, d)) = Append(A, Outcome(d))
    BY <2>2, CarriedAppend DEF UdpInv
  <2>8. Append(Q, Outcome(d)) = Q \o u /\ Append(A, Outcome(d)) = A \o u
    BY <2>5, AppendIsConcat
  <2>9. ReplyInv' <=> X \o Carried(queue)' = Carried(arrived)'
    BY <1>0, <2>3 DEF ReplyInv
  <2> HIDE DEF X, u, Q, A
  <2>10. (X \o Q) \o u = X \o (Q \o u)
    BY <2>5, Regroup, Zenon
  <2> QED BY <2>4, <2>5, <2>6, <2>7, <2>8, <2>9, <2>10
<1>2. ASSUME UNCHANGED <<flowVars, seen, queue, arrived>> PROVE ReplyInv'
  BY <1>2 DEF ReplyInv, WholeSegments, Held, Cut, Delivered, Accepted, TotalLength, Outcome,
              Oversized, Carried, flowVars
<1>3. CASE RecvCompletes
  <2>1. pc = "armed" /\ pc' = "ready" /\ seen' = seen /\ WholeSegments'
    BY <1>3 DEF RecvCompletes, guestVars, WholeSegments
  <2>2. Held = <<>>
    BY <2>1 DEF Held
  <2>3. CASE Receive /\ buf' = Incoming(0) /\ res' = NoError
    <3>1. /\ queue # <<>> /\ queue' = Tail(queue) /\ arrived' = arrived
          /\ Incoming(0) \in Datagram /\ Incoming(0) = Head(queue)
      <4>1. queue # <<>> /\ queue' = Tail(queue) /\ arrived' = arrived
        BY <2>3 DEF Receive
      <4>2. 0 \in Nat /\ 0 <= MaxDgram
        BY MaxDgramFact
      <4> QED BY <4>1, <4>2, IncomingWhole
    <3>2. Held' = <<Outcome(Head(queue))>> /\ Held' \in Seq(Reply)
      BY <1>0, <1>3, <2>1, <2>3, <3>1, OneReply DEF Held, Outcome, Oversized
    <3>3. seen \o Held = seen
      BY <1>0, <2>2, ConcatEmptySeq
    <3> QED BY <1>0, <2>1, <3>1, <3>2, <3>3, TakesReply
  <2>4. CASE ReceiveError /\ res' = err /\ UNCHANGED buf
    <3>1. Held' = <<>> /\ queue' = queue /\ arrived' = arrived
      BY <2>1, <2>4 DEF Held, ReceiveError
    <3> QED BY <1>0, <2>1, <2>2, <3>1, KeepsReplies
  <2> QED BY <1>3, <2>3, <2>4 DEF RecvCompletes
<1>4. CASE ReplyPlain
  <2>1. /\ pc = "ready" /\ res = NoError /\ seen' = seen \o Delivered(buf, 0) /\ Rearm
        /\ queue' = queue /\ arrived' = arrived
    BY <1>4 DEF ReplyPlain, ToGuest, sockVars
  <2>2. Held = <<Outcome(buf)>> /\ Held' = <<>> /\ WholeSegments'
    BY <2>1, RearmHolds DEF Held
  <2>3. buf \in Datagram
    BY DEF UdpInv, UdpTypeOK, Datagram
  <2>4. Delivered(buf, 0) = <<Outcome(buf)>>
    BY <2>3, CutSingle
  <2> QED BY <1>0, <2>1, <2>2, <2>4, KeepsReplies
<1>5. CASE BeginDrain
  <2>1. /\ pc = "ready" /\ res = NoError /\ pc' = "drain" /\ seg' = Len(buf) /\ buf' = buf
        /\ seen' = seen /\ queue' = queue /\ arrived' = arrived
    BY <1>5 DEF BeginDrain, sockVars, guestVars
  <2>2. buf \in Datagram /\ Len(buf) \in Nat
    BY DEF UdpInv, UdpTypeOK, Datagram
  <2>3. Held = <<Outcome(buf)>> /\ Held' = Cut(buf, Len(buf))
    BY <1>0, <2>1 DEF Held, Cut, Delivered, Accepted, TotalLength
  <2>4. Held' = Held
    BY <2>2, <2>3, CutSingle
  <2>5. WholeSegments'
    <3>1. Len(buf') = 1 * seg'
      BY <2>1, <2>2
    <3> QED BY <3>1 DEF WholeSegments
  <2> QED BY <1>0, <2>1, <2>4, <2>5, KeepsReplies
<1>6. CASE DrainEnds
  <2>1. /\ pc = "drain" /\ seen' = seen \o SuperFrame(buf) /\ Rearm
        /\ queue' = queue /\ arrived' = arrived
    BY <1>6 DEF DrainEnds, ToGuest, ReceiveError, sockVars
  <2>2. seen' = seen \o Held /\ Held' = <<>> /\ WholeSegments'
    BY <2>1, DrainFact, RearmHolds
  <2> QED BY <1>0, <2>1, <2>2, KeepsReplies
<1>7. CASE DrainEmpty
  <2>1. /\ pc = "drain" /\ Receive /\ Rearm /\ Incoming(Len(buf)) = <<>>
        /\ seen' = seen \o (SuperFrame(buf) \o Delivered(<<>>, 0))
    BY <1>7 DEF DrainEmpty, ToGuest
  <2>2. /\ queue # <<>> /\ queue' = Tail(queue) /\ arrived' = arrived
        /\ Head(queue) \in Datagram /\ Head(queue) = <<>>
        /\ SuperFrame(buf) = Held
    BY <2>1, DrainFact
  <2> DEFINE u == <<Outcome(Head(queue))>>
  <2>3. u \in Seq(Reply) /\ seen' = seen \o (Held \o u)
    <3>1. u \in Seq(Reply) /\ Delivered(Head(queue), 0) = u
      BY <2>2, OneReply, CutSingle
    <3> QED BY <2>1, <2>2, <3>1, Zenon
  <2>4. seen' \in Seq(Reply) /\ seen' = (seen \o Held) \o u
    <3> HIDE DEF u
    <3> QED BY <2>1, <2>3, FlushReplies
  <2>5. Held' = <<>> /\ WholeSegments' /\ seen' \o <<>> = seen'
    BY <2>1, <2>4, RearmHolds, ConcatEmptySeq
  <2> QED BY <1>0, <2>2, <2>4, <2>5, TakesReply
<1>8. CASE DrainJoins
  <2> DEFINE d == Incoming(Len(buf))
  <2>1. /\ pc = "drain" /\ Receive /\ Fits(d) /\ Len(d) = seg /\ buf' = buf \o d
        /\ pc' = "drain" /\ res' = res /\ seg' = seg /\ seen' = seen
    BY <1>8 DEF DrainJoins, guestVars
  <2>2. /\ buf \in Datagram /\ seg \in Nat /\ seg > 0 /\ Held = Cut(buf, seg)
        /\ queue # <<>> /\ queue' = Tail(queue) /\ arrived' = arrived
        /\ d = Head(queue) /\ d \in Datagram
    BY <2>1, DrainFact
  <2>3. PICK k \in Nat : k >= 1 /\ Len(buf) = k * seg
    BY <2>1, DrainFact
  <2> HIDE DEF d
  <2>4. Cut(buf \o d, seg) = Cut(buf, seg) \o <<Outcome(d)>>
    <3>1. 0 < Len(d) /\ Len(d) <= seg
      BY <2>1, <2>2
    <3>2. Len(buf) + Len(d) <= MaxPayload
      BY <2>1 DEF Fits
    <3> QED BY <2>2, <2>3, <3>1, <3>2, CutJoins
  <2>5. Held' = Held \o <<Outcome(d)>>
    BY <1>0, <2>1, <2>2, <2>4 DEF Held, Cut, Delivered, Accepted, TotalLength
  <2>6. WholeSegments'
    <3>1. Len(buf') = Len(buf) + seg
      <4>1. Len(buf \o d) = Len(buf) + Len(d)
        BY <2>2, ConcatProperties DEF Datagram
      <4> QED BY <2>1, <4>1
    <3>2. Len(buf') = (k + 1) * seg'
      BY <2>1, <2>2, <2>3, <3>1
    <3> QED BY <3>2 DEF WholeSegments
  <2> DEFINE u == <<Outcome(d)>>
  <2>7. u \in Seq(Reply)
    BY <2>2, OneReply
  <2>8. Held' \in Seq(Reply) /\ seen' \o Held' = (seen \o Held) \o u
    <3> HIDE DEF u
    <3>1. Held \o u \in Seq(Reply) /\ seen \o (Held \o u) = (seen \o Held) \o u
      BY <1>0, <2>7, Regroup, SMTT(60)
    <3> QED BY <2>1, <2>5, <3>1 DEF u
  <2> QED BY <1>0, <2>1, <2>2, <2>6, <2>8, TakesReply
<1>9. CASE DrainTail
  <2> DEFINE d == Incoming(Len(buf))
  <2>1. /\ pc = "drain" /\ Receive /\ Fits(d) /\ Len(d) < seg /\ Rearm
        /\ seen' = seen \o SuperFrame(buf \o d)
    BY <1>9 DEF DrainTail, ToGuest
  <2>2. /\ buf \in Datagram /\ seg \in Nat /\ seg > 0 /\ Held = Cut(buf, seg)
        /\ queue # <<>> /\ queue' = Tail(queue) /\ arrived' = arrived
        /\ d = Head(queue) /\ d \in Datagram
    BY <2>1, DrainFact
  <2>3. PICK k \in Nat : k >= 1 /\ Len(buf) = k * seg
    BY <2>1, DrainFact
  <2> HIDE DEF d
  <2>4. 0 < Len(d) /\ Len(d) <= seg /\ Len(buf) + Len(d) <= MaxPayload
    BY <2>1, <2>2 DEF Fits, Datagram
  <2>5. SuperFrame(buf \o d) = Held \o <<Outcome(d)>>
    BY <2>2, <2>3, <2>4, CutJoins DEF SuperFrame, Cut
  <2> DEFINE u == <<Outcome(d)>>
  <2>6. u \in Seq(Reply) /\ seen' = seen \o (Held \o u)
    BY <2>1, <2>2, <2>5, OneReply, Zenon
  <2>7. seen' \in Seq(Reply) /\ seen' = (seen \o Held) \o u
    <3> HIDE DEF u
    <3> QED BY <2>1, <2>6, FlushReplies
  <2>8. Held' = <<>> /\ WholeSegments' /\ seen' \o <<>> = seen'
    BY <2>1, <2>7, RearmHolds, ConcatEmptySeq
  <2> QED BY <1>0, <2>2, <2>7, <2>8, TakesReply
<1>10. CASE DrainFlush
  <2> DEFINE d == Incoming(Len(buf))
  <2>1. /\ pc = "drain" /\ Receive /\ d # <<>> /\ buf' = d /\ seg' = Len(d)
        /\ pc' = "drain" /\ res' = res /\ seen' = seen \o SuperFrame(buf)
    BY <1>10 DEF DrainFlush, ToGuest
  <2>2. /\ SuperFrame(buf) = Held
        /\ queue # <<>> /\ queue' = Tail(queue) /\ arrived' = arrived
        /\ d = Head(queue) /\ d \in Datagram
    BY <2>1, DrainFact
  <2> HIDE DEF d
  <2>3. Held' = <<Outcome(d)>> /\ Held' \in Seq(Reply)
    <3>1. Held' = Cut(d, Len(d))
      BY <1>0, <2>1, DrainFact DEF Held, Cut, Delivered, Accepted, TotalLength
    <3>2. Cut(d, Len(d)) = <<Outcome(d)>>
      BY <2>2, CutSingle
    <3>3. <<Outcome(d)>> \in Seq(Reply)
      BY <2>2, OneReply
    <3> QED BY <3>1, <3>2, <3>3
  <2>4. WholeSegments'
    <3>1. Len(d) \in Nat
      BY <2>2 DEF Datagram
    <3>2. Len(buf') = 1 * seg'
      BY <2>1, <3>1
    <3> QED BY <3>2 DEF WholeSegments
  <2> QED BY <1>0, <2>1, <2>2, <2>3, <2>4, TakesReply
<1>11. CASE UdpErrorToGuest
  <2>1. /\ pc = "ready" /\ res # NoError /\ Rearm
        /\ seen' = seen /\ queue' = queue /\ arrived' = arrived
    BY <1>11 DEF UdpErrorToGuest, sockVars
  <2>2. Held = <<>> /\ Held' = <<>> /\ WholeSegments'
    BY <2>1, RearmHolds DEF Held
  <2> QED BY <1>0, <2>1, <2>2, KeepsReplies
<1>12. ASSUME NEW e \in Errnos, SocketError(e) PROVE ReplyInv'
  BY <1>2, <1>12 DEF SocketError, guestVars
<1>13. CASE ForwardDatagram \/ UNCHANGED udpVars
  BY <1>2, <1>13 DEF ForwardDatagram, udpVars, sockVars, guestVars
<1> QED
  BY <1>1, <1>3, <1>4, <1>5, <1>6, <1>7, <1>8, <1>9, <1>10, <1>11, <1>12, <1>13
     DEF UdpNext, UdpHandle

\* udp_to_guest hands on the socket's datagrams whole, in order and each
\* once, but for those longer than the guest's IPv4 can carry, which leave
\* one discarded frame each and disturb no other: through coalescing, the flush and copy of a datagram that does not
\* fit, empty datagrams, socket errors between two recvs, and the guest's
\* own cutting of super-frames, for every size and number of datagrams.
THEOREM RepliesSafety == UdpSpec => []RepliesConserved
<1>1. UdpInit => ReplyInv
  BY DEF UdpInit, ReplyInv, WholeSegments, Held, Carried
<1>2. UdpInv /\ ReplyInv /\ [UdpNext]_udpVars => ReplyInv'
  BY ReplyStep
<1>3. UdpInv /\ ReplyInv => RepliesConserved
  <2> SUFFICES ASSUME UdpInv, ReplyInv PROVE RepliesConserved
    OBVIOUS
  <2>1. buf \in Datagram
    BY DEF UdpInv, UdpTypeOK, Datagram
  <2>2. Delivered(buf, 0) = <<Outcome(buf)>>
    BY <2>1, CutSingle
  <2> QED BY <2>2 DEF ReplyInv, RepliesConserved, Held, SuperFrame, Cut
<1> QED
  BY <1>1, <1>2, <1>3, UdpInvariance, PTL DEF UdpSpec
=============================================================================
