------------------------------ MODULE TcpSend -------------------------------
(***************************************************************************)
(* The part of tcp_data_to_guest that TcpFlow treats as one step: how      *)
(* send_len bytes of the flow's ring buffer become tap frames, with the    *)
(* guest's MSS, TCP segmentation offload, the 16-bit IP length and the     *)
(* wrap of the ring (src/uring.rs).                                        *)
(***************************************************************************)
EXTENDS Integers, Sequences

CONSTANTS
    RingSize,       \* buf::FRAME
    MaxPiece,       \* TCP_MAX_PAYLOAD
    MinMss,         \* TCP_MIN_MSS
    Sends           \* the situations the loop is entered in

\* head, sent, buffered: the flow's ring; budget: the guest's window less
\* what is in flight; mss: as its SYN announced it; tso: negotiated.
SendType ==
    [head : 0..(RingSize - 1), sent : 0..RingSize, buffered : 0..RingSize,
     budget : Nat, mss : Nat, tso : BOOLEAN]

ASSUME SendAssumption ==
    /\ RingSize \in Nat \ {0} /\ MaxPiece \in Nat \ {0} /\ MinMss \in Nat \ {0}
    /\ Sends \subseteq SendType
    /\ \A s \in Sends : s.sent < s.buffered /\ s.budget > 0

VARIABLES
    send,       \* the situation
    sendOff,    \* bytes handed to send_tcp_segment so far
    pieces      \* the segments: [off, len, pos, first]

sendVars == <<send, sendOff, pieces>>

Smaller(a, b) == IF a < b THEN a ELSE b
Larger(a, b) == IF a > b THEN a ELSE b

SendInit == send \in Sends /\ sendOff = 0 /\ pieces = <<>>

\* guest_mss as new_tcp_flow keeps it.
Mss == Larger(send.mss, MinMss)

SendLen == Smaller(send.buffered - send.sent, send.budget)

UseGso == send.tso /\ SendLen > Mss

\* Faulty: a super-frame as long as there is data.
ChunkUncapped == IF UseGso THEN SendLen ELSE Smaller(SendLen, Mss)

Chunk ==
    IF UseGso THEN Smaller(SendLen, MaxPiece)
    ELSE Smaller(Smaller(SendLen, Mss), MaxPiece)

\* Faulty: the position in the ring leaves out what is in flight.
RingPosFromHead == (send.head + sendOff) % RingSize

RingPos == (send.head + send.sent + sendOff) % RingSize

\* One iteration: `first' bytes at pos, the rest at the ring's start.
SendPiece ==
    /\ sendOff < SendLen
    /\ LET len == Smaller(Chunk, SendLen - sendOff)
           pos == RingPos
       IN  /\ pieces' = Append(pieces, [off |-> sendOff, len |-> len, pos |-> pos,
                                        first |-> Smaller(len, RingSize - pos)])
           /\ sendOff' = sendOff + len
    /\ UNCHANGED send

SendNext == SendPiece

SendSpec == SendInit /\ [][SendNext]_sendVars

-----------------------------------------------------------------------------
(***************************************************************************)
(* Properties.                                                             *)
(***************************************************************************)

\* A segment is never empty (the loop ends), fits the IP length field, and,
\* unless the guest's kernel cuts it up, the guest's MSS; the segments follow
\* each other without gap and never go past the data or the window.
PiecesTile ==
    /\ sendOff <= SendLen
    /\ \A i \in 1..Len(pieces) :
          LET p == pieces[i]
          IN  /\ 0 < p.len /\ p.len <= MaxPiece
              /\ UseGso \/ p.len <= Mss
              /\ p.off = (IF i = 1 THEN 0 ELSE pieces[i - 1].off + pieces[i - 1].len)
              /\ p.off + p.len <= sendOff
              /\ i = Len(pieces) => p.off + p.len = sendOff

\* The two ranges of a segment are inside the ring and are its bytes: they
\* start at the stream position head + sent + off, the second range is used
\* only when the first ends at the ring's end, and the ranges are disjoint.
PiecesInRing ==
    \A i \in 1..Len(pieces) :
        LET p == pieces[i]
        IN  /\ p.pos = (send.head + send.sent + p.off) % RingSize
            /\ p.pos + p.first <= RingSize
            /\ p.first <= p.len
            /\ p.first < p.len => p.pos + p.first = RingSize
            /\ p.len - p.first <= p.pos
=============================================================================
