------------------------------ MODULE TcpFlow -------------------------------
(***************************************************************************)
(* One TCP connection of the guest, spliced by the datapath onto a host    *)
(* socket: the handlers of src/uring.rs that move bytes, acks, windows and *)
(* FINs between the two, with the sequence bookkeeping of flow::Tcp.       *)
(*                                                                         *)
(*     guest TCP  <-- toGuest / toPresto -->  presto  <-->  host socket    *)
(*                                                                         *)
(* presto's handlers are atomic (the loop is one thread).  The guest's     *)
(* kernel, the host's socket and the tap are external: the tap keeps order *)
(* but may lose frames; the guest retransmits, probes a zero window and    *)
(* keeps no out-of-order data.                                             *)
(*                                                                         *)
(* Byte n of either stream is the number n, so delivering the right bytes  *)
(* is a statement about values.  Sequence numbers are kept modulo SeqMod   *)
(* as the code keeps them modulo 2^32; windows are in bytes, scaled.       *)
(* What happens to the slot once the flow is removed is EventLoop's part.  *)
(***************************************************************************)
EXTENDS Integers, Sequences

CONSTANTS
    FRAME,        \* ring size of a flow's buffer
    Chunk,        \* bytes per segment (the MSS, or a TSO super-frame)
    SndBuf,       \* host socket send buffer
    GuestBuf,     \* guest receive buffer
    HostLen,      \* bytes the host may send
    GuestLen,     \* bytes the guest sends
    SeqMod,       \* sequence numbers wrap here
    TCP_ISN, GuestISN,
    TapQueue,     \* frames the tap holds per direction
    MaxLossDown,  \* frames to the guest the tap may lose, full queue apart
    MaxLossUp,    \* the same for frames from the guest
    SynRetries,   \* does the guest send an unanswered SYN again?
    MaxSpurious,  \* timeouts that fire while frames are still in flight
    HostResets,   \* may the host connection be refused or reset?
    GuestAborts   \* may the guest reset the connection?

ASSUME TcpFlowAssumption ==
    /\ {FRAME, Chunk, SndBuf, GuestBuf, TapQueue} \subseteq Nat \ {0}
    /\ {HostLen, GuestLen, SeqMod, MaxLossDown, MaxLossUp, MaxSpurious} \subseteq Nat
    /\ TCP_ISN \in 0..SeqMod-1 /\ GuestISN \in 0..SeqMod-1
    \* far fewer bytes in flight than sequence numbers, as with 2^32
    /\ SeqMod > 2 * (FRAME + GuestBuf + 2) /\ SeqMod > 2 * (SndBuf + 2)
    /\ SynRetries \in BOOLEAN /\ HostResets \in BOOLEAN /\ GuestAborts \in BOOLEAN

VARIABLES
    t,            \* flow::Tcp of the connection's flow, or NoFlow
    ring,         \* the flow's buffer
    toGuest, toPresto,
    guest, host,
    ended,        \* how the flow left the table: "no", "closed" or "reset"
    losses, spurious

vars == <<t, ring, toGuest, toPresto, guest, host, ended, losses, spurious>>

NoFlow == [state |-> "none"]

Min(a, b) == IF a < b THEN a ELSE b
Monus(a, b) == IF a > b THEN a - b ELSE 0      \* saturating_sub

\* Sequence number of byte n (from 1) of the stream that starts at isn.
SeqOf(isn, n) == (isn + n) % SeqMod
Dist(from, to) == (to - from) % SeqMod         \* wrapping_sub

-----------------------------------------------------------------------------
(* Segments and the tap                                                    *)

Segment(seq, ack, win, flags, data) ==
    [seq |-> seq % SeqMod, ack |-> ack % SeqMod, win |-> win,
     flags |-> flags, data |-> data]

\* A write to a full queue is lost; presto ignores the result.
Queue(q, segs) == SubSeq(q \o segs, 1, Min(TapQueue, Len(q) + Len(segs)))

Silent == toGuest = <<>> /\ toPresto = <<>>

\* A timeout is due when nothing is on its way any more; it may also fire
\* early, while an answer is still queued.
Timeout ==
    \/ Silent /\ UNCHANGED spurious
    \/ ~Silent /\ spurious < MaxSpurious /\ spurious' = spurious + 1

-----------------------------------------------------------------------------
(* presto: what it sends                                                   *)

\* tcp_window_to_guest: sndbuf less SIOCOUTQ.
WindowToGuest(h) == Monus(SndBuf, h.outq)

\* send_tcp_control, at the current send position.
Control(f, h, flags) ==
    Segment(f.seq_una + f.sent_unacked, f.seq_from_guest,
            IF "RST" \in flags THEN 0 ELSE WindowToGuest(h), flags, <<>>)

\* send_tcp_probe: one left of the window edge, so that the guest answers.
Probe(f, h) ==
    Segment(f.seq_una - 1, f.seq_from_guest, WindowToGuest(h), {"ACK"}, <<>>)

\* send_syn_ack; the SYN-ACK is taken to be acknowledged.
SynAck(f) ==
    Segment(TCP_ISN, f.seq_from_guest, SndBuf, {"SYN", "ACK"}, <<>>)
AfterSynAck(f) == [f EXCEPT !.seq_una = SeqOf(TCP_ISN, 1)]

-----------------------------------------------------------------------------
(* presto: host data towards the guest                                     *)

HostAvail(h) == h.written - h.read

\* Faulty: new bytes are put behind the sent ones, not the buffered ones.
FillBufferOverUnsent(f, r, h) ==
    LET n == Min(HostAvail(h), FRAME - f.buffered)
        wpos == f.buf_head + f.sent_unacked
        filled == [i \in 0..FRAME-1 |->
                     LET off == (i - wpos) % FRAME
                     IN  IF off < n THEN h.read + off + 1 ELSE r[i]]
    IN  [t |-> [f EXCEPT !.buffered = @ + n], ring |-> filled,
         host |-> [h EXCEPT !.read = @ + n], drained |-> TRUE, reset |-> FALSE]

\* tcp_fill_buffer: one read of the free part of the ring.
FillBuffer(f, r, h) ==
    IF f.host_eof \/ f.buffered >= FRAME
    THEN [t |-> f, ring |-> r, host |-> h, drained |-> FALSE, reset |-> FALSE]
    ELSE
      LET room == FRAME - f.buffered
          n == Min(HostAvail(h), room)
          wpos == f.buf_head + f.buffered
          \* read positions [0, n) land in ring positions [wpos, wpos + n)
          filled == [i \in 0..FRAME-1 |->
                       LET off == (i - wpos) % FRAME
                       IN  IF off < n THEN h.read + off + 1 ELSE r[i]]
      IN  [t |-> [f EXCEPT !.buffered = @ + n,
                           !.host_eof = n = 0 /\ h.eof],
           ring |-> filled,
           host |-> [h EXCEPT !.read = @ + n],
           drained |-> n < room /\ ~(n = 0 /\ h.eof),
           reset |-> h.reset]

\* Faulty: the bytes are taken from the head of the ring, sent or not.
DataSegmentsFromHead(f, r, h, n) ==
    [i \in 1..((n + Chunk - 1) \div Chunk) |->
       LET off == (i - 1) * Chunk
       IN  Segment(f.seq_una + f.sent_unacked + off, f.seq_from_guest,
                   WindowToGuest(h), {"ACK"},
                   [j \in 1..Min(Chunk, n - off) |->
                      r[(f.buf_head + off + j - 1) % FRAME]])]

\* The send loop of tcp_data_to_guest: n bytes behind the ones in flight,
\* in frames of at most Chunk bytes.
DataSegments(f, r, h, n) ==
    [i \in 1..((n + Chunk - 1) \div Chunk) |->
       LET off == (i - 1) * Chunk
           len == Min(Chunk, n - off)
       IN  Segment(f.seq_una + f.sent_unacked + off, f.seq_from_guest,
                   WindowToGuest(h), {"ACK"},
                   [j \in 1..len |->
                      r[(f.buf_head + f.sent_unacked + off + j - 1) % FRAME]])]

\* What a handler leaves behind: flow, ring and socket, and the frames it
\* wrote; `reset' when a read error made it abort the flow.
Outcome(f, r, h, out) ==
    [t |-> f, ring |-> r, host |-> h, out |-> out, reset |-> FALSE]

\* Faulty: bytes already in flight are not counted against the window.
BudgetWholeWindow(f) == f.guest_window

\* How much more the guest's window allows.
Budget(f) == Monus(f.guest_window, f.sent_unacked)

\* tcp_data_to_guest
DataToGuest(f, r, h) ==
    LET budget == Budget(f)
        fill == FillBuffer(f, r, h)
        new == fill.t.buffered - f.sent_unacked
        n == Min(new, budget)
        rearm == fill.drained /\ ~f.poll_armed /\ n = new
        g == [fill.t EXCEPT !.poll_armed = @ \/ rearm]
    IN  IF \/ f.state # "Established"
           \/ f.host_fin # "NotSent"
           \/ f.poll_armed /\ f.buffered = f.sent_unacked /\ ~f.host_eof
           \/ budget = 0
        THEN Outcome(f, r, h, <<>>)
        ELSE IF fill.reset
        THEN [Outcome(f, r, h, <<>>) EXCEPT !.reset = TRUE]
        ELSE IF new = 0 /\ g.host_eof /\ f.sent_unacked = 0
        THEN Outcome([fill.t EXCEPT !.host_fin = "Sent"], fill.ring, fill.host,
                     <<Control(fill.t, fill.host, {"FIN", "ACK"})>>)
        ELSE Outcome([g EXCEPT !.sent_unacked = @ + n], fill.ring, fill.host,
                     DataSegments(fill.t, fill.ring, fill.host, n))

-----------------------------------------------------------------------------
(* presto: segments from the guest                                         *)

\* Faulty: an ack of some of the bytes in flight releases them all.
AckFromGuestReleasesAll(f, seg) ==
    LET advance == Dist(f.seq_una, seg.ack)
    IN  IF advance > 0 /\ advance <= f.sent_unacked
        THEN [f EXCEPT !.guest_window = seg.win, !.dup_acks = 0,
                       !.sent_unacked = 0,
                       !.seq_una = SeqOf(@, advance),
                       !.buffered = @ - f.sent_unacked,
                       !.buf_head = (@ + f.sent_unacked) % FRAME]
        ELSE [f EXCEPT !.guest_window = seg.win]

\* Faulty: the head of the ring does not wrap.
AckFromGuestNoWrap(f, seg) ==
    LET advance == Dist(f.seq_una, seg.ack)
        data_acked == Min(advance, f.sent_unacked)
        g == [f EXCEPT !.guest_window = seg.win]
    IN  IF advance > 0 /\ advance <= f.sent_unacked
        THEN [g EXCEPT !.sent_unacked = @ - data_acked,
                       !.seq_una = SeqOf(@, advance),
                       !.buffered = @ - data_acked,
                       !.buf_head = @ + data_acked]
        ELSE g

\* Faulty: the window is looked at only when the ack advances.
AckFromGuestOldWindow(f, seg) ==
    LET advance == Dist(f.seq_una, seg.ack)
        data_acked == Min(advance, f.sent_unacked)
    IN  IF advance > 0
           /\ advance <= f.sent_unacked + (IF f.host_fin # "NotSent" THEN 1 ELSE 0)
        THEN [f EXCEPT !.guest_window = seg.win, !.dup_acks = 0,
                       !.sent_unacked = @ - data_acked,
                       !.seq_una = SeqOf(@, advance),
                       !.host_fin = IF advance > data_acked THEN "Acked" ELSE @,
                       !.buffered = @ - data_acked,
                       !.buf_head = (@ + data_acked) % FRAME]
        ELSE f

\* tcp_ack_from_guest
AckFromGuest(f, seg) ==
    LET advance == Dist(f.seq_una, seg.ack)
        max_advance == f.sent_unacked + (IF f.host_fin # "NotSent" THEN 1 ELSE 0)
        data_acked == Min(advance, f.sent_unacked)
        fin_acked == advance > data_acked
        duplicate == /\ advance = 0 /\ seg.data = <<>> /\ "FIN" \notin seg.flags
                     /\ f.sent_unacked > 0 /\ seg.win = f.guest_window
        g == [f EXCEPT !.guest_window = seg.win]
    IN  IF advance > 0 /\ advance <= max_advance
        THEN [g EXCEPT !.dup_acks = 0,
                       !.sent_unacked = @ - data_acked,
                       !.seq_una = SeqOf(@, advance),
                       !.host_fin = IF fin_acked THEN "Acked" ELSE @,
                       !.buffered = @ - data_acked,
                       !.buf_head = (@ + data_acked) % FRAME]
        ELSE IF duplicate /\ f.dup_acks + 1 >= 3
        THEN [g EXCEPT !.dup_acks = 0, !.sent_unacked = 0]   \* fast retransmit
        ELSE IF duplicate THEN [g EXCEPT !.dup_acks = @ + 1]
        ELSE g

\* Faulty: the sequence number is not looked at.
AcceptedAnySeq(f, h, seg) ==
    IF h.reset \/ h.shut THEN 0 ELSE Min(Len(seg.data), Monus(SndBuf, h.outq))

\* The payload goes into the host socket if it is the next expected; send
\* takes what fits, nothing when the connection is broken or shut down.
Accepted(f, h, seg) ==
    IF seg.seq # f.seq_from_guest \/ h.reset \/ h.shut THEN 0
    ELSE Min(Len(seg.data), Monus(SndBuf, h.outq))

\* Faulty: the whole payload counts as taken.
AdvanceWhole(f, seg, acc) ==
    [f EXCEPT !.seq_from_guest = SeqOf(@, Len(seg.data))]

Advance(f, seg, acc) == [f EXCEPT !.seq_from_guest = SeqOf(@, acc)]

\* Faulty: a FIN is looked at only together with payload.
TakesFinWithData(f, seg, acc) ==
    "FIN" \in seg.flags /\ seg.data # <<>> /\ acc = Len(seg.data)

\* A FIN counts when the payload before it was taken whole.
TakesFin(f, seg, acc) == "FIN" \in seg.flags /\ acc = Len(seg.data)

\* tcp_from_guest for an established flow and a segment without RST or SYN:
\* ack, payload, FIN, the ack owed for them, then more data to the guest.
SegmentFromGuest(f, seg) ==
    LET f1 == IF "ACK" \in seg.flags THEN AckFromGuest(f, seg) ELSE f
        len == Len(seg.data)
        acc == Accepted(f1, host, seg)
        defer == len > 0 /\ acc = len /\ "PSH" \notin seg.flags /\ ~f1.ack_deferred
        f2 == [Advance(f1, seg, acc) EXCEPT !.ack_deferred = @ \/ defer]
        h2 == [host EXCEPT !.got = @ \o SubSeq(seg.data, 1, acc), !.outq = @ + acc]
        fin == TakesFin(f2, seg, acc)
        fin_new == /\ fin /\ ~f2.guest_fin_received
                   /\ (seg.seq + len) % SeqMod = f2.seq_from_guest
        f3 == IF fin_new
              THEN [f2 EXCEPT !.guest_fin_received = TRUE,
                              !.seq_from_guest = SeqOf(@, 1)]
              ELSE f2
        h3 == [h2 EXCEPT !.shut = @ \/ fin_new]
        ack_guest == (len > 0 /\ ~defer) \/ fin
        f4 == IF ack_guest THEN [f3 EXCEPT !.ack_deferred = FALSE] ELSE f3
        acks == IF ack_guest THEN <<Control(f4, h3, {"ACK"})>> ELSE <<>>
        data == DataToGuest(f4, ring, h3)
    IN  [data EXCEPT !.out = acks \o @]

\* remove_flow
Drop(how) == t' = NoFlow /\ ended' = how

\* tcp_reset
Reset(f, r, h, out) ==
    /\ Drop("reset")
    /\ ring' = r /\ host' = h
    /\ toGuest' = Queue(toGuest, out \o <<Control(f, h, {"RST", "ACK"})>>)

\* Faulty: our FIN need not be acknowledged.
MaybeCloseFinSent(f) == f.host_fin # "NotSent" /\ f.guest_fin_received

\* tcp_maybe_close: both directions are done.
MaybeClose(f) == f.host_fin = "Acked" /\ f.guest_fin_received

\* Let a handler's outcome take effect.  tcp_maybe_close follows data from
\* the guest and a ready socket, but not the timer.
Commit(o, maybe_close) ==
    IF o.reset THEN Reset(o.t, o.ring, o.host, o.out)
    ELSE /\ ring' = o.ring /\ host' = o.host
         /\ toGuest' = Queue(toGuest, o.out)
         /\ IF maybe_close /\ MaybeClose(o.t)
            THEN Drop("closed")
            ELSE t' = o.t /\ UNCHANGED ended

-----------------------------------------------------------------------------
NewHost == [up |-> FALSE, written |-> 0, read |-> 0, eof |-> FALSE,
            reset |-> FALSE, got |-> <<>>, outq |-> 0, shut |-> FALSE]

\* new_tcp_flow
NewTcp(syn) ==
    [state |-> "Connecting", seq_from_guest |-> SeqOf(syn.seq, 1),
     seq_una |-> TCP_ISN, sent_unacked |-> 0, buffered |-> 0, buf_head |-> 0,
     host_eof |-> FALSE, guest_window |-> syn.win, dup_acks |-> 0,
     host_fin |-> "NotSent", guest_fin_received |-> FALSE,
     ack_deferred |-> FALSE, poll_armed |-> TRUE]

\* send_tcp_rst_no_flow
RstNoFlow(seg) ==
    IF "ACK" \in seg.flags
    THEN Segment(seg.ack, 0, 0, {"RST"}, <<>>)
    ELSE Segment(0, seg.seq + Len(seg.data)
                      + (IF "SYN" \in seg.flags THEN 1 ELSE 0)
                      + (IF "FIN" \in seg.flags THEN 1 ELSE 0),
                 0, {"RST", "ACK"}, <<>>)

\* handle_tcp on the next frame of the tap.
HandleTcp ==
    /\ toPresto # <<>>
    /\ toPresto' = Tail(toPresto)
    /\ LET seg == Head(toPresto)
       IN  CASE t = NoFlow /\ seg.flags \cap {"SYN", "ACK", "RST"} = {"SYN"} ->
                  /\ t' = NewTcp(seg) /\ host' = NewHost
                  /\ UNCHANGED <<ring, toGuest, ended>>
             [] t = NoFlow /\ "RST" \notin seg.flags
                    /\ seg.flags \cap {"SYN", "ACK"} # {"SYN"} ->
                  /\ toGuest' = Queue(toGuest, <<RstNoFlow(seg)>>)
                  /\ UNCHANGED <<t, ring, host, ended>>
             [] t # NoFlow /\ "RST" \in seg.flags ->
                  Drop("reset") /\ UNCHANGED <<ring, host, toGuest>>
             [] t # NoFlow /\ "RST" \notin seg.flags /\ t.state = "Established"
                    /\ "SYN" \in seg.flags ->
                  /\ t' = AfterSynAck([t EXCEPT !.sent_unacked = 0, !.dup_acks = 0])
                  /\ toGuest' = Queue(toGuest, <<SynAck(t)>>)
                  /\ UNCHANGED <<ring, host, ended>>
             [] t # NoFlow /\ t.state = "Established"
                    /\ seg.flags \cap {"SYN", "RST"} = {} ->
                  Commit(SegmentFromGuest(t, seg), TRUE)
             [] OTHER -> UNCHANGED <<t, ring, host, toGuest, ended>>
    /\ UNCHANGED <<guest, losses, spurious>>

\* tcp_socket_ready while connecting: the connect has failed or succeeded.
ConnectReady ==
    /\ t.state = "Connecting"
    /\ \/ /\ HostResets
          /\ Reset(t, ring, host, <<>>)
       \/ /\ t' = AfterSynAck([t EXCEPT !.state = "Established"])
          /\ host' = [host EXCEPT !.up = TRUE]
          /\ toGuest' = Queue(toGuest, <<SynAck(t)>>)
          /\ UNCHANGED <<ring, ended>>
    /\ UNCHANGED <<toPresto, guest, losses, spurious>>

\* tcp_socket_ready on an established flow: data, EOF or an error.
SocketReady ==
    /\ t.state = "Established" /\ t.poll_armed
    /\ HostAvail(host) > 0 \/ host.eof \/ host.reset
    /\ LET f == [t EXCEPT !.poll_armed = FALSE]
       IN  IF host.reset THEN Reset(f, ring, host, <<>>)
           ELSE Commit(DataToGuest(f, ring, host), TRUE)
    /\ UNCHANGED <<toPresto, guest, losses, spurious>>

\* tcp_periodic, for a flow that is due: a withheld ack goes out, and once
\* last_progress is older than the RTO, data or a FIN is sent again or a
\* closed guest window is probed.
Periodic ==
    /\ t # NoFlow
    /\ LET f == [t EXCEPT !.ack_deferred = FALSE]
           acks == IF t.ack_deferred THEN <<Control(t, host, {"ACK"})>> ELSE <<>>
           Sent(segs) == Outcome(f, ring, host, acks \o segs)
       IN  \/ /\ t.ack_deferred
              /\ Commit(Sent(<<>>), FALSE)
              /\ UNCHANGED spurious
           \/ /\ t.sent_unacked > 0
              /\ Timeout
              /\ LET o == DataToGuest([f EXCEPT !.sent_unacked = 0, !.dup_acks = 0],
                                      ring, host)
                 IN  Commit([o EXCEPT !.out = acks \o @], FALSE)
           \/ /\ t.sent_unacked = 0 /\ t.host_fin = "Sent"
              /\ Timeout
              /\ Commit(Sent(<<Control(t, host, {"FIN", "ACK"})>>), FALSE)
           \/ /\ t.sent_unacked = 0 /\ t.host_fin # "Sent"
              /\ t.guest_window = 0 /\ t.state = "Established"
              /\ Timeout
              /\ Commit(Sent(<<Probe(t, host)>>), FALSE)
    /\ UNCHANGED <<toPresto, guest, losses>>

-----------------------------------------------------------------------------
(* The host's end of the socket (external)                                 *)

HostStep(h) ==
    /\ t # NoFlow /\ host.up /\ ~host.reset
    /\ host' = h
    /\ UNCHANGED <<t, ring, toGuest, toPresto, guest, ended, losses, spurious>>

HostWrite ==
    /\ host.written < HostLen /\ ~host.eof
    /\ HostStep([host EXCEPT !.written = @ + 1])

HostClose == ~host.eof /\ HostStep([host EXCEPT !.eof = TRUE])

HostDrain == host.outq > 0 /\ HostStep([host EXCEPT !.outq = 0])

HostReset == HostResets /\ HostStep([host EXCEPT !.reset = TRUE])

-----------------------------------------------------------------------------
(* The guest's TCP (external)                                              *)

RcvNxt(g) == SeqOf(TCP_ISN, 1 + Len(g.recv) + (IF g.fin THEN 1 ELSE 0))
GuestSeq(n) == SeqOf(GuestISN, 1 + n)
GuestWindow(g) == GuestBuf - g.unread

GuestSegment(g, n, flags, data) ==
    Segment(GuestSeq(n), RcvNxt(g), GuestWindow(g), flags, data)

GuestAck(g) == GuestSegment(g, g.nxt, {"ACK"}, <<>>)

GuestSends(g, segs) ==
    /\ guest' = g
    /\ toPresto' = Queue(toPresto, segs)
    /\ UNCHANGED <<t, ring, toGuest, host, ended, losses>>

Syn == Segment(GuestISN, 0, GuestBuf, {"SYN"}, <<>>)

GuestConnect ==
    /\ guest.state = "Closed"
    /\ GuestSends([guest EXCEPT !.state = "SynSent"], <<Syn>>)
    /\ UNCHANGED spurious

\* New data within the window presto advertised; the last may carry the FIN.
GuestSend ==
    /\ guest.state = "Established"
    /\ LET n == Min(Min(Chunk, Monus(GuestLen, guest.nxt)),
                    Monus(guest.wnd, guest.nxt - guest.una))
           data == [j \in 1..n |-> guest.nxt + j]
       IN  /\ n > 0
           /\ \E psh \in BOOLEAN, fin \in {0, 1} :
                /\ fin = 1 => guest.nxt + n = GuestLen
                /\ GuestSends([guest EXCEPT !.nxt = @ + n + fin],
                     <<GuestSegment(guest, guest.nxt,
                         {"ACK"} \cup (IF psh THEN {"PSH"} ELSE {})
                                 \cup (IF fin = 1 THEN {"FIN"} ELSE {}), data)>>)
    /\ UNCHANGED spurious

\* The application closes its side; it need not ever do so.
GuestClose ==
    /\ guest.state = "Established" /\ guest.nxt = GuestLen
    /\ GuestSends([guest EXCEPT !.nxt = @ + 1],
                  <<GuestSegment(guest, guest.nxt, {"FIN", "ACK"}, <<>>)>>)
    /\ UNCHANGED spurious

\* Retransmission timer: the SYN, or the oldest unacknowledged segment.
GuestRetransmit ==
    /\ Timeout
    /\ \/ SynRetries /\ guest.state = "SynSent" /\ GuestSends(guest, <<Syn>>)
       \/ /\ guest.state = "Established" /\ guest.una < guest.nxt
          /\ LET n == Min(Chunk, Min(guest.nxt, GuestLen) - guest.una)
                 fin == guest.una + n = GuestLen /\ guest.nxt > GuestLen
             IN  GuestSends(guest,
                   <<GuestSegment(guest, guest.una,
                       {"ACK", "PSH"} \cup (IF fin THEN {"FIN"} ELSE {}),
                       [j \in 1..n |-> guest.una + j])>>)

\* Persist timer: an empty segment left of the window.
GuestProbe ==
    /\ guest.state = "Established" /\ guest.wnd = 0
    /\ guest.una = guest.nxt /\ guest.nxt < GuestLen
    /\ Timeout
    /\ GuestSends(guest, <<GuestSegment(guest, guest.una - 1, {"ACK"}, <<>>)>>)

GuestTimer == GuestRetransmit \/ GuestProbe

\* The application reads; a window that was closed is announced again.
GuestRead ==
    /\ guest.state = "Established" /\ guest.unread > 0
    /\ LET g == [guest EXCEPT !.unread = 0]
       IN  GuestSends(g, IF GuestWindow(guest) = 0 THEN <<GuestAck(g)>> ELSE <<>>)
    /\ UNCHANGED spurious

GuestAbort ==
    /\ GuestAborts /\ guest.state \in {"SynSent", "Established"}
    /\ GuestSends([guest EXCEPT !.state = "Reset"],
                  <<GuestSegment(guest, guest.nxt, {"RST", "ACK"}, <<>>)>>)
    /\ UNCHANGED spurious

\* What the established guest makes of a segment: ack and window, then the
\* part of the data that is next in sequence and fits, then the FIN.
GuestTakes(seg) ==
    LET acked == Dist(GuestSeq(guest.una), seg.ack)
        g1 == [guest EXCEPT !.una = IF acked <= guest.nxt - guest.una
                                    THEN @ + acked ELSE @,
                            !.wnd = seg.win]
        old == Dist(seg.seq, RcvNxt(g1))
        new == IF g1.fin \/ old >= Len(seg.data) THEN <<>>
               ELSE SubSeq(seg.data, old + 1,
                           Min(Len(seg.data), old + GuestWindow(g1)))
        g2 == [g1 EXCEPT !.recv = @ \o new, !.unread = @ + Len(new)]
    IN  [g2 EXCEPT !.fin = @ \/ /\ "FIN" \in seg.flags
                                /\ (seg.seq + Len(seg.data)) % SeqMod = RcvNxt(g2)]

\* It answers data, a FIN, a SYN, and a segment left of its window.
GuestAnswers(seg) ==
    \/ seg.data # <<>> \/ seg.flags \cap {"FIN", "SYN"} # {}
    \/ Dist(seg.seq, RcvNxt(guest)) \in 1..(SeqMod \div 2)

GuestReceive ==
    /\ toGuest # <<>>
    /\ toGuest' = Tail(toGuest)
    /\ LET seg == Head(toGuest)
           Reply(g, segs) == guest' = g /\ toPresto' = Queue(toPresto, segs)
       IN  CASE "RST" \in seg.flags ->
                  Reply([guest EXCEPT !.state = "Reset"], <<>>)
             [] "RST" \notin seg.flags /\ guest.state = "Reset" ->
                  Reply(guest, <<RstNoFlow(seg)>>)
             [] "RST" \notin seg.flags /\ guest.state = "SynSent" ->
                  IF "SYN" \in seg.flags
                  THEN LET g == [guest EXCEPT !.state = "Established", !.wnd = seg.win]
                       IN  Reply(g, <<GuestAck(g)>>)
                  ELSE Reply(guest, <<>>)
             [] "RST" \notin seg.flags /\ guest.state = "Established" ->
                  LET g == IF "SYN" \in seg.flags THEN guest ELSE GuestTakes(seg)
                  IN  Reply(g, IF GuestAnswers(seg) THEN <<GuestAck(g)>> ELSE <<>>)
    /\ UNCHANGED <<t, ring, host, ended, losses, spurious>>

-----------------------------------------------------------------------------
LoseToGuest ==
    /\ toGuest # <<>> /\ losses.down < MaxLossDown
    /\ toGuest' = Tail(toGuest) /\ losses' = [losses EXCEPT !.down = @ + 1]
    /\ UNCHANGED <<t, ring, toPresto, guest, host, ended, spurious>>

LoseToPresto ==
    /\ toPresto # <<>> /\ losses.up < MaxLossUp
    /\ toPresto' = Tail(toPresto) /\ losses' = [losses EXCEPT !.up = @ + 1]
    /\ UNCHANGED <<t, ring, toGuest, guest, host, ended, spurious>>

Init ==
    /\ t = NoFlow
    /\ ring = [i \in 0..FRAME-1 |-> 0]
    /\ toGuest = <<>> /\ toPresto = <<>>
    /\ guest = [state |-> "Closed", una |-> 0, nxt |-> 0, wnd |-> 0,
                recv |-> <<>>, unread |-> 0, fin |-> FALSE]
    /\ host = NewHost
    /\ ended = "no"
    /\ losses = [down |-> 0, up |-> 0] /\ spurious = 0

Next ==
    \/ HandleTcp
    \/ ConnectReady
    \/ SocketReady
    \/ Periodic
    \/ HostWrite \/ HostClose \/ HostDrain \/ HostReset
    \/ GuestConnect \/ GuestSend \/ GuestClose \/ GuestTimer
    \/ GuestRead \/ GuestAbort \/ GuestReceive
    \/ LoseToGuest \/ LoseToPresto

Spec == Init /\ [][Next]_vars

\* Only HandleTcp takes a frame off the tap without losing it.
PrestoReads ==
    toPresto # <<>> /\ toPresto' = Tail(toPresto) /\ losses' = losses

\* The loop's thread runs; frames that are not lost are delivered; the guest
\* application reads and writes; the host's peer takes what was sent to it.
\* Timers are strongly fair: they come round again in real time however
\* often the traffic between two of them starts and stops.
Fairness ==
    /\ WF_toPresto(PrestoReads) /\ WF_vars(ConnectReady) /\ WF_vars(SocketReady)
    /\ SF_vars(Periodic)
    /\ WF_vars(GuestConnect) /\ WF_vars(GuestReceive)
    /\ WF_vars(GuestRead) /\ WF_vars(GuestSend)
    /\ SF_vars(GuestTimer)
    /\ WF_vars(HostDrain)

FairSpec == Spec /\ Fairness

-----------------------------------------------------------------------------
(***************************************************************************)
(* Properties.                                                             *)
(***************************************************************************)
Flags == {"SYN", "ACK", "FIN", "RST", "PSH"}
Segments ==
    [seq : 0..SeqMod-1, ack : 0..SeqMod-1, win : 0..(SndBuf + GuestBuf),
     flags : SUBSET Flags, data : Seq(0..(HostLen + GuestLen))]

\* Types of the state, with the bounds the code relies on: no counter of a
\* flow exceeds the ring, and three duplicate acks are never kept.
TypeOK ==
    /\ t # NoFlow =>
         t \in [state : {"Connecting", "Established"},
                seq_from_guest : 0..SeqMod-1, seq_una : 0..SeqMod-1,
                sent_unacked : 0..FRAME, buffered : 0..FRAME,
                buf_head : 0..FRAME-1, host_eof : BOOLEAN,
                guest_window : 0..GuestBuf, dup_acks : 0..2,
                host_fin : {"NotSent", "Sent", "Acked"},
                guest_fin_received : BOOLEAN, ack_deferred : BOOLEAN,
                poll_armed : BOOLEAN]
    /\ ring \in [0..FRAME-1 -> 0..HostLen]
    /\ toGuest \in Seq(Segments) /\ Len(toGuest) <= TapQueue
    /\ toPresto \in Seq(Segments) /\ Len(toPresto) <= TapQueue
    /\ guest.unread \in 0..GuestBuf
    /\ ended \in {"no", "closed", "reset"}

Open == t # NoFlow /\ t.state = "Established"

\* Bytes of the host's stream that have left the ring.
Released == host.read - t.buffered

\* The ring holds, at its head and in order, exactly the bytes read from the
\* host and not yet acknowledged, and seq_una is the number of the first of
\* them: a retransmission resends what was sent.
RingHoldsUnacked ==
    Open =>
      /\ t.sent_unacked <= t.buffered /\ t.buffered <= FRAME
      /\ t.seq_una = SeqOf(TCP_ISN,
                       1 + Released + (IF t.host_fin = "Acked" THEN 1 ELSE 0))
      /\ \A i \in 0..t.buffered-1 :
           ring[(t.buf_head + i) % FRAME] = Released + i + 1

\* A byte leaves the ring only when the guest has it.
ReleasedIsReceived == Open => Released <= Len(guest.recv)

\* The guest's application sees a prefix of what the host sent, and end of
\* stream only behind the last byte: no byte is lost, repeated, swapped or
\* overwritten in the ring, whatever the tap loses.
GuestSeesHostStream ==
    /\ \A i \in 1..Len(guest.recv) : guest.recv[i] = i
    /\ guest.fin => host.eof /\ Len(guest.recv) = host.written

\* The host socket is given a prefix of what the guest sent, and is shut
\* down for writing only behind the last byte.
HostSeesGuestStream ==
    /\ \A i \in 1..Len(host.got) : host.got[i] = i
    /\ host.shut => Len(host.got) = GuestLen

\* presto acknowledges a guest byte (or its FIN) only after the host socket
\* has taken it: the guest never frees data that could still be lost.
AcksAreBacked ==
    LET taken == Len(host.got) + (IF host.shut THEN 1 ELSE 0)
    IN  /\ guest.una <= taken
        /\ \A i \in 1..Len(toGuest) :
             "ACK" \in toGuest[i].flags /\ guest.state = "Established"
               /\ "RST" \notin toGuest[i].flags
                 => Dist(GuestSeq(0), toGuest[i].ack) <= taken

\* No data segment reaches beyond the window the guest has offered, though
\* presto may have missed acks and works from an older one.
GuestNotOverrun ==
    \A i \in 1..Len(toGuest) :
        LET d == toGuest[i].data
        IN  d # <<>> => d[Len(d)] <= Len(guest.recv) + GuestWindow(guest)

\* A flow that is dropped without a reset has delivered both streams whole.
CloseIsComplete ==
    ended = "closed" =>
      /\ guest.fin /\ Len(guest.recv) = host.written
      /\ host.shut /\ Len(host.got) = GuestLen

\* What the host has sent arrives, and so does the end of its stream: again
\* and again the guest has caught up, so with a finite stream it ends up so.
DownloadCompletes ==
    []<>(Len(guest.recv) = host.written /\ guest.fin = host.eof)

\* After a SYN retransmit the handler says it will "rewind and resend it once
\* the handshake completes": towards a guest that has completed it, and with
\* neither side resetting the connection, buffered data does not stay unsent
\* for ever.
RewoundIsResent ==
    (Open /\ t.buffered > 0 /\ guest.state = "Established")
        ~> (ended = "closed" \/ (t # NoFlow /\ (t.buffered = 0 \/ t.sent_unacked > 0)))

\* What the guest sends arrives at the host socket, its FIN included, unless
\* the connection is reset.
UploadCompletes ==
    []<>(guest.state # "Reset" =>
           Len(host.got) = GuestLen /\ host.shut = (guest.nxt > GuestLen))
=============================================================================
