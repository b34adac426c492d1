----------------------------- MODULE FlowLease ------------------------------
(***************************************************************************)
(* What the flow table, the pool and the ring promise together, without    *)
(* slots, free lists, an index, queues or batches: a flow is a lease of    *)
(* one buffer to one guest key.                                            *)
(*                                                                         *)
(*   - a buffer has one lease at a time, and a key one open lease (a key   *)
(*     may be leased again while an older lease of it is closing);         *)
(*   - while the kernel may write into a buffer (`reading') the lease of   *)
(*     that buffer cannot end;                                             *)
(*   - the lease of a datagram flow ends only after it was closed.         *)
(***************************************************************************)
CONSTANTS
    LeaseBufs,      \* buffers that flows may hold
    StreamKeys,     \* keys of TCP flows: the kernel never reads into theirs
    PacketKeys      \* keys of datagram flows

VARIABLES
    leases,     \* one record per flow that holds a buffer
    reading     \* buffers a recv of the kernel may still write into

leaseVars == <<leases, reading>>

Init == leases = {} /\ reading = {}

Open(b, k) ==
    /\ \A l \in leases : l.buf # b
    /\ \A l \in leases : l.key = k => l.closing
    /\ leases' = leases \cup {[buf |-> b, key |-> k, closing |-> FALSE]}
    /\ reading' = IF k \in PacketKeys THEN reading \cup {b} ELSE reading

\* A datagram has been dealt with and the next one is awaited.
ReadAgain(l) ==
    /\ l.key \in PacketKeys /\ ~l.closing
    /\ l.buf \notin reading
    /\ reading' = reading \cup {l.buf}
    /\ UNCHANGED leases

\* The kernel hands buffers back.
HandBack(bs) ==
    /\ reading' = reading \ bs
    /\ UNCHANGED leases

Close(l) ==
    /\ ~l.closing
    /\ leases' = (leases \ {l})
                 \cup {[buf |-> l.buf, key |-> l.key, closing |-> TRUE]}
    /\ UNCHANGED reading

Release(l) ==
    /\ l.closing \/ l.key \in StreamKeys
    /\ l.buf \notin reading
    /\ leases' = leases \ {l}
    /\ UNCHANGED reading

Next ==
    \/ \E b \in LeaseBufs, k \in StreamKeys \cup PacketKeys : Open(b, k)
    \/ \E l \in leases : ReadAgain(l) \/ Close(l) \/ Release(l)
    \/ \E bs \in SUBSET LeaseBufs : HandBack(bs)

Spec == Init /\ [][Next]_leaseVars
=============================================================================
