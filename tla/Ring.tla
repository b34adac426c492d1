-------------------------------- MODULE Ring --------------------------------
(***************************************************************************)
(* The io_uring instance as the event loop uses it.                        *)
(*                                                                         *)
(* Operations are told apart by their user_data only: the slot of the flow *)
(* they belong to, or one of three reserved values.  An operation is       *)
(* queued (sqArm), then in the kernel (kern), then a drained completion    *)
(* that the loop has not handled yet (cqe).  The three counters are        *)
(* numbers, so two operations under one user_data are expressible.         *)
(*                                                                         *)
(* The kernel is external: it takes the submission queue in order, and     *)
(* completes an operation whenever it likes.  A cancel request therefore   *)
(* concerns exactly the operations pushed before it that have not          *)
(* completed, and `canceled' records that when the request is pushed.      *)
(***************************************************************************)
EXTENDS FlowTable

CONSTANTS
    Tap, Timer, Stop,   \* TAP_UD, TIMER_UD, STOP_UD
    NumStops,           \* stop fds registered by the caller
    MinRing, MaxRing    \* bounds of the clamp on the ring size

ASSUME RingAssumption ==
    /\ NumStops \in Nat
    /\ MinRing \in Nat \ {0} /\ MaxRing \in Nat /\ MinRing <= MaxRing
ASSUME UserDataAssumption ==
    /\ Tap # Timer /\ Tap # Stop /\ Timer # Stop
    /\ {Tap, Timer, Stop} \cap Slots = {}

UserData == Slots \cup {Tap, Timer, Stop}

VARIABLES
    sqArm,      \* reads, recvs, polls and timeouts in the submission queue
    sqCancel,   \* AsyncCancel requests in the submission queue, per target
    kern,       \* operations in flight in the kernel
    cqe,        \* drained completions not handled yet
    canceled,   \* a cancel request reached the slot's pending operation
    sqFull      \* some push has found the submission queue full

ringVars == <<sqArm, sqCancel, kern, cqe, canceled, sqFull>>

RingTypeOK ==
    /\ sqArm \in [UserData -> Nat]
    /\ sqCancel \in [Slots -> Nat]
    /\ kern \in [UserData -> Nat]
    /\ cqe \in [UserData -> Nat]
    /\ canceled \in [Slots -> BOOLEAN]
    /\ sqFull \in BOOLEAN

RingInit ==
    /\ sqArm = [u \in UserData |-> 0]
    /\ sqCancel = [s \in Slots |-> 0]
    /\ kern = [u \in UserData |-> 0]
    /\ cqe = [u \in UserData |-> 0]
    /\ canceled = [s \in Slots |-> FALSE]
    /\ sqFull = FALSE

-----------------------------------------------------------------------------
\* Faulty: room for every flow's operation, none for the cancel requests.
RingEntriesNoCancels == Cardinality(Bufs) + 1

\* cfg.buffers.saturating_mul(2).clamp(256, 32_768).  The kernel may round
\* the size up to a power of two; the loop does not rely on it.
RingEntries ==
    LET want == 2 * Cardinality(Bufs)
    IN  IF want < MinRing THEN MinRing
        ELSE IF want > MaxRing THEN MaxRing ELSE want

SqLen ==
    Cardinality(UNION {{u} \X (1..sqArm[u]) : u \in UserData})
      + Cardinality(UNION {{s} \X (1..sqCancel[s]) : s \in Slots})

HasRoom == SqLen < RingEntries

\* Operations of user_data u the loop still has to hear about.
Pending(u) == sqArm[u] + kern[u] + cqe[u]

\* Push a read, recv, poll or timeout; the caller handles a full queue.
PushOp(u) ==
    /\ HasRoom
    /\ sqArm' = [sqArm EXCEPT ![u] = @ + 1]
    /\ UNCHANGED <<sqCancel, kern, canceled, sqFull>>

PushFull ==
    /\ ~HasRoom
    /\ sqFull' = TRUE
    /\ UNCHANGED <<sqArm, sqCancel, kern, canceled>>

\* Push a cancel for every operation with user_data id; a full queue is
\* ignored by the one caller.  `stillOpen' tells whether an operation of
\* slot id is queued or in the kernel, and not just an unhandled completion.
PushCancel(id) ==
    LET stillOpen == sqArm[id] + kern[id] > 0
    IN  IF HasRoom
        THEN /\ sqCancel' = [sqCancel EXCEPT ![id] = @ + 1]
             /\ canceled' = [canceled EXCEPT ![id] = @ \/ stillOpen]
             /\ UNCHANGED <<sqArm, kern, sqFull>>
        ELSE /\ sqFull' = TRUE
             /\ UNCHANGED <<sqArm, sqCancel, kern, canceled>>

NoPush == UNCHANGED <<sqArm, sqCancel, kern, canceled, sqFull>>

BatchHandled == \A u \in UserData : cqe[u] = 0

\* ring.submit_and_wait(1) and the copy of the completions: the whole
\* queue goes to the kernel, and at least one completion comes back (a
\* cancel request's own completion will do, and changes nothing).
Complete(done) ==
    /\ \A u \in done : sqArm[u] + kern[u] > 0
    /\ done # {} \/ \E s \in Slots : sqCancel[s] > 0
    /\ sqArm' = [u \in UserData |-> 0]
    /\ sqCancel' = [s \in Slots |-> 0]
    /\ kern' = [u \in UserData |->
                  IF u \in done THEN sqArm[u] + kern[u] - 1
                                ELSE sqArm[u] + kern[u]]
    /\ cqe' = [u \in UserData |-> IF u \in done THEN 1 ELSE 0]
    /\ UNCHANGED <<canceled, sqFull>>

\* The loop takes one completion of user_data u off the batch.
Take(u) ==
    /\ cqe[u] > 0
    /\ cqe' = [cqe EXCEPT ![u] = @ - 1]
=============================================================================
