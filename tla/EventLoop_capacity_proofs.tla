---------------------- MODULE EventLoop_capacity_proofs ----------------------
(***************************************************************************)
(* The event loop's limits: the slab never outgrows the pool, the loop     *)
(* never waits without its tap read and its timer, and a ring of two       *)
(* entries per buffer never overflows.                                     *)
(*                                                                         *)
(* The last one is a counting argument.  The queue holds at most one       *)
(* operation per user_data and at most one cancel request per slot, so     *)
(* twice the slab, the tap read and the timer bound it.  The difficult     *)
(* part is "one cancel request per slot": the slot of a canceled flow can  *)
(* be reaped and given to a new flow before the queue is submitted.  Only  *)
(* the tap completion makes flows, and only the timer could then cancel    *)
(* the new one, so it is enough to follow which of the two a batch still   *)
(* holds (CanceledOnce).                                                   *)
(***************************************************************************)
EXTENDS EventLoop_proofs, FiniteSetTheorems

Running == pc \notin {"start", "stopped", "failed"}

\* The loop's own operations: while it runs, the tap read and the timer are
\* out, except in the handler that will re-arm them.  The polls of the stop
\* fds are queued only before the first wait.
LoopOps ==
    /\ pc = "start" => BatchHandled /\ Pending(Tap) = 0 /\ Pending(Timer) = 0
    /\ Running =>
         /\ Pending(Tap) = IF pc \in {"udp", "tap"} THEN 0 ELSE 1
         /\ Pending(Timer) = IF pc \in {"periodic", "expire"} THEN 0 ELSE 1
    /\ sqArm[Stop] > 0 => pc = "loop" /\ BatchHandled

\* No more new flows, no more expiry before the next wait.
TapDone == cqe[Tap] = 0 /\ pc # "udp"
TimerDone == cqe[Timer] = 0 /\ pc \notin {"periodic", "expire"}

\* At most one cancel request for slot s is queued.  Its flow is closing; or
\* it has been reaped, and then the slot is not both filled and canceled
\* again before the next wait; or a new flow has it, which nothing can close
\* any more before the next wait.
CanceledOnce(s) ==
    /\ sqCancel[s] <= 1
    /\ sqCancel[s] > 0 =>
         /\ s \in Slab
         /\ ~Present(s) => TapDone \/ TimerDone
         /\ Present(s) /\ flows[s].closing =>
               cqe[Tap] = 0 \/ cqe[Timer] = 0 \/ cqe[s] = 0
         /\ Live(s) => /\ cqe[Tap] = 0 /\ TimerDone /\ cqe[s] = 0
                       /\ pc = "udp" => by_key[frame] = s

Cancels == \A s \in Slots : CanceledOnce(s)

\* EventLoop::new gets the two entries per buffer it asks for, and the stop
\* fds fit beside the tap read and the timer.
RingFits ==
    /\ 2 * Cardinality(Bufs) <= MaxRing
    /\ 2 + NumStops <= RingEntries

-----------------------------------------------------------------------------
(* The slab                                                                *)

LEMMA BufCount ==
    /\ Cardinality(Bufs) \in Nat \ {0}
    /\ IsFiniteSet(Bufs \ {TapBuf})
    /\ Cardinality(Bufs \ {TapBuf}) = Cardinality(Bufs) - 1
<1>1. Cardinality(Bufs) \in Nat
  BY BufsAssumption, FS_CardinalityType
<1>2. IsFiniteSet(Bufs \ {TapBuf})
      /\ Cardinality(Bufs \ {TapBuf}) = Cardinality(Bufs) - 1
  BY BufsAssumption, FS_RemoveElement
<1>3. Cardinality(Bufs \ {TapBuf}) \in Nat
  BY <1>2, FS_CardinalityType
<1> QED BY <1>1, <1>2, <1>3

LEMMA SlabFinite ==
    ASSUME TableInv
    PROVE  /\ Slab \subseteq Slots /\ IsFiniteSet(Slab) /\ Cardinality(Slab) \in Nat
<1>1. Slab \subseteq Slots
  BY DEF TableInv, TableTypeOK, Slab
<1> QED BY <1>1, SlotsAssumption, FS_Subset, FS_CardinalityType

\* With no vacated slot and a buffer left in the pool, the slab has room for
\* one more: every flow has a buffer of its own.
LEMMA SlabHasRoom ==
    ASSUME TableInv, free = {}, NEW b \in FreeBufs
    PROVE  Cardinality(Slab) + 1 <= Cardinality(Bufs) - 1
<1> DEFINE T == (Bufs \ {TapBuf}) \ {b}
           F == [s \in Slab |-> flows[s].buf]
<1>1. b \in Bufs \ {TapBuf} /\ pool[b] > 0
  BY DEF FreeBufs, TableInv, BufferOwnership
<1>2. IsFiniteSet(T) /\ Cardinality(T) = Cardinality(Bufs) - 1 - 1
  BY <1>1, BufCount, FS_RemoveElement
<1>3. \A s \in Slab : s \in Slots /\ Present(s)
  BY DEF Slab
<1>4. \A s \in Slab : flows[s].buf \in T
  BY <1>1, <1>3 DEF TableInv, TableTypeOK, BufferOwnership, Flow, Present
<1>5. F \in [Slab -> T]
  BY <1>4
<1>6. \A r, s \in Slab : F[r] = F[s] => r = s
  BY <1>3 DEF TableInv, BufferOwnership
<1>7. F \in Injection(Slab, T)
  BY <1>5, <1>6 DEF Injection, IsInjective
<1> HIDE DEF F, T
<1>8. Cardinality(Slab) <= Cardinality(T)
  BY <1>2, <1>7, FS_Injection
<1> QED BY <1>2, <1>8, SlabFinite, BufCount

\* The slab as a step leaves it: unchanged, or with the slot insert chose.
SlabKept == Slab' = Slab \/ \E id \in InsertSlots : FreeBufs # {} /\ Slab' = Slab \cup {id}

LEMMA SlabStep ==
    ASSUME TableInv, SlabBounded, SlabKept
    PROVE  SlabBounded'
<1>1. CASE Slab' = Slab
  BY <1>1 DEF SlabBounded
<1>2. ASSUME NEW id \in InsertSlots, FreeBufs # {}, Slab' = Slab \cup {id}
      PROVE  SlabBounded'
  <2>1. CASE id \in Slab
    <3>1. Slab' = Slab
      BY <1>2, <2>1
    <3> QED BY <3>1 DEF SlabBounded
  <2>2. CASE id \notin Slab
    <3>1. free = {}
      BY <2>2 DEF InsertSlots, Slab
    <3>2. Cardinality(Slab) + 1 <= Cardinality(Bufs) - 1
      BY <1>2, <3>1, SlabHasRoom
    <3>3. Cardinality(Slab') = Cardinality(Slab) + 1
      BY <1>2, <2>2, SlabFinite, FS_AddElement
    <3> QED BY <3>2, <3>3 DEF SlabBounded
  <2> QED BY <2>1, <2>2
<1> QED BY <1>1, <1>2 DEF SlabKept

-----------------------------------------------------------------------------
(* Counting the submission queue                                           *)

\* The queue once the stop polls have been submitted.
Counted ==
    /\ Core /\ SlabBounded /\ Cancels
    /\ sqArm[Tap] <= 1 /\ sqArm[Timer] <= 1 /\ sqArm[Stop] = 0

LEMMA RingIsLarge == RingFits => RingEntries \in Nat /\ 2 * Cardinality(Bufs) <= RingEntries
  BY BufCount, RingAssumption DEF RingFits, RingEntries

\* Operations in the queue, but for the one about to be pushed.
LEMMA ArmCount ==
    ASSUME Counted, NEW u, u \in UserData => sqArm[u] = 0
    PROVE  LET A == UNION {{v} \X (1..sqArm[v]) : v \in UserData}
           IN  /\ IsFiniteSet(A) /\ Cardinality(A) \in Nat
               /\ Cardinality(A) <= Cardinality((Slab \cup {Tap, Timer}) \ {u})
<1> DEFINE A == UNION {{v} \X (1..sqArm[v]) : v \in UserData}
           W == (Slab \cup {Tap, Timer}) \ {u}
           F == [x \in A |-> x[1]]
<1>1. IsFiniteSet(Slab) /\ Slab \subseteq Slots
  BY SlabFinite DEF Counted, Core
<1>2. IsFiniteSet(W)
  <2>1. IsFiniteSet(Slab \cup {Tap})
    BY <1>1, FS_AddElement
  <2>2. IsFiniteSet((Slab \cup {Tap}) \cup {Timer})
    BY <2>1, FS_AddElement
  <2>3. (Slab \cup {Tap}) \cup {Timer} = Slab \cup {Tap, Timer}
    OBVIOUS
  <2> QED BY <2>2, <2>3, FS_RemoveElement
<1>3. ASSUME NEW v \in UserData, sqArm[v] # 0
      PROVE  sqArm[v] = 1 /\ v \in W
  <2>1. sqArm[v] \in Nat /\ kern[v] \in Nat /\ cqe[v] \in Nat
    BY DEF Counted, Core, OpsInv, RingTypeOK
  <2>2. CASE v \in Slots
    <3>1. Pending(v) <= 1 /\ Pending(v) \in Nat /\ (Pending(v) = 1 => Present(v))
      BY <2>1, <2>2 DEF Counted, Core, OpsInv, NoStaleCompletion, Pending
    <3>2. sqArm[v] = 1 /\ Pending(v) = 1
      BY <1>3, <2>1, <3>1 DEF Pending
    <3> QED BY <1>3, <2>2, <3>1, <3>2 DEF Slab
  <2>3. CASE v \in {Tap, Timer, Stop}
    BY <1>3, <2>1, <2>3 DEF Counted
  <2> QED BY <2>2, <2>3 DEF UserData
<1>4. ASSUME NEW x \in A
      PROVE  \E v \in W : x = <<v, 1>>
  <2>1. PICK v \in UserData : x \in {v} \X (1..sqArm[v])
    OBVIOUS
  <2>2. sqArm[v] \in Nat
    BY DEF Counted, Core, OpsInv, RingTypeOK
  <2>3. PICK i \in 1..sqArm[v] : x = <<v, i>>
    BY <2>1
  <2>4. sqArm[v] # 0
    BY <2>2, <2>3
  <2>5. v \in W /\ i = 1
    BY <1>3, <2>4, <2>2, <2>3
  <2> QED BY <2>3, <2>5
<1> HIDE DEF A, W
<1>5. F \in [A -> W]
  BY <1>4
<1>6. \A x, y \in A : F[x] = F[y] => x = y
  BY <1>4
<1>7. F \in Injection(A, W)
  BY <1>5, <1>6 DEF Injection, IsInjective
<1> HIDE DEF F
<1>8. IsFiniteSet(A) /\ Cardinality(A) <= Cardinality(W)
  BY <1>2, <1>7, FS_Injection
<1>9. Cardinality(A) \in Nat
  BY <1>8, FS_CardinalityType
<1> QED BY <1>8, <1>9 DEF A, W

\* Cancel requests in the queue, but for the one about to be pushed.
LEMMA CancelCount ==
    ASSUME Counted, NEW u, u \in Slots => sqCancel[u] = 0
    PROVE  LET C == UNION {{s} \X (1..sqCancel[s]) : s \in Slots}
           IN  /\ IsFiniteSet(C) /\ Cardinality(C) \in Nat
               /\ Cardinality(C) <= Cardinality(Slab \ {u})
<1> DEFINE C == UNION {{s} \X (1..sqCancel[s]) : s \in Slots}
           W == Slab \ {u}
           F == [x \in C |-> x[1]]
<1>1. IsFiniteSet(Slab) /\ Slab \subseteq Slots
  BY SlabFinite DEF Counted, Core
<1>2. IsFiniteSet(W)
  BY <1>1, FS_RemoveElement
<1>3. ASSUME NEW s \in Slots, sqCancel[s] # 0
      PROVE  sqCancel[s] = 1 /\ s \in W
  <2>1. sqCancel[s] \in Nat
    BY DEF Counted, Core, OpsInv, RingTypeOK
  <2>2. CanceledOnce(s)
    BY DEF Counted, Cancels
  <2> QED BY <1>3, <2>1, <2>2 DEF CanceledOnce
<1>4. ASSUME NEW x \in C
      PROVE  \E v \in W : x = <<v, 1>>
  <2>1. PICK s \in Slots : x \in {s} \X (1..sqCancel[s])
    OBVIOUS
  <2>2. sqCancel[s] \in Nat
    BY DEF Counted, Core, OpsInv, RingTypeOK
  <2>3. PICK i \in 1..sqCancel[s] : x = <<s, i>>
    BY <2>1
  <2>4. sqCancel[s] # 0
    BY <2>2, <2>3
  <2>5. s \in W /\ i = 1
    BY <1>3, <2>4, <2>2, <2>3
  <2> QED BY <2>3, <2>5
<1> HIDE DEF C, W
<1>5. F \in [C -> W]
  BY <1>4
<1>6. \A x, y \in C : F[x] = F[y] => x = y
  BY <1>4
<1>7. F \in Injection(C, W)
  BY <1>5, <1>6 DEF Injection, IsInjective
<1> HIDE DEF F
<1>8. IsFiniteSet(C) /\ Cardinality(C) <= Cardinality(W)
  BY <1>2, <1>7, FS_Injection
<1>9. Cardinality(C) \in Nat
  BY <1>8, FS_CardinalityType
<1> QED BY <1>8, <1>9 DEF C, W

\* The slots of the slab, the tap and the timer.
LEMMA ArmTargets ==
    ASSUME Counted
    PROVE  LET W == Slab \cup {Tap, Timer}
           IN  IsFiniteSet(W) /\ Cardinality(W) = Cardinality(Slab) + 2
<1>1. IsFiniteSet(Slab) /\ Slab \subseteq Slots /\ Cardinality(Slab) \in Nat
  BY SlabFinite DEF Counted, Core
<1>2. Tap \notin Slab /\ Timer \notin Slab \cup {Tap}
  BY <1>1, UserDataAssumption
<1>3. IsFiniteSet(Slab \cup {Tap}) /\ Cardinality(Slab \cup {Tap}) = Cardinality(Slab) + 1
  BY <1>1, <1>2, FS_AddElement
<1>4. /\ IsFiniteSet((Slab \cup {Tap}) \cup {Timer})
      /\ Cardinality((Slab \cup {Tap}) \cup {Timer}) = Cardinality(Slab) + 1 + 1
  BY <1>2, <1>3, FS_AddElement
<1>5. (Slab \cup {Tap}) \cup {Timer} = Slab \cup {Tap, Timer}
  OBVIOUS
<1> QED BY <1>1, <1>4, <1>5

\* There is room for an operation of a user_data that has none queued.
LEMMA ArmHasRoom ==
    ASSUME Counted, RingFits, NEW u \in UserData, sqArm[u] = 0,
           u \in Slab \cup {Tap, Timer} \/ Cardinality(Slab) + 1 <= Cardinality(Bufs) - 1
    PROVE  HasRoom
<1> DEFINE A == UNION {{v} \X (1..sqArm[v]) : v \in UserData}
           C == UNION {{s} \X (1..sqCancel[s]) : s \in Slots}
           W == Slab \cup {Tap, Timer}
           n == Cardinality(Slab)
           m == Cardinality(Bufs)
           e == RingEntries
<1>1. Cardinality(A) \in Nat /\ Cardinality(A) <= Cardinality(W \ {u})
  BY ArmCount
<1>2. n \in Nat /\ m \in Nat /\ n <= m - 1
  BY SlabFinite, BufCount DEF Counted, Core, SlabBounded
<1>3. IsFiniteSet(W) /\ Cardinality(W) = n + 2
  BY ArmTargets
<1>4. Cardinality(W \ {u}) = IF u \in W THEN n + 2 - 1 ELSE n + 2
  <2> HIDE DEF W, n
  <2>1. Cardinality(W \ {u}) = IF u \in W THEN Cardinality(W) - 1 ELSE Cardinality(W)
    BY <1>3, FS_RemoveElement
  <2>2. n \in Nat
    BY <1>2
  <2> QED BY <1>3, <2>1, <2>2
<1>5. Cardinality(C) \in Nat /\ Cardinality(C) <= n
  <2>1. Tap \notin Slots /\ Tap \notin Slab
    BY UserDataAssumption, SlabFinite DEF Counted, Core
  <2>2. Slab \ {Tap} = Slab
    BY <2>1
  <2> QED BY <2>1, <2>2, CancelCount
<1>6. e \in Nat /\ 2 * m <= e
  BY RingIsLarge
<1>7. u \in W \/ n + 1 <= m - 1
  OBVIOUS
<1>8. SqLen = Cardinality(A) + Cardinality(C)
  BY DEF SqLen
<1> HIDE DEF A, C, W, n, m, e
<1>9. Cardinality(A) + Cardinality(C) < e
  BY <1>1, <1>2, <1>4, <1>5, <1>6, <1>7
<1> QED BY <1>8, <1>9 DEF HasRoom, e

\* There is room for a cancel request of a slot that has none queued.
LEMMA CancelHasRoom ==
    ASSUME Counted, RingFits, NEW id \in Slab, sqCancel[id] = 0
    PROVE  HasRoom
<1> DEFINE A == UNION {{v} \X (1..sqArm[v]) : v \in UserData}
           C == UNION {{s} \X (1..sqCancel[s]) : s \in Slots}
           W == Slab \cup {Tap, Timer}
           n == Cardinality(Slab)
           m == Cardinality(Bufs)
           e == RingEntries
<1>1. n \in Nat /\ m \in Nat /\ n <= m - 1 /\ IsFiniteSet(Slab)
  BY SlabFinite, BufCount DEF Counted, Core, SlabBounded
<1>2. Cardinality(A) \in Nat /\ Cardinality(A) <= n + 2
  <2>1. Stop \in UserData /\ sqArm[Stop] = 0
    BY DEF Counted, UserData
  <2>2. W \ {Stop} = W
    BY UserDataAssumption, SlabFinite DEF Counted, Core
  <2> QED BY <2>1, <2>2, ArmCount, ArmTargets
<1>3. Cardinality(Slab \ {id}) = n - 1
  BY <1>1, FS_RemoveElement
<1>4. Cardinality(C) \in Nat /\ Cardinality(C) <= n - 1
  BY <1>3, CancelCount
<1>5. e \in Nat /\ 2 * m <= e
  BY RingIsLarge
<1>6. SqLen = Cardinality(A) + Cardinality(C)
  BY DEF SqLen
<1> HIDE DEF A, C, W, n, m, e
<1>7. Cardinality(A) + Cardinality(C) < e
  BY <1>1, <1>2, <1>4, <1>5
<1> QED BY <1>6, <1>7 DEF HasRoom, e

-----------------------------------------------------------------------------
(* The fragments of the loop's handlers                                    *)

\* The loop's own operations are left alone.
Quiet == \A u \in {Tap, Timer, Stop} : sqArm'[u] = sqArm[u] /\ kern'[u] = kern[u]

\* A step between two waits: completions are only taken off the batch, and
\* what is over for this batch stays over.
Phases ==
    /\ \A u \in UserData : cqe'[u] \in Nat /\ cqe'[u] <= cqe[u]
    /\ TapDone => TapDone'
    /\ TimerDone => TimerDone'
    /\ pc' = "udp" =>
         \/ cqe[Tap] > 0
         \/ pc = "udp" /\ frame' = frame /\ (by_key[frame] = NoSlot \/ by_key' = by_key)

\* The handler may close the flow in slot id: what CanceledOnce says of a
\* reused slot excludes it, and one of the completions it speaks of is spent.
Entitled(id) ==
    \/ cqe[Tap] > 0 \/ ~TimerDone \/ cqe[id] > 0
    \/ pc = "udp" /\ by_key[frame] = NoSlot
Spent(id) == cqe'[Tap] = 0 \/ cqe'[Timer] = 0 \/ cqe'[id] = 0

\* What every handler keeps.
Kept ==
    /\ Cancels' /\ SlabKept /\ Quiet
    /\ RingFits => sqFull' = sqFull

LEMMA Users ==
    /\ {Tap, Timer, Stop} \subseteq UserData /\ Slots \subseteq UserData
    /\ {Tap, Timer, Stop} \cap Slots = {} /\ NoSlot \notin Slots
  BY UserDataAssumption, SlotsAssumption DEF UserData

\* A slot the step does not touch.
LEMMA CanceledElsewhere ==
    ASSUME Core, Phases, NEW s \in Slots, CanceledOnce(s), flows'[s] = flows[s],
           sqCancel'[s] = sqCancel[s], s \in Slab => s \in Slab'
    PROVE  CanceledOnce(s)'
<1>1. /\ cqe[Tap] \in Nat /\ cqe[Timer] \in Nat /\ cqe[s] \in Nat
      /\ cqe'[Tap] \in Nat /\ cqe'[Timer] \in Nat /\ cqe'[s] \in Nat
      /\ cqe'[Tap] <= cqe[Tap] /\ cqe'[Timer] <= cqe[Timer] /\ cqe'[s] <= cqe[s]
  BY Users DEF Phases, Core, OpsInv, RingTypeOK
<1>2. (Present(s))' = Present(s) /\ (Live(s))' = Live(s)
  BY DEF Present, Live
<1>3. sqCancel'[s] <= 1
  BY DEF CanceledOnce
<1>4. ASSUME sqCancel'[s] > 0
      PROVE  /\ s \in Slab'
             /\ ~(Present(s))' => TapDone' \/ TimerDone'
             /\ (Present(s))' /\ flows'[s].closing =>
                   cqe'[Tap] = 0 \/ cqe'[Timer] = 0 \/ cqe'[s] = 0
  BY <1>1, <1>2, <1>4 DEF CanceledOnce, Phases
<1>5. ASSUME sqCancel'[s] > 0, (Live(s))'
      PROVE  /\ cqe'[Tap] = 0 /\ TimerDone' /\ cqe'[s] = 0
             /\ pc' = "udp" => by_key'[frame'] = s
  <2>1. /\ cqe[Tap] = 0 /\ TimerDone /\ cqe[s] = 0
        /\ pc = "udp" => by_key[frame] = s
    BY <1>2, <1>5 DEF CanceledOnce
  <2>2. cqe'[Tap] = 0 /\ TimerDone' /\ cqe'[s] = 0
    BY <1>1, <2>1 DEF Phases
  <2>3. ASSUME pc' = "udp" PROVE by_key'[frame'] = s
    <3>1. pc = "udp" /\ frame' = frame /\ (by_key[frame] = NoSlot \/ by_key' = by_key)
      BY <1>1, <2>1, <2>3 DEF Phases
    <3> QED BY <2>1, <3>1, Users
  <2> QED BY <2>2, <2>3
<1> QED BY <1>3, <1>4, <1>5 DEF CanceledOnce

LEMMA EntitledOnce ==
    ASSUME Core, Cancels, NEW id \in Slots, Live(id), Entitled(id)
    PROVE  sqCancel[id] = 0
<1>1. sqCancel[id] \in Nat /\ CanceledOnce(id) /\ cqe[Tap] \in Nat /\ cqe[id] \in Nat
  BY Users DEF Core, OpsInv, RingTypeOK, Cancels
<1>2. ~(sqCancel[id] > 0)
  BY <1>1, Users DEF CanceledOnce, Entitled
<1> QED BY <1>1, <1>2

\* A handler that touches neither table nor queue.
LEMMA IdleKept ==
    ASSUME Counted, Phases, UNCHANGED tableVars, NoPush
    PROVE  Kept
<1>1. Slab' = Slab
  BY DEF Slab, tableVars, Present
<1>2. Cancels'
  <2>1. ASSUME NEW s \in Slots PROVE CanceledOnce(s)'
    BY <1>1, CanceledElsewhere DEF Counted, Cancels, tableVars, NoPush
  <2> QED BY <2>1 DEF Cancels
<1> QED BY <1>1, <1>2 DEF Kept, SlabKept, Quiet, NoPush

\* remove_flow: one cancel request for a flow that is not closing yet, or
\* the slot joins the free list.
LEMMA RemoveFlowKept ==
    ASSUME Counted, Phases, NEW id \in Slots, NEW f, Live(id), SameFlow(id, f),
           Entitled(id), Spent(id), RemoveFlow(id, f)
    PROVE  Kept
<1>1. sqCancel[id] = 0 /\ id \in Slab /\ Present(id)
  BY EntitledOnce DEF Counted, Slab, Live
<1>2. Core /\ RingTypeOK /\ TableInv
  BY DEF Counted, Core, OpsInv
<1>3. CASE ~IsTcp(f) \/ f.poll_armed
  <2>1. MarkClosing(id, f) /\ PushCancel(id)
    BY <1>3 DEF RemoveFlow
  <2>2. /\ (Present(id))' /\ flows'[id].closing
        /\ \A s \in Slots : s # id => flows'[s] = flows[s]
    BY <1>2, <2>1, MarkClosingTable
  <2>3. Slab' = Slab
    BY <1>1, <2>1, <2>2 DEF Slab, Present, MarkClosing
  <2>4. \A s \in Slots : s # id => sqCancel'[s] = sqCancel[s]
    BY <1>2, <2>1 DEF PushCancel, RingTypeOK
  <2>5. sqCancel'[id] <= 1
    BY <1>1, <1>2, <2>1 DEF PushCancel, RingTypeOK
  <2>6. CanceledOnce(id)'
    BY <1>1, <2>2, <2>3, <2>5 DEF CanceledOnce, Spent, Live
  <2>7. Cancels'
    <3>1. ASSUME NEW s \in Slots, s # id PROVE CanceledOnce(s)'
      BY <1>2, <2>2, <2>3, <2>4, <3>1, CanceledElsewhere DEF Counted, Cancels
    <3> QED BY <2>6, <3>1 DEF Cancels
  <2>8. RingFits => sqFull' = sqFull
    <3>1. RingFits => HasRoom
      BY <1>1, CancelHasRoom
    <3> QED BY <2>1, <3>1 DEF PushCancel
  <2>9. Quiet
    BY <2>1 DEF Quiet, PushCancel
  <2> QED BY <2>3, <2>7, <2>8, <2>9 DEF Kept, SlabKept
<1>4. CASE IsTcp(f) /\ ~f.poll_armed
  <2>1. Remove(id) /\ NoPush
    BY <1>4 DEF RemoveFlow
  <2>2. ~(Present(id))' /\ \A s \in Slots : s # id => flows'[s] = flows[s]
    BY <1>1, <1>2, <2>1, RemoveTable
  <2>3. Slab' = Slab
    BY <1>1, <2>1, <2>2 DEF Slab, Present, Remove
  <2>4. Cancels'
    <3>1. ASSUME NEW s \in Slots, s # id PROVE CanceledOnce(s)'
      BY <1>2, <2>1, <2>2, <2>3, <3>1, CanceledElsewhere DEF Counted, Cancels, NoPush
    <3>2. CanceledOnce(id)'
      BY <1>1, <2>1 DEF CanceledOnce, NoPush
    <3> QED BY <3>1, <3>2 DEF Cancels
  <2> QED BY <2>1, <2>3, <2>4 DEF Kept, SlabKept, Quiet, NoPush
<1> QED BY <1>3, <1>4

\* arm_poll, or just a changed flow.
LEMMA SetFlowKept ==
    ASSUME Counted, Phases, NEW id \in Slots, NEW f, Live(id), SameFlow(id, f),
           Entitled(id), SetFlow(id, f),
           NoPush \/ (sqArm[id] = 0 /\ (PushOp(id) \/ PushFull))
    PROVE  Kept
<1>1. sqCancel[id] = 0 /\ id \in Slab /\ Present(id)
  BY EntitledOnce DEF Counted, Slab, Live
<1>2. Core /\ RingTypeOK /\ TableInv
  BY DEF Counted, Core, OpsInv
<1>3. (Live(id))' /\ \A s \in Slots : s # id => flows'[s] = flows[s]
  BY <1>2, SetFlowTable
<1>4. Slab' = Slab
  BY <1>1, <1>3 DEF Slab, Present, Live, SetFlow
<1>5. sqCancel' = sqCancel /\ kern' = kern
  BY DEF NoPush, PushOp, PushFull
<1>6. Cancels'
  <2>1. ASSUME NEW s \in Slots, s # id PROVE CanceledOnce(s)'
    BY <1>2, <1>3, <1>4, <1>5, <2>1, CanceledElsewhere DEF Counted, Cancels
  <2>2. CanceledOnce(id)'
    BY <1>1, <1>5 DEF CanceledOnce
  <2> QED BY <2>1, <2>2 DEF Cancels
<1>7. Quiet
  BY <1>2, <1>5, Users DEF Quiet, NoPush, PushOp, PushFull, RingTypeOK
<1>8. RingFits => sqFull' = sqFull
  <2>1. RingFits /\ sqArm[id] = 0 => HasRoom
    BY <1>1, ArmHasRoom, Users
  <2> QED BY <2>1 DEF NoPush, PushOp, PushFull
<1> QED BY <1>4, <1>6, <1>7, <1>8 DEF Kept, SlabKept

LEMMA TcpDataToGuestKept ==
    ASSUME Counted, Phases, NEW id \in Slots, NEW f, Live(id), SameFlow(id, f),
           Entitled(id), Spent(id), ~f.poll_armed => sqArm[id] = 0,
           TcpDataToGuest(id, f)
    PROVE  Kept
<1>1. CASE SetFlow(id, f) /\ NoPush
  BY <1>1, SetFlowKept
<1>2. CASE ~f.poll_armed /\ ArmPoll(id, f)
  <2> DEFINE g == [f EXCEPT !.poll_armed = TRUE]
  <2>1. SameFlow(id, g)
    BY DEF SameFlow, Flow
  <2>2. SetFlow(id, g) /\ (PushOp(id) \/ PushFull) /\ sqArm[id] = 0
    BY <1>2 DEF ArmPoll
  <2> HIDE DEF g
  <2> QED BY <2>1, <2>2, SetFlowKept
<1>3. CASE RemoveFlow(id, f)
  BY <1>3, RemoveFlowKept
<1> QED BY <1>1, <1>2, <1>3 DEF TcpDataToGuest

\* new_flow and new_tcp_flow, called for a frame of the tap.
LEMMA NewFlowKept ==
    ASSUME Counted, Phases, NEW k \in Keys, by_key[k] = NoSlot, NewFlow(k),
           ~TapDone, cqe'[Tap] = 0,
           pc = "udp" => frame = k, pc' = "udp" => frame' = k
    PROVE  Kept
<1>1. Core /\ RingTypeOK /\ TableInv
  BY DEF Counted, Core, OpsInv
<1>2. CASE UNCHANGED tableVars /\ NoPush
  BY <1>2, IdleKept
<1>3. ASSUME NEW id \in LruEvictable, RemoveFlow(id, flows[id])
      PROVE  Kept
  <2>1. id \in Slots /\ Live(id) /\ SameFlow(id, flows[id])
    BY <1>1, LiveSameFlow DEF LruEvictable
  <2>2. cqe[Tap] \in Nat
    BY <1>1, Users DEF RingTypeOK
  <2>3. Entitled(id) /\ Spent(id)
    BY <2>2 DEF Entitled, Spent, TapDone
  <2> QED BY <1>3, <2>1, <2>3, RemoveFlowKept
<1>4. ASSUME NEW b \in FreeBufs, NEW id \in InsertSlots
      PROVE  /\ id \in Slots /\ ~Present(id) /\ sqArm[id] = 0 /\ cqe[id] = 0
             /\ FreeBufs # {}
             /\ RingFits => HasRoom
  <2>1. id \in Slots /\ ~Present(id)
    BY <1>1 DEF InsertSlots, Slab, TableInv, TableTypeOK, FreeIsEmpty, Present
  <2>2. sqArm[id] \in Nat /\ kern[id] \in Nat /\ cqe[id] \in Nat /\ id \in UserData
    BY <1>1, <2>1, Users DEF RingTypeOK
  <2>3. Pending(id) \in Nat /\ Pending(id) = 0
    BY <1>1, <2>1, <2>2 DEF Core, OpsInv, NoStaleCompletion, Pending
  <2>4. sqArm[id] = 0 /\ cqe[id] = 0
    BY <2>2, <2>3 DEF Pending
  <2>5. id \in Slab \/ Cardinality(Slab) + 1 <= Cardinality(Bufs) - 1
    BY <1>1, SlabHasRoom DEF InsertSlots, Slab
  <2> QED BY <1>4, <2>1, <2>2, <2>4, <2>5, ArmHasRoom
<1>5. ASSUME NEW b \in FreeBufs, NEW id \in InsertSlots,
             PushOp(id), Alloc(b), Insert(id, FreshFlow(k, b))
      PROVE  Kept
  <2> DEFINE g == FreshFlow(k, b)
  <2>1. g \in Flow /\ g.buf = b /\ g.key = k /\ ~g.closing
    BY DEF FreshFlow, Flow, FreeBufs
  <2>2. Alloc(g.buf) /\ Insert(id, g)
    BY <1>5, <2>1
  <2> HIDE DEF g
  <2>3. /\ id \in Slots /\ ~Present(id) /\ (Live(id))' /\ flows'[id] = g
        /\ \A s \in Slots : s # id => flows'[s] = flows[s]
    BY <1>1, <2>1, <2>2, InsertTable
  <2>4. free' = free \ {id} /\ by_key' = [by_key EXCEPT ![k] = id]
    BY <2>1, <2>2 DEF Insert
  <2>5. Slab' = Slab \cup {id}
    BY <1>1, <2>3, <2>4 DEF Slab, Live, Present, TableInv, TableTypeOK
  <2>6. sqCancel' = sqCancel /\ kern' = kern /\ sqFull' = sqFull
    BY <1>5 DEF PushOp
  <2>7. CanceledOnce(id)'
    <3>1. CanceledOnce(id) /\ sqCancel[id] \in Nat
      BY <1>1, <2>3 DEF Counted, Cancels, RingTypeOK
    <3>2. sqCancel'[id] <= 1
      BY <2>6, <3>1 DEF CanceledOnce
    <3>3. ASSUME sqCancel'[id] > 0
          PROVE  /\ cqe'[Tap] = 0 /\ TimerDone' /\ cqe'[id] = 0
                 /\ pc' = "udp" => by_key'[frame'] = id
      <4>1. TimerDone
        BY <2>3, <2>6, <3>1, <3>3 DEF CanceledOnce
      <4>2. cqe'[id] = 0
        BY <1>4, <2>3, Users DEF Phases
      <4>3. by_key'[k] = id
        BY <1>1, <2>4 DEF TableInv, TableTypeOK
      <4> QED BY <4>1, <4>2, <4>3 DEF Phases
    <3>4. id \in Slab'
      BY <2>5
    <3> QED BY <2>3, <3>2, <3>3, <3>4 DEF CanceledOnce, Live
  <2>8. Cancels'
    <3>1. ASSUME NEW s \in Slots, s # id PROVE CanceledOnce(s)'
      BY <1>1, <2>3, <2>5, <2>6, <3>1, CanceledElsewhere DEF Counted, Cancels
    <3> QED BY <2>7, <3>1 DEF Cancels
  <2>9. Quiet
    BY <1>1, <1>5, <2>3, <2>6, Users DEF Quiet, PushOp, RingTypeOK
  <2> QED BY <1>4, <2>5, <2>6, <2>8, <2>9 DEF Kept, SlabKept
<1>6. ASSUME NEW b \in FreeBufs, NEW id \in InsertSlots,
             PushFull, free' = free \cup {id}, UNCHANGED <<flows, by_key, pool>>
      PROVE  Kept
  <2>1. Slab' = Slab \cup {id}
    BY <1>6 DEF Slab, Present
  <2>2. Cancels'
    <3>1. ASSUME NEW s \in Slots PROVE CanceledOnce(s)'
      BY <1>1, <1>6, <2>1, CanceledElsewhere DEF Counted, Cancels, PushFull
    <3> QED BY <3>1 DEF Cancels
  <2>3. ~RingFits
    BY <1>4, <1>6 DEF PushFull
  <2> QED BY <1>4, <1>6, <2>1, <2>2, <2>3 DEF Kept, SlabKept, Quiet, PushFull
<1> QED BY <1>2, <1>3, <1>5, <1>6 DEF NewFlow

\* A frame for an indexed TCP flow.
LEMMA TcpFromGuestKept ==
    ASSUME Counted, Phases, NEW k \in TcpKeys, by_key[k] # NoSlot,
           cqe[Tap] > 0, cqe'[Tap] = 0, TcpFromGuest(by_key[k])
    PROVE  Kept
<1> DEFINE id == by_key[k]
<1>1. id \in Slots /\ Live(id) /\ IsTcp(flows[id])
  BY DEF Counted, Core, TableInv, TableTypeOK, KeyIndexExact, IsTcp, Keys
<1>2. SameFlow(id, flows[id])
  BY <1>1, LiveSameFlow DEF Counted
<1>3. ~flows[id].poll_armed => sqArm[id] = 0
  <2>1. sqArm[id] \in Nat /\ kern[id] \in Nat /\ cqe[id] \in Nat
    BY <1>1, Users DEF Counted, Core, OpsInv, RingTypeOK
  <2> HIDE DEF id
  <2>2. ~flows[id].poll_armed => Pending(id) = 0
    BY <1>1, UnarmedIsIdle DEF Counted
  <2> QED BY <2>1, <2>2 DEF Pending
<1>4. Entitled(id) /\ Spent(id)
  BY DEF Entitled, Spent
<1>5. TcpFromGuest(id)
  OBVIOUS
<1> HIDE DEF id
<1>6. CASE RemoveFlow(id, flows[id])
  BY <1>1, <1>2, <1>4, <1>6, RemoveFlowKept
<1>7. CASE UNCHANGED tableVars /\ NoPush
  BY <1>7, IdleKept
<1>8. CASE TcpDataToGuest(id, flows[id])
  BY <1>1, <1>2, <1>3, <1>4, <1>8, TcpDataToGuestKept
<1> QED BY <1>5, <1>6, <1>7, <1>8 DEF TcpFromGuest

-----------------------------------------------------------------------------
(* The loop                                                                *)

CapInv == LoopOps /\ Cancels /\ SlabBounded

\* The tap read, the timer, that a running loop has out at p.
TapOut(p) == IF p \in {"udp", "tap"} THEN 0 ELSE 1
TimerOut(p) == IF p \in {"periodic", "expire"} THEN 0 ELSE 1

LEMMA TakeFact ==
    ASSUME RingTypeOK, NEW u \in UserData, Take(u)
    PROVE  /\ cqe[u] \in Nat /\ cqe[u] > 0 /\ cqe'[u] = cqe[u] - 1
           /\ \A v \in UserData : v # u => cqe'[v] = cqe[v]
           /\ \A v \in UserData : cqe'[v] \in Nat /\ cqe'[v] <= cqe[v]
           /\ ~BatchHandled
<1>1. cqe \in [UserData -> Nat] /\ cqe[u] > 0 /\ cqe' = [cqe EXCEPT ![u] = cqe[u] - 1]
  BY DEF Take, RingTypeOK
<1>2. cqe[u] \in Nat /\ cqe'[u] = cqe[u] - 1
  BY <1>1
<1>3. \A v \in UserData : v # u => cqe'[v] = cqe[v]
  BY <1>1
<1>4. \A v \in UserData : cqe'[v] \in Nat /\ cqe'[v] <= cqe[v]
  BY <1>1, <1>2, <1>3
<1>5. ~BatchHandled
  BY <1>1 DEF BatchHandled
<1> QED BY <1>1, <1>2, <1>3, <1>4, <1>5

LEMMA PhasesHold ==
    ASSUME RingTypeOK, \A u \in UserData : cqe'[u] \in Nat /\ cqe'[u] <= cqe[u],
           pc' \in {"periodic", "expire"} => cqe[Timer] > 0 \/ pc \in {"periodic", "expire"},
           pc' = "udp" =>
              \/ cqe[Tap] > 0
              \/ pc = "udp" /\ frame' = frame /\ (by_key[frame] = NoSlot \/ by_key' = by_key)
    PROVE  Phases
<1>1. /\ cqe[Tap] \in Nat /\ cqe[Timer] \in Nat /\ cqe'[Tap] \in Nat /\ cqe'[Timer] \in Nat
      /\ cqe'[Tap] <= cqe[Tap] /\ cqe'[Timer] <= cqe[Timer]
  BY Users DEF RingTypeOK
<1> QED BY <1>1 DEF Phases, TapDone, TimerDone

\* A handler that has taken the tap's completion owes the next tap read;
\* the same for the timer.
LEMMA LoopOpsKept ==
    ASSUME RingTypeOK, LoopOps, Quiet, Running, sqArm[Stop] = 0, pc' # "start",
           \/ pc' \in {"stopped", "failed"}
           \/ /\ cqe'[Tap] + TapOut(pc) = cqe[Tap] + TapOut(pc')
              /\ cqe'[Timer] + TimerOut(pc) = cqe[Timer] + TimerOut(pc')
              /\ cqe'[Tap] \in Nat /\ cqe'[Timer] \in Nat
    PROVE  LoopOps'
<1>1. sqArm'[Stop] = 0
  BY DEF Quiet
<1>2. CASE pc' \in {"stopped", "failed"}
  BY <1>1, <1>2 DEF LoopOps, Running
<1>3. CASE /\ cqe'[Tap] + TapOut(pc) = cqe[Tap] + TapOut(pc')
           /\ cqe'[Timer] + TimerOut(pc) = cqe[Timer] + TimerOut(pc')
           /\ cqe'[Tap] \in Nat /\ cqe'[Timer] \in Nat
  <2>1. Pending(Tap) = TapOut(pc) /\ Pending(Timer) = TimerOut(pc)
    BY DEF LoopOps, TapOut, TimerOut
  <2>2. /\ sqArm[Tap] \in Nat /\ kern[Tap] \in Nat /\ cqe[Tap] \in Nat
        /\ sqArm[Timer] \in Nat /\ kern[Timer] \in Nat /\ cqe[Timer] \in Nat
        /\ sqArm'[Tap] = sqArm[Tap] /\ kern'[Tap] = kern[Tap]
        /\ sqArm'[Timer] = sqArm[Timer] /\ kern'[Timer] = kern[Timer]
    BY Users DEF RingTypeOK, Quiet
  <2>3. TapOut(pc) \in Nat /\ TapOut(pc') \in Nat /\ TimerOut(pc) \in Nat /\ TimerOut(pc') \in Nat
    BY DEF TapOut, TimerOut
  <2> DEFINE a == TapOut(pc)
             b == TapOut(pc')
             c == TimerOut(pc)
             d == TimerOut(pc')
  <2>4. (Pending(Tap))' = b /\ (Pending(Timer))' = d
    <3>1. /\ sqArm[Tap] + kern[Tap] + cqe[Tap] = a
          /\ sqArm[Timer] + kern[Timer] + cqe[Timer] = c
      BY <2>1 DEF Pending
    <3>2. /\ (Pending(Tap))' = sqArm[Tap] + kern[Tap] + cqe'[Tap]
          /\ (Pending(Timer))' = sqArm[Timer] + kern[Timer] + cqe'[Timer]
      BY <2>2 DEF Pending
    <3>3. /\ cqe'[Tap] + a = cqe[Tap] + b /\ cqe'[Timer] + c = cqe[Timer] + d
          /\ cqe'[Tap] \in Nat /\ cqe'[Timer] \in Nat
          /\ a \in Nat /\ b \in Nat /\ c \in Nat /\ d \in Nat
      BY <1>3, <2>3
    <3> HIDE DEF a, b, c, d
    <3>4. sqArm[Tap] + kern[Tap] + cqe'[Tap] = b
      <4> DEFINE x == sqArm[Tap]
                 y == kern[Tap]
                 z == cqe[Tap]
                 w == cqe'[Tap]
      <4>1. x \in Nat /\ y \in Nat /\ z \in Nat /\ w \in Nat /\ a \in Nat /\ b \in Nat
            /\ x + y + z = a /\ w + a = z + b
        BY <2>2, <3>1, <3>3
      <4> HIDE DEF x, y, z, w
      <4>2. x + y + w = b
        BY <4>1
      <4> QED BY <4>2 DEF x, y, w
    <3>5. sqArm[Timer] + kern[Timer] + cqe'[Timer] = d
      <4> DEFINE x == sqArm[Timer]
                 y == kern[Timer]
                 z == cqe[Timer]
                 w == cqe'[Timer]
      <4>1. x \in Nat /\ y \in Nat /\ z \in Nat /\ w \in Nat /\ c \in Nat /\ d \in Nat
            /\ x + y + z = c /\ w + c = z + d
        BY <2>2, <3>1, <3>3
      <4> HIDE DEF x, y, z, w
      <4>2. x + y + w = d
        BY <4>1
      <4> QED BY <4>2 DEF x, y, w
    <3> QED BY <3>2, <3>4, <3>5
  <2> QED BY <1>1, <2>4 DEF LoopOps, TapOut, TimerOut
<1> QED BY <1>2, <1>3

LEMMA CountedHolds ==
    ASSUME IInv, CapInv, Running, pc # "loop" \/ ~BatchHandled
    PROVE  Counted
<1>1. RingTypeOK
  BY DEF IInv, Core, OpsInv
<1>2. /\ sqArm[Tap] \in Nat /\ kern[Tap] \in Nat /\ cqe[Tap] \in Nat
      /\ sqArm[Timer] \in Nat /\ kern[Timer] \in Nat /\ cqe[Timer] \in Nat
      /\ sqArm[Stop] \in Nat
  BY <1>1, Users DEF RingTypeOK
<1>3. Pending(Tap) \in 0..1 /\ Pending(Timer) \in 0..1 /\ sqArm[Stop] = 0
  BY <1>2 DEF CapInv, LoopOps
<1>4. sqArm[Tap] <= 1 /\ sqArm[Timer] <= 1
  BY <1>2, <1>3 DEF Pending
<1> QED BY <1>3, <1>4 DEF Counted, CapInv, IInv

\* The completions of the tap and of the timer, as the loop takes them.
LEMMA OwnCompletion ==
    ASSUME RingTypeOK, LoopOps, pc = "loop"
    PROVE  /\ Take(Tap) => cqe[Tap] = 1 /\ cqe'[Tap] = 0 /\ cqe'[Timer] = cqe[Timer]
           /\ Take(Timer) => cqe[Timer] = 1 /\ cqe'[Timer] = 0 /\ cqe'[Tap] = cqe[Tap]
<1>1. /\ sqArm[Tap] \in Nat /\ kern[Tap] \in Nat /\ cqe[Tap] \in Nat
      /\ sqArm[Timer] \in Nat /\ kern[Timer] \in Nat /\ cqe[Timer] \in Nat
  BY Users DEF RingTypeOK
<1>2. Pending(Tap) = 1 /\ Pending(Timer) = 1
  BY DEF LoopOps, Running
<1>3. cqe[Tap] <= 1 /\ cqe[Timer] <= 1
  BY <1>1, <1>2 DEF Pending
<1>4. Tap \in UserData /\ Timer \in UserData /\ Tap # Timer
  BY UserDataAssumption DEF UserData
<1>5. ASSUME Take(Tap)
      PROVE  cqe[Tap] > 0 /\ cqe'[Tap] = cqe[Tap] - 1 /\ cqe'[Timer] = cqe[Timer]
  BY <1>4, <1>5, TakeFact
<1>6. ASSUME Take(Timer)
      PROVE  cqe[Timer] > 0 /\ cqe'[Timer] = cqe[Timer] - 1 /\ cqe'[Tap] = cqe[Tap]
  BY <1>4, <1>6, TakeFact
<1> QED BY <1>1, <1>3, <1>5, <1>6

\* Put together: a handler's step, by what it does to table and ring.
LEMMA StepCapacity ==
    ASSUME IInv, CapInv, Counted, Running, Kept, pc' # "start",
           \/ pc' \in {"stopped", "failed"}
           \/ /\ cqe'[Tap] + TapOut(pc) = cqe[Tap] + TapOut(pc')
              /\ cqe'[Timer] + TimerOut(pc) = cqe[Timer] + TimerOut(pc')
              /\ cqe'[Tap] \in Nat /\ cqe'[Timer] \in Nat
    PROVE  CapInv' /\ (RingFits => sqFull' = sqFull)
<1>1. RingTypeOK /\ TableInv
  BY DEF IInv, Core, OpsInv
<1>2. LoopOps'
  BY <1>1, LoopOpsKept DEF CapInv, Kept, Counted
<1>3. SlabBounded'
  BY <1>1, SlabStep DEF CapInv, Kept
<1> QED BY <1>2, <1>3 DEF CapInv, Kept

\* Every step keeps the counts, and no push of it finds a large ring full.
LEMMA NextCapacity ==
    ASSUME IInv, CapInv, [Next]_vars
    PROVE  CapInv' /\ (RingFits => sqFull' = sqFull)
<1> DEFINE Goal == CapInv' /\ (RingFits => sqFull' = sqFull)
<1>0. /\ Core /\ LoopInv /\ RingTypeOK /\ TableInv /\ LoopOps /\ Cancels /\ SlabBounded
  BY DEF IInv, Core, OpsInv, CapInv
<1>N. /\ cqe[Tap] \in Nat /\ cqe[Timer] \in Nat
      /\ sqArm[Tap] \in Nat /\ kern[Tap] \in Nat /\ sqArm[Timer] \in Nat /\ kern[Timer] \in Nat
  BY <1>0, Users DEF RingTypeOK
<1>Z. ASSUME NEW u \in UserData, Pending(u) = 0
      PROVE  sqArm[u] = 0 /\ kern[u] = 0 /\ cqe[u] = 0
  <2> DEFINE x == sqArm[u]
             y == kern[u]
             z == cqe[u]
  <2>1. x \in Nat /\ y \in Nat /\ z \in Nat
    BY <1>0 DEF RingTypeOK
  <2>2. x + y + z = 0
    BY <1>Z DEF Pending
  <2> HIDE DEF x, y, z
  <2>3. x = 0 /\ y = 0 /\ z = 0
    BY <2>1, <2>2
  <2> QED BY <2>3 DEF x, y, z
\* At "loop" with a completion to take.
<1>L. ASSUME pc = "loop", NEW u \in UserData, Take(u)
      PROVE  /\ Running /\ Counted
             /\ \A v \in UserData : cqe'[v] \in Nat /\ cqe'[v] <= cqe[v]
             /\ \A v \in UserData : v # u => cqe'[v] = cqe[v]
             /\ cqe[u] > 0
  <2>1. Running
    BY <1>L DEF Running
  <2> QED BY <1>0, <1>L, <2>1, TakeFact, CountedHolds
\* In the middle of a handler.
<1>M. ASSUME pc \in {"udp", "tap", "periodic", "expire"}, cqe' = cqe
      PROVE  /\ Running /\ Counted
             /\ \A v \in UserData : cqe'[v] \in Nat /\ cqe'[v] <= cqe[v]
  <2>1. Running
    BY <1>M DEF Running
  <2>2. \A v \in UserData : cqe'[v] \in Nat /\ cqe'[v] <= cqe[v]
    BY <1>0, <1>M DEF RingTypeOK
  <2> QED BY <1>0, <1>M, <2>1, <2>2, CountedHolds
\* The tap's completion is handled, and its next read comes at "tap".
<1>A. ASSUME pc = "loop", Take(Tap), pc' = "tap", Kept PROVE Goal
  <2>1. cqe[Tap] = 1 /\ cqe'[Tap] = 0 /\ cqe'[Timer] = cqe[Timer]
    BY <1>0, <1>A, OwnCompletion
  <2>2. Running /\ Counted
    BY <1>A, <1>L, Users
  <2>3. TapOut(pc) = 1 /\ TapOut(pc') = 0 /\ TimerOut(pc) = TimerOut(pc') /\ TimerOut(pc) = 1
    BY <1>A DEF TapOut, TimerOut
  <2> QED BY <1>A, <1>N, <2>1, <2>2, <2>3, StepCapacity
<1>B. ASSUME pc = "loop", Take(Tap), pc' \in {"tap", "stopped", "failed"}
      PROVE  /\ Phases /\ Counted /\ cqe[Tap] > 0 /\ cqe'[Tap] = 0 /\ ~TapDone
             /\ pc # "udp" /\ pc' # "udp"
  <2>1. Counted /\ (\A v \in UserData : cqe'[v] \in Nat /\ cqe'[v] <= cqe[v])
    BY <1>B, <1>L, Users
  <2>2. cqe[Tap] = 1 /\ cqe'[Tap] = 0
    BY <1>0, <1>B, OwnCompletion
  <2>3. Phases
    BY <1>0, <1>B, <2>1, PhasesHold
  <2> QED BY <1>B, <2>1, <2>2, <2>3 DEF TapDone
\* A flow's own completion.
<1>F. ASSUME NEW id \in Slots, pc = "loop", Take(id), pc' \in {"loop", "failed"}
      PROVE  /\ Phases /\ Counted /\ cqe[id] > 0 /\ cqe'[id] = 0 /\ sqArm[id] = 0
             /\ Kept => Goal
  <2>1. /\ Running /\ Counted /\ cqe[id] > 0
        /\ \A v \in UserData : cqe'[v] \in Nat /\ cqe'[v] <= cqe[v]
        /\ \A v \in UserData : v # id => cqe'[v] = cqe[v]
    BY <1>F, <1>L, Users
  <2>2. Phases
    BY <1>0, <1>F, <2>1, PhasesHold
  <2>3. sqArm[id] \in Nat /\ kern[id] \in Nat /\ cqe'[id] \in Nat
    BY <1>0, <2>1, Users DEF RingTypeOK
  <2>4. Left(id) = 0
    BY <1>0, <1>F, Users, TakeOne
  <2>5. cqe'[id] = 0 /\ sqArm[id] = 0
    <3> DEFINE x == sqArm[id]
               y == kern[id]
               z == cqe'[id]
    <3>1. x \in Nat /\ y \in Nat /\ z \in Nat /\ x + y + z = 0
      BY <2>3, <2>4 DEF Left
    <3> HIDE DEF x, y, z
    <3>2. x = 0 /\ z = 0
      BY <3>1
    <3> QED BY <3>2 DEF x, z
  <2>6. cqe'[Tap] = cqe[Tap] /\ cqe'[Timer] = cqe[Timer]
    BY <1>F, <2>1, UserDataAssumption, Users
  <2>7. ASSUME Kept PROVE Goal
    <3>1. pc' = "failed" \/ (TapOut(pc) = TapOut(pc') /\ TimerOut(pc) = TimerOut(pc'))
      BY <1>F DEF TapOut, TimerOut
    <3> QED BY <1>F, <1>N, <2>1, <2>6, <2>7, <3>1, StepCapacity
  <2> QED BY <2>1, <2>2, <2>5, <2>7
\* Inside a handler that goes on.
<1>G. ASSUME pc \in {"udp", "tap", "periodic", "expire"}, cqe' = cqe, Kept,
             TapOut(pc) = TapOut(pc'), TimerOut(pc) = TimerOut(pc'), pc' # "start"
      PROVE  Goal
  <2>1. Running /\ Counted
    BY <1>G, <1>M
  <2> QED BY <1>G, <1>N, <2>1, StepCapacity
<1> SUFFICES Goal
  BY DEF Goal
<1> HIDE DEF Goal
<1>1. CASE Start
  <2>1. /\ pc = "start" /\ UNCHANGED <<sqCancel, kern, cqe, tableVars, frame>>
        /\ pc' \in {"loop", "failed"}
    BY <1>1 DEF Start, Goto
  <2>2. \A v \in UserData : cqe'[v] \in Nat /\ cqe'[v] <= cqe[v]
    BY <1>0, <2>1 DEF RingTypeOK
  <2>3. Phases
    BY <1>0, <2>1, <2>2, PhasesHold
  <2>4. Slab' = Slab
    BY <2>1 DEF Slab, tableVars, Present
  <2>5. Cancels'
    <3>1. ASSUME NEW s \in Slots PROVE CanceledOnce(s)'
      BY <1>0, <2>1, <2>3, <2>4, CanceledElsewhere DEF Cancels, tableVars
    <3> QED BY <3>1 DEF Cancels
  <2>6. SlabBounded'
    BY <1>0, <2>4 DEF SlabBounded
  <2>7. sqArm[Tap] = 0 /\ kern[Tap] = 0 /\ cqe[Tap] = 0
        /\ sqArm[Timer] = 0 /\ kern[Timer] = 0 /\ cqe[Timer] = 0
    <3>1. Pending(Tap) = 0 /\ Pending(Timer) = 0
      BY <1>0, <2>1 DEF LoopOps
    <3> QED BY <1>Z, <3>1, Users
  <2>8. CASE 2 + NumStops <= RingEntries
    <3>1. /\ sqArm' = [sqArm EXCEPT ![Tap] = 1, ![Timer] = 1, ![Stop] = NumStops]
          /\ sqFull' = sqFull /\ pc' = "loop"
      BY <1>1, <2>8 DEF Start, Goto
    <3>2. sqArm'[Tap] = 1 /\ sqArm'[Timer] = 1
      BY <1>0, <3>1, UserDataAssumption, Users DEF RingTypeOK
    <3>3. (Pending(Tap))' = 1 /\ (Pending(Timer))' = 1
      BY <2>1, <2>7, <3>2 DEF Pending
    <3>4. sqArm[Stop] \in Nat
      BY <1>0, Users DEF RingTypeOK
    <3>5. BatchHandled'
      BY <1>0, <2>1 DEF LoopOps, BatchHandled
    <3> QED BY <2>5, <2>6, <3>1, <3>3, <3>5 DEF Goal, CapInv, LoopOps
  <2>9. CASE ~(2 + NumStops <= RingEntries)
    <3>1. sqArm' = sqArm /\ pc' = "failed" /\ ~RingFits
      BY <1>1, <2>9 DEF Start, Goto, RingFits
    <3>2. ~(sqArm'[Stop] > 0)
      BY <1>0, <2>1, <3>1 DEF LoopOps
    <3> QED BY <2>5, <2>6, <3>1, <3>2 DEF Goal, CapInv, LoopOps, Running
  <2> QED BY <2>8, <2>9
<1>2. ASSUME NEW k \in UdpKeys, HandleUdp(k) PROVE Goal
  <2>1. pc = "loop" /\ Take(Tap) /\ pc' = "udp" /\ UNCHANGED tableVars /\ NoPush
    BY <1>2 DEF HandleUdp, NoPush
  <2>2. /\ Running /\ Counted /\ cqe[Tap] > 0
        /\ \A v \in UserData : cqe'[v] \in Nat /\ cqe'[v] <= cqe[v]
    BY <1>L, <2>1, Users
  <2>3. Kept
    BY <1>0, <2>1, <2>2, PhasesHold, IdleKept
  <2>4. cqe[Tap] = 1 /\ cqe'[Tap] = 0 /\ cqe'[Timer] = cqe[Timer]
    BY <1>0, <2>1, OwnCompletion
  <2>5. TapOut(pc) = 1 /\ TapOut(pc') = 0 /\ TimerOut(pc) = 1 /\ TimerOut(pc') = 1
    BY <2>1 DEF TapOut, TimerOut
  <2> QED BY <1>N, <2>1, <2>2, <2>3, <2>4, <2>5, StepCapacity DEF Goal
<1>3. CASE ForwardSegment \/ LastSegment
  <2>1. /\ frame \in Keys /\ Forward(frame) /\ cqe' = cqe /\ pc = "udp"
        /\ pc' \in {"udp", "tap"} /\ (pc' = "udp" => frame' = frame)
    BY <1>0, <1>3 DEF ForwardSegment, LastSegment, LoopInv, Keys, DgramKeys, loopVars
  <2>2. Counted /\ \A v \in UserData : cqe'[v] \in Nat /\ cqe'[v] <= cqe[v]
    BY <1>M, <2>1
  <2>3. cqe'[Tap] = 0 /\ ~TapDone
    <3>1. Pending(Tap) = 0
      BY <1>0, <2>1 DEF LoopOps, Running
    <3> QED BY <1>Z, <2>1, <3>1, Users DEF TapDone
  <2>4. TapOut(pc) = TapOut(pc') /\ TimerOut(pc) = TimerOut(pc') /\ pc' # "start"
    BY <2>1 DEF TapOut, TimerOut
  <2>7. pc \in {"udp", "tap", "periodic", "expire"} /\ cqe' = cqe
    BY <2>1
  <2>5. CASE by_key[frame] # NoSlot
    <3>1. UNCHANGED tableVars /\ NoPush
      BY <2>1, <2>5 DEF Forward
    <3>2. Phases
      BY <1>0, <2>1, <2>2, <3>1, PhasesHold DEF tableVars
    <3>3. Kept
      BY <2>2, <3>1, <3>2, IdleKept
    <3> QED BY <1>G, <2>4, <2>7, <3>3
  <2>6. CASE by_key[frame] = NoSlot
    <3>1. NewFlow(frame)
      BY <2>1, <2>6 DEF Forward
    <3>2. Phases
      BY <1>0, <2>1, <2>2, <2>6, PhasesHold
    <3>3. Kept
      BY <2>1, <2>2, <2>3, <2>6, <3>1, <3>2, NewFlowKept
    <3> QED BY <1>G, <2>4, <2>7, <3>3
  <2> QED BY <2>5, <2>6
<1>4. ASSUME NEW k \in PingKeys, HandleIcmpEcho(k) PROVE Goal
  <2>1. pc = "loop" /\ Take(Tap) /\ pc' = "tap" /\ Forward(k) /\ k \in Keys
    BY <1>4 DEF HandleIcmpEcho, Goto, Keys, DgramKeys
  <2>2. CASE by_key[k] # NoSlot
    BY <1>A, <1>B, <2>1, <2>2, IdleKept DEF Forward
  <2>3. CASE by_key[k] = NoSlot
    <3>1. NewFlow(k)
      BY <2>1, <2>3 DEF Forward
    <3>2. Kept
      BY <1>B, <2>1, <2>3, <3>1, NewFlowKept
    <3> QED BY <1>A, <2>1, <3>2
  <2> QED BY <2>2, <2>3
<1>5. ASSUME NEW k \in TcpKeys, HandleTcp(k) PROVE Goal
  <2>1. pc = "loop" /\ Take(Tap) /\ pc' = "tap" /\ k \in Keys
    BY <1>5 DEF HandleTcp, Goto, Keys
  <2>2. CASE by_key[k] # NoSlot
    <3>1. TcpFromGuest(by_key[k])
      BY <1>5, <2>2 DEF HandleTcp
    <3>2. Kept
      BY <1>B, <2>1, <2>2, <3>1, TcpFromGuestKept
    <3> QED BY <1>A, <2>1, <3>2
  <2>3. CASE by_key[k] = NoSlot
    <3>1. NewFlow(k)
      BY <1>5, <2>3 DEF HandleTcp
    <3>2. Kept
      BY <1>B, <2>1, <2>3, <3>1, NewFlowKept
    <3> QED BY <1>A, <2>1, <3>2
  <2> QED BY <2>2, <2>3
<1>6. CASE IgnoreFrame
  <2>1. pc = "loop" /\ Take(Tap) /\ pc' = "tap" /\ UNCHANGED tableVars /\ NoPush
    BY <1>6 DEF IgnoreFrame, Goto
  <2>2. Kept
    BY <1>B, <2>1, IdleKept
  <2> QED BY <1>A, <2>1, <2>2
<1>7. CASE TapReadEnds \/ HandleStop
  <2>1. PICK u \in {Tap, Stop} : Take(u)
    BY <1>7 DEF TapReadEnds, HandleStop
  <2>2. pc = "loop" /\ UNCHANGED tableVars /\ NoPush /\ pc' \in {"stopped", "failed"}
    BY <1>7 DEF TapReadEnds, HandleStop, Goto
  <2>3. Running /\ Counted /\ \A v \in UserData : cqe'[v] \in Nat /\ cqe'[v] <= cqe[v]
    BY <1>L, <2>1, <2>2, Users
  <2>4. Kept
    BY <1>0, <2>2, <2>3, PhasesHold, IdleKept
  <2>5. pc' # "start" /\ pc' \in {"stopped", "failed"}
    BY <2>2
  <2>6. Running /\ Counted
    BY <2>3
  <2>7. CapInv' /\ (RingFits => sqFull' = sqFull)
    BY <2>4, <2>5, <2>6, StepCapacity
  <2> QED BY <2>7 DEF Goal
<1>8. CASE SubmitTapRead
  <2>1. /\ pc = "tap" /\ UNCHANGED <<tableVars, cqe, frame>>
        /\ (PushOp(Tap) /\ pc' = "loop") \/ (PushFull /\ pc' = "failed")
    BY <1>8 DEF SubmitTapRead, Resubmit, Goto
  <2>2. Running /\ Counted /\ \A v \in UserData : cqe'[v] \in Nat /\ cqe'[v] <= cqe[v]
    BY <1>M, <2>1
  <2>3. sqCancel' = sqCancel /\ kern' = kern /\ Slab' = Slab /\ flows' = flows
    BY <2>1 DEF PushOp, PushFull, Slab, tableVars, Present
  <2>4. Cancels'
    <3>1. Phases
      BY <1>0, <2>1, <2>2, PhasesHold
    <3>2. ASSUME NEW s \in Slots PROVE CanceledOnce(s)'
      BY <1>0, <2>3, <3>1, CanceledElsewhere DEF Cancels
    <3> QED BY <3>2 DEF Cancels
  <2>5. Pending(Tap) = 0 /\ Pending(Timer) = 1
    BY <1>0, <2>1, <2>2 DEF LoopOps
  <2>6. sqArm[Tap] = 0 /\ kern[Tap] = 0 /\ cqe[Tap] = 0
    BY <1>Z, <2>5, Users
  <2>7. RingFits => HasRoom
    BY <2>2, <2>6, ArmHasRoom, Users
  <2>8. CASE PushOp(Tap) /\ pc' = "loop"
    <3>1. sqArm'[Tap] = 1 /\ sqArm'[Timer] = sqArm[Timer] /\ sqArm'[Stop] = sqArm[Stop]
      BY <1>0, <2>6, <2>8, UserDataAssumption, Users DEF PushOp, RingTypeOK
    <3>2. (Pending(Tap))' = 1 /\ (Pending(Timer))' = 1
      BY <2>1, <2>3, <2>5, <2>6, <3>1 DEF Pending
    <3>3. ~(sqArm'[Stop] > 0) /\ sqFull' = sqFull
      BY <2>2, <2>8, <3>1 DEF Counted, PushOp
    <3>4. LoopOps'
      BY <2>8, <3>2, <3>3 DEF LoopOps
    <3> QED BY <1>0, <2>3, <2>4, <3>3, <3>4 DEF Goal, CapInv, SlabBounded
  <2>9. CASE PushFull /\ pc' = "failed"
    <3>1. ~RingFits /\ sqArm' = sqArm
      BY <2>7, <2>9 DEF PushFull
    <3>2. LoopOps'
      BY <2>2, <2>9, <3>1 DEF LoopOps, Running, Counted
    <3> QED BY <1>0, <2>3, <2>4, <3>1, <3>2 DEF Goal, CapInv, SlabBounded
  <2> QED BY <2>1, <2>8, <2>9
<1>9. CASE SubmitTimer
  <2>1. /\ pc = "expire" /\ UNCHANGED <<tableVars, cqe, frame>>
        /\ (PushOp(Timer) /\ pc' = "loop") \/ (PushFull /\ pc' = "failed")
    BY <1>9 DEF SubmitTimer, Resubmit, Goto
  <2>2. Running /\ Counted /\ \A v \in UserData : cqe'[v] \in Nat /\ cqe'[v] <= cqe[v]
    BY <1>M, <2>1
  <2>3. sqCancel' = sqCancel /\ kern' = kern /\ Slab' = Slab /\ flows' = flows
    BY <2>1 DEF PushOp, PushFull, Slab, tableVars, Present
  <2>4. Cancels'
    <3>1. Phases
      BY <1>0, <2>1, <2>2, PhasesHold
    <3>2. ASSUME NEW s \in Slots PROVE CanceledOnce(s)'
      BY <1>0, <2>3, <3>1, CanceledElsewhere DEF Cancels
    <3> QED BY <3>2 DEF Cancels
  <2>5. Pending(Timer) = 0 /\ Pending(Tap) = 1
    BY <1>0, <2>1, <2>2 DEF LoopOps
  <2>6. sqArm[Timer] = 0 /\ kern[Timer] = 0 /\ cqe[Timer] = 0
    BY <1>Z, <2>5, Users
  <2>7. RingFits => HasRoom
    BY <2>2, <2>6, ArmHasRoom, Users
  <2>8. CASE PushOp(Timer) /\ pc' = "loop"
    <3>1. sqArm'[Timer] = 1 /\ sqArm'[Tap] = sqArm[Tap] /\ sqArm'[Stop] = sqArm[Stop]
      BY <1>0, <2>6, <2>8, UserDataAssumption, Users DEF PushOp, RingTypeOK
    <3>2. (Pending(Tap))' = 1 /\ (Pending(Timer))' = 1
      BY <2>1, <2>3, <2>5, <2>6, <3>1 DEF Pending
    <3>3. ~(sqArm'[Stop] > 0) /\ sqFull' = sqFull
      BY <2>2, <2>8, <3>1 DEF Counted, PushOp
    <3>4. LoopOps'
      BY <2>8, <3>2, <3>3 DEF LoopOps
    <3> QED BY <1>0, <2>3, <2>4, <3>3, <3>4 DEF Goal, CapInv, SlabBounded
  <2>9. CASE PushFull /\ pc' = "failed"
    <3>1. ~RingFits /\ sqArm' = sqArm
      BY <2>7, <2>9 DEF PushFull
    <3>2. LoopOps'
      BY <2>2, <2>9, <3>1 DEF LoopOps, Running, Counted
    <3> QED BY <1>0, <2>3, <2>4, <3>1, <3>2 DEF Goal, CapInv, SlabBounded
  <2> QED BY <2>1, <2>8, <2>9
<1>10. ASSUME NEW due \in SUBSET Slots, HandleTimer(due) PROVE Goal
  <2>1. pc = "loop" /\ Take(Timer) /\ pc' = "periodic" /\ UNCHANGED tableVars /\ NoPush
    BY <1>10 DEF HandleTimer, NoPush
  <2>2. /\ Running /\ Counted /\ cqe[Timer] > 0
        /\ \A v \in UserData : cqe'[v] \in Nat /\ cqe'[v] <= cqe[v]
    BY <1>L, <2>1, Users
  <2>3. Kept
    BY <1>0, <2>1, <2>2, PhasesHold, IdleKept
  <2>4. cqe[Timer] = 1 /\ cqe'[Timer] = 0 /\ cqe'[Tap] = cqe[Tap]
    BY <1>0, <2>1, OwnCompletion
  <2>5. TimerOut(pc) = 1 /\ TimerOut(pc') = 0 /\ TapOut(pc) = 1 /\ TapOut(pc') = 1
    BY <2>1 DEF TapOut, TimerOut
  <2> QED BY <1>N, <2>1, <2>2, <2>3, <2>4, <2>5, StepCapacity DEF Goal
<1>11. ASSUME NEW expired \in SUBSET Slots, BeginExpiry(expired) PROVE Goal
  <2>1. pc = "periodic" /\ pc' = "expire" /\ UNCHANGED tableVars /\ NoPush /\ cqe' = cqe
    BY <1>11 DEF BeginExpiry, NoPush, ringVars
  <2>2. Counted /\ \A v \in UserData : cqe'[v] \in Nat /\ cqe'[v] <= cqe[v]
    BY <1>M, <2>1
  <2>3. Kept
    BY <1>0, <2>1, <2>2, PhasesHold, IdleKept
  <2>4. TapOut(pc) = TapOut(pc') /\ TimerOut(pc) = TimerOut(pc')
    BY <2>1 DEF TapOut, TimerOut
  <2> QED BY <1>G, <2>1, <2>3, <2>4
<1>12. ASSUME NEW id \in Slots, PeriodicFlow(id) \/ ExpireFlow(id) PROVE Goal
  <2>1. /\ pc \in {"periodic", "expire"} /\ pc' = pc /\ cqe' = cqe /\ Live(id)
        /\ \/ IsTcp(flows[id]) /\ TcpDataToGuest(id, flows[id])
           \/ RemoveFlow(id, flows[id])
    BY <1>0, <1>12 DEF PeriodicFlow, ExpireFlow, LoopInv
  <2>2. Counted /\ \A v \in UserData : cqe'[v] \in Nat /\ cqe'[v] <= cqe[v]
    BY <1>M, <2>1
  <2>3. Phases
    BY <1>0, <2>1, <2>2, PhasesHold
  <2>4. SameFlow(id, flows[id])
    BY <1>0, <2>1, LiveSameFlow
  <2>5. Pending(Timer) = 0
    BY <1>0, <2>1 DEF LoopOps, Running
  <2>6. cqe[Timer] = 0
    BY <1>Z, <2>5, Users
  <2>7. Entitled(id) /\ Spent(id)
    BY <2>1, <2>6 DEF Entitled, Spent, TimerDone
  <2>8. IsTcp(flows[id]) /\ ~flows[id].poll_armed => sqArm[id] = 0
    <3>1. sqArm[id] \in Nat /\ kern[id] \in Nat /\ cqe[id] \in Nat
      BY <1>0, Users DEF RingTypeOK
    <3>2. IsTcp(flows[id]) /\ ~flows[id].poll_armed => Pending(id) = 0
      BY <1>0, <2>1, UnarmedIsIdle
    <3> QED BY <3>1, <3>2 DEF Pending
  <2>9. Kept
    BY <2>1, <2>2, <2>3, <2>4, <2>7, <2>8, TcpDataToGuestKept, RemoveFlowKept
  <2> QED BY <1>G, <2>1, <2>9
<1>13. ASSUME NEW id \in Slots, ReapFlow(id) PROVE Goal
  <2>1. /\ pc = "loop" /\ pc' = pc /\ Take(id) /\ Remove(id) /\ (~Live(id) \/ canceled[id])
        /\ UNCHANGED <<sqArm, sqCancel, kern, sqFull>>
    BY <1>13 DEF ReapFlow, TakeFlow, loopVars
  <2>2. Phases /\ cqe[id] > 0 /\ (Kept => Goal)
    BY <1>F, <2>1
  <2>3. Present(id) /\ flows[id].closing
    <3>1. Pending(id) = 1
      BY <1>0, <2>1, Users, TakeOne
    <3> QED BY <1>0, <2>1, <3>1 DEF Core, OpsInv, NoStaleCompletion, CancelHitsClosing, Live
  <2>4. ~(Present(id))' /\ \A s \in Slots : s # id => flows'[s] = flows[s]
    BY <1>0, <2>1, <2>3, RemoveTable
  <2>5. Slab' = Slab /\ id \in Slab
    BY <2>1, <2>3, <2>4 DEF Slab, Present, Remove
  <2>6. CanceledOnce(id)'
    <3>1. CanceledOnce(id) /\ cqe[id] # 0
      BY <1>0, <2>2, Users DEF Cancels
    <3>2. sqCancel[id] > 0 => cqe[Tap] = 0 \/ cqe[Timer] = 0
      BY <2>3, <3>1 DEF CanceledOnce
    <3>3. sqCancel[id] > 0 => TapDone \/ TimerDone
      BY <2>1, <3>2 DEF TapDone, TimerDone
    <3>4. sqCancel[id] > 0 => TapDone' \/ TimerDone'
      BY <2>2, <3>3 DEF Phases
    <3>5. sqCancel'[id] = sqCancel[id] /\ id \in Slab' /\ ~(Live(id))' /\ sqCancel[id] <= 1
      BY <2>1, <2>4, <2>5, <3>1 DEF Live, CanceledOnce
    <3> QED BY <2>4, <3>4, <3>5 DEF CanceledOnce
  <2>7. Cancels'
    <3>1. ASSUME NEW s \in Slots, s # id PROVE CanceledOnce(s)'
      BY <1>0, <2>1, <2>2, <2>4, <2>5, <3>1, CanceledElsewhere DEF Cancels
    <3> QED BY <2>6, <3>1 DEF Cancels
  <2> QED BY <2>1, <2>2, <2>5, <2>7 DEF Kept, SlabKept, Quiet
<1>14. ASSUME NEW id \in Slots, DatagramReady(id) PROVE Goal
  <2>1. /\ pc = "loop" /\ Take(id) /\ Live(id) /\ UNCHANGED tableVars
        /\ pc' \in {"loop", "failed"} /\ (PushOp(id) \/ PushFull)
    BY <1>14 DEF DatagramReady, Goto
  <2>2. Phases /\ Counted /\ cqe[id] > 0 /\ cqe'[id] = 0 /\ sqArm[id] = 0 /\ (Kept => Goal)
    BY <1>F, <2>1
  <2>3. Slab' = Slab /\ flows' = flows /\ sqCancel' = sqCancel /\ kern' = kern
    BY <2>1 DEF Slab, Present, tableVars, PushOp, PushFull
  <2>4. Cancels'
    <3>1. ASSUME NEW s \in Slots PROVE CanceledOnce(s)'
      BY <1>0, <2>2, <2>3, CanceledElsewhere DEF Cancels
    <3> QED BY <3>1 DEF Cancels
  <2>5. RingFits => sqFull' = sqFull
    <3>1. id \in Slab
      BY <2>1 DEF Slab, Live
    <3>2. RingFits => HasRoom
      BY <2>2, <3>1, ArmHasRoom, Users
    <3> QED BY <2>1, <3>2 DEF PushOp, PushFull
  <2>6. Quiet
    BY <1>0, <2>1, <2>3, Users DEF Quiet, PushOp, PushFull, RingTypeOK
  <2> QED BY <2>2, <2>3, <2>4, <2>5, <2>6 DEF Kept, SlabKept
<1>15. ASSUME NEW id \in Slots, TcpSocketReady(id) PROVE Goal
  <2> DEFINE f == [flows[id] EXCEPT !.poll_armed = FALSE]
  <2>1. pc = "loop" /\ pc' = pc /\ Take(id) /\ Live(id) /\ IsTcp(flows[id])
    BY <1>15 DEF TcpSocketReady, TakeFlow, loopVars
  <2>2. Phases /\ Counted /\ cqe[id] > 0 /\ cqe'[id] = 0 /\ sqArm[id] = 0 /\ (Kept => Goal)
    BY <1>F, <2>1
  <2>3. Entitled(id) /\ Spent(id)
    BY <2>2 DEF Entitled, Spent
  <2>4. flows[id] \in Flow
    BY <1>0, <2>1 DEF TableInv, TableTypeOK, Live, Present
  <2>5. SameFlow(id, f)
    BY <2>1, <2>4 DEF SameFlow, Flow
  <2>6. \/ RemoveFlow(id, f)
        \/ ArmPoll(id, [f EXCEPT !.state = "Established"])
        \/ TcpDataToGuest(id, f)
    BY <1>15 DEF TcpSocketReady
  <2> HIDE DEF f
  <2>7. CASE RemoveFlow(id, f)
    BY <2>1, <2>2, <2>3, <2>5, <2>7, RemoveFlowKept
  <2>8. CASE TcpDataToGuest(id, f)
    BY <2>1, <2>2, <2>3, <2>5, <2>8, TcpDataToGuestKept
  <2>9. CASE ArmPoll(id, [f EXCEPT !.state = "Established"])
    <3> DEFINE g == [[f EXCEPT !.state = "Established"] EXCEPT !.poll_armed = TRUE]
    <3>1. SameFlow(id, g)
      BY <2>5 DEF SameFlow, Flow
    <3>2. SetFlow(id, g) /\ (PushOp(id) \/ PushFull)
      BY <2>9 DEF ArmPoll
    <3> HIDE DEF g
    <3> QED BY <2>1, <2>2, <2>3, <3>1, <3>2, SetFlowKept
  <2> QED BY <2>6, <2>7, <2>8, <2>9
<1>16. ASSUME NEW id \in Slots, PollFails(id) PROVE Goal
  <2>1. /\ pc = "loop" /\ pc' = pc /\ Take(id) /\ Live(id) /\ RemoveFlow(id, flows[id])
    BY <1>16 DEF PollFails, TakeFlow, loopVars
  <2>2. Phases /\ Counted /\ cqe[id] > 0 /\ cqe'[id] = 0 /\ (Kept => Goal)
    BY <1>F, <2>1
  <2>3. Entitled(id) /\ Spent(id)
    BY <2>2 DEF Entitled, Spent
  <2> QED BY <1>0, <2>1, <2>2, <2>3, LiveSameFlow, RemoveFlowKept
<1>17. ASSUME NEW done \in SUBSET UserData, SubmitAndWait(done) PROVE Goal
  <2>1. pc = "loop" /\ pc' = pc /\ BatchHandled /\ Complete(done) /\ UNCHANGED tableVars
    BY <1>17 DEF SubmitAndWait, loopVars
  <2>2. \A s \in Slots : sqCancel'[s] = 0
    BY <2>1 DEF Complete
  <2>3. Cancels'
    BY <2>2 DEF Cancels, CanceledOnce
  <2>4. SlabBounded'
    BY <1>0, <2>1 DEF SlabBounded, Slab, Present, tableVars
  <2>5. (Pending(Tap))' = Pending(Tap) /\ (Pending(Timer))' = Pending(Timer)
    BY <1>0, <2>1, Users DEF RingTypeOK, Complete, BatchHandled, Pending
  <2>6. sqArm'[Stop] = 0 /\ sqFull' = sqFull
    BY <2>1, Users DEF Complete
  <2>7. LoopOps'
    BY <1>0, <2>1, <2>5, <2>6 DEF LoopOps, Running
  <2> QED BY <2>3, <2>4, <2>6, <2>7 DEF Goal, CapInv
<1>18. CASE UNCHANGED vars
  <2>1. UNCHANGED <<flows, free, by_key, pc, frame, sqArm, sqCancel, kern, cqe, sqFull>>
    BY <1>18 DEF vars, tableVars, ringVars, loopVars
  <2>2. LoopOps' = LoopOps /\ Cancels' = Cancels /\ SlabBounded' = SlabBounded
    BY <2>1 DEF LoopOps, Running, Pending, BatchHandled, Cancels, CanceledOnce, TapDone,
                TimerDone, Live, Present, Slab, SlabBounded
  <2> QED BY <1>0, <2>1, <2>2 DEF Goal, CapInv
<1> QED
  BY <1>1, <1>2, <1>3, <1>4, <1>5, <1>6, <1>7, <1>8, <1>9, <1>10, <1>11, <1>12, <1>13,
     <1>14, <1>15, <1>16, <1>17, <1>18 DEF Next, Handle, Terminated


\* The empty slab, queue and batch that Uring::new and run() start from.
LEMMA InitCapacity == Init => CapInv /\ ~sqFull
<1> SUFFICES ASSUME Init PROVE CapInv /\ ~sqFull
  OBVIOUS
<1>1. RingInit /\ TableInit /\ pc = "start"
  BY DEF Init
<1>2. \A u \in UserData : sqArm[u] = 0 /\ kern[u] = 0 /\ cqe[u] = 0
  BY <1>1 DEF RingInit
<1>3. LoopOps
  <2>1. Pending(Tap) = 0 /\ Pending(Timer) = 0
    BY <1>2, Users DEF Pending
  <2>2. ~(sqArm[Stop] > 0) /\ BatchHandled
    BY <1>2, Users DEF BatchHandled
  <2> QED BY <1>1, <2>1, <2>2 DEF LoopOps, Running
<1>4. Cancels
  BY <1>1 DEF RingInit, Cancels, CanceledOnce
<1>5. SlabBounded
  <2>1. Slab = {}
    BY <1>1 DEF TableInit, Slab, Present
  <2> QED BY <2>1, FS_EmptySet, BufCount DEF SlabBounded
<1> QED BY <1>1, <1>3, <1>4, <1>5 DEF CapInv, RingInit

\* The counts hold in every reachable state of the loop.
LEMMA CapacityInvariant == Spec => []CapInv
<1>1. IInv /\ CapInv /\ [Next]_vars => CapInv'
  BY NextCapacity
<1> QED BY <1>1, InitCapacity, Invariant, PTL DEF Spec

-----------------------------------------------------------------------------
\* FlowTable::insert never grows the slab past one slot per buffer other than
\* the tap's, although a vacated slot can only be used again once its flow's
\* last operation has completed.
THEOREM SlabSafety == Spec => []SlabBounded
<1>1. CapInv => SlabBounded
  BY DEF CapInv
<1> QED BY <1>1, CapacityInvariant, PTL

\* Whenever run() waits in submit_and_wait, exactly one tap read and one
\* timeout are outstanding: no guest frame and no timer is missed or doubled,
\* whatever the handlers of the last batch did, even with a full queue.
THEOREM LoopFed == Spec => []LoopIsFed
<1>1. CapInv => LoopIsFed
  BY DEF CapInv, LoopOps, Running, LoopIsFed
<1> QED BY <1>1, CapacityInvariant, PTL

\* The sizing rule of EventLoop::new.  If the kernel's limit allows two
\* entries per buffer and the stop fds fit beside the tap read and the timer,
\* no push ever finds the queue full, for any number of buffers, flows and
\* slots, and however a batch mixes reaping, reuse, eviction and expiry.
THEOREM RingNeverFull == ASSUME RingFits PROVE Spec => []NoOverflow
<1>1. Init => NoOverflow
  BY InitCapacity DEF NoOverflow
<1>2. IInv /\ CapInv /\ NoOverflow /\ [Next]_vars => NoOverflow'
  BY NextCapacity DEF NoOverflow
<1> QED BY <1>1, <1>2, Invariant, CapacityInvariant, PTL DEF Spec

\* With such a ring, and polls that do not fail, nothing is ever left behind:
\* every datagram flow, armed TCP flow and closing flow has exactly the
\* operation that will wake or free it (what poll_armed stands for and
\* remove_flow relies on), and the outcome of every connect() is seen.
THEOREM NothingForgotten ==
    ASSUME RingFits, ~PollErrors
    PROVE  Spec => [](WaitingIsPending /\ ConnectIsWatched)
<1>1. /\ NoOverflow
      /\ PollErrors \/ sqFull \/ WaitingIsPending
      /\ PollErrors \/ sqFull \/ ConnectIsWatched
      => WaitingIsPending /\ ConnectIsWatched
  BY DEF NoOverflow
<1> QED BY <1>1, RingNeverFull, WaitingSafety, ConnectSafety, PTL
=============================================================================
