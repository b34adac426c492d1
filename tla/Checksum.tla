------------------------------ MODULE Checksum ------------------------------
(***************************************************************************)
(* The internet checksum in software (src/proto.rs: sum, sum2, checksum),  *)
(* used when the tap has no checksum offload.  A byte has Base values, 256 *)
(* in the code; a word is two bytes, big endian.  The sums are u32 there   *)
(* and hold at most 64 KiB of data, so they do not overflow.               *)
(***************************************************************************)
EXTENDS Integers, Sequences

CONSTANTS
    Base,       \* values of a byte
    Messages,   \* header of two words, the second the checksum, and payload
    Pseudos     \* pseudo-header sums

Word == Base * Base

ASSUME BaseAssumption ==
    /\ Base \in Nat \ {0, 1}
    /\ \A m \in Messages : /\ m \in Seq(0..(Base - 1)) /\ Len(m) >= 4
                           /\ m[3] = 0 /\ m[4] = 0
    /\ Pseudos \subseteq Nat

VARIABLES
    msg, pseudo,
    split       \* where the ring's wrap cuts the payload in two

checksumVars == <<msg, pseudo, split>>

ChecksumInit ==
    /\ msg \in Messages /\ pseudo \in Pseudos
    /\ split = 0

\* Words of data added up; an odd last byte is the high byte of a word.
Sum(data) ==
    LET word(i) == data[i] * Base + (IF i + 1 <= Len(data) THEN data[i + 1] ELSE 0)
        upto[i \in 0..Len(data)] ==
            IF i = 0 THEN 0
            ELSE upto[i - 1] + (IF i % 2 = 1 THEN word(i) ELSE 0)
    IN  upto[Len(data)]

\* The loop that adds the carries back in.
Fold(n) ==
    LET fold[k \in 0..n] == IF k < Word THEN k ELSE fold[(k % Word) + (k \div Word)]
    IN  fold[n]

\* Faulty: the second part is added as if it started at an even offset.
Sum2Unswapped(a, b) == Sum(a) + Sum(b)

\* Sum over a payload in two parts; behind an odd first part the folded sum
\* of the second one counts with its bytes swapped.
Sum2(a, b) ==
    LET s == Fold(Sum(b))
    IN  Sum(a) + (IF Len(a) % 2 = 1 THEN (s \div Base) + (s % Base) * Base ELSE Sum(b))

ChecksumOf(data, init) == Word - 1 - Fold(init + Sum(data))

L4Header == SubSeq(msg, 1, 4)
Payload == SubSeq(msg, 5, Len(msg))
Parts == Sum2(SubSeq(Payload, 1, split), SubSeq(Payload, split + 1, Len(Payload)))

\* The checksum field as TcpHdr::write fills it in, with the payload in two
\* parts; as UdpHdr::write does, where 0 would mean `no checksum'; and as
\* both do for a tap that completes it: the folded pseudo-header sum.
TcpField == ChecksumOf(L4Header, pseudo + Parts)
UdpField == IF ChecksumOf(msg, pseudo) = 0 THEN Word - 1 ELSE ChecksumOf(msg, pseudo)
OffloadField == Word - 1 - ChecksumOf(<<>>, pseudo)

\* Another place for the ring's wrap.
MoveSplit ==
    /\ split < Len(Payload)
    /\ split' = split + 1
    /\ UNCHANGED <<msg, pseudo>>

ChecksumSpec == ChecksumInit /\ [][MoveSplit]_checksumVars

-----------------------------------------------------------------------------
WithField(c) == [msg EXCEPT ![3] = c \div Base, ![4] = c % Base]

\* What the guest's kernel does on arrival, and the tap's offload before it.
Verifies(c) == ChecksumOf(WithField(c), pseudo) = 0
Completed(c) == ChecksumOf(WithField(c), 0)

\* The receiver's check of a written header comes out as zero, for any
\* length, pseudo-header and place of the wrap: the two-part sum of an odd
\* split is the sum of the whole (sum2), an offloaded checksum is completed
\* to the right one, and UDP never writes the zero that turns the check off.
ChecksumVerifies ==
    /\ Verifies(TcpField)
    /\ Verifies(UdpField) /\ UdpField # 0
    /\ Verifies(Completed(OffloadField))
=============================================================================
