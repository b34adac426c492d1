-------------------------------- MODULE Dns ---------------------------------
(***************************************************************************)
(* src/dns.rs: the host resolver, and the discovery of its NAT64 prefix    *)
(* with three tries and a parser for whatever comes back.                  *)
(*                                                                         *)
(* The reply is bytes, cut anywhere: the code's buffer is fixed and the    *)
(* resolver is not trusted.  Bytes the parser never looks at are zero.     *)
(***************************************************************************)
EXTENDS Naturals, Sequences, SequencesExt

CONSTANTS
    Confs,      \* resolv.conf: sequences of "nameserver", "unparsable", "other"
    Replies     \* datagrams that may come back: [qdcount, ancount, items]

(***************************************************************************)
(* The wire format (external).  Behind the header a message is a sequence  *)
(* of items: the labels of a name, and the name's end together with what   *)
(* the question or answer has behind its name.                             *)
(***************************************************************************)
U16Bytes(n) == <<n \div 256, n % 256>>
Zeros(n) == [i \in 1..n |-> 0]

\* A name ends with the root or with a pointer to another name.
NameEnds == {<<0>>} \cup ((192..255) \X (0..255))

Items ==
    [kind : {"label", "question", "answer"},
     record : Nat,              \* number of the question or answer it is part of
     end : NameEnds,            \* of question and answer
     rtype : Nat,               \* of answer
     text : Seq(Nat)]           \* a label's text or an answer's rdata

DnsMessages == [qdcount : Nat, ancount : Nat, items : Seq(Items)]

ItemBytes(x) ==
    CASE x.kind = "label" -> <<Len(x.text)>> \o x.text
      [] x.kind = "question" -> x.end \o Zeros(4)
      [] x.kind = "answer" ->
           x.end \o U16Bytes(x.rtype) \o Zeros(6) \o U16Bytes(Len(x.text)) \o x.text

HeaderBytes(m) ==
    Zeros(4) \o U16Bytes(m.qdcount) \o U16Bytes(m.ancount) \o Zeros(4)

DnsBytes(m) ==
    HeaderBytes(m) \o FlattenSeq([k \in DOMAIN m.items |-> ItemBytes(m.items[k])])

\* qdcount questions and then answers, as many or as few as the resolver
\* likes whatever ancount says.
ASSUME RepliesAssumption ==
    \A m \in Replies :
        /\ m \in DnsMessages
        /\ \A k \in 1..Len(m.items) :
             LET x == m.items[k]
             IN  /\ x.record = IF k = 1 THEN 1
                               ELSE m.items[k - 1].record
                                      + (IF m.items[k - 1].kind = "label" THEN 0 ELSE 1)
                 /\ x.kind = "label" => Len(x.text) \in 1..191
                 /\ x.kind = "question" => x.record <= m.qdcount
                 /\ x.kind = "answer" => x.record > m.qdcount

VARIABLES
    conf,
    tries,      \* sends so far
    at,         \* "send", "recv", the parser's loops "questions", "answers", or "done"
    errPending, \* an ICMP error of an earlier query is queued on the socket
    reply,      \* the message that came back and the bytes of it, or NoReply
    scan,       \* the parser's offset i, and the rounds of its loop left
    result      \* the prefix's first 12 bytes, or NoPrefix

dnsVars == <<conf, tries, at, errPending, reply, scan, result>>

NoPrefix == <<>>
NoReply == [msg |-> [qdcount |-> 0, ancount |-> 0, items |-> <<>>], bytes |-> <<>>]

MaxTries == 3
AAAA == 28
WELL_KNOWN_V4 == {<<192, 0, 0, 170>>, <<192, 0, 0, 171>>}

DnsInit ==
    /\ conf \in Confs
    /\ tries = 0 /\ at = "send" /\ errPending = FALSE
    /\ reply = NoReply /\ scan = [i |-> 0, left |-> 0] /\ result = NoPrefix

-----------------------------------------------------------------------------
(* discover_nat64_prefix                                                   *)

HostResolver == \E i \in DOMAIN conf : conf[i] = "nameserver"

DnsReturn(r) == result' = r /\ at' = "done"

\* No resolver, or no socket.
DnsNoSocket ==
    /\ at = "send" /\ tries = 0
    /\ DnsReturn(NoPrefix)
    /\ UNCHANGED <<conf, tries, errPending, reply, scan>>

\* A send that fails ends the discovery, be it for the error of an earlier one.
DnsSend ==
    /\ at = "send" /\ HostResolver /\ tries < MaxTries
    /\ tries' = tries + 1
    /\ \/ ~errPending /\ at' = "recv" /\ UNCHANGED result
       \/ DnsReturn(NoPrefix)
    /\ errPending' = FALSE
    /\ UNCHANGED <<conf, reply, scan>>

\* recv fails: the timeout, or an ICMP error that came in time; one that
\* comes later meets the next send.
DnsRecvFails ==
    /\ at = "recv"
    /\ at' = IF tries = MaxTries THEN "done" ELSE "send"
    /\ errPending' \in BOOLEAN
    /\ UNCHANGED <<conf, tries, reply, scan, result>>

\* Two bytes from offset i on; offsets count from 0.
U16(b, i) == b[i + 1] * 256 + b[i + 2]

\* The first datagram decides; it is cut to the buffer, or is short itself.
\* parse_nat64_prefix starts with the counts and skips the header.
DnsAnswer ==
    /\ at = "recv"
    /\ \E m \in Replies : \E cut \in 0..Len(DnsBytes(m)) :
         LET b == SubSeq(DnsBytes(m), 1, cut)
         IN  /\ reply' = [msg |-> m, bytes |-> b]
             /\ \/ cut < 8 /\ DnsReturn(NoPrefix) /\ UNCHANGED scan
                \/ /\ cut >= 8
                   /\ at' = "questions" /\ scan' = [i |-> 12, left |-> U16(b, 4)]
                   /\ UNCHANGED result
    /\ UNCHANGED <<conf, tries, errPending>>

-----------------------------------------------------------------------------
(* parse_nat64_prefix and skip_name                                        *)

Datagram == reply.bytes

\* In skip_name, with a byte to look at.
InName == at \in {"questions", "answers"} /\ scan.left > 0
LengthByte == Datagram[scan.i + 1]
HasByte == InName /\ scan.i < Len(Datagram)

\* Faulty: a compression pointer is taken to be one byte long.
NameEndShortPointer == scan.i + 1

\* The offset past a name that ends here, with the root or a pointer.
NameEnd == scan.i + (IF LengthByte = 0 THEN 1 ELSE 2)

NameCut ==
    /\ InName /\ scan.i >= Len(Datagram)
    /\ DnsReturn(NoPrefix)
    /\ UNCHANGED <<conf, tries, errPending, reply, scan>>

SkipLabel ==
    /\ HasByte /\ LengthByte \in 1..191
    /\ scan' = [scan EXCEPT !.i = @ + 1 + LengthByte]
    /\ UNCHANGED <<conf, tries, at, errPending, reply, result>>

SkipQuestion ==
    /\ at = "questions" /\ HasByte /\ LengthByte \notin 1..191
    /\ scan' = [i |-> NameEnd + 4, left |-> scan.left - 1]
    /\ UNCHANGED <<conf, tries, at, errPending, reply, result>>

AnswersBegin ==
    /\ at = "questions" /\ scan.left = 0
    /\ at' = "answers" /\ scan' = [scan EXCEPT !.left = U16(Datagram, 6)]
    /\ UNCHANGED <<conf, tries, errPending, reply, result>>

Embeds(rdata) == SubSeq(rdata, 13, 16) \in WELL_KNOWN_V4

\* A record that is not all there ends the search, a synthesized one decides.
TakeAnswer ==
    /\ at = "answers" /\ HasByte /\ LengthByte \notin 1..191
    /\ LET i == NameEnd
           rdlen == U16(Datagram, i + 8)
           rdata == SubSeq(Datagram, i + 11, i + 10 + rdlen)
           whole == i + 10 <= Len(Datagram) /\ i + 10 + rdlen <= Len(Datagram)
           found == U16(Datagram, i) = AAAA /\ rdlen = 16 /\ Embeds(rdata)
       IN  \/ ~whole /\ DnsReturn(NoPrefix) /\ UNCHANGED scan
           \/ whole /\ found /\ DnsReturn(SubSeq(rdata, 1, 12)) /\ UNCHANGED scan
           \/ /\ whole /\ ~found
              /\ scan' = [i |-> i + 10 + rdlen, left |-> scan.left - 1]
              /\ UNCHANGED <<at, result>>
    /\ UNCHANGED <<conf, tries, errPending, reply>>

AnswersEnd ==
    /\ at = "answers" /\ scan.left = 0
    /\ DnsReturn(NoPrefix)
    /\ UNCHANGED <<conf, tries, errPending, reply, scan>>

DnsNext ==
    \/ DnsNoSocket \/ DnsSend \/ DnsRecvFails \/ DnsAnswer
    \/ NameCut \/ SkipLabel \/ SkipQuestion \/ AnswersBegin
    \/ TakeAnswer \/ AnswersEnd

DnsSpec == DnsInit /\ [][DnsNext]_dnsVars

-----------------------------------------------------------------------------
\* Length of the message up to the end of item k.
ItemEnd(m, k) == Len(DnsBytes([m EXCEPT !.items = SubSeq(m.items, 1, k)]))

\* Item k is an answer that the header counts, that arrived in full, and that
\* is the AAAA record a DNS64 resolver makes up for a well-known address.
Synthesized(k) ==
    LET x == reply.msg.items[k]
    IN  /\ x.kind = "answer" /\ x.record <= reply.msg.qdcount + reply.msg.ancount
        /\ ItemEnd(reply.msg, k) <= Len(Datagram)
        /\ x.rtype = AAAA /\ Len(x.text) = 16 /\ Embeds(x.text)

\* A prefix is returned exactly when the reply holds a synthesized record,
\* and it is the first such record's, whatever names, other records and
\* truncation surround it; without a reply there is none, and a silent
\* resolver is asked three times at most.
PrefixIsGenuine ==
    /\ tries <= MaxTries
    /\ at # "done" => result = NoPrefix
    /\ at = "done" =>
          LET good == {k \in DOMAIN reply.msg.items : Synthesized(k)}
              first == CHOOSE k \in good : \A j \in good : k <= j
          IN  result = IF good = {} THEN NoPrefix
                       ELSE SubSeq(reply.msg.items[first].text, 1, 12)
=============================================================================
