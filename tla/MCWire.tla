------------------------------- MODULE MCWire -------------------------------
(* The parts of the datapath that turn bytes into decisions and back, each *)
(* over all of its inputs, and a UDP flow: one run, in which `part' says   *)
(* which of them moves while the others rest.                              *)
EXTENDS GuestFrame, TcpSend, TcpOptions, Checksum, FlowPolicy, Dns, Netdev, UdpFlow

VARIABLE part

-----------------------------------------------------------------------------
(* Inputs.  Lengths lie on both sides of every header's boundary.          *)
FrameOf(e, ok, mine, lens, ihls, ips, protos, udps, doffs, gsos) ==
    [len : lens, ethertype : {e}, parses : ok, ihl : ihls, ip_len : ips,
     from_guest : mine, proto : protos, udp_len : udps, doff : doffs, echo : ok, gso : gsos]

Lens4 == {23, 24, 43, 44, 51, 52, 53, 60, 64, 72}
Ips4 == {0, 19, 20, 27, 28, 29, 40, 45, 60}
Lens6 == {63, 64, 71, 72, 73, 84, 100}
Ips6 == {0, 7, 8, 9, 20, 21, 30, 60}
Yes == {TRUE}

MCFrames ==
    UNION {
      FrameOf("v4", Yes, Yes, Lens4, {4, 5, 6, 15}, Ips4, {"udp"}, {0, 7, 8, 9, 12, 40}, {5}, {0, 1, 3}),
      FrameOf("v4", Yes, Yes, Lens4, {4, 5, 6, 15}, Ips4, {"tcp"}, {8}, {0, 4, 5, 6, 15}, {0}),
      FrameOf("v4", Yes, Yes, Lens4, {5, 6}, Ips4, {"icmp", "other"}, {8}, {5}, {0}),
      FrameOf("v6", Yes, Yes, Lens6, {0}, Ips6, {"udp"}, {0, 7, 8, 9, 12, 40}, {5}, {0, 1, 3}),
      FrameOf("v6", Yes, Yes, Lens6, {0}, Ips6, {"tcp"}, {8}, {0, 4, 5, 6, 15}, {0}),
      FrameOf("v6", Yes, Yes, Lens6, {0}, Ips6, {"icmp", "other"}, {8}, {5}, {0}),
      FrameOf("v4", BOOLEAN, BOOLEAN, {64}, {5}, {40}, {"udp", "icmp"}, {20}, {5}, {0}),
      FrameOf("other", Yes, Yes, {64}, {5}, {40}, {"udp"}, {20}, {5}, {0})}

MCSends ==
    {s \in [head : 0..7, sent : 0..7, buffered : 1..8, budget : {1, 2, 4, 8},
            mss : {0, 3, 5}, tso : BOOLEAN] : s.sent < s.buffered}

Option(k, l, d) == [kind |-> k, len |-> l, data |-> d]
OptionKinds ==
    {Option(0, 0, <<>>), Option(1, 0, <<>>), Option(2, 4, <<3, 3>>), Option(2, 4, <<0, 2>>),
     Option(2, 3, <<4>>), Option(2, 0, <<>>), Option(3, 3, <<7>>), Option(5, 1, <<>>),
     Option(8, 4, <<0, 1>>)}
MCOptionLists == UNION {[1..n -> OptionKinds] : n \in 0..3}

MCMessages ==
    UNION {{<<m[1], m[2], 0, 0>> \o SubSeq(m, 3, n) : m \in [1..n -> 0..(Base - 1)]} : n \in 2..6}

V4(last) == <<192, 0, 0, last>>
Rdata(p, v4) == [i \in 1..12 |-> p] \o v4
Label(n, text) == [kind |-> "label", record |-> n, end |-> <<0>>, rtype |-> 0, text |-> text]
Question(n) ==
    <<Label(n, <<0>>),
      [kind |-> "question", record |-> n, end |-> <<0>>, rtype |-> 0, text |-> <<>>]>>
\* An answer for a pointer, or for a label with bytes that look like an end.
Answer(n, long, a) ==
    (IF long THEN <<Label(n, <<0, 192>>)>> ELSE <<>>)
      \o <<[kind |-> "answer", record |-> n, end |-> IF long THEN <<0>> ELSE <<192, 12>>,
            rtype |-> a.rtype, text |-> a.rdata]>>
Answers ==
    [rtype : {AAAA, 5},
     rdata : {Rdata(1, V4(170)), Rdata(2, V4(171)), Rdata(3, V4(172)), <<0, 28>>}]
MCReplies ==
    [qdcount : {0}, ancount : {1}, items : {Answer(1, long, a) : long \in BOOLEAN, a \in Answers}]
      \cup [qdcount : {1}, ancount : {1},
            items : {Question(1) \o Answer(2, long, a) : long \in BOOLEAN, a \in Answers}]
      \cup [qdcount : {1}, ancount : {0, 1, 2, 3},
            items : {Question(1) \o Answer(2, FALSE, a) \o Answer(3, FALSE, b) : a, b \in Answers}]

MCConfs == {<<>>, <<"other", "unparsable">>, <<"unparsable", "nameserver">>}

-----------------------------------------------------------------------------
IdleFrame ==
    /\ frame = [len |-> 0, ethertype |-> "other", parses |-> FALSE, ihl |-> 0, ip_len |-> 0,
                from_guest |-> FALSE, proto |-> "other", udp_len |-> 0, doff |-> 0, echo |-> FALSE,
                gso |-> 0]
    /\ step = "done" /\ l4 = Empty /\ payload = Empty
    /\ off = 0 /\ segments = <<>> /\ cuts = {}
IdleSend ==
    /\ send = [head |-> 0, sent |-> 0, buffered |-> 1, budget |-> 1, mss |-> 0, tso |-> FALSE]
    /\ sendOff = 0 /\ pieces = <<>>
IdleOptions ==
    /\ given = [list |-> <<>>, cut |-> 0] /\ opts = <<>>
    /\ mss = None /\ wscale = None /\ parsed = "loop"
IdleChecksum == msg = <<0, 0, 0, 0>> /\ pseudo = 0 /\ split = 0
IdlePolicy ==
    /\ cfg = [dns_forward |-> FALSE, nat64 |-> FALSE, resolver |-> Nowhere,
              allow_flow |-> "default"]
    /\ req = [kind |-> "udp", dst |-> [family |-> "v4", class |-> "global"], port53 |-> FALSE]
    /\ asked = FALSE /\ target = Nowhere /\ stage = "new" /\ echo = ICMP_ECHO_REQUEST
IdleDns ==
    /\ conf = <<>> /\ tries = 0 /\ at = "send" /\ errPending = FALSE
    /\ reply = NoReply /\ scan = [i |-> 0, left |-> 0] /\ result = NoPrefix

IdleUdp ==
    /\ family = "v4" /\ offloads = {}
    /\ pc = "armed" /\ res = NoError /\ buf = <<>> /\ seg = 0
    /\ queue = <<>> /\ err = NoError /\ arrived = <<>>
    /\ seen = <<>> /\ told = <<>> /\ sends = 0 /\ errors = 0

WireParts == {"frame", "send", "options", "checksum", "policy", "dns", "netdev", "udp"}

WireInit ==
    /\ part \in WireParts
    /\ IF part = "frame" THEN FrameInit ELSE IdleFrame
    /\ IF part = "send" THEN SendInit ELSE IdleSend
    /\ IF part = "options" THEN OptionsInit ELSE IdleOptions
    /\ IF part = "checksum" THEN ChecksumInit ELSE IdleChecksum
    /\ IF part = "policy" THEN PolicyInit ELSE IdlePolicy
    /\ IF part = "dns" THEN DnsInit ELSE IdleDns
    /\ NetdevInit
    /\ IF part = "udp" THEN UdpInit ELSE IdleUdp

WireNext ==
    /\ UNCHANGED part
    /\ \/ /\ part = "frame" /\ FrameNext
          /\ UNCHANGED <<sendVars, optionVars, checksumVars, policyVars, dnsVars, netdevVars, udpVars>>
       \/ /\ part = "send" /\ SendNext
          /\ UNCHANGED <<frameVars, optionVars, checksumVars, policyVars, dnsVars, netdevVars, udpVars>>
       \/ /\ part = "options" /\ OptionsNext
          /\ UNCHANGED <<frameVars, sendVars, checksumVars, policyVars, dnsVars, netdevVars, udpVars>>
       \/ /\ part = "checksum" /\ MoveSplit
          /\ UNCHANGED <<frameVars, sendVars, optionVars, policyVars, dnsVars, netdevVars, udpVars>>
       \/ /\ part = "policy" /\ PolicyNext
          /\ UNCHANGED <<frameVars, sendVars, optionVars, checksumVars, dnsVars, netdevVars, udpVars>>
       \/ /\ part = "dns" /\ DnsNext
          /\ UNCHANGED <<frameVars, sendVars, optionVars, checksumVars, policyVars, netdevVars, udpVars>>
       \/ /\ part = "netdev" /\ NetdevNext
          /\ UNCHANGED <<frameVars, sendVars, optionVars, checksumVars, policyVars, dnsVars, udpVars>>
       \/ /\ part = "udp" /\ UdpNext
          /\ UNCHANGED <<frameVars, sendVars, optionVars, checksumVars, policyVars, dnsVars, netdevVars>>

wireVars ==
    <<part, frameVars, sendVars, optionVars, checksumVars, policyVars, dnsVars, netdevVars,
      udpVars>>

\* Only the UDP flow promises progress; its fairness is UdpSpec's.
WireSpec == WireInit /\ [][WireNext]_wireVars /\ WF_udpVars(part = "udp" /\ UdpHandle)
=============================================================================
