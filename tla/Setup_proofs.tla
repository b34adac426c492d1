---------------------------- MODULE Setup_proofs ----------------------------
(***************************************************************************)
(* What presto-pasta sets up before data flows: the host address a socket  *)
(* is connected to (FlowPolicy), and the interface inside the sandbox      *)
(* (Netdev), the latter for every number of attempts.                      *)
(***************************************************************************)
EXTENDS FlowPolicy, Netdev, TLAPS

(* The interface                                                           *)

NetType ==
    net \in [up : BOOLEAN, mtu : BOOLEAN, addr : SUBSET {"v4", "v6"},
             neigh : SUBSET {"v4", "v6"}, route : SUBSET {"v4", "v6"}]

\* The calls before the n-th have had their effect.
DoneBefore(n) ==
    /\ n > 1 => net.up
    /\ n > 2 => net.mtu
    /\ n > 4 => "v4" \in net.addr
    /\ n > 5 => "v4" \in net.neigh
    /\ n > 6 => "v4" \in net.route
    /\ n > 7 => "v6" \in net.addr
    /\ n > 8 => "v6" \in net.neigh
    /\ n > 9 => "v6" \in net.route

Calls == [op : {"up", "mtu", "index", "addr", "neigh", "route"},
          family : {"none", "v4", "v6"}]

\* The calls from the n-th on are to come.
LeftFrom(n) ==
    /\ todo \in Seq(Calls)
    /\ Len(todo) = 10 - n
    /\ \A i \in 1..(10 - n) : todo[i] = Program[n + i - 1]

NetInv ==
    /\ NetType
    /\ outcome \in {"none", "running", "Ok", "Err"}
    /\ outcome = "running" => \E n \in 1..9 : LeftFrom(n) /\ DoneBefore(n)
    /\ outcome = "Ok" => DoneBefore(10)
    /\ outcome = "Err" => faulted

LEMMA NineSeq ==
    ASSUME NEW T, NEW a \in T, NEW b \in T, NEW c \in T, NEW d \in T, NEW e \in T,
           NEW f \in T, NEW g \in T, NEW h \in T, NEW i \in T
    PROVE  <<a, b, c, d, e, f, g, h, i>> \in Seq(T)
  OBVIOUS

LEMMA ProgramIs ==
    /\ Program \in Seq(Calls) /\ Len(Program) = 9
    /\ Program[1] = Call("up", "none") /\ Program[2] = Call("mtu", "none")
    /\ Program[3] = Call("index", "none")
    /\ Program[4] = Call("addr", "v4") /\ Program[5] = Call("neigh", "v4")
    /\ Program[6] = Call("route", "v4")
    /\ Program[7] = Call("addr", "v6") /\ Program[8] = Call("neigh", "v6")
    /\ Program[9] = Call("route", "v6")
<1>1. /\ Call("up", "none") \in Calls /\ Call("mtu", "none") \in Calls
      /\ Call("index", "none") \in Calls
      /\ Call("addr", "v4") \in Calls /\ Call("neigh", "v4") \in Calls
      /\ Call("route", "v4") \in Calls
      /\ Call("addr", "v6") \in Calls /\ Call("neigh", "v6") \in Calls
      /\ Call("route", "v6") \in Calls
  BY DEF Call, Calls
<1>2. Program \in Seq(Calls)
  BY <1>1, NineSeq, Zenon DEF Program
<1> QED BY <1>2 DEF Program

\* The kernel finds the attributes of every request where presto-pasta put
\* them.
LEMMA RequestsAreRead ==
    ASSUME NEW op \in {"addr", "neigh", "route"}, NEW f \in {"v4", "v6"}
    PROVE  KernelReads(op, f)
<1>1. Align4(8) = 8 /\ Align4(10) = 12 /\ Align4(12) = 12 /\ Align4(20) = 20 /\ Align4(24) = 24
      /\ Align4(28) = 28 /\ Align4(32) = 32 /\ Align4(36) = 36 /\ Align4(40) = 40
      /\ Align4(44) = 44 /\ Align4(46) = 48 /\ Align4(48) = 48 /\ Align4(56) = 56
      /\ Align4(58) = 60 /\ Align4(60) = 60 /\ Align4(64) = 64
  BY DEF Align4
<1>2. CASE op = "addr"
  BY <1>1, <1>2 DEF KernelReads, Request, AttrEnd, AttrData, HdrSize, IpBytes, NlHdr
<1>3. CASE op = "neigh"
  BY <1>1, <1>3 DEF KernelReads, Request, AttrEnd, AttrData, HdrSize, IpBytes, NlHdr
<1>4. CASE op = "route"
  BY <1>1, <1>4 DEF KernelReads, Request, AttrEnd, AttrData, HdrSize, IpBytes, NlHdr
<1> QED BY <1>2, <1>3, <1>4

\* After the n-th call.
LEMMA AdvanceInv ==
    ASSUME NEW n \in 1..9, LeftFrom(n), Advance, NetType', (DoneBefore(n + 1))',
           outcome = "running"
    PROVE  NetInv'
<1>1. /\ todo' = Tail(todo) /\ outcome' = IF Len(todo) = 1 THEN "Ok" ELSE "running"
  BY DEF Advance
<1>2. CASE n = 9
  <2>1. Len(todo) = 1 /\ n + 1 = 10
    BY <1>2 DEF LeftFrom
  <2> QED BY <1>1, <2>1 DEF NetInv
<1>3. CASE n # 9
  <2>1. Len(todo) # 1 /\ n + 1 \in 1..9 /\ outcome' = "running"
    BY <1>1, <1>3 DEF LeftFrom
  <2>2. /\ todo' \in Seq(Calls) /\ Len(todo') = 10 - (n + 1)
        /\ \A i \in 1..(10 - (n + 1)) : todo'[i] = todo[i + 1]
    BY <1>1, <1>3 DEF LeftFrom
  <2>3. ASSUME NEW i \in 1..(10 - (n + 1)) PROVE todo'[i] = Program[(n + 1) + i - 1]
    <3>1. i + 1 \in 1..(10 - n) /\ n + (i + 1) - 1 = (n + 1) + i - 1
      BY <1>3
    <3> QED BY <2>2, <3>1 DEF LeftFrom
  <2>4. (LeftFrom(n + 1))'
    BY <2>2, <2>3 DEF LeftFrom
  <2> QED BY <2>1, <2>4 DEF NetInv
<1> QED BY <1>2, <1>3


LEMMA NetInitInv == NetdevInit => NetInv
  BY DEF NetdevInit, NetInv, NetType

LEMMA NetStepInv == NetInv /\ [NetdevNext]_netdevVars => NetInv'
<1> SUFFICES ASSUME NetInv, [NetdevNext]_netdevVars PROVE NetInv'
  OBVIOUS
<1>1. CASE Configure
  <2>1. outcome' = "running" /\ todo' = Program /\ net' = net
    BY <1>1 DEF Configure
  <2>2. (LeftFrom(1))' /\ (DoneBefore(1))'
    BY <2>1, ProgramIs DEF LeftFrom, DoneBefore
  <2> QED BY <2>1, <2>2 DEF NetInv, NetType
<1>2. CASE CallFails
  BY <1>2 DEF CallFails, Fail, NetInv, NetType
<1>3. CASE UNCHANGED netdevVars
  BY <1>3 DEF netdevVars, NetInv, NetType, LeftFrom, DoneBefore
<1>4. ASSUME Calling({"up", "mtu", "index", "addr", "neigh", "route"})
      PROVE  \E n \in 1..9 : LeftFrom(n) /\ DoneBefore(n) /\ todo[1] = Program[n]
  <2>1. PICK n \in 1..9 : LeftFrom(n) /\ DoneBefore(n)
    BY <1>4 DEF NetInv, Calling
  <2>2. 1 \in 1..(10 - n) /\ n + 1 - 1 = n
    OBVIOUS
  <2> QED BY <2>1, <2>2 DEF LeftFrom
<1>5. CASE LinkUp
  <2>1. PICK n \in 1..9 : LeftFrom(n) /\ DoneBefore(n) /\ todo[1] = Program[n]
    BY <1>4, <1>5 DEF LinkUp, Calling
  <2>2. outcome = "running" /\ Advance /\ todo[1].op \in {"up", "mtu"}
        /\ net' = [net EXCEPT ![todo[1].op] = TRUE]
    BY <1>5 DEF LinkUp, Calling
  <2>3. (n = 1 /\ todo[1].op = "up") \/ (n = 2 /\ todo[1].op = "mtu")
    BY <2>1, <2>2, ProgramIs DEF Call
  <2>4. NetType' /\ (DoneBefore(n + 1))'
    <3>1. CASE n = 1 /\ todo[1].op = "up"
      <4>1. net' = [net EXCEPT !.up = TRUE]
        BY <2>2, <3>1
      <4>2. NetType'
        BY <4>1 DEF NetInv, NetType
      <4>3. net'.up = TRUE /\ net'.mtu = net.mtu
        BY <4>1 DEF NetInv, NetType
      <4>4. n > 1 => net.up
        BY <2>1 DEF DoneBefore
      <4> QED BY <3>1, <4>2, <4>3, <4>4 DEF DoneBefore
    <3>2. CASE n = 2 /\ todo[1].op = "mtu"
      <4>1. net' = [net EXCEPT !.mtu = TRUE]
        BY <2>2, <3>2
      <4>2. NetType'
        BY <4>1 DEF NetInv, NetType
      <4>3. net'.mtu = TRUE /\ net'.up = net.up
        BY <4>1 DEF NetInv, NetType
      <4>4. n > 1 => net.up
        BY <2>1 DEF DoneBefore
      <4> QED BY <3>2, <4>2, <4>3, <4>4 DEF DoneBefore
    <3> QED BY <2>3, <3>1, <3>2
  <2> QED BY <2>1, <2>2, <2>4, AdvanceInv
<1>6. CASE NameToIndex
  <2>1. PICK n \in 1..9 : LeftFrom(n) /\ DoneBefore(n) /\ todo[1] = Program[n]
    BY <1>4, <1>6 DEF NameToIndex, Calling
  <2>2. outcome = "running" /\ Advance /\ todo[1].op = "index" /\ net' = net
    BY <1>6 DEF NameToIndex, Calling
  <2>3. n = 3
    BY <2>1, <2>2, ProgramIs DEF Call
  <2>4. NetType' /\ (DoneBefore(n + 1))'
    BY <2>1, <2>2, <2>3 DEF NetInv, NetType, DoneBefore
  <2> QED BY <2>1, <2>2, <2>4, AdvanceInv
<1>7. CASE Rtnetlink
  <2> DEFINE c == todo[1]
  <2>1. PICK n \in 1..9 : LeftFrom(n) /\ DoneBefore(n) /\ c = Program[n]
    BY <1>4, <1>7 DEF Rtnetlink, Calling
  <2>2. /\ outcome = "running" /\ c.op \in {"addr", "neigh", "route"}
        /\ net' = IF KernelAccepts(c.op, c.family)
                  THEN [net EXCEPT ![c.op] = @ \cup {c.family}] ELSE net
        /\ \E lost \in BOOLEAN :
              IF KernelAccepts(c.op, c.family) /\ ~lost THEN Advance ELSE Fail(lost)
    BY <1>7 DEF Rtnetlink, Calling
  <2> HIDE DEF c
  <2>3. \/ n = 4 /\ c.op = "addr" /\ c.family = "v4"
        \/ n = 5 /\ c.op = "neigh" /\ c.family = "v4"
        \/ n = 6 /\ c.op = "route" /\ c.family = "v4"
        \/ n = 7 /\ c.op = "addr" /\ c.family = "v6"
        \/ n = 8 /\ c.op = "neigh" /\ c.family = "v6"
        \/ n = 9 /\ c.op = "route" /\ c.family = "v6"
    BY <2>1, <2>2, ProgramIs DEF Call
  <2>4. net.up
    BY <2>1, <2>3 DEF DoneBefore
  <2>5. KernelAccepts(c.op, c.family)
    BY <2>3, <2>4, RequestsAreRead DEF KernelAccepts, NLM_F_FLAGS
  <2>6. NetType' /\ (DoneBefore(n + 1))'
    <3>1. net' = [net EXCEPT ![c.op] = @ \cup {c.family}]
      BY <2>2, <2>5
    <3> QED BY <2>1, <2>3, <3>1 DEF NetInv, NetType, DoneBefore
  <2>7. CASE Advance
    BY <2>1, <2>2, <2>6, <2>7, AdvanceInv
  <2>8. CASE Fail(TRUE)
    BY <2>6, <2>8 DEF Fail, NetInv
  <2> QED BY <2>2, <2>5, <2>7, <2>8
<1> QED BY <1>1, <1>2, <1>3, <1>5, <1>6, <1>7 DEF NetdevNext

\* netdev::configure, however often it is run and wherever earlier attempts
\* broke off: Ok means the link, the MTU, both addresses, neighbours and
\* routes are there, and an error means that a call of this very attempt
\* failed for a reason of its own, never because of what is there already or
\* because of the order of the calls.
THEOREM ConfigureSafety == NetdevSpec => []ConfigureConverges
<1>1. NetInv => ConfigureConverges
  BY DEF NetInv, NetType, DoneBefore, ConfigureConverges, Families
<1> QED BY <1>1, NetInitInv, NetStepInv, PTL DEF NetdevSpec

-----------------------------------------------------------------------------
(* The flow policy                                                         *)

PolicyType ==
    /\ cfg \in [dns_forward : BOOLEAN, nat64 : BOOLEAN, resolver : Resolvers,
                allow_flow : {"default", "is_public", "all"}]
    /\ req \in [kind : {"udp", "tcp", "ping"}, dst : GuestAddrs, port53 : BOOLEAN]
    /\ req.dst \in [family : {"v4", "v6", "mapped", "nat64"}, class : Classes4 \cup Classes6]
    /\ stage \in {"new", "open", "sent", "back", "done", "dropped"}

\* An echo request on its way: the type is the one the host's socket takes,
\* sends back, and the guest expects, except for the loopback addresses that
\* NAT64 leaves alone, whose request has the type of the other family.
EchoKept ==
    LET exempt == cfg.nat64 /\ target.family = "v4" /\ target.class = "loopback"
        host == IF cfg.nat64 \/ ~IsV4(req.dst) THEN "v6" ELSE "v4"
    IN  /\ stage = "new" => target = Nowhere
        /\ stage \in {"new", "open"} => echo = RequestType(req.dst)
        /\ req.kind = "ping" /\ target # Nowhere /\ ~exempt =>
             /\ IsV4(target) <=> host = "v4"
             /\ stage = "sent" => echo = RequestType(target)
             /\ stage = "back" => echo = ReplyType(target)
             /\ stage = "done" => echo = ReplyType(req.dst)
             /\ stage # "dropped"
        /\ req.kind = "ping" /\ target # Nowhere /\ exempt =>
             /\ IsV4(req.dst)
             /\ stage = "sent" => echo = ICMPV6_ECHO_REQUEST
             /\ stage \notin {"back", "done"}

PolicyInv ==
    /\ PolicyType /\ EchoKept /\ TargetAsAllowed
    /\ target # Nowhere /\ cfg.nat64 /\ target.class # "loopback" => ~IsV4(target)


LEMMA GuestAddrType ==
    GuestAddrs \subseteq [family : {"v4", "v6", "mapped", "nat64"}, class : Classes4 \cup Classes6]
  BY DEF GuestAddrs, Addr

LEMMA PolicyInitInv == PolicyInit => PolicyInv
<1> SUFFICES ASSUME PolicyInit PROVE PolicyInv
  OBVIOUS
<1>1. PolicyType
  BY GuestAddrType DEF PolicyInit, PolicyType
<1> QED BY <1>1 DEF PolicyInit, PolicyInv, EchoKept, TargetAsAllowed

LEMMA OpenFlowInv == ASSUME PolicyInv, OpenFlow PROVE PolicyInv'
<1> DEFINE dst == IF DnsRedirect THEN cfg.resolver ELSE req.dst
<1>1. /\ stage = "new" /\ cfg' = cfg /\ req' = req /\ echo' = echo /\ target = Nowhere
      /\ asked' = (~DnsRedirect /\ FlowAllowed(req.dst))
      /\ \/ /\ DnsRedirect \/ FlowAllowed(req.dst)
            /\ target' = Nat64Target(dst) /\ stage' = "open"
         \/ stage' = "dropped" /\ target' = target
  BY DEF OpenFlow, PolicyInv, EchoKept
<1>2. PolicyType'
  BY <1>1 DEF PolicyInv, PolicyType
<1>3. CASE stage' = "dropped" /\ target' = target
  BY <1>1, <1>2, <1>3 DEF PolicyInv, EchoKept, TargetAsAllowed
<1>4. CASE /\ DnsRedirect \/ FlowAllowed(req.dst)
           /\ target' = Nat64Target(dst) /\ stage' = "open"
  <2>1. target'.class = dst.class
    BY <1>4 DEF Nat64Target
  <2>2. cfg'.nat64 /\ target'.class # "loopback" => target'.family # "v4"
    BY <1>1, <1>4, <2>1 DEF Nat64Target, IsV4
  <2>3. CASE DnsRedirect
    <3>1. ~asked' /\ req.kind = "udp" /\ req.port53 /\ req.dst.class = "gateway"
      BY <1>1, <2>3 DEF DnsRedirect
    <3>2. target'.class = cfg'.resolver.class
      BY <1>1, <2>1, <2>3
    <3>3. TargetAsAllowed'
      BY <1>1, <3>1, <3>2 DEF TargetAsAllowed
    <3>4. EchoKept'
      BY <1>1, <1>4, <3>1 DEF EchoKept, PolicyInv, RequestType, IsV4
    <3> QED BY <1>2, <2>2, <3>3, <3>4 DEF PolicyInv, IsV4
  <2>4. CASE ~DnsRedirect
    <3>1. asked' /\ FlowAllowed(req.dst) /\ dst = req.dst
      BY <1>1, <1>4, <2>4
    <3>2. \/ target' = req.dst
          \/ cfg.nat64 /\ target'.family = "nat64" /\ IsV4(req.dst)
      BY <1>4, <3>1 DEF Nat64Target
    <3>3. /\ cfg.allow_flow = "default" => ~IsLoopback(req.dst)
          /\ cfg.allow_flow = "is_public" =>
               req.dst.class \in {"global", "gateway"} \/ req.dst.family = "nat64"
      <4>1. req.dst.family \in {"v4", "v6", "mapped", "nat64"}
        BY DEF PolicyInv, PolicyType
      <4> QED BY <3>1, <4>1 DEF FlowAllowed, IsPublic
    <3>6. /\ cfg.allow_flow = "default" /\ ReachesLoopback(target') => req.dst.class = "unspecified"
          /\ cfg.allow_flow = "is_public" => ~ReachesLoopback(target')
      BY <2>1, <3>1, <3>2, <3>3 DEF ReachesLoopback, IsLoopback
    <3>4. TargetAsAllowed'
      BY <1>1, <2>1, <3>1, <3>2, <3>3, <3>6 DEF TargetAsAllowed, IsV4
    <3>5. EchoKept'
      <4>1. echo' = RequestType(req.dst)
        BY <1>1 DEF PolicyInv, EchoKept
      <4>2. req.dst \in [family : {"v4", "v6", "mapped", "nat64"}, class : Classes4 \cup Classes6]
        BY DEF PolicyInv, PolicyType
      <4>3. ASSUME ~(cfg.nat64 /\ target'.family = "v4" /\ target'.class = "loopback")
            PROVE  target'.family = "v4" <=> ~(cfg.nat64 \/ ~IsV4(req.dst))
        <5>1. CASE cfg.nat64 /\ IsV4(req.dst) /\ req.dst.class # "loopback"
          BY <1>4, <3>1, <5>1 DEF Nat64Target
        <5>2. CASE cfg.nat64 /\ IsV4(req.dst) /\ req.dst.class = "loopback"
          <6>1. target' = req.dst
            BY <1>4, <3>1, <5>2 DEF Nat64Target
          <6> QED BY <4>3, <5>2, <6>1 DEF IsV4
        <5>3. CASE ~(cfg.nat64 /\ IsV4(req.dst))
          <6>1. target' = req.dst
            BY <1>4, <3>1, <5>3 DEF Nat64Target
          <6> QED BY <5>3, <6>1 DEF IsV4
        <5> QED BY <5>1, <5>2, <5>3
      <4>4. target'.family = "v4" => IsV4(req.dst)
        BY <1>4, <3>1 DEF Nat64Target, IsV4
      <4> QED BY <1>1, <1>4, <4>1, <4>3, <4>4 DEF EchoKept, IsV4, RequestType
    <3> QED BY <1>2, <2>2, <3>4, <3>5 DEF PolicyInv, IsV4
  <2> QED BY <2>3, <2>4
<1> QED BY <1>1, <1>3, <1>4

LEMMA PolicyStepInv == PolicyInv /\ [PolicyNext]_policyVars => PolicyInv'
<1> SUFFICES ASSUME PolicyInv, [PolicyNext]_policyVars PROVE PolicyInv'
  OBVIOUS
\* Only the message and its stage change.
<1>1. ASSUME UNCHANGED <<cfg, req, asked, target>>, EchoKept',
             stage' \in {"new", "open", "sent", "back", "done", "dropped"}
      PROVE  PolicyInv'
  BY <1>1 DEF PolicyInv, PolicyType, TargetAsAllowed, IsV4
<1>2. CASE SendEcho
  BY <1>1, <1>2 DEF SendEcho, EchoType, PolicyInv, EchoKept, RequestType, ReplyType, IsV4,
       ICMP_ECHO_REQUEST, ICMPV6_ECHO_REQUEST
<1>3. CASE PeerAnswers
  BY <1>1, <1>3 DEF PeerAnswers, PolicyInv, EchoKept, RequestType, ReplyType, IsV4,
       ICMP_ECHO_REQUEST, ICMPV6_ECHO_REQUEST
<1>4. CASE ReplyEcho
  BY <1>1, <1>4 DEF ReplyEcho, PolicyInv, EchoKept, RequestType, ReplyType, IsV4,
       ICMP_ECHO_REPLY, ICMPV6_ECHO_REPLY
<1>5. CASE UNCHANGED policyVars
  BY <1>1, <1>5 DEF policyVars, PolicyInv, PolicyType, EchoKept
<1> QED BY <1>2, <1>3, <1>4, <1>5, OpenFlowInv DEF PolicyNext

LEMMA PolicyInvariance == PolicySpec => []PolicyInv
  BY PolicyInitInv, PolicyStepInv, PTL DEF PolicySpec

\* new_flow and new_tcp_flow connect a host socket only to the address that
\* flow_allowed has let pass, or to its NAT64 embedding, and to the host's
\* loopback only where the policy or the unspecified address allows it; only
\* a DNS query to the gateway goes elsewhere, to the resolver.
THEOREM PolicySafety == PolicySpec => []TargetAsAllowed
<1>1. PolicyInv => TargetAsAllowed
  BY DEF PolicyInv
<1> QED BY <1>1, PolicyInvariance, PTL

\* handle_icmp_echo and reply_to_guest translate there and back: a request
\* is answered, in the guest's own family, unless NAT64 has left its
\* destination, a loopback address, to IPv4; then it is refused.
THEOREM EchoSafety == PolicySpec => []EchoRoundTrip
<1>1. PolicyInv => EchoRoundTrip
  BY DEF PolicyInv, EchoKept, EchoRoundTrip, IsV4, IsLoopback
<1> QED BY <1>1, PolicyInvariance, PTL
=============================================================================
