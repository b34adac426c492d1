----------------------------- MODULE FlowPolicy -----------------------------
(***************************************************************************)
(* Which host address a new flow of the guest ends up at: flow_allowed,    *)
(* new_flow, new_tcp_flow, ping_socket (src/uring.rs), is_public and       *)
(* nat64_target (src/lib.rs); and an echo request's way there and back     *)
(* under NAT64.                                                            *)
(*                                                                         *)
(* An address is its family and the class the code's tests put it in; a    *)
(* mapped address is ::ffff:a.b.c.d, a nat64 one an IPv4 address embedded  *)
(* in the NAT64 prefix, by presto or by the guest, with the class of the   *)
(* IPv4 address.  To the code's tests the latter is just an IPv6 address.  *)
(***************************************************************************)
EXTENDS Naturals

CONSTANT Nowhere

Classes4 == {"loopback", "private", "link_local", "multicast", "broadcast",
             "unspecified", "shared", "gateway", "global"}
Classes6 == {"loopback", "multicast", "unspecified", "unique_local", "link_local",
             "gateway", "global"}

Addr(f, classes) == {[family |-> f, class |-> c] : c \in classes}

GuestAddrs ==
    Addr("v4", Classes4) \cup Addr("v6", Classes6)
      \cup Addr("mapped", Classes4) \cup Addr("nat64", Classes4)

\* The resolver resolv.conf names, if any.
Resolvers == Addr("v4", {"loopback", "private", "global"}) \cup Addr("v6", {"loopback", "global"})
               \cup {Nowhere}

VARIABLES
    cfg,        \* dns_forward, allow_flow, nat64_prefix, and the resolver
    req,        \* the guest's first packet: kind, dst, port 53 or not
    asked,      \* the flow policy has allowed the destination
    target,     \* what the host socket is connected to
    echo,       \* ICMP type of the message on its way
    stage       \* "new", "open", "sent", "back", "done", "dropped"

policyVars == <<cfg, req, asked, target, echo, stage>>

ICMP_ECHO_REQUEST == 8
ICMP_ECHO_REPLY == 0
ICMPV6_ECHO_REQUEST == 128
ICMPV6_ECHO_REPLY == 129

\* The ICMP types of an address's family, on the wire and for its sockets.
IsV4(a) == a.family = "v4"
RequestType(a) == IF IsV4(a) THEN ICMP_ECHO_REQUEST ELSE ICMPV6_ECHO_REQUEST
ReplyType(a) == IF IsV4(a) THEN ICMP_ECHO_REPLY ELSE ICMPV6_ECHO_REPLY

PolicyInit ==
    /\ cfg \in [dns_forward : BOOLEAN, nat64 : BOOLEAN, resolver : Resolvers,
                allow_flow : {"default", "is_public", "all"}]
    /\ req \in [kind : {"udp", "tcp", "ping"}, dst : GuestAddrs, port53 : BOOLEAN]
    /\ asked = FALSE /\ target = Nowhere /\ stage = "new"
    /\ echo = RequestType(req.dst)

-----------------------------------------------------------------------------
\* A mapped address is classified by the IPv4 address in it.  169.254.1.1,
\* the gateway's default, is link-local; its IPv6 address is in no excluded
\* range.
IsPublic(a) ==
    CASE a.family \in {"v4", "mapped"} -> a.class = "global"
      [] a.family = "v6" -> a.class \in {"global", "gateway"}
      [] a.family = "nat64" -> TRUE

\* is_loopback, on the address itself or the IPv4 address mapped in it.
IsLoopback(a) == a.class = "loopback" /\ a.family # "nat64"

\* Faulty: mapped addresses are not looked into.
FlowAllowedUnmapped(a) ==
    CASE cfg.allow_flow = "default" -> a.family = "mapped" \/ ~IsLoopback(a)
      [] cfg.allow_flow = "is_public" -> IsPublic(a)
      [] cfg.allow_flow = "all" -> TRUE

\* The caller's filter, or the default: no loopback, mapped or not.
FlowAllowed(a) ==
    CASE cfg.allow_flow = "default" -> ~IsLoopback(a)
      [] cfg.allow_flow = "is_public" -> IsPublic(a)
      [] cfg.allow_flow = "all" -> TRUE

DnsRedirect ==
    /\ req.kind = "udp" /\ cfg.dns_forward /\ req.port53
    /\ req.dst.family # "mapped" /\ req.dst.class = "gateway"

\* IPv4 goes into the NAT64 prefix, except loopback.
Nat64Target(a) ==
    IF cfg.nat64 /\ IsV4(a) /\ a.class # "loopback"
    THEN [family |-> "nat64", class |-> a.class]
    ELSE a

\* new_flow and new_tcp_flow, up to the socket, which may fail to connect.
OpenFlow ==
    /\ stage = "new"
    /\ LET dst == IF DnsRedirect THEN cfg.resolver ELSE req.dst
       IN  \E sock \in BOOLEAN :
           IF (DnsRedirect \/ FlowAllowed(req.dst)) /\ dst # Nowhere /\ sock
           THEN target' = Nat64Target(dst) /\ stage' = "open"
           ELSE stage' = "dropped" /\ UNCHANGED target
    /\ asked' = (~DnsRedirect /\ FlowAllowed(req.dst))
    /\ UNCHANGED <<cfg, req, echo>>

\* Faulty: the type stays that of the guest.
EchoTypeUnchanged == echo

\* handle_icmp_echo: under NAT64 an ICMPv4 request becomes an ICMPv6 one.
EchoType == IF IsV4(req.dst) /\ cfg.nat64 THEN ICMPV6_ECHO_REQUEST ELSE echo

SendEcho ==
    /\ stage = "open" /\ req.kind = "ping"
    /\ echo' = EchoType /\ stage' = "sent"
    /\ UNCHANGED <<cfg, req, asked, target>>

\* A ping socket takes requests of its own family only (external).
PeerAnswers ==
    /\ stage = "sent"
    /\ IF echo = RequestType(target)
       THEN echo' = ReplyType(target) /\ stage' = "back"
       ELSE stage' = "dropped" /\ UNCHANGED echo
    /\ UNCHANGED <<cfg, req, asked, target>>

\* reply_to_guest: and back again; anything but an ICMPv6 reply is dropped.
ReplyEcho ==
    /\ stage = "back"
    /\ IF IsV4(req.dst) /\ cfg.nat64
       THEN /\ echo' = ICMP_ECHO_REPLY
            /\ stage' = IF echo = ICMPV6_ECHO_REPLY THEN "done" ELSE "dropped"
       ELSE stage' = "done" /\ UNCHANGED echo
    /\ UNCHANGED <<cfg, req, asked, target>>

PolicyNext ==
    \/ OpenFlow
    \/ SendEcho
    \/ PeerAnswers
    \/ ReplyEcho

PolicySpec == PolicyInit /\ [][PolicyNext]_policyVars

-----------------------------------------------------------------------------
\* The kernel connects a socket for 0.0.0.0 or :: to the host's loopback
\* (external); an address in the NAT64 prefix is for the translator.
ReachesLoopback(a) ==
    a.family # "nat64" /\ a.class \in {"loopback", "unspecified"}

\* A host socket goes where the policy said the guest may go: the address is
\* the guest's, or its embedding, and was allowed as the guest sent it; with
\* the default policy the peer is not the host's loopback even after
\* translation, unless the guest wrote to the unspecified address, which that
\* policy lets pass; is_public lets neither pass.  An address the guest put
\* into the NAT64 prefix itself is judged as the IPv6 address it is.  Only
\* DNS for the gateway goes elsewhere, to the resolver.
TargetAsAllowed ==
    target # Nowhere =>
        \/ /\ asked
           /\ target = req.dst \/ (cfg.nat64 /\ target.family = "nat64" /\ IsV4(req.dst))
           /\ target.class = req.dst.class
           /\ cfg.allow_flow = "default" /\ ReachesLoopback(target)
                => req.dst.class = "unspecified"
           /\ cfg.allow_flow = "is_public"
                => /\ ~ReachesLoopback(target)
                   /\ req.dst.class \in {"global", "gateway"} \/ req.dst.family = "nat64"
        \/ /\ ~asked /\ req.kind = "udp" /\ req.port53 /\ req.dst.class = "gateway"
           /\ target.class = cfg.resolver.class

\* With a NAT64 prefix no socket needs an IPv4 route ("the host sockets use
\* IPv6"), and an echo request of the guest is answered in the guest's own
\* family.  Loopback destinations are the exception: nat64_target leaves them
\* to IPv4, handle_icmp_echo rewrites the request for ICMPv6 all the same,
\* and the IPv4 ping socket refuses it.
EchoRoundTrip ==
    /\ target # Nowhere /\ cfg.nat64 /\ target.class # "loopback" => ~IsV4(target)
    /\ stage \in {"done", "dropped"} /\ req.kind = "ping" /\ target # Nowhere
       => IF cfg.nat64 /\ IsV4(target) /\ IsLoopback(target)
          THEN stage = "dropped"
          ELSE stage = "done" /\ echo = ReplyType(req.dst)
=============================================================================
