------------------------------- MODULE Netdev -------------------------------
(***************************************************************************)
(* netdev::configure (src/netdev.rs): the ioctl and rtnetlink calls that   *)
(* set up the tap inside the sandbox, against a kernel that keeps what an  *)
(* earlier call did.  Every call can fail, and an acknowledgement can get  *)
(* lost after the kernel has acted; configure then returns the error and   *)
(* leaves the interface half configured, and the caller may run it again.  *)
(***************************************************************************)
EXTENDS Naturals, Sequences

CONSTANT MaxAttempts    \* bound on calls of configure

VARIABLES
    net,        \* the interface, as the kernel has it
    todo,       \* calls configure has left to make
    faulted,    \* a call failed for a reason of its own in this attempt
    attempts,
    outcome     \* "none", "running", "Ok", "Err"

netdevVars == <<net, todo, faulted, attempts, outcome>>

Families == {"v4", "v6"}

NetdevInit ==
    /\ net = [up |-> FALSE, mtu |-> FALSE, addr |-> {}, neigh |-> {}, route |-> {}]
    /\ todo = <<>> /\ faulted = FALSE /\ attempts = 0 /\ outcome = "none"

-----------------------------------------------------------------------------
(***************************************************************************)
(* Requests: a netlink header, a payload header and attributes, of which   *)
(* only the sizes matter here.                                             *)
(***************************************************************************)
NlHdr == 16
HdrSize(op) == IF op = "addr" THEN 8 ELSE 12
IpBytes(f) == IF f = "v4" THEN 4 ELSE 16
AttrData(op, f) ==
    CASE op = "addr" -> <<IpBytes(f), IpBytes(f)>>     \* IFA_LOCAL, IFA_ADDRESS
      [] op = "neigh" -> <<IpBytes(f), 6>>             \* NDA_DST, NDA_LLADDR
      [] op = "route" -> <<IpBytes(f), 4>>             \* RTA_GATEWAY, RTA_OIF

Align4(n) == ((n + 3) \div 4) * 4

\* Request::attr on a buffer of `len' bytes: where it then ends.
AttrEnd(len, data) == Align4(len) + 4 + data

\* Request::new, attr twice and finish: length of the buffer, and where each
\* attribute starts.
Request(op, f) ==
    LET data == AttrData(op, f)
        start == NlHdr + HdrSize(op)
        second == AttrEnd(start, data[1])
    IN  [len |-> Align4(AttrEnd(second, data[2])), at |-> <<Align4(start), Align4(second)>>]

\* Where the kernel looks for them (external).
KernelReads(op, f) ==
    LET data == AttrData(op, f)
        first == NlHdr + Align4(HdrSize(op))
        second == first + Align4(4 + data[1])
    IN  Request(op, f) = [len |-> second + Align4(4 + data[2]), at |-> <<first, second>>]

\* Faulty: NLM_F_FLAGS without NLM_F_REPLACE.
FlagsCreateOnly == {"CREATE"}

NLM_F_FLAGS == {"CREATE", "REPLACE"}

\* The kernel refuses an entry that is there already unless it may replace
\* it, and a route through a link that is down (external).
KernelAccepts(op, f) ==
    /\ KernelReads(op, f)
    /\ f \in net[op] => "REPLACE" \in NLM_F_FLAGS
    /\ op = "route" => net.up

-----------------------------------------------------------------------------
Call(op, f) == [op |-> op, family |-> f]

\* configure's calls in order; link_up makes the first two.
Program ==
    <<Call("up", "none"), Call("mtu", "none"), Call("index", "none"),
      Call("addr", "v4"), Call("neigh", "v4"), Call("route", "v4"),
      Call("addr", "v6"), Call("neigh", "v6"), Call("route", "v6")>>

\* The caller runs configure, also once more after a failure or a success.
Configure ==
    /\ outcome # "running" /\ attempts < MaxAttempts
    /\ attempts' = attempts + 1
    /\ outcome' = "running" /\ todo' = Program /\ faulted' = FALSE
    /\ UNCHANGED net

Calling(ops) == outcome = "running" /\ todo # <<>> /\ todo[1].op \in ops

Advance ==
    /\ todo' = Tail(todo)
    /\ outcome' = IF Len(todo) = 1 THEN "Ok" ELSE "running"
    /\ UNCHANGED <<faulted, attempts>>

\* `?': what was done so far stays.
Fail(fault) ==
    /\ outcome' = "Err" /\ todo' = <<>> /\ faulted' = fault
    /\ UNCHANGED attempts

\* SIOCGIFFLAGS with SIOCSIFFLAGS, and SIOCSIFMTU.
LinkUp ==
    /\ Calling({"up", "mtu"})
    /\ net' = [net EXCEPT ![todo[1].op] = TRUE]
    /\ Advance

\* name_to_index and the netlink socket.
NameToIndex == Calling({"index"}) /\ Advance /\ UNCHANGED net

\* add_addr, add_neighbor, add_default_route: the kernel acts, or refuses,
\* and its answer may get lost.
Rtnetlink ==
    /\ Calling({"addr", "neigh", "route"})
    /\ LET c == todo[1]
           accepted == KernelAccepts(c.op, c.family)
       IN  /\ net' = IF accepted THEN [net EXCEPT ![c.op] = @ \cup {c.family}] ELSE net
           /\ \E lost \in BOOLEAN : IF accepted /\ ~lost THEN Advance ELSE Fail(lost)

\* No socket, no such interface, a missing capability, no memory.
CallFails ==
    /\ outcome = "running"
    /\ Fail(TRUE)
    /\ UNCHANGED net

NetdevNext ==
    \/ Configure
    \/ LinkUp
    \/ NameToIndex
    \/ Rtnetlink
    \/ CallFails

NetdevSpec == NetdevInit /\ [][NetdevNext]_netdevVars

-----------------------------------------------------------------------------
\* configure returns Ok only with everything in place ("link up with a large
\* MTU, the guest addresses, default routes, permanent neighbor entries"),
\* and it fails only for a fault of this very attempt: neither its own order
\* of calls nor what an earlier attempt left behind makes it fail.
ConfigureConverges ==
    /\ outcome = "Ok" =>
          /\ net.up /\ net.mtu
          /\ \A kind \in {"addr", "neigh", "route"} : net[kind] = Families
    /\ outcome = "Err" => faulted
=============================================================================
