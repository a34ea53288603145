---------------------------- MODULE ClientRoutes ----------------------------
(***************************************************************************)
(* The routes of a client's host: what the client command does before it   *)
(* connects (src/src/main.rs), by commands that may fail, in a process     *)
(* that may die at any moment and be started again.                        *)
(*                                                                         *)
(* A routing table has, for each address family, its default routes, and   *)
(* the host routes ("pins") of the server's addresses.  A pin and a        *)
(* default route via a gateway outlive the process; a route via the TUN    *)
(* device goes with the device, which is the process's.                    *)
(***************************************************************************)
CONSTANTS
    Addr4, Addr6,  \* addresses the server's name may have, of each family
    Local,         \* those of IPv4 that are on the network of eth0 itself
    Gateway,       \* the gateways of the host's networks
    Eth0           \* whether the IPv6 gateways are reached over eth0

Addr == Addr4 \cup Addr6
Family == {"v4", "v6"}
FamilyOf(a) == IF a \in Addr4 THEN "v4" ELSE "v6"
Command == {"lookup", "pin", "delete", "set"}
Tun == "tun"
Link == "link"
None == "none"

ASSUME AddrAssumption == Addr4 \cap Addr6 = {} /\ Local \subseteq Addr4
ASSUME GatewayAssumption == {Tun, Link, None} \cap Gateway = {}
ASSUME EthAssumption == Eth0 \in BOOLEAN

VARIABLES
    failing,   \* the commands that may fail on this host
    at,        \* the command the process is before
    server,    \* the addresses the server's name has
    defaults,  \* defaults[f]: where the default routes of family f lead, one each
    pins,      \* pins[a]: the gateway of the host route to a
    gateway,   \* current_gw and current_gw_v6: a set of gateways, as the lines read
    addrs      \* the addresses looked up, not yet pinned

vars == <<failing, at, server, defaults, pins, gateway, addrs>>

Init == /\ failing \in SUBSET Command
        /\ at = "down"
        /\ server \in SUBSET Addr \ {{}}
        /\ defaults \in [Family -> SUBSET Gateway]
        /\ pins = [a \in Addr |-> None]
        /\ gateway = [f \in Family |-> {}]
        /\ addrs = {}

\* Where packets to address a go: its pin is the more specific route.
RouteTo(a) == IF pins[a] # None THEN {pins[a]}
              ELSE IF a \in Local THEN {Link}
              ELSE defaults[FamilyOf(a)]

\* Names are looked up at some server of the network, over a default route.
Online == \E f \in Family : defaults[f] \cap Gateway # {}

\* get_gateway and get_gateway_v6 print a line for each default route.  (Mutant:
\* what they print is not trimmed, and never empty.)
GetGatewayUntrimmed(f) == IF defaults[f] = {} THEN {None} ELSE defaults[f]
GetGateway(f) == defaults[f]

\* The TUN device is made, and the gateways are read.
Start ==
    /\ at = "down"
    /\ at' = "lookup"
    /\ gateway' = [f \in Family |-> GetGateway(f)]
    /\ UNCHANGED <<failing, server, defaults, pins, addrs>>

\* Without an answer nothing is pinned.
Lookup ==
    /\ at = "lookup"
    /\ at' = "pin"
    /\ addrs' \in IF Online /\ "lookup" \notin failing THEN {server} ELSE {{}, server}
    /\ UNCHANGED <<failing, server, defaults, pins, gateway>>

\* pin_route and pin_route_v6.  No gateway, no pin; and `ip route replace` takes
\* one, which IPv6 looks for on eth0.
Pins(a) ==
    IF a \in Local THEN IF gateway["v4"] = {} THEN {} ELSE {Link}
    ELSE {g \in Gateway : gateway[FamilyOf(a)] = {g} /\ (a \in Addr6 => Eth0)}

\* A pin that fails is logged.  (Mutant: there is none for IPv6.)
Pinned4(a) ==
    IF a \in Addr4 THEN {[pins EXCEPT ![a] = g] : g \in Pins(a)} ELSE {}
Pinned(a) == {[pins EXCEPT ![a] = g] : g \in Pins(a)}

Pin(a) ==
    /\ at = "pin"
    /\ a \in addrs
    /\ addrs' = addrs \ {a}
    /\ \/ pins' \in Pinned(a)
       \/ (Pinned(a) = {} \/ "pin" \in failing) /\ UNCHANGED pins
    /\ UNCHANGED <<failing, at, server, defaults, gateway>>

\* What delete_default_routes(_v6) leaves of the default routes.  (Mutant: all
\* but one, without the loop.)
DeletedOne(routes) == {r \in routes : r # CHOOSE first \in routes : TRUE}
Deleted(routes) == {}

\* The default routes go in the families whose command does not fail, or is not
\* the one at which the process dies.
Delete ==
    /\ at = "pin" /\ addrs = {}
    /\ at' = "set"
    /\ \E fails \in SUBSET (IF "delete" \in failing THEN Family ELSE {}) :
           defaults' = [f \in Family |->
                           IF f \in fails THEN defaults[f] ELSE Deleted(defaults[f])]
    /\ UNCHANGED <<failing, server, pins, gateway, addrs>>

\* set_default_route(_v6): `ip route add` refuses a second default route of the
\* same metric; one of another metric stays beside the new one.
Set ==
    /\ at = "set"
    /\ at' = "connect"
    /\ \E fails \in SUBSET {f \in Family : "set" \in failing \/ defaults[f] # {}} :
           defaults' = [f \in Family |->
                           IF f \in fails THEN defaults[f] ELSE defaults[f] \cup {Tun}]
    /\ UNCHANGED <<failing, server, pins, gateway, addrs>>

\* The process ends, at whatever command it is, and its TUN device with it.
Exit ==
    /\ at # "down"
    /\ at' = "down"
    /\ defaults' = [f \in Family |-> defaults[f] \ {Tun}]
    /\ addrs' = {}
    /\ UNCHANGED <<failing, server, pins, gateway>>

\* Somebody else, say DHCP, gives the host its default routes back.
Restored ==
    /\ at = "down"
    /\ defaults' \in [Family -> SUBSET Gateway]
    /\ UNCHANGED <<failing, at, server, pins, gateway, addrs>>

Next == Start \/ Lookup \/ (\E a \in Addr : Pin(a)) \/ Delete \/ Set \/ Exit \/ Restored

Spec == Init /\ [][Next]_vars

-----------------------------------------------------------------------------
(* Properties.                                                             *)

Route == Gateway \cup {Tun, Link}

TypeOK == /\ failing \subseteq Command
          /\ at \in {"down", "lookup", "pin", "set", "connect"}
          /\ server \in SUBSET Addr
          /\ defaults \in [Family -> SUBSET (Gateway \cup {Tun})]
          /\ pins \in [Addr -> Gateway \cup {Link, None}]
          /\ gateway \in [Family -> SUBSET (Gateway \cup {Tun})]
          /\ addrs \subseteq server

\* Packets to address a leave the host, and never by the tunnel they would carry.
Reachable(a) == RouteTo(a) # {} /\ Tun \notin RouteTo(a)

\* An address of the server that can be reached stays so.
Kept == \A a \in server : Reachable(a) => Reachable(a)'

\* A host whose commands work, with a gateway (of each family) over eth0.
SimpleHost == /\ failing \cap {"lookup", "pin"} = {}
              /\ \A f \in Family : \A g1, g2 \in gateway[f] : g1 = g2
              /\ Eth0

\* At every command of such a host, and across a process that dies at any of
\* them and is started again when the default routes are gone, the server stays
\* reachable beside the tunnel; unless others change the routes.
StaysReachable == [][~Restored /\ SimpleHost => Kept]_vars

\* "Pin the VPN server via the current default gateway so the tunnel doesn't
\* loop" (main.rs): where no command need fail, and there was a gateway to pin the
\* server via, the client does not connect with the tunnel's own packets routed
\* into the tunnel.
NoLoop == at = "connect" /\ failing = {}
            => \A a \in server : gateway[FamilyOf(a)] # {} => Tun \notin RouteTo(a)

\* "Delete all existing default routes, then route through TUN" (main.rs): when
\* the client connects, no packet leaves the host beside the tunnel but those
\* to a pinned address, however many default routes and pins failed before.
AllThroughTun ==
    at = "connect" /\ failing \cap {"delete", "set"} = {}
        => \A f \in Family : defaults[f] = {Tun}
=============================================================================
