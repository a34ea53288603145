------------------------- MODULE ClientRoutesProofs -------------------------
(* Theorems about a client's routes, for any addresses of the server, any  *)
(* gateways and any commands that fail.                                    *)
EXTENDS ClientRoutes, TLAPS

-----------------------------------------------------------------------------
(* Types.                                                                  *)

LEMMA TypeInit == ASSUME Init PROVE TypeOK
<1>1. pins \in [Addr -> Gateway \cup {Link, None}]
    BY DEF Init
<1>2. /\ defaults \in [Family -> SUBSET (Gateway \cup {Tun})]
      /\ gateway \in [Family -> SUBSET (Gateway \cup {Tun})]
    BY DEF Init
<1> QED
    BY <1>1, <1>2 DEF Init, TypeOK

LEMMA TypeNext == ASSUME TypeOK, [Next]_vars PROVE TypeOK'
<1> USE DEF TypeOK
<1>1. CASE Start
  <2>1. gateway' \in [Family -> SUBSET (Gateway \cup {Tun})]
      BY <1>1 DEF Start, GetGateway
  <2> QED
      BY <1>1, <2>1 DEF Start
<1>2. CASE Lookup
    BY <1>2 DEF Lookup
<1>3. ASSUME NEW a \in Addr, Pin(a) PROVE TypeOK'
  <2>1. \A g \in Pins(a) : g \in Gateway \cup {Link}
      BY DEF Pins
  <2>2. pins' \in [Addr -> Gateway \cup {Link, None}]
      BY <1>3, <2>1 DEF Pin, Pinned
  <2> QED
      BY <1>3, <2>2 DEF Pin
<1>4. CASE Delete
  <2>1. defaults' \in [Family -> SUBSET (Gateway \cup {Tun})]
      BY <1>4 DEF Delete, Deleted
  <2> QED
      BY <1>4, <2>1 DEF Delete
<1>5. CASE Set
  <2>1. defaults' \in [Family -> SUBSET (Gateway \cup {Tun})]
      BY <1>5 DEF Set
  <2> QED
      BY <1>5, <2>1 DEF Set
<1>6. CASE Exit
  <2>1. defaults' \in [Family -> SUBSET (Gateway \cup {Tun})]
      BY <1>6 DEF Exit
  <2> QED
      BY <1>6, <2>1 DEF Exit
<1>7. CASE Restored
  <2>1. defaults' \in [Family -> SUBSET (Gateway \cup {Tun})]
      BY <1>7 DEF Restored
  <2> QED
      BY <1>7, <2>1 DEF Restored
<1>8. CASE UNCHANGED vars
    BY <1>8 DEF vars
<1> QED
    BY <1>1, <1>2, <1>3, <1>4, <1>5, <1>6, <1>7, <1>8 DEF Next

\* The type invariant of the routes.
THEOREM TypeCorrect == Spec => []TypeOK
    BY TypeInit, TypeNext, PTL DEF Spec

-----------------------------------------------------------------------------
(* The server stays reachable.                                             *)

\* Until the default routes are deleted they are those whose gateways were read;
\* and on a simple host whatever address is not pinned by then was looked up and
\* is yet to be, or needs no pin, or could not be reached, which is still so when
\* the tunnel's route is set.
PinInv ==
    /\ at \in {"down", "lookup", "pin"} => \A f \in Family : defaults[f] \subseteq Gateway
    /\ at \in {"lookup", "pin"} => gateway = defaults
    /\ at = "set" => addrs = {}
    /\ at \in {"pin", "set"} /\ SimpleHost =>
           \A a \in server : \/ a \in addrs \/ pins[a] # None \/ a \in Local
                             \/ defaults[FamilyOf(a)] = {}

LEMMA PinInit == ASSUME Init PROVE PinInv
    BY DEF Init, PinInv

LEMMA Families == \A a : FamilyOf(a) \in Family
    BY DEF FamilyOf, Family

\* Where a pin is attempted and nothing fails, it is made if there is a gateway.
LEMMA PinMade ==
    ASSUME TypeOK, PinInv, SimpleHost, NEW a \in Addr, Pin(a), a \notin Local
    PROVE  pins'[a] # None \/ defaults[FamilyOf(a)] = {}
<1> DEFINE f == FamilyOf(a)
<1>1. gateway[f] = defaults[f] /\ defaults[f] \subseteq Gateway /\ f \in Family
    BY Families DEF PinInv, Pin
<1>2. "pin" \notin failing
    BY DEF SimpleHost
<1>3. ASSUME NEW g \in defaults[f] PROVE g \in Pins(a)
  <2>1. gateway[f] = {g}
      BY <1>1, <1>3 DEF SimpleHost
  <2> QED
      BY <1>1, <1>3, <2>1 DEF Pins, SimpleHost
<1>4. ASSUME NEW g \in Pins(a), pins' = [pins EXCEPT ![a] = g] PROVE pins'[a] # None
  <2>1. g \in Gateway
      BY <1>4 DEF Pins
  <2> QED
      BY <1>4, <2>1, GatewayAssumption DEF TypeOK
<1>5. CASE Pinned(a) = {}
    BY <1>3, <1>5 DEF Pinned
<1>6. CASE Pinned(a) # {}
    BY <1>2, <1>4, <1>6 DEF Pin, Pinned
<1> QED
    BY <1>5, <1>6

LEMMA PinNext == ASSUME TypeOK, PinInv, [Next]_vars PROVE PinInv'
<1>1. CASE Start
    BY <1>1 DEF Start, PinInv, GetGateway, TypeOK
<1>2. CASE Lookup
  <2>1. ASSUME SimpleHost, NEW a \in server, a \notin addrs' PROVE defaults[FamilyOf(a)] = {}
    <3>1. ~Online
        BY <1>2, <2>1 DEF Lookup, SimpleHost
    <3> QED
        BY <1>2, <3>1, Families DEF Online, Lookup, PinInv
  <2> QED
      BY <1>2, <2>1 DEF Lookup, PinInv, SimpleHost
<1>3. ASSUME NEW a \in Addr, Pin(a) PROVE PinInv'
  <2>1. /\ UNCHANGED <<at, server, defaults, gateway, failing>>
        /\ at = "pin" /\ addrs' = addrs \ {a}
        /\ SimpleHost' <=> SimpleHost
      BY <1>3 DEF Pin, SimpleHost
  <2>2. ASSUME NEW b \in Addr, b # a PROVE pins'[b] = pins[b]
      BY <1>3, <2>2 DEF Pin, Pinned, TypeOK
  <2>3. SimpleHost => a \in Local \/ pins'[a] # None \/ defaults[FamilyOf(a)] = {}
      BY <1>3, PinMade
  <2>4. server \subseteq Addr
      BY DEF TypeOK
  <2> QED
      BY <2>1, <2>2, <2>3, <2>4 DEF PinInv
<1>4. CASE Delete
  <2>1. /\ UNCHANGED <<failing, server, pins, gateway, addrs>>
        /\ at = "pin" /\ addrs = {} /\ at' = "set"
        /\ SimpleHost' <=> SimpleHost
      BY <1>4 DEF Delete, SimpleHost
  <2>2. \A f \in Family : defaults[f] = {} => defaults'[f] = {}
      BY <1>4 DEF Delete, Deleted
  <2> QED
      BY <2>1, <2>2, Families DEF PinInv
<1>5. CASE Set
    BY <1>5 DEF Set, PinInv
<1>6. CASE Exit
  <2>1. \A f \in Family : defaults'[f] = defaults[f] \ {Tun}
      BY <1>6 DEF Exit
  <2>2. \A f \in Family : defaults[f] \subseteq Gateway \cup {Tun}
      BY DEF TypeOK
  <2> QED
      BY <1>6, <2>1, <2>2 DEF Exit, PinInv
<1>7. CASE Restored
    BY <1>7 DEF Restored, PinInv
<1>8. CASE UNCHANGED vars
    BY <1>8 DEF vars, PinInv, SimpleHost
<1> QED
    BY <1>1, <1>2, <1>3, <1>4, <1>5, <1>6, <1>7, <1>8 DEF Next

\* A step that changes the routes keeps an address reachable that has a pin, or
\* whose default routes change by nothing but the TUN device's.
LEMMA KeptByRoute ==
    ASSUME TypeOK, NEW a \in Addr, Reachable(a), pins'[a] = pins[a],
           \/ pins[a] # None
           \/ a \in Local
           \/ defaults[FamilyOf(a)] = {}
           \/ defaults'[FamilyOf(a)] \ {Tun} = defaults[FamilyOf(a)] \ {Tun}
              /\ (Tun \in defaults'[FamilyOf(a)] => Tun \in defaults[FamilyOf(a)])
    PROVE  Reachable(a)'
    BY DEF Reachable, RouteTo

LEMMA KeptNext ==
    ASSUME TypeOK, PinInv, SimpleHost, Next, ~Restored
    PROVE  Kept
<1> SUFFICES ASSUME NEW a \in server, Reachable(a) PROVE Reachable(a)'
    BY DEF Kept
<1>a. a \in Addr /\ FamilyOf(a) \in Family
    BY Families DEF TypeOK
<1>1. CASE UNCHANGED <<defaults, pins>>
    BY <1>1 DEF Reachable, RouteTo
<1>2. ASSUME NEW b \in Addr, Pin(b) PROVE Reachable(a)'
  <2>1. CASE pins'[a] = pins[a]
      BY <1>2, <2>1 DEF Pin, Reachable, RouteTo
  <2>2. CASE pins'[a] # pins[a]
    <3>1. b = a
        BY <1>2, <1>a, <2>2 DEF Pin, Pinned, TypeOK
    <3>2. PICK g \in Pins(a) : pins' = [pins EXCEPT ![a] = g]
        BY <1>2, <2>2, <3>1 DEF Pin, Pinned
    <3>3. pins'[a] = g /\ g \in Gateway \cup {Link}
        BY <1>a, <3>2 DEF TypeOK, Pins
    <3>4. g # None /\ g # Tun
        BY <3>3, GatewayAssumption DEF Link, None, Tun
    <3> QED
        BY <3>3, <3>4 DEF Reachable, RouteTo
  <2> QED
      BY <2>1, <2>2
<1>3. CASE Delete
  <2>1. pins[a] # None \/ a \in Local \/ defaults[FamilyOf(a)] = {}
      BY <1>3 DEF Delete, PinInv
  <2> QED
      BY <1>3, <1>a, <2>1, KeptByRoute DEF Delete
<1>4. CASE Set
  <2>1. pins[a] # None \/ a \in Local \/ defaults[FamilyOf(a)] = {}
      BY <1>4 DEF Set, PinInv
  <2> QED
      BY <1>4, <1>a, <2>1, KeptByRoute DEF Set
<1>5. CASE Exit
  <2>1. defaults'[FamilyOf(a)] = defaults[FamilyOf(a)] \ {Tun}
      BY <1>5, <1>a DEF Exit
  <2> QED
      BY <1>5, <1>a, <2>1, KeptByRoute DEF Exit
<1> QED
    BY <1>1, <1>2, <1>3, <1>4, <1>5 DEF Next, Start, Lookup

\* A client's commands, on a host where they work and which has one gateway, keep
\* every address of the server that can be reached so, whenever the process dies.
THEOREM StaysReachableCorrect == Spec => StaysReachable
<1>1. Init => TypeOK /\ PinInv
    BY TypeInit, PinInit
<1>2. TypeOK /\ PinInv /\ [Next]_vars => (TypeOK /\ PinInv)'
    BY TypeNext, PinNext
<1>3. TypeOK /\ PinInv /\ [Next]_vars => [~Restored /\ SimpleHost => Kept]_vars
    BY KeptNext
<1> QED
    BY <1>1, <1>2, <1>3, PTL DEF Spec, StaysReachable

-----------------------------------------------------------------------------
(* All packets go through the tunnel.                                      *)

DefaultsInv ==
    failing \cap {"delete", "set"} = {} =>
        /\ at = "set" => \A f \in Family : defaults[f] = {}
        /\ at = "connect" => \A f \in Family : defaults[f] = {Tun}

LEMMA DefaultsNext == ASSUME DefaultsInv, [Next]_vars PROVE DefaultsInv'
<1>1. CASE Delete
    BY <1>1 DEF Delete, Deleted, DefaultsInv
<1>2. CASE Set
    BY <1>2 DEF Set, DefaultsInv
<1>3. ASSUME NEW a \in Addr, Pin(a) PROVE DefaultsInv'
    BY <1>3 DEF Pin, DefaultsInv
<1>4. CASE UNCHANGED vars
    BY <1>4 DEF vars, DefaultsInv
<1> QED
    BY <1>1, <1>2, <1>3, <1>4 DEF Next, Start, Lookup, Exit, Restored, DefaultsInv

\* Whatever default routes a host had, and lookups and pins that fail, they all
\* lead into the tunnel when the client connects.
THEOREM AllThroughTunCorrect == Spec => []AllThroughTun
<1>1. Init => DefaultsInv
    BY DEF Init, DefaultsInv
<1>2. DefaultsInv => AllThroughTun
    BY DEF DefaultsInv, AllThroughTun
<1> QED
    BY <1>1, <1>2, DefaultsNext, PTL DEF Spec
=============================================================================
