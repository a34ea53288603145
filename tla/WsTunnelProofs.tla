--------------------------- MODULE WsTunnelProofs ---------------------------
(***************************************************************************)
(* Theorems about WsTunnel, for every value of its constants.              *)
(*                                                                         *)
(* What the properties rest on is an invariant in two parts.  KeyInv says  *)
(* what the handshake has established at each point of it.  FlowInv says   *)
(* of the frames on their way from one endpoint that their data frames are *)
(* numbered from the receiver's read_counter on without a gap; a broken    *)
(* connection may lose a suffix of them, never one from the middle.        *)
(***************************************************************************)
EXTENDS WsTunnel, SequenceTheorems, TLAPS

USE DEF EphemeralKey

ConnKey(c) == {Client(c), Server(c)}

\* What still can reach the peer of e, in the order it would.
InFlight(e) == IF Broken(e[2]) THEN wire[e] ELSE wire[e] \o chan[e]

IsData(f) == f.type = "DATA"

\* The data frames of q carry the packets of s under key k, their counters
\* start at lo, go up, and leave none out.
Numbered(q, lo, s, k) ==
    /\ \A i \in 1..Len(q) : IsData(q[i]) =>
          /\ q[i].sealed.key = k
          /\ lo <= q[i].sealed.counter
          /\ q[i].sealed.counter < Len(s)
          /\ q[i].sealed.packet = s[q[i].sealed.counter + 1]
    /\ \A i, j \in 1..Len(q) : i < j /\ IsData(q[i]) /\ IsData(q[j]) =>
          q[i].sealed.counter < q[j].sealed.counter
    /\ \A i \in 1..Len(q) : IsData(q[i]) =>
          \A n \in lo..(q[i].sealed.counter - 1) :
             \E j \in 1..(i - 1) : IsData(q[j]) /\ q[j].sealed.counter = n

\* They go up to hi.
Complete(q, lo, hi) ==
    \A n \in lo..(hi - 1) :
        \E i \in 1..Len(q) : IsData(q[i]) /\ q[i].sealed.counter = n

EndpointInv(e) ==
    /\ key[e] \in {{}, ConnKey(e[2])}
    /\ main[e] \in {"idle", "hello"} => key[e] = {}
    /\ main[e] = "open" => key[e] # {}
    /\ key[e] = {} => tasks[e] = {} /\ chan[e] = <<>>
    /\ main[e] = "idle" => wire[e] = <<>>
    /\ main[e] = "open" /\ "writer" \notin tasks[e] => Broken(e[2])

HandshakeInv(c) ==
    /\ main[Client(c)] = "idle" <=> main[Server(c)] = "idle"
    /\ main[Server(c)] = "hello" =>
          /\ wire[Client(c)] = <<AuthFrame(Client(c), clientPsk)>>
          /\ wire[Server(c)] = <<>>
    /\ main[Client(c)] = "hello" /\ key[Server(c)] = {} => wire[Server(c)] = <<>>
    /\ main[Client(c)] = "hello" /\ key[Server(c)] # {} =>
          \/ /\ wire[Server(c)] # <<>>
             /\ wire[Server(c)][1] = KexFrame(Server(c))
          \/ wire[Server(c)] = <<>> /\ Broken(c)
    /\ key[Server(c)] # {} => clientPsk = ServerPsk
    /\ key[Client(c)] # {} => key[Server(c)] # {}

KeyInv == /\ \A e \in Endpoint : EndpointInv(e)
          /\ \A c \in Conn : HandshakeInv(c)

FlowInv(e) ==
    LET d == Peer(e)
    IN  /\ writeCounter[e] = Len(sent[e])
        /\ readCounter[d] = Len(got[d])
        /\ readCounter[d] <= writeCounter[e]
        /\ \A i \in 1..Len(got[d]) : got[d][i] = sent[e][i]
        /\ Numbered(InFlight(e), readCounter[d], sent[e], ConnKey(e[2]))
        /\ ~Broken(e[2]) => Complete(InFlight(e), readCounter[d], writeCounter[e])

IInv == TypeOK /\ KeyInv /\ \A e \in Endpoint : FlowInv(e)

-----------------------------------------------------------------------------
(* Endpoints and frames.                                                   *)

LEMMA EndpointFacts ==
    /\ \A c \in Conn : /\ Client(c) \in Endpoint /\ Server(c) \in Endpoint
                       /\ Client(c) # Server(c)
                       /\ Client(c)[1] = "client" /\ Server(c)[1] = "server"
                       /\ Client(c)[2] = c /\ Server(c)[2] = c
                       /\ Peer(Client(c)) = Server(c)
                       /\ Peer(Server(c)) = Client(c)
    /\ \A e \in Endpoint : /\ e[1] \in Side
                           /\ e[2] \in Conn
                           /\ Peer(e) \in Endpoint
                           /\ Peer(e) # e
                           /\ Peer(Peer(e)) = e
                           /\ Peer(e)[2] = e[2]
                           /\ e = Client(e[2]) \/ e = Server(e[2])
    /\ \A c, d \in Conn : /\ Client(c) # Server(d)
                          /\ Client(c) = Client(d) => c = d
                          /\ Server(c) = Server(d) => c = d
  BY DEF Endpoint, Side, Client, Server, Peer

LEMMA FrameFacts ==
    /\ \A c \in Conn, h \in Psk : AuthFrame(Client(c), h) \in Frame
    /\ \A c \in Conn : KexFrame(Server(c)) \in Frame
    /\ \A k \in SUBSET Endpoint, n \in Nat, p \in Packet : DataFrame(k, n, p) \in Frame
    /\ KeepaliveFrame \in Frame
    /\ \A f \in Frame : /\ f.type = "AUTH" => f.payload.public \in Endpoint
                        /\ f.type = "KEY_EXCHANGE" => f.public \in Endpoint
                        /\ f.type = "DATA" => f.sealed \in Sealed
  BY EndpointFacts
  DEF AuthFrame, KexFrame, DataFrame, KeepaliveFrame, Frame, Sealed, AuthPayload, Encrypt

\* What the actions do to a queue keeps it one.
LEMMA QueueFacts ==
    ASSUME NEW S
    PROVE  /\ <<>> \in Seq(S)
           /\ \A q \in Seq(S), x \in S : Append(q, x) \in Seq(S)
           /\ \A q \in Seq(S) : q # <<>> => Head(q) \in S /\ Tail(q) \in Seq(S)
  OBVIOUS

-----------------------------------------------------------------------------
(* Types.                                                                  *)

LEMMA TypeInit == Init => TypeOK
  BY PskAssumption DEF Init, TypeOK

LEMMA TypeNext == TypeOK /\ [Next]_vars => TypeOK'
<1> SUFFICES ASSUME TypeOK, [Next]_vars PROVE TypeOK'
  OBVIOUS
<1>q. /\ <<>> \in Seq(Frame)
      /\ \A q \in Seq(Frame), f \in Frame : Append(q, f) \in Seq(Frame)
      /\ \A q \in Seq(Frame) : q # <<>> => Head(q) \in Frame /\ Tail(q) \in Seq(Frame)
      /\ \A q \in Seq(Packet), p \in Packet : Append(q, p) \in Seq(Packet)
  BY QueueFacts
<1>1. ASSUME NEW c \in Conn, Connect(c) PROVE TypeOK'
  <2>1. AuthFrame(Client(c), clientPsk) \in Frame /\ wire[Client(c)] \in Seq(Frame)
    BY FrameFacts, EndpointFacts DEF TypeOK
  <2>2. Append(wire[Client(c)], AuthFrame(Client(c), clientPsk)) \in Seq(Frame)
    BY <1>q, <2>1, Zenon
  <2>3. QED
    BY <1>1, <2>2, Zenon DEF Connect, TypeOK
<1>2. ASSUME NEW c \in Conn, ServerHandshake(c) PROVE TypeOK'
  <2> DEFINE f == Head(wire[Client(c)])
  <2>1. /\ wire[Client(c)] \in Seq(Frame) /\ wire[Server(c)] \in Seq(Frame)
        /\ wire[Client(c)] # <<>>
    BY <1>2, EndpointFacts DEF ServerHandshake, TypeOK
  <2>2. f \in Frame /\ KexFrame(Server(c)) \in Frame
    BY <2>1, <1>q, FrameFacts, Zenon
  <2>3. /\ Tail(wire[Client(c)]) \in Seq(Frame)
        /\ Append(wire[Server(c)], KexFrame(Server(c))) \in Seq(Frame)
    BY <1>q, <2>1, <2>2, Zenon
  <2>4. f.type = "AUTH" => DeriveKey(Server(c), f.payload.public) \in SUBSET Endpoint
    BY <2>2, FrameFacts, EndpointFacts DEF DeriveKey
  <2> DEFINE verified == f.type = "AUTH" /\ VerifyAuth(f.payload, ServerPsk)
             opened == /\ main' = [main EXCEPT ![Server(c)] = "open"]
                       /\ key' = [key EXCEPT ![Server(c)] = DeriveKey(Server(c), f.payload.public)]
                       /\ tasks' = [tasks EXCEPT ![Server(c)] = Task]
                       /\ wire' = [wire EXCEPT
                             ![Client(c)] = Tail(@),
                             ![Server(c)] = IF Broken(c) THEN @ ELSE Append(@, KexFrame(Server(c)))]
             ended == /\ main' = [main EXCEPT ![Server(c)] = "done"]
                      /\ wire' = [wire EXCEPT ![Client(c)] = Tail(@)]
                      /\ UNCHANGED <<key, tasks>>
  <2>u. UNCHANGED <<clientPsk, cut, chan, writeCounter, readCounter, sent, got>>
    BY <1>2 DEF ServerHandshake
  <2>5. CASE verified /\ opened
    <3>1. Server(c) # Client(c)
      BY EndpointFacts
    <3>2. \A e \in Endpoint : wire'[e] \in {wire[e], Tail(wire[Client(c)]),
                                           Append(wire[Server(c)], KexFrame(Server(c)))}
      BY <3>1, <2>5 DEF TypeOK
    <3>3. wire' = [e \in Endpoint |-> wire'[e]]
      BY <2>5 DEF TypeOK
    <3>4. wire' \in [Endpoint -> Seq(Frame)]
      BY <2>3, <3>2, <3>3, Zenon DEF TypeOK
    <3>6. QED
      BY <2>4, <2>5, <2>u, <3>4, Zenon DEF TypeOK
  <2>6. CASE ended
    BY <2>3, <2>6, <2>u, Zenon DEF TypeOK
  <2>7. QED
    BY <1>2, <2>5, <2>6, Zenon DEF ServerHandshake
<1>3. ASSUME NEW c \in Conn, ClientHandshake(c) PROVE TypeOK'
  <2> DEFINE f == Head(wire[Server(c)])
  <2>a. wire[Server(c)] # <<>> /\ Server(c) \in Endpoint
    BY <1>3, EndpointFacts, Zenon DEF ClientHandshake
  <2>1. wire[Server(c)] \in Seq(Frame) /\ wire[Server(c)] # <<>>
    BY <2>a DEF TypeOK
  <2>2. f \in Frame /\ Tail(wire[Server(c)]) \in Seq(Frame)
    BY <2>1, <1>q, Zenon
  <2>3. f.type = "KEY_EXCHANGE" => DeriveKey(Client(c), f.public) \in SUBSET Endpoint
    BY <2>2, FrameFacts, EndpointFacts DEF DeriveKey
  <2>4. QED
    BY <1>3, <2>2, <2>3, ZenonT(60) DEF ClientHandshake, TypeOK
<1>4. ASSUME NEW c \in Conn, NetworkFails(c) PROVE TypeOK'
  BY <1>4 DEF NetworkFails, TypeOK
<1>5. ASSUME NEW e \in Endpoint, HandshakeFails(e) PROVE TypeOK'
  BY <1>5 DEF HandshakeFails, TypeOK
<1>6. ASSUME NEW e \in Endpoint, NEW p \in Packet, ReadTun(e, p) PROVE TypeOK'
  <2>1. /\ DataFrame(key[e], writeCounter[e], p) \in Frame
        /\ chan[e] \in Seq(Frame)
        /\ sent[e] \in Seq(Packet)
        /\ tasks[e] \ {"reader"} \in SUBSET Task
        /\ writeCounter[e] + 1 \in Nat
    BY FrameFacts DEF TypeOK
  <2>2. /\ Append(chan[e], DataFrame(key[e], writeCounter[e], p)) \in Seq(Frame)
        /\ Append(sent[e], p) \in Seq(Packet)
    BY <1>q, <2>1, Zenon
  <2>3. QED
    BY <1>6, <2>1, <2>2, Zenon DEF ReadTun, TypeOK
<1>7. ASSUME NEW e \in Endpoint, TunReadError(e) PROVE TypeOK'
  BY <1>7 DEF TunReadError, TypeOK
<1>8. ASSUME NEW e \in Endpoint, KeepaliveTick(e) PROVE TypeOK'
  <2>1. chan[e] \in Seq(Frame) /\ tasks[e] \ {"keepalive"} \in SUBSET Task
    BY DEF TypeOK
  <2>2. Append(chan[e], KeepaliveFrame) \in Seq(Frame)
    BY <1>q, <2>1, FrameFacts, Zenon
  <2>3. QED
    BY <1>8, <2>1, <2>2, Zenon DEF KeepaliveTick, TypeOK
<1>9. ASSUME NEW e \in Endpoint, WriteFrame(e) PROVE TypeOK'
  <2>1. chan[e] \in Seq(Frame) /\ wire[e] \in Seq(Frame) /\ chan[e] # <<>>
    BY <1>9 DEF WriteFrame, TypeOK
  <2>2. /\ Tail(chan[e]) \in Seq(Frame)
        /\ Append(wire[e], Head(chan[e])) \in Seq(Frame)
    BY <1>q, <2>1, Zenon
  <2>3. QED
    BY <1>9, <2>2, Zenon DEF WriteFrame, TypeOK
<1>10. ASSUME NEW e \in Endpoint, WriteFails(e) PROVE TypeOK'
  BY <1>10, <1>q DEF WriteFails, TypeOK
<1>11. ASSUME NEW e \in Endpoint, NEW t \in Task, StopTask(e, t) PROVE TypeOK'
  BY <1>11, <1>q DEF StopTask, TypeOK
<1>12. ASSUME NEW e \in Endpoint, Receive(e) PROVE TypeOK'
  <2> DEFINE f == Head(wire[Peer(e)])
  <2>a. /\ \A d \in Endpoint : wire[d] \in Seq(Frame) /\ got[d] \in Seq(Packet)
        /\ readCounter[e] \in Nat
    BY DEF TypeOK
  <2>b. wire[Peer(e)] # <<>> /\ Peer(e) \in Endpoint
    BY <1>12, EndpointFacts, Zenon DEF Receive
  <2>1. /\ wire[Peer(e)] \in Seq(Frame) /\ wire[Peer(e)] # <<>>
        /\ got[e] \in Seq(Packet)
        /\ readCounter[e] + 1 \in Nat
    BY <2>a, <2>b
  <2>2. f \in Frame /\ Tail(wire[Peer(e)]) \in Seq(Frame)
    BY <2>1, <1>q, Zenon
  <2>3. f.type = "DATA" => f.sealed.packet \in Packet
    BY <2>2, FrameFacts DEF Sealed
  <2>4. f.type = "DATA" => Append(got[e], f.sealed.packet) \in Seq(Packet)
    BY <1>q, <2>1, <2>3, Zenon
  <2>5. QED
    BY <1>12, <2>1, <2>2, <2>4, ZenonT(60) DEF Receive, Deliver, TypeOK
<1>13. ASSUME NEW e \in Endpoint, MainEnds(e) PROVE TypeOK'
  BY <1>13 DEF MainEnds, TypeOK
<1>14. ASSUME NEW side \in Side, Crash(side) PROVE TypeOK'
  BY <1>14, <1>q DEF Crash, TypeOK
<1>15. CASE UNCHANGED vars
  BY <1>15 DEF vars, TypeOK
<1>16. QED
  BY <1>1, <1>2, <1>3, <1>4, <1>5, <1>6, <1>7, <1>8, <1>9, <1>10, <1>11,
     <1>12, <1>13, <1>14, <1>15 DEF Next

\* Every variable keeps its type.
THEOREM TypeCorrect == Spec => []TypeOK
  BY TypeInit, TypeNext, PTL DEF Spec

-----------------------------------------------------------------------------
(* The handshake.                                                          *)

\* A connection that is broken stays so: no task starts at a finished end.
LEMMA BrokenStable ==
    ASSUME TypeOK, KeyInv, [Next]_vars, NEW c \in Conn, Broken(c)
    PROVE  Broken(c)'
<1> DEFINE Goal == cut \subseteq cut' /\ \A e \in Endpoint : Dropped(e) => Dropped(e)'
<1> SUFFICES Goal
  BY EndpointFacts DEF Broken
<1>1. ASSUME NEW d \in Conn, Connect(d) PROVE Goal
  <2>1. main[Client(d)] = "idle" /\ main[Server(d)] = "idle"
    BY <1>1 DEF Connect, KeyInv, HandshakeInv
  <2>2. \A e \in Endpoint : main[e] = "done" => main'[e] = "done"
    BY <1>1, <2>1 DEF Connect, TypeOK
  <2>3. QED
    BY <1>1, <2>2 DEF Connect, Dropped
<1>2. ASSUME NEW d \in Conn, ServerHandshake(d) PROVE Goal
  <2>1. \A e \in Endpoint : main[e] = "done" => main'[e] = "done" /\ tasks'[e] = tasks[e]
    BY <1>2 DEF ServerHandshake, TypeOK
  <2>2. QED
    BY <1>2, <2>1 DEF ServerHandshake, Dropped
<1>3. ASSUME NEW d \in Conn, ClientHandshake(d) PROVE Goal
  <2>1. \A e \in Endpoint : main[e] = "done" => main'[e] = "done" /\ tasks'[e] = tasks[e]
    BY <1>3 DEF ClientHandshake, TypeOK
  <2>2. QED
    BY <1>3, <2>1 DEF ClientHandshake, Dropped
<1>4. ASSUME NEW d \in Conn, NetworkFails(d) PROVE Goal
  BY <1>4 DEF NetworkFails, TypeOK, Dropped
<1>5. ASSUME NEW d \in Endpoint, HandshakeFails(d) PROVE Goal
  BY <1>5 DEF HandshakeFails, TypeOK, Dropped
<1>6. ASSUME NEW d \in Endpoint, NEW p \in Packet, ReadTun(d, p) PROVE Goal
  BY <1>6 DEF ReadTun, TypeOK, Dropped
<1>7. ASSUME NEW d \in Endpoint, TunReadError(d) PROVE Goal
  BY <1>7 DEF TunReadError, TypeOK, Dropped
<1>8. ASSUME NEW d \in Endpoint, KeepaliveTick(d) PROVE Goal
  BY <1>8 DEF KeepaliveTick, TypeOK, Dropped
<1>9. ASSUME NEW d \in Endpoint, WriteFrame(d) PROVE Goal
  BY <1>9 DEF WriteFrame, TypeOK, Dropped
<1>10. ASSUME NEW d \in Endpoint, WriteFails(d) PROVE Goal
  BY <1>10 DEF WriteFails, TypeOK, Dropped
<1>11. ASSUME NEW d \in Endpoint, NEW t \in Task, StopTask(d, t) PROVE Goal
  BY <1>11 DEF StopTask, TypeOK, Dropped
<1>12. ASSUME NEW d \in Endpoint, Receive(d) PROVE Goal
  BY <1>12 DEF Receive, Deliver, TypeOK, Dropped
<1>13. ASSUME NEW d \in Endpoint, MainEnds(d) PROVE Goal
  BY <1>13 DEF MainEnds, TypeOK, Dropped
<1>14. ASSUME NEW side \in Side, Crash(side) PROVE Goal
  BY <1>14 DEF Crash, TypeOK, Dropped
<1>15. CASE UNCHANGED vars
  BY <1>15 DEF vars, Dropped
<1>16. QED
  BY <1>1, <1>2, <1>3, <1>4, <1>5, <1>6, <1>7, <1>8, <1>9, <1>10, <1>11,
     <1>12, <1>13, <1>14, <1>15 DEF Next

LEMMA KeyInit == Init => KeyInv
  BY EndpointFacts DEF Init, KeyInv, EndpointInv, HandshakeInv

\* What a step that only moves an endpoint towards its end keeps true of it.
LEMMA EndpointKept ==
    ASSUME NEW e \in Endpoint, EndpointInv(e), Broken(e[2]) => Broken(e[2])',
           key'[e] = key[e],
           main'[e] = main[e] \/ (main[e] # "idle" /\ main'[e] = "done"),
           tasks'[e] \subseteq tasks[e],
           main'[e] = "open" /\ "writer" \in tasks[e] /\ "writer" \notin tasks'[e]
               => Broken(e[2]),
           key[e] = {} => chan'[e] = <<>>,
           main[e] = "idle" => wire'[e] = <<>>
    PROVE  EndpointInv(e)'
  BY DEF EndpointInv

LEMMA KeyNext == TypeOK /\ KeyInv /\ [Next]_vars => KeyInv'
<1> SUFFICES ASSUME TypeOK, KeyInv, [Next]_vars PROVE KeyInv'
  OBVIOUS
<1> DEFINE Towards(e) ==
       /\ key'[e] = key[e]
       /\ main'[e] = main[e] \/ (main[e] # "idle" /\ main'[e] = "done")
       /\ tasks'[e] \subseteq tasks[e]
       /\ main'[e] = "open" /\ "writer" \in tasks[e] /\ "writer" \notin tasks'[e]
             => Broken(e[2])
       /\ key[e] = {} => chan'[e] = <<>>
       /\ main[e] = "idle" => wire'[e] = <<>>
<1>e. \A e \in Endpoint : e[2] \in Conn /\ (Broken(e[2]) => Broken(e[2])')
  BY BrokenStable, EndpointFacts
<1>b. \A c \in Conn : Broken(c) => Broken(c)'
  BY BrokenStable
<1>k. /\ \A e \in Endpoint : EndpointInv(e)
      /\ \A c \in Conn : HandshakeInv(c)
  BY DEF KeyInv
<1>t. ASSUME NEW e \in Endpoint, Towards(e) PROVE EndpointInv(e)'
  BY <1>e, <1>k, <1>t, EndpointKept
<1>1. ASSUME NEW d \in Conn, Connect(d) PROVE KeyInv'
  <2>1. /\ main[Client(d)] = "idle" /\ main[Server(d)] = "idle"
        /\ wire[Client(d)] = <<>> /\ wire[Server(d)] = <<>>
        /\ key[Client(d)] = {} /\ key[Server(d)] = {}
    BY <1>1, <1>b, <1>k, EndpointFacts DEF Connect, EndpointInv, HandshakeInv
  <2>2. /\ main' = [main EXCEPT ![Client(d)] = "hello", ![Server(d)] = "hello"]
        /\ UNCHANGED <<clientPsk, key, tasks, chan>>
        /\ wire' = [wire EXCEPT ![Client(d)] = <<AuthFrame(Client(d), clientPsk)>>]
    BY <1>1, <2>1, EndpointFacts DEF Connect, TypeOK
  <2>3. ASSUME NEW e \in Endpoint, e # Client(d), e # Server(d) PROVE EndpointInv(e)'
    BY <1>e, <1>k, <2>2, <2>3 DEF EndpointInv, TypeOK
  <2>4. EndpointInv(Client(d))' /\ EndpointInv(Server(d))'
    BY <1>k, <2>1, <2>2, EndpointFacts DEF EndpointInv, TypeOK
  <2>5. ASSUME NEW c \in Conn, c # d PROVE HandshakeInv(c)'
    <3>1. /\ Client(c) \in Endpoint /\ Server(c) \in Endpoint
          /\ Client(c) # Client(d) /\ Client(c) # Server(d)
          /\ Server(c) # Client(d) /\ Server(c) # Server(d)
      BY <2>5, EndpointFacts
    <3>2. \A e \in {Client(c), Server(c)} :
             main'[e] = main[e] /\ key'[e] = key[e] /\ wire'[e] = wire[e]
      BY <2>2, <3>1 DEF TypeOK
    <3>3. QED
      BY <1>b, <1>k, <3>2, <2>2 DEF HandshakeInv
  <2>6. HandshakeInv(d)'
    BY <1>b, <1>k, <2>1, <2>2, EndpointFacts DEF HandshakeInv, TypeOK
  <2>7. QED
    BY <2>3, <2>4, <2>5, <2>6 DEF KeyInv
<1>2. ASSUME NEW d \in Conn, ServerHandshake(d) PROVE KeyInv'
  <2> DEFINE s == Server(d)
  <2>1. /\ main[s] = "hello" /\ key[s] = {} /\ key[Client(d)] = {}
        /\ main[Client(d)] # "idle" 
        /\ wire[Client(d)] = <<AuthFrame(Client(d), clientPsk)>>
        /\ wire[s] = <<>>
    BY <1>2, <1>b, <1>k, EndpointFacts DEF ServerHandshake, EndpointInv, HandshakeInv
  <2>2. /\ Head(wire[Client(d)]) = AuthFrame(Client(d), clientPsk)
        /\ Tail(wire[Client(d)]) = <<>>
        /\ Append(wire[s], KexFrame(s)) = <<KexFrame(s)>>
    BY <2>1
  <2> DEFINE Refused == /\ main' = [main EXCEPT ![s] = "done"]
                        /\ wire' = [wire EXCEPT ![Client(d)] = <<>>]
                        /\ UNCHANGED <<clientPsk, key, tasks, chan>>
             Accepted == /\ main' = [main EXCEPT ![s] = "open"]
                         /\ wire' = [wire EXCEPT
                               ![Client(d)] = <<>>,
                               ![s] = IF Broken(d) THEN <<>> ELSE <<KexFrame(s)>>]
                         /\ tasks' = [tasks EXCEPT ![s] = Task]
                         /\ key' = [key EXCEPT ![s] = {s, Client(d)}]
                         /\ UNCHANGED <<clientPsk, chan>>
                         /\ clientPsk = ServerPsk
  <2>3. Refused \/ Accepted
    <3> DEFINE f == Head(wire[Client(d)])
               Accepts == f.type = "AUTH" /\ VerifyAuth(f.payload, ServerPsk)
               Opened == /\ main' = [main EXCEPT ![s] = "open"]
                         /\ key' = [key EXCEPT ![s] = DeriveKey(s, f.payload.public)]
                         /\ tasks' = [tasks EXCEPT ![s] = Task]
                         /\ wire' = [wire EXCEPT
                               ![Client(d)] = Tail(@),
                               ![s] = IF Broken(d) THEN @ ELSE Append(@, KexFrame(s))]
               Ends == /\ main' = [main EXCEPT ![s] = "done"]
                       /\ wire' = [wire EXCEPT ![Client(d)] = Tail(@)]
                       /\ UNCHANGED <<key, tasks>>
    <3>u. UNCHANGED <<clientPsk, chan>>
      BY <1>2 DEF ServerHandshake
    <3>1. CASE Accepts /\ Opened
      <4>1. /\ AuthFrame(Client(d), clientPsk).payload.public = Client(d)
            /\ AuthFrame(Client(d), clientPsk).payload.tag = <<clientPsk, Client(d)>>
        BY DEF AuthFrame, AuthPayload
      <4>2. clientPsk = ServerPsk
        BY <2>2, <3>1, <4>1 DEF VerifyAuth
      <4>4. wire' = [wire EXCEPT ![Client(d)] = <<>>,
                                 ![s] = IF Broken(d) THEN <<>> ELSE <<KexFrame(s)>>]
        BY <2>1, <2>2, <3>1, EndpointFacts DEF TypeOK
      <4>5. QED
        BY <2>2, <3>u, <3>1, <4>1, <4>2, <4>4 DEF DeriveKey
    <3>2. CASE Ends
      BY <2>2, <3>u, <3>2
    <3>3. QED
      BY <1>2, <3>1, <3>2, Zenon DEF ServerHandshake
  <2>4. ASSUME NEW c \in Conn, c # d PROVE HandshakeInv(c)'
    <3>1. /\ Client(c) \in Endpoint /\ Server(c) \in Endpoint
          /\ Client(c) # Client(d) /\ Client(c) # s
          /\ Server(c) # Client(d) /\ Server(c) # s
      BY <2>4, EndpointFacts
    <3>2. \A e \in {Client(c), Server(c)} :
             main'[e] = main[e] /\ key'[e] = key[e] /\ wire'[e] = wire[e]
      BY <2>3, <3>1, SMTT(60) DEF TypeOK
    <3>3. QED
      BY <1>b, <1>k, <2>3, <3>2 DEF HandshakeInv
  <2>5. CASE Refused
    <3>1. ASSUME NEW e \in Endpoint PROVE Towards(e)
      BY <1>k, <2>1, <2>5 DEF EndpointInv, TypeOK
    <3>2. HandshakeInv(d)'
      BY <1>b, <1>k, <2>1, <2>5, EndpointFacts DEF HandshakeInv, TypeOK
    <3>3. QED
      BY <1>t, <2>4, <3>1, <3>2 DEF KeyInv
  <2>6. CASE Accepted
    <3>1. ASSUME NEW e \in Endpoint, e # s PROVE EndpointInv(e)'
      BY <1>e, <1>k, <2>1, <2>6, <3>1 DEF EndpointInv, TypeOK
    <3>2. EndpointInv(s)'
      <4>1. s \in Endpoint /\ s # Client(d) /\ s[2] = d
        BY EndpointFacts
      <4>2. main'[s] = "open" /\ key'[s] = {s, Client(d)} /\ tasks'[s] = Task
        BY <2>6, <4>1 DEF TypeOK
      <4>3. QED
        BY <4>1, <4>2 DEF EndpointInv, ConnKey, Task
    <3>3. HandshakeInv(d)'
      BY <1>b, <1>k, <2>1, <2>6, EndpointFacts DEF HandshakeInv, TypeOK
    <3>4. QED
      BY <2>4, <3>1, <3>2, <3>3 DEF KeyInv
  <2>7. QED
    BY <2>3, <2>5, <2>6
<1>3. ASSUME NEW d \in Conn, ClientHandshake(d) PROVE KeyInv'
  <2> DEFINE e1 == Client(d)
  <2>1. /\ main[e1] = "hello" /\ key[e1] = {} /\ key[Server(d)] # {}
        /\ main[Server(d)] \notin {"idle", "hello"}
        /\ Head(wire[Server(d)]) = KexFrame(Server(d))
    BY <1>3, <1>b, <1>k, EndpointFacts DEF ClientHandshake, EndpointInv, HandshakeInv
  <2>2. /\ main' = [main EXCEPT ![e1] = "open"]
        /\ key' = [key EXCEPT ![e1] = {e1, Server(d)}]
        /\ tasks' = [tasks EXCEPT ![e1] = Task]
        /\ wire' = [wire EXCEPT ![Server(d)] = Tail(@)]
        /\ UNCHANGED <<clientPsk, chan>>
    BY <1>3, <2>1 DEF ClientHandshake, DeriveKey, KexFrame
  <2>3. ASSUME NEW e \in Endpoint, e # e1 PROVE EndpointInv(e)'
    BY <1>e, <1>k, <2>1, <2>2, <2>3 DEF EndpointInv, TypeOK
  <2>4. EndpointInv(e1)'
    BY <1>k, <2>1, <2>2, EndpointFacts DEF EndpointInv, ConnKey, Task, TypeOK
  <2>5. ASSUME NEW c \in Conn, c # d PROVE HandshakeInv(c)'
    <3>1. /\ Client(c) \in Endpoint /\ Server(c) \in Endpoint
          /\ Client(c) # Client(d) /\ Client(c) # Server(d)
          /\ Server(c) # Client(d) /\ Server(c) # Server(d)
      BY <2>5, EndpointFacts
    <3>2. \A e \in {Client(c), Server(c)} :
             main'[e] = main[e] /\ key'[e] = key[e] /\ wire'[e] = wire[e]
      BY <2>2, <3>1 DEF TypeOK
    <3>3. QED
      BY <1>b, <1>k, <3>2, <2>2 DEF HandshakeInv
  <2>6. HandshakeInv(d)'
    BY <1>b, <1>k, <2>1, <2>2, EndpointFacts DEF HandshakeInv, TypeOK
  <2>7. QED
    BY <2>3, <2>4, <2>5, <2>6 DEF KeyInv
<1>4. ASSUME NEW d \in Conn, NetworkFails(d) PROVE KeyInv'
  <2>1. ASSUME NEW e \in Endpoint PROVE Towards(e)
    BY <1>4, <1>k DEF NetworkFails, EndpointInv, TypeOK
  <2>2. ASSUME NEW c \in Conn PROVE HandshakeInv(c)'
    BY <1>4, <1>b, <1>k, EndpointFacts DEF NetworkFails, EndpointInv, HandshakeInv, TypeOK
  <2>3. QED
    BY <1>t, <2>1, <2>2 DEF KeyInv
<1>5. ASSUME NEW d \in Endpoint, HandshakeFails(d) PROVE KeyInv'
  <2>1. ASSUME NEW e \in Endpoint PROVE Towards(e)
    BY <1>5, <1>k DEF HandshakeFails, EndpointInv, TypeOK
  <2>2. ASSUME NEW c \in Conn PROVE HandshakeInv(c)'
    BY <1>5, <1>b, <1>k, EndpointFacts DEF HandshakeFails, EndpointInv, HandshakeInv, TypeOK
  <2>3. QED
    BY <1>t, <2>1, <2>2 DEF KeyInv
<1>6. ASSUME NEW d \in Endpoint, NEW p \in Packet, ReadTun(d, p) PROVE KeyInv'
  <2>1. ASSUME NEW e \in Endpoint PROVE Towards(e)
    <3>1. key[d] # {}
      BY <1>6, <1>k DEF ReadTun, EndpointInv
    <3>2. /\ UNCHANGED <<main, key, wire>>
          /\ tasks' \in {tasks, [tasks EXCEPT ![d] = @ \ {"reader"}]}
          /\ \A x \in Endpoint : x # d => chan'[x] = chan[x]
      BY <1>6 DEF ReadTun, TypeOK
    <3>3. tasks'[e] \subseteq tasks[e] /\ ("writer" \in tasks[e] => "writer" \in tasks'[e])
      BY <3>2 DEF TypeOK
    <3>4. QED
      BY <1>k, <3>1, <3>2, <3>3 DEF EndpointInv
  <2>2. ASSUME NEW c \in Conn PROVE HandshakeInv(c)'
    BY <1>6, <1>b, <1>k, EndpointFacts DEF ReadTun, EndpointInv, HandshakeInv, TypeOK
  <2>3. QED
    BY <1>t, <2>1, <2>2 DEF KeyInv
<1>7. ASSUME NEW d \in Endpoint, TunReadError(d) PROVE KeyInv'
  <2>1. ASSUME NEW e \in Endpoint PROVE Towards(e)
    BY <1>7, <1>k DEF TunReadError, EndpointInv, TypeOK
  <2>2. ASSUME NEW c \in Conn PROVE HandshakeInv(c)'
    BY <1>7, <1>b, <1>k, EndpointFacts DEF TunReadError, EndpointInv, HandshakeInv, TypeOK
  <2>3. QED
    BY <1>t, <2>1, <2>2 DEF KeyInv
<1>8. ASSUME NEW d \in Endpoint, KeepaliveTick(d) PROVE KeyInv'
  <2>1. ASSUME NEW e \in Endpoint PROVE Towards(e)
    <3>1. key[d] # {}
      BY <1>8, <1>k DEF KeepaliveTick, EndpointInv
    <3>2. /\ UNCHANGED <<main, key, wire>>
          /\ tasks' \in {tasks, [tasks EXCEPT ![d] = @ \ {"keepalive"}]}
          /\ \A x \in Endpoint : x # d => chan'[x] = chan[x]
      BY <1>8 DEF KeepaliveTick, TypeOK
    <3>3. tasks'[e] \subseteq tasks[e] /\ ("writer" \in tasks[e] => "writer" \in tasks'[e])
      BY <3>2 DEF TypeOK
    <3>4. QED
      BY <1>k, <3>1, <3>2, <3>3 DEF EndpointInv
  <2>2. ASSUME NEW c \in Conn PROVE HandshakeInv(c)'
    BY <1>8, <1>b, <1>k, EndpointFacts DEF KeepaliveTick, EndpointInv, HandshakeInv, TypeOK
  <2>3. QED
    BY <1>t, <2>1, <2>2 DEF KeyInv
<1>9. ASSUME NEW d \in Endpoint, WriteFrame(d) PROVE KeyInv'
  <2>1. ASSUME NEW e \in Endpoint PROVE Towards(e)
    BY <1>9, <1>k DEF WriteFrame, EndpointInv, TypeOK
  <2>2. key[d] # {} /\ main[d] \notin {"idle", "hello"}
    BY <1>9, <1>k DEF WriteFrame, EndpointInv
  <2>3. /\ UNCHANGED <<clientPsk, main, key>>
        /\ \A e \in Endpoint : wire'[e] # wire[e] =>
              /\ e = d /\ wire'[e] # <<>> /\ ~Broken(d[2])
              /\ wire[e] # <<>> => wire'[e][1] = wire[e][1]
    <3>1. wire[d] \in Seq(Frame) /\ Head(chan[d]) \in Frame
      BY <1>9, QueueFacts DEF WriteFrame, TypeOK
    <3> DEFINE w == Append(wire[d], Head(chan[d]))
    <3>2. w # <<>> /\ (wire[d] # <<>> => w[1] = wire[d][1])
      BY <3>1, AppendProperties
    <3>3. /\ UNCHANGED <<clientPsk, main, key>>
          /\ \/ wire' = wire
             \/ ~Broken(d[2]) /\ wire' = [wire EXCEPT ![d] = w]
      BY <1>9 DEF WriteFrame
    <3>4. QED
      BY <3>2, <3>3 DEF TypeOK
  <2>4. ASSUME NEW c \in Conn PROVE HandshakeInv(c)'
    <3>1. /\ Client(c) \in Endpoint /\ Server(c) \in Endpoint
          /\ key[Client(c)] # {} => main[Server(c)] # "hello"
          /\ Server(c)[2] = c /\ Client(c)[2] = c
      BY <1>k, EndpointFacts DEF EndpointInv, HandshakeInv
    <3>2. QED
      BY <1>b, <1>k, <2>2, <2>3, <3>1 DEF HandshakeInv
  <2>5. QED
    BY <1>t, <2>1, <2>4 DEF KeyInv
<1>10. ASSUME NEW d \in Endpoint, WriteFails(d) PROVE KeyInv'
  <2>1. ASSUME NEW e \in Endpoint PROVE Towards(e)
    BY <1>10, <1>k DEF WriteFails, EndpointInv, TypeOK
  <2>2. ASSUME NEW c \in Conn PROVE HandshakeInv(c)'
    BY <1>10, <1>b, <1>k, EndpointFacts DEF WriteFails, EndpointInv, HandshakeInv, TypeOK
  <2>3. QED
    BY <1>t, <2>1, <2>2 DEF KeyInv
<1>11. ASSUME NEW d \in Endpoint, NEW t \in Task, StopTask(d, t) PROVE KeyInv'
  <2>1. ASSUME NEW e \in Endpoint PROVE Towards(e)
    BY <1>11, <1>k DEF StopTask, EndpointInv, TypeOK
  <2>2. ASSUME NEW c \in Conn PROVE HandshakeInv(c)'
    BY <1>11, <1>b, <1>k, EndpointFacts DEF StopTask, EndpointInv, HandshakeInv, TypeOK
  <2>3. QED
    BY <1>t, <2>1, <2>2 DEF KeyInv
<1>12. ASSUME NEW d \in Endpoint, Receive(d) PROVE KeyInv'
  <2>1. ASSUME NEW e \in Endpoint PROVE Towards(e)
    <3>1. e = Peer(d) => main[e] # "idle"
      BY <1>12, <1>b, <1>k, EndpointFacts DEF Receive, Deliver, HandshakeInv
    <3>2. QED
      BY <1>12, <1>k, <3>1 DEF Receive, Deliver, EndpointInv, TypeOK
  <2>2. key[d] # {} /\ main[d] = "open"
    BY <1>12, <1>k DEF Receive, Deliver, EndpointInv
  <2>3. /\ UNCHANGED <<clientPsk, main, key>>
        /\ \A e \in Endpoint : wire'[e] # wire[e] => e = Peer(d)
    BY <1>12 DEF Receive, Deliver, TypeOK
  <2>4. ASSUME NEW c \in Conn PROVE HandshakeInv(c)'
    <3>1. /\ Client(c) \in Endpoint /\ Server(c) \in Endpoint
          /\ Client(c) = Peer(d) => d = Server(c)
          /\ Server(c) = Peer(d) => d = Client(c)
          /\ key[Client(c)] # {} => main[Server(c)] # "hello"
      BY <1>b, <1>k, EndpointFacts DEF EndpointInv, HandshakeInv
    <3>2. QED
      BY <1>b, <1>k, <2>2, <2>3, <3>1 DEF HandshakeInv
  <2>5. QED
    BY <1>t, <2>1, <2>4 DEF KeyInv
<1>13. ASSUME NEW d \in Endpoint, MainEnds(d) PROVE KeyInv'
  <2>1. ASSUME NEW e \in Endpoint PROVE Towards(e)
    BY <1>13, <1>k DEF MainEnds, EndpointInv, TypeOK
  <2>2. ASSUME NEW c \in Conn PROVE HandshakeInv(c)'
    BY <1>13, <1>b, <1>k, EndpointFacts DEF MainEnds, EndpointInv, HandshakeInv, TypeOK
  <2>3. QED
    BY <1>t, <2>1, <2>2 DEF KeyInv
<1>14. ASSUME NEW side \in Side, Crash(side) PROVE KeyInv'
  <2>1. ASSUME NEW e \in Endpoint PROVE Towards(e)
    BY <1>14, <1>k DEF Crash, EndpointInv, TypeOK
  <2>2. ASSUME NEW c \in Conn PROVE HandshakeInv(c)'
    BY <1>14, <1>b, <1>k, EndpointFacts, ZenonT(60) DEF Crash, EndpointInv, HandshakeInv, TypeOK
  <2>3. QED
    BY <1>t, <2>1, <2>2 DEF KeyInv
<1>15. CASE UNCHANGED vars
  BY <1>15, <1>k DEF vars, KeyInv, EndpointInv, HandshakeInv, Broken, Dropped
<1>16. QED
  BY <1>1, <1>2, <1>3, <1>4, <1>5, <1>6, <1>7, <1>8, <1>9, <1>10, <1>11,
     <1>12, <1>13, <1>14, <1>15 DEF Next

\* From the first exchange of keys to the last, whatever restarts in between,
\* each connection's key is its own and its two ends agree on it.
THEOREM KeysAgreeCorrect == Spec => []KeysAgree
<1>1. TypeOK /\ KeyInv => KeysAgree
  <2> SUFFICES ASSUME KeyInv, NEW e \in Endpoint, NEW d \in Endpoint,
                      key[e] # {}, key[d] # {}
               PROVE  key[e] = key[d] <=> d \in {e, Peer(e)}
    BY DEF KeysAgree
  <2>1. key[e] = ConnKey(e[2]) /\ key[d] = ConnKey(d[2])
    BY DEF KeyInv, EndpointInv
  <2>2. ConnKey(e[2]) = ConnKey(d[2]) <=> e[2] = d[2]
    BY EndpointFacts DEF ConnKey
  <2>3. e[2] = d[2] <=> d \in {e, Peer(e)}
    BY EndpointFacts
  <2>4. QED
    BY <2>1, <2>2, <2>3
<1>2. QED
  BY <1>1, TypeInit, KeyInit, TypeNext, KeyNext, PTL DEF Spec

-----------------------------------------------------------------------------
(* Queues of numbered data frames.                                         *)

LEMMA DataCounters ==
    ASSUME NEW q \in Seq(Frame), NEW i \in 1..Len(q), IsData(q[i])
    PROVE  q[i].sealed.counter \in Nat
<1>1. q[i] \in Frame
  OBVIOUS
<1>2. QED
  BY <1>1, FrameFacts DEF IsData, Sealed

LEMMA EmptyNumbered ==
    ASSUME NEW lo \in Nat, NEW s, NEW k
    PROVE  Numbered(<<>>, lo, s, k) /\ Complete(<<>>, lo, lo)
  BY DEF Numbered, Complete

\* A frame that carries no packet may join the queue.
LEMMA PushOther ==
    ASSUME NEW q \in Seq(Frame), NEW lo \in Nat, NEW s \in Seq(Packet), NEW k,
           NEW f \in Frame, ~IsData(f), Numbered(q, lo, s, k)
    PROVE  /\ Numbered(Append(q, f), lo, s, k)
           /\ \A hi \in Nat : Complete(q, lo, hi) => Complete(Append(q, f), lo, hi)
<1> DEFINE r == Append(q, f)
<1>1. /\ r \in Seq(Frame) /\ Len(r) = Len(q) + 1 /\ r[Len(q) + 1] = f
      /\ \A i \in 1..Len(q) : r[i] = q[i]
      /\ Len(q) \in Nat
  BY AppendProperties
<1> HIDE DEF r
<1>2. \A i \in 1..Len(r) : IsData(r[i]) => i \in 1..Len(q) /\ r[i] = q[i]
  BY <1>1
<1>3. Numbered(r, lo, s, k)
  <2>1. ASSUME NEW i \in 1..Len(r), IsData(r[i]), NEW n \in lo..(r[i].sealed.counter - 1)
        PROVE  \E j \in 1..(i - 1) : IsData(r[j]) /\ r[j].sealed.counter = n
    <3>1. PICK j \in 1..(i - 1) : IsData(q[j]) /\ q[j].sealed.counter = n
      BY <1>2, <2>1 DEF Numbered
    <3>2. j \in 1..Len(q)
      BY <1>1, <1>2, <2>1
    <3>3. QED
      BY <1>1, <3>1, <3>2
  <2>2. QED
    BY <1>2, <2>1 DEF Numbered
<1>4. ASSUME NEW hi \in Nat PROVE Complete(q, lo, hi) => Complete(r, lo, hi)
  <2>1. \A i \in 1..Len(q) : i \in 1..Len(r) /\ r[i] = q[i]
    BY <1>1
  <2>2. QED
    BY <2>1 DEF Complete
<1>5. QED
  BY <1>3, <1>4 DEF r

\* The packets it refers to may be followed by more.
LEMMA GrowSent ==
    ASSUME NEW q \in Seq(Frame), NEW lo \in Nat, NEW s \in Seq(Packet), NEW k,
           NEW p \in Packet, Numbered(q, lo, s, k)
    PROVE  Numbered(q, lo, Append(s, p), k)
<1>1. /\ Len(Append(s, p)) = Len(s) + 1 /\ Len(s) \in Nat
      /\ \A i \in 1..Len(s) : Append(s, p)[i] = s[i]
  BY AppendProperties
<1>2. \A i \in 1..Len(q) : IsData(q[i]) =>
         /\ q[i].sealed.counter < Len(s)
         /\ q[i].sealed.counter + 1 \in 1..Len(s)
  BY <1>1, DataCounters DEF Numbered
<1>3. QED
  BY <1>1, <1>2, DataCounters DEF Numbered

\* The next packet, sealed under the next counter, joins a complete queue.
LEMMA PushData ==
    ASSUME NEW q \in Seq(Frame), NEW lo \in Nat, NEW s \in Seq(Packet),
           NEW k \in SUBSET Endpoint, NEW p \in Packet, lo <= Len(s),
           Numbered(q, lo, s, k), Complete(q, lo, Len(s))
    PROVE  /\ Numbered(Append(q, DataFrame(k, Len(s), p)), lo, Append(s, p), k)
           /\ Complete(Append(q, DataFrame(k, Len(s), p)), lo, Len(s) + 1)
<1> DEFINE f == DataFrame(k, Len(s), p)
           r == Append(q, f)
           t == Append(s, p)
<1>1. /\ f \in Frame /\ IsData(f) /\ Len(s) \in Nat
      /\ f.sealed.key = k /\ f.sealed.counter = Len(s) /\ f.sealed.packet = p
  BY FrameFacts DEF DataFrame, IsData, Encrypt
<1> HIDE DEF f
<1>2. /\ r \in Seq(Frame) /\ Len(r) = Len(q) + 1 /\ r[Len(q) + 1] = f
      /\ \A i \in 1..Len(q) : r[i] = q[i]
      /\ Len(q) \in Nat
  BY <1>1, AppendProperties
<1>3. Len(t) = Len(s) + 1 /\ t[Len(s) + 1] = p
  BY AppendProperties
<1>4. Numbered(q, lo, t, k)
  BY GrowSent
<1>5. \A i \in 1..Len(q) : IsData(q[i]) =>
         q[i].sealed.counter \in Nat /\ q[i].sealed.counter < Len(s)
  BY DataCounters DEF Numbered
<1> HIDE DEF r, t
<1>6. ASSUME NEW i \in 1..Len(r), IsData(r[i])
      PROVE  /\ r[i].sealed.key = k
             /\ lo <= r[i].sealed.counter
             /\ r[i].sealed.counter < Len(t)
             /\ r[i].sealed.packet = t[r[i].sealed.counter + 1]
             /\ \A n \in lo..(r[i].sealed.counter - 1) :
                   \E j \in 1..(i - 1) : IsData(r[j]) /\ r[j].sealed.counter = n
  <2>1. CASE i = Len(q) + 1
    <3>1. /\ r[i].sealed.key = k /\ lo <= r[i].sealed.counter
          /\ r[i].sealed.counter < Len(t)
          /\ r[i].sealed.packet = t[r[i].sealed.counter + 1]
      BY <1>1, <1>2, <1>3, <2>1
    <3>2. ASSUME NEW n \in lo..(Len(s) - 1)
          PROVE  \E j \in 1..Len(q) : IsData(r[j]) /\ r[j].sealed.counter = n
      BY <1>2, <3>2 DEF Complete
    <3>3. r[i].sealed.counter = Len(s) /\ i - 1 = Len(q)
      BY <1>1, <1>2, <2>1
    <3>4. QED
      BY <3>1, <3>2, <3>3
  <2>2. CASE i \in 1..Len(q)
    BY <1>2, <1>4, <1>6, <2>2, SMTT(60) DEF Numbered
  <2>3. QED
    BY <1>2, <2>1, <2>2
<1>7. ASSUME NEW i \in 1..Len(r), NEW j \in 1..Len(r), i < j, IsData(r[i]), IsData(r[j])
      PROVE  r[i].sealed.counter < r[j].sealed.counter
  <2>1. i \in 1..Len(q)
    BY <1>2, <1>7
  <2>2. CASE j = Len(q) + 1
    BY <1>1, <1>2, <1>5, <1>7, <2>1, <2>2
  <2>3. CASE j \in 1..Len(q)
    BY <1>2, <1>4, <1>7, <2>1, <2>3 DEF Numbered
  <2>4. QED
    BY <1>2, <2>2, <2>3
<1>8. Complete(r, lo, Len(s) + 1)
  <2>1. ASSUME NEW n \in lo..Len(s)
        PROVE  \E i \in 1..Len(r) : IsData(r[i]) /\ r[i].sealed.counter = n
    <3>1. CASE n = Len(s)
      BY <1>1, <1>2, <3>1
    <3>2. CASE n \in lo..(Len(s) - 1)
      BY <1>2, <3>2 DEF Complete
    <3>3. QED
      BY <1>1, <3>1, <3>2
  <2>2. QED
    BY <1>1, <2>1 DEF Complete
<1>9. QED
  BY <1>6, <1>7, <1>8 DEF Numbered, f, r, t

\* The end of the queue may be lost.
LEMMA CutShort ==
    ASSUME NEW w \in Seq(Frame), NEW c \in Seq(Frame), NEW lo \in Nat, NEW s, NEW k,
           Numbered(w \o c, lo, s, k)
    PROVE  Numbered(w, lo, s, k)
<1>1. /\ Len(w \o c) = Len(w) + Len(c) /\ Len(w) \in Nat /\ Len(c) \in Nat
      /\ \A i \in 1..Len(w) : (w \o c)[i] = w[i]
  OBVIOUS
<1>2. ASSUME NEW i \in 1..Len(w), IsData(w[i]), NEW n \in lo..(w[i].sealed.counter - 1)
      PROVE  \E j \in 1..(i - 1) : IsData(w[j]) /\ w[j].sealed.counter = n
  <2>1. i \in 1..Len(w \o c) /\ (w \o c)[i] = w[i]
    BY <1>1
  <2>2. PICK j \in 1..(i - 1) : IsData((w \o c)[j]) /\ (w \o c)[j].sealed.counter = n
    BY <1>2, <2>1 DEF Numbered
  <2>3. j \in 1..Len(w)
    BY <1>1
  <2>4. QED
    BY <1>1, <2>2, <2>3
<1>3. QED
  <2>1. \A i \in 1..Len(w) : i \in 1..Len(w \o c) /\ (w \o c)[i] = w[i]
    BY <1>1
  <2>2. /\ \A i \in 1..Len(w) : IsData(w[i]) =>
              /\ w[i].sealed.key = k
              /\ lo <= w[i].sealed.counter
              /\ w[i].sealed.counter < Len(s)
              /\ w[i].sealed.packet = s[w[i].sealed.counter + 1]
        /\ \A i, j \in 1..Len(w) : i < j /\ IsData(w[i]) /\ IsData(w[j]) =>
              w[i].sealed.counter < w[j].sealed.counter
    BY <2>1, Zenon DEF Numbered
  <2>3. QED
    BY <1>2, <2>2 DEF Numbered

\* A data frame at the head is the next one; one that is not carries nothing.
LEMMA Pop ==
    ASSUME NEW q \in Seq(Frame), q # <<>>, NEW lo \in Nat,
           NEW s \in Seq(Packet), NEW k, Numbered(q, lo, s, k)
    PROVE  /\ IsData(Head(q)) =>
                 /\ Head(q).sealed.key = k
                 /\ Head(q).sealed.counter = lo
                 /\ lo < Len(s)
                 /\ Head(q).sealed.packet = s[lo + 1]
                 /\ Numbered(Tail(q), lo + 1, s, k)
                 /\ \A hi \in Nat :
                       Complete(q, lo, hi) => Complete(Tail(q), lo + 1, hi)
           /\ ~IsData(Head(q)) =>
                 /\ Numbered(Tail(q), lo, s, k)
                 /\ \A hi \in Nat : Complete(q, lo, hi) => Complete(Tail(q), lo, hi)
<1> DEFINE r == Tail(q)
<1>1. /\ r \in Seq(Frame) /\ Len(q) \in Nat /\ Len(r) = Len(q) - 1
      /\ 1 \in 1..Len(q) /\ Head(q) = q[1]
      /\ \A i \in 1..Len(r) : i + 1 \in 1..Len(q) /\ r[i] = q[i + 1]
      /\ \A i \in 1..Len(q) : i # 1 => i - 1 \in 1..Len(r) /\ q[i] = r[i - 1]
  BY HeadTailProperties, EmptySeq, LenProperties
<1> HIDE DEF r
<1>2. \A i \in 1..Len(q) : IsData(q[i]) =>
         /\ q[i].sealed.counter \in Nat
         /\ q[i].sealed.key = k
         /\ lo <= q[i].sealed.counter
         /\ q[i].sealed.counter < Len(s)
         /\ q[i].sealed.packet = s[q[i].sealed.counter + 1]
  BY DataCounters DEF Numbered
<1>3. \A i, j \in 1..Len(q) : i < j /\ IsData(q[i]) /\ IsData(q[j]) =>
         q[i].sealed.counter < q[j].sealed.counter
  BY DEF Numbered
<1>4. ASSUME NEW i \in 1..Len(r), NEW j \in 1..Len(r), i < j, IsData(r[i]), IsData(r[j])
      PROVE  r[i].sealed.counter < r[j].sealed.counter
  <2>1. i + 1 \in 1..Len(q) /\ j + 1 \in 1..Len(q) /\ i + 1 < j + 1
    BY <1>1, <1>4
  <2>2. QED
    BY <1>1, <1>3, <1>4, <2>1
<1>5. ASSUME NEW i \in 1..Len(r), IsData(r[i]), NEW n \in lo..(r[i].sealed.counter - 1)
      PROVE  \/ IsData(q[1]) /\ q[1].sealed.counter = n
             \/ \E j \in 1..(i - 1) : IsData(r[j]) /\ r[j].sealed.counter = n
  <2>1. PICK j \in 1..i : IsData(q[j]) /\ q[j].sealed.counter = n
    BY <1>1, <1>5 DEF Numbered
  <2>2. CASE j = 1
    BY <2>1, <2>2
  <2>3. CASE j # 1
    <3>1. j - 1 \in 1..(i - 1) /\ r[j - 1] = q[j]
      BY <1>1, <2>1, <2>3
    <3>2. QED
      BY <2>1, <3>1
  <2>4. QED
    BY <2>2, <2>3
<1>6. ASSUME NEW hi \in Nat, NEW n \in lo..(hi - 1), Complete(q, lo, hi)
      PROVE  \/ IsData(q[1]) /\ q[1].sealed.counter = n
             \/ \E j \in 1..Len(r) : IsData(r[j]) /\ r[j].sealed.counter = n
  <2>1. PICK j \in 1..Len(q) : IsData(q[j]) /\ q[j].sealed.counter = n
    BY <1>6 DEF Complete
  <2>2. j = 1 \/ (j - 1 \in 1..Len(r) /\ r[j - 1] = q[j])
    BY <1>1
  <2>3. QED
    BY <2>1, <2>2
<1>7. CASE IsData(q[1])
  <2>1. q[1].sealed.counter = lo
    <3>1. \A n \in lo..(q[1].sealed.counter - 1) : FALSE
      BY <1>1, <1>7 DEF Numbered
    <3>2. QED
      BY <1>1, <1>2, <1>7, <3>1
  <2>2. \A i \in 1..Len(r) : IsData(r[i]) => lo + 1 <= r[i].sealed.counter
    BY <1>1, <1>2, <1>3, <1>7, <2>1
  <2>3. ASSUME NEW i \in 1..Len(r), IsData(r[i]),
               NEW n \in (lo + 1)..(r[i].sealed.counter - 1)
        PROVE  \E j \in 1..(i - 1) : IsData(r[j]) /\ r[j].sealed.counter = n
    <3>1. n \in lo..(r[i].sealed.counter - 1) /\ n # lo
      BY <1>1, <1>2, <2>3
    <3>2. QED
      BY <1>5, <2>1, <2>3, <3>1
  <2>4. Numbered(r, lo + 1, s, k)
    BY <1>1, <1>2, <1>4, <2>2, <2>3 DEF Numbered
  <2>5. ASSUME NEW hi \in Nat, Complete(q, lo, hi) PROVE Complete(r, lo + 1, hi)
    <3>1. ASSUME NEW n \in (lo + 1)..(hi - 1)
          PROVE  \E j \in 1..Len(r) : IsData(r[j]) /\ r[j].sealed.counter = n
      <4>1. n \in lo..(hi - 1) /\ n # lo
        OBVIOUS
      <4>2. QED
        BY <1>6, <2>1, <2>5, <4>1
    <3>2. QED
      BY <3>1 DEF Complete
  <2>6. QED
    BY <1>1, <1>2, <1>7, <2>1, <2>4, <2>5 DEF r
<1>8. CASE ~IsData(q[1])
  <2>1. \A i \in 1..Len(r) : IsData(r[i]) =>
           \A n \in lo..(r[i].sealed.counter - 1) :
              \E j \in 1..(i - 1) : IsData(r[j]) /\ r[j].sealed.counter = n
    BY <1>5, <1>8
  <2>2. Numbered(r, lo, s, k)
    BY <1>1, <1>2, <1>4, <2>1 DEF Numbered
  <2>3. ASSUME NEW hi \in Nat, Complete(q, lo, hi) PROVE Complete(r, lo, hi)
    BY <1>6, <1>8, <2>3 DEF Complete
  <2>4. QED
    BY <1>1, <1>8, <2>2, <2>3 DEF r
<1>9. QED
  BY <1>7, <1>8

LEMMA ConcatFacts ==
    ASSUME NEW w \in Seq(Frame), NEW c \in Seq(Frame)
    PROVE  /\ w \o c \in Seq(Frame)
           /\ w \o <<>> = w
           /\ \A f \in Frame : w \o Append(c, f) = Append(w \o c, f)
           /\ w # <<>> => /\ w \o c # <<>>
                          /\ Head(w \o c) = Head(w)
                          /\ Tail(w \o c) = Tail(w) \o c
           /\ c # <<>> => Append(w, Head(c)) \o Tail(c) = w \o c
<1>1. w \o c \in Seq(Frame) /\ w \o <<>> = w
  BY ConcatProperties, ConcatEmptySeq
<1>2. ASSUME NEW f \in Frame PROVE w \o Append(c, f) = Append(w \o c, f)
  <2>1. <<f>> \in Seq(Frame) /\ Append(c, f) = c \o <<f>> /\ Append(w \o c, f) = (w \o c) \o <<f>>
    BY <1>1, AppendIsConcat
  <2>2. QED
    BY <2>1, ConcatAssociative
<1>3. ASSUME w # <<>>
      PROVE  w \o c # <<>> /\ Head(w \o c) = Head(w) /\ Tail(w \o c) = Tail(w) \o c
  <2>1. /\ w \o c # <<>> /\ Len(w) \in Nat /\ Len(w) > 0 /\ Len(c) \in Nat
        /\ Tail(w) \in Seq(Frame) /\ Len(Tail(w)) = Len(w) - 1
        /\ \A i \in 1..Len(Tail(w)) : Tail(w)[i] = w[i + 1]
    BY <1>3, EmptySeq, LenProperties, HeadTailProperties, ConcatEqualIffEmpty
  <2>2. /\ Len(w \o c) = Len(w) + Len(c)
        /\ \A i \in 1..(Len(w) + Len(c)) :
               (w \o c)[i] = IF i <= Len(w) THEN w[i] ELSE c[i - Len(w)]
        /\ Len(Tail(w) \o c) = Len(w) - 1 + Len(c) /\ Tail(w) \o c \in Seq(Frame)
        /\ \A i \in 1..(Len(w) - 1 + Len(c)) :
               (Tail(w) \o c)[i] = IF i <= Len(w) - 1 THEN Tail(w)[i] ELSE c[i - (Len(w) - 1)]
    BY <2>1, ConcatProperties
  <2>3. /\ Tail(w \o c) \in Seq(Frame) /\ Len(Tail(w \o c)) = Len(w) + Len(c) - 1
        /\ \A i \in 1..(Len(w) + Len(c) - 1) : Tail(w \o c)[i] = (w \o c)[i + 1]
    BY <1>1, <2>1, <2>2, HeadTailProperties
  <2>4. ASSUME NEW i \in 1..Len(Tail(w \o c)) PROVE Tail(w \o c)[i] = (Tail(w) \o c)[i]
    BY <2>1, <2>2, <2>3
  <2>5. Tail(w \o c) = Tail(w) \o c
    BY <2>1, <2>2, <2>3, <2>4, SeqEqual
  <2>6. Head(w \o c) = Head(w)
    BY <2>1, <2>2
  <2>7. QED
    BY <2>1, <2>5, <2>6
<1>4. ASSUME c # <<>> PROVE Append(w, Head(c)) \o Tail(c) = w \o c
  <2>1. /\ Head(c) \in Frame /\ Tail(c) \in Seq(Frame) /\ <<Head(c)>> \in Seq(Frame)
        /\ Append(w, Head(c)) = w \o <<Head(c)>>
    BY <1>4, HeadTailProperties, AppendIsConcat
  <2>2. <<Head(c)>> \o Tail(c) = c
    <3>1. /\ Len(Tail(c)) = Len(c) - 1 /\ Len(c) \in Nat /\ Len(c) > 0
          /\ \A i \in 1..Len(Tail(c)) : Tail(c)[i] = c[i + 1]
      BY <1>4, EmptySeq, HeadTailProperties
    <3>2. /\ <<Head(c)>> \o Tail(c) \in Seq(Frame)
          /\ Len(<<Head(c)>> \o Tail(c)) = Len(c)
          /\ \A i \in 1..Len(c) : (<<Head(c)>> \o Tail(c))[i] = c[i]
      BY <2>1, <3>1
    <3>3. QED
      BY <3>2, SeqEqual
  <2>3. QED
    BY <2>1, <2>2, ConcatAssociative
<1>5. QED
  BY <1>1, <1>2, <1>3, <1>4

-----------------------------------------------------------------------------
(* A flow, through each kind of step.  Every lemma allows the connection   *)
(* to break in the step, which loses what is in the channel.               *)

\* What is in flight is a queue, of which the wire is the beginning.
LEMMA InFlightFacts ==
    ASSUME TypeOK, NEW e \in Endpoint, FlowInv(e)
    PROVE  /\ wire[e] \in Seq(Frame) /\ chan[e] \in Seq(Frame)
           /\ InFlight(e) \in Seq(Frame)
           /\ Numbered(wire[e], readCounter[Peer(e)], sent[e], ConnKey(e[2]))
           /\ readCounter[Peer(e)] \in Nat /\ writeCounter[e] \in Nat
           /\ sent[e] \in Seq(Packet) /\ Peer(e) \in Endpoint
<1>1. /\ wire[e] \in Seq(Frame) /\ chan[e] \in Seq(Frame) /\ Peer(e) \in Endpoint
      /\ readCounter[Peer(e)] \in Nat /\ writeCounter[e] \in Nat
      /\ sent[e] \in Seq(Packet)
  BY EndpointFacts DEF TypeOK
<1>2. InFlight(e) \in Seq(Frame)
  BY <1>1, ConcatFacts DEF InFlight
<1>3. Numbered(wire[e], readCounter[Peer(e)], sent[e], ConnKey(e[2]))
  BY <1>1, CutShort DEF FlowInv, InFlight
<1>4. QED
  BY <1>1, <1>2, <1>3

\* A step elsewhere.
LEMMA FlowKept ==
    ASSUME TypeOK, NEW e \in Endpoint, FlowInv(e), Broken(e[2]) => Broken(e[2])',
           wire'[e] = wire[e], chan'[e] = chan[e] \/ Broken(e[2])',
           writeCounter'[e] = writeCounter[e], sent'[e] = sent[e],
           readCounter'[Peer(e)] = readCounter[Peer(e)], got'[Peer(e)] = got[Peer(e)]
    PROVE  FlowInv(e)'
<1>1. CASE Broken(e[2])'
  <2>1. InFlight(e)' = wire[e]
    BY <1>1 DEF InFlight
  <2>2. QED
    BY <1>1, <2>1, InFlightFacts DEF FlowInv
<1>2. CASE ~Broken(e[2])'
  <2>1. InFlight(e)' = InFlight(e) /\ ~Broken(e[2])
    BY <1>2 DEF InFlight
  <2>2. QED
    BY <1>2, <2>1 DEF FlowInv
<1>3. QED
  BY <1>1, <1>2

\* A frame of the handshake is written before the channel is used.
LEMMA FlowAnnounced ==
    ASSUME TypeOK, NEW e \in Endpoint, FlowInv(e), Broken(e[2]) => Broken(e[2])',
           NEW f \in Frame, ~IsData(f), wire'[e] = Append(wire[e], f),
           chan[e] = <<>>, chan'[e] = <<>>,
           writeCounter'[e] = writeCounter[e], sent'[e] = sent[e],
           readCounter'[Peer(e)] = readCounter[Peer(e)], got'[Peer(e)] = got[Peer(e)]
    PROVE  FlowInv(e)'
<1>1. InFlight(e) = wire[e] /\ InFlight(e)' = Append(wire[e], f)
  BY InFlightFacts, ConcatFacts, AppendProperties DEF InFlight
<1>2. /\ Numbered(wire[e], readCounter[Peer(e)], sent[e], ConnKey(e[2]))
      /\ ~Broken(e[2]) => Complete(wire[e], readCounter[Peer(e)], writeCounter[e])
  BY <1>1 DEF FlowInv
<1>3. /\ Numbered(Append(wire[e], f), readCounter[Peer(e)], sent[e], ConnKey(e[2]))
      /\ Complete(wire[e], readCounter[Peer(e)], writeCounter[e]) =>
            Complete(Append(wire[e], f), readCounter[Peer(e)], writeCounter[e])
  BY <1>2, InFlightFacts, PushOther
<1>4. QED
  BY <1>1, <1>2, <1>3 DEF FlowInv

\* A keepalive joins the channel.
LEMMA FlowKeepalive ==
    ASSUME TypeOK, NEW e \in Endpoint, FlowInv(e), Broken(e[2]) => Broken(e[2])',
           wire'[e] = wire[e], chan'[e] = Append(chan[e], KeepaliveFrame),
           writeCounter'[e] = writeCounter[e], sent'[e] = sent[e],
           readCounter'[Peer(e)] = readCounter[Peer(e)], got'[Peer(e)] = got[Peer(e)]
    PROVE  FlowInv(e)'
<1>1. KeepaliveFrame \in Frame /\ ~IsData(KeepaliveFrame)
  BY FrameFacts DEF KeepaliveFrame, IsData
<1>2. CASE Broken(e[2])'
  <2>1. InFlight(e)' = wire[e]
    BY <1>2 DEF InFlight
  <2>2. QED
    BY <1>2, <2>1, InFlightFacts DEF FlowInv
<1>3. CASE ~Broken(e[2])'
  <2>1. wire[e] \o Append(chan[e], KeepaliveFrame) = Append(wire[e] \o chan[e], KeepaliveFrame)
    <3>1. \A f \in Frame : wire[e] \o Append(chan[e], f) = Append(wire[e] \o chan[e], f)
      BY InFlightFacts, ConcatFacts, Zenon
    <3>2. QED
      BY <1>1, <3>1, Zenon
  <2>2. InFlight(e)' = Append(InFlight(e), KeepaliveFrame) /\ ~Broken(e[2])
    BY <1>3, <2>1 DEF InFlight
  <2>3. /\ Numbered(InFlight(e), readCounter[Peer(e)], sent[e], ConnKey(e[2]))
        /\ Complete(InFlight(e), readCounter[Peer(e)], writeCounter[e])
    BY <2>2 DEF FlowInv
  <2>4. /\ Numbered(InFlight(e)', readCounter[Peer(e)], sent[e], ConnKey(e[2]))
        /\ Complete(InFlight(e)', readCounter[Peer(e)], writeCounter[e])
    BY <1>1, <2>2, <2>3, InFlightFacts, PushOther
  <2>5. QED
    BY <1>3, <2>4 DEF FlowInv
<1>4. QED
  BY <1>2, <1>3

\* A packet is numbered, and joins the channel of a connection that is whole.
LEMMA FlowSent ==
    ASSUME TypeOK, NEW e \in Endpoint, FlowInv(e), Broken(e[2]) => Broken(e[2])',
           NEW p \in Packet, wire'[e] = wire[e],
           \/ Broken(e[2])
           \/ chan'[e] = Append(chan[e], DataFrame(ConnKey(e[2]), writeCounter[e], p)),
           writeCounter'[e] = writeCounter[e] + 1, sent'[e] = Append(sent[e], p),
           readCounter'[Peer(e)] = readCounter[Peer(e)], got'[Peer(e)] = got[Peer(e)]
    PROVE  FlowInv(e)'
<1> DEFINE d == Peer(e)
           lo == readCounter[d]
           k == ConnKey(e[2])
<1>1. /\ lo \in Nat /\ Len(sent[e]) \in Nat /\ writeCounter[e] = Len(sent[e])
      /\ lo = Len(got[d]) /\ lo <= Len(sent[e])
      /\ Len(sent'[e]) = Len(sent[e]) + 1
      /\ \A i \in 1..Len(sent[e]) : sent'[e][i] = sent[e][i]
  BY InFlightFacts, AppendProperties DEF FlowInv
<1>2. /\ writeCounter'[e] = Len(sent'[e])
      /\ readCounter'[d] = Len(got'[d])
      /\ readCounter'[d] <= writeCounter'[e]
      /\ \A i \in 1..Len(got'[d]) : got'[d][i] = sent'[e][i]
  BY <1>1 DEF FlowInv
<1>3. CASE Broken(e[2])'
  <2>1. InFlight(e)' = wire[e]
    BY <1>3 DEF InFlight
  <2>2. Numbered(wire[e], lo, Append(sent[e], p), k)
    BY InFlightFacts, GrowSent
  <2>3. QED
    BY <1>2, <1>3, <2>1, <2>2 DEF FlowInv
<1>4. CASE ~Broken(e[2])'
  <2>1. k \in SUBSET Endpoint
    BY EndpointFacts DEF ConnKey
  <2>2. DataFrame(k, Len(sent[e]), p) \in Frame
    BY <1>1, <2>1, FrameFacts
  <2>3. /\ InFlight(e)' = Append(InFlight(e), DataFrame(k, Len(sent[e]), p))
        /\ ~Broken(e[2])
    <3>1. wire[e] \o Append(chan[e], DataFrame(k, Len(sent[e]), p))
             = Append(wire[e] \o chan[e], DataFrame(k, Len(sent[e]), p))
      <4>1. \A f \in Frame : wire[e] \o Append(chan[e], f) = Append(wire[e] \o chan[e], f)
        BY InFlightFacts, ConcatFacts, Zenon
      <4>2. QED
        BY <2>2, <4>1, Zenon
    <3>2. QED
      BY <1>1, <1>4, <3>1 DEF InFlight
  <2>4. Numbered(InFlight(e), lo, sent[e], k) /\ Complete(InFlight(e), lo, Len(sent[e]))
    BY <1>1, <2>3 DEF FlowInv
  <2>5. /\ Numbered(InFlight(e)', lo, Append(sent[e], p), k)
        /\ Complete(InFlight(e)', lo, Len(sent[e]) + 1)
    <3>1. InFlight(e) \in Seq(Frame) /\ sent[e] \in Seq(Packet)
      BY InFlightFacts
    <3> DEFINE q == InFlight(e)
    <3> HIDE DEF q, lo, k, d
    <3>2. /\ Numbered(Append(q, DataFrame(k, Len(sent[e]), p)), lo, Append(sent[e], p), k)
          /\ Complete(Append(q, DataFrame(k, Len(sent[e]), p)), lo, Len(sent[e]) + 1)
      BY <1>1, <2>1, <2>4, <3>1, PushData DEF q
    <3>3. QED
      BY <2>3, <3>2 DEF q
  <2>6. QED
    BY <1>1, <1>2, <1>4, <2>5 DEF FlowInv
<1>5. QED
  BY <1>3, <1>4

\* The writer moves a frame from the channel to the wire.
LEMMA FlowWritten ==
    ASSUME TypeOK, NEW e \in Endpoint, FlowInv(e), Broken(e[2]) <=> Broken(e[2])',
           chan[e] # <<>>, chan'[e] = Tail(chan[e]),
           wire'[e] = IF Broken(e[2]) THEN wire[e] ELSE Append(wire[e], Head(chan[e])),
           writeCounter'[e] = writeCounter[e], sent'[e] = sent[e],
           readCounter'[Peer(e)] = readCounter[Peer(e)], got'[Peer(e)] = got[Peer(e)]
    PROVE  FlowInv(e)'
<1>1. Append(wire[e], Head(chan[e])) \o Tail(chan[e]) = wire[e] \o chan[e]
  <2>1. wire[e] \in Seq(Frame) /\ chan[e] \in Seq(Frame)
    BY InFlightFacts
  <2>2. QED
    BY <2>1, ConcatFacts, Zenon
<1>2. InFlight(e)' = InFlight(e)
  BY <1>1 DEF InFlight
<1>3. QED
  BY <1>2 DEF FlowInv

\* The peer reads a message; a data frame moves its read_counter on.
LEMMA FlowRead ==
    ASSUME TypeOK, NEW e \in Endpoint, FlowInv(e), Broken(e[2]) => Broken(e[2])',
           wire[e] # <<>>, wire'[e] = Tail(wire[e]), chan'[e] = chan[e],
           writeCounter'[e] = writeCounter[e], sent'[e] = sent[e],
           IF IsData(Head(wire[e]))
           THEN /\ readCounter'[Peer(e)] = readCounter[Peer(e)] + 1
                /\ got'[Peer(e)] = Append(got[Peer(e)], Head(wire[e]).sealed.packet)
           ELSE /\ readCounter'[Peer(e)] = readCounter[Peer(e)]
                /\ got'[Peer(e)] = got[Peer(e)]
    PROVE  FlowInv(e)'
<1> DEFINE d == Peer(e)
           lo == readCounter[d]
           k == ConnKey(e[2])
           w == wire[e]
<1>1. /\ w \in Seq(Frame) /\ InFlight(e) \in Seq(Frame) /\ chan[e] \in Seq(Frame)
      /\ lo \in Nat /\ writeCounter[e] \in Nat /\ sent[e] \in Seq(Packet)
      /\ Numbered(w, lo, sent[e], k)
      /\ lo = Len(got[d]) /\ writeCounter[e] = Len(sent[e])
      /\ \A i \in 1..Len(got[d]) : got[d][i] = sent[e][i]
      /\ Numbered(InFlight(e), lo, sent[e], k)
      /\ ~Broken(e[2]) => Complete(InFlight(e), lo, writeCounter[e])
  BY InFlightFacts DEF FlowInv
<1>2. /\ InFlight(e) # <<>>
      /\ Head(InFlight(e)) = Head(w)
      /\ ~Broken(e[2])' => ~Broken(e[2]) /\ InFlight(e)' = Tail(InFlight(e))
      /\ Broken(e[2])' => InFlight(e)' = Tail(w)
  <2>1. /\ w \o chan[e] # <<>> /\ Head(w \o chan[e]) = Head(w)
        /\ Tail(w \o chan[e]) = Tail(w) \o chan[e]
    BY <1>1, ConcatFacts
  <2>2. QED
    BY <2>1 DEF InFlight
<1>3. got[d] \in Seq(Packet) /\ Head(w) \in Frame
  BY InFlightFacts, QueueFacts DEF TypeOK
<1>4. CASE IsData(Head(w))
  <2>1. Head(w).sealed.packet \in Packet
    BY <1>3, <1>4, FrameFacts DEF IsData, Sealed
  <2>2. /\ lo < Len(sent[e]) /\ Head(w).sealed.packet = sent[e][lo + 1]
        /\ Numbered(Tail(w), lo + 1, sent[e], k)
    BY <1>1, <1>4, Pop
  <2>3. /\ Numbered(InFlight(e)', lo + 1, sent[e], k)
        /\ ~Broken(e[2])' => Complete(InFlight(e)', lo + 1, writeCounter[e])
    <3>1. /\ Numbered(Tail(InFlight(e)), lo + 1, sent[e], k)
          /\ \A hi \in Nat : Complete(InFlight(e), lo, hi) => Complete(Tail(InFlight(e)), lo + 1, hi)
      BY <1>1, <1>2, <1>4, Pop
    <3>2. QED
      BY <1>1, <1>2, <2>2, <3>1
  <2>4. /\ Len(got'[d]) = Len(got[d]) + 1
        /\ \A i \in 1..Len(got[d]) : got'[d][i] = got[d][i]
        /\ got'[d][Len(got[d]) + 1] = sent[e][lo + 1]
    BY <1>3, <1>4, <2>1, <2>2, AppendProperties
  <2>5. \A i \in 1..Len(got'[d]) : got'[d][i] = sent'[e][i]
    BY <1>1, <2>4
  <2>6. readCounter'[d] = lo + 1 /\ readCounter'[d] <= writeCounter'[e]
    BY <1>1, <1>4, <2>2
  <2>7. QED
    BY <1>1, <2>3, <2>4, <2>5, <2>6 DEF FlowInv
<1>5. CASE ~IsData(Head(w))
  <2>1. Numbered(Tail(w), lo, sent[e], k)
    BY <1>1, <1>5, Pop
  <2>2. /\ Numbered(InFlight(e)', lo, sent[e], k)
        /\ ~Broken(e[2])' => Complete(InFlight(e)', lo, writeCounter[e])
    <3>1. /\ Numbered(Tail(InFlight(e)), lo, sent[e], k)
          /\ \A hi \in Nat : Complete(InFlight(e), lo, hi) => Complete(Tail(InFlight(e)), lo, hi)
      BY <1>1, <1>2, <1>5, Pop
    <3>2. QED
      BY <1>1, <1>2, <2>1, <3>1
  <2>3. QED
    BY <1>5, <2>2 DEF FlowInv
<1>6. QED
  BY <1>4, <1>5

-----------------------------------------------------------------------------
(* The flows, through every action.                                        *)

LEMMA FlowInit == Init => \A e \in Endpoint : FlowInv(e)
<1> SUFFICES ASSUME Init, NEW e \in Endpoint PROVE FlowInv(e)
  OBVIOUS
<1>1. /\ InFlight(e) = <<>> /\ sent[e] = <<>> /\ got[Peer(e)] = <<>>
      /\ writeCounter[e] = 0 /\ readCounter[Peer(e)] = 0
  BY EndpointFacts DEF Init, InFlight
<1>2. QED
  BY <1>1, EmptyNumbered DEF FlowInv

LEMMA FlowNext ==
    ASSUME TypeOK, KeyInv, [Next]_vars, NEW e \in Endpoint, FlowInv(e)
    PROVE  FlowInv(e)'
<1>b. Broken(e[2]) => Broken(e[2])'
  BY BrokenStable, EndpointFacts
<1>p. /\ Peer(e) \in Endpoint /\ Peer(e) # e /\ Peer(e)[2] = e[2] /\ e[2] \in Conn
      /\ Peer(Peer(e)) = e
  BY EndpointFacts
<1>k. EndpointInv(e) /\ EndpointInv(Peer(e))
  BY <1>p DEF KeyInv
<1>1. ASSUME NEW c \in Conn, Connect(c) PROVE FlowInv(e)'
  <2>1. AuthFrame(Client(c), clientPsk) \in Frame /\ ~IsData(AuthFrame(Client(c), clientPsk))
    BY FrameFacts DEF AuthFrame, IsData, TypeOK
  <2>2. CASE e = Client(c)
    <3>1. chan[e] = <<>>
      BY <1>1, <1>k, <2>2 DEF Connect, EndpointInv
    <3>2. /\ wire'[e] = Append(wire[e], AuthFrame(Client(c), clientPsk))
          /\ UNCHANGED <<chan, writeCounter, sent, readCounter, got>>
      BY <1>1, <2>2 DEF Connect, TypeOK
    <3>3. QED
      BY <1>b, <2>1, <3>1, <3>2, FlowAnnounced
  <2>3. CASE e # Client(c)
    <3>1. wire'[e] = wire[e] /\ UNCHANGED <<chan, writeCounter, sent, readCounter, got>>
      BY <1>1, <2>3 DEF Connect, TypeOK
    <3>2. QED
      BY <1>b, <3>1, FlowKept
  <2>4. QED
    BY <2>2, <2>3
<1>2. ASSUME NEW c \in Conn, ServerHandshake(c) PROVE FlowInv(e)'
  <2>1. /\ KexFrame(Server(c)) \in Frame /\ ~IsData(KexFrame(Server(c)))
        /\ Server(c) # Client(c) /\ Client(c) \in Endpoint /\ Server(c) \in Endpoint
    BY FrameFacts, EndpointFacts DEF KexFrame, IsData
  <2>2. UNCHANGED <<chan, writeCounter, sent, readCounter, got>>
    BY <1>2 DEF ServerHandshake
  <2>3. CASE e = Client(c)
    <3>1. wire[e] = <<AuthFrame(Client(c), clientPsk)>>
      BY <1>2, <2>3 DEF ServerHandshake, KeyInv, HandshakeInv
    <3>2. wire[e] # <<>> /\ ~IsData(Head(wire[e]))
      BY <3>1 DEF AuthFrame, IsData
    <3>3. wire'[e] = Tail(wire[e])
      BY <1>2, <2>1, <2>3 DEF ServerHandshake, TypeOK
    <3>4. QED
      BY <1>b, <2>2, <3>2, <3>3, FlowRead
  <2>4. CASE e = Server(c)
    <3>1. chan[e] = <<>>
      BY <1>2, <1>k, <2>4 DEF ServerHandshake, EndpointInv
    <3>2. wire'[e] \in {wire[e], Append(wire[e], KexFrame(Server(c)))}
      BY <1>2, <2>1, <2>4 DEF ServerHandshake, TypeOK
    <3>3. CASE wire'[e] = wire[e]
      BY <1>b, <2>2, <3>3, FlowKept
    <3>4. CASE wire'[e] = Append(wire[e], KexFrame(Server(c)))
      BY <1>b, <2>1, <2>2, <3>1, <3>4, FlowAnnounced
    <3>5. QED
      BY <3>2, <3>3, <3>4
  <2>5. CASE e # Client(c) /\ e # Server(c)
    <3>1. wire'[e] = wire[e]
      BY <1>2, <2>5 DEF ServerHandshake, TypeOK
    <3>2. QED
      BY <1>b, <2>2, <3>1, FlowKept
  <2>6. QED
    BY <2>3, <2>4, <2>5
<1>3. ASSUME NEW c \in Conn, ClientHandshake(c) PROVE FlowInv(e)'
  <2>1. UNCHANGED <<chan, writeCounter, sent, readCounter, got>>
    BY <1>3 DEF ClientHandshake
  <2>2. CASE e = Server(c)
    <3>1. key[Client(c)] = {}
      BY <1>3, <1>k, <2>2, EndpointFacts DEF ClientHandshake, EndpointInv
    <3>2. wire[e] # <<>> /\ wire[e][1] = KexFrame(Server(c))
      BY <1>3, <2>2 DEF ClientHandshake, KeyInv, HandshakeInv
    <3>3. ~IsData(Head(wire[e])) /\ wire'[e] = Tail(wire[e])
      BY <1>3, <2>2, <3>2 DEF ClientHandshake, TypeOK, KexFrame, IsData
    <3>4. QED
      BY <1>b, <2>1, <3>2, <3>3, FlowRead
  <2>3. CASE e # Server(c)
    <3>1. wire'[e] = wire[e]
      BY <1>3, <2>3 DEF ClientHandshake, TypeOK
    <3>2. QED
      BY <1>b, <2>1, <3>1, FlowKept
  <2>4. QED
    BY <2>2, <2>3
<1>4. ASSUME NEW c \in Conn, NetworkFails(c) PROVE FlowInv(e)'
  BY <1>4, <1>b, FlowKept DEF NetworkFails
<1>5. ASSUME NEW d \in Endpoint, HandshakeFails(d) PROVE FlowInv(e)'
  BY <1>5, <1>b, FlowKept DEF HandshakeFails
<1>6. ASSUME NEW d \in Endpoint, NEW p \in Packet, ReadTun(d, p) PROVE FlowInv(e)'
  <2>1. UNCHANGED <<main, wire, readCounter, got>>
    BY <1>6 DEF ReadTun
  <2>2. CASE d = e
    <3>1. key[e] = ConnKey(e[2]) /\ main[e] \in {"open", "done"}
      BY <1>6, <1>k, <2>2 DEF ReadTun, EndpointInv, TypeOK
    <3>2. /\ writeCounter'[e] = writeCounter[e] + 1
          /\ sent'[e] = Append(sent[e], p)
      BY <1>6, <2>2 DEF ReadTun, TypeOK
    <3>3. CASE "writer" \in tasks[e]
      <4>1. chan'[e] = Append(chan[e], DataFrame(ConnKey(e[2]), writeCounter[e], p))
        BY <1>6, <2>2, <3>1, <3>3 DEF ReadTun, ChannelOpen, TypeOK
      <4>2. QED
        BY <1>b, <2>1, <3>2, <4>1, FlowSent
    <3>4. CASE "writer" \notin tasks[e]
      <4>1. Broken(e[2])
        BY <1>k, <3>1, <3>4, EndpointFacts DEF EndpointInv, Broken, Dropped
      <4>2. QED
        BY <1>b, <2>1, <3>2, <4>1, FlowSent
    <3>5. QED
      BY <3>3, <3>4
  <2>3. CASE d # e
    <3>1. chan'[e] = chan[e] /\ writeCounter'[e] = writeCounter[e] /\ sent'[e] = sent[e]
      BY <1>6, <2>3 DEF ReadTun, TypeOK
    <3>2. QED
      BY <1>b, <2>1, <3>1, FlowKept
  <2>4. QED
    BY <2>2, <2>3
<1>7. ASSUME NEW d \in Endpoint, TunReadError(d) PROVE FlowInv(e)'
  BY <1>7, <1>b, FlowKept DEF TunReadError
<1>8. ASSUME NEW d \in Endpoint, KeepaliveTick(d) PROVE FlowInv(e)'
  <2>1. UNCHANGED <<wire, writeCounter, sent, readCounter, got>>
    BY <1>8 DEF KeepaliveTick
  <2>2. chan'[e] \in {chan[e], Append(chan[e], KeepaliveFrame)}
    BY <1>8 DEF KeepaliveTick, TypeOK
  <2>3. CASE chan'[e] = chan[e]
    BY <1>b, <2>1, <2>3, FlowKept
  <2>4. CASE chan'[e] = Append(chan[e], KeepaliveFrame)
    BY <1>b, <2>1, <2>4, FlowKeepalive
  <2>5. QED
    BY <2>2, <2>3, <2>4
<1>9. ASSUME NEW d \in Endpoint, WriteFrame(d) PROVE FlowInv(e)'
  <2>1. UNCHANGED <<cut, main, tasks, writeCounter, sent, readCounter, got>>
    BY <1>9 DEF WriteFrame
  <2>2. Broken(e[2])' <=> Broken(e[2])
    BY <2>1 DEF Broken, Dropped
  <2>3. CASE d = e
    <3>1. /\ chan[e] # <<>> /\ chan'[e] = Tail(chan[e])
          /\ wire'[e] = IF Broken(e[2]) THEN wire[e] ELSE Append(wire[e], Head(chan[e]))
      BY <1>9, <2>3 DEF WriteFrame, TypeOK
    <3>2. QED
      BY <2>1, <2>2, <3>1, FlowWritten
  <2>4. CASE d # e
    <3>1. chan'[e] = chan[e] /\ wire'[e] = wire[e]
      BY <1>9, <2>4 DEF WriteFrame, TypeOK
    <3>2. QED
      BY <1>b, <2>1, <3>1, FlowKept
  <2>5. QED
    BY <2>3, <2>4
<1>10. ASSUME NEW d \in Endpoint, WriteFails(d) PROVE FlowInv(e)'
  <2>1. UNCHANGED <<wire, writeCounter, sent, readCounter, got>>
    BY <1>10 DEF WriteFails
  <2>2. chan'[e] = chan[e] \/ Broken(e[2])'
    BY <1>10, <1>b DEF WriteFails, TypeOK
  <2>3. QED
    BY <1>b, <2>1, <2>2, FlowKept
<1>11. ASSUME NEW d \in Endpoint, NEW t \in Task, StopTask(d, t) PROVE FlowInv(e)'
  <2>1. UNCHANGED <<main, wire, writeCounter, sent, readCounter, got>>
    BY <1>11 DEF StopTask
  <2>2. ASSUME chan'[e] # chan[e] PROVE Broken(e[2])'
    <3>1. d = e /\ t = "writer" /\ main[e] = "done"
      BY <1>11, <2>2 DEF StopTask, TypeOK
    <3>2. "writer" \notin tasks'[e] /\ main'[e] = "done"
      BY <1>11, <2>1, <3>1 DEF StopTask, TypeOK
    <3>3. QED
      BY <3>2, EndpointFacts DEF Broken, Dropped
  <2>3. QED
    BY <1>b, <2>1, <2>2, FlowKept
<1>12. ASSUME NEW d \in Endpoint, Receive(d) PROVE FlowInv(e)'
  <2> DEFINE f == Head(wire[e])
  <2>1. UNCHANGED <<cut, main, tasks, chan, writeCounter, sent>>
    BY <1>12 DEF Receive, Deliver
  <2>2. CASE d = Peer(e)
    <3>1. /\ wire[e] # <<>> /\ wire'[e] = Tail(wire[e])
          /\ main[d] = "open" /\ key[d] = ConnKey(e[2])
      BY <1>12, <1>p, <1>k, <2>2 DEF Receive, Deliver, EndpointInv, TypeOK
    <3>2. /\ wire[e] \in Seq(Frame) /\ sent[e] \in Seq(Packet) /\ readCounter[d] \in Nat
          /\ Numbered(wire[e], readCounter[d], sent[e], ConnKey(e[2]))
      BY <2>2, InFlightFacts
    <3>3. IsData(f) => Opens(key[d], readCounter[d], f.sealed)
      BY <3>1, <3>2, Pop DEF Opens
    <3>4. IF IsData(f)
          THEN /\ readCounter'[d] = readCounter[d] + 1
               /\ got'[d] = Append(got[d], f.sealed.packet)
          ELSE readCounter'[d] = readCounter[d] /\ got'[d] = got[d]
      BY <1>12, <1>p, <2>2, <3>3, SMTT(60) DEF Receive, Deliver, IsData, TypeOK
    <3>5. QED
      BY <1>b, <2>1, <2>2, <3>1, <3>4, FlowRead
  <2>3. CASE d # Peer(e)
    <3>1. Peer(d) # e
      BY <2>3, EndpointFacts
    <3>2. wire'[e] = wire[e]
      BY <1>12, <3>1 DEF Receive, Deliver, TypeOK
    <3>3. readCounter'[Peer(e)] = readCounter[Peer(e)] /\ got'[Peer(e)] = got[Peer(e)]
      BY <1>12, <1>p, <2>3 DEF Receive, Deliver, TypeOK
    <3>4. QED
      BY <1>b, <2>1, <3>2, <3>3, FlowKept
  <2>4. QED
    BY <2>2, <2>3
<1>13. ASSUME NEW d \in Endpoint, MainEnds(d) PROVE FlowInv(e)'
  BY <1>13, <1>b, FlowKept DEF MainEnds
<1>14. ASSUME NEW side \in Side, Crash(side) PROVE FlowInv(e)'
  <2>1. UNCHANGED <<wire, writeCounter, sent, readCounter, got>>
    BY <1>14 DEF Crash
  <2>2. ASSUME chan'[e] # chan[e] PROVE Broken(e[2])'
    <3>1. main'[e] = "done" /\ tasks'[e] = {}
      BY <1>14, <2>2 DEF Crash, TypeOK
    <3>2. QED
      BY <3>1, EndpointFacts DEF Broken, Dropped
  <2>3. QED
    BY <1>b, <2>1, <2>2, FlowKept
<1>15. CASE UNCHANGED vars
  BY <1>15, <1>b, FlowKept DEF vars
<1>16. QED
  BY <1>1, <1>2, <1>3, <1>4, <1>5, <1>6, <1>7, <1>8, <1>9, <1>10, <1>11,
     <1>12, <1>13, <1>14, <1>15 DEF Next

\* The inductive invariant holds in every behaviour.
THEOREM Invariance == Spec => []IInv
<1>1. Init => IInv
  BY TypeInit, KeyInit, FlowInit DEF IInv
<1>2. IInv /\ [Next]_vars => IInv'
  BY TypeNext, KeyNext, FlowNext DEF IInv
<1>3. QED
  BY <1>1, <1>2, PTL DEF Spec

\* Whatever fails, whoever restarts and however the tasks interleave, what an
\* endpoint has handed to its TUN device is an initial part of what the other
\* end of the same connection read from its own.
THEOREM InOrderCorrect == Spec => []InOrder
<1>1. IInv => InOrder
  <2> SUFFICES ASSUME IInv, NEW e \in Endpoint
               PROVE  /\ Len(got[e]) <= Len(sent[Peer(e)])
                      /\ \A i \in 1..Len(got[e]) : got[e][i] = sent[Peer(e)][i]
    BY DEF InOrder
  <2>1. FlowInv(Peer(e)) /\ Peer(Peer(e)) = e
    BY EndpointFacts DEF IInv
  <2>2. QED
    BY <2>1 DEF FlowInv
<1>2. QED
  BY <1>1, Invariance, PTL

\* A data frame that an open endpoint is about to read always opens: the
\* branches for a decryption error in the two main loops are never taken.
THEOREM NoDecryptErrorCorrect == Spec => []NoDecryptError
<1>1. IInv => NoDecryptError
  <2> SUFFICES ASSUME IInv, NEW e \in Endpoint, main[e] = "open", wire[Peer(e)] # <<>>,
                      Head(wire[Peer(e)]).type = "DATA"
               PROVE  Opens(key[e], readCounter[e], Head(wire[Peer(e)]).sealed)
    BY DEF NoDecryptError
  <2>1. /\ Peer(e) \in Endpoint /\ Peer(Peer(e)) = e /\ Peer(e)[2] = e[2]
        /\ TypeOK /\ FlowInv(Peer(e))
    BY EndpointFacts DEF IInv
  <2>2. /\ wire[Peer(e)] \in Seq(Frame) /\ sent[Peer(e)] \in Seq(Packet)
        /\ readCounter[e] \in Nat
        /\ Numbered(wire[Peer(e)], readCounter[e], sent[Peer(e)], ConnKey(e[2]))
    BY <2>1, InFlightFacts
  <2>3. key[e] = ConnKey(e[2])
    BY DEF IInv, KeyInv, EndpointInv
  <2>4. QED
    BY <2>2, <2>3, Pop DEF IsData, Opens
<1>2. QED
  BY <1>1, Invariance, PTL

-----------------------------------------------------------------------------
(* The tunnel implements the pipe.                                         *)

Closed == {e \in Endpoint : main[Peer(e)] = "done"}
Delivered == [e \in Endpoint |-> got[Peer(e)]]

\* A step that takes and hands over no packet can at most close flows.
LEMMA OtherStep ==
    ASSUME TypeOK, KeyInv, [Next]_vars
    PROVE  \/ \E e \in Endpoint, p \in Packet : ReadTun(e, p)
           \/ \E e \in Endpoint : Receive(e)
           \/ /\ UNCHANGED <<sent, got>>
              /\ \A e \in Endpoint : main[e] = "done" => main'[e] = "done"
<1> DEFINE Other == /\ UNCHANGED <<sent, got>>
                    /\ \A e \in Endpoint : main[e] = "done" => main'[e] = "done"
<1>1. ASSUME NEW c \in Conn, Connect(c) PROVE Other
  <2>1. main[Client(c)] = "idle" /\ main[Server(c)] = "idle"
    BY <1>1 DEF Connect, KeyInv, HandshakeInv
  <2>2. QED
    BY <1>1, <2>1 DEF Connect, TypeOK
<1>2. ASSUME NEW c \in Conn, ServerHandshake(c) PROVE Other
  BY <1>2 DEF ServerHandshake, TypeOK
<1>3. ASSUME NEW c \in Conn, ClientHandshake(c) PROVE Other
  BY <1>3 DEF ClientHandshake, TypeOK
<1>4. ASSUME NEW c \in Conn, NetworkFails(c) PROVE Other
  BY <1>4 DEF NetworkFails
<1>5. ASSUME NEW e \in Endpoint, HandshakeFails(e) PROVE Other
  BY <1>5 DEF HandshakeFails, TypeOK
<1>6. ASSUME NEW e \in Endpoint, TunReadError(e) PROVE Other
  BY <1>6 DEF TunReadError
<1>7. ASSUME NEW e \in Endpoint, KeepaliveTick(e) PROVE Other
  BY <1>7 DEF KeepaliveTick
<1>8. ASSUME NEW e \in Endpoint, WriteFrame(e) PROVE Other
  BY <1>8 DEF WriteFrame
<1>9. ASSUME NEW e \in Endpoint, WriteFails(e) PROVE Other
  BY <1>9 DEF WriteFails
<1>10. ASSUME NEW e \in Endpoint, NEW t \in Task, StopTask(e, t) PROVE Other
  BY <1>10 DEF StopTask
<1>11. ASSUME NEW e \in Endpoint, MainEnds(e) PROVE Other
  BY <1>11 DEF MainEnds, TypeOK
<1>12. ASSUME NEW side \in Side, Crash(side) PROVE Other
  BY <1>12 DEF Crash, TypeOK
<1>13. CASE UNCHANGED vars
  BY <1>13 DEF vars
<1>14. QED
  BY <1>1, <1>2, <1>3, <1>4, <1>5, <1>6, <1>7, <1>8, <1>9, <1>10, <1>11,
     <1>12, <1>13 DEF Next

\* Every connection keeps the promise of PacketPipe: in each direction packets
\* are handed over in order, each once, until the flow closes for good.
THEOREM Refinement == Spec => PipeSpec
<1>1. Init => Pipe!Init
  <2> SUFFICES ASSUME Init PROVE Pipe!Init
    OBVIOUS
  <2>1. Delivered = [e \in Endpoint |-> <<>>] /\ Closed = {} /\ sent = [e \in Endpoint |-> <<>>]
    BY EndpointFacts DEF Init, Delivered, Closed
  <2>2. QED
    BY <2>1 DEF Pipe!Init, Delivered, Closed
<1>2. IInv /\ [Next]_vars => [Pipe!Next]_Pipe!vars
  <2> SUFFICES ASSUME IInv, [Next]_vars PROVE Pipe!Next \/ UNCHANGED Pipe!vars
    OBVIOUS
  <2>t. TypeOK /\ KeyInv
    BY DEF IInv
  <2>1. ASSUME NEW e \in Endpoint, NEW p \in Packet, ReadTun(e, p) PROVE Pipe!Next
    <3>1. Pipe!Accept(e, p)
      BY <2>1 DEF ReadTun, Pipe!Accept
    <3>2. QED
      BY <3>1 DEF Pipe!Next
  <2>2. ASSUME NEW d \in Endpoint, Receive(d) PROVE Pipe!Next \/ UNCHANGED Pipe!vars
    <3> DEFINE e == Peer(d)
               f == Head(wire[e])
    <3>1. /\ e \in Endpoint /\ Peer(e) = d /\ e[2] = d[2]
          /\ \A x \in Endpoint : Peer(x) = d => x = e
      BY EndpointFacts
    <3>2. UNCHANGED <<main, sent>> /\ main[d] = "open" /\ wire[e] # <<>>
      BY <2>2 DEF Receive, Deliver
    <3>3. CASE got' = got
      BY <3>2, <3>3 DEF Pipe!vars
    <3>4. CASE got' # got
      <4>1. /\ IsData(f) /\ got' = [got EXCEPT ![d] = Append(@, f.sealed.packet)]
        BY <2>2, <3>4 DEF Receive, Deliver, IsData
      <4>2. /\ wire[e] \in Seq(Frame) /\ sent[e] \in Seq(Packet)
            /\ readCounter[d] \in Nat /\ readCounter[d] = Len(got[d])
            /\ Numbered(wire[e], readCounter[d], sent[e], ConnKey(e[2]))
        BY <2>t, <3>1, InFlightFacts DEF IInv, FlowInv
      <4>3. Len(got[d]) < Len(sent[e]) /\ f.sealed.packet = sent[e][Len(got[d]) + 1]
        <5>1. /\ readCounter[d] < Len(sent[e])
              /\ f.sealed.packet = sent[e][readCounter[d] + 1]
          BY <3>2, <4>1, <4>2, Pop
        <5>2. QED
          BY <4>2, <5>1
      <4>4. Delivered[e] = got[d] /\ e \notin Closed
        BY <3>1, <3>2 DEF Delivered, Closed
      <4>5. Delivered' = [Delivered EXCEPT ![e] = Append(@, sent[e][Len(Delivered[e]) + 1])]
        <5>1. \A x \in Endpoint : x # e => got'[Peer(x)] = got[Peer(x)]
          BY <2>t, <3>1, <4>1, EndpointFacts DEF TypeOK
        <5>2. got'[Peer(e)] = Append(got[d], sent[e][Len(got[d]) + 1])
          BY <2>t, <3>1, <4>1, <4>3 DEF TypeOK
        <5>3. QED
          BY <3>1, <4>4, <5>1, <5>2 DEF Delivered
      <4>6. Pipe!Deliver(e)
        BY <3>2, <4>3, <4>4, <4>5 DEF Pipe!Deliver, Delivered, Closed
      <4>7. QED
        BY <3>1, <4>6 DEF Pipe!Next
    <3>5. QED
      BY <3>3, <3>4
  <2>3. ASSUME UNCHANGED <<sent, got>>,
               \A e \in Endpoint : main[e] = "done" => main'[e] = "done"
        PROVE  Pipe!Next
    <3>1. Closed' \in SUBSET Endpoint /\ Closed' = Closed \cup Closed'
      BY <2>3, EndpointFacts DEF Closed
    <3>2. Pipe!Close(Closed')
      BY <2>3, <3>1 DEF Pipe!Close, Closed
    <3>3. QED
      BY <3>1, <3>2 DEF Pipe!Next
  <2>4. QED
    BY <2>t, <2>1, <2>2, <2>3, OtherStep
<1>3. QED
  BY <1>1, <1>2, Invariance, PTL DEF Spec, PipeSpec, Pipe!Spec
=============================================================================
