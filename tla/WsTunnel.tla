------------------------------ MODULE WsTunnel ------------------------------
(***************************************************************************)
(* The WebSocket tunnel: try_ws_connect and run_ws_tunnel of the client    *)
(* (src/src/tunnel/client.rs), handshake and handle_ws of the server       *)
(* (src/src/tunnel/server.rs).                                             *)
(*                                                                         *)
(* The client's connections are numbered in the order it makes them.  Each *)
(* has two endpoints, <<"client", c>> and <<"server", c>>, which run the   *)
(* same tunnel once the handshake is over: a main task that reads the      *)
(* WebSocket, and three spawned tasks, of which "reader" reads the TUN     *)
(* device and "keepalive" a timer, both into the unbounded channel that    *)
(* "writer" empties into the WebSocket.  The server may still be running   *)
(* the handler of an old connection when the client is on a new one.       *)
(***************************************************************************)
EXTENDS Naturals, Sequences, Crypto

CONSTANTS
    Packet,      \* what the TUN devices carry
    Psk,         \* preshared-secret hashes
    ServerPsk,   \* the one the server loaded
    ClientPsks,  \* those the client may have loaded
    MaxConn,     \* bound: connections the client makes
    MaxSent,     \* bound: packets an endpoint of a side reads from its TUN device
    MaxChan,     \* bound: frames queued in an endpoint's channel
    WireCap      \* WebSocket messages the TCP connection buffers per direction

ASSUME PskAssumption == ServerPsk \in Psk /\ ClientPsks \subseteq Psk
ASSUME BoundAssumption ==
    MaxConn \in Nat /\ MaxSent \in [{"client", "server"} -> Nat] /\ MaxChan \in Nat
ASSUME WireAssumption == WireCap \in Nat \ {0}

Conn == 1..MaxConn
Side == {"client", "server"}
Endpoint == Side \X Conn
Client(c) == <<"client", c>>
Server(c) == <<"server", c>>
Peer(e) == IF e[1] = "client" THEN Server(e[2]) ELSE Client(e[2])

Task == {"reader", "keepalive", "writer"}

VARIABLES
    clientPsk,    \* the hash the client process loaded
    cut,          \* the connections whose network path has failed
    main,         \* main[e]: "idle", "hello" (in the handshake), "open", "done"
    key,          \* key[e]: the shared key, {} before the handshake derived it
    tasks,        \* tasks[e]: the spawned tasks that have not ended
    chan,         \* chan[e]: the frames in the channel of e
    wire,         \* wire[e]: the messages e has written and its peer not read
    writeCounter, \* write_counter of tun_reader
    readCounter,  \* read_counter of the main task
    sent,         \* history: sent[e], the packets numbered by e's tun_reader
    got           \* history: got[e], the packets e has handed to its TUN device

vars == <<clientPsk, cut, main, key, tasks, chan, wire, writeCounter,
          readCounter, sent, got>>

-----------------------------------------------------------------------------
(* Frames: the type byte, and the payload as crypto.rs makes it.           *)

\* Handshake::new: each end of each connection makes a key pair of its own.
\* (Mutant: one that is made once per process.)
EphemeralKeyOfProcess(e) == <<e[1], 1>>
EphemeralKey(e) == e

AuthFrame(public, psk) ==
    [type |-> "AUTH", payload |-> AuthPayload(public, psk)]
KexFrame(public) == [type |-> "KEY_EXCHANGE", public |-> public]
\* (Mutants: what was in the buffer before the read; a packet not sealed.)
DataFrameOfOldBuffer(k, n, p) ==
    [type |-> "DATA", sealed |-> Encrypt(k, n, CHOOSE old \in Packet : TRUE)]
DataFrameUnsealed(k, n, p) == [type |-> "DATA", sealed |-> p]
DataFrame(k, n, p) == [type |-> "DATA", sealed |-> Encrypt(k, n, p)]
KeepaliveFrame == [type |-> "KEEPALIVE"]

Sealed == [key : SUBSET Endpoint, counter : Nat, packet : Packet]
Frame == [type : {"AUTH"}, payload : [public : Endpoint, tag : Psk \X Endpoint]]
         \cup [type : {"KEY_EXCHANGE"}, public : Endpoint]
         \cup [type : {"DATA"}, sealed : Sealed]
         \cup {KeepaliveFrame}

\* An endpoint's TCP stream is dropped when both halves of its WebSocket are:
\* the read half with the main task, the write half with the writer.
\* (Mutant: the socket is kept open elsewhere.)
DroppedNever(e) == FALSE
Dropped(e) == main[e] = "done" /\ "writer" \notin tasks[e]

\* Nothing written to connection c now will reach the other end.
Broken(c) == c \in cut \/ Dropped(Client(c)) \/ Dropped(Server(c))

Init ==
    /\ clientPsk \in ClientPsks
    /\ cut = {}
    /\ main = [e \in Endpoint |-> "idle"]
    /\ key = [e \in Endpoint |-> {}]
    /\ tasks = [e \in Endpoint |-> {}]
    /\ chan = [e \in Endpoint |-> <<>>]
    /\ wire = [e \in Endpoint |-> <<>>]
    /\ writeCounter = [e \in Endpoint |-> 0]
    /\ readCounter = [e \in Endpoint |-> 0]
    /\ sent = [e \in Endpoint |-> <<>>]
    /\ got = [e \in Endpoint |-> <<>>]

-----------------------------------------------------------------------------
(* The handshake.                                                          *)

\* The client, back in its reconnect loop, connects and sends its auth frame;
\* the server upgrades the connection and waits for that frame.
Connect(c) ==
    /\ main[Client(c)] = "idle"
    /\ c > 1 => main[Client(c - 1)] = "done"
    /\ main' = [main EXCEPT ![Client(c)] = "hello", ![Server(c)] = "hello"]
    /\ wire' = [wire EXCEPT
                   ![Client(c)] = Append(@, AuthFrame(EphemeralKey(Client(c)), clientPsk))]
    /\ UNCHANGED <<clientPsk, cut, key, tasks, chan, writeCounter, readCounter,
                   sent, got>>

\* The server verifies the auth frame, derives the key from an ephemeral key
\* of its own, answers with that and spawns the tasks.  It returns, which drops
\* the connection, when the frame does not verify or the answer can't be sent;
\* on a broken connection the send may fail or seem to succeed.
ServerHandshake(c) ==
    LET f == Head(wire[Client(c)])
        s == Server(c)
        verified == f.type = "AUTH" /\ VerifyAuth(f.payload, ServerPsk)
    IN  /\ main[s] = "hello"
        /\ wire[Client(c)] # <<>>
        /\ \/ /\ verified
              /\ main' = [main EXCEPT ![s] = "open"]
              /\ key' = [key EXCEPT ![s] = DeriveKey(EphemeralKey(s), f.payload.public)]
              /\ tasks' = [tasks EXCEPT ![s] = Task]
              /\ wire' = [wire EXCEPT
                             ![Client(c)] = Tail(@),
                             ![s] = IF Broken(c) THEN @ ELSE Append(@, KexFrame(EphemeralKey(s)))]
           \/ /\ ~verified \/ Broken(c)
              /\ main' = [main EXCEPT ![s] = "done"]
              /\ wire' = [wire EXCEPT ![Client(c)] = Tail(@)]
              /\ UNCHANGED <<key, tasks>>
        /\ UNCHANGED <<clientPsk, cut, chan, writeCounter, readCounter, sent, got>>

\* wait_for_frame returns the first binary message: the client derives the key
\* from it and spawns its tasks, and gives up when it is another frame.
ClientHandshake(c) ==
    LET f == Head(wire[Server(c)])
        e == Client(c)
    IN  /\ main[e] = "hello"
        /\ wire[Server(c)] # <<>>
        /\ IF f.type = "KEY_EXCHANGE"
           THEN /\ main' = [main EXCEPT ![e] = "open"]
                /\ key' = [key EXCEPT ![e] = DeriveKey(EphemeralKey(e), f.public)]
                /\ tasks' = [tasks EXCEPT ![e] = Task]
           ELSE /\ main' = [main EXCEPT ![e] = "done"]
                /\ UNCHANGED <<key, tasks>>
        /\ wire' = [wire EXCEPT ![Server(c)] = Tail(@)]
        /\ UNCHANGED <<clientPsk, cut, chan, writeCounter, readCounter, sent, got>>

\* The connection ends while an endpoint waits for the other's first message.
HandshakeFails(e) ==
    /\ main[e] = "hello"
    /\ Broken(e[2])
    /\ main' = [main EXCEPT ![e] = "done"]
    /\ UNCHANGED <<clientPsk, cut, key, tasks, chan, wire, writeCounter,
                   readCounter, sent, got>>

-----------------------------------------------------------------------------
(* The spawned tasks.                                                      *)

\* The channel accepts frames while its receiver, which the writer owns, lives.
ChannelOpen(e) == "writer" \in tasks[e]

\* tun_reader takes a packet from the TUN device, seals it under the next
\* counter and queues it; a closed channel makes it end, the number used up.
\* (tunnel::encode cannot fail here: see TunPacketFits.)
ReadTun(e, p) ==
    /\ "reader" \in tasks[e]
    /\ Len(sent[e]) < MaxSent[e[1]]
    /\ ChannelOpen(e) => Len(chan[e]) < MaxChan
    /\ writeCounter' = [writeCounter EXCEPT ![e] = @ + 1]
    /\ sent' = [sent EXCEPT ![e] = Append(@, p)]
    /\ IF ChannelOpen(e)
       THEN /\ chan' = [chan EXCEPT
                           ![e] = Append(@, DataFrame(key[e], writeCounter[e], p))]
            /\ UNCHANGED tasks
       ELSE /\ tasks' = [tasks EXCEPT ![e] = @ \ {"reader"}]
            /\ UNCHANGED chan
    /\ UNCHANGED <<clientPsk, cut, main, key, wire, readCounter, got>>

\* An error of the TUN device ends tun_reader, and nothing else.
TunReadError(e) ==
    /\ "reader" \in tasks[e]
    /\ tasks' = [tasks EXCEPT ![e] = @ \ {"reader"}]
    /\ UNCHANGED <<clientPsk, cut, main, key, chan, wire, writeCounter,
                   readCounter, sent, got>>

\* The keepalive timer ticks.
KeepaliveTick(e) ==
    /\ "keepalive" \in tasks[e]
    /\ IF ChannelOpen(e)
       THEN /\ Len(chan[e]) < MaxChan
            /\ chan' = [chan EXCEPT ![e] = Append(@, KeepaliveFrame)]
            /\ UNCHANGED tasks
       ELSE /\ tasks' = [tasks EXCEPT ![e] = @ \ {"keepalive"}]
            /\ UNCHANGED chan
    /\ UNCHANGED <<clientPsk, cut, main, key, wire, writeCounter, readCounter,
                   sent, got>>

\* tun_writer moves a frame from the channel to the WebSocket.  On a broken
\* connection the send may still succeed, into a buffer nobody will read.
WriteFrame(e) ==
    /\ "writer" \in tasks[e]
    /\ chan[e] # <<>>
    /\ chan' = [chan EXCEPT ![e] = Tail(@)]
    /\ IF Broken(e[2])
       THEN UNCHANGED wire
       ELSE /\ Len(wire[e]) < WireCap
            /\ wire' = [wire EXCEPT ![e] = Append(@, Head(chan[e]))]
    /\ UNCHANGED <<clientPsk, cut, main, key, tasks, writeCounter, readCounter,
                   sent, got>>

\* A failed send ends tun_writer, and with it the channel and what it holds.
WriteFails(e) ==
    /\ "writer" \in tasks[e]
    /\ chan[e] # <<>>
    /\ Broken(e[2])
    /\ tasks' = [tasks EXCEPT ![e] = @ \ {"writer"}]
    /\ chan' = [chan EXCEPT ![e] = <<>>]
    /\ UNCHANGED <<clientPsk, cut, main, key, wire, writeCounter, readCounter,
                   sent, got>>

\* The tasks the main task aborts when it leaves its loop.  (Mutant: not all.)
AbortedButReader == {"keepalive", "writer"}
Aborted == {"reader", "keepalive", "writer"}

\* An aborted task stops, at its next await and not before.
StopTask(e, t) ==
    /\ main[e] = "done"
    /\ t \in tasks[e] \cap Aborted
    /\ tasks' = [tasks EXCEPT ![e] = @ \ {t}]
    /\ chan' = IF t = "writer" THEN [chan EXCEPT ![e] = <<>>] ELSE chan
    /\ UNCHANGED <<clientPsk, cut, main, key, wire, writeCounter, readCounter,
                   sent, got>>

-----------------------------------------------------------------------------
(* The main task, and the world.                                           *)

\* A data frame that opened goes to the TUN device and moves read_counter on.
\* (Mutants: the counter is forgotten; the packet is written again.)
DeliverUncounted(e, f) == /\ got' = [got EXCEPT ![e] = Append(@, f.sealed.packet)]
                          /\ UNCHANGED readCounter
DeliverTwice(e, f) ==
    /\ got' = [got EXCEPT ![e] = @ \o <<f.sealed.packet, f.sealed.packet>>]
    /\ readCounter' = [readCounter EXCEPT ![e] = @ + 1]
Deliver(e, f) == /\ got' = [got EXCEPT ![e] = Append(@, f.sealed.packet)]
                 /\ readCounter' = [readCounter EXCEPT ![e] = @ + 1]

\* One message from the WebSocket; what is not a data frame that opens is dropped.
Receive(e) ==
    LET f == Head(wire[Peer(e)])
    IN  /\ main[e] = "open"
        /\ wire[Peer(e)] # <<>>
        /\ wire' = [wire EXCEPT ![Peer(e)] = Tail(@)]
        /\ IF f.type = "DATA" /\ Opens(key[e], readCounter[e], f.sealed)
           THEN Deliver(e, f)
           ELSE UNCHANGED <<got, readCounter>>
        /\ UNCHANGED <<clientPsk, cut, main, key, tasks, chan, writeCounter, sent>>

\* The WebSocket reports its end or an error, perhaps before the last messages
\* are read: the main task leaves its loop and aborts the three others.
MainEnds(e) ==
    /\ main[e] = "open"
    /\ Broken(e[2])
    /\ main' = [main EXCEPT ![e] = "done"]
    /\ UNCHANGED <<clientPsk, cut, key, tasks, chan, wire, writeCounter,
                   readCounter, sent, got>>

\* The network path of a connection fails, without a word to either end.
NetworkFails(c) ==
    /\ c \notin cut
    /\ main[Client(c)] # "idle"
    /\ cut' = cut \cup {c}
    /\ UNCHANGED <<clientPsk, main, key, tasks, chan, wire, writeCounter,
                   readCounter, sent, got>>

\* A process dies, to be started again: its endpoints are gone at once.
Crash(side) ==
    LET live == {e \in Endpoint : /\ e[1] = side
                                  /\ \/ main[e] \in {"hello", "open"}
                                     \/ tasks[e] # {}}
    IN  /\ live # {}
        /\ main' = [e \in Endpoint |-> IF e \in live THEN "done" ELSE main[e]]
        /\ tasks' = [e \in Endpoint |-> IF e \in live THEN {} ELSE tasks[e]]
        /\ chan' = [e \in Endpoint |-> IF e \in live THEN <<>> ELSE chan[e]]
        /\ UNCHANGED <<clientPsk, cut, key, wire, writeCounter, readCounter,
                       sent, got>>

Next ==
    \/ \E c \in Conn : \/ Connect(c)
                       \/ ServerHandshake(c)
                       \/ ClientHandshake(c)
                       \/ NetworkFails(c)
    \/ \E e \in Endpoint : \/ HandshakeFails(e)
                           \/ \E p \in Packet : ReadTun(e, p)
                           \/ TunReadError(e)
                           \/ KeepaliveTick(e)
                           \/ WriteFrame(e)
                           \/ WriteFails(e)
                           \/ \E t \in Task : StopTask(e, t)
                           \/ Receive(e)
                           \/ MainEnds(e)
    \/ \E side \in Side : Crash(side)

Spec == Init /\ [][Next]_vars

(***************************************************************************)
(* Fairness.  The runtime polls a task that is ready, so writers, readers  *)
(* of the WebSocket and aborted tasks make progress.  An open endpoint     *)
(* learns of a broken connection, because its keepalives meet an error or  *)
(* TCP's retransmission limit.  One still in the handshake sends none: it  *)
(* is only sure to learn of it when the network can carry the news.        *)
(* Nothing obliges the client to connect, the TUN device to hold packets,  *)
(* a timer to tick, or anything to fail.                                   *)
(***************************************************************************)
Fairness ==
    /\ \A c \in Conn : /\ WF_vars(ServerHandshake(c))
                       /\ WF_vars(ClientHandshake(c))
    /\ \A e \in Endpoint : /\ WF_vars(HandshakeFails(e) /\ e[2] \notin cut)
                           /\ WF_vars(WriteFrame(e))
                           /\ WF_vars(Receive(e))
                           /\ WF_vars(MainEnds(e))
                           /\ \A t \in Task : WF_vars(StopTask(e, t))

FairSpec == Spec /\ Fairness

-----------------------------------------------------------------------------
(* Properties.                                                             *)

TypeOK ==
    /\ clientPsk \in Psk
    /\ cut \in SUBSET Conn
    /\ main \in [Endpoint -> {"idle", "hello", "open", "done"}]
    /\ key \in [Endpoint -> SUBSET Endpoint]
    /\ tasks \in [Endpoint -> SUBSET Task]
    /\ chan \in [Endpoint -> Seq(Frame)]
    /\ wire \in [Endpoint -> Seq(Frame)]
    /\ writeCounter \in [Endpoint -> Nat]
    /\ readCounter \in [Endpoint -> Nat]
    /\ sent \in [Endpoint -> Seq(Packet)]
    /\ got \in [Endpoint -> Seq(Packet)]

\* Whatever fails and whoever restarts, what a connection has handed to a TUN
\* device is an initial part of what its other end read from its own: nothing
\* is skipped, repeated, reordered, or comes from another connection.
InOrder ==
    \A e \in Endpoint :
        /\ Len(got[e]) <= Len(sent[Peer(e)])
        /\ \A i \in 1..Len(got[e]) : got[e][i] = sent[Peer(e)][i]

\* The two counters never lose step: a data frame reaches the main task with
\* the key and at the counter it expects, so the "decrypt error" branches,
\* which nothing recovers from (read_counter stays behind for good), are dead.
NoDecryptError ==
    \A e \in Endpoint :
        main[e] = "open" /\ wire[Peer(e)] # <<>> =>
            LET f == Head(wire[Peer(e)])
            IN  f.type = "DATA" => Opens(key[e], readCounter[e], f.sealed)

\* A key is shared by the two ends of one connection and no other endpoint, so
\* counters that start again at 0 after a reconnect meet a fresh key.
KeysAgree ==
    \A e, d \in Endpoint :
        key[e] # {} /\ key[d] # {} => (key[e] = key[d] <=> d \in {e, Peer(e)})

\* Every packet a tunnel has numbered is handed over, or the connection breaks.
Delivery ==
    \A e \in Endpoint : \A k \in 1..MaxSent[e[1]] :
        Len(sent[e]) >= k ~> Len(got[Peer(e)]) >= k \/ Broken(e[2])

\* An open end of a broken connection ends and leaves no task behind, so that
\* an old connection stops competing for the TUN device.
Teardown ==
    \A e \in Endpoint :
        main[e] = "open" /\ Broken(e[2]) ~> main[e] = "done" /\ tasks[e] = {}

\* On a working network a handshake ends: opened, refused or dropped.  (Neither
\* side has a timeout for it, so nothing is promised once the network fails.)
HandshakeEnds ==
    \A e \in Endpoint : main[e] = "hello" ~> main[e] # "hello" \/ e[2] \in cut

\* The abstract promise: one flow per sending endpoint, closed when the
\* receiving main task is done.
Pipe == INSTANCE PacketPipe
            WITH Flow <- Endpoint,
                 accepted <- sent,
                 delivered <- [e \in Endpoint |-> got[Peer(e)]],
                 closed <- {e \in Endpoint : main[Peer(e)] = "done"}

PipeSpec == Pipe!Spec
=============================================================================
