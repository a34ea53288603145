-------------------------- MODULE HttpTunnelProofs --------------------------
(* Theorems about the HTTP tunnel, for every value of its constants: every *)
(* step of it is one of the store, of clients HttpStore admits; and the    *)
(* uplink has no gap while the server knows the session.                   *)
EXTENDS HttpTunnel, HttpStoreProofs

-----------------------------------------------------------------------------
(* What the client sends is what HttpStore lets a client send.             *)

\* The frames sealed with key k, or a keepalive.
OwnFrame(k) == {KeepaliveFrame} \cup {DataFrame(k, n, n) : n \in 0..(MaxUp - 1)}

\* What may be on its way to session s when nobody awaits it any more.
Request(s) == ClientFrame(s) \cup {StreamRequest}

Posted(k) == [at : {"way", "accepted", "refused", "hangs"}, frame : OwnFrame(k)]

\* What is queued and awaited belongs to the tunnel's session, which no answer
\* changes; what is awaited no more, to the session it was sealed for.
ConnectionOK ==
    /\ attempt \in 0..MaxAttempt
    /\ answers \in [Public -> SessionId \cup {None}]
    /\ \A a \in Public : /\ answers[a] <= made
                         /\ answers[a] # None => a <= attempt
                         /\ a \in inits => answers[a] = None /\ a <= attempt
    /\ phase = "tunnel" => Session # None
UplinkOK ==
    /\ sealed \in 0..MaxUp
    /\ queue \in Seq(OwnFrame(SharedKey))
    /\ post \in {NoPost} \cup Posted(SharedKey)
    /\ phase # "tunnel" => queue = <<>> /\ post = NoPost
    /\ \A r \in late : r[1] \in 1..made /\ r[2] \in Request(r[1])
ClientOK == ConnectionOK /\ UplinkOK

LEMMA OwnFrameAdmitted ==
    ASSUME ConnectionOK, Session # None
    PROVE  /\ Session \in SessionId
           /\ attempt \in Public
           /\ Session = answers[attempt]
           /\ OwnFrame(SharedKey) \subseteq ClientFrame(Session)
<1>1. attempt \in Public /\ Session \in SessionId /\ Session = answers[attempt]
  <2>1. attempt # 0 /\ MaxAttempt \in Nat
      BY AttemptAssumption DEF Session
  <2>2. attempt \in Public
      BY <2>1, AttemptAssumption DEF ConnectionOK
  <2>3. Session = answers[attempt]
      BY <2>1 DEF Session
  <2> QED
      BY <2>2, <2>3 DEF ConnectionOK
<1>2. SharedKey = DeriveKey(ServerKey(Session), ClientKey(attempt))
    BY DEF SharedKey, DeriveKey
<1>3. ASSUME NEW f \in OwnFrame(SharedKey) PROVE f \in ClientFrame(Session)
    BY <1>1, <1>2 DEF OwnFrame, ClientFrame
<1> QED
    BY <1>1, <1>3

LEMMA ClientInitOK == ASSUME TunnelInit PROVE ClientOK
<1>1. attempt = 0 /\ phase = "idle" /\ inits = {} /\ made = 0
    BY DEF TunnelInit, Init, ClientInit
<1>2. /\ answers \in [Public -> SessionId \cup {None}]
      /\ \A a \in Public : answers[a] = 0
    BY DEF TunnelInit, ClientInit, None
<1>3. ConnectionOK
    BY <1>1, <1>2, AttemptAssumption DEF ConnectionOK, None
<1>4. UplinkOK
    BY <1>1, BoundAssumption DEF UplinkOK, TunnelInit, ClientInit
<1> QED
    BY <1>3, <1>4 DEF ClientOK

\* The server makes sessions and takes none back.
LEMMA MadeGrows == ASSUME TypeOK, [Next]_vars PROVE made \in Nat /\ made' \in Nat /\ made <= made'
<1>1. made \in Nat
    BY Times
<1>2. made' = made \/ made' = made + 1
    BY DEF Next, vars, DoInit, Send, StreamLookup, StreamRegister, StreamLost,
           StreamKeepalive, TunRead, TunReadError, Cleanup, Tick, Restart
<1> QED
    BY <1>1, <1>2

\* Steps that leave the connection alone, or what is on its way up.
LEMMA ConnectionKept ==
    ASSUME TypeOK, ConnectionOK, [Next]_vars, UNCHANGED <<attempt, answers>>,
           inits' \subseteq inits, phase' = "tunnel" => phase = "tunnel"
    PROVE  ConnectionOK' /\ Session' = Session /\ SharedKey' = SharedKey
<1>1. Session' = Session /\ SharedKey' = SharedKey
    BY DEF Session, SharedKey
<1>2. \A a \in Public : answers[a] \in Nat /\ answers[a] <= made'
    BY MadeGrows, BoundAssumption DEF ConnectionOK, SessionId, None
<1> QED
    BY <1>1, <1>2 DEF ConnectionOK

LEMMA LateKept ==
    ASSUME TypeOK, [Next]_vars, NEW r, r[1] \in 1..made, r[2] \in Request(r[1])
    PROVE  r[1] \in 1..made' /\ r[2] \in Request(r[1])
    BY MadeGrows

LEMMA UplinkUnchanged ==
    ASSUME TypeOK, UplinkOK, [Next]_vars, UNCHANGED <<SharedKey, uplink, sealed>>,
           phase' # "tunnel" => phase # "tunnel"
    PROVE  UplinkOK'
<1>1. \A r \in late : r[1] \in 1..made' /\ r[2] \in Request(r[1])
    BY LateKept DEF UplinkOK
<1> QED
    BY <1>1 DEF UplinkOK, uplink

\* A frame more, and a frame less.
LEMMA QueueFacts ==
    ASSUME NEW S, NEW q \in Seq(S)
    PROVE  /\ <<>> \in Seq(S)
           /\ \A f \in S : Append(q, f) \in Seq(S)
           /\ q # <<>> => Head(q) \in S /\ Tail(q) \in Seq(S)
    OBVIOUS

\* What the uplink has when a task has handed frame f to the channel.
LEMMA UplinkEnqueue ==
    ASSUME TypeOK, UplinkOK, NEW t, NEW f \in OwnFrame(SharedKey), Enqueue(t, f),
           UNCHANGED <<vars, SharedKey, post, late>>, phase' = "tunnel", phase = "tunnel",
           sealed' \in 0..MaxUp
    PROVE  UplinkOK'
<1>1. queue' \in Seq(OwnFrame(SharedKey))
    BY QueueFacts DEF Enqueue, UplinkOK
<1> QED
    BY <1>1 DEF UplinkOK, vars

\* Nobody awaits the request any more.
LEMMA LateAbandoned ==
    ASSUME TypeOK, ClientOK, Abandon, [Next]_vars
    PROVE  post' = NoPost /\ \A r \in late' : r[1] \in 1..made' /\ r[2] \in Request(r[1])
<1> SUFFICES ASSUME NEW r \in late', r \notin late
             PROVE  r[1] \in 1..made /\ r[2] \in Request(r[1])
    BY LateKept DEF Abandon, ClientOK, UplinkOK
<1>1. post.at = "way" /\ r = <<Session, post.frame>>
    BY DEF Abandon
<1>2. post \in Posted(SharedKey) /\ phase = "tunnel"
    BY <1>1 DEF ClientOK, UplinkOK, NoPost
<1>3. /\ Session \in 1..MaxSession
      /\ attempt \in Public /\ Session = answers[attempt]
      /\ OwnFrame(SharedKey) \subseteq ClientFrame(Session)
    BY <1>2, OwnFrameAdmitted DEF ClientOK, ConnectionOK, SessionId
<1>4. Session <= made
    BY <1>3 DEF ClientOK, ConnectionOK
<1>5. post.frame \in OwnFrame(SharedKey)
    BY <1>2 DEF Posted
<1>6. made \in Nat /\ MaxSession \in Nat
    BY Times, BoundAssumption
<1> QED
    BY <1>1, <1>3, <1>4, <1>5, <1>6 DEF Request

LEMMA ArrivalOK ==
    ASSUME TypeOK, ClientOK, NEW a \in Public, InitArrives(a)
    PROVE  /\ [Next]_vars
           /\ ClientOK'
           /\ a # attempt => Session' = Session
           /\ phase = "tunnel" => Session' = Session
           /\ made' = made + 1
           /\ a = attempt => Session' = made'
<1>1. DoInit(a, ServerPsk) /\ [Next]_vars
    BY PskAssumption DEF InitArrives, Next
<1>2. made' = made + 1 /\ made \in Nat /\ made' \in SessionId
    BY <1>1, Times, BoundAssumption DEF DoInit, SessionId
<1>3. /\ answers' = [answers EXCEPT ![a] = made + 1]
      /\ answers[a] = None /\ a <= attempt /\ a \in Public /\ a # 0
      /\ inits' = inits \ {a}
      /\ UNCHANGED <<phase, attempt, uplink, sealed>>
    BY AttemptAssumption DEF InitArrives, ClientOK, ConnectionOK
<1>4. /\ a # attempt => Session' = Session
      /\ phase = "tunnel" => Session' = Session /\ a # attempt
      /\ a = attempt => Session' = made'
    BY <1>2, <1>3 DEF ClientOK, ConnectionOK, Session
<1>5. ConnectionOK'
  <2>1. answers' \in [Public -> SessionId \cup {None}]
      BY <1>2, <1>3 DEF ClientOK, ConnectionOK
  <2>2. ASSUME NEW b \in Public
        PROVE  /\ answers'[b] <= made'
               /\ answers'[b] # None => b <= attempt
               /\ b \in inits' => answers'[b] = None /\ b <= attempt
    <3>1. CASE b = a
        BY <1>2, <1>3, <3>1 DEF ClientOK, ConnectionOK
    <3>2. CASE b # a
      <4>1. answers'[b] = answers[b] /\ answers[b] \in Nat
          BY <1>3, <3>2, BoundAssumption DEF ClientOK, ConnectionOK, SessionId, None
      <4> QED
          BY <1>2, <1>3, <3>2, <4>1 DEF ClientOK, ConnectionOK
    <3> QED
        BY <3>1, <3>2
  <2> QED
      BY <1>3, <1>4, <2>1, <2>2 DEF ClientOK, ConnectionOK
<1>6. UplinkOK'
  <2>1. CASE phase = "tunnel"
    <3>1. SharedKey' = SharedKey
        BY <1>3, <1>4, <2>1 DEF SharedKey
    <3> QED
        BY <1>1, <1>3, <3>1, UplinkUnchanged DEF ClientOK
  <2>2. CASE phase # "tunnel"
    <3>1. queue' = <<>> /\ post' = NoPost
        BY <1>3, <2>2 DEF ClientOK, UplinkOK, uplink
    <3>2. \A r \in late' : r[1] \in 1..made' /\ r[2] \in Request(r[1])
        BY <1>1, <1>3, LateKept DEF ClientOK, UplinkOK, uplink
    <3> QED
        BY <1>3, <3>1, <3>2 DEF ClientOK, UplinkOK
  <2> QED
      BY <2>1, <2>2
<1> QED
    BY <1>1, <1>2, <1>4, <1>5, <1>6 DEF ClientOK

\* Every step is one of the store, or none, and keeps what is sent in order.
LEMMA ClientNext ==
    ASSUME TypeOK, ClientOK, [TunnelNext]_<<vars, client>>
    PROVE  [Next]_vars /\ ClientOK'
<1> USE DEF ClientOK
<1>1. CASE Connect
  <2>1. /\ UNCHANGED vars /\ UNCHANGED answers
        /\ attempt' = attempt + 1 /\ inits' = inits \cup {attempt'} /\ attempt' \in Public
        /\ phase = "idle" /\ phase' = "init"
        /\ UNCHANGED <<uplink, sealed>>
      BY <1>1 DEF Connect
  <2>2. UNCHANGED made
      BY <2>1 DEF vars
  <2>3. attempt \in Nat /\ attempt' \in 0..MaxAttempt
      BY <2>1, AttemptAssumption DEF ConnectionOK
  <2>4. ConnectionOK'
      BY <2>1, <2>2, <2>3, AttemptAssumption DEF ConnectionOK
  <2>5. queue' = <<>> /\ post' = NoPost /\ UNCHANGED <<late, sealed>>
      BY <2>1 DEF UplinkOK, uplink
  <2> QED
      BY <2>1, <2>2, <2>4, <2>5 DEF UplinkOK
<1>2. CASE Connected
  <2>1. /\ UNCHANGED <<vars, attempt, answers, inits, queue, post, late>>
        /\ Session # None /\ phase = "init" /\ phase' = "tunnel" /\ sealed' = 0
      BY <1>2 DEF Connected, uplink
  <2>2. UNCHANGED <<made, Session>>
      BY <2>1 DEF vars, Session
  <2>3. queue' = <<>> /\ post' = NoPost
      BY <2>1 DEF UplinkOK
  <2> QED
      BY <2>1, <2>2, <2>3, BoundAssumption DEF ConnectionOK, UplinkOK
<1>3. CASE ConnectFails
  <2>1. /\ UNCHANGED vars /\ [Next]_vars
        /\ UNCHANGED <<attempt, answers, uplink, sealed>>
        /\ inits' \subseteq inits /\ phase = "init" /\ phase' = "idle"
      BY <1>3 DEF ConnectFails
  <2> QED
      BY <2>1, ConnectionKept, UplinkUnchanged
<1>4. ASSUME NEW a \in Public, InitArrives(a) PROVE [Next]_vars /\ ClientOK'
    BY <1>4, ArrivalOK
<1>5. CASE ReadTun
  <2>1. /\ UNCHANGED <<vars, connection, post, late>> /\ [Next]_vars
        /\ Enqueue("tun", Sealed) /\ sealed' = sealed + 1 /\ sealed < MaxUp
        /\ phase = "tunnel"
      BY <1>5 DEF ReadTun, Running
  <2>2. UNCHANGED <<attempt, answers, inits, phase>>
      BY <2>1 DEF connection
  <2>3. ConnectionOK' /\ SharedKey' = SharedKey
      BY <2>1, <2>2, ConnectionKept
  <2>4. sealed' \in 0..MaxUp /\ sealed \in 0..(MaxUp - 1)
      BY <2>1, BoundAssumption DEF UplinkOK
  <2>5. Sealed \in OwnFrame(SharedKey)
      BY <2>4 DEF Sealed, OwnFrame
  <2>6. UplinkOK'
      BY <2>1, <2>2, <2>3, <2>4, <2>5, UplinkEnqueue
  <2> QED
      BY <2>1, <2>3, <2>6
<1>6. CASE KeepaliveTick
  <2>1. /\ UNCHANGED <<vars, connection, post, late, sealed>> /\ [Next]_vars
        /\ Enqueue("keepalive", KeepaliveFrame)
        /\ phase = "tunnel"
      BY <1>6 DEF KeepaliveTick, Running
  <2>2. UNCHANGED <<attempt, answers, inits, phase>>
      BY <2>1 DEF connection
  <2>3. ConnectionOK' /\ SharedKey' = SharedKey
      BY <2>1, <2>2, ConnectionKept
  <2>4. KeepaliveFrame \in OwnFrame(SharedKey) /\ sealed' \in 0..MaxUp
      BY <2>1 DEF OwnFrame, UplinkOK
  <2>5. UplinkOK'
      BY <2>1, <2>2, <2>3, <2>4, UplinkEnqueue
  <2> QED
      BY <2>1, <2>3, <2>5
<1>7. CASE Post
  <2>1. /\ UNCHANGED <<vars, connection, late, sealed>> /\ [Next]_vars
        /\ phase = "tunnel" /\ queue # <<>>
        /\ post' = [at |-> "way", frame |-> Head(queue)]
        /\ queue' = Tail(queue)
      BY <1>7 DEF Post, Running
  <2>2. UNCHANGED <<attempt, answers, inits, phase, made>>
      BY <2>1 DEF connection, vars
  <2>3. ConnectionOK' /\ SharedKey' = SharedKey
      BY <2>1, <2>2, ConnectionKept
  <2>4. Head(queue) \in OwnFrame(SharedKey) /\ Tail(queue) \in Seq(OwnFrame(SharedKey))
      BY <2>1, QueueFacts DEF UplinkOK
  <2>5. post' \in Posted(SharedKey)
      BY <2>1, <2>4 DEF Posted
  <2> QED
      BY <2>1, <2>2, <2>3, <2>4, <2>5 DEF UplinkOK
<1>8. CASE PostArrives
  <2>1. post \in Posted(SharedKey) /\ phase = "tunnel"
      BY <1>8 DEF PostArrives, UplinkOK, NoPost
  <2>2. post.frame \in ClientFrame(Session) /\ Session \in SessionId
      BY <2>1, OwnFrameAdmitted DEF Posted, ConnectionOK
  <2>3. [Next]_vars
      BY <1>8, <2>2 DEF PostArrives, Next
  <2>4. /\ UNCHANGED <<connection, queue, late, sealed>>
        /\ \/ post' = [post EXCEPT !.at = "accepted"]
           \/ post' = [post EXCEPT !.at = "refused"]
      BY <1>8 DEF PostArrives
  <2>5. UNCHANGED <<attempt, answers, inits, phase>>
      BY <2>4 DEF connection
  <2>6. ConnectionOK' /\ SharedKey' = SharedKey
      BY <2>3, <2>5, ConnectionKept
  <2>7. post' \in Posted(SharedKey)
      BY <2>1, <2>4 DEF Posted
  <2>8. \A r \in late' : r[1] \in 1..made' /\ r[2] \in Request(r[1])
      BY <2>3, <2>4, LateKept DEF UplinkOK
  <2> QED
      BY <2>1, <2>3, <2>4, <2>5, <2>6, <2>7, <2>8 DEF UplinkOK
<1>9. CASE PostAccepted \/ PostHangs
  <2>1. /\ UNCHANGED <<vars, connection, queue, late, sealed>> /\ [Next]_vars
        /\ post.at \in {"accepted", "refused"}
        /\ post' = NoPost \/ post' = [post EXCEPT !.at = "hangs"]
      BY <1>9 DEF PostAccepted, PostHangs
  <2>2. UNCHANGED <<attempt, answers, inits, phase, made>>
      BY <2>1 DEF connection, vars
  <2>3. ConnectionOK' /\ SharedKey' = SharedKey
      BY <2>1, <2>2, ConnectionKept
  <2>4. post \in Posted(SharedKey) /\ phase = "tunnel"
      BY <2>1 DEF UplinkOK, NoPost
  <2>5. post' \in {NoPost} \cup Posted(SharedKey)
      BY <2>1, <2>4 DEF Posted
  <2> QED
      BY <2>1, <2>2, <2>3, <2>4, <2>5 DEF UplinkOK
<1>10. CASE PostFails
  <2>1. /\ UNCHANGED <<vars, connection, sealed>> /\ [Next]_vars
        /\ Abandon /\ queue' = <<>>
      BY <1>10 DEF PostFails, SendEnds
  <2>2. UNCHANGED <<attempt, answers, inits, phase>>
      BY <2>1 DEF connection
  <2>3. ConnectionOK'
      BY <2>1, <2>2, ConnectionKept
  <2>4. post' = NoPost /\ \A r \in late' : r[1] \in 1..made' /\ r[2] \in Request(r[1])
      BY <2>1, LateAbandoned
  <2> QED
      BY <2>1, <2>3, <2>4 DEF UplinkOK
<1>11. ASSUME NEW r \in late, LateArrives(r) PROVE [Next]_vars /\ ClientOK'
  <2>1. r[1] \in SessionId /\ (r[2] # StreamRequest => r[2] \in ClientFrame(r[1]))
    <3>1. made \in 0..MaxSession /\ MaxSession \in Nat
        BY BoundAssumption DEF TypeOK, SessionId
    <3> QED
        BY <3>1 DEF UplinkOK, SessionId, Request
  <2>2. [Next]_vars
      BY <1>11, <2>1 DEF LateArrives, Next
  <2>3. UNCHANGED <<connection, queue, post, sealed>> /\ late' \subseteq late
      BY <1>11 DEF LateArrives
  <2>4. UNCHANGED <<attempt, answers, inits, phase>>
      BY <2>3 DEF connection
  <2>5. ConnectionOK' /\ SharedKey' = SharedKey
      BY <2>2, <2>4, ConnectionKept
  <2>6. \A l \in late' : l[1] \in 1..made' /\ l[2] \in Request(l[1])
      BY <2>2, <2>3, LateKept DEF UplinkOK
  <2> QED
      BY <2>2, <2>3, <2>4, <2>5, <2>6 DEF UplinkOK
<1>12. ASSUME NEW st \in Stream, OpenStream(st) PROVE [Next]_vars /\ ClientOK'
  <2>1. Session \in SessionId
      BY <1>12, OwnFrameAdmitted DEF OpenStream, Running, ConnectionOK
  <2>2. [Next]_vars /\ UNCHANGED <<connection, uplink, sealed>>
      BY <1>12, <2>1 DEF OpenStream, Next
  <2>3. UNCHANGED <<attempt, answers, inits, phase>>
      BY <2>2 DEF connection
  <2> QED
      BY <2>2, <2>3, ConnectionKept, UplinkUnchanged
<1>13. CASE FirstFrame \/ StreamFails \/ StreamEnds \/ ReadTunError
  <2>1. UNCHANGED <<vars, connection, uplink, sealed>> /\ [Next]_vars
      BY <1>13 DEF FirstFrame, StreamFails, StreamEnds, ReadTunError
  <2>2. UNCHANGED <<attempt, answers, inits, phase>>
      BY <2>1 DEF connection
  <2> QED
      BY <2>1, <2>2, ConnectionKept, UplinkUnchanged
<1>16. CASE OpenInVain
  <2>1. /\ UNCHANGED <<vars, connection, queue, post, sealed>> /\ [Next]_vars
        /\ late' = late \cup {<<Session, StreamRequest>>} /\ phase = "tunnel"
      BY <1>16 DEF OpenInVain, Running
  <2>2. UNCHANGED <<attempt, answers, inits, phase, made>>
      BY <2>1 DEF connection, vars
  <2>3. ConnectionOK' /\ SharedKey' = SharedKey
      BY <2>1, <2>2, ConnectionKept
  <2>4. Session \in 1..made
    <3>1. Session \in 1..MaxSession /\ Session <= made
        BY <2>1, OwnFrameAdmitted DEF ConnectionOK, SessionId
    <3> QED
        BY <3>1, Times, BoundAssumption
  <2>5. \A r \in late' : r[1] \in 1..made' /\ r[2] \in Request(r[1])
      BY <2>1, <2>2, <2>4 DEF UplinkOK, Request
  <2> QED
      BY <2>1, <2>2, <2>3, <2>5 DEF UplinkOK
<1>14. CASE TunnelEnds \/ ClientCrash
  <2>1. /\ UNCHANGED <<vars, attempt, answers, inits, sealed>> /\ [Next]_vars
        /\ phase' = "idle" /\ queue' = <<>> /\ Abandon
      BY <1>14 DEF TunnelEnds, ClientCrash, Leave
  <2>2. ConnectionOK'
      BY <2>1, ConnectionKept
  <2>3. post' = NoPost /\ \A r \in late' : r[1] \in 1..made' /\ r[2] \in Request(r[1])
      BY <2>1, LateAbandoned
  <2> QED
      BY <2>1, <2>2, <2>3 DEF UplinkOK
<1>15. CASE ClientTick \/ ServerStep \/ UNCHANGED <<vars, client>>
  <2>1. [Next]_vars /\ UNCHANGED client
      BY <1>15 DEF ClientTick, ServerStep, Next
  <2>2. UNCHANGED <<attempt, answers, inits, phase, uplink, sealed>>
      BY <2>1 DEF client, connection
  <2> QED
      BY <2>1, <2>2, ConnectionKept, UplinkUnchanged
<1> QED
    BY <1>1, <1>2, <1>3, <1>4, <1>5, <1>6, <1>7, <1>8, <1>9, <1>10, <1>11, <1>12, <1>13,
       <1>14, <1>15, <1>16 DEF TunnelNext

LEMMA ClientInvariance == TunnelSpec => [](TypeOK /\ ClientOK)
<1>1. TunnelInit => TypeOK /\ ClientOK
    BY TypeInit, ClientInitOK DEF TunnelInit
<1>2. TypeOK /\ ClientOK /\ [TunnelNext]_<<vars, client>> => (TypeOK /\ ClientOK)'
    BY ClientNext, TypeNext
<1> QED
    BY <1>1, <1>2, PTL DEF TunnelSpec

\* The tunnel implements the store: to the server this client, its retries, its
\* crashes and the network in between are among what the store allows for.
THEOREM Implementation == TunnelSpec => StoreSpec
<1>1. TunnelInit => Init
    BY DEF TunnelInit
<1>2. TypeOK /\ ClientOK /\ [TunnelNext]_<<vars, client>> => [Next]_vars
    BY ClientNext
<1> QED
    BY <1>1, <1>2, ClientInvariance, PTL DEF TunnelSpec, StoreSpec, Spec

\* So what holds of the store holds of the tunnel.
COROLLARY StoreOfTunnel ==
    TunnelSpec => [](/\ NonceOnce /\ UplinkInOrder /\ StreamContiguous
                     /\ ActiveKept /\ StaleEvicted)
    BY Implementation, NonceOnceCorrect, UplinkInOrderCorrect, StreamContiguousCorrect,
       ActiveKeptCorrect, StaleEvictedCorrect, PTL DEF StoreSpec

-----------------------------------------------------------------------------
(* The uplink has no gap.                                                  *)

\* NothingLost says of the request p awaited and the queue q that they hold the
\* packets from due up to, not including, upto.
FrameIn(p, q, i) == IF i = 0 THEN p.frame ELSE q[i]
DataIn(p, q) == {i \in 0..Len(q) : (i = 0 => p.at = "way") /\ IsData(FrameIn(p, q, i))}
PacketIn(p, q, i) == FrameIn(p, q, i).sealed.packet
Accounted(due, upto, p, q) ==
    /\ \A i \in DataIn(p, q) : PacketIn(p, q, i) \in due..(upto - 1)
    /\ \A n \in due..(upto - 1) : \E i \in DataIn(p, q) : PacketIn(p, q, i) = n
    /\ \A i, j \in DataIn(p, q) : i < j => PacketIn(p, q, i) < PacketIn(p, q, j)

LEMMA NothingLostMeans ==
    NothingLost <=>
        (Running("send") /\ Session \in Live =>
             Accounted(Len(toTun[Session]), sealed, post, queue))
<1>1. ASSUME NEW i PROVE FrameAt(i) = FrameIn(post, queue, i)
    BY DEF FrameAt, FrameIn
<1>2. {i \in Waiting : IsData(FrameAt(i))} = DataIn(post, queue)
    BY <1>1 DEF Waiting, DataIn
<1> QED
    BY <1>1, <1>2 DEF NothingLost, Accounted, PacketIn

\* The frames of the tunnel's own session: a packet is sealed under its number.
LEMMA OwnFrameFacts ==
    ASSUME NEW k, NEW f \in OwnFrame(k)
    PROVE  IsData(f) => /\ f.sealed.key = k
                        /\ f.sealed.packet \in Nat
                        /\ f.sealed.counter = f.sealed.packet
    BY DEF OwnFrame, IsData, KeepaliveFrame, DataFrame, Encrypt

LEMMA AccountedNone == ASSUME NEW p, p.at # "way" PROVE Accounted(0, 0, p, <<>>)
<1>1. DataIn(p, <<>>) = {}
    BY DEF DataIn
<1> QED
    BY <1>1 DEF Accounted

\* A frame is put in the queue.
LEMMA AccountedAppend ==
    ASSUME NEW S, NEW q \in Seq(S), NEW p, NEW f \in S,
           NEW due \in Nat, NEW upto \in Nat, NEW next \in Nat, due <= upto,
           Accounted(due, upto, p, q),
           \/ ~IsData(f) /\ next = upto
           \/ IsData(f) /\ f.sealed.packet = upto /\ next = upto + 1
    PROVE  Accounted(due, next, p, Append(q, f))
<1> DEFINE l == Len(q) + 1
           r == Append(q, f)
<1>1. Len(r) = l /\ l \in Nat /\ l > 0
    OBVIOUS
<1>2. FrameIn(p, r, l) = f /\ \A i \in 0..Len(q) : FrameIn(p, r, i) = FrameIn(p, q, i)
    BY DEF FrameIn
<1>3. DataIn(p, r) = IF IsData(f) THEN DataIn(p, q) \cup {l} ELSE DataIn(p, q)
  <2>1. 0..l = (0..Len(q)) \cup {l}
      BY <1>1
  <2> QED
      BY <1>1, <1>2, <2>1 DEF DataIn
<1>4. \A i \in DataIn(p, q) : i \in 0..Len(q) /\ i < l /\ PacketIn(p, r, i) = PacketIn(p, q, i)
    BY <1>1, <1>2 DEF DataIn, PacketIn
<1>5. CASE ~IsData(f)
    BY <1>3, <1>4, <1>5 DEF Accounted
<1>6. CASE IsData(f)
  <2>1. PacketIn(p, r, l) = upto /\ next = upto + 1
      BY <1>2, <1>6 DEF PacketIn
  <2>2. \A i \in DataIn(p, r) : PacketIn(p, r, i) \in due..(next - 1)
      BY <1>3, <1>4, <1>6, <2>1 DEF Accounted
  <2>3. ASSUME NEW n \in due..(next - 1) PROVE \E i \in DataIn(p, r) : PacketIn(p, r, i) = n
    <3>1. CASE n = upto
        BY <1>3, <1>6, <2>1, <3>1
    <3>2. CASE n # upto
      <4>1. n \in due..(upto - 1)
          BY <2>1, <3>2
      <4> QED
          BY <1>3, <1>4, <1>6, <4>1 DEF Accounted
    <3> QED
        BY <3>1, <3>2
  <2>4. ASSUME NEW i \in DataIn(p, r), NEW j \in DataIn(p, r), i < j
        PROVE  PacketIn(p, r, i) < PacketIn(p, r, j)
    <3>1. i \in DataIn(p, q)
        BY <1>1, <1>3, <1>4, <1>6, <2>4
    <3>2. CASE j = l
        BY <1>4, <2>1, <3>1, <3>2 DEF Accounted
    <3>3. CASE j # l
        BY <1>3, <1>4, <1>6, <2>4, <3>1, <3>3 DEF Accounted
    <3> QED
        BY <3>2, <3>3
  <2> QED
      BY <2>2, <2>3, <2>4 DEF Accounted
<1> QED
    BY <1>5, <1>6

\* The first frame of the queue becomes the request that is awaited.
LEMMA AccountedPost ==
    ASSUME NEW S, NEW q \in Seq(S), q # <<>>, NEW p, p.at # "way",
           NEW r, r.at = "way", r.frame = Head(q),
           NEW due \in Nat, NEW upto \in Nat, Accounted(due, upto, p, q)
    PROVE  Accounted(due, upto, r, Tail(q))
<1> DEFINE t == Tail(q)
<1>1. Len(t) = Len(q) - 1 /\ Len(q) \in Nat /\ Len(q) > 0
    OBVIOUS
<1>2. ASSUME NEW i \in 0..Len(t) PROVE FrameIn(r, t, i) = FrameIn(p, q, i + 1)
    BY <1>1 DEF FrameIn
<1>3. ASSUME NEW i \in 0..Len(t) PROVE i \in DataIn(r, t) <=> i + 1 \in DataIn(p, q)
    BY <1>1, <1>2 DEF DataIn
<1>4. \A i \in DataIn(r, t) : /\ i \in 0..Len(t) /\ i + 1 \in DataIn(p, q)
                              /\ PacketIn(r, t, i) = PacketIn(p, q, i + 1)
    BY <1>2, <1>3 DEF DataIn, PacketIn
<1>5. ASSUME NEW j \in DataIn(p, q)
      PROVE  j - 1 \in DataIn(r, t) /\ PacketIn(r, t, j - 1) = PacketIn(p, q, j)
  <2>1. j \in 1..Len(q)
      BY DEF DataIn
  <2>2. j - 1 \in 0..Len(t) /\ (j - 1) + 1 = j
      BY <1>1, <2>1
  <2> QED
      BY <1>3, <1>4, <2>2
<1>6. \A i \in DataIn(r, t) : PacketIn(r, t, i) \in due..(upto - 1)
    BY <1>4 DEF Accounted
<1>7. \A n \in due..(upto - 1) : \E i \in DataIn(r, t) : PacketIn(r, t, i) = n
    BY <1>5 DEF Accounted
<1>8. ASSUME NEW i \in DataIn(r, t), NEW j \in DataIn(r, t), i < j
      PROVE  PacketIn(r, t, i) < PacketIn(r, t, j)
  <2>1. i + 1 < j + 1
      BY <1>4, <1>8
  <2> QED
      BY <1>4, <2>1 DEF Accounted
<1> QED
    BY <1>6, <1>7, <1>8 DEF Accounted

\* The awaited request has arrived: if it had a packet, that is the one due.
LEMMA AccountedArrived ==
    ASSUME NEW S, NEW q \in Seq(S), NEW p, p.at = "way", NEW r, r.at # "way",
           NEW due \in Nat, NEW upto \in Nat, Accounted(due, upto, p, q)
    PROVE  /\ ~IsData(p.frame) => Accounted(due, upto, r, q)
           /\ IsData(p.frame) => /\ p.frame.sealed.packet = due
                                 /\ due + 1 <= upto
                                 /\ Accounted(due + 1, upto, r, q)
<1>1. DataIn(r, q) = DataIn(p, q) \ {0}
    BY DEF DataIn, FrameIn
<1>2. \A i \in DataIn(r, q) : i \in Nat /\ i > 0 /\ PacketIn(r, q, i) = PacketIn(p, q, i)
    BY DEF DataIn, FrameIn, PacketIn
<1>3. CASE ~IsData(p.frame)
  <2>1. 0 \notin DataIn(p, q)
      BY <1>3 DEF DataIn, FrameIn
  <2> QED
      BY <1>1, <1>2, <1>3, <2>1 DEF Accounted
<1>4. CASE IsData(p.frame)
  <2>1. 0 \in DataIn(p, q) /\ PacketIn(p, q, 0) = p.frame.sealed.packet
      BY <1>4 DEF DataIn, FrameIn, PacketIn
  <2>2. PacketIn(p, q, 0) \in due..(upto - 1)
      BY <2>1 DEF Accounted
  <2>3. PICK i \in DataIn(p, q) : PacketIn(p, q, i) = due
      BY <2>2 DEF Accounted
  <2>4. \A j \in DataIn(r, q) : PacketIn(p, q, 0) < PacketIn(p, q, j)
      BY <1>1, <1>2, <2>1 DEF Accounted
  <2>5. PacketIn(p, q, 0) = due
      BY <1>1, <2>2, <2>3, <2>4
  <2>6. \A j \in DataIn(r, q) : PacketIn(r, q, j) \in (due + 1)..(upto - 1)
      BY <1>1, <1>2, <2>4, <2>5 DEF Accounted
  <2>7. ASSUME NEW n \in (due + 1)..(upto - 1) PROVE \E j \in DataIn(r, q) : PacketIn(r, q, j) = n
    <3>1. PICK j \in DataIn(p, q) : PacketIn(p, q, j) = n
        BY DEF Accounted
    <3>2. j # 0
        BY <2>5, <3>1
    <3> QED
        BY <1>1, <1>2, <3>1, <3>2
  <2>8. \A j1, j2 \in DataIn(r, q) : j1 < j2 => PacketIn(r, q, j1) < PacketIn(r, q, j2)
      BY <1>1, <1>2 DEF Accounted
  <2> QED
      BY <1>4, <2>1, <2>2, <2>5, <2>6, <2>7, <2>8 DEF Accounted
<1> QED
    BY <1>3, <1>4

\* An arrived request is none that waits, whatever becomes of it.
LEMMA AccountedAnswered ==
    ASSUME NEW p, p.at # "way", NEW r, r.at # "way", NEW q, NEW due, NEW upto,
           Accounted(due, upto, p, q)
    PROVE  Accounted(due, upto, r, q)
<1>1. DataIn(r, q) = DataIn(p, q)
    BY DEF DataIn, FrameIn
<1>2. \A i \in DataIn(r, q) : PacketIn(r, q, i) = PacketIn(p, q, i)
    BY DEF DataIn, FrameIn, PacketIn
<1> QED
    BY <1>1, <1>2 DEF Accounted

\* The session has the client's key, and nothing but the tunnel's own frames
\* comes to it.  (NothingLost alone would not tell what a late request does.)
SessionInv ==
    /\ Session \in Live => sessions[Session].key = SharedKey
    /\ phase = "init" /\ Session # None => Len(toTun[Session]) = 0
    /\ phase = "init" \/ Running("send") =>
          \A r \in late : r[1] = Session => r[2] = StreamRequest

\* NothingLost, and the server is not ahead of the client.
FlowInv ==
    Running("send") /\ Session \in Live =>
        /\ Len(toTun[Session]) <= sealed
        /\ Accounted(Len(toTun[Session]), sealed, post, queue)

LostInv == SessionInv /\ FlowInv

LEMMA LostInit == ASSUME TunnelInit PROVE LostInv
<1>1. attempt = 0 /\ phase = "idle" /\ Live = {}
    BY DEF TunnelInit, Init, ClientInit, Live
<1> QED
    BY <1>1 DEF LostInv, SessionInv, FlowInv, Running

\* A session that has been made keeps its key and does not come back.
LEMMA KeyKept ==
    ASSUME TypeOK, [Next]_vars, NEW s \in 1..made, s \in Live'
    PROVE  s \in Live /\ sessions'[s].key = sessions[s].key
<1>1. ASSUME NEW pub \in Public, NEW psk \in Psk, DoInit(pub, psk)
      PROVE  s \in Live /\ sessions'[s] = sessions[s]
  <2>1. Live' = Live \cup {made + 1} /\ made \in Nat /\ s # made + 1
      BY <1>1, Times DEF DoInit, Live
  <2>2. s \in Live
      BY <2>1
  <2> QED
      BY <1>1, <2>1, <2>2 DEF DoInit
<1>2. ASSUME NEW r \in SessionId, NEW f \in ClientFrame(r), Send(r, f)
      PROVE  s \in Live /\ sessions'[s].key = sessions[s].key
  <2>1. /\ Live' = Live
        /\ s # r => sessions'[s] = sessions[s]
        /\ r \in Live
        /\ \/ sessions'[r] = Accepted(Seen(sessions[r]))
           \/ sessions'[r] = Seen(sessions[r])
      BY <1>2 DEF Send, Live
  <2>2. Seen(sessions[r]) \in HttpSession /\ Seen(sessions[r]).key = sessions[r].key
      BY <2>1, SessionFacts, Times DEF Seen, TypeOK
  <2>3. Accepted(Seen(sessions[r])).key = sessions[r].key
      BY <2>2 DEF Accepted, HttpSession
  <2> QED
      BY <2>1, <2>2, <2>3
<1>3. ASSUME NEW r \in SessionId, NEW st \in Stream, StreamLookup(r, st)
      PROVE  s \in Live /\ sessions'[s].key = sessions[s].key
  <2>1. /\ Live' = Live
        /\ s # r => sessions'[s] = sessions[s]
        /\ r \in Live
        /\ sessions'[r] = Seen(sessions[r])
      BY <1>3 DEF StreamLookup, Live
  <2>2. Seen(sessions[r]).key = sessions[r].key
      BY <2>1, SessionFacts, Times DEF Seen, TypeOK
  <2> QED
      BY <2>1, <2>2
<1>4. ASSUME NEW st \in Stream, StreamRegister(st)
      PROVE  s \in Live /\ sessions'[s].key = sessions[s].key
  <2>1. /\ Live' = Live
        /\ s \in Live => sessions'[s] = Registered(sessions[s], st) \/ sessions'[s] = sessions[s]
      BY <1>4 DEF StreamRegister, Live
  <2>2. s \in Live => Registered(sessions[s], st).key = sessions[s].key
      BY DEF Registered, HttpSession, TypeOK
  <2> QED
      BY <2>1, <2>2
<1>5. ASSUME TunRead PROVE s \in Live /\ sessions'[s].key = sessions[s].key
  <2>1. /\ Live' = Live
        /\ s \in Live => \/ sessions'[s] = [sessions[s] EXCEPT !.writeCounter = @ + 1]
                         \/ sessions'[s] = sessions[s]
      BY <1>5 DEF TunRead, Live
  <2>2. s \in Live => [sessions[s] EXCEPT !.writeCounter = @ + 1].key = sessions[s].key
      BY DEF HttpSession, TypeOK
  <2> QED
      BY <2>1, <2>2
<1>6. ASSUME Cleanup PROVE s \in Live /\ sessions'[s] = sessions[s]
    BY <1>6 DEF Cleanup, Live
<1>7. ASSUME Restart PROVE s \in Live
    BY <1>7 DEF Restart, Live
<1>8. ASSUME sessions' = sessions PROVE s \in Live /\ sessions'[s] = sessions[s]
    BY <1>8 DEF Live
<1>9. Restart => Live' = {}
    BY DEF Restart, Live
<1> QED
    BY <1>1, <1>2, <1>3, <1>4, <1>5, <1>6, <1>7, <1>8, <1>9
       DEF Next, vars, StreamLost, StreamKeepalive, TunReadError, Tick

\* The session of the connection is one that has been made, or none.
LEMMA SessionMade ==
    ASSUME TypeOK, ClientOK
    PROVE  /\ Session = None \/ Session \in 1..made
           /\ Session \in Live => Session \in 1..made
           /\ None \notin Live /\ None \notin 1..made
<1>1. None \notin 1..made /\ Live \subseteq 1..made /\ made \in Nat
    BY Times DEF None
<1>2. ASSUME Session # None PROVE Session \in 1..made
  <2>1. Session \in SessionId /\ attempt \in Public /\ Session = answers[attempt]
      BY <1>2, OwnFrameAdmitted DEF ClientOK
  <2>2. Session \in Nat /\ Session >= 1 /\ Session <= made
      BY <2>1, BoundAssumption DEF ClientOK, ConnectionOK, SessionId
  <2> QED
      BY <1>1, <2>2
<1> QED
    BY <1>1, <1>2

\* Steps of the same connection that do not disturb its session.
LEMMA SessionKept ==
    ASSUME TypeOK, ClientOK, LostInv, [Next]_vars,
           UNCHANGED <<Session, SharedKey>>,
           phase' = "init" => /\ phase = "init"
                              /\ Session # None => toTun'[Session] = toTun[Session],
           Running("send")' => phase = "init" \/ Running("send"),
           phase' = "init" \/ Running("send")' =>
               \A r \in late' : r[2] # StreamRequest => r \in late
    PROVE  SessionInv'
<1>1. Session \in Live' => sessions'[Session].key = SharedKey
  <2>1. TypeOK'
      BY TypeNext
  <2>2. None \notin Live'
      BY <2>1 DEF TypeOK, None
  <2> QED
      BY <2>2, SessionMade, KeyKept DEF LostInv, SessionInv
<1> QED
    BY <1>1 DEF LostInv, SessionInv

LEMMA FlowKept ==
    ASSUME TypeOK, ClientOK, LostInv, [Next]_vars,
           Running("send")' => /\ Running("send")
                               /\ UNCHANGED <<Session, queue, post, sealed>>
                               /\ toTun'[Session] = toTun[Session]
    PROVE  FlowInv'
<1> SUFFICES ASSUME Running("send")', Session' \in Live'
             PROVE  /\ Len(toTun'[Session']) <= sealed'
                    /\ Accounted(Len(toTun'[Session']), sealed', post', queue')
    BY DEF FlowInv
<1>1. Session \in Live
  <2>1. TypeOK'
      BY TypeNext
  <2>2. None \notin Live'
      BY <2>1 DEF TypeOK, None
  <2> QED
      BY <2>2, SessionMade, KeyKept
<1> QED
    BY <1>1 DEF LostInv, FlowInv

\* A task of the tunnel hands frame f to the channel.
LEMMA FlowEnqueue ==
    ASSUME TypeOK, ClientOK, LostInv, NEW t, NEW f \in OwnFrame(SharedKey), Enqueue(t, f),
           UNCHANGED <<vars, phase, Session, post>>,
           \/ ~IsData(f) /\ sealed' = sealed
           \/ IsData(f) /\ f.sealed.packet = sealed /\ sealed' = sealed + 1
    PROVE  FlowInv'
<1> SUFFICES ASSUME Running("send")', Session \in Live
             PROVE  /\ Len(toTun[Session]) <= sealed'
                    /\ Accounted(Len(toTun[Session]), sealed', post, queue')
    BY DEF FlowInv, vars, Live
<1>1. Running("send") /\ queue' = Append(queue, f)
    BY DEF Running, Enqueue
<1>2. sealed \in Nat /\ sealed' \in Nat /\ queue \in Seq(OwnFrame(SharedKey))
    BY BoundAssumption DEF ClientOK, UplinkOK
<1>3. Len(toTun[Session]) \in Nat
  <2>1. Session \in SessionId
      BY SessionMade, Times
  <2>2. toTun[Session] \in Seq(Nat)
      BY <2>1 DEF TypeOK
  <2> QED
      BY <2>2
<1>4. Len(toTun[Session]) <= sealed /\ Accounted(Len(toTun[Session]), sealed, post, queue)
    BY <1>1 DEF LostInv, FlowInv
<1> QED
    BY <1>1, <1>2, <1>3, <1>4, AccountedAppend

LEMMA Sent ==
    ASSUME TypeOK, NEW s \in SessionId, NEW f, Send(s, f)
    PROVE  /\ s \in Live
           /\ \A r \in SessionId : r # s => toTun'[r] = toTun[r]
           /\ LET opens == f.type = "DATA"
                           /\ Opens(sessions[s].key, sessions[s].readCounter, f.sealed)
              IN  toTun'[s] = IF opens THEN Append(toTun[s], f.sealed.packet) ELSE toTun[s]
    BY DEF Send, TypeOK

\* The awaited request reaches the session, which opens the packet in it.
LEMMA FlowArrived ==
    ASSUME TypeOK, ClientOK, UplinkInv, LostInv, post.at = "way", Send(Session, post.frame),
           post' = [post EXCEPT !.at = "accepted"], UNCHANGED <<tasks, phase, Session, queue, sealed>>
    PROVE  FlowInv'
<1> DEFINE f == post.frame
           due == Len(toTun[Session])
<1> SUFFICES ASSUME Running("send")'
             PROVE  /\ Len(toTun'[Session]) <= sealed
                    /\ Accounted(Len(toTun'[Session]), sealed, post', queue)
    BY DEF FlowInv
<1>1. Running("send") /\ Session \in Live
    BY DEF Running, Send
<1>2. Session \in SessionId
    BY <1>1, SessionMade, Times
<1>3. /\ sealed \in Nat /\ queue \in Seq(OwnFrame(SharedKey))
      /\ f \in OwnFrame(SharedKey) /\ post'.at # "way"
  <2>1. post \in Posted(SharedKey)
      BY DEF ClientOK, UplinkOK, NoPost
  <2> QED
      BY <2>1, BoundAssumption DEF ClientOK, UplinkOK, Posted
<1>4. toTun[Session] \in Seq(Nat) /\ due \in Nat
  <2>1. toTun[Session] \in Seq(Nat)
      BY <1>2 DEF TypeOK
  <2> QED
      BY <2>1
<1>5. due <= sealed /\ Accounted(due, sealed, post, queue)
    BY <1>1 DEF LostInv, FlowInv
<1>6. sessions[Session].key = SharedKey /\ sessions[Session].readCounter = due
    BY <1>1 DEF LostInv, SessionInv, UplinkInv
<1>7. CASE ~IsData(f)
  <2>1. toTun'[Session] = toTun[Session]
      BY <1>2, <1>7, Sent DEF IsData
  <2> QED
      BY <1>3, <1>4, <1>5, <1>7, <2>1, AccountedArrived
<1>8. CASE IsData(f)
  <2>1. f.sealed.packet = due /\ due + 1 <= sealed /\ Accounted(due + 1, sealed, post', queue)
      BY <1>3, <1>4, <1>5, <1>8, AccountedArrived
  <2>2. Opens(sessions[Session].key, sessions[Session].readCounter, f.sealed)
      BY <1>3, <1>6, <1>8, <2>1, OwnFrameFacts DEF Opens
  <2>3. toTun'[Session] = Append(toTun[Session], due)
      BY <1>2, <1>8, <2>1, <2>2, Sent DEF IsData
  <2>4. Len(toTun'[Session]) = due + 1
      BY <1>4, <2>3
  <2> QED
      BY <2>1, <2>4
<1> QED
    BY <1>7, <1>8

LEMMA LostNext ==
    ASSUME TypeOK, ClientOK, UplinkInv, LostInv, [TunnelNext]_<<vars, client>>
    PROVE  LostInv'
<1> USE DEF LostInv
<1>0. [Next]_vars
    BY ClientNext
<1>1. CASE Connect
  <2>1. /\ attempt' = attempt + 1 /\ attempt' \in Public /\ attempt \in Nat
        /\ UNCHANGED <<vars, answers, late>> /\ phase' = "init"
      BY <1>1, AttemptAssumption DEF Connect, ClientOK, ConnectionOK, uplink
  <2>2. Session' = None
      BY <2>1, AttemptAssumption DEF Session, ClientOK, ConnectionOK
  <2>3. Live' = Live /\ None \notin Live /\ None \notin 1..made
      BY <2>1, SessionMade DEF vars, Live
  <2> QED
      BY <2>1, <2>2, <2>3 DEF SessionInv, FlowInv, Running, ClientOK, UplinkOK
<1>2. CASE Connected
  <2>1. /\ UNCHANGED <<vars, attempt, answers, queue, post, late>>
        /\ Session # None /\ phase = "init" /\ phase' = "tunnel" /\ sealed' = 0
      BY <1>2 DEF Connected, uplink
  <2>2. UNCHANGED <<Session, SharedKey, toTun, sessions, Live>>
      BY <2>1 DEF vars, Session, SharedKey, Live
  <2>3. Len(toTun[Session]) = 0 /\ queue = <<>> /\ post = NoPost
      BY <2>1 DEF SessionInv, ClientOK, UplinkOK
  <2>4. Accounted(0, 0, post, <<>>)
      BY <2>3, AccountedNone DEF NoPost
  <2> QED
      BY <2>1, <2>2, <2>3, <2>4 DEF SessionInv, FlowInv
<1>3. CASE ConnectFails
  <2>1. UNCHANGED <<vars, attempt, answers>> /\ phase' = "idle"
      BY <1>3 DEF ConnectFails
  <2>2. UNCHANGED <<Session, SharedKey>> /\ ~Running("send")'
      BY <2>1 DEF Session, SharedKey, Running
  <2> QED
      BY <1>0, <2>1, <2>2, SessionKept, FlowKept
<1>4. ASSUME NEW a \in Public, InitArrives(a) PROVE LostInv'
  <2>1. /\ UNCHANGED <<phase, attempt, tasks, queue, post, late, sealed, toTun>>
        /\ DoInit(a, ServerPsk)
      BY <1>4 DEF InitArrives, DoInit, uplink
  <2>2. Running("send")' <=> Running("send")
      BY <2>1 DEF Running
  <2>3. CASE a # attempt \/ phase = "tunnel"
    <3>1. UNCHANGED <<Session, SharedKey>>
        BY <1>4, <2>1, <2>3, ArrivalOK DEF SharedKey
    <3> QED
        BY <1>0, <2>1, <2>2, <3>1, SessionKept, FlowKept
  <2>4. CASE a = attempt /\ phase # "tunnel"
    <3>1. Session' = made + 1 /\ made \in Nat /\ made + 1 \in SessionId
        BY <1>4, <2>1, <2>4, ArrivalOK, Times, BoundAssumption DEF DoInit, SessionId
    <3>2. sessions'[made + 1].key = DeriveKey(ServerKey(made + 1), ClientKey(a))
        BY <2>1 DEF DoInit
    <3>3. SharedKey' = DeriveKey(ServerKey(made + 1), ClientKey(a))
        BY <2>1, <2>4, <3>1 DEF SharedKey, DeriveKey
    <3>4. Len(toTun'[made + 1]) = 0
        BY <2>1, <3>1 DEF UplinkInv
    <3>5. \A r \in late : r[1] # made + 1
        BY <3>1 DEF ClientOK, UplinkOK
    <3> QED
        BY <2>1, <2>4, <3>1, <3>2, <3>3, <3>4, <3>5 DEF SessionInv, FlowInv, Running
  <2> QED
      BY <2>3, <2>4
<1>5. CASE ReadTun
  <2>1. /\ UNCHANGED <<vars, connection, post, late>>
        /\ Enqueue("tun", Sealed) /\ sealed' = sealed + 1 /\ sealed \in 0..(MaxUp - 1)
        /\ tasks' \subseteq tasks
      BY <1>5, BoundAssumption DEF ReadTun, Enqueue, ClientOK, UplinkOK
  <2>2. UNCHANGED <<phase, Session, SharedKey>>
      BY <2>1 DEF connection, Session, SharedKey
  <2>3. Sealed \in OwnFrame(SharedKey) /\ IsData(Sealed) /\ Sealed.sealed.packet = sealed
      BY <2>1 DEF OwnFrame, Sealed, IsData, DataFrame, Encrypt
  <2>4. FlowInv'
      BY <2>1, <2>2, <2>3, FlowEnqueue
  <2> QED
      BY <1>0, <2>1, <2>2, <2>4, SessionKept DEF Running, vars
<1>6. CASE KeepaliveTick
  <2>1. /\ UNCHANGED <<vars, connection, post, late, sealed>>
        /\ Enqueue("keepalive", KeepaliveFrame)
        /\ tasks' \subseteq tasks
      BY <1>6 DEF KeepaliveTick, Enqueue
  <2>2. UNCHANGED <<phase, Session, SharedKey>>
      BY <2>1 DEF connection, Session, SharedKey
  <2>3. KeepaliveFrame \in OwnFrame(SharedKey) /\ ~IsData(KeepaliveFrame)
      BY DEF OwnFrame, IsData, KeepaliveFrame
  <2>4. FlowInv'
      BY <2>1, <2>2, <2>3, FlowEnqueue
  <2> QED
      BY <1>0, <2>1, <2>2, <2>4, SessionKept DEF Running, vars
<1>7. CASE Post
  <2>1. /\ UNCHANGED <<vars, connection, tasks, late, sealed>>
        /\ post = NoPost /\ queue # <<>> /\ queue' = Tail(queue)
        /\ post' = [at |-> "way", frame |-> Head(queue)]
      BY <1>7 DEF Post
  <2>2. UNCHANGED <<phase, Session, SharedKey, toTun, Live>>
      BY <2>1 DEF connection, Session, SharedKey, vars, Live
  <2>3. Running("send")' <=> Running("send")
      BY <2>1, <2>2 DEF Running
  <2>4. FlowInv'
    <3> SUFFICES ASSUME Running("send"), Session \in Live
                 PROVE  Accounted(Len(toTun[Session]), sealed, post', queue')
        BY <2>1, <2>2, <2>3 DEF FlowInv
    <3>1. Session \in SessionId
        BY SessionMade, Times
    <3>2. toTun[Session] \in Seq(Nat)
        BY <3>1 DEF TypeOK
    <3>3. Len(toTun[Session]) \in Nat /\ sealed \in Nat
        BY <3>2, BoundAssumption DEF ClientOK, UplinkOK
    <3>4. Accounted(Len(toTun[Session]), sealed, post, queue)
        BY DEF FlowInv
    <3>5. queue \in Seq(OwnFrame(SharedKey)) /\ post.at # "way"
        BY <2>1 DEF ClientOK, UplinkOK, NoPost
    <3> QED
        BY <2>1, <3>3, <3>4, <3>5, AccountedPost
  <2> QED
      BY <1>0, <2>1, <2>2, <2>3, <2>4, SessionKept
<1>8. CASE PostArrives
  <2>1. /\ UNCHANGED <<connection, tasks, queue, late, sealed>> /\ post.at = "way"
        /\ \/ Send(Session, post.frame) /\ post' = [post EXCEPT !.at = "accepted"]
           \/ Session \notin Live /\ UNCHANGED vars
      BY <1>8 DEF PostArrives
  <2>2. UNCHANGED <<phase, Session, SharedKey>>
      BY <2>1 DEF connection, Session, SharedKey
  <2>3. Running("send")' <=> Running("send")
      BY <2>1, <2>2 DEF Running
  <2>4. phase = "tunnel"
      BY <2>1 DEF ClientOK, UplinkOK, NoPost
  <2>5. SessionInv'
      BY <1>0, <2>1, <2>2, <2>3, <2>4, SessionKept
  <2>6. FlowInv'
    <3>1. CASE Send(Session, post.frame) /\ post' = [post EXCEPT !.at = "accepted"]
        BY <2>1, <2>2, <3>1, FlowArrived
    <3>2. CASE Session \notin Live /\ UNCHANGED vars
        BY <2>2, <3>2 DEF FlowInv, vars, Live
    <3> QED
        BY <2>1, <3>1, <3>2
  <2> QED
      BY <2>5, <2>6
<1>9. CASE PostAccepted \/ PostHangs
  <2>1. /\ UNCHANGED <<vars, connection, tasks, queue, late, sealed>>
        /\ post.at \in {"accepted", "refused"}
        /\ post' = NoPost \/ post' = [post EXCEPT !.at = "hangs"]
      BY <1>9 DEF PostAccepted, PostHangs
  <2>2. UNCHANGED <<phase, Session, SharedKey, toTun, Live>>
      BY <2>1 DEF connection, Session, SharedKey, vars, Live
  <2>3. Running("send")' <=> Running("send")
      BY <2>1, <2>2 DEF Running
  <2>4. post.at # "way" /\ post'.at # "way"
    <3>1. post \in Posted(SharedKey)
        BY <2>1 DEF ClientOK, UplinkOK, NoPost
    <3> QED
        BY <2>1, <3>1 DEF Posted, NoPost
  <2>5. FlowInv'
      BY <2>1, <2>2, <2>3, <2>4, AccountedAnswered DEF FlowInv
  <2> QED
      BY <1>0, <2>1, <2>2, <2>3, <2>5, SessionKept
<1>10. CASE PostFails
  <2>1. UNCHANGED <<vars, connection, sealed>> /\ tasks' = tasks \ {"send"}
      BY <1>10 DEF PostFails, SendEnds
  <2>2. UNCHANGED <<phase, Session, SharedKey, toTun>> /\ ~Running("send")'
      BY <2>1 DEF connection, Session, SharedKey, vars, Running
  <2>3. phase = "tunnel"
      BY <1>10 DEF PostFails, ClientOK, UplinkOK, NoPost
  <2> QED
      BY <1>0, <2>1, <2>2, <2>3, SessionKept, FlowKept
<1>11. ASSUME NEW r \in late, LateArrives(r) PROVE LostInv'
  <2>1. /\ UNCHANGED <<connection, tasks, queue, post, sealed>> /\ late' \subseteq late
        /\ \/ r[2] # StreamRequest /\ Send(r[1], r[2])
           \/ \E st \in Stream : StreamLookup(r[1], st)
           \/ UNCHANGED vars
      BY <1>11 DEF LateArrives
  <2>2. UNCHANGED <<phase, Session, SharedKey>>
      BY <2>1 DEF connection, Session, SharedKey
  <2>3. Running("send")' <=> Running("send")
      BY <2>1, <2>2 DEF Running
  <2>4. r[1] \in SessionId
      BY Times DEF ClientOK, UplinkOK
  <2>5. ASSUME phase = "init" \/ Running("send"), Session # None
        PROVE  toTun'[Session] = toTun[Session]
    <3>1. (r[2] # StreamRequest => Session # r[1]) /\ Session \in SessionId
        BY <2>5, SessionMade, Times DEF SessionInv
    <3> QED
        BY <2>1, <2>4, <3>1, Sent DEF StreamLookup, vars
  <2>6. SessionInv'
      BY <1>0, <2>1, <2>2, <2>3, <2>5, SessionKept DEF SessionInv
  <2>7. FlowInv'
      BY <1>0, <2>1, <2>2, <2>3, <2>5, FlowKept DEF Running, ClientOK, ConnectionOK
  <2> QED
      BY <2>6, <2>7
<1>12. ASSUME NEW st \in Stream, OpenStream(st) PROVE LostInv'
  <2>1. UNCHANGED <<connection, tasks, queue, post, late, sealed, toTun>>
      BY <1>12 DEF OpenStream, StreamLookup, uplink
  <2>2. UNCHANGED <<phase, Session, SharedKey>>
      BY <2>1 DEF connection, Session, SharedKey
  <2>3. Running("send")' <=> Running("send")
      BY <2>1, <2>2 DEF Running
  <2> QED
      BY <1>0, <2>1, <2>2, <2>3, SessionKept, FlowKept
<1>13. CASE FirstFrame \/ StreamFails \/ StreamEnds \/ ReadTunError
  <2>1. /\ UNCHANGED <<vars, connection, queue, post, late, sealed>>
        /\ tasks' \subseteq tasks
      BY <1>13 DEF FirstFrame, StreamFails, StreamEnds, ReadTunError, uplink
  <2>2. UNCHANGED <<phase, Session, SharedKey, toTun>>
      BY <2>1 DEF connection, Session, SharedKey, vars
  <2>3. Running("send")' => Running("send")
      BY <2>1, <2>2 DEF Running
  <2> QED
      BY <1>0, <2>1, <2>2, <2>3, SessionKept, FlowKept
<1>16. CASE OpenInVain
  <2>1. /\ UNCHANGED <<vars, connection, tasks, queue, post, sealed>>
        /\ late' = late \cup {<<Session, StreamRequest>>}
      BY <1>16 DEF OpenInVain
  <2>2. UNCHANGED <<phase, Session, SharedKey, toTun>>
      BY <2>1 DEF connection, Session, SharedKey, vars
  <2>3. Running("send")' <=> Running("send")
      BY <2>1, <2>2 DEF Running
  <2>4. \A r \in late' : r[2] # StreamRequest => r \in late
      BY <2>1
  <2> QED
      BY <1>0, <2>1, <2>2, <2>3, <2>4, SessionKept, FlowKept
<1>14. CASE TunnelEnds \/ ClientCrash
  <2>1. UNCHANGED <<vars, attempt, answers>> /\ phase' = "idle"
      BY <1>14 DEF TunnelEnds, ClientCrash, Leave
  <2>2. UNCHANGED <<Session, SharedKey>> /\ ~Running("send")'
      BY <2>1 DEF Session, SharedKey, Running
  <2> QED
      BY <1>0, <2>1, <2>2, SessionKept, FlowKept
<1>15. CASE ClientTick \/ ServerStep \/ UNCHANGED <<vars, client>>
  <2>1. UNCHANGED <<client, toTun>>
      BY <1>15 DEF ClientTick, ServerStep, StreamRegister, StreamLost, StreamKeepalive,
                   TunRead, TunReadError, Cleanup, Restart, Tick, vars
  <2>2. UNCHANGED <<phase, tasks, queue, post, late, sealed, Session, SharedKey>>
      BY <2>1 DEF client, connection, uplink, Session, SharedKey
  <2>3. Running("send")' <=> Running("send")
      BY <2>2 DEF Running
  <2> QED
      BY <1>0, <2>1, <2>2, <2>3, SessionKept, FlowKept
<1> QED
    BY <1>1, <1>2, <1>3, <1>4, <1>5, <1>6, <1>7, <1>8, <1>9, <1>10, <1>11, <1>12, <1>13,
       <1>14, <1>15, <1>16 DEF TunnelNext

\* No packet the client sealed is missing between it and the server, for as long
\* as send_task runs and the server knows the session.
THEOREM NothingLostCorrect == TunnelSpec => []NothingLost
<1>1. TunnelInit => TypeOK /\ ClientOK /\ UplinkInv /\ LostInv
    BY TypeInit, ClientInitOK, UplinkInit, LostInit DEF TunnelInit
<1>2. TypeOK /\ ClientOK /\ UplinkInv /\ LostInv /\ [TunnelNext]_<<vars, client>>
          => (TypeOK /\ ClientOK /\ UplinkInv /\ LostInv)'
    BY ClientNext, TypeNext, UplinkNext, LostNext
<1>3. LostInv => NothingLost
    BY NothingLostMeans DEF LostInv, FlowInv
<1> QED
    BY <1>1, <1>2, <1>3, PTL DEF TunnelSpec

-----------------------------------------------------------------------------
(* Types.                                                                  *)

\* What ClientTypeOK says beyond ClientOK.
TasksOK ==
    /\ phase \in {"idle", "init", "tunnel"}
    /\ inits \subseteq Public
    /\ tasks \subseteq Task
    /\ \A r \in late : r = <<r[1], r[2]>>
    /\ reading \in Stream \cup {None}
    /\ caught \in BOOLEAN
    /\ timer \in Nat

LEMMA TasksInit == ASSUME TunnelInit PROVE TasksOK
<1>1. late = {} /\ inits = {} /\ tasks = {} /\ reading = None /\ phase = "idle"
    BY DEF TunnelInit, ClientInit
<1>2. caught = FALSE /\ timer = 0
    BY DEF TunnelInit, ClientInit
<1>3. \A r \in late : r = <<r[1], r[2]>>
    BY <1>1
<1>4. caught \in BOOLEAN
    BY <1>2
<1> QED
    BY <1>1, <1>2, <1>3, <1>4 DEF TasksOK

LEMMA TasksNext ==
    ASSUME TypeOK, TasksOK, [TunnelNext]_<<vars, client>>
    PROVE  TasksOK'
<1> USE DEF TasksOK
<1>1. {now + ConnectTimeout, NextKeepalive} \subseteq Nat
    BY Times, IntervalAssumption DEF NextKeepalive
<1>2. Abandon => \A r \in late' : r = <<r[1], r[2]>>
    BY DEF Abandon
<1>3. CASE Connect \/ ConnectFails
    BY <1>1, <1>3 DEF Connect, ConnectFails, uplink, downlink
<1>4. CASE Connected
    BY <1>1, <1>4 DEF Connected, uplink, Task
<1>5. ASSUME NEW a \in Public, InitArrives(a) PROVE TasksOK'
    BY <1>5 DEF InitArrives, uplink, downlink
<1>6. CASE ReadTun \/ ReadTunError \/ KeepaliveTick
    BY <1>1, <1>6 DEF ReadTun, ReadTunError, KeepaliveTick, Enqueue, connection, uplink, downlink
<1>7. CASE Post \/ PostArrives \/ PostAccepted \/ PostHangs
    BY <1>7 DEF Post, PostArrives, PostAccepted, PostHangs, connection, downlink
<1>8. CASE PostFails
    BY <1>2, <1>8 DEF PostFails, SendEnds, connection, downlink
<1>9. ASSUME NEW r \in late, LateArrives(r) PROVE TasksOK'
    BY <1>9 DEF LateArrives, connection, downlink
<1>10. ASSUME NEW st \in Stream, OpenStream(st) PROVE TasksOK'
    BY <1>10 DEF OpenStream, connection, uplink
<1>11. CASE FirstFrame \/ StreamFails \/ StreamEnds
  <2>1. UNCHANGED <<phase, inits, late, timer>> /\ tasks' \subseteq tasks
      BY <1>11 DEF FirstFrame, StreamFails, StreamEnds, connection, uplink
  <2>2. reading' \in {reading, None}
      BY <1>11 DEF FirstFrame, StreamFails, StreamEnds
  <2>3. caught' = TRUE \/ caught' = caught
      BY <1>11 DEF FirstFrame, StreamFails, StreamEnds
  <2>4. caught' \in BOOLEAN
      BY <2>3
  <2> QED
      BY <2>1, <2>2, <2>4
<1>14. CASE OpenInVain
  <2>1. late' = late \cup {<<Session, StreamRequest>>}
      BY <1>14 DEF OpenInVain
  <2>2. \A r \in late' : r = <<r[1], r[2]>>
      BY <2>1
  <2> QED
      BY <1>14, <2>2 DEF OpenInVain, connection, downlink
<1>12. CASE TunnelEnds \/ ClientCrash
    BY <1>2, <1>12 DEF TunnelEnds, ClientCrash, Leave
<1>13. CASE ClientTick \/ ServerStep \/ UNCHANGED <<vars, client>>
    BY <1>13 DEF ClientTick, ServerStep, client, connection, uplink, downlink
<1> QED
    BY <1>3, <1>4, <1>5, <1>6, <1>7, <1>8, <1>9, <1>10, <1>11, <1>12, <1>13, <1>14 DEF TunnelNext

LEMMA ClientFramesTyped ==
    ASSUME NEW s \in SessionId
    PROVE  ClientFrame(s) \subseteq Frame
<1> SUFFICES ASSUME NEW pub \in Public, NEW n \in 0..(MaxUp - 1)
             PROVE  DataFrame(DeriveKey(ServerKey(s), ClientKey(pub)), n, n) \in Frame
    BY DEF ClientFrame, Frame
<1>1. DeriveKey(ServerKey(s), ClientKey(pub)) \in Key
    BY DEF DeriveKey, ServerKey, ClientKey, Key
<1>2. n \in Nat
    BY BoundAssumption
<1> QED
    BY <1>1, <1>2 DEF DataFrame, Encrypt, Frame

LEMMA SeqSubset == ASSUME NEW S, NEW T, S \subseteq T, NEW q \in Seq(S) PROVE q \in Seq(T)
    OBVIOUS

\* The type invariant of the client.
THEOREM ClientTypeCorrect == TunnelSpec => []ClientTypeOK
<1>1. TypeOK /\ TasksOK /\ [TunnelNext]_<<vars, client>> => TasksOK'
    BY TasksNext
<1>2. TunnelInit => TasksOK
    BY TasksInit
<1>3. ASSUME TypeOK, ClientOK, TasksOK PROVE ClientTypeOK
  <2>1. /\ attempt \in Public \cup {0}
        /\ answers \in [Public -> SessionId \cup {None}]
        /\ sealed \in Nat
      BY <1>3, AttemptAssumption, BoundAssumption DEF ClientOK, ConnectionOK, UplinkOK
  <2>2. late \subseteq SessionId \X (Frame \cup {StreamRequest})
    <3> SUFFICES ASSUME NEW r \in late
                 PROVE  r[1] \in SessionId /\ r[2] \in Frame \cup {StreamRequest}
        BY <1>3 DEF TasksOK
    <3>1. r[1] \in SessionId /\ r[2] \in Request(r[1])
        BY <1>3, Times DEF ClientOK, UplinkOK
    <3> QED
        BY <3>1, ClientFramesTyped DEF Request
  <2>3. CASE phase # "tunnel"
    <3>1. queue \in Seq(Frame) /\ post = NoPost
        BY <1>3, <2>3 DEF ClientOK, UplinkOK
    <3> QED
        BY <1>3, <2>1, <2>2, <3>1 DEF ClientTypeOK, TasksOK
  <2>4. CASE phase = "tunnel"
    <3>1. Session \in SessionId /\ OwnFrame(SharedKey) \subseteq ClientFrame(Session)
        BY <1>3, <2>4, OwnFrameAdmitted DEF ClientOK, ConnectionOK
    <3>2. OwnFrame(SharedKey) \subseteq Frame
        BY <3>1, ClientFramesTyped
    <3>3. queue \in Seq(Frame)
        BY <1>3, <3>2, SeqSubset DEF ClientOK, UplinkOK
    <3>4. \/ post = NoPost
          \/ /\ post.at \in {"way", "accepted", "refused", "hangs"}
             /\ post.frame \in Frame
        BY <1>3, <3>2 DEF ClientOK, UplinkOK, Posted
    <3> QED
        BY <1>3, <2>1, <2>2, <3>3, <3>4 DEF ClientTypeOK, TasksOK
  <2> QED
      BY <2>3, <2>4
<1> QED
    BY <1>1, <1>2, <1>3, ClientInvariance, PTL DEF TunnelSpec

-----------------------------------------------------------------------------
(* A client that is not refused keeps its session.                         *)

\* send_task has nothing to do, or reads that the server has taken a frame.
Silent ==
    /\ Running("send") /\ Running("keepalive")
    /\ queue = <<>>
    /\ post = NoPost \/ post.at = "accepted"

\* A timer is due neither in the past nor later than its interval from now.  The
\* server has heard of the session after the client began to connect and, from
\* the first keepalive on, after the last interval had begun, unless a frame is
\* on its way or refused.
PromptInv ==
    /\ phase = "init" =>
           /\ now <= timer /\ timer <= now + ConnectTimeout
           /\ Session \notin {None} \cup forgotten =>
                  timer <= heard[Session] + ConnectTimeout
    /\ Running("keepalive") => now <= timer /\ timer <= now + KEEPALIVE_INTERVAL
    /\ Silent /\ Session \notin forgotten =>
           timer <= heard[Session] + ConnectTimeout + KEEPALIVE_INTERVAL

LEMMA PromptInit == ASSUME TunnelInit PROVE PromptInv
    BY DEF TunnelInit, ClientInit, PromptInv, Silent, Running

LEMMA PromptTimes ==
    ASSUME TypeOK, TasksOK
    PROVE  /\ now \in Nat /\ timer \in Nat
           /\ ConnectTimeout \in Nat \ {0} /\ KEEPALIVE_INTERVAL \in Nat \ {0}
    BY Times, IntervalAssumption DEF TasksOK

LEMMA SessionKnown ==
    ASSUME TypeOK, ClientOK
    PROVE  /\ phase = "tunnel" => Session # None
           /\ Session # None => Session \in 1..made /\ heard[Session] \in Nat
<1>1. phase = "tunnel" => Session # None
    BY DEF ClientOK, ConnectionOK
<1>2. ASSUME Session # None PROVE Session \in 1..made /\ heard[Session] \in Nat
  <2>1. Session \in SessionId /\ attempt \in Public /\ Session = answers[attempt]
      BY <1>2, OwnFrameAdmitted DEF ClientOK
  <2>2. Session <= made
      BY <2>1 DEF ClientOK, ConnectionOK
  <2> QED
      BY <2>1, <2>2, Times, BoundAssumption DEF SessionId
<1> QED
    BY <1>1, <1>2

\* When the server heard of a session last is never taken back, while it runs.
LEMMA HeardGrows ==
    ASSUME TypeOK, TimeInv, [Next]_vars, NEW s \in 1..made, s \notin forgotten'
    PROVE  s \notin forgotten /\ heard'[s] \in Nat /\ heard[s] <= heard'[s]
<1>1. forgotten' = forgotten \/ forgotten' = 1..made
    BY DEF Next, vars, DoInit, Send, StreamLookup, StreamRegister, StreamLost,
           StreamKeepalive, TunRead, TunReadError, Cleanup, Tick, Restart
<1>2. heard' = heard \/ \E r \in SessionId : heard' = [heard EXCEPT ![r] = now]
  <2>1. ASSUME NEW pub \in Public, NEW psk \in Psk, DoInit(pub, psk)
        PROVE  \E r \in SessionId : heard' = [heard EXCEPT ![r] = now]
    <3>1. made + 1 \in SessionId /\ heard' = [heard EXCEPT ![made + 1] = now]
        BY <2>1, Times, BoundAssumption DEF DoInit, SessionId
    <3> QED
        BY <3>1
  <2> QED
      BY <2>1 DEF Next, vars, Send, StreamLookup, StreamRegister, StreamLost,
                  StreamKeepalive, TunRead, TunReadError, Cleanup, Tick, Restart
<1>3. s \notin forgotten /\ s \in (1..made) \ forgotten
    BY <1>1
<1>4. heard[s] <= now /\ heard[s] \in Nat /\ now \in Nat
    BY <1>3, Times DEF TimeInv
<1>5. heard'[s] = heard[s] \/ heard'[s] = now
  <2>1. s \in SessionId /\ heard \in [SessionId -> Nat]
      BY Times DEF TypeOK
  <2> QED
      BY <1>2, <2>1
<1> QED
    BY <1>3, <1>4, <1>5

LEMMA PromptKept ==
    ASSUME TypeOK, TimeInv, ClientOK, TasksOK, PromptInv, [Next]_vars,
           UNCHANGED <<now, timer, Session>>,
           phase' = "init" => phase = "init",
           Running("keepalive")' => Running("keepalive"),
           Silent' => Silent
    PROVE  PromptInv'
<1>1. ASSUME Session # None, Session \notin forgotten'
      PROVE  /\ Session \notin forgotten
             /\ heard'[Session] \in Nat /\ heard[Session] \in Nat
             /\ heard[Session] <= heard'[Session]
    BY <1>1, HeardGrows, SessionKnown
<1>2. phase = "tunnel" => Session # None
    BY SessionKnown
<1>3. Silent' => phase = "tunnel"
    BY DEF Silent, Running
<1>4. ASSUME phase' = "init"
      PROVE  /\ now <= timer /\ timer <= now + ConnectTimeout
             /\ Session \notin {None} \cup forgotten' =>
                    timer <= heard'[Session] + ConnectTimeout
    BY <1>1, <1>4, PromptTimes DEF PromptInv
<1>5. ASSUME Silent', Session \notin forgotten'
      PROVE  timer <= heard'[Session] + ConnectTimeout + KEEPALIVE_INTERVAL
    BY <1>1, <1>2, <1>3, <1>5, PromptTimes DEF PromptInv
<1>6. Running("keepalive")' => now <= timer /\ timer <= now + KEEPALIVE_INTERVAL
    BY DEF PromptInv
<1> QED
    BY <1>4, <1>5, <1>6 DEF PromptInv

LEMMA PromptNext ==
    ASSUME TypeOK, TimeInv, ClientOK, TasksOK, PromptInv, [TunnelNext]_<<vars, client>>
    PROVE  PromptInv'
<1>0. [Next]_vars
    BY ClientNext
<1>1. CASE Connect
  <2>1. /\ UNCHANGED vars /\ UNCHANGED answers
        /\ attempt' = attempt + 1 /\ attempt' \in Public
        /\ phase' = "init" /\ timer' = now + ConnectTimeout
      BY <1>1 DEF Connect
  <2>2. now' = now
      BY <2>1 DEF vars
  <2>3. Session' = None
    <3>1. attempt \in Nat
        BY AttemptAssumption DEF ClientOK, ConnectionOK
    <3>2. answers[attempt'] = None
        BY <2>1, <3>1 DEF ClientOK, ConnectionOK
    <3> QED
        BY <2>1, <3>1, <3>2 DEF Session
  <2> QED
      BY <2>1, <2>2, <2>3, PromptTimes DEF PromptInv, Silent, Running
<1>2. CASE Connected
  <2>1. /\ UNCHANGED <<vars, attempt, answers>>
        /\ phase = "init" /\ phase' = "tunnel" /\ Session # None
        /\ timer' = now + KEEPALIVE_INTERVAL
      BY <1>2 DEF Connected, NextKeepalive
  <2>2. UNCHANGED <<now, heard, forgotten, Session>>
      BY <2>1 DEF vars, Session
  <2>3. heard[Session] \in Nat
      BY <2>1, SessionKnown
  <2>4. Session \notin forgotten => now <= heard[Session] + ConnectTimeout
      BY <2>1, <2>3, PromptTimes DEF PromptInv
  <2>5. Session \notin forgotten =>
            timer' <= heard[Session] + ConnectTimeout + KEEPALIVE_INTERVAL
      BY <2>1, <2>3, <2>4, PromptTimes
  <2>6. now <= timer' /\ timer' <= now + KEEPALIVE_INTERVAL
      BY <2>1, PromptTimes
  <2> QED
      BY <2>1, <2>2, <2>5, <2>6 DEF PromptInv
<1>3. ASSUME NEW a \in Public, InitArrives(a) PROVE PromptInv'
  <2>1. /\ [Next]_vars
        /\ a # attempt => Session' = Session
        /\ phase = "tunnel" => Session' = Session
        /\ made' = made + 1
        /\ a = attempt => Session' = made'
      BY <1>3, ArrivalOK
  <2>2. /\ UNCHANGED <<now, timer, phase, tasks, queue, post, forgotten>>
        /\ heard' = [heard EXCEPT ![made + 1] = now]
        /\ made + 1 \in SessionId
    <3>1. /\ UNCHANGED <<now, timer, phase, tasks, uplink, forgotten>>
          /\ heard' = [heard EXCEPT ![made + 1] = now]
          /\ made < MaxSession
        BY <1>3 DEF InitArrives, DoInit
    <3>2. made + 1 \in SessionId
        BY <3>1, Times, BoundAssumption DEF SessionId
    <3> QED
        BY <3>1, <3>2 DEF uplink
  <2>3. (Running("keepalive")' <=> Running("keepalive")) /\ (Silent' <=> Silent)
      BY <2>2 DEF Silent, Running
  <2>4. CASE a # attempt \/ phase = "tunnel"
      BY <2>1, <2>2, <2>3, <2>4, PromptKept
  <2>5. CASE a = attempt /\ phase # "tunnel"
    <3>1. Session' = made + 1 /\ heard'[made + 1] = now
        BY <2>1, <2>2, <2>5 DEF TypeOK
    <3>2. heard'[Session'] = now
        BY <3>1
    <3>3. ~Running("keepalive")' /\ ~Silent'
        BY <2>2, <2>5 DEF Silent, Running
    <3> QED
        BY <2>2, <3>2, <3>3 DEF PromptInv
  <2> QED
      BY <2>4, <2>5
<1>4. CASE KeepaliveTick
  <2>1. /\ UNCHANGED <<vars, connection>>
        /\ phase = "tunnel" /\ timer' = now + KEEPALIVE_INTERVAL
        /\ Enqueue("keepalive", KeepaliveFrame)
      BY <1>4 DEF KeepaliveTick, Running, NextKeepalive
  <2>2. now' = now /\ phase' = "tunnel"
      BY <2>1 DEF vars, connection
  <2>3. ~Silent'
    <3>1. CASE "send" \in tasks
      <4>1. queue' = Append(queue, KeepaliveFrame) /\ queue \in Seq(OwnFrame(SharedKey))
          BY <2>1, <3>1 DEF Enqueue, ClientOK, UplinkOK
      <4>2. KeepaliveFrame \in OwnFrame(SharedKey)
          BY DEF OwnFrame
      <4>3. queue' # <<>>
          BY <4>1, <4>2
      <4> QED
          BY <4>3 DEF Silent
    <3>2. CASE "send" \notin tasks
        BY <2>1, <3>2 DEF Enqueue, Silent, Running
    <3> QED
        BY <3>1, <3>2
  <2> QED
      BY <2>1, <2>2, <2>3, PromptTimes DEF PromptInv
<1>5. CASE ReadTun
  <2>1. /\ UNCHANGED <<vars, connection, post, timer>>
        /\ Enqueue("tun", Sealed) /\ phase = "tunnel"
      BY <1>5 DEF ReadTun, Running
  <2>2. UNCHANGED <<now, phase, Session>> /\ tasks' \subseteq tasks
      BY <2>1 DEF vars, connection, Session, Enqueue
  <2>3. ~Silent'
    <3>1. CASE "send" \in tasks
      <4>1. queue' = Append(queue, Sealed) /\ queue \in Seq(OwnFrame(SharedKey))
          BY <2>1, <3>1 DEF Enqueue, ClientOK, UplinkOK
      <4>2. queue' # <<>>
        <5>1. \A q \in Seq(OwnFrame(SharedKey)) : \A f : Len(Append(q, f)) = Len(q) + 1
            OBVIOUS
        <5>2. Len(queue) \in Nat
            BY <4>1
        <5> QED
            BY <4>1, <5>1, <5>2
      <4> QED
          BY <4>2 DEF Silent
    <3>2. CASE "send" \notin tasks
        BY <2>1, <3>2 DEF Enqueue, Silent, Running
    <3> QED
        BY <3>1, <3>2
  <2> QED
      BY <1>0, <2>1, <2>2, <2>3, PromptKept DEF Running
<1>6. CASE PostArrives
  <2>1. UNCHANGED <<connection, tasks, queue, timer>> /\ post.at = "way"
      BY <1>6 DEF PostArrives
  <2>2. UNCHANGED <<phase, Session>> /\ (Running("keepalive")' <=> Running("keepalive"))
      BY <2>1 DEF connection, Session, Running
  <2>3. CASE Send(Session, post.frame)
    <3>1. /\ UNCHANGED <<now, forgotten>>
          /\ heard' = [heard EXCEPT ![Session] = now]
          /\ Session \in SessionId
      <4>1. Session \in Live
          BY <2>3 DEF Send
      <4>2. Session \in SessionId
          BY <4>1, Times
      <4> QED
          BY <2>3, <4>2 DEF Send
    <3>2. heard'[Session] = now
        BY <3>1 DEF TypeOK
    <3>3. phase = "tunnel"
        BY <2>1 DEF ClientOK, UplinkOK, NoPost
    <3>4. Silent' => Running("keepalive")
        BY <2>2 DEF Silent
    <3> QED
        BY <2>1, <2>2, <3>1, <3>2, <3>3, <3>4, PromptTimes DEF PromptInv
  <2>4. CASE ~Send(Session, post.frame)
    <3>1. UNCHANGED vars /\ post' = [post EXCEPT !.at = "refused"]
        BY <1>6, <2>4 DEF PostArrives
    <3>2. post \in Posted(SharedKey)
        BY <2>1 DEF ClientOK, UplinkOK, NoPost
    <3>3. post'.at = "refused"
        BY <3>1, <3>2 DEF Posted
    <3>4. ~Silent' /\ now' = now
        BY <3>1, <3>3 DEF Silent, NoPost, vars
    <3> QED
        BY <1>0, <2>1, <2>2, <3>4, PromptKept
  <2> QED
      BY <2>3, <2>4
<1>7. CASE Post
  <2>1. /\ UNCHANGED <<vars, connection, tasks, timer>>
        /\ post' = [at |-> "way", frame |-> Head(queue)]
      BY <1>7 DEF Post
  <2>2. UNCHANGED <<now, phase, Session>> /\ ~Silent'
      BY <2>1 DEF vars, connection, Session, Silent, NoPost
  <2> QED
      BY <1>0, <2>1, <2>2, PromptKept DEF Running
<1>8. CASE PostAccepted
  <2>1. /\ UNCHANGED <<vars, connection, tasks, queue, timer>>
        /\ post.at = "accepted"
      BY <1>8 DEF PostAccepted
  <2>2. UNCHANGED <<now, phase, Session>> /\ (Silent' => Silent)
      BY <2>1 DEF vars, connection, Session, Silent, Running
  <2> QED
      BY <1>0, <2>1, <2>2, PromptKept DEF Running
<1>9. CASE PostFails
  <2>1. /\ UNCHANGED <<vars, connection, timer>> /\ tasks' = tasks \ {"send"}
      BY <1>9 DEF PostFails, SendEnds
  <2>2. UNCHANGED <<now, phase, Session>> /\ ~Silent'
      BY <2>1 DEF vars, connection, Session, Silent, Running
  <2> QED
      BY <1>0, <2>1, <2>2, PromptKept DEF Running
<1>10. CASE PostHangs
  <2>1. /\ UNCHANGED <<vars, connection, tasks, queue, timer>>
        /\ post' = [post EXCEPT !.at = "hangs"] /\ post.at \in {"accepted", "refused"}
      BY <1>10 DEF PostHangs
  <2>2. post \in Posted(SharedKey)
      BY <2>1 DEF ClientOK, UplinkOK, NoPost
  <2>3. post'.at = "hangs"
      BY <2>1, <2>2 DEF Posted
  <2>4. UNCHANGED <<now, phase, Session>> /\ ~Silent'
      BY <2>1, <2>3 DEF vars, connection, Session, Silent, NoPost
  <2> QED
      BY <1>0, <2>1, <2>4, PromptKept DEF Running
<1>11. ASSUME NEW r \in late, LateArrives(r) PROVE PromptInv'
  <2>1. UNCHANGED <<connection, tasks, queue, post, timer, now>>
      BY <1>11 DEF LateArrives, Send, StreamLookup, vars
  <2>2. UNCHANGED <<phase, Session>>
      BY <2>1 DEF connection, Session
  <2> QED
      BY <1>0, <2>1, <2>2, PromptKept DEF Silent, Running
<1>12. ASSUME NEW st \in Stream, OpenStream(st) PROVE PromptInv'
  <2>1. UNCHANGED <<connection, tasks, queue, post, timer, now>>
      BY <1>12 DEF OpenStream, StreamLookup, uplink
  <2>2. UNCHANGED <<phase, Session>>
      BY <2>1 DEF connection, Session
  <2> QED
      BY <1>0, <2>1, <2>2, PromptKept DEF Silent, Running
<1>13. CASE FirstFrame \/ StreamFails \/ StreamEnds \/ ReadTunError
  <2>1. UNCHANGED <<connection, queue, post, timer, now>> /\ tasks' \subseteq tasks
      BY <1>13 DEF FirstFrame, StreamFails, StreamEnds, ReadTunError, uplink, vars
  <2>2. UNCHANGED <<phase, Session>>
      BY <2>1 DEF connection, Session
  <2> QED
      BY <1>0, <2>1, <2>2, PromptKept DEF Silent, Running
<1>17. CASE OpenInVain
  <2>1. UNCHANGED <<connection, tasks, queue, post, timer, now>>
      BY <1>17 DEF OpenInVain, vars
  <2>2. UNCHANGED <<phase, Session>>
      BY <2>1 DEF connection, Session
  <2> QED
      BY <1>0, <2>1, <2>2, PromptKept DEF Silent, Running
<1>14. CASE ConnectFails \/ TunnelEnds \/ ClientCrash
  <2>1. phase' = "idle"
      BY <1>14 DEF ConnectFails, TunnelEnds, ClientCrash, Leave
  <2> QED
      BY <2>1 DEF PromptInv, Silent, Running
<1>15. CASE ClientTick
  <2>1. /\ now' = now + 1 /\ UNCHANGED <<heard, forgotten, client>>
        /\ phase = "init" \/ Running("keepalive") => now < timer
      BY <1>15 DEF ClientTick, Tick
  <2>2. UNCHANGED <<phase, tasks, queue, post, timer, Session>>
      BY <2>1 DEF client, connection, uplink, Session
  <2>3. (Running("keepalive")' <=> Running("keepalive")) /\ (Silent' <=> Silent)
      BY <2>2 DEF Silent, Running
  <2>4. now \in Nat /\ timer \in Nat /\ ConnectTimeout \in Nat /\ KEEPALIVE_INTERVAL \in Nat
      BY PromptTimes
  <2>5. phase = "init" => now + 1 <= timer /\ timer <= now + 1 + ConnectTimeout
      BY <2>1, <2>4 DEF PromptInv
  <2>6. Running("keepalive") => now + 1 <= timer /\ timer <= now + 1 + KEEPALIVE_INTERVAL
      BY <2>1, <2>4 DEF PromptInv
  <2> QED
      BY <2>1, <2>2, <2>3, <2>5, <2>6 DEF PromptInv
<1>16. CASE ServerStep \/ UNCHANGED <<vars, client>>
  <2>1. UNCHANGED <<client, now>>
      BY <1>16 DEF ServerStep, StreamRegister, StreamLost, StreamKeepalive,
                   TunRead, TunReadError, Cleanup, Restart, vars
  <2>2. UNCHANGED <<phase, tasks, queue, post, timer, Session>>
      BY <2>1 DEF client, connection, uplink, Session
  <2> QED
      BY <1>0, <2>1, <2>2, PromptKept DEF Silent, Running
<1> QED
    BY <1>1, <1>2, <1>3, <1>4, <1>5, <1>6, <1>7, <1>8, <1>9, <1>10, <1>11, <1>12, <1>13,
       <1>14, <1>15, <1>16, <1>17 DEF TunnelNext

\* While its tasks run and none of its frames is unanswered, a client was heard
\* of no longer ago than it may take to connect and a keepalive interval.
Prompt ==
    Silent /\ Session \notin forgotten =>
        now - heard[Session] <= ConnectTimeout + KEEPALIVE_INTERVAL

LEMMA PromptCorrect ==
    TunnelSpec => [](TypeOK /\ TimeInv /\ ClientOK /\ Prompt)
<1>1. TunnelInit => TypeOK /\ TimeInv /\ ClientOK /\ TasksOK /\ PromptInv
    BY TypeInit, TimeInit, ClientInitOK, TasksInit, PromptInit DEF TunnelInit
<1>2. TypeOK /\ TimeInv /\ ClientOK /\ TasksOK /\ PromptInv /\ [TunnelNext]_<<vars, client>>
          => (TypeOK /\ TimeInv /\ ClientOK /\ TasksOK /\ PromptInv)'
    BY ClientNext, TypeNext, TimeNext, TasksNext, PromptNext
<1>3. ASSUME TypeOK, ClientOK, TasksOK, PromptInv PROVE Prompt
  <2> SUFFICES ASSUME Silent, Session \notin forgotten
               PROVE  now - heard[Session] <= ConnectTimeout + KEEPALIVE_INTERVAL
      BY DEF Prompt
  <2>1. heard[Session] \in Nat
      BY <1>3, SessionKnown DEF Silent, Running
  <2>2. /\ now <= timer
        /\ timer <= heard[Session] + ConnectTimeout + KEEPALIVE_INTERVAL
      BY <1>3 DEF PromptInv, Silent
  <2> QED
      BY <1>3, <2>1, <2>2, PromptTimes
<1> QED
    BY <1>1, <1>2, <1>3, PTL DEF TunnelSpec

\* With the intervals of config.rs and http_server.rs, 30 + 10 < 90, a client
\* whose tasks run is forgotten only when one of its frames is unanswered.
THEOREM EvictedOnlyUnansweredCorrect ==
    ASSUME ConnectTimeout + KEEPALIVE_INTERVAL < SESSION_TIMEOUT
    PROVE  TunnelSpec => []EvictedOnlyUnanswered
<1>1. ASSUME TypeOK, TimeInv, ClientOK, Prompt PROVE EvictedOnlyUnanswered
  <2> SUFFICES ASSUME Running("send"), Running("keepalive"),
                      Session \notin Live \cup forgotten, post = NoPost, queue = <<>>
               PROVE  FALSE
      BY DEF EvictedOnlyUnanswered
  <2>1. Session \in 1..made /\ heard[Session] \in Nat
      BY <1>1, SessionKnown DEF Running
  <2>2. now - heard[Session] <= ConnectTimeout + KEEPALIVE_INTERVAL
      BY <1>1 DEF Prompt, Silent
  <2>3. heard[Session] + SESSION_TIMEOUT <= now
      BY <1>1, <2>1 DEF TimeInv
  <2> QED
      BY <1>1, <2>1, <2>2, <2>3, Times, IntervalAssumption
<1> QED
    BY <1>1, PromptCorrect, PTL

=============================================================================
