----------------------------- MODULE HttpTunnel -----------------------------
(***************************************************************************)
(* The HTTP tunnel with both of its ends: a client that connects, runs a   *)
(* tunnel and connects again (HttpFallbackClient and run_tunnel in         *)
(* src/src/tunnel/http_fallback.rs), composed with the server of HttpStore *)
(* over a network that may lose, delay or break any request.               *)
(*                                                                         *)
(* A client's request reaches the server in one step, that of the handler  *)
(* it meets there, and its answer is read in another.  The stream task is  *)
(* seen up to the first frame it takes; StreamReader has what that frame   *)
(* is and what follows: it is none of the server's and never opens, and it *)
(* is forwarded for ever, without another read of the socket.              *)
(***************************************************************************)
EXTENDS HttpStore

CONSTANTS KEEPALIVE_INTERVAL,  \* in ticks
          ConnectTimeout,      \* of /http/init, in ticks
          MaxAttempt           \* bound: connections tried; each makes a key

ASSUME IntervalAssumption == {KEEPALIVE_INTERVAL, ConnectTimeout} \subseteq Nat \ {0}
ASSUME AttemptAssumption == MaxAttempt \in Nat /\ Public = 1..MaxAttempt

Task == {"stream", "keepalive", "send", "tun"}

VARIABLES
    phase,    \* "idle" between two attempts, "init" in connect, "tunnel" in run_tunnel
    attempt,  \* the current connection; its ephemeral key is made for it
    inits,    \* the attempts whose init request is on its way
    answers,  \* answers[a]: the session made for attempt a
    tasks,    \* the tasks of run_tunnel that have not ended
    queue,    \* frames in send_tx/send_rx
    post,     \* the request send_task awaits: where it is, and its frame
    late,     \* requests on their way that nobody awaits any more
    reading,  \* the stream open_stream has asked for
    caught,   \* whether open_stream is in a loop it cannot leave
    timer,    \* when connect times out, or the keepalive interval is over
    sealed    \* write_counter

connection == <<phase, attempt, inits, answers>>
uplink == <<queue, post, late>>
downlink == <<reading, caught>>
client == <<connection, tasks, uplink, downlink, timer, sealed>>

NoPost == [at |-> "none"]

ClientInit ==
    /\ phase = "idle"
    /\ attempt = 0
    /\ inits = {}
    /\ answers = [a \in Public |-> None]
    /\ tasks = {}
    /\ queue = <<>>
    /\ post = NoPost
    /\ late = {}
    /\ reading = None
    /\ caught = FALSE
    /\ timer = 0
    /\ sealed = 0

Session == IF attempt = 0 THEN None ELSE answers[attempt]
SharedKey == DeriveKey(ClientKey(attempt), ServerKey(Session))
Running(t) == phase = "tunnel" /\ t \in tasks

-----------------------------------------------------------------------------
(* connect.                                                                *)

Connect ==
    /\ phase = "idle"
    /\ attempt + 1 \in Public
    /\ attempt' = attempt + 1
    /\ inits' = inits \cup {attempt + 1}
    /\ phase' = "init"
    /\ timer' = now + ConnectTimeout
    /\ UNCHANGED <<vars, answers, tasks, uplink, downlink, sealed>>

\* The request is answered, even when the client has given up on it.
InitArrives(a) ==
    /\ a \in inits
    /\ DoInit(a, ServerPsk)
    /\ inits' = inits \ {a}
    /\ answers' = [answers EXCEPT ![a] = made + 1]
    /\ UNCHANGED <<phase, attempt, tasks, uplink, downlink, timer, sealed>>

\* A keepalive interval starts.  (Mutant: as long as the session's timeout.)
NextKeepaliveLong == now + SESSION_TIMEOUT
NextKeepalive == now + KEEPALIVE_INTERVAL

\* The answer arrives, and run_tunnel starts its tasks.
Connected ==
    /\ phase = "init"
    /\ Session # None
    /\ phase' = "tunnel"
    /\ tasks' = Task
    /\ timer' = NextKeepalive
    /\ sealed' = 0
    /\ UNCHANGED <<vars, attempt, inits, answers, uplink, reading, caught>>

\* An error, a rejection or the timeout; the request may still be on its way.
ConnectFails ==
    /\ phase = "init"
    /\ phase' = "idle"
    /\ inits' \in {inits, inits \ {attempt}}
    /\ UNCHANGED <<vars, attempt, answers, tasks, uplink, downlink, timer, sealed>>

-----------------------------------------------------------------------------
(* The tasks of run_tunnel.                                                *)

\* A frame sealed by tun_reader.  (Mutants: write_counter is increased first; the
\* next packet has been read into the buffer.)
SealedAhead == DataFrame(SharedKey, sealed + 1, sealed)
SealedLater == DataFrame(SharedKey, sealed, sealed + 1)
Sealed == DataFrame(SharedKey, sealed, sealed)

\* Task t hands a frame to the channel; without a receiver it ends instead.
Enqueue(t, f) ==
    IF "send" \in tasks
    THEN queue' = Append(queue, f) /\ UNCHANGED tasks
    ELSE tasks' = tasks \ {t} /\ UNCHANGED queue

ReadTun ==
    /\ Running("tun")
    /\ sealed < MaxUp
    /\ sealed' = sealed + 1
    /\ Enqueue("tun", Sealed)
    /\ UNCHANGED <<vars, connection, post, late, downlink, timer>>

ReadTunError ==
    /\ Running("tun")
    /\ tasks' = tasks \ {"tun"}
    /\ UNCHANGED <<vars, connection, uplink, downlink, timer, sealed>>

KeepaliveTick ==
    /\ Running("keepalive")
    /\ now = timer
    /\ timer' = NextKeepalive
    /\ Enqueue("keepalive", KeepaliveFrame)
    /\ UNCHANGED <<vars, connection, post, late, downlink, sealed>>

\* send_task posts one frame after the other, and awaits each answer.
Post ==
    /\ Running("send")
    /\ post = NoPost
    /\ queue # <<>>
    /\ post' = [at |-> "way", frame |-> Head(queue)]
    /\ queue' = Tail(queue)
    /\ UNCHANGED <<vars, connection, tasks, late, downlink, timer, sealed>>

\* The server handles it; a session it does not know is refused.
PostArrives ==
    /\ post.at = "way"
    /\ \/ /\ Send(Session, post.frame)
          /\ post' = [post EXCEPT !.at = "accepted"]
       \/ /\ Session \notin Live
          /\ post' = [post EXCEPT !.at = "refused"]
          /\ UNCHANGED vars
    /\ UNCHANGED <<connection, tasks, queue, late, downlink, timer, sealed>>

PostAccepted ==
    /\ post.at = "accepted"
    /\ post' = NoPost
    /\ UNCHANGED <<vars, connection, tasks, queue, late, downlink, timer, sealed>>

\* send_task after a failed request: it ends, and what is queued is lost.
\* (Mutant: it goes on with the next frame.)
GoesOn(q) == queue' = q /\ UNCHANGED tasks
SendEnds(q) == queue' = <<>> /\ tasks' = tasks \ {"send"}

\* The one awaited may still be on its way when nobody awaits it any more.
Abandon ==
    /\ post' = NoPost
    /\ late' \in {late} \cup {late \cup {<<Session, f>>} :
                                f \in IF post.at = "way" THEN {post.frame} ELSE {}}

\* It is refused, its connection breaks, or its answer is lost.
PostFails ==
    /\ post.at \in {"way", "accepted", "refused"}
    /\ Abandon
    /\ SendEnds(queue)
    /\ UNCHANGED <<vars, connection, downlink, timer, sealed>>

\* The answer ends inside its headers: read_line returns nothing, for ever.
PostHangs ==
    /\ post.at \in {"accepted", "refused"}
    /\ post' = [post EXCEPT !.at = "hangs"]
    /\ UNCHANGED <<vars, connection, tasks, queue, late, downlink, timer, sealed>>

\* open_stream.  A refused request changes nothing: it is made again a second later.
\* One whose connection breaks first may still reach the server.
StreamRequest == [type |-> "GET"]

OpenInVain ==
    /\ Running("stream")
    /\ reading = None
    /\ late' = late \cup {<<Session, StreamRequest>>}
    /\ UNCHANGED <<vars, connection, tasks, queue, post, downlink, timer, sealed>>

OpenStream(st) ==
    /\ Running("stream")
    /\ reading = None
    /\ StreamLookup(Session, st)
    /\ reading' = st
    /\ UNCHANGED <<connection, tasks, uplink, caught, timer, sealed>>

\* So much of the body has come that open_stream takes a frame.  What the main
\* loop receives it cannot decrypt, now or when it comes again.
FirstFrame ==
    /\ Running("stream") /\ reading # None /\ ~caught
    /\ frames[reading] # <<>>
    /\ caught' = TRUE
    /\ UNCHANGED <<vars, connection, tasks, uplink, reading, timer, sealed>>

\* An error, whose end of the connection the server need not know of: try again.
StreamFails ==
    /\ Running("stream") /\ reading # None /\ ~caught
    /\ reading' = None
    /\ UNCHANGED <<vars, connection, tasks, uplink, caught, timer, sealed>>

\* The server's end of the response: in its body it ends stream_task, in its
\* headers the loop that skips them never does.
StreamEnds ==
    /\ Running("stream") /\ reading # None /\ ~caught
    /\ stream[reading] = "closed"
    /\ \/ tasks' = tasks \ {"stream"} /\ UNCHANGED caught
       \/ caught' = TRUE /\ UNCHANGED tasks
    /\ UNCHANGED <<vars, connection, uplink, reading, timer, sealed>>

\* A request nobody awaits reaches the server.
LateArrives(r) ==
    /\ r \in late
    /\ \/ r[2] # StreamRequest /\ Send(r[1], r[2])
       \/ r[2] = StreamRequest /\ \E st \in Stream : StreamLookup(r[1], st)
       \/ r[1] \notin Live /\ UNCHANGED vars
    /\ late' = late \ {r}
    /\ UNCHANGED <<connection, tasks, queue, post, downlink, timer, sealed>>

Leave ==
    /\ phase' = "idle"
    /\ tasks' = {}
    /\ queue' = <<>>
    /\ Abandon
    /\ reading' = None
    /\ caught' = FALSE
    /\ UNCHANGED <<vars, attempt, inits, answers, timer, sealed>>

\* The main loop ends with the last sender of frame_tx, and aborts the tasks.
TunnelEnds == phase = "tunnel" /\ "stream" \notin tasks /\ Leave

\* The client's process dies and is started again.
ClientCrash == phase # "idle" /\ Leave

-----------------------------------------------------------------------------

\* Time does not pass a moment at which a timer of the client is due.
ClientTick ==
    /\ phase = "init" \/ Running("keepalive") => now < timer
    /\ Tick
    /\ UNCHANGED client

ServerStep ==
    /\ \/ \E st \in Stream : StreamRegister(st) \/ StreamLost(st) \/ StreamKeepalive(st)
       \/ TunRead
       \/ TunReadError
       \/ Cleanup
       \/ Restart
    /\ UNCHANGED client

TunnelNext ==
    \/ Connect \/ Connected \/ ConnectFails
    \/ \E a \in Public : InitArrives(a)
    \/ ReadTun \/ ReadTunError \/ KeepaliveTick
    \/ Post \/ PostArrives \/ PostAccepted \/ PostFails \/ PostHangs
    \/ \E r \in late : LateArrives(r)
    \/ OpenInVain
    \/ \E st \in Stream : OpenStream(st)
    \/ FirstFrame \/ StreamFails \/ StreamEnds
    \/ TunnelEnds \/ ClientCrash
    \/ ClientTick
    \/ ServerStep

TunnelInit == Init /\ ClientInit
TunnelSpec == TunnelInit /\ [][TunnelNext]_<<vars, client>>

\* What is asked of the runtime, and of the network: that a request reaches the
\* server and is answered, unless it fails or hangs.  And that time goes on.
Fairness ==
    /\ WF_<<vars, client>>(ClientTick)
    /\ WF_<<vars, client>>(Cleanup /\ UNCHANGED client)
    /\ WF_<<vars, client>>(KeepaliveTick)
    /\ WF_<<vars, client>>(Post)
    /\ WF_<<vars, client>>(PostArrives)
    /\ WF_<<vars, client>>(PostAccepted)
    /\ WF_<<vars, client>>(post.at = "refused" /\ PostFails)
    /\ WF_<<vars, client>>(Connected)
    /\ WF_<<vars, client>>(ConnectFails)
    /\ WF_<<vars, client>>(TunnelEnds)

FairTunnelSpec == TunnelSpec /\ Fairness

-----------------------------------------------------------------------------
(* Properties.                                                             *)

ClientTypeOK ==
    /\ phase \in {"idle", "init", "tunnel"}
    /\ attempt \in Public \cup {0}
    /\ inits \subseteq Public
    /\ answers \in [Public -> SessionId \cup {None}]
    /\ tasks \subseteq Task
    /\ queue \in Seq(Frame)
    /\ \/ post = NoPost
       \/ /\ post.at \in {"way", "accepted", "refused", "hangs"}
          /\ post.frame \in Frame
    /\ late \subseteq SessionId \X (Frame \cup {StreamRequest})
    /\ reading \in Stream \cup {None}
    /\ caught \in BOOLEAN
    /\ {timer, sealed} \subseteq Nat

\* The frames the server has not seen, in order: that of the request on its way,
\* at 0, and those queued behind it.
Waiting == {i \in 0..Len(queue) : i = 0 => post.at = "way"}
FrameAt(i) == IF i = 0 THEN post.frame ELSE queue[i]

\* As long as send_task runs and the server knows the session, every packet the
\* client sealed is at the server, in the request on its way or in the queue,
\* in order and once: whatever failed before, the next one will open.  A single
\* gap would make the server drop all that follows without a word.
NothingLost ==
    Running("send") /\ Session \in Live =>
        LET Due == Len(toTun[Session])
            Data == {i \in Waiting : IsData(FrameAt(i))}
            Packet(i) == FrameAt(i).sealed.packet
        IN  /\ \A i \in Data : Packet(i) \in Due..(sealed - 1)
            /\ \A n \in Due..(sealed - 1) : \E i \in Data : Packet(i) = n
            /\ \A i, j \in Data : i < j => Packet(i) < Packet(j)

\* While its tasks run, a client is not forgotten by a server that keeps
\* running, even with no traffic, no stream and a slow start, unless requests
\* do not get through: then one is unanswered.
EvictedOnlyUnanswered ==
    /\ Running("send") /\ Running("keepalive")
    /\ Session \notin Live \cup forgotten
    => post # NoPost \/ queue # <<>>

\* To the server this client is one of the clients HttpStore admits: what holds
\* of the store whatever its clients do holds of the tunnel.
StoreSpec == Spec

\* A client whose session is gone stops sending: a keepalive, if nothing else,
\* is refused.  Not so when an answer hangs, which has no timeout.  (Within the
\* bound on time: a keepalive must still come.)
GoneNoticed ==
    /\ Running("send") /\ Session \notin Live
    /\ now + KEEPALIVE_INTERVAL <= MaxNow
    ~> ~Running("send") \/ post.at = "hangs"

\* A packet that send_task may yet send gets to the server's TUN device, or the
\* session is gone, send_task has ended or an answer hangs.
UplinkDelivery ==
    \A n \in 0..(MaxUp - 1), a \in Public :
        attempt = a /\ Running("send") /\ sealed > n /\ Session \in Live
            ~> \/ answers[a] # None /\ Len(toTun[answers[a]]) > n
               \/ attempt # a \/ ~Running("send")
               \/ Session \notin Live
               \/ post.at = "hangs"
=============================================================================
