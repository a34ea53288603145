----------------------------- MODULE HttpStore ------------------------------
(***************************************************************************)
(* The HTTP sessions of the server: HttpSessionStore with its two          *)
(* background tasks, and the handlers of /http/init, /http/send and        *)
(* /http/stream (src/src/tunnel/http_server.rs).                           *)
(*                                                                         *)
(* The mutex of the store makes each critical section one step.  A stream  *)
(* request has two of them, with the rest of the server in between.  The   *)
(* clients are the environment: whatever they may send arrives at any time *)
(* and in any order.  Session ids and streams are numbered as they are     *)
(* made, packets as a TUN device is read.  Time is counted in ticks.       *)
(***************************************************************************)
EXTENDS Naturals, Sequences, Crypto

CONSTANTS
    Psk,            \* preshared-secret hashes
    ServerPsk,      \* the one the server loaded
    Public,         \* ephemeral public keys of the clients
    SESSION_TIMEOUT,  \* ticks after which a session unheard of is evicted
    CleanupPeriod,  \* ticks the cleanup task sleeps
    MaxNow,         \* bound: ticks
    MaxSession,     \* bound: sessions made
    MaxStream,      \* bound: streams requested
    MaxDown,        \* bound: packets read from the TUN device
    MaxUp,          \* bound: packets a client seals
    MaxQueue        \* bound: frames in a stream's channel

ASSUME PskAssumption == ServerPsk \in Psk
ASSUME TimeAssumption ==
    SESSION_TIMEOUT \in Nat \ {0} /\ CleanupPeriod \in Nat \ {0} /\ MaxNow \in Nat
ASSUME BoundAssumption ==
    {MaxSession, MaxStream, MaxDown, MaxUp, MaxQueue} \subseteq Nat

SessionId == 1..MaxSession
Stream == 1..MaxStream
None == 0

VARIABLES
    now,        \* the clock
    cleanupAt,  \* when the cleanup task wakes up
    sessions,   \* the map of the store: session id -> HttpSession
    made,       \* how many session ids have been given out
    requests,   \* stream requests between their critical sections
    stream,     \* stream[st]: "none", "open" while its response body is held, "closed"
    owner,      \* owner[st]: the session id stream st was requested with
    frames,     \* history: frames[st], what was put into the channel of st
    keepalives, \* the streams whose keepalive task runs
    reader,     \* whether the task that reads the TUN device runs
    read,       \* history: how many packets it has read
    toTun,      \* history: toTun[s], packets of session s given to the TUN device
    heard,      \* history: heard[s], when session s was made or last named by a
                \* request
    forgotten   \* history: the session ids given out before the last restart

vars == <<now, cleanupAt, sessions, made, requests, stream, owner, frames,
          keepalives, reader, read, toTun, heard, forgotten>>

Key == SUBSET ({"client", "server"} \X (Public \cup SessionId))

\* HttpSession, with the stream that owns the receiver of stream_sender.
HttpSession == [key : Key, readCounter : Nat, writeCounter : Nat, lastSeen : Nat,
                stream : Stream \cup {None}]

\* The ephemeral keys: the server makes one for each session.
ClientKey(pub) == <<"client", pub>>
ServerKey(s) == <<"server", s>>

KeepaliveFrame == [type |-> "KEEPALIVE"]
\* (Mutant: a data frame of the wrong type.)
DataFrameMistyped(k, n, p) == [type |-> "KEEPALIVE", sealed |-> Encrypt(k, n, p)]
DataFrame(k, n, p) == [type |-> "DATA", sealed |-> Encrypt(k, n, p)]

Init ==
    /\ now = 0
    /\ cleanupAt = CleanupPeriod
    /\ sessions = <<>>
    /\ made = 0
    /\ requests = {}
    /\ stream = [st \in Stream |-> "none"]
    /\ owner = [st \in Stream |-> None]
    /\ frames = [st \in Stream |-> <<>>]
    /\ keepalives = {}
    /\ reader = TRUE
    /\ read = 0
    /\ toTun = [s \in SessionId |-> <<>>]
    /\ heard = [s \in SessionId |-> 0]
    /\ forgotten = {}

Live == DOMAIN sessions

\* A session is named by a request, which refreshes it.  (Mutant: it does not.)
SeenNotRefreshed(session) == session
Seen(session) == [session EXCEPT !.lastSeen = now]

-----------------------------------------------------------------------------
(* The handlers.                                                           *)

\* do_init: an auth frame that verifies makes a session; any other is refused.
DoInit(pub, psk) ==
    LET s == made + 1
        session == [key |-> DeriveKey(ServerKey(s), ClientKey(pub)),
                    readCounter |-> 0, writeCounter |-> 0, lastSeen |-> now,
                    stream |-> None]
    IN  /\ made < MaxSession
        /\ VerifyAuth(AuthPayload(pub, psk), ServerPsk)
        /\ made' = s
        /\ sessions' = [i \in Live \cup {s} |-> IF i = s THEN session ELSE sessions[i]]
        /\ heard' = [heard EXCEPT ![s] = now]
        /\ UNCHANGED <<now, cleanupAt, requests, stream, owner, frames, keepalives,
                       reader, read, toTun, forgotten>>

\* A packet goes to the TUN device.  (Mutant: read_counter is forgotten.)
AcceptedUncounted(session) == session
Accepted(session) == [session EXCEPT !.readCounter = @ + 1]

\* send_handler for a session it knows: a data frame that opens goes to the TUN
\* device; a keepalive, a frame that does not open or parse does nothing more
\* than refresh the session.
Send(s, f) ==
    LET opens == f.type = "DATA" /\ Opens(sessions[s].key, sessions[s].readCounter, f.sealed)
    IN  /\ s \in Live
        /\ heard' = [heard EXCEPT ![s] = now]
        /\ sessions' = [sessions EXCEPT ![s] = IF opens THEN Accepted(Seen(@)) ELSE Seen(@)]
        /\ toTun' = IF opens THEN [toTun EXCEPT ![s] = Append(@, f.sealed.packet)]
                             ELSE toTun
        /\ UNCHANGED <<now, cleanupAt, made, requests, stream, owner, frames,
                       keepalives, reader, read, forgotten>>

\* The first critical section of stream_handler: the session must exist.
StreamLookup(s, st) ==
    /\ s \in Live
    /\ owner[st] = None
    /\ st > 1 => owner[st - 1] # None
    /\ owner' = [owner EXCEPT ![st] = s]
    /\ requests' = requests \cup {st}
    /\ sessions' = [sessions EXCEPT ![s] = Seen(@)]
    /\ heard' = [heard EXCEPT ![s] = now]
    /\ UNCHANGED <<now, cleanupAt, made, stream, frames, keepalives, reader, read,
                   toTun, forgotten>>

\* The session of a stream takes its sender, in the place of an older one.
\* (Mutant: and starts to count again.)
RegisteredFromZero(session, st) == [session EXCEPT !.stream = st, !.writeCounter = 0]
Registered(session, st) == [session EXCEPT !.stream = st]

\* The second one, and the response: the keepalive task and the body start even
\* when the session has been evicted in between.
StreamRegister(st) ==
    LET s == owner[st]
    IN  /\ st \in requests
        /\ requests' = requests \ {st}
        /\ stream' = [stream EXCEPT ![st] = "open"]
        /\ keepalives' = keepalives \cup {st}
        /\ sessions' = IF s \in Live
                       THEN [sessions EXCEPT ![s] = Registered(@, st)]
                       ELSE sessions
        /\ UNCHANGED <<now, cleanupAt, made, owner, frames, reader, read, toTun, heard, forgotten>>

\* The client's connection ends and takes what serves it along: the handler if
\* it has not answered, the body (and the channel's receiver) if it has.
StreamLost(st) ==
    /\ st \in requests \/ stream[st] = "open"
    /\ requests' = requests \ {st}
    /\ stream' = [stream EXCEPT ![st] = "closed"]
    /\ UNCHANGED <<now, cleanupAt, sessions, made, owner, frames, keepalives, reader,
                   read, toTun, heard, forgotten>>

-----------------------------------------------------------------------------
(* The background tasks.                                                   *)

\* The keepalive task of a stream, which ends with the channel's receiver.
StreamKeepalive(st) ==
    /\ st \in keepalives
    /\ IF stream[st] = "open"
       THEN /\ Len(frames[st]) < MaxQueue
            /\ frames' = [frames EXCEPT ![st] = Append(@, KeepaliveFrame)]
            /\ UNCHANGED keepalives
       ELSE /\ keepalives' = keepalives \ {st}
            /\ UNCHANGED frames
    /\ UNCHANGED <<now, cleanupAt, sessions, made, requests, stream, owner, reader,
                   read, toTun, heard, forgotten>>

\* The sessions a packet is sealed for: those with a sender, whose channel may
\* be closed.  (Mutant: all of them.)
AllSessions == Live
Streaming == {s \in Live : sessions[s].stream # None}

\* The streams whose channel is open and whose session sends into it.
Fed(st) == /\ stream[st] = "open"
           /\ owner[st] \in Live
           /\ sessions[owner[st]].stream = st

\* The TUN reader seals a packet for each of them, under the session's next
\* counter, and sends it, in vain when the stream is gone.
TunRead ==
    /\ reader
    /\ read < MaxDown
    /\ \A st \in Stream : Fed(st) => Len(frames[st]) < MaxQueue
    /\ read' = read + 1
    /\ sessions' = [s \in Live |-> IF s \in Streaming
                                   THEN [sessions[s] EXCEPT !.writeCounter = @ + 1]
                                   ELSE sessions[s]]
    /\ frames' = [st \in Stream |->
           IF Fed(st)
           THEN LET session == sessions[owner[st]]
                IN  Append(frames[st],
                           DataFrame(session.key, session.writeCounter, read))
           ELSE frames[st]]
    /\ UNCHANGED <<now, cleanupAt, made, requests, stream, owner, keepalives, reader,
                   toTun, heard, forgotten>>

\* An error of the TUN device ends the reader for good.
TunReadError ==
    /\ reader
    /\ reader' = FALSE
    /\ UNCHANGED <<now, cleanupAt, sessions, made, requests, stream, owner, frames,
                   keepalives, read, toTun, heard, forgotten>>

\* What the cleanup keeps.  (Mutant: a session is kept a tick too long.)
KeptTooLong(session) == now - session.lastSeen <= SESSION_TIMEOUT
Kept(session) == now - session.lastSeen < SESSION_TIMEOUT

\* The cleanup task evicts.  An evicted session's sender is dropped; a stream
\* that has one stays open by the clone in its keepalive task.
Cleanup ==
    /\ now = cleanupAt
    /\ cleanupAt' = now + CleanupPeriod
    /\ sessions' = [s \in {s \in Live : Kept(sessions[s])} |-> sessions[s]]
    /\ UNCHANGED <<now, made, requests, stream, owner, frames, keepalives, reader,
                   read, toTun, heard, forgotten>>

\* Time passes, but not past the moment a sleeping task is to wake up.
Tick ==
    /\ now < MaxNow
    /\ now < cleanupAt
    /\ now' = now + 1
    /\ UNCHANGED <<cleanupAt, sessions, made, requests, stream, owner, frames,
                   keepalives, reader, read, toTun, heard, forgotten>>

\* The process dies and is started again: nothing of the store is persisted.
Restart ==
    /\ sessions' = <<>>
    /\ requests' = {}
    /\ stream' = [st \in Stream |-> IF owner[st] = None THEN "none" ELSE "closed"]
    /\ keepalives' = {}
    /\ reader' = TRUE
    /\ cleanupAt' = now + CleanupPeriod
    /\ forgotten' = 1..made
    /\ UNCHANGED <<now, made, owner, frames, read, toTun, heard>>

\* The frames a client may send: those it sealed with a key it can have derived,
\* a keepalive, and anything else, which has the effect of a keepalive.
ClientFrame(s) ==
    {KeepaliveFrame}
    \cup {DataFrame(DeriveKey(ServerKey(s), ClientKey(pub)), n, n) :
             pub \in Public, n \in 0..(MaxUp - 1)}

Next ==
    \/ \E pub \in Public, psk \in Psk : DoInit(pub, psk)
    \/ \E s \in SessionId : \E f \in ClientFrame(s) : Send(s, f)
    \/ \E s \in SessionId, st \in Stream : StreamLookup(s, st)
    \/ \E st \in Stream : \/ StreamRegister(st)
                          \/ StreamLost(st)
                          \/ StreamKeepalive(st)
    \/ TunRead
    \/ TunReadError
    \/ Cleanup
    \/ Tick
    \/ Restart

Spec == Init /\ [][Next]_vars

-----------------------------------------------------------------------------
(* Properties.                                                             *)

Frame == {KeepaliveFrame}
         \cup [type : {"DATA"}, sealed : [key : Key, counter : Nat, packet : Nat]]

TypeOK ==
    /\ {now, cleanupAt, read} \subseteq Nat
    /\ made \in SessionId \cup {0}
    /\ Live \subseteq 1..made
    /\ \A s \in Live : sessions[s] \in HttpSession
    /\ requests \subseteq Stream
    /\ stream \in [Stream -> {"none", "open", "closed"}]
    /\ owner \in [Stream -> SessionId \cup {None}]
    /\ frames \in [Stream -> Seq(Frame)]
    /\ keepalives \subseteq Stream
    /\ reader \in BOOLEAN
    /\ toTun \in [SessionId -> Seq(Nat)]
    /\ heard \in [SessionId -> Nat]
    /\ forgotten \subseteq SessionId

IsData(f) == f.type = "DATA"

\* Of the packets the server seals, no two have key and counter in common: not
\* in two streams of a session that take over from one another, in whatever
\* order their requests are answered, and not in a session made after a restart.
NonceOnce ==
    \A st1, st2 \in Stream :
        \A i \in 1..Len(frames[st1]), j \in 1..Len(frames[st2]) :
            /\ IsData(frames[st1][i])
            /\ IsData(frames[st2][j])
            /\ frames[st1][i].sealed.key = frames[st2][j].sealed.key
            /\ frames[st1][i].sealed.counter = frames[st2][j].sealed.counter
            => st1 = st2 /\ i = j

\* A packet comes next after the first n frames of a channel: its counter and its
\* number are those after the last packet's or, when there is none and no other
\* stream has been requested with the session, the counter is 0.
NoData(channel, first, last) == \A i \in first..last : ~IsData(channel[i])
Others(st) == {other \in Stream \ {st} : owner[other] = owner[st]}
Follows(channel, n, sealed, others) ==
    \/ \E i \in 1..n : /\ IsData(channel[i])
                       /\ NoData(channel, i + 1, n)
                       /\ sealed.counter = channel[i].sealed.counter + 1
                       /\ sealed.packet = channel[i].sealed.packet + 1
    \/ NoData(channel, 1, n) /\ (others = {} => sealed.counter = 0)

\* From its registration until another takes its place or it is lost, a stream
\* gets every packet the TUN reader reads, under counters without a gap; those
\* of a session's only stream start at 0, where the client's read_counter does.
StreamContiguous ==
    \A st \in Stream : \A j \in 1..Len(frames[st]) :
        IsData(frames[st][j]) =>
            Follows(frames[st], j - 1, frames[st][j].sealed, Others(st))

\* Requests of a session that come late, twice or in another order do not get
\* a packet to the TUN device twice or ahead of one sealed before it.
UplinkInOrder ==
    \A s \in SessionId : \A i \in 1..Len(toTun[s]) : toTun[s][i] = i - 1

\* A client that is heard of again before SESSION_TIMEOUT keeps its session for
\* as long as the server runs, whichever kind of request it makes.
ActiveKept ==
    \A s \in (1..made) \ forgotten :
        now - heard[s] < SESSION_TIMEOUT => s \in Live

\* A session nothing is heard of for the timeout and a cleanup period is gone,
\* though its stream be open.
StaleEvicted ==
    \A s \in Live : now - heard[s] < SESSION_TIMEOUT + CleanupPeriod
=============================================================================
