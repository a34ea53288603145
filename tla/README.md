# A formal model of bobvpn

TLA+ specifications of bobvpn, a VPN that carries the packets of a TUN device
over a WebSocket or, where that is not possible, over plain HTTP requests. The
modules are translated from the Rust source; paths below are relative to the
repository root. TLC model-checks them on small instances, and TLAPS proves the
main results for every instance.

## 1. The system

| Part | Source | State it keeps | Operations |
|---|---|---|---|
| WebSocket tunnel, client | `src/src/tunnel/client.rs` | per connection: shared key, `write_counter`, `read_counter`, the channel `tun_tx`/`tun_rx`, three tasks | connect, handshake, read TUN, keepalive, write, receive, abort |
| WebSocket tunnel, server | `src/src/tunnel/server.rs` | the same per handler, handlers of several connections at once | upgrade, handshake, and the same |
| Cryptography | `src/src/crypto.rs` | the ephemeral secret of a handshake | derive key, auth payload, encrypt, decrypt |
| Frame format | `src/src/tunnel/mod.rs` | none | encode, decode |
| HTTP session store, server | `src/src/tunnel/http_server.rs` | map of sessions (key, two counters, `last_seen`, `stream_sender`), cleanup task, TUN reader, a keepalive task per stream | init, send, stream, evict, broadcast |
| HTTP client, uplink | `src/src/tunnel/http_fallback.rs` 19-150, 217-292 | session id, channel, `write_counter`, four tasks | init, post a frame, keepalive, read TUN |
| HTTP client, downlink | `src/src/tunnel/http_fallback.rs` 152-231, 294-320 | parser buffer, channel, `read_counter` | open stream, parse, deliver, retry |
| Reconnection, client | `src/src/tunnel/client.rs` 16-74, 129-148 | `attempt` | back off, choose the transport |
| Preshared secret | `src/src/crypto.rs` 73-94, `src/src/config.rs` 28-42 | a file | load, generate |
| Client routes | `src/src/main.rs` 66-151, 294-346 | the host's routing table | pin, replace default routes |
| TUN device | `src/src/tun.rs` | the kernel's queue, shared by all readers of a process | receive, send |
| TLS, ACME, NAT set-up, NetworkManager, web page | `server.rs` 81-157, `main.rs`, `nm.rs`, `web.rs` | none of their own | run once at start |

**How they interact.** A client process has one tunnel at a time: its reconnect
loop makes a connection, runs the tunnel until its main task returns, waits and
starts over. The server runs a handler for every WebSocket and the HTTP store
beside them, all of them reading one TUN device. Inside an end of a WebSocket
tunnel, `tun_reader` and the keepalive task send into one unbounded channel,
`tun_writer` moves it to the socket, and the main task reads the socket and
writes the TUN device. With HTTP, every uplink frame is a request of its own,
and the downlink is the body of one long response, whose channel the store's
TUN reader and a keepalive task share. Before any of it, the client command
changes the routes of its host so that packets go into the TUN device and the
tunnel's own do not; and either side has loaded the preshared secret.

**What is hard here.**

- *Lock-step counters.* A packet is sealed under the sender's counter and opens
  under the receiver's, and neither is ever transmitted or resynchronised. One
  frame lost, repeated or overtaken anywhere in between, and nothing decrypts
  any more, without an error that ends the tunnel.
- *Fresh keys.* Counters restart at 0 with each connection or session. Only the
  ephemeral keys separate them, while old handlers may still be running.
- *Tasks that end one by one.* Reader, keepalive, writer and main task end for
  different reasons and at different times; `abort` takes effect at an await.
- *Silent failures.* A path that fails without a word, a half-closed
  connection, a process that dies; awaits without a timeout.
- *Two critical sections in one handler* (`stream_handler`), against eviction,
  other stream requests and the TUN reader.
- *Requests nobody awaits any more*, which still arrive; a session the client
  believes in and the server has forgotten.
- *Byte streams.* The HTTP client cuts frames out of a byte stream itself.
- *State outside the process* (the secret's file, the routing table) that
  survives a crash between two steps.

`PROJECT.json` lists every hazard with its line and the properties on guard.

## 2. Modules

| Module | Models | Uses |
|---|---|---|
| `Crypto` | `crypto.rs`, symbolically | |
| `PacketPipe` | nothing in the code: what a connection promises the packets it carries | |
| `WsTunnel` | `client.rs` 76-127, 150-314 and `server.rs` 159-325 | `Crypto`, and `PacketPipe` as the abstract specification |
| `FrameCodec` | `mod.rs`, on bytes | |
| `StreamReader` | `http_fallback.rs` 152-231 and 294-320, on the body of `http_server.rs` 262-275 | `FrameCodec` |
| `HttpStore` | `http_server.rs` | `Crypto` |
| `HttpTunnel` | `http_fallback.rs` 19-150 and 217-320, composed with the server | `HttpStore`, which is also its abstract specification |
| `Reconnect` | `client.rs` 16-74, 129-148 | |
| `SecretStore` | `crypto.rs` 73-94, `config.rs` 28-42 | |
| `ClientRoutes` | `main.rs` 66-151, 294-346 | |
| `MCWsTunnel`, `MCStreamReader`, `MCHttpStore`, `MCHttpTunnel` | values for TLC; the other modules take theirs from the `.cfg` alone | |
| `WsTunnelProofs`, `FrameCodecProofs`, `StreamReaderProofs`, `HttpStoreProofs`, `HttpTunnelProofs`, `ReconnectProofs`, `SecretStoreProofs`, `ClientRoutesProofs` | theorems of the module they are named after | |

### WsTunnel

An *endpoint* is a side and a connection number; client connections are
numbered in the order they are made. Both sides run the same code once the
handshake is over, so one action serves both, and `map` points at either copy.

| Variable | Code |
|---|---|
| `main` | where the main task is: not started, in the handshake, in its loop, returned |
| `tasks` | which spawned tasks have not ended |
| `key` | `shared_key` / `key` |
| `chan` | the frames in `tun_tx`/`tun_rx`; `ChannelOpen`: the receiver, which the writer owns, lives |
| `wire` | messages written to a WebSocket and not read: reliable and FIFO until it breaks, as TCP is |
| `writeCounter`, `readCounter` | `write_counter` of `tun_reader`, `read_counter` of the main loop |
| `cut` | connections whose network path has failed (nobody is told) |
| `clientPsk` | what the client loaded; the server has `ServerPsk` |
| `sent`, `got` | histories: packets numbered by a reader, packets given to a TUN device |

`Connect` is `try_ws_connect` up to its first await on the answer. The server's
`handshake` is one step: it awaits one message and then only the sending of its
answer, and the tasks of `handle_ws` start right after it. A TCP stream is
dropped (`Dropped`) when both halves of the split WebSocket are, so after the
main task has returned an endpoint's connection lives until its writer has
stopped. On a broken connection a write may succeed into a buffer nobody reads
or fail, and a main task may see the end before the last messages are read.
Processes may crash at any time (`Crash`).

Not in it: pings, close frames and text messages (they change no state but the
end of the loop, which `MainEnds` is), TUN write errors (logged only), the
back-off between connections (`Reconnect`), and the `encrypt`/`encode error`
branches (`TunPacketFits` in `FrameCodecProofs` shows that `encode` accepts
every packet a reader can have read).

### FrameCodec and StreamReader

`FrameCodec` works on sequences of digits in base `Base`, so that TLC can use a
small base in which two-digit lengths do happen. `StreamReader` is the HTTP
client's reading end at the level of bytes: `open_stream` reads one or more
bytes at a time, waits for a length and then for a frame, forwards it, and
goes on with what `split_off` left in its buffer. The server and the network
are the environment; they write frames, end the response or lose the
connection, and the server's counter goes on while no stream is open. A packet
is named by the counter it is sealed under. `task = "stuck"` is the loop that
skips the headers of a response that has ended.

The body is not the frames alone. `Body::from_stream` has no length, the request
is HTTP/1.1 (`http_fallback.rs:163`), and hyper answers such a request in chunks:
each frame is preceded by a line with its size in hexadecimal, and followed by a
line end (`Chunk`). `open_stream` takes no chunks apart and reads the size line
as the head of a frame: two ASCII characters make a length of 12,557 to 17,990
bytes, and the type is the third character of the line or a line end. The model
has these lines as constants, `SizeLine` and `CRLF`, of which it assumes only what
every such line has: three bytes at least, and a third that is no frame type
(`LineAssumption`). For TLC they make short lengths, so that a frame is complete
after a chunk or two instead of some hundred.

### HttpStore

Each critical section under the store's mutex is one action, so `/http/stream`
is two (`StreamLookup`, `StreamRegister`), with everything else in between,
including the loss of the client's connection (`StreamLost`). `sessions` is the
map itself; `stream_sender` is the number of the stream whose channel it sends
into. `frames` keeps all that was put into a stream's channel. Closed channels
swallow a packet but not the count, as `http_server.rs:82-89` does. Clients are
the environment: any frame a client may seal may arrive at any time, repeatedly
and in any order. Time is in ticks, and `Tick` waits for a cleanup that is due:
the cleanup task is taken to run on time. Refused requests change nothing and
are not steps. `forgotten` and `heard` are histories for the properties.

### HttpTunnel

The real client put in the place of that environment. It has `HttpStore`'s
variables and its own; every action that reaches the server conjoins the
handler's action of `HttpStore` (`InitArrives` is `DoInit`, `PostArrives` and
`LateArrives` are `Send`, `OpenStream` and a late stream request are `StreamLookup`), so the composition is
one state machine and not two models side by side.

| Variable | Code |
|---|---|
| `phase`, `attempt` | between two connections, in `connect`, in `run_tunnel`; which connection |
| `inits`, `answers` | init requests on their way (also those that timed out), and the session made for each |
| `tasks` | `stream_task`, the keepalive task, `send_task`, `tun_reader` |
| `queue`, `post` | `send_tx`/`send_rx`, and the one request `send_task` awaits |
| `late` | requests on their way that nobody awaits any more |
| `reading`, `caught` | the stream `open_stream` reads; whether it is in a loop it cannot leave |
| `timer` | when `connect` times out, or the keepalive interval is over |
| `sealed` | `write_counter` |

A request fails before, at or after the server; one that was abandoned may
arrive later (`Abandon`); an answer may end inside its headers, which `http_post`
loops on for ever (`PostHangs`). The first failure ends `send_task` alone
(`SendEnds`); the tunnel goes on until `stream_task` ends too. A stream request
reaches the server at once, or late, after the client has given it up
(`OpenInVain`, `LateArrives`). The downlink is followed up to the first frame
`open_stream` takes, which is none of the server's and after which it comes back
to nothing else; `StreamReader` has it in bytes, and its `CaughtForGood` and
`NothingOpens` are what `HttpTunnel` takes for granted there.

### Reconnect

The three loops of `client.rs` are one: they differ in the transport an attempt
begins with (`forced`) and in what a failed dial does next (`by`). `Delay` has
the machine arithmetic, with `Width` bits for 32, on powers of 2 that are a
recursive function (`power`) and taken modulo the width's. A connection is seen from
outside; whether a wait inside can last for ever (`stuck`) is what `WsTunnel`
(handshake) and `HttpTunnel` (a stream task that is caught) say of it.

### SecretStore

`load_preshared_secret` in four steps, since the file system is shared: look
(`Start`), read, create or empty (`Create`), write. Processes start together, die
between any two steps, or lose the container with all that is not in a volume
(`Recreate`). `Dir` is where the environment puts the file. What a file half written has is one value, `Torn`: both the empty
and the cut-off file are refused, as is what is not 32 bytes of hex.

### ClientRoutes

The client command before it connects, one action per command: read the
gateways, look the server up, pin each address, delete the default routes, set
the new ones; `failing` is the set of commands that may fail on this host. A set
of gateways stands for the lines `get_gateway` prints, all of which go into the
one argument of `ip route replace`; no gateway and several gateways are no pin.
A default route that could not be deleted may have the new one refused, if its
metric is the same, or stand beside it. Routes via the TUN device go with the
process, pins stay, and DHCP may restore the default routes while it is down.

## 3. What is checked

Every property has a mutant: the definition named in `PROJECT.json` replaced
by a form with a plausible bug, under which TLC finds the property violated.
The mutated forms stand before the definitions they replace.

| Run | Properties | Distinct states |
|---|---|---|
| `ws_one_connection` | `TypeOK`, `InOrder`, `NoDecryptError`, `PipeSpec`, `Delivery` | 297,000 |
| `ws_reconnect` | `KeysAgree`, `Teardown`, `HandshakeEnds` | 24,600 |
| `stream_reader` | `TypeOK`, `ParsersAgree`, `NothingOpens`, `CaughtForGood` | 41,900 |
| `stream_frames` | `FramesForwarded` (violated) | |
| `http_store` | `TypeOK`, `ActiveKept`, `StaleEvicted`, `UplinkInOrder`, `NonceOnce`, `StreamContiguous` | 4,970,000 |
| `http_tunnel` | `NothingLost`, `EvictedOnlyUnanswered` | 7,280,000 |
| `http_tunnel_live` | `ClientTypeOK`, `StoreSpec`, `GoneNoticed`, `UplinkDelivery` | 454,000 |
| `reconnect` | `TypeOK`, `FloorUntilOverflow`, `BackoffGrows`, `Recovers` | 4,660 |
| `secret` | `TypeOK`, `RunsWithFile`, `NeverTorn`, `SecretKept`, `StartSucceeds` | 10,700 |
| `secret_lost` | `SecretPersists` (violated) | |
| `client_routes` | `TypeOK`, `StaysReachable`, `AllThroughTun` | 337,000 |
| `client_routes_loop` | `NoLoop` (violated) | |

- **ws_one_connection**: one connection, two packets from the client and one
  from the server, one queued frame and one message on the wire per direction.
  Two packets in a row are what it takes to skip, repeat or swap one; a full
  wire with a full channel behind it is the longest pipeline between two
  counters. `MaxSent` bounds how many packets a reader takes, `MaxChan` the
  channel that is unbounded in the code; guards, not constraints, apply them.
  The refinement mapping of `PipeSpec` reads `sent` as what the pipe has
  accepted, `got` of the peer as what it has delivered, and a flow as closed
  when the receiving main task is done.
- **ws_reconnect**: two connections without traffic, the right or the wrong
  secret at the client: every overlap of an old handler with a new one, with
  crashes of both sides. Two are enough for keys to be confused between
  connections; the theorem covers any number. As no frame is queued here, a
  writer that fails is in the run above, and old tasks with frames in hand
  beside a new connection are in the theorems only. The client accepts whatever
  key it is sent (nothing in a key exchange frame proves the preshared secret),
  so nothing is claimed about who the server is.
- **stream_reader**: two streams of up to two frames, in base 8, so that the two
  length bytes of a packet's frame differ, with size lines of one digit or two;
  reads cut the bytes in every way. A keepalive's chunk alone is too short for
  the length its size line seems to say, and what follows completes it, as in
  the program. Up to three frames forwarded per stream: one more than were
  written.
- **stream_frames**: the same, under fairness of the client's tasks.
- **http_store**: two sessions, two streams, two packets down, two up; the
  timeout is one tick so that a session can be evicted between the two
  critical sections of a stream request. Two packets up can overtake one
  another or be repeated. There is one client public key for all sessions, the
  hardest case for `NonceOnce`. The theorems cover any timeout and period.
  `NonceOnce` is about what the server seals and no more: the client seals under
  the same key with a counter that starts at 0 as well, and `make_nonce`
  (`crypto.rs` 60-64) has nothing that tells the directions apart.
- **http_tunnel**: two connections, the second of which meets late requests of
  the first, two packets up, timeout 3 and keepalives and cleanup every tick
  (90 s and 30 s in the code), four ticks: one more than a session outlives its
  last request. There are no streams in it.
- **http_tunnel_live**: the same system with a stream, a packet each way, and one
  connection, under the fairness below. A timeout as short as the keepalive
  interval makes evictions frequent, which its properties are about. What
  happens across connections and sessions is in `http_tunnel` and, for
  `StoreSpec`, in the theorem.
- **reconnect**: 6 bits for 32, so that the power wraps after 6 attempts and the
  counter itself after 64: TLC goes through both. The wrap is a defect of the
  code (a client that was connected often enough dials without a pause), and
  `FloorUntilOverflow` says exactly when it begins and ends.
- **secret**: two processes with up to three deaths or new containers; eight
  secrets are as many as they can generate, so that bound stops none of them.
  The environment is that of `docker-compose.yml` and the Dockerfile:
  `BOBVPN_HOME` is not set, so the file is not in the volume.
- **secret_lost**: one process and one new container in the same environment.
- **client_routes**, **client_routes_loop**: two IPv4 addresses, one of them on
  the local network, an IPv6 address, two gateways, any commands that fail.

`CHECK_DEADLOCK FALSE` in all runs but the two of `Reconnect`, which never
stops: the other systems really stop, when the last connection, stream, tick,
packet or crash a bound allows is used up.

**Fairness.** All of it is weak fairness of single steps.

- `WsTunnel`: of what the runtime schedules (reads of the socket, the writer,
  aborted tasks, handshake steps) and of an open endpoint learning that its
  connection is broken: keepalives every 30 s meet an error or TCP's
  retransmission limit. An endpoint still in the handshake sends none, so it is
  only assumed to learn of its peer's end while the network works, and
  `HandshakeEnds` promises no more: the code has no timeout there. Nothing makes
  the client connect, a TUN device hold packets, a timer tick or anything fail.
- `StreamReader`: of reads, parsing and the main loop, none of the server.
- `HttpTunnel`: time goes on, timers fire, `send_task` posts, and a request
  reaches the server and is answered, unless it fails or hangs. Nothing makes a
  packet come or a stream open. `GoneNoticed` and `UplinkDelivery` therefore
  name the hanging answer as an exception; without it both fail, since
  `http_post` has no timeout. A stream task that is caught spins without an
  await and occupies a worker thread of the runtime: that the other tasks are
  still polled holds on a runtime with more than one, as tokio's default has on
  a machine with several processors.
- `Reconnect`: a dial comes to an end, an outage is found out unless the client
  is stuck, and a sleep is over. Nothing makes the server return.
- `SecretStore`: a process that is down is started again (`restart:
  unless-stopped`) and goes on.

## 4. What is proved

Every theorem holds for all values of the constants, from the named assumptions
on them. Each temporal theorem follows from an inductive invariant; below is
what the invariant has to say beyond the property.

`WsTunnelProofs`: `TypeCorrect`, `KeysAgreeCorrect`,
`InOrderCorrect`, `NoDecryptErrorCorrect`, `Invariance` (the inductive invariant)
and `Refinement` (`Spec => PipeSpec`). `InOrder` says nothing of the frames on
their way. The invariant follows one direction at a time. `InFlight(e)` is the
wire of `e` followed by its channel, as long as the connection lives. `Numbered`
says that the data frames in it carry consecutive counters, from the peer's
`readCounter` on, each with the packet `sent` has at that number and the key of
the connection; `Complete` that, unless the connection is broken, they reach up
to `writeCounter`. Each step of the system is one of a few changes to such a
sequence (a frame joins at the end, leaves at the front, moves from the channel
to the wire, or the rest is cut off), and there is a lemma for each. The key
facts need their own part: an endpoint's key is derived from its own ephemeral
key and its peer's, and a key exchange frame on a connection carries the key of
that connection's server. `BrokenStable` (a broken connection stays broken) is
what lets "complete" be given up for good.

`FrameCodecProofs`: `DecodeEncode` and `CutFrameRefused`, for every base and all
payloads; they rest on `Digits`, the division of a length into two bytes. TLC does
not run these two (their operands are data, not behaviours).

`StreamReaderProofs`: `TypeCorrect`, `NothingOpensCorrect`, `ParsersAgreeCorrect`,
`CaughtForGoodCorrect`, from `LineAssumption`. The invariant is about the bytes:
until a frame has been taken, what is read followed by what is still on the
network is a beginning of what the server wrote, whose third byte is that of a
size line; from then on the buffer holds exactly the frame taken, which is what
`split_off` leaves, and everything forwarded is that frame. Its type is then the
third byte, so no frame is forwarded that the main loop would open.
`CaughtForGoodCorrect` is an action property: the frame that stays in the buffer
is ready to be taken again and is the same, so no other step of the stream task
is ever enabled.

`HttpStoreProofs`, for every timeout, cleanup period and bound:

- `TypeCorrect`: the type invariant, which the rest needs because a session's
  fields are updated one at a time;
- `ActiveKeptCorrect` and `StaleEvictedCorrect`, from `TimeInv`. The store
  knows only `lastSeen`, so the invariant says that it is the time the session
  was last heard of; that the next cleanup comes before that time, the timeout
  and a period have passed (what keeps a stale session from staying on); and
  that a session which is gone, and not lost in a restart, was not heard of
  for the timeout;
- `NonceOnceCorrect`, from `NonceInv`: a key has the server's ephemeral key of
  one session, every packet in a stream was sealed with the key of the session
  the stream was requested with, and below the `writeCounter` that session goes
  on with. Only one stream of a session is fed at a time, so a packet sealed
  next meets none sealed before;
- `StreamContiguousCorrect`, from `DownlinkInv`, which says of every stream that
  is fed which packet comes next in it: the one the TUN reader reads next, under
  the session's `writeCounter`. For that to be the counter after the last one in
  the channel, or 0, it also has that a session without a sender has sealed
  nothing, and that the stream whose sender a session has was requested with it
  and has been answered. Only a stream that is not fed any more may fall behind;
- `UplinkInOrderCorrect`, from `UplinkInv`: a session in the store has handed
  over as many packets as its `readCounter` says, and one not made yet none.

`HttpTunnelProofs`:

- `Implementation`: `TunnelSpec => StoreSpec`. Every step of the client and the
  server together is one of the store or a stutter. It needs that the client
  only ever sends frames `HttpStore` admits of a client (`ClientOK`: what is
  queued or awaited is sealed with the session's key; what is late, with that of
  the session it was sealed for; no answer changes once it is there);
- `StoreOfTunnel`: hence the store's invariants hold of the tunnel, contiguous
  streams among them;
- `NothingLostCorrect`, from `LostInv`. Beside the property (`Accounted`: the data
  frames waiting are exactly those between what the server has and what the
  client has sealed, in order) it has that the session has the client's key, is
  untouched until `run_tunnel` starts, and that no late request is addressed to
  a session whose `send_task` still runs: it is `SendEnds`, the end of the task
  at the first failure, that makes this so;
- `EvictedOnlyUnansweredCorrect`, assuming `ConnectTimeout + KEEPALIVE_INTERVAL <
  SESSION_TIMEOUT`: 10 s of `http_fallback.rs:107` and 30 s of `config.rs:19`
  against 90 s of `http_server.rs:23`. `PromptInv` follows the client's timer: it
  is never overdue, and while the client's tasks run and none of its frames is
  unanswered, it fires no later than both intervals after the server last heard
  of the session. That the first of them counts is the case of an answer to
  `/http/init` that takes its time: the server's clock has run since then. With
  `TimeInv` of the store, a session heard of that recently is there;
- `ClientTypeCorrect`.

`SecretStoreProofs`: `TypeCorrect`, `NeverTornCorrect`, `RunsWithFileCorrect` and
`SecretKeptCorrect`, for any number of processes and any environment: nothing is
assumed of where the file is, and `SecretKept` says that a secret is lost with a
container only if `Dir` is not in a volume. `FileInv` says that without a race at
most one process has a secret that is not in the file, that there is then none
in the file, and that whoever runs has what is in the file.

`ClientRoutesProofs`: `TypeCorrect`; `StaysReachableCorrect`, from `PinInv` (until
the default routes go they are those whose gateways were read, and whichever
address is not pinned by then is still to be, needs no pin or was not reachable,
which the setting of the tunnel's route does not change);
`AllThroughTunCorrect`, from `DefaultsInv`.

`ReconnectProofs`: `TypeCorrect`, `FloorUntilOverflowCorrect` and
`BackoffGrowsCorrect`, for every width of the integers and all delays. They need that `power` is what its definition says,
positive and monotone, which takes induction over its argument. The library's
induction theorems have an operator as a parameter and cannot be used; that a
set of natural numbers has a least element has not, so the proofs take the
first number at which a fact fails (`FirstFailure`) and refute it. `DelayInv` says
that the delay is that of the current attempt.

**Only model-checked** are the liveness properties, since reasoning under
fairness, which is about `ENABLED`, is out of the prover's reach: `Delivery`,
`Teardown`, `HandshakeEnds`, `GoneNoticed`, `UplinkDelivery`,
 `Recovers`, `StartSucceeds`. Every invariant, action property and
refinement that a passing run checks is also the statement of a theorem. The
three properties the code violates stay with TLC.

## 5. Findings

- **`stream_frames`** shows two at once, either of which is enough for the HTTP
  downlink to carry nothing.
  - The body is chunked, though "Stream raw frames directly (no HTTP chunked
    encoding)" (`http_server.rs:262`), and `open_stream` reads a size line as the
    head of a frame. It collects more than 12,000 bytes of the body and forwards
    them as one frame of no known type, which the main loop drops. `NothingOpens`
    says that no packet ever gets through, however the chunks are cut up.
  - `open_stream` takes a frame with `buf.split_off(total_needed)`
    (`http_fallback.rs:208`). `split_off(at)` leaves the first `at` bytes in `buf`
    and returns the rest, so the frame just taken stays and what follows it is
    dropped. The loop finds the same frame ready again at once, forwards it
    again, and never reads the socket or awaits anything from then on, although
    the comment above says "Read raw length-prefixed frames from response body".
    With the body unchunked (`ChunkRaw`) it still violates `FramesForwarded`,
    and so do chunks if the bytes after the frame are kept. With both put right
    `FramesForwarded` holds for the same bounds.
- **`secret_lost`**: "The preshared secret is stored in a Docker volume ... and
  persists across restarts" (`DEVELOPER.md:66`). `config.rs:37` uses the volume's
  directory only if `BOBVPN_HOME` names it, which neither the compose file nor
  the Dockerfile does, and `~/.config/bobvpn` otherwise. A container created anew,
  as an upgrade does, generates another secret, and no client has it.
- **`client_routes_loop`**: on a host with two default routes `get_gateway`
  returns two lines, `ip route replace` refuses them as a gateway, the failure is
  logged, and the default routes are replaced all the same: the client connects
  with its route to the server leading into the tunnel, although "Pin the VPN
  server via the current default gateway so the tunnel doesn't loop"
  (`main.rs:310`).

Without a run of their own:

- `attempt` is never reset, and `2u32.pow(attempt - 1)` wraps to 0 in the 33rd
  attempt of a release build: the delay is 0 s from then on, below
  `RECONNECT_BASE_DELAY`, until the counter itself wraps (`FloorUntilOverflow`).
  In a debug build the multiplication panics.
- A process that dies while it writes the secret leaves a file that no later
  start accepts or replaces: the exception in `StartSucceeds`.
- With HTTP, the failure of one send ends the uplink for good while the tunnel
  stays up (`GoneNoticed` has the tunnel stop sending, and nothing has it start
  again); and a stream opened again on the same session starts at a counter the
  client does not expect, had it received any packet of it.
- Two processes that race to generate the first secret may go on with different
  ones (`raced`, which `RunsWithFile` and `SecretKept` except).

## 6. Not modelled

- **TLS and ACME** (`server.rs` 81-157): libraries, without state of the
  program's own. A connection is taken to be authenticated and ordered as TLS
  over TCP is; the models have their own losses.
- **Server network set-up, NAT, argument parsing** (`main.rs`) and
  **NetworkManager** (`nm.rs`): fixed commands run once, whose failures are logged
  or ignored; there is no later step that depends on them but packets that leave
  the host.
- **Windows variants** of the client's routes: other commands with other failure
  modes; the order of the steps is the same.
- **Web page** (`web.rs`): a constant string.
- **Which of several TUN readers gets a packet**: the kernel's choice, and the
  code promises nothing. `WsTunnel` and `HttpStore` let a reader get or miss any
  packet at any time. That a packet may go to the wrong client when several are
  connected is a limit of the design, not of a step.
- **A TUN write that blocks** while `send_handler` holds the store's mutex
  (`http_server.rs:196`): the device is taken to be writable.
- **A response that ends inside its headers** (`http_fallback.rs:178`) is a state
  of both models, but no text of the repository promises that the task recovers
  and it does not, so no property is stated of it.
- **Power loss** between a write and the disk (the code does not `fsync`): the
  file system of `SecretStore` keeps what was written when a process dies.
- **Cryptographic strength**: sealing is symbolic; equal keys come from equal
  pairs of ephemeral keys only.

## 7. What could come next

The corrected downlink: a body without chunks, or a client that takes them
apart, and an `open_stream` that keeps the right half. Then the second and later
frames of a stream and the counters of a reopened one become reachable, and an
order on the whole downlink could be stated, for a session with one stream and,
as a violation, for one whose stream is opened again.
