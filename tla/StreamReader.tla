---------------------------- MODULE StreamReader ----------------------------
(***************************************************************************)
(* How an HTTP fallback client reads its downlink: stream_task and the     *)
(* main loop of run_tunnel, and open_stream, which stream_task calls again *)
(* until it returns without an error (src/src/tunnel/http_fallback.rs).    *)
(*                                                                         *)
(* The server's side of the session is the environment: it answers a       *)
(* stream request, writes frames into the response body for as long as it  *)
(* likes, and may close or lose the connection.  It answers an HTTP/1.1    *)
(* request with a body of unknown length, which hyper sends in chunks, and *)
(* open_stream reads the chunks as they come: what it takes for the head   *)
(* of a frame is a chunk's size.  A size in ASCII makes a length of more   *)
(* than 12,000 bytes; here that of its line is a constant, and small.      *)
(***************************************************************************)
EXTENDS FrameCodec

CONSTANTS
    SealedLength, \* bytes of a sealed packet
    SizeLine,     \* SizeLine[n]: the line that gives a chunk's size as n bytes
    CRLF,         \* what follows a chunk
    MaxFrames,    \* bound: frames the server writes into one stream
    MaxStreams,   \* bound: streams the client opens
    MaxForwarded  \* bound: frames open_stream forwards per stream

ASSUME LengthAssumption == SealedLength \in 1..(Base * Base - 1)
ASSUME BoundAssumption == /\ {MaxFrames, MaxStreams, MaxForwarded} \subseteq Nat
                          /\ MaxFrames * MaxStreams < Base

FrameType == {FRAME_DATA, FRAME_KEEPALIVE, FRAME_AUTH, FRAME_KEY_EXCHANGE}

\* A size line is one hexadecimal digit at least and a line end, none of whose
\* characters is the number of a frame type.
ASSUME LineAssumption ==
    /\ CRLF \in Seq(Byte)
    /\ \A n \in {3, 3 + SealedLength} :
          /\ SizeLine[n] \in Seq(Byte)
          /\ Len(SizeLine[n]) >= 3
          /\ SizeLine[n][3] \notin FrameType

VARIABLES
    task,        \* stream_task: "connect", "head", "body", "sleep", "ended";
                 \* "stuck" in a response head that ended too early
    server,      \* the connection: "up", "eof" or "reset"
    net,         \* bytes of the response body that have not been read
    buf,         \* the buffer of open_stream
    frameRx,     \* the channel to the main loop
    readCounter, \* read_counter of the main loop
    main,        \* the main loop: "running" or "done"
    streams,     \* history: streams opened
    written,     \* history: frames the server wrote into the current stream
    forwarded,   \* history: frames open_stream made of it
    sealedUp,    \* the write_counter of the server's session
    toTun        \* history: packets the client handed to its TUN device

conn == <<server, net, streams, written, sealedUp>>
loop == <<frameRx, readCounter, main, toTun>>
vars == <<task, buf, forwarded, conn, loop>>

\* A packet is named by the counter it was sealed under, a byte, and so are its
\* bytes.
Sealed(n) == [i \in 1..SealedLength |-> n]
KeepaliveFrame == [type |-> FRAME_KEEPALIVE, payload |-> <<>>]
DataFrame(n) == [type |-> FRAME_DATA, payload |-> Sealed(n)]

Init ==
    /\ task = "connect"
    /\ server = "reset"
    /\ net = <<>>
    /\ buf = <<>>
    /\ frameRx = <<>>
    /\ readCounter = 0
    /\ main = "running"
    /\ streams = 0
    /\ written = <<>>
    /\ forwarded = <<>>
    /\ sealedUp = 0
    /\ toTun = <<>>

-----------------------------------------------------------------------------
(* The server's side.                                                      *)

\* hyper makes each frame of the body a chunk.  (Mutant: it goes out as it is.)
ChunkRaw(bytes) == bytes
Chunk(bytes) == SizeLine[Len(bytes)] \o bytes \o CRLF

WriteFrame(f) ==
    /\ task \in {"head", "body", "stuck"}
    /\ server = "up"
    /\ Len(written) < MaxFrames
    /\ sealedUp < MaxFrames * MaxStreams
    /\ written' = Append(written, f)
    /\ net' = net \o Chunk(Encode(f.type, f.payload))
    /\ UNCHANGED <<task, buf, forwarded, server, streams, loop>>

ServerWrites ==
    \/ WriteFrame(KeepaliveFrame) /\ UNCHANGED sealedUp
    \/ WriteFrame(DataFrame(sealedUp)) /\ sealedUp' = sealedUp + 1

\* Between two streams the session seals packets for the one that is gone.
ServerSealsInVain ==
    /\ task \in {"sleep", "connect"}
    /\ streams > 0
    /\ sealedUp < MaxFrames * MaxStreams
    /\ sealedUp' = sealedUp + 1
    /\ UNCHANGED <<task, buf, forwarded, server, net, streams, written, loop>>

\* The response ends, or the connection is lost and perhaps bytes with it.
ServerEnds(how) ==
    /\ task \in {"head", "body", "stuck"}
    /\ server = "up"
    /\ server' = how
    /\ IF how = "eof" THEN UNCHANGED net
                      ELSE \E n \in 0..Len(net) : net' = SubSeq(net, 1, n)
    /\ UNCHANGED <<task, buf, forwarded, streams, written, sealedUp, loop>>

-----------------------------------------------------------------------------
(* open_stream, up to its first read of the body.                          *)

\* The connection is made and the request written, or that fails.
Connect ==
    /\ task = "connect"
    /\ streams < MaxStreams
    /\ streams' = streams + 1
    /\ \/ task' = "head" /\ server' = "up"
       \/ task' = "sleep" /\ server' = "reset"
    /\ net' = <<>>
    /\ written' = <<>>
    /\ forwarded' = <<>>
    /\ buf' = <<>>
    /\ UNCHANGED <<sealedUp, loop>>

\* The head of the response.  Another status than 200, or a connection lost or
\* ended before the status line, is an error.  One that ends in the headers is
\* not: read_line then returns empty lines, none of which ends the headers.
ReadHead ==
    /\ task = "head"
    /\ \/ task' = "body"
       \/ task' = "sleep"
       \/ server = "eof" /\ task' = "stuck"
    /\ UNCHANGED <<buf, forwarded, conn, loop>>

-----------------------------------------------------------------------------
(* The frame loop of open_stream.                                          *)

\* The length open_stream reads from two bytes.  (Mutant: least significant first.)
BodyLengthLittleEndian(b) == b[2] * Base + b[1]
BodyLength(b) == b[1] * Base + b[2]

\* Bytes the loop needs before it takes a frame.
TotalNeeded(b) == IF Len(b) < 2 THEN 2 ELSE 3 + BodyLength(b)

\* (Mutant: it waits for a byte more.)
FrameReadyLate == Len(buf) >= 2 /\ Len(buf) > TotalNeeded(buf)
FrameReady == Len(buf) >= 2 /\ Len(buf) >= TotalNeeded(buf)

\* One read, of at least a byte.
ReadBytes ==
    /\ task = "body"
    /\ ~FrameReady
    /\ \E n \in 1..Len(net) : /\ buf' = buf \o SubSeq(net, 1, n)
                              /\ net' = SubSeq(net, n + 1, Len(net))
    /\ UNCHANGED <<task, forwarded, server, streams, written, sealedUp, loop>>

\* A read that finds the end of the body ends the task; an error has it retry.
ReadEnds ==
    /\ task = "body"
    /\ ~FrameReady
    /\ net = <<>>
    /\ \/ server = "eof" /\ task' = "ended"
       \/ server = "reset" /\ task' = "sleep"
    /\ UNCHANGED <<buf, forwarded, conn, loop>>

\* A frame goes to the main loop, whose end of the channel outlives this task.
\* buf.split_off(n) leaves the first n bytes in buf and returns the others,
\* which are dropped: what stays is the frame just taken.
TakeFrame ==
    LET n == TotalNeeded(buf)
        f == [type |-> buf[3], payload |-> SubSeq(buf, 4, n)]
    IN  /\ task = "body"
        /\ FrameReady
        /\ Len(forwarded) < MaxForwarded
        /\ forwarded' = Append(forwarded, f)
        /\ frameRx' = Append(frameRx, f)
        /\ buf' = SubSeq(buf, 1, n)
        /\ UNCHANGED <<task, conn, readCounter, main, toTun>>

\* stream_task waits a second after an error and opens the stream again.
RetryStream ==
    /\ task = "sleep"
    /\ task' = "connect"
    /\ UNCHANGED <<buf, forwarded, conn, loop>>

-----------------------------------------------------------------------------
(* The main loop.                                                          *)

\* decrypt succeeds on what was sealed under read_counter and on nothing else.
Opens(payload) == payload = Sealed(readCounter)

\* A data frame that opens is written to the TUN device.
Deliver(payload) ==
    /\ toTun' = Append(toTun, payload[1])
    /\ readCounter' = readCounter + 1

MainReceives ==
    /\ frameRx # <<>>
    /\ frameRx' = Tail(frameRx)
    /\ IF Head(frameRx).type = FRAME_DATA /\ Opens(Head(frameRx).payload)
       THEN Deliver(Head(frameRx).payload)
       ELSE UNCHANGED <<readCounter, toTun>>
    /\ UNCHANGED <<task, buf, forwarded, conn, main>>

\* The task that owned the sending end is over and the channel is empty.
MainEnds ==
    /\ main = "running"
    /\ task = "ended"
    /\ frameRx = <<>>
    /\ main' = "done"
    /\ UNCHANGED <<task, buf, forwarded, conn, frameRx, readCounter, toTun>>

Next ==
    \/ ServerWrites
    \/ ServerSealsInVain
    \/ \E how \in {"eof", "reset"} : ServerEnds(how)
    \/ Connect
    \/ ReadHead
    \/ ReadBytes
    \/ ReadEnds
    \/ TakeFrame
    \/ RetryStream
    \/ MainReceives
    \/ MainEnds

Spec == Init /\ [][Next]_vars

\* The runtime polls tasks that are ready and the second of sleep passes.  The
\* server owes the client nothing.
FairSpec ==
    /\ Spec
    /\ WF_vars(ReadBytes)
    /\ WF_vars(ReadEnds)
    /\ WF_vars(TakeFrame)
    /\ WF_vars(MainReceives)
    /\ WF_vars(MainEnds)

-----------------------------------------------------------------------------
(* Properties.                                                             *)

Frame == [type : Byte, payload : Seq(Byte)]

TypeOK ==
    /\ task \in {"connect", "head", "body", "sleep", "ended", "stuck"}
    /\ server \in {"up", "eof", "reset"}
    /\ {net, buf} \subseteq Seq(Byte)
    /\ {frameRx, written, forwarded} \subseteq Seq(Frame)
    /\ {readCounter, sealedUp, streams} \subseteq Nat
    /\ main \in {"running", "done"}
    /\ toTun \in Seq(Nat)

\* open_stream's own parser agrees with tunnel::decode: in every buffer the network
\* can make, it takes a frame when decode would, and the same one.
ParsersAgree ==
    task = "body" =>
        IF FrameReady THEN Decode(buf) = SplitAfter(buf, TotalNeeded(buf) - 3)
                      ELSE Decode(buf).result # "frame"

\* Nothing gets through: however many frames and streams there are and however
\* the network cuts up and loses their bytes, what open_stream forwards is of no
\* type the main loop knows, and no packet reaches the TUN device.
NothingOpens ==
    /\ \A i \in 1..Len(forwarded) : forwarded[i].type \notin FrameType
    /\ toTun = <<>>

\* From the first frame it forwards on, open_stream is caught: it forwards that
\* frame and no other, reads no more and does not return, so no stream is opened
\* again.  HttpTunnel takes this for granted of its stream task.
CaughtForGood ==
    [][forwarded # <<>> =>
           /\ UNCHANGED <<task, buf, streams>>
           /\ forwarded' \in {forwarded, Append(forwarded, forwarded[1])}]_vars

\* "Read raw length-prefixed frames from response body" (http_fallback.rs:184),
\* which holds "raw frames directly (no HTTP chunked encoding)" (http_server.rs:262):
\* once open_stream has something to forward it forwards, in the end, each frame
\* the server wrote, once and in order, unless the connection is lost.
FramesForwarded == forwarded # <<>> ~> forwarded = written \/ server = "reset"
=============================================================================
