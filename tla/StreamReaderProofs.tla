-------------------------- MODULE StreamReaderProofs ------------------------
(* Theorems about the reader of the HTTP downlink, for any base, lengths,  *)
(* size lines, number of frames and streams.                               *)
EXTENDS StreamReader, FrameCodecProofs

-----------------------------------------------------------------------------
(* The bytes the server writes.                                            *)

LEMMA Bounds ==
    /\ Base \in Nat /\ Base >= 5
    /\ SealedLength \in Nat /\ SealedLength >= 1 /\ SealedLength < Base * Base
    /\ MaxFrames * MaxStreams \in Nat /\ MaxFrames * MaxStreams < Base
    /\ Base * Base \in Nat /\ Base * Base > 0
    /\ {FRAME_DATA, FRAME_KEEPALIVE} \subseteq Byte
<1>1. Base \in Nat /\ Base >= 5
    BY BaseAssumption
<1>2. Base * Base \in Nat /\ Base * Base > 0
    BY <1>1
<1> QED
    BY <1>1, <1>2, LengthAssumption, BoundAssumption DEF Byte, FRAME_DATA, FRAME_KEEPALIVE

\* The frames of a body: a keepalive or a packet.
LEMMA WrittenFacts ==
    ASSUME NEW f, f = KeepaliveFrame \/ \E n \in Byte : f = DataFrame(n)
    PROVE  /\ f \in Frame
           /\ Fits(f.payload)
           /\ Len(f.payload) \in {0, SealedLength}
<1>1. CASE f = KeepaliveFrame
    BY <1>1, Bounds DEF KeepaliveFrame, Frame, Fits
<1>2. ASSUME NEW n \in Byte, f = DataFrame(n)
      PROVE  f \in Frame /\ Fits(f.payload) /\ Len(f.payload) = SealedLength
  <2>1. Sealed(n) \in Seq(Byte) /\ Len(Sealed(n)) = SealedLength
      BY Bounds DEF Sealed
  <2> QED
      BY <1>2, <2>1, Bounds DEF DataFrame, Frame, Fits
<1> QED
    BY <1>1, <1>2

\* The third byte of s, if there is one, is no frame type.
Unknown(s) == Len(s) >= 3 => s[3] \notin FrameType

\* A chunk begins with its size line.
LEMMA ChunkFacts ==
    ASSUME NEW f \in Frame, Fits(f.payload), Len(f.payload) \in {0, SealedLength}
    PROVE  LET c == Chunk(Encode(f.type, f.payload))
           IN  c \in Seq(Byte) /\ Len(c) >= 3 /\ Unknown(c)
<1> DEFINE e == Encode(f.type, f.payload)
           l == SizeLine[Len(e)]
<1>1. f.type \in Byte /\ f.payload \in Seq(Byte)
    BY DEF Frame
<1>2. e \in Seq(Byte) /\ Len(e) = 3 + Len(f.payload)
    BY <1>1, EncodedFacts
<1>3. Len(e) \in {3, 3 + SealedLength}
    BY <1>2, Bounds
<1>4. CRLF \in Seq(Byte) /\ l \in Seq(Byte) /\ Len(l) >= 3 /\ l[3] \notin FrameType
    BY <1>3, LineAssumption
<1> HIDE DEF e, l
<1>5. /\ l \o e \in Seq(Byte)
      /\ Len(l \o e) = Len(l) + Len(e)
      /\ (l \o e)[3] = l[3]
  <2>1. 3 \in 1..Len(l)
      BY <1>4
  <2> QED
      BY <1>2, <1>4, <2>1, Appended
<1>6. /\ (l \o e) \o CRLF \in Seq(Byte)
      /\ Len((l \o e) \o CRLF) = Len(l \o e) + Len(CRLF)
      /\ ((l \o e) \o CRLF)[3] = (l \o e)[3]
  <2>1. 3 \in 1..Len(l \o e)
      BY <1>2, <1>4, <1>5
  <2> QED
      BY <1>4, <1>5, <2>1, Appended
<1>7. Chunk(e) = (l \o e) \o CRLF
    BY DEF Chunk, l
<1> QED
    BY <1>2, <1>4, <1>5, <1>6, <1>7 DEF e, Unknown

\* Bytes that move from the network to the buffer, or are cut off.
LEMMA Parted ==
    ASSUME NEW b \in Seq(Byte), NEW t \in Seq(Byte), NEW n \in 0..Len(t)
    PROVE  LET h == SubSeq(t, 1, n)
               r == SubSeq(t, n + 1, Len(t))
           IN  /\ h \in Seq(Byte) /\ r \in Seq(Byte) /\ b \o h \in Seq(Byte)
               /\ Len(h) + Len(r) = Len(t)
               /\ Len(b \o h) = Len(b) + Len(h)
               /\ (b \o h) \o r = b \o t
<1> DEFINE h == SubSeq(t, 1, n)
           r == SubSeq(t, n + 1, Len(t))
<1>1. h \in Seq(Byte) /\ r \in Seq(Byte) /\ Len(h) = n /\ Len(r) = Len(t) - n
    OBVIOUS
<1>2. h \o r = t
  <2>1. 1 \in 1..(Len(t) + 1) /\ n \in (1 - 1)..Len(t) /\ Len(t) \in n..Len(t)
      OBVIOUS
  <2>2. SubSeq(t, 1, n) \o SubSeq(t, n + 1, Len(t)) = SubSeq(t, 1, Len(t))
      BY <2>1, ConcatAdjacentSubSeq
  <2> QED
      BY <2>2, SubSeqFull
<1> HIDE DEF h, r
<1>3. (b \o h) \o r = b \o t
  <2>1. h \in Seq(Byte) /\ r \in Seq(Byte)
      BY <1>1
  <2>2. (b \o h) \o r = b \o (h \o r)
      BY <2>1
  <2> QED
      BY <1>2, <2>2
<1>4. b \o h \in Seq(Byte) /\ Len(b \o h) = Len(b) + Len(h)
    BY <1>1, ConcatProperties
<1>5. Len(h) + Len(r) = Len(t)
    BY <1>1
<1> QED
    BY <1>1, <1>2, <1>3, <1>4, <1>5 DEF h, r

\* What is unknown stays so in a beginning of it, and when something follows
\* three bytes at least of it.
LEMMA UnknownLess ==
    ASSUME NEW s \in Seq(Byte), NEW t \in Seq(Byte), Unknown(s \o t)
    PROVE  Unknown(s)
<1>1. Len(s \o t) = Len(s) + Len(t) /\ \A i \in 1..Len(s) : (s \o t)[i] = s[i]
    BY Appended
<1> QED
    BY <1>1 DEF Unknown

LEMMA UnknownMore ==
    ASSUME NEW s \in Seq(Byte), NEW t \in Seq(Byte), Unknown(s), Len(s) >= 3
    PROVE  Unknown(s \o t)
<1>1. Len(s \o t) = Len(s) + Len(t) /\ \A i \in 1..Len(s) : (s \o t)[i] = s[i]
    BY Appended
<1> QED
    BY <1>1 DEF Unknown

-----------------------------------------------------------------------------
(* The invariant.                                                          *)

\* What open_stream makes of buffer b, and what the main loop does nothing with.
Taken(b) == [type |-> b[3], payload |-> SubSeq(b, 4, TotalNeeded(b))]
UnknownFrame == {f \in Frame : f.type \notin FrameType}

\* Until a frame has been taken the bytes read and those to be read begin with a
\* size line, the third byte of which is there unless the connection is lost; from
\* then on the buffer holds the frame taken and no more.
BytesInv ==
    /\ net \in Seq(Byte) /\ buf \in Seq(Byte)
    /\ written = <<>> => buf = <<>> /\ net = <<>> /\ forwarded = <<>>
    /\ forwarded = <<>> =>
           /\ Unknown(buf \o net)
           /\ server = "up" /\ written # <<>> => Len(buf \o net) >= 3
    /\ forwarded # <<>> => FrameReady /\ Len(buf) = TotalNeeded(buf)
    /\ forwarded \in Seq(UnknownFrame)
    /\ \A i \in 1..Len(forwarded) : forwarded[i] = Taken(buf)

\* The main loop gets nothing it can open.
LoopInv ==
    /\ frameRx \in Seq(UnknownFrame)
    /\ readCounter = 0
    /\ toTun = <<>>

ServerInv ==
    /\ sealedUp \in 0..(MaxFrames * MaxStreams)
    /\ written \in Seq(Frame)

ReaderInv == BytesInv /\ LoopInv /\ ServerInv

LEMMA ReaderInit == ASSUME Init PROVE ReaderInv
<1>1. 0 \in 0..(MaxFrames * MaxStreams)
    BY Bounds
<1>2. <<>> \o <<>> = <<>> /\ Unknown(<<>>)
    BY DEF Unknown
<1>3. BytesInv
    BY <1>2 DEF Init, BytesInv
<1>4. LoopInv /\ ServerInv
    BY <1>1 DEF Init, LoopInv, ServerInv
<1> QED
    BY <1>3, <1>4 DEF ReaderInv

\* The frame the server has written goes on the network, in a chunk.
LEMMA BytesWritten ==
    ASSUME BytesInv, ServerInv, NEW f \in Frame, Fits(f.payload),
           Len(f.payload) \in {0, SealedLength}, WriteFrame(f)
    PROVE  BytesInv'
<1> DEFINE c == Chunk(Encode(f.type, f.payload))
<1>1. /\ server = "up" /\ UNCHANGED <<buf, forwarded, server>>
      /\ written' = Append(written, f)
      /\ net' = net \o c
    BY DEF WriteFrame
<1>2. c \in Seq(Byte) /\ Len(c) >= 3 /\ Unknown(c)
    BY ChunkFacts
<1> HIDE DEF c
<1>3. buf \in Seq(Byte) /\ net \in Seq(Byte) /\ buf \o net \in Seq(Byte)
    BY Appended DEF BytesInv
<1>4. /\ net' \in Seq(Byte)
      /\ buf \o net' = (buf \o net) \o c
      /\ Len(buf \o net') = Len(buf \o net) + Len(c)
  <2>1. net' \in Seq(Byte)
      BY <1>1, <1>2, <1>3, Appended
  <2>2. (buf \o net) \o c = buf \o (net \o c)
    <3>1. buf \in Seq(Byte) /\ net \in Seq(Byte) /\ c \in Seq(Byte)
        BY <1>2, <1>3
    <3> QED
        BY <3>1, ConcatAssociative
  <2>3. Len((buf \o net) \o c) = Len(buf \o net) + Len(c)
      BY <1>2, <1>3, Appended
  <2> QED
      BY <1>1, <2>1, <2>2, <2>3
<1>5. written' # <<>>
    BY <1>1 DEF ServerInv
<1>6. Len(buf \o net') >= 3
    BY <1>2, <1>3, <1>4
<1>7. ASSUME forwarded = <<>> PROVE Unknown(buf \o net')
  <2>1. CASE written = <<>>
    <3>1. buf = <<>> /\ net = <<>>
        BY <2>1 DEF BytesInv
    <3>2. buf \o net' = c
        BY <1>2, <1>4, <3>1, ConcatEmptySeq
    <3> QED
        BY <1>2, <3>2
  <2>2. CASE written # <<>>
    <3>1. Unknown(buf \o net) /\ Len(buf \o net) >= 3
        BY <1>1, <1>7, <2>2 DEF BytesInv
    <3> QED
        BY <1>2, <1>3, <1>4, <3>1, UnknownMore
  <2> QED
      BY <2>1, <2>2
<1> QED
    BY <1>1, <1>4, <1>5, <1>6, <1>7 DEF BytesInv, FrameReady

\* Bytes the connection takes along with it.
LEMMA BytesLost ==
    ASSUME BytesInv, NEW n \in 0..Len(net), net' = SubSeq(net, 1, n),
           UNCHANGED <<buf, written, forwarded>>, server' # "up"
    PROVE  BytesInv'
<1> DEFINE r == SubSeq(net, n + 1, Len(net))
<1>1. /\ net' \in Seq(Byte) /\ r \in Seq(Byte) /\ buf \o net' \in Seq(Byte)
      /\ (buf \o net') \o r = buf \o net
    BY Parted DEF BytesInv
<1>2. net = <<>> => net' = <<>>
    OBVIOUS
<1> HIDE DEF r
<1>3. Unknown(buf \o net) => Unknown(buf \o net')
    BY <1>1, UnknownLess
<1> QED
    BY <1>1, <1>2, <1>3 DEF BytesInv, FrameReady

LEMMA BytesRead ==
    ASSUME BytesInv, ReadBytes
    PROVE  BytesInv'
<1>1. PICK n \in 1..Len(net) : /\ buf' = buf \o SubSeq(net, 1, n)
                               /\ net' = SubSeq(net, n + 1, Len(net))
    BY DEF ReadBytes
<1>2. UNCHANGED <<written, forwarded, server>> /\ ~FrameReady
    BY DEF ReadBytes
<1>3. net # <<>> /\ written # <<>> /\ forwarded = <<>>
    BY <1>1, <1>2 DEF BytesInv
<1>4. buf' \in Seq(Byte) /\ net' \in Seq(Byte) /\ buf' \o net' = buf \o net
  <2>1. n \in 0..Len(net) /\ buf \in Seq(Byte) /\ net \in Seq(Byte)
      BY DEF BytesInv
  <2> QED
      BY <1>1, <2>1, Parted
<1> QED
    BY <1>2, <1>3, <1>4 DEF BytesInv

\* A buffer that a frame can be taken from, and what is left of it.
LEMMA Left ==
    ASSUME NEW b \in Seq(Byte), Len(b) >= 2, Len(b) >= TotalNeeded(b)
    PROVE  LET n == TotalNeeded(b)
               l == SubSeq(b, 1, n)
           IN  /\ n \in Nat /\ n >= 3
               /\ l \in Seq(Byte) /\ Len(l) = n
               /\ TotalNeeded(l) = n
               /\ Taken(l) = Taken(b)
               /\ Taken(b) \in Frame
               /\ n = Len(b) => l = b
<1> DEFINE n == TotalNeeded(b)
           l == SubSeq(b, 1, n)
<1>1. n = 3 + BodyLength(b)
    BY DEF TotalNeeded
<1>2. BodyLength(b) \in Nat
  <2>1. b[1] \in Nat /\ b[2] \in Nat
      BY Bounds DEF Byte
  <2>2. b[1] * Base \in Nat
      BY <2>1, Bounds
  <2> QED
      BY <2>1, <2>2 DEF BodyLength
<1>3. n \in Nat /\ n >= 3
    BY <1>1, <1>2
<1>4. n \in 0..Len(b)
    BY <1>3
<1> HIDE DEF n
<1>5. l \in Seq(Byte) /\ Len(l) = n /\ \A i \in 1..n : l[i] = b[i]
    BY <1>3, <1>4, SubSeqProperties
<1>6. TotalNeeded(l) = n
    BY <1>1, <1>3, <1>5 DEF TotalNeeded, BodyLength
<1>7. SubSeq(l, 4, n) = SubSeq(b, 4, n) /\ SubSeq(b, 4, n) \in Seq(Byte)
  <2> DEFINE u == SubSeq(l, 4, n)
             v == SubSeq(b, 4, n)
  <2>1. /\ u \in Seq(Byte) /\ Len(u) = n - 3
        /\ \A i \in 1..(n - 3) : u[i] = l[3 + i]
      BY <1>3, <1>4, <1>5
  <2>2. /\ v \in Seq(Byte) /\ Len(v) = n - 3
        /\ \A i \in 1..(n - 3) : v[i] = b[3 + i]
      BY <1>3, <1>4
  <2>3. \A i \in 1..(n - 3) : u[i] = v[i]
      BY <1>3, <1>5, <2>1, <2>2
  <2> HIDE DEF u, v
  <2>4. u = v
      BY <2>1, <2>2, <2>3, SeqEqual
  <2> QED
      BY <2>2, <2>4 DEF u, v
<1>8. l[3] = b[3] /\ b[3] \in Byte
    BY <1>3, <1>4, <1>5
<1>9. Taken(l) = Taken(b) /\ Taken(b) \in Frame
    BY <1>6, <1>7, <1>8 DEF Taken, Frame, n
<1>10. n = Len(b) => l = b
    BY SubSeqFull
<1> QED
    BY <1>3, <1>5, <1>6, <1>9, <1>10 DEF n

LEMMA FrameTaken ==
    ASSUME BytesInv, TakeFrame
    PROVE  /\ BytesInv'
           /\ Taken(buf) \in UnknownFrame
           /\ forwarded # <<>> => buf' = buf /\ forwarded[1] = Taken(buf)
           /\ forwarded' = Append(forwarded, Taken(buf))
           /\ frameRx' = Append(frameRx, Taken(buf))
<1> DEFINE n == TotalNeeded(buf)
<1>1. /\ FrameReady
      /\ forwarded' = Append(forwarded, Taken(buf))
      /\ frameRx' = Append(frameRx, Taken(buf))
      /\ buf' = SubSeq(buf, 1, n)
      /\ UNCHANGED <<server, net, written>>
    BY DEF TakeFrame, conn, Taken
<1>2. buf \in Seq(Byte) /\ net \in Seq(Byte) /\ Len(buf) >= 2 /\ Len(buf) >= n
    BY <1>1 DEF FrameReady, BytesInv
<1>3. /\ n \in Nat /\ n >= 3
      /\ buf' \in Seq(Byte) /\ Len(buf') = n
      /\ TotalNeeded(buf') = n
      /\ Taken(buf') = Taken(buf)
      /\ Taken(buf) \in Frame
      /\ n = Len(buf) => buf' = buf
    BY <1>1, <1>2, Left
<1>4. FrameReady' /\ Len(buf') = TotalNeeded(buf')
    BY <1>3 DEF FrameReady
<1>5. written # <<>>
    BY <1>2 DEF BytesInv
<1>6. Taken(buf) \in UnknownFrame
  <2>1. CASE forwarded = <<>>
    <3>1. Unknown(buf)
        BY <1>2, <2>1, UnknownLess DEF BytesInv
    <3>2. buf[3] \notin FrameType
        BY <1>2, <1>3, <3>1 DEF Unknown
    <3> QED
        BY <1>3, <3>2 DEF UnknownFrame, Taken
  <2>2. CASE forwarded # <<>>
      BY <2>2 DEF BytesInv
  <2> QED
      BY <2>1, <2>2
<1>7. forwarded # <<>> => buf' = buf /\ forwarded[1] = Taken(buf)
    BY <1>3 DEF BytesInv
<1>8. /\ forwarded' \in Seq(UnknownFrame) /\ forwarded' # <<>>
      /\ \A i \in 1..Len(forwarded') : forwarded'[i] = Taken(buf')
  <2> DEFINE t == Taken(buf)
  <2>1. forwarded \in Seq(UnknownFrame) /\ \A i \in 1..Len(forwarded) : forwarded[i] = t
      BY DEF BytesInv
  <2>2. t \in UnknownFrame /\ forwarded' = Append(forwarded, t) /\ Taken(buf') = t
      BY <1>1, <1>3, <1>6
  <2> HIDE DEF t
  <2> QED
      BY <2>1, <2>2
<1>9. BytesInv'
    BY <1>1, <1>2, <1>3, <1>4, <1>5, <1>8 DEF BytesInv
<1> QED
    BY <1>1, <1>6, <1>7, <1>9

LEMMA ReaderNext == ASSUME ReaderInv, [Next]_vars PROVE ReaderInv'
<1> USE DEF ReaderInv
<1>0. sealedUp \in Nat /\ sealedUp <= MaxFrames * MaxStreams
    BY Bounds DEF ServerInv
<1>1. CASE ServerWrites
  <2>1. PICK f \in {KeepaliveFrame, DataFrame(sealedUp)} :
            /\ WriteFrame(f)
            /\ sealedUp' \in {sealedUp, sealedUp + 1}
      BY <1>1 DEF ServerWrites
  <2>2. /\ written' = Append(written, f) /\ UNCHANGED loop
        /\ sealedUp < MaxFrames * MaxStreams
      BY <2>1 DEF WriteFrame
  <2>3. sealedUp \in Byte
      BY <1>0, Bounds DEF Byte
  <2>4. f \in Frame /\ Fits(f.payload) /\ Len(f.payload) \in {0, SealedLength}
      BY <2>3, WrittenFacts
  <2>5. BytesInv'
      BY <2>1, <2>4, BytesWritten
  <2>6. ServerInv'
    <3>1. sealedUp' \in 0..(MaxFrames * MaxStreams)
        BY <1>0, <2>1, <2>2, Bounds
    <3> QED
        BY <2>2, <2>4, <3>1, AppendProperties DEF ServerInv
  <2> QED
      BY <2>2, <2>5, <2>6 DEF LoopInv, loop
<1>2. CASE ServerSealsInVain
  <2>1. /\ sealedUp' = sealedUp + 1 /\ sealedUp < MaxFrames * MaxStreams
        /\ UNCHANGED <<buf, forwarded, server, net, written, loop>>
      BY <1>2 DEF ServerSealsInVain
  <2>2. sealedUp' \in 0..(MaxFrames * MaxStreams)
      BY <1>0, <2>1, Bounds
  <2> QED
      BY <2>1, <2>2 DEF BytesInv, FrameReady, ServerInv, LoopInv, loop
<1>3. ASSUME NEW how \in {"eof", "reset"}, ServerEnds(how) PROVE ReaderInv'
  <2>1. /\ UNCHANGED <<buf, forwarded, written, sealedUp, loop>>
        /\ server' # "up"
        /\ net' = net \/ \E n \in 0..Len(net) : net' = SubSeq(net, 1, n)
      BY <1>3 DEF ServerEnds
  <2>2. BytesInv'
    <3>1. CASE net' = net
        BY <2>1, <3>1 DEF BytesInv, FrameReady
    <3>2. ASSUME NEW n \in 0..Len(net), net' = SubSeq(net, 1, n) PROVE BytesInv'
        BY <2>1, <3>2, BytesLost
    <3> QED
        BY <2>1, <3>1, <3>2
  <2> QED
      BY <2>1, <2>2 DEF ServerInv, LoopInv, loop
<1>4. CASE Connect
  <2>1. /\ net' = <<>> /\ written' = <<>> /\ forwarded' = <<>> /\ buf' = <<>>
        /\ UNCHANGED <<sealedUp, loop>>
      BY <1>4 DEF Connect
  <2>2. <<>> \o <<>> = <<>> /\ Unknown(<<>>)
      BY DEF Unknown
  <2>3. BytesInv'
      BY <2>1, <2>2 DEF BytesInv
  <2> QED
      BY <2>1, <2>3 DEF ServerInv, LoopInv, loop
<1>5. CASE ReadBytes
  <2>1. UNCHANGED <<written, sealedUp, loop>>
      BY <1>5 DEF ReadBytes
  <2> QED
      BY <1>5, <2>1, BytesRead DEF ServerInv, LoopInv, loop
<1>6. CASE TakeFrame
  <2>1. BytesInv' /\ Taken(buf) \in UnknownFrame /\ frameRx' = Append(frameRx, Taken(buf))
      BY <1>6, FrameTaken
  <2>2. UNCHANGED <<written, sealedUp, readCounter, toTun>>
      BY <1>6 DEF TakeFrame, conn
  <2>3. frameRx' \in Seq(UnknownFrame)
      BY <2>1, AppendProperties DEF LoopInv
  <2> QED
      BY <2>1, <2>2, <2>3 DEF ServerInv, LoopInv
<1>7. CASE MainReceives
  <2>1. /\ UNCHANGED <<buf, forwarded, net, written, server, sealedUp>>
        /\ frameRx # <<>> /\ frameRx' = Tail(frameRx)
      BY <1>7 DEF MainReceives, conn
  <2>2. Head(frameRx) \in UnknownFrame /\ frameRx' \in Seq(UnknownFrame)
      BY <2>1, HeadTailProperties DEF LoopInv
  <2>3. Head(frameRx).type # FRAME_DATA
      BY <2>2 DEF UnknownFrame, FrameType
  <2>4. UNCHANGED <<readCounter, toTun>>
      BY <1>7, <2>3 DEF MainReceives
  <2> QED
      BY <2>1, <2>2, <2>4 DEF BytesInv, FrameReady, ServerInv, LoopInv
<1>8. CASE ReadHead \/ ReadEnds \/ RetryStream \/ MainEnds \/ UNCHANGED vars
  <2>1. UNCHANGED <<buf, forwarded, net, written, server, sealedUp, frameRx, readCounter, toTun>>
      BY <1>8 DEF ReadHead, ReadEnds, RetryStream, MainEnds, vars, conn, loop
  <2> QED
      BY <2>1 DEF BytesInv, FrameReady, ServerInv, LoopInv
<1> QED
    BY <1>1, <1>2, <1>3, <1>4, <1>5, <1>6, <1>7, <1>8 DEF Next

LEMMA ReaderInvariance == Spec => []ReaderInv
    BY ReaderInit, ReaderNext, PTL DEF Spec

-----------------------------------------------------------------------------
(* The theorems.                                                           *)

\* The HTTP downlink delivers nothing: of whatever the server writes open_stream
\* forwards only frames of a type the main loop drops.
THEOREM NothingOpensCorrect == Spec => []NothingOpens
<1>1. ASSUME ReaderInv PROVE NothingOpens
  <2>1. forwarded \in Seq(UnknownFrame) /\ toTun = <<>>
      BY <1>1 DEF ReaderInv, BytesInv, LoopInv
  <2> QED
      BY <2>1 DEF NothingOpens, UnknownFrame
<1> QED
    BY <1>1, ReaderInvariance, PTL

\* The two parsers of the frame format agree, whatever is in the buffer.
THEOREM ParsersAgreeCorrect == Spec => []ParsersAgree
<1>1. ASSUME ReaderInv PROVE ParsersAgree
  <2>1. buf \in Seq(Byte) /\ Len(buf) \in Nat
      BY <1>1 DEF ReaderInv, BytesInv
  <2>2. CASE Len(buf) < 2
      BY <2>1, <2>2 DEF ParsersAgree, FrameReady, Decode, Nothing
  <2>3. CASE Len(buf) >= 2
    <3>1. FrameLength(buf) \in Nat
      <4>1. buf[1] \in Nat /\ buf[2] \in Nat
          BY <2>1, <2>3, Bounds DEF Byte
      <4>2. buf[1] * Base \in Nat
          BY <4>1, Bounds
      <4> QED
          BY <4>1, <4>2 DEF FrameLength
    <3>2. TotalNeeded(buf) = 3 + FrameLength(buf)
        BY <2>1, <2>3 DEF TotalNeeded, BodyLength, FrameLength
    <3>3. CASE Len(buf) >= 3 + FrameLength(buf)
      <4>1. FrameReady /\ Decode(buf) = SplitAfter(buf, FrameLength(buf))
          BY <2>1, <2>3, <3>1, <3>2, <3>3 DEF FrameReady, Decode
      <4>2. TotalNeeded(buf) - 3 = FrameLength(buf)
          BY <3>1, <3>2
      <4> QED
          BY <4>1, <4>2 DEF ParsersAgree
    <3>4. CASE Len(buf) < 3 + FrameLength(buf)
      <4>1. ~FrameReady
          BY <2>1, <3>1, <3>2, <3>4 DEF FrameReady
      <4>2. Decode(buf).result # "frame"
          BY <2>1, <3>1, <3>4 DEF Decode, Nothing, Incomplete
      <4> QED
          BY <4>1, <4>2 DEF ParsersAgree
    <3> QED
        BY <2>1, <3>1, <3>3, <3>4
  <2> QED
      BY <2>1, <2>2, <2>3
<1> QED
    BY <1>1, ReaderInvariance, PTL

\* A stream task that has forwarded a frame is in the loop that takes it again.
Looping == forwarded # <<>> => task = "body"

LEMMA Caught ==
    ASSUME ReaderInv, Looping, [Next]_vars
    PROVE  /\ Looping'
           /\ forwarded # <<>> =>
                  /\ UNCHANGED <<task, buf, streams>>
                  /\ forwarded' \in {forwarded, Append(forwarded, forwarded[1])}
<1>1. CASE TakeFrame
  <2>1. task = "body" /\ UNCHANGED <<task, streams>>
      BY <1>1 DEF TakeFrame, conn
  <2>2. /\ forwarded # <<>> => buf' = buf /\ forwarded[1] = Taken(buf)
        /\ forwarded' = Append(forwarded, Taken(buf))
      BY <1>1, FrameTaken DEF ReaderInv
  <2> QED
      BY <2>1, <2>2 DEF Looping
<1>2. CASE ReadBytes \/ ReadEnds
  <2>1. ~FrameReady
      BY <1>2 DEF ReadBytes, ReadEnds
  <2>2. forwarded = <<>>
      BY <2>1 DEF ReaderInv, BytesInv
  <2> QED
      BY <1>2, <2>2 DEF Looping, ReadBytes, ReadEnds
<1>3. CASE Connect
    BY <1>3 DEF Connect, Looping
<1>4. CASE ReadHead \/ RetryStream
    BY <1>4 DEF ReadHead, RetryStream, Looping
<1>5. CASE ServerWrites \/ ServerSealsInVain \/ MainReceives \/ MainEnds
    BY <1>5 DEF ServerWrites, WriteFrame, ServerSealsInVain, MainReceives, MainEnds,
                conn, Looping
<1>6. ASSUME NEW how \in {"eof", "reset"}, ServerEnds(how)
      PROVE  UNCHANGED <<task, buf, streams, forwarded>>
    BY <1>6 DEF ServerEnds
<1>7. CASE UNCHANGED vars
    BY <1>7 DEF vars, conn, Looping
<1> QED
    BY <1>1, <1>2, <1>3, <1>4, <1>5, <1>6, <1>7 DEF Next, Looping

\* A stream task that has forwarded a frame never does anything else again.
THEOREM CaughtForGoodCorrect == Spec => CaughtForGood
<1>1. Init => Looping
    BY DEF Init, Looping
<1>2. ReaderInv /\ Looping /\ [Next]_vars => Looping'
    BY Caught
<1>3. ReaderInv /\ Looping /\ [Next]_vars =>
          [forwarded # <<>> =>
               /\ UNCHANGED <<task, buf, streams>>
               /\ forwarded' \in {forwarded, Append(forwarded, forwarded[1])}]_vars
    BY Caught
<1> QED
    BY <1>1, <1>2, <1>3, ReaderInvariance, PTL DEF Spec, CaughtForGood

\* The type invariant of the reader.
StateOK ==
    /\ task \in {"connect", "head", "body", "sleep", "ended", "stuck"}
    /\ server \in {"up", "eof", "reset"}
    /\ streams \in Nat
    /\ main \in {"running", "done"}

THEOREM TypeCorrect == Spec => []TypeOK
<1>1. Init => StateOK
    BY DEF Init, StateOK
<1>2. StateOK /\ [Next]_vars => StateOK'
    BY DEF StateOK, Next, vars, conn, loop, ServerWrites, WriteFrame, ServerSealsInVain,
           ServerEnds, Connect, ReadHead, ReadBytes, ReadEnds, TakeFrame, RetryStream,
           MainReceives, MainEnds
<1>3. ASSUME ReaderInv, StateOK PROVE TypeOK
  <2>1. sealedUp \in Nat
      BY <1>3, Bounds DEF ReaderInv, ServerInv
  <2>2. Seq(UnknownFrame) \subseteq Seq(Frame)
      BY SeqMonotonic DEF UnknownFrame
  <2>3. frameRx \in Seq(Frame) /\ forwarded \in Seq(Frame)
      BY <1>3, <2>2 DEF ReaderInv, BytesInv, LoopInv
  <2> QED
      BY <1>3, <2>1, <2>3 DEF ReaderInv, BytesInv, LoopInv, ServerInv, StateOK, TypeOK
<1> QED
    BY <1>1, <1>2, <1>3, ReaderInvariance, PTL DEF Spec
=============================================================================
