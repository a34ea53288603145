-------------------------- MODULE FrameCodecProofs --------------------------
(* The frame format, for every base, payload and continuation.             *)
EXTENDS FrameCodec, SequenceTheorems, TLAPS

\* The two length bytes are bytes, and hold the length of a payload that fits.
LEMMA Digits ==
    ASSUME NEW n \in Nat, n < Base * Base
    PROVE  /\ n \div Base \in Byte
           /\ n % Base \in Byte
           /\ (n \div Base) * Base + (n % Base) = n
<1>1. /\ n \div Base \in Nat
      /\ n % Base \in 0..(Base - 1)
      /\ n = Base * (n \div Base) + (n % Base)
    BY BaseAssumption
<1>2. n \div Base < Base
    BY <1>1, BaseAssumption
<1> QED
    BY <1>1, <1>2, BaseAssumption DEF Byte

\* A part of a sequence is known by its length and its elements.
LEMMA SubSeqIsPart ==
    ASSUME NEW S, NEW s \in Seq(S), NEW t \in Seq(S), NEW k \in Nat,
           k + Len(t) <= Len(s),
           \A i \in 1..Len(t) : s[k + i] = t[i]
    PROVE  SubSeq(s, k + 1, k + Len(t)) = t
<1> DEFINE u == SubSeq(s, k + 1, k + Len(t))
<1>1. /\ u \in Seq(S)
      /\ Len(u) = Len(t)
      /\ \A i \in 1..Len(t) : u[i] = s[k + i]
    BY SubSeqProperties
<1> QED
    BY <1>1, SeqEqual

\* The elements of a concatenation, told from where each part begins.
LEMMA Appended ==
    ASSUME NEW s \in Seq(Byte), NEW t \in Seq(Byte)
    PROVE  /\ s \o t \in Seq(Byte)
           /\ Len(s \o t) = Len(s) + Len(t)
           /\ \A i \in 1..Len(s) : (s \o t)[i] = s[i]
           /\ \A i \in 1..Len(t) : (s \o t)[Len(s) + i] = t[i]
    BY ConcatProperties

\* What an encoded frame is made of.
LEMMA EncodedFacts ==
    ASSUME NEW type \in Byte, NEW payload \in Seq(Byte), Fits(payload)
    PROVE  /\ Encode(type, payload) \in Seq(Byte)
           /\ Len(Encode(type, payload)) = 3 + Len(payload)
           /\ Encode(type, payload)[3] = type
           /\ FrameLength(Encode(type, payload)) = Len(payload)
           /\ \A i \in 1..Len(payload) : Encode(type, payload)[3 + i] = payload[i]
<1> DEFINE n == Len(payload)
           head == <<n \div Base, n % Base, type>>
           frame == head \o payload
<1>1. n \in Nat /\ n < Base * Base
    BY DEF Fits
<1>2. /\ n \div Base \in Byte
      /\ n % Base \in Byte
      /\ (n \div Base) * Base + (n % Base) = n
    BY <1>1, Digits
<1>3. /\ head \in Seq(Byte)
      /\ Len(head) = 3
      /\ head[1] = n \div Base
      /\ head[2] = n % Base
      /\ head[3] = type
    BY <1>2
<1>4. frame = Encode(type, payload)
    BY DEF Encode
<1> HIDE DEF n, head, frame
<1>5. /\ frame \in Seq(Byte)
      /\ Len(frame) = Len(head) + Len(payload)
      /\ \A i \in 1..Len(head) : frame[i] = head[i]
      /\ \A i \in 1..Len(payload) : frame[Len(head) + i] = payload[i]
    BY <1>3, Appended DEF frame
<1>6. /\ Len(frame) = 3 + Len(payload)
      /\ frame[1] = n \div Base
      /\ frame[2] = n % Base
      /\ frame[3] = type
      /\ \A i \in 1..Len(payload) : frame[3 + i] = payload[i]
    BY <1>3, <1>5
<1>7. FrameLength(frame) = Len(payload)
    BY <1>2, <1>6 DEF FrameLength, n
<1> QED
    BY <1>4, <1>5, <1>6, <1>7

\* decode undoes encode, whatever bytes follow the frame.
THEOREM DecodeEncode ==
    ASSUME NEW payload \in Seq(Byte), NEW rest \in Seq(Byte)
    PROVE  RoundTripOf(payload, rest)
<1> SUFFICES ASSUME Fits(payload), NEW type \in Byte
             PROVE  Decode(Encode(type, payload) \o rest)
                        = Decoded(type, payload, rest)
    BY DEF RoundTripOf
<1> DEFINE n == Len(payload)
           frame == Encode(type, payload)
           buf == frame \o rest
<1>0. n \in Nat /\ Len(rest) \in Nat
    OBVIOUS
<1>1. /\ frame \in Seq(Byte)
      /\ Len(frame) = 3 + n
      /\ frame[3] = type
      /\ FrameLength(frame) = n
      /\ \A i \in 1..n : frame[3 + i] = payload[i]
    BY EncodedFacts
<1> HIDE DEF n, frame
<1>2. /\ buf \in Seq(Byte)
      /\ Len(buf) = Len(frame) + Len(rest)
      /\ \A i \in 1..Len(frame) : buf[i] = frame[i]
      /\ \A i \in 1..Len(rest) : buf[Len(frame) + i] = rest[i]
    BY <1>1, Appended
<1> HIDE DEF buf
<1>3. /\ Len(buf) = 3 + n + Len(rest)
      /\ buf[3] = type
      /\ buf[1] = frame[1] /\ buf[2] = frame[2]
      /\ \A i \in 1..n : buf[3 + i] = payload[i]
      /\ \A i \in 1..Len(rest) : buf[(3 + n) + i] = rest[i]
    BY <1>0, <1>1, <1>2
<1>4. FrameLength(buf) = n
    BY <1>1, <1>3 DEF FrameLength
<1>5. SubSeq(buf, 3 + 1, 3 + n) = payload
    BY <1>0, <1>2, <1>3, SubSeqIsPart DEF n
<1>6. SubSeq(buf, (3 + n) + 1, (3 + n) + Len(rest)) = rest
    BY <1>0, <1>2, <1>3, SubSeqIsPart
<1>7. Decode(buf) = SplitAfter(buf, n)
    BY <1>0, <1>3, <1>4 DEF Decode
<1>8. /\ 3 + 1 = 4
      /\ (3 + n) + 1 = 4 + n
      /\ (3 + n) + Len(rest) = Len(buf)
    BY <1>0, <1>3
<1>9. SplitAfter(buf, n) = Decoded(type, payload, rest)
    BY <1>3, <1>5, <1>6, <1>8, Zenon DEF SplitAfter
<1> QED
    BY <1>7, <1>9 DEF buf, frame

\* decode never takes a frame from the first bytes of one.
THEOREM CutFrameRefused ==
    ASSUME NEW payload \in Seq(Byte)
    PROVE  CutRefusedOf(payload)
<1> SUFFICES ASSUME Fits(payload), NEW type \in Byte,
                    NEW n \in 0..(Len(payload) + 2)
             PROVE  Decode(SubSeq(Encode(type, payload), 1, n)).result # "frame"
    BY DEF CutRefusedOf
<1> DEFINE frame == Encode(type, payload)
           buf == SubSeq(frame, 1, n)
<1>1. /\ frame \in Seq(Byte)
      /\ Len(frame) = 3 + Len(payload)
      /\ FrameLength(frame) = Len(payload)
    BY EncodedFacts
<1> HIDE DEF frame
<1>3. /\ Len(buf) = n
      /\ \A i \in 1..n : buf[i] = frame[i]
    BY <1>1, SubSeqProperties
<1> HIDE DEF buf
<1>4. CASE n < 3
    BY <1>3, <1>4 DEF Decode, Nothing, buf, frame
<1>5. CASE n >= 3
  <2>1. FrameLength(buf) = Len(payload)
    BY <1>1, <1>3, <1>5 DEF FrameLength
  <2>2. Decode(buf) = Incomplete
    BY <1>3, <1>5, <2>1 DEF Decode
  <2> QED
    BY <2>2 DEF Incomplete, buf, frame
<1> QED
    BY <1>4, <1>5

\* With bytes, encode accepts every packet that fits the buffer the TUN readers
\* read into (MAX_FRAME_SIZE), sealed: their "encode error" branch is dead.
LEMMA TunPacketFits ==
    ASSUME Base = 256, NEW sealed \in Seq(Byte), Len(sealed) <= 1500 + 16
    PROVE  Fits(sealed)
    BY DEF Fits
=============================================================================
