----------------------------- MODULE FrameCodec -----------------------------
(***************************************************************************)
(* The frame format of src/src/tunnel/mod.rs: two bytes of length, most    *)
(* significant first, one byte of type, and the payload.  A byte is a      *)
(* digit of base Base, which is 256 in the program.                        *)
(***************************************************************************)
EXTENDS Naturals, Sequences

CONSTANT Base

ASSUME BaseAssumption == Base \in Nat /\ Base >= 5

Byte == 0..(Base - 1)

FRAME_DATA == 1
FRAME_KEEPALIVE == 2
FRAME_AUTH == 3
FRAME_KEY_EXCHANGE == 4

\* The payloads encode accepts: those whose length two bytes can hold.
Fits(payload) == Len(payload) < Base * Base

\* encode.  (Mutant: the length in one byte.)
EncodeOneByteLength(type, payload) == <<0, Len(payload), type>> \o payload
Encode(type, payload) ==
    <<Len(payload) \div Base, Len(payload) % Base, type>> \o payload

\* What the two length bytes say.
FrameLength(buf) == buf[1] * Base + buf[2]

\* decode: nothing yet, an error, or a frame and what follows it.
Nothing == [result |-> "none"]
Incomplete == [result |-> "error"]
Decoded(type, payload, rest) ==
    [result |-> "frame", type |-> type, payload |-> payload, rest |-> rest]

SplitAfter(buf, n) == Decoded(buf[3], SubSeq(buf, 4, 3 + n), SubSeq(buf, 4 + n, Len(buf)))

Decode(buf) ==
    CASE Len(buf) < 3 -> Nothing
      [] Len(buf) >= 3 /\ Len(buf) < 3 + FrameLength(buf) -> Incomplete
      [] OTHER -> SplitAfter(buf, FrameLength(buf))

-----------------------------------------------------------------------------
(* Properties of the format, of any payload and any bytes after the frame. *)

\* decode gives back what encode was given and leaves what follows: frames
\* written one after the other can be told apart again.
RoundTripOf(payload, rest) ==
    Fits(payload) => \A type \in Byte :
        Decode(Encode(type, payload) \o rest) = Decoded(type, payload, rest)

\* A frame cut short anywhere is never taken for a frame.
CutRefusedOf(payload) ==
    Fits(payload) => \A type \in Byte, n \in 0..(Len(payload) + 2) :
        Decode(SubSeq(Encode(type, payload), 1, n)).result # "frame"
=============================================================================
