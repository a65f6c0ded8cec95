-------------------------------- MODULE Frames --------------------------------
(***************************************************************************)
(* The frames of a streaming body (types/frame.rs, types/stream.rs): every *)
(* item goes out behind its length, a big-endian number of Width bytes.  A *)
(* byte is a number below Base, so that short items reach the limit.       *)
(***************************************************************************)
EXTENDS Naturals, Sequences

CONSTANTS
    Base,   \* values of a byte: 256
    Width   \* bytes of a length: 1, 2, 4 or 8

ASSUME FrameAssumption == Base \in Nat \ {0, 1} /\ Width \in Nat \ {0}

Byte == 0 .. Base - 1

\* Base ^ n, as many lengths as n bytes can tell apart.
Lengths[n \in 0 .. Width] == IF n = 0 THEN 1 ELSE Base * Lengths[n - 1]

\* Fault: the bytes in the order of the machine.
EncodeLenNative(len) == [i \in 1 .. Width |-> (len \div Lengths[i - 1]) % Base]

\* `len as Self' keeps what fits into Width bytes.
EncodeLen(len) == [i \in 1 .. Width |-> (len \div Lengths[Width - i]) % Base]

\* Only of a buffer that holds at least Width bytes.
DecodeLen(buffer) ==
    LET number[n \in 0 .. Width] ==
            IF n = 0 THEN 0 ELSE number[n - 1] * Base + buffer[n]
    IN number[Width]

Framed(item) == EncodeLen(Len(item)) \o item

\* The sum of the code is one of machine words.  It overflows only for a length
\* of 8 bytes that no item has: EncodeLen writes none, and a shorter prefix
\* cannot say one.
HasFrame(buffer) ==
    Len(buffer) >= Width /\ Len(buffer) >= Width + DecodeLen(buffer)

\* The first item of a buffer that has a frame, and what is left behind it.
FirstItem(buffer) == SubSeq(buffer, Width + 1, Width + DecodeLen(buffer))
AfterFrame(buffer) == SubSeq(buffer, Width + DecodeLen(buffer) + 1, Len(buffer))

\* The documented size of an item (README.md, "Max Item Size").
Fits(item) == Len(item) < Lengths[Width]

=============================================================================
