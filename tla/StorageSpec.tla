----------------------------- MODULE StorageSpec -----------------------------
(***************************************************************************)
(* The transfer descriptor of the serial driver (struct StorageSpec) and   *)
(* bufferCopy, the one routine that moves bytes between a client's         *)
(* parameter block and the driver's two 500-byte staging buffers.          *)
(*                                                                         *)
(* struct StorageSpec mirrors the ioBuffer/ioReqCount/ioActCount triple of *)
(* an IOParam, so bufferCopy is handed either kind of descriptor by a      *)
(* cast.  Here too: Left, CopyCount and Advance take any record that has   *)
(* the two count fields.  The bytes themselves are moved by the users of   *)
(* this module, who know which buffer stands behind which descriptor.      *)
(***************************************************************************)
EXTENDS Integers

CONSTANT PayloadSize   \* capacity of a staging buffer, 500 in the code

ASSUME PayloadSizeAssumption == PayloadSize \in Nat \ {0}

WordRange == 65536     \* values of a 16-bit word

Storage == [ioReqCount : Int, ioActCount : Int]

\* What the rest of the driver wants to be true of every descriptor.
Sane(s) == 0 <= s.ioActCount /\ s.ioActCount <= s.ioReqCount

\* srcLeft and dstLeft of bufferCopy.
Left(s) == s.ioReqCount - s.ioActCount

\* One of the six conditions the SANITY_CHECK block beeps at.
Insane(src, dst) ==
    \/ dst.ioReqCount < 0
    \/ dst.ioActCount < 0
    \/ src.ioReqCount < 0
    \/ src.ioActCount < 0
    \/ Left(src) < 0
    \/ Left(dst) < 0

\* The destination room that remains after the SANITY_CHECK block.
Room(src, dst) == IF Insane(src, dst) THEN 0 ELSE Left(dst)

\* The value of dstLeft once it is clipped to the source: the room is
\* replaced by srcLeft whenever it is larger, also when srcLeft is negative.
Clipped(src, dst) ==
    IF Room(src, dst) > Left(src) THEN Left(src) ELSE Room(src, dst)

\* How far bufferCopy advances both descriptors.
CopyCount(src, dst) ==
    IF Clipped(src, dst) > PayloadSize THEN 0 ELSE Clipped(src, dst)

\* The reply of the device carries a signed 16-bit count of all that it has,
\* which fillReadBufDone compares with an unsigned size: a count below zero is
\* larger than any buffer.
Overflows(avail) == avail < 0 \/ avail > PayloadSize

\* ioReqCount and readExtraAvail after that reply.  readExtraAvail has 32
\* bits without a sign; here it is the integer that they stand for modulo 2^32.
FetchCount(avail) == IF Overflows(avail) THEN PayloadSize ELSE avail
ExtraAvail(avail) == IF Overflows(avail) THEN avail - PayloadSize ELSE 0

\* The low word of the answer to SerGetBuf; the high word is 0.
LowWord(n) == n % WordRange

\* Mutant: the count is added twice.
AdvanceTwice(s, n) == [s EXCEPT !.ioActCount = @ + 2 * n]

\* s after the "ioActCount += dstLeft" of bufferCopy.
Advance(s, n) == [s EXCEPT !.ioActCount = @ + n]
=============================================================================
