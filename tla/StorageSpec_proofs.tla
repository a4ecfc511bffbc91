-------------------------- MODULE StorageSpec_proofs --------------------------
(***************************************************************************)
(* What bufferCopy does, for every pair of descriptors and every capacity. *)
(***************************************************************************)
EXTENDS StorageSpec, TLAPS

\* Between sane descriptors, one of them no larger than a staging buffer,
\* bufferCopy advances both by the lesser of what the source has left and
\* what the destination has room for: its caps and checks change nothing.
THEOREM CopyMovesAll ==
  ASSUME NEW src \in Storage, NEW dst \in Storage,
         Sane(src), Sane(dst),
         Left(src) =< PayloadSize \/ Left(dst) =< PayloadSize
  PROVE  CopyCount(src, dst) = IF Left(dst) > Left(src) THEN Left(src)
                                                        ELSE Left(dst)
<1>1. src.ioReqCount \in Int /\ src.ioActCount \in Int
  BY DEF Storage
<1>2. dst.ioReqCount \in Int /\ dst.ioActCount \in Int
  BY DEF Storage
<1>3. PayloadSize \in Nat \ {0}
  BY PayloadSizeAssumption
<1>4. ~Insane(src, dst)
  BY <1>1, <1>2 DEF Insane, Sane, Left
<1>5. Clipped(src, dst) = IF Left(dst) > Left(src) THEN Left(src) ELSE Left(dst)
  BY <1>4 DEF Clipped, Room
<1> QED
  BY <1>1, <1>2, <1>3, <1>5 DEF CopyCount, Left

\* bufferCopy never takes a sane descriptor out of its bounds, whatever the
\* other one is, as long as the source is not overdrawn.
THEOREM CopyKeepsSane ==
  ASSUME NEW src \in Storage, NEW dst \in Storage, Left(src) >= 0
  PROVE  /\ CopyCount(src, dst) >= 0
         /\ Sane(src) => Sane(Advance(src, CopyCount(src, dst)))
         /\ Sane(dst) => Sane(Advance(dst, CopyCount(src, dst)))
<1> DEFINE n == CopyCount(src, dst)
<1>1. /\ src.ioReqCount \in Int /\ src.ioActCount \in Int
      /\ dst.ioReqCount \in Int /\ dst.ioActCount \in Int
  BY DEF Storage
<1>2. PayloadSize \in Nat \ {0}
  BY PayloadSizeAssumption
<1>3. Room(src, dst) \in Int /\ Room(src, dst) >= 0
      /\ (Sane(dst) => Room(src, dst) =< Left(dst))
  BY <1>1 DEF Room, Insane, Left, Sane
<1>4. n \in Int /\ 0 =< n /\ n =< Left(src) /\ n =< Room(src, dst)
  BY <1>1, <1>2, <1>3 DEF CopyCount, Clipped, Left
<1>5. ASSUME Sane(src)
      PROVE  Sane(Advance(src, n))
  BY <1>1, <1>4, <1>5 DEF Sane, Advance, Left, Storage
<1>6. ASSUME Sane(dst)
      PROVE  Sane(Advance(dst, n))
  BY <1>1, <1>3, <1>4, <1>6 DEF Sane, Advance, Left, Storage
<1> QED
  BY <1>4, <1>5, <1>6

\* The sanity checks do not cover an overdrawn source: the copy count is then
\* the negative rest itself, and the destination is moved back by it.
THEOREM OverdrawnSourceMovesBack ==
  ASSUME NEW src \in Storage, NEW dst \in Storage, Left(src) < 0
  PROVE  CopyCount(src, dst) = Left(src)
<1>1. src.ioReqCount \in Int /\ src.ioActCount \in Int
  BY DEF Storage
<1>2. PayloadSize \in Nat \ {0}
  BY PayloadSizeAssumption
<1>3. Room(src, dst) = 0
  BY DEF Room, Insane
<1> QED
  BY <1>1, <1>2, <1>3 DEF CopyCount, Clipped, Left

\* The SANITY_CHECK block stops the copy whenever one of the descriptors is out
\* of bounds, except that an overdrawn source is drawn back.
THEOREM InsaneMovesNothing ==
  ASSUME NEW src \in Storage, NEW dst \in Storage,
         ~Sane(src) \/ ~Sane(dst), Left(src) >= 0
  PROVE  CopyCount(src, dst) = 0
<1>1. /\ src.ioReqCount \in Int /\ src.ioActCount \in Int
      /\ dst.ioReqCount \in Int /\ dst.ioActCount \in Int
  BY DEF Storage
<1>2. Insane(src, dst)
  BY <1>1 DEF Insane, Sane, Left
<1>3. Clipped(src, dst) = 0
  BY <1>1, <1>2 DEF Clipped, Room, Left
<1> QED
  BY <1>3, PayloadSizeAssumption DEF CopyCount

\* The reply's count as the driver sees it, a signed word, when the device
\* means u.
AsShort(u) == IF u > 32767 THEN u - WordRange ELSE u

\* Up to 65535 waiting bytes the signed count does no harm: a buffer's worth of
\* them, or all, is taken, and SerGetBuf's low word is exactly what remains
\* after k bytes were read, though readExtraAvail wraps below zero and back.
THEOREM StatusWord ==
  ASSUME NEW u \in 0 .. WordRange - 1,
         PayloadSize =< 32767,
         NEW k \in 0 .. FetchCount(AsShort(u))
  PROVE  /\ FetchCount(AsShort(u)) = IF u > PayloadSize THEN PayloadSize ELSE u
         /\ LowWord(FetchCount(AsShort(u)) - k + ExtraAvail(AsShort(u))) = u - k
<1> DEFINE s == AsShort(u)
<1>1. /\ u \in Int /\ 0 =< u /\ u < 65536
      /\ PayloadSize \in Int /\ 0 < PayloadSize /\ PayloadSize =< 32767
  BY PayloadSizeAssumption DEF WordRange
<1>2. s \in Int /\ (u > 32767 => s = u - 65536 /\ s < 0) /\ (u =< 32767 => s = u)
  BY <1>1 DEF AsShort, WordRange
<1>3. Overflows(s) <=> u > PayloadSize
  BY <1>1, <1>2 DEF Overflows
<1>4. FetchCount(s) = IF u > PayloadSize THEN PayloadSize ELSE u
  BY <1>3, <1>1, <1>2 DEF FetchCount
<1>5. FetchCount(s) + ExtraAvail(s) = s
  BY <1>1, <1>2, <1>3, <1>4 DEF ExtraAvail
<1>6. ExtraAvail(s) \in Int /\ FetchCount(s) \in Int /\ FetchCount(s) =< u
  BY <1>1, <1>2, <1>4 DEF ExtraAvail
<1>7. k \in Int /\ 0 =< k /\ k =< u
  BY <1>6
<1>8. FetchCount(s) - k + ExtraAvail(s) = s - k
  BY <1>5, <1>6, <1>7
<1>9. (s - k) % 65536 = u - k
  <2> DEFINE r == u - k
  <2>0. r \in Int /\ 0 =< r /\ r < 65536
    BY <1>1, <1>7
  <2>1. CASE u > 32767
    <3>1. s - k = r - 65536
      BY <2>1, <1>1, <1>2, <1>7
    <3>2. (r - 65536) % 65536 = r
      <4> HIDE DEF r
      <4> QED
        BY <2>0
    <3> QED
      BY <3>1, <3>2
  <2>2. CASE u =< 32767
    <3>1. s - k = r
      BY <2>2, <1>1, <1>2, <1>7
    <3>2. r % 65536 = r
      <4> HIDE DEF r
      <4> QED
        BY <2>0
    <3> QED
      BY <3>1, <3>2
  <2> QED
    BY <2>1, <2>2, <1>1
<1> QED
  BY <1>4, <1>8, <1>9 DEF LowWord, WordRange
=============================================================================
