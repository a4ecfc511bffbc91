-------------------------- MODULE FujiSerialPort_proofs --------------------------
(***************************************************************************)
(* What the asynchronous driver promises its clients, from the invariants  *)
(* of FujiSerialStream_proofs: it implements the abstract port, forgets no *)
(* call, mixes no two calls' bytes, sends nothing twice, and counts right. *)
(***************************************************************************)
EXTENDS FujiSerialStream_proofs
-----------------------------------------------------------------------------
\* The driver implements the abstract port.

\* What the abstract port sees of the calls.
CallView == [p \in Pbs |-> [drv |-> pb[p].drv, trap |-> pb[p].trap,
                            ioReqCount |-> pb[p].ioReqCount,
                            ioActCount |-> pb[p].ioActCount]]
Broken == connResult < 0
PortView == <<queue, CallView, outcome, Staged, sent, Unread, delivered, taken, Broken>>

LEMMA ViewIs == Port!vars = PortView
BY DEF Port!vars, PortView, CallView, Broken

LEMMA ViewKept ==
  ASSUME CoreKept
  PROVE  CallView' = CallView
BY DEF CallView, CoreKept, SameCore

LEMMA ViewCounted ==
  ASSUME NEW p \in Pbs, NEW n \in Int, Counted1(p, n)
  PROVE  CallView' = [CallView EXCEPT ![p].ioActCount = @ + n]
<1>1. CallView' = [q \in Pbs |-> IF q = p THEN [CallView[p] EXCEPT !.ioActCount = @ + n]
                                          ELSE CallView[q]]
  BY DEF CallView, Counted1, SameCore
<1> QED
  BY <1>1 DEF CallView

\* Both streams in the view stay where their variables do.
LEMMA UnreadKept ==
  ASSUME ReadKept
  PROVE  Unread' = Unread /\ taken' = taken
BY DEF ReadKept, Unread
LEMMA StagedKept ==
  ASSUME WriteKept
  PROVE  Staged' = Staged /\ sent' = sent
BY DEF WriteKept, Staged

LEMMA SilentStutters ==
  ASSUME Silent
  PROVE  PortView' = PortView
BY ViewKept, UnreadKept, StagedKept DEF Silent, PortView, Broken, DiskKept, FlowKept, CallsKept

LEMMA IssuesRefines ==
  ASSUME StreamBase, NEW p \in Pbs, NEW c \in Calls \cup IrqCalls, NEW n \in Sizes,
         Issues(p, c, n)
  PROVE  Port!Issue(p, c, n)
<1>1. ~Issued(p) /\ NotMade(p) /\ PbShape
  BY DEF Issues, Enqueue, StreamBase, Reports, Inv, CallInv
<1>2. CallView[p] = Port!NoCall
  BY <1>1 DEF NotMade, Issued, CallView, Port!NoCall
<1>3. CallView' = [CallView EXCEPT ![p] = [drv |-> c[1], trap |-> c[2],
                                           ioReqCount |-> n, ioActCount |-> 0]]
  <2>1. /\ pb'[p].drv = c[1] /\ pb'[p].trap = c[2]
        /\ pb'[p].ioReqCount = n /\ pb'[p].ioActCount = 0
        /\ \A q \in Pbs : q # p => pb'[q] = pb[q]
    BY <1>1, CoreIssued DEF Issues
  <2> QED
    BY <2>1 DEF CallView
<1>4. queue' = [queue EXCEPT ![c[1]] = Append(@, p)]
  <2>1. queue' = [queue EXCEPT ![c[1]] = QueueWith(c[1], p)]
    BY DEF Issues, Enqueue
  <2> QED
    BY <2>1 DEF QueueWith
<1>5. /\ outcome' = outcome /\ Staged' = Staged /\ sent' = sent /\ Unread' = Unread
      /\ delivered' = delivered /\ taken' = taken /\ Broken' = Broken
  BY UnreadKept, StagedKept DEF Issues, FlowKept, DiskKept, Broken
<1> QED
  BY <1>2, <1>3, <1>4, <1>5 DEF Port!Issue, CallView, Broken

\* The call that an activation works on is the one its port serves.
LEMMA IsServed ==
  ASSUME StreamBase, NEW p, Mine(p), AtHead(p)
  PROVE  Port!Serving(p) /\ outcome[p] = None /\ Issued(p)
<1>1. Issued(p) /\ outcome[p] = None /\ p \in Pbs
  BY HeadOpen DEF StreamBase, Mine
<1>2. CallView[p] # Port!NoCall /\ CallView[p].drv = pb[p].drv
  BY <1>1 DEF CallView, Port!NoCall, Issued
<1> QED
  BY <1>1, <1>2 DEF Port!Serving, CallView, AtHead

LEMMA CompletesRefines ==
  ASSUME StreamBase, NEW p \in Pbs, NEW r \in Int, Completes(p, r)
  PROVE  Port!Complete(p, r) /\ r \in {0, -1, -36}
<1>0. PbShape
  BY DEF StreamBase, Inv, CallInv
<1>1. Port!Serving(p) /\ outcome[p] = None
  BY WorkedOn, IsServed DEF StreamBase
<1>2. Earned(p, r) /\ r \in Results /\ r =< 0
  BY DEF Completes, StreamBase, MainCourse, IrqCourse
<1>3. r \in {0, -1, -36}
  BY <1>2 DEF Results, Codes, noErr, ioErr, wrongTag, ioInProgress
<1>4. CallView[p].trap = pb[p].trap
      /\ CallView[p].ioReqCount = pb[p].ioReqCount /\ CallView[p].ioActCount = pb[p].ioActCount
  BY DEF CallView
<1>5. pb[p].ioReqCount \in Int /\ pb[p].ioActCount \in Int
  BY DEF StreamBase, DataInv, PbCore
<1>6. \/ r = 0 /\ (CallView[p].trap \in {"aRdCmd", "aWrCmd"}
                   => CallView[p].ioReqCount - CallView[p].ioActCount = 0)
      \/ r < 0 /\ Broken /\ CallView[p].trap \in {"aRdCmd", "aWrCmd"}
  BY <1>2, <1>3, <1>4, <1>5 DEF Earned, Rw, noErr, Broken
<1>7. /\ outcome' = [outcome EXCEPT ![p] = r]
      /\ queue' = [queue EXCEPT ![CallView[p].drv] = Tail(@)]
  BY DEF Completes, IODone, CallView
<1>8. CallView' = CallView
  BY <1>0, CoreSame, ViewKept DEF Completes, IODone
<1>9. /\ Staged' = Staged /\ sent' = sent /\ Unread' = Unread
      /\ delivered' = delivered /\ taken' = taken /\ Broken' = Broken
  BY UnreadKept, StagedKept DEF Completes, FlowKept, DiskKept, Broken
<1> QED
  BY <1>1, <1>3, <1>6, <1>7, <1>8, <1>9 DEF Port!Complete, Port!Wants, CallView, Broken

LEMMA MovesOutRefines ==
  ASSUME StreamBase, Streams, NEW p \in Pbs, Moves(p), NEW n \in Int, MovesOut(p, n), n # 0
  PROVE  Port!Accept(p, n) /\ n \in 1 .. PayloadSize
<1>0. PbShape /\ DataInv
  BY DEF StreamBase, Inv, CallInv
<1>1. Port!Serving(p)
  BY WorkedOn, IsServed DEF StreamBase
<1>2. /\ n \in Nat /\ n =< Left(writeStorage) /\ n =< Left(pb[p])
      /\ BytesOf(p, pb[p].ioActCount, n) = [i \in 1 .. n |-> <<p, CallView[p].ioActCount + i>>]
  BY <1>0, OutBounds DEF BytesOf, CallView
<1>3. ~Broken /\ ~Broken' /\ CallView[p].trap = "aWrCmd"
  BY DEF MovesOut, ConnOk, noErr, Broken, CallView, Moves, DiskKept
<1>4. n =< CallView[p].ioReqCount - CallView[p].ioActCount
  BY <1>2 DEF Left, CallView
<1>5. Len(Staged) + n =< PayloadSize /\ n =< PayloadSize
  <2>1. Len(Staged) = writeStorage.ioActCount /\ writeStorage.ioActCount \in Nat
        /\ writeStorage.ioReqCount \in {0, PayloadSize} /\ PayloadSize \in Nat
    BY <1>0, Buffers, PayloadSizeAssumption DEF DataInv, WriteSide
  <2> QED
    BY <1>2, <2>1 DEF Left
<1>6. Staged' = Staged \o [i \in 1 .. n |-> <<p, CallView[p].ioActCount + i>>]
  BY <1>2, WriteMoves
<1>7. CallView' = [CallView EXCEPT ![p].ioActCount = @ + n]
  BY ViewCounted DEF MovesOut
<1>8. /\ queue' = queue /\ outcome' = outcome /\ sent' = sent /\ Unread' = Unread
      /\ delivered' = delivered /\ taken' = taken
  BY UnreadKept DEF MovesOut, Moves, CallsKept
<1> QED
  BY <1>1, <1>2, <1>3, <1>4, <1>5, <1>6, <1>7, <1>8
  DEF Port!Accept, Port!Wants, CallView, Broken

-----------------------------------------------------------------------------
\* z is the bytes a+1 .. b of r, n of them or more.
Window(S, r, a, n, b, z) ==
    /\ r \in Seq(S) /\ a \in Nat /\ n \in Nat /\ b \in Nat
    /\ a + n =< b /\ b =< Len(r) /\ z = SubSeq(r, a + 1, b)

\* The first n of them are z's, and so are the others.
Split(r, a, n, b, z) ==
    /\ Len(z) = b - a
    /\ SubSeq(r, a + n + 1, b) = SubSeq(z, n + 1, Len(z))
    /\ Len(SubSeq(r, a + 1, a + n)) = n
    /\ \A i \in 1 .. n : SubSeq(r, a + 1, a + n)[i] = z[i]

LEMMA TakeFront ==
  ASSUME NEW S, NEW r, NEW a, NEW n, NEW b, NEW z, Window(S, r, a, n, b, z)
  PROVE  Split(r, a, n, b, z)
<1> USE DEF Window
<1>0. Len(r) \in Nat /\ r \in Seq(S) /\ a \in Nat /\ n \in Nat /\ b \in Nat
  BY LenProperties
<1>1. a + 1 \in Int /\ b \in Int /\ 1 =< a + 1 /\ b =< Len(r)
  BY <1>0
<1>2. /\ Len(SubSeq(r, a + 1, b)) = IF a + 1 =< b THEN b - (a + 1) + 1 ELSE 0
      /\ \A i \in 1 .. b - (a + 1) + 1 : SubSeq(r, a + 1, b)[i] = r[(a + 1) + i - 1]
  BY <1>1, PartOf
<1>3. Len(z) = b - a
  BY <1>2
<1>4. a + n \in Int /\ a + n =< Len(r)
  BY <1>0
<1>5. /\ Len(SubSeq(r, a + 1, a + n)) = IF a + 1 =< a + n THEN (a + n) - (a + 1) + 1 ELSE 0
      /\ \A i \in 1 .. (a + n) - (a + 1) + 1 :
            SubSeq(r, a + 1, a + n)[i] = r[(a + 1) + i - 1]
  BY <1>1, <1>4, PartOf
<1>6. \A i \in 1 .. n : SubSeq(r, a + 1, a + n)[i] = z[i]
  <2>1. ASSUME NEW i \in 1 .. n
        PROVE  SubSeq(r, a + 1, a + n)[i] = z[i]
    <3>1. i \in 1 .. (a + n) - (a + 1) + 1 /\ i \in 1 .. b - (a + 1) + 1
      OBVIOUS
    <3> QED
      BY <1>2, <1>5, <3>1
  <2> QED
    BY <2>1
<1>7. SubSeq(r, a + n + 1, b) = SubSeq(z, n + 1, Len(z))
  <2>1. a + 1 \in 1 .. Len(r) + 1 /\ b \in a .. Len(r)
        /\ n + 1 \in 1 .. (b - (a + 1) + 1) + 1 /\ b - a \in n .. b - (a + 1) + 1
    BY <1>0
  <2>2. SubSeq(SubSeq(r, a + 1, b), n + 1, b - a) = SubSeq(r, (a + 1) + (n + 1) - 1, (a + 1) + (b - a) - 1)
    BY <2>1, SubSeqOfSubSeq
  <2>3. (a + 1) + (n + 1) - 1 = a + n + 1 /\ (a + 1) + (b - a) - 1 = b
    OBVIOUS
  <2> QED
    BY <1>3, <2>2, <2>3
<1>8. Len(SubSeq(r, a + 1, a + n)) = n
  BY <1>5
<1> QED
  BY <1>3, <1>6, <1>7, <1>8 DEF Split

LEMMA MovesInRefines ==
  ASSUME StreamBase, Streams, NEW p \in Pbs, Moves(p), NEW n \in Int, MovesIn(p, n), n # 0
  PROVE  Port!Deliver(p, n) /\ n \in 1 .. PayloadSize
<1>0. PbShape /\ DataInv /\ ReadSane /\ pb[p].trap = "aRdCmd" /\ PayloadSize \in Nat
  BY PayloadSizeAssumption DEF StreamBase, Inv, CallInv, MovesIn, Streams
<1>1. Port!Serving(p)
  BY WorkedOn, IsServed DEF StreamBase
<1>2. PICK a : a = readStorage.ioActCount
  OBVIOUS
<1>3. PICK b : b = readStorage.ioReqCount
  OBVIOUS
<1>4. PICK s : s = SubSeq(readPayload, a + 1, a + n)
  OBVIOUS
<1>5. PICK z : z = Unread
  OBVIOUS
<1>6. /\ n \in Nat /\ a + n =< b /\ n =< Left(pb[p])
  <2>1. Sane(pb[p])
    BY <1>0 DEF Streams, OthersSane
  <2> QED
    BY <1>0, <1>2, <1>3, <2>1, InBounds DEF ReadSane
<1>7. /\ a \in Nat /\ b \in Nat /\ b =< Len(readPayload) /\ readPayload \in Seq(Nat)
      /\ b =< PayloadSize
  BY <1>0, <1>2, <1>3 DEF DataInv, ReadSide
<1>8. z = SubSeq(readPayload, a + 1, b)
  BY <1>2, <1>3, <1>5 DEF Unread
<1>9. /\ Len(z) = b - a
      /\ SubSeq(readPayload, a + n + 1, b) = SubSeq(z, n + 1, Len(z))
      /\ Len(s) = n
      /\ \A i \in 1 .. n : s[i] = z[i]
  <2>1. Window(Nat, readPayload, a, n, b, z)
    BY <1>6, <1>7, <1>8, Zenon DEF Window
  <2>2. Split(readPayload, a, n, b, z)
    BY <2>1, TakeFront, Zenon
  <2> QED
    BY <1>4, <2>2, Zenon DEF Split
<1>10. Unread' = SubSeq(Unread, n + 1, Len(Unread))
  <2>1. Unread' = SubSeq(readPayload, a + n + 1, b)
    BY <1>2, <1>3, ReadMoves
  <2> QED
    BY <1>5, <1>9, <2>1, Zenon
<1>11. Tagged(p, s) = [i \in 1 .. n |-> <<p, Unread[i]>>]
  BY <1>5, <1>9 DEF Tagged
<1>12. delivered' = delivered \o [i \in 1 .. n |-> <<p, Unread[i]>>]
  <2>1. delivered' = delivered \o Tagged(p, s)
    BY <1>2, <1>4, Zenon DEF MovesIn
  <2> QED
    BY <1>11, <2>1, Zenon
<1>13. ~Broken /\ ~Broken' /\ CallView[p].trap = "aRdCmd"
  BY <1>0 DEF MovesIn, ConnOk, noErr, Broken, CallView, Moves, DiskKept
<1>14. n =< CallView[p].ioReqCount - CallView[p].ioActCount /\ n =< Len(Unread)
  BY <1>5, <1>6, <1>7, <1>9 DEF Left, CallView
<1>15. CallView' = [CallView EXCEPT ![p].ioActCount = @ + n]
  BY ViewCounted DEF MovesIn
<1>16. /\ queue' = queue /\ outcome' = outcome /\ sent' = sent /\ Staged' = Staged
       /\ taken' = taken
  BY StagedKept DEF MovesIn, Moves, CallsKept
<1>17. n \in 1 .. PayloadSize
  BY <1>6, <1>7, <1>0
<1> QED
  BY <1>1, <1>10, <1>12, <1>13, <1>14, <1>15, <1>16, <1>17
  DEF Port!Deliver, Port!Wants, CallView, Broken

\* What the client side sees of a step of the device or of doOpen.
LEMMA DeviceView ==
  ASSUME DeviceSteps
  PROVE  CallView' = CallView /\ queue' = queue /\ outcome' = outcome
BY DeviceCalls DEF CallView, CallsKept

LEMMA WriteDoneRefines ==
  ASSUME StreamBase, Streams, WriteDone
  PROVE  Port!Flush
<1>0. DataInv /\ io = "write" /\ writeLength = writeStorage.ioActCount
      /\ writeStorage.ioActCount > 0
  BY DEF StreamBase, Streams, WriteDone
<1>1. ~Broken /\ ~Broken'
  BY <1>0 DEF DataInv, DiskSide, WriteDone, noErr, ioInProgress, Broken
<1>2. Staged # <<>>
  <2>1. Len(Staged) > 0
    BY <1>0, Buffers DEF DataInv, WriteSide
  <2> QED
    BY <2>1
<1>3. sent' = sent \o Staged
  <2>1. sent' = sent \o SubSeq(writePayload, 1, writeLength)
    BY DEF WriteDone
  <2> QED
    BY <1>0, <2>1, Zenon DEF Staged
<1>4. Staged' = <<>>
  <2>1. writeStorage'.ioActCount = 0
    BY <1>0 DEF WriteDone, Emptied, DataInv, WriteSide
  <2> QED
    BY <2>1, SubSeqEmpty DEF Staged
<1>5. Unread' = Unread /\ taken' = taken /\ delivered' = delivered
  BY UnreadKept DEF WriteDone, ReadKept, readVars, flowVars
<1>6. CallView' = CallView /\ queue' = queue /\ outcome' = outcome
  BY DeviceView DEF DeviceSteps
<1> QED
  BY <1>1, <1>2, <1>3, <1>4, <1>5, <1>6 DEF Port!Flush, CallView, Broken

LEMMA FailuresRefine ==
  ASSUME StreamBase, Streams, WriteFails \/ ReadFails
  PROVE  Port!Break
<1>0. DataInv /\ io # "none"
  BY DEF StreamBase, WriteFails, ReadFails
<1>1. ~Broken /\ Broken' = TRUE
  BY <1>0 DEF DataInv, DiskSide, WriteFails, ReadFails, noErr, ioInProgress, ioErr, wrongTag,
    Broken
<1>2. sent' = sent \/ sent' = sent \o Staged
  <2>1. CASE WriteFails
    <3>1. writeLength = writeStorage.ioActCount
      BY <2>1 DEF WriteFails, Streams
    <3>2. sent' = sent \/ sent' = sent \o SubSeq(writePayload, 1, writeLength)
      BY <2>1 DEF WriteFails
    <3> QED
      BY <3>1, <3>2, Zenon DEF Staged
  <2>2. CASE ReadFails
    BY <2>2 DEF ReadFails, writeVars
  <2> QED
    BY <2>1, <2>2
<1>3. Staged' = Staged
  BY DEF WriteFails, ReadFails, writeVars, Staged
<1>4. Unread' = Unread /\ taken' = taken /\ delivered' = delivered
  BY UnreadKept DEF WriteFails, ReadFails, ReadKept, readVars, flowVars
<1>5. CallView' = CallView /\ queue' = queue /\ outcome' = outcome
  BY DeviceView DEF DeviceSteps
<1> QED
  BY <1>1, <1>2, <1>3, <1>4, <1>5 DEF Port!Break, CallView, Broken

\* A reply brings bytes, or none.
LEMMA ReadDoneRefines ==
  ASSUME StreamBase, Streams, ReadDone
  PROVE  \/ PortView' = PortView
         \/ \E n \in 1 .. PayloadSize : n =< MaxIn - taken /\ Port!Fetch(n)
<1>0. DataInv /\ io = "read"
  BY DEF StreamBase, ReadDone
<1>1. ~Broken /\ ~Broken' /\ Broken' = Broken
  BY <1>0 DEF DataInv, DiskSide, ReadDone, noErr, ioInProgress, Broken
<1>2. Unread = <<>>
  BY <1>0, UnreadNone DEF Streams
<1>3. PICK n \in 0 .. PayloadSize :
        /\ n =< MaxIn - taken \/ n = 0
        /\ Unread' = [i \in 1 .. n |-> taken + i]
        /\ taken' = taken + n
  BY ReadArrives
<1>4. Staged' = Staged /\ sent' = sent /\ delivered' = delivered
  BY DEF ReadDone, writeVars, flowVars, Staged
<1>5. CallView' = CallView /\ queue' = queue /\ outcome' = outcome
  BY DeviceView DEF DeviceSteps
<1>6. CASE n = 0
  <2>1. Unread' = <<>> /\ taken' = taken
    BY <1>0, <1>3, <1>6 DEF DataInv, ReadSide
  <2> QED
    BY <1>1, <1>2, <1>4, <1>5, <2>1 DEF PortView
<1>7. CASE n # 0
  <2>1. Port!Fetch(n)
    BY <1>1, <1>2, <1>3, <1>4, <1>5 DEF Port!Fetch, CallView, Broken
  <2> QED
    BY <1>3, <1>7, <2>1, PayloadSizeAssumption
<1> QED
  BY <1>6, <1>7

LEMMA OpeningRefines ==
  ASSUME StreamBase, Streams, ~LateOpen,
         OpenConnResult \/ OpenReadReq \/ OpenReadAct \/ OpenWrite
  PROVE  Port!Mend
<1>0. DataInv /\ Untried /\ Fresh
  BY OpenUntried DEF StreamBase, Streams
<1>1. Port!Quiet
  <2>1. \A p \in Pbs : CallView[p] = Port!NoCall
    BY <1>0 DEF Untried, Issued, StreamBase, Reports, NotMade, CallView, Port!NoCall
  <2> QED
    BY <2>1 DEF Port!Quiet, CallView
<1>2. (connResult' < 0) \in {connResult < 0, FALSE}
  <2>1. connResult' = connResult \/ ~(connResult' < 0)
    BY DEF OpenConnResult, OpenReadReq, OpenReadAct, OpenWrite, noErr, diskVars
  <2>2. CASE connResult' = connResult
    BY <2>2, Zenon
  <2>3. CASE ~(connResult' < 0)
    <3>1. (connResult' < 0) = FALSE
      BY <2>3
    <3> QED
      BY <3>1, Zenon
  <2> QED
    BY <2>1, <2>2, <2>3
<1>3. Unread' = Unread \/ Unread' = <<>>
  <2>1. CASE OpenReadReq
    <3>1. readStorage'.ioReqCount = 0 /\ readStorage'.ioActCount = 0
      BY <1>0, <2>1 DEF OpenReadReq, DataInv, ReadSide, Fresh
    <3> QED
      BY <3>1, SubSeqEmpty DEF Unread
  <2>2. CASE OpenReadAct
    <3>1. readStorage' = readStorage /\ readPayload' = readPayload
      BY <1>0, <2>2 DEF OpenReadAct, DataInv, ReadSide, Fresh
    <3> QED
      BY <3>1 DEF Unread
  <2>3. CASE OpenConnResult \/ OpenWrite
    BY <2>3 DEF OpenConnResult, OpenWrite, readVars, Unread
  <2> QED
    BY <2>1, <2>2, <2>3
<1>4. Staged' = Staged
  <2>1. CASE OpenWrite
    <3>1. writeStorage'.ioActCount = 0 /\ writeStorage.ioActCount = 0
      BY <1>0, <2>1 DEF OpenWrite, Fresh
    <3> QED
      BY <3>1, SubSeqEmpty DEF Staged
  <2>2. CASE ~OpenWrite
    BY <2>2 DEF OpenConnResult, OpenReadReq, OpenReadAct, writeVars, Staged
  <2> QED
    BY <2>1, <2>2
<1>5. sent' = sent /\ delivered' = delivered /\ taken' = taken
  BY DEF OpenConnResult, OpenReadReq, OpenReadAct, OpenWrite, readVars, writeVars, flowVars
<1>6. CallView' = CallView /\ queue' = queue /\ outcome' = outcome
  BY DeviceView DEF DeviceSteps
<1> QED
  BY <1>1, <1>2, <1>3, <1>4, <1>5, <1>6 DEF Port!Mend, CallView

LEMMA RefinedInit == Init => Port!Init
<1> SUFFICES ASSUME Init
             PROVE  Port!Init
  OBVIOUS
<1>1. Staged = <<>> /\ Unread = <<>>
  BY SubSeqEmpty DEF Init, Staged, Unread
<1>2. CallView = [p \in Pbs |-> Port!NoCall]
  BY DEF Init, CallView, FreePb, Port!NoCall
<1>3. /\ queue = [d \in Drivers |-> <<>>] /\ outcome = [p \in Pbs |-> None]
      /\ sent = <<>> /\ delivered = <<>> /\ taken = 0 /\ Broken = FALSE
  BY DEF Init, noErr, Broken
<1> QED
  BY <1>1, <1>2, <1>3 DEF Port!Init, CallView, Broken

LEMMA RefinedNext ==
  ASSUME StreamBase, Streams, ~LateOpen, [Next]_vars
  PROVE  Port!Next \/ PortView' = PortView
<1>0. PbShape /\ DataInv
  BY DEF StreamBase, Inv, CallInv
<1>1. CASE Silent
  BY <1>1, SilentStutters
<1>2. ASSUME NEW p \in Pbs, NEW c \in Calls \cup IrqCalls, NEW n \in Sizes, Issues(p, c, n)
      PROVE  Port!Next
  BY <1>2, IssuesRefines DEF Port!Next
<1>3. ASSUME NEW p \in Pbs, Moves(p), ~Silent
      PROVE  Port!Next \/ PortView' = PortView
  <2>1. PICK n \in Int : MovesIn(p, n) \/ MovesOut(p, n)
    BY <1>0, <1>3, MoveKinds
  <2>2. CASE n = 0
    <3>1. CoreKept
      <4>1. PbCore /\ Counted1(p, 0)
        BY <1>0, <2>1, <2>2 DEF DataInv, MovesIn, MovesOut
      <4> QED
        BY <4>1 DEF PbCore, Counted1, CoreKept, SameCore
    <3>2. CASE MovesOut(p, n)
      <4>1. Staged' = Staged
        <5>1. Staged' = Staged \o BytesOf(p, pb[p].ioActCount, n)
          BY <3>2, WriteMoves
        <5>2. BytesOf(p, pb[p].ioActCount, n) = <<>>
          BY <2>2 DEF BytesOf
        <5>3. Staged \in Seq(Bytes)
          BY <1>0, Buffers
        <5> QED
          BY <5>1, <5>2, <5>3, ConcatEmptySeq
      <4> QED
        BY <1>3, <3>1, <3>2, <4>1, ViewKept, UnreadKept
        DEF PortView, Broken, Moves, DiskKept, CallsKept, MovesOut
    <3>3. CASE MovesIn(p, n)
      <4>1. Unread' = Unread /\ delivered' = delivered
        <5>1. Unread' = SubSeq(readPayload, readStorage.ioActCount + n + 1,
                               readStorage.ioReqCount)
          BY <3>3, ReadMoves
        <5>2. readStorage.ioActCount + n + 1 = readStorage.ioActCount + 1
              /\ readStorage.ioActCount + n = readStorage.ioActCount
          BY <1>0, <2>2 DEF DataInv, ReadSide
        <5>3. delivered' = delivered \o Tagged(p, <<>>)
          <6>1. SubSeq(readPayload, readStorage.ioActCount + 1, readStorage.ioActCount) = <<>>
            BY <1>0, SubSeqEmpty DEF DataInv, ReadSide
          <6>2. delivered' = delivered \o
                   Tagged(p, SubSeq(readPayload, readStorage.ioActCount + 1,
                                                 readStorage.ioActCount + n))
            BY <3>3 DEF MovesIn
          <6> QED
            BY <5>2, <6>1, <6>2, Zenon
        <5>4. Tagged(p, <<>>) = <<>>
          BY DEF Tagged
        <5>5. delivered \in Seq(Bytes)
          BY <1>0 DEF DataInv, ReadSide
        <5>6. delivered' = delivered
          BY <5>3, <5>4, <5>5, ConcatEmptySeq
        <5>7. Unread' = Unread
          BY <5>1, <5>2, Zenon DEF Unread
        <5> QED
          BY <5>6, <5>7
      <4> QED
        BY <1>3, <3>1, <3>3, <4>1, ViewKept, StagedKept
        DEF PortView, Broken, Moves, DiskKept, CallsKept, MovesIn
    <3> QED
      BY <2>1, <3>2, <3>3
  <2>3. CASE n # 0
    BY <1>3, <2>1, <2>3, MovesInRefines, MovesOutRefines DEF Port!Next
  <2> QED
    BY <2>2, <2>3
<1>4. ASSUME NEW p \in Pbs, NEW r \in Int, Completes(p, r)
      PROVE  Port!Next
  BY <1>4, CompletesRefines DEF Port!Next
<1>5. CASE DeviceSteps
  <2>1. CASE VblFlush \/ VblPoll
    <3>1. CallView' = CallView /\ queue' = queue /\ outcome' = outcome
      BY <1>5, DeviceView
    <3>2. Broken' = Broken
      BY <2>1 DEF VblFlush, VblPoll, ConnOk, Broken, noErr, ioInProgress
    <3>3. Staged' = Staged /\ sent' = sent /\ Unread' = Unread
          /\ delivered' = delivered /\ taken' = taken
      BY <2>1 DEF VblFlush, VblPoll, readVars, writeVars, flowVars, Staged, Unread
    <3> QED
      BY <3>1, <3>2, <3>3 DEF PortView
  <2>2. CASE WriteDone \/ WriteFails \/ ReadDone \/ ReadFails
    BY <2>2, WriteDoneRefines, FailuresRefine, ReadDoneRefines DEF Port!Next
  <2>3. CASE OpenConnResult \/ OpenReadReq \/ OpenReadAct \/ OpenWrite
    BY <2>3, OpeningRefines DEF Port!Next
  <2> QED
    BY <1>5, <2>1, <2>2, <2>3 DEF DeviceSteps
<1> QED
  BY <1>1, <1>2, <1>3, <1>4, <1>5, StreamBaseKinds DEF StepKinds

\* Seen from its clients, every behaviour of the driver is one the abstract port
\* allows, whatever the interleaving of main thread, VBL task and completions.
THEOREM ImplementsPort ==
  ASSUME LateOpen = FALSE
  PROVE  Spec => PortSpec
<1>1. StreamBase /\ Streams /\ [Next]_vars => [Port!Next]_(Port!vars)
  BY RefinedNext DEF Port!vars, PortView, CallView, Broken
<1> QED
  BY <1>1, RefinedInit, StreamsSafe, PTL DEF Spec, PortSpec, Port!Spec

-----------------------------------------------------------------------------
\* No call is forgotten, when clients make none from their completion routines.

SlotsMatch == \A i \in Slots : pendingPb[i] # None => infoRef[i] = pb[pendingPb[i]].drv
MainSlot == /\ main.pc = "claim" => infoRef[main.slot] \in {pb[main.pb].drv, None}
            /\ main.pc = "park" => infoRef[main.slot] = pb[main.pb].drv
IrqSlot == irq.pc \in WorkPcs => irq.from = "wake" /\ infoRef[irq.slot] = pb[irq.pb].drv

\* A call's slot is its driver's, and stays so from claim to park: then the
\* wake-up loop can not lose it.
HeadInv == SlotsMatch /\ MainSlot /\ IrqSlot /\ HeadsParked

DrvStays == \A q : Mine(q) => Mine(q)' /\ pb'[q].drv = pb[q].drv
RefStays == \A i \in Slots : infoRef[i] # None => infoRef'[i] = infoRef[i]

LEMMA DrvStaysNext ==
  ASSUME StreamBase, StepKinds
  PROVE  DrvStays
BY CallKept, DriversAssumption DEF StreamBase, DrvStays, Mine, Issued

LEMMA HeadsMine ==
  ASSUME StreamBase, NEW d \in Drivers, queue[d] # <<>>
  PROVE  Mine(Head(queue[d])) /\ pb[Head(queue[d])].drv = d
<1>1. PICK s : s = queue[d]
  OBVIOUS
<1>2. s \in Seq(Pbs) /\ s # <<>> /\ \A k \in 1 .. Len(s) : pb[s[k]].drv = d
  BY <1>1 DEF StreamBase, Inv, CallInv, Queues
<1>3. s[1] = Head(s) /\ 1 \in 1 .. Len(s) /\ s[1] \in Pbs
  BY <1>2, NextUp, ElementOfSeq
<1>4. Head(s) \in Pbs /\ pb[Head(s)].drv = d
  BY <1>2, <1>3
<1> QED
  BY <1>1, <1>4 DEF Mine

\* The call behind one of a driver's is that driver's.
LEMMA NextMine ==
  ASSUME CallInv, NEW p, Mine(p), NextCall(p) # None
  PROVE  Mine(NextCall(p)) /\ pb[NextCall(p)].drv = pb[p].drv
<1>1. PICK d \in Drivers : d = pb[p].drv
  BY DEF Mine
<1>2. PICK s : s = queue[d]
  OBVIOUS
<1>3. s \in Seq(Pbs) /\ NextCall(p) = s[2] /\ Len(s) > 1 /\ \A k \in 1 .. Len(s) : pb[s[k]].drv = d
  BY <1>1, <1>2 DEF NextCall, CallInv, Queues
<1>4. 2 \in 1 .. Len(s)
  BY <1>3, LenProperties
<1>5. s[2] \in Pbs
  BY <1>3, <1>4, ElementOfSeq
<1> QED
  BY <1>1, <1>3, <1>4, <1>5 DEF Mine

\* Most steps.
LEMMA HeadFrame ==
  ASSUME StreamBase, HeadInv, DrvStays, RefStays, queue' = queue, pendingPb' = pendingPb,
         InMain \subseteq InMain', InIrq \subseteq InIrq', MainSlot', IrqSlot'
  PROVE  HeadInv'
<1>1. SlotsMatch'
  <2>1. ASSUME NEW i \in Slots, pendingPb'[i] # None
        PROVE  infoRef'[i] = pb'[pendingPb'[i]].drv
    <3>1. Mine(pendingPb[i]) /\ infoRef[i] = pb[pendingPb[i]].drv /\ pendingPb[i] # None
      BY <2>1 DEF StreamBase, Inv, CallInv, Workers, HeadInv, SlotsMatch
    <3>2. infoRef[i] # None
      BY <3>1, DriversAssumption DEF Mine
    <3> QED
      BY <3>1, <3>2 DEF DrvStays, RefStays
  <2> QED
    BY <2>1 DEF SlotsMatch
<1>2. Parked \subseteq Parked'
  BY DEF Parked, Claimed, RefStays
<1>3. HeadsParked'
  BY <1>2 DEF HeadInv, HeadsParked
<1> QED
  BY <1>1, <1>3 DEF HeadInv

\* A call that is worked on goes into its driver's slot.
LEMMA ParkHeads ==
  ASSUME StreamBase, HeadInv, DrvStays, queue' = queue, infoRef' = infoRef,
         NEW p \in InMain \cup InIrq, NEW s \in Slots, infoRef[s] = pb[p].drv,
         pendingPb' = [pendingPb EXCEPT ![s] = p],
         InMain \ {p} \subseteq InMain', InIrq \ {p} \subseteq InIrq', MainSlot', IrqSlot'
  PROVE  HeadInv'
<1>0. Mine(p) /\ AtHead(p) /\ CallInv /\ p # None /\ infoRef[s] # None
  BY InSets, PbsAssumption, DriversAssumption
  DEF StreamBase, Inv, CallInv, ParkedAreHeads, Mine
<1>1. \A i \in Slots : pendingPb'[i] = IF i = s THEN p ELSE pendingPb[i]
  BY <1>0 DEF CallInv, Workers
<1>2. pendingPb[s] = None
  <2> SUFFICES ASSUME pendingPb[s] # None
               PROVE  FALSE
    OBVIOUS
  <2>1. infoRef[s] = pb[pendingPb[s]].drv /\ AtHead(pendingPb[s])
        /\ pendingPb[s] \notin InMain \cup InIrq
    BY <1>0 DEF HeadInv, SlotsMatch, CallInv, ParkedAreHeads
  <2>2. pendingPb[s] = p
    BY <1>0, <2>1 DEF AtHead
  <2> QED
    BY <2>1, <2>2
<1>3. SlotsMatch'
  BY <1>0, <1>1 DEF SlotsMatch, HeadInv, DrvStays, CallInv, Workers
<1>4. p \in Parked' /\ \A q \in Parked : q \in Parked'
  BY <1>0, <1>1, <1>2 DEF Parked, Claimed
<1>5. HeadsParked'
  BY <1>4 DEF HeadInv, HeadsParked
<1> QED
  BY <1>3, <1>5 DEF HeadInv

\* A call ends and the one behind it starts in its place.
LEMMA DoneHeads ==
  ASSUME StreamBase, HeadInv, DrvStays, infoRef' = infoRef, pendingPb' = pendingPb,
         NEW p \in InMain \cup InIrq, NEW r, IODone(p, r),
         NextCall(p) = None \/ NextCall(p) \in InMain' \cup InIrq',
         InMain \ {p} \subseteq InMain', InIrq \ {p} \subseteq InIrq', MainSlot', IrqSlot'
  PROVE  HeadInv'
<1>0. Mine(p) /\ AtHead(p) /\ CallInv
  BY InSets DEF StreamBase, Inv, CallInv, ParkedAreHeads
<1>1. SlotsMatch'
  BY <1>0 DEF SlotsMatch, HeadInv, DrvStays, CallInv, Workers
<1>2. Parked' = Parked
  BY DEF Parked, Claimed
<1>3. PICK d : d = pb[p].drv /\ d \in Drivers
  BY <1>0 DEF Mine
<1>4. /\ \A e \in Drivers : e # d => queue'[e] = queue[e]
      /\ queue'[d] = Tail(queue[d])
  BY <1>0, <1>3 DEF IODone, CallInv, Queues
<1>5. ASSUME NEW e \in Drivers, queue'[e] # <<>>
      PROVE  Head(queue'[e]) \in Parked' \cup InMain' \cup InIrq'
  <2>1. CASE e # d
    <3>1. queue'[e] = queue[e] /\ pb[Head(queue[e])].drv = e
      BY <1>4, <1>5, <2>1, HeadsMine
    <3>2. Head(queue[e]) # p
      BY <1>3, <2>1, <3>1
    <3> QED
      BY <1>2, <1>5, <3>1, <3>2 DEF HeadInv, HeadsParked
  <2>2. CASE e = d
    <3>1. PICK s : s = queue[d]
      OBVIOUS
    <3>2. s \in Seq(Pbs) /\ s # <<>> /\ Len(s) \in Nat
      BY <1>0, <1>3, <3>1, LenProperties DEF CallInv, Queues, AtHead
    <3>3. Len(s) > 1
      <4>1. Tail(s) # <<>> /\ Tail(s) \in Seq(Pbs)
        BY <1>4, <1>5, <2>2, <3>1, <3>2, NextUp
      <4>2. Len(Tail(s)) = Len(s) - 1
        BY <3>2, HeadTailProperties
      <4>3. Len(Tail(s)) \in Nat \ {0}
        BY <4>1, EmptySeq
      <4> QED
        BY <3>2, <4>2, <4>3
    <3>4. Head(Tail(s)) = s[2] /\ 2 \in 1 .. Len(s) /\ s[2] \in Pbs
      BY <3>2, <3>3, NextUp, ElementOfSeq
    <3>5. NextCall(p) = s[2]
      BY <1>3, <3>1, <3>3 DEF NextCall
    <3>6. NextCall(p) \in InMain' \cup InIrq'
      BY <3>4, <3>5, PbsAssumption
    <3> QED
      BY <1>4, <2>2, <3>1, <3>4, <3>5, <3>6
  <2> QED
    BY <2>1, <2>2
<1>6. HeadsParked'
  BY <1>5 DEF HeadsParked
<1> QED
  BY <1>1, <1>6 DEF HeadInv

\* A driver with a slot gets that slot again.
LEMMA SlotAgain ==
  ASSUME StreamBase, NEW d \in Drivers, NEW s \in Slots, infoRef[s] = d
  PROVE  InfoSlot(d) = s /\ [infoRef EXCEPT ![s] = d] = infoRef
BY SlotFound DEF SlotFor, StreamBase, Inv, InfoInv, Table

LEMMA HeadMainOpen ==
  ASSUME StreamBase, HeadInv, DrvStays, MainOpen
  PROVE  HeadInv'
<1> USE DEF MainAt, Goto, callVars, infoVars, portVars
<1>1. queue' = queue /\ pendingPb' = pendingPb /\ pb' = pb /\ irq' = irq
      /\ main.pc \notin CallPcs /\ main'.pc \notin CallPcs
  <2>1. CASE Install \/ \E d \in Drivers : Close(d)
    BY <2>1 DEF Install, Close, CallPcs
  <2>2. CASE Connect \/ \E d \in Drivers : Open(d)
    BY <2>2 DEF Connect, Open, CallPcs, StreamBase, Inv, CallInv, MainShape
  <2>3. CASE OpenConnResult \/ OpenReadReq \/ OpenReadAct \/ OpenWrite \/ OpenStartVBL
    BY <2>3 DEF OpenConnResult, OpenReadReq, OpenReadAct, OpenWrite, OpenStartVBL, CallPcs,
      IdleMain, StreamBase, Inv, CallInv, MainShape
  <2> QED
    BY <2>1, <2>2, <2>3 DEF MainOpen
<1>2. RefStays
  <2>1. CASE Install
    BY <2>1 DEF Install, RefStays, StreamBase, Inv, InfoInv, Untouched, Table
  <2>2. CASE ~Install
    <3>1. infoRef' = infoRef
      BY <2>2 DEF MainOpen, Connect, Open, Close, OpenConnResult, OpenReadReq,
        OpenReadAct, OpenWrite, OpenStartVBL
    <3> QED
      BY <3>1 DEF RefStays
  <2> QED
    BY <2>1, <2>2
<1>3. InMain \subseteq InMain' /\ InIrq \subseteq InIrq' /\ MainSlot'
  BY <1>1 DEF InMain, InIrq, MainSlot, CallPcs
<1>4. IrqSlot'
  <2>1. irq.pc \in WorkPcs => infoRef[irq.slot] # None /\ irq.slot \in Slots
    BY DriversAssumption DEF HeadInv, IrqSlot, StreamBase, Inv, InfoInv, CallInv, Workers, Mine
  <2> QED
    BY <1>1, <1>2, <2>1 DEF IrqSlot, HeadInv, RefStays
<1> QED
  BY <1>1, <1>2, <1>3, <1>4, HeadFrame

LEMMA HeadMainIssue ==
  ASSUME StreamBase, HeadInv, DrvStays, NEW p \in Pbs, NEW c \in Calls, NEW n \in Sizes,
         MainIssue(p, c, n)
  PROVE  HeadInv'
<1> USE DEF MainAt, infoVars
<1>0. /\ infoRef' = infoRef /\ pendingPb' = pendingPb /\ irq' = irq /\ main.pc = "idle"
      /\ irq.pc = "none" /\ Enqueue(p, c, n) /\ c \in Drivers \X Traps
      /\ queue \in [Drivers -> Seq(Pbs)]
  BY CallsAssumption DEF MainIssue, StreamBase, Inv, CallInv, Queues
<1>1. PICK d : d = c[1] /\ d \in Drivers
  BY <1>0
<1>2. /\ \A e \in Drivers : e # d => queue'[e] = queue[e]
      /\ queue'[d] = Append(queue[d], p)
  BY <1>0, <1>1 DEF Enqueue, QueueWith
<1>3. SlotsMatch'
  BY <1>0 DEF SlotsMatch, HeadInv, DrvStays, StreamBase, Inv, CallInv, Workers
<1>4. Parked' = Parked /\ InMain = {} /\ InIrq = {} /\ InIrq' = InIrq
  BY <1>0 DEF Parked, Claimed, InMain, InIrq
<1>5. /\ main'.pc \notin {"claim", "park"}
      /\ queue[d] = <<>> => p \in InMain'
      /\ queue[d] # <<>> => main' = main
  <2>1. CASE queue[d] = <<>>
    <3>1. main' = [IdleMain EXCEPT !.pc = Entry(c[2]), !.pb = p]
      BY <1>1, <2>1 DEF MainIssue, StartsAtOnce
    <3>2. main'.pc = Entry(c[2]) /\ main'.pb = p /\ Entry(c[2]) \in {"ctl", "sts1", "lock"}
      BY <1>0, <3>1, EntryLaw DEF IdleMain
    <3> QED
      BY <2>1, <3>2 DEF InMain
  <2>2. CASE queue[d] # <<>>
    BY <1>0, <1>1, <2>2 DEF MainIssue, StartsAtOnce
  <2> QED
    BY <2>1, <2>2
<1>6. MainSlot' /\ IrqSlot'
  BY <1>0, <1>5 DEF MainSlot, IrqSlot, WorkPcs
<1>7. ASSUME NEW e \in Drivers, queue'[e] # <<>>
      PROVE  Head(queue'[e]) \in Parked' \cup InMain' \cup InIrq'
  <2>1. CASE e # d
    BY <1>2, <1>4, <1>7, <2>1 DEF HeadInv, HeadsParked
  <2>2. CASE e = d /\ queue[d] # <<>>
    <3>1. Head(queue'[d]) = Head(queue[d])
      BY <1>0, <1>1, <1>2, <2>2, Behind
    <3> QED
      BY <1>1, <1>4, <2>2, <3>1 DEF HeadInv, HeadsParked
  <2>3. CASE e = d /\ queue[d] = <<>>
    <3>1. Head(queue'[d]) = p
      BY <1>0, <1>1, <1>2, <2>3, Behind
    <3> QED
      BY <1>5, <2>3, <3>1
  <2> QED
    BY <2>1, <2>2, <2>3
<1> QED
  BY <1>3, <1>6, <1>7 DEF HeadInv, HeadsParked

LEMMA HeadMainCall ==
  ASSUME StreamBase, StreamBase', HeadInv, DrvStays, MainCall
  PROVE  HeadInv'
<1> USE DEF MainAt, callVars, infoVars
<1>0. /\ irq' = irq /\ irq.pc = "none" /\ InIrq = {} /\ InIrq' = {} /\ IrqSlot'
      /\ main.pc \in CallPcs /\ Mine(main.pb) /\ main.slot \in Slots
      /\ MainShape /\ main.err \in Results
  <2>1. irq' = irq /\ irq.pc = "none" /\ main.pc \in CallPcs
    BY DEF MainCall, DoControl, StatusReq, StatusAct, StatusExtra, PrimeTakes,
      PrimeMisses, PrimeTransfer, PrimeReleases, PrimeFindsSlot, PrimeClaimsSlot, PrimeParks,
      PrimeSchedules, PrimeResult, IOReturn, CallPcs
  <2> QED
    BY <2>1 DEF InIrq, IrqSlot, WorkPcs, StreamBase, Inv, CallInv, Workers, InfoInv, MainCourse
<1>e. main.err =< 0 \/ main.err = ioInProgress
  BY <1>0 DEF Results, Codes, noErr, ioErr, wrongTag, ioInProgress
<1>d. pb'[main.pb].drv = pb[main.pb].drv /\ pb[main.pb].drv \in Drivers
  BY <1>0 DEF DrvStays, Mine
<1>1. CASE DoControl \/ StatusReq \/ StatusAct \/ StatusExtra \/ PrimeTakes \/ PrimeMisses
           \/ PrimeTransfer \/ PrimeReleases \/ PrimeSchedules \/ PrimeResult
  <2>1. queue' = queue /\ pendingPb' = pendingPb /\ infoRef' = infoRef
    BY <1>1 DEF DoControl, StatusReq, StatusAct, StatusExtra, PrimeTakes, PrimeMisses,
      PrimeTransfer, PrimeReleases, PrimeSchedules, PrimeResult
  <2>2. InMain \subseteq InMain' /\ main'.pc \notin {"claim", "park"}
    <3>1. CASE DoControl \/ StatusReq \/ StatusAct \/ StatusExtra
      <4>1. /\ main'.pb = main.pb
            /\ main'.pc \in {"sts2", "sts3"} \/ (main'.pc = "return" /\ main'.err = 0)
            /\ main.pc \in {"ctl", "sts1", "sts2", "sts3"}
        BY <1>0, <3>1 DEF DoControl, StatusReq, StatusAct, StatusExtra, MainShape, noErr
      <4> QED
        BY <4>1 DEF InMain
    <3>2. CASE PrimeTakes \/ PrimeMisses \/ PrimeTransfer
      BY <1>0, <3>2 DEF PrimeTakes, PrimeMisses, PrimeTransfer, Goto, InMain, MainShape
    <3>3. CASE PrimeReleases
      <4>1. /\ main'.pc = IF main.err = ioInProgress THEN "find" ELSE "result"
            /\ main'.err = main.err /\ main'.pb = main.pb
        BY <1>0, <3>3 DEF PrimeReleases, Goto, MainShape
      <4> QED
        BY <1>e, <3>3, <4>1 DEF PrimeReleases, InMain
    <3>4. CASE PrimeSchedules \/ PrimeResult
      BY <1>0, <3>4 DEF PrimeSchedules, PrimeResult, Goto, InMain, MainShape
    <3> QED
      BY <1>1, <3>1, <3>2, <3>3, <3>4
  <2>3. RefStays /\ MainSlot'
    BY <2>1, <2>2 DEF RefStays, MainSlot
  <2> QED
    BY <1>0, <2>1, <2>2, <2>3, HeadFrame
<1>2. CASE PrimeFindsSlot
  <2>1. /\ queue' = queue /\ pendingPb' = pendingPb /\ infoRef' = infoRef /\ pb' = pb
        /\ main'.pc = "claim" /\ main'.pb = main.pb /\ main'.slot = InfoSlot(pb[main.pb].drv)
        /\ main.pc = "find"
    BY <1>0, <1>2 DEF PrimeFindsSlot, MainShape
  <2>2. infoRef[InfoSlot(pb[main.pb].drv)] \in {pb[main.pb].drv, None}
    <3>1. PICK d \in Drivers : d = pb[main.pb].drv
      BY <1>d
    <3>2. Table
      BY DEF StreamBase, Inv, InfoInv
    <3> QED
      BY <3>1, <3>2, SlotFound
  <2>3. RefStays /\ MainSlot' /\ InMain \subseteq InMain'
    BY <2>1, <2>2 DEF RefStays, MainSlot, InMain
  <2> QED
    BY <1>0, <2>1, <2>3, HeadFrame
<1>3. CASE PrimeClaimsSlot
  <2>1. /\ queue' = queue /\ pendingPb' = pendingPb /\ pb' = pb
        /\ infoRef' = [infoRef EXCEPT ![main.slot] = pb[main.pb].drv]
        /\ main'.pc = "park" /\ main'.pb = main.pb /\ main'.slot = main.slot
        /\ main.pc = "claim"
    BY <1>0, <1>3 DEF PrimeClaimsSlot, Goto, MainShape
  <2>2. /\ infoRef[main.slot] \in {pb[main.pb].drv, None}
        /\ infoRef'[main.slot] = pb[main.pb].drv
        /\ \A i \in Slots : i # main.slot => infoRef'[i] = infoRef[i]
    BY <1>0, <2>1 DEF HeadInv, MainSlot, StreamBase, Inv, InfoInv, Table
  <2>3. RefStays /\ MainSlot' /\ InMain \subseteq InMain'
    BY <2>1, <2>2 DEF RefStays, MainSlot, InMain
  <2> QED
    BY <1>0, <2>1, <2>3, HeadFrame
<1>4. CASE PrimeParks
  <2>1. /\ queue' = queue /\ pendingPb' = [pendingPb EXCEPT ![main.slot] = main.pb]
        /\ infoRef' = infoRef /\ main'.pc = "sched" /\ main.pc = "park"
    BY <1>0, <1>4 DEF PrimeParks, Goto, MainShape
  <2>2. main.pb \in InMain /\ InMain \ {main.pb} \subseteq InMain' /\ MainSlot'
        /\ infoRef[main.slot] = pb[main.pb].drv
    BY <2>1 DEF InMain, MainSlot, HeadInv
  <2> QED
    BY <1>0, <2>1, <2>2, ParkHeads
<1>5. CASE IOReturn /\ main.err =< 0
  <2>1. /\ IODone(main.pb, main.err) /\ infoRef' = infoRef /\ pendingPb' = pendingPb
        /\ main.pc = "return"
        /\ main' = IF NextCall(main.pb) = None THEN IdleMain
                   ELSE [IdleMain EXCEPT !.pc = Entry(pb[NextCall(main.pb)].trap),
                                         !.pb = NextCall(main.pb)]
    BY <1>5 DEF IOReturn
  <2>2. main.pb \in InMain /\ InMain \ {main.pb} \subseteq InMain'
    BY <1>5, <2>1 DEF InMain
  <2>3. (NextCall(main.pb) = None \/ NextCall(main.pb) \in InMain') /\ MainSlot'
    <3>1. CASE NextCall(main.pb) = None
      BY <2>1, <3>1 DEF MainSlot, IdleMain
    <3>2. CASE NextCall(main.pb) # None
      <4>1. NextCall(main.pb) \in Pbs
        BY <1>0, <3>2, NextIs DEF StreamBase
      <4>2. pb[NextCall(main.pb)].trap \in Traps
        BY <4>1 DEF StreamBase, DataInv, PbCore
      <4>3. /\ main'.pc = Entry(pb[NextCall(main.pb)].trap) /\ main'.pb = NextCall(main.pb)
            /\ main'.pc \in {"ctl", "sts1", "lock"}
        BY <2>1, <3>2, <4>2, EntryLaw DEF IdleMain
      <4> QED
        BY <4>3 DEF MainSlot, InMain
    <3> QED
      BY <3>1, <3>2
  <2> QED
    BY <1>0, <2>1, <2>2, <2>3, DoneHeads
<1>6. CASE IOReturn /\ ~(main.err =< 0)
  <2>1. queue' = queue /\ pendingPb' = pendingPb /\ infoRef' = infoRef
        /\ main.pc = "return" /\ main' = IdleMain
    BY <1>6 DEF IOReturn
  <2>2. InMain = {} /\ main'.pc = "idle"
    BY <1>6, <2>1 DEF InMain, IdleMain
  <2>3. RefStays /\ MainSlot'
    BY <2>1, <2>2 DEF RefStays, MainSlot
  <2> QED
    BY <1>0, <2>1, <2>2, <2>3, HeadFrame
<1> QED
  BY <1>1, <1>2, <1>3, <1>4, <1>5, <1>6 DEF MainCall

LEMMA HeadPark ==
  ASSUME StreamBase, HeadInv, DrvStays, irq.pc = "prime", Park(irq.pb), queue' = queue,
         main' = main
  PROVE  HeadInv'
<1>0. /\ Mine(irq.pb) /\ irq.slot \in Slots /\ infoRef[irq.slot] = pb[irq.pb].drv
      /\ irq.from = "wake" /\ IrqShape
  BY DEF StreamBase, Inv, CallInv, Workers, InfoInv, HeadInv, IrqSlot, WorkPcs
<1>1. PICK d \in Drivers : d = pb[irq.pb].drv
  BY <1>0 DEF Mine
<1>2. /\ infoRef' = infoRef /\ pendingPb' = [pendingPb EXCEPT ![irq.slot] = irq.pb]
      /\ irq' = Resume
  <2>1. InfoSlot(d) = irq.slot /\ [infoRef EXCEPT ![irq.slot] = d] = infoRef
    BY <1>0, <1>1, SlotAgain
  <2> QED
    BY <1>1, <2>1 DEF Park
<1>3. irq'.pc = "wake"
  BY <1>0, <1>2 DEF Resume, IdleIrq
<1>4. InMain' = InMain /\ irq.pb \in InIrq /\ InIrq \ {irq.pb} \subseteq InIrq'
  BY DEF InMain, InIrq
<1>5. IrqSlot' /\ MainSlot'
  <2>1. main.pc \in CallPcs => pb'[main.pb].drv = pb[main.pb].drv
    BY DEF StreamBase, Inv, CallInv, Workers, DrvStays
  <2> QED
    BY <1>2, <1>3, <2>1 DEF IrqSlot, MainSlot, WorkPcs, HeadInv, CallPcs
<1> QED
  BY <1>0, <1>2, <1>4, <1>5, ParkHeads

LEMMA HeadIrq ==
  ASSUME StreamBase, StreamBase', HeadInv, DrvStays, IrqStep, main' = main, IrqCalls = {}
  PROVE  HeadInv'
<1> USE DEF callVars, infoVars, portVars
<1>0. IrqShape /\ InMain' = InMain /\ (InfoInv /\ CallInv) /\ irq'.slot \in Slots
  BY DEF StreamBase, Inv, CallInv, InMain, InfoInv
<1>m. infoRef' = infoRef => MainSlot'
  <2>1. main.pc \in CallPcs => pb'[main.pb].drv = pb[main.pb].drv
    BY DEF StreamBase, Inv, CallInv, Workers, DrvStays
  <2> QED
    BY <2>1 DEF MainSlot, HeadInv, CallPcs
<1>1. CASE VblTick \/ DiskDone \/ WakeSkips \/ WakeEnds
  <2>1. queue' = queue /\ pendingPb' = pendingPb /\ infoRef' = infoRef
        /\ irq.pc \notin WorkPcs /\ irq'.pc \notin WorkPcs
    BY <1>0, <1>1 DEF VblTick, VblCountdown, VblMutexBusy, VblFlush, VblPoll, VblWakes, VblDue,
      Interrupted, StartWakeUp, DiskDone, WriteDone, WriteFails, ReadDone, ReadFails, WakeSkips,
      WakeEnds, IdleIrq, IrqShape, WorkPcs
  <2>2. InIrq = {} /\ RefStays /\ IrqSlot'
    BY <2>1 DEF InIrq, RefStays, IrqSlot, WorkPcs
  <2> QED
    BY <1>0, <1>m, <2>1, <2>2, HeadFrame
<1>2. CASE WakeTakes
  <2>1. /\ irq.pc = "wake" /\ pendingPb[irq.slot] # None /\ infoRef[irq.slot] # None
        /\ pendingPb' = [pendingPb EXCEPT ![irq.slot] = None] /\ infoRef' = infoRef
        /\ queue' = queue /\ pb' = pb /\ irq.slot \in Slots
        /\ irq'.pc = "prime" /\ irq'.from = "wake" /\ irq'.pb = pendingPb[irq.slot]
        /\ irq'.slot = irq.slot
    BY <1>0, <1>2 DEF WakeTakes, Unparked, IrqShape, InfoInv
  <2>2. \A i \in Slots : pendingPb'[i] = IF i = irq.slot THEN None ELSE pendingPb[i]
    BY <1>0, <2>1 DEF CallInv, Workers
  <2>3. SlotsMatch'
    BY <2>1, <2>2 DEF SlotsMatch, HeadInv
  <2>4. IrqSlot'
    BY <2>1 DEF IrqSlot, HeadInv, SlotsMatch
  <2>5. InIrq = {} /\ InIrq' = {pendingPb[irq.slot]}
    BY <2>1 DEF InIrq
  <2>6. Parked \subseteq Parked' \cup InIrq'
    BY <2>1, <2>2, <2>5 DEF Parked, Claimed
  <2>7. HeadsParked'
    BY <1>0, <2>1, <2>5, <2>6 DEF HeadInv, HeadsParked
  <2> QED
    BY <1>m, <2>1, <2>3, <2>4, <2>7 DEF HeadInv
<1>3. CASE (IrqPrimes /\ PrimeErr(irq.pb) = ioInProgress) \/ IrqMisses
  BY <1>3, HeadPark DEF IrqPrimes, IrqMisses
<1>4. CASE (IrqPrimes /\ PrimeErr(irq.pb) # ioInProgress) \/ IrqControls
  <2>1. queue' = queue /\ pendingPb' = pendingPb /\ infoRef' = infoRef
        /\ irq.pc = "prime" /\ irq'.pc = "done" /\ irq'.pb = irq.pb /\ irq'.slot = irq.slot
        /\ irq'.from = irq.from
    BY <1>0, <1>4 DEF IrqPrimes, IrqControls, IrqShape
  <2>2. InIrq' = InIrq /\ RefStays /\ irq.pc \in WorkPcs
    BY <2>1 DEF InIrq, RefStays, WorkPcs
  <2>3. IrqSlot'
    BY <1>0, <2>1, <2>2 DEF IrqSlot, HeadInv, CallInv, Workers, DrvStays
  <2> QED
    BY <1>0, <1>m, <2>1, <2>2, <2>3, HeadFrame
<1>5. CASE IrqIODone
  <2>1. /\ IODone(irq.pb, irq.err) /\ infoRef' = infoRef /\ pendingPb' = pendingPb
        /\ irq.pc = "done"
        /\ irq' = IF NextCall(irq.pb) = None THEN Resume
                  ELSE [irq EXCEPT !.pc = "prime", !.pb = NextCall(irq.pb)]
    BY <1>5 DEF IrqIODone
  <2>2. irq.pb \in InIrq /\ InIrq \ {irq.pb} \subseteq InIrq' /\ Mine(irq.pb)
        /\ irq.from = "wake" /\ infoRef[irq.slot] = pb[irq.pb].drv
    BY <1>0, <2>1 DEF InIrq, CallInv, Workers, HeadInv, IrqSlot, WorkPcs
  <2>3. (NextCall(irq.pb) = None \/ NextCall(irq.pb) \in InIrq') /\ IrqSlot'
    <3>1. CASE NextCall(irq.pb) = None
      <4>1. irq'.pc = "wake"
        BY <2>1, <2>2, <3>1 DEF Resume, IdleIrq
      <4> QED
        BY <3>1, <4>1 DEF IrqSlot, WorkPcs
    <3>2. CASE NextCall(irq.pb) # None
      <4>1. /\ irq'.pc = "prime" /\ irq'.pb = NextCall(irq.pb) /\ irq'.slot = irq.slot
            /\ irq'.from = irq.from
        BY <1>0, <2>1, <3>2 DEF IrqShape
      <4>2. Mine(NextCall(irq.pb)) /\ pb[NextCall(irq.pb)].drv = pb[irq.pb].drv
        BY <1>0, <2>2, <3>2, NextMine
      <4> QED
        BY <2>1, <2>2, <4>1, <4>2 DEF InIrq, IrqSlot, DrvStays
    <3> QED
      BY <3>1, <3>2
  <2> QED
    BY <1>0, <1>m, <2>1, <2>2, <2>3, DoneHeads
<1> QED
  BY <1>1, <1>2, <1>3, <1>4, <1>5 DEF IrqStep, IrqWork, IrqIssues

LEMMA HeadInit == Init => HeadInv
<1> SUFFICES ASSUME Init
             PROVE  HeadInv
  OBVIOUS
<1>1. SlotsMatch /\ MainSlot /\ IrqSlot
  BY DEF Init, SlotsMatch, MainSlot, IrqSlot, IdleMain, IdleIrq, WorkPcs
<1>2. HeadsParked
  BY DEF Init, HeadsParked
<1> QED
  BY <1>1, <1>2 DEF HeadInv

LEMMA HeadNext ==
  ASSUME StreamBase, HeadInv, [Next]_vars, IrqCalls = {}
  PROVE  HeadInv'
<1>1. DrvStays /\ StreamBase'
  BY StreamBaseKinds, DrvStaysNext, StreamBaseNext
<1>2. CASE MainOpen
  BY <1>1, <1>2, HeadMainOpen
<1>3. CASE MainIssues
  BY <1>1, <1>3, HeadMainIssue DEF MainIssues
<1>4. CASE MainCall
  BY <1>1, <1>4, HeadMainCall
<1>5. CASE IrqStep /\ main' = main
  BY <1>1, <1>5, HeadIrq
<1>6. CASE UNCHANGED vars
  <2>1. /\ queue' = queue /\ pendingPb' = pendingPb /\ infoRef' = infoRef
        /\ main' = main /\ irq' = irq /\ pb' = pb
    BY <1>6 DEF vars, callVars, infoVars
  <2>2. RefStays /\ InMain' = InMain /\ InIrq' = InIrq /\ MainSlot' /\ IrqSlot'
    BY <2>1 DEF RefStays, InMain, InIrq, MainSlot, IrqSlot, HeadInv
  <2> QED
    BY <1>1, <2>1, <2>2, HeadFrame
<1> QED
  BY <1>2, <1>3, <1>4, <1>5, <1>6, Sides DEF MainStep

\* A call at the head of its queue is parked where the next wake-up finds it,
\* or worked on: none is forgotten.  Only clients that call from completion
\* routines can make the driver lose one.
THEOREM NoCallForgotten ==
  ASSUME IrqCalls = {}
  PROVE  Spec => []HeadsParked
<1>1. Init => StreamBase /\ HeadInv
  BY StreamBaseInit, HeadInit
<1>2. (StreamBase /\ HeadInv) /\ [Next]_vars => (StreamBase /\ HeadInv)'
  BY StreamBaseNext, HeadNext
<1>3. HeadInv => HeadsParked
  BY DEF HeadInv
<1> QED
  BY <1>1, <1>2, <1>3, PTL DEF Spec

-----------------------------------------------------------------------------
\* The transfers of a port do not mix.

Waiting(p) == \E k \in 1 .. Len(queue[pb[p].drv]) : queue[pb[p].drv][k] = p
SameDrv(p, q) == pb[p].drv = pb[q].drv
Whose(s, i) == s[i][1]

\* s holds bytes of calls that have had their turn, and none of a port's next
\* call before the one ahead of it is done.
Orderly(s) ==
    /\ \A i \in 1 .. Len(s) : /\ Whose(s, i) \in Pbs /\ Issued(Whose(s, i))
                              /\ Waiting(Whose(s, i)) => AtHead(Whose(s, i))
    /\ \A i, j \in 1 .. Len(s) :
         i < j /\ Whose(s, i) # Whose(s, j) /\ SameDrv(Whose(s, i), Whose(s, j))
         => ~Waiting(Whose(s, i))
    /\ \A i, j, k \in 1 .. Len(s) :
         i < j /\ j < k /\ Whose(s, i) = Whose(s, k) /\ Whose(s, j) # Whose(s, i)
         => ~SameDrv(Whose(s, j), Whose(s, i))

\* A call that was made keeps its driver, never queues again, and stays at the
\* head of the queue as long as it is in it.
TurnStays ==
    \A p \in Pbs : Issued(p) =>
      /\ Issued(p)' /\ pb'[p].drv = pb[p].drv
      /\ Waiting(p)' => Waiting(p) /\ (AtHead(p) => AtHead(p)')

LEMMA HeadWaits ==
  ASSUME StreamBase, NEW p, Mine(p), AtHead(p)
  PROVE  Waiting(p)
<1>1. PICK d \in Drivers : d = pb[p].drv
  BY DEF Mine
<1>2. PICK s : s = queue[d]
  OBVIOUS
<1>3. s \in Seq(Pbs) /\ s # <<>> /\ Head(s) = p
  BY <1>1, <1>2 DEF StreamBase, Inv, CallInv, Queues, AtHead
<1>4. 1 \in 1 .. Len(s) /\ s[1] = p
  BY <1>3, NextUp
<1> QED
  BY <1>1, <1>2, <1>4 DEF Waiting

LEMMA TurnStaysNext ==
  ASSUME StreamBase, StepKinds
  PROVE  TurnStays
<1>0. Inv /\ DataInv /\ CallInv /\ PbShape /\ Queues /\ queue \in [Drivers -> Seq(Pbs)]
  BY DEF StreamBase, Inv, CallInv, Queues
<1> SUFFICES ASSUME NEW p \in Pbs, Issued(p)
             PROVE  /\ Issued(p)' /\ pb'[p].drv = pb[p].drv
                    /\ Waiting(p)' => Waiting(p) /\ (AtHead(p) => AtHead(p)')
  BY DEF TurnStays
<1>1. pb'[p].drv = pb[p].drv /\ Issued(p)'
  BY <1>0, CallKept DEF Issued
<1>2. PICK d \in Drivers : d = pb[p].drv
  BY <1>0 DEF PbShape, Issued
<1>a. ASSUME queue' = queue
      PROVE  Waiting(p)' => Waiting(p) /\ (AtHead(p) => AtHead(p)')
  BY <1>a, <1>1 DEF Waiting, AtHead
<1>3. CASE Silent \/ DeviceSteps \/ \E q \in Pbs : Moves(q)
  <2>1. queue' = queue
    BY <1>3, DeviceCalls DEF Silent, Moves, CallsKept
  <2> QED
    BY <1>1, <1>a, <2>1
<1>4. ASSUME NEW q \in Pbs, NEW c \in Calls \cup IrqCalls, NEW n \in Sizes, Issues(q, c, n)
      PROVE  Waiting(p)' => Waiting(p) /\ (AtHead(p) => AtHead(p)')
  <2>1. q # p /\ queue' = [queue EXCEPT ![c[1]] = Append(queue[c[1]], q)]
    BY <1>4 DEF Issues, Enqueue, QueueWith
  <2>2. CASE c[1] # d
    <3>1. queue'[d] = queue[d]
      BY <1>0, <1>2, <2>1, <2>2
    <3> QED
      BY <1>1, <1>2, <3>1 DEF Waiting, AtHead
  <2>3. CASE c[1] = d
    <3>1. PICK s : s = queue[d]
      OBVIOUS
    <3>2. PICK t : t = Append(s, q)
      OBVIOUS
    <3>3. queue'[d] = t /\ s \in Seq(Pbs)
      BY <1>0, <1>2, <2>1, <2>3, <3>1, <3>2
    <3>4. /\ t # <<>>
          /\ s # <<>> => Head(t) = Head(s)
          /\ \A k \in 1 .. Len(t) : t[k] = q \/ (k \in 1 .. Len(s) /\ t[k] = s[k])
      BY <3>2, <3>3, Behind
    <3>5. Waiting(p)' => Waiting(p)
      BY <1>1, <1>2, <2>1, <3>1, <3>3, <3>4 DEF Waiting
    <3>6. AtHead(p) => AtHead(p)'
      BY <1>1, <1>2, <3>1, <3>3, <3>4 DEF AtHead
    <3> QED
      BY <3>5, <3>6
  <2> QED
    BY <2>2, <2>3
<1>5. ASSUME NEW q \in Pbs, NEW r \in Int, Completes(q, r)
      PROVE  Waiting(p)' => Waiting(p) /\ (AtHead(p) => AtHead(p)')
  <2>1. PICK e : e = pb[q].drv
    OBVIOUS
  <2>2. queue' = [queue EXCEPT ![e] = Tail(@)] /\ AtHead(q) /\ Mine(q)
    BY <1>0, <1>5, <2>1, WorkedOn DEF Completes, IODone
  <2>3. CASE e # d
    <3>1. queue'[d] = queue[d]
      BY <1>0, <1>2, <2>2, <2>3
    <3> QED
      BY <1>1, <1>2, <3>1 DEF Waiting, AtHead
  <2>4. CASE e = d
    <3>1. PICK s : s = queue[d]
      OBVIOUS
    <3>2. PICK t : t = Tail(s)
      OBVIOUS
    <3>3. queue'[d] = t /\ s \in Seq(Pbs) /\ s # <<>> /\ Once(s) /\ Head(s) = q
      BY <1>0, <1>2, <2>1, <2>2, <2>4, <3>1, <3>2 DEF AtHead, Queues
    <3>4. /\ \A k \in 1 .. Len(t) : k + 1 \in 1 .. Len(s) /\ t[k] = s[k + 1]
          /\ 1 \in 1 .. Len(s) /\ s[1] = Head(s)
      BY <3>2, <3>3, NextUp
    <3>5. ASSUME NEW k \in 1 .. Len(t), t[k] = p
          PROVE  k + 1 \in 1 .. Len(s) /\ s[k + 1] = p /\ Head(s) # p
      <4>1. k + 1 \in 1 .. Len(s) /\ s[k + 1] = p
        BY <3>4, <3>5
      <4>2. k + 1 # 1
        OBVIOUS
      <4>3. s[1] # s[k + 1]
        BY <3>3, <3>4, <4>1, <4>2 DEF Once
      <4> QED
        BY <3>4, <4>1, <4>3
    <3>6. Waiting(p)' => \E k \in 1 .. Len(t) : t[k] = p
      BY <1>1, <1>2, <3>3 DEF Waiting
    <3>7. Waiting(p)' => (\E k \in 1 .. Len(s) : s[k] = p) /\ Head(s) # p
      BY <3>5, <3>6
    <3> QED
      BY <1>2, <3>1, <3>7 DEF Waiting, AtHead
  <2> QED
    BY <2>3, <2>4
<1> QED
  BY <1>1, <1>3, <1>4, <1>5 DEF StepKinds

LEMMA OrderlyStays ==
  ASSUME TurnStays, NEW s, Orderly(s)
  PROVE  Orderly(s)'
<1>1. \A i \in 1 .. Len(s) : /\ Whose(s, i) \in Pbs /\ Issued(Whose(s, i))
                             /\ Waiting(Whose(s, i)) => AtHead(Whose(s, i))
  BY DEF Orderly
<1>2. \A i \in 1 .. Len(s) : /\ Issued(Whose(s, i))'
                             /\ Waiting(Whose(s, i))' => AtHead(Whose(s, i))'
                             /\ ~Waiting(Whose(s, i)) => ~Waiting(Whose(s, i))'
  BY <1>1 DEF TurnStays, Whose
<1>3. \A i, j \in 1 .. Len(s) : SameDrv(Whose(s, i), Whose(s, j))' <=> SameDrv(Whose(s, i), Whose(s, j))
  BY <1>1 DEF TurnStays, SameDrv, Whose
<1>4. \A i, j \in 1 .. Len(s) :
         i < j /\ Whose(s, i) # Whose(s, j) /\ SameDrv(Whose(s, i), Whose(s, j))'
         => ~Waiting(Whose(s, i))'
  BY <1>2, <1>3 DEF Orderly
<1>5. \A i, j, k \in 1 .. Len(s) :
         i < j /\ j < k /\ Whose(s, i) = Whose(s, k) /\ Whose(s, j) # Whose(s, i)
         => ~SameDrv(Whose(s, j), Whose(s, i))'
  BY <1>3 DEF Orderly
<1> QED
  BY <1>1, <1>2, <1>4, <1>5 DEF Orderly, Whose

-----------------------------------------------------------------------------
\* p's bytes come behind those of s.
LEMMA OrderlyGrows ==
  ASSUME StreamBase, NEW s \in Seq(Bytes), Orderly(s), NEW p \in Pbs, Mine(p), AtHead(p),
         NEW t \in Seq(Bytes), \A i \in 1 .. Len(t) : Whose(t, i) = p
  PROVE  Orderly(s \o t)
<1>1. Waiting(p) /\ Issued(p)
  BY HeadWaits, DriversAssumption DEF Mine, Issued
<1>2. PICK u : u = s \o t
  OBVIOUS
<1>3. PICK m : m = Len(s) /\ m \in Nat
  BY LenProperties
<1>4. /\ Len(u) \in Nat
      /\ \A i \in 1 .. Len(u) : \/ i \in 1 .. m /\ Whose(u, i) = Whose(s, i)
                                \/ i > m /\ Whose(u, i) = p
  <2>1. /\ Len(u) = Len(s) + Len(t) /\ Len(t) \in Nat
        /\ \A i \in 1 .. Len(u) :
              \/ i \in 1 .. Len(s) /\ u[i] = s[i]
              \/ i - Len(s) \in 1 .. Len(t) /\ u[i] = t[i - Len(s)]
    BY <1>2, Joined
  <2>2. ASSUME NEW i \in 1 .. Len(u)
        PROVE  \/ i \in 1 .. m /\ Whose(u, i) = Whose(s, i)
               \/ i > m /\ Whose(u, i) = p
    <3>1. CASE i \in 1 .. Len(s) /\ u[i] = s[i]
      BY <1>3, <3>1 DEF Whose
    <3>2. CASE i - Len(s) \in 1 .. Len(t) /\ u[i] = t[i - Len(s)]
      <4>1. Whose(u, i) = Whose(t, i - Len(s)) /\ i > m
        BY <1>3, <3>2 DEF Whose
      <4> QED
        BY <3>2, <4>1
    <3> QED
      BY <2>1, <3>1, <3>2
  <2> QED
    BY <1>3, <2>1, <2>2
<1> HIDE DEF Orderly
<1>5. \A i \in 1 .. Len(u) : /\ Whose(u, i) \in Pbs /\ Issued(Whose(u, i))
                             /\ Waiting(Whose(u, i)) => AtHead(Whose(u, i))
  BY <1>1, <1>3, <1>4 DEF Orderly
\* Whoever is ahead of p on its port is done.
<1>6. ASSUME NEW q, Issued(q), Waiting(q) => AtHead(q), q # p, SameDrv(q, p)
      PROVE  ~Waiting(q)
  BY <1>6 DEF AtHead, SameDrv
<1>7. ASSUME NEW i \in 1 .. Len(u), NEW j \in 1 .. Len(u), i < j,
             Whose(u, i) # Whose(u, j), SameDrv(Whose(u, i), Whose(u, j))
      PROVE  ~Waiting(Whose(u, i))
  <2>1. CASE j > m /\ Whose(u, j) = p
    BY <1>5, <1>6, <1>7, <2>1
  <2>2. CASE j \in 1 .. m /\ Whose(u, j) = Whose(s, j)
    <3>1. i \in 1 .. m /\ Whose(u, i) = Whose(s, i)
      BY <1>3, <1>4, <1>7, <2>2
    <3> QED
      BY <1>3, <1>7, <2>2, <3>1 DEF Orderly
  <2> QED
    BY <1>4, <2>1, <2>2
<1>8. ASSUME NEW i \in 1 .. Len(u), NEW j \in 1 .. Len(u), NEW k \in 1 .. Len(u),
             i < j, j < k, Whose(u, i) = Whose(u, k), Whose(u, j) # Whose(u, i),
             SameDrv(Whose(u, j), Whose(u, i))
      PROVE  FALSE
  <2>1. CASE k > m /\ Whose(u, k) = p
    BY <1>1, <1>7, <1>8, <2>1 DEF SameDrv
  <2>2. CASE k \in 1 .. m /\ Whose(u, k) = Whose(s, k)
    <3>1. /\ i \in 1 .. m /\ Whose(u, i) = Whose(s, i)
          /\ j \in 1 .. m /\ Whose(u, j) = Whose(s, j)
      BY <1>3, <1>4, <1>8, <2>2
    <3> QED
      BY <1>3, <1>8, <2>2, <3>1 DEF Orderly
  <2> QED
    BY <1>4, <2>1, <2>2
<1>9. Orderly(u)
  BY <1>5, <1>7, <1>8 DEF Orderly
<1> QED
  BY <1>2, <1>9

OrderInv == Orderly(accepted) /\ Orderly(delivered)

LEMMA OrderNext ==
  ASSUME StreamBase, OrderInv, StepKinds
  PROVE  OrderInv'
<1>0. TurnStays /\ DataInv /\ PbShape /\ accepted \in Seq(Bytes) /\ delivered \in Seq(Bytes)
  BY TurnStaysNext DEF StreamBase, DataInv, ReadSide, WriteSide, Inv, CallInv
<1>a. ASSUME NEW s, s = accepted', NEW t, t = delivered', Orderly(s), Orderly(t)
      PROVE  OrderInv'
  <2>1. Orderly(s)' /\ Orderly(t)'
    BY <1>0, <1>a, OrderlyStays
  <2> QED
    BY <1>a, <2>1 DEF OrderInv, Orderly, Whose
<1>b. ASSUME FlowKept
      PROVE  OrderInv'
  BY <1>a, <1>b DEF FlowKept, OrderInv
<1>1. CASE Silent \/ (\E p \in Pbs, c \in Calls \cup IrqCalls, n \in Sizes : Issues(p, c, n))
           \/ \E p \in Pbs, r \in Int : Completes(p, r)
  BY <1>1, <1>b DEF Silent, Issues, Completes
<1>2. CASE DeviceSteps
  <2>1. accepted' = accepted /\ delivered' = delivered
    BY <1>2 DEF DeviceSteps, VblFlush, VblPoll, WriteDone, WriteFails, ReadDone, ReadFails,
      OpenConnResult, OpenReadReq, OpenReadAct, OpenWrite, flowVars
  <2> QED
    BY <1>a, <2>1 DEF OrderInv
<1>3. ASSUME NEW p \in Pbs, Moves(p)
      PROVE  OrderInv'
  <2>1. Mine(p) /\ AtHead(p)
    BY <1>3, WorkedOn DEF StreamBase
  <2>2. ASSUME NEW n \in Int, MovesIn(p, n)
        PROVE  OrderInv'
    <3>1. PICK s : s = SubSeq(readPayload, readStorage.ioActCount + 1,
                                           readStorage.ioActCount + n)
      OBVIOUS
    <3>2. s \in Seq(Nat)
      BY <1>0, <2>2, <3>1, InBounds
    <3>3. PICK t : t = Tagged(p, s)
      OBVIOUS
    <3>4. t \in Seq(Bytes) /\ \A i \in 1 .. Len(t) : Whose(t, i) = p
      BY <3>2, <3>3, TaggedLaw DEF Whose
    <3>5. delivered' = delivered \o t /\ accepted' = accepted
      BY <2>2, <3>1, <3>3 DEF MovesIn
    <3>6. Orderly(delivered \o t)
      BY <1>0, <2>1, <3>4, OrderlyGrows DEF OrderInv
    <3> QED
      BY <1>a, <3>5, <3>6 DEF OrderInv
  <2>3. ASSUME NEW n \in Int, MovesOut(p, n)
        PROVE  OrderInv'
    <3>1. PICK t : t = BytesOf(p, pb[p].ioActCount, n)
      OBVIOUS
    <3>2. t \in Seq(Bytes) /\ Len(t) = n /\ n \in Nat
      BY <1>0, <2>3, <3>1, OutBounds
    <3>3. \A i \in 1 .. Len(t) : Whose(t, i) = p
      BY <3>1, <3>2 DEF Whose, BytesOf
    <3>5. accepted' = accepted \o t /\ delivered' = delivered
      BY <2>3, <3>1 DEF MovesOut, ReadKept
    <3>6. Orderly(accepted \o t)
      BY <1>0, <2>1, <3>2, <3>3, OrderlyGrows DEF OrderInv
    <3> QED
      BY <1>a, <3>5, <3>6 DEF OrderInv
  <2> QED
    BY <1>0, <1>1, <1>3, <2>2, <2>3, MoveKinds
<1> QED
  BY <1>1, <1>2, <1>3 DEF StepKinds

LEMMA OrderSafe == Spec => [](StreamBase /\ OrderInv)
<1>1. Init => OrderInv
  BY DEF Init, OrderInv, Orderly
<1>2. (StreamBase /\ OrderInv) /\ [Next]_vars => (StreamBase /\ OrderInv)'
  BY StreamBaseNext, StreamBaseKinds, OrderNext
<1> QED
  BY <1>1, <1>2, StreamBaseInit, PTL DEF Spec

\* Of two calls to one port, all bytes of one come before all of the other's, in
\* both directions (doPrime, wakeDriversAndReleaseMutex).  Bytes of different
\* ports share the staging buffers and may alternate.
THEOREM CallsUnmixed ==
  ASSUME LateOpen = FALSE
  PROVE  Spec => []TransfersUnmixed
<1>1. ASSUME NEW s \in Seq(Bytes), Orderly(s)
      PROVE  Port!Unmixed(s)
  <2>1. DOMAIN s = 1 .. Len(s)
    BY LenProperties
  <2>2. \A p \in Pbs : CallView[p].drv = pb[p].drv
    BY DEF CallView
  <2>3. \A i \in 1 .. Len(s) : s[i][1] \in Pbs
    BY <1>1 DEF Orderly, Whose
  <2>4. ASSUME NEW i \in 1 .. Len(s), NEW j \in 1 .. Len(s), NEW k \in 1 .. Len(s),
               i < j, j < k, s[i][1] = s[k][1], s[j][1] # s[i][1]
        PROVE  CallView[s[j][1]].drv # CallView[s[i][1]].drv
    BY <1>1, <2>2, <2>3, <2>4 DEF Orderly, Whose, SameDrv
  <2> QED
    BY <2>1, <2>4 DEF Port!Unmixed, CallView
<1>2. StreamBase /\ Streams /\ OrderInv => TransfersUnmixed
  <2> SUFFICES ASSUME StreamBase, Streams, OrderInv
               PROVE  TransfersUnmixed
    OBVIOUS
  <2>1. Port!Unmixed(delivered) /\ Port!Unmixed(accepted)
    BY <1>1 DEF OrderInv, StreamBase, DataInv, ReadSide, WriteSide
  <2>2. connResult < 0 \/ sent \o Staged = accepted
    BY DEF Streams, WriteStream
  <2> QED
    BY <2>1, <2>2 DEF TransfersUnmixed, Port!TransfersUnmixed
<1> QED
  BY <1>2, StreamsSafe, OrderSafe, PTL

-----------------------------------------------------------------------------
\* The device gets no byte twice, even when ports are opened in traffic.

\* The bytes of s are of writes that were made, each below its write's count,
\* and each writer's rise.
Owned(b) == /\ b[1] \in Pbs /\ Issued(b[1]) /\ pb[b[1]].trap = "aWrCmd"
            /\ b[2] =< pb[b[1]].ioActCount
Rising(s) ==
    /\ \A i \in 1 .. Len(s) : Owned(s[i])
    /\ \A i, j \in 1 .. Len(s) : i < j /\ s[i][1] = s[j][1] => s[i][2] < s[j][2]

\* What the next completed write appends: doOpen may have emptied the buffer,
\* but the write that is under way carries what it held.
Pending == IF io = "write" THEN SubSeq(writePayload, 1, writeLength) ELSE Staged

OnceInv == Rising(sent \o Pending)

LEMMA PendingIs ==
  ASSUME DataInv
  PROVE  Pending \in Seq(Bytes) /\ sent \in Seq(Bytes)
<1>1. sent \in Seq(Bytes) /\ writePayload \in Seq(Bytes) /\ Len(writePayload) \in Nat
      /\ writeLength \in Nat /\ writeLength =< Len(writePayload)
  BY LenProperties DEF DataInv, WriteSide
<1>2. SubSeq(writePayload, 1, writeLength) \in Seq(Bytes)
  BY <1>1, PartOf
<1>3. Staged \in Seq(Bytes)
  BY Buffers
<1> QED
  BY <1>1, <1>2, <1>3 DEF Pending

\* The counts of the writers only grow.
CountsGrow ==
    \A p \in Pbs : Issued(p) /\ pb[p].trap = "aWrCmd" =>
        /\ Issued(p)' /\ pb'[p].trap = "aWrCmd"
        /\ pb[p].ioActCount =< pb'[p].ioActCount

LEMMA RisingStays ==
  ASSUME CountsGrow, NEW s \in Seq(Bytes), Rising(s),
         \A p \in Pbs : pb[p].ioActCount \in Int /\ pb'[p].ioActCount \in Int
  PROVE  Rising(s)'
<1>1. \A i \in 1 .. Len(s) : s[i][2] \in Int
  BY ElementOfSeq DEF Bytes
<1>2. \A i \in 1 .. Len(s) : Owned(s[i])'
  BY <1>1 DEF Rising, CountsGrow, Owned
<1> QED
  BY <1>2 DEF Rising

\* A front part rises, too.
LEMMA RisingFront ==
  ASSUME NEW s \in Seq(Bytes), NEW t \in Seq(Bytes), Rising(s \o t)
  PROVE  Rising(s)
<1>1. PICK u : u = s \o t
  OBVIOUS
<1>2. /\ Len(u) = Len(s) + Len(t) /\ Len(s) \in Nat /\ Len(t) \in Nat
      /\ \A i \in 1 .. Len(s) : u[i] = s[i]
  BY <1>1, Joined
<1>3. \A i \in 1 .. Len(s) : i \in 1 .. Len(u) /\ u[i] = s[i]
  BY <1>2
<1>4. Rising(u)
  BY <1>1
<1> QED
  BY <1>3, <1>4 DEF Rising

\* Behind the bytes so far come the next ones of a writer.
LEMMA RisingGrows ==
  ASSUME NEW s \in Seq(Bytes), Rising(s), NEW p \in Pbs, Issued(p), pb[p].trap = "aWrCmd",
         NEW from \in Nat, from = pb[p].ioActCount, NEW n \in Nat, Counted1(p, n)
  PROVE  Rising(s \o BytesOf(p, from, n))'
<1>1. PICK t : t = BytesOf(p, from, n)
  OBVIOUS
<1>2. t \in Seq(Bytes) /\ Len(t) = n /\ \A i \in 1 .. Len(t) : t[i] = <<p, from + i>>
  BY <1>1, BytesOfLaw DEF BytesOf
<1>3. PICK u : u = s \o t
  OBVIOUS
<1>4. PICK m : m = Len(s) /\ m \in Nat
  BY LenProperties
<1>5. \A i \in 1 .. Len(u) :
        \/ i \in 1 .. m /\ u[i] = s[i]
        \/ i - m \in 1 .. n /\ u[i][1] = p /\ u[i][2] = from + (i - m)
  <2>1. \A i \in 1 .. Len(u) :
           \/ i \in 1 .. Len(s) /\ u[i] = s[i]
           \/ i - Len(s) \in 1 .. Len(t) /\ u[i] = t[i - Len(s)]
    BY <1>2, <1>3, Joined
  <2> QED
    BY <1>2, <1>4, <2>1
<1>6. Len(u) \in Nat
  BY <1>2, <1>3, Joined
<1>7. \A i \in 1 .. m : Owned(s[i]) /\ s[i][2] \in Nat /\ s[i][1] \in Pbs
  BY <1>4, ElementOfSeq DEF Rising, Bytes
<1>p. /\ Issued(p)' /\ pb'[p].trap = "aWrCmd" /\ pb'[p].ioActCount = from + n
      /\ \A q \in Pbs : q # p => SameCore(q)
  BY DEF Counted1, Issued
<1>8. ASSUME NEW i \in 1 .. Len(u)
      PROVE  Owned(u[i])'
  <2>1. CASE i \in 1 .. m /\ u[i] = s[i]
    <3>1. CASE s[i][1] = p
      BY <1>7, <1>p, <2>1, <3>1 DEF Owned
    <3>2. CASE s[i][1] # p
      BY <1>7, <1>p, <2>1, <3>2 DEF Owned, SameCore, Issued
    <3> QED
      BY <3>1, <3>2
  <2>2. CASE i - m \in 1 .. n /\ u[i][1] = p /\ u[i][2] = from + (i - m)
    BY <1>4, <1>6, <1>p, <2>2 DEF Owned
  <2> QED
    BY <1>5, <2>1, <2>2
<1>9. ASSUME NEW i \in 1 .. Len(u), NEW j \in 1 .. Len(u), i < j, u[i][1] = u[j][1]
      PROVE  u[i][2] < u[j][2]
  <2>1. CASE j \in 1 .. m /\ u[j] = s[j]
    <3>1. i \in 1 .. m /\ u[i] = s[i]
      BY <1>4, <1>5, <1>6, <1>9, <2>1
    <3> QED
      BY <1>4, <1>9, <2>1, <3>1 DEF Rising
  <2>2. CASE j - m \in 1 .. n /\ u[j][1] = p /\ u[j][2] = from + (j - m)
    <3>1. CASE i \in 1 .. m /\ u[i] = s[i]
      <4>1. s[i][2] =< from /\ s[i][2] \in Nat
        BY <1>7, <1>9, <2>2, <3>1 DEF Owned
      <4> QED
        BY <1>4, <1>6, <2>2, <3>1, <4>1
    <3>2. CASE i - m \in 1 .. n /\ u[i][2] = from + (i - m)
      BY <1>4, <1>6, <1>9, <2>2, <3>2
    <3> QED
      BY <1>5, <3>1, <3>2
  <2> QED
    BY <1>5, <2>1, <2>2
<1>10. Rising(u)'
  BY <1>8, <1>9 DEF Rising
<1> QED
  BY <1>1, <1>3, <1>10

-----------------------------------------------------------------------------
\* What a transfer out does to the staging buffer, whatever went before.
LEMMA StagedGrows ==
  ASSUME PbShape, DataInv, NEW p \in Pbs, NEW n \in Int, MovesOut(p, n)
  PROVE  Staged' = Staged \o BytesOf(p, pb[p].ioActCount, n)
<1>1. PICK d : d = BytesOf(p, pb[p].ioActCount, n)
  OBVIOUS
<1>2. /\ d \in Seq(Bytes) /\ Len(d) = n /\ n \in Nat
      /\ writeStorage'.ioActCount = writeStorage.ioActCount + n
  BY <1>1, OutBounds
<1>3. writePayload' = Overlay(writePayload, writeStorage.ioActCount, d)
  BY <1>1 DEF MovesOut
<1>4. PICK a : a = writeStorage.ioActCount
  OBVIOUS
<1>5. a \in Nat /\ writePayload \in Seq(Bytes) /\ a =< Len(writePayload)
  BY <1>4 DEF DataInv, WriteSide
<1>6. SubSeq(Overlay(writePayload, a, d), 1, a + Len(d)) = SubSeq(writePayload, 1, a) \o d
  BY <1>2, <1>5, OverlayLaw
<1>7. Staged' = SubSeq(Overlay(writePayload, a, d), 1, a + n)
  BY <1>2, <1>3, <1>4, Zenon DEF Staged
<1>8. Staged = SubSeq(writePayload, 1, a)
  BY <1>4, Zenon DEF Staged
<1> QED
  BY <1>1, <1>2, <1>6, <1>7, <1>8, Zenon

\* No step takes a writer's count back.
LEMMA CountsGrowNext ==
  ASSUME StreamBase, StepKinds
  PROVE  CountsGrow
<1>0. Inv /\ PbShape /\ DataInv
  BY DEF StreamBase, Inv, CallInv
<1> SUFFICES ASSUME NEW q \in Pbs, Issued(q), pb[q].trap = "aWrCmd"
             PROVE  /\ Issued(q)' /\ pb'[q].trap = "aWrCmd"
                    /\ pb[q].ioActCount =< pb'[q].ioActCount
  BY DEF CountsGrow
<1>1. /\ pb'[q].drv = pb[q].drv /\ pb'[q].trap = pb[q].trap
      /\ ~Moves(q) => pb'[q].ioActCount = pb[q].ioActCount
      /\ pb[q].ioActCount \in Int
  BY <1>0, CallKept DEF DataInv, PbCore
<1>2. CASE Moves(q)
  <2>1. CASE Silent
    BY <1>1, <2>1 DEF Silent, CoreKept, SameCore, Issued
  <2>2. ASSUME NEW n \in Int, MovesIn(q, n) \/ MovesOut(q, n)
        PROVE  pb[q].ioActCount =< pb'[q].ioActCount
    <3>1. MovesOut(q, n)
      BY <2>2 DEF MovesIn
    <3>2. n \in Nat /\ pb'[q].ioActCount = pb[q].ioActCount + n
      BY <1>0, <3>1, OutBounds DEF MovesOut, Counted1
    <3> QED
      BY <1>1, <3>2
  <2> QED
    BY <1>0, <1>1, <1>2, <2>1, <2>2, MoveKinds DEF Issued
<1>3. CASE ~Moves(q)
  BY <1>1, <1>3 DEF Issued
<1> QED
  BY <1>2, <1>3

\* Most steps leave what waits alone.
LEMMA PendingKept ==
  ASSUME io' = "write" <=> io = "write",
         UNCHANGED <<writePayload, writeLength, writeStorage>>
  PROVE  Pending' = Pending
<1>1. Staged' = Staged
  BY DEF Staged
<1> QED
  BY <1>1 DEF Pending

LEMMA OnceKept ==
  ASSUME StreamBase, StreamBase', StepKinds, OnceInv, sent' \o Pending' = sent \o Pending
  PROVE  OnceInv'
<1>1. PICK s : s = sent \o Pending
  OBVIOUS
<1>2. s \in Seq(Bytes)
  BY <1>1, PendingIs, Joined DEF StreamBase
<1>3. \A p \in Pbs : pb[p].ioActCount \in Int /\ pb'[p].ioActCount \in Int
  BY DEF StreamBase, DataInv, PbCore
<1>4. Rising(s)'
  BY <1>1, <1>2, <1>3, CountsGrowNext, RisingStays DEF OnceInv
<1> QED
  BY <1>1, <1>4 DEF OnceInv

LEMMA OnceMovesOut ==
  ASSUME StreamBase, OnceInv, NEW p \in Pbs, Moves(p), NEW n \in Int, MovesOut(p, n)
  PROVE  OnceInv'
<1>0. Inv /\ PbShape /\ DataInv /\ io = "none" /\ DiskKept
  BY DEF StreamBase, Inv, CallInv, Moves
<1>1. PICK d : d = BytesOf(p, pb[p].ioActCount, n)
  OBVIOUS
<1>2. PICK s : s = sent \o Staged
  OBVIOUS
<1>3. Pending = Staged /\ Pending' = Staged' /\ sent' = sent
  BY <1>0 DEF Pending, DiskKept, MovesOut
<1>4. Rising(s) /\ sent \in Seq(Bytes) /\ Staged \in Seq(Bytes) /\ s \in Seq(Bytes)
  <2>1. Rising(s)
    BY <1>2, <1>3, Zenon DEF OnceInv
  <2>2. sent \in Seq(Bytes) /\ Staged \in Seq(Bytes)
    BY <1>0, Buffers DEF DataInv, WriteSide
  <2> QED
    BY <1>2, <2>1, <2>2, Joined
<1>5. n \in Nat /\ pb[p].ioActCount \in Nat /\ d \in Seq(Bytes)
  BY <1>0, <1>1, OutBounds
<1>6. Issued(p) /\ pb[p].trap = "aWrCmd" /\ Counted1(p, n)
  BY <1>0, WorkedOn, DriversAssumption DEF Mine, Issued, MovesOut
<1>7. Rising(s \o d)'
  BY <1>1, <1>4, <1>5, <1>6, RisingGrows
<1>8. Staged' = Staged \o d
  BY <1>0, <1>1, StagedGrows
<1>9. sent' \o Pending' = s \o d
  <2>1. PICK b : Joins(b, Staged, d)
    BY Zenon DEF Joins
  <2>2. PICK c : Joins(c, s, d)
    BY Zenon DEF Joins
  <2>3. Joins(s, sent, Staged)
    BY <1>2, Zenon DEF Joins
  <2>4. Joins(c, sent, b)
    BY <1>4, <1>5, <2>1, <2>2, <2>3, Assoc
  <2> QED
    BY <1>3, <1>8, <2>1, <2>2, <2>4, Zenon DEF Joins
<1> QED
  BY <1>1, <1>7, <1>9 DEF OnceInv

\* What the device does, and doOpen.
LEMMA OnceDevice ==
  ASSUME StreamBase, StreamBase', StepKinds, OnceInv, ~Faults, DeviceSteps
  PROVE  OnceInv'
<1>0. DataInv /\ MutexInv /\ sent \in Seq(Bytes) /\ Pending \in Seq(Bytes)
      /\ Staged \in Seq(Bytes)
  BY PendingIs, Buffers DEF StreamBase
<1>1. CASE VblFlush
  <2>1. io = "none"
    BY <1>0, <1>1 DEF VblFlush, MutexInv, MutexOwned, IoHolds
  <2>2. io' = "write" /\ writeLength' = writeStorage.ioActCount
        /\ writePayload' = writePayload /\ sent' = sent
    BY <1>1 DEF VblFlush
  <2>3. Pending' = SubSeq(writePayload, 1, writeStorage.ioActCount)
    BY <2>2, Zenon DEF Pending
  <2>4. Pending = Staged
    BY <2>1 DEF Pending
  <2>5. Pending' = Pending
    BY <2>3, <2>4, Zenon DEF Staged
  <2> QED
    BY <2>2, <2>5, OnceKept
<1>2. CASE VblPoll \/ ReadDone \/ ReadFails \/ OpenConnResult \/ OpenReadReq \/ OpenReadAct
  <2>1. /\ UNCHANGED <<writePayload, writeLength, writeStorage, sent>>
        /\ io' = "write" <=> io = "write"
    <3>1. UNCHANGED <<writePayload, writeLength, writeStorage, sent>>
      BY <1>2 DEF VblPoll, ReadDone, ReadFails, OpenConnResult, OpenReadReq, OpenReadAct,
        writeVars
    <3>2. CASE VblPoll
      BY <1>0, <3>2, <3>1 DEF VblPoll, MutexInv, MutexOwned, IoHolds
    <3>3. CASE ReadDone \/ ReadFails
      BY <3>3, <3>1 DEF ReadDone, ReadFails
    <3>4. CASE OpenConnResult \/ OpenReadReq \/ OpenReadAct
      BY <3>4, <3>1 DEF OpenConnResult, OpenReadReq, OpenReadAct, diskVars
    <3> QED
      BY <1>2, <3>2, <3>3, <3>4
  <2>2. Pending' = Pending
    BY <2>1, PendingKept
  <2> QED
    BY <2>1, <2>2, OnceKept
<1>3. CASE WriteDone
  <2>1. io = "write" /\ io' # "write"
        /\ sent' = sent \o SubSeq(writePayload, 1, writeLength)
    BY <1>3 DEF WriteDone
  <2>2. writeStorage'.ioActCount = 0
    BY <1>0, <1>3 DEF WriteDone, Emptied, DataInv, WriteSide
  <2>3. Pending' = <<>>
    BY <2>1, <2>2, SubSeqEmpty DEF Pending, Staged
  <2>4. sent' = sent \o Pending
    BY <2>1 DEF Pending
  <2>5. PICK s : s = sent \o Pending
    OBVIOUS
  <2>6. s \in Seq(Bytes)
    BY <1>0, <2>5, Joined
  <2>7. s \o <<>> = s
    BY <2>6, ConcatEmptySeq
  <2> QED
    BY <2>3, <2>4, <2>5, <2>7, OnceKept, Zenon
<1>4. CASE WriteFails
  BY <1>4 DEF WriteFails
<1>5. CASE OpenWrite
  <2>1. io' = io /\ sent' = sent /\ writePayload' = writePayload /\ writeLength' = writeLength
        /\ writeStorage'.ioActCount = 0
    BY <1>5 DEF OpenWrite, diskVars
  <2>2. CASE io = "write"
    <3>1. Pending' = Pending
      BY <2>1, <2>2 DEF Pending
    <3> QED
      BY <2>1, <3>1, OnceKept
  <2>3. CASE io # "write"
    <3>1. Pending' = <<>>
      BY <2>1, <2>3, SubSeqEmpty DEF Pending, Staged
    <3>2. sent' \o Pending' = sent
      <4>1. sent \o <<>> = sent
        BY <1>0, ConcatEmptySeq
      <4> QED
        BY <2>1, <3>1, <4>1, Zenon
    <3>3. Rising(sent)
      BY <1>0, RisingFront DEF OnceInv
    <3>4. Rising(sent)'
      <4>1. PICK s \in Seq(Bytes) : s = sent
        BY <1>0
      <4>2. \A p \in Pbs : pb[p].ioActCount \in Int /\ pb'[p].ioActCount \in Int
        BY DEF StreamBase, DataInv, PbCore
      <4>3. Rising(s)'
        BY <3>3, <4>1, <4>2, CountsGrowNext, RisingStays
      <4>4. s = sent'
        BY <2>1, <4>1
      <4> QED
        BY <4>3, <4>4
    <3> QED
      BY <2>1, <3>2, <3>4, Zenon DEF OnceInv
  <2> QED
    BY <2>2, <2>3
<1> QED
  BY <1>1, <1>2, <1>3, <1>4, <1>5 DEF DeviceSteps

LEMMA OnceNext ==
  ASSUME StreamBase, OnceInv, ~Faults, [Next]_vars
  PROVE  OnceInv'
<1>0. StepKinds /\ StreamBase' /\ DataInv /\ PbShape
  BY StreamBaseKinds, StreamBaseNext DEF StreamBase, Inv, CallInv
<1>1. CASE \/ Silent
           \/ \E p \in Pbs, c \in Calls \cup IrqCalls, n \in Sizes : Issues(p, c, n)
           \/ \E p \in Pbs, r \in Int : Completes(p, r)
           \/ \E p \in Pbs : Moves(p) /\ \E n \in Int : MovesIn(p, n)
  <2>1. UNCHANGED <<writePayload, writeLength, writeStorage, sent, io>>
    BY <1>1 DEF Silent, Issues, Completes, Moves, MovesIn, WriteKept, DiskKept
  <2>2. Pending' = Pending
    BY <2>1, PendingKept
  <2> QED
    BY <1>0, <2>1, <2>2, OnceKept
<1>2. ASSUME NEW p \in Pbs, Moves(p)
      PROVE  OnceInv'
  BY <1>0, <1>1, <1>2, MoveKinds, OnceMovesOut
<1>3. CASE DeviceSteps
  BY <1>0, <1>3, OnceDevice
<1> QED
  BY <1>0, <1>1, <1>2, <1>3 DEF StepKinds

LEMMA OnceInit == Init => OnceInv
<1> SUFFICES ASSUME Init
             PROVE  OnceInv
  OBVIOUS
<1>1. sent = <<>> /\ io = "none" /\ writeStorage.ioActCount = 0
  BY DEF Init
<1>2. Pending = <<>>
  BY <1>1, SubSeqEmpty DEF Pending, Staged
<1>3. sent \o Pending = <<>>
  BY <1>1, <1>2
<1>4. Rising(<<>>)
  BY DEF Rising
<1> QED
  BY <1>3, <1>4 DEF OnceInv

\* Opening a port in the middle of traffic may lose bytes, but sends none twice
\* or out of its writer's order; after an I/O error the VBL task repeats what
\* the device may have taken already, hence the assumption.
THEOREM NothingSentTwice ==
  ASSUME Faults = FALSE
  PROVE  Spec => []SentOnce
<1>1. Init => StreamBase /\ OnceInv
  BY StreamBaseInit, OnceInit
<1>2. (StreamBase /\ OnceInv) /\ [Next]_vars => (StreamBase /\ OnceInv)'
  BY StreamBaseNext, OnceNext
<1>3. StreamBase /\ OnceInv => SentOnce
  <2> SUFFICES ASSUME StreamBase, OnceInv
               PROVE  SentOnce
    OBVIOUS
  <2>1. sent \in Seq(Bytes) /\ Rising(sent)
    BY PendingIs, RisingFront DEF StreamBase, OnceInv
  <2>2. DOMAIN sent = 1 .. Len(sent)
    BY <2>1, LenProperties
  <2> QED
    BY <2>1, <2>2 DEF SentOnce, Rising
<1> QED
  BY <1>1, <1>2, <1>3, PTL DEF Spec

-----------------------------------------------------------------------------
\* Counting bytes in the histories.

LEMMA PlacesAre ==
  ASSUME NEW s \in Seq(Bytes), NEW F
  PROVE  /\ Places(F, s) = {i \in 1 .. Len(s) : s[i][1] \in F}
         /\ IsFiniteSet(Places(F, s)) /\ Cardinality(Places(F, s)) \in Nat
<1>1. DOMAIN s = 1 .. Len(s) /\ Len(s) \in Nat
  BY LenProperties
<1>2. Places(F, s) = {i \in 1 .. Len(s) : s[i][1] \in F}
  BY <1>1 DEF Places
<1>3. IsFiniteSet(1 .. Len(s))
  BY <1>1, FS_Interval
<1>4. Places(F, s) \in SUBSET (1 .. Len(s))
  BY <1>2
<1>5. IsFiniteSet(Places(F, s))
  BY <1>3, <1>4, FS_Subset
<1> QED
  BY <1>2, <1>5, FS_CardinalityType

\* Only p's own bytes come to the history.
Adds(u, s, t, p) ==
    /\ s \in Seq(Bytes) /\ t \in Seq(Bytes) /\ Joins(u, s, t)
    /\ \A k \in 1 .. Len(t) : t[k][1] = p

LEMMA PlacesGrow ==
  ASSUME NEW u, NEW s, NEW t, NEW p, Adds(u, s, t, p), NEW F
  PROVE  /\ u \in Seq(Bytes)
         /\ p \notin F => Places(F, u) = Places(F, s)
         /\ p \in F => /\ Places(F, u) = Places(F, s) \cup (Len(s) + 1 .. Len(s) + Len(t))
                       /\ Cardinality(Places(F, u)) = Cardinality(Places(F, s)) + Len(t)
<1>0. s \in Seq(Bytes) /\ t \in Seq(Bytes) /\ \A k \in 1 .. Len(t) : t[k][1] = p
  BY DEF Adds
<1>1. /\ u \in Seq(Bytes) /\ Len(u) = Len(s) + Len(t)
      /\ Len(s) \in Nat /\ Len(t) \in Nat
      /\ \A i \in 1 .. Len(u) : \/ i \in 1 .. Len(s) /\ u[i] = s[i]
                                \/ i - Len(s) \in 1 .. Len(t) /\ u[i] = t[i - Len(s)]
  BY <1>0, Joined DEF Adds, Joins
<1>m. PICK m \in Nat : m = Len(s)
  BY <1>1
<1>n. PICK n \in Nat : n = Len(t)
  BY <1>1
<1>2. \A i \in 1 .. m + n : /\ i \in 1 .. m => u[i] = s[i]
                            /\ i \notin 1 .. m => u[i][1] = p
  BY <1>0, <1>1, <1>m, <1>n
<1>3. /\ Places(F, u) = {i \in 1 .. m + n : u[i][1] \in F}
      /\ Places(F, s) = {i \in 1 .. m : s[i][1] \in F}
      /\ IsFiniteSet(Places(F, s)) /\ Cardinality(Places(F, s)) \in Nat
  BY <1>0, <1>1, <1>m, <1>n, PlacesAre
<1>4. ASSUME p \notin F
      PROVE  Places(F, u) = Places(F, s)
  BY <1>2, <1>3, <1>4
<1>5. ASSUME p \in F
      PROVE  /\ Places(F, u) = Places(F, s) \cup (m + 1 .. m + n)
             /\ Cardinality(Places(F, u)) = Cardinality(Places(F, s)) + n
  <2>1. Places(F, u) = Places(F, s) \cup (m + 1 .. m + n)
    BY <1>2, <1>3, <1>5
  <2>2. IsFiniteSet(m + 1 .. m + n) /\ Cardinality(m + 1 .. m + n) = n
    BY FS_Interval
  <2>3. Places(F, s) \cap (m + 1 .. m + n) = {}
    BY <1>3
  <2>4. Cardinality({}) = 0
    BY FS_EmptySet
  <2>a. PICK A : A = Places(F, s)
    OBVIOUS
  <2>b. PICK B : B = m + 1 .. m + n
    OBVIOUS
  <2>5. Cardinality(A \cup B) = Cardinality(A) + Cardinality(B) - Cardinality(A \cap B)
    BY <1>3, <2>2, <2>a, <2>b, FS_Union
  <2>6. Cardinality(A) \in Nat /\ Cardinality(B) = n /\ Cardinality(A \cap B) = 0
    BY <1>3, <2>2, <2>3, <2>4, <2>a, <2>b, Zenon
  <2>7. Cardinality(A \cup B) = Cardinality(A) + n
    BY <2>5, <2>6
  <2> QED
    BY <2>1, <2>7, <2>a, <2>b, Zenon
<1> QED
  BY <1>1, <1>m, <1>n, <1>4, <1>5

LEMMA PlacesSplit ==
  ASSUME NEW s \in Seq(Bytes), NEW F, NEW p
  PROVE  Cardinality(Places(F \cup {p}, s))
           = Cardinality(Places(F \ {p}, s)) + Cardinality(Places({p}, s))
<1>1. PICK A : A = Places(F \ {p}, s)
  OBVIOUS
<1>2. PICK B : B = Places({p}, s)
  OBVIOUS
<1>3. /\ A = {i \in 1 .. Len(s) : s[i][1] \in F \ {p}}
      /\ B = {i \in 1 .. Len(s) : s[i][1] = p}
      /\ Places(F \cup {p}, s) = {i \in 1 .. Len(s) : s[i][1] \in F \cup {p}}
      /\ IsFiniteSet(A) /\ Cardinality(A) \in Nat /\ IsFiniteSet(B) /\ Cardinality(B) \in Nat
  <2>1. {i \in 1 .. Len(s) : s[i][1] \in {p}} = {i \in 1 .. Len(s) : s[i][1] = p}
    OBVIOUS
  <2> QED
    BY <1>1, <1>2, <2>1, PlacesAre
<1>4. A \cup B = Places(F \cup {p}, s) /\ A \cap B = {}
  BY <1>3
<1>5. Cardinality(A \cup B) = Cardinality(A) + Cardinality(B) - Cardinality(A \cap B)
  BY <1>3, FS_Union
<1>6. Cardinality(A \cap B) = 0
  BY <1>4, FS_EmptySet
<1>7. Cardinality(A \cup B) = Cardinality(A) + Cardinality(B)
  BY <1>3, <1>5, <1>6
<1> QED
  BY <1>1, <1>2, <1>4, <1>7, Zenon

LEMMA PlacesSame ==
  ASSUME NEW s \in Seq(Bytes), NEW F, NEW G,
         \A i \in 1 .. Len(s) : s[i][1] \in F <=> s[i][1] \in G
  PROVE  Places(F, s) = Places(G, s)
<1>1. /\ Places(F, s) = {i \in 1 .. Len(s) : s[i][1] \in F}
      /\ Places(G, s) = {i \in 1 .. Len(s) : s[i][1] \in G}
  BY PlacesAre
<1> QED
  BY <1>1

-----------------------------------------------------------------------------
\* A transfer that is complete is only reported from then on.

\* The driver has finished p's transfer and is on its way to report it.
Over(p) ==
    \/ main.pc \in {"unlock", "result", "return"} /\ main.pb = p /\ main.err = noErr
    \/ irq.pc = "done" /\ irq.pb = p /\ irq.err = noErr

\* So no call is primed again that has all its bytes, unless it asked for none.
OverInv ==
    \A p \in Pbs : Rw(p) /\ outcome[p] = None /\ p \in Finished
                   => pb[p].ioReqCount = 0 \/ Over(p)

LEMMA OverStays ==
  ASSUME StreamBase, [Next]_vars, NEW p \in Pbs, Over(p), outcome'[p] = None
  PROVE  Over(p)'
<1> USE DEF vars, portVars, callVars, infoVars, readVars, writeVars, diskVars, syncVars,
            flowVars
<1>0. /\ MainShape /\ IrqShape /\ outcome \in [Pbs -> Codes \cup {None}]
      /\ None # noErr /\ noErr # ioInProgress /\ noErr =< 0
  BY NoneAssumption DEF StreamBase, Inv, CallInv, Reports, noErr, ioInProgress
<1>1. CASE main.pc \in {"unlock", "result", "return"} /\ main.pb = p /\ main.err = noErr
  <2>1. CASE MainStep
    <3>1. \/ PrimeReleases \/ PrimeResult \/ IOReturn
      BY <1>1, <2>1 DEF MainStep, MainOpen, MainIssues, MainCall, Install, Connect, Open,
        Close, OpenConnResult, OpenReadReq, OpenReadAct, OpenWrite, OpenStartVBL, MainIssue,
        DoControl, StatusReq, StatusAct, StatusExtra, PrimeTakes, PrimeMisses, PrimeTransfer,
        PrimeFindsSlot, PrimeClaimsSlot, PrimeParks, PrimeSchedules, MainAt
    <3>2. CASE PrimeReleases
      BY <1>0, <1>1, <3>2 DEF PrimeReleases, Goto, MainShape, Over
    <3>3. CASE PrimeResult
      BY <1>0, <1>1, <3>3 DEF PrimeResult, Goto, MainShape, Over
    <3>4. CASE IOReturn
      <4>1. outcome' = [outcome EXCEPT ![p] = noErr]
        BY <1>0, <1>1, <3>4 DEF IOReturn, IODone
      <4> QED
        BY <1>0, <4>1
    <3> QED
      BY <3>1, <3>2, <3>3, <3>4
  <2>2. CASE main' = main
    BY <1>1, <2>2 DEF Over
  <2> QED
    BY <2>1, <2>2, Sides
<1>2. CASE irq.pc = "done" /\ irq.pb = p /\ irq.err = noErr
  <2>1. CASE IrqStep
    <3>1. IrqIODone \/ irq' = irq
      BY <1>2, <2>1 DEF IrqStep, VblTick, VblCountdown, VblMutexBusy, VblFlush, VblPoll,
        VblWakes, VblDue, DiskDone, WriteDone, WriteFails, ReadDone, ReadFails, IrqWork,
        WakeTakes, WakeSkips, WakeEnds, IrqPrimes, IrqMisses, IrqControls, IrqIssues,
        IrqIssue, Interrupted
    <3>2. CASE IrqIODone
      <4>1. outcome' = [outcome EXCEPT ![p] = noErr]
        BY <1>2, <3>2 DEF IrqIODone, IODone
      <4> QED
        BY <1>0, <4>1
    <3>3. CASE irq' = irq
      BY <1>2, <3>3 DEF Over
    <3> QED
      BY <3>1, <3>2, <3>3
  <2>2. CASE irq' = irq
    BY <1>2, <2>2 DEF Over
  <2> QED
    BY <1>2, <2>1, <2>2, Sides
<1> QED
  BY <1>1, <1>2 DEF Over

\* A transfer that moves the last byte remembers that.
LEMMA LastMove ==
  ASSUME StreamBase, NEW p \in Pbs, Moves(p), ConnOk,
         pb[p].ioActCount + CountFor(p) = pb[p].ioReqCount
  PROVE  Over(p)'
<1>1. PrimeErr(p) = noErr /\ noErr # ioInProgress
  BY DEF PrimeErr, noErr, ioInProgress
<1>2. MainShape /\ IrqShape
  BY DEF StreamBase, Inv, CallInv
<1>3. CASE main.pc = "xfer" /\ p = main.pb
           /\ main' = [main EXCEPT !.pc = "unlock", !.err = PrimeErr(p)]
  BY <1>1, <1>2, <1>3 DEF MainShape, Over
<1>4. CASE irq.pc = "prime" /\ p = irq.pb
           /\ irq' = [irq EXCEPT !.pc = "done", !.err = PrimeErr(p)]
  BY <1>1, <1>2, <1>4 DEF IrqShape, Over
<1> QED
  BY <1>1, <1>3, <1>4 DEF Moves

LEMMA OverNext ==
  ASSUME StreamBase, OverInv, [Next]_vars
  PROVE  OverInv'
<1>0. StepKinds /\ Inv /\ PbShape /\ DataInv /\ Reports
  BY StreamBaseKinds DEF StreamBase, Inv, CallInv
<1> SUFFICES ASSUME NEW p \in Pbs, Rw(p)', outcome'[p] = None, (p \in Finished)',
                    pb'[p].ioReqCount # 0
             PROVE  Over(p)'
  BY DEF OverInv
<1>1. pb'[p].ioActCount = pb'[p].ioReqCount
  BY DEF Finished
<1>2. ASSUME SameCore(p), outcome[p] = None
      PROVE  Over(p)'
  <2>1. Rw(p) /\ p \in Finished /\ pb[p].ioReqCount # 0
    BY <1>1, <1>2 DEF SameCore, Rw, Finished
  <2>2. Over(p)
    BY <1>2, <2>1 DEF OverInv
  <2> QED
    BY <2>2, OverStays
<1>3. CASE Silent
  BY <1>2, <1>3 DEF Silent, CallsKept, CoreKept
<1>4. ASSUME NEW q \in Pbs, NEW c \in Calls \cup IrqCalls, NEW n \in Sizes, Issues(q, c, n)
      PROVE  Over(p)'
  <2>1. outcome' = outcome
    BY <1>4 DEF Issues
  <2>2. /\ pb'[q].ioReqCount = n /\ pb'[q].ioActCount = 0
        /\ q # p => pb'[p] = pb[p]
    BY <1>0, <1>4, CoreIssued DEF Issues
  <2>3. q # p
    BY <1>1, <2>2
  <2> QED
    BY <1>2, <2>1, <2>2, <2>3 DEF SameCore
<1>5. ASSUME NEW q \in Pbs, NEW r \in Int, Completes(q, r)
      PROVE  Over(p)'
  <2>1. CoreKept
    BY <1>0, <1>5, CoreSame DEF Completes, IODone
  <2>2. outcome[q] = None
    BY <1>0, <1>5, WorkedOn, HeadOpen
  <2>3. outcome[p] = None
    <3>1. outcome' = [outcome EXCEPT ![q] = r] /\ outcome \in [Pbs -> Codes \cup {None}]
      BY <1>0, <1>5 DEF Completes, IODone, Reports
    <3> QED
      BY <2>2, <3>1
  <2> QED
    BY <1>2, <2>1, <2>3 DEF CoreKept
<1>6. ASSUME NEW q \in Pbs, Moves(q)
      PROVE  Over(p)'
  <2>1. outcome' = outcome
    BY <1>6 DEF Moves, CallsKept
  <2>2. ASSUME NEW n \in Int, MovesIn(q, n) \/ MovesOut(q, n)
        PROVE  Over(p)'
    <3>1. CASE q # p
      BY <1>2, <2>1, <2>2, <3>1 DEF MovesIn, MovesOut, Counted1
    <3>2. CASE q = p
      <4>1. ConnOk /\ n = CountFor(p)
        BY <2>2, <3>2 DEF MovesIn, MovesOut, CountFor
      <4>2. pb'[p].ioActCount = pb[p].ioActCount + n /\ pb'[p].ioReqCount = pb[p].ioReqCount
        BY <2>2, <3>2 DEF MovesIn, MovesOut, Counted1
      <4> QED
        BY <1>1, <1>6, <3>2, <4>1, <4>2, LastMove
    <3> QED
      BY <3>1, <3>2
  <2> QED
    BY <1>0, <1>3, <1>6, <2>2, MoveKinds
<1>7. CASE DeviceSteps
  <2>1. pb' = pb /\ outcome' = outcome
    BY <1>7, DeviceCalls DEF CallsKept
  <2> QED
    BY <1>2, <2>1 DEF SameCore
<1> QED
  BY <1>0, <1>3, <1>4, <1>5, <1>6, <1>7 DEF StepKinds

-----------------------------------------------------------------------------
\* A history agrees with the counts of the calls.

\* s has the bytes of calls of trap t only, as many of each as its count says;
\* and total is how many of them are of finished calls.
Tally(s, t, total) ==
    /\ s \in Seq(Bytes)
    /\ \A i \in 1 .. Len(s) : s[i][1] \in Pbs /\ Issued(s[i][1]) /\ pb[s[i][1]].trap = t
    /\ \A p \in Pbs : pb[p].trap = t => Cardinality(Places({p}, s)) = pb[p].ioActCount
    /\ total = Cardinality(Places(Finished, s))

\* No call of trap t moves, but new ones may come.
Still(t) ==
    \A q \in Pbs : \/ SameCore(q)
                   \/ ~Issued(q) /\ pb'[q].ioActCount = 0
                   \/ pb[q].trap # t /\ pb'[q].trap # t

LEMMA TallyStill ==
  ASSUME NEW s, NEW t, NEW k, Tally(s, t, k), Still(t)
  PROVE  Tally(s, t, k)'
<1> USE DEF Tally
<1>0. s \in Seq(Bytes)
  OBVIOUS
<1>1. \A i \in 1 .. Len(s) : s[i][1] \in Pbs /\ SameCore(s[i][1])
  BY DEF Still
<1>2. \A i \in 1 .. Len(s) : s[i][1] \in Pbs /\ Issued(s[i][1])' /\ pb'[s[i][1]].trap = t
  BY <1>1 DEF SameCore, Issued
<1>3. ASSUME NEW p \in Pbs, pb'[p].trap = t
      PROVE  Cardinality(Places({p}, s)) = pb'[p].ioActCount
  <2>1. CASE SameCore(p)
    BY <1>3, <2>1 DEF SameCore
  <2>2. CASE ~Issued(p) /\ pb'[p].ioActCount = 0
    <3>1. \A i \in 1 .. Len(s) : s[i][1] # p
      BY <2>2
    <3>2. Places({p}, s) = {i \in 1 .. Len(s) : s[i][1] \in {p}}
      BY <1>0, PlacesAre
    <3>3. Places({p}, s) = {}
      BY <3>1, <3>2
    <3> QED
      BY <2>2, <3>3, FS_EmptySet
  <2> QED
    BY <1>3, <2>1, <2>2 DEF Still
<1>4. PICK F : F = Finished
  OBVIOUS
<1>5. PICK G : G = Finished'
  OBVIOUS
<1>6. \A i \in 1 .. Len(s) : s[i][1] \in F <=> s[i][1] \in G
  BY <1>1, <1>4, <1>5 DEF Finished, SameCore
<1>7. Places(F, s) = Places(G, s)
  BY <1>0, <1>6, PlacesSame
<1>8. k = Cardinality(Places(G, s))
  BY <1>4, <1>7, Zenon
<1> QED
  BY <1>0, <1>2, <1>3, <1>5, <1>8

\* The n bytes d of p come behind s, which makes it u; the sum k of the
\* finished calls becomes j.
Grows(u, s, d, p, n, t, k, j) ==
    /\ p \in Pbs /\ n \in Nat /\ Len(d) = n
    /\ Adds(u, s, d, p) /\ Tally(s, t, k) /\ Counted1(p, n)
    /\ Issued(p) /\ pb[p].trap = t
    /\ pb[p].ioActCount \in Int /\ pb[p].ioReqCount \in Nat
    /\ p \in Finished => pb[p].ioReqCount = 0 /\ n = 0
    /\ j = IF pb[p].ioActCount + n = pb[p].ioReqCount THEN k + pb[p].ioReqCount ELSE k

LEMMA TallyGrows ==
  ASSUME NEW u, NEW s, NEW d, NEW p, NEW n, NEW t, NEW k, NEW j,
         Grows(u, s, d, p, n, t, k, j)
  PROVE  Tally(u, t, j)'
<1>a. /\ p \in Pbs /\ n \in Nat /\ Len(d) = n
      /\ Adds(u, s, d, p) /\ Tally(s, t, k) /\ Counted1(p, n)
      /\ Issued(p) /\ pb[p].trap = t
      /\ pb[p].ioActCount \in Int /\ pb[p].ioReqCount \in Nat
      /\ p \in Finished => pb[p].ioReqCount = 0 /\ n = 0
      /\ j = IF pb[p].ioActCount + n = pb[p].ioReqCount THEN k + pb[p].ioReqCount ELSE k
  BY DEF Grows
<1>0. /\ s \in Seq(Bytes) /\ d \in Seq(Bytes) /\ \A i \in 1 .. Len(d) : d[i][1] = p
      /\ \A i \in 1 .. Len(s) : s[i][1] \in Pbs /\ Issued(s[i][1]) /\ pb[s[i][1]].trap = t
      /\ \A q \in Pbs : pb[q].trap = t => Cardinality(Places({q}, s)) = pb[q].ioActCount
      /\ k = Cardinality(Places(Finished, s)) /\ k \in Nat
  BY <1>a, PlacesAre DEF Tally, Adds
<1>1. /\ pb'[p].drv = pb[p].drv /\ pb'[p].trap = t /\ pb'[p].ioReqCount = pb[p].ioReqCount
      /\ pb'[p].ioActCount = pb[p].ioActCount + n
      /\ \A q \in Pbs : q # p => SameCore(q)
  BY <1>a DEF Counted1
<1>2. /\ u \in Seq(Bytes)
      /\ \A F : p \notin F => Cardinality(Places(F, u)) = Cardinality(Places(F, s))
      /\ \A F : p \in F => Cardinality(Places(F, u)) = Cardinality(Places(F, s)) + n
  BY <1>a, PlacesGrow
<1>3. ASSUME NEW i \in 1 .. Len(u)
      PROVE  u[i][1] \in Pbs /\ Issued(u[i][1])' /\ pb'[u[i][1]].trap = t
  <2>1. \/ i \in 1 .. Len(s) /\ u[i] = s[i]
        \/ i - Len(s) \in 1 .. Len(d) /\ u[i] = d[i - Len(s)]
    BY <1>0, <1>a, Joined DEF Adds, Joins
  <2>2. CASE u[i][1] = p
    BY <1>1, <1>a, <2>2 DEF Issued
  <2>3. CASE i \in 1 .. Len(s) /\ u[i] = s[i] /\ u[i][1] # p
    BY <1>0, <1>1, <2>3 DEF SameCore, Issued
  <2> QED
    BY <1>0, <2>1, <2>2, <2>3
<1>4. ASSUME NEW q \in Pbs, pb'[q].trap = t
      PROVE  Cardinality(Places({q}, u)) = pb'[q].ioActCount
  <2>1. CASE q = p
    <3>1. p \in {p} /\ Cardinality(Places({p}, s)) = pb[p].ioActCount
      BY <1>0, <1>a
    <3>2. Cardinality(Places({p}, u)) = Cardinality(Places({p}, s)) + n
      BY <1>2, <3>1
    <3> QED
      BY <1>1, <2>1, <3>1, <3>2
  <2>2. CASE q # p
    <3>1. Cardinality(Places({q}, u)) = Cardinality(Places({q}, s))
      BY <1>2, <2>2
    <3>2. pb'[q].trap = pb[q].trap /\ pb'[q].ioActCount = pb[q].ioActCount
      BY <1>1, <2>2 DEF SameCore
    <3> QED
      BY <1>0, <1>4, <3>1, <3>2
  <2> QED
    BY <2>1, <2>2
<1>5. PICK F : F = Finished
  OBVIOUS
<1>6. PICK G : G = Finished'
  OBVIOUS
<1>7. \A q \in Pbs : q # p => (q \in F <=> q \in G)
  BY <1>1, <1>5, <1>6 DEF Finished, SameCore
<1>8. F \subseteq Pbs /\ G \subseteq Pbs
      /\ (p \in G <=> pb[p].ioActCount + n = pb[p].ioReqCount)
      /\ (p \in F <=> pb[p].ioActCount = pb[p].ioReqCount)
  BY <1>1, <1>5, <1>6, <1>a DEF Finished
<1>9. PICK H : H = F \ {p}
  OBVIOUS
<1>10. PICK m \in Nat : m = Cardinality(Places(H, s))
  BY <1>0, PlacesAre
<1>11. k = m
  <2>1. CASE p \in F
    <3>1. F \cup {p} = F
      BY <2>1
    <3>2. k = m + Cardinality(Places({p}, s))
      BY <1>0, <1>5, <1>9, <1>10, <3>1, PlacesSplit
    <3>3. Cardinality(Places({p}, s)) = 0
      BY <1>0, <1>5, <1>8, <1>a, <2>1
    <3> QED
      BY <1>10, <3>2, <3>3
  <2>2. CASE p \notin F
    BY <1>0, <1>5, <1>9, <1>10, <2>2
  <2> QED
    BY <2>1, <2>2
<1>12. Cardinality(Places(H, u)) = m
  BY <1>2, <1>9, <1>10
<1>13. j = Cardinality(Places(G, u))
  <2>1. CASE p \in G
    <3>1. H \cup {p} = G /\ H \ {p} = H
      BY <1>7, <1>8, <1>9, <2>1
    <3>2. Cardinality(Places(G, u)) = m + Cardinality(Places({p}, u))
      <4>1. Cardinality(Places(H \cup {p}, u))
              = Cardinality(Places(H \ {p}, u)) + Cardinality(Places({p}, u))
        BY <1>2, PlacesSplit
      <4> QED
        BY <1>12, <3>1, <4>1
    <3>3. Cardinality(Places({p}, u)) = pb[p].ioReqCount
      BY <1>1, <1>4, <1>8, <1>a, <2>1
    <3> QED
      BY <1>8, <1>11, <1>a, <2>1, <3>2, <3>3
  <2>2. CASE p \notin G
    <3>1. p \notin F
      BY <1>8, <1>a, <1>5, <2>2
    <3>2. G = H
      BY <1>7, <1>8, <1>9, <2>2
    <3> QED
      BY <1>8, <1>11, <1>12, <1>a, <2>2, <3>2
  <2> QED
    BY <2>1, <2>2
<1> QED
  BY <1>2, <1>3, <1>4, <1>6, <1>13 DEF Tally

-----------------------------------------------------------------------------
\* The histories agree with the counts.

\* The offsets at which p's bytes were taken.
Taken(p, s) == {s[i][2] : i \in Places({p}, s)}

AccountInv ==
    /\ Tally(accepted, "aWrCmd", bytes.bytesWritten)
    /\ Tally(delivered, "aRdCmd", bytes.bytesRead)
    /\ Rising(accepted)
    /\ \A p \in Pbs : pb[p].trap = "aWrCmd" => Taken(p, accepted) = 1 .. pb[p].ioActCount

\* d is p's next n bytes.
Run(d, p, from, n) ==
    /\ from \in Nat /\ n \in Nat /\ Len(d) = n
    /\ \A i \in 1 .. n : d[i] = <<p, from + i>>

\* p's offsets continue, the others' are as before.
Continues(u, s, p, from, n) ==
    /\ Taken(p, s) = 1 .. from => Taken(p, u) = 1 .. from + n
    /\ \A q : q # p => Taken(q, u) = Taken(q, s)

LEMMA TakenGrows ==
  ASSUME NEW u, NEW s, NEW d, NEW p, NEW from, NEW n, Adds(u, s, d, p), Run(d, p, from, n)
  PROVE  Continues(u, s, p, from, n)
<1>0. /\ s \in Seq(Bytes) /\ d \in Seq(Bytes)
      /\ from \in Nat /\ n \in Nat /\ Len(d) = n
      /\ \A i \in 1 .. n : d[i] = <<p, from + i>>
  BY DEF Adds, Run
<1>1. /\ u \in Seq(Bytes) /\ Len(u) = Len(s) + Len(d)
      /\ Len(s) \in Nat
      /\ \A i \in 1 .. Len(s) : u[i] = s[i]
      /\ \A i \in 1 .. Len(d) : u[Len(s) + i] = d[i]
  <2>1. /\ s \o d \in Seq(Bytes) /\ Len(s \o d) = Len(s) + Len(d)
        /\ Len(s) \in Nat
        /\ \A i \in 1 .. Len(s) : (s \o d)[i] = s[i]
        /\ \A i \in 1 .. Len(d) : (s \o d)[Len(s) + i] = d[i]
    <3>1. s \in Seq(Bytes) /\ d \in Seq(Bytes)
      BY <1>0
    <3> QED
      BY <3>1, Joined
  <2> QED
    BY <2>1, Zenon DEF Adds, Joins
<1>2. /\ \A q : q # p => Places({q}, u) = Places({q}, s)
      /\ Places({p}, u) = Places({p}, s) \cup (Len(s) + 1 .. Len(s) + Len(d))
  <2>1. /\ \A F : p \notin F => Places(F, u) = Places(F, s)
        /\ \A F : p \in F => Places(F, u) = Places(F, s) \cup (Len(s) + 1 .. Len(s) + Len(d))
    BY PlacesGrow
  <2> QED
    BY <2>1
<1>3. \A q : \A i \in Places({q}, s) : i \in 1 .. Len(s) /\ u[i] = s[i]
  BY <1>0, <1>1, PlacesAre
<1>4. ASSUME NEW q, q # p
      PROVE  Taken(q, u) = Taken(q, s)
  <2>1. Places({q}, u) = Places({q}, s)
    BY <1>2, <1>4
  <2>2. \A i \in Places({q}, s) : u[i] = s[i]
    BY <1>3
  <2> QED
    BY <2>1, <2>2 DEF Taken
<1>m. PICK m \in Nat : m = Len(s)
  BY <1>1
<1>5. \A i \in m + 1 .. m + n : u[i][2] = from + (i - m)
  <2> TAKE i \in m + 1 .. m + n
  <2>0. from \in Nat /\ n \in Nat
    BY <1>0
  <2>1. i - m \in 1 .. n /\ m + (i - m) = i
    BY <2>0
  <2>2. u[m + (i - m)] = d[i - m]
    BY <1>0, <1>1, <1>m, <2>1
  <2> QED
    BY <1>0, <2>1, <2>2
<1>6. ASSUME Taken(p, s) = 1 .. from
      PROVE  Taken(p, u) = 1 .. from + n
  <2>1. PICK P : P = Places({p}, s)
    OBVIOUS
  <2>2. Places({p}, u) = P \cup (m + 1 .. m + n)
    BY <1>0, <1>2, <1>m, <2>1
  <2>3. \A k : k \in Taken(p, u) <=> \/ \E i \in P : k = s[i][2]
                                     \/ \E i \in m + 1 .. m + n : k = u[i][2]
    BY <1>3, <2>1, <2>2 DEF Taken
  <2>4. \A k : (\E i \in P : k = s[i][2]) <=> k \in 1 .. from
    BY <1>6, <2>1 DEF Taken
  <2>5. \A k : (\E i \in m + 1 .. m + n : k = u[i][2]) <=> k \in from + 1 .. from + n
    <3> TAKE k
    <3>1. ASSUME NEW i \in m + 1 .. m + n, k = u[i][2]
          PROVE  k \in from + 1 .. from + n
      BY <1>0, <1>5, <3>1
    <3>2. ASSUME k \in from + 1 .. from + n
          PROVE  \E i \in m + 1 .. m + n : k = u[i][2]
      <4>1. PICK i : i = m + (k - from)
        OBVIOUS
      <4>2. i \in m + 1 .. m + n /\ from + (i - m) = k
        BY <1>0, <3>2, <4>1
      <4> QED
        BY <1>5, <4>2
    <3> QED
      BY <3>1, <3>2
  <2>6. \A k : k \in Taken(p, u) <=> k \in 1 .. from \/ k \in from + 1 .. from + n
    BY <2>3, <2>4, <2>5
  <2>7. 1 .. from + n = (1 .. from) \cup (from + 1 .. from + n)
    BY <1>0
  <2> QED
    BY <2>6, <2>7
<1> QED
  BY <1>4, <1>6 DEF Continues

\* Most steps move nothing.
LEMMA AccountKept ==
  ASSUME StreamBase, StreamBase', StepKinds, AccountInv, FlowKept,
         Still("aWrCmd"), Still("aRdCmd")
  PROVE  AccountInv'
<1>1. PICK s : s = accepted
  OBVIOUS
<1>2. PICK r : r = delivered
  OBVIOUS
<1>3. PICK b : b = bytes
  OBVIOUS
<1>4. s = accepted' /\ r = delivered' /\ b = bytes'
  BY <1>1, <1>2, <1>3 DEF FlowKept
<1>5. Tally(s, "aWrCmd", b.bytesWritten)' /\ Tally(r, "aRdCmd", b.bytesRead)'
  BY <1>1, <1>2, <1>3, TallyStill DEF AccountInv
<1>6. s \in Seq(Bytes) /\ Rising(s)
      /\ \A p \in Pbs : pb[p].trap = "aWrCmd" => Taken(p, s) = 1 .. pb[p].ioActCount
  BY <1>1 DEF AccountInv, Tally
<1>7. \A p \in Pbs : pb[p].ioActCount \in Int /\ pb'[p].ioActCount \in Int
  BY DEF StreamBase, DataInv, PbCore
<1>8. Rising(s)'
  BY <1>6, <1>7, CountsGrowNext, RisingStays
<1>9. ASSUME NEW p \in Pbs, pb'[p].trap = "aWrCmd"
      PROVE  Taken(p, s) = 1 .. pb'[p].ioActCount
  <2>1. CASE SameCore(p)
    BY <1>6, <1>9, <2>1 DEF SameCore
  <2>2. CASE ~Issued(p) /\ pb'[p].ioActCount = 0
    <3>1. \A i \in 1 .. Len(s) : s[i][1] # p
      BY <1>1, <2>2 DEF AccountInv, Tally
    <3>2. Places({p}, s) = {i \in 1 .. Len(s) : s[i][1] \in {p}}
      BY <1>6, PlacesAre
    <3>3. Taken(p, s) = {}
      BY <3>1, <3>2 DEF Taken
    <3> QED
      BY <2>2, <3>3
  <2> QED
    BY <1>9, <2>1, <2>2 DEF Still
<1> QED
  BY <1>4, <1>5, <1>8, <1>9 DEF AccountInv, Taken, Places

\* A call that is being moved and has all its bytes asked for none.
LEMMA NotOver ==
  ASSUME StreamBase, OverInv, NEW p \in Pbs, Moves(p), p \in Finished
  PROVE  pb[p].ioReqCount = 0
<1>1. Inv /\ Reports /\ Rw(p)
  BY DEF StreamBase, Moves
<1>2. outcome[p] = None
  BY <1>1, WorkedOn, HeadOpen
<1>3. ~Over(p)
  <2>1. CASE main.pc = "xfer" /\ irq.pc = "none"
    BY <2>1 DEF Over
  <2>2. CASE irq.pc = "prime" /\ p = irq.pb
    <3>1. p \notin InMain
      BY <1>1, <2>2 DEF Inv, CallInv, ParkedAreHeads, InIrq
    <3> QED
      BY <2>2, <3>1 DEF Over, InMain, noErr
  <2> QED
    BY <2>1, <2>2 DEF Moves
<1> QED
  BY <1>1, <1>2, <1>3 DEF OverInv

LEMMA AccountOut ==
  ASSUME StreamBase, StreamBase', StepKinds, Streams, OverInv, AccountInv,
         NEW p \in Pbs, Moves(p), NEW n \in Int, MovesOut(p, n)
  PROVE  AccountInv'
<1>0. Inv /\ PbShape /\ DataInv
  BY DEF StreamBase, Inv, CallInv
<1>1. PICK d : d = BytesOf(p, pb[p].ioActCount, n)
  OBVIOUS
<1>2. PICK from : from = pb[p].ioActCount
  OBVIOUS
<1>3. /\ n \in Nat /\ from \in Nat /\ pb[p].ioReqCount \in Nat /\ n =< pb[p].ioReqCount - from
      /\ d \in Seq(Bytes) /\ Len(d) = n
  BY <1>0, <1>1, <1>2, OutBounds DEF Left, DataInv, PbCore
<1>4. \A i \in 1 .. n : d[i] = <<p, from + i>>
  BY <1>1, <1>2 DEF BytesOf
<1>5. Issued(p) /\ pb[p].trap = "aWrCmd" /\ Counted1(p, n)
  BY <1>0, WorkedOn, DriversAssumption DEF Mine, Issued, MovesOut
<1>6. PICK s : s = accepted
  OBVIOUS
<1>7. PICK u : u = accepted'
  OBVIOUS
<1>8. PICK k : k = bytes.bytesWritten
  OBVIOUS
<1>9. PICK j : j = IF from + n = pb[p].ioReqCount THEN k + pb[p].ioReqCount ELSE k
  OBVIOUS
<1>10. Adds(u, s, d, p)
  <2>1. s \in Seq(Bytes)
    BY <1>0, <1>6 DEF DataInv, WriteSide
  <2>2. Joins(u, s, d)
    BY <1>1, <1>6, <1>7 DEF MovesOut, Joins
  <2>3. \A i \in 1 .. Len(d) : d[i][1] = p
    BY <1>3, <1>4
  <2> QED
    BY <1>3, <2>1, <2>2, <2>3 DEF Adds
<1>11. p \in Finished => pb[p].ioReqCount = 0 /\ n = 0
  <2>1. p \in Finished => from = pb[p].ioReqCount
    BY <1>2 DEF Finished
  <2> QED
    BY <1>3, <2>1, NotOver
<1>12. Tally(s, "aWrCmd", k)
  BY <1>6, <1>8 DEF AccountInv
<1>13. Grows(u, s, d, p, n, "aWrCmd", k, j)
  <2>1. j = IF pb[p].ioActCount + n = pb[p].ioReqCount THEN k + pb[p].ioReqCount ELSE k
    BY <1>2, <1>9
  <2>2. pb[p].ioActCount \in Int
    BY <1>2, <1>3
  <2> QED
    BY <1>3, <1>5, <1>10, <1>11, <1>12, <2>1, <2>2, Zenon DEF Grows
<1>14. Tally(u, "aWrCmd", j)'
  BY <1>13, TallyGrows, Zenon
<1>15. bytes'.bytesWritten = j /\ bytes'.bytesRead = bytes.bytesRead
  <2>1. bytes' = [bytes EXCEPT !.bytesWritten = @ + Counted(p)]
    BY DEF MovesOut
  <2>2. Counted(p) = IF from + n = pb[p].ioReqCount THEN pb[p].ioReqCount ELSE 0
    <3>1. ConnOk /\ n = CountFor(p)
      BY DEF MovesOut, CountFor
    <3> QED
      BY <1>2, <3>1 DEF Counted, PrimeErr, noErr, ioInProgress
  <2>3. bytes \in [bytesRead : Nat, bytesWritten : Nat]
    BY <1>0 DEF DataInv, Statistics
  <2> QED
    BY <1>3, <1>8, <1>9, <2>1, <2>2, <2>3
<1>16. PICK r : r = delivered
  OBVIOUS
<1>17. PICK b : b = bytes.bytesRead
  OBVIOUS
<1>18. Tally(r, "aRdCmd", b)'
  <2>1. Still("aRdCmd")
    BY <1>5 DEF Counted1, Still
  <2> QED
    BY <1>16, <1>17, <2>1, TallyStill DEF AccountInv
<1>19. Rising(u)'
  <2>1. Rising(s) /\ s \in Seq(Bytes)
    BY <1>6, <1>12 DEF AccountInv, Tally
  <2>2. Rising(s \o BytesOf(p, from, n))'
    BY <1>2, <1>3, <1>5, <2>1, RisingGrows
  <2>3. u = s \o BytesOf(p, from, n)
    BY <1>1, <1>2, <1>10, Zenon DEF Adds, Joins
  <2> QED
    BY <2>2, <2>3
<1>20. ASSUME NEW q \in Pbs, pb'[q].trap = "aWrCmd"
       PROVE  Taken(q, u) = 1 .. pb'[q].ioActCount
  <2>1. /\ Taken(p, s) = 1 .. from => Taken(p, u) = 1 .. from + n
        /\ q # p => Taken(q, u) = Taken(q, s)
    <3>1. Run(d, p, from, n)
      BY <1>3, <1>4 DEF Run
    <3>2. Continues(u, s, p, from, n)
      BY <1>10, <3>1, TakenGrows, Zenon
    <3> QED
      BY <3>2 DEF Continues
  <2>2. \A z \in Pbs : pb[z].trap = "aWrCmd" => Taken(z, s) = 1 .. pb[z].ioActCount
    BY <1>6 DEF AccountInv
  <2>3. CASE q = p
    BY <1>2, <1>5, <2>1, <2>2, <2>3 DEF Counted1
  <2>4. CASE q # p
    BY <1>5, <1>20, <2>1, <2>2, <2>4 DEF Counted1, SameCore
  <2> QED
    BY <2>3, <2>4
<1>21. delivered' = r /\ accepted' = u
  BY <1>7, <1>16 DEF MovesOut
<1> QED
  BY <1>14, <1>15, <1>17, <1>18, <1>19, <1>20, <1>21 DEF AccountInv, Taken, Places

-----------------------------------------------------------------------------
LEMMA AccountIn ==
  ASSUME StreamBase, StreamBase', StepKinds, Streams, OverInv, AccountInv,
         NEW p \in Pbs, Moves(p), NEW n \in Int, MovesIn(p, n)
  PROVE  AccountInv'
<1>0. Inv /\ PbShape /\ DataInv
  BY DEF StreamBase, Inv, CallInv
<1>1. PICK x : x = SubSeq(readPayload, readStorage.ioActCount + 1,
                                       readStorage.ioActCount + n)
  OBVIOUS
<1>2. PICK d : d = Tagged(p, x)
  OBVIOUS
<1>3. /\ n \in Nat /\ pb[p].ioReqCount \in Nat /\ pb[p].ioActCount \in Int
      /\ n =< pb[p].ioReqCount - pb[p].ioActCount
      /\ x \in Seq(Nat) /\ Len(x) = n
  <2>1. Sane(pb[p]) /\ ReadSane
    BY DEF Streams, OthersSane, MovesIn
  <2>2. n \in Nat /\ x \in Seq(Nat) /\ Len(x) = n /\ n =< Left(pb[p])
    BY <1>0, <1>1, <2>1, InBounds DEF ReadSane
  <2> QED
    BY <1>0, <2>2 DEF Left, DataInv, PbCore
<1>4. d \in Seq(Bytes) /\ Len(d) = n /\ \A i \in 1 .. Len(d) : d[i][1] = p
  <2>1. /\ Tagged(p, x) \in Seq(Bytes) /\ Len(Tagged(p, x)) = Len(x)
        /\ \A i \in 1 .. Len(x) : Tagged(p, x)[i] = <<p, x[i]>>
    BY <1>3, TaggedLaw
  <2> QED
    BY <1>2, <1>3, <2>1
<1>5. Issued(p) /\ pb[p].trap = "aRdCmd" /\ Counted1(p, n)
  BY <1>0, WorkedOn, DriversAssumption DEF Mine, Issued, MovesIn
<1>6. PICK s : s = delivered
  OBVIOUS
<1>7. PICK u : u = delivered'
  OBVIOUS
<1>8. PICK k : k = bytes.bytesRead
  OBVIOUS
<1>9. PICK j : j = IF pb[p].ioActCount + n = pb[p].ioReqCount THEN k + pb[p].ioReqCount ELSE k
  OBVIOUS
<1>10. Adds(u, s, d, p)
  <2>1. s \in Seq(Bytes)
    BY <1>0, <1>6 DEF DataInv, ReadSide
  <2>2. Joins(u, s, d)
    BY <1>1, <1>2, <1>6, <1>7 DEF MovesIn, Joins
  <2> QED
    BY <1>4, <2>1, <2>2 DEF Adds
<1>11. p \in Finished => pb[p].ioReqCount = 0 /\ n = 0
  <2>1. p \in Finished => pb[p].ioActCount = pb[p].ioReqCount
    BY DEF Finished
  <2> QED
    BY <1>3, <2>1, NotOver
<1>12. Tally(s, "aRdCmd", k)
  BY <1>6, <1>8 DEF AccountInv
<1>13. Grows(u, s, d, p, n, "aRdCmd", k, j)
  BY <1>3, <1>4, <1>5, <1>9, <1>10, <1>11, <1>12, Zenon DEF Grows
<1>14. Tally(u, "aRdCmd", j)'
  BY <1>13, TallyGrows, Zenon
<1>15. bytes'.bytesRead = j /\ bytes'.bytesWritten = bytes.bytesWritten
  <2>1. bytes' = [bytes EXCEPT !.bytesRead = @ + Counted(p)]
    BY DEF MovesIn
  <2>2. Counted(p) = IF pb[p].ioActCount + n = pb[p].ioReqCount THEN pb[p].ioReqCount ELSE 0
    <3>1. ConnOk /\ n = CountFor(p)
      BY DEF MovesIn, CountFor
    <3> QED
      BY <3>1 DEF Counted, PrimeErr, noErr, ioInProgress
  <2>3. bytes \in [bytesRead : Nat, bytesWritten : Nat]
    BY <1>0 DEF DataInv, Statistics
  <2> QED
    BY <1>3, <1>8, <1>9, <2>1, <2>2, <2>3
<1>16. PICK a : a = accepted
  OBVIOUS
<1>17. PICK b : b = bytes.bytesWritten
  OBVIOUS
<1>18. Tally(a, "aWrCmd", b)' /\ a \in Seq(Bytes)
  <2>1. Still("aWrCmd")
    BY <1>5 DEF Counted1, Still
  <2>2. Tally(a, "aWrCmd", b)
    BY <1>16, <1>17 DEF AccountInv
  <2>3. Tally(a, "aWrCmd", b)'
    BY <2>1, <2>2, TallyStill
  <2> QED
    BY <2>2, <2>3 DEF Tally
<1>19. Rising(a)'
  <2>1. \A q \in Pbs : pb[q].ioActCount \in Int /\ pb'[q].ioActCount \in Int
    BY DEF StreamBase, DataInv, PbCore
  <2> QED
    BY <1>16, <1>18, <2>1, CountsGrowNext, RisingStays DEF AccountInv
<1>20. ASSUME NEW q \in Pbs, pb'[q].trap = "aWrCmd"
       PROVE  Taken(q, a) = 1 .. pb'[q].ioActCount
  BY <1>5, <1>16, <1>20 DEF Counted1, SameCore, AccountInv
<1>21. delivered' = u /\ accepted' = a
  BY <1>7, <1>16 DEF MovesIn
<1> QED
  BY <1>14, <1>15, <1>17, <1>18, <1>19, <1>20, <1>21 DEF AccountInv, Taken, Places

LEMMA AccountNext ==
  ASSUME StreamBase, Streams, OverInv, AccountInv, [Next]_vars
  PROVE  AccountInv'
<1>0. StepKinds /\ StreamBase' /\ Inv /\ PbShape /\ DataInv
  BY StreamBaseKinds, StreamBaseNext DEF StreamBase, Inv, CallInv
<1>1. ASSUME FlowKept, \A q \in Pbs : SameCore(q) \/ (~Issued(q) /\ pb'[q].ioActCount = 0)
      PROVE  AccountInv'
  BY <1>0, <1>1, AccountKept DEF Still
<1>2. CASE Silent
  BY <1>1, <1>2 DEF Silent, CoreKept
<1>3. ASSUME NEW p \in Pbs, NEW c \in Calls \cup IrqCalls, NEW n \in Sizes, Issues(p, c, n)
      PROVE  AccountInv'
  <2>1. /\ pb'[p].ioActCount = 0 /\ ~Issued(p)
        /\ \A q \in Pbs : q # p => pb'[q] = pb[q]
    BY <1>0, <1>3, CoreIssued DEF Issues, Enqueue
  <2>2. \A q \in Pbs : SameCore(q) \/ (~Issued(q) /\ pb'[q].ioActCount = 0)
    BY <2>1 DEF SameCore
  <2> QED
    BY <1>1, <1>3, <2>2 DEF Issues
<1>4. ASSUME NEW p \in Pbs, NEW r \in Int, Completes(p, r)
      PROVE  AccountInv'
  <2>1. CoreKept
    BY <1>0, <1>4, CoreSame DEF Completes, IODone
  <2> QED
    BY <1>1, <1>4, <2>1 DEF Completes, CoreKept
<1>5. ASSUME NEW p \in Pbs, Moves(p)
      PROVE  AccountInv'
  BY <1>0, <1>2, <1>5, MoveKinds, AccountIn, AccountOut
<1>6. CASE DeviceSteps
  <2>1. pb' = pb
    BY <1>6, DeviceCalls
  <2>2. FlowKept
    BY <1>6 DEF DeviceSteps, VblFlush, VblPoll, WriteDone, WriteFails, ReadDone, ReadFails,
      OpenConnResult, OpenReadReq, OpenReadAct, OpenWrite, FlowKept, flowVars
  <2> QED
    BY <1>1, <2>1, <2>2 DEF SameCore
<1> QED
  BY <1>0, <1>2, <1>3, <1>4, <1>5, <1>6 DEF StepKinds

LEMMA AccountInit == Init => OverInv /\ AccountInv
<1> SUFFICES ASSUME Init
             PROVE  OverInv /\ AccountInv
  OBVIOUS
<1>1. /\ accepted = <<>> /\ delivered = <<>>
      /\ bytes.bytesWritten = 0 /\ bytes.bytesRead = 0
      /\ \A p \in Pbs : pb[p].ioActCount = 0 /\ ~Rw(p) /\ pb[p].trap = "ctl"
  BY DEF Init, FreePb, Rw
<1>2. \A F : Places(F, <<>>) = {}
  BY DEF Places
<1>3. Cardinality({}) = 0
  BY FS_EmptySet
<1>4. Cardinality(Places(Finished, <<>>)) = 0
  BY <1>2, <1>3
<1>5. <<>> \in Seq(Bytes) /\ Len(<<>>) = 0
  OBVIOUS
<1>6. Rising(<<>>)
  BY DEF Rising
<1>7. Tally(<<>>, "aWrCmd", 0) /\ Tally(<<>>, "aRdCmd", 0)
  BY <1>1, <1>4, <1>5 DEF Tally
<1> QED
  BY <1>1, <1>6, <1>7 DEF AccountInv, OverInv

LEMMA AccountSafe ==
  ASSUME LateOpen = FALSE
  PROVE  Spec => [](StreamBase /\ Streams /\ OverInv /\ AccountInv)
<1>1. Init => StreamBase /\ Streams /\ OverInv /\ AccountInv
  BY StreamBaseInit, StreamsInit, AccountInit
<1>2. (StreamBase /\ Streams /\ OverInv /\ AccountInv) /\ [Next]_vars
        => (StreamBase /\ Streams /\ OverInv /\ AccountInv)'
  BY StreamBaseNext, StreamsNext, OverNext, AccountNext
<1> QED
  BY <1>1, <1>2, PTL DEF Spec

\* A write's bytes are taken front to back, as many as its count says, however
\* often it was parked; and a read's count is what it was given.
THEOREM RequestsCounted ==
  ASSUME LateOpen = FALSE
  PROVE  Spec => []RequestBytes
<1>1. AccountInv => RequestBytes
  <2> SUFFICES ASSUME AccountInv, NEW p \in Pbs
               PROVE  /\ pb[p].trap = "aWrCmd" =>
                           /\ Taken(p, accepted) = 1 .. pb[p].ioActCount
                           /\ \A i, j \in Places({p}, accepted) :
                                 i < j => accepted[i][2] < accepted[j][2]
                      /\ pb[p].trap = "aRdCmd" =>
                           Cardinality(Places({p}, delivered)) = pb[p].ioActCount
    BY DEF RequestBytes, Taken
  <2>1. accepted \in Seq(Bytes)
    BY DEF AccountInv, Tally
  <2>2. Places({p}, accepted) = {i \in 1 .. Len(accepted) : accepted[i][1] \in {p}}
    BY <2>1, PlacesAre
  <2>3. \A i, j \in Places({p}, accepted) : i < j => accepted[i][2] < accepted[j][2]
    BY <2>2 DEF AccountInv, Rising
  <2> QED
    BY <2>3 DEF AccountInv, Tally
<1> QED
  BY <1>1, AccountSafe, PTL

\* The statistics are the bytes of the finished transfers.
THEOREM StatsRight ==
  ASSUME LateOpen = FALSE
  PROVE  Spec => []StatsAccount
<1>1. AccountInv => StatsAccount
  BY DEF AccountInv, Tally, StatsAccount
<1> QED
  BY <1>1, AccountSafe, PTL
=============================================================================
