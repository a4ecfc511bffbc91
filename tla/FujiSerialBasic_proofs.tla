------------------------ MODULE FujiSerialBasic_proofs ------------------------
(***************************************************************************)
(* Machine-checked proofs about the synchronous serial driver, for any     *)
(* ports, request sizes, buffer sizes and numbers of calls and bytes.      *)
(***************************************************************************)
EXTENDS FujiSerialBasic, SequenceTheorems, TLAPS

Inputs == [readPos : Nat, readLeft : Nat, readAvail : Nat, payload : Seq(Nat)]

\* The shape of the state, as far as the proofs need it.
Types ==
    /\ arrived \in Nat /\ taken \in Nat /\ taken =< arrived
    /\ left \in Nat
    /\ pb.csParam \in Nat
    /\ pc = "idle" \/ pb.trap = pc
    /\ pb = [call |-> pb.call, ref |-> pb.ref, trap |-> pb.trap,
             ioReqCount |-> pb.ioReqCount, ioActCount |-> pb.ioActCount,
             ioResult |-> pb.ioResult, csParam |-> pb.csParam, at |-> pb.at,
             copies |-> pb.copies]
    /\ input \in Inputs
    /\ handed \in Seq(Nat)

\* Of the payload s the last part, of length n behind pos, holds what follows
\* the bytes h that clients were handed, up to byte t of the stream.
Stream(pos, n, s, t, h) ==
    /\ pos + n = Len(s)
    /\ \A k \in 1 .. n : s[pos + k] = Len(h) + k
    /\ Len(h) + n = t
    /\ \A k \in 1 .. Len(h) : h[k] = k
StreamOf(in, t, h) == Stream(in.readPos, in.readLeft, in.payload, t, h)

\* What readAvail counts is still at the device.
AvailThere == input.readAvail =< arrived - taken

Inv == Types /\ StreamOf(input, taken, handed) /\ AvailThere /\ StatusHonest

LEMMA LesserOf ==
  ASSUME NEW a \in Nat, NEW b \in Nat
  PROVE  Lesser(a, b) \in Nat /\ Lesser(a, b) =< a /\ Lesser(a, b) =< b
BY DEF Lesser

LEMMA InitInv == Init => Inv
<1> SUFFICES ASSUME Init
             PROVE  Inv
  OBVIOUS
<1>1. Types
  BY DEF Init, Types, Inputs
<1>2. StreamOf(input, taken, handed)
  BY DEF Init, StreamOf, Stream
<1> QED
  BY <1>1, <1>2 DEF Inv, AvailThere, StatusHonest, Init

\* A refill continues the stream where the last buffer ended.
LEMMA RefillStream ==
  ASSUME Inv, Fetch
  PROVE  /\ Refilled \in Inputs
         /\ StreamOf(Refilled, taken', handed)
         /\ taken' \in Nat /\ taken' =< arrived
         /\ Refilled.readAvail =< arrived - taken'
<1>1. CASE ~Empty
  BY <1>1 DEF Inv, Types, AvailThere, Fetch, Refilled
<1>2. CASE Empty
  <2> DEFINE avail == arrived - taken
             n == Lesser(avail, PayloadSize)
             data == [i \in 1 .. n |-> taken + i]
  <2>1. avail \in Nat /\ PayloadSize \in Nat /\ taken \in Nat /\ arrived \in Nat
    BY BuffersAssumption DEF Inv, Types
  <2>2. n \in Nat /\ n =< avail /\ avail - n \in Nat
    BY <2>1, LesserOf
  <2>3. Refilled = [readPos |-> 0, readLeft |-> n, readAvail |-> avail - n,
                    payload |-> data]
    BY <1>2 DEF Refilled, Filled
  <2> HIDE DEF n
  <2>4. data \in Seq(Nat) /\ Len(data) = n /\ \A k \in 1 .. n : data[k] = taken + k
    BY <2>1, <2>2
  <2> HIDE DEF data
  <2>5. taken' = taken + n
    BY <1>2, <2>3 DEF Fetch
  <2>6. Len(handed) = taken /\ \A k \in 1 .. Len(handed) : handed[k] = k
    <3>1. input.readLeft = 0 /\ handed \in Seq(Nat)
      BY <1>2 DEF Empty, Inv, Types
    <3> QED
      BY <3>1, <2>1 DEF Inv, StreamOf, Stream
  <2>7. Refilled \in Inputs
    BY <2>2, <2>3, <2>4 DEF Inputs
  <2>8. Stream(0, n, data, taken + n, handed)
    BY <2>1, <2>2, <2>4, <2>6 DEF Stream
  <2>9. StreamOf(Refilled, taken', handed)
    BY <2>3, <2>5, <2>8 DEF StreamOf
  <2>10. Refilled.readAvail = avail - n
    BY <2>3
  <2> QED
    BY <2>1, <2>2, <2>5, <2>7, <2>9, <2>10
<1> QED
  BY <1>1, <1>2

\* The n bytes that follow h in the stream.
NextOf(data, n, h) ==
    /\ data \in Seq(Nat) /\ Len(data) = n
    /\ \A k \in 1 .. n : data[k] = Len(h) + k

\* A copy takes the next n bytes of the stream.
LEMMA NextBytes ==
  ASSUME NEW pos \in Nat, NEW rest \in Nat, NEW s \in Seq(Nat), NEW t \in Nat,
         NEW h \in Seq(Nat), Stream(pos, rest, s, t, h),
         NEW n \in Nat, n =< rest, NEW data, data = SubSeq(s, pos + 1, pos + n)
  PROVE  NextOf(data, n, h)
<1>1. Len(s) = pos + rest /\ Len(h) \in Nat
  BY DEF Stream
<1>2. pos + 1 \in Int /\ pos + n \in Int /\ n = (pos + n) - (pos + 1) + 1
  OBVIOUS
<1>3. data \in Seq(Nat) /\ Len(data) = n
  BY <1>1, <1>2
<1>4. ASSUME NEW k \in 1 .. n
      PROVE  data[k] = Len(h) + k
  <2>1. data[k] = s[pos + k]
    BY <1>1, <1>2
  <2>2. k \in 1 .. rest
    OBVIOUS
  <2> QED
    BY <2>1, <2>2 DEF Stream
<1> QED
  BY <1>3, <1>4 DEF NextOf

\* Copying n bytes to a client moves them from one end of the stream's unread
\* part to the end of what was handed out.
LEMMA HandOut ==
  ASSUME NEW pos \in Nat, NEW rest \in Nat, NEW s \in Seq(Nat), NEW t \in Nat,
         NEW h \in Seq(Nat), Stream(pos, rest, s, t, h),
         NEW n \in Nat, n =< rest
  PROVE  LET data == SubSeq(s, pos + 1, pos + n)
         IN  h \o data \in Seq(Nat) /\ Stream(pos + n, rest - n, s, t, h \o data)
<1> DEFINE data == SubSeq(s, pos + 1, pos + n)
<1>1. Len(s) = pos + rest /\ Len(h) \in Nat /\ Len(h) + rest = t
  BY DEF Stream
<1>2. data = SubSeq(s, pos + 1, pos + n)
  OBVIOUS
<1> HIDE DEF data
<1>3. /\ data \in Seq(Nat) /\ Len(data) = n
      /\ \A k \in 1 .. n : data[k] = Len(h) + k
  <2>1. NextOf(data, n, h)
    BY <1>2, NextBytes
  <2> QED
    BY <2>1 DEF NextOf
<1>5. /\ h \o data \in Seq(Nat)
      /\ Len(h \o data) = Len(h) + n
      /\ \A i \in 1 .. Len(h) + n :
            (h \o data)[i] = IF i <= Len(h) THEN h[i] ELSE data[i - Len(h)]
  BY <1>3, ConcatProperties
<1>6. \A k \in 1 .. Len(h) + n : (h \o data)[k] = k
  <2> TAKE k \in 1 .. Len(h) + n
  <2>1. CASE k =< Len(h)
    BY <2>1, <1>1, <1>5 DEF Stream
  <2>2. CASE k > Len(h)
    <3> DEFINE i == k - Len(h)
    <3>1. i \in 1 .. n /\ Len(h) + i = k
      BY <2>2, <1>1
    <3>2. (h \o data)[k] = data[i]
      BY <2>2, <1>1, <1>5
    <3>3. data[i] = Len(h) + i
      BY <3>1, <1>3
    <3> HIDE DEF i
    <3>4. (h \o data)[k] = Len(h) + i
      BY <3>2, <3>3
    <3> QED
      BY <3>1, <3>4
  <2>3. k =< Len(h) \/ k > Len(h)
    BY <1>1
  <2> QED
    BY <2>1, <2>2, <2>3
<1>7. \A k \in 1 .. rest - n : s[(pos + n) + k] = Len(h \o data) + k
  <2> TAKE k \in 1 .. rest - n
  <2>1. n + k \in 1 .. rest
    OBVIOUS
  <2>2. s[pos + (n + k)] = Len(h) + (n + k)
    BY <2>1 DEF Stream
  <2> QED
    BY <2>2, <1>1, <1>5
<1>8. (pos + n) + (rest - n) = Len(s) /\ Len(h \o data) + (rest - n) = t
  <2>1. (pos + n) + (rest - n) = pos + rest
    OBVIOUS
  <2>2. (Len(h) + n) + (rest - n) = Len(h) + rest
    BY <1>1
  <2>3. Len(h \o data) = Len(h) + n
    BY <1>5
  <2> QED
    BY <1>1, <2>1, <2>2, <2>3
<1>9. \A k \in 1 .. Len(h \o data) : (h \o data)[k] = k
  BY <1>5, <1>6
<1>10. Stream(pos + n, rest - n, s, t, h \o data)
  BY <1>7, <1>8, <1>9 DEF Stream
<1> QED
  BY <1>5, <1>10 DEF data

LEMMA TotalHonest ==
  ASSUME NEW in \in Inputs
  PROVE  Total(in) \in Nat /\ Total(in) =< in.readLeft + in.readAvail
<1> DEFINE n == in.readLeft + in.readAvail
<1>1. n \in Nat
  BY DEF Inputs
<1> HIDE DEF n
<1>2. n % 65536 \in Nat /\ n % 65536 =< n
  BY <1>1
<1> QED
  BY <1>2 DEF Total, n

LEMMA ReadMoreInv == Inv /\ ReadMore => Inv'
<1> SUFFICES ASSUME Inv, ReadMore
             PROVE  Inv'
  OBVIOUS
<1> DEFINE n == Lesser(left, Refilled.readLeft)
           data == FromPos(Refilled, n)
<1>1. /\ pc = "read" /\ pc' = pc /\ Fetch /\ arrived' = arrived
      /\ input' = [Refilled EXCEPT !.readLeft = @ - n, !.readPos = @ + n]
      /\ handed' = handed \o data /\ left' = left - n
  BY DEF ReadMore
<1>2. /\ Refilled \in Inputs /\ StreamOf(Refilled, taken', handed)
      /\ taken' \in Nat /\ taken' =< arrived
      /\ Refilled.readAvail =< arrived - taken'
  BY <1>1, RefillStream
<1>3. n \in Nat /\ n =< left /\ n =< Refilled.readLeft /\ left - n \in Nat
  BY <1>2, LesserOf DEF Inv, Types, Inputs
<1> HIDE DEF n
<1>4. /\ handed \o data \in Seq(Nat)
      /\ Stream(Refilled.readPos + n, Refilled.readLeft - n, Refilled.payload,
                taken', handed \o data)
  BY <1>2, <1>3, HandOut DEF StreamOf, Inputs, FromPos, Inv, Types
<1> HIDE DEF data
<1>5. /\ input'.readPos = Refilled.readPos + n
      /\ input'.readLeft = Refilled.readLeft - n
      /\ input'.readAvail = Refilled.readAvail
      /\ input'.payload = Refilled.payload
      /\ input' \in Inputs
  <2>1. Refilled = [readPos |-> Refilled.readPos, readLeft |-> Refilled.readLeft,
                    readAvail |-> Refilled.readAvail, payload |-> Refilled.payload]
    BY <1>2 DEF Inputs
  <2>2. input' = [readPos |-> Refilled.readPos + n, readLeft |-> Refilled.readLeft - n,
                  readAvail |-> Refilled.readAvail, payload |-> Refilled.payload]
    BY <1>1, <2>1
  <2>3. Refilled.readPos + n \in Nat /\ Refilled.readLeft - n \in Nat
    BY <1>2, <1>3 DEF Inputs
  <2> QED
    BY <1>2, <2>2, <2>3 DEF Inputs
<1>6. /\ pb' = [pb EXCEPT !.copies = pb'.copies]
      /\ pb'.trap = pb.trap
  BY DEF ReadMore, Inv, Types
<1>7. Types'
  BY <1>1, <1>2, <1>3, <1>4, <1>5, <1>6 DEF Inv, Types
<1>8. StreamOf(input, taken, handed)'
  BY <1>1, <1>4, <1>5 DEF StreamOf
<1>9. AvailThere' /\ StatusHonest'
  BY <1>1, <1>2, <1>5 DEF AvailThere, StatusHonest
<1> QED
  BY <1>7, <1>8, <1>9 DEF Inv

LEMMA StatusInv == Inv /\ Status => Inv'
<1> SUFFICES ASSUME Inv, Status
             PROVE  Inv'
  OBVIOUS
<1>1. CASE Fetch /\ input' = Refilled /\ pb' = [pb EXCEPT !.csParam = Total(Refilled)]
  <2>1. /\ Refilled \in Inputs /\ StreamOf(Refilled, taken', handed)
        /\ taken' \in Nat /\ taken' =< arrived
        /\ Refilled.readAvail =< arrived - taken'
    BY <1>1, RefillStream
  <2>2. handed' = handed /\ arrived' = arrived /\ left' = left /\ pc' = "idle"
    BY DEF Status
  <2>3. Types'
    <3>1. Total(Refilled) \in Nat
      BY <2>1, TotalHonest
    <3> QED
      BY <1>1, <2>1, <2>2, <3>1 DEF Inv, Types
  <2>4. StreamOf(input, taken, handed)' /\ AvailThere'
    BY <1>1, <2>1, <2>2 DEF StreamOf, AvailThere
  <2>5. pb'.csParam = Total(input')
    BY <1>1 DEF Inv, Types
  <2>6. StatusHonest'
    <3>1. Total(input') =< input'.readLeft + input'.readAvail /\ Total(input') \in Nat
      BY <1>1, <2>1, TotalHonest
    <3>2. input'.readLeft \in Nat /\ input'.readAvail \in Nat
      BY <1>1, <2>1 DEF Inputs
    <3>3. input'.readAvail =< arrived' - taken'
      BY <1>1, <2>1, <2>2
    <3>4. arrived' \in Nat /\ taken' \in Nat
      BY <2>3 DEF Types
    <3>5. pb'.csParam =< input'.readLeft + arrived' - taken'
      BY <2>5, <3>1, <3>2, <3>3, <3>4
    <3> QED
      BY <3>5 DEF StatusHonest
  <2> QED
    BY <2>3, <2>4, <2>6 DEF Inv
<1>2. CASE pb' = [pb EXCEPT !.csParam = Total(input)] /\ UNCHANGED inputVars
  <2>1. /\ handed' = handed /\ arrived' = arrived /\ left' = left /\ pc' = "idle"
        /\ input' = input /\ taken' = taken
    BY <1>2 DEF Status, inputVars
  <2>2. Types' /\ AvailThere'
    <3>1. Total(input) \in Nat
      BY TotalHonest DEF Inv, Types
    <3> QED
      BY <1>2, <2>1, <3>1 DEF Inv, Types, AvailThere
  <2>3. StreamOf(input, taken, handed)'
    BY <2>1 DEF Inv, StreamOf
  <2>4. pb'.csParam = Total(input)
    BY <1>2 DEF Inv, Types
  <2>5. StatusHonest'
    <3>1. Total(input) =< input.readLeft + input.readAvail /\ Total(input) \in Nat
      BY TotalHonest DEF Inv, Types
    <3>2. /\ input.readLeft \in Nat /\ input.readAvail \in Nat
          /\ arrived \in Nat /\ taken \in Nat
      BY DEF Inv, Types, Inputs
    <3>3. pb'.csParam =< input.readLeft + arrived - taken
      BY <2>4, <3>1, <3>2 DEF Inv, AvailThere
    <3> QED
      BY <2>1, <3>3 DEF StatusHonest
  <2> QED
    BY <2>2, <2>3, <2>5 DEF Inv
<1> QED
  BY <1>1, <1>2 DEF Status

\* The steps that touch neither the buffer nor what was handed out.
LEMMA OtherInv ==
  ASSUME Inv, UNCHANGED <<inputVars, handed>>, Types', arrived =< arrived',
         (pc = "idle" /\ pb.trap = "status" /\ pb' = pb)
            \/ pc' # "idle" \/ pb'.trap # "status"
  PROVE  Inv'
<1>1. input' = input /\ taken' = taken /\ handed' = handed
  BY DEF inputVars
<1>2. StreamOf(input, taken, handed)'
  BY <1>1 DEF Inv, StreamOf
<1>3. AvailThere'
  BY <1>1 DEF Inv, AvailThere, Types, Inputs
<1>4. StatusHonest'
  <2>1. CASE pc = "idle" /\ pb.trap = "status" /\ pb' = pb
    <3>1. pb.csParam =< input.readLeft + arrived - taken
      BY <2>1 DEF Inv, StatusHonest
    <3>2. /\ pb.csParam \in Nat /\ input.readLeft \in Nat
          /\ arrived \in Nat /\ arrived' \in Nat /\ taken \in Nat
      BY DEF Inv, Types, Inputs
    <3>3. pb.csParam =< input.readLeft + arrived' - taken
      BY <3>1, <3>2
    <3> QED
      BY <1>1, <2>1, <3>3 DEF StatusHonest
  <2>2. CASE pc' # "idle" \/ pb'.trap # "status"
    BY <2>2 DEF StatusHonest
  <2> QED
    BY <2>1, <2>2
<1> QED
  BY <1>2, <1>3, <1>4 DEF Inv

LEMMA NextInv == Inv /\ [Next]_vars => Inv'
<1> SUFFICES ASSUME Inv, [Next]_vars
             PROVE  Inv'
  OBVIOUS
<1>1. ASSUME NEW ref \in RefNums, NEW trap \in {"read", "write", "status"},
             NEW n \in Nat, Call(ref, trap, n)
      PROVE  Inv'
  <2>1. Types'
    BY <1>1 DEF Call, inputVars, Inv, Types
  <2>2. UNCHANGED <<inputVars, handed>> /\ arrived' = arrived /\ pc' # "idle"
    BY <1>1 DEF Call
  <2> QED
    BY <2>1, <2>2, OtherInv DEF Types
<1>2. CASE WriteBlock
  <2>1. left' \in Nat
    <3>1. left \in Nat /\ BlockSize \in Nat
      BY BuffersAssumption DEF Inv, Types
    <3>2. Lesser(left, BlockSize) \in Nat /\ Lesser(left, BlockSize) =< left
      BY <3>1, LesserOf
    <3>3. Block.len = Lesser(left, BlockSize)
      BY DEF Block
    <3>4. left' = left - Lesser(left, BlockSize)
      BY <1>2, <3>3 DEF WriteBlock
    <3> QED
      BY <3>1, <3>2, <3>4
  <2>2. /\ UNCHANGED <<inputVars, handed>> /\ arrived' = arrived
        /\ pc' = pc /\ pb' = pb /\ pc = "write"
    BY <1>2 DEF WriteBlock
  <2>3. Types'
    BY <2>1, <2>2 DEF Inv, Types, inputVars
  <2> QED
    BY <2>2, <2>3, OtherInv DEF Types
<1>3. CASE WriteReturns
  <2>1. /\ pc = "write" /\ pc' = "idle" /\ left' = left /\ arrived' = arrived
        /\ UNCHANGED <<inputVars, handed>>
        /\ \E act, err : pb' = [pb EXCEPT !.ioActCount = act, !.ioResult = err]
    BY <1>3 DEF WriteReturns, Returns
  <2>2. pb'.trap = "write"
    BY <2>1 DEF Inv, Types
  <2>3. Types'
    BY <2>1 DEF Inv, Types, inputVars
  <2> QED
    BY <2>1, <2>2, <2>3, OtherInv DEF Types
<1>4. CASE ReadReturns
  <2>1. /\ pc = "read" /\ pc' = "idle" /\ left' = left /\ arrived' = arrived
        /\ UNCHANGED <<inputVars, handed>>
        /\ \E act, err : pb' = [pb EXCEPT !.ioActCount = act, !.ioResult = err]
    BY <1>4 DEF ReadReturns, Returns
  <2>2. pb'.trap = "read"
    BY <2>1 DEF Inv, Types
  <2>3. Types'
    BY <2>1 DEF Inv, Types, inputVars
  <2> QED
    BY <2>1, <2>2, <2>3, OtherInv DEF Types
<1>5. CASE Arrive
  <2>1. /\ arrived' = arrived + 1 /\ pc' = pc /\ pb' = pb /\ left' = left
        /\ UNCHANGED <<inputVars, handed>>
    BY <1>5 DEF Arrive, callVars
  <2>2. Types' /\ arrived =< arrived'
    BY <2>1 DEF Inv, Types, inputVars
  <2> QED
    BY <2>1, <2>2, OtherInv
<1>6. CASE UNCHANGED vars
  <2>1. /\ arrived' = arrived /\ pc' = pc /\ pb' = pb /\ left' = left
        /\ UNCHANGED <<inputVars, handed>>
    BY <1>6 DEF vars, callVars
  <2>2. Types' /\ arrived =< arrived'
    BY <2>1 DEF Inv, Types, inputVars
  <2> QED
    BY <2>1, <2>2, OtherInv
<1>7. CASE Calls
  BY <1>1, <1>7, SizesAssumption DEF Calls
<1> QED
  BY <1>2, <1>3, <1>4, <1>5, <1>6, <1>7, ReadMoreInv, StatusInv DEF Next, Serve

LEMMA InvSafe == Spec => []Inv
BY InitInv, NextInv, PTL DEF Spec

\* Every byte that the driver fetches is copied to a client once and in order,
\* or is still in the input buffer, for all sizes of requests and of the buffer,
\* and whichever ports read (doPrime and fujiReadInput).
THEOREM HandedSafe == Spec => []HandedInOrder
<1>1. Inv => HandedInOrder
  <2> SUFFICES ASSUME Inv
               PROVE  HandedInOrder
    OBVIOUS
  <2> DEFINE all == handed \o Unread
             stream == [i \in 1 .. taken |-> i]
  <2>1. /\ input.readPos \in Nat /\ input.readLeft \in Nat
        /\ input.payload \in Seq(Nat) /\ taken \in Nat /\ handed \in Seq(Nat)
        /\ Stream(input.readPos, input.readLeft, input.payload, taken, handed)
    BY DEF Inv, Types, Inputs, StreamOf
  <2>2. all \in Seq(Nat)
        /\ Stream(input.readPos + input.readLeft, input.readLeft - input.readLeft,
                  input.payload, taken, all)
    <3>1. input.readLeft =< input.readLeft
      BY <2>1
    <3> QED
      BY <2>1, <3>1, HandOut DEF Unread
  <2> HIDE DEF all
  <2>3. input.readLeft - input.readLeft = 0
    BY <2>1
  <2>4. Len(all) = taken /\ \A k \in 1 .. Len(all) : all[k] = k
    BY <2>1, <2>2, <2>3 DEF Stream
  <2>5. all = stream
    <3>1. stream \in Seq(Nat) /\ Len(stream) = taken
      BY <2>1
    <3>2. \A k \in 1 .. taken : all[k] = stream[k]
      BY <2>4
    <3> QED
      BY <2>2, <2>4, <3>1, <3>2, SeqEqual
  <2> QED
    BY <2>5 DEF HandedInOrder, all
<1> QED
  BY <1>1, InvSafe, PTL

\* SerGetBuf never promises more than there is to read, also after a refill that
\* failed and when its sum wraps around in 16 bits (doStatus).
THEOREM StatusSafe == Spec => []StatusHonest
<1>1. Inv => StatusHonest
  BY DEF Inv
<1> QED
  BY <1>1, InvSafe, PTL

\* What the only copy of a read, if there was one, has put where.
CopyInv ==
    /\ buffer \in Seq(Nat) /\ handed \in Seq(Nat)
    /\ pb.copies \in Nat /\ pb.ioReqCount \in Nat /\ pb.at \in Nat /\ left \in Nat
    /\ pc = "read" =>
          /\ Len(buffer) = pb.ioReqCount /\ left =< pb.ioReqCount
          /\ pb.copies = 0 => left = pb.ioReqCount /\ pb.at = Len(handed)
          /\ pb.copies = 1 => \A k \in 1 .. pb.ioReqCount - left : buffer[k] = pb.at + k
    /\ ShortReadsIntact

LEMMA ReadMoreCopies == Inv /\ CopyInv /\ ReadMore => CopyInv'
<1> SUFFICES ASSUME Inv, CopyInv, ReadMore
             PROVE  CopyInv'
  OBVIOUS
<1> DEFINE n == Lesser(left, Refilled.readLeft)
           data == FromPos(Refilled, n)
           rest == SubSeq(buffer, n + 1, Len(buffer))
<1>1. /\ pc = "read" /\ pc' = "read" /\ Fetch /\ buffer' = data \o rest
      /\ left' = left - n /\ handed' = handed \o data
      /\ pb' = [pb EXCEPT !.copies = IF n > 0 THEN @ + 1 ELSE @]
  BY DEF ReadMore
<1>2. /\ Refilled \in Inputs /\ StreamOf(Refilled, taken', handed) /\ taken' \in Nat
  BY <1>1, RefillStream
<1>3. n \in Nat /\ n =< left /\ n =< Refilled.readLeft /\ left - n \in Nat
  BY <1>2, LesserOf DEF Inv, Types, Inputs
<1>4. /\ pb'.copies = IF n > 0 THEN pb.copies + 1 ELSE pb.copies
      /\ pb'.ioReqCount = pb.ioReqCount /\ pb'.at = pb.at
  BY <1>1 DEF Inv, Types
<1> HIDE DEF n
<1>5. /\ data \in Seq(Nat) /\ Len(data) = n
      /\ \A k \in 1 .. n : data[k] = Len(handed) + k
  <2>1. data = SubSeq(Refilled.payload, Refilled.readPos + 1, Refilled.readPos + n)
    BY DEF FromPos
  <2>2. /\ Refilled.readPos \in Nat /\ Refilled.readLeft \in Nat
        /\ Refilled.payload \in Seq(Nat) /\ handed \in Seq(Nat)
        /\ Stream(Refilled.readPos, Refilled.readLeft, Refilled.payload, taken', handed)
    BY <1>2 DEF StreamOf, Inputs, Inv, Types
  <2> HIDE DEF data
  <2>3. NextOf(data, n, handed)
    BY <1>2, <1>3, <2>1, <2>2, NextBytes
  <2> QED
    BY <2>3 DEF NextOf
<1> HIDE DEF data
<1>6. /\ Len(buffer) = pb.ioReqCount /\ left =< pb.ioReqCount
      /\ buffer \in Seq(Nat) /\ pb.ioReqCount \in Nat /\ left \in Nat
      /\ Len(handed) \in Nat /\ pb.copies \in Nat /\ pb.at \in Nat
      /\ handed \in Seq(Nat)
  BY <1>1 DEF CopyInv
<1>7. /\ rest \in Seq(Nat) /\ Len(rest) = pb.ioReqCount - n
      /\ n = 0 => rest = buffer
  <2>1. n + 1 \in Int /\ pb.ioReqCount \in Int /\ pb.ioReqCount - (n + 1) + 1 = pb.ioReqCount - n
        /\ n =< pb.ioReqCount
    BY <1>3, <1>6
  <2>2. \A i \in n + 1 .. pb.ioReqCount : buffer[i] \in Nat
    BY <1>3, <1>6
  <2>3. rest \in Seq(Nat) /\ Len(rest) = pb.ioReqCount - n
    BY <2>1, <2>2, <1>6, <1>3
  <2>4. n = 0 => rest = buffer
    BY <1>6, SubSeqFull
  <2> QED
    BY <2>3, <2>4
<1> HIDE DEF rest
<1>8. /\ buffer' \in Seq(Nat) /\ Len(buffer') = pb.ioReqCount
      /\ \A k \in 1 .. n : buffer'[k] = Len(handed) + k
      /\ n = 0 => buffer' = buffer
  <2>1. /\ data \o rest \in Seq(Nat)
        /\ Len(data \o rest) = Len(data) + Len(rest)
        /\ \A i \in 1 .. Len(data) + Len(rest) :
              (data \o rest)[i] = IF i <= Len(data) THEN data[i] ELSE rest[i - Len(data)]
    BY <1>5, <1>7, ConcatProperties
  <2>2. Len(data) + Len(rest) = pb.ioReqCount
    BY <1>5, <1>6, <1>7, <1>3
  <2>3. ASSUME NEW k \in 1 .. n
        PROVE  (data \o rest)[k] = Len(handed) + k
    <3>1. k \in 1 .. Len(data) + Len(rest) /\ k <= Len(data)
      BY <1>5, <1>7, <1>3, <1>6
    <3>2. (data \o rest)[k] = data[k]
      BY <2>1, <3>1
    <3> QED
      BY <3>2, <1>5
  <2>4. ASSUME n = 0
        PROVE  data \o rest = buffer
    <3>1. data = <<>>
      BY <1>5, <2>4, EmptySeq
    <3> QED
      BY <3>1, <1>7, <2>4, ConcatEmptySeq
  <2> QED
    BY <1>1, <2>1, <2>2, <2>3, <2>4
<1>9. handed' \in Seq(Nat)
  BY <1>1, <1>5, <1>6, ConcatProperties
<1>10. pb'.copies = 0 => left' = pb.ioReqCount /\ pb.at = Len(handed')
  <2> SUFFICES ASSUME pb'.copies = 0
               PROVE  left' = pb.ioReqCount /\ pb.at = Len(handed')
    OBVIOUS
  <2>1. n = 0 /\ pb.copies = 0
    BY <1>3, <1>4, <1>6
  <2>2. left = pb.ioReqCount /\ pb.at = Len(handed)
    BY <1>1, <2>1 DEF CopyInv
  <2>3. Len(handed') = Len(handed) + n
    BY <1>1, <1>5, <1>6, ConcatProperties
  <2> QED
    BY <1>1, <1>6, <2>1, <2>2, <2>3
<1>11. ASSUME pb'.copies = 1, NEW k \in 1 .. pb.ioReqCount - left'
       PROVE  buffer'[k] = pb.at + k
  <2>1. CASE n = 0
    <3>1. pb.copies = 1
      BY <1>4, <1>11, <2>1
    <3>2. left' = left
      <4>1. left' = left - n
        BY <1>1
      <4> QED
        BY <4>1, <1>6, <2>1
    <3>3. buffer' = buffer
      BY <1>8, <2>1
    <3> QED
      BY <1>1, <1>11, <3>1, <3>2, <3>3 DEF CopyInv
  <2>2. CASE n > 0
    <3>1. pb.copies = 0
      BY <1>4, <1>6, <1>11, <2>2
    <3>2. left = pb.ioReqCount /\ pb.at = Len(handed)
      BY <1>1, <3>1 DEF CopyInv
    <3>3. k \in 1 .. n
      BY <1>1, <1>3, <1>6, <3>2
    <3> QED
      BY <1>8, <3>2, <3>3
  <2>3. n = 0 \/ n > 0
    BY <1>3
  <2> QED
    BY <2>1, <2>2, <2>3
<1>12. left' \in Nat /\ left' =< pb.ioReqCount /\ pb'.copies \in Nat
  BY <1>1, <1>3, <1>4, <1>6
<1>13. ShortReadsIntact'
  BY <1>1 DEF ShortReadsIntact, ReadSucceeded
<1> QED
  BY <1>1, <1>4, <1>6, <1>8, <1>9, <1>10, <1>11, <1>12, <1>13 DEF CopyInv

\* Writing, the status call and the arrival of bytes.
LEMMA OthersCopy ==
  ASSUME Inv, CopyInv, buffer' = buffer, left' \in Nat, handed' \in Seq(Nat),
         pb'.copies = pb.copies, pb'.ioReqCount = pb.ioReqCount, pb'.at = pb.at,
         \/ pc' # "read" /\ pb'.trap # "read"
         \/ pc' = pc /\ pb' = pb /\ left' = left /\ handed' = handed
  PROVE  CopyInv'
<1>1. CASE pc' # "read" /\ pb'.trap # "read"
  BY <1>1 DEF CopyInv, ShortReadsIntact, ReadSucceeded
<1>2. CASE pc' = pc /\ pb' = pb /\ left' = left /\ handed' = handed
  BY <1>2 DEF CopyInv, ShortReadsIntact, ReadSucceeded, ReadCorrectly
<1> QED
  BY <1>1, <1>2

LEMMA ReadReturnsCopies == Inv /\ CopyInv /\ ReadReturns => CopyInv'
<1> SUFFICES ASSUME Inv, CopyInv, ReadReturns
             PROVE  CopyInv'
  OBVIOUS
<1>1. /\ pc = "read" /\ pc' = "idle" /\ left' = left /\ buffer' = buffer
      /\ handed' = handed
  BY DEF ReadReturns, Returns
<1>2. /\ pb'.copies = pb.copies /\ pb'.ioReqCount = pb.ioReqCount /\ pb'.at = pb.at
      /\ pb'.ioResult = noErr => left = 0
  <2>1. PICK err : /\ Returns(pb.ioReqCount, err)
                   /\ left = 0 \/ err \in {ioErr, wrongTag}
    BY DEF ReadReturns
  <2>2. /\ pb'.copies = pb.copies /\ pb'.ioReqCount = pb.ioReqCount /\ pb'.at = pb.at
        /\ pb'.ioResult = err
    BY <2>1 DEF Returns, Inv, Types
  <2>3. err = noErr => left = 0
    BY <2>1 DEF noErr, ioErr, wrongTag
  <2> QED
    BY <2>2, <2>3
<1>3. ShortReadsIntact'
  <2> SUFFICES ASSUME pb'.ioResult = noErr, pb.copies = 1
               PROVE  buffer = [i \in 1 .. pb.ioReqCount |-> pb.at + i]
    BY <1>1, <1>2 DEF ShortReadsIntact, ReadSucceeded, ReadCorrectly
  <2> DEFINE want == [i \in 1 .. pb.ioReqCount |-> pb.at + i]
  <2>1. /\ buffer \in Seq(Nat) /\ Len(buffer) = pb.ioReqCount
        /\ pb.ioReqCount \in Nat /\ pb.at \in Nat
        /\ \A k \in 1 .. pb.ioReqCount - left : buffer[k] = pb.at + k
    BY <1>1 DEF CopyInv
  <2>2. pb.ioReqCount - left = pb.ioReqCount
    BY <1>2, <2>1
  <2>3. want \in Seq(Nat) /\ Len(want) = pb.ioReqCount
    BY <2>1
  <2>4. \A k \in 1 .. Len(buffer) : buffer[k] = want[k]
    BY <2>1, <2>2
  <2> QED
    BY <2>1, <2>3, <2>4, SeqEqual
<1> QED
  BY <1>1, <1>2, <1>3 DEF CopyInv

LEMMA NextCopies == Inv /\ CopyInv /\ [Next]_vars => CopyInv'
<1> SUFFICES ASSUME Inv, CopyInv, [Next]_vars
             PROVE  CopyInv'
  OBVIOUS
<1>0. Types'
  BY NextInv DEF Inv
<1>1. ASSUME NEW ref \in RefNums, NEW trap \in {"read", "write", "status"},
             NEW n \in Nat, Call(ref, trap, n)
      PROVE  CopyInv'
  <2>1. /\ pc' = trap /\ left' = n /\ handed' = handed
        /\ buffer' = (IF trap = "read" THEN Blank(n) ELSE <<>>)
        /\ pb'.copies = 0 /\ pb'.ioReqCount = n /\ pb'.at = Len(handed)
    BY <1>1 DEF Call
  <2>2. Blank(n) \in Seq(Nat) /\ Len(Blank(n)) = n
    BY DEF Blank
  <2>3. buffer' \in Seq(Nat) /\ (trap = "read" => Len(buffer') = n)
    BY <2>1, <2>2
  <2>4. Len(handed) \in Nat /\ handed \in Seq(Nat)
    BY DEF Inv, Types
  <2> QED
    BY <2>1, <2>3, <2>4 DEF CopyInv, ShortReadsIntact, ReadSucceeded
<1>2. CASE WriteBlock
  <2>1. /\ pc = "write" /\ pc' = pc /\ pb' = pb /\ buffer' = buffer /\ pb.trap = pc
    BY <1>2 DEF WriteBlock, Inv, Types
  <2> QED
    BY <1>0, <2>1, OthersCopy DEF Types
<1>3. CASE WriteReturns
  <2>1. pc' = "idle" /\ pb'.trap = "write" /\ buffer' = buffer
    BY <1>3 DEF WriteReturns, Returns, Inv, Types
  <2>2. pb'.copies = pb.copies /\ pb'.ioReqCount = pb.ioReqCount /\ pb'.at = pb.at
    BY <1>3 DEF WriteReturns, Returns, Inv, Types
  <2> QED
    BY <1>0, <2>1, <2>2, OthersCopy DEF Types
<1>4. CASE Status
  <2>1. pc' = "idle" /\ pb'.trap = "status" /\ buffer' = buffer
    BY <1>4 DEF Status, Inv, Types
  <2>2. pb'.copies = pb.copies /\ pb'.ioReqCount = pb.ioReqCount /\ pb'.at = pb.at
    BY <1>4 DEF Status, Inv, Types
  <2> QED
    BY <1>0, <2>1, <2>2, OthersCopy DEF Types
<1>5. CASE Arrive \/ UNCHANGED vars
  <2>1. /\ pc' = pc /\ pb' = pb /\ left' = left /\ handed' = handed
        /\ buffer' = buffer
    BY <1>5 DEF Arrive, vars, callVars
  <2> QED
    BY <1>0, <2>1, OthersCopy DEF Types
<1>6. CASE Calls
  BY <1>1, <1>6, SizesAssumption DEF Calls
<1> QED
  BY <1>2, <1>3, <1>4, <1>5, <1>6, ReadMoreCopies, ReadReturnsCopies DEF Next, Serve

\* A read that was served by one copy gives its client exactly the next bytes of
\* the stream (doPrime), for all sizes, and whoever reads and calls in between.
THEOREM ShortReadsSafe == Spec => []ShortReadsIntact
<1>1. Init => CopyInv
  BY DEF Init, CopyInv, ShortReadsIntact, ReadSucceeded
<1>2. CopyInv => ShortReadsIntact
  BY DEF CopyInv
<1> QED
  BY <1>1, <1>2, InvSafe, NextCopies, PTL DEF Spec

-----------------------------------------------------------------------------
(***************************************************************************)
(* What the device receives.  WritesExact looks at the end of a call; what *)
(* makes it inductive is how far the blocks of the current call reach, and *)
(* that the device has none of a call yet to come.                         *)
(***************************************************************************)

Blocks == [src : Int, ref : Int, call : Nat, first : Nat, len : Nat]

\* The blocks of one call follow each other.
Apart(s) == \A i, j \in DOMAIN s : i < j /\ s[i].call = s[j].call =>
                s[i].first + s[i].len =< s[j].first

\* Some block of call c has its byte k.
Holds(s, c, k) == \E i \in DOMAIN s :
    s[i].call = c /\ s[i].first < k /\ k =< s[i].first + s[i].len

\* The blocks of call c are its first n bytes, and none is of a later call.
Reaches(s, c, n) ==
    /\ \A i \in DOMAIN s : s[i].call = c => s[i].first + s[i].len =< n
    /\ \A k \in 1 .. n : Holds(s, c, k)
Upto(s, c) == \A i \in DOMAIN s : s[i].call =< c

\* Each block has the source of its port.
Labelled(s) == \A i \in DOMAIN s :
    s[i].ref \in RefNums /\ s[i].src = GetSource(s[i].ref)

SentInv ==
    /\ sent \in Seq(Blocks) /\ Apart(sent) /\ Upto(sent, pb.call) /\ Labelled(sent)
    /\ pb.call \in Nat /\ pb.ioReqCount \in Nat
    /\ pc = "write" =>
          /\ pb.ref \in RefNums /\ left =< pb.ioReqCount
          /\ Reaches(sent, pb.call, pb.ioReqCount - left)
    /\ pc = "idle" /\ pb.trap = "write" =>
          /\ \A k \in 1 .. pb.ioActCount : Holds(sent, pb.call, k)
          /\ pb.ioResult = noErr => pb.ioActCount = pb.ioReqCount

LEMMA BlockCall ==
  ASSUME NEW s \in Seq(Blocks), NEW i \in DOMAIN s
  PROVE  s[i].call \in Nat
<1>1. s[i] \in Blocks
  OBVIOUS
<1> QED
  BY <1>1 DEF Blocks

\* One more block of the current call.
LEMMA NextBlock ==
  ASSUME NEW s \in Seq(Blocks), NEW b \in Blocks, NEW c \in Nat, NEW n \in Nat,
         Apart(s), Upto(s, c), Labelled(s), Reaches(s, c, n),
         b.call = c, b.first = n, b.ref \in RefNums, b.src = GetSource(b.ref)
  PROVE  /\ Append(s, b) \in Seq(Blocks) /\ Apart(Append(s, b)) /\ Upto(Append(s, b), c)
         /\ Labelled(Append(s, b)) /\ Reaches(Append(s, b), c, n + b.len)
<1> DEFINE t == Append(s, b)
           m == Len(s)
<1>1. /\ t \in Seq(Blocks) /\ DOMAIN t = 1 .. m + 1 /\ DOMAIN s = 1 .. m /\ m \in Nat
      /\ t[m + 1] = b /\ \A i \in 1 .. m : t[i] = s[i]
  OBVIOUS
<1>2. /\ b.len \in Nat /\ b.first \in Nat
      /\ \A i \in 1 .. m : s[i] \in Blocks
  <2>1. \A i \in 1 .. m : s[i] \in Blocks
    BY DEF m
  <2> QED
    BY <2>1 DEF Blocks
<1> HIDE DEF t, m
<1>3. ASSUME NEW i \in 1 .. m + 1
      PROVE  i \in 1 .. m \/ i = m + 1
  BY <1>1
<1>4. Apart(t)
  <2> SUFFICES ASSUME NEW i \in 1 .. m + 1, NEW j \in 1 .. m + 1, i < j,
                      t[i].call = t[j].call
               PROVE  t[i].first + t[i].len =< t[j].first
    BY <1>1 DEF Apart
  <2>1. i \in 1 .. m
    BY <1>1
  <2>2. CASE j \in 1 .. m
    BY <1>1, <2>1, <2>2 DEF Apart
  <2>3. CASE j = m + 1
    <3>1. s[i].call = c
      BY <1>1, <2>1, <2>3
    <3>2. s[i].first + s[i].len =< n
      BY <1>1, <2>1, <3>1 DEF Reaches
    <3> QED
      BY <1>1, <2>1, <2>3, <3>2
  <2> QED
    BY <2>2, <2>3, <1>3
<1>5. Upto(t, c)
  <2> SUFFICES ASSUME NEW i \in 1 .. m + 1
               PROVE  t[i].call =< c
    BY <1>1 DEF Upto
  <2>1. CASE i \in 1 .. m
    BY <1>1, <2>1 DEF Upto
  <2> QED
    BY <2>1, <1>1, <1>3
<1>6. Labelled(t)
  <2> SUFFICES ASSUME NEW i \in 1 .. m + 1
               PROVE  t[i].ref \in RefNums /\ t[i].src = GetSource(t[i].ref)
    BY <1>1 DEF Labelled
  <2>1. CASE i \in 1 .. m
    BY <1>1, <2>1 DEF Labelled
  <2> QED
    BY <2>1, <1>1, <1>3
<1>7. ASSUME NEW i \in 1 .. m + 1, t[i].call = c
      PROVE  t[i].first + t[i].len =< n + b.len
  <2>1. CASE i \in 1 .. m
    <3>1. s[i].first + s[i].len =< n
      BY <1>1, <1>7, <2>1 DEF Reaches
    <3>2. s[i].first \in Nat /\ s[i].len \in Nat
      BY <1>2, <2>1 DEF Blocks
    <3> QED
      BY <1>1, <1>2, <2>1, <3>1, <3>2
  <2>2. CASE i = m + 1
    BY <1>1, <1>2, <2>2
  <2> QED
    BY <2>1, <2>2, <1>3
<1>8. ASSUME NEW k \in 1 .. n + b.len
      PROVE  Holds(t, c, k)
  <2>1. CASE k =< n
    <3>1. k \in 1 .. n
      BY <1>2, <2>1
    <3>2. PICK i \in 1 .. m :
            s[i].call = c /\ s[i].first < k /\ k =< s[i].first + s[i].len
      BY <1>1, <3>1 DEF Reaches, Holds
    <3>3. i \in DOMAIN t /\ t[i] = s[i]
      BY <1>1
    <3> QED
      BY <3>2, <3>3 DEF Holds
  <2>2. CASE n < k
    <3>1. m + 1 \in DOMAIN t /\ t[m + 1] = b
      BY <1>1
    <3>2. b.call = c /\ b.first < k /\ k =< b.first + b.len
      BY <1>2, <2>2
    <3> QED
      BY <3>1, <3>2 DEF Holds
  <2> QED
    BY <2>1, <2>2, <1>2
<1>9. Reaches(t, c, n + b.len)
  BY <1>1, <1>7, <1>8 DEF Reaches
<1> QED
  BY <1>1, <1>4, <1>5, <1>6, <1>9 DEF t

\* The source in a tag is a number.
LEMMA SourceNumber ==
  ASSUME NEW ref \in RefNums
  PROVE  GetSource(ref) \in Int /\ ref \in Int
<1>1. ref \in Int
  BY RefNumsAssumption
<1>2. (-ref - 6) \div 2 \in Int
  BY <1>1
<1> QED
  BY <1>1, <1>2 DEF GetSource

\* What a write sends next, whether it succeeds or not.
LEMMA SendsBlock ==
  ASSUME Inv, SentInv, pc = "write", left > 0
  PROVE  /\ Append(sent, Block) \in Seq(Blocks) /\ Apart(Append(sent, Block))
         /\ Upto(Append(sent, Block), pb.call) /\ Labelled(Append(sent, Block))
         /\ Reaches(Append(sent, Block), pb.call, pb.ioReqCount - (left - Block.len))
         /\ Block.len \in Nat /\ Block.len =< left
<1>1. /\ pb.call \in Nat /\ pb.ioReqCount \in Nat /\ left \in Nat /\ left =< pb.ioReqCount
      /\ pb.ref \in RefNums
  BY DEF SentInv, Inv, Types
<1>2. PICK l : l = Lesser(left, BlockSize)
  OBVIOUS
<1>3. l \in Nat /\ l =< left
  BY <1>1, <1>2, LesserOf, BuffersAssumption
<1>4. PICK g : g = GetSource(pb.ref)
  OBVIOUS
<1>5. g \in Int /\ pb.ref \in Int
  BY <1>1, <1>4, SourceNumber
<1>6. Block = [src |-> g, ref |-> pb.ref, call |-> pb.call,
               first |-> pb.ioReqCount - left, len |-> l]
  BY <1>2, <1>4 DEF Block
<1>7. /\ Block \in Blocks /\ Block.call = pb.call /\ Block.first = pb.ioReqCount - left
      /\ Block.len = l /\ Block.ref = pb.ref /\ Block.src = g
      /\ pb.ioReqCount - left \in Nat
  BY <1>1, <1>3, <1>5, <1>6 DEF Blocks
<1>8. /\ sent \in Seq(Blocks) /\ Apart(sent) /\ Upto(sent, pb.call) /\ Labelled(sent)
      /\ Reaches(sent, pb.call, pb.ioReqCount - left)
  BY DEF SentInv
<1>9. /\ Append(sent, Block) \in Seq(Blocks) /\ Apart(Append(sent, Block))
      /\ Upto(Append(sent, Block), pb.call) /\ Labelled(Append(sent, Block))
      /\ Reaches(Append(sent, Block), pb.call, (pb.ioReqCount - left) + Block.len)
  <2>1. Block.ref \in RefNums /\ Block.src = GetSource(Block.ref)
    BY <1>1, <1>4, <1>7
  <2> QED
    BY <1>1, <1>7, <1>8, <2>1, NextBlock
<1>10. (pb.ioReqCount - left) + Block.len = pb.ioReqCount - (left - Block.len)
  BY <1>1, <1>3, <1>7
<1> QED
  BY <1>3, <1>7, <1>9, <1>10

LEMMA WriteBlockSent == Inv /\ SentInv /\ WriteBlock => SentInv'
<1> SUFFICES ASSUME Inv, SentInv, WriteBlock
             PROVE  SentInv'
  OBVIOUS
<1>1. /\ pc = "write" /\ left > 0 /\ sent' = Append(sent, Block)
      /\ left' = left - Block.len /\ pc' = pc /\ pb' = pb
  BY DEF WriteBlock
<1>2. /\ sent' \in Seq(Blocks) /\ Apart(sent') /\ Upto(sent', pb.call) /\ Labelled(sent')
      /\ Reaches(sent', pb.call, pb.ioReqCount - left')
      /\ Block.len \in Nat /\ Block.len =< left
  BY <1>1, SendsBlock
<1>3. /\ pb.call \in Nat /\ pb.ioReqCount \in Nat /\ pb.ref \in RefNums
      /\ left \in Nat /\ left =< pb.ioReqCount
  BY <1>1 DEF SentInv, Inv, Types
<1>4. left' =< pb.ioReqCount
  BY <1>1, <1>2, <1>3
<1> QED
  BY <1>1, <1>2, <1>3, <1>4 DEF SentInv

LEMMA WriteReturnsSent == Inv /\ SentInv /\ WriteReturns => SentInv'
<1> SUFFICES ASSUME Inv, SentInv, WriteReturns
             PROVE  SentInv'
  OBVIOUS
<1>1. PICK err : /\ pc = "write" /\ Returns(Done, err)
                 /\ \/ left = 0 /\ err = noErr /\ sent' = sent
                    \/ left > 0 /\ err = ioErr /\ sent' \in {sent, Append(sent, Block)}
  BY DEF WriteReturns
<1>2. /\ pb'.call = pb.call /\ pb'.ioReqCount = pb.ioReqCount /\ pb'.ioActCount = Done
      /\ pb'.ioResult = err /\ pb'.trap = pb.trap /\ pc' = "idle"
  BY <1>1 DEF Returns, Inv, Types
<1>3. /\ pb.call \in Nat /\ pb.ioReqCount \in Nat /\ left \in Nat /\ left =< pb.ioReqCount
      /\ sent \in Seq(Blocks) /\ Apart(sent) /\ Upto(sent, pb.call) /\ Labelled(sent)
      /\ Reaches(sent, pb.call, Done)
  BY <1>1 DEF SentInv, Inv, Types, Done
<1>4. /\ sent' \in Seq(Blocks) /\ Apart(sent') /\ Upto(sent', pb.call) /\ Labelled(sent')
      /\ \A k \in 1 .. Done : Holds(sent', pb.call, k)
  <2>1. CASE sent' = sent
    BY <1>3, <2>1 DEF Reaches
  <2>2. CASE sent' = Append(sent, Block) /\ left > 0
    <3>1. /\ sent' \in Seq(Blocks) /\ Apart(sent') /\ Upto(sent', pb.call) /\ Labelled(sent')
          /\ Reaches(sent', pb.call, pb.ioReqCount - (left - Block.len))
          /\ Block.len \in Nat /\ Block.len =< left
      BY <1>1, <2>2, SendsBlock
    <3>2. 1 .. Done \subseteq 1 .. (pb.ioReqCount - (left - Block.len))
      BY <1>3, <3>1 DEF Done
    <3> QED
      BY <3>1, <3>2 DEF Reaches
  <2> QED
    BY <1>1, <2>1, <2>2
<1>5. err = noErr => Done = pb.ioReqCount
  BY <1>1, <1>3 DEF Done, noErr, ioErr
<1> QED
  BY <1>2, <1>3, <1>4, <1>5 DEF SentInv

\* The other steps send nothing.
LEMMA SentFrame ==
  ASSUME SentInv, sent' = sent, pb'.call = pb.call, pb'.ioReqCount = pb.ioReqCount,
         pb'.trap = pb.trap,
         \/ pc' = pc /\ pb' = pb /\ left' = left
         \/ pc' # "write" /\ pb.trap # "write"
  PROVE  SentInv'
<1>1. CASE pc' = pc /\ pb' = pb /\ left' = left
  BY <1>1 DEF SentInv
<1>2. CASE pc' # "write" /\ pb.trap # "write"
  BY <1>2 DEF SentInv
<1> QED
  BY <1>1, <1>2

LEMMA CallSent ==
  ASSUME Inv, SentInv, NEW ref \in RefNums, NEW trap \in {"read", "write", "status"},
         NEW n \in Nat, Call(ref, trap, n)
  PROVE  SentInv'
<1>1. /\ pc' = trap /\ left' = n /\ sent' = sent
      /\ pb'.call = pb.call + 1 /\ pb'.ref = ref /\ pb'.ioReqCount = n
  BY DEF Call, outputVars
<1>2. /\ sent \in Seq(Blocks) /\ Apart(sent) /\ Upto(sent, pb.call) /\ Labelled(sent)
      /\ pb.call \in Nat
  BY DEF SentInv
<1>3. ASSUME NEW i \in DOMAIN sent
      PROVE  sent[i].call < pb'.call
  <2>1. sent[i].call \in Nat /\ sent[i].call =< pb.call
    BY <1>2, BlockCall DEF Upto
  <2> QED
    BY <1>1, <1>2, <2>1
<1>4. ASSUME NEW i \in DOMAIN sent
      PROVE  sent[i].call =< pb'.call /\ sent[i].call # pb'.call
  <2>1. sent[i].call \in Nat
    BY <1>2, BlockCall
  <2> QED
    BY <1>1, <1>2, <1>3, <2>1
<1>5. Upto(sent, pb'.call)
  BY <1>4 DEF Upto
<1>6. n - n = 0 /\ n =< n
  OBVIOUS
<1>7. Reaches(sent, pb'.call, 0)
  BY <1>4 DEF Reaches
<1> QED
  BY <1>1, <1>2, <1>5, <1>6, <1>7 DEF SentInv

LEMMA NextSent == Inv /\ SentInv /\ [Next]_vars => SentInv'
<1> SUFFICES ASSUME Inv, SentInv, [Next]_vars
             PROVE  SentInv'
  OBVIOUS
<1>1. CASE ReadMore
  BY <1>1, SentFrame DEF ReadMore, outputVars, Inv, Types
<1>2. CASE ReadReturns
  BY <1>2, SentFrame DEF ReadReturns, Returns, Inv, Types
<1>3. CASE Status
  BY <1>3, SentFrame DEF Status, outputVars, Inv, Types
<1>4. CASE Arrive \/ UNCHANGED vars
  BY <1>4, SentFrame DEF Arrive, vars, callVars, outputVars
<1>5. CASE Calls
  BY <1>5, CallSent, SizesAssumption DEF Calls
<1> QED
  BY <1>1, <1>2, <1>3, <1>4, <1>5, WriteBlockSent, WriteReturnsSent DEF Next, Serve

LEMMA SentSafe == Spec => []SentInv
<1>1. Init => SentInv
  <2> SUFFICES ASSUME Init
               PROVE  SentInv
    OBVIOUS
  <2>1. sent = <<>> /\ pc = "idle" /\ pb.trap = "none" /\ pb.call = 0 /\ pb.ioReqCount = 0
    BY DEF Init
  <2> QED
    BY <2>1 DEF SentInv, Apart, Upto, Labelled
<1> QED
  BY <1>1, InvSafe, NextSent, PTL DEF Spec

\* The blocks of one call leave no gap and no overlap, and what a write reports
\* is what the device has of it, also when its last block failed (doPrime and
\* fujiWriteBlock).
THEOREM WritesSafe == Spec => []WritesExact
<1>1. SentInv => WritesExact
  <2> SUFFICES ASSUME SentInv
               PROVE  WritesExact
    OBVIOUS
  <2>1. \A k : Holds(sent, pb.call, k) => Carried(pb.call, k)
    BY DEF Holds, Carried
  <2>2. \A i, j \in DOMAIN sent : i < j /\ sent[i].call = sent[j].call =>
            sent[i].first + sent[i].len =< sent[j].first
    BY DEF SentInv, Apart
  <2> QED
    BY <2>1, <2>2 DEF SentInv, WritesExact
<1> QED
  BY <1>1, SentSafe, PTL

\* The two halves of a port have a number of their own each, and share a source.
LEMMA SourceOfPort ==
  ASSUME NEW ref \in RefNums
  PROVE  GetSource(ref) = CASE PortOf(ref) = "modem" -> 0
                            [] PortOf(ref) = "printer" -> 1
                            [] OTHER -> 3
<1>1. ref \in Int /\ ref =< -6
  BY RefNumsAssumption
<1>2. PICK h : h = (-ref - 6) \div 2
  OBVIOUS
<1>3. h \in Int /\ 2 * h =< -ref - 6 /\ -ref - 6 < 2 * h + 2
  BY <1>1, <1>2
<1>5. GetSource(ref) = IF h > 1 THEN 3 ELSE h
  BY <1>2 DEF GetSource
<1>7. CASE ref \in {-6, -7}
  <2>1. h = 0
    BY <1>1, <1>3, <1>7
  <2>2. PortOf(ref) = "modem"
    BY <1>7 DEF PortOf
  <2> QED
    BY <1>5, <2>1, <2>2
<1>8. CASE ref \in {-8, -9}
  <2>1. h = 1
    BY <1>1, <1>3, <1>8
  <2>2. PortOf(ref) = "printer"
    BY <1>8 DEF PortOf
  <2> QED
    BY <1>5, <2>1, <2>2
<1>9. CASE ref \notin {-6, -7, -8, -9}
  <2>1. h > 1
    BY <1>1, <1>3, <1>9
  <2>2. PortOf(ref) = "other"
    BY <1>9 DEF PortOf
  <2> QED
    BY <1>5, <2>1, <2>2
<1> QED
  BY <1>7, <1>8, <1>9

\* The source in a block's tag is 0 for the modem port, 1 for the printer port
\* and 3 for all others (getSource), whichever reference numbers the ports have;
\* its comment has 1, 2 and 3.
THEOREM SourcesSafe == Spec => []BlocksAttributed
<1>1. SentInv => BlocksAttributed
  <2> SUFFICES ASSUME SentInv, NEW i \in DOMAIN sent
               PROVE  LET port == PortOf(sent[i].ref)
                      IN  sent[i].src = IF port = "other" THEN CommentedSource[port]
                                                          ELSE CommentedSource[port] - 1
    BY DEF BlocksAttributed
  <2>1. sent[i].ref \in RefNums /\ sent[i].src = GetSource(sent[i].ref)
    BY DEF SentInv, Labelled
  <2>2. /\ CommentedSource["modem"] - 1 = 0 /\ CommentedSource["printer"] - 1 = 1
        /\ CommentedSource["other"] = 3
    BY DEF CommentedSource
  <2>3. PortOf(sent[i].ref) \in {"modem", "printer", "other"}
    BY DEF PortOf
  <2> QED
    BY <2>1, <2>2, <2>3, SourceOfPort
<1> QED
  BY <1>1, SentSafe, PTL
=============================================================================
