--------------------------- MODULE FujiSerialBasic ---------------------------
(***************************************************************************)
(* The synchronous serial driver, FujiSerial/FujiSerialBasic.c: the        *)
(* earlier version of the driver, without queues, staging and interrupts.  *)
(* A write goes to the device in blocks, each with the number of its       *)
(* source in the tag; a read is served from one input buffer, which is     *)
(* refilled whenever it is empty, and waits in a loop until it has all its *)
(* bytes.  All ports share the input buffer and the counters.              *)
(*                                                                         *)
(* Every call runs to its end before the next one starts.  What happens    *)
(* meanwhile is that bytes arrive at the device, and that floppy I/O fails.*)
(***************************************************************************)
EXTENDS Integers, Sequences

CONSTANTS
    RefNums,      \* driver reference numbers of the ports: any short from -6 down
    Sizes,        \* request sizes
    PayloadSize,  \* capacity of the input buffer, 500
    BlockSize,    \* what one write carries, 512
    MaxIn,        \* bound on the bytes that arrive
    MaxCalls      \* bound on the calls

ASSUME RefNumsAssumption ==
         \A ref \in RefNums : ref \in Int /\ ref + 6 =< 0 /\ 0 =< ref + 32768
ASSUME SizesAssumption == Sizes \subseteq Nat
ASSUME BuffersAssumption == PayloadSize \in Nat \ {0} /\ BlockSize \in Nat \ {0}
ASSUME BoundsAssumption == MaxIn \in Nat /\ MaxCalls \in Nat

noErr == 0
wrongTag == -1
ioErr == -36

VARIABLES
    pc,        \* "idle", or what the driver does: "write", "read", "status"
    pb,        \* the parameter block of the current, or the last, call
    left,      \* inOutBytes
    buffer,    \* the bytes a read has put into its client's buffer
    input,     \* readPos, readLeft, readAvail and the payload
    bytes,     \* the bytesRead and bytesWritten counters
    arrived,   \* how many bytes have arrived at the device
    taken,     \* how many of them the driver has fetched
    sent,      \* history: the blocks that the device received
    handed     \* history: the bytes copied to clients, in the order of the copies

callVars == <<pc, pb, left>>
inputVars == <<input, taken>>
outputVars == <<bytes, sent>>
vars == <<callVars, buffer, inputVars, outputVars, arrived, handed>>

\* 0 is a byte of a client's buffer that nothing was copied to.
Blank(n) == [i \in 1 .. n |-> 0]

Init ==
    /\ pc = "idle"
    /\ pb = [call |-> 0, ref |-> 0, trap |-> "none", ioReqCount |-> 0,
             ioActCount |-> 0, ioResult |-> noErr, csParam |-> 0, at |-> 0, copies |-> 0]
    /\ left = 0 /\ buffer = <<>>
    /\ input = [readPos |-> 0, readLeft |-> 0, readAvail |-> 0, payload |-> <<>>]
    /\ bytes = [bytesRead |-> 0, bytesWritten |-> 0]
    /\ arrived = 0 /\ taken = 0 /\ sent = <<>> /\ handed = <<>>

-----------------------------------------------------------------------------
\* Calls and their ends.

\* A client calls the driver.  The properties use where the stream of incoming
\* bytes stands, and how many copies a read has taken.
Call(ref, trap, n) ==
    /\ pc = "idle" /\ pb.call < MaxCalls
    /\ pc' = trap
    /\ pb' = [call |-> pb.call + 1, ref |-> ref, trap |-> trap, ioReqCount |-> n,
              ioActCount |-> 0, ioResult |-> noErr, csParam |-> 0,
              at |-> Len(handed), copies |-> 0]
    /\ left' = n
    /\ buffer' = IF trap = "read" THEN Blank(n) ELSE <<>>
    /\ UNCHANGED <<inputVars, outputVars, arrived, handed>>

\* IOReturn: the call is over.
Returns(act, err) ==
    /\ pc' = "idle"
    /\ pb' = [pb EXCEPT !.ioActCount = act, !.ioResult = err]
    /\ left' = left

-----------------------------------------------------------------------------
\* Writing.

Lesser(a, b) == IF a < b THEN a ELSE b

\* Mutant: the printer port is taken for the modem port.
ShiftedTwice(ref) == (-ref - 6) \div 4

\* getSource: the complement of the reference number, less 5, halved.
GetSource(ref) ==
    LET tmp == (-ref - 6) \div 2 IN IF tmp > 1 THEN 3 ELSE tmp

\* The next block of the client's buffer.
Block == LET n == Lesser(left, BlockSize)
             done == pb.ioReqCount - left
         IN  [src |-> GetSource(pb.ref), ref |-> pb.ref, call |-> pb.call,
              first |-> done, len |-> n]

WriteBlock ==
    /\ pc = "write" /\ left > 0
    /\ sent' = Append(sent, Block)
    /\ left' = left - Block.len
    /\ UNCHANGED <<pc, pb, buffer, inputVars, bytes, arrived, handed>>

\* Mutant: a failed write reports all of its bytes.
AllOfIt == pb.ioReqCount

\* What a write has done when its loop ends.
Done == pb.ioReqCount - left

\* The loop is over, or a block failed that the device may have or may not.
WriteReturns ==
    /\ pc = "write"
    /\ \/ left = 0 /\ Returns(Done, noErr) /\ sent' = sent
       \/ left > 0 /\ Returns(Done, ioErr) /\ sent' \in {sent, Append(sent, Block)}
    /\ bytes' = [bytes EXCEPT !.bytesWritten = @ + Done]
    /\ UNCHANGED <<buffer, inputVars, arrived, handed>>

-----------------------------------------------------------------------------
\* Reading.

\* Mutants: the overflow of the buffer before is kept; a full buffer counts as
\* an empty one.
KeepsAvail(avail) ==
    LET n == Lesser(avail, PayloadSize)
    IN  [readPos |-> 0, readLeft |-> n,
         readAvail |-> IF avail > n THEN avail - n ELSE input.readAvail,
         payload |-> [i \in 1 .. n |-> taken + i]]
FullIsEmpty(avail) ==
    [readPos |-> 0, readLeft |-> avail % PayloadSize, readAvail |-> 0,
     payload |-> [i \in 1 .. avail % PayloadSize |-> taken + i]]

\* fujiReadInput after a valid reply, which tells all that the device has and
\* carries as much of it as fits.
Filled(avail) ==
    LET n == Lesser(avail, PayloadSize)
    IN  [readPos |-> 0, readLeft |-> n, readAvail |-> avail - n,
         payload |-> [i \in 1 .. n |-> taken + i]]

\* Mutant: the buffer is refilled when it has too little.
TooLittle == input.readLeft < left

\* The buffer is refilled when it has nothing.
Empty == input.readLeft = 0

\* The buffer that a call works on.
Refilled == IF Empty THEN Filled(arrived - taken) ELSE input

Fetch == taken' = IF Empty THEN taken + Refilled.readLeft ELSE taken

\* Mutant: the bytes are taken from the start of the payload.
FromStart(in, n) == SubSeq(in.payload, 1, n)

\* The n bytes of the payload from readPos on.
FromPos(in, n) == SubSeq(in.payload, in.readPos + 1, in.readPos + n)

\* One turn of the loop.  BlockMove has the start of the client's buffer as its
\* destination each time.
ReadMore ==
    LET n == Lesser(left, Refilled.readLeft)
        data == FromPos(Refilled, n)
    IN  /\ pc = "read" /\ left > 0
        /\ Fetch
        /\ input' = [Refilled EXCEPT !.readLeft = @ - n, !.readPos = @ + n]
        /\ buffer' = data \o SubSeq(buffer, n + 1, Len(buffer))
        /\ handed' = handed \o data
        /\ left' = left - n
        /\ pb' = [pb EXCEPT !.copies = IF n > 0 THEN @ + 1 ELSE @]
        /\ UNCHANGED <<pc, outputVars, arrived>>

\* The loop is over, or the refill failed; ioActCount and the counter do not
\* tell one from the other.
ReadReturns ==
    /\ pc = "read"
    /\ \/ left = 0 /\ Returns(pb.ioReqCount, noErr)
       \/ /\ left > 0 /\ Empty
          /\ \E err \in {ioErr, wrongTag} : Returns(pb.ioReqCount, err)
    /\ bytes' = [bytes EXCEPT !.bytesRead = @ + pb.ioReqCount]
    /\ UNCHANGED <<buffer, inputVars, sent, arrived, handed>>

\* SerGetBuf: refill an empty buffer, ignoring a failure, and add up.
Total(in) == (in.readLeft + in.readAvail) % 65536

Status ==
    /\ pc = "status"
    /\ \/ /\ Fetch
          /\ input' = Refilled
          /\ pb' = [pb EXCEPT !.csParam = Total(Refilled)]
       \/ /\ Empty
          /\ pb' = [pb EXCEPT !.csParam = Total(input)]
          /\ UNCHANGED inputVars
    /\ pc' = "idle"
    /\ UNCHANGED <<left, buffer, outputVars, arrived, handed>>

-----------------------------------------------------------------------------
\* What the device holds can be told in avail, a signed 16-bit number.
DeviceLimit == 32767

Arrive ==
    /\ arrived < MaxIn /\ arrived - taken < DeviceLimit
    /\ arrived' = arrived + 1
    /\ UNCHANGED <<callVars, buffer, inputVars, outputVars, handed>>

Serve == WriteBlock \/ WriteReturns \/ ReadMore \/ ReadReturns \/ Status
Calls == \E ref \in RefNums :
            \/ \E trap \in {"read", "write"}, n \in Sizes : Call(ref, trap, n)
            \/ Call(ref, "status", 0)
Next == Calls \/ Serve \/ Arrive

\* The processor executes the call it is in; the I/O may fail and need not.
Works == Serve /\ pb'.ioResult = noErr
Spec == Init /\ [][Next]_vars /\ WF_vars(Works)
-----------------------------------------------------------------------------
\* Properties.

\* What is left of the buffer.
Unread == SubSeq(input.payload, input.readPos + 1, input.readPos + input.readLeft)

\* Whatever sizes are read and whichever port reads them, each fetched byte is
\* copied to a client once and in order, or is still in the buffer.
HandedInOrder == handed \o Unread = [i \in 1 .. taken |-> i]

\* The next bytes of the stream are in the client's buffer.
ReadCorrectly == buffer = [i \in 1 .. pb.ioReqCount |-> pb.at + i]
ReadSucceeded == pc = "idle" /\ pb.trap = "read" /\ pb.ioResult = noErr

\* A read that took one copy gives its client exactly the next bytes of the
\* stream, wherever in the buffer they were and whoever read before it.
ShortReadsIntact == ReadSucceeded /\ pb.copies = 1 => ReadCorrectly

\* The same of every read that reports success.  "Data verification error on
\* byte ..." is what the tests say when it does not hold.
ReadsIntact == ReadSucceeded => ReadCorrectly

\* When SerGetBuf returns, it has promised no more than can be read, also after
\* a refill that failed: what readAvail then counts is still at the device.
StatusHonest ==
    pc = "idle" /\ pb.trap = "status" => pb.csParam =< input.readLeft + arrived - taken

\* The blocks of one call leave no gap and no overlap, a call that failed has
\* not reported more than the device has, and one that succeeded has sent it all.
Carried(c, k) == \E i \in DOMAIN sent :
    sent[i].call = c /\ sent[i].first < k /\ k =< sent[i].first + sent[i].len
WritesExact ==
    /\ \A i, j \in DOMAIN sent : i < j /\ sent[i].call = sent[j].call =>
          sent[i].first + sent[i].len =< sent[j].first
    /\ pc = "idle" /\ pb.trap = "write" =>
          /\ \A k \in 1 .. pb.ioActCount : Carried(pb.call, k)
          /\ pb.ioResult = noErr => pb.ioActCount = pb.ioReqCount

\* Each block names its port, for any number that the unit table may have given
\* to a driver, and the two halves of a port share one source.  The comment in
\* getSource promises 1, 2 and 3; the code gives the modem port and the printer
\* port the number below, so that a device that goes by the comment would take
\* the printer port's blocks for the modem port's.
PortOf(ref) == IF ref \in {-6, -7} THEN "modem"
               ELSE IF ref \in {-8, -9} THEN "printer" ELSE "other"
CommentedSource == [modem |-> 1, printer |-> 2, other |-> 3]
BlocksAttributed ==
    \A i \in DOMAIN sent :
        LET port == PortOf(sent[i].ref)
        IN  sent[i].src = IF port = "other" THEN CommentedSource[port]
                                            ELSE CommentedSource[port] - 1

\* A read of bytes that have arrived returns, however often the I/O fails and
\* however many refills it takes.
ReadsReturn ==
    [](pc = "read" /\ left =< input.readLeft + arrived - taken => <>(pc = "idle"))
=============================================================================
