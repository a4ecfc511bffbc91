----------------------------- MODULE SerialTests -----------------------------
(***************************************************************************)
(* The throughput test of the test application (testSerialThroughput in    *)
(* FujiTests/SerialTests.c), run against the abstract port and against the *)
(* loopback program on the other end of the line                           *)
(* (linux/mac_ndev_loopback.cpp).                                          *)
(*                                                                         *)
(* The test writes messages of a running alphabet on the output port and   *)
(* reads the echo back from the input port, either as much as is still     *)
(* missing or as much as SerGetBuf promises, until all has come back; then *)
(* it doubles the message size.  Its calls are synchronous, so each port   *)
(* has one call at a time; what overlaps is the staging, the two buffers,  *)
(* the floppy I/O and the loopback's own buffer.                           *)
(***************************************************************************)
EXTENDS Integers, Sequences, FiniteSetsExt

CONSTANTS
    AOut, AIn,      \* the two ports that the test opens
    PayloadSize,    \* capacity of the driver's staging buffers
    LoopSize,       \* size of the loopback's buffer, 512
    kMesgBufSIze,   \* size of the test's buffer, 2000
    Period,         \* length of the alphabet, 26
    Rounds,         \* message sizes that are tried, 10
    Messages        \* bound on the messages sent in the 20 seconds of a round

ASSUME BuffersAssumption ==
    /\ PayloadSize \in Nat \ {0} /\ LoopSize \in Nat \ {0}
    /\ kMesgBufSIze \in Nat \ {0} /\ Period \in Nat \ {0}
ASSUME RoundsAssumption == Rounds \in Nat \ {0} /\ Messages \in Nat \ {0}

None == 1     \* neither a port nor a result
noErr == 0
ioErr == -36
MessageSize(i) == (3 * 2^i) \div 2    \* in rounds 0 .. Rounds - 1

ASSUME PortsAssumption == AOut # AIn
ASSUME MessagesAssumption == \A i \in 0 .. Rounds - 1 : MessageSize(i) \in Nat

\* Every byte may need a read of its own; one block is left over at the end.
AllBytes == Messages * MapThenSumSet(MessageSize, 0 .. Rounds - 1)
Pbs == 1 .. Rounds * Messages + AllBytes + 1

VARIABLES
    queue, call, outcome,           \* the abstract port, see SerialPort
    staged, sent, unread, delivered, taken, broken,
    looped,     \* how many of the sent bytes the loopback has read
    echoed,     \* what it has written back
    useSerGet,  \* the parameter of the test
    pc,         \* where the test is
    test,       \* its variables
    base,       \* [Pbs -> seed before the first byte of a written message]
    torn        \* history: SerGetBuf has promised more than there was

portVars == <<queue, call, outcome, staged, sent, unread, delivered, taken, broken>>
loopVars == <<looped, echoed>>
testVars == <<useSerGet, pc, test, base, torn>>
vars == <<portVars, loopVars, testVars>>

Port == INSTANCE SerialPort WITH
          Drivers <- {AOut, AIn},
          AllCalls <- {<<AOut, "aWrCmd">>, <<AIn, "aRdCmd">>},
          Sizes <- 0 .. AllBytes,
          MaxIn <- AllBytes

\* nextRand, k times.  A seed is a letter, 0 stands for 'a' and anything below.
NextRand(seed, k) == (seed + k) % Period

\* The letter of a byte of a written message.
Letter(b) == NextRand(base[b[1]], b[2])

\* Mutants: a counter, or a seed, of the last round is kept.
KeepsCount(t) == [t EXCEPT !.round = @ + 1, !.bytesWritten = 0, !.messages = 0,
                           !.writeRand = 0, !.readRand = 0, !.timeUp = FALSE]
KeepsSeed(t) == [t EXCEPT !.round = @ + 1, !.bytesWritten = 0, !.bytesRead = 0,
                          !.messages = 0, !.writeRand = 0, !.timeUp = FALSE]

\* The next round starts with its counters and seeds at 0.
NextRound(t) == [t EXCEPT !.round = @ + 1, !.bytesWritten = 0, !.bytesRead = 0,
                          !.messages = 0, !.writeRand = 0, !.readRand = 0,
                          !.timeUp = FALSE]

Init ==
    /\ Port!Init
    /\ looped = 0 /\ echoed = <<>>
    /\ useSerGet \in BOOLEAN
    /\ pc = "loop"
    /\ test = [round |-> 0, pb |-> 1, bytesWritten |-> 0, bytesRead |-> 0,
               writeRand |-> 0, readRand |-> 0, messages |-> 0, timeUp |-> FALSE,
               asked |-> 0]
    /\ base = [p \in Pbs |-> 0]
    /\ torn = FALSE

-----------------------------------------------------------------------------
\* The test.

\* The test's call, while the bound of Pbs is not reached.
Current == {test.pb} \cap Pbs

\* PBWrite and PBRead make the test's next call and wait for its result.
Issue(c, n) == \E p \in Current : Port!Issue(p, c, n)
Result == outcome[test.pb]

\* CHECK_ERR leaves the test at the first failed call.
Fails ==
    /\ pc \in {"write", "read"}
    /\ Result \notin {None, noErr}
    /\ pc' = "failed"
    /\ UNCHANGED <<portVars, loopVars, useSerGet, test, base, torn>>

\* The next message of the round.  Its sending may use up the 20 seconds.
Write ==
    /\ pc = "loop" /\ ~test.timeUp
    /\ Issue(<<AOut, "aWrCmd">>, MessageSize(test.round))
    /\ base' = [base EXCEPT ![test.pb] = test.writeRand]
    /\ \E late \in {test.messages + 1 = Messages, TRUE} :
          test' = [test EXCEPT !.messages = @ + 1, !.timeUp = late,
                     !.writeRand = NextRand(@, MessageSize(test.round))]
    /\ pc' = "write"
    /\ UNCHANGED <<loopVars, useSerGet, torn>>

\* PBWrite returns: bytesWritten grows by what the driver says.
Written ==
    /\ pc = "write" /\ Result = noErr
    /\ test' = [test EXCEPT !.pb = @ + 1,
                            !.bytesWritten = @ + call[test.pb].ioActCount]
    /\ pc' = "check"
    /\ UNCHANGED <<portVars, loopVars, useSerGet, base, torn>>

\* Nothing more to write in this round.
WritesNoMore ==
    /\ pc = "loop" /\ test.timeUp
    /\ pc' = "check"
    /\ UNCHANGED <<portVars, loopVars, useSerGet, test, base, torn>>

\* All bytes came back.  (Mutant: the time is up.)
TimeIsUp == test.timeUp
AllIsBack == test.bytesRead = test.bytesWritten

RoundEnds ==
    /\ pc = "check" /\ AllIsBack
    /\ IF test.round + 1 < Rounds
       THEN test' = NextRound(test) /\ pc' = "loop"
       ELSE test' = test /\ pc' = "done"
    /\ UNCHANGED <<portVars, loopVars, useSerGet, base, torn>>

\* What the test knows to be on its way.
Missing == test.bytesWritten - test.bytesRead

\* Not all is back: the test asks what is available, or knows what is missing.
AsksStatus ==
    /\ pc = "check" /\ ~AllIsBack
    /\ test' = [test EXCEPT !.asked = taken]
    /\ pc' = "status"
    /\ UNCHANGED <<portVars, loopVars, useSerGet, base, torn>>

\* What SerGetBuf may answer: what is in the buffer and up to all that waits
\* behind it; and, when a fetch came between its reads, a count of the old
\* buffer (see torn_status).
Promises == Len(unread) .. Len(unread) + Len(echoed) - taken
TornPromises == IF taken = test.asked THEN {} ELSE 0 .. PayloadSize

Answers == IF useSerGet THEN Promises \cup TornPromises ELSE {Missing}

\* Read as much, unless that is nothing.
Read ==
    /\ pc = "status"
    /\ \E avail \in Answers :
         LET n == IF avail > kMesgBufSIze THEN kMesgBufSIze ELSE avail
         IN  IF n = 0
             THEN pc' = "loop" /\ UNCHANGED <<portVars, torn>>
             ELSE /\ Issue(<<AIn, "aRdCmd">>, n)
                  /\ torn' = (torn \/ n > Missing)
                  /\ pc' = "read"
    /\ UNCHANGED <<loopVars, useSerGet, test, base>>

\* What the current read was given: which of the delivered bytes, in the order
\* in which they lie in its buffer, and their letters.
Given == {i \in DOMAIN delivered : delivered[i][1] = test.pb}
PlaceInBuffer(i) == Cardinality({j \in Given : j =< i})
Received(i) == Letter(echoed[delivered[i][2]])

\* PBRead returns: each byte is compared with the alphabet.
Verify ==
    /\ pc = "read" /\ Result = noErr
    /\ IF \E i \in Given : Received(i) # NextRand(test.readRand, PlaceInBuffer(i))
       THEN pc' = "mismatch" /\ test' = test
       ELSE /\ pc' = "loop"
            /\ test' = [test EXCEPT !.pb = @ + 1,
                          !.bytesRead = @ + call[test.pb].ioActCount,
                          !.readRand = NextRand(@, call[test.pb].ioActCount)]
    /\ UNCHANGED <<portVars, loopVars, useSerGet, base, torn>>

\* The driver may overwrite a result that the test is polling for with "in
\* progress" (see lost_completion); the call then never returns.
Hangs ==
    /\ pc \in {"write", "read"}
    /\ Result # None
    /\ pc' = "hung"
    /\ UNCHANGED <<portVars, loopVars, useSerGet, test, base, torn>>

Test == Fails \/ Write \/ Written \/ WritesNoMore \/ RoundEnds
        \/ AsksStatus \/ Read \/ Verify
-----------------------------------------------------------------------------
\* The port, once it is open, and the loopback program.

\* The port moves bytes and reports results.
PortMoves ==
    \/ \E p \in Current, k \in 1 .. PayloadSize : Port!Accept(p, k) \/ Port!Deliver(p, k)
    \/ \E p \in Current, r \in {noErr, ioErr} : Port!Complete(p, r)
    \/ Port!Flush
PortFetches == \E n \in 1 .. PayloadSize : taken + n =< Len(echoed) /\ Port!Fetch(n)

PortStep == /\ PortMoves \/ PortFetches \/ Port!Break
            /\ UNCHANGED <<loopVars, testVars>>

\* Mutant: the loopback reads a full buffer or nothing.
FullBuffer(n) == n = LoopSize

\* read returns what is there, up to the size of the buffer.
ReadReturns(n) == n =< LoopSize

\* One turn of the loop: w of the n bytes are written back; when w is smaller
\* the program reports an error and forgets the rest.
Loop ==
    \E n \in 1 .. Len(sent) - looped, w \in 0 .. LoopSize :
        /\ ReadReturns(n) /\ w =< n
        /\ looped' = looped + n
        /\ echoed' = echoed \o SubSeq(sent, looped + 1, looped + w)
        /\ UNCHANGED <<portVars, testVars>>

Next == Test \/ Hangs \/ PortStep \/ Loop

\* The test runs on; the port keeps moving bytes while it can (what the
\* liveness properties of FujiSerialAsync say); the loopback program runs on.
Fairness == /\ WF_vars(Test)
            /\ WF_vars(PortMoves /\ UNCHANGED <<loopVars, testVars>>)
            /\ WF_vars(PortFetches /\ UNCHANGED <<loopVars, testVars>>)
            /\ WF_vars(Loop)

Spec == Init /\ [][Next]_vars /\ Fairness
-----------------------------------------------------------------------------
\* Properties.

\* The line has lost bytes: the loopback has forgotten some.
Lost == Len(echoed) < looped

\* A "Data verification error" means that the line lost bytes: neither the
\* driver's staging and buffering nor the way the test splits its reads puts a
\* wrong byte in front of it.
MismatchMeansLoss == pc = "mismatch" => Lost

\* The test passes only if the line lost nothing and every byte that any round
\* wrote was sent, came back and was compared: losses never cancel out, and no
\* byte of a round is left over for the next.
NoFalsePass ==
    pc = "done" => /\ ~Lost
                   /\ staged = <<>> /\ unread = <<>>
                   /\ Len(delivered) = Len(sent)

\* "Got negative avail bytes!" is never printed: at no time have more bytes
\* been read than were written in the round, though SerGetBuf may promise more.
NeverNegative == test.bytesRead =< test.bytesWritten

\* The test comes to an end, unless bytes were lost on the line, SerGetBuf
\* promised too much, the result of a call was overwritten, or SerGetBuf, which
\* reports success on a failed connection, is asked again and again.
TestEnds ==
    <>(\/ pc \in {"done", "failed", "mismatch", "hung"}
       \/ Lost
       \/ torn
       \/ broken /\ useSerGet)
=============================================================================
