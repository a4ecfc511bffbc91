--------------------------- MODULE FujiSerialAsync ---------------------------
(***************************************************************************)
(* The asynchronous serial driver, FujiSerial/FujiSerialAsync.c.           *)
(*                                                                         *)
(* Every redirected serial port (.AOut, .AIn, ...) and the driver's own    *)
(* port (.Fuji) run the same code over one block of shared data.  Clients  *)
(* queue reads and writes with the Device Manager; doPrime moves bytes     *)
(* between the client's buffer and one of two staging buffers; a vertical- *)
(* blanking task and the completion routines of the floppy I/O move the    *)
(* staging buffers to and from the device and wake parked requests.        *)
(*                                                                         *)
(* Two things interleave.  The MAIN thread issues calls and executes the   *)
(* driver's code one shared-memory access (or one block of accesses that   *)
(* the mutex protects) per step.  The INTERRUPT level runs the VBL task,   *)
(* the I/O completions, and calls that clients make from their own         *)
(* completion routines.  An interrupt handler may start between any two    *)
(* main steps and runs to its end before main or another handler           *)
(* continues: main steps need irq.pc = "none".                             *)
(***************************************************************************)
EXTENDS StorageSpec, Sequences, FiniteSets

CONSTANTS
    Drivers,    \* the driver reference numbers that share the data block
    Fuji,       \* the .Fuji driver, whose info slot is filled at install
    Pbs,        \* parameter blocks; each is issued at most once
    None,       \* the null pointer, and the zero reference number
    Calls,      \* <<driver, trap>> pairs the main thread may issue
    IrqCalls,   \* those that completion routines may issue
    Sizes,      \* request sizes
    MaxIn,      \* bound on the bytes the device has for us
    VblTicks,   \* data->vblCount: ticks between two runs of the VBL task
    Faults,     \* TRUE when the floppy I/O may fail
    LateOpen    \* TRUE when a port may be opened while there is traffic

Traps == {"aRdCmd", "aWrCmd", "ctl", "sts"}

ASSUME DriversAssumption ==
    /\ IsFiniteSet(Drivers)
    /\ Fuji \in Drivers
    /\ None \notin Drivers
ASSUME PbsAssumption == None \notin Pbs
ASSUME CallsAssumption ==
    /\ Calls \subseteq Drivers \X Traps
    /\ IrqCalls \subseteq Drivers \X Traps
ASSUME SizesAssumption == Sizes \subseteq Nat
ASSUME BoundsAssumption == MaxIn \in Nat /\ VblTicks \in Nat \ {0}
ASSUME FlagsAssumption == Faults \in BOOLEAN /\ LateOpen \in BOOLEAN

\* Result codes: completed, still in progress, and the failures of the
\* floppy I/O, of a reply with a foreign tag, and of doOpen.
noErr == 0
ioInProgress == 1
wrongTag == -1
ioErr == -36
openErr == -23
portNotCf == -98

\* No result yet is not a result.
ASSUME NoneAssumption == None # noErr

NInfo == Cardinality(Drivers) + 1   \* "one more than the number of drivers"
Slots == 1 .. NInfo

VARIABLES
    port,           \* "absent", "installed" (dCtlStorage set), "connected"
    openResult,     \* [Drivers -> what the last open of the driver returned]
    queue,          \* [Drivers -> Seq(Pbs)], the Device Manager's dCtlQHdr
    pb,             \* [Pbs -> the parameter block]
    outcome,        \* history: the result each completion was reported with
    infoRef,        \* drvrInfo[i].refNum
    pendingPb,      \* drvrInfo[i].pendingPb; pendingDce goes with it
    connResult,     \* conn.iopb.ioResult
    io,             \* the floppy I/O in flight: "none", "read" or "write"
    readStorage,    \* readData.payload as a source for clients
    readPayload,
    readExtraAvail, \* what the device has beyond the staging buffer
    writeStorage,   \* writeData.payload as a destination for clients
    writePayload,
    writeLength,    \* writeData.length
    vblMutex,       \* mutexFlags
    inWakeUp,
    vblCount,       \* the VBL task's countdown, 0 until it is installed
    bytes,          \* the bytesRead and bytesWritten counters
    main,           \* the main thread's control state and locals
    irq,            \* the interrupt level's control state and locals
    accepted,       \* history: <<writer, k>>, the k-th byte of its buffer
    sent,           \* history: bytes the device has received
    fetched,        \* history: bytes the device has handed over
    delivered,      \* history: <<reader, byte>> copied into its buffer
    taken,          \* how many bytes the device has produced so far
    txDiscarded     \* history: an open threw accepted bytes away

portVars == <<port, openResult>>
callVars == <<queue, outcome>>
infoVars == <<infoRef, pendingPb>>
readVars == <<readStorage, readPayload, readExtraAvail, fetched, taken>>
writeVars == <<writeStorage, writePayload, writeLength, sent, txDiscarded>>
diskVars == <<connResult, io>>
syncVars == <<vblMutex, inWakeUp, vblCount>>
flowVars == <<accepted, delivered, bytes>>
vars == <<portVars, callVars, pb, infoVars, readVars, writeVars, diskVars,
          syncVars, flowVars, main, irq>>

-----------------------------------------------------------------------------
\* Types and derived state.

\* The null parameter block stands for "not issued yet".
FreePb == [drv |-> None, trap |-> "ctl", ioReqCount |-> 0, ioActCount |-> 0,
           ioResult |-> noErr, csParam |-> 0]
IdleMain == [pc |-> "idle", pb |-> None, drv |-> None, err |-> noErr,
             slot |-> 1, tmp |-> 0]
IdleIrq == [pc |-> "none", pb |-> None, err |-> noErr, slot |-> 1,
            from |-> "client"]

Issued(p) == pb[p].drv # None

\* Mutant: a resumed write starts over at the front of the client's buffer.
BytesOfFront(p, from, n) == [i \in 1 .. n |-> <<p, i>>]

\* Bytes from+1 .. from+n of writer p's buffer.
BytesOf(p, from, n) == [i \in 1 .. n |-> <<p, from + i>>]

\* The sequence s, copied into reader p's buffer, and the bytes of such a copy.
Tagged(p, s) == [i \in 1 .. Len(s) |-> <<p, s[i]>>]
Untagged(t) == [i \in 1 .. Len(t) |-> t[i][2]]

\* Mutant: the latest bytes are put in front of the others.
OverlayInFront(s, at, t) == t \o s

\* s with t written over it from offset at.
Overlay(s, at, t) ==
    SubSeq(s, 1, at) \o t \o SubSeq(s, at + Len(t) + 1, Len(s))

\* Bytes a reader can take without new floppy I/O, and bytes accepted from
\* writers that no floppy I/O has carried away.
Unread == SubSeq(readPayload, readStorage.ioActCount + 1,
                 readStorage.ioReqCount)
Staged == SubSeq(writePayload, 1, writeStorage.ioActCount)

ReadExhausted == readStorage.ioActCount = readStorage.ioReqCount

Init ==
    /\ port = "absent"
    /\ openResult = [d \in Drivers |-> None]
    /\ queue = [d \in Drivers |-> <<>>]
    /\ pb = [p \in Pbs |-> FreePb]
    /\ outcome = [p \in Pbs |-> None]
    /\ infoRef = [i \in Slots |-> None]
    /\ pendingPb = [i \in Slots |-> None]
    /\ connResult = noErr
    /\ io = "none"
    /\ readStorage = [ioReqCount |-> 0, ioActCount |-> 0]
    /\ readPayload = <<>>
    /\ readExtraAvail = 0
    /\ writeStorage = [ioReqCount |-> 0, ioActCount |-> 0]
    /\ writePayload = <<>>
    /\ writeLength = 0
    /\ vblMutex = FALSE
    /\ inWakeUp = FALSE
    /\ vblCount = 0
    /\ bytes = [bytesRead |-> 0, bytesWritten |-> 0]
    /\ main = IdleMain
    /\ irq = IdleIrq
    /\ accepted = <<>>
    /\ sent = <<>>
    /\ fetched = <<>>
    /\ delivered = <<>>
    /\ taken = 0
    /\ txDiscarded = FALSE

-----------------------------------------------------------------------------
\* The Device Manager: queueing a call, and reporting its completion.

\* Where the DRVR dispatcher sends a call of the given trap.
Entry(trap) == CASE trap = "ctl" -> "ctl"
                 [] trap = "sts" -> "sts1"
                 [] OTHER        -> "lock"

\* d's queue with p at its end.
QueueWith(d, p) == Append(queue[d], p)

\* A client fills in p and queues call c; the Device Manager marks it in
\* progress and clears its count.
Enqueue(p, c, n) ==
    /\ ~Issued(p)
    /\ openResult[c[1]] = noErr
    /\ pb' = [pb EXCEPT ![p] =
                [drv |-> c[1], trap |-> c[2], ioReqCount |-> n,
                 ioActCount |-> 0, ioResult |-> ioInProgress, csParam |-> 0]]
    /\ queue' = [queue EXCEPT ![c[1]] = QueueWith(c[1], p)]

\* A call starts at once on an idle driver, and waits its turn otherwise.
StartsAtOnce(d) == queue[d] = <<>>

\* JIODone: p leaves the head of its queue and its caller is told r.
IODone(p, r) ==
    /\ pb' = [pb EXCEPT ![p].ioResult = r]
    /\ outcome' = [outcome EXCEPT ![p] = r]
    /\ queue' = [queue EXCEPT ![pb[p].drv] = Tail(@)]

\* The call the Device Manager starts when p is done, None if there is none.
NextCall(p) == IF Len(queue[pb[p].drv]) > 1 THEN queue[pb[p].drv][2] ELSE None

-----------------------------------------------------------------------------
\* The data transfer of doPrime, for a caller that holds the buffers.

CountFor(p) == IF pb[p].trap = "aRdCmd" THEN CopyCount(readStorage, pb[p])
                                        ELSE CopyCount(pb[p], writeStorage)

\* Mutant: the connection's result is not looked at.
ConnIgnored == TRUE

\* No floppy I/O has failed, and none is in flight.
ConnOk == connResult = noErr

\* Mutants: a transfer that moved something is taken for a finished one; the
\* connection's error is replaced by a general one; a broken connection is taken
\* for a busy one.
PrimeErrEarly(p) ==
    IF ~ConnOk THEN connResult
    ELSE IF CountFor(p) > 0 THEN noErr
    ELSE ioInProgress
PrimeErrGeneral(p) ==
    IF ~ConnOk THEN ioErr
    ELSE IF pb[p].ioActCount + CountFor(p) = pb[p].ioReqCount THEN noErr
    ELSE ioInProgress
PrimeErrWaits(p) ==
    IF ConnOk /\ pb[p].ioActCount + CountFor(p) = pb[p].ioReqCount THEN noErr
    ELSE ioInProgress

\* The value of err after doPrime's transfer.
PrimeErr(p) ==
    IF ~ConnOk THEN connResult
    ELSE IF pb[p].ioActCount + CountFor(p) = pb[p].ioReqCount THEN noErr
    ELSE ioInProgress

\* Mutant: every partial transfer is counted.
CountedPartial(p) == IF ConnOk THEN CountFor(p) ELSE 0

\* What doPrime adds to bytesRead or bytesWritten.
Counted(p) == IF PrimeErr(p) = noErr THEN pb[p].ioReqCount ELSE 0

\* p after the transfer; r is what its ioResult field holds afterwards.
Moved(p, n, r) ==
    pb' = [pb EXCEPT ![p].ioActCount = @ + n, ![p].ioResult = r]

\* Nothing moves while the connection is in error.
TransferFails(p, r) ==
    /\ ~ConnOk
    /\ Moved(p, 0, r)
    /\ UNCHANGED <<flowVars, readStorage, writeStorage, writePayload>>

TransferIn(p, r) ==
    LET n == CopyCount(readStorage, pb[p])
    IN  /\ ConnOk
        /\ pb[p].trap = "aRdCmd"
        /\ delivered' = delivered \o
              Tagged(p, SubSeq(readPayload, readStorage.ioActCount + 1,
                                            readStorage.ioActCount + n))
        /\ readStorage' = Advance(readStorage, n)
        /\ Moved(p, n, r)
        /\ bytes' = [bytes EXCEPT !.bytesRead = @ + Counted(p)]
        /\ UNCHANGED <<accepted, writeStorage, writePayload>>

TransferOut(p, r) ==
    LET n == CopyCount(pb[p], writeStorage)
        data == BytesOf(p, pb[p].ioActCount, n)
    IN  /\ ConnOk
        /\ pb[p].trap = "aWrCmd"
        /\ accepted' = accepted \o data
        /\ writePayload' = Overlay(writePayload, writeStorage.ioActCount, data)
        /\ writeStorage' = Advance(writeStorage, n)
        /\ Moved(p, n, r)
        /\ bytes' = [bytes EXCEPT !.bytesWritten = @ + Counted(p)]
        /\ UNCHANGED <<delivered, readStorage>>

Transfer(p, r) ==
    /\ TransferFails(p, r) \/ TransferIn(p, r) \/ TransferOut(p, r)
    /\ UNCHANGED <<readPayload, readExtraAvail, fetched, taken, writeLength,
                   sent, txDiscarded>>

\* Mutant: getDriverInfo takes the first free slot.
FreeSlot(d) ==
    CHOOSE i \in Slots :
        infoRef[i] = None /\ \A j \in 1 .. i - 1 : infoRef[j] # None

\* The slot getDriverInfo returns for d: the first that is d's or is free.
InfoSlot(d) ==
    CHOOSE i \in Slots :
        /\ infoRef[i] \in {d, None}
        /\ \A j \in 1 .. i - 1 : infoRef[j] \notin {d, None}

-----------------------------------------------------------------------------
\* Installing, connecting and opening: the main thread, before any traffic
\* unless LateOpen.

Opening == main.pc \in {"open1", "open2", "open3", "open4", "open5"}

MainAt(pc) == main.pc = pc /\ irq.pc = "none"
Goto(pc) == main' = [main EXCEPT !.pc = pc]

\* fujiSerialInstall: the data block exists and slot 1 belongs to .Fuji.
Install ==
    /\ MainAt("idle")
    /\ port = "absent"
    /\ port' = "installed"
    /\ infoRef' = [infoRef EXCEPT ![1] = Fuji]
    /\ UNCHANGED <<openResult, callVars, pb, pendingPb, readVars, writeVars,
                   diskVars, syncVars, flowVars, main, irq>>

\* The end of fujiOpen: the connection block is filled in and .Fuji opened.
Connect ==
    /\ MainAt("idle")
    /\ port = "installed"
    /\ port' = "connected"
    /\ main' = [main EXCEPT !.pc = "open1", !.drv = Fuji]
    /\ UNCHANGED <<openResult, callVars, pb, infoVars, readVars, writeVars,
                   diskVars, syncVars, flowVars, irq>>

\* A client opens d: doOpen's two early returns, or its first step.
Open(d) ==
    /\ MainAt("idle")
    /\ openResult[d] # noErr
    /\ LateOpen \/ \A p \in Pbs : ~Issued(p)
    /\ \/ /\ port = "absent"
          /\ openResult' = [openResult EXCEPT ![d] = openErr]
          /\ UNCHANGED main
       \/ /\ port = "installed"
          /\ openResult' = [openResult EXCEPT ![d] = portNotCf]
          /\ UNCHANGED main
       \/ /\ port = "connected"
          /\ main' = [main EXCEPT !.pc = "open1", !.drv = d]
          /\ UNCHANGED openResult
    /\ UNCHANGED <<port, callVars, pb, infoVars, readVars, writeVars,
                   diskVars, syncVars, flowVars, irq>>

\* doOpen takes no mutex.  It forgives an earlier I/O error ...
OpenConnResult ==
    /\ MainAt("open1")
    /\ connResult' = noErr
    /\ Goto("open2")
    /\ UNCHANGED <<portVars, callVars, pb, infoVars, readVars, writeVars, io,
                   syncVars, flowVars, irq>>

\* ... forgets what was fetched and not delivered ...
OpenReadReq ==
    /\ MainAt("open2")
    /\ readStorage' = [readStorage EXCEPT !.ioReqCount = 0]
    /\ fetched' = Untagged(delivered)
    /\ Goto("open3")
    /\ UNCHANGED <<portVars, callVars, pb, infoVars, readPayload,
                   readExtraAvail, taken, writeVars, diskVars, syncVars,
                   flowVars, irq>>

\* ... in two assignments ...
OpenReadAct ==
    /\ MainAt("open3")
    /\ readStorage' = [readStorage EXCEPT !.ioActCount = 0]
    /\ Goto("open4")
    /\ UNCHANGED <<portVars, callVars, pb, infoVars, readPayload,
                   readExtraAvail, fetched, taken, writeVars, diskVars,
                   syncVars, flowVars, irq>>

\* ... and what was accepted and not written ...
OpenWrite ==
    /\ MainAt("open4")
    /\ writeStorage' = [ioReqCount |-> PayloadSize, ioActCount |-> 0]
    /\ txDiscarded' = (txDiscarded \/ writeStorage.ioActCount > 0)
    /\ Goto("open5")
    /\ UNCHANGED <<portVars, callVars, pb, infoVars, readVars, writePayload,
                   writeLength, sent, diskVars, syncVars, flowVars, irq>>

\* ... and starts the VBL task unless it runs already.
OpenStartVBL ==
    /\ MainAt("open5")
    /\ vblCount' = IF vblCount = 0 THEN VblTicks ELSE vblCount
    /\ openResult' = [openResult EXCEPT ![main.drv] = noErr]
    /\ main' = IdleMain
    /\ UNCHANGED <<port, callVars, pb, infoVars, readVars, writeVars,
                   diskVars, vblMutex, inWakeUp, flowVars, irq>>

\* doClose does nothing; the Device Manager closes an idle driver only.
Close(d) ==
    /\ MainAt("idle")
    /\ openResult[d] = noErr
    /\ queue[d] = <<>>
    /\ openResult' = [openResult EXCEPT ![d] = None]
    /\ UNCHANGED <<port, callVars, pb, infoVars, readVars, writeVars,
                   diskVars, syncVars, flowVars, main, irq>>

MainOpen == \/ Install \/ Connect
            \/ \E d \in Drivers : Open(d) \/ Close(d)
            \/ OpenConnResult \/ OpenReadReq \/ OpenReadAct \/ OpenWrite
            \/ OpenStartVBL

-----------------------------------------------------------------------------
\* Calls made by the main thread.

MainIssue(p, c, n) ==
    /\ MainAt("idle")
    /\ Enqueue(p, c, n)
    /\ main' = IF StartsAtOnce(c[1])
               THEN [IdleMain EXCEPT !.pc = Entry(c[2]), !.pb = p]
               ELSE main
    /\ UNCHANGED <<portVars, outcome, infoVars, readVars, writeVars, diskVars,
                   syncVars, flowVars, irq>>

\* doControl recognises nothing and reports success.
DoControl ==
    /\ MainAt("ctl")
    /\ main' = [main EXCEPT !.pc = "return", !.err = noErr]
    /\ UNCHANGED <<portVars, callVars, pb, infoVars, readVars, writeVars,
                   diskVars, syncVars, flowVars, irq>>

\* doStatus reads three fields, without the mutex, and adds them up.
StatusReq ==
    /\ MainAt("sts1")
    /\ main' = [main EXCEPT !.pc = "sts2", !.tmp = readStorage.ioReqCount]
    /\ UNCHANGED <<portVars, callVars, pb, infoVars, readVars, writeVars,
                   diskVars, syncVars, flowVars, irq>>
StatusAct ==
    /\ MainAt("sts2")
    /\ main' = [main EXCEPT !.pc = "sts3", !.tmp = @ - readStorage.ioActCount]
    /\ UNCHANGED <<portVars, callVars, pb, infoVars, readVars, writeVars,
                   diskVars, syncVars, flowVars, irq>>
StatusExtra ==
    /\ MainAt("sts3")
    /\ pb' = [pb EXCEPT ![main.pb].csParam = LowWord(main.tmp + readExtraAvail)]
    /\ main' = [main EXCEPT !.pc = "return", !.err = noErr]
    /\ UNCHANGED <<portVars, callVars, infoVars, readVars, writeVars,
                   diskVars, syncVars, flowVars, irq>>

\* Mutant: doPrime does not ask for the buffers.
AlwaysFree == TRUE

\* The first condition of doPrime.
BuffersFree == inWakeUp \/ ~vblMutex

\* doPrime: the buffers are free, or they are not.
PrimeTakes ==
    /\ MainAt("lock")
    /\ BuffersFree
    /\ vblMutex' = TRUE
    /\ Goto("xfer")
    /\ UNCHANGED <<portVars, callVars, pb, infoVars, readVars, writeVars,
                   diskVars, inWakeUp, vblCount, flowVars, irq>>
PrimeMisses ==
    /\ MainAt("lock")
    /\ ~BuffersFree
    /\ main' = [main EXCEPT !.pc = "find", !.err = ioInProgress]
    /\ UNCHANGED <<portVars, callVars, pb, infoVars, readVars, writeVars,
                   diskVars, syncVars, flowVars, irq>>

PrimeTransfer ==
    /\ MainAt("xfer")
    /\ Transfer(main.pb, pb[main.pb].ioResult)
    /\ main' = [main EXCEPT !.pc = "unlock", !.err = PrimeErr(main.pb)]
    /\ UNCHANGED <<portVars, callVars, infoVars, diskVars, syncVars, irq>>

PrimeReleases ==
    /\ MainAt("unlock")
    /\ vblMutex' = FALSE
    /\ Goto(IF main.err = ioInProgress THEN "find" ELSE "result")
    /\ UNCHANGED <<portVars, callVars, pb, infoVars, readVars, writeVars,
                   diskVars, inWakeUp, vblCount, flowVars, irq>>

\* getDriverInfo searches the table and then claims the slot it found.
PrimeFindsSlot ==
    /\ MainAt("find")
    /\ main' = [main EXCEPT !.pc = "claim", !.slot = InfoSlot(pb[main.pb].drv)]
    /\ UNCHANGED <<portVars, callVars, pb, infoVars, readVars, writeVars,
                   diskVars, syncVars, flowVars, irq>>
PrimeClaimsSlot ==
    /\ MainAt("claim")
    /\ infoRef' = [infoRef EXCEPT ![main.slot] = pb[main.pb].drv]
    /\ Goto("park")
    /\ UNCHANGED <<portVars, callVars, pb, pendingPb, readVars, writeVars,
                   diskVars, syncVars, flowVars, irq>>

\* From here on the VBL task may complete the request ...
PrimeParks ==
    /\ MainAt("park")
    /\ pendingPb' = [pendingPb EXCEPT ![main.slot] = main.pb]
    /\ Goto("sched")
    /\ UNCHANGED <<portVars, callVars, pb, infoRef, readVars, writeVars,
                   diskVars, syncVars, flowVars, irq>>

\* ... which schedVBLTask makes due at the next tick ...
PrimeSchedules ==
    /\ MainAt("sched")
    /\ vblCount' = 1
    /\ Goto("result")
    /\ UNCHANGED <<portVars, callVars, pb, infoVars, readVars, writeVars,
                   diskVars, vblMutex, inWakeUp, flowVars, irq>>

\* ... and only then does doPrime store its result.
PrimeResult ==
    /\ MainAt("result")
    /\ pb' = [pb EXCEPT ![main.pb].ioResult = main.err]
    /\ Goto("return")
    /\ UNCHANGED <<portVars, callVars, infoVars, readVars, writeVars,
                   diskVars, syncVars, flowVars, irq>>

\* IOReturn: a result that is not positive completes the call, and the
\* Device Manager starts the next one of the queue; otherwise plain return.
IOReturn ==
    /\ MainAt("return")
    /\ IF main.err =< 0
       THEN /\ IODone(main.pb, main.err)
            /\ main' = IF NextCall(main.pb) = None THEN IdleMain
                       ELSE [IdleMain EXCEPT
                               !.pc = Entry(pb[NextCall(main.pb)].trap),
                               !.pb = NextCall(main.pb)]
       ELSE /\ main' = IdleMain
            /\ UNCHANGED <<callVars, pb>>
    /\ UNCHANGED <<portVars, infoVars, readVars, writeVars, diskVars,
                   syncVars, flowVars, irq>>

MainCall == \/ DoControl \/ StatusReq \/ StatusAct \/ StatusExtra
            \/ PrimeTakes \/ PrimeMisses \/ PrimeTransfer \/ PrimeReleases
            \/ PrimeFindsSlot \/ PrimeClaimsSlot \/ PrimeParks
            \/ PrimeSchedules \/ PrimeResult \/ IOReturn

MainIssues == \E p \in Pbs, c \in Calls, n \in Sizes : MainIssue(p, c, n)

-----------------------------------------------------------------------------
\* The interrupt level: the VBL task.

Interrupted == irq.pc # "none"

\* wakeDriversAndReleaseMutex begins; the caller holds the mutex.
StartWakeUp ==
    /\ inWakeUp' = TRUE
    /\ irq' = [IdleIrq EXCEPT !.pc = "wake"]

VblCountdown ==
    /\ ~Interrupted
    /\ vblCount > 1
    /\ vblCount' = vblCount - 1
    /\ UNCHANGED <<portVars, callVars, pb, infoVars, readVars, writeVars,
                   diskVars, vblMutex, inWakeUp, flowVars, main, irq>>

\* Mutant: the VBL task does not re-arm itself.
VblDueOnce ==
    /\ ~Interrupted
    /\ vblCount = 1
    /\ vblCount' = 0

\* The task is due: it re-arms itself before anything else.
VblDue ==
    /\ ~Interrupted
    /\ vblCount = 1
    /\ vblCount' = VblTicks

VblMutexBusy ==
    /\ VblDue
    /\ vblMutex
    /\ UNCHANGED <<portVars, callVars, pb, infoVars, readVars, writeVars,
                   diskVars, vblMutex, inWakeUp, flowVars, main, irq>>

\* emptyWriteBuffer: the staged bytes go out, and the mutex stays taken.
VblFlush ==
    /\ VblDue
    /\ ~vblMutex
    /\ ConnOk
    /\ writeStorage.ioActCount > 0
    /\ vblMutex' = TRUE
    /\ writeLength' = writeStorage.ioActCount
    /\ io' = "write"
    /\ connResult' = ioInProgress
    /\ UNCHANGED <<portVars, callVars, pb, infoVars, readVars, writeStorage,
                   writePayload, sent, txDiscarded, inWakeUp, flowVars, main,
                   irq>>

\* fillReadBuffer: nothing to send and nothing left to deliver.
VblPoll ==
    /\ VblDue
    /\ ~vblMutex
    /\ ConnOk
    /\ writeStorage.ioActCount =< 0
    /\ ReadExhausted
    /\ vblMutex' = TRUE
    /\ io' = "read"
    /\ connResult' = ioInProgress
    /\ UNCHANGED <<portVars, callVars, pb, infoVars, readVars, writeVars,
                   inWakeUp, flowVars, main, irq>>

\* Nothing to do with the device, or the connection is in error.
VblWakes ==
    /\ VblDue
    /\ ~vblMutex
    /\ \/ ~ConnOk
       \/ writeStorage.ioActCount =< 0 /\ ~ReadExhausted
    /\ vblMutex' = TRUE
    /\ StartWakeUp
    /\ UNCHANGED <<portVars, callVars, pb, infoVars, readVars, writeVars,
                   diskVars, flowVars, main>>

VblTick == \/ VblCountdown \/ VblMutexBusy \/ VblFlush \/ VblPoll \/ VblWakes

-----------------------------------------------------------------------------
\* The interrupt level: completion of the floppy I/O.

\* Mutants: the count of a written, or refilled, buffer is not reset.
NotEmptied == writeStorage
FilledKeepsAct(n) == [readStorage EXCEPT !.ioReqCount = n]

\* The staging buffers once the device has taken, or filled, them.
Emptied == [writeStorage EXCEPT !.ioActCount = 0]
Filled(n) == [ioReqCount |-> n, ioActCount |-> 0]

\* emptyWriteBufDone after a success: the buffer is free again, and the
\* driver reads at once when it has nothing left to deliver.
WriteDone ==
    /\ ~Interrupted
    /\ io = "write"
    /\ sent' = sent \o SubSeq(writePayload, 1, writeLength)
    /\ writeStorage' = Emptied
    /\ IF ReadExhausted
       THEN /\ io' = "read"
            /\ connResult' = ioInProgress
            /\ UNCHANGED <<inWakeUp, irq>>
       ELSE /\ io' = "none"
            /\ connResult' = noErr
            /\ StartWakeUp
    /\ UNCHANGED <<portVars, callVars, pb, infoVars, readVars, writePayload,
                   writeLength, txDiscarded, vblMutex, vblCount, flowVars,
                   main>>

\* emptyWriteBufDone after a failure; the device may have the bytes or not.
WriteFails ==
    /\ ~Interrupted
    /\ Faults
    /\ io = "write"
    /\ sent' \in {sent, sent \o SubSeq(writePayload, 1, writeLength)}
    /\ io' = "none"
    /\ connResult' = ioErr
    /\ StartWakeUp
    /\ UNCHANGED <<portVars, callVars, pb, infoVars, readVars, writeStorage,
                   writePayload, writeLength, txDiscarded, vblMutex, vblCount,
                   flowVars, main>>

\* fillReadBufDone with a valid reply.  The device reports everything it
\* has; up to PayloadSize bytes of it come with the reply.
ReadDone ==
    /\ ~Interrupted
    /\ io = "read"
    /\ \E avail \in readExtraAvail .. MaxIn - taken :
         LET n == FetchCount(avail)
             data == [i \in 1 .. n |-> taken + i]
         IN  /\ readStorage' = Filled(n)
             /\ readExtraAvail' = ExtraAvail(avail)
             /\ readPayload' = Overlay(readPayload, 0, data)
             /\ fetched' = fetched \o data
             /\ taken' = taken + n
    /\ io' = "none"
    /\ connResult' = noErr
    /\ StartWakeUp
    /\ UNCHANGED <<portVars, callVars, pb, infoVars, writeVars, vblMutex,
                   vblCount, flowVars, main>>

\* fillReadBufDone with a failed read, or with a reply that has another tag.
ReadFails ==
    /\ ~Interrupted
    /\ Faults
    /\ io = "read"
    /\ io' = "none"
    /\ connResult' \in {ioErr, wrongTag}
    /\ StartWakeUp
    /\ UNCHANGED <<portVars, callVars, pb, infoVars, readVars, writeVars,
                   vblMutex, vblCount, flowVars, main>>

DiskDone == WriteDone \/ WriteFails \/ ReadDone \/ ReadFails

-----------------------------------------------------------------------------
\* The interrupt level: waking parked requests, and clients' own calls.

\* Mutant: the wake-up loop leaves the request in the table.
StillParked == pendingPb

\* The slot the wake-up loop stands at, without its parked request.
Unparked == [pendingPb EXCEPT ![irq.slot] = None]

\* A parked request is taken out of its slot before it is primed again.
WakeTakes ==
    /\ irq.pc = "wake"
    /\ infoRef[irq.slot] # None
    /\ pendingPb[irq.slot] # None
    /\ pendingPb' = Unparked
    /\ irq' = [irq EXCEPT !.pc = "prime", !.from = "wake",
                          !.pb = pendingPb[irq.slot]]
    /\ UNCHANGED <<portVars, callVars, pb, infoRef, readVars, writeVars,
                   diskVars, syncVars, flowVars, main>>

WakeSkips ==
    /\ irq.pc = "wake"
    /\ infoRef[irq.slot] # None
    /\ pendingPb[irq.slot] = None
    /\ irq' = [irq EXCEPT !.slot = @ + 1]
    /\ UNCHANGED <<portVars, callVars, pb, infoVars, readVars, writeVars,
                   diskVars, syncVars, flowVars, main>>

\* The table ends at its first free slot; the mutex is released.
WakeEnds ==
    /\ irq.pc = "wake"
    /\ infoRef[irq.slot] = None
    /\ inWakeUp' = FALSE
    /\ vblMutex' = FALSE
    /\ irq' = IdleIrq
    /\ UNCHANGED <<portVars, callVars, pb, infoVars, readVars, writeVars,
                   diskVars, vblCount, flowVars, main>>

\* Mutant: the wake-up loop steps over a slot.
ResumeSkips == IF irq.from = "wake"
               THEN [IdleIrq EXCEPT !.pc = "wake", !.slot = irq.slot + 2]
               ELSE IdleIrq

\* What the interrupt level does after a call of its own has been primed.
Resume == IF irq.from = "wake"
          THEN [IdleIrq EXCEPT !.pc = "wake", !.slot = irq.slot + 1]
          ELSE IdleIrq

\* Mutant: the wake-up loop clears the slot after doPrime has filled it.
ParkThenClear(p) ==
    LET i == InfoSlot(pb[p].drv)
    IN  /\ infoRef' = [infoRef EXCEPT ![i] = pb[p].drv]
        /\ pendingPb' = [pendingPb EXCEPT ![i] = None]
        /\ vblCount' = 1
        /\ irq' = Resume

\* The tail of doPrime for a request that is not finished.
Park(p) ==
    LET i == InfoSlot(pb[p].drv)
    IN  /\ infoRef' = [infoRef EXCEPT ![i] = pb[p].drv]
        /\ pendingPb' = [pendingPb EXCEPT ![i] = p]
        /\ vblCount' = 1
        /\ irq' = Resume

\* doPrime with access to the buffers.  The mutex is left as it was: either
\* the wake-up holds it or it is taken and released within this step.
IrqPrimes ==
    /\ irq.pc = "prime"
    /\ pb[irq.pb].trap \in {"aRdCmd", "aWrCmd"}
    /\ BuffersFree
    /\ Transfer(irq.pb, PrimeErr(irq.pb))
    /\ IF PrimeErr(irq.pb) = ioInProgress
       THEN Park(irq.pb)
       ELSE /\ irq' = [irq EXCEPT !.pc = "done", !.err = PrimeErr(irq.pb)]
            /\ UNCHANGED <<infoVars, vblCount>>
    /\ UNCHANGED <<portVars, callVars, diskVars, vblMutex, inWakeUp, main>>

\* doPrime of a client's call that finds the mutex taken.
IrqMisses ==
    /\ irq.pc = "prime"
    /\ pb[irq.pb].trap \in {"aRdCmd", "aWrCmd"}
    /\ ~BuffersFree
    /\ Park(irq.pb)
    /\ pb' = [pb EXCEPT ![irq.pb].ioResult = ioInProgress]
    /\ UNCHANGED <<portVars, callVars, readVars, writeVars, diskVars,
                   vblMutex, inWakeUp, flowVars, main>>

\* doControl and doStatus, when the Device Manager starts them here.
IrqControls ==
    /\ irq.pc = "prime"
    /\ pb[irq.pb].trap \in {"ctl", "sts"}
    /\ pb' = IF pb[irq.pb].trap = "ctl" THEN pb
             ELSE [pb EXCEPT ![irq.pb].csParam =
                     LowWord(Left(readStorage) + readExtraAvail)]
    /\ irq' = [irq EXCEPT !.pc = "done", !.err = noErr]
    /\ UNCHANGED <<portVars, callVars, infoVars, readVars, writeVars,
                   diskVars, syncVars, flowVars, main>>

\* ioIsComplete, or MyIODone: the next call of the queue is started.
IrqIODone ==
    /\ irq.pc = "done"
    /\ IODone(irq.pb, irq.err)
    /\ irq' = IF NextCall(irq.pb) = None THEN Resume
              ELSE [irq EXCEPT !.pc = "prime", !.pb = NextCall(irq.pb)]
    /\ UNCHANGED <<portVars, infoVars, readVars, writeVars, diskVars,
                   syncVars, flowVars, main>>

\* An interrupt handler issues a call; or the completion routine of the
\* request that is being reported queues another behind it.  Unless LateOpen,
\* neither happens inside doOpen.
IrqIssue(p, c, n) ==
    /\ \/ ~Interrupted
       \/ irq.pc = "done" /\ c[1] = pb[irq.pb].drv
    /\ LateOpen \/ ~Opening
    /\ Enqueue(p, c, n)
    /\ irq' = IF ~Interrupted /\ StartsAtOnce(c[1])
              THEN [IdleIrq EXCEPT !.pc = "prime", !.pb = p]
              ELSE irq
    /\ UNCHANGED <<portVars, outcome, infoVars, readVars, writeVars, diskVars,
                   syncVars, flowVars, main>>

IrqWork == \/ WakeTakes \/ WakeSkips \/ WakeEnds \/ IrqPrimes \/ IrqMisses
           \/ IrqControls \/ IrqIODone
IrqIssues == \E p \in Pbs, c \in IrqCalls, n \in Sizes : IrqIssue(p, c, n)

-----------------------------------------------------------------------------
Next == \/ MainOpen \/ MainIssues \/ MainCall
        \/ VblTick \/ DiskDone \/ IrqWork \/ IrqIssues

Spec == Init /\ [][Next]_vars

(***************************************************************************)
(* An interrupt handler always runs to its end.  Between handlers the      *)
(* processor returns to the main thread again and again, the vertical      *)
(* retrace fires again and again, and the floppy I/O finishes: none of the *)
(* three is continuously enabled, since a handler disables the others, so  *)
(* each gets strong fairness.  Issuing and opening are the clients'        *)
(* choice and get none.                                                    *)
(***************************************************************************)
Fairness == /\ WF_vars(IrqWork)
            /\ SF_vars(MainCall)
            /\ SF_vars(VblTick)
            /\ SF_vars(DiskDone)

FairSpec == Spec /\ Fairness
-----------------------------------------------------------------------------
\* Properties.  Sums over requests are written with counts of the history.

Codes == {noErr, ioErr, wrongTag}
Bytes == Pbs \X Nat
MainPcs == {"idle", "open1", "open2", "open3", "open4", "open5", "ctl", "sts1",
            "sts2", "sts3", "lock", "xfer", "unlock", "find", "claim", "park",
            "sched", "result", "return"}

\* The shape of the state.
TypeOK ==
    /\ port \in {"absent", "installed", "connected"}
    /\ openResult \in [Drivers -> {None, noErr, openErr, portNotCf}]
    /\ queue \in [Drivers -> Seq(Pbs)]
    /\ pb \in [Pbs -> [drv : Drivers \cup {None}, trap : Traps,
                       ioReqCount : Nat, ioActCount : Int,
                       ioResult : Codes \cup {ioInProgress}, csParam : Int]]
    /\ outcome \in [Pbs -> Codes \cup {None}]
    /\ infoRef \in [Slots -> Drivers \cup {None}]
    /\ pendingPb \in [Slots -> Pbs \cup {None}]
    /\ connResult \in Codes \cup {ioInProgress}
    /\ io \in {"none", "read", "write"}
    /\ readStorage \in Storage /\ writeStorage \in Storage
    /\ readPayload \in Seq(Nat) /\ writePayload \in Seq(Bytes)
    /\ readExtraAvail \in Int /\ writeLength \in Int
    /\ vblMutex \in BOOLEAN /\ inWakeUp \in BOOLEAN
    /\ vblCount \in 0 .. VblTicks
    /\ bytes \in [bytesRead : Nat, bytesWritten : Nat]
    /\ main \in [pc : MainPcs, pb : Pbs \cup {None}, drv : Drivers \cup {None},
                 err : Codes \cup {ioInProgress}, slot : Slots, tmp : Int]
    /\ irq \in [pc : {"none", "wake", "prime", "done"}, pb : Pbs \cup {None},
                err : Codes \cup {ioInProgress}, slot : Slots,
                from : {"wake", "client"}]
    /\ accepted \in Seq(Bytes) /\ sent \in Seq(Bytes)
    /\ fetched \in Seq(Nat) /\ delivered \in Seq(Bytes)
    /\ taken \in Nat
    /\ txDiscarded \in BOOLEAN

\* The three users of the staging buffers: doPrime on the main thread, the
\* floppy I/O, and the wake-up loop with what it calls.
MainHolds == main.pc \in {"xfer", "unlock"}
IoHolds == io # "none"
WakeHolds == inWakeUp

\* The mutex is taken exactly while one of them has the buffers, and never
\* two have them at once.  takeVblMutex is the code's only lock, it has no
\* owner field, inWakeUp opens a way around it, and the completion routines
\* release a lock that another activation took.
MutexOwned ==
    /\ vblMutex <=> MainHolds \/ IoHolds \/ WakeHolds
    /\ ~(MainHolds /\ IoHolds)
    /\ ~(MainHolds /\ WakeHolds)
    /\ ~(IoHolds /\ WakeHolds)

\* Every byte taken from a writer is either staged or sent, in order, once:
\* the emptying of the buffer at a completion can not lose bytes that were
\* staged during the I/O.  After an I/O error the device may also have
\* received what is still staged.  (This, like the properties below that
\* speak of counts and streams, is for LateOpen = FALSE.)
WriteStream ==
    \/ sent \o Staged = accepted
    \/ connResult < 0 /\ sent = accepted

\* Every byte the device handed over reaches exactly one reader, in order,
\* or is still unread.
ReadStream ==
    Untagged(delivered) \o Unread = fetched

\* A port that is opened in the middle of traffic may cost its writers bytes,
\* but the device gets none twice or out of its writer's order: what doOpen
\* drops from under the VBL task stays dropped.  (Without I/O errors: after one
\* doOpen forgives the error before it drops the staged bytes, and the VBL task
\* may send them again in between.  Readers have no such luck: see late_open.)
SentOnce ==
    \A i, j \in DOMAIN sent : i < j /\ sent[i][1] = sent[j][1]
                              => sent[i][2] < sent[j][2]

\* Where the bytes of the requests in F are in the history s.
Places(F, s) == {i \in DOMAIN s : s[i][1] \in F}

\* A writer's bytes are taken from its buffer front to back, as many as
\* ioActCount says, however often it was parked and woken in between; and a
\* reader's ioActCount counts the bytes it was given.
RequestBytes ==
    \A p \in Pbs : Issued(p) =>
        /\ pb[p].trap = "aWrCmd" =>
               /\ {accepted[i][2] : i \in Places({p}, accepted)}
                     = 1 .. pb[p].ioActCount
               /\ \A i, j \in Places({p}, accepted) :
                     i < j => accepted[i][2] < accepted[j][2]
        /\ pb[p].trap = "aRdCmd" =>
               Cardinality(Places({p}, delivered)) = pb[p].ioActCount

\* A client never sees a count below zero or beyond what it asked for.
ClientCountsSane == \A p \in Pbs : Sane(pb[p])

\* No count runs past its request, or below zero: the negative branch of
\* bufferCopy is never taken.
CountsSane ==
    /\ ClientCountsSane
    /\ main.pc # "open3" => Sane(readStorage)
    /\ Sane(writeStorage)
    /\ writeStorage.ioReqCount =< PayloadSize
    /\ readStorage.ioReqCount =< PayloadSize

\* The requests that some activation of the driver is working on now: from
\* the call's dispatch until it is parked or its completion is reported.
InMain == IF \/ main.pc \in {"ctl", "sts1", "sts2", "sts3", "lock", "xfer",
                             "unlock", "find", "claim", "park"}
             \/ main.pc \in {"sched", "result", "return"} /\ main.err =< 0
          THEN {main.pb} ELSE {}
InIrq == IF irq.pc \in {"prime", "done"} THEN {irq.pb} ELSE {}
Claimed == {i \in Slots : infoRef[i] # None}
Parked == {pendingPb[i] : i \in Claimed} \ {None}

\* A request that waits at the head of its queue is parked where the next
\* wake-up finds it, or is being worked on; no call is ever forgotten.
HeadsParked ==
    \A d \in Drivers : queue[d] # <<>> =>
        Head(queue[d]) \in Parked \cup InMain \cup InIrq

\* Every call in the wake-up table and every call that is being worked on is at
\* the head of its driver's queue, and it is in one slot, or with the main
\* thread, or with the interrupt level: no call overtakes another of its port,
\* and none is completed twice.
AtHead(p) == queue[pb[p].drv] # <<>> /\ Head(queue[pb[p].drv]) = p
ParkedAreHeads ==
    /\ \A i \in Slots : pendingPb[i] # None =>
         AtHead(pendingPb[i]) /\ pendingPb[i] \notin InMain \cup InIrq
    /\ \A i, j \in Slots : i # j => pendingPb[i] = None \/ pendingPb[i] # pendingPb[j]
    /\ InMain \cap InIrq = {}
    /\ \A p \in InMain \cup InIrq : AtHead(p)

\* A transfer is reported complete only when all of it was moved, however
\* often it was parked, and also when the I/O failed in the middle of it.
CompletedFully ==
    \A p \in Pbs :
        outcome[p] = noErr /\ pb[p].trap \in {"aRdCmd", "aWrCmd"}
        => pb[p].ioActCount = pb[p].ioReqCount

\* getDriverInfo keeps a table of distinct drivers that ends in a free slot.
InfoTable ==
    /\ infoRef[NInfo] = None
    /\ \A i, j \in Slots : i < j =>
         /\ infoRef[j] # None => infoRef[i] # None
         /\ infoRef[i] # None => infoRef[i] # infoRef[j]

\* The statistics count the bytes of the finished transfers only: what they
\* leave out is exactly what unfinished requests have moved so far.
Finished == {p \in Pbs : pb[p].ioActCount = pb[p].ioReqCount}
StatsAccount ==
    /\ bytes.bytesWritten = Cardinality(Places(Finished, accepted))
    /\ bytes.bytesRead = Cardinality(Places(Finished, delivered))

\* After an I/O error nothing moves and no I/O starts until a port is opened.
NoTrafficAfterError ==
    [][connResult < 0 => io' = io /\ accepted' = accepted
                         /\ delivered' = delivered /\ sent' = sent]_vars

\* A call is reported failed only while the error of a failed floppy I/O lasts
\* that no open has forgiven, and its client is told that very error: none fails
\* from an error of the past, or because the buffers were busy.
FailuresKnown ==
    [][\A p \in Pbs : outcome'[p] # outcome[p] /\ outcome'[p] # noErr
                      => connResult < 0 /\ outcome'[p] = connResult]_vars

\* "I/O is complete if result <= 0", and stays so: a caller that polls
\* ioResult sees the completion.
CompletionSeen ==
    \A p \in Pbs : outcome[p] # None => pb[p].ioResult = outcome[p]

\* "Return how much data is available": SerGetBuf never promises more than
\* can be read when it returns.
SerGetBufHonest ==
    main.pc = "return" /\ pb[main.pb].trap = "sts" =>
        pb[main.pb].csParam =< Len(Unread) + readExtraAvail

\* Accepted bytes do not stay in the staging buffer while the I/O works.
Flushed == [](writeStorage.ioActCount > 0
              => <>(writeStorage.ioActCount = 0 \/ connResult < 0))

\* Every write is completed, or failed, whatever the readers do.
WritesComplete ==
    \A p \in Pbs : [](Issued(p) /\ pb[p].trap = "aWrCmd" => <>(outcome[p] # None))

\* After an I/O error every call that waits and every later one, a read for
\* which nothing ever arrives too, is reported, unless an open forgives the error.
FailureReported ==
    \A p \in Pbs : [](Issued(p) /\ connResult < 0
                      => <>(outcome[p] # None \/ connResult >= 0))

\* Bytes that were fetched do not wait while a reader does.
ReadersServed ==
    \A p \in Pbs : [](Issued(p) /\ pb[p].trap = "aRdCmd" /\ Len(Unread) > 0
                      => <>(outcome[p] # None \/ Len(Unread) = 0))
-----------------------------------------------------------------------------
\* The driver implements the abstract port: forget the locks, the wake-up
\* table, the floppy I/O in flight and the control states.
Port == INSTANCE SerialPort WITH
          AllCalls <- Calls \cup IrqCalls,
          call <- [p \in Pbs |-> [drv |-> pb[p].drv, trap |-> pb[p].trap,
                                  ioReqCount |-> pb[p].ioReqCount,
                                  ioActCount |-> pb[p].ioActCount]],
          staged <- Staged,
          unread <- Unread,
          broken <- connResult < 0

\* Every behaviour of the driver, seen from its clients, is one of the
\* abstract port's, as long as ports are opened before they are used.
PortSpec == Port!Spec

\* Of two calls to one port all bytes of one come before all of the other's,
\* in both directions, though a call is parked and woken several times and the
\* next one may be queued or started from a completion routine meanwhile.
TransfersUnmixed == Port!TransfersUnmixed
=============================================================================
