# A TLA+ model of the FujiNet serial drivers for 68k Macintosh

This directory holds a TLA+ development of the serial drivers in this
repository: modules translated from the C and 68k assembly source, TLC
configurations that check them on small instances, and theorems proved with
TLAPS for instances of every size. Line numbers refer to the files under `src/`.

## 1. The system

A classic Macintosh talks to a FujiNet through its floppy port. The serial
driver makes that look like a serial port: applications read and write
`.AOut`, `.AIn`, `.BOut`, `.BIn` or `.Fuji` through the Device Manager, and the
driver moves the bytes in 512-byte messages that it reads and writes at one
magic sector of a disk image.

| Component | Source | State | Operations |
|---|---|---|---|
| Asynchronous driver | `FujiSerial/FujiSerialAsync.c`, `FujiCommon/FujiInterfaces.h` | one `FujiSerData` block shared by all ports: connection parameter block, two staging buffers with their counts, wake-up table `drvrInfo`, `inWakeUp`; a mutex bit and a VBL task outside it | `doOpen`, `doPrime`, `doControl`, `doStatus`, `doClose`, the VBL task, two I/O completion routines, the wake-up loop |
| Client transfers | `bufferCopy` (627-683), `struct StorageSpec` | two counts per descriptor | copy between a client's buffer and a staging buffer |
| Installation | `FujiCommon/FujiSerialInit.c` | the unit table, the driver and data handles | install, redirect a port, query, open, statistics |
| Connection | `FujiCommon/FujiFloppyInit.c` | the open file, the connection block | find the drive, knock, learn the magic sector |
| Stub driver | `FujiSerial/FujiSerialStub.c` | the main driver's handle | forwards each entry point |
| Desk accessory | `FujiDeskAcc/FujiDeskAcc.c` | window, marks, timer | install, connect, redirect, show counters |
| Synchronous driver | `FujiSerial/FujiSerialBasic.c` | one input buffer (`readPos`, `readLeft`, `readAvail`) and two counters, shared by all ports | a blocking `doPrime`, `doStatus` |
| Throughput test | `FujiTests/SerialTests.c` | counters and two positions in an alphabet | write, ask, read, compare |
| Loopback | `linux/mac_ndev_loopback.cpp` | a 512-byte buffer | echoes what it reads |
| Indicators, other tests, control panel | `LedIndicators.h`, `FujiTests/` | - | drawing; menus; floppy benchmarks |

**How the parts interact.** The desk accessory installs the driver, connects it
and redirects ports; each redirected port's stub passes control to the main
driver with its own device control entry but the *same* data block. A client
queues a call with the Device Manager, which starts it at once on an idle port
or when the one before completes. `doPrime` takes the mutex, copies what it
can, and either completes the request or *parks* it in the wake-up table and
makes the VBL task due. The VBL task takes the mutex and starts a write if
bytes are staged, a read if the read buffer is exhausted, or else wakes the
parked requests. An I/O completion updates the buffer, possibly chains a read
to a write, wakes the parked requests, and releases the mutex that the VBL task
took. Waking calls `doPrime` again with `inWakeUp` set, which is its permission
to use the buffers, and reports finished requests through `JIODone`, which may
start the port's next call right there. The throughput test is a client of two ports: it
writes an alphabet on the output port and compares what the loopback, at the
other end of the line, sends back to the input port. The synchronous driver is
an alternative to all this: the same ports without queues, staging or
interrupts.

**What is hard.** Interrupt handlers run between any two instructions of the
main-thread code. The mutex has no owner and is passed from the VBL task to the
I/O to its completion to the wake-up loop. Several fields are read or written
without it (`doOpen`, `doStatus`, `getDriverInfo`, the final store of
`doPrime`). Requests larger than the 500-byte buffers take several rounds. A
failed I/O leaves an error that stays until the next open.

**What makes it correct.** One user of the buffers at a time; both byte
streams in order and whole; per port, calls served in order, each completed
exactly once and only when all of it was moved or the connection failed; no
parked call forgotten; everything accepted is eventually sent, everything
waiting is eventually served.

The hazards of the code, one by one and with the properties aimed at them, are
listed in `PROJECT.json`.

## 2. Modules

| Module | Models |
|---|---|
| `StorageSpec` | transfer descriptors and `bufferCopy`'s arithmetic, with all its sanity checks |
| `FujiSerialAsync` | the asynchronous driver, the Device Manager's queues around it, the VBL task and the floppy I/O; its properties |
| `SerialPort` | the abstract port: what the driver promises, without locks or interrupts |
| `FujiSerialInit` | the unit table and the memory handles: installing the driver, redirecting ports, with every allocation that may fail |
| `FujiFloppyInit` | connecting to the FujiNet, one step per call to the system |
| `FujiDeskAcc` | the session: the desk accessory, the test application and clients over the two modules above |
| `SerialTests` | the throughput test over `SerialPort`, with the loopback program at the other end |
| `FujiSerialBasic` | the synchronous driver |
| `StorageSpec_proofs` | theorems about `bufferCopy`'s arithmetic |
| `FujiSerialAsync_proofs`, `FujiSerialCalls_proofs`, `FujiSerialStream_proofs`, `FujiSerialPort_proofs` | theorems about the asynchronous driver: the mutex; the calls and the wake-up table; types, counts and streams; the refinement and what clients are promised |
| `FujiSerialBasic_proofs`, `FujiDeskAcc_proofs`, `SerialTests_proofs` | theorems about the synchronous driver, the session and the throughput test |
| `MCFujiSerialAsync`, `MCFujiDeskAcc`, `MCFujiSerialBasic` | constants for TLC |

### FujiSerialAsync

*Processes.* The **main thread** (`main.pc`) executes the driver's code for
calls made by applications; the **interrupt level** (`irq.pc`) executes the VBL
task, the I/O completions and calls made from completion routines. Main steps
require `irq.pc = "none"`: a handler runs to its end before the main thread, or
another handler, continues. (All the sources involved - vertical retrace and
floppy completion - interrupt at the same level of the 68000, so they do not
nest; this is an assumption about the machine.) Between two main steps any
handler may run.

*Granularity.* Each shared field that the main thread touches without the mutex
is a step of its own: the three reads of `doStatus`, the assignments of
`doOpen`, search, claim, park, schedule and final store in `doPrime`. What it
does under the mutex - the copy and the counts - is one step between taking and
releasing. `getDriverInfo`'s search is one step, its claim the next. Interrupt
code runs alone, so a step there is as large as is readable: prime, report,
advance in the table.

*State.* Fields keep their names. `queue[d]` is the Device Manager's queue of
port `d`; `pb[p]` the parameter block (`drv`, `trap`, counts, `ioResult`,
`csParam`); `infoRef[i]`/`pendingPb[i]` are `drvrInfo[i]` (`pendingDce` always
goes with `pendingPb`, so it is not kept); `connResult` is
`conn.iopb.ioResult`, `io` the I/O in flight. `vblCount = 0` means that the task
is not installed. Payload bytes are tokens: `<<p, k>>` is byte `k` of writer
`p`'s buffer, and the device's bytes are numbered from 1, so loss, duplication
and reordering are all visible. `accepted`, `sent`, `fetched`, `delivered`,
`outcome`, `taken`, `txDiscarded` are history only; no guard of the driver
reads them (`taken` bounds the device).

*Environment.* Outside `src/` and modelled from its use: the Device Manager
(`Enqueue`, `NextCall`, dequeuing in `IODone`), the Vertical Retrace Manager's
countdown, and the floppy I/O, which at any time after it was started succeeds,
or fails if `Faults`. The device's reply to a read carries the first bytes it
has and reports the total (341-357); a reply with a foreign tag is a fault. A
failed write may or may not have reached the device. Clients issue any call of
`Calls` from the main thread and of `IrqCalls` from interrupt level; each
parameter block is used once. Completion routines may queue another call on the
same port while their own request is being reported.

*Opening.* `doOpen` resets the shared buffers without the mutex. With `LateOpen =
FALSE` ports are opened before the first call, which is how the streams'
properties are stated; with `LateOpen = TRUE` a port may be opened in the middle
of another one's traffic (`queueing`, `late_open`).

### SerialPort and the refinement

`PortSpec` maps the driver's state to the abstract port: `staged` is the filled
part of the write buffer, `unread` the rest of the read buffer, `broken` a
negative I/O result; the mutex, table, countdown and control states disappear.
Completion in the abstract port is the report through `JIODone` (`outcome`), not
the `ioResult` field, for the reason given under `lost_completion`.

### FujiSerialInit, FujiFloppyInit and FujiDeskAcc

The session's code runs on the main thread of a machine without preemption, so
a call of the redirect or install functions is one step. In
`FujiSerialInit` each function is an operator from a state `sys` - unit table,
handles, last result - to the *set* of states that it may leave, because each
allocation in it may fail; `InstallStub`, `Install` and `Redirect` compose these
sets in the order of the code, including what the error exits dispose of. A
handle that was disposed of may be allocated again. Unit numbers count from 1;
the table keeps a driver's name with its entry; of an entry's flags only "in
RAM" is kept (`driver # NoHandle`). `installStubDriver` declares `stubHndl` twice (216 and
228), and its error exit (277) tests and disposes of the outer one, which is
never assigned: the model disposes of nothing or of any live handle, records the
latter in `sys.wild`, and lets the session end there. `StubsForward` and
`InstalledWhole` are stated for the time before. The stub that was loaded leaks
either way.

`fujiOpen` is not one step: every call it makes waits for the disk, and the VBL
task of a driver that is already open may run meanwhile. `pc` names its next
call. The FujiNet is outside `src/`; it may answer the last knock of a volume
that it serves, and then may put its reply into the file. The tag buffer is the
low-memory global that it is in the code: it survives from one read to the next,
is changed by the VBL task's reads, and by disk drivers that deliver tags
(`Tagless` names the others). `files` is the volumes on which the file is open;
the code never closes it.

`FujiDeskAcc` puts the two together: `SerialOpen` is `fujiSerialOpen`, which
installs and then connects; its callers are the desk accessory (`DAOpens`, which
ignores the result) and the test application. A client's open is passed on by the
stub and starts the VBL task. The hand-over to `FujiSerialAsync` is `vbl` and
`Ready`: that module starts from an installed driver and takes `Connect` and
`Open` as its own steps.

### SerialTests

`testSerialThroughput` makes one synchronous call at a time, so the module is
written over the abstract port: `PortStep` is `SerialPort`'s next-state relation
for the two ports of the test, and what `modem` shows (that the driver
implements `SerialPort`) carries the result over to the driver. Three things that the abstract port does not
promise are added where the driver falls short of it: a fetch between the reads
of `SerGetBuf` may make it promise too much (`TornPromises`), a result may be
overwritten under a polling client (`Hangs`), and `SerGetBuf` answers `noErr` on
a broken connection. `useSerGet` is the test's parameter: ask for what is
available, or read what is missing. A byte's letter is a function of its writer's
seed and its position (`Letter`), so the comparison with `readRand` is the test's own.
The 20 seconds of a round end at any message.

`Loop` is the echo loop: it reads up to its buffer's size of what was sent and
writes `w` bytes of it back; when the terminal takes fewer than it was given, the
program reports that and goes on, so `w < n` loses bytes. `looped` and
`Len(echoed)` tell how many. The line is assumed to hold no input from before
the test (the application flushes it).

### FujiSerialBasic

A call runs to its end before the next one starts; `pc` is what the current
call does, one block or one copy per step, so that bytes may arrive and I/O may
fail in between. `input` is the shared input buffer, `handed` the history of
all bytes copied to any client, `buffer` what is in the buffer of the current
one. `getSource` is modelled by its arithmetic: it yields 0, 1 and 3 for modem,
printer and other ports (its comment says 1, 2 and 3; `BlocksAttributed` states and `basic` shows the difference).
Reference numbers are all that a driver can have, -6 to -32768, since the unit
table grows. The device's count is a signed 16-bit number, and the device
(`Arrive`) holds no more at a time than it can tell (`DeviceLimit`), so `Filled` is
exact; what the driver does with a larger count is not modelled. A failed read reports the
full count (315-319): `ReadReturns` does the same. The file uses
fields of the data block (`readPos`, `readLeft`, `readAvail`) that the shared
header no longer has; it is modelled as it stands. A refill that fails is
assumed not to consume bytes at the device, and the calls of two ports do not nest.

## 3. Runs

| Run | Instance | Shows |
|---|---|---|
| `modem` | 2 ports, 2 calls of 1 or 3 bytes from both levels, buffers of 2, faults | types, buffer ownership, both streams, counts, completions, no two calls of one port mixed, silence after an error, which failed calls are told exactly; the driver implements `SerialPort` |
| `queueing` | 2 ports, 3 calls, all kinds, buffers of 1, ports opened in traffic | no call forgotten or worked on twice; table shape; no byte sent twice |
| `liveness` | 2 ports, 2 calls of 2 bytes, buffers of 1, faults | every write completes or fails, staged bytes are flushed, waiting readers are served, after an error every call is reported |
| `session` | 4 handles, a table of 5 units that may grow by 1, a FujiNet volume and a tagless disk, knock of 2 | stubs and driver stay in step, nothing half installed, unit numbers stay good, a redirection that reports success is whole, only a FujiNet is ever connected, no traffic without an address |
| `throughput` | 2 rounds of up to 2 messages, all buffers of 2, an alphabet of 3 | a wrong byte means that the line lost some, a pass that it lost none; the test ends but for named causes |
| `basic` | 3 ports, 3 calls of 1 or 3 bytes, buffers and blocks of 2, 5 bytes arriving | nothing lost or handed out twice, short reads intact, honest `SerGetBuf`, exact writes, the source numbers (0, 1 and 3, against a comment that says 1, 2 and 3), reads return |
| `lost_completion` | 2 ports | *violation*: a completed request's `ioResult` returns to 1 |
| `torn_status` | reads and `SerGetBuf` | *violation*: `SerGetBuf` promises bytes that are not there |
| `late_open` | opening in traffic | *violation*: a client's count is moved below zero |
| `slot_race` | calls from both levels on unclaimed slots | *violation*: a parked request is overwritten in the table |
| `reopen` | as `session` | *violation*: after a failed attempt no other one knocks |
| `long_read` | as `basic` | *violation*: a read that needs two refills succeeds with wrong bytes |

*Bounds.* A request of 3 bytes against a buffer of 2 (or 2 against 1) is
parked with part of it moved, and finished by a second round: every branch of
copy, park, flush, refill and wake is taken. Two calls put a reader against a
writer; the third call in `queueing` queues behind another. `MaxIn`
lets the device report more than one buffer (`readExtraAvail`). `VblTicks = 2`
tells the scheduled wake-up (1) from the regular one; `liveness` uses 1 to keep
its graph small. Symmetry of the parameter blocks is used in safety runs only.
Every action fires in some passing run.

In `throughput` a message of the second round (3 bytes) takes more than one
filling of every buffer and the alphabet wraps within two messages; `Pbs` is sized
so that every byte may need a read of its own. In `basic` a read of 3 over a
buffer of 2 starts anywhere in the buffer, and 5 bytes make two refills with
an overflow. Its ports have the last number of the modem's pair, the first of the
printer's, and one of a unit table that has grown.

In `session` four handles hold the driver, its data and two stubs, of one port
or of two; memory runs out in every way beyond that; the one free unit goes
to `.Fuji`, so that `.IPP` makes the table grow. One FujiNet volume is assumed:
with two, connecting to the second while the VBL task uses the first breaks
`TrafficAddressed` (a listed hazard). The two volumes are there because
`fujiSerialOpen` takes any; both programs here pass the boot volume.

*Fairness.* In `liveness` (`FairSpec`), interrupt handlers finish: weak fairness of
`IrqWork`. The main thread's driver code, the retrace and the floppy I/O get
strong fairness, since any handler disables them for a moment: the processor
returns to the main thread between interrupts, the retrace is periodic, and a
floppy operation ends, in success or failure. Clients have none.

In `throughput` the test and the loopback are programs that run on (weak
fairness of `Test` and `Loop`); the port moves and completes what it can and fetches
what waits for it, which is what `liveness` shows of the driver. The port is not
obliged to fail and the loopback not obliged to lose. `TestEnds` names what
may keep the test running for ever: lost bytes, a promise of `SerGetBuf` that was too high, and
polling `SerGetBuf` on a connection that has failed. (A result overwritten under
the poll is the state `"hung"`.)

In `basic` the processor executes the call it is in: weak fairness of `Works`, the
steps of a call that do not fail. The floppy I/O may fail and need not.

### What the violations mean

* `lost_completion` - `doPrime` parks the request and makes the VBL task due
  (723-725), and then stores `pb->ioResult = err` with `err = 1` (728). When the
  request is completed in between, by a VBL task or by a read that was in
  flight anyway, the store undoes it. A caller that polls `ioResult` never
  returns.
* `torn_status` - `doStatus` (601) sums three fields that `fillReadBufDone`
  replaces together.
* `late_open` - `doOpen` (762-764) sets the request count and then the actual
  count of the shared read descriptor to 0. A wake-up in between sees a negative
  rest; the sanity block (631-661) sets the copy to 0, and line 664 sets it back
  to the negative rest.
* `reopen` - the file that `fujiOpen` opens (`FujiFloppyInit.c` 142) is never
  closed, so the next attempt is refused by the file system. The only way out is
  a restart. (The same open file is what keeps a second attempt on a connected
  volume from disturbing its traffic.)
* `slot_race` - `getDriverInfo` (295-305) is not atomic against a completion
  routine that calls another port.
* `long_read` - `doPrime` of `FujiSerialBasic.c` copies each part of a read to
  `pb->ioBuffer` (307), which it never advances. The second part overwrites the
  first, the end of the buffer stays as it was, and the call reports `noErr` and the full
  count.

What fails without being a run of its own: the source numbers are not those
of the comment in `getSource` (`BlocksAttributed` holds in `basic`, and is proved, with
the numbers of the code); a redirection that fails at the input driver leaves
the output driver redirected and the button checked (comment at
`RedirectHonest`); with two FujiNet volumes `TrafficAddressed` fails; a fetch
that ends inside `doOpen` may be delivered twice (comment at `SentOnce`).

## 4. Proofs

TLAPS checks the following, for all values of the constants that satisfy the
assumptions of the modules (at the end of this section).

### The asynchronous driver

`FujiSerialAsync_proofs` < `FujiSerialCalls_proofs` < `FujiSerialStream_proofs`
< `FujiSerialPort_proofs`: each builds on the invariants of the one before.

* `MutexSafe` (`MutexOwned`). Not inductive: `doPrime` passes the mutex when
  `inWakeUp` is set, so one needs that no main-thread step ever sees it set.
  The strengthening `WakeUpInIrq` ties the flag to the control state of the
  interrupt level, and `Shapes` keeps the two control records records.
* `ParkedSafe` (`ParkedAreHeads`) and `InfoTableSafe` (`InfoTable`). The two
  need each other, so the invariant is `CallInv /\ InfoInv`. `CallInv` adds to
  `ParkedAreHeads` that a queue holds each call once and only calls of its own
  driver, and that everything in the table, with the main thread or at
  interrupt level is some driver's call. Its argument is one lemma, `Regroup`:
  a step moves at most one call from one place (main thread, interrupt level,
  table) to another, and puts none where one was before. `InfoInv` says that
  distinct drivers fill the table from its start up to a free slot (`Table`). A
  driver that is not in the table finds a slot that is not the last, because
  there is one more slot than there are drivers (`NotLast`, by the pigeonhole
  principle). The slot that the main thread found stays good until it is
  claimed, as far as the table's order goes (`SlotFor`): the main thread's call
  is the head of its queue, so what the interrupt level claims in between is for
  another driver. That may be the very same slot; then a parked request is
  forgotten (`slot_race`, where `HeadsParked` fails), and these two theorems
  hold all the same.
* `TypesSafe` (`TypeOK`), `CompletionSafe` (`CompletedFully`), `FailuresSafe`
  (`FailuresKnown`), `ErrorStops` (`NoTrafficAfterError`). `Kinds` sorts the steps
  of `Next` into five kinds - nothing that counts, a call issued, bytes moved for
  one call, a call reported, the device or an open - and everything after it is
  proved per kind instead of per action. `StreamBase` holds what the data needs: ranges of all counts
  (`DataInv`), what a program counter says about the call in hand
  (`MainCourse`, `IrqCourse`: on the way to a report with `noErr` the transfer
  *is* complete, and on the way to a report with an error the connection is in that
  very error, `Earned`), and that calls not made or not at their turn have no
  result yet (`Reports`).
* `WritesInOrder` (`WriteStream`), `ReadsInOrder` (`ReadStream`), `CountsSafe`
  (`CountsSane`), *for `LateOpen = FALSE`*. `Streams` adds what `doOpen` out of
  time would break: while a write is in flight the buffer holds exactly what it
  carries, and while a read is in flight the buffer is used up.
* `ImplementsPort` (`Spec => PortSpec`), *for `LateOpen = FALSE`*: every kind of
  step is a step of `SerialPort` or a stutter in the view of section 2.
* `CallsUnmixed` (`TransfersUnmixed`), *for `LateOpen = FALSE`*: calls of one port
  do not mix; bytes of different ports do share buffers. `Orderly` says of
  the history of accepted bytes that bytes of two calls of one port never
  interleave; a call's later bytes can only come after the one ahead of it is
  reported.
* `RequestsCounted` (`RequestBytes`) and `StatsRight` (`StatsAccount`), *for
  `LateOpen = FALSE`*. `AccountInv` counts the bytes in the histories per call
  and per direction; `OverInv` says that a transfer that is complete is only
  reported from then on and never primed again, which is why its bytes are not
  counted twice. The histories are counted with sets of positions (`Places`).
* `NothingSentTwice` (`SentOnce`), *for `Faults = FALSE`*, and with late opens.
  `OnceInv`: in what was sent, followed by what the next completed write will
  append, each writer's bytes rise. That is not the filled part of the buffer,
  which `doOpen` may empty under a write in flight, but what the write carries
  (`Pending`).
* `NoCallForgotten` (`HeadsParked`), *for `IrqCalls = {}`*. `HeadInv`: from claim
  to park, a call's slot is its driver's.

The three conditions are not conveniences. `late_open` is the counterexample for
`LateOpen` (counts, and with them the read stream; `doOpen` also drops what was
staged) and `slot_race` the one for `IrqCalls`. Without `Faults = FALSE`, a late
`doOpen` forgives an error before it drops the staged bytes, and a write that
had reached the device before it failed may be repeated in between (comment at
`SentOnce`).

* `CopyMovesAll`, `CopyKeepsSane`, `InsaneMovesNothing`,
  `OverdrawnSourceMovesBack` (`StorageSpec_proofs`): what `bufferCopy` does for
  descriptors of any size. The last is the root of `late_open`. `StatusWord`: for
  any signed 16-bit count in the device's reply, the 16-bit sum that
  `SerGetBuf` returns is what remains to be read.

### The synchronous driver (`FujiSerialBasic_proofs`)

* `HandedSafe` (`HandedInOrder`), `StatusSafe` (`StatusHonest`),
  `ShortReadsSafe` (`ShortReadsIntact`). The invariant `Inv` relates the input
  buffer to the history: what was handed out, followed by what is left in the
  buffer, is what was fetched (`Stream`), and what the driver believes to be
  available is there (`AvailThere`). `CopyInv` adds for `ShortReadsSafe` what the
  current call's buffer holds after its first copy.
* `WritesSafe` (`WritesExact`) and `SourcesSafe` (`BlocksAttributed`). `SentInv`:
  the blocks of a call lie one after the other (`Apart`), no block is of a later
  call (`Upto`), the blocks of the current write reach as far as it has got
  (`Reaches`), and every block is labelled from the port it was written for
  (`Labelled`). `SourceOfPort` is the arithmetic of `getSource` for every
  reference number.

### The session (`FujiDeskAcc_proofs`)

* `GenuineSafe` (`ReadyIsGenuine`). The tag check proves nothing, since tags may
  be old; `TargetGenuine` follows the volume from the answer that was heard
  through the check of the reply to the connection block.
* `StubsSafe` (`StubsForward`), `InstallSafe` (`InstalledWhole`), `NamesSafe`
  (`NamesUnique`), `UnitsSafe` (`UnitsKept`), `RedirectSafe` (`RedirectHonest`).
  One invariant, `SysInv`, serves all five: the table is well formed
  (`TableOK`), and unless the error exit of `installStubDriver` has struck, table
  and memory agree (`Linked`): the driver's unit points to the driver and its
  data, every stub's unit to a stub that forwards to that driver, and nothing
  of an installation is in memory beyond that (`NoneStray`). The installer's
  operators are proved one by one to lead from such states to such states, for
  each allocation that may fail, and to keep the units in use (`Keeps`).
  `FindUnit` chooses the first unit of a name; that there is one is the least
  number principle (`Least`).
* `SessionTypesSafe` (`SessionTypeOK`).
* `TrafficSafe` (`TrafficAddressed`), *for at most one FujiNet volume*.
  `AddressWhole`: the two fields of the address differ only between the two
  assignments of an attempt, when no port is open yet. An attempt on a connected driver
  that gets so far again heard the same FujiNet, and stores the address that is
  already there.

### The throughput test (`SerialTests_proofs`)

* `MismatchSafe` (`MismatchMeansLoss`), `NoFalsePassSafe` (`NoFalsePass`),
  `NeverNegativeSafe` (`NeverNegative`). The three need each other: that a round
  never reads more than it wrote is what keeps the bytes of one round out of the
  next. The invariant `Inv` is about positions in the two streams. `Before` is
  how many bytes came in before this round, `Accepted` how many the port has
  taken in all; `Counts` places every stage of the way between them, from the
  staging buffer to the last byte delivered. `Seeds` says that each seed is the
  round's counter modulo the alphabet's length, `Right` that the outgoing bytes
  of the round spell the alphabet from `Before` on, and `Numbered` and `Echoes`
  that what comes in is what went out, unless the line has lost some. The lemma
  `FitsUnlessLost` puts these together for one read. A round ends when the
  counters agree, and then `Accepted` is the number of bytes delivered: nothing
  of the round is left anywhere (`BetweenCourse`, `PassedWhole`).

The theorems are about the test over the abstract port. That the driver
implements this port, unless it is opened late, is `ImplementsPort`.

### Assumptions

They are those that the modules name, and TLC evaluates them in every run.
`PortsAssumption` says that the test's two ports are different,
`RefNumsAssumption` that the synchronous driver's have reference numbers from -6 down
to -32768.
`MessagesAssumption`, that message sizes are natural numbers, is
arithmetic of powers of 2, which the prover does not know.
`NoneAssumption` (`None # noErr`) keeps "not opened yet" apart from "opened".
`UnitsAssumption` and `RomNamesAssumption` say that the ROM's driver names fit
the unit table, are all different, and do not include `.Fuji`.

### What is model-checked only

* *Liveness*: `Flushed`, `WritesComplete`, `FailureReported`, `ReadersServed`,
  `ReadsReturn`, `TestEnds`. The prover has no rule for the fairness conditions.

Every other property of a passing run is stated by one of the theorems above,
under the conditions named there; `late_open` and `slot_race` show what happens
where two of those conditions do not hold.

## 5. Plan

1. *Done:* `StorageSpec`, `FujiSerialAsync`, `SerialPort`, the session modules
   `FujiSerialInit`, `FujiFloppyInit`, `FujiDeskAcc`; the throughput test
   `SerialTests` with its loopback; the synchronous driver `FujiSerialBasic`; the
   16-bit arithmetic of the device's count (`StatusWord`); the theorems above.
2. Immediate calls, `KillIO` and close with a parked request; handle locking,
   and the flags that a redirection resets.

## 6. Not modelled

* *Without state that the drivers read:* drawing of the indicators
  (`LedIndicators.h`), debug macros and logging, prototypes, the layout of
  resources, the register conventions of the assembly glue.
* *Programs at the edge:* the menus and windows of the test application, the
  interactive `testSerialDriver` and the flush of stale input, the floppy
  benchmarks, the TCP tests, the control panel (and the `vblCount` that it may
  store).
* *Of the driver:* immediate calls, `KillIO`, and closing a port with a parked
  request; no program in the repository makes one that has an effect.
* *Of the installation:* locking of handles, the flags of a device control
  entry that a redirection replaces, a second FujiNet volume, and the build
  without a driver of its own (`STANDALONE_FUJI_DRIVER` 0).

The stub driver has no state: every port in `FujiSerialAsync` runs the main
driver's code directly.
