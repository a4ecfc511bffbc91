---------------------------- MODULE FujiSerialInit ----------------------------
(***************************************************************************)
(* Installing the FujiNet driver and redirecting ports to it,              *)
(* FujiCommon/FujiSerialInit.c (built with STANDALONE_FUJI_DRIVER).        *)
(*                                                                         *)
(* The state is the unit table with its device control entries, and the    *)
(* memory handles that the drivers and their data live in.  Every          *)
(* allocation may fail, so that a function of the code is a function from  *)
(* a state to the SET of states that it may leave behind, with its result  *)
(* in "err".                                                               *)
(***************************************************************************)
EXTENDS Naturals, Sequences, FiniteSets

CONSTANTS
    Handle,         \* memory handles
    NoHandle,       \* NULL
    RomNames,       \* the unit table at startup: driver names, "" for no entry
    FirstRamUnit,   \* units from here on are for RAM drivers (48 in the code)
    Growth,         \* entries added to a full table (4 in the code)
    MaxUnits        \* bound on the size of the unit table

Fuji == ".Fuji"
Ports == {"modem", "printer", "MacTCP"}
OutName(port) == CASE port = "modem"   -> ".AOut"
                   [] port = "printer" -> ".BOut"
                   [] port = "MacTCP"  -> ".IPP"
InName(port) == CASE port = "modem"   -> ".AIn"
                  [] port = "printer" -> ".BIn"
                  [] port = "MacTCP"  -> ".IPP"
DriverNames == {Fuji} \cup {OutName(p) : p \in Ports} \cup {InName(p) : p \in Ports}

ASSUME HandleAssumption == NoHandle \notin Handle
ASSUME UnitsAssumption ==
    /\ RomNames \in Seq(DriverNames \cup {""})
    /\ FirstRamUnit \in Nat \ {0} /\ Growth \in Nat \ {0}
    /\ MaxUnits \in Nat /\ Len(RomNames) <= MaxUnits
\* The drivers of a system that was just started have names of their own, and
\* .Fuji is not one of them.
ASSUME RomNamesAssumption ==
    \A u, v \in DOMAIN RomNames :
        /\ RomNames[u] # Fuji
        /\ RomNames[u] = RomNames[v] /\ RomNames[u] # "" => u = v

\* The unit table, the handles, the last result, and whether memory in use has
\* been disposed of.
VARIABLE sys

Entry(name, driver, storage) == [name |-> name, driver |-> driver, storage |-> storage]
NoEntry == Entry("", NoHandle, NoHandle)
Block(kind, name, target) == [kind |-> kind, name |-> name, target |-> target]
NoBlock == Block("free", "", NoHandle)

InitSys ==
    [UTable |-> [u \in 1 .. Len(RomNames) |-> Entry(RomNames[u], NoHandle, NoHandle)],
     heap   |-> [h \in Handle |-> NoBlock],
     err    |-> FALSE,
     wild   |-> FALSE]

Live(s) == {h \in Handle : s.heap[h] # NoBlock}

Fails(s) == [s EXCEPT !.err = TRUE]
Succeeds(s) == [s EXCEPT !.err = FALSE]
Allocate(s, h, block) == [s EXCEPT !.heap[h] = block]
Dispose(s, hs) == [s EXCEPT !.heap = [h \in Handle |-> IF h \in hs THEN NoBlock ELSE @[h]]]

-----------------------------------------------------------------------------
(***************************************************************************)
(* The unit table.  Unit numbers count from 1 here.                        *)
(***************************************************************************)

\* findUnitNumberByName: the first unit of that name, 0 when there is none.
FindUnit(s, name) ==
    LET found == {u \in DOMAIN s.UTable : s.UTable[u].name = name}
    IN  IF found = {} THEN 0 ELSE CHOOSE u \in found : \A v \in found : u <= v

\* getSerialDataHndl: the data block of a driver that has been replaced.
SerialData(s, name) ==
    LET u == FindUnit(s, name)
        e == s.UTable[u]
    IN  IF u # 0 /\ e.driver # NoHandle /\ e.storage # NoHandle
        THEN e.storage ELSE NoHandle

Installed(s) == SerialData(s, Fuji) # NoHandle
Redirected(s, port) == SerialData(s, OutName(port)) # NoHandle

EmptyRamUnits(s) == {u \in FirstRamUnit .. Len(s.UTable) : s.UTable[u] = NoEntry}

\* A larger table with the old entries at the front.  (Mutant: not copied.)
GrownClear(s) == [s EXCEPT !.UTable = [u \in 1 .. (Len(@) + Growth) |-> NoEntry]]
Grown(s) == [s EXCEPT !.UTable = [u \in 1 .. (Len(@) + Growth) |->
                                    IF u <= Len(@) THEN @[u] ELSE NoEntry]]

\* findSpaceInUnitTable: the state and the unit found, 0 when out of memory.
FindSpace(s) ==
    IF EmptyRamUnits(s) # {}
    THEN {<<s, CHOOSE u \in EmptyRamUnits(s) : \A v \in EmptyRamUnits(s) : u >= v>>}
    ELSE {<<s, 0>>} \cup
         {<<Grown(s), n>> : n \in {Len(s.UTable) + Growth} \cap 1 .. MaxUnits}

\* installDCE: point a unit's control entry, which may have to be allocated
\* first, at a driver in RAM and its data.
InstallDCE(s, u, driver, storage) ==
    {Succeeds([s EXCEPT !.UTable[u] = Entry(s.heap[driver].name, driver, storage)])}
    \cup (IF s.UTable[u] = NoEntry THEN {Fails(s)} ELSE {})

-----------------------------------------------------------------------------
(***************************************************************************)
(* Installation and redirection.                                           *)
(***************************************************************************)

\* The error exits of fujiSerialInstall dispose of what it has allocated.
\* (Mutant: of the driver only.)
AbandonDriver(s, hs) == Fails(Dispose(s, {h \in hs : s.heap[h].kind # "data"}))
Abandon(s, hs) == Fails(Dispose(s, hs))

InstallMain(s, driver, data) ==
    LET loaded == Allocate(Allocate(s, driver, Block("main", Fuji, NoHandle)),
                           data, Block("data", "", NoHandle))
    IN  UNION {IF f[2] = 0
               THEN {Abandon(f[1], {driver, data})}
               ELSE {IF r.err THEN Abandon(r, {driver, data}) ELSE r :
                        r \in InstallDCE(f[1], f[2], driver, data)} :
               f \in FindSpace(loaded)}

\* fujiSerialInstall
Install(s) ==
    IF Installed(s) THEN {Succeeds(s)}
    ELSE {Fails(s)} \cup UNION {InstallMain(s, d[1], d[2]) :
            d \in {x \in (Handle \ Live(s)) \X (Handle \ Live(s)) : x[1] # x[2]}}

\* The error exit of installStubDriver tests, and disposes of, a variable that
\* was never assigned; the stub itself stays allocated.  What it disposes of is
\* nothing, if that word is 0, or any handle.
StubError(s) ==
    {Fails(s)} \cup {[Fails(Dispose(s, {h})) EXCEPT !.wild = TRUE] : h \in Live(s)}

\* The unit of the driver that stubs forward to.  (Mutant: the one that is the
\* main driver in a build without a driver of its own.)
ModemOutUnit(s) == FindUnit(s, OutName("modem"))
MainUnit(s) == FindUnit(s, Fuji)

\* The unit for a stub: the one of its name, or a new one.  (Mutant: a new one.)
StubInNewUnit(s, name) == FindSpace(s)
StubUnit(s, name) ==
    IF FindUnit(s, name) # 0 THEN {<<s, FindUnit(s, name)>>} ELSE FindSpace(s)

\* installStubDriver: a stub of that name that forwards to the main driver and
\* shares its data block.
InstallStub(s, name) ==
    LET main == s.UTable[MainUnit(s)]
        Loaded(h) == Allocate(s, h, Block("stub", name, main.driver))
        Put(f, h) == IF f[2] = 0 THEN {Fails(f[1])}
                     ELSE InstallDCE(f[1], f[2], h, main.storage)
        Finish(r) == IF r.err THEN StubError(r) ELSE {r}
    IN  IF MainUnit(s) = 0 THEN {Fails(s)}
        ELSE StubError(s) \cup
             UNION {UNION {UNION {Finish(r) : r \in Put(f, h)} : f \in StubUnit(Loaded(h), name)} :
                    h \in Handle \ Live(s)}

\* installStubDrivers and fujiSerialRedirectModem, ...Printer, ...MacTCP.
\* (Mutant: the result of the first half is not looked at.)
RedirectBoth(s, port) ==
    UNION {IF port = "MacTCP" THEN {r} ELSE InstallStub(r, InName(port)) :
              r \in InstallStub(s, OutName(port))}
Redirect(s, port) ==
    LET outs == InstallStub(s, OutName(port))
    IN  IF port = "MacTCP" THEN outs
        ELSE UNION {IF r.err THEN {r} ELSE InstallStub(r, InName(port)) : r \in outs}

\* The units of the drivers that this code has redirected.
Stubs(s) == {u \in DOMAIN s.UTable :
                s.UTable[u].driver # NoHandle /\ s.UTable[u].name # Fuji}
=============================================================================
