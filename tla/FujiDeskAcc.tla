----------------------------- MODULE FujiDeskAcc -----------------------------
(***************************************************************************)
(* A session with the FujiNet: the desk accessory (FujiDeskAcc.c), which   *)
(* installs the driver, connects it and redirects ports, the test          *)
(* application, which calls the same functions, and clients that open the  *)
(* redirected ports.  All of them run on the main thread, one call at a    *)
(* time; only the VBL task comes in between.                               *)
(***************************************************************************)
EXTENDS FujiSerialInit, FujiFloppyInit

CONSTANTS BootVolume    \* BootDrive, the volume the desk accessory connects to

ASSUME BootAssumption == BootVolume \in Volumes

VARIABLES
    caller,   \* who called fujiSerialOpen: "DA", "app", or "none"
    window,   \* TRUE while the desk accessory has its window
    marks,    \* the ports whose buttons are checked and disabled
    shown     \* TRUE when the status text says "Connected"

daVars == <<caller, window, marks, shown>>
vars == <<sys, connVars, daVars>>

Init ==
    /\ sys = InitSys
    /\ ConnInit
    /\ caller = "none" /\ window = FALSE /\ marks = {} /\ shown = FALSE

Idle == pc = "idle" /\ ~sys.wild

\* With memory in use disposed of, what the machine does is not the code's any more.
Crashed == sys.wild /\ UNCHANGED vars

\* updateButtonState
MarksOf(s) == {port \in Ports : Redirected(s, port)}

\* fujiSerialOpen: install the driver if need be, then connect it.
SerialOpen(who, v) ==
    /\ caller' = who
    /\ \E r \in Install(sys) :
        /\ sys' = r
        /\ IF r.err
           THEN /\ Return
                /\ UNCHANGED <<target, knocks, conn, files, tag, vbl, heard>>
                /\ trouble' = TRUE
           ELSE StartOpen(v)

\* doOpen: make the window unless there is one, and call fujiSerialOpen.
\* When there is no memory for the window the desk accessory closes itself.
DAOpens ==
    /\ Idle
    /\ \/ /\ window' = TRUE
          /\ SerialOpen("DA", BootVolume)
          /\ UNCHANGED <<marks, shown>>
       \/ /\ ~window
          /\ UNCHANGED vars

\* fujiSerialOpen returns; the desk accessory ignores the result.
SerialOpenReturns ==
    /\ pc = "done"
    /\ pc' = "idle" /\ caller' = "none"
    /\ marks' = IF caller = "DA" THEN MarksOf(sys) ELSE marks
    /\ UNCHANGED <<sys, target, knocks, err, conn, files, tag, vbl, heard, trouble, window, shown>>

\* doEvent: a click on a button, which is redrawn whatever the result.
DAEvent(port) ==
    /\ Idle /\ window /\ port \notin marks
    /\ sys' \in Redirect(sys, port)
    /\ marks' = MarksOf(sys')
    /\ UNCHANGED <<connVars, caller, window, shown>>

\* doRun: show the connection and the statistics.
DARun ==
    /\ Idle /\ window
    /\ shown' = (Installed(sys) /\ Ready)
    /\ UNCHANGED <<sys, connVars, caller, window, marks>>

\* doClose
DACloses ==
    /\ Idle /\ window
    /\ window' = FALSE /\ marks' = {} /\ shown' = FALSE
    /\ UNCHANGED <<sys, connVars, caller>>

\* The test application calls fujiSerialOpen and the redirect functions too.
AppOpens(v) == Idle /\ SerialOpen("app", v) /\ UNCHANGED <<window, marks, shown>>

AppRedirects(port) ==
    /\ Idle
    /\ sys' \in Redirect(sys, port)
    /\ UNCHANGED <<connVars, daVars>>

\* A client opens a redirected port: the stub passes it on to the driver.
ClientOpens(port) ==
    /\ Idle /\ Redirected(sys, port) /\ MayOpen
    /\ vbl' = TRUE
    /\ UNCHANGED <<sys, pc, target, knocks, err, conn, files, tag, heard, trouble, daVars>>

Next ==
    \/ DAOpens \/ SerialOpenReturns \/ DARun \/ DACloses \/ Crashed
    \/ FujiOpen /\ UNCHANGED <<sys, daVars>>
    \/ VblTraffic /\ UNCHANGED <<sys, daVars>>
    \/ \E v \in Volumes : AppOpens(v)
    \/ \E port \in Ports : DAEvent(port) \/ AppRedirects(port) \/ ClientOpens(port)

Spec == Init /\ [][Next]_vars

-----------------------------------------------------------------------------
(***************************************************************************)
(* Properties.                                                             *)
(***************************************************************************)

\* The variables hold values of their types; in particular fujiOpen never
\* knocks more often than the sequence is long.
SessionTypeOK ==
    /\ sys.UTable \in Seq([name : DriverNames \cup {""},
                           driver : Handle \cup {NoHandle}, storage : Handle \cup {NoHandle}])
    /\ Len(sys.UTable) <= MaxUnits
    /\ sys.heap \in [Handle -> [kind : {"free", "main", "stub", "data"},
                                name : DriverNames \cup {""}, target : Handle \cup {NoHandle}]]
    /\ sys.err \in BOOLEAN /\ sys.wild \in BOOLEAN /\ err \in BOOLEAN /\ vbl \in BOOLEAN
    /\ pc \in {"idle", "drive", "create", "open", "cache", "knock", "tag", "write",
               "readback", "refnum", "offset", "driver", "done"}
    /\ target \in Volumes \cup {NoVolume} /\ knocks \in 0 .. KnockLen
    /\ conn \in [fRefNum : Volumes \cup {NoVolume}, ioRefNum : Volumes \cup {NoVolume},
                 ioPosOffset : Volumes \cup {NoVolume}]
    /\ files \subseteq Volumes /\ tag \in {"FUJI", "other"}
    /\ heard \in BOOLEAN /\ trouble \in BOOLEAN /\ window \in BOOLEAN /\ shown \in BOOLEAN
    /\ caller \in {"DA", "app", "none"} /\ marks \subseteq Ports

\* Every stub in the unit table forwards to the installed main driver, which is
\* in memory, and shares its data block: one connection and one wake-up table
\* serve all ports, however often and in whatever order they are redirected.
\* (Until the error exit of installStubDriver frees a handle that is in use.)
StubsForward ==
    sys.wild \/ \A u \in Stubs(sys) :
        LET e == sys.UTable[u]
            main == sys.UTable[FindUnit(sys, Fuji)]
        IN  /\ FindUnit(sys, Fuji) # 0
            /\ sys.heap[e.driver] = Block("stub", e.name, main.driver)
            /\ sys.heap[main.driver].kind = "main"
            /\ e.storage = main.storage /\ sys.heap[e.storage].kind = "data"

\* Installing is all or nothing: the main driver and the data block are in
\* memory exactly when the unit table refers to them, so that failed attempts
\* leave nothing behind and no second instance is ever loaded.  (Until the error
\* exit of installStubDriver frees a handle that is in use.)
InstalledWhole ==
    LET u == FindUnit(sys, Fuji)
    IN  sys.wild \/
        {h \in Handle : sys.heap[h].kind \in {"main", "data"}} =
            IF u = 0 THEN {} ELSE {sys.UTable[u].driver, sys.UTable[u].storage}

\* A driver name stands for one unit: a port is redirected in place, and only a
\* driver that the table does not have gets a unit of its own.
NamesUnique ==
    \A u, v \in DOMAIN sys.UTable :
        sys.UTable[u].name = sys.UTable[v].name /\ sys.UTable[u].name # "" => u = v

\* A unit that is in use keeps its number, its name and, once it is FujiNet's,
\* its data, when the table grows and when ports are redirected again: the
\* reference numbers that clients hold stay good.
UnitsKept ==
    [][\A u \in DOMAIN sys.UTable : sys.UTable[u] # NoEntry =>
          /\ u \in DOMAIN sys'.UTable
          /\ sys'.UTable[u].name = sys.UTable[u].name
          /\ sys.UTable[u].storage # NoHandle => sys'.UTable[u].storage = sys.UTable[u].storage]_vars

\* The driver never takes a volume for the device that no FujiNet serves: a
\* tag left over from earlier traffic gets past the tag check, not past the
\* check of the reply.
ReadyIsGenuine == Ready => conn.ioRefNum \in FujiVolumes

\* Whenever the VBL task may run, the connection block has the address of one
\* device, whole: no port can be opened before the first connection, and an
\* attempt to connect again does not disturb the one there is.  (One FujiNet
\* volume is assumed; the file that stays open is what protects it.)
TrafficAddressed == vbl => conn.ioRefNum # NoVolume /\ conn.ioPosOffset = conn.ioRefNum

\* A redirection that reports success has redirected the port for output and
\* for input, whichever of its calls may fail.  (The converse does not hold: one
\* that fails at the input driver leaves the output driver redirected, and the
\* button, which looks at the output driver, checked.)
RedirectHonest ==
    [][\A port \in Ports :
          (AppRedirects(port) \/ DAEvent(port)) /\ ~sys'.err =>
              \A name \in {OutName(port), InName(port)} :
                  SerialData(sys', name) # NoHandle]_vars

\* Opening the desk accessory attempts to connect: when no call fails and the
\* FujiNet does not keep silent, the attempt ends connected.
AttemptConnects == pc = "done" /\ caller = "DA" /\ ~trouble => Ready
=============================================================================
