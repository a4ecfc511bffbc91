-------------------------- MODULE FujiDeskAcc_proofs --------------------------
(***************************************************************************)
(* Theorems about FujiDeskAcc, for any volumes, any of which a FujiNet may *)
(* serve, any unit table and any number of memory handles.                 *)
(***************************************************************************)
EXTENDS FujiDeskAcc, WellFoundedInduction, SequenceTheorems, TLAPS

(***************************************************************************)
(* ReadyIsGenuine is not inductive.  What makes the volume genuine is      *)
(* established when it answers the knock, and carried, by the check of the *)
(* reply, to the step that stores it in the connection block.              *)
(***************************************************************************)

\* The connection block is a record.
ConnShape ==
    conn = [fRefNum |-> conn.fRefNum, ioRefNum |-> conn.ioRefNum,
            ioPosOffset |-> conn.ioPosOffset]

\* Only a volume that a FujiNet serves is heard, or has its reply accepted.
TargetGenuine ==
    heard \/ pc \in {"refnum", "offset", "driver"} => target \in FujiVolumes

GenuineInv == ConnShape /\ TargetGenuine /\ ReadyIsGenuine

\* In the initial state nothing is connected.
LEMMA GenuineInit == Init => GenuineInv
BY DEF Init, ConnInit, NoConn, GenuineInv, ConnShape, TargetGenuine, ReadyIsGenuine, Ready

\* Starting an attempt forgets what was heard in the one before.
LEMMA GenuineSerialOpen ==
    ASSUME GenuineInv, NEW who, NEW v, SerialOpen(who, v)
    PROVE  GenuineInv'
<1>1. PICK r \in Install(sys) :
        IF r.err THEN Return /\ UNCHANGED <<target, knocks, conn, files, tag, vbl, heard>>
                 ELSE StartOpen(v)
  BY DEF SerialOpen
<1>2. CASE r.err
  BY <1>1, <1>2
  DEF Return, GenuineInv, ConnShape, TargetGenuine, ReadyIsGenuine, Ready
<1>3. CASE ~r.err
  BY <1>1, <1>3
  DEF StartOpen, Goto, GenuineInv, ConnShape, TargetGenuine, ReadyIsGenuine, Ready
<1> QED
  BY <1>2, <1>3

\* The steps of fujiOpen.
LEMMA GenuineFujiOpen ==
    ASSUME GenuineInv, FujiOpen
    PROVE  GenuineInv'
<1> USE DEF GenuineInv, ConnShape, TargetGenuine, ReadyIsGenuine, Ready, Goto, Return, Trouble
<1>1. CASE FindDrive \/ CreateFile \/ DisableCache \/ CheckTag \/ WriteRequest
  BY <1>1 DEF FindDrive, CreateFile, DisableCache, CheckTag, WriteRequest
<1>2. CASE OpenFile
  BY <1>2 DEF OpenFile
<1>3. CASE Knock
  <2>1. UNCHANGED <<target, conn>> /\ pc' \in {"tag", "knock", "done"}
    BY <1>3 DEF Knock
  <2>2. heard' => target \in FujiVolumes
    BY <1>3 DEF Knock
  <2> QED
    BY <2>1, <2>2
<1>4. CASE ReadReply
  BY <1>4 DEF ReadReply, ReadBacks, IsReply
<1>5. CASE SetRefNum \/ SetOffset
  BY <1>5 DEF SetRefNum, SetOffset
<1>6. CASE OpenMain
  BY <1>6 DEF OpenMain
<1> QED
  BY <1>1, <1>2, <1>3, <1>4, <1>5, <1>6 DEF FujiOpen

\* Everything else leaves the connection alone.
LEMMA GenuineNext ==
    ASSUME GenuineInv, [Next]_vars
    PROVE  GenuineInv'
<1> USE DEF GenuineInv, ConnShape, TargetGenuine, ReadyIsGenuine, Ready
<1>1. CASE UNCHANGED vars
  BY <1>1 DEF vars, connVars
<1>2. CASE DAOpens
  BY <1>1, <1>2, GenuineSerialOpen DEF DAOpens
<1>3. CASE SerialOpenReturns
  BY <1>3 DEF SerialOpenReturns
<1>4. CASE DARun \/ DACloses \/ Crashed
  BY <1>4 DEF DARun, DACloses, Crashed, vars, connVars
<1>5. CASE FujiOpen
  BY <1>5, GenuineFujiOpen
<1>6. CASE VblTraffic
  BY <1>6 DEF VblTraffic
<1>7. CASE \E v \in Volumes : AppOpens(v)
  BY <1>7, GenuineSerialOpen DEF AppOpens
<1>8. CASE \E port \in Ports : DAEvent(port) \/ AppRedirects(port) \/ ClientOpens(port)
  BY <1>8 DEF DAEvent, AppRedirects, ClientOpens, connVars
<1> QED
  BY <1>1, <1>2, <1>3, <1>4, <1>5, <1>6, <1>7, <1>8 DEF Next

\* The driver never takes a volume that no FujiNet serves for its device,
\* whatever tags earlier traffic left behind, on any number of volumes and
\* through any number of attempts.
THEOREM GenuineSafe == Spec => []ReadyIsGenuine
<1>1. Init => GenuineInv
  BY GenuineInit
<1>2. GenuineInv /\ [Next]_vars => GenuineInv'
  BY GenuineNext
<1>3. GenuineInv => ReadyIsGenuine
  BY DEF GenuineInv
<1> QED
  BY <1>1, <1>2, <1>3, PTL DEF Spec

-----------------------------------------------------------------------------
(***************************************************************************)
(* The unit table and the memory.  What the properties of an installation  *)
(* have in common is stated about a table t and the memory m:  the table   *)
(* is well formed, and what it points to is what it should be.             *)
(***************************************************************************)

Handles == Handle \cup {NoHandle}
Names == DriverNames \cup {""}
Entries == [name : Names, driver : Handles, storage : Handles]
HeapBlocks == [kind : {"free", "main", "stub", "data"}, name : Names, target : Handles]

\* A name other than "" stands for one unit.
TableOK(t) ==
    /\ t \in Seq(Entries) /\ Len(t) <= MaxUnits
    /\ \A u, v \in DOMAIN t : t[u].name = t[v].name /\ t[u].name # "" => u = v
    /\ \A u \in DOMAIN t : t[u].name = "" => t[u] = NoEntry

\* The driver is in memory with its data.
MainLinked(t, m) == \A u \in DOMAIN t : t[u].name = Fuji =>
    /\ t[u].driver \in Handle /\ m[t[u].driver] = Block("main", Fuji, NoHandle)
    /\ t[u].storage \in Handle /\ m[t[u].storage] = Block("data", "", NoHandle)

\* Nothing of an installation is in memory but what the table refers to.
NoneStray(t, m) == \A h \in Handle : m[h].kind \in {"main", "data"} =>
    \E u \in DOMAIN t : t[u].name = Fuji /\ h \in {t[u].driver, t[u].storage}

\* A stub e forwards to the driver in unit v and shares its data.
Forwards(t, m, e, v) ==
    /\ t[v].name = Fuji
    /\ e.driver \in Handle /\ m[e.driver] = Block("stub", e.name, t[v].driver)
    /\ e.storage = t[v].storage
StubsLinked(t, m) == \A u \in DOMAIN t :
    t[u].driver # NoHandle /\ t[u].name # Fuji => \E v \in DOMAIN t : Forwards(t, m, t[u], v)

Linked(t, m) ==
    /\ MainLinked(t, m) /\ NoneStray(t, m) /\ StubsLinked(t, m)
    /\ \A u \in DOMAIN t : t[u].driver = NoHandle => t[u].storage = NoHandle

\* Units in use keep their numbers, names and data.
Keeps(t, r) == \A u \in DOMAIN t : t[u] # NoEntry =>
    /\ u \in DOMAIN r /\ r[u].name = t[u].name
    /\ t[u].storage # NoHandle => r[u].storage = t[u].storage

\* r is t, or t with free units at its end.
Lengthens(t, r) ==
    /\ DOMAIN t \subseteq DOMAIN r
    /\ \A u \in DOMAIN t : r[u] = t[u]
    /\ \A u \in DOMAIN r : u \notin DOMAIN t => r[u] = NoEntry

StubNames == DriverNames \ {Fuji}

LEMMA NamesKnown ==
  /\ Fuji \in DriverNames /\ Fuji # "" /\ "" \notin DriverNames
  /\ \A port \in Ports : OutName(port) \in StubNames /\ InName(port) \in StubNames
<1>1. ASSUME NEW port \in Ports
      PROVE  /\ OutName(port) \in {".AOut", ".BOut", ".IPP"}
             /\ InName(port) \in {".AIn", ".BIn", ".IPP"}
  BY DEF Ports, OutName, InName
<1>2. /\ Fuji \in DriverNames
      /\ \A port \in Ports : OutName(port) \in DriverNames /\ InName(port) \in DriverNames
  BY DEF DriverNames
<1>3. "" \notin DriverNames
  BY <1>1 DEF DriverNames, Fuji
<1> QED
  BY <1>1, <1>2, <1>3 DEF StubNames, Fuji

LEMMA LengthensKeeps ==
  ASSUME NEW t, NEW r, NEW m, TableOK(t), TableOK(r), Lengthens(t, r), Linked(t, m)
  PROVE  Linked(r, m) /\ Keeps(t, r)
<1>1. /\ DOMAIN t \subseteq DOMAIN r /\ \A u \in DOMAIN t : r[u] = t[u]
      /\ \A u \in DOMAIN r : u \notin DOMAIN t =>
             r[u].name = "" /\ r[u].driver = NoHandle /\ r[u].storage = NoHandle
  <2>1. NoEntry.name = "" /\ NoEntry.driver = NoHandle /\ NoEntry.storage = NoHandle
    BY DEF NoEntry, Entry
  <2> QED
    BY <2>1 DEF Lengthens
<1>2. Fuji # ""
  BY NamesKnown
<1>3. MainLinked(r, m)
  BY <1>1, <1>2 DEF MainLinked, Linked
<1>4. NoneStray(r, m)
  BY <1>1 DEF NoneStray, Linked
<1>5. StubsLinked(r, m)
  <2> SUFFICES ASSUME NEW u \in DOMAIN r, r[u].driver # NoHandle, r[u].name # Fuji
               PROVE  \E v \in DOMAIN r : Forwards(r, m, r[u], v)
    BY DEF StubsLinked
  <2>1. u \in DOMAIN t /\ r[u] = t[u]
    BY <1>1
  <2>2. PICK v \in DOMAIN t : Forwards(t, m, t[u], v)
    BY <2>1 DEF Linked, StubsLinked
  <2>3. v \in DOMAIN r /\ r[v] = t[v]
    BY <1>1
  <2> QED
    BY <2>1, <2>2, <2>3 DEF Forwards
<1>6. \A u \in DOMAIN r : r[u].driver = NoHandle => r[u].storage = NoHandle
  BY <1>1 DEF Linked
<1>7. Keeps(t, r)
  BY <1>1 DEF Keeps
<1> QED
  BY <1>3, <1>4, <1>5, <1>6, <1>7 DEF Linked

\* Unit u of t may have the entry e; r is t with e in unit u.
Fits(t, u, e) == e.name # "" /\ \A v \in DOMAIN t : t[v].name = e.name => v = u
IsPut(t, u, e, r) ==
    /\ DOMAIN r = DOMAIN t /\ r[u] = e
    /\ \A v \in DOMAIN t : v # u => r[v] = t[v]

LEMMA PutEntry ==
  ASSUME NEW t, TableOK(t), NEW u \in DOMAIN t, NEW e \in Entries, Fits(t, u, e),
         NEW r, r = [t EXCEPT ![u] = e]
  PROVE  TableOK(r) /\ IsPut(t, u, e, r)
<1>1. t \in Seq(Entries) /\ Len(t) <= MaxUnits
  BY DEF TableOK
<1>2. /\ r \in Seq(Entries) /\ Len(r) = Len(t) /\ DOMAIN r = DOMAIN t /\ r[u] = e
      /\ \A v \in DOMAIN t : v # u => r[v] = t[v]
  <2>1. u \in 1 .. Len(t) /\ DOMAIN t = 1 .. Len(t)
    BY <1>1, LenProperties, Zenon
  <2>2. /\ r \in Seq(Entries) /\ Len(r) = Len(t)
        /\ \A j \in 1 .. Len(t) : r[j] = IF j = u THEN e ELSE t[j]
    BY <1>1, <2>1, ExceptSeq, Zenon
  <2>3. DOMAIN r = 1 .. Len(r)
    BY <2>2, LenProperties, Zenon
  <2> QED
    BY <2>1, <2>2, <2>3, Zenon
<1>3. \A v, w \in DOMAIN r : r[v].name = r[w].name /\ r[v].name # "" => v = w
  <2> TAKE v, w \in DOMAIN r
  <2>1. CASE v = u \/ w = u
    BY <1>2, <2>1 DEF Fits
  <2>2. CASE v # u /\ w # u
    BY <1>2, <2>2 DEF TableOK
  <2> QED
    BY <2>1, <2>2
<1>4. \A v \in DOMAIN r : r[v].name = "" => r[v] = NoEntry
  BY <1>2 DEF TableOK, Fits
<1> QED
  BY <1>1, <1>2, <1>3, <1>4 DEF TableOK, IsPut

LEMMA PutStub ==
  ASSUME NEW t, NEW m, TableOK(t), Linked(t, m),
         NEW u \in DOMAIN t, NEW main \in DOMAIN t, t[main].name = Fuji,
         NEW name \in StubNames, NEW h \in Handle,
         m[h] = Block("stub", name, t[main].driver),
         \/ t[u] = NoEntry /\ \A v \in DOMAIN t : t[v].name # name
         \/ t[u].name = name,
         NEW r, r = [t EXCEPT ![u] = Entry(name, h, t[main].storage)]
  PROVE  TableOK(r) /\ Linked(r, m) /\ Keeps(t, r)
         /\ u \in DOMAIN r /\ r[u].name = name /\ r[u].storage # NoHandle
<1> DEFINE e == Entry(name, h, t[main].storage)
<1>1. name # Fuji /\ name # "" /\ Fuji # "" /\ name \in Names
  BY NamesKnown DEF StubNames, Names
<1>2. /\ t[main].driver \in Handle /\ t[main].storage \in Handle
      /\ m[t[main].driver] = Block("main", Fuji, NoHandle)
      /\ m[t[main].storage] = Block("data", "", NoHandle)
  BY DEF Linked, MainLinked
<1>3. /\ e \in Entries /\ e.name = name /\ e.driver = h /\ e.storage = t[main].storage
      /\ e.driver # NoHandle /\ e.storage # NoHandle
  BY <1>1, <1>2, HandleAssumption DEF Entry, Entries, Handles
<1> HIDE DEF e
<1>4. /\ t[u].name \in {name, ""} /\ u # main
      /\ \A v \in DOMAIN t : t[v].name = name => v = u
  <2>1. NoEntry.name = ""
    BY DEF NoEntry, Entry
  <2>2. \A v \in DOMAIN t : t[v].name = name /\ t[u].name = name => v = u
    BY <1>1 DEF TableOK
  <2> QED
    BY <1>1, <2>1, <2>2
<1>5. /\ TableOK(r) /\ DOMAIN r = DOMAIN t /\ r[u] = e
      /\ \A v \in DOMAIN t : v # u => r[v] = t[v]
  <2>1. r = [t EXCEPT ![u] = e]
    BY DEF e
  <2>2. Fits(t, u, e)
    BY <1>1, <1>3, <1>4 DEF Fits
  <2>3. TableOK(r) /\ IsPut(t, u, e, r)
    BY <1>3, <2>1, <2>2, PutEntry
  <2> QED
    BY <2>3 DEF IsPut
<1>6. /\ r[main] = t[main]
      /\ \A v \in DOMAIN t : t[v].name = Fuji => v = main
  <2>1. \A v \in DOMAIN t : t[v].name = Fuji => v = main
    BY <1>1 DEF TableOK
  <2> QED
    BY <1>4, <1>5, <2>1
<1>7. MainLinked(r, m)
  BY <1>1, <1>3, <1>5 DEF Linked, MainLinked
<1>8. NoneStray(r, m)
  <2> SUFFICES ASSUME NEW k \in Handle, m[k].kind \in {"main", "data"}
               PROVE  \E v \in DOMAIN r : r[v].name = Fuji /\ k \in {r[v].driver, r[v].storage}
    BY DEF NoneStray
  <2>1. PICK v \in DOMAIN t : t[v].name = Fuji /\ k \in {t[v].driver, t[v].storage}
    BY DEF Linked, NoneStray
  <2>2. v # u
    BY <1>1, <1>4, <2>1
  <2> QED
    BY <1>5, <2>1, <2>2
<1>9. StubsLinked(r, m)
  <2> SUFFICES ASSUME NEW v \in DOMAIN r, r[v].driver # NoHandle, r[v].name # Fuji
               PROVE  \E w \in DOMAIN r : Forwards(r, m, r[v], w)
    BY DEF StubsLinked
  <2>1. CASE v = u
    <3>1. Forwards(r, m, r[v], main)
      BY <1>3, <1>5, <1>6, <2>1 DEF Forwards
    <3> QED
      BY <1>5, <3>1
  <2>2. CASE v # u
    <3>1. v \in DOMAIN t /\ r[v] = t[v]
      BY <1>5, <2>2
    <3>2. PICK w \in DOMAIN t : Forwards(t, m, t[v], w)
      BY <3>1 DEF Linked, StubsLinked
    <3>3. w \in DOMAIN r /\ r[w] = t[w]
      BY <1>5, <1>6, <3>2 DEF Forwards
    <3> QED
      BY <3>1, <3>2, <3>3 DEF Forwards
  <2> QED
    BY <2>1, <2>2
<1>10. \A v \in DOMAIN r : r[v].driver = NoHandle => r[v].storage = NoHandle
  BY <1>3, <1>5 DEF Linked
<1>11. Keeps(t, r)
  <2> SUFFICES ASSUME NEW v \in DOMAIN t, t[v] # NoEntry
               PROVE  /\ v \in DOMAIN r /\ r[v].name = t[v].name
                      /\ t[v].storage # NoHandle => r[v].storage = t[v].storage
    BY DEF Keeps
  <2>1. CASE v # u
    BY <1>5, <2>1
  <2>2. CASE v = u
    <3>1. t[u].name = name
      BY <2>2
    <3>2. t[u].storage # NoHandle => t[u].storage = t[main].storage
      <4> SUFFICES ASSUME t[u].storage # NoHandle
                   PROVE  t[u].storage = t[main].storage
        OBVIOUS
      <4>1. t[u].driver # NoHandle
        BY DEF Linked
      <4>2. PICK w \in DOMAIN t : Forwards(t, m, t[u], w)
        BY <1>1, <3>1, <4>1 DEF Linked, StubsLinked
      <4> QED
        BY <1>6, <4>2 DEF Forwards
    <3> QED
      BY <1>3, <1>5, <2>2, <3>1, <3>2
  <2> QED
    BY <2>1, <2>2
<1> QED
  BY <1>3, <1>5, <1>7, <1>8, <1>9, <1>10, <1>11 DEF Linked

\* The driver and its data get a free unit of a table that does not have them.
LEMMA PutMain ==
  ASSUME NEW t, NEW m, TableOK(t), Linked(t, m), \A v \in DOMAIN t : t[v].name # Fuji,
         NEW u \in DOMAIN t, t[u] = NoEntry,
         NEW d \in Handle, NEW x \in Handle, d # x,
         NEW k, k = [[m EXCEPT ![d] = Block("main", Fuji, NoHandle)]
                       EXCEPT ![x] = Block("data", "", NoHandle)],
         m \in [Handle -> HeapBlocks],
         NEW r, r = [t EXCEPT ![u] = Entry(Fuji, d, x)]
  PROVE  TableOK(r) /\ Linked(r, k) /\ Keeps(t, r)
<1> DEFINE e == Entry(Fuji, d, x)
<1>1. /\ e \in Entries /\ e.name = Fuji /\ e.driver = d /\ e.storage = x
      /\ Fuji # "" /\ e.driver # NoHandle
  BY NamesKnown, HandleAssumption DEF Entry, Entries, Handles, Names
<1>2. /\ TableOK(r) /\ DOMAIN r = DOMAIN t /\ r[u] = e
      /\ \A v \in DOMAIN t : v # u => r[v] = t[v]
  <2>1. Fits(t, u, e)
    BY <1>1 DEF Fits
  <2>2. r = [t EXCEPT ![u] = e]
    OBVIOUS
  <2> HIDE DEF e
  <2>3. TableOK(r) /\ IsPut(t, u, e, r)
    BY <1>1, <2>1, <2>2, PutEntry
  <2> QED
    BY <2>3 DEF IsPut
<1>3. /\ k[d] = Block("main", Fuji, NoHandle) /\ k[x] = Block("data", "", NoHandle)
      /\ \A h \in Handle : h \notin {d, x} => k[h] = m[h]
  OBVIOUS
<1> HIDE DEF e
<1>4. \A v \in DOMAIN t : t[v].driver = NoHandle /\ t[v].storage = NoHandle
  BY DEF Linked, StubsLinked, Forwards
<1>5. MainLinked(r, k)
  BY <1>1, <1>2, <1>3 DEF MainLinked
<1>6. NoneStray(r, k)
  <2> SUFFICES ASSUME NEW h \in Handle, k[h].kind \in {"main", "data"}
               PROVE  h \in {d, x}
    BY <1>1, <1>2 DEF NoneStray
  <2> QED
    BY <1>3 DEF Linked, NoneStray
<1>7. StubsLinked(r, k)
  BY <1>1, <1>2, <1>4 DEF StubsLinked
<1>8. \A v \in DOMAIN r : r[v].driver = NoHandle => r[v].storage = NoHandle
  BY <1>1, <1>2, <1>4
<1>9. Keeps(t, r)
  BY <1>2 DEF Keeps
<1> QED
  BY <1>2, <1>5, <1>6, <1>7, <1>8, <1>9 DEF Linked

\* A stub in memory that nothing refers to yet.
LEMMA LoadStub ==
  ASSUME NEW t, NEW m \in [Handle -> HeapBlocks], Linked(t, m),
         NEW h \in Handle, m[h] = NoBlock,
         NEW name \in StubNames, NEW g \in Handles,
         NEW k, k = [m EXCEPT ![h] = Block("stub", name, g)]
  PROVE  k \in [Handle -> HeapBlocks] /\ Linked(t, k) /\ k[h] = Block("stub", name, g)
<1>1. /\ Block("stub", name, g) \in HeapBlocks
      /\ Block("stub", name, g).kind = "stub" /\ NoBlock.kind = "free"
  BY DEF Block, HeapBlocks, NoBlock, Names, StubNames
<1>2. /\ k \in [Handle -> HeapBlocks] /\ k[h] = Block("stub", name, g)
      /\ \A i \in Handle : i # h => k[i] = m[i]
  BY <1>1
<1>3. \A i \in Handle : m[i].kind # "free" => k[i] = m[i]
  BY <1>1, <1>2
<1>4. \A kind, n, i : Block(kind, n, i).kind = kind
  BY DEF Block
<1>5. MainLinked(t, k)
  <2> SUFFICES ASSUME NEW u \in DOMAIN t, t[u].name = Fuji
               PROVE  /\ t[u].driver \in Handle /\ k[t[u].driver] = Block("main", Fuji, NoHandle)
                      /\ t[u].storage \in Handle /\ k[t[u].storage] = Block("data", "", NoHandle)
    BY DEF MainLinked
  <2>1. /\ t[u].driver \in Handle /\ m[t[u].driver] = Block("main", Fuji, NoHandle)
        /\ t[u].storage \in Handle /\ m[t[u].storage] = Block("data", "", NoHandle)
    BY DEF Linked, MainLinked
  <2>2. m[t[u].driver].kind = "main" /\ m[t[u].storage].kind = "data"
    <3>1. /\ Block("main", Fuji, NoHandle).kind = "main"
          /\ Block("data", "", NoHandle).kind = "data"
      BY DEF Block
    <3> QED
      BY <2>1, <3>1, Zenon
  <2> QED
    BY <1>3, <2>1, <2>2
<1>6. NoneStray(t, k)
  BY <1>1, <1>2 DEF Linked, NoneStray
<1>7. StubsLinked(t, k)
  <2> SUFFICES ASSUME NEW u \in DOMAIN t, t[u].driver # NoHandle, t[u].name # Fuji
               PROVE  \E v \in DOMAIN t : Forwards(t, k, t[u], v)
    BY DEF StubsLinked
  <2>1. PICK v \in DOMAIN t : Forwards(t, m, t[u], v)
    BY DEF Linked, StubsLinked
  <2>2. Forwards(t, k, t[u], v)
    BY <1>3, <1>4, <2>1 DEF Forwards
  <2> QED
    BY <2>2
<1> QED
  BY <1>2, <1>5, <1>6, <1>7 DEF Linked


-----------------------------------------------------------------------------
(***************************************************************************)
(* The functions of FujiSerialInit, from a state s to those that it may    *)
(* leave behind.                                                           *)
(***************************************************************************)

\* The shape of the system's state.
Shape(s) ==
    /\ s = [UTable |-> s.UTable, heap |-> s.heap, err |-> s.err, wild |-> s.wild]
    /\ TableOK(s.UTable) /\ s.heap \in [Handle -> HeapBlocks]
    /\ s.err \in BOOLEAN /\ s.wild \in BOOLEAN
SysOK(s) == Shape(s) /\ (s.wild \/ Linked(s.UTable, s.heap))

\* r is s with another table, memory, and so on.
Gives(r, t, m, e, w) == r.UTable = t /\ r.heap = m /\ r.err = e /\ r.wild = w

Record(t, m, e, w) == [UTable |-> t, heap |-> m, err |-> e, wild |-> w]

LEMMA Fields ==
  ASSUME NEW t, NEW m, NEW e, NEW w
  PROVE  Gives(Record(t, m, e, w), t, m, e, w)
BY DEF Gives, Record

LEMMA ShapeRecord ==
  ASSUME NEW s, Shape(s)
  PROVE  s = Record(s.UTable, s.heap, s.err, s.wild)
BY DEF Shape, Record

LEMMA RecordShape ==
  ASSUME NEW t, NEW m, NEW e \in BOOLEAN, NEW w \in BOOLEAN,
         TableOK(t), m \in [Handle -> HeapBlocks]
  PROVE  Shape(Record(t, m, e, w))
BY DEF Shape, Record

LEMMA ShapeGives ==
  ASSUME NEW s, Shape(s)
  PROVE  /\ Gives(Fails(s), s.UTable, s.heap, TRUE, s.wild)
         /\ Gives(Succeeds(s), s.UTable, s.heap, FALSE, s.wild)
         /\ Shape(Fails(s)) /\ Shape(Succeeds(s))
<1>1. s = Record(s.UTable, s.heap, s.err, s.wild)
  BY ShapeRecord
<1>2. /\ Fails(s) = Record(s.UTable, s.heap, TRUE, s.wild)
      /\ Succeeds(s) = Record(s.UTable, s.heap, FALSE, s.wild)
  <2>1. \A x : [s EXCEPT !.err = x] = Record(s.UTable, s.heap, x, s.wild)
    BY <1>1 DEF Record
  <2> QED
    BY <2>1, Zenon DEF Fails, Succeeds
<1>3. /\ TableOK(s.UTable) /\ s.heap \in [Handle -> HeapBlocks]
      /\ s.wild \in BOOLEAN
  BY DEF Shape
<1>4. Shape(Fails(s)) /\ Shape(Succeeds(s))
  BY <1>2, <1>3, RecordShape
<1> QED
  <2>1. /\ Gives(Record(s.UTable, s.heap, TRUE, s.wild), s.UTable, s.heap, TRUE, s.wild)
        /\ Gives(Record(s.UTable, s.heap, FALSE, s.wild), s.UTable, s.heap, FALSE, s.wild)
    BY Fields
  <2> QED
    BY <1>2, <1>4, <2>1, Zenon

\* The least-number principle: a set of numbers has a least one.
LEMMA Least ==
  ASSUME NEW T, T \subseteq Nat, T # {}
  PROVE  \E x \in T : \A y \in T : x <= y
<1>1. \E x \in T : \A y \in T : ~ (<<y, x>> \in OpToRel(<,Nat))
  BY NatLessThanWellFounded, WFMin, Zenon
<1>2. PICK x \in T : \A y \in T : ~ (<<y, x>> \in OpToRel(<,Nat))
  BY <1>1
<1> SUFFICES ASSUME NEW y \in T, ~(x <= y)
             PROVE  FALSE
  BY <1>2
<1>3. x \in Nat /\ y \in Nat /\ y < x
  OBVIOUS
<1>4. <<y, x>> \in OpToRel(<,Nat)
  BY <1>3 DEF OpToRel
<1> QED
  BY <1>2, <1>4

\* findUnitNumberByName finds the unit of a name, if there is one.
LEMMA UnitFound ==
  ASSUME NEW s, Shape(s), NEW name \in DriverNames
  PROVE  \/ FindUnit(s, name) = 0 /\ \A u \in DOMAIN s.UTable : s.UTable[u].name # name
         \/ /\ FindUnit(s, name) \in DOMAIN s.UTable /\ FindUnit(s, name) # 0
            /\ s.UTable[FindUnit(s, name)].name = name
            /\ \A u \in DOMAIN s.UTable : s.UTable[u].name = name => u = FindUnit(s, name)
<1> DEFINE found == {u \in DOMAIN s.UTable : s.UTable[u].name = name}
<1>1. DOMAIN s.UTable = 1 .. Len(s.UTable) /\ Len(s.UTable) \in Nat
  <2>1. s.UTable \in Seq(Entries)
    BY DEF Shape, TableOK
  <2> QED
    BY <2>1, LenProperties, Zenon
<1>2. FindUnit(s, name) = IF found = {} THEN 0
                          ELSE CHOOSE u \in found : \A v \in found : u <= v
  BY DEF FindUnit
<1>3. CASE found = {}
  BY <1>2, <1>3
<1>4. CASE found # {}
  <2>1. PICK u \in found : TRUE
    BY <1>4
  <2>2. \A v \in found : v = u
    <3>1. name # ""
      BY NamesKnown
    <3> QED
      BY <2>1, <3>1 DEF Shape, TableOK
  <2>3. u \in Nat /\ u <= u /\ u # 0
    BY <1>1, <2>1
  <2>4. \E x \in found : \A v \in found : x <= v
    BY <2>1, <2>2, <2>3
  <2>5. FindUnit(s, name) \in found
    BY <1>2, <1>4, <2>4
  <2> QED
    BY <2>2, <2>3, <2>5
<1> QED
  BY <1>3, <1>4

\* The table with room for more drivers.
LEMMA GrownTable ==
  ASSUME NEW s, Shape(s), Len(s.UTable) + Growth <= MaxUnits
  PROVE  /\ Shape(Grown(s))
         /\ Gives(Grown(s), Grown(s).UTable, s.heap, s.err, s.wild)
         /\ Lengthens(s.UTable, Grown(s).UTable)
         /\ Len(s.UTable) + Growth \in DOMAIN Grown(s).UTable
         /\ Grown(s).UTable[Len(s.UTable) + Growth] = NoEntry
<1> DEFINE t == s.UTable
           n == Len(s.UTable)
<1>1. PICK r : r = [u \in 1 .. (n + Growth) |-> IF u <= n THEN t[u] ELSE NoEntry]
  OBVIOUS
<1>2. Grown(s) = Record(r, s.heap, s.err, s.wild) /\ Gives(Grown(s), r, s.heap, s.err, s.wild)
  <2>1. s = Record(s.UTable, s.heap, s.err, s.wild)
    BY ShapeRecord
  <2>2. Grown(s) = [s EXCEPT !.UTable = r]
    BY <1>1, <2>1 DEF Grown, Record
  <2>3. Grown(s) = Record(r, s.heap, s.err, s.wild)
    BY <2>1, <2>2 DEF Record
  <2>4. Gives(Record(r, s.heap, s.err, s.wild), r, s.heap, s.err, s.wild)
    BY Fields
  <2> QED
    BY <2>3, <2>4, Zenon
<1>3. t \in Seq(Entries) /\ n \in Nat /\ DOMAIN t = 1 .. n /\ \A u \in DOMAIN t : t[u] \in Entries
  <2>1. t \in Seq(Entries)
    BY DEF Shape, TableOK
  <2>2. n \in Nat /\ DOMAIN t = 1 .. n
    BY <2>1, LenProperties, Zenon
  <2> QED
    BY <2>1, <2>2
<1>4. Growth \in Nat /\ Growth # 0
  BY UnitsAssumption
<1>5. NoEntry \in Entries /\ NoEntry.name = ""
  BY DEF NoEntry, Entry, Entries, Names, Handles
<1> HIDE DEF t, n
<1>6. /\ r \in Seq(Entries) /\ Len(r) = n + Growth /\ DOMAIN r = 1 .. (n + Growth)
      /\ \A u \in DOMAIN t : u \in DOMAIN r /\ r[u] = t[u]
      /\ \A u \in DOMAIN r : u \notin DOMAIN t => r[u] = NoEntry
  <2>1. DOMAIN r = 1 .. (n + Growth) /\ n + Growth \in Nat
    BY <1>1, <1>3, <1>4
  <2>2. \A u \in DOMAIN t : u \in DOMAIN r /\ r[u] = t[u]
    BY <1>1, <1>3, <1>4
  <2>3. \A u \in DOMAIN r : u \notin DOMAIN t => r[u] = NoEntry
    BY <1>1, <1>3, <1>4
  <2>4. \A u \in DOMAIN r : r[u] \in Entries
    BY <1>3, <1>5, <2>2, <2>3
  <2>5. r \in [1 .. (n + Growth) -> Entries]
    BY <1>1, <2>1, <2>4
  <2> QED
    BY <2>1, <2>2, <2>3, <2>5
<1>7. TableOK(r)
  <2>1. Len(r) <= MaxUnits
    BY <1>6 DEF n
  <2>2. \A u, v \in DOMAIN r : r[u].name = r[v].name /\ r[u].name # "" => u = v
    <3> TAKE u, v \in DOMAIN r
    <3> HAVE r[u].name = r[v].name /\ r[u].name # ""
    <3>1. u \in DOMAIN t /\ v \in DOMAIN t
      BY <1>5, <1>6
    <3> QED
      BY <1>6, <3>1 DEF Shape, TableOK, t
  <2>3. \A u \in DOMAIN r : r[u].name = "" => r[u] = NoEntry
    BY <1>6 DEF Shape, TableOK, t
  <2> QED
    BY <1>6, <2>1, <2>2, <2>3 DEF TableOK
<1>8. Lengthens(t, r)
  BY <1>6 DEF Lengthens
<1>9. n + Growth \in DOMAIN r /\ r[n + Growth] = NoEntry
  <2>1. n + Growth \in 1 .. (n + Growth) /\ n + Growth \notin 1 .. n
    BY <1>3, <1>4
  <2> QED
    BY <1>3, <1>6, <2>1
<1>10. Shape(Grown(s))
  <2>1. /\ s.heap \in [Handle -> HeapBlocks] /\ s.err \in BOOLEAN /\ s.wild \in BOOLEAN
    BY DEF Shape
  <2>2. Shape(Record(r, s.heap, s.err, s.wild))
    BY <1>7, <2>1, RecordShape
  <2> QED
    BY <1>2, <2>2, Zenon
<1> QED
  BY <1>2, <1>8, <1>9, <1>10 DEF Gives, t, n

\* findSpaceInUnitTable: f is a state and a unit, which is free, or 0.
Space(s, f) ==
    /\ Shape(f[1]) /\ Gives(f[1], f[1].UTable, s.heap, s.err, s.wild)
    /\ Lengthens(s.UTable, f[1].UTable)
    /\ f[2] # 0 => f[2] \in DOMAIN f[1].UTable /\ f[1].UTable[f[2]] = NoEntry

LEMMA SpaceFound ==
  ASSUME NEW s, Shape(s), NEW f \in FindSpace(s)
  PROVE  Space(s, f)
<1>1. /\ DOMAIN s.UTable = 1 .. Len(s.UTable) /\ Len(s.UTable) \in Nat
      /\ Gives(s, s.UTable, s.heap, s.err, s.wild)
  <2>1. s.UTable \in Seq(Entries)
    BY DEF Shape, TableOK
  <2>2. DOMAIN s.UTable = 1 .. Len(s.UTable) /\ Len(s.UTable) \in Nat
    BY <2>1, LenProperties, Zenon
  <2> QED
    BY <2>2 DEF Gives
<1>2. Lengthens(s.UTable, s.UTable)
  BY DEF Lengthens
<1>3. CASE EmptyRamUnits(s) # {}
  <2> DEFINE E == EmptyRamUnits(s)
             m == CHOOSE u \in E : \A v \in E : u >= v
  <2>1. f = <<s, m>>
    BY <1>3 DEF FindSpace
  <2>2. E \subseteq 1 .. Len(s.UTable) /\ \A u \in E : s.UTable[u] = NoEntry
    <3>1. E = {u \in FirstRamUnit .. Len(s.UTable) : s.UTable[u] = NoEntry}
      BY DEF EmptyRamUnits
    <3>2. FirstRamUnit .. Len(s.UTable) \subseteq 1 .. Len(s.UTable)
      <4>1. FirstRamUnit \in Nat /\ FirstRamUnit # 0
        BY UnitsAssumption
      <4> QED
        BY <1>1, <4>1
    <3> QED
      BY <3>1, <3>2
  <2> HIDE DEF E
  <2>3. \E u \in E : \A v \in E : u >= v
    <3> DEFINE T == {Len(s.UTable) - u : u \in E}
    <3>1. T \subseteq Nat /\ T # {}
      BY <1>1, <1>3, <2>2 DEF E
    <3>2. PICK x \in T : \A y \in T : x <= y
      BY <3>1, Least
    <3>3. PICK u \in E : x = Len(s.UTable) - u
      BY <3>2
    <3>4. ASSUME NEW v \in E
          PROVE  u >= v
      <4>1. Len(s.UTable) - v \in T /\ u \in Nat /\ v \in Nat
        BY <2>2
      <4>2. Len(s.UTable) - u <= Len(s.UTable) - v
        BY <3>2, <3>3, <4>1
      <4> QED
        BY <1>1, <4>1, <4>2
    <3> QED
      BY <3>4
  <2>4. m \in E
    BY <2>3
  <2> HIDE DEF m
  <2> QED
    BY <1>1, <1>2, <2>1, <2>2, <2>4 DEF Space
<1>4. CASE EmptyRamUnits(s) = {}
  <2>1. \/ f = <<s, 0>>
        \/ \E n \in {Len(s.UTable) + Growth} \cap 1 .. MaxUnits : f = <<Grown(s), n>>
    BY <1>4 DEF FindSpace
  <2>2. CASE f = <<s, 0>>
    BY <1>1, <1>2, <2>2 DEF Space
  <2>3. CASE \E n \in {Len(s.UTable) + Growth} \cap 1 .. MaxUnits : f = <<Grown(s), n>>
    <3>1. f = <<Grown(s), Len(s.UTable) + Growth>> /\ Len(s.UTable) + Growth <= MaxUnits
      BY <2>3
    <3>2. f[1] = Grown(s) /\ f[2] = Len(s.UTable) + Growth
      BY <3>1
    <3> QED
      BY <3>1, <3>2, GrownTable DEF Space
  <2> QED
    BY <2>1, <2>2, <2>3
<1> QED
  BY <1>3, <1>4


\* Memory is allocated or disposed of.
LEMMA Allocated ==
  ASSUME NEW s, Shape(s), NEW h \in Handle, NEW b \in HeapBlocks
  PROVE  /\ Shape(Allocate(s, h, b))
         /\ Gives(Allocate(s, h, b), s.UTable, [s.heap EXCEPT ![h] = b], s.err, s.wild)
<1>1. PICK m : m = [s.heap EXCEPT ![h] = b]
  OBVIOUS
<1>2. s = Record(s.UTable, s.heap, s.err, s.wild)
  BY ShapeRecord
<1>3. Allocate(s, h, b) = Record(s.UTable, m, s.err, s.wild)
  BY <1>1, <1>2 DEF Allocate, Record
<1>4. /\ TableOK(s.UTable) /\ s.err \in BOOLEAN /\ s.wild \in BOOLEAN
      /\ m \in [Handle -> HeapBlocks]
  BY <1>1 DEF Shape
<1>5. /\ Shape(Record(s.UTable, m, s.err, s.wild))
      /\ Gives(Record(s.UTable, m, s.err, s.wild), s.UTable, m, s.err, s.wild)
  BY <1>4, RecordShape, Fields
<1> QED
  BY <1>1, <1>3, <1>5, Zenon

LEMMA Disposed ==
  ASSUME NEW s, Shape(s), NEW hs
  PROVE  /\ Shape(Dispose(s, hs))
         /\ Gives(Dispose(s, hs), s.UTable,
                  [h \in Handle |-> IF h \in hs THEN NoBlock ELSE s.heap[h]], s.err, s.wild)
<1>1. PICK m : m = [h \in Handle |-> IF h \in hs THEN NoBlock ELSE s.heap[h]]
  OBVIOUS
<1>2. s = Record(s.UTable, s.heap, s.err, s.wild)
  BY ShapeRecord
<1>3. Dispose(s, hs) = Record(s.UTable, m, s.err, s.wild)
  <2>1. [s EXCEPT !.heap = m] = Record(s.UTable, m, s.err, s.wild)
    BY <1>2 DEF Record
  <2>2. Dispose(s, hs) = [s EXCEPT !.heap = m]
    BY <1>1, <1>2 DEF Dispose, Record
  <2> QED
    BY <2>1, <2>2
<1>4. /\ TableOK(s.UTable) /\ s.err \in BOOLEAN /\ s.wild \in BOOLEAN
      /\ m \in [Handle -> HeapBlocks]
  <2>1. NoBlock \in HeapBlocks
    BY DEF NoBlock, Block, HeapBlocks, Names, Handles
  <2> QED
    BY <1>1, <2>1 DEF Shape
<1>5. /\ Shape(Record(s.UTable, m, s.err, s.wild))
      /\ Gives(Record(s.UTable, m, s.err, s.wild), s.UTable, m, s.err, s.wild)
  BY <1>4, RecordShape, Fields
<1> QED
  BY <1>1, <1>3, <1>5, Zenon

\* installDCE succeeds, or fails and leaves the table alone.
LEMMA DCEInstalled ==
  ASSUME NEW s, Shape(s), NEW u, NEW driver, NEW storage,
         NEW t, t = [s.UTable EXCEPT ![u] = Entry(s.heap[driver].name, driver, storage)],
         TableOK(t), NEW r \in InstallDCE(s, u, driver, storage)
  PROVE  /\ Shape(r)
         /\ \/ Gives(r, t, s.heap, FALSE, s.wild)
            \/ Gives(r, s.UTable, s.heap, TRUE, s.wild)
<1>1. s = Record(s.UTable, s.heap, s.err, s.wild)
  BY ShapeRecord
<1> DEFINE put == [s EXCEPT !.UTable[u] = Entry(s.heap[driver].name, driver, storage)]
<1>2. put = Record(t, s.heap, s.err, s.wild)
  BY <1>1 DEF Record
<1>3. r = Succeeds(put) \/ r = Fails(s)
  BY DEF InstallDCE
<1> HIDE DEF put
<1>4. s.heap \in [Handle -> HeapBlocks] /\ s.err \in BOOLEAN /\ s.wild \in BOOLEAN
  BY DEF Shape
<1>5. /\ Shape(Record(t, s.heap, s.err, s.wild))
      /\ Gives(Record(t, s.heap, s.err, s.wild), t, s.heap, s.err, s.wild)
  BY <1>4, RecordShape, Fields
<1>6. Shape(put) /\ Gives(put, t, s.heap, s.err, s.wild)
  BY <1>2, <1>5, Zenon
<1>7. Shape(Succeeds(put)) /\ Gives(Succeeds(put), t, s.heap, FALSE, s.wild)
  BY <1>6, ShapeGives DEF Gives
<1> QED
  BY <1>3, <1>7, ShapeGives

\* The error exit of installStubDriver leaves the table alone.
LEMMA StubFails ==
  ASSUME NEW s, SysOK(s), NEW r \in StubError(s)
  PROVE  SysOK(r) /\ r.UTable = s.UTable /\ r.err
<1>1. Shape(s) /\ (s.wild \/ Linked(s.UTable, s.heap))
  BY DEF SysOK
<1>2. CASE r = Fails(s)
  BY <1>1, <1>2, ShapeGives DEF SysOK, Gives
<1>3. CASE \E h \in Live(s) : r = [Fails(Dispose(s, {h})) EXCEPT !.wild = TRUE]
  <2>1. PICK h : r = [Fails(Dispose(s, {h})) EXCEPT !.wild = TRUE]
    BY <1>3
  <2>2. PICK q : q = Fails(Dispose(s, {h}))
    OBVIOUS
  <2>3. Shape(q) /\ q.UTable = s.UTable /\ q.err = TRUE
    <3>1. PICK o : o = Dispose(s, {h})
      OBVIOUS
    <3>2. Shape(o) /\ o.UTable = s.UTable
      BY <1>1, <3>1, Disposed DEF Gives
    <3> QED
      BY <2>2, <3>1, <3>2, ShapeGives DEF Gives
  <2>4. q = Record(q.UTable, q.heap, q.err, q.wild)
    BY <2>3, ShapeRecord
  <2>5. r = Record(q.UTable, q.heap, q.err, TRUE)
    <3>1. \A x : [q EXCEPT !.wild = x] = Record(q.UTable, q.heap, q.err, x)
      BY <2>4 DEF Record
    <3> QED
      BY <2>1, <2>2, <3>1, Zenon
  <2>6. TableOK(q.UTable) /\ q.heap \in [Handle -> HeapBlocks] /\ q.err \in BOOLEAN
    BY <2>3 DEF Shape
  <2>7. /\ Shape(Record(q.UTable, q.heap, q.err, TRUE))
        /\ Gives(Record(q.UTable, q.heap, q.err, TRUE), q.UTable, q.heap, q.err, TRUE)
    BY <2>6, RecordShape, Fields
  <2>8. Shape(r) /\ Gives(r, q.UTable, q.heap, q.err, TRUE)
    BY <2>5, <2>7, Zenon
  <2> QED
    BY <2>3, <2>8 DEF SysOK, Gives
<1> QED
  BY <1>2, <1>3 DEF StubError

\* A name has a stub, whose data can be reached.
Served(t, name) == \E u \in DOMAIN t : t[u].name = name /\ t[u].storage # NoHandle

LEMMA ServedData ==
  ASSUME NEW s, SysOK(s), ~s.wild, NEW name \in DriverNames, Served(s.UTable, name)
  PROVE  SerialData(s, name) # NoHandle
<1>1. PICK u \in DOMAIN s.UTable : s.UTable[u].name = name /\ s.UTable[u].storage # NoHandle
  BY DEF Served
<1>2. u = FindUnit(s, name) /\ FindUnit(s, name) # 0
  BY <1>1, UnitFound DEF SysOK
<1>3. s.UTable[u].driver # NoHandle
  BY <1>1 DEF SysOK, Linked
<1> QED
  BY <1>1, <1>2, <1>3 DEF SerialData

LEMMA ServedKept ==
  ASSUME NEW t, NEW r, Keeps(t, r), NEW name, Served(t, name)
  PROVE  Served(r, name)
<1>1. PICK u \in DOMAIN t : t[u].name = name /\ t[u].storage # NoHandle
  BY DEF Served
<1>2. t[u] # NoEntry
  <2>1. NoEntry.storage = NoHandle
    BY DEF NoEntry, Entry
  <2> QED
    BY <1>1, <2>1
<1> QED
  BY <1>1, <1>2 DEF Served, Keeps

LEMMA KeepsTransitive ==
  ASSUME NEW t, NEW r, NEW q, Keeps(t, r), Keeps(r, q), TableOK(t), TableOK(r)
  PROVE  Keeps(t, q)
<1> SUFFICES ASSUME NEW u \in DOMAIN t, t[u] # NoEntry
             PROVE  /\ u \in DOMAIN q /\ q[u].name = t[u].name
                    /\ t[u].storage # NoHandle => q[u].storage = t[u].storage
  BY DEF Keeps
<1>1. /\ u \in DOMAIN r /\ r[u].name = t[u].name
      /\ t[u].storage # NoHandle => r[u].storage = t[u].storage
  BY DEF Keeps
<1>2. r[u] # NoEntry
  <2>1. t[u].name # ""
    BY DEF TableOK
  <2>2. NoEntry.name = ""
    BY DEF NoEntry, Entry
  <2> QED
    BY <1>1, <2>1, <2>2
<1> QED
  BY <1>1, <1>2 DEF Keeps

LEMMA KeepsItself == \A t : Keeps(t, t)
BY DEF Keeps

\* What installing a stub does.
StubDone(s, name, r) ==
    /\ SysOK(r) /\ Keeps(s.UTable, r.UTable) /\ r.err \in BOOLEAN
    /\ ~r.err => ~r.wild /\ Served(r.UTable, name)

\* A unit for the stub: a free one, or the one that has its name.
ForStub(s, name, f) ==
    \/ Space(s, f) /\ \A v \in DOMAIN s.UTable : s.UTable[v].name # name
    \/ f[1] = s /\ f[2] \in DOMAIN s.UTable /\ s.UTable[f[2]].name = name

\* The steps behind the search for a unit.
LEMMA StubPut ==
  ASSUME NEW s, SysOK(s), ~s.wild,
         NEW name \in StubNames, NEW h \in Handle, NEW main \in DOMAIN s.UTable,
         s.UTable[main].name = Fuji,
         s.heap[h] = Block("stub", name, s.UTable[main].driver),
         NEW f, ForStub(s, name, f),
         NEW q, q \in (IF f[2] = 0 THEN {Fails(f[1])}
                       ELSE InstallDCE(f[1], f[2], h, s.UTable[main].storage)),
         NEW r, r \in (IF q.err THEN StubError(q) ELSE {q})
  PROVE  StubDone(s, name, r)
<1>1. Shape(s) /\ TableOK(s.UTable) /\ Linked(s.UTable, s.heap) /\ s.wild = FALSE
  BY DEF SysOK, Shape
<1>2. PICK g : g = f[1]
  OBVIOUS
<1>3. PICK u : u = f[2]
  OBVIOUS
<1>4. /\ Shape(g) /\ g.heap = s.heap /\ g.wild = FALSE /\ TableOK(g.UTable)
      /\ Lengthens(s.UTable, g.UTable)
  <2>1. CASE Space(s, f)
    BY <1>1, <1>2, <2>1 DEF Space, Gives, Shape
  <2>2. CASE f[1] = s
    BY <1>1, <1>2, <2>2 DEF Lengthens
  <2> QED
    BY <2>1, <2>2 DEF ForStub
<1>5. Linked(g.UTable, g.heap) /\ Keeps(s.UTable, g.UTable)
  BY <1>1, <1>4, LengthensKeeps
<1>6. SysOK(g)
  BY <1>4, <1>5 DEF SysOK
<1>7. main \in DOMAIN g.UTable /\ g.UTable[main] = s.UTable[main]
  BY <1>4 DEF Lengthens
<1>8. ASSUME NEW o, SysOK(o), o.UTable = g.UTable, o.err, r \in StubError(o)
      PROVE  StubDone(s, name, r)
  <2>1. SysOK(r) /\ r.UTable = g.UTable /\ r.err
    BY <1>8, StubFails
  <2>2. r.err \in BOOLEAN
    BY <2>1 DEF SysOK, Shape
  <2> QED
    BY <1>5, <2>1, <2>2 DEF StubDone
<1>9. CASE u = 0
  <2>1. q = Fails(g)
    BY <1>2, <1>3, <1>9
  <2>2. SysOK(q) /\ q.UTable = g.UTable /\ q.err = TRUE
    BY <1>4, <1>5, <2>1, ShapeGives DEF SysOK, Gives
  <2> QED
    BY <1>8, <2>2
<1>10. CASE u # 0
  <2>1. q \in InstallDCE(g, u, h, s.UTable[main].storage)
    BY <1>2, <1>3, <1>10
  <2>2. /\ u \in DOMAIN g.UTable
        /\ \/ g.UTable[u] = NoEntry /\ \A v \in DOMAIN g.UTable : g.UTable[v].name # name
           \/ g.UTable[u].name = name
    <3>1. CASE f[1] = s /\ f[2] \in DOMAIN s.UTable /\ s.UTable[f[2]].name = name
      BY <1>2, <1>3, <3>1
    <3>2. CASE Space(s, f) /\ \A v \in DOMAIN s.UTable : s.UTable[v].name # name
      <4>1. u \in DOMAIN g.UTable /\ g.UTable[u] = NoEntry
        BY <1>2, <1>3, <1>10, <3>2 DEF Space
      <4>2. name # ""
        BY NamesKnown DEF StubNames
      <4>3. NoEntry.name = ""
        BY DEF NoEntry, Entry
      <4>4. ASSUME NEW v \in DOMAIN g.UTable
            PROVE  g.UTable[v].name # name
        BY <1>4, <3>2, <4>2, <4>3 DEF Lengthens
      <4> QED
        BY <4>1, <4>4
    <3> QED
      BY <3>1, <3>2 DEF ForStub
  <2>3. PICK t : t = [g.UTable EXCEPT ![u] = Entry(name, h, g.UTable[main].storage)]
    OBVIOUS
  <2>4. /\ TableOK(t) /\ Linked(t, g.heap) /\ Keeps(g.UTable, t)
        /\ u \in DOMAIN t /\ t[u].name = name /\ t[u].storage # NoHandle
    <3>1. g.UTable[main].name = Fuji /\ g.heap[h] = Block("stub", name, g.UTable[main].driver)
      BY <1>4, <1>7
    <3> QED
      BY <1>4, <1>5, <1>7, <2>2, <2>3, <3>1, PutStub
  <2>5. /\ Shape(q)
        /\ \/ Gives(q, t, g.heap, FALSE, g.wild)
           \/ Gives(q, g.UTable, g.heap, TRUE, g.wild)
    <3>1. g.heap[h].name = name
      BY <1>4 DEF Block
    <3>2. t = [g.UTable EXCEPT ![u] = Entry(g.heap[h].name, h, s.UTable[main].storage)]
      BY <1>7, <2>3, <3>1
    <3> QED
      BY <1>4, <2>1, <2>4, <3>2, DCEInstalled
  <2>6. CASE Gives(q, t, g.heap, FALSE, g.wild)
    <3>1. /\ q.err = FALSE /\ q.wild = FALSE /\ q.UTable = t /\ q.heap = g.heap
          /\ r = q
      BY <1>4, <2>6 DEF Gives
    <3>2. SysOK(r)
      BY <2>4, <2>5, <3>1 DEF SysOK
    <3>3. Keeps(s.UTable, r.UTable)
      BY <1>1, <1>4, <1>5, <2>4, <3>1, KeepsTransitive
    <3>4. Served(r.UTable, name)
      BY <2>4, <3>1 DEF Served
    <3> QED
      BY <3>1, <3>2, <3>3, <3>4 DEF StubDone
  <2>7. CASE Gives(q, g.UTable, g.heap, TRUE, g.wild)
    <3>1. SysOK(q) /\ q.UTable = g.UTable /\ q.err = TRUE
      BY <1>5, <2>5, <2>7 DEF SysOK, Gives
    <3> QED
      BY <1>8, <3>1
  <2> QED
    BY <2>5, <2>6, <2>7
<1> QED
  BY <1>9, <1>10


LEMMA StubInstalled ==
  ASSUME NEW s, SysOK(s), ~s.wild, NEW name \in StubNames, NEW r \in InstallStub(s, name)
  PROVE  StubDone(s, name, r)
<1>1. Shape(s) /\ s.wild = FALSE /\ Linked(s.UTable, s.heap)
  BY DEF SysOK, Shape
<1>2. Fuji \in DriverNames /\ name \in DriverNames /\ name # "" /\ name # Fuji
  BY NamesKnown DEF StubNames
<1>3. PICK v : v = MainUnit(s)
  OBVIOUS
<1>4. \/ v = 0
      \/ v # 0 /\ v \in DOMAIN s.UTable /\ s.UTable[v].name = Fuji
  BY <1>1, <1>2, <1>3, UnitFound DEF MainUnit
<1>5. ASSUME NEW o, o \in StubError(s)
      PROVE  StubDone(s, name, o)
  <2>1. SysOK(o) /\ o.UTable = s.UTable /\ o.err
    BY <1>5, StubFails
  <2>2. o.err \in BOOLEAN
    BY <2>1 DEF SysOK, Shape
  <2> QED
    BY <2>1, <2>2, KeepsItself DEF StubDone
<1>6. CASE v = 0
  <2>1. r = Fails(s)
    BY <1>3, <1>6 DEF InstallStub
  <2> QED
    BY <1>5, <2>1 DEF StubError
<1>7. CASE v # 0
  <2> DEFINE Loaded(h) == Allocate(s, h, Block("stub", name, s.UTable[v].driver))
             Put(f, h) == IF f[2] = 0 THEN {Fails(f[1])}
                          ELSE InstallDCE(f[1], f[2], h, s.UTable[v].storage)
             Finish(q) == IF q.err THEN StubError(q) ELSE {q}
  <2>1. \/ r \in StubError(s)
        \/ \E h \in Handle \ Live(s) : \E f \in StubUnit(Loaded(h), name) :
              \E q \in Put(f, h) : r \in Finish(q)
    BY <1>3, <1>7 DEF InstallStub
  <2>2. ASSUME NEW h \in Handle \ Live(s), NEW f \in StubUnit(Loaded(h), name),
               NEW q \in Put(f, h), r \in Finish(q)
        PROVE  StubDone(s, name, r)
    <3>1. PICK o : o = Loaded(h)
      OBVIOUS
    <3>2. v \in DOMAIN s.UTable /\ s.UTable[v].name = Fuji
      BY <1>4, <1>7
    <3>3. s.UTable[v].driver \in Handle /\ s.heap[h] = NoBlock /\ h \in Handle
      BY <1>1, <3>2 DEF Linked, MainLinked, Live
    <3>4. PICK b : b = Block("stub", name, s.UTable[v].driver)
      OBVIOUS
    <3>5. b \in HeapBlocks
      BY <1>2, <3>3, <3>4 DEF Block, HeapBlocks, Names, Handles
    <3>6. o = Allocate(s, h, b)
      BY <3>1, <3>4
    <3>7. /\ Shape(o) /\ o.UTable = s.UTable /\ o.heap = [s.heap EXCEPT ![h] = b]
          /\ o.wild = FALSE
      BY <1>1, <3>3, <3>5, <3>6, Allocated DEF Gives
    <3>8. Linked(s.UTable, o.heap) /\ o.heap[h] = b
      <4>1. s.UTable[v].driver \in Handles /\ s.heap \in [Handle -> HeapBlocks]
        BY <1>1, <3>3 DEF Handles, Shape
      <4> QED
        BY <1>1, <3>3, <3>4, <3>7, <4>1, LoadStub
    <3>9. SysOK(o) /\ ~o.wild
      BY <3>7, <3>8 DEF SysOK
    <3>10. ForStub(o, name, f)
      <4>1. f \in StubUnit(o, name)
        BY <3>1
      <4>2. \/ /\ FindUnit(o, name) = 0 /\ \A u \in DOMAIN o.UTable : o.UTable[u].name # name
               /\ f \in FindSpace(o)
            \/ /\ f = <<o, FindUnit(o, name)>> /\ FindUnit(o, name) \in DOMAIN o.UTable
               /\ o.UTable[FindUnit(o, name)].name = name
        BY <1>2, <3>7, <4>1, UnitFound DEF StubUnit
      <4>3. CASE \A u \in DOMAIN o.UTable : o.UTable[u].name # name
        BY <3>7, <4>2, <4>3, SpaceFound DEF ForStub
      <4>4. CASE f = <<o, FindUnit(o, name)>> /\ FindUnit(o, name) \in DOMAIN o.UTable
                 /\ o.UTable[FindUnit(o, name)].name = name
        BY <4>4 DEF ForStub
      <4> QED
        BY <4>2, <4>3, <4>4
    <3>11. q \in (IF f[2] = 0 THEN {Fails(f[1])}
                  ELSE InstallDCE(f[1], f[2], h, o.UTable[v].storage))
      BY <3>7
    <3>12. r \in (IF q.err THEN StubError(q) ELSE {q})
      BY <2>2, Zenon
    <3>13. /\ v \in DOMAIN o.UTable /\ o.UTable[v].name = Fuji
           /\ o.heap[h] = Block("stub", name, o.UTable[v].driver)
      BY <3>2, <3>4, <3>7, <3>8
    <3>14. StubDone(o, name, r)
      BY <3>3, <3>9, <3>10, <3>11, <3>12, <3>13, StubPut
    <3> QED
      BY <3>7, <3>14 DEF StubDone
  <2> QED
    BY <2>1, <2>2, <1>5
<1> QED
  BY <1>6, <1>7

\* A redirection that reports success has redirected both halves of the port.
LEMMA RedirectDone ==
  ASSUME NEW s, SysOK(s), ~s.wild, NEW port \in Ports, NEW r \in Redirect(s, port)
  PROVE  /\ SysOK(r) /\ Keeps(s.UTable, r.UTable)
         /\ ~r.err => /\ ~r.wild /\ Served(r.UTable, OutName(port))
                      /\ Served(r.UTable, InName(port))
<1>1. OutName(port) \in StubNames /\ InName(port) \in StubNames
  BY NamesKnown
<1>2. CASE port = "MacTCP"
  <2>1. r \in InstallStub(s, OutName(port)) /\ InName(port) = OutName(port)
    BY <1>2 DEF Redirect, OutName, InName
  <2> QED
    BY <1>1, <2>1, StubInstalled DEF StubDone
<1>3. CASE port # "MacTCP"
  <2>1. PICK q \in InstallStub(s, OutName(port)) :
          r \in (IF q.err THEN {q} ELSE InstallStub(q, InName(port)))
    BY <1>3 DEF Redirect
  <2>2. StubDone(s, OutName(port), q)
    BY <1>1, StubInstalled
  <2>3. CASE q.err
    BY <2>1, <2>2, <2>3 DEF StubDone
  <2>4. CASE ~q.err
    <3>1. StubDone(q, InName(port), r)
      BY <1>1, <2>1, <2>2, <2>4, StubInstalled DEF StubDone
    <3>2. /\ Keeps(s.UTable, q.UTable) /\ Keeps(q.UTable, r.UTable) /\ SysOK(r)
          /\ Served(q.UTable, OutName(port))
          /\ ~r.err => ~r.wild /\ Served(r.UTable, InName(port))
      BY <2>2, <2>4, <3>1 DEF StubDone
    <3>3. TableOK(s.UTable) /\ TableOK(q.UTable)
      BY <2>2 DEF StubDone, SysOK, Shape
    <3>4. Keeps(s.UTable, r.UTable) /\ Served(r.UTable, OutName(port))
      BY <3>2, <3>3, KeepsTransitive, ServedKept
    <3> QED
      BY <3>2, <3>4
  <2> QED
    BY <2>3, <2>4
<1> QED
  BY <1>2, <1>3

\* Memory that was free before is free again.
LEMMA AbandonsAll ==
  ASSUME NEW s, Shape(s), NEW d \in Handle, NEW x \in Handle,
         NEW m \in [Handle -> HeapBlocks], m[d] = NoBlock, m[x] = NoBlock,
         \A h \in Handle : h \notin {d, x} => s.heap[h] = m[h],
         NEW r, r = Abandon(s, {d, x})
  PROVE  Shape(r) /\ Gives(r, s.UTable, m, TRUE, s.wild)
<1>1. PICK q : q = Dispose(s, {d, x})
  OBVIOUS
<1>2. PICK k : k = [h \in Handle |-> IF h \in {d, x} THEN NoBlock ELSE s.heap[h]]
  OBVIOUS
<1>3. Shape(q) /\ Gives(q, s.UTable, k, s.err, s.wild)
  BY <1>1, <1>2, Disposed
<1>4. r = Fails(q)
  BY <1>1 DEF Abandon
<1>5. k = m
  BY <1>2
<1> QED
  BY <1>3, <1>4, <1>5, ShapeGives DEF Gives

\* What fujiSerialInstall does.
LEMMA InstallDone ==
  ASSUME NEW s, SysOK(s), ~s.wild, NEW r \in Install(s)
  PROVE  SysOK(r) /\ Keeps(s.UTable, r.UTable) /\ r.wild = FALSE
<1>1. Shape(s) /\ s.wild = FALSE /\ Linked(s.UTable, s.heap) /\ TableOK(s.UTable)
      /\ s.heap \in [Handle -> HeapBlocks]
  BY DEF SysOK, Shape
<1>2. CASE r = Succeeds(s) \/ r = Fails(s)
  <2>1. Shape(r) /\ r.UTable = s.UTable /\ r.heap = s.heap /\ r.wild = FALSE
    <3>1. \/ Shape(r) /\ Gives(r, s.UTable, s.heap, FALSE, s.wild)
          \/ Shape(r) /\ Gives(r, s.UTable, s.heap, TRUE, s.wild)
      BY <1>1, <1>2, ShapeGives, Zenon
    <3> QED
      BY <1>1, <3>1 DEF Gives
  <2> QED
    BY <1>1, <2>1, KeepsItself DEF SysOK
<1>3. CASE ~Installed(s) /\ r # Fails(s)
  <2>1. \A u \in DOMAIN s.UTable : s.UTable[u].name # Fuji
    <3> SUFFICES ASSUME NEW u \in DOMAIN s.UTable, s.UTable[u].name = Fuji
                 PROVE  FALSE
      OBVIOUS
    <3>1. s.UTable[u].storage # NoHandle
      BY <1>1, HandleAssumption DEF Linked, MainLinked
    <3>2. Served(s.UTable, Fuji)
      BY <3>1 DEF Served
    <3> QED
      BY <1>3, <3>2, NamesKnown, ServedData DEF Installed
  <2>2. PICK d, x : /\ d \in Handle \ Live(s) /\ x \in Handle \ Live(s) /\ d # x
                    /\ r \in InstallMain(s, d, x)
    <3>1. \E y \in {z \in (Handle \ Live(s)) \X (Handle \ Live(s)) : z[1] # z[2]} :
            r \in InstallMain(s, y[1], y[2])
      BY <1>3 DEF Install
    <3> QED
      BY <3>1
  <2>3. d \in Handle /\ x \in Handle /\ s.heap[d] = NoBlock /\ s.heap[x] = NoBlock
    BY <2>2 DEF Live
  <2>4. PICK o : o = Allocate(s, d, Block("main", Fuji, NoHandle))
    OBVIOUS
  <2>5. PICK l : l = Allocate(o, x, Block("data", "", NoHandle))
    OBVIOUS
  <2>6. /\ Block("main", Fuji, NoHandle) \in HeapBlocks
        /\ Block("data", "", NoHandle) \in HeapBlocks
    BY NamesKnown DEF Block, HeapBlocks, Names, Handles
  <2>7. PICK a : a = Block("main", Fuji, NoHandle)
    OBVIOUS
  <2>8. PICK b : b = Block("data", "", NoHandle)
    OBVIOUS
  <2>9. PICK k : k = [[s.heap EXCEPT ![d] = Block("main", Fuji, NoHandle)]
                        EXCEPT ![x] = Block("data", "", NoHandle)]
    OBVIOUS
  <2>10. Shape(l) /\ l.UTable = s.UTable /\ l.heap = k /\ l.wild = FALSE
    <3>1. /\ Shape(o) /\ o.UTable = s.UTable /\ o.wild = FALSE
          /\ o.heap = [s.heap EXCEPT ![d] = Block("main", Fuji, NoHandle)]
      <4>1. o = Allocate(s, d, a) /\ a \in HeapBlocks
        BY <2>4, <2>6, <2>7
      <4>2. Shape(o) /\ Gives(o, s.UTable, [s.heap EXCEPT ![d] = a], s.err, s.wild)
        BY <1>1, <2>3, <4>1, Allocated
      <4> QED
        BY <1>1, <2>7, <4>2 DEF Gives
    <3>2. Shape(l) /\ Gives(l, o.UTable, [o.heap EXCEPT ![x] = b], o.err, o.wild)
      <4>1. l = Allocate(o, x, b) /\ b \in HeapBlocks
        BY <2>5, <2>6, <2>8
      <4> QED
        BY <2>3, <3>1, <4>1, Allocated
    <3>3. k = [o.heap EXCEPT ![x] = b]
      BY <2>9, <2>8, <3>1
    <3> QED
      BY <3>1, <3>2, <3>3 DEF Gives
  <2>11. \A h \in Handle : h \notin {d, x} => k[h] = s.heap[h]
    BY <1>1, <2>9
  <2>12. PICK f \in FindSpace(l) :
           r \in (IF f[2] = 0 THEN {Abandon(f[1], {d, x})}
                  ELSE {IF q.err THEN Abandon(q, {d, x}) ELSE q :
                          q \in InstallDCE(f[1], f[2], d, x)})
    BY <2>2, <2>4, <2>5 DEF InstallMain
  <2>13. PICK g : g = f[1]
    OBVIOUS
  <2>14. PICK u : u = f[2]
    OBVIOUS
  <2>15. /\ Shape(g) /\ TableOK(g.UTable) /\ g.heap = k /\ g.wild = FALSE
         /\ Lengthens(s.UTable, g.UTable)
         /\ u # 0 => u \in DOMAIN g.UTable /\ g.UTable[u] = NoEntry
    BY <2>10, <2>12, <2>13, <2>14, SpaceFound DEF Space, Gives, Shape
  <2>16. Linked(g.UTable, s.heap) /\ Keeps(s.UTable, g.UTable)
    BY <1>1, <2>15, LengthensKeeps
  <2>17. ASSUME NEW q, Shape(q), q.UTable = g.UTable, q.heap = k, q.wild = FALSE,
                r = Abandon(q, {d, x})
         PROVE  SysOK(r) /\ Keeps(s.UTable, r.UTable) /\ r.wild = FALSE
    <3>1. Shape(r) /\ Gives(r, q.UTable, s.heap, TRUE, q.wild)
      BY <1>1, <2>3, <2>11, <2>17, AbandonsAll
    <3> QED
      BY <2>16, <2>17, <3>1 DEF SysOK, Gives
  <2>18. CASE u = 0
    <3>1. r = Abandon(g, {d, x})
      BY <2>12, <2>13, <2>14, <2>18
    <3> QED
      BY <2>15, <2>17, <3>1
  <2>19. CASE u # 0
    <3>1. PICK q \in InstallDCE(g, u, d, x) : r = IF q.err THEN Abandon(q, {d, x}) ELSE q
      BY <2>12, <2>13, <2>14, <2>19
    <3>2. PICK t : t = [g.UTable EXCEPT ![u] = Entry(Fuji, d, x)]
      OBVIOUS
    <3>3. \A v \in DOMAIN g.UTable : g.UTable[v].name # Fuji
      <4>1. NoEntry.name # Fuji
        BY NamesKnown DEF NoEntry, Entry
      <4> QED
        BY <2>1, <2>15, <4>1 DEF Lengthens
    <3>4. TableOK(t) /\ Linked(t, k) /\ Keeps(g.UTable, t)
      BY <1>1, <2>2, <2>3, <2>9, <2>15, <2>16, <2>19, <3>2, <3>3, PutMain
    <3>5. t = [g.UTable EXCEPT ![u] = Entry(g.heap[d].name, d, x)]
      <4>1. k[d] = Block("main", Fuji, NoHandle)
        BY <1>1, <2>2, <2>3, <2>9
      <4>2. g.heap[d].name = Fuji
        BY <2>15, <4>1 DEF Block
      <4> QED
        BY <3>2, <4>2
    <3>6. /\ Shape(q)
          /\ \/ Gives(q, t, k, FALSE, FALSE)
             \/ Gives(q, g.UTable, k, TRUE, FALSE)
      BY <2>15, <3>1, <3>4, <3>5, DCEInstalled
    <3>7. CASE Gives(q, t, k, FALSE, FALSE)
      <4>1. r = q /\ q.UTable = t /\ q.heap = k /\ q.wild = FALSE
        BY <3>1, <3>7 DEF Gives
      <4>2. Keeps(s.UTable, t)
        BY <1>1, <2>15, <2>16, <3>4, KeepsTransitive
      <4> QED
        BY <3>4, <3>6, <4>1, <4>2 DEF SysOK
    <3>8. CASE Gives(q, g.UTable, k, TRUE, FALSE)
      <4>1. q.UTable = g.UTable /\ q.heap = k /\ q.wild = FALSE /\ r = Abandon(q, {d, x})
        BY <3>1, <3>8 DEF Gives
      <4> QED
        BY <2>17, <3>6, <4>1
    <3> QED
      BY <3>6, <3>7, <3>8
  <2> QED
    BY <2>18, <2>19
<1> QED
  BY <1>2, <1>3 DEF Install


-----------------------------------------------------------------------------
(***************************************************************************)
(* Sessions.  Only the three calls that install and redirect change the    *)
(* system; none is made once memory in use has been disposed of.           *)
(***************************************************************************)

SysInv == SysOK(sys)

LEMMA SysInit == Init => SysInv
<1> SUFFICES ASSUME Init
             PROVE  SysInv
  OBVIOUS
<1>1. sys = InitSys
  BY DEF Init
<1>2. PICK t : t = [u \in 1 .. Len(RomNames) |-> Entry(RomNames[u], NoHandle, NoHandle)]
  OBVIOUS
<1>3. PICK m : m = [h \in Handle |-> NoBlock]
  OBVIOUS
<1>4. sys = Record(t, m, FALSE, FALSE)
  BY <1>1, <1>2, <1>3 DEF InitSys, Record
<1>5. /\ RomNames \in Seq(Names) /\ Len(RomNames) \in Nat /\ Len(RomNames) <= MaxUnits
      /\ DOMAIN RomNames = 1 .. Len(RomNames)
      /\ \A u \in DOMAIN RomNames : RomNames[u] \in Names
  <2>1. RomNames \in Seq(Names) /\ Len(RomNames) <= MaxUnits
    BY UnitsAssumption DEF Names
  <2>2. Len(RomNames) \in Nat /\ DOMAIN RomNames = 1 .. Len(RomNames)
    BY <2>1, LenProperties, Zenon
  <2> QED
    BY <2>1, <2>2
<1>6. /\ DOMAIN t = DOMAIN RomNames
      /\ \A u \in DOMAIN t : t[u] = Entry(RomNames[u], NoHandle, NoHandle)
  BY <1>2, <1>5
<1>7. ASSUME NEW u \in DOMAIN t
      PROVE  /\ t[u] \in Entries /\ t[u].name = RomNames[u] /\ t[u].driver = NoHandle
             /\ t[u].storage = NoHandle
             /\ t[u].name = "" => t[u] = NoEntry
  <2>1. t[u] = Entry(RomNames[u], NoHandle, NoHandle) /\ RomNames[u] \in Names
    BY <1>5, <1>6
  <2>2. \A n \in Names : /\ Entry(n, NoHandle, NoHandle) \in Entries
                         /\ Entry(n, NoHandle, NoHandle).name = n
                         /\ Entry(n, NoHandle, NoHandle).driver = NoHandle
                         /\ Entry(n, NoHandle, NoHandle).storage = NoHandle
    BY DEF Entry, Entries, Handles
  <2> QED
    BY <2>1, <2>2 DEF NoEntry
<1>8. TableOK(t)
  <2>1. t \in Seq(Entries) /\ Len(t) = Len(RomNames)
    <3>1. t \in [1 .. Len(RomNames) -> Entries]
      BY <1>2, <1>5, <1>6, <1>7
    <3> QED
      BY <1>5, <3>1
  <2>2. \A u, v \in DOMAIN t : t[u].name = t[v].name /\ t[u].name # "" => u = v
    <3> TAKE u, v \in DOMAIN t
    <3>1. /\ u \in DOMAIN RomNames /\ v \in DOMAIN RomNames
          /\ t[u].name = RomNames[u] /\ t[v].name = RomNames[v]
      BY <1>6, <1>7
    <3> QED
      BY <3>1, RomNamesAssumption
  <2> QED
    BY <1>5, <1>7, <2>1, <2>2 DEF TableOK
<1>9. m \in [Handle -> HeapBlocks]
  <2>1. NoBlock \in HeapBlocks
    BY DEF NoBlock, Block, HeapBlocks, Names, Handles
  <2> QED
    BY <1>3, <2>1
<1>10. Linked(t, m)
  <2>1. \A u \in DOMAIN t : t[u].name # Fuji
    BY <1>6, <1>7, RomNamesAssumption
  <2>2. \A h \in Handle : m[h].kind = "free"
    BY <1>3 DEF NoBlock, Block
  <2> QED
    BY <1>7, <2>1, <2>2 DEF Linked, MainLinked, NoneStray, StubsLinked
<1>11. Shape(sys) /\ sys.UTable = t /\ sys.heap = m
  <2>1. Shape(Record(t, m, FALSE, FALSE)) /\ Gives(Record(t, m, FALSE, FALSE), t, m, FALSE, FALSE)
    BY <1>8, <1>9, RecordShape, Fields
  <2>2. Shape(sys) /\ Gives(sys, t, m, FALSE, FALSE)
    BY <1>4, <2>1, Zenon
  <2> QED
    BY <2>2 DEF Gives
<1> QED
  BY <1>10, <1>11 DEF SysInv, SysOK

\* What any step may do to the system.
SysStep ==
    \/ sys' = sys
    \/ Idle /\ sys' \in Install(sys)
    \/ Idle /\ \E port \in Ports : sys' \in Redirect(sys, port)

LEMMA SysSteps == [Next]_vars => SysStep
<1> SUFFICES ASSUME [Next]_vars
             PROVE  SysStep
  OBVIOUS
<1>1. ASSUME Idle, NEW who, NEW v, SerialOpen(who, v)
      PROVE  SysStep
  BY <1>1 DEF SerialOpen, SysStep
<1>2. CASE DAOpens
  BY <1>1, <1>2 DEF DAOpens, SysStep, vars
<1>3. CASE \E v \in Volumes : AppOpens(v)
  BY <1>1, <1>3 DEF AppOpens
<1>4. CASE \E port \in Ports : DAEvent(port) \/ AppRedirects(port) \/ ClientOpens(port)
  BY <1>4 DEF DAEvent, AppRedirects, ClientOpens, SysStep
<1>5. CASE SerialOpenReturns \/ DARun \/ DACloses \/ Crashed \/ UNCHANGED vars
  BY <1>5 DEF SerialOpenReturns, DARun, DACloses, Crashed, vars, SysStep
<1>6. CASE FujiOpen /\ UNCHANGED <<sys, daVars>>
  BY <1>6 DEF SysStep
<1>7. CASE VblTraffic /\ UNCHANGED <<sys, daVars>>
  BY <1>7 DEF SysStep
<1> QED
  BY <1>2, <1>3, <1>4, <1>5, <1>6, <1>7 DEF Next

LEMMA SysNext ==
  ASSUME SysInv, [Next]_vars
  PROVE  SysInv' /\ Keeps(sys.UTable, sys'.UTable)
<1>1. SysStep
  BY SysSteps
<1>2. SysOK(sys)
  BY DEF SysInv
<1>3. PICK s : s = sys
  OBVIOUS
<1>4. PICK r : r = sys'
  OBVIOUS
<1>5. SysOK(r) /\ Keeps(s.UTable, r.UTable)
  <2>1. CASE r = s
    BY <1>2, <1>3, <2>1, KeepsItself
  <2>2. CASE ~s.wild /\ r \in Install(s)
    BY <1>2, <1>3, <2>2, InstallDone
  <2>3. CASE ~s.wild /\ \E port \in Ports : r \in Redirect(s, port)
    BY <1>2, <1>3, <2>3, RedirectDone
  <2> QED
    BY <1>1, <1>3, <1>4, <2>1, <2>2, <2>3 DEF SysStep, Idle
<1> QED
  BY <1>3, <1>4, <1>5 DEF SysInv

LEMMA SysSafe == Spec => []SysInv
BY SysInit, SysNext, PTL DEF Spec

\* The main driver's unit, if there is one.
LEMMA FujiUnit ==
  ASSUME SysInv
  PROVE  \/ FindUnit(sys, Fuji) = 0 /\ \A u \in DOMAIN sys.UTable : sys.UTable[u].name # Fuji
         \/ /\ FindUnit(sys, Fuji) \in DOMAIN sys.UTable /\ FindUnit(sys, Fuji) # 0
            /\ sys.UTable[FindUnit(sys, Fuji)].name = Fuji
            /\ \A u \in DOMAIN sys.UTable : sys.UTable[u].name = Fuji => u = FindUnit(sys, Fuji)
<1>1. Shape(sys) /\ Fuji \in DriverNames
  BY NamesKnown DEF SysInv, SysOK
<1>2. PICK s : s = sys
  OBVIOUS
<1> QED
  BY <1>1, <1>2, UnitFound

\* However often and in whatever order ports are redirected, and whichever
\* allocations fail, every stub forwards to the one main driver and shares its
\* data (installStubDriver), for any unit table, until memory in use is freed.
THEOREM StubsSafe == Spec => []StubsForward
<1>1. SysInv => StubsForward
  <2> SUFFICES ASSUME SysInv, ~sys.wild, NEW u \in Stubs(sys)
               PROVE  LET e == sys.UTable[u]
                          main == sys.UTable[FindUnit(sys, Fuji)]
                      IN  /\ FindUnit(sys, Fuji) # 0
                          /\ sys.heap[e.driver] = Block("stub", e.name, main.driver)
                          /\ sys.heap[main.driver].kind = "main"
                          /\ e.storage = main.storage /\ sys.heap[e.storage].kind = "data"
    BY DEF StubsForward
  <2>1. Linked(sys.UTable, sys.heap)
    BY DEF SysInv, SysOK
  <2>2. u \in DOMAIN sys.UTable /\ sys.UTable[u].driver # NoHandle /\ sys.UTable[u].name # Fuji
    BY DEF Stubs
  <2>3. PICK v \in DOMAIN sys.UTable : Forwards(sys.UTable, sys.heap, sys.UTable[u], v)
    BY <2>1, <2>2 DEF Linked, StubsLinked
  <2>4. v = FindUnit(sys, Fuji) /\ FindUnit(sys, Fuji) # 0 /\ sys.UTable[v].name = Fuji
    BY <2>3, FujiUnit DEF Forwards
  <2>5. /\ sys.heap[sys.UTable[v].driver] = Block("main", Fuji, NoHandle)
        /\ sys.heap[sys.UTable[v].storage] = Block("data", "", NoHandle)
    BY <2>1, <2>4 DEF Linked, MainLinked
  <2>6. /\ sys.heap[sys.UTable[v].driver].kind = "main"
        /\ sys.heap[sys.UTable[v].storage].kind = "data"
    <3>1. Block("main", Fuji, NoHandle).kind = "main" /\ Block("data", "", NoHandle).kind = "data"
      BY DEF Block
    <3> QED
      BY <2>5, <3>1
  <2> QED
    BY <2>3, <2>4, <2>6 DEF Forwards
<1> QED
  BY <1>1, SysSafe, PTL

\* Installing is all or nothing (fujiSerialInstall), whichever of its
\* allocations fail and however many attempts are made.
THEOREM InstallSafe == Spec => []InstalledWhole
<1>1. SysInv => InstalledWhole
  <2> SUFFICES ASSUME SysInv, ~sys.wild
               PROVE  {h \in Handle : sys.heap[h].kind \in {"main", "data"}} =
                        IF FindUnit(sys, Fuji) = 0 THEN {}
                        ELSE {sys.UTable[FindUnit(sys, Fuji)].driver,
                              sys.UTable[FindUnit(sys, Fuji)].storage}
    BY DEF InstalledWhole
  <2> DEFINE held == {h \in Handle : sys.heap[h].kind \in {"main", "data"}}
  <2>1. Linked(sys.UTable, sys.heap)
    BY DEF SysInv, SysOK
  <2>2. \A h \in held : \E u \in DOMAIN sys.UTable :
          sys.UTable[u].name = Fuji /\ h \in {sys.UTable[u].driver, sys.UTable[u].storage}
    BY <2>1 DEF Linked, NoneStray
  <2>3. CASE FindUnit(sys, Fuji) = 0
    <3>1. \A u \in DOMAIN sys.UTable : sys.UTable[u].name # Fuji
      BY <2>3, FujiUnit
    <3>2. held = {}
      BY <2>2, <3>1
    <3> QED
      BY <2>3, <3>2
  <2>4. CASE FindUnit(sys, Fuji) # 0
    <3>1. PICK v \in DOMAIN sys.UTable :
            /\ v = FindUnit(sys, Fuji) /\ sys.UTable[v].name = Fuji
            /\ \A u \in DOMAIN sys.UTable : sys.UTable[u].name = Fuji => u = v
      BY <2>4, FujiUnit
    <3>2. /\ sys.UTable[v].driver \in Handle /\ sys.UTable[v].storage \in Handle
          /\ sys.heap[sys.UTable[v].driver] = Block("main", Fuji, NoHandle)
          /\ sys.heap[sys.UTable[v].storage] = Block("data", "", NoHandle)
      BY <2>1, <3>1 DEF Linked, MainLinked
    <3>3. Block("main", Fuji, NoHandle).kind = "main" /\ Block("data", "", NoHandle).kind = "data"
      BY DEF Block
    <3>4. {sys.UTable[v].driver, sys.UTable[v].storage} \subseteq held
      BY <3>2, <3>3
    <3>5. held \subseteq {sys.UTable[v].driver, sys.UTable[v].storage}
      BY <2>2, <3>1
    <3> QED
      BY <2>4, <3>1, <3>4, <3>5
  <2> QED
    BY <2>3, <2>4
<1> QED
  BY <1>1, SysSafe, PTL

\* A port is redirected in the unit that has its name (installStubDriver,
\* findUnitNumberByName): no name ever gets a second one.
THEOREM NamesSafe == Spec => []NamesUnique
<1>1. SysInv => NamesUnique
  BY DEF SysInv, SysOK, Shape, TableOK, NamesUnique
<1> QED
  BY <1>1, SysSafe, PTL

\* Whatever is installed and redirected, also where the table is moved to a
\* larger block, the units in use stay what they were (findSpaceInUnitTable,
\* installDCE).
THEOREM UnitsSafe == Spec => UnitsKept
<1>1. SysInv /\ [Next]_vars =>
        [\A u \in DOMAIN sys.UTable : sys.UTable[u] # NoEntry =>
           /\ u \in DOMAIN sys'.UTable
           /\ sys'.UTable[u].name = sys.UTable[u].name
           /\ sys.UTable[u].storage # NoHandle =>
                sys'.UTable[u].storage = sys.UTable[u].storage]_vars
  BY SysNext DEF Keeps
<1> QED
  BY <1>1, SysSafe, PTL DEF Spec, UnitsKept

\* A redirection that reports success has redirected the port for output and
\* for input, whichever calls may fail (fujiSerialRedirectModem, ...Printer,
\* ...MacTCP).
THEOREM RedirectSafe == Spec => RedirectHonest
<1>1. ASSUME SysInv, NEW port \in Ports, AppRedirects(port) \/ DAEvent(port), ~sys'.err,
             NEW name \in {OutName(port), InName(port)}
      PROVE  SerialData(sys', name) # NoHandle
  <2>1. PICK s : s = sys
    OBVIOUS
  <2>2. PICK r : r = sys'
    OBVIOUS
  <2>3. SysOK(s) /\ ~s.wild /\ r \in Redirect(s, port) /\ ~r.err
    BY <1>1, <2>1, <2>2 DEF SysInv, AppRedirects, DAEvent, Idle
  <2>4. /\ SysOK(r) /\ ~r.wild
        /\ Served(r.UTable, OutName(port)) /\ Served(r.UTable, InName(port))
    BY <2>3, RedirectDone
  <2>5. name \in DriverNames /\ Served(r.UTable, name)
    BY <2>4, NamesKnown DEF StubNames
  <2>6. SerialData(r, name) # NoHandle
    BY <2>4, <2>5, ServedData
  <2> QED
    BY <2>2, <2>6
<1>2. SysInv /\ [Next]_vars =>
        [\A port \in Ports : (AppRedirects(port) \/ DAEvent(port)) /\ ~sys'.err =>
           \A name \in {OutName(port), InName(port)} : SerialData(sys', name) # NoHandle]_vars
  BY <1>1
<1> QED
  BY <1>2, SysSafe, PTL DEF Spec, RedirectHonest

-----------------------------------------------------------------------------
(***************************************************************************)
(* The types.  That fujiOpen never knocks more often than the sequence is  *)
(* long needs where it is in the loop.                                     *)
(***************************************************************************)
Steps == {"drive", "create", "open", "cache", "knock", "tag", "write",
          "readback", "refnum", "offset", "driver"}

\* The variables of the connection and of the desk accessory.
ConnTypes ==
    /\ err \in BOOLEAN /\ vbl \in BOOLEAN /\ heard \in BOOLEAN /\ trouble \in BOOLEAN
    /\ pc \in Steps \cup {"idle", "done"}
    /\ target \in Volumes \cup {NoVolume} /\ (pc \in Steps => target \in Volumes)
    /\ knocks \in 0 .. KnockLen
    /\ pc \in {"drive", "create", "open", "cache"} => knocks = 0
    /\ pc = "knock" => knocks < KnockLen
    /\ conn \in [fRefNum : Volumes \cup {NoVolume}, ioRefNum : Volumes \cup {NoVolume},
                 ioPosOffset : Volumes \cup {NoVolume}]
    /\ files \subseteq Volumes /\ tag \in {"FUJI", "other"}
DATypes ==
    /\ caller \in {"DA", "app", "none"} /\ window \in BOOLEAN /\ shown \in BOOLEAN
    /\ marks \subseteq Ports

LEMMA StartOpenTypes ==
  ASSUME ConnTypes, NEW v \in Volumes,
         \/ StartOpen(v)
         \/ Return /\ UNCHANGED <<target, knocks, conn, files, tag, vbl, heard>> /\ trouble' = TRUE
  PROVE  ConnTypes'
<1>1. CASE StartOpen(v)
  <2>1. 0 \in 0 .. KnockLen
    BY KnockAssumption
  <2> QED
    BY <1>1, <2>1 DEF ConnTypes, StartOpen, Goto, Steps
<1>2. CASE Return /\ UNCHANGED <<target, knocks, conn, files, tag, vbl, heard>> /\ trouble' = TRUE
  BY <1>2 DEF ConnTypes, Return, Steps
<1> QED
  BY <1>1, <1>2

LEMMA FujiOpenTypes ==
  ASSUME ConnTypes, FujiOpen
  PROVE  ConnTypes'
<1> USE DEF ConnTypes, Steps, Goto, Return
<1>0. KnockLen \in Nat /\ KnockLen # 0
  BY KnockAssumption
<1>1. CASE Trouble
  BY <1>1 DEF Trouble
<1>2. CASE FindDrive
  BY <1>1, <1>2 DEF FindDrive
<1>3. CASE CreateFile
  BY <1>1, <1>3 DEF CreateFile
<1>4. CASE OpenFile
  BY <1>1, <1>4 DEF OpenFile
<1>5. CASE DisableCache
  <2>1. knocks = 0 /\ knocks < KnockLen
    BY <1>0, <1>5 DEF DisableCache
  <2> QED
    BY <1>5, <2>1 DEF DisableCache
<1>6. CASE Knock
  <2>1. CASE knocks' = knocks + 1 /\ ~Trouble
    <3>1. /\ pc = "knock" /\ tag' \in Answers /\ heard' \in BOOLEAN
          /\ pc' = (IF LastKnock THEN "tag" ELSE "knock") /\ err' = FALSE
          /\ trouble' \in BOOLEAN /\ UNCHANGED <<target, conn, files, vbl>>
      BY <1>6, <2>1 DEF Knock
    <3>2. tag' \in {"FUJI", "other"}
      BY <3>1 DEF Answers
    <3>3. /\ knocks' \in 0 .. KnockLen
          /\ pc' = "knock" => knocks' < KnockLen
      BY <1>0, <2>1, <3>1 DEF LastKnock
    <3> QED
      BY <3>1, <3>2, <3>3
  <2> QED
    BY <1>1, <1>6, <2>1 DEF Knock
<1>7. CASE CheckTag
  BY <1>7 DEF CheckTag
<1>8. CASE WriteRequest
  BY <1>1, <1>8 DEF WriteRequest
<1>9. CASE ReadReply
  BY <1>1, <1>9 DEF ReadReply
<1>10. CASE SetRefNum \/ SetOffset
  BY <1>10 DEF SetRefNum, SetOffset
<1>11. CASE OpenMain
  BY <1>1, <1>11 DEF OpenMain
<1> QED
  BY <1>2, <1>3, <1>4, <1>5, <1>6, <1>7, <1>8, <1>9, <1>10, <1>11 DEF FujiOpen

LEMMA TypesNext ==
  ASSUME ConnTypes, DATypes, [Next]_vars
  PROVE  ConnTypes' /\ DATypes'
<1>1. ASSUME NEW who \in {"DA", "app"}, NEW v \in Volumes, SerialOpen(who, v)
      PROVE  ConnTypes' /\ caller' \in {"DA", "app", "none"}
  <2>1. \/ StartOpen(v)
        \/ Return /\ UNCHANGED <<target, knocks, conn, files, tag, vbl, heard>> /\ trouble' = TRUE
    BY <1>1 DEF SerialOpen
  <2> QED
    BY <1>1, <2>1, StartOpenTypes DEF SerialOpen
<1>2. CASE UNCHANGED vars
  BY <1>2 DEF vars, connVars, daVars, ConnTypes, DATypes
<1>3. CASE DAOpens
  BY <1>1, <1>2, <1>3, BootAssumption DEF DAOpens, DATypes
<1>4. CASE SerialOpenReturns
  BY <1>4 DEF SerialOpenReturns, ConnTypes, DATypes, MarksOf, Steps
<1>5. CASE DARun
  BY <1>5 DEF DARun, connVars, ConnTypes, DATypes, Installed, Ready
<1>6. CASE DACloses
  <2>1. ConnTypes'
    BY <1>6 DEF DACloses, connVars, ConnTypes
  <2>2. DATypes'
    BY <1>6 DEF DACloses, DATypes
  <2> QED
    BY <2>1, <2>2
<1>7. CASE Crashed
  BY <1>2, <1>7 DEF Crashed
<1>8. CASE FujiOpen /\ UNCHANGED <<sys, daVars>>
  BY <1>8, FujiOpenTypes DEF daVars, DATypes
<1>9. CASE VblTraffic /\ UNCHANGED <<sys, daVars>>
  BY <1>9 DEF VblTraffic, daVars, ConnTypes, DATypes
<1>10. CASE \E v \in Volumes : AppOpens(v)
  BY <1>1, <1>10 DEF AppOpens, DATypes
<1>11. ASSUME NEW port \in Ports, DAEvent(port) \/ AppRedirects(port) \/ ClientOpens(port)
       PROVE  ConnTypes' /\ DATypes'
  <2>1. CASE DAEvent(port)
    BY <2>1 DEF DAEvent, connVars, ConnTypes, DATypes, MarksOf
  <2>2. CASE AppRedirects(port)
    BY <2>2 DEF AppRedirects, connVars, daVars, ConnTypes, DATypes
  <2>3. CASE ClientOpens(port)
    BY <2>3 DEF ClientOpens, daVars, ConnTypes, DATypes
  <2> QED
    BY <1>11, <2>1, <2>2, <2>3
<1> QED
  BY <1>2, <1>3, <1>4, <1>5, <1>6, <1>7, <1>8, <1>9, <1>10, <1>11 DEF Next

LEMMA TypesInit == Init => ConnTypes /\ DATypes
<1> SUFFICES ASSUME Init
             PROVE  ConnTypes /\ DATypes
  OBVIOUS
<1>1. 0 \in 0 .. KnockLen
  BY KnockAssumption
<1>2. ConnTypes
  BY <1>1 DEF Init, ConnInit, NoConn, ConnTypes, Steps
<1>3. DATypes
  BY DEF Init, DATypes
<1> QED
  BY <1>2, <1>3

LEMMA TypesSafe == Spec => [](ConnTypes /\ DATypes)
BY TypesInit, TypesNext, PTL DEF Spec

\* Every variable keeps its type, and fujiOpen never knocks more often than the
\* sequence is long.
THEOREM SessionTypesSafe == Spec => []SessionTypeOK
<1>1. SysInv /\ ConnTypes /\ DATypes => SessionTypeOK
  BY DEF SysInv, SysOK, Shape, TableOK, ConnTypes, DATypes, SessionTypeOK, Entries,
         HeapBlocks, Names, Handles, Steps
<1> QED
  BY <1>1, SysSafe, TypesSafe, PTL

-----------------------------------------------------------------------------
(***************************************************************************)
(* The address that the VBL task uses.                                     *)
(***************************************************************************)

\* The address is whole, but for the moment in which the first one is stored.
AddressWhole ==
    /\ vbl => Ready
    /\ \/ conn.ioPosOffset = conn.ioRefNum
       \/ pc = "offset" /\ ~vbl /\ conn.ioRefNum = target
    /\ pc = "offset" => conn.ioRefNum = target

LEMMA AddressNext ==
  ASSUME \A v, w \in FujiVolumes : v = w,
         GenuineInv, ConnTypes, AddressWhole, [Next]_vars
  PROVE  AddressWhole'
<1>1. ASSUME NEW who, NEW v, pc # "offset", SerialOpen(who, v)
      PROVE  AddressWhole'
  <2>1. UNCHANGED <<conn, vbl>> /\ pc' # "offset"
    BY <1>1 DEF SerialOpen, StartOpen, Goto, Return
  <2> QED
    BY <1>1, <2>1 DEF AddressWhole, Ready
<1>2. ASSUME UNCHANGED <<conn, vbl>>, pc # "offset", pc' # "offset"
      PROVE  AddressWhole'
  BY <1>2 DEF AddressWhole, Ready
<1>3. ASSUME UNCHANGED <<conn, vbl, pc, target>>
      PROVE  AddressWhole'
  BY <1>3 DEF AddressWhole, Ready
<1>4. CASE FujiOpen
  <2>1. CASE FindDrive \/ CreateFile \/ DisableCache \/ CheckTag \/ WriteRequest
    <3>1. UNCHANGED <<conn, vbl>> /\ pc # "offset" /\ pc' # "offset"
      BY <2>1 DEF FindDrive, CreateFile, DisableCache, CheckTag, WriteRequest, Trouble,
                  Goto, Return
    <3> QED
      BY <1>2, <3>1
  <2>2. CASE Knock \/ ReadReply
    <3>1. UNCHANGED <<conn, vbl>> /\ pc # "offset" /\ pc' # "offset"
      BY <2>2 DEF Knock, ReadReply, Trouble, Goto, Return
    <3> QED
      BY <1>2, <3>1
  <2>3. CASE OpenFile
    <3>1. /\ vbl' = vbl /\ pc = "open" /\ pc' # "offset"
          /\ conn'.ioRefNum = conn.ioRefNum /\ conn'.ioPosOffset = conn.ioPosOffset
      BY <2>3 DEF OpenFile, Trouble, Goto, Return, ConnTypes
    <3> QED
      BY <3>1 DEF AddressWhole, Ready
  <2>4. CASE SetRefNum
    <3>1. /\ vbl' = vbl /\ pc = "refnum" /\ pc' = "offset" /\ target' = target
          /\ conn'.ioRefNum = target /\ conn'.ioPosOffset = conn.ioPosOffset
      BY <2>4 DEF SetRefNum, Goto, ConnTypes
    <3>2. target \in FujiVolumes /\ target # NoVolume
      BY <3>1, VolumesAssumption DEF GenuineInv, TargetGenuine
    <3>3. vbl => conn.ioPosOffset = target
      BY <3>1, <3>2 DEF AddressWhole, GenuineInv, ReadyIsGenuine
    <3>4. vbl \in BOOLEAN
      BY DEF ConnTypes
    <3> QED
      BY <3>1, <3>2, <3>3, <3>4 DEF AddressWhole, Ready
  <2>5. CASE SetOffset
    <3>1. /\ vbl' = vbl /\ pc = "offset" /\ pc' = "driver"
          /\ conn'.ioRefNum = conn.ioRefNum /\ conn'.ioPosOffset = target
      BY <2>5 DEF SetOffset, Goto, ConnTypes
    <3> QED
      BY <3>1 DEF AddressWhole, Ready
  <2>6. CASE OpenMain
    BY <2>6 DEF OpenMain, Trouble, Return, MayOpen, AddressWhole, Ready
  <2> QED
    BY <1>4, <2>1, <2>2, <2>3, <2>4, <2>5, <2>6 DEF FujiOpen
<1>5. CASE UNCHANGED vars \/ VblTraffic
  BY <1>3, <1>5 DEF vars, connVars, VblTraffic
<1>6. CASE DAOpens
  BY <1>1, <1>3, <1>6 DEF DAOpens, Idle, vars, connVars
<1>7. CASE SerialOpenReturns
  BY <1>2, <1>7 DEF SerialOpenReturns
<1>8. CASE DARun \/ DACloses \/ Crashed
  BY <1>3, <1>8 DEF DARun, DACloses, Crashed, vars, connVars
<1>9. CASE \E v \in Volumes : AppOpens(v)
  BY <1>1, <1>9 DEF AppOpens, Idle
<1>10. ASSUME NEW port \in Ports, DAEvent(port) \/ AppRedirects(port) \/ ClientOpens(port)
       PROVE  AddressWhole'
  <2>1. CASE DAEvent(port) \/ AppRedirects(port)
    BY <1>3, <2>1 DEF DAEvent, AppRedirects, connVars
  <2>2. CASE ClientOpens(port)
    BY <2>2 DEF ClientOpens, Idle, MayOpen, AddressWhole, Ready
  <2> QED
    BY <1>10, <2>1, <2>2
<1> QED
  BY <1>4, <1>5, <1>6, <1>7, <1>8, <1>9, <1>10 DEF Next

\* Whenever the VBL task runs, it has the address of one device, whole.  One
\* FujiNet is assumed: with two, the second connection stores its address while
\* the VBL task uses the first.
THEOREM TrafficSafe ==
  ASSUME \A v, w \in FujiVolumes : v = w
  PROVE  Spec => []TrafficAddressed
<1>1. Init => GenuineInv /\ ConnTypes /\ DATypes /\ AddressWhole
  <2>1. Init => GenuineInv
    BY GenuineInit
  <2>2. Init => ConnTypes /\ DATypes
    BY TypesInit
  <2>3. Init => AddressWhole
    BY DEF Init, ConnInit, NoConn, AddressWhole
  <2> QED
    BY <2>1, <2>2, <2>3
<1>2. (GenuineInv /\ ConnTypes /\ DATypes /\ AddressWhole) /\ [Next]_vars
        => (GenuineInv /\ ConnTypes /\ DATypes /\ AddressWhole)'
  BY GenuineNext, TypesNext, AddressNext
<1>3. AddressWhole => TrafficAddressed
  BY DEF AddressWhole, TrafficAddressed, Ready
<1> QED
  BY <1>1, <1>2, <1>3, PTL DEF Spec
=============================================================================
