------------------------ MODULE FujiSerialCalls_proofs ------------------------
(***************************************************************************)
(* Machine-checked proofs about the calls of the asynchronous driver: the  *)
(* Device Manager's queues, the wake-up table and the two activations that *)
(* work on calls, for any number of drivers, calls and bytes, with faults, *)
(* clients at interrupt level and ports opened in traffic.                 *)
(***************************************************************************)
EXTENDS FujiSerialAsync, SequenceTheorems, FiniteSetTheorems, TLAPS

-----------------------------------------------------------------------------
\* Shapes.

OpenPcs == {"open1", "open2", "open3", "open4", "open5"}
CallPcs == {"ctl", "sts1", "sts2", "sts3", "lock", "xfer", "unlock", "find",
            "claim", "park", "sched", "result", "return"}
WorkPcs == {"prime", "done"}

MainShape ==
    /\ main = [pc |-> main.pc, pb |-> main.pb, drv |-> main.drv,
               err |-> main.err, slot |-> main.slot, tmp |-> main.tmp]
    /\ main.pc \in {"find", "claim", "park"} => main.err = ioInProgress
IrqShape ==
    irq = [pc |-> irq.pc, pb |-> irq.pb, err |-> irq.err,
           slot |-> irq.slot, from |-> irq.from]
PbShape ==
    /\ pb = [p \in Pbs |-> pb[p]]
    /\ \A p \in Pbs :
         /\ pb[p] = [drv |-> pb[p].drv, trap |-> pb[p].trap,
                     ioReqCount |-> pb[p].ioReqCount, ioActCount |-> pb[p].ioActCount,
                     ioResult |-> pb[p].ioResult, csParam |-> pb[p].csParam]
         /\ pb[p].drv \in Drivers \cup {None}

\* A parameter block that is some driver's.
Mine(p) == p \in Pbs /\ pb[p].drv \in Drivers

Once(s) == \A j, k \in 1 .. Len(s) : j # k => s[j] # s[k]

\* The queues hold calls of their own driver, each once.
Queues ==
    /\ queue \in [Drivers -> Seq(Pbs)]
    /\ \A d \in Drivers : \A k \in 1 .. Len(queue[d]) : pb[queue[d][k]].drv = d
    /\ \A d \in Drivers : Once(queue[d])

\* Whatever is in the table or worked on is a call.
Workers ==
    /\ pendingPb \in [Slots -> Pbs \cup {None}]
    /\ \A i \in Slots : pendingPb[i] # None => Mine(pendingPb[i])
    /\ main.pc \in CallPcs => Mine(main.pb)
    /\ irq.pc \in WorkPcs => Mine(irq.pb)

CallInv == MainShape /\ IrqShape /\ PbShape /\ Queues /\ Workers /\ ParkedAreHeads

-----------------------------------------------------------------------------
\* The wake-up table.

\* A slot that getDriverInfo may give to d.
SlotFor(d, s) ==
    /\ \A j \in Slots : j < s => infoRef[j] # d /\ infoRef[j] # None
    /\ \A j \in Slots : j # s => infoRef[j] # d

\* Distinct drivers fill the table from its start up to a free slot.
Table ==
    /\ infoRef \in [Slots -> Drivers \cup {None}]
    /\ \E n \in Slots : \A i \in Slots : infoRef[i] # None <=> i < n
    /\ \A i, j \in Slots : i # j => infoRef[i] = None \/ infoRef[i] # infoRef[j]

\* Before the installation there is nothing.
Untouched ==
    /\ openResult = [d \in Drivers |-> openResult[d]]
    /\ port = "absent" =>
         /\ \A d \in Drivers : openResult[d] # noErr
         /\ main.pc \notin OpenPcs \cup CallPcs
         /\ \A i \in Slots : infoRef[i] = None
         /\ \A p \in Pbs : pb[p].drv = None

InfoInv ==
    /\ Table /\ Untouched
    /\ main.slot \in Slots /\ irq.slot \in Slots
    /\ irq.pc \in WorkPcs /\ irq.from = "wake" => infoRef[irq.slot] # None
    /\ main.pc = "claim" => SlotFor(pb[main.pb].drv, main.slot)

LEMMA NInfoNat == NInfo \in Nat /\ NInfo >= 2 /\ Cardinality(Drivers) = NInfo - 1
<1>1. Cardinality(Drivers) \in Nat /\ Cardinality(Drivers) # 0
  BY DriversAssumption, FS_CardinalityType, FS_EmptySet
<1> QED
  BY <1>1 DEF NInfo

\* The table is long enough: no driver ever gets its last slot.
LEMMA NotLast ==
  ASSUME Table, NEW d \in Drivers, NEW s \in Slots, SlotFor(d, s)
  PROVE  s # NInfo
<1> SUFFICES ASSUME s = NInfo
             PROVE  FALSE
  OBVIOUS
<1> DEFINE f == [i \in Slots |-> IF i = NInfo THEN d ELSE infoRef[i]]
<1>1. f \in [Slots -> Drivers]
  BY NInfoNat DEF Table, SlotFor, Slots
<1>2. \A i, j \in Slots : i # j => f[i] # f[j]
  BY NInfoNat DEF Table, SlotFor, Slots
<1>3. IsFiniteSet(Slots) /\ Cardinality(Slots) = NInfo
  BY NInfoNat, FS_Interval DEF Slots
<1>4. Cardinality(Drivers) < Cardinality(Slots)
  BY <1>3, NInfoNat
<1> HIDE DEF f
<1> QED
  BY <1>1, <1>2, <1>3, <1>4, DriversAssumption, FS_PigeonHole

\* getDriverInfo finds a slot.
LEMMA SlotFound ==
  ASSUME Table, NEW d \in Drivers
  PROVE  /\ InfoSlot(d) \in Slots /\ SlotFor(d, InfoSlot(d))
         /\ infoRef[InfoSlot(d)] \in {d, None}
<1> DEFINE Is(i) == /\ infoRef[i] \in {d, None}
                    /\ \A j \in 1 .. i - 1 : infoRef[j] \notin {d, None}
<1>1. PICK n \in Slots : \A i \in Slots : infoRef[i] # None <=> i < n
  BY DEF Table
<1>2. \A i \in Slots : \A j \in 1 .. i - 1 : j \in Slots /\ j < i /\ j # i
  BY NInfoNat DEF Slots
<1>3. \E i \in Slots : Is(i)
  <2>1. CASE \E i \in Slots : infoRef[i] = d
    <3>1. PICK i \in Slots : infoRef[i] = d
      BY <2>1
    <3>2. i < n
      BY <1>1, <3>1, DriversAssumption
    <3>3. \A j \in 1 .. i - 1 : infoRef[j] # d /\ infoRef[j] # None
      <4> TAKE j \in 1 .. i - 1
      <4>1. j \in Slots /\ j < i /\ j # i /\ j < n
        BY <1>2, <3>2, NInfoNat DEF Slots
      <4> QED
        BY <1>1, <3>1, <4>1, DriversAssumption DEF Table
    <3> QED
      BY <3>1, <3>3
  <2>2. CASE \A i \in Slots : infoRef[i] # d
    <3>1. infoRef[n] = None
      BY <1>1, NInfoNat DEF Slots
    <3>2. \A j \in 1 .. n - 1 : infoRef[j] # d /\ infoRef[j] # None
      BY <1>1, <1>2, <2>2
    <3> QED
      BY <3>1, <3>2
  <2> QED
    BY <2>1, <2>2
<1>4. InfoSlot(d) \in Slots /\ Is(InfoSlot(d))
  BY <1>3 DEF InfoSlot
<1> DEFINE s == InfoSlot(d)
<1>5. \A j \in Slots : j < s => infoRef[j] # d /\ infoRef[j] # None
  <2> HIDE DEF s
  <2> TAKE j \in Slots
  <2>1. ASSUME j < s PROVE j \in 1 .. s - 1
    BY <1>4, <2>1, NInfoNat DEF Slots, s
  <2> QED
    BY <1>4, <2>1 DEF s
<1>6. \A j \in Slots : j # s => infoRef[j] # d
  <2> SUFFICES ASSUME NEW j \in Slots, j # s, infoRef[j] = d
               PROVE  FALSE
    OBVIOUS
  <2>1. infoRef[s] = None
    BY <1>4, DriversAssumption DEF Table
  <2>2. j < n /\ ~(s < n) /\ s \in Slots
    BY <1>1, <1>4, <2>1, DriversAssumption
  <2>3. j < s
    BY <1>1, <2>2, NInfoNat DEF Slots
  <2> QED
    BY <1>5, <2>3
<1> QED
  BY <1>4, <1>5, <1>6 DEF SlotFor

\* Claiming the slot keeps the table in order.
LEMMA Claimed1 ==
  ASSUME Table, NEW d \in Drivers, NEW s \in Slots, SlotFor(d, s),
         infoRef' = [infoRef EXCEPT ![s] = d]
  PROVE  Table' /\ \A i \in Slots : infoRef[i] # None => infoRef'[i] # None
<1>1. s # NInfo
  BY NotLast
<1>2. PICK n \in Slots : \A i \in Slots : infoRef[i] # None <=> i < n
  BY DEF Table
<1>3. s =< n
  <2> SUFFICES ASSUME n < s
               PROVE  FALSE
    BY <1>2, NInfoNat DEF Slots
  <2> QED
    BY <1>2, NInfoNat DEF SlotFor, Slots
<1>4. infoRef' \in [Slots -> Drivers \cup {None}] /\ d # None
  BY DriversAssumption DEF Table
<1>5. \E m \in Slots : \A i \in Slots : infoRef'[i] # None <=> i < m
  <2>1. CASE s < n
    BY <1>2, <1>4, <2>1 DEF Table
  <2>2. CASE s = n
    <3>1. n + 1 \in Slots
      BY <1>1, <2>2, NInfoNat DEF Slots
    <3>2. \A i \in Slots : infoRef'[i] # None <=> i < n + 1
      BY <1>2, <1>4, <2>2, NInfoNat DEF Slots, Table
    <3> QED
      BY <3>1, <3>2
  <2> QED
    BY <1>3, <2>1, <2>2, NInfoNat DEF Slots
<1>6. \A i, j \in Slots : i # j => infoRef'[i] = None \/ infoRef'[i] # infoRef'[j]
  BY DEF Table, SlotFor
<1> QED
  BY <1>4, <1>5, <1>6 DEF Table

\* What the driver promises of the table.
LEMMA TableOrder == Table => InfoTable
<1> SUFFICES ASSUME Table
             PROVE  InfoTable
  OBVIOUS
<1>1. PICK n \in Slots : \A i \in Slots : infoRef[i] # None <=> i < n
  BY DEF Table
<1>2. NInfo \in Slots /\ ~(NInfo < n)
  BY NInfoNat DEF Slots
<1>3. \A i, j \in Slots : i < j /\ j < n => i < n
  BY NInfoNat DEF Slots
<1>4. \A i, j \in Slots : i < j => i # j
  BY NInfoNat DEF Slots
<1> QED
  BY <1>1, <1>2, <1>3, <1>4 DEF Table, InfoTable

-----------------------------------------------------------------------------
\* The queues.

LEMMA Behind ==
  ASSUME NEW S, NEW s \in Seq(S), NEW x \in S
  PROVE  /\ Append(s, x) \in Seq(S) /\ Append(s, x) # <<>>
         /\ s = <<>> => Head(Append(s, x)) = x
         /\ s # <<>> => Head(Append(s, x)) = Head(s)
         /\ \A k \in 1 .. Len(Append(s, x)) :
               Append(s, x)[k] = x \/ (k \in 1 .. Len(s) /\ Append(s, x)[k] = s[k])
         /\ (\A k \in 1 .. Len(s) : s[k] # x) /\ Once(s) => Once(Append(s, x))
<1> DEFINE t == Append(s, x)
<1>1. /\ t \in Seq(S) /\ t # <<>> /\ Len(t) = Len(s) + 1
      /\ \A k \in 1 .. Len(s) : t[k] = s[k]
      /\ t[Len(s) + 1] = x
  BY AppendProperties
<1>2. Len(s) \in Nat /\ (s = <<>> <=> Len(s) = 0)
  BY EmptySeq, LenProperties
<1>3. Head(t) = t[1] /\ (s # <<>> => Head(s) = s[1])
  BY <1>1
<1> HIDE DEF t
<1>4. s = <<>> => Head(t) = x
  BY <1>1, <1>2, <1>3
<1>5. s # <<>> => Head(t) = Head(s)
  BY <1>1, <1>2, <1>3
<1>6. \A k \in 1 .. Len(t) : t[k] = x \/ (k \in 1 .. Len(s) /\ t[k] = s[k])
  BY <1>1, <1>2
<1>7. ASSUME \A k \in 1 .. Len(s) : s[k] # x, Once(s)
      PROVE  Once(t)
  <2> SUFFICES ASSUME NEW j \in 1 .. Len(t), NEW k \in 1 .. Len(t), j # k
               PROVE  t[j] # t[k]
    BY DEF Once
  <2>1. CASE j = Len(s) + 1
    <3>1. k \in 1 .. Len(s)
      BY <1>1, <1>2, <2>1
    <3> QED
      BY <1>1, <1>7, <2>1, <3>1
  <2>2. CASE k = Len(s) + 1
    <3>1. j \in 1 .. Len(s)
      BY <1>1, <1>2, <2>2
    <3> QED
      BY <1>1, <1>7, <2>2, <3>1
  <2>3. CASE j # Len(s) + 1 /\ k # Len(s) + 1
    <3>1. j \in 1 .. Len(s) /\ k \in 1 .. Len(s)
      BY <1>1, <1>2, <2>3
    <3> QED
      BY <1>1, <1>7, <3>1 DEF Once
  <2> QED
    BY <2>1, <2>2, <2>3
<1> QED
  BY <1>1, <1>4, <1>5, <1>6, <1>7 DEF t

LEMMA NextUp ==
  ASSUME NEW S, NEW s \in Seq(S), s # <<>>
  PROVE  /\ Tail(s) \in Seq(S) /\ s[1] = Head(s) /\ 1 \in 1 .. Len(s)
         /\ \A k \in 1 .. Len(Tail(s)) : k + 1 \in 1 .. Len(s) /\ Tail(s)[k] = s[k + 1]
         /\ Once(s) => Once(Tail(s))
         /\ Len(s) > 1 => 2 \in 1 .. Len(s) /\ Tail(s) # <<>> /\ Head(Tail(s)) = s[2]
<1> DEFINE t == Tail(s)
<1>1. /\ t \in Seq(S) /\ Len(t) = Len(s) - 1
      /\ \A k \in 1 .. Len(t) : t[k] = s[k + 1]
      /\ s[1] = Head(s) /\ Len(s) \in Nat \ {0}
  BY HeadTailProperties, EmptySeq
<1> HIDE DEF t
<1>2. Len(t) # 0 => (t # <<>> /\ Head(t) = t[1])
  BY <1>1
<1>3. \A k \in 1 .. Len(t) : k + 1 \in 1 .. Len(s)
  BY <1>1
<1>4. ASSUME Once(s)
      PROVE  Once(t)
  <2> SUFFICES ASSUME NEW j \in 1 .. Len(t), NEW k \in 1 .. Len(t), j # k
               PROVE  t[j] # t[k]
    BY DEF Once
  <2>1. j + 1 \in 1 .. Len(s) /\ k + 1 \in 1 .. Len(s) /\ j + 1 # k + 1
    BY <1>3
  <2>2. s[j + 1] # s[k + 1]
    BY <1>4, <2>1 DEF Once
  <2> QED
    BY <1>1, <2>2
<1>5. ASSUME Len(s) > 1
      PROVE  2 \in 1 .. Len(s) /\ t # <<>> /\ Head(t) = s[2]
  <2>1. 2 \in 1 .. Len(s) /\ 1 \in 1 .. Len(t) /\ Len(t) # 0
    BY <1>1, <1>5
  <2> QED
    BY <1>1, <1>2, <2>1
<1>6. 1 \in 1 .. Len(s)
  BY <1>1
<1> QED
  BY <1>1, <1>3, <1>4, <1>5, <1>6 DEF t

\* pb keeps its shape, and the calls keep their drivers.
DrvKept == PbShape' /\ \A p \in Pbs : pb'[p].drv = pb[p].drv

LEMMA Unchanged ==
  ASSUME PbShape, pb' = pb
  PROVE  DrvKept
BY DEF DrvKept, PbShape

LEMMA ResultStored ==
  ASSUME PbShape, NEW p \in Pbs, NEW r, pb' = [pb EXCEPT ![p].ioResult = r]
  PROVE  DrvKept
BY DEF DrvKept, PbShape

LEMMA StatusStored ==
  ASSUME PbShape, NEW p \in Pbs, NEW c, pb' = [pb EXCEPT ![p].csParam = c]
  PROVE  DrvKept
BY DEF DrvKept, PbShape

LEMMA CountStored ==
  ASSUME PbShape, NEW p \in Pbs, NEW n, NEW r, Moved(p, n, r)
  PROVE  DrvKept
<1>1. pb' = [pb EXCEPT ![p].ioActCount = @ + n, ![p].ioResult = r]
  BY DEF Moved
<1>2. pb'[p] = [pb[p] EXCEPT !.ioActCount = @ + n, !.ioResult = r]
  BY <1>1 DEF PbShape
<1>3. \A q \in Pbs : q # p => pb'[q] = pb[q]
  BY <1>1 DEF PbShape
<1>4. pb' = [q \in Pbs |-> pb'[q]]
  BY <1>1 DEF PbShape
<1>5. pb'[p] = [drv |-> pb[p].drv, trap |-> pb[p].trap,
                ioReqCount |-> pb[p].ioReqCount, ioActCount |-> pb[p].ioActCount + n,
                ioResult |-> r, csParam |-> pb[p].csParam]
  BY <1>2 DEF PbShape
<1> QED
  BY <1>3, <1>4, <1>5 DEF DrvKept, PbShape

LEMMA TransferKeeps ==
  ASSUME PbShape, NEW p \in Pbs, NEW r, Transfer(p, r)
  PROVE  DrvKept
<1>1. \E n : Moved(p, n, r)
  BY DEF Transfer, TransferFails, TransferIn, TransferOut
<1> QED
  BY <1>1, CountStored

\* A new call comes in behind the others.
LEMMA EnqueueKeeps ==
  ASSUME CallInv, NEW p \in Pbs, NEW c \in Drivers \X Traps, NEW n,
         Enqueue(p, c, n)
  PROVE  /\ PbShape' /\ Queues'
         /\ pb[p].drv = None /\ pb'[p].drv = c[1] /\ pb'[p].trap = c[2]
         /\ queue[c[1]] = <<>> => AtHead(p)'
         /\ \A q \in Pbs : q # p => pb'[q].drv = pb[q].drv
         /\ \A q : Mine(q) /\ AtHead(q) => Mine(q)' /\ AtHead(q)'
<1> DEFINE d == c[1]
<1>1. d \in Drivers /\ c[2] \in Traps /\ pb[p].drv = None /\ d # None
  BY DriversAssumption DEF Enqueue, Issued
<1>2. /\ pb' = [pb EXCEPT ![p] =
                  [drv |-> d, trap |-> c[2], ioReqCount |-> n,
                   ioActCount |-> 0, ioResult |-> ioInProgress, csParam |-> 0]]
      /\ queue' = [queue EXCEPT ![d] = Append(queue[d], p)]
  BY DEF Enqueue, QueueWith
<1> HIDE DEF d
<1>3. PbShape' /\ pb'[p].drv = d /\ pb'[p].trap = c[2]
      /\ \A q \in Pbs : q # p => pb'[q].drv = pb[q].drv
  BY <1>1, <1>2 DEF CallInv, PbShape
<1>4. /\ queue \in [Drivers -> Seq(Pbs)]
      /\ \A e \in Drivers : \A k \in 1 .. Len(queue[e]) : pb[queue[e][k]].drv = e
      /\ \A e \in Drivers : Once(queue[e])
  BY DEF CallInv, Queues
<1>5. /\ queue'[d] = Append(queue[d], p) /\ queue[d] \in Seq(Pbs)
      /\ \A e \in Drivers : e # d => queue'[e] = queue[e]
      /\ queue' \in [Drivers -> Seq(Pbs)]
  BY <1>1, <1>2, <1>4
<1>6. \A e \in Drivers : \A k \in 1 .. Len(queue[e]) : queue[e][k] \in Pbs /\ queue[e][k] # p
  BY <1>1, <1>4, DriversAssumption
<1> DEFINE s == queue[d]
           t == Append(s, p)
<1>7. /\ s \in Seq(Pbs) /\ t \in Seq(Pbs) /\ t # <<>>
      /\ s = <<>> => Head(t) = p
      /\ s # <<>> => Head(t) = Head(s)
      /\ \A k \in 1 .. Len(t) : t[k] = p \/ (k \in 1 .. Len(s) /\ t[k] = s[k])
      /\ (\A k \in 1 .. Len(s) : s[k] # p) /\ Once(s) => Once(t)
  BY <1>5, Behind
<1>8. \A e \in Drivers : \A k \in 1 .. Len(queue'[e]) : pb'[queue'[e][k]].drv = e
  <2> TAKE e \in Drivers
  <2> TAKE k \in 1 .. Len(queue'[e])
  <2>1. CASE e # d
    <3>1. queue[e][k] \in Pbs /\ queue[e][k] # p /\ pb[queue[e][k]].drv = e
      BY <1>4, <1>5, <1>6, <2>1
    <3> QED
      BY <1>3, <1>5, <2>1, <3>1
  <2>2. CASE e = d
    <3>1. k \in 1 .. Len(t) /\ queue'[e][k] = t[k]
      BY <1>5, <2>2
    <3> HIDE DEF t
    <3>2. CASE t[k] = p
      BY <1>3, <2>2, <3>1, <3>2
    <3>3. CASE k \in 1 .. Len(s) /\ t[k] = s[k]
      <4>1. s[k] \in Pbs /\ s[k] # p /\ pb[s[k]].drv = d
        BY <1>1, <1>4, <1>6, <3>3
      <4> QED
        BY <1>3, <2>2, <3>1, <3>3, <4>1
    <3> QED
      BY <1>7, <3>1, <3>2, <3>3
  <2> QED
    BY <2>1, <2>2
<1>9. \A e \in Drivers : Once(queue'[e])
  <2> TAKE e \in Drivers
  <2>1. CASE e # d
    BY <1>4, <1>5, <2>1
  <2>2. CASE e = d
    <3>1. Once(s) /\ \A k \in 1 .. Len(s) : s[k] # p
      BY <1>1, <1>4, <1>6
    <3> QED
      BY <1>5, <1>7, <2>2, <3>1
  <2> QED
    BY <2>1, <2>2
<1>10. queue[d] = <<>> => AtHead(p)'
  BY <1>3, <1>5, <1>7 DEF AtHead
<1>11. ASSUME NEW q, Mine(q), AtHead(q)
       PROVE  Mine(q)' /\ AtHead(q)'
  <2>1. q # p /\ q \in Pbs /\ pb'[q].drv = pb[q].drv /\ pb[q].drv \in Drivers
    BY <1>1, <1>3, <1>11, DriversAssumption DEF Mine
  <2>2. queue[pb[q].drv] # <<>> /\ Head(queue[pb[q].drv]) = q
    BY <1>11 DEF AtHead
  <2>3. CASE pb[q].drv = d
    <3>1. queue'[pb'[q].drv] = t
      BY <1>5, <2>1, <2>3
    <3>2. t # <<>> /\ Head(t) = q
      BY <1>7, <2>2, <2>3
    <3> HIDE DEF t
    <3> QED
      BY <2>1, <3>1, <3>2 DEF Mine, AtHead
  <2>4. CASE pb[q].drv # d
    <3>1. queue'[pb'[q].drv] = queue[pb[q].drv]
      BY <1>5, <2>1, <2>4
    <3> QED
      BY <2>1, <2>2, <3>1 DEF Mine, AtHead
  <2> QED
    BY <2>3, <2>4
<1> QED
  BY <1>1, <1>3, <1>5, <1>8, <1>9, <1>10, <1>11 DEF Queues, d

\* A finished call leaves the head of its queue to the next.
LEMMA DoneKeeps ==
  ASSUME CallInv, NEW p \in Pbs, Mine(p), AtHead(p), NEW r, IODone(p, r)
  PROVE  /\ PbShape' /\ Queues'
         /\ \A q : Mine(q) => Mine(q)'
         /\ \A q : Mine(q) /\ AtHead(q) /\ q # p => AtHead(q)'
         /\ NextCall(p) = None \/
               \E q : /\ q = NextCall(p) /\ Mine(q) /\ q # p
                      /\ ~AtHead(q) /\ AtHead(q)'
<1> DEFINE d == pb[p].drv
           s == queue[d]
<1>1. d \in Drivers /\ s \in Seq(Pbs) /\ s # <<>> /\ Head(s) = p
  BY DEF CallInv, Queues, Mine, AtHead
<1>2. DrvKept
  BY ResultStored DEF CallInv, IODone
<1>3. \A q \in Pbs : pb'[q].drv = pb[q].drv
  BY <1>2 DEF DrvKept
<1>4. /\ queue \in [Drivers -> Seq(Pbs)]
      /\ \A e \in Drivers : \A k \in 1 .. Len(queue[e]) : pb[queue[e][k]].drv = e
      /\ \A e \in Drivers : Once(queue[e])
  BY DEF CallInv, Queues
<1>5. queue' = [queue EXCEPT ![d] = Tail(s)]
  BY <1>1, <1>4 DEF IODone
<1> HIDE DEF d
<1>6. /\ Tail(s) \in Seq(Pbs) /\ s[1] = p /\ 1 \in 1 .. Len(s)
      /\ \A k \in 1 .. Len(Tail(s)) : k + 1 \in 1 .. Len(s) /\ Tail(s)[k] = s[k + 1]
      /\ Once(s) => Once(Tail(s))
      /\ Len(s) > 1 => 2 \in 1 .. Len(s) /\ Tail(s) # <<>> /\ Head(Tail(s)) = s[2]
  BY <1>1, NextUp
<1>7. /\ queue'[d] = Tail(s)
      /\ \A e \in Drivers : e # d => queue'[e] = queue[e]
      /\ queue' \in [Drivers -> Seq(Pbs)]
  BY <1>1, <1>4, <1>5, <1>6
<1>8. \A e \in Drivers : \A k \in 1 .. Len(queue'[e]) : pb'[queue'[e][k]].drv = e
  <2> TAKE e \in Drivers
  <2> TAKE k \in 1 .. Len(queue'[e])
  <2>1. CASE e # d
    <3>1. queue[e][k] \in Pbs
      BY <1>4, <1>7, <2>1
    <3> QED
      BY <1>3, <1>4, <1>7, <2>1, <3>1
  <2>2. CASE e = d
    <3>1. queue'[e][k] = queue[d][k + 1] /\ k + 1 \in 1 .. Len(queue[d])
      BY <1>6, <1>7, <2>2
    <3>2. queue[d][k + 1] \in Pbs
      BY <1>4, <2>2, <3>1
    <3> QED
      BY <1>3, <1>4, <2>2, <3>1, <3>2
  <2> QED
    BY <2>1, <2>2
<1>9. \A e \in Drivers : Once(queue'[e])
  BY <1>1, <1>4, <1>6, <1>7
<1>10. ASSUME NEW q, Mine(q), AtHead(q), q # p
       PROVE  AtHead(q)'
  <2>1. pb[q].drv # d /\ pb[q].drv \in Drivers /\ q \in Pbs
    BY <1>1, <1>10 DEF AtHead, Mine
  <2>2. queue'[pb'[q].drv] = queue[pb[q].drv]
    BY <1>3, <1>7, <2>1
  <2>3. queue[pb[q].drv] # <<>> /\ Head(queue[pb[q].drv]) = q
    BY <1>10 DEF AtHead
  <2> QED
    BY <2>2, <2>3 DEF AtHead
<1>11. NextCall(p) = None \/
          \E q : /\ q = NextCall(p) /\ Mine(q) /\ q # p
                 /\ ~AtHead(q) /\ AtHead(q)'
  <2>1. CASE Len(s) > 1
    <3> PICK q : q = s[2]
      OBVIOUS
    <3>1. NextCall(p) = q
      BY <2>1 DEF NextCall, d
    <3>2. q \in Pbs /\ pb[q].drv = d
      BY <1>1, <1>4, <1>6, <2>1
    <3>3. q # p
      BY <1>1, <1>4, <1>6, <2>1 DEF Once
    <3>4. Tail(s) # <<>> /\ Head(Tail(s)) = q
      BY <1>6, <2>1
    <3>5. AtHead(q)'
      <4>1. queue'[pb'[q].drv] = Tail(s)
        BY <1>3, <1>7, <3>2
      <4> QED
        BY <3>4, <4>1 DEF AtHead
    <3>6. ~AtHead(q)
      BY <1>1, <3>2, <3>3 DEF AtHead
    <3> QED
      BY <1>1, <3>1, <3>2, <3>3, <3>5, <3>6 DEF Mine
  <2>2. CASE ~(Len(s) > 1)
    BY <2>2 DEF NextCall, d
  <2> QED
    BY <2>1, <2>2
<1>12. \A q : Mine(q) => Mine(q)'
  BY <1>3 DEF Mine
<1> QED
  BY <1>2, <1>7, <1>8, <1>9, <1>10, <1>11, <1>12 DEF DrvKept, Queues

-----------------------------------------------------------------------------
\* The steps that start, park, take up and end a call.

\* What the main thread works on does not grow, and the same for interrupts.
MainKeeps == /\ MainShape'
             /\ main'.pc \in CallPcs => main.pc \in CallPcs /\ main'.pb = main.pb
             /\ InMain' \subseteq InMain
IrqKeeps == /\ IrqShape'
            /\ irq'.pc \in WorkPcs => irq.pc \in WorkPcs /\ irq'.pb = irq.pb
            /\ InIrq' \subseteq InIrq

LEMMA InSets ==
  ASSUME CallInv
  PROVE  /\ \A p \in InMain : main.pc \in CallPcs /\ p = main.pb /\ Mine(p)
         /\ \A p \in InIrq : irq.pc \in WorkPcs /\ p = irq.pb /\ Mine(p)
BY DEF CallInv, Workers, InMain, InIrq, CallPcs, WorkPcs

\* Most steps leave the calls alone.
LEMMA Frame ==
  ASSUME CallInv, DrvKept, queue' = queue, pendingPb' = pendingPb,
         MainKeeps, IrqKeeps
  PROVE  CallInv'
<1>1. \A p \in Pbs : pb'[p].drv = pb[p].drv
  BY DEF DrvKept
<1>2. \A p : Mine(p) => Mine(p)'
  BY <1>1 DEF Mine
<1>3. \A p : Mine(p) /\ AtHead(p) => AtHead(p)'
  BY <1>1 DEF Mine, AtHead
<1>4. Queues'
  <2>1. \A d \in Drivers : \A k \in 1 .. Len(queue[d]) : queue[d][k] \in Pbs
    BY DEF CallInv, Queues
  <2> QED
    BY <1>1, <2>1 DEF CallInv, Queues
<1>5. Workers'
  BY <1>2 DEF CallInv, Workers, MainKeeps, IrqKeeps
<1>6. \A p \in InMain \cup InIrq : Mine(p)
  BY InSets
<1>7. ParkedAreHeads'
  BY <1>3, <1>6 DEF CallInv, Workers, ParkedAreHeads, MainKeeps, IrqKeeps
<1> QED
  BY <1>4, <1>5, <1>7 DEF CallInv, DrvKept, MainKeeps, IrqKeeps

\* A call that a step moves to the main thread, or to the interrupt level.
MainHas(p) == MainShape' /\ (main'.pc \in CallPcs => main'.pb = p /\ p # None)
IrqHas(p) == IrqShape' /\ (irq'.pc \in WorkPcs => irq'.pb = p /\ p # None)

\* Afterwards it is in one place only.
Alone(p) ==
    /\ ~(p \in InMain' /\ p \in InIrq')
    /\ \A i \in Slots : pendingPb'[i] = p => p \notin InMain' /\ p \notin InIrq'
    /\ \A i, j \in Slots : i # j => pendingPb'[i] # p \/ pendingPb'[j] # p

\* A step that moves one call, p, or none.
LEMMA Regroup ==
  ASSUME CallInv, PbShape', Queues', NEW p,
         MainKeeps \/ MainHas(p), IrqKeeps \/ IrqHas(p),
         \A q : Mine(q) => Mine(q)',
         p = None \/ (Mine(p)' /\ AtHead(p)' /\ Alone(p)),
         pendingPb' \in [Slots -> Pbs \cup {None}],
         \A i \in Slots : pendingPb'[i] \in {pendingPb[i], None, p},
         \A q : /\ Mine(q) /\ AtHead(q) /\ q # p
                /\ \/ q \in InMain' \/ q \in InIrq'
                   \/ \E i \in Slots : pendingPb'[i] = q
                => AtHead(q)'
  PROVE  CallInv'
<1>1. MainShape' /\ IrqShape'
  BY DEF MainKeeps, MainHas, IrqKeeps, IrqHas
<1>2. \A q \in InMain' : (q = p /\ p # None) \/ q \in InMain
  BY DEF MainKeeps, MainHas, InMain, CallPcs
<1>3. \A q \in InIrq' : (q = p /\ p # None) \/ q \in InIrq
  BY DEF IrqKeeps, IrqHas, InIrq, WorkPcs
<1>4. Workers'
  <2>1. \A q : main'.pc \in CallPcs /\ q = main'.pb => Mine(q)'
    BY DEF MainKeeps, MainHas, CallInv, Workers
  <2>2. \A q : irq'.pc \in WorkPcs /\ q = irq'.pb => Mine(q)'
    BY DEF IrqKeeps, IrqHas, CallInv, Workers
  <2>3. \A i \in Slots : \A q : q = pendingPb'[i] /\ q # None => Mine(q)'
    BY DEF CallInv, Workers
  <2> QED
    BY <2>1, <2>2, <2>3 DEF Workers, Mine
<1>5. \A q \in InMain \cup InIrq : Mine(q) /\ AtHead(q)
  BY InSets DEF CallInv, ParkedAreHeads
<1>6. \A i \in Slots : pendingPb[i] # None =>
         Mine(pendingPb[i]) /\ AtHead(pendingPb[i]) /\ pendingPb[i] \notin InMain \cup InIrq
  BY DEF CallInv, Workers, ParkedAreHeads
<1>7. ASSUME NEW q, q \in InMain' \/ q \in InIrq'
      PROVE  AtHead(q)'
  <2>1. CASE q = p /\ p # None
    BY <2>1
  <2>2. CASE ~(q = p /\ p # None)
    <3>1. q \in InMain \/ q \in InIrq
      BY <1>2, <1>3, <1>7, <2>2
    <3>2. Mine(q) /\ AtHead(q) /\ q # None
      BY <1>5, <3>1, PbsAssumption DEF Mine
    <3>3. q # p
      BY <2>2, <3>2
    <3> QED
      BY <1>7, <3>2, <3>3
  <2> QED
    BY <2>1, <2>2
<1>8. InMain' \cap InIrq' = {}
  <2>1. InMain \cap InIrq = {}
    BY DEF CallInv, ParkedAreHeads
  <2> SUFFICES ASSUME NEW q \in InMain', q \in InIrq'
               PROVE  FALSE
    OBVIOUS
  <2> QED
    BY <1>2, <1>3, <2>1 DEF Alone
<1>9. \A i \in Slots : \A q : q = pendingPb'[i] /\ q # None =>
         AtHead(q)' /\ q \notin InMain' /\ q \notin InIrq'
  <2> TAKE i \in Slots
  <2> SUFFICES ASSUME NEW q, q = pendingPb'[i], q # None
               PROVE  AtHead(q)' /\ q \notin InMain' /\ q \notin InIrq'
    OBVIOUS
  <2>1. CASE q = p
    BY <2>1 DEF Alone
  <2>2. CASE q # p
    <3>1. q = pendingPb[i]
      BY <2>2
    <3>2. Mine(q) /\ AtHead(q) /\ q \notin InMain /\ q \notin InIrq
      BY <1>6, <3>1
    <3> QED
      BY <1>2, <1>3, <2>2, <3>2
  <2> QED
    BY <2>1, <2>2
<1>10. \A i, j \in Slots : i # j => pendingPb'[i] = None \/ pendingPb'[i] # pendingPb'[j]
  <2> SUFFICES ASSUME NEW i \in Slots, NEW j \in Slots, i # j,
                      pendingPb'[i] # None, pendingPb'[i] = pendingPb'[j]
               PROVE  FALSE
    OBVIOUS
  <2>1. pendingPb'[i] # p
    BY DEF Alone
  <2>2. pendingPb'[i] = pendingPb[i] /\ pendingPb'[j] = pendingPb[j]
    BY <2>1
  <2> QED
    BY <2>2 DEF CallInv, ParkedAreHeads
<1>11. ParkedAreHeads'
  <2>1. \A i \in Slots : pendingPb'[i] # None =>
           AtHead(pendingPb[i])' /\ pendingPb'[i] \notin InMain' \cup InIrq'
    BY <1>9 DEF AtHead
  <2>2. \A q \in InMain' \cup InIrq' : AtHead(q)'
    BY <1>7
  <2> QED
    BY <1>8, <1>10, <2>1, <2>2 DEF ParkedAreHeads
<1> QED
  BY <1>1, <1>4, <1>11 DEF CallInv

LEMMA EnqueueInv ==
  ASSUME CallInv, NEW p \in Pbs, NEW c \in Drivers \X Traps, NEW n,
         Enqueue(p, c, n), pendingPb' = pendingPb,
         \/ MainKeeps /\ IrqKeeps
         \/ queue[c[1]] = <<>> /\ MainHas(p) /\ IrqKeeps
         \/ queue[c[1]] = <<>> /\ MainKeeps /\ IrqHas(p)
  PROVE  CallInv'
<1>1. /\ PbShape' /\ Queues'
      /\ pb[p].drv = None /\ pb'[p].drv = c[1]
      /\ queue[c[1]] = <<>> => AtHead(p)'
      /\ \A q \in Pbs : q # p => pb'[q].drv = pb[q].drv
      /\ \A q : Mine(q) /\ AtHead(q) => Mine(q)' /\ AtHead(q)'
  BY EnqueueKeeps
<1>2. ~Mine(p) /\ Mine(p)' /\ p # None
  BY <1>1, DriversAssumption, PbsAssumption DEF Mine
<1>3. \A q : Mine(q) => Mine(q)'
  BY <1>1, <1>2 DEF Mine
<1>4. p \notin InMain /\ p \notin InIrq
  BY <1>2, InSets
<1>5. \A i \in Slots : pendingPb[i] # p
  BY <1>2 DEF CallInv, Workers
<1>6. pendingPb' \in [Slots -> Pbs \cup {None}]
  BY DEF CallInv, Workers
<1>7. CASE MainKeeps /\ IrqKeeps
  BY <1>1, <1>3, <1>6, <1>7, Regroup
<1>8. CASE queue[c[1]] = <<>> /\ MainHas(p) /\ IrqKeeps
  <2>1. Alone(p)
    BY <1>4, <1>5, <1>8 DEF Alone, IrqKeeps
  <2> QED
    BY <1>1, <1>2, <1>3, <1>6, <1>8, <2>1, Regroup
<1>9. CASE queue[c[1]] = <<>> /\ MainKeeps /\ IrqHas(p)
  <2>1. Alone(p)
    BY <1>4, <1>5, <1>9 DEF Alone, MainKeeps
  <2> QED
    BY <1>1, <1>2, <1>3, <1>6, <1>9, <2>1, Regroup
<1> QED
  BY <1>7, <1>8, <1>9

\* A call that is worked on goes into the table.
LEMMA ParkInv ==
  ASSUME CallInv, DrvKept, queue' = queue, NEW p \in InMain \cup InIrq,
         MainKeeps, IrqKeeps, p \notin InMain', p \notin InIrq',
         NEW s \in Slots, pendingPb' = [pendingPb EXCEPT ![s] = p]
  PROVE  CallInv'
<1>1. \A q \in Pbs : pb'[q].drv = pb[q].drv
  BY DEF DrvKept
<1>2. \A q : Mine(q) => Mine(q)'
  BY <1>1 DEF Mine
<1>3. \A q : Mine(q) /\ AtHead(q) => AtHead(q)'
  BY <1>1 DEF Mine, AtHead
<1>4. Queues'
  <2>1. \A d \in Drivers : \A k \in 1 .. Len(queue[d]) : queue[d][k] \in Pbs
    BY DEF CallInv, Queues
  <2> QED
    BY <1>1, <2>1 DEF CallInv, Queues
<1>5. Mine(p) /\ AtHead(p) /\ \A i \in Slots : pendingPb[i] # p
  <2>1. Mine(p)
    BY InSets
  <2>2. p # None
    BY <2>1, PbsAssumption DEF Mine
  <2> QED
    BY <2>1, <2>2 DEF CallInv, ParkedAreHeads
<1>6. /\ pendingPb' \in [Slots -> Pbs \cup {None}]
      /\ \A i \in Slots : pendingPb'[i] = IF i = s THEN p ELSE pendingPb[i]
  BY <1>5 DEF CallInv, Workers, Mine
<1>7. Alone(p)
  BY <1>5, <1>6 DEF Alone
<1>8. \A i \in Slots : pendingPb'[i] \in {pendingPb[i], None, p}
  BY <1>6
<1>9. PbShape'
  BY DEF DrvKept
<1>10. Mine(p)' /\ AtHead(p)'
  BY <1>2, <1>3, <1>5
<1> QED
  BY <1>2, <1>3, <1>4, <1>6, <1>7, <1>8, <1>9, <1>10, Regroup

\* The wake-up loop takes a call from the table.
LEMMA WakeTakesInv ==
  ASSUME CallInv, irq.slot \in Slots, WakeTakes
  PROVE  CallInv'
<1> PICK p : p = pendingPb[irq.slot]
  OBVIOUS
<1>1. p # None /\ Mine(p) /\ AtHead(p) /\ p \notin InMain
  BY DEF WakeTakes, CallInv, Workers, ParkedAreHeads
<1>2. /\ pendingPb' \in [Slots -> Pbs \cup {None}]
      /\ \A i \in Slots : pendingPb'[i] = IF i = irq.slot THEN None ELSE pendingPb[i]
  BY DEF WakeTakes, Unparked, CallInv, Workers
<1>3. \A i \in Slots : pendingPb'[i] # p
  BY <1>1, <1>2 DEF CallInv, ParkedAreHeads
<1>4. IrqHas(p)
  BY <1>1 DEF WakeTakes, IrqHas, CallInv, IrqShape
<1>5. MainKeeps /\ InMain' = InMain
  BY DEF WakeTakes, MainKeeps, CallInv, MainShape, InMain
<1>6. DrvKept /\ queue' = queue
  BY Unchanged DEF WakeTakes, callVars, CallInv
<1>7. \A q : Mine(q) => Mine(q)'
  BY <1>6 DEF Mine, DrvKept
<1>8. \A q : Mine(q) /\ AtHead(q) => AtHead(q)'
  BY <1>6 DEF Mine, AtHead, DrvKept
<1>9. Queues'
  BY DEF WakeTakes, callVars, CallInv, Queues
<1>10. Alone(p)
  BY <1>1, <1>3, <1>5 DEF Alone
<1>11. \A i \in Slots : pendingPb'[i] \in {pendingPb[i], None, p}
  BY <1>2
<1>12. Mine(p)' /\ AtHead(p)' /\ PbShape'
  BY <1>1, <1>6, <1>7, <1>8 DEF DrvKept
<1> QED
  BY <1>2, <1>4, <1>5, <1>7, <1>8, <1>9, <1>10, <1>11, <1>12, Regroup

\* A call ends, and the one behind it starts in its place.
LEMMA DoneInv ==
  ASSUME CallInv, NEW p \in InMain \cup InIrq, NEW r, IODone(p, r),
         pendingPb' = pendingPb, NEW next, next = NextCall(p),
         \/ p \in InMain /\ InIrq = {} /\ IrqKeeps /\ MainHas(next)
         \/ p \in InIrq /\ MainKeeps /\ IrqHas(next)
  PROVE  CallInv'
<1>1. Mine(p) /\ AtHead(p) /\ p \in Pbs /\ p # None
  BY InSets, PbsAssumption DEF CallInv, ParkedAreHeads, Mine
<1>2. /\ PbShape' /\ Queues'
      /\ \A q : Mine(q) => Mine(q)'
      /\ \A q : Mine(q) /\ AtHead(q) /\ q # p => AtHead(q)'
      /\ next = None \/ (Mine(next) /\ next # p /\ ~AtHead(next) /\ AtHead(next)')
  <2>1. /\ PbShape' /\ Queues'
        /\ \A q : Mine(q) => Mine(q)'
        /\ \A q : Mine(q) /\ AtHead(q) /\ q # p => AtHead(q)'
        /\ NextCall(p) = None \/
              \E q : /\ q = NextCall(p) /\ Mine(q) /\ q # p
                     /\ ~AtHead(q) /\ AtHead(q)'
    BY <1>1, DoneKeeps
  <2> QED
    BY <2>1
<1>3. \A i \in Slots : pendingPb[i] # p
  BY <1>1 DEF CallInv, ParkedAreHeads
<1>4. InMain \cap InIrq = {}
  BY DEF CallInv, ParkedAreHeads
<1>5. next # None => /\ next \notin InMain /\ next \notin InIrq
                     /\ \A i \in Slots : pendingPb[i] # next
  BY <1>2 DEF CallInv, ParkedAreHeads
<1>6. p \notin InMain' /\ p \notin InIrq'
  <2>1. CASE p \in InMain /\ InIrq = {} /\ IrqKeeps /\ MainHas(next)
    <3>1. p \notin InIrq'
      BY <2>1 DEF IrqKeeps
    <3>2. InMain' \subseteq {next}
      BY <2>1 DEF MainHas, InMain, CallPcs
    <3>3. next # p
      BY <1>1, <1>2
    <3> QED
      BY <3>1, <3>2, <3>3
  <2>2. CASE p \in InIrq /\ MainKeeps /\ IrqHas(next)
    <3>1. p \notin InMain'
      BY <1>4, <2>2 DEF MainKeeps
    <3>2. InIrq' \subseteq {next}
      BY <2>2 DEF IrqHas, InIrq, WorkPcs
    <3>3. next # p
      BY <1>1, <1>2
    <3> QED
      BY <3>1, <3>2, <3>3
  <2> QED
    BY <2>1, <2>2
<1>7. next # None => Alone(next)
  BY <1>5 DEF Alone, IrqKeeps, MainKeeps
<1>8. pendingPb' \in [Slots -> Pbs \cup {None}]
  BY DEF CallInv, Workers
<1>9. next = None \/ (Mine(next)' /\ AtHead(next)' /\ Alone(next))
  BY <1>2, <1>7
<1>10. \A q : /\ Mine(q) /\ AtHead(q) /\ q # next
              /\ \/ q \in InMain' \/ q \in InIrq'
                 \/ \E i \in Slots : pendingPb'[i] = q
              => AtHead(q)'
  BY <1>2, <1>3, <1>6
<1>11. (MainKeeps \/ MainHas(next)) /\ (IrqKeeps \/ IrqHas(next))
  OBVIOUS
<1> QED
  BY <1>2, <1>8, <1>9, <1>10, <1>11, Regroup
-----------------------------------------------------------------------------
\* The steps and the table.

\* What the two activations know of the table stays true.
MainStays ==
    /\ main'.slot \in Slots
    /\ main'.pc = "claim" =>
          main.pc = "claim" /\ main'.pb = main.pb /\ main'.slot = main.slot
IrqStays ==
    /\ irq'.slot \in Slots
    /\ irq'.pc \in WorkPcs /\ irq'.from = "wake" => infoRef[irq'.slot] # None

\* Nothing but the installation leads out of the state before it.
PortKept ==
    /\ openResult' = [d \in Drivers |-> openResult'[d]]
    /\ port' = "absent" =>
         /\ port = "absent"
         /\ \A d \in Drivers : openResult'[d] = noErr => openResult[d] = noErr
         /\ main'.pc \in OpenPcs \cup CallPcs => main.pc \in OpenPcs \cup CallPcs

LEMMA NextSlot ==
  ASSUME Table, NEW s \in Slots, infoRef[s] # None
  PROVE  s + 1 \in Slots
BY NInfoNat DEF Table, Slots

LEMMA UntouchedKept ==
  ASSUME InfoInv, DrvKept, PortKept, infoRef' = infoRef
  PROVE  Untouched'
BY DEF InfoInv, Untouched, DrvKept, PortKept

LEMMA InfoFrame ==
  ASSUME CallInv, InfoInv, infoRef' = infoRef,
         \A q : Mine(q) => pb'[q].drv = pb[q].drv,
         MainStays, IrqStays, Untouched'
  PROVE  InfoInv'
<1>1. Table'
  BY DEF InfoInv, Table
<1>2. ASSUME main'.pc = "claim"
      PROVE  SlotFor(pb[main.pb].drv, main.slot)'
  <2>1. main.pc = "claim" /\ main'.pb = main.pb /\ main'.slot = main.slot
    BY <1>2 DEF MainStays
  <2>2. pb'[main.pb].drv = pb[main.pb].drv
    BY <2>1 DEF CallInv, Workers, CallPcs
  <2> QED
    BY <2>1, <2>2 DEF InfoInv, SlotFor
<1> QED
  BY <1>1, <1>2 DEF InfoInv, MainStays, IrqStays

\* A slot is claimed, and nobody else's.
LEMMA InfoClaim ==
  ASSUME CallInv, InfoInv, NEW d \in Drivers, NEW s \in Slots, SlotFor(d, s),
         infoRef' = [infoRef EXCEPT ![s] = d],
         \A q : Mine(q) => pb'[q].drv = pb[q].drv,
         MainStays, main'.pc = "claim" => pb[main.pb].drv # d,
         IrqStays, port' # "absent",
         openResult' = [e \in Drivers |-> openResult'[e]]
  PROVE  InfoInv'
<1>1. Table' /\ \A i \in Slots : infoRef[i] # None => infoRef'[i] # None
  BY Claimed1 DEF InfoInv
<1>2. Untouched'
  BY DEF Untouched
<1>3. ASSUME main'.pc = "claim"
      PROVE  SlotFor(pb[main.pb].drv, main.slot)'
  <2>1. main.pc = "claim" /\ main'.pb = main.pb /\ main'.slot = main.slot
    BY <1>3 DEF MainStays
  <2>2. pb'[main.pb].drv = pb[main.pb].drv /\ pb[main.pb].drv # d
    BY <1>3, <2>1 DEF CallInv, Workers, CallPcs
  <2>3. \A i \in Slots : infoRef'[i] = IF i = s THEN d ELSE infoRef[i]
    BY DEF InfoInv, Table
  <2>4. d # None
    BY DriversAssumption
  <2> QED
    BY <2>1, <2>2, <2>3, <2>4 DEF InfoInv, SlotFor
<1> QED
  BY <1>1, <1>2, <1>3 DEF InfoInv, MainStays, IrqStays

Inv == CallInv /\ InfoInv

\* Most steps.
LEMMA Quiet ==
  ASSUME Inv, DrvKept, queue' = queue, pendingPb' = pendingPb,
         infoRef' = infoRef, PortKept, MainKeeps, IrqKeeps, MainStays, IrqStays
  PROVE  Inv'
<1>1. CallInv'
  BY Frame DEF Inv
<1>2. \A q : Mine(q) => pb'[q].drv = pb[q].drv
  BY DEF DrvKept, Mine
<1>3. InfoInv'
  BY <1>2, UntouchedKept, InfoFrame DEF Inv
<1> QED
  BY <1>1, <1>3 DEF Inv

LEMMA MainSame ==
  ASSUME Inv, main' = main
  PROVE  MainKeeps /\ MainStays
BY DEF Inv, CallInv, InfoInv, MainKeeps, MainStays, MainShape, InMain

LEMMA IrqSame ==
  ASSUME Inv, irq' = irq
  PROVE  IrqKeeps /\ IrqStays
BY DEF Inv, CallInv, InfoInv, IrqKeeps, IrqStays, IrqShape, InIrq

LEMMA IrqIdle ==
  ASSUME irq' = IdleIrq \/ irq' = [IdleIrq EXCEPT !.pc = "wake"]
  PROVE  IrqKeeps /\ IrqStays
<1>1. 1 \in Slots
  BY NInfoNat DEF Slots
<1> QED
  BY <1>1 DEF IrqKeeps, IrqStays, IrqShape, InIrq, IdleIrq, WorkPcs

LEMMA PortSame ==
  ASSUME Inv, port' = port, openResult' = openResult,
         main'.pc \in OpenPcs \cup CallPcs => main.pc \in OpenPcs \cup CallPcs
  PROVE  PortKept
BY DEF Inv, InfoInv, Untouched, PortKept

\* The steps of the main thread on a call.
LEMMA MainMoves ==
  ASSUME Inv, DoControl \/ StatusReq \/ StatusAct \/ StatusExtra
  PROVE  MainKeeps /\ MainStays /\ (main'.pc \in OpenPcs \cup CallPcs
                                    => main.pc \in OpenPcs \cup CallPcs)
<1>1. CASE DoControl
  BY <1>1 DEF Inv, CallInv, InfoInv, MainKeeps, MainStays, MainShape, InMain,
    DoControl, MainAt, CallPcs, noErr
<1>2. CASE StatusReq
  BY <1>2 DEF Inv, CallInv, InfoInv, MainKeeps, MainStays, MainShape, InMain,
    StatusReq, MainAt, CallPcs
<1>3. CASE StatusAct
  BY <1>3 DEF Inv, CallInv, InfoInv, MainKeeps, MainStays, MainShape, InMain,
    StatusAct, MainAt, CallPcs
<1>4. CASE StatusExtra
  BY <1>4 DEF Inv, CallInv, InfoInv, MainKeeps, MainStays, MainShape, InMain,
    StatusExtra, MainAt, CallPcs, noErr
<1> QED
  BY <1>1, <1>2, <1>3, <1>4

LEMMA PrimeMoves ==
  ASSUME Inv,
         \/ PrimeTakes \/ PrimeMisses \/ PrimeTransfer \/ PrimeReleases
         \/ PrimeSchedules \/ PrimeResult
  PROVE  MainKeeps /\ MainStays /\ (main'.pc \in OpenPcs \cup CallPcs
                                    => main.pc \in OpenPcs \cup CallPcs)
<1>1. CASE PrimeTakes
  BY <1>1 DEF Inv, CallInv, InfoInv, MainKeeps, MainStays, MainShape, InMain,
    PrimeTakes, MainAt, Goto, CallPcs
<1>2. CASE PrimeMisses
  BY <1>2 DEF Inv, CallInv, InfoInv, MainKeeps, MainStays, MainShape, InMain,
    PrimeMisses, MainAt, CallPcs
<1>3. CASE PrimeTransfer
  BY <1>3 DEF Inv, CallInv, InfoInv, MainKeeps, MainStays, MainShape, InMain,
    PrimeTransfer, MainAt, CallPcs
<1>4. CASE PrimeReleases
  BY <1>4 DEF Inv, CallInv, InfoInv, MainKeeps, MainStays, MainShape, InMain,
    PrimeReleases, MainAt, Goto, CallPcs
<1>5. CASE PrimeSchedules
  BY <1>5 DEF Inv, CallInv, InfoInv, MainKeeps, MainStays, MainShape, InMain,
    PrimeSchedules, MainAt, Goto, CallPcs
<1>6. CASE PrimeResult
  BY <1>6 DEF Inv, CallInv, InfoInv, MainKeeps, MainStays, MainShape, InMain,
    PrimeResult, MainAt, Goto, CallPcs
<1> QED
  BY <1>1, <1>2, <1>3, <1>4, <1>5, <1>6
\* Steps that leave the calls and the table alone.
LEMMA Aside ==
  ASSUME Inv, UNCHANGED <<queue, pb, infoVars>>, PortKept,
         MainKeeps, IrqKeeps, MainStays, IrqStays
  PROVE  Inv'
<1>1. DrvKept
  BY Unchanged DEF Inv, CallInv
<1> QED
  BY <1>1, Quiet DEF infoVars

\* Installing and connecting.
LEMMA InstallInv == Inv /\ Install => Inv'
<1> SUFFICES ASSUME Inv, Install
             PROVE  Inv'
  OBVIOUS
<1>1. MainKeeps /\ MainStays /\ IrqKeeps /\ IrqStays
  BY MainSame, IrqSame DEF Install
<1>2. DrvKept /\ queue' = queue /\ pendingPb' = pendingPb
  BY Unchanged DEF Install, callVars, Inv, CallInv
<1>3. CallInv'
  BY <1>1, <1>2, Frame DEF Inv
<1>4. /\ port = "absent" /\ port' = "installed" /\ openResult' = openResult
      /\ main.pc = "idle" /\ main' = main
      /\ infoRef' = [infoRef EXCEPT ![1] = Fuji]
  BY DEF Install, MainAt
<1>5. 1 \in Slots /\ Fuji \in Drivers /\ SlotFor(Fuji, 1)
  <2>1. \A i \in Slots : ~(i < 1) /\ infoRef[i] = None
    BY <1>4, NInfoNat DEF Inv, InfoInv, Untouched, Slots
  <2> QED
    BY <2>1, NInfoNat, DriversAssumption DEF SlotFor, Slots
<1>6. \A q : Mine(q) => pb'[q].drv = pb[q].drv
  BY <1>2 DEF DrvKept, Mine
<1>7. openResult' = [e \in Drivers |-> openResult'[e]]
  BY <1>4 DEF Inv, InfoInv, Untouched
<1>8. InfoInv'
  BY <1>1, <1>4, <1>5, <1>6, <1>7, InfoClaim DEF Inv
<1> QED
  BY <1>3, <1>8 DEF Inv

LEMMA OpenInv ==
  ASSUME Inv, Connect \/ (\E d \in Drivers : Open(d) \/ Close(d)) \/ OpenConnResult
              \/ OpenReadReq \/ OpenReadAct \/ OpenWrite \/ OpenStartVBL
  PROVE  Inv'
<1>1. UNCHANGED <<queue, pb, infoVars>> /\ irq' = irq
  BY DEF Connect, Open, Close, OpenConnResult, OpenReadReq, OpenReadAct, OpenWrite,
    OpenStartVBL, callVars
<1>2. IrqKeeps /\ IrqStays
  BY <1>1, IrqSame
<1>3. 1 \in Slots
  BY NInfoNat DEF Slots
<1>4. MainKeeps /\ MainStays
  <2>1. CASE Connect
    BY <2>1 DEF Inv, CallInv, InfoInv, MainKeeps, MainStays, MainShape, InMain,
      Connect, MainAt, CallPcs
  <2>2. ASSUME NEW d \in Drivers, Open(d)
        PROVE  MainKeeps /\ MainStays
    <3>1. CASE main' = main
      BY <3>1, MainSame
    <3>2. CASE main' = [main EXCEPT !.pc = "open1", !.drv = d]
      BY <2>2, <3>2 DEF Inv, CallInv, InfoInv, MainKeeps, MainStays, MainShape, InMain,
        Open, MainAt, CallPcs
    <3> QED
      BY <2>2, <3>1, <3>2 DEF Open
  <2>3. ASSUME NEW d \in Drivers, Close(d)
        PROVE  MainKeeps /\ MainStays
    BY <2>3, MainSame DEF Close
  <2>4. CASE OpenConnResult
    BY <2>4 DEF Inv, CallInv, InfoInv, MainKeeps, MainStays, MainShape, InMain,
      OpenConnResult, MainAt, Goto, CallPcs
  <2>5. CASE OpenReadReq
    BY <2>5 DEF Inv, CallInv, InfoInv, MainKeeps, MainStays, MainShape, InMain,
      OpenReadReq, MainAt, Goto, CallPcs
  <2>6. CASE OpenReadAct
    BY <2>6 DEF Inv, CallInv, InfoInv, MainKeeps, MainStays, MainShape, InMain,
      OpenReadAct, MainAt, Goto, CallPcs
  <2>7. CASE OpenWrite
    BY <2>7 DEF Inv, CallInv, InfoInv, MainKeeps, MainStays, MainShape, InMain,
      OpenWrite, MainAt, Goto, CallPcs
  <2>8. CASE OpenStartVBL
    BY <1>3, <2>8 DEF MainKeeps, MainStays, MainShape, InMain,
      OpenStartVBL, IdleMain, CallPcs
  <2> QED
    BY <2>1, <2>2, <2>3, <2>4, <2>5, <2>6, <2>7, <2>8
<1>5. PortKept
  <2>1. CASE Connect
    BY <2>1 DEF Inv, InfoInv, Untouched, Connect, PortKept
  <2>2. ASSUME NEW d \in Drivers, Open(d)
        PROVE  PortKept
    <3>1. openResult' = [e \in Drivers |-> openResult'[e]]
      BY <2>2 DEF Open, Inv, InfoInv, Untouched
    <3>2. ASSUME NEW e \in Drivers, openResult'[e] = noErr
          PROVE  openResult[e] = noErr
      <4>1. openErr # noErr /\ portNotCf # noErr
        BY DEF openErr, portNotCf, noErr
      <4>2. openResult = [x \in Drivers |-> openResult[x]]
        BY DEF Inv, InfoInv, Untouched
      <4>3. \/ openResult' = openResult
            \/ openResult' = [openResult EXCEPT ![d] = openErr]
            \/ openResult' = [openResult EXCEPT ![d] = portNotCf]
        BY <2>2 DEF Open
      <4> QED
        BY <3>2, <4>1, <4>2, <4>3
    <3>3. port' = port
      BY <2>2 DEF Open
    <3>4. port = "absent" => main' = main
      BY <2>2 DEF Open
    <3> QED
      BY <3>1, <3>2, <3>3, <3>4 DEF PortKept
  <2>3. ASSUME NEW d \in Drivers, Close(d)
        PROVE  PortKept
    <3>1. openResult' = [e \in Drivers |-> openResult'[e]]
      BY <2>3 DEF Close, Inv, InfoInv, Untouched
    <3>2. port' = port /\ main' = main
      BY <2>3 DEF Close
    <3>3. ASSUME NEW e \in Drivers, openResult'[e] = noErr, port = "absent"
          PROVE  openResult[e] = noErr
      BY <2>3, <3>3 DEF Close, Inv, InfoInv, Untouched
    <3> QED
      BY <3>1, <3>2, <3>3 DEF PortKept
  <2>4. CASE OpenConnResult \/ OpenReadReq \/ OpenReadAct \/ OpenWrite
    <3>1. port' = port /\ openResult' = openResult /\ main.pc \in OpenPcs
      BY <2>4 DEF OpenConnResult, OpenReadReq, OpenReadAct, OpenWrite, portVars,
        MainAt, OpenPcs
    <3> QED
      BY <3>1, PortSame
  <2>5. CASE OpenStartVBL
    <3>1. port' = port /\ main.pc \in OpenPcs
      BY <2>5 DEF OpenStartVBL, MainAt, OpenPcs
    <3>2. port # "absent"
      BY <3>1 DEF Inv, InfoInv, Untouched
    <3>3. openResult' = [e \in Drivers |-> openResult'[e]]
      BY <2>5 DEF OpenStartVBL, Inv, InfoInv, Untouched
    <3> QED
      BY <3>1, <3>2, <3>3 DEF PortKept
  <2> QED
    BY <2>1, <2>2, <2>3, <2>4, <2>5
<1> QED
  BY <1>1, <1>2, <1>4, <1>5, Aside

\* The main thread's calls.
LEMMA MainIssueInv ==
  ASSUME Inv, NEW p \in Pbs, NEW c \in Calls, NEW n \in Sizes, MainIssue(p, c, n)
  PROVE  Inv'
<1>1. /\ c \in Drivers \X Traps /\ Enqueue(p, c, n) /\ irq' = irq
      /\ pendingPb' = pendingPb /\ infoRef' = infoRef
      /\ port' = port /\ openResult' = openResult
      /\ main.pc = "idle"
  BY CallsAssumption DEF MainIssue, infoVars, portVars, MainAt
<1>2. IrqKeeps /\ IrqStays
  BY <1>1, IrqSame
<1>3. 1 \in Slots /\ p # None
  BY NInfoNat, PbsAssumption DEF Slots
<1>4. Entry(c[2]) \in {"ctl", "sts1", "lock"}
  BY DEF Entry
<1>5. /\ MainStays
      /\ MainKeeps \/ (queue[c[1]] = <<>> /\ MainHas(p))
  <2>1. CASE main' = main
    BY <2>1, MainSame
  <2>2. CASE queue[c[1]] = <<>> /\ main' = [IdleMain EXCEPT !.pc = Entry(c[2]), !.pb = p]
    <3>1. main' = [pc |-> Entry(c[2]), pb |-> p, drv |-> None, err |-> noErr,
                   slot |-> 1, tmp |-> 0]
      BY <2>2 DEF IdleMain
    <3> HIDE DEF Entry
    <3>2. MainStays
      BY <1>3, <1>4, <3>1 DEF MainStays
    <3>3. MainHas(p)
      BY <1>3, <1>4, <3>1 DEF MainHas, MainShape
    <3> QED
      BY <2>2, <3>2, <3>3
  <2> QED
    BY <2>1, <2>2 DEF MainIssue, StartsAtOnce
<1>6. CallInv'
  BY <1>1, <1>2, <1>5, EnqueueInv DEF Inv
<1>7. pb[p].drv = None /\ \A q \in Pbs : q # p => pb'[q].drv = pb[q].drv
  BY <1>1, EnqueueKeeps DEF Inv
<1>8. \A q : Mine(q) => pb'[q].drv = pb[q].drv
  BY <1>7, DriversAssumption DEF Mine
<1>9. Untouched'
  <2>1. port # "absent"
    BY <1>1 DEF Enqueue, Inv, InfoInv, Untouched
  <2> QED
    BY <1>1, <2>1 DEF Inv, InfoInv, Untouched
<1>10. InfoInv'
  BY <1>1, <1>2, <1>5, <1>8, <1>9, InfoFrame DEF Inv
<1> QED
  BY <1>6, <1>10 DEF Inv

LEMMA MainCallQuiet ==
  ASSUME Inv, \/ DoControl \/ StatusReq \/ StatusAct \/ StatusExtra
              \/ PrimeTakes \/ PrimeMisses \/ PrimeTransfer \/ PrimeReleases
              \/ PrimeSchedules \/ PrimeResult
  PROVE  Inv'
<1>1. /\ queue' = queue /\ pendingPb' = pendingPb /\ infoRef' = infoRef
      /\ port' = port /\ openResult' = openResult /\ irq' = irq
      /\ main.pc \in CallPcs
  BY DEF DoControl, StatusReq, StatusAct, StatusExtra, PrimeTakes, PrimeMisses,
    PrimeTransfer, PrimeReleases, PrimeSchedules, PrimeResult, MainAt, CallPcs,
    callVars, infoVars, portVars
<1>2. MainKeeps /\ MainStays
  BY MainMoves, PrimeMoves
<1>3. IrqKeeps /\ IrqStays
  BY <1>1, IrqSame
<1>4. PortKept
  BY <1>1, PortSame
<1>5. main.pb \in Pbs /\ PbShape
  BY <1>1 DEF Inv, CallInv, Workers, Mine
<1>6. DrvKept
  <2>1. CASE StatusExtra
    <3>1. \E x : pb' = [pb EXCEPT ![main.pb].csParam = x]
      BY <2>1 DEF StatusExtra
    <3> QED
      BY <1>5, <3>1, StatusStored
  <2>2. CASE PrimeTransfer
    BY <1>5, <2>2, TransferKeeps DEF PrimeTransfer
  <2>3. CASE PrimeResult
    BY <1>5, <2>3, ResultStored DEF PrimeResult
  <2>4. CASE pb' = pb
    BY <1>5, <2>4, Unchanged
  <2> QED
    BY <2>1, <2>2, <2>3, <2>4 DEF DoControl, StatusReq, StatusAct, PrimeTakes,
      PrimeMisses, PrimeReleases, PrimeSchedules
<1> QED
  BY <1>1, <1>2, <1>3, <1>4, <1>6, Quiet
LEMMA PrimeFindsSlotInv == Inv /\ PrimeFindsSlot => Inv'
<1> SUFFICES ASSUME Inv, PrimeFindsSlot
             PROVE  Inv'
  OBVIOUS
<1> PICK d : d = pb[main.pb].drv
  OBVIOUS
<1> PICK t : t = InfoSlot(d)
  OBVIOUS
<1>1. /\ main.pc = "find" /\ main' = [main EXCEPT !.pc = "claim", !.slot = t]
      /\ queue' = queue /\ pb' = pb /\ pendingPb' = pendingPb /\ infoRef' = infoRef
      /\ port' = port /\ openResult' = openResult /\ irq' = irq
  BY DEF PrimeFindsSlot, MainAt, callVars, infoVars, portVars
<1>2. d \in Drivers
  BY <1>1 DEF Inv, CallInv, Workers, CallPcs, Mine
<1>3. t \in Slots /\ SlotFor(d, t)
  BY <1>2, SlotFound DEF Inv, InfoInv
<1>4. MainKeeps
  BY <1>1 DEF Inv, CallInv, MainKeeps, MainShape, InMain, CallPcs
<1>5. IrqKeeps /\ IrqStays
  BY <1>1, IrqSame
<1>6. DrvKept
  BY <1>1, Unchanged DEF Inv, CallInv
<1>7. CallInv'
  BY <1>1, <1>4, <1>5, <1>6, Frame DEF Inv
<1>8. PortKept
  BY <1>1, PortSame DEF CallPcs
<1>9. Untouched'
  BY <1>1, <1>6, <1>8, UntouchedKept DEF Inv
<1>10. main'.slot = t /\ main'.pb = main.pb
  BY <1>1 DEF Inv, CallInv, MainShape
<1>11. SlotFor(d, t)' /\ pb'[main'.pb].drv = d
  BY <1>1, <1>3, <1>10 DEF SlotFor
<1>12. SlotFor(pb[main.pb].drv, main.slot)'
  BY <1>10, <1>11 DEF SlotFor
<1>13. Table'
  BY <1>1 DEF Inv, InfoInv, Table
<1>14. InfoInv'
  BY <1>1, <1>3, <1>5, <1>9, <1>10, <1>12, <1>13 DEF InfoInv, IrqStays
<1> QED
  BY <1>7, <1>14 DEF Inv

LEMMA PrimeClaimsSlotInv == Inv /\ PrimeClaimsSlot => Inv'
<1> SUFFICES ASSUME Inv, PrimeClaimsSlot
             PROVE  Inv'
  OBVIOUS
<1> DEFINE d == pb[main.pb].drv
<1>1. /\ main.pc = "claim" /\ main' = [main EXCEPT !.pc = "park"]
      /\ infoRef' = [infoRef EXCEPT ![main.slot] = d]
      /\ queue' = queue /\ pb' = pb /\ pendingPb' = pendingPb
      /\ port' = port /\ openResult' = openResult /\ irq' = irq
  BY DEF PrimeClaimsSlot, MainAt, Goto, callVars, portVars
<1>2. d \in Drivers
  BY <1>1 DEF Inv, CallInv, Workers, CallPcs, Mine
<1>3. main.slot \in Slots /\ SlotFor(d, main.slot)
  BY <1>1 DEF Inv, InfoInv
<1>4. MainKeeps /\ MainStays /\ main'.pc # "claim"
  BY <1>1, <1>3 DEF Inv, CallInv, MainKeeps, MainStays, MainShape, InMain, CallPcs
<1>5. IrqKeeps /\ IrqStays
  BY <1>1, IrqSame
<1>6. DrvKept
  BY <1>1, Unchanged DEF Inv, CallInv
<1>7. CallInv'
  BY <1>1, <1>4, <1>5, <1>6, Frame DEF Inv
<1>8. port' # "absent" /\ openResult' = [e \in Drivers |-> openResult'[e]]
  BY <1>1 DEF Inv, InfoInv, Untouched, CallPcs
<1>9. \A q : Mine(q) => pb'[q].drv = pb[q].drv
  BY <1>1
<1> HIDE DEF d
<1>10. InfoInv'
  BY <1>1, <1>2, <1>3, <1>4, <1>5, <1>8, <1>9, InfoClaim DEF Inv
<1> QED
  BY <1>7, <1>10 DEF Inv

LEMMA PrimeParksInv == Inv /\ PrimeParks => Inv'
<1> SUFFICES ASSUME Inv, PrimeParks
             PROVE  Inv'
  OBVIOUS
<1> PICK p : p = main.pb
  OBVIOUS
<1>1. /\ main.pc = "park" /\ irq.pc = "none" /\ main' = [main EXCEPT !.pc = "sched"]
      /\ pendingPb' = [pendingPb EXCEPT ![main.slot] = p]
      /\ queue' = queue /\ pb' = pb /\ infoRef' = infoRef
      /\ port' = port /\ openResult' = openResult /\ irq' = irq
  BY DEF PrimeParks, MainAt, Goto, callVars, portVars
<1>2. main.slot \in Slots /\ main.err = ioInProgress /\ p \in InMain
  BY <1>1 DEF Inv, InfoInv, CallInv, MainShape, InMain
<1>3. MainKeeps /\ MainStays /\ InMain' = {}
  BY <1>1, <1>2 DEF Inv, CallInv, MainKeeps, MainStays, MainShape, InMain, CallPcs,
    ioInProgress
<1>4. IrqKeeps /\ IrqStays /\ InIrq' = {}
  BY <1>1, IrqSame DEF InIrq
<1>5. DrvKept
  BY <1>1, Unchanged DEF Inv, CallInv
<1>6. CallInv'
  BY <1>1, <1>2, <1>3, <1>4, <1>5, ParkInv DEF Inv
<1>7. PortKept
  BY <1>1, PortSame DEF CallPcs
<1>8. Untouched'
  BY <1>1, <1>5, <1>7, UntouchedKept DEF Inv
<1>9. \A q : Mine(q) => pb'[q].drv = pb[q].drv
  BY <1>1
<1>10. InfoInv'
  BY <1>1, <1>3, <1>4, <1>8, <1>9, InfoFrame DEF Inv
<1> QED
  BY <1>6, <1>10 DEF Inv

LEMMA IOReturnInv == Inv /\ IOReturn => Inv'
<1> SUFFICES ASSUME Inv, IOReturn
             PROVE  Inv'
  OBVIOUS
<1>1. /\ main.pc = "return" /\ irq.pc = "none" /\ irq' = irq
      /\ pendingPb' = pendingPb /\ infoRef' = infoRef
      /\ port' = port /\ openResult' = openResult
  BY DEF IOReturn, MainAt, infoVars, portVars
<1>2. IrqKeeps /\ IrqStays /\ InIrq = {}
  BY <1>1, IrqSame DEF InIrq
<1>3. 1 \in Slots
  BY NInfoNat DEF Slots
<1>4. CASE ~(main.err =< 0)
  <2>1. main' = IdleMain /\ queue' = queue /\ pb' = pb
    BY <1>4 DEF IOReturn, callVars
  <2>2. MainKeeps /\ MainStays /\ main'.pc = "idle"
    BY <1>3, <2>1 DEF MainKeeps, MainStays, MainShape, InMain, IdleMain, CallPcs
  <2>3. PortKept
    BY <1>1, <2>2, PortSame DEF OpenPcs, CallPcs
  <2> QED
    BY <1>1, <1>2, <2>1, <2>2, <2>3, Aside DEF infoVars
<1>5. CASE main.err =< 0
  <2> PICK p : p = main.pb
    OBVIOUS
  <2> PICK next : next = NextCall(p)
    OBVIOUS
  <2>1. p \in InMain /\ IODone(p, main.err)
    BY <1>1, <1>5 DEF IOReturn, InMain
  <2>2. MainHas(next) /\ MainStays
    <3>1. CASE next = None
      <4>1. main' = IdleMain
        BY <1>5, <3>1 DEF IOReturn
      <4> QED
        BY <1>3, <4>1 DEF MainHas, MainStays, MainShape, IdleMain, CallPcs
    <3>2. CASE next # None
      <4>1. \E x : x \in {"ctl", "sts1", "lock"}
                /\ main' = [IdleMain EXCEPT !.pc = x, !.pb = next]
        BY <1>5, <3>2 DEF IOReturn, Entry
      <4>2. PICK x : x \in {"ctl", "sts1", "lock"}
                     /\ main' = [IdleMain EXCEPT !.pc = x, !.pb = next]
        BY <4>1
      <4>3. main' = [pc |-> x, pb |-> next, drv |-> None, err |-> noErr,
                     slot |-> 1, tmp |-> 0]
        BY <4>2 DEF IdleMain
      <4>4. x # "claim" /\ x # "find" /\ x # "park"
        BY <4>2
      <4> QED
        BY <1>3, <3>2, <4>3, <4>4 DEF MainHas, MainStays, MainShape
    <3> QED
      BY <3>1, <3>2
  <2>3. CallInv'
    BY <1>1, <1>2, <2>1, <2>2, DoneInv DEF Inv
  <2>4. DrvKept
    BY <2>1, InSets, ResultStored DEF IODone, Inv, CallInv, Mine
  <2>5. PortKept
    BY <1>1, PortSame DEF CallPcs
  <2>6. Untouched'
    BY <1>1, <2>4, <2>5, UntouchedKept DEF Inv
  <2>7. \A q : Mine(q) => pb'[q].drv = pb[q].drv
    BY <2>4 DEF DrvKept, Mine
  <2>8. InfoInv'
    BY <1>1, <1>2, <2>2, <2>6, <2>7, InfoFrame DEF Inv
  <2> QED
    BY <2>3, <2>8 DEF Inv
<1> QED
  BY <1>4, <1>5

-----------------------------------------------------------------------------
\* The interrupt level.

\* The VBL task and the completions of the floppy I/O.
LEMMA DeviceInv ==
  ASSUME Inv, VblTick \/ DiskDone \/ WakeEnds
  PROVE  Inv'
<1>1. /\ queue' = queue /\ pb' = pb /\ UNCHANGED infoVars
      /\ port' = port /\ openResult' = openResult /\ main' = main
  BY DEF VblTick, VblCountdown, VblMutexBusy, VblFlush, VblPoll, VblWakes, DiskDone,
    WriteDone, WriteFails, ReadDone, ReadFails, WakeEnds, callVars, portVars
<1>2. irq' = irq \/ irq' = IdleIrq \/ irq' = [IdleIrq EXCEPT !.pc = "wake"]
  BY DEF VblTick, VblCountdown, VblMutexBusy, VblFlush, VblPoll, VblWakes, DiskDone,
    WriteDone, WriteFails, ReadDone, ReadFails, WakeEnds, StartWakeUp
<1>3. IrqKeeps /\ IrqStays
  BY <1>2, IrqSame, IrqIdle
<1>4. MainKeeps /\ MainStays
  BY <1>1, MainSame
<1>5. PortKept
  BY <1>1, PortSame
<1> QED
  BY <1>1, <1>3, <1>4, <1>5, Aside

LEMMA WakeInv ==
  ASSUME Inv, WakeTakes \/ WakeSkips
  PROVE  Inv'
<1>1. /\ queue' = queue /\ pb' = pb /\ infoRef' = infoRef
      /\ port' = port /\ openResult' = openResult /\ main' = main
      /\ irq.pc = "wake" /\ infoRef[irq.slot] # None
  BY DEF WakeTakes, WakeSkips, callVars, portVars, infoVars
<1>2. irq.slot \in Slots /\ irq.slot + 1 \in Slots
  BY <1>1, NextSlot DEF Inv, InfoInv
<1>3. MainKeeps /\ MainStays
  BY <1>1, MainSame
<1>4. PortKept
  BY <1>1, PortSame
<1>5. IrqStays
  BY <1>1, <1>2 DEF WakeTakes, WakeSkips, IrqStays, WorkPcs, Inv, CallInv, IrqShape
<1>6. CASE WakeSkips
  <2>1. IrqKeeps
    BY <1>6 DEF WakeSkips, IrqKeeps, IrqShape, InIrq, Inv, CallInv, WorkPcs
  <2> QED
    BY <1>1, <1>3, <1>4, <1>5, <1>6, <2>1, Aside DEF WakeSkips
<1>7. CASE WakeTakes
  <2>1. CallInv'
    BY <1>2, <1>7, WakeTakesInv DEF Inv
  <2>2. DrvKept
    BY <1>1, Unchanged DEF Inv, CallInv
  <2>3. Untouched'
    BY <1>1, <1>4, <2>2, UntouchedKept DEF Inv
  <2>4. InfoInv'
    BY <1>1, <1>3, <1>5, <2>3, InfoFrame DEF Inv
  <2> QED
    BY <2>1, <2>4 DEF Inv
<1> QED
  BY <1>6, <1>7
\* What the interrupt level does after parking or ending a call.
LEMMA ResumeStays ==
  ASSUME Inv, irq.pc \in WorkPcs, irq' = Resume
  PROVE  IrqStays /\ IrqShape' /\ irq'.pc \notin WorkPcs /\ InIrq' = {}
<1>1. 1 \in Slots /\ irq.slot \in Slots
  BY NInfoNat DEF Slots, Inv, InfoInv
<1>2. CASE irq.from = "wake"
  <2>1. irq.slot + 1 \in Slots
    BY <1>1, <1>2, NextSlot DEF Inv, InfoInv
  <2>2. irq' = [pc |-> "wake", pb |-> None, err |-> noErr, slot |-> irq.slot + 1,
                from |-> "client"]
    BY <1>2 DEF Resume, IdleIrq
  <2> QED
    BY <2>1, <2>2 DEF IrqStays, IrqShape, InIrq, WorkPcs
<1>3. CASE irq.from # "wake"
  BY <1>1, <1>3 DEF Resume, IdleIrq, IrqStays, IrqShape, InIrq, WorkPcs
<1> QED
  BY <1>2, <1>3

\* The tail of doPrime.
LEMMA IrqParkInv ==
  ASSUME Inv, irq.pc = "prime", NEW p, p = irq.pb, Park(p), DrvKept, queue' = queue,
         port' = port, openResult' = openResult, main' = main
  PROVE  Inv'
<1> PICK d : d = pb[p].drv
  OBVIOUS
<1> PICK s : s = InfoSlot(d)
  OBVIOUS
<1>1. /\ infoRef' = [infoRef EXCEPT ![s] = d]
      /\ pendingPb' = [pendingPb EXCEPT ![s] = p]
      /\ irq' = Resume
  BY DEF Park
<1>2. Mine(p) /\ d \in Drivers /\ p \in InIrq /\ p \notin InMain
  BY DEF Inv, CallInv, Workers, WorkPcs, Mine, InIrq, ParkedAreHeads
<1>3. s \in Slots /\ SlotFor(d, s)
  BY <1>2, SlotFound DEF Inv, InfoInv
<1>4. IrqStays /\ IrqShape' /\ irq'.pc \notin WorkPcs /\ InIrq' = {}
  BY <1>1, ResumeStays DEF WorkPcs
<1>5. MainKeeps /\ MainStays /\ InMain' = InMain
  BY MainSame DEF InMain
<1>6. IrqKeeps
  BY <1>4 DEF IrqKeeps
<1>7. CallInv'
  BY <1>1, <1>2, <1>3, <1>4, <1>5, <1>6, ParkInv DEF Inv
<1>8. ASSUME main'.pc = "claim"
      PROVE  pb[main.pb].drv # d
  <2> PICK q : q = main.pb
    OBVIOUS
  <2>1. q \in InMain /\ Mine(q) /\ AtHead(q) /\ AtHead(p) /\ q # p
    BY <1>2, <1>8, InSets DEF InMain, Inv, CallInv, ParkedAreHeads
  <2> QED
    BY <2>1 DEF AtHead
<1>9. port' # "absent" /\ openResult' = [e \in Drivers |-> openResult'[e]]
  BY <1>2, DriversAssumption DEF Inv, InfoInv, Untouched, Mine
<1>10. \A q : Mine(q) => pb'[q].drv = pb[q].drv
  BY DEF DrvKept, Mine
<1>11. InfoInv'
  BY <1>1, <1>2, <1>3, <1>4, <1>5, <1>8, <1>9, <1>10, InfoClaim DEF Inv
<1> QED
  BY <1>7, <1>11 DEF Inv

LEMMA IrqPrimesInv ==
  ASSUME Inv, IrqPrimes \/ IrqMisses
  PROVE  Inv'
<1> PICK p : p = irq.pb
  OBVIOUS
<1>1. /\ irq.pc = "prime" /\ queue' = queue
      /\ port' = port /\ openResult' = openResult /\ main' = main
  BY DEF IrqPrimes, IrqMisses, callVars, portVars
<1>2. p \in Pbs
  BY <1>1 DEF Inv, CallInv, Workers, WorkPcs, Mine
<1>3. DrvKept
  <2>1. CASE IrqPrimes
    BY <1>2, <2>1, TransferKeeps DEF IrqPrimes, Inv, CallInv
  <2>2. CASE IrqMisses
    BY <1>2, <2>2, ResultStored DEF IrqMisses, Inv, CallInv
  <2> QED
    BY <2>1, <2>2
<1>4. CASE Park(p)
  BY <1>1, <1>3, <1>4, IrqParkInv
<1>5. CASE UNCHANGED infoVars /\ \E r : irq' = [irq EXCEPT !.pc = "done", !.err = r]
  <2>1. PICK r : irq' = [pc |-> "done", pb |-> p, err |-> r, slot |-> irq.slot,
                         from |-> irq.from]
    <3>1. PICK r : irq' = [irq EXCEPT !.pc = "done", !.err = r]
      BY <1>5
    <3>2. irq = [pc |-> irq.pc, pb |-> irq.pb, err |-> irq.err,
                 slot |-> irq.slot, from |-> irq.from]
      BY DEF Inv, CallInv, IrqShape
    <3>3. irq' = [[pc |-> irq.pc, pb |-> irq.pb, err |-> irq.err,
                   slot |-> irq.slot, from |-> irq.from] EXCEPT !.pc = "done", !.err = r]
      BY <3>1, <3>2
    <3> QED
      BY <3>3
  <2>2. IrqKeeps /\ IrqStays
    BY <1>1, <2>1 DEF IrqKeeps, IrqStays, IrqShape, InIrq, WorkPcs, Inv, InfoInv
  <2>3. MainKeeps /\ MainStays
    BY <1>1, MainSame
  <2>4. PortKept
    BY <1>1, PortSame
  <2> QED
    BY <1>1, <1>3, <1>5, <2>2, <2>3, <2>4, Quiet DEF infoVars
<1> QED
  BY <1>4, <1>5 DEF IrqPrimes, IrqMisses

LEMMA IrqControlsInv == Inv /\ IrqControls => Inv'
<1> SUFFICES ASSUME Inv, IrqControls
             PROVE  Inv'
  OBVIOUS
<1>1. /\ irq.pc = "prime" /\ queue' = queue /\ UNCHANGED infoVars
      /\ port' = port /\ openResult' = openResult /\ main' = main
      /\ irq' = [irq EXCEPT !.pc = "done", !.err = noErr]
  BY DEF IrqControls, callVars, portVars
<1>2. irq.pb \in Pbs /\ PbShape
  BY <1>1 DEF Inv, CallInv, Workers, WorkPcs, Mine
<1>3. DrvKept
  <2>1. pb' = pb \/ \E x : pb' = [pb EXCEPT ![irq.pb].csParam = x]
    BY DEF IrqControls
  <2> QED
    BY <1>2, <2>1, Unchanged, StatusStored
<1>4. irq' = [pc |-> "done", pb |-> irq.pb, err |-> noErr, slot |-> irq.slot,
              from |-> irq.from]
  <2>1. irq = [pc |-> irq.pc, pb |-> irq.pb, err |-> irq.err,
               slot |-> irq.slot, from |-> irq.from]
    BY DEF Inv, CallInv, IrqShape
  <2>2. irq' = [[pc |-> irq.pc, pb |-> irq.pb, err |-> irq.err,
                 slot |-> irq.slot, from |-> irq.from] EXCEPT !.pc = "done", !.err = noErr]
    BY <1>1, <2>1
  <2> QED
    BY <2>2
<1>5. IrqKeeps /\ IrqStays
  <2> HIDE <1>1
  <2>1. irq.pc = "prime"
    BY <1>1
  <2> QED
    BY <1>4, <2>1 DEF IrqKeeps, IrqStays, IrqShape, InIrq, WorkPcs, Inv, InfoInv
<1>6. MainKeeps /\ MainStays
  BY <1>1, MainSame
<1>7. PortKept
  BY <1>1, PortSame
<1> QED
  BY <1>1, <1>3, <1>5, <1>6, <1>7, Quiet DEF infoVars

LEMMA IrqIODoneInv == Inv /\ IrqIODone => Inv'
<1> SUFFICES ASSUME Inv, IrqIODone
             PROVE  Inv'
  OBVIOUS
<1> PICK p : p = irq.pb
  OBVIOUS
<1> PICK next : next = NextCall(p)
  OBVIOUS
<1>1. /\ irq.pc = "done" /\ IODone(p, irq.err)
      /\ pendingPb' = pendingPb /\ infoRef' = infoRef
      /\ port' = port /\ openResult' = openResult /\ main' = main
  BY DEF IrqIODone, infoVars, portVars
<1>2. p \in InIrq
  BY <1>1 DEF InIrq
<1>3. MainKeeps /\ MainStays
  BY <1>1, MainSame
<1>4. IrqStays /\ IrqHas(next)
  <2>1. CASE next = None
    <3>1. irq' = Resume
      BY <2>1 DEF IrqIODone
    <3>2. IrqStays /\ IrqShape' /\ irq'.pc \notin WorkPcs
      BY <1>1, <3>1, ResumeStays DEF WorkPcs
    <3> QED
      BY <3>2 DEF IrqHas
  <2>2. CASE next # None
    <3>1. irq = [pc |-> irq.pc, pb |-> irq.pb, err |-> irq.err,
                 slot |-> irq.slot, from |-> irq.from]
      BY DEF Inv, CallInv, IrqShape
    <3>2. irq' = [[pc |-> irq.pc, pb |-> irq.pb, err |-> irq.err,
                   slot |-> irq.slot, from |-> irq.from] EXCEPT !.pc = "prime", !.pb = next]
      BY <2>2, <3>1 DEF IrqIODone
    <3>3. irq' = [pc |-> "prime", pb |-> next, err |-> irq.err,
                  slot |-> irq.slot, from |-> irq.from]
      BY <3>2
    <3>4. irq.pc \in WorkPcs
      BY <1>1 DEF WorkPcs
    <3> QED
      BY <2>2, <3>3, <3>4 DEF IrqHas, IrqStays, IrqShape, Inv, InfoInv
  <2> QED
    BY <2>1, <2>2
<1>5. CallInv'
  BY <1>1, <1>2, <1>3, <1>4, DoneInv DEF Inv
<1>6. DrvKept
  BY <1>1, <1>2, InSets, ResultStored DEF IODone, Inv, CallInv, Mine
<1>7. PortKept
  BY <1>1, PortSame
<1>8. Untouched'
  BY <1>1, <1>6, <1>7, UntouchedKept DEF Inv
<1>9. \A q : Mine(q) => pb'[q].drv = pb[q].drv
  BY <1>6 DEF DrvKept, Mine
<1>10. InfoInv'
  BY <1>1, <1>3, <1>4, <1>8, <1>9, InfoFrame DEF Inv
<1> QED
  BY <1>5, <1>10 DEF Inv

LEMMA IrqIssueInv ==
  ASSUME Inv, NEW p \in Pbs, NEW c \in IrqCalls, NEW n \in Sizes, IrqIssue(p, c, n)
  PROVE  Inv'
<1>1. /\ c \in Drivers \X Traps /\ Enqueue(p, c, n) /\ main' = main
      /\ pendingPb' = pendingPb /\ infoRef' = infoRef
      /\ port' = port /\ openResult' = openResult
  BY CallsAssumption DEF IrqIssue, infoVars, portVars
<1>2. MainKeeps /\ MainStays
  BY <1>1, MainSame
<1>3. 1 \in Slots /\ p # None
  BY NInfoNat, PbsAssumption DEF Slots
<1>4. /\ IrqStays
      /\ IrqKeeps \/ (queue[c[1]] = <<>> /\ IrqHas(p))
  <2>1. CASE irq' = irq
    BY <2>1, IrqSame
  <2>2. CASE queue[c[1]] = <<>> /\ irq' = [IdleIrq EXCEPT !.pc = "prime", !.pb = p]
    <3>1. irq' = [pc |-> "prime", pb |-> p, err |-> noErr, slot |-> 1,
                  from |-> "client"]
      BY <2>2 DEF IdleIrq
    <3>2. IrqStays /\ IrqHas(p)
      BY <1>3, <3>1 DEF IrqStays, IrqHas, IrqShape
    <3> QED
      BY <2>2, <3>2
  <2> QED
    BY <2>1, <2>2 DEF IrqIssue, StartsAtOnce
<1>5. CallInv'
  BY <1>1, <1>2, <1>4, EnqueueInv DEF Inv
<1>6. pb[p].drv = None /\ \A q \in Pbs : q # p => pb'[q].drv = pb[q].drv
  BY <1>1, EnqueueKeeps DEF Inv
<1>7. \A q : Mine(q) => pb'[q].drv = pb[q].drv
  BY <1>6, DriversAssumption DEF Mine
<1>8. Untouched'
  <2>1. port # "absent"
    BY <1>1 DEF Enqueue, Inv, InfoInv, Untouched
  <2> QED
    BY <1>1, <2>1 DEF Inv, InfoInv, Untouched
<1>9. InfoInv'
  BY <1>1, <1>2, <1>4, <1>7, <1>8, InfoFrame DEF Inv
<1> QED
  BY <1>5, <1>9 DEF Inv

-----------------------------------------------------------------------------
LEMMA InitInv == Init => Inv
<1> SUFFICES ASSUME Init
             PROVE  Inv
  OBVIOUS
<1>1. 1 \in Slots
  BY NInfoNat DEF Slots
<1>2. MainShape /\ IrqShape /\ PbShape
  BY DEF Init, MainShape, IrqShape, PbShape, IdleMain, IdleIrq, FreePb
<1>3. Queues
  BY EmptySeq DEF Init, Queues, Once
<1>4. Workers /\ ParkedAreHeads
  BY DEF Init, Workers, ParkedAreHeads, InMain, InIrq, IdleMain, IdleIrq, CallPcs, WorkPcs
<1>5. Table
  <2>1. \A i \in Slots : infoRef[i] = None /\ ~(i < 1)
    BY NInfoNat DEF Init, Slots
  <2> QED
    BY <1>1, <2>1 DEF Init, Table
<1>6. Untouched
  BY NoneAssumption DEF Init, Untouched, IdleMain, OpenPcs, CallPcs, FreePb
<1>7. /\ main.slot \in Slots /\ irq.slot \in Slots
      /\ irq.pc \notin WorkPcs /\ main.pc # "claim"
  BY <1>1 DEF Init, IdleMain, IdleIrq, WorkPcs
<1> QED
  BY <1>2, <1>3, <1>4, <1>5, <1>6, <1>7 DEF Inv, CallInv, InfoInv

LEMMA NextInv == Inv /\ [Next]_vars => Inv'
<1> SUFFICES ASSUME Inv, [Next]_vars
             PROVE  Inv'
  OBVIOUS
<1>1. CASE MainOpen
  BY <1>1, InstallInv, OpenInv DEF MainOpen
<1>2. CASE MainIssues
  BY <1>2, MainIssueInv DEF MainIssues
<1>3. CASE MainCall
  BY <1>3, MainCallQuiet, PrimeFindsSlotInv, PrimeClaimsSlotInv, PrimeParksInv,
    IOReturnInv DEF MainCall
<1>4. CASE VblTick \/ DiskDone
  BY <1>4, DeviceInv
<1>5. CASE IrqWork
  BY <1>5, WakeInv, DeviceInv, IrqPrimesInv, IrqControlsInv, IrqIODoneInv DEF IrqWork
<1>6. CASE IrqIssues
  BY <1>6, IrqIssueInv DEF IrqIssues
<1>7. CASE UNCHANGED vars
  <2>1. UNCHANGED <<queue, pb, infoVars>> /\ port' = port /\ openResult' = openResult
        /\ main' = main /\ irq' = irq
    BY <1>7 DEF vars, callVars, portVars
  <2>2. PortKept
    BY <2>1, PortSame
  <2> QED
    BY <2>1, <2>2, MainSame, IrqSame, Aside
<1> QED
  BY <1>1, <1>2, <1>3, <1>4, <1>5, <1>6, <1>7 DEF Next

LEMMA InvSafe == Spec => []Inv
<1>1. Init => Inv
  BY InitInv
<1>2. Inv /\ [Next]_vars => Inv'
  BY NextInv
<1> QED
  BY <1>1, <1>2, PTL DEF Spec

\* Every call in the wake-up table, with the main thread or at interrupt level
\* is the head of its driver's queue, and it is in one of these places: in any
\* interleaving of doPrime, the VBL task, the completions, the wake-up loop and
\* clients at interrupt level, also when getDriverInfo's search and claim are
\* interrupted.
THEOREM ParkedSafe == Spec => []ParkedAreHeads
<1>1. Inv => ParkedAreHeads
  BY DEF Inv, CallInv
<1> QED
  BY <1>1, InvSafe, PTL

\* getDriverInfo keeps a table of distinct drivers that ends in a free slot,
\* whatever comes between its search and its claim: the wake-up loop, which
\* stops at the first free slot, neither misses a driver nor leaves the table.
THEOREM InfoTableSafe == Spec => []InfoTable
<1>1. Inv => InfoTable
  BY TableOrder DEF Inv, InfoInv
<1> QED
  BY <1>1, InvSafe, PTL
=============================================================================
