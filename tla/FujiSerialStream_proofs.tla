------------------------ MODULE FujiSerialStream_proofs ------------------------
(***************************************************************************)
(* What the steps of the asynchronous driver do to its data: the types,    *)
(* the counts and the two byte streams, for every value of the constants.  *)
(*                                                                         *)
(* The proof has three layers.  Every step of Next is one of a few KINDS   *)
(* (Silent, Issues, Moves, Completes, DeviceSteps), which say what the     *)
(* streams can tell apart and forget who runs where.  DataInv, Reports and *)
(* the two courses are kept by each kind, and give StreamBase.  Streams    *)
(* adds that the floppy I/O works on a buffer nobody else fills or drains, *)
(* which holds while ports are opened before they are used.                *)
(***************************************************************************)
EXTENDS FujiSerialAsync_proofs, FujiSerialCalls_proofs, StorageSpec_proofs
-----------------------------------------------------------------------------
\* Sequences: what the operators of the staging buffers do.

\* A part of a sequence is a sequence; an interval that ends before it starts
\* selects nothing.
LEMMA PartOf ==
  ASSUME NEW S, NEW s \in Seq(S), NEW m \in Int, NEW n \in Int, 1 =< m, n =< Len(s)
  PROVE  /\ SubSeq(s, m, n) \in Seq(S)
         /\ Len(SubSeq(s, m, n)) = IF m =< n THEN n - m + 1 ELSE 0
         /\ n < m => SubSeq(s, m, n) = <<>>
         /\ \A i \in 1 .. n - m + 1 : SubSeq(s, m, n)[i] = s[m + i - 1]
<1>1. Len(s) \in Nat
  BY LenProperties
<1>2. \A i \in m .. n : s[i] \in S
  BY <1>1, ElementOfSeq
<1> QED
  BY <1>2, SubSeqProperties, SubSeqEmpty

\* A function on 1 .. n is a sequence of length n.
LEMMA Listed ==
  ASSUME NEW S, NEW n \in Nat, NEW f, f \in [1 .. n -> S]
  PROVE  f \in Seq(S) /\ Len(f) = n
<1>1. f \in Seq(S)
  BY SeqDef
<1>2. DOMAIN f = 1 .. n /\ DOMAIN f = 1 .. Len(f) /\ Len(f) \in Nat
  BY <1>1, LenProperties
<1>3. Len(f) = n
  BY <1>2
<1> QED
  BY <1>1, <1>3

\* Cutting a part in two.
LEMMA Cut ==
  ASSUME NEW S, NEW s \in Seq(S), NEW a \in Nat, NEW n \in Nat, NEW b \in Nat,
         a + n =< b, b =< Len(s)
  PROVE  SubSeq(s, a + 1, b) = SubSeq(s, a + 1, a + n) \o SubSeq(s, a + n + 1, b)
<1>1. Len(s) \in Nat
  BY LenProperties
<1>2. a + 1 \in 1 .. Len(s) + 1 /\ a + n \in (a + 1) - 1 .. Len(s) /\ b \in a + n .. Len(s)
  BY <1>1
<1>3. SubSeq(s, a + 1, a + n) \o SubSeq(s, (a + n) + 1, b) = SubSeq(s, a + 1, b)
  BY <1>2, ConcatAdjacentSubSeq
<1> QED
  BY <1>3

\* Joining two sequences.
LEMMA Joined ==
  ASSUME NEW S, NEW a \in Seq(S), NEW b \in Seq(S)
  PROVE  /\ a \o b \in Seq(S) /\ Len(a \o b) = Len(a) + Len(b)
         /\ Len(a) \in Nat /\ Len(b) \in Nat
         /\ \A i \in 1 .. Len(a) : (a \o b)[i] = a[i]
         /\ \A i \in 1 .. Len(b) : (a \o b)[Len(a) + i] = b[i]
         /\ \A i \in 1 .. Len(a \o b) :
              \/ i \in 1 .. Len(a) /\ (a \o b)[i] = a[i]
              \/ i - Len(a) \in 1 .. Len(b) /\ (a \o b)[i] = b[i - Len(a)]
<1>1. Len(a) \in Nat /\ Len(b) \in Nat
  BY LenProperties
<1>2. /\ a \o b \in Seq(S) /\ Len(a \o b) = Len(a) + Len(b)
      /\ \A i \in 1 .. Len(a) + Len(b) :
            (a \o b)[i] = IF i <= Len(a) THEN a[i] ELSE b[i - Len(a)]
  BY ConcatProperties, Zenon
<1>3. PICK o : o = a \o b
  OBVIOUS
<1>4. /\ Len(o) = Len(a) + Len(b)
      /\ \A i \in 1 .. Len(a) + Len(b) : o[i] = IF i <= Len(a) THEN a[i] ELSE b[i - Len(a)]
  BY <1>2, <1>3, Zenon
<1>5. \A i \in 1 .. Len(a) : o[i] = a[i]
  BY <1>1, <1>4
<1>6. \A i \in 1 .. Len(b) : o[Len(a) + i] = b[i]
  BY <1>1, <1>4
<1>7. \A i \in 1 .. Len(o) :
        \/ i \in 1 .. Len(a) /\ o[i] = a[i]
        \/ i - Len(a) \in 1 .. Len(b) /\ o[i] = b[i - Len(a)]
  BY <1>1, <1>4
<1> QED
  BY <1>1, <1>2, <1>3, <1>5, <1>6, <1>7, Zenon

\* Writing t over s at offset at: what is in front of t stays, t follows, and
\* the buffer does not shrink.
LEMMA OverlayLaw ==
  ASSUME NEW S, NEW s \in Seq(S), NEW t \in Seq(S), NEW at \in Nat, at =< Len(s)
  PROVE  /\ Overlay(s, at, t) \in Seq(S)
         /\ Len(Overlay(s, at, t)) >= Len(s)
         /\ Len(Overlay(s, at, t)) >= at + Len(t)
         /\ SubSeq(Overlay(s, at, t), 1, at + Len(t)) = SubSeq(s, 1, at) \o t
<1>1. Len(s) \in Nat /\ Len(t) \in Nat
  BY LenProperties
<1>a. PICK a : a = SubSeq(s, 1, at)
  OBVIOUS
<1>c. PICK c : c = SubSeq(s, at + Len(t) + 1, Len(s))
  OBVIOUS
<1>h. PICK h : h = a \o t
  OBVIOUS
<1>o. PICK o : o = h \o c
  OBVIOUS
<1>k. PICK k : k = at + Len(t)
  OBVIOUS
<1>0. k \in Nat /\ k = at + Len(t)
  BY <1>1, <1>k
<1>2. a \in Seq(S) /\ Len(a) = at
  <2>1. SubSeq(s, 1, at) \in Seq(S) /\ Len(SubSeq(s, 1, at)) = IF 1 =< at THEN at - 1 + 1 ELSE 0
    BY <1>1, PartOf
  <2> QED
    BY <1>a, <2>1
<1>3. c \in Seq(S) /\ Len(c) = IF k + 1 =< Len(s) THEN Len(s) - k ELSE 0
  <2>1. at + Len(t) + 1 \in Int /\ Len(s) \in Int /\ 1 =< at + Len(t) + 1
    BY <1>1
  <2>2. c \in Seq(S) /\ Len(c) = IF at + Len(t) + 1 =< Len(s)
                                THEN Len(s) - (at + Len(t) + 1) + 1 ELSE 0
    BY <1>1, <1>c, <2>1, PartOf
  <2> QED
    BY <1>0, <1>1, <2>2
<1>4. h \in Seq(S) /\ Len(h) = k
  <2>1. h \in Seq(S) /\ Len(h) = Len(a) + Len(t)
    BY <1>h, <1>2, Joined, Zenon
  <2> QED
    BY <1>0, <1>2, <2>1
<1>5. /\ o \in Seq(S) /\ Len(o) = Len(h) + Len(c) /\ Len(c) \in Nat
      /\ \A i \in 1 .. Len(h) : o[i] = h[i]
  BY <1>o, <1>3, <1>4, Joined, Zenon
<1>7. Len(o) >= Len(s) /\ Len(o) >= k
  <2>1. Len(o) = k + Len(c) /\ Len(c) \in Nat
    BY <1>4, <1>5, Zenon
  <2>2. Len(c) = IF k + 1 =< Len(s) THEN Len(s) - k ELSE 0
    BY <1>3
  <2>3. k \in Nat /\ Len(s) \in Nat
    BY <1>0, <1>1
  <2> HIDE <1>1
  <2> QED
    BY <2>1, <2>2, <2>3
<1>g. PICK g : g = SubSeq(o, 1, k)
  OBVIOUS
<1>8. g \in Seq(S) /\ Len(g) = k /\ \A i \in 1 .. k : g[i] = o[i]
  <2>1. /\ g \in Seq(S)
        /\ Len(g) = IF 1 =< k THEN k - 1 + 1 ELSE 0
        /\ \A i \in 1 .. k - 1 + 1 : g[i] = o[1 + i - 1]
    BY <1>0, <1>5, <1>7, <1>g, PartOf
  <2>2. \A i \in 1 .. k : i \in 1 .. k - 1 + 1 /\ 1 + i - 1 = i
    BY <1>0
  <2> QED
    BY <1>0, <2>1, <2>2
<1>9. g = h
  BY <1>4, <1>5, <1>8, SeqEqual
<1>10. o = Overlay(s, at, t)
  BY <1>a, <1>c, <1>h, <1>o DEF Overlay
<1> QED
  BY <1>0, <1>5, <1>7, <1>9, <1>10, <1>h, <1>a, <1>g

\* Bytes of a writer's buffer.
LEMMA BytesOfLaw ==
  ASSUME NEW p \in Pbs, NEW from \in Nat, NEW n \in Nat
  PROVE  BytesOf(p, from, n) \in Seq(Bytes) /\ Len(BytesOf(p, from, n)) = n
<1>1. BytesOf(p, from, n) \in [1 .. n -> Bytes]
  BY DEF BytesOf, Bytes
<1> QED
  BY <1>1, Listed

\* Bytes given to a reader.
LEMMA TaggedLaw ==
  ASSUME NEW p \in Pbs, NEW s \in Seq(Nat)
  PROVE  /\ Tagged(p, s) \in Seq(Bytes) /\ Len(Tagged(p, s)) = Len(s)
         /\ \A i \in 1 .. Len(s) : Tagged(p, s)[i] = <<p, s[i]>>
<1>1. Len(s) \in Nat /\ \A i \in 1 .. Len(s) : s[i] \in Nat
  BY LenProperties, ElementOfSeq
<1>2. Tagged(p, s) \in [1 .. Len(s) -> Bytes]
  BY <1>1 DEF Tagged, Bytes
<1>3. \A i \in 1 .. Len(s) : Tagged(p, s)[i] = <<p, s[i]>>
  BY DEF Tagged
<1> QED
  BY <1>1, <1>2, <1>3, Listed

LEMMA UntaggedLaw ==
  ASSUME NEW t \in Seq(Bytes)
  PROVE  /\ Untagged(t) \in Seq(Nat) /\ Len(Untagged(t)) = Len(t)
         /\ \A i \in 1 .. Len(t) : Untagged(t)[i] = t[i][2]
<1>1. Len(t) \in Nat /\ \A i \in 1 .. Len(t) : t[i] \in Bytes
  BY LenProperties, ElementOfSeq
<1>2. Untagged(t) \in [1 .. Len(t) -> Nat]
  BY <1>1 DEF Untagged, Bytes
<1>3. \A i \in 1 .. Len(t) : Untagged(t)[i] = t[i][2]
  BY DEF Untagged
<1> QED
  BY <1>1, <1>2, <1>3, Listed

\* Without their readers, delivered bytes are those that were read.
LEMMA DeliverLaw ==
  ASSUME NEW t \in Seq(Bytes), NEW p \in Pbs, NEW s \in Seq(Nat)
  PROVE  Untagged(t \o Tagged(p, s)) = Untagged(t) \o s
<1>g. PICK g : g = Tagged(p, s)
  OBVIOUS
<1>u. PICK u : u = t \o g
  OBVIOUS
<1>v. PICK v : v = Untagged(t)
  OBVIOUS
<1>w. PICK w : w = v \o s
  OBVIOUS
<1>x. PICK x : x = Untagged(u)
  OBVIOUS
<1>1. g \in Seq(Bytes) /\ Len(g) = Len(s) /\ \A i \in 1 .. Len(s) : g[i] = <<p, s[i]>>
  BY <1>g, TaggedLaw
<1>2. /\ u \in Seq(Bytes) /\ Len(u) = Len(t) + Len(g)
      /\ Len(t) \in Nat /\ Len(g) \in Nat
      /\ \A i \in 1 .. Len(t) : u[i] = t[i]
      /\ \A i \in 1 .. Len(g) : u[Len(t) + i] = g[i]
  <2>1. g \in Seq(Bytes)
    BY <1>1
  <2>2. /\ t \o g \in Seq(Bytes) /\ Len(t \o g) = Len(t) + Len(g)
        /\ Len(t) \in Nat /\ Len(g) \in Nat
        /\ \A i \in 1 .. Len(t) : (t \o g)[i] = t[i]
        /\ \A i \in 1 .. Len(g) : (t \o g)[Len(t) + i] = g[i]
    BY <2>1, Joined
  <2> QED
    BY <2>2, <1>u, Zenon
<1>3. v \in Seq(Nat) /\ Len(v) = Len(t) /\ \A i \in 1 .. Len(t) : v[i] = t[i][2]
  BY <1>v, UntaggedLaw
<1>4. /\ w \in Seq(Nat) /\ Len(w) = Len(v) + Len(s)
      /\ \A i \in 1 .. Len(v) : w[i] = v[i]
      /\ \A i \in 1 .. Len(s) : w[Len(v) + i] = s[i]
  <2>1. v \in Seq(Nat)
    BY <1>3
  <2>2. /\ v \o s \in Seq(Nat) /\ Len(v \o s) = Len(v) + Len(s)
        /\ \A i \in 1 .. Len(v) : (v \o s)[i] = v[i]
        /\ \A i \in 1 .. Len(s) : (v \o s)[Len(v) + i] = s[i]
    BY <2>1, Joined
  <2> QED
    BY <2>2, <1>w, Zenon
<1>5. x \in Seq(Nat) /\ Len(x) = Len(u) /\ \A i \in 1 .. Len(u) : x[i] = u[i][2]
  BY <1>2, <1>x, UntaggedLaw
<1>6. \A i \in 1 .. Len(u) : x[i] = w[i]
  <2> TAKE i \in 1 .. Len(u)
  <2>1. CASE i \in 1 .. Len(t)
    <3>1. u[i] = t[i] /\ w[i] = v[i] /\ v[i] = t[i][2]
      BY <1>2, <1>3, <1>4, <2>1
    <3> QED
      BY <1>5, <3>1
  <2>2. CASE i \notin 1 .. Len(t)
    <3>1. PICK j \in 1 .. Len(s) : i = Len(t) + j
      <4>1. i - Len(t) \in 1 .. Len(s) /\ i = Len(t) + (i - Len(t))
        BY <1>1, <1>2, <2>2
      <4> QED
        BY <4>1
    <3>2. u[i] = <<p, s[j]>> /\ w[i] = s[j]
      BY <1>1, <1>2, <1>3, <1>4, <3>1
    <3>3. u[i][2] = s[j]
      BY <3>2
    <3> QED
      BY <1>5, <3>2, <3>3
  <2> QED
    BY <2>1, <2>2
<1>7. Len(x) = Len(w)
  BY <1>1, <1>2, <1>3, <1>4, <1>5
<1>8. x = w
  BY <1>4, <1>5, <1>6, <1>7, SeqEqual
<1> QED
  BY <1>8, <1>g, <1>u, <1>v, <1>w, <1>x

-----------------------------------------------------------------------------
\* What the steps of the driver do to the data.

Rw(p) == pb[p].trap \in {"aRdCmd", "aWrCmd"}

ReadKept == /\ readStorage' = readStorage /\ readPayload' = readPayload
            /\ readExtraAvail' = readExtraAvail /\ fetched' = fetched /\ taken' = taken
WriteKept == /\ writeStorage' = writeStorage /\ writePayload' = writePayload
             /\ writeLength' = writeLength /\ sent' = sent /\ txDiscarded' = txDiscarded
DiskKept == connResult' = connResult /\ io' = io
FlowKept == accepted' = accepted /\ delivered' = delivered /\ bytes' = bytes
CallsKept == queue' = queue /\ outcome' = outcome

\* What the streams know of a call.
SameCore(p) == /\ pb'[p].drv = pb[p].drv /\ pb'[p].trap = pb[p].trap
               /\ pb'[p].ioReqCount = pb[p].ioReqCount
               /\ pb'[p].ioActCount = pb[p].ioActCount
CoreKept == \A p \in Pbs : SameCore(p)

\* p's count is advanced by n.
Counted1(p, n) == /\ pb'[p].drv = pb[p].drv /\ pb'[p].trap = pb[p].trap
                  /\ pb'[p].ioReqCount = pb[p].ioReqCount
                  /\ pb'[p].ioActCount = pb[p].ioActCount + n
                  /\ \A q \in Pbs : q # p => SameCore(q)

LEMMA CoreSame ==
  ASSUME PbShape,
         \/ pb' = pb
         \/ \E p \in Pbs : \E x : pb' = [pb EXCEPT ![p].ioResult = x]
         \/ \E p \in Pbs : \E x : pb' = [pb EXCEPT ![p].csParam = x]
  PROVE  CoreKept
<1>1. CASE pb' = pb
  BY <1>1 DEF CoreKept, SameCore
<1>2. ASSUME NEW p \in Pbs, NEW x, pb' = [pb EXCEPT ![p].ioResult = x]
      PROVE  CoreKept
  BY <1>2 DEF PbShape, CoreKept, SameCore
<1>3. ASSUME NEW p \in Pbs, NEW x, pb' = [pb EXCEPT ![p].csParam = x]
      PROVE  CoreKept
  BY <1>3 DEF PbShape, CoreKept, SameCore
<1> QED
  BY <1>1, <1>2, <1>3

LEMMA CoreMoved ==
  ASSUME PbShape, NEW p \in Pbs, NEW n, NEW r, Moved(p, n, r)
  PROVE  Counted1(p, n)
<1>1. pb' = [pb EXCEPT ![p].ioActCount = @ + n, ![p].ioResult = r]
  BY DEF Moved
<1>2. pb'[p] = [pb[p] EXCEPT !.ioActCount = @ + n, !.ioResult = r]
  BY <1>1 DEF PbShape
<1>3. \A q \in Pbs : q # p => pb'[q] = pb[q]
  BY <1>1 DEF PbShape
<1>4. /\ pb'[p].drv = pb[p].drv /\ pb'[p].trap = pb[p].trap
      /\ pb'[p].ioReqCount = pb[p].ioReqCount
      /\ pb'[p].ioActCount = pb[p].ioActCount + n
  BY <1>2 DEF PbShape
<1> QED
  BY <1>3, <1>4 DEF Counted1, SameCore

LEMMA CoreIssued ==
  ASSUME PbShape, NEW p \in Pbs, NEW c, NEW n, Enqueue(p, c, n)
  PROVE  /\ pb'[p].drv = c[1] /\ pb'[p].trap = c[2]
         /\ pb'[p].ioReqCount = n /\ pb'[p].ioActCount = 0
         /\ pb'[p].ioResult = ioInProgress /\ pb'[p].csParam = 0
         /\ \A q \in Pbs : q # p => pb'[q] = pb[q]
         /\ CoreKept \/ ~Issued(p)
<1>1. pb'[p] = [drv |-> c[1], trap |-> c[2], ioReqCount |-> n,
                ioActCount |-> 0, ioResult |-> ioInProgress, csParam |-> 0]
  BY DEF PbShape, Enqueue
<1>2. \A q \in Pbs : q # p => pb'[q] = pb[q]
  BY DEF PbShape, Enqueue
<1> QED
  BY <1>1, <1>2 DEF Enqueue

-----------------------------------------------------------------------------
\* The kinds of steps.

Silent == ReadKept /\ WriteKept /\ DiskKept /\ FlowKept /\ CallsKept /\ CoreKept

Issues(p, c, n) ==
    /\ Enqueue(p, c, n)
    /\ LateOpen \/ ~Opening
    /\ ReadKept /\ WriteKept /\ DiskKept /\ FlowKept /\ outcome' = outcome

\* doPrime of p, with the buffers, on the main thread or at interrupt level,
\* which both remember what came of it.
Moves(p) ==
    /\ \E r : Transfer(p, r)
    /\ DiskKept /\ CallsKept
    /\ io = "none" /\ Rw(p)
    /\ \/ /\ main.pc = "xfer" /\ irq.pc = "none" /\ p = main.pb
          /\ main' = [main EXCEPT !.pc = "unlock", !.err = PrimeErr(p)]
       \/ /\ irq.pc = "prime" /\ p = irq.pb
          /\ PrimeErr(p) # ioInProgress
                => irq' = [irq EXCEPT !.pc = "done", !.err = PrimeErr(p)]

Completes(p, r) ==
    /\ IODone(p, r)
    /\ ReadKept /\ WriteKept /\ DiskKept /\ FlowKept
    /\ r =< 0
    /\ \/ main.pc = "return" /\ irq.pc = "none" /\ p = main.pb /\ r = main.err
       \/ irq.pc = "done" /\ p = irq.pb /\ r = irq.err

\* A step of the device or of doOpen.
DeviceSteps == \/ VblFlush \/ VblPoll \/ WriteDone \/ WriteFails \/ ReadDone \/ ReadFails
               \/ OpenConnResult \/ OpenReadReq \/ OpenReadAct \/ OpenWrite

StepKinds ==
    \/ Silent
    \/ \E p \in Pbs, c \in Calls \cup IrqCalls, n \in Sizes : Issues(p, c, n)
    \/ \E p \in Pbs : Moves(p)
    \/ \E p \in Pbs, r \in Int : Completes(p, r)
    \/ DeviceSteps

-----------------------------------------------------------------------------
\* What the two activations have come to.

\* A result is earned: a transfer is complete when all was moved, and failed
\* with the error that the connection is in.
Earned(p, e) ==
    /\ e = noErr /\ Rw(p) => pb[p].ioActCount = pb[p].ioReqCount
    /\ e < 0 => connResult = e /\ Rw(p)

Results == Codes \cup {ioInProgress}
PrimePcs == {"lock", "xfer", "unlock", "find", "claim", "park", "sched"}

MainCourse ==
    /\ main.pc \in MainPcs /\ main.err \in Results
    /\ main.pc \in PrimePcs => Rw(main.pb)
    /\ main.pc \in {"ctl", "sts1", "sts2", "sts3"} => ~Rw(main.pb)
    /\ main.pc = "sched" => main.err = ioInProgress
    /\ main.pc \in {"unlock", "result", "return"} => Earned(main.pb, main.err)
IrqCourse ==
    /\ irq.pc \in {"none", "wake", "prime", "done"} /\ irq.from \in {"wake", "client"}
    /\ irq.err \in Results
    /\ irq.pc = "done" => irq.err =< 0 /\ Earned(irq.pb, irq.err)

LEMMA ResultsInt == Results \subseteq Int /\ Codes \subseteq Int
BY DEF Results, Codes, noErr, ioErr, wrongTag, ioInProgress

LEMMA Kinds ==
  ASSUME Inv, MutexInv, MainCourse, IrqCourse, [Next]_vars
  PROVE  StepKinds /\ (main.pc = "open3" => main'.pc = "open3" \/ OpenReadAct)
<1> DEFINE At3 == main.pc = "open3" => main'.pc = "open3" \/ OpenReadAct
<1>0. /\ PbShape
      /\ irq.pc \in WorkPcs => irq.pb \in Pbs
      /\ main.pc \in CallPcs => main.pb \in Pbs
  BY DEF Inv, CallInv, Workers, Mine
<1> USE DEF vars, portVars, callVars, infoVars, readVars, writeVars, diskVars, syncVars,
            flowVars
<1>1. CASE MainOpen
  <2> USE DEF ReadKept, WriteKept, DiskKept, FlowKept, CallsKept, MainAt
  <2>1. CASE Install \/ Connect \/ OpenStartVBL \/ \E d \in Drivers : Open(d) \/ Close(d)
    <3>1. pb' = pb /\ ReadKept /\ WriteKept /\ DiskKept /\ FlowKept /\ CallsKept
          /\ main.pc # "open3"
      BY <2>1 DEF Install, Connect, OpenStartVBL, Open, Close
    <3> QED
      BY <1>0, <3>1, CoreSame DEF StepKinds, Silent
  <2>2. CASE OpenConnResult \/ OpenReadReq \/ OpenReadAct \/ OpenWrite
    <3>1. At3
      BY <2>2 DEF OpenConnResult, OpenReadReq, OpenWrite
    <3> QED
      BY <2>2, <3>1 DEF StepKinds, DeviceSteps
  <2> QED
    BY <1>1, <2>1, <2>2 DEF MainOpen
<1>2. ASSUME NEW p \in Pbs, NEW c \in Calls, NEW n \in Sizes, MainIssue(p, c, n)
      PROVE  StepKinds /\ At3
  <2>1. Issues(p, c, n) /\ At3
    BY <1>2 DEF MainIssue, Issues, ReadKept, WriteKept, DiskKept, FlowKept, MainAt, Opening
  <2> QED
    BY <2>1 DEF StepKinds
<1>3. CASE \/ DoControl \/ StatusReq \/ StatusAct \/ StatusExtra
           \/ PrimeTakes \/ PrimeMisses \/ PrimeReleases
           \/ PrimeFindsSlot \/ PrimeClaimsSlot \/ PrimeParks
           \/ PrimeSchedules \/ PrimeResult
  <2>1. /\ main.pc \in CallPcs /\ main.pc # "open3"
        /\ ReadKept /\ WriteKept /\ DiskKept /\ FlowKept /\ CallsKept
    BY <1>3 DEF DoControl, StatusReq, StatusAct, StatusExtra, PrimeTakes, PrimeMisses,
      PrimeReleases, PrimeFindsSlot, PrimeClaimsSlot, PrimeParks, PrimeSchedules, PrimeResult,
      MainAt, CallPcs, ReadKept, WriteKept, DiskKept, FlowKept, CallsKept
  <2>2. \/ pb' = pb
        \/ \E x : pb' = [pb EXCEPT ![main.pb].ioResult = x]
        \/ \E x : pb' = [pb EXCEPT ![main.pb].csParam = x]
    BY <1>3 DEF DoControl, StatusReq, StatusAct, StatusExtra, PrimeTakes, PrimeMisses,
      PrimeReleases, PrimeFindsSlot, PrimeClaimsSlot, PrimeParks, PrimeSchedules, PrimeResult
  <2>3. CoreKept
    BY <1>0, <2>1, <2>2, CoreSame
  <2> QED
    BY <2>1, <2>3 DEF StepKinds, Silent
<1>4. CASE PrimeTransfer
  <2>1. main.pb \in Pbs /\ Rw(main.pb) /\ io = "none" /\ main.pc = "xfer"
    BY <1>0, <1>4 DEF PrimeTransfer, MainAt, CallPcs, MainCourse, PrimePcs, MutexInv,
      MutexOwned, MainHolds, IoHolds
  <2>2. Moves(main.pb)
    BY <1>4, <2>1 DEF PrimeTransfer, MainAt, Moves, DiskKept, CallsKept
  <2> QED
    BY <2>1, <2>2 DEF StepKinds
<1>5. CASE IOReturn
  <2>1. main.pc = "return" /\ irq.pc = "none" /\ main.pb \in Pbs /\ main.err \in Int
    BY <1>0, <1>5, ResultsInt DEF IOReturn, MainAt, CallPcs, MainCourse
  <2>2. CASE main.err =< 0
    <3>1. Completes(main.pb, main.err)
      BY <1>5, <2>1, <2>2 DEF IOReturn, Completes, ReadKept, WriteKept, DiskKept, FlowKept
    <3> QED
      BY <2>1, <3>1 DEF StepKinds
  <2>3. CASE ~(main.err =< 0)
    <3>1. pb' = pb /\ ReadKept /\ WriteKept /\ DiskKept /\ FlowKept /\ CallsKept
      BY <1>5, <2>3 DEF IOReturn, ReadKept, WriteKept, DiskKept, FlowKept, CallsKept
    <3> QED
      BY <1>0, <2>1, <3>1, CoreSame DEF StepKinds, Silent
  <2> QED
    BY <2>2, <2>3
<1>6. CASE VblTick
  <2>1. main' = main
    BY <1>6 DEF VblTick, VblCountdown, VblMutexBusy, VblFlush, VblPoll, VblWakes
  <2>2. CASE VblFlush \/ VblPoll
    BY <2>1, <2>2 DEF StepKinds, DeviceSteps
  <2>3. CASE VblCountdown \/ VblMutexBusy \/ VblWakes
    <3>1. pb' = pb /\ ReadKept /\ WriteKept /\ DiskKept /\ FlowKept /\ CallsKept
      BY <2>3 DEF VblCountdown, VblMutexBusy, VblWakes, ReadKept, WriteKept, DiskKept,
        FlowKept, CallsKept
    <3> QED
      BY <1>0, <2>1, <3>1, CoreSame DEF StepKinds, Silent
  <2> QED
    BY <1>6, <2>2, <2>3 DEF VblTick
<1>7. CASE DiskDone
  <2>1. main' = main
    BY <1>7 DEF DiskDone, WriteDone, WriteFails, ReadDone, ReadFails
  <2> QED
    BY <1>7, <2>1 DEF StepKinds, DeviceSteps, DiskDone
<1>8. CASE WakeTakes \/ WakeSkips \/ WakeEnds \/ IrqMisses \/ IrqControls
  <2>1. main' = main /\ ReadKept /\ WriteKept /\ DiskKept /\ FlowKept /\ CallsKept
    BY <1>8 DEF WakeTakes, WakeSkips, WakeEnds, IrqMisses, IrqControls, ReadKept, WriteKept,
      DiskKept, FlowKept, CallsKept
  <2>2. \/ pb' = pb
        \/ irq.pc = "prime" /\ \E x : pb' = [pb EXCEPT ![irq.pb].ioResult = x]
        \/ irq.pc = "prime" /\ \E x : pb' = [pb EXCEPT ![irq.pb].csParam = x]
    BY <1>8 DEF WakeTakes, WakeSkips, WakeEnds, IrqMisses, IrqControls
  <2>3. CoreKept
    BY <1>0, <2>2, CoreSame DEF WorkPcs
  <2> QED
    BY <2>1, <2>3 DEF StepKinds, Silent
<1>9. CASE IrqPrimes
  <2>1. irq.pc = "prime" /\ irq.pb \in Pbs /\ Rw(irq.pb) /\ io = "none" /\ main' = main
    BY <1>0, <1>9 DEF IrqPrimes, WorkPcs, Rw, BuffersFree, MutexInv, MutexOwned, IoHolds,
      WakeHolds
  <2>2. Moves(irq.pb)
    BY <1>9, <2>1 DEF IrqPrimes, Moves, DiskKept, CallsKept
  <2> QED
    BY <2>1, <2>2 DEF StepKinds
<1>10. CASE IrqIODone
  <2>1. irq.pc = "done" /\ irq.pb \in Pbs /\ irq.err \in Int /\ irq.err =< 0 /\ main' = main
    BY <1>0, <1>10, ResultsInt DEF IrqIODone, WorkPcs, IrqCourse
  <2>2. Completes(irq.pb, irq.err)
    BY <1>10, <2>1 DEF IrqIODone, Completes, ReadKept, WriteKept, DiskKept, FlowKept
  <2> QED
    BY <2>1, <2>2 DEF StepKinds
<1>11. ASSUME NEW p \in Pbs, NEW c \in IrqCalls, NEW n \in Sizes, IrqIssue(p, c, n)
      PROVE  StepKinds /\ At3
  <2>1. Issues(p, c, n) /\ At3
    BY <1>11 DEF IrqIssue, Issues, ReadKept, WriteKept, DiskKept, FlowKept
  <2> QED
    BY <2>1 DEF StepKinds
<1>12. CASE UNCHANGED vars
  <2>1. pb' = pb /\ ReadKept /\ WriteKept /\ DiskKept /\ FlowKept /\ CallsKept /\ main' = main
    BY <1>12 DEF ReadKept, WriteKept, DiskKept, FlowKept, CallsKept
  <2> QED
    BY <1>0, <2>1, CoreSame DEF StepKinds, Silent
<1> QED
  BY <1>1, <1>2, <1>3, <1>4, <1>5, <1>6, <1>7, <1>8, <1>9, <1>10, <1>11, <1>12
  DEF Next, MainIssues, MainCall, IrqWork, IrqIssues

-----------------------------------------------------------------------------
\* The counts and types of the data.

PbCore ==
    \A p \in Pbs :
      /\ pb[p].trap \in Traps /\ pb[p].ioReqCount \in Nat /\ pb[p].ioActCount \in Int
      /\ pb[p].trap = "aWrCmd" => Sane(pb[p])
ReadSide ==
    /\ readStorage = [ioReqCount |-> readStorage.ioReqCount,
                      ioActCount |-> readStorage.ioActCount]
    /\ readStorage.ioReqCount \in Nat /\ readStorage.ioActCount \in Nat
    /\ readStorage.ioReqCount =< PayloadSize
    /\ readStorage.ioReqCount =< Len(readPayload)
    /\ main.pc # "open3" => readStorage.ioActCount =< readStorage.ioReqCount
    /\ readPayload \in Seq(Nat) /\ readExtraAvail \in Nat
    /\ taken \in Nat /\ fetched \in Seq(Nat) /\ delivered \in Seq(Bytes)
WriteSide ==
    /\ writeStorage = [ioReqCount |-> writeStorage.ioReqCount,
                       ioActCount |-> writeStorage.ioActCount]
    /\ writeStorage.ioReqCount \in {0, PayloadSize} /\ writeStorage.ioActCount \in Nat
    /\ writeStorage.ioActCount =< writeStorage.ioReqCount
    /\ writeStorage.ioActCount =< Len(writePayload)
    /\ writeLength \in Nat /\ writeLength =< Len(writePayload)
    /\ writePayload \in Seq(Bytes) /\ accepted \in Seq(Bytes) /\ sent \in Seq(Bytes)
    /\ txDiscarded \in BOOLEAN
DiskSide ==
    /\ io \in {"none", "read", "write"} /\ connResult \in Results
    /\ io # "none" => connResult \in {noErr, ioInProgress}
    /\ connResult < 0 => Faults
Statistics == bytes \in [bytesRead : Nat, bytesWritten : Nat]

DataInv == PbCore /\ ReadSide /\ WriteSide /\ DiskSide /\ Statistics

\* bufferCopy between descriptors that may have other fields, too.
LEMMA CopyBounds ==
  ASSUME NEW src, NEW dst, src.ioReqCount \in Int, src.ioActCount \in Int,
         dst.ioReqCount \in Int, dst.ioActCount \in Int
  PROVE  /\ CopyCount(src, dst) \in Int
         /\ Left(src) < 0 => CopyCount(src, dst) = Left(src)
         /\ Left(src) >= 0 => /\ CopyCount(src, dst) \in Nat
                              /\ CopyCount(src, dst) =< Left(src)
         /\ Left(src) >= 0 /\ Sane(dst) => CopyCount(src, dst) =< Left(dst)
         /\ Left(src) >= 0 /\ ~Sane(dst) => CopyCount(src, dst) = 0
<1>1. PayloadSize \in Nat \ {0}
  BY PayloadSizeAssumption
<1>2. PICK r \in Int : r = Room(src, dst)
  BY DEF Room, Left
<1>3. /\ r >= 0
      /\ Left(src) < 0 => r = 0
      /\ ~Sane(dst) => r = 0
      /\ Sane(dst) => r =< Left(dst)
  BY <1>2 DEF Room, Insane, Left, Sane
<1>4. Left(src) \in Int /\ Left(dst) \in Int
  BY DEF Left
<1>5. CopyCount(src, dst) = IF (IF r > Left(src) THEN Left(src) ELSE r) > PayloadSize
                            THEN 0 ELSE IF r > Left(src) THEN Left(src) ELSE r
  BY <1>2 DEF CopyCount, Clipped
<1> QED
  BY <1>1, <1>3, <1>4, <1>5

\* Bytes go to reader p, or come from writer p.
MovesIn(p, n) ==
    /\ ConnOk /\ pb[p].trap = "aRdCmd" /\ n = CopyCount(readStorage, pb[p])
    /\ Counted1(p, n)
    /\ readStorage' = Advance(readStorage, n)
    /\ delivered' = delivered \o
          Tagged(p, SubSeq(readPayload, readStorage.ioActCount + 1,
                                        readStorage.ioActCount + n))
    /\ bytes' = [bytes EXCEPT !.bytesRead = @ + Counted(p)]
    /\ readPayload' = readPayload /\ readExtraAvail' = readExtraAvail
    /\ fetched' = fetched /\ taken' = taken /\ accepted' = accepted
    /\ WriteKept
MovesOut(p, n) ==
    /\ ConnOk /\ pb[p].trap = "aWrCmd" /\ n = CopyCount(pb[p], writeStorage)
    /\ Counted1(p, n)
    /\ writeStorage' = Advance(writeStorage, n)
    /\ writePayload' = Overlay(writePayload, writeStorage.ioActCount,
                               BytesOf(p, pb[p].ioActCount, n))
    /\ accepted' = accepted \o BytesOf(p, pb[p].ioActCount, n)
    /\ bytes' = [bytes EXCEPT !.bytesWritten = @ + Counted(p)]
    /\ writeLength' = writeLength /\ sent' = sent /\ txDiscarded' = txDiscarded
    /\ delivered' = delivered
    /\ ReadKept

LEMMA MoveKinds ==
  ASSUME PbShape, DataInv, NEW p \in Pbs, Moves(p)
  PROVE  \/ Silent
         \/ \E n \in Int : MovesIn(p, n) \/ MovesOut(p, n)
<1>1. PICK r : Transfer(p, r)
  BY DEF Moves
<1>2. /\ pb[p].ioReqCount \in Int /\ pb[p].ioActCount \in Int
      /\ readStorage.ioReqCount \in Int /\ readStorage.ioActCount \in Int
      /\ writeStorage.ioReqCount \in Int /\ writeStorage.ioActCount \in Int
  BY PayloadSizeAssumption DEF DataInv, PbCore, ReadSide, WriteSide
<1>3. DiskKept /\ CallsKept
  BY DEF Moves
<1>4. CASE TransferFails(p, r)
  <2>1. Counted1(p, 0)
    BY <1>4, CoreMoved DEF TransferFails
  <2>2. CoreKept
    BY <1>2, <2>1 DEF Counted1, CoreKept, SameCore
  <2> QED
    BY <1>1, <1>3, <1>4, <2>2 DEF Silent, TransferFails, Transfer, ReadKept, WriteKept,
      FlowKept, flowVars
<1>5. CASE TransferIn(p, r)
  <2>1. PICK n : n = CopyCount(readStorage, pb[p])
    OBVIOUS
  <2>2. n \in Int
    BY <1>2, <2>1, CopyBounds
  <2>3. Counted1(p, n)
    BY <1>5, <2>1, CoreMoved DEF TransferIn
  <2>4. MovesIn(p, n)
    BY <1>1, <1>5, <2>1, <2>3 DEF MovesIn, TransferIn, Transfer, WriteKept
  <2> QED
    BY <2>2, <2>4
<1>6. CASE TransferOut(p, r)
  <2>1. PICK n : n = CopyCount(pb[p], writeStorage)
    OBVIOUS
  <2>2. n \in Int
    BY <1>2, <2>1, CopyBounds
  <2>3. Counted1(p, n)
    BY <1>6, <2>1, CoreMoved DEF TransferOut
  <2>4. MovesOut(p, n)
    BY <1>1, <1>6, <2>1, <2>3 DEF MovesOut, TransferOut, Transfer, ReadKept
  <2> QED
    BY <2>2, <2>4
<1> QED
  BY <1>1, <1>4, <1>5, <1>6 DEF Transfer

\* What a transfer to a reader moves is in the buffer.
LEMMA InBounds ==
  ASSUME PbShape, DataInv, NEW p \in Pbs, NEW n \in Int, MovesIn(p, n)
  PROVE  /\ readStorage'.ioReqCount = readStorage.ioReqCount
         /\ readStorage'.ioActCount = readStorage.ioActCount + n
         /\ readStorage' = [ioReqCount |-> readStorage'.ioReqCount,
                            ioActCount |-> readStorage'.ioActCount]
         /\ readStorage.ioActCount + n \in Nat
         /\ readStorage.ioActCount + n =< readStorage.ioReqCount
         /\ readStorage.ioActCount + n =< Len(readPayload)
         /\ readStorage.ioActCount =< readStorage.ioReqCount => n >= 0
         /\ n >= 0 /\ Sane(pb[p]) => n =< Left(pb[p])
         /\ SubSeq(readPayload, readStorage.ioActCount + 1, readStorage.ioActCount + n)
              \in Seq(Nat)
         /\ Len(SubSeq(readPayload, readStorage.ioActCount + 1,
                                    readStorage.ioActCount + n))
              = IF n >= 0 THEN n ELSE 0
<1> DEFINE a == readStorage.ioActCount
           b == readStorage.ioReqCount
<1>1. /\ a \in Nat /\ b \in Nat /\ b =< Len(readPayload) /\ Len(readPayload) \in Nat
      /\ readPayload \in Seq(Nat)
      /\ readStorage = [ioReqCount |-> b, ioActCount |-> a]
  BY LenProperties DEF DataInv, ReadSide
<1>2. pb[p].ioReqCount \in Int /\ pb[p].ioActCount \in Int
  BY DEF DataInv, PbCore
<1>3. n = CopyCount(readStorage, pb[p])
  BY DEF MovesIn
<1>4. /\ b - a < 0 => n = b - a
      /\ b - a >= 0 => n >= 0 /\ n =< b - a
      /\ b - a >= 0 /\ Sane(pb[p]) => n =< Left(pb[p])
      /\ b - a >= 0 /\ ~Sane(pb[p]) => n = 0
  BY <1>1, <1>2, <1>3, CopyBounds DEF Left
<1>5. readStorage' = [ioReqCount |-> b, ioActCount |-> a + n]
  BY <1>1 DEF MovesIn, Advance
<1> HIDE DEF a, b
<1>6. a + n \in Nat /\ a + n =< b /\ a + n =< Len(readPayload) /\ (a =< b => n >= 0)
  BY <1>1, <1>4
<1>7. n >= 0 /\ Sane(pb[p]) => n =< Left(pb[p])
  BY <1>1, <1>4
<1>8. /\ SubSeq(readPayload, a + 1, a + n) \in Seq(Nat)
      /\ Len(SubSeq(readPayload, a + 1, a + n)) = IF n >= 0 THEN n ELSE 0
  <2>1. /\ SubSeq(readPayload, a + 1, a + n) \in Seq(Nat)
        /\ Len(SubSeq(readPayload, a + 1, a + n))
              = IF a + 1 =< a + n THEN (a + n) - (a + 1) + 1 ELSE 0
    <3>1. a + 1 \in Int /\ a + n \in Int /\ 1 =< a + 1 /\ a + n =< Len(readPayload)
      BY <1>1, <1>6
    <3> QED
      BY <1>1, <3>1, PartOf
  <2> QED
    BY <1>1, <2>1
<1> QED
  BY <1>5, <1>6, <1>7, <1>8 DEF a, b

\* What a transfer from a writer moves fits into the buffer.
LEMMA OutBounds ==
  ASSUME PbShape, DataInv, NEW p \in Pbs, NEW n \in Int, MovesOut(p, n)
  PROVE  /\ writeStorage'.ioReqCount = writeStorage.ioReqCount
         /\ writeStorage'.ioActCount = writeStorage.ioActCount + n
         /\ writeStorage' = [ioReqCount |-> writeStorage'.ioReqCount,
                             ioActCount |-> writeStorage'.ioActCount]
         /\ n \in Nat /\ n =< Left(writeStorage) /\ n =< Left(pb[p])
         /\ pb[p].ioActCount \in Nat /\ Sane(pb[p])
         /\ BytesOf(p, pb[p].ioActCount, n) \in Seq(Bytes)
         /\ Len(BytesOf(p, pb[p].ioActCount, n)) = n
<1> DEFINE a == writeStorage.ioActCount
           b == writeStorage.ioReqCount
<1>1. /\ a \in Nat /\ b \in Nat /\ a =< b
      /\ writeStorage = [ioReqCount |-> b, ioActCount |-> a]
  BY PayloadSizeAssumption DEF DataInv, WriteSide
<1>2. pb[p].ioReqCount \in Int /\ pb[p].ioActCount \in Int /\ Sane(pb[p])
  BY DEF DataInv, PbCore, MovesOut
<1>3. n = CopyCount(pb[p], writeStorage)
  BY DEF MovesOut
<1>4. Left(pb[p]) >= 0 /\ Left(pb[p]) \in Int /\ pb[p].ioActCount \in Nat
  BY <1>2 DEF Left, Sane
<1>5. Sane(writeStorage)
  BY <1>1 DEF Sane
<1>6. n \in Nat /\ n =< Left(writeStorage) /\ n =< Left(pb[p])
  BY <1>1, <1>2, <1>3, <1>4, <1>5, CopyBounds
<1>7. writeStorage' = [ioReqCount |-> b, ioActCount |-> a + n]
  BY <1>1 DEF MovesOut, Advance
<1>8. /\ BytesOf(p, pb[p].ioActCount, n) \in Seq(Bytes)
      /\ Len(BytesOf(p, pb[p].ioActCount, n)) = n
  BY <1>4, <1>6, BytesOfLaw
<1> QED
  BY <1>2, <1>4, <1>6, <1>7, <1>8

-----------------------------------------------------------------------------
\* The counts and types are kept.

LEMMA DataSilent ==
  ASSUME DataInv, Silent, main.pc = "open3" => main'.pc = "open3"
  PROVE  DataInv'
<1>1. PbCore'
  BY DEF DataInv, PbCore, Silent, CoreKept, SameCore, Sane
<1>2. ReadSide'
  BY DEF DataInv, ReadSide, Silent, ReadKept, FlowKept
<1>3. WriteSide'
  BY DEF DataInv, WriteSide, Silent, WriteKept, FlowKept
<1>4. DiskSide' /\ Statistics'
  BY DEF DataInv, DiskSide, Statistics, Silent, DiskKept, FlowKept
<1> QED
  BY <1>1, <1>2, <1>3, <1>4 DEF DataInv

LEMMA DataIssues ==
  ASSUME PbShape, DataInv, NEW p \in Pbs, NEW c \in Calls \cup IrqCalls, NEW n \in Sizes,
         Issues(p, c, n), main.pc = "open3" => main'.pc = "open3"
  PROVE  DataInv'
<1>1. c[2] \in Traps /\ n \in Nat
  BY CallsAssumption, SizesAssumption
<1>2. PbCore'
  BY <1>1, CoreIssued DEF Issues, DataInv, PbCore, Sane
<1>3. ReadSide'
  BY DEF DataInv, ReadSide, Issues, ReadKept, FlowKept
<1>4. WriteSide'
  BY DEF DataInv, WriteSide, Issues, WriteKept, FlowKept
<1>5. DiskSide' /\ Statistics'
  BY DEF DataInv, DiskSide, Statistics, Issues, DiskKept, FlowKept
<1> QED
  BY <1>2, <1>3, <1>4, <1>5 DEF DataInv

LEMMA DataMovesIn ==
  ASSUME PbShape, DataInv, NEW p \in Pbs, NEW n \in Int, MovesIn(p, n), DiskKept,
         main.pc = "open3" => main'.pc = "open3"
  PROVE  DataInv'
<1>1. PbCore'
  BY DEF DataInv, PbCore, MovesIn, Counted1, SameCore, Sane
<1>2. ReadSide'
  <2>1. /\ readPayload' = readPayload /\ readExtraAvail' = readExtraAvail
        /\ fetched' = fetched /\ taken' = taken
    BY DEF MovesIn
  <2>2. delivered' \in Seq(Bytes)
    <3>1. PICK s : s = SubSeq(readPayload, readStorage.ioActCount + 1,
                                           readStorage.ioActCount + n)
      OBVIOUS
    <3>2. s \in Seq(Nat)
      BY <3>1, InBounds
    <3>3. Tagged(p, s) \in Seq(Bytes)
      BY <3>2, TaggedLaw
    <3>4. delivered' = delivered \o Tagged(p, s)
      BY <3>1 DEF MovesIn
    <3> QED
      BY <3>3, <3>4, Joined DEF DataInv, ReadSide
  <2>3. /\ readStorage'.ioReqCount = readStorage.ioReqCount
        /\ readStorage' = [ioReqCount |-> readStorage'.ioReqCount,
                           ioActCount |-> readStorage'.ioActCount]
        /\ readStorage'.ioActCount \in Nat
        /\ readStorage'.ioActCount =< readStorage.ioReqCount
    BY InBounds
  <2> QED
    BY <2>1, <2>2, <2>3 DEF DataInv, ReadSide
<1>3. WriteSide'
  BY DEF DataInv, WriteSide, MovesIn, WriteKept
<1>4. DiskSide'
  BY DEF DataInv, DiskSide, DiskKept
<1>5. Statistics'
  <2>1. Counted(p) \in Nat
    BY DEF Counted, DataInv, PbCore
  <2> QED
    BY <2>1 DEF DataInv, Statistics, MovesIn
<1> QED
  BY <1>1, <1>2, <1>3, <1>4, <1>5 DEF DataInv

LEMMA DataMovesOut ==
  ASSUME PbShape, DataInv, NEW p \in Pbs, NEW n \in Int, MovesOut(p, n), DiskKept,
         main.pc = "open3" => main'.pc = "open3"
  PROVE  DataInv'
<1>0. /\ n \in Nat /\ n =< Left(writeStorage) /\ n =< Left(pb[p])
      /\ pb[p].ioActCount \in Nat /\ Sane(pb[p])
      /\ writeStorage'.ioReqCount = writeStorage.ioReqCount
      /\ writeStorage'.ioActCount = writeStorage.ioActCount + n
      /\ writeStorage' = [ioReqCount |-> writeStorage'.ioReqCount,
                          ioActCount |-> writeStorage'.ioActCount]
  BY OutBounds
<1>d. PICK d : d = BytesOf(p, pb[p].ioActCount, n)
  OBVIOUS
<1>1. d \in Seq(Bytes) /\ Len(d) = n
  BY <1>d, OutBounds
<1>2. PbCore'
  <2> SUFFICES ASSUME NEW q \in Pbs
               PROVE  /\ pb'[q].trap \in Traps /\ pb'[q].ioReqCount \in Nat
                      /\ pb'[q].ioActCount \in Int
                      /\ pb'[q].trap = "aWrCmd" => Sane(pb'[q])
    BY DEF PbCore
  <2>1. CASE q = p
    <3>1. /\ pb'[p].trap = pb[p].trap /\ pb'[p].ioReqCount = pb[p].ioReqCount
          /\ pb'[p].ioActCount = pb[p].ioActCount + n
      BY DEF MovesOut, Counted1
    <3> QED
      BY <1>0, <2>1, <3>1 DEF DataInv, PbCore, Sane, Left
  <2>2. CASE q # p
    BY <2>2 DEF MovesOut, Counted1, SameCore, DataInv, PbCore, Sane
  <2> QED
    BY <2>1, <2>2
<1>3. ReadSide'
  BY DEF DataInv, ReadSide, MovesOut, ReadKept
<1>4. WriteSide'
  <2>1. writeStorage.ioActCount \in Nat /\ writeStorage.ioActCount =< Len(writePayload)
        /\ writePayload \in Seq(Bytes) /\ writeLength \in Nat
        /\ Len(writePayload) \in Nat /\ writeLength =< Len(writePayload)
    BY LenProperties DEF DataInv, WriteSide
  <2>2. /\ writePayload' \in Seq(Bytes)
        /\ Len(writePayload') >= Len(writePayload)
        /\ Len(writePayload') >= writeStorage.ioActCount + n
    BY <1>d, <1>1, <2>1, OverlayLaw DEF MovesOut
  <2>3. accepted' \in Seq(Bytes)
    BY <1>d, <1>1, Joined DEF MovesOut, DataInv, WriteSide
  <2>4. writeLength' = writeLength /\ sent' = sent /\ txDiscarded' = txDiscarded
    BY DEF MovesOut
  <2>5. Len(writePayload') \in Nat
    BY <2>2, LenProperties
  <2>6. writeLength' \in Nat /\ writeLength' =< Len(writePayload')
    BY <2>1, <2>2, <2>4, <2>5
  <2>7. /\ writeStorage'.ioReqCount \in {0, PayloadSize} /\ writeStorage'.ioActCount \in Nat
        /\ writeStorage'.ioActCount =< writeStorage'.ioReqCount
        /\ writeStorage'.ioActCount =< Len(writePayload')
    BY <1>0, <2>1, <2>2, <2>5, PayloadSizeAssumption DEF DataInv, WriteSide, Left
  <2> QED
    BY <1>0, <2>2, <2>3, <2>4, <2>6, <2>7 DEF DataInv, WriteSide
<1>5. DiskSide'
  BY DEF DataInv, DiskSide, DiskKept
<1>6. Statistics'
  <2>1. Counted(p) \in Nat
    BY DEF Counted, DataInv, PbCore
  <2> QED
    BY <2>1 DEF DataInv, Statistics, MovesOut
<1> QED
  BY <1>2, <1>3, <1>4, <1>5, <1>6 DEF DataInv

\* The bytes that come with a reply.
LEMMA FetchLaw ==
  ASSUME DataInv, NEW avail \in Nat, NEW n, n = FetchCount(avail),
         NEW data, data = [i \in 1 .. n |-> taken + i]
  PROVE  /\ n \in Nat /\ n =< PayloadSize /\ ExtraAvail(avail) \in Nat
         /\ data \in Seq(Nat) /\ Len(data) = n
<1>1. n \in Nat /\ n =< PayloadSize /\ ExtraAvail(avail) \in Nat
  BY PayloadSizeAssumption DEF FetchCount, ExtraAvail, Overflows
<1>2. taken \in Nat
  BY DEF DataInv, ReadSide
<1>3. data \in [1 .. n -> Nat]
  BY <1>1, <1>2
<1> QED
  BY <1>1, <1>3, Listed

LEMMA DataDevice ==
  ASSUME MainShape, DataInv, DeviceSteps,
         main.pc = "open3" => main'.pc = "open3" \/ OpenReadAct
  PROVE  DataInv'
<1> USE DEF vars, portVars, callVars, infoVars, readVars, writeVars, diskVars, syncVars,
            flowVars
<1>1. pb' = pb
  BY DEF DeviceSteps, VblFlush, VblPoll, WriteDone, WriteFails, ReadDone, ReadFails,
    OpenConnResult, OpenReadReq, OpenReadAct, OpenWrite
<1>2. PbCore'
  BY <1>1 DEF DataInv, PbCore
<1>3. ReadSide'
  <2>1. CASE ReadDone
    <3>1. PICK avail \in readExtraAvail .. MaxIn - taken :
             LET n == FetchCount(avail)
                 data == [i \in 1 .. n |-> taken + i]
             IN  /\ readStorage' = Filled(n)
                 /\ readExtraAvail' = ExtraAvail(avail)
                 /\ readPayload' = Overlay(readPayload, 0, data)
                 /\ fetched' = fetched \o data
                 /\ taken' = taken + n
      BY <2>1 DEF ReadDone
    <3>2. PICK n : n = FetchCount(avail)
      OBVIOUS
    <3>3. PICK data : data = [i \in 1 .. n |-> taken + i]
      OBVIOUS
    <3>4. /\ readStorage' = Filled(n) /\ readExtraAvail' = ExtraAvail(avail)
          /\ readPayload' = Overlay(readPayload, 0, data)
          /\ fetched' = fetched \o data /\ taken' = taken + n
          /\ delivered' = delivered
      BY <2>1, <3>1, <3>2, <3>3 DEF ReadDone
    <3>5. avail \in Nat
      BY DEF DataInv, ReadSide
    <3>6. /\ n \in Nat /\ n =< PayloadSize /\ ExtraAvail(avail) \in Nat
          /\ data \in Seq(Nat) /\ Len(data) = n
      BY <3>2, <3>3, <3>5, FetchLaw
    <3>7. /\ readPayload \in Seq(Nat) /\ Len(readPayload) \in Nat
          /\ fetched \in Seq(Nat) /\ taken \in Nat /\ delivered \in Seq(Bytes)
      BY LenProperties DEF DataInv, ReadSide
    <3>8. readPayload' \in Seq(Nat) /\ Len(readPayload') >= n
      <4>1. /\ Overlay(readPayload, 0, data) \in Seq(Nat)
            /\ Len(Overlay(readPayload, 0, data)) >= 0 + Len(data)
        BY <3>6, <3>7, OverlayLaw
      <4> QED
        BY <3>4, <3>6, <4>1
    <3>9. fetched' \in Seq(Nat)
      BY <3>4, <3>6, <3>7, Joined
    <3>10. readStorage' = [ioReqCount |-> n, ioActCount |-> 0]
      BY <3>4 DEF Filled
    <3>11. n =< Len(readPayload') /\ 0 =< n /\ taken' \in Nat
      <4>1. Len(readPayload') \in Nat
        BY <3>8, LenProperties
      <4> QED
        BY <3>4, <3>6, <3>7, <3>8, <4>1
    <3> QED
      BY <3>4, <3>6, <3>7, <3>8, <3>9, <3>10, <3>11 DEF ReadSide
  <2>2. CASE OpenReadReq
    <3>1. readStorage' = [readStorage EXCEPT !.ioReqCount = 0] /\ fetched' = Untagged(delivered)
          /\ readPayload' = readPayload /\ readExtraAvail' = readExtraAvail
          /\ taken' = taken /\ delivered' = delivered /\ main.pc = "open2"
          /\ main' = [main EXCEPT !.pc = "open3"]
      BY <2>2 DEF OpenReadReq, MainAt, Goto
    <3>2. main'.pc = "open3" \/ main'.pc = "open2"
      BY <3>1
    <3>3. fetched' \in Seq(Nat)
      BY <3>1, UntaggedLaw DEF DataInv, ReadSide
    <3>4. readStorage' = [ioReqCount |-> 0, ioActCount |-> readStorage.ioActCount]
      BY <3>1 DEF DataInv, ReadSide
    <3>5. Len(readPayload) \in Nat /\ PayloadSize \in Nat
      BY LenProperties, PayloadSizeAssumption DEF DataInv, ReadSide
    <3>6. /\ readStorage.ioActCount \in Nat /\ readPayload \in Seq(Nat)
          /\ readExtraAvail \in Nat /\ taken \in Nat /\ delivered \in Seq(Bytes)
      BY DEF DataInv, ReadSide
    <3>7. main'.pc = "open3"
      BY <3>1, <3>2 DEF MainShape
    <3> QED
      <4>1. /\ readStorage'.ioReqCount = 0
            /\ readStorage'.ioActCount = readStorage.ioActCount
        BY <3>4
      <4>2. 0 =< PayloadSize /\ 0 =< Len(readPayload)
        BY <3>5
      <4>3. /\ readPayload' = readPayload /\ readExtraAvail' = readExtraAvail
            /\ taken' = taken /\ delivered' = delivered
        BY <3>1
      <4> QED
        BY <3>3, <3>4, <3>6, <3>7, <4>1, <4>2, <4>3 DEF ReadSide
  <2>3. CASE OpenReadAct
    <3>1. readStorage' = [ioReqCount |-> readStorage.ioReqCount, ioActCount |-> 0]
          /\ readPayload' = readPayload /\ readExtraAvail' = readExtraAvail
          /\ taken' = taken /\ delivered' = delivered /\ fetched' = fetched
      BY <2>3 DEF OpenReadAct, DataInv, ReadSide
    <3> QED
      BY <3>1 DEF DataInv, ReadSide
  <2>4. CASE ~(ReadDone \/ OpenReadReq \/ OpenReadAct)
    <3>1. ReadKept /\ delivered' = delivered
      BY <2>4 DEF DeviceSteps, VblFlush, VblPoll, WriteDone, WriteFails, ReadFails,
        OpenConnResult, OpenWrite, ReadKept
    <3> QED
      BY <2>4, <3>1 DEF DataInv, ReadSide, ReadKept
  <2> QED
    BY <2>1, <2>2, <2>3, <2>4
<1>4. WriteSide'
  <2>0. /\ writePayload \in Seq(Bytes) /\ Len(writePayload) \in Nat
        /\ writeLength \in Nat /\ writeLength =< Len(writePayload)
        /\ PayloadSize \in Nat /\ sent \in Seq(Bytes)
        /\ SubSeq(writePayload, 1, writeLength) \in Seq(Bytes)
    <3>1. writePayload \in Seq(Bytes) /\ Len(writePayload) \in Nat
      BY LenProperties DEF DataInv, WriteSide
    <3>2. writeLength \in Int /\ writeLength =< Len(writePayload)
      BY DEF DataInv, WriteSide
    <3> QED
      BY <3>1, <3>2, PartOf, PayloadSizeAssumption DEF DataInv, WriteSide
  <2>1. CASE VblFlush
    <3>1. /\ writeLength' = writeStorage.ioActCount /\ writePayload' = writePayload
          /\ writeStorage' = writeStorage /\ sent' = sent /\ accepted' = accepted
          /\ txDiscarded' = txDiscarded
      BY <2>1 DEF VblFlush
    <3> QED
      BY <3>1 DEF DataInv, WriteSide
  <2>2. CASE WriteDone \/ WriteFails
    <3>1. /\ writeLength' = writeLength /\ writePayload' = writePayload
          /\ writeStorage' \in {writeStorage, Emptied} /\ accepted' = accepted
          /\ txDiscarded' = txDiscarded
          /\ sent' \in {sent, sent \o SubSeq(writePayload, 1, writeLength)}
      BY <2>2 DEF WriteDone, WriteFails
    <3>2. sent' \in Seq(Bytes)
      BY <2>0, <3>1, Joined
    <3>3. Emptied = [ioReqCount |-> writeStorage.ioReqCount, ioActCount |-> 0]
      BY DEF Emptied, DataInv, WriteSide
    <3>4. CASE writeStorage' = writeStorage
      BY <3>1, <3>2, <3>4 DEF DataInv, WriteSide
    <3>5. CASE writeStorage' = Emptied
      <4>1. writeStorage.ioReqCount \in {0, PayloadSize}
        BY DEF DataInv, WriteSide
      <4> QED
        BY <2>0, <3>1, <3>2, <3>3, <3>5, <4>1 DEF DataInv, WriteSide
    <3> QED
      BY <3>1, <3>4, <3>5
  <2>3. CASE OpenWrite
    <3>1. /\ writeStorage' = [ioReqCount |-> PayloadSize, ioActCount |-> 0]
          /\ txDiscarded' = (txDiscarded \/ writeStorage.ioActCount > 0)
          /\ writePayload' = writePayload /\ writeLength' = writeLength
          /\ sent' = sent /\ accepted' = accepted
      BY <2>3 DEF OpenWrite
    <3>2. txDiscarded' \in BOOLEAN
      BY <3>1 DEF DataInv, WriteSide
    <3> QED
      BY <2>0, <3>1, <3>2 DEF DataInv, WriteSide
  <2>4. CASE VblPoll \/ ReadDone \/ ReadFails \/ OpenConnResult \/ OpenReadReq \/ OpenReadAct
    <3>1. WriteKept /\ accepted' = accepted
      BY <2>4 DEF VblPoll, ReadDone, ReadFails, OpenConnResult, OpenReadReq, OpenReadAct,
        WriteKept
    <3> QED
      BY <3>1 DEF DataInv, WriteSide, WriteKept
  <2> QED
    BY <2>1, <2>2, <2>3, <2>4 DEF DeviceSteps
<1>5. DiskSide'
  BY DEF DataInv, DiskSide, DeviceSteps, VblFlush, VblPoll, WriteDone, WriteFails, ReadDone,
    ReadFails, OpenConnResult, OpenReadReq, OpenReadAct, OpenWrite, StartWakeUp,
    Results, Codes, noErr, ioErr, wrongTag, ioInProgress
<1>6. Statistics'
  BY DEF DataInv, Statistics, DeviceSteps, VblFlush, VblPoll, WriteDone, WriteFails, ReadDone,
    ReadFails, OpenConnResult, OpenReadReq, OpenReadAct, OpenWrite
<1> QED
  BY <1>2, <1>3, <1>4, <1>5, <1>6 DEF DataInv

LEMMA DataNext ==
  ASSUME MainShape, PbShape, DataInv, StepKinds,
         main.pc = "open3" => main'.pc = "open3" \/ OpenReadAct
  PROVE  DataInv'
<1>1. CASE DeviceSteps
  BY <1>1, DataDevice
<1>2. CASE ~DeviceSteps
  <2>0. main.pc = "open3" => main'.pc = "open3"
    BY <1>2 DEF DeviceSteps
  <2>1. CASE Silent
    BY <2>0, <2>1, DataSilent
  <2>2. ASSUME NEW p \in Pbs, NEW c \in Calls \cup IrqCalls, NEW n \in Sizes, Issues(p, c, n)
        PROVE  DataInv'
    BY <2>0, <2>2, DataIssues
  <2>3. ASSUME NEW p \in Pbs, Moves(p)
        PROVE  DataInv'
    <3>1. DiskKept
      BY <2>3 DEF Moves
    <3> QED
      BY <2>0, <2>3, <3>1, MoveKinds, DataSilent, DataMovesIn, DataMovesOut
  <2>4. ASSUME NEW p \in Pbs, NEW r \in Int, Completes(p, r)
        PROVE  DataInv'
    <3>1. CoreKept
      BY <2>4, CoreSame DEF Completes, IODone
    <3>2. PbCore'
      BY <3>1 DEF DataInv, PbCore, CoreKept, SameCore, Sane
    <3>3. ReadSide'
      BY <2>0, <2>4 DEF DataInv, ReadSide, Completes, ReadKept, FlowKept
    <3>4. WriteSide'
      BY <2>4 DEF DataInv, WriteSide, Completes, WriteKept, FlowKept
    <3>5. DiskSide' /\ Statistics'
      BY <2>4 DEF DataInv, DiskSide, Statistics, Completes, DiskKept, FlowKept
    <3> QED
      BY <3>2, <3>3, <3>4, <3>5 DEF DataInv
  <2> QED
    BY <1>2, <2>1, <2>2, <2>3, <2>4 DEF StepKinds
<1> QED
  BY <1>1, <1>2

-----------------------------------------------------------------------------
\* Calls that were not made yet, that wait, and that are finished.

NotMade(p) == /\ pb[p].trap = "ctl" /\ pb[p].ioReqCount = 0 /\ pb[p].ioActCount = 0
              /\ outcome[p] = None
Reports ==
    /\ outcome \in [Pbs -> Codes \cup {None}]
    /\ \A p \in Pbs : ~Issued(p) => NotMade(p)
    /\ \A d \in Drivers : \A k \in 1 .. Len(queue[d]) : outcome[queue[d][k]] = None
    /\ CompletedFully

\* A call at the head of its queue is not finished.
LEMMA HeadOpen ==
  ASSUME Inv, Reports, NEW p, Mine(p), AtHead(p)
  PROVE  outcome[p] = None /\ Issued(p)
<1>1. p \in Pbs /\ pb[p].drv \in Drivers /\ pb[p].drv # None
  BY DriversAssumption DEF Mine
<1>2. PICK s : s = queue[pb[p].drv]
  OBVIOUS
<1>3. s \in Seq(Pbs) /\ s # <<>> /\ Head(s) = p
  BY <1>1, <1>2 DEF AtHead, Inv, CallInv, Queues
<1>4. s[1] = p /\ 1 \in 1 .. Len(s)
  BY <1>3, NextUp
<1> QED
  BY <1>1, <1>2, <1>4 DEF Reports, Issued

\* Whoever moves or completes a call has it at the head of its queue.
LEMMA WorkedOn ==
  ASSUME Inv, NEW p \in Pbs,
         \/ Moves(p)
         \/ \E r \in Int : Completes(p, r)
  PROVE  p \in InMain \cup InIrq /\ Mine(p) /\ AtHead(p)
<1>1. p \in InMain \cup InIrq
  BY DEF Moves, Completes, InMain, InIrq
<1> QED
  BY <1>1, InSets DEF Inv, CallInv, ParkedAreHeads

\* The device does not touch the calls.
LEMMA DeviceCalls ==
  ASSUME DeviceSteps
  PROVE  pb' = pb /\ CallsKept
BY DEF DeviceSteps, VblFlush, VblPoll, WriteDone, WriteFails, ReadDone, ReadFails,
  OpenConnResult, OpenReadReq, OpenReadAct, OpenWrite, CallsKept, callVars, portVars

\* A call that was made keeps its driver, kind and size; its count changes
\* only when it is worked on with the buffers.
LEMMA CallKept ==
  ASSUME Inv, DataInv, StepKinds, NEW q \in Pbs, Issued(q)
  PROVE  /\ pb'[q].drv = pb[q].drv /\ pb'[q].trap = pb[q].trap
         /\ pb'[q].ioReqCount = pb[q].ioReqCount
         /\ ~Moves(q) => pb'[q].ioActCount = pb[q].ioActCount
<1>0. PbShape
  BY DEF Inv, CallInv
<1>1. CASE Silent
  BY <1>1 DEF Silent, CoreKept, SameCore
<1>2. ASSUME NEW p \in Pbs, NEW c \in Calls \cup IrqCalls, NEW n \in Sizes, Issues(p, c, n)
      PROVE  SameCore(q)
  BY <1>0, <1>2, CoreIssued DEF Issues, Enqueue, SameCore
<1>3. ASSUME NEW p \in Pbs, Moves(p), ~Silent
      PROVE  /\ pb'[q].drv = pb[q].drv /\ pb'[q].trap = pb[q].trap
             /\ pb'[q].ioReqCount = pb[q].ioReqCount
             /\ ~Moves(q) => pb'[q].ioActCount = pb[q].ioActCount
  <2>1. PICK n \in Int : Counted1(p, n)
    BY <1>0, <1>3, MoveKinds DEF MovesIn, MovesOut
  <2> QED
    BY <1>3, <2>1 DEF Counted1, SameCore
<1>4. ASSUME NEW p \in Pbs, NEW r \in Int, Completes(p, r)
      PROVE  SameCore(q)
  BY <1>0, <1>4, CoreSame DEF Completes, IODone, CoreKept
<1>5. CASE DeviceSteps
  BY <1>5, DeviceCalls
<1> QED
  BY <1>1, <1>2, <1>3, <1>4, <1>5 DEF StepKinds, SameCore

\* An error stays until a port is opened.
LEMMA ErrorStays ==
  ASSUME Inv, DataInv, StepKinds, connResult < 0, ~OpenConnResult
  PROVE  connResult' = connResult
<1>1. connResult # noErr /\ connResult # ioInProgress /\ io = "none"
  BY DEF DataInv, DiskSide, noErr, ioInProgress
<1>2. CASE DeviceSteps
  BY <1>1, <1>2 DEF DeviceSteps, VblFlush, VblPoll, WriteDone, WriteFails, ReadDone,
    ReadFails, OpenReadReq, OpenReadAct, OpenWrite, ConnOk, diskVars
<1>3. CASE ~DeviceSteps
  BY <1>3 DEF StepKinds, Silent, Issues, Moves, Completes, DiskKept
<1> QED
  BY <1>2, <1>3

LEMMA ReportsNext ==
  ASSUME Inv, DataInv, MainCourse, IrqCourse, Reports, StepKinds
  PROVE  Reports'
<1>0. PbShape /\ Queues
  BY DEF Inv, CallInv
<1>1. CASE Silent \/ DeviceSteps
  <2>1. queue' = queue /\ outcome' = outcome /\ CoreKept
    BY <1>0, <1>1, DeviceCalls, CoreSame DEF Silent, CallsKept
  <2> QED
    BY <2>1 DEF Reports, CompletedFully, NotMade, Issued, CoreKept, SameCore
<1>2. ASSUME NEW p \in Pbs, NEW c \in Calls \cup IrqCalls, NEW n \in Sizes, Issues(p, c, n)
      PROVE  Reports'
  <2>1. c[1] \in Drivers
    BY CallsAssumption
  <2>2. /\ ~Issued(p) /\ outcome' = outcome
        /\ queue' = [queue EXCEPT ![c[1]] = Append(queue[c[1]], p)]
        /\ pb'[p].drv = c[1]
        /\ \A q \in Pbs : q # p => pb'[q] = pb[q]
    BY <1>0, <1>2, CoreIssued DEF Issues, Enqueue, QueueWith
  <2>3. outcome[p] = None /\ Issued(p)'
    BY <2>1, <2>2, DriversAssumption DEF Reports, NotMade, Issued
  <2>4. \A d \in Drivers : \A k \in 1 .. Len(queue'[d]) : outcome'[queue'[d][k]] = None
    <3> TAKE d \in Drivers
    <3>1. CASE d # c[1]
      BY <1>0, <2>1, <2>2, <3>1 DEF Queues, Reports
    <3>2. CASE d = c[1]
      <4>1. queue[d] \in Seq(Pbs) /\ queue'[d] = Append(queue[d], p)
        BY <1>0, <2>1, <2>2, <3>2 DEF Queues
      <4>2. PICK s : s = queue[d]
        OBVIOUS
      <4>3. PICK t : t = Append(s, p)
        OBVIOUS
      <4>4. \A k \in 1 .. Len(t) : t[k] = p \/ (k \in 1 .. Len(s) /\ t[k] = s[k])
        BY <4>1, <4>2, <4>3, Behind
      <4>5. \A k \in 1 .. Len(s) : outcome[s[k]] = None
        BY <4>2 DEF Reports
      <4> QED
        BY <2>2, <2>3, <4>1, <4>2, <4>3, <4>4, <4>5
    <3> QED
      BY <3>1, <3>2
  <2>5. CompletedFully'
    BY <2>2, <2>3, NoneAssumption DEF CompletedFully, Reports
  <2>6. \A q \in Pbs : ~Issued(q)' => NotMade(q)'
    BY <2>2, <2>3 DEF Reports, NotMade, Issued
  <2> QED
    BY <2>2, <2>4, <2>5, <2>6 DEF Reports
<1>3. ASSUME NEW p \in Pbs, Moves(p), ~Silent
      PROVE  Reports'
  <2>1. Mine(p) /\ AtHead(p)
    BY <1>3, WorkedOn
  <2>2. outcome[p] = None /\ Issued(p)
    BY <2>1, HeadOpen
  <2>3. queue' = queue /\ outcome' = outcome
    BY <1>3 DEF Moves, CallsKept
  <2>4. PICK n \in Int : Counted1(p, n)
    BY <1>0, <1>3, MoveKinds DEF MovesIn, MovesOut
  <2>5. CompletedFully'
    BY <2>2, <2>3, <2>4, NoneAssumption DEF CompletedFully, Reports, Counted1, SameCore
  <2>6. \A q \in Pbs : ~Issued(q)' => NotMade(q)'
    BY <2>2, <2>3, <2>4 DEF Reports, NotMade, Issued, Counted1, SameCore
  <2> QED
    BY <2>3, <2>5, <2>6 DEF Reports
<1>4. ASSUME NEW p \in Pbs, NEW r \in Int, Completes(p, r)
      PROVE  Reports'
  <2>1. Mine(p) /\ AtHead(p)
    BY <1>4, WorkedOn
  <2>2. /\ outcome' = [outcome EXCEPT ![p] = r]
        /\ queue' = [queue EXCEPT ![pb[p].drv] = Tail(queue[pb[p].drv])]
        /\ CoreKept
    BY <1>0, <1>4, CoreSame DEF Completes, IODone
  <2>3. /\ r \in Codes /\ Earned(p, r)
    BY <1>4 DEF Completes, MainCourse, IrqCourse, Results, ioInProgress
  <2>5. noErr # None
    BY NoneAssumption
  <2>6. outcome' \in [Pbs -> Codes \cup {None}]
    BY <2>2, <2>3 DEF Reports
  <2>7. CompletedFully'
    <3> SUFFICES ASSUME NEW q \in Pbs, outcome'[q] = noErr,
                        pb'[q].trap \in {"aRdCmd", "aWrCmd"}
                 PROVE  pb'[q].ioActCount = pb'[q].ioReqCount
      BY DEF CompletedFully
    <3>1. SameCore(q)
      BY <2>2 DEF CoreKept
    <3>2. CASE q = p
      <4>1. r = noErr
        BY <2>2, <3>2 DEF Reports
      <4> QED
        BY <2>3, <3>1, <3>2, <4>1 DEF Earned, Rw, SameCore
    <3>3. CASE q # p
      <4>1. outcome[q] = noErr
        BY <2>2, <3>3 DEF Reports
      <4> QED
        BY <3>1, <4>1 DEF Reports, CompletedFully, SameCore
    <3> QED
      BY <3>2, <3>3
  <2>8. \A q \in Pbs : ~Issued(q)' => NotMade(q)'
    <3> TAKE q \in Pbs
    <3>1. SameCore(q)
      BY <2>2 DEF CoreKept
    <3>2. p # q => outcome'[q] = outcome[q]
      BY <2>2 DEF Reports
    <3>3. Issued(p)
      BY <2>1, DriversAssumption DEF Mine, Issued
    <3> QED
      BY <3>1, <3>2, <3>3 DEF Reports, NotMade, Issued, SameCore
  <2>9. \A d \in Drivers : \A k \in 1 .. Len(queue'[d]) : outcome'[queue'[d][k]] = None
    <3> TAKE d \in Drivers
    <3>0. p \in Pbs /\ pb[p].drv \in Drivers
      BY <2>1 DEF Mine
    <3>1. CASE d # pb[p].drv
      <4>1. queue'[d] = queue[d]
        BY <1>0, <2>2, <3>0, <3>1 DEF Queues
      <4>2. \A k \in 1 .. Len(queue[d]) : queue[d][k] \in Pbs /\ queue[d][k] # p
        BY <1>0, <3>1 DEF Queues
      <4> QED
        BY <2>2, <4>1, <4>2 DEF Reports
    <3>2. CASE d = pb[p].drv
      <4>1. PICK s : s = queue[d]
        OBVIOUS
      <4>2. s \in Seq(Pbs) /\ s # <<>> /\ Head(s) = p /\ queue'[d] = Tail(s) /\ Once(s)
        BY <1>0, <2>1, <2>2, <3>0, <3>2, <4>1 DEF AtHead, Queues
      <4>3. PICK t : t = Tail(s)
        OBVIOUS
      <4>4. /\ s[1] = p /\ 1 \in 1 .. Len(s)
            /\ \A k \in 1 .. Len(t) : k + 1 \in 1 .. Len(s) /\ t[k] = s[k + 1]
        BY <4>2, <4>3, NextUp
      <4>5. \A k \in 1 .. Len(s) : s[k] \in Pbs /\ outcome[s[k]] = None
        BY <1>0, <4>1 DEF Reports, Queues
      <4>6. \A k \in 1 .. Len(t) : t[k] # p
        <5> TAKE k \in 1 .. Len(t)
        <5>1. k + 1 \in 1 .. Len(s) /\ t[k] = s[k + 1] /\ k + 1 # 1
          BY <4>4
        <5> QED
          BY <4>2, <4>4, <5>1 DEF Once
      <4>7. \A k \in 1 .. Len(t) : outcome'[t[k]] = None
        <5> TAKE k \in 1 .. Len(t)
        <5>1. t[k] \in Pbs /\ outcome[t[k]] = None /\ t[k] # p
          BY <4>4, <4>5, <4>6
        <5> QED
          BY <2>2, <5>1 DEF Reports
      <4> QED
        BY <4>2, <4>3, <4>7
    <3> QED
      BY <3>1, <3>2
  <2> QED
    BY <2>6, <2>7, <2>8, <2>9 DEF Reports
<1> QED
  BY <1>1, <1>2, <1>3, <1>4 DEF StepKinds

-----------------------------------------------------------------------------
\* The two activations keep their course.

\* What a call has earned it keeps while nobody moves it.
LEMMA EarnedStays ==
  ASSUME Inv, DataInv, StepKinds, NEW p, Mine(p), NEW e \in Results, Earned(p, e),
         e =< 0 => ~Moves(p), ~OpenConnResult
  PROVE  Earned(p, e)'
<1>1. p \in Pbs /\ Issued(p)
  BY DriversAssumption DEF Mine, Issued
<1>2. /\ pb'[p].trap = pb[p].trap /\ pb'[p].ioReqCount = pb[p].ioReqCount
      /\ e =< 0 => pb'[p].ioActCount = pb[p].ioActCount
  BY <1>1, CallKept
<1>3. connResult < 0 => connResult' = connResult
  BY ErrorStays
<1>4. e \in Int
  BY ResultsInt
<1> QED
  BY <1>2, <1>3, <1>4 DEF Earned, Rw, noErr

\* So does doPrime when it comes to a result.
LEMMA PrimeEarned ==
  ASSUME PbShape, DataInv, NEW p \in Pbs, Rw(p), NEW r, Transfer(p, r), DiskKept,
         NEW e, e = PrimeErr(p)
  PROVE  e \in Results /\ Earned(p, e)'
<1>1. connResult \in Results /\ connResult' = connResult
  BY DEF DataInv, DiskSide, DiskKept
<1>2. e \in Results
  BY <1>1 DEF PrimeErr, Results, Codes, noErr
<1>3. CASE ~ConnOk
  <2>1. e = connResult /\ e # noErr
    BY <1>3 DEF PrimeErr, ConnOk
  <2>2. pb'[p].trap = pb[p].trap
    BY <1>3, CoreMoved DEF Transfer, TransferFails, TransferIn, TransferOut, Counted1
  <2> QED
    BY <1>1, <1>2, <2>1, <2>2 DEF Earned, Rw
<1>4. CASE ConnOk
  <2>1. PICK n : n = CountFor(p)
    OBVIOUS
  <2>2. Counted1(p, n)
    BY <1>4, <2>1, CoreMoved DEF Transfer, TransferFails, TransferIn, TransferOut, CountFor
  <2>3. e = IF pb[p].ioActCount + n = pb[p].ioReqCount THEN noErr ELSE ioInProgress
    BY <1>4, <2>1 DEF PrimeErr
  <2>4. e = noErr => pb'[p].ioActCount = pb'[p].ioReqCount
    BY <2>2, <2>3 DEF Counted1, noErr, ioInProgress
  <2>5. ~(e < 0)
    BY <2>3 DEF noErr, ioInProgress
  <2> QED
    BY <1>2, <2>4, <2>5 DEF Earned
<1> QED
  BY <1>2, <1>3, <1>4

\* The two steps that can not be told apart by what they leave alone.
MainStep == MainOpen \/ MainIssues \/ MainCall
IrqStep == VblTick \/ DiskDone \/ IrqWork \/ IrqIssues

LEMMA Sides ==
  ASSUME [Next]_vars
  PROVE  \/ MainStep /\ irq' = irq /\ irq.pc = "none"
         \/ IrqStep /\ main' = main
         \/ UNCHANGED vars
<1> USE DEF vars, portVars, callVars, infoVars, readVars, writeVars, diskVars, syncVars,
            flowVars
<1>1. ASSUME MainStep PROVE irq' = irq /\ irq.pc = "none"
  <2>1. CASE MainOpen
    BY <2>1 DEF MainOpen, Install, Connect, Open, Close, OpenConnResult, OpenReadReq,
      OpenReadAct, OpenWrite, OpenStartVBL, MainAt
  <2>2. CASE MainIssues
    BY <2>2 DEF MainIssues, MainIssue, MainAt
  <2>3. CASE MainCall
    BY <2>3 DEF MainCall, DoControl, StatusReq, StatusAct, StatusExtra, PrimeTakes,
      PrimeMisses, PrimeTransfer, PrimeReleases, PrimeFindsSlot, PrimeClaimsSlot, PrimeParks,
      PrimeSchedules, PrimeResult, IOReturn, MainAt
  <2> QED
    BY <1>1, <2>1, <2>2, <2>3 DEF MainStep
<1>2. ASSUME IrqStep PROVE main' = main
  <2>1. CASE VblTick \/ DiskDone
    BY <2>1 DEF VblTick, VblCountdown, VblMutexBusy, VblFlush, VblPoll, VblWakes, DiskDone,
      WriteDone, WriteFails, ReadDone, ReadFails
  <2>2. CASE IrqWork
    BY <2>2 DEF IrqWork, WakeTakes, WakeSkips, WakeEnds, IrqPrimes, IrqMisses, IrqControls,
      IrqIODone
  <2>3. CASE IrqIssues
    BY <2>3 DEF IrqIssues, IrqIssue
  <2> QED
    BY <1>2, <2>1, <2>2, <2>3 DEF IrqStep
<1> QED
  BY <1>1, <1>2 DEF Next, MainStep, IrqStep

\* The next call of a queue is a call.
LEMMA NextIs ==
  ASSUME Inv, NEW p, Mine(p), NextCall(p) # None
  PROVE  NextCall(p) \in Pbs
<1>1. PICK s : s = queue[pb[p].drv]
  OBVIOUS
<1>2. s \in Seq(Pbs) /\ NextCall(p) = s[2] /\ Len(s) > 1
  BY <1>1 DEF NextCall, Inv, CallInv, Queues, Mine
<1>3. Len(s) \in Nat
  BY <1>2, LenProperties
<1>4. 2 \in 1 .. Len(s)
  BY <1>2, <1>3
<1> QED
  BY <1>2, <1>4, ElementOfSeq

\* Where the dispatcher sends a call.
LEMMA EntryLaw ==
  ASSUME NEW t \in Traps
  PROVE  /\ Entry(t) \in {"ctl", "sts1", "lock"}
         /\ Entry(t) = "lock" <=> t \in {"aRdCmd", "aWrCmd"}
BY DEF Entry, Traps

LEMMA MainKeepsCourse ==
  ASSUME Inv, MutexInv, DataInv, MainCourse, StepKinds, main' = main, ~OpenConnResult
  PROVE  MainCourse'
<1>0. PICK p : p = main.pb
  OBVIOUS
<1>1. main.pc \in CallPcs => Mine(p)
  BY <1>0 DEF Inv, CallInv, Workers
<1>2. main.pc \in CallPcs => p \in Pbs /\ Issued(p)
  BY <1>1, DriversAssumption DEF Mine, Issued
<1>3. main.pc \in CallPcs => pb'[p].trap = pb[p].trap
  BY <1>2, CallKept
<1>4. ASSUME main.pc \in {"unlock", "result", "return"}
      PROVE  Earned(p, main.err)'
  <2>1. ASSUME main.err =< 0, Moves(p) PROVE FALSE
    <3>1. p \in InMain
      BY <1>0, <1>4, <2>1 DEF InMain
    <3>2. p \in InIrq
      BY <1>4, <2>1 DEF Moves, InIrq
    <3> QED
      BY <3>1, <3>2 DEF Inv, CallInv, ParkedAreHeads
  <2>2. PICK e : e = main.err
    OBVIOUS
  <2>3. e \in Results /\ Earned(p, e) /\ (e =< 0 => ~Moves(p)) /\ Mine(p)
    BY <1>0, <1>1, <1>4, <2>1, <2>2 DEF MainCourse, CallPcs
  <2>4. Earned(p, e)'
    BY <2>3, EarnedStays
  <2> QED
    BY <2>2, <2>4 DEF Earned
<1>5. main'.pb = p
  BY <1>0
<1> QED
  BY <1>0, <1>3, <1>4, <1>5 DEF MainCourse, Rw, PrimePcs, CallPcs, Earned

LEMMA IrqKeepsCourse ==
  ASSUME Inv, MutexInv, DataInv, IrqCourse, StepKinds, irq' = irq, ~OpenConnResult
  PROVE  IrqCourse'
<1>1. ASSUME irq.pc = "done"
      PROVE  Earned(irq.pb, irq.err)'
  <2>1. PICK p : p = irq.pb
    OBVIOUS
  <2>2. PICK e : e = irq.err
    OBVIOUS
  <2>3. ~Moves(p)
    BY <1>1 DEF Moves
  <2>4. Mine(p) /\ e \in Results /\ Earned(p, e)
    BY <1>1, <2>1, <2>2 DEF Inv, CallInv, Workers, WorkPcs, IrqCourse
  <2>5. Earned(p, e)'
    BY <2>3, <2>4, EarnedStays
  <2> QED
    BY <2>1, <2>2, <2>5 DEF Earned
<1> QED
  BY <1>1 DEF IrqCourse, Earned

LEMMA MainCourseNext ==
  ASSUME Inv, MutexInv, DataInv, MainCourse, StepKinds, MainStep
  PROVE  MainCourse'
<1> USE DEF MainAt, Goto
<1>0. MainShape /\ PbShape
  BY DEF Inv, CallInv
<1>p. PICK p : p = main.pb
  OBVIOUS
<1>e. PICK e : e = main.err
  OBVIOUS
<1>1. main.pc \in CallPcs => Mine(p) /\ p \in Pbs
  BY <1>p DEF Inv, CallInv, Workers, Mine
<1>2. noErr \in Results /\ ioInProgress \in Results /\ e \in Results
  BY <1>e DEF Results, Codes, MainCourse
<1>3. CASE main' = main /\ ~OpenConnResult
  BY <1>3, MainKeepsCourse DEF MainStep, MainOpen
<1>4. CASE MainOpen /\ main' # main
  <2>1. main' = IdleMain \/ (main'.pc \in OpenPcs /\ main'.err = e)
    BY <1>0, <1>4, <1>e DEF MainOpen, Install, Connect, Open, Close, OpenConnResult,
      OpenReadReq, OpenReadAct, OpenWrite, OpenStartVBL, MainShape, OpenPcs
  <2> QED
    BY <1>2, <2>1 DEF MainCourse, IdleMain, MainPcs, OpenPcs, PrimePcs
<1>5. ASSUME NEW q \in Pbs, NEW c \in Calls, NEW n \in Sizes, MainIssue(q, c, n), main' # main
      PROVE  MainCourse'
  <2>1. /\ main'.pc = Entry(c[2]) /\ main'.pb = q /\ main'.err = noErr
    BY <1>5 DEF MainIssue, IdleMain
  <2>2. pb'[q].trap = c[2] /\ c[2] \in Traps
    BY <1>0, <1>5, CoreIssued, CallsAssumption DEF MainIssue
  <2> QED
    BY <1>2, <2>1, <2>2, EntryLaw DEF MainCourse, MainPcs, PrimePcs, Rw
<1>6. CASE DoControl \/ StatusExtra
  <2>1. /\ main'.pc = "return" /\ main'.err = noErr /\ main'.pb = p
        /\ main.pc \in {"ctl", "sts3"} /\ main.pc \in CallPcs
    BY <1>0, <1>6, <1>p DEF DoControl, StatusExtra, MainShape, CallPcs
  <2>2. ~Rw(p)
    BY <1>p, <2>1 DEF MainCourse
  <2>3. pb'[p].trap = pb[p].trap
    BY <1>1, <2>1, CallKept, DriversAssumption DEF Mine, Issued
  <2> QED
    BY <1>2, <2>1, <2>2, <2>3 DEF MainCourse, MainPcs, PrimePcs, Earned, Rw, noErr
<1>7. CASE \/ StatusReq \/ StatusAct \/ PrimeTakes \/ PrimeMisses
           \/ PrimeFindsSlot \/ PrimeClaimsSlot \/ PrimeParks
  <2>1. /\ pb' = pb /\ main'.pb = p /\ main'.err \in {e, ioInProgress}
        /\ \/ main.pc \in {"sts1", "sts2"} /\ main'.pc \in {"sts2", "sts3"}
           \/ /\ main.pc \in {"lock", "find", "claim", "park"}
              /\ main'.pc \in {"xfer", "find", "claim", "park"}
           \/ main.pc = "park" /\ main'.pc = "sched" /\ main'.err = e
    BY <1>0, <1>7, <1>p, <1>e DEF StatusReq, StatusAct, PrimeTakes, PrimeMisses,
      PrimeFindsSlot, PrimeClaimsSlot, PrimeParks, MainShape
  <2>2. main.pc = "park" => e = ioInProgress
    BY <1>0, <1>e DEF MainShape
  <2> QED
    BY <1>2, <1>p, <2>1, <2>2 DEF MainCourse, MainPcs, PrimePcs, Rw
<1>8. CASE PrimeTransfer
  <2>1. PICK f : f = PrimeErr(p)
    OBVIOUS
  <2>2. /\ main.pc = "xfer" /\ Transfer(p, pb[p].ioResult) /\ DiskKept
        /\ main'.pc = "unlock" /\ main'.err = f /\ main'.pb = p
    BY <1>0, <1>8, <1>p, <2>1 DEF PrimeTransfer, MainShape, DiskKept, diskVars
  <2>3. p \in Pbs /\ Rw(p) /\ Mine(p)
    BY <1>1, <1>p, <2>2 DEF CallPcs, MainCourse, PrimePcs
  <2>4. f \in Results /\ Earned(p, f)'
    BY <1>0, <2>1, <2>2, <2>3, PrimeEarned
  <2>5. pb'[p].trap = pb[p].trap
    BY <2>3, CallKept, DriversAssumption DEF Mine, Issued
  <2> QED
    BY <2>2, <2>3, <2>4, <2>5 DEF MainCourse, MainPcs, PrimePcs, Earned, Rw
<1>9. CASE PrimeReleases \/ PrimeResult \/ PrimeSchedules
  <2>1. /\ main'.err = e /\ main'.pb = p /\ main.pc \in CallPcs
        /\ main.pc \in {"unlock", "result", "sched"}
        /\ main'.pc \in {"find", "result", "return"}
        /\ main'.pc = "find" => e = ioInProgress /\ main.pc = "unlock"
    BY <1>0, <1>9, <1>p, <1>e DEF PrimeReleases, PrimeResult, PrimeSchedules, MainShape, CallPcs
  <2>2. Earned(p, e)
    BY <1>p, <1>e, <2>1 DEF MainCourse, Earned, noErr, ioInProgress
  <2>3. ~Moves(p) /\ ~OpenConnResult
    BY <1>9, <2>1 DEF PrimeReleases, PrimeResult, PrimeSchedules, Moves, OpenConnResult
  <2>4. Earned(p, e)'
    BY <1>1, <1>2, <2>1, <2>2, <2>3, EarnedStays
  <2>5. pb'[p].trap = pb[p].trap
    BY <1>1, <2>1, CallKept, DriversAssumption DEF Mine, Issued
  <2> QED
    BY <1>2, <1>p, <2>1, <2>4, <2>5 DEF MainCourse, MainPcs, PrimePcs, Earned, Rw
<1>10. CASE IOReturn
  <2>1. main.pc \in CallPcs
    BY <1>10 DEF IOReturn, CallPcs
  <2>2. CASE main' = IdleMain
    BY <1>2, <2>2 DEF MainCourse, IdleMain, MainPcs, PrimePcs
  <2>3. CASE main' # IdleMain
    <3>1. PICK q : q = NextCall(p)
      OBVIOUS
    <3>2. /\ q # None /\ main'.pc = Entry(pb[q].trap) /\ main'.pb = q /\ main'.err = noErr
          /\ IODone(p, e)
      BY <1>10, <1>p, <1>e, <2>3, <3>1 DEF IOReturn, IdleMain
    <3>3. q \in Pbs
      BY <1>1, <2>1, <3>1, <3>2, NextIs
    <3>4. pb'[q].trap = pb[q].trap /\ pb[q].trap \in Traps
      BY <1>0, <1>1, <2>1, <3>2, <3>3, CoreSame DEF IODone, CoreKept, SameCore, DataInv, PbCore
    <3> QED
      BY <1>2, <3>2, <3>4, EntryLaw DEF MainCourse, MainPcs, PrimePcs, Rw
  <2> QED
    BY <2>2, <2>3
<1>11. main'.pc = "open2" \/ ~OpenConnResult
  BY <1>0 DEF OpenConnResult, MainShape
<1>12. OpenConnResult => main' # main
  BY <1>11 DEF OpenConnResult
<1> QED
  BY <1>3, <1>4, <1>5, <1>6, <1>7, <1>8, <1>9, <1>10, <1>12
  DEF MainStep, MainIssues, MainCall, MainOpen

LEMMA IrqCourseNext ==
  ASSUME Inv, MutexInv, DataInv, IrqCourse, StepKinds, IrqStep, main' = main
  PROVE  IrqCourse'
<1>0. IrqShape /\ PbShape
  BY DEF Inv, CallInv
<1>1. PICK p : p = irq.pb
  OBVIOUS
<1>2. noErr \in Results /\ ioInProgress \in Results
  BY DEF Results, Codes
<1>3. CASE irq' = irq
  <2>1. ~OpenConnResult
    BY DEF OpenConnResult, MainAt, Goto, Inv, CallInv, MainShape
  <2> QED
    BY <1>3, <2>1, IrqKeepsCourse
<1>4. CASE VblTick \/ DiskDone \/ WakeTakes \/ WakeSkips \/ WakeEnds \/ IrqIssues
  <2>1. CASE VblTick \/ DiskDone
    <3>1. irq' = irq \/ irq' = [IdleIrq EXCEPT !.pc = "wake"]
      BY <2>1 DEF VblTick, VblCountdown, VblMutexBusy, VblFlush, VblPoll, VblWakes, DiskDone,
        WriteDone, WriteFails, ReadDone, ReadFails, StartWakeUp
    <3> QED
      BY <1>2, <1>3, <3>1 DEF IrqCourse, IdleIrq
  <2>2. CASE WakeTakes
    <3>1. irq' = [irq EXCEPT !.pc = "prime", !.from = "wake", !.pb = pendingPb[irq.slot]]
      BY <2>2 DEF WakeTakes
    <3>2. irq'.pc = "prime" /\ irq'.from = "wake" /\ irq'.err = irq.err
      BY <1>0, <3>1 DEF IrqShape
    <3> QED
      BY <3>2 DEF IrqCourse
  <2>3. CASE WakeSkips
    <3>1. irq' = [irq EXCEPT !.slot = @ + 1] /\ irq.pc = "wake"
      BY <2>3 DEF WakeSkips
    <3>2. irq'.pc = "wake" /\ irq'.from = irq.from /\ irq'.err = irq.err
      BY <1>0, <3>1 DEF IrqShape
    <3> QED
      BY <3>2 DEF IrqCourse
  <2>4. CASE WakeEnds
    BY <1>2, <2>4 DEF WakeEnds, IdleIrq, IrqCourse
  <2>5. ASSUME NEW q \in Pbs, NEW c \in IrqCalls, NEW n \in Sizes, IrqIssue(q, c, n)
        PROVE  IrqCourse'
    <3>1. irq' = irq \/ irq' = [IdleIrq EXCEPT !.pc = "prime", !.pb = q]
      BY <2>5 DEF IrqIssue
    <3> QED
      BY <1>2, <1>3, <3>1 DEF IrqCourse, IdleIrq
  <2> QED
    BY <1>4, <2>1, <2>2, <2>3, <2>4, <2>5 DEF IrqIssues
<1>r. ASSUME irq' = Resume PROVE IrqCourse'
  BY <1>2, <1>r DEF Resume, IdleIrq, IrqCourse
<1>5. CASE IrqControls
  <2>1. /\ irq.pc = "prime" /\ ~Rw(p) /\ irq'.err = noErr /\ irq'.pb = p
        /\ irq'.from = irq.from /\ irq'.pc = "done"
    BY <1>0, <1>1, <1>5 DEF IrqControls, IrqShape, Rw
  <2>2. Mine(p)
    BY <1>1, <2>1 DEF Inv, CallInv, Workers, WorkPcs
  <2>3. pb'[p].trap = pb[p].trap
    BY <2>2, CallKept, DriversAssumption DEF Mine, Issued
  <2> QED
    BY <1>2, <2>1, <2>3 DEF IrqCourse, Earned, Rw, noErr
<1>6. CASE IrqPrimes
  <2>1. PICK f : f = PrimeErr(p)
    OBVIOUS
  <2>2. /\ irq.pc = "prime" /\ Rw(p) /\ Transfer(p, f) /\ DiskKept
        /\ \/ irq' = Resume
           \/ f # ioInProgress /\ irq' = [irq EXCEPT !.pc = "done", !.err = f]
    BY <1>1, <1>6, <2>1 DEF IrqPrimes, Rw, DiskKept, diskVars, Park
  <2>3. CASE f # ioInProgress /\ irq' = [irq EXCEPT !.pc = "done", !.err = f]
    <3>1. p \in Pbs
      BY <1>1, <2>2 DEF Inv, CallInv, Workers, WorkPcs, Mine
    <3>2. f \in Results /\ Earned(p, f)'
      BY <1>0, <2>1, <2>2, <3>1, PrimeEarned
    <3>3. f =< 0
      BY <2>3, <3>2 DEF Results, Codes, noErr, ioErr, wrongTag, ioInProgress
    <3>4. irq'.pc = "done" /\ irq'.err = f /\ irq'.pb = p /\ irq'.from = irq.from
      BY <1>0, <1>1, <2>3 DEF IrqShape
    <3> QED
      BY <3>2, <3>3, <3>4 DEF IrqCourse, Earned
  <2> QED
    BY <1>r, <2>2, <2>3
<1>7. CASE IrqMisses
  BY <1>r, <1>7 DEF IrqMisses, Park
<1>8. CASE IrqIODone
  <2>1. irq' = Resume \/ irq' = [irq EXCEPT !.pc = "prime", !.pb = NextCall(irq.pb)]
    BY <1>8 DEF IrqIODone
  <2>2. ASSUME irq' = [irq EXCEPT !.pc = "prime", !.pb = NextCall(irq.pb)]
        PROVE  IrqCourse'
    <3>1. irq'.pc = "prime" /\ irq'.from = irq.from /\ irq'.err = irq.err
      BY <1>0, <2>2 DEF IrqShape
    <3> QED
      BY <3>1 DEF IrqCourse
  <2> QED
    BY <1>r, <2>1, <2>2
<1> QED
  BY <1>4, <1>5, <1>6, <1>7, <1>8 DEF IrqStep, IrqWork

-----------------------------------------------------------------------------
\* What is left: results in the parameter blocks, the port and its opening.

PbResults == \A p \in Pbs : pb[p].ioResult \in Results /\ pb[p].csParam \in Int

Untried == \A p \in Pbs : ~Issued(p)
MainFields == main.drv \in Drivers \cup {None} /\ main.pb \in Pbs \cup {None} /\ main.tmp \in Int
PortSide ==
    /\ port \in {"absent", "installed", "connected"}
    /\ openResult \in [Drivers -> {None, noErr, openErr, portNotCf}]
    /\ MainFields /\ irq.pb \in Pbs \cup {None}
    /\ vblCount \in 0 .. VblTicks
    /\ Opening => main.drv \in Drivers
    /\ port # "connected" => ~Opening /\ Untried /\ \A d \in Drivers : openResult[d] # noErr
    /\ ~LateOpen /\ Opening => Untried

StreamBase == Inv /\ MutexInv /\ DataInv /\ MainCourse /\ IrqCourse /\ Reports
              /\ PbResults /\ PortSide

LEMMA PbResultsNext ==
  ASSUME StreamBase, [Next]_vars
  PROVE  PbResults'
<1> USE DEF vars, portVars, callVars, infoVars, readVars, writeVars, diskVars, syncVars,
            flowVars
<1>0. /\ PbShape /\ PbResults /\ ioInProgress \in Results /\ 0 \in Int
      /\ main.err \in Results /\ irq.err \in Results
      /\ main.pc \in CallPcs => main.pb \in Pbs
      /\ irq.pc \in WorkPcs => irq.pb \in Pbs
  BY DEF StreamBase, Inv, CallInv, Workers, Mine, MainCourse, IrqCourse, Results
<1>1. ASSUME NEW p \in Pbs, NEW r \in Results, pb' = [pb EXCEPT ![p].ioResult = r]
      PROVE  PbResults'
  BY <1>0, <1>1 DEF PbResults, PbShape
<1>2. ASSUME NEW p \in Pbs, NEW x \in Int, pb' = [pb EXCEPT ![p].csParam = x]
      PROVE  PbResults'
  BY <1>0, <1>2 DEF PbResults, PbShape
<1>3. ASSUME NEW p \in Pbs, NEW n, NEW r \in Results, Moved(p, n, r)
      PROVE  PbResults'
  <2>1. pb' = [pb EXCEPT ![p].ioActCount = @ + n, ![p].ioResult = r]
    BY <1>3 DEF Moved
  <2>2. pb'[p] = [pb[p] EXCEPT !.ioActCount = @ + n, !.ioResult = r]
    BY <1>0, <2>1 DEF PbShape
  <2>3. \A q \in Pbs : q # p => pb'[q] = pb[q]
    BY <1>0, <2>1 DEF PbShape
  <2>4. pb'[p].ioResult = r /\ pb'[p].csParam = pb[p].csParam
    BY <1>0, <2>2 DEF PbShape
  <2> QED
    BY <1>0, <2>3, <2>4 DEF PbResults
<1>4. ASSUME pb' = pb PROVE PbResults'
  BY <1>0, <1>4 DEF PbResults
<1>5. ASSUME NEW p \in Pbs, NEW c, NEW n, Enqueue(p, c, n)
      PROVE  PbResults'
  BY <1>0, <1>5, CoreIssued DEF PbResults
<1>6. ASSUME NEW p \in Pbs, NEW r \in Results, Transfer(p, r)
      PROVE  PbResults'
  BY <1>3, <1>6 DEF Transfer, TransferFails, TransferIn, TransferOut
<1>7. ASSUME NEW s \in Int
      PROVE  LowWord(s + readExtraAvail) \in Int
  BY DEF StreamBase, DataInv, ReadSide, LowWord, WordRange
<1>8. CASE MainOpen
  BY <1>4, <1>8 DEF MainOpen, Install, Connect, Open, Close, OpenConnResult, OpenReadReq,
    OpenReadAct, OpenWrite, OpenStartVBL
<1>9. CASE MainIssues
  BY <1>5, <1>9 DEF MainIssues, MainIssue
<1>10. CASE MainCall
  <2>1. main.pc \in CallPcs
    BY <1>10 DEF MainCall, DoControl, StatusReq, StatusAct, StatusExtra, PrimeTakes,
      PrimeMisses, PrimeTransfer, PrimeReleases, PrimeFindsSlot, PrimeClaimsSlot, PrimeParks,
      PrimeSchedules, PrimeResult, IOReturn, MainAt, CallPcs
  <2>2. CASE StatusExtra
    BY <1>0, <1>2, <1>7, <2>1, <2>2 DEF StatusExtra, StreamBase, PortSide, MainFields
  <2>3. CASE PrimeTransfer
    BY <1>0, <1>6, <2>1, <2>3 DEF PrimeTransfer, PbResults
  <2>4. CASE PrimeResult
    BY <1>0, <1>1, <2>1, <2>4 DEF PrimeResult
  <2>5. CASE IOReturn
    BY <1>0, <1>1, <1>4, <2>1, <2>5 DEF IOReturn, IODone
  <2>6. CASE ~(StatusExtra \/ PrimeTransfer \/ PrimeResult \/ IOReturn)
    BY <1>4, <1>10, <2>6 DEF MainCall, DoControl, StatusReq, StatusAct, PrimeTakes,
      PrimeMisses, PrimeReleases, PrimeFindsSlot, PrimeClaimsSlot, PrimeParks, PrimeSchedules
  <2> QED
    BY <2>2, <2>3, <2>4, <2>5, <2>6
<1>11. CASE VblTick \/ DiskDone \/ WakeTakes \/ WakeSkips \/ WakeEnds \/ UNCHANGED vars
  BY <1>4, <1>11 DEF VblTick, VblCountdown, VblMutexBusy, VblFlush, VblPoll, VblWakes,
    DiskDone, WriteDone, WriteFails, ReadDone, ReadFails, WakeTakes, WakeSkips, WakeEnds
<1>12. CASE IrqPrimes
  <2>1. PICK f : f = PrimeErr(irq.pb)
    OBVIOUS
  <2>2. irq.pb \in Pbs /\ Transfer(irq.pb, f)
    BY <1>0, <1>12, <2>1 DEF IrqPrimes, WorkPcs
  <2>3. f \in Results
    BY <2>1 DEF PrimeErr, StreamBase, DataInv, DiskSide, Results, Codes
  <2> QED
    BY <1>6, <2>2, <2>3
<1>13. CASE IrqMisses
  BY <1>0, <1>1, <1>13 DEF IrqMisses, WorkPcs
<1>14. CASE IrqControls
  <2>1. Left(readStorage) \in Int
    BY DEF StreamBase, DataInv, ReadSide, Left
  <2> QED
    BY <1>0, <1>2, <1>4, <1>7, <1>14, <2>1 DEF IrqControls, WorkPcs
<1>15. CASE IrqIODone
  BY <1>0, <1>1, <1>15 DEF IrqIODone, IODone, WorkPcs
<1>16. CASE IrqIssues
  BY <1>5, <1>16 DEF IrqIssues, IrqIssue
<1> QED
  BY <1>8, <1>9, <1>10, <1>11, <1>12, <1>13, <1>14, <1>15, <1>16 DEF Next, IrqWork

\* Nobody makes a first call but a client.
LEMMA UntriedKept ==
  ASSUME Inv, DataInv, MutexInv, MainCourse, IrqCourse, Untried,
         MainOpen \/ MainCall \/ VblTick \/ DiskDone \/ IrqWork \/ UNCHANGED vars
  PROVE  Untried'
<1>1. main.pc \notin CallPcs /\ irq.pc \notin WorkPcs /\ PbShape
  BY DriversAssumption DEF Untried, Issued, Inv, CallInv, Workers, Mine
<1> USE DEF vars, portVars, callVars, infoVars, readVars, writeVars, diskVars, syncVars,
            flowVars
<1>2. pb' = pb
  <2>1. CASE MainOpen
    BY <2>1 DEF MainOpen, Install, Connect, Open, Close, OpenConnResult, OpenReadReq,
      OpenReadAct, OpenWrite, OpenStartVBL
  <2>2. ~MainCall
    BY <1>1 DEF MainCall, DoControl, StatusReq, StatusAct, StatusExtra, PrimeTakes,
      PrimeMisses, PrimeTransfer, PrimeReleases, PrimeFindsSlot, PrimeClaimsSlot, PrimeParks,
      PrimeSchedules, PrimeResult, IOReturn, MainAt, CallPcs
  <2>3. CASE VblTick \/ DiskDone \/ WakeTakes \/ WakeSkips \/ WakeEnds \/ UNCHANGED vars
    BY <2>3 DEF VblTick, VblCountdown, VblMutexBusy, VblFlush, VblPoll, VblWakes,
      DiskDone, WriteDone, WriteFails, ReadDone, ReadFails, WakeTakes, WakeSkips, WakeEnds
  <2>4. ~(IrqPrimes \/ IrqMisses \/ IrqControls \/ IrqIODone)
    BY <1>1 DEF IrqPrimes, IrqMisses, IrqControls, IrqIODone, WorkPcs
  <2> QED
    BY <2>1, <2>2, <2>3, <2>4 DEF IrqWork
<1> QED
  BY <1>2 DEF Untried, Issued

LEMMA PortMainOpen ==
  ASSUME StreamBase, MainOpen
  PROVE  PortSide'
<1> USE DEF portVars, callVars, infoVars, readVars, writeVars, diskVars, syncVars,
            flowVars, MainAt, Goto
<1>0. MainShape /\ PortSide /\ IdleMain.drv = None /\ IdleMain.pb = None /\ IdleMain.tmp = 0
      /\ IdleMain.pc = "idle"
  BY DEF StreamBase, Inv, CallInv, IdleMain
<1>1. pb' = pb /\ irq' = irq
  BY DEF MainOpen, Install, Connect, Open, Close, OpenConnResult, OpenReadReq,
    OpenReadAct, OpenWrite, OpenStartVBL
<1>2. Untried => Untried'
  BY <1>1 DEF Untried, Issued
<1>3. CASE Install
  BY <1>0, <1>1, <1>2, <1>3 DEF Install, PortSide, MainFields, Opening
<1>4. CASE Connect
  <2>1. /\ port = "installed" /\ port' = "connected" /\ openResult' = openResult
        /\ vblCount' = vblCount /\ main'.drv = Fuji /\ main'.pb = main.pb
        /\ main'.tmp = main.tmp
    BY <1>0, <1>4 DEF Connect, MainShape
  <2> QED
    BY <1>0, <1>1, <1>2, <2>1, DriversAssumption DEF PortSide, MainFields
<1>5. ASSUME NEW d \in Drivers, Open(d)
      PROVE  PortSide'
  <2>1. CASE port = "connected"
    <3>1. /\ port' = port /\ openResult' = openResult /\ vblCount' = vblCount
          /\ main'.drv = d /\ main'.pb = main.pb /\ main'.tmp = main.tmp
          /\ LateOpen \/ Untried
      BY <1>0, <1>5, <2>1 DEF Open, MainShape, Untried
    <3> QED
      BY <1>0, <1>1, <1>2, <2>1, <3>1 DEF PortSide, MainFields
  <2>2. CASE port # "connected"
    <3>1. /\ port' = port /\ vblCount' = vblCount /\ main' = main
          /\ \E x \in {openErr, portNotCf} : openResult' = [openResult EXCEPT ![d] = x]
      BY <1>5, <2>2 DEF Open
    <3>2. openErr # noErr /\ portNotCf # noErr
      BY DEF openErr, portNotCf, noErr
    <3>3. /\ openResult' \in [Drivers -> {None, noErr, openErr, portNotCf}]
          /\ \A e \in Drivers : openResult'[e] # noErr
      BY <1>0, <2>2, <3>1, <3>2 DEF PortSide, MainFields
    <3> QED
      BY <1>0, <1>1, <1>2, <2>2, <3>1, <3>3 DEF PortSide, MainFields, Opening
  <2> QED
    BY <2>1, <2>2
<1>6. ASSUME NEW d \in Drivers, Close(d)
      PROVE  PortSide'
  <2>1. port' = port /\ vblCount' = vblCount /\ main' = main
        /\ openResult' = [openResult EXCEPT ![d] = None]
    BY <1>6 DEF Close
  <2>2. openResult' \in [Drivers -> {None, noErr, openErr, portNotCf}]
    BY <1>0, <2>1 DEF PortSide, MainFields
  <2>3. ASSUME \A e \in Drivers : openResult[e] # noErr
        PROVE  \A e \in Drivers : openResult'[e] # noErr
    BY <1>0, <2>1, <2>3, NoneAssumption DEF PortSide, MainFields
  <2> QED
    BY <1>0, <1>1, <1>2, <2>1, <2>2, <2>3 DEF PortSide, MainFields, Opening
<1>7. CASE OpenConnResult \/ OpenReadReq \/ OpenReadAct \/ OpenWrite
  <2>1. /\ port' = port /\ openResult' = openResult /\ vblCount' = vblCount /\ Opening
        /\ main'.drv = main.drv /\ main'.pb = main.pb /\ main'.tmp = main.tmp
    BY <1>0, <1>7 DEF OpenConnResult, OpenReadReq, OpenReadAct, OpenWrite, MainShape, Opening
  <2> QED
    BY <1>0, <1>1, <1>2, <2>1 DEF PortSide, MainFields
<1>8. CASE OpenStartVBL
  <2>1. /\ port' = port /\ main' = IdleMain /\ Opening
        /\ openResult' = [openResult EXCEPT ![main.drv] = noErr]
        /\ vblCount' \in {vblCount, VblTicks}
    BY <1>8 DEF OpenStartVBL, Opening
  <2>2. openResult' \in [Drivers -> {None, noErr, openErr, portNotCf}]
    BY <1>0, <2>1 DEF PortSide, MainFields
  <2>3. vblCount' \in 0 .. VblTicks
    BY <1>0, <2>1, BoundsAssumption DEF PortSide, MainFields
  <2>4. ~Opening'
    BY <2>1 DEF Opening, IdleMain
  <2> QED
    BY <1>0, <1>1, <2>1, <2>2, <2>3, <2>4 DEF PortSide, MainFields
<1> QED
  BY <1>3, <1>4, <1>5, <1>6, <1>7, <1>8 DEF MainOpen

LEMMA PortMainCall ==
  ASSUME StreamBase, MainIssues \/ MainCall
  PROVE  PortSide'
<1> USE DEF portVars, callVars, infoVars, readVars, writeVars, diskVars, syncVars,
            flowVars, MainAt, Goto
<1>0. MainShape /\ PortSide /\ DataInv
  BY DEF StreamBase, Inv, CallInv
<1>1. port' = port /\ openResult' = openResult /\ irq' = irq
  BY DEF MainIssues, MainIssue, MainCall, DoControl, StatusReq, StatusAct, StatusExtra,
    PrimeTakes, PrimeMisses, PrimeTransfer, PrimeReleases, PrimeFindsSlot, PrimeClaimsSlot,
    PrimeParks, PrimeSchedules, PrimeResult, IOReturn
<1>2. port = "connected"
  <2>1. CASE MainIssues
    <3>1. PICK c \in Calls : openResult[c[1]] = noErr
      BY <2>1 DEF MainIssues, MainIssue, Enqueue
    <3> QED
      BY <1>0, <3>1, CallsAssumption DEF PortSide, MainFields
  <2>2. CASE MainCall
    <3>1. main.pc \in CallPcs
      BY <2>2 DEF MainCall, DoControl, StatusReq, StatusAct, StatusExtra, PrimeTakes,
        PrimeMisses, PrimeTransfer, PrimeReleases, PrimeFindsSlot, PrimeClaimsSlot, PrimeParks,
        PrimeSchedules, PrimeResult, IOReturn, CallPcs
    <3>2. main.pb \in Pbs /\ Issued(main.pb)
      BY <3>1, DriversAssumption DEF StreamBase, Inv, CallInv, Workers, Mine, Issued
    <3> QED
      BY <1>0, <3>2 DEF PortSide, MainFields, Untried
  <2> QED
    BY <2>1, <2>2
<1>3. vblCount' \in {vblCount, 1}
  BY DEF MainIssues, MainIssue, MainCall, DoControl, StatusReq, StatusAct, StatusExtra,
    PrimeTakes, PrimeMisses, PrimeTransfer, PrimeReleases, PrimeFindsSlot, PrimeClaimsSlot,
    PrimeParks, PrimeSchedules, PrimeResult, IOReturn
<1>4. vblCount' \in 0 .. VblTicks
  BY <1>0, <1>3, BoundsAssumption DEF PortSide, MainFields
<1>5. MainFields' /\ ~Opening'
  <2>1. ASSUME NEW p \in Pbs, NEW t \in Traps,
               main' = [IdleMain EXCEPT !.pc = Entry(t), !.pb = p]
        PROVE  MainFields' /\ ~Opening'
    <3>1. main'.pc = Entry(t) /\ main'.pb = p /\ main'.drv = None /\ main'.tmp = 0
      BY <2>1 DEF IdleMain
    <3> QED
      BY <3>1, EntryLaw DEF Opening, MainFields
  <2>2. CASE main' = IdleMain
    BY <2>2 DEF IdleMain, Opening, MainFields
  <2>3. ASSUME NEW p \in Pbs, NEW c \in Calls, NEW n \in Sizes, MainIssue(p, c, n)
        PROVE  MainFields' /\ ~Opening'
    <3>1. \/ main' = main /\ main.pc = "idle"
          \/ main' = [IdleMain EXCEPT !.pc = Entry(c[2]), !.pb = p]
      BY <2>3 DEF MainIssue
    <3>2. c[2] \in Traps
      BY CallsAssumption
    <3> QED
      BY <1>0, <2>1, <3>1, <3>2 DEF PortSide, MainFields, Opening
  <2>4. CASE IOReturn
    <3>1. main.pc \in CallPcs
      BY <2>4 DEF IOReturn, CallPcs
    <3>2. Mine(main.pb) /\ Inv
      BY <3>1 DEF StreamBase, Inv, CallInv, Workers
    <3>3. CASE main' # IdleMain
      <4>1. PICK q : q = NextCall(main.pb)
        OBVIOUS
      <4>2. q # None /\ main' = [IdleMain EXCEPT !.pc = Entry(pb[q].trap), !.pb = q]
        BY <2>4, <3>3, <4>1 DEF IOReturn
      <4>3. q \in Pbs
        BY <3>2, <4>1, <4>2, NextIs
      <4>4. pb[q].trap \in Traps
        BY <1>0, <4>3 DEF DataInv, PbCore
      <4> QED
        BY <2>1, <4>2, <4>3, <4>4
    <3> QED
      BY <2>2, <3>3
  <2>5. CASE \/ DoControl \/ StatusReq \/ StatusAct \/ StatusExtra
             \/ PrimeTakes \/ PrimeMisses \/ PrimeTransfer \/ PrimeReleases
             \/ PrimeFindsSlot \/ PrimeClaimsSlot \/ PrimeParks
             \/ PrimeSchedules \/ PrimeResult
    <3>1. /\ main'.drv = main.drv /\ main'.pb = main.pb
          /\ main'.tmp \in {main.tmp, readStorage.ioReqCount,
                            main.tmp - readStorage.ioActCount}
          /\ main'.pc \in CallPcs
      BY <1>0, <2>5 DEF DoControl, StatusReq, StatusAct, StatusExtra, PrimeTakes,
        PrimeMisses, PrimeTransfer, PrimeReleases, PrimeFindsSlot, PrimeClaimsSlot, PrimeParks,
        PrimeSchedules, PrimeResult, MainShape, CallPcs
    <3>2. main'.tmp \in Int
      BY <1>0, <3>1 DEF PortSide, MainFields, DataInv, ReadSide
    <3> QED
      BY <1>0, <3>1, <3>2 DEF PortSide, MainFields, Opening, CallPcs
  <2> QED
    BY <2>3, <2>4, <2>5 DEF MainIssues, MainCall
<1> QED
  BY <1>0, <1>1, <1>2, <1>4, <1>5 DEF PortSide, MainFields

LEMMA PortIrq ==
  ASSUME StreamBase, IrqStep, main' = main
  PROVE  PortSide'
<1> USE DEF portVars, callVars, infoVars, readVars, writeVars, diskVars, syncVars, flowVars
<1>0. IrqShape /\ PortSide
  BY DEF StreamBase, Inv, CallInv
<1>1. /\ port' = port /\ openResult' = openResult
      /\ vblCount' \in {vblCount, 1, VblTicks} \/ (vblCount > 1 /\ vblCount' = vblCount - 1)
  <2>1. CASE VblTick
    BY <2>1 DEF VblTick, VblCountdown, VblMutexBusy, VblFlush, VblPoll, VblWakes, VblDue
  <2>2. CASE DiskDone
    BY <2>2 DEF DiskDone, WriteDone, WriteFails, ReadDone, ReadFails
  <2>3. CASE IrqWork
    BY <2>3 DEF IrqWork, WakeTakes, WakeSkips, WakeEnds, IrqPrimes, IrqMisses, IrqControls,
      IrqIODone, Park
  <2>4. CASE IrqIssues
    BY <2>4 DEF IrqIssues, IrqIssue
  <2> QED
    BY <2>1, <2>2, <2>3, <2>4 DEF IrqStep
<1>2. vblCount' \in 0 .. VblTicks
  BY <1>0, <1>1, BoundsAssumption DEF PortSide, MainFields
<1>3. irq'.pb \in Pbs \cup {None}
  <2>i. irq' = irq \/ irq' = Resume \/ irq' = [IdleIrq EXCEPT !.pc = "wake"]
        => irq'.pb \in Pbs \cup {None}
    <3>1. irq' = Resume => irq'.pb = None
      BY DEF Resume, IdleIrq
    <3>2. irq' = [IdleIrq EXCEPT !.pc = "wake"] => irq'.pb = None
      BY DEF IdleIrq
    <3> QED
      BY <1>0, <3>1, <3>2 DEF PortSide
  <2>1. CASE VblTick \/ DiskDone
    BY <2>1, <2>i DEF VblTick, VblCountdown, VblMutexBusy, VblFlush, VblPoll, VblWakes,
      DiskDone, WriteDone, WriteFails, ReadDone, ReadFails, StartWakeUp
  <2>2. CASE WakeTakes
    BY <1>0, <2>2 DEF WakeTakes, IrqShape, StreamBase, Inv, CallInv, InfoInv, Workers
  <2>3. CASE WakeSkips
    BY <1>0, <2>3 DEF WakeSkips, IrqShape, PortSide, MainFields
  <2>4. CASE WakeEnds
    BY <2>4 DEF WakeEnds, IdleIrq
  <2>5. CASE IrqPrimes \/ IrqMisses
    <3>1. irq' = Resume \/ irq' = [irq EXCEPT !.pc = "done", !.err = PrimeErr(irq.pb)]
      BY <2>5 DEF IrqPrimes, IrqMisses, Park
    <3> QED
      BY <1>0, <2>i, <3>1 DEF IrqShape, PortSide, MainFields
  <2>6. CASE IrqControls
    BY <1>0, <2>6 DEF IrqControls, IrqShape, PortSide, MainFields
  <2>7. CASE IrqIODone
    <3>1. Mine(irq.pb) /\ Inv
      BY <2>7 DEF IrqIODone, StreamBase, Inv, CallInv, Workers, WorkPcs
    <3>2. PICK q : q = NextCall(irq.pb)
      OBVIOUS
    <3>3. irq' = Resume \/ (q # None /\ irq' = [irq EXCEPT !.pc = "prime", !.pb = q])
      BY <2>7, <3>2 DEF IrqIODone
    <3>4. q # None => q \in Pbs
      BY <3>1, <3>2, NextIs
    <3> QED
      BY <1>0, <2>i, <3>3, <3>4 DEF IrqShape
  <2>8. ASSUME NEW p \in Pbs, NEW c \in IrqCalls, NEW n \in Sizes, IrqIssue(p, c, n)
        PROVE  irq'.pb \in Pbs \cup {None}
    <3>1. irq' = irq \/ irq' = [IdleIrq EXCEPT !.pc = "prime", !.pb = p]
      BY <2>8 DEF IrqIssue
    <3> QED
      BY <2>i, <3>1 DEF IdleIrq
  <2> QED
    BY <2>1, <2>2, <2>3, <2>4, <2>5, <2>6, <2>7, <2>8 DEF IrqStep, IrqWork, IrqIssues
<1>4. CASE IrqIssues
  <2>1. PICK c \in IrqCalls : openResult[c[1]] = noErr /\ (LateOpen \/ ~Opening)
    BY <1>4 DEF IrqIssues, IrqIssue, Enqueue
  <2>2. port = "connected"
    BY <1>0, <2>1, CallsAssumption DEF PortSide, MainFields
  <2> QED
    BY <1>0, <1>1, <1>2, <1>3, <2>1, <2>2 DEF PortSide, MainFields, Opening
<1>5. CASE VblTick \/ DiskDone \/ IrqWork
  <2>1. Untried => Untried'
    BY <1>5, UntriedKept DEF StreamBase
  <2> QED
    BY <1>0, <1>1, <1>2, <1>3, <2>1 DEF PortSide, MainFields, Opening
<1> QED
  BY <1>4, <1>5 DEF IrqStep

LEMMA StreamBaseInit == Init => StreamBase
<1> SUFFICES ASSUME Init
             PROVE  StreamBase
  OBVIOUS
<1>1. Inv /\ MutexInv
  BY InitInv, MutexInit
<1>2. \A p \in Pbs : /\ pb[p] = FreePb /\ outcome[p] = None /\ ~Issued(p)
  BY DEF Init, Issued, FreePb
<1>3. <<>> \in Seq(Nat) /\ <<>> \in Seq(Bytes) /\ Len(<<>>) = 0
  BY EmptySeq
<1>4. DataInv
  <2>1. PbCore
    BY <1>2 DEF PbCore, FreePb, Traps
  <2>2. ReadSide
    BY <1>3, PayloadSizeAssumption DEF Init, ReadSide
  <2>3. WriteSide
    <3>1. txDiscarded \in BOOLEAN
      BY Zenon DEF Init
    <3>2. /\ writeStorage = [ioReqCount |-> 0, ioActCount |-> 0] /\ writeLength = 0
          /\ writePayload = <<>> /\ accepted = <<>> /\ sent = <<>>
      BY DEF Init
    <3> QED
      BY <1>3, <3>1, <3>2 DEF WriteSide
  <2>4. DiskSide /\ Statistics
    BY DEF Init, DiskSide, Statistics, Results, Codes, noErr
  <2> QED
    BY <2>1, <2>2, <2>3, <2>4 DEF DataInv
<1>5. MainCourse /\ IrqCourse
  BY DEF Init, MainCourse, IrqCourse, IdleMain, IdleIrq, MainPcs, PrimePcs, Results, Codes
<1>6. Reports
  <2>1. \A d \in Drivers : Len(queue[d]) = 0
    BY <1>3 DEF Init
  <2>2. outcome \in [Pbs -> Codes \cup {None}]
    BY DEF Init
  <2> QED
    BY <1>2, <2>1, <2>2 DEF Reports, NotMade, CompletedFully, FreePb
<1>7. PbResults
  BY <1>2 DEF PbResults, FreePb, Results, Codes
<1>8. PortSide
  <2>1. openResult \in [Drivers -> {None, noErr, openErr, portNotCf}]
        /\ \A d \in Drivers : openResult[d] # noErr
    BY NoneAssumption DEF Init
  <2>2. vblCount \in 0 .. VblTicks
    BY BoundsAssumption DEF Init
  <2>3. MainFields /\ ~Opening /\ irq.pb = None
    BY DEF Init, MainFields, Opening, IdleMain, IdleIrq
  <2> QED
    BY <1>2, <2>1, <2>2, <2>3 DEF PortSide, Untried, Init
<1> QED
  BY <1>1, <1>4, <1>5, <1>6, <1>7, <1>8 DEF StreamBase

LEMMA StreamBaseKinds ==
  ASSUME StreamBase, [Next]_vars
  PROVE  StepKinds /\ (main.pc = "open3" => main'.pc = "open3" \/ OpenReadAct)
BY Kinds DEF StreamBase

LEMMA StreamBaseNext == StreamBase /\ [Next]_vars => StreamBase'
<1> SUFFICES ASSUME StreamBase, [Next]_vars
             PROVE  StreamBase'
  OBVIOUS
<1>1. Inv' /\ MutexInv'
  BY NextInv, MutexNext DEF StreamBase
<1>2. StepKinds /\ (main.pc = "open3" => main'.pc = "open3" \/ OpenReadAct)
  BY StreamBaseKinds
<1>3. DataInv'
  BY <1>2, DataNext DEF StreamBase, Inv, CallInv
<1>4. Reports'
  BY <1>2, ReportsNext DEF StreamBase
<1>5. PbResults'
  BY PbResultsNext
<1>6. MainCourse' /\ IrqCourse'
  <2>1. CASE MainStep /\ irq' = irq /\ irq.pc = "none"
    <3>1. MainCourse'
      BY <1>2, <2>1, MainCourseNext DEF StreamBase
    <3> QED
      BY <2>1, <3>1 DEF StreamBase, IrqCourse
  <2>2. CASE (IrqStep \/ UNCHANGED vars) /\ main' = main
    <3>1. ~OpenConnResult
      BY <2>2 DEF OpenConnResult, MainAt, Goto, StreamBase, Inv, CallInv, MainShape
    <3>2. MainCourse'
      BY <1>2, <2>2, <3>1, MainKeepsCourse DEF StreamBase
    <3>3. IrqCourse'
      BY <1>2, <2>2, <3>1, IrqKeepsCourse, IrqCourseNext DEF StreamBase, vars
    <3> QED
      BY <3>2, <3>3
  <2> QED
    BY <2>1, <2>2, Sides DEF vars
<1>7. PortSide'
  <2>1. CASE MainStep
    BY <2>1, PortMainOpen, PortMainCall DEF MainStep
  <2>2. CASE IrqStep /\ main' = main
    BY <2>2, PortIrq
  <2>3. CASE UNCHANGED vars
    BY <2>3 DEF StreamBase, PortSide, MainFields, Opening, Untried, Issued, vars, portVars,
      callVars, syncVars
  <2> QED
    BY <2>1, <2>2, <2>3, Sides
<1> QED
  BY <1>1, <1>3, <1>4, <1>5, <1>6, <1>7 DEF StreamBase

LEMMA StreamBaseSafe == Spec => []StreamBase
BY StreamBaseInit, StreamBaseNext, PTL DEF Spec

\* The state keeps its shape.
THEOREM TypesSafe == Spec => []TypeOK
<1>1. StreamBase => TypeOK
  <2> SUFFICES ASSUME StreamBase
               PROVE  TypeOK
    OBVIOUS
  <2>1. pb \in [Pbs -> [drv : Drivers \cup {None}, trap : Traps,
                       ioReqCount : Nat, ioActCount : Int,
                       ioResult : Codes \cup {ioInProgress}, csParam : Int]]
    <3>1. ASSUME NEW p \in Pbs
          PROVE  pb[p] \in [drv : Drivers \cup {None}, trap : Traps,
                       ioReqCount : Nat, ioActCount : Int,
                       ioResult : Codes \cup {ioInProgress}, csParam : Int]
      BY DEF StreamBase, Inv, CallInv, PbShape, DataInv, PbCore, PbResults, Results
    <3> QED
      BY <3>1 DEF StreamBase, Inv, CallInv, PbShape
  <2>2. main \in [pc : MainPcs, pb : Pbs \cup {None}, drv : Drivers \cup {None},
                 err : Codes \cup {ioInProgress}, slot : Slots, tmp : Int]
    BY DEF StreamBase, Inv, CallInv, MainShape, MainCourse, PortSide, MainFields, Results,
      InfoInv
  <2>3. irq \in [pc : {"none", "wake", "prime", "done"}, pb : Pbs \cup {None},
                err : Codes \cup {ioInProgress}, slot : Slots,
                from : {"wake", "client"}]
    BY DEF StreamBase, Inv, CallInv, IrqShape, IrqCourse, PortSide, Results, InfoInv
  <2>4. /\ queue \in [Drivers -> Seq(Pbs)]
        /\ infoRef \in [Slots -> Drivers \cup {None}]
        /\ pendingPb \in [Slots -> Pbs \cup {None}]
        /\ outcome \in [Pbs -> Codes \cup {None}]
        /\ vblMutex \in BOOLEAN /\ inWakeUp \in BOOLEAN
    BY DEF StreamBase, Inv, CallInv, InfoInv, Table, Queues, Workers, Reports, MutexInv,
      WakeUpInIrq
  <2>5. readStorage \in Storage /\ writeStorage \in Storage
    BY PayloadSizeAssumption DEF StreamBase, DataInv, ReadSide, WriteSide, Storage
  <2>6. /\ connResult \in Codes \cup {ioInProgress}
        /\ io \in {"none", "read", "write"}
        /\ readPayload \in Seq(Nat) /\ writePayload \in Seq(Bytes)
        /\ readExtraAvail \in Int /\ writeLength \in Int
        /\ bytes \in [bytesRead : Nat, bytesWritten : Nat]
        /\ accepted \in Seq(Bytes) /\ sent \in Seq(Bytes)
        /\ fetched \in Seq(Nat) /\ delivered \in Seq(Bytes)
        /\ taken \in Nat
        /\ txDiscarded \in BOOLEAN
    BY DEF StreamBase, DataInv, ReadSide, WriteSide, DiskSide, Statistics, Results
  <2>7. /\ port \in {"absent", "installed", "connected"}
        /\ openResult \in [Drivers -> {None, noErr, openErr, portNotCf}]
        /\ vblCount \in 0 .. VblTicks
    BY DEF StreamBase, PortSide
  <2> QED
    BY <2>1, <2>2, <2>3, <2>4, <2>5, <2>6, <2>7 DEF TypeOK
<1> QED
  BY <1>1, StreamBaseSafe, PTL

\* No transfer is reported complete before all of it was moved (doPrime,
\* ioIsComplete).
THEOREM CompletionSafe == Spec => []CompletedFully
<1>1. StreamBase => CompletedFully
  BY DEF StreamBase, Reports
<1> QED
  BY <1>1, StreamBaseSafe, PTL

\* No call is reported failed but with the error that the connection is in at
\* that moment (doPrime, ioIsComplete).
THEOREM FailuresSafe == Spec => FailuresKnown
<1>1. StreamBase /\ [Next]_vars
      => [\A p \in Pbs : outcome'[p] # outcome[p] /\ outcome'[p] # noErr
                        => connResult < 0 /\ outcome'[p] = connResult]_vars
  <2> SUFFICES ASSUME StreamBase, [Next]_vars, NEW q \in Pbs,
                      outcome'[q] # outcome[q], outcome'[q] # noErr
               PROVE  connResult < 0 /\ outcome'[q] = connResult
    OBVIOUS
  <2>1. StepKinds
    BY StreamBaseKinds
  <2>2. PICK p \in Pbs, r \in Int : Completes(p, r)
    BY <2>1, DeviceCalls DEF StepKinds, Silent, Issues, Moves, CallsKept
  <2>3. outcome' = [outcome EXCEPT ![p] = r]
    BY <2>2 DEF Completes, IODone
  <2>4. q = p /\ outcome'[q] = r
    BY <2>3 DEF StreamBase, Reports
  <2>5. r =< 0 /\ r # noErr /\ Earned(p, r)
    BY <2>2, <2>4 DEF Completes, StreamBase, MainCourse, IrqCourse
  <2>6. r < 0
    BY <2>5 DEF noErr
  <2> QED
    BY <2>4, <2>5, <2>6 DEF Earned
<1> QED
  BY <1>1, StreamBaseSafe, PTL DEF Spec, FailuresKnown

\* A broken connection moves nothing until a port is opened.
THEOREM ErrorStops == Spec => NoTrafficAfterError
<1>1. StreamBase /\ [Next]_vars
      => [connResult < 0 => io' = io /\ accepted' = accepted
                            /\ delivered' = delivered /\ sent' = sent]_vars
  <2> SUFFICES ASSUME StreamBase, [Next]_vars, connResult < 0
               PROVE  io' = io /\ accepted' = accepted /\ delivered' = delivered /\ sent' = sent
    OBVIOUS
  <2>1. StepKinds
    BY StreamBaseKinds
  <2>2. /\ connResult # noErr /\ io = "none" /\ PbShape /\ DataInv
    BY DEF StreamBase, DataInv, DiskSide, noErr, ioInProgress, Inv, CallInv
  <2>3. CASE DeviceSteps
    BY <2>2, <2>3 DEF DeviceSteps, VblFlush, VblPoll, WriteDone, WriteFails, ReadDone,
      ReadFails, OpenConnResult, OpenReadReq, OpenReadAct, OpenWrite, ConnOk, diskVars,
      flowVars, writeVars
  <2>4. ASSUME NEW p \in Pbs, Moves(p)
        PROVE  Silent
    BY <2>2, <2>4, MoveKinds DEF MovesIn, MovesOut, ConnOk
  <2>5. CASE ~DeviceSteps
    BY <2>1, <2>4, <2>5 DEF StepKinds, Silent, Issues, Completes, DiskKept, FlowKept, WriteKept
  <2> QED
    BY <2>3, <2>5
<1> QED
  BY <1>1, StreamBaseSafe, PTL DEF Spec, NoTrafficAfterError

-----------------------------------------------------------------------------
\* The streams, while ports are opened before they are used.

\* Before the first call nothing has moved.
Fresh == /\ accepted = <<>> /\ delivered = <<>> /\ sent = <<>>
         /\ writeStorage.ioActCount = 0 /\ readStorage.ioActCount = 0

OthersSane == \A p \in Pbs : pb[p].trap # "aWrCmd" => Sane(pb[p])
ReadSane == readStorage.ioActCount =< readStorage.ioReqCount

\* The streams hold because the floppy I/O works on a buffer that nobody
\* else fills or drains meanwhile, and a failed one ends the traffic.
Streams ==
    /\ Untried => Fresh
    /\ io = "write" => writeLength = writeStorage.ioActCount /\ writeStorage.ioActCount > 0
    /\ io = "read" => ReadExhausted
    /\ OthersSane /\ ReadSane
    /\ WriteStream /\ ReadStream

\* Whatever happens while nobody has made a call.
LEMMA UntriedSteps ==
  ASSUME Inv, DataInv, StepKinds, Untried'
  PROVE  Untried /\ (Silent \/ DeviceSteps)
<1>0. PbShape
  BY DEF Inv, CallInv
<1>1. CASE Silent
  BY <1>1 DEF Silent, CoreKept, SameCore, Untried, Issued
<1>2. ASSUME NEW p \in Pbs, NEW c \in Calls \cup IrqCalls, NEW n \in Sizes, Issues(p, c, n)
      PROVE  FALSE
  <2>1. pb'[p].drv = c[1]
    BY <1>0, <1>2, CoreIssued DEF Issues
  <2> QED
    BY <2>1, CallsAssumption, DriversAssumption DEF Untried, Issued
<1>3. ASSUME NEW p \in Pbs, Moves(p) \/ \E r \in Int : Completes(p, r)
      PROVE  FALSE
  <2>1. Issued(p)
    BY <1>3, WorkedOn, DriversAssumption DEF Mine, Issued
  <2>2. pb'[p].drv = pb[p].drv
    BY <2>1, CallKept
  <2> QED
    BY <2>1, <2>2 DEF Untried, Issued
<1>4. CASE DeviceSteps
  BY <1>4, DeviceCalls DEF Untried, Issued
<1> QED
  BY <1>1, <1>2, <1>3, <1>4 DEF StepKinds

\* doOpen is at work only then.
LEMMA OpenUntried ==
  ASSUME StreamBase, ~LateOpen, OpenConnResult \/ OpenReadReq \/ OpenReadAct \/ OpenWrite
  PROVE  Untried
BY DEF StreamBase, PortSide, OpenConnResult, OpenReadReq, OpenReadAct, OpenWrite, MainAt,
  Opening

LEMMA FreshNext ==
  ASSUME StreamBase, Streams, ~LateOpen, StepKinds
  PROVE  Untried' => Fresh'
<1> SUFFICES ASSUME Untried'
             PROVE  Fresh'
  OBVIOUS
<1> USE DEF readVars, writeVars, flowVars, diskVars
<1>1. Untried /\ Fresh /\ (Silent \/ DeviceSteps)
  BY UntriedSteps DEF StreamBase, Streams
<1>2. io # "write"
  BY <1>1 DEF Streams, Fresh
<1>3. CASE Silent
  BY <1>1, <1>3 DEF Silent, ReadKept, WriteKept, FlowKept, Fresh
<1>4. ~VblFlush /\ ~WriteDone /\ ~WriteFails
  BY <1>1, <1>2 DEF VblFlush, WriteDone, WriteFails, Fresh
<1>5. CASE VblPoll \/ ReadFails \/ OpenConnResult
  BY <1>1, <1>5 DEF VblPoll, ReadFails, OpenConnResult, Fresh
<1>6. CASE ReadDone
  BY <1>1, <1>6 DEF ReadDone, Filled, Fresh
<1>7. CASE OpenReadReq \/ OpenReadAct
  <2>1. readStorage'.ioActCount \in {readStorage.ioActCount, 0}
    BY <1>7 DEF OpenReadReq, OpenReadAct, StreamBase, DataInv, ReadSide
  <2> QED
    BY <1>1, <1>7, <2>1 DEF OpenReadReq, OpenReadAct, Fresh
<1>8. CASE OpenWrite
  BY <1>1, <1>8 DEF OpenWrite, Fresh
<1> QED
  BY <1>1, <1>3, <1>4, <1>5, <1>6, <1>7, <1>8 DEF DeviceSteps

\* The flags of the floppy I/O and the readers' counts.
SaneStreams ==
    /\ io = "write" => writeLength = writeStorage.ioActCount /\ writeStorage.ioActCount > 0
    /\ io = "read" => ReadExhausted
    /\ OthersSane /\ ReadSane

LEMMA SanityNext ==
  ASSUME StreamBase, Streams, ~LateOpen, StepKinds
  PROVE  SaneStreams'
<1> USE DEF readVars, writeVars, flowVars, diskVars
<1>0. PbShape /\ DataInv /\ Inv /\ SaneStreams
  BY DEF StreamBase, Inv, CallInv, Streams, SaneStreams
<1>a. ASSUME ReadKept, WriteKept, DiskKept, CoreKept
      PROVE  SaneStreams'
  <2>1. OthersSane'
    BY <1>0, <1>a DEF SaneStreams, OthersSane, CoreKept, SameCore, Sane
  <2> QED
    BY <1>0, <1>a, <2>1 DEF SaneStreams, ReadSane, ReadExhausted, ReadKept, WriteKept, DiskKept
<1>1. CASE Silent
  BY <1>1, <1>a DEF Silent
<1>2. ASSUME NEW p \in Pbs, NEW c \in Calls \cup IrqCalls, NEW n \in Sizes, Issues(p, c, n)
      PROVE  SaneStreams'
  <2>1. /\ pb'[p].ioReqCount = n /\ pb'[p].ioActCount = 0 /\ n \in Nat
        /\ \A q \in Pbs : q # p => pb'[q] = pb[q]
    BY <1>0, <1>2, CoreIssued, SizesAssumption DEF Issues
  <2>2. OthersSane'
    BY <1>0, <2>1 DEF SaneStreams, OthersSane, Sane
  <2> QED
    BY <1>0, <1>2, <2>2 DEF SaneStreams, ReadSane, ReadExhausted, Issues, ReadKept, WriteKept,
      DiskKept
<1>3. ASSUME NEW p \in Pbs, Moves(p), ~Silent
      PROVE  SaneStreams'
  <2>1. io' = "none"
    BY <1>3 DEF Moves, DiskKept
  <2>2. ASSUME NEW n \in Int, MovesIn(p, n)
        PROVE  OthersSane' /\ ReadSane'
    <3>1. /\ Sane(pb[p]) /\ readStorage.ioActCount =< readStorage.ioReqCount
          /\ pb[p].ioActCount \in Int /\ pb[p].ioReqCount \in Int
      BY <1>0, <2>2 DEF SaneStreams, OthersSane, ReadSane, MovesIn, DataInv, PbCore
    <3>2. n \in Nat /\ n =< Left(pb[p])
      BY <1>0, <2>2, <3>1, InBounds
    <3>3. ReadSane'
      BY <1>0, <2>2, InBounds DEF ReadSane
    <3>4. /\ pb'[p].ioReqCount = pb[p].ioReqCount /\ pb'[p].ioActCount = pb[p].ioActCount + n
          /\ \A q \in Pbs : q # p => SameCore(q)
      BY <2>2 DEF MovesIn, Counted1
    <3>5. Sane(pb'[p])
      BY <3>1, <3>2, <3>4 DEF Sane, Left
    <3>6. OthersSane'
      BY <1>0, <3>4, <3>5 DEF SaneStreams, OthersSane, SameCore, Sane
    <3> QED
      BY <3>3, <3>6
  <2>3. ASSUME NEW n \in Int, MovesOut(p, n)
        PROVE  OthersSane' /\ ReadSane'
    <3>1. /\ pb'[p].trap = "aWrCmd"
          /\ \A q \in Pbs : q # p => SameCore(q)
      BY <2>3 DEF MovesOut, Counted1
    <3>2. OthersSane'
      BY <1>0, <3>1 DEF SaneStreams, OthersSane, SameCore, Sane
    <3> QED
      BY <1>0, <2>3, <3>2 DEF MovesOut, ReadKept, ReadSane, SaneStreams
  <2> QED
    BY <1>0, <1>3, <2>1, <2>2, <2>3, MoveKinds DEF SaneStreams
<1>4. ASSUME NEW p \in Pbs, NEW r \in Int, Completes(p, r)
      PROVE  SaneStreams'
  BY <1>0, <1>4, <1>a, CoreSame DEF Completes, IODone
<1>5. CASE DeviceSteps
  <2>0. pb' = pb /\ (OthersSane => OthersSane')
    BY <1>5, DeviceCalls DEF OthersSane, Sane
  <2>p. /\ readStorage.ioActCount \in Nat /\ readStorage.ioReqCount \in Nat
        /\ writeStorage.ioActCount \in Nat
    BY <1>0 DEF DataInv, ReadSide, WriteSide
  <2>1. CASE VblFlush
    BY <1>0, <2>0, <2>1 DEF VblFlush, SaneStreams, ReadSane, ReadExhausted
  <2>2. CASE VblPoll
    BY <1>0, <2>0, <2>2 DEF VblPoll, SaneStreams, ReadSane, ReadExhausted
  <2>3. CASE WriteDone
    <3>1. readStorage' = readStorage /\ io' \in {"none", "read"}
          /\ (io' = "read" => ReadExhausted)
      BY <2>3 DEF WriteDone
    <3> QED
      BY <1>0, <2>0, <3>1 DEF SaneStreams, ReadSane, ReadExhausted
  <2>4. CASE WriteFails \/ ReadFails
    BY <1>0, <2>0, <2>4 DEF WriteFails, ReadFails, SaneStreams, ReadSane, ReadExhausted
  <2>5. CASE ReadDone
    <3>1. PICK avail \in readExtraAvail .. MaxIn - taken : readStorage' = Filled(FetchCount(avail))
      BY <2>5 DEF ReadDone
    <3>2. FetchCount(avail) \in Nat
      BY PayloadSizeAssumption DEF FetchCount, Overflows
    <3>3. io' = "none"
      BY <2>5 DEF ReadDone
    <3> QED
      BY <1>0, <2>0, <3>1, <3>2, <3>3 DEF SaneStreams, ReadSane, Filled
  <2>6. CASE OpenConnResult
    BY <1>0, <2>0, <2>6 DEF OpenConnResult, SaneStreams, ReadSane, ReadExhausted
  <2>7. CASE OpenReadReq \/ OpenReadAct
    <3>1. Fresh /\ io # "write"
      BY <2>7, OpenUntried DEF Streams, Fresh
    <3>2. /\ readStorage'.ioActCount = 0
          /\ readStorage'.ioReqCount \in {0, readStorage.ioReqCount}
          /\ io = "read" => readStorage'.ioReqCount = 0
      BY <1>0, <2>p, <2>7, <3>1 DEF OpenReadReq, OpenReadAct, DataInv, ReadSide, SaneStreams,
        ReadExhausted, Fresh
    <3> QED
      BY <1>0, <2>0, <2>7, <2>p, <3>1, <3>2 DEF OpenReadReq, OpenReadAct, SaneStreams, ReadSane,
        ReadExhausted
  <2>8. CASE OpenWrite
    <3>1. Fresh /\ io # "write"
      BY <2>8, OpenUntried DEF Streams, Fresh
    <3> QED
      BY <1>0, <2>0, <2>8, <3>1 DEF OpenWrite, SaneStreams, ReadSane, ReadExhausted
  <2> QED
    BY <1>5, <2>1, <2>2, <2>3, <2>4, <2>5, <2>6, <2>7, <2>8 DEF DeviceSteps
<1> QED
  BY <1>1, <1>2, <1>3, <1>4, <1>5 DEF StepKinds

-----------------------------------------------------------------------------
Joins(c, a, b) == c = a \o b
Part(x, s, m, n) == x = SubSeq(s, m, n)

LEMMA Assoc ==
  ASSUME NEW S, NEW s \in Seq(S), NEW t \in Seq(S), NEW u \in Seq(S),
         NEW a, Joins(a, s, t), NEW b, Joins(b, t, u), NEW c, Joins(c, a, u)
  PROVE  Joins(c, s, b)
<1>1. (s \o t) \o u = s \o (t \o u)
  BY ConcatAssociative
<1> QED
  BY <1>1, Zenon DEF Joins

\* d goes behind h, the first at bytes of w; then h behind out makes acc, and
\* d behind acc makes more.
Follows(S, w, at, d, out, h, g, acc, more) ==
    /\ w \in Seq(S) /\ d \in Seq(S) /\ out \in Seq(S)
    /\ at \in Nat /\ at =< Len(w)
    /\ Part(h, w, 1, at) /\ Part(g, Overlay(w, at, d), 1, at + Len(d))
    /\ Joins(acc, out, h) /\ Joins(more, acc, d)

\* Staging more bytes behind those that wait.
LEMMA StagedMore ==
  ASSUME NEW S, NEW w, NEW at, NEW d, NEW out, NEW h, NEW g, NEW acc, NEW more,
         Follows(S, w, at, d, out, h, g, acc, more)
  PROVE  Joins(g, h, d) /\ Joins(more, out, g)
<1> USE DEF Follows
<1>0. w \in Seq(S) /\ Len(w) \in Nat /\ at \in Nat /\ at =< Len(w)
      /\ d \in Seq(S) /\ out \in Seq(S)
  BY LenProperties
<1>1. SubSeq(w, 1, at) \in Seq(S)
  BY <1>0, PartOf
<1>2. h \in Seq(S)
  BY <1>1, Zenon DEF Part
<1>3. SubSeq(Overlay(w, at, d), 1, at + Len(d)) = SubSeq(w, 1, at) \o d
  BY OverlayLaw
<1>4. Joins(g, h, d)
  BY <1>3, Zenon DEF Joins, Part
<1>5. Joins(more, out, g)
  BY <1>2, <1>4, Assoc
<1> QED
  BY <1>4, <1>5

\* x and y are the next n bytes and the rest of z, the bytes a+1 .. b of r;
\* z follows u in f, and x follows u in v.
Ahead(S, r, a, n, b, u, x, y, z, v, f) ==
    /\ r \in Seq(S) /\ u \in Seq(S)
    /\ a \in Nat /\ n \in Nat /\ b \in Nat /\ a + n =< b /\ b =< Len(r)
    /\ Part(x, r, a + 1, a + n) /\ Part(y, r, a + n + 1, b) /\ Part(z, r, a + 1, b)
    /\ Joins(v, u, x) /\ Joins(f, u, z)

\* Handing over the first n of the bytes that wait.
LEMMA HandedOver ==
  ASSUME NEW S, NEW r, NEW a, NEW n, NEW b, NEW u, NEW x, NEW y, NEW z, NEW v, NEW f,
         Ahead(S, r, a, n, b, u, x, y, z, v, f)
  PROVE  Joins(f, v, y)
<1> USE DEF Ahead
<1>0. /\ r \in Seq(S) /\ Len(r) \in Nat /\ u \in Seq(S)
      /\ a \in Nat /\ n \in Nat /\ b \in Nat /\ a + n =< b /\ b =< Len(r)
  BY LenProperties
<1>3. x \in Seq(S)
  <2>1. a + 1 \in Int /\ a + n \in Int /\ 1 =< a + 1 /\ a + n =< Len(r)
    BY <1>0
  <2>2. SubSeq(r, a + 1, a + n) \in Seq(S)
    BY <2>1, PartOf
  <2> QED
    BY <2>2, Zenon DEF Part
<1>4. y \in Seq(S)
  <2>1. a + n + 1 \in Int /\ b \in Int /\ 1 =< a + n + 1 /\ b =< Len(r)
    BY <1>0
  <2>2. SubSeq(r, a + n + 1, b) \in Seq(S)
    BY <2>1, PartOf
  <2> QED
    BY <2>2, Zenon DEF Part
<1>5. Joins(z, x, y)
  <2>1. SubSeq(r, a + 1, b) = SubSeq(r, a + 1, a + n) \o SubSeq(r, a + n + 1, b)
    BY Cut
  <2> QED
    BY <2>1, Zenon DEF Joins, Part
<1>6. PICK c : Joins(c, v, y)
  BY Zenon DEF Joins
<1>7. Joins(c, u, z)
  BY <1>3, <1>4, <1>5, <1>6, Assoc
<1>8. c = f
  BY <1>7, Zenon DEF Joins
<1> QED
  BY <1>6, <1>8

\* What the two buffers hold.
LEMMA Buffers ==
  ASSUME DataInv
  PROVE  /\ Staged \in Seq(Bytes) /\ Len(Staged) = writeStorage.ioActCount
         /\ Unread \in Seq(Nat)
         /\ ReadSane => Len(Unread) = readStorage.ioReqCount - readStorage.ioActCount
<1>1. /\ writePayload \in Seq(Bytes) /\ Len(writePayload) \in Nat
      /\ writeStorage.ioActCount \in Nat /\ writeStorage.ioActCount =< Len(writePayload)
  BY LenProperties DEF DataInv, WriteSide
<1>2. Staged \in Seq(Bytes) /\ Len(Staged) = IF 1 =< writeStorage.ioActCount
                                            THEN writeStorage.ioActCount - 1 + 1 ELSE 0
  BY <1>1, PartOf DEF Staged
<1>3. /\ readPayload \in Seq(Nat) /\ Len(readPayload) \in Nat
      /\ readStorage.ioActCount \in Nat /\ readStorage.ioReqCount \in Nat
      /\ readStorage.ioReqCount =< Len(readPayload)
  BY LenProperties DEF DataInv, ReadSide
<1>4. PICK a : a = readStorage.ioActCount
  OBVIOUS
<1>5. PICK b : b = readStorage.ioReqCount
  OBVIOUS
<1>6. SubSeq(readPayload, a + 1, b) \in Seq(Nat)
      /\ Len(SubSeq(readPayload, a + 1, b)) = IF a + 1 =< b THEN b - (a + 1) + 1 ELSE 0
  <2>1. a + 1 \in Int /\ b \in Int /\ 1 =< a + 1 /\ b =< Len(readPayload)
    BY <1>3, <1>4, <1>5
  <2> QED
    BY <1>3, <2>1, PartOf
<1>7. a =< b => Len(SubSeq(readPayload, a + 1, b)) = b - a
  BY <1>3, <1>4, <1>5, <1>6
<1>8. Staged \in Seq(Bytes) /\ Len(Staged) = writeStorage.ioActCount
  BY <1>1, <1>2
<1> QED
  BY <1>4, <1>5, <1>6, <1>7, <1>8 DEF Unread, ReadSane

LEMMA UnreadNone ==
  ASSUME DataInv, ReadExhausted
  PROVE  Unread = <<>>
<1>1. /\ readStorage.ioActCount + 1 \in Int /\ readStorage.ioReqCount \in Int
      /\ readStorage.ioReqCount < readStorage.ioActCount + 1
  BY DEF DataInv, ReadSide, ReadExhausted
<1> QED
  BY <1>1, SubSeqEmpty DEF Unread

LEMMA StagedNone ==
  ASSUME writeStorage.ioActCount = 0
  PROVE  Staged = <<>>
BY SubSeqEmpty DEF Staged

\* What a transfer out does to the stream.
LEMMA WriteMoves ==
  ASSUME StreamBase, Streams, NEW p \in Pbs, NEW n \in Int, MovesOut(p, n)
  PROVE  /\ Staged' = Staged \o BytesOf(p, pb[p].ioActCount, n)
         /\ sent' \o Staged' = accepted'
<1>1. sent \o Staged = accepted /\ DataInv /\ PbShape
  BY DEF StreamBase, Streams, WriteStream, MovesOut, ConnOk, noErr, Inv, CallInv
<1>2. PICK d : d = BytesOf(p, pb[p].ioActCount, n)
  OBVIOUS
<1>3. /\ d \in Seq(Bytes) /\ Len(d) = n /\ n \in Nat
      /\ writeStorage'.ioActCount = writeStorage.ioActCount + n
  BY <1>1, <1>2, OutBounds
<1>4. /\ sent' = sent /\ accepted' = accepted \o d
      /\ writePayload' = Overlay(writePayload, writeStorage.ioActCount, d)
  BY <1>2 DEF MovesOut
<1>5. PICK a : a = writeStorage.ioActCount
  OBVIOUS
<1>6. /\ a \in Nat /\ writePayload \in Seq(Bytes) /\ sent \in Seq(Bytes)
      /\ a =< Len(writePayload)
  BY <1>1, <1>5 DEF DataInv, WriteSide
<1>h. PICK h : Part(h, writePayload, 1, a)
  BY Zenon DEF Part
<1>g. PICK g : Part(g, Overlay(writePayload, a, d), 1, a + n)
  BY Zenon DEF Part
<1>m. PICK m : Joins(m, accepted, d)
  BY Zenon DEF Joins
<1>7. Joins(accepted, sent, h)
  BY <1>1, <1>5, <1>h, Zenon DEF Staged, Part, Joins
<1>8. Joins(g, h, d) /\ Joins(m, sent, g)
  <2>1. Len(d) = n /\ d \in Seq(Bytes)
    BY <1>3
  <2>2. Follows(Bytes, writePayload, a, d, sent, h, g, accepted, m)
    BY <1>6, <1>7, <1>h, <1>g, <1>m, <2>1, Zenon DEF Follows
  <2> QED
    BY <2>2, StagedMore, Zenon
<1>9. Staged' = g
  BY <1>3, <1>4, <1>5, <1>g, Zenon DEF Staged, Part
<1>10. Staged = h
  BY <1>5, <1>h, Zenon DEF Staged, Part
<1>11. Staged' = Staged \o d
  BY <1>8, <1>9, <1>10, Zenon DEF Joins
<1>12. sent' \o Staged' = accepted'
  BY <1>4, <1>8, <1>9, <1>m, Zenon DEF Joins
<1> QED
  BY <1>2, <1>11, <1>12, Zenon

\* And a transfer in.
LEMMA ReadMoves ==
  ASSUME StreamBase, Streams, NEW p \in Pbs, NEW n \in Int, MovesIn(p, n)
  PROVE  /\ n \in Nat
         /\ Unread' = SubSeq(readPayload, readStorage.ioActCount + n + 1,
                             readStorage.ioReqCount)
         /\ Untagged(delivered') \o Unread' = fetched'
<1>1. Untagged(delivered) \o Unread = fetched /\ DataInv /\ PbShape /\ ReadSane
  BY DEF StreamBase, Streams, ReadStream, Inv, CallInv
<1>2. PICK a : a = readStorage.ioActCount
  OBVIOUS
<1>3. PICK b : b = readStorage.ioReqCount
  OBVIOUS
<1>4. PICK s : s = SubSeq(readPayload, a + 1, a + n)
  OBVIOUS
<1>5. /\ n \in Nat /\ a + n =< b /\ s \in Seq(Nat)
      /\ readStorage'.ioReqCount = b /\ readStorage'.ioActCount = a + n
  BY <1>1, <1>2, <1>3, <1>4, InBounds DEF ReadSane
<1>6. /\ delivered' = delivered \o Tagged(p, s) /\ fetched' = fetched
      /\ readPayload' = readPayload
  BY <1>2, <1>4 DEF MovesIn
<1>7. /\ a \in Nat /\ b \in Nat /\ b =< Len(readPayload) /\ readPayload \in Seq(Nat)
      /\ delivered \in Seq(Bytes)
  BY <1>1, <1>2, <1>3 DEF DataInv, ReadSide
<1>8. PICK u : u = Untagged(delivered)
  OBVIOUS
<1>9. u \in Seq(Nat)
  BY <1>7, <1>8, UntaggedLaw
<1>y. PICK y : Part(y, readPayload, a + n + 1, b)
  BY Zenon DEF Part
<1>z. PICK z : Part(z, readPayload, a + 1, b)
  BY Zenon DEF Part
<1>v. PICK v : Joins(v, u, s)
  BY Zenon DEF Joins
<1>10. Joins(fetched, u, z)
  BY <1>1, <1>2, <1>3, <1>8, <1>z, Zenon DEF Unread, Joins, Part
<1>s. Part(s, readPayload, a + 1, a + n)
  BY <1>4, Zenon DEF Part
<1>11. Joins(fetched, v, y)
  <2>1. Ahead(Nat, readPayload, a, n, b, u, s, y, z, v, fetched)
    BY <1>5, <1>7, <1>9, <1>10, <1>s, <1>v, <1>y, <1>z, Zenon DEF Ahead
  <2> QED
    BY <2>1, HandedOver, Zenon
<1>12. Untagged(delivered') = u \o s
  BY <1>5, <1>6, <1>7, <1>8, DeliverLaw
<1>13. Unread' = y
  BY <1>5, <1>6, <1>y, Zenon DEF Unread, Part
<1>14. Untagged(delivered') \o Unread' = fetched'
  BY <1>6, <1>11, <1>12, <1>13, <1>v, Zenon DEF Joins
<1>15. Unread' = SubSeq(readPayload, readStorage.ioActCount + n + 1, readStorage.ioReqCount)
  BY <1>2, <1>3, <1>13, <1>y, Zenon DEF Part
<1> QED
  BY <1>5, <1>14, <1>15

\* A reply puts its bytes where the last ones were.
LEMMA ReadArrives ==
  ASSUME StreamBase, Streams, ReadDone
  PROVE  /\ Untagged(delivered') \o Unread' = fetched'
         /\ \E n \in 0 .. PayloadSize :
              /\ n =< MaxIn - taken \/ n = 0
              /\ Unread' = [i \in 1 .. n |-> taken + i]
              /\ taken' = taken + n
<1>0. DataInv /\ ReadExhausted /\ Untagged(delivered) \o Unread = fetched
  BY DEF StreamBase, Streams, ReadDone, ReadStream
<1>1. PICK avail \in readExtraAvail .. MaxIn - taken :
         LET n == FetchCount(avail)
             data == [i \in 1 .. n |-> taken + i]
         IN  /\ readStorage' = Filled(n)
             /\ readExtraAvail' = ExtraAvail(avail)
             /\ readPayload' = Overlay(readPayload, 0, data)
             /\ fetched' = fetched \o data
             /\ taken' = taken + n
  BY DEF ReadDone
<1>2. PICK n : n = FetchCount(avail)
  OBVIOUS
<1>3. PICK data : data = [i \in 1 .. n |-> taken + i]
  OBVIOUS
<1>4. /\ readStorage' = Filled(n) /\ readPayload' = Overlay(readPayload, 0, data)
      /\ fetched' = fetched \o data /\ taken' = taken + n
      /\ delivered' = delivered
  <2>1. /\ readStorage' = Filled(n)
        /\ readPayload' = Overlay(readPayload, 0, data)
        /\ fetched' = fetched \o data
        /\ taken' = taken + n
    BY <1>1, <1>2, <1>3, Zenon
  <2>2. delivered' = delivered
    BY DEF ReadDone, flowVars
  <2> QED
    BY <2>1, <2>2, Zenon
<1>5. /\ n \in Nat /\ n =< PayloadSize /\ data \in Seq(Nat) /\ Len(data) = n
      /\ avail \in Nat /\ PayloadSize \in Nat
  <2>1. avail \in Nat
    BY <1>0 DEF DataInv, ReadSide
  <2> QED
    BY <1>0, <1>2, <1>3, <2>1, FetchLaw, PayloadSizeAssumption
<1>6. readPayload \in Seq(Nat) /\ 0 =< Len(readPayload) /\ 0 \in Nat
      /\ delivered \in Seq(Bytes)
  BY <1>0, LenProperties DEF DataInv, ReadSide
<1>7. SubSeq(Overlay(readPayload, 0, data), 1, 0 + Len(data)) = SubSeq(readPayload, 1, 0) \o data
  BY <1>5, <1>6, OverlayLaw
<1>8. SubSeq(readPayload, 1, 0) = <<>> /\ <<>> \o data = data
  BY <1>5, SubSeqEmpty, ConcatEmptySeq
<1>9. Unread' = SubSeq(Overlay(readPayload, 0, data), 1, n)
  <2>1. readStorage'.ioActCount + 1 = 1 /\ readStorage'.ioReqCount = n
    BY <1>4 DEF Filled
  <2> QED
    BY <1>4, <2>1 DEF Unread
<1>10. Unread' = data
  BY <1>5, <1>7, <1>8, <1>9
<1>11. Untagged(delivered) = fetched
  <2>1. Unread = <<>>
    BY <1>0, UnreadNone
  <2>2. PICK u : u = Untagged(delivered)
    OBVIOUS
  <2>3. u \in Seq(Nat)
    BY <1>6, <2>2, UntaggedLaw
  <2>4. u \o <<>> = u
    BY <2>3, ConcatEmptySeq
  <2> QED
    BY <1>0, <2>1, <2>2, <2>4
<1>12. n =< MaxIn - taken \/ n = 0
  <2>1. avail =< MaxIn - taken /\ taken \in Nat /\ MaxIn \in Nat
    BY <1>0, BoundsAssumption DEF DataInv, ReadSide
  <2>2. CASE ~Overflows(avail)
    BY <1>2, <2>1, <2>2 DEF FetchCount
  <2>3. CASE avail > PayloadSize
    BY <1>2, <1>5, <2>1, <2>3 DEF FetchCount
  <2> QED
    BY <1>5, <2>2, <2>3 DEF Overflows
<1>13. n \in 0 .. PayloadSize
  BY <1>5
<1> QED
  BY <1>3, <1>4, <1>10, <1>11, <1>12, <1>13

-----------------------------------------------------------------------------
\* The two streams are kept by every step.

LEMMA WriteStreamKept ==
  ASSUME WriteStream, UNCHANGED <<sent, accepted, writeStorage, writePayload>>,
         connResult < 0 => connResult' = connResult
  PROVE  WriteStream'
BY DEF WriteStream, Staged

LEMMA ReadStreamKept ==
  ASSUME ReadStream, UNCHANGED <<fetched, delivered, readStorage, readPayload>>
  PROVE  ReadStream'
BY DEF ReadStream, Unread

LEMMA WriteStreamNext ==
  ASSUME StreamBase, Streams, ~LateOpen, StepKinds
  PROVE  WriteStream'
<1> USE DEF readVars, writeVars, flowVars, diskVars
<1>0. PbShape /\ DataInv /\ Inv /\ WriteStream
  BY DEF StreamBase, Inv, CallInv, Streams
<1>1. CASE ~DeviceSteps
  <2>1. connResult < 0 => connResult' = connResult
    BY <1>0, <1>1, ErrorStays DEF DeviceSteps
  <2>2. CASE \/ Silent
             \/ \E p \in Pbs, c \in Calls \cup IrqCalls, n \in Sizes : Issues(p, c, n)
             \/ \E p \in Pbs, r \in Int : Completes(p, r)
    <3>1. UNCHANGED <<sent, accepted, writeStorage, writePayload>>
      BY <2>2 DEF Silent, Issues, Completes, WriteKept, FlowKept
    <3> QED
      BY <1>0, <2>1, <3>1, WriteStreamKept
  <2>3. ASSUME NEW p \in Pbs, NEW n \in Int, MovesIn(p, n)
        PROVE  WriteStream'
    <3>1. UNCHANGED <<sent, accepted, writeStorage, writePayload>>
      BY <2>3 DEF MovesIn, WriteKept
    <3> QED
      BY <1>0, <2>1, <3>1, WriteStreamKept
  <2>4. ASSUME NEW p \in Pbs, NEW n \in Int, MovesOut(p, n)
        PROVE  WriteStream'
    <3>1. sent' \o Staged' = accepted'
      BY <2>4, WriteMoves
    <3> QED
      BY <3>1, Zenon DEF WriteStream
  <2>5. ASSUME NEW p \in Pbs, Moves(p)
        PROVE  WriteStream'
    BY <1>0, <2>2, <2>3, <2>4, <2>5, MoveKinds
  <2> QED
    BY <1>1, <2>2, <2>5 DEF StepKinds
<1>2. CASE VblFlush \/ VblPoll \/ ReadDone \/ ReadFails \/ OpenReadReq \/ OpenReadAct
  <2>1. connResult < 0 => connResult' = connResult
    <3>1. ~OpenConnResult
      BY <1>2 DEF VblFlush, VblPoll, ReadDone, ReadFails, OpenConnResult, OpenReadReq,
        OpenReadAct, MainAt, Goto, StreamBase, Inv, CallInv, MainShape
    <3> QED
      BY <1>0, <3>1, ErrorStays
  <2>2. UNCHANGED <<sent, accepted, writeStorage, writePayload>>
    BY <1>2 DEF VblFlush, VblPoll, ReadDone, ReadFails, OpenReadReq, OpenReadAct
  <2> QED
    BY <1>0, <2>1, <2>2, WriteStreamKept
<1>3. CASE OpenConnResult \/ OpenWrite
  <2>1. Fresh
    BY <1>3, OpenUntried DEF Streams
  <2>2. sent' = <<>> /\ accepted' = <<>> /\ writeStorage'.ioActCount = 0
    BY <1>3, <2>1 DEF OpenConnResult, OpenWrite, Fresh
  <2>3. Staged' = <<>>
    BY <2>2, SubSeqEmpty DEF Staged
  <2>4. sent' \o Staged' = accepted'
    BY <2>2, <2>3
  <2> QED
    BY <2>4, Zenon DEF WriteStream
<1>4. CASE WriteDone \/ WriteFails
  <2>1. io = "write" /\ writeLength = writeStorage.ioActCount /\ ~(connResult < 0)
    BY <1>0, <1>4 DEF WriteDone, WriteFails, Streams, DataInv, DiskSide, noErr, ioInProgress
  <2>2. sent \o Staged = accepted /\ SubSeq(writePayload, 1, writeLength) = Staged
    BY <2>1, <1>0, Zenon DEF WriteStream, Staged
  <2>3. CASE WriteDone
    <3>1. sent' = accepted /\ accepted' = accepted /\ writeStorage'.ioActCount = 0
      <4>1. sent' = sent \o SubSeq(writePayload, 1, writeLength) /\ accepted' = accepted
        BY <2>3 DEF WriteDone
      <4>2. writeStorage'.ioActCount = 0
        BY <1>0, <2>3 DEF WriteDone, Emptied, DataInv, WriteSide
      <4> QED
        BY <2>2, <4>1, <4>2, Zenon
    <3>2. Staged' = <<>>
      BY <3>1, SubSeqEmpty DEF Staged
    <3>3. accepted \in Seq(Bytes)
      BY <1>0 DEF DataInv, WriteSide
    <3>4. accepted \o <<>> = accepted
      BY <3>3, ConcatEmptySeq
    <3> QED
      BY <3>1, <3>2, <3>4, Zenon DEF WriteStream
  <2>4. CASE WriteFails
    <3>1. /\ sent' = sent \/ sent' = sent \o SubSeq(writePayload, 1, writeLength)
          /\ connResult' = ioErr /\ accepted' = accepted /\ writeStorage' = writeStorage
          /\ writePayload' = writePayload
      BY <2>4 DEF WriteFails
    <3>2. connResult' < 0
      BY <3>1 DEF ioErr
    <3>3. Staged' = Staged
      BY <3>1, Zenon DEF Staged
    <3> QED
      BY <2>2, <3>1, <3>2, <3>3, Zenon DEF WriteStream
  <2> QED
    BY <1>4, <2>3, <2>4
<1> QED
  BY <1>1, <1>2, <1>3, <1>4 DEF DeviceSteps

LEMMA ReadStreamNext ==
  ASSUME StreamBase, Streams, ~LateOpen, StepKinds
  PROVE  ReadStream'
<1> USE DEF readVars, writeVars, flowVars, diskVars
<1>0. PbShape /\ DataInv /\ Inv /\ ReadStream
  BY DEF StreamBase, Inv, CallInv, Streams
<1>1. CASE ~DeviceSteps
  <2>2. CASE \/ Silent
             \/ \E p \in Pbs, c \in Calls \cup IrqCalls, n \in Sizes : Issues(p, c, n)
             \/ \E p \in Pbs, r \in Int : Completes(p, r)
    <3>1. UNCHANGED <<fetched, delivered, readStorage, readPayload>>
      BY <2>2 DEF Silent, Issues, Completes, ReadKept, FlowKept
    <3> QED
      BY <1>0, <3>1, ReadStreamKept
  <2>3. ASSUME NEW p \in Pbs, NEW n \in Int, MovesIn(p, n)
        PROVE  ReadStream'
    BY <2>3, ReadMoves, Zenon DEF ReadStream
  <2>4. ASSUME NEW p \in Pbs, NEW n \in Int, MovesOut(p, n)
        PROVE  ReadStream'
    <3>1. UNCHANGED <<fetched, delivered, readStorage, readPayload>>
      BY <2>4 DEF MovesOut, ReadKept
    <3> QED
      BY <1>0, <3>1, ReadStreamKept
  <2>5. ASSUME NEW p \in Pbs, Moves(p)
        PROVE  ReadStream'
    BY <1>0, <2>2, <2>3, <2>4, <2>5, MoveKinds
  <2> QED
    BY <1>1, <2>2, <2>5 DEF StepKinds
<1>2. CASE VblFlush \/ VblPoll \/ ReadFails \/ WriteDone \/ WriteFails \/ OpenConnResult
           \/ OpenWrite
  <2>2. UNCHANGED <<fetched, delivered, readStorage, readPayload>>
    BY <1>2 DEF VblFlush, VblPoll, ReadFails, WriteDone, WriteFails, OpenConnResult, OpenWrite
  <2> QED
    BY <1>0, <2>2, ReadStreamKept
<1>3. CASE ReadDone
  BY <1>3, ReadArrives, Zenon DEF ReadStream
<1>4. CASE OpenReadReq
  <2>1. readStorage.ioActCount = 0
    BY <1>4, OpenUntried DEF Streams, Fresh
  <2>2. /\ fetched' = Untagged(delivered) /\ delivered' = delivered
        /\ readStorage'.ioReqCount = 0 /\ readStorage'.ioActCount = 0
    BY <1>0, <1>4, <2>1 DEF OpenReadReq, DataInv, ReadSide
  <2>3. Unread' = <<>>
    BY <2>2, SubSeqEmpty DEF Unread
  <2>4. PICK u : u = Untagged(delivered)
    OBVIOUS
  <2>5. u \in Seq(Nat)
    BY <1>0, <2>4, UntaggedLaw DEF DataInv, ReadSide
  <2>6. u \o <<>> = u
    BY <2>5, ConcatEmptySeq
  <2> QED
    BY <2>2, <2>3, <2>4, <2>6, Zenon DEF ReadStream
<1>5. CASE OpenReadAct
  <2>1. readStorage.ioActCount = 0
    BY <1>5, OpenUntried DEF Streams, Fresh
  <2>2. readStorage' = readStorage
    BY <1>0, <1>5, <2>1 DEF OpenReadAct, DataInv, ReadSide
  <2>3. UNCHANGED <<fetched, delivered, readPayload>>
    BY <1>5 DEF OpenReadAct
  <2> QED
    BY <1>0, <2>2, <2>3, ReadStreamKept
<1> QED
  BY <1>1, <1>2, <1>3, <1>4, <1>5 DEF DeviceSteps

LEMMA StreamsInit == Init => Streams
<1> SUFFICES ASSUME Init
             PROVE  Streams
  OBVIOUS
<1>1. /\ Fresh /\ io = "none" /\ fetched = <<>>
      /\ readStorage = [ioReqCount |-> 0, ioActCount |-> 0]
  BY DEF Init, Fresh
<1>2. OthersSane /\ ReadSane
  BY <1>1 DEF Init, OthersSane, ReadSane, FreePb, Sane
<1>3. WriteStream
  <2>1. Staged = <<>>
    BY <1>1, SubSeqEmpty DEF Staged, Fresh
  <2> QED
    BY <1>1, <2>1 DEF WriteStream, Fresh
<1>4. ReadStream
  <2>1. Unread = <<>>
    BY <1>1, SubSeqEmpty DEF Unread
  <2>2. Untagged(delivered) = <<>>
    BY <1>1 DEF Fresh, Untagged
  <2> QED
    BY <1>1, <2>1, <2>2 DEF ReadStream
<1> QED
  BY <1>1, <1>2, <1>3, <1>4 DEF Streams

LEMMA StreamsNext ==
  ASSUME StreamBase, Streams, ~LateOpen, [Next]_vars
  PROVE  Streams'
<1>1. StepKinds
  BY StreamBaseKinds
<1>2. (Untried => Fresh)'
  BY <1>1, FreshNext
<1>3. SaneStreams' /\ WriteStream' /\ ReadStream'
  BY <1>1, SanityNext, WriteStreamNext, ReadStreamNext
<1> QED
  BY <1>2, <1>3 DEF Streams, SaneStreams

LEMMA StreamsSafe ==
  ASSUME LateOpen = FALSE
  PROVE  Spec => [](StreamBase /\ Streams)
<1>1. Init => StreamBase /\ Streams
  BY StreamBaseInit, StreamsInit
<1>2. (StreamBase /\ Streams) /\ [Next]_vars => (StreamBase /\ Streams)'
  BY StreamBaseNext, StreamsNext
<1> QED
  BY <1>1, <1>2, PTL DEF Spec

\* No count of a client, or of the driver's own buffers, runs below zero or past
\* its limit, when ports are opened before they are used.
THEOREM CountsSafe ==
  ASSUME LateOpen = FALSE
  PROVE  Spec => []CountsSane
<1>1. StreamBase /\ Streams => CountsSane
  <2> SUFFICES ASSUME StreamBase, Streams
               PROVE  CountsSane
    OBVIOUS
  <2>1. ClientCountsSane
    <3>1. ASSUME NEW p \in Pbs
          PROVE  Sane(pb[p])
      BY DEF StreamBase, DataInv, PbCore, Reports, Streams, OthersSane, ClientCountsSane, Traps
    <3> QED
      BY <3>1 DEF ClientCountsSane
  <2>2. main.pc # "open3" => Sane(readStorage)
    BY DEF Streams, ReadSane, StreamBase, DataInv, ReadSide, Sane
  <2>3. Sane(writeStorage) /\ writeStorage.ioReqCount =< PayloadSize
        /\ readStorage.ioReqCount =< PayloadSize
    BY PayloadSizeAssumption DEF StreamBase, DataInv, ReadSide, WriteSide, Sane
  <2> QED
    BY <2>1, <2>2, <2>3 DEF CountsSane
<1> QED
  BY <1>1, StreamsSafe, PTL

\* Every byte taken from a writer is staged or sent, in order and once.
THEOREM WritesInOrder ==
  ASSUME LateOpen = FALSE
  PROVE  Spec => []WriteStream
<1>1. StreamBase /\ Streams => WriteStream
  BY DEF Streams
<1> QED
  BY <1>1, StreamsSafe, PTL

\* Every byte of the device reaches one reader, in order, or is still unread.
THEOREM ReadsInOrder ==
  ASSUME LateOpen = FALSE
  PROVE  Spec => []ReadStream
<1>1. StreamBase /\ Streams => ReadStream
  BY DEF Streams
<1> QED
  BY <1>1, StreamsSafe, PTL
=============================================================================
