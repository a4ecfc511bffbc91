-------------------------- MODULE SerialTests_proofs --------------------------
(***************************************************************************)
(* Machine-checked proofs about the throughput test, for any buffers,      *)
(* alphabet and numbers of rounds and messages.                            *)
(***************************************************************************)
EXTENDS SerialTests, SequenceTheorems, FiniteSetTheorems, TLAPS

-----------------------------------------------------------------------------
\* Arithmetic: the remainder of a sum.

\* Quotient and remainder of a division.
LEMMA DivMod ==
  ASSUME NEW x \in Int, NEW P \in Nat \ {0}
  PROVE  x = P * (x \div P) + (x % P) /\ x % P \in 0 .. P - 1 /\ x \div P \in Int
OBVIOUS

\* The only multiple of P between -P and P is 0.
LEMMA NoMultiple ==
  ASSUME NEW P \in Nat \ {0}, NEW c \in Int, NEW d \in Int, P * c = d, -P < d, d < P
  PROVE  c = 0
<1>1. CASE c >= 1
  <2>1. P * c >= P
    BY <1>1
  <2> QED
    BY <2>1
<1>2. CASE c <= -1
  <2>1. P * c <= -P
    BY <1>2
  <2> QED
    BY <2>1
<1> QED
  BY <1>1, <1>2

\* The remainder is the only number in its range that is one.
LEMMA ModUnique ==
  ASSUME NEW y \in Int, NEW P \in Nat \ {0}, NEW a \in Int, NEW r \in 0 .. P - 1, y = P * a + r
  PROVE  y % P = r
<1>1. PICK q \in Int : q = y \div P
  BY DivMod
<1>2. PICK s \in 0 .. P - 1 : s = y % P
  BY DivMod
<1>3. y = P * q + s
  BY <1>1, <1>2, DivMod
<1>4. PICK c \in Int : c = a - q
  OBVIOUS
<1>5. P * c = P * a - P * q
  BY <1>4
<1>6. P * a \in Int /\ P * q \in Int
  OBVIOUS
<1>7. P * c = s - r
  BY <1>3, <1>5, <1>6
<1>8. s - r \in Int /\ -P < s - r /\ s - r < P
  BY <1>2
<1>9. c = 0
  BY <1>7, <1>8, NoMultiple
<1> QED
  BY <1>2, <1>7, <1>9

\* A remainder may be taken before an addition.
LEMMA ModAdd ==
  ASSUME NEW x \in Nat, NEW k \in Nat, NEW P \in Nat \ {0}
  PROVE  ((x % P) + k) % P = (x + k) % P
<1>1. PICK q \in Int : q = x \div P
  BY DivMod
<1>2. PICK s \in 0 .. P - 1 : s = x % P
  BY DivMod
<1>3. x = P * q + s
  BY <1>1, <1>2, DivMod
<1>4. s + k \in Int
  BY <1>2
<1>5. PICK u \in Int : u = (s + k) \div P
  BY <1>4, DivMod
<1>6. PICK r \in 0 .. P - 1 : r = (s + k) % P
  BY <1>4, DivMod
<1>7. s + k = P * u + r
  BY <1>4, <1>5, <1>6, DivMod
<1>8. PICK v \in Int : v = q + u
  OBVIOUS
<1>9. P * v = P * q + P * u
  BY <1>8
<1>10. x + k = P * v + r
  <2>1. P * q \in Int /\ P * u \in Int /\ P * v \in Int
    OBVIOUS
  <2> QED
    BY <1>3, <1>7, <1>9, <2>1
<1>11. (x + k) % P = r
  <2>1. x + k \in Int
    OBVIOUS
  <2> QED
    BY <1>10, <2>1, ModUnique
<1> QED
  BY <1>2, <1>6, <1>11

\* 0 leaves no remainder.
LEMMA ModZero ==
  ASSUME NEW P \in Nat \ {0}
  PROVE  0 % P = 0
<1>1. 0 = P * 0 + 0 /\ 0 \in 0 .. P - 1
  OBVIOUS
<1> QED
  BY <1>1, ModUnique

\* The letters: k letters after m others.
LEMMA NextRandAdds ==
  ASSUME NEW m \in Nat, NEW k \in Nat
  PROVE  /\ NextRand(m % Period, k) = (m + k) % Period
         /\ m % Period \in 0 .. Period - 1
<1>1. Period \in Nat \ {0}
  BY BuffersAssumption
<1>2. ((m % Period) + k) % Period = (m + k) % Period
  BY <1>1, ModAdd, Zenon
<1>3. m \in Int
  OBVIOUS
<1>4. m % Period \in 0 .. Period - 1
  BY <1>1, <1>3, DivMod, Zenon
<1> QED
  BY <1>2, <1>4, Zenon DEF NextRand
-----------------------------------------------------------------------------
\* Sequences.

\* The elements of two sequences joined.
LEMMA Joined ==
  ASSUME NEW S, NEW a \in Seq(S), NEW b \in Seq(S)
  PROVE  /\ a \o b \in Seq(S) /\ Len(a \o b) = Len(a) + Len(b)
         /\ Len(a) \in Nat /\ Len(b) \in Nat
         /\ \A i \in 1 .. Len(a) : (a \o b)[i] = a[i]
         /\ \A i \in 1 .. Len(a \o b) :
              \/ i \in 1 .. Len(a) /\ (a \o b)[i] = a[i]
              \/ i - Len(a) \in 1 .. Len(b) /\ (a \o b)[i] = b[i - Len(a)]
<1>1. Len(a) \in Nat /\ Len(b) \in Nat
  BY LenProperties
<1>2. /\ a \o b \in Seq(S) /\ Len(a \o b) = Len(a) + Len(b)
      /\ \A i \in 1 .. Len(a) + Len(b) :
            (a \o b)[i] = IF i <= Len(a) THEN a[i] ELSE b[i - Len(a)]
  BY ConcatProperties, Zenon
<1>3. PICK o : o = a \o b
  OBVIOUS
<1>4. /\ Len(o) = Len(a) + Len(b)
      /\ \A i \in 1 .. Len(a) + Len(b) : o[i] = IF i <= Len(a) THEN a[i] ELSE b[i - Len(a)]
  BY <1>2, <1>3, Zenon
<1>5. \A i \in 1 .. Len(a) : o[i] = a[i]
  BY <1>1, <1>4
<1>6. \A i \in 1 .. Len(o) :
        \/ i \in 1 .. Len(a) /\ o[i] = a[i]
        \/ i - Len(a) \in 1 .. Len(b) /\ o[i] = b[i - Len(a)]
  BY <1>1, <1>4
<1> QED
  BY <1>1, <1>2, <1>3, <1>5, <1>6, Zenon

\* A part of a sequence, which may be empty.
LEMMA PartOf ==
  ASSUME NEW S, NEW s \in Seq(S), NEW m \in Int, NEW n \in Int, 1 =< m, n =< Len(s), m =< n + 1
  PROVE  /\ SubSeq(s, m, n) \in Seq(S)
         /\ Len(SubSeq(s, m, n)) = n - m + 1
         /\ \A i \in 1 .. n - m + 1 : SubSeq(s, m, n)[i] = s[m + i - 1]
<1>1. Len(s) \in Nat
  BY LenProperties
<1>2. \A i \in m .. n : s[i] \in S
  BY <1>1, ElementOfSeq
<1>3. CASE m =< n
  BY <1>2, <1>3, SubSeqProperties
<1>4. CASE n < m
  <2>1. SubSeq(s, m, n) = <<>>
    BY <1>4, SubSeqEmpty
  <2>2. <<>> \in Seq(S) /\ Len(<<>>) = 0 /\ n - m + 1 = 0
    BY <1>4
  <2> QED
    BY <2>1, <2>2
<1> QED
  BY <1>3, <1>4

\* A function on 1 .. n is a sequence of length n.
LEMMA Listed ==
  ASSUME NEW S, NEW n \in Nat, NEW f, f \in [1 .. n -> S]
  PROVE  f \in Seq(S) /\ Len(f) = n
<1>1. f \in Seq(S)
  BY SeqDef
<1>2. DOMAIN f = 1 .. n /\ DOMAIN f = 1 .. Len(f) /\ Len(f) \in Nat
  BY <1>1, LenProperties
<1>3. Len(f) = n
  BY <1>2
<1> QED
  BY <1>1, <1>3

\* How many numbers from a + 1 to b there are.
LEMMA CountTo ==
  ASSUME NEW a \in Nat, NEW b \in Nat, a =< b
  PROVE  Cardinality((a + 1) .. b) = b - a
<1>1. a + 1 \in Int /\ b \in Int
  OBVIOUS
<1>2. Cardinality((a + 1) .. b) = IF a + 1 > b THEN 0 ELSE b - (a + 1) + 1
  BY <1>1, FS_Interval
<1> QED
  BY <1>2
-----------------------------------------------------------------------------
\* The invariant: types.

Bytes == Pbs \X Nat
Letters == 0 .. Period - 1
Halves == {AOut, AIn}
Results == {None, noErr, ioErr}
Going == pc \in {"loop", "write", "check", "status", "read", "done"}
InCall == pc \in {"write", "read"}

TestTypes ==
    /\ test = [round |-> test.round, pb |-> test.pb, bytesWritten |-> test.bytesWritten,
               bytesRead |-> test.bytesRead, writeRand |-> test.writeRand,
               readRand |-> test.readRand, messages |-> test.messages,
               timeUp |-> test.timeUp, asked |-> test.asked]
    /\ test.round \in 0 .. Rounds - 1 /\ test.pb \in Nat
    /\ test.bytesWritten \in Nat /\ test.bytesRead \in Nat
    /\ test.writeRand \in Letters /\ test.readRand \in Letters
    /\ Going \/ pc \in {"failed", "mismatch", "hung"}

StreamTypes ==
    /\ staged \in Seq(Bytes) /\ sent \in Seq(Bytes) /\ echoed \in Seq(Bytes)
    /\ unread \in Seq(Nat) /\ delivered \in Seq(Bytes)
    /\ taken \in Nat /\ looped \in Nat /\ broken \in BOOLEAN
    /\ Len(echoed) =< looped /\ looped =< Len(sent)
    /\ base \in [Pbs -> Letters]

\* The only call under way is the test's current one, at its own port.
NoneMade(p) == call[p] = Port!NoCall /\ outcome[p] = None
Queued(d) == InCall /\ outcome[test.pb] = None /\ call[test.pb].drv = d
Made(p, d, t, n) ==
    /\ call[p] = [drv |-> d, trap |-> t, ioReqCount |-> n, ioActCount |-> call[p].ioActCount]
    /\ n \in Nat /\ call[p].ioActCount \in 0 .. n
    /\ outcome[p] = noErr => call[p].ioActCount = n
CallTypes ==
    /\ DOMAIN call = Pbs /\ outcome \in [Pbs -> Results]
    /\ DOMAIN queue = Halves
    /\ \A d \in Halves : queue[d] = IF Queued(d) THEN <<test.pb>> ELSE <<>>
    /\ \A p \in Pbs : NoneMade(p) \/ call[p].drv \in Halves
    /\ \A p \in Pbs : p > test.pb => NoneMade(p)
    /\ test.pb \in Pbs /\ Going /\ ~InCall => NoneMade(test.pb)
    /\ InCall => test.pb \in Pbs
    /\ pc = "write" => Made(test.pb, AOut, "aWrCmd", MessageSize(test.round))
    /\ pc = "read" => Made(test.pb, AIn, "aRdCmd", call[test.pb].ioReqCount)

Types == TestTypes /\ StreamTypes /\ CallTypes /\ NeverNegative

\* nextRand yields letters.
LEMMA LetterNext ==
  ASSUME NEW a \in Letters, NEW k \in Nat
  PROVE  NextRand(a, k) \in Letters
<1>1. Period \in Nat \ {0} /\ a + k \in Int
  BY BuffersAssumption DEF Letters
<1>2. (a + k) % Period \in 0 .. Period - 1
  BY <1>1, DivMod, Zenon
<1> QED
  BY <1>2 DEF NextRand, Letters

\* Nothing is called at first.
LEMMA TypesInit == Init => Types
<1> SUFFICES ASSUME Init
             PROVE  Types
  OBVIOUS
<1>1. TestTypes
  <2>1. 0 \in Letters
    BY BuffersAssumption DEF Letters
  <2> QED
    BY <2>1, RoundsAssumption DEF Init, TestTypes, Going
<1>2. StreamTypes
  <2>1. <<>> \in Seq(Bytes) /\ <<>> \in Seq(Nat) /\ Len(<<>>) = 0
    OBVIOUS
  <2>2. 0 \in Letters
    BY BuffersAssumption DEF Letters
  <2>3. base \in [Pbs -> Letters]
    BY <2>2 DEF Init
  <2>4. Len(echoed) = 0 /\ Len(sent) = 0
    BY <2>1 DEF Init, Port!Init
  <2>5. staged \in Seq(Bytes) /\ sent \in Seq(Bytes) /\ echoed \in Seq(Bytes)
        /\ unread \in Seq(Nat) /\ delivered \in Seq(Bytes)
    BY <2>1, Zenon DEF Init, Port!Init
  <2>6. taken = 0 /\ looped = 0 /\ broken = FALSE
    BY DEF Init, Port!Init
  <2>7. broken \in BOOLEAN
    BY <2>6, Zenon
  <2>8. taken \in Nat /\ looped \in Nat
    BY <2>6
  <2>9. Len(echoed) =< looped /\ looped =< Len(sent)
    BY <2>4, <2>6
  <2> QED
    BY <2>3, <2>5, <2>7, <2>8, <2>9, Zenon DEF StreamTypes
<1>3. CallTypes
  BY DEF Init, Port!Init, CallTypes, Halves, Results, NoneMade, Queued, InCall, Going
<1>4. NeverNegative
  BY DEF Init, NeverNegative
<1> QED
  BY <1>1, <1>2, <1>3, <1>4 DEF Types
-----------------------------------------------------------------------------
\* What the steps of the port do, with the test's current call.

PortKept == UNCHANGED portVars
TestKept == UNCHANGED <<loopVars, testVars>>

\* The call that a port may serve is the test's current one.
LEMMA ServedIs ==
  ASSUME Types, NEW p \in Current, Port!Serving(p)
  PROVE  /\ p = test.pb /\ p \in Pbs /\ InCall /\ outcome[p] = None
         /\ call[p].drv \in Halves /\ queue[call[p].drv] = <<p>>
<1>1. p = test.pb /\ p \in Pbs
  BY DEF Current
<1>2. call[p] # Port!NoCall
  BY DEF Port!Serving
<1>3. InCall \/ ~Going
  BY <1>1, <1>2 DEF Types, CallTypes, NoneMade
<1>4. call[p].drv \in Halves
  BY <1>1, <1>2 DEF Types, CallTypes, NoneMade
<1>5. queue[call[p].drv] # <<>>
  BY DEF Port!Serving
<1>6. Queued(call[p].drv) /\ queue[call[p].drv] = <<test.pb>>
  BY <1>4, <1>5 DEF Types, CallTypes
<1> QED
  BY <1>1, <1>4, <1>6 DEF Queued

\* A call whose count has grown by k.
Grown(p, k) ==
    /\ DOMAIN call' = DOMAIN call
    /\ \A q \in Pbs \ {p} : call'[q] = call[q]
    /\ call'[p].drv = call[p].drv /\ call'[p].trap = call[p].trap
    /\ call'[p].ioReqCount = call[p].ioReqCount
    /\ call'[p].ioActCount = call[p].ioActCount + k
    /\ call'[p] = [drv |-> call[p].drv, trap |-> call[p].trap, ioReqCount |-> call[p].ioReqCount,
                   ioActCount |-> call'[p].ioActCount]

\* A transfer keeps the count of its call within the request.
LEMMA GrownIs ==
  ASSUME Types, NEW p \in Current, Port!Serving(p), NEW k \in Nat, k =< Port!Wants(p),
         call' = [call EXCEPT ![p].ioActCount = @ + k]
  PROVE  /\ Grown(p, k) /\ call[p].ioActCount \in Nat /\ call[p].ioReqCount \in Nat
         /\ call[p].ioActCount + k \in 0 .. call[p].ioReqCount
<1>0. p = test.pb /\ p \in Pbs /\ InCall /\ DOMAIN call = Pbs
  BY ServedIs DEF Types, CallTypes
<1>1. PICK c : c = call[p]
  OBVIOUS
<1>2. /\ c = [drv |-> c.drv, trap |-> c.trap, ioReqCount |-> c.ioReqCount,
              ioActCount |-> c.ioActCount]
      /\ c.ioReqCount \in Nat /\ c.ioActCount \in 0 .. c.ioReqCount
  <2>1. CASE pc = "write"
    BY <1>0, <1>1, <2>1 DEF Types, CallTypes, Made
  <2>2. CASE pc = "read"
    BY <1>0, <1>1, <2>2 DEF Types, CallTypes, Made
  <2> QED
    BY <1>0, <2>1, <2>2 DEF InCall
<1>3. call'[p] = [c EXCEPT !.ioActCount = @ + k]
  BY <1>0, <1>1
<1>4. call'[p] = [drv |-> c.drv, trap |-> c.trap, ioReqCount |-> c.ioReqCount,
                  ioActCount |-> c.ioActCount + k]
  BY <1>2, <1>3
<1>5. Grown(p, k)
  BY <1>0, <1>1, <1>4 DEF Grown
<1> QED
  BY <1>1, <1>2, <1>5 DEF Port!Wants

\* A transfer for the current call keeps the calls in shape.
LEMMA GrownTypes ==
  ASSUME Types, NEW p \in Current, Port!Serving(p), NEW k \in Nat, k =< Port!Wants(p),
         call' = [call EXCEPT ![p].ioActCount = @ + k],
         UNCHANGED <<queue, outcome, pc, test>>
  PROVE  CallTypes'
<1>0. /\ p = test.pb /\ p \in Pbs /\ InCall /\ outcome[p] = None
      /\ call[p].drv \in Halves
  BY ServedIs
<1>1. /\ Grown(p, k) /\ call[p].ioActCount \in Nat /\ call[p].ioReqCount \in Nat
      /\ call[p].ioActCount + k \in 0 .. call[p].ioReqCount
  BY GrownIs
<1>2. \A d \in Halves : queue'[d] = IF Queued(d)' THEN <<test.pb>> ELSE <<>>
  BY <1>0, <1>1 DEF Types, CallTypes, Queued, InCall, Grown
<1>3. \A q \in Pbs : NoneMade(q)' \/ call'[q].drv \in Halves
  BY <1>0, <1>1 DEF Types, CallTypes, NoneMade, Grown
<1>4. \A q \in Pbs : q > test.pb => NoneMade(q)'
  BY <1>0, <1>1 DEF Types, CallTypes, TestTypes, NoneMade, Grown
<1>5. pc = "write" => Made(test.pb, AOut, "aWrCmd", MessageSize(test.round))'
  <2> SUFFICES ASSUME pc = "write"
               PROVE  Made(test.pb, AOut, "aWrCmd", MessageSize(test.round))'
    OBVIOUS
  <2>1. Made(test.pb, AOut, "aWrCmd", MessageSize(test.round))
    BY DEF Types, CallTypes
  <2> QED
    BY <1>0, <1>1, <2>1 DEF Made, Grown, None, noErr, MessageSize
<1>6. pc = "read" => Made(test.pb, AIn, "aRdCmd", call[test.pb].ioReqCount)'
  <2> SUFFICES ASSUME pc = "read"
               PROVE  Made(test.pb, AIn, "aRdCmd", call[test.pb].ioReqCount)'
    OBVIOUS
  <2>1. Made(test.pb, AIn, "aRdCmd", call[test.pb].ioReqCount)
    BY DEF Types, CallTypes
  <2> QED
    BY <1>0, <1>1, <2>1 DEF Made, Grown, None, noErr
<1>7. Going' = Going /\ InCall' = InCall
  BY DEF Going, InCall
<1>8. DOMAIN call' = Pbs /\ outcome' \in [Pbs -> Results] /\ DOMAIN queue' = Halves
  BY <1>1 DEF Types, CallTypes, Grown
<1> QED
  BY <1>0, <1>2, <1>3, <1>4, <1>5, <1>6, <1>7, <1>8 DEF CallTypes

\* Bytes of the current write are staged.
LEMMA AcceptTypes ==
  ASSUME Types, NEW p \in Current, NEW k \in 1 .. PayloadSize, Port!Accept(p, k), TestKept
  PROVE  /\ Types' /\ pc = "write"
         /\ k \in Nat /\ call[p].ioActCount \in Nat
         /\ call'[p].ioActCount = call[p].ioActCount + k
         /\ [i \in 1 .. k |-> <<p, call[p].ioActCount + i>>] \in Seq(Bytes)
         /\ Len([i \in 1 .. k |-> <<p, call[p].ioActCount + i>>]) = k
<1>0. /\ p = test.pb /\ p \in Pbs /\ InCall /\ outcome[p] = None
      /\ call[p].drv \in Halves
  BY ServedIs DEF Port!Accept
<1>k. k \in Nat
  BY BuffersAssumption
<1>1. /\ Grown(p, k) /\ call[p].ioActCount \in Nat /\ call[p].ioReqCount \in Nat
      /\ call[p].ioActCount + k \in 0 .. call[p].ioReqCount
  BY <1>k, GrownIs DEF Port!Accept
<1>2. CallTypes'
  BY <1>k, GrownTypes DEF Port!Accept, TestKept, testVars
<1>3. PICK f : f = [i \in 1 .. k |-> <<p, call[p].ioActCount + i>>]
  OBVIOUS
<1>4. f \in Seq(Bytes) /\ Len(f) = k
  <2>1. f \in [1 .. k -> Bytes]
    BY <1>0, <1>1, <1>3, <1>k DEF Bytes
  <2> QED
    BY <1>k, <2>1, Listed
<1>5. staged' \in Seq(Bytes)
  <2>1. staged' = staged \o f
    BY <1>3 DEF Port!Accept
  <2> QED
    BY <1>4, <2>1, Joined DEF Types, StreamTypes
<1>6. StreamTypes'
  BY <1>5 DEF Types, StreamTypes, Port!Accept, TestKept, testVars, loopVars
<1>7. TestTypes' /\ NeverNegative'
  BY DEF Types, TestTypes, TestKept, testVars, NeverNegative, Going
<1>8. pc = "write"
  <2>1. call[p].trap = "aWrCmd"
    BY DEF Port!Accept
  <2>2. pc # "read"
    BY <1>0, <2>1 DEF Types, CallTypes, Made
  <2> QED
    BY <1>0, <2>2 DEF InCall
<1> QED
  BY <1>1, <1>2, <1>3, <1>4, <1>6, <1>7, <1>8, <1>k DEF Types, Grown

\* Bytes are given to the current read.
LEMMA DeliverTypes ==
  ASSUME Types, NEW p \in Current, NEW k \in 1 .. PayloadSize, Port!Deliver(p, k), TestKept
  PROVE  /\ Types' /\ pc = "read"
         /\ k \in Nat /\ call[p].ioActCount \in Nat
         /\ call'[p].ioActCount = call[p].ioActCount + k
         /\ [i \in 1 .. k |-> <<p, unread[i]>>] \in Seq(Bytes)
         /\ Len([i \in 1 .. k |-> <<p, unread[i]>>]) = k
<1>0. /\ p = test.pb /\ p \in Pbs /\ InCall /\ outcome[p] = None
      /\ call[p].drv \in Halves
  BY ServedIs DEF Port!Deliver
<1>k. k \in Nat
  BY BuffersAssumption
<1>1. /\ Grown(p, k) /\ call[p].ioActCount \in Nat /\ call[p].ioReqCount \in Nat
      /\ call[p].ioActCount + k \in 0 .. call[p].ioReqCount
  BY <1>k, GrownIs DEF Port!Deliver
<1>2. CallTypes'
  BY <1>k, GrownTypes DEF Port!Deliver, TestKept, testVars
<1>3. PICK f : f = [i \in 1 .. k |-> <<p, unread[i]>>]
  OBVIOUS
<1>u. unread \in Seq(Nat) /\ Len(unread) \in Nat /\ k =< Len(unread)
  BY LenProperties DEF Types, StreamTypes, Port!Deliver
<1>4. f \in Seq(Bytes) /\ Len(f) = k
  <2>1. \A i \in 1 .. k : unread[i] \in Nat
    BY <1>u, <1>k, ElementOfSeq
  <2>2. f \in [1 .. k -> Bytes]
    BY <1>0, <1>3, <2>1 DEF Bytes
  <2> QED
    BY <1>k, <2>2, Listed
<1>5. delivered' \in Seq(Bytes)
  <2>1. delivered' = delivered \o f
    BY <1>3 DEF Port!Deliver
  <2> QED
    BY <1>4, <2>1, Joined DEF Types, StreamTypes
<1>6. unread' \in Seq(Nat)
  <2>1. SubSeq(unread, k + 1, Len(unread)) \in Seq(Nat)
    BY <1>u, <1>k, PartOf
  <2> QED
    BY <2>1 DEF Port!Deliver
<1>7. StreamTypes'
  BY <1>5, <1>6 DEF Types, StreamTypes, Port!Deliver, TestKept, testVars, loopVars
<1>8. TestTypes' /\ NeverNegative'
  BY DEF Types, TestTypes, TestKept, testVars, NeverNegative, Going
<1>9. pc = "read"
  <2>1. call[p].trap = "aRdCmd"
    BY DEF Port!Deliver
  <2>2. pc # "write"
    BY <1>0, <2>1 DEF Types, CallTypes, Made
  <2> QED
    BY <1>0, <2>2 DEF InCall
<1> QED
  BY <1>1, <1>2, <1>3, <1>4, <1>7, <1>8, <1>9, <1>k DEF Types, Grown

\* The current call is reported.
LEMMA CompleteTypes ==
  ASSUME Types, NEW p \in Current, NEW r \in {noErr, ioErr}, Port!Complete(p, r), TestKept
  PROVE  Types'
<1>0. /\ p = test.pb /\ p \in Pbs /\ InCall /\ outcome[p] = None
      /\ call[p].drv \in Halves /\ queue[call[p].drv] = <<p>>
  BY ServedIs DEF Port!Complete
<1>1. /\ outcome' = [outcome EXCEPT ![p] = r] /\ r # None
      /\ queue' = [queue EXCEPT ![call[p].drv] = Tail(@)]
      /\ call' = call /\ pc' = pc /\ test' = test
  BY DEF Port!Complete, TestKept, testVars, None, noErr, ioErr
<1>2. Tail(<<p>>) = <<>>
  OBVIOUS
<1>3. queue'[call[p].drv] = <<>> /\ DOMAIN queue' = Halves
      /\ \A d \in Halves \ {call[p].drv} : queue'[d] = queue[d]
  BY <1>0, <1>1, <1>2 DEF Types, CallTypes
<1>4. outcome' \in [Pbs -> Results] /\ outcome'[p] = r
      /\ \A q \in Pbs \ {p} : outcome'[q] = outcome[q]
  BY <1>0, <1>1 DEF Types, CallTypes, Results
<1>5. Going' = Going /\ InCall' = InCall
  BY <1>1 DEF Going, InCall
<1>6. \A d \in Halves : queue'[d] = IF Queued(d)' THEN <<test'.pb>> ELSE <<>>
  BY <1>0, <1>1, <1>3, <1>4, <1>5 DEF Types, CallTypes, Queued
<1>7. \A q \in Pbs : NoneMade(q)' \/ call'[q].drv \in Halves
  BY <1>0, <1>1, <1>4 DEF Types, CallTypes, NoneMade
<1>8. \A q \in Pbs : q > test.pb => NoneMade(q)'
  BY <1>0, <1>1, <1>4 DEF Types, CallTypes, TestTypes, NoneMade
<1>9. r = noErr => call[p].ioReqCount - call[p].ioActCount = 0
  <2>1. call[p].trap \in {"aRdCmd", "aWrCmd"}
    BY <1>0 DEF Types, CallTypes, Made, InCall
  <2> QED
    BY <2>1 DEF Port!Complete, Port!Wants, noErr
<1>10. pc = "write" => Made(test.pb, AOut, "aWrCmd", MessageSize(test.round))'
  BY <1>0, <1>1, <1>4, <1>9 DEF Types, CallTypes, Made, MessageSize
<1>11. pc = "read" => Made(test.pb, AIn, "aRdCmd", call[test.pb].ioReqCount)'
  BY <1>0, <1>1, <1>4, <1>9 DEF Types, CallTypes, Made
<1>12. CallTypes'
  BY <1>0, <1>1, <1>3, <1>4, <1>5, <1>6, <1>7, <1>8, <1>10, <1>11 DEF Types, CallTypes
<1>13. StreamTypes'
  BY DEF Types, StreamTypes, Port!Complete, TestKept, testVars, loopVars
<1>14. TestTypes' /\ NeverNegative'
  BY DEF Types, TestTypes, TestKept, testVars, NeverNegative, Going
<1> QED
  BY <1>12, <1>13, <1>14 DEF Types

\* Steps that leave the calls and the test alone.
LEMMA CallTypesKept ==
  ASSUME Types, UNCHANGED <<queue, call, outcome>>, UNCHANGED testVars
  PROVE  TestTypes' /\ CallTypes' /\ NeverNegative'
<1>1. TestTypes' /\ NeverNegative'
  BY DEF Types, TestTypes, testVars, NeverNegative, Going
<1>2. Going' = Going /\ InCall' = InCall /\ test' = test /\ pc' = pc
  BY DEF Going, InCall, testVars
<1>3. \A p \in Pbs : NoneMade(p)' = NoneMade(p)
  BY DEF NoneMade
<1>4. \A d \in Halves : Queued(d)' = Queued(d)
  BY <1>2 DEF Queued
<1>5. \A d, t, n : Made(test.pb, d, t, n)' <=> Made(test.pb, d, t, n)
  BY <1>2 DEF Made
<1>6. CallTypes'
  BY <1>2, <1>3, <1>4, <1>5 DEF Types, CallTypes, MessageSize
<1> QED
  BY <1>1, <1>6

\* Staged bytes are sent, bytes are fetched, or the connection fails.
LEMMA LineTypes ==
  ASSUME Types, TestKept,
         Port!Flush \/ Port!Break \/ \E n \in 1 .. PayloadSize : Port!Fetch(n)
  PROVE  Types' /\ (Lost => Lost')
<1>1. TestTypes' /\ CallTypes' /\ NeverNegative'
  BY CallTypesKept DEF TestKept, Port!Flush, Port!Break, Port!Fetch
<1>2. sent \o staged \in Seq(Bytes) /\ Len(sent \o staged) = Len(sent) + Len(staged)
      /\ Len(sent) \in Nat /\ Len(staged) \in Nat /\ Len(echoed) \in Nat
  BY Joined, LenProperties DEF Types, StreamTypes
<1>3. UNCHANGED <<looped, echoed, base>>
  BY DEF TestKept, loopVars, testVars
<1>4. CASE Port!Flush
  <2>1. sent' = sent \o staged /\ staged' = <<>> /\ UNCHANGED <<unread, delivered, taken, broken>>
    BY <1>4 DEF Port!Flush
  <2>2. sent' \in Seq(Bytes) /\ Len(sent') = Len(sent) + Len(staged)
    BY <1>2, <2>1, Zenon
  <2>3. looped =< Len(sent')
    BY <1>2, <2>2 DEF Types, StreamTypes
  <2>4. <<>> \in Seq(Bytes)
    OBVIOUS
  <2>5. staged' \in Seq(Bytes)
    BY <2>1, <2>4, Zenon
  <2> QED
    BY <1>1, <1>3, <2>1, <2>2, <2>3, <2>5 DEF Types, StreamTypes, Lost
<1>5. CASE Port!Break
  <2>1. sent' \in {sent, sent \o staged} /\ UNCHANGED <<staged, unread, delivered, taken>>
        /\ broken' = TRUE
    BY <1>5 DEF Port!Break
  <2>2. looped =< Len(sent) /\ looped \in Nat /\ sent \in Seq(Bytes)
    BY DEF Types, StreamTypes
  <2>3. looped =< Len(sent) + Len(staged)
    BY <1>2, <2>2
  <2>4. sent' \in Seq(Bytes) /\ looped =< Len(sent')
    BY <1>2, <2>1, <2>2, <2>3, Zenon
  <2>5. broken' \in BOOLEAN
    BY <2>1, Zenon
  <2> QED
    BY <1>1, <1>3, <2>1, <2>4, <2>5 DEF Types, StreamTypes, Lost
<1>6. ASSUME NEW n \in 1 .. PayloadSize, Port!Fetch(n)
      PROVE  Types' /\ (Lost => Lost')
  <2>1. n \in Nat /\ taken \in Nat
    BY BuffersAssumption DEF Types, StreamTypes
  <2>2. unread' = [i \in 1 .. n |-> taken + i] /\ taken' = taken + n
        /\ UNCHANGED <<sent, staged, delivered, broken>>
    BY <1>6 DEF Port!Fetch
  <2>3. unread' \in [1 .. n -> Nat]
    BY <2>1, <2>2
  <2>4. unread' \in Seq(Nat)
    BY <2>1, <2>3, Listed
  <2> QED
    BY <1>1, <1>3, <2>1, <2>2, <2>4 DEF Types, StreamTypes, Lost
<1> QED
  BY <1>4, <1>5, <1>6

\* A turn of the loopback, and what it writes back.
LEMMA LoopTypes ==
  ASSUME Types, NEW n \in 1 .. Len(sent) - looped, NEW w \in 0 .. LoopSize, w =< n,
         looped' = looped + n,
         echoed' = echoed \o SubSeq(sent, looped + 1, looped + w),
         UNCHANGED <<portVars, testVars>>
  PROVE  /\ Types' /\ (Lost => Lost')
         /\ SubSeq(sent, looped + 1, looped + w) \in Seq(Bytes)
         /\ Len(SubSeq(sent, looped + 1, looped + w)) = w
         /\ \A i \in 1 .. w : SubSeq(sent, looped + 1, looped + w)[i] = sent[looped + i]
<1>1. TestTypes' /\ CallTypes' /\ NeverNegative'
  BY CallTypesKept DEF portVars
<1>2. sent \in Seq(Bytes) /\ echoed \in Seq(Bytes) /\ Len(sent) \in Nat /\ Len(echoed) \in Nat
      /\ looped \in Nat /\ LoopSize \in Nat /\ looped =< Len(sent) /\ Len(echoed) =< looped
  BY LenProperties, BuffersAssumption DEF Types, StreamTypes
<1>3. n \in Nat /\ w \in Nat /\ looped + w =< Len(sent) /\ looped + n =< Len(sent)
  BY <1>2
<1>4. PICK f : f = SubSeq(sent, looped + 1, looped + w)
  OBVIOUS
<1>5. /\ f \in Seq(Bytes) /\ Len(f) = (looped + w) - (looped + 1) + 1
      /\ \A i \in 1 .. (looped + w) - (looped + 1) + 1 : f[i] = sent[(looped + 1) + i - 1]
  <2>1. looped + 1 \in Int /\ looped + w \in Int /\ 1 =< looped + 1
        /\ looped + 1 =< (looped + w) + 1
    BY <1>2, <1>3
  <2> QED
    BY <1>2, <1>3, <1>4, <2>1, PartOf
<1>6. Len(f) = w /\ \A i \in 1 .. w : f[i] = sent[looped + i]
  <2>1. \A i \in 1 .. w : (looped + 1) + i - 1 = looped + i
    BY <1>2, <1>3
  <2>2. (looped + w) - (looped + 1) + 1 = w
    BY <1>2, <1>3
  <2> QED
    BY <1>5, <2>1, <2>2
<1>7. echoed' \in Seq(Bytes) /\ Len(echoed') = Len(echoed) + w
  BY <1>2, <1>4, <1>5, <1>6, Joined
<1>8. StreamTypes'
  BY <1>2, <1>3, <1>7 DEF Types, StreamTypes, portVars, testVars
<1>9. Lost => Lost'
  BY <1>2, <1>3, <1>7 DEF Lost
<1> QED
  BY <1>1, <1>4, <1>5, <1>6, <1>8, <1>9 DEF Types
-----------------------------------------------------------------------------
\* What the steps of the test do.

StreamsKept == UNCHANGED <<staged, sent, unread, delivered, taken, broken, loopVars>>

\* A call is made.
LEMMA IssueDoes ==
  ASSUME Types, Going, ~InCall, NEW d \in Halves, NEW t \in {"aRdCmd", "aWrCmd"},
         NEW n \in Nat, Issue(<<d, t>>, n)
  PROVE  /\ test.pb \in Pbs /\ DOMAIN call' = Pbs /\ DOMAIN queue' = Halves
         /\ call'[test.pb] = [drv |-> d, trap |-> t, ioReqCount |-> n, ioActCount |-> 0]
         /\ \A q \in Pbs \ {test.pb} : call'[q] = call[q]
         /\ outcome' = outcome /\ outcome[test.pb] = None
         /\ \A e \in Halves : queue'[e] = IF e = d THEN <<test.pb>> ELSE <<>>
         /\ UNCHANGED <<staged, sent, unread, delivered, taken, broken>>
<1>1. test.pb \in Pbs /\ Port!Issue(test.pb, <<d, t>>, n)
  BY DEF Issue, Current
<1>2. /\ call' = [call EXCEPT ![test.pb] = [drv |-> d, trap |-> t,
                                            ioReqCount |-> n, ioActCount |-> 0]]
      /\ queue' = [queue EXCEPT ![d] = Append(@, test.pb)]
      /\ outcome' = outcome /\ UNCHANGED <<staged, sent, unread, delivered, taken, broken>>
  BY <1>1 DEF Port!Issue
<1>3. \A e \in Halves : queue[e] = <<>>
  BY DEF Types, CallTypes, Queued
<1>4. Append(<<>>, test.pb) = <<test.pb>>
  OBVIOUS
<1>5. outcome[test.pb] = None
  BY <1>1 DEF Types, CallTypes, NoneMade
<1> QED
  BY <1>1, <1>2, <1>3, <1>4, <1>5 DEF Types, CallTypes

\* A call that is made keeps the calls in shape.
LEMMA IssueTypes ==
  ASSUME Types, Going, ~InCall, NEW d \in Halves, NEW t \in {"aRdCmd", "aWrCmd"},
         NEW n \in Nat, Issue(<<d, t>>, n),
         test'.pb = test.pb, test'.round = test.round,
         \/ pc' = "write" /\ d = AOut /\ t = "aWrCmd" /\ n = MessageSize(test.round)
         \/ pc' = "read" /\ d = AIn /\ t = "aRdCmd"
  PROVE  CallTypes'
<1>1. /\ test.pb \in Pbs /\ DOMAIN call' = Pbs /\ DOMAIN queue' = Halves
      /\ call'[test.pb] = [drv |-> d, trap |-> t, ioReqCount |-> n, ioActCount |-> 0]
      /\ \A q \in Pbs \ {test.pb} : call'[q] = call[q]
      /\ outcome' = outcome /\ outcome[test.pb] = None
      /\ \A e \in Halves : queue'[e] = IF e = d THEN <<test.pb>> ELSE <<>>
  BY IssueDoes
<1>2. InCall' /\ Going'
  BY DEF InCall, Going
<1>3. \A e \in Halves : queue'[e] = IF Queued(e)' THEN <<test'.pb>> ELSE <<>>
  BY <1>1, <1>2 DEF Queued
<1>4. \A q \in Pbs : NoneMade(q)' \/ call'[q].drv \in Halves
  BY <1>1 DEF Types, CallTypes, NoneMade
<1>5. \A q \in Pbs : q > test.pb => NoneMade(q)'
  BY <1>1 DEF Types, CallTypes, TestTypes, NoneMade
<1>6. pc' = "write" => Made(test.pb, AOut, "aWrCmd", MessageSize(test.round))'
  BY <1>1 DEF Made, None, noErr, MessageSize
<1>7. pc' = "read" => Made(test.pb, AIn, "aRdCmd", call[test.pb].ioReqCount)'
  BY <1>1 DEF Made, None, noErr
<1> QED
  BY <1>1, <1>2, <1>3, <1>4, <1>5, <1>6, <1>7 DEF Types, CallTypes

\* The test makes its next write.
LEMMA WriteTypes ==
  ASSUME Types, Write
  PROVE  /\ TestTypes' /\ CallTypes' /\ StreamTypes' /\ NeverNegative' /\ StreamsKept
         /\ pc = "loop" /\ pc' = "write" /\ test.pb \in Pbs /\ call'[test.pb].ioActCount = 0
         /\ test'.pb = test.pb /\ test'.round = test.round
         /\ test'.bytesWritten = test.bytesWritten /\ test'.bytesRead = test.bytesRead
         /\ test'.readRand = test.readRand
         /\ test'.writeRand = NextRand(test.writeRand, MessageSize(test.round))
         /\ base' = [base EXCEPT ![test.pb] = test.writeRand]
<1>1. /\ pc = "loop" /\ pc' = "write" /\ Issue(<<AOut, "aWrCmd">>, MessageSize(test.round))
      /\ base' = [base EXCEPT ![test.pb] = test.writeRand] /\ loopVars' = loopVars
  BY DEF Write
<1>2. PICK late : test' = [test EXCEPT !.messages = @ + 1, !.timeUp = late,
                     !.writeRand = NextRand(@, MessageSize(test.round))]
  BY DEF Write
<1>3. MessageSize(test.round) \in Nat
  BY MessagesAssumption DEF Types, TestTypes
<1>4. NextRand(test.writeRand, MessageSize(test.round)) \in Letters
  BY <1>3, LetterNext DEF Types, TestTypes
<1>5. /\ test'.pb = test.pb /\ test'.round = test.round
      /\ test'.bytesWritten = test.bytesWritten /\ test'.bytesRead = test.bytesRead
      /\ test'.readRand = test.readRand
      /\ test'.writeRand = NextRand(test.writeRand, MessageSize(test.round))
      /\ TestTypes'
  BY <1>1, <1>2, <1>4 DEF Types, TestTypes, Going
<1>6. Going /\ ~InCall /\ AOut \in Halves
  BY <1>1 DEF Going, InCall, Halves
<1>7. CallTypes'
  BY <1>1, <1>3, <1>5, <1>6, IssueTypes
<1>8. /\ test.pb \in Pbs
      /\ call'[test.pb] = [drv |-> AOut, trap |-> "aWrCmd",
                           ioReqCount |-> MessageSize(test.round), ioActCount |-> 0]
      /\ UNCHANGED <<staged, sent, unread, delivered, taken, broken>>
  BY <1>1, <1>3, <1>6, IssueDoes
<1>9. call'[test.pb].ioActCount = 0
  BY <1>8
<1>10. StreamsKept /\ NeverNegative'
  BY <1>1, <1>5, <1>8 DEF StreamsKept, NeverNegative, Types
<1>11. base' \in [Pbs -> Letters]
  BY <1>1 DEF Types, StreamTypes, TestTypes
<1>12. StreamTypes'
  BY <1>10, <1>11 DEF Types, StreamTypes, StreamsKept, loopVars
<1> QED
  BY <1>1, <1>5, <1>7, <1>8, <1>9, <1>10, <1>12

\* The test makes its next read, or writes on.
LEMMA ReadTypes ==
  ASSUME Types, Read
  PROVE  /\ Types' /\ StreamsKept /\ pc = "status" /\ test' = test /\ base' = base
         /\ \/ pc' = "loop" /\ call' = call
            \/ pc' = "read" /\ test.pb \in Pbs /\ call'[test.pb].ioActCount = 0
<1>1. /\ pc = "status" /\ UNCHANGED <<loopVars, useSerGet, test, base>>
  BY DEF Read
<1>2. PICK avail \in Answers :
        LET n == IF avail > kMesgBufSIze THEN kMesgBufSIze ELSE avail
        IN  IF n = 0
            THEN pc' = "loop" /\ UNCHANGED <<portVars, torn>>
            ELSE /\ Issue(<<AIn, "aRdCmd">>, n)
                 /\ torn' = (torn \/ n > Missing)
                 /\ pc' = "read"
  BY DEF Read
<1>3. avail \in Nat
  <2>1. Len(unread) \in Nat
    BY LenProperties DEF Types, StreamTypes
  <2>2. Missing \in Nat
    BY DEF Types, TestTypes, NeverNegative, Missing
  <2>3. \A x \in Promises : x \in Nat
    BY <2>1 DEF Promises
  <2>4. \A x \in TornPromises : x \in Nat
    BY BuffersAssumption DEF TornPromises
  <2> QED
    BY <2>2, <2>3, <2>4 DEF Answers
<1>4. PICK n \in Nat : n = IF avail > kMesgBufSIze THEN kMesgBufSIze ELSE avail
  BY <1>3, BuffersAssumption
<1>5. TestTypes' /\ NeverNegative'
  BY <1>1, <1>2 DEF Types, TestTypes, Going, NeverNegative
<1>6. Going /\ ~InCall /\ AIn \in Halves
  BY <1>1 DEF Going, InCall, Halves
<1>7. CASE n = 0
  <2>1. pc' = "loop" /\ UNCHANGED portVars
    BY <1>2, <1>4, <1>7
  <2>2. CallTypes'
    BY <1>1, <1>6, <2>1 DEF Types, CallTypes, portVars, Going, InCall, Queued, NoneMade
  <2>3. StreamTypes' /\ StreamsKept
    BY <1>1, <2>1 DEF Types, StreamTypes, portVars, loopVars, StreamsKept
  <2> QED
    BY <1>1, <1>5, <2>1, <2>2, <2>3 DEF Types, portVars
<1>8. CASE n # 0
  <2>1. pc' = "read" /\ Issue(<<AIn, "aRdCmd">>, n)
    BY <1>2, <1>4, <1>8
  <2>2. CallTypes'
    BY <1>1, <1>6, <2>1, IssueTypes
  <2>3. /\ test.pb \in Pbs
        /\ call'[test.pb] = [drv |-> AIn, trap |-> "aRdCmd",
                             ioReqCount |-> n, ioActCount |-> 0]
        /\ UNCHANGED <<staged, sent, unread, delivered, taken, broken>>
    BY <1>1, <1>6, <2>1, IssueDoes
  <2>4. call'[test.pb].ioActCount = 0
    BY <2>3
  <2>5. StreamTypes' /\ StreamsKept
    BY <1>1, <2>3 DEF Types, StreamTypes, loopVars, StreamsKept
  <2> QED
    BY <1>1, <1>5, <2>1, <2>2, <2>3, <2>4, <2>5 DEF Types
<1> QED
  BY <1>7, <1>8

\* The test takes note of a result.
LEMMA ReturnTypes ==
  ASSUME Types, InCall, Result # None, UNCHANGED <<portVars, loopVars, base>>,
         pc' \in {"loop", "check", "failed", "mismatch", "hung"}, TestTypes',
         test'.pb \in {test.pb, test.pb + 1}, Going' => test'.pb = test.pb + 1
  PROVE  CallTypes' /\ StreamTypes'
<1>1. ~InCall' /\ UNCHANGED <<queue, call, outcome>>
  BY DEF InCall, portVars
<1>2. \A d \in Halves : ~Queued(d) /\ ~Queued(d)'
  BY <1>1 DEF Queued, Result
<1>3. \A p \in Pbs : p > test.pb => NoneMade(p)'
  BY <1>1 DEF Types, CallTypes, NoneMade
<1>4. test.pb \in Nat
  BY DEF Types, TestTypes
<1>5. \A p \in Pbs : p > test'.pb => NoneMade(p)'
  <2>1. \A p \in Pbs : p > test'.pb => p > test.pb
    BY <1>4 DEF Pbs
  <2> QED
    BY <1>3, <2>1
<1>6. \A p \in Pbs : Going' /\ p = test'.pb => NoneMade(p)'
  BY <1>3, <1>4
<1>7. \A p \in Pbs : NoneMade(p)' \/ call'[p].drv \in Halves
  BY <1>1 DEF Types, CallTypes, NoneMade
<1>8. CallTypes'
  BY <1>1, <1>2, <1>5, <1>6, <1>7 DEF Types, CallTypes, NoneMade, InCall
<1>9. StreamTypes'
  BY DEF Types, StreamTypes, portVars, loopVars
<1> QED
  BY <1>8, <1>9

\* The test gives up, or waits for ever.
LEMMA FailsTypes ==
  ASSUME Types, Fails \/ Hangs
  PROVE  Types' /\ pc' \in {"failed", "hung"}
<1>1. /\ InCall /\ Result # None /\ UNCHANGED <<portVars, loopVars, useSerGet, test, base>>
      /\ pc' \in {"failed", "hung"}
  BY DEF Fails, Hangs, InCall
<1>2. TestTypes' /\ NeverNegative'
  BY <1>1 DEF Types, TestTypes, NeverNegative
<1>3. ~Going'
  BY <1>1 DEF Going
<1> QED
  BY <1>1, <1>2, <1>3, ReturnTypes DEF Types

\* The write has returned.
LEMMA WrittenTypes ==
  ASSUME Types, Written
  PROVE  /\ Types' /\ UNCHANGED <<portVars, loopVars, base>>
         /\ pc = "write" /\ pc' = "check" /\ test.pb \in Pbs
         /\ call[test.pb].ioActCount = MessageSize(test.round)
         /\ call[test.pb].ioActCount \in Nat
         /\ test'.pb = test.pb + 1 /\ test'.bytesRead = test.bytesRead
         /\ test'.bytesWritten = test.bytesWritten + call[test.pb].ioActCount
         /\ test'.readRand = test.readRand /\ test'.writeRand = test.writeRand
<1>1. /\ pc = "write" /\ outcome[test.pb] = noErr /\ pc' = "check"
      /\ UNCHANGED <<portVars, loopVars, base>>
  BY DEF Written, Result
<1>2. PICK a : a = call[test.pb].ioActCount
  OBVIOUS
<1>3. a \in Nat /\ a = MessageSize(test.round) /\ test.pb \in Pbs
  <2>1. Made(test.pb, AOut, "aWrCmd", MessageSize(test.round)) /\ test.pb \in Pbs
    BY <1>1 DEF Types, CallTypes, InCall
  <2> QED
    BY <1>1, <1>2, <2>1 DEF Made
<1>4. test' = [test EXCEPT !.pb = @ + 1, !.bytesWritten = @ + a]
  BY <1>2 DEF Written
<1>r. test' = [round |-> test.round, pb |-> test.pb + 1, bytesWritten |-> test.bytesWritten + a,
               bytesRead |-> test.bytesRead, writeRand |-> test.writeRand,
               readRand |-> test.readRand, messages |-> test.messages,
               timeUp |-> test.timeUp, asked |-> test.asked]
  BY <1>4 DEF Types, TestTypes
<1>5. /\ test'.pb = test.pb + 1 /\ test'.bytesRead = test.bytesRead
      /\ test'.bytesWritten = test.bytesWritten + a
      /\ test'.readRand = test.readRand /\ test'.writeRand = test.writeRand
      /\ TestTypes'
  BY <1>1, <1>3, <1>r DEF Types, TestTypes, Going
<1>6. CallTypes' /\ StreamTypes'
  BY <1>1, <1>5, ReturnTypes DEF InCall, Result, None, noErr
<1>7. NeverNegative'
  BY <1>3, <1>5 DEF Types, TestTypes, NeverNegative
<1> QED
  BY <1>1, <1>2, <1>3, <1>5, <1>6, <1>7 DEF Types

\* A read that has returned: the bytes are right, or the test ends.
ReadFits == \A i \in Given : Received(i) = NextRand(test.readRand, PlaceInBuffer(i))

LEMMA VerifyTypes ==
  ASSUME Types, Verify
  PROVE  /\ TestTypes' /\ CallTypes' /\ StreamTypes' /\ UNCHANGED <<portVars, loopVars, base>>
         /\ pc = "read" /\ test.pb \in Pbs /\ call[test.pb].ioActCount \in Nat
         /\ \/ pc' = "mismatch" /\ ~ReadFits /\ test' = test
            \/ /\ pc' = "loop"
               /\ test'.pb = test.pb + 1 /\ test'.bytesWritten = test.bytesWritten
               /\ test'.bytesRead = test.bytesRead + call[test.pb].ioActCount
               /\ test'.readRand = NextRand(test.readRand, call[test.pb].ioActCount)
               /\ test'.writeRand = test.writeRand
<1>1. /\ pc = "read" /\ outcome[test.pb] = noErr /\ UNCHANGED <<portVars, loopVars, base>>
  BY DEF Verify, Result
<1>2. PICK a : a = call[test.pb].ioActCount
  OBVIOUS
<1>3. a \in Nat /\ test.pb \in Pbs
  <2>1. Made(test.pb, AIn, "aRdCmd", call[test.pb].ioReqCount) /\ test.pb \in Pbs
    BY <1>1 DEF Types, CallTypes, InCall
  <2> QED
    BY <1>2, <2>1 DEF Made
<1>4. \/ pc' = "mismatch" /\ ~ReadFits /\ test' = test
      \/ /\ pc' = "loop"
         /\ test' = [test EXCEPT !.pb = @ + 1, !.bytesRead = @ + a,
                                 !.readRand = NextRand(@, a)]
  BY <1>2 DEF Verify, ReadFits
<1>5. CASE pc' = "mismatch" /\ ~ReadFits /\ test' = test
  <2>1. TestTypes' /\ ~Going'
    BY <1>5 DEF Types, TestTypes, Going
  <2>2. CallTypes' /\ StreamTypes'
    BY <1>1, <1>5, <2>1, ReturnTypes DEF InCall, Result, None, noErr
  <2> QED
    BY <1>1, <1>2, <1>3, <1>5, <2>1, <2>2
<1>6. CASE pc' = "loop" /\ test' = [test EXCEPT !.pb = @ + 1, !.bytesRead = @ + a,
                                    !.readRand = NextRand(@, a)]
  <2>1. NextRand(test.readRand, a) \in Letters
    BY <1>3, LetterNext DEF Types, TestTypes
  <2>r. test' = [round |-> test.round, pb |-> test.pb + 1, bytesWritten |-> test.bytesWritten,
               bytesRead |-> test.bytesRead + a, writeRand |-> test.writeRand,
               readRand |-> NextRand(test.readRand, a), messages |-> test.messages,
               timeUp |-> test.timeUp, asked |-> test.asked]
    BY <1>6 DEF Types, TestTypes
  <2>s. /\ test'.pb = test.pb + 1 /\ test'.bytesWritten = test.bytesWritten
        /\ test'.bytesRead = test.bytesRead + a
        /\ test'.readRand = NextRand(test.readRand, a)
        /\ test'.writeRand = test.writeRand /\ test'.round = test.round
        /\ test' = [round |-> test'.round, pb |-> test'.pb, bytesWritten |-> test'.bytesWritten,
                    bytesRead |-> test'.bytesRead, writeRand |-> test'.writeRand,
                    readRand |-> test'.readRand, messages |-> test'.messages,
                    timeUp |-> test'.timeUp, asked |-> test'.asked]
    BY <2>r
  <2>2. TestTypes'
    BY <1>3, <1>6, <2>s, <2>1 DEF Types, TestTypes, Going
  <2>3. CallTypes' /\ StreamTypes'
    BY <1>1, <1>6, <2>2, <2>s, ReturnTypes DEF InCall, Result, None, noErr
  <2> QED
    BY <1>1, <1>2, <1>3, <1>6, <2>2, <2>3, <2>s
<1> QED
  BY <1>4, <1>5, <1>6

\* Steps between two calls.
LEMMA BetweenTypes ==
  ASSUME Types, WritesNoMore \/ RoundEnds \/ AsksStatus
  PROVE  /\ Types' /\ UNCHANGED <<portVars, loopVars, base>>
         /\ Going /\ ~InCall /\ Going' /\ ~InCall' /\ test'.pb = test.pb
         /\ \/ /\ test'.bytesWritten = test.bytesWritten /\ test'.bytesRead = test.bytesRead
               /\ test'.writeRand = test.writeRand /\ test'.readRand = test.readRand
               /\ pc' = "done" => test.bytesWritten = test.bytesRead
            \/ /\ test.bytesWritten = test.bytesRead /\ pc' = "loop"
               /\ test'.bytesWritten = 0 /\ test'.bytesRead = 0
               /\ test'.writeRand = 0 /\ test'.readRand = 0
<1>0. UNCHANGED <<portVars, loopVars, base>> /\ Going /\ ~InCall /\ Going' /\ ~InCall'
  BY DEF WritesNoMore, RoundEnds, AsksStatus, Going, InCall
<1>1. \/ /\ test' = [test EXCEPT !.asked = test'.asked] \/ test' = test
         /\ pc' = "done" => test.bytesWritten = test.bytesRead
      \/ test' = NextRound(test) /\ pc' = "loop" /\ test.bytesWritten = test.bytesRead
         /\ test.round + 1 < Rounds
  <2>1. CASE WritesNoMore
    BY <2>1 DEF WritesNoMore
  <2>2. CASE RoundEnds
    BY <2>2 DEF RoundEnds, AllIsBack
  <2>3. CASE AsksStatus
    <3>1. test' = [test EXCEPT !.asked = taken] /\ pc' = "status"
      BY <2>3 DEF AsksStatus
    <3>2. test'.asked = taken
      BY <3>1 DEF Types, TestTypes
    <3> QED
      BY <3>1, <3>2
  <2> QED
    BY <2>1, <2>2, <2>3
<1>2. 0 \in Letters
  BY BuffersAssumption DEF Letters
<1>3. /\ test'.pb = test.pb /\ TestTypes' /\ NeverNegative'
      /\ \/ /\ test'.bytesWritten = test.bytesWritten /\ test'.bytesRead = test.bytesRead
            /\ test'.writeRand = test.writeRand /\ test'.readRand = test.readRand
            /\ pc' = "done" => test.bytesWritten = test.bytesRead
         \/ /\ test.bytesWritten = test.bytesRead /\ pc' = "loop"
            /\ test'.bytesWritten = 0 /\ test'.bytesRead = 0
            /\ test'.writeRand = 0 /\ test'.readRand = 0
  <2>1. CASE /\ test' = [test EXCEPT !.asked = test'.asked] \/ test' = test
             /\ pc' = "done" => test.bytesWritten = test.bytesRead
    BY <1>0, <2>1 DEF Types, TestTypes, NeverNegative
  <2>2. CASE test' = NextRound(test) /\ pc' = "loop" /\ test.bytesWritten = test.bytesRead
             /\ test.round + 1 < Rounds
    <3>1. test' = [round |-> test.round + 1, pb |-> test.pb, bytesWritten |-> 0,
               bytesRead |-> 0, writeRand |-> 0,
               readRand |-> 0, messages |-> 0,
               timeUp |-> FALSE, asked |-> test.asked]
      BY <2>2 DEF Types, TestTypes, NextRound
    <3> QED
      BY <1>0, <1>2, <2>2, <3>1, RoundsAssumption DEF Types, TestTypes, NeverNegative
  <2> QED
    BY <1>1, <2>1, <2>2
<1>4. CallTypes'
  BY <1>0, <1>3 DEF Types, CallTypes, portVars, NoneMade, Queued, InCall
<1>5. StreamTypes'
  BY <1>0 DEF Types, StreamTypes, portVars, loopVars
<1> QED
  BY <1>0, <1>3, <1>4, <1>5 DEF Types
-----------------------------------------------------------------------------
\* The invariant: where the test is in the two streams.

\* How much of the call under way has moved.
Wrote == IF pc = "write" THEN call[test.pb].ioActCount ELSE 0
Got == IF pc = "read" THEN call[test.pb].ioActCount ELSE 0

\* The bytes before this round, and the bytes that the port has accepted.
Before == Len(delivered) - test.bytesRead - Got
Accepted == Before + test.bytesWritten + Wrote

Outgoing == IF broken THEN sent ELSE sent \o staged

Counts ==
    /\ Before >= 0
    /\ taken = Len(delivered) + Len(unread) /\ taken =< Len(echoed)
    /\ taken + Len(staged) =< Accepted
    /\ Len(sent) =< Accepted
    /\ ~broken => Len(sent) + Len(staged) = Accepted
    /\ pc = "done" => test.bytesWritten = test.bytesRead

\* Incoming bytes are numbered through, and are what was sent unless some
\* were lost.
Numbered ==
    /\ \A i \in 1 .. Len(delivered) : delivered[i][2] = i
    /\ \A i \in 1 .. Len(unread) : unread[i] = Len(delivered) + i
Echoes == Lost \/ \A i \in 1 .. Len(echoed) : echoed[i] = sent[i]

Seeds ==
    /\ test.readRand = test.bytesRead % Period
    /\ IF pc = "write"
       THEN /\ base[test.pb] = test.bytesWritten % Period
            /\ test.writeRand = NextRand(base[test.pb], MessageSize(test.round))
       ELSE test.writeRand = test.bytesWritten % Period

\* From position m on, the bytes of s spell the alphabet.
Spelled(seeds, b) == NextRand(seeds[b[1]], b[2])
Right(seeds, s, m) ==
    \A i \in 1 .. Len(s) : i > m => Spelled(seeds, s[i]) = (i - m) % Period

\* The bytes of s are of calls before q, or of q where that is allowed.
Writers(s, q, also) == \A i \in 1 .. Len(s) : s[i][1] < q \/ (also /\ s[i][1] = q)
Readers(s, n, q) == \A i \in 1 .. Len(s) : IF i > n THEN s[i][1] = q ELSE s[i][1] < q

Course ==
    /\ Counts /\ Numbered /\ Echoes /\ Seeds
    /\ Right(base, Outgoing, Before)
    /\ Writers(Outgoing, test.pb, pc = "write")
    /\ Readers(delivered, Len(delivered) - Got, test.pb)

Inv == Types /\ MismatchMeansLoss /\ (Going => Course)

\* Lengths and counts are natural numbers.
LEMMA Sizes ==
  ASSUME Types
  PROVE  /\ Len(staged) \in Nat /\ Len(sent) \in Nat /\ Len(echoed) \in Nat
         /\ Len(unread) \in Nat /\ Len(delivered) \in Nat
         /\ taken \in Nat /\ looped \in Nat /\ test.bytesRead \in Nat
         /\ test.bytesWritten \in Nat /\ test.pb \in Nat /\ Got \in Nat /\ Wrote \in Nat
<1>1. /\ Len(staged) \in Nat /\ Len(sent) \in Nat /\ Len(echoed) \in Nat
      /\ Len(unread) \in Nat /\ Len(delivered) \in Nat
  BY LenProperties DEF Types, StreamTypes
<1>2. Got \in Nat /\ Wrote \in Nat
  <2>1. CASE pc = "read"
    BY <2>1 DEF Types, CallTypes, Made, Got, Wrote
  <2>2. CASE pc = "write"
    BY <2>2 DEF Types, CallTypes, Made, Got, Wrote
  <2>3. CASE ~InCall
    BY <2>3 DEF InCall, Got, Wrote
  <2> QED
    BY <2>1, <2>2, <2>3 DEF InCall
<1> QED
  BY <1>1, <1>2 DEF Types, StreamTypes, TestTypes

\* What is on its way out is a sequence of bytes.
LEMMA OutgoingIs ==
  ASSUME Types
  PROVE  staged \in Seq(Bytes) /\ sent \in Seq(Bytes) /\ Outgoing \in Seq(Bytes)
BY Joined DEF Types, StreamTypes, Outgoing

\* Bytes that spell on keep the spelling right.
LEMMA RightJoined ==
  ASSUME NEW seeds, NEW s \in Seq(Bytes), NEW f \in Seq(Bytes), NEW m \in Int,
         Right(seeds, s, m),
         \A j \in 1 .. Len(f) : Spelled(seeds, f[j]) = (Len(s) + j - m) % Period
  PROVE  Right(seeds, s \o f, m)
<1>1. PICK o : o = s \o f
  OBVIOUS
<1>2. /\ Len(s) \in Nat
      /\ \A i \in 1 .. Len(o) :
           \/ i \in 1 .. Len(s) /\ o[i] = s[i]
           \/ i - Len(s) \in 1 .. Len(f) /\ o[i] = f[i - Len(s)]
  BY <1>1, Joined, Zenon
<1>3. ASSUME NEW i \in 1 .. Len(o), i > m
      PROVE  Spelled(seeds, o[i]) = (i - m) % Period
  <2>1. CASE i \in 1 .. Len(s) /\ o[i] = s[i]
    BY <1>3, <2>1 DEF Right
  <2>2. CASE i - Len(s) \in 1 .. Len(f) /\ o[i] = f[i - Len(s)]
    <3>1. PICK j \in 1 .. Len(f) : j = i - Len(s)
      BY <2>2
    <3>2. Len(s) + j - m = i - m
      BY <1>2, <3>1
    <3>3. Spelled(seeds, f[j]) = (Len(s) + j - m) % Period
      OBVIOUS
    <3> QED
      BY <2>2, <3>1, <3>2, <3>3
  <2> QED
    BY <1>2, <2>1, <2>2
<1>4. Right(seeds, o, m)
  BY <1>3 DEF Right
<1> QED
  BY <1>1, <1>4

\* Bytes of the same writers may be joined.
LEMMA WritersJoined ==
  ASSUME NEW s \in Seq(Bytes), NEW f \in Seq(Bytes), NEW q, NEW also,
         Writers(s, q, also), Writers(f, q, also)
  PROVE  Writers(s \o f, q, also)
<1>1. PICK o : o = s \o f
  OBVIOUS
<1>2. /\ Len(s) \in Nat
      /\ \A i \in 1 .. Len(o) :
           \/ i \in 1 .. Len(s) /\ o[i] = s[i]
           \/ i - Len(s) \in 1 .. Len(f) /\ o[i] = f[i - Len(s)]
  BY <1>1, Joined, Zenon
<1>3. Writers(o, q, also)
  BY <1>2, Zenon DEF Writers
<1> QED
  BY <1>1, <1>3

\* What holds of both holds of the first.
LEMMA FirstPart ==
  ASSUME NEW s \in Seq(Bytes), NEW f \in Seq(Bytes)
  PROVE  /\ \A seeds, m : Right(seeds, s \o f, m) => Right(seeds, s, m)
         /\ \A q, also : Writers(s \o f, q, also) => Writers(s, q, also)
<1>1. PICK o : o = s \o f
  OBVIOUS
<1>2. /\ Len(s) \in Nat /\ Len(f) \in Nat /\ Len(o) = Len(s) + Len(f)
      /\ \A i \in 1 .. Len(s) : o[i] = s[i]
  <2>1. /\ Len(s) \in Nat /\ Len(f) \in Nat /\ Len(s \o f) = Len(s) + Len(f)
        /\ \A i \in 1 .. Len(s) : (s \o f)[i] = s[i]
    BY Joined
  <2> QED
    BY <1>1, <2>1, Zenon
<1>3. \A i \in 1 .. Len(s) : i \in 1 .. Len(o)
  BY <1>2
<1>4. \A seeds, m : Right(seeds, o, m) => Right(seeds, s, m)
  BY <1>2, <1>3, Zenon DEF Right
<1>5. \A q, also : Writers(o, q, also) => Writers(s, q, also)
  BY <1>2, <1>3, Zenon DEF Writers
<1> QED
  BY <1>1, <1>4, <1>5
-----------------------------------------------------------------------------
\* The port's steps keep the test's course.

\* A result is stored: nothing that the course looks at changes.
LEMMA CourseKept ==
  ASSUME Course, UNCHANGED <<delivered, unread, taken, staged, sent, broken, looped, echoed,
                             base, test, pc, call>>
  PROVE  Course'
<1>1. /\ Got' = Got /\ Wrote' = Wrote /\ Outgoing' = Outgoing /\ Lost' = Lost
  BY DEF Got, Wrote, Outgoing, Lost
<1>2. Before' = Before /\ Accepted' = Accepted
  BY <1>1 DEF Before, Accepted
<1>3. Counts' /\ Numbered' /\ Echoes' /\ Seeds'
  BY <1>1, <1>2 DEF Course, Counts, Numbered, Echoes, Seeds, MessageSize
<1> QED
  BY <1>1, <1>2, <1>3 DEF Course

\* The bytes that are staged are the next letters of the alphabet.
LEMMA AcceptCourse ==
  ASSUME Types, Course, NEW p \in Current, NEW k \in 1 .. PayloadSize,
         Port!Accept(p, k), TestKept
  PROVE  Course'
<1>1. PICK a : a = call[p].ioActCount
  OBVIOUS
<1>2. PICK f : f = [i \in 1 .. k |-> <<p, a + i>>]
  OBVIOUS
<1>c. pc = "write" /\ call'[p].ioActCount = a + k
  BY <1>1, AcceptTypes, Zenon
<1>3. k \in Nat /\ a \in Nat
  BY <1>1, AcceptTypes, Zenon
<1>f. f \in Seq(Bytes)
  BY <1>1, <1>2, AcceptTypes, Zenon
<1>l. Len(f) = k
  BY <1>1, <1>2, AcceptTypes, Zenon
<1>4. p = test.pb /\ p \in Pbs
  BY DEF Current
<1>b. ~broken /\ ~broken'
  BY DEF Port!Accept
<1>g. ~broken /\ broken' = broken /\ staged' = staged \o f
  BY <1>1, <1>2 DEF Port!Accept
<1>5. UNCHANGED <<sent, unread, delivered, taken, looped, echoed, base, test, pc>>
  BY <1>1, <1>2 DEF Port!Accept, TestKept, loopVars, testVars
<1>6. /\ Got = 0 /\ Got' = 0 /\ Wrote = a /\ Wrote' = a + k
  BY <1>1, <1>c, <1>4, <1>5 DEF Got, Wrote
<1>7. Len(delivered) \in Nat /\ test.bytesRead \in Nat /\ test.bytesWritten \in Nat
  BY Sizes, Zenon
<1>n. Len(staged) \in Nat /\ Len(sent) \in Nat /\ taken \in Nat
  BY Sizes, Zenon
<1>s. staged \in Seq(Bytes) /\ sent \in Seq(Bytes) /\ Outgoing \in Seq(Bytes)
  BY OutgoingIs, Zenon
<1>8. Before' = Before /\ Before \in Int /\ Accepted' = Accepted + k /\ Accepted \in Int
      /\ Accepted = Before + test.bytesWritten + a
  BY <1>3, <1>5, <1>6, <1>7 DEF Before, Accepted
<1>9. Len(staged') = Len(staged) + k
  BY <1>g, <1>f, <1>l, <1>s, Joined
<1>10. Counts'
  <2>1. /\ Before >= 0 /\ taken = Len(delivered) + Len(unread) /\ taken =< Len(echoed)
        /\ taken + Len(staged) =< Accepted /\ Len(sent) =< Accepted
        /\ Len(sent) + Len(staged) = Accepted /\ pc # "done"
    BY <1>b, <1>c DEF Course, Counts
  <2>2. /\ taken + Len(staged') =< Accepted' /\ Len(sent) =< Accepted'
        /\ Len(sent) + Len(staged') = Accepted'
    BY <1>3, <1>n, <1>8, <1>9, <2>1
  <2> QED
    BY <1>5, <1>8, <2>1, <2>2 DEF Counts
<1>11. Numbered' /\ Echoes' /\ Seeds'
  BY <1>5 DEF Course, Numbered, Echoes, Lost, Seeds, MessageSize
<1>12. Outgoing = sent \o staged /\ Outgoing' = Outgoing \o f
  <2>1. (sent \o staged) \o f = sent \o (staged \o f)
    BY <1>f, <1>s, ConcatAssociative
  <2> QED
    BY <1>g, <1>5, <2>1 DEF Outgoing
<1>13. Len(Outgoing) = Accepted
  <2>1. Len(Outgoing) = Len(sent) + Len(staged)
    BY <1>12, <1>s, Joined
  <2>2. Len(sent) + Len(staged) = Accepted
    BY <1>b DEF Course, Counts
  <2> QED
    BY <2>1, <2>2
<1>14. ASSUME NEW j \in 1 .. Len(f)
       PROVE  Spelled(base, f[j]) = (Len(Outgoing) + j - Before) % Period
  <2>0. j \in 1 .. k
    BY <1>l
  <2>1. f[j] = <<p, a + j>>
    BY <1>2, <2>0
  <2>n. j \in Nat /\ a + j \in Nat
    BY <1>3, <2>0
  <2>2. base[p] = test.bytesWritten % Period
    BY <1>c, <1>4 DEF Course, Seeds
  <2>3. NextRand(test.bytesWritten % Period, a + j) = (test.bytesWritten + (a + j)) % Period
    BY <1>7, <2>n, NextRandAdds
  <2>4. Len(Outgoing) + j - Before = test.bytesWritten + (a + j)
    <3>1. \A b, l, x, w \in Int : l = b + w + x => l + j - b = w + (x + j)
      BY <2>n
    <3>2. Len(Outgoing) = Before + test.bytesWritten + a /\ Before \in Int /\ Len(Outgoing) \in Int
      BY <1>8, <1>13
    <3> QED
      BY <1>3, <1>7, <3>1, <3>2
  <2> QED
    BY <2>1, <2>2, <2>3, <2>4 DEF Spelled
<1>15. Right(base, Outgoing', Before)
  <2>1. Right(base, Outgoing, Before)
    BY DEF Course
  <2> QED
    BY <1>f, <1>s, <1>8, <1>12, <1>14, <2>1, RightJoined
<1>16. Writers(Outgoing', test.pb, pc = "write")
  <2>1. \A j \in 1 .. Len(f) : f[j][1] = test.pb
    BY <1>2, <1>l, <1>4
  <2>2. Writers(f, test.pb, pc = "write")
    BY <1>c, <2>1 DEF Writers
  <2> QED
    BY <1>f, <1>s, <1>12, <2>2, WritersJoined DEF Course
<1>17. Readers(delivered, Len(delivered) - Got, test.pb)'
  BY <1>5, <1>6 DEF Course
<1> QED
  BY <1>5, <1>8, <1>10, <1>11, <1>15, <1>16, <1>17 DEF Course

\* The bytes that are delivered are the next ones that came in.
LEMMA DeliverCourse ==
  ASSUME Types, Course, NEW p \in Current, NEW k \in 1 .. PayloadSize,
         Port!Deliver(p, k), TestKept
  PROVE  Course'
<1>1. PICK a : a = call[p].ioActCount
  OBVIOUS
<1>2. PICK f : f = [i \in 1 .. k |-> <<p, unread[i]>>]
  OBVIOUS
<1>c. pc = "read" /\ call'[p].ioActCount = a + k
  BY <1>1, DeliverTypes, Zenon
<1>3. k \in Nat /\ a \in Nat
  BY <1>1, DeliverTypes, Zenon
<1>f. f \in Seq(Bytes)
  BY <1>1, <1>2, DeliverTypes, Zenon
<1>l. Len(f) = k
  BY <1>1, <1>2, DeliverTypes, Zenon
<1>4. p = test.pb /\ p \in Pbs
  BY DEF Current
<1>g. delivered' = delivered \o f /\ unread' = SubSeq(unread, k + 1, Len(unread))
  BY <1>2 DEF Port!Deliver
<1>5. UNCHANGED <<sent, staged, broken, taken, looped, echoed, base, test, pc>>
  BY <1>2 DEF Port!Deliver, TestKept, loopVars, testVars
<1>6. /\ Got = a /\ Got' = a + k /\ Wrote = 0 /\ Wrote' = 0
  BY <1>1, <1>c, <1>4, <1>5 DEF Got, Wrote
<1>7. /\ Len(unread) \in Nat /\ Len(delivered) \in Nat
      /\ test.bytesRead \in Nat /\ test.bytesWritten \in Nat
  BY Sizes, Zenon
<1>s. delivered \in Seq(Bytes) /\ unread \in Seq(Nat)
  BY DEF Types, StreamTypes
<1>k. k =< Len(unread)
  BY DEF Port!Deliver
<1>8. /\ Len(delivered') = Len(delivered) + k
      /\ \A i \in 1 .. Len(delivered') :
           \/ i \in 1 .. Len(delivered) /\ delivered'[i] = delivered[i]
           \/ i - Len(delivered) \in 1 .. k /\ delivered'[i] = f[i - Len(delivered)]
  BY <1>f, <1>l, <1>g, <1>s, Joined
<1>9. /\ Len(unread') = Len(unread) - k
      /\ \A i \in 1 .. Len(unread') : unread'[i] = unread[k + i]
  <2>1. /\ k + 1 \in Int /\ Len(unread) \in Int /\ 1 =< k + 1 /\ k + 1 =< Len(unread) + 1
    BY <1>3, <1>k, <1>7
  <2>2. /\ Len(unread') = Len(unread) - (k + 1) + 1
        /\ \A i \in 1 .. Len(unread) - (k + 1) + 1 : unread'[i] = unread[(k + 1) + i - 1]
    BY <1>g, <1>s, <2>1, PartOf
  <2>3. Len(unread) - (k + 1) + 1 = Len(unread) - k
    BY <1>3, <1>7
  <2>4. \A i \in 1 .. Len(unread) - k : (k + 1) + i - 1 = k + i
    BY <1>3, <1>7
  <2> QED
    BY <2>2, <2>3, <2>4
<1>d. Len(delivered') = Len(delivered) + k
  BY <1>8
<1>u. Len(unread') = Len(unread) - k
  BY <1>9
<1>10. Before' = Before /\ Before \in Int /\ Accepted' = Accepted
  BY <1>3, <1>5, <1>6, <1>7, <1>d DEF Before, Accepted
<1>o. Outgoing' = Outgoing
  BY <1>5 DEF Outgoing
<1>11. Counts'
  BY <1>3, <1>5, <1>7, <1>d, <1>u, <1>10 DEF Course, Counts
<1>12. Numbered'
  <2>1. ASSUME NEW i \in 1 .. Len(delivered')
        PROVE  delivered'[i][2] = i
    <3>1. CASE i \in 1 .. Len(delivered) /\ delivered'[i] = delivered[i]
      BY <3>1 DEF Course, Numbered
    <3>2. CASE i - Len(delivered) \in 1 .. k /\ delivered'[i] = f[i - Len(delivered)]
      <4>1. PICK j \in 1 .. k : j = i - Len(delivered)
        BY <3>2
      <4>2. f[j] = <<p, unread[j]>>
        BY <1>2
      <4>3. unread[j] = Len(delivered) + j
        BY <1>3, <1>k, <1>7 DEF Course, Numbered
      <4> QED
        <5>1. delivered'[i] = <<p, Len(delivered) + j>>
          BY <3>2, <4>1, <4>2, <4>3
        <5>2. Len(delivered) + j = i
          BY <1>3, <1>7, <1>d, <4>1
        <5> QED
          BY <5>1, <5>2
    <3> QED
      BY <1>8, <3>1, <3>2
  <2>2. ASSUME NEW i \in 1 .. Len(unread')
        PROVE  unread'[i] = Len(delivered') + i
    <3>1. k + i \in 1 .. Len(unread)
      BY <1>3, <1>7, <1>u
    <3>2. unread[k + i] = Len(delivered) + (k + i)
      BY <3>1 DEF Course, Numbered
    <3> QED
      <4>1. unread'[i] = Len(delivered) + (k + i)
        BY <1>9, <3>2
      <4>2. Len(delivered) + (k + i) = Len(delivered') + i
        BY <1>3, <1>7, <1>d, <1>u
      <4> QED
        BY <4>1, <4>2
  <2> QED
    BY <2>1, <2>2 DEF Numbered
<1>13. Echoes' /\ Seeds'
  BY <1>5 DEF Course, Echoes, Lost, Seeds, MessageSize
<1>14. Readers(delivered', Len(delivered') - Got', test.pb)
  <2>1. PICK n \in Int : n = Len(delivered) - a
    BY <1>3, <1>7
  <2>2. Len(delivered') - Got' = n /\ Readers(delivered, n, test.pb)
    BY <1>3, <1>6, <1>7, <1>d, <2>1 DEF Course
  <2>3. ASSUME NEW i \in 1 .. Len(delivered')
        PROVE  IF i > n THEN delivered'[i][1] = test.pb ELSE delivered'[i][1] < test.pb
    <3>1. CASE i \in 1 .. Len(delivered) /\ delivered'[i] = delivered[i]
      BY <2>2, <3>1 DEF Readers
    <3>2. CASE i - Len(delivered) \in 1 .. k /\ delivered'[i] = f[i - Len(delivered)]
      <4>1. f[i - Len(delivered)] = <<p, unread[i - Len(delivered)]>>
        BY <1>2, <3>2
      <4>2. i > n
        BY <1>3, <1>7, <1>d, <2>1, <3>2
      <4> QED
        BY <1>4, <3>2, <4>1, <4>2
    <3> QED
      BY <1>8, <3>1, <3>2
  <2> QED
    BY <2>2, <2>3 DEF Readers
<1> QED
  BY <1>5, <1>o, <1>10, <1>11, <1>12, <1>13, <1>14 DEF Course

\* Nothing of the test, its calls and its reading changes.
LEMMA ReadingKept ==
  ASSUME Types, Course, TestKept, UNCHANGED <<call, delivered>>
  PROVE  /\ Before' = Before /\ Before \in Int /\ Accepted' = Accepted /\ Accepted \in Int
         /\ Seeds' /\ Readers(delivered, Len(delivered) - Got, test.pb)'
<1>1. UNCHANGED <<pc, test, base>>
  BY DEF TestKept, testVars
<1>2. Got' = Got /\ Wrote' = Wrote
  BY <1>1 DEF Got, Wrote
<1>3. Len(delivered) \in Nat /\ test.bytesRead \in Nat /\ test.bytesWritten \in Nat
      /\ Got \in Nat /\ Wrote \in Nat
  BY Sizes, Zenon
<1>4. Before' = Before /\ Before \in Int /\ Accepted' = Accepted /\ Accepted \in Int
  BY <1>1, <1>2, <1>3 DEF Before, Accepted
<1>5. Seeds'
  BY <1>1 DEF Course, Seeds, MessageSize
<1> QED
  BY <1>1, <1>2, <1>4, <1>5 DEF Course

\* Sending what is staged does not change what is on its way.
LEMMA FlushCourse ==
  ASSUME Types, Course, Port!Flush, TestKept
  PROVE  Course'
<1>1. /\ ~broken /\ UNCHANGED <<call, unread, delivered, taken, broken>>
  BY DEF Port!Flush
<1>2. sent' = sent \o staged /\ staged' = <<>>
  BY DEF Port!Flush
<1>3. UNCHANGED <<pc, test, base, looped, echoed>>
  BY DEF TestKept, testVars, loopVars
<1>4. /\ Before' = Before /\ Before \in Int /\ Accepted' = Accepted /\ Accepted \in Int
      /\ Seeds' /\ Readers(delivered, Len(delivered) - Got, test.pb)'
  BY <1>1, ReadingKept
<1>5. staged \in Seq(Bytes) /\ sent \in Seq(Bytes) /\ sent \o staged \in Seq(Bytes)
  BY OutgoingIs, Joined
<1>6. Len(sent') = Len(sent) + Len(staged) /\ Len(staged') = 0
  BY <1>2, <1>5, Joined
<1>7. Outgoing' = Outgoing
  <2>1. (sent \o staged) \o <<>> = sent \o staged
    BY <1>5, ConcatEmptySeq
  <2> QED
    BY <1>1, <1>2, <2>1 DEF Outgoing
<1>8. Len(staged) \in Nat /\ Len(sent) \in Nat /\ taken \in Nat
  BY Sizes, Zenon
<1>9. Counts'
  <2>1. /\ Before >= 0 /\ taken = Len(delivered) + Len(unread) /\ taken =< Len(echoed)
        /\ taken + Len(staged) =< Accepted /\ Len(sent) =< Accepted
        /\ Len(sent) + Len(staged) = Accepted
        /\ pc = "done" => test.bytesWritten = test.bytesRead
    BY <1>1 DEF Course, Counts
  <2>2. /\ taken + Len(staged') =< Accepted' /\ Len(sent') =< Accepted'
        /\ Len(sent') + Len(staged') = Accepted'
    BY <1>4, <1>6, <1>8, <2>1
  <2> QED
    BY <1>1, <1>3, <1>4, <2>1, <2>2 DEF Counts
<1>10. Numbered'
  BY <1>1 DEF Course, Numbered
<1>11. Echoes'
  <2>1. /\ \A i \in 1 .. Len(sent) : sent'[i] = sent[i]
    BY <1>2, <1>5, Joined
  <2>2. Lost' = Lost
    BY <1>3 DEF Lost
  <2>3. \A i \in 1 .. Len(echoed) : i \in 1 .. Len(sent)
    BY <1>8, Sizes DEF Types, StreamTypes
  <2> QED
    BY <1>3, <2>1, <2>2, <2>3 DEF Course, Echoes
<1> QED
  BY <1>3, <1>4, <1>7, <1>9, <1>10, <1>11 DEF Course

\* A failing connection only shortens what is on its way.
LEMMA BreakCourse ==
  ASSUME Types, Course, Port!Break, TestKept
  PROVE  Course'
<1>1. /\ ~broken /\ broken' = TRUE /\ UNCHANGED <<call, unread, delivered, taken, staged>>
  BY DEF Port!Break
<1>2. sent' \in {sent, sent \o staged}
  BY DEF Port!Break
<1>3. UNCHANGED <<pc, test, base, looped, echoed>>
  BY DEF TestKept, testVars, loopVars
<1>4. /\ Before' = Before /\ Before \in Int /\ Accepted' = Accepted /\ Accepted \in Int
      /\ Seeds' /\ Readers(delivered, Len(delivered) - Got, test.pb)'
  BY <1>1, ReadingKept
<1>5. staged \in Seq(Bytes) /\ sent \in Seq(Bytes) /\ sent \o staged \in Seq(Bytes)
  BY OutgoingIs, Joined
<1>6. Len(sent \o staged) = Len(sent) + Len(staged)
  BY <1>5, Joined
<1>7. Len(staged) \in Nat /\ Len(sent) \in Nat /\ taken \in Nat
  BY Sizes, Zenon
<1>8. Counts'
  <2>1. /\ Before >= 0 /\ taken = Len(delivered) + Len(unread) /\ taken =< Len(echoed)
        /\ taken + Len(staged) =< Accepted /\ Len(sent) =< Accepted
        /\ Len(sent) + Len(staged) = Accepted
        /\ pc = "done" => test.bytesWritten = test.bytesRead
    BY <1>1 DEF Course, Counts
  <2>2. Len(sent) + Len(staged) =< Accepted
    BY <1>4, <1>7, <2>1
  <2>3. Len(sent') =< Accepted
    BY <1>2, <1>6, <2>1, <2>2, Zenon
  <2> QED
    BY <1>1, <1>3, <1>4, <2>1, <2>3 DEF Counts
<1>9. Numbered'
  BY <1>1 DEF Course, Numbered
<1>10. Echoes'
  <2>1. \A i \in 1 .. Len(sent) : (sent \o staged)[i] = sent[i]
    BY <1>5, Joined
  <2>2. \A i \in 1 .. Len(sent) : sent'[i] = sent[i]
    BY <1>2, <2>1, Zenon
  <2>3. Lost' = Lost
    BY <1>3 DEF Lost
  <2>4. \A i \in 1 .. Len(echoed) : i \in 1 .. Len(sent)
    BY <1>7, Sizes DEF Types, StreamTypes
  <2> QED
    BY <1>3, <2>2, <2>3, <2>4 DEF Course, Echoes
<1>11. Outgoing = sent \o staged /\ Outgoing' = sent'
  BY <1>1 DEF Outgoing
<1>12. Right(base, Outgoing', Before) /\ Writers(Outgoing', test.pb, pc = "write")
  <2>1. Right(base, sent \o staged, Before) /\ Writers(sent \o staged, test.pb, pc = "write")
    BY <1>11 DEF Course
  <2>2. Right(base, sent, Before) /\ Writers(sent, test.pb, pc = "write")
    BY <1>5, <2>1, FirstPart
  <2> QED
    BY <1>2, <1>11, <2>1, <2>2, Zenon
<1> QED
  BY <1>3, <1>4, <1>8, <1>9, <1>10, <1>12 DEF Course

\* A fetch takes bytes that have come back.
LEMMA FetchCourse ==
  ASSUME Types, Course, NEW n \in 1 .. PayloadSize, taken + n =< Len(echoed),
         Port!Fetch(n), TestKept
  PROVE  Course'
<1>1. /\ ~broken /\ UNCHANGED <<call, delivered, staged, sent, broken>>
  BY DEF Port!Fetch
<1>2. unread = <<>> /\ unread' = [i \in 1 .. n |-> taken + i] /\ taken' = taken + n
  BY DEF Port!Fetch
<1>3. UNCHANGED <<pc, test, base, looped, echoed>>
  BY DEF TestKept, testVars, loopVars
<1>4. /\ Before' = Before /\ Before \in Int /\ Accepted' = Accepted /\ Accepted \in Int
      /\ Seeds' /\ Readers(delivered, Len(delivered) - Got, test.pb)'
  BY <1>1, ReadingKept
<1>5. n \in Nat /\ taken \in Nat
  BY BuffersAssumption DEF Types, StreamTypes
<1>6. Len(unread') = n
  <2>1. unread' \in [1 .. n -> Nat]
    BY <1>2, <1>5
  <2> QED
    BY <1>5, <2>1, Listed
<1>7. /\ Len(staged) \in Nat /\ Len(sent) \in Nat /\ Len(delivered) \in Nat
      /\ Len(echoed) \in Nat /\ looped \in Nat
  BY Sizes, Zenon
<1>8. Len(unread) = 0
  BY <1>2
<1>9. /\ Before >= 0 /\ taken = Len(delivered) + Len(unread)
      /\ Len(sent) =< Accepted /\ Len(sent) + Len(staged) = Accepted
      /\ pc = "done" => test.bytesWritten = test.bytesRead
  BY <1>1 DEF Course, Counts
<1>10. taken = Len(delivered)
  BY <1>7, <1>8, <1>9
<1>11. Counts'
  <2>1. Len(echoed) =< looped /\ looped =< Len(sent)
    BY DEF Types, StreamTypes
  <2>2. taken' = Len(delivered) + Len(unread') /\ taken' =< Len(echoed)
    BY <1>2, <1>6, <1>10
  <2>3. taken' + Len(staged) =< Accepted
    BY <1>4, <1>5, <1>7, <1>9, <2>1, <2>2, <1>2
  <2> QED
    BY <1>1, <1>3, <1>4, <1>9, <2>2, <2>3 DEF Counts
<1>12. Numbered'
  BY <1>1, <1>2, <1>6, <1>10 DEF Course, Numbered
<1>13. Echoes'
  BY <1>1, <1>3 DEF Course, Echoes, Lost
<1>14. Outgoing' = Outgoing
  BY <1>1 DEF Outgoing
<1> QED
  BY <1>3, <1>4, <1>11, <1>12, <1>13, <1>14 DEF Course

\* The loopback repeats what was sent, or has lost some.
LEMMA LoopCourse ==
  ASSUME Types, Course, Loop
  PROVE  Course'
<1>1. PICK n \in 1 .. Len(sent) - looped, w \in 0 .. LoopSize :
        /\ w =< n /\ looped' = looped + n
        /\ echoed' = echoed \o SubSeq(sent, looped + 1, looped + w)
        /\ UNCHANGED <<portVars, testVars>>
  BY DEF Loop
<1>2. PICK f : f = SubSeq(sent, looped + 1, looped + w)
  OBVIOUS
<1>f. f \in Seq(Bytes)
  BY <1>1, <1>2, LoopTypes, Zenon
<1>l. Len(f) = w
  BY <1>1, <1>2, LoopTypes, Zenon
<1>3. \A i \in 1 .. w : f[i] = sent[looped + i]
  BY <1>1, <1>2, LoopTypes, Zenon
<1>4. UNCHANGED <<call, unread, delivered, taken, staged, sent, broken, pc, test, base>>
  BY <1>1 DEF portVars, testVars
<1>5. Len(echoed) \in Nat /\ looped \in Nat /\ Len(sent) \in Nat /\ n \in Nat /\ w \in Nat
      /\ taken \in Nat
  BY <1>1, Sizes, BuffersAssumption
<1>6. echoed \in Seq(Bytes)
  BY DEF Types, StreamTypes
<1>7. /\ Len(echoed') = Len(echoed) + w
      /\ \A i \in 1 .. Len(echoed') :
           \/ i \in 1 .. Len(echoed) /\ echoed'[i] = echoed[i]
           \/ i - Len(echoed) \in 1 .. w /\ echoed'[i] = f[i - Len(echoed)]
  <2>1. echoed' = echoed \o f
    BY <1>1, <1>2
  <2> QED
    BY <1>6, <1>f, <1>l, <2>1, Joined
<1>d. Len(echoed') = Len(echoed) + w
  BY <1>7
<1>8. Got' = Got /\ Wrote' = Wrote /\ Outgoing' = Outgoing
  BY <1>4 DEF Got, Wrote, Outgoing
<1>9. Before' = Before /\ Accepted' = Accepted
  BY <1>4, <1>8 DEF Before, Accepted
<1>10. Counts'
  <2>1. taken =< Len(echoed')
    BY <1>5, <1>d DEF Course, Counts
  <2> QED
    BY <1>4, <1>9, <2>1 DEF Course, Counts
<1>11. Echoes'
  <2>1. CASE Lost'
    BY <2>1 DEF Echoes
  <2>2. CASE ~Lost'
    <3>1. Len(echoed) =< looped
      BY DEF Types, StreamTypes
    <3>2. Len(echoed) = looped /\ w = n
      BY <1>1, <1>5, <1>d, <2>2, <3>1 DEF Lost
    <3>3. \A i \in 1 .. Len(echoed) : echoed[i] = sent[i]
      BY <1>5, <3>2 DEF Course, Echoes, Lost
    <3>4. ASSUME NEW i \in 1 .. Len(echoed')
          PROVE  echoed'[i] = sent[i]
      <4>1. CASE i \in 1 .. Len(echoed) /\ echoed'[i] = echoed[i]
        BY <3>3, <4>1
      <4>2. CASE i - Len(echoed) \in 1 .. w /\ echoed'[i] = f[i - Len(echoed)]
        <5>1. f[i - Len(echoed)] = sent[looped + (i - Len(echoed))]
          BY <1>3, <4>2
        <5>2. looped + (i - Len(echoed)) = i
          BY <1>5, <1>d, <3>2
        <5> QED
          BY <4>2, <5>1, <5>2
      <4> QED
        BY <1>7, <4>1, <4>2
    <3> QED
      BY <1>4, <3>4 DEF Echoes
  <2> QED
    BY <2>1, <2>2
<1>12. Numbered' /\ Seeds'
  BY <1>4 DEF Course, Numbered, Seeds, MessageSize
<1> QED
  BY <1>4, <1>8, <1>9, <1>10, <1>11, <1>12 DEF Course
-----------------------------------------------------------------------------
\* The test's steps keep its course.

\* The port is not touched, and the test stays at the same place in its streams.
LEMMA StayCourse ==
  ASSUME Types, Course, StreamsKept, Before' = Before, Accepted' = Accepted,
         pc' = "done" => test'.bytesWritten = test'.bytesRead
  PROVE  /\ Counts' /\ Numbered' /\ Echoes' /\ Outgoing' = Outgoing
<1>1. UNCHANGED <<staged, sent, unread, delivered, taken, broken, looped, echoed>>
  BY DEF StreamsKept, loopVars
<1>2. Counts'
  BY <1>1 DEF Course, Counts
<1>3. Numbered' /\ Echoes'
  BY <1>1 DEF Course, Numbered, Echoes, Lost
<1>4. Outgoing' = Outgoing
  BY <1>1 DEF Outgoing
<1> QED
  BY <1>2, <1>3, <1>4

\* Calls before q are calls before the next one.
LEMMA WritersNext ==
  ASSUME NEW s \in Seq(Bytes), NEW q \in Nat, NEW also \in BOOLEAN, Writers(s, q, also)
  PROVE  Writers(s, q + 1, FALSE)
<1>1. \A i \in 1 .. Len(s) : s[i][1] \in Nat
  <2>1. \A i \in 1 .. Len(s) : s[i] \in Bytes
    BY ElementOfSeq
  <2>2. \A b \in Bytes : b[1] \in Nat
    BY DEF Bytes, Pbs
  <2> QED
    BY <2>1, <2>2
<1> QED
  BY <1>1 DEF Writers

\* The same of readers.
LEMMA ReadersNext ==
  ASSUME NEW s \in Seq(Bytes), NEW q \in Nat, NEW n, Readers(s, n, q)
  PROVE  Readers(s, Len(s), q + 1)
<1>1. \A i \in 1 .. Len(s) : s[i][1] \in Nat
  <2>1. \A i \in 1 .. Len(s) : s[i] \in Bytes
    BY ElementOfSeq
  <2>2. \A b \in Bytes : b[1] \in Nat
    BY DEF Bytes, Pbs
  <2> QED
    BY <2>1, <2>2
<1>2. Len(s) \in Nat
  BY LenProperties
<1>3. \A i \in 1 .. Len(s) : ~(i > Len(s))
  BY <1>2
<1>4. \A i \in 1 .. Len(s) : s[i][1] < q + 1
  BY <1>1 DEF Readers
<1> QED
  BY <1>3, <1>4 DEF Readers

\* A round ends only when everything is back: the next one starts with nothing
\* on its way, and with all its counters and seeds at 0.
LEMMA BetweenCourse ==
  ASSUME Types, Course, WritesNoMore \/ RoundEnds \/ AsksStatus
  PROVE  Course'
<1>1. /\ UNCHANGED <<portVars, loopVars, base>>
      /\ Going /\ ~InCall /\ Going' /\ ~InCall' /\ test'.pb = test.pb
      /\ \/ /\ test'.bytesWritten = test.bytesWritten /\ test'.bytesRead = test.bytesRead
            /\ test'.writeRand = test.writeRand /\ test'.readRand = test.readRand
            /\ pc' = "done" => test.bytesWritten = test.bytesRead
         \/ /\ test.bytesWritten = test.bytesRead /\ pc' = "loop"
            /\ test'.bytesWritten = 0 /\ test'.bytesRead = 0
            /\ test'.writeRand = 0 /\ test'.readRand = 0
  BY BetweenTypes
<1>2. Got = 0 /\ Got' = 0 /\ Wrote = 0 /\ Wrote' = 0
  BY <1>1 DEF Got, Wrote, InCall
<1>3. Len(delivered) \in Nat /\ test.bytesRead \in Nat /\ test.bytesWritten \in Nat
  BY Sizes, Zenon
<1>4. pc # "write" /\ pc' # "write"
  BY <1>1 DEF InCall
<1>5. UNCHANGED <<call, delivered, broken, staged, sent>> /\ StreamsKept
  BY <1>1 DEF portVars, loopVars, StreamsKept
<1>6. Accepted = Before + test.bytesWritten /\ Before = Len(delivered) - test.bytesRead
      /\ Accepted' = Before' + test'.bytesWritten /\ Before' = Len(delivered) - test'.bytesRead
  BY <1>1, <1>2, <1>3, <1>5 DEF Before, Accepted
<1>7. Writers(Outgoing, test.pb, FALSE) /\ Readers(delivered, Len(delivered) - 0, test.pb)
  BY <1>2, <1>4 DEF Course
<1>8. CASE /\ test'.bytesWritten = test.bytesWritten /\ test'.bytesRead = test.bytesRead
           /\ test'.writeRand = test.writeRand /\ test'.readRand = test.readRand
           /\ pc' = "done" => test.bytesWritten = test.bytesRead
  <2>1. Before' = Before /\ Accepted' = Accepted
    BY <1>6, <1>8
  <2>2. Counts' /\ Numbered' /\ Echoes' /\ Outgoing' = Outgoing
    BY <1>5, <1>8, <2>1, StayCourse
  <2>3. Seeds'
    BY <1>4, <1>8 DEF Course, Seeds
  <2>4. Right(base', Outgoing', Before')
    BY <1>1, <2>1, <2>2 DEF Course
  <2> QED
    BY <1>1, <1>2, <1>4, <1>5, <1>7, <2>2, <2>3, <2>4 DEF Course
<1>9. CASE /\ test.bytesWritten = test.bytesRead /\ pc' = "loop"
           /\ test'.bytesWritten = 0 /\ test'.bytesRead = 0
           /\ test'.writeRand = 0 /\ test'.readRand = 0
  <2>1. Before' = Len(delivered) /\ Accepted' = Len(delivered) /\ Accepted = Len(delivered)
    BY <1>3, <1>6, <1>9
  <2>2. Outgoing' = Outgoing
    BY <1>5 DEF Outgoing
  <2>3. Counts'
    <3>1. /\ taken = Len(delivered) + Len(unread) /\ taken =< Len(echoed)
          /\ taken + Len(staged) =< Accepted /\ Len(sent) =< Accepted
          /\ ~broken => Len(sent) + Len(staged) = Accepted
      BY DEF Course, Counts
    <3>2. UNCHANGED <<taken, delivered, unread, echoed, staged, sent, broken>>
      BY <1>5 DEF StreamsKept, loopVars
    <3>3. Before' >= 0 /\ Accepted' = Accepted
      BY <1>3, <2>1
    <3>4. pc' # "done"
      BY <1>9
    <3> QED
      BY <3>1, <3>2, <3>3, <3>4, Zenon DEF Counts
  <2>4. Numbered' /\ Echoes'
    BY <1>5 DEF Course, Numbered, Echoes, Lost, StreamsKept, loopVars
  <2>5. Seeds'
    <3>1. Period \in Nat \ {0}
      BY BuffersAssumption
    <3>2. 0 % Period = 0
      BY <3>1, ModZero
    <3> QED
      BY <1>9, <3>2 DEF Seeds
  <2>6. Right(base', Outgoing', Before')
    <3>1. Len(Outgoing) =< Len(delivered)
      <4>1. CASE broken
        BY <2>1, <4>1 DEF Course, Counts, Outgoing
      <4>2. CASE ~broken
        <5>1. Len(sent) + Len(staged) = Len(delivered)
          BY <2>1, <4>2 DEF Course, Counts
        <5>2. Len(sent \o staged) = Len(sent) + Len(staged)
          BY OutgoingIs, Joined
        <5> QED
          BY <1>3, <4>2, <5>1, <5>2 DEF Outgoing
      <4> QED
        BY <4>1, <4>2
    <3>2. Len(Outgoing) \in Nat
      BY OutgoingIs, LenProperties
    <3>3. \A i \in 1 .. Len(Outgoing) : ~(i > Len(delivered))
      BY <1>3, <3>1, <3>2
    <3>4. Right(base', Outgoing, Len(delivered))
      BY <3>3 DEF Right
    <3> QED
      BY <2>1, <2>2, <3>4
  <2> QED
    BY <1>1, <1>2, <1>4, <1>5, <1>7, <2>2, <2>3, <2>4, <2>5, <2>6 DEF Course
<1> QED
  BY <1>1, <1>8, <1>9

\* The next write gets the seed where the last one has stopped.
LEMMA WriteCourse ==
  ASSUME Types, Course, Write
  PROVE  Course'
<1>1. /\ StreamsKept /\ pc = "loop" /\ pc' = "write" /\ test.pb \in Pbs
      /\ call'[test.pb].ioActCount = 0
      /\ test'.pb = test.pb /\ test'.round = test.round
      /\ test'.bytesWritten = test.bytesWritten /\ test'.bytesRead = test.bytesRead
      /\ test'.readRand = test.readRand
      /\ test'.writeRand = NextRand(test.writeRand, MessageSize(test.round))
      /\ base' = [base EXCEPT ![test.pb] = test.writeRand]
  BY WriteTypes
<1>2. Got = 0 /\ Got' = 0 /\ Wrote = 0 /\ Wrote' = 0
  BY <1>1 DEF Got, Wrote
<1>3. UNCHANGED <<delivered, broken, staged, sent>>
  BY <1>1 DEF StreamsKept
<1>4. Before' = Before /\ Accepted' = Accepted
  BY <1>1, <1>2, <1>3 DEF Before, Accepted
<1>5. Counts' /\ Numbered' /\ Echoes' /\ Outgoing' = Outgoing
  BY <1>1, <1>4, StayCourse
<1>6. base'[test.pb] = test.writeRand /\ \A q \in Pbs \ {test.pb} : base'[q] = base[q]
  BY <1>1 DEF Types, StreamTypes
<1>7. Seeds'
  <2>1. test.writeRand = test.bytesWritten % Period /\ test.readRand = test.bytesRead % Period
    BY <1>1 DEF Course, Seeds
  <2> QED
    BY <1>1, <1>6, <2>1 DEF Seeds, MessageSize
<1>8. Writers(Outgoing, test.pb, FALSE)
  BY <1>1 DEF Course
<1>9. Outgoing \in Seq(Bytes)
  BY OutgoingIs
<1>10. \A i \in 1 .. Len(Outgoing) : Outgoing[i][1] \in Pbs \ {test.pb}
  <2>1. \A i \in 1 .. Len(Outgoing) : Outgoing[i] \in Bytes
    BY <1>9, ElementOfSeq
  <2>2. \A b \in Bytes : b[1] \in Pbs
    BY DEF Bytes
  <2>3. \A q \in Pbs : q < test.pb => q # test.pb
    BY DEF Pbs
  <2> QED
    BY <1>8, <2>1, <2>2, <2>3 DEF Writers
<1>11. Right(base', Outgoing, Before)
  <2>1. Right(base, Outgoing, Before)
    BY DEF Course
  <2>2. \A i \in 1 .. Len(Outgoing) : Spelled(base', Outgoing[i]) = Spelled(base, Outgoing[i])
    BY <1>6, <1>10 DEF Spelled, NextRand
  <2> QED
    BY <2>1, <2>2 DEF Right
<1>12. Writers(Outgoing, test.pb, TRUE)
  BY <1>8 DEF Writers
<1>13. Readers(delivered, Len(delivered) - Got, test.pb)
  BY DEF Course
<1> QED
  BY <1>1, <1>2, <1>3, <1>4, <1>5, <1>7, <1>11, <1>12, <1>13 DEF Course

\* A read starts where the last one has stopped.
LEMMA ReadCourse ==
  ASSUME Types, Course, Read
  PROVE  Course'
<1>1. /\ StreamsKept /\ pc = "status" /\ test' = test /\ base' = base
      /\ \/ pc' = "loop" /\ call' = call
         \/ pc' = "read" /\ test.pb \in Pbs /\ call'[test.pb].ioActCount = 0
  BY ReadTypes
<1>2. Got = 0 /\ Got' = 0 /\ Wrote = 0 /\ Wrote' = 0
  BY <1>1 DEF Got, Wrote
<1>3. UNCHANGED <<delivered, broken, staged, sent>>
  BY <1>1 DEF StreamsKept
<1>4. Before' = Before /\ Accepted' = Accepted
  BY <1>1, <1>2, <1>3 DEF Before, Accepted
<1>5. Counts' /\ Numbered' /\ Echoes' /\ Outgoing' = Outgoing
  BY <1>1, <1>4, StayCourse
<1>6. pc # "write" /\ pc' # "write"
  BY <1>1
<1>7. Seeds'
  BY <1>1, <1>6 DEF Course, Seeds
<1> QED
  BY <1>1, <1>2, <1>3, <1>4, <1>5, <1>6, <1>7 DEF Course

\* bytesWritten grows by what was accepted.
LEMMA WrittenCourse ==
  ASSUME Types, Course, Written
  PROVE  Course'
<1>1. /\ UNCHANGED <<portVars, loopVars, base>>
      /\ pc = "write" /\ pc' = "check" /\ test.pb \in Pbs
      /\ call[test.pb].ioActCount = MessageSize(test.round)
      /\ call[test.pb].ioActCount \in Nat
      /\ test'.pb = test.pb + 1 /\ test'.bytesRead = test.bytesRead
      /\ test'.bytesWritten = test.bytesWritten + call[test.pb].ioActCount
      /\ test'.readRand = test.readRand /\ test'.writeRand = test.writeRand
  BY WrittenTypes
<1>2. PICK a \in Nat : a = call[test.pb].ioActCount
  BY <1>1
<1>3. Got = 0 /\ Got' = 0 /\ Wrote = a /\ Wrote' = 0
  BY <1>1, <1>2 DEF Got, Wrote
<1>4. StreamsKept /\ delivered' = delivered
  BY <1>1 DEF portVars, StreamsKept
<1>5. Len(delivered) \in Nat /\ test.bytesRead \in Nat /\ test.bytesWritten \in Nat
      /\ test.pb \in Nat
  BY Sizes, Zenon
<1>6. Before' = Before /\ Accepted' = Accepted
  BY <1>1, <1>2, <1>3, <1>4, <1>5 DEF Before, Accepted
<1>7. Counts' /\ Numbered' /\ Echoes' /\ Outgoing' = Outgoing
  BY <1>1, <1>4, <1>6, StayCourse
<1>8. Seeds'
  <2>1. /\ test.readRand = test.bytesRead % Period
        /\ base[test.pb] = test.bytesWritten % Period
        /\ test.writeRand = NextRand(base[test.pb], a)
    BY <1>1, <1>2 DEF Course, Seeds
  <2>2. NextRand(test.bytesWritten % Period, a) = (test.bytesWritten + a) % Period
    BY <1>5, NextRandAdds
  <2>3. test'.writeRand = test'.bytesWritten % Period
    BY <1>1, <1>2, <2>1, <2>2
  <2> QED
    BY <1>1, <2>1, <2>3 DEF Seeds
<1>9. Writers(Outgoing, test.pb + 1, FALSE)
  BY <1>5, OutgoingIs, WritersNext DEF Course
<1>10. Readers(delivered, Len(delivered) - 0, test.pb + 1)
  <2>1. Readers(delivered, Len(delivered), test.pb + 1)
    BY <1>5, ReadersNext DEF Course, Types, StreamTypes
  <2> QED
    BY <1>5, <2>1
<1> QED
  BY <1>1, <1>3, <1>4, <1>6, <1>7, <1>8, <1>9, <1>10 DEF Course

\* What has come back is no more than what the port accepted.
LEMMA ReadInBounds ==
  ASSUME Types, Course, Wrote = 0
  PROVE  test.bytesRead + Got =< test.bytesWritten
<1>1. /\ Len(delivered) \in Nat /\ Len(unread) \in Nat /\ Len(staged) \in Nat
      /\ test.bytesRead \in Nat /\ test.bytesWritten \in Nat /\ Got \in Nat
  BY Sizes, Zenon
<1>2. PICK d, u, s, r, w, g \in Nat :
        /\ d = Len(delivered) /\ u = Len(unread) /\ s = Len(staged)
        /\ r = test.bytesRead /\ w = test.bytesWritten /\ g = Got
  BY <1>1
<1>3. Accepted = d - r - g + w + 0
  BY <1>2 DEF Before, Accepted
<1>4. taken = d + u /\ taken + s =< Accepted
  BY <1>2 DEF Course, Counts
<1>5. r + g =< w
  BY <1>3, <1>4
<1> QED
  BY <1>2, <1>5

\* bytesRead grows by what was delivered, and never beyond bytesWritten.
LEMMA VerifyCourse ==
  ASSUME Types, Course, Verify, pc' = "loop"
  PROVE  Course' /\ NeverNegative'
<1>1. /\ UNCHANGED <<portVars, loopVars, base>>
      /\ pc = "read" /\ test.pb \in Pbs /\ call[test.pb].ioActCount \in Nat
      /\ test'.pb = test.pb + 1 /\ test'.bytesWritten = test.bytesWritten
      /\ test'.bytesRead = test.bytesRead + call[test.pb].ioActCount
      /\ test'.readRand = NextRand(test.readRand, call[test.pb].ioActCount)
      /\ test'.writeRand = test.writeRand
  BY VerifyTypes
<1>2. PICK a \in Nat : a = call[test.pb].ioActCount
  BY <1>1
<1>3. Got = a /\ Got' = 0 /\ Wrote = 0 /\ Wrote' = 0
  BY <1>1, <1>2 DEF Got, Wrote
<1>4. StreamsKept /\ delivered' = delivered
  BY <1>1 DEF portVars, StreamsKept
<1>5. Len(delivered) \in Nat /\ test.bytesRead \in Nat /\ test.bytesWritten \in Nat
      /\ test.pb \in Nat
  BY Sizes, Zenon
<1>6. Before' = Before /\ Accepted' = Accepted
  BY <1>1, <1>2, <1>3, <1>4, <1>5 DEF Before, Accepted
<1>7. Counts' /\ Numbered' /\ Echoes' /\ Outgoing' = Outgoing
  BY <1>4, <1>6, StayCourse
<1>8. Seeds'
  <2>1. /\ test.readRand = test.bytesRead % Period
        /\ test.writeRand = test.bytesWritten % Period
    BY <1>1 DEF Course, Seeds
  <2>2. NextRand(test.bytesRead % Period, a) = (test.bytesRead + a) % Period
    BY <1>5, NextRandAdds
  <2>3. test'.readRand = test'.bytesRead % Period
    BY <1>1, <1>2, <2>1, <2>2
  <2> QED
    BY <1>1, <2>1, <2>3 DEF Seeds
<1>9. Writers(Outgoing, test.pb + 1, FALSE)
  BY <1>5, OutgoingIs, WritersNext DEF Course
<1>10. Readers(delivered, Len(delivered) - 0, test.pb + 1)
  <2>1. Readers(delivered, Len(delivered), test.pb + 1)
    BY <1>5, ReadersNext DEF Course, Types, StreamTypes
  <2> QED
    BY <1>5, <2>1
<1>11. Course'
  BY <1>1, <1>3, <1>4, <1>6, <1>7, <1>8, <1>9, <1>10 DEF Course
<1>12. NeverNegative'
  <2>1. test.bytesRead + a =< test.bytesWritten
    BY <1>3, ReadInBounds
  <2> QED
    BY <1>1, <1>2, <2>1 DEF NeverNegative
<1> QED
  BY <1>11, <1>12
-----------------------------------------------------------------------------
\* What a read is given is what the test expects, unless the line lost bytes.
LEMMA FitsUnlessLost ==
  ASSUME Types, Course, pc = "read", ~Lost
  PROVE  ReadFits
<1>1. /\ Len(delivered) \in Nat /\ test.bytesRead \in Nat /\ test.pb \in Nat /\ Got \in Nat
      /\ Len(sent) \in Nat /\ Len(echoed) \in Nat /\ looped \in Nat
  BY Sizes, Zenon
<1>2. Before = Len(delivered) - test.bytesRead - Got /\ Before >= 0
  BY DEF Before, Course, Counts
<1>3. PICK n \in Nat : n = Len(delivered) - Got
  <2>1. PICK d, r, g \in Nat : d = Len(delivered) /\ r = test.bytesRead /\ g = Got
    BY <1>1
  <2>2. d - r - g >= 0
    BY <1>2, <2>1
  <2>3. d - g \in Nat
    BY <2>2
  <2> QED
    BY <2>1, <2>3
<1>4. n =< Len(delivered) /\ Before = n - test.bytesRead /\ Before \in Int /\ Before =< n
  BY <1>1, <1>2, <1>3
<1>5. DOMAIN delivered = 1 .. Len(delivered)
  BY LenProperties DEF Types, StreamTypes
<1>6. Given = (n + 1) .. Len(delivered)
  <2>1. \A i \in 1 .. Len(delivered) :
          IF i > n THEN delivered[i][1] = test.pb ELSE delivered[i][1] < test.pb
    BY <1>3 DEF Course, Readers
  <2>2. \A i \in 1 .. Len(delivered) : delivered[i][1] = test.pb <=> i > n
    BY <1>1, <2>1
  <2> QED
    BY <1>1, <1>5, <2>2 DEF Given
<1>7. ASSUME NEW i \in Given
      PROVE  PlaceInBuffer(i) = i - n
  <2>1. i \in Nat /\ n =< i /\ i =< Len(delivered)
    BY <1>1, <1>6
  <2>2. {j \in Given : j =< i} = (n + 1) .. i
    BY <1>1, <1>6, <2>1
  <2> QED
    BY <2>1, <2>2, CountTo DEF PlaceInBuffer
<1>8. Right(base, sent, Before)
  <2>1. sent \in Seq(Bytes) /\ staged \in Seq(Bytes) /\ Right(base, Outgoing, Before)
    BY OutgoingIs DEF Course
  <2> QED
    BY <2>1, FirstPart, Zenon DEF Outgoing
<1>9. ASSUME NEW i \in Given
      PROVE  Received(i) = (i - Before) % Period
  <2>1. /\ i \in 1 .. Len(delivered) /\ i > n
    BY <1>1, <1>6
  <2>2. delivered[i][2] = i
    BY <2>1 DEF Course, Numbered
  <2>3. i \in 1 .. Len(echoed) /\ i \in 1 .. Len(sent)
    <3>1. taken = Len(delivered) + Len(unread) /\ taken =< Len(echoed)
      BY DEF Course, Counts
    <3>2. Len(unread) \in Nat /\ Len(echoed) =< looped /\ looped =< Len(sent)
      BY Sizes DEF Types, StreamTypes
    <3> QED
      BY <1>1, <2>1, <3>1, <3>2
  <2>4. echoed[i] = sent[i]
    BY <2>3 DEF Course, Echoes
  <2>5. Spelled(base, sent[i]) = (i - Before) % Period
    BY <1>4, <1>8, <2>1, <2>3 DEF Right
  <2> QED
    BY <2>2, <2>4, <2>5 DEF Received, Letter, Spelled
<1>10. ASSUME NEW i \in Given
       PROVE  NextRand(test.readRand, i - n) = (i - Before) % Period
  <2>1. i - n \in Nat /\ i \in Nat
    BY <1>1, <1>6
  <2>2. NextRand(test.bytesRead % Period, i - n) = (test.bytesRead + (i - n)) % Period
    BY <1>1, <2>1, NextRandAdds
  <2>3. test.bytesRead + (i - n) = i - Before
    BY <1>1, <1>4, <2>1
  <2>4. test.readRand = test.bytesRead % Period
    BY DEF Course, Seeds
  <2> QED
    BY <2>2, <2>3, <2>4
<1> QED
  BY <1>7, <1>9, <1>10 DEF ReadFits
-----------------------------------------------------------------------------
\* The invariant holds at first and is kept.

LEMMA InvInit == Init => Inv
<1> SUFFICES ASSUME Init
             PROVE  Inv
  OBVIOUS
<1>1. Types
  BY TypesInit
<1>2. /\ staged = <<>> /\ sent = <<>> /\ echoed = <<>> /\ unread = <<>> /\ delivered = <<>>
      /\ taken = 0 /\ broken = FALSE
  BY DEF Init, Port!Init
<1>3. /\ pc = "loop" /\ test.bytesWritten = 0 /\ test.bytesRead = 0
      /\ test.writeRand = 0 /\ test.readRand = 0
  BY DEF Init
<1>4. /\ Len(staged) = 0 /\ Len(sent) = 0 /\ Len(echoed) = 0 /\ Len(unread) = 0
      /\ Len(delivered) = 0
  BY <1>2
<1>5. Got = 0 /\ Wrote = 0 /\ Before = 0 /\ Accepted = 0
  BY <1>3, <1>4 DEF Got, Wrote, Before, Accepted
<1>6. Outgoing = <<>> /\ Len(Outgoing) = 0
  <2>1. Outgoing = sent \o staged
    BY <1>2 DEF Outgoing
  <2> QED
    BY <1>2, <2>1
<1>7. Counts
  BY <1>2, <1>3, <1>4, <1>5 DEF Counts
<1>8. Numbered /\ Echoes
  BY <1>4 DEF Numbered, Echoes
<1>9. Seeds
  <2>1. 0 % Period = 0
    BY ModZero, BuffersAssumption
  <2> QED
    BY <1>3, <2>1 DEF Seeds
<1>10. /\ Right(base, Outgoing, Before) /\ Writers(Outgoing, test.pb, pc = "write")
       /\ Readers(delivered, Len(delivered) - Got, test.pb)
  BY <1>4, <1>6 DEF Right, Writers, Readers
<1>11. MismatchMeansLoss
  BY <1>3 DEF MismatchMeansLoss
<1> QED
  BY <1>1, <1>7, <1>8, <1>9, <1>10, <1>11 DEF Inv, Course

\* The steps of the test.
LEMMA TestNext == Inv /\ (Test \/ Hangs) => Inv'
<1> SUFFICES ASSUME Inv, Test \/ Hangs
             PROVE  Inv'
  OBVIOUS
<1>0. Types /\ (Going => Course)
  BY DEF Inv
<1>1. CASE Fails \/ Hangs
  <2>1. Types' /\ pc' \in {"failed", "hung"}
    BY <1>0, <1>1, FailsTypes
  <2> QED
    BY <2>1 DEF Inv, Going, MismatchMeansLoss
<1>2. CASE Write
  <2>1. pc = "loop"
    BY <1>2 DEF Write
  <2>2. Course
    BY <1>0, <2>1 DEF Going
  <2>3. Course' /\ Types' /\ pc' = "write"
    BY <1>0, <1>2, <2>2, WriteCourse, WriteTypes DEF Types
  <2> QED
    BY <2>3 DEF Inv, MismatchMeansLoss
<1>3. CASE Read
  <2>1. pc = "status"
    BY <1>3 DEF Read
  <2>2. Course
    BY <1>0, <2>1 DEF Going
  <2>3. Course' /\ Types' /\ pc' \in {"loop", "read"}
    BY <1>0, <1>3, <2>2, ReadCourse, ReadTypes
  <2> QED
    BY <2>3 DEF Inv, MismatchMeansLoss
<1>4. CASE Written
  <2>1. Types' /\ pc = "write" /\ pc' = "check"
    BY <1>0, <1>4, WrittenTypes
  <2>2. Course
    BY <1>0, <2>1 DEF Going
  <2>3. Course'
    BY <1>0, <1>4, <2>2, WrittenCourse
  <2> QED
    BY <2>1, <2>3 DEF Inv, MismatchMeansLoss
<1>5. CASE WritesNoMore \/ RoundEnds \/ AsksStatus
  <2>1. Types' /\ Going /\ Going'
    BY <1>0, <1>5, BetweenTypes
  <2>2. Course'
    BY <1>0, <1>5, <2>1, BetweenCourse
  <2>3. pc' # "mismatch"
    BY <2>1 DEF Going
  <2> QED
    BY <2>1, <2>2, <2>3 DEF Inv, MismatchMeansLoss
<1>6. CASE Verify
  <2>1. /\ TestTypes' /\ CallTypes' /\ StreamTypes' /\ UNCHANGED <<portVars, loopVars, base>>
        /\ pc = "read"
        /\ \/ pc' = "mismatch" /\ ~ReadFits /\ test' = test
           \/ pc' = "loop"
    BY <1>0, <1>6, VerifyTypes
  <2>2. Course
    BY <1>0, <2>1 DEF Going
  <2>3. CASE pc' = "mismatch" /\ ~ReadFits /\ test' = test
    <3>1. Lost'
      <4>1. Lost
        BY <1>0, <2>1, <2>2, <2>3, FitsUnlessLost
      <4> QED
        BY <2>1, <4>1 DEF Lost, loopVars
    <3>2. NeverNegative'
      BY <1>0, <2>3 DEF Types, NeverNegative
    <3>3. ~Going'
      BY <2>3 DEF Going
    <3> QED
      BY <2>1, <3>1, <3>2, <3>3 DEF Inv, Types, MismatchMeansLoss
  <2>4. CASE pc' = "loop"
    <3>1. Course' /\ NeverNegative'
      BY <1>0, <1>6, <2>2, <2>4, VerifyCourse
    <3> QED
      BY <2>1, <2>4, <3>1 DEF Inv, Types, MismatchMeansLoss
  <2> QED
    BY <2>1, <2>3, <2>4
<1> QED
  BY <1>1, <1>2, <1>3, <1>4, <1>5, <1>6 DEF Test

\* The steps of the port.
LEMMA PortNext == Inv /\ PortStep => Inv'
<1> SUFFICES ASSUME Inv, PortStep
             PROVE  Inv'
  OBVIOUS
<1>0. Types /\ MismatchMeansLoss /\ (Going => Course) /\ TestKept
  BY DEF Inv, PortStep, TestKept
<1>1. Going' = Going /\ MismatchMeansLoss'
  BY <1>0 DEF Going, MismatchMeansLoss, Lost, TestKept, loopVars, testVars
<1>2. ASSUME NEW p \in Current, NEW k \in 1 .. PayloadSize, Port!Accept(p, k)
      PROVE  Types' /\ (Going => Course')
  BY <1>0, <1>2, AcceptTypes, AcceptCourse
<1>3. ASSUME NEW p \in Current, NEW k \in 1 .. PayloadSize, Port!Deliver(p, k)
      PROVE  Types' /\ (Going => Course')
  BY <1>0, <1>3, DeliverTypes, DeliverCourse
<1>4. ASSUME NEW p \in Current, NEW r \in {noErr, ioErr}, Port!Complete(p, r)
      PROVE  Types' /\ (Going => Course')
  <2>1. Types'
    BY <1>0, <1>4, CompleteTypes
  <2>2. UNCHANGED <<delivered, unread, taken, staged, sent, broken, looped, echoed,
                    base, test, pc, call>>
    BY <1>0, <1>4 DEF Port!Complete, TestKept, loopVars, testVars
  <2>3. Going => Course'
    BY <1>0, <2>2, CourseKept
  <2> QED
    BY <2>1, <2>3
<1>5. CASE Port!Flush
  BY <1>0, <1>1, <1>5, LineTypes, FlushCourse DEF Inv
<1>6. CASE Port!Break
  BY <1>0, <1>1, <1>6, LineTypes, BreakCourse DEF Inv
<1>7. ASSUME NEW n \in 1 .. PayloadSize, taken + n =< Len(echoed), Port!Fetch(n)
      PROVE  Types' /\ (Going => Course')
  BY <1>0, <1>7, LineTypes, FetchCourse
<1>8. \/ \E p \in Current, k \in 1 .. PayloadSize : Port!Accept(p, k) \/ Port!Deliver(p, k)
      \/ \E p \in Current, r \in {noErr, ioErr} : Port!Complete(p, r)
      \/ Port!Flush \/ Port!Break
      \/ \E n \in 1 .. PayloadSize : taken + n =< Len(echoed) /\ Port!Fetch(n)
  BY DEF PortStep, PortMoves, PortFetches
<1> QED
  BY <1>1, <1>2, <1>3, <1>4, <1>5, <1>6, <1>7, <1>8 DEF Inv

\* The loopback's turn.
LEMMA LoopNext == Inv /\ Loop => Inv'
<1> SUFFICES ASSUME Inv, Loop
             PROVE  Inv'
  OBVIOUS
<1>0. Types /\ MismatchMeansLoss /\ (Going => Course)
  BY DEF Inv
<1>1. PICK n \in 1 .. Len(sent) - looped, w \in 0 .. LoopSize :
        /\ w =< n /\ looped' = looped + n
        /\ echoed' = echoed \o SubSeq(sent, looped + 1, looped + w)
        /\ UNCHANGED <<portVars, testVars>>
  BY DEF Loop
<1>2. Types' /\ (Lost => Lost')
  BY <1>0, <1>1, LoopTypes
<1>3. Going' = Going /\ MismatchMeansLoss'
  BY <1>0, <1>1, <1>2 DEF Going, MismatchMeansLoss, testVars
<1>4. Going => Course'
  BY <1>0, LoopCourse
<1> QED
  BY <1>2, <1>3, <1>4 DEF Inv

\* Every step keeps the invariant.
LEMMA InvNext == Inv /\ [Next]_vars => Inv'
<1> SUFFICES ASSUME Inv, [Next]_vars
             PROVE  Inv'
  OBVIOUS
<1>1. CASE UNCHANGED vars
  <2>0. Types /\ MismatchMeansLoss /\ (Going => Course)
    BY DEF Inv
  <2>1. UNCHANGED <<portVars, loopVars, testVars>>
    BY <1>1 DEF vars
  <2>2. TestTypes' /\ CallTypes' /\ NeverNegative'
    BY <2>0, <2>1, CallTypesKept DEF portVars
  <2>3. StreamTypes'
    BY <2>0, <2>1 DEF Types, StreamTypes, portVars, loopVars, testVars
  <2>4. UNCHANGED <<delivered, unread, taken, staged, sent, broken, looped, echoed,
                    base, test, pc, call>>
    BY <2>1 DEF portVars, loopVars, testVars
  <2>5. Going' = Going /\ MismatchMeansLoss'
    BY <2>0, <2>4 DEF Going, MismatchMeansLoss, Lost
  <2>6. Going => Course'
    BY <2>0, <2>4, CourseKept
  <2> QED
    BY <2>2, <2>3, <2>5, <2>6 DEF Inv, Types
<1> QED
  BY <1>1, TestNext, PortNext, LoopNext DEF Next

\* When the test ends with as much read as written, there is nothing left
\* anywhere on the way that could be missing.
LEMMA PassedWhole == Inv => NoFalsePass
<1> SUFFICES ASSUME Inv, pc = "done"
             PROVE  ~Lost /\ staged = <<>> /\ unread = <<>> /\ Len(delivered) = Len(sent)
  BY DEF NoFalsePass
<1>0. Types /\ Course
  BY DEF Inv, Going
<1>1. /\ Len(delivered) \in Nat /\ Len(unread) \in Nat /\ Len(staged) \in Nat
      /\ Len(sent) \in Nat /\ Len(echoed) \in Nat /\ looped \in Nat /\ taken \in Nat
      /\ test.bytesRead \in Nat /\ test.bytesWritten \in Nat
  BY <1>0, Sizes, Zenon
<1>2. Got = 0 /\ Wrote = 0
  BY DEF Got, Wrote
<1>3. test.bytesWritten = test.bytesRead
  BY <1>0 DEF Course, Counts
<1>4. Accepted = Len(delivered)
  BY <1>1, <1>2, <1>3 DEF Accepted, Before
<1>5. /\ taken = Len(delivered) + Len(unread) /\ taken =< Len(echoed)
      /\ taken + Len(staged) =< Len(delivered) /\ Len(sent) =< Len(delivered)
  BY <1>0, <1>4 DEF Course, Counts
<1>6. Len(echoed) =< looped /\ looped =< Len(sent)
  BY <1>0 DEF Types, StreamTypes
<1>7. Len(staged) = 0 /\ Len(unread) = 0 /\ Len(delivered) = Len(sent) /\ ~(Len(echoed) < looped)
  BY <1>1, <1>5, <1>6
<1>8. staged \in Seq(Bytes) /\ unread \in Seq(Nat)
  BY <1>0 DEF Types, StreamTypes
<1> QED
  BY <1>7, <1>8, EmptySeq DEF Lost
-----------------------------------------------------------------------------
\* The invariant always holds.
THEOREM InvAlways == Spec => []Inv
<1>1. Inv /\ [Next]_vars => Inv'
  BY InvNext
<1> QED
  BY InvInit, <1>1, PTL DEF Spec

\* testSerialThroughput reports a "Data verification error" only if the loopback
\* has lost bytes, for any staging and message buffers, message sizes and ways
\* in which the stream is cut into writes, fetches and reads.
THEOREM MismatchSafe == Spec => []MismatchMeansLoss
<1>1. Inv => MismatchMeansLoss
  BY DEF Inv
<1> QED
  BY InvAlways, <1>1, PTL

\* If the test runs to its end, the line has lost nothing and every byte of every
\* round was sent, came back and was compared.
THEOREM NoFalsePassSafe == Spec => []NoFalsePass
BY InvAlways, PassedWhole, PTL

\* bytesRead never exceeds bytesWritten, though SerGetBuf may promise too much.
THEOREM NeverNegativeSafe == Spec => []NeverNegative
<1>1. Inv => NeverNegative
  BY DEF Inv, Types
<1> QED
  BY InvAlways, <1>1, PTL
=============================================================================
