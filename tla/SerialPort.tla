------------------------------ MODULE SerialPort ------------------------------
(***************************************************************************)
(* What the serial driver promises to its clients, without saying how.     *)
(*                                                                         *)
(* Each port serves its calls one at a time, in the order they were made.  *)
(* Writers feed one outgoing stream and readers drain one incoming stream, *)
(* both in order and without loss, through staging buffers of bounded      *)
(* size.  A transfer completes when all of it was moved; it may fail only  *)
(* once the connection is broken, and a broken connection moves nothing.   *)
(* There are no locks, no interrupts and no wake-ups here: FujiSerialAsync *)
(* is shown to implement this module.                                      *)
(***************************************************************************)
EXTENDS Integers, Sequences

CONSTANTS
    Drivers,     \* the ports
    Pbs,         \* the calls, each made at most once
    None,
    AllCalls,    \* <<port, trap>> pairs that clients make
    Sizes,       \* request sizes
    PayloadSize, \* capacity of each staging buffer
    MaxIn        \* bound on the bytes that arrive

VARIABLES
    queue,       \* [Drivers -> Seq(Pbs)], the unfinished calls of a port
    call,        \* [Pbs -> driver, trap, bytes asked for, bytes moved]
    outcome,     \* [Pbs -> result, None until it is reported]
    staged,      \* outgoing bytes not yet at the device, <<writer, k>>
    sent,        \* outgoing bytes at the device
    unread,      \* incoming bytes not yet given to a reader
    delivered,   \* incoming bytes, each with its reader: <<reader, byte>>
    taken,       \* incoming bytes so far
    broken       \* the connection has failed

vars == <<queue, call, outcome, staged, sent, unread, delivered, taken, broken>>

NoCall == [drv |-> None, trap |-> "ctl", ioReqCount |-> 0, ioActCount |-> 0]

Quiet == \A p \in Pbs : call[p] = NoCall

\* p is the call its port is serving.
Serving(p) == /\ call[p] # NoCall
              /\ queue[call[p].drv] # <<>>
              /\ Head(queue[call[p].drv]) = p

Wants(p) == call[p].ioReqCount - call[p].ioActCount

Init == /\ queue = [d \in Drivers |-> <<>>]
        /\ call = [p \in Pbs |-> NoCall]
        /\ outcome = [p \in Pbs |-> None]
        /\ staged = <<>> /\ sent = <<>>
        /\ unread = <<>> /\ delivered = <<>>
        /\ taken = 0
        /\ broken = FALSE

\* A client makes call c.
Issue(p, c, n) ==
    /\ call[p] = NoCall
    /\ call' = [call EXCEPT ![p] = [drv |-> c[1], trap |-> c[2],
                                    ioReqCount |-> n, ioActCount |-> 0]]
    /\ queue' = [queue EXCEPT ![c[1]] = Append(@, p)]
    /\ UNCHANGED <<outcome, staged, sent, unread, delivered, taken, broken>>

\* The next k bytes of a writer are staged.
Accept(p, k) ==
    /\ ~broken
    /\ Serving(p) /\ call[p].trap = "aWrCmd"
    /\ k =< Wants(p) /\ Len(staged) + k =< PayloadSize
    /\ staged' = staged \o [i \in 1 .. k |-> <<p, call[p].ioActCount + i>>]
    /\ call' = [call EXCEPT ![p].ioActCount = @ + k]
    /\ UNCHANGED <<queue, outcome, sent, unread, delivered, taken, broken>>

\* The next k incoming bytes go to a reader.
Deliver(p, k) ==
    /\ ~broken
    /\ Serving(p) /\ call[p].trap = "aRdCmd"
    /\ k =< Wants(p) /\ k =< Len(unread)
    /\ delivered' = delivered \o [i \in 1 .. k |-> <<p, unread[i]>>]
    /\ unread' = SubSeq(unread, k + 1, Len(unread))
    /\ call' = [call EXCEPT ![p].ioActCount = @ + k]
    /\ UNCHANGED <<queue, outcome, staged, sent, taken, broken>>

\* Everything staged reaches the device.
Flush ==
    /\ ~broken
    /\ staged # <<>>
    /\ sent' = sent \o staged
    /\ staged' = <<>>
    /\ UNCHANGED <<queue, call, outcome, unread, delivered, taken, broken>>

\* The next n bytes arrive; none is left behind for them.
Fetch(n) ==
    /\ ~broken
    /\ unread = <<>>
    /\ unread' = [i \in 1 .. n |-> taken + i]
    /\ taken' = taken + n
    /\ UNCHANGED <<queue, call, outcome, staged, sent, delivered, broken>>

\* The connection fails; what is staged may still have reached the device.
Break ==
    /\ ~broken
    /\ broken' = TRUE
    /\ sent' \in {sent, sent \o staged}
    /\ UNCHANGED <<queue, call, outcome, staged, unread, delivered, taken>>

\* Opening a port mends the connection and drops what arrived, before the
\* first call is made.
Mend ==
    /\ Quiet
    /\ broken' \in {broken, FALSE}
    /\ unread' \in {unread, <<>>}
    /\ UNCHANGED <<queue, call, outcome, staged, sent, delivered, taken>>

\* The call being served is reported to its client.
Complete(p, r) ==
    /\ Serving(p)
    /\ outcome[p] = None
    /\ \/ r = 0 /\ (call[p].trap \in {"aRdCmd", "aWrCmd"} => Wants(p) = 0)
       \/ r < 0 /\ broken /\ call[p].trap \in {"aRdCmd", "aWrCmd"}
    /\ outcome' = [outcome EXCEPT ![p] = r]
    /\ queue' = [queue EXCEPT ![call[p].drv] = Tail(@)]
    /\ UNCHANGED <<call, staged, sent, unread, delivered, taken, broken>>

Next ==
    \/ \E p \in Pbs :
         \/ \E c \in AllCalls, n \in Sizes : Issue(p, c, n)
         \/ \E k \in 1 .. PayloadSize : Accept(p, k) \/ Deliver(p, k)
         \/ \E r \in {0, -1, -36} : Complete(p, r)
    \/ \E n \in 1 .. PayloadSize : n =< MaxIn - taken /\ Fetch(n)
    \/ Flush \/ Break \/ Mend

Spec == Init /\ [][Next]_vars
-----------------------------------------------------------------------------
\* Of two calls to one port, all bytes of one come before all of the other's:
\* transfers of a port do not mix, though those of different ports may.
Unmixed(s) ==
    \A i, j, k \in DOMAIN s :
        i < j /\ j < k /\ s[i][1] = s[k][1] /\ s[j][1] # s[i][1]
        => call[s[j][1]].drv # call[s[i][1]].drv
TransfersUnmixed == Unmixed(delivered) /\ (broken \/ Unmixed(sent \o staged))
=============================================================================
