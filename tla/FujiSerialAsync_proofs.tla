------------------------ MODULE FujiSerialAsync_proofs ------------------------
(***************************************************************************)
(* Machine-checked proofs about the asynchronous serial driver, for any    *)
(* number of drivers, calls and bytes.                                     *)
(***************************************************************************)
EXTENDS FujiSerialAsync, TLAPS

-----------------------------------------------------------------------------
\* Ownership of the staging buffers.

\* The two control records keep their fields.
Shapes ==
    /\ main = [pc |-> main.pc, pb |-> main.pb, drv |-> main.drv,
               err |-> main.err, slot |-> main.slot, tmp |-> main.tmp]
    /\ irq = [pc |-> irq.pc, pb |-> irq.pb, err |-> irq.err,
              slot |-> irq.slot, from |-> irq.from]

\* The wake-up loop is in progress exactly while the interrupt level is in
\* it or serves a request on its behalf: no handler ends with inWakeUp set.
WakeUpInIrq ==
    /\ vblMutex \in BOOLEAN /\ inWakeUp \in BOOLEAN
    /\ inWakeUp <=> \/ irq.pc = "wake"
                    \/ irq.pc \in {"prime", "done"} /\ irq.from = "wake"

\* MutexOwned is not inductive by itself: that the main thread can not slip
\* past the mutex by way of inWakeUp needs WakeUpInIrq.
MutexInv == Shapes /\ WakeUpInIrq /\ MutexOwned

LEMMA MutexInit == Init => MutexInv
<1> SUFFICES ASSUME Init
             PROVE  MutexInv
  OBVIOUS
<1>1. /\ main = IdleMain /\ irq = IdleIrq
      /\ vblMutex = FALSE /\ inWakeUp = FALSE /\ io = "none"
  BY DEF Init
<1> QED
  BY <1>1 DEF MutexInv, Shapes, WakeUpInIrq, MutexOwned, MainHolds, IoHolds,
              WakeHolds, IdleMain, IdleIrq

\* Every step of the driver hands the buffers over properly.
LEMMA MutexNext == MutexInv /\ [Next]_vars => MutexInv'
<1> SUFFICES ASSUME MutexInv, [Next]_vars
             PROVE  MutexInv'
  OBVIOUS
<1> USE DEF MutexInv, Shapes, WakeUpInIrq, MutexOwned, MainHolds, IoHolds,
            WakeHolds, vars, portVars, callVars, infoVars, readVars,
            writeVars, diskVars, syncVars, flowVars
<1>1. CASE Install
  BY <1>1 DEF Install, MainAt
<1>2. CASE Connect
  BY <1>2 DEF Connect, MainAt
<1>3. ASSUME NEW d \in Drivers, Open(d)
      PROVE  MutexInv'
  BY <1>3 DEF Open, MainAt
<1>4. ASSUME NEW d \in Drivers, Close(d)
      PROVE  MutexInv'
  BY <1>4 DEF Close, MainAt
<1>5. CASE OpenConnResult
  BY <1>5 DEF OpenConnResult, Goto, MainAt
<1>6. CASE OpenReadReq
  BY <1>6 DEF OpenReadReq, Goto, MainAt
<1>7. CASE OpenReadAct
  BY <1>7 DEF OpenReadAct, Goto, MainAt
<1>8. CASE OpenWrite
  BY <1>8 DEF OpenWrite, Goto, MainAt
<1>9. CASE OpenStartVBL
  BY <1>9 DEF OpenStartVBL, IdleMain, MainAt
<1>10. ASSUME NEW p \in Pbs, NEW c \in Calls, NEW n \in Sizes, MainIssue(p, c, n)
      PROVE  MutexInv'
  BY <1>10 DEF MainIssue, IdleMain, Entry, MainAt
<1>11. CASE DoControl
  BY <1>11 DEF DoControl, MainAt
<1>12. CASE StatusReq
  BY <1>12 DEF StatusReq, MainAt
<1>13. CASE StatusAct
  BY <1>13 DEF StatusAct, MainAt
<1>14. CASE StatusExtra
  BY <1>14 DEF StatusExtra, MainAt
<1>15. CASE PrimeTakes
  BY <1>15 DEF PrimeTakes, Goto, BuffersFree, MainAt
<1>16. CASE PrimeMisses
  BY <1>16 DEF PrimeMisses, MainAt
<1>17. CASE PrimeTransfer
  BY <1>17 DEF PrimeTransfer, MainAt
<1>18. CASE PrimeReleases
  BY <1>18 DEF PrimeReleases, Goto, MainAt
<1>19. CASE PrimeFindsSlot
  BY <1>19 DEF PrimeFindsSlot, MainAt
<1>20. CASE PrimeClaimsSlot
  BY <1>20 DEF PrimeClaimsSlot, Goto, MainAt
<1>21. CASE PrimeParks
  BY <1>21 DEF PrimeParks, Goto, MainAt
<1>22. CASE PrimeSchedules
  BY <1>22 DEF PrimeSchedules, Goto, MainAt
<1>23. CASE PrimeResult
  BY <1>23 DEF PrimeResult, Goto, MainAt
<1>24. CASE IOReturn
  <2> DEFINE q == NextCall(main.pb)
  <2>1. /\ main.pc = "return" /\ irq.pc = "none"
        /\ UNCHANGED <<irq, io, inWakeUp, vblMutex>>
    BY <1>24 DEF IOReturn, MainAt
  <2>2. \/ main' = IdleMain
        \/ main' = [IdleMain EXCEPT !.pc = Entry(pb[q].trap), !.pb = q]
    BY <1>24 DEF IOReturn
  <2>3. Entry(pb[q].trap) \in {"ctl", "sts1", "lock"}
    BY DEF Entry
  <2>4. CASE main' = IdleMain
    BY <2>1, <2>4 DEF IdleMain
  <2>5. CASE main' = [IdleMain EXCEPT !.pc = Entry(pb[q].trap), !.pb = q]
    BY <2>1, <2>3, <2>5 DEF IdleMain
  <2> QED
    BY <2>2, <2>4, <2>5
<1>25. CASE VblCountdown
  BY <1>25 DEF VblCountdown, Interrupted
<1>26. CASE VblMutexBusy
  BY <1>26 DEF VblMutexBusy, VblDue, Interrupted
<1>27. CASE VblFlush
  BY <1>27 DEF VblFlush, VblDue, Interrupted
<1>28. CASE VblPoll
  BY <1>28 DEF VblPoll, VblDue, Interrupted
<1>29. CASE VblWakes
  BY <1>29 DEF VblWakes, VblDue, StartWakeUp, IdleIrq, Interrupted
<1>30. CASE WriteDone
  BY <1>30 DEF WriteDone, StartWakeUp, IdleIrq, Interrupted
<1>31. CASE WriteFails
  BY <1>31 DEF WriteFails, StartWakeUp, IdleIrq, Interrupted
<1>32. CASE ReadDone
  BY <1>32 DEF ReadDone, StartWakeUp, IdleIrq, Interrupted
<1>33. CASE ReadFails
  BY <1>33 DEF ReadFails, StartWakeUp, IdleIrq, Interrupted
<1>34. CASE WakeTakes
  BY <1>34 DEF WakeTakes
<1>35. CASE WakeSkips
  BY <1>35 DEF WakeSkips
<1>36. CASE WakeEnds
  BY <1>36 DEF WakeEnds, IdleIrq
<1>37. CASE IrqPrimes
  <2>1. /\ irq.pc = "prime"
        /\ UNCHANGED <<main, io, inWakeUp, vblMutex>>
    BY <1>37 DEF IrqPrimes
  <2>2. \/ irq' = Resume
        \/ irq' = [irq EXCEPT !.pc = "done", !.err = PrimeErr(irq.pb)]
    BY <1>37 DEF IrqPrimes, Park
  <2>3. CASE irq' = Resume
    BY <2>1, <2>3 DEF Resume, IdleIrq
  <2>4. CASE irq' = [irq EXCEPT !.pc = "done", !.err = PrimeErr(irq.pb)]
    BY <2>1, <2>4
  <2> QED
    BY <2>2, <2>3, <2>4
<1>38. CASE IrqMisses
  BY <1>38 DEF IrqMisses, Park, Resume, IdleIrq, BuffersFree
<1>39. CASE IrqControls
  BY <1>39 DEF IrqControls
<1>40. CASE IrqIODone
  BY <1>40 DEF IrqIODone, Resume, IdleIrq
<1>41. ASSUME NEW p \in Pbs, NEW c \in IrqCalls, NEW n \in Sizes, IrqIssue(p, c, n)
      PROVE  MutexInv'
  BY <1>41 DEF IrqIssue, IdleIrq, Interrupted
<1>42. CASE UNCHANGED vars
  BY <1>42
<1> QED
  BY <1>1, <1>2, <1>3, <1>4, <1>5, <1>6, <1>7, <1>8, <1>9, <1>10, <1>11, <1>12, <1>13, <1>14, <1>15, <1>16, <1>17, <1>18, <1>19, <1>20, <1>21, <1>22, <1>23, <1>24, <1>25, <1>26, <1>27, <1>28, <1>29, <1>30, <1>31, <1>32, <1>33, <1>34, <1>35, <1>36, <1>37, <1>38, <1>39, <1>40, <1>41, <1>42 DEF Next, MainOpen, MainIssues, MainCall, VblTick, DiskDone, IrqWork, IrqIssues

\* doPrime on the main thread, the floppy I/O and the wake-up loop never have
\* the staging buffers at the same time, and the mutex is taken exactly while
\* one of them has: for every number of ports and calls, with failing I/O,
\* calls from interrupt level and ports opened in traffic.
THEOREM MutexSafe == Spec => []MutexOwned
<1>1. MutexInv => MutexOwned
  BY DEF MutexInv
<1> QED
  BY MutexInit, MutexNext, <1>1, PTL DEF Spec
=============================================================================
