SPECIFICATION FairSpec
CONSTANTS
  Fuji = Fuji
  AOut = AOut
  AIn = AIn
  None = None
  Drivers = {Fuji, AIn}
  Pbs = {p1, p2}
  Calls <- MCModem
  IrqCalls <- MCNoCalls
  Sizes = {2}
  PayloadSize = 1
  MaxIn = 2
  VblTicks = 1
  Faults = TRUE
  LateOpen = FALSE
PROPERTIES Flushed WritesComplete FailureReported ReadersServed
