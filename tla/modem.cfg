SPECIFICATION Spec
CONSTANTS
  Fuji = Fuji
  AOut = AOut
  AIn = AIn
  None = None
  Drivers = {Fuji, AIn}
  Pbs = {p1, p2}
  Calls <- MCModem
  IrqCalls <- MCModem
  Sizes = {1, 3}
  PayloadSize = 2
  MaxIn = 3
  VblTicks = 2
  Faults = TRUE
  LateOpen = FALSE
SYMMETRY Symmetry
INVARIANTS TypeOK MutexOwned WriteStream ReadStream CountsSane CompletedFully RequestBytes StatsAccount TransfersUnmixed
PROPERTIES NoTrafficAfterError FailuresKnown PortSpec
