SPECIFICATION Spec
CONSTANTS
  Fuji = Fuji
  AOut = AOut
  AIn = AIn
  None = None
  Drivers = {Fuji, AIn}
  Pbs = {p1, p2}
  Calls <- MCModem
  IrqCalls <- MCNoCalls
  Sizes = {1, 3}
  PayloadSize = 2
  MaxIn = 3
  VblTicks = 2
  Faults = FALSE
  LateOpen = TRUE
SYMMETRY Symmetry
INVARIANTS ClientCountsSane
