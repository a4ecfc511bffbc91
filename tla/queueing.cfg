SPECIFICATION Spec
CONSTANTS
  Fuji = Fuji
  AOut = AOut
  AIn = AIn
  None = None
  Drivers = {Fuji, AIn}
  Pbs = {p1, p2, p3}
  Calls <- MCBusy
  IrqCalls <- MCNoCalls
  Sizes = {2}
  PayloadSize = 1
  MaxIn = 2
  VblTicks = 2
  Faults = FALSE
  LateOpen = TRUE
SYMMETRY Symmetry
INVARIANTS HeadsParked ParkedAreHeads InfoTable SentOnce
