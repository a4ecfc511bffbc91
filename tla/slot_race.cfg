SPECIFICATION Spec
CONSTANTS
  Fuji = Fuji
  AOut = AOut
  AIn = AIn
  None = None
  Drivers = {Fuji, AOut, AIn}
  Pbs = {p1, p2}
  Calls <- MCTwoPorts
  IrqCalls <- MCTwoPorts
  Sizes = {2}
  PayloadSize = 2
  MaxIn = 3
  VblTicks = 2
  Faults = FALSE
  LateOpen = FALSE
SYMMETRY Symmetry
INVARIANTS HeadsParked
