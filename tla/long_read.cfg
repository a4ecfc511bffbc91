SPECIFICATION Spec
CONSTANTS
  RefNums <- MCRefNums
  Sizes = {1, 3}
  PayloadSize = 2
  BlockSize = 2
  MaxIn = 5
  MaxCalls = 3
CHECK_DEADLOCK FALSE
INVARIANTS ReadsIntact
