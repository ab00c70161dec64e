SPECIFICATION Spec
CONSTANTS
  Nodes = {a, b}
  Environments <- OneParts
  MaxCopies <- Enough
INVARIANT DisconnectHolds
CHECK_DEADLOCK FALSE
