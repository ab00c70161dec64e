SPECIFICATION Spec
CONSTANTS
  Nodes = {a, b}
  Environments <- Wild
  MaxCopies <- Few
SYMMETRY NodeSymmetry
INVARIANTS TypeOK BothWays
CHECK_DEADLOCK FALSE
