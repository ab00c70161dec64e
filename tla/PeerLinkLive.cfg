SPECIFICATION FairSpec
CONSTANTS
  Nodes = {a, b}
  Environments <- OneEvent
  MaxCopies <- Enough
PROPERTIES FirstContact DeadPeerForgotten FinsCease
CHECK_DEADLOCK FALSE
