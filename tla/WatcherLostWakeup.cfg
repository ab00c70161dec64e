CONSTANTS
  Producers = {p1, p2}
  MaxPackets = 4
CHECK_DEADLOCK FALSE
SPECIFICATION Spec
INVARIANT NoLostWakeup
