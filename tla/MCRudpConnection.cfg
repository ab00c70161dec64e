CONSTANTS
  UINT32_MAX = 7
  RUDP_SEND_WINDOW = 2
  RUDP_REORDER_WINDOW = 2
  RUDP_RETRANSMISSION_CAP = 1
  AckThresholdMin = 2
  AckThresholdMax = 3
  Callers = {c1, c2}
  MaxSends = 4
SYMMETRY CallerSymmetry
SPECIFICATION Spec
INVARIANTS TypeOK InOrderDelivery NoSilentLoss HeadNotStuck AckCadence WithinReach
PROPERTY ImplementsChannel
