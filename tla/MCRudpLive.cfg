CONSTANTS
  UINT32_MAX = 7
  RUDP_SEND_WINDOW = 2
  RUDP_REORDER_WINDOW = 2
  RUDP_RETRANSMISSION_CAP = 1
  AckThresholdMin = 2
  AckThresholdMax = 3
  Callers = {c1}
  MaxSends = 3
SPECIFICATION Spec
PROPERTIES InFlightSettles EventuallyAcknowledged
