CONSTANTS
  Producers = {p1, p2}
  MaxPackets = 4
  Sides = {1, 2}
  MaxSessions = 3
  MaxMessages = 2
  MaxMail = 2
  Clients = {c1, c2}
  MaxRequests = 2
CHECK_DEADLOCK FALSE
SPECIFICATION ServicesSpec
INVARIANTS NoLostWakeup NothingLeftLying AnswersFit
PROPERTIES EverythingSent EndReturns EverythingOpened StopHeeded
