CONSTANTS
  Producers = {p1, p2}
  MaxPackets = 4
  Types = {"PACK_DATA", "PACK_FIN", "PACK_PING"}
  MaxPacked = 2
  MaxWire = 2
  Uids = {1}
  Changers = {c1, c2}
  TimeWidth = 4
  DeadAfter = 2
  MaxNow = 5
  Nodes = {a, b}
  Silent = {c}
  Links <- OneHasSilent
  GOSSIP_DEAD_DT = 2
  Garbage = garbage
  MaxTime = 3
  MaxFlight = 1
  Servers = {1, 2, 3}
  STUN_PARALLEL_RESOLUTION_LIMIT = 3
  Sides = {1, 2}
  MaxSessions = 3
  MaxMessages = 2
  MaxMail = 2
CHECK_DEADLOCK FALSE
SPECIFICATION NodeSpec
INVARIANTS WakeFindsPacket OnlyTimeoutsOverlook ArrivesAsSent
INVARIANTS WaiterSeesChange NeverRejuvenated TypeIsRight NoFalseAlarm
INVARIANTS KeysAgree OpensPrefix NonceOnce
PROPERTY NotBuriedAlive
