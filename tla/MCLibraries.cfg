SPECIFICATION LibrariesSpec
CONSTANTS
  Elements = {x, y}
  InitialLen = 3
  MaxLen = 6
  Kinds = {"ring", "array", "table", "htable", "http", "quic", "socks5"}
  Values = {x, y}
  Junk = junk
  None = none
  Gone = gone
  Keys = {0, 2, 3}
  Hash <- KeyIsHash
  HT_MINIMUM_CAPACITY = 2
  HT_LOAD_FACTOR = 2
  HT_GROWTH_FACTOR = 2
  MaxArrayLen = 4
  MaxCapacity = 4
  UHTTP_MAX_HEADER_SIZE = 12
  UHTTP_MAX_BODY_SIZE = 2
  MAX_HEADERS = 3
  MaxBody = 3
  MaxExtra = 2
  Cnxs = {1, 2}
  MaxSent = 2
  MaxCalled = 2
  Threads = {t1, t2}
  MaxFd = 4
  MaxAddrs = 2
CHECK_DEADLOCK FALSE
INVARIANTS WaitsForTheRest RoundTrip NothingOverlooked SessionWhenTold TunnelOwnsSockets
PROPERTIES ImplementsFifo ContainersAsPromised PointersStable
