\* Two devices, a request of each at a time, a connection for each, one token, a
\* crash or a lost connection.
SPECIFICATION Spec
CONSTANTS
  d1 = d1
  d2 = d2
  r1 = r1
  r2 = r2
  r3 = r3
  tick1 = tick1
  e1 = e1
  PublicChat = PublicChat
  Null = Null
  DeviceIds = {d1, d2}
  Ticks = {tick1}
  DevEuis = {}
  MaxAmount = 3
  MaxNonce = 2
  MaxInterval = 0
  ChatSoftLimit = 0
  MaxEvents = 8
  Requests = {r1, r2}
  PoolSize = 2
  Registered = {d1, d2}
  Links = {}
  Overlap = FALSE
  MaxStoredInterval = 0
  MaxRequests = 4
  MaxFaults = 1
  Payloads <- RacePayloads
INVARIANTS
  AcceptedNoncesIncrease
  LedgerMatchesLog
PROPERTIES
  NonceMovesWithAcceptance
  LedgerSpec
SYMMETRY Interchangeable
CHECK_DEADLOCK FALSE
