\* Every kind of request, registration, links, a crash or a lost connection; the
\* requests may all be of one device.
SPECIFICATION Spec
CONSTANTS
  d1 = d1
  d2 = d2
  r1 = r1
  r2 = r2
  r3 = r3
  tick1 = tick1
  e1 = e1
  PublicChat = PublicChat
  Null = Null
  DeviceIds = {d1, d2}
  Ticks = {tick1}
  DevEuis = {e1}
  MaxAmount = 1
  MaxNonce = 3
  MaxInterval = 2
  ChatSoftLimit = 0
  MaxEvents = 8
  Requests = {r1, r2}
  PoolSize = 2
  Registered = {d1}
  Links <- RaceLinks
  Overlap = TRUE
  MaxStoredInterval = 1
  MaxRequests = 3
  MaxFaults = 1
  Payloads <- MixedPayloads
INVARIANTS
  PostgresTypeOK
  ConfigIsLatest
  LocksFollowTransactions
  ChecksHoldAtCommit
PROPERTIES
  AnswersAreOnRecord
  UplinksKeepRows
  NonceMovesByUplinkOrLink
SYMMETRY Interchangeable
CHECK_DEADLOCK FALSE
