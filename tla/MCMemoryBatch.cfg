\* Any two requests in one macrotask, of one device or of two, rival deploys and
\* links among them.
SPECIFICATION Spec
CONSTANTS
  d1 = d1
  d2 = d2
  tick1 = tick1
  e1 = e1
  PublicChat = PublicChat
  Null = Null
  DeviceIds = {d1, d2}
  Ticks = {tick1}
  DevEuis = {e1}
  MaxAmount = 3
  MaxNonce = 3
  MaxInterval = 1
  ChatSoftLimit = 9
  MaxEvents = 4
  Registrations <- Unlinked
  Links <- RivalLinks
  Together <- BatchPayloads
  Overlap = TRUE
  MaxBatch = 3
  MaxRejected = 1
  Payloads <- BatchPayloads
INVARIANTS
  MemoryTypeOK
  LedgerMatchesEffects
  SupplyCapped
  NonceSpentOnRecord
PROPERTIES
  ReplacedByRivalOnly
  OverdraftTakesTwo
CONSTRAINTS
  FewRejections
  StrangersComeAlone
CHECK_DEADLOCK FALSE
