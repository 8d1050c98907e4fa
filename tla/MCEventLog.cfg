\* The soft limit is two chat rows, a message of the first tick is old in the
\* second; a list of one message reads a window of two.
SPECIFICATION LogSpec
CONSTANTS
  d1 = d1
  d2 = d2
  tick1 = tick1
  PublicChat = PublicChat
  Null = Null
  DeviceIds = {d1, d2}
  Ticks = {tick1}
  DevEuis = {}
  MaxAmount = 1
  MaxNonce = 2
  MaxInterval = 0
  ChatSoftLimit = 2
  Retention = 0
  WindowFactor = 2
  WindowFloor = 2
  MaxTime = 1
  MaxEvents = 4
  Uplinks <- LogUplinks
  Payloads <- LogPayloads
INVARIANTS
  LogTypeOK
  StoresDifferInOldChatOnly
  ConversationListed
  SameAnswers
PROPERTIES
  TablesImplemented
  RetentionHolds
CHECK_DEADLOCK FALSE
