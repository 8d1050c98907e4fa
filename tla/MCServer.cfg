\* Three requests, any number of signals, two clients in the pool.
SPECIFICATION ServerSpec
CONSTANTS
  d1 = d1
  d2 = d2
  e1 = e1
  e2 = e2
  tick1 = tick1
  PublicChat = PublicChat
  Null = Null
  DeviceIds = {d1, d2}
  Ticks = {tick1}
  DevEuis = {e1, e2}
  MaxAmount = 0
  MaxNonce = 1
  MaxInterval = 1
  ChatSoftLimit = 0
  MaxEvents = 3
  Payloads <- ServerPayloads
  MaxRequests = 3
  Calls <- ServerCalls
  Databases <- ServerDatabases
  PoolSize = 2
  MaxStoredInterval = 0
INVARIANTS
  ServerTypeOK
  NoClientCutOff
  OneRowPerUplink
PROPERTIES
  UplinksActForSigner
  ShutdownEnds
CONSTRAINT OthersOnce
CHECK_DEADLOCK FALSE
