\* The same uplink delivered twice at once.
SPECIFICATION Spec
CONSTANTS
  d1 = d1
  d2 = d2
  r1 = r1
  r2 = r2
  r3 = r3
  tick1 = tick1
  e1 = e1
  PublicChat = PublicChat
  Null = Null
  DeviceIds = {d1}
  Ticks = {tick1}
  DevEuis = {}
  MaxAmount = 2
  MaxNonce = 3
  MaxInterval = 0
  ChatSoftLimit = 0
  MaxEvents = 8
  Requests = {r1, r2}
  PoolSize = 2
  Registered = {d1}
  Links = {}
  Overlap = TRUE
  MaxStoredInterval = 0
  MaxRequests = 3
  MaxFaults = 0
  Payloads <- OneMint
INVARIANTS
  PayloadAppliedOnce
SYMMETRY Interchangeable
CHECK_DEADLOCK FALSE
