\* An uplink of a device that was linked in vain.
SPECIFICATION Spec
CONSTANTS
  d1 = d1
  d2 = d2
  tick1 = tick1
  e1 = e1
  PublicChat = PublicChat
  Null = Null
  DeviceIds = {d1, d2}
  Ticks = {tick1}
  DevEuis = {e1}
  MaxAmount = 3
  MaxNonce = 3
  MaxInterval = 1
  ChatSoftLimit = 9
  MaxEvents = 2
  Registrations <- Unlinked
  Links <- RivalLinks
  Together = {}
  Overlap = FALSE
  MaxBatch = 1
  MaxRejected = 1
  Payloads <- OneDeploy
INVARIANTS
  NonceIsOfLastAccepted
CONSTRAINT FewRejections
CHECK_DEADLOCK FALSE
