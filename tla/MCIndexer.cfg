\* The devices' payloads as they come; one chat row may be pruned.
SPECIFICATION Spec
CONSTANTS
  d1 = d1
  d2 = d2
  e1 = e1
  tick1 = tick1
  PublicChat = PublicChat
  Null = Null
  DeviceIds = {d1, d2}
  Ticks = {tick1}
  DevEuis = {e1}
  MaxAmount = 3
  MaxNonce = 3
  MaxInterval = 1
  ChatSoftLimit = 0
  MaxEvents = 5
  MaxRejected = 1
  Payloads <- SignedPayloads
INVARIANTS
  StoreTypeOK
  SupplyBacked
  SupplyCapped
PROPERTIES
  TermsAreFinal
  NonceMovesWithAcceptance
  OnlyHolderSpends
  LedgerSpec
CONSTRAINT FewRejections
CHECK_DEADLOCK FALSE
