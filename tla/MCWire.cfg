\* The limits and lengths of the code.
SPECIFICATION Spec
CONSTANTS
  MaxCharCount = 32
  Unsupported = Unsupported
  SignatureLength = 64
  Texts <- AnyTexts
  Frames <- AnyFrames
  MaxTextLength = 5
  Patterns = {0, 21, 42, 63}
INVARIANTS
  WireTypeOK
  EveryPayloadDecided
  RoundTrip
  FieldsRead
CHECK_DEADLOCK FALSE
