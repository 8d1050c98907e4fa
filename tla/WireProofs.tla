----------------------------- MODULE WireProofs -----------------------------
(***************************************************************************)
(* Whatever text is sent and whatever bytes arrive, for any limits: the    *)
(* bit buffer stays small, parsePayload never ends in a RangeError, and a  *)
(* text that was encoded and sent comes back.  The second part follows     *)
(* every bit from the characters through the encoder's buffer, the packed  *)
(* bytes and the decoder's buffer to the characters again.  The third      *)
(* says where the bytes of each payload a device writes are, that the      *)
(* parser reads them there, and that it leaves none out.                   *)
(***************************************************************************)
EXTENDS PayloadParser, SequenceTheorems, FiniteSetTheorems, TLAPS

-----------------------------------------------------------------------------
\* Shifts.

\* The table, entry by entry.
LEMMA Powers ==
    /\ PowerOfTwo(0) = 1 /\ PowerOfTwo(1) = 2 /\ PowerOfTwo(2) = 4 /\ PowerOfTwo(3) = 8
    /\ PowerOfTwo(4) = 16 /\ PowerOfTwo(5) = 32 /\ PowerOfTwo(6) = 64 /\ PowerOfTwo(7) = 128
    /\ PowerOfTwo(8) = 256 /\ PowerOfTwo(9) = 512 /\ PowerOfTwo(10) = 1024
    /\ PowerOfTwo(11) = 2048 /\ PowerOfTwo(12) = 4096 /\ PowerOfTwo(13) = 8192
BY DEF PowerOfTwo

LEMMA PowersPositive == \A n \in 0..13 : PowerOfTwo(n) \in Nat \ {0}
<1> TAKE n \in 0..13
<1>1. \/ n = 0 \/ n = 1 \/ n = 2 \/ n = 3 \/ n = 4 \/ n = 5 \/ n = 6 \/ n = 7
      \/ n = 8 \/ n = 9 \/ n = 10 \/ n = 11 \/ n = 12 \/ n = 13
  OBVIOUS
<1> QED
  BY <1>1, Powers

\* Six more bits, or eight, need as much more room.
LEMMA PowersGrow ==
    /\ \A n \in 0..7 : PowerOfTwo(n + 6) = 64 * PowerOfTwo(n)
    /\ \A n \in 0..5 : PowerOfTwo(n + 8) = 256 * PowerOfTwo(n)
<1>1. ASSUME NEW n \in 0..7 PROVE PowerOfTwo(n + 6) = 64 * PowerOfTwo(n)
  <2>1. n = 0 \/ n = 1 \/ n = 2 \/ n = 3 \/ n = 4 \/ n = 5 \/ n = 6 \/ n = 7
    OBVIOUS
  <2> QED
    BY <2>1, Powers
<1>2. ASSUME NEW n \in 0..5 PROVE PowerOfTwo(n + 8) = 256 * PowerOfTwo(n)
  <2>1. n = 0 \/ n = 1 \/ n = 2 \/ n = 3 \/ n = 4 \/ n = 5
    OBVIOUS
  <2> QED
    BY <2>1, Powers
<1> QED
  BY <1>1, <1>2

LEMMA ShiftsIn ==
    /\ \A n \in 0..7 : \A x \in 0..(PowerOfTwo(n) - 1), c \in Codes :
          ShiftLeft(x, 6) + c \in 0..(PowerOfTwo(n + 6) - 1)
    /\ \A n \in 0..5 : \A x \in 0..(PowerOfTwo(n) - 1), c \in Byte :
          ShiftLeft(x, 8) + c \in 0..(PowerOfTwo(n + 8) - 1)
<1>1. ASSUME NEW n \in 0..7, NEW x \in 0..(PowerOfTwo(n) - 1), NEW c \in Codes
      PROVE  ShiftLeft(x, 6) + c \in 0..(PowerOfTwo(n + 6) - 1)
  <2>1. PowerOfTwo(n) \in Nat /\ PowerOfTwo(n + 6) = 64 * PowerOfTwo(n)
    BY PowersPositive, PowersGrow
  <2>2. ShiftLeft(x, 6) = 64 * x
    BY <2>1, Powers DEF ShiftLeft
  <2>3. 64 * x + c \in 0..(64 * PowerOfTwo(n) - 1)
    BY <2>1 DEF Codes
  <2> QED
    BY <2>1, <2>2, <2>3
<1>2. ASSUME NEW n \in 0..5, NEW x \in 0..(PowerOfTwo(n) - 1), NEW c \in Byte
      PROVE  ShiftLeft(x, 8) + c \in 0..(PowerOfTwo(n + 8) - 1)
  <2>1. PowerOfTwo(n) \in Nat /\ PowerOfTwo(n + 8) = 256 * PowerOfTwo(n)
    BY PowersPositive, PowersGrow
  <2>2. ShiftLeft(x, 8) = 256 * x
    BY <2>1, Powers DEF ShiftLeft
  <2>3. 256 * x + c \in 0..(256 * PowerOfTwo(n) - 1)
    BY <2>1 DEF Byte
  <2> QED
    BY <2>1, <2>2, <2>3
<1> QED
  BY <1>1, <1>2

LEMMA MasksOut ==
    \A x \in Nat, n \in 0..13 :
        LowBits(x, n) \in 0..(PowerOfTwo(n) - 1) /\ ShiftRight(x, n) \in Nat
<1> TAKE x \in Nat, n \in 0..13
<1>1. PowerOfTwo(n) \in Nat \ {0}
  BY PowersPositive
<1> QED
  BY <1>1 DEF LowBits, ShiftRight

\* What is kept of a number is a byte, or a character.
LEMMA OneByte ==
    \A x \in Nat : LowBits(x, 8) \in Byte /\ LowBits(x, 6) \in Codes
<1>1. 8 \in 0..13 /\ 6 \in 0..13
  OBVIOUS
<1> QED
  BY <1>1, Powers DEF LowBits, Byte, Codes

-----------------------------------------------------------------------------
\* Payloads.

\* Bytes written for a field.
LEMMA FieldIsBytes ==
    ASSUME NEW name \in FieldNames, NEW first \in Nat, NEW n \in Nat, first + n <= 256
    PROVE  Field(name, first, n) \in Seq(WireByte)
BY DEF Field, WireByte, Byte

\* The bytes of a signed message.
LEMMA MessageIsBytes ==
    ASSUME NEW n \in Byte, NEW bytes \in Seq(Byte)
    PROVE  BuildMessage(n, bytes) \in Seq(WireByte)
<1>1. Field("recipientDeviceId", 0, 8) \in Seq(WireByte)
  BY FieldIsBytes DEF FieldNames
<1>2. Field("nonce", 0, 4) \in Seq(WireByte)
  BY FieldIsBytes DEF FieldNames
<1>3. Field("signature", 0, SignatureLength) \in Seq(WireByte)
  <2>1. SignatureLength \in Nat /\ 0 + SignatureLength <= 256 /\ "signature" \in FieldNames
    BY ParserAssumption DEF FieldNames
  <2> QED
    BY <2>1, FieldIsBytes
<1>4. <<<<"op", 4>>>> \in Seq(WireByte) /\ <<<<"messageLength", n>>>> \in Seq(WireByte)
  <2>1. "op" \in FieldNames /\ "messageLength" \in FieldNames /\ 4 \in Byte
    BY DEF FieldNames, Byte
  <2>2. <<"op", 4>> \in WireByte /\ <<"messageLength", n>> \in WireByte
    BY <2>1 DEF WireByte
  <2> QED
    BY <2>2
<1>5. [i \in 1..Len(bytes) |-> <<"messagePacked", bytes[i]>>] \in Seq(WireByte)
  BY DEF WireByte, FieldNames
<1> QED
  BY <1>1, <1>2, <1>3, <1>4, <1>5 DEF BuildMessage, Signed

\* What is cut out of a message that is well formed: as many bytes as its count
\* of characters needs.
LEMMA PackedOfMessage ==
    ASSUME NEW f \in Seq(WireByte), WellFormed(f), f[1][2] = 4
    PROVE  LET bytes == Slice(f, 14, Len(f) - SignatureLength)
               values == [i \in 1..Len(bytes) |-> bytes[i][2]]
           IN /\ f[14][2] \in 1..255
              /\ values \in Seq(Byte)
              /\ Len(values) = PackedByteLength(f[14][2])
<1> DEFINE last == Len(f) - SignatureLength
           bytes == Slice(f, 14, last)
           values == [i \in 1..Len(bytes) |-> bytes[i][2]]
<1>1. /\ Len(f) \in Nat /\ SignatureLength \in Nat /\ last \in Nat /\ last > 14
      /\ f[14][2] > 0 /\ last - 14 = PackedByteLength(f[14][2])
  BY ParserAssumption DEF WellFormed
<1>2. \A i \in 1..Len(f) : f[i] \in WireByte
  BY ElementOfSeq
<1>3. f[14][2] \in 1..255
  BY <1>1, <1>2 DEF WireByte, Byte
<1>4. bytes \in Seq(WireByte) /\ Len(bytes) = last - 14
  <2>1. \A i \in 15..last : f[i] \in WireByte
    BY <1>1, <1>2
  <2> QED
    BY <2>1, <1>1, SubSeqProperties DEF Slice
<1>5. \A i \in 1..Len(bytes) : bytes[i][2] \in Byte
  BY <1>4 DEF WireByte
<1>6. values \in Seq(Byte) /\ Len(values) = Len(bytes)
  BY <1>4, <1>5
<1> QED
  BY <1>1, <1>3, <1>4, <1>6

-----------------------------------------------------------------------------
\* The inductive invariant: how far each loop is, in bits.

\* encodePackedMessage works on a text of a length it takes.
Encoding ==
    phase \in {"encode", "encoded"} =>
        /\ Len(text) \in 1..MaxCharCount
        /\ position <= Len(text)
        /\ phase = "encoded" => charCount = Len(text)

\* decodePackedMessage has read eight bits a byte and used six a character.
Decoding ==
    phase = "decode" =>
        /\ charCount > 0
        /\ Len(packed) = PackedByteLength(charCount)
        /\ Len(decoded) <= charCount
        /\ position <= Len(packed)
        /\ bitCount = 8 * position - 6 * Len(decoded)

WireInv ==
    /\ WireTypeOK
    /\ text \in Seq(Codes \cup {Unsupported})
    /\ frame \in Seq(WireByte)
    /\ Encoding
    /\ Decoding
    /\ EveryPayloadDecided

\* A text or a payload, and nothing done yet.
LEMMA WireInvInit == Init => WireInv
<1> SUFFICES ASSUME Init PROVE WireInv
  OBVIOUS
<1>1. /\ packed = <<>> /\ charCount = 0 /\ decoded = <<>>
      /\ position = 0 /\ bitBuffer = 0 /\ bitCount = 0
  BY DEF Init, StartEncode
<1>2. BitsBounded
  BY <1>1, Powers DEF BitsBounded
<1>3. CASE frame = <<>> /\ \E t \in Texts : StartEncode(t)
  <2>1. text \in Seq(Codes \cup {Unsupported})
    BY <1>3, ParserAssumption DEF StartEncode
  <2>2. phase = IF Len(text) \in 1..MaxCharCount THEN "encode" ELSE "refused"
    BY <1>3 DEF StartEncode
  <2>3. WireTypeOK /\ Encoding /\ Decoding /\ EveryPayloadDecided
    BY <1>1, <1>2, <2>1, <2>2 DEF WireTypeOK, Phases, Byte, Encoding, Decoding, EveryPayloadDecided
  <2> QED
    BY <1>3, <2>1, <2>3 DEF WireInv
<1>4. CASE frame \in Frames /\ text = <<>> /\ phase = "parse"
  <2>1. frame \in Seq(WireByte)
    BY <1>4, ParserAssumption
  <2>2. WireTypeOK /\ Encoding /\ Decoding /\ EveryPayloadDecided
    BY <1>1, <1>2, <1>4 DEF WireTypeOK, Phases, Byte, Encoding, Decoding, EveryPayloadDecided
  <2> QED
    BY <1>4, <2>1, <2>2 DEF WireInv
<1> QED
  BY <1>3, <1>4 DEF Init

\* The steps of the encoder.
LEMMA EncoderKeepsInv ==
    ASSUME WireInv, EncodeChar \/ EmitByte \/ FlushBits, UNCHANGED <<frame, fields>>
    PROVE  WireInv'
<1>1. /\ packed \in Seq(Byte) /\ decoded \in Seq(Codes) /\ charCount \in Byte
      /\ position \in Nat /\ bitCount \in 0..13 /\ bitBuffer \in 0..(PowerOfTwo(bitCount) - 1)
      /\ text \in Seq(Codes \cup {Unsupported}) /\ frame \in Seq(WireByte)
      /\ phase = "encode" => Len(text) \in 1..MaxCharCount /\ position <= Len(text)
  BY DEF WireInv, WireTypeOK, BitsBounded, Encoding
<1>2. PowerOfTwo(bitCount) \in Nat \ {0} /\ bitBuffer \in Nat
  <2>1. PowerOfTwo(bitCount) \in Nat \ {0}
    BY <1>1, PowersPositive
  <2> QED
    BY <1>1, <2>1
<1>3. CASE EncodeChar
  <2>1. CASE text[position + 1] \in Codes
    <3>1. bitCount \in 0..7 /\ phase = "encode" /\ position < Len(text)
      BY <1>1, <1>3 DEF EncodeChar
    <3>2. /\ bitBuffer' = ShiftLeft(bitBuffer, 6) + text[position + 1]
          /\ bitCount' = bitCount + 6
      BY <1>3, <2>1 DEF EncodeChar
    <3>3. bitBuffer' \in 0..(PowerOfTwo(bitCount + 6) - 1)
      BY <1>1, <2>1, <3>1, <3>2, ShiftsIn
    <3>4. BitsBounded'
      BY <3>1, <3>2, <3>3 DEF BitsBounded
    <3> QED
      BY <1>1, <1>3, <2>1, <3>1, <3>4
      DEF EncodeChar, WireInv, WireTypeOK, Phases, Encoding, Decoding, EveryPayloadDecided
  <2>2. CASE text[position + 1] \notin Codes
    BY <1>1, <1>3, <2>2
    DEF EncodeChar, WireInv, WireTypeOK, BitsBounded, Phases, Encoding, Decoding, EveryPayloadDecided
  <2> QED
    BY <2>1, <2>2
<1>4. CASE EmitByte
  <2>1. PICK shift \in 0..13 : bitCount = shift + 8 /\ shift < 6
    BY <1>1, <1>4 DEF EmitByte
  <2>2. /\ packed' = Append(packed, LowBits(ShiftRight(bitBuffer, shift), 8))
        /\ bitBuffer' = LowBits(bitBuffer, shift) /\ bitCount' = shift
        /\ UNCHANGED <<text, charCount, decoded, position, phase>>
        /\ phase = "encode"
    <3>1. bitCount - 8 = shift
      BY <2>1
    <3> QED
      BY <1>4, <3>1 DEF EmitByte
  <2>3. /\ LowBits(bitBuffer, shift) \in 0..(PowerOfTwo(shift) - 1)
        /\ ShiftRight(bitBuffer, shift) \in Nat
    BY <1>2, MasksOut
  <2>4. LowBits(ShiftRight(bitBuffer, shift), 8) \in Byte
    BY <2>3, OneByte
  <2>5. BitsBounded' /\ packed' \in Seq(Byte)
    BY <1>1, <2>2, <2>3, <2>4 DEF BitsBounded
  <2> QED
    BY <1>1, <2>2, <2>5
    DEF WireInv, WireTypeOK, Phases, Encoding, Decoding, EveryPayloadDecided
<1>5. CASE FlushBits
  <2>1. phase = "encode" /\ bitCount \in 0..7 /\ Len(text) \in Byte
    <3>1. phase = "encode" /\ bitCount < 8
      BY <1>5 DEF FlushBits
    <3>2. bitCount \in 0..7
      BY <1>1, <3>1
    <3>3. Len(text) \in 1..MaxCharCount
      BY <1>1, <3>1
    <3>4. \A n \in 1..MaxCharCount : n \in 0..255
      BY CodecAssumption
    <3> QED
      BY <3>1, <3>2, <3>3, <3>4 DEF Byte
  <2>2. ASSUME bitCount > 0 PROVE LowBits(ShiftLeft(bitBuffer, 8 - bitCount), 8) \in Byte
    <3>1. PICK n \in 0..13 : n = 8 - bitCount
      BY <2>1, <2>2
    <3>2. PowerOfTwo(n) \in Nat
      BY PowersPositive
    <3>3. ShiftLeft(bitBuffer, n) \in Nat
      BY <1>2, <3>2 DEF ShiftLeft
    <3> QED
      BY <3>1, <3>3, OneByte
  <2>3. packed' \in Seq(Byte)
    BY <1>1, <1>5, <2>1, <2>2 DEF FlushBits
  <2> QED
    BY <1>1, <1>5, <2>1, <2>3
    DEF FlushBits, WireInv, WireTypeOK, BitsBounded, Phases, Encoding, Decoding, EveryPayloadDecided
<1> QED
  BY <1>3, <1>4, <1>5

\* The steps of the decoder: there is a byte whenever one is needed, and the
\* last character needs the last one.
LEMMA DecoderKeepsInv ==
    ASSUME WireInv, ReadByte \/ DecodeChar \/ DecodeEnds, UNCHANGED <<frame, fields>>
    PROVE  WireInv'
<1>1. /\ packed \in Seq(Byte) /\ decoded \in Seq(Codes) /\ charCount \in Byte
      /\ position \in Nat /\ bitCount \in 0..13 /\ bitBuffer \in 0..(PowerOfTwo(bitCount) - 1)
      /\ text \in Seq(Codes \cup {Unsupported}) /\ frame \in Seq(WireByte)
      /\ charCount \in Nat /\ Len(decoded) \in Nat /\ Len(packed) \in Nat
  BY DEF WireInv, WireTypeOK, BitsBounded, Byte
<1>2. phase = "decode"
  BY DEF ReadByte, DecodeChar, DecodeEnds
<1>3. /\ charCount > 0 /\ Len(decoded) <= charCount /\ position <= Len(packed)
      /\ bitCount = 8 * position - 6 * Len(decoded)
      /\ Len(packed) = PackedByteLength(charCount)
  BY <1>2 DEF WireInv, Decoding
<1>4. 8 * Len(packed) <= 6 * charCount + 7 /\ 6 * charCount <= 8 * Len(packed)
  BY <1>1, <1>3 DEF PackedByteLength
<1>5. PowerOfTwo(bitCount) \in Nat \ {0} /\ bitBuffer \in Nat
  <2>1. PowerOfTwo(bitCount) \in Nat \ {0}
    BY <1>1, PowersPositive
  <2> QED
    BY <1>1, <2>1
<1>6. CASE ReadByte
  <2>1. bitCount \in 0..5 /\ Len(decoded) < charCount
    BY <1>1, <1>6 DEF ReadByte
  <2>2. position < Len(packed)
    BY <1>1, <1>3, <1>4, <2>1, SMTT(40)
  <2>3. /\ bitBuffer' = ShiftLeft(bitBuffer, 8) + packed[position + 1]
        /\ bitCount' = bitCount + 8 /\ position' = position + 1
        /\ UNCHANGED <<text, packed, charCount, decoded, phase>>
    BY <1>6, <2>2 DEF ReadByte
  <2>4. packed[position + 1] \in Byte
    BY <1>1, <2>2
  <2>5. BitsBounded'
    <3>1. bitBuffer' \in 0..(PowerOfTwo(bitCount + 8) - 1)
      BY <1>1, <2>1, <2>3, <2>4, ShiftsIn
    <3> QED
      BY <2>1, <2>3, <3>1 DEF BitsBounded
  <2> QED
    BY <1>1, <1>2, <1>3, <2>2, <2>3, <2>5
    DEF WireInv, WireTypeOK, Phases, Encoding, Decoding, EveryPayloadDecided
<1>7. CASE DecodeChar
  <2>1. PICK shift \in 0..13 : bitCount = shift + 6 /\ shift < 8
    BY <1>1, <1>7 DEF DecodeChar
  <2>2. /\ decoded' = Append(decoded, LowBits(ShiftRight(bitBuffer, shift), 6))
        /\ bitBuffer' = LowBits(bitBuffer, shift) /\ bitCount' = shift
        /\ UNCHANGED <<text, packed, charCount, position, phase>>
        /\ Len(decoded) < charCount
    <3>1. bitCount - 6 = shift
      BY <2>1
    <3> QED
      BY <1>7, <3>1 DEF DecodeChar
  <2>3. /\ LowBits(bitBuffer, shift) \in 0..(PowerOfTwo(shift) - 1)
        /\ ShiftRight(bitBuffer, shift) \in Nat
    BY <1>5, MasksOut
  <2>4. LowBits(ShiftRight(bitBuffer, shift), 6) \in Codes
    BY <2>3, OneByte
  <2>5. decoded' \in Seq(Codes) /\ Len(decoded') = Len(decoded) + 1
    BY <1>1, <2>2, <2>4
  <2>6. BitsBounded'
    BY <2>2, <2>3 DEF BitsBounded
  <2>7. bitCount' = 8 * position' - 6 * Len(decoded')
    BY <1>1, <1>3, <2>1, <2>2, <2>5
  <2>8. Len(decoded') <= charCount'
    BY <1>1, <2>2, <2>5
  <2> QED
    BY <1>1, <1>2, <1>3, <2>2, <2>5, <2>6, <2>7, <2>8
    DEF WireInv, WireTypeOK, Phases, Encoding, Decoding, EveryPayloadDecided
<1>8. CASE DecodeEnds
  <2>1. /\ Len(decoded) = charCount /\ phase' = "parsed"
        /\ UNCHANGED <<text, packed, charCount, decoded, position, bitBuffer, bitCount>>
    BY <1>8 DEF DecodeEnds
  <2>2. position = Len(packed)
    BY <1>1, <1>3, <1>4, <2>1, SMTT(40)
  <2> QED
    BY <1>1, <2>1, <2>2
    DEF WireInv, WireTypeOK, BitsBounded, Phases, Encoding, Decoding, EveryPayloadDecided
<1> QED
  BY <1>6, <1>7, <1>8

\* Sending a message and cutting a payload into its fields.
LEMMA ParserKeepsInv ==
    ASSUME WireInv, SendMessage \/ Malformed \/ ParseFields \/ ParseMessage
    PROVE  WireInv'
<1>1. /\ packed \in Seq(Byte) /\ decoded \in Seq(Codes) /\ charCount \in Byte
      /\ position \in Nat /\ BitsBounded
      /\ text \in Seq(Codes \cup {Unsupported}) /\ frame \in Seq(WireByte)
  BY DEF WireInv, WireTypeOK
<1>2. CASE SendMessage
  <2>1. frame' \in Seq(WireByte)
    BY <1>1, <1>2, MessageIsBytes DEF SendMessage
  <2> QED
    BY <1>1, <1>2, <2>1
    DEF SendMessage, WireInv, WireTypeOK, BitsBounded, Phases, Encoding, Decoding, EveryPayloadDecided
<1>3. CASE Malformed
  BY <1>1, <1>3
  DEF Malformed, WireInv, WireTypeOK, BitsBounded, Phases, Encoding, Decoding, EveryPayloadDecided
<1>4. CASE ParseFields
  BY <1>1, <1>4
  DEF ParseFields, WireInv, WireTypeOK, BitsBounded, Phases, Encoding, Decoding, EveryPayloadDecided
<1>5. CASE ParseMessage
  <2> DEFINE bytes == Slice(frame, 14, Len(frame) - SignatureLength)
             values == [i \in 1..Len(bytes) |-> bytes[i][2]]
  <2>1. /\ frame[14][2] \in 1..255 /\ values \in Seq(Byte)
        /\ Len(values) = PackedByteLength(frame[14][2])
    BY <1>1, <1>5, PackedOfMessage DEF ParseMessage
  <2>2. PICK n \in 1..255 : frame[14][2] = n
    BY <2>1
  <2>3. StartDecode(values, n) /\ UNCHANGED <<text, frame>>
    BY <1>5, <2>2 DEF ParseMessage
  <2> HIDE DEF values
  <2>4. n > 0 /\ Len(values) = PackedByteLength(n)
    <3>1. PackedByteLength(frame[14][2]) = PackedByteLength(n)
      BY <2>2 DEF PackedByteLength
    <3> QED
      BY <2>1, <3>1
  <2>5. /\ packed' = values /\ charCount' = n /\ decoded' = <<>>
        /\ position' = 0 /\ bitBuffer' = 0 /\ bitCount' = 0 /\ phase' = "decode"
    BY <2>3, <2>4 DEF StartDecode
  <2>6. BitsBounded'
    BY <2>5, Powers, SMTT(40) DEF BitsBounded
  <2>7. WireTypeOK'
    BY <2>1, <2>5, <2>6 DEF WireTypeOK, Phases, Byte
  <2>8. Decoding'
    <3>1. Len(packed') \in Nat /\ Len(packed') = PackedByteLength(charCount')
      BY <2>1, <2>4, <2>5 DEF PackedByteLength
    <3>2. Len(decoded') = 0
      BY <2>5
    <3>3. charCount' \in Nat /\ charCount' > 0
      BY <2>4, <2>5
    <3>4. position' = 0 /\ bitCount' = 0
      BY <2>5
    <3>5. position' <= Len(packed')
      BY <3>1, <3>4
    <3>6. bitCount' = 8 * position' - 6 * Len(decoded')
      BY <3>2, <3>4
    <3>7. Len(decoded') <= charCount'
      BY <3>2, <3>3
    <3> QED
      BY <3>1, <3>3, <3>5, <3>6, <3>7 DEF Decoding
  <2>9. Encoding' /\ EveryPayloadDecided'
    BY <2>5 DEF Encoding, EveryPayloadDecided
  <2> QED
    BY <1>1, <2>3, <2>7, <2>8, <2>9 DEF WireInv
<1> QED
  BY <1>2, <1>3, <1>4, <1>5

LEMMA WireInvStep == WireInv /\ [Next]_wireVars => WireInv'
<1> SUFFICES ASSUME WireInv, [Next]_wireVars PROVE WireInv'
  OBVIOUS
<1>1. CASE CodecStep
  BY <1>1, EncoderKeepsInv, DecoderKeepsInv DEF CodecStep
<1>2. CASE SendMessage \/ Malformed \/ ParseFields \/ ParseMessage
  BY <1>2, ParserKeepsInv
<1>3. CASE UNCHANGED wireVars
  BY <1>3 DEF wireVars, WireInv, WireTypeOK, BitsBounded, Encoding, Decoding, EveryPayloadDecided
<1> QED
  BY <1>1, <1>2, <1>3 DEF Next

LEMMA WireInvAlways == Spec => []WireInv
BY WireInvInit, WireInvStep, PTL DEF Spec

-----------------------------------------------------------------------------

\* Whatever is sent and whatever arrives, the bit buffer holds no more than the
\* 13 bits that are counted: packing and unpacking stay clear of the 32 bits of
\* JavaScript's shifts, and yield bytes and characters.
THEOREM WireTypeCorrect == Spec => []WireTypeOK
<1>1. WireInv => WireTypeOK
  BY DEF WireInv
<1> QED
  BY <1>1, WireInvAlways, PTL

\* Any bytes at all are parsed or refused as malformed: the decoder that
\* parsePayload calls never runs out of bytes, and leaves none unread.
THEOREM ParserDecides == Spec => []EveryPayloadDecided
<1>1. WireInv => EveryPayloadDecided
  BY DEF WireInv
<1> QED
  BY <1>1, WireInvAlways, PTL

-----------------------------------------------------------------------------
\* Bits.

\* The j-th bit of a number, from 0, least significant first; the k-th of some
\* bytes and the k-th of some characters, most significant first.
BitOf(x, j) == (x \div PowerOfTwo(j)) % 2
BitIn(bytes, k) == BitOf(bytes[(k \div 8) + 1], 7 - (k % 8))
CodeBit(codes, k) == BitOf(codes[(k \div 6) + 1], 5 - (k % 6))

\* Six bits are a character.
LEMMA SixBits ==
    ASSUME NEW x \in Nat, x < 64
    PROVE  x = 32 * BitOf(x, 5) + 16 * BitOf(x, 4) + 8 * BitOf(x, 3)
                         + 4 * BitOf(x, 2) + 2 * BitOf(x, 1) + BitOf(x, 0)
<1>1. x \div 1 = x /\ x = 2 * (x \div 2) + (x % 2) /\ x \div 2 = 2 * (x \div 4) + ((x \div 2) % 2)
  OBVIOUS
<1>2. x \div 4 = 2 * (x \div 8) + ((x \div 4) % 2) /\ x \div 8 = 2 * (x \div 16) + ((x \div 8) % 2)
  OBVIOUS
<1>3. x \div 16 = 2 * (x \div 32) + ((x \div 16) % 2) /\ x \div 32 = (x \div 32) % 2
  OBVIOUS
<1>4. x = 32 * ((x \div 32) % 2) + 16 * ((x \div 16) % 2) + 8 * ((x \div 8) % 2)
           + 4 * ((x \div 4) % 2) + 2 * ((x \div 2) % 2) + (x % 2)
  BY <1>1, <1>2, <1>3
<1>5. /\ BitOf(x, 0) = x % 2 /\ BitOf(x, 1) = (x \div 2) % 2
      /\ BitOf(x, 2) = (x \div 4) % 2 /\ BitOf(x, 3) = (x \div 8) % 2
      /\ BitOf(x, 4) = (x \div 16) % 2 /\ BitOf(x, 5) = (x \div 32) % 2
  BY <1>1, Powers DEF BitOf
<1> QED
  BY <1>4, <1>5

\* A mask keeps the bits below it.
LEMMA BitLow ==
    ASSUME NEW x \in Nat, NEW n \in 1..8, NEW y \in Nat, y = LowBits(x, n), NEW j \in 0..7, j < n
    PROVE  BitOf(y, j) = BitOf(x, j)
<1>1. n = 1 \/ n = 2 \/ n = 3 \/ n = 4 \/ n = 5 \/ n = 6 \/ n = 7 \/ n = 8
  OBVIOUS
<1>2. j = 0 \/ j = 1 \/ j = 2 \/ j = 3 \/ j = 4 \/ j = 5 \/ j = 6 \/ j = 7
  OBVIOUS
<1>3. ASSUME n = 1 PROVE BitOf(y, j) = BitOf(x, j)
  <2>1. y = x % 2
    BY <1>3, Powers DEF LowBits
  <2>2. (y \div 1) % 2 = (x \div 1) % 2
    BY <2>1
  <2> QED
    BY <1>3, <1>2, <2>2, Powers DEF BitOf
<1>4. ASSUME n = 2 PROVE BitOf(y, j) = BitOf(x, j)
  <2>1. y = x % 4
    BY <1>4, Powers DEF LowBits
  <2>2. (y \div 1) % 2 = (x \div 1) % 2
    BY <2>1
  <2>3. (y \div 2) % 2 = (x \div 2) % 2
    BY <2>1
  <2> QED
    BY <1>4, <1>2, <2>2, <2>3, Powers DEF BitOf
<1>5. ASSUME n = 3 PROVE BitOf(y, j) = BitOf(x, j)
  <2>1. y = x % 8
    BY <1>5, Powers DEF LowBits
  <2>2. (y \div 1) % 2 = (x \div 1) % 2
    BY <2>1
  <2>3. (y \div 2) % 2 = (x \div 2) % 2
    BY <2>1
  <2>4. (y \div 4) % 2 = (x \div 4) % 2
    BY <2>1
  <2> QED
    BY <1>5, <1>2, <2>2, <2>3, <2>4, Powers DEF BitOf
<1>6. ASSUME n = 4 PROVE BitOf(y, j) = BitOf(x, j)
  <2>1. y = x % 16
    BY <1>6, Powers DEF LowBits
  <2>2. (y \div 1) % 2 = (x \div 1) % 2
    BY <2>1
  <2>3. (y \div 2) % 2 = (x \div 2) % 2
    BY <2>1
  <2>4. (y \div 4) % 2 = (x \div 4) % 2
    BY <2>1
  <2>5. (y \div 8) % 2 = (x \div 8) % 2
    BY <2>1
  <2> QED
    BY <1>6, <1>2, <2>2, <2>3, <2>4, <2>5, Powers DEF BitOf
<1>7. ASSUME n = 5 PROVE BitOf(y, j) = BitOf(x, j)
  <2>1. y = x % 32
    BY <1>7, Powers DEF LowBits
  <2>2. (y \div 1) % 2 = (x \div 1) % 2
    BY <2>1
  <2>3. (y \div 2) % 2 = (x \div 2) % 2
    BY <2>1
  <2>4. (y \div 4) % 2 = (x \div 4) % 2
    BY <2>1
  <2>5. (y \div 8) % 2 = (x \div 8) % 2
    BY <2>1
  <2>6. (y \div 16) % 2 = (x \div 16) % 2
    BY <2>1
  <2> QED
    BY <1>7, <1>2, <2>2, <2>3, <2>4, <2>5, <2>6, Powers DEF BitOf
<1>8. ASSUME n = 6 PROVE BitOf(y, j) = BitOf(x, j)
  <2>1. y = x % 64
    BY <1>8, Powers DEF LowBits
  <2>2. (y \div 1) % 2 = (x \div 1) % 2
    BY <2>1
  <2>3. (y \div 2) % 2 = (x \div 2) % 2
    BY <2>1
  <2>4. (y \div 4) % 2 = (x \div 4) % 2
    BY <2>1
  <2>5. (y \div 8) % 2 = (x \div 8) % 2
    BY <2>1
  <2>6. (y \div 16) % 2 = (x \div 16) % 2
    BY <2>1, SMTT(40)
  <2>7. (y \div 32) % 2 = (x \div 32) % 2
    BY <2>1
  <2> QED
    BY <1>8, <1>2, <2>2, <2>3, <2>4, <2>5, <2>6, <2>7, Powers DEF BitOf
<1>9. ASSUME n = 7 PROVE BitOf(y, j) = BitOf(x, j)
  <2>1. y = x % 128
    BY <1>9, Powers DEF LowBits
  <2>2. (y \div 1) % 2 = (x \div 1) % 2
    BY <2>1
  <2>3. (y \div 2) % 2 = (x \div 2) % 2
    BY <2>1
  <2>4. (y \div 4) % 2 = (x \div 4) % 2
    BY <2>1
  <2>5. (y \div 8) % 2 = (x \div 8) % 2
    BY <2>1
  <2>6. (y \div 16) % 2 = (x \div 16) % 2
    BY <2>1
  <2>7. (y \div 32) % 2 = (x \div 32) % 2
    BY <2>1
  <2>8. (y \div 64) % 2 = (x \div 64) % 2
    BY <2>1
  <2> QED
    BY <1>9, <1>2, <2>2, <2>3, <2>4, <2>5, <2>6, <2>7, <2>8, Powers DEF BitOf
<1>10. ASSUME n = 8 PROVE BitOf(y, j) = BitOf(x, j)
  <2>1. y = x % 256
    BY <1>10, Powers DEF LowBits
  <2>2. (y \div 1) % 2 = (x \div 1) % 2
    BY <2>1
  <2>3. (y \div 2) % 2 = (x \div 2) % 2
    BY <2>1
  <2>4. (y \div 4) % 2 = (x \div 4) % 2
    BY <2>1
  <2>5. (y \div 8) % 2 = (x \div 8) % 2
    BY <2>1
  <2>6. (y \div 16) % 2 = (x \div 16) % 2
    BY <2>1
  <2>7. (y \div 32) % 2 = (x \div 32) % 2
    BY <2>1
  <2>8. (y \div 64) % 2 = (x \div 64) % 2
    BY <2>1
  <2>9. (y \div 128) % 2 = (x \div 128) % 2
    BY <2>1
  <2> QED
    BY <1>10, <1>2, <2>2, <2>3, <2>4, <2>5, <2>6, <2>7, <2>8, <2>9, Powers DEF BitOf
<1> QED
  BY <1>1, <1>3, <1>4, <1>5, <1>6, <1>7, <1>8, <1>9, <1>10

LEMMA CodeIn ==
    ASSUME NEW x \in Nat, NEW c \in Nat, c < 64, NEW y \in Nat, y = ShiftLeft(x, 6) + c,
           NEW j \in 0..13
    PROVE  /\ j < 6 => BitOf(y, j) = BitOf(c, j)
           /\ j >= 6 => BitOf(y, j) = BitOf(x, j - 6)
<1>1. j = 0 \/ j = 1 \/ j = 2 \/ j = 3 \/ j = 4 \/ j = 5 \/ j = 6 \/ j = 7
      \/ j = 8 \/ j = 9 \/ j = 10 \/ j = 11 \/ j = 12 \/ j = 13
  OBVIOUS
<1>2. y = 64 * x + c
  BY Powers DEF ShiftLeft
<1>3. (y \div 1) % 2 = (c \div 1) % 2
  BY <1>2
<1>4. (y \div 2) % 2 = (c \div 2) % 2
  BY <1>2
<1>5. (y \div 4) % 2 = (c \div 4) % 2
  BY <1>2
<1>6. (y \div 8) % 2 = (c \div 8) % 2
  BY <1>2
<1>7. (y \div 16) % 2 = (c \div 16) % 2
  BY <1>2
<1>8. (y \div 32) % 2 = (c \div 32) % 2
  BY <1>2
<1>9. (y \div 64) % 2 = (x \div 1) % 2
  BY <1>2
<1>10. (y \div 128) % 2 = (x \div 2) % 2
  BY <1>2
<1>11. (y \div 256) % 2 = (x \div 4) % 2
  BY <1>2
<1>12. (y \div 512) % 2 = (x \div 8) % 2
  BY <1>2
<1>13. (y \div 1024) % 2 = (x \div 16) % 2
  BY <1>2
<1>14. (y \div 2048) % 2 = (x \div 32) % 2
  BY <1>2
<1>15. (y \div 4096) % 2 = (x \div 64) % 2
  BY <1>2
<1>16. (y \div 8192) % 2 = (x \div 128) % 2
  BY <1>2
<1>17. ASSUME j < 6 PROVE BitOf(y, j) = BitOf(c, j)
  BY <1>1, <1>17, <1>3, <1>4, <1>5, <1>6, <1>7, <1>8, Powers DEF BitOf
<1>18. ASSUME j >= 6 PROVE BitOf(y, j) = BitOf(x, j - 6)
  BY <1>1, <1>18, <1>9, <1>10, <1>11, <1>12, <1>13, <1>14, <1>15, <1>16, Powers DEF BitOf
<1> QED
  BY <1>17, <1>18

LEMMA ByteIn ==
    ASSUME NEW x \in Nat, NEW c \in Nat, c < 256, NEW y \in Nat, y = ShiftLeft(x, 8) + c,
           NEW j \in 0..13
    PROVE  /\ j < 8 => BitOf(y, j) = BitOf(c, j)
           /\ j >= 8 => BitOf(y, j) = BitOf(x, j - 8)
<1>1. j = 0 \/ j = 1 \/ j = 2 \/ j = 3 \/ j = 4 \/ j = 5 \/ j = 6 \/ j = 7
      \/ j = 8 \/ j = 9 \/ j = 10 \/ j = 11 \/ j = 12 \/ j = 13
  OBVIOUS
<1>2. y = 256 * x + c
  BY Powers DEF ShiftLeft
<1>3. (y \div 1) % 2 = (c \div 1) % 2
  BY <1>2
<1>4. (y \div 2) % 2 = (c \div 2) % 2
  BY <1>2
<1>5. (y \div 4) % 2 = (c \div 4) % 2
  BY <1>2
<1>6. (y \div 8) % 2 = (c \div 8) % 2
  BY <1>2
<1>7. (y \div 16) % 2 = (c \div 16) % 2
  BY <1>2
<1>8. (y \div 32) % 2 = (c \div 32) % 2
  BY <1>2
<1>9. (y \div 64) % 2 = (c \div 64) % 2
  BY <1>2
<1>10. (y \div 128) % 2 = (c \div 128) % 2
  BY <1>2
<1>11. (y \div 256) % 2 = (x \div 1) % 2
  BY <1>2
<1>12. (y \div 512) % 2 = (x \div 2) % 2
  BY <1>2
<1>13. (y \div 1024) % 2 = (x \div 4) % 2
  BY <1>2
<1>14. (y \div 2048) % 2 = (x \div 8) % 2
  BY <1>2
<1>15. (y \div 4096) % 2 = (x \div 16) % 2
  BY <1>2
<1>16. (y \div 8192) % 2 = (x \div 32) % 2
  BY <1>2
<1>17. ASSUME j < 8 PROVE BitOf(y, j) = BitOf(c, j)
  BY <1>1, <1>17, <1>3, <1>4, <1>5, <1>6, <1>7, <1>8, <1>9, <1>10, Powers DEF BitOf
<1>18. ASSUME j >= 8 PROVE BitOf(y, j) = BitOf(x, j - 8)
  BY <1>1, <1>18, <1>11, <1>12, <1>13, <1>14, <1>15, <1>16, Powers DEF BitOf
<1> QED
  BY <1>17, <1>18

\* A shift to the right moves the bits down.
LEMMA BitDown ==
    ASSUME NEW x \in Nat, NEW n \in 0..7, NEW y \in Nat, y = ShiftRight(x, n),
           NEW j \in 0..7, n + j <= 13
    PROVE  BitOf(y, j) = BitOf(x, n + j)
<1>1. n = 0 \/ n = 1 \/ n = 2 \/ n = 3 \/ n = 4 \/ n = 5 \/ n = 6 \/ n = 7
  OBVIOUS
<1>2. CASE j = 0
  BY <1>1, <1>2, Powers DEF BitOf, ShiftRight
<1>3. CASE j = 1
  BY <1>1, <1>3, Powers DEF BitOf, ShiftRight
<1>4. CASE j = 2
  BY <1>1, <1>4, Powers DEF BitOf, ShiftRight
<1>5. CASE j = 3
  BY <1>1, <1>5, Powers DEF BitOf, ShiftRight
<1>6. CASE j = 4
  BY <1>1, <1>6, Powers DEF BitOf, ShiftRight
<1>7. CASE j = 5
  BY <1>1, <1>7, Powers DEF BitOf, ShiftRight
<1>8. CASE j = 6
  BY <1>1, <1>8, Powers DEF BitOf, ShiftRight
<1>9. CASE j = 7
  BY <1>1, <1>9, Powers DEF BitOf, ShiftRight
<1> QED
  BY <1>2, <1>3, <1>4, <1>5, <1>6, <1>7, <1>8, <1>9

\* The last bits go to the top of their byte.
LEMMA BitsToTop ==
    ASSUME NEW n \in 1..7, NEW x \in 0..(PowerOfTwo(n) - 1), NEW j \in 0..(n - 1)
    PROVE  BitOf(LowBits(ShiftLeft(x, 8 - n), 8), (8 - n) + j) = BitOf(x, j)
<1>1. \/ n = 1 \/ n = 2 \/ n = 3 \/ n = 4 \/ n = 5 \/ n = 6 \/ n = 7
  OBVIOUS
<1>2. \/ j = 0 \/ j = 1 \/ j = 2 \/ j = 3 \/ j = 4 \/ j = 5 \/ j = 6
  OBVIOUS
<1> QED
  BY <1>1, <1>2, Powers DEF BitOf, LowBits, ShiftLeft

\* The bits of a character, and of a byte, where they are among all of them.
LEMMA BitsOfOne ==
    ASSUME NEW s, NEW p \in Nat
    PROVE  /\ \A j \in 0..5 : CodeBit(s, 6 * p + 5 - j) = BitOf(s[p + 1], j)
           /\ \A j \in 0..7 : BitIn(s, 8 * p + 7 - j) = BitOf(s[p + 1], j)
<1>1. ASSUME NEW j \in 0..5 PROVE CodeBit(s, 6 * p + 5 - j) = BitOf(s[p + 1], j)
  <2>1. (6 * p + 5 - j) \div 6 = p /\ 5 - ((6 * p + 5 - j) % 6) = j
    BY SMT
  <2> QED
    BY <2>1 DEF CodeBit
<1>2. ASSUME NEW j \in 0..7 PROVE BitIn(s, 8 * p + 7 - j) = BitOf(s[p + 1], j)
  <2>1. (8 * p + 7 - j) \div 8 = p /\ 7 - ((8 * p + 7 - j) % 8) = j
    BY SMT
  <2> QED
    BY <2>1 DEF BitIn
<1> QED
  BY <1>1, <1>2

\* One more byte adds its bits and moves none.
LEMMA BitsOfMore ==
    ASSUME NEW bytes \in Seq(Byte), NEW b \in Byte, NEW more, more = Append(bytes, b)
    PROVE  /\ \A k \in 0..(8 * Len(bytes) - 1) : BitIn(more, k) = BitIn(bytes, k)
           /\ \A j \in 0..7 : BitIn(more, 8 * Len(bytes) + 7 - j) = BitOf(b, j)
<1>1. Len(bytes) \in Nat /\ more[Len(bytes) + 1] = b
  OBVIOUS
<1>2. ASSUME NEW k \in 0..(8 * Len(bytes) - 1) PROVE BitIn(more, k) = BitIn(bytes, k)
  <2>1. (k \div 8) + 1 \in 1..Len(bytes)
    BY <1>1, <1>2
  <2>2. more[(k \div 8) + 1] = bytes[(k \div 8) + 1]
    BY <2>1
  <2> QED
    BY <2>2 DEF BitIn
<1>3. \A j \in 0..7 : BitIn(more, 8 * Len(bytes) + 7 - j) = BitOf(b, j)
  BY <1>1, BitsOfOne
<1> QED
  BY <1>2, <1>3

\* The six bits from 6 * (i - 1) on.
CodeOf(bytes, i) ==
    32 * BitIn(bytes, 6 * (i - 1) + 0) + 16 * BitIn(bytes, 6 * (i - 1) + 1)
    + 8 * BitIn(bytes, 6 * (i - 1) + 2) + 4 * BitIn(bytes, 6 * (i - 1) + 3)
    + 2 * BitIn(bytes, 6 * (i - 1) + 4) + BitIn(bytes, 6 * (i - 1) + 5)

LEMMA CodeAtIs == \A i \in Nat : CodeAt(i) = CodeOf(packed, i)
BY DEF CodeAt, Bit, CodeOf, BitIn, BitOf

LEMMA CodeFromBits ==
    ASSUME NEW c \in Codes, NEW bytes, NEW p \in Nat,
           \A j \in 0..5 : BitOf(c, j) = BitIn(bytes, 6 * p + 5 - j)
    PROVE  c = CodeOf(bytes, p + 1)
<1>1. c \in Nat /\ c < 64
  BY DEF Codes
<1>2. /\ BitOf(c, 0) = BitIn(bytes, 6 * p + 5 - 0) /\ BitOf(c, 1) = BitIn(bytes, 6 * p + 5 - 1)
      /\ BitOf(c, 2) = BitIn(bytes, 6 * p + 5 - 2) /\ BitOf(c, 3) = BitIn(bytes, 6 * p + 5 - 3)
      /\ BitOf(c, 4) = BitIn(bytes, 6 * p + 5 - 4) /\ BitOf(c, 5) = BitIn(bytes, 6 * p + 5 - 5)
  OBVIOUS
<1>3. /\ 6 * p + 5 - 0 = 6 * ((p + 1) - 1) + 5 /\ 6 * p + 5 - 1 = 6 * ((p + 1) - 1) + 4
      /\ 6 * p + 5 - 2 = 6 * ((p + 1) - 1) + 3 /\ 6 * p + 5 - 3 = 6 * ((p + 1) - 1) + 2
      /\ 6 * p + 5 - 4 = 6 * ((p + 1) - 1) + 1 /\ 6 * p + 5 - 5 = 6 * ((p + 1) - 1) + 0
  OBVIOUS
<1>4. c = 32 * BitOf(c, 5) + 16 * BitOf(c, 4) + 8 * BitOf(c, 3)
          + 4 * BitOf(c, 2) + 2 * BitOf(c, 1) + BitOf(c, 0)
  BY <1>1, SixBits
<1> QED
  BY <1>2, <1>3, <1>4 DEF CodeOf

\* The first bits of what a text was packed into are the text.
LEMMA TextFromBits ==
    ASSUME NEW t \in Seq(Codes), NEW bytes, NEW i \in 1..Len(t),
           \A k \in 0..(6 * Len(t) - 1) : BitIn(bytes, k) = CodeBit(t, k)
    PROVE  t[i] = CodeOf(bytes, i)
<1>1. PICK p \in Nat : i = p + 1
  <2>1. i - 1 \in Nat /\ i = (i - 1) + 1
    OBVIOUS
  <2> QED
    BY <2>1
<1>2. ASSUME NEW j \in 0..5 PROVE BitOf(t[i], j) = BitIn(bytes, 6 * p + 5 - j)
  <2>1. 6 * p + 5 - j \in 0..(6 * Len(t) - 1)
    BY <1>1
  <2>2. CodeBit(t, 6 * p + 5 - j) = BitOf(t[i], j)
    BY <1>1, BitsOfOne
  <2> QED
    BY <2>1, <2>2
<1> QED
  BY <1>1, <1>2, CodeFromBits

\* A character taken into the buffer.
LEMMA CharTaken ==
    ASSUME NEW t, NEW p \in Nat, t[p + 1] \in Codes, NEW n \in 0..7,
           NEW x \in Nat, \A j \in 0..(n - 1) : BitOf(x, j) = CodeBit(t, 6 * p - 1 - j),
           NEW y \in Nat, y = ShiftLeft(x, 6) + t[p + 1]
    PROVE  \A j \in 0..(n + 5) : BitOf(y, j) = CodeBit(t, 6 * (p + 1) - 1 - j)
<1> TAKE j \in 0..(n + 5)
<1> DEFINE c == t[p + 1]
<1>1. c \in Nat /\ c < 64 /\ j \in 0..13
  BY DEF Codes
<1> HIDE DEF c
<1>2. y = ShiftLeft(x, 6) + c
  BY DEF c
<1>3. (j < 6 => BitOf(y, j) = BitOf(c, j)) /\ (j >= 6 => BitOf(y, j) = BitOf(x, j - 6))
  BY <1>1, <1>2, CodeIn
<1>4. CASE j < 6
  <2>1. j \in 0..5 /\ 6 * (p + 1) - 1 - j = 6 * p + 5 - j
    BY <1>4
  <2>2. CodeBit(t, 6 * p + 5 - j) = BitOf(c, j)
    BY <2>1, BitsOfOne DEF c
  <2> QED
    BY <1>3, <1>4, <2>1, <2>2
<1>5. CASE j >= 6
  <2>1. j - 6 \in 0..(n - 1) /\ 6 * (p + 1) - 1 - j = 6 * p - 1 - (j - 6)
    BY <1>5
  <2>2. BitOf(x, j - 6) = CodeBit(t, 6 * p - 1 - (j - 6))
    BY <2>1
  <2> QED
    BY <1>3, <1>5, <2>1, <2>2
<1> QED
  BY <1>4, <1>5

\* A byte taken into the buffer.
LEMMA ByteTaken ==
    ASSUME NEW bytes, NEW p \in Nat, bytes[p + 1] \in Byte, NEW n \in 0..5,
           NEW x \in Nat, \A j \in 0..(n - 1) : BitOf(x, j) = BitIn(bytes, 8 * p - 1 - j),
           NEW y \in Nat, y = ShiftLeft(x, 8) + bytes[p + 1]
    PROVE  \A j \in 0..(n + 7) : BitOf(y, j) = BitIn(bytes, 8 * (p + 1) - 1 - j)
<1> TAKE j \in 0..(n + 7)
<1> DEFINE c == bytes[p + 1]
<1>1. c \in Nat /\ c < 256 /\ j \in 0..13
  BY DEF Byte
<1> HIDE DEF c
<1>2. y = ShiftLeft(x, 8) + c
  BY DEF c
<1>3. (j < 8 => BitOf(y, j) = BitOf(c, j)) /\ (j >= 8 => BitOf(y, j) = BitOf(x, j - 8))
  BY <1>1, <1>2, ByteIn
<1>4. CASE j < 8
  <2>1. j \in 0..7 /\ 8 * (p + 1) - 1 - j = 8 * p + 7 - j
    BY <1>4
  <2>2. BitIn(bytes, 8 * p + 7 - j) = BitOf(c, j)
    BY <2>1, BitsOfOne DEF c
  <2> QED
    BY <1>3, <1>4, <2>1, <2>2
<1>5. CASE j >= 8
  <2>1. j - 8 \in 0..(n - 1) /\ 8 * (p + 1) - 1 - j = 8 * p - 1 - (j - 8)
    BY <1>5
  <2>2. BitOf(x, j - 8) = BitIn(bytes, 8 * p - 1 - (j - 8))
    BY <2>1
  <2> QED
    BY <1>3, <1>5, <2>1, <2>2
<1> QED
  BY <1>4, <1>5

LEMMA KeptIsNat ==
    \A x \in Nat, n \in 0..13 : LowBits(x, n) \in Nat /\ ShiftRight(x, n) \in Nat
<1> TAKE x \in Nat, n \in 0..13
<1>1. PowerOfTwo(n) \in Nat \ {0}
  BY PowersPositive
<1> QED
  BY <1>1 DEF LowBits, ShiftRight

\* The top bits of the buffer, eight or six, leave it; the others stay.
LEMMA TopLeaves ==
    ASSUME NEW x \in Nat, NEW s \in 0..7, NEW w \in {6, 8}, s + w <= 13
    PROVE  /\ LowBits(ShiftRight(x, s), w) \in Nat /\ LowBits(x, s) \in Nat
           /\ \A j \in 0..(w - 1) : BitOf(LowBits(ShiftRight(x, s), w), j) = BitOf(x, s + j)
           /\ \A j \in 0..(s - 1) : BitOf(LowBits(x, s), j) = BitOf(x, j)
<1>1. s \in 0..13 /\ w \in 0..13
  OBVIOUS
<1>2. PICK y \in Nat : y = ShiftRight(x, s)
  BY <1>1, KeptIsNat
<1>3. PICK b \in Nat : b = LowBits(y, w)
  BY <1>1, KeptIsNat
<1>4. PICK z \in Nat : z = LowBits(x, s)
  BY <1>1, KeptIsNat
<1>5. ASSUME NEW j \in 0..(w - 1) PROVE BitOf(b, j) = BitOf(x, s + j)
  <2>1. j \in 0..7 /\ w \in 1..8 /\ j < w /\ s + j <= 13
    OBVIOUS
  <2>2. BitOf(b, j) = BitOf(y, j)
    BY <1>3, <2>1, BitLow
  <2>3. BitOf(y, j) = BitOf(x, s + j)
    BY <1>2, <2>1, BitDown
  <2> QED
    BY <2>2, <2>3
<1>6. ASSUME NEW j \in 0..(s - 1) PROVE BitOf(z, j) = BitOf(x, j)
  <2>1. j \in 0..7 /\ s \in 1..8 /\ j < s
    OBVIOUS
  <2> QED
    BY <1>4, <2>1, BitLow
<1> QED
  BY <1>2, <1>3, <1>4, <1>5, <1>6

-----------------------------------------------------------------------------
\* The inductive invariant of the bits.

\* The encoder: each bit of the characters taken is in the packed bytes or, the
\* last of them, in the buffer.
Packing ==
    phase = "encode" =>
        /\ bitCount = 6 * position - 8 * Len(packed)
        /\ \A i \in 1..position : text[i] \in Codes
        /\ \A k \in 0..(8 * Len(packed) - 1) : BitIn(packed, k) = CodeBit(text, k)
        /\ \A j \in 0..(bitCount - 1) :
              BitOf(bitBuffer, j) = CodeBit(text, 6 * position - 1 - j)

\* The bytes, encoded, sent or received, hold the text.
TextPacked ==
    /\ text \in Seq(Codes) /\ charCount = Len(text)
    /\ \A k \in 0..(6 * Len(text) - 1) : BitIn(packed, k) = CodeBit(text, k)

Packed ==
    text # <<>> =>
        /\ phase \in {"encoded", "parse", "decode", "parsed"} => TextPacked
        /\ phase = "parse" => frame = BuildMessage(charCount, packed)

\* The decoder: each character found is the bits that belong to it, and the
\* buffer holds the bits of the bytes taken that belong to none yet.
Unpacking ==
    /\ phase = "decode" \/ (phase = "parsed" /\ frame[1][2] = 4) =>
          \A i \in 1..Len(decoded) : decoded[i] = CodeOf(packed, i)
    /\ phase = "decode" =>
          \A j \in 0..(bitCount - 1) :
              BitOf(bitBuffer, j) = BitIn(packed, 8 * position - 1 - j)
    /\ phase = "parsed" /\ frame[1][2] = 4 => Len(decoded) = charCount

BitsInv == Packing /\ Packed /\ Unpacking

\* A text or a payload, and no bits yet.
LEMMA BitsInvInit == Init => BitsInv
<1> SUFFICES ASSUME Init PROVE BitsInv
  OBVIOUS
<1>1. packed = <<>> /\ position = 0 /\ bitCount = 0
  BY DEF Init, StartEncode
<1>2. phase \in {"encode", "refused"} \/ (phase = "parse" /\ text = <<>>)
  BY DEF Init, StartEncode
<1>3. Packing
  <2>1. Len(packed) = 0
    BY <1>1
  <2>2. 0 = 6 * 0 - 8 * 0 /\ 0..(8 * 0 - 1) = {} /\ 1..0 = {} /\ 0..(0 - 1) = {}
    OBVIOUS
  <2>3. position = 0 /\ bitCount = 0
    BY <1>1
  <2> QED
    BY <2>1, <2>2, <2>3 DEF Packing
<1>4. Packed /\ Unpacking
  BY <1>2 DEF Packed, Unpacking
<1> QED
  BY <1>3, <1>4 DEF BitsInv

\* A character is taken, a byte leaves, the last bits are flushed.
LEMMA EncoderKeepsBits ==
    ASSUME WireInv, BitsInv, EncodeChar \/ EmitByte \/ FlushBits, UNCHANGED <<frame, fields>>
    PROVE  BitsInv'
<1>1. /\ packed \in Seq(Byte) /\ Len(packed) \in Nat /\ position \in Nat /\ bitCount \in 0..13
      /\ bitBuffer \in 0..(PowerOfTwo(bitCount) - 1)
      /\ text \in Seq(Codes \cup {Unsupported}) /\ Len(text) \in Nat
  BY DEF WireInv, WireTypeOK, BitsBounded
<1>2. bitBuffer \in Nat
  <2>1. PowerOfTwo(bitCount) \in Nat \ {0}
    BY <1>1, PowersPositive
  <2> QED
    BY <1>1, <2>1
<1>3. phase = "encode"
  BY DEF EncodeChar, EmitByte, FlushBits
<1>4. /\ bitCount = 6 * position - 8 * Len(packed)
      /\ \A i \in 1..position : text[i] \in Codes
      /\ \A k \in 0..(8 * Len(packed) - 1) : BitIn(packed, k) = CodeBit(text, k)
      /\ \A j \in 0..(bitCount - 1) : BitOf(bitBuffer, j) = CodeBit(text, 6 * position - 1 - j)
  BY <1>3 DEF BitsInv, Packing
<1>5. CASE EncodeChar
  <2>1. CASE text[position + 1] \in Codes
    <3>1. /\ bitBuffer' = ShiftLeft(bitBuffer, 6) + text[position + 1]
          /\ bitCount' = bitCount + 6 /\ position' = position + 1
          /\ UNCHANGED <<text, packed, phase>> /\ bitCount \in 0..7
      BY <1>1, <1>5, <2>1 DEF EncodeChar
    <3>2. PICK y \in Nat : y = bitBuffer'
      <4>1. ShiftLeft(bitBuffer, 6) \in Nat
        BY <1>2, Powers DEF ShiftLeft
      <4>2. text[position + 1] \in Nat
        BY <2>1 DEF Codes
      <4> QED
        BY <3>1, <4>1, <4>2
    <3>3. \A j \in 0..(bitCount + 5) : BitOf(y, j) = CodeBit(text, 6 * (position + 1) - 1 - j)
      <4>1. PICK x \in Nat, n \in 0..7, p \in Nat, t \in {text} :
               x = bitBuffer /\ n = bitCount /\ p = position /\ t = text
        BY <1>1, <1>2, <3>1
      <4>2. /\ t[p + 1] \in Codes /\ y = ShiftLeft(x, 6) + t[p + 1]
            /\ \A j \in 0..(n - 1) : BitOf(x, j) = CodeBit(t, 6 * p - 1 - j)
        BY <1>4, <2>1, <3>1, <3>2, <4>1
      <4>3. \A j \in 0..(n + 5) : BitOf(y, j) = CodeBit(t, 6 * (p + 1) - 1 - j)
        BY <4>2, CharTaken
      <4> QED
        BY <4>1, <4>3
    <3>4. \A j \in 0..(bitCount' - 1) : BitOf(bitBuffer', j) = CodeBit(text', 6 * position' - 1 - j)
      <4>1. bitCount' - 1 = bitCount + 5
        BY <1>1, <3>1
      <4> QED
        BY <3>1, <3>2, <3>3, <4>1
    <3>5. bitCount' = 6 * position' - 8 * Len(packed')
      BY <1>1, <1>4, <3>1
    <3>6. \A i \in 1..position' : text'[i] \in Codes
      <4> TAKE i \in 1..position'
      <4>1. i \in 1..position \/ i = position + 1
        BY <1>1, <3>1
      <4> QED
        BY <1>4, <2>1, <3>1, <4>1
    <3>7. Packing'
      BY <1>4, <3>1, <3>4, <3>5, <3>6 DEF Packing
    <3> QED
      BY <1>3, <3>1, <3>7 DEF BitsInv, Packed, Unpacking
  <2>2. CASE text[position + 1] \notin Codes
    <3>1. phase' = "refused"
      BY <1>5, <2>2 DEF EncodeChar
    <3> QED
      BY <3>1 DEF BitsInv, Packing, Packed, Unpacking
  <2> QED
    BY <2>1, <2>2
<1>6. CASE EmitByte
  <2>1. PICK s \in 0..5 : bitCount = s + 8
    BY <1>1, <1>6 DEF EmitByte
  <2>2. bitCount - 8 = s
    BY <2>1
  <2>3. PICK b : b = LowBits(ShiftRight(bitBuffer, s), 8)
    OBVIOUS
  <2>4. /\ packed' = Append(packed, b)
        /\ bitBuffer' = LowBits(bitBuffer, s) /\ bitCount' = s
        /\ UNCHANGED <<text, position, phase>>
    BY <1>6, <2>2, <2>3 DEF EmitByte
  <2>5. b \in Byte
    <3>1. s \in 0..13
      OBVIOUS
    <3>2. ShiftRight(bitBuffer, s) \in Nat
      BY <1>2, <3>1, KeptIsNat
    <3> QED
      BY <2>3, <3>2, OneByte
  <2>6. /\ \A j \in 0..7 : BitOf(b, j) = BitOf(bitBuffer, s + j)
        /\ \A j \in 0..(s - 1) : BitOf(bitBuffer', j) = BitOf(bitBuffer, j)
    <3>1. PICK x \in Nat : x = bitBuffer
      BY <1>2
    <3>2. PICK w \in {6, 8} : w = 8
      OBVIOUS
    <3>3. s \in 0..7 /\ s + w <= 13
      BY <3>2
    <3>4. /\ \A j \in 0..(w - 1) : BitOf(LowBits(ShiftRight(x, s), w), j) = BitOf(x, s + j)
          /\ \A j \in 0..(s - 1) : BitOf(LowBits(x, s), j) = BitOf(x, j)
      BY <3>3, TopLeaves
    <3>5. w - 1 = 7
      BY <3>2
    <3> QED
      BY <2>3, <2>4, <3>1, <3>2, <3>4, <3>5
  <2>7. /\ \A k \in 0..(8 * Len(packed) - 1) : BitIn(packed', k) = BitIn(packed, k)
        /\ \A j \in 0..7 : BitIn(packed', 8 * Len(packed) + 7 - j) = BitOf(b, j)
        /\ Len(packed') = Len(packed) + 1
    <3>1. PICK bytes \in Seq(Byte), more \in {packed'} : bytes = packed /\ more = packed'
      BY <1>1
    <3>2. more = Append(bytes, b)
      BY <2>4, <3>1
    <3>3. /\ \A k \in 0..(8 * Len(bytes) - 1) : BitIn(more, k) = BitIn(bytes, k)
          /\ \A j \in 0..7 : BitIn(more, 8 * Len(bytes) + 7 - j) = BitOf(b, j)
      BY <2>5, <3>2, BitsOfMore
    <3>4. Len(packed') = Len(packed) + 1
      BY <1>1, <2>4, <2>5
    <3> QED
      BY <3>1, <3>3, <3>4
  <2>8. ASSUME NEW k \in 0..(8 * Len(packed') - 1) PROVE BitIn(packed', k) = CodeBit(text, k)
    <3>1. CASE k < 8 * Len(packed)
      <4>1. k \in 0..(8 * Len(packed) - 1)
        BY <1>1, <2>7, <3>1
      <4> QED
        BY <1>4, <2>7, <4>1
    <3>2. CASE k >= 8 * Len(packed)
      <4>1. PICK j \in 0..7 : k = 8 * Len(packed) + 7 - j
        <5>1. 8 * Len(packed) + 7 - k \in 0..7
          <6>1. 8 * Len(packed') - 1 = 8 * Len(packed) + 7
            BY <1>1, <2>7
          <6>2. k \in 0..(8 * Len(packed) + 7)
            BY <6>1
          <6>3. PICK l \in Nat : l = Len(packed)
            BY <1>1
          <6>4. k \in 0..(8 * l + 7) /\ k >= 8 * l
            BY <3>2, <6>2, <6>3
          <6>5. 8 * l + 7 - k \in 0..7
            BY <6>4
          <6> QED
            BY <6>3, <6>5
        <5>2. k = 8 * Len(packed) + 7 - (8 * Len(packed) + 7 - k)
          BY <1>1
        <5> QED
          BY <5>1, <5>2
      <4>2. BitIn(packed', k) = BitOf(bitBuffer, s + j)
        BY <2>6, <2>7, <4>1
      <4>3. s + j \in 0..(bitCount - 1) /\ 6 * position - 1 - (s + j) = k
        BY <1>1, <1>4, <2>1, <4>1
      <4> QED
        BY <1>4, <4>2, <4>3
    <3> QED
      BY <1>1, <2>7, <3>1, <3>2
  <2>9. ASSUME NEW j \in 0..(s - 1) PROVE BitOf(bitBuffer', j) = CodeBit(text, 6 * position - 1 - j)
    <3>1. j \in 0..(bitCount - 1)
      BY <2>1
    <3> QED
      BY <1>4, <2>6, <3>1
  <2>10. bitCount' = 6 * position' - 8 * Len(packed')
    BY <1>1, <1>4, <2>1, <2>4, <2>7
  <2>11. Packing'
    BY <1>4, <2>4, <2>8, <2>9, <2>10 DEF Packing
  <2> QED
    BY <1>3, <2>4, <2>11 DEF BitsInv, Packed, Unpacking
<1>7. CASE FlushBits
  <2>1. /\ bitCount \in 0..7 /\ position = Len(text) /\ phase' = "encoded"
        /\ charCount' = Len(text) /\ text' = text
    BY <1>1, <1>7 DEF FlushBits
  <2>2. text \in Seq(Codes)
    BY <1>1, <1>4, <2>1
  <2>3. 6 * Len(text) = 8 * Len(packed) + bitCount
    BY <1>1, <1>4, <2>1
  <2>4. ASSUME NEW k \in 0..(6 * Len(text) - 1) PROVE BitIn(packed', k) = CodeBit(text, k)
    <3>1. CASE bitCount = 0
      <4>1. packed' = packed /\ k \in 0..(8 * Len(packed) - 1)
        BY <1>1, <1>7, <2>3, <3>1 DEF FlushBits
      <4> QED
        BY <1>4, <4>1
    <3>2. CASE bitCount > 0
      <4>1. PICK b : b = LowBits(ShiftLeft(bitBuffer, 8 - bitCount), 8)
        OBVIOUS
      <4>2. packed' = Append(packed, b)
        BY <1>7, <3>2, <4>1 DEF FlushBits
      <4>3. b \in Byte
        <5>1. PICK m \in 0..13 : m = 8 - bitCount
          BY <2>1, <3>2
        <5>2. PowerOfTwo(m) \in Nat
          BY PowersPositive
        <5>3. ShiftLeft(bitBuffer, m) \in Nat
          BY <1>2, <5>2 DEF ShiftLeft
        <5> QED
          BY <4>1, <5>1, <5>3, OneByte
      <4>4. \A j \in 0..(bitCount - 1) : BitOf(b, (8 - bitCount) + j) = BitOf(bitBuffer, j)
        <5>1. PICK n \in 1..7 : n = bitCount
          BY <2>1, <3>2
        <5>2. PICK x \in 0..(PowerOfTwo(n) - 1) : x = bitBuffer
          BY <1>1, <5>1
        <5>3. \A j \in 0..(n - 1) :
                 BitOf(LowBits(ShiftLeft(x, 8 - n), 8), (8 - n) + j) = BitOf(x, j)
          BY BitsToTop
        <5> QED
          BY <4>1, <5>1, <5>2, <5>3
      <4>5. /\ \A i \in 0..(8 * Len(packed) - 1) : BitIn(packed', i) = BitIn(packed, i)
            /\ \A j \in 0..7 : BitIn(packed', 8 * Len(packed) + 7 - j) = BitOf(b, j)
        <5>1. PICK bytes \in Seq(Byte), more \in {packed'} : bytes = packed /\ more = packed'
          BY <1>1
        <5>2. more = Append(bytes, b)
          BY <4>2, <5>1
        <5>3. /\ \A i \in 0..(8 * Len(bytes) - 1) : BitIn(more, i) = BitIn(bytes, i)
              /\ \A j \in 0..7 : BitIn(more, 8 * Len(bytes) + 7 - j) = BitOf(b, j)
          BY <4>3, <5>2, BitsOfMore
        <5> QED
          BY <5>1, <5>3
      <4>6. CASE k < 8 * Len(packed)
        <5>1. k \in 0..(8 * Len(packed) - 1)
          BY <1>1, <4>6
        <5> QED
          BY <1>4, <4>5, <5>1
      <4>7. CASE k >= 8 * Len(packed)
        <5>1. PICK j \in 0..(bitCount - 1) : k = 8 * Len(packed) + bitCount - 1 - j
          <6>1. 8 * Len(packed) + bitCount - 1 - k \in 0..(bitCount - 1)
            BY <1>1, <2>3, <4>7
          <6>2. k = 8 * Len(packed) + bitCount - 1 - (8 * Len(packed) + bitCount - 1 - k)
            BY <1>1
          <6> QED
            BY <6>1, <6>2
        <5>2. (8 - bitCount) + j \in 0..7 /\ k = 8 * Len(packed) + 7 - ((8 - bitCount) + j)
          BY <1>1, <2>1, <5>1
        <5>3. BitIn(packed', k) = BitOf(bitBuffer, j)
          BY <4>4, <4>5, <5>2
        <5>4. 6 * position - 1 - j = k
          BY <1>1, <2>1, <2>3, <5>1
        <5> QED
          BY <1>4, <5>3, <5>4
      <4> QED
        BY <1>1, <4>6, <4>7
    <3> QED
      BY <2>1, <3>1, <3>2
  <2>5. TextPacked'
    BY <2>1, <2>2, <2>4 DEF TextPacked
  <2> QED
    BY <2>1, <2>5 DEF BitsInv, Packing, Packed, Unpacking
<1> QED
  BY <1>5, <1>6, <1>7

\* A byte is taken, a character leaves, the last one has been found.
LEMMA DecoderKeepsBits ==
    ASSUME WireInv, BitsInv, ReadByte \/ DecodeChar \/ DecodeEnds, UNCHANGED <<frame, fields>>
    PROVE  BitsInv'
<1>1. /\ packed \in Seq(Byte) /\ Len(packed) \in Nat /\ position \in Nat /\ bitCount \in 0..13
      /\ decoded \in Seq(Codes) /\ Len(decoded) \in Nat /\ charCount \in Nat
      /\ bitBuffer \in 0..(PowerOfTwo(bitCount) - 1)
  BY DEF WireInv, WireTypeOK, BitsBounded, Byte
<1>2. bitBuffer \in Nat
  <2>1. PowerOfTwo(bitCount) \in Nat \ {0}
    BY <1>1, PowersPositive
  <2> QED
    BY <1>1, <2>1
<1>3. phase = "decode"
  BY DEF ReadByte, DecodeChar, DecodeEnds
<1>4. /\ \A i \in 1..Len(decoded) : decoded[i] = CodeOf(packed, i)
      /\ \A j \in 0..(bitCount - 1) : BitOf(bitBuffer, j) = BitIn(packed, 8 * position - 1 - j)
  BY <1>3 DEF BitsInv, Unpacking
<1>5. bitCount = 8 * position - 6 * Len(decoded)
  BY <1>3 DEF WireInv, Decoding
<1>6. text # <<>> => TextPacked
  BY <1>3 DEF BitsInv, Packed
<1>7. UNCHANGED <<text, packed, charCount>>
  BY DEF ReadByte, DecodeChar, DecodeEnds
<1>8. Packing' /\ Packed'
  <2>1. phase' \in {"decode", "RangeError", "parsed"}
    BY <1>3 DEF ReadByte, DecodeChar, DecodeEnds
  <2>2. text' # <<>> => TextPacked'
    BY <1>6, <1>7 DEF TextPacked
  <2> QED
    BY <2>1, <2>2 DEF Packing, Packed
<1>9. CASE ReadByte
  <2>1. CASE position < Len(packed)
    <3>1. /\ bitBuffer' = ShiftLeft(bitBuffer, 8) + packed[position + 1]
          /\ bitCount' = bitCount + 8 /\ position' = position + 1
          /\ UNCHANGED <<decoded, phase>> /\ bitCount \in 0..5
      BY <1>1, <1>9, <2>1 DEF ReadByte
    <3>2. packed[position + 1] \in Byte
      BY <1>1, <2>1
    <3>3. PICK y \in Nat : y = bitBuffer'
      <4>1. ShiftLeft(bitBuffer, 8) \in Nat
        BY <1>2, Powers DEF ShiftLeft
      <4>2. packed[position + 1] \in Nat
        BY <3>2 DEF Byte
      <4> QED
        BY <3>1, <4>1, <4>2
    <3>4. \A j \in 0..(bitCount + 7) : BitOf(y, j) = BitIn(packed, 8 * (position + 1) - 1 - j)
      <4>1. PICK x \in Nat, n \in 0..5, p \in Nat, bytes \in {packed} :
               x = bitBuffer /\ n = bitCount /\ p = position /\ bytes = packed
        BY <1>1, <1>2, <3>1
      <4>2. /\ bytes[p + 1] \in Byte /\ y = ShiftLeft(x, 8) + bytes[p + 1]
            /\ \A j \in 0..(n - 1) : BitOf(x, j) = BitIn(bytes, 8 * p - 1 - j)
        BY <1>4, <3>1, <3>2, <3>3, <4>1
      <4>3. \A j \in 0..(n + 7) : BitOf(y, j) = BitIn(bytes, 8 * (p + 1) - 1 - j)
        BY <4>2, ByteTaken
      <4> QED
        BY <4>1, <4>3
    <3>5. \A j \in 0..(bitCount' - 1) : BitOf(bitBuffer', j) = BitIn(packed', 8 * position' - 1 - j)
      <4>1. bitCount' - 1 = bitCount + 7
        BY <1>1, <3>1
      <4> QED
        BY <1>7, <3>1, <3>3, <3>4, <4>1
    <3>6. Unpacking'
      BY <1>3, <1>4, <1>7, <3>1, <3>5 DEF Unpacking
    <3> QED
      BY <1>8, <3>6 DEF BitsInv
  <2>2. CASE ~(position < Len(packed))
    <3>1. phase' = "RangeError"
      BY <1>9, <2>2 DEF ReadByte
    <3> QED
      BY <1>8, <3>1 DEF BitsInv, Unpacking
  <2> QED
    BY <2>1, <2>2
<1>10. CASE DecodeChar
  <2>1. PICK s \in 0..7 : bitCount = s + 6
    BY <1>1, <1>10 DEF DecodeChar
  <2>2. bitCount - 6 = s
    BY <2>1
  <2>3. PICK c : c = LowBits(ShiftRight(bitBuffer, s), 6)
    OBVIOUS
  <2>4. /\ decoded' = Append(decoded, c)
        /\ bitBuffer' = LowBits(bitBuffer, s) /\ bitCount' = s
        /\ UNCHANGED <<position, phase>>
    BY <1>10, <2>2, <2>3 DEF DecodeChar
  <2>5. c \in Codes
    <3>1. s \in 0..13
      OBVIOUS
    <3>2. ShiftRight(bitBuffer, s) \in Nat
      BY <1>2, <3>1, KeptIsNat
    <3> QED
      BY <2>3, <3>2, OneByte
  <2>6. /\ \A j \in 0..5 : BitOf(c, j) = BitOf(bitBuffer, s + j)
        /\ \A j \in 0..(s - 1) : BitOf(bitBuffer', j) = BitOf(bitBuffer, j)
    <3>1. PICK x \in Nat : x = bitBuffer
      BY <1>2
    <3>2. PICK w \in {6, 8} : w = 6
      OBVIOUS
    <3>3. s \in 0..7 /\ s + w <= 13
      BY <3>2
    <3>4. /\ \A j \in 0..(w - 1) : BitOf(LowBits(ShiftRight(x, s), w), j) = BitOf(x, s + j)
          /\ \A j \in 0..(s - 1) : BitOf(LowBits(x, s), j) = BitOf(x, j)
      BY <3>3, TopLeaves
    <3>5. w - 1 = 5
      BY <3>2
    <3> QED
      BY <2>3, <2>4, <3>1, <3>2, <3>4, <3>5
  <2>7. PICK p \in Nat : p = Len(decoded)
    BY <1>1
  <2>8. ASSUME NEW j \in 0..5 PROVE BitOf(c, j) = BitIn(packed, 6 * p + 5 - j)
    <3>1. s + j \in 0..(bitCount - 1) /\ 8 * position - 1 - (s + j) = 6 * p + 5 - j
      BY <1>1, <1>5, <2>1, <2>7
    <3> QED
      BY <1>4, <2>6, <3>1
  <2>9. c = CodeOf(packed, p + 1)
    BY <2>5, <2>8, CodeFromBits
  <2>10. \A i \in 1..Len(decoded') : decoded'[i] = CodeOf(packed, i)
    <3> TAKE i \in 1..Len(decoded')
    <3>1. /\ i \in 1..Len(decoded) => decoded'[i] = decoded[i]
          /\ decoded'[p + 1] = c
          /\ i \in 1..Len(decoded) \/ i = p + 1
      BY <1>1, <2>4, <2>5, <2>7
    <3> QED
      BY <1>4, <2>9, <3>1
  <2>11. ASSUME NEW j \in 0..(s - 1)
         PROVE  BitOf(bitBuffer', j) = BitIn(packed, 8 * position - 1 - j)
    <3>1. j \in 0..(bitCount - 1)
      BY <2>1
    <3> QED
      BY <1>4, <2>6, <3>1
  <2>12. Unpacking'
    BY <1>3, <1>7, <2>4, <2>10, <2>11 DEF Unpacking
  <2> QED
    BY <1>8, <2>12 DEF BitsInv
<1>11. CASE DecodeEnds
  <2>1. Len(decoded) = charCount /\ decoded' = decoded /\ phase' = "parsed"
    BY <1>11 DEF DecodeEnds
  <2>2. Unpacking'
    BY <1>4, <1>7, <2>1 DEF Unpacking
  <2> QED
    BY <1>8, <2>2 DEF BitsInv
<1> QED
  BY <1>9, <1>10, <1>11

\* One sequence after another.
IsJoin(a, b, c) ==
    /\ Len(c) = Len(a) + Len(b)
    /\ \A i \in 1..Len(a) : c[i] = a[i]
    /\ \A i \in 1..Len(b) : c[Len(a) + i] = b[i]

LEMMA Joined ==
    ASSUME NEW S, NEW a \in Seq(S), NEW b \in Seq(S)
    PROVE  a \o b \in Seq(S) /\ IsJoin(a, b, a \o b)
<1> DEFINE c == a \o b
<1>1. Len(a) \in Nat /\ Len(b) \in Nat
  OBVIOUS
<1>2. c \in Seq(S) /\ Len(c) = Len(a) + Len(b)
  OBVIOUS
<1>3. ASSUME NEW i \in 1..Len(a) PROVE c[i] = a[i]
  OBVIOUS
<1>4. ASSUME NEW i \in 1..Len(b) PROVE c[Len(a) + i] = b[i]
  BY <1>1
<1> HIDE DEF c
<1>5. c \in Seq(S) /\ IsJoin(a, b, c)
  BY <1>2, <1>3, <1>4 DEF IsJoin
<1> QED
  BY <1>5 DEF c

\* The parts of a signed message, one after another.
IsMessage(f, op, count, pairs, signature) ==
    /\ Len(f) = 14 + Len(pairs) + Len(signature)
    /\ f[1] = op[1] /\ f[14] = count[1]
    /\ \A i \in 1..Len(pairs) : f[14 + i] = pairs[i]

LEMMA PartsJoined ==
    ASSUME NEW S, NEW op \in Seq(S), NEW to \in Seq(S), NEW nonce \in Seq(S),
           NEW count \in Seq(S), NEW pairs \in Seq(S), NEW signature \in Seq(S),
           Len(op) = 1, Len(to) = 8, Len(nonce) = 4, Len(count) = 1,
           NEW f, f = (op \o to \o nonce \o count \o pairs) \o signature
    PROVE  f \in Seq(S) /\ IsMessage(f, op, count, pairs, signature)
<1>1. PICK a : a = op \o to
  OBVIOUS
<1>2. a \in Seq(S) /\ IsJoin(op, to, a)
  BY <1>1, Joined
<1>3. PICK b : b = a \o nonce
  OBVIOUS
<1>4. b \in Seq(S) /\ IsJoin(a, nonce, b)
  BY <1>2, <1>3, Joined
<1>5. PICK c : c = b \o count
  OBVIOUS
<1>6. c \in Seq(S) /\ IsJoin(b, count, c)
  BY <1>4, <1>5, Joined
<1>7. PICK g : g = c \o pairs
  OBVIOUS
<1>8. g \in Seq(S) /\ IsJoin(c, pairs, g)
  BY <1>6, <1>7, Joined
<1>9. f = g \o signature
  BY <1>1, <1>3, <1>5, <1>7
<1>10. f \in Seq(S) /\ IsJoin(g, signature, f)
  BY <1>8, <1>9, Joined
<1>11. Len(a) = 9 /\ a[1] = op[1]
  BY <1>2 DEF IsJoin
<1>12. Len(b) = 13 /\ b[1] = op[1]
  BY <1>4, <1>11 DEF IsJoin
<1>13. Len(c) = 14 /\ c[1] = op[1] /\ c[13 + 1] = count[1]
  BY <1>6, <1>12 DEF IsJoin
<1>14. /\ Len(g) = 14 + Len(pairs) /\ g[1] = op[1] /\ g[14] = count[1]
       /\ \A i \in 1..Len(pairs) : g[14 + i] = pairs[i] /\ Len(pairs) \in Nat
  BY <1>8, <1>13, SMTT(40) DEF IsJoin
<1>15. ASSUME NEW i \in 1..Len(pairs) PROVE f[14 + i] = pairs[i]
  <2>1. 14 + i \in 1..Len(g)
    BY <1>14
  <2> QED
    BY <1>10, <1>14, <2>1 DEF IsJoin
<1>16. Len(f) = 14 + Len(pairs) + Len(signature) /\ f[1] = op[1] /\ f[14] = count[1]
  <2>1. 1 \in 1..Len(g) /\ 14 \in 1..Len(g)
    BY <1>14
  <2> QED
    BY <1>10, <1>14, <2>1 DEF IsJoin
<1> QED
  BY <1>10, <1>15, <1>16 DEF IsMessage

\* A signed message has its operation code, its count of characters and its
\* packed bytes where parsePayload looks for them.
LEMMA MessageCut ==
    ASSUME NEW n \in Byte, NEW bytes \in Seq(Byte)
    PROVE  LET f == BuildMessage(n, bytes)
               cut == Slice(f, 14, Len(f) - SignatureLength)
           IN /\ f[1][2] = 4 /\ f[14][2] = n
              /\ [i \in 1..Len(cut) |-> cut[i][2]] = bytes
<1> DEFINE op == <<<<"op", 4>>>>
           to == Field("recipientDeviceId", 0, 8)
           nonce == Field("nonce", 0, 4)
           count == <<<<"messageLength", n>>>>
           pairs == [i \in 1..Len(bytes) |-> <<"messagePacked", bytes[i]>>]
           signature == Field("signature", 0, SignatureLength)
           f == BuildMessage(n, bytes)
           cut == Slice(f, 14, Len(f) - SignatureLength)
<1>1. /\ op \in Seq(WireByte) /\ Len(op) = 1 /\ op[1] = <<"op", 4>>
      /\ count \in Seq(WireByte) /\ Len(count) = 1 /\ count[1] = <<"messageLength", n>>
  <2>1. "op" \in FieldNames /\ "messageLength" \in FieldNames /\ 4 \in Byte
    BY DEF FieldNames, Byte
  <2>2. <<"op", 4>> \in WireByte /\ <<"messageLength", n>> \in WireByte
    BY <2>1 DEF WireByte
  <2> QED
    BY <2>2
<1>2. to \in Seq(WireByte) /\ Len(to) = 8 /\ nonce \in Seq(WireByte) /\ Len(nonce) = 4
  <2>1. to \in Seq(WireByte) /\ nonce \in Seq(WireByte)
    BY FieldIsBytes, SMTT(40) DEF FieldNames
  <2>2. Len(to) = 8 /\ Len(nonce) = 4
    BY DEF Field
  <2> QED
    BY <2>1, <2>2
<1>3. signature \in Seq(WireByte) /\ Len(signature) = SignatureLength /\ SignatureLength \in Nat
  <2>1. SignatureLength \in Nat /\ 0 + SignatureLength <= 256 /\ "signature" \in FieldNames
    BY ParserAssumption DEF FieldNames
  <2>2. signature \in Seq(WireByte)
    BY <2>1, FieldIsBytes
  <2>3. Len(signature) = SignatureLength
    BY <2>1 DEF Field
  <2> QED
    BY <2>1, <2>2, <2>3
<1>4. pairs \in Seq(WireByte) /\ Len(pairs) = Len(bytes) /\ Len(bytes) \in Nat
  BY DEF WireByte, FieldNames
<1>5. f = (op \o to \o nonce \o count \o pairs) \o signature
  BY DEF BuildMessage, Signed
<1> HIDE DEF op, to, nonce, count, pairs, signature, f, cut
<1>6. /\ f \in Seq(WireByte) /\ Len(f) = 14 + Len(pairs) + Len(signature)
      /\ f[1] = op[1] /\ f[14] = count[1]
      /\ \A i \in 1..Len(pairs) : f[14 + i] = pairs[i]
  <2>1. f \in Seq(WireByte) /\ IsMessage(f, op, count, pairs, signature)
    BY <1>1, <1>2, <1>3, <1>4, <1>5, PartsJoined
  <2> QED
    BY <2>1 DEF IsMessage
<1>7. f[1][2] = 4 /\ f[14][2] = n
  BY <1>1, <1>6
<1>8. Len(cut) = Len(bytes) /\ \A i \in 1..Len(bytes) : cut[i] = f[14 + i]
  <2>1. PICK last \in Nat : last = 14 + Len(bytes)
    BY <1>4
  <2>2. Len(f) = last + SignatureLength /\ 14 <= last
    BY <1>3, <1>4, <1>6, <2>1
  <2>3. cut = SubSeq(f, 15, last)
    <3>1. Len(f) - SignatureLength = last /\ 14 + 1 = 15
      BY <1>3, <2>2
    <3> QED
      BY <3>1 DEF Slice, cut
  <2>4. \A i \in 15..last : f[i] \in WireByte
    BY <1>3, <1>6, <2>2
  <2>5. 15 \in Int /\ last \in Int /\ 15 <= last + 1
    BY <2>2
  <2>6. Len(SubSeq(f, 15, last)) = last - 15 + 1
    BY <2>4, <2>5, SubSeqProperties
  <2>7. \A i \in 1..(last - 15 + 1) : SubSeq(f, 15, last)[i] = f[15 + i - 1]
    BY <2>4, <2>5, SubSeqProperties
  <2> QED
    BY <1>4, <2>1, <2>3, <2>6, <2>7
<1>9. ASSUME NEW i \in 1..Len(bytes) PROVE cut[i][2] = bytes[i]
  <2>1. pairs[i] = <<"messagePacked", bytes[i]>>
    BY DEF pairs
  <2>2. cut[i] = pairs[i]
    BY <1>4, <1>6, <1>8
  <2> QED
    BY <2>1, <2>2
<1>10. [i \in 1..Len(cut) |-> cut[i][2]] = bytes
  BY <1>8, <1>9
<1> QED
  BY <1>7, <1>10 DEF cut, f

\* Sending a message and cutting a payload into its fields.
LEMMA ParserKeepsBits ==
    ASSUME WireInv, BitsInv, SendMessage \/ Malformed \/ ParseFields \/ ParseMessage
    PROVE  BitsInv'
<1>1. /\ packed \in Seq(Byte) /\ charCount \in Byte /\ frame \in Seq(WireByte)
  BY DEF WireInv, WireTypeOK
<1>2. CASE SendMessage
  <2>1. /\ phase = "encoded" /\ phase' = "parse" /\ frame' = BuildMessage(charCount, packed)
        /\ UNCHANGED <<text, packed, charCount>>
    BY <1>2 DEF SendMessage
  <2>2. text # <<>> => TextPacked
    BY <2>1 DEF BitsInv, Packed
  <2>3. frame' = BuildMessage(charCount', packed')
    BY <2>1
  <2>4. text' # <<>> => TextPacked'
    BY <2>1, <2>2 DEF TextPacked
  <2> QED
    BY <2>1, <2>3, <2>4 DEF BitsInv, Packing, Packed, Unpacking
<1>3. CASE Malformed
  <2>1. phase' = "malformed"
    BY <1>3 DEF Malformed
  <2> QED
    BY <2>1 DEF BitsInv, Packing, Packed, Unpacking
<1>4. CASE ParseFields
  <2>1. /\ phase = "parse" /\ phase' = "parsed" /\ frame' = frame /\ frame[1][2] # 4
        /\ UNCHANGED <<text, packed, charCount>>
    BY <1>4 DEF ParseFields
  <2>2. text' # <<>> => TextPacked'
    BY <2>1 DEF BitsInv, Packed, TextPacked
  <2> QED
    BY <2>1, <2>2 DEF BitsInv, Packing, Packed, Unpacking
<1>5. CASE ParseMessage
  <2> DEFINE bytes == Slice(frame, 14, Len(frame) - SignatureLength)
             values == [i \in 1..Len(bytes) |-> bytes[i][2]]
  <2>1. Len(values) = PackedByteLength(frame[14][2]) /\ frame[14][2] \in 1..255
    BY <1>1, <1>5, PackedOfMessage DEF ParseMessage
  <2>2. phase = "parse" /\ StartDecode(values, frame[14][2]) /\ text' = text
    BY <1>5 DEF ParseMessage
  <2>3. ASSUME text # <<>>
        PROVE  TextPacked /\ frame[14][2] = charCount /\ values = packed
    <3>1. TextPacked /\ frame = BuildMessage(charCount, packed)
      BY <2>2, <2>3 DEF BitsInv, Packed
    <3>2. PICK n \in Byte, sent \in Seq(Byte), f \in {frame} :
             f = frame /\ n = charCount /\ sent = packed
      BY <1>1
    <3>3. f = BuildMessage(n, sent)
      BY <3>1, <3>2
    <3>4. f[14][2] = n
      BY <3>3, MessageCut
    <3>5. LET cut == Slice(f, 14, Len(f) - SignatureLength)
          IN  [i \in 1..Len(cut) |-> cut[i][2]] = sent
      BY <3>3, MessageCut
    <3> QED
      BY <3>1, <3>2, <3>4, <3>5
  <2> HIDE DEF values
  <2>4. PICK n \in 1..255 : frame[14][2] = n
    BY <2>1
  <2>5. StartDecode(values, n) /\ n > 0 /\ Len(values) = PackedByteLength(n)
    <3>1. PackedByteLength(frame[14][2]) = PackedByteLength(n)
      BY <2>4 DEF PackedByteLength
    <3> QED
      BY <2>1, <2>2, <2>4, <3>1
  <2>6. /\ packed' = values /\ charCount' = n /\ decoded' = <<>>
        /\ bitCount' = 0 /\ phase' = "decode"
    BY <2>5 DEF StartDecode
  <2>7. text' # <<>> => TextPacked'
    <3>1. ASSUME text # <<>> PROVE TextPacked'
      <4>1. TextPacked /\ packed' = packed /\ charCount' = charCount
        BY <2>3, <2>4, <2>6, <3>1
      <4> QED
        BY <2>2, <4>1 DEF TextPacked
    <3> QED
      BY <2>2, <3>1
  <2>8. Unpacking'
    <3>1. 1..0 = {} /\ 0..(0 - 1) = {} /\ Len(decoded') = 0
      BY <2>6
    <3> QED
      BY <2>6, <3>1 DEF Unpacking
  <2> QED
    BY <2>6, <2>7, <2>8 DEF BitsInv, Packing, Packed
<1> QED
  BY <1>2, <1>3, <1>4, <1>5

LEMMA BitsInvStep == WireInv /\ BitsInv /\ [Next]_wireVars => BitsInv'
<1> SUFFICES ASSUME WireInv, BitsInv, [Next]_wireVars PROVE BitsInv'
  OBVIOUS
<1>1. CASE CodecStep
  BY <1>1, EncoderKeepsBits, DecoderKeepsBits DEF CodecStep
<1>2. CASE SendMessage \/ Malformed \/ ParseFields \/ ParseMessage
  BY <1>2, ParserKeepsBits
<1>3. CASE UNCHANGED wireVars
  <2>1. UNCHANGED <<text, packed, charCount, decoded, position, bitBuffer, bitCount, phase, frame>>
    BY <1>3 DEF wireVars
  <2>2. Packing' /\ Unpacking'
    BY <2>1 DEF BitsInv, Packing, Unpacking
  <2>3. TextPacked' = TextPacked
    BY <2>1 DEF TextPacked
  <2>4. Packed'
    BY <2>1, <2>3 DEF BitsInv, Packed
  <2> QED
    BY <2>2, <2>4 DEF BitsInv
<1> QED
  BY <1>1, <1>2, <1>3 DEF Next

LEMMA BitsInvAlways == Spec => []BitsInv
BY BitsInvInit, BitsInvStep, WireInvAlways, PTL DEF Spec

\* A text that is sent comes back, because each of its characters is the six
\* bits its bytes have for it.
LEMMA BitsAreTheText == WireInv /\ BitsInv => RoundTrip
<1> SUFFICES ASSUME WireInv, BitsInv, phase = "parsed", frame[1][2] = 4
             PROVE  /\ Len(decoded) = charCount
                    /\ \A i \in 1..charCount : decoded[i] = CodeAt(i)
                    /\ text # <<>> => decoded = text
  BY DEF RoundTrip
<1>1. /\ Len(decoded) = charCount /\ decoded \in Seq(Codes)
      /\ \A i \in 1..Len(decoded) : decoded[i] = CodeOf(packed, i)
  BY DEF WireInv, WireTypeOK, BitsInv, Unpacking
<1>2. \A i \in 1..charCount : decoded[i] = CodeAt(i)
  <2> TAKE i \in 1..charCount
  <2>1. i \in Nat /\ i \in 1..Len(decoded)
    BY <1>1
  <2> QED
    BY <1>1, <2>1, CodeAtIs
<1>3. ASSUME text # <<>> PROVE decoded = text
  <2>1. TextPacked
    BY <1>3 DEF BitsInv, Packed
  <2>2. PICK t \in Seq(Codes), bytes \in {packed} : t = text /\ bytes = packed
    BY <2>1 DEF TextPacked
  <2>3. \A k \in 0..(6 * Len(t) - 1) : BitIn(bytes, k) = CodeBit(t, k)
    BY <2>1, <2>2 DEF TextPacked
  <2>4. \A i \in 1..Len(t) : t[i] = CodeOf(bytes, i)
    BY <2>3, TextFromBits
  <2>5. Len(t) = Len(decoded)
    BY <1>1, <2>1, <2>2 DEF TextPacked
  <2>6. \A i \in 1..Len(decoded) : decoded[i] = t[i]
    BY <1>1, <2>2, <2>4, <2>5
  <2> QED
    BY <1>1, <2>2, <2>5, <2>6, SeqEqual
<1> QED
  BY <1>1, <1>2, <1>3

-----------------------------------------------------------------------------

\* Whatever is sent and whatever arrives, each character found is the six bits
\* that belong to it, and a text that was encoded, sent and parsed comes back.
THEOREM TextComesBack == Spec => []RoundTrip
BY BitsAreTheText, WireInvAlways, BitsInvAlways, PTL

-----------------------------------------------------------------------------
\* Fields, where they are written.

\* The bytes of f written for `name` are those from offset `from` up to `to`.
Has(f, name, from, to) ==
    /\ from \in Nat /\ to \in from..Len(f)
    /\ \A i \in 1..Len(f) : f[i][1] = name <=> i \in (from + 1)..to

Names(f) == {f[i][1] : i \in 1..Len(f)}

\* g is f and, behind it, the bytes of one more field.
IsExtended(f, name, n, g) ==
    /\ g \in Seq(WireByte) /\ Len(g) = Len(f) + n
    /\ \A i \in 1..Len(f) : g[i] = f[i]
    /\ Names(g) = Names(f) \cup {name}
    /\ Has(g, name, Len(f), Len(g))
    /\ \A other, from, to : other # name /\ Has(f, other, from, to) => Has(g, other, from, to)

LEMMA Extended ==
    ASSUME NEW f \in Seq(WireByte), NEW part \in Seq(WireByte), NEW name,
           name \notin Names(f), Len(part) > 0,
           \A i \in 1..Len(part) : part[i][1] = name
    PROVE  IsExtended(f, name, Len(part), f \o part)
<1>1. PICK g : g = f \o part
  OBVIOUS
<1>2. g \in Seq(WireByte) /\ IsJoin(f, part, g)
  BY <1>1, Joined
<1>3. Len(f) \in Nat /\ Len(part) \in Nat /\ Len(g) = Len(f) + Len(part)
  BY <1>2 DEF IsJoin
<1>4. \A i \in 1..Len(f) : g[i] = f[i]
  BY <1>2 DEF IsJoin
<1>5. ASSUME NEW i \in 1..Len(g), ~(i <= Len(f)) PROVE g[i][1] = name
  <2>1. PICK k \in Int : k = i - Len(f)
    BY <1>3
  <2>2. k \in 1..Len(part) /\ i = Len(f) + k
    BY <1>3, <1>5, <2>1
  <2> QED
    BY <1>2, <2>2 DEF IsJoin
<1>6. ASSUME NEW i \in 1..Len(f) PROVE i \in 1..Len(g) /\ g[i][1] # name
  BY <1>3, <1>4 DEF Names
<1>7. Names(g) = Names(f) \cup {name}
  <2>1. \A i \in 1..Len(g) : i \in 1..Len(f) \/ ~(i <= Len(f))
    BY <1>3
  <2>2. Names(g) \subseteq Names(f) \cup {name}
    BY <1>4, <1>5, <2>1 DEF Names
  <2>3. Names(f) \subseteq Names(g)
    BY <1>4, <1>6 DEF Names
  <2>4. Len(g) \in 1..Len(g) /\ ~(Len(g) <= Len(f))
    BY <1>3
  <2>5. name \in Names(g)
    BY <1>5, <2>4 DEF Names
  <2> QED
    BY <2>2, <2>3, <2>5
<1>8. Has(g, name, Len(f), Len(g))
  <2>1. ASSUME NEW i \in 1..Len(g) PROVE g[i][1] = name <=> i \in (Len(f) + 1)..Len(g)
    <3>1. CASE i <= Len(f)
      <4>1. i \in 1..Len(f) /\ ~(i \in (Len(f) + 1)..Len(g))
        BY <1>3, <3>1
      <4> QED
        BY <1>6, <4>1
    <3>2. CASE ~(i <= Len(f))
      <4>1. i \in (Len(f) + 1)..Len(g)
        BY <1>3, <3>2
      <4> QED
        BY <1>5, <3>2, <4>1
    <3> QED
      BY <3>1, <3>2
  <2>2. Len(f) \in Nat /\ Len(g) \in Len(f)..Len(g)
    BY <1>3
  <2> QED
    BY <2>1, <2>2 DEF Has
<1>9. ASSUME NEW other, NEW from, NEW to, other # name, Has(f, other, from, to)
      PROVE  Has(g, other, from, to)
  <2>1. from \in Nat /\ to \in from..Len(f) /\ to \in Nat
    BY <1>3, <1>9 DEF Has
  <2>2. ASSUME NEW i \in 1..Len(g) PROVE g[i][1] = other <=> i \in (from + 1)..to
    <3>1. CASE i <= Len(f)
      <4>1. i \in 1..Len(f)
        BY <1>3, <3>1
      <4> QED
        BY <1>4, <1>9, <4>1 DEF Has
    <3>2. CASE ~(i <= Len(f))
      <4>1. ~(i \in (from + 1)..to)
        BY <1>3, <2>1, <3>2
      <4> QED
        BY <1>5, <1>9, <3>2, <4>1
    <3> QED
      BY <3>1, <3>2
  <2>3. to \in from..Len(g)
    BY <1>3, <2>1
  <2> QED
    BY <2>1, <2>2, <2>3 DEF Has
<1> QED
  BY <1>1, <1>2, <1>3, <1>4, <1>7, <1>8, <1>9 DEF IsExtended

\* A field of consecutive values.
LEMMA FieldWritten ==
    ASSUME NEW name \in FieldNames, NEW first \in Nat, NEW n \in Nat, first + n <= 256
    PROVE  /\ Field(name, first, n) \in Seq(WireByte) /\ Len(Field(name, first, n)) = n
           /\ \A i \in 1..n : /\ Field(name, first, n)[i][1] = name
                              /\ Field(name, first, n)[i][2] = first + i - 1
<1>1. Field(name, first, n) \in Seq(WireByte)
  BY FieldIsBytes
<1>2. Len(Field(name, first, n)) = n
  BY DEF Field
<1>3. \A i \in 1..n : Field(name, first, n)[i] = <<name, first + i - 1>>
  BY DEF Field
<1> QED
  BY <1>1, <1>2, <1>3

LEMMA FieldExtends ==
    ASSUME NEW f \in Seq(WireByte), NEW name \in FieldNames, name \notin Names(f),
           NEW first \in Nat, NEW n \in Nat \ {0}, first + n <= 256
    PROVE  IsExtended(f, name, n, f \o Field(name, first, n))
<1>1. PICK part : part = Field(name, first, n)
  OBVIOUS
<1>2. part \in Seq(WireByte) /\ Len(part) = n /\ \A i \in 1..n : part[i][1] = name
  BY <1>1, FieldWritten
<1> QED
  BY <1>1, <1>2, Extended
\* f is a payload of the operation `code` with the fields of L, each where L
\* says, and no others.
Cut(f, code, L) ==
    /\ f \in Seq(WireByte) /\ Len(f) > 0 /\ f[1] = <<"op", code>>
    /\ Names(f) = {"op"} \cup {l[1] : l \in L}
    /\ \A l \in L : Has(f, l[1], l[2], l[3])

\* The second to the fifth byte are capital letters.
Lettered(f) == Len(f) >= 5 /\ \A i \in 2..5 : f[i][2] \in 65..68

\* A payload begins with its operation code.
LEMMA OpAlone ==
    ASSUME NEW code \in Byte, NEW f, f = <<<<"op", code>>>>
    PROVE  Cut(f, code, {}) /\ Len(f) = 1
<1>1. <<"op", code>> \in WireByte
  BY DEF WireByte, FieldNames
<1>2. f \in Seq(WireByte) /\ Len(f) = 1 /\ f[1] = <<"op", code>>
  BY <1>1
<1>3. Names(f) = {"op"}
  <2>1. Names(f) = {f[1][1]}
    BY <1>2 DEF Names
  <2> QED
    BY <1>2, <2>1
<1> QED
  BY <1>2, <1>3 DEF Cut

\* Another field behind those there are.
LEMMA PartCut ==
    ASSUME NEW f, NEW code, NEW L, Cut(f, code, L), NEW name, NEW n \in Nat \ {0}, NEW g,
           IsExtended(f, name, n, g), \A l \in L : l[1] # name
    PROVE  Cut(g, code, L \cup {<<name, Len(f), Len(f) + n>>})
<1>1. f \in Seq(WireByte) /\ Len(f) \in Nat /\ Len(f) > 0 /\ f[1] = <<"op", code>>
  BY DEF Cut
<1>2. g \in Seq(WireByte) /\ Len(g) = Len(f) + n /\ \A i \in 1..Len(f) : g[i] = f[i]
  BY DEF IsExtended
<1>3. Len(g) > 0 /\ g[1] = <<"op", code>>
  BY <1>1, <1>2
<1>4. PICK new : new = <<name, Len(f), Len(f) + n>>
  OBVIOUS
<1>5. new[1] = name /\ Has(g, new[1], new[2], new[3])
  BY <1>2, <1>4 DEF IsExtended
<1>6. \A l \in L : Has(g, l[1], l[2], l[3])
  BY DEF Cut, IsExtended
<1>7. Names(g) = {"op"} \cup {l[1] : l \in L \cup {new}}
  <2>1. Names(g) = ({"op"} \cup {l[1] : l \in L}) \cup {name}
    BY DEF Cut, IsExtended
  <2>2. {l[1] : l \in L \cup {new}} = {l[1] : l \in L} \cup {name}
    BY <1>5
  <2> QED
    BY <2>1, <2>2
<1>8. Cut(g, code, L \cup {new})
  BY <1>2, <1>3, <1>5, <1>6, <1>7 DEF Cut
<1> QED
  BY <1>4, <1>8

LEMMA CutExtended ==
    ASSUME NEW f, NEW code, NEW L, Cut(f, code, L),
           NEW name \in FieldNames, name # "op", \A l \in L : l[1] # name,
           NEW first \in Nat, NEW n \in Nat \ {0}, first + n <= 256
    PROVE  Cut(f \o Field(name, first, n), code, L \cup {<<name, Len(f), Len(f) + n>>})
<1>1. f \in Seq(WireByte) /\ name \notin Names(f)
  BY DEF Cut
<1>2. IsExtended(f, name, n, f \o Field(name, first, n))
  BY <1>1, FieldExtends
<1> QED
  BY <1>2, PartCut

LEMMA LenExtended ==
    ASSUME NEW f \in Seq(WireByte),
           NEW name \in FieldNames, NEW first \in Nat, NEW n \in Nat, first + n <= 256
    PROVE  Len(f \o Field(name, first, n)) = Len(f) + n
<1>1. PICK part : part = Field(name, first, n)
  OBVIOUS
<1>2. part \in Seq(WireByte) /\ Len(part) = n
  BY <1>1, FieldWritten
<1>3. IsJoin(f, part, f \o part)
  BY <1>2, Joined
<1> QED
  BY <1>1, <1>2, <1>3 DEF IsJoin

\* The letters stay where they are.
LEMMA LettersStay ==
    ASSUME NEW f \in Seq(WireByte), Lettered(f),
           NEW name \in FieldNames, NEW first \in Nat, NEW n \in Nat, first + n <= 256
    PROVE  Lettered(f \o Field(name, first, n))
<1>1. PICK part : part = Field(name, first, n)
  OBVIOUS
<1>2. part \in Seq(WireByte) /\ Len(part) = n
  BY <1>1, FieldWritten
<1>3. IsJoin(f, part, f \o part)
  BY <1>2, Joined
<1>4. PICK g : g = f \o part
  OBVIOUS
<1>5. Len(f) \in Nat /\ Len(f) >= 5 /\ \A i \in 2..5 : f[i][2] \in 65..68
  BY DEF Lettered
<1>6. Len(g) >= 5
  BY <1>2, <1>3, <1>4, <1>5 DEF IsJoin
<1>7. \A i \in 2..5 : i \in 1..Len(f)
  BY <1>5
<1>8. \A i \in 2..5 : g[i][2] \in 65..68
  BY <1>3, <1>4, <1>5, <1>7 DEF IsJoin
<1> QED
  BY <1>1, <1>4, <1>6, <1>8 DEF Lettered

\* The letters of a ticker.
LEMMA TickWritten ==
    ASSUME NEW a \in Seq(WireByte), Len(a) = 1, NEW f, f = a \o Field("tick", 65, 4)
    PROVE  Lettered(f)
<1>1. PICK part : part = Field("tick", 65, 4)
  OBVIOUS
<1>2. part \in Seq(WireByte) /\ Len(part) = 4 /\ \A i \in 1..4 : part[i][2] = 65 + i - 1
  <2>1. "tick" \in FieldNames /\ 65 \in Nat /\ 4 \in Nat /\ 65 + 4 <= 256
    BY DEF FieldNames
  <2>2. part \in Seq(WireByte)
    BY <1>1, <2>1, FieldWritten
  <2>3. Len(part) = 4
    BY <1>1 DEF Field
  <2>4. \A i \in 1..4 : part[i] = <<"tick", 65 + i - 1>>
    BY <1>1 DEF Field
  <2> QED
    BY <2>2, <2>3, <2>4
<1>3. IsJoin(a, part, f)
  BY <1>1, <1>2, Joined
<1>4. ASSUME NEW i \in 2..5 PROVE f[i][2] \in 65..68
  <2>1. PICK k \in 1..4 : i = 1 + k
    <3>1. i - 1 \in 1..4 /\ i = 1 + (i - 1)
      OBVIOUS
    <3> QED
      BY <3>1
  <2>2. f[i] = part[k]
    BY <1>2, <1>3, <2>1 DEF IsJoin
  <2>3. part[k][2] = 65 + k - 1
    BY <1>2
  <2>4. 65 + k - 1 \in 65..68
    OBVIOUS
  <2> QED
    BY <2>2, <2>3, <2>4
<1>5. Len(f) = 5
  BY <1>2, <1>3 DEF IsJoin
<1> QED
  BY <1>4, <1>5 DEF Lettered

\* A signed payload whose fields are those of its operation, n bytes with the
\* code, and behind them the signature.
IsWritten(f, code, n) ==
    /\ Len(f) = n + SignatureLength
    /\ Cut(f, code, Layout(code) \cup {<<"signature", n, n + SignatureLength>>})

LEMMA SignedWritten ==
    ASSUME NEW f, NEW code, Cut(f, code, Layout(code)), \A l \in Layout(code) : l[1] # "signature"
    PROVE  IsWritten(f \o Field("signature", 0, SignatureLength), code, Len(f))
<1>1. SignatureLength \in Nat \ {0} /\ 0 + SignatureLength <= 256
  BY ParserAssumption
<1>2. "signature" \in FieldNames /\ "signature" # "op"
  BY DEF FieldNames
<1>3. f \in Seq(WireByte)
  BY DEF Cut
<1>4. Len(f \o Field("signature", 0, SignatureLength)) = Len(f) + SignatureLength
  BY <1>1, <1>2, <1>3, LenExtended
<1>5. Cut(f \o Field("signature", 0, SignatureLength), code,
          Layout(code) \cup {<<"signature", Len(f), Len(f) + SignatureLength>>})
  BY <1>1, <1>2, CutExtended
<1> QED
  BY <1>4, <1>5 DEF IsWritten

\* Where the fields of each operation are: where parsePayload reads them.
LEMMA DeployWritten == IsWritten(BuildDeploy, 1, 25) /\ Lettered(BuildDeploy)
<1>1. PICK a : a = <<<<"op", 1>>>>
  OBVIOUS
<1>2. Cut(a, 1, {}) /\ Len(a) = 1 /\ a \in Seq(WireByte)
  <2>1. 1 \in Byte
    BY DEF Byte
  <2>2. Cut(a, 1, {}) /\ Len(a) = 1
    BY <1>1, <2>1, OpAlone
  <2> QED
    BY <2>2 DEF Cut
<1>3. PICK b : b = a \o Field("tick", 65, 4)
  OBVIOUS
<1>4. /\ Cut(b, 1, {<<"tick", 1, 5>>})
      /\ Len(b) = 5 /\ b \in Seq(WireByte) /\ Lettered(b)
  <2>1. /\ "tick" \in FieldNames /\ "tick" # "op" /\ \A l \in {} : l[1] # "tick"
        /\ 65 \in Nat /\ 4 \in Nat /\ 4 \in Nat \ {0} /\ 65 + 4 <= 256
    BY DEF FieldNames
  <2>2. Cut(b, 1, {} \cup {<<"tick", Len(a), Len(a) + 4>>})
    BY <1>2, <1>3, <2>1, CutExtended
  <2>3. Len(b) = 5
    <3>1. Len(b) = Len(a) + 4
      BY <1>2, <1>3, <2>1, LenExtended
    <3> QED
      BY <1>2, <3>1
  <2>4. {} \cup {<<"tick", Len(a), Len(a) + 4>>} = {<<"tick", 1, 5>>}
    BY <1>2
  <2>5. Lettered(b)
    BY <1>2, <1>3, TickWritten
  <2> QED
    BY <2>2, <2>3, <2>4, <2>5 DEF Cut
<1>5. PICK c : c = b \o Field("maxSupply", 0, 8)
  OBVIOUS
<1>6. /\ Cut(c, 1, {<<"tick", 1, 5>>, <<"maxSupply", 5, 13>>})
      /\ Len(c) = 13 /\ c \in Seq(WireByte) /\ Lettered(c)
  <2>1. /\ "maxSupply" \in FieldNames /\ "maxSupply" # "op" /\ \A l \in {<<"tick", 1, 5>>} : l[1] # "maxSupply"
        /\ 0 \in Nat /\ 8 \in Nat /\ 8 \in Nat \ {0} /\ 0 + 8 <= 256
    BY DEF FieldNames
  <2>2. Cut(c, 1, {<<"tick", 1, 5>>} \cup {<<"maxSupply", Len(b), Len(b) + 8>>})
    BY <1>4, <1>5, <2>1, CutExtended
  <2>3. Len(c) = 13
    <3>1. Len(c) = Len(b) + 8
      BY <1>4, <1>5, <2>1, LenExtended
    <3> QED
      BY <1>4, <3>1
  <2>4. {<<"tick", 1, 5>>} \cup {<<"maxSupply", Len(b), Len(b) + 8>>} = {<<"tick", 1, 5>>, <<"maxSupply", 5, 13>>}
    BY <1>4
  <2>5. Lettered(c)
    BY <1>4, <1>5, <2>1, LettersStay
  <2> QED
    BY <2>2, <2>3, <2>4, <2>5 DEF Cut
<1>7. PICK d : d = c \o Field("limitPerMint", 0, 8)
  OBVIOUS
<1>8. /\ Cut(d, 1, {<<"tick", 1, 5>>, <<"maxSupply", 5, 13>>, <<"limitPerMint", 13, 21>>})
      /\ Len(d) = 21 /\ d \in Seq(WireByte) /\ Lettered(d)
  <2>1. /\ "limitPerMint" \in FieldNames /\ "limitPerMint" # "op" /\ \A l \in {<<"tick", 1, 5>>, <<"maxSupply", 5, 13>>} : l[1] # "limitPerMint"
        /\ 0 \in Nat /\ 8 \in Nat /\ 8 \in Nat \ {0} /\ 0 + 8 <= 256
    BY DEF FieldNames
  <2>2. Cut(d, 1, {<<"tick", 1, 5>>, <<"maxSupply", 5, 13>>} \cup {<<"limitPerMint", Len(c), Len(c) + 8>>})
    BY <1>6, <1>7, <2>1, CutExtended
  <2>3. Len(d) = 21
    <3>1. Len(d) = Len(c) + 8
      BY <1>6, <1>7, <2>1, LenExtended
    <3> QED
      BY <1>6, <3>1
  <2>4. {<<"tick", 1, 5>>, <<"maxSupply", 5, 13>>} \cup {<<"limitPerMint", Len(c), Len(c) + 8>>} = {<<"tick", 1, 5>>, <<"maxSupply", 5, 13>>, <<"limitPerMint", 13, 21>>}
    BY <1>6
  <2>5. Lettered(d)
    BY <1>6, <1>7, <2>1, LettersStay
  <2> QED
    BY <2>2, <2>3, <2>4, <2>5 DEF Cut
<1>9. PICK e : e = d \o Field("nonce", 0, 4)
  OBVIOUS
<1>10. /\ Cut(e, 1, {<<"tick", 1, 5>>, <<"maxSupply", 5, 13>>, <<"limitPerMint", 13, 21>>, <<"nonce", 21, 25>>})
      /\ Len(e) = 25 /\ e \in Seq(WireByte) /\ Lettered(e)
  <2>1. /\ "nonce" \in FieldNames /\ "nonce" # "op" /\ \A l \in {<<"tick", 1, 5>>, <<"maxSupply", 5, 13>>, <<"limitPerMint", 13, 21>>} : l[1] # "nonce"
        /\ 0 \in Nat /\ 4 \in Nat /\ 4 \in Nat \ {0} /\ 0 + 4 <= 256
    BY DEF FieldNames
  <2>2. Cut(e, 1, {<<"tick", 1, 5>>, <<"maxSupply", 5, 13>>, <<"limitPerMint", 13, 21>>} \cup {<<"nonce", Len(d), Len(d) + 4>>})
    BY <1>8, <1>9, <2>1, CutExtended
  <2>3. Len(e) = 25
    <3>1. Len(e) = Len(d) + 4
      BY <1>8, <1>9, <2>1, LenExtended
    <3> QED
      BY <1>8, <3>1
  <2>4. {<<"tick", 1, 5>>, <<"maxSupply", 5, 13>>, <<"limitPerMint", 13, 21>>} \cup {<<"nonce", Len(d), Len(d) + 4>>} = {<<"tick", 1, 5>>, <<"maxSupply", 5, 13>>, <<"limitPerMint", 13, 21>>, <<"nonce", 21, 25>>}
    BY <1>8
  <2>5. Lettered(e)
    BY <1>8, <1>9, <2>1, LettersStay
  <2> QED
    BY <2>2, <2>3, <2>4, <2>5 DEF Cut
<1>11. BuildDeploy = e \o Field("signature", 0, SignatureLength)
  BY <1>1, <1>3, <1>5, <1>7, <1>9 DEF BuildDeploy, Signed
<1>12. Layout(1) = {<<"tick", 1, 5>>, <<"maxSupply", 5, 13>>, <<"limitPerMint", 13, 21>>, <<"nonce", 21, 25>>} /\ \A l \in Layout(1) : l[1] # "signature"
  BY DEF Layout
<1>13. IsWritten(BuildDeploy, 1, 25)
  BY <1>10, <1>11, <1>12, SignedWritten
<1>14. Lettered(BuildDeploy)
  <2>1. /\ "signature" \in FieldNames
        /\ SignatureLength \in Nat /\ 0 + SignatureLength <= 256
    BY ParserAssumption DEF FieldNames
  <2> QED
    BY <1>10, <1>11, <2>1, LettersStay
<1> QED
  BY <1>13, <1>14

LEMMA MintWritten == IsWritten(BuildMint, 2, 17) /\ Lettered(BuildMint)
<1>1. PICK a : a = <<<<"op", 2>>>>
  OBVIOUS
<1>2. Cut(a, 2, {}) /\ Len(a) = 1 /\ a \in Seq(WireByte)
  <2>1. 2 \in Byte
    BY DEF Byte
  <2>2. Cut(a, 2, {}) /\ Len(a) = 1
    BY <1>1, <2>1, OpAlone
  <2> QED
    BY <2>2 DEF Cut
<1>3. PICK b : b = a \o Field("tick", 65, 4)
  OBVIOUS
<1>4. /\ Cut(b, 2, {<<"tick", 1, 5>>})
      /\ Len(b) = 5 /\ b \in Seq(WireByte) /\ Lettered(b)
  <2>1. /\ "tick" \in FieldNames /\ "tick" # "op" /\ \A l \in {} : l[1] # "tick"
        /\ 65 \in Nat /\ 4 \in Nat /\ 4 \in Nat \ {0} /\ 65 + 4 <= 256
    BY DEF FieldNames
  <2>2. Cut(b, 2, {} \cup {<<"tick", Len(a), Len(a) + 4>>})
    BY <1>2, <1>3, <2>1, CutExtended
  <2>3. Len(b) = 5
    <3>1. Len(b) = Len(a) + 4
      BY <1>2, <1>3, <2>1, LenExtended
    <3> QED
      BY <1>2, <3>1
  <2>4. {} \cup {<<"tick", Len(a), Len(a) + 4>>} = {<<"tick", 1, 5>>}
    BY <1>2
  <2>5. Lettered(b)
    BY <1>2, <1>3, TickWritten
  <2> QED
    BY <2>2, <2>3, <2>4, <2>5 DEF Cut
<1>5. PICK c : c = b \o Field("amount", 0, 8)
  OBVIOUS
<1>6. /\ Cut(c, 2, {<<"tick", 1, 5>>, <<"amount", 5, 13>>})
      /\ Len(c) = 13 /\ c \in Seq(WireByte) /\ Lettered(c)
  <2>1. /\ "amount" \in FieldNames /\ "amount" # "op" /\ \A l \in {<<"tick", 1, 5>>} : l[1] # "amount"
        /\ 0 \in Nat /\ 8 \in Nat /\ 8 \in Nat \ {0} /\ 0 + 8 <= 256
    BY DEF FieldNames
  <2>2. Cut(c, 2, {<<"tick", 1, 5>>} \cup {<<"amount", Len(b), Len(b) + 8>>})
    BY <1>4, <1>5, <2>1, CutExtended
  <2>3. Len(c) = 13
    <3>1. Len(c) = Len(b) + 8
      BY <1>4, <1>5, <2>1, LenExtended
    <3> QED
      BY <1>4, <3>1
  <2>4. {<<"tick", 1, 5>>} \cup {<<"amount", Len(b), Len(b) + 8>>} = {<<"tick", 1, 5>>, <<"amount", 5, 13>>}
    BY <1>4
  <2>5. Lettered(c)
    BY <1>4, <1>5, <2>1, LettersStay
  <2> QED
    BY <2>2, <2>3, <2>4, <2>5 DEF Cut
<1>7. PICK d : d = c \o Field("nonce", 0, 4)
  OBVIOUS
<1>8. /\ Cut(d, 2, {<<"tick", 1, 5>>, <<"amount", 5, 13>>, <<"nonce", 13, 17>>})
      /\ Len(d) = 17 /\ d \in Seq(WireByte) /\ Lettered(d)
  <2>1. /\ "nonce" \in FieldNames /\ "nonce" # "op" /\ \A l \in {<<"tick", 1, 5>>, <<"amount", 5, 13>>} : l[1] # "nonce"
        /\ 0 \in Nat /\ 4 \in Nat /\ 4 \in Nat \ {0} /\ 0 + 4 <= 256
    BY DEF FieldNames
  <2>2. Cut(d, 2, {<<"tick", 1, 5>>, <<"amount", 5, 13>>} \cup {<<"nonce", Len(c), Len(c) + 4>>})
    BY <1>6, <1>7, <2>1, CutExtended
  <2>3. Len(d) = 17
    <3>1. Len(d) = Len(c) + 4
      BY <1>6, <1>7, <2>1, LenExtended
    <3> QED
      BY <1>6, <3>1
  <2>4. {<<"tick", 1, 5>>, <<"amount", 5, 13>>} \cup {<<"nonce", Len(c), Len(c) + 4>>} = {<<"tick", 1, 5>>, <<"amount", 5, 13>>, <<"nonce", 13, 17>>}
    BY <1>6
  <2>5. Lettered(d)
    BY <1>6, <1>7, <2>1, LettersStay
  <2> QED
    BY <2>2, <2>3, <2>4, <2>5 DEF Cut
<1>9. BuildMint = d \o Field("signature", 0, SignatureLength)
  BY <1>1, <1>3, <1>5, <1>7 DEF BuildMint, Signed
<1>10. Layout(2) = {<<"tick", 1, 5>>, <<"amount", 5, 13>>, <<"nonce", 13, 17>>} /\ \A l \in Layout(2) : l[1] # "signature"
  BY DEF Layout
<1>11. IsWritten(BuildMint, 2, 17)
  BY <1>8, <1>9, <1>10, SignedWritten
<1>12. Lettered(BuildMint)
  <2>1. /\ "signature" \in FieldNames
        /\ SignatureLength \in Nat /\ 0 + SignatureLength <= 256
    BY ParserAssumption DEF FieldNames
  <2> QED
    BY <1>8, <1>9, <2>1, LettersStay
<1> QED
  BY <1>11, <1>12

LEMMA TransferWritten == IsWritten(BuildTransfer, 3, 25) /\ Lettered(BuildTransfer)
<1>1. PICK a : a = <<<<"op", 3>>>>
  OBVIOUS
<1>2. Cut(a, 3, {}) /\ Len(a) = 1 /\ a \in Seq(WireByte)
  <2>1. 3 \in Byte
    BY DEF Byte
  <2>2. Cut(a, 3, {}) /\ Len(a) = 1
    BY <1>1, <2>1, OpAlone
  <2> QED
    BY <2>2 DEF Cut
<1>3. PICK b : b = a \o Field("tick", 65, 4)
  OBVIOUS
<1>4. /\ Cut(b, 3, {<<"tick", 1, 5>>})
      /\ Len(b) = 5 /\ b \in Seq(WireByte) /\ Lettered(b)
  <2>1. /\ "tick" \in FieldNames /\ "tick" # "op" /\ \A l \in {} : l[1] # "tick"
        /\ 65 \in Nat /\ 4 \in Nat /\ 4 \in Nat \ {0} /\ 65 + 4 <= 256
    BY DEF FieldNames
  <2>2. Cut(b, 3, {} \cup {<<"tick", Len(a), Len(a) + 4>>})
    BY <1>2, <1>3, <2>1, CutExtended
  <2>3. Len(b) = 5
    <3>1. Len(b) = Len(a) + 4
      BY <1>2, <1>3, <2>1, LenExtended
    <3> QED
      BY <1>2, <3>1
  <2>4. {} \cup {<<"tick", Len(a), Len(a) + 4>>} = {<<"tick", 1, 5>>}
    BY <1>2
  <2>5. Lettered(b)
    BY <1>2, <1>3, TickWritten
  <2> QED
    BY <2>2, <2>3, <2>4, <2>5 DEF Cut
<1>5. PICK c : c = b \o Field("amount", 0, 8)
  OBVIOUS
<1>6. /\ Cut(c, 3, {<<"tick", 1, 5>>, <<"amount", 5, 13>>})
      /\ Len(c) = 13 /\ c \in Seq(WireByte) /\ Lettered(c)
  <2>1. /\ "amount" \in FieldNames /\ "amount" # "op" /\ \A l \in {<<"tick", 1, 5>>} : l[1] # "amount"
        /\ 0 \in Nat /\ 8 \in Nat /\ 8 \in Nat \ {0} /\ 0 + 8 <= 256
    BY DEF FieldNames
  <2>2. Cut(c, 3, {<<"tick", 1, 5>>} \cup {<<"amount", Len(b), Len(b) + 8>>})
    BY <1>4, <1>5, <2>1, CutExtended
  <2>3. Len(c) = 13
    <3>1. Len(c) = Len(b) + 8
      BY <1>4, <1>5, <2>1, LenExtended
    <3> QED
      BY <1>4, <3>1
  <2>4. {<<"tick", 1, 5>>} \cup {<<"amount", Len(b), Len(b) + 8>>} = {<<"tick", 1, 5>>, <<"amount", 5, 13>>}
    BY <1>4
  <2>5. Lettered(c)
    BY <1>4, <1>5, <2>1, LettersStay
  <2> QED
    BY <2>2, <2>3, <2>4, <2>5 DEF Cut
<1>7. PICK d : d = c \o Field("nonce", 0, 4)
  OBVIOUS
<1>8. /\ Cut(d, 3, {<<"tick", 1, 5>>, <<"amount", 5, 13>>, <<"nonce", 13, 17>>})
      /\ Len(d) = 17 /\ d \in Seq(WireByte) /\ Lettered(d)
  <2>1. /\ "nonce" \in FieldNames /\ "nonce" # "op" /\ \A l \in {<<"tick", 1, 5>>, <<"amount", 5, 13>>} : l[1] # "nonce"
        /\ 0 \in Nat /\ 4 \in Nat /\ 4 \in Nat \ {0} /\ 0 + 4 <= 256
    BY DEF FieldNames
  <2>2. Cut(d, 3, {<<"tick", 1, 5>>, <<"amount", 5, 13>>} \cup {<<"nonce", Len(c), Len(c) + 4>>})
    BY <1>6, <1>7, <2>1, CutExtended
  <2>3. Len(d) = 17
    <3>1. Len(d) = Len(c) + 4
      BY <1>6, <1>7, <2>1, LenExtended
    <3> QED
      BY <1>6, <3>1
  <2>4. {<<"tick", 1, 5>>, <<"amount", 5, 13>>} \cup {<<"nonce", Len(c), Len(c) + 4>>} = {<<"tick", 1, 5>>, <<"amount", 5, 13>>, <<"nonce", 13, 17>>}
    BY <1>6
  <2>5. Lettered(d)
    BY <1>6, <1>7, <2>1, LettersStay
  <2> QED
    BY <2>2, <2>3, <2>4, <2>5 DEF Cut
<1>9. PICK e : e = d \o Field("recipientDeviceId", 0, 8)
  OBVIOUS
<1>10. /\ Cut(e, 3, {<<"tick", 1, 5>>, <<"amount", 5, 13>>, <<"nonce", 13, 17>>, <<"recipientDeviceId", 17, 25>>})
      /\ Len(e) = 25 /\ e \in Seq(WireByte) /\ Lettered(e)
  <2>1. /\ "recipientDeviceId" \in FieldNames /\ "recipientDeviceId" # "op" /\ \A l \in {<<"tick", 1, 5>>, <<"amount", 5, 13>>, <<"nonce", 13, 17>>} : l[1] # "recipientDeviceId"
        /\ 0 \in Nat /\ 8 \in Nat /\ 8 \in Nat \ {0} /\ 0 + 8 <= 256
    BY DEF FieldNames
  <2>2. Cut(e, 3, {<<"tick", 1, 5>>, <<"amount", 5, 13>>, <<"nonce", 13, 17>>} \cup {<<"recipientDeviceId", Len(d), Len(d) + 8>>})
    BY <1>8, <1>9, <2>1, CutExtended
  <2>3. Len(e) = 25
    <3>1. Len(e) = Len(d) + 8
      BY <1>8, <1>9, <2>1, LenExtended
    <3> QED
      BY <1>8, <3>1
  <2>4. {<<"tick", 1, 5>>, <<"amount", 5, 13>>, <<"nonce", 13, 17>>} \cup {<<"recipientDeviceId", Len(d), Len(d) + 8>>} = {<<"tick", 1, 5>>, <<"amount", 5, 13>>, <<"nonce", 13, 17>>, <<"recipientDeviceId", 17, 25>>}
    BY <1>8
  <2>5. Lettered(e)
    BY <1>8, <1>9, <2>1, LettersStay
  <2> QED
    BY <2>2, <2>3, <2>4, <2>5 DEF Cut
<1>11. BuildTransfer = e \o Field("signature", 0, SignatureLength)
  BY <1>1, <1>3, <1>5, <1>7, <1>9 DEF BuildTransfer, Signed
<1>12. Layout(3) = {<<"tick", 1, 5>>, <<"amount", 5, 13>>, <<"nonce", 13, 17>>, <<"recipientDeviceId", 17, 25>>} /\ \A l \in Layout(3) : l[1] # "signature"
  BY DEF Layout
<1>13. IsWritten(BuildTransfer, 3, 25)
  BY <1>10, <1>11, <1>12, SignedWritten
<1>14. Lettered(BuildTransfer)
  <2>1. /\ "signature" \in FieldNames
        /\ SignatureLength \in Nat /\ 0 + SignatureLength <= 256
    BY ParserAssumption DEF FieldNames
  <2> QED
    BY <1>10, <1>11, <2>1, LettersStay
<1> QED
  BY <1>13, <1>14

LEMMA ConfigWritten == IsWritten(BuildConfig, 16, 10)
<1>1. PICK a : a = <<<<"op", 16>>>>
  OBVIOUS
<1>2. Cut(a, 16, {}) /\ Len(a) = 1 /\ a \in Seq(WireByte)
  <2>1. 16 \in Byte
    BY DEF Byte
  <2>2. Cut(a, 16, {}) /\ Len(a) = 1
    BY <1>1, <2>1, OpAlone
  <2> QED
    BY <2>2 DEF Cut
<1>3. PICK b : b = a \o Field("flags", 1, 1)
  OBVIOUS
<1>4. /\ Cut(b, 16, {<<"flags", 1, 2>>})
      /\ Len(b) = 2 /\ b \in Seq(WireByte)
  <2>1. /\ "flags" \in FieldNames /\ "flags" # "op" /\ \A l \in {} : l[1] # "flags"
        /\ 1 \in Nat /\ 1 \in Nat /\ 1 \in Nat \ {0} /\ 1 + 1 <= 256
    BY DEF FieldNames
  <2>2. Cut(b, 16, {} \cup {<<"flags", Len(a), Len(a) + 1>>})
    BY <1>2, <1>3, <2>1, CutExtended
  <2>3. Len(b) = 2
    <3>1. Len(b) = Len(a) + 1
      BY <1>2, <1>3, <2>1, LenExtended
    <3> QED
      BY <1>2, <3>1
  <2>4. {} \cup {<<"flags", Len(a), Len(a) + 1>>} = {<<"flags", 1, 2>>}
    BY <1>2
  <2> QED
    BY <2>2, <2>3, <2>4 DEF Cut
<1>5. PICK c : c = b \o Field("intervalSeconds", 0, 4)
  OBVIOUS
<1>6. /\ Cut(c, 16, {<<"flags", 1, 2>>, <<"intervalSeconds", 2, 6>>})
      /\ Len(c) = 6 /\ c \in Seq(WireByte)
  <2>1. /\ "intervalSeconds" \in FieldNames /\ "intervalSeconds" # "op" /\ \A l \in {<<"flags", 1, 2>>} : l[1] # "intervalSeconds"
        /\ 0 \in Nat /\ 4 \in Nat /\ 4 \in Nat \ {0} /\ 0 + 4 <= 256
    BY DEF FieldNames
  <2>2. Cut(c, 16, {<<"flags", 1, 2>>} \cup {<<"intervalSeconds", Len(b), Len(b) + 4>>})
    BY <1>4, <1>5, <2>1, CutExtended
  <2>3. Len(c) = 6
    <3>1. Len(c) = Len(b) + 4
      BY <1>4, <1>5, <2>1, LenExtended
    <3> QED
      BY <1>4, <3>1
  <2>4. {<<"flags", 1, 2>>} \cup {<<"intervalSeconds", Len(b), Len(b) + 4>>} = {<<"flags", 1, 2>>, <<"intervalSeconds", 2, 6>>}
    BY <1>4
  <2> QED
    BY <2>2, <2>3, <2>4 DEF Cut
<1>7. PICK d : d = c \o Field("nonce", 0, 4)
  OBVIOUS
<1>8. /\ Cut(d, 16, {<<"flags", 1, 2>>, <<"intervalSeconds", 2, 6>>, <<"nonce", 6, 10>>})
      /\ Len(d) = 10 /\ d \in Seq(WireByte)
  <2>1. /\ "nonce" \in FieldNames /\ "nonce" # "op" /\ \A l \in {<<"flags", 1, 2>>, <<"intervalSeconds", 2, 6>>} : l[1] # "nonce"
        /\ 0 \in Nat /\ 4 \in Nat /\ 4 \in Nat \ {0} /\ 0 + 4 <= 256
    BY DEF FieldNames
  <2>2. Cut(d, 16, {<<"flags", 1, 2>>, <<"intervalSeconds", 2, 6>>} \cup {<<"nonce", Len(c), Len(c) + 4>>})
    BY <1>6, <1>7, <2>1, CutExtended
  <2>3. Len(d) = 10
    <3>1. Len(d) = Len(c) + 4
      BY <1>6, <1>7, <2>1, LenExtended
    <3> QED
      BY <1>6, <3>1
  <2>4. {<<"flags", 1, 2>>, <<"intervalSeconds", 2, 6>>} \cup {<<"nonce", Len(c), Len(c) + 4>>} = {<<"flags", 1, 2>>, <<"intervalSeconds", 2, 6>>, <<"nonce", 6, 10>>}
    BY <1>6
  <2> QED
    BY <2>2, <2>3, <2>4 DEF Cut
<1>9. BuildConfig = d \o Field("signature", 0, SignatureLength)
  BY <1>1, <1>3, <1>5, <1>7 DEF BuildConfig, Signed
<1>10. Layout(16) = {<<"flags", 1, 2>>, <<"intervalSeconds", 2, 6>>, <<"nonce", 6, 10>>} /\ \A l \in Layout(16) : l[1] # "signature"
  BY DEF Layout
<1>11. IsWritten(BuildConfig, 16, 10)
  BY <1>8, <1>9, <1>10, SignedWritten
<1> QED
  BY <1>11

\* A part whose bytes are not counted up.
LEMMA PartExtended ==
    ASSUME NEW f, NEW code, NEW L, Cut(f, code, L), NEW name, name # "op",
           \A l \in L : l[1] # name,
           NEW part \in Seq(WireByte), Len(part) > 0, \A i \in 1..Len(part) : part[i][1] = name
    PROVE  Cut(f \o part, code, L \cup {<<name, Len(f), Len(f) + Len(part)>>})
<1>1. f \in Seq(WireByte) /\ name \notin Names(f)
  BY DEF Cut
<1>2. IsExtended(f, name, Len(part), f \o part)
  BY <1>1, Extended
<1>3. Len(part) \in Nat \ {0}
  OBVIOUS
<1> QED
  BY <1>2, <1>3, PartCut

LEMMA LenJoined ==
    ASSUME NEW f \in Seq(WireByte), NEW part \in Seq(WireByte)
    PROVE  Len(f \o part) = Len(f) + Len(part)
BY Joined DEF IsJoin

\* The parts of a message.
LEMMA MessageWritten ==
    ASSUME NEW n \in Byte, NEW bytes \in Seq(Byte), Len(bytes) > 0
    PROVE  LET f == BuildMessage(n, bytes)
               last == 14 + Len(bytes)
           IN /\ Len(f) = last + SignatureLength
              /\ Cut(f, 4, (Layout(4) \cup {<<"messagePacked", 14, last>>})
                             \cup {<<"signature", last, last + SignatureLength>>})
<1> DEFINE f == BuildMessage(n, bytes)
           last == 14 + Len(bytes)
<1>1. PICK a : a = <<<<"op", 4>>>>
  OBVIOUS
<1>2. Cut(a, 4, {}) /\ Len(a) = 1 /\ a \in Seq(WireByte)
  <2>1. 4 \in Byte
    BY DEF Byte
  <2>2. Cut(a, 4, {}) /\ Len(a) = 1
    BY <1>1, <2>1, OpAlone
  <2> QED
    BY <2>2 DEF Cut
<1>3. PICK b : b = a \o Field("recipientDeviceId", 0, 8)
  OBVIOUS
<1>4. /\ Cut(b, 4, {<<"recipientDeviceId", 1, 9>>})
      /\ Len(b) = 9 /\ b \in Seq(WireByte)
  <2>1. /\ "recipientDeviceId" \in FieldNames /\ "recipientDeviceId" # "op"
        /\ \A l \in {} : l[1] # "recipientDeviceId"
        /\ 0 \in Nat /\ 8 \in Nat /\ 8 \in Nat \ {0} /\ 0 + 8 <= 256
    BY DEF FieldNames
  <2>2. Cut(b, 4, {} \cup {<<"recipientDeviceId", Len(a), Len(a) + 8>>})
    BY <1>2, <1>3, <2>1, CutExtended
  <2>3. Len(b) = 9
    <3>1. Len(b) = Len(a) + 8
      BY <1>2, <1>3, <2>1, LenExtended
    <3> QED
      BY <1>2, <3>1
  <2>4. {} \cup {<<"recipientDeviceId", Len(a), Len(a) + 8>>} = {<<"recipientDeviceId", 1, 9>>}
    BY <1>2
  <2> QED
    BY <2>2, <2>3, <2>4 DEF Cut
<1>5. PICK c : c = b \o Field("nonce", 0, 4)
  OBVIOUS
<1>6. /\ Cut(c, 4, {<<"recipientDeviceId", 1, 9>>, <<"nonce", 9, 13>>})
      /\ Len(c) = 13 /\ c \in Seq(WireByte)
  <2>1. /\ "nonce" \in FieldNames /\ "nonce" # "op"
        /\ \A l \in {<<"recipientDeviceId", 1, 9>>} : l[1] # "nonce"
        /\ 0 \in Nat /\ 4 \in Nat /\ 4 \in Nat \ {0} /\ 0 + 4 <= 256
    BY DEF FieldNames
  <2>2. Cut(c, 4, {<<"recipientDeviceId", 1, 9>>} \cup {<<"nonce", Len(b), Len(b) + 4>>})
    BY <1>4, <1>5, <2>1, CutExtended
  <2>3. Len(c) = 13
    <3>1. Len(c) = Len(b) + 4
      BY <1>4, <1>5, <2>1, LenExtended
    <3> QED
      BY <1>4, <3>1
  <2>4. {<<"recipientDeviceId", 1, 9>>} \cup {<<"nonce", Len(b), Len(b) + 4>>}
          = {<<"recipientDeviceId", 1, 9>>, <<"nonce", 9, 13>>}
    BY <1>4
  <2> QED
    BY <2>2, <2>3, <2>4 DEF Cut
<1>7. PICK count : count = <<<<"messageLength", n>>>>
  OBVIOUS
<1>8. /\ count \in Seq(WireByte) /\ Len(count) = 1 /\ Len(count) > 0
      /\ \A i \in 1..Len(count) : count[i][1] = "messageLength"
  <2>1. <<"messageLength", n>> \in WireByte
    BY DEF WireByte, FieldNames
  <2> QED
    BY <1>7, <2>1
<1>9. PICK d : d = c \o count
  OBVIOUS
<1>10. Cut(d, 4, Layout(4)) /\ Len(d) = 14 /\ d \in Seq(WireByte)
  <2>1. /\ "messageLength" # "op"
        /\ \A l \in {<<"recipientDeviceId", 1, 9>>, <<"nonce", 9, 13>>} : l[1] # "messageLength"
    OBVIOUS
  <2>2. Cut(d, 4, {<<"recipientDeviceId", 1, 9>>, <<"nonce", 9, 13>>}
                    \cup {<<"messageLength", Len(c), Len(c) + Len(count)>>})
    BY <1>6, <1>8, <1>9, <2>1, PartExtended
  <2>3. Len(d) = 14
    <3>1. Len(d) = Len(c) + Len(count)
      BY <1>6, <1>8, <1>9, LenJoined
    <3> QED
      BY <1>6, <1>8, <3>1
  <2>4. {<<"recipientDeviceId", 1, 9>>, <<"nonce", 9, 13>>}
          \cup {<<"messageLength", Len(c), Len(c) + Len(count)>>} = Layout(4)
    BY <1>6, <1>8 DEF Layout
  <2> QED
    BY <2>2, <2>3, <2>4 DEF Cut
<1>11. PICK pairs : pairs = [i \in 1..Len(bytes) |-> <<"messagePacked", bytes[i]>>]
  OBVIOUS
<1>12. /\ pairs \in Seq(WireByte) /\ Len(pairs) = Len(bytes) /\ Len(pairs) > 0
       /\ \A i \in 1..Len(pairs) : pairs[i][1] = "messagePacked"
  BY <1>11 DEF WireByte, FieldNames
<1>13. PICK e : e = d \o pairs
  OBVIOUS
<1>14. /\ Cut(e, 4, Layout(4) \cup {<<"messagePacked", 14, last>>})
       /\ Len(e) = last /\ e \in Seq(WireByte)
  <2>1. "messagePacked" # "op" /\ \A l \in Layout(4) : l[1] # "messagePacked"
    BY DEF Layout
  <2>2. Cut(e, 4, Layout(4) \cup {<<"messagePacked", Len(d), Len(d) + Len(pairs)>>})
    BY <1>10, <1>12, <1>13, <2>1, PartExtended
  <2>3. Len(e) = Len(d) + Len(pairs)
    BY <1>10, <1>12, <1>13, LenJoined
  <2> QED
    BY <1>10, <1>12, <2>2, <2>3 DEF Cut
<1>15. SignatureLength \in Nat \ {0} /\ SignatureLength \in Nat /\ 0 + SignatureLength <= 256 /\ 0 \in Nat
  BY ParserAssumption
<1>16. f = e \o Field("signature", 0, SignatureLength)
  BY <1>1, <1>3, <1>5, <1>7, <1>9, <1>11, <1>13 DEF BuildMessage, Signed
<1> HIDE DEF f, last
<1>17. /\ "signature" \in FieldNames /\ "signature" # "op"
       /\ \A l \in Layout(4) \cup {<<"messagePacked", 14, last>>} : l[1] # "signature"
  BY DEF FieldNames, Layout
<1>18. Len(f) = last + SignatureLength
  BY <1>14, <1>15, <1>16, <1>17, LenExtended
<1>19. Cut(f, 4, (Layout(4) \cup {<<"messagePacked", 14, last>>})
                   \cup {<<"signature", Len(e), Len(e) + SignatureLength>>})
  BY <1>14, <1>15, <1>16, <1>17, CutExtended
<1> QED
  BY <1>14, <1>18, <1>19 DEF f, last

-----------------------------------------------------------------------------
\* What parsePayload reads.

\* Where it reads which field.
Cuts(f) ==
    (IF f[1][2] = 4 THEN Layout(4) \cup {<<"messagePacked", 14, Len(f) - SignatureLength>>}
                    ELSE Layout(f[1][2]))
        \cup {<<"signature", Len(f) - SignatureLength, Len(f)>>}

Read(f) == {<<l[1], Slice(f, l[2], l[3])>> : l \in Cuts(f)}

LEMMA ReadIs ==
    ASSUME NEW f
    PROVE  Read(f) = IF f[1][2] = 4
                     THEN FieldsOf(f)
                            \cup {<<"messagePacked", Slice(f, 14, Len(f) - SignatureLength)>>}
                     ELSE FieldsOf(f)
<1> DEFINE signature == <<"signature", Len(f) - SignatureLength, Len(f)>>
           packedBytes == <<"messagePacked", 14, Len(f) - SignatureLength>>
           Bytes(l) == <<l[1], Slice(f, l[2], l[3])>>
<1>1. /\ Bytes(signature) = <<"signature", Slice(f, Len(f) - SignatureLength, Len(f))>>
      /\ Bytes(packedBytes) = <<"messagePacked", Slice(f, 14, Len(f) - SignatureLength)>>
  OBVIOUS
<1>2. FieldsOf(f) = {Bytes(l) : l \in Layout(f[1][2])} \cup {Bytes(signature)}
  BY <1>1 DEF FieldsOf
<1>3. Read(f) = {Bytes(l) : l \in Cuts(f)}
  BY DEF Read
<1>4. CASE f[1][2] = 4
  <2>1. Cuts(f) = (Layout(f[1][2]) \cup {packedBytes}) \cup {signature}
    BY <1>4 DEF Cuts
  <2> HIDE DEF signature, packedBytes, Bytes
  <2>2. Read(f) = FieldsOf(f) \cup {Bytes(packedBytes)}
    BY <1>2, <1>3, <2>1
  <2> QED
    BY <1>1, <1>4, <2>2
<1>5. CASE f[1][2] # 4
  <2>1. Cuts(f) = Layout(f[1][2]) \cup {signature}
    BY <1>5 DEF Cuts
  <2> HIDE DEF signature, Bytes
  <2>2. Read(f) = FieldsOf(f)
    BY <1>2, <1>3, <2>1
  <2> QED
    BY <1>5, <2>2
<1> QED
  BY <1>4, <1>5

\* A slice has the bytes its bounds say.
LEMMA SliceLen ==
    ASSUME NEW f \in Seq(WireByte), NEW from \in Nat, NEW to \in from..Len(f)
    PROVE  Slice(f, from, to) \in Seq(WireByte) /\ Len(Slice(f, from, to)) = to - from
<1>1. Len(f) \in Nat /\ to \in Int /\ from + 1 \in Int /\ from + 1 <= to + 1
  OBVIOUS
<1>2. \A i \in (from + 1)..to : f[i] \in WireByte
  <2> TAKE i \in (from + 1)..to
  <2>1. i \in 1..Len(f)
    BY <1>1
  <2> QED
    BY <2>1, ElementOfSeq
<1>3. /\ SubSeq(f, from + 1, to) \in Seq(WireByte)
      /\ Len(SubSeq(f, from + 1, to)) = to - (from + 1) + 1
  <2>1. SubSeq(f, from + 1, to) \in Seq(WireByte)
    BY <1>1, <1>2, SubSeqProperties
  <2>2. Len(SubSeq(f, from + 1, to)) = IF from + 1 <= to + 1 THEN to - (from + 1) + 1 ELSE 0
    BY <1>1, <1>2, SubSeqProperties
  <2> QED
    BY <1>1, <2>1, <2>2
<1> QED
  BY <1>1, <1>3 DEF Slice

\* A field that is read where it was written is read as it was written.
LEMMA HasRead ==
    ASSUME frame \in Seq(WireByte), NEW name, NEW from, NEW to, Has(frame, name, from, to)
    PROVE  AsWritten(<<name, Slice(frame, from, to)>>)
<1>1. from \in Nat /\ to \in from..Len(frame) /\ Len(frame) \in Nat /\ DOMAIN frame = 1..Len(frame)
  BY DEF Has
<1>2. PICK x : x = <<name, Slice(frame, from, to)>>
  OBVIOUS
<1>3. x[1] = name /\ x[2] = Slice(frame, from, to)
  BY <1>2
<1>4. Len(x[2]) = to - from
  BY <1>1, <1>3, SliceLen
<1>5. from \in 0..(Len(frame) - Len(x[2])) /\ from + Len(x[2]) = to
  BY <1>1, <1>4
<1>6. \A i \in DOMAIN frame : frame[i][1] = x[1] <=> i \in (from + 1)..to
  BY <1>1, <1>3 DEF Has
<1>7. AsWritten(x)
  BY <1>3, <1>5, <1>6 DEF AsWritten
<1> QED
  BY <1>2, <1>7

\* So are all fields of a payload that was cut where it was written.
LEMMA CutIsRead ==
    ASSUME NEW code, Cut(frame, code, Cuts(frame)), \A l \in Cuts(frame) : l[1] # "op"
    PROVE  /\ {x[1] : x \in Read(frame)} = {frame[i][1] : i \in DOMAIN frame} \ {"op"}
           /\ \A x \in Read(frame) : AsWritten(x)
<1>1. frame \in Seq(WireByte) /\ DOMAIN frame = 1..Len(frame)
  BY DEF Cut
<1>2. {x[1] : x \in Read(frame)} = {l[1] : l \in Cuts(frame)}
  <2>1. ASSUME NEW x \in Read(frame) PROVE \E l \in Cuts(frame) : x[1] = l[1]
    BY DEF Read
  <2>2. ASSUME NEW l \in Cuts(frame) PROVE \E x \in Read(frame) : x[1] = l[1]
    <3>1. <<l[1], Slice(frame, l[2], l[3])>> \in Read(frame)
      BY DEF Read
    <3> QED
      BY <3>1
  <2> QED
    BY <2>1, <2>2
<1>3. {frame[i][1] : i \in DOMAIN frame} = {"op"} \cup {l[1] : l \in Cuts(frame)}
  BY <1>1 DEF Cut, Names
<1>4. \A x \in Read(frame) : AsWritten(x)
  <2> TAKE x \in Read(frame)
  <2>1. PICK l \in Cuts(frame) : x = <<l[1], Slice(frame, l[2], l[3])>>
    BY DEF Read
  <2>2. Has(frame, l[1], l[2], l[3])
    BY <2>1 DEF Cut
  <2> QED
    BY <1>1, <2>1, <2>2, HasRead
<1> QED
  BY <1>2, <1>3, <1>4

-----------------------------------------------------------------------------
\* How much parsePayload reads.

Slices(f, L) == {<<l[1], Slice(f, l[2], l[3])>> : l \in L}
BytesIn(S) == UNION {{x} \X DOMAIN x[2] : x \in S}

\* The fields at L are n bytes of f together.
Counts(f, L, n) ==
    IsFiniteSet(BytesIn(Slices(f, L))) /\ Cardinality(BytesIn(Slices(f, L))) = n

LEMMA CountsNone == \A f : Counts(f, {}, 0)
<1> TAKE f
<1>1. BytesIn(Slices(f, {})) = {}
  BY DEF BytesIn, Slices
<1> QED
  BY <1>1, FS_EmptySet DEF Counts

LEMMA CountsMore ==
    ASSUME NEW f \in Seq(WireByte), NEW L, NEW n \in Nat, Counts(f, L, n),
           NEW name, \A l \in L : l[1] # name,
           NEW from \in Nat, NEW to \in from..Len(f)
    PROVE  Counts(f, L \cup {<<name, from, to>>}, n + (to - from))
<1>1. PICK x : x = <<name, Slice(f, from, to)>>
  OBVIOUS
<1>2. x[1] = name /\ x[2] \in Seq(WireByte) /\ Len(x[2]) = to - from /\ to - from \in Nat
  <2>1. Slice(f, from, to) \in Seq(WireByte) /\ Len(Slice(f, from, to)) = to - from
    BY SliceLen
  <2>2. to - from \in Nat
    OBVIOUS
  <2> QED
    BY <1>1, <2>1, <2>2
<1>3. DOMAIN x[2] = 1..(to - from)
  BY <1>2
<1>4. Slices(f, L \cup {<<name, from, to>>}) = Slices(f, L) \cup {x}
  <2>1. PICK l : l = <<name, from, to>>
    OBVIOUS
  <2>2. x = <<l[1], Slice(f, l[2], l[3])>>
    BY <1>1, <2>1
  <2>3. Slices(f, L \cup {l}) = Slices(f, L) \cup {x}
    BY <2>2 DEF Slices
  <2> QED
    BY <2>1, <2>3
<1>5. x \notin Slices(f, L)
  BY <1>2 DEF Slices
<1>6. PICK A : A = BytesIn(Slices(f, L))
  OBVIOUS
<1>7. PICK B : B = {x} \X DOMAIN x[2]
  OBVIOUS
<1>8. BytesIn(Slices(f, L) \cup {x}) = A \cup B
  BY <1>6, <1>7 DEF BytesIn
<1>9. A \cap B = {}
  BY <1>5, <1>6, <1>7 DEF BytesIn
<1>10. IsFiniteSet(A) /\ Cardinality(A) = n
  BY <1>6 DEF Counts
<1>11. IsFiniteSet(B) /\ Cardinality(B) = to - from
  <2>1. IsFiniteSet({x}) /\ Cardinality({x}) = 1
    BY FS_Singleton
  <2>2. IsFiniteSet(1..(to - from)) /\ Cardinality(1..(to - from)) = to - from
    <3>1. 1 \in Int /\ to - from \in Int
      BY <1>2
    <3>2. /\ IsFiniteSet(1..(to - from))
          /\ Cardinality(1..(to - from)) = IF 1 > to - from THEN 0 ELSE (to - from) - 1 + 1
      BY <3>1, FS_Interval
    <3> QED
      BY <1>2, <3>2
  <2>3. IsFiniteSet(B) /\ Cardinality(B) = 1 * (to - from)
    BY <1>3, <1>7, <2>1, <2>2, FS_Product
  <2> QED
    BY <1>2, <2>3
<1>12. IsFiniteSet(A \cup B) /\ Cardinality(A \cup B) = n + (to - from)
  <2>1. Cardinality(A \cap B) = 0
    BY <1>9, FS_EmptySet
  <2>2. /\ IsFiniteSet(A \cup B)
        /\ Cardinality(A \cup B) = Cardinality(A) + Cardinality(B) - Cardinality(A \cap B)
    BY <1>10, <1>11, FS_Union
  <2> QED
    BY <1>2, <1>10, <1>11, <2>1, <2>2
<1> QED
  BY <1>4, <1>8, <1>12 DEF Counts

\* The fields of each operation follow each other.
LEMMA DeployCounted ==
    ASSUME NEW f \in Seq(WireByte), Len(f) >= 25
    PROVE  Counts(f, Layout(1), 24)
<1>1. Counts(f, {}, 0)
  BY CountsNone
<1>2. Counts(f, {<<"tick", 1, 5>>}, 4)
  <2>1. /\ \A l \in {} : l[1] # "tick"
        /\ 1 \in Nat /\ 5 \in 1..Len(f) /\ 0 \in Nat
    OBVIOUS
  <2>2. Counts(f, {} \cup {<<"tick", 1, 5>>}, 0 + (5 - 1))
    BY <1>1, <2>1, CountsMore
  <2>3. {} \cup {<<"tick", 1, 5>>} = {<<"tick", 1, 5>>} /\ 0 + (5 - 1) = 4
    OBVIOUS
  <2> QED
    BY <2>2, <2>3
<1>3. Counts(f, {<<"tick", 1, 5>>, <<"maxSupply", 5, 13>>}, 12)
  <2>1. /\ \A l \in {<<"tick", 1, 5>>} : l[1] # "maxSupply"
        /\ 5 \in Nat /\ 13 \in 5..Len(f) /\ 4 \in Nat
    OBVIOUS
  <2>2. Counts(f, {<<"tick", 1, 5>>} \cup {<<"maxSupply", 5, 13>>}, 4 + (13 - 5))
    BY <1>2, <2>1, CountsMore
  <2>3. {<<"tick", 1, 5>>} \cup {<<"maxSupply", 5, 13>>} = {<<"tick", 1, 5>>, <<"maxSupply", 5, 13>>} /\ 4 + (13 - 5) = 12
    OBVIOUS
  <2> QED
    BY <2>2, <2>3
<1>4. Counts(f, {<<"tick", 1, 5>>, <<"maxSupply", 5, 13>>, <<"limitPerMint", 13, 21>>}, 20)
  <2>1. /\ \A l \in {<<"tick", 1, 5>>, <<"maxSupply", 5, 13>>} : l[1] # "limitPerMint"
        /\ 13 \in Nat /\ 21 \in 13..Len(f) /\ 12 \in Nat
    OBVIOUS
  <2>2. Counts(f, {<<"tick", 1, 5>>, <<"maxSupply", 5, 13>>} \cup {<<"limitPerMint", 13, 21>>}, 12 + (21 - 13))
    BY <1>3, <2>1, CountsMore
  <2>3. {<<"tick", 1, 5>>, <<"maxSupply", 5, 13>>} \cup {<<"limitPerMint", 13, 21>>} = {<<"tick", 1, 5>>, <<"maxSupply", 5, 13>>, <<"limitPerMint", 13, 21>>} /\ 12 + (21 - 13) = 20
    OBVIOUS
  <2> QED
    BY <2>2, <2>3
<1>5. Counts(f, {<<"tick", 1, 5>>, <<"maxSupply", 5, 13>>, <<"limitPerMint", 13, 21>>, <<"nonce", 21, 25>>}, 24)
  <2>1. /\ \A l \in {<<"tick", 1, 5>>, <<"maxSupply", 5, 13>>, <<"limitPerMint", 13, 21>>} : l[1] # "nonce"
        /\ 21 \in Nat /\ 25 \in 21..Len(f) /\ 20 \in Nat
    OBVIOUS
  <2>2. Counts(f, {<<"tick", 1, 5>>, <<"maxSupply", 5, 13>>, <<"limitPerMint", 13, 21>>} \cup {<<"nonce", 21, 25>>}, 20 + (25 - 21))
    BY <1>4, <2>1, CountsMore
  <2>3. {<<"tick", 1, 5>>, <<"maxSupply", 5, 13>>, <<"limitPerMint", 13, 21>>} \cup {<<"nonce", 21, 25>>} = {<<"tick", 1, 5>>, <<"maxSupply", 5, 13>>, <<"limitPerMint", 13, 21>>, <<"nonce", 21, 25>>} /\ 20 + (25 - 21) = 24
    OBVIOUS
  <2> QED
    BY <2>2, <2>3
<1> QED
  BY <1>5 DEF Layout

LEMMA MintCounted ==
    ASSUME NEW f \in Seq(WireByte), Len(f) >= 17
    PROVE  Counts(f, Layout(2), 16)
<1>1. Counts(f, {}, 0)
  BY CountsNone
<1>2. Counts(f, {<<"tick", 1, 5>>}, 4)
  <2>1. /\ \A l \in {} : l[1] # "tick"
        /\ 1 \in Nat /\ 5 \in 1..Len(f) /\ 0 \in Nat
    OBVIOUS
  <2>2. Counts(f, {} \cup {<<"tick", 1, 5>>}, 0 + (5 - 1))
    BY <1>1, <2>1, CountsMore
  <2>3. {} \cup {<<"tick", 1, 5>>} = {<<"tick", 1, 5>>} /\ 0 + (5 - 1) = 4
    OBVIOUS
  <2> QED
    BY <2>2, <2>3
<1>3. Counts(f, {<<"tick", 1, 5>>, <<"amount", 5, 13>>}, 12)
  <2>1. /\ \A l \in {<<"tick", 1, 5>>} : l[1] # "amount"
        /\ 5 \in Nat /\ 13 \in 5..Len(f) /\ 4 \in Nat
    OBVIOUS
  <2>2. Counts(f, {<<"tick", 1, 5>>} \cup {<<"amount", 5, 13>>}, 4 + (13 - 5))
    BY <1>2, <2>1, CountsMore
  <2>3. {<<"tick", 1, 5>>} \cup {<<"amount", 5, 13>>} = {<<"tick", 1, 5>>, <<"amount", 5, 13>>} /\ 4 + (13 - 5) = 12
    OBVIOUS
  <2> QED
    BY <2>2, <2>3
<1>4. Counts(f, {<<"tick", 1, 5>>, <<"amount", 5, 13>>, <<"nonce", 13, 17>>}, 16)
  <2>1. /\ \A l \in {<<"tick", 1, 5>>, <<"amount", 5, 13>>} : l[1] # "nonce"
        /\ 13 \in Nat /\ 17 \in 13..Len(f) /\ 12 \in Nat
    OBVIOUS
  <2>2. Counts(f, {<<"tick", 1, 5>>, <<"amount", 5, 13>>} \cup {<<"nonce", 13, 17>>}, 12 + (17 - 13))
    BY <1>3, <2>1, CountsMore
  <2>3. {<<"tick", 1, 5>>, <<"amount", 5, 13>>} \cup {<<"nonce", 13, 17>>} = {<<"tick", 1, 5>>, <<"amount", 5, 13>>, <<"nonce", 13, 17>>} /\ 12 + (17 - 13) = 16
    OBVIOUS
  <2> QED
    BY <2>2, <2>3
<1> QED
  BY <1>4 DEF Layout

LEMMA TransferCounted ==
    ASSUME NEW f \in Seq(WireByte), Len(f) >= 25
    PROVE  Counts(f, Layout(3), 24)
<1>1. Counts(f, {}, 0)
  BY CountsNone
<1>2. Counts(f, {<<"tick", 1, 5>>}, 4)
  <2>1. /\ \A l \in {} : l[1] # "tick"
        /\ 1 \in Nat /\ 5 \in 1..Len(f) /\ 0 \in Nat
    OBVIOUS
  <2>2. Counts(f, {} \cup {<<"tick", 1, 5>>}, 0 + (5 - 1))
    BY <1>1, <2>1, CountsMore
  <2>3. {} \cup {<<"tick", 1, 5>>} = {<<"tick", 1, 5>>} /\ 0 + (5 - 1) = 4
    OBVIOUS
  <2> QED
    BY <2>2, <2>3
<1>3. Counts(f, {<<"tick", 1, 5>>, <<"amount", 5, 13>>}, 12)
  <2>1. /\ \A l \in {<<"tick", 1, 5>>} : l[1] # "amount"
        /\ 5 \in Nat /\ 13 \in 5..Len(f) /\ 4 \in Nat
    OBVIOUS
  <2>2. Counts(f, {<<"tick", 1, 5>>} \cup {<<"amount", 5, 13>>}, 4 + (13 - 5))
    BY <1>2, <2>1, CountsMore
  <2>3. {<<"tick", 1, 5>>} \cup {<<"amount", 5, 13>>} = {<<"tick", 1, 5>>, <<"amount", 5, 13>>} /\ 4 + (13 - 5) = 12
    OBVIOUS
  <2> QED
    BY <2>2, <2>3
<1>4. Counts(f, {<<"tick", 1, 5>>, <<"amount", 5, 13>>, <<"nonce", 13, 17>>}, 16)
  <2>1. /\ \A l \in {<<"tick", 1, 5>>, <<"amount", 5, 13>>} : l[1] # "nonce"
        /\ 13 \in Nat /\ 17 \in 13..Len(f) /\ 12 \in Nat
    OBVIOUS
  <2>2. Counts(f, {<<"tick", 1, 5>>, <<"amount", 5, 13>>} \cup {<<"nonce", 13, 17>>}, 12 + (17 - 13))
    BY <1>3, <2>1, CountsMore
  <2>3. {<<"tick", 1, 5>>, <<"amount", 5, 13>>} \cup {<<"nonce", 13, 17>>} = {<<"tick", 1, 5>>, <<"amount", 5, 13>>, <<"nonce", 13, 17>>} /\ 12 + (17 - 13) = 16
    OBVIOUS
  <2> QED
    BY <2>2, <2>3
<1>5. Counts(f, {<<"tick", 1, 5>>, <<"amount", 5, 13>>, <<"nonce", 13, 17>>, <<"recipientDeviceId", 17, 25>>}, 24)
  <2>1. /\ \A l \in {<<"tick", 1, 5>>, <<"amount", 5, 13>>, <<"nonce", 13, 17>>} : l[1] # "recipientDeviceId"
        /\ 17 \in Nat /\ 25 \in 17..Len(f) /\ 16 \in Nat
    OBVIOUS
  <2>2. Counts(f, {<<"tick", 1, 5>>, <<"amount", 5, 13>>, <<"nonce", 13, 17>>} \cup {<<"recipientDeviceId", 17, 25>>}, 16 + (25 - 17))
    BY <1>4, <2>1, CountsMore
  <2>3. {<<"tick", 1, 5>>, <<"amount", 5, 13>>, <<"nonce", 13, 17>>} \cup {<<"recipientDeviceId", 17, 25>>} = {<<"tick", 1, 5>>, <<"amount", 5, 13>>, <<"nonce", 13, 17>>, <<"recipientDeviceId", 17, 25>>} /\ 16 + (25 - 17) = 24
    OBVIOUS
  <2> QED
    BY <2>2, <2>3
<1> QED
  BY <1>5 DEF Layout

LEMMA ConfigCounted ==
    ASSUME NEW f \in Seq(WireByte), Len(f) >= 10
    PROVE  Counts(f, Layout(16), 9)
<1>1. Counts(f, {}, 0)
  BY CountsNone
<1>2. Counts(f, {<<"flags", 1, 2>>}, 1)
  <2>1. /\ \A l \in {} : l[1] # "flags"
        /\ 1 \in Nat /\ 2 \in 1..Len(f) /\ 0 \in Nat
    OBVIOUS
  <2>2. Counts(f, {} \cup {<<"flags", 1, 2>>}, 0 + (2 - 1))
    BY <1>1, <2>1, CountsMore
  <2>3. {} \cup {<<"flags", 1, 2>>} = {<<"flags", 1, 2>>} /\ 0 + (2 - 1) = 1
    OBVIOUS
  <2> QED
    BY <2>2, <2>3
<1>3. Counts(f, {<<"flags", 1, 2>>, <<"intervalSeconds", 2, 6>>}, 5)
  <2>1. /\ \A l \in {<<"flags", 1, 2>>} : l[1] # "intervalSeconds"
        /\ 2 \in Nat /\ 6 \in 2..Len(f) /\ 1 \in Nat
    OBVIOUS
  <2>2. Counts(f, {<<"flags", 1, 2>>} \cup {<<"intervalSeconds", 2, 6>>}, 1 + (6 - 2))
    BY <1>2, <2>1, CountsMore
  <2>3. {<<"flags", 1, 2>>} \cup {<<"intervalSeconds", 2, 6>>} = {<<"flags", 1, 2>>, <<"intervalSeconds", 2, 6>>} /\ 1 + (6 - 2) = 5
    OBVIOUS
  <2> QED
    BY <2>2, <2>3
<1>4. Counts(f, {<<"flags", 1, 2>>, <<"intervalSeconds", 2, 6>>, <<"nonce", 6, 10>>}, 9)
  <2>1. /\ \A l \in {<<"flags", 1, 2>>, <<"intervalSeconds", 2, 6>>} : l[1] # "nonce"
        /\ 6 \in Nat /\ 10 \in 6..Len(f) /\ 5 \in Nat
    OBVIOUS
  <2>2. Counts(f, {<<"flags", 1, 2>>, <<"intervalSeconds", 2, 6>>} \cup {<<"nonce", 6, 10>>}, 5 + (10 - 6))
    BY <1>3, <2>1, CountsMore
  <2>3. {<<"flags", 1, 2>>, <<"intervalSeconds", 2, 6>>} \cup {<<"nonce", 6, 10>>} = {<<"flags", 1, 2>>, <<"intervalSeconds", 2, 6>>, <<"nonce", 6, 10>>} /\ 5 + (10 - 6) = 9
    OBVIOUS
  <2> QED
    BY <2>2, <2>3
<1> QED
  BY <1>4 DEF Layout

LEMMA MessageCounted ==
    ASSUME NEW f \in Seq(WireByte), Len(f) >= 14
    PROVE  Counts(f, Layout(4), 13)
<1>1. Counts(f, {}, 0)
  BY CountsNone
<1>2. Counts(f, {<<"recipientDeviceId", 1, 9>>}, 8)
  <2>1. /\ \A l \in {} : l[1] # "recipientDeviceId"
        /\ 1 \in Nat /\ 9 \in 1..Len(f) /\ 0 \in Nat
    OBVIOUS
  <2>2. Counts(f, {} \cup {<<"recipientDeviceId", 1, 9>>}, 0 + (9 - 1))
    BY <1>1, <2>1, CountsMore
  <2>3. {} \cup {<<"recipientDeviceId", 1, 9>>} = {<<"recipientDeviceId", 1, 9>>} /\ 0 + (9 - 1) = 8
    OBVIOUS
  <2> QED
    BY <2>2, <2>3
<1>3. Counts(f, {<<"recipientDeviceId", 1, 9>>, <<"nonce", 9, 13>>}, 12)
  <2>1. /\ \A l \in {<<"recipientDeviceId", 1, 9>>} : l[1] # "nonce"
        /\ 9 \in Nat /\ 13 \in 9..Len(f) /\ 8 \in Nat
    OBVIOUS
  <2>2. Counts(f, {<<"recipientDeviceId", 1, 9>>} \cup {<<"nonce", 9, 13>>}, 8 + (13 - 9))
    BY <1>2, <2>1, CountsMore
  <2>3. {<<"recipientDeviceId", 1, 9>>} \cup {<<"nonce", 9, 13>>} = {<<"recipientDeviceId", 1, 9>>, <<"nonce", 9, 13>>} /\ 8 + (13 - 9) = 12
    OBVIOUS
  <2> QED
    BY <2>2, <2>3
<1>4. Counts(f, {<<"recipientDeviceId", 1, 9>>, <<"nonce", 9, 13>>, <<"messageLength", 13, 14>>}, 13)
  <2>1. /\ \A l \in {<<"recipientDeviceId", 1, 9>>, <<"nonce", 9, 13>>} : l[1] # "messageLength"
        /\ 13 \in Nat /\ 14 \in 13..Len(f) /\ 12 \in Nat
    OBVIOUS
  <2>2. Counts(f, {<<"recipientDeviceId", 1, 9>>, <<"nonce", 9, 13>>} \cup {<<"messageLength", 13, 14>>}, 12 + (14 - 13))
    BY <1>3, <2>1, CountsMore
  <2>3. {<<"recipientDeviceId", 1, 9>>, <<"nonce", 9, 13>>} \cup {<<"messageLength", 13, 14>>} = {<<"recipientDeviceId", 1, 9>>, <<"nonce", 9, 13>>, <<"messageLength", 13, 14>>} /\ 12 + (14 - 13) = 13
    OBVIOUS
  <2> QED
    BY <2>2, <2>3
<1> QED
  BY <1>4 DEF Layout

LEMMA SignatureCounted ==
    ASSUME NEW f \in Seq(WireByte), NEW L, \A l \in L : l[1] # "signature",
           NEW n \in Nat, Len(f) = n + 1 + SignatureLength, Counts(f, L, n)
    PROVE  Counts(f, L \cup {<<"signature", Len(f) - SignatureLength, Len(f)>>}, Len(f) - 1)
<1>1. SignatureLength \in Nat /\ Len(f) \in Nat
  BY ParserAssumption
<1>2. PICK from \in Nat : from = Len(f) - SignatureLength
  BY <1>1
<1>3. Len(f) \in from..Len(f) /\ n + (Len(f) - from) = Len(f) - 1
  BY <1>1, <1>2
<1>4. Counts(f, L \cup {<<"signature", from, Len(f)>>}, n + (Len(f) - from))
  BY <1>3, CountsMore
<1> QED
  BY <1>2, <1>3, <1>4

\* All of a payload that is taken but its operation code.
LEMMA AllCounted ==
    ASSUME NEW f \in Seq(WireByte), WellFormed(f)
    PROVE  Cardinality(BytesIn(Read(f))) = Len(f) - 1
<1>1. SignatureLength \in Nat /\ Len(f) \in Nat
  BY ParserAssumption
<1>2. SUFFICES Counts(f, Cuts(f), Len(f) - 1)
  BY DEF Counts, Read, Slices
<1>3. CASE f[1][2] = 1
  <2>1. Len(f) = 24 + 1 + SignatureLength /\ 24 \in Nat /\ Len(f) >= 25
    BY <1>1, <1>3 DEF WellFormed, ExpectedLength
  <2>2. Counts(f, Layout(1), 24) /\ \A l \in Layout(1) : l[1] # "signature"
    BY <2>1, DeployCounted DEF Layout
  <2>3. Cuts(f) = Layout(1) \cup {<<"signature", Len(f) - SignatureLength, Len(f)>>}
    BY <1>3 DEF Cuts
  <2> QED
    BY <2>1, <2>2, <2>3, SignatureCounted
<1>4. CASE f[1][2] = 2
  <2>1. Len(f) = 16 + 1 + SignatureLength /\ 16 \in Nat /\ Len(f) >= 17
    BY <1>1, <1>4 DEF WellFormed, ExpectedLength
  <2>2. Counts(f, Layout(2), 16) /\ \A l \in Layout(2) : l[1] # "signature"
    BY <2>1, MintCounted DEF Layout
  <2>3. Cuts(f) = Layout(2) \cup {<<"signature", Len(f) - SignatureLength, Len(f)>>}
    BY <1>4 DEF Cuts
  <2> QED
    BY <2>1, <2>2, <2>3, SignatureCounted
<1>5. CASE f[1][2] = 3
  <2>1. Len(f) = 24 + 1 + SignatureLength /\ 24 \in Nat /\ Len(f) >= 25
    BY <1>1, <1>5 DEF WellFormed, ExpectedLength
  <2>2. Counts(f, Layout(3), 24) /\ \A l \in Layout(3) : l[1] # "signature"
    BY <2>1, TransferCounted DEF Layout
  <2>3. Cuts(f) = Layout(3) \cup {<<"signature", Len(f) - SignatureLength, Len(f)>>}
    BY <1>5 DEF Cuts
  <2> QED
    BY <2>1, <2>2, <2>3, SignatureCounted
<1>6. CASE f[1][2] = 16
  <2>1. Len(f) = 9 + 1 + SignatureLength /\ 9 \in Nat /\ Len(f) >= 10
    BY <1>1, <1>6 DEF WellFormed, ExpectedLength
  <2>2. Counts(f, Layout(16), 9) /\ \A l \in Layout(16) : l[1] # "signature"
    BY <2>1, ConfigCounted DEF Layout
  <2>3. Cuts(f) = Layout(16) \cup {<<"signature", Len(f) - SignatureLength, Len(f)>>}
    BY <1>6 DEF Cuts
  <2> QED
    BY <2>1, <2>2, <2>3, SignatureCounted
<1>7. CASE f[1][2] = 4
  <2>1. Len(f) > 14 + SignatureLength
    BY <1>1, <1>7 DEF WellFormed
  <2>2. PICK last \in Nat : last = Len(f) - SignatureLength /\ last > 14 /\ last <= Len(f)
    <3>1. PICK last \in Int : last = Len(f) - SignatureLength
      BY <1>1
    <3>2. last > 14 /\ last <= Len(f) /\ last \in Nat
      BY <1>1, <2>1, <3>1
    <3> QED
      BY <3>1, <3>2
  <2>3. Counts(f, Layout(4), 13) /\ \A l \in Layout(4) : l[1] # "messagePacked" /\ l[1] # "signature"
    BY <1>1, <2>1, MessageCounted DEF Layout
  <2>4. 14 \in Nat /\ 13 \in Nat /\ last \in 14..Len(f)
    BY <1>1, <2>2
  <2>5. Counts(f, Layout(4) \cup {<<"messagePacked", 14, last>>}, 13 + (last - 14))
    BY <2>3, <2>4, CountsMore
  <2>6. PICK n \in Nat : n = 13 + (last - 14) /\ Len(f) = n + 1 + SignatureLength
    <3>1. PICK n \in Int : n = 13 + (last - 14)
      BY <2>2
    <3>2. n \in Nat /\ Len(f) = n + 1 + SignatureLength
      BY <1>1, <2>2, <3>1
    <3> QED
      BY <3>1, <3>2
  <2>7. \A l \in Layout(4) \cup {<<"messagePacked", 14, last>>} : l[1] # "signature"
    BY <2>3
  <2>8. Cuts(f) = (Layout(4) \cup {<<"messagePacked", 14, last>>})
                    \cup {<<"signature", Len(f) - SignatureLength, Len(f)>>}
    BY <1>7, <2>2 DEF Cuts
  <2>9. Counts(f, Layout(4) \cup {<<"messagePacked", 14, last>>}, n)
    BY <2>5, <2>6
  <2> QED
    BY <2>6, <2>7, <2>8, <2>9, SignatureCounted
<1> QED
  BY <1>3, <1>4, <1>5, <1>6, <1>7 DEF WellFormed

-----------------------------------------------------------------------------
\* Payloads of a device are taken.

LEMMA LetteredIsValid ==
    ASSUME NEW f \in Seq(WireByte), Lettered(f)
    PROVE  ValidTick(Slice(f, 1, 5))
<1>1. Len(f) \in Nat /\ Len(f) >= 5 /\ \A i \in 2..5 : f[i][2] \in 65..68
  BY DEF Lettered
<1>2. 1 \in Nat /\ 5 \in 1..Len(f)
  BY <1>1
<1>3. Slice(f, 1, 5) \in Seq(WireByte) /\ Len(Slice(f, 1, 5)) = 5 - 1
  BY <1>2, SliceLen
<1>4. \A i \in 2..5 : f[i] \in WireByte
  <2>1. \A i \in 2..5 : i \in 1..Len(f)
    BY <1>1
  <2> QED
    BY <2>1, ElementOfSeq
<1>5. \A i \in 1..4 : Slice(f, 1, 5)[i] = f[i + 1]
  <2>1. 2 \in Int /\ 5 \in Int /\ 2 <= 5 + 1
    OBVIOUS
  <2>2. \A i \in 1..(5 - 2 + 1) : SubSeq(f, 2, 5)[i] = f[2 + i - 1]
    BY <1>4, <2>1, SubSeqProperties
  <2> QED
    BY <2>2 DEF Slice
<1>6. \A i \in 1..4 : Slice(f, 1, 5)[i][2] \in 65..68
  <2>1. \A i \in 1..4 : i + 1 \in 2..5
    OBVIOUS
  <2> QED
    BY <1>1, <1>5, <2>1
<1>7. \A x \in 65..68 : x % 128 \in (48..57) \cup (65..90)
  OBVIOUS
<1>8. DOMAIN Slice(f, 1, 5) = 1..4
  BY <1>3
<1>9. \A i \in DOMAIN Slice(f, 1, 5) :
         Slice(f, 1, 5)[i][2] % 128 \in (48..57) \cup (65..90)
  BY <1>6, <1>7, <1>8
<1> QED
  BY <1>9 DEF ValidTick

\* Taken, and cut where it was written.
IsTaken(f) ==
    /\ WellFormed(f)
    /\ \E code : Cut(f, code, Cuts(f))
    /\ \A l \in Cuts(f) : l[1] # "op"

LEMMA WrittenIsTaken ==
    ASSUME NEW f, NEW code \in {1, 2, 3, 16}, NEW n \in Nat \ {0}, IsWritten(f, code, n),
           n + SignatureLength = ExpectedLength(code), code # 16 => Lettered(f)
    PROVE  IsTaken(f)
<1>1. SignatureLength \in Nat /\ f \in Seq(WireByte) /\ Len(f) = n + SignatureLength
      /\ f[1] = <<"op", code>>
  BY ParserAssumption DEF IsWritten, Cut
<1>2. f[1][2] = code /\ Len(f) - SignatureLength = n
  BY <1>1
<1>3. WellFormed(f)
  <2>1. Len(f) >= 1 + SignatureLength /\ code \in {1, 2, 3, 4, 16} /\ code # 4
    BY <1>1
  <2>2. code \in {1, 2, 3} => ValidTick(Slice(f, 1, 5))
    BY <1>1, LetteredIsValid
  <2> QED
    BY <1>1, <1>2, <2>1, <2>2 DEF WellFormed
<1>4. Cuts(f) = Layout(code) \cup {<<"signature", n, n + SignatureLength>>}
  BY <1>1, <1>2 DEF Cuts
<1>5. Cut(f, code, Cuts(f))
  BY <1>4 DEF IsWritten
<1>6. \A l \in Cuts(f) : l[1] # "op"
  BY <1>4 DEF Layout
<1> QED
  BY <1>3, <1>5, <1>6 DEF IsTaken

LEMMA DeviceIsTaken == \A f \in Written : IsTaken(f)
<1>1. SignatureLength \in Nat
  BY ParserAssumption
<1>2. IsTaken(BuildDeploy)
  <2>1. 25 \in Nat \ {0} /\ 25 + SignatureLength = ExpectedLength(1)
    BY <1>1 DEF ExpectedLength
  <2> QED
    BY <2>1, DeployWritten, WrittenIsTaken
<1>3. IsTaken(BuildMint)
  <2>1. 17 \in Nat \ {0} /\ 17 + SignatureLength = ExpectedLength(2)
    BY <1>1 DEF ExpectedLength
  <2> QED
    BY <2>1, MintWritten, WrittenIsTaken
<1>4. IsTaken(BuildTransfer)
  <2>1. 25 \in Nat \ {0} /\ 25 + SignatureLength = ExpectedLength(3)
    BY <1>1 DEF ExpectedLength
  <2> QED
    BY <2>1, TransferWritten, WrittenIsTaken
<1>5. IsTaken(BuildConfig)
  <2>1. 10 \in Nat \ {0} /\ 10 + SignatureLength = ExpectedLength(16)
    BY <1>1 DEF ExpectedLength
  <2> QED
    BY <2>1, ConfigWritten, WrittenIsTaken
<1> QED
  BY <1>2, <1>3, <1>4, <1>5 DEF Written

\* The payload is the message around some characters.
IsSent(f) ==
    \E n \in 1..255, bytes \in Seq(Byte) :
        Len(bytes) = PackedByteLength(n) /\ f = BuildMessage(n, bytes)

LEMMA SentIsTaken ==
    ASSUME NEW f, IsSent(f)
    PROVE  IsTaken(f)
<1>1. PICK n \in 1..255, bytes \in Seq(Byte) :
         Len(bytes) = PackedByteLength(n) /\ f = BuildMessage(n, bytes)
  BY DEF IsSent
<1>2. n \in Byte /\ n > 0 /\ Len(bytes) \in Nat /\ Len(bytes) > 0
  BY <1>1 DEF Byte, PackedByteLength
<1>3. PICK last \in Nat : last = 14 + Len(bytes)
  BY <1>2
<1>4. /\ Len(f) = last + SignatureLength
      /\ Cut(f, 4, (Layout(4) \cup {<<"messagePacked", 14, last>>})
                     \cup {<<"signature", last, last + SignatureLength>>})
  BY <1>1, <1>2, <1>3, MessageWritten
<1>5. f[1][2] = 4 /\ f[14][2] = n
  BY <1>1, <1>2, MessageCut
<1>6. SignatureLength \in Nat /\ Len(f) - SignatureLength = last /\ last > 14
  BY <1>2, <1>3, <1>4, ParserAssumption
<1>7. WellFormed(f)
  <2>1. Len(f) >= 1 + SignatureLength /\ Len(f) > 1 + 8 + 4 + 1 + SignatureLength
    BY <1>4, <1>6
  <2>2. Len(f) - SignatureLength - 14 = PackedByteLength(f[14][2])
    BY <1>1, <1>2, <1>3, <1>5, <1>6
  <2> QED
    BY <1>2, <1>5, <2>1, <2>2 DEF WellFormed
<1>8. Cuts(f) = (Layout(4) \cup {<<"messagePacked", 14, last>>})
                  \cup {<<"signature", last, last + SignatureLength>>}
  BY <1>4, <1>5, <1>6 DEF Cuts
<1>9. Cut(f, 4, Cuts(f))
  BY <1>4, <1>8
<1>10. \A l \in Cuts(f) : l[1] # "op"
  BY <1>8 DEF Layout
<1> QED
  BY <1>7, <1>9, <1>10 DEF IsTaken

-----------------------------------------------------------------------------
\* The inductive invariant of the fields.

\* The encoder's bytes are as many as the count calls for; what was sent is a
\* message; and the fields of a payload that was taken are its slices.
TakenInv ==
    /\ phase = "encoded" => charCount \in 1..255 /\ Len(packed) = PackedByteLength(charCount)
    /\ (text # <<>> /\ phase \in {"parse", "malformed", "decode", "parsed"}) => IsSent(frame)
    /\ phase = "malformed" => ~WellFormed(frame)
    /\ phase \in {"decode", "parsed"} => WellFormed(frame) /\ fields = Read(frame)

\* Nothing was read yet, and nothing was sent.
LEMMA TakenInvInit == Init => TakenInv
BY DEF Init, StartEncode, TakenInv

LEMMA FlushFills ==
    ASSUME WireInv, BitsInv, FlushBits
    PROVE  charCount' \in 1..255 /\ Len(packed') = PackedByteLength(charCount')
<1>1. PICK n \in 1..MaxCharCount : n = Len(text)
  BY DEF FlushBits, WireInv, Encoding
<1>2. n \in 1..255 /\ charCount' = n /\ position = n
  <2>1. n \in 1..255
    BY CodecAssumption
  <2>2. charCount' = n /\ position = n
    BY <1>1 DEF FlushBits
  <2> QED
    BY <2>1, <2>2
<1>3. packed \in Seq(Byte) /\ Len(packed) \in Nat /\ bitCount \in 0..7 /\ bitBuffer \in Nat
  <2>1. packed \in Seq(Byte) /\ BitsBounded /\ bitCount < 8
    BY DEF FlushBits, WireInv, WireTypeOK
  <2>2. PowerOfTwo(bitCount) \in Nat
    BY <2>1, PowersPositive DEF BitsBounded
  <2> QED
    BY <2>1, <2>2 DEF BitsBounded
<1>4. bitCount = 6 * n - 8 * Len(packed)
  BY <1>2 DEF FlushBits, BitsInv, Packing
<1>5. CASE bitCount > 0
  <2>1. Len(packed') = Len(packed) + 1
    BY <1>3, <1>5 DEF FlushBits
  <2>2. Len(packed) + 1 = (n * 6 + 7) \div 8
    BY <1>2, <1>3, <1>4, <1>5
  <2> QED
    BY <1>2, <2>1, <2>2 DEF PackedByteLength
<1>6. CASE bitCount = 0
  <2>1. Len(packed') = Len(packed)
    BY <1>6 DEF FlushBits
  <2>2. Len(packed) = (n * 6 + 7) \div 8
    BY <1>2, <1>3, <1>4, <1>6
  <2> QED
    BY <1>2, <2>1, <2>2 DEF PackedByteLength
<1> QED
  BY <1>3, <1>5, <1>6

LEMMA TakenInvStep == WireInv /\ BitsInv /\ TakenInv /\ [Next]_wireVars => TakenInv'
<1> SUFFICES ASSUME WireInv, BitsInv, TakenInv, [Next]_wireVars PROVE TakenInv'
  OBVIOUS
<1>1. CASE EncodeChar /\ UNCHANGED <<frame, fields>>
  BY <1>1 DEF EncodeChar, TakenInv
<1>2. CASE EmitByte /\ UNCHANGED <<frame, fields>>
  BY <1>2 DEF EmitByte, TakenInv
<1>3. CASE FlushBits /\ UNCHANGED <<frame, fields>>
  <2>1. charCount' \in 1..255 /\ Len(packed') = PackedByteLength(charCount')
    BY <1>3, FlushFills
  <2>2. (phase = "encoded")'
    BY <1>3 DEF FlushBits
  <2>3. PackedByteLength(charCount') = PackedByteLength(charCount)'
    BY DEF PackedByteLength
  <2> QED
    BY <2>1, <2>2, <2>3 DEF TakenInv
<1>4. CASE (ReadByte \/ DecodeChar) /\ UNCHANGED <<frame, fields>>
  <2>1. phase = "decode" /\ (phase \in {"decode", "RangeError"})' /\ UNCHANGED <<text, frame, fields>>
    BY <1>4 DEF ReadByte, DecodeChar
  <2>2. Read(frame)' = Read(frame) /\ WellFormed(frame)' = WellFormed(frame)
        /\ IsSent(frame)' = IsSent(frame)
    BY <2>1
  <2> QED
    BY <2>1, <2>2 DEF TakenInv
<1>5. CASE DecodeEnds /\ UNCHANGED <<frame, fields>>
  <2>1. phase = "decode" /\ (phase = "parsed")' /\ UNCHANGED <<text, frame, fields>>
    BY <1>5 DEF DecodeEnds
  <2>2. Read(frame)' = Read(frame) /\ WellFormed(frame)' = WellFormed(frame)
        /\ IsSent(frame)' = IsSent(frame)
    BY <2>1
  <2> QED
    BY <2>1, <2>2 DEF TakenInv
<1>6. CASE SendMessage
  <2>1. charCount \in 1..255 /\ Len(packed) = PackedByteLength(charCount) /\ packed \in Seq(Byte)
    BY <1>6 DEF SendMessage, TakenInv, WireInv, WireTypeOK
  <2>2. IsSent(BuildMessage(charCount, packed))
    BY <2>1 DEF IsSent
  <2>3. frame' = BuildMessage(charCount, packed) /\ (phase = "parse")'
    BY <1>6 DEF SendMessage
  <2>4. IsSent(frame')
    BY <2>2, <2>3
  <2> QED
    BY <2>3, <2>4 DEF TakenInv
<1>7. CASE Malformed
  BY <1>7 DEF Malformed, TakenInv
<1>8. CASE ParseFields
  <2>1. phase = "parse" /\ (phase = "parsed")' /\ UNCHANGED <<text, frame>> /\ WellFormed(frame)
        /\ fields' = FieldsOf(frame) /\ frame[1][2] # 4
    BY <1>8 DEF ParseFields
  <2>2. fields' = Read(frame)
    BY <2>1, ReadIs
  <2>3. Read(frame)' = Read(frame) /\ WellFormed(frame)' = WellFormed(frame)
        /\ IsSent(frame)' = IsSent(frame)
    BY <2>1
  <2> QED
    BY <2>1, <2>2, <2>3 DEF TakenInv
<1>9. CASE ParseMessage
  <2>1. /\ phase = "parse" /\ UNCHANGED <<text, frame>> /\ WellFormed(frame) /\ frame[1][2] = 4
        /\ fields' = FieldsOf(frame)
                       \cup {<<"messagePacked", Slice(frame, 14, Len(frame) - SignatureLength)>>}
        /\ (phase \in {"decode", "RangeError"})'
    BY <1>9 DEF ParseMessage, StartDecode
  <2>2. fields' = Read(frame)
    BY <2>1, ReadIs
  <2>3. Read(frame)' = Read(frame) /\ WellFormed(frame)' = WellFormed(frame)
        /\ IsSent(frame)' = IsSent(frame)
    BY <2>1
  <2> QED
    BY <2>1, <2>2, <2>3 DEF TakenInv
<1>10. CASE UNCHANGED wireVars
  BY <1>10 DEF wireVars, TakenInv
<1> QED
  BY <1>1, <1>2, <1>3, <1>4, <1>5, <1>6, <1>7, <1>8, <1>9, <1>10 DEF Next, CodecStep

\* What is taken is read as it was written, if a device wrote it, and to the
\* last byte, whoever wrote it.
LEMMA TakenIsRead == WireInv /\ TakenInv => FieldsRead
<1> SUFFICES ASSUME WireInv, TakenInv PROVE FieldsRead
  OBVIOUS
<1>1. frame \in Seq(WireByte)
  BY DEF WireInv
<1>2. ASSUME phase \in {"malformed", "parsed"}, FromDevice PROVE IsTaken(frame)
  BY <1>2, DeviceIsTaken, SentIsTaken DEF FromDevice, TakenInv
<1>3. phase = "malformed" => ~FromDevice
  BY <1>2 DEF TakenInv, IsTaken
<1>4. ASSUME phase = "parsed"
      PROVE  /\ FromDevice => /\ {f[1] : f \in fields} = {frame[i][1] : i \in DOMAIN frame} \ {"op"}
                              /\ \A f \in fields : AsWritten(f)
             /\ Cardinality(BytesRead) = Len(frame) - 1
  <2>1. WellFormed(frame) /\ fields = Read(frame)
    BY <1>4 DEF TakenInv
  <2>2. BytesRead = BytesIn(Read(frame))
    BY <2>1 DEF BytesRead, BytesIn
  <2>3. Cardinality(BytesRead) = Len(frame) - 1
    BY <1>1, <2>1, <2>2, AllCounted
  <2>4. ASSUME FromDevice
        PROVE  /\ {f[1] : f \in fields} = {frame[i][1] : i \in DOMAIN frame} \ {"op"}
               /\ \A f \in fields : AsWritten(f)
    <3>1. PICK code : Cut(frame, code, Cuts(frame))
      BY <1>2, <1>4, <2>4 DEF IsTaken
    <3>2. \A l \in Cuts(frame) : l[1] # "op"
      BY <1>2, <1>4, <2>4 DEF IsTaken
    <3> QED
      BY <2>1, <3>1, <3>2, CutIsRead
  <2> QED
    BY <2>3, <2>4
<1> QED
  BY <1>3, <1>4 DEF FieldsRead

-----------------------------------------------------------------------------

\* The parser takes every payload a device writes, of each operation and around
\* any text, and gives each field the bytes that were written for it; of any
\* payload it takes it reads every byte, each for one field.
THEOREM ParserReadsFields == Spec => []FieldsRead
<1>1. Spec => []TakenInv
  BY TakenInvInit, TakenInvStep, WireInvAlways, BitsInvAlways, PTL DEF Spec
<1> QED
  BY <1>1, TakenIsRead, WireInvAlways, PTL

=============================================================================
