--------------------------- MODULE PayloadParser ---------------------------
(***************************************************************************)
(* parsePayload: a payload is cut into its fields by its operation code    *)
(* and its length, and the text of a MESSAGE is decoded.  A byte is a pair *)
(* <<field, value>>.  The parser sees values only: the field is what the   *)
(* sender meant by the byte, and what a property compares with.            *)
(***************************************************************************)
EXTENDS ChatCodec, FiniteSets

CONSTANTS
    SignatureLength,   \* LENGTHS.SIGNATURE, 64 in the code
    Texts,             \* texts a sender encodes and signs
    Frames             \* any other payloads that arrive

\* What a byte is meant for; one that nobody meant for anything is "unknown".
FieldNames == {"op", "tick", "maxSupply", "limitPerMint", "amount", "nonce",
               "recipientDeviceId", "messageLength", "messagePacked", "flags",
               "intervalSeconds", "signature", "unknown"}
WireByte == FieldNames \X Byte

ASSUME ParserAssumption ==
    /\ SignatureLength \in 1..256   \* its bytes are told apart
    /\ Texts \subseteq Seq(Codes \cup {Unsupported})
    /\ Frames \subseteq Seq(WireByte)

VARIABLES
    frame,    \* the payload parsePayload is given
    fields    \* the fields it returns

wireVars == <<text, packed, charCount, decoded, position, bitBuffer, bitCount,
              phase, frame, fields>>

-----------------------------------------------------------------------------
\* Payloads as the device and the tests write them.

\* n bytes of a field whose values are counted from `first`.
Field(name, first, n) == [i \in 1..n |-> <<name, first + i - 1>>]

Signed(bytes) == bytes \o Field("signature", 0, SignatureLength)

\* A ticker is capital letters; the bytes of the rest tell each other apart.
BuildDeploy == Signed(<<<<"op", 1>>>> \o Field("tick", 65, 4) \o Field("maxSupply", 0, 8)
                      \o Field("limitPerMint", 0, 8) \o Field("nonce", 0, 4))
BuildMint == Signed(<<<<"op", 2>>>> \o Field("tick", 65, 4) \o Field("amount", 0, 8)
                    \o Field("nonce", 0, 4))
BuildTransfer == Signed(<<<<"op", 3>>>> \o Field("tick", 65, 4) \o Field("amount", 0, 8)
                        \o Field("nonce", 0, 4) \o Field("recipientDeviceId", 0, 8))
BuildConfig == Signed(<<<<"op", 16>>>> \o Field("flags", 1, 1)
                      \o Field("intervalSeconds", 0, 4) \o Field("nonce", 0, 4))
BuildMessage(n, bytes) ==
    Signed(<<<<"op", 4>>>> \o Field("recipientDeviceId", 0, 8) \o Field("nonce", 0, 4)
           \o <<<<"messageLength", n>>>> \o [i \in 1..Len(bytes) |-> <<"messagePacked", bytes[i]>>])

-----------------------------------------------------------------------------
\* parsePayload.

\* subarray(from, to), or a big-endian read of the bytes it names.
Slice(f, from, to) == SubSeq(f, from + 1, to)

\* What assertLength expects of an operation that has one length.
ExpectedLength(op) ==
    CASE op = 1 -> 1 + 4 + 8 + 8 + 4 + SignatureLength
      [] op = 2 -> 1 + 4 + 8 + 4 + SignatureLength
      [] op = 3 -> 1 + 4 + 8 + 4 + 8 + SignatureLength
      [] op = 16 -> 1 + 1 + 4 + 4 + SignatureLength

\* (mutant) MINT reads its nonce one byte late
LayoutOldNonce(op) ==
    CASE op = 1 -> {<<"tick", 1, 5>>, <<"maxSupply", 5, 13>>,
                    <<"limitPerMint", 13, 21>>, <<"nonce", 21, 25>>}
      [] op = 2 -> {<<"tick", 1, 5>>, <<"amount", 5, 13>>, <<"nonce", 14, 18>>}
      [] op = 3 -> {<<"tick", 1, 5>>, <<"amount", 5, 13>>, <<"nonce", 13, 17>>,
                    <<"recipientDeviceId", 17, 25>>}
      [] op = 4 -> {<<"recipientDeviceId", 1, 9>>, <<"nonce", 9, 13>>,
                    <<"messageLength", 13, 14>>}
      [] op = 16 -> {<<"flags", 1, 2>>, <<"intervalSeconds", 2, 6>>, <<"nonce", 6, 10>>}

\* Where each operation's fields are read.
Layout(op) ==
    CASE op = 1 -> {<<"tick", 1, 5>>, <<"maxSupply", 5, 13>>,
                    <<"limitPerMint", 13, 21>>, <<"nonce", 21, 25>>}
      [] op = 2 -> {<<"tick", 1, 5>>, <<"amount", 5, 13>>, <<"nonce", 13, 17>>}
      [] op = 3 -> {<<"tick", 1, 5>>, <<"amount", 5, 13>>, <<"nonce", 13, 17>>,
                    <<"recipientDeviceId", 17, 25>>}
      [] op = 4 -> {<<"recipientDeviceId", 1, 9>>, <<"nonce", 9, 13>>,
                    <<"messageLength", 13, 14>>}
      [] op = 16 -> {<<"flags", 1, 2>>, <<"intervalSeconds", 2, 6>>, <<"nonce", 6, 10>>}

\* parseTick: 'ascii' drops the high bit of each byte, then the pattern is
\* four of A-Z and 0-9.
ValidTick(bytes) ==
    \A i \in DOMAIN bytes : bytes[i][2] % 128 \in (48..57) \cup (65..90)

\* (mutant) the packed bytes are not counted
WellFormedAnyLength(f) ==
    /\ Len(f) >= 1 + SignatureLength
    /\ f[1][2] \in {1, 2, 3, 4, 16}
    /\ f[1][2] # 4 => Len(f) = ExpectedLength(f[1][2])
    /\ f[1][2] \in {1, 2, 3} => ValidTick(Slice(f, 1, 5))
    /\ f[1][2] = 4 => Len(f) > 1 + 8 + 4 + 1 + SignatureLength /\ f[14][2] > 0

\* Payloads parsePayload does not refuse with MalformedPayloadError.
WellFormed(f) ==
    /\ Len(f) >= 1 + SignatureLength
    /\ f[1][2] \in {1, 2, 3, 4, 16}
    /\ f[1][2] # 4 => Len(f) = ExpectedLength(f[1][2])
    /\ f[1][2] \in {1, 2, 3} => ValidTick(Slice(f, 1, 5))
    /\ f[1][2] = 4 =>
          /\ Len(f) > 1 + 8 + 4 + 1 + SignatureLength
          /\ f[14][2] > 0
          /\ Len(f) - SignatureLength - 14 = PackedByteLength(f[14][2])

Malformed ==
    /\ phase = "parse" /\ ~WellFormed(frame)
    /\ phase' = "malformed"
    /\ UNCHANGED <<text, packed, charCount, decoded, position, bitBuffer, bitCount,
                   frame, fields>>

FieldsOf(f) ==
    {<<l[1], Slice(f, l[2], l[3])>> : l \in Layout(f[1][2])}
        \cup {<<"signature", Slice(f, Len(f) - SignatureLength, Len(f))>>}

ParseFields ==
    /\ phase = "parse" /\ WellFormed(frame) /\ frame[1][2] # 4
    /\ fields' = FieldsOf(frame)
    /\ phase' = "parsed"
    /\ UNCHANGED <<text, packed, charCount, decoded, position, bitBuffer, bitCount, frame>>

ParseMessage ==
    /\ phase = "parse" /\ WellFormed(frame) /\ frame[1][2] = 4
    /\ LET bytes == Slice(frame, 14, Len(frame) - SignatureLength)
       IN /\ fields' = FieldsOf(frame) \cup {<<"messagePacked", bytes>>}
          /\ StartDecode([i \in 1..Len(bytes) |-> bytes[i][2]], frame[14][2])
    /\ UNCHANGED <<text, frame>>

-----------------------------------------------------------------------------

\* The sender signs the encoded text; the payload travels and is parsed.
SendMessage ==
    /\ phase = "encoded"
    /\ frame' = BuildMessage(charCount, packed)
    /\ phase' = "parse"
    /\ UNCHANGED <<text, packed, charCount, decoded, position, bitBuffer, bitCount, fields>>

\* A text to be encoded, or a payload that came from somewhere.
Init ==
    /\ fields = {}
    /\ \/ /\ frame = <<>> /\ \E t \in Texts : StartEncode(t)
       \/ /\ frame \in Frames
          /\ text = <<>> /\ packed = <<>> /\ charCount = 0 /\ decoded = <<>>
          /\ position = 0 /\ bitBuffer = 0 /\ bitCount = 0 /\ phase = "parse"

CodecStep ==
    /\ \/ EncodeChar \/ EmitByte \/ FlushBits
       \/ ReadByte \/ DecodeChar \/ DecodeEnds
    /\ UNCHANGED <<frame, fields>>

Next == CodecStep \/ SendMessage \/ Malformed \/ ParseFields \/ ParseMessage

Spec == Init /\ [][Next]_wireVars

-----------------------------------------------------------------------------
\* Properties.

Phases == {"encode", "refused", "encoded", "parse", "malformed", "decode", "parsed",
           "RangeError"}

WireTypeOK ==
    /\ phase \in Phases
    /\ packed \in Seq(Byte) /\ decoded \in Seq(Codes)
    /\ charCount \in Byte /\ position \in Nat
    /\ BitsBounded

\* parsePayload ends with the fields or with MalformedPayloadError, whatever
\* bytes arrive, and the decoder never throws: not for the number of bytes, and
\* not for want of one, because six bits per character, rounded up to bytes, is
\* what it reads, to the last byte.  A RangeError would leave ingestUplink as
\* an internal error, with nothing recorded.
EveryPayloadDecided ==
    /\ phase # "RangeError"
    /\ (phase = "parsed" /\ frame[1][2] = 4) => position = Len(packed)

\* What is decoded is, character by character, the six bits that belong to it
\* in the packed bytes, also in a payload no encoder here wrote and in one
\* longer than the encoder allows; and a text that was encoded comes back.
RoundTrip ==
    (phase = "parsed" /\ frame[1][2] = 4) =>
        /\ Len(decoded) = charCount
        /\ \A i \in 1..charCount : decoded[i] = CodeAt(i)
        /\ text # <<>> => decoded = text

\* Payloads a device writes: one of each operation, and the message around a text.
Written == {BuildDeploy, BuildMint, BuildTransfer, BuildConfig}
FromDevice == frame \in Written \/ text # <<>>

\* The field f, <<name, bytes>>, is all the bytes of the payload written for it,
\* and no other.
AsWritten(f) ==
    \E from \in 0..(Len(frame) - Len(f[2])) :
        LET to == from + Len(f[2])
        IN /\ f[2] = Slice(frame, from, to)
           /\ \A i \in DOMAIN frame : frame[i][1] = f[1] <=> i \in (from + 1)..to

\* The bytes that were read, each with the field it was read for.
BytesRead == UNION {{f} \X DOMAIN f[2] : f \in fields}

\* A payload written by the device is always taken, and the fields that are read
\* are those written, each with exactly its bytes.  In any payload that is taken
\* every byte after the operation code is one of a field, and of one only: the
\* signature covers nothing the parser ignores.
FieldsRead ==
    /\ phase = "malformed" => ~FromDevice
    /\ phase = "parsed" =>
         /\ FromDevice => /\ {f[1] : f \in fields} = {frame[i][1] : i \in DOMAIN frame} \ {"op"}
                          /\ \A f \in fields : AsWritten(f)
         /\ Cardinality(BytesRead) = Len(frame) - 1
=============================================================================
