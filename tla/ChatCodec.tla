----------------------------- MODULE ChatCodec -----------------------------
(***************************************************************************)
(* The chat codec: characters of a 64-letter alphabet, six bits each,      *)
(* packed into bytes through a small bit buffer.  A character is its index *)
(* in CHAT_ALPHABET.  One action per turn of the two loops, so that the    *)
(* buffer and the counts can be looked at between them.                    *)
(***************************************************************************)
EXTENDS Integers, Sequences

CONSTANTS
    MaxCharCount,   \* CHAT_MAX_CHAR_COUNT: the longest text that is encoded
    Unsupported     \* a character CHAT_ALPHABET does not have

Codes == 0..63
Byte == 0..255

ASSUME CodecAssumption ==
    /\ MaxCharCount \in 1..255    \* the count travels in one byte
    /\ Unsupported \notin Codes

VARIABLES
    text,        \* the text encodePackedMessage was given
    packed,      \* the packed bytes, written by the one and read by the other
    charCount,   \* how many characters decodePackedMessage is to find in them
    decoded,     \* the characters it has found so far
    position,    \* characters taken from text, bytes taken from packed
    bitBuffer, bitCount,
    phase        \* where the two functions are, or how they ended

codecVars == <<text, packed, charCount, decoded, position, bitBuffer, bitCount, phase>>

-----------------------------------------------------------------------------

\* getPackedByteLength for n > 0: the least number of bytes with 6n bits.
PackedByteLength(n) == (n * 6 + 7) \div 8

\* 1 << n, x >> n, x & ((1 << n) - 1) and x << n, for as many bits as the
\* buffer can hold.
PowerOfTwo(n) ==
    <<1, 2, 4, 8, 16, 32, 64, 128, 256, 512, 1024, 2048, 4096, 8192>>[n + 1]
ShiftRight(x, n) == x \div PowerOfTwo(n)
LowBits(x, n) == x % PowerOfTwo(n)
ShiftLeft(x, n) == x * PowerOfTwo(n)

-----------------------------------------------------------------------------
\* encodePackedMessage.

StartEncode(t) ==
    /\ text = t
    /\ packed = <<>> /\ charCount = 0 /\ decoded = <<>>
    /\ position = 0 /\ bitBuffer = 0 /\ bitCount = 0
    /\ phase = IF Len(t) \in 1..MaxCharCount THEN "encode" ELSE "refused"

\* One turn of the for loop, as far as the inner loop.
EncodeChar ==
    /\ phase = "encode" /\ bitCount < 8 /\ position < Len(text)
    /\ IF text[position + 1] \in Codes
       THEN /\ bitBuffer' = ShiftLeft(bitBuffer, 6) + text[position + 1]
            /\ bitCount' = bitCount + 6
            /\ position' = position + 1
            /\ UNCHANGED phase
       ELSE /\ phase' = "refused"
            /\ UNCHANGED <<position, bitBuffer, bitCount>>
    /\ UNCHANGED <<text, packed, charCount, decoded>>

\* One turn of the inner loop.
EmitByte ==
    LET shift == bitCount - 8
    IN /\ phase = "encode" /\ bitCount >= 8
       /\ packed' = Append(packed, LowBits(ShiftRight(bitBuffer, shift), 8))
       /\ bitBuffer' = LowBits(bitBuffer, shift)
       /\ bitCount' = shift
       /\ UNCHANGED <<text, charCount, decoded, position, phase>>

\* (mutant) the last bits are not moved to the top of their byte
FlushBitsLow ==
    /\ phase = "encode" /\ bitCount < 8 /\ position = Len(text)
    /\ packed' = IF bitCount > 0 THEN Append(packed, bitBuffer) ELSE packed
    /\ charCount' = Len(text)
    /\ phase' = "encoded"
    /\ UNCHANGED <<text, decoded, position, bitBuffer, bitCount>>

\* What is left fills the top of one more byte; the result is returned.
FlushBits ==
    /\ phase = "encode" /\ bitCount < 8 /\ position = Len(text)
    /\ packed' = IF bitCount > 0
                 THEN Append(packed, LowBits(ShiftLeft(bitBuffer, 8 - bitCount), 8))
                 ELSE packed
    /\ charCount' = Len(text)
    /\ phase' = "encoded"
    /\ UNCHANGED <<text, decoded, position, bitBuffer, bitCount>>

-----------------------------------------------------------------------------
\* decodePackedMessage.

StartDecode(bytes, n) ==
    /\ packed' = bytes /\ charCount' = n /\ decoded' = <<>>
    /\ position' = 0 /\ bitBuffer' = 0 /\ bitCount' = 0
    /\ phase' = IF n > 0 /\ Len(bytes) = PackedByteLength(n)
                THEN "decode" ELSE "RangeError"

\* One turn of the inner loop: another byte, or the error for want of one.
ReadByte ==
    /\ phase = "decode" /\ Len(decoded) < charCount /\ bitCount < 6
    /\ IF position < Len(packed)
       THEN /\ bitBuffer' = ShiftLeft(bitBuffer, 8) + packed[position + 1]
            /\ bitCount' = bitCount + 8
            /\ position' = position + 1
            /\ UNCHANGED phase
       ELSE /\ phase' = "RangeError"
            /\ UNCHANGED <<position, bitBuffer, bitCount>>
    /\ UNCHANGED <<text, packed, charCount, decoded>>

\* (mutant) the bits already used stay in the buffer
DecodeCharUnmasked ==
    LET shift == bitCount - 6
    IN /\ phase = "decode" /\ Len(decoded) < charCount /\ bitCount >= 6
       /\ decoded' = Append(decoded, LowBits(ShiftRight(bitBuffer, shift), 6))
       /\ bitCount' = shift
       /\ UNCHANGED <<text, packed, charCount, position, bitBuffer, phase>>

\* The rest of a turn of the outer loop.  Six bits are always a character: the
\* alphabet has 64.
DecodeChar ==
    LET shift == bitCount - 6
    IN /\ phase = "decode" /\ Len(decoded) < charCount /\ bitCount >= 6
       /\ decoded' = Append(decoded, LowBits(ShiftRight(bitBuffer, shift), 6))
       /\ bitBuffer' = LowBits(bitBuffer, shift)
       /\ bitCount' = shift
       /\ UNCHANGED <<text, packed, charCount, position, phase>>

DecodeEnds ==
    /\ phase = "decode" /\ Len(decoded) = charCount
    /\ phase' = "parsed"
    /\ UNCHANGED <<text, packed, charCount, decoded, position, bitBuffer, bitCount>>

-----------------------------------------------------------------------------

\* The k-th bit of the packed bytes, from 0, most significant first; and the
\* i-th character: the six bits that belong to it.
Bit(k) == (packed[(k \div 8) + 1] \div PowerOfTwo(7 - (k % 8))) % 2
CodeAt(i) ==
    LET b(j) == Bit(6 * (i - 1) + j)
    IN 32 * b(0) + 16 * b(1) + 8 * b(2) + 4 * b(3) + 2 * b(4) + b(5)

\* The buffer holds the bits that are counted and no others, and never more
\* than 13 of them: both loops stay far from the 32 bits at which JavaScript's
\* shifts lose the top ones and turn negative.
BitsBounded ==
    /\ bitCount \in 0..13
    /\ bitBuffer \in 0..(PowerOfTwo(bitCount) - 1)
=============================================================================
