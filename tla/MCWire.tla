------------------------------- MODULE MCWire -------------------------------
(***************************************************************************)
(* Small instance of PayloadParser: every text of up to five characters    *)
(* drawn from four bit patterns, longer ones around the limit, the         *)
(* payloads of the other operations, and payloads of every length made of  *)
(* one repeated byte.                                                      *)
(***************************************************************************)
EXTENDS PayloadParser

CONSTANTS MaxTextLength,   \* bound on the texts of mixed patterns
          Patterns         \* the characters they are made of

MixedTexts == UNION {[1..n -> Patterns] : n \in 0..MaxTextLength}
LongTexts == {[i \in 1..n |-> IF i % 3 = 0 THEN 63 ELSE 42] :
                n \in (MaxCharCount - 3)..(MaxCharCount + 1)}
BadTexts == {<<0, 63, Unsupported>>, <<Unsupported>>}

\* An operation code, known or not, and n - 1 times the byte v.
Junk(op, n, v) == [i \in 1..n |-> <<"unknown", IF i = 1 THEN op ELSE v>>]

MessageLengthOf(v) == 14 + PackedByteLength(v) + SignatureLength

AnyTexts == MixedTexts \cup LongTexts \cup BadTexts

AnyFrames ==
    {BuildDeploy, BuildMint, BuildTransfer, BuildConfig, <<>>}
    \cup {Junk(op, n, v) : op \in {0, 1, 2, 3, 4, 16, 255}, n \in 1..(28 + SignatureLength),
                           v \in {0, 1, 2, 3, 4, 65, 193}}
    \cup {Junk(4, MessageLengthOf(v) + i, v) : v \in {5, 31, 33, 48, 255}, i \in {-1, 0, 1}}
=============================================================================
