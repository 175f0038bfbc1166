--------------------------- MODULE TextEncodings ---------------------------
(***************************************************************************)
(* The text forms of Hypepool.Common and Hypepool.Core: connection ids of  *)
(* CorrelationIdGenerator, and hexadecimal strings.  A character of a      *)
(* hexadecimal string is its code.                                         *)
(***************************************************************************)
EXTENDS ByteStrings

CONSTANTS
    IdCharBits,   \* 5: the bits of one of _encode32Chars
    IdChars       \* 13: the characters of a connection id

ASSUME IdAssumption == IdCharBits \in Nat \ {0} /\ IdChars \in Nat \ {0}

\* Defect: a character less than the bits of the id need.
GenerateShortId(id) == Digits(id, Power(2, IdCharBits), IdChars - 1)

\* Five bits a character, the highest first, in the order of ASCII.
GenerateId(id) == Digits(id, Power(2, IdCharBits), IdChars)

\* HexStringTable: two lower-case characters a byte.
HexDigit(v) == IF v < 10 THEN 48 + v ELSE 87 + v

ToHexString(bytes) ==
    FlattenSeq([i \in DOMAIN bytes |-> <<HexDigit(bytes[i] \div 16), HexDigit(bytes[i] % 16)>>])

\* Defect: lower-case characters only.
GetLowerHexVal(hex) == hex - (IF hex < 58 THEN 48 ELSE 87)

GetHexVal(hex) == hex - (IF hex < 58 THEN 48 ELSE IF hex < 97 THEN 55 ELSE 87)

\* Without a leading "0x"; an odd last character is dropped.
HexToByteArray(str) ==
    LET digits == IF Len(str) >= 2 /\ SubSeq(str, 1, 2) = <<48, 120>>
                  THEN SubSeq(str, 3, Len(str)) ELSE str
    IN  [i \in 1..(Len(digits) \div 2) |->
            (GetHexVal(digits[2 * i - 1]) * 16 + GetHexVal(digits[2 * i])) % 256]
=============================================================================
