---------------------------- MODULE ByteStrings ----------------------------
(***************************************************************************)
(* Bytes and varints as libcryptonote reads and writes them.  The widths   *)
(* are parameters, so that TLC can try every string of a small byte.       *)
(***************************************************************************)
EXTENDS Numbers, FiniteSets, SequencesExt, FiniteSetsExt

CONSTANTS
    ByteBits,   \* 8: the bits of a byte
    WordBits    \* 64: the bits of a uint64_t

ASSUME ByteBitsAssumption == ByteBits \in Nat /\ ByteBits >= 2
ASSUME WordBitsAssumption == WordBits \in Nat \ {0}

ByteBase == Power(2, ByteBits)
Byte == 0..(ByteBase - 1)
WordBase == Power(2, WordBits)

(***************************************************************************)
(* Varints: the low ByteBits - 1 bits of a byte are data, the high bit     *)
(* says that another byte follows.                                         *)
(***************************************************************************)
Low == Power(2, ByteBits - 1)

\* The bytes of v: a byte more for every time v is at least 0x80 still.
WriteVarint(v) ==
    LET n == 1 + Cardinality({i \in 1..WordBits : v >= Power(Low, i)})
    IN  [i \in 1..n |-> ((v \div Power(Low, i - 1)) % Low) + (IF i < n THEN Low ELSE 0)]

\* Defect: no test for overflow.
NeverOverflows(s, i) == FALSE

\* shift + 7 >= bits && byte >= 1 << (bits - shift)
Overflows(s, i) ==
    LET shift == (i - 1) * (ByteBits - 1)
    IN  shift + ByteBits - 1 >= WordBits /\ s[i] >= Power(2, WordBits - shift)

\* Defect: zero bytes are read as digits.
NeverPadded(s, i) == FALSE

\* EVARINT_REPRESENT: a last byte that adds nothing.
Padded(s, i) == s[i] = 0 /\ i > 1

\* What read_varint returns and writes: read <= 0 is an error or no byte, and
\* a varint that breaks off is read as far as it goes.  What is shifted out of
\* the word is lost.
ReadVarint(s) ==
    LET wrong(i) == Overflows(s, i) \/ Padded(s, i)
        longest == WordBits \div (ByteBits - 1) + 1
        ends == {i \in 1..Len(s) : i <= longest /\ (s[i] < Low \/ wrong(i))}
        n == Min(ends \cup {Len(s)})
        v == Value(Reverse([i \in 1..n |-> s[i] % Low]), Low) % WordBase
    IN  IF n > 0 /\ wrong(n) THEN [read |-> -1, value |-> 0] ELSE [read |-> n, value |-> v]
=============================================================================
