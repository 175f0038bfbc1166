------------------------------- MODULE Base58 -------------------------------
(***************************************************************************)
(* Base-58 strings and addresses: base58.cpp, decode_address_export and    *)
(* the pool's ValidateAddress.  A character is its index in the alphabet,  *)
(* or Unknown.                                                             *)
(***************************************************************************)
EXTENDS ByteStrings

CONSTANTS
    AlphabetSize,      \* 58
    EncodedSizes,      \* encoded_block_sizes: of 0, 1, ... bytes
    ChecksumSize,      \* addr_checksum_size
    PrefixBits,        \* 32: the bits decode_address_export returns
    PoolPrefix,        \* the prefix of the pool's own address
    AddressLength      \* MoneroConstants.AddressLength

Unknown == AlphabetSize
FullBlock == Len(EncodedSizes) - 1
FullEncoded == EncodedSizes[FullBlock + 1]

\* A full block is a word of 64 bits.  Every number of bytes has a number of
\* characters of its own, enough for all their values, and the characters of a
\* full block but one do not fill a word: 58^10 < 2^64.
ASSUME SizesAssumption ==
    /\ AlphabetSize \in Nat \ {0, 1}
    /\ EncodedSizes \in Seq(Nat) /\ Len(EncodedSizes) > 1 /\ EncodedSizes[1] = 0
    /\ \A k \in 1..FullBlock :
          /\ EncodedSizes[k] < EncodedSizes[k + 1]
          /\ Power(ByteBase, k) <= Power(AlphabetSize, EncodedSizes[k + 1])
    /\ WordBits = ByteBits * FullBlock
    /\ Power(AlphabetSize, FullEncoded - 1) < WordBase

\* The pool's prefix is a varint of one byte.
ASSUME PrefixAssumption ==
    PoolPrefix \in 1..(Low - 1) /\ PrefixBits \in (ByteBits - 1)..WordBits

\* An address is a prefix, two keys of a byte each here, and the checksum.
ASSUME AddressAssumption ==
    LET size == 1 + 2 + ChecksumSize
    IN  /\ ChecksumSize \in Nat \ {0}
        /\ AddressLength =
              (size \div FullBlock) * FullEncoded + EncodedSizes[(size % FullBlock) + 1]

\* s in pieces of length n, the last one shorter.
Pieces(s, n) ==
    [k \in 1..((Len(s) + n - 1) \div n) |->
        SubSeq(s, (k - 1) * n + 1, Min({k * n, Len(s)}))]

\* Defect: leading zeros get no characters.
EncodeBlockUnpadded(block) ==
    LET v == Value(block, ByteBase)
    IN  Digits(v, AlphabetSize, Min({n \in 1..FullEncoded : v < Power(AlphabetSize, n)}))

EncodeBlock(block) == Digits(Value(block, ByteBase), AlphabetSize, EncodedSizes[Len(block) + 1])

Encode(data) == FlattenSeq([k \in DOMAIN Pieces(data, FullBlock) |->
                                EncodeBlock(Pieces(data, FullBlock)[k])])

Failed == [ok |-> FALSE, data |-> <<>>]
Decoded(data) == [ok |-> TRUE, data |-> data]

\* The bytes that n characters stand for: decoded_block_sizes.
DecodedSizes(n) == {k \in 0..FullBlock : EncodedSizes[k + 1] = n}

\* Defect: the sum wraps and only the product is tested.
AddDigitUnchecked(acc, digit) ==
    LET product == acc.order * digit
        sum == (acc.num + product) % WordBase
    IN  [ok |-> acc.ok /\ digit # Unknown /\ product < WordBase,
         num |-> sum, order |-> (acc.order * AlphabetSize) % WordBase]

\* One round of decode_block's loop, from the last character on: mul128, and
\* a sum that wraps.
AddDigit(acc, digit) ==
    LET product == acc.order * digit
        sum == (acc.num + (product % WordBase)) % WordBase
    IN  [ok |-> acc.ok /\ digit # Unknown /\ product < WordBase /\ sum >= acc.num,
         num |-> sum, order |-> (acc.order * AlphabetSize) % WordBase]

DecodeBlock(block) ==
    LET sizes == DecodedSizes(Len(block))
        size == CHOOSE k \in sizes : TRUE
        acc[k \in 0..Len(block)] ==
            IF k = 0 THEN [ok |-> TRUE, num |-> 0, order |-> 1]
            ELSE AddDigit(acc[k - 1], block[Len(block) + 1 - k])
        total == acc[Len(block)]
    IN  IF \/ sizes \subseteq {0} \/ ~total.ok
           \/ size < FullBlock /\ total.num >= Power(ByteBase, size)
        THEN Failed ELSE Decoded(Digits(total.num, ByteBase, size))

Decode(enc) ==
    LET blocks == Pieces(enc, FullEncoded)
        datas == [k \in DOMAIN blocks |-> DecodeBlock(blocks[k])]
    IN  IF \A k \in DOMAIN datas : datas[k].ok
        THEN Decoded(FlattenSeq([k \in DOMAIN datas |-> datas[k].data]))
        ELSE Failed

\* The first bytes of cn_fast_hash.
Checksum(s) ==
    LET hash[i \in 0..Len(s)] ==
            IF i = 0 THEN 5 ELSE (3 * hash[i - 1] + s[i] + 1) % Power(ByteBase, ChecksumSize)
    IN  Digits(hash[Len(s)], ByteBase, ChecksumSize)

EncodeAddr(tag, data) ==
    LET buf == WriteVarint(tag) \o data IN Encode(buf \o Checksum(buf))

NoAddress == [ok |-> FALSE, tag |-> 0, data |-> <<>>]

\* Defect: the checksum is cut off and not compared.
DecodeAddrUnchecked(addr) ==
    LET all == Decode(addr).data
        buf == SubSeq(all, 1, Len(all) - ChecksumSize)
        varint == ReadVarint(buf)
    IN  IF ~Decode(addr).ok \/ Len(all) <= ChecksumSize \/ varint.read <= 0
        THEN NoAddress
        ELSE [ok |-> TRUE, tag |-> varint.value, data |-> SubSeq(buf, varint.read + 1, Len(buf))]

DecodeAddr(addr) ==
    LET all == Decode(addr).data
        buf == SubSeq(all, 1, Len(all) - ChecksumSize)
        varint == ReadVarint(buf)
    IN  IF \/ ~Decode(addr).ok \/ Len(all) <= ChecksumSize
           \/ SubSeq(all, Len(buf) + 1, Len(all)) # Checksum(buf)
           \/ varint.read <= 0
        THEN NoAddress
        ELSE [ok |-> TRUE, tag |-> varint.value, data |-> SubSeq(buf, varint.read + 1, Len(buf))]

\* crypto::check_key: which keys are points of the curve.
CheckKey(key) == key % 2 = 1

\* The public keys of an account, one byte each here.
IsAccount(data) == Len(data) = 2 /\ CheckKey(data[1]) /\ CheckKey(data[2])

\* What DecodeAddress returns: 0 for an error, else the prefix.  The library
\* returns a uint32_t and the import declares a UInt64, whose upper half is
\* whatever the register holds, at this call.
UpperHalves == 0..(Power(2, WordBits - PrefixBits) - 1)

DecodeAddress(addr, upper) ==
    LET r == DecodeAddr(addr)
    IN  upper * Power(2, PrefixBits)
          + (IF r.ok /\ IsAccount(r.data) THEN r.tag % Power(2, PrefixBits) ELSE 0)

\* addressPrefix != _poolAddressBase58Prefix, both of 64 bits
ValidateAddress(addr, upper, poolAddressBase58Prefix) ==
    Len(addr) = AddressLength /\ DecodeAddress(addr, upper) = poolAddressBase58Prefix
=============================================================================
