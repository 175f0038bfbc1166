----------------------------- MODULE Encodings -----------------------------
(***************************************************************************)
(* The pure functions of Base58, MoneroWork and TextEncodings against what *)
(* they are meant to compute: a behaviour picks one input and calls them.  *)
(***************************************************************************)
EXTENDS Base58, MoneroWork, TextEncodings

CONSTANTS
    MaxData,     \* bound: the longest byte string that is encoded
    MaxString,   \* bound: the longest string that is decoded
    MaxHashes,   \* bound: the most transactions of a block
    MaxDiff,     \* bound: the largest difficulty, times 255
    MaxId,       \* bound: the largest connection id
    HexBytes     \* bound: the bytes that are written in pairs as hexadecimals

ASSUME HashesAssumption == MaxHashes \in Nat /\ MaxHashes <= Power(2, 28)
ASSUME IdsAssumption == MaxId \in Nat /\ MaxId < Power(Power(2, IdCharBits), IdChars)
ASSUME ProbesAssumption ==
    MaxData \in Nat /\ MaxString \in Nat /\ MaxDiff \in Nat /\ HexBytes \subseteq 0..255

VARIABLE probe   \* which function is called, and its input

vars == probe

Strings(S, n) == UNION {[1..k -> S] : k \in 0..n}

Probe(name, input) == probe' = [of |-> name, in |-> input]

Init == probe = [of |-> "nothing"]

Next ==
  /\ probe.of = "nothing"
  /\ \/ \E data \in Strings(Byte, MaxData) : Probe("data", data)
     \/ \E s \in Strings(0..AlphabetSize, MaxString) : Probe("string", s)
     \/ \E n \in 1..MaxHashes : Probe("hashes", [i \in 1..n |-> <<i>>])
     \/ \E diff \in 0..MaxDiff : Probe("diff", diff)
     \/ \E id \in 0..MaxId : Probe("id", id)
     \/ \E bytes \in Strings(0..255, 1) \cup [1..2 -> HexBytes] : Probe("bytes", bytes)

Spec == Init /\ [][Next]_vars

(***************************************************************************)
(* Properties.                                                             *)
(***************************************************************************)

\* base58.cpp: every byte string survives encode and decode, whatever the
\* length of its last block.
EncodedDataDecodes ==
    probe.of = "data" => Decode(Encode(probe.in)) = Decoded(probe.in)

\* base58.cpp: decode accepts only what encode writes.  No string with a
\* block too long, too large for its bytes or for the 64-bit sum, or with an
\* unknown character gets through as the bytes of another string.
AcceptedStringsAreCanonical ==
    probe.of = "string" =>
        LET d == Decode(probe.in) IN d.ok => Encode(d.data) = probe.in

\* varint.h: read_varint accepts only what write_varint writes, so a prefix
\* has one spelling and none is too large for its word; only a varint that
\* breaks off before its last byte is read without being complete.
AcceptedVarintsAreCanonical ==
    probe.of = "data" =>
        LET r == ReadVarint(probe.in)
            spelling == SubSeq(probe.in, 1, r.read)
        IN  r.read > 0 /\ spelling[r.read] < Low => WriteVarint(r.value) = spelling

\* The addresses of accounts in the pool's network.
PoolAddresses ==
    {EncodeAddr(PoolPrefix, <<spend, view>>) :
        spend \in {k \in Byte : CheckKey(k)}, view \in {k \in Byte : CheckKey(k)}}

\* MoneroPool.ValidateAddress, LibCryptonote.cs: whatever was above the 32 bits
\* of the prefix when the pool decoded its own address, and is there now, the
\* pool accepts nothing but addresses of its network; and it accepts these
\* exactly when the upper halves agree, so that other ones refuse every miner.
ValidatesPoolAddresses ==
    probe.of = "string" =>
        \A own, upper \in UpperHalves :
            ValidateAddress(probe.in, upper, own * Power(2, PrefixBits) + PoolPrefix)
              <=> probe.in \in PoolAddresses /\ upper = own

\* The tree with the given leaves in 2^depth slots, where the leading leaves
\* have two slots each as long as there are slots left over: the k-th node over
\* 2^d slots is the leaf that fills them, or the hash of its halves.
Merkle(leaves, depth) ==
    LET whole == Power(2, depth) - Len(leaves)
        leafIn(slot) == IF slot <= 2 * whole THEN (slot + 1) \div 2 ELSE slot - whole
        node[d \in 0..depth] ==
            [k \in 1..Power(2, depth - d) |->
                LET first == leafIn((k - 1) * Power(2, d) + 1)
                    last == leafIn(k * Power(2, d))
                IN  IF first = last THEN leaves[last]
                    ELSE <<node[d - 1][2 * k - 1], node[d - 1][2 * k]>>]
    IN  node[depth][1]

\* tree-hash.c: the in-place passes compute the CryptoNote tree over all the
\* transactions in their order, for every number of them.
RootIsTheMerkleTree ==
    probe.of = "hashes" =>
        TreeHash(probe.in) = Merkle(probe.in, Min({d \in 0..29 : Power(2, d) >= Len(probe.in)}))

\* MoneroJob.EncodeTarget: the miner is told the leading bytes of the
\* quotient, little-endian, as long as the quotient with its sign bit is
\* shorter than a hash.
TargetIsTheQuotient ==
    probe.of = "diff" /\ probe.in > 0 =>
        LET q == Quotient(probe.in)
            told == Value(Reverse(EncodeTarget(probe.in)), ByteBase)
        IN  IF 2 * q < Power(ByteBase, TargetSize - 1)
            THEN told = q \div Power(ByteBase, TargetSize - TargetHead)
            ELSE told = 0

\* CorrelationIdGenerator.cs: "in ascii sort order for easy text based
\* sorting": of two ids the one drawn first sorts first, so no two
\* connections of a run share the key of the dictionary of clients.
IdsSortInTheirOrder ==
    probe.of = "id" /\ probe.in < MaxId =>
        LET a == GenerateId(probe.in)
            b == GenerateId(probe.in + 1)
        IN  \E i \in DOMAIN a : a[i] < b[i] /\ \A j \in 1..(i - 1) : a[j] = b[j]

\* The hexadecimal digits in capitals.
Capitals(str) == [i \in DOMAIN str |-> IF str[i] >= 97 THEN str[i] - 32 ELSE str[i]]

\* StringExtensions.cs and ArrayExtensions.cs: a blob keeps its bytes on the
\* way through its hexadecimal text, with a prefix, in capitals or neither.
HexTextKeepsItsBytes ==
    probe.of = "bytes" =>
        LET text == ToHexString(probe.in)
        IN  \A spelling \in {text, Capitals(text), <<48, 120>> \o text} :
                HexToByteArray(spelling) = probe.in
=============================================================================
