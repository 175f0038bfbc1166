----------------------------- MODULE MoneroWork -----------------------------
(***************************************************************************)
(* The work a miner gets: the blob of MoneroJob.EncodeBlob, converted by   *)
(* convert_blob_export with the Merkle root of tree-hash.c, and the target *)
(* of MoneroJob.EncodeTarget.  Hashes are terms: a hash is the tuple of    *)
(* what was hashed.                                                        *)
(***************************************************************************)
EXTENDS ByteStrings

CONSTANTS
    NonceSize,        \* ExtraNonceSize, 4 bytes
    InstanceId,       \* the instance id, InstanceIdSize bytes
    TargetSize,       \* 32: the bytes of a hash
    TargetHead,       \* 4: the bytes of it a miner is told
    DiffOne           \* MoneroConstants.Diff1

\* Diff1 has no more bytes than a hash.
ASSUME TargetAssumption ==
    /\ TargetSize \in Nat \ {0, 1} /\ TargetHead \in 0..TargetSize
    /\ DiffOne \in Nat /\ DiffOne < Power(ByteBase, TargetSize)

(***************************************************************************)
(* The Merkle root, computed in place in an array of cnt hashes.           *)
(***************************************************************************)
FastHash(left, right) == <<left, right>>

\* Half of the first power of two that reaches count, which is at most 2^28.
TreeHashPow(count) ==
    CHOOSE k \in 0..27 : Power(2, k) < count /\ count <= Power(2, k + 1)

TreeHashCount(count) == Power(2, TreeHashPow(count))

\* The first layer: the leading hashes as they are, the others in pairs.
FirstLayer(hashes) ==
    LET count == Len(hashes)
        cnt == TreeHashCount(count)
        whole == 2 * cnt - count
    IN  [j \in 1..cnt |-> IF j <= whole THEN hashes[j]
                          ELSE FastHash(hashes[2 * j - whole - 1], hashes[2 * j - whole])]

\* Two hashes next to each other give the j-th hash of the next layer, in place.
HashPair(ints, j) == [ints EXCEPT ![j] = FastHash(ints[2 * j - 1], ints[2 * j])]

\* Defect: the pass runs from the end and overwrites what it still needs.
HalveLayerDown(ints, cnt) ==
    LET pass[n \in 0..cnt] ==
            IF n = 0 THEN ints ELSE HashPair(pass[n - 1], cnt + 1 - n)
    IN  pass[cnt]

\* One pass of the while loop over the first cnt entries, cnt already halved.
HalveLayer(ints, cnt) ==
    LET pass[j \in 0..cnt] == IF j = 0 THEN ints ELSE HashPair(pass[j - 1], j)
    IN  pass[cnt]

TreeHash(hashes) ==
    IF Len(hashes) = 1 THEN hashes[1]
    ELSE IF Len(hashes) = 2 THEN FastHash(hashes[1], hashes[2])
    ELSE LET pow == TreeHashPow(Len(hashes))
             ints[k \in 0..(pow - 1)] ==
                 IF k = 0 THEN FirstLayer(hashes)
                 ELSE HalveLayer(ints[k - 1], Power(2, pow - k))
         IN  FastHash(ints[pow - 1][1], ints[pow - 1][2])

(***************************************************************************)
(* The blob.  A template is the header, the reserved bytes in the miner's  *)
(* transaction and the hashes of the other transactions.                   *)
(***************************************************************************)

\* bytes written over s from index at on: Buffer.BlockCopy.
CopyTo(bytes, s, at) ==
    [i \in DOMAIN s |-> IF i \in (at + 1)..(at + Len(bytes)) THEN bytes[i - at] ELSE s[i]]

PrepareBlobTemplate(template) ==
    [template EXCEPT !.reserved = CopyTo(InstanceId, template.reserved, NonceSize)]

\* The header, the root over the miner's transaction and the others, and
\* their number.
HashingBlob(template) ==
    [header |-> template.header,
     root |-> TreeHash(<<[reserved |-> template.reserved]>> \o template.txHashes),
     count |-> WriteVarint(Len(template.txHashes) + 1)]

\* Defect: the extra nonce is written behind the place where it belongs.
EncodeBlobShifted(template, nonce) ==
    HashingBlob([template EXCEPT !.reserved =
                    CopyTo(Digits(nonce, ByteBase, NonceSize), template.reserved, NonceSize)])

\* The extra nonce goes to the beginning of the reserved area, big-endian.
EncodeBlob(template, nonce) ==
    HashingBlob([template EXCEPT !.reserved =
                    CopyTo(Digits(nonce, ByteBase, NonceSize), template.reserved, 0)])

(***************************************************************************)
(* The target, for diff = (long)(difficulty * 255), or no target at all    *)
(* when the division fails.                                                *)
(***************************************************************************)

\* Bytes of BigInteger.ToByteArray, which has room for a sign bit.
SignedSize(v) == CHOOSE n \in 1..(2 * TargetSize) :
                    v < Power(ByteBase, n) \div 2 /\ \A m \in 1..(n - 1) : v >= Power(ByteBase, m) \div 2

Quotient(diff) == (DiffOne \div diff) * (ByteBase - 1)

\* Defect: the bytes are copied to the beginning.
PaddedAtEnd(v) ==
    CopyTo(Digits(v, ByteBase, SignedSize(v)), [i \in 1..TargetSize |-> 0], 0)

\* Copied to the end if that leaves room in front, and not at all otherwise.
PaddedQuotient(v) ==
    LET size == SignedSize(v)
    IN  IF size >= TargetSize THEN [i \in 1..TargetSize |-> 0]
        ELSE CopyTo(Digits(v, ByteBase, size), [i \in 1..TargetSize |-> 0], TargetSize - size)

\* Defect: all of the padded bytes are taken.
EncodeTargetWhole(diff) ==
    IF diff = 0 THEN <<>> ELSE Reverse(PaddedQuotient(Quotient(diff)))

EncodeTarget(diff) ==
    IF diff = 0 THEN <<>>
    ELSE Reverse(SubSeq(PaddedQuotient(Quotient(diff)), 1, TargetHead))
=============================================================================
