-------------------------- MODULE EncodingsProofs --------------------------
(***************************************************************************)
(* Proofs about the pure functions of Base58, MoneroWork and TextEncodings *)
(* for every width of bytes and words, every alphabet and every length.    *)
(***************************************************************************)
EXTENDS Encodings, MoneroWorkProofs, FiniteSetTheorems

-------------------------------------------------------------------------------
(* FlattenSeq, by which the converters put their blocks together.          *)

\* FlattenSeq appends the pieces in a loop.
LEMMA FlattenIsALoop ==
  ASSUME NEW X, NEW seqs \in Seq(Seq(X))
  PROVE  \E f \in [0..Len(seqs) -> Seq(X)] :
           /\ f[0] = <<>>
           /\ \A i \in 1..Len(seqs) : f[i] = f[i - 1] \o seqs[i]
           /\ FlattenSeq(seqs) = f[Len(seqs)]
<1>1. PICK N \in Nat : N = Len(seqs)
  OBVIOUS
<1>2. \A n \in 1..N : seqs[n] \in Seq(X)
  BY <1>1
<1> DEFINE piece == [n \in 1..N |-> seqs[n]]
<1> DEFINE step == [n \in 1..N |-> [v \in Seq(X) |-> v \o piece[n]]]
           Results(f) == f = [i \in 1..N |-> IF i = 1 THEN seqs[i] ELSE f[i - 1] \o seqs[i]]
           p == CHOOSE f : Results(f)
<1>3. piece \in [1..N -> Seq(X)] /\ \A n \in 1..N : piece[n] = seqs[n]
  BY <1>2
<1> HIDE DEF piece
<1>4. step \in [1..N -> [Seq(X) -> Seq(X)]]
  <2>1. \A n \in 1..N, v \in Seq(X) : v \o piece[n] \in Seq(X)
    BY <1>3, ConcatProperties
  <2> QED
    BY <2>1
<1>5. \A n \in 1..N, v \in Seq(X) : step[n][v] = v \o piece[n]
  BY <1>3
<1> HIDE DEF step
<1>6. PICK f \in [0..N -> Seq(X)] : IsLoop(f, N, <<>>, step)
  <2> <<>> \in Seq(X)
    OBVIOUS
  <2> QED
    BY <1>4, LoopHasResults
<1>7. f[0] = <<>> /\ \A n \in 1..N : f[n] = f[n - 1] \o seqs[n]
  <2>1. \A n \in 1..N : f[n - 1] \in Seq(X)
    OBVIOUS
  <2> HIDE DEF Results, p
  <2> QED
    BY <1>3, <1>5, <1>6, <2>1 DEF IsLoop
<1>8. N >= 1 => f[1] = seqs[1]
  <2> SUFFICES ASSUME N >= 1 PROVE f[1] = seqs[1]
    OBVIOUS
  <2>1. 1 \in 1..N /\ 1 - 1 = 0 /\ seqs[1] \in Seq(X)
    BY <1>2
  <2>2. f[1] = <<>> \o seqs[1]
    BY <1>7, <2>1
  <2> QED
    BY <2>1, <2>2, ConcatEmptySeq
<1>9. CASE N = 0
  <2>1. FlattenSeq(seqs) = seqs /\ seqs = <<>>
    BY <1>1, <1>9, EmptySeq DEF FlattenSeq
  <2> QED
    BY <1>1, <1>7, <1>9, <2>1
<1>10. CASE N # 0
  <2> DEFINE g == [i \in 1..N |-> f[i]]
  <2>1. Results(g)
    <3>1. ASSUME NEW i \in 1..N
          PROVE  g[i] = IF i = 1 THEN seqs[i] ELSE g[i - 1] \o seqs[i]
      <4>1. CASE i = 1
        BY <1>8, <4>1
      <4>2. CASE i # 1
        <5>1. i - 1 \in 1..N /\ g[i] = f[i] /\ g[i - 1] = f[i - 1]
          BY <4>2
        <5> HIDE DEF g
        <5> QED
          BY <1>7, <4>2, <5>1
      <4> QED
        BY <4>1, <4>2
    <3> QED
      BY <3>1
  <2>2. Results(p)
    <3> HIDE DEF Results, g
    <3> QED
      BY <2>1
  <2>3. FlattenSeq(seqs) = p[N]
    BY <1>1, <1>10 DEF FlattenSeq
  <2> HIDE DEF p, g
  <2>4. p[1] = seqs[1] /\ \A i \in 2..N : p[i] = p[i - 1] \o seqs[i]
    <3>1. \A i \in 1..N : p[i] = IF i = 1 THEN seqs[i] ELSE p[i - 1] \o seqs[i]
      BY <2>2, Zenon
    <3>2. 1 \in 1..N /\ \A i \in 2..N : i \in 1..N /\ i # 1
      BY <1>10
    <3> HIDE DEF Results
    <3> QED
      BY <3>1, <3>2, Zenon
  <2> HIDE DEF Results
  <2> DEFINE T == {i \in Nat : i + 1 <= N => p[i + 1] = f[i + 1]}
  <2>5. 0 \in T
    BY <1>8, <2>4
  <2>6. ASSUME NEW i \in Nat, i \in T PROVE i + 1 \in T
    <3> SUFFICES ASSUME (i + 1) + 1 <= N PROVE p[(i + 1) + 1] = f[(i + 1) + 1]
      OBVIOUS
    <3>1. p[i + 1] = f[i + 1]
      BY <2>6
    <3>2. (i + 1) + 1 \in 2..N /\ (i + 1) + 1 \in 1..N /\ ((i + 1) + 1) - 1 = i + 1
      OBVIOUS
    <3> QED
      BY <1>7, <2>4, <3>1, <3>2
  <2> HIDE DEF T
  <2>7. \A i \in Nat : i \in T
    BY <2>5, <2>6, InductionAlong
  <2>8. N - 1 \in T /\ (N - 1) + 1 = N
    BY <1>10, <2>7
  <2>9. p[N] = f[N]
    BY <2>8 DEF T
  <2> QED
    BY <1>1, <1>7, <2>3, <2>9
<1> QED
  BY <1>9, <1>10

\* Pieces of the length n, all but the last one, that is not longer.
EvenPieces(seqs, n) ==
  \A k \in 1..Len(seqs) : /\ Len(seqs[k]) \in 1..n
                          /\ k < Len(seqs) => Len(seqs[k]) = n

\* s is what these pieces are together: its length, and where each piece is.
IsTogether(s, seqs, n) ==
  /\ Len(s) = IF seqs = <<>> THEN 0 ELSE (Len(seqs) - 1) * n + Len(seqs[Len(seqs)])
  /\ \A k \in 1..Len(seqs) : \A j \in 1..Len(seqs[k]) :
       s[(k - 1) * n + j] = seqs[k][j]

\* Where the pieces are after FlattenSeq.
LEMMA FlattenEvenPieces ==
  ASSUME NEW X, NEW seqs \in Seq(Seq(X)), NEW n \in Nat \ {0}, EvenPieces(seqs, n)
  PROVE  /\ FlattenSeq(seqs) \in Seq(X)
         /\ IsTogether(FlattenSeq(seqs), seqs, n)
<1>1. PICK N \in Nat : N = Len(seqs)
  OBVIOUS
<1>2. \A k \in 1..N : seqs[k] \in Seq(X)
  BY <1>1
<1>3. PICK f \in [0..N -> Seq(X)] : /\ f[0] = <<>>
                                    /\ \A i \in 1..N : f[i] = f[i - 1] \o seqs[i]
                                    /\ FlattenSeq(seqs) = f[N]
  BY <1>1, FlattenIsALoop
<1>4. \A k \in 1..N : Len(seqs[k]) \in 1..n /\ (k < N => Len(seqs[k]) = n)
  BY <1>1 DEF EvenPieces
<1> DEFINE Holds(m) ==
      /\ Len(f[m]) = IF m = 0 THEN 0 ELSE (m - 1) * n + Len(seqs[m])
      /\ \A k \in 1..m : \A j \in 1..Len(seqs[k]) : f[m][(k - 1) * n + j] = seqs[k][j]
<1> DEFINE T == {m \in Nat : m <= N => Holds(m)}
<1>5. 0 \in T
  BY <1>3
<1> HIDE DEF Holds
<1>6. ASSUME NEW m \in Nat, m \in T PROVE m + 1 \in T
  <2> SUFFICES ASSUME m + 1 <= N PROVE Holds(m + 1)
    OBVIOUS
  <2>1. Len(f[m]) = m * n
    <3>1. CASE m = 0
      <4> Holds(m)
        BY <1>6
      <4> QED
        BY <3>1 DEF Holds
    <3>2. CASE m # 0
      <4>1. Len(f[m]) = (m - 1) * n + Len(seqs[m])
        <5>1. Holds(m)
          BY <1>6
        <5>2. Len(f[m]) = IF m = 0 THEN 0 ELSE (m - 1) * n + Len(seqs[m])
          BY <5>1, Zenon DEF Holds
        <5> HIDE DEF T
        <5> QED
          BY <3>2, <5>2, Zenon
      <4>3. Len(seqs[m]) = n
        <5> m \in 1..N /\ m < N
          BY <3>2
        <5> HIDE DEF T
        <5> QED
          BY <1>4
      <4>2. (m - 1) * n + n = m * n
        OBVIOUS
      <4> QED
        BY <4>1, <4>2, <4>3
    <3> QED
      BY <3>1, <3>2
  <2>2. /\ m + 1 \in 1..N /\ (m + 1) - 1 = m /\ m \in 0..N
        /\ f[m] \in Seq(X) /\ seqs[m + 1] \in Seq(X)
    BY <1>2
  <2>3. f[m + 1] = f[m] \o seqs[m + 1]
    BY <1>3, <2>2
  <2>4. /\ Len(f[m + 1]) = Len(f[m]) + Len(seqs[m + 1])
        /\ \A i \in 1..(Len(f[m]) + Len(seqs[m + 1])) :
             f[m + 1][i] = IF i <= Len(f[m]) THEN f[m][i]
                           ELSE seqs[m + 1][i - Len(f[m])]
    BY <2>2, <2>3, ConcatProperties
  <2>5. Len(seqs[m + 1]) \in 1..n /\ m * n \in Nat
    BY <1>4, <2>2
  <2>6. ASSUME NEW k \in 1..(m + 1), NEW j \in 1..Len(seqs[k])
        PROVE  f[m + 1][(k - 1) * n + j] = seqs[k][j]
    <3>1. CASE k = m + 1
      <4>1. (k - 1) * n + j = m * n + j /\ j \in 1..Len(seqs[m + 1]) /\ j \in Nat
        BY <2>5, <3>1
      <4>2. f[m + 1][m * n + j] = seqs[m + 1][j]
        <5> DEFINE i == m * n + j
        <5>1. /\ i \in 1..(Len(f[m]) + Len(seqs[m + 1])) /\ ~(i <= Len(f[m]))
              /\ i - Len(f[m]) = j
          BY <2>1, <2>5, <4>1
        <5> HIDE DEF i, T
        <5>2. f[m + 1][i] = seqs[m + 1][j]
          BY <2>4, <5>1, Zenon
        <5> QED
          BY <5>2 DEF i
      <4> QED
        BY <3>1, <4>1, <4>2
    <3>2. CASE k <= m
      <4>1. k \in 1..m /\ k \in 1..N /\ Len(seqs[k]) = n /\ j \in 1..n
        BY <1>4, <3>2
      <4>2. f[m][(k - 1) * n + j] = seqs[k][j]
        <5> Holds(m)
          BY <1>6
        <5> QED
          BY <4>1, Zenon DEF Holds
      <4>3. (k - 1) * n + n <= m * n /\ (k - 1) * n \in Nat
        <5>1. k - 1 \in Nat /\ k - 1 < m
          BY <4>1
        <5>2. ((k - 1) + 1) * n <= m * n
          BY <5>1, ProductGrows
        <5>3. ((k - 1) + 1) * n = (k - 1) * n + n
          OBVIOUS
        <5> QED
          BY <5>1, <5>2, <5>3
      <4> DEFINE i == (k - 1) * n + j
      <4>4. i \in 1..(Len(f[m]) + Len(seqs[m + 1])) /\ i <= Len(f[m])
        <5> DEFINE x == (k - 1) * n
                   y == m * n
        <5>1. x \in Nat /\ y \in Nat /\ x + n <= y /\ Len(f[m]) = y /\ Len(seqs[m + 1]) \in Nat
          BY <2>1, <2>5, <4>3
        <5> HIDE DEF x, y, T
        <5>2. x + j \in 1..(Len(f[m]) + Len(seqs[m + 1])) /\ x + j <= Len(f[m])
          BY <4>1, <5>1
        <5> QED
          BY <5>2 DEF x
      <4>5. f[m][i] = seqs[k][j]
        BY <4>2
      <4> HIDE DEF i, T
      <4>6. f[m + 1][i] = seqs[k][j]
        BY <2>4, <4>4, <4>5
      <4> QED
        BY <4>6 DEF i
    <3> QED
      BY <3>1, <3>2
  <2>7. Len(f[m + 1]) = ((m + 1) - 1) * n + Len(seqs[m + 1]) /\ m + 1 # 0
    <3> HIDE DEF T
    <3> QED
      BY <2>1, <2>4
  <2> QED
    BY <2>6, <2>7 DEF Holds
<1> HIDE DEF T
<1>7. \A m \in Nat : m \in T
  BY <1>5, <1>6, InductionAlong
<1>8. Holds(N)
  BY <1>7 DEF T
<1>9. seqs = <<>> <=> N = 0
  BY <1>1, EmptySeq
<1> QED
  BY <1>1, <1>3, <1>8, <1>9 DEF Holds, IsTogether

-------------------------------------------------------------------------------
(* Hexadecimal text.                                                       *)

\* HexStringTable gives 0 to 9 and a to f, and GetHexVal takes them back, in
\* either case.
LEMMA HexDigits ==
  ASSUME NEW v \in 0..15
  PROVE  /\ HexDigit(v) \in 48..102
         /\ HexDigit(v) >= 97 => HexDigit(v) - 32 # 120 /\ GetHexVal(HexDigit(v) - 32) = v
         /\ GetHexVal(HexDigit(v)) = v
BY DEF HexDigit, GetHexVal

\* Texts with two digits for every byte of bytes.
Spells(text, bytes) ==
  /\ text \in Seq(Nat)
  /\ Len(text) = 2 * Len(bytes)
  /\ \A k \in 1..Len(bytes) :
       /\ text[2 * k - 1] # 120 /\ GetHexVal(text[2 * k - 1]) = bytes[k] \div 16
       /\ text[2 * k] # 120 /\ GetHexVal(text[2 * k]) = bytes[k] % 16

\* ToHexString writes the two digits of each byte, the higher one first.
LEMMA ToHexStringDigits ==
  ASSUME NEW bytes \in Seq(0..255)
  PROVE  LET text == ToHexString(bytes)
         IN  /\ text \in Seq(48..102)
             /\ Len(text) = 2 * Len(bytes)
             /\ \A k \in 1..Len(bytes) : /\ text[2 * k - 1] = HexDigit(bytes[k] \div 16)
                                         /\ text[2 * k] = HexDigit(bytes[k] % 16)
<1> DEFINE N == Len(bytes)
           Pair(b) == <<HexDigit(b \div 16), HexDigit(b % 16)>>
           pairs == [i \in DOMAIN bytes |-> Pair(bytes[i])]
           X == 48..102
<1>1. N \in Nat /\ DOMAIN bytes = 1..N /\ \A i \in 1..N : bytes[i] \in 0..255
  BY FunctionOfSeq
<1>2. ASSUME NEW b \in 0..255
      PROVE  /\ Pair(b) \in Seq(X) /\ Len(Pair(b)) = 2
             /\ Pair(b)[1] = HexDigit(b \div 16) /\ Pair(b)[2] = HexDigit(b % 16)
  <2>1. b \div 16 \in 0..15 /\ b % 16 \in 0..15
    OBVIOUS
  <2>2. HexDigit(b \div 16) \in X /\ HexDigit(b % 16) \in X
    BY <2>1, HexDigits
  <2> QED
    BY <2>2
<1> HIDE DEF Pair, X, N
<1>3. pairs \in [1..N -> Seq(X)]
  BY <1>1, <1>2
<1>4. /\ pairs \in Seq(Seq(X)) /\ Len(pairs) = N
      /\ \A i \in 1..N : pairs[i] = Pair(bytes[i])
  <2>1. \A i \in 1..N : pairs[i] = Pair(bytes[i])
    BY <1>1
  <2> HIDE DEF pairs
  <2> QED
    BY <1>1, <1>3, <2>1, SeqOfFunction
<1> HIDE DEF pairs
<1>5. \A i \in 1..N : /\ Len(pairs[i]) = 2
                      /\ pairs[i][1] = HexDigit(bytes[i] \div 16)
                      /\ pairs[i][2] = HexDigit(bytes[i] % 16)
  <2> SUFFICES ASSUME NEW i \in 1..N
               PROVE  /\ Len(pairs[i]) = 2
                      /\ pairs[i][1] = HexDigit(bytes[i] \div 16)
                      /\ pairs[i][2] = HexDigit(bytes[i] % 16)
    OBVIOUS
  <2>1. bytes[i] \in 0..255 /\ pairs[i] = Pair(bytes[i])
    BY <1>1, <1>4
  <2>2. PICK b \in 0..255 : b = bytes[i]
    BY <2>1
  <2>3. /\ Len(Pair(b)) = 2
        /\ Pair(b)[1] = HexDigit(b \div 16) /\ Pair(b)[2] = HexDigit(b % 16)
    BY <1>2
  <2> QED
    BY <2>1, <2>2, <2>3, Zenon
<1>6. EvenPieces(pairs, 2)
  BY <1>4, <1>5 DEF EvenPieces
<1>7. 2 \in Nat \ {0}
  OBVIOUS
<1>12. FlattenSeq(pairs) \in Seq(X) /\ IsTogether(FlattenSeq(pairs), pairs, 2)
  BY <1>4, <1>6, <1>7, FlattenEvenPieces
<1>8. /\ FlattenSeq(pairs) \in Seq(X)
      /\ Len(FlattenSeq(pairs)) = IF pairs = <<>> THEN 0
                                  ELSE (Len(pairs) - 1) * 2 + Len(pairs[Len(pairs)])
      /\ \A k \in 1..Len(pairs) : \A j \in 1..Len(pairs[k]) :
           FlattenSeq(pairs)[(k - 1) * 2 + j] = pairs[k][j]
  BY <1>12, Zenon DEF IsTogether
<1>9. Len(FlattenSeq(pairs)) = 2 * N
  <2>1. CASE N = 0
    <3> pairs = <<>>
      BY <1>4, <2>1, EmptySeq
    <3> QED
      BY <1>8, <2>1
  <2>2. CASE N # 0
    <3>1. N \in 1..N /\ (N - 1) * 2 + 2 = 2 * N
      BY <1>1, <2>2
    <3>2. pairs # <<>>
      BY <1>4, <2>2, EmptySeq
    <3>3. Len(pairs[N]) = 2
      BY <1>5, <3>1
    <3>4. Len(FlattenSeq(pairs)) = (N - 1) * 2 + Len(pairs[N])
      BY <1>4, <1>8, <3>2, Zenon
    <3> QED
      BY <3>1, <3>3, <3>4
  <2> QED
    BY <2>1, <2>2
<1>10. ASSUME NEW k \in 1..N
       PROVE  /\ FlattenSeq(pairs)[2 * k - 1] = HexDigit(bytes[k] \div 16)
              /\ FlattenSeq(pairs)[2 * k] = HexDigit(bytes[k] % 16)
  <2>1. k \in Nat /\ (k - 1) * 2 + 1 = 2 * k - 1 /\ (k - 1) * 2 + 2 = 2 * k
    BY <1>1
  <2>2. k \in 1..Len(pairs) /\ 1 \in 1..Len(pairs[k]) /\ 2 \in 1..Len(pairs[k])
    BY <1>4, <1>5
  <2> QED
    BY <1>5, <1>8, <2>1, <2>2
<1>11. ToHexString(bytes) = FlattenSeq(pairs)
  BY DEF ToHexString, pairs, Pair
<1> QED
  BY <1>8, <1>9, <1>10, <1>11 DEF N, X

\* HexToByteArray reads digits that do not begin with "0x" as they are.
LEMMA HexToByteArrayReads ==
  ASSUME NEW bytes \in Seq(0..255), NEW text, Spells(text, bytes)
  PROVE  /\ HexToByteArray(text) = bytes
         /\ HexToByteArray(<<48, 120>> \o text) = bytes
<1> DEFINE N == Len(bytes)
           Read(digits) == [i \in 1..(Len(digits) \div 2) |->
             (GetHexVal(digits[2 * i - 1]) * 16 + GetHexVal(digits[2 * i])) % 256]
<1> HIDE DEF Read
<1>1. /\ text \in Seq(Nat) /\ Len(text) = 2 * N /\ N \in Nat
      /\ \A i \in 1..N : bytes[i] \in 0..255
  <2>1. text \in Seq(Nat) /\ Len(text) = 2 * N
    BY DEF Spells
  <2>2. N \in Nat /\ \A i \in 1..N : bytes[i] \in 0..255
    BY FunctionOfSeq
  <2> QED
    BY <2>1, <2>2
<1>2. Read(text) = bytes
  <2>1. Len(text) \div 2 = N
    BY <1>1
  <2>2. ASSUME NEW i \in 1..N
        PROVE  (GetHexVal(text[2 * i - 1]) * 16 + GetHexVal(text[2 * i])) % 256 = bytes[i]
    <3>1. /\ GetHexVal(text[2 * i - 1]) = bytes[i] \div 16
          /\ GetHexVal(text[2 * i]) = bytes[i] % 16
      BY DEF Spells
    <3>2. \A b \in 0..255 : ((b \div 16) * 16 + (b % 16)) % 256 = b
      OBVIOUS
    <3>3. PICK b \in 0..255 : b = bytes[i]
      BY <1>1
    <3> HIDE DEF N
    <3>4. GetHexVal(text[2 * i - 1]) = b \div 16 /\ GetHexVal(text[2 * i]) = b % 16
      BY <3>1, <3>3, Zenon
    <3>5. ((b \div 16) * 16 + (b % 16)) % 256 = b
      BY <3>2
    <3> QED
      BY <3>3, <3>4, <3>5
  <2>3. Read(text) = [i \in 1..N |-> bytes[i]]
    BY <2>1, <2>2 DEF Read
  <2>4. bytes = [i \in 1..N |-> bytes[i]]
    OBVIOUS
  <2> QED
    BY <2>3, <2>4
<1>3. ~(Len(text) >= 2 /\ SubSeq(text, 1, 2) = <<48, 120>>)
  <2> SUFFICES ASSUME Len(text) >= 2, SubSeq(text, 1, 2) = <<48, 120>> PROVE FALSE
    OBVIOUS
  <2>1. text[2] # 120
    <3>1. 1 \in 1..N /\ 2 * 1 = 2
      BY <1>1
    <3>2. text[2 * 1] # 120
      BY <3>1, Zenon DEF Spells
    <3> QED
      BY <3>1, <3>2
  <2>2. SubSeq(text, 1, 2)[2] = text[2]
    <3> \A i \in 1..2 : text[i] \in Nat
      BY <1>1
    <3> QED
      BY <1>1, SubSeqProperties
  <2>3. <<48, 120>>[2] = 120
    OBVIOUS
  <2>4. SubSeq(text, 1, 2)[2] = 120
    BY <2>3
  <2> HIDE DEF N
  <2> QED
    BY <2>1, <2>2, <2>4
<1> HIDE DEF N
<1> DEFINE prefix == <<48, 120>>
           full == prefix \o text
<1>4. prefix \in Seq(Nat) /\ Len(prefix) = 2 /\ prefix[1] = 48 /\ prefix[2] = 120
  OBVIOUS
<1> HIDE DEF prefix
<1>5. /\ full \in Seq(Nat) /\ Len(full) = 2 + Len(text)
      /\ \A i \in 1..Len(full) : full[i] = IF i <= 2 THEN prefix[i] ELSE text[i - 2]
  <2>1. /\ full \in Seq(Nat) /\ Len(full) = Len(prefix) + Len(text)
        /\ \A i \in 1..(Len(prefix) + Len(text)) :
             full[i] = IF i <= Len(prefix) THEN prefix[i] ELSE text[i - Len(prefix)]
    <3> prefix \in Seq(Nat) /\ text \in Seq(Nat)
      BY <1>1, <1>4
    <3> QED
      BY ConcatProperties
  <2> HIDE DEF full
  <2>2. Len(prefix) = 2 /\ Len(full) = 2 + Len(text)
    BY <1>4, <2>1
  <2> QED
    BY <2>1, <2>2, Zenon
<1> HIDE DEF full
<1>6. SubSeq(full, 1, 2) = prefix
  <2>1. Len(SubSeq(full, 1, 2)) = 2 /\ \A i \in 1..2 : SubSeq(full, 1, 2)[i] = full[i]
    <3> \A i \in 1..2 : full[i] \in Nat
      BY <1>1, <1>5
    <3> QED
      BY <1>5, SubSeqProperties
  <2>2. SubSeq(full, 1, 2) \in Seq(Nat)
    BY <1>1, <1>5
  <2>3. \A i \in 1..2 : SubSeq(full, 1, 2)[i] = prefix[i]
    BY <1>1, <1>5, <2>1
  <2> QED
    BY <1>4, <2>1, <2>2, <2>3, SeqEqual
<1>7. SubSeq(full, 3, Len(full)) = text
  <2> DEFINE rest == SubSeq(full, 3, Len(full))
  <2>1. \A i \in 3..Len(full) : full[i] \in Nat
    BY <1>5
  <2>2. /\ rest \in Seq(Nat) /\ Len(rest) = Len(text)
        /\ \A i \in 1..Len(text) : rest[i] = full[3 + i - 1]
    BY <1>1, <1>5, <2>1, SubSeqProperties
  <2> HIDE DEF rest
  <2>3. \A i \in 1..Len(text) : rest[i] = text[i]
    <3> SUFFICES ASSUME NEW i \in 1..Len(text) PROVE rest[i] = text[i]
      OBVIOUS
    <3>1. 3 + i - 1 = i + 2 /\ i + 2 \in 1..Len(full) /\ ~(i + 2 <= 2) /\ (i + 2) - 2 = i
      BY <1>1, <1>5
    <3>2. full[i + 2] = text[i]
      BY <1>5, <3>1
    <3>3. rest[i] = full[i + 2]
      BY <2>2, <3>1
    <3> QED
      BY <3>2, <3>3
  <2>4. rest = text
    BY <1>1, <2>2, <2>3, SeqEqual
  <2> QED
    BY <2>4 DEF rest
<1>8. HexToByteArray(text) = Read(text)
  BY <1>3, Zenon DEF HexToByteArray, Read
<1>9. HexToByteArray(full) = Read(text)
  <2>1. Len(full) >= 2
    BY <1>1, <1>5
  <2> QED
    BY <1>6, <1>7, <2>1, Zenon DEF HexToByteArray, prefix, Read
<1> QED
  BY <1>2, <1>8, <1>9 DEF full, prefix

\* ArrayExtensions.ToHexString and StringExtensions.HexToByteArray: bytes of
\* any length survive their hexadecimal text, as it is, in capitals or with a
\* prefix.
THEOREM HexTextRoundTrip ==
  ASSUME NEW bytes \in Seq(0..255)
  PROVE  \A spelling \in {ToHexString(bytes), Capitals(ToHexString(bytes)),
                          <<48, 120>> \o ToHexString(bytes)} :
           HexToByteArray(spelling) = bytes
<1> DEFINE text == ToHexString(bytes)
           N == Len(bytes)
<1>1. /\ text \in Seq(48..102) /\ Len(text) = 2 * N /\ N \in Nat
      /\ \A k \in 1..N : /\ text[2 * k - 1] = HexDigit(bytes[k] \div 16)
                         /\ text[2 * k] = HexDigit(bytes[k] % 16)
  BY ToHexStringDigits
<1>2. \A k \in 1..N : bytes[k] \div 16 \in 0..15 /\ bytes[k] % 16 \in 0..15
  <2>1. \A b \in 0..255 : b \div 16 \in 0..15 /\ b % 16 \in 0..15
    OBVIOUS
  <2>2. \A k \in 1..N : bytes[k] \in 0..255
    <3> HIDE DEF text
    <3> QED
      BY FunctionOfSeq
  <2> HIDE DEF N, text
  <2> QED
    BY <2>1, <2>2
<1> HIDE DEF text, N
<1>3. /\ DOMAIN text = 1..(2 * N)
      /\ \A i \in 1..(2 * N) : text[i] \in 48..102
  BY <1>1, FunctionOfSeq, Zenon
<1>4. Spells(text, bytes)
  <2>1. text \in Seq(Nat)
    <3> 48..102 \subseteq Nat
      OBVIOUS
    <3> QED
      BY <1>1, SeqMonotonic
  <2>2. ASSUME NEW k \in 1..N
        PROVE  /\ text[2 * k - 1] # 120 /\ GetHexVal(text[2 * k - 1]) = bytes[k] \div 16
               /\ text[2 * k] # 120 /\ GetHexVal(text[2 * k]) = bytes[k] % 16
    <3>1. 2 * k - 1 \in 1..(2 * N) /\ 2 * k \in 1..(2 * N)
      BY <1>1
    <3>2. text[2 * k - 1] \in 48..102 /\ text[2 * k] \in 48..102
      BY <1>3, <3>1
    <3>3. /\ text[2 * k - 1] = HexDigit(bytes[k] \div 16) /\ bytes[k] \div 16 \in 0..15
          /\ text[2 * k] = HexDigit(bytes[k] % 16) /\ bytes[k] % 16 \in 0..15
      BY <1>1, <1>2
    <3>4. GetHexVal(text[2 * k - 1]) = bytes[k] \div 16 /\ GetHexVal(text[2 * k]) = bytes[k] % 16
      BY <3>3, HexDigits, Zenon
    <3>6. \A c \in 48..102 : c # 120
      OBVIOUS
    <3>5. text[2 * k - 1] # 120 /\ text[2 * k] # 120
      BY <3>2, <3>6, Zenon
    <3> QED
      BY <3>4, <3>5
  <2> QED
    BY <1>1, <2>1, <2>2, Zenon DEF Spells, N
<1> DEFINE capitals == Capitals(text)
<1>5. Spells(capitals, bytes)
  <2>1. /\ capitals \in [1..(2 * N) -> Nat]
        /\ \A i \in 1..(2 * N) :
             capitals[i] = IF text[i] >= 97 THEN text[i] - 32 ELSE text[i]
    <3>1. capitals = [i \in 1..(2 * N) |-> IF text[i] >= 97 THEN text[i] - 32 ELSE text[i]]
      BY <1>3, Zenon DEF Capitals
    <3>2. \A i \in 1..(2 * N) : (IF text[i] >= 97 THEN text[i] - 32 ELSE text[i]) \in Nat
      <4>1. \A c \in 48..102 : (IF c >= 97 THEN c - 32 ELSE c) \in Nat
        OBVIOUS
      <4> QED
        BY <1>3, <4>1, Zenon
    <3> HIDE DEF capitals
    <3> QED
      BY <3>1, <3>2
  <2> HIDE DEF capitals
  <2>2. capitals \in Seq(Nat) /\ Len(capitals) = 2 * N
    <3> 2 * N \in Nat
      BY <1>1
    <3> QED
      BY <2>1, SeqOfFunction
  <2>3. ASSUME NEW i \in 1..(2 * N), NEW v \in 0..15, text[i] = HexDigit(v)
        PROVE  capitals[i] # 120 /\ GetHexVal(capitals[i]) = v
    <3>1. /\ HexDigit(v) \in 48..102 /\ GetHexVal(HexDigit(v)) = v
          /\ HexDigit(v) >= 97 =>
               HexDigit(v) - 32 # 120 /\ GetHexVal(HexDigit(v) - 32) = v
      BY HexDigits
    <3>2. capitals[i] = IF HexDigit(v) >= 97 THEN HexDigit(v) - 32 ELSE HexDigit(v)
      BY <2>1, <2>3
    <3>3. CASE HexDigit(v) >= 97
      BY <3>1, <3>2, <3>3
    <3>4. CASE ~(HexDigit(v) >= 97)
      BY <3>1, <3>2, <3>4
    <3> QED
      BY <3>3, <3>4
  <2>4. ASSUME NEW k \in 1..N
        PROVE  /\ capitals[2 * k - 1] # 120 /\ GetHexVal(capitals[2 * k - 1]) = bytes[k] \div 16
               /\ capitals[2 * k] # 120 /\ GetHexVal(capitals[2 * k]) = bytes[k] % 16
    <3>1. 2 * k - 1 \in 1..(2 * N) /\ 2 * k \in 1..(2 * N)
      BY <1>1
    <3>2. /\ text[2 * k - 1] = HexDigit(bytes[k] \div 16) /\ bytes[k] \div 16 \in 0..15
          /\ text[2 * k] = HexDigit(bytes[k] % 16) /\ bytes[k] % 16 \in 0..15
      BY <1>1, <1>2
    <3>3. capitals[2 * k - 1] # 120 /\ GetHexVal(capitals[2 * k - 1]) = bytes[k] \div 16
      BY <2>3, <3>1, <3>2, Zenon
    <3>4. capitals[2 * k] # 120 /\ GetHexVal(capitals[2 * k]) = bytes[k] % 16
      BY <2>3, <3>1, <3>2, Zenon
    <3> QED
      BY <3>3, <3>4
  <2> QED
    BY <1>1, <2>2, <2>4, Zenon DEF Spells, N
<1>6. HexToByteArray(text) = bytes /\ HexToByteArray(<<48, 120>> \o text) = bytes
  BY <1>4, HexToByteArrayReads
<1>7. HexToByteArray(capitals) = bytes
  BY <1>5, HexToByteArrayReads
<1> QED
  BY <1>6, <1>7 DEF text

-------------------------------------------------------------------------------
(* The CryptoNote tree.                                                    *)

\* The leaf in a slot: two slots each for the first leaves.
LeafIn(whole, slot) == IF slot <= 2 * whole THEN (slot + 1) \div 2 ELSE slot - whole

\* The k-th node over 2^d slots, above the nodes below.
NodeAt(leaves, whole, below, d, k) ==
  LET first == LeafIn(whole, (k - 1) * Power(2, d) + 1)
      last == LeafIn(whole, k * Power(2, d))
  IN  IF first = last THEN leaves[last] ELSE <<below[2 * k - 1], below[2 * k]>>

IsTree(node, leaves, whole, depth) ==
  \A d \in 0..depth : \A k \in 1..Power(2, depth - d) :
    node[d][k] = NodeAt(leaves, whole, node[d - 1], d, k)

\* The slots from i to j hold their leaves.
AreSlots(below, leaves, whole, i, j) ==
  \A slot \in i..j : below[slot] = leaves[LeafIn(whole, slot)]

Same(a, b, cnt) == \A j \in 1..cnt : a[j] = b[j]

\* A node over one slot is the leaf in it.
LEMMA NodesOfSlots ==
  ASSUME NEW leaves, NEW whole, NEW below, NEW k \in Nat
  PROVE  NodeAt(leaves, whole, below, 0, k) = leaves[LeafIn(whole, k)]
<1>1. Power(2, 0) = 1
  BY PowerStep
<1>2. (k - 1) * Power(2, 0) + 1 = k /\ k * Power(2, 0) = k
  BY <1>1
<1> QED
  BY <1>2, Zenon DEF NodeAt

\* A node over two slots is the leaf that fills them, or a pair of leaves.
LEMMA NodesOfPairs ==
  ASSUME NEW leaves, NEW whole \in Nat, NEW below, NEW k \in Nat \ {0},
         AreSlots(below, leaves, whole, 2 * k - 1, 2 * k)
  PROVE  NodeAt(leaves, whole, below, 1, k)
           = IF k <= whole THEN leaves[k]
             ELSE <<leaves[2 * k - whole - 1], leaves[2 * k - whole]>>
<1>1. Power(2, 1) = 2
  <2>1. Power(2, 0) = 1 /\ Power(2, 0 + 1) = 2 * Power(2, 0)
    BY PowerStep
  <2> QED
    BY <2>1
<1>2. (k - 1) * Power(2, 1) + 1 = 2 * k - 1 /\ k * Power(2, 1) = 2 * k
  BY <1>1
<1> DEFINE first == LeafIn(whole, 2 * k - 1)
           last == LeafIn(whole, 2 * k)
<1>3. NodeAt(leaves, whole, below, 1, k)
        = IF first = last THEN leaves[last] ELSE <<below[2 * k - 1], below[2 * k]>>
  BY <1>2, Zenon DEF NodeAt
<1>4. CASE k <= whole
  <2>1. first = k /\ last = k
    BY <1>4 DEF LeafIn
  <2> QED
    BY <1>3, <1>4, <2>1
<1>5. CASE ~(k <= whole)
  <2>1. first = 2 * k - whole - 1 /\ last = 2 * k - whole /\ first # last
    BY <1>5 DEF LeafIn
  <2>2. below[2 * k - 1] = leaves[first] /\ below[2 * k] = leaves[last]
    <3>1. 2 * k - 1 \in (2 * k - 1)..(2 * k) /\ 2 * k \in (2 * k - 1)..(2 * k)
      OBVIOUS
    <3> QED
      BY <3>1, Zenon DEF AreSlots
  <2> HIDE DEF first, last
  <2> QED
    BY <1>3, <1>5, <2>1, <2>2, Zenon
<1> QED
  BY <1>4, <1>5

\* A node over four slots and more is the hash of its halves.
LEMMA NodesOfNodes ==
  ASSUME NEW leaves, NEW whole \in Nat, NEW below, NEW k \in Nat \ {0}, NEW d \in Nat, d >= 2
  PROVE  NodeAt(leaves, whole, below, d, k) = <<below[2 * k - 1], below[2 * k]>>
<1> DEFINE P == Power(2, d)
           x == (k - 1) * P + 1
           y == k * P
<1>1. P \in Nat /\ P >= 4
  <2>1. \A m \in Nat : Power(2, m) \in Nat \ {0} /\ Power(2, m + 1) = 2 * Power(2, m)
    BY PowerStep, PowerPositive
  <2>2. d - 2 \in Nat /\ d - 1 \in Nat /\ (d - 2) + 1 = d - 1 /\ (d - 1) + 1 = d
    OBVIOUS
  <2>3. /\ Power(2, d - 2) \in Nat \ {0} /\ Power(2, d - 1) = 2 * Power(2, d - 2)
        /\ Power(2, d) = 2 * Power(2, d - 1)
    BY <2>1, <2>2
  <2>4. \A a \in Nat \ {0} : \A b, c : b = 2 * a /\ c = 2 * b => c \in Nat /\ c >= 4
    OBVIOUS
  <2> QED
    BY <2>3, <2>4, Zenon
<1> HIDE DEF P
<1>2. x \in Nat \ {0} /\ y \in Nat /\ y = x + (P - 1)
  <2>1. (k - 1) * P \in Nat /\ k * P = (k - 1) * P + P
    BY <1>1
  <2> QED
    BY <1>1, <2>1
<1> HIDE DEF x, y
<1>3. LeafIn(whole, x) # LeafIn(whole, y)
  <2>1. \A a, b \in Nat : b >= a + 3 => LeafIn(whole, a) # LeafIn(whole, b)
    BY DEF LeafIn
  <2> QED
    BY <1>1, <1>2, <2>1
<1> QED
  BY <1>3, Zenon DEF NodeAt, x, y, P

\* The tree of any leaves has its nodes.
LEMMA MerkleHasNodes ==
  ASSUME NEW leaves, NEW depth \in Nat
  PROVE  \E node : /\ IsTree(node, leaves, Power(2, depth) - Len(leaves), depth)
                   /\ Merkle(leaves, depth) = node[depth][1]
<1> DEFINE whole == Power(2, depth) - Len(leaves)
           Layer(below, d) ==
             [k \in 1..Power(2, depth - d) |-> NodeAt(leaves, whole, below, d, k)]
           Results(f, M) == f = [d \in 0..M |-> Layer(f[d - 1], d)]
           p == CHOOSE f : Results(f, depth)
<1>1. Merkle(leaves, depth) = p[depth][1]
  BY DEF Merkle, NodeAt, LeafIn
<1>2. ASSUME NEW a, NEW b PROVE Layer(a, 0) = Layer(b, 0)
  <2>1. \A k \in 1..Power(2, depth - 0) : k \in Nat
    <3> depth - 0 \in Nat
      OBVIOUS
    <3>1. Power(2, depth - 0) \in Nat
      BY PowerStep
    <3> QED
      BY <3>1
  <2>2. \A k \in 1..Power(2, depth - 0) :
          NodeAt(leaves, whole, a, 0, k) = NodeAt(leaves, whole, b, 0, k)
    <3> HIDE DEF whole
    <3> QED
      BY <2>1, NodesOfSlots
  <2> HIDE DEF whole
  <2> QED
    BY <2>2
<1> HIDE DEF whole, Layer, p
<1> DEFINE T == {M \in Nat : \E f : Results(f, M)}
<1>3. 0 \in T
  <2> DEFINE f == [d \in 0..0 |-> Layer(<<>>, d)]
  <2>1. \A d \in 0..0 : d = 0
    OBVIOUS
  <2>2. \A d \in 0..0 : Layer(<<>>, d) = Layer(f[d - 1], d)
    <3> HIDE DEF f
    <3> QED
      BY <1>2, <2>1
  <2>3. f = [d \in 0..0 |-> f[d]] /\ \A d \in 0..0 : f[d] = Layer(<<>>, d)
    OBVIOUS
  <2> HIDE DEF f
  <2>4. Results(f, 0)
    BY <2>2, <2>3
  <2> QED
    BY <2>4
<1>4. ASSUME NEW M \in Nat, M \in T PROVE M + 1 \in T
  <2>1. PICK f : Results(f, M)
    BY <1>4
  <2> DEFINE g == [d \in 0..(M + 1) |-> IF d <= M THEN f[d] ELSE Layer(f[M], M + 1)]
  <2>2. \A d \in 0..M : f[d] = Layer(f[d - 1], d)
    BY <2>1, Zenon
  <2>3. ASSUME NEW d \in 0..(M + 1)
        PROVE  g[d] = Layer(g[d - 1], d)
    <3>1. CASE d = 0
      <4>1. 0 \in 0..M /\ 0 \in 0..(M + 1) /\ 0 <= M
        OBVIOUS
      <4>2. g[0] = f[0] /\ f[0] = Layer(f[0 - 1], 0)
        BY <2>2, <4>1
      <4> HIDE DEF g
      <4> QED
        BY <1>2, <3>1, <4>2
    <3>2. CASE d # 0 /\ d <= M
      <4>1. d \in 0..M /\ d - 1 \in 0..(M + 1) /\ d - 1 <= M
        BY <3>2
      <4>2. g[d] = f[d] /\ g[d - 1] = f[d - 1]
        BY <3>2, <4>1
      <4>3. f[d] = Layer(f[d - 1], d)
        BY <2>2, <4>1
      <4> HIDE DEF g
      <4> QED
        BY <4>2, <4>3
    <3>3. CASE d = M + 1
      <4>1. ~(d <= M) /\ d - 1 = M /\ M \in 0..(M + 1) /\ M <= M
        BY <3>3
      <4>2. g[d] = Layer(f[M], M + 1) /\ g[M] = f[M]
        BY <4>1
      <4> HIDE DEF g
      <4> QED
        BY <3>3, <4>1, <4>2
    <3> QED
      BY <3>1, <3>2, <3>3
  <2>4. g = [d \in 0..(M + 1) |-> g[d]]
    OBVIOUS
  <2> HIDE DEF g
  <2>5. Results(g, M + 1)
    BY <2>3, <2>4
  <2> HIDE DEF Results
  <2> QED
    BY <2>5
<1> HIDE DEF Results
<1>5. \E f : Results(f, depth)
  <2> HIDE DEF T
  <2>1. depth \in T
    BY <1>3, <1>4, InductionAlong
  <2> QED
    BY <2>1 DEF T
<1>6. Results(p, depth)
  BY <1>5 DEF p
<1>7. \A d \in 0..depth : p[d] = Layer(p[d - 1], d)
  BY <1>6, Zenon DEF Results
<1>8. IsTree(p, leaves, whole, depth)
  <2>1. ASSUME NEW d \in 0..depth, NEW k \in 1..Power(2, depth - d)
        PROVE  Layer(p[d - 1], d)[k] = NodeAt(leaves, whole, p[d - 1], d, k)
    BY DEF Layer
  <2>2. ASSUME NEW d \in 0..depth, NEW k \in 1..Power(2, depth - d)
        PROVE  p[d][k] = NodeAt(leaves, whole, p[d - 1], d, k)
    BY <1>7, <2>1, Zenon
  <2> QED
    BY <2>2 DEF IsTree
<1> QED
  BY <1>1, <1>8 DEF whole

\* The nodes over two slots, and those above.
AreNodes(node, leaves, whole, depth) ==
  /\ \A k \in 1..Power(2, depth - 1) :
       node[1][k] = IF k <= whole THEN leaves[k]
                    ELSE <<leaves[2 * k - whole - 1], leaves[2 * k - whole]>>
  /\ \A d \in 2..depth : ArePairs(node[d], node[d - 1], Power(2, depth - d))

\* The nodes over two slots are the first layer of tree-hash.c, and those above
\* are pairs.
LEMMA NodesOfTree ==
  ASSUME NEW leaves, NEW whole \in Nat, NEW depth \in Nat \ {0},
         NEW node, IsTree(node, leaves, whole, depth)
  PROVE  AreNodes(node, leaves, whole, depth)
<1>1. \A d \in 0..depth : Power(2, depth - d) \in Nat
  <2> SUFFICES ASSUME NEW d \in 0..depth PROVE Power(2, depth - d) \in Nat
    OBVIOUS
  <2> depth - d \in Nat /\ 2 \in Nat
    OBVIOUS
  <2> QED
    BY PowerStep
<1>2. /\ Power(2, depth) = 2 * Power(2, depth - 1) /\ Power(2, depth - 1) \in Nat
      /\ depth - 0 = depth
  <2>1. depth - 1 \in Nat /\ 2 \in Nat /\ (depth - 1) + 1 = depth /\ depth - 0 = depth
    OBVIOUS
  <2>2. Power(2, depth - 1) \in Nat /\ Power(2, (depth - 1) + 1) = 2 * Power(2, depth - 1)
    BY <2>1, PowerStep
  <2> QED
    BY <2>1, <2>2
<1>3. \A j \in 1..Power(2, depth) : node[0][j] = leaves[LeafIn(whole, j)]
  <2> SUFFICES ASSUME NEW j \in 1..Power(2, depth)
               PROVE  node[0][j] = leaves[LeafIn(whole, j)]
    OBVIOUS
  <2>1. j \in Nat /\ 0 \in 0..depth /\ j \in 1..Power(2, depth - 0)
    BY <1>2
  <2>2. node[0][j] = NodeAt(leaves, whole, node[0 - 1], 0, j)
    BY <2>1, Zenon DEF IsTree
  <2> QED
    BY <2>1, <2>2, NodesOfSlots
<1>4. ASSUME NEW k \in 1..Power(2, depth - 1)
      PROVE  node[1][k] = IF k <= whole THEN leaves[k]
                          ELSE <<leaves[2 * k - whole - 1], leaves[2 * k - whole]>>
  <2>1. k \in Nat \ {0} /\ 1 \in 0..depth /\ 1 - 1 = 0
    BY <1>2
  <2>2. node[1][k] = NodeAt(leaves, whole, node[0], 1, k)
    BY <2>1, Zenon DEF IsTree
  <2>3. AreSlots(node[0], leaves, whole, 2 * k - 1, 2 * k)
    <3>1. \A j \in (2 * k - 1)..(2 * k) : j \in 1..Power(2, depth)
      BY <1>2
    <3> QED
      BY <1>3, <3>1, Zenon DEF AreSlots
  <2> QED
    BY <2>1, <2>2, <2>3, NodesOfPairs
<1>5. ASSUME NEW d \in 2..depth
      PROVE  ArePairs(node[d], node[d - 1], Power(2, depth - d))
  <2>1. d \in 0..depth /\ d \in Nat /\ d >= 2
    OBVIOUS
  <2>2. \A k \in 1..Power(2, depth - d) : k \in Nat \ {0}
    BY <1>1, <2>1
  <2>3. ASSUME NEW k \in 1..Power(2, depth - d)
        PROVE  node[d][k] = <<node[d - 1][2 * k - 1], node[d - 1][2 * k]>>
    <3>1. node[d][k] = NodeAt(leaves, whole, node[d - 1], d, k)
      BY <2>1, Zenon DEF IsTree
    <3>2. k \in Nat \ {0}
      BY <2>2
    <3> QED
      BY <2>1, <3>1, <3>2, NodesOfNodes
  <2> QED
    BY <2>3 DEF ArePairs
<1> QED
  BY <1>4, <1>5 DEF AreNodes

\* Pairs of the same are the same.
LEMMA PairsOfSame ==
  ASSUME NEW cnt \in Nat, NEW a, NEW b, NEW c, NEW d,
         ArePairs(a, b, cnt), ArePairs(c, d, cnt), Same(b, d, 2 * cnt)
  PROVE  Same(a, c, cnt)
<1> SUFFICES ASSUME NEW j \in 1..cnt PROVE a[j] = c[j]
  BY DEF Same
<1>1. 2 * j - 1 \in 1..(2 * cnt) /\ 2 * j \in 1..(2 * cnt)
  OBVIOUS
<1>2. a[j] = <<b[2 * j - 1], b[2 * j]>> /\ c[j] = <<d[2 * j - 1], d[2 * j]>>
  BY DEF ArePairs
<1>3. b[2 * j - 1] = d[2 * j - 1] /\ b[2 * j] = d[2 * j]
  BY <1>1 DEF Same
<1> QED
  BY <1>2, <1>3, Zenon

\* The depth of the tree, whose slots reach for the leaves.
LEMMA DepthIsLeast ==
  ASSUME NEW n \in Nat, NEW m \in 0..29, n <= Power(2, m),
         \A d \in Nat : d < m => Power(2, d) < n
  PROVE  Min({d \in 0..29 : Power(2, d) >= n}) = m
<1> DEFINE S == {d \in 0..29 : Power(2, d) >= n}
           Least(x) == \A y \in S : x <= y
<1>1. \A d \in 0..29 : d \in Nat /\ Power(2, d) \in Nat
  <2> 2 \in Nat /\ \A d \in 0..29 : d \in Nat
    OBVIOUS
  <2> QED
    BY PowerStep
<1>2. m \in S /\ Least(m)
  BY <1>1
<1>3. \A x \in S : Least(x) => x = m
  BY <1>1, <1>2
<1>4. Min(S) = CHOOSE x \in S : Least(x)
  BY DEF Min
<1> HIDE DEF S, Least
<1> QED
  BY <1>2, <1>3, <1>4 DEF S

\* The first powers of two.
LEMMA PowersOfTwo ==
  /\ 2 \in Nat \ {0, 1} /\ Power(2, 0) = 1 /\ Power(2, 1) = 2
  /\ \A m \in Nat : Power(2, m) \in Nat \ {0} /\ Power(2, m + 1) = 2 * Power(2, m)
<1>1. /\ Power(2, 0) = 1
      /\ \A m \in Nat : Power(2, m) \in Nat \ {0} /\ Power(2, m + 1) = 2 * Power(2, m)
  <2> 2 \in Nat \ {0}
    OBVIOUS
  <2> QED
    BY PowerStep, PowerPositive
<1> QED
  BY <1>1

\* The layers of tree-hash.c are the nodes of the tree, from the first layer to
\* the root.
LEMMA LayersAreNodes ==
  ASSUME NEW hashes, NEW pow \in Nat \ {0}, NEW whole, NEW L, NEW node,
         AreLayers(L, hashes, pow), AreNodes(node, hashes, whole, pow + 1),
         Same(FirstLayer(hashes), node[1], Power(2, pow))
  PROVE  TreeHash(hashes) = node[pow + 1][1]
<1>1. \A d \in 2..(pow + 1) : ArePairs(node[d], node[d - 1], Power(2, (pow + 1) - d))
  BY Zenon DEF AreNodes
<1> DEFINE T == {k \in Nat : k <= pow - 1 => Same(L[k], node[k + 1], Power(2, pow - k))}
<1>2. 0 \in T
  <2>1. L[0] = FirstLayer(hashes)
    BY Zenon DEF AreLayers
  <2>2. 0 + 1 = 1 /\ pow - 0 = pow
    OBVIOUS
  <2> QED
    BY <2>1, <2>2
<1>3. ASSUME NEW k \in Nat, k \in T PROVE k + 1 \in T
  <2> SUFFICES ASSUME k + 1 <= pow - 1
               PROVE  Same(L[k + 1], node[(k + 1) + 1], Power(2, pow - (k + 1)))
    OBVIOUS
  <2> DEFINE cnt == Power(2, pow - (k + 1))
  <2>1. /\ k + 1 \in 1..(pow - 1) /\ (k + 1) - 1 = k /\ k <= pow - 1
        /\ (k + 1) + 1 \in 2..(pow + 1) /\ ((k + 1) + 1) - 1 = k + 1
        /\ (pow + 1) - ((k + 1) + 1) = pow - (k + 1)
        /\ pow - (k + 1) \in Nat /\ (pow - (k + 1)) + 1 = pow - k
    OBVIOUS
  <2>2. cnt \in Nat /\ Power(2, pow - k) = 2 * cnt
    BY PowersOfTwo, <2>1
  <2>3. Same(L[k], node[k + 1], 2 * cnt)
    BY <1>3, <2>1, <2>2
  <2> HIDE DEF T
  <2>4. ArePairs(L[k + 1], L[k], cnt)
    BY <2>1 DEF AreLayers
  <2>5. ArePairs(node[(k + 1) + 1], node[k + 1], cnt)
    BY <1>1, <2>1
  <2> HIDE DEF cnt
  <2>6. Same(L[k + 1], node[(k + 1) + 1], cnt)
    BY <2>2, <2>3, <2>4, <2>5, PairsOfSame
  <2> QED
    BY <2>6 DEF cnt
<1> HIDE DEF T
<1>4. \A k \in Nat : k \in T
  BY <1>2, <1>3, InductionAlong
<1>5. Same(L[pow - 1], node[pow], 2)
  <2>1. pow - 1 \in Nat /\ pow - 1 <= pow - 1 /\ (pow - 1) + 1 = pow /\ pow - (pow - 1) = 1
    OBVIOUS
  <2>2. pow - 1 \in T
    BY <1>4, <2>1
  <2>3. Same(L[pow - 1], node[(pow - 1) + 1], Power(2, pow - (pow - 1)))
    BY <2>1, <2>2 DEF T
  <2> QED
    BY PowersOfTwo, <2>1, <2>3
<1>6. node[pow + 1][1] = <<node[pow][2 * 1 - 1], node[pow][2 * 1]>>
  <2>1. /\ pow + 1 \in 2..(pow + 1) /\ (pow + 1) - 1 = pow /\ (pow + 1) - (pow + 1) = 0
        /\ 1 \in 1..Power(2, 0)
    BY PowersOfTwo
  <2>2. ArePairs(node[pow + 1], node[pow], Power(2, 0))
    BY <1>1, <2>1
  <2> QED
    BY <2>1, <2>2 DEF ArePairs
<1>7. TreeHash(hashes) = <<L[pow - 1][1], L[pow - 1][2]>>
  BY Zenon DEF AreLayers
<1>8. L[pow - 1][1] = node[pow][2 * 1 - 1] /\ L[pow - 1][2] = node[pow][2 * 1]
  <2>1. 1 \in 1..2 /\ 2 \in 1..2 /\ 2 * 1 - 1 = 1 /\ 2 * 1 = 2
    OBVIOUS
  <2> QED
    BY <1>5, <2>1, Zenon DEF Same
<1> QED
  BY <1>6, <1>7, <1>8, Zenon

\* One leaf is the root, and two are hashed.
LEMMA RootsOfSmallTrees ==
  ASSUME NEW leaves, NEW node
  PROVE  /\ IsTree(node, leaves, 0, 0) => node[0][1] = leaves[1]
         /\ IsTree(node, leaves, 0, 1) => node[1][1] = <<leaves[1], leaves[2]>>
<1>1. ASSUME IsTree(node, leaves, 0, 0)
      PROVE  node[0][1] = leaves[1]
  <2>1. 0 \in 0..0 /\ 1 \in 1..Power(2, 0 - 0)
    BY PowersOfTwo
  <2>2. node[0][1] = NodeAt(leaves, 0, node[0 - 1], 0, 1)
    BY <1>1, <2>1, Zenon DEF IsTree
  <2>3. LeafIn(0, 1) = 1 /\ 1 \in Nat
    BY DEF LeafIn
  <2> QED
    BY <2>2, <2>3, NodesOfSlots
<1>2. ASSUME IsTree(node, leaves, 0, 1)
      PROVE  node[1][1] = <<leaves[1], leaves[2]>>
  <2>1. 0 \in Nat /\ 1 \in Nat \ {0}
    OBVIOUS
  <2>2. AreNodes(node, leaves, 0, 1)
    BY <1>2, <2>1, NodesOfTree
  <2>3. /\ 1 \in 1..Power(2, 1 - 1) /\ ~(1 <= 0)
        /\ 2 * 1 - 0 - 1 = 1 /\ 2 * 1 - 0 = 2
    BY PowersOfTwo
  <2>4. node[1][1] = <<leaves[2 * 1 - 0 - 1], leaves[2 * 1 - 0]>>
    BY <2>2, <2>3, Zenon DEF AreNodes
  <2> QED
    BY <2>3, <2>4, Zenon
<1> QED
  BY <1>1, <1>2

\* How deep the tree over n leaves is, and how it relates to tree-hash.c.
IsDepth(n, depth) ==
  /\ depth \in Nat /\ Power(2, depth) - n \in Nat
  /\ n = 1 => depth = 0 /\ Power(2, depth) - n = 0
  /\ n = 2 => depth = 1 /\ Power(2, depth) - n = 0
  /\ n # 1 /\ n # 2 =>
       /\ 2 < n /\ TreeHashPow(n) \in Nat \ {0} /\ depth = TreeHashPow(n) + 1
       /\ (TreeHashPow(n) + 1) - 1 = TreeHashPow(n) /\ depth \in Nat \ {0}
       /\ Power(2, depth) - n = 2 * Power(2, TreeHashPow(n)) - n

LEMMA DepthOfLeaves ==
  ASSUME NEW n \in Nat \ {0}, n <= Power(2, 28)
  PROVE  IsDepth(n, Min({d \in 0..29 : Power(2, d) >= n}))
<1> DEFINE depth == Min({d \in 0..29 : Power(2, d) >= n})
<1>1. CASE n = 1
  <2>1. 0 \in 0..29 /\ n <= Power(2, 0) /\ \A d \in Nat : d < 0 => Power(2, d) < n
    BY <1>1, PowersOfTwo
  <2>2. depth = 0
    BY <2>1, DepthIsLeast
  <2> QED
    BY <1>1, <2>2, PowersOfTwo DEF IsDepth
<1>2. CASE n = 2
  <2>1. 1 \in 0..29 /\ n <= Power(2, 1) /\ \A d \in Nat : d < 1 => Power(2, d) < n
    BY <1>2, PowersOfTwo
  <2>2. depth = 1
    BY <2>1, DepthIsLeast
  <2> QED
    BY <1>2, <2>2, PowersOfTwo DEF IsDepth
<1>3. CASE n > 2
  <2>1. PICK pow \in 1..27 : /\ pow = TreeHashPow(n)
                             /\ Power(2, pow) < n /\ n <= Power(2, pow + 1)
    BY <1>3, TreeHashPowType
  <2>2. /\ pow \in Nat \ {0} /\ pow + 1 \in Nat \ {0} /\ (pow + 1) - 1 = pow
        /\ Power(2, pow) \in Nat \ {0} /\ Power(2, pow + 1) = 2 * Power(2, pow)
        /\ pow + 1 \in 0..29
    <3>1. pow \in Nat \ {0} /\ pow + 1 \in Nat \ {0} /\ (pow + 1) - 1 = pow /\ pow + 1 \in 0..29
      OBVIOUS
    <3> QED
      BY <3>1, PowersOfTwo
  <2>3. ASSUME NEW d \in Nat, d < pow + 1
        PROVE  Power(2, d) < n
    <3>1. d = pow \/ d < pow
      BY <2>2, <2>3
    <3>2. d < pow => Power(2, d) < Power(2, pow)
      BY <2>2, PowersOfTwo, PowerGrows
    <3>3. Power(2, d) \in Nat
      BY PowersOfTwo
    <3> QED
      BY <2>1, <2>2, <3>1, <3>2, <3>3
  <2>4. depth = pow + 1
    BY <2>1, <2>2, <2>3, DepthIsLeast
  <2> HIDE DEF depth
  <2>5. 2 * Power(2, pow) - n \in Nat
    BY <2>1, <2>2
  <2>6. Power(2, depth) - n = 2 * Power(2, pow) - n
    BY <2>2, <2>4
  <2>7. n # 1 /\ n # 2 /\ 2 < n
    BY <1>3
  <2> QED
    BY <2>1, <2>2, <2>4, <2>5, <2>6, <2>7 DEF IsDepth, depth
<1> QED
  BY <1>1, <1>2, <1>3

\* tree-hash.c: the in-place passes compute the CryptoNote tree, for every
\* number of transactions that the code takes.
THEOREM TreeHashIsTheMerkleTree ==
  ASSUME NEW hashes, Len(hashes) \in Nat \ {0}, Len(hashes) <= Power(2, 28)
  PROVE  TreeHash(hashes) = Merkle(hashes, Min({d \in 0..29 : Power(2, d) >= Len(hashes)}))
<1>1. PICK n, depth : n = Len(hashes) /\ depth = Min({d \in 0..29 : Power(2, d) >= n})
  OBVIOUS
<1>2. IsDepth(n, depth)
  BY <1>1, DepthOfLeaves, Zenon
<1>3. depth \in Nat
  BY <1>2, Zenon DEF IsDepth
<1>4. PICK node : /\ IsTree(node, hashes, Power(2, depth) - n, depth)
                  /\ Merkle(hashes, depth) = node[depth][1]
  BY <1>1, <1>3, MerkleHasNodes, Zenon
<1>5. CASE n = 1
  <2>1. TreeHash(hashes) = hashes[1]
    BY <1>1, <1>5, Zenon DEF TreeHash
  <2>2. depth = 0 /\ Power(2, depth) - n = 0
    BY <1>2, <1>5, Zenon DEF IsDepth
  <2>3. node[0][1] = hashes[1]
    BY <1>4, <2>2, RootsOfSmallTrees, Zenon
  <2> QED
    BY <1>1, <1>4, <2>1, <2>2, <2>3, Zenon
<1>6. CASE n = 2
  <2>1. TreeHash(hashes) = <<hashes[1], hashes[2]>>
    <3> 2 # 1
      OBVIOUS
    <3> QED
      BY <1>1, <1>6, Zenon DEF TreeHash, FastHash
  <2>2. depth = 1 /\ Power(2, depth) - n = 0
    BY <1>2, <1>6, Zenon DEF IsDepth
  <2>3. node[1][1] = <<hashes[1], hashes[2]>>
    BY <1>4, <2>2, RootsOfSmallTrees, Zenon
  <2> QED
    BY <1>1, <1>4, <2>1, <2>2, <2>3, Zenon
<1>7. CASE n # 1 /\ n # 2
  <2>1. PICK pow, whole : pow = TreeHashPow(n) /\ whole = 2 * Power(2, pow) - n
    OBVIOUS
  <2>2. /\ 2 < n /\ pow \in Nat \ {0} /\ depth = pow + 1 /\ (pow + 1) - 1 = pow
        /\ depth \in Nat \ {0} /\ Power(2, depth) - n = whole /\ whole \in Nat
    BY <1>2, <1>7, <2>1, Zenon DEF IsDepth
  <2>3. Len(hashes) \in Nat /\ 2 < Len(hashes)
    <3> \A x \in Nat \ {0} : x \in Nat
      OBVIOUS
    <3> QED
      BY <1>1, <2>2, Zenon
  <2>4. PICK L : AreLayers(L, hashes, pow)
    BY <1>1, <2>1, <2>3, TreeHashHasLayers, Zenon
  <2>5. AreNodes(node, hashes, whole, depth)
    BY <1>4, <2>2, NodesOfTree, Zenon
  <2>6. Same(FirstLayer(hashes), node[1], Power(2, pow))
    <3>1. \A j \in 1..Power(2, pow) :
            FirstLayer(hashes)[j] =
              IF j <= whole THEN hashes[j]
              ELSE <<hashes[2 * j - whole - 1], hashes[2 * j - whole]>>
      BY <1>1, <2>1, FirstLayerType, Zenon
    <3>2. \A j \in 1..Power(2, pow) :
            node[1][j] =
              IF j <= whole THEN hashes[j]
              ELSE <<hashes[2 * j - whole - 1], hashes[2 * j - whole]>>
      BY <2>2, <2>5, Zenon DEF AreNodes
    <3> QED
      BY <3>1, <3>2, Zenon DEF Same
  <2>7. TreeHash(hashes) = node[pow + 1][1]
    <3>1. AreNodes(node, hashes, whole, pow + 1) /\ pow \in Nat \ {0}
      BY <2>2, <2>5, Zenon
    <3> QED
      BY <2>4, <2>6, <3>1, LayersAreNodes, Zenon
  <2> QED
    BY <1>1, <1>4, <2>2, <2>7, Zenon
<1> QED
  BY <1>5, <1>6, <1>7, Zenon

-------------------------------------------------------------------------------
(* Blocks: the pieces of a string, and what they are together.             *)

\* The smaller one of two numbers.
LEMMA MinOfTwo ==
  ASSUME NEW a \in Nat, NEW b \in Nat, a <= b
  PROVE  Min({a, b}) = a /\ Min({b, a}) = a
<1> DEFINE Least(S, x) == \A y \in S : x <= y
<1>1. \A x \in {a, b} : Least({a, b}, x) => x = a
  OBVIOUS
<1>2. a \in {a, b} /\ Least({a, b}, a) /\ {a, b} = {b, a}
  OBVIOUS
<1>3. Min({a, b}) = CHOOSE x \in {a, b} : Least({a, b}, x)
  BY DEF Min
<1> HIDE DEF Least
<1>4. Min({a, b}) = a
  BY <1>1, <1>2, <1>3
<1> QED
  BY <1>2, <1>4

\* p is the part of s behind its element number at, up to number end.
IsPart(p, s, at, end) ==
  /\ Len(p) = end - at
  /\ \A j \in 1..(end - at) : p[j] = s[at + j]

\* A part of a string.
LEMMA PartOf ==
  ASSUME NEW X, NEW s \in Seq(X), NEW at \in Nat, NEW end \in Nat, at <= end, end <= Len(s)
  PROVE  /\ SubSeq(s, at + 1, end) \in Seq(X)
         /\ IsPart(SubSeq(s, at + 1, end), s, at, end)
<1> DEFINE p == SubSeq(s, at + 1, end)
<1>1. \A i \in (at + 1)..end : s[i] \in X
  BY FunctionOfSeq
<1>2. at + 1 \in Int /\ end \in Int
  OBVIOUS
<1>3. /\ p \in Seq(X)
      /\ Len(p) = IF at + 1 <= end THEN (end - (at + 1)) + 1 ELSE 0
      /\ \A j \in 1..((end - (at + 1)) + 1) : p[j] = s[((at + 1) + j) - 1]
  BY <1>1, <1>2, SubSeqProperties
<1> HIDE DEF p
<1>4. Len(p) = end - at
  BY <1>3
<1>5. \A j \in 1..(end - at) : j \in 1..((end - (at + 1)) + 1) /\ ((at + 1) + j) - 1 = at + j
  OBVIOUS
<1>6. \A j \in 1..(end - at) : p[j] = s[at + j]
  BY <1>3, <1>5
<1> QED
  BY <1>3, <1>4, <1>6, Zenon DEF p, IsPart

\* A piece of a string of the length L from at to end.
IsPiece(at, end, L, size) ==
  at \in Nat /\ end \in Nat /\ at <= end /\ end <= L /\ end - at = size

\* The end of a piece.
LEMMA EndOfPiece ==
  ASSUME NEW n \in Nat \ {0}, NEW q \in Nat, NEW r \in 1..n, NEW k \in 1..(q + 1)
  PROVE  IsPiece((k - 1) * n, Min({k * n, q * n + r}), q * n + r, IF k <= q THEN n ELSE r)
<1> DEFINE x == (k - 1) * n
           y == q * n
<1>1. x \in Nat /\ y \in Nat /\ k * n = x + n
  OBVIOUS
<1>2. CASE k <= q
  <2>1. x + n <= y
    <3>1. ((k - 1) + 1) * n <= q * n
      <4>1. k - 1 \in Nat /\ k - 1 < q
        BY <1>2
      <4> QED
        BY <4>1, ProductGrows
    <3>2. ((k - 1) + 1) * n = x + n
      OBVIOUS
    <3> QED
      BY <3>1, <3>2
  <2> HIDE DEF x, y
  <2>2. x + n \in Nat /\ y + r \in Nat /\ x + n <= y + r /\ (x + n) - x = n /\ x <= x + n
    BY <1>1, <2>1
  <2>3. Min({x + n, y + r}) = x + n
    BY <2>2, MinOfTwo
  <2> QED
    BY <1>1, <1>2, <2>2, <2>3 DEF x, y, IsPiece
<1>3. CASE ~(k <= q)
  <2>1. k = q + 1
    BY <1>3
  <2>2. x = y
    BY <2>1
  <2> HIDE DEF x, y
  <2>3. x + n \in Nat /\ y + r \in Nat /\ y + r <= x + n /\ (y + r) - x = r /\ x <= y + r
    BY <1>1, <2>2
  <2>4. Min({x + n, y + r}) = y + r
    BY <2>3, MinOfTwo
  <2>5. Min({k * n, y + r}) = y + r
    BY <1>1, <2>4
  <2>6. y + r <= y + r
    BY <2>3
  <2> QED
    BY <1>1, <1>3, <2>3, <2>5, <2>6, Zenon DEF x, y, IsPiece
<1> QED
  BY <1>2, <1>3

\* p are q pieces of the length n of s and one of the length r.
AreCut(p, s, n, q, r) ==
  /\ Len(p) = q + 1
  /\ \A k \in 1..(q + 1) : /\ Len(p[k]) = IF k <= q THEN n ELSE r
                           /\ \A j \in 1..Len(p[k]) : p[k][j] = s[(k - 1) * n + j]

\* The pieces of a string that is not empty, and where they are in it.
LEMMA PiecesOfString ==
  ASSUME NEW X, NEW s \in Seq(X), NEW n \in Nat \ {0}, NEW q \in Nat, NEW r \in 1..n,
         Len(s) = q * n + r
  PROVE  Pieces(s, n) \in Seq(Seq(X)) /\ AreCut(Pieces(s, n), s, n, q, r)
<1> DEFINE L == Len(s)
           p == Pieces(s, n)
<1>1. (L + n - 1) \div n = q + 1
  <2>1. r - 1 \in 0..(n - 1) /\ q + 1 \in Nat
    OBVIOUS
  <2>2. L + n - 1 = n * (q + 1) + (r - 1)
    <3>1. n * (q + 1) = q * n + n
      OBVIOUS
    <3> DEFINE y == q * n
    <3>2. y \in Nat /\ L = y + r
      OBVIOUS
    <3> HIDE DEF y, L
    <3> QED
      BY <3>1, <3>2 DEF y
  <2> QED
    BY <2>1, <2>2, DivModUnique
<1>2. p = [k \in 1..(q + 1) |-> SubSeq(s, (k - 1) * n + 1, Min({k * n, L}))]
  BY <1>1 DEF Pieces
<1> HIDE DEF p
<1>3. ASSUME NEW k \in 1..(q + 1)
      PROVE  /\ p[k] \in Seq(X) /\ Len(p[k]) = IF k <= q THEN n ELSE r
             /\ \A j \in 1..Len(p[k]) : p[k][j] = s[(k - 1) * n + j]
  <2> DEFINE at == (k - 1) * n
             end == Min({k * n, L})
  <2>1. at \in Nat /\ end \in Nat /\ at <= end /\ end <= L
        /\ end - at = IF k <= q THEN n ELSE r
    <3>1. end = Min({k * n, q * n + r}) /\ L = q * n + r
      BY Zenon
    <3>2. IsPiece((k - 1) * n, Min({k * n, q * n + r}), q * n + r, IF k <= q THEN n ELSE r)
      BY EndOfPiece, Zenon
    <3> QED
      BY <3>1, <3>2, Zenon DEF IsPiece
  <2>2. p[k] = SubSeq(s, at + 1, end)
    BY <1>2
  <2> HIDE DEF at, end
  <2>3. end <= Len(s)
    BY <2>1, Zenon
  <2>4. /\ SubSeq(s, at + 1, end) \in Seq(X)
        /\ IsPart(SubSeq(s, at + 1, end), s, at, end)
    BY <2>1, <2>3, PartOf, Zenon
  <2> QED
    BY <2>1, <2>2, <2>4, Zenon DEF at, IsPart
<1>4. p \in [1..(q + 1) -> Seq(X)]
  <2>1. p = [k \in 1..(q + 1) |-> p[k]]
    BY <1>2
  <2> QED
    BY <1>3, <2>1
<1>5. p \in Seq(Seq(X)) /\ Len(p) = q + 1
  <2> q + 1 \in Nat
    OBVIOUS
  <2> QED
    BY <1>4, SeqOfFunction
<1> QED
  BY <1>3, <1>5, Zenon DEF p, AreCut

\* The length of a string in whole pieces and a rest.
LEMMA LengthInPieces ==
  ASSUME NEW L \in Nat \ {0}, NEW n \in Nat \ {0}
  PROVE  \E q \in Nat : \E r \in 1..n : L = q * n + r
<1> DEFINE q == (L - 1) \div n
           m == (L - 1) % n
<1>1. L - 1 \in Nat
  OBVIOUS
<1>2. L - 1 = n * q + m /\ q \in Nat /\ m \in 0..(n - 1)
  BY <1>1, DivMod
<1> HIDE DEF q, m
<1>3. m + 1 \in 1..n /\ n * q = q * n
  BY <1>2
<1>4. L = q * n + (m + 1)
  <2> DEFINE y == n * q
  <2>1. y \in Nat /\ L - 1 = y + m
    BY <1>2
  <2> HIDE DEF y
  <2>2. L = y + (m + 1)
    BY <1>2, <2>1
  <2> QED
    BY <1>3, <2>2 DEF y
<1> QED
  BY <1>2, <1>3, <1>4

\* Pieces cuts a string into even pieces, which are the string together.
LEMMA PiecesAreTogether ==
  ASSUME NEW X, NEW s \in Seq(X), NEW n \in Nat \ {0}
  PROVE  /\ Pieces(s, n) \in Seq(Seq(X))
         /\ EvenPieces(Pieces(s, n), n)
         /\ IsTogether(s, Pieces(s, n), n)
<1> DEFINE p == Pieces(s, n)
<1>1. Len(s) \in Nat
  BY FunctionOfSeq
<1>2. CASE Len(s) = 0
  <2>1. (Len(s) + n - 1) \div n = 0
    <3>1. n * 0 + (n - 1) = n - 1 /\ n - 1 \in 0..(n - 1) /\ 0 \in Nat
      OBVIOUS
    <3>2. Len(s) + n - 1 = n * 0 + (n - 1)
      BY <1>2
    <3> QED
      BY <3>1, <3>2, DivModUnique
  <2>2. p = <<>>
    <3>1. p = [k \in 1..0 |-> SubSeq(s, (k - 1) * n + 1, Min({k * n, Len(s)}))]
      BY <2>1 DEF Pieces
    <3> HIDE DEF p
    <3> QED
      BY <3>1
  <2>3. <<>> \in Seq(Seq(X)) /\ Len(<<>>) = 0
    OBVIOUS
  <2> HIDE DEF p
  <2> QED
    BY <1>2, <2>2, <2>3 DEF EvenPieces, IsTogether, p
<1>3. CASE Len(s) # 0
  <2>1. PICK q \in Nat, r \in 1..n : Len(s) = q * n + r
    BY <1>1, <1>3, LengthInPieces
  <2>2. /\ p \in Seq(Seq(X)) /\ Len(p) = q + 1
        /\ \A k \in 1..(q + 1) : /\ Len(p[k]) = IF k <= q THEN n ELSE r
                                 /\ \A j \in 1..Len(p[k]) : p[k][j] = s[(k - 1) * n + j]
    <3>1. p \in Seq(Seq(X)) /\ AreCut(p, s, n, q, r)
      BY <2>1, PiecesOfString
    <3> HIDE DEF p
    <3> QED
      BY <3>1, Zenon DEF AreCut
  <2> HIDE DEF p
  <2>3. EvenPieces(p, n)
    <3> SUFFICES ASSUME NEW k \in 1..(q + 1)
                 PROVE  Len(p[k]) \in 1..n /\ (k < q + 1 => Len(p[k]) = n)
      BY <2>2, Zenon DEF EvenPieces
    <3>1. n \in 1..n /\ (k < q + 1 => k <= q)
      OBVIOUS
    <3> QED
      BY <2>2, <3>1, Zenon
  <2>4. IsTogether(s, p, n)
    <3>1. p # <<>> /\ q + 1 \in 1..(q + 1) /\ ~(q + 1 <= q) /\ (q + 1) - 1 = q
      BY <2>2
    <3>2. Len(p[Len(p)]) = r
      BY <2>2, <3>1, Zenon
    <3>3. Len(s) = (Len(p) - 1) * n + Len(p[Len(p)])
      BY <2>1, <2>2, <3>1, <3>2, Zenon
    <3> QED
      BY <2>2, <3>1, <3>3, Zenon DEF IsTogether
  <2> QED
    BY <2>2, <2>3, <2>4 DEF p
<1> QED
  BY <1>2, <1>3

\* i is the place of a character in m pieces of n characters, the last one of r.
IsInPieces(i, n, m, r) ==
  \E k \in 1..m : \E j \in 1..n : i = (k - 1) * n + j /\ (k = m => j <= r)

\* Every character of a string is in one of its pieces.
LEMMA PositionInPieces ==
  ASSUME NEW n \in Nat \ {0}, NEW m \in Nat \ {0}, NEW r \in 1..n,
         NEW i \in 1..((m - 1) * n + r)
  PROVE  IsInPieces(i, n, m, r)
<1> DEFINE z == (m - 1) * n
<1>1. z \in Nat /\ m - 1 \in Nat
  OBVIOUS
<1>2. i \in Nat \ {0} /\ i <= z + r
  BY <1>1
<1>3. PICK q \in Nat, j \in 1..n : i = q * n + j
  BY <1>2, LengthInPieces
<1> DEFINE y == q * n
<1>4. y \in Nat /\ i = y + j
  BY <1>3
<1>5. q < m
  <2> SUFFICES ASSUME ~(q < m) PROVE FALSE
    OBVIOUS
  <2>1. m - 1 < q
    OBVIOUS
  <2>2. ((m - 1) + 1) * n <= q * n
    BY <1>1, <2>1, ProductGrows
  <2>3. ((m - 1) + 1) * n = z + n
    OBVIOUS
  <2>4. z + n <= y
    BY <2>2, <2>3
  <2> HIDE DEF z, y
  <2> QED
    BY <1>1, <1>2, <1>4, <2>4
<1>6. q + 1 \in 1..m /\ (q + 1) - 1 = q
  BY <1>5
<1>7. ASSUME q + 1 = m PROVE j <= r
  <2>1. y = z
    BY <1>7
  <2> HIDE DEF z, y
  <2> QED
    BY <1>1, <1>2, <1>4, <2>1
<1> QED
  BY <1>3, <1>6, <1>7 DEF IsInPieces

\* Even pieces are one string together.
LEMMA TogetherUnique ==
  ASSUME NEW X, NEW s \in Seq(X), NEW t \in Seq(X), NEW p \in Seq(Seq(X)),
         NEW n \in Nat \ {0}, EvenPieces(p, n), IsTogether(s, p, n), IsTogether(t, p, n)
  PROVE  s = t
<1>1. Len(s) = Len(t)
  <2> DEFINE total == IF p = <<>> THEN 0 ELSE (Len(p) - 1) * n + Len(p[Len(p)])
  <2>1. Len(s) = total /\ Len(t) = total
    BY Zenon DEF IsTogether
  <2> HIDE DEF total
  <2> QED
    BY <2>1, Zenon
<1>2. \A i \in 1..Len(s) : s[i] = t[i]
  <2> SUFFICES ASSUME NEW i \in 1..Len(s) PROVE s[i] = t[i]
    OBVIOUS
  <2>1. p # <<>>
    <3>1. \A x : x = 0 => ~(i \in 1..x)
      OBVIOUS
    <3> QED
      BY <3>1, Zenon DEF IsTogether
  <2>2. Len(s) = (Len(p) - 1) * n + Len(p[Len(p)])
    BY <2>1, Zenon DEF IsTogether
  <2>3. Len(p) \in Nat \ {0} /\ Len(p) \in 1..Len(p)
    BY <2>1
  <2>4. Len(p[Len(p)]) \in 1..n
    BY <2>3, Zenon DEF EvenPieces
  <2>5. PICK k \in 1..Len(p), j \in 1..n :
          i = (k - 1) * n + j /\ (k = Len(p) => j <= Len(p[Len(p)]))
    <3>1. i \in 1..((Len(p) - 1) * n + Len(p[Len(p)]))
      BY <2>2, Zenon
    <3>2. PICK m \in Nat \ {0}, r \in 1..n : m = Len(p) /\ r = Len(p[Len(p)])
      BY <2>3, <2>4, Zenon
    <3>3. i \in 1..((m - 1) * n + r)
      BY <3>1, <3>2, Zenon
    <3>4. IsInPieces(i, n, m, r)
      BY <3>3, PositionInPieces, Zenon
    <3> QED
      BY <3>2, <3>4, Zenon DEF IsInPieces
  <2>6. j \in 1..Len(p[k])
    <3>1. CASE k = Len(p)
      <4>1. \A x \in 1..n, y \in 1..n : x <= y => x \in 1..y
        OBVIOUS
      <4> QED
        BY <2>4, <2>5, <3>1, <4>1, Zenon
    <3>2. CASE k # Len(p)
      <4>1. \A x \in Nat : \A y \in 1..x : y # x => y < x
        OBVIOUS
      <4>2. Len(p[k]) = n
        BY <2>3, <3>2, <4>1, Zenon DEF EvenPieces
      <4> QED
        BY <4>2, Zenon
    <3> QED
      BY <3>1, <3>2
  <2> QED
    BY <2>5, <2>6, Zenon DEF IsTogether
<1>3. s = [i \in 1..Len(s) |-> s[i]] /\ t = [i \in 1..Len(t) |-> t[i]]
  BY FunctionOfSeq
<1>4. [i \in 1..Len(s) |-> s[i]] = [i \in 1..Len(s) |-> t[i]]
  BY <1>2, Zenon
<1> QED
  BY <1>1, <1>3, <1>4, Zenon

\* A string has one number of pieces and one rest.
LEMMA OneDivision ==
  ASSUME NEW n \in Nat \ {0}, NEW m \in Nat \ {0}, NEW l \in Nat \ {0},
         NEW r \in 1..n, NEW u \in 1..n, (m - 1) * n + r = (l - 1) * n + u
  PROVE  m = l /\ r = u
<1>1. m - 1 \in Nat /\ l - 1 \in Nat /\ r - 1 \in 0..(n - 1) /\ u - 1 \in 0..(n - 1)
  OBVIOUS
<1>2. n * (m - 1) + (r - 1) = n * (l - 1) + (u - 1)
  <2> DEFINE x == (m - 1) * n
             y == (l - 1) * n
  <2>1. x \in Nat /\ y \in Nat /\ n * (m - 1) = x /\ n * (l - 1) = y
    OBVIOUS
  <2> HIDE DEF x, y
  <2>2. x + r = y + u
    BY DEF x, y
  <2> QED
    BY <2>1, <2>2
<1>3. \A q \in Nat, k \in 0..(n - 1) : (n * q + k) \div n = q /\ (n * q + k) % n = k
  BY DivModUnique
<1>4. m - 1 = l - 1 /\ r - 1 = u - 1
  <2> DEFINE x == n * (m - 1) + (r - 1)
             y == n * (l - 1) + (u - 1)
  <2>1. x \div n = m - 1 /\ x % n = r - 1
    BY <1>1, <1>3, Zenon
  <2>2. y \div n = l - 1 /\ y % n = u - 1
    BY <1>1, <1>3, Zenon
  <2>3. x = y
    BY <1>2, Zenon
  <2> HIDE DEF x, y
  <2> QED
    BY <2>1, <2>2, <2>3, Zenon
<1> QED
  BY <1>4

\* A string has one list of even pieces.
LEMMA EvenPiecesUnique ==
  ASSUME NEW X, NEW s \in Seq(X), NEW p \in Seq(Seq(X)), NEW c \in Seq(Seq(X)),
         NEW n \in Nat \ {0}, EvenPieces(p, n), IsTogether(s, p, n),
         EvenPieces(c, n), IsTogether(s, c, n)
  PROVE  p = c
<1>1. ASSUME NEW d \in Seq(Seq(X)), EvenPieces(d, n), IsTogether(s, d, n), d # <<>>
      PROVE  /\ Len(d) \in Nat \ {0} /\ Len(d[Len(d)]) \in 1..n
             /\ Len(s) = (Len(d) - 1) * n + Len(d[Len(d)]) /\ Len(s) # 0
  <2>1. Len(d) \in Nat \ {0} /\ Len(d) \in 1..Len(d)
    BY <1>1
  <2>2. Len(d[Len(d)]) \in 1..n
    BY <1>1, <2>1, Zenon DEF EvenPieces
  <2>3. Len(s) = (Len(d) - 1) * n + Len(d[Len(d)])
    BY <1>1, Zenon DEF IsTogether
  <2>4. \A l \in Nat \ {0} : \A r \in 1..n : (l - 1) * n + r # 0
    <3> SUFFICES ASSUME NEW l \in Nat \ {0}, NEW r \in 1..n PROVE (l - 1) * n + r # 0
      OBVIOUS
    <3> DEFINE y == (l - 1) * n
    <3>1. y \in Nat
      OBVIOUS
    <3> HIDE DEF y
    <3>2. y + r # 0
      BY <3>1
    <3> QED
      BY <3>2 DEF y
  <2> QED
    BY <2>1, <2>2, <2>3, <2>4, Zenon
<1>2. CASE p = <<>> \/ c = <<>>
  <2>1. Len(s) = 0
    BY <1>2, Zenon DEF IsTogether
  <2>2. p = <<>> /\ c = <<>>
    BY <1>1, <2>1
  <2> QED
    BY <2>2
<1>3. CASE p # <<>> /\ c # <<>>
  <2>1. Len(p) = Len(c) /\ Len(p[Len(p)]) = Len(c[Len(c)])
    <3> DEFINE pieces == ((Len(s) - 1) \div n) + 1
               last == ((Len(s) - 1) % n) + 1
    <3>1. ASSUME NEW d \in Seq(Seq(X)), EvenPieces(d, n), IsTogether(s, d, n), d # <<>>
          PROVE  Len(d) = pieces /\ Len(d[Len(d)]) = last
      <4>1. /\ Len(d) \in Nat \ {0} /\ Len(d[Len(d)]) \in 1..n
            /\ Len(s) = (Len(d) - 1) * n + Len(d[Len(d)])
        BY <1>1, <3>1
      <4> DEFINE r == Len(d[Len(d)])
      <4>2. PICK q \in Nat, k \in 0..(n - 1) : q = Len(d) - 1 /\ k = r - 1
        <5>1. Len(d) - 1 \in Nat /\ r - 1 \in 0..(n - 1)
          BY <4>1
        <5> QED
          BY <5>1, Zenon
      <4>3. Len(s) - 1 = n * q + k
        <5> DEFINE y == q * n
        <5>1. y \in Nat /\ n * q = y
          OBVIOUS
        <5>2. Len(s) = y + r
          BY <4>1, <4>2, Zenon
        <5>3. r \in Nat /\ k = r - 1
          BY <4>1, <4>2
        <5> HIDE DEF y, r
        <5> QED
          BY <5>1, <5>2, <5>3
      <4>4. (Len(s) - 1) \div n = q /\ (Len(s) - 1) % n = k
        <5>1. (n * q + k) \div n = q /\ (n * q + k) % n = k
          BY DivModUnique
        <5> QED
          BY <4>3, <5>1, Zenon
      <4>5. Len(d) = q + 1 /\ r = k + 1
        BY <4>1, <4>2
      <4> QED
        BY <4>4, <4>5, Zenon
    <3> HIDE DEF pieces, last
    <3> QED
      BY <1>3, <3>1, Zenon
  <2>2. \A k \in 1..Len(p) : p[k] = c[k]
    <3> SUFFICES ASSUME NEW k \in 1..Len(p) PROVE p[k] = c[k]
      OBVIOUS
    <3>1. p[k] \in Seq(X) /\ c[k] \in Seq(X)
      <4>1. k \in 1..Len(c)
        BY <2>1, Zenon
      <4>2. \A i \in 1..Len(p) : p[i] \in Seq(X)
        BY FunctionOfSeq, Zenon
      <4>3. \A i \in 1..Len(c) : c[i] \in Seq(X)
        BY FunctionOfSeq, Zenon
      <4> QED
        BY <4>1, <4>2, <4>3, Zenon
    <3>2. Len(p[k]) = Len(c[k])
      <4>1. CASE k = Len(p)
        BY <2>1, <4>1, Zenon
      <4>2. CASE k # Len(p)
        <5>1. k < Len(p)
          BY <4>2
        <5>2. Len(p[k]) = n
          BY <5>1, Zenon DEF EvenPieces
        <5>3. k \in 1..Len(c) /\ k < Len(c)
          BY <2>1, <5>1, Zenon
        <5>4. Len(c[k]) = n
          BY <5>3, Zenon DEF EvenPieces
        <5> QED
          BY <5>2, <5>4
      <4> QED
        BY <4>1, <4>2
    <3>3. \A j \in 1..Len(p[k]) : p[k][j] = c[k][j]
      BY <2>1, <3>2, Zenon DEF IsTogether
    <3>4. p[k] = [j \in 1..Len(p[k]) |-> p[k][j]] /\ c[k] = [j \in 1..Len(c[k]) |-> c[k][j]]
      BY <3>1, FunctionOfSeq
    <3>5. [j \in 1..Len(p[k]) |-> p[k][j]] = [j \in 1..Len(p[k]) |-> c[k][j]]
      BY <3>3, Zenon
    <3> QED
      BY <3>2, <3>4, <3>5, Zenon
  <2>3. p = [k \in 1..Len(p) |-> p[k]] /\ c = [k \in 1..Len(c) |-> c[k]]
    BY FunctionOfSeq
  <2>4. [k \in 1..Len(p) |-> p[k]] = [k \in 1..Len(p) |-> c[k]]
    BY <2>2, Zenon
  <2> QED
    BY <2>1, <2>3, <2>4, Zenon
<1> QED
  BY <1>2, <1>3

\* Pieces and FlattenSeq are inverses on even pieces.
LEMMA PiecesAndFlatten ==
  ASSUME NEW X, NEW n \in Nat \ {0}
  PROVE  /\ \A s \in Seq(X) : FlattenSeq(Pieces(s, n)) = s
         /\ \A c \in Seq(Seq(X)) : EvenPieces(c, n) => Pieces(FlattenSeq(c), n) = c
<1>1. ASSUME NEW s \in Seq(X)
      PROVE  FlattenSeq(Pieces(s, n)) = s
  <2> DEFINE p == Pieces(s, n)
             t == FlattenSeq(p)
  <2>1. p \in Seq(Seq(X)) /\ EvenPieces(p, n) /\ IsTogether(s, p, n)
    BY PiecesAreTogether
  <2> HIDE DEF p
  <2>2. t \in Seq(X) /\ IsTogether(t, p, n)
    BY <2>1, FlattenEvenPieces
  <2> HIDE DEF t
  <2>3. t = s
    BY <2>1, <2>2, TogetherUnique
  <2> QED
    BY <2>3 DEF t, p
<1>2. ASSUME NEW c \in Seq(Seq(X)), EvenPieces(c, n)
      PROVE  Pieces(FlattenSeq(c), n) = c
  <2> DEFINE s == FlattenSeq(c)
             p == Pieces(s, n)
  <2>1. s \in Seq(X) /\ IsTogether(s, c, n)
    BY <1>2, FlattenEvenPieces
  <2> HIDE DEF s
  <2>2. p \in Seq(Seq(X)) /\ EvenPieces(p, n) /\ IsTogether(s, p, n)
    BY <2>1, PiecesAreTogether
  <2> HIDE DEF p
  <2>3. p = c
    BY <1>2, <2>1, <2>2, EvenPiecesUnique
  <2> QED
    BY <2>3 DEF p, s
<1> QED
  BY <1>1, <1>2

-------------------------------------------------------------------------------
(* Base-58: the sizes of blocks.                                           *)

\* A power of a power.
LEMMA PowerOfPower ==
  ASSUME NEW b \in Nat, NEW m \in Nat, NEW k \in Nat
  PROVE  Power(b, m * k) = Power(Power(b, m), k)
<1> DEFINE T == {j \in Nat : Power(b, m * j) = Power(Power(b, m), j)}
<1>1. Power(b, m) \in Nat
  BY PowerStep
<1>2. 0 \in T
  <2>1. m * 0 = 0 /\ 0 \in Nat
    OBVIOUS
  <2>2. Power(b, 0) = 1 /\ Power(Power(b, m), 0) = 1
    BY <1>1, <2>1, PowerStep
  <2> QED
    BY <2>1, <2>2
<1>3. ASSUME NEW j \in Nat, j \in T
      PROVE  j + 1 \in T
  <2>1. m * j \in Nat /\ m * (j + 1) = m + m * j /\ j + 1 \in Nat
    OBVIOUS
  <2>2. Power(b, m + m * j) = Power(b, m) * Power(b, m * j)
    BY <2>1, PowerSum
  <2>3. Power(Power(b, m), j + 1) = Power(b, m) * Power(Power(b, m), j)
    BY <1>1, PowerStep
  <2>4. Power(b, m * j) = Power(Power(b, m), j)
    BY <1>3
  <2>5. Power(b, m * (j + 1)) = Power(Power(b, m), j + 1)
    BY <2>1, <2>2, <2>3, <2>4, Zenon
  <2> QED
    BY <2>1, <2>5, Zenon
<1> HIDE DEF T
<1>4. k \in T
  BY <1>2, <1>3, InductionAlong
<1> QED
  BY <1>4 DEF T

\* The characters of k bytes.
EncodedSize(k) == EncodedSizes[k + 1]

\* A full block is a word.
LEMMA FullBlockIsAWord ==
  /\ FullBlock \in Nat \ {0} /\ AlphabetSize \in Nat \ {0, 1}
  /\ WordBase \in Nat \ {0} /\ Power(ByteBase, FullBlock) = WordBase
  /\ \A k \in 0..FullBlock : EncodedSize(k) \in Nat
  /\ FullEncoded = EncodedSize(FullBlock) /\ EncodedSize(0) = 0
<1>1. FullBlock \in Nat \ {0} /\ AlphabetSize \in Nat \ {0, 1}
  BY SizesAssumption DEF FullBlock
<1>2. 2 \in Nat \ {0} /\ ByteBits \in Nat /\ WordBits \in Nat /\ WordBits = ByteBits * FullBlock
  BY SizesAssumption, ByteBitsAssumption, WordBitsAssumption
<1>3. WordBase \in Nat \ {0}
  BY <1>2, PowerPositive DEF WordBase
<1>4. Power(ByteBase, FullBlock) = WordBase
  <2>1. FullBlock \in Nat /\ 2 \in Nat
    BY <1>1
  <2>2. Power(2, ByteBits * FullBlock) = Power(Power(2, ByteBits), FullBlock)
    BY <1>2, <2>1, PowerOfPower
  <2> QED
    BY <1>2, <2>2, Zenon DEF WordBase, ByteBase
<1>5. \A k \in 0..FullBlock : EncodedSizes[k + 1] \in Nat
  <2>1. \A k \in 0..FullBlock : k + 1 \in 1..Len(EncodedSizes)
    BY SizesAssumption DEF FullBlock
  <2>2. \A i \in 1..Len(EncodedSizes) : EncodedSizes[i] \in Nat
    BY SizesAssumption, FunctionOfSeq
  <2> QED
    BY <2>1, <2>2, Zenon
<1>6. EncodedSizes[0 + 1] = 0
  BY SizesAssumption
<1> QED
  BY <1>1, <1>3, <1>4, <1>5, <1>6 DEF EncodedSize, FullEncoded

\* More bytes have more characters.
LEMMA SizesGrow ==
  ASSUME NEW k \in 0..FullBlock, NEW j \in 0..FullBlock, j < k
  PROVE  EncodedSize(j) < EncodedSize(k)
<1> DEFINE T == {l \in Nat : l <= FullBlock =>
                   \A i \in 0..FullBlock : i < l => EncodedSize(i) < EncodedSize(l)}
<1>1. FullBlock \in Nat /\ \A l \in 0..FullBlock : EncodedSize(l) \in Nat
  BY FullBlockIsAWord
<1>2. 0 \in T
  OBVIOUS
<1>3. ASSUME NEW l \in Nat, l \in T
      PROVE  l + 1 \in T
  <2> SUFFICES ASSUME l + 1 <= FullBlock, NEW i \in 0..FullBlock, i < l + 1
               PROVE  EncodedSize(i) < EncodedSize(l + 1)
    OBVIOUS
  <2>1. l \in 0..FullBlock /\ l + 1 \in 1..FullBlock /\ l <= FullBlock
    BY <1>1
  <2>2. EncodedSize(l) < EncodedSize(l + 1)
    <3>1. EncodedSizes[l + 1] < EncodedSizes[(l + 1) + 1]
      BY <2>1, SizesAssumption
    <3> QED
      BY <3>1, Zenon DEF EncodedSize
  <2>3. CASE i = l
    BY <2>2, <2>3
  <2>4. CASE i # l
    <3>1. i < l
      BY <2>4
    <3>2. EncodedSize(i) < EncodedSize(l)
      BY <1>3, <2>1, <3>1
    <3>3. EncodedSize(i) \in Nat /\ EncodedSize(l) \in Nat /\ EncodedSize(l + 1) \in Nat
      BY <1>1, <2>1
    <3> QED
      BY <2>2, <3>2, <3>3
  <2> QED
    BY <2>3, <2>4
<1>4. k \in Nat /\ k <= FullBlock
  BY <1>1
<1> HIDE DEF T
<1>5. k \in T
  BY <1>2, <1>3, <1>4, InductionAlong
<1> QED
  BY <1>4, <1>5 DEF T

\* A number of characters tells the number of bytes.
LEMMA SizesOfBlocks ==
  ASSUME NEW size \in 1..FullBlock
  PROVE  /\ EncodedSize(size) \in 1..FullEncoded
         /\ DecodedSizes(EncodedSize(size)) = {size}
         /\ EncodedSize(size) = FullEncoded => size = FullBlock
<1>1. FullBlock \in Nat \ {0} /\ \A l \in 0..FullBlock : EncodedSize(l) \in Nat
  BY FullBlockIsAWord
<1>2. size \in 0..FullBlock /\ 0 \in 0..FullBlock /\ FullBlock \in 0..FullBlock /\ 0 < size
  BY <1>1
<1>3. \A j \in 0..FullBlock : \A k \in 0..FullBlock : j < k => EncodedSize(j) < EncodedSize(k)
  BY SizesGrow
<1>4. \A j \in 0..FullBlock : j # size => EncodedSize(j) # EncodedSize(size)
  <2> SUFFICES ASSUME NEW j \in 0..FullBlock, j # size
               PROVE  EncodedSize(j) # EncodedSize(size)
    OBVIOUS
  <2>1. j < size \/ size < j
    BY <1>2
  <2>2. EncodedSize(j) < EncodedSize(size) \/ EncodedSize(size) < EncodedSize(j)
    BY <1>2, <1>3, <2>1, Zenon
  <2>3. EncodedSize(j) \in Nat /\ EncodedSize(size) \in Nat
    BY <1>1, <1>2
  <2> QED
    BY <2>2, <2>3
<1>5. DecodedSizes(EncodedSize(size)) = {size}
  BY <1>2, <1>4, Zenon DEF DecodedSizes, EncodedSize
<1>6. EncodedSize(0) < EncodedSize(size)
  BY <1>2, <1>3, Zenon
<1>7. size = FullBlock \/ size < FullBlock
  BY <1>1
<1>8. EncodedSize(size) = FullEncoded \/ EncodedSize(size) < FullEncoded
  BY <1>2, <1>3, <1>7, FullBlockIsAWord, Zenon
<1>9. EncodedSize(size) \in 1..FullEncoded
  <2>1. FullEncoded \in Nat /\ EncodedSize(size) \in Nat /\ EncodedSize(0) = 0
    BY <1>1, <1>2, FullBlockIsAWord
  <2> QED
    BY <1>6, <1>8, <2>1
<1>10. EncodedSize(size) = FullEncoded => size = FullBlock
  BY <1>2, <1>4, FullBlockIsAWord, Zenon
<1> QED
  BY <1>5, <1>9, <1>10

-------------------------------------------------------------------------------
(* Base-58: the loop of decode_block.                                      *)

Totals == [ok : BOOLEAN, num : 0..(WordBase - 1), order : Nat]

\* The total acc says that the number x fits in a word, and is x then.
Tells(acc, x) ==
  /\ acc.ok => x < WordBase /\ acc.num = x
  /\ x < WordBase => acc.ok

\* A round of decode_block's loop adds to the total if and only if the sum
\* still fits in a word.
LEMMA AddDigitTells ==
  ASSUME NEW acc \in Totals, NEW digit \in Nat
  PROVE  /\ AddDigit(acc, digit) \in Totals
         /\ AddDigit(acc, digit).ok => acc.ok /\ digit # AlphabetSize
         /\ acc.order * AlphabetSize < WordBase =>
              AddDigit(acc, digit).order = acc.order * AlphabetSize
         /\ \A x \in Nat : digit # AlphabetSize /\ Tells(acc, x) =>
              Tells(AddDigit(acc, digit), x + acc.order * digit)
<1> DEFINE W == WordBase
           a == acc.num
           p == acc.order * digit
           o == acc.order * AlphabetSize
           sum == (a + (p % W)) % W
           new == AddDigit(acc, digit)
<1>1. W \in Nat \ {0} /\ AlphabetSize \in Nat
  BY FullBlockIsAWord
<1>2. a \in 0..(W - 1) /\ acc.order \in Nat /\ acc.ok \in BOOLEAN
  BY DEF Totals
<1>3. p \in Nat /\ o \in Nat
  BY <1>1, <1>2
<1>4. new = [ok |-> acc.ok /\ digit # AlphabetSize /\ p < W /\ sum >= a,
             num |-> sum, order |-> o % W]
  BY Zenon DEF AddDigit, Unknown
<1>5. new.num = sum /\ new.order = o % W
      /\ new.ok = (acc.ok /\ digit # AlphabetSize /\ p < W /\ sum >= a)
  <2> DEFINE good == acc.ok /\ digit # AlphabetSize /\ p < W /\ sum >= a
             last == o % W
  <2>1. new = [ok |-> good, num |-> sum, order |-> last]
    BY <1>4, Zenon
  <2> HIDE DEF new, good, sum, last
  <2>2. new.ok = good /\ new.num = sum /\ new.order = last
    BY <2>1
  <2> QED
    BY <2>2, Zenon DEF good, last
<1> HIDE DEF W, a, p, o, new
<1>6. p % W \in 0..(W - 1) /\ o % W \in 0..(W - 1)
  BY <1>1, <1>3, DivMod
<1>7. \A y \in Nat : y < W => y % W = y
  <2> SUFFICES ASSUME NEW y \in Nat, y < W PROVE y % W = y
    OBVIOUS
  <2>1. 0 \in Nat /\ y \in 0..(W - 1) /\ W * 0 + y = y
    BY <1>1
  <2>2. (W * 0 + y) % W = y
    BY <1>1, <2>1, DivModUnique
  <2> QED
    BY <2>1, <2>2, Zenon
<1>8. \A y \in Nat : W <= y /\ y < W + W => y % W = y - W
  <2> SUFFICES ASSUME NEW y \in Nat, W <= y, y < W + W PROVE y % W = y - W
    OBVIOUS
  <2>1. 1 \in Nat /\ y - W \in 0..(W - 1) /\ W * 1 + (y - W) = y
    BY <1>1
  <2>2. (W * 1 + (y - W)) % W = y - W
    BY <1>1, <2>1, DivModUnique
  <2> QED
    BY <2>1, <2>2, Zenon
<1>9. sum \in 0..(W - 1)
  <2>1. a + (p % W) \in Nat
    BY <1>1, <1>2, <1>6
  <2> QED
    BY <1>1, <2>1, DivMod
<1>10. p < W => (sum >= a <=> a + p < W) /\ (a + p < W => sum = a + p)
  <2> SUFFICES ASSUME p < W
               PROVE  (sum >= a <=> a + p < W) /\ (a + p < W => sum = a + p)
    OBVIOUS
  <2>1. sum = (a + p) % W
    BY <1>3, <1>7
  <2>2. a + p \in Nat /\ a + p < W + W
    BY <1>1, <1>2, <1>3
  <2> HIDE DEF sum
  <2>3. CASE a + p < W
    <3>1. sum = a + p
      BY <1>7, <2>1, <2>2, <2>3
    <3> QED
      BY <1>2, <1>3, <2>3, <3>1
  <2>4. CASE ~(a + p < W)
    <3>1. W <= a + p
      BY <1>1, <2>2, <2>4
    <3>2. sum = (a + p) - W
      BY <1>8, <2>1, <2>2, <3>1
    <3> QED
      BY <1>1, <1>2, <1>3, <2>4, <3>2
  <2> QED
    BY <2>3, <2>4
<1> HIDE DEF sum
<1>11. new \in Totals
  <2>1. o % W \in Nat
    BY <1>1, <1>6
  <2>2. (acc.ok /\ digit # AlphabetSize /\ p < W /\ sum >= a) \in BOOLEAN
    OBVIOUS
  <2> QED
    BY <1>4, <1>9, <2>1, <2>2, Zenon DEF Totals, W
<1>12. o < W => new.order = o
  BY <1>3, <1>5, <1>7
<1>13. ASSUME NEW x \in Nat, digit # AlphabetSize, Tells(acc, x)
       PROVE  Tells(new, x + p)
  <2>1. ASSUME new.ok PROVE x + p < W /\ new.num = x + p
    <3>1. acc.ok /\ p < W /\ sum >= a
      BY <1>5, <2>1
    <3>2. a = x
      BY <1>13, <3>1, Zenon DEF Tells, a
    <3> QED
      BY <1>5, <1>10, <3>1, <3>2, Zenon
  <2>2. ASSUME x + p < W PROVE new.ok
    <3>1. x < W /\ p < W
      BY <1>1, <1>3, <2>2
    <3>2. acc.ok /\ a = x
      BY <1>13, <3>1, Zenon DEF Tells, a, W
    <3>3. sum >= a
      BY <1>10, <2>2, <3>1, <3>2, Zenon
    <3> QED
      BY <1>5, <1>13, <3>1, <3>2, <3>3, Zenon
  <2> QED
    BY <2>1, <2>2, Zenon DEF Tells, W
<1>14. new.ok => acc.ok /\ digit # AlphabetSize
  BY <1>5
<1> QED
  BY <1>11, <1>12, <1>13, <1>14, Zenon DEF new, o, p, W

\* One digit more of a number, from the last one on.
LEMMA NextDigit ==
  ASSUME NEW v \in Nat, NEW b \in Nat \ {0}, NEW k \in Nat
  PROVE  /\ v % Power(b, k) \in Nat
         /\ v % Power(b, k + 1)
              = (v % Power(b, k)) + Power(b, k) * ((v \div Power(b, k)) % b)
<1> DEFINE p == Power(b, k)
           q == v \div p
           x == v % p
           d == q % b
           e == q \div b
<1>1. p \in Nat \ {0} /\ Power(b, k + 1) = b * p
  BY PowerPositive, PowerStep
<1> HIDE DEF p
<1>2. v = p * q + x /\ q \in Nat /\ x \in 0..(p - 1)
  BY <1>1, DivMod
<1> HIDE DEF q, x
<1>3. q = b * e + d /\ e \in Nat /\ d \in 0..(b - 1)
  BY <1>2, DivMod
<1> HIDE DEF d, e
<1>4. p * d + x \in 0..(b * p - 1)
  <2> DEFINE y == p * d
             z == b * p
  <2>1. y \in Nat /\ z \in Nat
    BY <1>1, <1>3
  <2>2. y + p <= z
    <3>1. d \in Nat /\ p \in Nat /\ d < b /\ b \in Nat
      BY <1>1, <1>3
    <3>2. (d + 1) * p <= b * p
      BY <3>1, ProductGrows
    <3>3. (d + 1) * p = p * d + p
      BY <3>1
    <3> QED
      BY <3>2, <3>3
  <2> HIDE DEF y, z
  <2>3. y + x \in 0..(z - 1)
    BY <1>1, <1>2, <2>1, <2>2
  <2> QED
    BY <2>3 DEF y, z
<1>5. v = (b * p) * e + (p * d + x)
  <2>1. p * q = (b * p) * e + p * d
    <3>1. p \in Int /\ b \in Int /\ e \in Int /\ d \in Int
      BY <1>1, <1>3
    <3>2. p * (b * e + d) = (b * p) * e + p * d
      BY <3>1
    <3> QED
      BY <1>3, <3>2, Zenon
  <2> DEFINE y == p * d
             z == (b * p) * e
             u == p * q
  <2>2. y \in Nat /\ z \in Nat /\ u \in Nat
    BY <1>1, <1>2, <1>3
  <2>3. u = z + y /\ v = u + x
    BY <1>2, <2>1
  <2> HIDE DEF y, z, u
  <2>4. v = z + (y + x)
    BY <1>1, <1>2, <2>2, <2>3
  <2> QED
    BY <2>4 DEF y, z
<1>6. b * p \in Nat \ {0}
  BY <1>1
<1>7. v % (b * p) = p * d + x
  BY <1>3, <1>4, <1>5, <1>6, DivModUnique, Zenon
<1>8. p * d + x = x + p * d /\ x \in Nat
  BY <1>1, <1>2, <1>3
<1> QED
  BY <1>1, <1>7, <1>8, Zenon DEF d, q, x, p

\* acc are the totals of the rounds over a block of L characters.
IsReading(acc, block, L) ==
  /\ acc[0] = [ok |-> TRUE, num |-> 0, order |-> 1]
  /\ \A k \in 0..L : acc[k] \in Totals
  /\ \A k \in 1..L : acc[k] = AddDigit(acc[k - 1], block[L + 1 - k])

\* What decode_block makes of the last total.
ReadAs(total, sizes) ==
  LET size == CHOOSE k \in sizes : TRUE
  IN  IF \/ sizes \subseteq {0} \/ ~total.ok
         \/ size < FullBlock /\ total.num >= Power(ByteBase, size)
      THEN Failed ELSE Decoded(Digits(total.num, ByteBase, size))

\* decode_block is a loop over the characters from the last one on.
LEMMA DecodeBlockIsALoop ==
  ASSUME NEW block \in Seq(0..AlphabetSize)
  PROVE  \E acc : /\ IsReading(acc, block, Len(block))
                  /\ DecodeBlock(block) = ReadAs(acc[Len(block)], DecodedSizes(Len(block)))
<1>1. PICK L \in Nat : L = Len(block)
  BY FunctionOfSeq
<1>2. \A k \in 1..L : block[L + 1 - k] \in Nat
  <2>1. \A i \in 1..L : block[i] \in 0..AlphabetSize
    BY <1>1, FunctionOfSeq
  <2>2. \A k \in 1..L : L + 1 - k \in 1..L
    OBVIOUS
  <2>3. 0..AlphabetSize \subseteq Nat
    OBVIOUS
  <2> QED
    BY <2>1, <2>2, <2>3, Zenon
<1> DEFINE first == [ok |-> TRUE, num |-> 0, order |-> 1]
           step == [k \in 1..L |-> [a \in Totals |-> AddDigit(a, block[L + 1 - k])]]
           Results(f) == f = [k \in 0..L |-> IF k = 0 THEN first
                                             ELSE AddDigit(f[k - 1], block[L + 1 - k])]
           acc == CHOOSE f : Results(f)
<1>3. first \in Totals
  <2>1. 0 \in 0..(WordBase - 1) /\ 1 \in Nat
    BY FullBlockIsAWord
  <2> QED
    BY <2>1 DEF Totals
<1>4. \A k \in 1..L, a \in Totals : AddDigit(a, block[L + 1 - k]) \in Totals
  BY <1>2, AddDigitTells
<1>5. step \in [1..L -> [Totals -> Totals]]
  BY <1>4
<1>6. \A k \in 1..L, a \in Totals : step[k][a] = AddDigit(a, block[L + 1 - k])
  BY Zenon
<1> HIDE DEF first, step, Results
<1>7. PICK f \in [0..L -> Totals] : IsLoop(f, L, first, step)
  BY <1>3, <1>5, LoopHasResults
<1>8. \A k \in 0..L : f[k] \in Totals
  BY <1>7
<1>9. f[0] = first /\ \A k \in 1..L : f[k] = AddDigit(f[k - 1], block[L + 1 - k])
  <2>1. \A k \in 1..L : k - 1 \in 0..L
    OBVIOUS
  <2> QED
    BY <1>6, <1>7, <1>8, <2>1, Zenon DEF IsLoop
<1>10. Results(f)
  <2>1. f = [k \in 0..L |-> f[k]]
    BY <1>7
  <2>2. \A k \in 0..L : f[k] = IF k = 0 THEN first ELSE AddDigit(f[k - 1], block[L + 1 - k])
    <3>1. \A k \in 0..L : k = 0 \/ k \in 1..L
      OBVIOUS
    <3>2. \A k \in 1..L : k # 0
      OBVIOUS
    <3> QED
      BY <1>9, <3>1, <3>2, Zenon
  <2>3. [k \in 0..L |-> f[k]] = [k \in 0..L |-> IF k = 0 THEN first
                                                ELSE AddDigit(f[k - 1], block[L + 1 - k])]
    BY <2>2, Zenon
  <2> QED
    BY <2>1, <2>3, Zenon DEF Results
<1>11. Results(acc)
  BY <1>10, Zenon
<1>12. DecodeBlock(block) = ReadAs(acc[L], DecodedSizes(L))
  <2> DEFINE own == CHOOSE g : g = [k \in 0..Len(block) |->
                                     IF k = 0 THEN [ok |-> TRUE, num |-> 0, order |-> 1]
                                     ELSE AddDigit(g[k - 1], block[Len(block) + 1 - k])]
  <2>1. DecodeBlock(block) = ReadAs(own[Len(block)], DecodedSizes(Len(block)))
    BY Zenon DEF DecodeBlock, ReadAs
  <2>2. own = acc
    BY <1>1, Zenon DEF Results, first
  <2> HIDE DEF own, acc
  <2> QED
    BY <1>1, <2>1, <2>2, Zenon
<1> HIDE DEF acc
<1>13. acc[0] = first /\ \A k \in 1..L : acc[k] = AddDigit(acc[k - 1], block[L + 1 - k])
  <2>1. \A k \in 0..L : acc[k] = IF k = 0 THEN first ELSE AddDigit(acc[k - 1], block[L + 1 - k])
    BY <1>11, Zenon DEF Results
  <2>2. 0 \in 0..L /\ \A k \in 1..L : k \in 0..L /\ k # 0
    OBVIOUS
  <2> QED
    BY <2>1, <2>2, Zenon
<1>14. Agree(f, acc, L)
  <2>1. f[0] = acc[0] /\ StepAlike(f, acc, L)
    BY <1>9, <1>13, Zenon DEF StepAlike
  <2> QED
    BY <2>1, LoopsAgree
<1>15. \A k \in 0..L : acc[k] \in Totals
  BY <1>8, <1>14, Zenon DEF Agree
<1>16. IsReading(acc, block, L)
  BY <1>13, <1>15, Zenon DEF IsReading, first
<1> QED
  BY <1>1, <1>12, <1>16, Zenon

\* The totals of a block of known characters tell its value.
LEMMA BlockTells ==
  ASSUME NEW block \in Seq(0..(AlphabetSize - 1)), NEW L \in 1..FullEncoded,
         L = Len(block), NEW acc, IsReading(acc, block, L)
  PROVE  acc[L] \in Totals /\ Tells(acc[L], Value(block, AlphabetSize))
<1> DEFINE A == AlphabetSize
           v == Value(block, A)
           T == {k \in Nat : k <= L => /\ Tells(acc[k], v % Power(A, k))
                                       /\ k < L => acc[k].order = Power(A, k)}
<1>1. A \in Nat \ {0, 1} /\ WordBase \in Nat \ {0} /\ FullEncoded \in Nat
  <2>1. FullBlock \in 0..FullBlock
    BY FullBlockIsAWord
  <2> QED
    BY <2>1, FullBlockIsAWord
<1>2. v \in Nat /\ v < Power(A, L) /\ Digits(v, A, L) = block
  BY <1>1, DigitsOfValue
<1>3. /\ acc[0] = [ok |-> TRUE, num |-> 0, order |-> 1]
      /\ \A k \in 0..L : acc[k] \in Totals
      /\ \A k \in 1..L : acc[k] = AddDigit(acc[k - 1], block[L + 1 - k])
  BY Zenon DEF IsReading
<1> HIDE DEF v
<1>4. 0 \in T
  <2>1. Power(A, 0) = 1
    BY <1>1, PowerStep
  <2>2. v % 1 = 0
    BY <1>2
  <2>3. acc[0].ok = TRUE /\ acc[0].num = 0 /\ acc[0].order = 1
    BY <1>3
  <2>4. Tells(acc[0], 0)
    BY <1>1, <2>3 DEF Tells
  <2> QED
    BY <2>1, <2>2, <2>3, <2>4
<1>5. ASSUME NEW k \in Nat, k \in T
      PROVE  k + 1 \in T
  <2> SUFFICES ASSUME k + 1 <= L
               PROVE  /\ Tells(acc[k + 1], v % Power(A, k + 1))
                      /\ k + 1 < L => acc[k + 1].order = Power(A, k + 1)
    OBVIOUS
  <2> DEFINE x == v % Power(A, k)
             digit == (v \div Power(A, k)) % A
  <2>1. k <= L /\ k < L /\ k \in 0..L /\ k + 1 \in 1..L /\ (k + 1) - 1 = k
        /\ L + 1 - (k + 1) = L - k /\ L - k \in 1..L /\ L - (L - k) = k
    OBVIOUS
  <2>2. Tells(acc[k], x) /\ acc[k].order = Power(A, k)
    BY <1>5, <2>1
  <2>3. block[L - k] = digit
    <3>1. Digits(v, A, L)[L - k] = (v \div Power(A, L - (L - k))) % A
      <4>1. A \in Nat \ {0} /\ L \in Nat /\ v \in Nat
        BY <1>1, <1>2
      <4>2. \A i \in 1..L : Digits(v, A, L)[i] = (v \div Power(A, L - i)) % A
        BY <4>1, DigitsType
      <4> QED
        BY <2>1, <4>2, Zenon
    <3> QED
      BY <1>2, <2>1, <3>1, Zenon
  <2>4. acc[k + 1] = AddDigit(acc[k], digit)
    BY <1>3, <2>1, <2>3, Zenon
  <2>5. digit \in 0..(A - 1) /\ x \in Nat
        /\ v % Power(A, k + 1) = x + Power(A, k) * digit
    <3>1. A \in Nat \ {0}
      BY <1>1
    <3>2. v \div Power(A, k) \in Nat
      <4>1. Power(A, k) \in Nat \ {0}
        BY <3>1, PowerPositive
      <4> QED
        BY <1>2, <4>1, DivMod
    <3>3. digit \in 0..(A - 1)
      BY <3>1, <3>2, DivMod
    <3>4. x \in Nat /\ v % Power(A, k + 1) = x + Power(A, k) * digit
      BY <1>2, <3>1, NextDigit
    <3> QED
      BY <3>3, <3>4
  <2> HIDE DEF x, digit
  <2>6. digit \in Nat /\ digit # A /\ acc[k] \in Totals
    BY <1>1, <1>3, <2>1, <2>5
  <2>7. Tells(AddDigit(acc[k], digit), x + acc[k].order * digit)
    BY <2>2, <2>5, <2>6, AddDigitTells
  <2>8. Tells(acc[k + 1], v % Power(A, k + 1))
    BY <2>2, <2>4, <2>5, <2>7, Zenon
  <2>9. ASSUME k + 1 < L
        PROVE  acc[k + 1].order = Power(A, k + 1)
    <3>1. Power(A, k + 1) < WordBase
      <4>1. k + 1 \in Nat /\ FullEncoded - 1 \in Nat
            /\ (k + 1 = FullEncoded - 1 \/ k + 1 < FullEncoded - 1)
        BY <1>1, <2>9
      <4>2. Power(A, k + 1) = Power(A, FullEncoded - 1)
            \/ Power(A, k + 1) < Power(A, FullEncoded - 1)
        BY <1>1, <4>1, PowerGrows
      <4>3. Power(A, FullEncoded - 1) < WordBase
        BY SizesAssumption
      <4>4. Power(A, k + 1) \in Nat /\ Power(A, FullEncoded - 1) \in Nat
        BY <1>1, <4>1, PowerStep
      <4> QED
        BY <1>1, <4>2, <4>3, <4>4
    <3>2. acc[k].order * A = Power(A, k + 1)
      <4>1. Power(A, k + 1) = A * Power(A, k) /\ Power(A, k) \in Nat
        BY <1>1, PowerStep
      <4>2. A * Power(A, k) = Power(A, k) * A
        BY <1>1, <4>1
      <4> QED
        BY <2>2, <4>1, <4>2, Zenon
    <3>3. acc[k].order * A < WordBase
      BY <3>1, <3>2, Zenon
    <3>4. AddDigit(acc[k], digit).order = acc[k].order * A
      BY <2>6, <3>3, AddDigitTells
    <3> QED
      BY <2>4, <3>2, <3>4, Zenon
  <2> QED
    BY <2>8, <2>9
<1>6. L \in Nat /\ L \in 0..L /\ L <= L
  BY <1>1
<1> HIDE DEF T
<1>7. L \in T
  BY <1>4, <1>5, <1>6, InductionAlong
<1>8. Tells(acc[L], v % Power(A, L))
  BY <1>6, <1>7 DEF T
<1>9. v % Power(A, L) = v
  <2>1. Power(A, L) \in Nat \ {0}
    <3> A \in Nat \ {0}
      BY <1>1
    <3> QED
      BY <1>6, PowerPositive
  <2> DEFINE p == Power(A, L)
  <2>2. p \in Nat \ {0} /\ v < p
    BY <1>2, <2>1
  <2> HIDE DEF p
  <2>3. 0 \in Nat /\ v \in 0..(p - 1) /\ p * 0 + v = v
    BY <1>2, <2>2
  <2>4. (p * 0 + v) % p = v
    BY <2>2, <2>3, DivModUnique
  <2> QED
    BY <2>3, <2>4, Zenon DEF p
<1> QED
  BY <1>3, <1>6, <1>8, <1>9, Zenon DEF v

\* A block with an unknown character fails.
LEMMA UnknownFails ==
  ASSUME NEW block \in Seq(0..AlphabetSize), NEW L \in Nat, L = Len(block),
         NEW acc, IsReading(acc, block, L), acc[L].ok
  PROVE  block \in Seq(0..(AlphabetSize - 1))
<1> DEFINE T == {k \in Nat : k <= L /\ acc[k].ok =>
                   \A j \in 1..k : block[L + 1 - j] # AlphabetSize}
<1>1. /\ \A k \in 0..L : acc[k] \in Totals
      /\ \A k \in 1..L : acc[k] = AddDigit(acc[k - 1], block[L + 1 - k])
  BY Zenon DEF IsReading
<1>2. AlphabetSize \in Nat
  BY FullBlockIsAWord
<1>3. \A i \in 1..L : block[i] \in 0..AlphabetSize
  BY FunctionOfSeq
<1>4. 0 \in T
  OBVIOUS
<1>5. ASSUME NEW k \in Nat, k \in T
      PROVE  k + 1 \in T
  <2> SUFFICES ASSUME k + 1 <= L, acc[k + 1].ok, NEW j \in 1..(k + 1)
               PROVE  block[L + 1 - j] # AlphabetSize
    OBVIOUS
  <2>1. k <= L /\ k \in 0..L /\ k + 1 \in 1..L /\ (k + 1) - 1 = k /\ L + 1 - (k + 1) \in 1..L
    OBVIOUS
  <2> DEFINE digit == block[L + 1 - (k + 1)]
  <2>2. digit \in Nat
    BY <1>2, <1>3, <2>1
  <2>3. acc[k + 1] = AddDigit(acc[k], digit) /\ acc[k] \in Totals
    BY <1>1, <2>1, Zenon
  <2>4. AddDigit(acc[k], digit).ok => acc[k].ok /\ digit # AlphabetSize
    <3> HIDE DEF digit
    <3> QED
      BY <2>2, <2>3, AddDigitTells
  <2>5. acc[k].ok /\ digit # AlphabetSize
    BY <2>3, <2>4, Zenon
  <2>6. \A i \in 1..k : block[L + 1 - i] # AlphabetSize
    BY <1>5, <2>1, <2>5
  <2>7. j = k + 1 \/ j \in 1..k
    OBVIOUS
  <2> QED
    BY <2>5, <2>6, <2>7, Zenon
<1> HIDE DEF T
<1>6. L \in T
  BY <1>4, <1>5, InductionAlong
<1>7. \A j \in 1..L : block[L + 1 - j] # AlphabetSize
  BY <1>6 DEF T
<1>8. \A i \in 1..L : block[i] \in 0..(AlphabetSize - 1)
  <2> SUFFICES ASSUME NEW i \in 1..L PROVE block[i] \in 0..(AlphabetSize - 1)
    OBVIOUS
  <2>1. L + 1 - i \in 1..L /\ L + 1 - (L + 1 - i) = i
    OBVIOUS
  <2>2. block[i] # AlphabetSize /\ block[i] \in 0..AlphabetSize
    BY <1>3, <1>7, <2>1, Zenon
  <2> QED
    BY <1>2, <2>2
<1>9. block = [i \in 1..L |-> block[i]]
  BY FunctionOfSeq
<1>10. block \in [1..L -> 0..(AlphabetSize - 1)]
  BY <1>8, <1>9
<1> QED
  BY <1>10, SeqOfFunction

\* block is the spelling of data, and of no other bytes.
Spells58(block, data) ==
  /\ data \in Seq(Byte) /\ Len(data) \in 1..FullBlock
  /\ Len(block) = EncodedSize(Len(data))
  /\ EncodeBlock(data) = block
  /\ DecodeBlock(block) = Decoded(data)

\* The bytes of a block are fewer than the values of its characters, and a
\* word at most.
LEMMA BlockFits ==
  ASSUME NEW n \in 1..FullBlock
  PROVE  /\ Power(ByteBase, n) \in Nat \ {0}
         /\ Power(ByteBase, n) <= WordBase
         /\ EncodedSize(n) \in Nat /\ Power(AlphabetSize, EncodedSize(n)) \in Nat
         /\ Power(ByteBase, n) <= Power(AlphabetSize, EncodedSize(n))
<1>1. ByteBase \in Nat \ {0, 1} /\ ByteBase \in Nat \ {0}
  BY ByteBaseType
<1>2. FullBlock \in Nat /\ n \in Nat /\ n \in 0..FullBlock /\ (n = FullBlock \/ n < FullBlock)
  BY FullBlockIsAWord
<1>3. Power(ByteBase, n) \in Nat \ {0}
  BY <1>1, <1>2, PowerPositive
<1>4. Power(ByteBase, n) = WordBase \/ Power(ByteBase, n) < WordBase
  <2>1. n < FullBlock => Power(ByteBase, n) < Power(ByteBase, FullBlock)
    BY <1>1, <1>2, PowerGrows
  <2> QED
    BY <1>2, <2>1, FullBlockIsAWord, Zenon
<1>5. Power(ByteBase, n) <= WordBase
  BY <1>3, <1>4, FullBlockIsAWord
<1>6. EncodedSize(n) \in Nat /\ AlphabetSize \in Nat
  BY <1>2, FullBlockIsAWord
<1>7. Power(AlphabetSize, EncodedSize(n)) \in Nat
  BY <1>6, PowerStep
<1>8. Power(ByteBase, n) <= Power(AlphabetSize, EncodedSize(n))
  BY SizesAssumption, Zenon DEF EncodedSize
<1> QED
  BY <1>3, <1>5, <1>6, <1>7, <1>8

\* What a block of known characters whose value fits its bytes is read as.
LEMMA FittingBlocksDecode ==
  ASSUME NEW n \in 1..FullBlock, NEW total, NEW v \in Nat,
         total.ok, total.num = v, v < Power(ByteBase, n)
  PROVE  ReadAs(total, {n}) = Decoded(Digits(v, ByteBase, n))
<1>1. (CHOOSE k \in {n} : TRUE) = n
  OBVIOUS
<1>2. ~({n} \subseteq {0})
  OBVIOUS
<1>3. ~(v >= Power(ByteBase, n))
  <2>1. Power(ByteBase, n) \in Nat
    BY BlockFits
  <2> QED
    BY <2>1
<1> DEFINE size == CHOOSE k \in {n} : TRUE
<1>4. ReadAs(total, {n}) =
        IF {n} \subseteq {0} \/ ~total.ok \/ (size < FullBlock /\ total.num >= Power(ByteBase, size))
        THEN Failed ELSE Decoded(Digits(total.num, ByteBase, size))
  BY Zenon DEF ReadAs
<1> HIDE DEF size
<1>5. size = n
  BY <1>1 DEF size
<1> QED
  BY <1>2, <1>3, <1>4, <1>5, Zenon

\* decode_block: the characters of a block of bytes are read as the bytes.
LEMMA BlocksDecode ==
  ASSUME NEW data \in Seq(Byte), Len(data) \in 1..FullBlock
  PROVE  /\ EncodeBlock(data) \in Seq(0..(AlphabetSize - 1))
         /\ Spells58(EncodeBlock(data), data)
<1> DEFINE v == Value(data, ByteBase)
           block == EncodeBlock(data)
<1>1. PICK n \in 1..FullBlock : n = Len(data)
  OBVIOUS
<1>2. PICK L \in 1..FullEncoded : L = EncodedSize(n)
  BY SizesOfBlocks
<1>3. v \in Nat /\ v < Power(ByteBase, n) /\ Digits(v, ByteBase, n) = data
  <2>1. ByteBase \in Nat \ {0} /\ data \in Seq(0..(ByteBase - 1))
    BY ByteBaseType DEF Byte
  <2>2. v \in Nat /\ v < Power(ByteBase, Len(data)) /\ Digits(v, ByteBase, Len(data)) = data
    BY <2>1, DigitsOfValue
  <2> QED
    BY <1>1, <2>2, Zenon
<1>4. block = Digits(v, AlphabetSize, L)
  BY <1>1, <1>2, Zenon DEF EncodeBlock, EncodedSize
<1>5. AlphabetSize \in Nat \ {0} /\ L \in Nat /\ L \in 1..FullEncoded
  BY FullBlockIsAWord
<1> HIDE DEF v, block
<1>6. block \in Seq(0..(AlphabetSize - 1)) /\ Len(block) = L
  BY <1>3, <1>4, <1>5, DigitsType
<1>7. v < Power(AlphabetSize, L) /\ v < WordBase
  <2>1. /\ Power(ByteBase, n) \in Nat /\ Power(ByteBase, n) <= WordBase
        /\ Power(AlphabetSize, L) \in Nat /\ Power(ByteBase, n) <= Power(AlphabetSize, L)
    BY <1>2, BlockFits
  <2>2. WordBase \in Nat
    BY FullBlockIsAWord
  <2> QED
    BY <1>3, <2>1, <2>2
<1>8. Value(block, AlphabetSize) = v
  BY <1>3, <1>4, <1>5, <1>7, ValueOfDigits
<1>9. PICK acc : IsReading(acc, block, L) /\ DecodeBlock(block) = ReadAs(acc[L], DecodedSizes(L))
  <2>1. block \in Seq(0..AlphabetSize)
    <3>1. 0..(AlphabetSize - 1) \subseteq 0..AlphabetSize
      BY <1>5
    <3> QED
      BY <1>6, <3>1, SeqMonotonic, Zenon
  <2>2. \E acc : /\ IsReading(acc, block, Len(block))
                 /\ DecodeBlock(block) = ReadAs(acc[Len(block)], DecodedSizes(Len(block)))
    BY <2>1, DecodeBlockIsALoop
  <2> QED
    BY <1>6, <2>2, Zenon
<1>10. Tells(acc[L], v)
  BY <1>6, <1>8, <1>9, BlockTells
<1>11. acc[L].ok /\ acc[L].num = v
  BY <1>7, <1>10, Zenon DEF Tells
<1>12. DecodedSizes(L) = {n}
  BY <1>2, SizesOfBlocks
<1>13. ReadAs(acc[L], {n}) = Decoded(data)
  <2>1. ReadAs(acc[L], {n}) = Decoded(Digits(v, ByteBase, n))
    BY <1>3, <1>11, FittingBlocksDecode
  <2> QED
    BY <1>3, <2>1, Zenon
<1>14. DecodeBlock(block) = Decoded(data)
  BY <1>9, <1>12, <1>13, Zenon
<1> QED
  BY <1>1, <1>2, <1>6, <1>14, Zenon DEF Spells58, block

\* decode_block: a block that is accepted is the spelling of its bytes.
LEMMA BlocksAreCanonical ==
  ASSUME NEW block \in Seq(0..AlphabetSize), Len(block) \in 1..FullEncoded,
         DecodeBlock(block).ok
  PROVE  Spells58(block, DecodeBlock(block).data)
<1>1. PICK L \in 1..FullEncoded : L = Len(block)
  OBVIOUS
<1>2. PICK acc : IsReading(acc, block, L) /\ DecodeBlock(block) = ReadAs(acc[L], DecodedSizes(L))
  BY <1>1, DecodeBlockIsALoop
<1> DEFINE sizes == DecodedSizes(L)
           v == Value(block, AlphabetSize)
<1>3. /\ ~(sizes \subseteq {0}) /\ acc[L].ok
      /\ LET size == CHOOSE k \in sizes : TRUE
         IN  size < FullBlock => ~(acc[L].num >= Power(ByteBase, size))
  <2>1. ReadAs(acc[L], sizes).ok
    BY <1>2, Zenon
  <2>2. ~Failed.ok
    BY DEF Failed
  <2> HIDE DEF sizes
  <2> QED
    BY <2>1, <2>2, Zenon DEF ReadAs
<1>4. PICK n \in 1..FullBlock : n \in sizes
  <2>1. FullBlock \in Nat /\ sizes \subseteq 0..FullBlock
    BY FullBlockIsAWord DEF DecodedSizes
  <2>2. PICK n \in sizes : n # 0
    BY <1>3, Zenon
  <2> HIDE DEF sizes
  <2> QED
    BY <2>1, <2>2
<1>5. L = EncodedSize(n)
  BY <1>4, Zenon DEF DecodedSizes, EncodedSize
<1>6. sizes = {n}
  BY <1>5, SizesOfBlocks
<1> HIDE DEF sizes
<1>7. L \in Nat
  BY FullBlockIsAWord
<1>8. block \in Seq(0..(AlphabetSize - 1))
  BY <1>1, <1>2, <1>3, <1>7, UnknownFails
<1>9. acc[L] \in Totals /\ Tells(acc[L], v)
  BY <1>1, <1>2, <1>8, BlockTells
<1>10. v < WordBase /\ acc[L].num = v
  BY <1>3, <1>9, Zenon DEF Tells
<1>11. AlphabetSize \in Nat \ {0}
  BY FullBlockIsAWord
<1>12. v \in Nat /\ Digits(v, AlphabetSize, L) = block
  BY <1>1, <1>8, <1>11, DigitsOfValue
<1> HIDE DEF v
<1>13. v < Power(ByteBase, n)
  <2>1. n = FullBlock \/ n < FullBlock
    BY FullBlockIsAWord
  <2>2. CASE n = FullBlock
    BY <1>10, <2>2, FullBlockIsAWord, Zenon
  <2>3. CASE n < FullBlock
    <3>1. ~(v >= Power(ByteBase, n))
      <4>1. (CHOOSE k \in {n} : TRUE) = n
        OBVIOUS
      <4> QED
        BY <1>3, <1>6, <1>10, <2>3, <4>1, Zenon
    <3>2. Power(ByteBase, n) \in Nat
      BY BlockFits
    <3> QED
      BY <1>12, <3>1, <3>2
  <2> QED
    BY <2>1, <2>2, <2>3
<1> DEFINE data == Digits(v, ByteBase, n)
<1>14. DecodeBlock(block) = Decoded(data)
  <2>1. ReadAs(acc[L], {n}) = Decoded(data)
    BY <1>3, <1>10, <1>12, <1>13, FittingBlocksDecode
  <2> QED
    BY <1>2, <1>6, <2>1, Zenon DEF sizes
<1>15. DecodeBlock(block).data = data
  <2>1. Decoded(data).data = data
    BY DEF Decoded
  <2> QED
    BY <1>14, <2>1, Zenon
<1>16. ByteBase \in Nat \ {0} /\ n \in Nat
  BY ByteBaseType
<1>17. data \in Seq(Byte) /\ Len(data) = n
  BY <1>12, <1>16, DigitsType DEF Byte
<1>18. Value(data, ByteBase) = v
  BY <1>12, <1>13, <1>16, ValueOfDigits
<1> HIDE DEF data
<1>19. EncodeBlock(data) = block
  BY <1>5, <1>12, <1>17, <1>18, Zenon DEF EncodeBlock, EncodedSize
<1> QED
  BY <1>1, <1>5, <1>14, <1>15, <1>17, <1>19, Zenon DEF Spells58

-------------------------------------------------------------------------------
(* Base-58: strings.                                                       *)

\* Blocks have bytes and characters.
LEMMA BlockLengths == FullBlock \in Nat \ {0} /\ FullEncoded \in Nat \ {0}
<1>1. FullBlock \in 1..FullBlock
  BY FullBlockIsAWord
<1>2. FullEncoded \in 1..FullEncoded
  BY <1>1, SizesOfBlocks, FullBlockIsAWord, Zenon
<1>3. FullEncoded \in Nat
  BY FullBlockIsAWord
<1> QED
  BY <1>2, <1>3, FullBlockIsAWord

\* The blocks enc spell the blocks data.
AreSpelled(enc, data) ==
  Len(enc) = Len(data) /\ \A k \in 1..Len(data) : Spells58(enc[k], data[k])

\* A block of base-58 is full if and only if its bytes are.
LEMMA FullBlocks ==
  ASSUME NEW block, NEW data, Spells58(block, data)
  PROVE  /\ Len(block) \in 1..FullEncoded /\ Len(data) \in 1..FullBlock
         /\ Len(block) = FullEncoded <=> Len(data) = FullBlock
<1>1. PICK n \in 1..FullBlock : n = Len(data) /\ Len(block) = EncodedSize(n)
  BY Zenon DEF Spells58
<1>2. EncodedSize(n) \in 1..FullEncoded /\ (EncodedSize(n) = FullEncoded => n = FullBlock)
  BY SizesOfBlocks
<1> QED
  BY <1>1, <1>2, FullBlockIsAWord, Zenon

\* Blocks are even if and only if their bytes are.
LEMMA EvenBlocks ==
  ASSUME NEW enc, NEW data, AreSpelled(enc, data)
  PROVE  EvenPieces(enc, FullEncoded) <=> EvenPieces(data, FullBlock)
<1>1. Len(enc) = Len(data)
  BY Zenon DEF AreSpelled
<1>2. \A k \in 1..Len(data) : /\ Len(enc[k]) \in 1..FullEncoded
                              /\ Len(data[k]) \in 1..FullBlock
                              /\ Len(enc[k]) = FullEncoded <=> Len(data[k]) = FullBlock
  <2> SUFFICES ASSUME NEW k \in 1..Len(data)
               PROVE  /\ Len(enc[k]) \in 1..FullEncoded
                      /\ Len(data[k]) \in 1..FullBlock
                      /\ Len(enc[k]) = FullEncoded <=> Len(data[k]) = FullBlock
    BY Zenon
  <2>1. Spells58(enc[k], data[k])
    BY Zenon DEF AreSpelled
  <2> QED
    BY <2>1, FullBlocks, Zenon
<1> QED
  BY <1>1, <1>2, Zenon DEF EvenPieces

\* encode and decode are inverses on blocks and their bytes.
LEMMA SpelledPieces ==
  ASSUME NEW enc \in Seq(Seq(0..AlphabetSize)), NEW data \in Seq(Seq(Byte)),
         AreSpelled(enc, data), EvenPieces(data, FullBlock)
  PROVE  /\ Encode(FlattenSeq(data)) = FlattenSeq(enc)
         /\ Decode(FlattenSeq(enc)) = Decoded(FlattenSeq(data))
<1>1. FullBlock \in Nat \ {0} /\ FullEncoded \in Nat \ {0}
  BY BlockLengths
<1>2. EvenPieces(enc, FullEncoded)
  BY EvenBlocks
<1>3. Pieces(FlattenSeq(data), FullBlock) = data
  BY <1>1, PiecesAndFlatten
<1>4. Pieces(FlattenSeq(enc), FullEncoded) = enc
  BY <1>1, <1>2, PiecesAndFlatten
<1>5. /\ DOMAIN data = 1..Len(data) /\ DOMAIN enc = DOMAIN data
      /\ data = [k \in DOMAIN data |-> data[k]] /\ enc = [k \in DOMAIN data |-> enc[k]]
  <2>1. DOMAIN data = 1..Len(data) /\ data = [k \in 1..Len(data) |-> data[k]]
    BY FunctionOfSeq
  <2>2. DOMAIN enc = 1..Len(enc) /\ enc = [k \in 1..Len(enc) |-> enc[k]]
    BY FunctionOfSeq
  <2>3. Len(enc) = Len(data)
    BY Zenon DEF AreSpelled
  <2> QED
    BY <2>1, <2>2, <2>3, Zenon
<1>6. \A k \in DOMAIN data : EncodeBlock(data[k]) = enc[k] /\ DecodeBlock(enc[k]) = Decoded(data[k])
  BY <1>5, Zenon DEF AreSpelled, Spells58
<1>7. Encode(FlattenSeq(data)) = FlattenSeq(enc)
  <2>1. [k \in DOMAIN data |-> EncodeBlock(data[k])] = enc
    <3>1. [k \in DOMAIN data |-> EncodeBlock(data[k])] = [k \in DOMAIN data |-> enc[k]]
      BY <1>6, Zenon
    <3> QED
      BY <1>5, <3>1, Zenon
  <2>2. Encode(FlattenSeq(data)) = FlattenSeq([k \in DOMAIN data |-> EncodeBlock(data[k])])
    BY <1>3, Zenon DEF Encode
  <2> QED
    BY <2>1, <2>2, Zenon
<1>8. Decode(FlattenSeq(enc)) = Decoded(FlattenSeq(data))
  <2> DEFINE datas == [k \in DOMAIN enc |-> DecodeBlock(enc[k])]
  <2>1. Decode(FlattenSeq(enc)) =
          IF \A k \in DOMAIN datas : datas[k].ok
          THEN Decoded(FlattenSeq([k \in DOMAIN datas |-> datas[k].data])) ELSE Failed
    BY <1>4, Zenon DEF Decode
  <2>2. DOMAIN datas = DOMAIN data /\ \A k \in DOMAIN data : datas[k] = Decoded(data[k])
    BY <1>5, <1>6, Zenon
  <2> HIDE DEF datas
  <2>3. \A k \in DOMAIN data : datas[k].ok /\ datas[k].data = data[k]
    <3>1. \A x : Decoded(x).ok /\ Decoded(x).data = x
      BY DEF Decoded
    <3> QED
      BY <2>2, <3>1, Zenon
  <2>4. [k \in DOMAIN datas |-> datas[k].data] = data
    <3>1. [k \in DOMAIN data |-> datas[k].data] = [k \in DOMAIN data |-> data[k]]
      BY <2>3, Zenon
    <3> QED
      BY <1>5, <2>2, <3>1, Zenon
  <2> QED
    BY <2>1, <2>2, <2>3, <2>4, Zenon
<1> QED
  BY <1>7, <1>8

\* What is known of the characters and the bytes of a string.
IsEncoding(enc, data) ==
  /\ data \in Seq(Byte) /\ enc \in Seq(0..AlphabetSize)
  /\ Encode(data) = enc /\ Decode(enc) = Decoded(data)
  /\ \E e, d : /\ e \in Seq(Seq(0..AlphabetSize)) /\ d \in Seq(Seq(Byte)) /\ AreSpelled(e, d)
               /\ EvenPieces(e, FullEncoded) /\ IsTogether(enc, e, FullEncoded)
               /\ EvenPieces(d, FullBlock) /\ IsTogether(data, d, FullBlock)

\* The blocks of a string and their bytes make it an encoding.
LEMMA BlocksMakeEncodings ==
  ASSUME NEW e \in Seq(Seq(0..AlphabetSize)), NEW d \in Seq(Seq(Byte)),
         AreSpelled(e, d), EvenPieces(d, FullBlock)
  PROVE  IsEncoding(FlattenSeq(e), FlattenSeq(d))
<1>1. FullBlock \in Nat \ {0} /\ FullEncoded \in Nat \ {0}
  BY BlockLengths
<1>2. EvenPieces(e, FullEncoded)
  BY EvenBlocks
<1>3. FlattenSeq(e) \in Seq(0..AlphabetSize) /\ IsTogether(FlattenSeq(e), e, FullEncoded)
  BY <1>1, <1>2, FlattenEvenPieces
<1>4. FlattenSeq(d) \in Seq(Byte) /\ IsTogether(FlattenSeq(d), d, FullBlock)
  BY <1>1, FlattenEvenPieces
<1>5. Encode(FlattenSeq(d)) = FlattenSeq(e) /\ Decode(FlattenSeq(e)) = Decoded(FlattenSeq(d))
  BY SpelledPieces
<1> QED
  BY <1>2, <1>3, <1>4, <1>5, Zenon DEF IsEncoding

\* base58.cpp: every byte string has an encoding, which decodes to it.
THEOREM EncodeMakesEncodings ==
  ASSUME NEW data \in Seq(Byte)
  PROVE  IsEncoding(Encode(data), data)
<1> DEFINE d == Pieces(data, FullBlock)
           e == [k \in 1..Len(d) |-> EncodeBlock(d[k])]
<1>1. FullBlock \in Nat \ {0}
  BY FullBlockIsAWord
<1>2. d \in Seq(Seq(Byte)) /\ EvenPieces(d, FullBlock) /\ FlattenSeq(d) = data
  BY <1>1, PiecesAreTogether, PiecesAndFlatten
<1> HIDE DEF d
<1>3. Len(d) \in Nat /\ \A k \in 1..Len(d) : d[k] \in Seq(Byte) /\ Len(d[k]) \in 1..FullBlock
  <2>1. Len(d) \in Nat /\ \A k \in 1..Len(d) : d[k] \in Seq(Byte)
    BY <1>2, FunctionOfSeq
  <2> QED
    BY <1>2, <2>1, Zenon DEF EvenPieces
<1>4. \A k \in 1..Len(d) : /\ EncodeBlock(d[k]) \in Seq(0..AlphabetSize)
                           /\ Spells58(EncodeBlock(d[k]), d[k])
  <2> SUFFICES ASSUME NEW k \in 1..Len(d)
               PROVE  /\ EncodeBlock(d[k]) \in Seq(0..AlphabetSize)
                      /\ Spells58(EncodeBlock(d[k]), d[k])
    BY Zenon
  <2>1. /\ EncodeBlock(d[k]) \in Seq(0..(AlphabetSize - 1))
        /\ Spells58(EncodeBlock(d[k]), d[k])
    BY <1>3, BlocksDecode, Zenon
  <2>2. 0..(AlphabetSize - 1) \subseteq 0..AlphabetSize
    BY FullBlockIsAWord
  <2> QED
    BY <2>1, <2>2, SeqMonotonic, Zenon
<1>5. e \in Seq(Seq(0..AlphabetSize)) /\ Len(e) = Len(d)
  <2>1. e \in [1..Len(d) -> Seq(0..AlphabetSize)]
    BY <1>4
  <2> HIDE DEF e
  <2> QED
    BY <1>3, <2>1, SeqOfFunction
<1>6. AreSpelled(e, d)
  <2>1. \A k \in 1..Len(d) : e[k] = EncodeBlock(d[k])
    BY Zenon
  <2> HIDE DEF e
  <2> QED
    BY <1>4, <1>5, <2>1, Zenon DEF AreSpelled
<1> HIDE DEF e
<1>7. IsEncoding(FlattenSeq(e), FlattenSeq(d))
  BY <1>2, <1>5, <1>6, BlocksMakeEncodings
<1>8. Encode(data) = FlattenSeq(e)
  BY <1>2, <1>7, Zenon DEF IsEncoding
<1> QED
  BY <1>2, <1>7, <1>8, Zenon

\* base58.cpp: a string that decode accepts is the encoding of what it returns.
THEOREM DecodeAcceptsEncodings ==
  ASSUME NEW enc \in Seq(0..AlphabetSize), Decode(enc).ok
  PROVE  IsEncoding(enc, Decode(enc).data)
<1> DEFINE e == Pieces(enc, FullEncoded)
           d == [k \in 1..Len(e) |-> DecodeBlock(e[k]).data]
<1>1. FullEncoded \in Nat \ {0}
  BY BlockLengths
<1>2. e \in Seq(Seq(0..AlphabetSize)) /\ EvenPieces(e, FullEncoded) /\ FlattenSeq(e) = enc
  BY <1>1, PiecesAreTogether, PiecesAndFlatten
<1>3. \A k \in DOMAIN e : DecodeBlock(e[k]).ok
  <2> DEFINE datas == [k \in DOMAIN e |-> DecodeBlock(e[k])]
  <2>1. Decode(enc) = IF \A k \in DOMAIN datas : datas[k].ok
                      THEN Decoded(FlattenSeq([k \in DOMAIN datas |-> datas[k].data]))
                      ELSE Failed
    BY Zenon DEF Decode
  <2>2. ~Failed.ok
    BY DEF Failed
  <2>3. DOMAIN datas = DOMAIN e /\ \A k \in DOMAIN e : datas[k] = DecodeBlock(e[k])
    BY Zenon
  <2> HIDE DEF datas, e
  <2>4. \A k \in DOMAIN datas : datas[k].ok
    BY <2>1, <2>2, Zenon
  <2> QED
    BY <2>3, <2>4, Zenon
<1> HIDE DEF e
<1>4. /\ Len(e) \in Nat /\ DOMAIN e = 1..Len(e)
      /\ \A k \in 1..Len(e) : e[k] \in Seq(0..AlphabetSize) /\ Len(e[k]) \in 1..FullEncoded
  <2>1. Len(e) \in Nat /\ DOMAIN e = 1..Len(e) /\ \A k \in 1..Len(e) : e[k] \in Seq(0..AlphabetSize)
    BY <1>2, FunctionOfSeq
  <2> QED
    BY <1>2, <2>1, Zenon DEF EvenPieces
<1>5. \A k \in 1..Len(e) : Spells58(e[k], DecodeBlock(e[k]).data)
  <2> SUFFICES ASSUME NEW k \in 1..Len(e)
               PROVE  Spells58(e[k], DecodeBlock(e[k]).data)
    BY Zenon
  <2>1. DecodeBlock(e[k]).ok
    BY <1>3, <1>4, Zenon
  <2> QED
    BY <1>4, <2>1, BlocksAreCanonical, Zenon
<1>6. \A k \in 1..Len(e) : d[k] = DecodeBlock(e[k]).data
  BY Zenon
<1>7. d \in Seq(Seq(Byte)) /\ Len(d) = Len(e)
  <2>1. \A k \in 1..Len(e) : DecodeBlock(e[k]).data \in Seq(Byte)
    BY <1>5, Zenon DEF Spells58
  <2>2. d \in [1..Len(e) -> Seq(Byte)]
    BY <2>1
  <2> HIDE DEF d
  <2> QED
    BY <1>4, <2>2, SeqOfFunction
<1> HIDE DEF d
<1>8. AreSpelled(e, d)
  BY <1>5, <1>6, <1>7, Zenon DEF AreSpelled
<1>9. EvenPieces(d, FullBlock)
  BY <1>2, <1>8, EvenBlocks, Zenon
<1>10. IsEncoding(FlattenSeq(e), FlattenSeq(d))
  BY <1>2, <1>7, <1>8, <1>9, BlocksMakeEncodings
<1>11. Decode(enc).data = FlattenSeq(d)
  <2>1. Decode(enc) = Decoded(FlattenSeq(d))
    BY <1>2, <1>10, Zenon DEF IsEncoding
  <2>2. \A x : Decoded(x).data = x
    BY DEF Decoded
  <2> QED
    BY <2>1, <2>2, Zenon
<1> QED
  BY <1>2, <1>10, <1>11, Zenon

-------------------------------------------------------------------------------
(* Varints.                                                                *)

\* Min is the least element of a set of numbers.
LEMMA MinIsLeast ==
  ASSUME NEW T, T \subseteq Nat, T # {}
  PROVE  Min(T) \in T /\ \A k \in T : Min(T) <= k
<1> DEFINE Least(x) == \A y \in T : x <= y
<1>1. \E m \in T : Least(m)
  BY LeastElement
<1>2. Min(T) = CHOOSE x \in T : Least(x)
  BY DEF Min
<1> HIDE DEF Least
<1>3. Min(T) \in T /\ Least(Min(T))
  BY <1>1, <1>2, Zenon
<1> QED
  BY <1>3 DEF Least

\* The bytes of the longest varint.
LongestVarint == WordBits \div (ByteBits - 1) + 1

\* A byte that read_varint refuses.
IsWrong(s, i) == Overflows(s, i) \/ Padded(s, i)

\* read_varint has read the first n bytes of s.
IsRead(s, n) ==
  /\ n \in 1..Len(s) /\ ~IsWrong(s, n)
  /\ \A i \in 1..(n - 1) : i <= LongestVarint => ~(s[i] < Low) /\ ~IsWrong(s, i)

\* read_varint stops at the first byte that is the last one or wrong.
LEMMA ReadVarintStops ==
  ASSUME NEW s \in Seq(Byte), ReadVarint(s).read > 0
  PROVE  /\ IsRead(s, ReadVarint(s).read)
         /\ ReadVarint(s).read # Len(s) => s[ReadVarint(s).read] < Low
         /\ ReadVarint(s).value
              = Value(Reverse([i \in 1..ReadVarint(s).read |-> s[i] % Low]), Low) % WordBase
<1> DEFINE ends == {i \in 1..Len(s) : i <= LongestVarint /\ (s[i] < Low \/ IsWrong(s, i))}
           n == Min(ends \cup {Len(s)})
           v == Value(Reverse([i \in 1..n |-> s[i] % Low]), Low) % WordBase
<1>1. PICK L \in Nat : L = Len(s)
  BY FunctionOfSeq
<1>2. ReadVarint(s) = IF n > 0 /\ IsWrong(s, n) THEN [read |-> -1, value |-> 0]
                      ELSE [read |-> n, value |-> v]
  BY Zenon DEF ReadVarint, IsWrong, LongestVarint
<1>3. n \in ends \cup {L} /\ \A k \in ends \cup {L} : n <= k
  <2> DEFINE T == ends \cup {L}
  <2>1. T \subseteq Nat /\ T # {}
    BY <1>1
  <2>2. n = Min(T)
    BY <1>1, Zenon
  <2> HIDE DEF T, n
  <2>3. n \in T /\ \A k \in T : n <= k
    BY <2>1, <2>2, MinIsLeast, Zenon
  <2> QED
    BY <2>3, Zenon DEF T
<1> HIDE DEF n, v
<1>4. ends \subseteq 1..L
  BY <1>1, Zenon
<1>5. ~(n > 0 /\ IsWrong(s, n)) /\ ReadVarint(s).read = n /\ ReadVarint(s).value = v
  <2>1. CASE n > 0 /\ IsWrong(s, n)
    <3>1. ReadVarint(s) = [read |-> -1, value |-> 0]
      BY <1>2, <2>1
    <3>2. ReadVarint(s).read = -1
      BY <3>1
    <3> QED
      BY <3>2
  <2>2. CASE ~(n > 0 /\ IsWrong(s, n))
    <3>1. ReadVarint(s) = [read |-> n, value |-> v]
      BY <1>2, <2>2
    <3> QED
      BY <2>2, <3>1
  <2> QED
    BY <2>1, <2>2
<1>6. n > 0 /\ n \in 1..L
  <2>1. n > 0
    BY <1>5
  <2> HIDE DEF ends
  <2>2. n \in Nat /\ n <= L
    BY <1>3, <1>4
  <2> QED
    BY <2>1, <2>2
<1>7. \A i \in 1..(n - 1) : i <= LongestVarint => ~(s[i] < Low) /\ ~IsWrong(s, i)
  <2> SUFFICES ASSUME NEW i \in 1..(n - 1), i <= LongestVarint, s[i] < Low \/ IsWrong(s, i)
               PROVE  FALSE
    BY Zenon
  <2>1. i \in 1..L /\ ~(n <= i)
    BY <1>6
  <2>2. i \in ends
    BY <1>1, <2>1, Zenon
  <2> QED
    BY <1>3, <2>1, <2>2, Zenon
<1>8. IsRead(s, n)
  BY <1>1, <1>5, <1>6, <1>7, Zenon DEF IsRead
<1>9. n # Len(s) => s[n] < Low
  BY <1>1, <1>3, <1>5, <1>6, Zenon
<1> QED
  BY <1>5, <1>8, <1>9, Zenon DEF v

\* The last byte of the longest varint has the bits that are left of the word.
LEMMA LastByteFits ==
  ASSUME NEW s, ~Overflows(s, LongestVarint)
  PROVE  ~(s[LongestVarint] >= Power(2, WordBits % (ByteBits - 1)))
<1> DEFINE m == ByteBits - 1
           q == WordBits \div m
           r == WordBits % m
           i == LongestVarint
           shift == (i - 1) * m
<1>1. m \in Nat \ {0} /\ WordBits \in Nat \ {0}
  BY ByteBitsAssumption, WordBitsAssumption
<1>2. shift + ByteBits - 1 >= WordBits /\ WordBits - shift = r
  <2> HIDE DEF m
  <2>1. WordBits = m * q + r /\ q \in Nat /\ r \in 0..(m - 1)
    BY <1>1, DivMod
  <2>2. i = q + 1
    BY Zenon DEF LongestVarint, m
  <2> HIDE DEF q, r, i
  <2>3. shift = m * q
    BY <1>1, <2>1, <2>2
  <2> DEFINE y == m * q
  <2>4. y \in Nat /\ WordBits = y + r /\ shift = y
    BY <1>1, <2>1, <2>3
  <2> HIDE DEF y, shift
  <2>5. shift + m >= WordBits /\ WordBits - shift = r
    BY <1>1, <2>1, <2>4
  <2>6. shift + ByteBits - 1 = shift + m
    BY <2>4, ByteBitsAssumption DEF m
  <2> QED
    BY <2>5, <2>6, Zenon
<1>3. Overflows(s, i) <=> shift + ByteBits - 1 >= WordBits /\ s[i] >= Power(2, WordBits - shift)
  BY Zenon DEF Overflows
<1> QED
  BY <1>2, <1>3, Zenon

\* A varint that is read to its last byte is not longer than a word.
LEMMA VarintsAreShort ==
  ASSUME NEW s \in Seq(Byte), NEW n \in Nat \ {0}, IsRead(s, n)
  PROVE  n <= LongestVarint /\ n - 1 <= WordBits
<1> DEFINE m == ByteBits - 1
           q == WordBits \div m
           r == WordBits % m
<1>1. m \in Nat \ {0} /\ WordBits \in Nat \ {0}
  BY ByteBitsAssumption, WordBitsAssumption
<1> HIDE DEF m
<1>2. WordBits = m * q + r /\ q \in Nat /\ r \in 0..(m - 1)
  BY <1>1, DivMod
<1> HIDE DEF q, r
<1>3. LongestVarint = q + 1
  BY Zenon DEF LongestVarint, q, m
<1>4. q <= WordBits
  <2> DEFINE y == m * q
  <2>1. q <= y
    <3>1. CASE q = 0
      BY <1>1, <3>1
    <3>2. CASE q # 0
      <4>1. 0 \in Nat /\ m - 1 \in Nat
        BY <1>1
      <4>2. m * q = (m - 1) * q + q /\ (m - 1) * q \in Nat
        BY <1>1, <1>2
      <4> DEFINE z == (m - 1) * q
      <4>3. z \in Nat /\ y = z + q
        BY <4>2
      <4> HIDE DEF z, y
      <4> QED
        BY <1>2, <4>3
    <3> QED
      BY <3>1, <3>2
  <2>2. y \in Nat /\ WordBits = y + r
    BY <1>1, <1>2
  <2> HIDE DEF y
  <2> QED
    BY <1>1, <1>2, <2>1, <2>2
<1>5. n <= q + 1
  <2> SUFFICES ASSUME ~(n <= q + 1) PROVE FALSE
    OBVIOUS
  <2> DEFINE i == q + 1
  <2>1. i \in 1..(n - 1) /\ i <= LongestVarint
    BY <1>2, <1>3
  <2>2. ~(s[i] < Low) /\ ~Overflows(s, i)
    BY <2>1, Zenon DEF IsRead, IsWrong
  <2>3. s[i] \in 0..(ByteBase - 1)
    <3>1. n \in 1..Len(s)
      BY Zenon DEF IsRead
    <3>2. Len(s) \in Nat /\ \A k \in 1..Len(s) : s[k] \in Byte
      BY FunctionOfSeq
    <3>3. i \in 1..Len(s)
      <4> DEFINE L == Len(s)
      <4>1. L \in Nat /\ n \in 1..L
        BY <3>1, <3>2
      <4> HIDE DEF L
      <4>2. i \in 1..L
        BY <2>1, <4>1
      <4> QED
        BY <4>2 DEF L
    <3> QED
      BY <3>2, <3>3, Zenon DEF Byte
  <2> DEFINE c == s[i]
  <2>6. ~(c >= Power(2, r))
    BY <1>3, <2>2, LastByteFits, Zenon DEF r, m
  <2>7. Power(2, r) < Low
    <3>1. 2 \in Nat \ {0, 1} /\ r \in Nat /\ m \in Nat /\ r < m
      BY <1>1, <1>2
    <3>2. Power(2, r) < Power(2, m)
      BY <3>1, PowerGrows
    <3> QED
      BY <3>2 DEF Low, m
  <2>8. Power(2, r) \in Nat /\ Low \in Nat /\ c \in Nat
    <3>1. 2 \in Nat /\ r \in Nat
      BY <1>2
    <3>2. Power(2, r) \in Nat
      BY <3>1, PowerStep
    <3> QED
      BY <2>3, <3>2, ByteBaseType
  <2> HIDE DEF c, i
  <2>9. ~(c < Low)
    BY <2>2, Zenon DEF c
  <2> QED
    BY <2>6, <2>7, <2>8, <2>9
<1> QED
  BY <1>2, <1>3, <1>4, <1>5, <1>1

\* The digits of the value that read_varint returns.
LEMMA VarintDigits ==
  ASSUME NEW s \in Seq(Byte), NEW n \in Nat \ {0}, n \in 1..Len(s), NEW v,
         v = Value(Reverse([i \in 1..n |-> s[i] % Low]), Low)
  PROVE  /\ v \in Nat /\ v < Power(Low, n)
         /\ \A i \in 1..n : /\ s[i] \in 0..(2 * Low - 1)
                            /\ (v \div Power(Low, i - 1)) % Low = s[i] % Low
<1> DEFINE e == [i \in 1..n |-> s[i] % Low]
<1>1. Low \in Nat \ {0} /\ ByteBase = 2 * Low
  BY ByteBaseType
<1>2. \A i \in 1..n : s[i] \in 0..(2 * Low - 1)
  <2>1. Len(s) \in Nat /\ \A k \in 1..Len(s) : s[k] \in Byte
    BY FunctionOfSeq
  <2>2. \A i \in 1..n : i \in 1..Len(s)
    <3> DEFINE L == Len(s)
    <3>1. L \in Nat /\ n \in 1..L
      BY <2>1
    <3> HIDE DEF L
    <3>2. \A i \in 1..n : i \in 1..L
      BY <3>1
    <3> QED
      BY <3>2 DEF L
  <2> QED
    BY <1>1, <2>1, <2>2, Zenon DEF Byte
<1>3. \A i \in 1..n : s[i] % Low \in 0..(Low - 1)
  <2>1. \A x \in 0..(2 * Low - 1) : x \in Nat
    BY <1>1
  <2>2. \A x \in Nat : x % Low \in 0..(Low - 1)
    BY <1>1, DivMod
  <2> QED
    BY <1>2, <2>1, <2>2, Zenon
<1>4. n \in Nat /\ e \in [1..n -> 0..(Low - 1)] /\ \A i \in 1..n : e[i] = s[i] % Low
  BY <1>3
<1> HIDE DEF e
<1>5. e \in Seq(0..(Low - 1)) /\ Len(e) = n
  BY <1>4, SeqOfFunction
<1> DEFINE rev == Reverse(e)
<1>6. rev \in Seq(0..(Low - 1)) /\ Len(rev) = n /\ \A i \in 1..n : rev[i] = e[(n - i) + 1]
  <2>1. /\ Reverse(e) \in Seq(0..(Low - 1)) /\ Len(Reverse(e)) = Len(e)
        /\ \A i \in 1..Len(e) : Reverse(e)[i] = e[(Len(e) - i) + 1]
    BY <1>5, ReverseIsASeq
  <2> QED
    BY <1>5, <2>1, Zenon
<1>7. v = Value(rev, Low)
  BY Zenon DEF e
<1> HIDE DEF rev
<1>8. v \in Nat /\ v < Power(Low, n) /\ Digits(v, Low, n) = rev
  <2>1. /\ Value(rev, Low) \in Nat /\ Value(rev, Low) < Power(Low, Len(rev))
        /\ Digits(Value(rev, Low), Low, Len(rev)) = rev
    BY <1>1, <1>6, DigitsOfValue
  <2> QED
    BY <1>6, <1>7, <2>1, Zenon
<1>9. \A j \in 1..n : Digits(v, Low, n)[j] = (v \div Power(Low, n - j)) % Low
  <2>1. v \in Nat /\ Low \in Nat \ {0} /\ n \in Nat
    BY <1>1, <1>4, <1>8
  <2> QED
    BY <2>1, DigitsType, Zenon
<1>10. ASSUME NEW i \in 1..n
       PROVE  (v \div Power(Low, i - 1)) % Low = s[i] % Low
  <2> DEFINE j == (n + 1) - i
  <2>1. j \in 1..n /\ n - j = i - 1 /\ (n - j) + 1 = i
    OBVIOUS
  <2> HIDE DEF j
  <2>2. rev[j] = e[i]
    BY <1>6, <2>1, Zenon
  <2>3. rev[j] = (v \div Power(Low, i - 1)) % Low
    BY <1>8, <1>9, <2>1, Zenon
  <2> QED
    BY <1>4, <2>2, <2>3, Zenon
<1> QED
  BY <1>2, <1>8, <1>10

\* Nothing is shifted out of the word.
LEMMA VarintsFit ==
  ASSUME NEW s \in Seq(Byte), NEW n \in Nat \ {0}, IsRead(s, n), NEW v,
         v = Value(Reverse([i \in 1..n |-> s[i] % Low]), Low)
  PROVE  v \in Nat /\ v % WordBase = v
<1> DEFINE m == ByteBits - 1
           q == WordBits \div m
           r == WordBits % m
           p == Power(Low, q)
           t == Power(2, r)
<1>1. m \in Nat \ {0} /\ WordBits \in Nat \ {0} /\ 2 \in Nat \ {0, 1}
  BY ByteBitsAssumption, WordBitsAssumption
<1>2. Low = Power(2, m) /\ Low \in Nat \ {0, 1}
  BY ByteBaseType DEF Low, m
<1>3. n \in 1..Len(s) /\ n <= LongestVarint /\ LongestVarint = q + 1
  BY VarintsAreShort, Zenon DEF LongestVarint, IsRead, m, q
<1>4. ~Overflows(s, n)
  BY Zenon DEF IsRead, IsWrong
<1>5. n = LongestVarint => ~(s[n] >= t)
  BY <1>4, LastByteFits, Zenon DEF m, r, t
<1> HIDE DEF m
<1>6. WordBits = m * q + r /\ q \in Nat /\ r \in 0..(m - 1)
  BY <1>1, DivMod
<1> HIDE DEF q, r
<1>7. /\ v \in Nat /\ v < Power(Low, n)
      /\ \A i \in 1..n : /\ s[i] \in 0..(2 * Low - 1)
                         /\ (v \div Power(Low, i - 1)) % Low = s[i] % Low
  BY <1>3, VarintDigits
<1>8. /\ p \in Nat \ {0} /\ t \in Nat \ {0} /\ t < Low
      /\ WordBase = p * t
  <2>1. r \in Nat /\ r < m /\ m \in Nat /\ m * q \in Nat /\ 2 \in Nat \ {0} /\ Low \in Nat \ {0}
    BY <1>1, <1>2, <1>6
  <2>2. p \in Nat \ {0} /\ t \in Nat \ {0} /\ t < Low
    BY <1>1, <1>2, <1>6, <2>1, PowerPositive, PowerGrows
  <2>3. Power(2, m * q) = p
    BY <1>1, <1>2, <1>6, <2>1, PowerOfPower
  <2>4. Power(2, m * q + r) = Power(2, m * q) * Power(2, r)
    BY <2>1, PowerSum
  <2> QED
    BY <1>6, <2>2, <2>3, <2>4, Zenon DEF WordBase
<1> HIDE DEF p, t
<1>9. v < p * t
  <2>1. CASE n <= q
    <3>1. n \in Nat /\ (n = q \/ n < q)
      BY <1>6, <2>1
    <3>2. n < q => Power(Low, n) < Power(Low, q)
      BY <1>2, <1>6, <3>1, PowerGrows
    <3>3. v < p
      <4>1. Power(Low, n) \in Nat
        BY <1>2, PowerStep
      <4> QED
        BY <1>7, <1>8, <3>1, <3>2, <4>1 DEF p
    <3>4. p <= p * t
      <4>1. p * t = p + p * (t - 1) /\ p * (t - 1) \in Nat
        BY <1>8
      <4> DEFINE z == p * (t - 1)
                 w == p * t
      <4>2. z \in Nat /\ w = p + z
        BY <4>1
      <4> HIDE DEF z, w
      <4>3. p <= w
        BY <1>8, <4>2
      <4> QED
        BY <4>3 DEF w
    <3> DEFINE w == p * t
    <3>5. w \in Nat /\ p <= w
      BY <1>8, <3>4
    <3> HIDE DEF w
    <3>6. v < w
      BY <1>7, <1>8, <3>3, <3>5
    <3> QED
      BY <3>6 DEF w
  <2>2. CASE ~(n <= q)
    <3> DEFINE d == v \div p
               e == v % p
               c == s[n]
    <3>1. n = q + 1 /\ n - 1 = q /\ n \in 1..n
      BY <1>3, <1>6, <2>2
    <3>2. v = p * d + e /\ d \in Nat /\ e \in 0..(p - 1)
      BY <1>7, <1>8, DivMod
    <3>3. d % Low = c % Low /\ c \in 0..(2 * Low - 1)
      BY <1>7, <3>1, Zenon DEF p
    <3>4. Power(Low, n) = Low * p
      BY <1>2, <1>6, <3>1, PowerStep DEF p
    <3> HIDE DEF d, e, c
    <3>5. d < Low
      <4> SUFFICES ASSUME ~(d < Low) PROVE FALSE
        OBVIOUS
      <4>1. PICK k \in Nat : d = Low + k
        <5>1. d - Low \in Nat /\ d = Low + (d - Low)
          BY <1>2, <3>2
        <5> QED
          BY <5>1, Zenon
      <4>2. p * d = Low * p + p * k /\ p * k \in Nat /\ Low * p \in Nat
        <5>1. \A a, b \in Nat : p * (a + b) = a * p + p * b /\ p * b \in Nat /\ a * p \in Nat
          BY <1>8
        <5>2. Low \in Nat
          BY <1>2
        <5> QED
          BY <4>1, <5>1, <5>2, Zenon
      <4> DEFINE z == p * k
                 w == Low * p
                 x == p * d
      <4>3. z \in Nat /\ w \in Nat /\ x = w + z /\ v = x + e /\ v < w
        BY <1>7, <3>2, <3>4, <4>2
      <4> HIDE DEF z, w, x
      <4> QED
        BY <1>8, <3>2, <4>3
    <3>6. ~(c >= t)
      BY <1>3, <1>5, <3>1, Zenon DEF c
    <3>7. c \in 0..(Low - 1) /\ d \in 0..(Low - 1)
      BY <1>2, <1>8, <3>2, <3>3, <3>5, <3>6
    <3>8. \A x \in 0..(Low - 1) : x % Low = x
      <4> SUFFICES ASSUME NEW x \in 0..(Low - 1) PROVE x % Low = x
        OBVIOUS
      <4>1. Low \in Nat \ {0} /\ 0 \in Nat /\ Low * 0 + x = x
        BY <1>2
      <4>2. (Low * 0 + x) % Low = x
        BY <4>1, DivModUnique
      <4> QED
        BY <4>1, <4>2, Zenon
    <3>9. d = c
      BY <3>3, <3>7, <3>8, Zenon
    <3>10. t - (d + 1) \in Nat
      BY <1>8, <3>2, <3>6, <3>7, <3>9
    <3>11. p * t = (p * d + p) + p * (t - (d + 1)) /\ p * (t - (d + 1)) \in Nat /\ p * d \in Nat
      BY <1>8, <3>2, <3>10
    <3> DEFINE z == p * (t - (d + 1))
               w == p * t
               x == p * d
    <3>12. z \in Nat /\ x \in Nat /\ w = (x + p) + z /\ v = x + e
      BY <3>2, <3>11
    <3> HIDE DEF z, w, x
    <3>13. v < w
      BY <1>8, <3>2, <3>12
    <3> QED
      BY <3>13 DEF w
  <2> QED
    BY <2>1, <2>2
<1>10. v % WordBase = v
  <2> DEFINE w == WordBase
  <2>1. w \in Nat \ {0} /\ v < w
    <3>1. p * t \in Nat \ {0}
      BY <1>8
    <3> QED
      BY <1>8, <1>9, <3>1, Zenon
  <2> HIDE DEF w
  <2>2. 0 \in Nat /\ v \in 0..(w - 1) /\ w * 0 + v = v
    BY <1>7, <2>1
  <2>3. (w * 0 + v) % w = v
    BY <2>1, <2>2, DivModUnique
  <2> QED
    BY <2>2, <2>3, Zenon DEF w
<1> QED
  BY <1>7, <1>10

\* What read_varint writes is the number that its bytes spell.
LEMMA ReadVarintValue ==
  ASSUME NEW s \in Seq(Byte), ReadVarint(s).read > 0
  PROVE  ReadVarint(s).value
           = Value(Reverse([i \in 1..ReadVarint(s).read |-> s[i] % Low]), Low)
<1>1. PICK n : n = ReadVarint(s).read
  OBVIOUS
<1>2. PICK v : v = Value(Reverse([i \in 1..n |-> s[i] % Low]), Low)
  OBVIOUS
<1>3. IsRead(s, n) /\ ReadVarint(s).value = v % WordBase
  BY <1>1, <1>2, ReadVarintStops, Zenon
<1>4. n \in Nat \ {0}
  <2>1. PICK L \in Nat : L = Len(s)
    BY FunctionOfSeq
  <2>2. n \in 1..L
    BY <1>3, <2>1, Zenon DEF IsRead
  <2> QED
    BY <2>2
<1>5. v % WordBase = v
  BY <1>2, <1>3, <1>4, VarintsFit
<1> QED
  BY <1>1, <1>2, <1>3, <1>5, Zenon

\* varint.h: write_varint writes the bytes again that read_varint has read up
\* to a last byte.
THEOREM VarintsAreCanonical ==
  ASSUME NEW s \in Seq(Byte), NEW n \in Nat \ {0}, IsRead(s, n), s[n] < Low, NEW v,
         v = Value(Reverse([i \in 1..n |-> s[i] % Low]), Low)
  PROVE  WriteVarint(v) = [i \in 1..n |-> s[i]]
<1>1. Low \in Nat \ {0, 1} /\ \A i \in Nat : Power(Low, i) \in Nat \ {0}
  <2>1. Low \in Nat \ {0, 1} /\ Low \in Nat \ {0}
    BY ByteBaseType
  <2> QED
    BY <2>1, PowerPositive
<1>2. /\ v \in Nat /\ v < Power(Low, n)
      /\ \A i \in 1..n : /\ s[i] \in 0..(2 * Low - 1)
                         /\ (v \div Power(Low, i - 1)) % Low = s[i] % Low
  <2>1. n \in 1..Len(s)
    BY Zenon DEF IsRead
  <2> QED
    BY <2>1, VarintDigits
<1>3. n <= LongestVarint /\ n - 1 <= WordBits
  BY VarintsAreShort
<1>4. WordBits \in Nat
  BY WordBitsAssumption
<1>5. \A x \in 0..(Low - 1) : x % Low = x /\ (Low + x) % Low = x
  <2> SUFFICES ASSUME NEW x \in 0..(Low - 1) PROVE x % Low = x /\ (Low + x) % Low = x
    OBVIOUS
  <2>1. Low \in Nat \ {0} /\ 0 \in Nat /\ 1 \in Nat
    BY <1>1
  <2>2. (Low * 0 + x) % Low = x /\ (Low * 1 + x) % Low = x
    BY <2>1, DivModUnique
  <2>3. Low * 0 + x = x /\ Low * 1 + x = Low + x
    BY <1>1
  <2> QED
    BY <2>2, <2>3, Zenon
<1>6. ASSUME NEW i \in 1..n
      PROVE  (s[i] % Low) + (IF i < n THEN Low ELSE 0) = s[i]
  <2> DEFINE c == s[i]
  <2>1. c \in 0..(2 * Low - 1)
    BY <1>2
  <2>2. i < n => ~(c < Low)
    <3>1. i < n => i \in 1..(n - 1) /\ i <= LongestVarint
      <4>1. LongestVarint \in Int
        <5>1. ByteBits - 1 \in Nat \ {0}
          BY ByteBitsAssumption
        <5>2. WordBits \div (ByteBits - 1) \in Nat
          BY <1>4, <5>1, DivMod
        <5> QED
          BY <5>2 DEF LongestVarint
      <4> QED
        BY <1>3, <4>1
    <3> QED
      BY <3>1, Zenon DEF IsRead
  <2>3. i = n => c < Low
    BY Zenon
  <2> HIDE DEF c
  <2>4. CASE i < n
    <3>1. c - Low \in 0..(Low - 1) /\ Low + (c - Low) = c
      BY <1>1, <2>1, <2>2, <2>4
    <3>2. c % Low = c - Low
      BY <1>5, <3>1, Zenon
    <3>3. (c - Low) + Low = c
      BY <1>1, <2>1
    <3> QED
      BY <2>4, <3>2, <3>3, Zenon DEF c
  <2>5. CASE ~(i < n)
    <3>1. c \in 0..(Low - 1) /\ c + 0 = c
      BY <1>1, <2>1, <2>3, <2>5
    <3>2. c % Low = c
      BY <1>5, <3>1, Zenon
    <3> QED
      BY <2>5, <3>1, <3>2, Zenon DEF c
  <2> QED
    BY <2>4, <2>5
<1>7. n > 1 => ~(v < Power(Low, n - 1))
  <2> SUFFICES ASSUME n > 1, v < Power(Low, n - 1) PROVE FALSE
    OBVIOUS
  <2>1. n \in 1..n /\ n - 1 \in Nat
    OBVIOUS
  <2> DEFINE p == Power(Low, n - 1)
  <2>2. p \in Nat \ {0} /\ v < p
    BY <1>1, <2>1
  <2> HIDE DEF p
  <2>3. v \div p = 0
    <3>1. 0 \in Nat /\ v \in 0..(p - 1) /\ p * 0 + v = v
      BY <1>2, <2>2
    <3>2. (p * 0 + v) \div p = 0
      BY <2>2, <3>1, DivModUnique
    <3> QED
      BY <3>1, <3>2, Zenon
  <2>4. 0 \in 0..(Low - 1)
    BY <1>1
  <2>5. s[n] % Low = 0
    BY <1>2, <1>5, <2>1, <2>3, <2>4, Zenon DEF p
  <2>6. s[n] \in 0..(Low - 1)
    <3>1. \A c \in 0..(2 * Low - 1) : c < Low => c \in 0..(Low - 1)
      BY <1>1
    <3>2. s[n] \in 0..(2 * Low - 1)
      BY <1>2, <2>1, Zenon
    <3> QED
      BY <3>1, <3>2, Zenon
  <2>7. s[n] = 0
    BY <1>5, <2>5, <2>6, Zenon
  <2> QED
    BY <2>7, Zenon DEF IsRead, IsWrong, Padded
<1>8. {i \in 1..WordBits : v >= Power(Low, i)} = 1..(n - 1)
  <2>1. ASSUME NEW i \in 1..(n - 1)
        PROVE  i \in 1..WordBits /\ v >= Power(Low, i)
    <3>1. i \in Nat /\ n - 1 \in Nat /\ n > 1 /\ (i = n - 1 \/ i < n - 1) /\ i \in 1..WordBits
      BY <1>3, <1>4
    <3>2. Power(Low, i) = Power(Low, n - 1) \/ Power(Low, i) < Power(Low, n - 1)
      BY <1>1, <3>1, PowerGrows
    <3>3. Power(Low, i) \in Nat /\ Power(Low, n - 1) \in Nat
      BY <1>1, <3>1
    <3> QED
      BY <1>2, <1>7, <3>1, <3>2, <3>3
  <2>2. ASSUME NEW i \in 1..WordBits, v >= Power(Low, i)
        PROVE  i \in 1..(n - 1)
    <3> SUFFICES ASSUME ~(i \in 1..(n - 1)) PROVE FALSE
      OBVIOUS
    <3>1. i \in Nat /\ n \in Nat /\ (i = n \/ n < i)
      BY <1>4
    <3>2. Power(Low, n) = Power(Low, i) \/ Power(Low, n) < Power(Low, i)
      BY <1>1, <3>1, PowerGrows
    <3>3. Power(Low, i) \in Nat /\ Power(Low, n) \in Nat
      BY <1>1, <3>1
    <3> QED
      BY <1>2, <2>2, <3>2, <3>3
  <2> QED
    BY <2>1, <2>2
<1>9. 1 + Cardinality({i \in 1..WordBits : v >= Power(Low, i)}) = n
  <2>1. 1 \in Int /\ n - 1 \in Int
    OBVIOUS
  <2>2. Cardinality(1..(n - 1)) = IF 1 > n - 1 THEN 0 ELSE (n - 1) - 1 + 1
    BY <2>1, FS_Interval
  <2>3. 1 + (IF 1 > n - 1 THEN 0 ELSE (n - 1) - 1 + 1) = n
    OBVIOUS
  <2> QED
    BY <1>8, <2>2, <2>3, Zenon
<1>10. WriteVarint(v) = [i \in 1..n |-> ((v \div Power(Low, i - 1)) % Low)
                                          + (IF i < n THEN Low ELSE 0)]
  BY <1>9, Zenon DEF WriteVarint
<1>11. \A i \in 1..n : ((v \div Power(Low, i - 1)) % Low) + (IF i < n THEN Low ELSE 0) = s[i]
  BY <1>2, <1>6, Zenon
<1> QED
  BY <1>10, <1>11, Zenon

-------------------------------------------------------------------------------
(* Addresses.                                                              *)

\* A string is its two parts together.
LEMMA PartsTogether ==
  ASSUME NEW X, NEW s \in Seq(X), NEW k \in Nat, k <= Len(s)
  PROVE  /\ SubSeq(s, 1, k) \in Seq(X) /\ Len(SubSeq(s, 1, k)) = k
         /\ SubSeq(s, k + 1, Len(s)) \in Seq(X) /\ Len(SubSeq(s, k + 1, Len(s))) = Len(s) - k
         /\ SubSeq(s, 1, k) \o SubSeq(s, k + 1, Len(s)) = s
<1>1. PICK L \in Nat : L = Len(s)
  BY FunctionOfSeq
<1>2. 0 \in Nat /\ 0 <= k /\ 0 + 1 = 1 /\ k - 0 = k /\ k <= L /\ L <= L /\ k \in Nat /\ L \in Nat
  BY <1>1
<1>3. SubSeq(s, 0 + 1, k) \in Seq(X) /\ IsPart(SubSeq(s, 0 + 1, k), s, 0, k)
  <2>1. 0 \in Nat /\ 0 <= k /\ k <= Len(s)
    BY <1>2
  <2> QED
    BY <2>1, PartOf, Zenon
<1>4. SubSeq(s, k + 1, L) \in Seq(X) /\ IsPart(SubSeq(s, k + 1, L), s, k, L)
  <2>1. L <= Len(s)
    BY <1>1, <1>2, Zenon
  <2> QED
    BY <1>2, <2>1, PartOf, Zenon
<1>5. SubSeq(s, 1, k) \o SubSeq(s, k + 1, Len(s)) = SubSeq(s, 1, Len(s))
  <2>1. 1 \in 1..(L + 1) /\ k \in (1 - 1)..L /\ L \in k..L
    BY <1>2
  <2>2. 1 \in 1..(Len(s) + 1) /\ k \in (1 - 1)..Len(s) /\ Len(s) \in k..Len(s)
    BY <1>1, <2>1, Zenon
  <2> QED
    BY <2>2, ConcatAdjacentSubSeq
<1>6. SubSeq(s, 1, Len(s)) = s
  BY SubSeqFull
<1> QED
  BY <1>1, <1>2, <1>3, <1>4, <1>5, <1>6, Zenon DEF IsPart

\* s and t are the parts of all.
AreParts(s, t, all) ==
  /\ Len(all) = Len(s) + Len(t)
  /\ SubSeq(all, 1, Len(s)) = s
  /\ SubSeq(all, Len(s) + 1, Len(s) + Len(t)) = t

\* Two strings together have them as their parts.
LEMMA TogetherParts ==
  ASSUME NEW X, NEW s \in Seq(X), NEW t \in Seq(X), s # <<>>, t # <<>>
  PROVE  s \o t \in Seq(X) /\ AreParts(s, t, s \o t)
<1>1. PICK k \in Nat \ {0}, m \in Nat \ {0} : k = Len(s) /\ m = Len(t)
  BY EmptySeq
<1>2. s \o t \in Seq(X) /\ Len(s \o t) = Len(s) + Len(t)
  BY ConcatProperties
<1>3. 1 \in 1..k /\ k \in 1..k /\ 1 \in 1..m /\ m \in 1..m
  OBVIOUS
<1>4. SubSeq(s \o t, 1, Len(s)) = s
  <2>1. 1 \in 1..Len(s) /\ Len(s) \in 1..Len(s)
    BY <1>1, <1>3, Zenon
  <2>2. SubSeq(s \o t, 1, Len(s)) = SubSeq(s, 1, Len(s))
    BY <2>1, SubSeqOfConcat1
  <2> QED
    BY <2>2, SubSeqFull
<1>5. SubSeq(s \o t, Len(s) + 1, Len(s) + Len(t)) = t
  <2>1. k + 1 \in (k + 1)..(k + m) /\ k + m \in (k + 1)..(k + m)
        /\ (k + 1) - k = 1 /\ (k + m) - k = m
    OBVIOUS
  <2>2. /\ Len(s) + 1 \in (Len(s) + 1)..(Len(s) + Len(t))
        /\ Len(s) + Len(t) \in (Len(s) + 1)..(Len(s) + Len(t))
    BY <1>1, <2>1, Zenon
  <2>3. SubSeq(s \o t, Len(s) + 1, Len(s) + Len(t))
          = SubSeq(t, (Len(s) + 1) - Len(s), (Len(s) + Len(t)) - Len(s))
    BY <2>2, SubSeqOfConcat2
  <2>4. SubSeq(t, (Len(s) + 1) - Len(s), (Len(s) + Len(t)) - Len(s)) = SubSeq(t, 1, Len(t))
    BY <1>1, <2>1, Zenon
  <2> QED
    BY <2>3, <2>4, SubSeqFull
<1> QED
  BY <1>2, <1>4, <1>5, Zenon DEF AreParts

\* The checksum is a string of bytes.
LEMMA ChecksumType ==
  ASSUME NEW s \in Seq(Byte)
  PROVE  Checksum(s) \in Seq(Byte) /\ Len(Checksum(s)) = ChecksumSize
<1> DEFINE p == Power(ByteBase, ChecksumSize)
           step == [i \in 1..Len(s) |-> [h \in Nat |-> (3 * h + s[i] + 1) % p]]
           Results(f) == f = [i \in 0..Len(s) |-> IF i = 0 THEN 5
                                                  ELSE (3 * f[i - 1] + s[i] + 1) % p]
           hash == CHOOSE f : Results(f)
<1>1. PICK L \in Nat : L = Len(s)
  BY FunctionOfSeq
<1>2. ChecksumSize \in Nat /\ ByteBase \in Nat \ {0}
  BY AddressAssumption, ByteBaseType
<1>3. p \in Nat \ {0}
  BY <1>2, PowerPositive
<1>4. \A i \in 1..L : s[i] \in Nat
  <2>1. \A i \in 1..L : s[i] \in Byte
    BY <1>1, FunctionOfSeq
  <2>2. Byte \subseteq Nat
    BY <1>2 DEF Byte
  <2> QED
    BY <2>1, <2>2
<1>5. Checksum(s) = Digits(hash[Len(s)], ByteBase, ChecksumSize)
  BY Zenon DEF Checksum
<1> HIDE DEF p
<1>6. \A i \in 1..L, h \in Nat : (3 * h + s[i] + 1) % p \in Nat
  <2>1. \A x \in Nat : x % p \in Nat
    BY <1>3, DivMod
  <2>2. \A i \in 1..L, h \in Nat : 3 * h + s[i] + 1 \in Nat
    BY <1>4
  <2> QED
    BY <2>1, <2>2, Zenon
<1>7. step \in [1..L -> [Nat -> Nat]]
  BY <1>1, <1>6
<1>8. \A i \in 1..L, h \in Nat : step[i][h] = (3 * h + s[i] + 1) % p
  BY <1>1, Zenon
<1> HIDE DEF step, Results
<1>9. PICK f \in [0..L -> Nat] : IsLoop(f, L, 5, step)
  <2> 5 \in Nat
    OBVIOUS
  <2> QED
    BY <1>7, LoopHasResults
<1>10. \A i \in 0..L : f[i] = IF i = 0 THEN 5 ELSE (3 * f[i - 1] + s[i] + 1) % p
  <2>1. \A i \in 0..L : i = 0 \/ (i \in 1..L /\ i # 0 /\ i - 1 \in 0..L)
    OBVIOUS
  <2>2. f[0] = 5 /\ \A i \in 1..L : f[i] = step[i][f[i - 1]]
    BY <1>9, Zenon DEF IsLoop
  <2>3. \A i \in 0..L : f[i] \in Nat
    BY <1>9
  <2> QED
    BY <1>8, <2>1, <2>2, <2>3, Zenon
<1>11. Results(f)
  <2>1. f = [i \in 0..L |-> f[i]]
    BY <1>9
  <2>2. [i \in 0..L |-> f[i]]
          = [i \in 0..L |-> IF i = 0 THEN 5 ELSE (3 * f[i - 1] + s[i] + 1) % p]
    BY <1>10, Zenon
  <2> QED
    BY <1>1, <2>1, <2>2, Zenon DEF Results
<1>12. Results(hash)
  BY <1>11, Zenon
<1> HIDE DEF hash
<1>13. \A i \in 0..L : hash[i] = IF i = 0 THEN 5 ELSE (3 * hash[i - 1] + s[i] + 1) % p
  BY <1>1, <1>12, Zenon DEF Results
<1>14. f[0] = hash[0] /\ StepAlike(f, hash, L)
  <2>1. 0 \in 0..L /\ \A i \in 1..L : i \in 0..L /\ i # 0
    OBVIOUS
  <2> QED
    BY <1>10, <1>13, <2>1, Zenon DEF StepAlike
<1>15. Agree(f, hash, L)
  BY <1>14, LoopsAgree
<1>16. hash[L] \in Nat
  <2>1. L \in 0..L /\ f[L] \in Nat
    BY <1>9
  <2> QED
    BY <1>15, <2>1, Zenon DEF Agree
<1>17. Checksum(s) = Digits(hash[L], ByteBase, ChecksumSize)
  BY <1>1, <1>5, Zenon
<1>18. PICK v \in Nat : v = hash[L]
  BY <1>16
<1>19. Digits(v, ByteBase, ChecksumSize) \in Seq(0..(ByteBase - 1))
       /\ Len(Digits(v, ByteBase, ChecksumSize)) = ChecksumSize
  BY <1>2, DigitsType
<1> QED
  BY <1>17, <1>18, <1>19, Zenon DEF Byte

\* A string and its encoding are as long as one another's blocks.
LEMMA EncodedLengths ==
  ASSUME NEW enc, NEW data, IsEncoding(enc, data), NEW m \in Nat \ {0}, NEW r \in 1..FullBlock
  PROVE  Len(data) = (m - 1) * FullBlock + r
           <=> Len(enc) = (m - 1) * FullEncoded + EncodedSize(r)
<1>1. FullBlock \in Nat \ {0} /\ FullEncoded \in Nat \ {0}
  BY BlockLengths
<1>2. EncodedSize(r) \in 1..FullEncoded
  BY SizesOfBlocks
<1>3. \A n \in Nat \ {0} : \A u \in 1..n : (m - 1) * n + u # 0
  <2> SUFFICES ASSUME NEW n \in Nat \ {0}, NEW u \in 1..n PROVE (m - 1) * n + u # 0
    OBVIOUS
  <2> DEFINE y == (m - 1) * n
  <2>1. y \in Nat
    OBVIOUS
  <2> HIDE DEF y
  <2>2. y + u # 0
    BY <2>1
  <2> QED
    BY <2>2 DEF y
<1>4. PICK e, d : /\ e \in Seq(Seq(0..AlphabetSize)) /\ d \in Seq(Seq(Byte)) /\ AreSpelled(e, d)
                  /\ IsTogether(enc, e, FullEncoded) /\ IsTogether(data, d, FullBlock)
  BY Zenon DEF IsEncoding
<1>5. Len(e) = Len(d)
  BY <1>4, Zenon DEF AreSpelled
<1>6. CASE d = <<>>
  <2>1. e = <<>>
    <3>1. Len(d) = 0
      BY <1>6
    <3>2. Len(e) = 0
      BY <1>5, <3>1, Zenon
    <3> QED
      BY <1>4, <3>2, EmptySeq
  <2>2. Len(data) = 0 /\ Len(enc) = 0
    BY <1>4, <1>6, <2>1, Zenon DEF IsTogether
  <2> QED
    BY <1>1, <1>2, <1>3, <2>2, Zenon
<1>7. CASE d # <<>>
  <2>1. PICK l \in Nat \ {0} : l = Len(d) /\ l \in 1..Len(d)
    BY <1>4, <1>7, EmptySeq
  <2>2. Spells58(e[l], d[l])
    BY <1>4, <2>1, Zenon DEF AreSpelled
  <2>3. PICK u \in 1..FullBlock : u = Len(d[l]) /\ Len(e[l]) = EncodedSize(u)
    BY <2>2, Zenon DEF Spells58
  <2>4. EncodedSize(u) \in 1..FullEncoded
    BY SizesOfBlocks
  <2>5. Len(data) = (l - 1) * FullBlock + u
    BY <1>4, <1>7, <2>1, <2>3, Zenon DEF IsTogether
  <2>6. Len(enc) = (l - 1) * FullEncoded + EncodedSize(u)
    <3>1. e # <<>>
      <4>1. Len(e) # 0 /\ Len(<<>>) = 0
        BY <1>5, <2>1
      <4> QED
        BY <4>1, Zenon
    <3> QED
      BY <1>4, <1>5, <2>1, <2>3, <3>1, Zenon DEF IsTogether
  <2>7. ASSUME (l - 1) * FullBlock + u = (m - 1) * FullBlock + r
        PROVE  l = m /\ u = r
    BY <1>1, <2>7, OneDivision
  <2>8. ASSUME (l - 1) * FullEncoded + EncodedSize(u) = (m - 1) * FullEncoded + EncodedSize(r)
        PROVE  l = m /\ u = r
    <3>1. l = m /\ EncodedSize(u) = EncodedSize(r)
      BY <1>1, <1>2, <2>4, <2>8, OneDivision
    <3>2. DecodedSizes(EncodedSize(u)) = {u} /\ DecodedSizes(EncodedSize(r)) = {r}
      BY SizesOfBlocks
    <3>3. {u} = {r}
      BY <3>1, <3>2, Zenon
    <3> QED
      BY <3>1, <3>3
  <2> QED
    BY <2>5, <2>6, <2>7, <2>8, Zenon
<1> QED
  BY <1>6, <1>7

\* MoneroConstants.AddressLength: an address has that many characters if and
\* only if it has a prefix, two keys and a checksum as its bytes.
LEMMA AddressLengths ==
  ASSUME NEW enc, NEW data, IsEncoding(enc, data)
  PROVE  Len(data) = 3 + ChecksumSize <=> Len(enc) = AddressLength
<1> DEFINE F == FullBlock
           E == FullEncoded
           size == 3 + ChecksumSize
           q == size \div F
           r == size % F
<1>1. F \in Nat \ {0} /\ E \in Nat \ {0} /\ EncodedSize(0) = 0 /\ E = EncodedSize(F)
  BY BlockLengths, FullBlockIsAWord
<1>2. size \in Nat \ {0} /\ AddressLength = q * E + EncodedSize(r)
  <2>1. ChecksumSize \in Nat \ {0} /\ 1 + 2 + ChecksumSize = size
    BY AddressAssumption
  <2>2. AddressLength = ((1 + 2 + ChecksumSize) \div FullBlock) * FullEncoded
                          + EncodedSizes[((1 + 2 + ChecksumSize) % FullBlock) + 1]
    BY AddressAssumption, Zenon
  <2>3. AddressLength = q * E + EncodedSize(r)
    BY <2>1, <2>2, Zenon DEF EncodedSize
  <2> QED
    BY <2>1, <2>3
<1> HIDE DEF size, F, E
<1>3. size = F * q + r /\ q \in Nat /\ r \in 0..(F - 1)
  BY <1>1, <1>2, DivMod
<1> HIDE DEF q, r
<1>4. \E m \in Nat \ {0} : \E u \in 1..F :
        size = (m - 1) * F + u /\ AddressLength = (m - 1) * E + EncodedSize(u)
  <2>1. CASE r = 0
    <3>1. F * q = q * F /\ q * F + 0 = q * F
      BY <1>1, <1>3
    <3>2. q \in Nat \ {0}
      <4>1. q = 0 => F * q = 0 /\ 0 + 0 = 0
        BY <1>1
      <4> QED
        BY <1>2, <1>3, <2>1, <4>1
    <3>3. q * F = (q - 1) * F + F /\ q * E + 0 = (q - 1) * E + E
      BY <1>1, <3>2
    <3>4. size = (q - 1) * F + F /\ AddressLength = (q - 1) * E + EncodedSize(F)
      BY <1>1, <1>2, <1>3, <2>1, <3>1, <3>3, Zenon
    <3>5. F \in 1..F
      BY <1>1
    <3> QED
      BY <3>2, <3>4, <3>5, Zenon
  <2>2. CASE r # 0
    <3>1. q + 1 \in Nat \ {0} /\ (q + 1) - 1 = q /\ r \in 1..F /\ F * q = q * F
      BY <1>1, <1>3, <2>2
    <3>2. size = ((q + 1) - 1) * F + r /\ AddressLength = ((q + 1) - 1) * E + EncodedSize(r)
      BY <1>2, <1>3, <3>1, Zenon
    <3> QED
      BY <3>1, <3>2, Zenon
  <2> QED
    BY <2>1, <2>2
<1>5. PICK m \in Nat \ {0}, u \in 1..F :
        size = (m - 1) * F + u /\ AddressLength = (m - 1) * E + EncodedSize(u)
  BY <1>4, Zenon
<1>6. Len(data) = (m - 1) * F + u <=> Len(enc) = (m - 1) * E + EncodedSize(u)
  BY EncodedLengths DEF F, E
<1> QED
  BY <1>5, <1>6, Zenon DEF size

\* What read_varint returns is a number.
LEMMA ReadVarintType ==
  ASSUME NEW s \in Seq(Byte)
  PROVE  ReadVarint(s).read \in Int
<1> DEFINE ends == {i \in 1..Len(s) : i <= LongestVarint /\ (s[i] < Low \/ IsWrong(s, i))}
           T == ends \cup {Len(s)}
           n == Min(T)
           v == Value(Reverse([i \in 1..n |-> s[i] % Low]), Low) % WordBase
<1>1. Len(s) \in Nat
  BY FunctionOfSeq
<1>2. n \in Nat
  <2>1. T \subseteq Nat /\ T # {}
    BY <1>1
  <2> HIDE DEF T
  <2>2. n \in T
    BY <2>1, MinIsLeast, Zenon
  <2> QED
    BY <2>1, <2>2
<1>3. ReadVarint(s) = IF n > 0 /\ IsWrong(s, n) THEN [read |-> -1, value |-> 0]
                      ELSE [read |-> n, value |-> v]
  BY Zenon DEF ReadVarint, IsWrong, LongestVarint
<1> HIDE DEF n, v
<1>4. CASE n > 0 /\ IsWrong(s, n)
  <2>1. ReadVarint(s) = [read |-> -1, value |-> 0]
    BY <1>3, <1>4
  <2> QED
    BY <2>1
<1>5. CASE ~(n > 0 /\ IsWrong(s, n))
  <2>1. ReadVarint(s) = [read |-> n, value |-> v]
    BY <1>3, <1>5
  <2> QED
    BY <1>2, <2>1
<1> QED
  BY <1>4, <1>5

\* A tag below 0x80 is one byte, and is read as it is written.
LEMMA TagsAreBytes ==
  ASSUME NEW tag \in Nat, tag < Low, NEW buf \in Seq(Byte), Len(buf) > 0, buf[1] = tag
  PROVE  /\ WriteVarint(tag) = <<tag>>
         /\ ReadVarint(buf).read = 1 /\ ReadVarint(buf).value = tag
<1> DEFINE ends == {i \in 1..Len(buf) : i <= LongestVarint /\ (buf[i] < Low \/ IsWrong(buf, i))}
           T == ends \cup {Len(buf)}
           n == Min(T)
           v == Value(Reverse([i \in 1..n |-> buf[i] % Low]), Low) % WordBase
<1>1. Len(buf) \in Nat \ {0}
  <2>1. Len(buf) \in Nat
    BY FunctionOfSeq
  <2> QED
    BY <2>1
<1>2. Low \in Nat \ {0, 1} /\ tag \in 0..(Low - 1) /\ tag % Low = tag
  <2>1. Low \in Nat \ {0, 1}
    BY ByteBaseType
  <2>2. 0 \in Nat /\ Low \in Nat \ {0} /\ tag \in 0..(Low - 1) /\ Low * 0 + tag = tag
    BY <2>1
  <2>3. (Low * 0 + tag) % Low = tag
    BY <2>2, DivModUnique
  <2> QED
    BY <2>1, <2>2, <2>3, Zenon
<1>3. ByteBits - 1 \in Nat \ {0} /\ WordBits \in Nat \ {0} /\ ByteBits - 1 < WordBits
  <2>1. ByteBits \in Nat \ {0, 1} /\ FullBlock \in Nat \ {0} /\ WordBits = ByteBits * FullBlock
    BY ByteBitsAssumption, SizesAssumption, BlockLengths
  <2>2. ByteBits * FullBlock = ByteBits + ByteBits * (FullBlock - 1)
        /\ ByteBits * (FullBlock - 1) \in Nat
    BY <2>1
  <2> DEFINE y == ByteBits * (FullBlock - 1)
  <2>3. y \in Nat /\ WordBits = ByteBits + y
    BY <2>1, <2>2
  <2> HIDE DEF y
  <2> QED
    BY <2>1, <2>3
<1>4. LongestVarint \in Nat /\ 1 <= LongestVarint
  <2>1. WordBits \div (ByteBits - 1) \in Nat
    BY <1>3, DivMod
  <2> QED
    BY <2>1 DEF LongestVarint
<1>5. ~IsWrong(buf, 1)
  <2>1. (1 - 1) * (ByteBits - 1) = 0 /\ WordBits - 0 = WordBits
    BY <1>3
  <2>2. ~(tag >= Power(2, WordBits))
    <3>1. 2 \in Nat \ {0, 1} /\ ByteBits - 1 \in Nat /\ WordBits \in Nat
      BY <1>3
    <3>2. Low < Power(2, WordBits)
      BY <1>3, <3>1, PowerGrows DEF Low
    <3>3. Power(2, WordBits) \in Nat
      BY <3>1, PowerStep
    <3> QED
      BY <1>2, <3>2, <3>3
  <2>3. ~Overflows(buf, 1)
    BY <2>1, <2>2, Zenon DEF Overflows
  <2>4. ~Padded(buf, 1)
    BY DEF Padded
  <2> QED
    BY <2>3, <2>4, Zenon DEF IsWrong
<1>6. 1 \in T /\ \A k \in T : 1 <= k
  <2>1. 1 \in 1..Len(buf) /\ \A k \in 1..Len(buf) : 1 <= k
    BY <1>1
  <2>2. Len(buf) \in 1..Len(buf)
    BY <1>1
  <2> QED
    BY <1>4, <2>1, <2>2, Zenon
<1>7. n = 1
  <2>1. T \subseteq Nat /\ T # {}
    BY <1>1
  <2> HIDE DEF T
  <2>2. n \in T /\ n <= 1
    BY <1>6, <2>1, MinIsLeast, Zenon
  <2>3. n \in Nat /\ 1 <= n
    BY <1>6, <2>1, <2>2
  <2> QED
    BY <2>2, <2>3
<1>8. ReadVarint(buf) = IF n > 0 /\ IsWrong(buf, n) THEN [read |-> -1, value |-> 0]
                        ELSE [read |-> n, value |-> v]
  BY Zenon DEF ReadVarint, IsWrong, LongestVarint
<1> HIDE DEF n, v, T
<1>9. ReadVarint(buf).read = 1 /\ ReadVarint(buf).value = v
  <2>1. ReadVarint(buf) = [read |-> n, value |-> v]
    BY <1>5, <1>7, <1>8
  <2> QED
    BY <1>7, <2>1
<1>10. v = tag
  <2> DEFINE e == [i \in 1..1 |-> tag]
  <2>1. v = Value(Reverse([i \in 1..n |-> buf[i] % Low]), Low) % WordBase
    BY DEF v
  <2>2. [i \in 1..1 |-> buf[i] % Low] = e
    <3>1. \A i \in 1..1 : i = 1
      OBVIOUS
    <3> QED
      BY <1>2, <3>1, Zenon
  <2>3. v = Value(Reverse(e), Low) % WordBase
    BY <1>7, <2>1, <2>2, Zenon
  <2>4. e \in Seq(Nat) /\ Len(e) = 1
    <3>1. 1 \in Nat /\ e \in [1..1 -> Nat]
      OBVIOUS
    <3> HIDE DEF e
    <3> QED
      BY <3>1, SeqOfFunction
  <2>5. 1 \in 1..1 /\ (1 - 1) + 1 = 1 /\ e[1] = tag
    OBVIOUS
  <2> HIDE DEF e
  <2> DEFINE rev == Reverse(e)
  <2>6. rev \in Seq(Nat) /\ Len(rev) = 1 /\ rev[1] = tag
    <3>1. /\ Reverse(e) \in Seq(Nat) /\ Len(Reverse(e)) = Len(e)
          /\ \A i \in 1..Len(e) : Reverse(e)[i] = e[(Len(e) - i) + 1]
      BY <2>4, ReverseIsASeq
    <3> QED
      BY <2>4, <2>5, <3>1, Zenon
  <2> HIDE DEF rev
  <2>7. Low \in Nat
    BY <1>2
  <2>8. PICK f \in [0..Len(rev) -> Nat] :
          /\ f[0] = 0
          /\ \A i \in 1..Len(rev) : f[i] = f[i - 1] * Low + rev[i]
          /\ Value(rev, Low) = f[Len(rev)]
    BY <2>6, <2>7, ValueIsALoop
  <2>9. f[1] = f[1 - 1] * Low + rev[1] /\ Value(rev, Low) = f[1]
    BY <2>5, <2>6, <2>8, Zenon
  <2>10. 1 - 1 = 0 /\ 0 * Low + tag = tag
    BY <1>2
  <2>11. v = tag % WordBase
    BY <2>3, <2>6, <2>8, <2>9, <2>10, Zenon DEF rev
  <2>12. tag % WordBase = tag
    <3> DEFINE w == WordBase
    <3>1. 2 \in Nat \ {0, 1} /\ ByteBits - 1 \in Nat /\ WordBits \in Nat
      BY <1>3
    <3>2. Low < w /\ w \in Nat
      BY <1>3, <3>1, PowerGrows, PowerStep DEF Low, WordBase
    <3> HIDE DEF w
    <3>3. w \in Nat \ {0} /\ 0 \in Nat /\ tag \in 0..(w - 1) /\ w * 0 + tag = tag
      BY <1>2, <3>2
    <3>4. (w * 0 + tag) % w = tag
      BY <3>3, DivModUnique
    <3> QED
      BY <3>3, <3>4, Zenon DEF w
  <2> QED
    BY <2>11, <2>12, Zenon
<1>11. WriteVarint(tag) = <<tag>>
  <2>1. {i \in 1..WordBits : tag >= Power(Low, i)} = {}
    <3> SUFFICES ASSUME NEW i \in 1..WordBits, tag >= Power(Low, i) PROVE FALSE
      OBVIOUS
    <3>1. 1 \in Nat /\ i \in Nat /\ (i = 1 \/ 1 < i) /\ 0 \in Nat /\ 0 + 1 = 1
      BY <1>3
    <3>2. Low \in Nat /\ Low \in Nat \ {0, 1}
      BY <1>2
    <3>3. Power(Low, 0) = 1 /\ Power(Low, 0 + 1) = Low * Power(Low, 0) /\ Low * 1 = Low
      BY <3>1, <3>2, PowerStep
    <3>4. Power(Low, 1) = Low
      BY <3>1, <3>3, Zenon
    <3>5. Low = Power(Low, i) \/ Low < Power(Low, i)
      <4>1. 1 < i => Power(Low, 1) < Power(Low, i)
        BY <3>1, <3>2, PowerGrows
      <4> QED
        BY <3>1, <3>4, <4>1, Zenon
    <3>6. Power(Low, i) \in Nat
      BY <3>1, <3>2, PowerStep
    <3> QED
      BY <1>2, <3>5, <3>6
  <2>2. 1 + Cardinality({i \in 1..WordBits : tag >= Power(Low, i)}) = 1
    <3>1. Cardinality({}) = 0
      BY FS_EmptySet
    <3>2. 1 + 0 = 1
      OBVIOUS
    <3> QED
      BY <2>1, <3>1, <3>2, Zenon
  <2>3. WriteVarint(tag) = [i \in 1..1 |-> ((tag \div Power(Low, i - 1)) % Low)
                                            + (IF i < 1 THEN Low ELSE 0)]
    BY <2>2, Zenon DEF WriteVarint
  <2>4. \A i \in 1..1 : ((tag \div Power(Low, i - 1)) % Low) + (IF i < 1 THEN Low ELSE 0) = tag
    <3> SUFFICES ASSUME NEW i \in 1..1
                 PROVE  ((tag \div Power(Low, i - 1)) % Low) + (IF i < 1 THEN Low ELSE 0) = tag
      OBVIOUS
    <3>1. i - 1 = 0 /\ ~(i < 1) /\ tag + 0 = tag
      OBVIOUS
    <3>2. Power(Low, 0) = 1
      <4> Low \in Nat /\ 0 \in Nat
        BY <1>2
      <4> QED
        BY PowerStep
    <3>3. tag \div 1 = tag
      OBVIOUS
    <3> QED
      BY <1>2, <3>1, <3>2, <3>3, Zenon
  <2>5. [i \in 1..1 |-> tag] = <<tag>>
    OBVIOUS
  <2>6. [i \in 1..1 |-> ((tag \div Power(Low, i - 1)) % Low) + (IF i < 1 THEN Low ELSE 0)]
          = [i \in 1..1 |-> tag]
    BY <2>4, Zenon
  <2> QED
    BY <2>3, <2>5, <2>6, Zenon
<1> QED
  BY <1>9, <1>10, <1>11

\* decode_address_export: an accepted address of a pool address' length is the
\* encoding of its tag, which is one byte, and its keys.
THEOREM AcceptedAddressesAreEncoded ==
  ASSUME NEW addr \in Seq(0..AlphabetSize), Len(addr) = AddressLength,
         DecodeAddr(addr).ok, IsAccount(DecodeAddr(addr).data)
  PROVE  /\ DecodeAddr(addr).tag \in 0..(Low - 1)
         /\ DecodeAddr(addr).data \in Seq(Byte)
         /\ addr = EncodeAddr(DecodeAddr(addr).tag, DecodeAddr(addr).data)
<1> DEFINE all == Decode(addr).data
           buf == SubSeq(all, 1, Len(all) - ChecksumSize)
           varint == ReadVarint(buf)
           data == SubSeq(buf, varint.read + 1, Len(buf))
           good == [ok |-> TRUE, tag |-> varint.value, data |-> data]
<1>1. /\ Decode(addr).ok /\ SubSeq(all, Len(buf) + 1, Len(all)) = Checksum(buf)
      /\ ~(varint.read <= 0) /\ DecodeAddr(addr) = good
  <2>1. DecodeAddr(addr) =
          IF \/ ~Decode(addr).ok \/ Len(all) <= ChecksumSize
             \/ SubSeq(all, Len(buf) + 1, Len(all)) # Checksum(buf)
             \/ varint.read <= 0
          THEN NoAddress ELSE good
    BY Zenon DEF DecodeAddr
  <2>2. ~NoAddress.ok
    BY DEF NoAddress
  <2> HIDE DEF all, buf, varint, good
  <2> QED
    BY <2>1, <2>2, Zenon
<1>2. IsEncoding(addr, all)
  BY <1>1, DecodeAcceptsEncodings
<1> HIDE DEF all
<1>3. all \in Seq(Byte) /\ Encode(all) = addr
  BY <1>2, Zenon DEF IsEncoding
<1>4. Len(all) = 3 + ChecksumSize
  BY <1>2, AddressLengths
<1>5. ChecksumSize \in Nat /\ 3 \in Nat /\ (3 + ChecksumSize) - ChecksumSize = 3
      /\ 3 <= 3 + ChecksumSize
  BY AddressAssumption
<1>6. Len(all) - ChecksumSize = 3 /\ 3 <= Len(all)
  BY <1>4, <1>5, Zenon
<1>7. buf \in Seq(Byte) /\ Len(buf) = 3 /\ buf \o SubSeq(all, 3 + 1, Len(all)) = all
  <2>1. /\ SubSeq(all, 1, 3) \in Seq(Byte) /\ Len(SubSeq(all, 1, 3)) = 3
        /\ SubSeq(all, 1, 3) \o SubSeq(all, 3 + 1, Len(all)) = all
    BY <1>3, <1>5, <1>6, PartsTogether
  <2> QED
    BY <1>6, <2>1, Zenon
<1> HIDE DEF buf
<1>8. all = buf \o Checksum(buf)
  BY <1>1, <1>7, Zenon
<1>9. DecodeAddr(addr).tag = varint.value /\ DecodeAddr(addr).data = data
  <2> HIDE DEF data, varint
  <2> QED
    BY <1>1
<1>10. Len(data) = 2
  BY <1>9, Zenon DEF IsAccount
<1>11. varint.read \in 1..3
  <2>1. varint.read > 0
    <3>1. varint.read \in Int
      BY <1>7, ReadVarintType
    <3> HIDE DEF varint
    <3> QED
      BY <1>1, <3>1
  <2>2. IsRead(buf, varint.read)
    BY <1>7, <2>1, ReadVarintStops
  <2> QED
    BY <1>7, <2>2, Zenon DEF IsRead
<1>12. varint.read = 1 /\ data \in Seq(Byte)
  <2>1. PICK k \in 1..3 : k = varint.read
    BY <1>11
  <2>2. k \in Nat /\ k <= 3
    OBVIOUS
  <2>3. k <= Len(buf)
    BY <1>7, <2>2, Zenon
  <2>4. SubSeq(buf, k + 1, Len(buf)) \in Seq(Byte) /\ Len(SubSeq(buf, k + 1, Len(buf))) = Len(buf) - k
    BY <1>7, <2>2, <2>3, PartsTogether
  <2>5. 3 - k = 2
    BY <1>7, <1>10, <2>1, <2>4, Zenon
  <2>6. k = 1
    BY <2>2, <2>5
  <2> QED
    BY <2>1, <2>4, <2>6, Zenon
<1>13. buf[1] < Low
  <2>1. varint.read # Len(buf) /\ varint.read > 0
    BY <1>7, <1>12
  <2>2. ReadVarint(buf).read # Len(buf) => buf[ReadVarint(buf).read] < Low
    BY <1>7, <2>1, ReadVarintStops
  <2> QED
    BY <1>12, <2>1, <2>2, Zenon
<1>14. PICK tag \in Nat : tag = buf[1]
  <2>1. 1 \in 1..3
    OBVIOUS
  <2>2. buf[1] \in Byte
    BY <1>7, <2>1, FunctionOfSeq
  <2>3. Byte \subseteq Nat
    BY ByteBaseType DEF Byte
  <2> QED
    BY <2>2, <2>3
<1>15. WriteVarint(tag) = <<tag>> /\ varint.value = tag
  <2>1. Len(buf) > 0 /\ tag < Low /\ buf[1] = tag
    BY <1>7, <1>13, <1>14
  <2> HIDE DEF varint
  <2> QED
    BY <1>7, <2>1, TagsAreBytes DEF varint
<1>16. <<tag>> \o data = buf
  <2>1. 1 \in Nat /\ 1 <= 3 /\ 1 \in 1..3 /\ 1 + 1 = 2
    OBVIOUS
  <2>2. /\ SubSeq(buf, 1, 1) \in Seq(Byte) /\ Len(SubSeq(buf, 1, 1)) = 1
        /\ SubSeq(buf, 1, 1) \o SubSeq(buf, 1 + 1, Len(buf)) = buf
    <3>1. 1 <= Len(buf)
      BY <1>7
    <3> QED
      BY <1>7, <2>1, <3>1, PartsTogether
  <2>3. SubSeq(buf, 1, 1)[1] = tag
    <3>1. PICK at \in Nat : at = 0
      OBVIOUS
    <3>2. at <= 1 /\ at + 1 = 1 /\ 1 \in 1..(1 - at) /\ 1 <= Len(buf)
      BY <1>7, <3>1
    <3>3. IsPart(SubSeq(buf, at + 1, 1), buf, at, 1)
      BY <1>7, <2>1, <3>2, PartOf, Zenon
    <3>4. SubSeq(buf, at + 1, 1)[1] = buf[at + 1]
      BY <3>2, <3>3, Zenon DEF IsPart
    <3> QED
      BY <1>14, <3>2, <3>4, Zenon
  <2>4. SubSeq(buf, 1, 1) = <<tag>>
    <3> DEFINE p == SubSeq(buf, 1, 1)
    <3>1. p \in Seq(Byte) /\ Len(p) = 1 /\ p[1] = tag
      BY <2>2, <2>3
    <3> HIDE DEF p
    <3>2. p = [i \in 1..1 |-> p[i]]
      <4>1. p = [i \in 1..Len(p) |-> p[i]]
        BY <3>1, FunctionOfSeq
      <4> QED
        BY <3>1, <4>1, Zenon
    <3>3. [i \in 1..1 |-> p[i]] = [i \in 1..1 |-> tag]
      <4>1. \A i \in 1..1 : i = 1
        OBVIOUS
      <4> QED
        BY <3>1, <4>1, Zenon
    <3>4. [i \in 1..1 |-> tag] = <<tag>>
      OBVIOUS
    <3> QED
      BY <3>2, <3>3, <3>4, Zenon DEF p
  <2> QED
    BY <1>12, <2>1, <2>2, <2>4, Zenon
<1>17. addr = EncodeAddr(tag, data)
  BY <1>3, <1>8, <1>15, <1>16, Zenon DEF EncodeAddr
<1>18. tag \in 0..(Low - 1)
  <2>1. Low \in Nat
    BY ByteBaseType
  <2>2. tag < Low
    BY <1>13, <1>14, Zenon
  <2> QED
    BY <2>1, <2>2
<1> QED
  BY <1>9, <1>12, <1>15, <1>17, <1>18, Zenon

\* decode_address_export: the pool's own addresses are decoded.
THEOREM PoolAddressesDecode ==
  ASSUME NEW spend \in Byte, NEW view \in Byte, NEW addr,
         addr = EncodeAddr(PoolPrefix, <<spend, view>>)
  PROVE  /\ Len(addr) = AddressLength
         /\ DecodeAddr(addr) = [ok |-> TRUE, tag |-> PoolPrefix, data |-> <<spend, view>>]
<1> DEFINE tag == PoolPrefix
           data == <<spend, view>>
           buf == <<tag>> \o data
           cs == Checksum(buf)
           all == buf \o cs
<1>1. tag \in Nat /\ tag < Low /\ tag \in Byte
  <2>1. Low \in Nat /\ ByteBase = 2 * Low
    BY ByteBaseType
  <2> QED
    BY <2>1, PrefixAssumption DEF Byte
<1>2. /\ <<tag>> \in Seq(Byte) /\ <<tag>> # <<>> /\ Len(<<tag>>) = 1 /\ <<tag>>[1] = tag
      /\ data \in Seq(Byte) /\ data # <<>> /\ Len(data) = 2
  BY <1>1
<1> HIDE DEF tag, data
<1>3. /\ buf \in Seq(Byte) /\ Len(buf) = 3
      /\ SubSeq(buf, 1 + 1, 3) = data
  <2>1. /\ buf \in Seq(Byte) /\ Len(buf) = Len(<<tag>>) + Len(data)
        /\ SubSeq(buf, Len(<<tag>>) + 1, Len(<<tag>>) + Len(data)) = data
    <3>1. buf \in Seq(Byte) /\ AreParts(<<tag>>, data, buf)
      BY <1>2, TogetherParts, Zenon
    <3> HIDE DEF buf
    <3> QED
      BY <3>1, Zenon DEF AreParts
  <2>2. 1 + 2 = 3
    OBVIOUS
  <2> QED
    BY <1>2, <2>1, <2>2, Zenon
<1>4. buf[1] = tag
  <2>1. 1 \in 1..(1 + 2) /\ 1 <= 1
    OBVIOUS
  <2>2. \A i \in 1..(Len(<<tag>>) + Len(data)) :
          buf[i] = IF i <= Len(<<tag>>) THEN <<tag>>[i] ELSE data[i - Len(<<tag>>)]
    BY <1>2, ConcatProperties
  <2> QED
    BY <1>2, <2>1, <2>2, Zenon
<1> HIDE DEF buf
<1>5. cs \in Seq(Byte) /\ Len(cs) = ChecksumSize
  BY <1>3, ChecksumType
<1> HIDE DEF cs
<1>6. ChecksumSize \in Nat \ {0}
  BY AddressAssumption
<1>7. /\ all \in Seq(Byte) /\ Len(all) = 3 + ChecksumSize
      /\ SubSeq(all, 1, 3) = buf /\ SubSeq(all, 3 + 1, Len(all)) = cs
  <2>1. buf # <<>> /\ cs # <<>>
    <3>1. Len(<<>>) = 0 /\ 3 # 0 /\ ChecksumSize # 0
      BY <1>6
    <3> QED
      BY <1>3, <1>5, <3>1, Zenon
  <2>2. /\ all \in Seq(Byte) /\ Len(all) = Len(buf) + Len(cs)
        /\ SubSeq(all, 1, Len(buf)) = buf
        /\ SubSeq(all, Len(buf) + 1, Len(buf) + Len(cs)) = cs
    <3>1. all \in Seq(Byte) /\ AreParts(buf, cs, all)
      BY <1>3, <1>5, <2>1, TogetherParts, Zenon
    <3> HIDE DEF all
    <3> QED
      BY <3>1, Zenon DEF AreParts
  <2> QED
    BY <1>3, <1>5, <2>2, Zenon
<1> HIDE DEF all
<1>8. WriteVarint(tag) = <<tag>> /\ ReadVarint(buf).read = 1 /\ ReadVarint(buf).value = tag
  <2>1. Len(buf) > 0
    BY <1>3
  <2> QED
    BY <1>1, <1>3, <1>4, <2>1, TagsAreBytes
<1>9. addr = Encode(all)
  BY <1>8, Zenon DEF EncodeAddr, all, cs, buf, data, tag
<1>10. IsEncoding(addr, all)
  BY <1>7, <1>9, EncodeMakesEncodings
<1>11. Len(addr) = AddressLength
  BY <1>7, <1>10, AddressLengths
<1>12. Decode(addr).ok /\ Decode(addr).data = all
  <2>1. Decode(addr) = Decoded(all)
    BY <1>10, Zenon DEF IsEncoding
  <2>2. Decoded(all).ok /\ Decoded(all).data = all
    BY DEF Decoded
  <2> QED
    BY <2>1, <2>2, Zenon
<1>13. ~(Len(all) <= ChecksumSize) /\ Len(all) - ChecksumSize = 3
  <2>1. ~(3 + ChecksumSize <= ChecksumSize) /\ (3 + ChecksumSize) - ChecksumSize = 3
    BY <1>6
  <2> QED
    BY <1>7, <2>1, Zenon
<1>14. DecodeAddr(addr) = [ok |-> TRUE, tag |-> tag, data |-> data]
  <2> DEFINE b == SubSeq(all, 1, Len(all) - ChecksumSize)
             varint == ReadVarint(b)
  <2>1. DecodeAddr(addr) =
          IF \/ ~Decode(addr).ok \/ Len(all) <= ChecksumSize
             \/ SubSeq(all, Len(b) + 1, Len(all)) # Checksum(b)
             \/ varint.read <= 0
          THEN NoAddress
          ELSE [ok |-> TRUE, tag |-> varint.value, data |-> SubSeq(b, varint.read + 1, Len(b))]
    BY <1>12, Zenon DEF DecodeAddr
  <2>2. b = buf
    BY <1>7, <1>13, Zenon
  <2> HIDE DEF b, varint
  <2>3. varint.read = 1 /\ varint.value = tag
    BY <1>8, <2>2, Zenon DEF varint
  <2>4. SubSeq(all, Len(b) + 1, Len(all)) = Checksum(b)
    BY <1>3, <1>7, <2>2, Zenon DEF cs
  <2>5. ~(varint.read <= 0)
    BY <2>3
  <2>6. DecodeAddr(addr) =
          [ok |-> TRUE, tag |-> varint.value, data |-> SubSeq(b, varint.read + 1, Len(b))]
    BY <1>12, <1>13, <2>1, <2>4, <2>5, Zenon
  <2>7. SubSeq(b, varint.read + 1, Len(b)) = data
    BY <1>3, <2>2, <2>3, Zenon
  <2> QED
    BY <2>3, <2>6, <2>7, Zenon
<1> QED
  BY <1>11, <1>14, Zenon DEF tag, data

\* The addresses of the pool have two keys.
LEMMA KeysOfPoolAddresses ==
  ASSUME NEW addr
  PROVE  addr \in PoolAddresses <=>
           \E spend \in Byte : \E view \in Byte :
             CheckKey(spend) /\ CheckKey(view) /\ addr = EncodeAddr(PoolPrefix, <<spend, view>>)
<1> DEFINE Keys == {k \in Byte : CheckKey(k)}
<1>1. PoolAddresses = {EncodeAddr(PoolPrefix, <<spend, view>>) : spend \in Keys, view \in Keys}
  BY DEF PoolAddresses
<1>2. \A k : k \in Keys <=> k \in Byte /\ CheckKey(k)
  BY Zenon
<1> HIDE DEF Keys
<1>3. addr \in PoolAddresses <=>
        \E spend \in Keys : \E view \in Keys : addr = EncodeAddr(PoolPrefix, <<spend, view>>)
  BY <1>1
<1> QED
  BY <1>2, <1>3, Zenon

\* decode_address_export: what is cut to PrefixBits is the pool's prefix for
\* the addresses of the pool only, and never too large.
LEMMA PrefixesOfAddresses ==
  ASSUME NEW addr \in Seq(0..AlphabetSize), Len(addr) = AddressLength,
         NEW p, p = DecodeAddress(addr, 0)
  PROVE  /\ p \in 0..(Power(2, PrefixBits) - 1)
         /\ p = PoolPrefix <=> addr \in PoolAddresses
<1> DEFINE r == DecodeAddr(addr)
           b == Power(2, PrefixBits)
<1>1. PoolPrefix \in Nat \ {0} /\ PoolPrefix \in 0..(Low - 1) /\ Low \in Nat
  <2>1. Low \in Nat
    BY ByteBaseType
  <2> QED
    BY <2>1, PrefixAssumption
<1>2. b \in Nat \ {0} /\ Low <= b
  <2>1. 2 \in Nat \ {0, 1} /\ 2 \in Nat \ {0} /\ PrefixBits \in Nat /\ ByteBits - 1 \in Nat
        /\ (PrefixBits = ByteBits - 1 \/ ByteBits - 1 < PrefixBits)
    BY PrefixAssumption, ByteBitsAssumption, WordBitsAssumption
  <2>2. b \in Nat \ {0}
    BY <2>1, PowerPositive
  <2>3. b = Low \/ Low < b
    BY <2>1, PowerGrows DEF Low
  <2> HIDE DEF b
  <2> QED
    BY <1>1, <2>2, <2>3
<1>3. p = 0 * b + (IF r.ok /\ IsAccount(r.data) THEN r.tag % b ELSE 0)
  BY Zenon DEF DecodeAddress
<1> HIDE DEF b
<1>4. CASE r.ok /\ IsAccount(r.data)
  <2>1. r.tag \in 0..(Low - 1) /\ r.data \in Seq(Byte) /\ addr = EncodeAddr(r.tag, r.data)
    BY <1>4, AcceptedAddressesAreEncoded
  <2>2. PICK tag \in 0..(Low - 1) : tag = r.tag
    BY <2>1
  <2>3. p = tag /\ tag \in 0..(b - 1)
    <3>1. 0 \in Nat /\ tag \in 0..(b - 1) /\ b * 0 + tag = tag /\ 0 * b + tag = tag
      BY <1>1, <1>2
    <3>2. (b * 0 + tag) % b = tag
      BY <1>2, <3>1, DivModUnique
    <3>3. p = 0 * b + (tag % b)
      BY <1>3, <1>4, <2>2, Zenon
    <3> QED
      BY <3>1, <3>2, <3>3, Zenon
  <2>4. ASSUME tag = PoolPrefix
        PROVE  addr \in PoolAddresses
    <3> DEFINE data == r.data
    <3>1. /\ data \in Seq(Byte) /\ Len(data) = 2 /\ CheckKey(data[1]) /\ CheckKey(data[2])
          /\ addr = EncodeAddr(PoolPrefix, data)
      BY <1>4, <2>1, <2>2, <2>4, Zenon DEF IsAccount
    <3> HIDE DEF data, r
    <3>2. data[1] \in Byte /\ data[2] \in Byte
      <4>1. 1 \in 1..2 /\ 2 \in 1..2
        OBVIOUS
      <4>2. \A i \in 1..Len(data) : data[i] \in Byte
        BY <3>1, FunctionOfSeq
      <4> QED
        BY <3>1, <4>1, <4>2, Zenon
    <3>3. data = <<data[1], data[2]>>
      <4>1. data = [i \in 1..Len(data) |-> data[i]]
        BY <3>1, FunctionOfSeq
      <4>2. data = [i \in 1..2 |-> data[i]]
        BY <3>1, <4>1, Zenon
      <4>3. PICK x, y : x = data[1] /\ y = data[2]
        OBVIOUS
      <4>4. data = [i \in 1..2 |-> <<x, y>>[i]]
        <5>1. \A i \in 1..2 : (i = 1 \/ i = 2)
          OBVIOUS
        <5>2. <<x, y>>[1] = x /\ <<x, y>>[2] = y
          OBVIOUS
        <5>3. \A i \in 1..2 : data[i] = <<x, y>>[i]
          BY <4>3, <5>1, <5>2, Zenon
        <5> QED
          BY <4>2, <5>3, Zenon
      <4>5. [i \in 1..2 |-> <<x, y>>[i]] = <<x, y>>
        OBVIOUS
      <4> QED
        BY <4>3, <4>4, <4>5, Zenon
    <3>4. addr \in PoolAddresses
      <4>1. addr = EncodeAddr(PoolPrefix, <<data[1], data[2]>>)
        BY <3>1, <3>3, Zenon
      <4> QED
        BY <3>1, <3>2, <4>1, KeysOfPoolAddresses, Zenon
    <3> QED
      BY <3>4
  <2>5. ASSUME addr \in PoolAddresses
        PROVE  tag = PoolPrefix
    <3>1. PICK spend \in Byte, view \in Byte :
            CheckKey(spend) /\ CheckKey(view) /\ addr = EncodeAddr(PoolPrefix, <<spend, view>>)
      BY <2>5, KeysOfPoolAddresses, Zenon
    <3>2. r = [ok |-> TRUE, tag |-> PoolPrefix, data |-> <<spend, view>>]
      BY <3>1, PoolAddressesDecode
    <3>3. r.tag = PoolPrefix
      BY <3>2
    <3> QED
      BY <2>2, <3>3, Zenon
  <2> QED
    BY <2>3, <2>4, <2>5, Zenon DEF b
<1>5. CASE ~(r.ok /\ IsAccount(r.data))
  <2>1. p = 0 /\ 0 \in 0..(b - 1) /\ p # PoolPrefix
    <3>1. p = 0 * b + 0
      BY <1>3, <1>5, Zenon
    <3> QED
      BY <1>1, <1>2, <3>1
  <2>2. ASSUME addr \in PoolAddresses
        PROVE  FALSE
    <3>1. PICK spend \in Byte, view \in Byte :
            CheckKey(spend) /\ CheckKey(view) /\ addr = EncodeAddr(PoolPrefix, <<spend, view>>)
      BY <2>2, KeysOfPoolAddresses, Zenon
    <3>2. r = [ok |-> TRUE, tag |-> PoolPrefix, data |-> <<spend, view>>]
      BY <3>1, PoolAddressesDecode
    <3>3. r.ok /\ r.data = <<spend, view>>
      BY <3>2
    <3>4. Len(<<spend, view>>) = 2 /\ <<spend, view>>[1] = spend /\ <<spend, view>>[2] = view
      OBVIOUS
    <3>5. IsAccount(r.data)
      BY <3>1, <3>3, <3>4, Zenon DEF IsAccount
    <3> QED
      BY <1>5, <3>3, <3>5, Zenon
  <2> QED
    BY <2>1, <2>2, Zenon DEF b
<1> QED
  BY <1>4, <1>5

\* MoneroPool.ValidateAddress: the two variables of 64 bits, each with 32 bits
\* of a prefix, are equal if and only if the address is one of the pool and the
\* halves above it are the same.
THEOREM ValidatesExactlyPoolAddresses ==
  ASSUME NEW addr \in Seq(0..AlphabetSize), NEW own \in UpperHalves, NEW upper \in UpperHalves
  PROVE  ValidateAddress(addr, upper, own * Power(2, PrefixBits) + PoolPrefix)
           <=> addr \in PoolAddresses /\ upper = own
<1> DEFINE b == Power(2, PrefixBits)
<1>1. b \in Nat \ {0} /\ PoolPrefix \in 0..(b - 1) /\ own \in Nat /\ upper \in Nat
  <2>1. 2 \in Nat \ {0, 1} /\ 2 \in Nat \ {0} /\ PrefixBits \in Nat /\ ByteBits - 1 \in Nat
        /\ (PrefixBits = ByteBits - 1 \/ ByteBits - 1 < PrefixBits)
        /\ WordBits - PrefixBits \in Nat
    BY PrefixAssumption, ByteBitsAssumption, WordBitsAssumption
  <2>2. b \in Nat \ {0}
    BY <2>1, PowerPositive
  <2>3. b = Low \/ Low < b
    BY <2>1, PowerGrows DEF Low
  <2>4. Low \in Nat
    BY ByteBaseType
  <2>5. Power(2, WordBits - PrefixBits) \in Nat \ {0}
    BY <2>1, PowerPositive
  <2>6. own \in Nat /\ upper \in Nat
    BY <2>5 DEF UpperHalves
  <2> HIDE DEF b
  <2> QED
    BY <2>2, <2>3, <2>4, <2>6, PrefixAssumption
<1>2. ASSUME addr \in PoolAddresses
      PROVE  Len(addr) = AddressLength
  <2>1. PICK spend \in Byte, view \in Byte : addr = EncodeAddr(PoolPrefix, <<spend, view>>)
    BY <1>2, KeysOfPoolAddresses, Zenon
  <2> QED
    BY <2>1, PoolAddressesDecode
<1>3. CASE Len(addr) = AddressLength
  <2>1. PICK p : p = DecodeAddress(addr, 0)
    OBVIOUS
  <2>2. p \in 0..(b - 1) /\ (p = PoolPrefix <=> addr \in PoolAddresses)
    BY <1>3, <2>1, PrefixesOfAddresses
  <2>3. DecodeAddress(addr, upper) = upper * b + p
    <3> DEFINE low == IF DecodeAddr(addr).ok /\ IsAccount(DecodeAddr(addr).data)
                      THEN DecodeAddr(addr).tag % b ELSE 0
    <3>1. DecodeAddress(addr, upper) = upper * b + low /\ p = 0 * b + low
      BY <2>1, Zenon DEF DecodeAddress
    <3>2. low \in Int
      <4>1. CASE DecodeAddr(addr).ok /\ IsAccount(DecodeAddr(addr).data)
        <5>1. DecodeAddr(addr).tag \in 0..(Low - 1)
          BY <1>3, <4>1, AcceptedAddressesAreEncoded
        <5>2. PICK tag \in 0..(Low - 1) : tag = DecodeAddr(addr).tag
          BY <5>1
        <5>3. tag \in Nat
          BY ByteBaseType
        <5>4. tag % b \in Int
          BY <1>1, <5>3, DivMod
        <5> QED
          BY <4>1, <5>2, <5>4, Zenon
      <4>2. CASE ~(DecodeAddr(addr).ok /\ IsAccount(DecodeAddr(addr).data))
        BY <4>2
      <4> QED
        BY <4>1, <4>2
    <3> HIDE DEF low, b
    <3>3. p = low
      BY <1>1, <3>1, <3>2
    <3> QED
      BY <3>1, <3>3, Zenon
  <2> HIDE DEF b
  <2>4. upper * b + p = own * b + PoolPrefix <=> upper = own /\ p = PoolPrefix
    <3> DEFINE x == b * upper + p
               y == b * own + PoolPrefix
    <3>1. x \div b = upper /\ x % b = p /\ y \div b = own /\ y % b = PoolPrefix
      BY <1>1, <2>2, DivModUnique
    <3>2. upper * b + p = x /\ own * b + PoolPrefix = y
      BY <1>1, <2>2
    <3>3. upper = own /\ p = PoolPrefix => x = y
      BY Zenon
    <3> HIDE DEF x, y
    <3> QED
      BY <3>1, <3>2, <3>3, Zenon
  <2> QED
    BY <1>3, <2>2, <2>3, <2>4, Zenon DEF ValidateAddress, b
<1>4. CASE Len(addr) # AddressLength
  BY <1>2, <1>4, Zenon DEF ValidateAddress
<1> QED
  BY <1>3, <1>4

-------------------------------------------------------------------------------
(* The inputs that the functions are called with.                          *)

IsProbe(p) ==
  /\ p.of = "data" => p.in \in Seq(Byte)
  /\ p.of = "string" => p.in \in Seq(0..AlphabetSize)
  /\ p.of = "hashes" => \E n \in 1..MaxHashes : p.in = [i \in 1..n |-> <<i>>]
  /\ p.of = "diff" => p.in \in Nat
  /\ p.of = "id" => p.in \in 0..MaxId
  /\ p.of = "bytes" => p.in \in Seq(0..255)

ProbeType == IsProbe(probe)

\* Strings are sequences.
LEMMA StringsAreSequences ==
  ASSUME NEW S, NEW n \in Nat, NEW s \in Strings(S, n)
  PROVE  s \in Seq(S)
<1>1. PICK k \in 0..n : s \in [1..k -> S]
  BY DEF Strings
<1>2. k \in Nat
  OBVIOUS
<1> QED
  BY <1>1, <1>2, SeqOfFunction

\* Every function is called with inputs of its type.
LEMMA ProbeTypeHolds == Spec => []ProbeType
<1>1. Init => ProbeType
  BY DEF Init, ProbeType, IsProbe
<1>2. ProbeType /\ [Next]_vars => ProbeType'
  <2> SUFFICES ASSUME ProbeType, [Next]_vars
               PROVE  ProbeType'
    OBVIOUS
  <2>1. CASE UNCHANGED vars
    BY <2>1 DEF vars, ProbeType
  <2>2. ASSUME NEW data \in Strings(Byte, MaxData), Probe("data", data)
        PROVE  ProbeType'
    <3>1. data \in Seq(Byte)
      BY ProbesAssumption, StringsAreSequences
    <3> QED
      BY <2>2, <3>1 DEF Probe, ProbeType, IsProbe
  <2>3. ASSUME NEW s \in Strings(0..AlphabetSize, MaxString), Probe("string", s)
        PROVE  ProbeType'
    <3>1. s \in Seq(0..AlphabetSize)
      BY ProbesAssumption, StringsAreSequences
    <3> QED
      BY <2>3, <3>1 DEF Probe, ProbeType, IsProbe
  <2>4. ASSUME NEW n \in 1..MaxHashes, Probe("hashes", [i \in 1..n |-> <<i>>])
        PROVE  ProbeType'
    BY <2>4 DEF Probe, ProbeType, IsProbe
  <2>5. ASSUME NEW diff \in 0..MaxDiff, Probe("diff", diff)
        PROVE  ProbeType'
    BY <2>5 DEF Probe, ProbeType, IsProbe
  <2>6. ASSUME NEW id \in 0..MaxId, Probe("id", id)
        PROVE  ProbeType'
    BY <2>6 DEF Probe, ProbeType, IsProbe
  <2>7. ASSUME NEW bytes \in Strings(0..255, 1) \cup [1..2 -> HexBytes],
               Probe("bytes", bytes)
        PROVE  ProbeType'
    <3>1. bytes \in Seq(0..255)
      <4>1. CASE bytes \in Strings(0..255, 1)
        <5> 1 \in Nat
          OBVIOUS
        <5> QED
          BY <4>1, StringsAreSequences
      <4>2. CASE bytes \in [1..2 -> HexBytes]
        <5>1. bytes \in [1..2 -> 0..255]
          BY <4>2, ProbesAssumption
        <5> 2 \in Nat
          OBVIOUS
        <5> QED
          BY <5>1, SeqOfFunction
      <4> QED
        BY <4>1, <4>2
    <3> QED
      BY <2>7, <3>1 DEF Probe, ProbeType, IsProbe
  <2> QED
    BY <2>1, <2>2, <2>3, <2>4, <2>5, <2>6, <2>7 DEF Next
<1> QED
  BY <1>1, <1>2, PTL DEF Spec

\* StringExtensions.HexToByteArray and ArrayExtensions.ToHexString: the bytes
\* of every blob survive their hexadecimal text.
THEOREM HexTextAlwaysKeepsItsBytes == Spec => []HexTextKeepsItsBytes
<1>1. ProbeType => HexTextKeepsItsBytes
  BY HexTextRoundTrip DEF ProbeType, IsProbe, HexTextKeepsItsBytes
<1> QED
  BY <1>1, ProbeTypeHolds, PTL

\* CorrelationIdGenerator.GenerateId: ids sort in the order in which they are
\* drawn, for every number of characters that holds the largest id.
THEOREM IdsAlwaysSortInTheirOrder == Spec => []IdsSortInTheirOrder
<1>1. ProbeType => IdsSortInTheirOrder
  <2> SUFFICES ASSUME ProbeType, probe.of = "id", probe.in < MaxId
               PROVE  \E i \in DOMAIN GenerateId(probe.in) :
                        /\ GenerateId(probe.in)[i] < GenerateId(probe.in + 1)[i]
                        /\ \A j \in 1..(i - 1) :
                             GenerateId(probe.in)[j] = GenerateId(probe.in + 1)[j]
    BY DEF IdsSortInTheirOrder
  <2> DEFINE b == Power(2, IdCharBits)
  <2>1. b \in Nat \ {0} /\ IdChars \in Nat
    <3> 2 \in Nat \ {0} /\ IdCharBits \in Nat
      BY IdAssumption
    <3> QED
      BY IdAssumption, PowerPositive
  <2>2. MaxId \in Nat /\ MaxId < Power(b, IdChars) /\ Power(b, IdChars) \in Nat
    BY <2>1, IdsAssumption, PowerStep
  <2>3. PICK v \in 0..MaxId : v = probe.in
    BY DEF ProbeType, IsProbe
  <2> HIDE DEF b
  <2>4. v \in Nat /\ v + 1 \in Nat /\ v < v + 1 /\ v + 1 < Power(b, IdChars)
    BY <2>2, <2>3
  <2>5. PICK i \in 1..IdChars :
          /\ Digits(v, b, IdChars)[i] < Digits(v + 1, b, IdChars)[i]
          /\ \A j \in 1..(i - 1) : Digits(v, b, IdChars)[j] = Digits(v + 1, b, IdChars)[j]
    <3>1. PICK w \in Nat : w = v + 1
      BY <2>4
    <3>2. SortsBefore(Digits(v, b, IdChars), Digits(w, b, IdChars), IdChars)
      <4>1. v < w /\ w < Power(b, IdChars)
        BY <2>4, <3>1
      <4> b \in Nat \ {0} /\ IdChars \in Nat /\ v \in Nat /\ w \in Nat
        BY <2>1, <2>4
      <4> QED
        BY <4>1, DigitsKeepOrder
    <3> QED
      BY <3>1, <3>2, Zenon DEF SortsBefore
  <2>6. DOMAIN Digits(v, b, IdChars) = 1..IdChars
    BY DEF Digits
  <2> QED
    BY <2>3, <2>5, <2>6, Zenon DEF GenerateId, b
<1> QED
  BY <1>1, ProbeTypeHolds, PTL

\* MoneroJob.EncodeTarget: every difficulty is told as the leading bytes of its
\* quotient, or as zero when the quotient is as long as a hash.
THEOREM TargetIsAlwaysTheQuotient == Spec => []TargetIsTheQuotient
<1>1. ProbeType => TargetIsTheQuotient
  <2> SUFFICES ASSUME ProbeType, probe.of = "diff", probe.in > 0
               PROVE  LET q == Quotient(probe.in)
                          told == Value(Reverse(EncodeTarget(probe.in)), ByteBase)
                      IN  IF 2 * q < Power(ByteBase, TargetSize - 1)
                          THEN told = q \div Power(ByteBase, TargetSize - TargetHead)
                          ELSE told = 0
    BY DEF TargetIsTheQuotient
  <2>1. PICK diff \in Nat \ {0} : diff = probe.in
    BY DEF ProbeType, IsProbe
  <2>2. LET q == Quotient(diff)
            told == IF 2 * q < Power(ByteBase, TargetSize - 1)
                    THEN q \div Power(ByteBase, TargetSize - TargetHead) ELSE 0
        IN  Value(Reverse(EncodeTarget(diff)), ByteBase) = told
    BY EncodeTargetTells
  <2> QED
    BY <2>1, <2>2, Zenon
<1> QED
  BY <1>1, ProbeTypeHolds, PTL

\* tree-hash.c: the root in the blob is the root of the CryptoNote tree, for
\* every number of transactions up to the 2^28 that the code takes.
THEOREM RootIsAlwaysTheMerkleTree == Spec => []RootIsTheMerkleTree
<1>1. ProbeType => RootIsTheMerkleTree
  <2> SUFFICES ASSUME ProbeType, probe.of = "hashes"
               PROVE  TreeHash(probe.in) =
                        Merkle(probe.in, Min({d \in 0..29 : Power(2, d) >= Len(probe.in)}))
    BY Zenon DEF RootIsTheMerkleTree
  <2>1. PICK n \in 1..MaxHashes : probe.in = [i \in 1..n |-> <<i>>]
    BY DEF ProbeType, IsProbe
  <2> DEFINE hashes == [i \in 1..n |-> <<i>>]
  <2>2. n \in Nat \ {0} /\ n <= Power(2, 28)
    <3>1. Power(2, 28) \in Nat
      BY PowersOfTwo
    <3> QED
      BY <3>1, HashesAssumption
  <2>3. Len(hashes) = n
    <3>1. n \in Nat /\ \A i \in 1..n : <<i>> \in Seq(Nat)
      BY <2>2
    <3>2. hashes \in [1..n -> Seq(Nat)]
      BY <3>1
    <3> HIDE DEF hashes
    <3> QED
      BY <3>1, <3>2, SeqOfFunction
  <2> HIDE DEF hashes
  <2>4. Len(hashes) \in Nat \ {0} /\ Len(hashes) <= Power(2, 28)
    BY <2>2, <2>3, Zenon
  <2>5. TreeHash(hashes) = Merkle(hashes, Min({d \in 0..29 : Power(2, d) >= Len(hashes)}))
    BY <2>4, TreeHashIsTheMerkleTree, Zenon
  <2> QED
    BY <2>1, <2>5, Zenon DEF hashes
<1> QED
  BY <1>1, ProbeTypeHolds, PTL

\* base58.cpp: decode returns the bytes that encode was given, for every byte
\* string and every table of block sizes as large as its bytes.
THEOREM EncodedDataAlwaysDecodes == Spec => []EncodedDataDecodes
<1>1. ProbeType => EncodedDataDecodes
  <2> SUFFICES ASSUME ProbeType, probe.of = "data"
               PROVE  Decode(Encode(probe.in)) = Decoded(probe.in)
    BY Zenon DEF EncodedDataDecodes
  <2>1. PICK data \in Seq(Byte) : data = probe.in
    BY Zenon DEF ProbeType, IsProbe
  <2>2. IsEncoding(Encode(data), data)
    BY EncodeMakesEncodings
  <2> QED
    BY <2>1, <2>2, Zenon DEF IsEncoding
<1> QED
  BY <1>1, ProbeTypeHolds, PTL

\* base58.cpp: decode accepts nothing but what encode writes, for strings of
\* every length.
THEOREM AcceptedStringsAreAlwaysCanonical == Spec => []AcceptedStringsAreCanonical
<1>1. ProbeType => AcceptedStringsAreCanonical
  <2> SUFFICES ASSUME ProbeType, probe.of = "string", Decode(probe.in).ok
               PROVE  Encode(Decode(probe.in).data) = probe.in
    BY Zenon DEF AcceptedStringsAreCanonical
  <2>1. PICK enc \in Seq(0..AlphabetSize) : enc = probe.in
    BY Zenon DEF ProbeType, IsProbe
  <2>2. Decode(enc).ok
    BY <2>1, Zenon
  <2>3. IsEncoding(enc, Decode(enc).data)
    BY <2>2, DecodeAcceptsEncodings
  <2> QED
    BY <2>1, <2>3, Zenon DEF IsEncoding
<1> QED
  BY <1>1, ProbeTypeHolds, PTL

\* varint.h: a prefix that read_varint reads to its last byte has one
\* spelling, for every width of bytes and words.
THEOREM AcceptedVarintsAreAlwaysCanonical == Spec => []AcceptedVarintsAreCanonical
<1>1. ProbeType => AcceptedVarintsAreCanonical
  <2> DEFINE n == ReadVarint(probe.in).read
             spelling == SubSeq(probe.in, 1, n)
  <2> SUFFICES ASSUME ProbeType, probe.of = "data", n > 0, spelling[n] < Low
               PROVE  WriteVarint(ReadVarint(probe.in).value) = spelling
    BY Zenon DEF AcceptedVarintsAreCanonical
  <2>1. PICK s \in Seq(Byte) : s = probe.in
    BY Zenon DEF ProbeType, IsProbe
  <2>2. ReadVarint(s).read > 0
    BY <2>1, Zenon
  <2>3. /\ IsRead(s, ReadVarint(s).read)
        /\ ReadVarint(s).value = Value(Reverse([i \in 1..ReadVarint(s).read |-> s[i] % Low]), Low)
    BY <2>2, ReadVarintStops, ReadVarintValue
  <2>4. Len(s) \in Nat
    BY FunctionOfSeq
  <2>5. n \in Nat \ {0} /\ n <= Len(s)
    <3>1. n \in 1..Len(s)
      BY <2>1, <2>3, Zenon DEF IsRead
    <3> HIDE DEF n
    <3> QED
      BY <2>4, <3>1
  <2> HIDE DEF n, spelling
  <2>6. spelling \in Seq(Byte) /\ Len(spelling) = n /\ \A i \in 1..n : spelling[i] = s[i]
    <3>1. PICK at \in Nat : at = 0
      OBVIOUS
    <3>2. at <= n /\ at + 1 = 1 /\ n - at = n /\ n \in Nat /\ \A i \in 1..n : at + i = i
      BY <2>5, <3>1
    <3>3. SubSeq(s, at + 1, n) \in Seq(Byte) /\ IsPart(SubSeq(s, at + 1, n), s, at, n)
      BY <2>5, <3>2, PartOf, Zenon
    <3>4. spelling = SubSeq(s, 1, n)
      BY <2>1, Zenon DEF spelling
    <3> QED
      BY <3>2, <3>3, <3>4, Zenon DEF IsPart
  <2>7. spelling = [i \in 1..n |-> s[i]]
    <3>1. spelling = [i \in 1..Len(spelling) |-> spelling[i]]
      BY <2>6, FunctionOfSeq
    <3>2. [i \in 1..n |-> spelling[i]] = [i \in 1..n |-> s[i]]
      BY <2>6, Zenon
    <3> QED
      BY <2>6, <3>1, <3>2, Zenon
  <2>8. s[n] < Low
    <3>1. n \in 1..n
      BY <2>5
    <3> QED
      BY <2>6, <3>1, Zenon
  <2>9. PICK v : v = ReadVarint(s).value
    OBVIOUS
  <2>10. IsRead(s, n) /\ v = Value(Reverse([i \in 1..n |-> s[i] % Low]), Low)
    BY <2>1, <2>3, <2>9, Zenon DEF n
  <2>11. WriteVarint(v) = [i \in 1..n |-> s[i]]
    BY <2>5, <2>8, <2>10, VarintsAreCanonical
  <2> QED
    BY <2>1, <2>7, <2>9, <2>11, Zenon
<1> QED
  BY <1>1, ProbeTypeHolds, PTL

\* MoneroPool.ValidateAddress: whatever the string and whatever is above the
\* two prefixes, the pool accepts it if and only if it is the address of an
\* account in its network and the halves above are the same.
THEOREM AlwaysValidatesPoolAddresses == Spec => []ValidatesPoolAddresses
<1>1. ProbeType => ValidatesPoolAddresses
  <2> SUFFICES ASSUME ProbeType, probe.of = "string"
               PROVE  \A own, upper \in UpperHalves :
                        ValidateAddress(probe.in, upper, own * Power(2, PrefixBits) + PoolPrefix)
                          <=> probe.in \in PoolAddresses /\ upper = own
    BY Zenon DEF ValidatesPoolAddresses
  <2>1. PICK addr \in Seq(0..AlphabetSize) : addr = probe.in
    BY Zenon DEF ProbeType, IsProbe
  <2>2. \A own, upper \in UpperHalves :
          ValidateAddress(addr, upper, own * Power(2, PrefixBits) + PoolPrefix)
            <=> addr \in PoolAddresses /\ upper = own
    BY ValidatesExactlyPoolAddresses
  <2> QED
    BY <2>1, <2>2, Zenon
<1> QED
  BY <1>1, ProbeTypeHolds, PTL
=============================================================================
