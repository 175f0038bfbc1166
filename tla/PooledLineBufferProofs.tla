------------------------ MODULE PooledLineBufferProofs ------------------------
(***************************************************************************)
(* Proofs about PooledLineBuffer, for any limit, any alphabet, any lengths *)
(* of the chunks and of the tails of the rented arrays, and any number of  *)
(* chunks: the types, the ownership of the arrays, the flood limit, and    *)
(* that every step of PooledLineBuffer is a step of LineSplitter.          *)
(***************************************************************************)
EXTENDS PooledLineBuffer, FiniteSetTheorems, SequenceTheorems,
        WellFoundedInduction, TLAPS

Bytes == 0..255

-------------------------------------------------------------------------------
(* Numbers: the least element of a set, and induction along a set.         *)

\* A set of numbers that is not empty has a least element; IndexOf returns it.
LEMMA LeastElement ==
  ASSUME NEW T, T \subseteq Nat, T # {}
  PROVE  \E m \in T : \A k \in T : m <= k
<1> DEFINE R == OpToRel(<, Nat)
<1>1. \E x \in T : \A y \in T : ~ (<<y, x>> \in R)
  <2> IsWellFoundedOn(R, Nat)
    BY NatLessThanWellFounded
  <2> HIDE DEF R
  <2> QED
    BY WFMin
<1>2. \A x, y \in Nat : y < x => <<y, x>> \in R
  BY DEF OpToRel
<1> HIDE DEF R
<1>3. PICK m \in T : \A y \in T : ~ (<<y, m>> \in R)
  BY <1>1
<1>4. ASSUME NEW k \in T PROVE ~(k < m)
  BY <1>2, <1>3
<1>5. ASSUME NEW k \in T PROVE m <= k
  <2> m \in Nat /\ k \in Nat
    OBVIOUS
  <2> QED
    BY <1>4
<1> QED
  BY <1>5

\* A set that has 0 and with each number the next one has all of them; used
\* for the loops over _recvQueue.
LEMMA InductionAlong ==
  ASSUME NEW T, 0 \in T, \A n \in Nat : n \in T => n + 1 \in T
  PROVE  \A n \in Nat : n \in T
<1> SUFFICES ASSUME Nat \ T # {} PROVE FALSE
  OBVIOUS
<1>1. PICK m \in Nat \ T : \A k \in Nat \ T : m <= k
  BY LeastElement
<1>2. m # 0 /\ m - 1 \in Nat
  BY <1>1
<1>3. m - 1 \in T
  BY <1>1, <1>2
<1> QED
  BY <1>1, <1>2, <1>3

\* f holds the intermediate results of a loop that runs step N times.
IsLoop(f, N, base, step) ==
  f[0] = base /\ \A n \in 1..N : f[n] = step[n][f[n - 1]]

\* The loops f and g agree as long as they agreed in the step before.
StepAlike(f, g, N) == \A n \in 1..N : f[n - 1] = g[n - 1] => f[n] = g[n]

Agree(f, g, N) == \A n \in 0..N : f[n] = g[n]

\* The loops over _recvQueue have a sequence of intermediate results.
LEMMA LoopHasResults ==
  ASSUME NEW N \in Nat, NEW V, NEW base \in V, NEW step \in [1..N -> [V -> V]]
  PROVE  \E f \in [0..N -> V] : IsLoop(f, N, base, step)
<1> DEFINE Results(M, f) ==
      f[0] = base /\ \A n \in 1..M : f[n] = step[n][f[n - 1]]
<1> DEFINE T == {M \in Nat : M <= N => \E f \in [0..M -> V] : Results(M, f)}
<1>1. 0 \in T
  <2> DEFINE f == [n \in 0..0 |-> base]
  <2>1. f \in [0..0 -> V] /\ Results(0, f)
    OBVIOUS
  <2> QED
    BY <2>1
<1>2. ASSUME NEW M \in Nat, M \in T PROVE M + 1 \in T
  <2> SUFFICES ASSUME M + 1 <= N
               PROVE  \E g \in [0..M + 1 -> V] : Results(M + 1, g)
    OBVIOUS
  <2>1. PICK f \in [0..M -> V] : Results(M, f)
    BY <1>2
  <2> DEFINE g == [n \in 0..M + 1 |-> IF n <= M THEN f[n] ELSE step[M + 1][f[M]]]
  <2>2. g \in [0..M + 1 -> V]
    OBVIOUS
  <2>3. ASSUME NEW n \in 1..M + 1
        PROVE  g[n] = step[n][g[n - 1]]
    <3>1. CASE n <= M
      BY <3>1, <2>1
    <3>2. CASE n = M + 1
      BY <3>2
    <3> QED
      BY <3>1, <3>2
  <2>4. g[0] = base
    BY <2>1
  <2>5. Results(M + 1, g)
    BY <2>3, <2>4
  <2> QED
    BY <2>2, <2>5
<1> HIDE DEF T
<1>3. \A M \in Nat : M \in T
  BY <1>1, <1>2, InductionAlong
<1> QED
  BY <1>3 DEF T, IsLoop

\* Two loops over _recvQueue that begin alike and step alike agree.
LEMMA LoopsAgree ==
  ASSUME NEW N \in Nat, NEW f, NEW g, f[0] = g[0], StepAlike(f, g, N)
  PROVE  Agree(f, g, N)
<1> DEFINE T == {M \in Nat : M <= N => f[M] = g[M]}
<1>1. 0 \in T
  OBVIOUS
<1>2. ASSUME NEW M \in Nat, M \in T PROVE M + 1 \in T
  BY <1>2 DEF StepAlike
<1> HIDE DEF T
<1>3. \A M \in Nat : M \in T
  BY <1>1, <1>2, InductionAlong
<1> QED
  BY <1>3 DEF T, Agree

-------------------------------------------------------------------------------
(* The sum over the queue and the copying of its segments.                 *)

\* Segments of arrays of bytes that lie within their arrays.
Segments ==
  {s \in [id : Nat, array : Seq(Bytes), offset : Nat, size : Nat \ {0}] :
      s.offset + s.size <= Len(s.array)}

Copied(s) == SubSeq(s.array, 1, s.size)

\* What belongs to a segment, given field by field.
LEMMA SegmentFields ==
  ASSUME NEW s \in Segments
  PROVE  /\ s.id \in Nat /\ s.array \in Seq(Bytes) /\ Len(s.array) \in Nat
         /\ s.offset \in Nat /\ s.size \in Nat \ {0}
         /\ s.offset + s.size <= Len(s.array)
BY DEF Segments

\* What the copying loop takes from a segment.
LEMMA CopiedIsText ==
  ASSUME NEW s \in Segments
  PROVE  Copied(s) \in Seq(Bytes) /\ Len(Copied(s)) = s.size
<1>1. /\ s.array \in Seq(Bytes) /\ s.size \in Nat \ {0} /\ Len(s.array) \in Nat
      /\ s.size <= Len(s.array)
  BY SegmentFields
<1>2. \A i \in 1..s.size : s.array[i] \in Bytes
  BY <1>1
<1>3. /\ SubSeq(s.array, 1, s.size) \in Seq(Bytes)
      /\ Len(SubSeq(s.array, 1, s.size)) = IF 1 <= s.size THEN s.size - 1 + 1 ELSE 0
  BY <1>1, <1>2, SubSeqProperties
<1> QED
  BY <1>1, <1>3 DEF Copied

\* _recvQueue.Sum ends with the total of a loop over the queue.
LEMMA QueuedSizeIsALoop ==
  ASSUME NEW q \in Seq(Segments)
  PROVE  \E f \in [0..Len(q) -> Nat] :
            /\ f[0] = 0
            /\ \A n \in 1..Len(q) : f[n] = f[n - 1] + q[n].size
            /\ QueuedSize(q) = f[Len(q)]
<1>1. PICK N \in Nat : N = Len(q)
  OBVIOUS
<1>2. \A n \in 1..N : q[n].size \in Nat
  BY <1>1 DEF Segments
<1> DEFINE size == [n \in 1..N |-> q[n].size]
<1> DEFINE step == [n \in 1..N |-> [v \in Nat |-> v + size[n]]]
<1> DEFINE Results(f) ==
      f = [n \in 0..N |-> IF n = 0 THEN 0 ELSE f[n - 1] + q[n].size]
<1> DEFINE sum == CHOOSE f : Results(f)
<1>3. size \in [1..N -> Nat]
  BY <1>2
<1> HIDE DEF size
<1>4. step \in [1..N -> [Nat -> Nat]]
  BY <1>3
<1>5. \A n \in 1..N, v \in Nat : step[n][v] = v + size[n]
  BY <1>3
<1> HIDE DEF step
<1>6. PICK f \in [0..N -> Nat] :
        IsLoop(f, N, 0, step)
  <2> 0 \in Nat
    OBVIOUS
  <2> QED
    BY <1>4, LoopHasResults
<1>7. f[0] = 0 /\ \A n \in 1..N : f[n] = f[n - 1] + size[n]
  <2>1. f[0] = 0 /\ \A n \in 1..N : f[n] = step[n][f[n - 1]]
    BY <1>6, Zenon DEF IsLoop
  <2>2. \A n \in 1..N : f[n - 1] \in Nat
    <3>1. \A n \in 1..N : n - 1 \in 0..N
      OBVIOUS
    <3> QED
      BY <3>1, Zenon
  <2> QED
    BY <1>5, <2>1, <2>2, Zenon
<1>8. \A n \in 1..N : size[n] = q[n].size
  BY DEF size
<1>9. Results(f)
  BY <1>7, <1>8
<1>10. Results(sum)
  <2> HIDE DEF Results
  <2> QED
    BY <1>9
<1>11. QueuedSize(q) = sum[N]
  BY <1>1 DEF QueuedSize
<1> HIDE DEF sum
<1>12. sum[0] = 0 /\ \A n \in 1..N : sum[n] = sum[n - 1] + size[n]
  BY <1>8, <1>10
<1> HIDE DEF Results
<1>13. f[0] = sum[0] /\ StepAlike(f, sum, N)
  BY <1>7, <1>12 DEF StepAlike
<1>14. Agree(f, sum, N)
  BY <1>13, LoopsAgree
<1>15. QueuedSize(q) = f[N]
  BY <1>11, <1>14 DEF Agree
<1> QED
  BY <1>1, <1>7, <1>8, <1>15

\* An empty _recvQueue has nothing queued.
LEMMA QueuedSizeOfEmpty == QueuedSize(<<>>) = 0
<1>1. <<>> \in Seq(Segments) /\ Len(<<>>) = 0
  OBVIOUS
<1> QED
  BY <1>1, QueuedSizeIsALoop

\* A segment that is enqueued adds its size.
LEMMA QueuedSizeOfAppend ==
  ASSUME NEW q \in Seq(Segments), NEW s \in Segments
  PROVE  /\ QueuedSize(q) \in Nat
         /\ QueuedSize(Append(q, s)) = QueuedSize(q) + s.size
<1> DEFINE r == Append(q, s)
<1>1. PICK f \in [0..Len(q) -> Nat] :
        /\ f[0] = 0
        /\ \A n \in 1..Len(q) : f[n] = f[n - 1] + q[n].size
        /\ QueuedSize(q) = f[Len(q)]
  BY QueuedSizeIsALoop
<1>2. /\ r \in Seq(Segments) /\ Len(r) = Len(q) + 1 /\ Len(q) \in Nat
      /\ r[Len(q) + 1] = s /\ \A n \in 1..Len(q) : r[n] = q[n]
  OBVIOUS
<1> HIDE DEF r
<1>3. PICK g \in [0..Len(r) -> Nat] :
        /\ g[0] = 0
        /\ \A n \in 1..Len(r) : g[n] = g[n - 1] + r[n].size
        /\ QueuedSize(r) = g[Len(r)]
  BY <1>2, QueuedSizeIsALoop
<1>4. ASSUME NEW n \in 1..Len(q), f[n - 1] = g[n - 1] PROVE f[n] = g[n]
  <2>1. n \in 1..Len(r) /\ r[n] = q[n]
    BY <1>2
  <2> QED
    BY <1>1, <1>3, <1>4, <2>1, Zenon
<1>5. Agree(f, g, Len(q))
  <2>1. f[0] = g[0] /\ Len(q) \in Nat
    BY <1>1, <1>2, <1>3
  <2>2. StepAlike(f, g, Len(q))
    BY <1>4 DEF StepAlike
  <2> QED
    BY <2>1, <2>2, LoopsAgree
<1>6. g[Len(q) + 1] = g[Len(q)] + s.size
  BY <1>2, <1>3
<1> QED
  BY <1>1, <1>2, <1>3, <1>5, <1>6 DEF r, Agree

\* The copying loop of Receive ends with the text of a loop over the queue.
LEMMA AssembledIsALoop ==
  ASSUME NEW q \in Seq(Segments)
  PROVE  \E f \in [0..Len(q) -> Seq(Bytes)] :
            /\ f[0] = <<>>
            /\ \A n \in 1..Len(q) : f[n] = f[n - 1] \o Copied(q[n])
            /\ Assembled(q) = f[Len(q)]
<1>1. PICK N \in Nat : N = Len(q)
  OBVIOUS
<1>2. ASSUME NEW n \in 1..N PROVE Copied(q[n]) \in Seq(Bytes)
  <2>1. q[n] \in Segments
    BY <1>1
  <2> QED
    BY <2>1, CopiedIsText
<1> DEFINE piece == [n \in 1..N |-> Copied(q[n])]
<1> DEFINE step == [n \in 1..N |-> [v \in Seq(Bytes) |-> v \o piece[n]]]
<1> DEFINE Results(f) ==
      f = [n \in 0..N |-> IF n = 0 THEN <<>> ELSE f[n - 1] \o Copied(q[n])]
<1> DEFINE text == CHOOSE f : Results(f)
<1>3. piece \in [1..N -> Seq(Bytes)]
  BY <1>2
<1> HIDE DEF piece
<1>4. step \in [1..N -> [Seq(Bytes) -> Seq(Bytes)]]
  BY <1>3
<1>5. \A n \in 1..N, v \in Seq(Bytes) : step[n][v] = v \o piece[n]
  BY <1>3
<1> HIDE DEF step
<1>6. PICK f \in [0..N -> Seq(Bytes)] :
        IsLoop(f, N, <<>>, step)
  <2> <<>> \in Seq(Bytes)
    OBVIOUS
  <2> QED
    BY <1>4, LoopHasResults
<1>7. f[0] = <<>> /\ \A n \in 1..N : f[n] = f[n - 1] \o piece[n]
  <2> SUFFICES ASSUME NEW n \in 1..N PROVE f[n] = f[n - 1] \o piece[n]
    BY <1>6 DEF IsLoop
  <2>1. f[n - 1] \in Seq(Bytes)
    BY <1>6
  <2> QED
    BY <1>5, <1>6, <2>1, Zenon DEF IsLoop
<1>8. \A n \in 1..N : piece[n] = Copied(q[n])
  BY DEF piece
<1>9. Results(f)
  <2>1. f = [n \in 0..N |-> f[n]]
    OBVIOUS
  <2>2. ASSUME NEW n \in 0..N
        PROVE  f[n] = IF n = 0 THEN <<>> ELSE f[n - 1] \o Copied(q[n])
    <3>1. CASE n = 0
      BY <3>1, <1>7
    <3>2. CASE n # 0
      <4>1. n \in 1..N
        BY <3>2
      <4> QED
        BY <3>2, <4>1, <1>7, <1>8, Zenon
    <3> QED
      BY <3>1, <3>2
  <2> QED
    BY <2>1, <2>2, Zenon
<1>10. Results(text)
  <2> HIDE DEF Results
  <2> QED
    BY <1>9
<1>11. Assembled(q) = text[N]
  BY <1>1 DEF Assembled, Copied
<1> HIDE DEF text
<1>12. text[0] = <<>> /\ \A n \in 1..N : text[n] = text[n - 1] \o piece[n]
  <2>1. ASSUME NEW n \in 0..N
        PROVE  text[n] = IF n = 0 THEN <<>> ELSE text[n - 1] \o Copied(q[n])
    BY <1>10, Zenon
  <2>2. 0 \in 0..N /\ \A n \in 1..N : n \in 0..N /\ n # 0
    OBVIOUS
  <2> QED
    BY <1>8, <2>1, <2>2, Zenon
<1> HIDE DEF Results
<1>13. f[0] = text[0] /\ StepAlike(f, text, N)
  BY <1>7, <1>12 DEF StepAlike
<1>14. Agree(f, text, N)
  BY <1>13, LoopsAgree
<1>15. Assembled(q) = f[N]
  BY <1>11, <1>14 DEF Agree
<1> QED
  BY <1>1, <1>7, <1>8, <1>15

\* An empty _recvQueue contributes nothing to the line.
LEMMA AssembledOfEmpty == Assembled(<<>>) = <<>>
<1>1. <<>> \in Seq(Segments) /\ Len(<<>>) = 0
  OBVIOUS
<1> QED
  BY <1>1, AssembledIsALoop

\* A segment that is enqueued adds its bytes at the end.
LEMMA AssembledOfAppend ==
  ASSUME NEW q \in Seq(Segments), NEW s \in Segments
  PROVE  /\ Assembled(q) \in Seq(Bytes)
         /\ Assembled(Append(q, s)) = Assembled(q) \o Copied(s)
<1> DEFINE r == Append(q, s)
<1>1. PICK f \in [0..Len(q) -> Seq(Bytes)] :
        /\ f[0] = <<>>
        /\ \A n \in 1..Len(q) : f[n] = f[n - 1] \o Copied(q[n])
        /\ Assembled(q) = f[Len(q)]
  BY AssembledIsALoop
<1>2. /\ r \in Seq(Segments) /\ Len(r) = Len(q) + 1 /\ Len(q) \in Nat
      /\ r[Len(q) + 1] = s /\ \A n \in 1..Len(q) : r[n] = q[n]
  OBVIOUS
<1> HIDE DEF r
<1>3. PICK g \in [0..Len(r) -> Seq(Bytes)] :
        /\ g[0] = <<>>
        /\ \A n \in 1..Len(r) : g[n] = g[n - 1] \o Copied(r[n])
        /\ Assembled(r) = g[Len(r)]
  BY <1>2, AssembledIsALoop
<1>4. ASSUME NEW n \in 1..Len(q), f[n - 1] = g[n - 1] PROVE f[n] = g[n]
  <2>1. n \in 1..Len(r) /\ r[n] = q[n]
    BY <1>2
  <2> QED
    BY <1>1, <1>3, <1>4, <2>1, Zenon
<1>5. Agree(f, g, Len(q))
  <2>1. f[0] = g[0] /\ Len(q) \in Nat
    BY <1>1, <1>2, <1>3
  <2>2. StepAlike(f, g, Len(q))
    BY <1>4 DEF StepAlike
  <2> QED
    BY <2>1, <2>2, LoopsAgree
<1>6. g[Len(q) + 1] = g[Len(q)] \o Copied(s)
  <2>1. Len(q) + 1 \in 1..Len(r) /\ (Len(q) + 1) - 1 = Len(q)
    BY <1>2
  <2> QED
    BY <1>2, <1>3, <2>1, Zenon
<1>7. Len(q) \in 0..Len(q) /\ f[Len(q)] \in Seq(Bytes)
  BY <1>2
<1>8. Assembled(r) = Assembled(q) \o Copied(s)
  BY <1>1, <1>2, <1>3, <1>5, <1>6, <1>7, Zenon DEF Agree
<1> QED
  BY <1>1, <1>7, <1>8, Zenon DEF r

-------------------------------------------------------------------------------
(* The search for a newline.                                               *)

\* IndexOf finds the first newline at or after start, or there is none.
LEMMA IndexOfIsFirst ==
  ASSUME NEW arr \in Seq(Bytes), NEW start \in Nat
  PROVE  \/ /\ IndexOf(arr, start) = -1
            /\ \A i \in start..Len(arr) - 1 : arr[i + 1] # NewLine
         \/ /\ IndexOf(arr, start) \in start..Len(arr) - 1
            /\ arr[IndexOf(arr, start) + 1] = NewLine
            /\ \A i \in start..IndexOf(arr, start) - 1 : arr[i + 1] # NewLine
<1> DEFINE found == {i \in start..Len(arr) - 1 : arr[i + 1] = NewLine}
<1> DEFINE first == CHOOSE i \in found : \A j \in found : i <= j
<1>1. Len(arr) \in Nat
  OBVIOUS
<1>2. IndexOf(arr, start) = IF found = {} THEN -1 ELSE first
  BY DEF IndexOf
<1>3. CASE found = {}
  BY <1>1, <1>2, <1>3
<1>4. CASE found # {}
  <2>1. found \subseteq Nat
    BY <1>1
  <2>2. first \in found /\ \A j \in found : first <= j
    <3> HIDE DEF found
    <3>1. \E i \in found : \A j \in found : i <= j
      BY <1>4, <2>1, LeastElement
    <3> QED
      BY <3>1, Zenon
  <2>3. IndexOf(arr, start) = first
    BY <1>2, <1>4
  <2> HIDE DEF first
  <2>4. \A i \in start..first - 1 : arr[i + 1] # NewLine
    BY <1>1, <2>2
  <2>5. first \in start..Len(arr) - 1 /\ arr[first + 1] = NewLine
    BY <2>2
  <2> QED
    BY <2>3, <2>4, <2>5
<1> QED
  BY <1>3, <1>4

\* The first newline of a text is where LineSplitter cuts it.
LEMMA CutAtNewLine ==
  ASSUME NEW s \in Seq(Bytes), NEW n \in 0..Len(s),
         \A i \in 1..n : s[i] # NewLine,
         n = Len(s) \/ s[n + 1] = NewLine
  PROVE  Splitter!UpToNewLine(s) = SubSeq(s, 1, n)
<1> DEFINE Cut(k) == /\ \A i \in 1..k : s[i] # NewLine
                     /\ k = Len(s) \/ s[k + 1] = NewLine
<1> DEFINE cut == CHOOSE k \in 0..Len(s) : Cut(k)
<1>1. Splitter!UpToNewLine(s) = SubSeq(s, 1, cut)
  BY DEF Splitter!UpToNewLine
<1>2. n \in 0..Len(s) /\ Cut(n)
  OBVIOUS
<1>3. cut \in 0..Len(s) /\ Cut(cut)
  <2> HIDE DEF Cut
  <2> QED
    BY <1>2, Zenon
<1> HIDE DEF cut
<1>4. cut = n
  <2> Len(s) \in Nat
    OBVIOUS
  <2>1. ~ (cut < n)
    <3> SUFFICES ASSUME cut < n PROVE FALSE
      OBVIOUS
    <3>1. cut + 1 \in 1..n /\ cut # Len(s)
      BY <1>3
    <3> QED
      BY <1>2, <1>3, <3>1
  <2>2. ~ (n < cut)
    <3> SUFFICES ASSUME n < cut PROVE FALSE
      OBVIOUS
    <3>1. n + 1 \in 1..cut /\ n # Len(s)
      BY <1>3
    <3> QED
      BY <1>2, <1>3, <3>1
  <2> QED
    BY <1>3, <2>1, <2>2
<1> QED
  BY <1>1, <1>4

-------------------------------------------------------------------------------
(* Counting the owners of an array.                                        *)

Places(s, id) == {i \in 1..Len(s) : s[i] = id}

\* How often the number of an array occurs in a list of numbers.
Count(s, id) == Cardinality(Places(s, id))

\* The lists of arrays are finite, and so are the places of a number in them.
LEMMA CountIsNat ==
  ASSUME NEW s \in Seq(Nat), NEW id
  PROVE  IsFiniteSet(Places(s, id)) /\ Count(s, id) \in Nat
<1>1. IsFiniteSet(1..Len(s))
  BY FS_Interval
<1>2. Places(s, id) \in SUBSET (1..Len(s))
  BY DEF Places
<1>3. IsFiniteSet(Places(s, id))
  BY <1>1, <1>2, FS_Subset
<1> QED
  BY <1>3, FS_CardinalityType DEF Count

\* An array nobody lists has no owner.
LEMMA CountOfAbsent ==
  ASSUME NEW s, NEW id, \A i \in 1..Len(s) : s[i] # id
  PROVE  Count(s, id) = 0
<1>1. Places(s, id) = {}
  BY DEF Places
<1> QED
  BY <1>1, FS_EmptySet DEF Count

\* Adding an array to a list gives it one more owner and changes no other.
LEMMA CountOfAppend ==
  ASSUME NEW s \in Seq(Nat), NEW e \in Nat, NEW id
  PROVE  Count(Append(s, e), id) = Count(s, id) + (IF e = id THEN 1 ELSE 0)
<1> DEFINE P == Places(s, id)
<1>1. IsFiniteSet(P) /\ Cardinality(P) \in Nat
  BY CountIsNat DEF Count
<1>2. Len(s) + 1 \notin P
  BY DEF Places
<1>3. CASE e = id
  <2>1. Places(Append(s, e), id) = P \cup {Len(s) + 1}
    BY <1>3 DEF Places
  <2> HIDE DEF P
  <2>2. Cardinality(P \cup {Len(s) + 1}) = Cardinality(P) + 1
    BY <1>1, <1>2, FS_AddElement
  <2> QED
    BY <1>3, <2>1, <2>2 DEF Count, P
<1>4. CASE e # id
  <2>1. Places(Append(s, e), id) = P
    BY <1>4 DEF Places
  <2> QED
    BY <1>1, <1>4, <2>1 DEF Count
<1> QED
  BY <1>3, <1>4

\* Moving the whole queue to another list moves every owner.
LEMMA CountOfConcat ==
  ASSUME NEW s \in Seq(Nat), NEW t \in Seq(Nat), NEW id
  PROVE  Count(s \o t, id) = Count(s, id) + Count(t, id)
<1> DEFINE P == Places(s, id)
<1> DEFINE Q == Places(t, id)
<1> DEFINE R == {i \in Len(s) + 1..Len(s) + Len(t) : t[i - Len(s)] = id}
<1> DEFINE shift == [i \in Q |-> i + Len(s)]
<1>1. /\ IsFiniteSet(P) /\ Cardinality(P) = Count(s, id) /\ Count(s, id) \in Nat
      /\ IsFiniteSet(Q) /\ Cardinality(Q) = Count(t, id) /\ Count(t, id) \in Nat
  BY CountIsNat DEF Count
<1>2. shift \in Bijection(Q, R)
  <2>1. shift \in [Q -> R]
    BY DEF Places
  <2>2. \A i, j \in Q : shift[i] = shift[j] => i = j
    BY DEF Places
  <2>3. ASSUME NEW k \in R PROVE \E i \in Q : shift[i] = k
    <3>1. k - Len(s) \in Q /\ shift[k - Len(s)] = k
      BY DEF Places
    <3> QED
      BY <3>1
  <2> HIDE DEF shift, Q, R
  <2> QED
    BY <2>1, <2>2, <2>3 DEF Bijection, Injection, Surjection, IsInjective
<1>3. IsFiniteSet(R) /\ Cardinality(R) = Cardinality(Q)
  <2> HIDE DEF shift, Q, R
  <2>1. ExistsBijection(Q, R)
    BY <1>2 DEF ExistsBijection
  <2> QED
    BY <1>1, <2>1, FS_Bijection
<1>4. P \cap R = {}
  BY DEF Places
<1>5. Places(s \o t, id) = P \cup R
  BY DEF Places
<1> HIDE DEF P, Q, R
<1>6. Cardinality(P \cup R)
        = Cardinality(P) + Cardinality(R) - Cardinality(P \cap R)
  BY <1>1, <1>3, FS_Union
<1>7. Cardinality(P \cap R) = 0
  BY <1>4, FS_EmptySet
<1> QED
  BY <1>1, <1>3, <1>5, <1>6, <1>7 DEF Count

\* The numbers of the queued arrays, after one more segment.
LEMMA IdsOfAppend ==
  ASSUME NEW q \in Seq(Segments), NEW s \in Segments
  PROVE  Ids(q) \in Seq(Nat) /\ Ids(Append(q, s)) = Append(Ids(q), s.id)
<1>1. /\ Len(q) \in Nat /\ \A i \in 1..Len(q) : q[i].id \in Nat
      /\ s.id \in Nat
  BY SegmentFields
<1>2. Ids(q) \in Seq(Nat) /\ Len(Ids(q)) = Len(q)
  BY <1>1 DEF Ids
<1>3. Len(Append(q, s)) = Len(q) + 1
  OBVIOUS
<1>4. ASSUME NEW i \in 1..Len(q) + 1
      PROVE  Append(q, s)[i].id = Append(Ids(q), s.id)[i]
  <2>1. CASE i = Len(q) + 1
    BY <1>1, <1>2, <2>1
  <2>2. CASE i # Len(q) + 1
    <3>0. i \in 1..Len(q)
      BY <1>1, <2>2
    <3>1. Append(q, s)[i] = q[i]
      BY <3>0
    <3>2. Append(Ids(q), s.id)[i] = Ids(q)[i]
      BY <1>1, <1>2, <3>0
    <3> QED
      BY <3>0, <3>1, <3>2 DEF Ids
  <2> QED
    BY <2>1, <2>2
<1>5. Append(Ids(q), s.id) \in Seq(Nat) /\ Len(Append(Ids(q), s.id)) = Len(q) + 1
  BY <1>1, <1>2
<1>6. Append(Ids(q), s.id) = [i \in 1..Len(q) + 1 |-> Append(Ids(q), s.id)[i]]
  BY <1>5
<1> QED
  BY <1>2, <1>3, <1>4, <1>6 DEF Ids

\* Counting the segments of an array is counting its number among the ids.
LEMMA CountOfIds ==
  ASSUME NEW q \in Seq(Segments), NEW id
  PROVE  Cardinality({i \in 1..Len(q) : q[i].id = id}) = Count(Ids(q), id)
<1>1. Len(q) \in Nat /\ \A i \in 1..Len(q) : Ids(q)[i] = q[i].id
  BY LenProperties DEF Ids
<1>2. Len(Ids(q)) = Len(q)
  BY <1>1 DEF Ids
<1>3. {i \in 1..Len(q) : q[i].id = id} = Places(Ids(q), id)
  BY <1>1, <1>2 DEF Places
<1> QED
  BY <1>3 DEF Count

-------------------------------------------------------------------------------
(***************************************************************************)
(* The inductive invariant.                                                *)
(***************************************************************************)

\* buf holds the received bytes and zeros behind them; of the received bytes
\* those before prevIndex have been given away.
BufferIsCleared ==
  /\ buf \in Seq(Bytes)
  /\ bufferSize \in 0..Len(buf) /\ bufferSize <= MaxLength
  /\ \A i \in bufferSize + 1..Len(buf) : buf[i] = 0
  /\ prevIndex \in 0..bufferSize
  /\ remaining = bufferSize - prevIndex
  /\ IF buf = <<>> THEN bufId = 0 ELSE bufId \in 1..rents

\* What is queued, given away or returned was rented.
SegmentsAreRented ==
  /\ recvQueue \in Seq(Segments) /\ lines \in Seq(Segments)
  /\ \A i \in 1..Len(recvQueue) : recvQueue[i].id \in 1..rents
  /\ \A i \in 1..Len(lines) : lines[i].id \in 1..rents
  /\ returned \in Seq(1..rents)

Counters ==
  /\ disposed \in BOOLEAN
  /\ reports \in Nat /\ rents \in Nat /\ chunks \in 0..MaxChunks

Shape == Counters /\ BufferIsCleared /\ SegmentsAreRented

\* The copying of the queue fills the line exactly.
AssembledHasItsSize == Len(Assembled(recvQueue)) = QueuedSize(recvQueue)

IInv == Shape /\ AssembledHasItsSize /\ EveryArrayHasOneOwner /\ FloodsAreReported

\* Chunks are bytes, and what Array.Clear leaves of a tail are zeros.
LEMMA ReceivedBytes ==
  /\ NewLine \in Bytes \ {0}
  /\ \A chunk \in Chunks : chunk \in Seq(Bytes) /\ Len(chunk) \in Nat \ {0}
  /\ \A tail \in LeftOvers : /\ Cleared(tail) \in Seq(Bytes)
                             /\ \A i \in 1..Len(Cleared(tail)) : Cleared(tail)[i] = 0
<1>1. NewLine \in Bytes \ {0} /\ Payload \cup {NewLine} \subseteq Bytes
  BY PayloadAssumption DEF NewLine, Bytes
<1>2. ASSUME NEW chunk \in Chunks
      PROVE  chunk \in Seq(Bytes) /\ Len(chunk) \in Nat \ {0}
  <2>1. PICK n \in 1..MaxChunk : chunk \in [1..n -> Payload \cup {NewLine}]
    BY DEF Chunks, Strings
  <2>2. n \in Nat \ {0} /\ chunk \in [1..n -> Bytes]
    BY <1>1, <2>1, BoundsAssumption
  <2> QED
    BY <2>2
<1>3. ASSUME NEW tail \in LeftOvers
      PROVE  /\ Cleared(tail) \in Seq(Bytes)
             /\ \A i \in 1..Len(Cleared(tail)) : Cleared(tail)[i] = 0
  <2>1. PICK n \in 0..MaxTail : tail \in [1..n -> Payload \cup {NewLine}]
    BY DEF LeftOvers, Strings
  <2>2. n \in Nat /\ Len(tail) = n
    BY <1>1, <2>1, BoundsAssumption
  <2>3. 0 \in Bytes /\ Cleared(tail) = [i \in 1..n |-> 0]
    BY <2>2 DEF Cleared, Bytes
  <2>4. Cleared(tail) \in Seq(Bytes) /\ Len(Cleared(tail)) = n
    BY <2>2, <2>3
  <2> QED
    BY <2>3, <2>4
<1> QED
  BY <1>1, <1>2, <1>3

\* The newline Receive finds is among the received bytes that are left.
LEMMA FoundAmongReceived ==
  ASSUME Shape, Index # -1
  PROVE  /\ Index \in prevIndex..bufferSize - 1
         /\ buf[Index + 1] = NewLine
         /\ \A i \in prevIndex..Index - 1 : buf[i + 1] # NewLine
<1>1. /\ buf \in Seq(Bytes) /\ Len(buf) \in Nat /\ prevIndex \in Nat
      /\ bufferSize \in Nat /\ \A i \in bufferSize + 1..Len(buf) : buf[i] = 0
  BY DEF Shape, BufferIsCleared
<1>2. /\ Index \in prevIndex..Len(buf) - 1
      /\ buf[Index + 1] = NewLine
      /\ \A i \in prevIndex..Index - 1 : buf[i + 1] # NewLine
  BY <1>1, IndexOfIsFirst DEF Index
<1>3. ~ (Index + 1 \in bufferSize + 1..Len(buf))
  BY <1>1, <1>2, ReceivedBytes
<1> QED
  BY <1>1, <1>2, <1>3

\* Without a newline the rest of the array has none.
LEMMA NoneAmongReceived ==
  ASSUME Shape, Index = -1
  PROVE  \A i \in prevIndex..bufferSize - 1 : buf[i + 1] # NewLine
<1>1. /\ buf \in Seq(Bytes) /\ Len(buf) \in Nat /\ prevIndex \in Nat
      /\ bufferSize \in 0..Len(buf)
  BY DEF Shape, BufferIsCleared
<1>2. \A i \in prevIndex..Len(buf) - 1 : buf[i + 1] # NewLine
  BY <1>1, IndexOfIsFirst DEF Index
<1> QED
  BY <1>1, <1>2

\* A part of buf that was received is a text of its own length.
LEMMA PartOfBuf ==
  ASSUME Shape, NEW m \in Nat, NEW n \in Nat, m <= n, n <= bufferSize
  PROVE  /\ SubSeq(buf, m + 1, n) \in Seq(Bytes)
         /\ Len(SubSeq(buf, m + 1, n)) = n - m
         /\ \A i \in 1..n - m : SubSeq(buf, m + 1, n)[i] = buf[m + i]
<1>1. buf \in Seq(Bytes) /\ Len(buf) \in Nat /\ bufferSize \in 0..Len(buf)
  BY DEF Shape, BufferIsCleared
<1>2. \A i \in m + 1..n : buf[i] \in Bytes
  BY <1>1
<1>3. /\ SubSeq(buf, m + 1, n) \in Seq(Bytes)
      /\ Len(SubSeq(buf, m + 1, n)) = IF m + 1 <= n THEN n - (m + 1) + 1 ELSE 0
      /\ \A i \in 1..n - (m + 1) + 1 :
           SubSeq(buf, m + 1, n)[i] = buf[(m + 1) + i - 1]
  BY <1>2, SubSeqProperties
<1> QED
  BY <1>3

\* What is copied from the queue into a line.
LEMMA AssembledIsText ==
  ASSUME Shape
  PROVE  Assembled(recvQueue) \in Seq(Bytes) /\ QueuedSize(recvQueue) \in Nat
<1>1. recvQueue \in Seq(Segments)
  BY DEF Shape, SegmentsAreRented
<1>2. Len(recvQueue) \in 0..Len(recvQueue)
  BY <1>1
<1>3. Assembled(recvQueue) \in Seq(Bytes)
  <2>1. PICK f \in [0..Len(recvQueue) -> Seq(Bytes)] :
               Assembled(recvQueue) = f[Len(recvQueue)]
    BY <1>1, AssembledIsALoop
  <2> QED
    BY <1>2, <2>1
<1>4. QueuedSize(recvQueue) \in Nat
  BY <1>1, <1>2, QueuedSizeIsALoop
<1> QED
  BY <1>3, <1>4

\* Segment fills the fields of a PooledArraySegment.
LEMMA SegmentIsOne ==
  ASSUME NEW id \in Nat, NEW array \in Seq(Bytes), NEW offset \in Nat,
         NEW size \in Nat \ {0}, offset + size <= Len(array)
  PROVE  /\ Segment(id, array, offset, size) \in Segments
         /\ Segment(id, array, offset, size).id = id
         /\ Segment(id, array, offset, size).size = size
BY DEF Segment, Segments

\* The finally block: buf comes last in the list of returned arrays, if at all.
LEMMA FinallyReturns ==
  ASSUME NEW S, NEW ids \in Seq(S), NEW id \in S
  PROVE  /\ (ids \o <<>>) \o <<>> = ids
         /\ (ids \o <<>>) \o <<id>> = Append(ids, id)
         /\ Append(ids, id) \in Seq(S)
<1>1. ids \o <<>> = ids
  BY ConcatEmptySeq
<1>2. ids \o <<id>> = Append(ids, id)
  BY AppendIsConcat
<1> QED
  BY <1>1, <1>2

\* Lists of rented arrays stay lists of rented arrays when one is appended or
\* another list is, and when more arrays are rented.
LEMMA RentedLists ==
  ASSUME NEW r \in Nat, NEW q \in Nat, q \in {r, r + 1}
  PROVE  /\ \A ids \in Seq(1..r) : ids \in Seq(1..q) /\ ids \in Seq(Nat)
         /\ \A ids \in Seq(1..r), id \in 1..q : Append(ids, id) \in Seq(1..q)
         /\ \A ids, more \in Seq(1..r) : ids \o more \in Seq(1..q)
<1>1. 1..r \subseteq 1..q /\ 1..r \subseteq Nat
  OBVIOUS
<1>2. \A ids \in Seq(1..r) : ids \in Seq(1..q) /\ ids \in Seq(Nat)
  BY <1>1, SeqMonotonic
<1> QED
  BY <1>2

\* Segments of rented arrays, after one more.
LEMMA RentedSegments ==
  ASSUME NEW r \in Nat, NEW q \in Nat, q \in {r, r + 1},
         NEW list \in Seq(Segments), \A i \in 1..Len(list) : list[i].id \in 1..r,
         NEW s \in Segments, s.id \in 1..q
  PROVE  /\ \A i \in 1..Len(list) : list[i].id \in 1..q
         /\ Append(list, s) \in Seq(Segments)
         /\ \A i \in 1..Len(Append(list, s)) : Append(list, s)[i].id \in 1..q
<1>1. Append(list, s) \in Seq(Segments) /\ Len(Append(list, s)) = Len(list) + 1
  OBVIOUS
<1>2. \A i \in 1..Len(list) : list[i].id \in 1..q
  OBVIOUS
<1>3. ASSUME NEW i \in 1..Len(list) + 1 PROVE Append(list, s)[i].id \in 1..q
  <2>1. CASE i = Len(list) + 1
    BY <2>1
  <2>2. CASE i # Len(list) + 1
    <3>1. i \in 1..Len(list)
      BY <2>2
    <3>2. Append(list, s)[i] = list[i]
      BY <3>1
    <3> QED
      BY <1>2, <3>1, <3>2
  <2> QED
    BY <2>1, <2>2
<1> QED
  BY <1>1, <1>2, <1>3

\* The numbers of the queued arrays, a list of rented arrays.
LEMMA IdsAreRented ==
  ASSUME NEW r \in Nat, NEW q \in Seq(Segments),
         \A i \in 1..Len(q) : q[i].id \in 1..r
  PROVE  Ids(q) \in Seq(1..r) /\ Len(Ids(q)) = Len(q)
BY DEF Ids

\* A call of Receive that has returned leaves no buffer behind.
LEMMA EndReceiveClears ==
  ASSUME buf' = <<>>, bufferSize' = 0, bufId' = 0, prevIndex' = 0, remaining' = 0
  PROVE  BufferIsCleared'
BY MaxLengthAssumption DEF BufferIsCleared

\* The lines and the queue start empty.
LEMMA ShapeInit == Init => Shape
<1> SUFFICES ASSUME Init PROVE Shape
  OBVIOUS
<1>1. Counters
  <2>1. disposed \in BOOLEAN
    BY DEF Init
  <2>2. reports \in Nat /\ rents \in Nat /\ chunks \in 0..MaxChunks
    BY BoundsAssumption DEF Init
  <2> QED
    BY <2>1, <2>2 DEF Counters
<1>2. BufferIsCleared
  BY MaxLengthAssumption DEF Init, BufferIsCleared
<1>3. SegmentsAreRented
  <2>1. <<>> \in Seq(Segments) /\ <<>> \in Seq(1..rents) /\ 1..Len(<<>>) = {}
    OBVIOUS
  <2> QED
    BY <2>1, Zenon DEF Init, SegmentsAreRented
<1> QED
  BY <1>1, <1>2, <1>3 DEF Shape

\* Receive puts the chunk and zeros into an array of its own.
LEMMA ShapeReceive ==
  ASSUME Shape, NEW chunk \in Chunks, Receive(chunk)
  PROVE  Shape'
<1> USE DEF Shape
<1>1. PICK tail \in LeftOvers : buf' = chunk \o Cleared(tail)
  BY DEF Receive
<1> DEFINE zeros == Cleared(tail)
<1>2. /\ chunk \in Seq(Bytes) /\ Len(chunk) \in Nat \ {0}
      /\ zeros \in Seq(Bytes) /\ \A i \in 1..Len(zeros) : zeros[i] = 0
  BY ReceivedBytes
<1> HIDE DEF zeros
<1>3. /\ buf' \in Seq(Bytes) /\ Len(buf') = Len(chunk) + Len(zeros)
      /\ buf' # <<>>
      /\ \A i \in Len(chunk) + 1..Len(buf') : buf'[i] = zeros[i - Len(chunk)]
  BY <1>1, <1>2 DEF zeros
<1>4. /\ bufferSize' = Len(chunk) /\ remaining' = Len(chunk) /\ prevIndex' = 0
      /\ rents' = rents + 1 /\ bufId' = rents + 1 /\ Len(chunk) <= MaxLength
      /\ chunks' = chunks + 1 /\ chunks < MaxChunks
      /\ UNCHANGED <<recvQueue, disposed, lines, reports, returned>>
  BY DEF Receive
<1>5. Counters'
  BY <1>4, BoundsAssumption DEF Counters
<1>6. BufferIsCleared'
  <2>0. Len(zeros) \in Nat
    BY <1>2, LenProperties
  <2>1. ASSUME NEW i \in bufferSize' + 1..Len(buf')
        PROVE  buf'[i] = 0
    <3>1. i \in Len(chunk) + 1..Len(buf')
      BY <1>4
    <3>2. i - Len(chunk) \in 1..Len(zeros)
      BY <1>2, <1>3, <2>0, <3>1
    <3> QED
      BY <1>2, <1>3, <3>1, <3>2
  <2>2. bufferSize' \in 0..Len(buf')
    BY <1>2, <1>3, <1>4, <2>0
  <2>3. bufId' \in 1..rents'
    BY <1>4 DEF Counters
  <2> QED
    BY <1>2, <1>3, <1>4, <2>1, <2>2, <2>3 DEF BufferIsCleared
<1>7. SegmentsAreRented'
  <2>1. rents \in Nat /\ rents' \in Nat /\ rents' \in {rents, rents + 1}
    BY <1>4 DEF Counters
  <2>2. returned \in Seq(1..rents')
    BY <2>1, RentedLists DEF SegmentsAreRented
  <2>3. \A k \in 1..rents : k \in 1..rents'
    BY <2>1
  <2>4. recvQueue' = recvQueue /\ lines' = lines /\ returned' = returned
    BY <1>4
  <2> QED
    BY <2>2, <2>3, <2>4, Zenon DEF SegmentsAreRented
<1> QED
  BY <1>5, <1>6, <1>7

\* While bytes remain, Receive holds a rented array.
LEMMA ReceivingHoldsBuf ==
  ASSUME Shape, remaining > 0
  PROVE  /\ buf # <<>> /\ bufId \in 1..rents /\ bufId \in Nat /\ rents \in Nat
         /\ bufferSize \in Nat /\ prevIndex \in Nat /\ Len(buf) \in Nat
         /\ bufferSize <= Len(buf) /\ bufferSize <= MaxLength
         /\ prevIndex < bufferSize /\ buf \in Seq(Bytes)
         /\ remaining = bufferSize - prevIndex
<1>1. /\ bufferSize \in Nat /\ prevIndex \in Nat /\ Len(buf) \in Nat
      /\ bufferSize <= Len(buf) /\ bufferSize <= MaxLength
      /\ prevIndex < bufferSize /\ buf \in Seq(Bytes)
      /\ remaining = bufferSize - prevIndex
  BY DEF Shape, BufferIsCleared
<1>2. buf # <<>>
  BY <1>1
<1> QED
  BY <1>1, <1>2 DEF Shape, BufferIsCleared, Counters

\* The segment of the fast path.
LEMMA FastSegment ==
  ASSUME Shape, EmitFast, Index - prevIndex # 0
  PROVE  LET s == Segment(bufId, buf, prevIndex, Index - prevIndex)
         IN  s \in Segments /\ s.id = bufId /\ s.size < MaxLength
<1>1. remaining > 0 /\ Index # -1
  BY DEF EmitFast
<1>2. Index \in prevIndex..bufferSize - 1
  BY <1>1, FoundAmongReceived
<1>3. Index - prevIndex \in Nat \ {0} /\ prevIndex + (Index - prevIndex) <= Len(buf)
      /\ Index - prevIndex < MaxLength
  BY <1>1, <1>2, ReceivingHoldsBuf, MaxLengthAssumption
<1> QED
  BY <1>1, <1>3, ReceivingHoldsBuf, SegmentIsOne

\* The line assembled from the queue and the bytes before the newline.
LEMMA AssembledSegment ==
  ASSUME Shape, AssembleLine
  PROVE  LET line == Assembled(recvQueue) \o SubSeq(buf, prevIndex + 1, Index)
             s == Segment(rents + 1, line, 0, Len(line))
         IN  /\ line \in Seq(Bytes)
             /\ Len(line) = Len(Assembled(recvQueue)) + (Index - prevIndex)
             /\ line # <<>> => s \in Segments /\ s.id = rents + 1 /\ s.size = Len(line)
<1> DEFINE line == Assembled(recvQueue) \o SubSeq(buf, prevIndex + 1, Index)
<1>1. remaining > 0 /\ Index # -1
  BY DEF AssembleLine
<1>2. Index \in prevIndex..bufferSize - 1
  BY <1>1, FoundAmongReceived
<1>3. Index \in Nat /\ prevIndex \in Nat /\ rents + 1 \in Nat /\ bufferSize \in Nat
  BY <1>1, <1>2, ReceivingHoldsBuf
<1>4. /\ SubSeq(buf, prevIndex + 1, Index) \in Seq(Bytes)
      /\ Len(SubSeq(buf, prevIndex + 1, Index)) = Index - prevIndex
  BY <1>2, <1>3, PartOfBuf
<1>5. /\ line \in Seq(Bytes)
      /\ Len(line) = Len(Assembled(recvQueue)) + (Index - prevIndex)
  BY <1>4, AssembledIsText
<1> HIDE DEF line
<1>6. ASSUME line # <<>> PROVE Len(line) \in Nat \ {0} /\ 0 + Len(line) <= Len(line)
  BY <1>5, <1>6
<1>7. ASSUME line # <<>>
      PROVE  /\ Segment(rents + 1, line, 0, Len(line)) \in Segments
             /\ Segment(rents + 1, line, 0, Len(line)).id = rents + 1
             /\ Segment(rents + 1, line, 0, Len(line)).size = Len(line)
  BY <1>3, <1>5, <1>6, <1>7, SegmentIsOne
<1> QED
  BY <1>5, <1>7 DEF line

\* The segment of a chunk that is queued whole.
LEMMA WholeSegment ==
  ASSUME Shape, StoreWhole
  PROVE  LET s == Segment(bufId, buf, 0, remaining)
         IN  /\ s \in Segments /\ s.id = bufId /\ s.size = remaining
             /\ Copied(s) = SubSeq(buf, 1, remaining)
             /\ Len(Copied(s)) = remaining /\ remaining = bufferSize
<1>1. remaining > 0 /\ prevIndex = 0
  BY DEF StoreWhole
<1>2. /\ remaining = bufferSize /\ bufferSize \in Nat \ {0} /\ bufId \in Nat
      /\ bufferSize <= Len(buf) /\ buf \in Seq(Bytes) /\ 0 + remaining <= Len(buf)
  BY <1>1, ReceivingHoldsBuf
<1>3. Len(SubSeq(buf, 0 + 1, remaining)) = remaining - 0
  BY <1>2, PartOfBuf
<1>4. Copied(Segment(bufId, buf, 0, remaining)) = SubSeq(buf, 1, remaining)
  BY DEF Copied, Segment
<1>5. /\ Segment(bufId, buf, 0, remaining) \in Segments
      /\ Segment(bufId, buf, 0, remaining).id = bufId
      /\ Segment(bufId, buf, 0, remaining).size = remaining
  BY <1>2, SegmentIsOne
<1> QED
  BY <1>2, <1>3, <1>4, <1>5

\* The segment of the rest behind the last newline.
LEMMA RestSegment ==
  ASSUME Shape, StoreRest
  PROVE  LET rest == SubSeq(buf, prevIndex + 1, bufferSize)
             s == Segment(rents + 1, rest, 0, Len(rest))
         IN  /\ s \in Segments /\ s.id = rents + 1 /\ s.size = remaining
             /\ Copied(s) = rest /\ Len(rest) = remaining
<1> DEFINE rest == SubSeq(buf, prevIndex + 1, bufferSize)
<1>1. remaining > 0
  BY DEF StoreRest
<1>2. /\ remaining = bufferSize - prevIndex /\ bufferSize \in Nat
      /\ prevIndex \in Nat /\ prevIndex <= bufferSize /\ rents + 1 \in Nat
      /\ remaining \in Nat \ {0}
  BY <1>1, ReceivingHoldsBuf
<1>3. rest \in Seq(Bytes) /\ Len(rest) = remaining
  <2>1. rest \in Seq(Bytes) /\ Len(rest) = bufferSize - prevIndex
    <3> bufferSize <= bufferSize
      BY <1>2
    <3> QED
      BY <1>2, PartOfBuf
  <2> QED
    BY <1>2, <2>1
<1> HIDE DEF rest
<1>4. SubSeq(rest, 1, Len(rest)) = rest
  BY <1>3, SubSeqFull
<1>5. Copied(Segment(rents + 1, rest, 0, Len(rest))) = rest
  BY <1>4 DEF Copied, Segment
<1>6. /\ Segment(rents + 1, rest, 0, Len(rest)) \in Segments
      /\ Segment(rents + 1, rest, 0, Len(rest)).id = rents + 1
      /\ Segment(rents + 1, rest, 0, Len(rest)).size = remaining
  BY <1>2, <1>3, SegmentIsOne
<1> QED
  BY <1>3, <1>5, <1>6 DEF rest

\* The finally block gives buf back unless its lease is kept.
LEMMA FinallyBlock ==
  ASSUME Shape, buf # <<>>, NEW keepLease, EndReceive(keepLease, <<>>)
  PROVE  /\ returned' = IF keepLease THEN returned ELSE Append(returned, bufId)
         /\ returned' \in Seq(1..rents)
<1>1. returned \in Seq(1..rents) /\ bufId \in 1..rents
  BY DEF Shape, SegmentsAreRented, BufferIsCleared
<1>2. returned' = (returned \o <<>>) \o (IF keepLease THEN <<>> ELSE <<bufId>>)
  BY DEF EndReceive
<1>3. CASE keepLease
  <2>1. returned' = (returned \o <<>>) \o <<>>
    BY <1>2, <1>3
  <2> QED
    BY <1>1, <1>3, <2>1, FinallyReturns
<1>4. CASE ~keepLease
  <2>1. returned' = (returned \o <<>>) \o <<bufId>>
    BY <1>2, <1>4
  <2> QED
    BY <1>1, <1>4, <2>1, FinallyReturns
<1> QED
  BY <1>3, <1>4

\* Every iteration of Receive's loop keeps the shape of the state.
LEMMA ShapeEmitFast ==
  ASSUME Shape, EmitFast
  PROVE  Shape'
<1> DEFINE s == Segment(bufId, buf, prevIndex, Index - prevIndex)
<1>1. remaining > 0 /\ Index # -1
  BY DEF EmitFast
<1>2. /\ lines' = IF Index - prevIndex = 0 THEN lines ELSE Append(lines, s)
      /\ buf' = <<>> /\ bufferSize' = 0 /\ bufId' = 0 /\ prevIndex' = 0
      /\ remaining' = 0
      /\ UNCHANGED <<recvQueue, disposed, reports, rents, chunks>>
  BY DEF EmitFast, EndReceive
<1>3. /\ lines \in Seq(Segments) /\ \A i \in 1..Len(lines) : lines[i].id \in 1..rents
      /\ returned \in Seq(1..rents) /\ rents \in Nat
  BY DEF Shape, SegmentsAreRented, Counters
<1>4. returned' \in Seq(1..rents)
  <2>1. EndReceive(Index - prevIndex > 0, <<>>)
    BY DEF EmitFast
  <2> QED
    BY <1>1, <2>1, FinallyBlock, ReceivingHoldsBuf
<1>5. lines' \in Seq(Segments) /\ \A i \in 1..Len(lines') : lines'[i].id \in 1..rents
  <2>1. CASE Index - prevIndex = 0
    BY <1>2, <1>3, <2>1
  <2>2. CASE Index - prevIndex # 0
    <3>1. s \in Segments /\ s.id \in 1..rents
      BY <1>1, <2>2, FastSegment, ReceivingHoldsBuf
    <3>2. lines' = Append(lines, s)
      BY <1>2, <2>2
    <3> HIDE DEF s
    <3> QED
      BY <1>3, <3>1, <3>2, RentedSegments
  <2> QED
    BY <2>1, <2>2
<1>6. Counters'
  BY <1>2 DEF Shape, Counters
<1>7. BufferIsCleared'
  BY <1>2, EndReceiveClears
<1>8. SegmentsAreRented'
  BY <1>2, <1>4, <1>5 DEF Shape, SegmentsAreRented
<1> QED
  BY <1>6, <1>7, <1>8 DEF Shape

\* A line that is assembled keeps the shape of the state.
LEMMA ShapeAssembleLine ==
  ASSUME Shape, AssembleLine
  PROVE  Shape'
<1> DEFINE line == Assembled(recvQueue) \o SubSeq(buf, prevIndex + 1, Index)
<1> DEFINE s == Segment(rents + 1, line, 0, Len(line))
<1>1. remaining > 0 /\ Index # -1
  BY DEF AssembleLine
<1>2. /\ \/ lines' = lines /\ rents' = rents
         \/ line # <<>> /\ lines' = Append(lines, s) /\ rents' = rents + 1
      /\ prevIndex' = Index + 1
      /\ remaining' = remaining - ((Index - prevIndex) + 1)
      /\ recvQueue' = <<>>
      /\ returned' = returned \o Ids(recvQueue)
      /\ UNCHANGED <<buf, bufferSize, bufId, disposed, reports, chunks>>
  BY DEF AssembleLine
<1>3. /\ lines \in Seq(Segments) /\ \A i \in 1..Len(lines) : lines[i].id \in 1..rents
      /\ returned \in Seq(1..rents) /\ rents \in Nat
      /\ recvQueue \in Seq(Segments)
      /\ \A i \in 1..Len(recvQueue) : recvQueue[i].id \in 1..rents
  BY DEF Shape, SegmentsAreRented, Counters
<1>4. line # <<>> => s \in Segments /\ s.id = rents + 1
  BY AssembledSegment
<1> HIDE DEF s, line
<1>5. rents' \in Nat /\ rents' \in {rents, rents + 1}
  BY <1>2, <1>3
<1>6. Counters'
  BY <1>2, <1>5 DEF Shape, Counters
<1>7. BufferIsCleared'
  <2>1. Index \in prevIndex..bufferSize - 1
    BY <1>1, FoundAmongReceived
  <2>2. /\ buf # <<>> /\ bufferSize \in Nat /\ prevIndex \in Nat
        /\ remaining = bufferSize - prevIndex /\ bufId \in 1..rents
    BY <1>1, ReceivingHoldsBuf
  <2>3. prevIndex' \in 0..bufferSize /\ remaining' = bufferSize - prevIndex'
    BY <1>2, <2>1, <2>2
  <2>4. bufId' \in 1..rents'
    BY <1>2, <1>3, <2>2
  <2> QED
    BY <1>2, <2>2, <2>3, <2>4 DEF Shape, BufferIsCleared
<1>8. SegmentsAreRented'
  <2>1. returned' \in Seq(1..rents')
    <3>1. Ids(recvQueue) \in Seq(1..rents)
      BY <1>3, IdsAreRented
    <3> QED
      BY <1>2, <1>3, <1>5, <3>1, RentedLists
  <2>2. lines' \in Seq(Segments) /\ \A i \in 1..Len(lines') : lines'[i].id \in 1..rents'
    <3>1. CASE lines' = lines /\ rents' = rents
      BY <1>3, <3>1
    <3>2. CASE line # <<>> /\ lines' = Append(lines, s) /\ rents' = rents + 1
      <4>1. s \in Segments /\ s.id \in 1..rents'
        BY <1>3, <1>4, <3>2
      <4> QED
        BY <1>3, <1>5, <3>2, <4>1, RentedSegments
    <3> QED
      BY <1>2, <3>1, <3>2
  <2>3. recvQueue' \in Seq(Segments) /\ 1..Len(recvQueue') = {}
    BY <1>2
  <2> QED
    BY <2>1, <2>2, <2>3, Zenon DEF SegmentsAreRented
<1> QED
  BY <1>6, <1>7, <1>8 DEF Shape

\* A queue that grows by a segment of buf, or of an array rented for the rest.
LEMMA ShapeStore ==
  ASSUME Shape, NEW s \in Segments, s.id \in 1..rents',
         StoreWhole \/ StoreRest, recvQueue' = Append(recvQueue, s)
  PROVE  Shape'
<1>1. remaining > 0
  BY DEF StoreWhole, StoreRest
<1>2. /\ buf' = <<>> /\ bufferSize' = 0 /\ bufId' = 0 /\ prevIndex' = 0
      /\ remaining' = 0
      /\ rents' = rents \/ rents' = rents + 1
      /\ reports' = reports \/ reports' = reports + 1
      /\ UNCHANGED <<disposed, lines, chunks>>
  BY DEF StoreWhole, StoreRest, EndReceive
<1>3. /\ lines \in Seq(Segments) /\ \A i \in 1..Len(lines) : lines[i].id \in 1..rents
      /\ returned \in Seq(1..rents) /\ rents \in Nat
      /\ recvQueue \in Seq(Segments)
      /\ \A i \in 1..Len(recvQueue) : recvQueue[i].id \in 1..rents
  BY DEF Shape, SegmentsAreRented, Counters
<1>4. rents' \in Nat /\ rents' \in {rents, rents + 1}
  BY <1>2, <1>3
<1>5. returned' \in Seq(1..rents')
  <2>1. EndReceive(TRUE, <<>>) \/ EndReceive(FALSE, <<>>)
    BY DEF StoreWhole, StoreRest
  <2>2. returned' \in Seq(1..rents)
    BY <1>1, <2>1, FinallyBlock, ReceivingHoldsBuf
  <2> QED
    BY <1>3, <1>4, <2>2, RentedLists
<1>6. Counters'
  BY <1>2, <1>4 DEF Shape, Counters
<1>7. BufferIsCleared'
  BY <1>2, EndReceiveClears
<1>8. /\ recvQueue' \in Seq(Segments)
      /\ \A i \in 1..Len(recvQueue') : recvQueue'[i].id \in 1..rents'
  BY <1>3, <1>4, RentedSegments
<1>9. \A i \in 1..Len(lines) : lines[i].id \in 1..rents'
  BY <1>3, <1>4
<1>10. SegmentsAreRented'
  BY <1>2, <1>3, <1>5, <1>8, <1>9 DEF SegmentsAreRented
<1> QED
  BY <1>6, <1>7, <1>10 DEF Shape

\* Every step of the line buffer keeps the shape of the state.
LEMMA ShapeStep == Shape /\ [Next]_vars => Shape'
<1> SUFFICES ASSUME Shape, [Next]_vars PROVE Shape'
  OBVIOUS
<1>1. CASE RejectChunk
  <2>1. Counters'
    BY <1>1, BoundsAssumption DEF RejectChunk, Shape, Counters
  <2>2. BufferIsCleared' /\ SegmentsAreRented'
    BY <1>1 DEF RejectChunk, callVars, Shape, BufferIsCleared, SegmentsAreRented
  <2> QED
    BY <2>1, <2>2 DEF Shape
<1>2. ASSUME NEW chunk \in Chunks, Receive(chunk) PROVE Shape'
  BY <1>2, ShapeReceive
<1>3. CASE EmitFast
  BY <1>3, ShapeEmitFast
<1>4. CASE AssembleLine
  BY <1>4, ShapeAssembleLine
<1>5. CASE Exhausted
  <2>1. /\ buf' = <<>> /\ bufferSize' = 0 /\ bufId' = 0 /\ prevIndex' = 0
        /\ remaining' = 0 /\ EndReceive(FALSE, <<>>) /\ buf # <<>>
        /\ UNCHANGED <<recvQueue, disposed, lines, reports, rents, chunks>>
    BY <1>5 DEF Exhausted, EndReceive, Receiving
  <2>3. returned' \in Seq(1..rents)
    BY <2>1, FinallyBlock
  <2>4. Counters' /\ SegmentsAreRented'
    BY <2>1, <2>3 DEF Shape, Counters, SegmentsAreRented
  <2>5. BufferIsCleared'
    BY <2>1, EndReceiveClears
  <2> QED
    BY <2>4, <2>5 DEF Shape
<1>6. CASE StoreWhole
  <2> DEFINE s == Segment(bufId, buf, 0, remaining)
  <2>1. remaining > 0 /\ recvQueue' = Append(recvQueue, s) /\ rents' = rents
    BY <1>6 DEF StoreWhole
  <2>2. s \in Segments /\ s.id \in 1..rents'
    BY <1>6, <2>1, WholeSegment, ReceivingHoldsBuf
  <2> HIDE DEF s
  <2> QED
    BY <1>6, <2>1, <2>2, ShapeStore
<1>7. CASE StoreRest
  <2> DEFINE rest == SubSeq(buf, prevIndex + 1, bufferSize)
  <2> DEFINE s == Segment(rents + 1, rest, 0, Len(rest))
  <2>1. recvQueue' = Append(recvQueue, s) /\ rents' = rents + 1
    BY <1>7 DEF StoreRest
  <2>2. s \in Segments /\ s.id = rents + 1
    BY <1>7, RestSegment
  <2> HIDE DEF s
  <2>3. s.id \in 1..rents'
    BY <2>1, <2>2 DEF Shape, Counters
  <2> QED
    BY <1>7, <2>1, <2>2, <2>3, ShapeStore
<1>8. CASE Dispose
  <2>1. /\ disposed' = TRUE /\ recvQueue' = <<>>
        /\ returned' = returned \o Ids(recvQueue)
        /\ UNCHANGED <<callVars, lines, reports, rents, chunks>>
    BY <1>8 DEF Dispose
  <2>2. returned' \in Seq(1..rents)
    <3>1. /\ recvQueue \in Seq(Segments) /\ rents \in Nat
          /\ \A i \in 1..Len(recvQueue) : recvQueue[i].id \in 1..rents
          /\ returned \in Seq(1..rents)
      BY DEF Shape, SegmentsAreRented, Counters
    <3>2. Ids(recvQueue) \in Seq(1..rents)
      BY <3>1, IdsAreRented
    <3> QED
      BY <2>1, <3>1, <3>2
  <2>3. Counters'
    <3>1. disposed' \in BOOLEAN
      BY <2>1
    <3> QED
      BY <2>1, <3>1 DEF Shape, Counters
  <2>4. BufferIsCleared'
    BY <2>1 DEF callVars, Shape, BufferIsCleared
  <2>5. SegmentsAreRented'
    <3>1. recvQueue' \in Seq(Segments) /\ 1..Len(recvQueue') = {}
      BY <2>1
    <3>2. /\ lines' \in Seq(Segments) /\ returned' \in Seq(1..rents')
          /\ \A i \in 1..Len(lines') : lines'[i].id \in 1..rents'
      BY <2>1, <2>2 DEF Shape, SegmentsAreRented
    <3> QED
      BY <3>1, <3>2, Zenon DEF SegmentsAreRented
  <2> QED
    BY <2>3, <2>4, <2>5 DEF Shape
<1>9. CASE UNCHANGED vars
  BY <1>9 DEF vars, callVars, Shape, Counters, BufferIsCleared, SegmentsAreRented
<1> QED
  BY <1>1, <1>2, <1>3, <1>4, <1>5, <1>6, <1>7, <1>8, <1>9 DEF Next, Iteration

-------------------------------------------------------------------------------
(* Floods.                                                                 *)

\* A list of lines below a bound stays below it with one more such line.
LEMMA SizesOfAppend ==
  ASSUME NEW list \in Seq(Segments), NEW s \in Segments, NEW bound \in Nat,
         \A i \in 1..Len(list) : list[i].size < bound, s.size < bound
  PROVE  \A i \in 1..Len(Append(list, s)) : Append(list, s)[i].size < bound
<1> SUFFICES ASSUME NEW i \in 1..Len(Append(list, s))
             PROVE  Append(list, s)[i].size < bound
  OBVIOUS
<1>1. CASE i = Len(list) + 1
  BY <1>1
<1>2. CASE i # Len(list) + 1
  <2>1. i \in 1..Len(list)
    BY <1>2
  <2>2. Append(list, s)[i] = list[i]
    BY <2>1
  <2> QED
    BY <2>1, <2>2
<1> QED
  BY <1>1, <1>2

FloodInv == AssembledHasItsSize /\ FloodsAreReported

\* Storing an incomplete line compares what is queued with the limit.
LEMMA FloodStore ==
  ASSUME Shape, FloodInv, NEW s \in Segments,
         recvQueue' = Append(recvQueue, s),
         reports' = IF Flooded(recvQueue') THEN reports + 1 ELSE reports,
         lines' = lines
  PROVE  FloodInv'
<1>1. recvQueue \in Seq(Segments) /\ reports \in Nat
  BY DEF Shape, SegmentsAreRented, Counters
<1>2. /\ QueuedSize(recvQueue') = QueuedSize(recvQueue) + s.size
      /\ Assembled(recvQueue') = Assembled(recvQueue) \o Copied(s)
      /\ Assembled(recvQueue) \in Seq(Bytes) /\ QueuedSize(recvQueue) \in Nat
      /\ s.size \in Nat /\ Copied(s) \in Seq(Bytes) /\ Len(Copied(s)) = s.size
  BY <1>1, QueuedSizeOfAppend, AssembledOfAppend, SegmentFields, CopiedIsText
<1>3. AssembledHasItsSize'
  <2>1. Len(Assembled(recvQueue')) = Len(Assembled(recvQueue)) + Len(Copied(s))
    BY <1>2, ConcatProperties
  <2>2. Len(Assembled(recvQueue)) = QueuedSize(recvQueue)
    BY DEF FloodInv, AssembledHasItsSize
  <2> QED
    BY <1>2, <2>1, <2>2 DEF AssembledHasItsSize
<1>4. FloodsAreReported'
  <2> SUFFICES ASSUME reports' = 0
               PROVE  /\ QueuedSize(recvQueue') <= MaxLength
                      /\ \A i \in 1..Len(lines) : lines[i].size < 2 * MaxLength
    BY DEF FloodsAreReported
  <2>1. reports = 0 /\ ~Flooded(recvQueue')
    BY <1>1
  <2>2. QueuedSize(recvQueue') \in Nat
    BY <1>2
  <2> QED
    BY <2>1, <2>2, MaxLengthAssumption DEF Flooded, FloodInv, FloodsAreReported
<1> QED
  BY <1>3, <1>4 DEF FloodInv

\* No step lets a flood go unreported.
LEMMA FloodStep == Shape /\ FloodInv /\ [Next]_vars => FloodInv'
<1> SUFFICES ASSUME Shape, FloodInv, [Next]_vars PROVE FloodInv'
  OBVIOUS
<1>a. /\ recvQueue \in Seq(Segments) /\ lines \in Seq(Segments) /\ reports \in Nat
      /\ 2 * MaxLength \in Nat /\ MaxLength \in Nat
  BY MaxLengthAssumption DEF Shape, SegmentsAreRented, Counters
<1>b. /\ Len(Assembled(recvQueue)) = QueuedSize(recvQueue)
      /\ QueuedSize(recvQueue) \in Nat
      /\ reports = 0 => /\ QueuedSize(recvQueue) <= MaxLength
                        /\ \A i \in 1..Len(lines) : lines[i].size < 2 * MaxLength
  BY AssembledIsText DEF FloodInv, AssembledHasItsSize, FloodsAreReported
<1>c. QueuedSize(<<>>) = 0 /\ Len(Assembled(<<>>)) = 0
  BY QueuedSizeOfEmpty, AssembledOfEmpty
<1>1. CASE RejectChunk
  <2>1. recvQueue' = recvQueue /\ lines' = lines /\ reports' = reports + 1
    BY <1>1 DEF RejectChunk
  <2>2. reports' # 0
    BY <1>a, <2>1
  <2> QED
    BY <1>b, <2>1, <2>2 DEF FloodInv, AssembledHasItsSize, FloodsAreReported
<1>2. ASSUME NEW chunk \in Chunks, Receive(chunk) PROVE FloodInv'
  BY <1>2 DEF Receive, FloodInv, AssembledHasItsSize, FloodsAreReported
<1>3. CASE EmitFast
  <2> DEFINE s == Segment(bufId, buf, prevIndex, Index - prevIndex)
  <2>1. /\ lines' = IF Index - prevIndex = 0 THEN lines ELSE Append(lines, s)
        /\ UNCHANGED <<recvQueue, reports>>
    BY <1>3 DEF EmitFast
  <2>2. CASE Index - prevIndex = 0
    BY <2>1, <2>2 DEF FloodInv, AssembledHasItsSize, FloodsAreReported
  <2>3. CASE Index - prevIndex # 0
    <3>1. s \in Segments /\ s.size < MaxLength
      BY <1>3, <2>3, FastSegment
    <3>2. lines' = Append(lines, s)
      BY <2>1, <2>3
    <3> HIDE DEF s
    <3>3. s.size < 2 * MaxLength
      BY <1>a, <3>1, SegmentFields
    <3>4. reports = 0 => \A i \in 1..Len(lines') : lines'[i].size < 2 * MaxLength
      BY <1>a, <1>b, <3>1, <3>2, <3>3, SizesOfAppend
    <3> QED
      BY <1>b, <2>1, <3>4 DEF FloodInv, AssembledHasItsSize, FloodsAreReported
  <2> QED
    BY <2>2, <2>3
<1>4. CASE AssembleLine
  <2> DEFINE line == Assembled(recvQueue) \o SubSeq(buf, prevIndex + 1, Index)
  <2> DEFINE s == Segment(rents + 1, line, 0, Len(line))
  <2>1. /\ remaining > 0 /\ Index # -1
        /\ lines' = lines \/ (line # <<>> /\ lines' = Append(lines, s))
        /\ recvQueue' = <<>> /\ reports' = reports
    BY <1>4 DEF AssembleLine
  <2>2. /\ Len(line) = QueuedSize(recvQueue) + (Index - prevIndex)
        /\ line # <<>> => s \in Segments /\ s.size = Len(line)
    BY <1>4, <1>b, AssembledSegment
  <2> HIDE DEF s, line
  <2>a. Index \in prevIndex..bufferSize - 1
    BY <2>1, FoundAmongReceived
  <2>b. prevIndex \in Nat /\ bufferSize \in Nat /\ bufferSize <= MaxLength
    BY <2>1, ReceivingHoldsBuf
  <2>3. Index - prevIndex \in Nat /\ Index - prevIndex < MaxLength
    BY <1>a, <2>a, <2>b
  <2>4. reports = 0 => \A i \in 1..Len(lines') : lines'[i].size < 2 * MaxLength
    <3> SUFFICES ASSUME reports = 0
                 PROVE  \A i \in 1..Len(lines') : lines'[i].size < 2 * MaxLength
      OBVIOUS
    <3>1. CASE lines' = lines
      BY <1>b, <3>1
    <3>2. CASE line # <<>> /\ lines' = Append(lines, s)
      <4>1. s \in Segments /\ s.size < 2 * MaxLength
        BY <1>a, <1>b, <2>2, <2>3, <3>2
      <4> QED
        BY <1>a, <1>b, <3>2, <4>1, SizesOfAppend
    <3> QED
      BY <2>1, <3>1, <3>2
  <2> QED
    BY <1>a, <1>c, <2>1, <2>4 DEF FloodInv, AssembledHasItsSize, FloodsAreReported
<1>5. CASE Exhausted
  BY <1>5 DEF Exhausted, FloodInv, AssembledHasItsSize, FloodsAreReported
<1>6. CASE StoreWhole
  <2> DEFINE s == Segment(bufId, buf, 0, remaining)
  <2>1. /\ recvQueue' = Append(recvQueue, s) /\ lines' = lines
        /\ reports' = IF Flooded(recvQueue') THEN reports + 1 ELSE reports
    BY <1>6 DEF StoreWhole
  <2>2. s \in Segments
    BY <1>6, WholeSegment
  <2> HIDE DEF s
  <2> QED
    BY <2>1, <2>2, FloodStore
<1>7. CASE StoreRest
  <2> DEFINE rest == SubSeq(buf, prevIndex + 1, bufferSize)
  <2> DEFINE s == Segment(rents + 1, rest, 0, Len(rest))
  <2>1. /\ recvQueue' = Append(recvQueue, s) /\ lines' = lines
        /\ reports' = IF Flooded(recvQueue') THEN reports + 1 ELSE reports
    BY <1>7 DEF StoreRest
  <2>2. s \in Segments
    BY <1>7, RestSegment
  <2> HIDE DEF s
  <2> QED
    BY <2>1, <2>2, FloodStore
<1>8. CASE Dispose
  <2>1. recvQueue' = <<>> /\ UNCHANGED <<lines, reports>>
    BY <1>8 DEF Dispose
  <2> QED
    BY <1>a, <1>b, <1>c, <2>1 DEF FloodInv, AssembledHasItsSize, FloodsAreReported
<1>9. CASE UNCHANGED vars
  BY <1>9 DEF vars, FloodInv, AssembledHasItsSize, FloodsAreReported
<1> QED
  BY <1>1, <1>2, <1>3, <1>4, <1>5, <1>6, <1>7, <1>8, <1>9 DEF Next, Iteration

-------------------------------------------------------------------------------
(* The owners of the arrays.                                               *)

Queued(id) == Count(Ids(recvQueue), id)
Given(id) == Count(Ids(lines), id)
Returned(id) == Count(returned, id)
Held(id) == IF bufId = id THEN 1 ELSE 0

OneOwner == \A id \in 1..rents : Queued(id) + Given(id) + Returned(id) + Held(id) = 1

\* The counts of EveryArrayHasOneOwner are counts in lists of numbers.
LEMMA OwnersAreCounted == Shape => (EveryArrayHasOneOwner <=> OneOwner)
<1> SUFFICES ASSUME Shape PROVE EveryArrayHasOneOwner <=> OneOwner
  OBVIOUS
<1>1. recvQueue \in Seq(Segments) /\ lines \in Seq(Segments)
  BY DEF Shape, SegmentsAreRented
<1>2. ASSUME NEW id \in 1..rents
      PROVE  /\ Cardinality({i \in 1..Len(recvQueue) : recvQueue[i].id = id}) = Queued(id)
             /\ Cardinality({i \in 1..Len(lines) : lines[i].id = id}) = Given(id)
             /\ Cardinality({i \in 1..Len(returned) : returned[i] = id}) = Returned(id)
  BY <1>1, CountOfIds DEF Queued, Given, Returned, Count, Places
<1> QED
  BY <1>2, Zenon DEF EveryArrayHasOneOwner, OneOwner, Held

\* The counts are numbers, and the next array to be rented has no owner.
LEMMA CountsOfShape ==
  ASSUME Shape
  PROVE  /\ Ids(recvQueue) \in Seq(Nat) /\ Ids(lines) \in Seq(Nat)
         /\ returned \in Seq(Nat) /\ rents \in Nat
         /\ \A id : Queued(id) \in Nat /\ Given(id) \in Nat /\ Returned(id) \in Nat
         /\ Queued(rents + 1) = 0 /\ Given(rents + 1) = 0 /\ Returned(rents + 1) = 0
<1>1. /\ recvQueue \in Seq(Segments) /\ lines \in Seq(Segments)
      /\ \A i \in 1..Len(recvQueue) : recvQueue[i].id \in 1..rents
      /\ \A i \in 1..Len(lines) : lines[i].id \in 1..rents
      /\ returned \in Seq(1..rents) /\ rents \in Nat
  BY DEF Shape, SegmentsAreRented, Counters
<1>2. Ids(recvQueue) \in Seq(1..rents) /\ Ids(lines) \in Seq(1..rents)
  BY <1>1, IdsAreRented
<1>3. ASSUME NEW list \in Seq(1..rents)
      PROVE  /\ list \in Seq(Nat) /\ \A id : Count(list, id) \in Nat
             /\ Count(list, rents + 1) = 0
  <2>1. list \in Seq(Nat)
    BY <1>1, RentedLists
  <2>2. \A i \in 1..Len(list) : list[i] # rents + 1
    BY <1>1
  <2>3. Count(list, rents + 1) = 0
    BY <2>2, CountOfAbsent
  <2> QED
    BY <2>1, <2>3, CountIsNat
<1> QED
  BY <1>1, <1>2, <1>3 DEF Queued, Given, Returned

\* The changes the actions make to the counts.
LEMMA CountChanges ==
  ASSUME Shape, NEW id, NEW s \in Segments
  PROVE  /\ Count(Ids(Append(recvQueue, s)), id)
              = Queued(id) + (IF s.id = id THEN 1 ELSE 0)
         /\ Count(Ids(Append(lines, s)), id)
              = Given(id) + (IF s.id = id THEN 1 ELSE 0)
<1>1. recvQueue \in Seq(Segments) /\ lines \in Seq(Segments) /\ s.id \in Nat
  BY SegmentFields DEF Shape, SegmentsAreRented
<1>2. ASSUME NEW q \in Seq(Segments)
      PROVE  Count(Ids(Append(q, s)), id)
               = Count(Ids(q), id) + (IF s.id = id THEN 1 ELSE 0)
  <2>1. Ids(q) \in Seq(Nat) /\ Ids(Append(q, s)) = Append(Ids(q), s.id)
    BY IdsOfAppend
  <2> QED
    BY <1>1, <2>1, CountOfAppend
<1> QED
  BY <1>1, <1>2 DEF Queued, Given

\* Returning buf, or everything that is queued.
LEMMA ReturnChanges ==
  ASSUME Shape, NEW id
  PROVE  /\ Count(Append(returned, bufId), id) = Returned(id) + Held(id)
         /\ Count(returned \o Ids(recvQueue), id) = Returned(id) + Queued(id)
         /\ Count(Ids(<<>>), id) = 0
<1>1. returned \in Seq(Nat) /\ Ids(recvQueue) \in Seq(Nat) /\ bufId \in Nat
  BY CountsOfShape DEF Shape, BufferIsCleared
<1>2. Count(Append(returned, bufId), id) = Returned(id) + Held(id)
  BY <1>1, CountOfAppend DEF Returned, Held
<1>3. Count(returned \o Ids(recvQueue), id) = Returned(id) + Queued(id)
  BY <1>1, CountOfConcat DEF Returned, Queued
<1>4. Count(Ids(<<>>), id) = 0
  <2>1. 1..Len(Ids(<<>>)) = {}
    BY DEF Ids
  <2> QED
    BY <2>1, CountOfAbsent, Zenon
<1> QED
  BY <1>2, <1>3, <1>4

\* Every step hands arrays on, and neither drops nor doubles one.
LEMMA OneOwnerStep == Shape /\ OneOwner /\ [Next]_vars => OneOwner'
<1> SUFFICES ASSUME Shape, OneOwner, [Next]_vars PROVE OneOwner'
  OBVIOUS
<1>a. /\ \A id : Queued(id) \in Nat /\ Given(id) \in Nat /\ Returned(id) \in Nat
      /\ Queued(rents + 1) = 0 /\ Given(rents + 1) = 0 /\ Returned(rents + 1) = 0
      /\ rents \in Nat
  BY CountsOfShape
<1>b. \A id \in 1..rents : Queued(id) + Given(id) + Returned(id) + Held(id) = 1
  BY DEF OneOwner
<1>c. \A id : Held(id) \in {0, 1}
  BY DEF Held
<1>1. CASE RejectChunk
  BY <1>1 DEF RejectChunk, callVars, OneOwner, Queued, Given, Returned, Held
<1>2. ASSUME NEW chunk \in Chunks, Receive(chunk) PROVE OneOwner'
  <2>1. /\ rents' = rents + 1 /\ bufId' = rents + 1 /\ bufId = 0
        /\ UNCHANGED <<recvQueue, lines, returned>>
    BY <1>2 DEF Receive, Receiving, Shape, BufferIsCleared
  <2>2. \A id : /\ Queued(id)' = Queued(id) /\ Given(id)' = Given(id)
                /\ Returned(id)' = Returned(id)
    BY <2>1 DEF Queued, Given, Returned
  <2>3. ASSUME NEW id \in 1..rents + 1
        PROVE  (Queued(id) + Given(id) + Returned(id) + Held(id))' = 1
    <3>1. CASE id = rents + 1
      <4>1. Held(id)' = 1
        BY <2>1, <3>1 DEF Held
      <4> QED
        BY <1>a, <2>2, <3>1, <4>1
    <3>2. CASE id # rents + 1
      <4>1. Held(id)' = 0 /\ Held(id) = 0 /\ id \in 1..rents
        BY <1>a, <2>1, <3>2 DEF Held
      <4> QED
        BY <1>b, <2>2, <4>1
    <3> QED
      BY <3>1, <3>2
  <2> QED
    BY <2>1, <2>3 DEF OneOwner
<1>3. CASE EmitFast
  <2> DEFINE length == Index - prevIndex
  <2> DEFINE s == Segment(bufId, buf, prevIndex, length)
  <2>1. /\ remaining > 0 /\ Index # -1
        /\ lines' = IF length = 0 THEN lines ELSE Append(lines, s)
        /\ EndReceive(length > 0, <<>>) /\ bufId' = 0
        /\ recvQueue' = recvQueue /\ rents' = rents
    BY <1>3 DEF EmitFast, EndReceive
  <2>2. returned' = IF length > 0 THEN returned ELSE Append(returned, bufId)
    <3> HIDE DEF length
    <3>1. CASE length > 0
      <4>1. EndReceive(TRUE, <<>>) /\ buf # <<>>
        BY <2>1, <3>1, ReceivingHoldsBuf DEF EndReceive
      <4> QED
        BY <3>1, <4>1, FinallyBlock
    <3>2. CASE ~(length > 0)
      <4>1. EndReceive(FALSE, <<>>) /\ buf # <<>>
        BY <2>1, <3>2, ReceivingHoldsBuf DEF EndReceive
      <4> QED
        BY <3>2, <4>1, FinallyBlock
    <3> QED
      BY <3>1, <3>2
  <2>3. length \in Nat
    BY <2>1, FoundAmongReceived, ReceivingHoldsBuf
  <2>4. length # 0 => s \in Segments /\ s.id = bufId
    BY <1>3, FastSegment
  <2> HIDE DEF s, length
  <2>5. ASSUME NEW id \in 1..rents
        PROVE  (Queued(id) + Given(id) + Returned(id) + Held(id))' = 1
    <3>1. Queued(id)' = Queued(id) /\ Held(id)' = 0
      BY <1>a, <2>1 DEF Queued, Held
    <3>2. CASE length = 0
      <4>1. Given(id)' = Given(id) /\ Returned(id)' = Returned(id) + Held(id)
        BY <2>1, <2>2, <3>2, ReturnChanges DEF Given, Returned
      <4> QED
        BY <1>a, <1>b, <1>c, <3>1, <4>1
    <3>3. CASE length # 0
      <4>1. lines' = Append(lines, s)
        BY <2>1, <3>3
      <4>2. Given(id)' = Given(id) + Held(id)
        BY <2>4, <3>3, <4>1, CountChanges DEF Given, Held
      <4>3. Returned(id)' = Returned(id)
        BY <2>2, <2>3, <3>3 DEF Returned
      <4> QED
        BY <1>a, <1>b, <1>c, <3>1, <4>2, <4>3
    <3> QED
      BY <3>2, <3>3
  <2> QED
    BY <2>1, <2>5 DEF OneOwner
<1>4. CASE AssembleLine
  <2> DEFINE line == Assembled(recvQueue) \o SubSeq(buf, prevIndex + 1, Index)
  <2> DEFINE s == Segment(rents + 1, line, 0, Len(line))
  <2>1. /\ remaining > 0
        /\ \/ lines' = lines /\ rents' = rents
           \/ line # <<>> /\ lines' = Append(lines, s) /\ rents' = rents + 1
        /\ recvQueue' = <<>> /\ bufId' = bufId
        /\ returned' = returned \o Ids(recvQueue)
    BY <1>4 DEF AssembleLine
  <2>2. line # <<>> => s \in Segments /\ s.id = rents + 1
    BY <1>4, AssembledSegment
  <2> HIDE DEF s, line
  <2>3. \A id : /\ Queued(id)' = 0 /\ Held(id)' = Held(id)
                /\ Returned(id)' = Returned(id) + Queued(id)
    BY <2>1, ReturnChanges DEF Queued, Returned, Held
  <2>4. CASE lines' = lines /\ rents' = rents
    <3>1. \A id : Given(id)' = Given(id)
      BY <2>4 DEF Given
    <3>2. ASSUME NEW id \in 1..rents
          PROVE  (Queued(id) + Given(id) + Returned(id) + Held(id))' = 1
      BY <1>a, <1>b, <1>c, <2>3, <3>1
    <3> QED
      BY <2>4, <3>2 DEF OneOwner
  <2>5. CASE line # <<>> /\ lines' = Append(lines, s) /\ rents' = rents + 1
    <3>1. \A id : Given(id)' = Given(id) + (IF rents + 1 = id THEN 1 ELSE 0)
      BY <2>2, <2>5, CountChanges DEF Given
    <3>2. ASSUME NEW id \in 1..rents + 1
          PROVE  (Queued(id) + Given(id) + Returned(id) + Held(id))' = 1
      <4>1. CASE id = rents + 1
        <5>1. Held(id) = 0
          BY <1>a, <2>1, <4>1, ReceivingHoldsBuf DEF Held
        <5> QED
          BY <1>a, <2>3, <3>1, <4>1, <5>1
      <4>2. CASE id # rents + 1
        <5>1. id \in 1..rents /\ Given(id)' = Given(id)
          BY <1>a, <3>1, <4>2
        <5> QED
          BY <1>a, <1>b, <1>c, <2>3, <5>1
      <4> QED
        BY <4>1, <4>2
    <3> QED
      BY <2>5, <3>2 DEF OneOwner
  <2> QED
    BY <2>1, <2>4, <2>5
<1>5. CASE Exhausted
  <2>1. /\ bufId' = 0 /\ EndReceive(FALSE, <<>>) /\ buf # <<>>
        /\ UNCHANGED <<recvQueue, lines, rents>>
    BY <1>5 DEF Exhausted, EndReceive, Receiving
  <2>2. returned' = Append(returned, bufId)
    BY <2>1, FinallyBlock
  <2>3. ASSUME NEW id \in 1..rents
        PROVE  (Queued(id) + Given(id) + Returned(id) + Held(id))' = 1
    <3>1. /\ Queued(id)' = Queued(id) /\ Given(id)' = Given(id) /\ Held(id)' = 0
          /\ Returned(id)' = Returned(id) + Held(id)
      BY <2>1, <2>2, ReturnChanges DEF Queued, Given, Returned, Held
    <3> QED
      BY <1>a, <1>b, <1>c, <3>1
  <2> QED
    BY <2>1, <2>3 DEF OneOwner
<1>6. CASE StoreWhole
  <2> DEFINE s == Segment(bufId, buf, 0, remaining)
  <2>1. /\ remaining > 0 /\ recvQueue' = Append(recvQueue, s) /\ bufId' = 0
        /\ EndReceive(TRUE, <<>>) /\ UNCHANGED <<lines, rents>>
    BY <1>6 DEF StoreWhole, EndReceive
  <2>2. returned' = returned
    BY <2>1, FinallyBlock, ReceivingHoldsBuf
  <2>3. s \in Segments /\ s.id = bufId
    BY <1>6, WholeSegment
  <2> HIDE DEF s
  <2>4. ASSUME NEW id \in 1..rents
        PROVE  (Queued(id) + Given(id) + Returned(id) + Held(id))' = 1
    <3>1. Given(id)' = Given(id) /\ Held(id)' = 0 /\ Returned(id)' = Returned(id)
      BY <2>1, <2>2 DEF Given, Returned, Held
    <3>2. Queued(id)' = Queued(id) + Held(id)
      BY <2>1, <2>3, CountChanges DEF Queued, Held
    <3> QED
      BY <1>a, <1>b, <1>c, <3>1, <3>2
  <2> QED
    BY <2>1, <2>4 DEF OneOwner
<1>7. CASE StoreRest
  <2> DEFINE rest == SubSeq(buf, prevIndex + 1, bufferSize)
  <2> DEFINE s == Segment(rents + 1, rest, 0, Len(rest))
  <2>1. /\ remaining > 0 /\ recvQueue' = Append(recvQueue, s) /\ bufId' = 0
        /\ EndReceive(FALSE, <<>>) /\ lines' = lines /\ rents' = rents + 1
    BY <1>7 DEF StoreRest, EndReceive
  <2>2. returned' = Append(returned, bufId)
    BY <2>1, FinallyBlock, ReceivingHoldsBuf
  <2>3. s \in Segments /\ s.id = rents + 1
    BY <1>7, RestSegment
  <2> HIDE DEF s
  <2>4. \A id : /\ Given(id)' = Given(id)
                /\ Returned(id)' = Returned(id) + Held(id)
                /\ Queued(id)' = Queued(id) + (IF rents + 1 = id THEN 1 ELSE 0)
    BY <2>1, <2>2, <2>3, CountChanges, ReturnChanges DEF Queued, Given, Returned
  <2>5. ASSUME NEW id \in 1..rents + 1
        PROVE  (Queued(id) + Given(id) + Returned(id) + Held(id))' = 1
    <3>1. Held(id)' = 0
      BY <1>a, <2>1 DEF Held
    <3>2. CASE id = rents + 1
      <4>1. Held(id) = 0
        BY <1>a, <2>1, <3>2, ReceivingHoldsBuf DEF Held
      <4> QED
        BY <1>a, <2>4, <3>1, <3>2, <4>1
    <3>3. CASE id # rents + 1
      <4>1. id \in 1..rents /\ Queued(id)' = Queued(id)
        BY <1>a, <2>4, <3>3
      <4> QED
        BY <1>a, <1>b, <1>c, <2>4, <3>1, <4>1
    <3> QED
      BY <3>2, <3>3
  <2> QED
    BY <2>1, <2>5 DEF OneOwner
<1>8. CASE Dispose
  <2>1. /\ recvQueue' = <<>> /\ returned' = returned \o Ids(recvQueue)
        /\ UNCHANGED <<bufId, lines, rents>>
    BY <1>8 DEF Dispose, callVars
  <2>2. ASSUME NEW id \in 1..rents
        PROVE  (Queued(id) + Given(id) + Returned(id) + Held(id))' = 1
    <3>1. /\ Queued(id)' = 0 /\ Given(id)' = Given(id) /\ Held(id)' = Held(id)
          /\ Returned(id)' = Returned(id) + Queued(id)
      BY <2>1, ReturnChanges DEF Queued, Given, Returned, Held
    <3> QED
      BY <1>a, <1>b, <1>c, <3>1
  <2> QED
    BY <2>1, <2>2 DEF OneOwner
<1>9. CASE UNCHANGED vars
  BY <1>9 DEF vars, callVars, OneOwner, Queued, Given, Returned, Held
<1> QED
  BY <1>1, <1>2, <1>3, <1>4, <1>5, <1>6, <1>7, <1>8, <1>9 DEF Next, Iteration

\* A new line buffer satisfies the invariant.
LEMMA IInvInit == Init => IInv
<1> SUFFICES ASSUME Init PROVE IInv
  OBVIOUS
<1>1. Shape
  BY ShapeInit
<1>2. AssembledHasItsSize
  BY QueuedSizeOfEmpty, AssembledOfEmpty DEF Init, AssembledHasItsSize
<1>3. EveryArrayHasOneOwner
  <2>1. 1..rents = {}
    BY DEF Init
  <2> QED
    BY <2>1, Zenon DEF EveryArrayHasOneOwner
<1>4. FloodsAreReported
  <2>1. QueuedSize(recvQueue) <= MaxLength /\ 1..Len(lines) = {}
    BY QueuedSizeOfEmpty, MaxLengthAssumption DEF Init
  <2> QED
    BY <2>1, Zenon DEF FloodsAreReported
<1> QED
  BY <1>1, <1>2, <1>3, <1>4 DEF IInv

\* Every step of the line buffer preserves the invariant.
LEMMA IInvStep == IInv /\ [Next]_vars => IInv'
<1> SUFFICES ASSUME IInv, [Next]_vars PROVE IInv'
  OBVIOUS
<1>1. Shape /\ OneOwner /\ FloodInv
  BY OwnersAreCounted DEF IInv, FloodInv
<1>2. Shape' /\ OneOwner' /\ FloodInv'
  BY <1>1, ShapeStep, OneOwnerStep, FloodStep
<1>3. EveryArrayHasOneOwner'
  <2>1. (Shape => (EveryArrayHasOneOwner <=> OneOwner))'
    BY OwnersAreCounted, PTL
  <2> QED
    BY <1>2, <2>1
<1> QED
  BY <1>2, <1>3 DEF IInv, FloodInv

\* The invariant holds throughout.
LEMMA IInvAlways == Spec => []IInv
<1>1. Init => IInv
  BY IInvInit
<1>2. IInv /\ [Next]_vars => IInv'
  BY IInvStep
<1> QED
  BY <1>1, <1>2, PTL DEF Spec

(***************************************************************************)
(* The state of the line buffer keeps its types: Receive never reads or    *)
(* writes outside the received part of its array, and the segments it      *)
(* queues and hands to onNext lie within their arrays and are not empty.   *)
(***************************************************************************)
THEOREM TypeCorrect == Spec => []TypeOK
<1>1. IInv => TypeOK
  <2> SUFFICES ASSUME IInv PROVE TypeOK
    OBVIOUS
  <2>1. Counters /\ BufferIsCleared /\ SegmentsAreRented
    BY DEF IInv, Shape
  <2>2. bufId \in 0..rents
    BY <2>1 DEF Counters, BufferIsCleared
  <2>3. ASSUME NEW list \in Seq(Segments),
               \A i \in 1..Len(list) : list[i].id \in 1..rents
        PROVE  \A i \in 1..Len(list) : IsSegment(list[i])
    <3> SUFFICES ASSUME NEW i \in 1..Len(list) PROVE IsSegment(list[i])
      OBVIOUS
    <3>1. list[i] \in Segments
      OBVIOUS
    <3> QED
      BY <2>3, <3>1, SegmentFields DEF IsSegment
  <2>4. /\ \A i \in 1..Len(recvQueue) : IsSegment(recvQueue[i])
        /\ \A i \in 1..Len(lines) : IsSegment(lines[i])
    BY <2>1, <2>3 DEF SegmentsAreRented
  <2> QED
    BY <2>1, <2>2, <2>4 DEF TypeOK, Counters, BufferIsCleared, SegmentsAreRented
<1> QED
  BY <1>1, IInvAlways, PTL

(***************************************************************************)
(* Whatever chunks arrive, each array Receive rents is held by exactly one *)
(* of the running call, the queue and a line, or has been returned once.   *)
(***************************************************************************)
THEOREM ArraysAlwaysHaveOneOwner == Spec => []EveryArrayHasOneOwner
<1>1. IInv => EveryArrayHasOneOwner
  BY DEF IInv
<1> QED
  BY <1>1, IInvAlways, PTL

(***************************************************************************)
(* For any limit, as long as onError has not been called no more than the  *)
(* limit is queued and no line is twice as long as the limit.              *)
(***************************************************************************)
THEOREM FloodsAreAlwaysReported == Spec => []FloodsAreReported
<1>1. IInv => FloodsAreReported
  BY DEF IInv
<1> QED
  BY <1>1, IInvAlways, PTL

-------------------------------------------------------------------------------
(* PooledLineBuffer implements LineSplitter.                               *)

\* What has been received and not been split yet.
Input == SubSeq(buf, prevIndex + 1, bufferSize)

Texts == [i \in 1..Len(lines) |-> Text(lines[i])]

\* The bytes a reader of a line sees.
LEMMA TextIsText ==
  ASSUME NEW s \in Segments
  PROVE  Text(s) \in Seq(Bytes)
<1>1. /\ s.array \in Seq(Bytes) /\ s.offset \in Nat /\ s.size \in Nat
      /\ Len(s.array) \in Nat /\ s.offset + s.size <= Len(s.array)
  BY SegmentFields
<1>2. \A i \in s.offset + 1..s.offset + s.size : s.array[i] \in Bytes
  BY <1>1
<1> QED
  BY <1>1, <1>2, SubSeqProperties DEF Text

\* onNext adds the text of its segment to the lines.
LEMMA TextsOfAppend ==
  ASSUME NEW list \in Seq(Segments), NEW s \in Segments
  PROVE  [i \in 1..Len(Append(list, s)) |-> Text(Append(list, s)[i])]
           = Append([i \in 1..Len(list) |-> Text(list[i])], Text(s))
<1> DEFINE texts == [i \in 1..Len(list) |-> Text(list[i])]
<1>1. Len(list) \in Nat /\ \A i \in 1..Len(list) : Text(list[i]) \in Seq(Bytes)
  BY TextIsText
<1>2. texts \in Seq(Seq(Bytes)) /\ Len(texts) = Len(list)
  BY <1>1
<1>3. /\ Append(texts, Text(s)) \in Seq(Seq(Bytes))
      /\ Len(Append(texts, Text(s))) = Len(list) + 1
  BY <1>2, TextIsText
<1>4. Len(Append(list, s)) = Len(list) + 1
  OBVIOUS
<1>5. ASSUME NEW i \in 1..Len(list) + 1
      PROVE  Text(Append(list, s)[i]) = Append(texts, Text(s))[i]
  <2>1. CASE i = Len(list) + 1
    <3>1. Append(list, s)[i] = s
      BY <2>1
    <3>2. Append(texts, Text(s))[i] = Text(s)
      BY <1>2, <2>1, TextIsText, AppendProperties
    <3> QED
      BY <3>1, <3>2
  <2>2. CASE i # Len(list) + 1
    <3>1. i \in 1..Len(list)
      BY <1>1, <2>2
    <3>2. Append(list, s)[i] = list[i]
      BY <3>1
    <3>3. Append(texts, Text(s))[i] = texts[i]
      BY <1>2, <3>1, TextIsText, AppendProperties
    <3>4. texts[i] = Text(list[i])
      BY <3>1
    <3> QED
      BY <3>2, <3>3, <3>4
  <2> QED
    BY <2>1, <2>2
<1> HIDE DEF texts
<1>6. Append(texts, Text(s)) = [i \in 1..Len(list) + 1 |-> Append(texts, Text(s))[i]]
  BY <1>3, LenProperties
<1> QED
  BY <1>4, <1>5, <1>6, Zenon DEF texts

\* Input is what buf holds between prevIndex and bufferSize.
LEMMA InputIsText ==
  ASSUME Shape
  PROVE  /\ Input \in Seq(Bytes) /\ Len(Input) = bufferSize - prevIndex
         /\ \A i \in 1..bufferSize - prevIndex : Input[i] = buf[prevIndex + i]
<1>1. /\ bufferSize \in Nat /\ prevIndex \in Nat /\ prevIndex <= bufferSize
      /\ bufferSize <= bufferSize
  BY DEF Shape, BufferIsCleared
<1> QED
  BY <1>1, PartOfBuf DEF Input

\* When Receive finds a newline, it and LineSplitter cut at the same place.
LEMMA CutsAgree ==
  ASSUME Shape, remaining > 0, Index # -1
  PROVE  LET piece == SubSeq(buf, prevIndex + 1, Index)
         IN  /\ Splitter!UpToNewLine(Input) = piece
             /\ piece \in Seq(Bytes)
             /\ Len(piece) = Index - prevIndex /\ Len(piece) < Len(Input)
             /\ SubSeq(Input, Len(piece) + 2, Len(Input))
                  = SubSeq(buf, (Index + 1) + 1, bufferSize)
<1> DEFINE n == Index - prevIndex
<1> DEFINE piece == SubSeq(buf, prevIndex + 1, Index)
<1> DEFINE rest == SubSeq(buf, (Index + 1) + 1, bufferSize)
<1>1. /\ Index \in prevIndex..bufferSize - 1 /\ buf[Index + 1] = NewLine
      /\ \A i \in prevIndex..Index - 1 : buf[i + 1] # NewLine
  BY FoundAmongReceived
<1>2. /\ prevIndex \in Nat /\ bufferSize \in Nat /\ Index \in Nat /\ n \in Nat
      /\ n < bufferSize - prevIndex
  BY <1>1, ReceivingHoldsBuf
<1>3. /\ Input \in Seq(Bytes) /\ Len(Input) = bufferSize - prevIndex
      /\ \A i \in 1..bufferSize - prevIndex : Input[i] = buf[prevIndex + i]
  BY InputIsText
<1>4. /\ piece \in Seq(Bytes) /\ Len(piece) = n
      /\ \A i \in 1..n : piece[i] = buf[prevIndex + i]
  <2> prevIndex <= Index /\ Index <= bufferSize
    BY <1>1, <1>2
  <2> QED
    BY <1>2, PartOfBuf
<1>5. /\ rest \in Seq(Bytes) /\ Len(rest) = bufferSize - (Index + 1)
      /\ \A i \in 1..bufferSize - (Index + 1) : rest[i] = buf[(Index + 1) + i]
  <2> Index + 1 \in Nat /\ Index + 1 <= bufferSize /\ bufferSize <= bufferSize
    BY <1>1, <1>2
  <2> QED
    BY <1>2, PartOfBuf
<1>6. Splitter!UpToNewLine(Input) = SubSeq(Input, 1, n)
  <2>1. n \in 0..Len(Input) /\ Input[n + 1] = NewLine
    BY <1>1, <1>2, <1>3
  <2>2. ASSUME NEW i \in 1..n PROVE Input[i] # NewLine
    <3>1. /\ prevIndex + i - 1 \in prevIndex..Index - 1
          /\ (prevIndex + i - 1) + 1 = prevIndex + i
          /\ i \in 1..bufferSize - prevIndex
      BY <1>2
    <3> QED
      BY <1>1, <1>3, <3>1
  <2> HIDE DEF n
  <2> QED
    BY <1>3, <2>1, <2>2, CutAtNewLine
<1>7. SubSeq(Input, 1, n) = piece
  <2>1. \A i \in 1..n : Input[i] \in Bytes /\ Input[i] = buf[prevIndex + i]
    BY <1>2, <1>3
  <2>2. /\ SubSeq(Input, 1, n) \in Seq(Bytes) /\ Len(SubSeq(Input, 1, n)) = n
        /\ \A i \in 1..n : SubSeq(Input, 1, n)[i] = Input[i]
    <3> HIDE DEF n
    <3>1. /\ SubSeq(Input, 1, n) \in Seq(Bytes)
          /\ Len(SubSeq(Input, 1, n)) = IF 1 <= n THEN n - 1 + 1 ELSE 0
          /\ \A i \in 1..n - 1 + 1 : SubSeq(Input, 1, n)[i] = Input[1 + i - 1]
      BY <1>2, <2>1, SubSeqProperties
    <3> QED
      BY <1>2, <3>1
  <2> HIDE DEF n, piece
  <2> QED
    BY <1>4, <2>1, <2>2, SeqEqual
<1>8. SubSeq(Input, Len(piece) + 2, Len(Input)) = rest
  <2> DEFINE m == bufferSize - prevIndex
  <2>1. m \in Nat /\ \A i \in n + 2..m : Input[i] \in Bytes /\ Input[i] = buf[prevIndex + i]
    BY <1>2, <1>3
  <2>2. /\ SubSeq(Input, n + 2, m) \in Seq(Bytes)
        /\ Len(SubSeq(Input, n + 2, m)) = IF n + 2 <= m THEN m - (n + 2) + 1 ELSE 0
        /\ \A i \in 1..m - (n + 2) + 1 :
             SubSeq(Input, n + 2, m)[i] = Input[(n + 2) + i - 1]
    <3> HIDE DEF n, m
    <3>1. n + 2 \in Int /\ m \in Int
      BY <1>2, <2>1
    <3> QED
      BY <2>1, <3>1, SubSeqProperties
  <2>3. Len(SubSeq(Input, n + 2, m)) = Len(rest)
    BY <1>2, <1>5, <2>2
  <2>4. ASSUME NEW i \in 1..Len(rest) PROVE SubSeq(Input, n + 2, m)[i] = rest[i]
    <3>1. /\ i \in 1..m - (n + 2) + 1 /\ (n + 2) + i - 1 \in n + 2..m
          /\ prevIndex + ((n + 2) + i - 1) = (Index + 1) + i
          /\ i \in 1..bufferSize - (Index + 1)
      BY <1>2, <1>5
    <3>2. SubSeq(Input, n + 2, m)[i] = buf[(Index + 1) + i]
      <4> HIDE DEF n, m
      <4> QED
        BY <2>1, <2>2, <3>1
    <3> QED
      BY <1>5, <3>1, <3>2
  <2>5. SubSeq(Input, n + 2, m) = rest
    <3> HIDE DEF n, m, rest
    <3> QED
      BY <1>5, <2>2, <2>3, <2>4, SeqEqual
  <2> QED
    BY <1>3, <1>4, <2>5
<1> QED
  BY <1>2, <1>3, <1>4, <1>6, <1>7, <1>8

\* LineSplitter begins like the line buffer.
LEMMA SplitterInit == Init => Splitter!Init
<1> SUFFICES ASSUME Init PROVE Splitter!Init
  OBVIOUS
<1>1. Input = <<>>
  <2>1. Input = SubSeq(buf, 0 + 1, 0)
    BY DEF Init, Input
  <2> QED
    BY <2>1, SubSeqEmpty
<1>2. Assembled(recvQueue) = <<>>
  BY AssembledOfEmpty DEF Init
<1>3. Texts = <<>>
  BY DEF Init, Texts
<1> QED
  BY <1>1, <1>2, <1>3 DEF Splitter!Init, Input, Texts

\* A buffer that holds nothing, before a call or after one.
LEMMA NothingLeft ==
  /\ Shape /\ remaining <= 0 => Input = <<>>
  /\ buf' = <<>> /\ bufferSize' = 0 /\ prevIndex' = 0 => Input' = <<>>
<1>1. ASSUME Shape, remaining <= 0 PROVE Input = <<>>
  <2>1. bufferSize \in Int /\ prevIndex + 1 \in Int /\ bufferSize < prevIndex + 1
    BY <1>1 DEF Shape, BufferIsCleared
  <2> QED
    BY <2>1, SubSeqEmpty DEF Input
<1>2. ASSUME buf' = <<>>, bufferSize' = 0, prevIndex' = 0 PROVE Input' = <<>>
  <2>1. Input' = SubSeq(buf', 0 + 1, 0)
    BY <1>2 DEF Input
  <2> QED
    BY <2>1, SubSeqEmpty
<1> QED
  BY <1>1, <1>2

\* The chunk that Receive is called with is delivered to LineSplitter.
LEMMA ReceiveDelivers ==
  ASSUME Shape, NEW chunk \in Chunks, Receive(chunk)
  PROVE  Splitter!Deliver
<1>1. PICK tail \in LeftOvers : buf' = chunk \o Cleared(tail)
  BY DEF Receive
<1>2. /\ bufferSize' = Len(chunk) /\ prevIndex' = 0 /\ buf = <<>>
      /\ UNCHANGED <<recvQueue, lines>>
  BY DEF Receive, Receiving
<1>3. Input = <<>>
  <2>1. Len(<<>>) = 0
    OBVIOUS
  <2>2. remaining <= 0
    BY <1>2, <2>1 DEF Shape, BufferIsCleared
  <2> QED
    BY <2>2, NothingLeft
<1>4. /\ chunk \in Seq(Bytes) /\ Len(chunk) \in Nat \ {0}
      /\ Cleared(tail) \in Seq(Bytes)
  BY ReceivedBytes
<1>5. SubSeq(chunk \o Cleared(tail), 1, Len(chunk)) = chunk
  <2>1. 1 \in 1..Len(chunk) /\ Len(chunk) \in 1..Len(chunk)
    BY <1>4
  <2> QED
    BY <1>4, <2>1, SubSeqOfConcat1, SubSeqFull
<1>6. Input' = chunk
  BY <1>1, <1>2, <1>5 DEF Input
<1> QED
  BY <1>2, <1>3, <1>6 DEF Splitter!Deliver, Input

\* Both ways to complete a line are the end of a line for LineSplitter.
LEMMA EmitFastEndsLine ==
  ASSUME Shape, EmitFast
  PROVE  Splitter!EndLine
<1> DEFINE piece == SubSeq(buf, prevIndex + 1, Index)
<1> DEFINE s == Segment(bufId, buf, prevIndex, Index - prevIndex)
<1>1. /\ remaining > 0 /\ Index # -1 /\ Index + 1 = bufferSize /\ recvQueue = <<>>
      /\ lines' = IF Index - prevIndex = 0 THEN lines ELSE Append(lines, s)
      /\ recvQueue' = recvQueue /\ buf' = <<>> /\ bufferSize' = 0 /\ prevIndex' = 0
  BY DEF EmitFast, FastPath, EndReceive
<1>2. /\ Splitter!UpToNewLine(Input) = piece /\ piece \in Seq(Bytes)
      /\ Len(piece) = Index - prevIndex /\ Len(piece) < Len(Input)
      /\ SubSeq(Input, Len(piece) + 2, Len(Input))
           = SubSeq(buf, (Index + 1) + 1, bufferSize)
  BY <1>1, CutsAgree
<1>3. bufferSize \in Nat /\ prevIndex \in Nat /\ Index \in Nat
  BY <1>1, ReceivingHoldsBuf, FoundAmongReceived
<1>4. Input' = SubSeq(Input, Len(piece) + 2, Len(Input))
  <2>1. SubSeq(buf, (Index + 1) + 1, bufferSize) = <<>>
    <3>1. (Index + 1) + 1 \in Int /\ bufferSize \in Int /\ bufferSize < (Index + 1) + 1
      BY <1>1, <1>3
    <3> QED
      BY <3>1, SubSeqEmpty
  <2> QED
    BY <1>1, <1>2, <2>1, NothingLeft
<1>5. Assembled(recvQueue) = <<>> /\ Assembled(recvQueue') = <<>>
  BY <1>1, AssembledOfEmpty
<1>6. Assembled(recvQueue) \o piece = piece
  BY <1>2, <1>5, ConcatEmptySeq
<1>7. piece = <<>> <=> Index - prevIndex = 0
  <2> HIDE DEF piece
  <2> QED
    BY <1>2, <1>3
<1>8. Texts' = IF piece = <<>> THEN Texts ELSE Append(Texts, piece)
  <2>1. CASE Index - prevIndex = 0
    BY <1>1, <1>7, <2>1 DEF Texts
  <2>2. CASE Index - prevIndex # 0
    <3>1. s \in Segments /\ lines' = Append(lines, s) /\ lines \in Seq(Segments)
      BY <1>1, <2>2, FastSegment DEF Shape, SegmentsAreRented
    <3>2. Text(s) = piece
      <4>1. prevIndex + (Index - prevIndex) = Index
        BY <1>3
      <4>2. Text(s) = SubSeq(buf, prevIndex + 1, prevIndex + (Index - prevIndex))
        BY DEF Text, Segment
      <4> QED
        BY <4>1, <4>2
    <3> HIDE DEF s, piece
    <3>3. Texts' = Append(Texts, Text(s))
      BY <3>1, TextsOfAppend DEF Texts
    <3> QED
      BY <1>7, <2>2, <3>2, <3>3
  <2> QED
    BY <2>1, <2>2
<1> HIDE DEF piece
<1> QED
  BY <1>2, <1>4, <1>5, <1>6, <1>8 DEF Splitter!EndLine, Input, Texts

\* The line put together from the queue is the line of LineSplitter.
LEMMA AssembleLineEndsLine ==
  ASSUME Shape, AssembleLine
  PROVE  Splitter!EndLine
<1> DEFINE piece == SubSeq(buf, prevIndex + 1, Index)
<1> DEFINE line == Assembled(recvQueue) \o piece
<1> DEFINE s == Segment(rents + 1, line, 0, Len(line))
<1>1. /\ remaining > 0 /\ Index # -1
      /\ lines' = IF line = <<>> THEN lines ELSE Append(lines, s)
      /\ recvQueue' = <<>> /\ buf' = buf /\ bufferSize' = bufferSize
      /\ prevIndex' = Index + 1
  BY DEF AssembleLine
<1>2. /\ Splitter!UpToNewLine(Input) = piece
      /\ Len(piece) < Len(Input)
      /\ SubSeq(Input, Len(piece) + 2, Len(Input))
           = SubSeq(buf, (Index + 1) + 1, bufferSize)
  BY <1>1, CutsAgree
<1>3. Input' = SubSeq(Input, Len(piece) + 2, Len(Input))
  BY <1>1, <1>2 DEF Input
<1>4. Assembled(recvQueue') = <<>>
  BY <1>1, AssembledOfEmpty
<1>5. Texts' = IF line = <<>> THEN Texts ELSE Append(Texts, line)
  <2>1. CASE line = <<>>
    BY <1>1, <2>1 DEF Texts
  <2>2. CASE line # <<>>
    <3>1. s \in Segments /\ lines' = Append(lines, s) /\ lines \in Seq(Segments)
          /\ line \in Seq(Bytes)
      BY <1>1, <2>2, AssembledSegment DEF Shape, SegmentsAreRented
    <3> HIDE DEF line
    <3>2. Text(s) = line
      <4>1. Text(s) = SubSeq(line, 0 + 1, 0 + Len(line)) /\ Len(line) \in Nat
        BY <3>1 DEF Text, Segment
      <4>2. SubSeq(line, 1, Len(line)) = line
        BY <3>1, SubSeqFull
      <4> QED
        BY <4>1, <4>2
    <3> HIDE DEF s
    <3>3. Texts' = Append(Texts, Text(s))
      BY <3>1, TextsOfAppend DEF Texts
    <3> QED
      BY <2>2, <3>2, <3>3
  <2> QED
    BY <2>1, <2>2
<1> HIDE DEF piece
<1> QED
  BY <1>2, <1>3, <1>4, <1>5 DEF Splitter!EndLine, Input, Texts

\* Storing an incomplete line keeps the rest of the input for LineSplitter.
LEMMA StoreKeepsRest ==
  ASSUME Shape, StoreWhole \/ StoreRest
  PROVE  Splitter!KeepRest
<1>1. /\ remaining > 0 /\ Index = -1 /\ lines' = lines
      /\ buf' = <<>> /\ bufferSize' = 0 /\ prevIndex' = 0
  BY DEF StoreWhole, StoreRest, EndReceive
<1>2. /\ Input \in Seq(Bytes) /\ Len(Input) = bufferSize - prevIndex
      /\ \A i \in 1..bufferSize - prevIndex : Input[i] = buf[prevIndex + i]
  BY InputIsText
<1>3. bufferSize \in Nat /\ prevIndex \in Nat /\ prevIndex < bufferSize
  BY <1>1, ReceivingHoldsBuf
<1>4. Input # <<>>
  BY <1>2, <1>3
<1>5. Splitter!UpToNewLine(Input) = Input
  <2>1. \A i \in prevIndex..bufferSize - 1 : buf[i + 1] # NewLine
    BY <1>1, NoneAmongReceived
  <2>2. ASSUME NEW i \in 1..Len(Input) PROVE Input[i] # NewLine
    <3>1. /\ prevIndex + i - 1 \in prevIndex..bufferSize - 1
          /\ (prevIndex + i - 1) + 1 = prevIndex + i
          /\ i \in 1..bufferSize - prevIndex
      BY <1>2, <1>3
    <3> QED
      BY <1>2, <2>1, <3>1
  <2>3. Splitter!UpToNewLine(Input) = SubSeq(Input, 1, Len(Input))
    <3> Len(Input) \in 0..Len(Input)
      BY <1>2
    <3> QED
      BY <1>2, <2>2, CutAtNewLine
  <2> QED
    BY <1>2, <2>3, SubSeqFull
<1>6. Assembled(recvQueue') = Assembled(recvQueue) \o Input
  <2>1. recvQueue \in Seq(Segments)
    BY DEF Shape, SegmentsAreRented
  <2>2. CASE StoreWhole
    <3> DEFINE s == Segment(bufId, buf, 0, remaining)
    <3>1. recvQueue' = Append(recvQueue, s) /\ prevIndex = 0
      BY <2>2 DEF StoreWhole
    <3>2. s \in Segments /\ Copied(s) = SubSeq(buf, 1, remaining) /\ remaining = bufferSize
      BY <2>2, WholeSegment
    <3>3. Copied(s) = Input
      BY <3>1, <3>2 DEF Input
    <3> HIDE DEF s
    <3> QED
      BY <2>1, <3>1, <3>2, <3>3, AssembledOfAppend
  <2>3. CASE StoreRest
    <3> DEFINE s == Segment(rents + 1, Input, 0, Len(Input))
    <3>1. recvQueue' = Append(recvQueue, s)
      BY <2>3 DEF StoreRest, Input
    <3>2. s \in Segments /\ Copied(s) = Input
      BY <2>3, RestSegment DEF Input
    <3> HIDE DEF s
    <3> QED
      BY <2>1, <3>1, <3>2, AssembledOfAppend
  <2> QED
    BY <2>2, <2>3
<1>7. Input' = <<>>
  BY <1>1, NothingLeft
<1>8. Texts' = Texts
  BY <1>1 DEF Texts
<1> QED
  BY <1>4, <1>5, <1>6, <1>7, <1>8 DEF Splitter!KeepRest, Input, Texts

\* Every step of the line buffer is a step of LineSplitter or leaves it alone.
LEMMA SplitterStep ==
  Shape /\ [Next]_vars => [Splitter!Next]_(Splitter!splitterVars)
<1> SUFFICES ASSUME Shape, [Next]_vars
             PROVE  Splitter!Next \/ UNCHANGED Splitter!splitterVars
  OBVIOUS
<1>0. ASSUME Input' = Input, recvQueue' = recvQueue, lines' = lines
      PROVE  UNCHANGED Splitter!splitterVars
  BY <1>0 DEF Splitter!splitterVars, Input
<1>1. CASE RejectChunk
  BY <1>0, <1>1 DEF RejectChunk, callVars, Input
<1>2. ASSUME NEW chunk \in Chunks, Receive(chunk) PROVE Splitter!Next
  BY <1>2, ReceiveDelivers DEF Splitter!Next
<1>3. CASE EmitFast
  BY <1>3, EmitFastEndsLine DEF Splitter!Next
<1>4. CASE AssembleLine
  BY <1>4, AssembleLineEndsLine DEF Splitter!Next
<1>5. CASE Exhausted
  <2>1. /\ remaining <= 0 /\ buf' = <<>> /\ bufferSize' = 0 /\ prevIndex' = 0
        /\ UNCHANGED <<recvQueue, lines>>
    BY <1>5 DEF Exhausted, EndReceive
  <2>2. Input' = Input
    BY <2>1, NothingLeft
  <2> QED
    BY <1>0, <2>1, <2>2
<1>6. CASE StoreWhole \/ StoreRest
  BY <1>6, StoreKeepsRest DEF Splitter!Next
<1>7. CASE Dispose
  <2>1. buf = <<>> /\ recvQueue' = <<>> /\ UNCHANGED <<callVars, lines>>
    BY <1>7 DEF Dispose, Receiving
  <2>2. Input = <<>>
    <3>1. Len(<<>>) = 0
      OBVIOUS
    <3>2. remaining <= 0
      BY <2>1, <3>1 DEF Shape, BufferIsCleared
    <3> QED
      BY <3>2, NothingLeft
  <2>3. Input' = Input /\ Texts' = Texts
    BY <2>1 DEF callVars, Input, Texts
  <2>4. Assembled(recvQueue') = <<>>
    BY <2>1, AssembledOfEmpty
  <2>5. Splitter!Discard
    BY <2>2, <2>3, <2>4 DEF Splitter!Discard, Input, Texts
  <2> QED
    BY <2>5 DEF Splitter!Next
<1>8. CASE UNCHANGED vars
  BY <1>0, <1>8 DEF vars, callVars, Input
<1> QED
  BY <1>1, <1>2, <1>3, <1>4, <1>5, <1>6, <1>7, <1>8 DEF Next, Iteration

(***************************************************************************)
(* The safety part of SplitsTheStream: however the socket cuts the stream  *)
(* into chunks, of whatever length, and whatever earlier renters left in   *)
(* the arrays, every step of Receive and Dispose is a step of LineSplitter *)
(* under the refinement mapping, so onNext gets the lines of the stream    *)
(* and nothing else.  (That each of them arrives is liveness.)             *)
(***************************************************************************)
THEOREM SplitsTheStreamSafely ==
  Spec => Splitter!Init /\ [][Splitter!Next]_(Splitter!splitterVars)
<1>1. Init => Splitter!Init
  BY SplitterInit
<1>2. IInv /\ [Next]_vars => [Splitter!Next]_(Splitter!splitterVars)
  BY SplitterStep DEF IInv
<1> QED
  BY <1>1, <1>2, IInvAlways, PTL DEF Spec

===============================================================================
