--------------------------- MODULE WorkerJobsProofs ---------------------------
(***************************************************************************)
(* Proofs about JobCounter and WorkerJobs: for any number of threads that  *)
(* draw ids, any width of the counter and any number of calls, and for     *)
(* threads that create worker jobs of one MoneroJob in as many calls as    *)
(* the extra nonce has values.                                             *)
(***************************************************************************)
EXTENDS WorkerJobs, MoneroWorkProofs, FiniteSetTheorems

(***************************************************************************)
(* JobCounter.                                                             *)
(***************************************************************************)

(***************************************************************************)
(* The strengthening of LaterCallsGetLargerIds.  Until the counter wraps,  *)
(* no id handed out exceeds _last, and a thread that has incremented but   *)
(* not yet read finds _last above every id handed out before it began.     *)
(***************************************************************************)
IssuedInThePast ==
  /\ \A t \in Threads : begun[t] <= Len(issued)
  /\ \A k \in 1..Len(issued) : issued[k].after <= Len(issued)

NoIdAboveLast == ~wrapped => \A k \in 1..Len(issued) : issued[k].id <= last

ReadersSeeALargerId ==
  ~wrapped => \A t \in Threads :
    pc[t] = "read" => \A i \in 1..begun[t] : issued[i].id < last

IInv ==
  /\ TypeOK
  /\ IssuedInThePast
  /\ NoIdAboveLast
  /\ ReadersSeeALargerId
  /\ LaterCallsGetLargerIds

\* The constructor of JobCounter.cs establishes the types.
LEMMA TypeOKInit == Init => TypeOK
<1> SUFFICES ASSUME Init
             PROVE  TypeOK
  OBVIOUS
<1>1. last \in MinValue..MaxValue
  BY MaxValueAssumption DEF Init, MinValue
<1>2. pc \in [Threads -> Access] /\ begun \in [Threads -> Nat] /\ calls \in Nat
  BY DEF Init, Access
<1>3. issued \in Seq(Call)
  BY DEF Init
<1>4. wrapped \in BOOLEAN
  BY DEF Init
<1> QED
  BY <1>1, <1>2, <1>3, <1>4 DEF TypeOK

\* A GetNext call of JobCounter.cs leaves _last an int: every step of every
\* thread preserves the types of the model's variables.
LEMMA TypeOKStep == TypeOK /\ [Next]_vars => TypeOK'
<1> SUFFICES ASSUME TypeOK, [Next]_vars
             PROVE  TypeOK'
  OBVIOUS
<1> USE MaxValueAssumption DEF TypeOK, MinValue, Access
<1>1. ASSUME NEW t \in Threads, Begin(t)
      PROVE  TypeOK'
  <2>1. Len(issued) \in Nat
    BY LenProperties
  <2> QED
    BY <1>1, <2>1 DEF Begin
<1>2. ASSUME NEW t \in Threads, ResetAtMax(t)
      PROVE  TypeOK'
  BY <1>2 DEF ResetAtMax
<1>3. ASSUME NEW t \in Threads, Increment(t)
      PROVE  TypeOK'
  BY <1>3 DEF Increment
<1>4. ASSUME NEW t \in Threads, Return(t)
      PROVE  TypeOK'
  <2>1. [id |-> last, after |-> begun[t]] \in Call
    BY DEF Call
  <2>2. issued' \in Seq(Call)
    BY <1>4, <2>1, AppendProperties DEF Return
  <2> QED
    BY <1>4, <2>2 DEF Return
<1>5. CASE UNCHANGED vars
  BY <1>5 DEF vars
<1> QED
  BY <1>1, <1>2, <1>3, <1>4, <1>5 DEF Next, GetNext

\* Type correctness of the counter: _last never leaves the int range however
\* calls of GetNext interleave (the increment wraps, it never widens).
THEOREM TypeCorrect == Spec => []TypeOK
  BY TypeOKInit, TypeOKStep, PTL DEF Spec

\* The strengthened invariant holds before the first call of GetNext.
LEMMA IInvInit == Init => IInv
<1> SUFFICES ASSUME Init
             PROVE  IInv
  OBVIOUS
<1>1. TypeOK
  BY TypeOKInit
<1>2. Len(issued) = 0
  BY DEF Init
<1> QED
  BY <1>1, <1>2 DEF Init, IInv, IssuedInThePast, NoIdAboveLast,
                    ReadersSeeALargerId, LaterCallsGetLargerIds

\* Every access of GetNext, by any thread, preserves the strengthened
\* invariant: the increment is what makes room above the ids handed out.
LEMMA IInvStep == IInv /\ [Next]_vars => IInv'
<1> SUFFICES ASSUME IInv, [Next]_vars
             PROVE  IInv'
  OBVIOUS
<1>t. TypeOK'
  BY TypeOKStep DEF IInv
<1>l. Len(issued) \in Nat
  BY LenProperties DEF IInv, TypeOK
<1>c. \A k \in 1..Len(issued) : issued[k].id \in Int /\ issued[k].after \in Nat
  <2>1. \A k \in 1..Len(issued) : issued[k] \in Call
    BY ElementOfSeq DEF IInv, TypeOK
  <2>2. \A r \in Call : r.id \in Int /\ r.after \in Nat
    BY MaxValueAssumption DEF Call, MinValue
  <2> QED
    BY <2>1, <2>2
<1>b. \A t \in Threads : begun[t] \in Nat
  BY DEF IInv, TypeOK
<1>i. last \in Int
  BY MaxValueAssumption DEF IInv, TypeOK, MinValue
<1> USE DEF IInv, TypeOK, IssuedInThePast, NoIdAboveLast,
            ReadersSeeALargerId, LaterCallsGetLargerIds
<1>1. ASSUME NEW t \in Threads, Begin(t)
      PROVE  IInv'
  BY <1>1, <1>t, <1>l DEF Begin, Access
<1>2. ASSUME NEW t \in Threads, ResetAtMax(t)
      PROVE  IInv'
  BY <1>2, <1>t, <1>l DEF ResetAtMax, Access
<1>3. ASSUME NEW t \in Threads, Increment(t)
      PROVE  IInv'
  <2>1. CASE last = MaxValue
    BY <1>3, <1>t, <1>l, <2>1 DEF Increment
  <2>2. CASE last # MaxValue
    <3>1. NoIdAboveLast'
      BY <1>3, <1>l, <1>c, <1>i, <2>2 DEF Increment
    <3>2. ReadersSeeALargerId'
      <4>1. \A u \in Threads : \A j \in 1..begun[u] : j \in 1..Len(issued)
        BY <1>l, <1>b
      <4>2. ~wrapped => \A j \in 1..Len(issued) : issued[j].id < last'
        BY <1>3, <1>c, <1>i, <2>2 DEF Increment
      <4>3. (wrapped' => wrapped) /\ (wrapped => wrapped') /\ UNCHANGED <<begun, issued>>
        BY <1>3, <2>2 DEF Increment
      <4> QED
        BY <4>1, <4>2, <4>3
    <3> QED
      BY <1>3, <1>t, <3>1, <3>2 DEF Increment
  <2> QED
    BY <2>1, <2>2
<1>4. ASSUME NEW t \in Threads, Return(t)
      PROVE  IInv'
  <2> DEFINE r == [id |-> last, after |-> begun[t]]
  <2>1. r \in Call
    BY DEF Call
  <2>2. /\ Len(issued') = Len(issued) + 1
        /\ \A k \in 1..Len(issued) : issued'[k] = issued[k]
        /\ issued'[Len(issued) + 1].id = last
        /\ issued'[Len(issued) + 1].after = begun[t]
    BY <1>4, <2>1, AppendProperties DEF Return
  <2>3. /\ last' = last /\ begun' = begun /\ wrapped' = wrapped
        /\ pc[t] = "read" /\ pc' = [pc EXCEPT ![t] = "idle"]
    BY <1>4 DEF Return
  <2>4. \A u \in Threads : pc'[u] = "read" => pc[u] = "read"
    BY <2>3 DEF Access
  <2>5. \A k \in 1..Len(issued') : k \in 1..Len(issued) \/ k = Len(issued) + 1
    BY <1>l, <2>2
  <2>6. IssuedInThePast'
    <3>1. \A u \in Threads : begun'[u] <= Len(issued')
      BY <1>l, <1>b, <2>2, <2>3
    <3>2. \A k \in 1..Len(issued) : issued'[k].after <= Len(issued')
      <4> SUFFICES ASSUME NEW k \in 1..Len(issued)
                   PROVE  issued'[k].after <= Len(issued')
        OBVIOUS
      <4>1. issued[k].after \in Nat /\ issued[k].after <= Len(issued)
        BY <1>c
      <4>2. issued'[k] = issued[k] /\ Len(issued') = Len(issued) + 1
        BY <2>2
      <4> QED
        BY <1>l, <4>1, <4>2
    <3>3. issued'[Len(issued) + 1].after <= Len(issued')
      BY <1>l, <1>b, <2>2
    <3> QED
      BY <2>5, <3>1, <3>2, <3>3
  <2>7. NoIdAboveLast'
    <3>1. ~wrapped => \A k \in 1..Len(issued) : issued'[k].id <= last
      BY <2>2
    <3>2. issued'[Len(issued) + 1].id <= last
      BY <1>i, <2>2
    <3> QED
      BY <2>3, <2>5, <3>1, <3>2
  <2>8. ReadersSeeALargerId'
    BY <1>l, <1>b, <2>2, <2>3, <2>4
  <2>9. LaterCallsGetLargerIds'
    <3> SUFFICES ASSUME ~wrapped,
                        NEW k \in 1..Len(issued'), NEW i \in 1..issued'[k].after
                 PROVE  issued'[i].id < issued'[k].id
      BY <2>3
    <3>1. CASE k \in 1..Len(issued)
      <4>1. issued'[k] = issued[k]
        BY <2>2, <3>1
      <4>2. i \in 1..issued[k].after
        BY <4>1
      <4>3. i \in 1..Len(issued)
        BY <1>l, <1>c, <3>1, <4>2
      <4>4. issued'[i] = issued[i]
        BY <2>2, <4>3
      <4>5. issued[i].id < issued[k].id
        BY <3>1, <4>2
      <4> QED
        BY <4>1, <4>4, <4>5
    <3>2. CASE k = Len(issued) + 1
      BY <1>l, <1>c, <1>b, <2>2, <2>3, <3>2
    <3> QED
      BY <2>5, <3>1, <3>2
  <2> QED
    BY <1>t, <2>6, <2>7, <2>8, <2>9
<1>5. CASE UNCHANGED vars
  BY <1>5 DEF vars
<1> QED
  BY <1>1, <1>2, <1>3, <1>4, <1>5 DEF Next, GetNext

\* A call of GetNext that begins after another returned gets the larger id,
\* for every number of threads and calls, as long as _last has not wrapped.
THEOREM LaterIdsAreLarger == Spec => []LaterCallsGetLargerIds
<1>1. IInv => LaterCallsGetLargerIds
  BY DEF IInv
<1> QED
  BY <1>1, IInvInit, IInvStep, PTL DEF Spec

(***************************************************************************)
(* WorkerJobs.                                                             *)
(***************************************************************************)

Prepared == {PrepareBlobTemplate(t) : t \in Templates}

Blobs == {EncodeBlob(template, n) : n \in 1..MaxCalls}

WorkerJob ==
  [blob : Blobs, target : {EncodeTarget(Difficulty)}, after : Nat, alone : BOOLEAN]

Places == {"outside", "id", "read", "write", "encode"}

(***************************************************************************)
(* The inductive invariant.                                                *)
(***************************************************************************)
WorkShape ==
  /\ template \in Prepared
  /\ extraNonce \in Nat
  /\ place \in [Threads -> Places]
  /\ seen \in [Threads -> Nat]
  /\ after \in [Threads -> Nat]
  /\ jobs \in Seq(WorkerJob)
  /\ alone \in [Threads -> BOOLEAN]

\* A thread is in GetNext exactly while it draws its id.
IdsAreDrawnFirst == \A t \in Threads : pc[t] # "idle" <=> place[t] = "id"

\* The calls that have yet to read extraNonce.
Waiting == {t \in Threads : place[t] \in {"id", "read"}}

\* No extra nonce is larger than the number of calls that have read the field,
\* so that ++extraNonce never wraps to the zero of the template.
NoncesAreCounted ==
  /\ IsFiniteSet(Waiting)
  /\ calls <= MaxCalls
  /\ extraNonce + Cardinality(Waiting) <= calls
  /\ \A t \in Threads : /\ seen[t] + Cardinality(Waiting) <= calls
                        /\ place[t] \in {"write", "encode"} => seen[t] >= 1

JobsBeginInThePast ==
  /\ \A t \in Threads : after[t] <= Len(jobs)
  /\ \A k \in 1..Len(jobs) : jobs[k].after <= Len(jobs)

\* No write to come takes extraNonce back to n: it is out of use.
Settled(n) ==
  /\ n <= extraNonce
  /\ \A u \in Threads : place[u] = "write" => n < seen[u]

\* The extra nonce of a thread that wrote alone is settled ...
LoneWritesAreSettled ==
  \A t \in Threads : place[t] = "encode" /\ alone[t] => Settled(seen[t])

\* ... and stays so after the job exists; a call that began since has a larger
\* one by the time it encodes.
LoneJobsAreSettled ==
  \A i \in 1..Len(jobs) : \A n \in 1..MaxCalls :
    jobs[i].alone /\ jobs[i].blob = EncodeBlob(template, n) =>
      /\ Settled(n)
      /\ \A u \in Threads : place[u] = "encode" /\ i <= after[u] => n < seen[u]

WorkInv ==
  /\ TypeOK
  /\ WorkShape
  /\ IdsAreDrawnFirst
  /\ NoncesAreCounted
  /\ JobsBeginInThePast
  /\ LoneWritesAreSettled
  /\ LoneJobsAreSettled
  /\ LaterJobsGetNewWork

-------------------------------------------------------------------------------

\* CreateWorkerJob uses _workerJobCounter only through GetNext: every step of
\* the worker jobs is a step of JobCounter or leaves the counter alone.
LEMMA CounterStep == [NextWork]_allVars => [Next]_vars
<1>1. ASSUME NEW t \in Threads, Enter(t) \/ DrawId(t) \/ GotId(t)
      PROVE  Next
  BY <1>1 DEF Enter, DrawId, GotId, Next, GetNext
<1>2. ASSUME NEW t \in Threads, ReadNonce(t) \/ WriteNonce(t) \/ EncodeWork(t)
      PROVE  UNCHANGED vars
  BY <1>2 DEF ReadNonce, WriteNonce, EncodeWork
<1>3. UNCHANGED allVars => UNCHANGED vars
  BY DEF allVars
<1> QED
  BY <1>1, <1>2, <1>3 DEF NextWork, CreateWorkerJob

\* The extra nonces of a job are counted in whole bytes.
LEMMA NonceRangeType == NonceRange \in Nat \ {0}
BY NonceAssumption, ByteBaseType DEF NonceRange

\* An array of n zeros.
Zeros(n) == [i \in 1..n |-> 0]

\* Buffer.BlockCopy of one array behind another into zeros, one more than
\* the length of both, makes their concatenation and a zero.
LEMMA CopiedInto ==
  ASSUME NEW S, NEW d \in Seq(S), NEW e \in Seq(S), 0 \in S
  PROVE  CopyTo(d, CopyTo(e, Zeros(Len(d) + Len(e) + 1), Len(d)), 0) = d \o e \o <<0>>
<1> DEFINE inner == CopyTo(e, Zeros(Len(d) + Len(e) + 1), Len(d))
           both == d \o e
           zero == <<0>>
           whole == both \o zero
<1>1. Len(d) \in Nat /\ Len(e) \in Nat
  BY LenProperties
<1>2. /\ both \in Seq(S) /\ Len(both) = Len(d) + Len(e)
      /\ \A i \in 1..(Len(d) + Len(e)) :
            both[i] = IF i <= Len(d) THEN d[i] ELSE e[i - Len(d)]
  BY ConcatProperties
<1>3. zero \in Seq(S) /\ Len(zero) = 1 /\ zero[1] = 0
  OBVIOUS
<1> HIDE DEF both, zero
<1>4. /\ whole \in Seq(S) /\ Len(whole) = Len(both) + 1
      /\ \A i \in 1..(Len(both) + 1) :
            whole[i] = IF i <= Len(both) THEN both[i] ELSE zero[i - Len(both)]
  <2>0. both \in Seq(S) /\ zero \in Seq(S)
    BY <1>2, <1>3
  <2>1. /\ whole \in Seq(S) /\ Len(whole) = Len(both) + Len(zero)
        /\ \A i \in 1..(Len(both) + Len(zero)) :
              whole[i] = IF i <= Len(both) THEN both[i] ELSE zero[i - Len(both)]
    BY <2>0, ConcatProperties
  <2> QED
    BY <1>3, <2>1
<1> HIDE DEF whole
<1>5. whole = [i \in 1..(Len(d) + Len(e) + 1) |-> whole[i]]
  BY <1>1, <1>2, <1>4, LenProperties
<1>6. /\ DOMAIN inner = 1..(Len(d) + Len(e) + 1)
      /\ \A i \in 1..(Len(d) + Len(e) + 1) :
            inner[i] = IF i \in (Len(d) + 1)..(Len(d) + Len(e))
                       THEN e[i - Len(d)] ELSE 0
  BY <1>1 DEF CopyTo, Zeros
<1> HIDE DEF inner
<1>7. CopyTo(d, inner, 0) = [i \in 1..(Len(d) + Len(e) + 1) |->
                                IF i \in 1..Len(d) THEN d[i] ELSE inner[i]]
  <2>1. \A i \in 1..(Len(d) + Len(e) + 1) : i - 0 = i
    BY <1>1
  <2>2. (0 + 1)..(0 + Len(d)) = 1..Len(d)
    BY <1>1
  <2> QED
    BY <1>6, <2>1, <2>2 DEF CopyTo
<1>8. ASSUME NEW i \in 1..(Len(d) + Len(e) + 1)
      PROVE  whole[i] = IF i \in 1..Len(d) THEN d[i] ELSE inner[i]
  <2>1. CASE i \in 1..Len(d)
    BY <1>1, <1>2, <1>4, <2>1
  <2>2. CASE i \in (Len(d) + 1)..(Len(d) + Len(e))
    <3>1. i \in 1..(Len(d) + Len(e)) /\ ~(i <= Len(d)) /\ i \notin 1..Len(d)
      BY <1>1, <2>2
    <3>2. whole[i] = both[i]
      BY <1>1, <1>2, <1>4, <3>1
    <3>3. both[i] = e[i - Len(d)]
      BY <1>2, <3>1
    <3>4. inner[i] = e[i - Len(d)]
      BY <1>6, <2>2
    <3> QED
      BY <3>1, <3>2, <3>3, <3>4
  <2>3. CASE i = Len(d) + Len(e) + 1
    <3>1. i - Len(both) = 1 /\ ~(i <= Len(both)) /\ i \in 1..(Len(both) + 1)
      BY <1>1, <1>2, <2>3
    <3>2. whole[i] = 0
      BY <1>3, <1>4, <3>1
    <3> QED
      BY <1>1, <1>6, <2>3, <3>2
  <2> QED
    BY <1>1, <2>1, <2>2, <2>3
<1> QED
  BY <1>5, <1>7, <1>8 DEF whole, both, zero, inner

\* MoneroJob.cs, PrepareBlobTemplate and EncodeBlob: the reserved bytes of the
\* blob are the extra nonce, the instance id and a zero.
LEMMA EncodedReserved ==
  ASSUME template \in Prepared, NEW n \in Nat
  PROVE  EncodeBlob(template, n) =
           HashingBlob([template EXCEPT !.reserved =
                          Digits(n, ByteBase, NonceSize) \o InstanceId \o <<0>>])
<1> DEFINE nonce == Digits(n, ByteBase, NonceSize)
           zeros == Zeros(NonceSize + Len(InstanceId) + 1)
<1>1. PICK t \in Templates : template = PrepareBlobTemplate(t)
  BY DEF Prepared
<1>2. t = [header |-> t.header, reserved |-> zeros, txHashes |-> t.txHashes]
  BY TemplatesAssumption DEF Zeros
<1>3. t.reserved = zeros
  BY <1>2
<1>4. template.reserved = CopyTo(InstanceId, zeros, NonceSize)
  BY <1>1, <1>2, <1>3 DEF PrepareBlobTemplate
<1>5. PICK S : /\ nonce \in Seq(S) /\ InstanceId \in Seq(S) /\ 0 \in S
               /\ Len(nonce) = NonceSize
  <2> DEFINE S == {nonce[i] : i \in 1..NonceSize}
                    \cup {InstanceId[i] : i \in 1..Len(InstanceId)} \cup {0}
  <2>1. NonceSize \in Nat /\ InstanceId \in Seq(Byte)
    BY NonceAssumption, TemplatesAssumption
  <2>2. nonce = [i \in 1..NonceSize |-> nonce[i]]
    BY DEF Digits
  <2> HIDE DEF nonce
  <2>3. nonce \in [1..NonceSize -> S]
    BY <2>2
  <2>4. nonce \in Seq(S) /\ Len(nonce) = NonceSize
    BY <2>1, <2>3
  <2>5. InstanceId \in Seq(S)
    <3>1. InstanceId \in [1..Len(InstanceId) -> S] /\ Len(InstanceId) \in Nat
      BY <2>1, LenProperties
    <3> QED
      BY <3>1
  <2>6. 0 \in S
    OBVIOUS
  <2> QED
    BY <2>4, <2>5, <2>6
<1> HIDE DEF nonce
<1>6. CopyTo(nonce, CopyTo(InstanceId, zeros, NonceSize), 0)
        = nonce \o InstanceId \o <<0>>
  <2>1. CopyTo(nonce,
               CopyTo(InstanceId, Zeros(Len(nonce) + Len(InstanceId) + 1), Len(nonce)), 0)
          = nonce \o InstanceId \o <<0>>
    BY <1>5, CopiedInto
  <2> QED
    BY <1>5, <2>1
<1> QED
  BY <1>4, <1>6 DEF EncodeBlob, nonce

\* The extra nonces of a job's calls give blobs that differ (MoneroJob.cs,
\* EncodeBlob), whichever template the job was made of: the root tells the
\* miner's transactions apart, and they carry the digits of the extra nonces.
LEMMA BlobsDiffer ==
  ASSUME template \in Prepared, NEW m \in 1..MaxCalls, NEW n \in 1..MaxCalls,
         EncodeBlob(template, m) = EncodeBlob(template, n)
  PROVE  m = n
<1> DEFINE Area(k) == Digits(k, ByteBase, NonceSize) \o InstanceId \o <<0>>
           Filled(k) == [template EXCEPT !.reserved = Area(k)]
<1>1. PICK t \in Templates : template = PrepareBlobTemplate(t)
  BY DEF Prepared
<1>2. t.txHashes \in Seq(Range(t.txHashes)) /\ Len(t.txHashes) < Power(2, 28)
  BY TemplatesAssumption
<1>3. template.txHashes = t.txHashes /\ \A r : [template EXCEPT !.reserved = r].reserved = r
                                   /\ [template EXCEPT !.reserved = r].txHashes = t.txHashes
  <2>1. t = [header |-> t.header,
             reserved |-> [i \in 1..(NonceSize + Len(InstanceId) + 1) |-> 0],
             txHashes |-> t.txHashes]
    BY TemplatesAssumption
  <2> DEFINE r0 == CopyTo(InstanceId, t.reserved, NonceSize)
  <2>2. template = [t EXCEPT !.reserved = r0]
    BY <1>1 DEF PrepareBlobTemplate
  <2> HIDE DEF r0
  <2>3. template = [header |-> t.header, reserved |-> r0, txHashes |-> t.txHashes]
    BY <2>1, <2>2
  <2> QED
    BY <2>3
<1>4. m \in Nat /\ n \in Nat /\ m < NonceRange /\ n < NonceRange
  BY NonceAssumption, NonceRangeType, MaxCallsAssumption
<1>5. HashingBlob(Filled(m)) = HashingBlob(Filled(n))
  BY <1>4, EncodedReserved
<1>6. Area(m) = Area(n)
  <2>1. /\ Filled(m).txHashes = t.txHashes /\ Filled(m).reserved = Area(m)
        /\ Filled(n).txHashes = t.txHashes /\ Filled(n).reserved = Area(n)
    BY <1>3, Zenon
  <2>2. PICK f, g : /\ f = Filled(m) /\ g = Filled(n)
                    /\ f.txHashes = t.txHashes /\ g.txHashes = t.txHashes
                    /\ HashingBlob(f) = HashingBlob(g)
    <3> HIDE DEF Filled, Area
    <3> QED
      BY <1>5, <2>1
  <2> HIDE DEF Filled, Area
  <2>3. f.reserved = g.reserved
    BY <1>2, <2>2, HashingBlobTellsReserved
  <2> QED
    BY <2>1, <2>2, <2>3, Zenon
<1>7. NonceSize \in Nat /\ ByteBase \in Nat \ {0}
  BY NonceAssumption, ByteBaseType
<1> DEFINE d(k) == Digits(k, ByteBase, NonceSize)
           rest == InstanceId \o <<0>>
<1>8. rest \in Seq(Byte)
  <2>1. InstanceId \in Seq(Byte) /\ 0 \in Byte
    BY TemplatesAssumption, ByteBaseType DEF Byte
  <2>2. <<0>> \in Seq(Byte)
    BY <2>1
  <2> QED
    BY <2>1, <2>2, ConcatProperties
<1>9. ASSUME NEW k \in Nat
      PROVE  d(k) \in Seq(Byte) /\ Area(k) = d(k) \o rest
  <2>1. d(k) \in Seq(Byte)
    BY <1>7, DigitsType DEF Byte
  <2>2. InstanceId \in Seq(Byte) /\ <<0>> \in Seq(Byte)
    <3> InstanceId \in Seq(Byte) /\ 0 \in Byte
      BY TemplatesAssumption, ByteBaseType DEF Byte
    <3> QED
      OBVIOUS
  <2>3. (d(k) \o InstanceId) \o <<0>> = d(k) \o (InstanceId \o <<0>>)
    <3> DEFINE a == d(k)
               z == <<0>>
    <3>1. a \in Seq(Byte) /\ InstanceId \in Seq(Byte) /\ z \in Seq(Byte)
      BY <2>1, <2>2
    <3> HIDE DEF a, z
    <3>2. (a \o InstanceId) \o z = a \o (InstanceId \o z)
      BY <3>1, ConcatAssociative
    <3> QED
      BY <3>2 DEF a, z
  <2> QED
    BY <2>1, <2>3
<1>10. d(m) = d(n)
  <2>1. d(m) \in Seq(Byte) /\ d(n) \in Seq(Byte) /\ d(m) \o rest = d(n) \o rest
    BY <1>4, <1>6, <1>9
  <2> HIDE DEF d, rest, Area, Filled
  <2> QED
    BY <1>8, <2>1, ConcatSimplifications, Zenon
<1> QED
  BY <1>4, <1>7, <1>10, DigitsDiffer DEF NonceRange

\* A MoneroJob starts with the template prepared and extraNonce zero.
LEMMA WorkInvInit == InitWork => WorkInv
<1> SUFFICES ASSUME InitWork
             PROVE  WorkInv
  OBVIOUS
<1>1. TypeOK
  BY TypeOKInit DEF InitWork
<1>2. jobs \in Seq(WorkerJob) /\ Len(jobs) = 0
  BY DEF InitWork
<1>3. WorkShape
  BY <1>2 DEF InitWork, WorkShape, Prepared, Places
<1>4. IdsAreDrawnFirst
  BY DEF InitWork, Init, IdsAreDrawnFirst
<1>5. NoncesAreCounted
  <2>1. Waiting = {}
    BY DEF InitWork, Waiting
  <2>2. IsFiniteSet(Waiting) /\ Cardinality(Waiting) = 0
    BY <2>1, FS_EmptySet
  <2> QED
    BY <2>2, MaxCallsAssumption DEF InitWork, Init, NoncesAreCounted
<1>6. JobsBeginInThePast
  BY <1>2 DEF InitWork, JobsBeginInThePast
<1>7. LoneWritesAreSettled
  BY DEF InitWork, LoneWritesAreSettled
<1>8. LoneJobsAreSettled /\ LaterJobsGetNewWork
  BY <1>2 DEF LoneJobsAreSettled, LaterJobsGetNewWork
<1> QED
  BY <1>1, <1>3, <1>4, <1>5, <1>6, <1>7, <1>8 DEF WorkInv

\* ++extraNonce does not wrap while its calls are counted.
LEMMA NonceFits ==
  ASSUME WorkInv, NEW t \in Threads, place[t] = "read"
  PROVE  /\ (extraNonce + 1) % NonceRange = extraNonce + 1
         /\ extraNonce + Cardinality(Waiting) <= calls
         /\ Cardinality(Waiting) >= 1
<1>1. IsFiniteSet(Waiting) /\ t \in Waiting
  BY DEF WorkInv, NoncesAreCounted, Waiting
<1>2. Cardinality(Waiting) \in Nat /\ Cardinality(Waiting) # 0
  BY <1>1, FS_CardinalityType, FS_EmptySet
<1>3. extraNonce + 1 <= MaxCalls
  BY <1>2, MaxCallsAssumption DEF WorkInv, NoncesAreCounted, WorkShape, TypeOK
<1>4. extraNonce + 1 \in 0..(NonceRange - 1)
  BY <1>3, NonceAssumption, NonceRangeType, MaxCallsAssumption DEF WorkInv, WorkShape
<1>5. \A a \in 0..(NonceRange - 1) : a % NonceRange = a
  <2> DEFINE r == NonceRange
  <2>1. r \in Nat
    BY NonceRangeType
  <2> HIDE DEF r
  <2>2. \A a \in 0..(r - 1) : a % r = a
    BY <2>1
  <2> QED
    BY <2>2 DEF r
<1> QED
  BY <1>2, <1>4, <1>5 DEF WorkInv, NoncesAreCounted

\* The record of a call that reaches EncodeBlob is a worker job.
LEMMA WorkerJobType ==
  ASSUME WorkInv, NEW t \in Threads, place[t] = "encode"
  PROVE  /\ seen[t] \in 1..MaxCalls
         /\ [blob |-> EncodeBlob(template, seen[t]),
             target |-> EncodeTarget(Difficulty),
             after |-> after[t], alone |-> alone[t]] \in WorkerJob
<1>1. Cardinality(Waiting) \in Nat
  BY FS_CardinalityType DEF WorkInv, NoncesAreCounted
<1>2. seen[t] \in 1..MaxCalls
  BY <1>1, MaxCallsAssumption DEF WorkInv, NoncesAreCounted, WorkShape, TypeOK
<1>3. EncodeBlob(template, seen[t]) \in Blobs
  BY <1>2 DEF Blobs
<1>4. after[t] \in Nat /\ alone[t] \in BOOLEAN
  BY DEF WorkInv, WorkShape
<1> QED
  BY <1>2, <1>3, <1>4 DEF WorkerJob

\* Every access of CreateWorkerJob leaves the state in its types.
LEMMA WorkShapeStep == WorkInv /\ NextWork => WorkShape' /\ template' = template
<1> SUFFICES ASSUME WorkInv, NEW t \in Threads, CreateWorkerJob(t)
             PROVE  WorkShape' /\ template' = template
  BY DEF NextWork
<1> USE DEF WorkShape, MoveTo, Places
<1>0. WorkShape
  BY DEF WorkInv
<1>1. template' = template
  BY DEF CreateWorkerJob, Enter, DrawId, GotId, ReadNonce, WriteNonce,
         EncodeWork, jobVars
<1>2. WorkerJob' = WorkerJob
  BY <1>1 DEF WorkerJob, Blobs
<1>3. CASE Enter(t)
  <2>1. Len(jobs) \in Nat
    BY <1>0, LenProperties
  <2> QED
    BY <1>0, <1>1, <1>2, <1>3, <2>1 DEF Enter
<1>4. CASE DrawId(t)
  BY <1>0, <1>1, <1>2, <1>4 DEF DrawId, jobVars
<1>5. CASE GotId(t)
  BY <1>0, <1>1, <1>2, <1>5 DEF GotId
<1>6. CASE ReadNonce(t)
  <2>1. (extraNonce + 1) % NonceRange \in Nat
    BY <1>0, <1>6, NonceFits DEF ReadNonce
  <2> QED
    BY <1>0, <1>1, <1>2, <1>6, <2>1 DEF ReadNonce
<1>7. CASE WriteNonce(t)
  BY <1>0, <1>1, <1>2, <1>7 DEF WriteNonce
<1>8. CASE EncodeWork(t)
  <2> DEFINE job == [blob |-> EncodeBlob(template, seen[t]),
                     target |-> EncodeTarget(Difficulty),
                     after |-> after[t], alone |-> alone[t]]
  <2>1. job \in WorkerJob
    BY <1>8, WorkerJobType DEF EncodeWork
  <2>2. jobs' = Append(jobs, job)
    BY <1>8 DEF EncodeWork
  <2> HIDE DEF job
  <2>3. jobs' \in Seq(WorkerJob)
    BY <1>0, <2>1, <2>2, AppendProperties
  <2>4. /\ place' = [place EXCEPT ![t] = "outside"]
        /\ UNCHANGED <<extraNonce, seen, after, alone>>
    BY <1>8 DEF EncodeWork
  <2> QED
    BY <1>0, <1>1, <1>2, <2>3, <2>4
<1> QED
  BY <1>3, <1>4, <1>5, <1>6, <1>7, <1>8 DEF CreateWorkerJob

\* A call of GetNext is the first thing a call of CreateWorkerJob does.
LEMMA IdsStep == WorkInv /\ NextWork => IdsAreDrawnFirst'
<1> SUFFICES ASSUME WorkInv, NEW t \in Threads, CreateWorkerJob(t)
             PROVE  IdsAreDrawnFirst'
  BY DEF NextWork
<1>0. /\ place \in [Threads -> Places] /\ pc \in [Threads -> Access]
      /\ IdsAreDrawnFirst
  BY DEF WorkInv, WorkShape, TypeOK
<1> USE DEF IdsAreDrawnFirst, MoveTo
<1>1. CASE Enter(t)
  BY <1>0, <1>1 DEF Enter, Begin
<1>2. CASE DrawId(t)
  BY <1>0, <1>2 DEF DrawId, ResetAtMax, Increment, jobVars
<1>3. CASE GotId(t)
  BY <1>0, <1>3 DEF GotId, Return
<1>4. CASE ReadNonce(t) \/ WriteNonce(t) \/ EncodeWork(t)
  BY <1>0, <1>4 DEF ReadNonce, WriteNonce, EncodeWork, vars
<1> QED
  BY <1>1, <1>2, <1>3, <1>4 DEF CreateWorkerJob

\* A call is counted when it begins, and leaves Waiting for the one value it
\* may add to those of extraNonce.
LEMMA NoncesStep == WorkInv /\ NextWork => NoncesAreCounted'
<1> SUFFICES ASSUME WorkInv, NEW t \in Threads, CreateWorkerJob(t)
             PROVE  NoncesAreCounted'
  BY DEF NextWork
<1>0. /\ extraNonce \in Nat /\ place \in [Threads -> Places]
      /\ seen \in [Threads -> Nat] /\ calls \in Nat /\ MaxCalls \in Nat
  BY MaxCallsAssumption DEF WorkInv, WorkShape, TypeOK
<1>f. IsFiniteSet(Waiting) /\ Cardinality(Waiting) \in Nat
  BY FS_CardinalityType DEF WorkInv, NoncesAreCounted
<1>i. NoncesAreCounted /\ IdsAreDrawnFirst
  BY DEF WorkInv
<1> USE DEF MoveTo
<1>1. CASE Enter(t)
  <2>1. Waiting' = Waiting \cup {t} /\ t \notin Waiting
    BY <1>0, <1>1 DEF Enter, Waiting
  <2>2. IsFiniteSet(Waiting') /\ Cardinality(Waiting') = Cardinality(Waiting) + 1
    BY <1>f, <2>1, FS_AddElement
  <2>3. /\ calls < MaxCalls /\ calls' = calls + 1
        /\ extraNonce' = extraNonce /\ seen' = seen
        /\ place' = [place EXCEPT ![t] = "id"]
    BY <1>1 DEF Enter, Begin
  <2> QED
    BY <1>0, <1>f, <1>i, <2>2, <2>3 DEF NoncesAreCounted
<1>2. CASE DrawId(t)
  <2>1. Waiting' = Waiting /\ UNCHANGED <<extraNonce, seen, place, calls>>
    BY <1>2 DEF DrawId, Waiting, jobVars, ResetAtMax, Increment
  <2> QED
    BY <1>i, <2>1 DEF NoncesAreCounted
<1>3. CASE GotId(t)
  <2>1. place[t] = "id"
    BY <1>3, <1>i DEF GotId, Return, IdsAreDrawnFirst
  <2>2. UNCHANGED <<extraNonce, seen, calls>> /\ place' = [place EXCEPT ![t] = "read"]
    BY <1>3 DEF GotId, Return
  <2>3. Waiting' = Waiting
    BY <1>0, <2>1, <2>2 DEF Waiting
  <2> QED
    BY <1>0, <1>i, <2>2, <2>3 DEF NoncesAreCounted
<1>4. CASE ReadNonce(t)
  <2>1. /\ place[t] = "read" /\ UNCHANGED <<extraNonce, calls>>
        /\ seen' = [seen EXCEPT ![t] = extraNonce + 1]
        /\ place' = [place EXCEPT ![t] = "write"]
    BY <1>4, NonceFits DEF ReadNonce, vars
  <2>2. Waiting' = Waiting \ {t} /\ t \in Waiting
    BY <1>0, <2>1 DEF Waiting
  <2>3. IsFiniteSet(Waiting') /\ Cardinality(Waiting') = Cardinality(Waiting) - 1
    BY <1>f, <2>2, FS_RemoveElement
  <2> QED
    BY <1>0, <1>f, <1>i, <2>1, <2>3 DEF NoncesAreCounted
<1>5. CASE WriteNonce(t)
  <2>1. /\ place[t] = "write" /\ UNCHANGED <<seen, calls>> /\ extraNonce' = seen[t]
        /\ place' = [place EXCEPT ![t] = "encode"]
    BY <1>5 DEF WriteNonce, vars
  <2>2. Waiting' = Waiting
    BY <1>0, <2>1 DEF Waiting
  <2> QED
    BY <1>0, <1>f, <1>i, <2>1, <2>2 DEF NoncesAreCounted
<1>6. CASE EncodeWork(t)
  <2>1. /\ place[t] = "encode" /\ UNCHANGED <<seen, calls, extraNonce>>
        /\ place' = [place EXCEPT ![t] = "outside"]
    BY <1>6 DEF EncodeWork, vars
  <2>2. Waiting' = Waiting
    BY <1>0, <2>1 DEF Waiting
  <2> QED
    BY <1>0, <1>f, <1>i, <2>1, <2>2 DEF NoncesAreCounted
<1> QED
  BY <1>1, <1>2, <1>3, <1>4, <1>5, <1>6 DEF CreateWorkerJob

\* What a call of CreateWorkerJob adds to the jobs when it ends.
LEMMA EncodeWorkAppends ==
  ASSUME WorkInv, NEW t \in Threads, EncodeWork(t)
  PROVE  /\ Len(jobs) \in Nat /\ Len(jobs') = Len(jobs) + 1
         /\ \A k \in 1..Len(jobs) : jobs'[k] = jobs[k]
         /\ jobs'[Len(jobs) + 1].blob = EncodeBlob(template, seen[t])
         /\ jobs'[Len(jobs) + 1].after = after[t]
         /\ jobs'[Len(jobs) + 1].alone = alone[t]
<1> DEFINE job == [blob |-> EncodeBlob(template, seen[t]),
                   target |-> EncodeTarget(Difficulty),
                   after |-> after[t], alone |-> alone[t]]
<1>1. job \in WorkerJob
  BY WorkerJobType DEF EncodeWork
<1>2. jobs' = Append(jobs, job) /\ jobs \in Seq(WorkerJob)
  BY DEF EncodeWork, WorkInv, WorkShape
<1>3. /\ job.blob = EncodeBlob(template, seen[t])
      /\ job.after = after[t] /\ job.alone = alone[t]
  OBVIOUS
<1> HIDE DEF job
<1>4. Len(jobs) \in Nat
  BY <1>2, LenProperties
<1> QED
  BY <1>1, <1>2, <1>3, <1>4, AppendProperties

\* Jobs are only ever added, and the calls that end know no later ones.
LEMMA PastStep == WorkInv /\ NextWork => JobsBeginInThePast'
<1> SUFFICES ASSUME WorkInv, NEW t \in Threads, CreateWorkerJob(t)
             PROVE  JobsBeginInThePast'
  BY DEF NextWork
<1>0. /\ after \in [Threads -> Nat] /\ JobsBeginInThePast /\ Len(jobs) \in Nat
  BY LenProperties DEF WorkInv, WorkShape
<1>1. CASE Enter(t)
  BY <1>0, <1>1 DEF Enter, JobsBeginInThePast
<1>2. CASE DrawId(t) \/ GotId(t) \/ ReadNonce(t) \/ WriteNonce(t)
  BY <1>0, <1>2 DEF DrawId, GotId, ReadNonce, WriteNonce, jobVars, JobsBeginInThePast
<1>3. CASE EncodeWork(t)
  <2>1. after' = after
    BY <1>3 DEF EncodeWork
  <2>2. \A k \in 1..Len(jobs) : jobs[k].after \in Nat
    <3>1. \A k \in 1..Len(jobs) : jobs[k] \in WorkerJob
      BY ElementOfSeq DEF WorkInv, WorkShape
    <3> QED
      BY <3>1 DEF WorkerJob
  <2> QED
    BY <1>0, <1>3, <2>1, <2>2, EncodeWorkAppends DEF JobsBeginInThePast
<1> QED
  BY <1>1, <1>2, <1>3 DEF CreateWorkerJob

\* No access of any thread brings a settled value of extraNonce back: who reads
\* the field gets more, and who writes it has more.
LEMMA SettledStep ==
  ASSUME WorkInv, NextWork, NEW n \in Nat, Settled(n)
  PROVE  Settled(n)'
<1>0. PICK t \in Threads : CreateWorkerJob(t)
  BY DEF NextWork
<1>i. /\ extraNonce \in Nat /\ place \in [Threads -> Places]
      /\ seen \in [Threads -> Nat]
  BY DEF WorkInv, WorkShape
<1> USE DEF Settled, MoveTo
<1>1. CASE Enter(t) \/ GotId(t) \/ EncodeWork(t)
  BY <1>i, <1>1 DEF Enter, GotId, EncodeWork
<1>2. CASE DrawId(t)
  BY <1>i, <1>2 DEF DrawId, jobVars
<1>3. CASE ReadNonce(t)
  <2>1. /\ extraNonce' = extraNonce
        /\ seen' = [seen EXCEPT ![t] = extraNonce + 1]
        /\ place' = [place EXCEPT ![t] = "write"]
    BY <1>3, NonceFits DEF ReadNonce
  <2> QED
    BY <1>i, <2>1
<1>4. CASE WriteNonce(t)
  BY <1>i, <1>4 DEF WriteNonce
<1> QED
  BY <1>0, <1>1, <1>2, <1>3, <1>4 DEF CreateWorkerJob

\* A thread that writes extraNonce while no other is about to leaves it settled.
LEMMA LoneWritesStep == WorkInv /\ NextWork => LoneWritesAreSettled'
<1> SUFFICES ASSUME WorkInv, NextWork,
                    NEW u \in Threads, place'[u] = "encode", alone'[u]
             PROVE  Settled(seen[u])'
  BY DEF LoneWritesAreSettled, Settled
<1>i. /\ extraNonce \in Nat /\ place \in [Threads -> Places]
      /\ seen \in [Threads -> Nat] /\ alone \in [Threads -> BOOLEAN]
  BY DEF WorkInv, WorkShape
<1>0. PICK t \in Threads : CreateWorkerJob(t)
  BY DEF NextWork
<1> USE DEF MoveTo
<1>1. CASE WriteNonce(t) /\ u = t
  <2>1. /\ extraNonce' = seen[t] /\ seen' = seen
        /\ place' = [place EXCEPT ![t] = "encode"]
        /\ alone' = [alone EXCEPT ![t] = ~Contended(t)]
    BY <1>1 DEF WriteNonce
  <2>2. ~Contended(t)
    BY <1>1, <1>i, <2>1
  <2> QED
    BY <1>1, <1>i, <2>1, <2>2 DEF Contended, Settled
<1>2. CASE ~(WriteNonce(t) /\ u = t)
  <2>1. place[u] = "encode" /\ alone'[u] = alone[u] /\ seen'[u] = seen[u]
    <3>1. CASE Enter(t)
      BY <1>i, <3>1 DEF Enter
    <3>2. CASE DrawId(t)
      BY <1>i, <3>2 DEF DrawId, jobVars
    <3>3. CASE GotId(t)
      BY <1>i, <3>3 DEF GotId
    <3>4. CASE ReadNonce(t)
      BY <1>i, <3>4 DEF ReadNonce
    <3>5. CASE WriteNonce(t)
      BY <1>i, <1>2, <3>5 DEF WriteNonce
    <3>6. CASE EncodeWork(t)
      BY <1>i, <3>6 DEF EncodeWork
    <3> QED
      BY <1>0, <3>1, <3>2, <3>3, <3>4, <3>5, <3>6 DEF CreateWorkerJob
  <2>2. Settled(seen[u])
    BY <2>1 DEF WorkInv, LoneWritesAreSettled
  <2>3. ASSUME NEW n \in Nat, n = seen[u]
        PROVE  Settled(n)'
    BY <2>2, <2>3, SettledStep
  <2> QED
    BY <1>i, <2>1, <2>3 DEF Settled
<1> QED
  BY <1>1, <1>2

\* Nobody who begins a call after a lone job exists encodes its extra nonce.
LEMMA LoneJobsStep == WorkInv /\ NextWork => LoneJobsAreSettled'
<1> SUFFICES ASSUME WorkInv, NextWork,
                    NEW i \in 1..Len(jobs'), NEW n \in 1..MaxCalls,
                    jobs'[i].alone, jobs'[i].blob = EncodeBlob(template, n)
             PROVE  /\ Settled(n)'
                    /\ \A u \in Threads :
                         place'[u] = "encode" /\ i <= after'[u] => n < seen'[u]
  BY WorkShapeStep DEF LoneJobsAreSettled, Settled
<1>i. /\ extraNonce \in Nat /\ place \in [Threads -> Places]
      /\ seen \in [Threads -> Nat] /\ after \in [Threads -> Nat]
      /\ template \in Prepared /\ Len(jobs) \in Nat /\ n \in Nat
  BY MaxCallsAssumption, LenProperties DEF WorkInv, WorkShape
<1>0. PICK t \in Threads : CreateWorkerJob(t)
  BY DEF NextWork
<1> USE DEF MoveTo
<1>1. ASSUME i \in 1..Len(jobs), jobs'[i] = jobs[i]
      PROVE  /\ Settled(n)'
             /\ \A u \in Threads :
                  place'[u] = "encode" /\ i <= after'[u] => n < seen'[u]
  <2>1. /\ Settled(n)
        /\ \A u \in Threads : place[u] = "encode" /\ i <= after[u] => n < seen[u]
    BY <1>1 DEF WorkInv, LoneJobsAreSettled
  <2>2. Settled(n)'
    BY <1>i, <2>1, SettledStep
  <2>3. ASSUME NEW u \in Threads, place'[u] = "encode", i <= after'[u]
        PROVE  n < seen'[u]
    <3>1. CASE WriteNonce(t) /\ u = t
      BY <1>i, <2>1, <3>1 DEF WriteNonce, Settled
    <3>2. CASE ~(WriteNonce(t) /\ u = t)
      <4>1. place[u] = "encode" /\ after'[u] = after[u] /\ seen'[u] = seen[u]
        <5>1. CASE Enter(t)
          BY <1>i, <2>3, <5>1 DEF Enter
        <5>2. CASE DrawId(t)
          BY <1>i, <2>3, <5>2 DEF DrawId, jobVars
        <5>3. CASE GotId(t)
          BY <1>i, <2>3, <5>3 DEF GotId
        <5>4. CASE ReadNonce(t)
          BY <1>i, <2>3, <5>4 DEF ReadNonce
        <5>5. CASE WriteNonce(t)
          BY <1>i, <2>3, <3>2, <5>5 DEF WriteNonce
        <5>6. CASE EncodeWork(t)
          BY <1>i, <2>3, <5>6 DEF EncodeWork
        <5> QED
          BY <1>0, <5>1, <5>2, <5>3, <5>4, <5>5, <5>6 DEF CreateWorkerJob
      <4> QED
        BY <2>1, <2>3, <4>1
    <3> QED
      BY <3>1, <3>2
  <2> QED
    BY <2>2, <2>3
<1>2. CASE EncodeWork(t)
  <2>1. CASE i \in 1..Len(jobs)
    BY <1>1, <1>2, <2>1, EncodeWorkAppends
  <2>2. CASE i = Len(jobs) + 1
    <3>1. EncodeBlob(template, n) = EncodeBlob(template, seen[t]) /\ alone[t]
      BY <1>2, <2>2, EncodeWorkAppends
    <3>2. seen[t] \in 1..MaxCalls /\ place[t] = "encode"
      BY <1>2, WorkerJobType DEF EncodeWork
    <3>3. n = seen[t]
      BY <1>i, <3>1, <3>2, BlobsDiffer
    <3>4. Settled(n)
      BY <3>1, <3>2, <3>3 DEF WorkInv, LoneWritesAreSettled
    <3>5. Settled(n)'
      BY <1>i, <3>4, SettledStep
    <3>6. \A u \in Threads : after'[u] < i
      BY <1>i, <1>2, <2>2 DEF EncodeWork, WorkInv, JobsBeginInThePast
    <3>7. \A u \in Threads : after'[u] \in Nat
      BY <1>i, <1>2 DEF EncodeWork
    <3> QED
      BY <1>i, <2>2, <3>5, <3>6, <3>7
  <2> QED
    BY <1>i, <1>2, <2>1, <2>2, EncodeWorkAppends
<1>3. CASE ~EncodeWork(t)
  <2>1. jobs' = jobs
    BY <1>0, <1>3 DEF CreateWorkerJob, Enter, DrawId, GotId, ReadNonce, WriteNonce,
                      jobVars
  <2> QED
    BY <1>1, <2>1
<1> QED
  BY <1>2, <1>3

\* The job a call ends with differs from the lone jobs before the call.
LEMMA NewWorkStep == WorkInv /\ NextWork => LaterJobsGetNewWork'
<1> SUFFICES ASSUME WorkInv, NEW t \in Threads, CreateWorkerJob(t)
             PROVE  LaterJobsGetNewWork'
  BY DEF NextWork
<1>i. /\ seen \in [Threads -> Nat] /\ after \in [Threads -> Nat]
      /\ jobs \in Seq(WorkerJob) /\ Len(jobs) \in Nat
      /\ template \in Prepared
  BY LenProperties DEF WorkInv, WorkShape
<1>n. LaterJobsGetNewWork /\ JobsBeginInThePast /\ LoneJobsAreSettled
  BY DEF WorkInv
<1>1. CASE EncodeWork(t)
  <2> SUFFICES ASSUME NEW k \in 1..Len(jobs'), NEW i \in 1..jobs'[k].after,
                      jobs'[i].alone, jobs'[i].blob = jobs'[k].blob
               PROVE  FALSE
    BY DEF LaterJobsGetNewWork
  <2>a. /\ Len(jobs') = Len(jobs) + 1
        /\ \A j \in 1..Len(jobs) : jobs'[j] = jobs[j]
        /\ jobs'[Len(jobs) + 1].blob = EncodeBlob(template, seen[t])
        /\ jobs'[Len(jobs) + 1].after = after[t]
    BY <1>1, EncodeWorkAppends
  <2>b. \A j \in 1..Len(jobs) : jobs[j] \in WorkerJob
    BY <1>i, ElementOfSeq
  <2>1. CASE k \in 1..Len(jobs)
    <3>1. jobs'[k] = jobs[k] /\ jobs[k].after \in Nat /\ jobs[k].after <= Len(jobs)
      BY <1>n, <2>a, <2>b, <2>1 DEF JobsBeginInThePast, WorkerJob
    <3>2. i \in 1..jobs[k].after /\ i \in 1..Len(jobs)
      BY <1>i, <3>1
    <3>3. jobs'[i] = jobs[i]
      BY <2>a, <3>2
    <3> QED
      BY <1>n, <2>1, <3>1, <3>2, <3>3 DEF LaterJobsGetNewWork
  <2>2. CASE k = Len(jobs) + 1
    <3>1. i \in 1..after[t] /\ after[t] \in Nat /\ after[t] <= Len(jobs)
      BY <1>i, <1>n, <2>a, <2>2 DEF JobsBeginInThePast
    <3>2. i \in 1..Len(jobs) /\ i <= after[t]
      BY <1>i, <3>1
    <3>3. jobs[i].alone /\ jobs[i].blob = EncodeBlob(template, seen[t])
      BY <2>a, <2>2, <3>2
    <3>4. seen[t] \in 1..MaxCalls /\ place[t] = "encode"
      BY <1>1, WorkerJobType DEF EncodeWork
    <3>5. seen[t] < seen[t]
      BY <1>n, <3>2, <3>3, <3>4 DEF LoneJobsAreSettled
    <3> QED
      BY <1>i, <3>5
  <2> QED
    BY <1>i, <2>a, <2>1, <2>2
<1>2. CASE ~EncodeWork(t)
  <2>1. jobs' = jobs
    BY <1>2 DEF CreateWorkerJob, Enter, DrawId, GotId, ReadNonce, WriteNonce, jobVars
  <2> QED
    BY <1>n, <2>1 DEF LaterJobsGetNewWork
<1> QED
  BY <1>1, <1>2

\* Every access of CreateWorkerJob, by any thread, preserves the invariant.
LEMMA WorkInvStep == WorkInv /\ [NextWork]_allVars => WorkInv'
<1> SUFFICES ASSUME WorkInv, [NextWork]_allVars
             PROVE  WorkInv'
  OBVIOUS
<1>1. TypeOK'
  BY CounterStep, TypeOKStep DEF WorkInv
<1>2. CASE NextWork
  BY <1>1, <1>2, WorkShapeStep, IdsStep, NoncesStep, PastStep, LoneWritesStep,
     LoneJobsStep, NewWorkStep DEF WorkInv
<1>3. CASE UNCHANGED allVars
  <2>1. UNCHANGED <<template, extraNonce, place, seen, after, jobs, alone, calls, pc>>
    BY <1>3 DEF allVars, jobVars, vars
  <2>2. WorkShape' /\ IdsAreDrawnFirst' /\ NoncesAreCounted' /\ JobsBeginInThePast'
    BY <2>1 DEF WorkInv, WorkShape, WorkerJob, Blobs, IdsAreDrawnFirst,
                NoncesAreCounted, Waiting, JobsBeginInThePast
  <2>3. LoneWritesAreSettled' /\ LoneJobsAreSettled' /\ LaterJobsGetNewWork'
    BY <2>1 DEF WorkInv, LoneWritesAreSettled, LoneJobsAreSettled, Settled,
                LaterJobsGetNewWork
  <2> QED
    BY <1>1, <2>2, <2>3 DEF WorkInv
<1> QED
  BY <1>2, <1>3

\* The invariant holds in every state of every history of worker jobs.
LEMMA WorkInvHolds == SpecWork => []WorkInv
  BY WorkInvInit, WorkInvStep, PTL DEF SpecWork

\* MoneroJob.CreateWorkerJob: a job whose extra nonce was written while nobody
\* else was about to write never shares its blob with a job whose call begins
\* later, for any number of threads and calls.
THEOREM LaterJobsAlwaysGetNewWork == SpecWork => []LaterJobsGetNewWork
<1>1. WorkInv => LaterJobsGetNewWork
  BY DEF WorkInv
<1> QED
  BY <1>1, WorkInvHolds, PTL

-------------------------------------------------------------------------------

\* MoneroJob.EncodeBlob: every blob a miner gets has an extra nonce other than
\* the template's zero, the instance id and a last zero in its reserved bytes,
\* for any number of threads and calls and any transactions.
THEOREM ReservedAreaIsAlwaysKept == SpecWork => []ReservedAreaIsKept
<1>1. WorkInv => ReservedAreaIsKept
  <2> SUFFICES ASSUME WorkInv, NEW k \in 1..Len(jobs)
               PROVE  \E n \in 1..(NonceRange - 1) :
                        jobs[k].blob = HashingBlob([template EXCEPT !.reserved =
                          Digits(n, ByteBase, NonceSize) \o InstanceId \o <<0>>])
    BY DEF ReservedAreaIsKept
  <2>1. jobs \in Seq(WorkerJob) /\ template \in Prepared
    BY DEF WorkInv, WorkShape
  <2>2. jobs[k] \in WorkerJob
    BY <2>1, ElementOfSeq
  <2>3. PICK n \in 1..MaxCalls : jobs[k].blob = EncodeBlob(template, n)
    BY <2>2 DEF WorkerJob, Blobs
  <2>4. n \in 1..(NonceRange - 1) /\ n \in Nat
    BY NonceAssumption, NonceRangeType, MaxCallsAssumption
  <2> QED
    BY <2>1, <2>3, <2>4, EncodedReserved
<1> QED
  BY <1>1, WorkInvHolds, PTL

\* Miners of one MoneroJob whose calls do not overlap get larger and larger
\* worker job ids until _workerJobCounter wraps: what JobCounter promises of its
\* callers holds where CreateWorkerJob is the caller.
THEOREM LaterWorkerJobsGetLargerIds == SpecWork => []LaterCallsGetLargerIds
<1>1. InitWork => IInv
  BY IInvInit DEF InitWork
<1>2. IInv /\ [NextWork]_allVars => IInv'
  BY CounterStep, IInvStep
<1>3. IInv => LaterCallsGetLargerIds
  BY DEF IInv
<1> QED
  BY <1>1, <1>2, <1>3, PTL DEF SpecWork

-------------------------------------------------------------------------------

\* MoneroJob.EncodeTarget: what a miner is told of its target is TargetHead bytes.
LEMMA TargetType == EncodeTarget(Difficulty) \in [1..TargetHead -> Byte]
<1>1. /\ TargetHead \in Nat /\ ByteBase \in Nat \ {0}
      /\ Difficulty \in Nat \ {0}
  BY TargetAssumption, ByteBaseType, DifficultyAssumption
<1>2. PICK told \in Nat : EncodeTarget(Difficulty) = Reverse(Digits(told, ByteBase, TargetHead))
  BY <1>1, EncodeTargetTells
<1> DEFINE digits == Digits(told, ByteBase, TargetHead)
<1>3. digits \in Seq(Byte) /\ Len(digits) = TargetHead
  BY <1>1, DigitsType DEF Byte
<1> HIDE DEF digits
<1>4. Reverse(digits) \in Seq(Byte) /\ Len(Reverse(digits)) = TargetHead
  BY <1>3, ReverseIsASeq
<1>5. Reverse(digits) \in [1..TargetHead -> Byte]
  BY <1>4, LenProperties
<1> QED
  BY <1>2, <1>5 DEF digits

\* The calls that have begun and not ended.
Working == {t \in Threads : place[t] # "outside"}

\* A job is made by a call of its own, so that there are never more of them, and
\* no call begins after more of them, than MaxCalls.
JobsAreCounted ==
  /\ IsFiniteSet(Working) /\ Len(jobs) + Cardinality(Working) <= calls
  /\ \A t \in Threads : after[t] <= MaxCalls

\* Every access of CreateWorkerJob keeps the count: a call adds one job when it
\* ends.
LEMMA JobsStep == WorkInv /\ JobsAreCounted /\ NextWork => JobsAreCounted'
<1> SUFFICES ASSUME WorkInv, JobsAreCounted, NEW t \in Threads, CreateWorkerJob(t)
             PROVE  JobsAreCounted'
  BY DEF NextWork
<1>i. /\ place \in [Threads -> Places] /\ after \in [Threads -> Nat]
      /\ calls \in Nat /\ MaxCalls \in Nat /\ calls <= MaxCalls /\ Len(jobs) \in Nat
  BY MaxCallsAssumption, LenProperties DEF WorkInv, WorkShape, TypeOK, NoncesAreCounted
<1>f. IsFiniteSet(Working) /\ Cardinality(Working) \in Nat
  BY FS_CardinalityType DEF JobsAreCounted
<1> USE DEF MoveTo
<1>1. CASE Enter(t)
  <2>1. Working' = Working \cup {t} /\ t \notin Working
    BY <1>i, <1>1 DEF Enter, Working
  <2>2. IsFiniteSet(Working') /\ Cardinality(Working') = Cardinality(Working) + 1
    BY <1>f, <2>1, FS_AddElement
  <2>3. jobs' = jobs /\ calls' = calls + 1 /\ after' = [after EXCEPT ![t] = Len(jobs)]
    BY <1>1 DEF Enter, Begin
  <2>4. Len(jobs) <= MaxCalls
    BY <1>i, <1>f DEF JobsAreCounted
  <2> QED
    BY <1>i, <1>f, <2>2, <2>3, <2>4 DEF JobsAreCounted
<1>2. CASE DrawId(t) \/ GotId(t) \/ ReadNonce(t) \/ WriteNonce(t)
  <2>1. UNCHANGED <<jobs, after, calls>>
    BY <1>2 DEF DrawId, GotId, ReadNonce, WriteNonce, jobVars, vars,
                ResetAtMax, Increment, Return
  <2>2. Working' = Working
    <3>1. CASE DrawId(t)
      BY <3>1 DEF DrawId, jobVars, Working
    <3>2. CASE GotId(t)
      <4>1. place[t] = "id"
        BY <3>2 DEF GotId, Return, WorkInv, IdsAreDrawnFirst
      <4> QED
        BY <1>i, <3>2, <4>1 DEF GotId, Working
    <3>3. CASE ReadNonce(t) \/ WriteNonce(t)
      BY <1>i, <3>3 DEF ReadNonce, WriteNonce, Working
    <3> QED
      BY <1>2, <3>1, <3>2, <3>3
  <2> QED
    BY <2>1, <2>2 DEF JobsAreCounted
<1>3. CASE EncodeWork(t)
  <2>1. Working' = Working \ {t} /\ t \in Working
    BY <1>i, <1>3 DEF EncodeWork, Working
  <2>2. IsFiniteSet(Working') /\ Cardinality(Working') = Cardinality(Working) - 1
    BY <1>f, <2>1, FS_RemoveElement
  <2>3. Len(jobs') = Len(jobs) + 1 /\ calls' = calls /\ after' = after
    BY <1>3, EncodeWorkAppends DEF EncodeWork, vars
  <2> QED
    BY <1>i, <1>f, <2>2, <2>3 DEF JobsAreCounted
<1> QED
  BY <1>1, <1>2, <1>3 DEF CreateWorkerJob

\* CreateWorkerJob keeps its types: extraNonce never wraps, no call knows more
\* jobs than calls, and every target has TargetHead bytes.
LEMMA TypeOKWorkHolds == WorkInv /\ JobsAreCounted => TypeOKWork
<1> SUFFICES ASSUME WorkInv, JobsAreCounted
             PROVE  TypeOKWork
  OBVIOUS
<1>1. Cardinality(Waiting) \in Nat
  BY FS_CardinalityType DEF WorkInv, NoncesAreCounted
<1>2. extraNonce \in 0..(NonceRange - 1)
  BY <1>1, NonceAssumption, NonceRangeType, MaxCallsAssumption
     DEF WorkInv, WorkShape, NoncesAreCounted, TypeOK
<1>3. seen \in [Threads -> 0..(NonceRange - 1)]
  BY <1>1, NonceAssumption, NonceRangeType, MaxCallsAssumption
     DEF WorkInv, WorkShape, NoncesAreCounted, TypeOK
<1>4. after \in [Threads -> 0..MaxCalls]
  BY MaxCallsAssumption DEF WorkInv, WorkShape, JobsAreCounted
<1>5. \A k \in 1..Len(jobs) : jobs[k].target \in [1..TargetHead -> Byte]
  <2>1. \A k \in 1..Len(jobs) : jobs[k] \in WorkerJob
    BY ElementOfSeq DEF WorkInv, WorkShape
  <2>2. \A k \in 1..Len(jobs) : jobs[k].target = EncodeTarget(Difficulty)
    BY <2>1 DEF WorkerJob
  <2> QED
    BY <2>2, TargetType
<1>6. /\ place \in [Threads -> {"outside", "id", "read", "write", "encode"}]
      /\ alone \in [Threads -> BOOLEAN]
  BY DEF WorkInv, WorkShape, Places
<1> QED
  BY <1>2, <1>3, <1>4, <1>5, <1>6 DEF TypeOKWork

\* MoneroJob.CreateWorkerJob: extraNonce stays in its uint and every miner is
\* told a target of TargetHead bytes, whatever threads create worker jobs.
THEOREM WorkTypeCorrect == SpecWork => []TypeOKWork
<1>1. InitWork => JobsAreCounted
  <2> SUFFICES ASSUME InitWork
               PROVE  JobsAreCounted
    OBVIOUS
  <2>1. Working = {} /\ Len(jobs) = 0
    BY DEF InitWork, Working
  <2>2. IsFiniteSet(Working) /\ Cardinality(Working) = 0
    BY <2>1, FS_EmptySet
  <2> QED
    BY <2>1, <2>2, MaxCallsAssumption DEF InitWork, Init, JobsAreCounted
<1>2. WorkInv /\ JobsAreCounted /\ [NextWork]_allVars => JobsAreCounted'
  <2>1. JobsAreCounted /\ UNCHANGED allVars => JobsAreCounted'
    BY DEF JobsAreCounted, Working, allVars, jobVars, vars
  <2> QED
    BY <2>1, JobsStep
<1> QED
  BY <1>1, <1>2, WorkInvHolds, TypeOKWorkHolds, PTL DEF SpecWork
===============================================================================
