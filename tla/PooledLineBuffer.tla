--------------------------- MODULE PooledLineBuffer ---------------------------
(***************************************************************************)
(* Hypepool.Core/Utils/Buffers/PooledLineBuffer.cs, which splits what one  *)
(* connection receives into request lines, with arrays rented from         *)
(* ArrayPool.  It belongs to the libuv loop's thread: OnRead calls Receive *)
(* and the completion callback calls Dispose.  One action is one iteration *)
(* of Receive's while loop; the finally block belongs to the last one.     *)
(* forceNewLine is left out: no caller sets it.                            *)
(***************************************************************************)
EXTENDS Integers, Sequences, FiniteSets

CONSTANTS
  Payload,        \* the bytes of requests
  MaxLength,      \* _maxLength, MaxInboundRequestLength of StratumClient
  MaxChunk,       \* bound of the model: the largest chunk a read delivers
  MaxChunks,      \* bound of the model: number of chunks received
  MaxTail         \* bound of the model: how much longer Rent's array may be

NewLine == 10

ASSUME PayloadAssumption == Payload \subseteq 1..255 /\ NewLine \notin Payload
ASSUME MaxLengthAssumption == MaxLength \in Nat \ {0}
ASSUME BoundsAssumption ==
  MaxChunk \in Nat /\ MaxChunks \in Nat /\ MaxTail \in Nat

Strings(bytes, lengths) == UNION {[1..n -> bytes] : n \in lengths}

Chunks == Strings(Payload \cup {NewLine}, 1..MaxChunk)

\* What an earlier renter left in an array beyond the bytes asked for.
LeftOvers == Strings(Payload \cup {NewLine}, 0..MaxTail)

\* PooledArraySegment, with the number of its array in the order of Rent.
Segment(id, array, offset, size) ==
  [id |-> id, array |-> array, offset |-> offset, size |-> size]

VARIABLES
  recvQueue,     \* _recvQueue
  buf,           \* the array of the running Receive, <<>> between calls
  bufferSize,    \* its parameter
  bufId,         \* the number of buf
  prevIndex,     \* its local variables
  remaining,
  disposed,      \* Dispose has been called
  \* history
  lines,         \* the segments given to onNext
  reports,       \* how often onError was called
  rents,         \* how many arrays were rented
  returned,      \* the numbers of the arrays returned, in order
  chunks         \* number of calls of Receive

callVars == <<buf, bufferSize, bufId, prevIndex, remaining>>
vars == <<recvQueue, callVars, disposed, lines, reports, rents, returned, chunks>>

Receiving == buf # <<>>

IsSegment(s) ==
  /\ s.id \in 1..rents
  /\ s.offset \in Nat /\ s.size \in Nat \ {0}
  /\ s.offset + s.size <= Len(s.array)

TypeOK ==
  /\ \A i \in 1..Len(recvQueue) : IsSegment(recvQueue[i])
  /\ \A i \in 1..Len(lines) : IsSegment(lines[i])
  /\ bufferSize \in 0..Len(buf)
  /\ prevIndex \in 0..bufferSize
  /\ remaining = bufferSize - prevIndex
  /\ bufId \in 0..rents
  /\ disposed \in BOOLEAN
  /\ reports \in Nat /\ rents \in Nat /\ chunks \in 0..MaxChunks
  /\ returned \in Seq(1..rents)

Init ==
  /\ recvQueue = <<>>
  /\ buf = <<>>
  /\ bufferSize = 0 /\ bufId = 0 /\ prevIndex = 0 /\ remaining = 0
  /\ disposed = FALSE
  /\ lines = <<>>
  /\ reports = 0
  /\ rents = 0
  /\ returned = <<>>
  /\ chunks = 0

-------------------------------------------------------------------------------
(* The pieces of Receive.                                                  *)

\* The bytes a reader of the segment sees (DeserializeRequest, ToArray).
Text(s) == SubSeq(s.array, s.offset + 1, s.offset + s.size)

\* Defect: the left-over contents are not cleared.
Uncleared(tail) == tail

\* Array.Clear beyond the received bytes.
Cleared(tail) == [i \in 1..Len(tail) |-> 0]

\* buf.IndexOf(0xa, start, buf.Length - start), over the whole array.
IndexOf(arr, start) ==
  LET found == {i \in start..Len(arr) - 1 : arr[i + 1] = NewLine}
  IN  IF found = {} THEN -1 ELSE CHOOSE i \in found : \A j \in found : i <= j

\* _recvQueue.Sum(x => x.Size)
QueuedSize(queue) ==
  LET sum[n \in 0..Len(queue)] == IF n = 0 THEN 0 ELSE sum[n - 1] + queue[n].size
  IN  sum[Len(queue)]

\* What copying the queued segments one after the other, each from index 0 of
\* its array, puts into the line.
Assembled(queue) ==
  LET text[n \in 0..Len(queue)] ==
        IF n = 0 THEN <<>>
        ELSE text[n - 1] \o SubSeq(queue[n].array, 1, queue[n].size)
  IN  text[Len(queue)]

Ids(queue) == [i \in 1..Len(queue) |-> queue[i].id]

\* The call returns; the finally block returns buf unless its lease is kept.
EndReceive(keepLease, given) ==
  /\ buf' = <<>>
  /\ bufferSize' = 0 /\ bufId' = 0 /\ prevIndex' = 0 /\ remaining' = 0
  /\ returned' = returned \o given \o (IF keepLease THEN <<>> ELSE <<bufId>>)

\* Defect: only the last segment is compared with the limit.
FloodedByLast(queue) == queue # <<>> /\ queue[Len(queue)].size > MaxLength

Flooded(queue) == QueuedSize(queue) > MaxLength

-------------------------------------------------------------------------------
(* Receive.                                                                *)

\* A chunk longer than the limit is reported and dropped.
RejectChunk ==
  /\ ~Receiving /\ ~disposed /\ chunks < MaxChunks
  /\ \E chunk \in Chunks : Len(chunk) > MaxLength
  /\ reports' = reports + 1
  /\ chunks' = chunks + 1
  /\ UNCHANGED <<recvQueue, callVars, disposed, lines, rents, returned>>

\* Rent, clear, readBuffer.
Receive(chunk) ==
  /\ ~Receiving /\ ~disposed /\ chunks < MaxChunks
  /\ Len(chunk) <= MaxLength
  /\ \E tail \in LeftOvers : buf' = chunk \o Cleared(tail)
  /\ bufferSize' = Len(chunk)
  /\ remaining' = Len(chunk)
  /\ prevIndex' = 0
  /\ rents' = rents + 1
  /\ bufId' = rents + 1
  /\ chunks' = chunks + 1
  /\ UNCHANGED <<recvQueue, disposed, lines, reports, returned>>

Index == IndexOf(buf, prevIndex)

\* The fast path: the newline ends the chunk and nothing is queued, the line
\* is a segment of buf itself.
FastPath == Index + 1 = bufferSize /\ recvQueue = <<>>

EmitFast ==
  /\ remaining > 0 /\ Index # -1
  /\ FastPath
  /\ LET length == Index - prevIndex
     IN  /\ lines' = IF length = 0 THEN lines
                     ELSE Append(lines, Segment(bufId, buf, prevIndex, length))
         /\ EndReceive(length > 0, <<>>)
  /\ UNCHANGED <<recvQueue, disposed, reports, rents, chunks>>

\* A line is assembled from the queue and the bytes before the newline.  Rent
\* of length 0 gives the shared empty array, which needs no return.
AssembleLine ==
  /\ remaining > 0 /\ Index # -1
  /\ ~FastPath
  /\ LET segmentLength == Index - prevIndex
         line == Assembled(recvQueue) \o SubSeq(buf, prevIndex + 1, Index)
     IN  /\ IF line = <<>> THEN UNCHANGED <<lines, rents>>
            ELSE /\ lines' = Append(lines, Segment(rents + 1, line, 0, Len(line)))
                 /\ rents' = rents + 1
         /\ prevIndex' = Index + 1
         /\ remaining' = remaining - (segmentLength + 1)
  /\ recvQueue' = <<>>
  /\ returned' = returned \o Ids(recvQueue)
  /\ UNCHANGED <<buf, bufferSize, bufId, disposed, reports, chunks>>

\* The loop ends with nothing remaining.
Exhausted ==
  /\ Receiving /\ remaining <= 0
  /\ EndReceive(FALSE, <<>>)
  /\ UNCHANGED <<recvQueue, disposed, lines, reports, rents, chunks>>

\* Defect: the lease of a buffer that is queued whole is not kept.
StoreWholeReturned ==
  /\ remaining > 0 /\ Index = -1
  /\ prevIndex = 0
  /\ recvQueue' = Append(recvQueue, Segment(bufId, buf, 0, remaining))
  /\ EndReceive(FALSE, <<>>)
  /\ reports' = IF Flooded(recvQueue') THEN reports + 1 ELSE reports
  /\ UNCHANGED <<disposed, lines, rents, chunks>>

\* No newline in the whole chunk: buf itself is queued.
StoreWhole ==
  /\ remaining > 0 /\ Index = -1
  /\ prevIndex = 0
  /\ recvQueue' = Append(recvQueue, Segment(bufId, buf, 0, remaining))
  /\ EndReceive(TRUE, <<>>)
  /\ reports' = IF Flooded(recvQueue') THEN reports + 1 ELSE reports
  /\ UNCHANGED <<disposed, lines, rents, chunks>>

\* The rest after the last newline is copied to an array of its own.
StoreRest ==
  /\ remaining > 0 /\ Index = -1
  /\ prevIndex # 0
  /\ LET rest == SubSeq(buf, prevIndex + 1, bufferSize)
     IN  recvQueue' = Append(recvQueue, Segment(rents + 1, rest, 0, Len(rest)))
  /\ rents' = rents + 1
  /\ EndReceive(FALSE, <<>>)
  /\ reports' = IF Flooded(recvQueue') THEN reports + 1 ELSE reports
  /\ UNCHANGED <<disposed, lines, chunks>>

\* The completion callback disposes the line buffer.
Dispose ==
  /\ ~Receiving /\ ~disposed
  /\ disposed' = TRUE
  /\ recvQueue' = <<>>
  /\ returned' = returned \o Ids(recvQueue)
  /\ UNCHANGED <<callVars, lines, reports, rents, chunks>>

Iteration == EmitFast \/ AssembleLine \/ Exhausted \/ StoreWhole \/ StoreRest

Next ==
  \/ RejectChunk
  \/ \E chunk \in Chunks : Receive(chunk)
  \/ Iteration
  \/ Dispose

\* Receive runs to its end once it has been called.
Spec == Init /\ [][Next]_vars /\ WF_vars(Iteration)

-------------------------------------------------------------------------------

(***************************************************************************)
(* PooledLineBuffer implements LineSplitter: however the socket cuts the   *)
(* stream into chunks, and whatever earlier renters left in the arrays,    *)
(* onNext gets exactly the lines of the stream.                            *)
(***************************************************************************)
Splitter == INSTANCE LineSplitter
  WITH input <- SubSeq(buf, prevIndex + 1, bufferSize),
       pending <- Assembled(recvQueue),
       lines <- [i \in 1..Len(lines) |-> Text(lines[i])]

SplitsTheStream == Splitter!Spec

(***************************************************************************)
(* Every rented array has exactly one owner, the running Receive, the      *)
(* queue or the line it was given to, or has been returned once: no array  *)
(* is leaked, and none goes back to ArrayPool while it is still in use.    *)
(***************************************************************************)
EveryArrayHasOneOwner ==
  \A id \in 1..rents :
      Cardinality({i \in 1..Len(recvQueue) : recvQueue[i].id = id})
    + Cardinality({i \in 1..Len(lines) : lines[i].id = id})
    + Cardinality({i \in 1..Len(returned) : returned[i] = id})
    + (IF bufId = id THEN 1 ELSE 0)  =  1

(***************************************************************************)
(* A flood does not go unnoticed: until onError is called the queue holds  *)
(* at most the limit, and no line is twice as long as the limit.           *)
(***************************************************************************)
FloodsAreReported ==
  reports = 0 => /\ QueuedSize(recvQueue) <= MaxLength
                 /\ \A i \in 1..Len(lines) : lines[i].size < 2 * MaxLength

===============================================================================
