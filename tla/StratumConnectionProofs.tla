------------------------ MODULE StratumConnectionProofs ------------------------
(***************************************************************************)
(* Proofs about StratumConnection, for any number of requests in flight    *)
(* and of failing writes, and every interleaving of the loop's callbacks   *)
(* with the tasks, the zombie timer and the broadcasting thread.           *)
(***************************************************************************)
EXTENDS StratumConnection, SequenceTheorems, TLAPS

(***************************************************************************)
(* The strengthening of the module's safety invariants.                    *)
(***************************************************************************)

\* DisconnectClient runs on the loop thread exactly inside the three callbacks
\* that call it, so that its end is the end of that call.
LoopCallsDisconnect ==
  disconnecting["loop"] # "none" <=> loop \in {"flood", "error", "completing"}

\* The socket follows the callbacks: open while it is being accepted, and
\* nothing runs for it before that or after it is closed.
SocketFollowsLoop ==
  /\ loop \in {"register", "connect"} => tcp = "open"
  /\ tcp \in {"none", "closed"} => loop = "idle"

\* The accept callback sets the context before the loop can read.
ContextPrecedesRequests ==
  /\ tcp # "none" /\ loop \notin {"register", "connect"} => context
  /\ \A r \in Requests : task[r] # "none" => context

\* OnReceiveComplete has removed the client before anything is released.
Completed == loop \in {"release", "empty", "close"} \/ tcp = "closed"

CompletedIsUnregistered == Completed => ~registered

\* The drainer is disposed before the queue is emptied, and stays so.
DrainerIsDisposedFirst ==
  drainer = "disposed" <=> loop \in {"empty", "close"} \/ tcp = "closed"

\* The queue has been emptied for the last time.
Emptied == loop = "close" \/ tcp = "closed"

\* A rented buffer that is not returned is with its sender before Enqueue, or
\* queued; queued after the last emptying, its sender is still to find out
\* that the drainer is disposed.
BuffersAreAccountedFor ==
  \A r \in rented :
    returned[r] = 0 => \/ task[r] = "rented"
                       \/ r \in Queued /\ (task[r] = "enqueued" \/ ~Emptied)

\* The control of the connection; the buffers are not needed for it.
ControlInv ==
  /\ LoopCallsDisconnect
  /\ SocketFollowsLoop
  /\ ContextPrecedesRequests
  /\ CompletedIsUnregistered
  /\ DrainerIsDisposedFirst

IInv ==
  /\ TypeOK
  /\ ControlInv
  /\ BuffersAreAccountedFor

-------------------------------------------------------------------------------

(***************************************************************************)
(* The send queue and the buffer pool.                                     *)
(***************************************************************************)

\* Buffers given back to the pool are counted, the others are not.
LEMMA ReturnCounts ==
  ASSUME returned \in [Requests -> Nat], NEW rs, Return(rs)
  PROVE  /\ returned' \in [Requests -> Nat]
         /\ \A r \in Requests : returned'[r] = 0 => returned[r] = 0 /\ r \notin rs
  BY DEF Return

\* _sendQueue.Enqueue: what was queued stays queued.
LEMMA QueuedAppend ==
  ASSUME sendQueue \in Seq(Requests), NEW r \in Requests,
         sendQueue' = Append(sendQueue, r)
  PROVE  /\ sendQueue' \in Seq(Requests)
         /\ Queued \subseteq Queued'
         /\ r \in Queued'
<1>1. /\ sendQueue' \in Seq(Requests)
      /\ Len(sendQueue') = Len(sendQueue) + 1
      /\ \A i \in 1..Len(sendQueue) : sendQueue'[i] = sendQueue[i]
      /\ sendQueue'[Len(sendQueue) + 1] = r
  BY AppendProperties
<1>2. Len(sendQueue) \in Nat
  BY LenProperties
<1> QED
  BY <1>1, <1>2 DEF Queued

\* DrainSendQueue takes the head off before it writes it.
LEMMA QueuedTail ==
  ASSUME sendQueue \in Seq(Requests), sendQueue # <<>>,
         sendQueue' = Tail(sendQueue)
  PROVE  /\ sendQueue' \in Seq(Requests)
         /\ Queued \subseteq {Head(sendQueue)} \cup Queued'
<1>1. /\ Tail(sendQueue) \in Seq(Requests)
      /\ Head(sendQueue) = sendQueue[1]
      /\ Len(Tail(sendQueue)) = Len(sendQueue) - 1
      /\ \A i \in 1..Len(Tail(sendQueue)) : Tail(sendQueue)[i] = sendQueue[i + 1]
  BY HeadTailProperties
<1>2. Len(sendQueue) \in Nat
  BY LenProperties
<1>3. ASSUME NEW i \in 1..Len(sendQueue)
      PROVE  sendQueue[i] \in {Head(sendQueue)} \cup Queued'
  <2>1. CASE i = 1
    BY <1>1, <2>1
  <2>2. CASE i # 1
    <3>1. i - 1 \in 1..Len(sendQueue') /\ sendQueue'[i - 1] = sendQueue[i]
      BY <1>1, <1>2, <2>2
    <3> QED
      BY <3>1 DEF Queued
  <2> QED
    BY <2>1, <2>2
<1> QED
  BY <1>1, <1>3 DEF Queued

-------------------------------------------------------------------------------

\* Types, callback by callback and thread by thread.
LEMMA TypeOKInit == Init => TypeOK
<1> SUFFICES ASSUME Init
             PROVE  TypeOK
  OBVIOUS
<1> USE DEF Init
<1>1. /\ disconnecting \in [Kickers -> {"none", "dispose", "clear", "remove"}]
      /\ task \in [Requests -> {"none", "running", "rented", "enqueued", "done"}]
      /\ returned \in [Requests -> Nat]
      /\ sendQueue \in Seq(Requests)
  OBVIOUS
<1>2. writeErrors \in 0..MaxWriteErrors
  BY MaxWriteErrorsAssumption
<1> QED
  BY <1>1, <1>2 DEF TypeOK, Handle

\* What DisconnectClient does to where its callers are.
LEMMA DisconnectingType ==
  ASSUME disconnecting \in [Kickers -> {"none", "dispose", "clear", "remove"}],
         NEW k \in Kickers, NEW at \in {"none", "dispose", "clear", "remove"},
         disconnecting' = [disconnecting EXCEPT ![k] = at]
  PROVE  /\ disconnecting' \in [Kickers -> {"none", "dispose", "clear", "remove"}]
         /\ disconnecting'[k] = at
         /\ \A j \in Kickers : j # k => disconnecting'[j] = disconnecting[j]
  OBVIOUS

\* The task of one request moves on.
LEMMA TaskType ==
  ASSUME task \in [Requests -> {"none", "running", "rented", "enqueued", "done"}],
         NEW r \in Requests,
         NEW at \in {"none", "running", "rented", "enqueued", "done"},
         task' = [task EXCEPT ![r] = at]
  PROVE  /\ task' \in [Requests -> {"none", "running", "rented", "enqueued", "done"}]
         /\ task'[r] = at
         /\ \A q \in Requests : q # r => task'[q] = task[q]
  OBVIOUS

\* Every callback of the loop, step of a task, timer and kick of StratumServer.cs
\* and StratumClient.cs keeps the types.
LEMMA TypeOKStep == TypeOK /\ [Next]_vars => TypeOK'
<1> SUFFICES ASSUME TypeOK, [Next]_vars
             PROVE  TypeOK'
  OBVIOUS
<1> USE DEF TypeOK, socketVars, serverVars, clientVars, handleVars, historyVars, vars
<1>k. "loop" \in Kickers /\ "zombie" \in Kickers /\ "broadcast" \in Kickers
  BY DEF Kickers
<1>1. CASE Accept \/ LoopStep \/ OnFlood
  <2>1. CASE Accept
    <3>1. /\ isAlive' \in BOOLEAN /\ subscription' \in BOOLEAN
          /\ tcp' = "open" /\ loop' = "register"
          /\ drainer' \in Handle /\ disposer' \in Handle
      BY <2>1 DEF Accept, Handle
    <3>2. UNCHANGED <<peerOpen, registered, disconnecting, zombie, broadcast, context,
                      received, sendQueue, task, rented, returned, written,
                      writeErrors>>
      BY <2>1 DEF Accept
    <3> QED
      BY <3>1, <3>2
  <2>2. CASE Register \/ OnConnect
    <3>1. CASE Register
      BY <3>1 DEF Register
    <3>2. CASE OnConnect
      BY <3>2 DEF OnConnect
    <3> QED
      BY <2>2, <3>1, <3>2
  <2>3. CASE OnReadError \/ Complete \/ OnFlood
    <3>1. disconnecting' \in [Kickers -> {"none", "dispose", "clear", "remove"}]
      BY <1>k, <2>3, DisconnectingType DEF OnReadError, Complete, OnFlood
    <3>2. isAlive' \in BOOLEAN /\ received' \in BOOLEAN
      BY <2>3 DEF OnReadError, Complete, OnFlood
    <3>3. loop' \in {"flood", "error", "completing"}
          /\ UNCHANGED <<peerOpen, tcp, registered, zombie, broadcast, context,
                        subscription, disposer, drainer, sendQueue, task, rented,
                        returned, written, writeErrors>>
      BY <2>3 DEF OnReadError, Complete, OnFlood
    <3> QED
      BY <3>1, <3>2, <3>3
  <2>6. CASE OnEndOfStream
    BY <2>6 DEF OnEndOfStream
  <2>4. CASE DisposeDrainer \/ CloseHandle
    BY <2>4 DEF DisposeDrainer, CloseHandle, Handle
  <2>5. CASE EmptySendQueue
    <3>1. returned' \in [Requests -> Nat]
      BY <2>5, ReturnCounts DEF EmptySendQueue
    <3>2. sendQueue' \in Seq(Requests)
      BY <2>5 DEF EmptySendQueue
    <3> QED
      BY <2>5, <3>1, <3>2 DEF EmptySendQueue
  <2> QED
    BY <1>1, <2>1, <2>2, <2>3, <2>4, <2>5, <2>6 DEF LoopStep
<1>2. CASE RunDisposer
  BY <1>2 DEF RunDisposer, Handle
<1>3. CASE DrainSendQueue
  <2>1. CASE tcp = "open"
    <3>1. returned' \in [Requests -> Nat]
      BY <1>3, <2>1, ReturnCounts DEF DrainSendQueue
    <3>2. sendQueue' \in Seq(Requests)
      BY <1>3, <2>1 DEF DrainSendQueue
    <3>3. Queued \subseteq Requests
      BY ElementOfSeq DEF Queued
    <3> QED
      BY <1>3, <2>1, <3>1, <3>2, <3>3 DEF DrainSendQueue, Handle
  <2>2. CASE tcp # "open"
    BY <1>3, <2>2 DEF DrainSendQueue, Handle
  <2> QED
    BY <2>1, <2>2
<1>4. CASE DrainFails
  <2>1. returned' \in [Requests -> Nat]
    BY <1>4, ReturnCounts DEF DrainFails
  <2>2. sendQueue' \in Seq(Requests)
    BY <1>4, QueuedTail DEF DrainFails
  <2>3. writeErrors' \in 0..MaxWriteErrors
    BY <1>4, MaxWriteErrorsAssumption DEF DrainFails
  <2> QED
    BY <1>4, <2>1, <2>2, <2>3 DEF DrainFails, Handle
<1>5. ASSUME NEW r \in Requests, OnRead(r) \/ Task(r)
      PROVE  TypeOK'
  <2>1. CASE OnRead(r) \/ EndTask(r) \/ RentBuffer(r)
    <3>1. task' \in [Requests -> {"none", "running", "rented", "enqueued", "done"}]
      BY <2>1, TaskType DEF OnRead, EndTask, RentBuffer
    <3>2. rented' \in SUBSET Requests /\ received' \in BOOLEAN
      BY <2>1 DEF OnRead, EndTask, RentBuffer
    <3> QED
      BY <2>1, <3>1, <3>2 DEF OnRead, EndTask, RentBuffer
  <2>2. CASE SerializeFails(r)
    <3>1. returned' \in [Requests -> Nat]
      BY <2>2, ReturnCounts DEF SerializeFails
    <3>2. task' \in [Requests -> {"none", "running", "rented", "enqueued", "done"}]
      BY <2>2, TaskType DEF SerializeFails
    <3> QED
      BY <2>2, <3>1, <3>2 DEF SerializeFails
  <2>3. CASE Enqueue(r)
    <3>1. sendQueue' \in Seq(Requests)
      BY <2>3, QueuedAppend DEF Enqueue
    <3> QED
      BY <2>3, <3>1 DEF Enqueue
  <2>4. CASE Signal(r)
    <3>1. returned' \in [Requests -> Nat]
      BY <2>4, ReturnCounts DEF Signal
    <3>2. task' \in [Requests -> {"none", "running", "rented", "enqueued", "done"}]
      BY <2>4, TaskType DEF Signal
    <3> QED
      BY <2>4, <3>1, <3>2 DEF Signal, Handle
  <2> QED
    BY <1>5, <2>1, <2>2, <2>3, <2>4 DEF Task
<1>6. ASSUME NEW k \in Kickers, DisconnectClient(k)
      PROVE  TypeOK'
  <2>1. CASE DisposeSubscription(k)
    BY <2>1 DEF DisposeSubscription, Handle
  <2>2. CASE ClearSubscription(k)
    <3>1. disconnecting' \in [Kickers -> {"none", "dispose", "clear", "remove"}]
      BY <2>2, DisconnectingType DEF ClearSubscription
    <3>2. isAlive' \in BOOLEAN /\ subscription' \in BOOLEAN
      BY <2>2 DEF ClearSubscription
    <3>3. UNCHANGED <<peerOpen, tcp, loop, registered, zombie, broadcast, context,
                      received, disposer, drainer, sendQueue, task, rented,
                      returned, written, writeErrors>>
      BY <2>2 DEF ClearSubscription
    <3> QED
      BY <3>1, <3>2, <3>3
  <2>3. CASE Unregister(k)
    <3>1. disconnecting' \in [Kickers -> {"none", "dispose", "clear", "remove"}]
      BY <2>3, DisconnectingType DEF Unregister
    <3>2. registered' \in BOOLEAN
      BY <2>3 DEF Unregister
    <3>3. loop' \in {loop, "complete", "release", "idle"}
      BY <2>3 DEF Unregister
    <3>4. UNCHANGED <<peerOpen, tcp, zombie, broadcast, isAlive, context, received,
                      subscription, disposer, drainer, sendQueue, task, rented,
                      returned, written, writeErrors>>
      BY <2>3 DEF Unregister
    <3> QED
      BY <3>1, <3>2, <3>3, <3>4
  <2> QED
    BY <1>6, <2>1, <2>2, <2>3 DEF DisconnectClient
<1>7. CASE ZombieTimerFires
  <2>1. disconnecting' \in [Kickers -> {"none", "dispose", "clear", "remove"}]
    BY <1>k, <1>7, DisconnectingType DEF ZombieTimerFires
  <2> QED
    BY <1>7, <2>1 DEF ZombieTimerFires
<1>8. CASE SnapshotClients \/ VisitClient
  BY <1>8 DEF SnapshotClients, VisitClient
<1>11. CASE PeerLeaves
  <2>1. peerOpen' \in BOOLEAN
    BY <1>11 DEF PeerLeaves
  <2>2. UNCHANGED <<tcp, loop, serverVars, clientVars, handleVars, task, historyVars>>
    BY <1>11 DEF PeerLeaves
  <2> QED
    BY <2>1, <2>2
<1>10. CASE KickInactive
  <2>1. disconnecting' \in [Kickers -> {"none", "dispose", "clear", "remove"}]
    BY <1>k, <1>10, DisconnectingType DEF KickInactive
  <2> QED
    BY <1>10, <2>1 DEF KickInactive
<1>9. CASE UNCHANGED vars
  BY <1>9
<1> QED
  BY <1>1, <1>2, <1>3, <1>4, <1>5, <1>6, <1>7, <1>8, <1>9, <1>10,
     <1>11 DEF Next

-------------------------------------------------------------------------------

(***************************************************************************)
(* What the steps do to the loop, the socket and the registration.         *)
(***************************************************************************)

\* The tasks of requests leave them alone, but for signalling the drainer;
\* a task is only started by the idle loop, for a socket that is open.
LEMMA TaskSummary ==
  ASSUME TypeOK, NEW r \in Requests, OnRead(r) \/ Task(r)
  PROVE  /\ UNCHANGED <<tcp, loop, registered, disconnecting, context>>
         /\ drainer' = "disposed" <=> drainer = "disposed"
         /\ \A q \in Requests : task[q] = "none" /\ task'[q] # "none"
                                 => loop = "idle" /\ TcpIsValid
<1> USE DEF TypeOK, socketVars, serverVars, clientVars, handleVars, historyVars
<1>1. CASE OnRead(r)
  BY <1>1 DEF OnRead
<1>2. CASE EndTask(r) \/ RentBuffer(r) \/ SerializeFails(r) \/ Enqueue(r)
  BY <1>2 DEF EndTask, RentBuffer, SerializeFails, Enqueue
<1>3. CASE Signal(r)
  BY <1>3 DEF Signal, Handle
<1> QED
  BY <1>1, <1>2, <1>3 DEF Task

\* A thread in DisconnectClient moves on by itself; only its last step, the
\* removal from _clients, lets the loop go on, and only the loop's own thread.
LEMMA DisconnectSummary ==
  ASSUME TypeOK, NEW k \in Kickers, DisconnectClient(k)
  PROVE  /\ UNCHANGED <<tcp, context, drainer, task>>
         /\ disconnecting[k] # "none"
         /\ k # "loop" => disconnecting'["loop"] = disconnecting["loop"]
         /\ \/ /\ UNCHANGED <<loop, registered>>
               /\ disconnecting'[k] # "none"
            \/ /\ ~registered'
               /\ disconnecting'[k] = "none"
               /\ k # "loop" => loop' = loop
               /\ k = "loop" /\ loop = "error" => loop' = "complete"
               /\ k = "loop" /\ loop = "completing" => loop' = "release"
               /\ k = "loop" /\ loop \notin {"error", "completing"} => loop' = "idle"
<1> USE DEF TypeOK, socketVars, serverVars, clientVars, handleVars, historyVars
<1>k. "loop" \in Kickers
  BY DEF Kickers
<1>1. CASE DisposeSubscription(k)
  BY <1>k, <1>1 DEF DisposeSubscription
<1>2. CASE ClearSubscription(k)
  BY <1>k, <1>2 DEF ClearSubscription
<1>3. CASE Unregister(k)
  <2>1. /\ disconnecting[k] = "remove" /\ disconnecting'[k] = "none" /\ ~registered'
        /\ UNCHANGED <<tcp, context, drainer, task>>
        /\ k # "loop" => disconnecting'["loop"] = disconnecting["loop"]
    BY <1>k, <1>3 DEF Unregister
  <2>2. loop' = IF k # "loop" THEN loop
                ELSE CASE loop = "error" -> "complete"
                       [] loop = "completing" -> "release"
                       [] OTHER -> "idle"
    BY <1>3 DEF Unregister
  <2>3. k # "loop" => loop' = loop
    BY <2>2
  <2>4. k = "loop" /\ loop = "error" => loop' = "complete"
    BY <2>2
  <2>5. k = "loop" /\ loop = "completing" => loop' = "release"
    BY <2>2
  <2>6. k = "loop" /\ loop \notin {"error", "completing"} => loop' = "idle"
    BY <2>2
  <2> QED
    BY <2>1, <2>3, <2>4, <2>5, <2>6
<1> QED
  BY <1>1, <1>2, <1>3 DEF DisconnectClient

\* The timer and the broadcasting thread start a DisconnectClient of their own.
LEMMA OthersSummary ==
  ASSUME TypeOK,
         ZombieTimerFires \/ SnapshotClients \/ VisitClient \/ KickInactive \/ PeerLeaves
  PROVE  /\ UNCHANGED <<tcp, loop, registered, context, drainer, task, sendQueue,
                        rented, returned>>
         /\ disconnecting'["loop"] = disconnecting["loop"]
<1> USE DEF TypeOK, socketVars, serverVars, clientVars, handleVars, historyVars
<1>k. /\ "loop" \in Kickers
      /\ "loop" # "zombie" /\ "loop" # "broadcast"
  BY DEF Kickers
<1>1. CASE ZombieTimerFires
  BY <1>k, <1>1 DEF ZombieTimerFires
<1>2. CASE KickInactive
  BY <1>k, <1>2 DEF KickInactive
<1>3. CASE SnapshotClients \/ VisitClient \/ PeerLeaves
  BY <1>3 DEF SnapshotClients, VisitClient, PeerLeaves
<1> QED
  BY <1>1, <1>2, <1>3

\* Before the connection is accepted.
LEMMA ControlInit == Init => ControlInv
  BY DEF Init, Kickers, ControlInv, LoopCallsDisconnect, SocketFollowsLoop,
         ContextPrecedesRequests, CompletedIsUnregistered, Completed,
         DrainerIsDisposedFirst

\* Every step of the loop, the tasks and the threads keeps the socket, the
\* context, the registration and the drainer in step with the callbacks.
LEMMA ControlStep == TypeOK /\ ControlInv /\ [Next]_vars => ControlInv'
<1> SUFFICES ASSUME TypeOK, ControlInv, [Next]_vars
             PROVE  ControlInv'
  OBVIOUS
<1>k. "loop" \in Kickers
  BY DEF Kickers
<1>d. disconnecting \in [Kickers -> {"none", "dispose", "clear", "remove"}]
  BY DEF TypeOK
<1> USE DEF ControlInv, LoopCallsDisconnect, SocketFollowsLoop,
            ContextPrecedesRequests, CompletedIsUnregistered, Completed,
            DrainerIsDisposedFirst
<1> USE DEF socketVars, serverVars, clientVars, handleVars, historyVars
<1>1. CASE Accept
  BY <1>1 DEF Accept
<1>2. CASE Register \/ OnConnect
  BY <1>2 DEF Register, OnConnect
<1>3. CASE OnFlood \/ OnReadError \/ Complete
  <2>1. disconnecting'["loop"] = "dispose"
    BY <1>3, <1>k, <1>d DEF OnFlood, OnReadError, Complete
  <2> QED
    BY <1>3, <2>1 DEF OnFlood, OnReadError, Complete, TcpIsValid
<1>4. CASE OnEndOfStream
  BY <1>4 DEF OnEndOfStream, TcpIsValid
<1>5. CASE DisposeDrainer \/ EmptySendQueue \/ CloseHandle
  BY <1>5 DEF DisposeDrainer, EmptySendQueue, CloseHandle
<1>6. CASE RunDisposer
  BY <1>6 DEF RunDisposer, TcpIsValid
<1>7. CASE DrainSendQueue \/ DrainFails
  BY <1>7 DEF DrainSendQueue, DrainFails
<1>8. ASSUME NEW r \in Requests, OnRead(r) \/ Task(r)
      PROVE  ControlInv'
  BY <1>8, TaskSummary DEF TcpIsValid
<1>9. ASSUME NEW k \in Kickers, DisconnectClient(k)
      PROVE  ControlInv'
  <2>1. CASE k # "loop"
    BY <1>9, <2>1, DisconnectSummary
  <2>2. CASE k = "loop"
    BY <1>9, <2>2, DisconnectSummary
  <2> QED
    BY <2>1, <2>2
<1>10. CASE ZombieTimerFires \/ SnapshotClients \/ VisitClient \/ KickInactive \/ PeerLeaves
  BY <1>10, OthersSummary
<1>11. CASE UNCHANGED vars
  BY <1>11 DEF vars
<1> QED
  BY <1>1, <1>2, <1>3, <1>4, <1>5, <1>6, <1>7, <1>8, <1>9, <1>10, <1>11
     DEF Next, LoopStep

-------------------------------------------------------------------------------

(***************************************************************************)
(* The pooled buffers.                                                     *)
(***************************************************************************)

\* What the steps outside Send and the drainer leave alone.
LEMMA BuffersAside ==
  ASSUME TypeOK,
         \/ Accept \/ Register \/ OnConnect \/ OnFlood \/ OnReadError
         \/ OnEndOfStream \/ Complete \/ DisposeDrainer \/ RunDisposer
         \/ \E k \in Kickers : DisconnectClient(k)
         \/ ZombieTimerFires \/ SnapshotClients \/ VisitClient \/ KickInactive
         \/ PeerLeaves \/ UNCHANGED vars
  PROVE  UNCHANGED <<sendQueue, task, rented, returned>>
<1> USE DEF socketVars, serverVars, clientVars, handleVars, historyVars, vars
<1>1. CASE Accept \/ Register \/ OnConnect \/ OnFlood \/ OnReadError
  BY <1>1 DEF Accept, Register, OnConnect, OnFlood, OnReadError
<1>2. CASE OnEndOfStream \/ Complete \/ DisposeDrainer \/ RunDisposer
  BY <1>2 DEF OnEndOfStream, Complete, DisposeDrainer, RunDisposer
<1>3. ASSUME NEW k \in Kickers, DisconnectClient(k)
      PROVE  UNCHANGED <<sendQueue, task, rented, returned>>
  BY <1>3 DEF DisconnectClient, DisposeSubscription, ClearSubscription, Unregister
<1>4. CASE ZombieTimerFires \/ SnapshotClients \/ VisitClient \/ KickInactive
           \/ PeerLeaves \/ UNCHANGED vars
  BY <1>4 DEF ZombieTimerFires, SnapshotClients, VisitClient, KickInactive, PeerLeaves
<1> QED
  BY <1>1, <1>2, <1>3, <1>4

\* Only the loop's own steps from "empty" on, and its last one, end the use of
\* the queue.
LEMMA EmptiedSummary ==
  ASSUME TypeOK, ControlInv,
         \/ Accept \/ Register \/ OnConnect \/ OnFlood \/ OnReadError
         \/ OnEndOfStream \/ Complete \/ DisposeDrainer \/ RunDisposer
         \/ \E k \in Kickers : DisconnectClient(k)
         \/ ZombieTimerFires \/ SnapshotClients \/ VisitClient \/ KickInactive
         \/ PeerLeaves \/ UNCHANGED vars
  PROVE  Emptied' => Emptied
<1> USE DEF Emptied, socketVars, serverVars, clientVars, handleVars, historyVars, vars
<1>1. CASE Accept \/ Register \/ OnConnect \/ OnFlood \/ OnReadError
  BY <1>1 DEF Accept, Register, OnConnect, OnFlood, OnReadError
<1>2. CASE OnEndOfStream \/ Complete \/ DisposeDrainer \/ RunDisposer
  BY <1>2 DEF OnEndOfStream, Complete, DisposeDrainer, RunDisposer
<1>3. ASSUME NEW k \in Kickers, DisconnectClient(k)
      PROVE  Emptied' => Emptied
  BY <1>3, DisconnectSummary DEF ControlInv, LoopCallsDisconnect
<1>4. CASE ZombieTimerFires \/ SnapshotClients \/ VisitClient \/ KickInactive
           \/ PeerLeaves \/ UNCHANGED vars
  BY <1>4 DEF ZombieTimerFires, SnapshotClients, VisitClient, KickInactive, PeerLeaves
<1> QED
  BY <1>1, <1>2, <1>3, <1>4

\* Every rented buffer stays accounted for: the queue is only taken apart by
\* who returns its buffers, and a sender that comes after the last emptying
\* finds the drainer disposed and returns its buffer itself.
LEMMA BuffersStep ==
  TypeOK /\ ControlInv /\ BuffersAreAccountedFor /\ [Next]_vars
    => BuffersAreAccountedFor'
<1> SUFFICES ASSUME TypeOK, ControlInv, BuffersAreAccountedFor, [Next]_vars,
                    NEW q \in rented', returned'[q] = 0
             PROVE  \/ task'[q] = "rented"
                    \/ q \in Queued' /\ (task'[q] = "enqueued" \/ ~Emptied')
  BY DEF BuffersAreAccountedFor
<1> USE DEF socketVars, serverVars, clientVars, handleVars, historyVars, vars
<1>t. /\ rented \subseteq Requests /\ returned \in [Requests -> Nat]
      /\ task \in [Requests -> {"none", "running", "rented", "enqueued", "done"}]
      /\ sendQueue \in Seq(Requests)
  BY DEF TypeOK
<1>q. q \in Requests
  BY TypeOKStep DEF TypeOK
<1>1. CASE \/ Accept \/ Register \/ OnConnect \/ OnFlood \/ OnReadError
           \/ OnEndOfStream \/ Complete \/ DisposeDrainer \/ RunDisposer
           \/ \E k \in Kickers : DisconnectClient(k)
           \/ ZombieTimerFires \/ SnapshotClients \/ VisitClient \/ KickInactive
           \/ PeerLeaves \/ UNCHANGED vars
  <2>1. UNCHANGED <<sendQueue, task, rented, returned>> /\ (Emptied' => Emptied)
    BY <1>1, BuffersAside, EmptiedSummary
  <2> QED
    BY <2>1 DEF BuffersAreAccountedFor, Queued
<1>2. CASE EmptySendQueue
  BY <1>2, <1>t, <1>q, ReturnCounts DEF EmptySendQueue, BuffersAreAccountedFor
<1>3. CASE CloseHandle
  <2>1. UNCHANGED <<sendQueue, task, rented, returned>> /\ Emptied
    BY <1>3 DEF CloseHandle, Emptied
  <2> QED
    BY <2>1 DEF BuffersAreAccountedFor, Queued
<1>4. CASE DrainSendQueue
  <2>1. CASE tcp = "open"
    BY <1>4, <1>t, <1>q, <2>1, ReturnCounts DEF DrainSendQueue, BuffersAreAccountedFor
  <2>2. CASE tcp # "open"
    <3>1. UNCHANGED <<sendQueue, task, rented, returned, tcp, loop>>
      BY <1>4, <2>2 DEF DrainSendQueue
    <3> QED
      BY <3>1 DEF BuffersAreAccountedFor, Queued, Emptied
  <2> QED
    BY <2>1, <2>2
<1>5. CASE DrainFails
  <2>1. UNCHANGED <<task, rented, tcp, loop>> /\ Return({Head(sendQueue)})
        /\ sendQueue # <<>> /\ sendQueue' = Tail(sendQueue)
    BY <1>5 DEF DrainFails
  <2>2. returned[q] = 0 /\ q # Head(sendQueue)
    BY <1>t, <1>q, <2>1, ReturnCounts
  <2>3. q \in Queued => q \in Queued'
    BY <1>t, <2>1, <2>2, QueuedTail
  <2> QED
    BY <2>1, <2>2, <2>3 DEF BuffersAreAccountedFor, Emptied
<1>6. ASSUME NEW r \in Requests, OnRead(r) \/ EndTask(r) \/ RentBuffer(r)
      PROVE  \/ task'[q] = "rented"
             \/ q \in Queued' /\ (task'[q] = "enqueued" \/ ~Emptied')
  <2>1. /\ UNCHANGED <<sendQueue, returned, tcp, loop>>
        /\ task[r] \in {"none", "running"}
        /\ \A p \in Requests : p # r => task'[p] = task[p]
    BY <1>6, <1>t DEF OnRead, EndTask, RentBuffer
  <2>2. q \in rented \/ (q = r /\ task'[q] = "rented")
    BY <1>6, <1>t DEF OnRead, EndTask, RentBuffer
  <2> QED
    BY <1>q, <2>1, <2>2 DEF BuffersAreAccountedFor, Queued, Emptied
<1>7. ASSUME NEW r \in Requests, SerializeFails(r)
      PROVE  \/ task'[q] = "rented"
             \/ q \in Queued' /\ (task'[q] = "enqueued" \/ ~Emptied')
  <2>1. UNCHANGED <<sendQueue, rented, tcp, loop>> /\ Return({r})
    BY <1>7 DEF SerializeFails
  <2>2. returned[q] = 0 /\ q # r
    BY <1>t, <1>q, <2>1, ReturnCounts
  <2>3. task'[q] = task[q]
    BY <1>7, <1>t, <1>q, <2>2 DEF SerializeFails
  <2> QED
    BY <2>1, <2>2, <2>3 DEF BuffersAreAccountedFor, Queued, Emptied
<1>8. ASSUME NEW r \in Requests, Enqueue(r)
      PROVE  \/ task'[q] = "rented"
             \/ q \in Queued' /\ (task'[q] = "enqueued" \/ ~Emptied')
  <2>1. /\ UNCHANGED <<rented, returned, tcp, loop>>
        /\ task' = [task EXCEPT ![r] = "enqueued"]
        /\ sendQueue' = Append(sendQueue, r)
    BY <1>8 DEF Enqueue
  <2>2. Queued \subseteq Queued' /\ r \in Queued'
    BY <1>t, <2>1, QueuedAppend
  <2>3. CASE q = r
    BY <1>t, <1>q, <2>1, <2>2, <2>3
  <2>4. CASE q # r
    BY <1>t, <1>q, <2>1, <2>2, <2>4 DEF BuffersAreAccountedFor, Emptied
  <2> QED
    BY <2>3, <2>4
<1>9. ASSUME NEW r \in Requests, Signal(r)
      PROVE  \/ task'[q] = "rented"
             \/ q \in Queued' /\ (task'[q] = "enqueued" \/ ~Emptied')
  <2>1. /\ UNCHANGED <<sendQueue, rented, tcp, loop>>
        /\ Return(IF drainer = "disposed" THEN {r} ELSE {})
        /\ task[r] = "enqueued"
        /\ task' = [task EXCEPT ![r] = "done"]
    BY <1>9 DEF Signal
  <2>2. returned[q] = 0 /\ (q = r => drainer # "disposed")
    BY <1>t, <1>q, <2>1, ReturnCounts
  <2>3. CASE q = r
    <3>1. q \in Queued
      BY <2>1, <2>2, <2>3 DEF BuffersAreAccountedFor
    <3>2. ~Emptied
      BY <2>2, <2>3 DEF ControlInv, DrainerIsDisposedFirst, Emptied
    <3> QED
      BY <2>1, <3>1, <3>2 DEF Queued, Emptied
  <2>4. CASE q # r
    BY <1>t, <1>q, <2>1, <2>2, <2>4 DEF BuffersAreAccountedFor, Queued, Emptied
  <2> QED
    BY <2>3, <2>4
<1> QED
  BY <1>1, <1>2, <1>3, <1>4, <1>5, <1>6, <1>7, <1>8, <1>9 DEF Next, LoopStep, Task

-------------------------------------------------------------------------------

\* The strengthened invariant holds before the connection is accepted.
LEMMA IInvInit == Init => IInv
<1>1. Init => BuffersAreAccountedFor
  BY DEF Init, BuffersAreAccountedFor
<1> QED
  BY <1>1, TypeOKInit, ControlInit DEF IInv

\* Every step of every thread preserves the strengthened invariant.
LEMMA IInvStep == IInv /\ [Next]_vars => IInv'
  BY TypeOKStep, ControlStep, BuffersStep DEF IInv

\* Type correctness of a connection: in particular nothing is queued that is
\* not a response.
THEOREM TypeCorrect == Spec => []TypeOK
<1>1. IInv => TypeOK
  BY DEF IInv
<1> QED
  BY <1>1, IInvInit, IInvStep, PTL DEF Spec

\* OnRequestAsync never dereferences a missing worker context: the accept
\* callback is over, context included, before the loop reads a line.
THEOREM RequestsAlwaysFindTheirContext == Spec => []RequestsFindTheirContext
<1>1. IInv => RequestsFindTheirContext
  BY DEF IInv, ControlInv, ContextPrecedesRequests, RequestsFindTheirContext
<1> QED
  BY <1>1, IInvInit, IInvStep, PTL DEF Spec

\* A closed connection is never in _clients, whoever disconnected the client:
\* the completion removes it before it closes the handle, and only the accept
\* callback adds it.
THEOREM ClosedClientsStayUnregistered == Spec => []ClosedClientsAreUnregistered
<1>1. IInv => ClosedClientsAreUnregistered
  BY DEF IInv, ControlInv, CompletedIsUnregistered, Completed,
         ClosedClientsAreUnregistered
<1> QED
  BY <1>1, IInvInit, IInvStep, PTL DEF Spec

\* No pooled buffer is lost, for any number of senders that race with the end
\* of the connection.
THEOREM BuffersAreNeverLost == Spec => []BuffersAreNotLost
<1>1. IInv => BuffersAreNotLost
  BY DEF IInv, BuffersAreAccountedFor, BuffersAreNotLost, Emptied
<1> QED
  BY <1>1, IInvInit, IInvStep, PTL DEF Spec

===============================================================================
