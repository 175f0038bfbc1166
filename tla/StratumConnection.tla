-------------------------- MODULE StratumConnection ---------------------------
(***************************************************************************)
(* The life of one stratum connection: StratumServer.cs, StratumClient.cs  *)
(* and PoolBase.cs.                                                        *)
(*                                                                         *)
(* Threads that meet here: the libuv loop thread (accept, read, end of     *)
(* stream, and the two async handles, one draining the send queue and one  *)
(* disposing the subscription), one thread-pool task per received request, *)
(* the zombie timer of EnsureNoZombie, and the thread that broadcasts jobs *)
(* and kicks inactive miners.  A callback of the loop is never interrupted *)
(* by another callback of the loop, but it interleaves with the threads.   *)
(*                                                                         *)
(* External, from how the code uses NetUV: callbacks run on the loop       *)
(* thread one at a time; signals of an async handle coalesce; Send on a    *)
(* disposed handle throws ObjectDisposedException; a read error is         *)
(* reported before the completion; Shutdown ends the writing side only.    *)
(***************************************************************************)
EXTENDS Naturals, Sequences

CONSTANTS
  Requests,        \* the requests the peer may send
  MaxWriteErrors   \* bound of the model: how often tcp.QueueWrite may throw

ASSUME MaxWriteErrorsAssumption == MaxWriteErrors \in Nat

\* The threads that call DisconnectClient.
Kickers == {"loop", "zombie", "broadcast"}

VARIABLES
  \* the peer and the socket
  peerOpen,       \* the peer has not closed or reset the connection
  tcp,            \* "none", "open", "shut" (Shutdown called) or "closed"
  \* the loop thread
  loop,           \* the callback it is in, "idle" between callbacks
  \* StratumServer and PoolBase
  registered,     \* the client is in _clients
  disconnecting,  \* disconnecting[k]: where thread k is in DisconnectClient
  zombie,         \* the timer of EnsureNoZombie: "unset", "armed", "fired"
  broadcast,      \* ForEachClient: "idle" or "visiting" this client
  \* StratumClient
  isAlive,        \* IsAlive
  context,        \* _workerContext has been set
  received,       \* LastReceive.HasValue
  subscription,   \* _subscription is not null
  disposer,       \* its async handle: "none", "armed", "signalled", "disposed"
  drainer,        \* _sendQueueDrainer: the same states
  sendQueue,      \* _sendQueue, of the responses' pooled buffers
  task,           \* task[r]: where the task of request r is
  \* history
  rented,         \* the requests whose response rented a buffer
  returned,       \* returned[r]: how often r's buffer went back to ArrayPool
  written,        \* the responses given to tcp.QueueWrite
  writeErrors     \* how often tcp.QueueWrite threw

socketVars == <<peerOpen, tcp>>
serverVars == <<registered, disconnecting, zombie, broadcast>>
clientVars == <<isAlive, context, received, subscription>>
handleVars == <<disposer, drainer, sendQueue>>
historyVars == <<rented, returned, written, writeErrors>>
vars == <<socketVars, loop, serverVars, clientVars, handleVars, task, historyVars>>

Handle == {"none", "armed", "signalled", "disposed"}

TypeOK ==
  /\ peerOpen \in BOOLEAN
  /\ tcp \in {"none", "open", "shut", "closed"}
  /\ loop \in {"idle", "register", "connect", "flood", "error", "complete",
               "completing", "release", "empty", "close"}
  /\ registered \in BOOLEAN
  /\ disconnecting \in [Kickers -> {"none", "dispose", "clear", "remove"}]
  /\ zombie \in {"unset", "armed", "fired"}
  /\ broadcast \in {"idle", "visiting"}
  /\ isAlive \in BOOLEAN /\ context \in BOOLEAN
  /\ received \in BOOLEAN /\ subscription \in BOOLEAN
  /\ disposer \in Handle /\ drainer \in Handle
  /\ sendQueue \in Seq(Requests)
  /\ task \in [Requests -> {"none", "running", "rented", "enqueued", "done"}]
  /\ rented \in SUBSET Requests
  /\ returned \in [Requests -> Nat]
  /\ written \in SUBSET Requests
  /\ writeErrors \in 0..MaxWriteErrors

Init ==
  /\ peerOpen = TRUE
  /\ tcp = "none"
  /\ loop = "idle"
  /\ registered = FALSE
  /\ disconnecting = [k \in Kickers |-> "none"]
  /\ zombie = "unset"
  /\ broadcast = "idle"
  /\ isAlive = FALSE /\ context = FALSE
  /\ received = FALSE /\ subscription = FALSE
  /\ disposer = "none" /\ drainer = "none"
  /\ sendQueue = <<>>
  /\ task = [r \in Requests |-> "none"]
  /\ rented = {}
  /\ returned = [r \in Requests |-> 0]
  /\ written = {}
  /\ writeErrors = 0

Queued == {sendQueue[i] : i \in 1..Len(sendQueue)}

\* The buffers of the responses rs go back to the pool.
Return(rs) == returned' = [r \in Requests |-> returned[r] + IF r \in rs THEN 1 ELSE 0]

TcpIsValid == tcp \in {"open", "shut"}

-------------------------------------------------------------------------------
(* OnClientConnected, in the accept callback of the loop.                  *)

\* StratumClient.Initialize
Accept ==
  /\ loop = "idle" /\ tcp = "none"
  /\ tcp' = "open"
  /\ isAlive' = TRUE
  /\ drainer' = "armed" /\ disposer' = "armed"
  /\ subscription' = TRUE
  /\ loop' = "register"
  /\ UNCHANGED <<peerOpen, serverVars, context, received, sendQueue, task, historyVars>>

\* Defect: the client is registered but never handed to the pool.
RegisterOnly ==
  /\ loop = "register"
  /\ registered' = TRUE
  /\ loop' = "idle"
  /\ UNCHANGED <<socketVars, disconnecting, zombie, broadcast, clientVars,
                 handleVars, task, historyVars>>

\* lock (_clients): from here on the broadcasting thread can see the client.
Register ==
  /\ loop = "register"
  /\ registered' = TRUE
  /\ loop' = "connect"
  /\ UNCHANGED <<socketVars, disconnecting, zombie, broadcast, clientVars,
                 handleVars, task, historyVars>>

\* PoolBase.OnConnect: the context, and the timer of EnsureNoZombie.
OnConnect ==
  /\ loop = "connect"
  /\ context' = TRUE
  /\ zombie' = "armed"
  /\ loop' = "idle"
  /\ UNCHANGED <<socketVars, registered, disconnecting, broadcast, isAlive, received,
                 subscription, handleVars, task, historyVars>>

-------------------------------------------------------------------------------
(* DisconnectClient, by any of the three threads.                          *)

\* Defect: _subscription is forgotten without being disposed.
DisposeNothing(k) ==
  /\ disconnecting[k] = "dispose"
  /\ disconnecting' = [disconnecting EXCEPT ![k] = "clear"]
  /\ UNCHANGED <<socketVars, loop, registered, zombie, broadcast, clientVars,
                 handleVars, task, historyVars>>

\* _subscription?.Dispose(): signals the disposer, the first time only.
DisposeSubscription(k) ==
  /\ disconnecting[k] = "dispose"
  /\ disposer' = IF subscription /\ disposer = "armed" THEN "signalled" ELSE disposer
  /\ disconnecting' = [disconnecting EXCEPT ![k] = "clear"]
  /\ UNCHANGED <<socketVars, loop, registered, zombie, broadcast, clientVars,
                 drainer, sendQueue, task, historyVars>>

\* _subscription = null; IsAlive = false
ClearSubscription(k) ==
  /\ disconnecting[k] = "clear"
  /\ subscription' = FALSE
  /\ isAlive' = FALSE
  /\ disconnecting' = [disconnecting EXCEPT ![k] = "remove"]
  /\ UNCHANGED <<socketVars, loop, registered, zombie, broadcast, context, received,
                 handleVars, task, historyVars>>

\* lock (_clients) Remove; the loop thread goes on with its callback.
Unregister(k) ==
  /\ disconnecting[k] = "remove"
  /\ registered' = FALSE
  /\ disconnecting' = [disconnecting EXCEPT ![k] = "none"]
  /\ loop' = IF k # "loop" THEN loop
             ELSE CASE loop = "error" -> "complete"
                    [] loop = "completing" -> "release"
                    [] OTHER -> "idle"
  /\ UNCHANGED <<socketVars, zombie, broadcast, clientVars, handleVars, task,
                 historyVars>>

DisconnectClient(k) == DisposeSubscription(k) \/ ClearSubscription(k) \/ Unregister(k)

-------------------------------------------------------------------------------
(* Reading, in callbacks of the loop.                                      *)

\* A line arrives: dropped when the client is not alive, else a task is
\* started for it.  The context is looked up by the task.
OnRead(r) ==
  /\ loop = "idle" /\ TcpIsValid /\ peerOpen
  /\ task[r] = "none"
  /\ task' = [task EXCEPT ![r] = IF isAlive THEN "running" ELSE "done"]
  /\ received' = (received \/ isAlive)
  /\ UNCHANGED <<socketVars, loop, serverVars, isAlive, context, subscription,
                 handleVars, historyVars>>

\* The line buffer reports too much data: OnReceiveError.
OnFlood ==
  /\ loop = "idle" /\ TcpIsValid /\ peerOpen /\ isAlive
  /\ received' = TRUE
  /\ loop' = "flood"
  /\ disconnecting' = [disconnecting EXCEPT !["loop"] = "dispose"]
  /\ UNCHANGED <<socketVars, registered, zombie, broadcast, isAlive, context,
                 subscription, handleVars, task, historyVars>>

\* The connection is reset: OnReceiveError, then the completion.
OnReadError ==
  /\ loop = "idle" /\ TcpIsValid /\ ~peerOpen
  /\ loop' = "error"
  /\ disconnecting' = [disconnecting EXCEPT !["loop"] = "dispose"]
  /\ UNCHANGED <<socketVars, registered, zombie, broadcast, clientVars, handleVars,
                 task, historyVars>>

OnEndOfStream ==
  /\ loop = "idle" /\ TcpIsValid /\ ~peerOpen
  /\ loop' = "complete"
  /\ UNCHANGED <<socketVars, serverVars, clientVars, handleVars, task, historyVars>>

\* Defect: the completion does not disconnect the client.
CompleteSilently ==
  /\ loop = "complete"
  /\ isAlive' = FALSE
  /\ loop' = "release"
  /\ UNCHANGED <<socketVars, serverVars, context, received, subscription,
                 handleVars, task, historyVars>>

\* onCompleted: IsAlive = false, then OnReceiveComplete ...
Complete ==
  /\ loop = "complete"
  /\ isAlive' = FALSE
  /\ loop' = "completing"
  /\ disconnecting' = [disconnecting EXCEPT !["loop"] = "dispose"]
  /\ UNCHANGED <<socketVars, registered, zombie, broadcast, context, received,
                 subscription, handleVars, task, historyVars>>

\* Defect: the drainer is dropped instead of disposed.
DropDrainer ==
  /\ loop = "release"
  /\ drainer' = "null"
  /\ loop' = "empty"
  /\ UNCHANGED <<socketVars, serverVars, clientVars, disposer, sendQueue, task,
                 historyVars>>

\* ... then the drainer is disposed ...
DisposeDrainer ==
  /\ loop = "release"
  /\ drainer' = "disposed"
  /\ loop' = "empty"
  /\ UNCHANGED <<socketVars, serverVars, clientVars, disposer, sendQueue, task,
                 historyVars>>

\* ... then the queued buffers are returned (the line buffer's own are not
\* part of this module) ...
EmptySendQueue ==
  /\ loop = "empty"
  /\ Return(Queued)
  /\ sendQueue' = <<>>
  /\ loop' = "close"
  /\ UNCHANGED <<socketVars, serverVars, clientVars, disposer, drainer, task,
                 rented, written, writeErrors>>

\* ... and the handle is closed.
CloseHandle ==
  /\ loop = "close"
  /\ tcp' = "closed"
  /\ loop' = "idle"
  /\ UNCHANGED <<peerOpen, serverVars, clientVars, handleVars, task, historyVars>>

-------------------------------------------------------------------------------
(* The two async handles of the loop.                                      *)

\* The disposer's callback: sub.Dispose() shuts a valid socket down.
RunDisposer ==
  /\ loop = "idle" /\ disposer = "signalled"
  /\ disposer' = "disposed"
  /\ tcp' = IF TcpIsValid THEN "shut" ELSE tcp
  /\ isAlive' = (isAlive /\ ~TcpIsValid)
  /\ UNCHANGED <<peerOpen, loop, serverVars, context, received, subscription, drainer,
                 sendQueue, task, historyVars>>

\* DrainSendQueue: everything queued is written and its buffer returned; a
\* socket that is not writable leaves the queue as it is.
DrainSendQueue ==
  /\ loop = "idle" /\ drainer = "signalled"
  /\ drainer' = "armed"
  /\ IF tcp = "open"
     THEN /\ written' = written \cup Queued
          /\ Return(Queued)
          /\ sendQueue' = <<>>
     ELSE UNCHANGED <<written, returned, sendQueue>>
  /\ UNCHANGED <<socketVars, loop, serverVars, clientVars, disposer, task, rented,
                 writeErrors>>

\* DrainSendQueue when QueueWrite throws: the loop is left, the rest stays.
DrainFails ==
  /\ loop = "idle" /\ drainer = "signalled"
  /\ tcp = "open" /\ sendQueue # <<>>
  /\ writeErrors < MaxWriteErrors
  /\ writeErrors' = writeErrors + 1
  /\ drainer' = "armed"
  /\ Return({Head(sendQueue)})
  /\ sendQueue' = Tail(sendQueue)
  /\ UNCHANGED <<socketVars, loop, serverVars, clientVars, disposer, task, rented,
                 written>>

-------------------------------------------------------------------------------
(* The task of a request: OnRequestAsync, and StratumClient.Send.          *)

\* keepalived, getjob and submit send no response; neither does an exception.
EndTask(r) ==
  /\ task[r] = "running"
  /\ task' = [task EXCEPT ![r] = "done"]
  /\ UNCHANGED <<socketVars, loop, serverVars, clientVars, handleVars, historyVars>>

\* Send: rents a buffer if the client is alive, else drops the response.
RentBuffer(r) ==
  /\ task[r] = "running"
  /\ task' = [task EXCEPT ![r] = IF isAlive THEN "rented" ELSE "done"]
  /\ rented' = rented \cup IF isAlive THEN {r} ELSE {}
  /\ UNCHANGED <<socketVars, loop, serverVars, clientVars, handleVars, returned,
                 written, writeErrors>>

\* The response does not fit the buffer: it is returned and Send throws.
SerializeFails(r) ==
  /\ task[r] = "rented"
  /\ Return({r})
  /\ task' = [task EXCEPT ![r] = "done"]
  /\ UNCHANGED <<socketVars, loop, serverVars, clientVars, handleVars, rented,
                 written, writeErrors>>

\* SendInternal: _sendQueue.Enqueue(buffer)
Enqueue(r) ==
  /\ task[r] = "rented"
  /\ sendQueue' = Append(sendQueue, r)
  /\ task' = [task EXCEPT ![r] = "enqueued"]
  /\ UNCHANGED <<socketVars, loop, serverVars, clientVars, disposer, drainer,
                 historyVars>>

\* Defect: the ObjectDisposedException is swallowed without Dispose.
SignalKeepingBuffer(r) ==
  /\ task[r] = "enqueued"
  /\ drainer' = IF drainer = "disposed" THEN "disposed" ELSE "signalled"
  /\ task' = [task EXCEPT ![r] = "done"]
  /\ UNCHANGED <<socketVars, loop, serverVars, clientVars, disposer, sendQueue,
                 historyVars>>

\* Defect: only the sender that finds the queue otherwise empty signals.
SignalIfAlone(r) ==
  /\ task[r] = "enqueued"
  /\ drainer' = IF drainer # "disposed" /\ Len(sendQueue) = 1 THEN "signalled"
                ELSE drainer
  /\ Return(IF drainer = "disposed" THEN {r} ELSE {})
  /\ task' = [task EXCEPT ![r] = "done"]
  /\ UNCHANGED <<socketVars, loop, serverVars, clientVars, disposer, sendQueue,
                 rented, written, writeErrors>>

\* SendInternal: _sendQueueDrainer.Send(); once the drainer is disposed it
\* throws and the catch disposes this method's copy of the buffer.
Signal(r) ==
  /\ task[r] = "enqueued"
  /\ drainer' = IF drainer = "disposed" THEN "disposed" ELSE "signalled"
  /\ Return(IF drainer = "disposed" THEN {r} ELSE {})
  /\ task' = [task EXCEPT ![r] = "done"]
  /\ UNCHANGED <<socketVars, loop, serverVars, clientVars, disposer, sendQueue,
                 rented, written, writeErrors>>

-------------------------------------------------------------------------------
(* The threads that disconnect clients, and the peer.                      *)

\* Defect: the timer looks at IsAlive instead of LastReceive.
ZombieTimerFiresIfAlive ==
  /\ zombie = "armed"
  /\ zombie' = "fired"
  /\ disconnecting' = [disconnecting EXCEPT
                        !["zombie"] = IF isAlive THEN "none" ELSE "dispose"]
  /\ UNCHANGED <<socketVars, loop, registered, broadcast, clientVars, handleVars, task,
                 historyVars>>

\* EnsureNoZombie, ten seconds after OnConnect.
ZombieTimerFires ==
  /\ zombie = "armed"
  /\ zombie' = "fired"
  /\ disconnecting' = [disconnecting EXCEPT
                        !["zombie"] = IF received THEN "none" ELSE "dispose"]
  /\ UNCHANGED <<socketVars, loop, registered, broadcast, clientVars, handleVars, task,
                 historyVars>>

\* ForEachClient copies _clients and comes to this client later.
SnapshotClients ==
  /\ broadcast = "idle" /\ disconnecting["broadcast"] = "none"
  /\ registered
  /\ broadcast' = "visiting"
  /\ UNCHANGED <<socketVars, loop, registered, disconnecting, zombie, clientVars,
                 handleVars, task, historyVars>>

\* BroadcastJob skips the client (also by the exception of a client without a
\* context, which ForEachClient catches) or makes a worker job for it.
VisitClient ==
  /\ broadcast = "visiting"
  /\ broadcast' = "idle"
  /\ UNCHANGED <<socketVars, loop, registered, disconnecting, zombie, clientVars,
                 handleVars, task, historyVars>>

\* BroadcastJob kicks a client that has logged in and was not active since.
KickInactive ==
  /\ broadcast = "visiting"
  /\ context /\ received
  /\ broadcast' = "idle"
  /\ disconnecting' = [disconnecting EXCEPT !["broadcast"] = "dispose"]
  /\ UNCHANGED <<socketVars, loop, registered, zombie, clientVars, handleVars, task,
                 historyVars>>

\* The peer closes or resets the connection.
PeerLeaves ==
  /\ peerOpen /\ tcp # "none"
  /\ peerOpen' = FALSE
  /\ UNCHANGED <<tcp, loop, serverVars, clientVars, handleVars, task, historyVars>>

-------------------------------------------------------------------------------

LoopStep ==
  \/ Register \/ OnConnect
  \/ OnReadError \/ OnEndOfStream \/ Complete
  \/ DisposeDrainer \/ EmptySendQueue \/ CloseHandle

Task(r) ==
  EndTask(r) \/ RentBuffer(r) \/ SerializeFails(r) \/ Enqueue(r) \/ Signal(r)

Next ==
  \/ Accept \/ LoopStep \/ OnFlood
  \/ RunDisposer \/ DrainSendQueue \/ DrainFails
  \/ \E r \in Requests : OnRead(r) \/ Task(r)
  \/ \E k \in Kickers : DisconnectClient(k)
  \/ ZombieTimerFires
  \/ SnapshotClients \/ VisitClient \/ KickInactive
  \/ PeerLeaves

Spec == Init /\ [][Next]_vars

\* The loop runs the callbacks that are due, the thread pool runs tasks and
\* timers, a started call goes on.  Nothing is assumed of the peer.
FairSpec ==
  /\ Spec
  /\ WF_vars(LoopStep)
  /\ SF_vars(RunDisposer)
  /\ SF_vars(DrainSendQueue)
  /\ \A r \in Requests : WF_vars(Task(r))
  /\ \A k \in Kickers : WF_vars(DisconnectClient(k))
  /\ WF_vars(ZombieTimerFires)

-------------------------------------------------------------------------------

(***************************************************************************)
(* OnRequestAsync dereferences the worker context without a check: reading *)
(* starts in Initialize, before OnConnect sets the context, yet no request *)
(* runs before it is set.                                                  *)
(***************************************************************************)
RequestsFindTheirContext == \A r \in Requests : task[r] = "running" => context

(***************************************************************************)
(* No ghost clients: once the handle is closed the client is not in        *)
(* _clients, whichever threads disconnected it and in whatever order.      *)
(***************************************************************************)
ClosedClientsAreUnregistered == tcp = "closed" => ~registered

(***************************************************************************)
(* No pooled buffer is lost: a buffer rented for a response goes back to   *)
(* ArrayPool unless its sender still holds it or it waits in the queue of  *)
(* a connection that is not closed, although senders race with the         *)
(* disposal of the drainer and with the emptying of the queue.             *)
(***************************************************************************)
BuffersAreNotLost ==
  \A r \in rented :
    returned[r] = 0 => \/ task[r] \in {"rented", "enqueued"}
                       \/ r \in Queued /\ tcp # "closed"

(***************************************************************************)
(* No lost wake-up: a response that was queued is written, unless the      *)
(* connection is shut down or closed or tcp.QueueWrite threw.              *)
(***************************************************************************)
ResponsesAreWritten ==
  \A r \in Requests :
    task[r] = "enqueued" ~> (r \in written \/ tcp # "open" \/ writeErrors > 0)

(***************************************************************************)
(* A client that stays silent after connecting is removed from the server  *)
(* by the zombie timer and its socket is shut down.                        *)
(***************************************************************************)
SilentClientsAreBooted ==
  (context /\ ~received) ~> (received \/ (~registered /\ tcp # "open"))

(***************************************************************************)
(* Whoever takes a client out of service, its socket is shut down by the   *)
(* loop, also when several threads disconnect it at once.                  *)
(***************************************************************************)
DeadClientsAreShutDown == (tcp = "open" /\ ~isAlive) ~> tcp # "open"

(***************************************************************************)
(* PooledArraySegment.Dispose forgets its array once it has returned it,   *)
(* so that a buffer goes back to ArrayPool at most once.                   *)
(***************************************************************************)
BuffersReturnAtMostOnce == \A r \in Requests : returned[r] <= 1

===============================================================================
