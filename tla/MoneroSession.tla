---------------------------- MODULE MoneroSession -----------------------------
(***************************************************************************)
(* MoneroPool.OnRequestAsync and BroadcastJob over the worker contexts of  *)
(* the connected miners, with MoneroJob.CreateWorkerJob.                   *)
(*                                                                         *)
(* Every request runs as a thread-pool task of its own, also two requests  *)
(* of one connection; the tasks and the thread that broadcasts a new job   *)
(* share the worker context and CurrentJob without a lock.  One action is   *)
(* one access of these; accesses of one thread take effect in program      *)
(* order.  A worker job is modelled by the job it belongs to: its id, its  *)
(* extra nonce and its blob decide nothing here.                           *)
(*                                                                         *)
(* From the other modules: there is a job when the first miner connects    *)
(* (PoolStartup), a job is broadcast to the end before the next one is     *)
(* created (MoneroJobManager), and a request finds its context             *)
(* (StratumConnection).                                                    *)
(***************************************************************************)
EXTENDS Naturals, SequencesExt

CONSTANTS
  Clients,        \* the miners' connections
  Logins,         \* the login requests they may send
  Names,          \* the miners' names in them, sequences of characters
  Hash,           \* the character '#'
  PoolAddresses,  \* what ValidateAddress accepts: the pool's length and prefix
  MaxJobs,        \* bound of the model: number of jobs
  Nobody          \* C#'s null: no client, no login, no name

ASSUME MaxJobsAssumption == MaxJobs \in Nat \ {0}

ASSUME NamesAssumption == Names \subseteq Seq(UNION {Range(n) : n \in Names})

\* A context's MinerName is a name or the beginning of one.
Beginnings == UNION {Prefixes(n) : n \in Names}

ASSUME NobodyAssumption == Nobody \notin Clients \cup Logins \cup Beginnings

JobIds == 1..MaxJobs

VARIABLES
  \* MoneroWorkerContext, by client
  miner,          \* MinerName
  paymentSet,     \* PaymentId is not null
  authorized,     \* IsAuthorized
  subscribed,     \* IsSubscribed
  recent,         \* LastActivity is at most 600 seconds ago
  \* the pool
  connected,      \* the clients in _clients
  currentJob,     \* CurrentJob
  login,          \* the tasks of the login requests
  cast,           \* the broadcasting thread
  \* history
  work,           \* the worker jobs created, [client, job]
  alone           \* by client: its latest login, unless another one was under way

contextVars == <<miner, paymentSet, authorized, subscribed, recent>>
vars == <<contextVars, connected, currentJob, login, cast, work, alone>>

Ended == {"refused", "thrown", "answered"}

LoginSteps == {"none", "index", "cut", "truncate", "payment", "validate", "subscribe",
               "authorize", "check", "create", "activity"} \cup Ended

\* Between two clients, and in the callback for one.
BetweenClients == {"idle", "snapshot", "next"}

CastSteps == BetweenClients \cup {"subscribed", "recent", "create"}

TypeOK ==
  /\ miner \in [Clients -> Beginnings \cup {Nobody}]
  /\ paymentSet \in [Clients -> BOOLEAN]
  /\ authorized \in [Clients -> BOOLEAN] /\ subscribed \in [Clients -> BOOLEAN]
  /\ recent \in [Clients -> BOOLEAN]
  /\ connected \subseteq Clients
  /\ currentJob \in JobIds
  /\ login \in [Logins -> [at : LoginSteps, client : Clients \cup {Nobody},
                           name : Names \cup {Nobody}, index : Nat,
                           cut : Beginnings \cup {Nobody}, valid : BOOLEAN]]
  /\ cast \in [at : CastSteps, todo : SUBSET Clients, client : Clients \cup {Nobody}]
  /\ cast.client = Nobody <=> cast.at \in BetweenClients
  /\ work \subseteq [client : Clients, job : JobIds]
  /\ alone \in [Clients -> Logins \cup {Nobody}]

Init ==
  /\ miner = [c \in Clients |-> Nobody]
  /\ paymentSet = [c \in Clients |-> FALSE]
  /\ authorized = [c \in Clients |-> FALSE]
  /\ subscribed = [c \in Clients |-> FALSE]
  /\ recent = [c \in Clients |-> FALSE]
  /\ connected = {}
  /\ currentJob = 1
  /\ login = [t \in Logins |-> [at |-> "none", client |-> Nobody, name |-> Nobody,
                                index |-> 0, cut |-> Nobody, valid |-> FALSE]]
  /\ cast = [at |-> "idle", todo |-> {}, client |-> Nobody]
  /\ work = {}
  /\ alone = [c \in Clients |-> Nobody]

-------------------------------------------------------------------------------
(* The life of a connection, and time.                                     *)

\* OnConnect: a new context, Initialize(7500) sets LastActivity.
Connect(c) ==
  /\ c \notin connected /\ miner[c] = Nobody /\ ~recent[c]
  /\ connected' = connected \cup {c}
  /\ recent' = [recent EXCEPT ![c] = TRUE]
  /\ UNCHANGED <<miner, paymentSet, authorized, subscribed, currentJob,
                 login, cast, work, alone>>

\* The connection ends; tasks of its requests may still run.
Leave(c) ==
  /\ c \in connected
  /\ connected' = connected \ {c}
  /\ UNCHANGED <<contextVars, currentJob, login, cast, work, alone>>

\* 600 seconds pass without activity of the client.
GrowOld(c) ==
  /\ recent[c]
  /\ recent' = [recent EXCEPT ![c] = FALSE]
  /\ UNCHANGED <<miner, paymentSet, authorized, subscribed, connected, currentJob,
                 login, cast, work, alone>>

\* keepalived.
KeepAlive(c) ==
  /\ c \in connected
  /\ recent' = [recent EXCEPT ![c] = TRUE]
  /\ UNCHANGED <<miner, paymentSet, authorized, subscribed, connected, currentJob,
                 login, cast, work, alone>>

-------------------------------------------------------------------------------
(* OnLogin, the task of request t.  A local variable that is not read      *)
(* again goes back to its first value, so that it tells no states apart.   *)

Client(t) == login[t].client

Goto(t, step) == login' = [login EXCEPT ![t].at = step]

\* A login of the client is under way.
LoggingIn(c) ==
  \E t \in Logins : Client(t) = c /\ login[t].at \notin Ended

\* Without a request id or a login the request is answered with an error.
RefuseLogin(t, c) ==
  /\ login[t].at = "none" /\ c \in connected
  /\ login' = [login EXCEPT ![t].at = "refused", ![t].client = c]
  /\ UNCHANGED <<contextVars, connected, currentJob, cast, work, alone>>

\* context.MinerName = split[0]
SetMinerName(t, c, name) ==
  /\ login[t].at = "none" /\ c \in connected
  /\ login' = [login EXCEPT ![t].at = "index", ![t].client = c, ![t].name = name]
  /\ miner' = [miner EXCEPT ![c] = name]
  /\ alone' = [alone EXCEPT ![c] = IF LoggingIn(c) THEN Nobody ELSE t]
  /\ UNCHANGED <<paymentSet, authorized, subscribed, recent, connected, currentJob,
                 cast, work>>

\* index = context.MinerName.IndexOf('#'), in whatever name is there by now
FirstHash(name, i) ==
  i \in DOMAIN name /\ name[i] = Hash /\ \A j \in 1..(i - 1) : name[j] # Hash

FindPaymentId(t) ==
  /\ login[t].at = "index"
  /\ \/ /\ Hash \notin Range(miner[Client(t)])
        /\ Goto(t, "validate")
     \/ \E i \in DOMAIN miner[Client(t)] :
          /\ FirstHash(miner[Client(t)], i)
          /\ login' = [login EXCEPT ![t].at = "cut", ![t].index = i - 1]
  /\ UNCHANGED <<contextVars, connected, currentJob, cast, work, alone>>

\* context.MinerName.Substring(0, index) reads the name again, and throws for
\* one that has become too short
Cut(t, substring) ==
  /\ login[t].at = "cut"
  /\ IF Len(miner[Client(t)]) < login[t].index
     THEN login' = [login EXCEPT ![t].at = "thrown", ![t].index = 0]
     ELSE login' = [login EXCEPT ![t].at = "truncate", ![t].cut = substring]
  /\ UNCHANGED <<contextVars, connected, currentJob, cast, work, alone>>

\* Defect: Substring(index).
CutNameBehind(t) ==
  Cut(t, SubSeq(miner[Client(t)], login[t].index + 1, Len(miner[Client(t)])))

CutName(t) == Cut(t, SubSeq(miner[Client(t)], 1, login[t].index))

\* context.MinerName = what was cut, over whatever another login has written
TruncateName(t) ==
  /\ login[t].at = "truncate"
  /\ miner' = [miner EXCEPT ![Client(t)] = login[t].cut]
  /\ login' = [login EXCEPT ![t].at = "payment", ![t].cut = Nobody]
  /\ UNCHANGED <<paymentSet, authorized, subscribed, recent, connected, currentJob,
                 cast, work, alone>>

\* context.PaymentId = context.MinerName.Substring(index + 1), which throws
\* for a name that ends at index.  Nobody reads PaymentId.
SetPaymentId(t) ==
  /\ login[t].at = "payment"
  /\ IF Len(miner[Client(t)]) > login[t].index
     THEN /\ login' = [login EXCEPT ![t].at = "validate", ![t].index = 0]
          /\ paymentSet' = [paymentSet EXCEPT ![Client(t)] = TRUE]
     ELSE /\ login' = [login EXCEPT ![t].at = "thrown", ![t].index = 0]
          /\ UNCHANGED paymentSet
  /\ UNCHANGED <<miner, authorized, subscribed, recent, connected, currentJob,
                 cast, work, alone>>

\* ValidateAddress(context.MinerName)
ValidateAddress(name) == name \in PoolAddresses

Validate(t) ==
  /\ login[t].at = "validate"
  /\ login' = [login EXCEPT ![t].at = "subscribe",
                            ![t].valid = ValidateAddress(miner[Client(t)])]
  /\ UNCHANGED <<contextVars, connected, currentJob, cast, work, alone>>

\* context.IsAuthorized = context.IsSubscribed = hasValidAddress
SetSubscribed(t) ==
  /\ login[t].at = "subscribe"
  /\ subscribed' = [subscribed EXCEPT ![Client(t)] = login[t].valid]
  /\ Goto(t, "authorize")
  /\ UNCHANGED <<miner, paymentSet, authorized, recent, connected, currentJob,
                 cast, work, alone>>

\* Defect: a miner who was authorized once stays so.
SetAuthorizedForGood(t) ==
  /\ login[t].at = "authorize"
  /\ authorized' = [authorized EXCEPT ![Client(t)] = @ \/ login[t].valid]
  /\ login' = [login EXCEPT ![t].at = "check", ![t].valid = FALSE]
  /\ UNCHANGED <<miner, paymentSet, subscribed, recent, connected, currentJob,
                 cast, work, alone>>

SetAuthorized(t) ==
  /\ login[t].at = "authorize"
  /\ authorized' = [authorized EXCEPT ![Client(t)] = login[t].valid]
  /\ login' = [login EXCEPT ![t].at = "check", ![t].valid = FALSE]
  /\ UNCHANGED <<miner, paymentSet, subscribed, recent, connected, currentJob,
                 cast, work, alone>>

\* if (!context.IsAuthorized), read again
CheckAuthorized(t) ==
  /\ login[t].at = "check"
  /\ Goto(t, IF authorized[Client(t)] THEN "create" ELSE "refused")
  /\ UNCHANGED <<contextVars, connected, currentJob, cast, work, alone>>

\* CurrentJob.CreateWorkerJob(client)
CreateWorkerJob(t) ==
  /\ login[t].at = "create"
  /\ work' = work \cup {[client |-> Client(t), job |-> currentJob]}
  /\ Goto(t, "activity")
  /\ UNCHANGED <<contextVars, connected, currentJob, cast, alone>>

\* The response is sent, then LastActivity is set.
RecognizeActivity(t) ==
  /\ login[t].at = "activity"
  /\ recent' = [recent EXCEPT ![Client(t)] = TRUE]
  /\ Goto(t, "answered")
  /\ UNCHANGED <<miner, paymentSet, authorized, subscribed, connected, currentJob,
                 cast, work, alone>>

OnLogin(t) ==
  \/ \E c \in Clients : RefuseLogin(t, c) \/ \E n \in Names : SetMinerName(t, c, n)
  \/ FindPaymentId(t) \/ CutName(t) \/ TruncateName(t) \/ SetPaymentId(t)
  \/ Validate(t) \/ SetSubscribed(t) \/ SetAuthorized(t) \/ CheckAuthorized(t)
  \/ CreateWorkerJob(t) \/ RecognizeActivity(t)

-------------------------------------------------------------------------------
(* BroadcastJob.                                                           *)

\* UpdateJob has replaced CurrentJob; the broadcast of it follows.
NewJob ==
  /\ cast.at = "idle" /\ currentJob < MaxJobs
  /\ currentJob' = currentJob + 1
  /\ cast' = [cast EXCEPT !.at = "snapshot"]
  /\ UNCHANGED <<contextVars, connected, login, work, alone>>

\* ForEachClient copies the clients.
SnapshotClients ==
  /\ cast.at = "snapshot"
  /\ cast' = [cast EXCEPT !.at = "next", !.todo = connected]
  /\ UNCHANGED <<contextVars, connected, currentJob, login, work, alone>>

EndBroadcast ==
  /\ cast.at = "next" /\ cast.todo = {}
  /\ cast' = [cast EXCEPT !.at = "idle"]
  /\ UNCHANGED <<contextVars, connected, currentJob, login, work, alone>>

\* The callback for the client returns.
NextClient == cast' = [cast EXCEPT !.at = "next", !.client = Nobody]

\* if (!context.IsAuthorized || ...
VisitClient(c) ==
  /\ cast.at = "next" /\ c \in cast.todo
  /\ cast' = [cast EXCEPT !.todo = @ \ {c},
                          !.at = IF authorized[c] THEN "subscribed" ELSE "next",
                          !.client = IF authorized[c] THEN c ELSE Nobody]
  /\ UNCHANGED <<contextVars, connected, currentJob, login, work, alone>>

\* ... !context.IsSubscribed)
CheckSubscribed ==
  /\ cast.at = "subscribed"
  /\ IF subscribed[cast.client] THEN cast' = [cast EXCEPT !.at = "recent"]
     ELSE NextClient
  /\ UNCHANGED <<contextVars, connected, currentJob, login, work, alone>>

\* Defect: an inactive client is skipped and stays connected.
CheckActivitySkipping ==
  /\ cast.at = "recent"
  /\ IF recent[cast.client] THEN cast' = [cast EXCEPT !.at = "create"] ELSE NextClient
  /\ UNCHANGED <<contextVars, connected, currentJob, login, work, alone>>

\* No activity for 600 seconds: DisconnectClient.
CheckActivity ==
  /\ cast.at = "recent"
  /\ IF recent[cast.client]
     THEN cast' = [cast EXCEPT !.at = "create"] /\ UNCHANGED connected
     ELSE NextClient /\ connected' = connected \ {cast.client}
  /\ UNCHANGED <<contextVars, currentJob, login, work, alone>>

\* CurrentJob.CreateWorkerJob(client): of CurrentJob, not of the argument.
CreateBroadcastJob ==
  /\ cast.at = "create"
  /\ work' = work \cup {[client |-> cast.client, job |-> currentJob]}
  /\ NextClient
  /\ UNCHANGED <<contextVars, connected, currentJob, login, alone>>

BroadcastJob ==
  \/ SnapshotClients \/ EndBroadcast
  \/ \E c \in Clients : VisitClient(c)
  \/ CheckSubscribed \/ CheckActivity \/ CreateBroadcastJob

-------------------------------------------------------------------------------

Next ==
  \/ \E c \in Clients : Connect(c) \/ Leave(c) \/ GrowOld(c) \/ KeepAlive(c)
  \/ \E t \in Logins : OnLogin(t)
  \/ NewJob
  \/ BroadcastJob

Spec == Init /\ [][Next]_vars

-------------------------------------------------------------------------------

BeingVisited(c) == cast.at = "snapshot" \/ c \in cast.todo \/ cast.client = c

(***************************************************************************)
(* No miner misses a job.  A login authorizes the client first and reads   *)
(* CurrentJob afterwards, a new job replaces CurrentJob first and looks    *)
(* for authorized clients afterwards: a connected client that is           *)
(* authorized and subscribed, has no login under way and has been passed   *)
(* by the broadcast, has a worker job of CurrentJob, also after several    *)
(* concurrent logins, good and bad, on the same connection.                *)
(***************************************************************************)
NoMinerMissesAJob ==
  \A c \in connected :
    authorized[c] /\ subscribed[c] /\ ~LoggingIn(c) /\ ~BeingVisited(c)
      => \E w \in work : w.client = c /\ w.job = currentJob

(***************************************************************************)
(* Only miners of the pool's coin get work.  Logins that overlap write,    *)
(* cut and validate one shared MinerName, so that a name may be validated  *)
(* that nobody sent: still, a worker job is only created for a client one  *)
(* of whose own logins began with an address of the pool.                  *)
(***************************************************************************)
NamesPoolAddress(t) ==
  /\ login[t].name # Nobody
  /\ \E a \in Prefixes(login[t].name) : a \in PoolAddresses

WorkIsAskedFor ==
  \A w \in work : \E t \in Logins : Client(t) = w.client /\ NamesPoolAddress(t)

(***************************************************************************)
(* And a login that no other one overlapped decides who mines from then    *)
(* on: once it has answered or refused, the client is authorized and       *)
(* subscribed if the login's own name is an address of the pool, and       *)
(* neither if it is not, whatever earlier logins have left behind.  (A     *)
(* login that throws leaves the marks of the login before it.)             *)
(***************************************************************************)
LoneLoginDecides ==
  \A c \in Clients :
    alone[c] # Nobody /\ login[alone[c]].at \in {"refused", "answered"}
      => /\ miner[c] = login[alone[c]].name
         /\ authorized[c] <=> login[alone[c]].name \in PoolAddresses
         /\ subscribed[c] <=> authorized[c]

WorkGoesToValidMiners == WorkIsAskedFor /\ LoneLoginDecides

(***************************************************************************)
(* OnLogin: "set payment-id if any": a login that names a payment id and   *)
(* has ended has set PaymentId.                                            *)
(***************************************************************************)
PaymentIdIsSet ==
  \A t \in Logins :
    login[t].at \in Ended /\ login[t].name # Nobody /\ Hash \in Range(login[t].name)
      => paymentSet[Client(t)]

===============================================================================
