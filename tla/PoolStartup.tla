----------------------------- MODULE PoolStartup ------------------------------
(***************************************************************************)
(* Engine.Start and MoneroPool.Initialize/Start composed with the job      *)
(* manager.  The engine awaits Initialize and then calls Start; Initialize *)
(* catches every exception, logs it and returns, so Start follows a failed *)
(* initialization too.  Start subscribes to the jobs and opens the stratum *)
(* server once Take(1) has seen one.                                       *)
(*                                                                         *)
(* Each step of Initialize is one await of a daemon call (or none); the    *)
(* daemon is asked by nobody else before Start.                            *)
(***************************************************************************)
EXTENDS MoneroJobManager

CONSTANT
  PeerCounts    \* connection counts getinfo can report

ASSUME PeerCountsAssumption == PeerCounts \subseteq Nat

VARIABLES
  stage,        \* where Engine.Start is
  decodes,      \* environment: whether the configured pool address decodes,
                \* that is, DecodeAddress returns something other than 0 for it
  prefixSet,    \* _poolAddressBase58Prefix # 0
  aborted,      \* history: Initialize caught a PoolStartupAbortedException
  everSynced    \* history: the daemon has been synchronised at some time

startupVars == <<stage, decodes, prefixSet, aborted, everSynced>>
vars == <<jobVars, startupVars>>

Stages == {"prechecks", "clients", "health", "peers", "sync", "progress", "info",
           "address", "start", "subscribed", "awaiting", "serving"}

TypeOKStartup ==
  /\ TypeOK
  /\ stage \in Stages
  /\ decodes \in BOOLEAN
  /\ prefixSet \in BOOLEAN
  /\ aborted \in BOOLEAN
  /\ everSynced \in BOOLEAN

StartupInit ==
  /\ InitWith(FALSE)
  /\ stage = "prechecks"
  /\ decodes \in BOOLEAN
  /\ prefixSet = FALSE
  /\ aborted = FALSE
  /\ everSynced = synced

-------------------------------------------------------------------------------
(* MoneroPool.Initialize.                                                  *)

\* What the daemon's getinfo and the wallet's getaddress can end with.
InfoExchanges ==
  LostExchanges \cup Refusals({-1}) \cup Results({[peers |-> p] : p \in PeerCounts})

AddressExchanges ==
  LostExchanges \cup Refusals({-1}) \cup Results({"pool address", "other address"})

\* A PoolStartupAbortedException reaches Initialize's catch, which logs it;
\* Initialize ends.
Abort ==
  /\ stage' = "start"
  /\ aborted' = TRUE

\* So does any other exception, of a daemon call or a null response.
Fail ==
  /\ stage' = "start"
  /\ UNCHANGED aborted

Continue(next) ==
  /\ stage' = next
  /\ UNCHANGED aborted

\* The variables of the job manager a change of its HTTP client leaves alone.
jobsAside == <<envVars, currentJob, jobCounter, connected, ticks, update, answer,
               emission, observers, firstTask, created, broadcasts>>

\* Defect: the HTTP clients exist before the address has been checked.
RunPreInitChecksAfterInitialize ==
  /\ stage = "prechecks"
  /\ prefixSet' = decodes
  /\ initialized' = TRUE
  /\ IF decodes THEN Continue("clients") ELSE Abort
  /\ UNCHANGED <<jobsAside, decodes, everSynced>>

\* RunPreInitChecksAsync: prefix 0 is taken for an address that does not decode.
RunPreInitChecks ==
  /\ stage = "prechecks"
  /\ prefixSet' = decodes
  /\ IF decodes THEN Continue("clients") ELSE Abort
  /\ UNCHANGED <<jobVars, decodes, everSynced>>

\* Daemon.Initialize(), and the wallet's, create the HTTP clients.
InitializeDaemons ==
  /\ stage = "clients"
  /\ initialized' = TRUE
  /\ Continue("health")
  /\ UNCHANGED <<jobsAside, decodes, prefixSet, everSynced>>

\* What the await of one daemon call yields; a thrown exception leaves
\* Initialize, any other response r decides where it goes on.
Responses(exchanges) == {ExecuteCommandAsync(initialized, x) : x \in exchanges}

Unaffected == UNCHANGED <<jobVars, decodes, prefixSet, everSynced>>

\* IsDaemonConnectionHealthyAsync: any response without an error will do;
\* otherwise it is asked again after a delay.
WaitDaemonHealthy ==
  /\ stage = "health"
  /\ \E r \in Responses(InfoExchanges) :
       \/ r.thrown /\ Fail
       \/ ~r.thrown /\ Continue(IF r.error = None THEN "peers" ELSE "health")
  /\ Unaffected

HasMorePeersThan(n, r) ==
  r.error = None /\ r.response # None /\ r.response.peers > n

\* Defect: one connection is not enough.
WaitDaemonMorePeers ==
  /\ stage = "peers"
  /\ \E r \in Responses(InfoExchanges) :
       \/ r.thrown /\ Fail
       \/ ~r.thrown /\ Continue(IF HasMorePeersThan(1, r) THEN "sync" ELSE "peers")
  /\ Unaffected

\* IsDaemonConnectedToNetworkAsync, asked again until there is a connection.
WaitDaemonPeers ==
  /\ stage = "peers"
  /\ \E r \in Responses(InfoExchanges) :
       \/ r.thrown /\ Fail
       \/ ~r.thrown /\ Continue(IF HasMorePeersThan(0, r) THEN "sync" ELSE "peers")
  /\ Unaffected

\* EnsureDaemonSynchedAsync: every outcome but the error -9 counts as synched.
EnsureDaemonSynched ==
  /\ stage = "sync"
  /\ \E r \in Responses(TemplateExchanges) :
       \/ r.thrown /\ Fail
       \/ ~r.thrown /\ Continue(IF r.error = -9 THEN "progress" ELSE "info")
  /\ Unaffected

\* Its progress report dereferences getinfo's response.
ReportSyncProgress ==
  /\ stage = "progress"
  /\ \E r \in Responses(InfoExchanges) :
       IF r.thrown \/ r.response = None THEN Fail ELSE Continue("sync")
  /\ Unaffected

\* RunPostInitChecksAsync: the response of getinfo is not looked at.  It is
\* asked for as a JToken: objects and arrays convert, but a result that is a
\* bare string or number does not and the cast throws ...
RunPostInitInfo ==
  /\ stage = "info"
  /\ \E r \in Responses(InfoExchanges) :
       IF r.thrown THEN Fail ELSE Continue("address")
  /\ Unaffected

\* ... and the wallet must own the pool's address; no response is no address.
RunPostInitChecks ==
  /\ stage = "address"
  /\ \E r \in Responses(AddressExchanges) :
       \/ r.thrown /\ Fail
       \/ ~r.thrown /\ r.response = "pool address" /\ Continue("start")
       \/ ~r.thrown /\ r.response # "pool address" /\ Abort
  /\ Unaffected

Initialize ==
  \/ RunPreInitChecks
  \/ InitializeDaemons
  \/ WaitDaemonHealthy
  \/ WaitDaemonPeers
  \/ EnsureDaemonSynched
  \/ ReportSyncProgress
  \/ RunPostInitInfo
  \/ RunPostInitChecks

-------------------------------------------------------------------------------
(* MoneroPool.Start.                                                       *)

\* JobManager.Start() creates JobQueue; Subscribe(BroadcastJob) connects it.
StartJobManager ==
  /\ stage = "start"
  /\ SubscribeBroadcast
  /\ Continue("subscribed")
  /\ UNCHANGED <<decodes, prefixSet, everSynced>>

\* JobQueue.Take(1).ToTask(): a later subscription of its own.
SubscribeToFirstJob ==
  /\ stage = "subscribed"
  /\ SubscribeFirst
  /\ Continue("awaiting")
  /\ UNCHANGED <<decodes, prefixSet, everSynced>>

\* Defect: the task of Take(1) is not awaited.
StartServerAtOnce ==
  /\ stage = "awaiting"
  /\ Continue("serving")
  /\ UNCHANGED <<jobVars, decodes, prefixSet, everSynced>>

\* The await of Take(1) ends: StratumServer.Start(this).
StartServer ==
  /\ stage = "awaiting"
  /\ firstTask = "done"
  /\ Continue("serving")
  /\ UNCHANGED <<jobVars, decodes, prefixSet, everSynced>>

Start == StartJobManager \/ SubscribeToFirstJob \/ StartServer

-------------------------------------------------------------------------------

\* The environment and the job manager move on by themselves.
Background ==
  /\ Environment \/ Pipeline
  /\ everSynced' = (everSynced \/ synced')
  /\ UNCHANGED <<stage, decodes, prefixSet, aborted>>

StartupNext == Initialize \/ Start \/ Background

StartupSpec == StartupInit /\ [][StartupNext]_vars

\* Engine.Start's thread goes on when a call has ended.  The two waits ask
\* again after their delay, and a daemon asked again and again answers well at
\* last; nothing says that it ever makes them throw.
StartupFairness ==
  /\ WF_vars(\/ RunPreInitChecks \/ InitializeDaemons \/ EnsureDaemonSynched
             \/ ReportSyncProgress \/ RunPostInitInfo \/ RunPostInitChecks)
  /\ WF_vars(Start)
  /\ SF_vars(WaitDaemonHealthy /\ stage' = "peers")
  /\ SF_vars(WaitDaemonPeers /\ stage' = "sync")

FairStartupSpec ==
  /\ StartupSpec
  /\ StartupFairness
  /\ WF_vars(Background /\ Tick)
  /\ WF_vars(Background /\ Update)
  /\ WF_vars(Background /\ Publish)
  /\ SF_vars(Background /\ GoodReply)

-------------------------------------------------------------------------------

Serving == stage = "serving"

(***************************************************************************)
(* OnLogin dereferences CurrentJob without a check: the stratum server     *)
(* only serves logins once there is a job, also after a failed Initialize. *)
(***************************************************************************)
ServingHasAJob == Serving => currentJob # None

(***************************************************************************)
(* ValidateAddress compares the prefix of a miner's address with the       *)
(* pool's: a pool that serves never compares with the 0 an undecodable     *)
(* address leaves, although Start runs after the pre-init check failed.    *)
(* (The check fails before DaemonClient.Initialize, so no daemon call ever *)
(* succeeds and no job is created.)                                        *)
(***************************************************************************)
ServingKnowsItsPrefix == Serving => prefixSet

(***************************************************************************)
(* A pool that serves got a template from a daemon that was synchronised   *)
(* at some time, although EnsureDaemonSynched lets failed calls pass.      *)
(***************************************************************************)
ServingDaemonWasSynced == Serving => everSynced

(***************************************************************************)
(* Startup is not stuck.  With an address that decodes and a daemon that   *)
(* is synchronised for good, the pool gets through every wait (or leaves   *)
(* Initialize with an exception and goes on with Start) and opens its      *)
(* server, unless the first job is created while Start is between its two  *)
(* subscriptions: then Take(1) waits for the job of another block.         *)
(***************************************************************************)
FirstJobMissed == stage = "subscribed" /\ currentJob # None

StartupReachesServing ==
  (decodes /\ <>[]synced) => <>(Serving \/ FirstJobMissed)

(***************************************************************************)
(* PoolStartupAbortedException: "An exception that occured in pool startup *)
(* that it's fatal for the pool."  It is thrown when the pool's address    *)
(* does not decode and when the wallet does not own it.                    *)
(***************************************************************************)
AbortedPoolNeverServes == aborted => ~Serving

===============================================================================
