--------------------------- MODULE PoolStartupProofs ---------------------------
(***************************************************************************)
(* Proofs about MoneroJobManager, for chains of any height, any number of  *)
(* branches and queued ticks and any width of the job counter, and about   *)
(* PoolStartup, for every pool address and daemon: what a pool that serves *)
(* can rely on, whether Initialize succeeded or not.                       *)
(***************************************************************************)
EXTENDS PoolStartup, SequenceTheorems, TLAPS

(***************************************************************************)
(* MoneroJobManager.                                                       *)
(***************************************************************************)

(***************************************************************************)
(* The strengthening of JobsClimb and EveryJobIsBroadcastInOrder.          *)
(***************************************************************************)

\* The pipeline only runs while BroadcastJob is subscribed.
RunningIsObserved ==
  /\ ticks > 0 \/ update # "idle" => connected
  /\ connected => "BroadcastJob" \in observers

\* Concat: no UpdateJob runs while a job is pushed to the observers.
OneAtATime == update # "idle" => emission.pending = {}

\* CurrentJob is the job created last.
CurrentIsLast ==
  /\ currentJob = None => Len(created) = 0
  /\ currentJob # None => Len(created) > 0 /\ currentJob = created[Len(created)]

IInv ==
  /\ TypeOK
  /\ RunningIsObserved
  /\ OneAtATime
  /\ CurrentIsLast
  /\ JobsClimb
  /\ EveryJobIsBroadcastInOrder

-------------------------------------------------------------------------------

\* Whatever a getblocktemplate exchange ends with, UpdateJob receives an
\* exception, nothing, or a template (DaemonClient.MapDaemonResponse).
LEMMA AnswerType ==
  ASSUME TypeOK, NEW x \in TemplateExchanges
  PROVE  /\ ExecuteCommandAsync(initialized, x).thrown \in BOOLEAN
         /\ ExecuteCommandAsync(initialized, x).response \in Template \cup {None}
<1>1. x.result \in Template \cup {None}
  <2>1. CASE x \in LostExchanges
    BY <2>1 DEF LostExchanges, Exchange
  <2>2. CASE x \in Refusals({-1}) \cup Refusals({-9})
    BY <2>2 DEF Refusals, Exchange
  <2>3. CASE x \in Results({[height |-> tip.height, branch |-> tip.branch, ok |-> o]
                              : o \in BOOLEAN})
    <3>1. PICK o \in BOOLEAN :
            x.result = [height |-> tip.height, branch |-> tip.branch, ok |-> o]
      BY <2>3 DEF Results, Exchange
    <3>2. tip.height \in Heights /\ tip.branch \in Branches
      BY DEF TypeOK
    <3> QED
      BY <3>1, <3>2 DEF Template
  <2> QED
    BY <2>1, <2>2, <2>3 DEF TemplateExchanges
<1> DEFINE r == ExecuteCommandAsync(initialized, x)
<1>2. \/ r = DaemonResponse(-999, None)
      \/ r = DaemonResponse(-998, None)
      \/ r = Thrown
      \/ r = DaemonResponse(x.code, x.result)
  BY DEF ExecuteCommandAsync, MapDaemonResponse
<1> HIDE DEF r
<1>3. r.response \in Template \cup {None}
  BY <1>1, <1>2 DEF DaemonResponse, Thrown
<1>4. r.thrown \in BOOLEAN
  <2>1. CASE r = DaemonResponse(-999, None)
    BY <2>1 DEF DaemonResponse
  <2>2. CASE r = DaemonResponse(-998, None)
    BY <2>2 DEF DaemonResponse
  <2>3. CASE r = Thrown
    BY <2>3 DEF Thrown
  <2>4. CASE r = DaemonResponse(x.code, x.result)
    BY <2>4 DEF DaemonResponse
  <2> QED
    BY <1>2, <2>1, <2>2, <2>3, <2>4
<1> QED
  BY <1>3, <1>4 DEF r

\* A template that UpdateJob makes a job of gives a job of the right type.
LEMMA JobType ==
  ASSUME TypeOK, answer.response # None
  PROVE  [id |-> NextId, height |-> answer.response.height,
          branch |-> answer.response.branch] \in Job
<1>1. answer.response \in Template
  BY DEF TypeOK
<1>2. NextId \in 1..MaxId
  BY MaxIdAssumption DEF TypeOK, NextId
<1> QED
  BY <1>1, <1>2 DEF Template, Job

\* The types hold before the pool starts, whether or not the daemon's HTTP
\* client exists yet.
LEMMA TypeOKInit ==
  ASSUME NEW ready \in BOOLEAN, InitWith(ready)
  PROVE  TypeOK
<1> USE DEF InitWith
<1>1. tip \in [height : Heights, branch : Branches]
  BY MaxHeightAssumption DEF Heights
<1>2. synced \in BOOLEAN /\ initialized \in BOOLEAN /\ connected \in BOOLEAN
  OBVIOUS
<1>3. answer \in [thrown : BOOLEAN, response : Template \cup {None}]
  BY DEF NoAnswer
<1>4. emission \in Emission
  BY DEF Emission, Silence
<1>5. jobCounter \in 0..MaxId /\ ticks \in 0..MaxTicks
  BY MaxIdAssumption, MaxTicksAssumption
<1>6. created \in Seq(Job) /\ broadcasts \in Seq(Job)
  OBVIOUS
<1> QED
  BY <1>1, <1>2, <1>3, <1>4, <1>5, <1>6 DEF TypeOK

\* Every step of the chain, the daemon, the timer, UpdateJob and the observers
\* preserves the types.  BroadcastJob needs a CurrentJob to read: that is
\* where the type depends on the rest of the invariant.
LEMMA TypeOKStep ==
  ASSUME TypeOK, [Next]_jobVars,
         "BroadcastJob" \in emission.pending => currentJob # None
  PROVE  TypeOK'
<1> USE DEF TypeOK
<1>1. CASE NewBlock
  <2>1. tip' \in [height : Heights, branch : Branches]
    BY <1>1, MaxHeightAssumption DEF NewBlock, Heights
  <2> QED
    BY <1>1, <2>1 DEF NewBlock, managerVars
<1>2. CASE Reorganize
  <2>1. tip' \in [height : Heights, branch : Branches]
    BY <1>2 DEF Reorganize
  <2> QED
    BY <1>2, <2>1 DEF Reorganize, managerVars
<1>3. CASE ChangeSync
  <2>1. synced' \in BOOLEAN
    BY <1>3 DEF ChangeSync
  <2> QED
    BY <1>3, <2>1 DEF ChangeSync, managerVars
<1>4. CASE SubscribeBroadcast
  BY <1>4 DEF SubscribeBroadcast, envVars, Observer
<1>5. CASE SubscribeFirst
  BY <1>5 DEF SubscribeFirst, envVars, Observer
<1>6. CASE Tick
  BY <1>6, MaxTicksAssumption DEF Tick, envVars
<1>7. CASE QueryDaemon
  BY <1>7, MaxTicksAssumption DEF QueryDaemon, envVars
<1>8. ASSUME NEW x \in TemplateExchanges, DaemonReplies(x)
      PROVE  TypeOK'
  <2>1. answer' \in [thrown : BOOLEAN, response : Template \cup {None}]
    BY <1>8, AnswerType DEF DaemonReplies
  <2> QED
    BY <1>8, <2>1 DEF DaemonReplies, envVars
<1>9. NoAnswer \in [thrown : BOOLEAN, response : Template \cup {None}]
  BY DEF NoAnswer
<1>10. CASE UpdateFails
  BY <1>9, <1>10 DEF UpdateFails, envVars
<1>11. CASE UpdateFailsInConstructor
  <2>1. NextId \in 0..MaxId
    BY MaxIdAssumption DEF NextId
  <2> QED
    BY <1>9, <1>11, <2>1 DEF UpdateFailsInConstructor, envVars
<1>12. CASE UpdateFindsNothing
  BY <1>9, <1>12 DEF UpdateFindsNothing, envVars
<1>13. CASE CreateJob
  <2> DEFINE job == [id |-> NextId, height |-> answer.response.height,
                     branch |-> answer.response.branch]
  <2>1. job \in Job
    BY <1>13, JobType DEF CreateJob
  <2> HIDE DEF job
  <2>2. currentJob' = job /\ created' = Append(created, job)
        /\ emission' = [job |-> job, pending |-> observers]
    BY <1>13 DEF CreateJob, job
  <2>3. NextId \in 0..MaxId
    BY MaxIdAssumption DEF NextId
  <2>4. created' \in Seq(Job) /\ emission' \in Emission
    BY <2>1, <2>2, AppendProperties DEF Emission
  <2> QED
    BY <1>9, <1>13, <2>1, <2>2, <2>3, <2>4 DEF CreateJob, envVars
<1>14. CASE BroadcastJob
  <2>1. currentJob \in Job
    BY <1>14 DEF BroadcastJob
  <2>2. broadcasts' \in Seq(Job)
    BY <1>14, <2>1, AppendProperties DEF BroadcastJob
  <2>3. emission' \in Emission
    BY <1>14 DEF BroadcastJob, Emission, Silence, Observer
  <2> QED
    BY <1>14, <2>2, <2>3 DEF BroadcastJob, envVars
<1>15. CASE TakeFirst
  <2>1. emission' \in Emission
    BY <1>15 DEF TakeFirst, Emission, Silence
  <2> QED
    BY <1>15, <2>1 DEF TakeFirst, envVars
<1>16. CASE UNCHANGED jobVars
  BY <1>16 DEF jobVars, envVars, managerVars
<1> QED
  BY <1>1, <1>2, <1>3, <1>4, <1>5, <1>6, <1>7, <1>8, <1>10, <1>11, <1>12,
     <1>13, <1>14, <1>15, <1>16
     DEF Next, Environment, Pipeline, Update, Publish

-------------------------------------------------------------------------------

\* The strengthened invariant holds before the pool starts.
LEMMA IInvInitWith ==
  ASSUME NEW ready \in BOOLEAN, InitWith(ready)
  PROVE  IInv
<1>1. TypeOK
  BY TypeOKInit
<1>2. Len(created) = 0 /\ Len(broadcasts) = 0
  BY DEF InitWith
<1> QED
  BY <1>1, <1>2 DEF InitWith, Silence, IInv, RunningIsObserved, OneAtATime,
                    CurrentIsLast, JobsClimb, EveryJobIsBroadcastInOrder

\* In particular the job manager of MoneroJobManager.cs starts in it.
LEMMA IInvInit == Init => IInv
  BY IInvInitWith DEF Init

\* UpdateJob's new job is higher than every job before it: CurrentJob is the
\* highest, and the template was compared with it.
LEMMA CreateJobStep == IInv /\ CreateJob => (CurrentIsLast /\ JobsClimb)'
<1> SUFFICES ASSUME IInv, CreateJob
             PROVE  (CurrentIsLast /\ JobsClimb)'
  OBVIOUS
<1> DEFINE job == [id |-> NextId, height |-> answer.response.height,
                   branch |-> answer.response.branch]
<1>1. job \in Job
  BY JobType DEF CreateJob, IInv
<1>2. currentJob' = job /\ created' = Append(created, job)
  BY DEF CreateJob
<1>3. currentJob # None => currentJob.height < job.height
  BY DEF CreateJob, GotNewBlockTemplate
<1> HIDE DEF job
<1>4. /\ Len(created) \in Nat
      /\ \A i \in 1..Len(created) : created[i] \in Job
  BY LenProperties, ElementOfSeq DEF IInv, TypeOK
<1>5. \A j \in Job : j.height \in Int /\ j # None
  BY MaxHeightAssumption, NoneAssumption DEF Job, Heights
<1>6. /\ Len(created') = Len(created) + 1
      /\ \A i \in 1..Len(created) : created'[i] = created[i]
      /\ created'[Len(created) + 1] = job
  BY <1>1, <1>2, AppendProperties DEF IInv, TypeOK
<1>7. \A i \in 1..Len(created) : created[i].height < job.height
  <2> SUFFICES ASSUME NEW i \in 1..Len(created)
               PROVE  created[i].height < job.height
    OBVIOUS
  <2>1. currentJob # None /\ currentJob = created[Len(created)]
    BY <1>4 DEF IInv, CurrentIsLast
  <2>2. created[i].height <= created[Len(created)].height
    <3>1. CASE i = Len(created)
      BY <1>4, <1>5, <3>1
    <3>2. CASE i < Len(created)
      BY <1>4, <1>5, <3>2 DEF IInv, JobsClimb
    <3> QED
      BY <1>4, <3>1, <3>2
  <2> QED
    BY <1>1, <1>3, <1>4, <1>5, <2>1, <2>2
<1>8. CurrentIsLast'
  BY <1>1, <1>2, <1>4, <1>5, <1>6 DEF CurrentIsLast
<1>9. JobsClimb'
  <2> SUFFICES ASSUME NEW i \in 1..Len(created'), NEW j \in 1..Len(created'), i < j
               PROVE  created'[i].height < created'[j].height
    BY DEF JobsClimb
  <2>1. i \in 1..Len(created)
    BY <1>4, <1>6
  <2>2. CASE j \in 1..Len(created)
    BY <1>6, <2>1, <2>2 DEF IInv, JobsClimb
  <2>3. CASE j = Len(created) + 1
    BY <1>6, <1>7, <2>1, <2>3
  <2> QED
    BY <1>4, <1>6, <2>2, <2>3
<1> QED
  BY <1>8, <1>9

\* Every step preserves the strengthened invariant.
LEMMA IInvStep == IInv /\ [Next]_jobVars => IInv'
<1> SUFFICES ASSUME IInv, [Next]_jobVars
             PROVE  IInv'
  OBVIOUS
<1>l. /\ Len(created) \in Nat
      /\ Len(broadcasts) \in Nat
      /\ \A i \in 1..Len(created) : created[i] \in Job
  BY LenProperties, ElementOfSeq DEF IInv, TypeOK
<1>b. "BroadcastJob" \in emission.pending
        => currentJob # None /\ Len(created) = Len(broadcasts) + 1
  BY <1>l DEF IInv, EveryJobIsBroadcastInOrder, CurrentIsLast
<1>t. TypeOK'
  BY <1>b, TypeOKStep DEF IInv
<1>e. emission.pending \in SUBSET Observer /\ observers \in SUBSET Observer
      /\ ticks \in Nat
  BY DEF IInv, TypeOK, Emission
<1> USE DEF IInv, RunningIsObserved, OneAtATime, CurrentIsLast, JobsClimb,
            EveryJobIsBroadcastInOrder
<1>1. CASE Environment
  BY <1>1, <1>t DEF Environment, NewBlock, Reorganize, ChangeSync, managerVars
<1>2. CASE SubscribeBroadcast
  BY <1>2, <1>t DEF SubscribeBroadcast
<1>3. CASE SubscribeFirst
  BY <1>3, <1>t DEF SubscribeFirst
<1>4. CASE Tick
  BY <1>4, <1>t, <1>e DEF Tick
<1>5. CASE QueryDaemon
  BY <1>5, <1>t, <1>e DEF QueryDaemon
<1>6. ASSUME NEW x \in TemplateExchanges, DaemonReplies(x)
      PROVE  IInv'
  BY <1>6, <1>t DEF DaemonReplies
<1>7. CASE UpdateFails \/ UpdateFailsInConstructor \/ UpdateFindsNothing
  BY <1>7, <1>t DEF UpdateFails, UpdateFailsInConstructor, UpdateFindsNothing
<1>8. CASE CreateJob
  <2>1. (CurrentIsLast /\ JobsClimb)'
    BY <1>8, CreateJobStep
  <2>2. RunningIsObserved' /\ OneAtATime'
    BY <1>8 DEF CreateJob
  <2>3. EveryJobIsBroadcastInOrder'
    <3> DEFINE job == [id |-> NextId, height |-> answer.response.height,
                       branch |-> answer.response.branch]
    <3>1. job \in Job
      BY <1>8, JobType DEF CreateJob
    <3>2. created' = Append(created, job) /\ broadcasts' = broadcasts
          /\ emission'.pending = observers
      BY <1>8 DEF CreateJob
    <3>3. "BroadcastJob" \in observers /\ "BroadcastJob" \notin emission.pending
      BY <1>8 DEF CreateJob
    <3> HIDE DEF job
    <3>4. /\ Len(created') = Len(created) + 1
          /\ \A i \in 1..Len(created) : created'[i] = created[i]
      BY <3>1, <3>2, AppendProperties DEF TypeOK
    <3> QED
      BY <1>l, <3>2, <3>3, <3>4
  <2> QED
    BY <1>t, <2>1, <2>2, <2>3
<1>9. CASE BroadcastJob
  <2>1. /\ "BroadcastJob" \in emission.pending /\ update = "idle"
        /\ Len(created) = Len(broadcasts) + 1
        /\ currentJob = created[Len(created)] /\ currentJob \in Job
    BY <1>9, <1>b, <1>l DEF BroadcastJob, TypeOK
  <2>2. "BroadcastJob" \notin emission'.pending
    BY <1>9, <1>e DEF BroadcastJob, Silence
  <2>3. /\ Len(broadcasts') = Len(broadcasts) + 1
        /\ \A i \in 1..Len(broadcasts) : broadcasts'[i] = broadcasts[i]
        /\ broadcasts'[Len(broadcasts) + 1] = currentJob
    BY <1>9, <2>1, AppendProperties DEF BroadcastJob, TypeOK
  <2>4. created' = created
    BY <1>9 DEF BroadcastJob
  <2>5. EveryJobIsBroadcastInOrder'
    BY <1>l, <2>1, <2>2, <2>3, <2>4
  <2> QED
    BY <1>9, <1>t, <2>1, <2>5 DEF BroadcastJob
<1>10. CASE TakeFirst
  BY <1>10, <1>t, <1>e DEF TakeFirst, Silence
<1>11. CASE UNCHANGED jobVars
  BY <1>11, <1>t DEF jobVars, envVars, managerVars
<1> QED
  BY <1>1, <1>2, <1>3, <1>4, <1>5, <1>6, <1>7, <1>8, <1>9, <1>10, <1>11
     DEF Next, Pipeline, Update, Publish

-------------------------------------------------------------------------------

\* Type correctness of the job manager: in particular the counter stays in
\* the int range, and BroadcastJob never runs without a CurrentJob.
THEOREM TypeCorrect == Spec => []TypeOK
<1>1. IInv => TypeOK
  BY DEF IInv
<1> QED
  BY <1>1, IInvInit, IInvStep, PTL DEF Spec

\* UpdateJob never creates a job at or below the height of an earlier one,
\* whatever the chain, the daemon and the network do.
THEOREM JobsAlwaysClimb == Spec => []JobsClimb
<1>1. IInv => JobsClimb
  BY DEF IInv
<1> QED
  BY <1>1, IInvInit, IInvStep, PTL DEF Spec

\* Because Concat serialises updates and pushes, BroadcastJob, which reads
\* CurrentJob, sends every created job exactly once and in order.
THEOREM JobsAreBroadcastInOrder == Spec => []EveryJobIsBroadcastInOrder
<1>1. IInv => EveryJobIsBroadcastInOrder
  BY DEF IInv
<1> QED
  BY <1>1, IInvInit, IInvStep, PTL DEF Spec

(***************************************************************************)
(* PoolStartup.                                                            *)
(***************************************************************************)

(***************************************************************************)
(* The strengthening of the three Serving... invariants: where a job can   *)
(* have come from, followed back to the checks of Initialize.              *)
(***************************************************************************)

\* Nobody observes the jobs before Start, so nothing runs in the pipeline.
QuietBeforeStart ==
  stage \notin {"subscribed", "awaiting", "serving"} => observers = {}

\* The HTTP client is only created behind the check of the address.
ClientsNeedPrefix ==
  /\ initialized \/ stage = "clients" => prefixSet
  /\ stage = "prechecks" => ~initialized

\* A response comes through the HTTP client, from a synchronised daemon.
AnswersHaveAnOrigin ==
  /\ synced => everSynced
  /\ answer.response # None => initialized /\ everSynced

\* A job is made of a response.
JobsHaveAnOrigin == currentJob # None => initialized /\ everSynced

\* What Take(1) hands to Start is a job.
FirstTaskSawAJob ==
  /\ emission.pending # {} => currentJob # None
  /\ firstTask = "done" => currentJob # None
  /\ stage = "serving" => firstTask = "done"

StartupInv ==
  /\ IInv
  /\ TypeOKStartup
  /\ QuietBeforeStart
  /\ ClientsNeedPrefix
  /\ AnswersHaveAnOrigin
  /\ JobsHaveAnOrigin
  /\ FirstTaskSawAJob

-------------------------------------------------------------------------------

\* What a getblocktemplate call yields: a response only through the HTTP client
\* (without it the call is faulted), and only from a synchronised daemon.
LEMMA AnswerOrigin ==
  ASSUME NEW x \in TemplateExchanges,
         ExecuteCommandAsync(initialized, x).response # None
  PROVE  initialized /\ synced
<1>1. initialized
  <2> SUFFICES ASSUME ~initialized
               PROVE  ExecuteCommandAsync(initialized, x).response = None
    OBVIOUS
  <2>1. MakeRequestAsync(initialized, x) = "faulted"
    BY DEF MakeRequestAsync
  <2> QED
    BY <2>1 DEF ExecuteCommandAsync, MapDaemonResponse, DaemonResponse
<1>2. ExecuteCommandAsync(initialized, x).response \in {None, x.result}
  BY DEF ExecuteCommandAsync, MapDaemonResponse, DaemonResponse, Thrown
<1>3. ASSUME ~synced
      PROVE  x.result = None
  BY <1>3 DEF TemplateExchanges, LostExchanges, Refusals, Exchange
<1> QED
  BY <1>1, <1>2, <1>3

\* InitializeDaemons is the only step of the engine's thread that touches a
\* variable of the job manager without being a step of it; the thread's other
\* steps leave those variables alone or subscribe an observer.
LEMMA StartupStepsOfTheJobManager ==
  ASSUME StartupNext
  PROVE  \/ [Next]_jobVars
         \/ InitializeDaemons
<1>1. CASE Initialize
  BY <1>1 DEF Initialize, RunPreInitChecks, WaitDaemonHealthy, WaitDaemonPeers,
              EnsureDaemonSynched, ReportSyncProgress, RunPostInitInfo,
              RunPostInitChecks, Unaffected
<1>2. CASE Start
  BY <1>2 DEF Start, StartJobManager, SubscribeToFirstJob, StartServer, Next
<1>3. CASE Background
  BY <1>3 DEF Background, Next
<1> QED
  BY <1>1, <1>2, <1>3 DEF StartupNext

\* Creating the HTTP client keeps the job manager's invariant: it says nothing
\* of the client.
LEMMA IInvInitializeDaemons == IInv /\ InitializeDaemons => IInv'
  BY DEF IInv, TypeOK, RunningIsObserved, OneAtATime, CurrentIsLast, JobsClimb,
         EveryJobIsBroadcastInOrder, InitializeDaemons, jobsAside, envVars

\* The job manager's invariant holds through the whole of Engine.Start.
LEMMA IInvStartupStep == IInv /\ [StartupNext]_vars => IInv'
<1> SUFFICES ASSUME IInv, [StartupNext]_vars
             PROVE  IInv'
  OBVIOUS
<1>1. CASE StartupNext
  BY <1>1, IInvStep, IInvInitializeDaemons, StartupStepsOfTheJobManager
<1>2. CASE UNCHANGED vars
  BY <1>2, IInvStep DEF vars
<1> QED
  BY <1>1, <1>2

-------------------------------------------------------------------------------

\* What the steps of the job manager and its environment do to the variables
\* the provenance of a job is about.
LEMMA BackgroundSummary ==
  ASSUME StartupInv, Background
  PROVE  /\ UNCHANGED <<stage, prefixSet, initialized>>
         /\ everSynced' = (everSynced \/ synced')
         /\ answer'.response # None => initialized /\ everSynced
         /\ currentJob' # None => initialized /\ everSynced
         /\ currentJob # None => currentJob' # None
         /\ emission'.pending # {} => currentJob' # None
         /\ firstTask = "done" => firstTask' = "done"
         /\ firstTask' = "done" => currentJob' # None
         /\ observers' \subseteq observers
<1>1. UNCHANGED <<stage, prefixSet>> /\ everSynced' = (everSynced \/ synced')
  BY DEF Background
<1> USE DEF StartupInv, AnswersHaveAnOrigin, JobsHaveAnOrigin, FirstTaskSawAJob
<1>n. NoAnswer.response = None /\ Silence.pending = {}
  BY DEF NoAnswer, Silence
<1>2. CASE Environment
  BY <1>1, <1>2 DEF Environment, NewBlock, Reorganize, ChangeSync, managerVars
<1>3. CASE Tick
  BY <1>1, <1>3 DEF Tick
<1>4. CASE QueryDaemon
  BY <1>1, <1>4 DEF QueryDaemon
<1>5. ASSUME NEW x \in TemplateExchanges, DaemonReplies(x)
      PROVE  answer'.response # None => initialized /\ everSynced
  <2>1. answer'.response = ExecuteCommandAsync(initialized, x).response
    BY <1>5 DEF DaemonReplies
  <2> QED
    BY <2>1, AnswerOrigin
<1>6. CASE \E x \in TemplateExchanges : DaemonReplies(x)
  BY <1>1, <1>5, <1>6 DEF DaemonReplies
<1>7. CASE UpdateFails \/ UpdateFailsInConstructor \/ UpdateFindsNothing
  BY <1>1, <1>7, <1>n
     DEF UpdateFails, UpdateFailsInConstructor, UpdateFindsNothing
<1>8. CASE CreateJob
  <2>1. currentJob' \in Job
    BY <1>8, JobType DEF CreateJob, IInv
  <2>2. currentJob' # None
    BY <2>1, NoneAssumption
  <2> QED
    BY <1>1, <1>8, <1>n, <2>2 DEF CreateJob
<1>9. CASE BroadcastJob
  <2>1. emission.pending # {} /\ UNCHANGED <<initialized, currentJob, answer, firstTask, observers>>
    BY <1>9 DEF BroadcastJob
  <2> QED
    BY <1>1, <2>1
<1>10. CASE TakeFirst
  <2>1. emission.pending # {} /\ UNCHANGED <<initialized, currentJob, answer>>
        /\ observers' \subseteq observers /\ firstTask' = "done"
    BY <1>10 DEF TakeFirst
  <2> QED
    BY <1>1, <2>1
<1> QED
  BY <1>2, <1>3, <1>4, <1>6, <1>7, <1>8, <1>9, <1>10
     DEF Background, Pipeline, Update, Publish

\* The types of the startup's own variables; those of the job manager come
\* from its invariant.
LEMMA TypeOKStartupStep ==
  ASSUME IInv', TypeOKStartup, [StartupNext]_vars
  PROVE  TypeOKStartup'
<1> USE DEF TypeOKStartup, Stages, Continue, Abort, Fail
<1>t. TypeOK'
  BY DEF IInv
<1>1. CASE RunPreInitChecks \/ InitializeDaemons
  BY <1>1, <1>t DEF RunPreInitChecks, InitializeDaemons
<1>2. CASE WaitDaemonHealthy \/ WaitDaemonPeers \/ EnsureDaemonSynched
  BY <1>2, <1>t DEF WaitDaemonHealthy, WaitDaemonPeers, EnsureDaemonSynched,
                    Unaffected
<1>3. CASE ReportSyncProgress \/ RunPostInitInfo \/ RunPostInitChecks
  BY <1>3, <1>t DEF ReportSyncProgress, RunPostInitInfo, RunPostInitChecks,
                    Unaffected
<1>4. CASE Start
  BY <1>4, <1>t DEF Start, StartJobManager, SubscribeToFirstJob, StartServer
<1>5. CASE Background
  BY <1>5, <1>t DEF Background, IInv, TypeOK
<1>6. CASE UNCHANGED vars
  BY <1>6, <1>t DEF vars, startupVars
<1> QED
  BY <1>1, <1>2, <1>3, <1>4, <1>5, <1>6 DEF StartupNext, Initialize

\* Engine.Start begins with the strengthened invariant.
LEMMA StartupInvInit == StartupInit => StartupInv
<1> SUFFICES ASSUME StartupInit
             PROVE  StartupInv
  OBVIOUS
<1>1. IInv
  BY IInvInitWith DEF StartupInit
<1>2. TypeOKStartup
  BY <1>1 DEF IInv, TypeOKStartup, TypeOK, StartupInit, Stages
<1>3. /\ QuietBeforeStart
      /\ ClientsNeedPrefix
      /\ AnswersHaveAnOrigin
      /\ JobsHaveAnOrigin
      /\ FirstTaskSawAJob
  BY DEF StartupInit, InitWith, NoAnswer, Silence, QuietBeforeStart,
         ClientsNeedPrefix, AnswersHaveAnOrigin, JobsHaveAnOrigin, FirstTaskSawAJob
<1> QED
  BY <1>1, <1>2, <1>3 DEF StartupInv

\* Every step of the startup preserves the strengthened invariant.  The check
\* of the address sets the prefix while there is no client, hence no job; the
\* client is created behind it, and Start waits for a job.
LEMMA StartupInvStep == StartupInv /\ [StartupNext]_vars => StartupInv'
<1> SUFFICES ASSUME StartupInv, [StartupNext]_vars
             PROVE  StartupInv'
  OBVIOUS
<1>i. IInv'
  BY IInvStartupStep DEF StartupInv
<1>t. TypeOKStartup'
  BY <1>i, TypeOKStartupStep DEF StartupInv
<1> USE DEF StartupInv, QuietBeforeStart, ClientsNeedPrefix, AnswersHaveAnOrigin,
            JobsHaveAnOrigin, FirstTaskSawAJob
<1>1. CASE RunPreInitChecks
  BY <1>1, <1>i, <1>t
     DEF RunPreInitChecks, Continue, Abort, Fail, jobVars, envVars, managerVars
<1>2. CASE InitializeDaemons
  BY <1>2, <1>i, <1>t DEF InitializeDaemons, Continue, jobsAside, envVars
<1>3. CASE \/ WaitDaemonHealthy \/ WaitDaemonPeers \/ EnsureDaemonSynched
           \/ ReportSyncProgress \/ RunPostInitInfo \/ RunPostInitChecks
  <2>1. /\ UNCHANGED <<jobVars, decodes, prefixSet, everSynced>>
        /\ stage \notin {"subscribed", "awaiting", "serving"}
        /\ stage' \in {"peers", "health", "sync", "progress", "info", "address", "start"}
    BY <1>3 DEF WaitDaemonHealthy, WaitDaemonPeers, EnsureDaemonSynched,
       ReportSyncProgress, RunPostInitInfo, RunPostInitChecks, Unaffected,
       Continue, Abort, Fail
  <2> QED
    BY <2>1, <1>i, <1>t DEF jobVars, envVars, managerVars
<1>4. CASE StartJobManager
  BY <1>4, <1>i, <1>t DEF StartJobManager, SubscribeBroadcast, Continue, envVars
<1>5. CASE SubscribeToFirstJob
  BY <1>5, <1>i, <1>t DEF SubscribeToFirstJob, SubscribeFirst, Continue, envVars
<1>6. CASE StartServer
  BY <1>6, <1>i, <1>t DEF StartServer, Continue, jobVars, envVars, managerVars
<1>7. CASE Background
  <2>1. /\ everSynced \in BOOLEAN /\ synced' \in BOOLEAN
        /\ initialized \in BOOLEAN /\ prefixSet \in BOOLEAN
    BY <1>t DEF TypeOKStartup, TypeOK
  <2>2. observers' \subseteq observers
    BY <1>7, BackgroundSummary
  <2>3. QuietBeforeStart'
    BY <1>7, <2>2, BackgroundSummary
  <2>4. ClientsNeedPrefix'
    BY <1>7, BackgroundSummary
  <2>5. (synced => everSynced)' /\ (everSynced => everSynced')
    BY <1>7, <2>1, BackgroundSummary
  <2>6. AnswersHaveAnOrigin' /\ JobsHaveAnOrigin'
    BY <1>7, <2>5, BackgroundSummary
  <2>7. FirstTaskSawAJob'
    BY <1>7, BackgroundSummary
  <2> QED
    BY <1>i, <1>t, <2>3, <2>4, <2>6, <2>7
<1>8. CASE UNCHANGED vars
  BY <1>8, <1>i, <1>t DEF vars, startupVars, jobVars, envVars, managerVars
<1> QED
  BY <1>1, <1>2, <1>3, <1>4, <1>5, <1>6, <1>7, <1>8
     DEF StartupNext, Initialize, Start

-------------------------------------------------------------------------------

\* Type correctness of the startup, composed with the job manager.
THEOREM StartupTypeCorrect == StartupSpec => []TypeOKStartup
<1>1. StartupInv => TypeOKStartup
  BY DEF StartupInv
<1> QED
  BY <1>1, StartupInvInit, StartupInvStep, PTL DEF StartupSpec

\* OnLogin can dereference CurrentJob: the server is only started by the job
\* Take(1) saw, and CurrentJob never becomes null again.
THEOREM ServingAlwaysHasAJob == StartupSpec => []ServingHasAJob
<1>1. StartupInv => ServingHasAJob
  BY DEF StartupInv, FirstTaskSawAJob, ServingHasAJob, Serving
<1> QED
  BY <1>1, StartupInvInit, StartupInvStep, PTL DEF StartupSpec

\* A pool that serves has checked its address, although Start follows a failed
\* check too: no client was created then, so no job ever is.
THEOREM ServingAlwaysKnowsItsPrefix == StartupSpec => []ServingKnowsItsPrefix
<1>1. StartupInv => ServingKnowsItsPrefix
  BY DEF StartupInv, ClientsNeedPrefix, JobsHaveAnOrigin, FirstTaskSawAJob,
         ServingKnowsItsPrefix, Serving
<1> QED
  BY <1>1, StartupInvInit, StartupInvStep, PTL DEF StartupSpec

\* A pool that serves has had a template from a synchronised daemon, although
\* EnsureDaemonSynched takes failed calls for synchronisation.
THEOREM ServingDaemonWasAlwaysSynced == StartupSpec => []ServingDaemonWasSynced
<1>1. StartupInv => ServingDaemonWasSynced
  BY DEF StartupInv, JobsHaveAnOrigin, FirstTaskSawAJob, ServingDaemonWasSynced,
         Serving
<1> QED
  BY <1>1, StartupInvInit, StartupInvStep, PTL DEF StartupSpec
================================================================================
