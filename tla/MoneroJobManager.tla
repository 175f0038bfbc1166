--------------------------- MODULE MoneroJobManager ---------------------------
(***************************************************************************)
(* Hypepool.Monero/MoneroJobManager.cs: the observable pipeline that polls *)
(* the coin daemon once a second and turns block templates into jobs,      *)
(*                                                                         *)
(*   Interval . Select(FromAsync(UpdateJob)) . Concat . Where . Publish    *)
(*   . RefCount                                                            *)
(*                                                                         *)
(* together with its two observers in MoneroPool.Start: the permanent one, *)
(* BroadcastJob, and Take(1), which waits for the first job.               *)
(*                                                                         *)
(* The timer ticks while UpdateJob awaits the daemon; Concat queues the    *)
(* ticks and subscribes to the next UpdateJob once the previous one has    *)
(* completed, that is, after its job has been pushed through Publish to    *)
(* every observer.  The chain and the daemon are the environment: blocks   *)
(* are found, the daemon reorganizes to another branch (possibly to a      *)
(* lower height), loses its synchronisation, and answers badly.            *)
(***************************************************************************)
EXTENDS DaemonClient, Sequences

CONSTANTS
  Branches,     \* identities of competing blocks of one height
  MaxHeight,    \* bound of the model: the highest block found
  MaxTicks,     \* bound of the model: timer ticks Concat may hold queued
  MaxId         \* int.MaxValue, where the job counter starts again at 1

ASSUME MaxHeightAssumption == MaxHeight \in Nat \ {0}
ASSUME MaxTicksAssumption == MaxTicks \in Nat \ {0}
ASSUME MaxIdAssumption == MaxId \in Nat \ {0}

Heights == 1..MaxHeight

\* What getblocktemplate describes; ok: the blob converts to bytes and has
\* room for the instance id at the reserved offset.
Template == [height : Heights, branch : Branches, ok : BOOLEAN]

Job == [id : 1..MaxId, height : Heights, branch : Branches]

Observer == {"BroadcastJob", "Take(1)"}

ASSUME NoneAssumption == None \notin Job \cup Template \cup Int

VARIABLES
  \* the environment
  tip,          \* the height and branch the daemon builds templates for
  synced,       \* whether the daemon considers itself synchronised
  \* DaemonClient
  initialized,  \* Initialize() has created the HttpClient
  \* the job manager
  currentJob,   \* CurrentJob
  jobCounter,   \* _jobCounter, called by one UpdateJob at a time
  connected,    \* RefCount has connected Publish to the interval
  ticks,        \* ticks queued in Concat
  update,       \* UpdateJob: "idle", "awaiting" the daemon, or "answered"
  answer,       \* what UpdateJob received: an exception or a response
  emission,     \* the job on its way through Publish, with who is still to see it
  observers,    \* the observers subscribed to Publish
  firstTask,    \* the task of JobQueue.Take(1)
  \* history
  created,      \* the jobs UpdateJob created, in order
  broadcasts    \* the jobs whose work BroadcastJob handed to clients

envVars == <<tip, synced>>
managerVars == <<initialized, currentJob, jobCounter, connected, ticks, update,
                 answer, emission, observers, firstTask, created, broadcasts>>
jobVars == <<envVars, managerVars>>

Emission == [job : Job \cup {None}, pending : SUBSET Observer]

NoAnswer == [thrown |-> FALSE, response |-> None]

Silence == [job |-> None, pending |-> {}]

TypeOK ==
  /\ tip \in [height : Heights, branch : Branches]
  /\ synced \in BOOLEAN
  /\ initialized \in BOOLEAN
  /\ currentJob \in Job \cup {None}
  /\ jobCounter \in 0..MaxId
  /\ connected \in BOOLEAN
  /\ ticks \in 0..MaxTicks
  /\ update \in {"idle", "awaiting", "answered"}
  /\ answer \in [thrown : BOOLEAN, response : Template \cup {None}]
  /\ emission \in Emission
  /\ observers \in SUBSET Observer
  /\ firstTask \in {"none", "waiting", "done"}
  /\ created \in Seq(Job)
  /\ broadcasts \in Seq(Job)

InitWith(ready) ==
  /\ tip \in [height : {1}, branch : Branches]
  /\ synced \in BOOLEAN
  /\ initialized = ready
  /\ currentJob = None
  /\ jobCounter = 0
  /\ connected = FALSE
  /\ ticks = 0
  /\ update = "idle"
  /\ answer = NoAnswer
  /\ emission = Silence
  /\ observers = {}
  /\ firstTask = "none"
  /\ created = <<>>
  /\ broadcasts = <<>>

Init == InitWith(TRUE)

-------------------------------------------------------------------------------
(* The environment.                                                        *)

\* A block is found on top of the chain.
NewBlock ==
  /\ tip.height < MaxHeight
  /\ \E b \in Branches : tip' = [height |-> tip.height + 1, branch |-> b]
  /\ UNCHANGED <<synced, managerVars>>

\* The daemon moves to a branch with more work, of the same height or lower.
Reorganize ==
  /\ \E h \in Heights, b \in Branches :
       /\ tip.height - 1 <= h /\ h <= tip.height
       /\ b # tip.branch
       /\ tip' = [height |-> h, branch |-> b]
  /\ UNCHANGED <<synced, managerVars>>

\* The daemon falls behind its peers, or catches up with them.
ChangeSync ==
  /\ synced' = ~synced
  /\ UNCHANGED <<tip, managerVars>>

\* The exchanges a getblocktemplate call can end with: -9 (core is busy) from
\* a daemon that is not synchronised, another error code, or a template.
TemplateExchanges ==
  LostExchanges \cup Refusals({-1})
    \cup IF synced
         THEN Results({[height |-> tip.height, branch |-> tip.branch, ok |-> o]
                         : o \in BOOLEAN})
         ELSE Refusals({-9})

-------------------------------------------------------------------------------
(* MoneroPool.Start's subscriptions and the timer.                         *)

\* JobQueue.Subscribe(BroadcastJob): the first subscription connects.
SubscribeBroadcast ==
  /\ "BroadcastJob" \notin observers
  /\ observers' = observers \cup {"BroadcastJob"}
  /\ connected' = TRUE
  /\ UNCHANGED <<envVars, initialized, currentJob, jobCounter, ticks, update,
                 answer, emission, firstTask, created, broadcasts>>

\* JobQueue.Take(1).ToTask(): sees the jobs published from now on.
SubscribeFirst ==
  /\ "BroadcastJob" \in observers
  /\ firstTask = "none"
  /\ observers' = observers \cup {"Take(1)"}
  /\ firstTask' = "waiting"
  /\ UNCHANGED <<envVars, initialized, currentJob, jobCounter, connected, ticks,
                 update, answer, emission, created, broadcasts>>

\* Observable.Interval: one more UpdateJob for Concat to run.
Tick ==
  /\ connected
  /\ ticks < MaxTicks
  /\ ticks' = ticks + 1
  /\ UNCHANGED <<envVars, initialized, currentJob, jobCounter, connected, update,
                 answer, emission, observers, firstTask, created, broadcasts>>

-------------------------------------------------------------------------------
(* UpdateJob.                                                              *)

\* Defect: Merge instead of Concat, updates run while a job is being pushed.
QueryDaemonMerged ==
  /\ ticks > 0
  /\ update = "idle"
  /\ ticks' = ticks - 1
  /\ update' = "awaiting"
  /\ UNCHANGED <<envVars, initialized, currentJob, jobCounter, connected, answer,
                 emission, observers, firstTask, created, broadcasts>>

\* Concat subscribes to the next FromAsync(UpdateJob), which calls the daemon.
QueryDaemon ==
  /\ ticks > 0
  /\ update = "idle"
  /\ emission.pending = {}
  /\ ticks' = ticks - 1
  /\ update' = "awaiting"
  /\ UNCHANGED <<envVars, initialized, currentJob, jobCounter, connected, answer,
                 emission, observers, firstTask, created, broadcasts>>

\* The await of ExecuteCommandAsync ends; the chain may move on meanwhile.  An
\* error is only logged: what counts is whether there is a response.
DaemonReplies(exchange) ==
  /\ update = "awaiting"
  /\ update' = "answered"
  /\ LET r == ExecuteCommandAsync(initialized, exchange)
     IN  answer' = [thrown |-> r.thrown, response |-> r.response]
  /\ UNCHANGED <<envVars, initialized, currentJob, jobCounter, connected, ticks,
                 emission, observers, firstTask, created, broadcasts>>

\* Defect: the counter is not reset at its largest value.
NextIdUnbounded == jobCounter + 1

\* JobCounter.GetNext() for a single caller.
NextId == IF jobCounter = MaxId THEN 1 ELSE jobCounter + 1

\* Defect: any template that differs in height is taken for a new one.
GotNewBlockTemplateAnyHeight(template) ==
  currentJob # None => currentJob.height # template.height

\* gotNewBlockTemplate, when CurrentJob or the template can be dereferenced.
GotNewBlockTemplate(template) ==
  currentJob # None => currentJob.height < template.height

\* Defect: no catch; the exception ends the observable for every observer.
UpdateFailsUncaught ==
  /\ update = "answered"
  /\ \/ answer.thrown
     \/ answer.response = None /\ currentJob # None
  /\ update' = "idle"
  /\ answer' = NoAnswer
  /\ connected' = FALSE
  /\ ticks' = 0
  /\ UNCHANGED <<envVars, initialized, currentJob, jobCounter, emission,
                 observers, firstTask, created, broadcasts>>

\* UpdateJob returns null, having caught an exception: ExecuteCommandAsync
\* threw, or there is no template to compare with CurrentJob.
UpdateFails ==
  /\ update = "answered"
  /\ \/ answer.thrown
     \/ answer.response = None /\ currentJob # None
  /\ update' = "idle"
  /\ answer' = NoAnswer
  /\ UNCHANGED <<envVars, initialized, currentJob, jobCounter, connected, ticks,
                 emission, observers, firstTask, created, broadcasts>>

\* UpdateJob takes an id, then the constructor of MoneroJob throws: there is
\* no template at all, or its blob is malformed.  The id is lost.
UpdateFailsInConstructor ==
  /\ update = "answered"
  /\ ~answer.thrown
  /\ \/ answer.response = None /\ currentJob = None
     \/ /\ answer.response # None
        /\ GotNewBlockTemplate(answer.response)
        /\ ~answer.response.ok
  /\ jobCounter' = NextId
  /\ update' = "idle"
  /\ answer' = NoAnswer
  /\ UNCHANGED <<envVars, initialized, currentJob, connected, ticks, emission,
                 observers, firstTask, created, broadcasts>>

\* UpdateJob returns null: the template is not for a higher block.
UpdateFindsNothing ==
  /\ update = "answered"
  /\ ~answer.thrown
  /\ answer.response # None
  /\ ~GotNewBlockTemplate(answer.response)
  /\ update' = "idle"
  /\ answer' = NoAnswer
  /\ UNCHANGED <<envVars, initialized, currentJob, jobCounter, connected, ticks,
                 emission, observers, firstTask, created, broadcasts>>

\* UpdateJob returns a new job; Publish pushes it to the present observers.
CreateJob ==
  /\ update = "answered"
  /\ ~answer.thrown
  /\ answer.response # None
  /\ GotNewBlockTemplate(answer.response)
  /\ answer.response.ok
  /\ LET job == [id |-> NextId, height |-> answer.response.height,
                 branch |-> answer.response.branch]
     IN  /\ currentJob' = job
         /\ created' = Append(created, job)
         /\ emission' = [job |-> job, pending |-> observers]
  /\ jobCounter' = NextId
  /\ update' = "idle"
  /\ answer' = NoAnswer
  /\ UNCHANGED <<envVars, initialized, connected, ticks, observers,
                 firstTask, broadcasts>>

-------------------------------------------------------------------------------
(* The observers.  Publish calls them in the order they subscribed.        *)

\* BroadcastJob(job): the work of CurrentJob, not of its argument, goes to
\* the clients.
BroadcastJob ==
  /\ "BroadcastJob" \in emission.pending
  /\ broadcasts' = Append(broadcasts, currentJob)
  /\ emission' = IF emission.pending = {"BroadcastJob"} THEN Silence
                 ELSE [emission EXCEPT !.pending = {"Take(1)"}]
  /\ UNCHANGED <<envVars, initialized, currentJob, jobCounter, connected, ticks,
                 update, answer, observers, firstTask, created>>

\* Take(1) completes its task with the job and unsubscribes.
TakeFirst ==
  /\ emission.pending = {"Take(1)"}
  /\ firstTask' = "done"
  /\ observers' = observers \ {"Take(1)"}
  /\ emission' = Silence
  /\ UNCHANGED <<envVars, initialized, currentJob, jobCounter, connected, ticks,
                 update, answer, created, broadcasts>>

-------------------------------------------------------------------------------

Environment == NewBlock \/ Reorganize \/ ChangeSync

Update ==
  \/ QueryDaemon
  \/ \E x \in TemplateExchanges : DaemonReplies(x)
  \/ UpdateFails
  \/ UpdateFailsInConstructor
  \/ UpdateFindsNothing
  \/ CreateJob

Publish == BroadcastJob \/ TakeFirst

\* What runs once the observers are subscribed, with no call from the pool.
Pipeline == Tick \/ Update \/ Publish

Next == Environment \/ SubscribeBroadcast \/ SubscribeFirst \/ Pipeline

Spec == Init /\ [][Next]_jobVars

\* The timer and the thread pool run what is due; HttpClient's timeout ends
\* every request; a synchronised daemon that is asked again and again answers
\* with a usable template again and again.
GoodReply ==
  \E x \in TemplateExchanges :
    x.kind = "result" /\ x.result.ok /\ DaemonReplies(x)

PipelineFairness ==
  /\ WF_jobVars(Tick)
  /\ WF_jobVars(Update)
  /\ WF_jobVars(Publish)
  /\ SF_jobVars(GoodReply)

FairSpec == Spec /\ WF_jobVars(SubscribeBroadcast) /\ PipelineFairness

-------------------------------------------------------------------------------

(***************************************************************************)
(* Miners never receive the work of an older or of the same height twice:  *)
(* the jobs UpdateJob creates climb strictly in height, even when the      *)
(* daemon reorganizes to a lower block or answers a request late.          *)
(***************************************************************************)
JobsClimb ==
  \A i, j \in 1..Len(created) : i < j => created[i].height < created[j].height

(***************************************************************************)
(* BroadcastJob sends work of CurrentJob although it is given the job, so  *)
(* it must run before the next update replaces CurrentJob: every job is    *)
(* broadcast exactly once, in the order of creation, and at most the last  *)
(* one is still on its way.                                                *)
(***************************************************************************)
EveryJobIsBroadcastInOrder ==
  /\ Len(created) - Len(broadcasts) = IF "BroadcastJob" \in emission.pending
                                      THEN 1 ELSE 0
  /\ \A i \in 1..Len(broadcasts) : broadcasts[i] = created[i]

(***************************************************************************)
(* If the chain reaches a height for good and the daemon stays             *)
(* synchronised, the pool gets a job for that height, whatever requests    *)
(* failed before.                                                          *)
(***************************************************************************)
NewBlocksBecomeJobs ==
  \A h \in Heights :
    <>[](synced /\ tip.height >= h)
      => <>(currentJob # None /\ currentJob.height >= h)

===============================================================================
