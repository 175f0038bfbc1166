-------------------------- MODULE MoneroSessionProofs --------------------------
(***************************************************************************)
(* Proofs about MoneroSession, for any number of miners, of concurrent     *)
(* logins on each connection, and of jobs.                                 *)
(***************************************************************************)
EXTENDS MoneroSession, SequenceTheorems, TLAPS

(***************************************************************************)
(* The strengthening of WorkGoesToValidMiners and NoMinerMissesAJob.       *)
(***************************************************************************)

\* The clients one of whose own logins began with an address of the pool.
PoolMiners == {Client(t) : t \in {s \in Logins : NamesPoolAddress(s)}}

\* A login writes its name before it does anything else, and from then on its
\* client has a name to read.
LoginsNameTheirClient ==
  \A t \in Logins :
    /\ login[t].at = "none" => login[t].name = Nobody /\ ~login[t].valid
    /\ login[t].at \notin {"none"} \cup Ended => login[t].name # Nobody
    /\ login[t].at = "truncate" => login[t].cut # Nobody
    /\ login[t].name # Nobody
         => Client(t) \in Clients /\ miner[Client(t)] # Nobody

\* The shared MinerName, and what a login has cut off it, is the beginning of
\* the name of some login of the client, whichever wrote it last.
ComesFrom(c, name) ==
  \E t \in Logins : Client(t) = c /\ login[t].name # Nobody
                       /\ name \in Prefixes(login[t].name)

NamesComeFromLogins ==
  /\ \A c \in Clients : miner[c] # Nobody => ComesFrom(c, miner[c])
  /\ \A t \in Logins : login[t].at = "truncate" => ComesFrom(Client(t), login[t].cut)

\* What the validation of an address lets through: each mark of it, on its way
\* to a worker job, belongs to a client that named an address of the pool.
MarksNeedPoolAddress ==
  /\ \A t \in Logins : login[t].valid \/ login[t].at = "create"
                         => Client(t) \in PoolMiners
  /\ \A c \in Clients : authorized[c] => c \in PoolMiners
  /\ cast.client # Nobody => cast.client \in PoolMiners

\* A client that could get work of CurrentJob has it, or the broadcast of it
\* is still to come to the client, or a login that has marked the client as
\* subscribed is still to read CurrentJob.
ReadsCurrentJob(t) == login[t].at \in {"authorize", "check", "create"}

MinersAreServed ==
  \A c \in connected :
    authorized[c] /\ subscribed[c]
      => \/ [client |-> c, job |-> currentJob] \in work
         \/ BeingVisited(c)
         \/ \E t \in Logins : Client(t) = c /\ ReadsCurrentJob(t)

\* A login that no other one has overlapped finds its own name in the context
\* up to its end, unless it cuts it, and then it throws.
LoneNames(c, t) ==
  /\ login[t].at \notin {"truncate", "payment", "thrown"} => miner[c] = login[t].name
  /\ login[t].at = "truncate" => Len(login[t].cut) = login[t].index
  /\ login[t].at = "payment" => Len(miner[c]) = login[t].index

\* Its marks are those of its own name, each from the access that sets it on.
Marked == {"check", "create", "activity", "answered", "refused"}

LoneMarks(c, t) ==
  /\ login[t].at \in {"subscribe", "authorize"}
       => (login[t].valid <=> login[t].name \in PoolAddresses)
  /\ login[t].at \in {"authorize"} \cup Marked
       => (subscribed[c] <=> login[t].name \in PoolAddresses)
  /\ login[t].at \in Marked => (authorized[c] <=> login[t].name \in PoolAddresses)

IsLone(c, t) ==
  /\ Client(t) = c /\ login[t].at # "none"
  /\ \A s \in Logins : (s # t /\ Client(s) = c) => login[s].at \in Ended

LoneLogins ==
  \A c \in Clients : alone[c] # Nobody
    => IsLone(c, alone[c]) /\ LoneNames(c, alone[c]) /\ LoneMarks(c, alone[c])

IInv ==
  /\ TypeOK
  /\ LoginsNameTheirClient
  /\ NamesComeFromLogins
  /\ MarksNeedPoolAddress
  /\ WorkIsAskedFor
  /\ MinersAreServed
  /\ LoneLogins

-------------------------------------------------------------------------------

(***************************************************************************)
(* The records of the model, updated.                                      *)
(***************************************************************************)

LoginTask == [at : LoginSteps, client : Clients \cup {Nobody},
              name : Names \cup {Nobody}, index : Nat,
              cut : Beginnings \cup {Nobody}, valid : BOOLEAN]

\* The task of login t is now rec; the other tasks are where they were.
Becomes(t, rec) ==
  /\ login' \in [Logins -> LoginTask]
  /\ login'[t] = rec
  /\ \A s \in Logins : s # t => login'[s] = login[s]

Task(at, client, name, index, cut, valid) ==
  [at |-> at, client |-> client, name |-> name, index |-> index, cut |-> cut,
   valid |-> valid]

\* The task of login t at its next step, its variables as they were.
Moved(t, at) ==
  Task(at, login[t].client, login[t].name, login[t].index, login[t].cut, login[t].valid)

\* A login that goes to its next step changes nothing else.
LEMMA GotoBecomes ==
  ASSUME TypeOK, NEW t \in Logins, NEW step \in LoginSteps, Goto(t, step)
  PROVE  Becomes(t, Moved(t, step))
<1>1. login[t] \in LoginTask
  BY DEF TypeOK, LoginTask
<1> QED
  BY <1>1 DEF TypeOK, LoginTask, Goto, Becomes, Task, Moved

\* Names are sequences, beginnings of themselves, and not null.
LEMMA NameProperties ==
  ASSUME NEW n \in Names
  PROVE  n \in Beginnings /\ n # Nobody /\ n \in Prefixes(n)
<1> DEFINE S == UNION {Range(m) : m \in Names}
<1>1. n \in Seq(S)
  BY NamesAssumption
<1> HIDE DEF S
<1>2. SubSeq(n, 1, Len(n)) = n /\ Len(n) \in Nat
  BY <1>1, SubSeqFull, LenProperties
<1>3. n \in Prefixes(n)
  <2>1. \A l \in 0..Len(n) : SubSeq(n, 1, l) \in Prefixes(n)
    BY DEF Prefixes
  <2>2. Len(n) \in 0..Len(n)
    BY <1>2
  <2>3. SubSeq(n, 1, Len(n)) \in Prefixes(n)
    BY <2>1, <2>2
  <2> QED
    BY <1>2, <2>3, Zenon
<1>4. n \in Beginnings
  BY <1>3 DEF Beginnings
<1> QED
  BY <1>3, <1>4, NobodyAssumption

\* Substring(0, l) of a sequence has its first l elements.
LEMMA FirstPart ==
  ASSUME NEW S, NEW s \in Seq(S), NEW l \in Nat, l <= Len(s)
  PROVE  /\ SubSeq(s, 1, l) \in Seq(S)
         /\ Len(SubSeq(s, 1, l)) = l
         /\ \A k \in 1..l : SubSeq(s, 1, l)[k] = s[k]
<1>1. SubSeq(s, 1, l) \in Seq(S)
  OBVIOUS
<1>2. Len(SubSeq(s, 1, l)) = l
  OBVIOUS
<1>3. ASSUME NEW k \in 1..l
      PROVE  SubSeq(s, 1, l)[k] = s[k]
  OBVIOUS
<1> QED
  BY <1>1, <1>2, <1>3

\* Substring(0, index) of a beginning is a beginning of the same name.
LEMMA CutProperties ==
  ASSUME NEW n \in Names, NEW m \in Prefixes(n), NEW i \in Nat, i <= Len(m)
  PROVE  /\ SubSeq(m, 1, i) \in Prefixes(n)
         /\ Len(SubSeq(m, 1, i)) = i
<1> DEFINE S == UNION {Range(k) : k \in Names}
<1>1. n \in Seq(S)
  BY NamesAssumption
<1> HIDE DEF S
<1>2. PICK l \in 0..Len(n) : m = SubSeq(n, 1, l)
  BY DEF Prefixes
<1>3. Len(n) \in Nat /\ l \in Nat /\ l <= Len(n)
  BY <1>1, <1>2, LenProperties
<1>5. m \in Seq(S) /\ Len(m) = l /\ \A k \in 1..l : m[k] = n[k]
  BY <1>1, <1>2, <1>3, FirstPart
<1>6. i <= l /\ i <= Len(n)
  BY <1>3, <1>5
<1>7. /\ SubSeq(m, 1, i) \in Seq(S) /\ Len(SubSeq(m, 1, i)) = i
      /\ \A k \in 1..i : SubSeq(m, 1, i)[k] = m[k]
  BY <1>5, FirstPart
<1>8. /\ SubSeq(n, 1, i) \in Seq(S) /\ Len(SubSeq(n, 1, i)) = i
      /\ \A k \in 1..i : SubSeq(n, 1, i)[k] = n[k]
  BY <1>1, <1>6, FirstPart
<1>9. SubSeq(m, 1, i) = SubSeq(n, 1, i)
  <2>1. \A k \in 1..i : SubSeq(m, 1, i)[k] = SubSeq(n, 1, i)[k]
    BY <1>3, <1>5, <1>6, <1>7, <1>8
  <2> QED
    BY <1>7, <1>8, <2>1, SeqEqual
<1>10. i \in 0..Len(n)
  BY <1>3, <1>6
<1> QED
  BY <1>7, <1>9, <1>10 DEF Prefixes

\* A context's MinerName is a sequence.
LEMMA BeginningsAreSequences ==
  ASSUME NEW m \in Beginnings
  PROVE  Len(m) \in Nat /\ DOMAIN m = 1..Len(m)
<1> DEFINE S == UNION {Range(k) : k \in Names}
<1>1. PICK n \in Names : m \in Prefixes(n)
  BY DEF Beginnings
<1>2. n \in Seq(S)
  BY NamesAssumption
<1> HIDE DEF S
<1>3. PICK l \in 0..Len(n) : m = SubSeq(n, 1, l)
  BY <1>1 DEF Prefixes
<1>4. Len(n) \in Nat /\ \A k \in 1..l : n[k] \in S
  BY <1>2, <1>3, LenProperties, ElementOfSeq
<1>5. m \in Seq(S)
  BY <1>3, <1>4, SubSeqProperties
<1> QED
  BY <1>5, LenProperties

\* So is what it cuts off a context's MinerName.
LEMMA BeginningCut ==
  ASSUME NEW m \in Beginnings, NEW i \in Nat, ~(Len(m) < i)
  PROVE  SubSeq(m, 1, i) \in Beginnings /\ Len(SubSeq(m, 1, i)) = i
<1>1. PICK n \in Names : m \in Prefixes(n)
  BY DEF Beginnings
<1>2. Len(m) \in Nat
  BY BeginningsAreSequences
<1>3. i <= Len(m)
  BY <1>2
<1> QED
  BY <1>1, <1>3, CutProperties DEF Beginnings

\* A login under way reads and writes the context of a client that has a name.
LEMMA LoginHasName ==
  ASSUME TypeOK, LoginsNameTheirClient, NEW t \in Logins,
         login[t].at \notin {"none"} \cup Ended
  PROVE  Client(t) \in Clients /\ miner[Client(t)] \in Beginnings
  BY DEF TypeOK, LoginsNameTheirClient

\* Every step of a login, as what it makes of the task.
LEMMA LoginBecomes ==
  ASSUME TypeOK, LoginsNameTheirClient, NEW t \in Logins, OnLogin(t)
  PROVE  \/ \E c \in Clients : RefuseLogin(t, c)
              /\ Becomes(t, Task("refused", c, login[t].name, login[t].index, login[t].cut,
                                 login[t].valid))
         \/ \E c \in Clients, n \in Names : SetMinerName(t, c, n)
              /\ Becomes(t, Task("index", c, n, login[t].index, login[t].cut, login[t].valid))
         \/ FindPaymentId(t)
              /\ \/ Becomes(t, Moved(t, "validate"))
                 \/ \E i \in Nat : Becomes(t, Task("cut", login[t].client, login[t].name, i,
                                                   login[t].cut, login[t].valid))
         \/ CutName(t)
              /\ \/ Becomes(t, Task("thrown", login[t].client, login[t].name, 0,
                                    login[t].cut, login[t].valid))
                 \/ \E n \in Beginnings :
                      Becomes(t, Task("truncate", login[t].client, login[t].name,
                                      login[t].index, n, login[t].valid))
         \/ TruncateName(t)
              /\ Becomes(t, Task("payment", login[t].client, login[t].name,
                                 login[t].index, Nobody, login[t].valid))
         \/ SetPaymentId(t)
              /\ \E at \in {"validate", "thrown"} :
                   Becomes(t, Task(at, login[t].client, login[t].name, 0,
                                   login[t].cut, login[t].valid))
         \/ Validate(t)
              /\ Becomes(t, Task("subscribe", login[t].client, login[t].name, login[t].index,
                                 login[t].cut, ValidateAddress(miner[Client(t)])))
         \/ SetSubscribed(t)
              /\ Becomes(t, Moved(t, "authorize"))
         \/ SetAuthorized(t)
              /\ Becomes(t, Task("check", login[t].client, login[t].name, login[t].index,
                                 login[t].cut, FALSE))
         \/ CheckAuthorized(t)
              /\ Becomes(t, Moved(t, IF authorized[Client(t)] THEN "create" ELSE "refused"))
         \/ CreateWorkerJob(t)
              /\ Becomes(t, Moved(t, "activity"))
         \/ RecognizeActivity(t)
              /\ Becomes(t, Moved(t, "answered"))
<1>l. login \in [Logins -> LoginTask] /\ login[t] \in LoginTask
  BY DEF TypeOK, LoginTask
<1>s. \A at \in {"refused", "index", "cut", "truncate", "payment", "validate", "thrown",
                 "subscribe", "authorize", "check", "create", "activity", "answered"} :
        at \in LoginSteps
  BY DEF LoginSteps, Ended
<1>1. ASSUME NEW c \in Clients, RefuseLogin(t, c)
      PROVE  Becomes(t, Task("refused", c, login[t].name, login[t].index, login[t].cut,
                                 login[t].valid))
  BY <1>l, <1>s, <1>1 DEF RefuseLogin, Becomes, Task, LoginTask
<1>2. ASSUME NEW c \in Clients, NEW n \in Names, SetMinerName(t, c, n)
      PROVE  Becomes(t, Task("index", c, n, login[t].index, login[t].cut, login[t].valid))
  BY <1>l, <1>s, <1>2 DEF SetMinerName, Becomes, Task, LoginTask
<1>3. CASE FindPaymentId(t)
  <2>1. CASE Goto(t, "validate")
    BY <1>s, <1>3, <2>1, GotoBecomes
  <2>2. ASSUME NEW i \in DOMAIN miner[Client(t)], FirstHash(miner[Client(t)], i),
               login' = [login EXCEPT ![t].at = "cut", ![t].index = i - 1]
        PROVE  \E k \in Nat : Becomes(t, Task("cut", login[t].client, login[t].name, k,
                                             login[t].cut, login[t].valid))
    <3>1. i - 1 \in Nat
      <4>1. Client(t) \in Clients /\ miner[Client(t)] \in Beginnings
        BY <1>3, LoginHasName DEF FindPaymentId, Ended
      <4>2. i \in 1..Len(miner[Client(t)]) /\ Len(miner[Client(t)]) \in Nat
        BY <4>1, BeginningsAreSequences
      <4> QED
        BY <4>2
    <3>2. Becomes(t, Task("cut", login[t].client, login[t].name, i - 1,
                          login[t].cut, login[t].valid))
      BY <1>l, <1>s, <2>2, <3>1 DEF Becomes, Task, LoginTask
    <3> QED
      BY <3>1, <3>2
  <2> QED
    BY <1>3, <2>1, <2>2 DEF FindPaymentId
<1>12. CASE CutName(t)
  <2>1. Client(t) \in Clients /\ miner[Client(t)] \in Beginnings
    BY <1>12, LoginHasName DEF CutName, Cut, Ended
  <2>2. CASE login' = [login EXCEPT ![t].at = "thrown", ![t].index = 0]
    BY <1>l, <1>s, <1>12, <2>2 DEF Becomes, Task, LoginTask
  <2>3. CASE login' # [login EXCEPT ![t].at = "thrown", ![t].index = 0]
    <3> DEFINE n == SubSeq(miner[Client(t)], 1, login[t].index)
    <3>1. ~(Len(miner[Client(t)]) < login[t].index)
          /\ login' = [login EXCEPT ![t].at = "truncate", ![t].cut = n]
      BY <1>12, <2>3 DEF CutName, Cut
    <3>2. n \in Beginnings
      BY <1>l, <2>1, <3>1, BeginningCut DEF LoginTask
    <3> HIDE DEF n
    <3>3. Becomes(t, Task("truncate", login[t].client, login[t].name, login[t].index,
                          n, login[t].valid))
      BY <1>l, <1>s, <3>1, <3>2 DEF Becomes, Task, LoginTask
    <3> QED
      BY <1>12, <3>2, <3>3
  <2> QED
    BY <2>2, <2>3
<1>4. CASE TruncateName(t)
  BY <1>l, <1>s, <1>4 DEF TruncateName, Becomes, Task, LoginTask
<1>5. CASE SetPaymentId(t)
  <2>1. ASSUME NEW at \in {"validate", "thrown"},
               login' = [login EXCEPT ![t].at = at, ![t].index = 0]
        PROVE  Becomes(t, Task(at, login[t].client, login[t].name, 0,
                               login[t].cut, login[t].valid))
    BY <1>l, <1>s, <2>1 DEF Becomes, Task, LoginTask
  <2> QED
    BY <1>5, <2>1 DEF SetPaymentId
<1>6. CASE Validate(t)
  <2>1. ValidateAddress(miner[Client(t)]) \in BOOLEAN
    BY DEF ValidateAddress
  <2> QED
    BY <1>l, <1>s, <1>6, <2>1 DEF Validate, Becomes, Task, LoginTask
<1>7. CASE SetSubscribed(t)
  BY <1>s, <1>7, GotoBecomes DEF SetSubscribed
<1>8. CASE SetAuthorized(t)
  BY <1>l, <1>s, <1>8 DEF SetAuthorized, Becomes, Task, LoginTask
<1>9. CASE CheckAuthorized(t)
  BY <1>s, <1>9, GotoBecomes DEF CheckAuthorized
<1>10. CASE CreateWorkerJob(t)
  BY <1>s, <1>10, GotoBecomes DEF CreateWorkerJob
<1>11. CASE RecognizeActivity(t)
  BY <1>s, <1>11, GotoBecomes DEF RecognizeActivity
<1> QED
  BY <1>1, <1>2, <1>3, <1>4, <1>5, <1>6, <1>7, <1>8, <1>9, <1>10, <1>11, <1>12 DEF OnLogin

\* A login that has started keeps its client and its name to the end.
LEMMA StartedLoginBecomes ==
  ASSUME TypeOK, LoginsNameTheirClient, NEW t \in Logins, OnLogin(t), login[t].at # "none"
  PROVE  /\ login'[t].at # "none"
         /\ login'[t].client = login[t].client
         /\ login'[t].name = login[t].name
<1> DEFINE Keeps == /\ login'[t].at # "none"
                    /\ login'[t].client = login[t].client
                    /\ login'[t].name = login[t].name
<1>1. ASSUME NEW at, NEW index, NEW cut, NEW valid, at # "none",
             Becomes(t, Task(at, login[t].client, login[t].name, index, cut, valid))
      PROVE  Keeps
  BY <1>1 DEF Becomes, Task
<1>2. ASSUME NEW at, at # "none", Becomes(t, Moved(t, at))
      PROVE  Keeps
  BY <1>1, <1>2 DEF Moved
<1> SUFFICES Keeps
  OBVIOUS
<1> HIDE DEF Keeps
<1>3. ~(\E c \in Clients : RefuseLogin(t, c) \/ \E n \in Names : SetMinerName(t, c, n))
  BY DEF RefuseLogin, SetMinerName
<1> QED
  BY <1>1, <1>2, <1>3, LoginBecomes

-------------------------------------------------------------------------------

\* Types, before anybody connects and step by step.
LEMMA TypeOKInit == Init => TypeOK
<1> SUFFICES ASSUME Init
             PROVE  TypeOK
  OBVIOUS
<1>1. login \in [Logins -> [at : LoginSteps, client : Clients \cup {Nobody},
                           name : Names \cup {Nobody}, index : Nat,
                           cut : Beginnings \cup {Nobody}, valid : BOOLEAN]]
  BY DEF Init, LoginSteps
<1>2. /\ cast \in [at : CastSteps, todo : SUBSET Clients, client : Clients \cup {Nobody}]
      /\ cast.client = Nobody /\ cast.at \in BetweenClients
  BY DEF Init, CastSteps, BetweenClients
<1> QED
  BY <1>1, <1>2, MaxJobsAssumption DEF Init, TypeOK, JobIds

Cast == [at : CastSteps, todo : SUBSET Clients, client : Clients \cup {Nobody}]

\* A step of the broadcast as what it makes of its thread.
LEMMA CastBecomes ==
  ASSUME TypeOK, BroadcastJob \/ NewJob
  PROVE  /\ cast' \in Cast
         /\ cast'.client = Nobody <=> cast'.at \in BetweenClients
         /\ \/ NewJob /\ cast'.at = "snapshot"
            \/ SnapshotClients /\ cast'.todo = connected
            \/ EndBroadcast /\ cast'.todo = {} /\ cast'.client = cast.client
            \/ \E c \in Clients : VisitClient(c) /\ cast'.todo = cast.todo \ {c}
                   /\ cast'.client = (IF authorized[c] THEN c ELSE Nobody)
            \/ CheckSubscribed /\ cast'.todo = cast.todo
                 /\ (subscribed[cast.client] => cast'.client = cast.client)
                 /\ cast'.client \in {Nobody, cast.client}
            \/ CheckActivity /\ cast'.todo = cast.todo
                 /\ \/ recent[cast.client] /\ cast'.client = cast.client
                    \/ ~recent[cast.client] /\ cast'.client = Nobody
            \/ CreateBroadcastJob /\ cast'.todo = cast.todo /\ cast'.client = Nobody
<1>t. /\ cast \in Cast
      /\ cast.client = Nobody <=> cast.at \in BetweenClients
  BY DEF TypeOK, Cast
<1>n. NextClient => /\ cast' \in Cast
                    /\ cast'.at = "next" /\ cast'.client = Nobody
                    /\ cast'.todo = cast.todo
  BY <1>t DEF NextClient, Cast, CastSteps, BetweenClients
<1>m. ASSUME NEW at \in CastSteps, cast' = [cast EXCEPT !.at = at]
      PROVE  /\ cast' \in Cast
             /\ cast'.at = at /\ cast'.client = cast.client /\ cast'.todo = cast.todo
  BY <1>t, <1>m DEF Cast
<1>s. \A at \in {"idle", "snapshot", "next", "subscribed", "recent", "create"} :
        at \in CastSteps
  BY DEF CastSteps, BetweenClients
<1>1. CASE NewJob
  BY <1>1, <1>t, <1>m, <1>s DEF NewJob, BetweenClients
<1>2. CASE SnapshotClients
  <2>1. connected \subseteq Clients
    BY DEF TypeOK
  <2> QED
    BY <1>2, <1>t, <1>s, <2>1 DEF SnapshotClients, Cast, BetweenClients
<1>3. CASE EndBroadcast
  BY <1>3, <1>t, <1>m, <1>s DEF EndBroadcast, BetweenClients
<1>4. ASSUME NEW c \in Clients, VisitClient(c)
      PROVE  /\ cast' \in Cast
             /\ cast'.client = Nobody <=> cast'.at \in BetweenClients
             /\ cast'.todo = cast.todo \ {c}
             /\ cast'.client = (IF authorized[c] THEN c ELSE Nobody)
  <2>1. CASE authorized[c]
    BY <1>4, <1>t, <1>s, <2>1, NobodyAssumption DEF VisitClient, Cast, BetweenClients
  <2>2. CASE ~authorized[c]
    BY <1>4, <1>t, <1>s, <2>2 DEF VisitClient, Cast, BetweenClients
  <2> QED
    BY <2>1, <2>2
<1>5. CASE CheckSubscribed
  BY <1>5, <1>t, <1>n, <1>m, <1>s DEF CheckSubscribed, BetweenClients
<1>6. CASE CheckActivity
  BY <1>6, <1>t, <1>n, <1>m, <1>s DEF CheckActivity, BetweenClients
<1>7. CASE CreateBroadcastJob
  BY <1>7, <1>n DEF CreateBroadcastJob, BetweenClients
<1> QED
  BY <1>1, <1>2, <1>3, <1>4, <1>5, <1>6, <1>7 DEF BroadcastJob

\* Every access of every thread preserves the types; that a login has a client
\* and a name to cut comes from LoginsNameTheirClient.
LEMMA TypeOKStep == TypeOK /\ LoginsNameTheirClient /\ [Next]_vars => TypeOK'
<1> SUFFICES ASSUME TypeOK, LoginsNameTheirClient, [Next]_vars
             PROVE  TypeOK'
  OBVIOUS
<1> USE DEF TypeOK, contextVars, vars
<1>1. ASSUME NEW c \in Clients, Connect(c) \/ Leave(c) \/ GrowOld(c) \/ KeepAlive(c)
      PROVE  TypeOK'
  <2>1. recent' \in [Clients -> BOOLEAN] /\ connected' \subseteq Clients
    BY <1>1 DEF Connect, Leave, GrowOld, KeepAlive
  <2>2. UNCHANGED <<miner, paymentSet, authorized, subscribed, currentJob, login,
                    cast, work, alone>>
    BY <1>1 DEF Connect, Leave, GrowOld, KeepAlive
  <2> QED
    BY <2>1, <2>2
<1>2. ASSUME NEW t \in Logins, OnLogin(t)
      PROVE  TypeOK'
  <2>1. login' \in [Logins -> [at : LoginSteps, client : Clients \cup {Nobody},
                              name : Names \cup {Nobody}, index : Nat,
                              cut : Beginnings \cup {Nobody}, valid : BOOLEAN]]
    BY <1>2, LoginBecomes DEF Becomes, LoginTask
  <2>2. UNCHANGED <<connected, currentJob, cast>>
    BY <1>2 DEF OnLogin, RefuseLogin, SetMinerName, FindPaymentId, CutName, Cut, TruncateName,
       SetPaymentId, Validate, SetSubscribed, SetAuthorized, CheckAuthorized,
       CreateWorkerJob, RecognizeActivity
  <2>3. miner' \in [Clients -> Beginnings \cup {Nobody}]
    <3>1. CASE TruncateName(t)
      BY <3>1 DEF TruncateName
    <3>2. ASSUME NEW c \in Clients, NEW n \in Names, SetMinerName(t, c, n)
          PROVE  miner' \in [Clients -> Beginnings \cup {Nobody}]
      BY <3>2, NameProperties DEF SetMinerName
    <3>3. ASSUME ~TruncateName(t), ~\E c \in Clients, n \in Names : SetMinerName(t, c, n)
          PROVE  miner' = miner
      BY <1>2, <3>3 DEF OnLogin, RefuseLogin, FindPaymentId, CutName, Cut, SetPaymentId,
         Validate, SetSubscribed, SetAuthorized, CheckAuthorized, CreateWorkerJob,
         RecognizeActivity
    <3> QED
      BY <3>1, <3>2, <3>3
  <2>4. paymentSet' \in [Clients -> BOOLEAN]
    BY <1>2 DEF OnLogin, RefuseLogin, SetMinerName, FindPaymentId, CutName, Cut, TruncateName,
       SetPaymentId, Validate, SetSubscribed, SetAuthorized, CheckAuthorized,
       CreateWorkerJob, RecognizeActivity
  <2>5. authorized' \in [Clients -> BOOLEAN] /\ subscribed' \in [Clients -> BOOLEAN]
    <3>1. login[t].valid \in BOOLEAN
      OBVIOUS
    <3> QED
      BY <1>2, <3>1 DEF OnLogin, RefuseLogin, SetMinerName, FindPaymentId, CutName, Cut,
         TruncateName, SetPaymentId, Validate, SetSubscribed, SetAuthorized,
         CheckAuthorized, CreateWorkerJob, RecognizeActivity
  <2>8. alone' \in [Clients -> Logins \cup {Nobody}]
    <3>1. ASSUME NEW c \in Clients, NEW n \in Names, SetMinerName(t, c, n)
          PROVE  alone' \in [Clients -> Logins \cup {Nobody}]
      BY <3>1 DEF SetMinerName
    <3>2. ASSUME ~\E c \in Clients, n \in Names : SetMinerName(t, c, n)
          PROVE  alone' = alone
      BY <1>2, <3>2 DEF OnLogin, RefuseLogin, FindPaymentId, CutName, Cut, TruncateName,
         SetPaymentId, Validate, SetSubscribed, SetAuthorized, CheckAuthorized,
         CreateWorkerJob, RecognizeActivity
    <3> QED
      BY <3>1, <3>2
  <2>6. recent' \in [Clients -> BOOLEAN]
    BY <1>2 DEF OnLogin, RefuseLogin, SetMinerName, FindPaymentId, CutName, Cut, TruncateName,
       SetPaymentId, Validate, SetSubscribed, SetAuthorized, CheckAuthorized,
       CreateWorkerJob, RecognizeActivity
  <2>7. work' \subseteq [client : Clients, job : JobIds]
    <3>1. CASE CreateWorkerJob(t)
      <4>1. Client(t) \in Clients
        BY <3>1, LoginHasName DEF CreateWorkerJob, Ended
      <4> QED
        BY <3>1, <4>1 DEF CreateWorkerJob
    <3>2. CASE ~CreateWorkerJob(t)
      BY <1>2, <3>2 DEF OnLogin, RefuseLogin, SetMinerName, FindPaymentId, CutName, Cut,
         TruncateName, SetPaymentId, Validate, SetSubscribed, SetAuthorized,
         CheckAuthorized, RecognizeActivity
    <3> QED
      BY <3>1, <3>2
  <2> QED
    BY <2>1, <2>2, <2>3, <2>4, <2>5, <2>6, <2>7, <2>8
<1>3. CASE NewJob \/ BroadcastJob
  <2>1. /\ cast' \in [at : CastSteps, todo : SUBSET Clients, client : Clients \cup {Nobody}]
        /\ cast'.client = Nobody <=> cast'.at \in BetweenClients
    BY <1>3, CastBecomes DEF Cast
  <2>2. UNCHANGED <<miner, paymentSet, authorized, subscribed, recent, login, alone>>
    BY <1>3 DEF NewJob, BroadcastJob, SnapshotClients, EndBroadcast, VisitClient,
       CheckSubscribed, CheckActivity, CreateBroadcastJob
  <2>3. connected' \subseteq Clients
    BY <1>3 DEF NewJob, BroadcastJob, SnapshotClients, EndBroadcast, VisitClient,
       CheckSubscribed, CheckActivity, CreateBroadcastJob
  <2>5. currentJob' \in JobIds
    <3>1. CASE NewJob
      BY <3>1, MaxJobsAssumption DEF NewJob, JobIds
    <3>2. CASE BroadcastJob
      BY <3>2 DEF BroadcastJob, SnapshotClients, EndBroadcast, VisitClient,
         CheckSubscribed, CheckActivity, CreateBroadcastJob
    <3> QED
      BY <1>3, <3>1, <3>2
  <2>4. work' \subseteq [client : Clients, job : JobIds]
    <3>1. CASE CreateBroadcastJob
      <4>1. cast.client \in Clients
        BY <3>1 DEF CreateBroadcastJob, BetweenClients
      <4> QED
        BY <3>1, <4>1 DEF CreateBroadcastJob
    <3>2. CASE ~CreateBroadcastJob
      BY <1>3, <3>2 DEF NewJob, BroadcastJob, SnapshotClients, EndBroadcast,
         VisitClient, CheckSubscribed, CheckActivity
    <3> QED
      BY <3>1, <3>2
  <2> QED
    BY <2>1, <2>2, <2>3, <2>4, <2>5
<1>4. CASE UNCHANGED vars
  BY <1>4
<1> QED
  BY <1>1, <1>2, <1>3, <1>4 DEF Next

-------------------------------------------------------------------------------

(***************************************************************************)
(* Names.                                                                  *)
(***************************************************************************)

\* Only the logins write names and marks.
LEMMA OnlyLoginsWriteNames ==
  ASSUME [Next]_vars
  PROVE  \/ \E t \in Logins : OnLogin(t)
         \/ UNCHANGED <<miner, authorized, subscribed, login, alone>>
<1> USE DEF contextVars, vars
<1>1. ASSUME NEW c \in Clients, Connect(c) \/ Leave(c) \/ GrowOld(c) \/ KeepAlive(c)
      PROVE  UNCHANGED <<miner, authorized, subscribed, login, alone>>
  BY <1>1 DEF Connect, Leave, GrowOld, KeepAlive
<1>2. CASE NewJob \/ BroadcastJob
  BY <1>2 DEF NewJob, BroadcastJob, SnapshotClients, EndBroadcast, VisitClient,
     CheckSubscribed, CheckActivity, CreateBroadcastJob
<1> QED
  BY <1>1, <1>2 DEF Next

\* What a login leaves alone, and what it writes where.
LEMMA LoginWrites ==
  ASSUME TypeOK, LoginsNameTheirClient, NEW t \in Logins, OnLogin(t)
  PROVE  /\ UNCHANGED <<connected, currentJob, cast>>
         /\ \A c \in Clients : miner[c] # Nobody => miner'[c] # Nobody
         /\ \A c \in Clients :
              \/ \E n \in Names : SetMinerName(t, c, n) /\ miner'[c] = n
              \/ miner'[c] = miner[c]
              \/ TruncateName(t) /\ c = Client(t) /\ miner'[c] = login[t].cut
         /\ \A c \in Clients :
              authorized'[c] # authorized[c] => SetAuthorized(t) /\ c = Client(t)
         /\ \A c \in Clients :
              subscribed'[c] # subscribed[c] => SetSubscribed(t) /\ c = Client(t)
         /\ work \subseteq work'
         /\ \A w \in work' : w \notin work => CreateWorkerJob(t) /\ w.client = Client(t)
<1> USE DEF contextVars
<1>t. /\ miner \in [Clients -> Beginnings \cup {Nobody}]
      /\ authorized \in [Clients -> BOOLEAN] /\ subscribed \in [Clients -> BOOLEAN]
  BY DEF TypeOK
<1>1. ASSUME NEW c \in Clients, RefuseLogin(t, c)
      PROVE  UNCHANGED <<contextVars, connected, currentJob, cast, work>>
  BY <1>1 DEF RefuseLogin
<1>2. ASSUME NEW c \in Clients, NEW n \in Names, SetMinerName(t, c, n)
      PROVE  /\ UNCHANGED <<authorized, subscribed, connected, currentJob, cast, work>>
             /\ miner'[c] = n /\ n # Nobody
             /\ \A d \in Clients : d # c => miner'[d] = miner[d]
  BY <1>2, <1>t, NameProperties DEF SetMinerName
<1>3. CASE TruncateName(t)
  <2>1. /\ miner'[Client(t)] = login[t].cut /\ login[t].cut # Nobody
        /\ \A d \in Clients : d # Client(t) => miner'[d] = miner[d]
    <3>1. Client(t) \in Clients
      BY <1>3, LoginHasName DEF TruncateName, Ended
    <3> QED
      BY <1>3, <1>t, <3>1 DEF TruncateName, LoginsNameTheirClient
  <2>2. UNCHANGED <<authorized, subscribed, connected, currentJob, cast, work>>
    BY <1>3 DEF TruncateName
  <2> QED
    BY <1>3, <2>1, <2>2
<1>4. CASE FindPaymentId(t) \/ CutName(t) \/ SetPaymentId(t) \/ Validate(t) \/ CheckAuthorized(t)
           \/ RecognizeActivity(t)
  <2>1. UNCHANGED <<miner, authorized, subscribed, connected, currentJob, cast, work>>
    BY <1>4 DEF FindPaymentId, CutName, Cut, SetPaymentId, Validate, CheckAuthorized, RecognizeActivity
  <2> QED
    BY <2>1
<1>5. CASE SetSubscribed(t)
  BY <1>5, <1>t DEF SetSubscribed
<1>6. CASE SetAuthorized(t)
  BY <1>6, <1>t DEF SetAuthorized
<1>7. CASE CreateWorkerJob(t)
  <2>1. UNCHANGED <<miner, authorized, subscribed, connected, currentJob, cast>>
        /\ work' = work \cup {[client |-> Client(t), job |-> currentJob]}
    BY <1>7 DEF CreateWorkerJob
  <2> QED
    BY <1>7, <2>1
<1> QED
  BY <1>1, <1>2, <1>3, <1>4, <1>5, <1>6, <1>7 DEF OnLogin

\* A login that has written its name keeps it, and its client.
LEMMA NamePersists ==
  ASSUME TypeOK, LoginsNameTheirClient, [Next]_vars,
         NEW s \in Logins, login[s].name # Nobody
  PROVE  login'[s].name = login[s].name /\ login'[s].client = login[s].client
<1>1. ASSUME NEW t \in Logins, OnLogin(t)
      PROVE  login'[s].name = login[s].name /\ login'[s].client = login[s].client
  <2>1. CASE s = t
    <3>1. login[t].at # "none"
      BY <2>1 DEF LoginsNameTheirClient
    <3> QED
      BY <1>1, <2>1, <3>1, StartedLoginBecomes
  <2>2. CASE s # t
    BY <1>1, <2>2, LoginBecomes DEF Becomes
  <2> QED
    BY <2>1, <2>2
<1> QED
  BY <1>1, OnlyLoginsWriteNames

\* Hence a client that has named an address of the pool stays one that has.
LEMMA PoolMinersStay ==
  ASSUME TypeOK, LoginsNameTheirClient, [Next]_vars
  PROVE  PoolMiners \subseteq PoolMiners'
  BY NamePersists DEF PoolMiners, NamesPoolAddress, Client

\* Only Substring(0, index) of MinerName gives a login something to write.
LEMMA LoginCuts ==
  ASSUME TypeOK, LoginsNameTheirClient, NEW t \in Logins, OnLogin(t),
         login'[t].at = "truncate"
  PROVE  /\ CutName(t) /\ login'[t].client = Client(t)
         /\ ~(Len(miner[Client(t)]) < login[t].index)
         /\ login'[t].cut = SubSeq(miner[Client(t)], 1, login[t].index)
         /\ login'[t].cut \in Beginnings
<1>l. login \in [Logins -> LoginTask] /\ login[t] \in LoginTask
  BY DEF TypeOK, LoginTask
<1>1. CutName(t)
  <2>1. ASSUME NEW at, NEW client, NEW name, NEW index, NEW cut, NEW valid, at # "truncate",
               Becomes(t, Task(at, client, name, index, cut, valid))
        PROVE  FALSE
    BY <2>1 DEF Becomes, Task
  <2>2. ASSUME NEW at, at # "truncate", Becomes(t, Moved(t, at))
        PROVE  FALSE
    BY <2>1, <2>2 DEF Moved
  <2> QED
    BY <2>1, <2>2, LoginBecomes
<1>2. Client(t) \in Clients /\ miner[Client(t)] \in Beginnings
  BY <1>1, LoginHasName DEF CutName, Cut, Ended
<1>3. CASE login' = [login EXCEPT ![t].at = "thrown", ![t].index = 0]
  <2>1. login'[t].at = "thrown"
    BY <1>l, <1>3 DEF LoginTask
  <2> QED
    BY <2>1
<1>4. CASE login' # [login EXCEPT ![t].at = "thrown", ![t].index = 0]
  <2> DEFINE n == SubSeq(miner[Client(t)], 1, login[t].index)
  <2>1. ~(Len(miner[Client(t)]) < login[t].index)
        /\ login' = [login EXCEPT ![t].at = "truncate", ![t].cut = n]
    BY <1>1, <1>4 DEF CutName, Cut
  <2>2. n \in Beginnings
    BY <1>l, <1>2, <2>1, BeginningCut DEF LoginTask
  <2> HIDE DEF n
  <2>3. login'[t].cut = n /\ login'[t].client = Client(t)
    BY <1>l, <2>1 DEF LoginTask, Client
  <2> QED
    BY <1>1, <2>1, <2>2, <2>3 DEF n
<1> QED
  BY <1>3, <1>4

\* Names, written, truncated and read by the concurrent logins of a client,
\* stay names of that client's logins.
LEMMA NamesStep ==
  TypeOK /\ LoginsNameTheirClient /\ NamesComeFromLogins /\ [Next]_vars
    => LoginsNameTheirClient' /\ NamesComeFromLogins'
<1> SUFFICES ASSUME TypeOK, LoginsNameTheirClient, NamesComeFromLogins, [Next]_vars
             PROVE  LoginsNameTheirClient' /\ NamesComeFromLogins'
  OBVIOUS
<1>1. ASSUME NEW t \in Logins, OnLogin(t)
      PROVE  LoginsNameTheirClient'
  <2> SUFFICES ASSUME NEW s \in Logins
               PROVE  /\ login'[s].at = "none" => login'[s].name = Nobody /\ ~login'[s].valid
                      /\ login'[s].at \notin {"none"} \cup Ended => login'[s].name # Nobody
                      /\ login'[s].at = "truncate" => login'[s].cut # Nobody
                      /\ login'[s].name # Nobody
                           => login'[s].client \in Clients /\ miner'[login'[s].client] # Nobody
    BY DEF LoginsNameTheirClient, Client
  <2>m. \A c \in Clients : miner[c] # Nobody => miner'[c] # Nobody
    BY <1>1, LoginWrites
  <2>1. CASE s # t
    <3>1. login'[s] = login[s]
      BY <1>1, <2>1, LoginBecomes DEF Becomes
    <3> QED
      BY <2>m, <3>1 DEF LoginsNameTheirClient, Client
  <2>2. CASE s = t /\ login[t].at = "none"
    <3>1. \/ \E c \in Clients : RefuseLogin(t, c)
              /\ Becomes(t, Task("refused", c, login[t].name, login[t].index, login[t].cut,
                                 login[t].valid))
          \/ \E c \in Clients, n \in Names : SetMinerName(t, c, n)
              /\ Becomes(t, Task("index", c, n, login[t].index, login[t].cut, login[t].valid))
      BY <1>1, <2>2, LoginBecomes
         DEF FindPaymentId, CutName, Cut, TruncateName, SetPaymentId, Validate, SetSubscribed,
             SetAuthorized, CheckAuthorized, CreateWorkerJob, RecognizeActivity
    <3>2. CASE \E c \in Clients : RefuseLogin(t, c)
                 /\ Becomes(t, Task("refused", c, login[t].name, login[t].index, login[t].cut,
                                 login[t].valid))
      BY <2>2, <3>2 DEF Becomes, Task, Ended, LoginsNameTheirClient
    <3>3. ASSUME NEW c \in Clients, NEW n \in Names, SetMinerName(t, c, n),
                 Becomes(t, Task("index", c, n, login[t].index, login[t].cut, login[t].valid))
          PROVE  /\ login'[t].at = "index" /\ login'[t].name # Nobody
                 /\ login'[t].client \in Clients /\ miner'[login'[t].client] # Nobody
      <4>1. miner'[c] = n
        BY <3>3 DEF SetMinerName, TypeOK
      <4> QED
        BY <3>3, <4>1, NameProperties DEF Becomes, Task
    <3> QED
      BY <2>2, <3>1, <3>2, <3>3
  <2>3. CASE s = t /\ login[t].at # "none"
    <3>1. login[t].name # Nobody
      <4>1. login[t].at \notin Ended
        BY <1>1, <2>3 DEF Ended, OnLogin, RefuseLogin, SetMinerName, FindPaymentId, CutName, Cut,
           TruncateName, SetPaymentId, Validate, SetSubscribed, SetAuthorized,
           CheckAuthorized, CreateWorkerJob, RecognizeActivity
      <4> QED
        BY <2>3, <4>1 DEF LoginsNameTheirClient
    <3>2. login'[t].name = login[t].name /\ login'[t].client = login[t].client
      BY <3>1, NamePersists
    <3>3. login'[t].at # "none"
      BY <1>1, <2>3, StartedLoginBecomes
    <3>4. login'[t].at = "truncate" => login'[t].cut # Nobody
      BY <1>1, <2>3, LoginCuts, NobodyAssumption
    <3> QED
      BY <2>3, <2>m, <3>1, <3>2, <3>3, <3>4 DEF LoginsNameTheirClient, Client
  <2> QED
    BY <2>1, <2>2, <2>3
<1>2. ASSUME NEW c, NEW name, ComesFrom(c, name)
      PROVE  ComesFrom(c, name)'
  BY <1>2, NamePersists DEF ComesFrom, Client
<1>3. ASSUME NEW t \in Logins, OnLogin(t), NEW c \in Clients, miner'[c] # Nobody
      PROVE  ComesFrom(c, miner[c])'
  <2>1. ASSUME NEW n \in Names, SetMinerName(t, c, n), miner'[c] = n
        PROVE  ComesFrom(c, miner[c])'
    <3>1. login'[t].client = c /\ login'[t].name = n
      BY <2>1 DEF SetMinerName, TypeOK
    <3> QED
      BY <2>1, <3>1, NameProperties DEF ComesFrom, Client
  <2>2. CASE miner'[c] = miner[c]
    BY <1>2, <1>3, <2>2 DEF NamesComeFromLogins
  <2>3. CASE TruncateName(t) /\ c = Client(t) /\ miner'[c] = login[t].cut
    BY <1>2, <2>3 DEF NamesComeFromLogins, TruncateName
  <2> QED
    BY <1>3, <2>1, <2>2, <2>3, LoginWrites
<1>4. ASSUME NEW t \in Logins, OnLogin(t), NEW s \in Logins, login'[s].at = "truncate"
      PROVE  ComesFrom(Client(s), login[s].cut)'
  <2>1. CASE s # t
    <3>1. login'[s] = login[s]
      BY <1>4, <2>1, LoginBecomes DEF Becomes
    <3>2. ComesFrom(login[s].client, login[s].cut)
      BY <1>4, <3>1 DEF NamesComeFromLogins, Client
    <3>3. ComesFrom(login[s].client, login[s].cut)'
      BY <1>2, <3>1, <3>2
    <3> QED
      BY <3>3 DEF Client
  <2>2. CASE s = t
    <3>1. CutName(t) /\ login'[t].client = Client(t)
          /\ ~(Len(miner[Client(t)]) < login[t].index)
          /\ login'[t].cut = SubSeq(miner[Client(t)], 1, login[t].index)
      BY <1>4, <2>2, LoginCuts
    <3>2. Client(t) \in Clients /\ miner[Client(t)] \in Beginnings
      BY <3>1, LoginHasName DEF CutName, Cut, Ended
    <3>3. PICK r \in Logins : /\ Client(r) = Client(t) /\ login[r].name # Nobody
                              /\ miner[Client(t)] \in Prefixes(login[r].name)
      BY <3>2, NobodyAssumption DEF NamesComeFromLogins, ComesFrom
    <3>4. login[r].name \in Names /\ login[t].index \in Nat
      BY <3>3 DEF TypeOK
    <3>5. Len(miner[Client(t)]) \in Nat
      BY <3>2, BeginningsAreSequences
    <3>6. login[t].index <= Len(miner[Client(t)])
      BY <3>1, <3>4, <3>5
    <3>7. SubSeq(miner[Client(t)], 1, login[t].index) \in Prefixes(login[r].name)
      BY <3>3, <3>4, <3>6, CutProperties
    <3>8. ComesFrom(Client(t), login'[t].cut)
      BY <3>1, <3>3, <3>7 DEF ComesFrom
    <3>9. PICK c, n : c = login'[t].client /\ n = login'[t].cut
      OBVIOUS
    <3>10. ComesFrom(c, n)
      BY <3>1, <3>8, <3>9
    <3>11. ComesFrom(c, n)'
      BY <1>2, <3>10
    <3> QED
      BY <2>2, <3>9, <3>11 DEF ComesFrom, Client
  <2> QED
    BY <2>1, <2>2
<1>5. CASE UNCHANGED <<miner, authorized, subscribed, login, alone>>
  BY <1>5 DEF LoginsNameTheirClient, NamesComeFromLogins, ComesFrom, Client
<1>6. ASSUME NEW t \in Logins, OnLogin(t)
      PROVE  NamesComeFromLogins'
  BY <1>3, <1>4, <1>6 DEF NamesComeFromLogins
<1> QED
  BY <1>1, <1>5, <1>6, OnlyLoginsWriteNames

-------------------------------------------------------------------------------

(***************************************************************************)
(* Marks and work.                                                         *)
(***************************************************************************)

\* Where a login gets a mark from: ValidateAddress, which looks at the name
\* that is there, and IsAuthorized, read again.
LEMMA LoginMarks ==
  ASSUME TypeOK, LoginsNameTheirClient, NEW t \in Logins, OnLogin(t)
  PROVE  /\ login'[t].valid => \/ login[t].valid
                              \/ /\ Validate(t)
                                 /\ ValidateAddress(miner[Client(t)])
         /\ login'[t].at = "create" => CheckAuthorized(t) /\ authorized[Client(t)]
<1>l. login \in [Logins -> LoginTask]
  BY DEF TypeOK, LoginTask
<1>1. ASSUME NEW c \in Clients, RefuseLogin(t, c)
      PROVE  login'[t].valid = login[t].valid /\ login'[t].at = "refused"
  BY <1>1, <1>l DEF RefuseLogin, LoginTask
<1>2. ASSUME NEW c \in Clients, NEW n \in Names, SetMinerName(t, c, n)
      PROVE  login'[t].valid = login[t].valid /\ login'[t].at = "index"
  BY <1>2, <1>l DEF SetMinerName, LoginTask
<1>3. ASSUME NEW step, Goto(t, step)
      PROVE  login'[t].valid = login[t].valid /\ login'[t].at = step
  BY <1>3, <1>l DEF Goto, LoginTask
<1>4. CASE FindPaymentId(t)
  BY <1>3, <1>4, <1>l DEF FindPaymentId, LoginTask
<1>12. CASE CutName(t)
  BY <1>12, <1>l DEF CutName, Cut, LoginTask
<1>5. CASE TruncateName(t)
  BY <1>5, <1>l DEF TruncateName, LoginTask
<1>6. CASE SetPaymentId(t)
  BY <1>6, <1>l DEF SetPaymentId, LoginTask
<1>7. CASE Validate(t)
  <2>1. login'[t].valid = ValidateAddress(miner[Client(t)]) /\ login'[t].at = "subscribe"
    BY <1>7, <1>l DEF Validate, LoginTask
  <2> QED
    BY <1>7, <2>1
<1>8. CASE SetSubscribed(t)
  BY <1>3, <1>8 DEF SetSubscribed
<1>9. CASE SetAuthorized(t)
  <2>1. login'[t].valid = FALSE /\ login'[t].at = "check"
    BY <1>9, <1>l DEF SetAuthorized, LoginTask
  <2> QED
    BY <2>1
<1>10. CASE CheckAuthorized(t)
  BY <1>3, <1>10 DEF CheckAuthorized
<1>11. CASE CreateWorkerJob(t) \/ RecognizeActivity(t)
  BY <1>3, <1>11 DEF CreateWorkerJob, RecognizeActivity
<1> QED
  BY <1>1, <1>2, <1>4, <1>5, <1>6, <1>7, <1>8, <1>9, <1>10, <1>11, <1>12 DEF OnLogin

\* What the broadcasting thread does to marks and work.
LEMMA BroadcastWrites ==
  ASSUME TypeOK, [Next]_vars, ~\E t \in Logins : OnLogin(t)
  PROVE  /\ cast'.client \notin {Nobody, cast.client} =>
              cast'.client \in Clients /\ authorized[cast'.client]
         /\ work \subseteq work'
         /\ \A w \in work' : w \notin work => w.client = cast.client /\ cast.client # Nobody
<1> USE DEF contextVars, vars
<1>1. ASSUME NEW c \in Clients, Connect(c) \/ Leave(c) \/ GrowOld(c) \/ KeepAlive(c)
      PROVE  UNCHANGED <<cast, work>>
  BY <1>1 DEF Connect, Leave, GrowOld, KeepAlive
<1>2. CASE NewJob \/ BroadcastJob
  <2>1. cast'.client \notin {Nobody, cast.client} =>
          cast'.client \in Clients /\ authorized[cast'.client]
    <3>1. CASE \E c \in Clients : VisitClient(c)
                 /\ cast'.client = (IF authorized[c] THEN c ELSE Nobody)
      BY <3>1
    <3>2. CASE NewJob \/ SnapshotClients \/ EndBroadcast
      BY <3>2 DEF NewJob, SnapshotClients, EndBroadcast, TypeOK
    <3> QED
      BY <1>2, <3>1, <3>2, CastBecomes
  <2>2. CASE CreateBroadcastJob
    <3>1. work' = work \cup {[client |-> cast.client, job |-> currentJob]}
          /\ cast.client # Nobody
      BY <2>2 DEF CreateBroadcastJob, TypeOK, BetweenClients
    <3> QED
      BY <2>1, <3>1
  <2>3. CASE ~CreateBroadcastJob
    <3>1. work' = work
      BY <1>2, <2>3 DEF NewJob, BroadcastJob, SnapshotClients, EndBroadcast,
         VisitClient, CheckSubscribed, CheckActivity
    <3> QED
      BY <2>1, <3>1
  <2> QED
    BY <2>2, <2>3
<1> QED
  BY <1>1, <1>2 DEF Next

\* Every mark on the way from a validated name to a worker job keeps standing
\* for an address of the pool.
LEMMA MarksStep ==
  IInv /\ [Next]_vars => MarksNeedPoolAddress' /\ WorkIsAskedFor'
<1> SUFFICES ASSUME IInv, [Next]_vars
             PROVE  MarksNeedPoolAddress' /\ WorkIsAskedFor'
  OBVIOUS
<1> USE DEF IInv
<1>s. PoolMiners \subseteq PoolMiners'
  BY PoolMinersStay
<1>w. WorkIsAskedFor <=> \A w \in work : w.client \in PoolMiners
  BY DEF WorkIsAskedFor, PoolMiners
<1>w1. WorkIsAskedFor' <=> \A w \in work' : w.client \in PoolMiners'
  BY DEF WorkIsAskedFor, PoolMiners
<1>1. ASSUME NEW t \in Logins, OnLogin(t)
      PROVE  MarksNeedPoolAddress' /\ WorkIsAskedFor'
  <2>v. login[t].valid \/ login[t].at = "create" => Client(t) \in PoolMiners
    BY DEF MarksNeedPoolAddress
  <2>1. ASSUME NEW s \in Logins, login'[s].valid \/ login'[s].at = "create"
        PROVE  login'[s].client \in PoolMiners'
    <3>1. CASE s # t
      <4>1. login'[s] = login[s]
        BY <1>1, <3>1, LoginBecomes DEF Becomes
      <4> QED
        BY <1>s, <2>1, <4>1 DEF MarksNeedPoolAddress, Client
    <3>2. CASE s = t
      <4>1. login[t].at # "none"
        <5>1. ASSUME login[t].at = "none"
              PROVE  FALSE
          <6>1. ~login[t].valid /\ ~Validate(t) /\ ~CheckAuthorized(t)
            BY <5>1 DEF LoginsNameTheirClient, Validate, CheckAuthorized
          <6> QED
            BY <1>1, <2>1, <3>2, <6>1, LoginMarks
        <5> QED
          BY <5>1
      <4>2. login'[t].client = Client(t)
        BY <1>1, <4>1, StartedLoginBecomes DEF Client
      <4>3. Client(t) \in PoolMiners
        <5>1. CASE login[t].valid
          BY <2>v, <5>1
        <5>2. CASE Validate(t) /\ ValidateAddress(miner[Client(t)])
          <6>1. Client(t) \in Clients /\ miner[Client(t)] \in Beginnings
            BY <5>2, LoginHasName DEF Validate, Ended
          <6>2. miner[Client(t)] # Nobody /\ miner[Client(t)] \in PoolAddresses
            BY <5>2, <6>1, NobodyAssumption DEF ValidateAddress
          <6>3. ComesFrom(Client(t), miner[Client(t)])
            BY <6>1, <6>2 DEF NamesComeFromLogins
          <6> QED
            BY <6>2, <6>3 DEF ComesFrom, NamesPoolAddress, PoolMiners
        <5>3. CASE CheckAuthorized(t) /\ authorized[Client(t)]
          <6>1. Client(t) \in Clients
            BY <5>3, LoginHasName DEF CheckAuthorized, Ended
          <6> QED
            BY <5>3, <6>1 DEF MarksNeedPoolAddress
        <5> QED
          BY <1>1, <2>1, <3>2, <5>1, <5>2, <5>3, LoginMarks
      <4> QED
        BY <1>s, <3>2, <4>2, <4>3
    <3> QED
      BY <3>1, <3>2
  <2>2. ASSUME NEW c \in Clients, authorized'[c]
        PROVE  c \in PoolMiners'
    <3>1. CASE authorized'[c] = authorized[c]
      BY <1>s, <2>2, <3>1 DEF MarksNeedPoolAddress
    <3>2. CASE SetAuthorized(t) /\ c = Client(t)
      <4>1. authorized'[c] = login[t].valid
        BY <3>2 DEF SetAuthorized, TypeOK
      <4> QED
        BY <1>s, <2>v, <2>2, <3>2, <4>1
    <3> QED
      BY <1>1, <3>1, <3>2, LoginWrites
  <2>3. cast'.client # Nobody => cast'.client \in PoolMiners'
    BY <1>s, <1>1, LoginWrites DEF MarksNeedPoolAddress
  <2>4. ASSUME NEW w \in work'
        PROVE  w.client \in PoolMiners'
    <3>1. CASE w \in work
      BY <1>s, <1>w, <3>1
    <3>2. CASE CreateWorkerJob(t) /\ w.client = Client(t)
      BY <1>s, <2>v, <3>2 DEF CreateWorkerJob
    <3> QED
      BY <1>1, <3>1, <3>2, LoginWrites
  <2> QED
    BY <1>w1, <2>1, <2>2, <2>3, <2>4 DEF MarksNeedPoolAddress, Client
<1>2. CASE ~\E t \in Logins : OnLogin(t)
  <2>1. UNCHANGED <<miner, authorized, login, alone>>
    BY <1>2, OnlyLoginsWriteNames
  <2>2. ASSUME NEW s \in Logins, login'[s].valid \/ login'[s].at = "create"
        PROVE  login'[s].client \in PoolMiners'
    BY <1>s, <2>1, <2>2 DEF MarksNeedPoolAddress, Client
  <2>3. ASSUME NEW c \in Clients, authorized'[c]
        PROVE  c \in PoolMiners'
    BY <1>s, <2>1, <2>3 DEF MarksNeedPoolAddress
  <2>4. cast'.client # Nobody => cast'.client \in PoolMiners'
    BY <1>s, <1>2, BroadcastWrites DEF MarksNeedPoolAddress
  <2>5. ASSUME NEW w \in work'
        PROVE  w.client \in PoolMiners'
    BY <1>s, <1>w, <1>2, BroadcastWrites DEF MarksNeedPoolAddress
  <2> QED
    BY <1>w1, <2>2, <2>3, <2>4, <2>5 DEF MarksNeedPoolAddress, Client
<1> QED
  BY <1>1, <1>2

-------------------------------------------------------------------------------

(***************************************************************************)
(* Service.                                                                *)
(***************************************************************************)

\* The accesses of a login that leave it with CurrentJob still to read.
LEMMA LoginReads ==
  ASSUME TypeOK, NEW t \in Logins, OnLogin(t)
  PROVE  /\ SetSubscribed(t) => login'[t].at = "authorize" /\ login'[t].client = Client(t)
         /\ SetAuthorized(t) => login'[t].at = "check" /\ login'[t].client = Client(t)
         /\ CheckAuthorized(t) /\ authorized[Client(t)]
              => login'[t].at = "create" /\ login'[t].client = Client(t)
         /\ ReadsCurrentJob(t)
              => SetAuthorized(t) \/ CheckAuthorized(t) \/ CreateWorkerJob(t)
<1>l. login \in [Logins -> LoginTask]
  BY DEF TypeOK, LoginTask
<1>1. SetSubscribed(t) => login'[t].at = "authorize" /\ login'[t].client = Client(t)
  BY <1>l DEF SetSubscribed, Goto, Client, LoginTask
<1>2. SetAuthorized(t) => login'[t].at = "check" /\ login'[t].client = Client(t)
  BY <1>l DEF SetAuthorized, Client, LoginTask
<1>3. CheckAuthorized(t) /\ authorized[Client(t)]
        => login'[t].at = "create" /\ login'[t].client = Client(t)
  BY <1>l DEF CheckAuthorized, Goto, Client, LoginTask
<1>4. ReadsCurrentJob(t)
        => SetAuthorized(t) \/ CheckAuthorized(t) \/ CreateWorkerJob(t)
  BY DEF ReadsCurrentJob, OnLogin, RefuseLogin, SetMinerName, FindPaymentId, CutName, Cut,
     TruncateName, SetPaymentId, Validate, SetSubscribed, RecognizeActivity
<1> QED
  BY <1>1, <1>2, <1>3, <1>4

\* A login marks its client first and reads CurrentJob afterwards.
LEMMA ServedByLogins ==
  ASSUME IInv, NEW t \in Logins, OnLogin(t), [Next]_vars
  PROVE  MinersAreServed'
<1> USE DEF IInv
<1> SUFFICES ASSUME NEW c \in connected', authorized'[c], subscribed'[c]
             PROVE  \/ [client |-> c, job |-> currentJob'] \in work'
                    \/ BeingVisited(c)'
                    \/ \E s \in Logins : login'[s].client = c
                          /\ login'[s].at \in {"authorize", "check", "create"}
  BY DEF MinersAreServed, Client, ReadsCurrentJob
<1>u. UNCHANGED <<connected, currentJob, cast>> /\ work \subseteq work'
  BY LoginWrites
<1>c. c \in Clients
  BY <1>u DEF TypeOK
<1>1. CASE authorized'[c] # authorized[c] \/ subscribed'[c] # subscribed[c]
  BY <1>1, <1>c, LoginWrites, LoginReads
<1>2. CASE authorized[c] /\ subscribed[c]
  <2>1. CASE [client |-> c, job |-> currentJob] \in work
    BY <1>u, <2>1
  <2>2. CASE BeingVisited(c)
    BY <1>u, <2>2 DEF BeingVisited
  <2>3. ASSUME NEW s \in Logins, Client(s) = c, ReadsCurrentJob(s)
        PROVE  \/ [client |-> c, job |-> currentJob'] \in work'
               \/ \E r \in Logins : login'[r].client = c
                     /\ login'[r].at \in {"authorize", "check", "create"}
    <3>1. CASE s # t
      <4>1. login'[s] = login[s]
        BY <3>1, LoginBecomes DEF Becomes
      <4> QED
        BY <2>3, <4>1 DEF ReadsCurrentJob, Client
    <3>2. CASE s = t /\ (SetAuthorized(t) \/ CheckAuthorized(t))
      BY <1>2, <2>3, <3>2, LoginReads
    <3>3. CASE s = t /\ CreateWorkerJob(t)
      BY <1>u, <2>3, <3>3 DEF CreateWorkerJob
    <3> QED
      BY <2>3, <3>1, <3>2, <3>3, LoginReads
  <2> QED
    BY <1>u, <1>2, <2>1, <2>2, <2>3 DEF MinersAreServed
<1> QED
  BY <1>1, <1>2

\* A new job replaces CurrentJob first and its broadcast looks for marked
\* clients afterwards; a client it takes for inactive is disconnected.
LEMMA ServedByBroadcast ==
  ASSUME IInv, NewJob \/ BroadcastJob
  PROVE  MinersAreServed'
<1> USE DEF IInv
<1>u. UNCHANGED <<authorized, subscribed, login>> /\ connected' \subseteq connected
      /\ (NewJob \/ UNCHANGED currentJob) /\ work \subseteq work'
  BY DEF contextVars, NewJob, BroadcastJob, SnapshotClients, EndBroadcast, VisitClient,
     CheckSubscribed, CheckActivity, CreateBroadcastJob
<1> SUFFICES ASSUME NEW c \in connected', authorized[c], subscribed[c],
                    [client |-> c, job |-> currentJob'] \notin work',
                    ~\E t \in Logins : Client(t) = c /\ ReadsCurrentJob(t)
             PROVE  BeingVisited(c)'
  BY <1>u DEF MinersAreServed, Client, ReadsCurrentJob
<1>c. c \in connected /\ c \in Clients /\ c # Nobody
  BY <1>u, NobodyAssumption DEF TypeOK
<1>1. CASE NewJob
  BY <1>1, CastBecomes DEF BeingVisited, NewJob, BroadcastJob, SnapshotClients,
     EndBroadcast, VisitClient, CheckSubscribed, CheckActivity, CreateBroadcastJob
<1>2. CASE ~NewJob
  <2>1. BeingVisited(c)
    BY <1>u, <1>c, <1>2 DEF MinersAreServed
  <2>2. CASE SnapshotClients /\ cast'.todo = connected
    BY <1>c, <2>2 DEF BeingVisited
  <2>3. CASE EndBroadcast
    BY <1>c, <2>1, <2>3 DEF EndBroadcast, BeingVisited, BetweenClients, TypeOK
  <2>4. ASSUME NEW d \in Clients, VisitClient(d), cast'.todo = cast.todo \ {d},
               cast'.client = IF authorized[d] THEN d ELSE Nobody
        PROVE  BeingVisited(c)'
    BY <1>c, <2>1, <2>4 DEF VisitClient, BeingVisited, BetweenClients, TypeOK
  <2>5. CASE CheckSubscribed /\ cast'.todo = cast.todo
               /\ (subscribed[cast.client] => cast'.client = cast.client)
    BY <1>c, <2>1, <2>5 DEF CheckSubscribed, BeingVisited
  <2>6. CASE CheckActivity /\ cast'.todo = cast.todo
               /\ \/ recent[cast.client] /\ cast'.client = cast.client
                  \/ ~recent[cast.client] /\ cast'.client = Nobody
    BY <1>c, <2>1, <2>6 DEF CheckActivity, BeingVisited
  <2>7. CASE CreateBroadcastJob /\ cast'.todo = cast.todo
    <3>1. c # cast.client
      BY <2>7 DEF CreateBroadcastJob
    <3> QED
      BY <2>1, <2>7, <3>1 DEF CreateBroadcastJob, BeingVisited
  <2> QED
    BY <1>2, <2>2, <2>3, <2>4, <2>5, <2>6, <2>7, CastBecomes
<1> QED
  BY <1>1, <1>2

\* A client that has just connected is not marked, hence owed nothing.
LEMMA ServedStep == IInv /\ [Next]_vars => MinersAreServed'
<1> SUFFICES ASSUME IInv, [Next]_vars
             PROVE  MinersAreServed'
  OBVIOUS
<1> USE DEF IInv
<1>1. ASSUME NEW d \in Clients, Connect(d) \/ Leave(d) \/ GrowOld(d) \/ KeepAlive(d)
      PROVE  MinersAreServed'
  <2>1. UNCHANGED <<authorized, subscribed, currentJob, login, cast, work>>
    BY <1>1 DEF Connect, Leave, GrowOld, KeepAlive, contextVars
  <2>2. ASSUME NEW c \in connected', authorized[c]
        PROVE  c \in connected
    <3>1. CASE Connect(d) /\ c = d
      <4>1. c \in PoolMiners
        BY <2>2, <3>1 DEF MarksNeedPoolAddress
      <4> QED
        BY <3>1, <4>1 DEF Connect, PoolMiners, NamesPoolAddress, LoginsNameTheirClient
    <3>2. CASE ~(Connect(d) /\ c = d)
      BY <1>1, <2>2, <3>2 DEF Connect, Leave, GrowOld, KeepAlive
    <3> QED
      BY <3>1, <3>2
  <2> QED
    BY <2>1, <2>2 DEF MinersAreServed, BeingVisited, Client, ReadsCurrentJob
<1>2. CASE UNCHANGED vars
  BY <1>2 DEF vars, contextVars, MinersAreServed, BeingVisited, Client, ReadsCurrentJob
<1> QED
  BY <1>1, <1>2, ServedByLogins, ServedByBroadcast DEF Next

-------------------------------------------------------------------------------

(***************************************************************************)
(* Logins that none overlaps.                                              *)
(***************************************************************************)

\* A login under way touches the context of its own client only.
LEMMA OthersUntouched ==
  ASSUME TypeOK, LoginsNameTheirClient, NEW r \in Logins, OnLogin(r), NEW c \in Clients,
         login[r].at = "none" \/ Client(r) # c,
         ~\E n \in Names : SetMinerName(r, c, n)
  PROVE  miner'[c] = miner[c] /\ authorized'[c] = authorized[c] /\ subscribed'[c] = subscribed[c]
<1>1. ~(TruncateName(r) /\ c = Client(r))
  BY DEF TruncateName
<1>2. ~(SetAuthorized(r) /\ c = Client(r)) /\ ~(SetSubscribed(r) /\ c = Client(r))
  BY DEF SetAuthorized, SetSubscribed
<1>3. miner'[c] = miner[c]
  BY <1>1, LoginWrites
<1>4. authorized'[c] = authorized[c] /\ subscribed'[c] = subscribed[c]
  BY <1>2, LoginWrites
<1> QED
  BY <1>3, <1>4

\* Only the first access of a login can end what was alone, or begin it.
LEMMA AloneUnchanged ==
  ASSUME TypeOK, NEW r \in Logins, OnLogin(r), NEW c \in Clients,
         ~\E n \in Names : SetMinerName(r, c, n)
  PROVE  alone'[c] = alone[c]
<1>1. ASSUME NEW d \in Clients, NEW n \in Names, SetMinerName(r, d, n)
      PROVE  alone'[c] = alone[c]
  BY <1>1 DEF TypeOK, SetMinerName
<1>2. ASSUME NEW d \in Clients, RefuseLogin(r, d)
      PROVE  alone'[c] = alone[c]
  BY <1>2 DEF RefuseLogin
<1>3. CASE FindPaymentId(r) \/ CutName(r) \/ TruncateName(r) \/ SetPaymentId(r)
  BY <1>3 DEF FindPaymentId, CutName, Cut, TruncateName, SetPaymentId
<1>4. CASE Validate(r) \/ SetSubscribed(r) \/ SetAuthorized(r) \/ CheckAuthorized(r)
           \/ CreateWorkerJob(r) \/ RecognizeActivity(r)
  BY <1>4 DEF Validate, SetSubscribed, SetAuthorized, CheckAuthorized, CreateWorkerJob,
     RecognizeActivity
<1> QED
  BY <1>1, <1>2, <1>3, <1>4 DEF OnLogin

\* A login that finds none of its client under way starts alone.
LEMMA LoneStart ==
  ASSUME TypeOK, LoginsNameTheirClient, NEW r \in Logins, NEW c \in Clients, NEW n \in Names,
         SetMinerName(r, c, n), alone'[c] # Nobody
  PROVE  alone'[c] = r /\ (IsLone(c, r) /\ LoneNames(c, r) /\ LoneMarks(c, r))'
<1>1. alone'[c] = r /\ ~LoggingIn(c)
  BY DEF SetMinerName, TypeOK
<1>2. /\ login'[r].at = "index" /\ login'[r].client = c /\ login'[r].name = n
      /\ \A s \in Logins : s # r => login'[s] = login[s]
      /\ miner'[c] = n
  BY DEF SetMinerName, TypeOK
<1>3. IsLone(c, r)'
  BY <1>1, <1>2 DEF IsLone, LoggingIn, Client
<1>4. LoneNames(c, r)'
  BY <1>2 DEF LoneNames
<1>5. LoneMarks(c, r)'
  BY <1>2 DEF LoneMarks, Marked
<1> QED
  BY <1>1, <1>3, <1>4, <1>5

\* Logins of other clients, and a login that is refused at once, leave it so.
LEMMA LoneStays ==
  ASSUME TypeOK, LoginsNameTheirClient, NEW r \in Logins, OnLogin(r),
         NEW c \in Clients, NEW t \in Logins, t # r,
         ~\E n \in Names : SetMinerName(r, c, n),
         IsLone(c, t), LoneNames(c, t), LoneMarks(c, t)
  PROVE  (IsLone(c, t) /\ LoneNames(c, t) /\ LoneMarks(c, t))'
<1>1. login[r].at \notin Ended
  BY DEF Ended, OnLogin, RefuseLogin, SetMinerName, FindPaymentId, CutName, Cut, TruncateName,
     SetPaymentId, Validate, SetSubscribed, SetAuthorized, CheckAuthorized,
     CreateWorkerJob, RecognizeActivity
<1>2. Client(r) # c
  BY <1>1 DEF IsLone
<1>3. \A s \in Logins : s # r => login'[s] = login[s]
  BY LoginBecomes DEF Becomes
<1>4. miner'[c] = miner[c] /\ authorized'[c] = authorized[c] /\ subscribed'[c] = subscribed[c]
  BY <1>2, OthersUntouched
<1>5. login'[r].client = c => login'[r].at \in Ended
  <2>1. CASE login[r].at = "none"
    <3>1. \/ \E d \in Clients : RefuseLogin(r, d)
          \/ \E d \in Clients, n \in Names : SetMinerName(r, d, n)
      BY <2>1 DEF OnLogin, FindPaymentId, CutName, Cut, TruncateName, SetPaymentId, Validate,
         SetSubscribed, SetAuthorized, CheckAuthorized, CreateWorkerJob, RecognizeActivity
    <3>t. login \in [Logins -> LoginTask]
      BY DEF TypeOK, LoginTask
    <3>2. ASSUME NEW d \in Clients, RefuseLogin(r, d)
          PROVE  login'[r].at = "refused"
      BY <3>2, <3>t DEF RefuseLogin, LoginTask
    <3>3. ASSUME NEW d \in Clients, NEW n \in Names, SetMinerName(r, d, n)
          PROVE  login'[r].client = d
      <4>1. login' = [login EXCEPT ![r].at = "index", ![r].client = d, ![r].name = n]
        BY <3>3 DEF SetMinerName
      <4> QED
        BY <3>t, <4>1 DEF LoginTask
    <3> QED
      BY <3>1, <3>2, <3>3 DEF Ended
  <2>2. CASE login[r].at # "none"
    BY <1>2, <2>2, StartedLoginBecomes DEF Client
  <2> QED
    BY <2>1, <2>2
<1>6. IsLone(c, t)'
  BY <1>3, <1>5 DEF IsLone, Client
<1>7. LoneNames(c, t)' /\ LoneMarks(c, t)'
  BY <1>3, <1>4 DEF LoneNames, LoneMarks
<1> QED
  BY <1>6, <1>7

\* A login on its own way: the name it has written is there when it looks for
\* '#'; if it finds one, it cuts the name there and throws; if not, it
\* validates the name and sets the marks it has validated.
LEMMA LoneNamesWalk ==
  ASSUME TypeOK, LoginsNameTheirClient, NEW t \in Logins, OnLogin(t), NEW c \in Clients,
         IsLone(c, t), LoneNames(c, t)
  PROVE  LoneNames(c, t)'
<1>l. login \in [Logins -> LoginTask] /\ login[t] \in LoginTask /\ Client(t) = c
  BY DEF TypeOK, LoginTask, IsLone
<1>m. miner \in [Clients -> Beginnings \cup {Nobody}]
  BY DEF TypeOK
<1>n. login[t].at # "none" /\ login'[t].name = login[t].name
  BY StartedLoginBecomes DEF IsLone
<1>1. CASE FindPaymentId(t)
  <2>1. miner' = miner /\ login[t].at = "index"
    BY <1>1 DEF FindPaymentId, contextVars
  <2>2. login'[t].at \in {"validate", "cut"}
    BY <1>l, <1>1 DEF FindPaymentId, Goto, LoginTask
  <2> QED
    BY <1>n, <2>1, <2>2 DEF LoneNames
<1>2. CASE CutName(t)
  <2>1. miner' = miner /\ login[t].at = "cut"
    BY <1>2 DEF CutName, Cut, contextVars
  <2>2. miner[c] \in Beginnings
    BY <1>l, <2>1, LoginHasName DEF Ended
  <2>3. CASE login' = [login EXCEPT ![t].at = "thrown", ![t].index = 0]
    <3>1. login'[t].at = "thrown"
      BY <1>l, <2>3 DEF LoginTask
    <3> QED
      BY <3>1 DEF LoneNames
  <2>4. CASE login' # [login EXCEPT ![t].at = "thrown", ![t].index = 0]
    <3> DEFINE n == SubSeq(miner[c], 1, login[t].index)
    <3>1. ~(Len(miner[c]) < login[t].index)
          /\ login' = [login EXCEPT ![t].at = "truncate", ![t].cut = n]
      BY <1>l, <1>2, <2>4 DEF CutName, Cut
    <3>2. Len(n) = login[t].index
      BY <1>l, <2>2, <3>1, BeginningCut DEF LoginTask
    <3> HIDE DEF n
    <3>3. login'[t].at = "truncate" /\ login'[t].cut = n /\ login'[t].index = login[t].index
      BY <1>l, <3>1 DEF LoginTask
    <3> QED
      BY <3>2, <3>3 DEF LoneNames
  <2> QED
    BY <2>3, <2>4
<1>3. CASE TruncateName(t)
  <2>1. /\ login'[t].at = "payment" /\ login'[t].index = login[t].index
        /\ login[t].at = "truncate"
    BY <1>l, <1>3 DEF TruncateName, LoginTask
  <2>2. miner'[c] = login[t].cut
    BY <1>l, <1>m, <1>3 DEF TruncateName
  <2> QED
    BY <2>1, <2>2 DEF LoneNames
<1>4. CASE SetPaymentId(t)
  <2>1. login[t].at = "payment" /\ Len(miner[c]) = login[t].index /\ login[t].index \in Nat
    BY <1>l, <1>4 DEF SetPaymentId, LoneNames, LoginTask
  <2>2. ~(Len(miner[c]) > login[t].index)
    <3> DEFINE k == Len(miner[c])
    <3>1. k = login[t].index /\ login[t].index \in Nat
      BY <2>1
    <3> HIDE DEF k
    <3>2. ~(k > login[t].index)
      BY <3>1
    <3> QED
      BY <3>2 DEF k
  <2>3. login' = [login EXCEPT ![t].at = "thrown", ![t].index = 0]
    BY <1>l, <1>4, <2>2 DEF SetPaymentId
  <2>4. login'[t].at = "thrown"
    BY <1>l, <2>3 DEF LoginTask
  <2> QED
    BY <2>4 DEF LoneNames
<1>5. CASE \/ Validate(t) \/ SetSubscribed(t) \/ SetAuthorized(t) \/ CheckAuthorized(t)
           \/ CreateWorkerJob(t) \/ RecognizeActivity(t)
  <2>1. miner' = miner /\ login[t].at \notin {"truncate", "payment", "thrown"}
    BY <1>5 DEF Validate, SetSubscribed, SetAuthorized, CheckAuthorized, CreateWorkerJob,
       RecognizeActivity, contextVars
  <2>2. login'[t].at \notin {"truncate", "payment"}
    BY <1>l, <1>5 DEF Validate, SetSubscribed, SetAuthorized, CheckAuthorized, CreateWorkerJob,
       RecognizeActivity, Goto, LoginTask
  <2> QED
    BY <1>n, <2>1, <2>2 DEF LoneNames
<1> QED
  BY <1>n, <1>1, <1>2, <1>3, <1>4, <1>5 DEF OnLogin, RefuseLogin, SetMinerName

\* The marks of a login on its own way.
LEMMA LoneMarksWalk ==
  ASSUME TypeOK, LoginsNameTheirClient, NEW t \in Logins, OnLogin(t), NEW c \in Clients,
         IsLone(c, t), LoneNames(c, t), LoneMarks(c, t)
  PROVE  LoneMarks(c, t)'
<1>l. login \in [Logins -> LoginTask] /\ login[t] \in LoginTask /\ Client(t) = c
  BY DEF TypeOK, LoginTask, IsLone
<1>m. authorized \in [Clients -> BOOLEAN] /\ subscribed \in [Clients -> BOOLEAN]
  BY DEF TypeOK
<1>n. login[t].at # "none" /\ login'[t].name = login[t].name
  BY StartedLoginBecomes DEF IsLone
<1>1. CASE FindPaymentId(t) \/ CutName(t) \/ TruncateName(t) \/ SetPaymentId(t)
  <2>1. login'[t].at \in {"validate", "cut", "thrown", "truncate", "payment"}
    BY <1>l, <1>1 DEF FindPaymentId, CutName, Cut, TruncateName, SetPaymentId, Goto, LoginTask
  <2> QED
    BY <2>1 DEF LoneMarks, Marked
<1>2. CASE Validate(t)
  <2>1. login'[t].at = "subscribe"
    BY <1>l, <1>2 DEF Validate, LoginTask
  <2>2. login'[t].valid = ValidateAddress(miner[c])
    BY <1>l, <1>2 DEF Validate, LoginTask
  <2>3. miner[c] = login[t].name
    BY <1>2 DEF Validate, LoneNames
  <2> QED
    BY <1>n, <2>1, <2>2, <2>3 DEF LoneMarks, Marked, ValidateAddress
<1>3. CASE SetSubscribed(t)
  <2>1. /\ login[t].at = "subscribe" /\ login'[t].at = "authorize"
        /\ login'[t].valid = login[t].valid
    BY <1>l, <1>3 DEF SetSubscribed, Goto, LoginTask
  <2>2. subscribed'[c] = login[t].valid
    BY <1>l, <1>m, <1>3 DEF SetSubscribed
  <2> QED
    BY <1>n, <2>1, <2>2 DEF LoneMarks, Marked
<1>4. CASE SetAuthorized(t)
  <2>1. login[t].at = "authorize" /\ login'[t].at = "check"
    BY <1>l, <1>4 DEF SetAuthorized, LoginTask
  <2>2. authorized'[c] = login[t].valid /\ subscribed' = subscribed
    BY <1>l, <1>m, <1>4 DEF SetAuthorized
  <2> QED
    BY <1>n, <2>1, <2>2 DEF LoneMarks, Marked
<1>5. CASE CheckAuthorized(t) \/ CreateWorkerJob(t) \/ RecognizeActivity(t)
  <2>1. login[t].at \in Marked /\ login'[t].at \in Marked
    BY <1>l, <1>5 DEF CheckAuthorized, CreateWorkerJob, RecognizeActivity, Goto, Marked, LoginTask
  <2>2. authorized' = authorized /\ subscribed' = subscribed
    BY <1>5 DEF CheckAuthorized, CreateWorkerJob, RecognizeActivity, contextVars
  <2> QED
    BY <1>n, <2>1, <2>2 DEF LoneMarks, Marked
<1> QED
  BY <1>n, <1>1, <1>2, <1>3, <1>4, <1>5 DEF OnLogin, RefuseLogin, SetMinerName

\* What is said of lone logins stays so with every access of every thread.
LEMMA LoneStep ==
  TypeOK /\ LoginsNameTheirClient /\ LoneLogins /\ [Next]_vars => LoneLogins'
<1> SUFFICES ASSUME TypeOK, LoginsNameTheirClient, LoneLogins, [Next]_vars
             PROVE  LoneLogins'
  OBVIOUS
<1>1. ASSUME NEW r \in Logins, OnLogin(r), NEW c \in Clients, NEW t,
             t = alone'[c], t # Nobody
      PROVE  (IsLone(c, t) /\ LoneNames(c, t) /\ LoneMarks(c, t))'
  <2>1. CASE \E n \in Names : SetMinerName(r, c, n)
    BY <1>1, <2>1, LoneStart
  <2>2. CASE ~\E n \in Names : SetMinerName(r, c, n)
    <3>1. t = alone[c] /\ t \in Logins
      BY <1>1, <2>2, AloneUnchanged DEF TypeOK
    <3>2. IsLone(c, t) /\ LoneNames(c, t) /\ LoneMarks(c, t)
      BY <1>1, <3>1 DEF LoneLogins
    <3>3. CASE t # r
      BY <1>1, <2>2, <3>1, <3>2, <3>3, LoneStays
    <3>4. CASE t = r
      <4>1. LoneNames(c, t)' /\ LoneMarks(c, t)'
        BY <1>1, <3>2, <3>4, LoneNamesWalk, LoneMarksWalk
      <4>2. login'[t].at # "none" /\ login'[t].client = login[t].client
        BY <1>1, <3>2, <3>4, StartedLoginBecomes DEF IsLone
      <4>3. \A s \in Logins : s # t => login'[s] = login[s]
        BY <1>1, <3>4, LoginBecomes DEF Becomes
      <4> QED
        BY <3>2, <4>1, <4>2, <4>3 DEF IsLone, Client
    <3> QED
      BY <3>3, <3>4
  <2> QED
    BY <2>1, <2>2
<1>2. CASE UNCHANGED <<miner, authorized, subscribed, login, alone>>
  BY <1>2 DEF LoneLogins, IsLone, LoneNames, LoneMarks, Client
<1> QED
  BY <1>1, <1>2, OnlyLoginsWriteNames DEF LoneLogins

-------------------------------------------------------------------------------

\* The strengthened invariant holds before anybody connects.
LEMMA IInvInit == Init => IInv
<1> SUFFICES ASSUME Init
             PROVE  IInv
  OBVIOUS
<1>1. TypeOK
  BY TypeOKInit
<1>2. LoginsNameTheirClient /\ NamesComeFromLogins /\ MinersAreServed /\ LoneLogins
  BY DEF Init, LoginsNameTheirClient, NamesComeFromLogins, MinersAreServed, LoneLogins
<1>3. MarksNeedPoolAddress /\ WorkIsAskedFor
  BY DEF Init, MarksNeedPoolAddress, WorkIsAskedFor
<1> QED
  BY <1>1, <1>2, <1>3 DEF IInv

\* Every access of every thread preserves the strengthened invariant.
LEMMA IInvStep == IInv /\ [Next]_vars => IInv'
  BY TypeOKStep, NamesStep, MarksStep, ServedStep, LoneStep DEF IInv

\* Type correctness of the sessions: in particular every login that validates,
\* marks or truncates finds a name in its client's context.
THEOREM TypeCorrect == Spec => []TypeOK
<1>1. IInv => TypeOK
  BY DEF IInv
<1> QED
  BY <1>1, IInvInit, IInvStep, PTL DEF Spec

\* Only clients one of whose own logins began with an address of the pool get
\* worker jobs, however concurrent logins overwrite, cut and validate the
\* name; and a login that none overlapped leaves the client authorized and
\* subscribed exactly if it named such an address.
THEOREM WorkAlwaysGoesToValidMiners == Spec => []WorkGoesToValidMiners
<1>1. IInv => WorkGoesToValidMiners
  <2> SUFFICES ASSUME IInv
               PROVE  LoneLoginDecides
    BY DEF WorkGoesToValidMiners, IInv
  <2> SUFFICES ASSUME NEW c \in Clients, alone[c] # Nobody,
                      login[alone[c]].at \in {"refused", "answered"}
               PROVE  /\ miner[c] = login[alone[c]].name
                      /\ authorized[c] <=> login[alone[c]].name \in PoolAddresses
                      /\ subscribed[c] <=> authorized[c]
    BY DEF LoneLoginDecides
  <2>1. LoneNames(c, alone[c]) /\ LoneMarks(c, alone[c])
    BY DEF IInv, LoneLogins
  <2> QED
    BY <2>1 DEF LoneNames, LoneMarks, Marked
<1> QED
  BY <1>1, IInvInit, IInvStep, PTL DEF Spec

\* No miner misses a job, whatever logins and broadcasts overlap.
THEOREM NoMinerEverMissesAJob == Spec => []NoMinerMissesAJob
<1>1. IInv => NoMinerMissesAJob
  <2> SUFFICES ASSUME IInv, NEW c \in connected, authorized[c], subscribed[c],
                      ~LoggingIn(c), ~BeingVisited(c)
               PROVE  \E w \in work : w.client = c /\ w.job = currentJob
    BY DEF NoMinerMissesAJob
  <2>1. ~\E t \in Logins : Client(t) = c /\ ReadsCurrentJob(t)
    BY DEF LoggingIn, ReadsCurrentJob, Ended
  <2>2. [client |-> c, job |-> currentJob] \in work
    BY <2>1 DEF IInv, MinersAreServed
  <2> QED
    BY <2>2
<1> QED
  BY <1>1, IInvInit, IInvStep, PTL DEF Spec

===============================================================================
