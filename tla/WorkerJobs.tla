----------------------------- MODULE WorkerJobs -----------------------------
(***************************************************************************)
(* MoneroJob.CreateWorkerJob, which logins and the broadcast call on the   *)
(* same job from several threads: the id comes from GetNext (JobCounter),  *)
(* the extra nonce from ++extraNonce, which is a read and a write, and the *)
(* work is encoded from both.                                              *)
(***************************************************************************)
EXTENDS JobCounter, MoneroWork

CONSTANTS
    Templates,   \* the block templates a job may be made of
    Difficulty   \* the difficulty of every miner, times 255

NonceRange == Power(ByteBase, NonceSize)

\* A job is replaced long before its uint of extra nonces is used up.
ASSUME NonceAssumption == NonceSize \in Nat /\ MaxCalls < NonceRange

\* The daemon leaves the ReserveSize bytes it was asked for zero, and a block
\* has no more transactions than tree-hash.c takes.
ASSUME TemplatesAssumption ==
    /\ InstanceId \in Seq(Byte)
    /\ \A t \in Templates :
          /\ t = [header |-> t.header,
                  reserved |-> [i \in 1..(NonceSize + Len(InstanceId) + 1) |-> 0],
                  txHashes |-> t.txHashes]
          /\ t.txHashes \in Seq(Range(t.txHashes))
          /\ Len(t.txHashes) < Power(2, 28)

\* No miner has the difficulty zero.
ASSUME DifficultyAssumption == Difficulty \in Nat \ {0}

VARIABLES
    template,    \* _blobTemplate, with the instance id
    extraNonce,  \* the field extraNonce
    place,       \* where in CreateWorkerJob a thread is
    seen,        \* the extraNonce a thread has read, then its own
    after,       \* after[t]: the worker jobs created when t's call began
    jobs,        \* history: the worker jobs, in the order of their creation
    alone        \* history: did no other thread have a read extraNonce to write
                 \* when t wrote its own?

jobVars == <<template, extraNonce, place, seen, after, jobs, alone>>
allVars == <<vars, jobVars>>

TypeOKWork ==
    /\ extraNonce \in 0..(NonceRange - 1)
    /\ place \in [Threads -> {"outside", "id", "read", "write", "encode"}]
    /\ seen \in [Threads -> 0..(NonceRange - 1)]
    /\ after \in [Threads -> 0..MaxCalls]
    /\ \A k \in 1..Len(jobs) : jobs[k].target \in [1..TargetHead -> Byte]
    /\ alone \in [Threads -> BOOLEAN]

InitWork ==
    /\ Init
    /\ \E t \in Templates : template = PrepareBlobTemplate(t)
    /\ extraNonce = 0
    /\ place = [t \in Threads |-> "outside"]
    /\ seen = [t \in Threads |-> 0]
    /\ after = [t \in Threads |-> 0]
    /\ jobs = <<>>
    /\ alone = [t \in Threads |-> FALSE]

MoveTo(t, p) == place' = [place EXCEPT ![t] = p]

\* _workerJobCounter.GetNext(), access by access.
Enter(t) ==
    /\ place[t] = "outside"
    /\ Begin(t)
    /\ MoveTo(t, "id")
    /\ after' = [after EXCEPT ![t] = Len(jobs)]
    /\ UNCHANGED <<template, extraNonce, seen, jobs, alone>>

DrawId(t) == (ResetAtMax(t) \/ Increment(t)) /\ UNCHANGED jobVars

GotId(t) ==
    /\ Return(t)
    /\ MoveTo(t, "read")
    /\ UNCHANGED <<template, extraNonce, seen, after, jobs, alone>>

\* ++extraNonce, of a uint.
ReadNonce(t) ==
    /\ place[t] = "read"
    /\ seen' = [seen EXCEPT ![t] = (extraNonce + 1) % NonceRange]
    /\ MoveTo(t, "write")
    /\ UNCHANGED <<vars, template, extraNonce, after, jobs, alone>>

\* Does another thread hold a value of extraNonce that it is about to write?
Contended(t) == \E u \in Threads \ {t} : place[u] = "write"

\* Defect: the field is read and never written.
WriteNoNonce(t) ==
    /\ place[t] = "write"
    /\ MoveTo(t, "encode")
    /\ alone' = [alone EXCEPT ![t] = ~Contended(t)]
    /\ UNCHANGED <<vars, template, extraNonce, seen, after, jobs>>

WriteNonce(t) ==
    /\ place[t] = "write"
    /\ extraNonce' = seen[t]
    /\ MoveTo(t, "encode")
    /\ alone' = [alone EXCEPT ![t] = ~Contended(t)]
    /\ UNCHANGED <<vars, template, seen, after, jobs>>

\* EncodeBlob and EncodeTarget; the call ends.
EncodeWork(t) ==
    /\ place[t] = "encode"
    /\ jobs' = Append(jobs, [blob |-> EncodeBlob(template, seen[t]),
                             target |-> EncodeTarget(Difficulty),
                             after |-> after[t], alone |-> alone[t]])
    /\ MoveTo(t, "outside")
    /\ UNCHANGED <<vars, template, extraNonce, seen, after, alone>>

CreateWorkerJob(t) ==
    Enter(t) \/ DrawId(t) \/ GotId(t) \/ ReadNonce(t) \/ WriteNonce(t) \/ EncodeWork(t)

NextWork == \E t \in Threads : CreateWorkerJob(t)

SpecWork == InitWork /\ [][NextWork]_allVars

(***************************************************************************)
(* Properties.                                                             *)
(***************************************************************************)

\* A miner searches a space of its own: a job whose extra nonce was written
\* while no other thread was between its read and its write never shares its
\* work with a job whose call begins later, however the later calls interleave
\* and lose increments.  (Without that, work is handed out again, also long
\* after: a stale write takes extraNonce back.)
LaterJobsGetNewWork ==
    \A k \in 1..Len(jobs) : \A i \in 1..jobs[k].after :
        jobs[i].alone => jobs[i].blob # jobs[k].blob

\* MoneroJob.cs and MoneroConstants.cs: every blob is the template's header and
\* all its transactions, and a reserved area that begins with an extra nonce
\* other than the template's zero, goes on with the instance id and keeps its
\* last byte zero.
ReservedAreaIsKept ==
    \A k \in 1..Len(jobs) :
        \E n \in 1..(NonceRange - 1) :
            jobs[k].blob = HashingBlob([template EXCEPT !.reserved =
                               Digits(n, ByteBase, NonceSize) \o InstanceId \o <<0>>])
=============================================================================
