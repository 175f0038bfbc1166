# Hypepool: a TLA+ model of the mining pool

Hypepool is a mining pool server for Monero, written in C#. It polls a coin
daemon for block templates, turns each new one into a job, and serves miners
over the stratum protocol on a libuv event loop. This directory models the parts
of it that carry state shared by threads, callbacks and remote parties, and the
pure functions the work and the addresses pass through, checks them with TLC on
small instances and proves the safety invariants of its state machines and of
these functions with TLAPS for every instance.

Paths below are relative to `src/src/`. `Core` stands for `Core/Hypepool.Core`,
`Common` for `Core/Hypepool.Common`, `Monero` for `Blockchains/Monero`.

## The system

| Component | State | Operations | Hard behaviour |
|---|---|---|---|
| Job id counter, `Common/Mining/Jobs/JobCounter.cs` | `_last` | `GetNext` | called by several threads; three accesses, the last a plain re-read; wraps at `int.MaxValue` |
| Daemon RPC client, `Common/Daemon/DaemonClient.cs` | the `HttpClient` | `Initialize`, `ExecuteCommandAsync` | unreachable daemon, timeouts, junk, empty and misshapen answers, calls before `Initialize` |
| Job manager, `Monero/MoneroJobManager.cs` | `CurrentJob`, `_jobCounter`, the observable pipeline | `SetupJobUpdates`, `UpdateJob` | one tick a second while a request is under way; late answers; reorganizations; exceptions inside an observable |
| Pool startup, `Core/Core/Engine.cs`, `Monero/MoneroPool.cs` | stage of `Initialize`/`Start`, `_poolAddressBase58Prefix` | the checks and waits of `Initialize`, the two subscriptions of `Start` | retries, swallowed exceptions, a subscription that comes too late |
| Stratum server and connections, `Core/Stratum/*.cs`, `Common/Pools/PoolBase.cs` | `_clients`, the connection's flags, subscription, send queue and async handles | accept, read, respond, drain, disconnect, complete | the loop, request tasks, the zombie timer and the broadcast act on one connection at once |
| Line buffer, `Core/Utils/Buffers/PooledLineBuffer.cs` | `_recvQueue` | `Receive`, `Dispose` | chunks cut anywhere, stale bytes in pooled arrays, ownership of arrays, the length limit |
| Miner sessions, `Monero/MoneroPool.cs` | the worker context | login, keepalived, `BroadcastJob` | every request is a task of its own; no lock on the context |
| Jobs and work encoding, `Monero/MoneroJob.cs` | `extraNonce`, `_workerJobCounter` | `CreateWorkerJob`, `EncodeBlob`, `EncodeTarget` | called by logins and the broadcast at once |
| Block blobs and Merkle roots, `Hashing/libcryptonote` (`exports.cpp`, `tree-hash.c`) | none | `convert_blob_export`, `tree_hash` | in-place passes, numbers of transactions around powers of two |
| Address decoding, `Hashing/libcryptonote/common` (`base58.cpp`, `varint.h`), `ValidateAddress` | none | `encode`, `decode`, `decode_addr`, `read_varint` | overflow of a word, short last blocks, second spellings, a 32-bit result read as 64 bits |
| DAG files, `Hashing/libmultihash/libethash` (`internal.c`, `io.c`) | the file and its mappings | `ethash_full_new`, `ethash_full_delete` | processes that die, fail or are cancelled while they build a shared file |
| Connection ids, hexadecimal texts | none | `GenerateId`, `ToHexString`, `HexToByteArray` | boundaries |
| JSON-RPC messages, composition root, logging, hash functions | - | - | not modelled, see the end |

How they meet: `Engine.Start` awaits `MoneroPool.Initialize` and calls
`MoneroPool.Start`. `Start` subscribes `BroadcastJob` to the job manager's
`JobQueue`, awaits `JobQueue.Take(1)` and opens the stratum server. The server
accepts connections on the loop thread, hands each complete line to a thread-pool
task (`OnReceive` -> `OnRequestAsync`), and the task answers through the
connection's send queue, which the loop drains. A new job makes the pipeline's
thread call `BroadcastJob`, which walks over a copy of the clients and
disconnects inactive ones. Ten seconds after a connect a timer disconnects a
client that has sent nothing.

## Modules

| Module | Models | State and actions |
|---|---|---|
| `JobCounter` | `JobCounter.cs` | `last` is `_last`; `pc[t]` is the access of `GetNext` thread `t` is at: `Begin`, `ResetAtMax`, `Increment`, `Return` |
| `DaemonClient` | `DaemonClient.cs` | operators: what the caller's `await` yields for each end of an HTTP exchange |
| `MoneroJobManager` | `MoneroJobManager.cs`, and `BroadcastJob`/`Take(1)` as observers | `ticks` is Concat's queue, `update`/`answer` the running `UpdateJob`, `emission` the job on its way through `Publish`; `tip` and `synced` are the chain and the daemon |
| `PoolStartup` | `Engine.Start`, `MoneroPool.Initialize`, `MoneroPool.Start` | EXTENDS `MoneroJobManager`; `stage` is the await the engine is at; one action per daemon call |
| `StratumConnection` | `StratumServer.cs`, `StratumClient.cs`, `PoolBase.cs` | one connection: `loop` is the callback the loop thread is in, `task[r]` the request tasks, `disconnecting[k]` the threads inside `DisconnectClient`, `drainer`/`disposer` the async handles, `sendQueue` the queued responses |
| `LineSplitter` | what a line buffer promises | abstract: cut the stream at newlines, drop empty lines |
| `PooledLineBuffer` | `PooledLineBuffer.cs`, `PooledArraySegment.cs` | one action per iteration of `Receive`'s loop; every array has a number, so that its owners can be counted |
| `MoneroSession`, `MCMoneroSession` | `OnRequestAsync`, `OnLogin`, `BroadcastJob` | one action per access of the shared worker context or of `CurrentJob`, any number of login tasks and the broadcasting thread; `MinerName` is a sequence of characters that logins read, cut and write back in separate steps. The MC module gives the names, the pool's address and the symmetry of the logins |
| `Numbers` | the conversions of `base58.cpp` | operators: powers, the digits of a number, the number of a string of digits |
| `ByteStrings` | `varint.h` | operators over bytes of `ByteBits` and words of `WordBits` bits |
| `Base58` | `base58.cpp`, `decode_address_export`, `ValidateAddress` | operators; a character is its index in the alphabet. `DecodeAddress` takes the upper half of its result as an argument, since the library leaves it open |
| `MoneroWork` | `tree-hash.c`, `get_block_hashing_blob`, `EncodeBlob`, `EncodeTarget`, `PrepareBlobTemplate` | operators; hashes are terms, so that equal roots mean equal trees |
| `TextEncodings` | `CorrelationIdGenerator.cs`, `ArrayExtensions.cs`, `StringExtensions.cs` | operators; a character is its code |
| `Encodings`, `MCEncodings` | - | compares the operators of the five modules above with reference definitions; each behaviour probes one input |
| `WorkerJobs`, `MCWorkerJobs` | `CreateWorkerJob` | EXTENDS `JobCounter` and `MoneroWork`; `place[t]` is the access thread `t` is at, `extraNonce` and `last` the two shared fields |
| `EthashDag` | `internal.c`, `io.c` of libethash | `file` is the DAG file, `pc[p]` the step of `ethash_full_new_internal` process `p` is at; one action per access of the file, one per failure. Nothing locks the file, so calls overlap freely; `clashed` tells whether one has emptied the file behind another's back |
| `StratumConnectionProofs`, `MoneroSessionProofs`, `PooledLineBufferProofs`, `EthashDagProofs` | - | theorems about the module they are named after |
| `WorkerJobsProofs`, `PoolStartupProofs` | - | theorems about `JobCounter` and `WorkerJobs`, and about `MoneroJobManager` and `PoolStartup` |
| `MoneroWorkProofs`, `EncodingsProofs` | - | theorems about `Numbers` and `MoneroWork`, and about the other operators and `Encodings` |

`DaemonClient` is used by `MoneroJobManager`, which `PoolStartup` composes with
the startup sequence. `StratumConnection`, `PooledLineBuffer` and `MoneroSession`
describe the serving side at three levels: sockets and threads, bytes, requests.
`MoneroSession` relies on three facts the other modules establish: there is a
job once the server is open (`ServingHasAJob`), a job is broadcast to the end
before the next one is created (`EveryJobIsBroadcastInOrder`), and a request
finds its context (`RequestsFindTheirContext`). `WorkerJobs` opens up
`CreateWorkerJob`, which `MoneroSession` takes as one step: it composes the
counter with the field `extraNonce` and the encoding of the blob. `EthashDag`
stands alone: libmultihash exports it to the pools of ethash coins, of which
this version has none.

Definitions whose comment begins with "Defect:" are never used by a
specification. Each is a plausible mistake in the code next to it; replacing the
definition by it makes TLC find the corresponding property violated, which shows
that the property depends on that code.

### What is abstracted

In the state machines, addresses, blobs, request texts and response texts are small
sets; only what decides a branch is kept (does the address decode, does the template's
blob convert). A miner's name in `MoneroSession` is a short sequence of characters,
because logins cut it at its `#` while others replace it; which names are addresses of
the pool is a constant set there, and `Encodings` says what `ValidateAddress` accepts. Logging is left out. Time is left
out except for its order: a timer that is due may fire, 600 seconds may pass.
Accesses of one thread take effect in program order (sequential consistency).
The C# fields involved are neither volatile nor locked, so this is an
assumption. It matters most for `NoMinerMissesAJob`, whose argument is "store
`IsAuthorized`, then load `CurrentJob`" on one thread against "store
`CurrentJob`, then load `IsAuthorized`" on the other; the lock in `ForEachClient`
is a fence on the second thread, the first has none between its two accesses.

External code is modelled by how the repository uses it:

- NetUV: callbacks of the loop run one at a time on the loop thread; signals of
  an async handle coalesce; `Send` on a disposed handle throws
  `ObjectDisposedException`; a read error is followed by the completion callback;
  `Shutdown` ends the writing side; `QueueWrite` has taken the bytes when it
  returns, since the code returns the array right after it.
- Rx: `Interval` ticks regardless of its consumers, `Concat` runs one inner
  observable at a time, `Publish().RefCount()` connects at the first
  subscription and gives later subscribers only later values, an exception ends
  an observable.
- HttpClient: every request ends, at the latest by its timeout.
- `ArrayPool.Rent` returns an array of at least the requested length with
  arbitrary contents.

## Runs

| Run | Result | What it shows |
|---|---|---|
| `workers` | passes | ids of calls that do not overlap increase, up to the wrap, and `_last` stays an `int`; an extra nonce written while nobody else was between its read and its write is never handed out again; every blob is the template with nonce, instance id and last byte in place |
| `counter_unique` | violated | overlapping calls of `GetNext` return equal ids |
| `jobs` | passes | jobs climb in height, each is broadcast once and in order, and a height that is reached for good becomes a job |
| `startup` | passes | a serving pool has a job, knows its address prefix and had a synchronised daemon; startup gets through, or has missed the first job |
| `startup_abort` | violated | an `Initialize` that ended with a `PoolStartupAbortedException` is followed by `Start`, and the pool serves |
| `connection` | passes | over all interleavings of five kinds of threads: requests have a context, no ghost clients, no lost buffers, no lost wake-ups, silent and dead clients are shut down |
| `connection_pool` | violated | a response queued while the connection completes returns its buffer to the pool twice |
| `lines` | passes | `PooledLineBuffer` implements `LineSplitter`; every array has exactly one owner; floods are reported |
| `session` | passes | crossing logins and broadcasts never leave an authorized miner without a worker job of the current job; work only goes to clients one of whose own names began with an address of the pool, and a login nobody overlapped decides alone |
| `session_payment` | violated | a login with a payment id throws before `PaymentId` is set and is never answered |
| `dag` | passes | calls of `ethash_full_new` by three processes overlap in every way, fail, are cancelled or die: until one of them empties the file behind another's back, a file with the magic number is complete and no handle is on an incomplete DAG; and, whatever happened, a call that meets no failure succeeds |
| `native` | passes | addresses, varints, Merkle roots, targets, ids and hexadecimal texts agree with their reference definitions for every small input |

### Properties and why they are not obvious

- `LaterCallsGetLargerIds`: the returned value is read after other threads may
  have incremented the field, so the id is not the caller's own increment. What
  remains true is that it is larger than every id returned before the call began.
- `JobsClimb`, `EveryJobIsBroadcastInOrder`: `BroadcastJob` ignores its argument
  and reads `CurrentJob`. It is right only because `Concat` does not start the
  next `UpdateJob` before every observer has seen the job.
- `NewBlocksBecomeJobs`: whatever requests failed, by whatever kind of failure,
  the pipeline survives.
- `ServingKnowsItsPrefix`: `Start` runs after a failed `Initialize`, but a pool
  whose address does not decode never creates its `HttpClient`, so it never gets
  a first job and never opens the server. The property holds for a reason far
  away from the code it protects (`ValidateAddress`).
- `ClosedClientsAreUnregistered`, `BuffersAreNotLost`, `ResponsesAreWritten`,
  `SilentClientsAreBooted`, `DeadClientsAreShutDown`: each speaks about the end
  state of races between the loop, the tasks, the timer and the broadcast.
- `SplitsTheStream`: the search for a newline runs over the whole rented array,
  beyond what was received; only the clearing of the tail keeps an earlier
  renter's newline from ending a line.
- `FloodsAreReported`: the limit is compared with what is queued, not with an
  assembled line, so a request may be almost twice as long as the maximum (the
  bound in the property is the sharp one).
- `LaterJobsGetNewWork`: `++extraNonce` is not atomic and has no lock. A write
  that is late takes the field back, so even calls far apart can hand out the
  same work; what remains is that an increment nobody else was in the middle of
  is safe from every later call.
- `MagicMeansComplete`, `HandsOutCompleteDags`, `UndisturbedCallsSucceed`: a file
  left by a dead process has the right size. Only the order "nodes, then magic
  number" and the emptying of every file that is created again keep it from being
  mapped, and no such file may block later calls. Nothing locks the file, so the
  first two hold only until two calls clash (`clashed`: one creates the file while
  another builds it or is about to map it), and they say so. Up to there calls may
  overlap: one may read the file that another builds, and find no magic number.
- `AcceptedVarintsAreCanonical`: the value of a varint wraps at the width of a word;
  only the overflow test keeps a varint of too many bits from passing for the small
  number that remains of it.
- `AcceptedStringsAreCanonical`: six tests in `decode` and `decode_block` together
  keep any two strings from standing for the same bytes; each of them can be
  dropped without a usual round trip noticing.
- `ValidatesPoolAddresses`: the prefix passes through a varint, a cut to 32 bits
  and a return value declared with 64, whose upper half is arbitrary, once when the
  pool decodes its own address and again for each miner's. Whatever the two halves
  are, no foreign address is accepted; an address of the pool is accepted exactly
  when they are equal, so that the declared type could refuse every miner.
- `RootIsTheMerkleTree`: the layers are computed in place over the layer they
  read; the reference is a recursive tree that knows nothing of arrays.
- `NoMinerMissesAJob`: with several good and bad logins on one connection, flags
  set by one task are read by another; the order "authorize, then read
  `CurrentJob`" is what makes it true.
- `WorkGoesToValidMiners`: overlapping logins read, cut and write one `MinerName`, so a
  name may be validated that no request held. It is always the beginning of a name
  that this client sent, and if it is an address, the client asked for work with it. A
  login that no other overlapped decides for good, whatever flags it found; one that
  throws at its `#` decides nothing and leaves the flags of the login before it.

Observations that are not findings: `JobsClimb` holds because heights alone are
compared, so a template for another block of the same height, after a
reorganization, is ignored until the next block. `WaitDaemonConnection` waits
5000 seconds, not 5, between two attempts. Between `IsAuthorized = true` and
`LastActivity = Now` a login can be kicked for inactivity by a broadcast.
`EnsureDaemonSynched` takes every error but code -9 for "synched", so one lost
`getblocktemplate` call ends the wait (`MoneroPool.cs:215`); a pool still serves
only after a template of a synchronised daemon (`ServingDaemonWasSynced`). If the
first job is published between the subscriptions of lines 99 and 100 of
`MoneroPool.cs`, `Take(1)` waits for another block (the exception in
`StartupReachesServing`). `EncodeTarget` tells a target of zero for difficulties up
to 512; the pool uses 7500. A second process may truncate, by `"wb+"`, the DAG file
a first one has mapped; the first then writes the magic number over nodes the
second has not computed, or dies of SIGBUS. The run `dag` reaches this, and
`MagicMeansComplete` ends there; without its `~clashed` TLC finds the incomplete file.

### Bounds

| Bound | Value | Why it is enough |
|---|---|---|
| `MaxValue` (`JobCounter`) | 4 (5 in `counter_unique`), in place of `int.MaxValue` | the counter reaches it, resets and can overflow past it |
| `MaxCalls`, `Threads` | 5 calls by 2 threads | calls overlap, others follow both, across the wrap of the id |
| `ByteBits`, `WordBits`, `AlphabetSize` | 3, 9, 6, in place of 8, 64, 58 | a word is three bytes; 6^3 < 8^3 < 5 * 6^3 as 58^10 < 2^64 < 57 * 58^10, so the product and the sum of `decode_block` each fit and do not fit a word; 9 = 4 * 2 + 1 as 64 = 9 * 7 + 1, so the last byte of a varint has one bit left |
| `EncodedSizes`, `ChecksumSize`, `AddressLength` | blocks of 0 to 3 bytes, 1, 6 | full and short blocks, lengths that no block has |
| `PrefixBits`, `PoolPrefix` | 7, 2 | four upper halves, so that the stored and the decoded one agree and differ |
| `MaxData`, `MaxString` | 5 bytes, 6 characters | varints that reach the overflow test, which is at their fifth byte; two blocks; every string over the alphabet and one unknown character |
| `MaxHashes` | 40 | numbers of transactions around 2, 4, 8, 16 and 32 |
| `TargetSize`, `TargetHead`, `DiffOne` | 4, 2, 4095 | a target of four bytes, all ones as `Diff1`; quotients of every size up to and beyond it |
| `MaxDiff`, `MaxId`, `HexBytes` | 15000, 511, both digits at their ends | quotients down to 0, ids of nine bits in five characters of two as 64 bits in 13 of five, pairs of bytes |
| `NonceSize`, `InstanceId`, `Templates` | 2 bytes, 1 byte, 0 or 2 transactions | the nonce does not wrap within the calls, the offsets differ |
| `Processes`, `Nodes` (`EthashDag`) | 3, 2 | one process builds, a second reads what is there, a third creates the file again; a node before and one after an interruption |
| `MaxHeight` | 3 (2 in `PoolStartup`) | two jobs after the first, and room for a reorganization below the top |
| `MaxTicks` | 1 | one tick queued behind a running update; more only repeat it. The code has no bound |
| `MaxId` | 2 | the job counter starts again at 1 |
| `Branches` | 2 (1 in `PoolStartup`) | two competing blocks; startup does not depend on them |
| `PeerCounts` | {0, 1} | on both sides of `> 0` |
| `Requests` | 2 | two senders race for one queue and one drainer |
| `MaxWriteErrors` | 1 | a failed write with another response behind it |
| `MaxLength`, `MaxChunk`, `MaxChunks`, `MaxTail` | 3, 4, 3, 1 | chunks above and below the limit, lines over one, two and three chunks, one stale byte behind the data |
| `Logins`, `Clients`, `MaxJobs` | 3, 1, 2 | the races are between logins of one connection and the broadcast; connections share nothing but `CurrentJob` |
| `Names`, `PoolAddresses` | `px`, `p`, `px#1`; `px` | an address, one that is too short, one with a payment id; the `#` lies beyond the end of the short name, so that a `Substring` fails on a name that was replaced |

`CHECK_DEADLOCK FALSE` is used where the modelled life ends: a closed
connection, a disposed line buffer, all calls made, a probed input.

### Fairness

- `MoneroJobManager`: weak fairness of the timer, of `UpdateJob` (HttpClient's
  timeout ends every request) and of the observers' calls; strong fairness of a
  good reply, that is, a synchronised daemon asked again and again answers well
  again and again. `NewBlocksBecomeJobs` is conditional on `<>[]synced`.
- `PoolStartup`: the engine's thread goes on after a call has ended; the two
  waits get a good answer at last. No fairness makes a daemon fail, so nothing
  depends on an aborted `Initialize`.
- `StratumConnection`: weak fairness of the loop's steps, tasks, disconnecting
  threads and the timer; strong fairness of the two async handles, since the loop
  serves them between other callbacks. Nothing is assumed of the peer.
- `PooledLineBuffer`: a call of `Receive` runs to its end.
- `EthashDag`: a call that has begun runs on until it returns or a failure meets
  it. Writing a node beyond the end of a file that another call has truncated is such
  a failure: SIGBUS ends the process, so that step is part of the fair ones. Nobody
  has to begin a call, and nothing is assumed of other failures.

## Proofs

`WorkerJobsProofs`, on `JobCounter`, for any set of threads, any number of calls and any width:

- `TypeCorrect`: `Spec => []TypeOK`.
- `LaterIdsAreLarger`: `Spec => []LaterCallsGetLargerIds`. The property is not
  inductive: a call that is about to return could, as far as it says, find
  `_last` at an id already issued. The invariant adds that a call's `after` lies
  in the past (`IssuedInThePast`), that no issued id is above `_last`
  (`NoIdAboveLast`) and that a call past its increment sees `_last` above every id
  issued before it began (`ReadersSeeALargerId`). The increment establishes the
  last one from the second, and nothing but the wrap destroys it.

`PoolStartupProofs`, on `MoneroJobManager`, for any heights, branches, backlog of ticks and any
behaviour of the daemon:

- `TypeCorrect`: `Spec => []TypeOK`. Types alone are not inductive: `broadcasts`
  holds jobs only because `CurrentJob` is not null when `BroadcastJob` runs, which
  follows from the whole invariant (a push is under way, so a job was created).
- `JobsAlwaysClimb`: `Spec => []JobsClimb`, by the strengthening that `CurrentJob`
  is the last job created (`CurrentIsLast`).
- `JobsAreBroadcastInOrder`: `Spec => []EveryJobIsBroadcastInOrder`, by the
  strengthening that the permanent observer is subscribed before anything runs
  (`RunningIsObserved`), and that an update and a push never overlap
  (`OneAtATime`), which is what Concat contributes.

`EthashDagProofs`, for any number of processes and nodes:

- `TypeCorrect`: `Spec => []TypeOK`.
- `MagicIsSound` and `HandlesAreSound`: `Spec => []MagicMeansComplete` and
  `Spec => HandsOutCompleteDags`, for calls that overlap, fail and die at any step. Both
  speak of the time before a clash, and so does the invariant: up to then one process
  at most builds the file (`OneBuilder`), a file under construction has no magic number
  (`BuiltWithoutMagic`), it has its final size and every node before `next`
  (`BuiltInOrder`), whoever is about to map an existing file still finds the magic
  number there (`MapsFinalized`), and with the magic number goes a complete file. That
  there is one builder is no assumption: a process becomes one by creating the file,
  which is a clash if there was another. The file is filled from the front, so at
  the end of the loop it is complete.

`PoolStartupProofs`, on `PoolStartup`, for every chain, every daemon and every outcome of the checks
of `Initialize`, on top of the job manager's invariant (the engine's steps are steps
of the job manager, leave it alone, or create the HTTP client):

- `StartupTypeCorrect`: `StartupSpec => []TypeOKStartup`.
- `ServingAlwaysHasAJob`, `ServingAlwaysKnowsItsPrefix`,
  `ServingDaemonWasAlwaysSynced`: what a serving pool relies on, also after an
  aborted `Initialize`. None of the three is inductive, since the reasons lie several
  steps back. The invariant follows a job to its origin: a server is open after
  `Take(1)` saw a job (`FirstTaskSawAJob`), a job is made of a response
  (`JobsHaveAnOrigin`), a response came through the HTTP client from a daemon that
  was synchronised (`AnswersHaveAnOrigin`), and the client is only created behind
  the check of the address (`ClientsNeedPrefix`). `QuietBeforeStart` says that nothing
  runs in the pipeline while the startup still changes these.

`StratumConnectionProofs`, for any set of requests, any bound on failing writes and
all interleavings:

- `TypeCorrect`: `Spec => []TypeOK`.
- `RequestsAlwaysFindTheirContext` and `ClosedClientsStayUnregistered`, by what each
  callback of the loop leaves to the next: `DisconnectClient` runs on the loop inside
  three callbacks only (`LoopCallsDisconnect`), the socket is open while it is
  accepted and idle once closed (`SocketFollowsLoop`), the context is set before
  anything is read (`ContextPrecedesRequests`), and the completion has removed the
  client before it releases anything (`CompletedIsUnregistered`).
- `BuffersAreNeverLost`: a buffer that is rented and not returned is with its sender
  or in the queue; and if the queue has been emptied for the last time, its sender
  has yet to find out that the drainer is disposed and will empty it again
  (`BuffersAreAccountedFor`, with `DrainerIsDisposedFirst`). This is why the order
  "dispose the drainer, then empty the queue" matters.

The attempt to prove `TypeCorrect` showed that an earlier form of `Unregister` chose
between two CASE arms whose guards overlap. TLC took the first one; the definition
now has guards that exclude each other.

`MoneroSessionProofs`, for any number of clients, logins and jobs and any names:

- `TypeCorrect`: `Spec => []TypeOK`.
- `WorkAlwaysGoesToValidMiners`. The miner's name is shared by the logins of a
  connection, so a login may validate what another one wrote, or what was cut from
  another's name at its own `#`. The invariant says that the name in the context, and
  every piece that is cut and not yet written back, is the beginning of the name of some
  login of this client (`NamesComeFromLogins`, `LoginsNameTheirClient`), and that every
  mark of a successful validation belongs to a client that named an address of the
  pool (`MarksNeedPoolAddress`). For a login that nobody overlapped, `LoneLogins` follows
  it step by step: the name is its own, what it validated is what it sets, and no other
  task of this client can write in between.
- `NoMinerEverMissesAJob`: a client that is authorized and subscribed has work of
  `CurrentJob`, or the broadcast is still to visit it, or one of its logins is still to
  read `CurrentJob` (`MinersAreServed`). When nobody is under way, the first remains.

`PooledLineBufferProofs`, for any limit, any alphabet of bytes, chunks of any length and
any bytes left behind in rented arrays:

- `TypeCorrect`: `Spec => []TypeOK`.
- `ArraysAlwaysHaveOneOwner`: every rented array is in exactly one place (the queue,
  the lines given away, the returned ones, `buf`). The four places are counted; a
  step moves one array and the sum stays one.
- `FloodsAreAlwaysReported`: needs that copying the queue fills a line exactly
  (`AssembledHasItsSize`), so that the size compared with the limit is the size of the
  line.
- `SplitsTheStreamSafely`: the initial states and all steps of `SplitsTheStream`, the
  refinement of `LineSplitter`. The fact it rests on is `BufferIsCleared`: behind the
  received bytes there are only zeros, so the newline that the search finds in the
  whole array is one that was received.

`QueuedSize` and `Assembled` are recursive functions over the queue. What they yield
for every queue is proved by induction in the form of sets: the least number at which
two descriptions of a loop differ, of which there is none (`InductionAlong`,
`LoopsAgree`).

`WorkerJobsProofs`, on `WorkerJobs`, for any number of threads, any template and any
number of calls below the range of the extra nonce:

- `LaterJobsAlwaysGetNewWork`: `SpecWork => []LaterJobsGetNewWork`. The property speaks
  about blobs that exist; the invariant is about what may still be written. A value of
  `extraNonce` is settled when the field has reached it and every thread that has yet
  to write holds a larger one (`Settled`). A write nobody else was about to follow
  settles its value (`LoneWritesAreSettled`), no step of any thread unsettles one
  (`SettledStep`), and a call that begins later therefore reads a larger one
  (`LoneJobsAreSettled`). That two extra nonces give two blobs is no assumption: it
  follows from `HashingBlobTellsReserved` and the digits of the two numbers.
- `ReservedAreaIsAlwaysKept` and `WorkTypeCorrect`: an extra nonce is never larger than
  the number of calls that have read the field (`NoncesAreCounted`), so `++extraNonce`
  never comes back to the template's zero; the reserved bytes are computed from the
  two `BlockCopy` calls (`CopiedInto`), the target's from the size of the quotient.
- `LaterWorkerJobsGetLargerIds`: every step of `CreateWorkerJob` is a step of
  `JobCounter` or leaves it alone (`CounterStep`), so what is proved there holds here.

`MoneroWorkProofs`, for any widths of bytes, nonces, targets and hashes:

- Numbers: `Value` and `Digits` are inverse on strings of n digits (`ValueOfDigits`,
  `DigitsOfValue`), digits keep the order of their numbers (`DigitsKeepOrder`), and the
  arithmetic of powers these rest on (`PowerSum`, `PowerGrows`).
- `EncodeTargetTells`: what `EncodeTarget` tells of each quotient, from the size of a
  number with its sign bit (`SignedSizeIsLeast`, `PaddedDigits`).
- `HashingBlobTellsReserved`: the root of the in-place tree tells the first hash, so
  templates with other reserved bytes have other blobs. Each pass pairs the entries of
  the layer before it although it overwrites that layer from the front
  (`HalveLayerPairs`): the j-th hash reads entries 2j - 1 and 2j, which nothing before it
  has written.

`EncodingsProofs`, for any alphabet, any widths and any length of the input. The
eight invariants of the run `native` are `Spec => []Inv`; behind each is a theorem or
lemma about the operators that does not depend on the bounds of the probes:

- `EncodedDataAlwaysDecodes`, `AcceptedStringsAreAlwaysCanonical` (`EncodeMakesEncodings`,
  `DecodeAcceptsEncodings`). The argument goes through four levels. A string has one
  list of pieces of the full length with a shorter last one (`EvenPiecesUnique`), and it
  is put together from them again (`PiecesAndFlatten`). One round of `decode_block` keeps
  or loses the exact total: as long as no test has failed, the wrapping sum is the sum,
  and a sum beyond 64 bits fails one of the two tests (`AddDigitTells`, `NextDigit`,
  `BlockTells`). A block is accepted exactly when it spells a number that its bytes can
  hold (`BlocksAreCanonical`, `BlocksDecode`; a short block by the comparison with
  `Power(ByteBase, size)`, a full one by the word itself). The number of characters
  tells the number of bytes and back (`BlockLengths`, `FullBlocks`), so the pieces of
  the string and those of the data correspond.
- `AcceptedVarintsAreAlwaysCanonical` (`VarintsAreCanonical`): what has been read up to a
  last byte has no wrong byte (`ReadVarintStops`), so nothing was shifted out of the word
  (`LastByteFits`, `VarintsFit`) and the value is that of all the bytes; a varint of several bytes that does not
  end in zero has a value of exactly that many digits, so `write_varint` stops at the same
  byte.
- `AlwaysValidatesPoolAddresses` (`ValidatesExactlyPoolAddresses`). An accepted address of
  the right length is the encoding of a tag of one byte and two keys
  (`AcceptedAddressesAreEncoded`): the length of the address leaves no room for a longer
  tag (`AddressLengths`, `TagsAreBytes`), therefore the low 32 bits hold all of it.
  Conversely, the pool's own addresses decode (`PoolAddressesDecode`), so the low halves
  are equal for these addresses and no others (`PrefixesOfAddresses`). Two numbers of 64
  bits are equal when both halves are, which leaves the upper ones as the only other
  condition.
- `RootIsAlwaysTheMerkleTree` (`TreeHashIsTheMerkleTree`): layer k of the array holds the
  nodes over 2^k slots (`LayersAreNodes`); the first layer does because the leaves that
  stand alone fill two slots each (`NodesOfSlots`).
- `TargetIsAlwaysTheQuotient`, `IdsAlwaysSortInTheirOrder`, `HexTextAlwaysKeepsItsBytes`: from
  `EncodeTargetTells`, `DigitsKeepOrder` and `HexTextRoundTrip`.

The operators are loops over their input, written as recursive functions. What such a
function yields for every input is proved from its intermediate results: a loop with
given steps has results (`LoopHasResults`, from the well-foundedness of the naturals),
two descriptions that agree on the first result and on each step agree (`LoopsAgree`),
and a set of naturals that contains 0 and successors contains all (`InductionAlong`).

Assumptions: the named ASSUMEs on the constants, evaluated by TLC in every run. Most
say that bounds are naturals, `None` is no job, template or number, `Nobody` is no
client, no login and no name. These say more:

- `SizesAssumption` of `Base58`: the table of block sizes increases, each size holds its
  bytes, a word is a full block of bytes, and one character less than a full block fits
  a word. All are facts about the constants of `base58.cpp` (256^k against 58^n, and
  2^64 against 58^10); without the last one the order of the top digit would wrap.
- `NamesAssumption` of `MoneroSession`: names are sequences of characters.
- `PrefixAssumption`, `AddressAssumption`: the pool's prefix is a varint of one byte, the
  library returns at least the bits of such a prefix and at most a word, and
  the length of an address is that of a prefix, two keys and the checksum.
- `TargetAssumption` of `MoneroWork`: `DiffOne` fits into a target's width, of which the
  head is a part.
- `IdsAssumption`, `HashesAssumption`: ids fit into their characters, a block has at most
  the 2^28 transactions that `tree-hash.c` states as its limit.
- `NonceAssumption`, `TemplatesAssumption`, `DifficultyAssumption` of `WorkerJobs`: fewer than
  2^32 worker jobs are made of one job, the daemon leaves the reserved bytes zero, no
  difficulty is zero.

The hash is a term: `FastHash(left, right) == <<left, right>>`. That equal hashes have
equal arguments is part of the model, and what collision freedom of Keccak amounts to.
Of the checksum of an address the proofs use only that it is `ChecksumSize` bytes
(`ChecksumType`).

Only model-checked: the liveness properties `NewBlocksBecomeJobs`,
`StartupReachesServing`, `ResponsesAreWritten`, `SilentClientsAreBooted`,
`DeadClientsAreShutDown` and `UndisturbedCallsSucceed`, and the fairness part of
`SplitsTheStream` (fairness and ENABLED are out of the prover's reach). Every safety
property that a run checks is proved.

## Plan

Done: the counter, the daemon client, the job manager, startup, one connection,
the line buffer with its abstract specification, sessions, worker jobs and their
encoding, addresses, DAG files; every safety property of the state machines and of
the pure functions is proved.

Next, in this order:

1. A composition of `StratumConnection` with the session: requests that end after
   the connection did, kicks that meet logins; its invariants from the two sets of
   proofs.
2. Theorems that go beyond the runs: the step from `EveryJobIsBroadcastInOrder` and
   `ServingHasAJob` to the environment `MoneroSession` assumes.

## Not modelled

- Request and response texts, JSON serialization, logging, the console program
  and the object wiring: straight-line code without state of its own.
- The native hash functions (`libmultihash/sha3`, `slow-hash.c`, `crypto-ops.c` and
  the like): third-party round functions and tables of constants. They make up
  nearly all of the repository's C and C++ lines, carry no state from call to call
  and are out of TLC's reach; the program's own logic is the C# code. `miner.cpp`,
  `hardfork.cpp`, `checkpoints.cpp`, `block_queue.cpp` and `ringct` are vendored with
  libcryptonote and not among the objects its Makefile builds.
- The binary archive that parses block blobs, and integrated addresses, which the
  pool never decodes.
- `getjob`, `submit` and the sending of broadcast jobs: empty or marked "todo"
  in this version. `StratumServer.Stop`: nothing calls it.
- `PooledLineBuffer`'s `forceNewLine`: no caller sets it.
- Failures of the native blob conversion inside `CreateWorkerJob`, and the second
  attempt of `ConvertBlob` with a larger buffer.
