# Verification of Latent

Latent is a cluster of stateless nodes that fetch artifacts from upstream HTTP
servers once, store them in an object store and serve them from there. The
nodes share three services: a Postgres table with one row per cache key, a
Valkey server with one lock and one "ready" signal per key, and a bucket. This
directory holds TLA+ models of the parts of it that coordinate, the TLC runs
that check them and TLAPS proofs about them.

## 1. Inventory

| Component | State | Operations | What makes it correct |
|---|---|---|---|
| Orchestrator (`internal/orchestrator`) | none of its own but the node id and the TTL map; goroutines of Pull and of running fills | `Pull`, `executeFill`, fill goroutine | one fill at a time per key; READY means a whole object; a failure starts a cooldown; every Pull returns; nothing left behind |
| Metadata store (`internal/metadata/postgres`) | one row per key | `GetRecord`, `UpsertRecord`, `UpdateSizeBytes`, `SetReady`, `IncrementFailure`, `DemoteToFilling` (`UpdateState`, `DeleteRecord` have no caller) | each statement atomic; size in step with READY; failures counted until success |
| Coordinator (`internal/coordinator/valkey`) | lock key with TTL, `<key>:status` with TTL, subscriptions | `AcquireLock`, `ReleaseLock`, `WaitForReady`, `SignalReady` | exclusion; no lost wake-up; a waiter is woken by this fill, not by an old one |
| S3 writer (`internal/storage/s3`) | buffer, channel of parts, WaitGroup, part list, error, the multipart upload | `Write`, `Close`, uploader goroutine | all of the stream or nothing; calls return; goroutine ends |
| GCS store (`internal/storage/gcs`) | none | client library calls | same interface; it hides a missing object, so READY is never withdrawn |
| Upstream fetcher (`internal/upstream`) | weighted semaphore with its queue | `Fetch`, body `Close` | slots never leak, never returned twice; nobody waits for a free one |
| HTTP transport (`internal/transport/http`) | the copy of a stream to its client | `HandleFetch` | the end of the stream comes after the commit |
| Cache key, TTLs (`orchestrator/utils.go`, `params.go`) | map of TTLs | `GenerateCacheKey`, `SetDomainTTL`, `getTTLForURL` | equivalent URLs have one key; what a key does not tell |
| Application (`internal/app`) | clients, server | start, drain, close | clients are open during service, closed on every return; drained fills are not cut off; a signal ends the process |
| Configuration (`internal/config`), CLI | none | `Load`, `validateConfig`, root command | which file is read, what is accepted |
| Logger, generated docs | - | - | not protocol code |

How they interact: The root command loads the configuration and runs the application, which opens
the clients and serves until a signal. `HandleFetch` calls `Pull` under the
request's context.
`Pull` reads the row and serves from the bucket (READY), waits on the
coordinator (FILLING elsewhere), refuses (ERROR inside the cooldown) or takes
the lock. The lock's holder writes the row as FILLING, fetches, and starts a
goroutine that copies the body to the client's pipe and to the storage writer;
the goroutine sets READY or ERROR, signals, releases the lock and closes the
writer, which commits the upload. The goroutine's metadata and Valkey calls run
under a context without cancellation; the body and the writer do not.

The hard behaviours: several nodes and several requests of one node on one key;
records that change between two calls; locks and leases that end by time; node
crashes; calls that fail after they were applied; clients that disconnect; the
order of deferred calls; a mutex held across a blocking send; one semaphore for
all keys of a node; a shutdown that waits for connections and not for the
goroutines behind them. `PROJECT.json`
lists each hazard at its line with the properties about it.

## 2. Modules

| Module | Models |
|---|---|
| `MetadataStore` | the row of a key, and each SQL statement as a function on rows |
| `Orchestrator` | `Pull`, `executeFill` and the fill goroutine for one key, with the lock, the signal, the object and the environment |
| `CacheEntry` | abstract: a lifecycle phase, at most one leader, and the readers that saw it ready |
| `MCOrchestrator` | instances for TLC: sets of failures, symmetry |
| `ReadySignal` | `WaitForReady`, goroutine by goroutine, and `SignalReady` for one key |
| `ReadyLatch` | abstract: a latch, and the calls that wait for it |
| `MCReadySignal` | an instance for TLC |
| `S3Writer` | the multipart writer and its uploader |
| `BlobWriter` | abstract: what `storage.BlobStore` promises of a writer |
| `MCS3Writer` | instances for TLC |
| `FillStream` | the fetches of one node: semaphore, upstream body, pipe, handler, client, writer |
| `Config` | operators: the file `Load` reads and the settings it accepts |
| `Lifecycle` | the process: start, service, signals, drain, deferred closes, over `FillStream` |
| `MCLifecycle` | an instance for TLC |
| `CacheKey` | operators: the cache key of a URL, and the TTL of a host |
| `MetadataStoreProofs`, `OrchestratorProofs`, `ReadySignalProofs`, `S3WriterProofs`, `FillStreamProofs`, `LifecycleProofs`, `FillEndProofs`, `CacheKeyProofs` | theorems |

`Orchestrator` EXTENDS `MetadataStore`; `CacheEntry` and `BlobWriter` are
instantiated by refinement mappings in `Orchestrator` and `S3Writer`, the
second also for each fill of a node in `FillEndProofs`.
`ReadyLatch` is what joins `Orchestrator` and `ReadySignal`: the detailed
goroutines implement it, and the requests of `Orchestrator` use
`WaitForReady` through no more than what it allows. `Lifecycle` EXTENDS
`FillStream` and `Config`: its requests are the steps of `FillStream`, allowed
while the process runs, and its closes change the clients those steps use.
`Orchestrator` is one key on many nodes, `FillStream` many keys on one node:
the first has the races for the row and the lock, the second what the fills of
a node share and what happens between two chunks. The writer appears in `Orchestrator` as two steps, `Copy` and `Commit`; that a
commit is all or nothing is what `S3Writer` shows. Operators named "Mutant: ..."
in a comment are deliberate bugs, used by no specification; each property is
shown to fail when one of them takes the place of the definition next to it.

### Orchestrator

Keys share no state, so one key is the protocol. A process `r \in Req` is a
slot for a request: `pc[r]` names the next call it makes to the database, the
coordinator, the upstream or the store, and one action is that call with
everything decided on its result. A slot that returned can be used again, by any
node that is up. `Pull`'s loop is `lookup -> open | wait | acquire | (return)`;
a fill is `recheck -> upsert -> fetch -> size -> writer`, then the goroutine
`copy -> markReady | markError -> signal -> release -> commit`. Each call has a
second action for its failure (`UpsertFails`, ...).

* A failure is either the cancelled context (`~live[r]`, free of charge once the
  client has gone) or an injected fault of a kind in `FaultKinds`, at most
  `MaxFaults` in a behaviour. A call that returned an error may have been
  applied (`RowAfterError`, `LockAfterError`, `Write`, the signal, the commit);
  one under a cancelled context is not sent.
* Time is four Booleans that flip on their own: `fresh` (15 s since
  `updated_at`), `cooling` (the cooldown of ERROR), the expiry of the lock (5
  min) and of the status key (1 h). Under `LocksOutliveFills` a held lock does
  not expire; the run `orch_lock_expiry` and the theorem's hypothesis mark what
  depends on it. The status key does not expire between the lookup and `EXISTS`.
* `WaitForReady` is one atomic "subscription active, then EXISTS" step and a
  wait that a signal ends. A failing `Receive`, whose error is dropped, leads to
  `deaf`: only the end of the request's context ends that wait. `ReadySignal`
  has the steps inside.
* `provider` is chosen once. With S3 a READY record whose object is missing is
  demoted; the GCS reader returns its library's error (`KeyNotFound`), and the
  GCS writer needs no call to open.
* `getStorageReaderWithRetry`'s five attempts are one step; the object is
  `none`, `partial` (what a broken copy had written) or `whole`. What
  `storage.Reader` returns after the lookup under the lock reaches the client
  only, so that path is `Drop`.
* A crash removes the node for good: a restarted process has a new random node
  id (`generateNodeID`), so it is another member of `Node`.

### ReadySignal

A call `w \in Waiter` has a caller in the select (`wpc`), the goroutine that
runs `Receive` (`recv`) and the one the subscription hook starts to ask `EXISTS`
(`hook`). `signal` is the channel of one place; `mail` says that a message is on
its way to the subscription, and one message is as good as several, since the
callback's send does not block. The server sends to a subscription from the
moment it executed `SUBSCRIBE` (`active`), before the client knows (`Confirm`).
`Receive` runs under a context that ends with the call, `EXISTS` under the
caller's. `Phase` is what an observer at the server sees of a call: undecided
(`wait`) until `EXISTS` was answered, then `waiting`, `out`, or `deaf` when
`Receive` failed. `seen` and `over` record which fill a caller saw and which
signalled last; no action of the code reads them. A client that reconnects
within `Receive` is not modelled: a connection that breaks ends `Receive`.

### S3Writer

Bytes are counted: `written` and `cut` delimit the buffer, and each part is the
interval of the stream that was copied. `chunks` keeps all parts ever sent and
`taken` how many were received, so the channel is what lies between. The mutex
is held from a call of `Write` or `Close` to the end of its sends; the
uploader's `Number` and `ListPart` need it. `wg` is a counter, as in the code,
and `TypeOK` says what it must be. The writer starts after
`CreateMultipartUpload` succeeded; a failure there is `OpenWriterFails` of
`Orchestrator`.

### FillStream

A fill `f` is a request for a key of its own that may come to lead its fill.
`h[f]` is the handler (in `Pull`, reading the pipe, writing to the client, or
how it returned), `pc[f]` the next step of `Pull` and `executeFill` and then of
the goroutine, `client[f]` the client, `live[f]` the request's context, which
ends when the client leaves or the handler returns. `Acquire`, `Enqueue`,
`StopWaiting`, `Granted`, `GrantedTooLate` and `ReleaseSlot` are the weighted
semaphore of `golang.org/x/sync` as `Fetch` uses it: first come first served,
and a waiter that is granted a slot when its context is done gives it back.
Data are chunks: one chunk is read (`ReadChunk`), handed to the reader of the
pipe, which has no buffer (`HandOver`), and then written to the storage writer
(`StoreChunk`), as `io.MultiWriter` does. The end of the goroutine follows the
deferred calls: `Unlock`, `Commit`, `EndStream`, `CloseBody`. What others may
do to the row and the lock is in `Orchestrator`, so `record` and `locked` are
those of this fill alone. Any of its calls on them may fail while the client is
open (`MarkAs`, `FreeLock`, `LockLost`, `UpsertFails`), before or after it was
carried out; the code tries each once, logs the error and goes on, and
`reported[f]` has what was logged so. A `Write` of the storage returns: that the S3 writer
does not when more than `Cap + 1` parts outrun the upload is the run
`s3_backpressure`. Holding back 64 bytes to sniff them only delays the client.

### Lifecycle and Config

`phase` is where the root command and `Application.Run` are. `Load` picks a
command line, an environment, a state of the file system and settings for which
`Config` says that `config.Load` succeeds, and `LoadFails` one for which it
fails. The provider keeps its spelling, since `validateConfig` compares it in
lower case and `initBlobStore` does not. Every failure of a client's
initialisation goes to the deferred closes of those opened before (`closeDB`,
`closeValkey`). A signal counts from the end of `Load` (`stop`); `PingContext`
fails after it, the other two may or may not. `Drain` is `srv.Shutdown`: no more
arrivals, and it ends when no handler is active (`Drained`) or after five
seconds (`GraceEnds`, which sets `cut`). The goroutines run on until the process
ends; a closed database or Valkey fails their calls (`MarkAs`, `FreeLock`), a
closed GCS client its writes, a closed S3 client does not exist.

### CacheKey

A URL is what `url.Parse` returns: scheme, opaque text, host with its capitals
and port, the escaped path, and the pairs of the query, well formed or not. The
key is the text that is hashed, a concatenation of tokens (the signs `/`, `:`,
`?`, and what stands between them), so that it has to be shown, and is not
assumed, which URLs it tells apart. SHA-256 and the escaping of
`url.Values.Encode` are taken to be injective. What a request asks for is said
without the code's normalisation: the host and port the client connects to, the
path of the request line, the parameters. The query that counts is
the one in the URL passed to `Pull`; the handler passes `c.Param("path")`, which
has none of the request's own query.

## 3. Runs

All use model values for nodes and requests.

| Run | Result | What it shows |
|---|---|---|
| `orch_safety` | holds | 3 requests, 2 nodes, S3 or GCS, every kind of failure, any 2 of them: types, `SingleFlight`, `ReadySizeIsFinal`, `FailuresNeverAddUp` (the upsert of each retry clears the count, so it never passes one), and `ImplementsEntry` (one leader; no fill starts from READY; only the leader publishes or fails; READY is withdrawn only by a request that saw it) and `ImplementsLatch` (a waiting request is let out by the next signal, or has lost its subscription) |
| `orch_liveness` | holds | same sizes, one failure of the upstream or of the store, fairness: `FirstPullReturns`, `QuietIsSettled`, `ReadyIsBacked`, `WaitersAreServed` (a request that waits is owed a signal by somebody) |
| `orch_ready_stored` | violated | no failure: READY and signalled before the upload is committed |
| `orch_ready_valid` | violated | one broken stream: a truncated upload, committed after the lock was released, replaces the good object of a later fill |
| `orch_cooldown` | violated | the lookup under the lock ignores an ERROR that appeared meanwhile, and fetches inside the cooldown |
| `orch_failure_count` | violated | the upsert of a retry clears the failure count, so the cooldown never grows |
| `orch_lock_expiry` | violated | without `LocksOutliveFills` two nodes fetch at once |
| `signal_wait` | holds | 2 calls, 2 fills, 1 failed command, fairness: `ImplementsLatch`, `SignalUnblocks` (a call whose commands succeeded hears every signal), `SignalIsNotMissed` (at every moment there is a way for it to hear it), `GoroutinesEnd` |
| `signal_stale` | violated | no failure: the second fill of a key within the hour; the waiter returns for the status key of the first |
| `s3_writer` | holds | streams of up to `Cap + 1` parts and up to 2 failed S3 calls: all or nothing, order, calls return, the uploader ends; `OnlyMutualWait` (the circular wait of `s3_backpressure` is the only way to get stuck) and `EveryStepCounts` (each step leads to the return of the call and the end of the uploader) |
| `s3_backpressure` | violated | one more part than `Cap + 1` and no failure: `Write` waits for the channel with the mutex, the uploader for the mutex |
| `node` | holds | one node, two fills, one slot, one failure or stalled client, disconnects and a signal at any time: `SlotsBalanced`, `PublishedIsWhole`, `EndAfterCommit`, `EndIsRecorded` (the record tells a whole artifact from a broken one, as the end of the stream does not, unless its statement failed and was logged), `StreamedIsStored`, `ClientsBracketService`, `DoneIsSettled` (a request that is over leaves a lock or a FILLING row only where the call that should have changed it failed and was logged), `GracefulStop` (a complete drain leaves no call of a client that stayed, and no lock or FILLING row but such a one), `NobodyWaitsInVain` (goroutines, handlers, queue and pipe never wait in a circle), `BusyMoves` (what counts as busy there has a step), `EveryMoveCounts` (each step leads to the end) and `ComesToRest` (a signal ends the process and, unless a client stalls for ever, every request and its fill end) |

The violated runs state a sentence of a comment of the code (quoted above the
property and in `PROJECT.json`), and the trace is a behaviour of the code. They
are disagreements between the comments and the code; the passing runs and the
theorems say what does hold.

**Bounds.** Two nodes and three requests give two requests of one node (they
share the lock's value) next to one of another, a leader with a waiter and with
a request that is late. Slots are reused, so behaviours have any number of
requests and fills. Two failures let a second one hit the handling of the first
(a failed fill whose release fails too, a crash after a lost reply). In
`s3_writer` the channel holds 3 parts of 2 bytes and writes have 1 or 3 bytes:
a write that fills no part, one that fills one and leaves a rest, two in a row
that fill two parts in one call; streams of 0 to 8 bytes end on and off a part
boundary. `CHECK_DEADLOCK FALSE` where the code may stop: all three slots can
be left waiting for a lost signal, and a writer ends.

In `node` the second fill waits for the slot of the first, so every path that
returns a slot is one a waiter depends on. One artifact has two chunks, so that
a client can leave or stall between them with the next one in the pipe, the other
is empty; a body that breaks off may do so before any chunk. The one fault is a
failed call anywhere, those on the row and the lock included, or a client that
stalls, next to any number of disconnects,
failed starts and signals, which are not counted. A fill that has ended is not
used again: what a slot's history leaves behind is `free` and `queue` alone. A
slot granted too late and passed on to a third fill needs three of them: that
branch of `ReleaseSlot` is covered by the theorems.

In `signal_wait` one call waits while the other meets
the same signal at another point of its subscription; slots are reused, so a
call also meets what an earlier one left; the second fill makes the status key
old; one failure hits `Receive` or `EXISTS` (both failing is a call the code
promises nothing to).

**Fairness.** `FairSpec` of `Orchestrator` asks for weak fairness of each
request's steps: goroutines are scheduled and calls return, with a result or
with an error. Arrivals, failures, clocks and disconnects are not fair. Liveness
is checked with failures of the upstream and the store only: with lost signals, crashes or failing
subscriptions the code does not promise that a waiter is woken, as it waits
without a timeout. `FairSpec` of `ReadySignal` asks that the three goroutines of
a call are scheduled and that the server answers, not that a fill ends, that it
signals, or that a client stays or leaves. `FairSpec` of `S3Writer` asks the same of the two goroutines;
the caller need not call `Write` or `Close` again. `FairSpec` of `Lifecycle` asks
that `Run` and each request are scheduled, that calls return (the clients have
time limits for dialing, headers and the whole exchange) and that the five
seconds pass; nothing is asked of signals, arrivals, failures or clients, so
one that stalls may stall for ever: the server has no write timeout.

## 4. Proofs

For every number of nodes, requests and failures (`OrchestratorProofs`), from
the named assumptions on the constants and, where marked, `LocksOutliveFills`:

* `TypeCorrect`: the type invariant, inductive as it stands.
* `SingleFlightCorrect` (*), `OneUpstreamFetchCorrect` (*): from `LockInv`, "a
  request between AcquireLock and ReleaseLock is the only one, and the lock
  holds its node". The second part is what makes the first inductive: a release
  compares node ids, so it could delete the lock of another request of the same
  node if two could be inside.
* `ReadySizeCorrect` (*): from `FillInv`: the leader about to upsert sees a
  record that is not READY, and from the upsert until it records the outcome
  the record is FILLING, so no size hint can hit a READY row.
* `EntryImplemented` (*): every step is a step of `CacheEntry` or a stutter,
  from the two invariants. A crash is `Quit` of all the node's requests; a
  demotion is the step of a reader, so the upsert of a fill can only be
  `StartFill`, whose guard `FillInv` gives.
* `LatchImplemented`: the waiting requests are the calls of `ReadyLatch`; from
  the types alone, and for any failures and expired locks.
* `ReadyIsBackedCorrect` (*): in addition `CleanInv`, which follows the body of
  each fill: without interrupted uploads only whole bodies reach a commit.

* `SettledCorrect`, `QuietIsSettledCorrect` (*), for failures of the upstream
  and the store: `SettledInv`, "a taken lock has its holder, and a FILLING
  record a request that will see to it": the leader until it recorded the
  outcome, or whoever demoted the record, on its way to the lock.
* `WaitersAreServedCorrect` (*), for the same failures: from `WaitInv`, "while a
  request waits, or is about to ask `EXISTS` with no status key, the record is
  FILLING or somebody is on its way to the signal". The record leaves FILLING
  only for an announcement, so each step either lets every such request out or
  keeps this; `SettledInv` then says who fills a FILLING record.
* `FailuresNeverAddUpCorrect` (*), for every failure: `CountInv` says that the
  count is zero while a fill runs, as its upsert cleared it; the one statement
  that raises it ends the fill. So the doubling of the cooldown is never reached,
  for any number of failed fills (the run `orch_failure_count` refutes the
  comment on it).
* `OnlyBrokenStreamsTruncate`: the defect of `orch_ready_valid` has one cause.
  Without a copy that breaks off, by itself or because its client left, no object
  is ever cut short, even when locks expire under their fills.
* `LockUntilCommitIsEnough` (*), for every failure: the same defect seen from the
  other side. In the behaviours where nobody gets the lock while an upload is
  still to be completed (`LockUntilCommit`; `executeFill`'s deferred calls
  release it first), the object of a READY record stays whole, however many
  transfers break off. From `TruncatedInv`: a part of an artifact has its record
  not READY until it is committed, and no other fill is under way by then.
* `RecheckIsEnough` (*), for every failure: the defect of `orch_cooldown` has one
  cause. In the behaviours where the second look at the record, under the lock,
  lets no failure through that is cooling down (`RecheckLooks`), no fill starts
  inside a cooldown. The step this rests on is that nobody but the holder of the
  lock records a failure (`CoolInv`, by `LockInv`).
* `GhostsStayWithGCS` (*): a defect, stated and recorded as a finding. With GCS
  `Reader` does not return `ErrKeyNotFound`, so no request reaches the demotion
  that `metadata.go` and `orchestrator.go:122` have for a missing object, and by
  `FillInv` no other statement meets a READY row but another `SetReady`: such a
  record fails every request for ever.

(*) assumes `LocksOutliveFills`; `orch_lock_expiry` shows it is needed.

For every number of calls, fills and failures (`ReadySignalProofs`):

* `TypeCorrect`, with "no `EXISTS` before the confirmation" as its last conjunct.
* `LatchImplemented`: that conjunct is what the refinement needs. When `EXISTS`
  is answered with no, the subscription is active, so the call is `waiting` and
  the next signal reaches it.
* `SignalIsNotMissedCorrect`: the safety half of `SignalUnblocks`, from "a caller
  in the select has a subscription, or one that failed, until its context ends".
* `FillIsOverCorrect`: the defect of `signal_stale` has one cause. A call that
  begins while no status key of an earlier fill exists (`NoOldStatus`) returns
  only when its fill is over; a fill that removed the key would be enough.

For every capacity, part size, sequence of writes and failures
(`S3WriterProofs`):

* `TypeCorrect`, with the exact value of the WaitGroup and the channel's bound.
* `ObjectIsWholeCorrect` and `BlobImplemented`, from `StreamInv`: the chunks
  sent are consecutive (`SentInv`), without an error the parts listed are the
  chunks received, numbered in order (`ListedInv`), and once the WaitGroup was
  waited for nothing is under way (`FinishInv`).
* `SmallStreamsCorrect`: from "only full parts are sent before the last", a
  blocked send needs `Cap + 1` full parts and more bytes.
* `MemoryIsBoundedCorrect`: what the circular wait is paid for. Whatever fails and
  however long the stream, the bytes written and not yet disposed of are less than
  `Cap + 2` parts between two calls (50 MiB with the 8 places and 5 MiB of
  `s3.go`), and that and the bytes of the `Write` during one. From `PlaceInv`,
  where in the stream each part begins. It is no run's property: `s3_writer` has
  streams that fit in that bound as a whole.
* `OnlyMutualWaitCorrect` and `EveryStepCountsCorrect`: the circular wait of
  `s3_backpressure` is the only way a call or the uploader can get stuck, for a
  stream of any length (from `RestInv`: the uploader ends only when the channel
  is closed and drained), and each step lowers a natural number, `Distance`. So
  with fairness the calls on a small stream return (`SmallStreamsMove`).

For every number of fills, slots (none included), chunks and failures
(`FillStreamProofs`, `LifecycleProofs`, `FillEndProofs`):

* `StreamInv` has the slots (`SlotInv`: free slots and holders add up, a queue
  means that none is free, and each queued call is queued once), the two ends of
  the pipe (`EndsInv`: what the handler can have seen at each step of the
  goroutine), the chunks (`DataInv`) and the undisturbed fill (`CleanInv`). The
  second part of `SlotInv` is what makes the first inductive: a release hands
  the slot to the head of the queue, which must be waiting. Every step of a
  request keeps it, whether the node's clients are open or not, so it is used
  twice: `StreamSafety` for a node that runs for ever, and in `LifecycleProofs`.
* `LifeInv` adds that `Run` opens and closes its clients like a stack, and that
  no handler is active after a drain. From it types, `SlotsBalanced`,
  `PublishedIsWhole`, `EndAfterCommit`, `StreamedIsStored` and
  `ClientsBracketService`.
* `DoneIsSettledAlways`, `EndIsRecordedAlways` and `GracefulStopAlways`, from
  `SettleInv`: in which order a fill decides its row and lets go of the lock and
  the object, each of them done or its error reported; and `LeftInv`: once the
  clients are being closed after a complete drain, only a fill whose client left
  can still have a call to make.
* `NobodyWaitsInVainAlways`, from `QueuedInv`: a call that waits for a slot is in
  the queue, so with `SlotInv` a slot is held by another fill. That fill cannot
  itself be queued, so by `EndsInv` it moves, or its pipe waits for its handler,
  which moves or is held up by its own client.
* `EveryMoveCountsAlways`: `Distance`, a natural number, falls with every step of
  a request's goroutine or handler and no other request raises it. It has at
  most `8 * Chunks[f] + 21` steps. These two are the safety half of
  `ComesToRest`.
* `NoSlotsNoStream`: with `MaxConcurrent = 0`, which `validateConfig` accepts, the
  node serves and no byte of an artifact passes through it.
* `WritersAreBlobs`: under the mapping `Blob(f)` every fill's writer starts and
  steps as `BlobWriter` allows: nothing is written after `Close`, which is called
  at most once. `S3Writer` is proved to implement the same `BlobWriter`.

For every URL (`CacheKeyProofs`):

* `SameRequestSameKey`: neither the capitals of the host, a default port, an
  empty path, the way a space is written, nor a credential makes another key.
* `WhatAKeyTells`: any URL with the key of one that can be fetched names the same
  server, path and parameters. The text of such a key can be taken apart: before
  its only `?`, at the first `:`, and at the first `/` of the path, which the
  host cannot contain (`CutAt`). What a key does not tell, besides credentials,
  the user and the fragment: one slash at the end of the path, a `+` in it from a
  space, and a pair of the query that `u.Query()` drops (a semicolon, a bad
  escape). URLs that cannot be fetched (opaque ones, and those without a scheme
  or a host) may share a key with each other, but not with these.
* `TTLFound`: a TTL is found for the host it was set for unless it was set with
  the scheme's own port.

`MetadataStoreProofs` has the lemmas about the SQL statements. Only model-checked
is liveness (`FirstPullReturns`, `SignalUnblocks`, `GoroutinesEnd`,
`EveryCallReturns`, `UploaderEnds`, `ComesToRest`), of which only
the safety halves above are in the prover's reach, and `BusyMoves`, which speaks
of ENABLED. `CacheKey` is proved about and has no run.

## 5. Not modelled

* A `Receive` of valkey-go that reconnects, where the subscription hook runs
  again and a second `EXISTS` may be under way: `ReadySignal` ends `Receive`
  with its connection.
* The S3 writer and the stream in one state space: `FillStream` takes from
  `S3Writer` that `Close` decides the upload, both are proved to keep to
  `BlobWriter`, and the blocking send is left to `s3_backpressure`.
* A crash and restart of the process in `Lifecycle`: what it leaves in the shared
  services is `Crash` of `Orchestrator`.
* `UpdateState`, `DeleteRecord`, `Exists`, `Delete`, `ListObjects` and
  `fillReadCloser`, which no code under `src/` uses outside tests.
* The override of single settings by the environment and the default values
  (viper), the options handed to the clients, the request log, content sniffing.
* SQL, HTTP, TLS and SDK internals, logging, the `config` subcommand and the
  generated API documentation.
* Time beyond "has elapsed or not": the doubling of the cooldown, the backoff of
  `getStorageReaderWithRetry`, `fresh_until`, which nothing reads back.
