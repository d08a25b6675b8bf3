---------------------------- MODULE Orchestrator ----------------------------
(***************************************************************************)
(* Pull and executeFill (internal/orchestrator/orchestrator.go) for one    *)
(* cache key, run by any number of concurrent requests on any number of    *)
(* nodes that share a metadata database, a lock service and an object      *)
(* store.  Two keys share no state, so one key is the whole protocol.      *)
(*                                                                         *)
(* A request is a process.  pc[r] names the call it makes next; each call  *)
(* to the database, the coordinator, the upstream or the object store is   *)
(* one action, and what the code decides between two calls belongs to the  *)
(* action before it.  A request slot that has returned is used again.      *)
(***************************************************************************)
EXTENDS MetadataStore

CONSTANTS NoNode,            \* no holder: the lock key does not exist
          Providers,         \* which of the two BlobStores the nodes may use
          Req,               \* request slots (concurrent calls of Pull)
          FaultKinds,        \* which faults the environment may inject
          MaxFaults,         \* bound: how many of them in one behaviour
          LocksOutliveFills  \* FALSE: the 5 minute lock may expire under a fill

\* "fetch"  the upstream request fails      "store"  Reader or Writer fails
\* "copy"   the stream breaks midway        "commit" closing the upload fails
\* "meta"   a SQL statement fails           "coord"  a Valkey command fails
\* "crash"  a node dies                     "cancel" a client disconnects
AllFaults == {"fetch", "store", "copy", "commit", "meta", "coord", "crash", "cancel"}

ASSUME NodeAssumption == NoNode \notin Node
ASSUME ProviderAssumption == Providers \subseteq {"s3", "gcs"}
ASSUME FaultAssumption == FaultKinds \subseteq AllFaults /\ MaxFaults \in Nat
ASSUME LockAssumption == LocksOutliveFills \in BOOLEAN

VARIABLES
    rec,      \* the row of the key in Postgres
    object,   \* the object in the bucket: none, a partial or the whole artifact
    lock,     \* the value of the lock key in Valkey (a node id)
    status,   \* whether <key>:status exists in Valkey
    pc,       \* the next call of each request
    node,     \* the node that serves the request
    live,     \* the request's context is not cancelled
    body,     \* what the fill goroutine of the request has copied
    up,       \* the nodes that run; a restarted process has a new identity
    provider, \* storage.provider: the BlobStore of all nodes
    faults    \* how many faults have happened

store   == <<rec, object>>
coord   == <<lock, status>>
session == <<node, live, body>>
env     == <<up, provider, faults>>
vars    == <<rec, object, lock, status, pc, node, live, body, up, provider, faults>>

\* Between AcquireLock returning true and the lock being released.
HoldingPc == {"recheck", "drop", "upsert", "fetch", "size", "writer", "recordFailure",
              "releaseFailed", "copy", "markReady", "markError", "signal", "release"}

PcNames == HoldingPc \cup {"idle", "lookup", "open", "demote", "wait", "waiting", "deaf",
                           "acquire", "signalFailed", "commit"}

Holding(r) == pc[r] \in HoldingPc

Init == /\ rec = NoRecord
        /\ object = "none"
        /\ lock = NoNode
        /\ status = FALSE
        /\ pc = [r \in Req |-> "idle"]
        /\ node = [r \in Req |-> NoNode]
        /\ live = [r \in Req |-> TRUE]
        /\ body = [r \in Req |-> "none"]
        /\ up = Node
        /\ provider \in Providers
        /\ faults = 0
-----------------------------------------------------------------------------
(* How a request moves, and how a call fails.                              *)

At(r, p) == pc[r] = p

Goto(r, p) == /\ pc' = [pc EXCEPT ![r] = p]
              /\ UNCHANGED session

Leave(r) == /\ pc' = [pc EXCEPT ![r] = "idle"]
            /\ node' = [node EXCEPT ![r] = NoNode]
            /\ live' = [live EXCEPT ![r] = TRUE]
            /\ body' = [body EXCEPT ![r] = "none"]

Strike(kind) == /\ kind \in FaultKinds
                /\ faults < MaxFaults
                /\ faults' = faults + 1
                /\ UNCHANGED <<up, provider>>

\* A call under the request's context fails because the client has gone ...
Abandoned(r) == ~live[r] /\ UNCHANGED env

\* ... or because the peer failed it.
Refused(r, kind) == live[r] /\ Strike(kind)

Fails(r, kind) == Abandoned(r) \/ Refused(r, kind)

\* A statement that returned an error may have been applied; one issued under
\* a cancelled context is not sent.
RowAfterError(r, row) == rec' \in (IF live[r] THEN {rec, row} ELSE {rec})

LockAfterError(r, holder) == lock' \in (IF live[r] THEN {lock, holder} ELSE {lock})

\* ReleaseLock deletes the key only when it holds the caller's node id.
Unlocked(r) == IF lock = node[r] THEN NoNode ELSE lock

\* Mutant: the status is set and nothing is published.
AnnounceSilently(r, p) ==
    /\ status' = TRUE
    /\ pc' = [pc EXCEPT ![r] = p]
    /\ UNCHANGED lock

\* SignalReady sets <key>:status and publishes, in one script; every request
\* whose subscription is active returns from WaitForReady.
Announce(r, p) ==
    /\ status' = TRUE
    /\ pc' = [q \in Req |-> IF q = r THEN p
                            ELSE IF pc[q] = "waiting" THEN "lookup" ELSE pc[q]]
    /\ UNCHANGED lock
-----------------------------------------------------------------------------
(* Pull.                                                                   *)

Pull(r) == \E n \in up : /\ At(r, "idle")
                         /\ pc' = [pc EXCEPT ![r] = "lookup"]
                         /\ node' = [node EXCEPT ![r] = n]
                         /\ UNCHANGED <<store, coord, live, body, env>>

\* GetRecord, then the switch on the record's state.
MayFill(r) == \/ rec.state = "missing"
              \/ rec.state = "filling" /\ (rec.owner = node[r] \/ ~rec.fresh)
              \/ rec.state = "error" /\ ~rec.cooling

FilledElsewhere(r) == rec.state = "filling" /\ rec.owner # node[r] /\ rec.fresh

CoolingDown == rec.state = "error" /\ rec.cooling

Lookup(r) == /\ At(r, "lookup") /\ live[r]
             /\ \/ rec.state = "ready"  /\ Goto(r, "open")
                \/ FilledElsewhere(r)   /\ Goto(r, "wait")
                \/ MayFill(r)           /\ Goto(r, "acquire")
                \/ CoolingDown          /\ Leave(r)
             /\ UNCHANGED <<store, coord, env>>

LookupFails(r) == /\ At(r, "lookup")
                  /\ Fails(r, "meta")
                  /\ Leave(r)
                  /\ UNCHANGED <<store, coord>>

\* What storage.Reader reports as ErrKeyNotFound: the GCS store returns its
\* library's error, which Pull takes for any other failure.
KeyNotFound == object = "none" /\ provider = "s3"

\* A cache hit: the stream, or another error, is returned.
OpenObject(r) == /\ At(r, "open") /\ live[r]
                 /\ IF KeyNotFound THEN Goto(r, "demote") ELSE Leave(r)
                 /\ UNCHANGED <<store, coord, env>>

OpenFails(r) == /\ At(r, "open")
                /\ Fails(r, "store")
                /\ Leave(r)
                /\ UNCHANGED <<store, coord>>

Demote(r) == /\ At(r, "demote") /\ live[r]
             /\ rec' = DemoteToFilling(rec, node[r])
             /\ Goto(r, "acquire")
             /\ UNCHANGED <<object, coord, env>>

DemoteFails(r) == /\ At(r, "demote")
                  /\ Fails(r, "meta")
                  /\ RowAfterError(r, DemoteToFilling(rec, node[r]))
                  /\ Leave(r)
                  /\ UNCHANGED <<object, coord>>

\* WaitForReady: subscribe, and only then look whether <key>:status exists.
Subscribe(r) == /\ At(r, "wait") /\ live[r]
                /\ Goto(r, IF status THEN "lookup" ELSE "waiting")
                /\ UNCHANGED <<store, coord, env>>

\* The error of EXISTS is ignored (the subscription still works) and so is that
\* of Receive, at once or while the request waits (nothing will wake it).
SubscribeFails(r) == /\ pc[r] \in {"wait", "waiting"}
                     /\ Refused(r, "coord")
                     /\ \E p \in {"waiting", "deaf"} : Goto(r, p)
                     /\ UNCHANGED <<store, coord>>

\* The other arm of WaitForReady's select: ctx.Done().
StopWaiting(r) == /\ pc[r] \in {"wait", "waiting", "deaf"}
                  /\ Abandoned(r)
                  /\ Leave(r)
                  /\ UNCHANGED <<store, coord>>

\* Mutant: SET without NX.
AcquireWithoutNX(r) == /\ At(r, "acquire") /\ live[r]
                       /\ lock' = node[r]
                       /\ Goto(r, "recheck")
                       /\ UNCHANGED <<store, status, env>>

\* SET key node NX PX 300000.
Acquire(r) == /\ At(r, "acquire") /\ live[r]
              /\ \/ lock = NoNode /\ lock' = node[r] /\ Goto(r, "recheck")
                 \/ lock # NoNode /\ UNCHANGED lock  /\ Goto(r, "lookup")
              /\ UNCHANGED <<store, status, env>>

AcquireFails(r) == /\ At(r, "acquire")
                   /\ Fails(r, "coord")
                   /\ LockAfterError(r, IF lock = NoNode THEN node[r] ELSE lock)
                   /\ Leave(r)
                   /\ UNCHANGED <<store, status>>

\* Mutant: the record is not looked up again under the lock.
RecheckSkipped(r) == /\ At(r, "recheck") /\ live[r]
                     /\ Goto(r, "upsert")
                     /\ UNCHANGED <<store, coord, env>>

\* The second GetRecord, under the lock: only READY is looked for.
Recheck(r) == /\ At(r, "recheck") /\ live[r]
              /\ Goto(r, IF rec.state = "ready" THEN "drop" ELSE "upsert")
              /\ UNCHANGED <<store, coord, env>>

RecheckFails(r) == /\ At(r, "recheck")
                   /\ Fails(r, "meta")
                   /\ Goto(r, "drop")
                   /\ UNCHANGED <<store, coord>>

\* ReleaseLock under the request's context; its error is only logged.  Pull
\* then returns an error or whatever storage.Reader returns.
Drop(r) == /\ At(r, "drop") /\ live[r]
           /\ lock' = Unlocked(r)
           /\ Leave(r)
           /\ UNCHANGED <<store, status, env>>

DropFails(r) == /\ At(r, "drop")
                /\ Fails(r, "coord")
                /\ LockAfterError(r, Unlocked(r))
                /\ Leave(r)
                /\ UNCHANGED <<store, status>>
-----------------------------------------------------------------------------
(* executeFill, up to the start of the fill goroutine.                     *)

Upsert(r) == /\ At(r, "upsert") /\ live[r]
             /\ rec' = UpsertRecord(node[r])
             /\ Goto(r, "fetch")
             /\ UNCHANGED <<object, coord, env>>

UpsertFails(r) == /\ At(r, "upsert")
                  /\ Fails(r, "meta")
                  /\ RowAfterError(r, UpsertRecord(node[r]))
                  /\ Goto(r, "releaseFailed")
                  /\ UNCHANGED <<object, coord>>

\* The response may or may not carry a positive Content-Length.
Fetch(r) == /\ At(r, "fetch") /\ live[r]
            /\ \E p \in {"size", "writer"} : Goto(r, p)
            /\ UNCHANGED <<store, coord, env>>

FetchFails(r) == /\ At(r, "fetch")
                 /\ Fails(r, "fetch")
                 /\ Goto(r, "recordFailure")
                 /\ UNCHANGED <<store, coord>>

RecordSize(r) == /\ At(r, "size") /\ live[r]
                 /\ rec' = UpdateSizeBytes(rec)
                 /\ Goto(r, "writer")
                 /\ UNCHANGED <<object, coord, env>>

RecordSizeFails(r) == /\ At(r, "size")
                      /\ Fails(r, "meta")
                      /\ RowAfterError(r, UpdateSizeBytes(rec))
                      /\ Goto(r, "writer")
                      /\ UNCHANGED <<object, coord>>

\* S3 starts a multipart upload under the request's context; GCS makes no call.
OpenWriter(r) == /\ At(r, "writer")
                 /\ live[r] \/ provider = "gcs"
                 /\ Goto(r, "copy")
                 /\ UNCHANGED <<store, coord, env>>

OpenWriterFails(r) == /\ At(r, "writer") /\ provider = "s3"
                      /\ Fails(r, "store")
                      /\ Goto(r, "recordFailure")
                      /\ UNCHANGED <<store, coord>>

\* IncrementFailure under the request's context: it fails whenever the fetch
\* failed because the client had gone.
RecordFailure(r) == /\ At(r, "recordFailure") /\ live[r]
                    /\ rec' = IncrementFailure(rec)
                    /\ Goto(r, "releaseFailed")
                    /\ UNCHANGED <<object, coord, env>>

RecordFailureFails(r) == /\ At(r, "recordFailure")
                         /\ Fails(r, "meta")
                         /\ RowAfterError(r, IncrementFailure(rec))
                         /\ Goto(r, "releaseFailed")
                         /\ UNCHANGED <<object, coord>>

\* releaseLock uses context.Background() and runs once: no second attempt.
ReleaseAs(r, p) == /\ \/ lock' = Unlocked(r) /\ UNCHANGED env
                      \/ lock' \in {lock, Unlocked(r)} /\ Strike("coord")
                   /\ Goto(r, p)
                   /\ UNCHANGED <<store, status>>

\* Mutant: the early return forgets the lock.
ReleaseFailedSkipped(r) == /\ At(r, "releaseFailed")
                           /\ Goto(r, "signalFailed")
                           /\ UNCHANGED <<store, coord, env>>

ReleaseFailed(r) == At(r, "releaseFailed") /\ ReleaseAs(r, "signalFailed")

\* SignalReady under the request's context, then Pull returns the error.
SignalFailed(r) == /\ At(r, "signalFailed")
                   /\ \/ live[r] /\ Announce(r, "idle") /\ UNCHANGED env
                      \/ Refused(r, "coord") /\ Announce(r, "idle")
                      \/ Fails(r, "coord")
                            /\ pc' = [pc EXCEPT ![r] = "idle"] /\ UNCHANGED coord
                   /\ node' = [node EXCEPT ![r] = NoNode]
                   /\ live' = [live EXCEPT ![r] = TRUE]
                   /\ UNCHANGED <<store, body>>
-----------------------------------------------------------------------------
(* The fill goroutine.  Its metadata and coordination calls use a context  *)
(* without cancellation; the response body and the storage writer were     *)
(* opened under the request's context and fail with it.                    *)

\* Mutant: the failed copy is counted where it is noticed, and once more below.
CopyFailsCounted(r) == /\ At(r, "copy")
                       /\ Fails(r, "copy")
                       /\ rec' = IncrementFailure(rec)
                       /\ body' = [body EXCEPT ![r] = "partial"]
                       /\ pc' = [pc EXCEPT ![r] = "markError"]
                       /\ UNCHANGED <<object, coord, node, live>>

\* io.Copy from the response body to the client's pipe and the writer.
Copy(r) == /\ At(r, "copy") /\ live[r]
           /\ body' = [body EXCEPT ![r] = "whole"]
           /\ pc' = [pc EXCEPT ![r] = "markReady"]
           /\ UNCHANGED <<store, coord, node, live, env>>

CopyFails(r) == /\ At(r, "copy")
                /\ Fails(r, "copy")
                /\ body' = [body EXCEPT ![r] = "partial"]
                /\ pc' = [pc EXCEPT ![r] = "markError"]
                /\ UNCHANGED <<store, coord, node, live>>

\* A detached statement: it succeeds, or fails and may have been applied.
Write(row) == \/ rec' = row /\ UNCHANGED env
              \/ rec' \in {rec, row} /\ Strike("meta")

MarkReady(r) == /\ At(r, "markReady")
                /\ Write(SetReady(rec))
                /\ Goto(r, "signal")
                /\ UNCHANGED <<object, coord>>

MarkError(r) == /\ At(r, "markError")
                /\ Write(IncrementFailure(rec))
                /\ Goto(r, "signal")
                /\ UNCHANGED <<object, coord>>

Signal(r) == /\ At(r, "signal")
             /\ \/ Announce(r, "release") /\ UNCHANGED env
                \/ Announce(r, "release") /\ Strike("coord")
                \/ pc' = [pc EXCEPT ![r] = "release"] /\ UNCHANGED coord /\ Strike("coord")
             /\ UNCHANGED <<store, session>>

\* The deferred calls run last in, first out: releaseLock, sw.Close, pw.Close,
\* body.Close.
Release(r) == At(r, "release") /\ ReleaseAs(r, "commit")

\* Mutant: the writer is never closed, so the upload is never completed.
CommitForgotten(r) == /\ At(r, "commit") /\ live[r]
                      /\ Leave(r)
                      /\ UNCHANGED <<store, coord, env>>

\* sw.Close commits what was written, whether or not the copy succeeded.
Commit(r) == /\ At(r, "commit") /\ live[r]
             /\ object' = body[r]
             /\ Leave(r)
             /\ UNCHANGED <<rec, coord, env>>

CommitFails(r) == /\ At(r, "commit")
                  /\ Fails(r, "commit")
                  /\ object' \in (IF live[r] THEN {object, body[r]} ELSE {object})
                  /\ Leave(r)
                  /\ UNCHANGED <<rec, coord>>
-----------------------------------------------------------------------------
(* The environment.                                                        *)

\* The client disconnects, which cancels the context of its request.
Cancel(r) == /\ pc[r] # "idle" /\ live[r]
             /\ Strike("cancel")
             /\ live' = [live EXCEPT ![r] = FALSE]
             /\ UNCHANGED <<store, coord, pc, node, body>>

\* The process dies with its requests and its goroutines; an upload that was
\* not completed leaves no object.
Crash(n) == /\ n \in up
            /\ "crash" \in FaultKinds /\ faults < MaxFaults
            /\ faults' = faults + 1
            /\ up' = up \ {n}
            /\ pc' = [r \in Req |-> IF node[r] = n THEN "idle" ELSE pc[r]]
            /\ node' = [r \in Req |-> IF node[r] = n THEN NoNode ELSE node[r]]
            /\ live' = [r \in Req |-> IF node[r] = n THEN TRUE ELSE live[r]]
            /\ body' = [r \in Req |-> IF node[r] = n THEN "none" ELSE body[r]]
            /\ UNCHANGED <<store, coord, provider>>

\* 15 seconds pass since updated_at: nothing renews it during a fill.
FillGoesStale == /\ rec.state = "filling"
                 /\ rec.fresh
                 /\ rec' = [rec EXCEPT !.fresh = FALSE]
                 /\ UNCHANGED <<object, coord, pc, session, env>>

CooldownElapses == /\ rec.state = "error"
                   /\ rec.cooling
                   /\ rec' = [rec EXCEPT !.cooling = FALSE]
                   /\ UNCHANGED <<object, coord, pc, session, env>>

\* PX 300000.  With LocksOutliveFills the five minutes are longer than any
\* critical section, and only a lock nobody will release expires.
LockExpires == /\ lock # NoNode
               /\ LocksOutliveFills => \A r \in Req : ~Holding(r)
               /\ lock' = NoNode
               /\ UNCHANGED <<store, status, pc, session, env>>

\* EX 3600.  The hour is longer than the time between GetRecord and EXISTS.
StatusExpires == /\ status
                 /\ \A r \in Req : ~At(r, "wait")
                 /\ status' = FALSE
                 /\ UNCHANGED <<store, lock, pc, session, env>>
-----------------------------------------------------------------------------
Step(r) == \/ Lookup(r) \/ LookupFails(r) \/ OpenObject(r) \/ OpenFails(r)
           \/ Demote(r) \/ DemoteFails(r) \/ Subscribe(r) \/ SubscribeFails(r)
           \/ StopWaiting(r) \/ Acquire(r) \/ AcquireFails(r)
           \/ Recheck(r) \/ RecheckFails(r) \/ Drop(r) \/ DropFails(r)
           \/ Upsert(r) \/ UpsertFails(r) \/ Fetch(r) \/ FetchFails(r)
           \/ RecordSize(r) \/ RecordSizeFails(r) \/ OpenWriter(r) \/ OpenWriterFails(r)
           \/ RecordFailure(r) \/ RecordFailureFails(r)
           \/ ReleaseFailed(r) \/ SignalFailed(r)
           \/ Copy(r) \/ CopyFails(r) \/ MarkReady(r) \/ MarkError(r)
           \/ Signal(r) \/ Release(r) \/ Commit(r) \/ CommitFails(r)

Next == \/ \E r \in Req : Pull(r) \/ Step(r) \/ Cancel(r)
        \/ \E n \in Node : Crash(n)
        \/ FillGoesStale \/ CooldownElapses \/ LockExpires \/ StatusExpires

Spec == Init /\ [][Next]_vars

\* Every request that can take a step takes one: goroutines are scheduled and
\* every call returns, with a result or an error.  Nothing is assumed of the
\* arrival of requests, of faults or of the clocks.
FairSpec == Spec /\ \A r \in Req : WF_vars(Step(r))
-----------------------------------------------------------------------------
(* Properties.                                                             *)

\* The variables keep their types: the row is a row of cache_records or none,
\* an idle slot has no node, a busy one runs on a node.
TypeOK == /\ rec \in Record \cup {NoRecord}
          /\ object \in {"none", "partial", "whole"}
          /\ lock \in Node \cup {NoNode}
          /\ status \in BOOLEAN
          /\ pc \in [Req -> PcNames]
          /\ node \in [Req -> Node \cup {NoNode}]
          /\ live \in [Req -> BOOLEAN]
          /\ body \in [Req -> {"none", "partial", "whole"}]
          /\ up \subseteq Node
          /\ provider \in Providers
          /\ faults \in 0..MaxFaults
          /\ \A r \in Req : pc[r] = "idle" <=> node[r] = NoNode

\* At most one request of the cluster is between AcquireLock and ReleaseLock,
\* whatever calls fail, nodes die or clients leave, two requests of one node
\* (which share the lock's value) included.
SingleFlight == \A r, q \in Req : Holding(r) /\ Holding(q) => r = q

\* coordinator.go:9-10: "ensuring only one node performs an upstream fetch for
\* a specific key at a time".
Fetching(r) == pc[r] \in {"fetch", "size", "writer", "copy"}

OneUpstreamFetch == \A r, q \in Req : Fetching(r) /\ Fetching(q) => r = q

\* metadata.go:99-100: SizeBytes is never out of sync with the READY state. No
\* late size hint and no retry overwrites the size of a published record.
ReadySizeIsFinal == rec.state = "ready" => rec.size = "final"

\* The record, the lock and the requests together implement the cache entry: a
\* single leader, a fill never starts from READY, only the leader publishes or
\* fails a fill, and READY is withdrawn only by a request that saw it.
Reading(r) == pc[r] \in {"open", "demote"}

Entry == INSTANCE CacheEntry WITH phase <- rec.state,
                                  leaders <- {r \in Req : Holding(r)},
                                  readers <- {r \in Req : Reading(r)}

ImplementsEntry == Entry!Spec

\* The requests wait as WaitForReady and SignalReady promise: a request whose
\* subscription works is let out by the next announcement, wherever it is made.
Latched(r) == IF pc[r] \in {"wait", "waiting", "deaf"} THEN pc[r] ELSE "out"

Latch == INSTANCE ReadyLatch WITH latch <- status,
                                  phase <- [r \in Req |-> Latched(r)],
                                  Waiter <- Req

ImplementsLatch == Latch!Spec

\* While uploads are neither interrupted nor refused, a READY record has its
\* whole object, or the fill that published it is about to commit it.
UploadsComplete == FaultKinds \cap {"copy", "commit", "crash", "cancel"} = {}

Publishing(r) == pc[r] \in {"signal", "release", "commit"} /\ body[r] = "whole"

ReadyIsBacked == UploadsComplete /\ rec.state = "ready" =>
                    object = "whole" \/ \E r \in Req : Publishing(r)

\* When every request has returned, no lock is left behind and no record is
\* left in FILLING (upstream and storage failures only).
QuietIsSettled == (\A r \in Req : pc[r] = "idle") =>
                     lock = NoNode /\ rec.state # "filling"

\* Before the outcome of the fill is in the record, and between that and the
\* announcement of it.
FillPc == {"fetch", "size", "writer", "recordFailure", "copy", "markReady", "markError"}

Announcing(r) == pc[r] \in {"signal", "releaseFailed", "signalFailed"}

\* The request sees to it that a FILLING record is filled: it fills it, or is on
\* its way to the lock for a record that bears its node's name.
Owed(r) == \/ pc[r] \in FillPc \cup {"recheck", "upsert"}
           \/ pc[r] \in {"acquire", "lookup"} /\ node[r] = rec.owner

\* No request waits for nobody: while one is subscribed, another is at work on
\* the fill or about to announce its end, in whatever order GetRecord, SUBSCRIBE,
\* EXISTS, the end of the fill and the expiry of the status key come.
WaitersAreServed == (\E r \in Req : At(r, "waiting")) =>
                       \E q \in Req : Announcing(q) \/ (rec.state = "filling" /\ Owed(q))

\* orchestrator.go:147-154: the cooldown doubles with each failure of failure_count.
\* No path counts one failure twice, and none carries a count over to the next
\* fill: however many fills fail in a row, the column never exceeds one.
FailuresNeverAddUp == rec.state # "missing" => rec.failures <= 1

\* Every Pull returns: no waiter misses its wake-up, and the loops through a
\* taken lock, a leftover status key or a missing object come to an end.
Returns(r) == pc[r] # "idle" ~> pc[r] = "idle"

EveryPullReturns == \A r \in Req : Returns(r)

\* metadata.go:19: StateReady "indicates the artifact is stored and valid for
\* serving": stored ...
ReadyIsStored == rec.state = "ready" => object # "none"

\* ... and valid: the whole object of a READY record is never replaced by what
\* an interrupted transfer had written.
ServedObjectStaysWhole ==
    [][rec.state = "ready" /\ object = "whole" => object' # "partial"]_vars

\* orchestrator.go:156: "If last error is unset or cooldown expired, allow
\* retry": no fill begins inside the cooldown of a failure.
RetriesAfterCooldown ==
    [][\A r \in Req : At(r, "upsert") /\ pc'[r] = "fetch" => ~CoolingDown]_vars

\* metadata.go:66-69: FailureCount counts consecutive failed fills and is
\* cleared by SetReady: nothing else lowers it.
FailuresClearedByReady ==
    [][rec.state # "missing" /\ rec.failures > 0 /\ rec'.failures = 0
          => rec'.state = "ready"]_vars
=============================================================================
