----------------------------- MODULE FillStream -----------------------------
(***************************************************************************)
(* The way of an artifact through one node: the semaphore of the upstream  *)
(* fetcher (internal/upstream/fetcher.go), the response body, the pipe     *)
(* that joins the fill goroutine to the handler of the request that leads  *)
(* the fill (internal/orchestrator/orchestrator.go,                        *)
(* internal/transport/http/router.go), the client, and the storage writer. *)
(*                                                                         *)
(* A fill f is a request for a key of its own; the race of several         *)
(* requests for one key is the subject of Orchestrator.  Two goroutines    *)
(* serve it: the handler, which runs Pull and then copies the pipe to the  *)
(* client (h[f]), and the one that fills (pc[f]; before the fill goroutine *)
(* is started, pc[f] is where the handler is inside Pull).                 *)
(*                                                                         *)
(* The body is a number of chunks.  A chunk is what one Read returns and   *)
(* one Write to the pipe hands over; that the handler may need several     *)
(* reads for it, and holds back the first 64 bytes to look at them, delays *)
(* what the client sees and nothing else.                                  *)
(***************************************************************************)
EXTENDS Integers, Sequences, FiniteSets, SequencesExt

CONSTANTS Fill,           \* the requests that may lead a fill
          MaxConcurrent,  \* upstream.max_concurrent: the semaphore's size
          Chunks,         \* the length of each fill's artifact
          MaxFaults       \* bound: calls that fail, clients that stall

ASSUME FillAssumption == IsFiniteSet(Fill)
ASSUME SizeAssumption == MaxConcurrent \in Nat
ASSUME StreamAssumption == Chunks \in [Fill -> Nat] /\ MaxFaults \in Nat

VARIABLES
    provider,  \* storage.provider: which store the node writes to
    open,      \* the node's clients that are not closed
    free,      \* the slots of the semaphore that nobody holds
    queue,     \* the calls of Acquire that wait, in the order they arrived
    pc,        \* the next step of the fill
    h,         \* the handler: none, pull, read, write, or how it returned
    client,    \* the client reads, has stalled, or has left
    live,      \* the request's context is not cancelled
    given,     \* chunks handed to the handler
    stored,    \* chunks written to the storage writer
    record,    \* the state of the fill's row
    locked,    \* the distributed lock of the fill's key is held
    object,    \* what closing the writer reported
    reported,  \* the writes of a fill, to its row or its lock, whose failure was logged
    faults     \* how many faults have happened

node    == <<provider, open>>
sem     == <<free, queue>>
request == <<h, client, live>>
data    == <<given, stored>>
shared  == <<record, locked, object, reported>>
svars   == <<provider, open, free, queue, pc, h, client, live, given, stored,
             record, locked, object, reported, faults>>

Clients == {"db", "valkey", "storage"}

\* Between Acquire returning nil, or being granted, and the release.
SlotPc == {"granted", "request", "writer", "read", "pipe", "store", "markReady",
           "markError", "unlock", "commit", "endStream", "closeBody"}

FillPc == SlotPc \cup {"idle", "pull", "acquire", "queued", "recordFailure", "giveUp", "done"}

HasSlot(f) == pc[f] \in SlotPc

\* The handler has a connection the server counts as active.
Active(f) == h[f] \in {"pull", "read", "write"}

\* How a handler returned: with a response that is not the stream of a fill, at
\* the end of the pipe, or because a write to the client failed.
Returned == {"answered", "ended", "broken"}

NothingArrived ==
    /\ free = MaxConcurrent
    /\ queue = <<>>
    /\ pc = [f \in Fill |-> "idle"]
    /\ h = [f \in Fill |-> "none"]
    /\ client = [f \in Fill |-> "reading"]
    /\ live = [f \in Fill |-> TRUE]
    /\ given = [f \in Fill |-> 0]
    /\ stored = [f \in Fill |-> 0]
    /\ record = [f \in Fill |-> "none"]
    /\ locked = [f \in Fill |-> FALSE]
    /\ object = [f \in Fill |-> "none"]
    /\ reported = [f \in Fill |-> {}]
    /\ faults = 0

\* A node that has started: its clients are open.
StreamInit == /\ provider \in {"s3", "gcs"}
              /\ open = Clients
              /\ NothingArrived
-----------------------------------------------------------------------------
(* How a fill moves, and how a call fails.                                 *)

At(f, p) == pc[f] = p

Goto(f, p) == pc' = [pc EXCEPT ![f] = p]

Strike == faults < MaxFaults /\ faults' = faults + 1

\* A call under the request's context: cancelled, or failed by the peer.
Fails(f) == \/ ~live[f] /\ UNCHANGED faults
            \/ live[f] /\ Strike

\* The handler returns, and the server cancels the request's context.
Return(f, how) == /\ h' = [h EXCEPT ![f] = how]
                  /\ live' = [live EXCEPT ![f] = FALSE]
                  /\ UNCHANGED client

\* sem.Release(1): the slot goes to the call that waits longest, or is free.
ReleaseSlot(f, p) ==
    \/ /\ queue = <<>>
       /\ free' = free + 1
       /\ Goto(f, p)
       /\ UNCHANGED queue
    \/ /\ queue # <<>>
       /\ queue' = Tail(queue)
       /\ pc' = [pc EXCEPT ![f] = p, ![Head(queue)] = "granted"]
       /\ UNCHANGED free

\* A call without the request's context: the node has closed the client, or the
\* peer fails.
CallFails(c) == \/ c \notin open /\ UNCHANGED faults
                \/ c \in open /\ Strike

\* What a call that failed leaves of a write: nothing, or, when only the answer was
\* lost, all of it.
HalfDone(c, before, after) == IF c \in open THEN {before, after} ELSE {before}

\* The error of a call is logged, and nothing else comes of it.
Report(f, what) == reported' = [reported EXCEPT ![f] = @ \cup {what}]

\* SetReady or IncrementFailure: one attempt.
MarkAs(f, s) ==
    \/ /\ "db" \in open
       /\ record' = [record EXCEPT ![f] = s]
       /\ UNCHANGED <<reported, faults>>
    \/ /\ CallFails("db")
       /\ record' \in HalfDone("db", record, [record EXCEPT ![f] = s])
       /\ Report(f, "row")

\* releaseLock: one attempt under a context of its own.
FreeLock(f) ==
    \/ /\ "valkey" \in open
       /\ locked' = [locked EXCEPT ![f] = FALSE]
       /\ UNCHANGED <<reported, faults>>
    \/ /\ CallFails("valkey")
       /\ locked' \in HalfDone("valkey", locked, [locked EXCEPT ![f] = FALSE])
       /\ Report(f, "lock")
-----------------------------------------------------------------------------
(* The request and Pull, up to the lock.                                   *)

Arrive(f) == /\ At(f, "idle")
             /\ Goto(f, "pull")
             /\ h' = [h EXCEPT ![f] = "pull"]
             /\ UNCHANGED <<node, sem, client, live, data, shared, faults>>

\* Pull returns without a fill (a stored artifact, a wait that ended in one, an
\* error), and the handler has answered.
PullReturns(f) == /\ At(f, "pull")
                  /\ Goto(f, "done")
                  /\ Return(f, "answered")
                  /\ UNCHANGED <<node, sem, data, shared, faults>>

\* AcquireLock, the lookup under the lock and the upsert have succeeded.
Lead(f) == /\ At(f, "pull") /\ live[f]
           /\ {"db", "valkey"} \subseteq open
           /\ Goto(f, "acquire")
           /\ locked' = [locked EXCEPT ![f] = TRUE]
           /\ record' = [record EXCEPT ![f] = "filling"]
           /\ UNCHANGED <<node, sem, request, data, object, reported, faults>>

\* AcquireLock has failed but was carried out, or the ReleaseLock with which Pull
\* leaves after the lookup under the lock has: both run under the request's
\* context, and are tried once.
LockLost(f) == /\ At(f, "pull") /\ "valkey" \in open
               /\ Fails(f)
               /\ locked' = [locked EXCEPT ![f] = TRUE]
               /\ Report(f, "lock")
               /\ Goto(f, "done")
               /\ Return(f, "answered")
               /\ UNCHANGED <<node, sem, data, record, object>>

\* UpsertRecord has failed; the row may be there.
UpsertFails(f) == /\ At(f, "pull") /\ {"db", "valkey"} \subseteq open
                  /\ Fails(f)
                  /\ locked' = [locked EXCEPT ![f] = TRUE]
                  /\ record' \in HalfDone("db", record, [record EXCEPT ![f] = "filling"])
                  /\ Report(f, "row")
                  /\ Goto(f, "giveUp")
                  /\ UNCHANGED <<node, sem, request, data, object>>
-----------------------------------------------------------------------------
(* Fetch, and the rest of executeFill up to the fill goroutine.            *)

\* sem.Acquire with a context that is done fails even if a slot is free.
AcquireRefused(f) == /\ At(f, "acquire") /\ ~live[f]
                     /\ Goto(f, "recordFailure")
                     /\ UNCHANGED <<node, sem, request, data, shared, faults>>

\* Mutant: the semaphore does not count.
AcquireUnchecked(f) == /\ At(f, "acquire") /\ live[f]
                       /\ queue = <<>>
                       /\ free' = free - 1
                       /\ Goto(f, "request")
                       /\ UNCHANGED <<node, queue, request, data, shared, faults>>

\* A call never overtakes those that wait.
Acquire(f) == /\ At(f, "acquire") /\ live[f]
              /\ free > 0 /\ queue = <<>>
              /\ free' = free - 1
              /\ Goto(f, "request")
              /\ UNCHANGED <<node, queue, request, data, shared, faults>>

Enqueue(f) == /\ At(f, "acquire") /\ live[f]
              /\ free = 0 \/ queue # <<>>
              /\ queue' = Append(queue, f)
              /\ Goto(f, "queued")
              /\ UNCHANGED <<node, free, request, data, shared, faults>>

StopWaiting(f) == /\ At(f, "queued") /\ ~live[f]
                  /\ \E i \in DOMAIN queue : queue[i] = f /\ queue' = RemoveAt(queue, i)
                  /\ Goto(f, "recordFailure")
                  /\ UNCHANGED <<node, free, request, data, shared, faults>>

Granted(f) == /\ At(f, "granted") /\ live[f]
              /\ Goto(f, "request")
              /\ UNCHANGED <<node, sem, request, data, shared, faults>>

\* Mutant: the slot is kept by the call that was cancelled as it was granted.
GrantKept(f) == /\ At(f, "granted") /\ ~live[f]
                /\ Goto(f, "recordFailure")
                /\ UNCHANGED <<node, sem, request, data, shared, faults>>

\* The slot came when the context was already done: it is put back.
GrantedTooLate(f) == /\ At(f, "granted") /\ ~live[f]
                     /\ ReleaseSlot(f, "recordFailure")
                     /\ UNCHANGED <<node, request, data, shared, faults>>

Request(f) == /\ At(f, "request") /\ live[f]
              /\ Goto(f, "writer")
              /\ UNCHANGED <<node, sem, request, data, shared, faults>>

\* Mutant: the error path returns without sem.Release.
RequestFailsKeepingSlot(f) ==
    /\ At(f, "request")
    /\ Fails(f)
    /\ Goto(f, "recordFailure")
    /\ UNCHANGED <<node, sem, request, data, shared>>

\* client.Do fails, or the status is 400 or above.
RequestFails(f) == /\ At(f, "request")
                   /\ Fails(f)
                   /\ ReleaseSlot(f, "recordFailure")
                   /\ UNCHANGED <<node, request, data, shared>>

\* storage.Writer: S3 starts a multipart upload, GCS makes no call.  Then the
\* fill goroutine starts and the handler begins to read the pipe.
OpenWriter(f) == /\ At(f, "writer")
                 /\ live[f] \/ provider = "gcs"
                 /\ Goto(f, "read")
                 /\ h' = [h EXCEPT ![f] = "read"]
                 /\ UNCHANGED <<node, sem, client, live, data, shared, faults>>

\* The body is closed, which returns the slot, before the failure is recorded.
OpenWriterFails(f) == /\ At(f, "writer") /\ provider # "gcs"
                      /\ Fails(f)
                      /\ ReleaseSlot(f, "recordFailure")
                      /\ UNCHANGED <<node, request, data, shared>>

\* IncrementFailure under the request's context.
RecordFailure(f) == /\ At(f, "recordFailure")
                    /\ \/ live[f] /\ MarkAs(f, "error")
                       \/ ~live[f] /\ Report(f, "row") /\ UNCHANGED <<record, faults>>
                    /\ Goto(f, "giveUp")
                    /\ UNCHANGED <<node, sem, request, data, locked, object>>

\* Mutant: the error path returns without releaseLock.
GiveUpLocked(f) == /\ At(f, "giveUp")
                   /\ Goto(f, "done")
                   /\ Return(f, "answered")
                   /\ UNCHANGED <<node, sem, data, shared, faults>>

\* releaseLock and SignalReady; Pull returns the error and the handler answers.
GiveUp(f) == /\ At(f, "giveUp")
             /\ FreeLock(f)
             /\ Goto(f, "done")
             /\ Return(f, "answered")
             /\ UNCHANGED <<node, sem, data, record, object>>
-----------------------------------------------------------------------------
(* The fill goroutine: io.Copy from the body to the pipe, then the writer. *)

\* The body is read under the request's context, but what is buffered can still
\* be read after it was cancelled.
ReadChunk(f) == /\ At(f, "read") /\ given[f] < Chunks[f]
                /\ Goto(f, "pipe")
                /\ UNCHANGED <<node, sem, request, data, shared, faults>>

BodyEnds(f) == /\ At(f, "read") /\ given[f] = Chunks[f]
               /\ Goto(f, "markReady")
               /\ UNCHANGED <<node, sem, request, data, shared, faults>>

\* Mutant: the error of io.Copy is not looked at.
ReadErrorIgnored(f) == /\ At(f, "read")
                       /\ Fails(f)
                       /\ Goto(f, "markReady")
                       /\ UNCHANGED <<node, sem, request, data, shared>>

\* Mutant: a broken body is requested again, with the slot and the pipe kept.
ReadRetried(f) == /\ At(f, "read")
                  /\ Fails(f)
                  /\ Goto(f, "request")
                  /\ UNCHANGED <<node, sem, request, data, shared>>

\* The upstream breaks off, the client's timeout for the whole exchange ends,
\* or the context is cancelled.
ReadFails(f) == /\ At(f, "read")
                /\ Fails(f)
                /\ Goto(f, "markError")
                /\ UNCHANGED <<node, sem, request, data, shared>>

\* pw.Write and pr.Read meet: the pipe has no buffer.
HandOver(f) == /\ At(f, "pipe") /\ h[f] = "read"
               /\ given' = [given EXCEPT ![f] = @ + 1]
               /\ Goto(f, "store")
               /\ h' = [h EXCEPT ![f] = "write"]
               /\ UNCHANGED <<node, sem, client, live, stored, shared, faults>>

\* Mutant: stream.Close is called at the end of the copy and not deferred.
PipeClosedAtEnd(f) == /\ At(f, "pipe") /\ h[f] = "ended"
                      /\ Goto(f, "markError")
                      /\ UNCHANGED <<node, sem, request, data, shared, faults>>

\* The handler has closed its end: pw.Write fails, and the MultiWriter does not
\* go on to the storage writer.
PipeBroken(f) == /\ At(f, "pipe") /\ h[f] \in Returned
                 /\ Goto(f, "markError")
                 /\ UNCHANGED <<node, sem, request, data, shared, faults>>

StoreChunk(f) == /\ At(f, "store")
                 /\ stored' = [stored EXCEPT ![f] = @ + 1]
                 /\ Goto(f, "read")
                 /\ UNCHANGED <<node, sem, request, given, shared, faults>>

\* The GCS writer reports an error from Write; the S3 writer never does.
StoreFails(f) == /\ At(f, "store") /\ provider = "gcs"
                 /\ \/ Fails(f)
                    \/ "storage" \notin open /\ UNCHANGED faults
                 /\ Goto(f, "markError")
                 /\ UNCHANGED <<node, sem, request, data, shared>>

\* SetReady and SignalReady, in a context without cancellation.
MarkReady(f) == /\ At(f, "markReady")
                /\ MarkAs(f, "ready")
                /\ Goto(f, "unlock")
                /\ UNCHANGED <<node, sem, request, data, locked, object>>

\* Mutant: a copy that ended with the request's context is not taken for a failure.
MarkErrorWhileLive(f) == /\ At(f, "markError")
                         /\ \/ live[f] /\ MarkAs(f, "error")
                            \/ ~live[f] /\ UNCHANGED <<record, reported, faults>>
                         /\ Goto(f, "unlock")
                         /\ UNCHANGED <<node, sem, request, data, locked, object>>

MarkError(f) == /\ At(f, "markError")
                /\ MarkAs(f, "error")
                /\ Goto(f, "unlock")
                /\ UNCHANGED <<node, sem, request, data, locked, object>>
-----------------------------------------------------------------------------
(* Its deferred calls: releaseLock, sw.Close, pw.Close, body.Close.        *)

\* Mutant: the pipe is closed first, and the writer last.
UnlockAndEnd(f) == /\ At(f, "unlock")
                   /\ FreeLock(f)
                   /\ Goto(f, "endStream")
                   /\ UNCHANGED <<node, sem, request, data, record, object>>

Unlock(f) == /\ At(f, "unlock")
             /\ FreeLock(f)
             /\ Goto(f, "commit")
             /\ UNCHANGED <<node, sem, request, data, record, object>>

\* Mutant: the writer is not closed.
CommitForgotten(f) == /\ At(f, "commit") /\ live[f]
                      /\ Goto(f, "endStream")
                      /\ UNCHANGED <<node, sem, request, data, shared, faults>>

\* sw.Close commits what was written, whether or not the body was whole.  A GCS
\* writer whose Write has failed (stored < given) only repeats the error.
Commit(f) == /\ At(f, "commit") /\ live[f]
             /\ provider = "gcs" => "storage" \in open /\ stored[f] = given[f]
             /\ object' = [object EXCEPT ![f] = IF stored[f] = Chunks[f] THEN "whole" ELSE "part"]
             /\ Goto(f, "endStream")
             /\ UNCHANGED <<node, sem, request, data, record, locked, reported, faults>>

\* Both writers work under the request's context.
CommitFails(f) == /\ At(f, "commit")
                  /\ \/ Fails(f)
                     \/ /\ provider = "gcs" /\ UNCHANGED faults
                        /\ "storage" \notin open \/ stored[f] < given[f]
                  /\ object' = [object EXCEPT ![f] = "failed"]
                  /\ Goto(f, "endStream")
                  /\ UNCHANGED <<node, sem, request, data, record, locked, reported>>

\* pw.Close: the handler reads the end of the stream, whatever happened.
EndStream(f) == /\ At(f, "endStream")
                /\ Goto(f, "closeBody")
                /\ UNCHANGED <<node, sem, request, data, shared, faults>>

CloseBody(f) == /\ At(f, "closeBody")
                /\ ReleaseSlot(f, "done")
                /\ UNCHANGED <<node, request, data, shared, faults>>
-----------------------------------------------------------------------------
(* The handler's copy of the pipe to the client, and the client.           *)

\* A write to a client that has left may still succeed.
Send(f) == /\ h[f] = "write" /\ client[f] # "stalled"
           /\ h' = [h EXCEPT ![f] = "read"]
           /\ UNCHANGED <<node, sem, pc, client, live, data, shared, faults>>

\* The deferred stream.Close closes the handler's end of the pipe.
SendFails(f) == /\ h[f] = "write" /\ client[f] = "left"
                /\ Return(f, "broken")
                /\ UNCHANGED <<node, sem, pc, data, shared, faults>>

StreamEnds(f) == /\ h[f] = "read" /\ pc[f] \in {"closeBody", "done"}
                 /\ Return(f, "ended")
                 /\ UNCHANGED <<node, sem, pc, data, shared, faults>>

\* The server sees the connection close and cancels the request's context.
Disconnect(f) == /\ Active(f) /\ client[f] # "left"
                 /\ client' = [client EXCEPT ![f] = "left"]
                 /\ live' = [live EXCEPT ![f] = FALSE]
                 /\ UNCHANGED <<node, sem, pc, h, data, shared, faults>>

\* The client keeps the connection and stops to read: the server has no limit
\* for the time of a write.
Stall(f) == /\ Active(f) /\ client[f] = "reading"
            /\ Strike
            /\ client' = [client EXCEPT ![f] = "stalled"]
            /\ UNCHANGED <<node, sem, pc, h, live, data, shared>>
-----------------------------------------------------------------------------
\* The handler inside Pull, and the fill goroutine.
FillStep(f) == \/ PullReturns(f) \/ Lead(f) \/ LockLost(f) \/ UpsertFails(f)
               \/ AcquireRefused(f) \/ Acquire(f) \/ Enqueue(f) \/ StopWaiting(f)
               \/ Granted(f) \/ GrantedTooLate(f)
               \/ Request(f) \/ RequestFails(f) \/ OpenWriter(f) \/ OpenWriterFails(f)
               \/ RecordFailure(f) \/ GiveUp(f)
               \/ ReadChunk(f) \/ BodyEnds(f) \/ ReadFails(f)
               \/ HandOver(f) \/ PipeBroken(f) \/ StoreChunk(f) \/ StoreFails(f)
               \/ MarkReady(f) \/ MarkError(f)
               \/ Unlock(f) \/ Commit(f) \/ CommitFails(f) \/ EndStream(f) \/ CloseBody(f)

\* The handler once Pull has returned the pipe.
HandlerStep(f) == Send(f) \/ SendFails(f) \/ StreamEnds(f)

ClientStep(f) == Disconnect(f) \/ Stall(f)

StreamStep == \E f \in Fill : FillStep(f) \/ HandlerStep(f) \/ ClientStep(f)

StreamNext == StreamStep \/ \E f \in Fill : Arrive(f)

StreamSpec == StreamInit /\ [][StreamNext]_svars
-----------------------------------------------------------------------------
(* Properties.                                                             *)

\* The variables keep their types.
StreamTypeOK ==
    /\ open \subseteq Clients
    /\ free \in Nat
    /\ queue \in Seq(Fill)
    /\ pc \in [Fill -> FillPc]
    /\ h \in [Fill -> {"none", "pull", "read", "write"} \cup Returned]
    /\ client \in [Fill -> {"reading", "stalled", "left"}]
    /\ live \in [Fill -> BOOLEAN]
    /\ given \in [Fill -> Nat]
    /\ stored \in [Fill -> Nat]
    /\ record \in [Fill -> {"none", "filling", "ready", "error"}]
    /\ locked \in [Fill -> BOOLEAN]
    /\ object \in [Fill -> {"none", "part", "whole", "failed"}]
    /\ reported \in [Fill -> SUBSET {"row", "lock"}]
    /\ faults \in 0..MaxFaults

\* fetcher.go:157-158: the slot "is returned to the pool only when the data has
\* been fully consumed or the stream closed".  Whichever path a fetch takes, a
\* slot is returned once: none is lost, none is returned twice, and no call
\* waits while one is free.
SlotsBalanced == /\ free + Cardinality({f \in Fill : HasSlot(f)}) = MaxConcurrent
                 /\ queue # <<>> => free = 0

\* A record becomes READY only when the client's pipe and the storage writer
\* were both given every chunk, whatever failed on the way.
PublishedIsWhole == \A f \in Fill : record[f] = "ready" =>
                        given[f] = Chunks[f] /\ stored[f] = Chunks[f]

\* The client sees the end of the stream only after the upload was decided: by
\* the order of the deferred calls the context that Commit needs ends after it,
\* and not with the response.
EndAfterCommit == \A f \in Fill : h[f] = "ended" => object[f] # "none"

\* The pipe ends in the same way for a whole artifact and for a broken one
\* (orchestrator.go:325), so the row alone tells them apart: by then it is decided,
\* and as ERROR whenever a chunk has missed the client or the writer, or the log
\* says that it could not be written (orchestrator.go:358-370).
EndIsRecorded == \A f \in Fill : h[f] = "ended" /\ "row" \notin reported[f] =>
    /\ record[f] \in {"ready", "error"}
    /\ given[f] < Chunks[f] \/ stored[f] < Chunks[f] => record[f] = "error"

\* When no call failed and no client was closed, a stream that was read to its
\* end by a client that stayed has left the whole object behind, a READY record
\* and no lock.
StreamedIsStored == \A f \in Fill :
    h[f] = "ended" /\ client[f] # "left" /\ faults = 0 /\ open = Clients =>
        object[f] = "whole" /\ record[f] = "ready" /\ ~locked[f]

\* orchestrator.go:160-263, 310-382: whichever of its paths a request took, and
\* whatever failed on it, it is not over with its lock held or its row FILLING
\* unless the write that would have changed this has failed and said so.  Where no
\* call failed, only a client that left before the stream began costs such a write.
DoneIsSettled == \A f \in Fill : At(f, "done") =>
    /\ locked[f] => "lock" \in reported[f]
    /\ record[f] = "filling" => "row" \in reported[f]
    /\ reported[f] # {} /\ faults = 0 /\ open = Clients => client[f] = "left" /\ h[f] = "answered"

\* The goroutine of f is in a call that returns by itself, or its handler is.
Busy(f) == \/ pc[f] \in FillPc \ {"idle", "queued", "pipe", "done"}
           \/ At(f, "queued") /\ ~live[f] /\ \E i \in DOMAIN queue : queue[i] = f
           \/ At(f, "pipe") /\ h[f] \in {"read"} \cup Returned
           \/ At(f, "done") /\ h[f] = "read"
           \/ h[f] = "write" /\ client[f] # "stalled"

\* It waits for the one thing without a limit, a client that has stopped to read.
HeldUp(f) == h[f] = "write" /\ client[f] = "stalled"

\* The goroutine, the handler, the queue of the semaphore and the pipe never wait
\* for one another in a circle: a request that is not over moves, waits for its
\* own client, or is in the queue behind a fetch of which one of these is true.
NobodyWaitsInVain == \A f \in Fill : pc[f] \notin {"idle", "done"} \/ Active(f) =>
    \/ Busy(f) \/ HeldUp(f)
    \/ /\ \E i \in DOMAIN queue : queue[i] = f
       /\ MaxConcurrent > 0 => \E g \in Fill : HasSlot(g) /\ (Busy(g) \/ HeldUp(g))

\* How far a request is from its end: the chunks it has not handed over, where its
\* goroutine is, and where its handler is.
Stage == [p \in FillPc |->
    CASE p = "idle" -> 17    [] p = "pull" -> 16   [] p = "acquire" -> 15
      [] p = "queued" -> 14  [] p = "granted" -> 13 [] p = "request" -> 12
      [] p = "writer" -> 11  [] p = "recordFailure" -> 10 [] p = "giveUp" -> 9
      [] p = "store" -> 8    [] p = "read" -> 7    [] p = "pipe" -> 6
      [] p \in {"markReady", "markError"} -> 5     [] p = "unlock" -> 4
      [] p = "commit" -> 3   [] p = "endStream" -> 2
      [] p = "closeBody" -> 1 [] p = "done" -> 0]

HandlerStage == [s \in {"none", "pull", "read", "write"} \cup Returned |->
    CASE s = "none" -> 4 [] s = "pull" -> 3 [] s = "write" -> 2 [] s = "read" -> 1
      [] s \in Returned -> 0]

Distance(f) == 8 * (Chunks[f] - given[f]) + Stage[pc[f]] + HandlerStage[h[f]]

\* No path of a request goes back: every step of its goroutine or its handler
\* brings it nearer to its end, and no step of another request moves it away, so
\* that it makes at most 8 * Chunks[f] + 21 of them however it fails.
EveryMoveCounts == [][\A f \in Fill :
    /\ pc'[f] # pc[f] \/ h'[f] # h[f] => Distance(f)' < Distance(f)
    /\ Distance(f)' \in 0..Distance(f)]_svars
=============================================================================
