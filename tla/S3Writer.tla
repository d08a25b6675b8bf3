------------------------------ MODULE S3Writer ------------------------------
(***************************************************************************)
(* The multipart writer of internal/storage/s3/s3.go: the fill goroutine   *)
(* calls Write and Close, which cut the stream into parts and send them to *)
(* a bounded channel; a background uploader receives, numbers, uploads and *)
(* lists them.  Both sides take the mutex mu.                              *)
(*                                                                         *)
(* Bytes are counted.  The parts sent so far are kept in `chunks`, each as *)
(* the interval of the stream it copies; the channel holds those from      *)
(* taken + 1 on.  The mutex is held by the caller of Write or Close from   *)
(* its call to the end of its sends, and by the uploader for a single      *)
(* statement at a time, so "free" means that no such call is in progress.  *)
(***************************************************************************)
EXTENDS Integers, Sequences

CONSTANTS Cap,         \* capacity of the tasks channel (8 in the code)
          PartSize,    \* minPartSize (5 MiB in the code)
          WriteSizes,  \* the lengths Write may be called with
          MaxBytes,    \* bound: the length of the stream
          MaxFaults    \* bound: the S3 calls that fail

ASSUME CapAssumption == Cap \in Nat \ {0}
ASSUME PartAssumption == PartSize \in Nat \ {0}
ASSUME WriteAssumption == WriteSizes \subseteq Nat \ {0}
ASSUME BoundAssumption == MaxBytes \in Nat /\ MaxFaults \in Nat

VARIABLES
    wpc,      \* the caller: idle, drain (Write), flush, wait, finish (Close), ok, failed
    written,  \* bytes passed to Write
    cut,      \* bytes moved from the buffer to parts; the buffer is the rest
    chunks,   \* the parts sent to the channel, oldest first
    taken,    \* how many of them the uploader has received
    wg,       \* the WaitGroup's counter
    upc,      \* the uploader: recv, number, put, list, exit
    partNum,  \* the last part number given
    parts,    \* the completed parts
    err,      \* nil, or the error of a failed UploadPart
    upload,   \* the multipart upload: open, completed, aborted
    object,   \* the parts the object was completed with, none if empty
    faults    \* how many calls have failed

caller   == <<wpc, written, cut, chunks>>
uploader == <<taken, upc, partNum, parts, err>>
s3       == <<upload, object, faults>>
vars     == <<wpc, written, cut, chunks, taken, wg, upc, partNum, parts, err,
              upload, object, faults>>

Chunk == [from : Nat, to : Nat]

Part == [num : Nat, chunk : Chunk]

Init == /\ wpc = "idle" /\ written = 0 /\ cut = 0 /\ chunks = <<>>
        /\ taken = 0 /\ wg = 0
        /\ upc = "recv" /\ partNum = 0 /\ parts = <<>> /\ err = "nil"
        /\ upload = "open" /\ object = <<>> /\ faults = 0

MutexFree == wpc \notin {"drain", "flush"}

Queued == Len(chunks) - taken

\* The uploader is between receiving a part and disposing of it.
Working == upc \in {"number", "put", "list"}

Fault == faults < MaxFaults /\ faults' = faults + 1

\* wg.Add(1) and the send, which blocks while the channel is full.
Send(to) == /\ Queued < Cap
            /\ chunks' = Append(chunks, [from |-> cut, to |-> to])
            /\ cut' = to
            /\ wg' = wg + 1
-----------------------------------------------------------------------------
(* Write and Close, called by one goroutine.                               *)

Write(n) == /\ wpc = "idle"
            /\ written + n <= MaxBytes
            /\ written' = written + n
            /\ wpc' = "drain"
            /\ UNCHANGED <<cut, chunks, wg, uploader, s3>>

\* Mutant: the part is one byte short and the byte stays in the buffer.
SendPartShort == /\ wpc = "drain"
                 /\ written - cut >= PartSize
                 /\ Send(cut + PartSize - 1)
                 /\ UNCHANGED <<wpc, written, uploader, s3>>

\* for len(w.buffer) >= minPartSize, with the mutex held.
SendPart == /\ wpc = "drain"
            /\ written - cut >= PartSize
            /\ Send(cut + PartSize)
            /\ UNCHANGED <<wpc, written, uploader, s3>>

WriteReturns == /\ wpc = "drain"
                /\ written - cut < PartSize
                /\ wpc' = "idle"
                /\ UNCHANGED <<written, cut, chunks, wg, uploader, s3>>

Close == /\ wpc = "idle"
         /\ wpc' = "flush"
         /\ UNCHANGED <<written, cut, chunks, wg, uploader, s3>>

\* The rest of the buffer, or a zero-length part for an empty stream; then the
\* mutex is released and the channel closed.
SendLast == /\ wpc = "flush"
            /\ written > cut \/ chunks = <<>>
            /\ Send(written)
            /\ wpc' = "wait"
            /\ UNCHANGED <<written, uploader, s3>>

\* Mutant: Close looks at the parts enqueued and not at the buffer.
NothingLeftUnread == /\ wpc = "flush"
                     /\ chunks # <<>>
                     /\ wpc' = "wait"
                     /\ UNCHANGED <<written, cut, chunks, wg, uploader, s3>>

NothingLeft == /\ wpc = "flush"
               /\ written = cut /\ chunks # <<>>
               /\ wpc' = "wait"
               /\ UNCHANGED <<written, cut, chunks, wg, uploader, s3>>

\* wg.Wait().
Waited == /\ wpc = "wait"
          /\ wg = 0
          /\ wpc' = "finish"
          /\ UNCHANGED <<written, cut, chunks, wg, uploader, s3>>

\* Mutant: the upload is completed without a look at the error.
CompleteRegardless == /\ wpc = "finish"
                      /\ wpc' = "ok"
                      /\ upload' = "completed"
                      /\ object' = parts
                      /\ UNCHANGED <<written, cut, chunks, wg, uploader, faults>>

Complete == /\ wpc = "finish" /\ err = "nil"
            /\ wpc' = "ok"
            /\ upload' = "completed"
            /\ object' = parts
            /\ UNCHANGED <<written, cut, chunks, wg, uploader, faults>>

\* CompleteMultipartUpload returned an error, but S3 may have completed the
\* upload; the abort that follows then finds nothing to abort.  Its own error
\* is dropped.
CompleteFails == /\ wpc = "finish" /\ err = "nil"
                 /\ Fault
                 /\ wpc' = "failed"
                 /\ \/ upload' = "completed" /\ object' = parts
                    \/ upload' \in {"open", "aborted"} /\ UNCHANGED object
                 /\ UNCHANGED <<written, cut, chunks, wg, uploader>>

Abort == /\ wpc = "finish" /\ err # "nil"
         /\ wpc' = "failed"
         /\ \/ upload' = "aborted" /\ UNCHANGED faults
            \/ UNCHANGED upload /\ Fault
         /\ UNCHANGED <<written, cut, chunks, wg, uploader, object>>
-----------------------------------------------------------------------------
(* The background uploader.                                                *)

\* Mutant: a part dropped after an error is not counted down.
ReceiveUncounted == /\ upc = "recv"
                    /\ Queued > 0
                    /\ taken' = taken + 1
                    /\ upc' = IF err # "nil" THEN "recv" ELSE "number"
                    /\ UNCHANGED <<caller, wg, partNum, parts, err, s3>>

\* After an error the remaining parts are received and dropped.
Receive == /\ upc = "recv"
           /\ Queued > 0
           /\ taken' = taken + 1
           /\ IF err # "nil" THEN wg' = wg - 1 /\ UNCHANGED upc
                           ELSE upc' = "number" /\ UNCHANGED wg
           /\ UNCHANGED <<caller, partNum, parts, err, s3>>

\* partNum is increased under the mutex.
Number == /\ upc = "number"
          /\ MutexFree
          /\ partNum' = partNum + 1
          /\ upc' = "put"
          /\ UNCHANGED <<caller, taken, wg, parts, err, s3>>

UploadPart == /\ upc = "put"
              /\ upc' = "list"
              /\ UNCHANGED <<caller, taken, wg, partNum, parts, err, s3>>

\* Mutant: the failed part is not counted down.
UploadPartFailsUncounted == /\ upc = "put"
                            /\ Fault
                            /\ err' = "failed"
                            /\ upc' = "recv"
                            /\ UNCHANGED <<caller, taken, wg, partNum, parts, upload, object>>

\* Mutant: the failed part is numbered and sent again.
UploadPartRetried == /\ upc = "put"
                     /\ upc' = "number"
                     /\ UNCHANGED <<caller, taken, wg, partNum, parts, err, s3>>

UploadPartFails == /\ upc = "put"
                   /\ Fault
                   /\ err' = "failed"
                   /\ wg' = wg - 1
                   /\ upc' = "recv"
                   /\ UNCHANGED <<caller, taken, partNum, parts, upload, object>>

\* The completed part is listed under the mutex.
ListPart == /\ upc = "list"
            /\ MutexFree
            /\ parts' = Append(parts, [num |-> partNum, chunk |-> chunks[taken]])
            /\ wg' = wg - 1
            /\ upc' = "recv"
            /\ UNCHANGED <<caller, taken, partNum, err, s3>>

\* Mutant: the channel is closed only when the upload succeeded.
ExitAfterSuccess == /\ upc = "recv"
                    /\ Queued = 0
                    /\ wpc = "ok"
                    /\ upc' = "exit"
                    /\ UNCHANGED <<caller, taken, wg, partNum, parts, err, s3>>

\* The channel is closed and drained: the range loop ends.
Exit == /\ upc = "recv"
        /\ Queued = 0
        /\ wpc \in {"wait", "finish", "ok", "failed"}
        /\ upc' = "exit"
        /\ UNCHANGED <<caller, taken, wg, partNum, parts, err, s3>>
-----------------------------------------------------------------------------
CallerStep == SendPart \/ WriteReturns \/ SendLast \/ NothingLeft \/ Waited
              \/ Complete \/ CompleteFails \/ Abort

UploaderStep == Receive \/ Number \/ UploadPart \/ UploadPartFails \/ ListPart \/ Exit

Next == \/ \E n \in WriteSizes : Write(n)
        \/ Close
        \/ CallerStep
        \/ UploaderStep

Spec == Init /\ [][Next]_vars

\* Both goroutines are scheduled and every S3 call returns; the next call of
\* Write or Close is up to the stream.
FairSpec == Spec /\ WF_vars(CallerStep) /\ WF_vars(UploaderStep)
-----------------------------------------------------------------------------
(* Properties.                                                             *)

\* The variables keep their types, the channel its capacity, and the WaitGroup
\* counts the parts sent and not yet disposed of (it never goes negative).
TypeOK == /\ wpc \in {"idle", "drain", "flush", "wait", "finish", "ok", "failed"}
          /\ written \in Nat /\ cut \in Nat
          /\ chunks \in Seq(Chunk)
          /\ taken \in 0..Len(chunks) /\ Queued <= Cap
          /\ upc \in {"recv", "number", "put", "list", "exit"}
          /\ Working => taken > 0
          /\ wg = Queued + (IF Working THEN 1 ELSE 0)
          /\ partNum \in Nat
          /\ parts \in Seq(Part)
          /\ err \in {"nil", "failed"}
          /\ upload \in {"open", "completed", "aborted"}
          /\ object \in Seq(Part)
          /\ faults \in 0..MaxFaults

\* A list of parts that S3 assembles into the first n bytes of the stream: it
\* is numbered from 1 without gaps, its chunks follow each other from 0 to n,
\* and all but the last have the size S3 requires.
Assembles(list, n) ==
    /\ list # <<>>
    /\ \A i \in 1..Len(list) :
          /\ list[i].num = i
          /\ list[i].chunk.from = (IF i = 1 THEN 0 ELSE list[i - 1].chunk.to)
          /\ i < Len(list) => list[i].chunk.to = list[i].chunk.from + PartSize
    /\ list[Len(list)].chunk.to = n

\* An object that was completed is the whole stream, its parts in order.
ObjectIsWhole == object # <<>> => Assembles(object, written)

\* The writer implements the abstract one: nothing is visible before Close, and
\* then all of the stream or nothing, whichever part fails.
Blob == INSTANCE BlobWriter WITH
            accepted <- written,
            outcome  <- IF wpc \in {"ok", "failed"} THEN wpc ELSE "open",
            stored   <- IF object = <<>> THEN {}
                        ELSE IF Assembles(object, written) THEN {written} ELSE {-1}

ImplementsBlob == Blob!Spec

\* The caller is blocked in a send, holding the mutex the uploader waits for to
\* be able to receive again.
MutuallyBlocked == /\ \/ wpc = "drain" /\ written - cut >= PartSize
                      \/ wpc = "flush" /\ written > cut
                   /\ Queued = Cap
                   /\ upc \in {"number", "list"}

\* Up to Cap + 1 parts the channel and the uploader hold every part sent, and
\* no send can block on the mutex.
StreamFits == MaxBytes <= (Cap + 1) * PartSize

SmallStreamsNeverBlock == StreamFits => ~MutuallyBlocked

\* Whether a call can go on by itself, and whether the uploader can.
Calling == wpc \in {"drain", "flush", "wait", "finish"}

CallMoves == \/ wpc \in {"drain", "flush"} /\ Queued < Cap
             \/ wpc = "drain" /\ written - cut < PartSize
             \/ wpc = "flush" /\ written = cut /\ chunks # <<>>
             \/ wpc = "wait" /\ wg = 0
             \/ wpc = "finish"

UploaderMoves == \/ upc = "recv" /\ (Queued > 0 \/ wpc \in {"wait", "finish", "ok", "failed"})
                 \/ upc \in {"number", "list"} /\ MutexFree
                 \/ upc = "put"

\* The circular wait of MutuallyBlocked is the only way to get stuck: otherwise
\* a call in progress can go on or the uploader will release it, and the
\* uploader of a closed writer goes on until it ends (the channel, the mutex and
\* the WaitGroup of s3.go:78-190), whichever S3 calls fail.
OnlyMutualWait == /\ Calling => CallMoves \/ UploaderMoves \/ MutuallyBlocked
                  /\ wpc \in {"ok", "failed"} => UploaderMoves \/ upc = "exit"

\* How many steps of the two goroutines are left at most, when no further call
\* begins.  A byte stands for the part it may be sent in.
CallerStage == [flush |-> 9, wait |-> 3, finish |-> 2, drain |-> 1,
                idle |-> 0, ok |-> 0, failed |-> 0]

UploaderStage == [number |-> 4, put |-> 3, list |-> 2, recv |-> 1, exit |-> 0]

Distance == 6 * (written - cut) + 5 * Queued + UploaderStage[upc] + CallerStage[wpc]

\* Every step brings a call nearer to its return and the uploader nearer to its
\* end, so that neither loops: only a new call takes them away from it.
EveryStepCounts ==
    [][Distance' \in 0..(Distance - 1) \/ (wpc = "idle" /\ wpc' # "idle")]_vars

\* s3.go:134: "send chunk (may block if channel full) - this provides
\* backpressure": a call that blocks is released by the uploader and returns.
EveryCallReturns == wpc \in {"drain", "flush", "wait", "finish"} ~>
                        wpc \in {"idle", "ok", "failed"}

\* The uploader goroutine ends when the writer has been closed.
UploaderEnds == wpc \in {"ok", "failed"} ~> upc = "exit"
=============================================================================
