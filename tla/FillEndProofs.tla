--------------------------- MODULE FillEndProofs ---------------------------
(***************************************************************************)
(* How a fill ends, for every number of fills, slots, chunks and failures: *)
(* what it leaves behind, that nobody waits in vain meanwhile, and that    *)
(* each of its steps brings it nearer to the end.  The last two are what   *)
(* safety has to say of ComesToRest, which TLC checks.                     *)
(***************************************************************************)
EXTENDS LifecycleProofs

StreamMove(f) == Arrive(f) \/ FillStep(f) \/ HandlerStep(f) \/ ClientStep(f)

\* Every step of a fill leaves the others alone, but for the slot it passes on.
LEMMA MoveKeeps ==
  ASSUME StreamInv, NEW f \in Fill, StreamMove(f)
  PROVE  StreamTypeOK /\ FillInv(f) /\ Kept(f)
  BY PullKept, AcquireKept, RequestKept, CopyKept, EndKept, ClientKept
     DEF StreamMove, FillStep, HandlerStep, ClientStep, StreamInv
-----------------------------------------------------------------------------
(* What a fill leaves behind.                                              *)

\* The lock, the row and the object, in the order in which a fill lets go of them;
\* what it does not let go of was reported, and without a failed call that is a fill
\* given up for a client that has left.
SettleInv(f) ==
    /\ pc[f] \in {"idle", "pull"} => ~locked[f] /\ record[f] = "none" /\ reported[f] = {}
    /\ record[f] = "none" => pc[f] \in {"idle", "pull", "giveUp"} \/ h[f] = "answered"
    /\ object[f] # "none" => pc[f] \in {"endStream", "closeBody", "done"} /\ h[f] # "answered"
    /\ locked[f] /\ pc[f] \in {"commit", "endStream", "closeBody", "done"}
          => "lock" \in reported[f]
    /\ record[f] = "filling" /\ pc[f] \in Decided \cup {"giveUp"} => "row" \in reported[f]
    /\ reported[f] # {} /\ faults = 0 /\ open = Clients =>
          client[f] = "left" /\ pc[f] \in {"giveUp", "done"} /\ h[f] \in {"pull", "answered"}

\* A context that is cancelled while Pull runs is that of a client that has left.
LEMMA CancelledLeft ==
  ASSUME StreamTypeOK, NEW f \in Fill, FillInv(f), pc[f] \in PullPc, Fails(f), faults' = 0
  PROVE  client[f] = "left" /\ h[f] = "pull"
  BY FailsCounts DEF StreamTypeOK, FillInv, EndsInv

\* Before the lock is taken, and while it is waited for a slot and for the upstream.
LEMMA SettleBefore ==
  ASSUME StreamTypeOK, StreamTypeOK', NEW f \in Fill, FillInv(f), SettleInv(f), open' = open,
         faults' = 0 => faults = 0,
         \/ Arrive(f) \/ PullReturns(f) \/ Lead(f) \/ LockLost(f) \/ UpsertFails(f)
         \/ AcquireRefused(f) \/ Acquire(f) \/ Enqueue(f) \/ StopWaiting(f)
         \/ Granted(f) \/ Request(f) \/ OpenWriter(f)
  PROVE  SettleInv(f)'
  <1> USE DEF StreamTypeOK, FillInv, EndsInv, PullPc, Returned, SettleInv, Decided, At, Goto,
             sem, request, data, shared
  <1>1. CASE Arrive(f) \/ PullReturns(f) \/ Lead(f)
    BY <1>1 DEF Arrive, PullReturns, Return, Lead
  <1>2. CASE AcquireRefused(f) \/ Acquire(f)
    BY <1>2 DEF AcquireRefused, Acquire
  <1>3. CASE Enqueue(f) \/ StopWaiting(f)
    BY <1>3 DEF Enqueue, StopWaiting
  <1>4. CASE Granted(f) \/ Request(f) \/ OpenWriter(f)
    BY <1>4 DEF Granted, Request, OpenWriter
  <1>5. CASE LockLost(f)
    <2>1. reported'[f] = reported[f] \cup {"lock"}
      BY <1>5 DEF LockLost, Report
    <2>2. faults' = 0 => client[f] = "left"
      BY <1>5, CancelledLeft DEF LockLost
    <2> QED
      BY <1>5, <2>1, <2>2 DEF LockLost, Return
  <1>6. CASE UpsertFails(f)
    <2>1. reported'[f] = reported[f] \cup {"row"}
      BY <1>6 DEF UpsertFails, Report
    <2>2. faults' = 0 => client[f] = "left"
      BY <1>6, CancelledLeft DEF UpsertFails
    <2>3. pc'[f] = "giveUp" /\ UNCHANGED <<h, client, object>>
      BY <1>6 DEF UpsertFails
    <2> QED
      BY <1>6, <2>1, <2>2, <2>3 DEF UpsertFails
  <1> QED
    BY <1>1, <1>2, <1>3, <1>4, <1>5, <1>6

\* The error paths of executeFill.
LEMMA SettleError ==
  ASSUME StreamTypeOK, StreamTypeOK', NEW f \in Fill, FillInv(f), SettleInv(f), open' = open,
         faults' = 0 => faults = 0,
         \/ (pc'[f] = "recordFailure" /\ (GrantedTooLate(f) \/ RequestFails(f) \/ OpenWriterFails(f)))
         \/ RecordFailure(f) \/ GiveUp(f)
  PROVE  SettleInv(f)'
  <1> USE DEF StreamTypeOK, FillInv, EndsInv, PullPc, Returned, SettleInv, Decided, At, Goto,
             sem, request, data, shared
  <1>1. CASE /\ pc'[f] = "recordFailure"
             /\ GrantedTooLate(f) \/ RequestFails(f) \/ OpenWriterFails(f)
    BY <1>1 DEF GrantedTooLate, RequestFails, OpenWriterFails
  <1>2. CASE RecordFailure(f)
    <2>1. /\ pc[f] = "recordFailure" /\ pc'[f] = "giveUp" /\ h[f] = "pull"
          /\ UNCHANGED <<h, client, locked, object>>
      BY <1>2 DEF RecordFailure
    <2>2. CASE live[f] /\ MarkAs(f, "error")
      BY <2>1, <2>2, RowWritten
    <2>3. CASE ~live[f] /\ Report(f, "row") /\ UNCHANGED <<record, faults>>
      BY <2>1, <2>3 DEF Report
    <2> QED
      BY <1>2, <2>2, <2>3 DEF RecordFailure
  <1>3. CASE GiveUp(f)
    <2>1. /\ pc[f] = "giveUp" /\ pc'[f] = "done" /\ h[f] = "pull" /\ h'[f] = "answered"
          /\ UNCHANGED <<client, record, object>>
      BY <1>3 DEF GiveUp, Return
    <2>2. FreeLock(f)
      BY <1>3 DEF GiveUp
    <2> QED
      BY <2>1, <2>2, LockFreed
  <1> QED
    BY <1>1, <1>2, <1>3

\* The copy.
LEMMA SettleCopy ==
  ASSUME StreamTypeOK, StreamTypeOK', NEW f \in Fill, FillInv(f), SettleInv(f), open' = open,
         faults' = 0 => faults = 0,
         \/ ReadChunk(f) \/ BodyEnds(f) \/ ReadFails(f)
         \/ HandOver(f) \/ PipeBroken(f) \/ StoreChunk(f) \/ StoreFails(f)
         \/ HandlerStep(f) \/ ClientStep(f)
  PROVE  SettleInv(f)'
  <1> USE DEF StreamTypeOK, FillInv, EndsInv, PullPc, Returned, SettleInv, Decided, At, Goto,
             sem, request, data, shared
  <1>1. CASE ReadChunk(f) \/ BodyEnds(f) \/ ReadFails(f) \/ HandOver(f)
    BY <1>1 DEF ReadChunk, BodyEnds, ReadFails, HandOver
  <1>2. CASE PipeBroken(f) \/ StoreChunk(f) \/ StoreFails(f)
    BY <1>2 DEF PipeBroken, StoreChunk, StoreFails
  <1>3. CASE HandlerStep(f)
    BY <1>3 DEF HandlerStep, Send, SendFails, StreamEnds, Return
  <1>4. CASE ClientStep(f)
    BY <1>4 DEF ClientStep, Disconnect, Stall, Active
  <1> QED
    BY <1>1, <1>2, <1>3, <1>4

\* The deferred calls of the goroutine.
LEMMA SettleEnd ==
  ASSUME StreamTypeOK, StreamTypeOK', NEW f \in Fill, FillInv(f), SettleInv(f), open' = open,
         faults' = 0 => faults = 0,
         \/ MarkReady(f) \/ MarkError(f) \/ Unlock(f) \/ Commit(f) \/ CommitFails(f)
         \/ EndStream(f) \/ (pc'[f] = "done" /\ CloseBody(f))
  PROVE  SettleInv(f)'
  <1> USE DEF StreamTypeOK, FillInv, EndsInv, PullPc, Returned, SettleInv, Decided, At, Goto,
             sem, request, data, shared, Clients
  <1>1. CASE MarkReady(f) \/ MarkError(f)
    <2>1. /\ pc[f] \in {"markReady", "markError"} /\ pc'[f] = "unlock"
          /\ UNCHANGED <<h, client, locked, object>>
      BY <1>1 DEF MarkReady, MarkError
    <2>2. PICK s \in {"ready", "error"} : MarkAs(f, s)
      BY <1>1 DEF MarkReady, MarkError
    <2> QED
      BY <2>1, <2>2, RowWritten
  <1>2. CASE Unlock(f)
    <2>1. /\ pc[f] = "unlock" /\ pc'[f] = "commit"
          /\ UNCHANGED <<h, client, record, object>>
      BY <1>2 DEF Unlock
    <2>2. FreeLock(f)
      BY <1>2 DEF Unlock
    <2> QED
      BY <2>1, <2>2, LockFreed
  <1>3. CASE Commit(f) \/ CommitFails(f)
    BY <1>3 DEF Commit, CommitFails
  <1>4. CASE EndStream(f) \/ (pc'[f] = "done" /\ CloseBody(f))
    BY <1>4 DEF EndStream, CloseBody
  <1> QED
    BY <1>1, <1>2, <1>3, <1>4

LEMMA SettleMove ==
  ASSUME StreamInv, \A g \in Fill : SettleInv(g), NEW f \in Fill, StreamMove(f)
  PROVE  \A g \in Fill : SettleInv(g)'
  <1>1. StreamTypeOK /\ StreamTypeOK' /\ SlotInv /\ FillInv(f) /\ Others(f) /\ SettleInv(f)
    BY MoveKeeps DEF Kept, StreamInv
  <1>2. open' = open /\ (faults' = 0 => faults = 0)
    BY <1>1 DEF Others, StreamTypeOK
  <1>3. ASSUME GrantedTooLate(f) \/ RequestFails(f) \/ OpenWriterFails(f)
        PROVE  pc'[f] = "recordFailure"
    BY <1>1, <1>3, SlotReleased DEF GrantedTooLate, RequestFails, OpenWriterFails, At,
       SlotPc, FillPc
  <1>4. ASSUME CloseBody(f) PROVE pc'[f] = "done"
    BY <1>1, <1>4, SlotReleased DEF CloseBody, At, SlotPc, FillPc
  <1>5. SettleInv(f)'
    <2>1. CASE \/ Arrive(f) \/ PullReturns(f) \/ Lead(f) \/ LockLost(f) \/ UpsertFails(f)
               \/ AcquireRefused(f) \/ Acquire(f) \/ Enqueue(f) \/ StopWaiting(f)
               \/ Granted(f) \/ Request(f) \/ OpenWriter(f)
      BY <1>1, <1>2, <2>1, SettleBefore
    <2>2. CASE \/ GrantedTooLate(f) \/ RequestFails(f) \/ OpenWriterFails(f)
               \/ RecordFailure(f) \/ GiveUp(f)
      BY <1>1, <1>2, <1>3, <2>2, SettleError
    <2>3. CASE \/ ReadChunk(f) \/ BodyEnds(f) \/ ReadFails(f) \/ HandOver(f) \/ PipeBroken(f)
               \/ StoreChunk(f) \/ StoreFails(f) \/ HandlerStep(f) \/ ClientStep(f)
      BY <1>1, <1>2, <2>3, SettleCopy
    <2>4. CASE \/ MarkReady(f) \/ MarkError(f) \/ Unlock(f) \/ Commit(f) \/ CommitFails(f)
               \/ EndStream(f) \/ CloseBody(f)
      BY <1>1, <1>2, <1>4, <2>4, SettleEnd
    <2> QED
      BY <2>1, <2>2, <2>3, <2>4 DEF StreamMove, FillStep
  <1>6. ASSUME NEW g \in Fill \ {f} PROVE SettleInv(g)'
    BY <1>1, <1>2 DEF Others, SettleInv, Decided
  <1> QED
    BY <1>5, <1>6

\* The clients of a node are all open only once it serves.
LEMMA SettleRun ==
  ASSUME LifeInv, \A f \in Fill : SettleInv(f), RunStep \/ SigTerm \/ ServerFails \/ UNCHANGED vars
  PROVE  \A f \in Fill : SettleInv(f)'
  <1> USE DEF SettleInv, svars, request, data, shared
  <1>1. CASE UNCHANGED svars
    BY <1>1
  <1>2. CASE Load \/ LoadFails \/ OpenDB \/ OpenDBFails \/ OpenValkey \/ OpenValkeyFails
             \/ OpenStorage \/ OpenStorageFails
    <2>1. Unchanged /\ \A f \in Fill : h[f] = "none"
      BY <1>2 DEF LifeInv, PhaseInv, Starting, Load, LoadFails, OpenDB, OpenDBFails, OpenValkey,
         OpenValkeyFails, OpenStorage, OpenStorageFails
    <2>2. \A f \in Fill : pc[f] = "idle"
      BY <2>1 DEF LifeInv, StreamInv, FillInv, EndsInv
    <2> QED
      BY <2>1, <2>2 DEF Unchanged, Decided
  <1>3. CASE CloseStorage \/ CloseValkey \/ CloseDB
    <2>1. Unchanged /\ open' # Clients
      BY <1>3 DEF LifeInv, PhaseInv, OpenIn, Clients, CloseStorage, CloseValkey, CloseDB, CloseAnd
    <2> QED
      BY <2>1 DEF Unchanged
  <1> QED
    BY <1>1, <1>2, <1>3 DEF RunStep, SigTerm, ServerFails, Drain, Drained, GraceEnds, vars

LEMMA SettleInductive == Spec => [](\A f \in Fill : SettleInv(f))
  <1> DEFINE Inv == \A f \in Fill : SettleInv(f)
  <1>1. Init => Inv
    <2> SUFFICES ASSUME Init, NEW f \in Fill PROVE SettleInv(f)
      OBVIOUS
    <2>1. pc[f] = "idle" /\ record[f] = "none" /\ object[f] = "none"
      BY DEF Init, NothingArrived
    <2>2. ~locked[f] /\ reported[f] = {}
      BY DEF Init, NothingArrived
    <2> QED
      BY <2>1, <2>2 DEF SettleInv, Decided
  <1>2. LifeInv /\ Inv /\ [Next]_vars => Inv'
    <2> SUFFICES ASSUME LifeInv, Inv, [Next]_vars PROVE Inv'
      OBVIOUS
    <2>1. CASE \E f \in Fill : Accept(f) \/ Works(f) \/ Handles(f) \/ Moves(f)
      BY <2>1, SettleMove DEF Accept, Works, Handles, Moves, StreamMove, LifeInv
    <2>2. CASE RunStep \/ SigTerm \/ ServerFails \/ UNCHANGED vars
      BY <2>2, SettleRun
    <2> QED
      BY <2>1, <2>2 DEF Next
  <1> QED
    BY <1>1, <1>2, LifeInvInductive, PTL DEF Spec

\* Whatever fails, a request that is over holds no lock and leaves no FILLING row
\* but one it could not change and has reported; without a failed call it reports
\* nothing, unless the client left before the stream began.
THEOREM DoneIsSettledAlways == Spec => []DoneIsSettled
  <1>1. LifeInv /\ (\A f \in Fill : SettleInv(f)) => DoneIsSettled
    BY DEF LifeInv, StreamInv, FillInv, EndsInv, PullPc, Decided, SettleInv, DoneIsSettled, At
  <1> QED
    BY <1>1, SettleInductive, LifeInvInductive, PTL

\* A client that reads the end of the pipe finds a decided row, and one whose
\* artifact was cut short an ERROR, however the copy failed and whoever left, or
\* the log says that the row could not be written.
THEOREM EndIsRecordedAlways == Spec => []EndIsRecorded
  <1>1. LifeInv /\ (\A f \in Fill : SettleInv(f)) => EndIsRecorded
    <2> SUFFICES ASSUME StreamInv, \A f \in Fill : SettleInv(f),
                        NEW f \in Fill, h[f] = "ended", "row" \notin reported[f]
                 PROVE  /\ record[f] \in {"ready", "error"}
                        /\ given[f] < Chunks[f] \/ stored[f] < Chunks[f] => record[f] = "error"
      BY DEF LifeInv, EndIsRecorded
    <2>1. pc[f] \in {"closeBody", "done"} /\ record[f] \in {"none", "filling", "ready", "error"}
      BY DEF StreamInv, StreamTypeOK, FillInv, EndsInv
    <2>2. record[f] \notin {"none", "filling"}
      BY <2>1 DEF SettleInv, Decided
    <2>3. record[f] = "ready" => given[f] = Chunks[f] /\ stored[f] = Chunks[f]
      BY DEF StreamInv, FillInv, DataInv
    <2>4. Chunks[f] \in Nat
      BY StreamAssumption
    <2> QED
      BY <2>1, <2>2, <2>3, <2>4
  <1> QED
    BY <1>1, SettleInductive, LifeInvInductive, PTL
-----------------------------------------------------------------------------
(* What a node leaves behind.                                              *)

\* When the clients are closed after a drain, the fills of clients that stayed have
\* let go of the lock and of the row, or have said that they could not.
LetGo(f) == /\ locked[f] => "lock" \in reported[f]
            /\ record[f] = "filling" => "row" \in reported[f]

LeftInv == phase \in Closing /\ ~cut => \A f \in Fill : client[f] # "left" => LetGo(f)

\* A fill whose handler has returned, or was never called, has at most its body left
\* to close.
LEMMA AtMostClosesBody ==
  ASSUME StreamInv, NEW f \in Fill, ~Active(f), client[f] # "left"
  PROVE  pc[f] \in {"idle", "closeBody", "done"}
  <1>1. h[f] \in {"none", "answered", "ended", "broken"}
    BY DEF StreamInv, StreamTypeOK, Returned, Active
  <1> QED
    BY <1>1 DEF StreamInv, FillInv, EndsInv

LEMMA LeftMove ==
  ASSUME LifeInv, LeftInv, NEW f \in Fill, Works(f) \/ Handles(f) \/ Moves(f)
  PROVE  LeftInv'
  <1> SUFFICES ASSUME phase \in Closing, ~cut, NEW g \in Fill, client'[g] # "left"
               PROVE  LetGo(g)'
    BY DEF LeftInv, Works, Handles, Moves, life
  <1>0. StreamMove(f) /\ (FillStep(f) \/ HandlerStep(f) \/ ClientStep(f))
    BY DEF StreamMove, Works, Handles, Moves
  <1>1. StreamTypeOK /\ FillInv(f) /\ Others(f)
    BY <1>0, MoveKeeps DEF Kept, LifeInv
  <1>2. CASE g # f
    BY <1>1, <1>2 DEF Others, LeftInv, LetGo
  <1>3. CASE g = f
    <2>1. ~Active(f)
      BY DEF LifeInv, PhaseInv
    <2>2. CASE client[f] = "left"
      <3>1. client'[f] = "left"
        BY <1>0, <1>1, <2>1, <2>2
           DEF StreamTypeOK, request, Return, FillStep, HandlerStep, ClientStep, PullReturns, Lead,
               LockLost, UpsertFails, AcquireRefused, Acquire, Enqueue, StopWaiting, Granted, GrantedTooLate, Request,
               RequestFails, OpenWriter, OpenWriterFails, RecordFailure, GiveUp, ReadChunk,
               BodyEnds, ReadFails, HandOver, PipeBroken, StoreChunk, StoreFails, MarkReady,
               MarkError, Unlock, Commit, CommitFails, EndStream, CloseBody, Send, SendFails,
               StreamEnds, Disconnect, Stall
      <3> QED
        BY <1>3, <3>1
    <2>3. CASE client[f] # "left"
      <3>1. pc[f] \in {"idle", "closeBody", "done"}
        BY <2>1, <2>3, AtMostClosesBody DEF LifeInv
      <3>2. CloseBody(f)
        BY <1>0, <2>1, <3>1
           DEF At, Active, FillStep, HandlerStep, ClientStep, PullReturns, Lead,
               LockLost, UpsertFails, AcquireRefused, Acquire, Enqueue, StopWaiting, Granted, GrantedTooLate, Request,
               RequestFails, OpenWriter, OpenWriterFails, RecordFailure, GiveUp, ReadChunk,
               BodyEnds, ReadFails, HandOver, PipeBroken, StoreChunk, StoreFails, MarkReady,
               MarkError, Unlock, Commit, CommitFails, EndStream, Send, SendFails,
               StreamEnds, Disconnect, Stall
      <3> QED
        BY <1>3, <2>3, <3>2 DEF CloseBody, shared, LeftInv, LetGo
    <2> QED
      BY <2>2, <2>3
  <1> QED
    BY <1>2, <1>3

LEMMA LeftRun ==
  ASSUME LifeInv, \A f \in Fill : SettleInv(f), LeftInv,
         RunStep \/ SigTerm \/ ServerFails \/ UNCHANGED vars
  PROVE  LeftInv'
  <1>1. UNCHANGED <<client, locked, record, reported>>
    BY DEF RunStep, SigTerm, ServerFails, vars, svars, Load, LoadFails, OpenDB, OpenDBFails,
       OpenValkey, OpenValkeyFails, OpenStorage, OpenStorageFails, Drain, Drained, GraceEnds,
       CloseStorage, CloseValkey, CloseDB, CloseAnd, Unchanged, request, shared
  <1>2. CASE phase \in Starting
    <2>1. \A f \in Fill : pc[f] = "idle"
      BY <1>2 DEF LifeInv, PhaseInv, StreamInv, FillInv, EndsInv
    <2> QED
      BY <1>1, <2>1 DEF SettleInv, LeftInv, LetGo
  <1>3. CASE Drained
    <2>1. phase = "draining" /\ \A f \in Fill : ~Active(f)
      BY <1>3 DEF Drained
    <2>2. \A f \in Fill : client[f] # "left" => pc[f] \in {"idle", "closeBody", "done"}
      BY <2>1, AtMostClosesBody DEF LifeInv
    <2> QED
      BY <1>1, <2>2 DEF SettleInv, LeftInv, LetGo, Decided
  <1>4. CASE ServerFails \/ GraceEnds
    BY <1>4 DEF ServerFails, GraceEnds, LeftInv
  <1>5. CASE SigTerm \/ Drain \/ UNCHANGED vars
    BY <1>1, <1>5 DEF SigTerm, Drain, vars, life, LeftInv, LetGo, Closing
  <1>6. CASE CloseStorage \/ CloseValkey \/ CloseDB
    BY <1>1, <1>6 DEF CloseStorage, CloseValkey, CloseDB, CloseAnd, Enter, LeftInv, LetGo, Closing
  <1> QED
    BY <1>2, <1>3, <1>4, <1>5, <1>6
       DEF RunStep, Starting, Load, LoadFails, OpenDB, OpenDBFails, OpenValkey, OpenValkeyFails,
           OpenStorage, OpenStorageFails

\* After a drain that was not cut short, no fill of a client that stayed has a
\* call of the clients left to make, and none has left a lock or a FILLING row but
\* one it has failed to change, and reported, while the client was open.
THEOREM GracefulStopAlways == Spec => []GracefulStop
  <1>1. Init => LeftInv
    BY DEF Init, LeftInv, Closing
  <1>2. LifeInv /\ (\A f \in Fill : SettleInv(f)) /\ LeftInv /\ [Next]_vars => LeftInv'
    <2> SUFFICES ASSUME LifeInv, \A f \in Fill : SettleInv(f), LeftInv, [Next]_vars
                 PROVE  LeftInv'
      OBVIOUS
    <2>1. CASE \E f \in Fill : Accept(f)
      BY <2>1 DEF Accept, life, LeftInv, Closing
    <2>2. CASE \E f \in Fill : Works(f) \/ Handles(f) \/ Moves(f)
      BY <2>2, LeftMove
    <2>3. CASE RunStep \/ SigTerm \/ ServerFails \/ UNCHANGED vars
      BY <2>3, LeftRun
    <2> QED
      BY <2>1, <2>2, <2>3 DEF Next
  <1>3. LifeInv /\ LeftInv => GracefulStop
    BY AtMostClosesBody DEF LifeInv, PhaseInv, LeftInv, LetGo, GracefulStop, Closing
  <1> QED
    BY <1>1, <1>2, <1>3, LifeInvInductive, SettleInductive, PTL DEF Spec
-----------------------------------------------------------------------------
(* Who waits for whom.                                                     *)

\* A call that waits for a slot has its place in the queue: neither a grant nor a
\* call that gives up takes the place of another.
QueuedInv == \A f \in Fill : At(f, "queued") => \E i \in DOMAIN queue : queue[i] = f

LEMMA QueuedReleased ==
  ASSUME StreamTypeOK, SlotInv, QueuedInv, NEW f \in Fill, NEW p,
         pc[f] \in SlotPc, p # "queued", ReleaseSlot(f, p)
  PROVE  QueuedInv'
  <1>1. CASE queue = <<>> /\ Goto(f, p) /\ UNCHANGED queue
    BY <1>1 DEF QueuedInv, At, Goto, StreamTypeOK
  <1>2. CASE /\ queue # <<>> /\ queue' = Tail(queue)
             /\ pc' = [pc EXCEPT ![f] = p, ![Head(queue)] = "granted"]
    <2>0. queue \in Seq(Fill)
      BY DEF StreamTypeOK
    <2>1. /\ Head(queue) \in Fill /\ Head(queue) = queue[1]
          /\ \A j \in DOMAIN queue : j # 1 => j - 1 \in DOMAIN queue' /\ queue'[j - 1] = queue[j]
      <3>1. queue # <<>> /\ queue' = Tail(queue)
        BY <1>2
      <3> QED
        BY <2>0, <3>1
    <2> SUFFICES ASSUME NEW g \in Fill, pc'[g] = "queued"
                 PROVE  \E i \in DOMAIN queue' : queue'[i] = g
      BY DEF QueuedInv, At
    <2>2. pc[g] = "queued" /\ g # Head(queue)
      BY <1>2, <2>1 DEF StreamTypeOK
    <2>3. PICK j \in DOMAIN queue : queue[j] = g
      BY <2>2 DEF QueuedInv, At
    <2> QED
      BY <2>1, <2>2, <2>3
  <1> QED
    BY <1>1, <1>2 DEF ReleaseSlot

LEMMA QueuedMove ==
  ASSUME StreamInv, QueuedInv, NEW f \in Fill, StreamMove(f)
  PROVE  QueuedInv'
  <1>1. StreamTypeOK /\ StreamTypeOK' /\ SlotInv /\ Others(f)
    BY MoveKeeps DEF Kept, StreamInv
  <1>2. CASE Enqueue(f)
    <2>1. /\ \A i \in DOMAIN queue : i \in DOMAIN queue' /\ queue'[i] = queue[i]
          /\ Len(queue) + 1 \in DOMAIN queue' /\ queue'[Len(queue) + 1] = f
      <3>1. queue' = Append(queue, f) /\ queue \in Seq(Fill)
        BY <1>1, <1>2 DEF Enqueue, StreamTypeOK
      <3> QED
        BY <3>1
    <2> QED
      BY <1>1, <2>1 DEF QueuedInv, At, Others
  <1>3. CASE StopWaiting(f)
    <2>1. PICK k \in DOMAIN queue : queue[k] = f /\ queue' = RemoveAt(queue, k)
      BY <1>3 DEF StopWaiting
    <2>2. \A j \in DOMAIN queue \ {k} : \E i \in DOMAIN queue' : queue'[i] = queue[j]
      <3>1. queue \in Seq(Fill) /\ \A i, j \in DOMAIN queue : queue[i] = queue[j] => i = j
        BY <1>1 DEF StreamTypeOK, SlotInv
      <3>2. \A j \in DOMAIN queue \ {k} :
               \E i \in DOMAIN RemoveAt(queue, k) : RemoveAt(queue, k)[i] = queue[j]
        BY <3>1, QueueRemoved
      <3> QED
        BY <2>1, <3>2
    <2>3. pc'[f] # "queued"
      BY <1>1, <1>3 DEF StopWaiting, Goto, StreamTypeOK
    <2> QED
      BY <1>1, <2>1, <2>2, <2>3 DEF QueuedInv, At, Others
  <1>4. CASE GrantedTooLate(f) \/ RequestFails(f) \/ OpenWriterFails(f) \/ CloseBody(f)
    BY <1>1, <1>4, QueuedReleased
       DEF GrantedTooLate, RequestFails, OpenWriterFails, CloseBody, At, SlotPc
  <1>5. CASE queue' = queue /\ (pc'[f] = "queued" => pc[f] = "queued")
    BY <1>1, <1>5 DEF QueuedInv, At, Others
  <1>6. \/ Enqueue(f) \/ StopWaiting(f)
        \/ GrantedTooLate(f) \/ RequestFails(f) \/ OpenWriterFails(f) \/ CloseBody(f)
        \/ queue' = queue /\ (pc'[f] = "queued" => pc[f] = "queued")
    <2> USE <1>1 DEF StreamTypeOK, Goto, sem
    <2>1. ASSUME Arrive(f) \/ PullReturns(f) \/ Lead(f) \/ LockLost(f) \/ UpsertFails(f)
                 \/ AcquireRefused(f) \/ Acquire(f) \/ Granted(f) \/ Request(f) \/ OpenWriter(f) \/ RecordFailure(f) \/ GiveUp(f)
          PROVE  queue' = queue /\ (pc'[f] = "queued" => pc[f] = "queued")
      BY <2>1 DEF Arrive, PullReturns, Lead, LockLost, UpsertFails, AcquireRefused, Acquire, Granted,
         Request, OpenWriter, RecordFailure, GiveUp
    <2>2. ASSUME ReadChunk(f) \/ BodyEnds(f) \/ ReadFails(f) \/ HandOver(f) \/ PipeBroken(f)
                 \/ StoreChunk(f) \/ StoreFails(f) \/ HandlerStep(f) \/ ClientStep(f)
          PROVE  queue' = queue /\ (pc'[f] = "queued" => pc[f] = "queued")
      BY <2>2 DEF ReadChunk, BodyEnds, ReadFails, HandOver, PipeBroken, StoreChunk, StoreFails,
         HandlerStep, Send, SendFails, StreamEnds, ClientStep, Disconnect, Stall
    <2>3. ASSUME MarkReady(f) \/ MarkError(f) \/ Unlock(f) \/ Commit(f) \/ CommitFails(f)
                 \/ EndStream(f)
          PROVE  queue' = queue /\ (pc'[f] = "queued" => pc[f] = "queued")
      BY <2>3 DEF MarkReady, MarkError, Unlock, Commit, CommitFails, EndStream
    <2> QED
      BY <2>1, <2>2, <2>3 DEF StreamMove, FillStep
  <1> QED
    BY <1>2, <1>3, <1>4, <1>5, <1>6

\* The semaphore's slots are with calls that move, or that wait for their client.
LEMMA HoldersMove ==
  ASSUME StreamInv, NEW g \in Fill, HasSlot(g)
  PROVE  Busy(g) \/ HeldUp(g)
  <1>1. CASE pc[g] # "pipe"
    BY <1>1 DEF HasSlot, SlotPc, FillPc, Busy
  <1>2. CASE pc[g] = "pipe"
    <2>1. h[g] \in {"read", "write", "ended", "broken"}
      BY <1>2 DEF StreamInv, StreamTypeOK, FillInv, EndsInv, PullPc, Returned
    <2> QED
      BY <1>2, <2>1 DEF Busy, HeldUp, At, Returned
  <1> QED
    BY <1>1, <1>2

LEMMA QueuedImplies ==
  ASSUME StreamInv, QueuedInv
  PROVE  NobodyWaitsInVain
  <1> SUFFICES ASSUME NEW f \in Fill, pc[f] \notin {"idle", "done"} \/ Active(f)
               PROVE  \/ Busy(f) \/ HeldUp(f)
                      \/ /\ \E i \in DOMAIN queue : queue[i] = f
                         /\ MaxConcurrent > 0 =>
                               \E g \in Fill : HasSlot(g) /\ (Busy(g) \/ HeldUp(g))
    BY DEF NobodyWaitsInVain
  <1>0. pc[f] \in FillPc /\ FillInv(f)
    BY DEF StreamInv, StreamTypeOK
  <1>1. CASE pc[f] = "queued"
    <2>1. \E i \in DOMAIN queue : queue[i] = f
      BY <1>1 DEF QueuedInv, At
    <2>2. free = 0 /\ free + Cardinality(Holders) = MaxConcurrent
      BY <2>1 DEF StreamInv, SlotInv
    <2>3. ASSUME MaxConcurrent > 0 PROVE \E g \in Fill : HasSlot(g)
      <3>1. Holders # {}
        BY <2>2, <2>3, FS_EmptySet, SizeAssumption
      <3> QED
        BY <3>1 DEF Holders
    <2> QED
      BY <2>1, <2>3, HoldersMove
  <1>2. CASE pc[f] = "pipe"
    BY <1>2, HoldersMove DEF HasSlot, SlotPc
  <1>3. CASE pc[f] \in {"idle", "done"}
    BY <1>0, <1>3 DEF Active, FillInv, EndsInv, PullPc, Busy, HeldUp, At
  <1>4. CASE pc[f] \notin {"idle", "done", "queued", "pipe"}
    BY <1>0, <1>4 DEF Busy
  <1> QED
    BY <1>1, <1>2, <1>3, <1>4

\* Every request that is not over moves, or waits in the end for a client that has
\* stopped to read, for any number of slots but none.
THEOREM NobodyWaitsInVainAlways == Spec => []NobodyWaitsInVain
  <1>1. Init => QueuedInv
    BY DEF Init, NothingArrived, QueuedInv, At
  <1>2. LifeInv /\ QueuedInv /\ [Next]_vars => QueuedInv'
    <2> SUFFICES ASSUME LifeInv, QueuedInv, [Next]_vars PROVE QueuedInv'
      OBVIOUS
    <2>1. CASE \E f \in Fill : Accept(f) \/ Works(f) \/ Handles(f) \/ Moves(f)
      BY <2>1, QueuedMove DEF Accept, Works, Handles, Moves, StreamMove, LifeInv
    <2>2. CASE RunStep \/ SigTerm \/ ServerFails \/ UNCHANGED vars
      <3>1. UNCHANGED <<queue, pc>>
        BY <2>2 DEF RunStep, SigTerm, ServerFails, vars, svars, Load, LoadFails, OpenDB,
           OpenDBFails, OpenValkey, OpenValkeyFails, OpenStorage, OpenStorageFails, Drain,
           Drained, GraceEnds, CloseStorage, CloseValkey, CloseDB, CloseAnd, Unchanged, sem
      <3> QED
        BY <3>1 DEF QueuedInv, At
    <2> QED
      BY <2>1, <2>2 DEF Next
  <1>3. LifeInv /\ QueuedInv => NobodyWaitsInVain
    BY QueuedImplies DEF LifeInv
  <1> QED
    BY <1>1, <1>2, <1>3, LifeInvInductive, PTL DEF Spec
-----------------------------------------------------------------------------
(* How far it is to the end.                                               *)

LEMMA StageValues ==
  /\ Stage["idle"] = 17 /\ Stage["pull"] = 16 /\ Stage["acquire"] = 15
  /\ Stage["queued"] = 14 /\ Stage["granted"] = 13 /\ Stage["request"] = 12
  /\ Stage["writer"] = 11 /\ Stage["recordFailure"] = 10 /\ Stage["giveUp"] = 9
  /\ Stage["store"] = 8 /\ Stage["read"] = 7 /\ Stage["pipe"] = 6
  /\ Stage["markReady"] = 5 /\ Stage["markError"] = 5 /\ Stage["unlock"] = 4
  /\ Stage["commit"] = 3 /\ Stage["endStream"] = 2 /\ Stage["closeBody"] = 1
  /\ Stage["done"] = 0
  BY DEF Stage, FillPc, SlotPc

LEMMA HandlerStageValues ==
  /\ HandlerStage["none"] = 4 /\ HandlerStage["pull"] = 3 /\ HandlerStage["write"] = 2
  /\ HandlerStage["read"] = 1
  /\ HandlerStage["answered"] = 0 /\ HandlerStage["ended"] = 0 /\ HandlerStage["broken"] = 0
  BY DEF HandlerStage, Returned

LEMMA StageType ==
  ASSUME NEW p \in FillPc
  PROVE  Stage[p] \in Nat
  BY StageValues DEF FillPc, SlotPc

LEMMA HandlerStageType ==
  ASSUME NEW s \in {"none", "pull", "read", "write"} \cup Returned
  PROVE  HandlerStage[s] \in Nat
  BY HandlerStageValues DEF Returned

LEMMA DistanceType ==
  ASSUME StreamTypeOK, NEW f \in Fill
  PROVE  Distance(f) \in Int
  <1>1. Stage[pc[f]] \in Nat /\ HandlerStage[h[f]] \in Nat
    BY StageType, HandlerStageType DEF StreamTypeOK
  <1>2. given[f] \in Int /\ Chunks[f] \in Int
    BY StreamAssumption DEF StreamTypeOK
  <1> QED
    BY <1>1, <1>2 DEF Distance

\* A step that leaves the data alone is nearer to the end when the two goroutines are.
LEMMA NearerWithoutData ==
  ASSUME StreamTypeOK, NEW f \in Fill, given' = given,
         Stage[pc'[f]] \in Nat, HandlerStage[h'[f]] \in Nat,
         Stage[pc'[f]] + HandlerStage[h'[f]] < Stage[pc[f]] + HandlerStage[h[f]],
         Stage[pc[f]] \in Nat, HandlerStage[h[f]] \in Nat
  PROVE  Distance(f)' < Distance(f)
  <1>1. 8 * (Chunks[f] - given[f]) \in Int
    BY StreamAssumption DEF StreamTypeOK
  <1> QED
    BY <1>1 DEF Distance

\* Every step of the goroutine or the handler of f, whichever branch it takes.
LEMMA FillStepNearer ==
  ASSUME StreamInv, NEW f \in Fill, Arrive(f) \/ FillStep(f) \/ HandlerStep(f)
  PROVE  Distance(f)' < Distance(f)
  <1> USE DEF At, Goto, request, data
  <1>0. StreamTypeOK /\ StreamTypeOK' /\ SlotInv /\ FillInv(f)
    BY MoveKeeps DEF StreamMove, Kept, StreamInv
  <1>1. /\ Stage[pc[f]] \in Nat /\ HandlerStage[h[f]] \in Nat
        /\ Stage[pc'[f]] \in Nat /\ HandlerStage[h'[f]] \in Nat
    BY <1>0, StageType, HandlerStageType DEF StreamTypeOK
  <1>2. CASE \/ Lead(f) \/ UpsertFails(f) \/ AcquireRefused(f) \/ Acquire(f) \/ Enqueue(f) \/ StopWaiting(f)
             \/ Granted(f) \/ Request(f) \/ RecordFailure(f)
    <2>1. /\ given' = given /\ h' = h
          /\ \/ pc[f] = "pull" /\ pc'[f] \in {"acquire", "giveUp"}
             \/ pc[f] = "acquire" /\ pc'[f] \in {"queued", "request", "recordFailure"}
             \/ pc[f] = "queued" /\ pc'[f] = "recordFailure"
             \/ pc[f] = "granted" /\ pc'[f] = "request"
             \/ pc[f] = "request" /\ pc'[f] = "writer"
             \/ pc[f] = "recordFailure" /\ pc'[f] = "giveUp"
      BY <1>0, <1>2
         DEF StreamTypeOK, Lead, UpsertFails, AcquireRefused, Acquire, Enqueue, StopWaiting, Granted,
             Request, RecordFailure
    <2>2. Stage[pc'[f]] < Stage[pc[f]]
      BY <2>1, StageValues
    <2> QED
      BY <1>0, <1>1, <2>1, <2>2, NearerWithoutData
  <1>3. CASE \/ ReadChunk(f) \/ BodyEnds(f) \/ ReadFails(f) \/ PipeBroken(f) \/ StoreChunk(f)
             \/ StoreFails(f) \/ MarkReady(f) \/ MarkError(f) \/ Unlock(f) \/ Commit(f)
             \/ CommitFails(f) \/ EndStream(f)
    <2>1. /\ given' = given /\ h' = h
          /\ \/ pc[f] = "store" /\ pc'[f] \in {"read", "markError"}
             \/ pc[f] = "read" /\ pc'[f] \in {"pipe", "markReady", "markError"}
             \/ pc[f] = "pipe" /\ pc'[f] = "markError"
             \/ pc[f] \in {"markReady", "markError"} /\ pc'[f] = "unlock"
             \/ pc[f] = "unlock" /\ pc'[f] = "commit"
             \/ pc[f] = "commit" /\ pc'[f] = "endStream"
             \/ pc[f] = "endStream" /\ pc'[f] = "closeBody"
      BY <1>0, <1>3
         DEF StreamTypeOK, ReadChunk, BodyEnds, ReadFails, PipeBroken, StoreChunk, StoreFails,
             MarkReady, MarkError, Unlock, Commit, CommitFails, EndStream
    <2>2. Stage[pc'[f]] < Stage[pc[f]]
      BY <2>1, StageValues
    <2> QED
      BY <1>0, <1>1, <2>1, <2>2, NearerWithoutData
  <1>4. CASE GrantedTooLate(f) \/ RequestFails(f) \/ OpenWriterFails(f) \/ CloseBody(f)
    <2>1. \/ pc[f] \in {"granted", "request", "writer"} /\ pc'[f] = "recordFailure"
          \/ pc[f] = "closeBody" /\ pc'[f] = "done"
      <3>1. CASE GrantedTooLate(f) \/ RequestFails(f) \/ OpenWriterFails(f)
        BY <1>0, <3>1, SlotReleased DEF GrantedTooLate, RequestFails, OpenWriterFails, SlotPc, FillPc
      <3>2. CASE CloseBody(f)
        BY <1>0, <3>2, SlotReleased DEF CloseBody, SlotPc, FillPc
      <3> QED
        BY <1>4, <3>1, <3>2
    <2>2. given' = given /\ h' = h
      BY <1>4 DEF GrantedTooLate, RequestFails, OpenWriterFails, CloseBody
    <2> QED
      BY <1>0, <1>1, <2>1, <2>2, StageValues, NearerWithoutData
  <1>5. CASE Arrive(f) \/ PullReturns(f) \/ LockLost(f) \/ GiveUp(f) \/ OpenWriter(f)
    <2>1. /\ given' = given
          /\ \/ pc[f] = "idle" /\ pc'[f] = "pull" /\ h[f] = "none" /\ h'[f] = "pull"
             \/ /\ pc[f] \in {"pull", "giveUp"} /\ pc'[f] = "done"
                /\ h[f] = "pull" /\ h'[f] = "answered"
             \/ pc[f] = "writer" /\ pc'[f] = "read" /\ h[f] = "pull" /\ h'[f] = "read"
      BY <1>0, <1>5
         DEF StreamTypeOK, FillInv, EndsInv, PullPc, Arrive, PullReturns, LockLost, GiveUp, OpenWriter, Return
    <2>2. Stage[pc'[f]] < Stage[pc[f]] /\ HandlerStage[h'[f]] < HandlerStage[h[f]]
      BY <2>1, StageValues, HandlerStageValues
    <2> QED
      BY <1>0, <1>1, <2>1, <2>2, NearerWithoutData
  <1>6. CASE HandlerStep(f)
    <2>1. given' = given /\ pc' = pc /\ HandlerStage[h'[f]] < HandlerStage[h[f]]
      BY <1>0, <1>6, HandlerStageValues DEF StreamTypeOK, Returned, HandlerStep, Send, SendFails, StreamEnds, Return
    <2> QED
      BY <1>0, <1>1, <2>1, NearerWithoutData
  <1>7. CASE HandOver(f)
    <2>1. /\ pc[f] = "pipe" /\ pc'[f] = "store" /\ h[f] = "read" /\ h'[f] = "write"
          /\ given'[f] = given[f] + 1 /\ given[f] \in Int
      BY <1>0, <1>7 DEF StreamTypeOK, HandOver
    <2> QED
      BY <2>1, StreamAssumption, StageValues, HandlerStageValues DEF Distance
  <1> QED
    BY <1>2, <1>3, <1>4, <1>5, <1>6, <1>7 DEF FillStep

LEMMA MoveNearer ==
  ASSUME StreamInv, NEW f \in Fill, StreamMove(f), NEW g \in Fill
  PROVE  /\ pc'[g] # pc[g] \/ h'[g] # h[g] => Distance(g)' < Distance(g)
         /\ Distance(g)' <= Distance(g)
  <1>0. StreamTypeOK /\ Others(f)
    BY MoveKeeps DEF Kept
  <1>1. Distance(g) \in Int /\ Distance(g)' \in Int
    <2>1. StreamTypeOK'
      BY MoveKeeps DEF Kept
    <2>2. Stage[pc'[g]] \in Nat /\ HandlerStage[h'[g]] \in Nat
      BY <2>1, StageType, HandlerStageType DEF StreamTypeOK
    <2>3. given'[g] \in Int /\ Chunks[g] \in Int
      BY <2>1, StreamAssumption DEF StreamTypeOK
    <2> QED
      BY <1>0, <2>2, <2>3, DistanceType DEF Distance
  <1>2. 8 * (Chunks[g] - given[g]) \in Int /\ HandlerStage[h[g]] \in Nat
    <2>1. given[g] \in Int /\ Chunks[g] \in Int
      BY <1>0, StreamAssumption DEF StreamTypeOK
    <2>2. HandlerStage[h[g]] \in Nat
      BY <1>0, HandlerStageType DEF StreamTypeOK
    <2> QED
      BY <2>1, <2>2
  <1>3. CASE g = f /\ (Arrive(f) \/ FillStep(f) \/ HandlerStep(f))
    <2>1. Distance(g)' < Distance(g)
      BY <1>3, FillStepNearer
    <2> QED
      BY <1>1, <2>1
  <1>4. CASE g = f /\ ClientStep(f)
    <2>1. pc' = pc /\ h' = h /\ given' = given
      BY <1>4 DEF ClientStep, Disconnect, Stall, data
    <2> QED
      BY <1>1, <2>1 DEF Distance
  <1>5. CASE g # f
    <2>1. /\ h'[g] = h[g] /\ given'[g] = given[g]
          /\ pc'[g] = pc[g] \/ (pc[g] = "queued" /\ pc'[g] = "granted")
      BY <1>0, <1>5 DEF Others
    <2>2. CASE pc'[g] = pc[g]
      BY <1>1, <2>1, <2>2 DEF Distance
    <2>3. CASE pc[g] = "queued" /\ pc'[g] = "granted"
      BY <1>2, <2>1, <2>3, StageValues DEF Distance
    <2> QED
      BY <2>1, <2>2, <2>3
  <1> QED
    BY <1>3, <1>4, <1>5 DEF StreamMove

\* The measure never passes zero: no more chunks are handed over than there are.
LEMMA DistanceNat ==
  ASSUME LifeInv, NEW f \in Fill
  PROVE  Distance(f) \in Nat
  <1>1. Stage[pc[f]] \in Nat /\ HandlerStage[h[f]] \in Nat
    BY StageType, HandlerStageType DEF LifeInv, StreamInv, StreamTypeOK
  <1>2. given[f] \in Nat /\ Chunks[f] \in Nat /\ given[f] <= Chunks[f]
    BY StreamAssumption DEF LifeInv, StreamInv, StreamTypeOK, FillInv, DataInv
  <1>3. 8 * (Chunks[f] - given[f]) \in Nat
    BY <1>2
  <1> QED
    BY <1>1, <1>3 DEF Distance

\* A request makes at most 8 * Chunks[f] + 21 steps, whatever fails and whoever else is
\* served meanwhile.
THEOREM EveryMoveCountsAlways == Spec => EveryMoveCounts
  <1> DEFINE Counts == \A f \in Fill :
                 /\ pc'[f] # pc[f] \/ h'[f] # h[f] => Distance(f)' < Distance(f)
                 /\ Distance(f)' <= Distance(f)
  <1>1. LifeInv /\ [Next]_vars => [Counts]_svars
    <2> SUFFICES ASSUME LifeInv, [Next]_vars PROVE [Counts]_svars
      OBVIOUS
    <2>1. CASE \E f \in Fill : Accept(f) \/ Works(f) \/ Handles(f) \/ Moves(f)
      BY <2>1, MoveNearer DEF Accept, Works, Handles, Moves, StreamMove, LifeInv
    <2>2. CASE RunStep \/ SigTerm \/ ServerFails \/ UNCHANGED vars
      <3>1. UNCHANGED <<given, pc, h>>
        BY <2>2 DEF RunStep, SigTerm, ServerFails, vars, svars, Load, LoadFails, OpenDB,
           OpenDBFails, OpenValkey, OpenValkeyFails, OpenStorage, OpenStorageFails, Drain,
           Drained, GraceEnds, CloseStorage, CloseValkey, CloseDB, CloseAnd, Unchanged,
           request, data
      <3>2. \A f \in Fill : Distance(f) \in Int
        BY DistanceType DEF LifeInv, StreamInv
      <3> QED
        BY <3>1, <3>2 DEF Distance
    <2> QED
      BY <2>1, <2>2 DEF Next
  <1> DEFINE Counted == \A f \in Fill : Distance(f) \in Nat
  <1>2. LifeInv => Counted
    BY DistanceNat
  <1>3. ASSUME [Counts]_svars, Counted, Counted'
        PROVE  [\A f \in Fill : /\ pc'[f] # pc[f] \/ h'[f] # h[f] => Distance(f)' < Distance(f)
                                /\ Distance(f)' \in 0..Distance(f)]_svars
    <2>1. CASE UNCHANGED svars
      BY <2>1
    <2>2. CASE Counts
      <3> SUFFICES ASSUME NEW f \in Fill PROVE Distance(f)' \in 0..Distance(f)
        BY <2>2
      <3>1. Distance(f) \in Nat /\ Distance(f)' \in Nat /\ Distance(f)' <= Distance(f)
        BY <1>3, <2>2
      <3> QED
        BY <3>1
    <2> QED
      BY <1>3, <2>1, <2>2
  <1> QED
    BY <1>1, <1>2, <1>3, LifeInvInductive, PTL DEF Spec, EveryMoveCounts
-----------------------------------------------------------------------------
(* max_concurrent = 0, which Load accepts.                                 *)

\* Nothing was streamed and nothing published.
Nothing == \A f \in Fill : /\ ~HasSlot(f)
                           /\ h[f] \notin {"read", "write"}
                           /\ given[f] = 0 /\ record[f] # "ready"

LEMMA NobodyHasSlot ==
  ASSUME StreamInv, MaxConcurrent = 0
  PROVE  \A f \in Fill : ~HasSlot(f)
  <1>1. free \in Nat /\ free + Cardinality(Holders) = 0
    BY DEF StreamInv, StreamTypeOK, SlotInv
  <1>2. Cardinality(Holders) = 0
    BY <1>1, HoldersFinite
  <1>3. Holders = {}
    BY <1>2, HoldersFinite, FS_EmptySet
  <1> QED
    BY <1>3 DEF Holders

LEMMA NothingMove ==
  ASSUME StreamInv, StreamInv', MaxConcurrent = 0, Nothing, NEW f \in Fill, StreamMove(f)
  PROVE  Nothing'
  <1> USE DEF At, Goto, sem, request, data, shared
  <1>0. StreamTypeOK /\ Others(f) /\ pc[f] \notin SlotPc /\ h[f] \notin {"read", "write"}
        /\ given[f] = 0 /\ record[f] # "ready"
    BY MoveKeeps DEF Nothing, HasSlot, Kept
  <1>1. /\ h'[f] \notin {"read", "write"}
        /\ given'[f] = 0 /\ record'[f] # "ready"
    <2>1. CASE \/ Arrive(f) \/ PullReturns(f) \/ Lead(f) \/ LockLost(f) \/ AcquireRefused(f)
               \/ Acquire(f) \/ Enqueue(f) \/ StopWaiting(f) \/ GiveUp(f)
      BY <1>0, <2>1
         DEF StreamTypeOK, Arrive, PullReturns, Lead, LockLost, AcquireRefused, Acquire, Enqueue,
             StopWaiting, GiveUp, Return
    <2>4. CASE UpsertFails(f) \/ RecordFailure(f)
      <3>1. record'[f] \in {record[f], "filling", "error"}
        BY <1>0, <2>4, RowUpserted, RowWritten DEF RecordFailure
      <3> QED
        BY <1>0, <2>4, <3>1 DEF UpsertFails, RecordFailure
    <2>2. CASE HandlerStep(f) \/ ClientStep(f)
      BY <1>0, <2>2
         DEF StreamTypeOK, HandlerStep, Send, SendFails, StreamEnds, ClientStep, Disconnect,
             Stall, Return
    <2>3. CASE \/ Granted(f) \/ GrantedTooLate(f) \/ Request(f) \/ RequestFails(f)
               \/ OpenWriter(f) \/ OpenWriterFails(f)
               \/ ReadChunk(f) \/ BodyEnds(f) \/ ReadFails(f)
               \/ HandOver(f) \/ PipeBroken(f) \/ StoreChunk(f) \/ StoreFails(f)
               \/ MarkReady(f) \/ MarkError(f) \/ Unlock(f) \/ Commit(f) \/ CommitFails(f)
               \/ EndStream(f) \/ CloseBody(f)
      BY <1>0, <2>3
         DEF SlotPc, Granted, GrantedTooLate, Request, RequestFails, OpenWriter,
             OpenWriterFails, ReadChunk, BodyEnds, ReadFails, HandOver, PipeBroken,
             StoreChunk, StoreFails, MarkReady, MarkError, Unlock, Commit, CommitFails,
             EndStream, CloseBody
    <2> QED
      BY <2>1, <2>2, <2>3, <2>4 DEF StreamMove, FillStep
  <1>2. \A g \in Fill : ~HasSlot(g)'
    <2>1. free' \in Nat /\ free' + Cardinality(Holders)' = 0
      BY DEF StreamInv, StreamTypeOK, SlotInv
    <2>2. Holders' \subseteq Fill
      BY DEF Holders
    <2>3. IsFiniteSet(Holders') /\ Cardinality(Holders') \in Nat
      BY <2>2, FillAssumption, FS_Subset, FS_CardinalityType
    <2>4. Cardinality(Holders') = 0
      BY <2>1, <2>3
    <2>5. Holders' = {}
      BY <2>3, <2>4, FS_EmptySet
    <2> QED
      BY <2>5 DEF Holders
  <1> QED
    BY <1>0, <1>1, <1>2 DEF Nothing, Others

\* fetcher.go:65: with max_concurrent at 0, which no validation refuses, the node
\* starts and serves, and not one byte of an artifact ever passes through it.
THEOREM NoSlotsNoStream ==
  ASSUME MaxConcurrent = 0
  PROVE  Spec => []Nothing
  <1>1. Init => Nothing
    BY DEF Init, NothingArrived, Nothing, HasSlot, SlotPc
  <1>2. LifeInv /\ LifeInv' /\ Nothing /\ [Next]_vars => Nothing'
    <2> SUFFICES ASSUME LifeInv, LifeInv', Nothing, [Next]_vars PROVE Nothing'
      OBVIOUS
    <2>1. CASE \E f \in Fill : Accept(f) \/ Works(f) \/ Handles(f) \/ Moves(f)
      BY <2>1, NothingMove DEF Accept, Works, Handles, Moves, StreamMove, LifeInv
    <2>2. CASE RunStep \/ SigTerm \/ ServerFails \/ UNCHANGED vars
      <3>1. UNCHANGED <<pc, h, given, record>>
        BY <2>2 DEF RunStep, SigTerm, ServerFails, vars, svars, Load, LoadFails, OpenDB,
           OpenDBFails, OpenValkey, OpenValkeyFails, OpenStorage, OpenStorageFails, Drain,
           Drained, GraceEnds, CloseStorage, CloseValkey, CloseDB, CloseAnd, Unchanged,
           request, data, shared
      <3> QED
        BY <3>1 DEF Nothing, HasSlot
    <2> QED
      BY <2>1, <2>2 DEF Next
  <1> QED
    BY <1>1, <1>2, LifeInvInductive, PTL DEF Spec
-----------------------------------------------------------------------------
(* The writer of a fill, as BlobWriter promises it and S3Writer implements *)
(* it: a chunk is an accepted unit, and the store reports what it did.     *)

Outcome(f) == IF object[f] = "none" THEN "open"
              ELSE IF object[f] = "failed" THEN "failed" ELSE "ok"

Committed(f) == IF object[f] \in {"whole", "part"} THEN {stored[f]} ELSE {}

Blob(f) == INSTANCE BlobWriter WITH accepted <- stored[f], outcome <- Outcome(f),
                                    stored <- Committed(f)

\* Nothing else of a fill touches its writer.
LEMMA WriterAlone ==
  ASSUME NEW f \in Fill, UNCHANGED <<stored[f], object[f]>>
  PROVE  UNCHANGED Blob(f)!vars
  BY DEF Blob!vars, Outcome, Committed

\* The steps that use the writer of f.
LEMMA WriterStep ==
  ASSUME StreamInv, NEW f \in Fill, SettleInv(f), StreamMove(f)
  PROVE  [Blob(f)!Next]_(Blob(f)!vars)
  <1> USE DEF StreamInv, StreamTypeOK
  <1>1. CASE StoreChunk(f)
    <2>1. object[f] = "none" /\ UNCHANGED object
      BY <1>1 DEF StoreChunk, SettleInv, At, shared
    <2>2. stored[f] \in Nat /\ stored'[f] = stored[f] + 1
      BY <1>1 DEF StoreChunk
    <2> QED
      BY <2>1, <2>2 DEF Blob!Next, Blob!Accept, Outcome, Committed
  <1>2. CASE Commit(f)
    <2>1. object[f] = "none" /\ object'[f] \in {"whole", "part"} /\ stored' = stored
      BY <1>2 DEF Commit, SettleInv, At, data
    <2> QED
      BY <2>1 DEF Blob!Next, Blob!Commit, Outcome, Committed
  <1>3. CASE CommitFails(f)
    <2>1. object[f] = "none" /\ object'[f] = "failed" /\ stored' = stored
      BY <1>3 DEF CommitFails, SettleInv, At, data
    <2> QED
      BY <2>1 DEF Blob!Next, Blob!Fail, Outcome, Committed
  <1>4. CASE Arrive(f) \/ HandlerStep(f) \/ ClientStep(f)
    <2>1. UNCHANGED <<stored, object>>
      BY <1>4 DEF Arrive, HandlerStep, Send, SendFails, StreamEnds, ClientStep, Disconnect, Stall,
         data, shared
    <2> QED
      BY <2>1, WriterAlone
  <1>5. CASE \/ PullReturns(f) \/ Lead(f) \/ LockLost(f) \/ UpsertFails(f)
             \/ AcquireRefused(f) \/ Acquire(f) \/ Enqueue(f) \/ StopWaiting(f) \/ Granted(f) \/ GrantedTooLate(f) \/ Request(f)
             \/ RequestFails(f) \/ OpenWriter(f) \/ OpenWriterFails(f) \/ RecordFailure(f)
             \/ GiveUp(f)
    <2>1. UNCHANGED <<stored, object>>
      BY <1>5 DEF PullReturns, Lead, LockLost, UpsertFails, AcquireRefused, Acquire, Enqueue, StopWaiting, Granted,
         GrantedTooLate, Request, RequestFails, OpenWriter, OpenWriterFails, RecordFailure,
         GiveUp, data, shared
    <2> QED
      BY <2>1, WriterAlone
  <1>6. CASE \/ ReadChunk(f) \/ BodyEnds(f) \/ ReadFails(f) \/ HandOver(f) \/ PipeBroken(f)
             \/ StoreFails(f) \/ MarkReady(f) \/ MarkError(f) \/ Unlock(f) \/ EndStream(f)
             \/ CloseBody(f)
    <2>1. UNCHANGED <<stored, object>>
      BY <1>6 DEF ReadChunk, BodyEnds, ReadFails, HandOver, PipeBroken, StoreFails, MarkReady,
         MarkError, Unlock, EndStream, CloseBody, data, shared
    <2> QED
      BY <2>1, WriterAlone
  <1> QED
    BY <1>1, <1>2, <1>3, <1>4, <1>5, <1>6 DEF StreamMove, FillStep

\* Every writer starts, and goes on, as BlobWriter lets it.
BlobsStart == \A f \in Fill : Blob(f)!Init

BlobsMove == [][\A f \in Fill : [Blob(f)!Next]_(Blob(f)!vars)]_vars

\* Each fill uses its writer as BlobWriter allows, whatever fails and whenever the
\* node stops: nothing is written after Close, which is called at most once, and
\* what is visible is what was written.  S3Writer is proved to implement the same
\* BlobWriter, so the two models meet in it.
THEOREM WritersAreBlobs == Spec => BlobsStart /\ BlobsMove
  <1> DEFINE Moved == \A f \in Fill : [Blob(f)!Next]_(Blob(f)!vars)
  <1>1. Init => BlobsStart
    <2> SUFFICES ASSUME Init, NEW f \in Fill
                 PROVE  Blob(f)!Init
      BY DEF BlobsStart
    <2>1. stored[f] = 0 /\ object[f] = "none"
      BY DEF Init, NothingArrived
    <2>2. Outcome(f) = "open" /\ Committed(f) = {}
      BY <2>1 DEF Outcome, Committed
    <2> QED
      BY <2>1, <2>2, Zenon DEF Blob!Init
  <1>2. LifeInv /\ (\A f \in Fill : SettleInv(f)) /\ [Next]_vars => [Moved]_vars
    <2> SUFFICES ASSUME LifeInv, \A g \in Fill : SettleInv(g), [Next]_vars, NEW f \in Fill
                 PROVE  [Blob(f)!Next]_(Blob(f)!vars)
      OBVIOUS
    <2>1. ASSUME NEW g \in Fill, StreamMove(g)
          PROVE  [Blob(f)!Next]_(Blob(f)!vars)
      <3>1. CASE g = f
        BY <2>1, <3>1, WriterStep DEF LifeInv
      <3>2. CASE g # f
        <4>1. Others(g)
          BY <2>1, MoveKeeps DEF Kept, LifeInv
        <4>2. UNCHANGED <<stored[f], object[f]>>
          BY <3>2, <4>1 DEF Others
        <4> QED
          BY <4>2, WriterAlone
      <3> QED
        BY <3>1, <3>2
    <2>2. CASE RunStep \/ SigTerm \/ ServerFails \/ UNCHANGED vars
      <3>1. UNCHANGED <<stored, object>>
        BY <2>2 DEF RunStep, SigTerm, ServerFails, vars, svars, Load, LoadFails, OpenDB,
           OpenDBFails, OpenValkey, OpenValkeyFails, OpenStorage, OpenStorageFails, Drain,
           Drained, GraceEnds, CloseStorage, CloseValkey, CloseDB, CloseAnd, Unchanged,
           data, shared
      <3> QED
        BY <3>1, WriterAlone
    <2> QED
      BY <2>1, <2>2 DEF Next, Accept, Works, Handles, Moves, StreamMove
  <1> QED
    BY <1>1, <1>2, SettleInductive, LifeInvInductive, PTL DEF Spec, BlobsMove
=============================================================================
