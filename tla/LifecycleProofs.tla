-------------------------- MODULE LifecycleProofs --------------------------
(***************************************************************************)
(* The safety of a node through its whole life: StreamInv, which the       *)
(* requests keep, together with what each phase says of the clients and of *)
(* the connections.                                                        *)
(***************************************************************************)
EXTENDS Lifecycle, FillStreamProofs

Starting == {"load", "database", "coordinator", "storage"}

Closing == {"closeStorage", "closeValkey", "closeDB", "exited"}

\* Run opens and closes its clients like a stack.
OpenIn(p) == CASE p \in {"load", "database", "exited"} -> {}
               [] p \in {"coordinator", "closeDB"} -> {"db"}
               [] p \in {"storage", "closeValkey"} -> {"db", "valkey"}
               [] p \in {"serving", "draining", "closeStorage"} -> Clients

PhaseInv == /\ open = OpenIn(phase)
            /\ phase \in Starting => \A f \in Fill : h[f] = "none"
            /\ phase \in Closing /\ ~cut => \A f \in Fill : ~Active(f)

LifeType == /\ provider \in Spellings /\ phase \in Phases
            /\ stop \in BOOLEAN /\ cut \in BOOLEAN

LifeInv == StreamInv /\ LifeType /\ PhaseInv
-----------------------------------------------------------------------------
(* The steps of the requests.                                              *)

\* Only an arrival makes a connection active.
LEMMA NoneBecomesActive ==
  ASSUME StreamInv, NEW f \in Fill,
         FillStep(f) \/ HandlerStep(f) \/ ClientStep(f),
         NEW g \in Fill, ~Active(g)
  PROVE  ~Active(g)'
  <1> USE DEF Active, Returned, StreamInv, StreamTypeOK
  <1>1. FillInv(g)
    BY DEF StreamInv
  <1>2. ASSUME PullReturns(f) \/ LockLost(f) \/ GiveUp(f) \/ SendFails(f) \/ StreamEnds(f)
        PROVE  ~Active(g)'
    BY <1>2 DEF PullReturns, LockLost, GiveUp, SendFails, StreamEnds, Return
  <1>3. ASSUME OpenWriter(f) PROVE ~Active(g)'
    BY <1>1, <1>3 DEF OpenWriter, At, FillInv, EndsInv, PullPc
  <1>4. ASSUME HandOver(f) \/ Send(f) PROVE ~Active(g)'
    BY <1>4 DEF HandOver, Send
  <1>5. ASSUME UNCHANGED h PROVE ~Active(g)'
    BY <1>5
  <1>6. \/ PullReturns(f) \/ LockLost(f) \/ GiveUp(f) \/ SendFails(f) \/ StreamEnds(f)
        \/ OpenWriter(f) \/ HandOver(f) \/ Send(f) \/ UNCHANGED h
    BY DEF FillStep, HandlerStep, ClientStep, request, Lead, UpsertFails, AcquireRefused, Acquire,
           Enqueue, StopWaiting, Granted, GrantedTooLate, Request, RequestFails,
           OpenWriterFails, RecordFailure, ReadChunk, BodyEnds, ReadFails, PipeBroken,
           StoreChunk, StoreFails, MarkReady, MarkError, Unlock, Commit, CommitFails,
           EndStream, CloseBody, Disconnect, Stall
  <1> QED
    BY <1>2, <1>3, <1>4, <1>5, <1>6

\* A node on which nothing has arrived makes no step of a request.
LEMMA NothingMoves ==
  ASSUME StreamInv, NEW f \in Fill, h[f] = "none"
  PROVE  ~(FillStep(f) \/ HandlerStep(f) \/ ClientStep(f))
  <1>1. pc[f] = "idle"
    BY DEF StreamInv, FillInv, EndsInv
  <1>2. ~FillStep(f)
    BY <1>1 DEF FillStep, At, PullReturns, Lead, LockLost, UpsertFails, AcquireRefused, Acquire,
           Enqueue, StopWaiting, Granted, GrantedTooLate, Request, RequestFails,
           OpenWriter, OpenWriterFails, RecordFailure, GiveUp, ReadChunk, BodyEnds,
           ReadFails, HandOver, PipeBroken, StoreChunk, StoreFails, MarkReady, MarkError,
           Unlock, Commit, CommitFails, EndStream, CloseBody
  <1> QED
    BY <1>2 DEF HandlerStep, ClientStep, Send, SendFails, StreamEnds, Disconnect, Stall, Active

LEMMA NodeKept ==
  ASSUME StreamInv, NEW f \in Fill,
         Arrive(f) \/ FillStep(f) \/ HandlerStep(f) \/ ClientStep(f)
  PROVE  open' = open /\ provider' = provider
  BY DEF Arrive, FillStep, HandlerStep, ClientStep, node, PullReturns, Lead, LockLost, UpsertFails, AcquireRefused,
         Acquire, Enqueue, StopWaiting, Granted, GrantedTooLate, Request, RequestFails,
         OpenWriter, OpenWriterFails, RecordFailure, GiveUp, ReadChunk, BodyEnds,
         ReadFails, HandOver, PipeBroken, StoreChunk, StoreFails, MarkReady, MarkError,
         Unlock, Commit, CommitFails, EndStream, CloseBody, Send, SendFails, StreamEnds,
         Disconnect, Stall

LEMMA ArriveKept ==
  ASSUME LifeInv, NEW f \in Fill, Accept(f)
  PROVE  LifeInv'
  <1>1. StreamInv' /\ open' = open /\ provider' = provider
    BY StreamStepInv, NodeKept DEF LifeInv, Accept
  <1>2. phase = "serving" /\ UNCHANGED life
    BY DEF Accept
  <1> QED
    BY <1>1, <1>2 DEF LifeInv, LifeType, PhaseInv, life, Starting, Closing, OpenIn

LEMMA WorkKept ==
  ASSUME LifeInv, NEW f \in Fill, Works(f) \/ Handles(f) \/ Moves(f)
  PROVE  LifeInv'
  <1>1. /\ FillStep(f) \/ HandlerStep(f) \/ ClientStep(f)
        /\ UNCHANGED life
    BY DEF Works, Handles, Moves
  <1>2. StreamInv' /\ open' = open /\ provider' = provider
    BY <1>1, StreamStepInv, NodeKept DEF LifeInv
  <1>3. phase \notin Starting
    BY <1>1, NothingMoves DEF LifeInv, PhaseInv
  <1>4. phase \in Closing /\ ~cut => \A g \in Fill : ~Active(g)'
    BY <1>1, NoneBecomesActive DEF LifeInv, PhaseInv
  <1>5. PhaseInv'
    BY <1>1, <1>2, <1>3, <1>4 DEF LifeInv, PhaseInv, life, Active, OpenIn
  <1> QED
    BY <1>1, <1>2, <1>5 DEF LifeInv, LifeType, life
-----------------------------------------------------------------------------
(* The steps of Run.                                                       *)

\* The clients change, and nothing else of the requests: a fill that saw them all
\* open and still does is the one it was.
LEMMA StreamKept ==
  ASSUME StreamInv, Unchanged, open' \subseteq Clients,
         open' = Clients => open = Clients \/ \A f \in Fill : h[f] = "none"
  PROVE  StreamInv'
  <1> USE DEF Unchanged, sem, request, data, shared
  <1>1. StreamTypeOK' /\ SlotInv'
    BY DEF StreamInv, StreamTypeOK, SlotInv, Holders, HasSlot
  <1>2. \A f \in Fill : FillInv(f)'
    <2> TAKE f \in Fill
    <2>1. EndsInv(f)' /\ DataInv(f)'
      BY DEF StreamInv, FillInv, EndsInv, DataInv
    <2>2. CleanInv(f)'
      BY DEF StreamInv, FillInv, CleanInv, Undisturbed
    <2> QED
      BY <2>1, <2>2 DEF FillInv
  <1> QED
    BY <1>1, <1>2 DEF StreamInv

LEMMA StartKept ==
  ASSUME LifeInv,
         \/ Load \/ LoadFails \/ OpenDB \/ OpenDBFails \/ OpenValkey \/ OpenValkeyFails
         \/ OpenStorage \/ OpenStorageFails
  PROVE  LifeInv'
  <1> USE DEF LifeInv, PhaseInv, OpenIn, Starting, Closing, Clients, Enter, node
  <1>1. Unchanged /\ \A f \in Fill : h[f] = "none" /\ h'[f] = "none"
    BY DEF Load, LoadFails, OpenDB, OpenDBFails, OpenValkey, OpenValkeyFails,
           OpenStorage, OpenStorageFails, Unchanged, request
  <1>2. PhaseInv'
    BY <1>1 DEF Load, LoadFails, OpenDB, OpenDBFails, OpenValkey, OpenValkeyFails,
           OpenStorage, OpenStorageFails, Active
  <1>3. LifeType'
    BY DEF Load, LoadFails, OpenDB, OpenDBFails, OpenValkey, OpenValkeyFails,
           OpenStorage, OpenStorageFails, LifeType, Phases, Settings
  <1>4. open' \subseteq Clients
    BY <1>2, <1>3 DEF LifeType, Phases
  <1>5. StreamInv'
    BY <1>1, <1>4, StreamKept
  <1> QED
    BY <1>2, <1>3, <1>5

LEMMA ServiceKept ==
  ASSUME LifeInv, SigTerm \/ ServerFails \/ Drain \/ Drained \/ GraceEnds
  PROVE  LifeInv'
  <1> USE DEF LifeInv, PhaseInv, Starting, Closing, SigTerm, ServerFails, Drain, Drained,
             GraceEnds, Enter
  <1>1. UNCHANGED svars
    OBVIOUS
  <1>2. StreamInv'
    BY <1>1, StreamStutters
  <1>3. LifeType'
    BY <1>1 DEF LifeType, Phases, svars
  <1>4. open' = OpenIn(phase')
    BY <1>1 DEF OpenIn, svars
  <1>5. PhaseInv'
    BY <1>1, <1>4 DEF svars, Active
  <1> QED
    BY <1>2, <1>3, <1>5

LEMMA CloseKept ==
  ASSUME LifeInv, CloseStorage \/ CloseValkey \/ CloseDB
  PROVE  LifeInv'
  <1> USE DEF LifeInv, PhaseInv, Starting, Closing, CloseStorage, CloseValkey, CloseDB,
             CloseAnd, Enter
  <1>1. Unchanged /\ open' \subseteq Clients /\ open' # Clients
    BY DEF OpenIn, Clients
  <1>2. StreamInv'
    BY <1>1, StreamKept
  <1>3. LifeType'
    BY DEF LifeType, Phases
  <1>4. open' = OpenIn(phase')
    BY DEF OpenIn, Clients
  <1>5. PhaseInv'
    BY <1>1, <1>4 DEF Unchanged, request, Active
  <1> QED
    BY <1>2, <1>3, <1>5

LEMMA LifeStutters ==
  ASSUME LifeInv, UNCHANGED vars
  PROVE  LifeInv'
  <1>1. StreamInv'
    BY StreamStutters DEF LifeInv, vars
  <1> QED
    BY <1>1 DEF LifeInv, LifeType, PhaseInv, Active, vars, svars, life
-----------------------------------------------------------------------------
(* Theorems.                                                               *)

LEMMA LifeInvInductive == Spec => []LifeInv
  <1>1. Init => LifeInv
    <2> SUFFICES ASSUME Init PROVE LifeInv
      OBVIOUS
    <2>1. StreamInv
      BY NothingArrivedInv DEF Init
    <2> QED
      BY <2>1 DEF Init, NothingArrived, LifeInv, LifeType, PhaseInv, OpenIn, Starting,
             Closing, Spellings, Phases
  <1>2. LifeInv /\ [Next]_vars => LifeInv'
    BY ArriveKept, WorkKept, StartKept, ServiceKept, CloseKept, LifeStutters
       DEF Next, RunStep
  <1> QED
    BY <1>1, <1>2, PTL DEF Spec

\* The variables keep their types.
THEOREM TypeCorrect == Spec => []TypeOK
  <1>1. LifeInv => TypeOK
    BY DEF LifeInv, StreamInv, LifeType, TypeOK
  <1> QED
    BY <1>1, LifeInvInductive, PTL

\* Of any number of slots none is lost, returned twice, or free while a fetch
\* waits, through start, service and shutdown.
THEOREM SlotsBalancedAlways == Spec => []SlotsBalanced
  <1>1. LifeInv => SlotsBalanced
    BY StreamInvImplies DEF LifeInv
  <1> QED
    BY <1>1, LifeInvInductive, PTL

\* A record is READY only with every chunk handed to the client and to the
\* storage writer.
THEOREM PublishedIsWholeAlways == Spec => []PublishedIsWhole
  <1>1. LifeInv => PublishedIsWhole
    BY StreamInvImplies DEF LifeInv
  <1> QED
    BY <1>1, LifeInvInductive, PTL

\* The end of the stream follows the decision of the upload.
THEOREM EndAfterCommitAlways == Spec => []EndAfterCommit
  <1>1. LifeInv => EndAfterCommit
    BY StreamInvImplies DEF LifeInv
  <1> QED
    BY <1>1, LifeInvInductive, PTL

\* A stream read to its end without a failure has left a whole object, a READY
\* record and no lock.
THEOREM StreamedIsStoredAlways == Spec => []StreamedIsStored
  <1>1. LifeInv => StreamedIsStored
    BY StreamInvImplies DEF LifeInv
  <1> QED
    BY <1>1, LifeInvInductive, PTL

\* The clients are open while requests are served, and closed when Run returns.
THEOREM ClientsBracketServiceAlways == Spec => []ClientsBracketService
  <1>1. LifeInv => ClientsBracketService
    BY DEF LifeInv, PhaseInv, OpenIn, ClientsBracketService
  <1> QED
    BY <1>1, LifeInvInductive, PTL
=============================================================================
