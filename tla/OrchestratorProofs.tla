------------------------- MODULE OrchestratorProofs -------------------------
(* Theorems of Orchestrator, for any nodes, requests and failures. *)
EXTENDS Orchestrator, MetadataStoreProofs

-----------------------------------------------------------------------------
(* Type correctness.                                                       *)

\* The part of the type invariant about the requests.
ReqTypeOK == /\ pc \in [Req -> PcNames]
             /\ node \in [Req -> Node \cup {NoNode}]
             /\ live \in [Req -> BOOLEAN]
             /\ body \in [Req -> {"none", "partial", "whole"}]
             /\ \A r \in Req : pc[r] = "idle" <=> node[r] = NoNode

\* A step to another call keeps it, ...
LEMMA GotoType ==
    ASSUME ReqTypeOK, NEW r \in Req, pc[r] # "idle",
           NEW p \in PcNames, p # "idle", Goto(r, p)
    PROVE  ReqTypeOK'
BY DEF ReqTypeOK, Goto, session

\* ... so does a return, ...
LEMMA LeaveType ==
    ASSUME ReqTypeOK, NEW r \in Req, Leave(r)
    PROVE  ReqTypeOK'
BY DEF ReqTypeOK, Leave, PcNames

\* ... and an announcement moves waiting requests to another call.
LEMMA AnnounceType ==
    ASSUME ReqTypeOK, NEW r \in Req, NEW p \in PcNames, Announce(r, p)
    PROVE  /\ status' \in BOOLEAN
           /\ pc' \in [Req -> PcNames]
           /\ pc'[r] = p
           /\ \A q \in Req \ {r} : pc'[q] = "idle" <=> pc[q] = "idle"
BY DEF ReqTypeOK, Announce, PcNames

LEMMA TypeInit == Init => TypeOK
<1> SUFFICES ASSUME Init PROVE TypeOK
  OBVIOUS
<1>1. rec \in Record \cup {NoRecord} /\ faults \in 0..MaxFaults
  BY FaultAssumption DEF Init
<1>2. pc \in [Req -> PcNames]
  BY DEF Init, PcNames
<1>3. \A r \in Req : pc[r] = "idle" <=> node[r] = NoNode
  BY DEF Init
<1> QED BY <1>1, <1>2, <1>3 DEF Init, TypeOK

LEMMA TypeStep == TypeOK /\ [Next]_vars => TypeOK'
<1> SUFFICES ASSUME TypeOK, [Next]_vars PROVE TypeOK'
  OBVIOUS
<1> USE NodeAssumption, FaultAssumption
<1>r. ReqTypeOK
  BY DEF TypeOK, ReqTypeOK
<1>1. ASSUME NEW r \in Req, Step(r) PROVE TypeOK'
  <2>1. CASE Lookup(r)
    <3>1. ReqTypeOK'
      <4>1. CASE Leave(r)
        BY <1>r, <4>1, LeaveType
      <4>2. CASE \E p \in {"open", "wait", "acquire"} : Goto(r, p)
        BY <1>r, <2>1, <4>2, GotoType DEF Lookup, At, PcNames, HoldingPc
      <4> QED BY <2>1, <4>1, <4>2 DEF Lookup
    <3> QED BY <2>1, <3>1 DEF Lookup, TypeOK, ReqTypeOK, store, coord, env
  <2>2. CASE LookupFails(r)
    BY <2>2 DEF LookupFails, At, Leave, Fails, store, coord, Abandoned, Refused, env,
       Strike, TypeOK, PcNames, HoldingPc
  <2>3. CASE OpenObject(r)
    <3>1. ReqTypeOK'
      <4>1. CASE Leave(r)
        BY <1>r, <4>1, LeaveType
      <4>2. CASE Goto(r, "demote")
        BY <1>r, <2>3, <4>2, GotoType DEF OpenObject, At, PcNames
      <4> QED BY <2>3, <4>1, <4>2 DEF OpenObject
    <3> QED BY <2>3, <3>1 DEF OpenObject, TypeOK, ReqTypeOK, store, coord, env
  <2>4. CASE OpenFails(r)
    BY <2>4 DEF OpenFails, At, Leave, Fails, store, coord, Abandoned, Refused, env,
       Strike, TypeOK, PcNames, HoldingPc
  <2>5. CASE Demote(r)
    BY <2>5, StatementsKeepRows DEF Demote, At, Goto, coord, env, session, Row, TypeOK,
       PcNames, HoldingPc
  <2>6. CASE DemoteFails(r)
    <3>1. rec' \in Row
      BY <2>6, StatementsKeepRows DEF DemoteFails, RowAfterError, At, TypeOK, Row
    <3>2. ReqTypeOK'
      BY <1>r, <2>6, LeaveType DEF DemoteFails
    <3>3. up' = up /\ provider' = provider /\ faults' \in 0..MaxFaults
      BY <2>6 DEF DemoteFails, Fails, Abandoned, Refused, Strike, env, TypeOK
    <3> QED BY <2>6, <3>1, <3>2, <3>3 DEF DemoteFails, TypeOK, ReqTypeOK, Row, coord
  <2>7. CASE Subscribe(r)
    BY <2>7 DEF Subscribe, At, Goto, store, coord, env, session, TypeOK, PcNames,
       HoldingPc
  <2>8. CASE SubscribeFails(r)
    BY <2>8 DEF SubscribeFails, At, Goto, Refused, store, coord, session, Strike, TypeOK,
       PcNames, HoldingPc
  <2>9. CASE StopWaiting(r)
    BY <2>9 DEF StopWaiting, Leave, Abandoned, store, coord, env, TypeOK, PcNames,
       HoldingPc
  <2>10. CASE Acquire(r)
    BY <2>10 DEF Acquire, At, Goto, store, env, session, TypeOK, PcNames, HoldingPc
  <2>11. CASE AcquireFails(r)
    BY <2>11 DEF AcquireFails, At, Leave, Fails, store, LockAfterError, Abandoned,
       Refused, env, Strike, TypeOK, PcNames, HoldingPc
  <2>12. CASE Recheck(r)
    BY <2>12 DEF Recheck, At, Goto, store, coord, env, session, TypeOK, PcNames, HoldingPc
  <2>13. CASE RecheckFails(r)
    BY <2>13 DEF RecheckFails, At, Goto, Fails, store, coord, session, Abandoned, Refused,
       env, Strike, TypeOK, PcNames, HoldingPc
  <2>14. CASE Drop(r)
    BY <2>14 DEF Drop, At, Leave, store, env, Unlocked, TypeOK, PcNames, HoldingPc
  <2>15. CASE DropFails(r)
    BY <2>15 DEF DropFails, At, Leave, Fails, store, LockAfterError, Unlocked, Abandoned,
       Refused, env, Strike, TypeOK, PcNames, HoldingPc
  <2>16. CASE Upsert(r)
    BY <2>16, StatementsKeepRows DEF Upsert, At, Goto, coord, env, session, Row, TypeOK,
       PcNames, HoldingPc
  <2>17. CASE UpsertFails(r)
    BY <2>17, StatementsKeepRows DEF UpsertFails, At, Goto, Fails, coord, RowAfterError,
       session, Abandoned, Refused, env, Strike, Row, TypeOK, PcNames, HoldingPc
  <2>18. CASE Fetch(r)
    BY <2>18 DEF Fetch, At, Goto, store, coord, env, session, TypeOK, PcNames, HoldingPc
  <2>19. CASE FetchFails(r)
    BY <2>19 DEF FetchFails, At, Goto, Fails, store, coord, session, Abandoned, Refused,
       env, Strike, TypeOK, PcNames, HoldingPc
  <2>20. CASE RecordSize(r)
    BY <2>20, StatementsKeepRows DEF RecordSize, At, Goto, coord, env, session, Row,
       TypeOK, PcNames, HoldingPc
  <2>21. CASE RecordSizeFails(r)
    BY <2>21, StatementsKeepRows DEF RecordSizeFails, At, Goto, Fails, coord,
       RowAfterError, session, Abandoned, Refused, env, Strike, Row, TypeOK, PcNames,
       HoldingPc
  <2>22. CASE OpenWriter(r)
    BY <2>22 DEF OpenWriter, At, Goto, store, coord, env, session, TypeOK, PcNames,
       HoldingPc
  <2>23. CASE OpenWriterFails(r)
    BY <2>23 DEF OpenWriterFails, At, Goto, Fails, store, coord, session, Abandoned,
       Refused, env, Strike, TypeOK, PcNames, HoldingPc
  <2>24. CASE RecordFailure(r)
    BY <2>24, StatementsKeepRows DEF RecordFailure, At, Goto, coord, env, session, Row,
       TypeOK, PcNames, HoldingPc
  <2>25. CASE RecordFailureFails(r)
    BY <2>25, StatementsKeepRows DEF RecordFailureFails, At, Goto, Fails, coord,
       RowAfterError, session, Abandoned, Refused, env, Strike, Row, TypeOK, PcNames,
       HoldingPc
  <2>26. CASE ReleaseFailed(r)
    BY <2>26 DEF ReleaseFailed, At, ReleaseAs, Goto, Strike, store, env, Unlocked,
       session, TypeOK, PcNames, HoldingPc
  <2>27. CASE SignalFailed(r)
    <3>1. status' \in BOOLEAN /\ UNCHANGED lock
      BY <1>r, <2>27, AnnounceType DEF SignalFailed, Announce, coord, PcNames, TypeOK
    <3>2. /\ pc' \in [Req -> PcNames]
          /\ pc'[r] = "idle"
          /\ \A q \in Req \ {r} : pc'[q] = "idle" <=> pc[q] = "idle"
      <4>1. CASE Announce(r, "idle")
        BY <1>r, <4>1, AnnounceType DEF PcNames
      <4>2. CASE pc' = [pc EXCEPT ![r] = "idle"]
        BY <1>r, <4>2 DEF ReqTypeOK, PcNames
      <4> QED BY <2>27, <4>1, <4>2 DEF SignalFailed
    <3>3. ReqTypeOK'
      BY <1>r, <2>27, <3>2 DEF SignalFailed, ReqTypeOK
    <3>4. up' = up /\ provider' = provider /\ faults' \in 0..MaxFaults
      BY <2>27 DEF SignalFailed, Fails, Abandoned, Refused, Strike, env, TypeOK
    <3> QED BY <2>27, <3>1, <3>3, <3>4 DEF SignalFailed, TypeOK, ReqTypeOK, store
  <2>28. CASE Copy(r)
    BY <2>28 DEF Copy, At, store, coord, env, TypeOK, PcNames, HoldingPc
  <2>29. CASE CopyFails(r)
    BY <2>29 DEF CopyFails, At, Fails, store, coord, Abandoned, Refused, env, Strike,
       TypeOK, PcNames, HoldingPc
  <2>30. CASE MarkReady(r)
    BY <2>30, StatementsKeepRows DEF MarkReady, At, Goto, coord, Write, session, Strike,
       env, Row, TypeOK, PcNames, HoldingPc
  <2>31. CASE MarkError(r)
    BY <2>31, StatementsKeepRows DEF MarkError, At, Goto, coord, Write, session, Strike,
       env, Row, TypeOK, PcNames, HoldingPc
  <2>32. CASE Signal(r)
    <3>1. status' \in BOOLEAN /\ UNCHANGED lock
      BY <1>r, <2>32, AnnounceType DEF Signal, Announce, coord, PcNames, HoldingPc, TypeOK
    <3>2. /\ pc' \in [Req -> PcNames]
          /\ pc'[r] = "release" /\ pc[r] = "signal"
          /\ \A q \in Req \ {r} : pc'[q] = "idle" <=> pc[q] = "idle"
      <4>1. CASE Announce(r, "release")
        BY <1>r, <2>32, <4>1, AnnounceType DEF PcNames, HoldingPc, Signal, At
      <4>2. CASE pc' = [pc EXCEPT ![r] = "release"]
        BY <1>r, <2>32, <4>2 DEF ReqTypeOK, PcNames, HoldingPc, Signal, At
      <4> QED BY <2>32, <4>1, <4>2 DEF Signal
    <3>3. ReqTypeOK'
      BY <1>r, <2>32, <3>2 DEF Signal, ReqTypeOK, session
    <3>4. up' = up /\ provider' = provider /\ faults' \in 0..MaxFaults
      BY <2>32 DEF Signal, Strike, env, TypeOK
    <3> QED BY <2>32, <3>1, <3>3, <3>4 DEF Signal, TypeOK, ReqTypeOK, store
  <2>33. CASE Release(r)
    BY <2>33 DEF Release, At, ReleaseAs, Goto, Strike, store, env, Unlocked, session,
       TypeOK, PcNames, HoldingPc
  <2>34. CASE Commit(r)
    BY <2>34 DEF Commit, At, Leave, coord, env, TypeOK, PcNames, HoldingPc
  <2>35. CASE CommitFails(r)
    BY <2>35 DEF CommitFails, At, Leave, Fails, coord, Abandoned, Refused, env, Strike,
       TypeOK, PcNames, HoldingPc
  <2> QED BY <1>1, <2>1, <2>2, <2>3, <2>4, <2>5, <2>6, <2>7, <2>8, <2>9, <2>10, <2>11,
           <2>12, <2>13, <2>14, <2>15, <2>16, <2>17, <2>18, <2>19, <2>20, <2>21, <2>22,
           <2>23, <2>24, <2>25, <2>26, <2>27, <2>28, <2>29, <2>30, <2>31, <2>32, <2>33,
           <2>34, <2>35 DEF Step
<1>2. ASSUME NEW r \in Req, Pull(r) PROVE TypeOK'
  BY <1>2 DEF Pull, At, TypeOK, store, coord, env, PcNames, HoldingPc
<1>3. ASSUME NEW r \in Req, Cancel(r) PROVE TypeOK'
  BY <1>3 DEF Cancel, Strike, TypeOK, store, coord
<1>4. ASSUME NEW n \in Node, Crash(n) PROVE TypeOK'
  <2>1. pc' \in [Req -> PcNames]
    BY <1>r, <1>4 DEF Crash, ReqTypeOK, PcNames
  <2>2. node' \in [Req -> Node \cup {NoNode}]
    BY <1>r, <1>4 DEF Crash, ReqTypeOK
  <2>3. live' \in [Req -> BOOLEAN] /\ body' \in [Req -> {"none", "partial", "whole"}]
    BY <1>r, <1>4 DEF Crash, ReqTypeOK
  <2>4. \A r \in Req : pc'[r] = "idle" <=> node'[r] = NoNode
    BY <1>r, <1>4 DEF Crash, ReqTypeOK
  <2>5. up' \subseteq Node /\ provider' = provider /\ faults' \in 0..MaxFaults
    BY <1>4 DEF Crash, TypeOK
  <2> QED BY <1>4, <2>1, <2>2, <2>3, <2>4, <2>5 DEF Crash, TypeOK, store, coord
<1>5. CASE FillGoesStale
  BY <1>5 DEF FillGoesStale, TypeOK, coord, session, env, Record, NoRecord
<1>6. CASE CooldownElapses
  BY <1>6 DEF CooldownElapses, TypeOK, coord, session, env, Record, NoRecord
<1>7. CASE LockExpires
  BY <1>7 DEF LockExpires, TypeOK, store, session, env
<1>8. CASE StatusExpires
  BY <1>8 DEF StatusExpires, TypeOK, store, session, env
<1>9. CASE UNCHANGED vars
  BY <1>9 DEF vars, TypeOK
<1> QED
  BY <1>1, <1>2, <1>3, <1>4, <1>5, <1>6, <1>7, <1>8, <1>9 DEF Next

\* Type correctness: every reachable state has the types of TypeOK.
THEOREM TypeCorrect == Spec => []TypeOK
BY TypeInit, TypeStep, PTL DEF Spec

-----------------------------------------------------------------------------
(* What a step of a request does, as seen from the lock and the record.    *)

Quiet(r) == /\ pc[r] \in HoldingPc <=> pc'[r] \in HoldingPc
            /\ rec' = rec
            /\ lock' = lock \/ lock = NoNode
            /\ pc'[r] \in FillPc => pc[r] \in FillPc
            /\ pc'[r] = "upsert" => rec.state # "ready"
            /\ Reading(r)' => Reading(r) \/ rec.state = "ready"

Leads(r) == /\ pc[r] = "acquire" /\ pc'[r] = "recheck"
            /\ lock = NoNode /\ lock' = node[r]
            /\ rec' = rec

Resigns(r) == /\ pc[r] \in HoldingPc /\ pc'[r] \notin HoldingPc /\ ~Reading(r)'
              /\ rec' = rec

Starts(r) == /\ pc[r] = "upsert" /\ pc'[r] \in {"fetch", "releaseFailed"}
             /\ rec' = UpsertRecord(node[r]) /\ lock' = lock

Sizes(r) == /\ pc[r] = "size" /\ pc'[r] = "writer"
            /\ rec' = UpdateSizeBytes(rec) /\ lock' = lock

Breaks(r) == /\ pc[r] \in {"recordFailure", "markError"}
             /\ pc'[r] \in {"releaseFailed", "signal"}
             /\ rec' = IncrementFailure(rec) /\ lock' = lock

Publishes(r) == /\ pc[r] = "markReady" /\ pc'[r] = "signal"
                /\ rec' = SetReady(rec) /\ lock' = lock

Demotes(r) == /\ pc[r] = "demote" /\ pc'[r] \in {"acquire", "idle"}
              /\ rec' = DemoteToFilling(rec, node[r]) /\ lock' = lock

\* The step moves one request; at most, waiting ones are woken.
Moves(r) == /\ \A q \in Req \ {r} : \/ pc'[q] = pc[q]
                                    \/ pc[q] = "waiting" /\ pc'[q] = "lookup"
            /\ \A q \in Req \ {r} : node'[q] = node[q]
            /\ node'[r] = node[r] \/ pc'[r] = "idle"

Effect(r) == \/ Quiet(r) \/ Leads(r) \/ Resigns(r) \/ Starts(r) \/ Sizes(r)
             \/ Breaks(r) \/ Publishes(r) \/ Demotes(r)

LEMMA StepEffect ==
    ASSUME TypeOK, NEW r \in Req, Step(r)
    PROVE  Moves(r) /\ Effect(r)
<1>1. CASE Lookup(r)
  BY <1>1 DEF Lookup, At, Goto, Leave, store, coord, MayFill, FilledElsewhere,
     CoolingDown, session, TypeOK, Moves, Effect, Quiet, HoldingPc, FillPc, Reading
<1>2. CASE LookupFails(r)
  BY <1>2 DEF LookupFails, At, Leave, Fails, store, coord, Abandoned, Refused, TypeOK,
     Moves, Effect, Quiet, HoldingPc, FillPc, Reading
<1>3. CASE OpenObject(r)
  BY <1>3 DEF OpenObject, At, Goto, Leave, store, coord, session, TypeOK, Moves,
     Effect, Quiet, HoldingPc, FillPc, Reading
<1>4. CASE OpenFails(r)
  BY <1>4 DEF OpenFails, At, Leave, Fails, store, coord, Abandoned, Refused, TypeOK,
     Moves, Effect, Quiet, HoldingPc, FillPc, Reading
<1>5. CASE Demote(r)
  BY <1>5 DEF Demote, At, Goto, coord, session, TypeOK, Moves, Effect, Demotes,
     HoldingPc, FillPc, Reading
<1>6. CASE DemoteFails(r)
  BY <1>6 DEF DemoteFails, At, Leave, Fails, coord, RowAfterError, Abandoned, Refused,
     TypeOK, Moves, Effect, Demotes, Quiet, HoldingPc, FillPc, Reading
<1>7. CASE Subscribe(r)
  BY <1>7 DEF Subscribe, At, Goto, store, coord, session, TypeOK, Moves, Effect, Quiet,
     HoldingPc, FillPc, Reading
<1>8. CASE SubscribeFails(r)
  BY <1>8 DEF SubscribeFails, At, Goto, Refused, store, coord, session, TypeOK, Moves,
     Effect, Quiet, HoldingPc, FillPc, Reading
<1>9. CASE StopWaiting(r)
  BY <1>9 DEF StopWaiting, Leave, Abandoned, store, coord, TypeOK, Moves, Effect,
     Quiet, HoldingPc, FillPc, Reading
<1>10. CASE Acquire(r)
  BY <1>10 DEF Acquire, At, Goto, store, session, TypeOK, Moves, Effect, Quiet, Leads,
     HoldingPc, FillPc, Reading
<1>11. CASE AcquireFails(r)
  BY <1>11 DEF AcquireFails, At, Leave, Fails, store, LockAfterError, Abandoned,
     Refused, TypeOK, Moves, Effect, Quiet, HoldingPc, FillPc, Reading
<1>12. CASE Recheck(r)
  BY <1>12 DEF Recheck, At, Goto, store, coord, session, TypeOK, Moves, Effect, Quiet,
     HoldingPc, FillPc, Reading
<1>13. CASE RecheckFails(r)
  BY <1>13 DEF RecheckFails, At, Goto, Fails, store, coord, session, Abandoned,
     Refused, TypeOK, Moves, Effect, Quiet, HoldingPc, FillPc, Reading
<1>14. CASE Drop(r)
  BY <1>14 DEF Drop, At, Leave, store, Unlocked, TypeOK, Moves, Effect, Resigns,
     HoldingPc, FillPc, Reading
<1>15. CASE DropFails(r)
  BY <1>15 DEF DropFails, At, Leave, Fails, store, LockAfterError, Unlocked, Abandoned,
     Refused, TypeOK, Moves, Effect, Resigns, HoldingPc, FillPc, Reading
<1>16. CASE Upsert(r)
  BY <1>16 DEF Upsert, At, Goto, coord, session, TypeOK, Moves, Effect, Starts,
     HoldingPc, FillPc, Reading
<1>17. CASE UpsertFails(r)
  BY <1>17 DEF UpsertFails, At, Goto, Fails, coord, RowAfterError, session, Abandoned,
     Refused, TypeOK, Moves, Effect, Starts, Quiet, HoldingPc, FillPc, Reading
<1>18. CASE Fetch(r)
  BY <1>18 DEF Fetch, At, Goto, store, coord, session, TypeOK, Moves, Effect, Quiet,
     HoldingPc, FillPc, Reading
<1>19. CASE FetchFails(r)
  BY <1>19 DEF FetchFails, At, Goto, Fails, store, coord, session, Abandoned, Refused,
     TypeOK, Moves, Effect, Quiet, HoldingPc, FillPc, Reading
<1>20. CASE RecordSize(r)
  BY <1>20 DEF RecordSize, At, Goto, coord, session, TypeOK, Moves, Effect, Sizes,
     HoldingPc, FillPc, Reading
<1>21. CASE RecordSizeFails(r)
  BY <1>21 DEF RecordSizeFails, At, Goto, Fails, coord, RowAfterError, session,
     Abandoned, Refused, TypeOK, Moves, Effect, Sizes, Quiet, HoldingPc, FillPc,
     Reading
<1>22. CASE OpenWriter(r)
  BY <1>22 DEF OpenWriter, At, Goto, store, coord, session, TypeOK, Moves, Effect,
     Quiet, HoldingPc, FillPc, Reading
<1>23. CASE OpenWriterFails(r)
  BY <1>23 DEF OpenWriterFails, At, Goto, Fails, store, coord, session, Abandoned,
     Refused, TypeOK, Moves, Effect, Quiet, HoldingPc, FillPc, Reading
<1>24. CASE RecordFailure(r)
  BY <1>24 DEF RecordFailure, At, Goto, coord, session, TypeOK, Moves, Effect, Breaks,
     HoldingPc, FillPc, Reading
<1>25. CASE RecordFailureFails(r)
  BY <1>25 DEF RecordFailureFails, At, Goto, Fails, coord, RowAfterError, session,
     Abandoned, Refused, TypeOK, Moves, Effect, Breaks, Quiet, HoldingPc, FillPc,
     Reading
<1>26. CASE ReleaseFailed(r)
  BY <1>26 DEF ReleaseFailed, At, ReleaseAs, Goto, store, Unlocked, session, TypeOK,
     Moves, Effect, Resigns, HoldingPc, FillPc, Reading
<1>27. CASE SignalFailed(r)
  BY <1>27 DEF SignalFailed, At, Fails, Refused, store, coord, Announce, Abandoned,
     TypeOK, Moves, Effect, Quiet, HoldingPc, FillPc, Reading
<1>28. CASE Copy(r)
  BY <1>28 DEF Copy, At, store, coord, TypeOK, Moves, Effect, Quiet, HoldingPc, FillPc,
     Reading
<1>29. CASE CopyFails(r)
  BY <1>29 DEF CopyFails, At, Fails, store, coord, Abandoned, Refused, TypeOK, Moves,
     Effect, Quiet, HoldingPc, FillPc, Reading
<1>30. CASE MarkReady(r)
  BY <1>30 DEF MarkReady, At, Goto, coord, Write, session, TypeOK, Moves, Effect,
     Publishes, Quiet, HoldingPc, FillPc, Reading
<1>31. CASE MarkError(r)
  BY <1>31 DEF MarkError, At, Goto, coord, Write, session, TypeOK, Moves, Effect,
     Breaks, Quiet, HoldingPc, FillPc, Reading
<1>32. CASE Signal(r)
  BY <1>32 DEF Signal, At, session, store, coord, Announce, TypeOK, Moves, Effect,
     Quiet, HoldingPc, FillPc, Reading
<1>33. CASE Release(r)
  BY <1>33 DEF Release, At, ReleaseAs, Goto, store, Unlocked, session, TypeOK, Moves,
     Effect, Resigns, HoldingPc, FillPc, Reading
<1>34. CASE Commit(r)
  BY <1>34 DEF Commit, At, Leave, coord, TypeOK, Moves, Effect, Quiet, HoldingPc,
     FillPc, Reading
<1>35. CASE CommitFails(r)
  BY <1>35 DEF CommitFails, At, Leave, Fails, coord, Abandoned, Refused, TypeOK, Moves,
     Effect, Quiet, HoldingPc, FillPc, Reading
<1> QED BY <1>1, <1>2, <1>3, <1>4, <1>5, <1>6, <1>7, <1>8, <1>9, <1>10, <1>11, <1>12,
           <1>13, <1>14, <1>15, <1>16, <1>17, <1>18, <1>19, <1>20, <1>21, <1>22, <1>23,
           <1>24, <1>25, <1>26, <1>27, <1>28, <1>29, <1>30, <1>31, <1>32, <1>33, <1>34,
           <1>35 DEF Step

-----------------------------------------------------------------------------
(* Single flight, for locks that outlive the fills they protect.           *)

\* The holder's node is the value of the lock, and there is one holder.
LockInv == /\ \A r \in Req : Holding(r) => lock = node[r]
           /\ SingleFlight

\* The two are inductive together: a second AcquireLock needs the lock to be
\* free, and while a request holds it its node's name is in it.
LEMMA LockStep ==
    ASSUME LocksOutliveFills, TypeOK, LockInv, [Next]_vars
    PROVE  LockInv'
<1> USE NodeAssumption
<1>1. ASSUME NEW r \in Req, Step(r) PROVE LockInv'
  <2>1. Moves(r) /\ Effect(r)
    BY <1>1, StepEffect
  <2>2. \A q \in Req \ {r} : Holding(q)' => Holding(q) /\ node'[q] = node[q]
    BY <2>1 DEF Moves, Holding, HoldingPc
  <2>3. Holding(r)' => node'[r] = node[r]
    BY <2>1 DEF Moves, Holding, HoldingPc
  <2>4. \A q \in Req : Holding(q) => node[q] \in Node
    BY DEF TypeOK, Holding, HoldingPc
  <2>5. CASE Quiet(r)
    BY <2>2, <2>3, <2>4, <2>5 DEF Quiet, LockInv, SingleFlight, Holding
  <2>6. CASE Leads(r)
    <3>1. \A q \in Req : ~Holding(q)
      BY <2>4, <2>6 DEF Leads, LockInv
    <3> QED BY <2>2, <2>3, <2>6, <3>1 DEF Leads, LockInv, SingleFlight
  <2>7. CASE Resigns(r)
    <3>1. \A q \in Req : ~Holding(q)'
      BY <2>2, <2>7 DEF Resigns, LockInv, SingleFlight, Holding
    <3> QED BY <3>1 DEF LockInv, SingleFlight
  <2>8. CASE Starts(r) \/ Sizes(r) \/ Breaks(r) \/ Publishes(r) \/ Demotes(r)
    <3>1. lock' = lock /\ (Holding(r)' => Holding(r))
      BY <2>8 DEF Starts, Sizes, Breaks, Publishes, Demotes, Holding, HoldingPc
    <3> QED BY <2>2, <2>3, <3>1 DEF LockInv, SingleFlight
  <2> QED BY <2>1, <2>5, <2>6, <2>7, <2>8 DEF Effect
<1>2. ASSUME NEW r \in Req, Pull(r) PROVE LockInv'
  <2>1. \A q \in Req : Holding(q)' => Holding(q) /\ node'[q] = node[q]
    BY <1>2 DEF Pull, At, TypeOK, Holding, HoldingPc
  <2> QED BY <1>2, <2>1 DEF Pull, coord, LockInv, SingleFlight
<1>3. ASSUME NEW r \in Req, Cancel(r) PROVE LockInv'
  BY <1>3 DEF Cancel, coord, LockInv, SingleFlight, Holding
<1>4. ASSUME NEW n \in Node, Crash(n) PROVE LockInv'
  <2>1. \A q \in Req : Holding(q)' => Holding(q) /\ node'[q] = node[q]
    BY <1>4 DEF Crash, TypeOK, Holding, HoldingPc
  <2> QED BY <1>4, <2>1 DEF Crash, coord, LockInv, SingleFlight
<1>5. CASE FillGoesStale \/ CooldownElapses \/ StatusExpires
  BY <1>5 DEF FillGoesStale, CooldownElapses, StatusExpires, coord, session,
     LockInv, SingleFlight, Holding
<1>6. CASE LockExpires
  BY <1>6 DEF LockExpires, session, LockInv, SingleFlight, Holding
<1>7. CASE UNCHANGED vars
  BY <1>7 DEF vars, LockInv, SingleFlight, Holding
<1> QED BY <1>1, <1>2, <1>3, <1>4, <1>5, <1>6, <1>7 DEF Next

LEMMA LockInit == Init => LockInv
BY DEF Init, LockInv, SingleFlight, Holding, HoldingPc

THEOREM LockCorrect ==
    ASSUME LocksOutliveFills
    PROVE  Spec => []LockInv
<1>1. TypeOK /\ LockInv /\ [Next]_vars => LockInv'
  BY LockStep
<1> QED BY <1>1, LockInit, TypeCorrect, PTL DEF Spec

\* At most one request of the cluster runs the guarded part of Pull, with any
\* number of nodes, requests and failures.
THEOREM SingleFlightCorrect ==
    ASSUME LocksOutliveFills
    PROVE  Spec => []SingleFlight
<1>1. LockInv => SingleFlight
  BY DEF LockInv
<1> QED BY <1>1, LockCorrect, PTL

\* In particular there is at most one upstream fetch of the key at a time: the
\* promise of the coordinator holds as long as locks outlive fills.
THEOREM OneUpstreamFetchCorrect ==
    ASSUME LocksOutliveFills
    PROVE  Spec => []OneUpstreamFetch
<1>1. SingleFlight => OneUpstreamFetch
  BY DEF SingleFlight, OneUpstreamFetch, Holding, HoldingPc, Fetching
<1> QED BY <1>1, SingleFlightCorrect, PTL

-----------------------------------------------------------------------------
(* The record during a fill.                                               *)

\* The leader about to initialise the record sees it not READY; from then on,
\* until it records the outcome, the record is FILLING: nobody else publishes,
\* fails or restarts the fill, and a stray demotion leaves FILLING in place.
FillInv == \A r \in Req : /\ pc[r] = "upsert" => rec.state # "ready"
                          /\ pc[r] \in FillPc => rec.state = "filling"

LEMMA FillStep ==
    ASSUME TypeOK, LockInv, FillInv, [Next]_vars
    PROVE  FillInv'
<1>1. ASSUME NEW r \in Req, Step(r) PROVE FillInv'
  <2>1. Moves(r) /\ Effect(r)
    BY <1>1, StepEffect
  <2>2. \A q \in Req \ {r} : /\ pc'[q] = "upsert" => pc[q] = "upsert"
                             /\ pc'[q] \in FillPc => pc[q] \in FillPc
    BY <2>1 DEF Moves, FillPc
  <2>3. pc[r] \in HoldingPc =>
          \A q \in Req \ {r} : pc'[q] # "upsert" /\ pc'[q] \notin FillPc
    BY <2>2 DEF LockInv, SingleFlight, Holding, HoldingPc, FillPc
  <2>4. rec \in Row /\ (pc[r] # "idle" => node[r] \in Node)
    BY DEF TypeOK, Row
  <2>5. CASE Quiet(r)
    BY <2>2, <2>5 DEF Quiet, FillInv
  <2>6. CASE Leads(r)
    BY <2>2, <2>6 DEF Leads, FillInv, FillPc
  <2>7. CASE Resigns(r)
    BY <2>2, <2>7 DEF Resigns, FillInv, FillPc, HoldingPc
  <2>8. CASE Starts(r)
    <3>1. rec'.state = "filling"
      BY <2>4, <2>8 DEF Starts, UpsertRecord
    <3> QED BY <3>1 DEF FillInv
  <2>9. CASE Sizes(r)
    <3>1. pc[r] \in FillPc /\ pc'[r] # "upsert" /\ pc[r] \in HoldingPc
      BY <2>9 DEF Sizes, FillPc, HoldingPc
    <3>2. rec \in Record /\ rec.state = "filling"
      BY <2>4, <3>1, MissingRow DEF FillInv, Row
    <3>3. rec'.state = "filling"
      BY <2>4, <2>9, <3>1, <3>2, StatementStates DEF Sizes, HoldingPc
    <3> QED BY <3>3 DEF FillInv
  <2>10. CASE Breaks(r) \/ Publishes(r)
    BY <2>3, <2>10 DEF Breaks, Publishes, FillInv, FillPc, HoldingPc
  <2>11. CASE Demotes(r)
    <3>1. CASE rec \in Record
      <4>1. rec'.state = "filling"
        BY <2>4, <2>11, <3>1, StatementStates DEF Demotes
      <4> QED BY <4>1 DEF FillInv
    <3>2. CASE rec = NoRecord
      BY <2>2, <2>4, <2>11, <3>2, NoRowNoUpdate DEF Demotes, FillInv, FillPc
    <3> QED BY <2>4, <3>1, <3>2 DEF Row
  <2> QED BY <2>1, <2>5, <2>6, <2>7, <2>8, <2>9, <2>10, <2>11 DEF Effect
<1>2. ASSUME NEW r \in Req, Pull(r) PROVE FillInv'
  BY <1>2 DEF Pull, store, TypeOK, FillInv, FillPc
<1>3. ASSUME NEW r \in Req, Cancel(r) PROVE FillInv'
  BY <1>3 DEF Cancel, store, FillInv
<1>4. ASSUME NEW n \in Node, Crash(n) PROVE FillInv'
  <2>1. \A q \in Req : pc'[q] = pc[q] \/ pc'[q] = "idle"
    BY <1>4 DEF Crash
  <2> QED BY <1>4, <2>1 DEF Crash, store, FillInv, FillPc
<1>5. CASE FillGoesStale \/ CooldownElapses
  <2>1. rec'.state = rec.state
    BY <1>5 DEF FillGoesStale, CooldownElapses, TypeOK, Record, NoRecord
  <2> QED BY <1>5, <2>1 DEF FillGoesStale, CooldownElapses, FillInv
<1>6. CASE LockExpires \/ StatusExpires
  BY <1>6 DEF LockExpires, StatusExpires, store, FillInv
<1>7. CASE UNCHANGED vars
  BY <1>7 DEF vars, FillInv
<1> QED BY <1>1, <1>2, <1>3, <1>4, <1>5, <1>6, <1>7 DEF Next

LEMMA FillInit == Init => FillInv
BY DEF Init, FillInv, FillPc

THEOREM FillCorrect ==
    ASSUME LocksOutliveFills
    PROVE  Spec => []FillInv
<1>1. TypeOK /\ LockInv /\ FillInv /\ [Next]_vars => FillInv'
  BY FillStep
<1> QED BY <1>1, FillInit, TypeCorrect, LockCorrect, PTL DEF Spec

-----------------------------------------------------------------------------
(* The size of a READY record.                                             *)

LEMMA SizeStep ==
    ASSUME TypeOK, FillInv, ReadySizeIsFinal, [Next]_vars
    PROVE  ReadySizeIsFinal'
<1>1. ASSUME NEW r \in Req, Step(r) PROVE ReadySizeIsFinal'
  <2>1. Moves(r) /\ Effect(r)
    BY <1>1, StepEffect
  <2>2. rec \in Row /\ (pc[r] # "idle" => node[r] \in Node)
    BY DEF TypeOK, Row
  <2>3. CASE rec' = rec
    BY <2>3 DEF ReadySizeIsFinal
  <2>4. CASE Starts(r)
    BY <2>4 DEF Starts, UpsertRecord, ReadySizeIsFinal
  <2>5. CASE Sizes(r)
    <3>1. rec.state = "filling"
      BY <2>5 DEF Sizes, FillInv, FillPc
    <3>2. rec'.state = "filling"
      BY <2>2, <2>5, <3>1, StatementStates, MissingRow DEF Sizes, Row
    <3> QED BY <3>2 DEF ReadySizeIsFinal
  <2>6. CASE Breaks(r) \/ Publishes(r) \/ Demotes(r)
    <3>1. CASE rec \in Record
      BY <2>2, <2>6, <3>1, StatementStates DEF Breaks, Publishes, Demotes, ReadySizeIsFinal
    <3>2. CASE rec = NoRecord
      BY <2>2, <2>6, <3>2, <2>3, NoRowNoUpdate DEF Breaks, Publishes, Demotes
    <3> QED BY <2>2, <3>1, <3>2 DEF Row
  <2> QED BY <2>1, <2>3, <2>4, <2>5, <2>6 DEF Effect, Quiet, Leads, Resigns
<1>2. CASE FillGoesStale \/ CooldownElapses
  BY <1>2 DEF FillGoesStale, CooldownElapses, TypeOK, Record, NoRecord, ReadySizeIsFinal
<1>3. CASE UNCHANGED rec
  BY <1>3 DEF ReadySizeIsFinal
<1> QED BY <1>1, <1>2, <1>3 DEF Next, Pull, Cancel, Crash, LockExpires, StatusExpires, store, vars

\* The size of a published record is the counted one, never a size hint.
THEOREM ReadySizeCorrect ==
    ASSUME LocksOutliveFills
    PROVE  Spec => []ReadySizeIsFinal
<1>1. Init => ReadySizeIsFinal
  BY DEF Init, NoRecord, ReadySizeIsFinal
<1>2. TypeOK /\ FillInv /\ ReadySizeIsFinal /\ [Next]_vars => ReadySizeIsFinal'
  BY SizeStep
<1> QED BY <1>1, <1>2, TypeCorrect, FillCorrect, PTL DEF Spec

-----------------------------------------------------------------------------
(* The count of failures.                                                  *)

\* While a fill runs the count is zero, since the fill began with an upsert; the
\* one statement that raises it ends the fill.
CountInv == rec.state # "missing" =>
               /\ rec.failures <= 1
               /\ (\E r \in Req : pc[r] \in FillPc) => rec.failures = 0

LEMMA CountStep ==
    ASSUME TypeOK, LockInv, CountInv, [Next]_vars
    PROVE  CountInv'
<1>1. ASSUME NEW r \in Req, Step(r) PROVE CountInv'
  <2>1. Moves(r) /\ Effect(r)
    BY <1>1, StepEffect
  <2>2. rec \in Row /\ (pc[r] # "idle" => node[r] \in Node)
    BY DEF TypeOK, Row
  <2>3. \A q \in Req \ {r} : pc'[q] \in FillPc => pc[q] \in FillPc
    BY <2>1 DEF Moves, FillPc
  <2>4. CASE rec' = rec /\ (pc'[r] \in FillPc => pc[r] \in FillPc)
    BY <2>3, <2>4 DEF CountInv
  <2>5. Quiet(r) \/ Leads(r) \/ Resigns(r)
           => rec' = rec /\ (pc'[r] \in FillPc => pc[r] \in FillPc)
    BY DEF Quiet, Leads, Resigns, FillPc, HoldingPc
  <2>6. CASE Starts(r)
    BY <2>6 DEF Starts, UpsertRecord, CountInv
  <2>7. CASE rec = NoRecord /\ (Sizes(r) \/ Breaks(r) \/ Publishes(r) \/ Demotes(r))
    <3>1. rec' = NoRecord
      BY <2>2, <2>7, NoRowNoUpdate DEF Sizes, Breaks, Publishes, Demotes
    <3> QED BY <3>1 DEF CountInv, NoRecord
  <2>8. CASE rec \in Record /\ (Sizes(r) \/ Demotes(r))
    <3>1. rec'.failures = rec.failures
      BY <2>2, <2>8, StatementCounts DEF Sizes, Demotes
    <3>2. pc'[r] \in FillPc => pc[r] \in FillPc
      BY <2>8 DEF Sizes, Demotes, FillPc
    <3>3. rec.state # "missing"
      BY <2>8, MissingRow DEF Row, Record, NoRecord
    <3> QED BY <2>3, <3>1, <3>2, <3>3 DEF CountInv
  <2>9. CASE rec \in Record /\ (Breaks(r) \/ Publishes(r))
    <3>1. pc[r] \in FillPc /\ pc'[r] \notin FillPc /\ Holding(r)
      BY <2>9 DEF Breaks, Publishes, FillPc, Holding, HoldingPc
    <3>2. \A q \in Req : pc'[q] \notin FillPc
      BY <2>3, <3>1 DEF LockInv, SingleFlight, Holding, HoldingPc, FillPc
    <3>3. rec.failures = 0
      BY <2>9, <3>1, MissingRow DEF CountInv, Row, Record, NoRecord
    <3>4. rec'.failures \in {0, 1}
      BY <2>2, <2>9, <3>3, StatementCounts DEF Breaks, Publishes
    <3> QED BY <3>2, <3>4 DEF CountInv
  <2> QED BY <2>1, <2>2, <2>4, <2>5, <2>6, <2>7, <2>8, <2>9 DEF Effect, Row
<1>2. ASSUME NEW r \in Req, Pull(r) PROVE CountInv'
  BY <1>2 DEF Pull, store, TypeOK, CountInv, FillPc
<1>3. ASSUME NEW r \in Req, Cancel(r) PROVE CountInv'
  BY <1>3 DEF Cancel, store, CountInv
<1>4. ASSUME NEW n \in Node, Crash(n) PROVE CountInv'
  <2>1. \A q \in Req : pc'[q] = pc[q] \/ pc'[q] = "idle"
    BY <1>4 DEF Crash
  <2> QED BY <1>4, <2>1 DEF Crash, store, CountInv, FillPc
<1>5. CASE FillGoesStale \/ CooldownElapses
  <2>1. rec'.state = rec.state /\ rec'.failures = rec.failures
    BY <1>5 DEF FillGoesStale, CooldownElapses, TypeOK, Record, NoRecord
  <2> QED BY <1>5, <2>1 DEF FillGoesStale, CooldownElapses, CountInv
<1>6. CASE LockExpires \/ StatusExpires
  BY <1>6 DEF LockExpires, StatusExpires, store, CountInv
<1>7. CASE UNCHANGED vars
  BY <1>7 DEF vars, CountInv
<1> QED BY <1>1, <1>2, <1>3, <1>4, <1>5, <1>6, <1>7 DEF Next

\* However many fills of the key fail in a row, on however many nodes, the count
\* that the cooldown doubles with never exceeds one; and no failed fill is
\* counted twice, whichever of its calls fail.
THEOREM FailuresNeverAddUpCorrect ==
    ASSUME LocksOutliveFills
    PROVE  Spec => []FailuresNeverAddUp
<1>1. Init => CountInv
  BY DEF Init, NoRecord, CountInv
<1>2. TypeOK /\ LockInv /\ CountInv /\ [Next]_vars => CountInv'
  BY CountStep
<1>3. CountInv => FailuresNeverAddUp
  BY DEF CountInv, FailuresNeverAddUp
<1> QED BY <1>1, <1>2, <1>3, TypeCorrect, LockCorrect, PTL DEF Spec

-----------------------------------------------------------------------------
(* The protocol implements the cache entry.                                *)

Leaders == {q \in Req : Holding(q)}
Readers == {q \in Req : Reading(q)}

\* Under the lock invariant a holder is the only leader.
LEMMA SoleLeader ==
    ASSUME LockInv, NEW r \in Req, Holding(r)
    PROVE  Leaders = {r}
BY DEF Leaders, LockInv, SingleFlight

\* A step that leaves every request on its side of the lock keeps the leaders.
LEMMA SameLeaders ==
    ASSUME NEW r \in Req, Moves(r), Holding(r)' <=> Holding(r)
    PROVE  Leaders' = Leaders
<1>1. \A q \in Req : Holding(q)' <=> Holding(q)
  BY DEF Moves, Holding, HoldingPc
<1> QED BY <1>1 DEF Leaders

\* A step changes the readers by the request that takes it alone.
LEMMA OneReader ==
    ASSUME NEW r \in Req, Moves(r)
    PROVE  Readers' = IF Reading(r)' THEN Readers \cup {r} ELSE Readers \ {r}
<1>1. \A q \in Req \ {r} : Reading(q)' <=> Reading(q)
  BY DEF Moves, Reading
<1> QED BY <1>1 DEF Readers

LEMMA EntryInit == Init => Entry!Init
BY DEF Init, Entry!Init, NoRecord, Holding, HoldingPc, Reading

\* Every step maps to one of the entry's, or changes none of its variables.
LEMMA EntryStep ==
    ASSUME TypeOK, LockInv, FillInv, [Next]_vars
    PROVE  [Entry!Next]_(Entry!vars)
<1> DEFINE Stutter == rec'.state = rec.state /\ Leaders' = Leaders /\ Readers' = Readers
<1>s. Stutter => [Entry!Next]_(Entry!vars)
  BY DEF Entry!vars, Leaders, Readers
<1>q. ASSUME NEW R \in SUBSET Req, rec'.state = rec.state,
             Leaders' = Leaders \ R, Readers' = Readers \ R
      PROVE  Entry!Next
  <2>1. Entry!Quit(R)
    BY <1>q DEF Entry!Quit, Leaders, Readers
  <2> QED BY <2>1 DEF Entry!Next
<1>1. ASSUME NEW r \in Req, Step(r) PROVE [Entry!Next]_(Entry!vars)
  <2>1. Moves(r) /\ Effect(r)
    BY <1>1, StepEffect
  <2>2. rec \in Row /\ (pc[r] # "idle" => node[r] \in Node)
    BY DEF TypeOK, Row
  <2>3. CASE Quiet(r)
    <3>1. Leaders' = Leaders
      BY <2>1, <2>3, SameLeaders DEF Quiet, Holding
    <3>2. CASE Reading(r)' /\ ~Reading(r)
      <4>1. Readers' = Readers \cup {r} /\ rec.state = "ready" /\ rec' = rec
        BY <2>1, <2>3, <3>2, OneReader DEF Quiet
      <4>2. Entry!Read(r)
        BY <3>1, <4>1 DEF Entry!Read, Leaders, Readers
      <4> QED BY <4>2 DEF Entry!Next
    <3>3. CASE ~Reading(r)' /\ Reading(r)
      <4>1. Readers' = Readers \ {r} /\ rec' = rec
        BY <2>1, <2>3, <3>3, OneReader DEF Quiet
      <4>2. Leaders = Leaders \ {r}
        BY <3>3 DEF Leaders, Reading, Holding, HoldingPc
      <4> QED BY <1>q, <3>1, <4>1, <4>2
    <3>4. CASE Reading(r)' <=> Reading(r)
      <4>1. Readers' = Readers
        BY <2>1, <3>4, OneReader DEF Readers
      <4> QED BY <1>s, <2>3, <3>1, <4>1 DEF Quiet
    <3> QED BY <3>2, <3>3, <3>4
  <2>4. CASE Leads(r)
    <3>1. \A q \in Req : ~Holding(q)
      BY <2>4, NodeAssumption DEF Leads, LockInv, TypeOK, Holding, HoldingPc
    <3>2. Leaders = {} /\ Leaders' = {r}
      BY <2>1, <2>4, <3>1 DEF Leads, Leaders, Moves, Holding, HoldingPc
    <3>3. Readers' = Readers
      BY <2>1, <2>4, OneReader DEF Leads, Reading, Readers
    <3>4. Entry!Lead(r)
      BY <2>4, <3>2, <3>3 DEF Leads, Entry!Lead, Leaders, Readers
    <3> QED BY <3>4 DEF Entry!Next
  <2>5. CASE Resigns(r)
    <3>1. Leaders = {r}
      BY <2>5, SoleLeader DEF Resigns, Holding
    <3>2. Leaders' = Leaders \ {r}
      BY <2>1, <2>5, <3>1 DEF Resigns, Leaders, Moves, Holding, HoldingPc
    <3>3. Readers' = Readers \ {r}
      BY <2>1, <2>5, OneReader DEF Resigns
    <3> QED BY <1>q, <2>5, <3>2, <3>3 DEF Resigns
  <2>6. CASE Starts(r) \/ Sizes(r) \/ Breaks(r) \/ Publishes(r)
    <3>1. Leaders' = Leaders /\ Leaders = {r}
      BY <2>1, <2>6, SameLeaders, SoleLeader
         DEF Starts, Sizes, Breaks, Publishes, Holding, HoldingPc
    <3>2. Readers' = Readers
      BY <2>1, <2>6, OneReader DEF Starts, Sizes, Breaks, Publishes, Reading, Readers
    <3>3. CASE Starts(r)
      <4>1. Entry!StartFill(r)
        BY <3>1, <3>2, <3>3 DEF Starts, UpsertRecord, FillInv, Entry!StartFill, Leaders, Readers
      <4> QED BY <4>1 DEF Entry!Next
    <3>4. ASSUME pc[r] \in FillPc PROVE rec \in Record /\ rec.state = "filling"
      BY <2>2, <3>4, MissingRow DEF FillInv, Row
    <3>5. CASE Sizes(r)
      BY <1>s, <2>2, <3>1, <3>2, <3>4, <3>5, StatementStates DEF Sizes, FillPc
    <3>6. CASE Breaks(r)
      <4>1. Entry!Fail(r)
        BY <2>2, <3>1, <3>2, <3>4, <3>6, StatementStates
           DEF Breaks, FillPc, Entry!Fail, Leaders, Readers
      <4> QED BY <4>1 DEF Entry!Next
    <3>7. CASE Publishes(r)
      <4>1. Entry!Publish(r)
        BY <2>2, <3>1, <3>2, <3>4, <3>7, StatementStates
           DEF Publishes, FillPc, Entry!Publish, Leaders, Readers
      <4> QED BY <4>1 DEF Entry!Next
    <3> QED BY <2>6, <3>3, <3>5, <3>6, <3>7
  <2>7. CASE Demotes(r)
    <3>1. Leaders' = Leaders /\ Leaders = Leaders \ {r}
      <4>1. Leaders' = Leaders
        BY <2>1, <2>7, SameLeaders DEF Demotes, Holding, HoldingPc
      <4>2. ~Holding(r)
        BY <2>7 DEF Demotes, Holding, HoldingPc
      <4> QED BY <4>1, <4>2 DEF Leaders
    <3>2. Readers' = Readers \ {r} /\ r \in Readers
      BY <2>1, <2>7, OneReader DEF Demotes, Reading, Readers
    <3>3. CASE rec = NoRecord
      <4>1. rec' = rec
        BY <2>2, <2>7, <3>3, NoRowNoUpdate DEF Demotes
      <4> QED BY <1>q, <3>1, <3>2, <4>1
    <3>4. CASE rec \in Record
      <4>1. rec'.state = "filling"
        BY <2>2, <2>7, <3>4, StatementStates DEF Demotes
      <4>2. Entry!Demote(r)
        BY <3>1, <3>2, <4>1 DEF Entry!Demote, Leaders, Readers
      <4> QED BY <4>2 DEF Entry!Next
    <3> QED BY <2>2, <3>3, <3>4 DEF Row
  <2> QED BY <2>1, <2>3, <2>4, <2>5, <2>6, <2>7 DEF Effect
<1>2. ASSUME NEW r \in Req, Pull(r) PROVE [Entry!Next]_(Entry!vars)
  <2>1. \A q \in Req : (Holding(q)' <=> Holding(q)) /\ (Reading(q)' <=> Reading(q))
    BY <1>2 DEF Pull, At, TypeOK, Holding, HoldingPc, Reading
  <2> QED BY <1>s, <1>2, <2>1 DEF Pull, store, Leaders, Readers
<1>3. ASSUME NEW r \in Req, Cancel(r) PROVE [Entry!Next]_(Entry!vars)
  BY <1>s, <1>3 DEF Cancel, store, Leaders, Readers, Holding, Reading
<1>4. ASSUME NEW n \in Node, Crash(n) PROVE [Entry!Next]_(Entry!vars)
  <2> DEFINE R == {q \in Req : node[q] = n}
  <2>1. \A q \in Req : /\ Holding(q)' <=> Holding(q) /\ q \notin R
                       /\ Reading(q)' <=> Reading(q) /\ q \notin R
    BY <1>4 DEF Crash, Holding, HoldingPc, Reading
  <2>2. Leaders' = Leaders \ R /\ Readers' = Readers \ R
    BY <2>1 DEF Leaders, Readers
  <2>3. rec' = rec /\ R \in SUBSET Req
    BY <1>4 DEF Crash, store
  <2> HIDE DEF R
  <2> QED BY <1>q, <2>2, <2>3
<1>5. CASE FillGoesStale \/ CooldownElapses
  <2>1. rec'.state = rec.state
    BY <1>5 DEF FillGoesStale, CooldownElapses, TypeOK, Record, NoRecord
  <2> QED BY <1>s, <1>5, <2>1
      DEF FillGoesStale, CooldownElapses, Leaders, Readers, Holding, Reading
<1>6. CASE LockExpires \/ StatusExpires
  BY <1>s, <1>6 DEF LockExpires, StatusExpires, store, Leaders, Readers, Holding, Reading
<1>7. CASE UNCHANGED vars
  BY <1>s, <1>7 DEF vars, Leaders, Readers, Holding, Reading
<1> QED BY <1>1, <1>2, <1>3, <1>4, <1>5, <1>6, <1>7 DEF Next

\* Whatever fails, the record, the lock and the requests behave as one entry
\* with a single leader: a fill never starts from READY, only the leader
\* publishes or fails it, and READY is withdrawn only by a request that saw it.
THEOREM EntryImplemented ==
    ASSUME LocksOutliveFills
    PROVE  Spec => ImplementsEntry
<1>1. TypeOK /\ LockInv /\ FillInv /\ [Next]_vars => [Entry!Next]_(Entry!vars)
  BY EntryStep
<1> QED
  BY <1>1, EntryInit, TypeCorrect, LockCorrect, FillCorrect, PTL
     DEF Spec, ImplementsEntry, Entry!Spec

-----------------------------------------------------------------------------
(* Waiting, as the latch of ReadyLatch.                                    *)

WaitPc == {"wait", "waiting", "deaf"}
Phases == [q \in Req |-> Latched(q)]

\* A step of a request that neither waits nor announces.
Aside(r) == /\ pc[r] \notin WaitPc /\ pc'[r] \notin WaitPc
            /\ \A q \in Req \ {r} : pc'[q] = pc[q]
            /\ status' = status

LEMMA AsideUnseen ==
    ASSUME NEW r \in Req, Aside(r)
    PROVE  Phases' = Phases /\ status' = status
<1>1. \A q \in Req : Latched(q)' = Latched(q)
  BY DEF Aside, Latched, WaitPc
<1> QED BY <1>1 DEF Phases, Aside

\* What remains: the wait itself, and the announcements.
LEMMA StepAside ==
    ASSUME TypeOK, NEW r \in Req, Step(r)
    PROVE  \/ Aside(r) \/ Lookup(r) \/ Subscribe(r) \/ SubscribeFails(r) \/ StopWaiting(r)
           \/ SignalFailed(r) \/ Signal(r)
<1>1. CASE LookupFails(r) \/ OpenObject(r) \/ OpenFails(r) \/ Demote(r) \/ DemoteFails(r)
  BY <1>1 DEF LookupFails, OpenObject, OpenFails, Demote, DemoteFails, At, Goto, Leave,
     coord, Aside, WaitPc, TypeOK
<1>2. CASE Acquire(r) \/ AcquireFails(r) \/ Recheck(r) \/ RecheckFails(r) \/ Drop(r)
           \/ DropFails(r)
  BY <1>2 DEF Acquire, AcquireFails, Recheck, RecheckFails, Drop, DropFails, At, Goto,
     Leave, coord, Aside, WaitPc, TypeOK
<1>3. CASE Upsert(r) \/ UpsertFails(r) \/ Fetch(r) \/ FetchFails(r) \/ RecordSize(r)
           \/ RecordSizeFails(r)
  BY <1>3 DEF Upsert, UpsertFails, Fetch, FetchFails, RecordSize, RecordSizeFails, At,
     Goto, coord, Aside, WaitPc, TypeOK
<1>4. CASE OpenWriter(r) \/ OpenWriterFails(r) \/ RecordFailure(r) \/ RecordFailureFails(r)
           \/ ReleaseFailed(r)
  BY <1>4 DEF OpenWriter, OpenWriterFails, RecordFailure, RecordFailureFails,
     ReleaseFailed, ReleaseAs, At, Goto, coord, Aside, WaitPc, TypeOK
<1>5. CASE Copy(r) \/ CopyFails(r) \/ MarkReady(r) \/ MarkError(r) \/ Release(r)
           \/ Commit(r) \/ CommitFails(r)
  BY <1>5 DEF Copy, CopyFails, MarkReady, MarkError, Release, ReleaseAs, Commit,
     CommitFails, At, Goto, Leave, coord, Aside, WaitPc, TypeOK
<1> QED BY <1>1, <1>2, <1>3, <1>4, <1>5 DEF Step

\* Only a request outside the wait announces, and it stays outside.
LEMMA AnnounceLatch ==
    ASSUME TypeOK, NEW r \in Req, NEW p \in {"idle", "release"},
           pc[r] \notin WaitPc, Announce(r, p)
    PROVE  Latch!Announce
<1>1. \A q \in Req : Latched(q)' = IF Latched(q) = "waiting" THEN "out" ELSE Latched(q)
  BY DEF Announce, Latched, WaitPc, TypeOK
<1>2. Phases' = [q \in Req |-> IF Phases[q] = "waiting" THEN "out" ELSE Phases[q]]
  BY <1>1 DEF Phases
<1> QED BY <1>2 DEF Announce, Latch!Announce, Phases

\* A step of r moves the phase of r only, unless it announces.
LEMMA OnePhase ==
    ASSUME NEW r \in Req, \A q \in Req \ {r} : pc'[q] = pc[q]
    PROVE  Phases' = [Phases EXCEPT ![r] = Latched(r)']
<1>1. \A q \in Req \ {r} : Latched(q)' = Latched(q)
  BY DEF Latched
<1> QED BY <1>1 DEF Phases

LEMMA LatchInit == Init => Latch!Init
BY DEF Init, Latch!Init, Latched

\* Every step maps to one of the latch's, or changes none of its variables.
LEMMA LatchStep ==
    ASSUME TypeOK, [Next]_vars
    PROVE  [Latch!Next]_(Latch!vars)
<1>s. ASSUME Phases' = Phases, status' = status PROVE [Latch!Next]_(Latch!vars)
  BY <1>s DEF Latch!vars, Phases
<1>q. ASSUME NEW R \in SUBSET Req, status' = status,
             \A q \in Req : Latched(q)' = IF q \in R THEN "out" ELSE Latched(q)
      PROVE  Latch!Next
  <2>1. Phases' = [q \in Req |-> IF q \in R THEN "out" ELSE Phases[q]]
    BY <1>q DEF Phases
  <2>2. Latch!Quit(R)
    BY <1>q, <2>1 DEF Latch!Quit, Phases
  <2> QED BY <2>2 DEF Latch!Next
<1>1. ASSUME NEW r \in Req, Step(r) PROVE [Latch!Next]_(Latch!vars)
  <2>1. CASE Aside(r)
    BY <1>s, <2>1, AsideUnseen
  <2>2. CASE Lookup(r)
    <3>1. status' = status /\ \A q \in Req \ {r} : pc'[q] = pc[q]
      BY <2>2 DEF Lookup, Goto, Leave, coord, TypeOK
    <3>2. pc[r] = "lookup" /\ pc'[r] \in {"open", "wait", "acquire", "idle"}
      BY <2>2 DEF Lookup, At, Goto, Leave, TypeOK
    <3>3. CASE pc'[r] = "wait"
      <4>1. Phases[r] = "out" /\ Latched(r)' = "wait"
        BY <3>2, <3>3 DEF Phases, Latched
      <4>2. Latch!Enter(r)
        BY <3>1, <4>1, OnePhase DEF Latch!Enter, Phases
      <4> QED BY <4>2 DEF Latch!Next
    <3>4. CASE pc'[r] # "wait"
      <4>1. Aside(r)
        BY <3>1, <3>2, <3>4 DEF Aside, WaitPc
      <4> QED BY <1>s, <4>1, AsideUnseen
    <3> QED BY <3>3, <3>4
  <2>3. CASE Subscribe(r)
    <3>1. /\ status' = status
          /\ \A q \in Req \ {r} : pc'[q] = pc[q]
          /\ Phases[r] = "wait"
          /\ Latched(r)' = IF status THEN "out" ELSE "waiting"
      BY <2>3 DEF Subscribe, At, Goto, coord, TypeOK, Phases, Latched
    <3>2. Latch!Decide(r)
      BY <3>1, OnePhase DEF Latch!Decide, Phases
    <3> QED BY <3>2 DEF Latch!Next
  <2>4. CASE SubscribeFails(r)
    <3>1. /\ status' = status
          /\ \A q \in Req \ {r} : pc'[q] = pc[q]
          /\ Phases[r] \in {"wait", "waiting"}
          /\ Latched(r)' \in {"waiting", "deaf"}
      BY <2>4 DEF SubscribeFails, Goto, coord, TypeOK, Phases, Latched
    <3>2. Latch!Impair(r)
      BY <3>1, OnePhase DEF Latch!Impair, Phases
    <3> QED BY <3>2 DEF Latch!Next
  <2>5. CASE StopWaiting(r)
    <3>1. \A q \in Req : Latched(q)' = IF q \in {r} THEN "out" ELSE Latched(q)
      BY <2>5 DEF StopWaiting, Leave, TypeOK, Latched
    <3> QED BY <1>q, <2>5, <3>1 DEF StopWaiting, coord
  <2>6. CASE SignalFailed(r) \/ Signal(r)
    <3>1. pc[r] \in {"signalFailed", "signal"}
      BY <2>6 DEF SignalFailed, Signal, At
    <3>2. CASE Announce(r, "idle") \/ Announce(r, "release")
      <4>1. Latch!Announce
        BY <3>1, <3>2, AnnounceLatch DEF WaitPc
      <4> QED BY <4>1 DEF Latch!Next
    <3>3. CASE Aside(r)
      BY <1>s, <3>3, AsideUnseen
    <3>4. \/ Announce(r, "idle") \/ Announce(r, "release")
          \/ Aside(r)
      BY <2>6, <3>1 DEF SignalFailed, Signal, coord, Aside, WaitPc, TypeOK
    <3> QED BY <3>2, <3>3, <3>4
  <2> QED BY <1>1, <2>1, <2>2, <2>3, <2>4, <2>5, <2>6, StepAside
<1>2. ASSUME NEW r \in Req, Pull(r) PROVE [Latch!Next]_(Latch!vars)
  <2>1. Aside(r)
    BY <1>2 DEF Pull, At, coord, Aside, WaitPc, TypeOK
  <2> QED BY <1>s, <2>1, AsideUnseen
<1>3. ASSUME NEW r \in Req, Cancel(r) PROVE [Latch!Next]_(Latch!vars)
  BY <1>s, <1>3 DEF Cancel, coord, Phases, Latched
<1>4. ASSUME NEW n \in Node, Crash(n) PROVE [Latch!Next]_(Latch!vars)
  <2> DEFINE R == {q \in Req : node[q] = n}
  <2>1. \A q \in Req : Latched(q)' = IF q \in R THEN "out" ELSE Latched(q)
    BY <1>4 DEF Crash, Latched
  <2>2. status' = status /\ R \in SUBSET Req
    BY <1>4 DEF Crash, coord
  <2> HIDE DEF R
  <2> QED BY <1>q, <2>1, <2>2
<1>5. CASE FillGoesStale \/ CooldownElapses \/ LockExpires
  BY <1>s, <1>5 DEF FillGoesStale, CooldownElapses, LockExpires, coord, Phases, Latched
<1>6. CASE StatusExpires
  <2>1. Phases' = Phases /\ \A q \in Req : Phases[q] # "wait"
    BY <1>6 DEF StatusExpires, At, Phases, Latched
  <2>2. Latch!Expire
    BY <1>6, <2>1 DEF StatusExpires, Latch!Expire, Phases
  <2> QED BY <2>2 DEF Latch!Next
<1>7. CASE UNCHANGED vars
  BY <1>s, <1>7 DEF vars, Phases, Latched
<1> QED BY <1>1, <1>2, <1>3, <1>4, <1>5, <1>6, <1>7 DEF Next

\* Whatever fails, the requests wait as ReadyLatch says: one that found the
\* status key missing and kept its subscription is let out by the next
\* announcement.
THEOREM LatchImplemented == Spec => ImplementsLatch
<1>1. TypeOK /\ [Next]_vars => [Latch!Next]_(Latch!vars)
  BY LatchStep
<1> QED BY <1>1, LatchInit, TypeCorrect, PTL DEF Spec, ImplementsLatch, Latch!Spec

-----------------------------------------------------------------------------
(* READY and the object, when uploads are neither interrupted nor refused. *)

\* No client leaves and no stream breaks: whoever comes to record an outcome
\* has copied the whole body, and no partial object is ever committed.
CleanReq(r) == /\ live[r]
               /\ body[r] # "partial"
               /\ pc[r] # "markError"
               /\ pc[r] \in {"markReady", "signal", "release", "commit"} => body[r] = "whole"

CleanInv == object # "partial" /\ \A r \in Req : CleanReq(r)

\* What a step of r does to its body and the object: it stays clean, and it
\* ends its publication only by committing the whole object.
LEMMA CleanStep ==
    ASSUME UploadsComplete, TypeOK, CleanInv, NEW r \in Req, Step(r)
    PROVE  /\ CleanReq(r)'
           /\ \A q \in Req \ {r} : live'[q] = live[q] /\ body'[q] = body[q]
           /\ \/ object' = "whole"
              \/ object' = object /\ (Publishing(r) => Publishing(r)')
<1>c. CleanReq(r) /\ "copy" \notin FaultKinds /\ "commit" \notin FaultKinds
  BY DEF CleanInv, UploadsComplete
<1>1. CASE Lookup(r)
  BY <1>1, <1>c DEF Lookup, At, Goto, Leave, store, coord, MayFill, FilledElsewhere,
     CoolingDown, session, TypeOK, CleanReq, Publishing
<1>2. CASE LookupFails(r)
  BY <1>2, <1>c DEF LookupFails, At, Leave, Fails, store, coord, Abandoned, Refused,
     TypeOK, CleanReq, Publishing
<1>3. CASE OpenObject(r)
  BY <1>3, <1>c DEF OpenObject, At, Goto, Leave, store, coord, session, TypeOK, CleanReq,
     Publishing
<1>4. CASE OpenFails(r)
  BY <1>4, <1>c DEF OpenFails, At, Leave, Fails, store, coord, Abandoned, Refused, TypeOK,
     CleanReq, Publishing
<1>5. CASE Demote(r)
  BY <1>5, <1>c DEF Demote, At, Goto, coord, session, TypeOK, CleanReq, Publishing
<1>6. CASE DemoteFails(r)
  BY <1>6, <1>c DEF DemoteFails, At, Leave, Fails, coord, RowAfterError, Abandoned,
     Refused, TypeOK, CleanReq, Publishing
<1>7. CASE Subscribe(r)
  BY <1>7, <1>c DEF Subscribe, At, Goto, store, coord, session, TypeOK, CleanReq,
     Publishing
<1>8. CASE SubscribeFails(r)
  BY <1>8, <1>c DEF SubscribeFails, At, Goto, Refused, store, coord, session, TypeOK,
     CleanReq, Publishing
<1>9. CASE StopWaiting(r)
  BY <1>9, <1>c DEF StopWaiting, Leave, Abandoned, store, coord, TypeOK, CleanReq,
     Publishing
<1>10. CASE Acquire(r)
  BY <1>10, <1>c DEF Acquire, At, Goto, store, session, TypeOK, CleanReq, Publishing
<1>11. CASE AcquireFails(r)
  BY <1>11, <1>c DEF AcquireFails, At, Leave, Fails, store, LockAfterError, Abandoned,
     Refused, TypeOK, CleanReq, Publishing
<1>12. CASE Recheck(r)
  BY <1>12, <1>c DEF Recheck, At, Goto, store, coord, session, TypeOK, CleanReq,
     Publishing
<1>13. CASE RecheckFails(r)
  BY <1>13, <1>c DEF RecheckFails, At, Goto, Fails, store, coord, session, Abandoned,
     Refused, TypeOK, CleanReq, Publishing
<1>14. CASE Drop(r)
  BY <1>14, <1>c DEF Drop, At, Leave, store, Unlocked, TypeOK, CleanReq, Publishing
<1>15. CASE DropFails(r)
  BY <1>15, <1>c DEF DropFails, At, Leave, Fails, store, LockAfterError, Unlocked,
     Abandoned, Refused, TypeOK, CleanReq, Publishing
<1>16. CASE Upsert(r)
  BY <1>16, <1>c DEF Upsert, At, Goto, coord, session, TypeOK, CleanReq, Publishing
<1>17. CASE UpsertFails(r)
  BY <1>17, <1>c DEF UpsertFails, At, Goto, Fails, coord, RowAfterError, session,
     Abandoned, Refused, TypeOK, CleanReq, Publishing
<1>18. CASE Fetch(r)
  BY <1>18, <1>c DEF Fetch, At, Goto, store, coord, session, TypeOK, CleanReq, Publishing
<1>19. CASE FetchFails(r)
  BY <1>19, <1>c DEF FetchFails, At, Goto, Fails, store, coord, session, Abandoned,
     Refused, TypeOK, CleanReq, Publishing
<1>20. CASE RecordSize(r)
  BY <1>20, <1>c DEF RecordSize, At, Goto, coord, session, TypeOK, CleanReq, Publishing
<1>21. CASE RecordSizeFails(r)
  BY <1>21, <1>c DEF RecordSizeFails, At, Goto, Fails, coord, RowAfterError, session,
     Abandoned, Refused, TypeOK, CleanReq, Publishing
<1>22. CASE OpenWriter(r)
  BY <1>22, <1>c DEF OpenWriter, At, Goto, store, coord, session, TypeOK, CleanReq,
     Publishing
<1>23. CASE OpenWriterFails(r)
  BY <1>23, <1>c DEF OpenWriterFails, At, Goto, Fails, store, coord, session, Abandoned,
     Refused, TypeOK, CleanReq, Publishing
<1>24. CASE RecordFailure(r)
  BY <1>24, <1>c DEF RecordFailure, At, Goto, coord, session, TypeOK, CleanReq, Publishing
<1>25. CASE RecordFailureFails(r)
  BY <1>25, <1>c DEF RecordFailureFails, At, Goto, Fails, coord, RowAfterError, session,
     Abandoned, Refused, TypeOK, CleanReq, Publishing
<1>26. CASE ReleaseFailed(r)
  BY <1>26, <1>c DEF ReleaseFailed, At, ReleaseAs, Goto, store, Unlocked, session, TypeOK,
     CleanReq, Publishing
<1>27. CASE SignalFailed(r)
  BY <1>27, <1>c DEF SignalFailed, At, Fails, Refused, store, coord, Announce, Abandoned,
     TypeOK, CleanReq, Publishing
<1>28. CASE Copy(r)
  BY <1>28, <1>c DEF Copy, At, store, coord, TypeOK, CleanReq, Publishing
<1>29. CASE CopyFails(r)
  BY <1>29, <1>c DEF CopyFails, At, Fails, store, coord, Abandoned, Refused, Strike,
     TypeOK, CleanReq, Publishing
<1>30. CASE MarkReady(r)
  BY <1>30, <1>c DEF MarkReady, At, Goto, coord, Write, session, TypeOK, CleanReq,
     Publishing
<1>31. CASE MarkError(r)
  BY <1>31, <1>c DEF MarkError, At, Goto, coord, Write, session, TypeOK, CleanReq,
     Publishing
<1>32. CASE Signal(r)
  BY <1>32, <1>c DEF Signal, At, session, store, coord, Announce, TypeOK, CleanReq,
     Publishing
<1>33. CASE Release(r)
  BY <1>33, <1>c DEF Release, At, ReleaseAs, Goto, store, Unlocked, session, TypeOK,
     CleanReq, Publishing
<1>34. CASE Commit(r)
  BY <1>34, <1>c DEF Commit, At, Leave, coord, TypeOK, CleanReq, Publishing
<1>35. CASE CommitFails(r)
  BY <1>35, <1>c DEF CommitFails, At, Leave, Fails, coord, Abandoned, Refused, Strike,
     TypeOK, CleanReq, Publishing
<1> QED BY <1>1, <1>2, <1>3, <1>4, <1>5, <1>6, <1>7, <1>8, <1>9, <1>10, <1>11, <1>12,
           <1>13, <1>14, <1>15, <1>16, <1>17, <1>18, <1>19, <1>20, <1>21, <1>22, <1>23,
           <1>24, <1>25, <1>26, <1>27, <1>28, <1>29, <1>30, <1>31, <1>32, <1>33, <1>34,
           <1>35 DEF Step

LEMMA BackedStep ==
    ASSUME UploadsComplete, TypeOK, LockInv, FillInv, CleanInv, ReadyIsBacked, [Next]_vars
    PROVE  CleanInv' /\ ReadyIsBacked'
<1>u. "crash" \notin FaultKinds /\ "cancel" \notin FaultKinds
  BY DEF UploadsComplete
<1>1. ASSUME NEW r \in Req, Step(r) PROVE CleanInv' /\ ReadyIsBacked'
  <2>1. Moves(r) /\ Effect(r)
    BY <1>1, StepEffect
  <2>2. /\ CleanReq(r)'
        /\ \A q \in Req \ {r} : live'[q] = live[q] /\ body'[q] = body[q]
        /\ \/ object' = "whole"
           \/ object' = object /\ (Publishing(r) => Publishing(r)')
    BY <1>1, CleanStep
  <2>3. \A q \in Req \ {r} : CleanReq(q)' /\ (Publishing(q) => Publishing(q)')
    BY <2>1, <2>2 DEF Moves, CleanInv, CleanReq, Publishing
  <2>4. CleanInv'
    BY <2>2, <2>3 DEF CleanInv
  <2>5. ReadyIsBacked'
    <3>1. CASE object' = "whole"
      BY <3>1 DEF ReadyIsBacked
    <3>2. CASE object' = object /\ rec.state = "ready"
      BY <2>2, <2>3, <3>2 DEF ReadyIsBacked, Publishing
    <3>3. CASE object' = object /\ rec.state # "ready"
      <4>1. SUFFICES ASSUME rec'.state = "ready" PROVE Publishing(r)'
        BY DEF ReadyIsBacked, Publishing
      <4>2. Publishes(r)
        <5>1. rec \in Row /\ (pc[r] # "idle" => node[r] \in Node)
          BY DEF TypeOK, Row
        <5>2. rec' # rec
          BY <3>3, <4>1
        <5>3. rec \in Record \/ Starts(r)
          BY <2>1, <5>1, <5>2, NoRowNoUpdate
             DEF Effect, Quiet, Leads, Resigns, Sizes, Breaks, Publishes, Demotes, Row
        <5>4. ~Starts(r) /\ ~Sizes(r) /\ ~Breaks(r) /\ ~Demotes(r)
          BY <3>3, <4>1, <5>1, <5>3, StatementStates
             DEF Starts, Sizes, Breaks, Demotes, UpsertRecord
        <5> QED BY <2>1, <5>2, <5>4 DEF Effect, Quiet, Leads, Resigns
      <4> QED BY <2>2, <4>2 DEF Publishes, CleanReq, Publishing
    <3> QED BY <2>2, <3>1, <3>2, <3>3
  <2> QED BY <2>4, <2>5
<1>2. ASSUME NEW r \in Req, Pull(r) PROVE CleanInv' /\ ReadyIsBacked'
  BY <1>2 DEF Pull, At, TypeOK, store, CleanInv, CleanReq, ReadyIsBacked, Publishing
<1>3. ASSUME NEW r \in Req, Cancel(r) PROVE FALSE
  BY <1>u, <1>3 DEF Cancel, Strike
<1>4. ASSUME NEW n \in Node, Crash(n) PROVE FALSE
  BY <1>u, <1>4 DEF Crash
<1>5. CASE FillGoesStale \/ CooldownElapses
  <2>1. rec'.state = rec.state
    BY <1>5 DEF FillGoesStale, CooldownElapses, TypeOK, Record, NoRecord
  <2> QED BY <1>5, <2>1 DEF FillGoesStale, CooldownElapses, session, CleanInv, CleanReq,
             ReadyIsBacked, Publishing
<1>6. CASE LockExpires \/ StatusExpires
  BY <1>6 DEF LockExpires, StatusExpires, store, session, CleanInv, CleanReq,
     ReadyIsBacked, Publishing
<1>7. CASE UNCHANGED vars
  BY <1>7 DEF vars, CleanInv, CleanReq, ReadyIsBacked, Publishing
<1> QED BY <1>1, <1>2, <1>3, <1>4, <1>5, <1>6, <1>7 DEF Next

\* A READY record is backed by its whole object, or its fill is about to commit
\* it: the order "SetReady, then sw.Close" is harmless while nothing interrupts
\* the upload.  Until that commit the record is READY without an object.
THEOREM ReadyIsBackedCorrect ==
    ASSUME LocksOutliveFills
    PROVE  Spec => []ReadyIsBacked
<1>1. CASE UploadsComplete
  <2>1. Init => CleanInv /\ ReadyIsBacked
    BY DEF Init, NoRecord, CleanInv, CleanReq, ReadyIsBacked
  <2>2. /\ TypeOK /\ LockInv /\ FillInv /\ CleanInv /\ ReadyIsBacked
        /\ [Next]_vars
        => CleanInv' /\ ReadyIsBacked'
    BY <1>1, BackedStep
  <2> QED BY <2>1, <2>2, TypeCorrect, LockCorrect, FillCorrect, PTL DEF Spec
<1>2. CASE ~UploadsComplete
  <2>1. ReadyIsBacked
    BY <1>2 DEF ReadyIsBacked
  <2> QED BY <2>1, PTL
<1> QED BY <1>1, <1>2

-----------------------------------------------------------------------------
(* The record under GCS.                                                   *)

NoneDemotes == provider = "gcs" => \A r \in Req : pc[r] # "demote"

LEMMA ProviderKept ==
    ASSUME [Next]_vars
    PROVE  provider' = provider
BY DEF Next, vars, env, Step, Strike, Abandoned, Refused, Fails, Pull, Lookup,
   LookupFails, OpenObject, OpenFails, Demote, DemoteFails, Subscribe, SubscribeFails,
   StopWaiting, Acquire, AcquireFails, Recheck, RecheckFails, Drop, DropFails, Upsert,
   UpsertFails, Fetch, FetchFails, RecordSize, RecordSizeFails, OpenWriter,
   OpenWriterFails, RecordFailure, RecordFailureFails, ReleaseFailed, ReleaseAs,
   SignalFailed, Copy, CopyFails, Write, MarkReady, MarkError, Signal, Release, Commit,
   CommitFails, Cancel, Crash, FillGoesStale, CooldownElapses, LockExpires, StatusExpires

LEMMA NoneDemotesStep ==
    ASSUME TypeOK, NoneDemotes, [Next]_vars
    PROVE  NoneDemotes'
<1>0. provider' = provider
  BY ProviderKept
<1> SUFFICES ASSUME NEW q \in Req, provider = "gcs" PROVE pc'[q] # "demote"
  BY <1>0 DEF NoneDemotes
<1>1. ASSUME NEW r \in Req, Step(r) PROVE pc'[q] # "demote"
  <2>1. ASSUME OpenObject(r) PROVE pc'[q] # "demote"
    BY <2>1 DEF OpenObject, KeyNotFound, Leave, NoneDemotes, TypeOK
  <2>2. ASSUME ~OpenObject(r) PROVE Reading(r)' => pc'[r] = "open"
    BY <1>1, <2>2 DEF Step, Reading, NoneDemotes, TypeOK, At, Goto, Leave, Lookup,
       LookupFails, OpenFails, Demote, DemoteFails, Subscribe, SubscribeFails, StopWaiting,
       Acquire, AcquireFails, Recheck, RecheckFails, Drop, DropFails, Upsert, UpsertFails,
       Fetch, FetchFails, RecordSize, RecordSizeFails, OpenWriter, OpenWriterFails,
       RecordFailure, RecordFailureFails, ReleaseFailed, ReleaseAs, SignalFailed, Announce,
       Copy, CopyFails, MarkReady, MarkError, Signal, Release, Commit, CommitFails
  <2>3. pc'[q] \in {pc[q], "lookup"} \/ q = r
    BY <1>1, StepEffect DEF Moves
  <2> QED BY <2>1, <2>2, <2>3 DEF NoneDemotes, Reading
<1>2. ASSUME NEW r \in Req, Pull(r) \/ Cancel(r) PROVE pc'[q] # "demote"
  BY <1>2 DEF Pull, Cancel, NoneDemotes, TypeOK
<1>3. ASSUME NEW n \in Node, Crash(n) PROVE pc'[q] # "demote"
  BY <1>3 DEF Crash, NoneDemotes, TypeOK
<1>4. ASSUME UNCHANGED pc PROVE pc'[q] # "demote"
  BY <1>4 DEF NoneDemotes
<1> QED
  BY <1>1, <1>2, <1>3, <1>4
     DEF Next, vars, FillGoesStale, CooldownElapses, LockExpires, StatusExpires

LEMMA FinalStep ==
    ASSUME TypeOK, FillInv, NoneDemotes, provider = "gcs", [Next]_vars, rec.state = "ready"
    PROVE  rec'.state = "ready"
<1>1. ASSUME NEW r \in Req, Step(r) PROVE rec'.state = "ready"
  <2>1. Effect(r) /\ pc[r] # "demote"
    BY <1>1, StepEffect DEF NoneDemotes
  <2>2. pc[r] # "upsert" /\ pc[r] \notin FillPc
    BY DEF FillInv
  <2>3. rec' = rec
    BY <2>1, <2>2 DEF Effect, Quiet, Leads, Resigns, Starts, Sizes, Breaks, Publishes,
       Demotes, FillPc
  <2> QED BY <2>3
<1>2. ASSUME rec' = rec PROVE rec'.state = "ready"
  BY <1>2
<1>3. ~FillGoesStale /\ ~CooldownElapses
  BY DEF FillGoesStale, CooldownElapses
<1> QED
  BY <1>1, <1>2, <1>3
     DEF Next, vars, store, Pull, Cancel, Crash, LockExpires, StatusExpires

\* A defect, not a merit: orchestrator.go:122 withdraws a READY record whose object
\* is missing, and metadata.go:106 names this case, but the GCS store never returns
\* the error that is compared (gcs.go:36).  A record that is READY stays READY.
GhostsStay == [][provider = "gcs" /\ rec.state = "ready" => rec'.state = "ready"]_vars

\* With GCS the repair of a missing object happens in no behaviour, whatever calls
\* fail, nodes die or clients leave.
THEOREM GhostsStayWithGCS ==
    ASSUME LocksOutliveFills
    PROVE  Spec => GhostsStay
<1>1. Init => NoneDemotes
  BY DEF Init, NoneDemotes
<1>2. TypeOK /\ NoneDemotes /\ [Next]_vars => NoneDemotes'
  BY NoneDemotesStep
<1>3. TypeOK /\ FillInv /\ NoneDemotes /\ [Next]_vars
         => [provider = "gcs" /\ rec.state = "ready" => rec'.state = "ready"]_vars
  BY FinalStep
<1> QED
  BY <1>1, <1>2, <1>3, TypeCorrect, FillCorrect, PTL DEF Spec, GhostsStay
-----------------------------------------------------------------------------
(* What is left when every request has returned, for failures of the       *)
(* upstream and of the storage alone.                                      *)

\* A FILLING record is looked after: by the leader, until it has recorded the
\* outcome, or by the request that demoted it and is on its way to the lock.
SettledInv == /\ \A r \in Req : live[r]
              /\ lock # NoNode => \E r \in Req : Holding(r)
              /\ rec.state = "filling" => \E r \in Req : Owed(r)

OnlyDataFaults == FaultKinds \cap {"meta", "coord", "crash", "cancel"} = {}

KeepsLock(r) == \/ lock' = lock /\ (Holding(r) => Holding(r)')
                \/ lock' = NoNode
                \/ Holding(r)'

KeepsFill(r) == rec'.state = "filling" =>
                   \/ Owed(r)'
                   \/ ~Owed(r) /\ rec.state = "filling" /\ rec'.owner = rec.owner

\* No statement and no command fails.
LEMMA CallsSucceed ==
    ASSUME OnlyDataFaults, NEW r \in Req, live[r], NEW k \in {"meta", "coord"}
    PROVE  ~Fails(r, k) /\ ~Refused(r, k) /\ ~Strike(k) /\ ~Abandoned(r)
BY DEF OnlyDataFaults, Fails, Refused, Strike, Abandoned

\* The lock that a request leaves behind is free, since nobody else holds it.
LEMMA KeepsLockStep ==
    ASSUME OnlyDataFaults, TypeOK, LockInv, NEW r \in Req, live[r], Step(r)
    PROVE  KeepsLock(r)
<1>c. \A k \in {"meta", "coord"} :
         ~Fails(r, k) /\ ~Refused(r, k) /\ ~Strike(k) /\ ~Abandoned(r)
  BY CallsSucceed
<1>1. CASE Acquire(r)
  BY <1>1 DEF Acquire, At, Goto, TypeOK, KeepsLock, Holding, HoldingPc
<1>2. CASE Drop(r)
  <2>1. Holding(r)
    BY <1>2 DEF Drop, At, Holding, HoldingPc
  <2> QED BY <1>2, <2>1 DEF Drop, Unlocked, LockInv, KeepsLock
<1>3. CASE ReleaseFailed(r) \/ Release(r)
  <2>1. Holding(r)
    BY <1>3 DEF ReleaseFailed, Release, At, Holding, HoldingPc
  <2>2. lock' = Unlocked(r)
    BY <1>c, <1>3 DEF ReleaseFailed, Release, ReleaseAs
  <2> QED BY <2>1, <2>2 DEF Unlocked, LockInv, KeepsLock
<1>4. CASE Signal(r) \/ SignalFailed(r)
  BY <1>4 DEF Signal, SignalFailed, Announce, coord, At, TypeOK, KeepsLock, Holding, HoldingPc
<1>5. CASE Lookup(r) \/ OpenObject(r) \/ OpenFails(r) \/ Demote(r) \/ Subscribe(r)
           \/ Recheck(r) \/ Upsert(r) \/ Fetch(r) \/ FetchFails(r) \/ RecordSize(r)
           \/ OpenWriter(r) \/ OpenWriterFails(r) \/ RecordFailure(r)
  BY <1>5 DEF Lookup, OpenObject, OpenFails, Demote, Subscribe, Recheck, Upsert, Fetch,
     FetchFails, RecordSize, OpenWriter, OpenWriterFails, RecordFailure, At, Goto, Leave,
     coord, TypeOK, KeepsLock, Holding, HoldingPc
<1>6. CASE Copy(r) \/ CopyFails(r) \/ MarkReady(r) \/ MarkError(r) \/ Commit(r) \/ CommitFails(r)
  BY <1>6 DEF Copy, CopyFails, MarkReady, MarkError, Commit, CommitFails, At, Goto, Leave,
     coord, TypeOK, KeepsLock, Holding, HoldingPc
<1> QED
  BY <1>c, <1>1, <1>2, <1>3, <1>4, <1>5, <1>6 
     DEF Step, LookupFails, DemoteFails, SubscribeFails, StopWaiting, AcquireFails,
         RecheckFails, DropFails, UpsertFails, RecordSizeFails, RecordFailureFails

LEMMA KeepsFillStep ==
    ASSUME OnlyDataFaults, TypeOK, NEW r \in Req, live[r], Step(r)
    PROVE  KeepsFill(r)
<1>c. \A k \in {"meta", "coord"} :
         ~Fails(r, k) /\ ~Refused(r, k) /\ ~Strike(k) /\ ~Abandoned(r)
  BY CallsSucceed
<1>r. rec \in Row /\ (pc[r] # "idle" => node[r] \in Node)
  BY DEF TypeOK, Row
<1>1. CASE Lookup(r)
  BY <1>1 DEF Lookup, FilledElsewhere, MayFill, CoolingDown, At, Goto, Leave, store, session,
     TypeOK, KeepsFill, Owed, FillPc
<1>2. CASE Demote(r)
  <2>1. CASE rec \in Record
    <3>1. rec'.owner = node[r] /\ pc'[r] = "acquire" /\ node'[r] = node[r]
      BY <1>2, <2>1 DEF Demote, At, Goto, session, TypeOK, DemoteToFilling, UpdateRow,
         Record, NoRecord
    <3> QED BY <3>1 DEF KeepsFill, Owed
  <2>2. CASE rec = NoRecord
    <3>1. rec' = NoRecord
      BY <1>2, <1>r, <2>2, NoRowNoUpdate DEF Demote, At
    <3> QED BY <3>1 DEF NoRecord, KeepsFill
  <2> QED BY <1>r, <2>1, <2>2 DEF Row
<1>3. CASE Upsert(r) \/ RecordSize(r)
  <2>1. pc'[r] \in FillPc
    BY <1>3 DEF Upsert, RecordSize, At, Goto, TypeOK, FillPc
  <2> QED BY <2>1 DEF KeepsFill, Owed
<1>4. CASE RecordFailure(r) \/ MarkError(r) \/ MarkReady(r)
  <2>1. rec' \in {IncrementFailure(rec), SetReady(rec)}
    BY <1>c, <1>4 DEF RecordFailure, MarkError, MarkReady, Write
  <2>2. node[r] \in Node
    BY <1>r, <1>4 DEF RecordFailure, MarkError, MarkReady, At
  <2>3. rec'.state # "filling"
    <3>1. CASE rec \in Record
      BY <2>1, <2>2, <3>1, StatementStates
    <3>2. CASE rec = NoRecord
      BY <2>1, <2>2, <3>2, NoRowNoUpdate DEF NoRecord
    <3> QED BY <1>r, <3>1, <3>2 DEF Row
  <2> QED BY <2>3 DEF KeepsFill
<1>5. CASE OpenObject(r) \/ OpenFails(r) \/ Subscribe(r) \/ Acquire(r) \/ Recheck(r) \/ Drop(r)
  BY <1>5 DEF OpenObject, OpenFails, Subscribe, Acquire, Recheck, Drop, At, Goto, Leave,
     store, session, TypeOK, KeepsFill, Owed, FillPc
<1>6. CASE Fetch(r) \/ FetchFails(r) \/ OpenWriter(r) \/ OpenWriterFails(r)
           \/ Copy(r) \/ CopyFails(r)
  BY <1>6 DEF Fetch, FetchFails, OpenWriter, OpenWriterFails, Copy, CopyFails, At, Goto,
     store, session, TypeOK, KeepsFill, Owed, FillPc
<1>7. CASE ReleaseFailed(r) \/ SignalFailed(r) \/ Signal(r) \/ Release(r)
           \/ Commit(r) \/ CommitFails(r)
  BY <1>7 DEF ReleaseFailed, SignalFailed, Signal, Release, ReleaseAs, Commit, CommitFails,
     At, store, KeepsFill, Owed, FillPc
<1> QED
  BY <1>c, <1>1, <1>2, <1>3, <1>4, <1>5, <1>6, <1>7
     DEF Step, LookupFails, DemoteFails, SubscribeFails, StopWaiting, AcquireFails,
         RecheckFails, DropFails, UpsertFails, RecordSizeFails, RecordFailureFails

LEMMA LiveKept ==
    ASSUME TypeOK, NEW r \in Req, \A q \in Req : live[q], Step(r)
    PROVE  \A q \in Req : live'[q]
BY DEF TypeOK, Step, Lookup, LookupFails, OpenObject, OpenFails, Demote, DemoteFails,
   Subscribe, SubscribeFails, StopWaiting, Acquire, AcquireFails, Recheck, RecheckFails,
   Drop, DropFails, Upsert, UpsertFails, Fetch, FetchFails, RecordSize, RecordSizeFails,
   OpenWriter, OpenWriterFails, RecordFailure, RecordFailureFails, ReleaseFailed,
   ReleaseAs, SignalFailed, Copy, CopyFails, MarkReady, MarkError, Signal, Release,
   Commit, CommitFails, Goto, Leave, session

LEMMA SettledStep ==
    ASSUME OnlyDataFaults, TypeOK, LockInv, SettledInv, [Next]_vars
    PROVE  SettledInv'
<1>1. ASSUME NEW r \in Req, Step(r) PROVE SettledInv'
  <2>1. Moves(r) /\ live[r]
    BY <1>1, StepEffect DEF SettledInv
  <2>2. KeepsLock(r) /\ KeepsFill(r)
    BY <1>1, <2>1, KeepsLockStep, KeepsFillStep
  <2>3. lock' # NoNode => \E q \in Req : Holding(q)'
    <3> SUFFICES ASSUME lock' # NoNode, ~Holding(r)' PROVE \E q \in Req : Holding(q)'
      OBVIOUS
    <3>1. lock' = lock /\ ~Holding(r)
      BY <2>2 DEF KeepsLock
    <3>2. PICK q \in Req : Holding(q)
      BY <3>1 DEF SettledInv
    <3>3. Holding(q)'
      BY <2>1, <3>1, <3>2 DEF Moves, Holding, HoldingPc
    <3> QED BY <3>3
  <2>4. rec'.state = "filling" => \E q \in Req : Owed(q)'
    <3> SUFFICES ASSUME rec'.state = "filling", ~Owed(r)' PROVE \E q \in Req : Owed(q)'
      OBVIOUS
    <3>1. ~Owed(r) /\ rec.state = "filling" /\ rec'.owner = rec.owner
      BY <2>2 DEF KeepsFill
    <3>2. PICK q \in Req : Owed(q)
      BY <3>1 DEF SettledInv
    <3>3. Owed(q)'
      BY <2>1, <3>1, <3>2 DEF Moves, Owed, FillPc
    <3> QED BY <3>3
  <2>5. \A q \in Req : live'[q]
    BY <1>1, LiveKept DEF SettledInv
  <2> QED BY <2>3, <2>4, <2>5 DEF SettledInv
<1>2. ASSUME NEW r \in Req, Pull(r) PROVE SettledInv'
  <2>1. \A q \in Req \ {r} : pc'[q] = pc[q] /\ node'[q] = node[q]
    BY <1>2 DEF Pull
  <2>2. ~Holding(r) /\ ~Owed(r)
    BY <1>2 DEF Pull, At, Holding, HoldingPc, Owed, FillPc
  <2>3. \A q \in Req : (Holding(q) => Holding(q)') /\ (Owed(q) => Owed(q)')
    BY <1>2, <2>1, <2>2 DEF Pull, store, Holding, Owed
  <2> QED BY <1>2, <2>3 DEF Pull, store, coord, SettledInv
<1>3. ASSUME NEW r \in Req PROVE ~Cancel(r)
  BY DEF Cancel, Strike, OnlyDataFaults
<1>4. ASSUME NEW n \in Node PROVE ~Crash(n)
  BY DEF Crash, OnlyDataFaults
<1>5. CASE FillGoesStale \/ CooldownElapses
  <2>1. rec'.state = rec.state /\ rec'.owner = rec.owner
    BY <1>5 DEF FillGoesStale, CooldownElapses, TypeOK, Record, NoRecord
  <2> QED BY <1>5, <2>1
      DEF FillGoesStale, CooldownElapses, coord, session, SettledInv, Holding, Owed
<1>6. CASE LockExpires \/ StatusExpires
  BY <1>6 DEF LockExpires, StatusExpires, store, session, SettledInv, Holding, Owed
<1>7. CASE UNCHANGED vars
  BY <1>7 DEF vars, SettledInv, Holding, Owed
<1> QED BY <1>1, <1>2, <1>3, <1>4, <1>5, <1>6, <1>7 DEF Next

\* A taken lock has its holder and a FILLING record somebody who fills it.
THEOREM SettledCorrect ==
    ASSUME LocksOutliveFills, OnlyDataFaults
    PROVE  Spec => []SettledInv
<1>1. Init => SettledInv
  BY DEF Init, NoRecord, SettledInv
<1>2. TypeOK /\ LockInv /\ SettledInv /\ [Next]_vars => SettledInv'
  BY SettledStep
<1> QED BY <1>1, <1>2, TypeCorrect, LockCorrect, PTL DEF Spec

\* Whatever fails upstream and in the storage, when every request has returned
\* no lock is left and no record is in FILLING.
THEOREM QuietIsSettledCorrect ==
    ASSUME LocksOutliveFills, OnlyDataFaults
    PROVE  Spec => []QuietIsSettled
<1>1. SettledInv => QuietIsSettled
  BY DEF SettledInv, QuietIsSettled, Holding, HoldingPc, Owed, FillPc
<1> QED BY <1>1, SettledCorrect, PTL
-----------------------------------------------------------------------------
(* No waiter is left without a fill, for failures of the upstream and of   *)
(* the storage alone.                                                      *)

\* The request waits, or will: no announcement has been made since it looked.
Unserved(r) == At(r, "waiting") \/ (At(r, "wait") /\ ~status)

\* The inductive form: the record leaves FILLING only for an announcement.
WaitInv == (\E r \in Req : Unserved(r)) =>
              rec.state = "filling" \/ \E q \in Req : Announcing(q)

\* Everybody is let out, ...
LetsOut == \A q \in Req : ~Unserved(q)'

\* ... or the other requests stay as they are, this one begins to wait only for a
\* fill, and what it takes away from the waiting ones it is bound to announce.
HandsOn(r) == /\ status' = status
              /\ \A q \in Req \ {r} : pc'[q] = pc[q]
              /\ Unserved(r)' => Unserved(r) \/ rec'.state = "filling"
              /\ rec.state = "filling" => rec'.state = "filling" \/ Announcing(r)'
              /\ Announcing(r) => Announcing(r)'

LEMMA AnnounceLetsOut ==
    ASSUME TypeOK, NEW r \in Req, NEW p \in {"idle", "release"}, Announce(r, p)
    PROVE  LetsOut
BY DEF Announce, TypeOK, LetsOut, Unserved, At

LEMMA ServeStep ==
    ASSUME OnlyDataFaults, TypeOK, NEW r \in Req, live[r], Step(r)
    PROVE  LetsOut \/ HandsOn(r)
<1>c. \A k \in {"meta", "coord"} :
         ~Fails(r, k) /\ ~Refused(r, k) /\ ~Strike(k) /\ ~Abandoned(r)
  BY CallsSucceed
<1>r. rec \in Row /\ (pc[r] # "idle" => node[r] \in Node)
  BY DEF TypeOK, Row
<1>1. CASE Lookup(r)
  BY <1>1 DEF Lookup, FilledElsewhere, MayFill, CoolingDown, At, Goto, Leave, store, coord,
     TypeOK, HandsOn, Unserved, Announcing
<1>2. CASE Subscribe(r)
  BY <1>2 DEF Subscribe, At, Goto, store, coord, TypeOK, HandsOn, Unserved, Announcing
<1>3. CASE Demote(r)
  <2>1. rec.state = "filling" => rec'.state = "filling"
    <3>1. rec.state = "filling" => rec \in Record
      BY <1>r, MissingRow DEF Row
    <3> QED BY <1>3, <1>r, <3>1, StatementStates DEF Demote, At
  <2> QED BY <1>3, <2>1 DEF Demote, At, Goto, coord, TypeOK, HandsOn, Unserved, Announcing
<1>4. CASE Upsert(r)
  BY <1>4 DEF Upsert, UpsertRecord, At, Goto, coord, TypeOK, HandsOn, Unserved, Announcing
<1>5. CASE RecordSize(r)
  <2>1. rec.state = "filling" => rec'.state = "filling"
    <3>1. rec.state = "filling" => rec \in Record
      BY <1>r, MissingRow DEF Row
    <3> QED BY <1>5, <1>r, <3>1, StatementStates DEF RecordSize, At
  <2> QED
    BY <1>5, <2>1 DEF RecordSize, At, Goto, coord, TypeOK, HandsOn, Unserved, Announcing
<1>6. CASE RecordFailure(r) \/ MarkReady(r) \/ MarkError(r)
  BY <1>6 DEF RecordFailure, MarkReady, MarkError, At, Goto, coord, TypeOK, HandsOn,
     Unserved, Announcing
<1>7. CASE SignalFailed(r)
  <2>1. Announce(r, "idle")
    BY <1>c, <1>7 DEF SignalFailed
  <2> QED BY <2>1, AnnounceLetsOut
<1>8. CASE Signal(r)
  <2>1. Announce(r, "release")
    BY <1>c, <1>8 DEF Signal
  <2> QED BY <2>1, AnnounceLetsOut
<1>9. CASE ReleaseFailed(r) \/ Release(r)
  BY <1>9 DEF ReleaseFailed, Release, ReleaseAs, At, Goto, store, TypeOK, HandsOn, Unserved,
     Announcing
<1>10. CASE OpenObject(r) \/ OpenFails(r) \/ Acquire(r) \/ Recheck(r) \/ Drop(r)
            \/ Fetch(r) \/ FetchFails(r) \/ OpenWriter(r) \/ OpenWriterFails(r)
  BY <1>10 DEF OpenObject, OpenFails, Acquire, Recheck, Drop, Fetch, FetchFails, OpenWriter,
     OpenWriterFails, At, Goto, Leave, store, coord, TypeOK, HandsOn, Unserved, Announcing
<1>11. CASE Copy(r) \/ CopyFails(r) \/ Commit(r) \/ CommitFails(r)
  BY <1>11 DEF Copy, CopyFails, Commit, CommitFails, At, Leave, store, coord, TypeOK,
     HandsOn, Unserved, Announcing
<1> QED
  BY <1>c, <1>1, <1>2, <1>3, <1>4, <1>5, <1>6, <1>7, <1>8, <1>9, <1>10, <1>11
     DEF Step, LookupFails, DemoteFails, SubscribeFails, StopWaiting, AcquireFails,
         RecheckFails, DropFails, UpsertFails, RecordSizeFails, RecordFailureFails

LEMMA WaitStep ==
    ASSUME OnlyDataFaults, TypeOK, SettledInv, WaitInv, [Next]_vars
    PROVE  WaitInv'
<1>1. ASSUME NEW r \in Req, Step(r) PROVE WaitInv'
  <2>1. CASE LetsOut
    BY <2>1 DEF LetsOut, WaitInv
  <2>2. CASE HandsOn(r)
    <3>1. \A q \in Req \ {r} : /\ Unserved(q)' <=> Unserved(q)
                               /\ Announcing(q)' <=> Announcing(q)
      BY <2>2 DEF HandsOn, Unserved, Announcing, At
    <3>2. CASE rec'.state = "filling"
      BY <3>2 DEF WaitInv
    <3>3. CASE rec'.state # "filling" /\ rec.state = "filling"
      BY <2>2, <3>3 DEF HandsOn, WaitInv
    <3>4. CASE rec'.state # "filling" /\ rec.state # "filling"
      <4> SUFFICES ASSUME \E q \in Req : Unserved(q)' PROVE \E q \in Req : Announcing(q)'
        BY DEF WaitInv
      <4>1. \E q \in Req : Unserved(q)
        BY <2>2, <3>1, <3>4 DEF HandsOn
      <4>2. PICK q \in Req : Announcing(q)
        BY <3>4, <4>1 DEF WaitInv
      <4>3. Announcing(q)'
        BY <2>2, <3>1, <4>2 DEF HandsOn
      <4> QED BY <4>3
    <3> QED BY <3>2, <3>3, <3>4
  <2> QED BY <1>1, <2>1, <2>2, ServeStep DEF SettledInv
<1>2. ASSUME NEW r \in Req, Pull(r) PROVE WaitInv'
  <2>1. \A q \in Req : /\ Unserved(q)' => Unserved(q)
                       /\ Announcing(q) => Announcing(q)'
    BY <1>2 DEF Pull, At, coord, TypeOK, Unserved, Announcing
  <2>2. rec'.state = rec.state
    BY <1>2 DEF Pull, store
  <2> QED BY <2>1, <2>2 DEF WaitInv
<1>3. ASSUME NEW r \in Req PROVE ~Cancel(r)
  BY DEF Cancel, Strike, OnlyDataFaults
<1>4. ASSUME NEW n \in Node PROVE ~Crash(n)
  BY DEF Crash, OnlyDataFaults
<1>5. CASE FillGoesStale \/ CooldownElapses
  <2>1. rec'.state = rec.state
    BY <1>5 DEF FillGoesStale, CooldownElapses, TypeOK, Record, NoRecord
  <2> QED BY <1>5, <2>1
      DEF FillGoesStale, CooldownElapses, coord, WaitInv, Unserved, Announcing, At
<1>6. CASE LockExpires
  BY <1>6 DEF LockExpires, store, WaitInv, Unserved, Announcing, At
<1>7. CASE StatusExpires
  BY <1>7 DEF StatusExpires, store, WaitInv, Unserved, Announcing, At
<1>8. CASE UNCHANGED vars
  BY <1>8 DEF vars, WaitInv, Unserved, Announcing, At
<1> QED BY <1>1, <1>2, <1>3, <1>4, <1>5, <1>6, <1>7, <1>8 DEF Next

\* No wake-up is lost: whatever fails upstream and in the storage, while a request
\* waits, another one is at the fill or about to announce its end. What liveness
\* adds to this (FirstPullReturns) is only that this other one goes on.
THEOREM WaitersAreServedCorrect ==
    ASSUME LocksOutliveFills, OnlyDataFaults
    PROVE  Spec => []WaitersAreServed
<1>1. Init => WaitInv
  BY DEF Init, WaitInv, Unserved, At
<1>2. TypeOK /\ SettledInv /\ WaitInv /\ [Next]_vars => WaitInv'
  BY WaitStep
<1>3. SettledInv /\ WaitInv => WaitersAreServed
  BY DEF SettledInv, WaitInv, WaitersAreServed, Unserved
<1> QED BY <1>1, <1>2, <1>3, TypeCorrect, SettledCorrect, PTL DEF Spec
-----------------------------------------------------------------------------
(* When the object of a READY record stays whole.                          *)

\* No stream breaks and no client leaves; anything else may fail, and locks may
\* expire under their holders.
NoBrokenStream == FaultKinds \cap {"copy", "cancel"} = {}

UnbrokenInv == object # "partial" /\ \A r \in Req : live[r] /\ body[r] # "partial"

LEMMA UnbrokenStep ==
    ASSUME NoBrokenStream, TypeOK, UnbrokenInv, [Next]_vars
    PROVE  UnbrokenInv'
<1>f. "copy" \notin FaultKinds /\ "cancel" \notin FaultKinds
  BY DEF NoBrokenStream
<1>1. ASSUME NEW r \in Req, Step(r) PROVE UnbrokenInv'
  <2>1. \A q \in Req : live'[q]
    BY <1>1, LiveKept DEF UnbrokenInv
  <2>2. ~CopyFails(r)
    BY <1>f DEF CopyFails, Fails, Abandoned, Refused, Strike, UnbrokenInv
  <2>3. body' = body \/ \E b \in {"none", "whole"} : body' = [body EXCEPT ![r] = b]
    BY <1>1, <2>2
       DEF Step, Lookup, LookupFails, OpenObject, OpenFails, Demote, DemoteFails, Subscribe,
           SubscribeFails, StopWaiting, Acquire, AcquireFails, Recheck, RecheckFails, Drop,
           DropFails, Upsert, UpsertFails, Fetch, FetchFails, RecordSize, RecordSizeFails,
           OpenWriter, OpenWriterFails, RecordFailure, RecordFailureFails, ReleaseFailed,
           ReleaseAs, SignalFailed, Copy, MarkReady, MarkError, Signal, Release, Commit,
           CommitFails, Goto, Leave, session
  <2>4. object' \in {object, body[r]}
    BY <1>1, <2>2
       DEF Step, Lookup, LookupFails, OpenObject, OpenFails, Demote, DemoteFails, Subscribe,
           SubscribeFails, StopWaiting, Acquire, AcquireFails, Recheck, RecheckFails, Drop,
           DropFails, Upsert, UpsertFails, Fetch, FetchFails, RecordSize, RecordSizeFails,
           OpenWriter, OpenWriterFails, RecordFailure, RecordFailureFails, ReleaseFailed,
           ReleaseAs, SignalFailed, Copy, MarkReady, MarkError, Signal, Release, Commit,
           CommitFails, store
  <2> QED BY <2>1, <2>3, <2>4 DEF UnbrokenInv, TypeOK
<1>2. ASSUME NEW r \in Req, Pull(r) PROVE UnbrokenInv'
  BY <1>2 DEF Pull, store, UnbrokenInv
<1>3. ASSUME NEW r \in Req PROVE ~Cancel(r)
  BY <1>f DEF Cancel, Strike
<1>4. ASSUME NEW n \in Node, Crash(n) PROVE UnbrokenInv'
  BY <1>4 DEF Crash, store, UnbrokenInv, TypeOK
<1>5. CASE FillGoesStale \/ CooldownElapses \/ LockExpires \/ StatusExpires
  BY <1>5 DEF FillGoesStale, CooldownElapses, LockExpires, StatusExpires, store, session,
     UnbrokenInv
<1>6. CASE UNCHANGED vars
  BY <1>6 DEF vars, UnbrokenInv
<1> QED BY <1>1, <1>2, <1>3, <1>4, <1>5, <1>6 DEF Next

\* A broken stream or a client that left is the only way to the counterexample of
\* the run orch_ready_valid: without them no failure, no crash and no expired lock
\* makes an object partial, so none replaces the whole object of a READY record.
THEOREM OnlyBrokenStreamsTruncate ==
    ASSUME NoBrokenStream
    PROVE  Spec => [](object # "partial") /\ ServedObjectStaysWhole
<1>1. Init => UnbrokenInv
  BY DEF Init, UnbrokenInv
<1>2. TypeOK /\ UnbrokenInv /\ [Next]_vars => UnbrokenInv'
  BY UnbrokenStep
<1>3. UnbrokenInv => object # "partial"
  BY DEF UnbrokenInv
<1>4. UnbrokenInv' => [rec.state = "ready" /\ object = "whole" => object' # "partial"]_vars
  BY DEF UnbrokenInv
<1> QED BY <1>1, <1>2, <1>3, <1>4, TypeCorrect, PTL DEF Spec, ServedObjectStaysWhole
-----------------------------------------------------------------------------
(* What the two remaining counterexamples of the runs need.                *)

\* A look at the record under the lock finds no failure that is cooling down.
RecheckLooks == [][\A r \in Req : Recheck(r) => ~CoolingDown]_vars

\* No failure is recorded between that look and the upsert.
CoolInv == \A r \in Req : At(r, "upsert") => ~CoolingDown

\* The second GetRecord is the only way to the upsert.
LEMMA OnlyRecheckUpserts ==
    ASSUME TypeOK, NEW r \in Req, Step(r), pc'[r] = "upsert"
    PROVE  Recheck(r)
BY DEF TypeOK, Step, Lookup, LookupFails, OpenObject, OpenFails, Demote, DemoteFails,
   Subscribe, SubscribeFails, StopWaiting, Acquire, AcquireFails, RecheckFails, Drop,
   DropFails, Upsert, UpsertFails, Fetch, FetchFails, RecordSize, RecordSizeFails,
   OpenWriter, OpenWriterFails, RecordFailure, RecordFailureFails, ReleaseFailed,
   ReleaseAs, SignalFailed, Announce, Copy, CopyFails, MarkReady, MarkError, Signal,
   Release, Commit, CommitFails, Goto, Leave

LEMMA CoolStep ==
    ASSUME TypeOK, LockInv, CoolInv, [Next]_vars,
           \A r \in Req : Recheck(r) => ~CoolingDown
    PROVE  CoolInv'
<1>1. ASSUME NEW r \in Req, Step(r) PROVE CoolInv'
  <2>1. Moves(r) /\ Effect(r)
    BY <1>1, StepEffect
  <2>2. \A q \in Req \ {r} : At(q, "upsert")' => At(q, "upsert")
    BY <2>1 DEF Moves, At
  <2>3. CASE At(r, "upsert")'
    <3>1. Recheck(r)
      BY <1>1, <2>3, OnlyRecheckUpserts DEF At
    <3>2. rec' = rec /\ ~CoolingDown
      BY <3>1 DEF Recheck, store
    <3> QED BY <3>2 DEF CoolInv, CoolingDown
  <2>4. CASE ~At(r, "upsert")' /\ rec' = rec
    BY <2>2, <2>4 DEF CoolInv, CoolingDown
  <2>5. CASE ~At(r, "upsert")' /\ pc[r] \in HoldingPc
    <3>1. \A q \in Req \ {r} : ~At(q, "upsert")
      BY <2>5 DEF LockInv, SingleFlight, Holding, At, HoldingPc
    <3> QED BY <2>2, <2>5, <3>1 DEF CoolInv
  <2>6. CASE ~At(r, "upsert")' /\ Demotes(r)
    <3>1. rec \in Row /\ node[r] \in Node
      BY <2>6 DEF Demotes, TypeOK, Row
    <3>2. CASE rec = NoRecord
      BY <2>4, <2>6, <3>1, <3>2, NoRowNoUpdate DEF Demotes
    <3>3. CASE rec \in Record
      <4>1. rec'.state = "filling"
        BY <2>6, <3>1, <3>3, StatementStates DEF Demotes
      <4> QED BY <4>1 DEF CoolInv, CoolingDown
    <3> QED BY <3>1, <3>2, <3>3 DEF Row
  <2> QED
    BY <2>1, <2>3, <2>4, <2>5, <2>6
       DEF Effect, Quiet, Leads, Resigns, Starts, Sizes, Breaks, Publishes, HoldingPc
<1>2. ASSUME NEW r \in Req, Pull(r) PROVE CoolInv'
  BY <1>2 DEF Pull, store, TypeOK, CoolInv, At, CoolingDown
<1>3. ASSUME NEW r \in Req, Cancel(r) PROVE CoolInv'
  BY <1>3 DEF Cancel, store, CoolInv, At, CoolingDown
<1>4. ASSUME NEW n \in Node, Crash(n) PROVE CoolInv'
  BY <1>4 DEF Crash, store, TypeOK, CoolInv, At, CoolingDown
<1>5. CASE FillGoesStale \/ CooldownElapses
  <2>1. CoolingDown' => CoolingDown
    BY <1>5 DEF FillGoesStale, CooldownElapses, CoolingDown, TypeOK, Record, NoRecord
  <2> QED BY <1>5, <2>1 DEF FillGoesStale, CooldownElapses, CoolInv, At
<1>6. CASE LockExpires \/ StatusExpires
  BY <1>6 DEF LockExpires, StatusExpires, store, CoolInv, At, CoolingDown
<1>7. CASE UNCHANGED vars
  BY <1>7 DEF vars, CoolInv, At, CoolingDown
<1> QED BY <1>1, <1>2, <1>3, <1>4, <1>5, <1>6, <1>7 DEF Next

\* The counterexample of the run orch_cooldown needs a recheck that finds a failure
\* cooling down and goes on: in the behaviours without one, no fill begins inside a
\* cooldown, whatever fails, so that testing for it there too would be enough.
THEOREM RecheckIsEnough ==
    ASSUME LocksOutliveFills
    PROVE  Spec /\ RecheckLooks => RetriesAfterCooldown
<1> DEFINE Retry == \A r \in Req : At(r, "upsert") /\ pc'[r] = "fetch" => ~CoolingDown
<1>1. Init => CoolInv
  BY DEF Init, CoolInv, At
<1>2. TypeOK /\ LockInv /\ CoolInv /\ [Next]_vars
      /\ [\A r \in Req : Recheck(r) => ~CoolingDown]_vars => CoolInv'
  <2>1. CASE UNCHANGED vars
    BY <2>1 DEF vars, CoolInv, At, CoolingDown
  <2>2. CASE \A r \in Req : Recheck(r) => ~CoolingDown
    BY <2>2, CoolStep
  <2> QED BY <2>1, <2>2
<1>3. CoolInv => [Retry]_vars
  BY DEF CoolInv
<1> QED
  BY <1>1, <1>2, <1>3, TypeCorrect, LockCorrect, PTL
     DEF Spec, RecheckLooks, RetriesAfterCooldown
-----------------------------------------------------------------------------
\* Nobody gets the lock while an upload is still to be completed.
LockUntilCommit ==
    [][\A r, q \in Req : Leads(r) => ~At(q, "commit")]_vars

\* The requests that have copied a part of the artifact only.
TruncatedPc == {"markError", "signal", "release", "commit"}

\* The record of such a fill is not READY until its upload is completed, and no
\* other fill is under way then.
TruncatedInv ==
    \A r \in Req : /\ body[r] = "partial" => pc[r] \in TruncatedPc /\ rec.state # "ready"
                   /\ At(r, "commit") => \A q \in Req : ~Holding(q)

\* What a step does to the bodies, and where it can put a part of the artifact.
BodyMoves(r) ==
    /\ \A q \in Req \ {r} : body'[q] = body[q]
    /\ body'[r] = "partial" =>
          /\ pc'[r] \in TruncatedPc
          /\ body[r] = "partial" \/ (pc[r] = "copy" /\ rec' = rec)
    /\ Publishes(r) => body[r] # "partial"
    /\ pc'[r] = "commit" => Holding(r) /\ rec' = rec
    /\ object' = object \/ (object' = body[r] /\ pc[r] = "commit" /\ rec' = rec)

LEMMA BodyStep ==
    ASSUME TypeOK, TruncatedInv, NEW r \in Req, Step(r)
    PROVE  BodyMoves(r)
<1>1. CASE Copy(r) \/ CopyFails(r) \/ MarkReady(r) \/ MarkError(r) \/ Signal(r)
  <2>1. CASE Copy(r) \/ CopyFails(r)
    BY <2>1 DEF Copy, CopyFails, At, store, TypeOK, BodyMoves, TruncatedPc, Publishes
  <2>2. CASE MarkReady(r) \/ MarkError(r)
    BY <2>2 DEF MarkReady, MarkError, At, Goto, session, TypeOK, TruncatedInv, BodyMoves,
       TruncatedPc, Publishes
  <2>3. CASE Signal(r)
    BY <2>3 DEF Signal, Announce, At, session, store, TypeOK, TruncatedInv, BodyMoves,
       TruncatedPc, Publishes
  <2> QED BY <1>1, <2>1, <2>2, <2>3
<1>2. CASE Release(r) \/ Commit(r) \/ CommitFails(r)
  BY <1>2 DEF Release, ReleaseAs, Commit, CommitFails, At, Goto, Leave, session, store,
     TypeOK, BodyMoves, TruncatedPc, Publishes, Holding, HoldingPc
<1>3. CASE /\ object' = object /\ pc'[r] # "commit" /\ ~Publishes(r)
           /\ body' = body /\ pc[r] \notin TruncatedPc
  BY <1>3 DEF TruncatedInv, BodyMoves
<1>4. CASE object' = object /\ Leave(r) /\ ~Publishes(r)
  BY <1>4 DEF Leave, TypeOK, BodyMoves
<1>5. CASE Lookup(r) \/ LookupFails(r) \/ OpenObject(r) \/ OpenFails(r) \/ Demote(r)
           \/ DemoteFails(r) \/ Subscribe(r) \/ SubscribeFails(r) \/ StopWaiting(r)
  BY <1>3, <1>4, <1>5
     DEF Lookup, LookupFails, OpenObject, OpenFails, Demote, DemoteFails, Subscribe,
         SubscribeFails, StopWaiting, At, Goto, session, store, TypeOK, Publishes,
         TruncatedPc
<1>6. CASE Acquire(r) \/ AcquireFails(r) \/ Recheck(r) \/ RecheckFails(r) \/ Drop(r)
           \/ DropFails(r) \/ Upsert(r) \/ UpsertFails(r) \/ Fetch(r) \/ FetchFails(r)
  BY <1>3, <1>4, <1>6
     DEF Acquire, AcquireFails, Recheck, RecheckFails, Drop, DropFails, Upsert, UpsertFails,
         Fetch, FetchFails, At, Goto, session, store, TypeOK, Publishes, TruncatedPc
<1>7. CASE RecordSize(r) \/ RecordSizeFails(r) \/ OpenWriter(r) \/ OpenWriterFails(r)
           \/ RecordFailure(r) \/ RecordFailureFails(r) \/ ReleaseFailed(r)
           \/ SignalFailed(r)
  BY <1>3, <1>7
     DEF RecordSize, RecordSizeFails, OpenWriter, OpenWriterFails, RecordFailure,
         RecordFailureFails, ReleaseFailed, ReleaseAs, SignalFailed, Announce, At, Goto,
         session, store, TypeOK, Publishes, TruncatedPc
<1> QED BY <1>1, <1>2, <1>5, <1>6, <1>7 DEF Step

LEMMA TruncatedStep ==
    ASSUME TypeOK, LockInv, FillInv, TruncatedInv, [Next]_vars,
           \A r, q \in Req : Leads(r) => ~At(q, "commit")
    PROVE  TruncatedInv'
<1>1. ASSUME NEW r \in Req, Step(r) PROVE TruncatedInv'
  <2>1. Moves(r) /\ Effect(r) /\ BodyMoves(r)
    BY <1>1, StepEffect, BodyStep
  <2>2. \A q \in Req \ {r} : /\ body'[q] = "partial" => body[q] = "partial"
                             /\ pc[q] \in TruncatedPc => pc'[q] = pc[q]
                             /\ Holding(q)' <=> Holding(q)
                             /\ At(q, "commit")' <=> At(q, "commit")
    BY <2>1 DEF Moves, BodyMoves, TruncatedPc, Holding, HoldingPc, At
  <2>3. ASSUME NEW q \in Req, body'[q] = "partial"
        PROVE  pc'[q] \in TruncatedPc
    BY <2>1, <2>2, <2>3 DEF BodyMoves, TruncatedInv
  <2>4. ASSUME NEW q \in Req, body'[q] = "partial"
        PROVE  rec'.state # "ready"
    <3>1. rec.state # "ready"
      BY <2>1, <2>2, <2>4 DEF BodyMoves, TruncatedInv, FillInv, FillPc
    <3>2. CASE rec' = rec
      BY <3>1, <3>2
    <3>3. CASE Publishes(r)
      <4>1. q # r /\ body[q] = "partial"
        BY <2>1, <2>2, <2>4, <3>3 DEF BodyMoves, Publishes, TruncatedPc
      <4>2. Holding(r) /\ Holding(q)
        BY <3>3, <4>1 DEF Publishes, Holding, HoldingPc, TruncatedInv, TruncatedPc, At
      <4> QED BY <4>1, <4>2 DEF LockInv, SingleFlight
    <3>4. CASE Starts(r)
      BY <3>4 DEF Starts, UpsertRecord
    <3>5. CASE Sizes(r) \/ Breaks(r) \/ Demotes(r)
      <4>1. rec \in Row /\ node[r] \in Node
        BY <3>5 DEF Sizes, Breaks, Demotes, TypeOK, Row
      <4>2. CASE rec = NoRecord
        BY <3>2, <3>5, <4>1, <4>2, NoRowNoUpdate DEF Sizes, Breaks, Demotes
      <4>3. CASE rec \in Record
        BY <3>1, <3>5, <4>1, <4>3, StatementStates DEF Sizes, Breaks, Demotes
      <4> QED BY <4>1, <4>2, <4>3 DEF Row
    <3> QED BY <2>1, <3>2, <3>3, <3>4, <3>5 DEF Effect, Quiet, Leads, Resigns
  <2>5. ASSUME NEW q \in Req, At(q, "commit")', NEW p \in Req, Holding(p)'
        PROVE  FALSE
    <3>1. CASE At(q, "commit")
      <4>1. p = r /\ ~Holding(r)
        BY <2>2, <2>5, <3>1 DEF TruncatedInv
      <4>2. Leads(r)
        BY <2>1, <2>5, <4>1
           DEF Effect, Quiet, Resigns, Starts, Sizes, Breaks, Publishes, Demotes, Holding,
               HoldingPc
      <4> QED BY <3>1, <4>2
    <3>2. CASE ~At(q, "commit")
      <4>1. q = r /\ Holding(r)
        BY <2>1, <2>2, <2>5, <3>2 DEF BodyMoves, At
      <4>2. p # r
        BY <2>5, <4>1 DEF At, Holding, HoldingPc
      <4>3. Holding(p)
        BY <2>2, <2>5, <4>2
      <4> QED BY <4>1, <4>2, <4>3 DEF LockInv, SingleFlight
    <3> QED BY <3>1, <3>2
  <2> QED BY <2>3, <2>4, <2>5 DEF TruncatedInv
<1>2. ASSUME NEW r \in Req, Pull(r) PROVE TruncatedInv'
  BY <1>2 DEF Pull, store, TypeOK, TruncatedInv, TruncatedPc, Holding, HoldingPc, At
<1>3. ASSUME NEW r \in Req, Cancel(r) PROVE TruncatedInv'
  BY <1>3 DEF Cancel, store, TruncatedInv, Holding, At
<1>4. ASSUME NEW n \in Node, Crash(n) PROVE TruncatedInv'
  <2>1. \A q \in Req : /\ body'[q] = "partial" => body[q] = "partial" /\ pc'[q] = pc[q]
                       /\ pc'[q] = pc[q] \/ pc'[q] = "idle"
    BY <1>4 DEF Crash, TypeOK
  <2> QED BY <1>4, <2>1 DEF Crash, store, TruncatedInv, Holding, HoldingPc, At
<1>5. CASE FillGoesStale \/ CooldownElapses
  <2>1. rec'.state = rec.state
    BY <1>5 DEF FillGoesStale, CooldownElapses, TypeOK, Record, NoRecord
  <2> QED BY <1>5, <2>1
      DEF FillGoesStale, CooldownElapses, session, TruncatedInv, Holding, At
<1>6. CASE LockExpires \/ StatusExpires
  BY <1>6 DEF LockExpires, StatusExpires, store, session, TruncatedInv, Holding, At
<1>7. CASE UNCHANGED vars
  BY <1>7 DEF vars, TruncatedInv, Holding, At
<1> QED BY <1>1, <1>2, <1>3, <1>4, <1>5, <1>6, <1>7 DEF Next

\* The counterexample of the run orch_ready_valid needs a request that gets the lock
\* while an upload is still to be completed (executeFill's deferred calls release it
\* before they close the writer). In the behaviours without one no transfer, however
\* it was interrupted, truncates the object of a READY record.
THEOREM LockUntilCommitIsEnough ==
    ASSUME LocksOutliveFills
    PROVE  Spec /\ LockUntilCommit => ServedObjectStaysWhole
<1> DEFINE Whole == rec.state = "ready" /\ object = "whole" => object' # "partial"
<1>1. Init => TruncatedInv
  BY DEF Init, TruncatedInv, At
<1>2. TypeOK /\ LockInv /\ FillInv /\ TruncatedInv /\ [Next]_vars
      /\ [\A r, q \in Req : Leads(r) => ~At(q, "commit")]_vars => TruncatedInv'
  <2>1. CASE UNCHANGED vars
    BY <2>1 DEF vars, TruncatedInv, Holding, At
  <2>2. CASE \A r, q \in Req : Leads(r) => ~At(q, "commit")
    BY <2>2, TruncatedStep
  <2> QED BY <2>1, <2>2
<1>3. TypeOK /\ TruncatedInv /\ [Next]_vars => [Whole]_vars
  <2> SUFFICES ASSUME TypeOK, TruncatedInv, Next, rec.state = "ready", object = "whole"
               PROVE  object' # "partial"
    OBVIOUS
  <2>1. ASSUME NEW r \in Req, Step(r) PROVE object' # "partial"
    BY <2>1, BodyStep DEF BodyMoves, TruncatedInv
  <2>2. CASE object' = object
    BY <2>2
  <2> QED
    BY <2>1, <2>2
       DEF Next, Pull, Cancel, Crash, FillGoesStale, CooldownElapses, LockExpires,
           StatusExpires, store
<1> QED
  BY <1>1, <1>2, <1>3, TypeCorrect, LockCorrect, FillCorrect, PTL
     DEF Spec, LockUntilCommit, ServedObjectStaysWhole
=============================================================================
