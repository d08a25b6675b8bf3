-------------------------- MODULE ReadySignalProofs --------------------------
(* Theorems of ReadySignal, for any calls, fills and failures. *)
EXTENDS ReadySignal, TLAPS

-----------------------------------------------------------------------------
(* Type correctness.                                                       *)

LEMMA TypeInit == Init => TypeOK
<1> SUFFICES ASSUME Init PROVE TypeOK
  OBVIOUS
<1>1. fills \in 0..MaxFills /\ over \in 0..fills /\ faults \in 0..MaxFaults
  BY BoundAssumption DEF Init
<1>2. seen \in [Waiter -> 0..MaxFills]
  BY BoundAssumption DEF Init
<1> QED BY <1>1, <1>2 DEF Init, TypeOK

LEMMA TypeStep == TypeOK /\ [Next]_vars => TypeOK'
<1> SUFFICES ASSUME TypeOK, [Next]_vars PROVE TypeOK'
  OBVIOUS
<1> USE BoundAssumption DEF TypeOK, calls, server
<1>1. ASSUME NEW w \in Waiter, Call(w) PROVE TypeOK'
  BY <1>1 DEF Call
<1>2. ASSUME NEW w \in Waiter, Cancel(w) PROVE TypeOK'
  BY <1>2 DEF Cancel
<1>3. ASSUME NEW w \in Waiter, Caller(w) PROVE TypeOK'
  BY <1>3 DEF Caller, ReturnReady, ReturnCancelled
<1>4. ASSUME NEW w \in Waiter, Receiver(w) PROVE TypeOK'
  <2>1. CASE Subscribe(w)
    BY <2>1 DEF Subscribe
  <2>2. CASE Confirm(w)
    BY <2>2 DEF Confirm
  <2>3. CASE Deliver(w)
    BY <2>3 DEF Deliver
  <2>4. CASE ReceiveFails(w)
    BY <2>4 DEF ReceiveFails, Fault
  <2>5. CASE ReceiveEnds(w)
    BY <2>5 DEF ReceiveEnds
  <2> QED BY <1>4, <2>1, <2>2, <2>3, <2>4, <2>5 DEF Receiver
<1>5. ASSUME NEW w \in Waiter, Checker(w) PROVE TypeOK'
  <2>1. CASE Exists(w)
    BY <2>1 DEF Exists
  <2>2. CASE ExistsFails(w)
    BY <2>2 DEF ExistsFails, Fault
  <2> QED BY <1>5, <2>1, <2>2 DEF Checker
<1>6. CASE BeginFill
  BY <1>6 DEF BeginFill
<1>7. CASE SignalReady
  BY <1>7 DEF SignalReady
<1>8. CASE StatusExpires
  BY <1>8 DEF StatusExpires
<1>9. CASE UNCHANGED vars
  BY <1>9 DEF vars
<1> QED BY <1>1, <1>2, <1>3, <1>4, <1>5, <1>6, <1>7, <1>8, <1>9 DEF Next

\* The types hold, and the hook asks EXISTS only after the subscription was
\* confirmed, for any number of calls, fills and failures.
THEOREM TypeCorrect == Spec => []TypeOK
BY TypeInit, TypeStep, PTL DEF Spec

-----------------------------------------------------------------------------
(* The latch.                                                              *)

Phases == [w \in Waiter |-> Phase(w)]

\* What the steps of one call leave alone.
Own(w) == /\ \A v \in Waiter \ {w} : Phase(v)' = Phase(v)
          /\ status' = status

\* A change of one phase is a step of the latch when it leads out, when it is
\* what the latch decides, or when the call is impaired.
LEMMA PhaseChange ==
    ASSUME NEW w \in Waiter, Own(w),
           \/ Phase(w)' = Phase(w)
           \/ Phase(w)' = "out"
           \/ Phase(w) = "out" /\ Phase(w)' = "wait"
           \/ Phase(w) = "wait" /\ Phase(w)' = IF status THEN "out" ELSE "waiting"
           \/ Phase(w) \in {"wait", "waiting"} /\ Phase(w)' \in {"waiting", "deaf"}
    PROVE  [Latch!Next]_(Latch!vars)
<1>1. Phases' = [Phases EXCEPT ![w] = Phase(w)']
  BY DEF Own, Phases
<1>2. CASE Phase(w)' = Phase(w)
  BY <1>2 DEF Own, Latch!vars
<1>3. CASE Phase(w)' = "out"
  <2>1. Phases' = [v \in Waiter |-> IF v \in {w} THEN "out" ELSE Phases[v]]
    BY <1>1, <1>3 DEF Phases
  <2>2. Latch!Quit({w})
    BY <2>1 DEF Latch!Quit, Phases, Own
  <2> QED BY <2>2 DEF Latch!Next
<1>4. CASE Phase(w) = "out" /\ Phase(w)' = "wait"
  <2>1. Latch!Enter(w)
    BY <1>1, <1>4 DEF Latch!Enter, Phases, Own
  <2> QED BY <2>1 DEF Latch!Next
<1>5. CASE Phase(w) = "wait" /\ Phase(w)' = IF status THEN "out" ELSE "waiting"
  <2>1. Latch!Decide(w)
    BY <1>1, <1>5 DEF Latch!Decide, Phases, Own
  <2> QED BY <2>1 DEF Latch!Next
<1>6. CASE Phase(w) \in {"wait", "waiting"} /\ Phase(w)' \in {"waiting", "deaf"}
  <2>1. Latch!Impair(w)
    BY <1>1, <1>6 DEF Latch!Impair, Phases, Own
  <2> QED BY <2>1 DEF Latch!Next
<1> QED BY <1>2, <1>3, <1>4, <1>5, <1>6

LEMMA LatchInit == Init => Latch!Init
BY DEF Init, Latch!Init, Phase

\* Every step maps to one of the latch's, or changes none of its variables.
LEMMA LatchStep ==
    ASSUME TypeOK, [Next]_vars
    PROVE  [Latch!Next]_(Latch!vars)
<1>1. ASSUME NEW w \in Waiter, Call(w) PROVE [Latch!Next]_(Latch!vars)
  <2>1. Own(w) /\ Phase(w) = "out" /\ Phase(w)' = "wait"
    BY <1>1 DEF Call, Own, Phase, TypeOK, server
  <2> QED BY <2>1, PhaseChange
<1>2. ASSUME NEW w \in Waiter, Cancel(w) \/ Caller(w) PROVE [Latch!Next]_(Latch!vars)
  <2>1. Own(w) /\ Phase(w)' = "out"
    BY <1>2 DEF Cancel, Caller, ReturnReady, ReturnCancelled, Own, Phase, TypeOK, server
  <2> QED BY <2>1, PhaseChange
<1>3. ASSUME NEW w \in Waiter, Receiver(w) PROVE [Latch!Next]_(Latch!vars)
  <2>1. CASE Subscribe(w) \/ Confirm(w) \/ ReceiveEnds(w)
    <3>1. Own(w) /\ Phase(w)' = Phase(w)
      BY <2>1 DEF Subscribe, Confirm, ReceiveEnds, SubscriptionEnds, Own, Phase, TypeOK, server
    <3> QED BY <3>1, PhaseChange
  <2>2. CASE Deliver(w)
    <3>1. Own(w) /\ Phase(w)' = "out"
      BY <2>2 DEF Deliver, Own, Phase, TypeOK, server
    <3> QED BY <3>1, PhaseChange
  <2>3. CASE ReceiveFails(w)
    <3>1. /\ Own(w)
          /\ \/ Phase(w)' = Phase(w)
             \/ Phase(w) \in {"wait", "waiting"} /\ Phase(w)' = "deaf"
      BY <2>3 DEF ReceiveFails, Own, Phase, TypeOK, server
    <3> QED BY <3>1, PhaseChange
  <2> QED BY <1>3, <2>1, <2>2, <2>3 DEF Receiver
<1>4. ASSUME NEW w \in Waiter, Exists(w) PROVE [Latch!Next]_(Latch!vars)
  <2>1. Own(w)
    BY <1>4 DEF Exists, Own, Phase, TypeOK, server
  <2>2. CASE Phase(w) = "out"
    <3>1. Phase(w)' = "out"
      BY <1>4, <2>2 DEF Exists, Phase, TypeOK
    <3> QED BY <2>1, <3>1, PhaseChange
  <2>3. CASE Phase(w) # "out"
    <3>1. /\ Phase(w) = "wait"
          /\ status => Phase(w)' = "out"
          /\ Phase(w)' \in {"out", "waiting", "deaf"}
      BY <1>4, <2>3 DEF Exists, Phase, TypeOK
    <3> QED BY <2>1, <3>1, PhaseChange
  <2> QED BY <2>2, <2>3
<1>5. ASSUME NEW w \in Waiter, ExistsFails(w) PROVE [Latch!Next]_(Latch!vars)
  <2>1. /\ Own(w)
        /\ \/ Phase(w)' = "out"
           \/ Phase(w) = "wait" /\ Phase(w)' \in {"waiting", "deaf"}
    BY <1>5 DEF ExistsFails, Fault, Own, Phase, TypeOK, server
  <2> QED BY <2>1, PhaseChange
<1>6. CASE BeginFill \/ UNCHANGED vars
  <2>1. status' = status /\ \A w \in Waiter : Phase(w)' = Phase(w)
    BY <1>6 DEF BeginFill, vars, calls, Phase
  <2> QED BY <2>1 DEF Latch!vars
<1>7. CASE SignalReady
  <2>1. \A w \in Waiter : Phase(w)' = IF Phase(w) = "waiting" THEN "out" ELSE Phase(w)
    BY <1>7 DEF SignalReady, Phase, TypeOK
  <2>2. Phases' = [w \in Waiter |-> IF Phases[w] = "waiting" THEN "out" ELSE Phases[w]]
    BY <2>1 DEF Phases
  <2>3. Latch!Announce
    BY <1>7, <2>2 DEF SignalReady, Latch!Announce, Phases
  <2> QED BY <2>3 DEF Latch!Next
<1>8. CASE StatusExpires
  <2>1. Latch!Expire
    BY <1>8 DEF StatusExpires, calls, Latch!Expire, Phase
  <2> QED BY <2>1 DEF Latch!Next
<1> QED BY <1>1, <1>2, <1>3, <1>4, <1>5, <1>6, <1>7, <1>8 DEF Next, Checker

\* The three goroutines of each call, the channel, the status key and the
\* messages implement the latch, whichever command fails: a signal published
\* between the subscription and EXISTS is not lost.
THEOREM LatchImplemented == Spec => ImplementsLatch
<1>1. TypeOK /\ [Next]_vars => [Latch!Next]_(Latch!vars)
  BY LatchStep
<1> QED BY <1>1, LatchInit, TypeCorrect, PTL DEF Spec, ImplementsLatch, Latch!Spec
-----------------------------------------------------------------------------
(* No signal is missed.                                                    *)

\* A caller in the select has a subscription, or one that failed, until its
\* context ends.
HeardInv == /\ \A w \in Waiter : wpc[w] = "select" /\ live[w] => recv[w] # "none"
            /\ SignalIsNotMissed

LEMMA HeardInit == Init => HeardInv
BY DEF Init, HeardInv, SignalIsNotMissed

LEMMA HeardStep == TypeOK /\ HeardInv /\ [Next]_vars => HeardInv'
<1> SUFFICES ASSUME TypeOK, HeardInv, [Next]_vars PROVE HeardInv'
  OBVIOUS
<1> USE DEF TypeOK, HeardInv, SignalIsNotMissed, Sound, calls, server
<1>1. ASSUME NEW w \in Waiter, Call(w) \/ Cancel(w) \/ Caller(w) PROVE HeardInv'
  BY <1>1 DEF Call, Cancel, Caller, ReturnReady, ReturnCancelled
<1>2. ASSUME NEW w \in Waiter, Receiver(w) PROVE HeardInv'
  <2>1. CASE Subscribe(w) \/ Confirm(w) \/ Deliver(w)
    BY <2>1 DEF Subscribe, Confirm, Deliver
  <2>2. CASE ReceiveFails(w) \/ ReceiveEnds(w)
    BY <2>2 DEF ReceiveFails, ReceiveEnds, SubscriptionEnds
  <2> QED BY <1>2, <2>1, <2>2 DEF Receiver
<1>3. ASSUME NEW w \in Waiter, Checker(w) PROVE HeardInv'
  BY <1>3 DEF Checker, Exists, ExistsFails
<1>4. CASE BeginFill \/ SignalReady \/ StatusExpires
  BY <1>4 DEF BeginFill, SignalReady, StatusExpires
<1>5. CASE UNCHANGED vars
  BY <1>5 DEF vars
<1> QED BY <1>1, <1>2, <1>3, <1>4, <1>5 DEF Next

\* Once a fill has signalled, a caller in the select whose commands succeeded has
\* the signal, a message on its way to it, or an EXISTS still to ask: the safety
\* half of SignalUnblocks, for any number of calls, fills and failures.
THEOREM SignalIsNotMissedCorrect == Spec => []SignalIsNotMissed
<1>1. HeardInv => SignalIsNotMissed
  BY DEF HeardInv
<1> QED BY <1>1, HeardInit, HeardStep, TypeCorrect, PTL DEF Spec

-----------------------------------------------------------------------------
(* The fill that is waited for.                                            *)

\* No call begins while the status key of an earlier fill exists, as it would be
\* if a fill removed the key before it wrote FILLING.
NoOldStatus == [][\A w \in Waiter : Call(w) /\ status => over = fills]_vars

\* What lets a call out was sent by the fill it saw, or by a later one.
CurrentInv == \A w \in Waiter :
    /\ seen[w] <= fills
    /\ wpc[w] = "select" /\ (status \/ signal[w] \/ mail[w]) => over >= seen[w]
    /\ wpc[w] = "ready" => over >= seen[w]

LEMMA CurrentStep ==
    ASSUME TypeOK, TypeOK', CurrentInv, [Next]_vars,
           \A w \in Waiter : Call(w) /\ status => over = fills
    PROVE  CurrentInv'
<1> USE BoundAssumption DEF TypeOK, CurrentInv, calls, server
<1>1. ASSUME NEW w \in Waiter, Call(w) PROVE CurrentInv'
  <2>1. status => over = fills
    BY <1>1
  <2>2. /\ seen' = [seen EXCEPT ![w] = fills] /\ wpc' = [wpc EXCEPT ![w] = "select"]
        /\ signal' = [signal EXCEPT ![w] = FALSE] /\ mail' = [mail EXCEPT ![w] = FALSE]
        /\ UNCHANGED server
    BY <1>1 DEF Call
  <2>3. ASSUME NEW v \in Waiter \ {w}
        PROVE  UNCHANGED <<seen[v], wpc[v], signal[v], mail[v]>>
    BY <2>2
  <2>4. seen'[w] = fills /\ wpc'[w] = "select" /\ ~signal'[w] /\ ~mail'[w]
    BY <2>2
  <2> QED BY <2>1, <2>2, <2>3, <2>4
<1>2. ASSUME NEW w \in Waiter, Cancel(w) \/ Caller(w) PROVE CurrentInv'
  BY <1>2 DEF Cancel, Caller, ReturnReady, ReturnCancelled
<1>3. ASSUME NEW w \in Waiter, Receiver(w) PROVE CurrentInv'
  BY <1>3 DEF Receiver, Subscribe, Confirm, Deliver, ReceiveFails, ReceiveEnds
<1>4. ASSUME NEW w \in Waiter, Checker(w) PROVE CurrentInv'
  BY <1>4 DEF Checker, Exists, ExistsFails
<1>5. CASE BeginFill \/ SignalReady \/ StatusExpires
  BY <1>5 DEF BeginFill, SignalReady, StatusExpires
<1>6. CASE UNCHANGED vars
  BY <1>6 DEF vars
<1> QED BY <1>1, <1>2, <1>3, <1>4, <1>5, <1>6 DEF Next

\* The defect of the run signal_stale has one cause, the status key that outlives
\* its fill: a call that did not find one returns only when its fill is over,
\* whichever commands fail.
THEOREM FillIsOverCorrect == Spec /\ NoOldStatus => []FillIsOver
<1>1. Init => CurrentInv
  <2> SUFFICES ASSUME Init, NEW w \in Waiter
               PROVE  seen[w] <= fills /\ ~status /\ ~signal[w] /\ ~mail[w] /\ wpc[w] = "idle"
    BY DEF CurrentInv
  <2>1. fills = 0 /\ seen[w] = 0 /\ ~status /\ ~signal[w] /\ ~mail[w] /\ wpc[w] = "idle"
    BY DEF Init
  <2> QED BY <2>1
<1>2. TypeOK /\ TypeOK' /\ CurrentInv /\ [Next]_vars
      /\ [\A w \in Waiter : Call(w) /\ status => over = fills]_vars => CurrentInv'
  <2>1. CASE UNCHANGED vars
    BY <2>1 DEF vars, CurrentInv
  <2>2. CASE \A w \in Waiter : Call(w) /\ status => over = fills
    BY <2>2, CurrentStep
  <2> QED BY <2>1, <2>2
<1>3. CurrentInv => FillIsOver
  BY DEF CurrentInv, FillIsOver
<1> QED BY <1>1, <1>2, <1>3, TypeCorrect, PTL DEF Spec, NoOldStatus
=============================================================================
