----------------------------- MODULE ReadySignal -----------------------------
(***************************************************************************)
(* WaitForReady and SignalReady (internal/coordinator/valkey/valkey.go)    *)
(* for one key.  A call of WaitForReady is three goroutines: the caller in *)
(* its select, the one that runs Receive, and the one the subscription     *)
(* hook starts to run EXISTS.  They share a channel of capacity one, and   *)
(* they meet the fills of the key in the status key and in the messages.   *)
(***************************************************************************)
EXTENDS Naturals

CONSTANTS Waiter,     \* calls of WaitForReady
          MaxFills,   \* bound: the fills of the key
          MaxFaults   \* bound: the Valkey commands that fail

ASSUME BoundAssumption == MaxFills \in Nat /\ MaxFaults \in Nat

VARIABLES
    wpc,      \* the caller: idle, select, or what it returned: ready, cancelled
    live,     \* the caller's context is not cancelled
    signal,   \* readySignal holds a value
    recv,     \* Receive: none, subscribe, active (at the server), listening, failed
    hook,     \* the hook's goroutine: none, exists, done, failed
    mail,     \* a message is on its way to the subscription
    status,   \* <key>:status exists
    fills,    \* how many fills have begun
    over,     \* the last fill that has signalled
    seen,     \* the fill whose FILLING record made the caller wait
    faults

calls  == <<wpc, live, signal, recv, hook, mail, seen>>
server == <<status, fills, over>>
vars   == <<wpc, live, signal, recv, hook, mail, status, fills, over, seen, faults>>

Init == /\ wpc = [w \in Waiter |-> "idle"]
        /\ live = [w \in Waiter |-> TRUE]
        /\ signal = [w \in Waiter |-> FALSE]
        /\ recv = [w \in Waiter |-> "none"]
        /\ hook = [w \in Waiter |-> "none"]
        /\ mail = [w \in Waiter |-> FALSE]
        /\ seen = [w \in Waiter |-> 0]
        /\ status = FALSE /\ fills = 0 /\ over = 0 /\ faults = 0

Fault == faults < MaxFaults /\ faults' = faults + 1

\* What the call looks like from outside: undecided until EXISTS was answered,
\* and out as soon as it can only return.
Phase(w) == IF wpc[w] # "select" \/ ~live[w] \/ signal[w] THEN "out"
            ELSE IF recv[w] \in {"subscribe", "active"} \/ hook[w] = "exists" THEN "wait"
            ELSE IF mail[w] THEN "out"
            ELSE IF recv[w] = "listening" THEN "waiting"
            ELSE "deaf"
-----------------------------------------------------------------------------
(* The caller.                                                             *)

\* A slot is used again when the goroutines of its last call have ended.
Call(w) == /\ wpc[w] # "select" /\ fills > 0
           /\ recv[w] \in {"none", "failed"} /\ hook[w] # "exists"
           /\ wpc' = [wpc EXCEPT ![w] = "select"]
           /\ live' = [live EXCEPT ![w] = TRUE]
           /\ signal' = [signal EXCEPT ![w] = FALSE]
           /\ recv' = [recv EXCEPT ![w] = "subscribe"]
           /\ hook' = [hook EXCEPT ![w] = "none"]
           /\ mail' = [mail EXCEPT ![w] = FALSE]
           /\ seen' = [seen EXCEPT ![w] = fills]
           /\ UNCHANGED <<server, faults>>

ReturnReady(w) == /\ wpc[w] = "select" /\ signal[w]
                  /\ wpc' = [wpc EXCEPT ![w] = "ready"]
                  /\ signal' = [signal EXCEPT ![w] = FALSE]
                  /\ UNCHANGED <<live, recv, hook, mail, seen, server, faults>>

\* The other arm of the select; with both ready either may be taken.
ReturnCancelled(w) == /\ wpc[w] = "select" /\ ~live[w]
                      /\ wpc' = [wpc EXCEPT ![w] = "cancelled"]
                      /\ UNCHANGED <<live, signal, recv, hook, mail, seen, server, faults>>

Cancel(w) == /\ wpc[w] # "idle" /\ live[w]
             /\ live' = [live EXCEPT ![w] = FALSE]
             /\ UNCHANGED <<wpc, signal, recv, hook, mail, seen, server, faults>>
-----------------------------------------------------------------------------
(* The goroutine of Receive, under a context that ends with the call.      *)

SubscriptionEnds(w) == wpc[w] # "select" \/ ~live[w]

\* Mutant: EXISTS is asked before the subscription is confirmed.
SubscribeUnconfirmed(w) == /\ recv[w] = "subscribe"
                           /\ recv' = [recv EXCEPT ![w] = "active"]
                           /\ hook' = [hook EXCEPT ![w] = "exists"]
                           /\ UNCHANGED <<wpc, live, signal, mail, seen, server, faults>>

\* The server executes SUBSCRIBE: from here on messages are sent to the call.
Subscribe(w) == /\ recv[w] = "subscribe"
                /\ recv' = [recv EXCEPT ![w] = "active"]
                /\ UNCHANGED <<wpc, live, signal, hook, mail, seen, server, faults>>

\* The confirmation arrives: the hook starts the goroutine that asks EXISTS.
Confirm(w) == /\ recv[w] = "active"
              /\ recv' = [recv EXCEPT ![w] = "listening"]
              /\ hook' = [hook EXCEPT ![w] = "exists"]
              /\ UNCHANGED <<wpc, live, signal, mail, seen, server, faults>>

\* The callback: a send that does not block when the channel is full.
Deliver(w) == /\ recv[w] = "listening" /\ mail[w]
              /\ signal' = [signal EXCEPT ![w] = TRUE]
              /\ mail' = [mail EXCEPT ![w] = FALSE]
              /\ UNCHANGED <<wpc, live, recv, hook, seen, server, faults>>

\* Receive returns an error, which is dropped.  A message lost with the
\* connection counts as published after it.
ReceiveFails(w) == /\ recv[w] \in {"subscribe", "active", "listening"} /\ ~mail[w]
                   /\ Fault
                   /\ recv' = [recv EXCEPT ![w] = "failed"]
                   /\ UNCHANGED <<wpc, live, signal, hook, mail, seen, server>>

ReceiveEnds(w) == /\ recv[w] \in {"subscribe", "active", "listening"}
                  /\ SubscriptionEnds(w)
                  /\ recv' = [recv EXCEPT ![w] = "none"]
                  /\ mail' = [mail EXCEPT ![w] = FALSE]
                  /\ UNCHANGED <<wpc, live, signal, hook, seen, server, faults>>
-----------------------------------------------------------------------------
(* The goroutine of the hook, under the caller's context.                  *)

\* Mutant: the send blocks while the channel is full.
ExistsBlocks(w) == /\ hook[w] = "exists"
                   /\ status => ~signal[w]
                   /\ hook' = [hook EXCEPT ![w] = "done"]
                   /\ signal' = [signal EXCEPT ![w] = signal[w] \/ status]
                   /\ UNCHANGED <<wpc, live, recv, mail, seen, server, faults>>

\* Mutant: the answer of EXISTS is not used.
ExistsUnused(w) == /\ hook[w] = "exists"
                   /\ hook' = [hook EXCEPT ![w] = "done"]
                   /\ UNCHANGED <<wpc, live, signal, recv, mail, seen, server, faults>>

Exists(w) == /\ hook[w] = "exists"
             /\ hook' = [hook EXCEPT ![w] = "done"]
             /\ signal' = [signal EXCEPT ![w] = signal[w] \/ status]
             /\ UNCHANGED <<wpc, live, recv, mail, seen, server, faults>>

\* An error counts as "not there".
ExistsFails(w) == /\ hook[w] = "exists"
                  /\ \/ ~live[w] /\ UNCHANGED faults
                     \/ live[w] /\ Fault
                  /\ hook' = [hook EXCEPT ![w] = "failed"]
                  /\ UNCHANGED <<wpc, live, signal, recv, mail, seen, server>>
-----------------------------------------------------------------------------
(* The fills of the key, as the orchestrator runs them.                    *)

\* Nothing clears the status key.
BeginFill == /\ fills < MaxFills
             /\ fills' = fills + 1
             /\ UNCHANGED <<calls, status, over, faults>>

\* Mutant: PUBLISH is left out of the script.
SignalUnpublished == /\ over < fills
                     /\ over' = fills
                     /\ status' = TRUE
                     /\ UNCHANGED <<calls, fills, faults>>

\* SET and PUBLISH in one script, at the end of a fill.
SignalReady == /\ over < fills
               /\ over' = fills
               /\ status' = TRUE
               /\ mail' = [w \in Waiter |-> mail[w] \/ recv[w] \in {"active", "listening"}]
               /\ UNCHANGED <<wpc, live, signal, recv, hook, seen, fills, faults>>

\* EX 3600.  The hour is longer than the time between GetRecord and EXISTS.
StatusExpires == /\ status
                 /\ \A w \in Waiter : Phase(w) # "wait"
                 /\ status' = FALSE
                 /\ UNCHANGED <<calls, fills, over, faults>>
-----------------------------------------------------------------------------
Caller(w) == ReturnReady(w) \/ ReturnCancelled(w)

Receiver(w) == Subscribe(w) \/ Confirm(w) \/ Deliver(w) \/ ReceiveFails(w) \/ ReceiveEnds(w)

Checker(w) == Exists(w) \/ ExistsFails(w)

Next == \/ \E w \in Waiter : Call(w) \/ Cancel(w) \/ Caller(w) \/ Receiver(w) \/ Checker(w)
        \/ BeginFill \/ SignalReady \/ StatusExpires

Spec == Init /\ [][Next]_vars

\* The goroutines of a call are scheduled and the server answers.  Nothing is
\* assumed of the fills, of the clients or of the clock.
FairSpec == Spec /\ \A w \in Waiter : /\ WF_vars(Caller(w))
                                      /\ WF_vars(Receiver(w))
                                      /\ WF_vars(Checker(w))
-----------------------------------------------------------------------------
(* Properties.                                                             *)

\* The variables keep their types, and the hook's goroutine runs only after the
\* subscription was active.
TypeOK == /\ wpc \in [Waiter -> {"idle", "select", "ready", "cancelled"}]
          /\ live \in [Waiter -> BOOLEAN]
          /\ signal \in [Waiter -> BOOLEAN]
          /\ recv \in [Waiter -> {"none", "subscribe", "active", "listening", "failed"}]
          /\ hook \in [Waiter -> {"none", "exists", "done", "failed"}]
          /\ mail \in [Waiter -> BOOLEAN]
          /\ status \in BOOLEAN
          /\ fills \in 0..MaxFills /\ over \in 0..fills
          /\ seen \in [Waiter -> 0..MaxFills]
          /\ faults \in 0..MaxFaults
          /\ \A w \in Waiter : recv[w] \in {"subscribe", "active"} => hook[w] = "none"

\* The goroutines of the calls together implement the latch that the
\* orchestrator waits on: no signal falls between EXISTS and the subscription.
Latch == INSTANCE ReadyLatch WITH latch <- status,
                                  phase <- [w \in Waiter |-> Phase(w)]

ImplementsLatch == Latch!Spec

\* coordinator.go:26-27: SignalReady "unblocks any routines currently stuck in
\* 'WaitForReady'", as long as neither Receive nor EXISTS of the call failed.
Sound(w) == recv[w] # "failed" /\ hook[w] # "failed"

\* What SignalUnblocks needs of the state: once the key is set, a caller in the
\* select whose commands succeeded has the signal, or a message on its way to
\* it, or will ask EXISTS (valkey.go:57-88).
SignalIsNotMissed == \A w \in Waiter :
    wpc[w] = "select" /\ live[w] /\ status /\ Sound(w) =>
        signal[w] \/ mail[w] \/ hook[w] = "exists" \/ recv[w] \in {"subscribe", "active"}

SignalUnblocks == \A w \in Waiter :
    wpc[w] = "select" /\ status /\ Sound(w) ~> wpc[w] # "select" \/ ~Sound(w)

\* A call that has returned leaves no goroutine behind.
GoroutinesEnd == \A w \in Waiter :
    wpc[w] \in {"ready", "cancelled"} ~>
        recv[w] \in {"none", "failed"} /\ hook[w] # "exists"

\* coordinator.go:22-23: WaitForReady waits "until a concurrent 'Fill' operation
\* by another node transitions to 'Ready'": the fill the caller saw.
FillIsOver == \A w \in Waiter : wpc[w] = "ready" => over >= seen[w]
=============================================================================
