----------------------------- MODULE ReadyLatch -----------------------------
(***************************************************************************)
(* What WaitForReady and SignalReady promise about one key: a latch and    *)
(* calls that wait for it.  A call that finds the latch set is let out,    *)
(* any other waits, and an announcement sets the latch and lets out every  *)
(* call that waits.  A call may turn deaf (its subscription failed), and   *)
(* it may leave at any time.                                               *)
(***************************************************************************)
CONSTANT Waiter

VARIABLES latch,    \* an announcement was made and has not expired
          phase     \* of each call: out, wait (undecided), waiting, deaf

vars == <<latch, phase>>

Init == latch = FALSE /\ phase = [w \in Waiter |-> "out"]

Enter(w) == /\ phase[w] = "out"
            /\ phase' = [phase EXCEPT ![w] = "wait"]
            /\ UNCHANGED latch

Decide(w) == /\ phase[w] = "wait"
             /\ phase' = [phase EXCEPT ![w] = IF latch THEN "out" ELSE "waiting"]
             /\ UNCHANGED latch

\* The latch could not be looked at, or an announcement will not be heard.
Impair(w) == /\ phase[w] \in {"wait", "waiting"}
             /\ \E p \in {"waiting", "deaf"} : phase' = [phase EXCEPT ![w] = p]
             /\ UNCHANGED latch

Quit(W) == /\ phase' = [w \in Waiter |-> IF w \in W THEN "out" ELSE phase[w]]
           /\ UNCHANGED latch

Announce == /\ latch' = TRUE
            /\ phase' = [w \in Waiter |-> IF phase[w] = "waiting" THEN "out" ELSE phase[w]]

\* Not while a call has yet to look at the latch.
Expire == /\ \A w \in Waiter : phase[w] # "wait"
          /\ latch' = FALSE
          /\ UNCHANGED phase

Next == \/ \E w \in Waiter : Enter(w) \/ Decide(w) \/ Impair(w)
        \/ \E W \in SUBSET Waiter : Quit(W)
        \/ Announce
        \/ Expire

Spec == Init /\ [][Next]_vars
=============================================================================
