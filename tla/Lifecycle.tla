----------------------------- MODULE Lifecycle -----------------------------
(***************************************************************************)
(* The life of one node: RunE and its pre-run (internal/cli/root.go) load  *)
(* the configuration; Application.Run (internal/app/app.go) opens the      *)
(* database, Valkey and the object store, serves until SIGTERM or until    *)
(* the server fails, drains the connections for at most five seconds, and  *)
(* closes the clients in the opposite order.  What the node does for its   *)
(* requests meanwhile is FillStream; the requests' contexts do not derive  *)
(* from Run's, and nothing waits for the fill goroutines.                  *)
(***************************************************************************)
EXTENDS FillStream, Config

VARIABLES
    phase,  \* where RunE and Run are
    stop,   \* SIGTERM or SIGINT has cancelled Run's context, and Run may yet see it
    cut     \* Run left the server with connections still active

life == <<phase, stop, cut>>
vars == <<svars, life>>

Phases == {"load", "database", "coordinator", "storage", "serving", "draining",
           "closeStorage", "closeValkey", "closeDB", "exited"}

Init == /\ phase = "load" /\ stop = FALSE /\ cut = FALSE
        /\ provider = "" /\ open = {}
        /\ NothingArrived

Enter(p) == phase' = p /\ UNCHANGED <<stop, cut>>

Unchanged == UNCHANGED <<sem, pc, request, data, shared, faults>>
-----------------------------------------------------------------------------
(* Start.                                                                  *)

\* config.Load, before the signals are trapped.
Load == /\ phase = "load"
        /\ \E flag, env \in Options, system \in FileStates, c \in Settings :
              /\ FileAccepted(flag, env, system) /\ Validate(c)
              /\ provider' = c.provider
        /\ Enter("database")
        /\ UNCHANGED open /\ Unchanged

LoadFails == /\ phase = "load"
             /\ \E flag, env \in Options, system \in FileStates, c \in Settings :
                   ~(FileAccepted(flag, env, system) /\ Validate(c))
             /\ Enter("exited")
             /\ UNCHANGED node /\ Unchanged

\* initMetadataStore: PingContext fails when the signal has come.
OpenDB == /\ phase = "database" /\ ~stop
          /\ open' = open \cup {"db"}
          /\ Enter("coordinator")
          /\ UNCHANGED provider /\ Unchanged

\* The handle is closed before the error is returned; nothing else is open.
OpenDBFails == /\ phase = "database"
               /\ Enter("exited")
               /\ UNCHANGED node /\ Unchanged

\* initCoordinator has no context.
OpenValkey == /\ phase = "coordinator"
              /\ open' = open \cup {"valkey"}
              /\ Enter("storage")
              /\ UNCHANGED provider /\ Unchanged

\* Mutant: the error is returned before the database's close is deferred.
OpenValkeyFailsUnclosed == /\ phase = "coordinator"
                           /\ Enter("exited")
                           /\ UNCHANGED node /\ Unchanged

OpenValkeyFails == /\ phase = "coordinator"
                   /\ Enter("closeDB")
                   /\ UNCHANGED node /\ Unchanged

\* initBlobStore compares the provider as it was written.
OpenStorage == /\ phase = "storage"
               /\ provider \in {"s3", "gcs"}
               /\ open' = open \cup {"storage"}
               /\ Enter("serving")
               /\ UNCHANGED provider /\ Unchanged

OpenStorageFails == /\ phase = "storage"
                    /\ Enter("closeValkey")
                    /\ UNCHANGED node /\ Unchanged
-----------------------------------------------------------------------------
(* Service and end.                                                        *)

\* Trapped from the end of Load on; nothing looks at it after the drain.
SigTerm == /\ phase \in {"database", "coordinator", "storage", "serving"} /\ ~stop
           /\ stop' = TRUE
           /\ UNCHANGED <<svars, phase, cut>>

\* ListenAndServe has failed: Run returns at once.
ServerFails == /\ phase = "serving"
               /\ phase' = "closeStorage"
               /\ stop' = FALSE /\ cut' = TRUE
               /\ UNCHANGED svars

\* Mutant: the server is closed and not shut down.
DrainSkipped == /\ phase = "serving" /\ stop
                /\ phase' = "closeStorage"
                /\ stop' = FALSE
                /\ UNCHANGED <<svars, cut>>

\* srv.Shutdown: the listener closes, and the active connections are waited for.
Drain == /\ phase = "serving" /\ stop
         /\ phase' = "draining"
         /\ stop' = FALSE
         /\ UNCHANGED <<svars, cut>>

Drained == /\ phase = "draining"
           /\ \A f \in Fill : ~Active(f)
           /\ Enter("closeStorage")
           /\ UNCHANGED svars

\* Mutant: Shutdown without a deadline.
GraceUnlimited == /\ phase = "draining"
                  /\ \E f \in Fill : Active(f)
                  /\ UNCHANGED <<svars, life>>

\* The five seconds are over.
GraceEnds == /\ phase = "draining"
             /\ \E f \in Fill : Active(f)
             /\ phase' = "closeStorage"
             /\ cut' = TRUE
             /\ UNCHANGED <<svars, stop>>

\* The deferred calls of Run, last in, first out.
CloseAnd(c, p) == /\ open' = open \ {c}
                  /\ Enter(p)
                  /\ UNCHANGED provider /\ Unchanged

CloseStorage == phase = "closeStorage" /\ CloseAnd("storage", "closeValkey")

CloseValkey == phase = "closeValkey" /\ CloseAnd("valkey", "closeDB")

\* Run returns and the process ends, with every goroutine it has.
CloseDB == phase = "closeDB" /\ CloseAnd("db", "exited")
-----------------------------------------------------------------------------
(* The requests: new ones while the server listens, those that are in until *)
(* the process ends.                                                       *)

Accept(f) == phase = "serving" /\ Arrive(f) /\ UNCHANGED life

Works(f) == phase # "exited" /\ FillStep(f) /\ UNCHANGED life

Handles(f) == phase # "exited" /\ HandlerStep(f) /\ UNCHANGED life

Moves(f) == phase # "exited" /\ ClientStep(f) /\ UNCHANGED life

RunStep == \/ Load \/ LoadFails
           \/ OpenDB \/ OpenDBFails \/ OpenValkey \/ OpenValkeyFails
           \/ OpenStorage \/ OpenStorageFails
           \/ Drain \/ Drained \/ GraceEnds
           \/ CloseStorage \/ CloseValkey \/ CloseDB

Next == \/ RunStep \/ SigTerm \/ ServerFails
        \/ \E f \in Fill : Accept(f) \/ Works(f) \/ Handles(f) \/ Moves(f)

Spec == Init /\ [][Next]_vars

\* Run and each request are scheduled, calls return and the timer runs.  Nothing
\* is assumed of signals, failures, arrivals, or of a client that stalls.
FairSpec == /\ Spec
            /\ WF_vars(RunStep)
            /\ \A f \in Fill : WF_vars(Works(f) \/ Handles(f))
-----------------------------------------------------------------------------
(* Properties.                                                             *)

\* The variables keep their types.
TypeOK == /\ StreamTypeOK
          /\ provider \in Spellings
          /\ phase \in Phases
          /\ stop \in BOOLEAN /\ cut \in BOOLEAN

\* app.go:64-82: every client is open while requests are served or drained, and
\* none is left open by any of the ways Run can return.
ClientsBracketService == /\ phase \in {"serving", "draining"} => open = Clients
                         /\ phase = "exited" => open = {}

\* app.go:165-174: when the connections were drained, a fill whose client stayed
\* has made its last call to the database, to Valkey and to the store before
\* the first of them is closed, although nothing waits for its goroutine: the lock
\* or the FILLING row the process leaves behind is one it could not change while
\* the client was open, and it has said so.
GracefulStop ==
    phase \in {"closeStorage", "closeValkey", "closeDB", "exited"} /\ ~cut =>
        \A f \in Fill : client[f] # "left" =>
            /\ pc[f] \in {"idle", "closeBody", "done"}
            /\ locked[f] => "lock" \in reported[f]
            /\ record[f] = "filling" => "row" \in reported[f]

\* What NobodyWaitsInVain calls busy is: whatever has failed or left, some branch of
\* executeFill, of the goroutine or of HandleFetch takes the request on, so that no
\* call on the pipe, the semaphore or the store outlives its counterpart.
BusyMoves == phase # "exited" => \A f \in Fill : Busy(f) => ENABLED (Works(f) \/ Handles(f))

\* Everything comes to an end: a signal ends the process whatever its clients do
\* (app.go:165-174), and unless a client stalls for ever, every request that came
\* has returned and its fill is over, since executeFill returns the slot on every path.
Stuck == \E f \in Fill : client[f] = "stalled"

RunRests == \/ phase = "exited"
            \/ phase = "serving" /\ ~stop

FillRests(f) == \/ pc[f] \in {"idle", "done"} /\ ~Active(f)
                \/ Stuck
                \/ phase = "exited"

ComesToRest == <>[](RunRests /\ \A f \in Fill : FillRests(f))
=============================================================================
