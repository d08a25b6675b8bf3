----------------------------- MODULE BlobWriter -----------------------------
(***************************************************************************)
(* What storage.BlobStore promises of one Writer: bytes are accepted, and  *)
(* closing commits exactly the accepted bytes, all at once, or nothing.  A *)
(* commit whose reply was lost is reported as a failure.                   *)
(***************************************************************************)
EXTENDS Naturals

VARIABLES accepted,   \* how many bytes the writer was given
          outcome,    \* "open", or what Close returned
          stored      \* {}, or {n} for an object of the first n bytes of the stream

vars == <<accepted, outcome, stored>>

Init == accepted = 0 /\ outcome = "open" /\ stored = {}

Accept == /\ outcome = "open"
          /\ accepted' \in Nat /\ accepted' >= accepted
          /\ UNCHANGED <<outcome, stored>>

Commit == /\ outcome = "open"
          /\ outcome' \in {"ok", "failed"}
          /\ stored' = {accepted}
          /\ UNCHANGED accepted

Fail == /\ outcome = "open"
        /\ outcome' = "failed"
        /\ UNCHANGED <<accepted, stored>>

Next == Accept \/ Commit \/ Fail

Spec == Init /\ [][Next]_vars
=============================================================================
