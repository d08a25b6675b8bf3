---------------------------- MODULE MCLifecycle ----------------------------
(* Instances of Lifecycle for TLC: two fills that share one slot. *)
EXTENDS Lifecycle, TLC

CONSTANTS f1, f2

\* A client can break off a fill of two chunks between them; the other artifact is
\* empty, so that its fill reads nothing and has still to be recorded and stored.
Lengths == f1 :> 2 @@ f2 :> 0
=============================================================================
