---------------------------- MODULE MCReadySignal ----------------------------
(* Instances of ReadySignal for TLC. *)
EXTENDS ReadySignal

CONSTANTS w1, w2
=============================================================================
