--------------------------- MODULE MCOrchestrator ---------------------------
(* Instances of Orchestrator for TLC. *)
EXTENDS Orchestrator, TLC

ServerFaults == {"fetch", "store", "copy", "commit", "meta", "coord", "crash", "cancel"}
NoFaults     == {}
FetchFaults  == {"fetch"}
CopyFaults   == {"copy"}
DataFaults   == {"fetch", "store"}

CONSTANTS r1, r2, r3

\* Requests are interchangeable: what holds of one Pull holds of every one.
FirstPullReturns == Returns(r1)

\* Requests and nodes are interchangeable in the safety runs.
Symmetry == Permutations(Req) \cup Permutations(Node)
=============================================================================
