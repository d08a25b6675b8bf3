---------------------------- MODULE MetadataStore ----------------------------
(***************************************************************************)
(* The row of one cache key in the cache_records table and the SQL         *)
(* statements that write it (internal/metadata/postgres/postgres.go).      *)
(* Every statement is one atomic operation on the row; the columns are     *)
(* abstracted to what the orchestrator decides on:                         *)
(*                                                                         *)
(*   state     'filling', 'ready' or 'error' ("missing" and "stale" are    *)
(*             declared by metadata.go and never written)                  *)
(*   owner     owner_node                                                  *)
(*   fresh     updated_at is at most 15 seconds old                        *)
(*   size      -1, the Content-Length hint, or the counted final size      *)
(*   failures  failure_count                                               *)
(*   cooling   last_error_at is set and its cooldown has not elapsed       *)
(*                                                                         *)
(* object_key is a function of the key, etag, fresh_until, validated_at    *)
(* and created_at are written and never read back.                         *)
(***************************************************************************)
EXTENDS Naturals

CONSTANT Node   \* the node identities the owner_node column may hold

\* No row: GetRecord returns nil, nil.
NoRecord == [state |-> "missing"]

Record == [state    : {"filling", "ready", "error"},
           owner    : Node,
           fresh    : BOOLEAN,
           size     : {"unknown", "hint", "final"},
           failures : Nat,
           cooling  : BOOLEAN]

\* INSERT ... ON CONFLICT DO UPDATE with the record executeFill builds: its
\* FailureCount and LastErrorAt are Go zero values and overwrite the columns.
UpsertRecord(n) ==
    [state |-> "filling", owner |-> n, fresh |-> TRUE, size |-> "unknown",
     failures |-> 0, cooling |-> FALSE]

\* An UPDATE ... WHERE cache_key = $n changes nothing when there is no row.
UpdateRow(row, new) == IF row = NoRecord THEN NoRecord ELSE new

UpdateSizeBytes(row) ==
    UpdateRow(row, [row EXCEPT !.size = "hint", !.fresh = TRUE])

\* Mutant: the state is set without the size.
SetReadyWithoutSize(row) ==
    UpdateRow(row, [row EXCEPT !.state = "ready", !.fresh = TRUE,
                               !.failures = 0, !.cooling = FALSE])

SetReady(row) ==
    UpdateRow(row, [row EXCEPT !.state = "ready", !.size = "final", !.fresh = TRUE,
                               !.failures = 0, !.cooling = FALSE])

IncrementFailure(row) ==
    UpdateRow(row, [row EXCEPT !.state = "error", !.fresh = TRUE,
                               !.failures = @ + 1, !.cooling = TRUE])

\* Mutant: the demoted row loses its owner (an empty node identity is bound).
DemoteToFillingUnowned(row, n) ==
    UpdateRow(row, [row EXCEPT !.state = "filling", !.owner = "", !.fresh = TRUE])

DemoteToFilling(row, n) ==
    UpdateRow(row, [row EXCEPT !.state = "filling", !.owner = n, !.fresh = TRUE])
=============================================================================
