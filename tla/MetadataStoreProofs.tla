------------------------- MODULE MetadataStoreProofs -------------------------
(* What each statement of MetadataStore does to a row, whatever the row. *)
EXTENDS MetadataStore, TLAPS

Row == Record \cup {NoRecord}

\* There is no row exactly when GetRecord's state reads as missing.
LEMMA MissingRow ==
    ASSUME NEW row \in Row
    PROVE  (row = NoRecord) = (row.state = "missing")
BY DEF Row, Record, NoRecord

\* A row that exists has one of the three states the code writes.
LEMMA RowState ==
    ASSUME NEW row \in Row
    PROVE  row.state \in {"missing", "filling", "ready", "error"}
BY DEF Row, Record, NoRecord

\* Every statement yields a row again: INSERT a record, UPDATE a record or,
\* when there is none, nothing.
LEMMA StatementsKeepRows ==
    ASSUME NEW row \in Row, NEW n \in Node
    PROVE  /\ UpsertRecord(n) \in Record
           /\ UpdateSizeBytes(row) \in Row
           /\ SetReady(row) \in Row
           /\ IncrementFailure(row) \in Row
           /\ DemoteToFilling(row, n) \in Row
<1>1. UpsertRecord(n) \in Record
  BY DEF UpsertRecord, Record
<1>2. CASE row = NoRecord
  BY <1>1, <1>2 DEF Row, UpdateRow, UpdateSizeBytes, SetReady, IncrementFailure, DemoteToFilling
<1>3. CASE row \in Record /\ row # NoRecord
  <2>1. UpdateSizeBytes(row) \in Record
    BY <1>3 DEF Record, UpdateRow, UpdateSizeBytes
  <2>2. SetReady(row) \in Record
    BY <1>3 DEF Record, UpdateRow, SetReady
  <2>3. IncrementFailure(row) \in Record
    <3>1. row.failures + 1 \in Nat
      BY <1>3 DEF Record
    <3>2. ASSUME NEW k \in Nat
          PROVE  [row EXCEPT !.state = "error", !.fresh = TRUE,
                             !.failures = k, !.cooling = TRUE] \in Record
      BY <1>3 DEF Record
    <3> QED BY <1>3, <3>1, <3>2 DEF UpdateRow, IncrementFailure
  <2>4. DemoteToFilling(row, n) \in Record
    BY <1>3 DEF Record, UpdateRow, DemoteToFilling
  <2> QED BY <1>1, <2>1, <2>2, <2>3, <2>4 DEF Row
<1> QED BY <1>2, <1>3 DEF Row

\* The state each statement leaves in a row that exists.
LEMMA StatementStates ==
    ASSUME NEW row \in Record, NEW n \in Node
    PROVE  /\ UpsertRecord(n).state = "filling"
           /\ UpdateSizeBytes(row).state = row.state
           /\ SetReady(row).state = "ready" /\ SetReady(row).size = "final"
           /\ IncrementFailure(row).state = "error"
           /\ DemoteToFilling(row, n).state = "filling"
<1>1. row # NoRecord
  BY DEF Record, NoRecord
<1> QED
  BY <1>1 DEF Record, UpdateRow, UpsertRecord, UpdateSizeBytes, SetReady,
              IncrementFailure, DemoteToFilling

\* The count of failures each statement leaves in a row that exists.
LEMMA StatementCounts ==
    ASSUME NEW row \in Record, NEW n \in Node
    PROVE  /\ UpsertRecord(n).failures = 0
           /\ UpdateSizeBytes(row).failures = row.failures
           /\ SetReady(row).failures = 0
           /\ IncrementFailure(row).failures = row.failures + 1
           /\ DemoteToFilling(row, n).failures = row.failures
<1>1. row # NoRecord
  BY DEF Record, NoRecord
<1> QED
  BY <1>1 DEF Record, UpdateRow, UpsertRecord, UpdateSizeBytes, SetReady,
              IncrementFailure, DemoteToFilling

\* Without a row the UPDATE statements change nothing.
LEMMA NoRowNoUpdate ==
    ASSUME NEW n \in Node
    PROVE  /\ UpdateSizeBytes(NoRecord) = NoRecord
           /\ SetReady(NoRecord) = NoRecord
           /\ IncrementFailure(NoRecord) = NoRecord
           /\ DemoteToFilling(NoRecord, n) = NoRecord
BY DEF UpdateRow, UpdateSizeBytes, SetReady, IncrementFailure, DemoteToFilling
=============================================================================
