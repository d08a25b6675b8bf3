--------------------------- MODULE S3WriterProofs ---------------------------
(* Theorems of S3Writer, for any channel, part size, writes and failures. *)
EXTENDS S3Writer, TLAPS, SequenceTheorems

USE CapAssumption, PartAssumption, WriteAssumption, BoundAssumption

-----------------------------------------------------------------------------
(* Lemmas on the sends.                                                    *)

\* A send appends one chunk and keeps those already sent.
LEMMA SendAppends ==
    ASSUME TypeOK, NEW to \in Nat, Send(to)
    PROVE  /\ chunks' \in Seq(Chunk)
           /\ Len(chunks') = Len(chunks) + 1
           /\ \A i \in 1..Len(chunks) : chunks'[i] = chunks[i]
           /\ chunks'[Len(chunks) + 1] = [from |-> cut, to |-> to]
BY DEF TypeOK, Send, Chunk

-----------------------------------------------------------------------------
(* Type correctness.                                                       *)

\* The part of the type invariant about counts.
CountsOK == /\ taken \in 0..Len(chunks) /\ Queued <= Cap
            /\ Working => taken > 0
            /\ wg = Queued + (IF Working THEN 1 ELSE 0)

LEMMA FaultCounted ==
    ASSUME TypeOK, Fault
    PROVE  faults' \in 0..MaxFaults
BY DEF TypeOK, Fault

LEMMA TypeInit == Init => TypeOK
<1> SUFFICES ASSUME Init PROVE TypeOK
  OBVIOUS
<1>1. chunks \in Seq(Chunk) /\ parts \in Seq(Part) /\ object \in Seq(Part) /\ Len(chunks) = 0
  BY DEF Init
<1>2. taken \in 0..Len(chunks) /\ Queued = 0 /\ Queued <= Cap /\ faults \in 0..MaxFaults
  BY <1>1 DEF Init, Queued
<1> QED BY <1>1, <1>2 DEF Init, TypeOK, Working

LEMMA TypeStep == TypeOK /\ [Next]_vars => TypeOK'
<1> SUFFICES ASSUME TypeOK, [Next]_vars PROVE TypeOK'
  OBVIOUS
<1>c. CountsOK /\ Len(chunks) \in Nat
  BY DEF TypeOK, CountsOK, Working
<1>1. ASSUME NEW n \in WriteSizes, Write(n) PROVE TypeOK'
  BY <1>1 DEF Write, TypeOK, Queued, Working, uploader, s3
<1>2. ASSUME NEW to \in Nat, Send(to), UNCHANGED <<taken, upc>>
      PROVE  /\ chunks' \in Seq(Chunk) /\ cut' \in Nat
             /\ taken' \in 0..Len(chunks') /\ Queued' <= Cap
             /\ (Working => taken > 0)'
             /\ wg' = Queued' + (IF Working' THEN 1 ELSE 0)
  <2>1. chunks' \in Seq(Chunk) /\ Len(chunks') = Len(chunks) + 1
    BY <1>2, SendAppends
  <2>2. cut' = to /\ Queued < Cap /\ wg' = wg + 1
    BY <1>2 DEF Send
  <2>3. Queued' = Queued + 1
    BY <1>c, <1>2, <2>1 DEF CountsOK, Queued
  <2> QED BY <1>c, <1>2, <2>1, <2>2, <2>3 DEF CountsOK, Working, Queued
<1>3. CASE SendPart
  <2>1. cut + PartSize \in Nat
    BY DEF TypeOK
  <2> QED BY <1>2, <1>3, <2>1 DEF SendPart, TypeOK, uploader, s3
<1>4. CASE SendLast
  <2>1. written \in Nat
    BY DEF TypeOK
  <2> QED BY <1>2, <1>4, <2>1 DEF SendLast, TypeOK, uploader, s3
<1>5. CASE WriteReturns \/ Close \/ NothingLeft \/ Waited
  BY <1>5 DEF WriteReturns, Close, NothingLeft, Waited, TypeOK, Queued, Working, uploader, s3
<1>6. CASE Complete \/ CompleteFails \/ Abort
  <2>1. CountsOK'
    BY <1>c, <1>6 DEF Complete, CompleteFails, Abort, CountsOK, Working, Queued, uploader
  <2> QED BY <1>6, <2>1, FaultCounted DEF Complete, CompleteFails, Abort, TypeOK,
             CountsOK, Working, uploader
<1>7. CASE Receive
  <2>1. CountsOK'
    BY <1>c, <1>7 DEF Receive, CountsOK, Working, Queued, caller
  <2> QED BY <1>7, <2>1 DEF Receive, TypeOK, CountsOK, Working, caller, s3
<1>8. CASE Number \/ UploadPart \/ UploadPartFails \/ Exit
  <2>1. CountsOK'
    <3>1. CASE UploadPartFails
      BY <1>c, <3>1 DEF UploadPartFails, CountsOK, Working, Queued, caller
    <3>2. CASE Number \/ UploadPart \/ Exit
      BY <1>c, <3>2 DEF Number, UploadPart, Exit, CountsOK, Working, Queued, caller
    <3> QED BY <1>8, <3>1, <3>2
  <2>2. faults' \in 0..MaxFaults /\ partNum' \in Nat
    BY <1>8, FaultCounted DEF Number, UploadPart, UploadPartFails, Exit, TypeOK, s3
  <2> QED BY <1>8, <2>1, <2>2 DEF Number, UploadPart, UploadPartFails, Exit, TypeOK,
             CountsOK, Working, caller, s3
<1>9. CASE ListPart
  <2>1. CountsOK'
    BY <1>c, <1>9 DEF ListPart, CountsOK, Working, Queued, caller
  <2>2. parts' \in Seq(Part)
    <3>1. chunks[taken] \in Chunk
      BY <1>c, <1>9 DEF ListPart, CountsOK, Working, TypeOK
    <3> QED BY <1>9, <3>1 DEF ListPart, TypeOK, Part
  <2> QED BY <1>9, <2>1, <2>2 DEF ListPart, TypeOK, CountsOK, Working, caller, s3
<1>10. CASE UNCHANGED vars
  BY <1>10 DEF vars, TypeOK, Queued, Working
<1> QED
  BY <1>1, <1>3, <1>4, <1>5, <1>6, <1>7, <1>8, <1>9, <1>10 DEF Next, CallerStep, UploaderStep

\* Type correctness; in particular the channel never exceeds its capacity and
\* the WaitGroup is exactly the number of parts not yet disposed of.
THEOREM TypeCorrect == Spec => []TypeOK
BY TypeInit, TypeStep, PTL DEF Spec

-----------------------------------------------------------------------------
(* What has been sent and what has been listed.                            *)

Closed == wpc \in {"wait", "finish", "ok", "failed"}

\* The chunks follow each other from 0 to cut; only the one Close sends may be
\* shorter than a part, and after Close nothing is left in the buffer.
SentInv == /\ \A i \in 1..Len(chunks) :
                 /\ chunks[i].from = (IF i = 1 THEN 0 ELSE chunks[i - 1].to)
                 /\ i < Len(chunks) \/ ~Closed => chunks[i].to = chunks[i].from + PartSize
           /\ cut = (IF Len(chunks) = 0 THEN 0 ELSE chunks[Len(chunks)].to)
           /\ Closed => cut = written /\ Len(chunks) > 0

\* While no upload has failed, the parts are the chunks received, numbered in
\* the order of the channel.
ListedInv == /\ Working => err = "nil"
             /\ err = "nil" => /\ partNum = (IF upc = "number" THEN taken - 1 ELSE taken)
                               /\ Len(parts) = (IF Working THEN taken - 1 ELSE taken)
             /\ Len(parts) <= taken
             /\ \A i \in 1..Len(parts) : parts[i] = [num |-> i, chunk |-> chunks[i]]

\* Once the WaitGroup has been waited for, every part has been disposed of, and
\* an object is made of the parts listed without a failure.
FinishInv == /\ wpc \in {"finish", "ok", "failed"} => wg = 0
             /\ object # <<>> => object = parts /\ err = "nil" /\ wpc \in {"ok", "failed"}

StreamInv == SentInv /\ ListedInv /\ FinishInv

LEMMA StreamInit == Init => StreamInv
<1> SUFFICES ASSUME Init PROVE StreamInv
  OBVIOUS
<1>1. Len(chunks) = 0 /\ Len(parts) = 0 /\ cut = 0 /\ taken = 0 /\ wpc = "idle" /\ upc = "recv"
      /\ object = <<>> /\ partNum = 0
  BY DEF Init
<1> QED BY <1>1 DEF StreamInv, SentInv, ListedInv, FinishInv, Working, Closed

\* One send, of a full part or as the last one.
LEMMA SendKeepsSent ==
    ASSUME TypeOK, SentInv, ~Closed, NEW to \in Nat, Send(to),
           Closed' => to = written',
           ~Closed' => to = cut + PartSize
    PROVE  SentInv'
<1>1. /\ Len(chunks') = Len(chunks) + 1 /\ Len(chunks) \in Nat
      /\ \A i \in 1..Len(chunks) : chunks'[i] = chunks[i]
      /\ chunks'[Len(chunks) + 1].from = cut /\ chunks'[Len(chunks) + 1].to = to
  <2>1. Len(chunks) \in Nat
    BY DEF TypeOK
  <2>2. chunks'[Len(chunks) + 1] = [from |-> cut, to |-> to]
    BY SendAppends
  <2> QED BY <2>1, <2>2, SendAppends
<1>2. cut' = to
  BY DEF Send
<1>3. ASSUME NEW i \in 1..Len(chunks')
      PROVE  /\ chunks'[i].from = (IF i = 1 THEN 0 ELSE chunks'[i - 1].to)
             /\ i < Len(chunks') \/ ~Closed' => chunks'[i].to = chunks'[i].from + PartSize
  <2>1. CASE i \in 1..Len(chunks)
    <3>1. chunks'[i] = chunks[i]
      BY <1>1, <2>1
    <3>2. i # 1 => chunks'[i - 1] = chunks[i - 1]
      BY <1>1, <2>1
    <3> QED BY <2>1, <3>1, <3>2 DEF SentInv
  <2>2. CASE i = Len(chunks) + 1
    <3>1. i # 1 => chunks'[i - 1] = chunks[i - 1] /\ cut = chunks[i - 1].to
      BY <1>1, <2>2 DEF SentInv
    <3>2. i = 1 => cut = 0
      BY <1>1, <2>2 DEF SentInv
    <3>3. chunks'[i].from = cut /\ chunks'[i].to = to /\ ~(i < Len(chunks'))
      BY <1>1, <2>2
    <3> QED BY <3>1, <3>2, <3>3
  <2> QED BY <1>1, <1>3, <2>1, <2>2
<1>4. cut' = (IF Len(chunks') = 0 THEN 0 ELSE chunks'[Len(chunks')].to)
  BY <1>1, <1>2
<1>5. Closed' => cut' = written' /\ Len(chunks') > 0
  BY <1>1, <1>2
<1> QED BY <1>3, <1>4, <1>5 DEF SentInv

\* A send leaves alone what the uploader has done.
LEMMA SendKeepsListed ==
    ASSUME TypeOK, ListedInv, NEW to \in Nat, Send(to), UNCHANGED uploader
    PROVE  ListedInv'
<1>1. \A i \in 1..Len(chunks) : chunks'[i] = chunks[i]
  BY SendAppends
<1>2. Len(parts) <= taken /\ taken <= Len(chunks) /\ Len(chunks) \in Nat /\ taken \in Nat
      /\ Len(parts) \in Nat
  BY DEF TypeOK, ListedInv
<1>3. \A i \in 1..Len(parts) : chunks'[i] = chunks[i]
  BY <1>1, <1>2
<1> QED BY <1>3 DEF ListedInv, uploader, Working

LEMMA StreamStep == TypeOK /\ StreamInv /\ [Next]_vars => StreamInv'
<1> SUFFICES ASSUME TypeOK, StreamInv, [Next]_vars PROVE StreamInv'
  OBVIOUS
<1>1. SentInv /\ ListedInv /\ FinishInv
  BY DEF StreamInv
<1>2. ASSUME NEW n \in WriteSizes, Write(n) PROVE StreamInv'
  BY <1>1, <1>2 DEF Write, uploader, s3, StreamInv, SentInv, ListedInv, FinishInv, Working, Closed
<1>3. CASE SendPart
  <2>1. cut + PartSize \in Nat /\ ~Closed /\ ~Closed' /\ Send(cut + PartSize)
    BY <1>3 DEF SendPart, TypeOK, Closed
  <2>2. SentInv' /\ ListedInv'
    BY <1>1, <1>3, <2>1, SendKeepsSent, SendKeepsListed DEF SendPart
  <2>3. FinishInv'
    BY <1>1, <1>3 DEF SendPart, FinishInv, uploader, s3
  <2> QED BY <2>2, <2>3 DEF StreamInv
<1>4. CASE SendLast
  <2>1. written \in Nat /\ written' = written /\ ~Closed /\ Closed' /\ Send(written)
    BY <1>4 DEF SendLast, TypeOK, Closed
  <2>2. SentInv' /\ ListedInv'
    BY <1>1, <1>4, <2>1, SendKeepsSent, SendKeepsListed DEF SendLast
  <2>3. FinishInv'
    BY <1>1, <1>4 DEF SendLast, FinishInv, uploader, s3
  <2> QED BY <2>2, <2>3 DEF StreamInv
<1>5. CASE WriteReturns \/ Close \/ NothingLeft \/ Waited
  <2>1. UNCHANGED <<chunks, cut, written, wg>> /\ UNCHANGED uploader /\ UNCHANGED s3
    BY <1>5 DEF WriteReturns, Close, NothingLeft, Waited
  <2>2. SentInv'
    <3>1. NothingLeft => Len(chunks) > 0 /\ cut = written
      BY DEF NothingLeft, TypeOK
    <3>2. (Closed' => Closed \/ NothingLeft) /\ (Closed => Closed')
      BY <1>5 DEF WriteReturns, Close, NothingLeft, Waited, Closed
    <3> QED BY <1>1, <2>1, <3>1, <3>2 DEF SentInv
  <2>3. ListedInv'
    BY <1>1, <2>1 DEF ListedInv, uploader, Working
  <2>4. FinishInv'
    BY <1>1, <1>5, <2>1 DEF WriteReturns, Close, NothingLeft, Waited, FinishInv, uploader, s3
  <2> QED BY <2>2, <2>3, <2>4 DEF StreamInv
<1>6. CASE Complete \/ CompleteFails \/ Abort
  <2>1. UNCHANGED <<chunks, cut, written, wg>> /\ UNCHANGED uploader /\ Closed /\ Closed'
    BY <1>6 DEF Complete, CompleteFails, Abort, Closed
  <2>2. SentInv'
    BY <1>1, <2>1 DEF SentInv
  <2>3. ListedInv'
    BY <1>1, <2>1 DEF ListedInv, uploader, Working
  <2>4. FinishInv'
    BY <1>1, <1>6, <2>1 DEF Complete, CompleteFails, Abort, FinishInv, uploader
  <2> QED BY <2>2, <2>3, <2>4 DEF StreamInv
<1>7. CASE Receive \/ Number \/ UploadPart \/ UploadPartFails \/ Exit
  <2>1. UNCHANGED caller /\ UNCHANGED <<parts, object>>
    BY <1>7 DEF Receive, Number, UploadPart, UploadPartFails, Exit, s3
  <2>2. SentInv'
    BY <1>1, <2>1 DEF SentInv, caller, Closed
  <2>3. ListedInv'
    <3>1. CASE Receive
      BY <1>1, <2>1, <3>1 DEF Receive, ListedInv, Working, TypeOK, caller
    <3>2. CASE Number \/ UploadPart \/ UploadPartFails \/ Exit
      BY <1>1, <2>1, <3>2 DEF Number, UploadPart, UploadPartFails, Exit, ListedInv, Working,
         TypeOK, caller
    <3> QED BY <1>7, <3>1, <3>2
  <2>4. FinishInv'
    <3>1. CASE wpc \in {"finish", "ok", "failed"}
      <4>1. Queued = 0 /\ ~Working /\ wg = 0
        BY <1>1, <3>1 DEF FinishInv, TypeOK, Queued
      <4>2. UNCHANGED <<wg, err>>
        BY <1>7, <4>1 DEF Receive, Number, UploadPart, UploadPartFails, Exit, Working
      <4> QED BY <1>1, <2>1, <4>1, <4>2 DEF FinishInv, caller
    <3>2. CASE wpc \notin {"finish", "ok", "failed"}
      BY <1>1, <2>1, <3>2 DEF FinishInv, caller
    <3> QED BY <3>1, <3>2
  <2> QED BY <2>2, <2>3, <2>4 DEF StreamInv
<1>8. CASE ListPart
  <2>1. UNCHANGED caller /\ UNCHANGED <<taken, partNum, err, object>> /\ upc = "list"
        /\ upc' = "recv" /\ parts' = Append(parts, [num |-> partNum, chunk |-> chunks[taken]])
    BY <1>8 DEF ListPart, s3
  <2>2. SentInv'
    BY <1>1, <2>1 DEF SentInv, caller, Closed
  <2>3. err = "nil" /\ partNum = taken /\ Len(parts) = taken - 1 /\ taken \in Nat
    BY <1>1, <2>1 DEF ListedInv, Working, TypeOK
  <2>4. /\ Len(parts') = taken
        /\ \A i \in 1..Len(parts) : parts'[i] = parts[i]
        /\ parts'[taken] = [num |-> taken, chunk |-> chunks[taken]]
    <3>1. parts \in Seq(Part) /\ Len(parts') = Len(parts) + 1
      BY <2>1 DEF TypeOK
    <3>2. \A i \in 1..Len(parts) : parts'[i] = parts[i]
      BY <2>1, <3>1
    <3>3. parts'[Len(parts) + 1] = [num |-> partNum, chunk |-> chunks[taken]]
      BY <2>1, <3>1
    <3>4. Len(parts) + 1 = taken
      BY <2>3
    <3> QED BY <2>3, <3>1, <3>2, <3>3, <3>4
  <2>5. ListedInv'
    <3>1. ASSUME NEW i \in 1..Len(parts')
          PROVE  parts'[i] = [num |-> i, chunk |-> chunks'[i]]
      <4>1. chunks' = chunks
        BY <2>1 DEF caller
      <4>2. CASE i = taken
        BY <2>4, <4>1, <4>2
      <4>3. CASE i \in 1..Len(parts)
        BY <1>1, <2>4, <4>1, <4>3 DEF ListedInv
      <4> QED BY <2>3, <2>4, <4>2, <4>3
    <3> QED BY <2>1, <2>3, <2>4, <3>1 DEF ListedInv, Working
  <2>6. FinishInv'
    <3>1. wpc \notin {"finish", "ok", "failed"}
      BY <1>1, <2>1 DEF FinishInv, TypeOK, Working, Queued
    <3> QED BY <1>1, <2>1, <3>1 DEF FinishInv, caller
  <2> QED BY <2>2, <2>5, <2>6 DEF StreamInv
<1>9. CASE UNCHANGED vars
  BY <1>1, <1>9 DEF vars, StreamInv, SentInv, ListedInv, FinishInv, Working, Closed
<1> QED
  BY <1>2, <1>3, <1>4, <1>5, <1>6, <1>7, <1>8, <1>9 DEF Next, CallerStep, UploaderStep
-----------------------------------------------------------------------------
(* The object.                                                             *)

\* When every part has been listed, the list assembles into the stream.
LEMMA ListAssembles ==
    ASSUME TypeOK, StreamInv, Closed, wg = 0, err = "nil"
    PROVE  Assembles(parts, written)
<1>1. /\ Len(parts) = Len(chunks) /\ Len(chunks) \in Nat /\ Len(chunks) > 0
      /\ \A i \in 1..Len(parts) : parts[i] = [num |-> i, chunk |-> chunks[i]]
  BY DEF StreamInv, ListedInv, SentInv, TypeOK, Working, Queued
<1>2. parts # <<>>
  BY <1>1
<1>3. ASSUME NEW i \in 1..Len(parts)
      PROVE  /\ parts[i].num = i
             /\ parts[i].chunk.from = (IF i = 1 THEN 0 ELSE parts[i - 1].chunk.to)
             /\ i < Len(parts) => parts[i].chunk.to = parts[i].chunk.from + PartSize
  <2>1. parts[i].num = i /\ parts[i].chunk = chunks[i]
    <3>1. parts[i] = [num |-> i, chunk |-> chunks[i]]
      BY <1>1
    <3> QED BY <3>1
  <2>2. i # 1 => parts[i - 1].chunk = chunks[i - 1]
    <3>1. i # 1 => i - 1 \in 1..Len(parts)
      BY <1>1
    <3>2. i # 1 => parts[i - 1] = [num |-> i - 1, chunk |-> chunks[i - 1]]
      BY <1>1, <3>1
    <3> QED BY <3>2
  <2> QED BY <1>1, <2>1, <2>2 DEF StreamInv, SentInv
<1>4. parts[Len(parts)].chunk.to = written
  <2>1. parts[Len(parts)].chunk = chunks[Len(chunks)]
    <3>1. parts[Len(parts)] = [num |-> Len(parts), chunk |-> chunks[Len(parts)]]
      BY <1>1
    <3> QED BY <1>1, <3>1
  <2>2. chunks[Len(chunks)].to = written
    BY <1>1 DEF StreamInv, SentInv
  <2> QED BY <2>1, <2>2
<1> QED BY <1>2, <1>3, <1>4 DEF Assembles

LEMMA WholeWhenDone == TypeOK /\ StreamInv => ObjectIsWhole
<1> SUFFICES ASSUME TypeOK, StreamInv, object # <<>> PROVE Assembles(object, written)
  BY DEF ObjectIsWhole
<1>1. object = parts /\ err = "nil" /\ Closed /\ wg = 0
  BY DEF StreamInv, FinishInv, Closed
<1> QED BY <1>1, ListAssembles

THEOREM StreamCorrect == Spec => [](TypeOK /\ StreamInv)
BY TypeInit, TypeStep, StreamInit, StreamStep, PTL DEF Spec

\* An object that was completed is the whole stream: no part is lost, repeated,
\* reordered or cut short, whichever S3 calls fail.
THEOREM ObjectIsWholeCorrect == Spec => []ObjectIsWhole
BY StreamCorrect, WholeWhenDone, PTL

\* Write and Close implement the abstract writer: all of the stream or nothing.
THEOREM BlobImplemented == Spec => ImplementsBlob
<1>1. TypeOK /\ Init => Blob!Init
  BY DEF Init, Blob!Init
<1>2. TypeOK /\ StreamInv /\ ObjectIsWhole /\ ObjectIsWhole' /\ [Next]_vars
        => [Blob!Next]_Blob!vars
  <2> SUFFICES ASSUME TypeOK, StreamInv, ObjectIsWhole, ObjectIsWhole', [Next]_vars
               PROVE  [Blob!Next]_Blob!vars
    OBVIOUS
  <2>0. /\ object # <<>> => Assembles(object, written) /\ wpc \in {"ok", "failed"}
        /\ object' # <<>> => Assembles(object, written)'
    BY DEF ObjectIsWhole, StreamInv, FinishInv
  <2>1. ASSUME NEW n \in WriteSizes, Write(n) PROVE Blob!Accept
    <3>1. written' \in Nat /\ written' >= written
      BY <2>1 DEF Write, TypeOK
    <3>2. wpc = "idle" /\ wpc' = "drain" /\ object = <<>> /\ object' = <<>>
      BY <2>0, <2>1 DEF Write, s3
    <3> QED BY <3>1, <3>2 DEF Blob!Accept
  <2>2. CASE Complete
    <3>1. wpc = "finish" /\ wpc' = "ok" /\ object = <<>> /\ object' = parts /\ UNCHANGED written
      BY <2>0, <2>2 DEF Complete
    <3>2. parts # <<>>
      <4>1. Closed /\ wg = 0 /\ err = "nil"
        BY <2>2 DEF Complete, Closed, StreamInv, FinishInv
      <4> QED BY <4>1, ListAssembles DEF Assembles
    <3>3. Blob!Commit
      BY <2>0, <3>1, <3>2 DEF Blob!Commit, Assembles
    <3> QED BY <3>3 DEF Blob!Next
  <2>3. CASE CompleteFails
    <3>1. wpc = "finish" /\ wpc' = "failed" /\ object = <<>> /\ UNCHANGED written
          /\ (object' = parts \/ object' = <<>>)
      BY <2>0, <2>3 DEF CompleteFails
    <3>2. CASE object' = <<>>
      BY <3>1, <3>2 DEF Blob!Next, Blob!Fail
    <3>3. CASE object' # <<>>
      BY <2>0, <3>1, <3>3 DEF Blob!Next, Blob!Commit, Assembles
    <3> QED BY <3>2, <3>3
  <2>4. CASE Abort
    <3>1. wpc = "finish" /\ wpc' = "failed" /\ object = <<>> /\ object' = <<>> /\ UNCHANGED written
      BY <2>0, <2>4 DEF Abort
    <3> QED BY <3>1 DEF Blob!Next, Blob!Fail
  <2>5. CASE Close \/ SendPart \/ WriteReturns \/ SendLast \/ NothingLeft \/ Waited
             \/ UploaderStep \/ UNCHANGED vars
    <3>1. UNCHANGED <<object, written>>
      BY <2>5 DEF Close, SendPart, WriteReturns, SendLast, NothingLeft, Waited, UploaderStep,
         Receive, Number, UploadPart, UploadPartFails, ListPart, Exit, vars, caller, s3
    <3>2. UNCHANGED wpc \/ (wpc \notin {"ok", "failed"} /\ wpc' \notin {"ok", "failed"})
      BY <2>5 DEF Close, SendPart, WriteReturns, SendLast, NothingLeft, Waited, UploaderStep,
         Receive, Number, UploadPart, UploadPartFails, ListPart, Exit, vars, caller, s3
    <3> QED BY <3>1, <3>2 DEF Blob!vars, Assembles
  <2> QED BY <2>1, <2>2, <2>3, <2>4, <2>5 DEF Next, CallerStep, Blob!Next
<1> QED BY <1>1, <1>2, TypeInit, StreamCorrect, ObjectIsWholeCorrect, PTL DEF Spec,
           ImplementsBlob, Blob!Spec

-----------------------------------------------------------------------------
(* Back-pressure.                                                          *)

\* Until Close sends the rest, only full parts have been sent.
FullInv == /\ wpc \in {"idle", "drain", "flush"} => cut = Len(chunks) * PartSize
           /\ written <= MaxBytes

LEMMA FullStep == TypeOK /\ FullInv /\ [Next]_vars => FullInv'
<1> SUFFICES ASSUME TypeOK, FullInv, [Next]_vars PROVE FullInv'
  OBVIOUS
<1>1. CASE SendPart
  <2>1. cut' = cut + PartSize /\ Len(chunks') = Len(chunks) + 1 /\ Len(chunks) \in Nat
    BY <1>1, SendAppends DEF SendPart, Send, TypeOK
  <2>2. (Len(chunks) + 1) * PartSize = Len(chunks) * PartSize + PartSize
    BY <2>1
  <2> QED BY <1>1, <2>1, <2>2 DEF SendPart, FullInv
<1>2. ASSUME NEW n \in WriteSizes, Write(n) PROVE FullInv'
  BY <1>2 DEF Write, FullInv
<1>3. CASE WriteReturns \/ Close
  BY <1>3 DEF WriteReturns, Close, FullInv
<1>4. CASE SendLast \/ NothingLeft \/ Waited \/ Complete \/ CompleteFails \/ Abort
  BY <1>4 DEF SendLast, NothingLeft, Waited, Complete, CompleteFails, Abort, FullInv
<1>5. CASE UploaderStep \/ UNCHANGED vars
  <2>1. UNCHANGED caller
    BY <1>5 DEF UploaderStep, Receive, Number, UploadPart, UploadPartFails, ListPart, Exit,
       vars, caller
  <2> QED BY <2>1 DEF caller, FullInv
<1> QED BY <1>1, <1>2, <1>3, <1>4, <1>5 DEF Next, CallerStep

LEMMA FullInit == Init => FullInv
<1> SUFFICES ASSUME Init PROVE FullInv
  OBVIOUS
<1>1. Len(chunks) = 0 /\ cut = 0 /\ written = 0
  BY DEF Init
<1> QED BY <1>1 DEF FullInv

\* A blocked send means that Cap + 1 full parts were sent and more is left.
LEMMA BlockedNeedsMore == TypeOK /\ FullInv => SmallStreamsNeverBlock
<1> SUFFICES ASSUME TypeOK, FullInv, MutuallyBlocked, StreamFits PROVE FALSE
  BY DEF SmallStreamsNeverBlock
<1>1. Len(chunks) \in Nat /\ Len(chunks) >= Cap + 1
  BY DEF MutuallyBlocked, TypeOK, Queued, Working
<1> DEFINE d == Len(chunks) - (Cap + 1)
<1>2. d \in Nat /\ Len(chunks) = (Cap + 1) + d
  BY <1>1
<1> HIDE DEF d
<1>3. Len(chunks) * PartSize = (Cap + 1) * PartSize + d * PartSize
  BY <1>2
<1>4. d * PartSize \in Nat /\ (Cap + 1) * PartSize \in Nat
  BY <1>2
<1>5. cut >= (Cap + 1) * PartSize
  BY <1>3, <1>4 DEF MutuallyBlocked, FullInv
<1>6. written > cut /\ written <= MaxBytes /\ cut \in Nat /\ written \in Nat
  BY DEF MutuallyBlocked, TypeOK, FullInv
<1> QED BY <1>4, <1>5, <1>6 DEF StreamFits

\* A stream of at most Cap + 1 parts never meets the circular wait of s3.go:135
\* and s3.go:78 (the run s3_backpressure shows that one more part does).
THEOREM SmallStreamsCorrect == Spec => []SmallStreamsNeverBlock
BY TypeInit, TypeStep, FullInit, FullStep, BlockedNeedsMore, PTL DEF Spec
-----------------------------------------------------------------------------
(* Calls return and the uploader ends.                                     *)

\* The buffer is the rest of the stream, and the uploader ends only when the
\* channel has been closed and drained.
RestInv == /\ cut <= written
           /\ upc = "exit" => Queued = 0 /\ Closed

LEMMA RestInit == Init => RestInv
<1> SUFFICES ASSUME Init PROVE RestInv
  OBVIOUS
<1> QED BY DEF Init, RestInv

LEMMA RestStep == TypeOK /\ RestInv /\ [Next]_vars => RestInv'
<1> SUFFICES ASSUME TypeOK, RestInv, [Next]_vars PROVE RestInv'
  OBVIOUS
<1> USE DEF RestInv, Closed
<1>1. ASSUME NEW n \in WriteSizes, Write(n) PROVE RestInv'
  BY <1>1, WriteAssumption DEF Write, uploader, TypeOK, Queued
<1>2. CASE SendPart \/ SendLast
  <2>1. upc # "exit" /\ upc' = upc
    BY <1>2 DEF SendPart, SendLast, uploader
  <2>2. cut' <= written'
    BY <1>2, PartAssumption DEF SendPart, SendLast, Send, TypeOK
  <2> QED BY <2>1, <2>2
<1>3. CASE WriteReturns \/ Close \/ NothingLeft \/ Waited \/ Complete \/ CompleteFails \/ Abort
  <2>1. UNCHANGED <<written, cut, chunks, taken, upc>> /\ (Closed => Closed')
    BY <1>3 DEF WriteReturns, Close, NothingLeft, Waited, Complete, CompleteFails, Abort, uploader
  <2> QED BY <2>1 DEF Queued
<1>4. CASE Receive \/ Number \/ UploadPart \/ UploadPartFails \/ ListPart \/ Exit
  <2>1. UNCHANGED <<wpc, written, cut, chunks>>
    BY <1>4 DEF Receive, Number, UploadPart, UploadPartFails, ListPart, Exit, caller
  <2>2. upc' = "exit" => Exit
    BY <1>4 DEF Receive, Number, UploadPart, UploadPartFails, ListPart, Exit
  <2> QED BY <2>1, <2>2 DEF Exit, Queued
<1>5. CASE UNCHANGED vars
  BY <1>5 DEF vars, Queued
<1> QED BY <1>1, <1>2, <1>3, <1>4, <1>5 DEF Next, CallerStep, UploaderStep

LEMMA RestCorrect == Spec => [](TypeOK /\ RestInv)
BY TypeInit, TypeStep, RestInit, RestStep, PTL DEF Spec

\* Nothing but the circular wait of Write and the uploader stops a call or the
\* uploader of a closed writer, whichever S3 calls fail and however long the
\* stream: with SmallStreamsCorrect, nothing at all stops a small stream.
THEOREM OnlyMutualWaitCorrect == Spec => []OnlyMutualWait
<1>1. ASSUME TypeOK, RestInv PROVE OnlyMutualWait
  <2>1. /\ Queued \in 0..Cap /\ Cap > 0 /\ Cap \in Nat
        /\ wg = Queued + (IF Working THEN 1 ELSE 0)
        /\ upc \in {"recv", "number", "put", "list", "exit"}
    BY <1>1, CapAssumption DEF TypeOK, Queued
  <2>2. ASSUME wpc \in {"drain", "flush"}, ~CallMoves PROVE UploaderMoves \/ MutuallyBlocked
    <3>1. Queued = Cap /\ upc # "exit"
      BY <1>1, <2>1, <2>2 DEF CallMoves, RestInv
    <3>2. wpc = "drain" => written - cut >= PartSize
      BY <1>1, <2>2, PartAssumption DEF CallMoves, TypeOK
    <3>3. wpc = "flush" => written > cut
      <4>1. chunks # <<>>
        BY <1>1, <2>1, <3>1 DEF Queued, TypeOK
      <4> QED BY <1>1, <2>2, <4>1 DEF CallMoves, RestInv, TypeOK
    <3> QED BY <2>1, <2>2, <3>1, <3>2, <3>3 DEF UploaderMoves, MutuallyBlocked
  <2>3. ASSUME wpc \in {"wait", "finish"} PROVE CallMoves \/ UploaderMoves
    <3>1. upc = "exit" => wg = 0
      BY <1>1, <2>1 DEF RestInv, Working
    <3> QED BY <2>1, <2>3, <3>1 DEF CallMoves, UploaderMoves, MutexFree
  <2>4. wpc \in {"ok", "failed"} => UploaderMoves \/ upc = "exit"
    BY <2>1 DEF UploaderMoves, MutexFree
  <2> QED BY <2>2, <2>3, <2>4 DEF OnlyMutualWait, Calling
<1> QED BY <1>1, RestCorrect, PTL

\* A call on a stream of at most Cap + 1 parts never waits for anything but the
\* uploader, and the uploader not for the call: with EveryStepCounts, each call
\* of Write and Close returns.
THEOREM SmallStreamsMove ==
    ASSUME StreamFits
    PROVE  Spec => [](Calling => CallMoves \/ UploaderMoves)
<1>1. OnlyMutualWait /\ SmallStreamsNeverBlock => (Calling => CallMoves \/ UploaderMoves)
  BY DEF OnlyMutualWait, SmallStreamsNeverBlock
<1> QED BY <1>1, OnlyMutualWaitCorrect, SmallStreamsCorrect, PTL

-----------------------------------------------------------------------------
(* Each step counts.                                                       *)

LEMMA CallerStages ==
    /\ CallerStage["flush"] = 9 /\ CallerStage["wait"] = 3 /\ CallerStage["finish"] = 2
    /\ CallerStage["drain"] = 1 /\ CallerStage["idle"] = 0
    /\ CallerStage["ok"] = 0 /\ CallerStage["failed"] = 0
BY DEF CallerStage

LEMMA UploaderStages ==
    /\ UploaderStage["number"] = 4 /\ UploaderStage["put"] = 3 /\ UploaderStage["list"] = 2
    /\ UploaderStage["recv"] = 1 /\ UploaderStage["exit"] = 0
BY DEF UploaderStage

\* The measure is a number, and so is each of its parts.
Measured == /\ written \in Int /\ cut \in Int /\ 6 * (written - cut) \in Int
            /\ Queued \in Int /\ 5 * Queued \in Int
            /\ CallerStage[wpc] \in Int /\ UploaderStage[upc] \in Int
            /\ Distance \in Nat

LEMMA DistanceMeasured == TypeOK /\ RestInv => Measured
<1> SUFFICES ASSUME TypeOK, RestInv PROVE Measured
  OBVIOUS
<1>1. written \in Int /\ cut \in Int /\ written - cut \in Nat /\ Queued \in Nat
  BY DEF TypeOK, RestInv, Queued
<1>2. CallerStage[wpc] \in Nat /\ UploaderStage[upc] \in Nat
  BY CallerStages, UploaderStages DEF TypeOK
<1>3. 6 * (written - cut) \in Nat /\ 5 * Queued \in Nat
  BY <1>1
<1>4. Distance \in Nat
  BY <1>2, <1>3 DEF Distance
<1> QED BY <1>1, <1>2, <1>3, <1>4 DEF Measured

\* A step of one goroutine alone, and a step that moves a part.
LEMMA NearerAlone ==
    ASSUME Measured, Measured', UNCHANGED <<written, cut>>, Queued' = Queued,
           \/ upc' = upc /\ CallerStage[wpc'] < CallerStage[wpc]
           \/ wpc' = wpc /\ UploaderStage[upc'] < UploaderStage[upc]
    PROVE  Distance' < Distance
BY DEF Measured, Distance

LEMMA NearerTaken ==
    ASSUME Measured, Measured', UNCHANGED <<wpc, written, cut>>, Queued' = Queued - 1,
           UploaderStage[upc] = 1, UploaderStage[upc'] <= 4
    PROVE  Distance' < Distance
BY DEF Measured, Distance

LEMMA NearerSent ==
    ASSUME Measured, Measured', written' = written, upc' = upc, Queued' = Queued + 1,
           \/ wpc' = wpc /\ cut' >= cut + 1
           \/ CallerStage[wpc] = 9 /\ CallerStage[wpc'] = 3 /\ cut' >= cut
    PROVE  Distance' < Distance
BY DEF Measured, Distance

\* Every step brings the call and the uploader nearer to the end, for every
\* stream and capacity: a call makes at most 6 * (written - cut) + 5 * Queued + 13
\* more steps with the uploader's, however many S3 calls fail.
THEOREM EveryStepCountsCorrect == Spec => EveryStepCounts
<1>1. ASSUME TypeOK, RestInv, Measured, Measured', [Next]_vars
      PROVE  [Distance' \in 0..(Distance - 1) \/ (wpc = "idle" /\ wpc' # "idle")]_vars
  <2>1. Distance \in Nat /\ Distance' \in Nat
    BY <1>1 DEF Measured
  <2>2. (\E n \in WriteSizes : Write(n)) \/ Close => wpc = "idle" /\ wpc' # "idle"
    BY DEF Write, Close
  <2>3. ASSUME SendPart \/ SendLast PROVE Distance' < Distance
    <3>1. UNCHANGED <<written, taken, upc>>
      BY <2>3 DEF SendPart, SendLast, uploader
    <3>2. Queued' = Queued + 1
      <4>1. cut + PartSize \in Nat /\ written \in Nat
        BY <1>1, PartAssumption DEF TypeOK
      <4>2. Len(chunks') = Len(chunks) + 1
        BY <1>1, <2>3, <4>1, SendAppends DEF SendPart, SendLast
      <4> QED BY <1>1, <3>1, <4>2 DEF Queued, TypeOK
    <3>3. \/ wpc' = wpc /\ cut' >= cut + 1
          \/ CallerStage[wpc] = 9 /\ CallerStage[wpc'] = 3 /\ cut' >= cut
      BY <1>1, <2>3, PartAssumption, CallerStages DEF SendPart, SendLast, Send, TypeOK, RestInv
    <3> QED BY <1>1, <3>1, <3>2, <3>3, NearerSent
  <2>4. ASSUME WriteReturns \/ NothingLeft \/ Waited \/ Complete \/ CompleteFails \/ Abort
        PROVE  Distance' < Distance
    <3>1. UNCHANGED <<written, cut, chunks, taken, upc>>
      BY <2>4 DEF WriteReturns, NothingLeft, Waited, Complete, CompleteFails, Abort, uploader
    <3>2. CallerStage[wpc'] < CallerStage[wpc]
      BY <2>4, CallerStages
         DEF WriteReturns, NothingLeft, Waited, Complete, CompleteFails, Abort
    <3> QED BY <1>1, <3>1, <3>2, NearerAlone DEF Queued
  <2>5. ASSUME Receive PROVE Distance' < Distance
    <3>1. UNCHANGED <<wpc, written, cut>> /\ Queued' = Queued - 1
      BY <1>1, <2>5 DEF Receive, caller, Queued, TypeOK
    <3>2. UploaderStage[upc] = 1 /\ UploaderStage[upc'] <= 4
      BY <2>5, UploaderStages DEF Receive
    <3> QED BY <1>1, <3>1, <3>2, NearerTaken
  <2>6. ASSUME Number \/ UploadPart \/ UploadPartFails \/ ListPart \/ Exit
        PROVE  Distance' < Distance
    <3>1. UNCHANGED <<wpc, written, cut, chunks, taken>>
      BY <2>6 DEF Number, UploadPart, UploadPartFails, ListPart, Exit, caller
    <3>2. UploaderStage[upc'] < UploaderStage[upc]
      BY <2>6, UploaderStages DEF Number, UploadPart, UploadPartFails, ListPart, Exit
    <3> QED BY <1>1, <3>1, <3>2, NearerAlone DEF Queued
  <2>7. Distance' < Distance \/ (wpc = "idle" /\ wpc' # "idle") \/ UNCHANGED vars
    BY <1>1, <2>2, <2>3, <2>4, <2>5, <2>6 DEF Next, CallerStep, UploaderStep
  <2>8. Distance' < Distance => Distance' \in 0..(Distance - 1)
    BY <2>1
  <2> QED BY <2>7, <2>8
<1> QED BY <1>1, RestCorrect, DistanceMeasured, PTL DEF Spec, EveryStepCounts
-----------------------------------------------------------------------------
(* How much of the stream the writer holds in memory.                      *)

\* The first byte not yet disposed of: of the part being uploaded, else of the
\* first part in the channel, else of the buffer.
Oldest == IF Working THEN chunks[taken].from
          ELSE IF Queued > 0 THEN chunks[taken + 1].from
          ELSE cut

Held == written - Oldest

\* Between two calls the buffer, the channel and the uploader hold less than
\* Cap + 2 parts; during a call of Write, in addition, what it was given.
MemoryIsBounded ==
    \E n \in WriteSizes \cup {0} : /\ Held < (Cap + 2) * PartSize + n
                                   /\ n # 0 => wpc = "drain"

\* Each part begins at its place in the stream, and less than one part is left
\* in the buffer when Write returns.
PlaceInv == /\ \A i \in 1..Len(chunks) : chunks[i].from = (i - 1) * PartSize
            /\ cut <= Len(chunks) * PartSize
            /\ wpc \in {"idle", "flush"} => written - cut < PartSize
            /\ wpc = "drain" => \E n \in WriteSizes : written - cut < PartSize + n

LEMMA PlaceInit == Init => PlaceInv
<1> SUFFICES ASSUME Init PROVE PlaceInv
  OBVIOUS
<1>1. Len(chunks) = 0 /\ cut = 0 /\ written = 0 /\ wpc = "idle"
  BY DEF Init
<1> QED BY <1>1 DEF PlaceInv

\* A send puts its chunk behind the others.
LEMMA SendPlaces ==
    ASSUME TypeOK, PlaceInv, cut = Len(chunks) * PartSize,
           NEW to \in Nat, to <= cut + PartSize, Send(to)
    PROVE  /\ \A i \in 1..Len(chunks') : chunks'[i].from = (i - 1) * PartSize
           /\ cut' = to /\ cut' <= Len(chunks') * PartSize
<1>1. Len(chunks) \in Nat /\ Len(chunks') = Len(chunks) + 1 /\ cut' = to
  BY SendAppends DEF TypeOK, Send
<1>2. (Len(chunks) + 1) * PartSize = Len(chunks) * PartSize + PartSize
  BY <1>1
<1>3. ASSUME NEW i \in 1..Len(chunks') PROVE chunks'[i].from = (i - 1) * PartSize
  <2>1. CASE i \in 1..Len(chunks)
    BY <2>1, SendAppends DEF PlaceInv
  <2>2. CASE i = Len(chunks) + 1
    <3>1. chunks'[i] = [from |-> cut, to |-> to] /\ i - 1 = Len(chunks)
      BY <1>1, <2>2, SendAppends
    <3> QED BY <3>1
  <2> QED BY <1>1, <1>3, <2>1, <2>2
<1> QED BY <1>1, <1>2, <1>3

LEMMA PlaceStep == TypeOK /\ FullInv /\ PlaceInv /\ [Next]_vars => PlaceInv'
<1> SUFFICES ASSUME TypeOK, FullInv, PlaceInv, [Next]_vars PROVE PlaceInv'
  OBVIOUS
<1>1. CASE SendPart
  <2>1. cut + PartSize \in Nat /\ cut = Len(chunks) * PartSize /\ Send(cut + PartSize)
    BY <1>1 DEF SendPart, TypeOK, FullInv
  <2>2. PICK n \in WriteSizes : written - cut < PartSize + n
    BY <1>1 DEF SendPart, PlaceInv
  <2>3. written' - cut' < PartSize + n /\ wpc' = "drain"
    BY <1>1, <2>1, <2>2 DEF SendPart, Send, TypeOK
  <2> QED BY <2>1, <2>3, SendPlaces DEF PlaceInv
<1>2. CASE SendLast
  <2>1. written \in Nat /\ cut = Len(chunks) * PartSize /\ written <= cut + PartSize
    BY <1>2 DEF SendLast, TypeOK, FullInv, PlaceInv
  <2> QED BY <1>2, <2>1, SendPlaces DEF SendLast, PlaceInv
<1>3. ASSUME NEW n \in WriteSizes, Write(n) PROVE PlaceInv'
  BY <1>3 DEF Write, TypeOK, PlaceInv
<1>4. CASE WriteReturns \/ Close
  BY <1>4 DEF WriteReturns, Close, PlaceInv
<1>5. CASE NothingLeft \/ Waited \/ Complete \/ CompleteFails \/ Abort
  BY <1>5 DEF NothingLeft, Waited, Complete, CompleteFails, Abort, PlaceInv
<1>6. CASE UploaderStep \/ UNCHANGED vars
  <2>1. UNCHANGED caller
    BY <1>6 DEF UploaderStep, Receive, Number, UploadPart, UploadPartFails, ListPart, Exit,
       vars, caller
  <2> QED BY <2>1 DEF caller, PlaceInv
<1> QED BY <1>1, <1>2, <1>3, <1>4, <1>5, <1>6 DEF Next, CallerStep

\* A bounded channel bounds the writer: whatever the length of the stream and
\* however slow the uploads, it holds less than Cap + 2 parts between two calls
\* (50 MiB with s3.go's 8 and 5 MiB). This is what the circular wait is paid for.
THEOREM MemoryIsBoundedCorrect == Spec => []MemoryIsBounded
<1>1. TypeOK /\ SentInv /\ PlaceInv => MemoryIsBounded
  <2> SUFFICES ASSUME TypeOK, SentInv, PlaceInv PROVE MemoryIsBounded
    OBVIOUS
  <2>1. /\ Len(chunks) \in Nat /\ taken \in 0..Len(chunks) /\ Queued <= Cap
        /\ Queued = Len(chunks) - taken /\ (Working => taken \in 1..Len(chunks))
    BY DEF TypeOK, Queued
  <2>2. \E k \in 0..(Cap + 1), o \in Nat :
           k + o = Len(chunks) /\ (Oldest = o * PartSize \/ (k = 0 /\ Oldest = cut))
    <3>1. CASE Working
      <4>1. Oldest = (taken - 1) * PartSize
        BY <2>1, <3>1 DEF Oldest, PlaceInv
      <4>2. Queued + 1 \in 0..(Cap + 1) /\ taken - 1 \in Nat
            /\ (Queued + 1) + (taken - 1) = Len(chunks)
        BY <2>1, <3>1
      <4> QED BY <4>1, <4>2
    <3>2. CASE ~Working /\ Queued > 0
      <4>1. chunks[taken + 1].from = ((taken + 1) - 1) * PartSize
        BY <2>1, <3>2 DEF PlaceInv
      <4>2. Oldest = taken * PartSize
        BY <2>1, <3>2, <4>1 DEF Oldest
      <4>3. Queued \in 0..(Cap + 1) /\ taken \in Nat /\ Queued + taken = Len(chunks)
        BY <2>1, <3>2
      <4> QED BY <4>2, <4>3
    <3>3. CASE ~Working /\ ~(Queued > 0)
      <4>1. Oldest = cut
        BY <3>3 DEF Oldest
      <4>2. 0 \in 0..(Cap + 1) /\ 0 + taken = Len(chunks) /\ taken \in Nat
        BY <2>1, <3>3
      <4> QED BY <4>1, <4>2
    <3> QED BY <3>1, <3>2, <3>3
  <2>3. PICK k \in 0..(Cap + 1), o \in Nat :
           k + o = Len(chunks) /\ (Oldest = o * PartSize \/ (k = 0 /\ Oldest = cut))
    BY <2>2
  <2>4. cut - Oldest <= k * PartSize
    <3>1. Len(chunks) * PartSize = k * PartSize + o * PartSize
      BY <2>3
    <3>2. k * PartSize \in Nat /\ o * PartSize \in Nat
      BY <2>3
    <3> QED BY <2>1, <2>3, <3>1, <3>2 DEF PlaceInv, TypeOK
  <2>5. k * PartSize <= (Cap + 1) * PartSize
    <3>1. PICK d \in Nat : Cap + 1 = k + d
      <4>1. Cap + 1 - k \in Nat /\ Cap + 1 = k + (Cap + 1 - k)
        BY <2>3
      <4> QED BY <4>1
    <3>2. (Cap + 1) * PartSize = k * PartSize + d * PartSize
      BY <2>3, <3>1
    <3>3. d * PartSize \in Nat /\ k * PartSize \in Nat
      BY <2>3, <3>1
    <3> QED BY <3>2, <3>3
  <2>6. (Cap + 2) * PartSize = (Cap + 1) * PartSize + PartSize
    OBVIOUS
  <2>7. PICK n \in WriteSizes \cup {0} : /\ written - cut < PartSize + n
                                         /\ n # 0 => wpc = "drain"
    <3>1. wpc \in {"idle", "flush"} \cup {"wait", "finish", "ok", "failed"}
             => written - cut < PartSize + 0
      BY DEF PlaceInv, SentInv, Closed, TypeOK
    <3>2. wpc = "drain" => \E n \in WriteSizes : written - cut < PartSize + n
      BY DEF PlaceInv
    <3> QED BY <3>1, <3>2 DEF TypeOK
  <2>8. /\ Oldest \in Int /\ k * PartSize \in Int /\ (Cap + 1) * PartSize \in Int
        /\ written \in Int /\ cut \in Int /\ n \in Int
    <3>1. o * PartSize \in Int /\ k * PartSize \in Int /\ (Cap + 1) * PartSize \in Int
      BY <2>3
    <3> QED BY <2>3, <2>7, <3>1 DEF TypeOK
  <2>9. Held < (Cap + 2) * PartSize + n
    <3> DEFINE a == k * PartSize
               b == (Cap + 1) * PartSize
    <3>1. a \in Int /\ b \in Int /\ cut - Oldest <= a /\ a <= b
      BY <2>4, <2>5, <2>8
    <3>2. (Cap + 2) * PartSize = b + PartSize
      BY <2>6
    <3> HIDE DEF a, b
    <3>3. Held < b + PartSize + n
      BY <2>7, <2>8, <3>1 DEF Held
    <3> QED BY <3>2, <3>3
  <2> QED BY <2>7, <2>9 DEF MemoryIsBounded
<1> QED
  BY <1>1, TypeInit, TypeStep, StreamCorrect, FullInit, FullStep, PlaceInit, PlaceStep, PTL
     DEF Spec, StreamInv
=============================================================================
