-------------------------- MODULE FillStreamProofs --------------------------
(***************************************************************************)
(* What holds of the fill pipeline for every number of fills, slots,       *)
(* chunks and failures.  Every lemma about a step is stated for StreamNext *)
(* and leaves the node's clients open or closed, so that Lifecycle, whose  *)
(* own steps close them, can use it as it is.                              *)
(***************************************************************************)
EXTENDS FillStream, FiniteSetTheorems, TLAPS

Holders == {f \in Fill : HasSlot(f)}

\* The slots add up, and the calls that wait for one are told apart.
SlotInv == /\ free + Cardinality(Holders) = MaxConcurrent
           /\ queue # <<>> => free = 0
           /\ \A i \in DOMAIN queue : pc[queue[i]] = "queued"
           /\ \A i, j \in DOMAIN queue : queue[i] = queue[j] => i = j

\* Where the handler is inside Pull.
PullPc == {"pull", "acquire", "queued", "granted", "request", "writer",
           "recordFailure", "giveUp"}

\* The end of the fill, from the last write of the row on.
Decided == {"unlock", "commit", "endStream", "closeBody", "done"}

\* The two ends of the pipe: what the goroutine did determines what the handler
\* can have seen, and the context ends only with the handler or its client.
EndsInv(f) == /\ h[f] = "none" <=> pc[f] = "idle"
              /\ h[f] = "pull" <=> pc[f] \in PullPc
              /\ h[f] = "answered" => pc[f] = "done"
              /\ h[f] = "ended" => pc[f] \in {"closeBody", "done"}
              /\ h[f] = "broken" => client[f] = "left"
              /\ h[f] \in {"none", "pull", "read", "write"} /\ client[f] # "left" => live[f]
              /\ pc[f] \in {"endStream", "closeBody", "done"} /\ h[f] # "answered"
                    => object[f] # "none"

\* The data: a chunk is stored when it was handed over, and not before.
DataInv(f) == /\ pc[f] \in {"idle", "read", "pipe", "markReady"} \cup PullPc
                    => given[f] = stored[f]
              /\ stored[f] <= given[f] /\ given[f] <= Chunks[f]
              /\ pc[f] = "pipe" => given[f] < Chunks[f]
              /\ pc[f] = "store" => given[f] = stored[f] + 1
              /\ pc[f] = "markReady" => given[f] = Chunks[f]
              /\ record[f] = "ready" => /\ pc[f] \in Decided
                                        /\ given[f] = Chunks[f] /\ stored[f] = Chunks[f]

\* A fill on which nothing was inflicted.
Undisturbed(f) == /\ faults = 0 /\ open = Clients /\ client[f] # "left"
                  /\ h[f] \in {"read", "write", "ended"}

CleanInv(f) == Undisturbed(f) =>
    /\ pc[f] # "markError"
    /\ pc[f] \in Decided => record[f] = "ready"
    /\ pc[f] \in Decided \ {"unlock"} => ~locked[f]
    /\ pc[f] \in {"endStream", "closeBody", "done"} => object[f] = "whole"

FillInv(f) == EndsInv(f) /\ DataInv(f) /\ CleanInv(f)

StreamInv == StreamTypeOK /\ SlotInv /\ \A f \in Fill : FillInv(f)
-----------------------------------------------------------------------------
(* The semaphore.                                                          *)

LEMMA HoldersFinite == IsFiniteSet(Holders) /\ Cardinality(Holders) \in Nat
  <1>1. Holders \subseteq Fill
    BY DEF Holders
  <1>2. IsFiniteSet(Holders)
    BY <1>1, FillAssumption, FS_Subset
  <1> QED
    BY <1>2, FS_CardinalityType

\* A slot that changes hands is counted once.
LEMMA SlotMoves ==
  ASSUME NEW S, IsFiniteSet(S), NEW f \in S, NEW g, g \notin S
  PROVE  Cardinality((S \ {f}) \cup {g}) = Cardinality(S)
  <1>1. /\ IsFiniteSet(S \ {f}) /\ Cardinality(S \ {f}) = Cardinality(S) - 1
    BY FS_RemoveElement
  <1>2. Cardinality((S \ {f}) \cup {g}) = Cardinality(S \ {f}) + 1
    BY <1>1, FS_AddElement
  <1>3. Cardinality(S) \in Nat
    BY FS_CardinalityType
  <1> QED
    BY <1>1, <1>2, <1>3

\* Taking the front of the queue, or a call out of its middle, leaves calls that
\* are told apart.
LEMMA QueueTail ==
  ASSUME NEW q \in Seq(Fill), q # <<>>,
         \A i, j \in DOMAIN q : q[i] = q[j] => i = j
  PROVE  /\ Tail(q) \in Seq(Fill)
         /\ Head(q) \in Fill /\ Head(q) = q[1] /\ 1 \in DOMAIN q
         /\ \A i \in DOMAIN Tail(q) : i + 1 \in DOMAIN q /\ Tail(q)[i] = q[i + 1]
         /\ \A i \in DOMAIN Tail(q) : Tail(q)[i] # Head(q)
         /\ \A i, j \in DOMAIN Tail(q) : Tail(q)[i] = Tail(q)[j] => i = j
  OBVIOUS

LEMMA Joined ==
  ASSUME NEW a \in Seq(Fill), NEW b \in Seq(Fill)
  PROVE  /\ a \o b \in Seq(Fill) /\ Len(a \o b) = Len(a) + Len(b)
         /\ \A i \in 1..(Len(a) + Len(b)) :
               (a \o b)[i] = IF i <= Len(a) THEN a[i] ELSE b[i - Len(a)]
  OBVIOUS

LEMMA QueueRemoved ==
  ASSUME NEW q \in Seq(Fill), NEW k \in DOMAIN q,
         \A i, j \in DOMAIN q : q[i] = q[j] => i = j
  PROVE  /\ RemoveAt(q, k) \in Seq(Fill)
         /\ \A i \in DOMAIN RemoveAt(q, k) :
               \E j \in DOMAIN q : RemoveAt(q, k)[i] = q[j] /\ j # k
         /\ \A i, j \in DOMAIN RemoveAt(q, k) :
               RemoveAt(q, k)[i] = RemoveAt(q, k)[j] => i = j
         /\ \A j \in DOMAIN q \ {k} :
               \E i \in DOMAIN RemoveAt(q, k) : RemoveAt(q, k)[i] = q[j]
  <1> DEFINE r == RemoveAt(q, k)
             old(i) == IF i < k THEN i ELSE i + 1
  <1>1. /\ r \in Seq(Fill) /\ Len(r) = Len(q) - 1
        /\ \A i \in 1..Len(r) : r[i] = q[old(i)]
    <2> DEFINE a == SubSeq(q, 1, k - 1)
               b == SubSeq(q, k + 1, Len(q))
    <2>0. k \in 1..Len(q) /\ Len(q) \in Nat
      OBVIOUS
    <2>1. /\ a \in Seq(Fill) /\ Len(a) = k - 1
          /\ \A i \in 1..(k - 1) : a[i] = q[i]
      BY <2>0
    <2>2. /\ b \in Seq(Fill) /\ Len(b) = Len(q) - k
          /\ \A i \in 1..(Len(q) - k) : b[i] = q[k + i]
      BY <2>0
    <2>3. r = a \o b
      BY DEF RemoveAt
    <2> HIDE DEF a, b
    <2>4. /\ r \in Seq(Fill) /\ Len(r) = Len(q) - 1
          /\ \A i \in 1..(Len(q) - 1) :
                r[i] = IF i <= k - 1 THEN a[i] ELSE b[i - (k - 1)]
      <3>1. Len(a) + Len(b) = Len(q) - 1
        BY <2>0, <2>1, <2>2
      <3> HIDE DEF r
      <3>2. /\ a \o b \in Seq(Fill) /\ Len(a \o b) = Len(a) + Len(b)
            /\ \A i \in 1..(Len(a) + Len(b)) :
                  (a \o b)[i] = IF i <= Len(a) THEN a[i] ELSE b[i - Len(a)]
        BY <2>1, <2>2, Joined
      <3>3. Len(a) = k - 1
        BY <2>1
      <3> QED
        BY <2>3, <3>1, <3>2, <3>3
    <2>5. \A i \in 1..(Len(q) - 1) : r[i] = q[old(i)]
      <3> HIDE DEF r
      <3> TAKE i \in 1..(Len(q) - 1)
      <3>1. CASE i < k
        <4>1. i \in 1..(k - 1) /\ i <= k - 1
          BY <2>0, <3>1
        <4>2. r[i] = a[i]
          BY <2>4, <4>1
        <4>3. a[i] = q[i]
          BY <2>1, <4>1
        <4> QED
          BY <3>1, <4>2, <4>3
      <3>2. CASE ~(i < k)
        <4>1. i - (k - 1) \in 1..(Len(q) - k) /\ k + (i - (k - 1)) = i + 1
          BY <2>0, <3>2
        <4>2. r[i] = b[i - (k - 1)]
          BY <2>0, <2>4, <3>2
        <4> QED
          BY <2>2, <3>2, <4>1, <4>2
      <3> QED
        BY <3>1, <3>2
    <2> QED
      BY <2>4, <2>5
  <1>2. \A i \in 1..Len(r) : old(i) \in DOMAIN q /\ old(i) # k
    BY <1>1
  <1>3. \A i, j \in 1..Len(r) : old(i) = old(j) => i = j
    BY <1>1
  <1>4. DOMAIN r = 1..Len(r)
    BY <1>1
  <1> HIDE DEF r
  <1>5. \A i \in DOMAIN r : \E j \in DOMAIN q : r[i] = q[j] /\ j # k
    BY <1>1, <1>2, <1>4
  <1>6. \A i, j \in DOMAIN r : r[i] = r[j] => i = j
    BY <1>1, <1>2, <1>3, <1>4
  <1>7. \A j \in DOMAIN q \ {k} : \E i \in DOMAIN r : r[i] = q[j]
    <2> TAKE j \in DOMAIN q \ {k}
    <2> DEFINE i == IF j < k THEN j ELSE j - 1
    <2>1. i \in 1..Len(r) /\ old(i) = j
      BY <1>1
    <2> QED
      BY <1>1, <1>4, <2>1
  <1> QED
    BY <1>1, <1>5, <1>6, <1>7 DEF r

\* A step inside or outside the part of a fill that has a slot.
LEMMA SlotsKept ==
  ASSUME StreamTypeOK, SlotInv, NEW f \in Fill, NEW p,
         Goto(f, p), UNCHANGED sem,
         pc[f] # "queued", p \in SlotPc <=> pc[f] \in SlotPc
  PROVE  SlotInv'
  <1>1. pc' = [pc EXCEPT ![f] = p] /\ free' = free /\ queue' = queue
    BY DEF Goto, sem
  <1>2. \A g \in Fill : pc'[g] \in SlotPc <=> pc[g] \in SlotPc
    BY <1>1 DEF StreamTypeOK
  <1>3. Holders' = Holders
    BY <1>2 DEF Holders, HasSlot
  <1>4. \A i \in DOMAIN queue : queue[i] \in Fill /\ queue[i] # f
    BY DEF StreamTypeOK, SlotInv
  <1>5. \A i \in DOMAIN queue : pc'[queue[i]] = "queued"
    BY <1>1, <1>4 DEF StreamTypeOK, SlotInv
  <1> QED
    BY <1>1, <1>3, <1>5 DEF SlotInv

\* A step that leaves every fill where it is.
LEMMA SlotsUntouched ==
  ASSUME SlotInv, UNCHANGED sem, UNCHANGED pc
  PROVE  SlotInv'
  BY DEF SlotInv, sem, Holders, HasSlot

LEMMA SlotTaken ==
  ASSUME StreamTypeOK, SlotInv, NEW f \in Fill,
         pc[f] = "acquire", free > 0, queue = <<>>,
         free' = free - 1, queue' = queue, Goto(f, "request")
  PROVE  SlotInv'
  <1>1. pc' = [pc EXCEPT ![f] = "request"]
    BY DEF Goto
  <1>2. f \notin Holders /\ Holders' = Holders \cup {f}
    BY <1>1 DEF Holders, HasSlot, SlotPc, StreamTypeOK
  <1>3. Cardinality(Holders') = Cardinality(Holders) + 1
    BY <1>2, HoldersFinite, FS_AddElement
  <1>4. free + Cardinality(Holders) = MaxConcurrent
    BY DEF SlotInv
  <1>5. free' + Cardinality(Holders)' = MaxConcurrent
    BY <1>3, <1>4, HoldersFinite, SizeAssumption DEF StreamTypeOK
  <1> QED
    BY <1>5 DEF SlotInv

LEMMA SlotAwaited ==
  ASSUME StreamTypeOK, SlotInv, NEW f \in Fill,
         pc[f] = "acquire", free = 0 \/ queue # <<>>,
         free' = free, queue' = Append(queue, f), Goto(f, "queued")
  PROVE  SlotInv'
  <1>1. pc' = [pc EXCEPT ![f] = "queued"]
    BY DEF Goto
  <1>2. Holders' = Holders
    BY <1>1 DEF Holders, HasSlot, SlotPc, StreamTypeOK
  <1>3. free = 0
    BY DEF SlotInv
  <1>4. \A i \in DOMAIN queue : queue[i] \in Fill /\ queue[i] # f /\ pc[queue[i]] = "queued"
    BY DEF StreamTypeOK, SlotInv
  <1>5. \A i \in DOMAIN queue' : \/ i \in DOMAIN queue /\ queue'[i] = queue[i]
                                 \/ i = Len(queue) + 1 /\ queue'[i] = f
    BY DEF StreamTypeOK
  <1>6. \A i \in DOMAIN queue' : pc'[queue'[i]] = "queued"
    BY <1>1, <1>4, <1>5 DEF StreamTypeOK
  <1>7. \A i, j \in DOMAIN queue' : queue'[i] = queue'[j] => i = j
    BY <1>4, <1>5 DEF SlotInv
  <1> QED
    BY <1>2, <1>3, <1>6, <1>7 DEF SlotInv

LEMMA SlotRenounced ==
  ASSUME StreamTypeOK, SlotInv, NEW f \in Fill, StopWaiting(f)
  PROVE  SlotInv' /\ queue' \in Seq(Fill)
  <1>1. PICK k \in DOMAIN queue : queue[k] = f /\ queue' = RemoveAt(queue, k)
    BY DEF StopWaiting
  <1>2. /\ pc' = [pc EXCEPT ![f] = "recordFailure"] /\ free' = free /\ pc[f] = "queued"
    BY DEF StopWaiting, Goto, At
  <1>3. /\ queue' \in Seq(Fill)
        /\ \A i \in DOMAIN queue' : \E j \in DOMAIN queue : queue'[i] = queue[j] /\ j # k
        /\ \A i, j \in DOMAIN queue' : queue'[i] = queue'[j] => i = j
    <2>1. queue \in Seq(Fill) /\ \A i, j \in DOMAIN queue : queue[i] = queue[j] => i = j
      BY DEF StreamTypeOK, SlotInv
    <2>2. /\ RemoveAt(queue, k) \in Seq(Fill)
          /\ \A i \in DOMAIN RemoveAt(queue, k) :
                \E j \in DOMAIN queue : RemoveAt(queue, k)[i] = queue[j] /\ j # k
          /\ \A i, j \in DOMAIN RemoveAt(queue, k) :
                RemoveAt(queue, k)[i] = RemoveAt(queue, k)[j] => i = j
      BY <2>1, QueueRemoved
    <2> QED
      BY <1>1, <2>2
  <1>4. Holders' = Holders
    BY <1>2 DEF Holders, HasSlot, SlotPc, StreamTypeOK
  <1>5. \A i \in DOMAIN queue' : pc'[queue'[i]] = "queued"
    <2> TAKE i \in DOMAIN queue'
    <2>1. PICK j \in DOMAIN queue : queue'[i] = queue[j] /\ j # k
      BY <1>3
    <2>2. queue[j] \in Fill /\ queue[j] # f /\ pc[queue[j]] = "queued"
      BY <1>1, <2>1 DEF SlotInv, StreamTypeOK
    <2> QED
      BY <1>2, <2>1, <2>2 DEF StreamTypeOK
  <1>6. queue' # <<>> => free' = 0
    BY <1>1, <1>2 DEF SlotInv
  <1> QED
    BY <1>2, <1>3, <1>4, <1>5, <1>6 DEF SlotInv

\* A slot that is put back is free, or passes to the call that waits longest.
LEMMA SlotReleased ==
  ASSUME StreamTypeOK, SlotInv, NEW f \in Fill, NEW p \in FillPc,
         pc[f] \in SlotPc, p \notin SlotPc, p # "queued", ReleaseSlot(f, p)
  PROVE  /\ SlotInv'
         /\ free' \in Nat /\ queue' \in Seq(Fill)
         /\ pc' \in [Fill -> FillPc] /\ pc'[f] = p
         /\ \A g \in Fill \ {f} : \/ pc'[g] = pc[g]
                                  \/ pc[g] = "queued" /\ pc'[g] = "granted"
  <1>0. /\ f \in Holders /\ "queued" \notin SlotPc /\ "granted" \in SlotPc
        /\ free + Cardinality(Holders) = MaxConcurrent
    BY DEF Holders, HasSlot, SlotPc, SlotInv
  <1>1. CASE queue = <<>> /\ free' = free + 1 /\ Goto(f, p) /\ UNCHANGED queue
    <2>1. pc' = [pc EXCEPT ![f] = p]
      BY <1>1 DEF Goto
    <2>2. Holders' = Holders \ {f}
      BY <2>1 DEF Holders, HasSlot, StreamTypeOK
    <2>3. Cardinality(Holders') = Cardinality(Holders) - 1
      BY <1>0, <2>2, HoldersFinite, FS_RemoveElement
    <2>4. free' + Cardinality(Holders') = MaxConcurrent
      BY <1>0, <1>1, <2>3, HoldersFinite, SizeAssumption DEF StreamTypeOK
    <2>5. SlotInv'
      BY <1>1, <2>4 DEF SlotInv
    <2> QED
      BY <1>1, <2>1, <2>5 DEF StreamTypeOK
  <1>2. CASE /\ queue # <<>> /\ queue' = Tail(queue) /\ UNCHANGED free
             /\ pc' = [pc EXCEPT ![f] = p, ![Head(queue)] = "granted"]
    <2> DEFINE g == Head(queue)
    <2>1. /\ Tail(queue) \in Seq(Fill)
          /\ Head(queue) \in Fill /\ Head(queue) = queue[1] /\ 1 \in DOMAIN queue
          /\ \A i \in DOMAIN Tail(queue) : i + 1 \in DOMAIN queue /\ Tail(queue)[i] = queue[i + 1]
          /\ \A i \in DOMAIN Tail(queue) : Tail(queue)[i] # Head(queue)
          /\ \A i, j \in DOMAIN Tail(queue) : Tail(queue)[i] = Tail(queue)[j] => i = j
      BY <1>2, QueueTail DEF StreamTypeOK, SlotInv
    <2>2. pc[g] = "queued" /\ g # f /\ g \notin Holders
      BY <1>0, <2>1 DEF SlotInv, Holders, HasSlot
    <2> HIDE DEF g
    <2>3. g \in Fill /\ pc' = [pc EXCEPT ![f] = p, ![g] = "granted"]
      BY <1>2, <2>1 DEF g
    <2>4. Holders' = (Holders \ {f}) \cup {g}
      BY <1>0, <2>2, <2>3 DEF Holders, HasSlot, StreamTypeOK
    <2>5. Cardinality(Holders') = Cardinality(Holders)
      BY <1>0, <2>2, <2>4, HoldersFinite, SlotMoves
    <2>6. \A i \in DOMAIN queue' : pc'[queue'[i]] = "queued"
      <3> TAKE i \in DOMAIN queue'
      <3>1. queue'[i] \in Fill /\ queue'[i] # g /\ pc[queue'[i]] = "queued"
        BY <1>2, <2>1 DEF g, SlotInv, StreamTypeOK
      <3> QED
        BY <1>0, <2>3, <3>1 DEF StreamTypeOK
    <2>7. SlotInv'
      BY <1>2, <1>0, <2>1, <2>5, <2>6 DEF SlotInv
    <2>8. pc' \in [Fill -> FillPc]
      <3>1. "granted" \in FillPc
        BY <1>0 DEF FillPc
      <3> QED
        BY <2>3, <3>1 DEF StreamTypeOK
    <2>9. /\ pc'[f] = p
          /\ \A e \in Fill \ {f} : \/ pc'[e] = pc[e]
                                   \/ pc[e] = "queued" /\ pc'[e] = "granted"
      BY <2>2, <2>3 DEF StreamTypeOK
    <2>10. free' \in Nat /\ queue' \in Seq(Fill)
      BY <1>2, <2>1 DEF StreamTypeOK
    <2> QED
      BY <2>7, <2>8, <2>9, <2>10
  <1> QED
    BY <1>1, <1>2 DEF ReleaseSlot
-----------------------------------------------------------------------------
(* Every step.                                                             *)

\* What a step of f, its handler or its client leaves alone.
Others(f) ==
    /\ open' = open /\ faults' \in 0..MaxFaults /\ faults' >= faults
    /\ \A g \in Fill \ {f} :
          /\ pc'[g] = pc[g] \/ (pc[g] = "queued" /\ pc'[g] = "granted")
          /\ h'[g] = h[g] /\ client'[g] = client[g] /\ live'[g] = live[g]
          /\ given'[g] = given[g] /\ stored'[g] = stored[g]
          /\ record'[g] = record[g] /\ locked'[g] = locked[g] /\ object'[g] = object[g]
          /\ reported'[g] = reported[g]

Kept(f) == StreamTypeOK' /\ SlotInv' /\ Others(f) /\ FillInv(f)'

LEMMA OthersKept ==
  ASSUME StreamInv, NEW f \in Fill, Kept(f)
  PROVE  StreamInv'
  <1>1. \A g \in Fill \ {f} : FillInv(g)'
    <2> TAKE g \in Fill \ {f}
    <2>1. FillInv(g)
      BY DEF StreamInv
    <2>2. EndsInv(g)'
      BY <2>1 DEF FillInv, EndsInv, Kept, Others, PullPc
    <2>3. DataInv(g)'
      BY <2>1 DEF FillInv, DataInv, Kept, Others, PullPc, Decided
    <2>4. faults' = 0 => faults = 0
      BY DEF Kept, Others, StreamInv, StreamTypeOK
    <2>5. CleanInv(g)'
      BY <2>1, <2>4 DEF FillInv, CleanInv, Undisturbed, Kept, Others, Decided
    <2> QED
      BY <2>2, <2>3, <2>5 DEF FillInv
  <1> QED
    BY <1>1 DEF Kept, StreamInv

LEMMA FailsCounts ==
  ASSUME StreamTypeOK, NEW f \in Fill, Fails(f)
  PROVE  /\ faults' \in 0..MaxFaults /\ faults' >= faults
         /\ faults' = 0 => ~live[f]
  BY StreamAssumption DEF StreamTypeOK, Fails, Strike

LEMMA CallFailsCounts ==
  ASSUME StreamTypeOK, NEW c \in Clients, CallFails(c)
  PROVE  /\ faults' \in 0..MaxFaults /\ faults' >= faults
         /\ faults' = 0 => open # Clients
  BY StreamAssumption DEF StreamTypeOK, CallFails, Strike

\* One write of the row: it is done, or it has failed and was reported.
LEMMA RowWritten ==
  ASSUME StreamTypeOK, NEW f \in Fill, NEW s \in {"ready", "error"}, MarkAs(f, s)
  PROVE  /\ faults' \in 0..MaxFaults /\ faults' >= faults
         /\ record' \in [Fill -> {"none", "filling", "ready", "error"}]
         /\ reported' \in [Fill -> SUBSET {"row", "lock"}]
         /\ \A g \in Fill \ {f} : record'[g] = record[g] /\ reported'[g] = reported[g]
         /\ record'[f] = record[f] \/ record'[f] = s
         /\ \/ record'[f] = s /\ reported'[f] = reported[f] /\ faults' = faults
            \/ "row" \in reported'[f] /\ (faults' = 0 => open # Clients)
  <1>1. CASE "db" \in open /\ record' = [record EXCEPT ![f] = s] /\ UNCHANGED <<reported, faults>>
    BY <1>1 DEF StreamTypeOK
  <1>2. CASE /\ CallFails("db")
             /\ record' \in HalfDone("db", record, [record EXCEPT ![f] = s])
             /\ Report(f, "row")
    <2>1. /\ faults' \in 0..MaxFaults /\ faults' >= faults
          /\ faults' = 0 => open # Clients
      BY <1>2, CallFailsCounts DEF Clients
    <2>2. record' = record \/ record' = [record EXCEPT ![f] = s]
      BY <1>2 DEF HalfDone
    <2>3. reported' = [reported EXCEPT ![f] = @ \cup {"row"}]
      BY <1>2 DEF Report
    <2> QED
      BY <2>1, <2>2, <2>3 DEF StreamTypeOK
  <1> QED
    BY <1>1, <1>2 DEF MarkAs

\* One release of the lock, likewise.
LEMMA LockFreed ==
  ASSUME StreamTypeOK, NEW f \in Fill, FreeLock(f)
  PROVE  /\ faults' \in 0..MaxFaults /\ faults' >= faults
         /\ locked' \in [Fill -> BOOLEAN]
         /\ reported' \in [Fill -> SUBSET {"row", "lock"}]
         /\ \A g \in Fill \ {f} : locked'[g] = locked[g] /\ reported'[g] = reported[g]
         /\ "row" \in reported[f] => "row" \in reported'[f]
         /\ \/ locked'[f] = FALSE /\ reported'[f] = reported[f] /\ faults' = faults
            \/ "lock" \in reported'[f] /\ (faults' = 0 => open # Clients)
  <1>1. CASE "valkey" \in open /\ locked' = [locked EXCEPT ![f] = FALSE] /\ UNCHANGED <<reported, faults>>
    BY <1>1 DEF StreamTypeOK
  <1>2. CASE /\ CallFails("valkey")
             /\ locked' \in HalfDone("valkey", locked, [locked EXCEPT ![f] = FALSE])
             /\ Report(f, "lock")
    <2>1. /\ faults' \in 0..MaxFaults /\ faults' >= faults
          /\ faults' = 0 => open # Clients
      BY <1>2, CallFailsCounts DEF Clients
    <2>2. locked' = locked \/ locked' = [locked EXCEPT ![f] = FALSE]
      BY <1>2 DEF HalfDone
    <2>3. reported' = [reported EXCEPT ![f] = @ \cup {"lock"}]
      BY <1>2 DEF Report
    <2> QED
      BY <2>1, <2>2, <2>3 DEF StreamTypeOK
  <1> QED
    BY <1>1, <1>2 DEF FreeLock

\* The upsert leaves no row, or a FILLING one.
LEMMA RowUpserted ==
  ASSUME StreamTypeOK, NEW f \in Fill, UpsertFails(f)
  PROVE  /\ record' \in [Fill -> {"none", "filling", "ready", "error"}]
         /\ \A g \in Fill \ {f} : record'[g] = record[g]
         /\ record'[f] = record[f] \/ record'[f] = "filling"
  <1>1. record' = record \/ record' = [record EXCEPT ![f] = "filling"]
    BY DEF UpsertFails, HalfDone
  <1> QED
    BY <1>1 DEF StreamTypeOK

\* Pull, up to the fetch.
LEMMA PullKept ==
  ASSUME StreamInv, NEW f \in Fill
  PROVE  /\ Arrive(f) => Kept(f)
         /\ PullReturns(f) => Kept(f)
         /\ Lead(f) => Kept(f)
         /\ LockLost(f) => Kept(f)
         /\ UpsertFails(f) => Kept(f)
  <1> USE DEF At, Goto, node, sem, request, data, shared, Returned
  <1>0. StreamTypeOK /\ SlotInv /\ FillInv(f)
    BY DEF StreamInv
  <1>1. ASSUME Arrive(f) PROVE Kept(f)
    <2>1. StreamTypeOK'
      BY <1>0, <1>1 DEF Arrive, StreamTypeOK, FillPc, SlotPc
    <2>2. SlotInv'
      BY <1>0, <1>1, SlotsKept DEF Arrive, SlotPc
    <2>3. Others(f)
      BY <1>0, <1>1 DEF Arrive, Others, StreamTypeOK
    <2>4. FillInv(f)'
      BY <1>0, <1>1
         DEF Arrive, StreamTypeOK, FillInv, EndsInv, DataInv, CleanInv,
             Undisturbed, PullPc, Decided
    <2> QED
      BY <2>1, <2>2, <2>3, <2>4 DEF Kept
  <1>2. ASSUME PullReturns(f) PROVE Kept(f)
    <2>1. StreamTypeOK'
      BY <1>0, <1>2 DEF PullReturns, StreamTypeOK, FillPc, SlotPc, Return
    <2>2. SlotInv'
      BY <1>0, <1>2, SlotsKept DEF PullReturns, SlotPc
    <2>3. Others(f)
      BY <1>0, <1>2 DEF PullReturns, Others, StreamTypeOK, Return
    <2>4. FillInv(f)'
      BY <1>0, <1>2
         DEF PullReturns, StreamTypeOK, FillInv, EndsInv, DataInv, CleanInv,
             Undisturbed, PullPc, Decided, Return
    <2> QED
      BY <2>1, <2>2, <2>3, <2>4 DEF Kept
  <1>3. ASSUME Lead(f) PROVE Kept(f)
    <2>1. StreamTypeOK'
      BY <1>0, <1>3 DEF Lead, StreamTypeOK, FillPc, SlotPc
    <2>2. SlotInv'
      BY <1>0, <1>3, SlotsKept DEF Lead, SlotPc
    <2>3. Others(f)
      BY <1>0, <1>3 DEF Lead, Others, StreamTypeOK
    <2>4. FillInv(f)'
      BY <1>0, <1>3
         DEF Lead, StreamTypeOK, FillInv, EndsInv, DataInv, CleanInv,
             Undisturbed, PullPc, Decided
    <2> QED
      BY <2>1, <2>2, <2>3, <2>4 DEF Kept
  <1>4. ASSUME LockLost(f) PROVE Kept(f)
    <2>0. /\ faults' \in 0..MaxFaults /\ faults' >= faults
          /\ faults' = 0 => ~live[f]
      BY <1>0, <1>4, FailsCounts DEF LockLost
    <2>1. StreamTypeOK'
      BY <1>0, <1>4, <2>0 DEF LockLost, StreamTypeOK, FillPc, SlotPc, Return, Report
    <2>2. SlotInv'
      BY <1>0, <1>4, SlotsKept DEF LockLost, SlotPc
    <2>3. Others(f)
      BY <1>0, <1>4, <2>0 DEF LockLost, Others, StreamTypeOK, Return, Report
    <2>4. FillInv(f)'
      BY <1>0, <1>4, <2>0
         DEF LockLost, StreamTypeOK, FillInv, EndsInv, DataInv, CleanInv,
             Undisturbed, PullPc, Decided, Return
    <2> QED
      BY <2>1, <2>2, <2>3, <2>4 DEF Kept
  <1>5. ASSUME UpsertFails(f) PROVE Kept(f)
    <2>0. /\ faults' \in 0..MaxFaults /\ faults' >= faults
          /\ faults' = 0 => ~live[f]
      BY <1>0, <1>5, FailsCounts DEF UpsertFails
    <2>5. /\ pc[f] = "pull" /\ Goto(f, "giveUp")
          /\ locked' = [locked EXCEPT ![f] = TRUE] /\ Report(f, "row")
          /\ UNCHANGED <<node, sem, request, data, object>>
      BY <1>5 DEF UpsertFails
    <2>6. /\ record' \in [Fill -> {"none", "filling", "ready", "error"}]
          /\ \A g \in Fill \ {f} : record'[g] = record[g]
          /\ record'[f] = record[f] \/ record'[f] = "filling"
      BY <1>0, <1>5, RowUpserted
    <2>1. StreamTypeOK'
      BY <1>0, <2>0, <2>5, <2>6 DEF StreamTypeOK, FillPc, SlotPc, Report
    <2>2. SlotInv'
      BY <1>0, <2>5, SlotsKept DEF SlotPc
    <2>3. Others(f)
      BY <1>0, <2>0, <2>5, <2>6 DEF Others, StreamTypeOK, Report
    <2>4. FillInv(f)'
      BY <1>0, <2>0, <2>5, <2>6
         DEF StreamTypeOK, FillInv, EndsInv, DataInv, CleanInv,
             Undisturbed, PullPc, Decided
    <2> QED
      BY <2>1, <2>2, <2>3, <2>4 DEF Kept
  <1> QED
    BY <1>1, <1>2, <1>3, <1>4, <1>5

\* The semaphore.
LEMMA AcquireKept ==
  ASSUME StreamInv, NEW f \in Fill
  PROVE  /\ AcquireRefused(f) => Kept(f)
         /\ Acquire(f) => Kept(f)
         /\ Enqueue(f) => Kept(f)
         /\ StopWaiting(f) => Kept(f)
         /\ Granted(f) => Kept(f)
         /\ GrantedTooLate(f) => Kept(f)
  <1> USE DEF At, Goto, node, sem, request, data, shared, Returned
  <1>0. StreamTypeOK /\ SlotInv /\ FillInv(f)
    BY DEF StreamInv
  <1>1. ASSUME AcquireRefused(f) PROVE Kept(f)
    <2>1. StreamTypeOK'
      BY <1>0, <1>1 DEF AcquireRefused, StreamTypeOK, FillPc, SlotPc
    <2>2. SlotInv'
      BY <1>0, <1>1, SlotsKept DEF AcquireRefused, SlotPc
    <2>3. Others(f)
      BY <1>0, <1>1 DEF AcquireRefused, Others, StreamTypeOK
    <2>4. FillInv(f)'
      BY <1>0, <1>1
         DEF AcquireRefused, StreamTypeOK, FillInv, EndsInv, DataInv, CleanInv,
             Undisturbed, PullPc, Decided
    <2> QED
      BY <2>1, <2>2, <2>3, <2>4 DEF Kept
  <1>2. ASSUME Acquire(f) PROVE Kept(f)
    <2>1. StreamTypeOK'
      BY <1>0, <1>2 DEF Acquire, StreamTypeOK, FillPc, SlotPc
    <2>2. SlotInv'
      BY <1>0, <1>2, SlotTaken DEF Acquire
    <2>3. Others(f)
      BY <1>0, <1>2 DEF Acquire, Others, StreamTypeOK
    <2>4. FillInv(f)'
      BY <1>0, <1>2
         DEF Acquire, StreamTypeOK, FillInv, EndsInv, DataInv, CleanInv,
             Undisturbed, PullPc, Decided
    <2> QED
      BY <2>1, <2>2, <2>3, <2>4 DEF Kept
  <1>3. ASSUME Enqueue(f) PROVE Kept(f)
    <2>1. StreamTypeOK'
      BY <1>0, <1>3 DEF Enqueue, StreamTypeOK, FillPc, SlotPc
    <2>2. SlotInv'
      BY <1>0, <1>3, SlotAwaited DEF Enqueue
    <2>3. Others(f)
      BY <1>0, <1>3 DEF Enqueue, Others, StreamTypeOK
    <2>4. FillInv(f)'
      BY <1>0, <1>3
         DEF Enqueue, StreamTypeOK, FillInv, EndsInv, DataInv, CleanInv,
             Undisturbed, PullPc, Decided
    <2> QED
      BY <2>1, <2>2, <2>3, <2>4 DEF Kept
  <1>4. ASSUME StopWaiting(f) PROVE Kept(f)
    <2>1. StreamTypeOK'
      BY <1>0, <1>4, SlotRenounced DEF StopWaiting, StreamTypeOK, FillPc, SlotPc
    <2>2. SlotInv'
      BY <1>0, <1>4, SlotRenounced DEF StopWaiting
    <2>3. Others(f)
      BY <1>0, <1>4 DEF StopWaiting, Others, StreamTypeOK
    <2>4. FillInv(f)'
      BY <1>0, <1>4
         DEF StopWaiting, StreamTypeOK, FillInv, EndsInv, DataInv, CleanInv,
             Undisturbed, PullPc, Decided
    <2> QED
      BY <2>1, <2>2, <2>3, <2>4 DEF Kept
  <1>5. ASSUME Granted(f) PROVE Kept(f)
    <2>1. StreamTypeOK'
      BY <1>0, <1>5 DEF Granted, StreamTypeOK, FillPc, SlotPc
    <2>2. SlotInv'
      BY <1>0, <1>5, SlotsKept DEF Granted, SlotPc
    <2>3. Others(f)
      BY <1>0, <1>5 DEF Granted, Others, StreamTypeOK
    <2>4. FillInv(f)'
      BY <1>0, <1>5
         DEF Granted, StreamTypeOK, FillInv, EndsInv, DataInv, CleanInv,
             Undisturbed, PullPc, Decided
    <2> QED
      BY <2>1, <2>2, <2>3, <2>4 DEF Kept
  <1>6. ASSUME GrantedTooLate(f) PROVE Kept(f)
    <2>5. /\ SlotInv' /\ free' \in Nat /\ queue' \in Seq(Fill)
          /\ pc' \in [Fill -> FillPc] /\ pc'[f] = "recordFailure"
          /\ \A g \in Fill \ {f} : pc'[g] = pc[g] \/ (pc[g] = "queued" /\ pc'[g] = "granted")
      BY <1>0, <1>6, SlotReleased DEF GrantedTooLate, FillPc, SlotPc
    <2>1. StreamTypeOK'
      BY <1>0, <1>6, <2>5 DEF GrantedTooLate, StreamTypeOK, FillPc, SlotPc
    <2>2. SlotInv'
      BY <2>5
    <2>3. Others(f)
      BY <1>0, <1>6, <2>5 DEF GrantedTooLate, Others, StreamTypeOK
    <2>4. FillInv(f)'
      BY <1>0, <1>6, <2>5
         DEF GrantedTooLate, StreamTypeOK, FillInv, EndsInv, DataInv, CleanInv,
             Undisturbed, PullPc, Decided
    <2> QED
      BY <2>1, <2>2, <2>3, <2>4 DEF Kept
  <1> QED
    BY <1>1, <1>2, <1>3, <1>4, <1>5, <1>6

\* The request, the writer, and the failure of either.
LEMMA RequestKept ==
  ASSUME StreamInv, NEW f \in Fill
  PROVE  /\ Request(f) => Kept(f)
         /\ RequestFails(f) => Kept(f)
         /\ OpenWriter(f) => Kept(f)
         /\ OpenWriterFails(f) => Kept(f)
         /\ RecordFailure(f) => Kept(f)
         /\ GiveUp(f) => Kept(f)
  <1> USE DEF At, Goto, node, sem, request, data, shared, Returned
  <1>0. StreamTypeOK /\ SlotInv /\ FillInv(f)
    BY DEF StreamInv
  <1>1. ASSUME Request(f) PROVE Kept(f)
    <2>1. StreamTypeOK'
      BY <1>0, <1>1 DEF Request, StreamTypeOK, FillPc, SlotPc
    <2>2. SlotInv'
      BY <1>0, <1>1, SlotsKept DEF Request, SlotPc
    <2>3. Others(f)
      BY <1>0, <1>1 DEF Request, Others, StreamTypeOK
    <2>4. FillInv(f)'
      BY <1>0, <1>1
         DEF Request, StreamTypeOK, FillInv, EndsInv, DataInv, CleanInv,
             Undisturbed, PullPc, Decided
    <2> QED
      BY <2>1, <2>2, <2>3, <2>4 DEF Kept
  <1>2. ASSUME RequestFails(f) PROVE Kept(f)
    <2>0. /\ faults' \in 0..MaxFaults /\ faults' >= faults
          /\ faults' = 0 => ~live[f]
      BY <1>0, <1>2, FailsCounts DEF RequestFails
    <2>5. /\ SlotInv' /\ free' \in Nat /\ queue' \in Seq(Fill)
          /\ pc' \in [Fill -> FillPc] /\ pc'[f] = "recordFailure"
          /\ \A g \in Fill \ {f} : pc'[g] = pc[g] \/ (pc[g] = "queued" /\ pc'[g] = "granted")
      BY <1>0, <1>2, SlotReleased DEF RequestFails, FillPc, SlotPc
    <2>1. StreamTypeOK'
      BY <1>0, <1>2, <2>0, <2>5 DEF RequestFails, StreamTypeOK, FillPc, SlotPc
    <2>2. SlotInv'
      BY <2>5
    <2>3. Others(f)
      BY <1>0, <1>2, <2>0, <2>5 DEF RequestFails, Others, StreamTypeOK
    <2>4. FillInv(f)'
      BY <1>0, <1>2, <2>0, <2>5
         DEF RequestFails, StreamTypeOK, FillInv, EndsInv, DataInv, CleanInv,
             Undisturbed, PullPc, Decided
    <2> QED
      BY <2>1, <2>2, <2>3, <2>4 DEF Kept
  <1>3. ASSUME OpenWriter(f) PROVE Kept(f)
    <2>1. StreamTypeOK'
      BY <1>0, <1>3 DEF OpenWriter, StreamTypeOK, FillPc, SlotPc
    <2>2. SlotInv'
      BY <1>0, <1>3, SlotsKept DEF OpenWriter, SlotPc
    <2>3. Others(f)
      BY <1>0, <1>3 DEF OpenWriter, Others, StreamTypeOK
    <2>4. FillInv(f)'
      BY <1>0, <1>3
         DEF OpenWriter, StreamTypeOK, FillInv, EndsInv, DataInv, CleanInv,
             Undisturbed, PullPc, Decided
    <2> QED
      BY <2>1, <2>2, <2>3, <2>4 DEF Kept
  <1>4. ASSUME OpenWriterFails(f) PROVE Kept(f)
    <2>0. /\ faults' \in 0..MaxFaults /\ faults' >= faults
          /\ faults' = 0 => ~live[f]
      BY <1>0, <1>4, FailsCounts DEF OpenWriterFails
    <2>5. /\ SlotInv' /\ free' \in Nat /\ queue' \in Seq(Fill)
          /\ pc' \in [Fill -> FillPc] /\ pc'[f] = "recordFailure"
          /\ \A g \in Fill \ {f} : pc'[g] = pc[g] \/ (pc[g] = "queued" /\ pc'[g] = "granted")
      BY <1>0, <1>4, SlotReleased DEF OpenWriterFails, FillPc, SlotPc
    <2>1. StreamTypeOK'
      BY <1>0, <1>4, <2>0, <2>5 DEF OpenWriterFails, StreamTypeOK, FillPc, SlotPc
    <2>2. SlotInv'
      BY <2>5
    <2>3. Others(f)
      BY <1>0, <1>4, <2>0, <2>5 DEF OpenWriterFails, Others, StreamTypeOK
    <2>4. FillInv(f)'
      BY <1>0, <1>4, <2>0, <2>5
         DEF OpenWriterFails, StreamTypeOK, FillInv, EndsInv, DataInv, CleanInv,
             Undisturbed, PullPc, Decided
    <2> QED
      BY <2>1, <2>2, <2>3, <2>4 DEF Kept
  <1>5. ASSUME RecordFailure(f) PROVE Kept(f)
    <2>0. /\ faults' \in 0..MaxFaults /\ faults' >= faults
          /\ record' \in [Fill -> {"none", "filling", "ready", "error"}]
          /\ reported' \in [Fill -> SUBSET {"row", "lock"}]
          /\ \A g \in Fill \ {f} : record'[g] = record[g] /\ reported'[g] = reported[g]
          /\ record'[f] = record[f] \/ record'[f] = "error"
      <3>1. CASE live[f] /\ MarkAs(f, "error")
        BY <1>0, <3>1, RowWritten
      <3>2. CASE Report(f, "row") /\ UNCHANGED <<record, faults>>
        BY <1>0, <3>2, StreamAssumption DEF StreamTypeOK, Report
      <3> QED
        BY <1>5, <3>1, <3>2 DEF RecordFailure
    <2>1. StreamTypeOK'
      BY <1>0, <1>5, <2>0 DEF RecordFailure, StreamTypeOK, FillPc, SlotPc
    <2>2. SlotInv'
      BY <1>0, <1>5, SlotsKept DEF RecordFailure, SlotPc
    <2>3. Others(f)
      BY <1>0, <1>5, <2>0 DEF RecordFailure, Others, StreamTypeOK
    <2>4. FillInv(f)'
      BY <1>0, <1>5, <2>0
         DEF RecordFailure, StreamTypeOK, FillInv, EndsInv, DataInv, CleanInv,
             Undisturbed, PullPc, Decided
    <2> QED
      BY <2>1, <2>2, <2>3, <2>4 DEF Kept
  <1>6. ASSUME GiveUp(f) PROVE Kept(f)
    <2>0. /\ faults' \in 0..MaxFaults /\ faults' >= faults
          /\ locked' \in [Fill -> BOOLEAN]
          /\ reported' \in [Fill -> SUBSET {"row", "lock"}]
          /\ \A g \in Fill \ {f} : locked'[g] = locked[g] /\ reported'[g] = reported[g]
      BY <1>0, <1>6, LockFreed DEF GiveUp
    <2>1. StreamTypeOK'
      BY <1>0, <1>6, <2>0 DEF GiveUp, StreamTypeOK, FillPc, SlotPc, Return
    <2>2. SlotInv'
      BY <1>0, <1>6, SlotsKept DEF GiveUp, SlotPc
    <2>3. Others(f)
      BY <1>0, <1>6, <2>0 DEF GiveUp, Others, StreamTypeOK, Return
    <2>4. FillInv(f)'
      BY <1>0, <1>6, <2>0
         DEF GiveUp, StreamTypeOK, FillInv, EndsInv, DataInv, CleanInv,
             Undisturbed, PullPc, Decided, Return
    <2> QED
      BY <2>1, <2>2, <2>3, <2>4 DEF Kept
  <1> QED
    BY <1>1, <1>2, <1>3, <1>4, <1>5, <1>6

\* The copy.
LEMMA CopyKept ==
  ASSUME StreamInv, NEW f \in Fill
  PROVE  /\ ReadChunk(f) => Kept(f)
         /\ BodyEnds(f) => Kept(f)
         /\ ReadFails(f) => Kept(f)
         /\ HandOver(f) => Kept(f)
         /\ PipeBroken(f) => Kept(f)
         /\ StoreChunk(f) => Kept(f)
         /\ StoreFails(f) => Kept(f)
  <1> USE DEF At, Goto, node, sem, request, data, shared, Returned
  <1>0. StreamTypeOK /\ SlotInv /\ FillInv(f)
    BY DEF StreamInv
  <1>1. ASSUME ReadChunk(f) PROVE Kept(f)
    <2>1. StreamTypeOK'
      BY <1>0, <1>1 DEF ReadChunk, StreamTypeOK, FillPc, SlotPc
    <2>2. SlotInv'
      BY <1>0, <1>1, SlotsKept DEF ReadChunk, SlotPc
    <2>3. Others(f)
      BY <1>0, <1>1 DEF ReadChunk, Others, StreamTypeOK
    <2>4. FillInv(f)'
      BY <1>0, <1>1
         DEF ReadChunk, StreamTypeOK, FillInv, EndsInv, DataInv, CleanInv,
             Undisturbed, PullPc, Decided
    <2> QED
      BY <2>1, <2>2, <2>3, <2>4 DEF Kept
  <1>2. ASSUME BodyEnds(f) PROVE Kept(f)
    <2>1. StreamTypeOK'
      BY <1>0, <1>2 DEF BodyEnds, StreamTypeOK, FillPc, SlotPc
    <2>2. SlotInv'
      BY <1>0, <1>2, SlotsKept DEF BodyEnds, SlotPc
    <2>3. Others(f)
      BY <1>0, <1>2 DEF BodyEnds, Others, StreamTypeOK
    <2>4. FillInv(f)'
      BY <1>0, <1>2
         DEF BodyEnds, StreamTypeOK, FillInv, EndsInv, DataInv, CleanInv,
             Undisturbed, PullPc, Decided
    <2> QED
      BY <2>1, <2>2, <2>3, <2>4 DEF Kept
  <1>3. ASSUME ReadFails(f) PROVE Kept(f)
    <2>0. /\ faults' \in 0..MaxFaults /\ faults' >= faults
          /\ faults' = 0 => ~live[f]
      BY <1>0, <1>3, FailsCounts DEF ReadFails
    <2>1. StreamTypeOK'
      BY <1>0, <1>3, <2>0 DEF ReadFails, StreamTypeOK, FillPc, SlotPc
    <2>2. SlotInv'
      BY <1>0, <1>3, SlotsKept DEF ReadFails, SlotPc
    <2>3. Others(f)
      BY <1>0, <1>3, <2>0 DEF ReadFails, Others, StreamTypeOK
    <2>4. FillInv(f)'
      BY <1>0, <1>3, <2>0
         DEF ReadFails, StreamTypeOK, FillInv, EndsInv, DataInv, CleanInv,
             Undisturbed, PullPc, Decided
    <2> QED
      BY <2>1, <2>2, <2>3, <2>4 DEF Kept
  <1>4. ASSUME HandOver(f) PROVE Kept(f)
    <2>0. given[f] + 1 \in Nat /\ given[f] + 1 <= Chunks[f]
      <3>1. given[f] \in Nat /\ Chunks[f] \in Nat
        BY <1>0, StreamAssumption DEF StreamTypeOK
      <3>2. given[f] < Chunks[f]
        BY <1>0, <1>4 DEF HandOver, FillInv, DataInv
      <3> QED
        BY <3>1, <3>2
    <2>1. StreamTypeOK'
      BY <1>0, <1>4, <2>0 DEF HandOver, StreamTypeOK, FillPc, SlotPc
    <2>2. SlotInv'
      BY <1>0, <1>4, SlotsKept DEF HandOver, SlotPc
    <2>3. Others(f)
      BY <1>0, <1>4, <2>0 DEF HandOver, Others, StreamTypeOK
    <2>4. FillInv(f)'
      BY <1>0, <1>4, <2>0
         DEF HandOver, StreamTypeOK, FillInv, EndsInv, DataInv, CleanInv,
             Undisturbed, PullPc, Decided
    <2> QED
      BY <2>1, <2>2, <2>3, <2>4 DEF Kept
  <1>5. ASSUME PipeBroken(f) PROVE Kept(f)
    <2>1. StreamTypeOK'
      BY <1>0, <1>5 DEF PipeBroken, StreamTypeOK, FillPc, SlotPc
    <2>2. SlotInv'
      BY <1>0, <1>5, SlotsKept DEF PipeBroken, SlotPc
    <2>3. Others(f)
      BY <1>0, <1>5 DEF PipeBroken, Others, StreamTypeOK
    <2>4. FillInv(f)'
      BY <1>0, <1>5
         DEF PipeBroken, StreamTypeOK, FillInv, EndsInv, DataInv, CleanInv,
             Undisturbed, PullPc, Decided
    <2> QED
      BY <2>1, <2>2, <2>3, <2>4 DEF Kept
  <1>6. ASSUME StoreChunk(f) PROVE Kept(f)
    <2>1. StreamTypeOK'
      BY <1>0, <1>6 DEF StoreChunk, StreamTypeOK, FillPc, SlotPc, FillInv, DataInv
    <2>2. SlotInv'
      BY <1>0, <1>6, SlotsKept DEF StoreChunk, SlotPc
    <2>3. Others(f)
      BY <1>0, <1>6 DEF StoreChunk, Others, StreamTypeOK
    <2>4. FillInv(f)'
      BY <1>0, <1>6
         DEF StoreChunk, StreamTypeOK, FillInv, EndsInv, DataInv, CleanInv,
             Undisturbed, PullPc, Decided
    <2> QED
      BY <2>1, <2>2, <2>3, <2>4 DEF Kept
  <1>7. ASSUME StoreFails(f) PROVE Kept(f)
    <2>0. /\ faults' \in 0..MaxFaults /\ faults' >= faults
          /\ faults' = 0 /\ open = Clients => ~live[f]
      BY <1>0, <1>7, FailsCounts DEF StoreFails, StreamTypeOK, Clients
    <2>1. StreamTypeOK'
      BY <1>0, <1>7, <2>0 DEF StoreFails, StreamTypeOK, FillPc, SlotPc
    <2>2. SlotInv'
      BY <1>0, <1>7, SlotsKept DEF StoreFails, SlotPc
    <2>3. Others(f)
      BY <1>0, <1>7, <2>0 DEF StoreFails, Others, StreamTypeOK
    <2>4. FillInv(f)'
      BY <1>0, <1>7, <2>0
         DEF StoreFails, StreamTypeOK, FillInv, EndsInv, DataInv, CleanInv,
             Undisturbed, PullPc, Decided
    <2> QED
      BY <2>1, <2>2, <2>3, <2>4 DEF Kept
  <1> QED
    BY <1>1, <1>2, <1>3, <1>4, <1>5, <1>6, <1>7

\* The end of the fill goroutine.
LEMMA EndKept ==
  ASSUME StreamInv, NEW f \in Fill
  PROVE  /\ MarkReady(f) => Kept(f)
         /\ MarkError(f) => Kept(f)
         /\ Unlock(f) => Kept(f)
         /\ Commit(f) => Kept(f)
         /\ CommitFails(f) => Kept(f)
         /\ EndStream(f) => Kept(f)
         /\ CloseBody(f) => Kept(f)
  <1> USE DEF At, Goto, node, sem, request, data, shared, Returned
  <1>0. StreamTypeOK /\ SlotInv /\ FillInv(f)
    BY DEF StreamInv
  <1>1. ASSUME MarkReady(f) PROVE Kept(f)
    <2>0. /\ faults' \in 0..MaxFaults /\ faults' >= faults
          /\ record' \in [Fill -> {"none", "filling", "ready", "error"}]
          /\ reported' \in [Fill -> SUBSET {"row", "lock"}]
          /\ \A g \in Fill \ {f} : record'[g] = record[g] /\ reported'[g] = reported[g]
          /\ record'[f] = record[f] \/ record'[f] = "ready"
          /\ record'[f] = "ready" \/ (faults' = 0 => open # Clients)
      BY <1>0, <1>1, RowWritten DEF MarkReady
    <2>1. StreamTypeOK'
      BY <1>0, <1>1, <2>0 DEF MarkReady, StreamTypeOK, FillPc, SlotPc
    <2>2. SlotInv'
      BY <1>0, <1>1, SlotsKept DEF MarkReady, SlotPc
    <2>3. Others(f)
      BY <1>0, <1>1, <2>0 DEF MarkReady, Others, StreamTypeOK
    <2>4. FillInv(f)'
      BY <1>0, <1>1, <2>0
         DEF MarkReady, StreamTypeOK, FillInv, EndsInv, DataInv, CleanInv,
             Undisturbed, PullPc, Decided
    <2> QED
      BY <2>1, <2>2, <2>3, <2>4 DEF Kept
  <1>2. ASSUME MarkError(f) PROVE Kept(f)
    <2>0. /\ faults' \in 0..MaxFaults /\ faults' >= faults
          /\ record' \in [Fill -> {"none", "filling", "ready", "error"}]
          /\ reported' \in [Fill -> SUBSET {"row", "lock"}]
          /\ \A g \in Fill \ {f} : record'[g] = record[g] /\ reported'[g] = reported[g]
          /\ record'[f] = record[f] \/ record'[f] = "error"
          /\ record'[f] = "error" \/ (faults' = 0 => open # Clients)
      BY <1>0, <1>2, RowWritten DEF MarkError
    <2>1. StreamTypeOK'
      BY <1>0, <1>2, <2>0 DEF MarkError, StreamTypeOK, FillPc, SlotPc
    <2>2. SlotInv'
      BY <1>0, <1>2, SlotsKept DEF MarkError, SlotPc
    <2>3. Others(f)
      BY <1>0, <1>2, <2>0 DEF MarkError, Others, StreamTypeOK
    <2>4. FillInv(f)'
      BY <1>0, <1>2, <2>0
         DEF MarkError, StreamTypeOK, FillInv, EndsInv, DataInv, CleanInv,
             Undisturbed, PullPc, Decided
    <2> QED
      BY <2>1, <2>2, <2>3, <2>4 DEF Kept
  <1>3. ASSUME Unlock(f) PROVE Kept(f)
    <2>0. /\ faults' \in 0..MaxFaults /\ faults' >= faults
          /\ locked' \in [Fill -> BOOLEAN]
          /\ reported' \in [Fill -> SUBSET {"row", "lock"}]
          /\ \A g \in Fill \ {f} : locked'[g] = locked[g] /\ reported'[g] = reported[g]
          /\ locked'[f] = FALSE \/ (faults' = 0 => open # Clients)
      BY <1>0, <1>3, LockFreed DEF Unlock
    <2>1. StreamTypeOK'
      BY <1>0, <1>3, <2>0 DEF Unlock, StreamTypeOK, FillPc, SlotPc
    <2>2. SlotInv'
      BY <1>0, <1>3, SlotsKept DEF Unlock, SlotPc
    <2>3. Others(f)
      BY <1>0, <1>3, <2>0 DEF Unlock, Others, StreamTypeOK
    <2>4. FillInv(f)'
      BY <1>0, <1>3, <2>0
         DEF Unlock, StreamTypeOK, FillInv, EndsInv, DataInv, CleanInv,
             Undisturbed, PullPc, Decided
    <2> QED
      BY <2>1, <2>2, <2>3, <2>4 DEF Kept
  <1>4. ASSUME Commit(f) PROVE Kept(f)
    <2>1. StreamTypeOK'
      BY <1>0, <1>4 DEF Commit, StreamTypeOK, FillPc, SlotPc
    <2>2. SlotInv'
      BY <1>0, <1>4, SlotsKept DEF Commit, SlotPc
    <2>3. Others(f)
      BY <1>0, <1>4 DEF Commit, Others, StreamTypeOK
    <2>4. FillInv(f)'
      BY <1>0, <1>4
         DEF Commit, StreamTypeOK, FillInv, EndsInv, DataInv, CleanInv,
             Undisturbed, PullPc, Decided
    <2> QED
      BY <2>1, <2>2, <2>3, <2>4 DEF Kept
  <1>5. ASSUME CommitFails(f) PROVE Kept(f)
    <2>0. /\ faults' \in 0..MaxFaults /\ faults' >= faults
          /\ faults' = 0 /\ open = Clients => ~live[f] \/ stored[f] < given[f]
      BY <1>0, <1>5, FailsCounts DEF CommitFails, StreamTypeOK, Clients
    <2>1. StreamTypeOK'
      BY <1>0, <1>5, <2>0 DEF CommitFails, StreamTypeOK, FillPc, SlotPc
    <2>2. SlotInv'
      BY <1>0, <1>5, SlotsKept DEF CommitFails, SlotPc
    <2>3. Others(f)
      BY <1>0, <1>5, <2>0 DEF CommitFails, Others, StreamTypeOK
    <2>4. FillInv(f)'
      BY <1>0, <1>5, <2>0
         DEF CommitFails, StreamTypeOK, FillInv, EndsInv, DataInv, CleanInv,
             Undisturbed, PullPc, Decided
    <2> QED
      BY <2>1, <2>2, <2>3, <2>4 DEF Kept
  <1>6. ASSUME EndStream(f) PROVE Kept(f)
    <2>1. StreamTypeOK'
      BY <1>0, <1>6 DEF EndStream, StreamTypeOK, FillPc, SlotPc
    <2>2. SlotInv'
      BY <1>0, <1>6, SlotsKept DEF EndStream, SlotPc
    <2>3. Others(f)
      BY <1>0, <1>6 DEF EndStream, Others, StreamTypeOK
    <2>4. FillInv(f)'
      BY <1>0, <1>6
         DEF EndStream, StreamTypeOK, FillInv, EndsInv, DataInv, CleanInv,
             Undisturbed, PullPc, Decided
    <2> QED
      BY <2>1, <2>2, <2>3, <2>4 DEF Kept
  <1>7. ASSUME CloseBody(f) PROVE Kept(f)
    <2>5. /\ SlotInv' /\ free' \in Nat /\ queue' \in Seq(Fill)
          /\ pc' \in [Fill -> FillPc] /\ pc'[f] = "done"
          /\ \A g \in Fill \ {f} : pc'[g] = pc[g] \/ (pc[g] = "queued" /\ pc'[g] = "granted")
      BY <1>0, <1>7, SlotReleased DEF CloseBody, FillPc, SlotPc
    <2>1. StreamTypeOK'
      BY <1>0, <1>7, <2>5 DEF CloseBody, StreamTypeOK, FillPc, SlotPc
    <2>2. SlotInv'
      BY <2>5
    <2>3. Others(f)
      BY <1>0, <1>7, <2>5 DEF CloseBody, Others, StreamTypeOK
    <2>4. FillInv(f)'
      BY <1>0, <1>7, <2>5
         DEF CloseBody, StreamTypeOK, FillInv, EndsInv, DataInv, CleanInv,
             Undisturbed, PullPc, Decided
    <2> QED
      BY <2>1, <2>2, <2>3, <2>4 DEF Kept
  <1> QED
    BY <1>1, <1>2, <1>3, <1>4, <1>5, <1>6, <1>7

\* The handler's copy, and the client.
LEMMA ClientKept ==
  ASSUME StreamInv, NEW f \in Fill
  PROVE  /\ Send(f) => Kept(f)
         /\ SendFails(f) => Kept(f)
         /\ StreamEnds(f) => Kept(f)
         /\ Disconnect(f) => Kept(f)
         /\ Stall(f) => Kept(f)
  <1> USE DEF At, Goto, node, sem, request, data, shared, Returned
  <1>0. StreamTypeOK /\ SlotInv /\ FillInv(f)
    BY DEF StreamInv
  <1>1. ASSUME Send(f) PROVE Kept(f)
    <2>1. StreamTypeOK'
      BY <1>0, <1>1 DEF Send, StreamTypeOK, FillPc, SlotPc
    <2>2. SlotInv'
      BY <1>0, <1>1, SlotsUntouched DEF Send
    <2>3. Others(f)
      BY <1>0, <1>1 DEF Send, Others, StreamTypeOK
    <2>4. FillInv(f)'
      BY <1>0, <1>1
         DEF Send, StreamTypeOK, FillInv, EndsInv, DataInv, CleanInv,
             Undisturbed, PullPc, Decided
    <2> QED
      BY <2>1, <2>2, <2>3, <2>4 DEF Kept
  <1>2. ASSUME SendFails(f) PROVE Kept(f)
    <2>1. StreamTypeOK'
      BY <1>0, <1>2 DEF SendFails, StreamTypeOK, FillPc, SlotPc, Return
    <2>2. SlotInv'
      BY <1>0, <1>2, SlotsUntouched DEF SendFails, Return
    <2>3. Others(f)
      BY <1>0, <1>2 DEF SendFails, Others, StreamTypeOK, Return
    <2>4. FillInv(f)'
      BY <1>0, <1>2
         DEF SendFails, StreamTypeOK, FillInv, EndsInv, DataInv, CleanInv,
             Undisturbed, PullPc, Decided, Return
    <2> QED
      BY <2>1, <2>2, <2>3, <2>4 DEF Kept
  <1>3. ASSUME StreamEnds(f) PROVE Kept(f)
    <2>1. StreamTypeOK'
      BY <1>0, <1>3 DEF StreamEnds, StreamTypeOK, FillPc, SlotPc, Return
    <2>2. SlotInv'
      BY <1>0, <1>3, SlotsUntouched DEF StreamEnds, Return
    <2>3. Others(f)
      BY <1>0, <1>3 DEF StreamEnds, Others, StreamTypeOK, Return
    <2>4. FillInv(f)'
      BY <1>0, <1>3
         DEF StreamEnds, StreamTypeOK, FillInv, EndsInv, DataInv, CleanInv,
             Undisturbed, PullPc, Decided, Return
    <2> QED
      BY <2>1, <2>2, <2>3, <2>4 DEF Kept
  <1>4. ASSUME Disconnect(f) PROVE Kept(f)
    <2>1. StreamTypeOK'
      BY <1>0, <1>4 DEF Disconnect, StreamTypeOK, FillPc, SlotPc, Active
    <2>2. SlotInv'
      BY <1>0, <1>4, SlotsUntouched DEF Disconnect, Active
    <2>3. Others(f)
      BY <1>0, <1>4 DEF Disconnect, Others, StreamTypeOK, Active
    <2>4. FillInv(f)'
      BY <1>0, <1>4
         DEF Disconnect, StreamTypeOK, FillInv, EndsInv, DataInv, CleanInv,
             Undisturbed, PullPc, Decided, Active
    <2> QED
      BY <2>1, <2>2, <2>3, <2>4 DEF Kept
  <1>5. ASSUME Stall(f) PROVE Kept(f)
    <2>0. faults' \in 0..MaxFaults /\ faults' >= faults
      BY <1>0, <1>5, StreamAssumption DEF Stall, Strike, StreamTypeOK
    <2>1. StreamTypeOK'
      BY <1>0, <1>5, <2>0 DEF Stall, StreamTypeOK, FillPc, SlotPc, Active
    <2>2. SlotInv'
      BY <1>0, <1>5, SlotsUntouched DEF Stall, Active
    <2>3. Others(f)
      BY <1>0, <1>5, <2>0 DEF Stall, Others, StreamTypeOK, Active
    <2>4. FillInv(f)'
      BY <1>0, <1>5, <2>0
         DEF Stall, StreamTypeOK, FillInv, EndsInv, DataInv, CleanInv,
             Undisturbed, PullPc, Decided, Active
    <2> QED
      BY <2>1, <2>2, <2>3, <2>4 DEF Kept
  <1> QED
    BY <1>1, <1>2, <1>3, <1>4, <1>5

-----------------------------------------------------------------------------
(* The invariant, and what it says of a node that has started.             *)

LEMMA StreamStepInv ==
  ASSUME StreamInv, NEW f \in Fill,
         Arrive(f) \/ FillStep(f) \/ HandlerStep(f) \/ ClientStep(f)
  PROVE  StreamInv'
  <1>1. Kept(f)
    BY PullKept, AcquireKept, RequestKept, CopyKept, EndKept, ClientKept
       DEF FillStep, HandlerStep, ClientStep
  <1> QED
    BY <1>1, OthersKept

LEMMA NothingArrivedInv ==
  ASSUME NothingArrived, open \subseteq Clients
  PROVE  StreamInv
  <1>1. StreamTypeOK
    BY SizeAssumption, StreamAssumption
       DEF NothingArrived, StreamTypeOK, FillPc, SlotPc, Returned
  <1>2. SlotInv
    <2>1. Holders = {}
      BY DEF Holders, HasSlot, SlotPc, NothingArrived
    <2> QED
      BY <2>1, FS_EmptySet, SizeAssumption DEF SlotInv, NothingArrived
  <1>3. \A f \in Fill : FillInv(f)
    BY StreamAssumption
       DEF NothingArrived, FillInv, EndsInv, DataInv, CleanInv, Undisturbed,
           PullPc, Decided
  <1> QED
    BY <1>1, <1>2, <1>3 DEF StreamInv

LEMMA StreamInvImplies ==
  ASSUME StreamInv
  PROVE  SlotsBalanced /\ PublishedIsWhole /\ EndAfterCommit /\ StreamedIsStored
  <1>1. SlotsBalanced
    BY DEF StreamInv, SlotInv, SlotsBalanced, Holders
  <1>2. PublishedIsWhole
    BY DEF StreamInv, FillInv, DataInv, PublishedIsWhole
  <1>3. EndAfterCommit
    BY DEF StreamInv, FillInv, EndsInv, EndAfterCommit
  <1>4. StreamedIsStored
    BY DEF StreamInv, FillInv, EndsInv, CleanInv, Undisturbed, Decided, StreamedIsStored
  <1> QED
    BY <1>1, <1>2, <1>3, <1>4

LEMMA StreamStutters ==
  ASSUME StreamInv, UNCHANGED svars
  PROVE  StreamInv'
  <1>1. StreamTypeOK' /\ SlotInv'
    BY DEF StreamInv, svars, StreamTypeOK, SlotInv, Holders, HasSlot
  <1>2. \A f \in Fill : FillInv(f)'
    BY DEF StreamInv, svars, FillInv, EndsInv, DataInv, CleanInv, Undisturbed
  <1> QED
    BY <1>1, <1>2 DEF StreamInv

\* A node whose clients stay open keeps all of it, whatever it is asked to do.
THEOREM StreamSafety ==
  StreamSpec => [](SlotsBalanced /\ PublishedIsWhole /\ EndAfterCommit /\ StreamedIsStored)
  <1>1. StreamInit => StreamInv
    BY NothingArrivedInv DEF StreamInit
  <1>2. StreamInv /\ [StreamNext]_svars => StreamInv'
    BY StreamStepInv, StreamStutters DEF StreamNext, StreamStep
  <1> QED
    BY <1>1, <1>2, StreamInvImplies, PTL DEF StreamSpec
=============================================================================
