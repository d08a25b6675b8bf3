----------------------------- MODULE CacheEntry -----------------------------
(***************************************************************************)
(* What the cluster promises about one cache key, with the nodes, the      *)
(* database and the lock service left out: a lifecycle phase, a set of     *)
(* leaders that never has two members, and the readers, which saw the      *)
(* entry ready and look for its object.  Only the leader moves the entry   *)
(* through a fill, it never starts one from ready, and only a reader, one  *)
(* that did not find the object, takes a ready entry away.                 *)
(***************************************************************************)
CONSTANT Req    \* the requests

VARIABLES phase, leaders, readers

vars == <<phase, leaders, readers>>

Init == phase = "missing" /\ leaders = {} /\ readers = {}

Lead(r) == /\ leaders = {}
           /\ leaders' = {r}
           /\ UNCHANGED <<phase, readers>>

StartFill(r) == /\ leaders = {r}
                /\ phase # "ready"
                /\ phase' = "filling"
                /\ UNCHANGED <<leaders, readers>>

Publish(r) == /\ leaders = {r}
              /\ phase = "filling"
              /\ phase' = "ready"
              /\ UNCHANGED <<leaders, readers>>

Fail(r) == /\ leaders = {r}
           /\ phase = "filling"
           /\ phase' = "error"
           /\ UNCHANGED <<leaders, readers>>

Read(r) == /\ phase = "ready"
           /\ readers' = readers \cup {r}
           /\ UNCHANGED <<phase, leaders>>

\* Unconditional: the phase may have changed since the reader saw it.
Demote(r) == /\ r \in readers
             /\ phase' = "filling"
             /\ readers' = readers \ {r}
             /\ UNCHANGED leaders

\* Requests give up the lead or their reading, by returning or by a crash.
Quit(R) == /\ leaders' = leaders \ R
           /\ readers' = readers \ R
           /\ UNCHANGED phase

Next == \/ \E r \in Req : Lead(r) \/ StartFill(r) \/ Publish(r) \/ Fail(r)
                         \/ Read(r) \/ Demote(r)
        \/ \E R \in SUBSET Req : Quit(R)

Spec == Init /\ [][Next]_vars
=============================================================================
