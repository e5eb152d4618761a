---------------------------- MODULE AtomicStore ----------------------------
(***************************************************************************)
(* What atomic functions promise for a part of the state, the call-outs of *)
(* an object or the table of objects: a store with nested transactions.    *)
(* An atomic function that ends keeps what it did; one that fails leaves   *)
(* the store exactly as it found it.                                       *)
(***************************************************************************)
EXTENDS Integers

CONSTANTS
  Key,          \* handles of call-outs, names of objects
  Value,        \* call-outs, objects
  None          \* nothing with that key

VARIABLES
  store,        \* store[k]: what there is with key k, or None
  depth,        \* number of atomic functions that have not ended
  saved         \* saved[d]: the store as the d-th of them found it

vars == <<store, depth, saved>>

Stores == [Key -> Value \cup {None}]

Init ==
  /\ store = [k \in Key |-> None]
  /\ depth = 0
  /\ saved = [d \in 1 .. 0 |-> store]

Put(k, v) ==
  /\ store[k] = None
  /\ store' = [store EXCEPT ![k] = v]
  /\ UNCHANGED <<depth, saved>>

Delete(k) ==
  /\ store[k] # None
  /\ store' = [store EXCEPT ![k] = None]
  /\ UNCHANGED <<depth, saved>>

Begin ==
  /\ depth' = depth + 1
  /\ saved' = [d \in 1 .. depth + 1 |-> IF d = depth + 1 THEN store ELSE saved[d]]
  /\ UNCHANGED store

Commit ==
  /\ depth > 0
  /\ depth' = depth - 1
  /\ saved' = [d \in 1 .. depth - 1 |-> saved[d]]
  /\ UNCHANGED store

Abort ==
  /\ depth > 0
  /\ depth' = depth - 1
  /\ saved' = [d \in 1 .. depth - 1 |-> saved[d]]
  /\ store' = saved[depth]

Next ==
  \/ \E k \in Key : (\E v \in Value : Put(k, v)) \/ Delete(k)
  \/ Begin \/ Commit \/ Abort

Spec == Init /\ [][Next]_vars
=============================================================================
