-------------------------- MODULE AtomicCallOuts --------------------------
(***************************************************************************)
(* The main loop and the call-out table of CallOut with tasks that call    *)
(* atomic functions (data.cpp): what they start and remove is kept in      *)
(* patches, with the list that check() chose, and reaches the table when   *)
(* the outermost of them returns.                                          *)
(*                                                                         *)
(* DataCallOuts has the patches of one object with its handles, and nested *)
(* functions; here there is one level of them, and a call-out is that of a *)
(* fixed object and handle.  The patches of objects are committed in the   *)
(* order of their planes and those of one object in the order of a hash    *)
(* table: in any order.                                                    *)
(***************************************************************************)
EXTENDS CallOut

CONSTANTS
  NoPatch       \* no patch

VARIABLES
  patch,        \* the patches of the plane: the call-out's place in the table
                \* that is added, or Gone, and what it was, or NotSet
  atomic        \* "none", in an atomic function ("run"), or the loop that
                \* goes on: "commit", "discard"

atomicVars == <<patch, atomic>>

Gone == [list |-> Queue, t |-> 0, m |-> 0]

AtomicInit ==
  /\ Init
  /\ patch = [id \in Id |-> NoPatch]
  /\ atomic = "none"

Patches == {id \in Id : patch[id] # NoPatch}

\* ncallout: call-outs still to be added to the table (DataCallOuts!CountRight).
Extra ==
  Cardinality({id \in Patches : patch[id].old = NotSet})
    - Cardinality({id \in Patches : patch[id].new = Gone})

\* A task calls an atomic function.
Enter ==
  /\ phase = "task" /\ atomic = "none"
  /\ atomic' = "run"
  /\ UNCHANGED <<vars, patch>>

\* newCallOut() in an atomic function.
StartAtomic(id, delay, mdelay) ==
  /\ atomic = "run"
  /\ id \notin Pending
  /\ ~TooMany(co, Extra)
  /\ LET ct == CoTime(co, now, cot)
         timed == \/ delay # 0 \/ mdelay \notin {0, TimeInt}
                  \/ (co.nshort = 0 /\ co.heap = <<>> /\ Extra = 0)
         c == IF timed THEN ct.table ELSE co
         p == Place(c, ct.time, delay, mdelay)
         old == IF patch[id] = NoPatch THEN NotSet ELSE patch[id].old
     IN  /\ co' = c
         /\ cot' = IF timed THEN ct.time ELSE cot
         /\ sched' = [sched EXCEPT ![id] = [t |-> p.t, m |-> p.m]]
         /\ patch' = [patch EXCEPT ![id] = [new |-> p, old |-> old]]
  /\ UNCHANGED <<now, phase, ret, wake, seen, events, atomic>>

\* delCallOut() in an atomic function: remaining(), and a patch for what is in
\* the table.
RemoveAtomic(id) ==
  /\ atomic = "run"
  /\ id \in Pending
  /\ LET ct == CoTime(co, now, cot)
         old == IF patch[id] = NoPatch THEN sched[id] ELSE patch[id].old
     IN  /\ co' = ct.table
         /\ cot' = ct.time
         /\ patch' = [patch EXCEPT ![id] =
                        IF old = NotSet THEN NoPatch ELSE [new |-> Gone, old |-> old]]
  /\ sched' = [sched EXCEPT ![id] = NotSet]
  /\ UNCHANGED <<now, phase, ret, wake, seen, events, atomic>>

AskAtomic == atomic = "run" /\ Ask /\ UNCHANGED atomicVars

\* The function returns, or fails.
Return ==
  /\ atomic = "run"
  /\ atomic' = "commit"
  /\ UNCHANGED <<vars, patch>>

Fail ==
  /\ atomic = "run"
  /\ atomic' = "discard"
  /\ UNCHANGED <<vars, patch>>

\* The table once patch p of id is committed: del(), then create().
Committed(p, id) ==
  LET c == IF p.old = NotSet THEN co ELSE Del(co, id, p.old)
  IN  IF p.new = Gone THEN c ELSE Create(c, id, p.new)

\* commitCallouts(), one patch.
CommitPatch(id) ==
  /\ atomic = "commit"
  /\ patch[id] # NoPatch
  /\ co' = Committed(patch[id], id)
  /\ patch' = [patch EXCEPT ![id] = NoPatch]
  /\ UNCHANGED <<now, cot, sched, phase, ret, wake, seen, events, atomic>>

\* What the dataspace has again once patch p is discarded.
RestartedNow(p) ==   \* mutant: the time is not that of the call-out in the table
  IF p.old = NotSet THEN NotSet
  ELSE [p.old EXCEPT !.t = IF p.old.t = 0 THEN 0 ELSE Second(now) + 1]

Restored(p) == p.old

\* discardCallouts(), one patch: the table is not involved.
DiscardPatch(id) ==
  /\ atomic = "discard"
  /\ patch[id] # NoPatch
  /\ sched' = [sched EXCEPT ![id] = Restored(patch[id])]
  /\ patch' = [patch EXCEPT ![id] = NoPatch]
  /\ UNCHANGED <<co, now, cot, phase, ret, wake, seen, events, atomic>>

Leave ==
  /\ atomic \in {"commit", "discard"}
  /\ Patches = {}
  /\ atomic' = "none"
  /\ UNCHANGED <<vars, patch>>

AtomicNext ==
  \/ atomic = "none" /\ Next /\ UNCHANGED atomicVars
  \/ Enter
  \/ \E id \in Id, d \in Delays : StartAtomic(id, d[1], d[2])
  \/ \E id \in Id : RemoveAtomic(id) \/ CommitPatch(id) \/ DiscardPatch(id)
  \/ AskAtomic \/ Return \/ Fail \/ Leave
  \/ atomic # "none" /\ (Tick \/ SetBack) /\ UNCHANGED atomicVars

AtomicSpec == AtomicInit /\ [][AtomicNext]_<<vars, atomicVars>>
=============================================================================
