------------------------- MODULE MCAtomicCallOuts -------------------------
(***************************************************************************)
(* Instances of AtomicCallOuts for TLC, and its properties.                *)
(***************************************************************************)
EXTENDS AtomicCallOuts, TLC

\* Delays for model checking.
Whole(d) == <<d, TimeInt>>
Mixed == {Whole(0), Whole(1), <<0, 1>>}
ShortOnly == {Whole(0), Whole(1)}

Symmetry == Permutations(Id)

\* The history variable takes no part in what a table does.
View == <<co, now, cot, sched, phase, ret, wake, events, patch, atomic>>

\* What the table has for id: the dataspace's call-out, or the one that a patch
\* is to take out of it.
InTable(id) == IF patch[id] = NoPatch THEN sched[id] ELSE patch[id].old

\* The dataspaces and the table agree: each call-out that the table should have
\* is in it at the time that its object has for it, and where del() will look
\* for it, at every step of a commit or a rollback, however late the task is.
Agrees ==
  \A id \in Id :
    LET s == InTable(id)
        l == Locate(co, id, s)
    IN  IF s = NotSet
          THEN ~InHeap(co, id) /\ \A k \in Lists : ~InList(co, k, id)
          ELSE l = Queue =>
                 \E i \in DOMAIN co.heap :
                   /\ co.heap[i].id = id
                   /\ co.heap[i].time = s.t * SecUnits
                                          + (IF s.m = TimeInt THEN 0 ELSE s.m)

\* The table has each of those call-outs once, and its counts are right.
CountsRight ==
  LET Held(l) == Len(CellsOf(co, l))
      inSlots == FoldLeft(LAMBDA n, l : n + Held(l - 1), 0,
                          [l \in 1 .. CycSize |-> l])
  IN  /\ Cardinality({id \in Id : InTable(id) # NotSet}) = co.nshort + Len(co.heap)
      /\ co.nshort = co.nzero + inSlots
      /\ co.nzero = Held(Running) + Held(Immediate)

\* Together: what is committed or put back leaves neither side with a call-out
\* that the other does not have, nor with one twice.
TableAgrees == Agrees /\ CountsRight

\* check() leaves room in the table for what atomic functions have yet to add
\* (newcallout(): "callout table overflow").
NoOverflow == Len(co.heap) <= co.cycbrk /\ co.cycbrk >= 1
=============================================================================
