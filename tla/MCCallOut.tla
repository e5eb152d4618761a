----------------------------- MODULE MCCallOut -----------------------------
(***************************************************************************)
(* Instances of CallOut for TLC, and its properties.                       *)
(***************************************************************************)
EXTENDS CallOut, TLC

\* Delays for model checking, with two clock units to a second.
Whole(d) == <<d, TimeInt>>
Mixed == {Whole(0), Whole(1), <<0, 1>>, Whole(CycSize)}
Near == {Whole(0), Whole(1), <<0, 1>>}
ShortOnly == {Whole(0), Whole(1)}

Symmetry == Permutations(Id)

\* The history variable takes no part in what a table does.
View == <<co, now, cot, sched, phase, ret, wake, events>>

-----------------------------------------------------------------------------
TypeOK ==
  /\ co.size \in NewSizes \cup {TableSize}
  /\ \A i \in DOMAIN co.heap : co.heap[i].time \in Nat /\ co.heap[i].id \in Id
  /\ DOMAIN co.cell = 0 .. co.size - 1
  /\ co.cycbrk \in 0 .. co.size
  /\ DOMAIN co.head = Lists
  /\ now \in 1 .. MaxTime
  /\ cot \in 0 .. MaxTime + MaxLag * SecUnits
  /\ DOMAIN sched = Id
  /\ phase \in Phases
  /\ ret \in {"delay", "receive", "run"}
  /\ wake \in Never .. 2 * MaxTime + CycSize * SecUnits
  /\ events \in 0 .. MaxEvents

\* The heap and the cells never meet, and index 0 is never a cell: it is the
\* null link (newcallout(): "callout table overflow").
NoOverflow == Len(co.heap) <= co.cycbrk /\ co.cycbrk >= 1

\* Every pending call-out is where del() looks for it, so that removing one
\* never scans past the heap (del(): "failed to remove callout").
Findable ==
  \A id \in Pending : Locate(co, id, sched[id]) = Queue => InHeap(co, id)

\* The table holds the pending call-outs and no others, each once.
CountsRight ==
  LET Held(l) == Len(CellsOf(co, l))
      inSlots == FoldLeft(LAMBDA n, l : n + Held(l - 1), 0,
                          [l \in 1 .. CycSize |-> l])
  IN  /\ Cardinality(Pending) = co.nshort + Len(co.heap)
      /\ co.nshort = co.nzero + inSlots
      /\ co.nzero = Held(Running) + Held(Immediate)

\* The free list is exactly the unused cells above cycbrk, linked both ways,
\* and none of them is at the edge.
FreeListRight ==
  LET free == Chain(co.cell, co.flist)
  IN  /\ {free[n] : n \in DOMAIN free}
           = {i \in co.cycbrk .. co.size - 1 : co.cell[i].id = NoId}
      /\ \A n \in 2 .. Len(free) : co.cell[free[n]].prev = free[n - 1]
      /\ \A n \in DOMAIN free : free[n] # co.cycbrk

\* The cells are sound after a restart into a table of another size, too.
CellsRight == TypeOK /\ FreeListRight

\* timeout is the earliest second in use in the cyclic buffer, 0 if none is.
TimeoutIsFirst ==
  LET used == {t \in co.timestamp + 1 .. co.timestamp + CycSize - 1 :
                 co.head[t % CycSize] # 0}
  IN  /\ used = {} => co.timeout = 0
      /\ used # {} => co.timeout \in used /\ \A t \in used : co.timeout <= t

\* The table is sound: heap and cells are apart, every call-out is in it once
\* and where del() looks for it, and counts and cached times are those of what
\* it holds.
TableRight == NoOverflow /\ Findable /\ CountsRight /\ TimeoutIsFirst

\* The loop never sleeps past a call-out: while it waits for input, the time
\* it gives up is not after the time at which the first one is due
\* (Changelog: "If the time was set back during callout processing, it was
\* possible for the next callout never to be started").
Due(id) ==
  LET s == sched[id]
  IN  IF s.t = 0 THEN 0
      ELSE s.t * SecUnits + (IF s.m = TimeInt THEN 0 ELSE s.m)

NoOversleep ==
  phase = "receive" /\ Pending # {} =>
    wake # Never /\ \A id \in Pending : wake <= Due(id) \/ wake <= now

\* remaining() tells a task how long it is until a waiting call-out is due.
RemainingIsDue ==
  cot # 0 =>
    \A id \in Pending :
      LET s == sched[id]
          r == Remaining(s, cot)
          exact == r.sec * SecUnits + (IF r.m = TimeInt THEN 0 ELSE r.m)
          whole == (r.sec + Second(cot)) * SecUnits
      IN  IF Due(id) <= cot THEN exact = 0
          ELSE IF s.m = TimeInt THEN whole = Due(id)
                                ELSE cot + exact = Due(id)

\* Call-outs run in the order in which they are due, whichever structures
\* they were kept in (Changelog: "Two callouts started during the same thread
\* will now always be executed in the proper order").
Order == [n \in DOMAIN CellsOf(co, Running) |-> co.cell[CellsOf(co, Running)[n]].id]

Behind == Pending \ {Order[n] : n \in DOMAIN Order}

RunsInDueOrder ==
  /\ \A i, j \in DOMAIN Order :
       i < j /\ Due(Order[i]) # 0 => Due(Order[i]) <= Due(Order[j])
  /\ \A i \in DOMAIN Order, id \in Behind :
       Due(id) # 0 => Due(Order[i]) <= Due(id)

\* The table does what the call-out subsystem promises, for every order of
\* starts, removals, expiry passes, clock set-backs and restarts.
Ready == {co.cell[i].id : i \in ToSet(CellsOf(co, Running) \o CellsOf(co, Immediate))}

Status == LET ready == Ready
          IN  [id \in Id |-> IF id \notin Pending THEN "free"
                             ELSE IF id \in ready THEN "ready" ELSE "waiting"]

Promise == INSTANCE CallOutSpec WITH
  Time <- 0 .. MaxTime + (CycSize + MaxLag + 1) * SecUnits,
  status <- Status,
  due <- [id \in Id |-> Due(id)],
  clock <- now,
  seen <- seen

KeepsPromise == Promise!Spec

\* What is started runs: a call-out that is due while the clock runs is run
\* or removed, however the tasks and the loop interleave.
EveryCallOutRuns ==
  \A id \in Id :
    [](id \in Pending /\ Due(id) <= MaxTime => <>(id \notin Pending))
=============================================================================
