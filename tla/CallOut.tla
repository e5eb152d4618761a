------------------------------ MODULE CallOut ------------------------------
(***************************************************************************)
(* The call-out subsystem (call_out.cpp) under the main loop of dgd.cpp:   *)
(* tasks that start, remove and query call-outs, the loop that sleeps,     *)
(* collects what has expired and runs it, a clock that may be set back,    *)
(* and a snapshot that is restored with a call-out table of another size.  *)
(*                                                                         *)
(* The loop is one thread.  What interleaves is the order of tasks and of  *)
(* loop steps, and the wall clock, which moves at any point of either.     *)
(***************************************************************************)
EXTENDS CallOutTable, FiniteSets

CONSTANTS
  Id,           \* call-outs; NoId is not one of them
  TableSize,    \* cotabsz at the start
  NewSizes,     \* sizes the table may have after a restart
  Delays,       \* pairs <<delay, mdelay>>; mdelay is TimeInt for whole seconds
  FirstTime,    \* clock at the start: a whole second at least
  MaxTime,      \* bound on the clock
  MaxEvents     \* bound on clock set-backs and restarts together

VARIABLES
  co,           \* the table
  now,          \* P_mtime() - timediff, in clock units
  cot,          \* cotime and comtime, as one time; 0 when not cached
  sched,        \* time and mtime as kept by the dataspace, or NotSet
  phase,        \* where the loop is: see Phases
  ret,          \* where the loop continues when the present task ends
  wake,         \* when Comm::receive() gives up waiting; Never for no limit
  seen,         \* history: the latest clock on which expire() has acted
  events        \* clock set-backs and restarts so far

vars == <<co, now, cot, sched, phase, ret, wake, seen, events>>

Phases == {"delay", "receive", "call", "run", "task"}
Never == -1
NotSet == [t |-> 0, m |-> 0]    \* no call-out: an immediate one has m = TimeInt

Second(t) == t \div SecUnits
Unit(t) == t % SecUnits
Pending == {id \in Id : sched[id] # NotSet}

-----------------------------------------------------------------------------
(* Operations of call_out.cpp on a table c, at clock value n, with k cached *)

\* cotime(): the table (timestamp may advance) and the time.
CoTime(c, n, k) ==
  LET t == Second(n)
      stamp == CASE t <= c.timestamp \/ c.head[Running] # 0 -> c.timestamp
                 [] c.timeout = 0 \/ c.timeout > t -> t
                 [] c.timestamp < c.timeout /\ c.timeout <= t -> c.timeout - 1
                 [] OTHER -> c.timestamp
      time == CASE t < c.timestamp -> c.timestamp * SecUnits
                [] t > stamp + MaxLag -> (stamp + MaxLag) * SecUnits
                [] OTHER -> n
  IN  IF k # 0 THEN [table |-> c, time |-> k]
               ELSE [table |-> [c EXCEPT !.timestamp = stamp], time |-> time]

\* check(): no room for another call-out when extra are still to be added.
TooMany(c, extra) ==
  LET n == extra % IndexMod
  IN  Len(c.heap) + n = c.cycbrk \/ c.cycbrk - n = 1

\* check(): where a call-out goes; list, time and mtime.
Place(c, time, delay, mdelay) ==
  LET sum == Unit(time) + mdelay
      t == Second(time) + delay + (IF mdelay # TimeInt THEN sum \div SecUnits
                                                       ELSE 0)
  IN  CASE delay = 0 /\ mdelay \in {0, TimeInt} ->
             [list |-> Immediate, t |-> 0, m |-> TimeInt]
        [] mdelay = TimeInt /\ delay # 0 /\ t < c.timestamp + CycSize ->
             [list |-> t % CycSize, t |-> t, m |-> TimeInt]
        [] OTHER ->
             [list |-> Queue, t |-> t,
              m |-> IF mdelay = TimeInt THEN TimeInt ELSE sum % SecUnits]

\* create(): the heap keeps a long-term call-out as due at the full second.
Create(c, id, p) ==
  IF p.list = Queue
    THEN Enqueue(c, p.t * SecUnits + (IF p.m = TimeInt THEN 0 ELSE p.m), id)
    ELSE NewCallout(c, p.list, p.t, id)

\* The list in which del() finds the call-out, else Queue.
Locate(c, id, s) ==
  IF /\ s.m = TimeInt
     /\ s.t > c.timestamp
     /\ s.t < c.timestamp + CycSize
     /\ InList(c, s.t % CycSize, id)
    THEN s.t % CycSize
    ELSE IF s.t <= c.timestamp /\ InList(c, Immediate, id) THEN Immediate
    ELSE IF s.t <= c.timestamp /\ InList(c, Running, id) THEN Running
    ELSE Queue

InHeap(c, id) == \E i \in DOMAIN c.heap : c.heap[i].id = id

\* del()
Del(c, id, s) ==
  LET l == Locate(c, id, s)
  IN  IF l = Queue
        THEN Dequeue(c, CHOOSE i \in DOMAIN c.heap :
                          c.heap[i].id = id /\ \A j \in 1 .. i - 1 : c.heap[j].id # id)
        ELSE RemoveShort(c, l, id, IF l \in Slots THEN s.t ELSE 0)

\* Mutant: no second is borrowed for the milliseconds.
RemainingNoBorrow(s, time) ==
  LET t == Second(time)
      u == Unit(time)
  IN  CASE s.t = 0 \/ s.t < t -> [sec |-> 0, m |-> TimeInt]
        [] s.t # 0 /\ s.t >= t /\ s.m = TimeInt -> [sec |-> s.t - t, m |-> TimeInt]
        [] s.t = t /\ s.m # TimeInt ->
             [sec |-> 0, m |-> IF s.m > u THEN s.m - u ELSE TimeInt]
        [] OTHER -> [sec |-> s.t - t, m |-> IF s.m < u THEN s.m + SecUnits - u
                                                       ELSE s.m - u]

\* remaining(): seconds and mtime before s is due when cotime() is time.
Remaining(s, time) ==
  LET t == Second(time)
      u == Unit(time)
  IN  CASE s.t = 0 \/ s.t < t -> [sec |-> 0, m |-> TimeInt]
        [] s.t # 0 /\ s.t >= t /\ s.m = TimeInt -> [sec |-> s.t - t, m |-> TimeInt]
        [] s.t = t /\ s.m # TimeInt ->
             [sec |-> 0, m |-> IF s.m > u THEN s.m - u ELSE TimeInt]
        [] OTHER -> IF s.m < u THEN [sec |-> s.t - 1 - t, m |-> s.m + SecUnits - u]
                               ELSE [sec |-> s.t - t, m |-> s.m - u]

RECURSIVE Drain(_, _)
\* Move heap entries earlier than limit to the immediate list.
Drain(c, limit) ==
  IF c.heap = <<>> \/ c.heap[1].time >= limit THEN c
  ELSE Drain(NewCallout(Dequeue(c, 1), Immediate, 0, c.heap[1].id), limit)

\* Mutant: heap entries of the second itself go before its slot.
RECURSIVE AdvanceHeapFirst(_, _)
AdvanceHeapFirst(c, t) ==
  IF c.timestamp >= t THEN c
  ELSE LET s == c.timestamp + 1
           drained == Drain([c EXCEPT !.timestamp = s], (s + 1) * SecUnits)
       IN  AdvanceHeapFirst(Splice(drained, s % CycSize), t)

RECURSIVE Advance(_, _)
\* Advance timestamp to second t, one second at a time.
Advance(c, t) ==
  IF c.timestamp >= t THEN c
  ELSE LET s == c.timestamp + 1
           drained == Drain([c EXCEPT !.timestamp = s], s * SecUnits)
       IN  Advance(Splice(drained, s % CycSize), t)

\* Mutant: timeout is left at a slot that has been emptied.
ExpiredStaleTimeout(c, n) ==
  IF \/ c.timeout # 0 /\ c.timeout <= Second(n)
     \/ c.heap # <<>> /\ c.heap[1].time <= n
    THEN Drain(Advance(c, Second(n)), n + 1)
    ELSE c

\* Mutant: milliseconds are not compared.
ExpiredEarly(c, n) ==
  LET t == Second(n)
      due == \/ c.timeout # 0 /\ c.timeout <= t
             \/ c.heap # <<>> /\ c.heap[1].time <= n
      all == Drain(Advance(c, t), (t + 1) * SecUnits)
  IN  IF ~due THEN c
      ELSE [all EXCEPT !.timeout = IF @ <= all.timestamp
                                     THEN TimeoutFrom(all, all.timestamp)
                                     ELSE @]

\* expire(): collect the call-outs due at clock n into the immediate list.
Expired(c, n) ==
  LET t == Second(n)
      due == \/ c.timeout # 0 /\ c.timeout <= t
             \/ c.heap # <<>> /\ c.heap[1].time <= n
      all == Drain(Advance(c, t), n + 1)
  IN  IF ~due THEN c
      ELSE [all EXCEPT !.timeout = IF @ <= all.timestamp
                                     THEN TimeoutFrom(all, all.timestamp)
                                     ELSE @]

\* Mutant: the heap is looked at only when the cyclic buffer is empty.
WakeSlotsFirst(c, rtime) ==
  LET times == (IF rtime # 0 THEN {rtime} ELSE {})
                 \cup (CASE c.timeout # 0 -> {c.timeout * SecUnits}
                         [] c.timeout = 0 /\ c.heap # <<>> -> {c.heap[1].time}
                         [] OTHER -> {})
  IN  CASE c.nzero # 0 -> 0
        [] c.nzero = 0 /\ times = {} -> Never
        [] OTHER -> CHOOSE x \in times : \A y \in times : x <= y

\* Mutant: the heap is not looked at.
WakeNoHeap(c, rtime) ==
  LET times == (IF rtime # 0 THEN {rtime} ELSE {})
                 \cup (IF c.timeout # 0 THEN {c.timeout * SecUnits} ELSE {})
  IN  CASE c.nzero # 0 -> 0
        [] c.nzero = 0 /\ times = {} -> Never
        [] OTHER -> CHOOSE x \in times : \A y \in times : x <= y

\* delay(): the time to wake up at, Never for no limit, 0 for at once;
\* rtime is the time a rebuild of the swap file asks for, 0 for none.
Wake(c, rtime) ==
  LET times == (IF rtime # 0 THEN {rtime} ELSE {})
                 \cup (IF c.timeout # 0 THEN {c.timeout * SecUnits} ELSE {})
                 \cup (IF c.heap # <<>> THEN {c.heap[1].time} ELSE {})
  IN  CASE c.nzero # 0 -> 0
        [] c.nzero = 0 /\ times = {} -> Never
        [] OTHER -> CHOOSE x \in times : \A y \in times : x <= y

\* Mutant: the free list is not patched.
RestoreOldFlist(c, size) ==
  LET offset == size - c.size
      Move(i) == IF i = 0 THEN 0 ELSE i + offset
      cell == [i \in 0 .. size - 1 |->
                IF i < c.cycbrk + offset THEN Blank
                ELSE [c.cell[i - offset] EXCEPT !.prev = Move(@),
                                                !.next = Move(@)]]
      d == [c EXCEPT !.size = size, !.cycbrk = @ + offset, !.cell = cell,
                     !.head = [l \in Lists |-> Move(@[l])], !.timeout = 0]
  IN  [d EXCEPT !.timeout = TimeoutFrom(d, d.timestamp)]

\* restore() of table c into a table of another size: indices move.
Restore(c, size) ==
  LET offset == size - c.size
      Move(i) == IF i = 0 THEN 0 ELSE i + offset
      cycbrk == (c.cycbrk + offset) % IndexMod
      cell == [i \in 0 .. size - 1 |->
                IF i < cycbrk THEN Blank
                ELSE [c.cell[i - offset] EXCEPT !.prev = Move(@),
                                                !.next = Move(@)]]
      head == [l \in Lists |-> Move(c.head[l])]
      Count(l) == IF head[l] = 0 THEN 0 ELSE cell[head[l]].count
      d == [c EXCEPT !.size = size, !.cycbrk = cycbrk, !.cell = cell,
                     !.flist = Move(@), !.head = head,
                     !.nzero = Count(Running) + Count(Immediate),
                     !.timeout = 0]
  IN  [d EXCEPT !.timeout = TimeoutFrom(d, d.timestamp)]

\* restore() rejects a snapshot that does not fit.
Restorable(c, size) ==
  LET cycbrk == (c.cycbrk + size - c.size) % IndexMod
  IN  ~(Len(c.heap) > cycbrk \/ cycbrk = 0)

-----------------------------------------------------------------------------
(* The main loop and its tasks *)

Init ==
  /\ co = EmptyTable(TableSize)
  /\ now = FirstTime
  /\ cot = 0
  /\ sched = [id \in Id |-> NotSet]
  /\ phase = "delay"
  /\ ret = "delay"
  /\ wake = 0
  /\ seen = 0
  /\ events = 0

\* DGD::main(): the time to wait for input, with rtime from the rebuild of
\* the swap file; returning early, delay() leaves a cached time alone.
Sleep(rtime) ==
  /\ phase = "delay"
  /\ phase' = "receive"
  /\ LET at == Wake(co, rtime)
         ct == CoTime(co, now, cot)
     IN  IF at \in {0, Never}
           THEN wake' = at /\ UNCHANGED <<co, cot>>
           ELSE /\ wake' = IF ct.time >= at THEN 0 ELSE now + at - ct.time
                /\ co' = ct.table
                /\ cot' = 0
  /\ UNCHANGED <<now, sched, ret, seen, events>>

\* An interrupt before delay(), or input in Comm::receive(), starts a task.
StartTask ==
  /\ phase \in {"delay", "receive"}
  /\ phase' = "task"
  /\ ret' = phase
  /\ wake' = 0
  /\ UNCHANGED <<co, now, cot, sched, seen, events>>

\* Comm::receive() returns: its time is up, or there was input.
Timeout ==
  /\ phase = "receive"
  /\ wake # Never /\ wake <= now
  /\ phase' = "call"
  /\ UNCHANGED <<co, now, cot, sched, ret, wake, seen, events>>

\* call(): collect call-outs, unless there are some left to run.
Call ==
  /\ phase = "call"
  /\ phase' = "run"
  /\ LET c == Expired(co, now)
     IN  IF co.head[Running] # 0
           THEN UNCHANGED <<co, seen>>
           ELSE /\ co' = [c EXCEPT !.head = [@ EXCEPT ![Running] = c.head[Immediate],
                                                     ![Immediate] = 0]]
                /\ seen' = IF now > seen THEN now ELSE seen
  /\ UNCHANGED <<now, cot, sched, ret, wake, events>>

\* call(): take the first running call-out from the table and start its task.
RunFirst ==
  /\ phase = "run"
  /\ co.head[Running] # 0
  /\ LET i == co.head[Running]
     IN  /\ co' = FreeCallout(co, Running, i, i, 0)
         /\ sched' = [sched EXCEPT ![co.cell[i].id] = NotSet]
  /\ phase' = "task"
  /\ ret' = "run"
  /\ UNCHANGED <<now, cot, wake, seen, events>>

AllRun ==
  /\ phase = "run"
  /\ co.head[Running] = 0
  /\ phase' = "delay"
  /\ UNCHANGED <<co, now, cot, sched, ret, wake, seen, events>>

\* A task starts a call-out.
StartCallOut(id, delay, mdelay) ==
  /\ phase = "task"
  /\ id \notin Pending
  /\ ~TooMany(co, 0)
  /\ LET ct == CoTime(co, now, cot)
         timed == \/ delay # 0 \/ mdelay \notin {0, TimeInt}
                  \/ (co.nshort = 0 /\ co.heap = <<>>)
         c == IF timed THEN ct.table ELSE co
         p == Place(c, ct.time, delay, mdelay)
     IN  /\ co' = Create(c, id, p)
         /\ cot' = IF timed THEN ct.time ELSE cot
         /\ sched' = [sched EXCEPT ![id] = [t |-> p.t, m |-> p.m]]
  /\ UNCHANGED <<now, phase, ret, wake, seen, events>>

\* A task asks for the time left, as remaining() does.
Ask ==
  /\ phase = "task"
  /\ co' = CoTime(co, now, cot).table
  /\ cot' = CoTime(co, now, cot).time
  /\ UNCHANGED <<now, sched, phase, ret, wake, seen, events>>

\* A task removes a call-out: remaining(), then del().
RemoveCallOut(id) ==
  /\ phase = "task"
  /\ id \in Pending
  /\ LET ct == CoTime(co, now, cot)
     IN  /\ co' = Del(ct.table, id, sched[id])
         /\ cot' = ct.time
  /\ sched' = [sched EXCEPT ![id] = NotSet]
  /\ UNCHANGED <<now, phase, ret, wake, seen, events>>

\* endTask(): the cached time is dropped.
EndTask ==
  /\ phase = "task"
  /\ cot' = 0
  /\ phase' = ret
  /\ UNCHANGED <<co, now, sched, ret, wake, seen, events>>

\* endTask() of a task that made a snapshot and stopped DGD, and a restart
\* from it: save(), restore(), and the task of the driver's restored().
Restart(size) ==
  /\ phase = "task"
  /\ events < MaxEvents
  /\ LET saved == CoTime(co, now, 0).table
     IN  /\ Restorable(saved, size)
         /\ co' = Restore(saved, size)
         /\ \E u \in 0 .. SecUnits - 1 : now' = saved.timestamp * SecUnits + u
         /\ now' <= MaxTime
  /\ cot' = 0
  /\ wake' = 0
  /\ ret' = "delay"
  /\ events' = events + 1
  /\ UNCHANGED <<sched, phase, seen>>

Tick ==
  /\ now < MaxTime
  /\ now' = now + 1
  /\ UNCHANGED <<co, cot, sched, phase, ret, wake, seen, events>>

\* The wall clock is set back; what is left of a wait stays the same.
SetBack ==
  /\ events < MaxEvents
  /\ \E d \in 1 .. now - 1 :
       /\ now' = now - d
       /\ wake' = CASE wake > d -> wake - d
                    [] wake \in 0 .. d -> 0
                    [] OTHER -> Never
  /\ events' = events + 1
  /\ UNCHANGED <<co, cot, sched, phase, ret, seen>>

RebuildTimes == {0} \cup {(Second(now) + 1) * SecUnits}

Next ==
  \/ \E rtime \in RebuildTimes : Sleep(rtime)
  \/ StartTask \/ Timeout \/ Call \/ RunFirst \/ AllRun
  \/ \E id \in Id, d \in Delays : StartCallOut(id, d[1], d[2])
  \/ \E id \in Id : RemoveCallOut(id)
  \/ Ask \/ EndTask
  \/ \E size \in NewSizes : Restart(size)
  \/ Tick \/ SetBack

Spec == Init /\ [][Next]_vars

\* The loop and its tasks go on and the clock runs.  A step of the loop is
\* named by the phases it goes from and to, which tell it from every other.
\* Comm::receive() handles each connection once and an interrupt is taken once
\* before delay(), so neither keeps the loop from its next step for ever.
Goes(from, to) == phase = from /\ phase' = to

Fairness ==
  /\ SF_phase(Goes("delay", "receive"))
  /\ SF_phase(wake # Never /\ wake <= now /\ Goes("receive", "call"))
  /\ WF_phase(Goes("call", "run"))
  /\ WF_phase(co.head[Running] # 0 /\ Goes("run", "task"))
  /\ WF_phase(co.head[Running] = 0 /\ Goes("run", "delay"))
  /\ WF_phase(Goes("task", ret))
  /\ WF_vars(Tick)

FairSpec == Spec /\ Fairness
=============================================================================
