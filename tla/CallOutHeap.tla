---------------------------- MODULE CallOutHeap ----------------------------
(***************************************************************************)
(* The heap of CallOutTable by itself: enqueue() of any time and dequeue() *)
(* of any entry, over all heaps of at most MaxEntries entries, which is    *)
(* enough for an entry to be sifted up from the hole it fills.             *)
(***************************************************************************)
EXTENDS CallOutTable, FiniteSets

CONSTANTS Times, MaxEntries

VARIABLE co

Init == co = EmptyTable(MaxEntries)

Add(time) == Len(co.heap) < MaxEntries /\ co' = Enqueue(co, time, NoId)

Take(i) == co' = Dequeue(co, i)

Next ==
  \/ \E time \in Times : Add(time)
  \/ \E i \in DOMAIN co.heap : Take(i)

Spec == Init /\ [][Next]_co

-----------------------------------------------------------------------------
\* No entry of the heap is earlier than its parent: cotab[0] is the first one
\* due, on which expire() and delay() rely.
HeapOrdered ==
  \A i \in 2 .. Len(co.heap) : co.heap[i \div 2].time <= co.heap[i].time

\* dequeue(i) takes out the entry at i, loses or doubles no other one, and
\* leaves a heap, whether the entry that fills the hole goes up or down.
Count(time) == Cardinality({i \in DOMAIN co.heap : co.heap[i].time = time})

HeapKept ==
  [][HeapOrdered' /\ \A i \in DOMAIN co.heap : Take(i) =>
       \A time \in Times :
         Count(time)' = Count(time) - (IF co.heap[i].time = time THEN 1 ELSE 0)]_co
=============================================================================
