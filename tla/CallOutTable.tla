--------------------------- MODULE CallOutTable ---------------------------
(***************************************************************************)
(* The call-out table of call_out.cpp, as operators from a table to a      *)
(* table.  One array, cotab, holds two structures that grow towards each   *)
(* other: a heap of long-term and millisecond call-outs in the entries     *)
(* 0 .. queuebrk-1, and linked lists of short-term call-outs in            *)
(* cycbrk .. size-1.  A list is immediate, running, or one of the slots of *)
(* a cyclic buffer indexed by due time.  Index 0 is the null link.         *)
(*                                                                         *)
(* A table is a record: size, heap (sequence; queuebrk is its length),     *)
(* cell (the entries at cycbrk and above: count, prev, next, id), cycbrk,  *)
(* flist, nshort, nzero, head (of every list), timestamp and timeout.      *)
(* The first cell of a list keeps the length in count and the index of the *)
(* last cell in prev.                                                      *)
(*                                                                         *)
(* Time is one number: a second is SecUnits clock units (milliseconds in   *)
(* the code), so the comparison of (seconds << 16 | milliseconds) words is *)
(* the comparison of these numbers.                                        *)
(***************************************************************************)
EXTENDS Integers, Sequences, SequencesExt

CONSTANTS
  NoId,         \* handle 0: an unused cell
  CycSize,      \* CYCBUF_SIZE, the number of slots of the cyclic buffer
  SecUnits,     \* clock units in a second
  MaxLag,       \* seconds that cotime() may run ahead of timestamp (60)
  IndexMod      \* 2^w for a cindex of w bits

ASSUME TableAssumption ==
  /\ CycSize \in Nat \ {0}
  /\ SecUnits \in Nat \ {0}
  /\ MaxLag \in Nat \ {0}
  /\ IndexMod \in Nat \ {0}

Running == -2                       \* list of call-outs being run
Immediate == -1                     \* list of call-outs to run next
Slots == 0 .. CycSize - 1           \* the cyclic buffer
Lists == Slots \cup {Running, Immediate}
Queue == CycSize                    \* not a list: the heap

TimeInt == 2 * SecUnits             \* TIME_INT: a delay in whole seconds

HalfIndex == (IndexMod - 1) \div 2  \* UINDEX_MAX / 2: no children beyond

Blank == [count |-> 0, prev |-> 0, next |-> 0, id |-> NoId]

EmptyTable(size) ==
  [size |-> size, heap |-> <<>>, cell |-> [i \in 0 .. size - 1 |-> Blank],
   cycbrk |-> size, flist |-> 0, nshort |-> 0, nzero |-> 0,
   head |-> [l \in Lists |-> 0], timestamp |-> 0, timeout |-> 0]

-----------------------------------------------------------------------------
(* The heap *)

RECURSIVE SiftUp(_, _, _), SiftDown(_, _, _)

\* Store e at hole i of h, or above it while the parent is later.
SiftUp(h, i, e) ==
  IF i > 1 /\ h[i \div 2].time > e.time
    THEN SiftUp([h EXCEPT ![i] = h[i \div 2]], i \div 2, e)
    ELSE [h EXCEPT ![i] = e]

\* Store e, the last entry of h, at hole i or below it; the last entry of h
\* takes part in the choice of a child but is never moved up itself.
SiftDown(h, i, e) ==
  LET left == 2 * i
      child == IF h[left].time > h[left + 1].time THEN left + 1 ELSE left
  IN  IF left >= Len(h) \/ e.time <= h[child].time
        THEN [h EXCEPT ![i] = e]
        ELSE SiftDown([h EXCEPT ![i] = h[child]], child, e)

Enqueue(c, time, id) ==
  LET e == [time |-> time, id |-> id]
  IN  [c EXCEPT !.heap = SiftUp(Append(@, e), Len(@) + 1, e)]

\* Mutant: the entry that fills the hole is never moved up.
DequeueDownOnly(c, i) ==
  LET h == c.heap
      e == h[Len(h)]
  IN  [c EXCEPT !.heap = Front(IF i <= HalfIndex THEN SiftDown(h, i, e)
                                                 ELSE [h EXCEPT ![i] = e])]

Dequeue(c, i) ==
  LET h == c.heap
      e == h[Len(h)]
      filled == CASE e.time < h[i].time -> SiftUp(h, i, e)
                  [] e.time >= h[i].time /\ i <= HalfIndex -> SiftDown(h, i, e)
                  [] OTHER -> [h EXCEPT ![i] = e]
  IN  [c EXCEPT !.heap = Front(filled)]

-----------------------------------------------------------------------------
(* The lists *)

LastCell(c, first) ==
  IF c.cell[first].count = 1 THEN first ELSE c.cell[first].prev

\* The first second from t on whose slot is in use.
SlotFrom(c, t) ==
  CHOOSE s \in t .. t + CycSize - 1 :
    /\ c.head[s % CycSize] # 0
    /\ \A r \in t .. s - 1 : c.head[r % CycSize] = 0

\* timeout once every slot before t is empty: 0 if the buffer is empty.
TimeoutFrom(c, t) == IF c.nshort # c.nzero THEN SlotFrom(c, t) ELSE 0

\* Take a cell from the free list or from below cycbrk, and append it to l.
NewCallout(c, l, t, id) ==
  LET first == c.head[l]
      i == IF c.flist # 0 THEN c.flist ELSE c.cycbrk - 1
      fresh == [count |-> IF first = 0 THEN 1 ELSE c.cell[i].count,
                prev |-> 0, next |-> 0, id |-> id]
  IN  [c EXCEPT
        !.flist = IF @ # 0 THEN c.cell[i].next ELSE 0,
        !.cycbrk = IF c.flist # 0 THEN @ ELSE i,
        !.nshort = @ + 1,
        !.nzero = IF t = 0 THEN @ + 1 ELSE @,
        !.head[l] = IF first = 0 THEN i ELSE first,
        !.timeout = IF first = 0 /\ t # 0 /\ (@ = 0 \/ t < @) THEN t ELSE @,
        !.cell = IF first = 0
                   THEN [@ EXCEPT ![i] = fresh]
                   ELSE [@ EXCEPT ![LastCell(c, first)].next = i,
                                  ![first].count = @ + 1,
                                  ![first].prev = i,
                                  ![i] = fresh]]

\* Take cell i out of the chain of free cells.
Unlink(c, i) ==
  LET p == c.cell[i].prev
      n == c.cell[i].next
  IN  IF i = c.flist
        THEN [c EXCEPT !.flist = n, !.cell[i] = Blank]
        ELSE [c EXCEPT !.cell = [k \in DOMAIN @ |->
                CASE k = i -> Blank
                  [] k = p /\ k # i -> [@[k] EXCEPT !.next = n]
                  [] k = n /\ n # 0 /\ k # i -> [@[k] EXCEPT !.prev = p]
                  [] OTHER -> @[k]]]

\* Give cell i back: to the free list, or to the heap's side of the array
\* together with the free cells that follow it when it is at the edge.
ReleaseCell(c, i) ==
  LET freed == [c EXCEPT !.cell[i].id = NoId]
      edge == CHOOSE k \in i + 1 .. c.size :
                /\ k = c.size \/ freed.cell[k].id # NoId
                /\ \A f \in i + 1 .. k - 1 : freed.cell[f].id = NoId
  IN  IF i = c.cycbrk
        THEN FoldLeft(Unlink, [freed EXCEPT !.cycbrk = edge, !.cell[i] = Blank],
                      [k \in 1 .. edge - i - 1 |-> i + k])
        ELSE [freed EXCEPT
               !.flist = i,
               !.cell = IF c.flist = 0
                          THEN [@ EXCEPT ![i].next = 0]
                          ELSE [@ EXCEPT ![c.flist].prev = i,
                                         ![i].next = c.flist]]

\* Remove cell i, which follows cell j (or is the first: i = j), from list l.
FreeCallout(c, l, j, i, t) ==
  LET f == c.head[l]
      first == c.cell[f]
      d == [c EXCEPT !.nshort = @ - 1, !.nzero = IF t = 0 THEN @ - 1 ELSE @]
      emptied == [d EXCEPT !.head[l] = 0]
      unlinked ==
        CASE i = j /\ first.count = 1 ->
               [emptied EXCEPT !.timeout =
                  IF t # 0 /\ t = @ THEN TimeoutFrom(emptied, t) ELSE @]
          [] i = j /\ first.count # 1 ->
               [d EXCEPT
                 !.head[l] = first.next,
                 !.cell[first.next].count = first.count - 1,
                 !.cell[first.next].prev =
                    IF first.count # 2 THEN first.prev ELSE @]
          [] i # j /\ i = first.prev ->
               [d EXCEPT
                 !.cell = [@ EXCEPT
                   ![f].count = @ - 1,
                   ![j].prev = 0,
                   ![j].next = 0,
                   ![f].prev = IF first.count # 2 THEN j ELSE @]]
          [] OTHER ->
               [d EXCEPT !.cell = [@ EXCEPT ![f].count = @ - 1,
                                            ![j].next = c.cell[i].next]]
  IN  ReleaseCell(unlinked, i)

RECURSIVE Chain(_, _)
Chain(cell, i) == IF i = 0 THEN <<>> ELSE <<i>> \o Chain(cell, cell[i].next)

\* The cells that rmshort() looks at in list l.
CellsOf(c, l) ==
  LET first == c.head[l]
  IN  CASE first = 0 -> <<>>
        [] first # 0 /\ c.cell[first].count = 1 -> <<first>>
        [] OTHER -> Chain(c.cell, first)

InList(c, l, id) == \E n \in DOMAIN CellsOf(c, l) : c.cell[CellsOf(c, l)[n]].id = id

RemoveShort(c, l, id, t) ==
  LET cells == CellsOf(c, l)
      n == CHOOSE n \in DOMAIN cells : c.cell[cells[n]].id = id
  IN  FreeCallout(c, l, IF n = 1 THEN cells[1] ELSE cells[n - 1], cells[n], t)

\* Move the call-outs of slot l to the end of the immediate list.
Splice(c, l) ==
  LET i == c.head[l]
      first == c.head[Immediate]
      count == c.cell[i].count
  IN  IF i = 0 THEN c
      ELSE [c EXCEPT
             !.head = [@ EXCEPT ![l] = 0,
                                ![Immediate] = IF first = 0 THEN i ELSE first],
             !.nzero = @ + count,
             !.cell = IF first = 0 THEN @
                      ELSE [@ EXCEPT ![LastCell(c, first)].next = i,
                                     ![first].count = @ + count,
                                     ![first].prev = LastCell(c, i)]]
=============================================================================
