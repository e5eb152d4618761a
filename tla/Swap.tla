-------------------------------- MODULE Swap --------------------------------
(***************************************************************************)
(* The swap device of DGD (src/src/swap.cpp) as operators on its state: a  *)
(* cache of swap slots in front of a file of sectors.  Objects are stored  *)
(* in vectors of sectors; the sector map says for each sector in which     *)
(* slot of the cache or at which index of the file its content is.  The    *)
(* module Snapshot puts these operators together.                          *)
(***************************************************************************)
EXTENDS Integers, Sequences, SequencesExt

CONSTANTS
    Sectors,    \* swapsize, the number of sectors
    Blank,      \* what a sector holds that was never written
    Unused,     \* SW_UNUSED, larger than any sector, index or slot in use
    Slots       \* cachesize, the number of slots in the cache

ASSUME SwapAssumption ==
    /\ Sectors \in Nat \ {0}
    /\ Slots \in Nat \ {0}
    /\ Unused \notin Nat

Sector == 0 .. Sectors - 1
Slot == 0 .. Slots - 1

\* What a slot was used for does not matter when it is free.
FreeSlot == [sec |-> Unused, swap |-> Unused, dirty |-> FALSE, data |-> Blank]

\* The device before anything was allocated: every slot is free.
Empty ==
    [map |-> [s \in Sector |-> Unused],
     slot |-> [k \in Slot |-> FreeSlot],
     lru |-> <<>>,                       \* first .. last
     lfree |-> [k \in 1 .. Slots |-> k - 1],
     mfree |-> <<>>,                     \* free sectors
     nsectors |-> 0,
     sfree |-> <<>>,                     \* free indices, above the barrier
     ssectors |-> 0,
     sbarrier |-> 0,
     file |-> <<>>]                      \* index -> content of the swap file

\* The content that is found at index i of file f.
At(f, i) == IF i \in DOMAIN f THEN f[i] ELSE Blank

\* Function f with x mapped to v, in or outside of the domain of f.
Set(f, x, v) == [y \in DOMAIN f \cup {x} |-> IF y = x THEN v ELSE f[y]]

Without(seq, k) == RemoveAt(seq, CHOOSE i \in DOMAIN seq : seq[i] = k)

\* What Op makes of c for each element of seq in turn.
Each(Op(_, _), c, seq) ==
    LET r[n \in 0 .. Len(seq)] == IF n = 0 THEN c ELSE Op(r[n - 1], seq[n])
    IN  r[Len(seq)]

\* The sector has a slot; a map entry below cachesize may also be an index.
Cached(c, s) == c.map[s] \in Slot /\ c.slot[c.map[s]].sec = s

\* Sector s as load() with fill would read it, f being the file behind it.
Content(c, s, f) ==
    IF Cached(c, s) THEN c.slot[c.map[s]].data ELSE At(f, c.map[s])

\* The index of the swap file that belongs to sector s.
Index(c, s) == IF Cached(c, s) THEN c.slot[c.map[s]].swap ELSE c.map[s]

-----------------------------------------------------------------------------

\* newv(): n sectors, deleted ones first.
NewSectors(c, n) ==
    LET reused == IF n < Len(c.mfree) THEN n ELSE Len(c.mfree)
        vec == SubSeq(c.mfree, 1, reused)
                 \o [i \in 1 .. n - reused |-> c.nsectors + i - 1]
    IN  [vec |-> vec,
         dev |-> [c EXCEPT !.mfree = SubSeq(@, reused + 1, Len(@)),
                           !.nsectors = @ + n - reused,
                           !.map = [s \in Sector |->
                                      IF \E i \in DOMAIN vec : vec[i] = s
                                      THEN Unused ELSE @[s]]]]

\* There are n sectors to be had: "out of sectors" is fatal otherwise.
HasSectors(c, n) == n <= Len(c.mfree) + Sectors - c.nsectors

\* A sector no longer needs the content at its index of the swap file, and
\* nobody else does: it is dropped from the file, as it must not be read again.
WipeSector(c, s) ==
    LET i == Index(c, s)
        d == IF Cached(c, s) THEN [c EXCEPT !.slot[c.map[s]].swap = Unused]
             ELSE [c EXCEPT !.map[s] = Unused]
    IN  IF i # Unused /\ i >= c.sbarrier
        THEN [d EXCEPT !.sfree = <<i - c.sbarrier>> \o @,
                       !.file = [j \in DOMAIN @ \ {i} |-> @[j]]]
        ELSE d

Wipe(c, vec) == Each(WipeSector, c, Reverse(vec))

\* Sector s, wiped, goes to the list of free sectors and its slot is free.
DeleteSector(c, s) ==
    LET k == c.map[s]
        d == IF ~Cached(c, s) THEN c
             ELSE [c EXCEPT !.lru = Without(@, k),
                            !.slot[k] = FreeSlot,
                            !.lfree = <<k>> \o @]
    IN  [d EXCEPT !.mfree = <<s>> \o @, !.map[s] = Unused]

Delete(c, vec) == Each(DeleteSector, c, Reverse(vec))

\* Mutant: only what is deleted would have to be wiped, and is not.
AllocUnwiped(c, vec, n) ==
    IF Len(vec) >= n
    THEN [vec |-> SubSeq(vec, 1, n),
          dev |-> Delete(c, SubSeq(vec, n + 1, Len(vec)))]
    ELSE LET more == NewSectors(c, n - Len(vec))
         IN  [vec |-> vec \o more.vec, dev |-> more.dev]

\* alloc(): vector vec of sectors wiped and resized to n.
Alloc(c, vec, n) ==
    LET wiped == Wipe(c, vec)
    IN  IF Len(vec) >= n
        THEN [vec |-> SubSeq(vec, 1, n),
              dev |-> Delete(wiped, SubSeq(vec, n + 1, Len(vec)))]
        ELSE LET more == NewSectors(wiped, n - Len(vec))
             IN  [vec |-> vec \o more.vec, dev |-> more.dev]

-----------------------------------------------------------------------------

\* Mutant: what is in the file may always be overwritten.
NeedsNone(c, i) == i = Unused

\* The content at this index must be kept: it may belong to a snapshot.
NeedsIndex(c, i) == i = Unused \/ i < c.sbarrier

\* Slot k is written to the swap file, at a new index if it must be.
WriteOut(c, k) ==
    LET new == NeedsIndex(c, c.slot[k].swap)
        at == IF ~new THEN c.slot[k].swap
              ELSE IF c.sfree = <<>> THEN c.ssectors
              ELSE Head(c.sfree) + c.sbarrier
    IN  [c EXCEPT !.ssectors = IF new /\ c.sfree = <<>> THEN @ + 1 ELSE @,
                  !.sfree = IF new /\ @ # <<>> THEN Tail(@) ELSE @,
                  !.slot[k].swap = at,
                  !.file = Set(@, at, c.slot[k].data)]

\* Mutant: the map has the index from before the slot was written.
EvictToOldIndex(c) ==
    LET k == Last(c.lru)
        d == IF c.slot[k].dirty THEN WriteOut(c, k) ELSE c
    IN  [d EXCEPT !.map[c.slot[k].sec] = c.slot[k].swap,
                  !.slot[k].sec = Unused,
                  !.lru = Front(@),
                  !.lfree = <<k>>]

\* The last slot of the cache is given up for another sector.
Evict(c) ==
    LET k == Last(c.lru)
        d == IF c.slot[k].dirty THEN WriteOut(c, k) ELSE c
    IN  [d EXCEPT !.map[c.slot[k].sec] = d.slot[k].swap,
                  !.slot[k].sec = Unused,
                  !.lru = Front(@),
                  !.lfree = <<k>>]

\* load(): sector s is in the first slot, read from the swap file or, with
\* restore, from file f of a snapshot.
Load(c, s, restore, f) ==
    IF Cached(c, s)
    THEN [c EXCEPT !.lru = <<c.map[s]>> \o Without(@, c.map[s])]
    ELSE LET d == IF c.lfree = <<>> THEN Evict(c) ELSE c
             k == Head(d.lfree)
         IN  [d EXCEPT !.lfree = Tail(@),
                       !.lru = <<k>> \o @,
                       !.map[s] = k,
                       !.slot[k] = [sec |-> s, swap |-> c.map[s],
                                    dirty |-> FALSE,
                                    data |-> At(IF restore THEN f ELSE d.file, c.map[s])]]

\* readv() of a whole vector.
ReadSectors(c, vec) == Each(LAMBDA d, s : Load(d, s, FALSE, <<>>), c, vec)

\* writev() of v to sector s, over what the sector held.
WriteSector(c, s, v) ==
    LET d == Load(c, s, FALSE, <<>>)
    IN  [d EXCEPT !.slot[d.map[s]].dirty = TRUE, !.slot[d.map[s]].data = v]

\* writev() of contents val to the sectors of vec.
WriteSectors(c, vec, val) ==
    Each(LAMBDA d, sv : WriteSector(d, sv[1], sv[2]), c,
         [i \in DOMAIN vec |-> <<vec[i], val[i]>>])

\* dreadv() from file f of a snapshot: nothing in the swap file is its own.
RestoreSector(c, s, f) ==
    LET d == Load(c, s, TRUE, f) IN [d EXCEPT !.slot[d.map[s]].swap = Unused]

RestoreSectors(c, vec, f) == Each(LAMBDA d, s : RestoreSector(d, s, f), c, vec)

\* conv(), conv2(): the sectors are read past the cache.
ConvertSectors(c, vec) ==
    [c EXCEPT !.map = [s \in Sector |->
                         IF \E i \in DOMAIN vec : vec[i] = s
                         THEN Unused ELSE @[s]]]

\* save(): all slots are written if dirty, from the last to the first.
FlushSlot(c, k) == IF c.slot[k].dirty THEN WriteOut(c, k) ELSE c

Flush(c) ==
    LET d == Each(FlushSlot, c, Reverse(c.lru))
    IN  [d EXCEPT !.slot = [k \in Slot |-> [@[k] EXCEPT !.dirty = FALSE]]]

\* The sector map as save() writes it: with indices only.
SavedMap(c) == [s \in Sector |-> Index(c, s)]
=============================================================================
