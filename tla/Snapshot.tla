------------------------------ MODULE Snapshot ------------------------------
(***************************************************************************)
(* Objects in the swap file and in snapshots (src/src/swap.cpp with the    *)
(* parts of config.cpp, object.cpp and data.cpp that drive it).  A full    *)
(* snapshot turns the swap file into the snapshot and starts a new one, to *)
(* which the objects are copied by and by.  An incremental snapshot keeps  *)
(* on using the snapshot as the swap file; objects that are not copied yet *)
(* are then in the previous snapshot, which becomes the secondary one.     *)
(*                                                                         *)
(* A snapshot is written by Config::dump() in two steps, Swap::save() and  *)
(* Swap::save2(); the process may be killed between them and at any other  *)
(* time, and is then started from the snapshots that are on disk.          *)
(***************************************************************************)
EXTENDS Swap, FiniteSetsExt

CONSTANTS
    ContentsOf,     \* what there may be in a sector of each of the objects
    Tables,         \* the tables of a snapshot, beginning with the sector map
    Objects,        \* objects with a dataspace
    Kinds,          \* which snapshots are made: incremental ones, full ones
    SizesOf,        \* bound: the numbers of sectors an object may have
    MaxIndex        \* bound: no index of the swap file above this one

ASSUME SnapshotAssumption ==
    /\ IsFiniteSet(Objects)
    /\ Kinds \subseteq BOOLEAN
    /\ SizesOf \in [Objects -> SUBSET Nat]

\* What a partial write makes of a sector of object o that holds v.
Other(o, v) == IF v \in ContentsOf[o] /\ ContentsOf[o] # {v}
               THEN CHOOSE w \in ContentsOf[o] : w # v ELSE v

VARIABLES
    dev,        \* the swap device
    swapping,   \* the swap file is not a snapshot
    dump,       \* the open snapshot objects are copied from, by name, or "none"
    convDone,   \* no objects are left in a snapshot of an earlier process
    snapshot,   \* the file named by dump_file, with what its last header says
    old,        \* the file of that name with ".old" added
    where,      \* where each object is
    vec,        \* its vector of sectors
    val,        \* its contents, for each sector
    step,       \* "run", or the kind of snapshot that is to be finished
    taken       \* history: the contents of objects in the last snapshot

vars == <<dev, swapping, dump, convDone, snapshot, old, where, vec, val, step,
          taken>>

NoFile == [data |-> <<>>, complete |-> FALSE, at |-> 0,
           map |-> [s \in Sector |-> Unused], nsectors |-> 0, mfree |-> <<>>,
           vec |-> [o \in Objects |-> <<>>], part |-> {}]

\* The objects whose contents are in file dump, the bitmap omap.
Dumped == {o \in Objects : where[o] = "dump"}

\* The swap file is also the file named by dump_file.
InPlace == ~swapping \/ step # "run"

\* What the files on disk hold now.
SnapshotData == IF InPlace THEN dev.file ELSE snapshot.data
DumpData == IF dump = "old" THEN old.data ELSE SnapshotData

\* The contents of the objects in snapshot f, given what is on disk.
Found(f, data, secondary) ==
    [o \in Objects |->
       [i \in DOMAIN f.vec[o] |->
          At(IF o \in f.part THEN secondary ELSE data, f.map[f.vec[o][i]])]]

\* The indices of a file that snapshot f refers to; no others are read.
Referred(f) ==
    {f.at} \cup {f.map[s] : s \in UNION {ToSet(f.vec[o]) : o \in Objects \ f.part}}

Kept(data, f) == [i \in Referred(f) \cap DOMAIN data |-> data[i]]

\* Bound on the size of the swap file.
Bounded(c) == c.ssectors <= MaxIndex + 1

\* A cold start.  convDone is FALSE in the code until copy() has been called
\* for the first time; nothing is restored before that.
Init ==
    /\ dev = Empty
    /\ swapping = TRUE
    /\ dump = "none"
    /\ convDone = TRUE
    /\ snapshot = NoFile
    /\ old = NoFile
    /\ where = [o \in Objects |-> "none"]
    /\ vec = [o \in Objects |-> <<>>]
    /\ val = [o \in Objects |-> <<>>]
    /\ step = "run"
    /\ taken = [o \in Objects |-> <<>>]

-----------------------------------------------------------------------------

\* Dataspace::save(): the vector of object o is resized and written with v.
SaveTo(c, vs, o, v) ==
    LET a == Alloc(c, vs[o], Len(v))
    IN  [dev |-> WriteSectors(a.dev, a.vec, v), vec |-> [vs EXCEPT ![o] = a.vec]]

\* An object that is in memory is swapped out, with new contents of any size
\* or, after it was restored, with its own.
SwapOut(o, v) ==
    /\ step = "run"
    /\ where[o] # "dump"
    /\ HasSectors(dev, Len(v) - Len(vec[o]))
    /\ LET saved == SaveTo(dev, vec, o, v)
       IN  /\ Bounded(saved.dev)
           /\ dev' = saved.dev
           /\ vec' = saved.vec
    /\ where' = [where EXCEPT ![o] = "swap"]
    /\ val' = [val EXCEPT ![o] = v]
    /\ UNCHANGED <<swapping, dump, convDone, snapshot, old, step, taken>>

NewValues(o) == {[i \in 1 .. n |-> v] : n \in SizesOf[o], v \in ContentsOf[o]}

\* Dataspace::save() where only values changed: part of a sector is written.
Update(o) ==
    /\ step = "run"
    /\ where[o] = "swap"
    /\ \E i \in DOMAIN val[o] :
         /\ dev' = WriteSector(dev, vec[o][i],
                               Other(o, Content(dev, vec[o][i], dev.file)))
         /\ val' = [val EXCEPT ![o][i] = Other(o, @)]
    /\ Bounded(dev')
    /\ UNCHANGED <<swapping, dump, convDone, snapshot, old, where, vec, step, taken>>

\* Dataspace::load(): the object is read from the swap file.
Read(o) ==
    /\ step = "run"
    /\ where[o] = "swap"
    /\ dev' = ReadSectors(dev, vec[o])
    /\ Bounded(dev')
    /\ UNCHANGED <<swapping, dump, convDone, snapshot, old, where, vec, val, step, taken>>

\* Dataspace::restoreObject(): the object is read from the file of a snapshot,
\* which is converted if an earlier process has made it.
RestoreFrom(from, c, v) ==
    IF from.done THEN RestoreSectors(c, v, from.file) ELSE ConvertSectors(c, v)

\* Where objects are restored from, and the contents they have there.
FromDump == [file |-> DumpData, done |-> convDone, val |-> val]

Restore(o) ==
    /\ step = "run"
    /\ where[o] = "dump"
    /\ dev' = RestoreFrom(FromDump, dev, vec[o])
    /\ Bounded(dev')
    /\ where' = [where EXCEPT ![o] = "memory"]
    /\ UNCHANGED <<swapping, dump, convDone, snapshot, old, vec, val, step, taken>>

\* Object::copy() has found that no objects are left in the snapshot.
Copied ==
    /\ step = "run"
    /\ Dumped = {} /\ ~convDone
    /\ convDone' = TRUE
    /\ UNCHANGED <<dev, swapping, dump, snapshot, old, where, vec, val, step, taken>>

\* Dataspace::del() of an object that is in memory.
Del(o) ==
    /\ step = "run"
    /\ where[o] \in {"swap", "memory"}
    /\ dev' = Delete(Wipe(dev, vec[o]), vec[o])
    /\ where' = [where EXCEPT ![o] = "none"]
    /\ vec' = [vec EXCEPT ![o] = <<>>]
    /\ val' = [val EXCEPT ![o] = <<>>]
    /\ UNCHANGED <<swapping, dump, convDone, snapshot, old, step, taken>>

-----------------------------------------------------------------------------

\* The device and the vectors, with each of the objects of seq swapped out.
SaveAll(c, vs, seq) ==
    Each(LAMBDA d, o : SaveTo(d.dev, d.vec, o, val[o]), [dev |-> c, vec |-> vs], seq)

\* Object::copy(0): an object is copied from a snapshot to the swap file.
CopyTo(from, d, o) ==
    SaveTo(RestoreFrom(from, d.dev, d.vec[o]), d.vec, o, from.val[o])

CopyAll(from, c, vs, seq) ==
    Each(LAMBDA d, o : CopyTo(from, d, o), [dev |-> c, vec |-> vs], seq)

\* Config::dump() up to and including Swap::save().
Dump(incr) ==
    /\ step = "run"
    /\ LET inDump == IF incr THEN {} ELSE Dumped
           copied == CopyAll(FromDump, dev, vec, SetToSeq(inDump))
           inMemory == {o \in Objects : where[o] = "memory"}
           saved == SaveAll(copied.dev, copied.vec, SetToSeq(inMemory))
           flushed == Flush(saved.dev)
           keep == Dumped # inDump
       IN  /\ Bounded(flushed)
           /\ dev' = [flushed EXCEPT !.file = Set(@, flushed.ssectors, Tables)]
           /\ vec' = saved.vec
           /\ where' = [o \in Objects |-> IF o \in inDump \cup inMemory
                                          THEN "swap" ELSE where[o]]
           /\ IF swapping
              THEN /\ old' = snapshot
                   /\ snapshot' = NoFile
                   /\ dump' = IF keep THEN "old" ELSE "none"
              ELSE /\ dump' = IF keep THEN dump ELSE "none"
                   /\ UNCHANGED <<old, snapshot>>
    /\ convDone' = (convDone \/ ~incr)
    /\ step' = IF incr THEN "incremental" ELSE "full"
    /\ UNCHANGED <<swapping, val, taken>>

\* The snapshot that save2() writes the header of.
Finished == [data |-> <<>>, complete |-> TRUE, at |-> dev.ssectors,
             map |-> SavedMap(dev), nsectors |-> dev.nsectors,
             mfree |-> dev.mfree, vec |-> vec, part |-> Dumped]

\* Swap::save2(), incremental: all that is in the file now is kept.
Barrier(f) == [dev EXCEPT !.ssectors = @ + 1, !.sbarrier = dev.ssectors + 1,
                          !.sfree = <<>>, !.file = Kept(@, f)]

\* Swap::save2(), full: there is no swap file.
NewSwap == [dev EXCEPT !.ssectors = 0, !.sbarrier = 0, !.sfree = <<>>,
                       !.file = <<>>]

\* What is still of use in a secondary snapshot: the objects that are in it.
Secondary ==
    LET needed == {Index(dev, s) : s \in UNION {ToSet(vec[o]) : o \in Dumped}}
    IN  [i \in needed \cap DOMAIN old.data |-> old.data[i]]

\* The end of Config::dump().
Finish ==
    /\ step # "run"
    /\ IF step = "incremental"
       THEN /\ snapshot' = Finished
            /\ dev' = Barrier(Finished)
            /\ swapping' = FALSE
            /\ UNCHANGED <<dump, where>>
       ELSE /\ snapshot' = [Finished EXCEPT !.data = Kept(dev.file, Finished)]
            /\ dev' = NewSwap
            /\ swapping' = TRUE
            /\ dump' = "snapshot"
            /\ where' = [o \in Objects |-> IF where[o] = "none" THEN "none"
                                           ELSE "dump"]
    /\ old' = [NoFile EXCEPT !.data = IF step = "full" THEN <<>> ELSE Secondary]
    /\ taken' = val
    /\ step' = "run"
    /\ UNCHANGED <<convDone, vec, val>>

-----------------------------------------------------------------------------

\* The process is killed and started with snapshot f and secondary g.
Restart(f, g) ==
    /\ LET found == Found(f, f.data, g.data)
           exist == {o \in Objects : f.vec[o] # <<>>}
           restored == [Empty EXCEPT !.map = f.map, !.nsectors = f.nsectors,
                                     !.mfree = f.mfree]
           from == [file |-> g.data, done |-> FALSE, val |-> found]
           copied == CopyAll(from, restored, f.vec, SetToSeq(f.part))
       IN  /\ dev' = copied.dev
           /\ vec' = copied.vec
           /\ val' = found
           /\ where' = [o \in Objects |-> CASE o \in f.part -> "swap"
                                             [] o \in exist \ f.part -> "dump"
                                             [] OTHER -> "none"]
    /\ swapping' = TRUE
    /\ dump' = "snapshot"
    /\ convDone' = FALSE
    /\ snapshot' = f
    /\ old' = g
    /\ step' = "run"
    /\ UNCHANGED taken

\* The last snapshot is complete, or the one before it is used in its place:
\* it is the operator who moves that one, with ".old", back.
Crash ==
    \/ /\ snapshot.complete
       /\ Restart([snapshot EXCEPT !.data = Kept(SnapshotData, snapshot)], old)
    \/ /\ ~snapshot.complete
       /\ old.complete /\ old.part = {}
       /\ Restart(old, NoFile)

Next ==
    \/ \E o \in Objects : \/ \E v \in NewValues(o) : SwapOut(o, v)
                          \/ where[o] = "memory" /\ SwapOut(o, val[o])
                          \/ Update(o) \/ Read(o) \/ Restore(o) \/ Del(o)
    \/ Copied
    \/ \E incr \in Kinds : Dump(incr)
    \/ Finish
    \/ Crash

Spec == Init /\ [][Next]_vars

-----------------------------------------------------------------------------

InUse == UNION {ToSet(vec[o]) : o \in Objects}

\* Sectors of the objects that are not in the snapshot.
InSwap == UNION {ToSet(vec[o]) : o \in Objects \ Dumped}

\* The cache is a cache: each slot is free or in the list of slots in use,
\* where it belongs to one sector that is in use, and that is mapped to it.
CacheRight ==
    /\ IsInjective(dev.lru \o dev.lfree)
    /\ ToSet(dev.lru \o dev.lfree) = Slot
    /\ \A k \in ToSet(dev.lfree) : dev.slot[k].sec = Unused
    /\ \A k \in ToSet(dev.lru) : /\ dev.slot[k].sec \in InUse
                                 /\ dev.map[dev.slot[k].sec] = k

\* No sector is lost or used twice, neither of the map nor of the swap file:
\* alloc(), wipev(), delv() and the barrier of an incremental snapshot.
Accounted ==
    /\ ToSet(dev.mfree) \cap InUse = {}
    /\ ToSet(dev.mfree) \cup InUse = 0 .. dev.nsectors - 1
    /\ dev.nsectors = Len(dev.mfree) + Cardinality(InUse)
    /\ LET used == {s \in InSwap : Index(dev, s) # Unused}
           free == {i + dev.sbarrier : i \in ToSet(dev.sfree)}
           new == dev.sbarrier .. dev.ssectors - 1
       IN  /\ \A s, t \in used : Index(dev, s) = Index(dev, t) => s = t
           /\ IsInjective(dev.sfree)
           /\ {Index(dev, s) : s \in used} \cap free = {}
           /\ new \subseteq {Index(dev, s) : s \in used} \cup free
           /\ free \subseteq new

\* Slots, sectors and indices of the swap file are each in one place.
SectorsRight == CacheRight /\ Accounted

\* What was saved is read back, through the cache, from the swap file and from
\* the snapshot, wherever the content has been moved to.
ReadsBack ==
    step = "run" =>
    \A o \in Objects :
        where[o] \in {"swap", "dump"} =>
        \A i \in DOMAIN val[o] :
            Content(dev, vec[o][i], IF where[o] = "swap" THEN dev.file ELSE DumpData)
              = val[o][i]

\* A snapshot can be restored as long as it is the last one, whatever is done
\* to the swap file meanwhile; a snapshot that is not finished leaves the one
\* before it, unless that one had a secondary snapshot, which save() unlinks.
Recoverable ==
    /\ snapshot.complete =>
         /\ At(SnapshotData, snapshot.at) = Tables
         /\ Found(snapshot, SnapshotData, old.data) = taken
    /\ ~snapshot.complete /\ old.complete /\ old.part = {} =>
         /\ At(old.data, old.at) = Tables
         /\ Found(old, old.data, <<>>) = taken
=============================================================================
