---------------------------- MODULE DataCallOuts ----------------------------
(***************************************************************************)
(* The call-outs of one object, as its dataspace keeps them (data.cpp):    *)
(* an array of call-outs indexed by handle, with a list of free handles,   *)
(* and for every atomic function that has not ended a plane of patches,    *)
(* from which its changes are committed to the plane below, or undone.     *)
(* Only at level 0 does a change reach the call-out table.                 *)
(*                                                                         *)
(* Patches of a plane are committed and undone in the order of the hash    *)
(* table they are in: here, in any order, one patch to a step.  A plane    *)
(* which the dataspace does not have at some level is one without patches. *)
(* Whether the table has room for another call-out depends on the other    *)
(* objects too; a refused one changes nothing.                             *)
(***************************************************************************)
EXTENDS Integers, Sequences, FiniteSets

CONSTANTS
  CallOut,      \* what a call-out holds: function, arguments and time
  None,         \* no call-out
  NoPatch,      \* no patch
  MaxHandle,    \* bound on handles
  MaxLevel      \* bound on the nesting of atomic functions

Handle == 1 .. MaxHandle
Level == 1 .. MaxLevel
Slot == CallOut \cup {None}

\* COPatch: the call-out it adds (aco) and the one it removes (rco).
Patch == [type : {"add", "remove", "replace"}, aco : Slot, rco : Slot]

ASSUME DataAssumption ==
  /\ MaxHandle \in Nat
  /\ MaxLevel \in Nat
  /\ None \notin CallOut
  /\ NoPatch \notin Patch

VARIABLES
  slot,         \* callouts[]: the call-out of each handle, or None
  count,        \* ncallouts
  free,         \* the list of free handles, from fcallouts
  table,        \* the object's entries in the call-out table, by handle
  level,        \* level of the atomic function that runs, 0 for none
  patch,        \* the patches of the plane at each level, by handle
  pending,      \* ncallout: call-outs still to be added to the table
  mode          \* "run", or the loop that goes on: "commit", "discard", "save"

vars == <<slot, count, free, table, level, patch, pending, mode>>

-----------------------------------------------------------------------------
\* Handle of a new call-out: of the first two free ones the lowest; the next
\* one when none is free.
NewHandle ==
  IF free = <<>> THEN count + 1
  ELSE IF Len(free) = 1 \/ free[2] > free[1] THEN free[1] ELSE free[2]

\* The list s without its i-th element.
Without(s, i) == [k \in 1 .. Len(s) - 1 |-> IF k < i THEN s[k] ELSE s[k + 1]]

Position(s, h) == CHOOSE i \in 1 .. Len(s) : s[i] = h

\* Mutant: the first free handle leaves the list when the second is taken.
AllocDropsFirst(h, c) ==
  /\ slot' = [slot EXCEPT ![h] = c]
  /\ count' = IF h > count THEN h ELSE count
  /\ free' = IF h > count THEN free ELSE Tail(free)

\* Mutant: a handle from the free list is counted as a new one.
AllocCounts(h, c) ==
  /\ slot' = [slot EXCEPT ![h] = c]
  /\ count' = count + 1
  /\ free' = IF h > count THEN free ELSE Without(free, Position(free, h))

\* allocCallOut(), of handle h.
Alloc(h, c) ==
  /\ slot' = [slot EXCEPT ![h] = c]
  /\ count' = IF h > count THEN h ELSE count
  /\ free' = IF h > count THEN free ELSE Without(free, Position(free, h))

\* freeCallOut()
Free(h) ==
  /\ slot' = [slot EXCEPT ![h] = None]
  /\ free' = <<h>> \o free
  /\ UNCHANGED count

SetPatch(l, h, p) == patch' = [patch EXCEPT ![l][h] = p]

Init ==
  /\ slot = [h \in Handle |-> None]
  /\ count = 0
  /\ free = <<>>
  /\ table = [h \in Handle |-> None]
  /\ level = 0
  /\ patch = [l \in Level |-> [h \in Handle |-> NoPatch]]
  /\ pending = 0
  /\ mode = "run"

\* newCallOut()
NewCallOut(c) ==
  LET h == NewHandle
      p == patch[level][h]
  IN  /\ mode = "run"
      /\ h \in Handle
      /\ Alloc(h, c)
      /\ IF level = 0
           THEN /\ table' = [table EXCEPT ![h] = c]
                /\ UNCHANGED <<patch, pending>>
           ELSE /\ SetPatch(level, h,
                     IF p = NoPatch
                       THEN [type |-> "add", aco |-> c, rco |-> None]
                       ELSE [p EXCEPT !.type = "replace", !.aco = c])
                /\ pending' = pending + 1
                /\ UNCHANGED table
      /\ UNCHANGED <<level, mode>>

\* Mutant: removing a call-out deletes its patch, whatever it replaced.
DelCallOutForgets(h) ==
  LET p == patch[level][h]
  IN  /\ mode = "run"
      /\ slot[h] # None
      /\ Free(h)
      /\ IF level = 0
           THEN /\ table' = [table EXCEPT ![h] = None]
                /\ UNCHANGED <<patch, pending>>
           ELSE /\ SetPatch(level, h,
                     IF p = NoPatch
                       THEN [type |-> "remove", aco |-> None, rco |-> slot[h]]
                       ELSE NoPatch)
                /\ pending' = pending - 1
                /\ UNCHANGED table
      /\ UNCHANGED <<level, mode>>

\* delCallOut()
DelCallOut(h) ==
  LET p == patch[level][h]
  IN  /\ mode = "run"
      /\ slot[h] # None
      /\ Free(h)
      /\ IF level = 0
           THEN /\ table' = [table EXCEPT ![h] = None]
                /\ UNCHANGED <<patch, pending>>
           ELSE /\ SetPatch(level, h,
                     CASE p = NoPatch ->
                            [type |-> "remove", aco |-> None, rco |-> slot[h]]
                       [] p # NoPatch /\ p.type = "replace" ->
                            [p EXCEPT !.type = "remove", !.aco = None]
                       [] OTHER -> NoPatch)
                /\ pending' = pending - 1
                /\ UNCHANGED table
      /\ UNCHANGED <<level, mode>>

\* The main loop takes a call-out from the table and callOut() frees it.
CallOutRuns(h) ==
  /\ mode = "run" /\ level = 0
  /\ table[h] # None
  /\ table' = [table EXCEPT ![h] = None]
  /\ Free(h)
  /\ UNCHANGED <<level, patch, pending, mode>>

\* An atomic function is called.
Enter ==
  /\ mode = "run" /\ level < MaxLevel
  /\ level' = level + 1
  /\ UNCHANGED <<slot, count, free, table, patch, pending, mode>>

\* An atomic function returns, or fails.
Return ==
  /\ mode = "run" /\ level > 0
  /\ mode' = "commit"
  /\ UNCHANGED <<slot, count, free, table, level, patch, pending>>

Fail ==
  /\ mode = "run" /\ level > 0
  /\ mode' = "discard"
  /\ UNCHANGED <<slot, count, free, table, level, patch, pending>>

\* Mutant: removing what replaced another call-out leaves nothing to remove.
MergedDropsReplace(upper, lower) ==
  IF lower = NoPatch THEN upper
  ELSE CASE upper.type = "add" ->
              [lower EXCEPT !.type = "replace", !.aco = upper.aco]
         [] upper.type = "remove" -> NoPatch
         [] OTHER ->
              IF lower.type = "replace"
                THEN [lower EXCEPT !.aco = upper.aco]
                ELSE [upper EXCEPT !.type = "add", !.rco = None]

\* The patch of a plane below, once upper is merged with it (commitCallouts()).
Merged(upper, lower) ==
  IF lower = NoPatch THEN upper
  ELSE CASE upper.type = "add" ->
              [lower EXCEPT !.type = "replace", !.aco = upper.aco]
         [] upper.type = "remove" ->
              IF lower.type = "replace"
                THEN [lower EXCEPT !.type = "remove", !.aco = None]
                ELSE NoPatch
         [] OTHER ->
              IF lower.type = "replace"
                THEN [lower EXCEPT !.aco = upper.aco]
                ELSE [upper EXCEPT !.type = "add", !.rco = None]

\* commitCallouts(), one patch, to the table or to the plane below.
CommitPatch(h) ==
  LET p == patch[level][h]
  IN  /\ mode = "commit"
      /\ p # NoPatch
      /\ IF level = 1
           THEN /\ table' = [table EXCEPT ![h] =
                               IF p.type = "remove" THEN None ELSE p.aco]
                /\ pending' = CASE p.type = "add" -> pending - 1
                                [] p.type = "remove" -> pending + 1
                                [] OTHER -> pending
                /\ SetPatch(level, h, NoPatch)
           ELSE /\ patch' = [patch EXCEPT
                     ![level][h] = NoPatch,
                     ![level - 1][h] = Merged(p, @)]
                /\ UNCHANGED <<table, pending>>
      /\ UNCHANGED <<slot, count, free, level, mode>>

\* Mutant: a call-out that is put back is not counted.
DiscardPatchUncounted(h) ==
  LET p == patch[level][h]
  IN  /\ mode = "discard"
      /\ p # NoPatch
      /\ CASE p.type = "add" -> Free(h) /\ pending' = pending - 1
           [] p.type = "remove" -> Alloc(h, p.rco) /\ UNCHANGED pending
           [] OTHER -> /\ slot' = [slot EXCEPT ![h] = p.rco]
                       /\ UNCHANGED <<count, free, pending>>
      /\ SetPatch(level, h, NoPatch)
      /\ UNCHANGED <<table, level, mode>>

\* discardCallouts(), one patch.
DiscardPatch(h) ==
  LET p == patch[level][h]
  IN  /\ mode = "discard"
      /\ p # NoPatch
      /\ CASE p.type = "add" -> Free(h) /\ pending' = pending - 1
           [] p.type = "remove" -> Alloc(h, p.rco) /\ pending' = pending + 1
           [] OTHER -> /\ slot' = [slot EXCEPT ![h] = p.rco]
                       /\ UNCHANGED <<count, free, pending>>
      /\ SetPatch(level, h, NoPatch)
      /\ UNCHANGED <<table, level, mode>>

\* The plane is left once it has no patches.
Leave ==
  /\ mode \in {"commit", "discard"}
  /\ \A h \in Handle : patch[level][h] = NoPatch
  /\ level' = level - 1
  /\ mode' = "run"
  /\ UNCHANGED <<slot, count, free, table, patch, pending>>

\* save(), at the end of a task: unused handles at the end are dropped.
Save ==
  /\ mode = "run" /\ level = 0
  /\ mode' = "save"
  /\ UNCHANGED <<slot, count, free, table, level, patch, pending>>

Trim ==
  /\ mode = "save"
  /\ count > 0 /\ slot[count] = None
  /\ free' = Without(free, Position(free, count))
  /\ count' = count - 1
  /\ UNCHANGED <<slot, table, level, patch, pending, mode>>

Saved ==
  /\ mode = "save"
  /\ count > 0 => slot[count] # None
  /\ mode' = "run"
  /\ UNCHANGED <<slot, count, free, table, level, patch, pending>>

Next ==
  \/ \E c \in CallOut : NewCallOut(c)
  \/ \E h \in Handle : DelCallOut(h) \/ CallOutRuns(h)
                       \/ CommitPatch(h) \/ DiscardPatch(h)
  \/ Enter \/ Return \/ Fail \/ Leave
  \/ Save \/ Trim \/ Saved

Spec == Init /\ [][Next]_vars

-----------------------------------------------------------------------------
TypeOK ==
  /\ slot \in [Handle -> Slot]
  /\ count \in 0 .. MaxHandle
  /\ free \in Seq(Handle)
  /\ table \in [Handle -> Slot]
  /\ level \in 0 .. MaxLevel
  /\ patch \in [Level -> [Handle -> Patch \cup {NoPatch}]]
  /\ pending \in Int
  /\ mode \in {"run", "commit", "discard", "save"}

\* What a patch found, and what it leaves.
Old(p) == IF p.type = "add" THEN None ELSE p.rco
New(p) == IF p.type = "remove" THEN None ELSE p.aco

WellFormed(p) ==
  /\ p.type = "add" => p.aco # None
  /\ p.type = "remove" => p.rco # None
  /\ p.type = "replace" => p.aco # None /\ p.rco # None

\* The levels above l at which planes p have a patch of h.
Patched(p, l, h) == {m \in Level : m > l /\ p[m][h] # NoPatch}

Lowest(S) == CHOOSE m \in S : \A n \in S : m <= n

\* The call-outs s with the planes p above level l undone: of each handle what
\* the lowest of their patches found.
Undone(s, p, l) ==
  [h \in Handle |->
     IF Patched(p, l, h) = {} THEN s[h] ELSE Old(p[Lowest(Patched(p, l, h))][h])]

View(l) == Undone(slot, patch, l)

\* The list of free handles holds every unused handle up to count once, and
\* nothing else: allocCallOut() never gives out a handle that is in use.
Listed(s) == {s[i] : i \in 1 .. Len(s)}
Distinct(s) == \A i, j \in 1 .. Len(s) : s[i] = s[j] => i = j

FreeRight ==
  /\ Distinct(free)
  /\ Listed(free) = {h \in 1 .. count : slot[h] = None}
  /\ \A h \in Handle : h > count => slot[h] = None

\* A patch leaves what the patch of the plane above it found: patches of one
\* handle alternate between adding and removing, from plane to plane, so
\* newCallOut() never finds a patch that adds ("not a summand").
PatchesChain ==
  \A l \in Level, h \in Handle :
    patch[l][h] # NoPatch =>
      /\ l <= level /\ h <= count
      /\ WellFormed(patch[l][h])
      /\ New(patch[l][h]) = View(l)[h]

\* The call-out table has what was there before the outermost atomic function
\* was called, whatever has been committed, undone or merged since; outside
\* of atomic functions it agrees with the dataspace.
TableIsBase == table = View(0)

\* Patches are a chain from the table to the present, for each handle.
PatchesRight == PatchesChain /\ TableIsBase

\* ncallout, by which check() leaves room in the table, counts the call-outs
\* that a commit would add less those that it would remove.
CountRight ==
  LET At(lh) == patch[lh[1]][lh[2]]
      Patches(type) == {lh \in Level \X Handle :
                          At(lh) # NoPatch /\ At(lh).type = type}
  IN  pending = Cardinality(Patches("add")) - Cardinality(Patches("remove"))

\* An atomic function that fails leaves the call-outs as it found them, one
\* that returns keeps what it did, at every level of nesting.
Depth == IF mode \in {"commit", "discard"} THEN level - 1 ELSE level

Store == INSTANCE AtomicStore WITH
  Key <- Handle,
  Value <- CallOut,
  store <- IF mode = "discard" THEN View(level - 1) ELSE slot,
  depth <- Depth,
  saved <- [d \in 1 .. Depth |-> View(d - 1)]

IsAtomic == Store!Spec
=============================================================================
