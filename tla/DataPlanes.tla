----------------------------- MODULE DataPlanes -----------------------------
(***************************************************************************)
(* The variables and arrays of objects in atomic functions (data.cpp,      *)
(* array.cpp).  Each object has a dataspace; a dataspace gets a plane for  *)
(* the level at which functions run when one is called in it, or when an   *)
(* array of it is changed.  The plane keeps the variables as they were     *)
(* before the first change, and a backup of every array that is changed    *)
(* for the first time at that level: what it was, and the plane it was on. *)
(* Levels may be missing in a dataspace; commit() then inserts a plane.    *)
(* At the end of the task, arrays that more than one object refers to are  *)
(* copied (xport).                                                         *)
(*                                                                         *)
(* Strings are kept as arrays are, without backups.  Mappings and          *)
(* light-weight objects are arrays here.  Everything is loaded; call-outs  *)
(* are in DataCallOuts.                                                   *)
(***************************************************************************)
EXTENDS Integers, Sequences, FiniteSets

CONSTANTS
  Data,         \* dataspaces
  Var,          \* variables of all of them
  Of(_),        \* the dataspace of a variable
  Stored(_),    \* the array in the swap file that a variable refers to, or nil
  MaxArrays,    \* bound on arrays
  Index,        \* indices of an array
  Nil, Obj,     \* values that are not arrays: nil, an object
  None,         \* nothing: no backup, no ArrRef, an array that is not in use
  MaxLevel,     \* bound on the nesting of atomic functions
  MaxWork,      \* bound on what the task does
  OwnerCleans   \* whether array operations are used that remove destructed
                \* objects from an array on the plane of its owner

Array == 1 .. MaxArrays
Value == Array \cup {Nil, Obj}

VARIABLES
  var,          \* variables
  elt,          \* elts of each array
  owner,        \* primary->data of each array
  local,        \* level of primary->plane, for an array without ArrRef
  frame,        \* level of the functions that hold the array in locals
  planes,       \* planes of each dataspace, from base to plane
  level,        \* level at which functions run
  cur,          \* dataspace of the running function
  callers,      \* those that called the atomic functions which run
  dead,         \* level at which the object was destructed; -1: it was not
  work,         \* what the task has done
  saved,        \* what the atomic functions found when they were called
  mode          \* "run", "xport", "end"

values == <<var, elt, owner, local, frame>>
calls == <<level, cur, callers>>
vars == <<values, planes, calls, dead, work, saved, mode>>

-----------------------------------------------------------------------------
Top(d) == planes[d][Len(planes[d])]

\* An array which was loaded from the swap file, and is still saved there.
In(a) == Top(owner[a]).arrays[a] # None

\* primary->plane
PlaneOf(a) == IF In(a) THEN Top(owner[a]).arrays[a].plane ELSE local[a]

InUse == {a \in Array : owner[a] # None}

VarsOf(d) == {v \in Var : Of(v) = d}

Foreign(d, x) == x \in Array /\ owner[x] # d

\* What a program sees of a value: a destructed object is nil.
Seen(x) == IF x = Obj /\ dead >= 0 THEN Nil ELSE x

View ==
  [var |-> [v \in Var |-> Seen(var[v])],
   elt |-> [a \in InUse |-> [i \in Index |-> Seen(elt[a][i])]],
   owner |-> owner]

\* The planes of d raised to level l.
Raised(d, l) ==
  IF Top(d).level = l THEN planes[d]
  ELSE Append(planes[d], [Top(d) EXCEPT !.level = l, !.original = None, !.backups = {}])

\* backupArray(): ps, with a backup of a on the last of them.
Backup(a, ps) ==
  LET n == Len(ps)
      p == PlaneOf(a)
      q == [ps[n] EXCEPT !.backups = @ \cup {[arr |-> a, elts |-> elt[a], plane |-> p]}]
  IN  IF p = q.level THEN ps
      ELSE [ps EXCEPT ![n] = IF In(a) THEN [q EXCEPT !.arrays[a].plane = q.level] ELSE q]

\* refRhs(), on plane p of d: a reference to x is added.
RefRhs(d, p, x) ==
  IF x \notin Array THEN p
  ELSE IF Foreign(d, x) THEN [p EXCEPT !.imports = @ + 1, !.achange = @ + 1]
  ELSE IF p.arrays[x] # None THEN [p EXCEPT !.arrays[x].ref = @ + 1]
  ELSE [p EXCEPT !.achange = @ + 1]

\* The last reference to x from what is saved of d is removed.
Drops(d, p, x) ==
  /\ x \in Array /\ ~Foreign(d, x)
  /\ p.arrays[x] # None /\ p.arrays[x].ref = 1

\* delLhs(), on plane p of d: a reference to x is removed.
DelLhs(d, p, x) ==
  IF x \notin Array THEN p
  ELSE IF Foreign(d, x) THEN [p EXCEPT !.imports = @ - 1, !.achange = @ - 1]
  ELSE IF Drops(d, p, x) THEN [p EXCEPT !.arrays[x] = None, !.achange = @ + 1]
  ELSE IF p.arrays[x] # None THEN [p EXCEPT !.arrays[x].ref = @ - 1]
  ELSE [p EXCEPT !.achange = @ - 1]

\* Number of elements f[i] that are arrays of another dataspace than d.
Imports(d, f) == Cardinality({i \in DOMAIN f : Foreign(d, f[i])})

\* The arrays of S, their elements in e, and theirs, as far as they are in R.
Reach(e, S, R) ==
  LET r[n \in 0 .. MaxArrays] ==
        IF n = 0 THEN S \cap R
        ELSE LET q == r[n - 1]
             IN  q \cup (R \cap UNION {{e[a][i] : i \in Index} : a \in q})
  IN  r[MaxArrays]

-----------------------------------------------------------------------------
NoPlane ==
  [level |-> 0, original |-> None, backups |-> {}, imports |-> 0, achange |-> 0,
   arrays |-> [a \in Array |-> None]]

\* The arrays in the swap file are loaded; all elements are nil.
Init ==
  /\ var = [v \in Var |-> Stored(v)]
  /\ elt = [a \in Array |-> [i \in Index |-> Nil]]
  /\ owner = [a \in Array |->
       IF \E v \in Var : Stored(v) = a THEN Of(CHOOSE v \in Var : Stored(v) = a) ELSE None]
  /\ local = [a \in Array |-> 0]
  /\ frame = [a \in Array |-> 0]
  /\ planes = [d \in Data |->
       <<[NoPlane EXCEPT !.arrays = [a \in Array |->
            IF owner[a] = d
              THEN [plane |-> 0, ref |-> Cardinality({v \in Var : Stored(v) = a})]
              ELSE None]]>>]
  /\ level = 0
  /\ cur \in Data
  /\ callers = <<>>
  /\ dead = -1
  /\ work = 0
  /\ saved = <<>>
  /\ mode = "run"

Works ==
  /\ mode = "run" /\ work < MaxWork
  /\ work' = work + 1
  /\ UNCHANGED <<saved, mode>>

\* assignVar(), with backupVars().
AssignVar(v, x) ==
  /\ Works
  /\ Of(v) = cur /\ x # var[v]
  /\ LET p0 == Top(cur)
         p1 == IF level # 0 /\ p0.original = None
                 THEN [p0 EXCEPT !.original = [w \in VarsOf(cur) |-> var[w]]] ELSE p0
         p2 == RefRhs(cur, p1, x)
         old == var[v]
     IN  /\ planes' = [planes EXCEPT ![cur][Len(planes[cur])] = DelLhs(cur, p2, old)]
         /\ local' = IF Drops(cur, p2, old)
                       THEN [local EXCEPT ![old] = p2.arrays[old].plane] ELSE local
  /\ var' = [var EXCEPT ![v] = x]
  /\ UNCHANGED <<elt, owner, frame, calls, dead>>

\* assignElt(), called with the dataspace that is at level l.
SetElt(a, i, x, l) ==
  LET d == owner[a]
      ps == Backup(a, Raised(d, l))
      p0 == ps[Len(ps)]
      p1 == RefRhs(d, p0, x)
      old == elt[a][i]
      p2 == IF p0.arrays[a] # None THEN DelLhs(d, p1, old)
            ELSE [p0 EXCEPT !.imports =
                    @ + Imports(d, <<x>>) - Imports(d, <<old>>)]
      dropped == p0.arrays[a] # None /\ Drops(d, p1, old)
      placed == IF p0.arrays[a] = None THEN [local EXCEPT ![a] = p0.level] ELSE local
  IN  /\ planes' = [planes EXCEPT ![d] = [ps EXCEPT ![Len(ps)] = p2]]
      /\ local' = IF dropped THEN [placed EXCEPT ![old] = p1.arrays[old].plane] ELSE placed
      /\ elt' = [elt EXCEPT ![a][i] = x]

AssignElt(a, i, x) ==
  /\ Works
  /\ a \in InUse /\ x # elt[a][i]
  /\ SetElt(a, i, x, level)
  /\ UNCHANGED <<var, owner, frame, calls, dead>>

\* Array operations that remove destructed objects: copytmp(), and the other
\* operand of sub(), intersect() and setAdd().
Clean(a, i) ==
  /\ Works
  /\ a \in InUse /\ elt[a][i] = Obj /\ dead >= 0
  /\ \/ SetElt(a, i, Nil, level)
     \/ OwnerCleans /\ SetElt(a, i, Nil, Top(owner[a]).level)
  /\ UNCHANGED <<var, owner, frame, calls, dead>>

\* Two thirds of the arrays are left for copies: one of an array, one of a copy.
Unused == CHOOSE a \in Array : owner[a] = None /\ \A b \in Array : owner[b] = None => a <= b

\* Array::create(), then refImports().
Create(f) ==
  /\ Works
  /\ 3 * Cardinality(InUse) < MaxArrays
  /\ elt' = [elt EXCEPT ![Unused] = f]
  /\ owner' = [owner EXCEPT ![Unused] = cur]
  /\ local' = [local EXCEPT ![Unused] = level]
  /\ frame' = [frame EXCEPT ![Unused] = level]
  /\ planes' = [planes EXCEPT ![cur][Len(planes[cur])].imports = @ + Imports(cur, f)]
  /\ UNCHANGED <<var, calls, dead>>

\* The object is destructed; undone with the level (ObjectPlanes).
Destruct ==
  /\ Works
  /\ dead < 0
  /\ dead' = level
  /\ UNCHANGED <<values, planes, calls>>

\* funcall(), or the return from one at the same level.
Switch(d) ==
  /\ Works
  /\ d # cur
  /\ cur' = d
  /\ planes' = [planes EXCEPT ![d] = Raised(d, level)]
  /\ UNCHANGED <<values, level, callers, dead>>

\* funcall() of an atomic function, outside of one or in a catch.
Enter(d) ==
  /\ mode = "run" /\ work < MaxWork /\ level < MaxLevel
  /\ level' = level + 1
  /\ callers' = Append(callers, cur)
  /\ cur' = d
  /\ planes' = [planes EXCEPT ![d] = Raised(d, level + 1)]
  /\ saved' = Append(saved, View)
  /\ work' = work + 1
  /\ UNCHANGED <<values, dead, mode>>

\* Only the arrays in S are kept.
Keep(S, e, o, l, f) ==
  /\ elt' = [a \in Array |-> IF a \in S THEN e[a] ELSE [i \in Index |-> Nil]]
  /\ owner' = [a \in Array |-> IF a \in S THEN o[a] ELSE None]
  /\ local' = [a \in Array |-> IF a \in S THEN l[a] ELSE 0]
  /\ frame' = [a \in Array |-> IF a \in S THEN f[a] ELSE 0]

Range(f) == {f[x] : x \in DOMAIN f}

\* Dataspaces with a plane at the level that ends.
Ending == {d \in Data : Top(d).level = level}

LocalHere == {a \in InUse : ~In(a) /\ local[a] = level}

\* Mutant: the elements of arrays that are committed stay behind.
MovedNotElts(x) ==
  {a \in UNION {{b.arr : b \in Top(d).backups} : d \in Ending} : PlaneOf(a) = level}
    \cup (LocalHere \cap ({x} \cup {var[v] : v \in {w \in Var :
       Of(w) \in Ending /\ Top(Of(w)).original # None}}))

\* commitValues(), commitArray(): the arrays that go to the plane below, with x
\* returned.
Moved(x) ==
  LET changed == {a \in UNION {{b.arr : b \in Top(d).backups} : d \in Ending} :
                    PlaneOf(a) = level}
      used == {var[v] : v \in {w \in Var :
                 Of(w) \in Ending /\ Top(Of(w)).original # None}}
  IN  changed \cup Reach(elt, {x} \cup used \cup UNION {Range(elt[a]) : a \in changed}, LocalHere)

\* Mutant: backups of the level that ends are not needed any more.
InheritedNone(p) == {}

\* Backup::item(): backups of plane p that the plane below it needs as well.
Inherited(p) == {b \in p.backups : b.plane # level - 1}

\* commit(), of one dataspace.
Merged(d, moved) ==
  LET ps == planes[d]
      p == Top(d)
      q == ps[Len(ps) - 1]
      merge == q.level = level - 1
      arrays == [a \in Array |->
        IF p.arrays[a] # None /\ a \in moved
          THEN [p.arrays[a] EXCEPT !.plane = level - 1] ELSE p.arrays[a]]
      base == IF merge THEN q ELSE [p EXCEPT !.level = level - 1, !.original = None]
      c == [base EXCEPT
             !.original = IF p.original # None /\ level > 1 /\ @ = None THEN p.original ELSE @,
             !.backups = IF merge THEN @ \cup Inherited(p) ELSE @,
             !.arrays = arrays, !.imports = p.imports, !.achange = p.achange]
  IN  SubSeq(ps, 1, IF merge THEN Len(ps) - 2 ELSE Len(ps) - 1) \o <<c>>

Leave ==
  /\ mode = "run" /\ level > 0
  /\ level' = level - 1
  /\ cur' = callers[level]
  /\ callers' = SubSeq(callers, 1, level - 1)
  /\ saved' = SubSeq(saved, 1, level - 1)
  /\ UNCHANGED <<work, mode>>

\* commit(), with x returned.  Arrays that only the functions which ended
\* referred to are gone; those in backups are older.
Commit(x) ==
  /\ Leave
  /\ LET moved == Moved(x)
         held == {a \in InUse : frame[a] < level}
     IN  /\ planes' = [d \in Data |-> IF d \in Ending THEN Merged(d, moved) ELSE planes[d]]
         /\ Keep(Reach(elt, {x} \cup Range(var) \cup held, InUse),
                 elt, owner,
                 [a \in Array |-> IF a \in moved THEN level - 1 ELSE local[a]],
                 [a \in Array |-> IF frame[a] = level THEN level - 1 ELSE frame[a]])
  /\ dead' = IF dead = level THEN level - 1 ELSE dead
  /\ UNCHANGED var

\* Backups of the planes that are discarded.
Undone == UNION {Top(d).backups : d \in Ending}

\* discard()
Discard ==
  /\ Leave
  /\ LET changed == {b.arr : b \in Undone}
         bak(a) == CHOOSE b \in Undone : b.arr = a
         old(v) == Top(Of(v)).original
         e == [a \in Array |-> IF a \in changed THEN bak(a).elts ELSE elt[a]]
     IN  /\ planes' = [d \in Data |->
              IF d \in Ending THEN SubSeq(planes[d], 1, Len(planes[d]) - 1) ELSE planes[d]]
         /\ var' = [v \in Var |->
              IF Of(v) \in Ending /\ old(v) # None THEN old(v)[v] ELSE var[v]]
         /\ Keep(Reach(e, {a \in InUse : frame[a] < level} \cup Range(var'), InUse), e, owner,
                 [a \in Array |-> IF a \in changed THEN bak(a).plane ELSE local[a]],
                 frame)
  /\ dead' = IF dead = level THEN -1 ELSE dead

\* What is used by the variables and stored arrays of dataspaces ds.
Used(ds) ==
  Reach(elt, {var[v] : v \in {w \in Var : Of(w) \in ds}} \cup {a \in InUse : In(a) /\ owner[a] \in ds},
        InUse)

\* endTask(): locals are gone.
EndTask ==
  /\ mode = "run" /\ level = 0
  /\ mode' = "xport"
  /\ Keep(Used(Data), elt, owner, local, frame)
  /\ saved' = <<[var |-> var, elt |-> elt]>>
  /\ UNCHANGED <<var, planes, calls, dead, work>>

\* Mutant: arrays are moved, whoever uses them.
KeptNone(d) == {}

\* Arrays that dataspaces other than d keep.
Kept(d) == Used(Data \ {d})

\* ArrImport: new arrays for the copies of those in S.
Fresh(S) ==
  CHOOSE f \in [S -> Array \ InUse] : \A a, b \in S : a # b => f[a] # f[b]

\* xport() of dataspace d: arrays of other dataspaces are moved, or copied
\* if they are used there as well.  (An array with several references that all
\* come from d is copied as well, and then deleted: the same but for its name.)
Import(d) ==
  LET imported == {a \in Used({d}) : owner[a] # d}
      copied == imported \cap Kept(d)
      fresh == Fresh(copied)
      New(x) == IF x \in copied THEN fresh[x] ELSE x
      mine == {a \in Used({d}) : owner[a] = d} \cup (imported \ copied)
      Copy(a) == CHOOSE b \in copied : fresh[b] = a
      made == Range(fresh)
  IN  /\ mode = "xport" /\ Top(d).imports # 0
      /\ planes' = [planes EXCEPT ![d][1].imports = 0]
      /\ var' = [v \in Var |-> IF Of(v) = d THEN New(var[v]) ELSE var[v]]
      /\ elt' = [a \in Array |->
           IF a \in made THEN [i \in Index |-> New(elt[Copy(a)][i])]
           ELSE IF a \in mine THEN [i \in Index |-> New(elt[a][i])] ELSE elt[a]]
      /\ owner' = [a \in Array |-> IF a \in made \cup mine THEN d ELSE owner[a]]
      /\ local' = [a \in Array |-> IF a \in made \cup imported THEN 0 ELSE local[a]]
      /\ UNCHANGED <<frame, calls, dead, work, saved, mode>>

Exported ==
  /\ mode = "xport" /\ \A d \in Data : Top(d).imports = 0
  /\ mode' = "end"
  /\ Keep(Used(Data), elt, owner, local, frame)
  /\ UNCHANGED <<var, planes, calls, dead, work, saved>>

\* The next task calls a function in d; enough arrays are left.
StartTask(d) ==
  /\ mode = "end" /\ 3 * Cardinality(InUse) <= MaxArrays
  /\ mode' = "run"
  /\ cur' = d
  /\ saved' = <<>>
  /\ UNCHANGED <<values, planes, level, callers, dead, work>>

\* No task.
Idle == mode = "end" /\ UNCHANGED vars

Next ==
  \/ \E v \in Var, x \in {Nil, Obj} \cup InUse : AssignVar(v, x)
  \/ \E a \in Array, i \in Index : Clean(a, i) \/ \E x \in {Nil, Obj} \cup InUse : AssignElt(a, i, x)
  \/ \E f \in [Index -> {Nil} \cup InUse] : Create(f)
  \/ Destruct
  \/ \E d \in Data : Switch(d) \/ Enter(d) \/ Import(d) \/ StartTask(d)
  \/ \E x \in {Nil} \cup {a \in InUse : frame[a] = level} : Commit(x)
  \/ Discard \/ EndTask \/ Exported \/ Idle

Spec == Init /\ [][Next]_vars

-----------------------------------------------------------------------------
\* Positions in what is saved of d, variables and elements of stored arrays,
\* that hold x; and those in all arrays of d.
VarsWith(d, x) == {v \in VarsOf(d) : var[v] = x}
EltsWith(S, x) == {p \in S \X Index : elt[p[1]][p[2]] = x}
OwnedBy(d) == {a \in InUse : owner[a] = d}
StoredIn(d) == {a \in OwnedBy(d) : In(a)}

\* The planes of a dataspace have increasing levels, none above the level at
\* which functions run; the running function's is at that level.  Every array
\* is on a plane that still exists, and its backups are of earlier planes
\* (commit(), discard(), data.cpp:547).
NoDangling ==
  mode = "run" =>
    /\ Top(cur).level = level
    /\ \A d \in Data :
         /\ \A m, n \in DOMAIN planes[d] : m < n => planes[d][m].level < planes[d][n].level
         /\ Top(d).level <= level
         /\ \A n \in DOMAIN planes[d] : \A b \in planes[d][n].backups :
              /\ b.arr \in OwnedBy(d)
              /\ \E m \in 1 .. n - 1 : planes[d][m].level = b.plane
    /\ \A a \in InUse : \E n \in DOMAIN planes[owner[a]] :
         planes[owner[a]][n].level = PlaneOf(a)

\* Imports are never counted short: a dataspace that refers to arrays of
\* another one, from a variable or an array, has a count that is not zero when
\* xport() looks at it, whatever was committed and undone before.
ImportsRight ==
  mode = "run" =>
    \A d \in Data :
      Top(d).imports >= Cardinality({v \in VarsOf(d) : Foreign(d, var[v])})
        + Cardinality({p \in OwnedBy(d) \X Index : Foreign(d, elt[p[1]][p[2]])})

\* save() writes single variables and elements only when all of them refer to
\* arrays that are stored with the dataspace already, and it knows how often
\* they do.
StoredRight ==
  \A d \in Data :
    /\ \A x \in Array \ StoredIn(d) :
         VarsWith(d, x) # {} \/ EltsWith(StoredIn(d), x) # {} => Top(d).achange # 0
    /\ \A x \in StoredIn(d) :
         Top(d).arrays[x].ref >=
           Cardinality(VarsWith(d, x)) + Cardinality(EltsWith(StoredIn(d), x))

\* What a dataspace keeps about its values, on each plane, is true of them.
PlanesRight == NoDangling /\ ImportsRight /\ StoredRight

\* At the end of the task no dataspace refers to an array of another one.
NoneShared ==
  mode = "end" =>
    \A d \in Data, v \in Var, a \in InUse, i \in Index :
      /\ ~Foreign(Of(v), var[v])
      /\ ~Foreign(owner[a], elt[a][i])

\* The value at the end of a path of elements, from variable v.
At(vs, es, v, path) ==
  LET f[n \in 0 .. Len(path)] ==
        IF n = 0 THEN vs[v]
        ELSE LET a == f[n - 1] IN IF a \in Array THEN es[a][path[n]] ELSE Nil
  IN  f[Len(path)]

Paths == UNION {[1 .. n -> Index] : n \in 0 .. 3}

\* What is copied looks as before: a dataspace finds the same values where it
\* found them, variables that had one array still have one, and two arrays
\* never become one.  (One array that it reaches through elements may become
\* two: the import of another dataspace can come in between.)
SharingKept ==
  mode = "end" =>
    \A v, w \in Var : Of(v) = Of(w) =>
      /\ var[v] = var[w] <=> saved[1].var[v] = saved[1].var[w]
      /\ \A p, q \in Paths :
           LET old(x, y) == At(saved[1].var, saved[1].elt, x, y)
               new(x, y) == At(var, elt, x, y)
           IN  /\ new(v, p) \in Array <=> old(v, p) \in Array
               /\ new(v, p) \notin Array => new(v, p) = old(v, p)
               /\ new(v, p) \in Array /\ new(v, p) = new(w, q) => old(v, p) = old(w, q)

\* The end of a task parts the dataspaces and changes nothing else.
ExportsRight == NoneShared /\ SharingKept

\* An atomic function that fails leaves nothing of what it did: variables and
\* arrays, those of other objects too, are what they were when it was called.
RollsBack ==
  [][level' < level /\ Discard => View' = saved[level]]_vars
=============================================================================
