---------------------------- MODULE ObjectPlanes ----------------------------
(***************************************************************************)
(* The object table of object.cpp with the planes of atomic functions:     *)
(* objects are found by name through a hash table; an atomic function has  *)
(* patched copies of the objects it touches, found through a second hash   *)
(* table which the planes share, and lists of its own of the objects that  *)
(* are free, destructed and to be cleaned up.                              *)
(*                                                                         *)
(* A record of an object is at an address <<l, i>>: level 0 is the object  *)
(* table, l > 0 the patches of the l-th plane.  The links between records  *)
(* are the pointers and the indices of the code; a field that is in two    *)
(* lists by turns is so here.  Programs, dataspaces and clones are left    *)
(* out but for what keeps a destructed master in the table: its            *)
(* references.  A hash table has one chain for each name.  The patches of  *)
(* a plane are handled in the order of another hash table: in any order.   *)
(***************************************************************************)
EXTENDS Integers, Sequences, FiniteSets

CONSTANTS
  Name,         \* names of objects
  NoName,       \* NULL
  NoPatch,      \* no record
  MaxObjects,   \* otabsize, the size of the object table
  MaxLevel,     \* bound on the nesting of planes
  RecompileLevel \* bound: the levels up to which a name may be compiled anew
                \* while a destructed object that has it is in the table

Index == 0 .. MaxObjects - 1
NoIndex == -1                   \* OBJ_NONE
Level == 1 .. MaxLevel
Nil == <<>>                     \* the null pointer

ASSUME PlaneAssumption ==
  /\ MaxObjects \in Nat \ {0}
  /\ MaxLevel \in Nat
  /\ RecompileLevel \in Nat
  /\ NoName \notin Name

VARIABLES
  obj,          \* obj[l][i]: record of object i in the table or on a plane
  static,       \* baseplane.htab, of the objects in the table
  htab,         \* oplane->htab, of the patches
  list,         \* list[l]: the heads of the lists, and nobjects, of plane l
  level,        \* level of the plane oplane, 0 for baseplane
  mode          \* "run", or the loop that goes on: "commit", "discard"

vars == <<obj, static, htab, list, level, mode>>

Unused == [index |-> 0, name |-> NoName, live |-> FALSE, kept |-> FALSE,
           next |-> Nil, cref |-> 0, prev |-> 0]

-----------------------------------------------------------------------------
(* Records.  The operators take and return the records o and the hash      *)
(* table h of the patches, as [obj |-> o, htab |-> h].                     *)

\* The level of the patch of i that counts at level l; 0 if there is none.
TopLevel(o, l, i) ==
  CHOOSE k \in 0 .. l :
    /\ k = 0 \/ o[k][i] # NoPatch
    /\ \A m \in k + 1 .. l : o[m][i] = NoPatch

Top(o, l, i) == o[TopLevel(o, l, i)][i]

\* OBJR(): the name of a live patch is made to lead to it again.
Read(o, h, l, i) ==
  LET k == TopLevel(o, l, i)
      r == o[k][i]
  IN  [obj |-> o,
       htab |-> IF k > 0 /\ r.name # NoName /\ r.live
                  THEN [h EXCEPT ![r.name] = <<k, i>>] ELSE h]

\* OBJW(): the record of i on plane l, with a new patch if there is none.
Write(o, h, l, i) ==
  LET k == TopLevel(o, l, i)
      r == o[k][i]
      named == r.name # NoName /\ r.live
  IN  IF l = 0 THEN [obj |-> o, htab |-> h]
      ELSE [obj |-> CASE k = l -> o
                      [] k = 0 /\ named ->
                           [o EXCEPT ![l][i] = [r EXCEPT !.next = h[r.name]]]
                      [] OTHER -> [o EXCEPT ![l][i] = r],
            htab |-> IF named THEN [h EXCEPT ![r.name] = <<l, i>>] ELSE h]

\* find(): the object with a name, NoIndex if there is none.
Find(name) ==
  LET base == static[name]
  IN  CASE level > 0 /\ htab[name] # Nil -> htab[name][2]
        [] (level = 0 \/ htab[name] = Nil) /\ base # Nil ->
             IF Top(obj, level, base[2]).live THEN base[2] ELSE NoIndex
        [] OTHER -> NoIndex

-----------------------------------------------------------------------------
Init ==
  /\ obj = [l \in 0 .. MaxLevel |->
              [i \in Index |-> IF l = 0 THEN Unused ELSE NoPatch]]
  /\ static = [n \in Name |-> Nil]
  /\ htab = [n \in Name |-> Nil]
  /\ list = [l \in 0 .. MaxLevel |->
               [clean |-> Nil, destruct |-> NoIndex, free |-> NoIndex, nobjects |-> 0]]
  /\ level = 0
  /\ mode = "run"

\* space()
Space == list[level].free # NoIndex \/ list[level].nobjects # MaxObjects

\* alloc(): the first free object, or the next of the table.
NextFree ==
  IF list[level].free # NoIndex THEN list[level].free ELSE list[level].nobjects

\* The lists of the plane once alloc() has taken an object that the table
\* has the record r of.
Taken(r) ==
  IF list[level].free # NoIndex THEN [list[level] EXCEPT !.free = r.prev]
                                ELSE [list[level] EXCEPT !.nobjects = @ + 1]

\* Compile::compile() of an object that does not exist, with create().
Create(name) ==
  LET i == NextFree
      w == Write(obj, htab, level, i)
      r == [w.obj[level][i] EXCEPT
              !.index = i, !.name = name, !.live = TRUE, !.kept = FALSE,
              !.prev = NoIndex,
              !.next = IF level = 0 THEN static[name] ELSE w.htab[name]]
  IN  /\ mode = "run"
      /\ Find(name) = NoIndex
      /\ level <= RecompileLevel \/ \A k \in Index : Top(obj, level, k).name # name
      /\ Space
      /\ list' = [list EXCEPT ![level] = Taken(w.obj[level][i])]
      /\ obj' = IF level = 0
                  THEN [w.obj EXCEPT ![0][i] = r]
                  ELSE [w.obj EXCEPT ![0][i].index = NoIndex, ![level][i] = r]
      /\ IF level = 0
           THEN static' = [static EXCEPT ![name] = <<0, i>>] /\ htab' = w.htab
           ELSE htab' = [w.htab EXCEPT ![name] = <<level, i>>] /\ UNCHANGED static
      /\ UNCHANGED <<level, mode>>

\* del() of a master: it leaves the hash table and waits to be cleaned up;
\* unless references keep it, remove() puts it in the list of destructed ones.
Destruct(i, kept) ==
  LET w == Write(obj, htab, level, i)
      r == w.obj[level][i]
  IN  /\ mode = "run"
      /\ Top(obj, level, i).live
      /\ obj' = [w.obj EXCEPT ![level][i] =
                   [r EXCEPT !.live = FALSE, !.kept = kept,
                             !.cref = IF kept THEN @ ELSE list[level].destruct,
                             !.next = list[level].clean]]
      /\ list' = [list EXCEPT ![level].clean = <<0, i>>,
                              ![level].destruct = IF kept THEN @ ELSE i]
      /\ IF level = 0
           THEN static' = [static EXCEPT ![r.name] = r.next] /\ htab' = w.htab
           ELSE htab' = [w.htab EXCEPT ![r.name] = r.next] /\ UNCHANGED static
      /\ UNCHANGED <<level, mode>>

\* remove(): the last reference to a destructed master is gone.
Release(i) ==
  LET w == Write(obj, htab, level, i)
  IN  /\ mode = "run"
      /\ Top(obj, level, i).kept
      /\ obj' = [w.obj EXCEPT ![level][i].kept = FALSE,
                              ![level][i].cref = list[level].destruct]
      /\ list' = [list EXCEPT ![level].destruct = i]
      /\ htab' = w.htab
      /\ UNCHANGED <<static, level, mode>>

\* The references of a master are counted: clone(), create() and del() of
\* others.  Nothing that is kept here changes, but the record is patched.
Touch(i) ==
  LET w == Write(obj, htab, level, i)
  IN  /\ mode = "run"
      /\ Top(obj, level, i).live \/ Top(obj, level, i).kept
      /\ obj' = w.obj
      /\ htab' = w.htab
      /\ UNCHANGED <<static, list, level, mode>>

\* A reference to an object is looked at.
Look(i) ==
  /\ mode = "run"
  /\ Top(obj, level, i).index = i
  /\ htab' = Read(obj, htab, level, i).htab
  /\ UNCHANGED <<obj, static, list, level, mode>>

-----------------------------------------------------------------------------
(* Planes *)

\* newPlane()
Enter ==
  /\ mode = "run" /\ level < MaxLevel
  /\ level' = level + 1
  /\ list' = [list EXCEPT ![level + 1] = list[level]]
  /\ UNCHANGED <<obj, static, htab, mode>>

Return ==
  /\ mode = "run" /\ level > 0
  /\ mode' = "commit"
  /\ UNCHANGED <<obj, static, htab, list, level>>

Fail ==
  /\ mode = "run" /\ level > 0
  /\ mode' = "discard"
  /\ UNCHANGED <<obj, static, htab, list, level>>

\* Whether the patch op destructs the object o of the table.
Destructs(op, o) == o.name # NoName /\ ~op.live /\ o.live

\* The link of object o of the table once the patch op is copied onto it: that
\* of a hash chain if it is live, else that of the list of the plane.
LinkOfTable(op, o) == o.next   \* mutant: the link is never that of the plane
LinkCommitted(op, o) ==
  CASE op.live /\ o.name = NoName -> static[op.name]
    [] op.live /\ o.name # NoName -> o.next
    [] ~op.live -> op.next

\* Whether another object with the name of i has been committed before it.
NoneCompiled(i, name) == FALSE   \* mutant: none ever is
CompiledAnew(i, name) == static[name] # <<0, i>>

\* commitPlane(): a patch of the lowest plane is copied to the object table.
CommitToTable(i) ==
  LET op == obj[1][i]
      o == obj[0][i]
      copied == [obj EXCEPT ![0][i] = [op EXCEPT !.next = LinkCommitted(op, o)],
                            ![1][i] = NoPatch]
  IN  /\ mode = "commit" /\ level = 1
      /\ op # NoPatch
      /\ CASE op.live /\ o.name = NoName ->
                static' = [static EXCEPT ![op.name] = <<0, i>>] /\ obj' = copied
           [] Destructs(op, o) /\ ~CompiledAnew(i, o.name) ->
                static' = [static EXCEPT ![o.name] = o.next] /\ obj' = copied
           [] Destructs(op, o) /\ CompiledAnew(i, o.name) ->
                /\ obj' = [copied EXCEPT ![0][static[o.name][2]].next = o.next]
                /\ UNCHANGED static
           [] OTHER -> obj' = copied /\ UNCHANGED static
      /\ UNCHANGED <<htab, list, level, mode>>

\* The pointer p once the patch of i has been handed down from plane l.
Moved(p, l, i) == IF p = <<l, i>> THEN <<l - 1, i>> ELSE p

\* The patch of the plane below once op has been copied onto it.
Kept(op, below) == below   \* mutant: only the name is moved
Copied(op, below) == op

\* commitPlane(): a patch is handed to the plane below, or copied onto the
\* patch that is there.
CommitToPlane(i) ==
  LET op == obj[level][i]
      below == obj[level - 1][i]
      handed == [l \in 0 .. MaxLevel |-> [k \in Index |->
                   IF obj[l][k] = NoPatch THEN NoPatch
                   ELSE [obj[l][k] EXCEPT !.next = Moved(@, level, i)]]]
  IN  /\ mode = "commit" /\ level > 1
      /\ op # NoPatch
      /\ IF below = NoPatch
           THEN /\ obj' = [handed EXCEPT ![level - 1][i] = handed[level][i],
                                         ![level][i] = NoPatch]
                /\ htab' = [n \in Name |-> Moved(htab[n], level, i)]
           ELSE /\ obj' = [obj EXCEPT ![level - 1][i] = Copied(op, below),
                                      ![level][i] = NoPatch]
                /\ htab' = IF op.name # NoName /\ op.live
                             THEN [htab EXCEPT ![op.name] = <<level - 1, i>>]
                             ELSE htab
      /\ UNCHANGED <<static, list, level, mode>>

\* The index of the record o that alloc() took it from.
IndexGivenBack(op, o) == IF o.index = NoIndex THEN op.index ELSE o.index

\* The hash table of the patches without a name that the patch op gave it.
NameRemoved(op) == IF op.live THEN [htab EXCEPT ![op.name] = op.next] ELSE htab

\* discardPlane(): a patch is deleted, and its name given back to the record
\* o that it was made from, of level k.
DiscardPatch(i) ==
  LET op == obj[level][i]
      k == TopLevel(obj, level - 1, i)
      o == obj[k][i]
      new == o.name = NoName \/ k = 0
      deleted == [obj EXCEPT ![k][i].index = IndexGivenBack(op, o),
                             ![level][i] = NoPatch]
  IN  /\ mode = "discard"
      /\ op # NoPatch
      /\ CASE op.name # NoName /\ new ->
                htab' = NameRemoved(op) /\ obj' = deleted
           [] op.name # NoName /\ ~new /\ (op.live \/ o.live) ->
                /\ htab' = [htab EXCEPT ![o.name] = <<k, i>>]
                /\ obj' = [deleted EXCEPT ![k][i].next =
                             IF op.live THEN op.next ELSE htab[o.name]]
           [] OTHER -> obj' = deleted /\ UNCHANGED htab
      /\ UNCHANGED <<static, list, level, mode>>

\* ObjPlane::commit(): the lists of the plane are those of the plane below.
CommittedLists ==
  [list EXCEPT ![level - 1] = list[level]]

\* The plane is deleted; the hash table of the patches goes with the last.
Leave ==
  /\ mode \in {"commit", "discard"}
  /\ \A i \in Index : obj[level][i] = NoPatch
  /\ list' = IF mode = "commit" THEN CommittedLists ELSE list
  /\ htab' = IF level = 1 THEN [n \in Name |-> Nil] ELSE htab
  /\ level' = level - 1
  /\ mode' = "run"
  /\ UNCHANGED <<obj, static>>

-----------------------------------------------------------------------------
(* The end of a task *)

\* The indices in the list from i on, by the link.
Chain(link, i) ==
  LET Follow[n \in 0 .. MaxObjects] ==
        IF n = 0 THEN <<i>>
        ELSE LET s == Follow[n - 1]
                 last == s[Len(s)]
             IN  IF last = NoIndex THEN s ELSE Append(s, link[last])
      all == Follow[MaxObjects]
  IN  IF all[Len(all)] = NoIndex THEN SubSeq(all, 1, Len(all) - 1) ELSE all

\* clean(): destructed objects without references become free, the last of
\* the list first in the list of free objects.
Clean ==
  LET gone == Chain([i \in Index |-> obj[0][i].cref], list[0].destruct)
      Before(i) == CHOOSE n \in 1 .. Len(gone) : gone[n] = i
      freed == {gone[n] : n \in 1 .. Len(gone)}
  IN  /\ mode = "run" /\ level = 0
      /\ obj' = [obj EXCEPT ![0] = [i \in Index |->
                  IF i \in freed
                    THEN [@[i] EXCEPT
                           !.name = NoName,
                           !.prev = IF Before(i) = 1 THEN list[0].free
                                                     ELSE gone[Before(i) - 1]]
                    ELSE @[i]]]
      /\ list' = [list EXCEPT ![0].clean = Nil, ![0].destruct = NoIndex,
                              ![0].free = IF gone = <<>> THEN @ ELSE gone[Len(gone)]]
      /\ UNCHANGED <<static, htab, level, mode>>

Next ==
  \/ \E name \in Name : Create(name)
  \/ \E i \in Index :
       \/ \E kept \in BOOLEAN : Destruct(i, kept)
       \/ Release(i) \/ Touch(i) \/ Look(i)
       \/ CommitToTable(i) \/ CommitToPlane(i) \/ DiscardPatch(i)
  \/ Enter \/ Return \/ Fail \/ Leave
  \/ Clean

Spec == Init /\ [][Next]_vars

-----------------------------------------------------------------------------
Pointer == {Nil} \cup ((0 .. MaxLevel) \X Index)
Link == Index \cup {NoIndex}
Record == [index : Link, name : Name \cup {NoName}, live : BOOLEAN, kept : BOOLEAN,
           next : Pointer, cref : Link, prev : Link]

ASSUME NoPatchAssumption == NoPatch \notin Record

TypeOK ==
  /\ \A i \in Index :
       /\ obj[0][i] \in Record
       /\ \A l \in Level : obj[l][i] \in Record \cup {NoPatch}
  /\ static \in [Name -> Pointer]
  /\ htab \in [Name -> Pointer]
  /\ list \in [0 .. MaxLevel -> [clean : Pointer, destruct : Link, free : Link,
                                 nobjects : 0 .. MaxObjects]]
  /\ level \in 0 .. MaxLevel
  /\ mode \in {"run", "commit", "discard"}

\* find() finds every object by its name, and finds no destructed one, in
\* whichever order the patches of earlier planes were committed or undone.
Findable ==
  mode = "run" =>
    /\ \A i \in Index :
         Top(obj, level, i).live => Find(Top(obj, level, i).name) = i
    /\ \A n \in Name : Find(n) # NoIndex => Top(obj, level, Find(n)).live

\* The hash tables lead to live records of their own kind, and their chains
\* end: no entry is left of a patch that was deleted.
Entries(h, n) ==
  LET Follow[k \in 0 .. MaxObjects + 1] ==
        IF k = 0 THEN <<h[n]>>
        ELSE LET s == Follow[k - 1]
                 p == s[Len(s)]
             IN  IF p = Nil \/ obj[p[1]][p[2]] = NoPatch THEN s
                 ELSE Append(s, obj[p[1]][p[2]].next)
  IN  Follow[MaxObjects + 1]

ChainsRight ==
  \A n \in Name :
    LET Whole(s) == s[Len(s)] = Nil
        Leads(p) == obj[p[1]][p[2]].name = n /\ obj[p[1]][p[2]].live
    IN  /\ Whole(Entries(static, n))
        /\ static[n] # Nil => static[n][1] = 0 /\ Leads(static[n])
        /\ mode = "run" => Whole(Entries(htab, n))
        /\ mode = "run" /\ htab[n] # Nil => htab[n][1] > 0 /\ Leads(htab[n])

\* Names lead to what they should through both hash tables.
NamesRight == TypeOK /\ Findable /\ ChainsRight

\* At every level each index is live, kept by references, destructed or free,
\* and in the list of its kind just once: an atomic function that fails gives
\* back the objects that it took, and destructs none.
ListsRight ==
  mode = "run" =>
    \A l \in 0 .. level :
      LET R == [i \in Index |-> Top(obj, l, i)]
          Used == 0 .. list[l].nobjects - 1
          free == Chain([i \in Index |-> R[i].prev], list[l].free)
          gone == Chain([i \in Index |-> R[i].cref], list[l].destruct)
          Holds(s, S) == /\ {s[n] : n \in 1 .. Len(s)} = S
                         /\ Len(s) = Cardinality(S)
      IN  /\ Holds(free, {i \in Used : R[i].name = NoName})
          /\ Holds(gone, {i \in Used : R[i].name # NoName /\ ~R[i].live /\ ~R[i].kept})

\* The list of objects to clean up holds destructed ones only: the link that
\* a hash chain used is not followed, or overwritten, as a link of this list.
CleanRight ==
  mode = "run" =>
    \A l \in 0 .. level :
      LET R == [i \in Index |-> Top(obj, l, i)]
          Next1(i) == IF R[i].next = Nil THEN NoIndex ELSE R[i].next[2]
          dead == Chain([i \in Index |-> IF R[i].live THEN i ELSE Next1(i)],
                        IF list[l].clean = Nil THEN NoIndex ELSE list[l].clean[2])
      IN  /\ \A n \in 1 .. Len(dead) : ~R[dead[n]].live /\ R[dead[n]].name # NoName
          /\ \A n, m \in 1 .. Len(dead) : dead[n] = dead[m] => n = m

\* An object of the table has its index again when an atomic function that
\* took it from the free objects fails (discardPlane()).
IndicesRight ==
  mode = "run" /\ level = 0 =>
    \A i \in Index : i < list[0].nobjects => obj[0][i].index = i

\* Together: an index is in the one list where it belongs, though the lists use
\* links that hash chains and other lists have used.
IndexListsRight == ListsRight /\ CleanRight /\ IndicesRight

\* The objects that there are, by name: atomic functions are atomic for them.
Named(l) ==
  [n \in Name |->
     IF \E i \in Index : Top(obj, l, i).live /\ Top(obj, l, i).name = n
       THEN CHOOSE i \in Index : Top(obj, l, i).live /\ Top(obj, l, i).name = n
       ELSE NoIndex]

Depth == IF mode = "run" THEN level ELSE level - 1

Store == INSTANCE AtomicStore WITH
  Key <- Name,
  Value <- Index,
  None <- NoIndex,
  store <- Named(IF mode = "discard" THEN level - 1 ELSE level),
  depth <- Depth,
  saved <- [d \in 1 .. Depth |-> Named(d - 1)]

IsAtomic == Store!Spec
=============================================================================
