------------------------ MODULE DataCallOuts_proofs ------------------------
(***************************************************************************)
(* Proofs about DataCallOuts, for any call-outs, handles and nesting.      *)
(***************************************************************************)
EXTENDS DataCallOuts, WellFoundedInduction, FiniteSetTheorems, TLAPS

USE DataAssumption

-----------------------------------------------------------------------------
(* Views *)

LEMMA LowestIs ==
  ASSUME NEW S \in SUBSET Level, S # {}
  PROVE  Lowest(S) \in S /\ \A n \in S : Lowest(S) <= n
<1>1. S \subseteq Nat
  BY DEF Level
<1>2. PICK m \in S : \A n \in S : ~ (<<n, m>> \in OpToRel(<, Nat))
  BY <1>1, NatLessThanWellFounded, WFMin, Zenon
<1>3. \A n \in S : ~ (n < m)
  BY <1>1, <1>2, Zenon DEF OpToRel
<1>4. \A n \in S : m <= n
  BY <1>1, <1>3
<1> QED
  BY <1>4 DEF Lowest

\* Without patches above l nothing is undone.
LEMMA NothingUndone ==
  ASSUME NEW s, NEW p, NEW l \in Int, NEW h \in Handle,
         \A m \in Level : m > l => p[m][h] = NoPatch
  PROVE  Undone(s, p, l)[h] = s[h]
BY DEF Undone, Patched

\* Otherwise the lowest patch tells what was found.
LEMMA LowestUndone ==
  ASSUME NEW s, NEW p, NEW l \in Int, NEW h \in Handle,
         NEW m \in Level, m > l, p[m][h] # NoPatch,
         \A n \in Level : n > l /\ p[n][h] # NoPatch => m <= n
  PROVE  Undone(s, p, l)[h] = Old(p[m][h])
<1> DEFINE S == Patched(p, l, h)
<1>1. S \in SUBSET Level /\ m \in S /\ \A n \in S : m <= n
  BY DEF Patched
<1>2. Lowest(S) \in S /\ Lowest(S) <= m
  BY <1>1, LowestIs
<1>3. Lowest(S) = m
  BY <1>1, <1>2 DEF Level
<1> QED
  BY <1>1, <1>3 DEF Undone

\* What is undone of a handle depends on its own call-out and patches only.
LEMMA SameHandle ==
  ASSUME NEW s, NEW p, NEW s2, NEW p2, NEW l, NEW h \in Handle,
         s2[h] = s[h],
         \A m \in Level : p2[m][h] = p[m][h]
  PROVE  Undone(s2, p2, l)[h] = Undone(s, p, l)[h]
<1>1. Patched(p2, l, h) = Patched(p, l, h)
  BY DEF Patched
<1>2. Patched(p, l, h) # {} => Lowest(Patched(p, l, h)) \in Level
  BY LowestIs DEF Patched
<1> QED
  BY <1>1, <1>2 DEF Undone

\* What the planes below k undo is settled by their patches and by what the
\* planes above undo together.
LEMMA SameBelow ==
  ASSUME NEW s, NEW p, NEW s2, NEW p2, NEW k \in Int,
         \A m \in Level, h \in Handle : m <= k => p2[m][h] = p[m][h],
         Undone(s2, p2, k) = Undone(s, p, k)
  PROVE  \A l \in Int : l <= k => Undone(s2, p2, l) = Undone(s, p, l)
<1> SUFFICES ASSUME NEW l \in Int, l <= k, NEW h \in Handle
             PROVE  Undone(s2, p2, l)[h] = Undone(s, p, l)[h]
  BY DEF Undone
<1> DEFINE Between == {m \in Level : l < m /\ m <= k /\ p[m][h] # NoPatch}
<1>1. CASE Between = {}
  <2>1. Patched(p, l, h) = Patched(p, k, h) /\ Patched(p2, l, h) = Patched(p2, k, h)
    BY <1>1 DEF Patched, Level
  <2>2. Undone(s, p, l)[h] = Undone(s, p, k)[h]
        /\ Undone(s2, p2, l)[h] = Undone(s2, p2, k)[h]
    BY <2>1 DEF Undone
  <2> QED
    BY <2>2
<1>2. CASE Between # {}
  <2>1. Between \in SUBSET Level
    OBVIOUS
  <2>2. PICK m \in Between : \A n \in Between : m <= n
    BY <1>2, <2>1, LowestIs
  <2>3. \A n \in Level : n > l /\ p[n][h] # NoPatch => m <= n
    BY <2>2 DEF Level
  <2>4. \A n \in Level : n > l /\ p2[n][h] # NoPatch => m <= n
    BY <2>2 DEF Level
  <2>5. Undone(s, p, l)[h] = Old(p[m][h])
    BY <2>2, <2>3, LowestUndone
  <2>6. Undone(s2, p2, l)[h] = Old(p2[m][h])
    BY <2>2, <2>4, LowestUndone
  <2> QED
    BY <2>2, <2>5, <2>6
<1> QED
  BY <1>1, <1>2

-----------------------------------------------------------------------------
(* The list of free handles *)

\* Without(s, i) loses the i-th element and nothing else.
LEMMA WithoutOne ==
  ASSUME NEW S, NEW s \in Seq(S), NEW i \in 1 .. Len(s), Distinct(s)
  PROVE  /\ Without(s, i) \in Seq(S)
         /\ Distinct(Without(s, i))
         /\ Listed(Without(s, i)) = Listed(s) \ {s[i]}
<1> DEFINE w == Without(s, i)
<1>1. Len(s) \in Nat /\ w \in Seq(S) /\ Len(w) = Len(s) - 1
  BY DEF Without
<1>2. \A k \in 1 .. Len(w) : w[k] = IF k < i THEN s[k] ELSE s[k + 1]
  BY <1>1 DEF Without
<1> HIDE DEF w
<1>3. Distinct(w)
  <2> SUFFICES ASSUME NEW j \in 1 .. Len(w), NEW k \in 1 .. Len(w), w[j] = w[k]
               PROVE  j = k
    BY DEF Distinct
  <2>1. j \in 1 .. Len(s) /\ j + 1 \in 1 .. Len(s) /\ k \in 1 .. Len(s) /\ k + 1 \in 1 .. Len(s)
    BY <1>1
  <2> QED
    BY <1>1, <1>2, <2>1 DEF Distinct
<1>4. ASSUME NEW x \in Listed(w)  PROVE  x \in Listed(s) \ {s[i]}
  <2>1. PICK k \in 1 .. Len(w) : x = w[k]
    BY <1>4 DEF Listed
  <2>2. k \in 1 .. Len(s) /\ k + 1 \in 1 .. Len(s)
    BY <1>1, <2>1
  <2>3. CASE k < i
    BY <1>2, <2>1, <2>2, <2>3 DEF Listed, Distinct
  <2>4. CASE ~(k < i)
    BY <1>2, <2>1, <2>2, <2>4 DEF Listed, Distinct
  <2> QED
    BY <2>3, <2>4
<1>5. ASSUME NEW x \in Listed(s), x # s[i]  PROVE  x \in Listed(w)
  <2>1. PICK k \in 1 .. Len(s) : x = s[k]
    BY <1>5 DEF Listed
  <2>2. CASE k < i
    <3>1. k \in 1 .. Len(w) /\ w[k] = x
      BY <1>1, <1>2, <2>1, <2>2
    <3> QED
      BY <3>1 DEF Listed
  <2>3. CASE k > i
    <3>1. k - 1 \in 1 .. Len(w) /\ w[k - 1] = x
      BY <1>1, <1>2, <2>1, <2>3
    <3> QED
      BY <3>1 DEF Listed
  <2> QED
    BY <1>5, <2>1, <2>2, <2>3
<1> QED
  BY <1>1, <1>3, <1>4, <1>5 DEF w

\* A new element at the front is listed once.
LEMMA PushOne ==
  ASSUME NEW S, NEW s \in Seq(S), NEW x \in S, Distinct(s), x \notin Listed(s)
  PROVE  /\ <<x>> \o s \in Seq(S)
         /\ Distinct(<<x>> \o s)
         /\ Listed(<<x>> \o s) = Listed(s) \cup {x}
<1> DEFINE w == <<x>> \o s
<1>1. Len(s) \in Nat /\ w \in Seq(S) /\ Len(w) = Len(s) + 1
  OBVIOUS
<1>2. w[1] = x /\ \A k \in 1 .. Len(s) : w[k + 1] = s[k]
  OBVIOUS
<1> HIDE DEF w
<1>3. \A k \in 2 .. Len(w) : k - 1 \in 1 .. Len(s) /\ w[k] = s[k - 1]
  BY <1>1, <1>2
<1>4. Distinct(w)
  <2> SUFFICES ASSUME NEW j \in 1 .. Len(w), NEW k \in 1 .. Len(w), w[j] = w[k]
               PROVE  j = k
    BY DEF Distinct
  <2>1. CASE j = 1
    BY <1>1, <1>2, <1>3, <2>1 DEF Listed
  <2>2. CASE k = 1
    BY <1>1, <1>2, <1>3, <2>2 DEF Listed
  <2>3. CASE j # 1 /\ k # 1
    BY <1>1, <1>3, <2>3 DEF Distinct
  <2> QED
    BY <2>1, <2>2, <2>3
<1>5. Listed(w) \subseteq Listed(s) \cup {x}
  <2> SUFFICES ASSUME NEW k \in 1 .. Len(w)  PROVE  w[k] \in Listed(s) \cup {x}
    BY DEF Listed
  <2> QED
    BY <1>1, <1>2, <1>3 DEF Listed
<1>6. x \in Listed(w)
  BY <1>1, <1>2 DEF Listed
<1>7. ASSUME NEW k \in 1 .. Len(s)  PROVE  s[k] \in Listed(w)
  <2>1. k + 1 \in 1 .. Len(w)
    BY <1>1
  <2> QED
    BY <1>2, <2>1 DEF Listed
<1>8. Listed(s) \subseteq Listed(w)
  BY <1>7 DEF Listed
<1> QED
  BY <1>1, <1>4, <1>5, <1>6, <1>8 DEF w

FreeTyped ==
  /\ slot \in [Handle -> Slot]
  /\ count \in 0 .. MaxHandle
  /\ free \in Seq(Handle)

LEMMA PositionIs ==
  ASSUME NEW s, NEW x \in Listed(s)
  PROVE  Position(s, x) \in 1 .. Len(s) /\ s[Position(s, x)] = x
BY DEF Position, Listed

\* Taking a listed handle, or the next one, keeps the list right.
LEMMA AllocKeepsFree ==
  ASSUME FreeTyped, FreeRight, NEW h \in Handle, NEW c \in CallOut, Alloc(h, c),
         h = count + 1 \/ h \in Listed(free)
  PROVE  FreeTyped' /\ FreeRight' /\ slot[h] = None /\ count <= count'
<1>1. slot' = [slot EXCEPT ![h] = c] /\ c # None
  BY DEF Alloc
<1>2. slot[h] = None
  BY DEF FreeRight, FreeTyped, Handle
<1>3. CASE h > count
  <2>1. free' = free /\ count' = count + 1 /\ h = count + 1
    BY <1>3 DEF Alloc, FreeRight, FreeTyped
  <2>2. {g \in 1 .. count' : slot'[g] = None} = {g \in 1 .. count : slot[g] = None}
    BY <1>1, <2>1 DEF FreeTyped, Handle
  <2> QED
    BY <1>1, <1>2, <2>1, <2>2 DEF FreeRight, FreeTyped, Handle, Slot
<1>4. CASE h <= count
  <2>1. h \in Listed(free)
    BY <1>4 DEF FreeTyped, Handle
  <2>2. free' = Without(free, Position(free, h)) /\ count' = count
    BY <1>4 DEF Alloc, FreeTyped, Handle
  <2>3. free' \in Seq(Handle) /\ Distinct(free') /\ Listed(free') = Listed(free) \ {h}
    BY SMTT(60), <2>1, <2>2, PositionIs, WithoutOne DEF FreeRight, FreeTyped
  <2>4. Listed(free') = {g \in 1 .. count' : slot'[g] = None}
    BY <1>1, <2>2, <2>3 DEF FreeRight, FreeTyped, Handle
  <2>5. \A g \in Handle : g > count' => slot'[g] = None
    BY <1>1, <1>4, <2>2 DEF FreeRight, FreeTyped, Handle
  <2>6. slot' \in [Handle -> Slot]
    BY <1>1 DEF FreeTyped, Slot
  <2>7. FreeTyped'
    BY <2>2, <2>3, <2>6 DEF FreeTyped
  <2>8. FreeRight'
    BY <2>3, <2>4, <2>5 DEF FreeRight
  <2> QED
    BY <1>2, <2>2, <2>7, <2>8 DEF FreeTyped
<1> QED
  BY <1>3, <1>4 DEF FreeTyped, Handle

\* Putting back a handle that is in use keeps the list right.
LEMMA FreeKeepsFree ==
  ASSUME FreeTyped, FreeRight, NEW h \in Handle, slot[h] # None, Free(h)
  PROVE  FreeTyped' /\ FreeRight' /\ count' = count
<1>1. slot' = [slot EXCEPT ![h] = None] /\ free' = <<h>> \o free /\ count' = count
  BY DEF Free
<1>2. h \in 1 .. count /\ h \notin Listed(free)
  BY DEF FreeRight, FreeTyped, Handle
<1>3. /\ free' \in Seq(Handle)
      /\ Distinct(free')
      /\ Listed(free') = Listed(free) \cup {h}
  BY <1>1, <1>2, PushOne DEF FreeRight, FreeTyped
<1>4. {g \in 1 .. count' : slot'[g] = None} = {g \in 1 .. count : slot[g] = None} \cup {h}
  BY <1>1, <1>2 DEF FreeTyped, Handle
<1> QED
  BY <1>1, <1>2, <1>3, <1>4 DEF FreeRight, FreeTyped, Handle, Slot

-----------------------------------------------------------------------------
(* The invariant *)

\* Patches are committed or undone inside an atomic function, and the
\* dataspace is saved outside of all.
ModeOK ==
  /\ mode \in {"commit", "discard"} => level > 0
  /\ mode = "save" => level = 0

IInv == TypeOK /\ ModeOK /\ FreeRight /\ PatchesChain /\ TableIsBase

\* The step leaves what the planes from k + 1 on undo as it was.
Kept(k) == \A l \in 0 .. k : View(l)' = View(l)

LEMMA SameView ==
  ASSUME NEW h \in Handle, NEW l \in Int, slot'[h] = slot[h],
         \A m \in Level : patch'[m][h] = patch[m][h]
  PROVE  View(l)'[h] = View(l)[h]
<1>1. Undone(slot', patch', l)[h] = Undone(slot, patch, l)[h]
  BY SameHandle
<1> QED
  BY <1>1 DEF View

\* At the level that runs nothing is undone.
LEMMA ViewAtTop ==
  ASSUME TypeOK, PatchesChain, NEW l \in Int, l >= level
  PROVE  View(l) = slot
<1>1. \A m \in Level, h \in Handle : m > l => patch[m][h] = NoPatch
  BY DEF PatchesChain, TypeOK, Level
<1>2. \A h \in Handle : View(l)[h] = slot[h]
  BY <1>1, NothingUndone DEF View
<1> QED
  BY <1>2 DEF View, Undone, TypeOK

\* Below it, what the patches of its plane found.
LEMMA ViewBelowTop ==
  ASSUME TypeOK, PatchesChain, level > 0, NEW h \in Handle
  PROVE  View(level - 1)[h] = IF patch[level][h] = NoPatch THEN slot[h]
                                                          ELSE Old(patch[level][h])
<1>1. level \in Level /\ level - 1 \in Int
  BY DEF TypeOK, Level
<1>2. \A m \in Level : m > level => patch[m][h] = NoPatch
  BY DEF PatchesChain, TypeOK, Level
<1>3. CASE patch[level][h] = NoPatch
  <2>1. \A m \in Level : m > level - 1 => patch[m][h] = NoPatch
    BY <1>1, <1>2, <1>3 DEF Level
  <2> QED
    BY <1>1, <1>3, <2>1, NothingUndone DEF View
<1>4. CASE patch[level][h] # NoPatch
  <2>1. \A m \in Level : m > level - 1 => level <= m
    BY <1>1 DEF Level
  <2> QED
    BY <1>1, <1>4, <2>1, LowestUndone DEF View, Level
<1> QED
  BY <1>3, <1>4

\* A step that changes one handle's call-out and its patch in the plane that
\* runs, and not what that plane undoes.
LEMMA StepAtTop ==
  ASSUME TypeOK, PatchesChain, TableIsBase, level > 0,
         level' = level, table' = table, count' \in Nat, count <= count',
         NEW h \in Handle, h <= count',
         NEW q \in Patch \cup {NoPatch}, SetPatch(level, h, q),
         slot' \in [Handle -> Slot], \A g \in Handle : g # h => slot'[g] = slot[g],
         q # NoPatch => WellFormed(q) /\ New(q) = slot'[h],
         View(level - 1)[h] = IF q = NoPatch THEN slot'[h] ELSE Old(q)
  PROVE  PatchesChain' /\ TableIsBase' /\ Kept(level - 1)
<1>1. level \in Level /\ level - 1 \in Int
  BY DEF TypeOK, Level
<1>2. /\ \A m \in Level, g \in Handle : m # level \/ g # h => patch'[m][g] = patch[m][g]
      /\ patch'[level][h] = q
  BY <1>1 DEF SetPatch, TypeOK
<1>3. \A m \in Level, g \in Handle : m > level => patch'[m][g] = NoPatch
  BY <1>1, <1>2 DEF PatchesChain, Level
<1>4. \A g \in Handle : g # h => \A l \in Int : View(l)'[g] = View(l)[g]
  BY <1>2, SameView
<1>5. View(level - 1)'[h] = View(level - 1)[h]
  <2>1. CASE q = NoPatch
    <3>1. \A m \in Level : m > level - 1 => patch'[m][h] = NoPatch
      BY <1>1, <1>2, <1>3, <2>1 DEF Level
    <3>2. Undone(slot', patch', level - 1)[h] = slot'[h]
      BY <1>1, <3>1, NothingUndone
    <3> QED
      BY <2>1, <3>2 DEF View
  <2>2. CASE q # NoPatch
    <3>1. \A m \in Level : m > level - 1 => level <= m
      BY <1>1 DEF Level
    <3>2. Undone(slot', patch', level - 1)[h] = Old(patch'[level][h])
      BY <1>1, <1>2, <2>2, <3>1, LowestUndone DEF Level
    <3> QED
      BY <1>2, <2>2, <3>2 DEF View
  <2> QED
    BY <2>1, <2>2
<1>6. Undone(slot', patch', level - 1) = Undone(slot, patch, level - 1)
  BY <1>1, <1>4, <1>5 DEF View, Undone
<1>7. Kept(level - 1)
  BY <1>1, <1>2, <1>6, SameBelow DEF Kept, View, Level
<1>8. TableIsBase'
  BY <1>1, <1>7 DEF TableIsBase, Kept, Level
<1>9. PatchesChain'
  <2> SUFFICES ASSUME NEW l \in Level, NEW g \in Handle, patch'[l][g] # NoPatch
               PROVE  /\ l <= level' /\ g <= count'
                      /\ WellFormed(patch'[l][g])
                      /\ New(patch'[l][g]) = View(l)'[g]
    BY DEF PatchesChain
  <2>1. CASE l = level /\ g = h
    <3>1. Undone(slot', patch', level)[h] = slot'[h]
      BY <1>1, <1>3, NothingUndone DEF Level
    <3> QED
      BY <1>1, <1>2, <2>1, <3>1 DEF View, Level
  <2>2. CASE g # h
    <3>1. patch'[l][g] = patch[l][g] /\ View(l)'[g] = View(l)[g]
      BY <1>2, <1>4, <2>2 DEF Level
    <3>2. /\ l <= level /\ g <= count
          /\ WellFormed(patch[l][g])
          /\ New(patch[l][g]) = View(l)[g]
      BY <3>1 DEF PatchesChain
    <3> QED
      BY <3>1, <3>2 DEF TypeOK, Handle
  <2>3. CASE l # level /\ g = h
    <3>1. patch'[l][g] = patch[l][g] /\ l <= level - 1
      BY <1>1, <1>2, <1>3, <2>3 DEF Level
    <3>2. View(l)' = View(l)
      BY <1>7, <3>1 DEF Kept, Level
    <3>3. /\ l <= level /\ g <= count
          /\ WellFormed(patch[l][g])
          /\ New(patch[l][g]) = View(l)[g]
      BY <3>1 DEF PatchesChain
    <3> QED
      BY <3>1, <3>2, <3>3 DEF TypeOK, Handle
  <2> QED
    BY <2>1, <2>2, <2>3
<1> QED
  BY <1>7, <1>8, <1>9

\* Outside of atomic functions there are no patches.
LEMMA StepAtZero ==
  ASSUME TypeOK, PatchesChain, level = 0, level' = 0, patch' = patch,
         slot' \in [Handle -> Slot], table' = slot'
  PROVE  PatchesChain' /\ TableIsBase'
<1>1. \A m \in Level, g \in Handle : patch'[m][g] = NoPatch
  BY DEF PatchesChain, Level
<1>2. \A g \in Handle : Undone(slot', patch', 0)[g] = slot'[g]
  BY <1>1, NothingUndone
<1>3. Undone(slot', patch', 0) = slot'
  BY <1>2 DEF Undone
<1> QED
  BY <1>1, <1>3 DEF PatchesChain, TableIsBase, View

\* Two patches of a handle, one plane above the other, make one that finds what
\* the lower found and leaves what the upper left.
LEMMA MergedIsBoth ==
  ASSUME NEW upper \in Patch, NEW lower \in Patch,
         WellFormed(upper), WellFormed(lower), New(lower) = Old(upper)
  PROVE  LET q == Merged(upper, lower)
         IN  \/ q = NoPatch /\ Old(lower) = New(upper)
             \/ /\ q \in Patch /\ WellFormed(q)
                /\ Old(q) = Old(lower) /\ New(q) = New(upper)
<1>1. lower # NoPatch
  OBVIOUS
<1>2. CASE upper.type = "add"
  <2>1. lower.type = "remove"
    BY <1>2 DEF WellFormed, New, Old, Patch
  <2> QED
    BY <1>1, <1>2, <2>1 DEF Merged, WellFormed, New, Old, Patch
<1>3. CASE upper.type = "remove"
  <2>1. CASE lower.type = "add"
    BY <1>1, <1>3, <2>1 DEF Merged, New, Old
  <2>2. CASE lower.type = "replace"
    <3> DEFINE q == [lower EXCEPT !.type = "remove", !.aco = None]
    <3>1. Merged(upper, lower) = q
      BY <1>1, <1>3, <2>2 DEF Merged
    <3>2. q \in Patch /\ q.type = "remove" /\ q.aco = None /\ q.rco = lower.rco
      BY DEF Patch, Slot
    <3> HIDE DEF q
    <3> QED
      BY <1>3, <2>2, <3>1, <3>2 DEF WellFormed, New, Old
  <2>3. lower.type # "remove"
    BY <1>3 DEF WellFormed, New, Old
  <2> QED
    BY <2>1, <2>2, <2>3 DEF Patch
<1>4. CASE upper.type = "replace"
  <2>1. CASE lower.type = "add"
    <3> DEFINE q == [upper EXCEPT !.type = "add", !.rco = None]
    <3>1. Merged(upper, lower) = q
      BY <1>1, <1>4, <2>1 DEF Merged
    <3>2. q \in Patch /\ q.type = "add" /\ q.aco = upper.aco
      BY DEF Patch, Slot
    <3> HIDE DEF q
    <3> QED
      BY <1>4, <2>1, <3>1, <3>2 DEF WellFormed, New, Old
  <2>2. CASE lower.type = "replace"
    <3> DEFINE q == [lower EXCEPT !.aco = upper.aco]
    <3>1. Merged(upper, lower) = q
      BY <1>1, <1>4, <2>2 DEF Merged
    <3>2. q \in Patch /\ q.type = "replace" /\ q.aco = upper.aco /\ q.rco = lower.rco
      BY <2>2 DEF Patch
    <3> HIDE DEF q
    <3> QED
      BY <1>4, <2>2, <3>1, <3>2 DEF WellFormed, New, Old
  <2>3. lower.type # "remove"
    BY <1>4 DEF WellFormed, New, Old
  <2> QED
    BY <2>1, <2>2, <2>3 DEF Patch
<1> QED
  BY <1>2, <1>3, <1>4 DEF Patch

\* The handle of a new call-out is free: no call-out is overwritten.
LEMMA NewHandleIsFree ==
  ASSUME TypeOK, FreeRight
  PROVE  NewHandle = count + 1 \/ NewHandle \in Listed(free)
<1>1. CASE free = <<>>
  BY <1>1 DEF NewHandle
<1>2. CASE free # <<>>
  <2>1. 1 \in 1 .. Len(free)
    BY <1>2 DEF TypeOK
  <2>2. CASE Len(free) = 1 \/ free[2] > free[1]
    BY <1>2, <2>1, <2>2 DEF NewHandle, Listed
  <2>3. CASE ~ (Len(free) = 1 \/ free[2] > free[1])
    <3>1. Len(free) \in Nat /\ Len(free) # 1
      BY <2>3 DEF TypeOK
    <3>2. \A n \in Nat : 1 \in 1 .. n /\ n # 1 => 2 \in 1 .. n
      OBVIOUS
    <3>3. 2 \in 1 .. Len(free)
      BY <2>1, <3>1, <3>2, Zenon
    <3> QED
      BY <1>2, <2>3, <3>3 DEF NewHandle, Listed
  <2> QED
    BY <2>2, <2>3
<1> QED
  BY <1>1, <1>2

LEMMA NewCallOutKeeps ==
  ASSUME IInv, NEW c \in CallOut, NewCallOut(c)
  PROVE  IInv' /\ (level > 0 => Kept(level - 1))
<1> DEFINE h == NewHandle
<1> DEFINE p == patch[level][h]
<1>0. c # None /\ NoPatch \notin Patch
  OBVIOUS
<1>1. /\ TypeOK /\ ModeOK /\ FreeRight /\ PatchesChain /\ TableIsBase
      /\ mode = "run" /\ mode' = "run" /\ level' = level
      /\ h \in Handle /\ Alloc(h, c)
  BY DEF IInv, NewCallOut
<1> HIDE DEF h
<1>2. /\ FreeTyped' /\ FreeRight' /\ slot[h] = None /\ count <= count'
  BY <1>1, NewHandleIsFree, AllocKeepsFree DEF h, TypeOK, FreeTyped
<1>3. /\ slot' = [slot EXCEPT ![h] = c]
      /\ h <= count' /\ count' \in Nat
  BY <1>1, <1>2 DEF Alloc, FreeTyped, TypeOK, Handle
<1>4. CASE level = 0
  <2>1. table' = [table EXCEPT ![h] = c] /\ patch' = patch /\ pending' = pending
    BY <1>4 DEF NewCallOut, h
  <2>2. table = slot
    BY <1>1, <1>4, ViewAtTop DEF TableIsBase
  <2>3. PatchesChain' /\ TableIsBase'
    BY <1>1, <1>2, <1>3, <1>4, <2>1, <2>2, StepAtZero DEF FreeTyped
  <2>4. TypeOK'
    BY <1>1, <1>2, <2>1, <2>2, <1>3 DEF TypeOK, FreeTyped
  <2> QED
    BY <1>1, <1>2, <1>4, <2>3, <2>4 DEF IInv, ModeOK
<1>5. CASE level > 0
  <2> DEFINE q == IF p = NoPatch
                    THEN [type |-> "add", aco |-> c, rco |-> None]
                    ELSE [p EXCEPT !.type = "replace", !.aco = c]
  <2>1. SetPatch(level, h, q) /\ table' = table /\ pending' = pending + 1
    BY <1>5 DEF NewCallOut, h
  <2>2. level \in Level /\ level - 1 \in Int /\ p \in Patch \cup {NoPatch}
    BY <1>1, <1>5 DEF TypeOK, Level
  <2>3. p # NoPatch => p.type = "remove" /\ p.rco # None /\ p.rco \in Slot
    <3>1. View(level)[h] = slot[h]
      BY <1>1, ViewAtTop DEF TypeOK
    <3>2. p # NoPatch => WellFormed(p) /\ New(p) = None
      BY <1>1, <1>2, <2>2, <3>1 DEF PatchesChain
    <3> QED
      BY <2>2, <3>2 DEF WellFormed, New, Patch
  <2>4. q \in Patch /\ q # NoPatch /\ WellFormed(q) /\ New(q) = c
        /\ (p = NoPatch => Old(q) = None) /\ (p # NoPatch => Old(q) = p.rco)
    <3>1. CASE p = NoPatch
      <4>1. /\ q \in Patch /\ q.type = "add" /\ q.aco = c
        BY <3>1 DEF Patch, Slot
      <4> QED
        BY <1>0, <3>1, <4>1 DEF WellFormed, New, Old
    <3>2. CASE p # NoPatch
      <4>1. /\ q = [p EXCEPT !.type = "replace", !.aco = c] /\ p \in Patch
        BY <2>2, <3>2
      <4>2. /\ q \in Patch /\ q.type = "replace" /\ q.aco = c /\ q.rco = p.rco
        BY <4>1 DEF Patch, Slot
      <4> QED
        BY <1>0, <2>3, <3>2, <4>2 DEF WellFormed, New, Old
    <3> QED
      BY <3>1, <3>2
  <2>5. View(level - 1)[h] = Old(q)
    BY <1>1, <1>2, <1>5, <2>3, <2>4, ViewBelowTop DEF Old
  <2> HIDE DEF q
  <2>6. PatchesChain' /\ TableIsBase' /\ Kept(level - 1)
    BY <1>1, <1>2, <1>3, <1>5, <2>1, <2>4, <2>5, StepAtTop DEF FreeTyped, TypeOK
  <2>7. patch' \in [Level -> [Handle -> Patch \cup {NoPatch}]]
    BY <1>1, <2>1, <2>4 DEF SetPatch, TypeOK
  <2>8. TypeOK'
    BY <1>1, <1>2, <2>1, <2>7 DEF TypeOK, FreeTyped
  <2> QED
    BY <1>1, <1>2, <2>6, <2>8 DEF IInv, ModeOK
<1> QED
  BY <1>1, <1>4, <1>5 DEF TypeOK

LEMMA DelCallOutKeeps ==
  ASSUME IInv, NEW h \in Handle, DelCallOut(h)
  PROVE  IInv' /\ (level > 0 => Kept(level - 1))
<1> DEFINE p == patch[level][h]
<1>1. /\ TypeOK /\ ModeOK /\ FreeRight /\ PatchesChain /\ TableIsBase
      /\ mode = "run" /\ mode' = "run" /\ level' = level
      /\ slot[h] # None /\ Free(h)
  BY DEF IInv, DelCallOut
<1>2. /\ FreeTyped' /\ FreeRight' /\ count' = count
  BY <1>1, FreeKeepsFree DEF TypeOK, FreeTyped
<1>3. /\ slot' = [slot EXCEPT ![h] = None]
      /\ h <= count' /\ count' \in Nat
  BY <1>1, <1>2 DEF Free, FreeRight, TypeOK, Handle
<1>4. CASE level = 0
  <2>1. table' = [table EXCEPT ![h] = None] /\ patch' = patch /\ pending' = pending
    BY <1>4 DEF DelCallOut
  <2>2. table = slot
    BY <1>1, <1>4, ViewAtTop DEF TableIsBase
  <2>3. PatchesChain' /\ TableIsBase'
    BY <1>1, <1>2, <1>3, <1>4, <2>1, <2>2, StepAtZero DEF FreeTyped
  <2>4. TypeOK'
    BY <1>1, <1>2, <2>1, <2>2, <1>3 DEF TypeOK, FreeTyped
  <2> QED
    BY <1>1, <1>2, <1>4, <2>3, <2>4 DEF IInv, ModeOK
<1>5. CASE level > 0
  <2> DEFINE q == CASE p = NoPatch ->
                         [type |-> "remove", aco |-> None, rco |-> slot[h]]
                    [] p # NoPatch /\ p.type = "replace" ->
                         [p EXCEPT !.type = "remove", !.aco = None]
                    [] OTHER -> NoPatch
  <2>1. SetPatch(level, h, q) /\ table' = table /\ pending' = pending - 1
    BY <1>5 DEF DelCallOut
  <2>2. level \in Level /\ level - 1 \in Int /\ p \in Patch \cup {NoPatch}
        /\ slot[h] \in Slot
    BY <1>1, <1>5 DEF TypeOK, Level
  <2>3. p # NoPatch => /\ WellFormed(p) /\ p \in Patch
                       /\ p.type = "add" \/ p.type = "replace"
    <3>1. View(level)[h] = slot[h]
      BY <1>1, ViewAtTop DEF TypeOK
    <3>2. p # NoPatch => WellFormed(p) /\ New(p) # None
      BY <1>1, <2>2, <3>1 DEF PatchesChain
    <3> QED
      BY <2>2, <3>2 DEF New, Patch
  <2>4. /\ q \in Patch \cup {NoPatch}
        /\ q # NoPatch => WellFormed(q) /\ New(q) = None
        /\ (IF q = NoPatch THEN None ELSE Old(q))
             = (IF p = NoPatch THEN slot[h] ELSE Old(p))
    <3>1. CASE p = NoPatch
      BY <1>1, <2>2, <3>1 DEF Patch, Slot, WellFormed, New, Old
    <3>2. CASE p # NoPatch /\ p.type = "add"
      BY <2>2, <3>2 DEF Old
    <3>3. CASE p # NoPatch /\ p.type = "replace"
      <4>1. q = [p EXCEPT !.type = "remove", !.aco = None] /\ p \in Patch
        BY <2>2, <3>3
      <4>2. q \in Patch /\ q.type = "remove" /\ q.aco = None /\ q.rco = p.rco
        BY <4>1 DEF Patch, Slot
      <4> QED
        BY <2>3, <3>3, <4>2 DEF WellFormed, New, Old
    <3> QED
      BY <2>3, <3>1, <3>2, <3>3
  <2>5. View(level - 1)[h] = IF q = NoPatch THEN None ELSE Old(q)
    BY <1>1, <1>5, <2>4, ViewBelowTop
  <2>6. slot'[h] = None
    BY <1>1, <1>3 DEF TypeOK
  <2> HIDE DEF q
  <2>7. PatchesChain' /\ TableIsBase' /\ Kept(level - 1)
    BY <1>1, <1>2, <1>3, <1>5, <2>1, <2>4, <2>5, <2>6, StepAtTop DEF FreeTyped, TypeOK
  <2>8. patch' \in [Level -> [Handle -> Patch \cup {NoPatch}]]
    BY <1>1, <2>1, <2>4 DEF SetPatch, TypeOK
  <2>9. TypeOK'
    BY <1>1, <1>2, <2>1, <2>8 DEF TypeOK, FreeTyped
  <2> QED
    BY <1>1, <1>2, <2>7, <2>9 DEF IInv, ModeOK
<1> QED
  BY <1>1, <1>4, <1>5 DEF TypeOK

LEMMA CallOutRunsKeeps ==
  ASSUME IInv, NEW h \in Handle, CallOutRuns(h)
  PROVE  IInv'
<1>1. /\ TypeOK /\ ModeOK /\ FreeRight /\ PatchesChain /\ TableIsBase
      /\ level = 0 /\ level' = 0 /\ mode' = mode /\ patch' = patch /\ pending' = pending
      /\ table' = [table EXCEPT ![h] = None] /\ table[h] # None /\ Free(h)
  BY DEF IInv, CallOutRuns
<1>2. table = slot
  BY <1>1, ViewAtTop DEF TableIsBase
<1>3. FreeTyped' /\ FreeRight' /\ slot' = [slot EXCEPT ![h] = None]
  BY <1>1, <1>2, FreeKeepsFree DEF TypeOK, FreeTyped, Free
<1>4. PatchesChain' /\ TableIsBase'
  BY <1>1, <1>2, <1>3, StepAtZero DEF FreeTyped
<1>5. TypeOK'
  BY <1>1, <1>2, <1>3 DEF TypeOK, FreeTyped
<1> QED
  BY <1>1, <1>3, <1>4, <1>5 DEF IInv, ModeOK

LEMMA DiscardPatchKeeps ==
  ASSUME IInv, NEW h \in Handle, DiscardPatch(h)
  PROVE  IInv' /\ Kept(level - 1)
<1> DEFINE p == patch[level][h]
<1>1. /\ TypeOK /\ ModeOK /\ FreeRight /\ PatchesChain /\ TableIsBase
      /\ mode = "discard" /\ mode' = "discard" /\ level' = level /\ table' = table
      /\ p # NoPatch /\ SetPatch(level, h, NoPatch)
  BY DEF IInv, DiscardPatch
<1>2. level > 0 /\ level \in Level /\ level - 1 \in Int /\ p \in Patch
  BY <1>1 DEF ModeOK, TypeOK, Level
<1>3. h <= count /\ WellFormed(p) /\ New(p) = slot[h] /\ Old(p) \in Slot
  <2>1. View(level)[h] = slot[h]
    BY <1>1, ViewAtTop DEF TypeOK
  <2> QED
    BY <1>1, <1>2, <2>1 DEF PatchesChain, Old, Patch, Slot
<1>4. /\ FreeTyped' /\ FreeRight' /\ count <= count'
      /\ slot' = [slot EXCEPT ![h] = Old(p)] /\ pending' \in Int
  <2>1. CASE p.type = "add"
    <3>1. Free(h) /\ pending' = pending - 1 /\ slot[h] # None
      BY <1>3, <2>1 DEF DiscardPatch, New, WellFormed
    <3>2. /\ FreeTyped' /\ FreeRight' /\ count' = count
      BY <1>1, <3>1, FreeKeepsFree DEF TypeOK, FreeTyped
    <3>3. slot' = [slot EXCEPT ![h] = Old(p)]
      BY <2>1, <3>1 DEF Free, Old
    <3> QED
      BY <1>1, <3>1, <3>2, <3>3 DEF TypeOK
  <2>2. CASE p.type = "remove"
    <3>1. Alloc(h, p.rco) /\ pending' = pending + 1 /\ slot[h] = None /\ p.rco \in CallOut
      BY <1>2, <1>3, <2>2 DEF DiscardPatch, New, Old, WellFormed, Slot
    <3>2. h \in Listed(free)
      BY <1>1, <1>3, <3>1 DEF FreeRight, TypeOK, Handle
    <3>3. /\ FreeTyped' /\ FreeRight' /\ count <= count'
      BY <1>1, <3>1, <3>2, AllocKeepsFree DEF TypeOK, FreeTyped
    <3>4. slot' = [slot EXCEPT ![h] = Old(p)]
      BY <2>2, <3>1 DEF Alloc, Old
    <3> QED
      BY <1>1, <3>1, <3>3, <3>4 DEF TypeOK
  <2>3. CASE p.type = "replace"
    <3>1. /\ slot' = [slot EXCEPT ![h] = p.rco]
          /\ count' = count /\ free' = free /\ pending' = pending
      BY <2>3 DEF DiscardPatch
    <3>2. slot[h] # None /\ p.rco # None /\ Old(p) = p.rco
      BY <1>3, <2>3 DEF New, Old, WellFormed
    <3>3. FreeTyped'
      BY <1>1, <1>3, <3>1, <3>2 DEF FreeTyped, TypeOK
    <3>4. \A g \in Handle : slot'[g] = None <=> slot[g] = None
      BY <1>1, <3>1, <3>2 DEF TypeOK
    <3>5. FreeRight'
      BY <1>1, <3>1, <3>4 DEF FreeRight, TypeOK, Handle
    <3> QED
      BY <1>1, <3>1, <3>2, <3>3, <3>5 DEF TypeOK
  <2> QED
    BY <1>2, <2>1, <2>2, <2>3 DEF Patch
<1>5. View(level - 1)[h] = slot'[h]
  BY <1>1, <1>2, <1>4, ViewBelowTop DEF TypeOK
<1>6. PatchesChain' /\ TableIsBase' /\ Kept(level - 1)
  <2>1. /\ count' \in Nat /\ h <= count' /\ slot' \in [Handle -> Slot]
        /\ \A g \in Handle : g # h => slot'[g] = slot[g]
    BY <1>1, <1>3, <1>4 DEF FreeTyped, TypeOK, Handle
  <2> QED
    BY <1>1, <1>2, <1>4, <1>5, <2>1, StepAtTop
<1>7. patch' \in [Level -> [Handle -> Patch \cup {NoPatch}]]
  BY <1>1 DEF SetPatch, TypeOK
<1>8. TypeOK'
  BY <1>1, <1>4, <1>7 DEF TypeOK, FreeTyped
<1> QED
  BY <1>1, <1>2, <1>4, <1>6, <1>8 DEF IInv, ModeOK

LEMMA CommitPatchKeeps ==
  ASSUME IInv, NEW h \in Handle, CommitPatch(h)
  PROVE  IInv' /\ Kept(level - 2)
<1> DEFINE p == patch[level][h]
<1>1. /\ TypeOK /\ ModeOK /\ FreeRight /\ PatchesChain /\ TableIsBase
      /\ mode = "commit" /\ mode' = "commit" /\ level' = level
      /\ slot' = slot /\ count' = count /\ free' = free
      /\ p # NoPatch
  BY DEF IInv, CommitPatch
<1>2. level > 0 /\ level \in Level /\ level \in Int /\ p \in Patch
  BY <1>1 DEF ModeOK, TypeOK, Level
<1>3. h <= count /\ WellFormed(p) /\ New(p) = slot[h]
  <2>1. View(level)[h] = slot[h]
    BY <1>1, ViewAtTop DEF TypeOK
  <2> QED
    BY <1>1, <1>2, <2>1 DEF PatchesChain
<1>4. \A m \in Level, g \in Handle : m > level => patch[m][g] = NoPatch
  BY <1>1, <1>2 DEF PatchesChain, Level
<1>5. FreeRight'
  BY <1>1 DEF FreeRight
<1>6. CASE level = 1
  <2>1. /\ SetPatch(level, h, NoPatch)
        /\ table' = [table EXCEPT ![h] = IF p.type = "remove" THEN None ELSE p.aco]
        /\ pending' \in Int
    BY <1>1, <1>6 DEF CommitPatch, TypeOK
  <2>2. /\ \A m \in Level, g \in Handle : m # level \/ g # h => patch'[m][g] = patch[m][g]
        /\ patch'[level][h] = NoPatch
    BY <1>1, <1>2, <2>1 DEF SetPatch, TypeOK
  <2>3. table' = [table EXCEPT ![h] = slot[h]]
    BY <1>3, <2>1 DEF New
  <2>4. \A g \in Handle : g # h => \A l \in Int : View(l)'[g] = View(l)[g]
    <3> SUFFICES ASSUME NEW g \in Handle, g # h, NEW l \in Int
                 PROVE  View(l)'[g] = View(l)[g]
      OBVIOUS
    <3>1. \A m \in Level : patch'[m][g] = patch[m][g]
      BY <2>2
    <3>2. slot'[g] = slot[g]
      BY <1>1
    <3> QED
      BY <3>1, <3>2, SameView
  <2>5. \A l \in Int : View(l)'[h] = slot[h]
    <3>1. \A m \in Level : patch'[m][h] = NoPatch
      BY <1>2, <1>4, <1>6, <2>2 DEF Level
    <3>2. \A l \in Int : Undone(slot', patch', l)[h] = slot'[h]
      BY <3>1, NothingUndone
    <3> QED
      BY <1>1, <3>2 DEF View
  <2>6. TableIsBase'
    <3>1. \A g \in Handle : table'[g] = View(0)'[g]
      BY <1>1, <2>3, <2>4, <2>5 DEF TableIsBase, TypeOK
    <3> QED
      BY <1>1, <2>3, <3>1 DEF TableIsBase, View, Undone, TypeOK
  <2>7. PatchesChain'
    <3> SUFFICES ASSUME NEW l \in Level, NEW g \in Handle, patch'[l][g] # NoPatch
                 PROVE  /\ l <= level' /\ g <= count'
                        /\ WellFormed(patch'[l][g])
                        /\ New(patch'[l][g]) = View(l)'[g]
      BY DEF PatchesChain
    <3>1. g # h
      BY <1>2, <1>4, <1>6, <2>2 DEF Level
    <3>2. patch'[l][g] = patch[l][g] /\ View(l)'[g] = View(l)[g]
      BY <2>2, <2>4, <3>1 DEF Level
    <3> QED
      BY <1>1, <3>2 DEF PatchesChain
  <2>8. TypeOK'
    <3>1. patch' \in [Level -> [Handle -> Patch \cup {NoPatch}]]
      BY <1>1, <2>1 DEF SetPatch, TypeOK
    <3>2. table' \in [Handle -> Slot]
      BY <1>1, <2>3 DEF TypeOK
    <3> QED
      BY <1>1, <2>1, <3>1, <3>2 DEF TypeOK
  <2>9. Kept(level - 2)
    BY <1>6 DEF Kept
  <2> QED
    BY <1>1, <1>2, <1>5, <2>6, <2>7, <2>8, <2>9 DEF IInv, ModeOK
<1>7. CASE level > 1
  <2> DEFINE lower == patch[level - 1][h]
  <2> DEFINE q == Merged(p, lower)
  <2>1. /\ patch' = [patch EXCEPT ![level][h] = NoPatch,
                                  ![level - 1][h] = Merged(p, @)]
        /\ table' = table /\ pending' = pending
    BY <1>1, <1>7 DEF CommitPatch
  <2>2. level - 1 \in Level /\ level - 1 # level /\ level - 2 \in Int
        /\ lower \in Patch \cup {NoPatch}
    BY <1>1, <1>2, <1>7 DEF Level, TypeOK
  <2>3. /\ q \in Patch \cup {NoPatch}
        /\ q # NoPatch => WellFormed(q) /\ New(q) = slot[h]
        /\ View(level - 2)[h] = IF q = NoPatch THEN slot[h] ELSE Old(q)
    <3>1. Old(p) = View(level - 1)[h]
      BY <1>1, <1>2, ViewBelowTop
    <3>2. CASE lower = NoPatch
      <4>1. q = p
        BY <3>2 DEF Merged
      <4>2. \A m \in Level : m > level - 2 /\ patch[m][h] # NoPatch => level <= m
        BY <1>2, <2>2, <3>2 DEF Level
      <4>3. View(level - 2)[h] = Old(p)
        BY <1>1, <1>2, <2>2, <4>2, LowestUndone DEF View, Level
      <4> QED
        BY <1>1, <1>2, <1>3, <4>1, <4>3
    <3>3. CASE lower # NoPatch
      <4>1. lower \in Patch /\ WellFormed(lower) /\ New(lower) = Old(p)
        BY <1>1, <2>2, <3>1, <3>3 DEF PatchesChain
      <4>2. \A m \in Level : m > level - 2 => level - 1 <= m
        BY <1>2 DEF Level
      <4>3. View(level - 2)[h] = Old(lower)
        BY <1>2, <2>2, <3>3, <4>2, LowestUndone DEF View
      <4>4. \/ q = NoPatch /\ Old(lower) = New(p)
            \/ /\ q \in Patch /\ WellFormed(q)
               /\ Old(q) = Old(lower) /\ New(q) = New(p)
        BY <1>2, <1>3, <4>1, MergedIsBoth
      <4>5. NoPatch \notin Patch
        OBVIOUS
      <4> HIDE DEF q
      <4> QED
        BY <1>3, <4>3, <4>4, <4>5
    <3> QED
      BY <3>2, <3>3
  <2> HIDE DEF q
  <2>4. /\ \A m \in Level, g \in Handle :
             (m # level /\ m # level - 1) \/ g # h => patch'[m][g] = patch[m][g]
        /\ patch'[level][h] = NoPatch
        /\ patch'[level - 1][h] = q
    <3>1. /\ patch'[level] = [patch[level] EXCEPT ![h] = NoPatch]
          /\ patch'[level - 1] = [patch[level - 1] EXCEPT ![h] = q]
          /\ \A m \in Level : m # level /\ m # level - 1 => patch'[m] = patch[m]
      BY <1>1, <1>2, <2>1, <2>2 DEF TypeOK, q
    <3> QED
      BY <1>1, <1>2, <2>2, <3>1 DEF TypeOK
  <2>5. ASSUME NEW g \in Handle, g # h, NEW l \in Int
        PROVE  View(l)'[g] = View(l)[g]
    <3>1. \A m \in Level : patch'[m][g] = patch[m][g]
      BY <2>4, <2>5
    <3>2. slot'[g] = slot[g]
      BY <1>1
    <3> QED
      BY <3>1, <3>2, SameView
  <2>6. Undone(slot', patch', level - 2)[h] = View(level - 2)[h]
    <3>1. CASE q = NoPatch
      <4>1. \A m \in Level : m > level - 2 => patch'[m][h] = NoPatch
        BY <1>2, <1>4, <2>2, <2>4, <3>1 DEF Level
      <4>2. Undone(slot', patch', level - 2)[h] = slot'[h]
        BY <2>2, <4>1, NothingUndone
      <4> QED
        BY <1>1, <2>3, <3>1, <4>2
    <3>2. CASE q # NoPatch
      <4>1. \A m \in Level : m > level - 2 => level - 1 <= m
        BY <1>2 DEF Level
      <4>2. Undone(slot', patch', level - 2)[h] = Old(patch'[level - 1][h])
        BY <1>2, <2>2, <2>4, <3>2, <4>1, LowestUndone
      <4> QED
        BY <2>3, <2>4, <3>2, <4>2
    <3> QED
      BY <3>1, <3>2
  <2>7. \A g \in Handle : Undone(slot', patch', level - 2)[g] = Undone(slot, patch, level - 2)[g]
    BY <1>1, <2>2, <2>5, <2>6 DEF View
  <2>8. Undone(slot', patch', level - 2) = Undone(slot, patch, level - 2)
    BY <2>7 DEF Undone
  <2>9. \A m \in Level, g \in Handle : m <= level - 2 => patch'[m][g] = patch[m][g]
    BY <1>2, <2>4 DEF Level
  <2>10. \A l \in Int : l <= level - 2 => Undone(slot', patch', l) = Undone(slot, patch, l)
    BY <2>2, <2>8, <2>9, SameBelow
  <2>11. Kept(level - 2)
    BY <2>2, <2>10 DEF Kept, View
  <2>12. TableIsBase'
    <3>1. Undone(slot', patch', 0) = Undone(slot, patch, 0)
      BY <1>2, <1>7, <2>10
    <3> QED
      BY <1>1, <2>1, <3>1 DEF TableIsBase, View
  <2>13. PatchesChain'
    <3> SUFFICES ASSUME NEW l \in Level, NEW g \in Handle, patch'[l][g] # NoPatch
                 PROVE  /\ l <= level' /\ g <= count'
                        /\ WellFormed(patch'[l][g])
                        /\ New(patch'[l][g]) = View(l)'[g]
      BY DEF PatchesChain
    <3>1. CASE g # h
      <4>1. patch'[l][g] = patch[l][g] /\ View(l)'[g] = View(l)[g]
        BY <2>4, <2>5, <3>1 DEF Level
      <4> QED
        BY <1>1, <4>1 DEF PatchesChain
    <3>2. CASE g = h /\ l = level - 1
      <4>1. \A m \in Level : m > level - 1 => patch'[m][h] = NoPatch
        BY <1>2, <1>4, <2>2, <2>4 DEF Level
      <4>2. Undone(slot', patch', level - 1)[h] = slot'[h]
        BY <2>2, <4>1, NothingUndone DEF Level
      <4>3. View(l)' = Undone(slot', patch', level - 1)
        BY <3>2 DEF View
      <4> QED
        BY <1>1, <1>2, <1>3, <2>3, <2>4, <3>2, <4>2, <4>3
    <3>3. CASE g = h /\ l # level - 1
      <4>1. l # level /\ patch'[l][g] = patch[l][g]
        BY <2>4, <3>3
      <4>2. l <= level - 2
        BY <1>2, <1>4, <4>1, <3>3 DEF Level
      <4>3. View(l)' = View(l)
        BY <2>10, <4>2 DEF View, Level
      <4> QED
        BY <1>1, <4>1, <4>3 DEF PatchesChain
    <3> QED
      BY <3>1, <3>2, <3>3
  <2>14. TypeOK'
    <3>1. patch' \in [Level -> [Handle -> Patch \cup {NoPatch}]]
      <4>1. \A m \in Level : /\ patch[m] \in [Handle -> Patch \cup {NoPatch}]
                             /\ patch'[m] \in [Handle -> Patch \cup {NoPatch}]
        BY <1>1, <2>1, <2>2, <2>3 DEF TypeOK, q
      <4>2. patch' = [m \in Level |-> patch'[m]]
        BY <1>1, <2>1 DEF TypeOK
      <4> QED
        BY <4>1, <4>2
    <3> QED
      BY <1>1, <2>1, <3>1 DEF TypeOK
  <2> QED
    BY <1>1, <1>2, <1>5, <2>11, <2>12, <2>13, <2>14 DEF IInv, ModeOK
<1> QED
  BY <1>2, <1>6, <1>7

\* The plane that is left has no patches; what the planes below undo is as it
\* was, and so is what this one would undo.
LEMMA LeaveKeeps ==
  ASSUME IInv, Leave
  PROVE  IInv' /\ Kept(level) /\ View(level - 1) = slot
<1>1. /\ TypeOK /\ ModeOK /\ FreeRight /\ PatchesChain /\ TableIsBase
      /\ level > 0 /\ level' = level - 1 /\ mode' = "run"
      /\ \A h \in Handle : patch[level][h] = NoPatch
      /\ slot' = slot /\ count' = count /\ free' = free /\ table' = table
      /\ patch' = patch /\ pending' = pending
  BY DEF IInv, Leave, ModeOK
<1>2. \A l \in Int : View(l)' = View(l)
  BY <1>1 DEF View
<1>3. \A l \in Level, h \in Handle : patch[l][h] # NoPatch => l <= level - 1
  BY <1>1 DEF PatchesChain, TypeOK, Level
<1>4. PatchesChain'
  BY <1>1, <1>2, <1>3 DEF PatchesChain, Level
<1>5. TypeOK' /\ FreeRight' /\ TableIsBase'
  BY <1>1, <1>2 DEF TypeOK, FreeRight, TableIsBase
<1>6. View(level - 1) = slot
  <2>1. \A h \in Handle : View(level - 1)[h] = slot[h]
    BY <1>1, ViewBelowTop
  <2> QED
    BY <1>1, <2>1 DEF View, Undone, TypeOK
<1> QED
  BY <1>1, <1>2, <1>4, <1>5, <1>6 DEF IInv, ModeOK, Kept

\* The handle that is dropped is a free one.
LEMMA TrimKeeps ==
  ASSUME IInv, Trim
  PROVE  IInv'
<1>1. /\ TypeOK /\ ModeOK /\ FreeRight /\ PatchesChain /\ TableIsBase
      /\ level = 0 /\ count > 0 /\ slot[count] = None /\ count' = count - 1
      /\ free' = Without(free, Position(free, count))
      /\ slot' = slot /\ table' = table /\ level' = level
      /\ patch' = patch /\ pending' = pending /\ mode' = mode
  BY DEF IInv, Trim, ModeOK
<1>2. count \in Listed(free) /\ count \in Int
  BY <1>1 DEF FreeRight, TypeOK
<1>3. /\ free' \in Seq(Handle)
      /\ Distinct(free')
      /\ Listed(free') = Listed(free) \ {count}
  <2> DEFINE i == Position(free, count)
  <2>1. i \in 1 .. Len(free) /\ free[i] = count
    BY <1>2, PositionIs
  <2>2. free \in Seq(Handle) /\ Distinct(free) /\ free' = Without(free, i)
    BY <1>1 DEF FreeRight, TypeOK
  <2> HIDE DEF i
  <2> QED
    BY <2>1, <2>2, WithoutOne
<1>4. Listed(free') = {h \in 1 .. count' : slot'[h] = None}
  BY <1>1, <1>2, <1>3 DEF FreeRight
<1>5. \A h \in Handle : h > count' => slot'[h] = None
  BY <1>1, <1>2 DEF FreeRight, Handle
<1>6. PatchesChain' /\ TableIsBase'
  <2>1. \A l \in Level, h \in Handle : patch[l][h] = NoPatch
    BY <1>1 DEF PatchesChain, Level
  <2> QED
    BY <1>1, <2>1 DEF PatchesChain, TableIsBase, View
<1>7. TypeOK'
  BY <1>1, <1>3 DEF TypeOK
<1> QED
  BY <1>1, <1>3, <1>4, <1>5, <1>6, <1>7 DEF IInv, ModeOK, FreeRight

\* The other steps change no call-out.
Quiet == Enter \/ Return \/ Fail \/ Save \/ Saved

LEMMA QuietKeeps ==
  ASSUME IInv, Quiet
  PROVE  IInv' /\ \A l \in Int : View(l)' = View(l)
<1>1. /\ TypeOK /\ ModeOK /\ FreeRight /\ PatchesChain /\ TableIsBase
      /\ slot' = slot /\ count' = count /\ free' = free /\ table' = table
      /\ patch' = patch /\ pending' = pending
      /\ level' \in 0 .. MaxLevel /\ level <= level'
      /\ mode' \in {"run", "commit", "discard", "save"}
  BY DEF IInv, Quiet, Enter, Return, Fail, Save, Saved, TypeOK
<1>2. \A l \in Int : View(l)' = View(l)
  BY <1>1 DEF View
<1>3. TypeOK' /\ FreeRight' /\ TableIsBase'
  BY <1>1, <1>2 DEF TypeOK, FreeRight, TableIsBase
<1>4. PatchesChain'
  BY <1>1, <1>2 DEF PatchesChain, TypeOK, Level
<1>5. ModeOK'
  BY <1>1 DEF Quiet, Enter, Return, Fail, Save, Saved, ModeOK
<1> QED
  BY <1>1, <1>2, <1>3, <1>4, <1>5 DEF IInv

LEMMA InitKeeps == Init => IInv
<1> SUFFICES ASSUME Init PROVE IInv
  OBVIOUS
<1>1. \A l \in Level, h \in Handle : patch[l][h] = NoPatch
  BY DEF Init
<1>2. TypeOK /\ ModeOK
  BY DEF Init, TypeOK, ModeOK, Slot
<1>3. FreeRight
  BY DEF Init, FreeRight, Distinct, Listed
<1>4. PatchesChain
  BY <1>1 DEF PatchesChain
<1>5. TableIsBase
  <2>1. 0 >= level
    BY DEF Init
  <2>2. View(0) = slot
    BY <1>2, <1>4, <2>1, ViewAtTop
  <2> QED
    BY <2>2 DEF Init, TableIsBase
<1> QED
  BY <1>2, <1>3, <1>4, <1>5 DEF IInv

LEMMA StepKeeps == IInv /\ [Next]_vars => IInv'
<1> SUFFICES ASSUME IInv, [Next]_vars PROVE IInv'
  OBVIOUS
<1>1. ASSUME NEW c \in CallOut, NewCallOut(c)  PROVE IInv'
  BY <1>1, NewCallOutKeeps
<1>2. ASSUME NEW h \in Handle, DelCallOut(h)  PROVE IInv'
  BY <1>2, DelCallOutKeeps
<1>3. ASSUME NEW h \in Handle, CallOutRuns(h)  PROVE IInv'
  BY <1>3, CallOutRunsKeeps
<1>4. ASSUME NEW h \in Handle, CommitPatch(h)  PROVE IInv'
  BY <1>4, CommitPatchKeeps
<1>5. ASSUME NEW h \in Handle, DiscardPatch(h)  PROVE IInv'
  BY <1>5, DiscardPatchKeeps
<1>6. CASE Leave
  BY <1>6, LeaveKeeps
<1>7. CASE Trim
  BY <1>7, TrimKeeps
<1>8. CASE Enter \/ Return \/ Fail \/ Save \/ Saved
  BY <1>8, QuietKeeps DEF Quiet
<1>9. CASE UNCHANGED vars
  BY <1>9 DEF vars, IInv, TypeOK, ModeOK, FreeRight, PatchesChain, TableIsBase, View
<1> QED
  BY <1>1, <1>2, <1>3, <1>4, <1>5, <1>6, <1>7, <1>8, <1>9 DEF Next

\* At every reachable state of every instance the parts of IInv hold together:
\* none of them is inductive without the others.
THEOREM Invariance == Spec => []IInv
<1>1. Init => IInv
  BY InitKeeps
<1>2. IInv /\ [Next]_vars => IInv'
  BY StepKeeps
<1> QED
  BY <1>1, <1>2, PTL DEF Spec

\* The state keeps its types, for any handles, call-outs and nesting.
THEOREM TypeCorrect == Spec => []TypeOK
BY Invariance, PTL DEF IInv

\* allocCallOut() never gives out a handle in use, and freeCallOut() loses none.
THEOREM FreeListCorrect == Spec => []FreeRight
BY Invariance, PTL DEF IInv

\* Patches of a handle alternate from plane to plane, however atomic functions
\* nest, return and fail (newCallOut(), delCallOut(), commitCallouts()), and
\* what they do reaches the call-out table when the outermost of them returns,
\* and not otherwise.
THEOREM PatchesCorrect == Spec => []PatchesRight
BY Invariance, PTL DEF IInv, PatchesRight

-----------------------------------------------------------------------------
(* Atomicity *)

\* The store as a reader of the refinement sees it: inside of a failing atomic
\* function it already is what that function found.
BarStore == IF mode = "discard" THEN View(level - 1) ELSE slot
BarSaved == [d \in 1 .. Depth |-> View(d - 1)]

\* What planes below the one that runs undo is what was saved.
LEMMA SavedStay ==
  ASSUME NEW k \in Int, Depth = k, Depth' = k, Kept(k - 1)
  PROVE  BarSaved' = BarSaved
<1>1. \A d \in 1 .. k : d - 1 \in 0 .. k - 1
  OBVIOUS
<1>2. \A d \in 1 .. k : View(d - 1)' = View(d - 1)
  BY <1>1 DEF Kept
<1> QED
  BY <1>2 DEF BarSaved

LEMMA StutterIs ==
  ASSUME BarStore' = BarStore, Depth' = Depth, BarSaved' = BarSaved
  PROVE  [Store!Next]_(Store!vars)
BY DEF Store!vars, BarStore, BarSaved

LEMMA NewCallOutPuts ==
  ASSUME IInv, NEW c \in CallOut, NewCallOut(c)
  PROVE  Store!Next
<1>1. /\ TypeOK /\ FreeRight /\ mode = "run" /\ mode' = "run" /\ level' = level
      /\ NewHandle \in Handle /\ Alloc(NewHandle, c)
  BY DEF IInv, NewCallOut
<1>2. slot[NewHandle] = None
  BY <1>1, NewHandleIsFree, AllocKeepsFree DEF TypeOK, FreeTyped
<1>3. slot' = [slot EXCEPT ![NewHandle] = c]
  BY <1>1 DEF Alloc
<1>4. Depth = level /\ Depth' = level /\ level \in Int
  BY <1>1 DEF Depth, TypeOK
<1>5. Kept(level - 1)
  BY <1>1, NewCallOutKeeps DEF Kept, TypeOK
<1>6. BarSaved' = BarSaved
  BY <1>4, <1>5, SavedStay
<1>7. Store!Put(NewHandle, c)
  BY <1>1, <1>2, <1>3, <1>4, <1>6 DEF Store!Put, BarSaved
<1> QED
  BY <1>1, <1>7 DEF Store!Next

LEMMA DelCallOutDeletes ==
  ASSUME IInv, NEW h \in Handle, DelCallOut(h) \/ CallOutRuns(h)
  PROVE  Store!Next
<1>1. /\ TypeOK /\ mode = "run" /\ mode' = "run" /\ level' = level /\ Free(h)
  BY DEF IInv, DelCallOut, CallOutRuns
<1>2. slot[h] # None
  <2>1. CASE DelCallOut(h)
    BY <2>1 DEF DelCallOut
  <2>2. CASE CallOutRuns(h)
    <3>1. level = 0 /\ table[h] # None
      BY <2>2 DEF CallOutRuns
    <3> QED
      BY <3>1, ViewAtTop DEF IInv, TableIsBase
  <2> QED
    BY <2>1, <2>2
<1>3. slot' = [slot EXCEPT ![h] = None]
  BY <1>1 DEF Free
<1>4. Depth = level /\ Depth' = level /\ level \in Int
  BY <1>1 DEF Depth, TypeOK
<1>5. Kept(level - 1)
  <2>1. CASE DelCallOut(h)
    BY <1>1, <2>1, DelCallOutKeeps DEF Kept, TypeOK
  <2>2. CASE CallOutRuns(h)
    BY <2>2 DEF CallOutRuns, Kept
  <2> QED
    BY <2>1, <2>2
<1>6. BarSaved' = BarSaved
  BY <1>4, <1>5, SavedStay
<1>7. Store!Delete(h)
  BY <1>1, <1>2, <1>3, <1>4, <1>6 DEF Store!Delete, BarSaved
<1> QED
  BY <1>7 DEF Store!Next

LEMMA EnterBegins ==
  ASSUME IInv, Enter
  PROVE  Store!Next
<1>1. /\ TypeOK /\ mode = "run" /\ mode' = "run" /\ level' = level + 1
      /\ slot' = slot /\ level \in Nat
  BY DEF IInv, Enter, TypeOK
<1>2. Depth = level /\ Depth' = level + 1
  BY <1>1 DEF Depth
<1>3. \A l \in Int : View(l)' = View(l)
  BY QuietKeeps DEF Quiet
<1>4. View(level) = slot
  BY <1>1, ViewAtTop DEF IInv
<1>5. \A d \in 1 .. level + 1 :
        View(d - 1)' = IF d = level + 1 THEN slot ELSE View(d - 1)
  BY <1>1, <1>3, <1>4
<1>6. BarSaved' = [d \in 1 .. level + 1 |->
                     IF d = level + 1 THEN slot ELSE BarSaved[d]]
  BY <1>1, <1>2, <1>5 DEF BarSaved
<1>7. Store!Begin
  BY <1>1, <1>2, <1>6 DEF Store!Begin, BarSaved
<1> QED
  BY <1>7 DEF Store!Next

LEMMA ReturnCommits ==
  ASSUME IInv, Return
  PROVE  Store!Next
<1>1. /\ TypeOK /\ mode = "run" /\ mode' = "commit" /\ level' = level
      /\ slot' = slot /\ level \in Nat /\ level > 0
  BY DEF IInv, Return, TypeOK
<1>2. Depth = level /\ Depth' = level - 1
  BY <1>1 DEF Depth
<1>3. \A l \in Int : View(l)' = View(l)
  BY QuietKeeps DEF Quiet
<1>4. BarSaved' = [d \in 1 .. level - 1 |-> BarSaved[d]]
  BY <1>1, <1>2, <1>3 DEF BarSaved
<1>5. Store!Commit
  BY <1>1, <1>2, <1>4 DEF Store!Commit, BarSaved
<1> QED
  BY <1>5 DEF Store!Next

LEMMA FailAborts ==
  ASSUME IInv, Fail
  PROVE  Store!Next
<1>1. /\ TypeOK /\ mode = "run" /\ mode' = "discard" /\ level' = level
      /\ level \in Nat /\ level > 0
  BY DEF IInv, Fail, TypeOK
<1>2. Depth = level /\ Depth' = level - 1
  BY <1>1 DEF Depth
<1>3. \A l \in Int : View(l)' = View(l)
  BY QuietKeeps DEF Quiet
<1>4. BarSaved' = [d \in 1 .. level - 1 |-> BarSaved[d]]
  BY <1>1, <1>2, <1>3 DEF BarSaved
<1>5. BarStore' = BarSaved[level]
  BY <1>1, <1>2, <1>3 DEF BarStore, BarSaved, View
<1>6. Store!Abort
  BY <1>1, <1>2, <1>4, <1>5 DEF Store!Abort, BarStore, BarSaved
<1> QED
  BY <1>6 DEF Store!Next

\* One patch of a commit or of a rollback is not seen.
LEMMA PatchIsUnseen ==
  ASSUME IInv, NEW h \in Handle, CommitPatch(h) \/ DiscardPatch(h)
  PROVE  [Store!Next]_(Store!vars)
<1>1. /\ TypeOK /\ ModeOK /\ mode \in {"commit", "discard"} /\ mode' = mode
      /\ level' = level /\ level \in Int /\ level > 0
  BY DEF IInv, CommitPatch, DiscardPatch, TypeOK, ModeOK
<1>2. Depth = level - 1 /\ Depth' = level - 1
  BY <1>1 DEF Depth
<1>3. Kept(level - 2)
  <2>1. CASE CommitPatch(h)
    BY <2>1, CommitPatchKeeps
  <2>2. CASE DiscardPatch(h)
    BY <1>1, <2>2, DiscardPatchKeeps DEF Kept
  <2> QED
    BY <2>1, <2>2
<1>4. BarSaved' = BarSaved
  BY <1>1, <1>2, <1>3, SavedStay
<1>5. BarStore' = BarStore
  <2>1. CASE CommitPatch(h)
    BY <1>1, <2>1 DEF BarStore, CommitPatch
  <2>2. CASE DiscardPatch(h)
    <3>1. View(level - 1)' = View(level - 1)
      BY <1>1, <2>2, DiscardPatchKeeps DEF Kept, View
    <3> QED
      BY <1>1, <2>2, <3>1 DEF BarStore, DiscardPatch
  <2> QED
    BY <2>1, <2>2
<1> QED
  BY <1>2, <1>4, <1>5, StutterIs

LEMMA LeaveIsUnseen ==
  ASSUME IInv, Leave
  PROVE  [Store!Next]_(Store!vars)
<1>1. /\ TypeOK /\ mode \in {"commit", "discard"} /\ mode' = "run"
      /\ level' = level - 1 /\ level \in Int /\ slot' = slot
  BY DEF IInv, Leave, TypeOK
<1>2. Depth = level - 1 /\ Depth' = level - 1
  BY <1>1 DEF Depth
<1>3. Kept(level - 2) /\ View(level - 1) = slot
  BY <1>1, LeaveKeeps DEF Kept
<1>4. BarSaved' = BarSaved
  BY <1>1, <1>2, <1>3, SavedStay
<1>5. BarStore' = BarStore
  BY <1>1, <1>3 DEF BarStore
<1> QED
  BY <1>2, <1>4, <1>5, StutterIs

LEMMA SavingIsUnseen ==
  ASSUME IInv, Save \/ Trim \/ Saved \/ UNCHANGED vars
  PROVE  [Store!Next]_(Store!vars)
<1>1. slot' = slot /\ patch' = patch /\ level' = level
  BY DEF Save, Trim, Saved, vars
<1>2. Depth' = Depth /\ BarStore' = BarStore
  <2>1. \/ mode' = mode
        \/ mode \in {"run", "save"} /\ mode' \in {"run", "save"}
    BY DEF Save, Trim, Saved, vars
  <2> QED
    BY <1>1, <2>1 DEF Depth, BarStore, View
<1>3. BarSaved' = BarSaved
  BY <1>1, <1>2 DEF BarSaved, View
<1> QED
  BY <1>2, <1>3, StutterIs

\* Atomic functions are atomic for the call-outs of an object: one that returns
\* keeps what it did and one that fails undoes exactly that, at every level of
\* nesting, although patches are merged, committed and undone one at a time.
THEOREM Atomicity == Spec => IsAtomic
<1>1. Init => Store!Init
  <2> SUFFICES ASSUME Init PROVE Store!Init
    OBVIOUS
  <2> QED
    BY DEF Init, Store!Init, Depth
<1>2. IInv /\ [Next]_vars => [Store!Next]_(Store!vars)
  <2> SUFFICES ASSUME IInv, [Next]_vars PROVE [Store!Next]_(Store!vars)
    OBVIOUS
  <2>1. ASSUME NEW c \in CallOut, NewCallOut(c)  PROVE Store!Next
    BY <2>1, NewCallOutPuts
  <2>2. ASSUME NEW h \in Handle, DelCallOut(h) \/ CallOutRuns(h)  PROVE Store!Next
    BY <2>2, DelCallOutDeletes
  <2>3. ASSUME NEW h \in Handle, CommitPatch(h) \/ DiscardPatch(h)
        PROVE  [Store!Next]_(Store!vars)
    BY <2>3, PatchIsUnseen
  <2>4. CASE Enter
    BY <2>4, EnterBegins
  <2>5. CASE Return
    BY <2>5, ReturnCommits
  <2>6. CASE Fail
    BY <2>6, FailAborts
  <2>7. CASE Leave
    BY <2>7, LeaveIsUnseen
  <2>8. CASE Save \/ Trim \/ Saved \/ UNCHANGED vars
    BY <2>8, SavingIsUnseen
  <2> QED
    BY <2>1, <2>2, <2>3, <2>4, <2>5, <2>6, <2>7, <2>8 DEF Next
<1> QED
  BY Invariance, <1>1, <1>2, PTL DEF Spec, IsAtomic, Store!Spec

-----------------------------------------------------------------------------
(* Pending call-outs *)

\* The patches of planes p of one type, and what a patch counts for.
PatchesOf(p, type) ==
  {lh \in Level \X Handle :
     p[lh[1]][lh[2]] # NoPatch /\ p[lh[1]][lh[2]].type = type}

Net(p) == Cardinality(PatchesOf(p, "add")) - Cardinality(PatchesOf(p, "remove"))

Weight(q) ==
  IF q = NoPatch THEN 0
  ELSE IF q.type = "add" THEN 1 ELSE IF q.type = "remove" THEN -1 ELSE 0

Planes == [Level -> [Handle -> Patch \cup {NoPatch}]]

LEMMA PatchesFinite ==
  ASSUME NEW p, NEW type
  PROVE  /\ IsFiniteSet(PatchesOf(p, type))
         /\ Cardinality(PatchesOf(p, type)) \in Nat
<1>1. IsFiniteSet(Level \X Handle)
  <2>1. IsFiniteSet(Level) /\ IsFiniteSet(Handle)
    BY FS_Interval DEF Level, Handle
  <2> QED
    BY <2>1, FS_Product
<1>2. PatchesOf(p, type) \in SUBSET (Level \X Handle)
  BY DEF PatchesOf
<1>3. IsFiniteSet(PatchesOf(p, type))
  BY <1>1, <1>2, FS_Subset
<1> QED
  BY <1>3, FS_CardinalityType

\* One patch is set: the patches of a type lose the old one and gain the new.
LEMMA OneOfType ==
  ASSUME NEW p \in Planes, NEW l \in Level, NEW h \in Handle,
         NEW q \in Patch \cup {NoPatch}, NEW type
  PROVE  LET Is(x) == x # NoPatch /\ x.type = type
             n == Cardinality(PatchesOf(p, type))
         IN  Cardinality(PatchesOf([p EXCEPT ![l][h] = q], type)) =
               IF Is(q) THEN IF Is(p[l][h]) THEN n ELSE n + 1
                        ELSE IF Is(p[l][h]) THEN n - 1 ELSE n
<1> DEFINE p2 == [p EXCEPT ![l][h] = q]
           S == PatchesOf(p, type)
           S2 == PatchesOf(p2, type)
           x == <<l, h>>
           Is(r) == r # NoPatch /\ r.type = type
<1>1. \A m \in Level, g \in Handle :
        p2[m][g] = IF m = l /\ g = h THEN q ELSE p[m][g]
  BY DEF Planes
<1> HIDE DEF p2
<1>2. \A y \in Level \X Handle : y = <<y[1], y[2]>> /\ y[1] \in Level /\ y[2] \in Handle
  OBVIOUS
<1>3. x \in S <=> Is(p[l][h])
  BY DEF PatchesOf
<1>4. S2 = IF Is(q) THEN S \cup {x} ELSE S \ {x}
  <2>1. \A y \in Level \X Handle : y # x => (y \in S2 <=> y \in S)
    BY <1>1, <1>2 DEF PatchesOf
  <2>2. x \in S2 <=> Is(q)
    BY <1>1 DEF PatchesOf
  <2>3. S \subseteq Level \X Handle /\ S2 \subseteq Level \X Handle /\ x \in Level \X Handle
    BY DEF PatchesOf
  <2> HIDE DEF S, S2, x, Is
  <2> QED
    BY <2>1, <2>2, <2>3
<1>5. IsFiniteSet(S)
  BY PatchesFinite
<1>6. Cardinality(S \cup {x}) = IF x \in S THEN Cardinality(S) ELSE Cardinality(S) + 1
  BY <1>5, FS_AddElement
<1>7. Cardinality(S \ {x}) = IF x \in S THEN Cardinality(S) - 1 ELSE Cardinality(S)
  BY <1>5, FS_RemoveElement
<1> HIDE DEF S, S2, x
<1>8. Cardinality(S2) = IF Is(q) THEN IF Is(p[l][h]) THEN Cardinality(S) ELSE Cardinality(S) + 1
                        ELSE IF Is(p[l][h]) THEN Cardinality(S) - 1 ELSE Cardinality(S)
  BY <1>3, <1>4, <1>6, <1>7
<1> QED
  BY <1>8 DEF S, S2, p2

LEMMA OnePatch ==
  ASSUME NEW p \in Planes, NEW l \in Level, NEW h \in Handle,
         NEW q \in Patch \cup {NoPatch}
  PROVE  Net([p EXCEPT ![l][h] = q]) = Net(p) - Weight(p[l][h]) + Weight(q)
<1> DEFINE Is(x, t) == x # NoPatch /\ x.type = t
           n == Cardinality(PatchesOf(p, "add"))
           m == Cardinality(PatchesOf(p, "remove"))
           n2 == Cardinality(PatchesOf([p EXCEPT ![l][h] = q], "add"))
           m2 == Cardinality(PatchesOf([p EXCEPT ![l][h] = q], "remove"))
           r == p[l][h]
<1>1. n \in Nat /\ m \in Nat
  BY PatchesFinite
<1>2. n2 = IF Is(q, "add") THEN IF Is(r, "add") THEN n ELSE n + 1
                           ELSE IF Is(r, "add") THEN n - 1 ELSE n
  BY OneOfType
<1>3. m2 = IF Is(q, "remove") THEN IF Is(r, "remove") THEN m ELSE m + 1
                              ELSE IF Is(r, "remove") THEN m - 1 ELSE m
  BY OneOfType
<1>4. Net(p) = n - m /\ Net([p EXCEPT ![l][h] = q]) = n2 - m2
  BY DEF Net
<1>5. Weight(q) = IF Is(q, "add") THEN 1 ELSE IF Is(q, "remove") THEN -1 ELSE 0
  BY DEF Weight
<1>6. Weight(r) = IF Is(r, "add") THEN 1 ELSE IF Is(r, "remove") THEN -1 ELSE 0
  BY DEF Weight
<1>7. ~(Is(q, "add") /\ Is(q, "remove")) /\ ~(Is(r, "add") /\ Is(r, "remove"))
  OBVIOUS
<1> HIDE DEF n, m, n2, m2, r, Is
<1>8. n2 - m2 = n - m - Weight(r) + Weight(q)
  BY <1>1, <1>2, <1>3, <1>5, <1>6, <1>7
<1> QED
  BY <1>4, <1>8 DEF r

\* Two patches that alternate count for as much as what they are merged to.
LEMMA MergedWeighs ==
  ASSUME NEW upper \in Patch, NEW lower \in Patch,
         WellFormed(upper), WellFormed(lower), New(lower) = Old(upper)
  PROVE  Weight(Merged(upper, lower)) = Weight(upper) + Weight(lower)
<1>0. lower # NoPatch /\ upper # NoPatch
  OBVIOUS
<1>1. CASE upper.type = "add"
  <2>1. lower.type = "remove"
    BY <1>1 DEF WellFormed, New, Old, Patch
  <2>2. Merged(upper, lower) \in Patch /\ Merged(upper, lower).type = "replace"
    BY <1>0, <1>1 DEF Merged, Patch
  <2> QED
    BY <1>0, <1>1, <2>1, <2>2 DEF Weight
<1>2. CASE upper.type = "remove"
  <2>1. lower.type \in {"add", "replace"}
    BY <1>2 DEF WellFormed, New, Old, Patch
  <2>2. IF lower.type = "replace"
        THEN Merged(upper, lower) \in Patch /\ Merged(upper, lower).type = "remove"
        ELSE Merged(upper, lower) = NoPatch
    BY <1>0, <1>2 DEF Merged, Patch, Slot
  <2> QED
    BY <1>0, <1>2, <2>1, <2>2 DEF Weight
<1>3. CASE upper.type = "replace"
  <2>1. lower.type \in {"add", "replace"}
    BY <1>3 DEF WellFormed, New, Old, Patch
  <2>2. Merged(upper, lower) \in Patch /\ Merged(upper, lower).type = lower.type
    BY Zenon, <1>0, <1>3, <2>1 DEF Merged, Patch, Slot
  <2> QED
    BY <1>0, <1>3, <2>1, <2>2 DEF Weight
<1> QED
  BY <1>1, <1>2, <1>3 DEF Patch

LEMMA CountIs == CountRight <=> pending = Net(patch)
BY DEF CountRight, Net, PatchesOf

\* A step that sets one patch of the plane that runs and counts the difference.
LEMMA SetPatchCounts ==
  ASSUME TypeOK, CountRight, level > 0, NEW h \in Handle,
         NEW q \in Patch \cup {NoPatch}, SetPatch(level, h, q),
         pending' = pending - Weight(patch[level][h]) + Weight(q)
  PROVE  CountRight'
<1>1. patch \in Planes /\ level \in Level
  BY DEF TypeOK, Planes, Level
<1>2. patch' = [patch EXCEPT ![level][h] = q]
  BY DEF SetPatch
<1>3. Net(patch') = Net(patch) - Weight(patch[level][h]) + Weight(q)
  BY <1>1, <1>2, OnePatch
<1> QED
  BY Zenon, <1>3, CountIs DEF CountRight, Net, PatchesOf

LEMMA SamePatchesCount ==
  ASSUME CountRight, pending' = pending, patch' = patch
  PROVE  CountRight'
BY DEF CountRight

\* A patch of the plane that runs leaves what is there now.
LEMMA PatchAtTop ==
  ASSUME IInv, level > 0, NEW h \in Handle, patch[level][h] # NoPatch
  PROVE  /\ patch[level][h] \in Patch /\ WellFormed(patch[level][h])
         /\ New(patch[level][h]) = slot[h]
<1>1. level \in Level
  BY DEF IInv, TypeOK, Level
<1>2. View(level)[h] = slot[h]
  BY <1>1, ViewAtTop DEF IInv, Level
<1> QED
  BY <1>1, <1>2 DEF IInv, PatchesChain, TypeOK

LEMMA NewCallOutCounts ==
  ASSUME IInv, CountRight, NEW c \in CallOut, NewCallOut(c)
  PROVE  CountRight'
<1> DEFINE h == NewHandle
           p == patch[level][h]
           q == IF p = NoPatch
                  THEN [type |-> "add", aco |-> c, rco |-> None]
                  ELSE [p EXCEPT !.type = "replace", !.aco = c]
<1>1. TypeOK /\ h \in Handle /\ c \in Slot
  BY DEF IInv, NewCallOut, Slot
<1>2. CASE level = 0
  BY <1>2, SamePatchesCount DEF NewCallOut
<1>3. CASE level # 0
  <2>1. SetPatch(level, h, q) /\ pending' = pending + 1 /\ level > 0 /\ level \in Level
    BY <1>1, <1>3 DEF NewCallOut, TypeOK, Level
  <2>2. slot[h] = None
    BY <1>1, NewHandleIsFree, AllocKeepsFree DEF IInv, NewCallOut, TypeOK, FreeTyped
  <2>3. CASE p = NoPatch
    <3>1. q \in Patch /\ q.type = "add"
      BY <1>1, <2>3 DEF Patch, Slot
    <3>2. Weight(p) = 0 /\ Weight(q) = 1
      BY <2>3, <3>1 DEF Weight
    <3> HIDE DEF h, p, q
    <3> QED
      BY <1>1, <2>1, <3>1, <3>2, SetPatchCounts DEF TypeOK, p
  <2>4. CASE p # NoPatch
    <3>1. p \in Patch /\ WellFormed(p) /\ New(p) = None
      BY <1>1, <2>1, <2>2, <2>4, PatchAtTop
    <3>2. p.type = "remove"
      BY <3>1 DEF WellFormed, New, Patch
    <3>3. q = [p EXCEPT !.type = "replace", !.aco = c]
      BY <2>4
    <3>4. q \in Patch /\ q.type = "replace"
      BY <1>1, <3>1, <3>3 DEF Patch
    <3>5. Weight(p) = -1 /\ Weight(q) = 0
      BY <2>4, <3>2, <3>4 DEF Weight
    <3> HIDE DEF h, p, q
    <3> QED
      BY <1>1, <2>1, <3>4, <3>5, SetPatchCounts DEF TypeOK, p
  <2> QED
    BY <2>3, <2>4
<1> QED
  BY <1>2, <1>3

LEMMA DelCallOutCounts ==
  ASSUME IInv, CountRight, NEW h \in Handle, DelCallOut(h)
  PROVE  CountRight'
<1> DEFINE p == patch[level][h]
           q == CASE p = NoPatch ->
                       [type |-> "remove", aco |-> None, rco |-> slot[h]]
                  [] p # NoPatch /\ p.type = "replace" ->
                       [p EXCEPT !.type = "remove", !.aco = None]
                  [] OTHER -> NoPatch
<1>1. TypeOK /\ slot[h] \in Slot /\ None \in Slot /\ slot[h] # None
  BY DEF IInv, TypeOK, Slot, DelCallOut
<1>2. CASE level = 0
  BY <1>2, SamePatchesCount DEF DelCallOut
<1>3. CASE level # 0
  <2>1. SetPatch(level, h, q) /\ pending' = pending - 1 /\ level > 0
    BY <1>1, <1>3 DEF DelCallOut, TypeOK
  <2>2. p # NoPatch => /\ p \in Patch
                       /\ p.type = "add" \/ p.type = "replace"
    BY <1>1, <2>1, PatchAtTop DEF New, Patch
  <2>3. q \in Patch \cup {NoPatch} /\ Weight(q) = Weight(p) - 1
    <3>1. CASE p = NoPatch
      <4>1. q \in Patch /\ q.type = "remove"
        BY <1>1, <3>1 DEF Patch
      <4> QED
        BY <3>1, <4>1 DEF Weight
    <3>2. CASE p # NoPatch /\ p.type = "replace"
      <4>1. q = [p EXCEPT !.type = "remove", !.aco = None]
        BY <3>2
      <4>2. q \in Patch /\ q.type = "remove"
        BY <1>1, <2>2, <3>2, <4>1 DEF Patch
      <4> QED
        BY <3>2, <4>2 DEF Weight
    <3>3. CASE p # NoPatch /\ p.type = "add"
      <4>1. q = NoPatch
        BY <3>3
      <4> QED
        BY <3>3, <4>1 DEF Weight
    <3> QED
      BY <2>2, <3>1, <3>2, <3>3
  <2>4. Weight(p) \in Int
    BY DEF Weight
  <2> HIDE DEF p, q
  <2> QED
    BY <1>1, <2>1, <2>3, <2>4, SetPatchCounts DEF TypeOK, p
<1> QED
  BY <1>2, <1>3

\* An undone patch no longer counts, a committed one counts in the plane below,
\* and in the table when there is none.
LEMMA DiscardPatchCounts ==
  ASSUME IInv, CountRight, NEW h \in Handle, DiscardPatch(h)
  PROVE  CountRight'
<1> DEFINE p == patch[level][h]
<1>1. TypeOK /\ level > 0 /\ p \in Patch /\ p # NoPatch
  BY DEF IInv, DiscardPatch, ModeOK, TypeOK, Level
<1>2. SetPatch(level, h, NoPatch) /\ pending' = pending - Weight(p)
  BY <1>1 DEF DiscardPatch, Weight, Patch, TypeOK
<1>3. Weight(NoPatch) = 0 /\ Weight(p) \in Int
  BY DEF Weight
<1> QED
  BY <1>1, <1>2, <1>3, SetPatchCounts DEF TypeOK

LEMMA CommitPatchCounts ==
  ASSUME IInv, CountRight, NEW h \in Handle, CommitPatch(h)
  PROVE  CountRight'
<1> DEFINE p == patch[level][h]
<1>1. /\ TypeOK /\ level > 0 /\ level \in Level /\ level \in Int
      /\ p \in Patch /\ p # NoPatch
  BY DEF IInv, CommitPatch, ModeOK, TypeOK, Level
<1>2. Weight(NoPatch) = 0 /\ Weight(p) \in Int
  BY DEF Weight
<1>3. CASE level = 1
  <2>1. SetPatch(level, h, NoPatch) /\ pending' = pending - Weight(p)
    BY SMTT(60), <1>1, <1>3 DEF CommitPatch, Weight, Patch, TypeOK
  <2> QED
    BY <1>1, <1>2, <2>1, SetPatchCounts DEF TypeOK
<1>4. CASE level # 1
  <2> DEFINE k == level - 1
             lower == patch[k][h]
             q == Merged(p, lower)
             mid == [patch EXCEPT ![level][h] = NoPatch]
  <2>1. k \in Level /\ k # level /\ patch \in Planes
    BY <1>1, <1>4 DEF Level, TypeOK, Planes
  <2>2. /\ pending' = pending
        /\ patch' = [patch EXCEPT ![level][h] = NoPatch, ![k][h] = Merged(p, @)]
    BY <1>4 DEF CommitPatch
  <2>3. mid \in Planes /\ mid[k][h] = lower
    BY <1>1, <2>1 DEF Planes
  <2>4. patch' = [mid EXCEPT ![k][h] = q]
    BY <2>2, <2>3
  <2>5. q \in Patch \cup {NoPatch} /\ Weight(q) = Weight(p) + Weight(lower)
    <3>1. CASE lower = NoPatch
      BY <1>1, <3>1 DEF Merged, Weight
    <3>2. CASE lower # NoPatch
      <4>1. lower \in Patch /\ WellFormed(lower) /\ New(lower) = View(k)[h]
        BY <2>1, <3>2 DEF IInv, PatchesChain, Planes
      <4>2. View(k)[h] = Old(p) /\ WellFormed(p)
        BY <1>1, ViewBelowTop DEF IInv, PatchesChain
      <4> QED
        BY <1>1, <4>1, <4>2, MergedIsBoth, MergedWeighs
    <3> QED
      BY <3>1, <3>2
  <2>6. Net(mid) = Net(patch) - Weight(p) + 0
    BY <1>1, <1>2, <2>1, OnePatch
  <2>7. Net(patch') = Net(mid) - Weight(lower) + Weight(q)
    <3> HIDE DEF k, lower, q, mid
    <3>1. Net([mid EXCEPT ![k][h] = q]) = Net(mid) - Weight(mid[k][h]) + Weight(q)
      BY <2>1, <2>3, <2>5, OnePatch
    <3> QED
      BY <2>3, <2>4, <3>1
  <2>8. Net(patch) \in Int /\ Weight(lower) \in Int
    BY PatchesFinite DEF Net, Weight
  <2> HIDE DEF p, q, mid, lower
  <2>9. Net(patch') = Net(patch)
    BY <1>2, <2>5, <2>6, <2>7, <2>8
  <2> QED
    BY Zenon, <2>2, <2>9, CountIs DEF CountRight, Net, PatchesOf
<1> QED
  BY <1>3, <1>4

LEMMA InitCounts == Init => CountRight
<1> SUFFICES ASSUME Init PROVE CountRight
  OBVIOUS
<1>1. patch = [l \in Level |-> [h \in Handle |-> NoPatch]] /\ pending = 0
  BY DEF Init
<1>2. \A y \in Level \X Handle : y[1] \in Level /\ y[2] \in Handle
  OBVIOUS
<1>3. \A type : PatchesOf(patch, type) = {}
  BY <1>1, <1>2 DEF PatchesOf
<1>4. Net(patch) = 0
  BY <1>3, FS_EmptySet DEF Net
<1> QED
  BY <1>1, <1>4, CountIs

\* ncallout, by which check() leaves room in the call-out table, is what a commit
\* of all planes would add less what it would remove, in every plane and at every
\* step of newCallOut(), delCallOut(), commitCallouts() and discardCallouts().
THEOREM CountCorrect == Spec => []CountRight
<1>1. Init => CountRight
  BY InitCounts
<1>2. IInv /\ CountRight /\ [Next]_vars => CountRight'
  <2> SUFFICES ASSUME IInv, CountRight, [Next]_vars PROVE CountRight'
    OBVIOUS
  <2>1. ASSUME NEW c \in CallOut, NewCallOut(c)  PROVE CountRight'
    BY <2>1, NewCallOutCounts
  <2>2. ASSUME NEW h \in Handle, DelCallOut(h)  PROVE CountRight'
    BY <2>2, DelCallOutCounts
  <2>3. ASSUME NEW h \in Handle, CommitPatch(h)  PROVE CountRight'
    BY <2>3, CommitPatchCounts
  <2>4. ASSUME NEW h \in Handle, DiscardPatch(h)  PROVE CountRight'
    BY <2>4, DiscardPatchCounts
  <2>5. ASSUME NEW h \in Handle, CallOutRuns(h)  PROVE CountRight'
    BY <2>5, SamePatchesCount DEF CallOutRuns
  <2>6. CASE Enter \/ Return \/ Fail \/ Leave \/ Save \/ Trim \/ Saved \/ UNCHANGED vars
    BY <2>6, SamePatchesCount DEF Enter, Return, Fail, Leave, Save, Trim, Saved, vars
  <2> QED
    BY <2>1, <2>2, <2>3, <2>4, <2>5, <2>6 DEF Next
<1> QED
  BY Invariance, <1>1, <1>2, PTL DEF Spec
=============================================================================
