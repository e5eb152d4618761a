------------------------- MODULE ObjectPlanes_proofs -------------------------
(***************************************************************************)
(* Proofs about ObjectPlanes, for any names, size of the table and nesting *)
(* of planes: lemmas about the lists and about the record of an object     *)
(* that counts at a level, the inductive invariant, a lemma for each       *)
(* action, and the theorems.  A name is not compiled anew above the first  *)
(* plane while a destructed object has it: with that, find() can go wrong. *)
(***************************************************************************)
EXTENDS ObjectPlanes, WellFoundedInduction, FiniteSetTheorems, TLAPS

USE PlaneAssumption, NoPatchAssumption

-----------------------------------------------------------------------------
(* Lists *)

\* A set that has 0 and with n also n + 1 has all natural numbers.
LEMMA NatSet ==
  ASSUME NEW S, 0 \in S, \A n \in S : n \in Nat => n + 1 \in S
  PROVE  \A n \in Nat : n \in S
<1> SUFFICES ASSUME NEW m \in Nat, m \notin S  PROVE FALSE
  OBVIOUS
<1> DEFINE T == {n \in Nat : n \notin S}
<1>1. PICK x \in T : \A y \in T : ~ (<<y, x>> \in OpToRel(<, Nat))
  BY NatLessThanWellFounded, WFMin, Zenon
<1>2. \A y \in T : ~ (y < x)
  BY <1>1 DEF OpToRel
<1>3. x \in Nat /\ x # 0
  OBVIOUS
<1>4. x - 1 \in Nat /\ x - 1 < x
  BY <1>3
<1>5. x - 1 \in S
  BY <1>2, <1>4
<1>6. (x - 1) + 1 = x
  BY <1>3
<1> QED
  BY <1>4, <1>5, <1>6

\* The elements of a list.
Elements(s) == {s[n] : n \in 1 .. Len(s)}

\* A list is the sequence s: its head leads to the first, the link of each to
\* the next, and none is in it twice.
Runs(s, link, head) ==
  /\ s \in Seq(Index)
  /\ head = IF Len(s) = 0 THEN NoIndex ELSE s[1]
  /\ \A n \in 1 .. Len(s) :
       link[s[n]] = IF n = Len(s) THEN NoIndex ELSE s[n + 1]
  /\ \A n, m \in 1 .. Len(s) : s[n] = s[m] => n = m

\* A list without repetition is no longer than the table.
LEMMA ShortList ==
  ASSUME NEW s \in Seq(Index), \A n, m \in 1 .. Len(s) : s[n] = s[m] => n = m
  PROVE  Len(s) \in Nat /\ Len(s) <= MaxObjects
<1>1. Len(s) \in Nat
  OBVIOUS
<1>2. IsFiniteSet(Index) /\ Cardinality(Index) = MaxObjects
  BY FS_Interval DEF Index
<1>3. IsFiniteSet(1 .. Len(s)) /\ Cardinality(1 .. Len(s)) = Len(s)
  <2>1. 1 \in Int /\ Len(s) \in Int
    BY <1>1
  <2>2. /\ IsFiniteSet(1 .. Len(s))
        /\ Cardinality(1 .. Len(s)) = IF 1 > Len(s) THEN 0 ELSE Len(s) - 1 + 1
    BY <2>1, FS_Interval, Zenon
  <2> QED BY <1>1, <2>2
<1> DEFINE f == [n \in 1 .. Len(s) |-> s[n]]
<1>4. f \in Injection(1 .. Len(s), Index)
  BY DEF Injection, IsInjective
<1>5. Cardinality(1 .. Len(s)) <= Cardinality(Index)
  <2> HIDE DEF f
  <2> QED BY <1>4, <1>2, FS_Injection
<1> QED
  BY <1>1, <1>2, <1>3, <1>5

\* A list is what Chain finds.
LEMMA ChainIs ==
  ASSUME NEW s, NEW link, NEW head, Runs(s, link, head)
  PROVE  Chain(link, head) = s
<1> DEFINE t == Append(s, NoIndex)
           Def(f) == f = [n \in 0 .. MaxObjects |->
             IF n = 0 THEN <<head>>
             ELSE LET u == f[n - 1]
                      last == u[Len(u)]
                  IN  IF last = NoIndex THEN u ELSE Append(u, link[last])]
           g == [n \in 0 .. MaxObjects |->
                   IF n < Len(s) THEN SubSeq(t, 1, n + 1) ELSE t]
           f == CHOOSE f : Def(f)
<1>1. s \in Seq(Index) /\ Len(s) \in Nat /\ Len(s) <= MaxObjects
  BY ShortList DEF Runs
<1>2. t \in Seq(Int) /\ Len(t) = Len(s) + 1 /\ t[Len(s) + 1] = NoIndex
      /\ \A n \in 1 .. Len(s) : t[n] = s[n] /\ t[n] # NoIndex
  BY <1>1 DEF Index, NoIndex
<1>3. \A n \in 0 .. Len(s) : n < Len(s) => link[t[n + 1]] = t[n + 2]
  <2> TAKE n \in 0 .. Len(s)
  <2> HAVE n < Len(s)
  <2>1. n + 1 \in 1 .. Len(s) /\ t[n + 1] = s[n + 1]
    BY <1>1, <1>2
  <2>2. link[s[n + 1]] = IF n + 1 = Len(s) THEN NoIndex ELSE s[n + 2]
    BY <2>1 DEF Runs
  <2>3. CASE n + 1 = Len(s)
    BY <2>1, <2>2, <2>3, <1>2
  <2>4. CASE n + 1 # Len(s)
    <3>1. n + 2 \in 1 .. Len(s)
      BY <1>1, <2>1, <2>4
    <3> QED BY <2>1, <2>2, <2>4, <3>1, <1>2
  <2> QED BY <2>3, <2>4
<1>4. head = t[1]
  BY <1>1, <1>2 DEF Runs
<1> HIDE DEF t
<1>5. \A n \in 0 .. MaxObjects :
         /\ g[n] \in Seq(Int)
         /\ Len(g[n]) = IF n < Len(s) THEN n + 1 ELSE Len(s) + 1
         /\ \A k \in 1 .. Len(g[n]) : g[n][k] = t[k]
  <2> TAKE n \in 0 .. MaxObjects
  <2>1. CASE n < Len(s)
    <3>1. g[n] = SubSeq(t, 1, n + 1)
      BY <2>1
    <3>2. n + 1 \in 1 .. Len(t)
      BY <1>1, <1>2, <2>1
    <3> HIDE DEF g
    <3> QED BY <1>2, <2>1, <3>1, <3>2
  <2>2. CASE ~ (n < Len(s))
    <3>1. g[n] = t
      BY <2>2
    <3> HIDE DEF g
    <3> QED BY <1>2, <2>2, <3>1
  <2> QED BY <2>1, <2>2
<1>6. g[0] = <<head>>
  <2> HIDE DEF g
  <2>1. g[0] \in Seq(Int) /\ Len(g[0]) = 1 /\ g[0][1] = t[1]
    <3>1. 0 \in 0 .. MaxObjects /\ (0 < Len(s) \/ Len(s) = 0)
      BY <1>1
    <3>2. /\ g[0] \in Seq(Int)
          /\ Len(g[0]) = IF 0 < Len(s) THEN 0 + 1 ELSE Len(s) + 1
          /\ \A k \in 1 .. Len(g[0]) : g[0][k] = t[k]
      BY <3>1, <1>5, Zenon
    <3> QED BY <3>1, <3>2
  <2> QED BY <2>1, <1>4
<1>7. ASSUME NEW n \in 0 .. MaxObjects, n # 0
      PROVE  g[n] = LET u == g[n - 1]
                        last == u[Len(u)]
                    IN  IF last = NoIndex THEN u ELSE Append(u, link[last])
  <2> DEFINE u == g[n - 1]
             last == u[Len(u)]
  <2>1. n - 1 \in 0 .. MaxObjects
    BY <1>7
  <2>2. CASE n - 1 < Len(s)
    <3>1. u \in Seq(Int) /\ Len(u) = n /\ \A k \in 1 .. n : u[k] = t[k]
      BY <1>5, <2>1, <2>2
    <3>2. last = t[n] /\ last # NoIndex
      BY <3>1, <1>2, <2>1, <2>2
    <3>3. link[last] = t[n + 1]
      <4>1. n - 1 \in 0 .. Len(s) /\ (n - 1) + 1 = n /\ (n - 1) + 2 = n + 1
        BY <2>1, <2>2, <1>1
      <4> QED BY <4>1, <2>2, <1>3, <3>2
    <3>4. g[n] \in Seq(Int) /\ Len(g[n]) = n + 1 /\ \A k \in 1 .. n + 1 : g[n][k] = t[k]
      BY <1>1, <1>5, <2>1, <2>2
    <3>5. Append(u, link[last]) \in Seq(Int) /\ Len(Append(u, link[last])) = n + 1
          /\ \A k \in 1 .. n + 1 : Append(u, link[last])[k] = t[k]
      <4>1. t[n + 1] \in Int
        BY <1>1, <1>2, <2>1, <2>2
      <4> HIDE DEF u, last
      <4> QED BY <3>1, <3>3, <4>1, <2>1
    <3>6. g[n] = Append(u, link[last])
      <4> HIDE DEF u, last, g
      <4> QED BY <3>4, <3>5
    <3> QED BY <3>2, <3>6
  <2>3. CASE ~ (n - 1 < Len(s))
    <3>1. u = t /\ g[n] = t
      BY <2>1, <2>3, <1>1
    <3>2. last = NoIndex
      BY <3>1, <1>2, <1>1
    <3> QED BY <3>1, <3>2
  <2> QED BY <2>2, <2>3
<1>8. Def(g)
  <2> DEFINE h == [n \in 0 .. MaxObjects |->
             IF n = 0 THEN <<head>>
             ELSE LET u == g[n - 1]
                      last == u[Len(u)]
                  IN  IF last = NoIndex THEN u ELSE Append(u, link[last])]
  <2>1. \A n \in 0 .. MaxObjects : g[n] = h[n]
    <3> HIDE DEF g
    <3> QED BY <1>6, <1>7, Zenon
  <2>2. g = [n \in 0 .. MaxObjects |-> g[n]]
    BY SMT
  <2>3. h = [n \in 0 .. MaxObjects |-> h[n]]
    BY SMT
  <2>4. g = h
    <3> HIDE DEF g, h
    <3>1. [n \in 0 .. MaxObjects |-> g[n]] = [n \in 0 .. MaxObjects |-> h[n]]
      BY <2>1, Zenon
    <3> QED BY <3>1, <2>2, <2>3, Zenon
  <2> QED BY <2>4
<1>9. Def(f)
  <2> HIDE DEF g
  <2> QED BY <1>8, Zenon
<1>10. f[0] = <<head>> /\ \A n \in 0 .. MaxObjects : n # 0 =>
         f[n] = LET u == f[n - 1]
                    last == u[Len(u)]
                IN  IF last = NoIndex THEN u ELSE Append(u, link[last])
  <2> HIDE DEF f
  <2>1. \A n \in 0 .. MaxObjects :
          f[n] = IF n = 0 THEN <<head>>
                 ELSE LET u == f[n - 1]
                          last == u[Len(u)]
                      IN  IF last = NoIndex THEN u ELSE Append(u, link[last])
    BY <1>9, Zenon
  <2>2. 0 \in 0 .. MaxObjects
    OBVIOUS
  <2> QED BY <2>1, <2>2, Zenon
<1>11. \A n \in Nat : n <= MaxObjects => f[n] = g[n]
  <2> DEFINE S == {n \in Nat : n <= MaxObjects => f[n] = g[n]}
  <2> HIDE DEF f, g
  <2>1. 0 \in S
    BY <1>10, <1>6
  <2>2. ASSUME NEW n \in S, n \in Nat  PROVE n + 1 \in S
    <3>1. CASE n + 1 <= MaxObjects
      <4>1. n + 1 \in 0 .. MaxObjects /\ n + 1 # 0 /\ (n + 1) - 1 = n /\ n <= MaxObjects
        BY <3>1
      <4>2. f[n] = g[n]
        BY <4>1
      <4>3. f[n + 1] = LET u == f[n]
                           last == u[Len(u)]
                       IN  IF last = NoIndex THEN u ELSE Append(u, link[last])
        BY <1>10, <4>1
      <4>4. g[n + 1] = LET u == g[n]
                           last == u[Len(u)]
                       IN  IF last = NoIndex THEN u ELSE Append(u, link[last])
        BY <1>7, <4>1
      <4>5. f[n + 1] = g[n + 1]
        BY <4>2, <4>3, <4>4, ZenonT(60)
      <4> QED BY <4>5
    <3>2. CASE ~ (n + 1 <= MaxObjects)
      BY <3>2
    <3> QED BY <3>1, <3>2
  <2>3. \A n \in Nat : n \in S
    <3> HIDE DEF S
    <3> QED BY <2>1, <2>2, NatSet
  <2> QED BY <2>3
<1>12. f[MaxObjects] = t
  <2>1. g[MaxObjects] = t
    BY <1>1
  <2> HIDE DEF f, g
  <2> QED BY <1>11, <2>1
<1>13. Chain(link, head) = IF t[Len(t)] = NoIndex THEN SubSeq(t, 1, Len(t) - 1) ELSE t
  <2>1. Chain(link, head) = LET all == f[MaxObjects]
            IN IF all[Len(all)] = NoIndex THEN SubSeq(all, 1, Len(all) - 1) ELSE all
    BY Zenon DEF Chain
  <2> HIDE DEF f
  <2> QED BY <2>1, <1>12
<1>14. Chain(link, head) = SubSeq(t, 1, Len(s))
  BY <1>13, <1>2, <1>1
<1>15. SubSeq(t, 1, Len(s)) = s
  BY <1>1, <1>2
<1> QED
  BY <1>14, <1>15

\* The list from head on holds the indices of S.
Lists(link, head, S) ==
  /\ Runs(Chain(link, head), link, head)
  /\ Elements(Chain(link, head)) = S

LEMMA ListIs ==
  ASSUME NEW s, NEW link, NEW head, Runs(s, link, head)
  PROVE  Lists(link, head, Elements(s))
BY ChainIs DEF Lists

\* Links of other indices do not matter.
LEMMA SameList ==
  ASSUME NEW link, NEW head, NEW S, Lists(link, head, S),
         NEW other, \A i \in S : other[i] = link[i]
  PROVE  Lists(other, head, S)
<1> DEFINE s == Chain(link, head)
<1>1. Runs(s, link, head) /\ Elements(s) = S
  BY DEF Lists
<1> HIDE DEF s
<1>2. \A n \in 1 .. Len(s) : other[s[n]] = link[s[n]]
  BY <1>1 DEF Elements
<1>3. Runs(s, other, head)
  BY <1>1, <1>2 DEF Runs
<1> QED
  BY <1>1, <1>3, ListIs

LEMMA ListOfIndices ==
  ASSUME NEW link, NEW head, NEW S, Lists(link, head, S)
  PROVE  /\ S \subseteq Index
         /\ head = NoIndex => S = {}
         /\ head # NoIndex => head \in S
<1> DEFINE s == Chain(link, head)
<1>1. Runs(s, link, head) /\ Elements(s) = S
  BY DEF Lists
<1> HIDE DEF s
<1>2. s \in Seq(Index) /\ Len(s) \in Nat /\ \A n \in 1 .. Len(s) : s[n] \in Index
  BY <1>1 DEF Runs
<1>3. Len(s) = 0 \/ 1 \in 1 .. Len(s)
  BY <1>2
<1> QED
  BY <1>1, <1>2, <1>3 DEF Runs, Elements, Index, NoIndex

\* An index that goes in front.
LEMMA Prepended ==
  ASSUME NEW link, NEW head, NEW S, Lists(link, head, S),
         NEW i \in Index, i \notin S,
         NEW other, other[i] = head, \A j \in S : other[j] = link[j]
  PROVE  Lists(other, i, S \cup {i})
<1> DEFINE s == Chain(link, head)
           t == <<i>> \o s
<1>1. Runs(s, link, head) /\ Elements(s) = S
  BY DEF Lists
<1> HIDE DEF s
<1>2. s \in Seq(Index) /\ Len(s) \in Nat /\ \A n \in 1 .. Len(s) : s[n] \in Index
  BY <1>1 DEF Runs
<1>3. t \in Seq(Index) /\ Len(t) = Len(s) + 1 /\ t[1] = i
      /\ \A n \in 2 .. Len(s) + 1 : n - 1 \in 1 .. Len(s) /\ t[n] = s[n - 1]
  BY <1>2
<1>4. \A n \in 1 .. Len(s) : n + 1 \in 2 .. Len(s) + 1 /\ t[n + 1] = s[n]
  <2> TAKE n \in 1 .. Len(s)
  <2>1. n + 1 \in 2 .. Len(s) + 1 /\ (n + 1) - 1 = n
    BY <1>2
  <2> QED BY <2>1, <1>3
<1> HIDE DEF t
<1>5. Elements(t) = S \cup {i}
  <2>1. Elements(s) \subseteq Elements(t)
    BY <1>2, <1>3, <1>4 DEF Elements
  <2>2. i \in Elements(t)
    BY <1>2, <1>3 DEF Elements
  <2>3. ASSUME NEW n \in 1 .. Len(t)  PROVE t[n] \in S \cup {i}
    BY <1>1, <1>2, <1>3 DEF Elements
  <2> QED BY <2>1, <2>2, <2>3, <1>1 DEF Elements
<1>6. \A n \in 1 .. Len(s) : other[s[n]] = link[s[n]] /\ s[n] # i
  BY <1>1 DEF Elements
<1>7. ASSUME NEW n \in 1 .. Len(t)
      PROVE  other[t[n]] = IF n = Len(t) THEN NoIndex ELSE t[n + 1]
  <2>1. CASE n = 1
    <3>1. CASE Len(s) = 0
      BY <1>1, <1>3, <2>1, <3>1 DEF Runs
    <3>2. CASE Len(s) # 0
      <4>1. 2 \in 2 .. Len(s) + 1 /\ t[2] = s[1]
        BY <1>2, <1>3, <3>2
      <4>2. head = s[1]
        BY <1>1, <3>2 DEF Runs
      <4> QED BY <1>2, <1>3, <2>1, <3>2, <4>1, <4>2
    <3> QED BY <3>1, <3>2
  <2>2. CASE n # 1
    <3>1. n - 1 \in 1 .. Len(s) /\ t[n] = s[n - 1] /\ other[t[n]] = link[s[n - 1]]
      BY <1>2, <1>3, <1>6, <2>2
    <3>2. link[s[n - 1]] = IF n - 1 = Len(s) THEN NoIndex ELSE s[(n - 1) + 1]
      BY <1>1, <3>1 DEF Runs
    <3>3. n # Len(t) => n \in 1 .. Len(s) /\ t[n + 1] = s[(n - 1) + 1]
      BY <1>2, <1>3, <1>4
    <3> QED BY <1>2, <1>3, <3>1, <3>2, <3>3
  <2> QED BY <2>1, <2>2
<1>8. ASSUME NEW n \in 1 .. Len(t), NEW m \in 1 .. Len(t), t[n] = t[m]
      PROVE  n = m
  <2>1. CASE n = 1 /\ m = 1
    BY <2>1
  <2>2. CASE n = 1 /\ m # 1
    BY <1>2, <1>3, <1>6, <1>8, <2>2
  <2>3. CASE n # 1 /\ m = 1
    BY <1>2, <1>3, <1>6, <1>8, <2>3
  <2>4. CASE n # 1 /\ m # 1
    <3>1. n - 1 \in 1 .. Len(s) /\ m - 1 \in 1 .. Len(s) /\ s[n - 1] = s[m - 1]
      BY <1>2, <1>3, <1>8, <2>4
    <3>2. n - 1 = m - 1
      BY <1>1, <3>1 DEF Runs
    <3> QED BY <3>2, <1>2, <1>3
  <2> QED BY <2>1, <2>2, <2>3, <2>4
<1>9. Runs(t, other, i)
  <2>1. i = IF Len(t) = 0 THEN NoIndex ELSE t[1]
    BY <1>2, <1>3
  <2> QED BY <2>1, <1>3, <1>7, <1>8, Zenon DEF Runs
<1> QED
  BY <1>5, <1>9, ListIs

\* The first index is taken off.
LEMMA FirstTaken ==
  ASSUME NEW link, NEW head, NEW S, Lists(link, head, S), head # NoIndex
  PROVE  Lists(link, link[head], S \ {head})
<1> DEFINE s == Chain(link, head)
           t == Tail(s)
<1>1. Runs(s, link, head) /\ Elements(s) = S
  BY DEF Lists
<1> HIDE DEF s
<1>2. s \in Seq(Index) /\ Len(s) \in Nat /\ Len(s) # 0 /\ head = s[1]
  BY <1>1 DEF Runs
<1>3. t \in Seq(Index) /\ Len(t) = Len(s) - 1
      /\ \A n \in 1 .. Len(s) - 1 : n + 1 \in 1 .. Len(s) /\ t[n] = s[n + 1]
  BY <1>2
<1> HIDE DEF t
<1>4. \A n, m \in 1 .. Len(s) : s[n] = s[m] => n = m
  BY <1>1 DEF Runs
<1>5. \A n \in 1 .. Len(s) : link[s[n]] = IF n = Len(s) THEN NoIndex ELSE s[n + 1]
  BY <1>1 DEF Runs
<1>6. Elements(t) = S \ {head}
  <2>1. ASSUME NEW n \in 1 .. Len(t)  PROVE t[n] \in S \ {head}
    <3>1. n + 1 \in 1 .. Len(s) /\ t[n] = s[n + 1] /\ n + 1 # 1 /\ 1 \in 1 .. Len(s)
      BY <1>2, <1>3
    <3> QED BY <3>1, <1>1, <1>2, <1>4 DEF Elements
  <2>2. ASSUME NEW n \in 1 .. Len(s), s[n] # head  PROVE s[n] \in Elements(t)
    <3>1. n # 1
      BY <1>2, <2>2
    <3>2. n - 1 \in 1 .. Len(s) - 1 /\ (n - 1) + 1 = n
      BY <1>2, <3>1
    <3>3. t[n - 1] = s[n] /\ n - 1 \in 1 .. Len(t)
      BY <1>3, <3>2
    <3> QED BY <3>3 DEF Elements
  <2> QED BY <2>1, <2>2, <1>1 DEF Elements
<1>7. link[head] = IF Len(t) = 0 THEN NoIndex ELSE t[1]
  <2>1. 1 \in 1 .. Len(s)
    BY <1>2
  <2>2. link[head] = IF 1 = Len(s) THEN NoIndex ELSE s[1 + 1]
    BY <1>2, <1>5, <2>1, Zenon
  <2>3. Len(t) # 0 => 1 \in 1 .. Len(s) - 1
    BY <1>2, <1>3
  <2> QED BY <1>2, <1>3, <2>2, <2>3
<1>8. ASSUME NEW n \in 1 .. Len(t)
      PROVE  link[t[n]] = IF n = Len(t) THEN NoIndex ELSE t[n + 1]
  <2>1. n + 1 \in 1 .. Len(s) /\ t[n] = s[n + 1]
    BY <1>3
  <2>2. link[s[n + 1]] = IF n + 1 = Len(s) THEN NoIndex ELSE s[(n + 1) + 1]
    BY <1>5, <2>1, Zenon
  <2>3. n # Len(t) => n + 1 \in 1 .. Len(s) - 1
    BY <1>2, <1>3
  <2> QED BY <1>2, <1>3, <2>1, <2>2, <2>3
<1>9. ASSUME NEW n \in 1 .. Len(t), NEW m \in 1 .. Len(t), t[n] = t[m]
      PROVE  n = m
  <2>1. n + 1 \in 1 .. Len(s) /\ m + 1 \in 1 .. Len(s) /\ s[n + 1] = s[m + 1]
    BY <1>3, <1>9
  <2> QED BY <2>1, <1>2, <1>3, <1>4
<1>10. Runs(t, link, link[head])
  BY <1>3, <1>7, <1>8, <1>9 DEF Runs
<1> QED
  BY <1>6, <1>10, ListIs

\* An empty list.
LEMMA NoList ==
  ASSUME NEW link
  PROVE  Lists(link, NoIndex, {})
<1>1. Runs(<<>>, link, NoIndex) /\ Elements(<<>>) = {}
  BY DEF Runs, Elements
<1> QED
  BY <1>1, ListIs

\* A list has as many elements as its set.
LEMMA ListCount ==
  ASSUME NEW link, NEW head, NEW S, Lists(link, head, S)
  PROVE  Len(Chain(link, head)) = Cardinality(S)
<1> DEFINE s == Chain(link, head)
           f == [n \in 1 .. Len(s) |-> s[n]]
<1>1. Runs(s, link, head) /\ Elements(s) = S
  BY DEF Lists
<1> HIDE DEF s
<1>2. s \in Seq(Index) /\ Len(s) \in Nat
  BY <1>1 DEF Runs
<1>3. IsFiniteSet(1 .. Len(s)) /\ Cardinality(1 .. Len(s)) = Len(s)
  <2>1. 1 \in Int /\ Len(s) \in Int
    BY <1>2
  <2>2. /\ IsFiniteSet(1 .. Len(s))
        /\ Cardinality(1 .. Len(s)) = IF 1 > Len(s) THEN 0 ELSE Len(s) - 1 + 1
    BY <2>1, FS_Interval, Zenon
  <2> QED BY <1>2, <2>2
<1>4. f \in Bijection(1 .. Len(s), S)
  BY <1>1 DEF Bijection, Injection, Surjection, IsInjective, Runs, Elements
<1>5. Cardinality(S) = Cardinality(1 .. Len(s))
  <2>1. ExistsBijection(1 .. Len(s), S)
    BY <1>4 DEF ExistsBijection
  <2> QED BY <2>1, <1>3, FS_Bijection
<1> QED
  BY <1>3, <1>5 DEF s

\* The indices of the sequence g are linked backwards, the first to head.
Backwards(g, link, head) ==
  /\ g \in Seq(Index)
  /\ \A n, m \in 1 .. Len(g) : g[n] = g[m] => n = m
  /\ \A n \in 1 .. Len(g) : link[g[n]] = IF n = 1 THEN head ELSE g[n - 1]

Last(g, head) == IF Len(g) = 0 THEN head ELSE g[Len(g)]

\* They go in front of a list, one after the other.
LEMMA Reversed ==
  ASSUME NEW link, NEW head, NEW S, Lists(link, head, S),
         NEW other, \A j \in S : other[j] = link[j],
         NEW g, Backwards(g, other, head), Elements(g) \cap S = {}
  PROVE  Lists(other, Last(g, head), S \cup Elements(g))
<1>1. /\ g \in Seq(Index) /\ \A n, m \in 1 .. Len(g) : g[n] = g[m] => n = m
      /\ \A n \in 1 .. Len(g) : other[g[n]] = IF n = 1 THEN head ELSE g[n - 1]
      /\ \A n \in 1 .. Len(g) : g[n] \notin S
  BY DEF Backwards, Elements
<1> DEFINE First(n) == {g[k] : k \in 1 .. n}
           HeadAt(n) == IF n = 0 THEN head ELSE g[n]
           T == {n \in Nat : n <= Len(g) => Lists(other, HeadAt(n), S \cup First(n))}
<1>2. Len(g) \in Nat /\ \A n \in 1 .. Len(g) : g[n] \in Index
  BY <1>1
<1>3. 0 \in T
  <2>1. Lists(other, head, S)
    BY SameList
  <2>2. S \cup First(0) = S
    OBVIOUS
  <2> QED BY <2>1, <2>2
<1>4. ASSUME NEW n \in T, n \in Nat  PROVE n + 1 \in T
  <2>1. CASE n + 1 <= Len(g)
    <3>1. n + 1 \in 1 .. Len(g) /\ n <= Len(g) /\ (n + 1) - 1 = n
      BY <2>1, <1>2
    <3>2. Lists(other, HeadAt(n), S \cup First(n))
      BY <1>4, <3>1
    <3>3. g[n + 1] \notin S \cup First(n)
      <4>1. ASSUME NEW k \in 1 .. n  PROVE g[k] # g[n + 1]
        <5>1. k \in 1 .. Len(g) /\ k # n + 1
          BY <3>1, <1>2
        <5> QED BY <5>1, <3>1, <1>1
      <4> QED BY <4>1, <3>1, <1>1
    <3>4. other[g[n + 1]] = HeadAt(n)
      <4>1. other[g[n + 1]] = IF n + 1 = 1 THEN head ELSE g[(n + 1) - 1]
        BY <3>1, <1>1, Zenon
      <4> QED BY <4>1, <1>4
    <3>5. Lists(other, g[n + 1], (S \cup First(n)) \cup {g[n + 1]})
      <4> HIDE DEF First, Head
      <4> QED BY <3>1, <3>2, <3>3, <3>4, <1>2, Prepended
    <3>6. (S \cup First(n)) \cup {g[n + 1]} = S \cup First(n + 1)
      <4>1. 1 .. n + 1 = (1 .. n) \cup {n + 1}
        BY <1>4
      <4>2. First(n + 1) = First(n) \cup {g[n + 1]}
        BY <4>1
      <4> HIDE DEF First
      <4> QED BY <4>2
    <3>7. HeadAt(n + 1) = g[n + 1]
      BY <1>4
    <3> HIDE DEF First, Head
    <3>8. Lists(other, HeadAt(n + 1), S \cup First(n + 1))
      BY <3>5, <3>6, <3>7, Zenon
    <3> QED BY <3>8, <1>4
  <2>2. CASE ~ (n + 1 <= Len(g))
    BY <2>2, <1>4
  <2> QED BY <2>1, <2>2
<1>5. Len(g) \in T
  <2> HIDE DEF T
  <2> QED BY <1>2, <1>3, <1>4, NatSet
<1>6. Lists(other, HeadAt(Len(g)), S \cup First(Len(g)))
  <2> HIDE DEF First, Head
  <2> QED BY <1>5, <1>2
<1> QED
  BY <1>6, Zenon DEF Elements, Last

-----------------------------------------------------------------------------
(* The lists of a plane *)

IndexOf(p) == IF p = Nil THEN NoIndex ELSE p[2]

\* Pointers to the table, and the null pointer.
Down == {Nil} \cup ({0} \X Index)

\* The links of the three lists of the records R.
Prev(R) == [i \in Index |-> R[i].prev]
Cref(R) == [i \in Index |-> R[i].cref]
Dead(R) == [i \in Index |-> IF R[i].live THEN i ELSE IndexOf(R[i].next)]

\* The indices that are free, and those of destructed objects.
FreeOf(R, n) == {i \in 0 .. n - 1 : R[i].name = NoName}
Destructed(R) == {i \in Index : R[i].name # NoName /\ ~R[i].live}
GoneOf(R) == {i \in Destructed(R) : ~R[i].kept}

\* The lists h of a plane are right for the records R that it has.
ListsGood(R, h) ==
  /\ h.clean \in Down
  /\ h.nobjects \in 0 .. MaxObjects
  /\ \A i \in Index : i >= h.nobjects => R[i].name = NoName
  /\ Lists(Prev(R), h.free, FreeOf(R, h.nobjects))
  /\ Lists(Cref(R), h.destruct, GoneOf(R))
  /\ \E S \in SUBSET Destructed(R) : Lists(Dead(R), IndexOf(h.clean), S)

\* Records that are the same but for their index, and the link if live.
Agree(r, q) ==
  /\ r.name = q.name /\ r.live = q.live /\ r.kept = q.kept
  /\ r.prev = q.prev /\ r.cref = q.cref
  /\ ~r.live => r.next = q.next

LEMMA AgreeingLists ==
  ASSUME NEW R, NEW Q, \A i \in Index : Agree(R[i], Q[i]),
         NEW h, ListsGood(R, h)
  PROVE  ListsGood(Q, h)
<1> USE DEF Agree
<1>1. Prev(Q) = Prev(R) /\ Cref(Q) = Cref(R)
  BY DEF Prev, Cref
<1>2. Dead(Q) = Dead(R)
  BY DEF Dead
<1>3. 0 .. h.nobjects - 1 \subseteq Index
  BY DEF ListsGood, Index
<1>4. FreeOf(Q, h.nobjects) = FreeOf(R, h.nobjects)
  BY <1>3 DEF FreeOf
<1>5. Destructed(Q) = Destructed(R) /\ GoneOf(Q) = GoneOf(R)
  BY DEF Destructed, GoneOf
<1> QED
  BY <1>1, <1>2, <1>4, <1>5 DEF ListsGood

Heads == [clean : Pointer, destruct : Link, free : Link, nobjects : 0 .. MaxObjects]

\* alloc() takes the first free index, or the next one of the table.
LEMMA CreateLists ==
  ASSUME NEW R, NEW h \in Heads, ListsGood(R, h),
         NEW i, i = IF h.free # NoIndex THEN h.free ELSE h.nobjects,
         h.free # NoIndex \/ h.nobjects # MaxObjects,
         NEW Q, Q[i].live, Q[i].name # NoName,
         \A j \in Index : j # i => Agree(R[j], Q[j]),
         NEW g, g = IF h.free # NoIndex THEN [h EXCEPT !.free = R[i].prev]
                                       ELSE [h EXCEPT !.nobjects = @ + 1]
  PROVE  /\ i \in Index /\ R[i].name = NoName
         /\ ListsGood(Q, g)
<1> USE DEF Agree
<1>1. /\ h.nobjects \in 0 .. MaxObjects
      /\ 0 .. h.nobjects - 1 \subseteq Index
      /\ \A j \in Index : j \in 0 .. h.nobjects - 1 \/ j >= h.nobjects
  BY DEF ListsGood, Index
<1>2. h.free # NoIndex => i \in FreeOf(R, h.nobjects)
  BY ListOfIndices DEF ListsGood
<1>3. h.free = NoIndex => i \in Index /\ i = h.nobjects /\ FreeOf(R, h.nobjects) = {}
  BY <1>1, ListOfIndices DEF ListsGood, Index
<1>4. i \in Index /\ R[i].name = NoName
  <2>1. CASE h.free # NoIndex
    BY <1>1, <1>2, <2>1 DEF FreeOf
  <2>2. CASE h.free = NoIndex
    BY <1>1, <1>3, <2>2 DEF ListsGood
  <2> QED BY <2>1, <2>2
<1>5. /\ g.clean = h.clean /\ g.destruct = h.destruct
      /\ h.free # NoIndex => g.free = R[i].prev /\ g.nobjects = h.nobjects
      /\ h.free = NoIndex => g.free = h.free /\ g.nobjects = h.nobjects + 1
  BY DEF Heads
<1>6. g.nobjects \in 0 .. MaxObjects /\ \A j \in Index : j >= g.nobjects => Q[j].name = NoName
  <2>1. CASE h.free # NoIndex
    <3>1. i < h.nobjects
      BY <1>1, <1>2, <2>1 DEF FreeOf
    <3> QED BY <1>1, <1>5, <2>1, <3>1 DEF ListsGood, Index
  <2>2. CASE h.free = NoIndex
    BY <1>1, <1>3, <1>5, <2>2 DEF ListsGood, Index
  <2> QED BY <2>1, <2>2
<1>7. Lists(Prev(Q), g.free, FreeOf(Q, g.nobjects))
  <2>1. CASE h.free # NoIndex
    <3>1. Lists(Prev(R), Prev(R)[i], FreeOf(R, h.nobjects) \ {i})
      BY <2>1, FirstTaken DEF ListsGood
    <3>2. Prev(R)[i] = g.free
      BY <1>4, <1>5, <2>1 DEF Prev
    <3>3. FreeOf(Q, g.nobjects) = FreeOf(R, h.nobjects) \ {i}
      BY <1>1, <1>5, <2>1 DEF FreeOf
    <3>4. \A j \in FreeOf(R, h.nobjects) \ {i} : Prev(Q)[j] = Prev(R)[j]
      BY <1>1 DEF FreeOf, Prev
    <3>5. Lists(Prev(Q), Prev(R)[i], FreeOf(R, h.nobjects) \ {i})
      BY <3>1, <3>4, SameList
    <3> QED BY <3>2, <3>3, <3>5
  <2>2. CASE h.free = NoIndex
    <3>1. FreeOf(Q, g.nobjects) = {}
      BY <1>1, <1>3, <1>5, <2>2 DEF FreeOf
    <3> QED BY <3>1, <1>5, <2>2, NoList
  <2> QED BY <2>1, <2>2
<1>8. Destructed(Q) = Destructed(R) /\ GoneOf(Q) = GoneOf(R) /\ i \notin Destructed(R)
  BY <1>4 DEF Destructed, GoneOf
<1>9. \A j \in Destructed(R) : Cref(Q)[j] = Cref(R)[j] /\ Dead(Q)[j] = Dead(R)[j]
  BY <1>8 DEF Destructed, Cref, Dead
<1>10. Lists(Cref(Q), g.destruct, GoneOf(Q))
  <2>1. Lists(Cref(Q), h.destruct, GoneOf(R))
    BY <1>9, SameList DEF ListsGood, GoneOf
  <2> QED BY <2>1, <1>5, <1>8
<1>11. \E S \in SUBSET Destructed(Q) : Lists(Dead(Q), IndexOf(g.clean), S)
  <2>1. PICK S \in SUBSET Destructed(R) : Lists(Dead(R), IndexOf(h.clean), S)
    BY DEF ListsGood
  <2>2. Lists(Dead(Q), IndexOf(h.clean), S)
    BY <2>1, <1>9, SameList
  <2> QED BY <2>2, <1>5, <1>8
<1>12. g.clean \in Down
  BY <1>5 DEF ListsGood
<1> QED
  BY <1>4, <1>6, <1>7, <1>10, <1>11, <1>12 DEF ListsGood

\* del() puts an object in front of the list to clean up, and remove() in
\* front of that of destructed ones, unless references keep it.
LEMMA DestructLists ==
  ASSUME NEW R, NEW h \in Heads, ListsGood(R, h),
         NEW i \in Index, R[i].live, R[i].name # NoName,
         NEW kept \in BOOLEAN,
         NEW Q, Q[i].name # NoName, ~Q[i].live, Q[i].kept = kept,
         ~kept => Q[i].cref = h.destruct,
         Q[i].next = h.clean,
         \A j \in Index : j # i => Agree(R[j], Q[j]),
         NEW g, g = [h EXCEPT !.clean = <<0, i>>,
                              !.destruct = IF kept THEN @ ELSE i]
  PROVE  ListsGood(Q, g)
<1> USE DEF Agree
<1>1. /\ h.nobjects \in 0 .. MaxObjects
      /\ 0 .. h.nobjects - 1 \subseteq Index
      /\ i < h.nobjects
  BY DEF ListsGood, Index
<1>2. /\ g.clean = <<0, i>> /\ g.destruct = IF kept THEN h.destruct ELSE i
      /\ g.free = h.free /\ g.nobjects = h.nobjects
  BY DEF Heads
<1>3. \A j \in Index : j >= g.nobjects => Q[j].name = NoName
  BY <1>1, <1>2 DEF ListsGood, Index
<1>4. Lists(Prev(Q), g.free, FreeOf(Q, g.nobjects))
  <2>1. FreeOf(Q, g.nobjects) = FreeOf(R, h.nobjects)
    BY <1>1, <1>2 DEF FreeOf
  <2>2. \A j \in FreeOf(R, h.nobjects) : Prev(Q)[j] = Prev(R)[j]
    BY <1>1 DEF FreeOf, Prev
  <2> QED BY <1>2, <2>1, <2>2, SameList DEF ListsGood
<1>5. Destructed(Q) = Destructed(R) \cup {i} /\ i \notin Destructed(R)
  BY DEF Destructed
<1>6. \A j \in Destructed(R) : Cref(Q)[j] = Cref(R)[j] /\ Dead(Q)[j] = Dead(R)[j]
  BY <1>5 DEF Destructed, Cref, Dead
<1>7. Lists(Cref(Q), h.destruct, GoneOf(R))
  BY <1>6, SameList DEF ListsGood, GoneOf
<1>8. Lists(Cref(Q), g.destruct, GoneOf(Q))
  <2>1. CASE kept
    <3>1. GoneOf(Q) = GoneOf(R)
      BY <1>5, <2>1 DEF GoneOf, Destructed
    <3> QED BY <3>1, <1>2, <1>7, <2>1
  <2>2. CASE ~kept
    <3>1. GoneOf(Q) = GoneOf(R) \cup {i} /\ i \notin GoneOf(R)
      BY <1>5, <2>2 DEF GoneOf, Destructed
    <3>2. Cref(Q)[i] = h.destruct
      BY <2>2 DEF Cref
    <3> QED BY <3>1, <3>2, <1>2, <1>7, <2>2, Prepended
  <2> QED BY <2>1, <2>2
<1>9. \E S \in SUBSET Destructed(Q) : Lists(Dead(Q), IndexOf(g.clean), S)
  <2>1. PICK S \in SUBSET Destructed(R) : Lists(Dead(R), IndexOf(h.clean), S)
    BY DEF ListsGood
  <2>2. Lists(Dead(Q), IndexOf(h.clean), S)
    BY <2>1, <1>6, SameList
  <2>3. Dead(Q)[i] = IndexOf(h.clean)
    BY DEF Dead
  <2>4. IndexOf(g.clean) = i
    BY <1>2 DEF IndexOf, Nil
  <2>5. Lists(Dead(Q), i, S \cup {i})
    BY <2>2, <2>3, <1>5, Prepended
  <2> QED BY <2>4, <2>5, <1>5
<1>10. g.clean \in Down /\ g.nobjects \in 0 .. MaxObjects
  BY <1>1, <1>2 DEF Down
<1> QED
  BY <1>3, <1>4, <1>8, <1>9, <1>10 DEF ListsGood

\* remove(): references kept the object until now.
LEMMA ReleaseLists ==
  ASSUME NEW R, NEW h \in Heads, ListsGood(R, h),
         NEW i \in Index, R[i].kept, ~R[i].live, R[i].name # NoName,
         NEW Q, Q[i].name # NoName, ~Q[i].live, ~Q[i].kept,
         Q[i].cref = h.destruct, Q[i].next = R[i].next,
         \A j \in Index : j # i => Agree(R[j], Q[j]),
         NEW g, g = [h EXCEPT !.destruct = i]
  PROVE  ListsGood(Q, g)
<1> USE DEF Agree
<1>1. /\ h.nobjects \in 0 .. MaxObjects
      /\ 0 .. h.nobjects - 1 \subseteq Index
  BY DEF ListsGood, Index
<1>2. /\ g.clean = h.clean /\ g.destruct = i
      /\ g.free = h.free /\ g.nobjects = h.nobjects
  BY DEF Heads
<1>3. \A j \in Index : j >= g.nobjects => Q[j].name = NoName
  BY <1>2 DEF ListsGood
<1>4. Lists(Prev(Q), g.free, FreeOf(Q, g.nobjects))
  <2>1. FreeOf(Q, g.nobjects) = FreeOf(R, h.nobjects)
    BY <1>1, <1>2 DEF FreeOf
  <2>2. \A j \in FreeOf(R, h.nobjects) : Prev(Q)[j] = Prev(R)[j]
    BY <1>1 DEF FreeOf, Prev
  <2> QED BY <1>2, <2>1, <2>2, SameList DEF ListsGood
<1>5. Destructed(Q) = Destructed(R) /\ GoneOf(Q) = GoneOf(R) \cup {i} /\ i \notin GoneOf(R)
  BY DEF Destructed, GoneOf
<1>6. /\ \A j \in GoneOf(R) : Cref(Q)[j] = Cref(R)[j]
      /\ \A j \in Destructed(R) : Dead(Q)[j] = Dead(R)[j]
  BY <1>5 DEF Destructed, GoneOf, Cref, Dead
<1>7. Lists(Cref(Q), g.destruct, GoneOf(Q))
  <2>1. Lists(Cref(Q), h.destruct, GoneOf(R))
    BY <1>6, SameList DEF ListsGood
  <2>2. Cref(Q)[i] = h.destruct
    BY DEF Cref
  <2> QED BY <2>1, <2>2, <1>2, <1>5, Prepended
<1>8. \E S \in SUBSET Destructed(Q) : Lists(Dead(Q), IndexOf(g.clean), S)
  <2>1. PICK S \in SUBSET Destructed(R) : Lists(Dead(R), IndexOf(h.clean), S)
    BY DEF ListsGood
  <2>2. Lists(Dead(Q), IndexOf(h.clean), S)
    BY <2>1, <1>6, SameList
  <2> QED BY <2>2, <1>2, <1>5
<1>9. g.clean \in Down /\ g.nobjects \in 0 .. MaxObjects
  BY <1>2 DEF ListsGood
<1> QED
  BY <1>3, <1>4, <1>7, <1>8, <1>9 DEF ListsGood

\* The records Q are R once clean() has freed the objects gone.
Freed(R, h, gone, Q) ==
  /\ gone = Chain(Cref(R), h.destruct)
  /\ \A i \in Index : i \notin Elements(gone) => Q[i] = R[i]
  /\ \A n \in 1 .. Len(gone) :
       /\ Q[gone[n]].name = NoName /\ Q[gone[n]].live = R[gone[n]].live
       /\ Q[gone[n]].prev = IF n = 1 THEN h.free ELSE gone[n - 1]

\* clean(): destructed objects without references become free.
LEMMA CleanLists ==
  ASSUME NEW R, NEW h \in Heads, ListsGood(R, h),
         NEW gone, NEW Q, Freed(R, h, gone, Q),
         NEW g, g = [h EXCEPT !.clean = Nil, !.destruct = NoIndex,
                              !.free = IF gone = <<>> THEN @ ELSE gone[Len(gone)]]
  PROVE  ListsGood(Q, g)
<1>1. /\ gone = Chain(Cref(R), h.destruct)
      /\ \A i \in Index : i \notin Elements(gone) => Q[i] = R[i]
      /\ \A n \in 1 .. Len(gone) :
           /\ Q[gone[n]].name = NoName /\ Q[gone[n]].live = R[gone[n]].live
           /\ Q[gone[n]].prev = IF n = 1 THEN h.free ELSE gone[n - 1]
  BY DEF Freed
<1>2. /\ h.nobjects \in 0 .. MaxObjects
      /\ 0 .. h.nobjects - 1 \subseteq Index
      /\ \A j \in Index : j >= h.nobjects => R[j].name = NoName
      /\ \A j \in Index : j < h.nobjects => j \in 0 .. h.nobjects - 1
  BY DEF ListsGood, Index
<1>3. Runs(gone, Cref(R), h.destruct) /\ Elements(gone) = GoneOf(R)
  BY <1>1 DEF ListsGood, Lists
<1>4. /\ gone \in Seq(Index) /\ Len(gone) \in Nat
      /\ \A n, m \in 1 .. Len(gone) : gone[n] = gone[m] => n = m
      /\ \A n \in 1 .. Len(gone) : gone[n] \in Index /\ gone[n] \in GoneOf(R)
  BY <1>3 DEF Runs, Elements
<1>5. \A i \in GoneOf(R) : Q[i].name = NoName /\ Q[i].live = R[i].live
  BY <1>1, <1>3 DEF Elements
<1>6. \A i \in Index : i \notin GoneOf(R) => Q[i] = R[i]
  BY <1>1, <1>3
<1>7. /\ g.clean = Nil /\ g.destruct = NoIndex /\ g.nobjects = h.nobjects
      /\ g.free = IF gone = <<>> THEN h.free ELSE gone[Len(gone)]
  BY DEF Heads
<1>8. \A j \in Index : j >= g.nobjects => Q[j].name = NoName
  BY <1>2, <1>5, <1>6, <1>7
<1>9. Lists(Prev(Q), g.free, FreeOf(Q, g.nobjects))
  <2> DEFINE F == FreeOf(R, h.nobjects)
  <2>1. Lists(Prev(R), h.free, F) /\ F \subseteq Index
    BY ListOfIndices DEF ListsGood
  <2>2. \A n \in 1 .. Len(gone) : gone[n] \notin F
    BY <1>4 DEF FreeOf, GoneOf, Destructed
  <2>3. \A j \in F : Prev(Q)[j] = Prev(R)[j]
    BY <2>1, <1>6 DEF FreeOf, GoneOf, Destructed, Prev
  <2>4. \A n \in 1 .. Len(gone) : Prev(Q)[gone[n]] = IF n = 1 THEN h.free ELSE gone[n - 1]
    BY <1>1, <1>4 DEF Prev
  <2>5. g.free = IF Len(gone) = 0 THEN h.free ELSE gone[Len(gone)]
    BY <1>4, <1>7
  <2>6. Lists(Prev(Q), g.free, F \cup Elements(gone))
    <3> HIDE DEF F
    <3>1. Backwards(gone, Prev(Q), h.free)
      BY <1>4, <2>4 DEF Backwards
    <3>2. Elements(gone) \cap F = {}
      BY <2>2 DEF Elements
    <3>3. g.free = Last(gone, h.free)
      BY <2>5 DEF Last
    <3> QED BY <2>1, <2>3, <3>1, <3>2, <3>3, Reversed
  <2>7. FreeOf(Q, g.nobjects) = F \cup Elements(gone)
    <3>1. ASSUME NEW i \in Index
          PROVE  i \in FreeOf(Q, g.nobjects) <=> i \in F \cup GoneOf(R)
      <4>1. CASE i \in GoneOf(R)
        <5>1. i < h.nobjects
          BY <1>2, <4>1 DEF GoneOf, Destructed, Index
        <5> QED BY <1>2, <1>5, <1>7, <4>1, <5>1 DEF FreeOf
      <4>2. CASE i \notin GoneOf(R)
        BY <1>6, <1>7, <4>2 DEF FreeOf
      <4> QED BY <4>1, <4>2
    <3>2. FreeOf(Q, g.nobjects) \subseteq Index
      BY <1>2, <1>7 DEF FreeOf
    <3>3. GoneOf(R) \subseteq Index
      BY DEF GoneOf, Destructed
    <3> QED BY <3>1, <3>2, <3>3, <2>1, <1>3
  <2> HIDE DEF F
  <2> QED BY <2>6, <2>5, <2>7
<1>10. Lists(Cref(Q), g.destruct, GoneOf(Q))
  <2>1. GoneOf(Q) = {}
    BY <1>5, <1>6 DEF GoneOf, Destructed
  <2> QED BY <2>1, <1>7, NoList
<1>11. \E S \in SUBSET Destructed(Q) : Lists(Dead(Q), IndexOf(g.clean), S)
  <2>1. IndexOf(g.clean) = NoIndex
    BY <1>7 DEF IndexOf
  <2>2. {} \in SUBSET Destructed(Q)
    OBVIOUS
  <2> QED BY <2>1, <2>2, NoList
<1>12. g.clean \in Down /\ g.nobjects \in 0 .. MaxObjects
  BY <1>2, <1>7 DEF Down
<1> QED
  BY <1>8, <1>9, <1>10, <1>11, <1>12 DEF ListsGood

-----------------------------------------------------------------------------
(* The record of an object that counts at a level *)

\* What makes k the level of the patch of i that counts at level l.
IsTop(o, l, i, k) ==
  /\ k \in 0 .. l
  /\ k = 0 \/ o[k][i] # NoPatch
  /\ \A m \in k + 1 .. l : o[m][i] = NoPatch

LEMMA TopLevelIs ==
  ASSUME NEW o, NEW i, NEW l \in Nat
  PROVE  IsTop(o, l, i, TopLevel(o, l, i)) /\ TopLevel(o, l, i) \in Nat
<1> DEFINE S == {n \in Nat : \E k \in 0 .. n : IsTop(o, n, i, k)}
<1>1. 0 \in S
  BY DEF IsTop
<1>2. ASSUME NEW n \in S, n \in Nat  PROVE n + 1 \in S
  <2>1. CASE o[n + 1][i] = NoPatch
    <3>1. PICK k \in 0 .. n : IsTop(o, n, i, k)
      OBVIOUS
    <3>2. k \in 0 .. n + 1
      OBVIOUS
    <3>3. IsTop(o, n + 1, i, k)
      BY <2>1, <3>1 DEF IsTop
    <3> QED BY <3>2, <3>3
  <2>2. CASE o[n + 1][i] # NoPatch
    <3>1. IsTop(o, n + 1, i, n + 1) /\ n + 1 \in 0 .. n + 1
      BY <2>2 DEF IsTop
    <3> QED BY <3>1
  <2> QED BY <2>1, <2>2
<1>3. l \in S
  <2> HIDE DEF S
  <2> QED BY <1>1, <1>2, NatSet
<1>4. \E k \in 0 .. l : /\ k = 0 \/ o[k][i] # NoPatch
                        /\ \A m \in k + 1 .. l : o[m][i] = NoPatch
  BY <1>3 DEF IsTop
<1>5. /\ TopLevel(o, l, i) \in 0 .. l
      /\ TopLevel(o, l, i) = 0 \/ o[TopLevel(o, l, i)][i] # NoPatch
      /\ \A m \in TopLevel(o, l, i) + 1 .. l : o[m][i] = NoPatch
  BY <1>4, Zenon DEF TopLevel
<1> QED
  BY <1>5 DEF IsTop

LEMMA OneTop ==
  ASSUME NEW o, NEW i, NEW l \in Nat, NEW k, IsTop(o, l, i, k)
  PROVE  TopLevel(o, l, i) = k
<1> DEFINE t == TopLevel(o, l, i)
<1>1. IsTop(o, l, i, t) /\ t \in Nat
  BY TopLevelIs
<1> HIDE DEF t
<1>2. ~ (t < k)
  <2> SUFFICES ASSUME t < k  PROVE FALSE
    OBVIOUS
  <2>1. k \in t + 1 .. l /\ k # 0
    BY <1>1 DEF IsTop
  <2> QED BY <2>1, <1>1 DEF IsTop
<1>3. ~ (k < t)
  <2> SUFFICES ASSUME k < t  PROVE FALSE
    OBVIOUS
  <2>1. t \in k + 1 .. l /\ t # 0
    BY <1>1 DEF IsTop
  <2> QED BY <2>1, <1>1 DEF IsTop
<1>4. t = k
  BY <1>1, <1>2, <1>3 DEF IsTop
<1> QED
  BY <1>4 DEF t

LEMMA TopOfTable ==
  ASSUME NEW o, NEW i
  PROVE  TopLevel(o, 0, i) = 0 /\ Top(o, 0, i) = o[0][i]
<1>1. IsTop(o, 0, i, 0)
  BY DEF IsTop
<1>2. TopLevel(o, 0, i) = 0
  BY <1>1, OneTop
<1> QED
  BY <1>2 DEF Top

\* A patch of the level counts, or else what counts at the level below.
LEMMA TopStep ==
  ASSUME NEW o, NEW i, NEW l \in Nat, l # 0
  PROVE  /\ o[l][i] # NoPatch => (TopLevel(o, l, i) = l /\ Top(o, l, i) = o[l][i])
         /\ o[l][i] = NoPatch => /\ TopLevel(o, l, i) = TopLevel(o, l - 1, i)
                                 /\ Top(o, l, i) = Top(o, l - 1, i)
<1>1. CASE o[l][i] # NoPatch
  <2>1. IsTop(o, l, i, l)
    BY <1>1 DEF IsTop
  <2>2. TopLevel(o, l, i) = l
    BY <2>1, OneTop
  <2> QED BY <1>1, <2>2 DEF Top
<1>2. CASE o[l][i] = NoPatch
  <2> DEFINE k == TopLevel(o, l - 1, i)
  <2>1. IsTop(o, l - 1, i, k) /\ k \in Nat
    BY TopLevelIs
  <2> HIDE DEF k
  <2>2. IsTop(o, l, i, k)
    BY <1>2, <2>1 DEF IsTop
  <2>3. TopLevel(o, l, i) = k
    BY <2>2, OneTop
  <2> QED BY <1>2, <2>3 DEF k, Top
<1> QED
  BY <1>1, <1>2

LEMMA AgreeSelf ==
  ASSUME NEW r
  PROVE  Agree(r, r)
BY DEF Agree

\* What counts depends on the patches up to the level only.
LEMMA SameTop ==
  ASSUME NEW o, NEW q, NEW i, NEW l \in Nat,
         \A m \in 1 .. l : o[m][i] = NoPatch <=> q[m][i] = NoPatch
  PROVE  TopLevel(q, l, i) = TopLevel(o, l, i)
<1> DEFINE k == TopLevel(o, l, i)
<1>1. IsTop(o, l, i, k) /\ k \in Nat
  BY TopLevelIs
<1> HIDE DEF k
<1>2. IsTop(q, l, i, k)
  BY <1>1 DEF IsTop
<1> QED
  BY <1>2, OneTop DEF k

LEMMA AgreeingTop ==
  ASSUME NEW o, NEW q, NEW i, NEW l \in Nat,
         \A m \in 1 .. l : o[m][i] = NoPatch <=> q[m][i] = NoPatch,
         \A m \in 0 .. l : Agree(o[m][i], q[m][i])
  PROVE  TopLevel(q, l, i) = TopLevel(o, l, i) /\ Agree(Top(o, l, i), Top(q, l, i))
<1>1. TopLevel(q, l, i) = TopLevel(o, l, i) /\ TopLevel(o, l, i) \in 0 .. l
  BY SameTop, TopLevelIs DEF IsTop
<1> QED
  BY <1>1 DEF Top

-----------------------------------------------------------------------------
(* What holds of the records, object by object *)

Objects == [0 .. MaxLevel -> [Index -> Record \cup {NoPatch}]]

Plain(r) ==
  /\ r \in Record
  /\ r.next \in Down
  /\ r.kept => ~r.live /\ r.name # NoName
  /\ r.name = NoName => ~r.live

\* A patch has a name, and its index; if it is live no chain goes on from it.
PatchRight(r, i) ==
  /\ Plain(r)
  /\ r.name # NoName
  /\ r.index = i
  /\ r.live => r.next = Nil

ObjectRight(o, L, i) ==
  /\ Plain(o[0][i])
  /\ o[0][i].name # NoName => o[0][i].index = i
  /\ \A m \in Level :
       o[m][i] # NoPatch =>
         m <= L /\ PatchRight(o[m][i], i) /\ o[0][i].index \in {i, NoIndex}

ObjectsRight(o, L) == \A i \in Index : ObjectRight(o, L, i)

\* What became of the record r on the planes of later atomic functions: its name
\* stays, and it stays destructed.
Grows(r, q) ==
  r.name # NoName => q.name = r.name /\ (~r.live => ~q.live)

GrownRight(o, L) ==
  \A i \in Index : \A m, l \in 0 .. L :
    m <= l => Grows(Top(o, m, i), Top(o, l, i))

\* An object that an atomic function has compiled has a name that no object,
\* destructed ones included, has on the planes of those it is nested in.
FreshIn(o, m, l) ==
  \A j \in Index :
    Top(o, l, j).live =>
      \/ Top(o, m, j).live
      \/ \A k \in Index : Top(o, m, k).name # Top(o, l, j).name

FreshRight(o, L, c) ==
  \A m, l \in 1 .. L : m < l /\ ~(c /\ m = L - 1) => FreshIn(o, m, l)

View(o, l) == [i \in Index |-> Top(o, l, i)]

Unique(R) ==
  \A i, j \in Index :
    R[i].live /\ R[j].live /\ R[i].name = R[j].name => i = j

\* What counts is a record like those of the table and the planes.
LEMMA TopRight ==
  ASSUME NEW o, NEW L \in 0 .. MaxLevel, ObjectsRight(o, L),
         NEW l \in 0 .. MaxLevel, NEW i \in Index
  PROVE  /\ TopLevel(o, l, i) \in 0 .. l /\ TopLevel(o, l, i) \in 0 .. L
         /\ Top(o, l, i) = o[TopLevel(o, l, i)][i]
         /\ Plain(Top(o, l, i))
         /\ TopLevel(o, l, i) > 0 => PatchRight(Top(o, l, i), i)
         /\ Top(o, l, i).name # NoName =>
              Top(o, l, i).index = i /\ o[0][i].index \in {i, NoIndex}
<1> DEFINE k == TopLevel(o, l, i)
<1>1. IsTop(o, l, i, k) /\ k \in Nat
  BY TopLevelIs
<1>2. Top(o, l, i) = o[k][i]
  BY DEF Top
<1> HIDE DEF k
<1>3. ObjectRight(o, L, i)
  BY DEF ObjectsRight
<1>4. k \in 0 .. l /\ (k = 0 \/ (k \in Level /\ o[k][i] # NoPatch))
  BY <1>1 DEF IsTop, Level
<1>5. CASE k = 0
  BY <1>2, <1>3, <1>4, <1>5 DEF ObjectRight, k
<1>6. CASE k # 0
  <2>1. PatchRight(o[k][i], i) /\ k <= L /\ o[0][i].index \in {i, NoIndex}
    BY <1>3, <1>4, <1>6 DEF ObjectRight
  <2> QED BY <2>1, <1>2, <1>4, <1>6 DEF PatchRight, k
<1> QED
  BY <1>5, <1>6

-----------------------------------------------------------------------------
(* A step of a program: one object has a new record on the present plane.  *)

Effect(o, q, L, i, r) ==
  /\ q \in Objects
  /\ q[L][i] = r
  /\ \A m \in 0 .. MaxLevel : \A j \in Index :
       (m # L /\ m # 0) \/ j # i => q[m][j] = o[m][j]
  /\ L # 0 => \/ q[0][i] = o[0][i]
              \/ o[0][i].name = NoName /\ q[0][i] = [o[0][i] EXCEPT !.index = NoIndex]

LEMMA EffectOnTops ==
  ASSUME NEW L \in 0 .. MaxLevel, NEW o \in Objects, ObjectsRight(o, L),
         NEW i \in Index, NEW r, Plain(r), NEW q, Effect(o, q, L, i, r)
  PROVE  /\ \A l \in 0 .. L : \A j \in Index : j # i \/ l < L =>
              TopLevel(q, l, j) = TopLevel(o, l, j) /\ Agree(Top(o, l, j), Top(q, l, j))
         /\ TopLevel(q, L, i) = L /\ Top(q, L, i) = r
<1>1. ASSUME NEW l \in 0 .. L, NEW j \in Index, j # i \/ l < L
      PROVE  TopLevel(q, l, j) = TopLevel(o, l, j) /\ Agree(Top(o, l, j), Top(q, l, j))
  <2>1. \A m \in 1 .. l : m \in 0 .. MaxLevel /\ m # 0 /\ (m # L \/ j # i)
    BY <1>1
  <2>2. \A m \in 1 .. l : q[m][j] = o[m][j]
    BY <2>1 DEF Effect
  <2>3. Agree(o[0][j], q[0][j])
    <3>1. CASE q[0][j] = o[0][j]
      BY <3>1, AgreeSelf
    <3>2. CASE q[0][j] # o[0][j]
      <4>1. 0 \in 0 .. MaxLevel /\ o[0][j] \in Record
        BY DEF ObjectsRight, ObjectRight, Plain
      <4>2. j = i /\ L # 0
        BY <1>1, <3>2, <4>1 DEF Effect
      <4>3. q[0][j] = [o[0][j] EXCEPT !.index = NoIndex]
        BY <3>2, <4>2 DEF Effect
      <4> QED BY <4>1, <4>3 DEF Agree, Record
    <3> QED BY <3>1, <3>2
  <2>4. \A m \in 0 .. l : Agree(o[m][j], q[m][j])
    <3> TAKE m \in 0 .. l
    <3>1. CASE m = 0
      BY <2>3, <3>1
    <3>2. CASE m # 0
      <4>1. q[m][j] = o[m][j]
        BY <2>2, <3>2
      <4> QED BY <4>1, AgreeSelf
    <3> QED BY <3>1, <3>2
  <2> QED BY <2>2, <2>4, AgreeingTop
<1>2. TopLevel(q, L, i) = L /\ Top(q, L, i) = r
  <2>1. CASE L = 0
    BY <2>1, TopOfTable DEF Effect
  <2>2. CASE L # 0
    <3>1. r # NoPatch
      BY DEF Plain
    <3> QED BY <2>2, <3>1, TopStep DEF Effect
  <2> QED BY <2>1, <2>2
<1> QED
  BY <1>1, <1>2

LEMMA EffectOnObjects ==
  ASSUME NEW L \in 0 .. MaxLevel, NEW o \in Objects, ObjectsRight(o, L),
         NEW i \in Index, NEW r, PatchRight(r, i), NEW q, Effect(o, q, L, i, r),
         L # 0 => q[0][i].index \in {i, NoIndex}
  PROVE  ObjectsRight(q, L)
<1> SUFFICES ASSUME NEW j \in Index  PROVE ObjectRight(q, L, j)
  BY DEF ObjectsRight
<1>1. ObjectRight(o, L, j) /\ 0 \in 0 .. MaxLevel
  BY DEF ObjectsRight
<1>2. CASE j # i
  <2>1. \A m \in 0 .. MaxLevel : q[m][j] = o[m][j]
    BY <1>2 DEF Effect
  <2> QED BY <1>1, <2>1 DEF ObjectRight, Level
<1>3. CASE j = i /\ L = 0
  <2>1. \A m \in Level : m # L /\ m # 0 /\ m \in 0 .. MaxLevel
    BY <1>3 DEF Level
  <2>2. \A m \in Level : q[m][j] = o[m][j]
    BY <2>1 DEF Effect
  <2>3. q[0][j] = r
    BY <1>3 DEF Effect
  <2>4. \A m \in Level : o[m][j] = NoPatch
    BY <1>1, <1>3 DEF ObjectRight, Level
  <2> QED BY <2>2, <2>3, <2>4, <1>3 DEF ObjectRight, PatchRight
<1>4. CASE j = i /\ L # 0
  <2>1. /\ Plain(q[0][i])
        /\ q[0][i].name # NoName => q[0][i].index = i
    <3>1. CASE q[0][i] = o[0][i]
      BY <1>1, <1>4, <3>1 DEF ObjectRight
    <3>2. CASE q[0][i] = [o[0][i] EXCEPT !.index = NoIndex] /\ o[0][i].name = NoName
      <4>1. o[0][i] \in Record /\ NoIndex \in Link
        BY <1>1, <1>4 DEF ObjectRight, Plain, Link
      <4>2. q[0][i] \in Record
        BY <3>2, <4>1 DEF Record
      <4>3. q[0][i].next = o[0][i].next /\ q[0][i].kept = o[0][i].kept
            /\ q[0][i].live = o[0][i].live /\ q[0][i].name = NoName
        BY <3>2, <4>1 DEF Record
      <4> QED BY <1>1, <1>4, <3>2, <4>2, <4>3 DEF ObjectRight, Plain
    <3> QED BY <3>1, <3>2, <1>4 DEF Effect
  <2>2. ASSUME NEW m \in Level, q[m][i] # NoPatch
        PROVE  m <= L /\ PatchRight(q[m][i], i)
    <3>1. CASE m = L
      BY <3>1 DEF Effect
    <3>2. CASE m # L
      <4>1. q[m][i] = o[m][i]
        BY <3>2 DEF Effect, Level
      <4> QED BY <4>1, <2>2, <1>1, <1>4 DEF ObjectRight
    <3> QED BY <3>1, <3>2
  <2> QED BY <2>1, <2>2, <1>4 DEF ObjectRight
<1> QED
  BY <1>2, <1>3, <1>4

LEMMA AgreeGrows ==
  ASSUME NEW r, NEW q, NEW r2, NEW q2, Agree(r, r2), Agree(q, q2), Grows(r, q)
  PROVE  Grows(r2, q2)
BY DEF Agree, Grows

LEMMA EffectOnGrown ==
  ASSUME NEW L \in 0 .. MaxLevel, NEW o \in Objects, ObjectsRight(o, L),
         GrownRight(o, L),
         NEW i \in Index, NEW r, Plain(r), NEW q, Effect(o, q, L, i, r),
         Grows(Top(o, L, i), r)
  PROVE  GrownRight(q, L)
<1> SUFFICES ASSUME NEW j \in Index, NEW m \in 0 .. L, NEW l \in 0 .. L, m <= l
             PROVE  Grows(Top(q, m, j), Top(q, l, j))
  BY DEF GrownRight
<1>1. Grows(Top(o, m, j), Top(o, l, j))
  BY DEF GrownRight
<1>2. CASE j # i \/ l < L
  BY <1>1, <1>2, EffectOnTops, AgreeGrows
<1>3. CASE j = i /\ l = L /\ m < L
  <2>1. Agree(Top(o, m, j), Top(q, m, j)) /\ Top(q, l, j) = r
    BY <1>3, EffectOnTops
  <2>2. Grows(Top(o, m, j), r)
    BY <1>1, <1>3 DEF Grows
  <2> QED BY <2>1, <2>2 DEF Agree, Grows
<1>4. CASE j = i /\ l = L /\ m = L
  BY <1>4 DEF Grows
<1> QED
  BY <1>2, <1>3, <1>4

\* An object that is live now was live before, with the name that it has, or its
\* name is that of none.
LEMMA EffectOnFresh ==
  ASSUME NEW L \in 0 .. MaxLevel, NEW o \in Objects, ObjectsRight(o, L),
         FreshRight(o, L, FALSE),
         NEW i \in Index, NEW r, Plain(r), NEW q, Effect(o, q, L, i, r),
         r.live => \/ Top(o, L, i).live /\ Top(o, L, i).name = r.name
                   \/ \A m \in 1 .. L - 1 : \A k \in Index : Top(o, m, k).name # r.name
  PROVE  FreshRight(q, L, FALSE)
<1> SUFFICES ASSUME NEW m \in 1 .. L, NEW l \in 1 .. L, m < l,
                    NEW j \in Index, Top(q, l, j).live,
                    ~Top(q, m, j).live, NEW k \in Index
             PROVE  Top(q, m, k).name # Top(q, l, j).name
  BY DEF FreshRight, FreshIn
<1>1. FreshIn(o, m, l) /\ m \in 0 .. L /\ l \in 0 .. L /\ m < L
  BY DEF FreshRight
<1>2. Agree(Top(o, m, j), Top(q, m, j)) /\ Agree(Top(o, m, k), Top(q, m, k))
  BY <1>1, EffectOnTops
<1>3. CASE j # i \/ l < L
  <2>1. Agree(Top(o, l, j), Top(q, l, j))
    BY <1>1, <1>3, EffectOnTops
  <2> QED BY <1>1, <1>2, <2>1 DEF FreshIn, Agree
<1>4. CASE j = i /\ l = L
  <2>1. Top(q, l, j) = r
    BY <1>4, EffectOnTops
  <2>2. CASE Top(o, L, i).live /\ Top(o, L, i).name = r.name
    BY <1>1, <1>2, <1>4, <2>1, <2>2 DEF FreshIn, Agree
  <2>3. CASE \A n \in 1 .. L - 1 : \A e \in Index : Top(o, n, e).name # r.name
    <3>1. m \in 1 .. L - 1
      BY <1>4
    <3> QED BY <1>2, <2>1, <2>3, <3>1 DEF Agree
  <2> QED BY <2>1, <2>2, <2>3
<1> QED
  BY <1>1, <1>3, <1>4

\* The levels that a loop of commitPlane() or discardPlane() does not change.
Settled(l, L, md) ==
  /\ ~(md = "commit" /\ l = L - 1)
  /\ ~(md = "discard" /\ l = L)

\* The index of an object is in the table, or in a patch.
IndexedRight(o, L, h) ==
  \A i \in Index : i < h.nobjects =>
    o[0][i].index = i \/ \E m \in 1 .. L : o[m][i] # NoPatch

PlaneRight(o, hs, L, l) ==
  /\ Unique(View(o, l))
  /\ ListsGood(View(o, l), hs[l])
  /\ IndexedRight(o, L, hs[l])

PlanesRight(o, hs, L, md) ==
  \A l \in 0 .. L : Settled(l, L, md) => PlaneRight(o, hs, L, l)

\* The hash table of the patches has those that count and are live.
HtabRight(o, h, L) ==
  /\ \A n \in Name : h[n] # Nil =>
       \E i \in Index :
         /\ TopLevel(o, L, i) > 0
         /\ h[n] = <<TopLevel(o, L, i), i>>
         /\ Top(o, L, i).live /\ Top(o, L, i).name = n
  /\ \A i \in Index :
       TopLevel(o, L, i) > 0 /\ Top(o, L, i).live =>
         h[Top(o, L, i).name] = <<TopLevel(o, L, i), i>>

\* The chain of a name in the table may go on from j to i while the patches of the
\* lowest plane are committed, until that of i is: it destructs i.
Chained(o, j, i) ==
  /\ o[0][j].next = <<0, i>>
  /\ o[0][i].live /\ o[0][i].name = o[0][j].name /\ o[0][i].next = Nil
  /\ o[1][i] # NoPatch /\ ~o[1][i].live
  /\ o[1][j] = NoPatch

\* The hash table of the table has the objects that are live there.
StaticRight(o, s, c) ==
  /\ \A n \in Name : s[n] # Nil =>
       \E j \in Index : s[n] = <<0, j>> /\ o[0][j].live /\ o[0][j].name = n
  /\ \A i \in Index : o[0][i].live =>
       \E j \in Index :
         s[o[0][i].name] = <<0, j>> /\ (j = i \/ (c /\ Chained(o, j, i)))
  /\ \A j \in Index : o[0][j].live /\ o[0][j].next # Nil =>
       c /\ s[o[0][j].name] = <<0, j>> /\ \E i \in Index : Chained(o, j, i)

LEMMA AgreeingUnique ==
  ASSUME NEW R, NEW Q, \A i \in Index : Agree(R[i], Q[i]), Unique(R)
  PROVE  Unique(Q)
BY DEF Agree, Unique

LEMMA AgreeingViews ==
  ASSUME NEW o, NEW q, NEW l, \A j \in Index : Agree(Top(o, l, j), Top(q, l, j))
  PROVE  \A j \in Index : Agree(View(o, l)[j], View(q, l)[j])
BY DEF View

LEMMA EffectOnPlanes ==
  ASSUME NEW L \in 0 .. MaxLevel, NEW o \in Objects, ObjectsRight(o, L),
         NEW hs, PlanesRight(o, hs, L, "run"),
         NEW i \in Index, NEW r, PatchRight(r, i), NEW q, Effect(o, q, L, i, r),
         r.live => \A j \in Index : Top(o, L, j).live /\ Top(o, L, j).name = r.name => j = i,
         NEW gs, \A l \in 0 .. L : l # L => gs[l] = hs[l],
         ListsGood(View(q, L), gs[L]),
         \A j \in Index : j < gs[L].nobjects => j = i \/ j < hs[L].nobjects
  PROVE  PlanesRight(q, gs, L, "run")
<1> SUFFICES ASSUME NEW l \in 0 .. L  PROVE PlaneRight(q, gs, L, l)
  BY DEF PlanesRight
<1>1. PlaneRight(o, hs, L, l) /\ l \in Nat /\ Plain(r) /\ r # NoPatch
  BY DEF PlanesRight, Settled, PatchRight, Plain
<1>2. \A k \in 0 .. L : \A j \in Index : j # i \/ k < L =>
              TopLevel(q, k, j) = TopLevel(o, k, j) /\ Agree(Top(o, k, j), Top(q, k, j))
  BY <1>1, EffectOnTops
<1>3. Top(q, L, i) = r
  BY <1>1, EffectOnTops
<1>4. Unique(View(q, l)) /\ ListsGood(View(q, l), gs[l])
  <2>1. CASE l # L
    <3>1. \A j \in Index : Agree(Top(o, l, j), Top(q, l, j))
      BY <1>2, <2>1
    <3>2. \A j \in Index : Agree(View(o, l)[j], View(q, l)[j])
      BY <3>1, AgreeingViews
    <3>3. gs[l] = hs[l]
      BY <2>1
    <3> QED BY <3>2, <3>3, <1>1, AgreeingUnique, AgreeingLists DEF PlaneRight
  <2>2. CASE l = L
    <3>1. ASSUME NEW j \in Index, NEW k \in Index, Top(q, l, j).live, Top(q, l, k).live,
                 Top(q, l, j).name = Top(q, l, k).name
          PROVE  j = k
      <4>1. CASE j # i /\ k # i
        <5>1. Agree(Top(o, l, j), Top(q, l, j)) /\ Agree(Top(o, l, k), Top(q, l, k))
          BY <1>2, <4>1
        <5> QED BY <5>1, <3>1, <1>1 DEF PlaneRight, Unique, View, Agree
      <4>2. CASE j = i /\ k # i
        <5>1. Agree(Top(o, l, k), Top(q, l, k))
          BY <1>2, <4>2
        <5> QED BY <5>1, <3>1, <1>3, <2>2, <4>2 DEF Agree
      <4>3. CASE j # i /\ k = i
        <5>1. Agree(Top(o, l, j), Top(q, l, j))
          BY <1>2, <4>3
        <5> QED BY <5>1, <3>1, <1>3, <2>2, <4>3 DEF Agree
      <4> QED BY <4>1, <4>2, <4>3
    <3> QED BY <3>1, <2>2 DEF Unique, View
  <2> QED BY <2>1, <2>2
<1>5. ASSUME NEW j \in Index, j < gs[l].nobjects
      PROVE  q[0][j].index = j \/ \E m \in 1 .. L : q[m][j] # NoPatch
  <2>1. CASE j = i
    <3>1. CASE L = 0
      BY <2>1, <3>1 DEF Effect, PatchRight
    <3>2. CASE L # 0
      <4>1. L \in 1 .. L /\ q[L][i] = r
        BY <3>2 DEF Effect
      <4> QED BY <4>1, <2>1, <1>1
    <3> QED BY <3>1, <3>2
  <2>2. CASE j # i
    <3>1. j < hs[l].nobjects
      BY <1>5, <2>2
    <3>2. \A m \in 0 .. MaxLevel : q[m][j] = o[m][j]
      BY <2>2 DEF Effect
    <3>3. o[0][j].index = j \/ \E m \in 1 .. L : o[m][j] # NoPatch
      BY <3>1, <1>1 DEF PlaneRight, IndexedRight
    <3> QED BY <3>2, <3>3
  <2> QED BY <2>1, <2>2
<1> QED
  BY <1>4, <1>5 DEF PlaneRight, IndexedRight

\* The hash table h2 has the record r at p in place of t.
Hashes(h2, h, t, r, p) ==
  \A n \in Name :
    h2[n] = CASE r.live /\ r.name = n -> p
              [] ~(r.live /\ r.name = n) /\ t.live /\ t.name = n -> Nil
              [] OTHER -> h[n]

LEMMA EffectOnHtab ==
  ASSUME NEW L \in 0 .. MaxLevel, NEW o \in Objects, ObjectsRight(o, L),
         NEW h, HtabRight(o, h, L), L # 0,
         NEW i \in Index, NEW r, PatchRight(r, i), NEW q, Effect(o, q, L, i, r),
         r.live => \A j \in Index : Top(o, L, j).live /\ Top(o, L, j).name = r.name => j = i,
         Unique(View(o, L)),
         NEW h2, Hashes(h2, h, Top(o, L, i), r, <<L, i>>)
  PROVE  HtabRight(q, h2, L)
<1>1. L \in Nat /\ Plain(r) /\ r.name \in Name
  BY DEF PatchRight, Plain, Record
<1>2. \A j \in Index : j # i =>
              TopLevel(q, L, j) = TopLevel(o, L, j) /\ Agree(Top(o, L, j), Top(q, L, j))
  BY <1>1, EffectOnTops
<1>3. TopLevel(q, L, i) = L /\ Top(q, L, i) = r
  BY <1>1, EffectOnTops
<1>4. ASSUME NEW n \in Name, h2[n] # Nil
      PROVE  \E j \in Index :
               /\ TopLevel(q, L, j) > 0
               /\ h2[n] = <<TopLevel(q, L, j), j>>
               /\ Top(q, L, j).live /\ Top(q, L, j).name = n
  <2>1. CASE r.live /\ r.name = n
    BY <1>1, <1>3, <2>1 DEF Hashes
  <2>2. CASE ~(r.live /\ r.name = n)
    <3>1. h2[n] = h[n] /\ ~(Top(o, L, i).live /\ Top(o, L, i).name = n)
      BY <1>4, <2>2 DEF Hashes
    <3>2. PICK j \in Index :
               /\ TopLevel(o, L, j) > 0
               /\ h[n] = <<TopLevel(o, L, j), j>>
               /\ Top(o, L, j).live /\ Top(o, L, j).name = n
      BY <3>1, <1>4 DEF HtabRight
    <3>3. j # i
      BY <3>1, <3>2
    <3> QED BY <3>1, <3>2, <3>3, <1>2 DEF Agree
  <2> QED BY <2>1, <2>2
<1>5. ASSUME NEW j \in Index, TopLevel(q, L, j) > 0, Top(q, L, j).live
      PROVE  h2[Top(q, L, j).name] = <<TopLevel(q, L, j), j>>
  <2>1. CASE j = i
    BY <1>1, <1>3, <1>5, <2>1 DEF Hashes
  <2>2. CASE j # i
    <3>1. /\ TopLevel(q, L, j) = TopLevel(o, L, j) /\ Agree(Top(o, L, j), Top(q, L, j))
      BY <1>2, <2>2
    <3> DEFINE n == Top(o, L, j).name
    <3>2. Top(o, L, j).live /\ Top(q, L, j).name = n /\ TopLevel(o, L, j) > 0
      BY <3>1, <1>5 DEF Agree
    <3>3. n \in Name
      BY <3>2, TopRight DEF Plain, Record
    <3>4. ~(r.live /\ r.name = n)
      BY <2>2, <3>2
    <3>5. ~(Top(o, L, i).live /\ Top(o, L, i).name = n)
      BY <2>2, <3>2 DEF Unique, View
    <3>6. h2[n] = h[n]
      BY <3>3, <3>4, <3>5 DEF Hashes
    <3>7. h[n] = <<TopLevel(o, L, j), j>>
      BY <3>2 DEF HtabRight
    <3> QED BY <3>1, <3>2, <3>6, <3>7
  <2> QED BY <2>1, <2>2
<1> QED
  BY <1>4, <1>5 DEF HtabRight

\* On the table itself there are no patches to hash.
LEMMA NoHtab ==
  ASSUME NEW o, NEW h
  PROVE  HtabRight(o, h, 0) <=> \A n \in Name : h[n] = Nil
BY TopOfTable DEF HtabRight

LEMMA EffectOnStatic ==
  ASSUME NEW o \in Objects, ObjectsRight(o, 0),
         NEW s, StaticRight(o, s, FALSE),
         NEW i \in Index, NEW r, PatchRight(r, i), NEW q, Effect(o, q, 0, i, r),
         r.live => \A j \in Index : o[0][j].live /\ o[0][j].name = r.name => j = i,
         NEW s2, Hashes(s2, s, o[0][i], r, <<0, i>>)
  PROVE  StaticRight(q, s2, FALSE)
<1>1. Plain(r) /\ r.name \in Name /\ 0 \in 0 .. MaxLevel
  BY DEF PatchRight, Plain, Record
<1>2. q[0][i] = r /\ \A j \in Index : j # i => q[0][j] = o[0][j]
  BY <1>1 DEF Effect
<1>3. ASSUME NEW n \in Name, s2[n] # Nil
      PROVE  \E j \in Index : s2[n] = <<0, j>> /\ q[0][j].live /\ q[0][j].name = n
  <2>1. CASE r.live /\ r.name = n
    BY <1>2, <2>1 DEF Hashes
  <2>2. CASE ~(r.live /\ r.name = n)
    <3>1. s2[n] = s[n] /\ ~(o[0][i].live /\ o[0][i].name = n)
      BY <1>3, <2>2 DEF Hashes
    <3>2. PICK j \in Index : s[n] = <<0, j>> /\ o[0][j].live /\ o[0][j].name = n
      BY <3>1, <1>3 DEF StaticRight
    <3> QED BY <3>1, <3>2, <1>2
  <2> QED BY <2>1, <2>2
<1>4. ASSUME NEW j \in Index, q[0][j].live
      PROVE  s2[q[0][j].name] = <<0, j>> /\ q[0][j].next = Nil
  <2>1. CASE j = i
    BY <1>1, <1>2, <1>4, <2>1 DEF Hashes, PatchRight
  <2>2. CASE j # i
    <3> DEFINE n == o[0][j].name
    <3>1. q[0][j] = o[0][j] /\ o[0][j].live
      BY <1>2, <1>4, <2>2
    <3>2. n \in Name
      BY <3>1 DEF ObjectsRight, ObjectRight, Plain, Record
    <3>3. s[n] = <<0, j>> /\ o[0][j].next = Nil
      BY <3>1 DEF StaticRight
    <3>4. ~(r.live /\ r.name = n)
      BY <2>2, <3>1
    <3>5. ~(o[0][i].live /\ o[0][i].name = n)
      <4> SUFFICES ASSUME o[0][i].live, o[0][i].name = n  PROVE FALSE
        OBVIOUS
      <4>1. s[n] = <<0, i>>
        BY SMTT(60) DEF StaticRight
      <4> QED BY <4>1, <3>3, <2>2
    <3>6. s2[n] = s[n]
      BY <3>2, <3>4, <3>5 DEF Hashes
    <3> QED BY <3>1, <3>3, <3>6
  <2> QED BY <2>1, <2>2
<1> QED
  BY <1>3, <1>4 DEF StaticRight

\* What is done on a plane does not concern the table.
LEMMA TableKept ==
  ASSUME NEW L \in 1 .. MaxLevel, NEW o \in Objects, ObjectsRight(o, L),
         NEW s, StaticRight(o, s, FALSE),
         NEW i \in Index, NEW r, NEW q, Effect(o, q, L, i, r)
  PROVE  StaticRight(q, s, FALSE)
<1>1. \A j \in Index : /\ q[0][j].name = o[0][j].name /\ q[0][j].live = o[0][j].live
                       /\ q[0][j].next = o[0][j].next
  <2> TAKE j \in Index
  <2>1. o[0][j] \in Record /\ 0 \in 0 .. MaxLevel /\ L # 0
    BY DEF ObjectsRight, ObjectRight, Plain
  <2>2. q[0][j] = o[0][j] \/ q[0][j] = [o[0][j] EXCEPT !.index = NoIndex]
    BY <2>1 DEF Effect
  <2> QED BY <2>1, <2>2 DEF Record
<1> QED
  BY <1>1 DEF StaticRight

-----------------------------------------------------------------------------
(* The invariant *)

Typed(o, s, h, hs, L, md) ==
  /\ o \in Objects
  /\ s \in [Name -> Pointer]
  /\ h \in [Name -> Pointer]
  /\ hs \in [0 .. MaxLevel -> Heads]
  /\ L \in 0 .. MaxLevel
  /\ md \in {"run", "commit", "discard"}
  /\ md # "run" => L # 0

\* The patches of the lowest plane are being committed: the hash table of the
\* patches is about to go, and that of the table to change.
Last1(L, md) == md = "commit" /\ L = 1

Good(o, s, h, hs, L, md) ==
  /\ Typed(o, s, h, hs, L, md)
  /\ ObjectsRight(o, L)
  /\ GrownRight(o, L)
  /\ FreshRight(o, L, md = "commit")
  /\ PlanesRight(o, hs, L, md)
  /\ ~Last1(L, md) => HtabRight(o, h, L)
  /\ StaticRight(o, s, Last1(L, md))

IInv == Good(obj, static, htab, list, level, mode)

LEMMA Running ==
  ASSUME NEW o, NEW s, NEW h, NEW hs, NEW L, Good(o, s, h, hs, L, "run")
  PROVE  /\ Typed(o, s, h, hs, L, "run")
         /\ ObjectsRight(o, L) /\ GrownRight(o, L) /\ FreshRight(o, L, FALSE)
         /\ PlanesRight(o, hs, L, "run")
         /\ \A l \in 0 .. L : PlaneRight(o, hs, L, l)
         /\ HtabRight(o, h, L) /\ StaticRight(o, s, FALSE)
BY DEF Good, Last1, PlanesRight, Settled

-----------------------------------------------------------------------------
(* Steps of a program *)

LEMMA StepKeeps ==
  ASSUME NEW o, NEW s, NEW h, NEW hs, NEW L, Good(o, s, h, hs, L, "run"),
         NEW i \in Index, NEW r, PatchRight(r, i), NEW q, Effect(o, q, L, i, r),
         L # 0 => q[0][i].index \in {i, NoIndex},
         Grows(Top(o, L, i), r),
         r.live => \/ Top(o, L, i).live /\ Top(o, L, i).name = r.name
                   \/ \A m \in 1 .. L - 1 : \A k \in Index : Top(o, m, k).name # r.name,
         r.live => \A j \in Index : Top(o, L, j).live /\ Top(o, L, j).name = r.name => j = i,
         NEW gs \in [0 .. MaxLevel -> Heads],
         \A l \in 0 .. L : l # L => gs[l] = hs[l],
         ListsGood(View(q, L), gs[L]),
         \A j \in Index : j < gs[L].nobjects => j = i \/ j < hs[L].nobjects,
         NEW s2 \in [Name -> Pointer], NEW h2 \in [Name -> Pointer],
         L # 0 => s2 = s /\ Hashes(h2, h, Top(o, L, i), r, <<L, i>>),
         L = 0 => h2 = h /\ Hashes(s2, s, Top(o, L, i), r, <<0, i>>)
  PROVE  Good(q, s2, h2, gs, L, "run")
<1>1. /\ Typed(o, s, h, hs, L, "run")
      /\ ObjectsRight(o, L) /\ GrownRight(o, L) /\ FreshRight(o, L, FALSE)
      /\ PlanesRight(o, hs, L, "run")
      /\ \A l \in 0 .. L : PlaneRight(o, hs, L, l)
      /\ HtabRight(o, h, L) /\ StaticRight(o, s, FALSE)
  BY Running
<1>2. L \in 0 .. MaxLevel /\ o \in Objects /\ Plain(r) /\ L \in 0 .. L
  BY <1>1 DEF Typed, PatchRight
<1>3. Typed(q, s2, h2, gs, L, "run")
  BY <1>2 DEF Typed, Effect
<1>4. ObjectsRight(q, L)
  BY <1>1, <1>2, EffectOnObjects
<1>5. GrownRight(q, L)
  BY <1>1, <1>2, EffectOnGrown
<1>6. FreshRight(q, L, FALSE)
  BY <1>1, <1>2, EffectOnFresh
<1>7. PlanesRight(q, gs, L, "run")
  BY <1>1, <1>2, EffectOnPlanes
<1>8. HtabRight(q, h2, L) /\ StaticRight(q, s2, FALSE)
  <2>1. CASE L = 0
    <3>1. HtabRight(q, h2, L)
      BY <1>1, <2>1, NoHtab
    <3>2. Top(o, L, i) = o[0][i] /\ \A j \in Index : Top(o, L, j) = o[0][j]
      BY <2>1, TopOfTable
    <3>3. ObjectsRight(o, 0) /\ Effect(o, q, 0, i, r)
      BY <1>1, <2>1
    <3>4. r.live => \A j \in Index : o[0][j].live /\ o[0][j].name = r.name => j = i
      BY <3>2
    <3>5. Hashes(s2, s, o[0][i], r, <<0, i>>)
      BY <2>1, <3>2
    <3>6. StaticRight(q, s2, FALSE)
      BY <3>3, <3>4, <3>5, <1>1, <1>2, EffectOnStatic
    <3> QED BY <3>1, <3>6
  <2>2. CASE L # 0
    <3>1. Unique(View(o, L))
      BY <1>1, <1>2 DEF PlaneRight
    <3>2. HtabRight(q, h2, L)
      BY <3>1, <1>1, <1>2, <2>2, EffectOnHtab
    <3>3. L \in 1 .. MaxLevel
      BY <1>2, <2>2
    <3> QED BY <3>2, <3>3, <1>1, <1>2, <2>2, TableKept
  <2> QED BY <2>1, <2>2
<1> QED
  BY <1>3, <1>4, <1>5, <1>6, <1>7, <1>8 DEF Good, Last1

\* OBJW(): the record of the present plane, which agrees with what counted; its
\* patch, if live, leads to nothing.
LEMMA WriteIs ==
  ASSUME NEW o, NEW s, NEW h, NEW hs, NEW L, Good(o, s, h, hs, L, "run"),
         NEW i \in Index
  PROVE  LET w == Write(o, h, L, i)
             p == w.obj[L][i]
             t == Top(o, L, i)
         IN  /\ w.obj = [o EXCEPT ![L] = [@ EXCEPT ![i] = p]]
             /\ Plain(p) /\ Agree(t, p) /\ p.index = t.index
             /\ p.live => p.next = Nil
             /\ w.htab = IF L # 0 /\ t.live THEN [h EXCEPT ![t.name] = <<L, i>>] ELSE h
<1>1. /\ Typed(o, s, h, hs, L, "run")
      /\ ObjectsRight(o, L)
      /\ \A l \in 0 .. L : PlaneRight(o, hs, L, l)
      /\ HtabRight(o, h, L) /\ StaticRight(o, s, FALSE)
  BY Running
<1>2. L \in 0 .. MaxLevel /\ o \in Objects /\ L \in 0 .. L /\ h \in [Name -> Pointer]
  BY <1>1 DEF Typed
<1> DEFINE w == Write(o, h, L, i)
           t == Top(o, L, i)
           k == TopLevel(o, L, i)
           named == t.name # NoName /\ t.live
<1>3. /\ k \in 0 .. L /\ t = o[k][i] /\ Plain(t)
      /\ k > 0 => PatchRight(t, i)
  BY <1>1, <1>2, TopRight
<1>4. named <=> t.live
  BY <1>3 DEF Plain
<1>5. o[L] \in [Index -> Record \cup {NoPatch}] /\ o[L] = [o[L] EXCEPT ![i] = o[L][i]]
  BY <1>2 DEF Objects
<1>6. o = [o EXCEPT ![L] = o[L]]
  BY <1>2 DEF Objects
<1>7. k = 0 /\ t.live => t.next = Nil
  <2> SUFFICES ASSUME k = 0, t.live  PROVE t.next = Nil
    OBVIOUS
  <2>1. t = o[0][i]
    BY <1>3
  <2> HIDE DEF t
  <2> QED BY <2>1, <1>1 DEF StaticRight
<1>8. k = 0 /\ t.live /\ L # 0 => h[t.name] = Nil
  <2> SUFFICES ASSUME k = 0, t.live, L # 0, h[t.name] # Nil  PROVE FALSE
    OBVIOUS
  <2>1. t.name \in Name
    BY <1>3 DEF Plain, Record
  <2>2. PICK j \in Index : TopLevel(o, L, j) > 0 /\ Top(o, L, j).live
                           /\ Top(o, L, j).name = t.name
    BY <2>1, <1>1 DEF HtabRight
  <2>3. Unique(View(o, L))
    BY <1>1, <1>2 DEF PlaneRight
  <2>4. j = i
    BY <2>2, <2>3 DEF Unique, View
  <2> QED BY <2>2, <2>4
<1> HIDE DEF k, t
<1>9. CASE L = 0
  <2>1. w.obj = o /\ w.htab = h
    BY <1>9 DEF Write
  <2>2. k = 0 /\ w.obj[L][i] = t
    BY <2>1, <1>3, <1>9
  <2> QED BY <2>1, <2>2, <1>3, <1>5, <1>6, <1>7, <1>9, AgreeSelf DEF t
<1>10. CASE L # 0
  <2>1. w.htab = IF named THEN [h EXCEPT ![t.name] = <<L, i>>] ELSE h
    BY <1>10 DEF Write, t, k, Top
  <2>2. CASE k = L
    <3>1. w.obj = o
      BY <1>10, <2>2 DEF Write, k
    <3>2. w.obj[L][i] = t
      BY <3>1, <2>2, <1>3
    <3>3. t.live => t.next = Nil
      BY <1>3, <2>2, <1>2, <1>10 DEF PatchRight
    <3> QED BY <3>1, <3>2, <3>3, <2>1, <1>3, <1>4, <1>5, <1>6, <1>10, AgreeSelf DEF t
  <2>3. CASE k # L /\ k = 0 /\ named
    <3> DEFINE p == [t EXCEPT !.next = h[t.name]]
    <3>1. w.obj = [o EXCEPT ![L][i] = p]
      BY <1>10, <2>3, Zenon DEF Write, k, t, Top
    <3>2. w.obj = [o EXCEPT ![L] = [@ EXCEPT ![i] = p]]
      BY <3>1
    <3>3. w.obj[L][i] = p
      <4> HIDE DEF w, p
      <4>1. w.obj[L] = [o[L] EXCEPT ![i] = p]
        BY <3>2, <1>2 DEF Objects
      <4> QED BY <4>1, <1>5
    <3>4. t \in Record
      BY <1>3 DEF Plain
    <3>5. p = t
      BY <3>4, <1>7, <1>8, <2>3, <1>10 DEF Record
    <3> QED BY <3>2, <3>3, <3>5, <2>1, <2>3, <1>3, <1>4, <1>7, <1>10, AgreeSelf DEF t
  <2>4. CASE k # L /\ ~(k = 0 /\ named)
    <3>1. w.obj = [o EXCEPT ![L][i] = t]
      BY <1>10, <2>4, Zenon DEF Write, k, t, Top
    <3>2. w.obj = [o EXCEPT ![L] = [@ EXCEPT ![i] = t]]
      BY <3>1
    <3>3. w.obj[L][i] = t
      <4> HIDE DEF w
      <4>1. w.obj[L] = [o[L] EXCEPT ![i] = t]
        BY <3>2, <1>2 DEF Objects
      <4> QED BY <4>1, <1>5
    <3>4. t.live => t.next = Nil
      BY <1>3, <1>4, <2>4 DEF PatchRight
    <3> QED BY <3>2, <3>3, <3>4, <2>1, <1>3, <1>4, <1>10, AgreeSelf DEF t
  <2> QED BY <2>2, <2>3, <2>4
<1> QED
  BY <1>9, <1>10

\* A record that is put where OBJW() has one.
LEMMA WrittenEffect ==
  ASSUME NEW L \in 0 .. MaxLevel, NEW o \in Objects, NEW i \in Index,
         NEW p, NEW u, u = [o EXCEPT ![L] = [@ EXCEPT ![i] = p]],
         NEW r \in Record, NEW q, q = [u EXCEPT ![L] = [@ EXCEPT ![i] = r]]
  PROVE  Effect(o, q, L, i, r)
<1>1. o[L] \in [Index -> Record \cup {NoPatch}]
  BY DEF Objects
<1>2. u[L] = [o[L] EXCEPT ![i] = p] /\ \A m \in 0 .. MaxLevel : m # L => u[m] = o[m]
  BY DEF Objects
<1>3. q[L] = [u[L] EXCEPT ![i] = r] /\ \A m \in 0 .. MaxLevel : m # L => q[m] = o[m]
  BY <1>2 DEF Objects
<1>4. q[L] = [o[L] EXCEPT ![i] = r]
  BY <1>1, <1>2, <1>3
<1>5. q = [o EXCEPT ![L] = [o[L] EXCEPT ![i] = r]]
  BY <1>3, <1>4 DEF Objects
<1>6. q \in Objects
  <2>1. [o[L] EXCEPT ![i] = r] \in [Index -> Record \cup {NoPatch}]
    BY <1>1
  <2> QED BY <2>1, <1>5 DEF Objects
<1>7. q[L][i] = r /\ \A j \in Index : j # i => q[L][j] = o[L][j]
  BY <1>1, <1>4
<1>8. L # 0 => q[0][i] = o[0][i]
  <2>1. 0 \in 0 .. MaxLevel
    OBVIOUS
  <2> QED BY <1>3, <2>1
<1> QED
  BY <1>3, <1>6, <1>7, <1>8 DEF Effect

\* What StepKeeps needs of the views.
LEMMA EffectOnView ==
  ASSUME NEW L \in 0 .. MaxLevel, NEW o \in Objects, ObjectsRight(o, L),
         NEW i \in Index, NEW r, Plain(r), NEW q, Effect(o, q, L, i, r)
  PROVE  /\ View(q, L)[i] = r
         /\ \A j \in Index : j # i => Agree(View(o, L)[j], View(q, L)[j])
BY EffectOnTops DEF View

\* What the planes show has changed at most for i, on the plane L.
Only(o, q, L, i) ==
  \A l \in 0 .. L : \A j \in Index :
    l # L \/ j # i => Agree(Top(o, l, j), Top(q, l, j))

LEMMA EffectOnOne ==
  ASSUME NEW L \in 0 .. MaxLevel, NEW o \in Objects, ObjectsRight(o, L),
         NEW i \in Index, NEW r, PatchRight(r, i), NEW q, Effect(o, q, L, i, r)
  PROVE  Only(o, q, L, i) /\ Top(q, L, i) = r
<1>1. /\ \A l \in 0 .. L : \A j \in Index : j # i \/ l < L =>
           TopLevel(q, l, j) = TopLevel(o, l, j) /\ Agree(Top(o, l, j), Top(q, l, j))
      /\ TopLevel(q, L, i) = L /\ Top(q, L, i) = r
  <2>1. Plain(r)
    BY DEF PatchRight
  <2> QED BY <2>1, EffectOnTops
<1>2. \A l \in 0 .. L : l # L => l < L
  OBVIOUS
<1> QED
  BY <1>1, <1>2 DEF Only

LEMMA DestructKeeps ==
  ASSUME IInv, NEW i \in Index, NEW kept \in BOOLEAN, Destruct(i, kept)
  PROVE  IInv' /\ Only(obj, obj', level, i) /\ ~Top(obj', level, i).live
<1> DEFINE L == level
           w == Write(obj, htab, L, i)
           p == w.obj[L][i]
           t == Top(obj, L, i)
           r == [p EXCEPT !.live = FALSE, !.kept = kept,
                          !.cref = IF kept THEN @ ELSE list[L].destruct,
                          !.next = list[L].clean]
<1>1. /\ Good(obj, static, htab, list, L, "run") /\ mode' = "run" /\ level' = L
      /\ t.live
  BY DEF IInv, Destruct
<1>2. /\ Typed(obj, static, htab, list, L, "run")
      /\ ObjectsRight(obj, L) /\ \A l \in 0 .. L : PlaneRight(obj, list, L, l)
  BY <1>1, Running
<1>3. /\ obj \in Objects /\ L \in 0 .. MaxLevel /\ L \in 0 .. L /\ list[L] \in Heads
      /\ htab \in [Name -> Pointer] /\ static \in [Name -> Pointer]
      /\ list \in [0 .. MaxLevel -> Heads]
  BY <1>2 DEF Typed
<1>4. /\ w.obj = [obj EXCEPT ![L] = [@ EXCEPT ![i] = p]]
      /\ Plain(p) /\ Agree(t, p) /\ p.index = t.index
      /\ p.live => p.next = Nil
      /\ w.htab = IF L # 0 /\ t.live THEN [htab EXCEPT ![t.name] = <<L, i>>] ELSE htab
  BY <1>1, WriteIs
<1>5. /\ Plain(t) /\ t.name \in Name /\ t.name # NoName /\ t.index = i
      /\ obj[0][i].index \in {i, NoIndex}
  BY <1>1, <1>2, <1>3, TopRight DEF Plain, Record
<1>6. ListsGood(View(obj, L), list[L]) /\ list[L].clean \in Down
  BY <1>2, <1>3 DEF PlaneRight, ListsGood
<1>7. p \in Record /\ p.name = t.name /\ p.live /\ p.next = Nil
  BY <1>1, <1>4 DEF Plain, Agree
<1>8. /\ obj' = [w.obj EXCEPT ![L] = [@ EXCEPT ![i] = r]]
      /\ list' = [list EXCEPT ![L].clean = <<0, i>>,
                              ![L].destruct = IF kept THEN @ ELSE i]
  <2>1. obj' = [w.obj EXCEPT ![L][i] = r]
    BY DEF Destruct
  <2>2. list' = [list EXCEPT ![L].clean = <<0, i>>,
                             ![L].destruct = IF kept THEN @ ELSE i]
    BY DEF Destruct
  <2> HIDE DEF w, r, L
  <2> QED BY <2>1, <2>2
<1>9. /\ L = 0 => static' = [static EXCEPT ![p.name] = p.next] /\ htab' = w.htab
      /\ L # 0 => htab' = [w.htab EXCEPT ![p.name] = p.next] /\ static' = static
  BY DEF Destruct
<1> HIDE DEF w, p, t, L
<1>10. /\ r \in Record /\ r.name = t.name /\ ~r.live /\ r.kept = kept /\ r.index = i
       /\ r.next = list[L].clean
       /\ ~kept => r.cref = list[L].destruct
  <2>1. list[L].clean \in Pointer /\ list[L].destruct \in Link
    BY <1>3 DEF Heads
  <2> QED BY <2>1, <1>4, <1>5, <1>7 DEF Record
<1>11. PatchRight(r, i)
  BY <1>5, <1>6, <1>10 DEF PatchRight, Plain
<1> HIDE DEF r
<1>12. Effect(obj, obj', L, i, r)
  BY <1>3, <1>4, <1>8, <1>10, WrittenEffect
<1>13. L # 0 => obj'[0][i].index \in {i, NoIndex}
  <2> SUFFICES ASSUME L # 0  PROVE obj'[0][i].index \in {i, NoIndex}
    OBVIOUS
  <2>1. obj[0][i] \in Record
    BY <1>2 DEF ObjectsRight, ObjectRight, Plain
  <2>2. \/ obj'[0][i] = obj[0][i]
        \/ obj'[0][i] = [obj[0][i] EXCEPT !.index = NoIndex]
    BY <1>12 DEF Effect
  <2> QED BY <2>1, <2>2, <1>5 DEF Record
<1>14. Grows(Top(obj, L, i), r)
  BY <1>10 DEF Grows, t
<1>15. list' \in [0 .. MaxLevel -> Heads] /\ \A l \in 0 .. L : l # L => list'[l] = list[l]
  <2>1. <<0, i>> \in Pointer /\ i \in Link
    BY <1>3 DEF Pointer, Link
  <2>2. /\ list'[L] = [list[L] EXCEPT !.clean = <<0, i>>,
                                      !.destruct = IF kept THEN @ ELSE i]
        /\ list' = [list EXCEPT ![L] = list'[L]]
    BY <1>3, <1>8 DEF Heads
  <2>3. list'[L] \in Heads
    BY <2>1, <2>2, <1>3 DEF Heads
  <2>4. list' \in [0 .. MaxLevel -> Heads]
    BY <2>2, <2>3, <1>3
  <2>5. \A l \in 0 .. L : l # L => list'[l] = list[l]
    BY <1>3, <1>8
  <2> QED BY <2>4, <2>5
<1>16. ListsGood(View(obj', L), list'[L]) /\ list'[L].nobjects = list[L].nobjects
  <2>1. list'[L] = [list[L] EXCEPT !.clean = <<0, i>>,
                                   !.destruct = IF kept THEN @ ELSE i]
    BY <1>3, <1>8 DEF Heads
  <2>2. /\ View(obj', L)[i] = r
        /\ \A j \in Index : j # i => Agree(View(obj, L)[j], View(obj', L)[j])
    BY <1>2, <1>3, <1>11, <1>12, EffectOnView DEF PatchRight
  <2>3. View(obj, L)[i] = t
    BY DEF View, t
  <2>4. ListsGood(View(obj', L), list'[L])
    <3> DEFINE R == View(obj, L)
               Q == View(obj', L)
               h == list[L]
               g == list'[L]
    <3>1. h \in Heads /\ ListsGood(R, h)
      BY <1>3, <1>6
    <3>2. R[i].live /\ R[i].name # NoName
      BY <2>3, <1>1, <1>5
    <3>3. /\ Q[i].name # NoName /\ ~Q[i].live /\ Q[i].kept = kept
          /\ ~kept => Q[i].cref = h.destruct
          /\ Q[i].next = h.clean
      BY <2>2, <1>5, <1>10
    <3>4. \A j \in Index : j # i => Agree(R[j], Q[j])
      BY <2>2
    <3>5. g = [h EXCEPT !.clean = <<0, i>>, !.destruct = IF kept THEN @ ELSE i]
      BY <2>1
    <3> HIDE DEF R, Q, h, g
    <3>6. ListsGood(Q, g)
      BY <3>1, <3>2, <3>3, <3>4, <3>5, DestructLists
    <3> QED BY <3>6 DEF Q, g
  <2> QED BY <2>1, <2>4, <1>3 DEF Heads
<1>17. static' \in [Name -> Pointer] /\ htab' \in [Name -> Pointer]
  <2>1. <<L, i>> \in Pointer /\ Nil \in Pointer
    BY <1>3 DEF Pointer
  <2>2. w.htab \in [Name -> Pointer]
    BY <2>1, <1>3, <1>4, <1>5
  <2> QED BY <2>1, <2>2, <1>3, <1>5, <1>7, <1>9
<1>18. L # 0 => static' = static /\ Hashes(htab', htab, Top(obj, L, i), r, <<L, i>>)
  <2> SUFFICES ASSUME L # 0  PROVE Hashes(htab', htab, t, r, <<L, i>>)
    BY <1>9 DEF t
  <2>1. htab' = [[htab EXCEPT ![t.name] = <<L, i>>] EXCEPT ![t.name] = Nil]
    BY <1>1, <1>4, <1>7, <1>9
  <2> QED BY <2>1, <1>1, <1>3, <1>10 DEF Hashes
<1>19. L = 0 => htab' = htab /\ Hashes(static', static, Top(obj, L, i), r, <<0, i>>)
  <2> SUFFICES ASSUME L = 0  PROVE htab' = htab /\ Hashes(static', static, t, r, <<0, i>>)
    BY DEF t
  <2> QED BY <1>1, <1>3, <1>4, <1>7, <1>9, <1>10 DEF Hashes
<1>20. Good(obj', static', htab', list', L, "run")
  BY <1>1, <1>10, <1>11, <1>12, <1>13, <1>14, <1>15, <1>16, <1>17, <1>18, <1>19, StepKeeps
<1>21. Only(obj, obj', L, i) /\ Top(obj', L, i) = r
  BY <1>2, <1>3, <1>11, <1>12, EffectOnOne
<1> QED
  BY <1>1, <1>10, <1>20, <1>21 DEF IInv, L

LEMMA ReleaseKeeps ==
  ASSUME IInv, NEW i \in Index, Release(i)
  PROVE  IInv' /\ Only(obj, obj', level, i) /\ ~Top(obj, level, i).live /\ ~Top(obj', level, i).live
<1> DEFINE L == level
           w == Write(obj, htab, L, i)
           p == w.obj[L][i]
           t == Top(obj, L, i)
           r == [p EXCEPT !.kept = FALSE, !.cref = list[L].destruct]
<1>1. /\ Good(obj, static, htab, list, L, "run") /\ mode' = "run" /\ level' = L
      /\ t.kept
  BY DEF IInv, Release
<1>2. /\ Typed(obj, static, htab, list, L, "run")
      /\ ObjectsRight(obj, L) /\ \A l \in 0 .. L : PlaneRight(obj, list, L, l)
  BY <1>1, Running
<1>3. /\ obj \in Objects /\ L \in 0 .. MaxLevel /\ L \in 0 .. L /\ list[L] \in Heads
      /\ htab \in [Name -> Pointer] /\ static \in [Name -> Pointer]
      /\ list \in [0 .. MaxLevel -> Heads]
  BY <1>2 DEF Typed
<1>4. /\ w.obj = [obj EXCEPT ![L] = [@ EXCEPT ![i] = p]]
      /\ Plain(p) /\ Agree(t, p) /\ p.index = t.index
      /\ p.live => p.next = Nil
      /\ w.htab = IF L # 0 /\ t.live THEN [htab EXCEPT ![t.name] = <<L, i>>] ELSE htab
  BY <1>1, WriteIs
<1>5. /\ Plain(t) /\ ~t.live /\ t.name # NoName /\ t.index = i
      /\ obj[0][i].index \in {i, NoIndex}
  BY <1>1, <1>2, <1>3, TopRight DEF Plain
<1>6. ListsGood(View(obj, L), list[L])
  BY <1>2, <1>3 DEF PlaneRight
<1>7. p \in Record /\ p.name = t.name /\ ~p.live /\ p.next = t.next /\ p.next \in Down
  BY <1>4, <1>5 DEF Plain, Agree
<1>8. /\ obj' = [w.obj EXCEPT ![L] = [@ EXCEPT ![i] = r]]
      /\ list' = [list EXCEPT ![L].destruct = i]
      /\ static' = static /\ htab' = htab
  <2>1. obj' = [w.obj EXCEPT ![L][i].kept = FALSE, ![L][i].cref = list[L].destruct]
    BY DEF Release
  <2>2. /\ list' = [list EXCEPT ![L].destruct = i]
        /\ static' = static /\ htab' = w.htab
    BY DEF Release
  <2>3. w.obj \in Objects
    <3>1. [obj[L] EXCEPT ![i] = p] \in [Index -> Record \cup {NoPatch}]
      BY <1>3, <1>7 DEF Objects
    <3> HIDE DEF w, p
    <3> QED BY <3>1, <1>3, <1>4 DEF Objects
  <2> HIDE DEF w, L, t
  <2>4. [w.obj EXCEPT ![L][i].kept = FALSE, ![L][i].cref = list[L].destruct]
          = [w.obj EXCEPT ![L] = [@ EXCEPT ![i] = r]]
    BY <2>3, <1>3, <1>7 DEF Objects, Record
  <2> QED BY <2>1, <2>2, <2>4, <1>4, <1>5
<1> HIDE DEF w, p, t, L
<1>9. /\ r \in Record /\ r.name = t.name /\ ~r.live /\ ~r.kept /\ r.index = i
       /\ r.next = t.next /\ r.next \in Down /\ r.cref = list[L].destruct
  <2>1. list[L].destruct \in Link
    BY <1>3 DEF Heads
  <2> QED BY <2>1, <1>4, <1>5, <1>7 DEF Record
<1>10. PatchRight(r, i)
  BY <1>5, <1>9 DEF PatchRight, Plain
<1> HIDE DEF r
<1>11. Effect(obj, obj', L, i, r)
  BY <1>3, <1>4, <1>8, <1>9, WrittenEffect
<1>12. L # 0 => obj'[0][i].index \in {i, NoIndex}
  <2> SUFFICES ASSUME L # 0  PROVE obj'[0][i].index \in {i, NoIndex}
    OBVIOUS
  <2>1. obj[0][i] \in Record
    BY <1>2 DEF ObjectsRight, ObjectRight, Plain
  <2>2. \/ obj'[0][i] = obj[0][i]
        \/ obj'[0][i] = [obj[0][i] EXCEPT !.index = NoIndex]
    BY <1>11 DEF Effect
  <2> QED BY <2>1, <2>2, <1>5 DEF Record
<1>13. Grows(Top(obj, L, i), r)
  BY <1>9 DEF Grows, t
<1>14. list' \in [0 .. MaxLevel -> Heads] /\ \A l \in 0 .. L : l # L => list'[l] = list[l]
  <2>1. i \in Link
    BY DEF Link
  <2>2. list'[L] = [list[L] EXCEPT !.destruct = i] /\ list' = [list EXCEPT ![L] = list'[L]]
    BY <1>3, <1>8
  <2>3. list'[L] \in Heads
    BY <2>1, <2>2, <1>3 DEF Heads
  <2>4. list' \in [0 .. MaxLevel -> Heads]
    BY <2>2, <2>3, <1>3
  <2>5. \A l \in 0 .. L : l # L => list'[l] = list[l]
    BY <1>3, <1>8
  <2> QED BY <2>4, <2>5
<1>15. ListsGood(View(obj', L), list'[L]) /\ list'[L].nobjects = list[L].nobjects
  <2>1. list'[L] = [list[L] EXCEPT !.destruct = i]
    BY <1>3, <1>8
  <2>2. /\ View(obj', L)[i] = r
        /\ \A j \in Index : j # i => Agree(View(obj, L)[j], View(obj', L)[j])
    BY <1>2, <1>3, <1>10, <1>11, EffectOnView DEF PatchRight
  <2>3. View(obj, L)[i] = t
    BY DEF View, t
  <2>4. ListsGood(View(obj', L), list'[L])
    <3> DEFINE R == View(obj, L)
               Q == View(obj', L)
               h == list[L]
               g == list'[L]
    <3>1. h \in Heads /\ ListsGood(R, h)
      BY <1>3, <1>6
    <3>2. R[i].kept /\ ~R[i].live /\ R[i].name # NoName
      BY <2>3, <1>1, <1>5
    <3>3. /\ Q[i].name # NoName /\ ~Q[i].live /\ ~Q[i].kept
          /\ Q[i].cref = h.destruct
          /\ Q[i].next = R[i].next
      BY <2>2, <2>3, <1>5, <1>9
    <3>4. \A j \in Index : j # i => Agree(R[j], Q[j])
      BY <2>2
    <3>5. g = [h EXCEPT !.destruct = i]
      BY <2>1
    <3> HIDE DEF R, Q, h, g
    <3>6. ListsGood(Q, g)
      BY <3>1, <3>2, <3>3, <3>4, <3>5, ReleaseLists
    <3> QED BY <3>6 DEF Q, g
  <2> QED BY <2>1, <2>4, <1>3 DEF Heads
<1>16. static' \in [Name -> Pointer] /\ htab' \in [Name -> Pointer]
  BY <1>3, <1>8
<1>17. /\ Hashes(htab', htab, Top(obj, L, i), r, <<L, i>>)
       /\ Hashes(static', static, Top(obj, L, i), r, <<0, i>>)
  BY <1>5, <1>8, <1>9 DEF Hashes, t
<1>18. Good(obj', static', htab', list', L, "run")
  BY ZenonT(120), <1>1, <1>8, <1>9, <1>10, <1>11, <1>12, <1>13, <1>14, <1>15, <1>16, <1>17, StepKeeps
<1>19. Only(obj, obj', L, i) /\ Top(obj', L, i) = r
  BY <1>2, <1>3, <1>10, <1>11, EffectOnOne
<1> QED
  BY <1>1, <1>5, <1>9, <1>18, <1>19 DEF IInv, L, t, Plain

LEMMA TouchKeeps ==
  ASSUME IInv, NEW i \in Index, Touch(i)
  PROVE  /\ IInv' /\ Only(obj, obj', level, i)
         /\ Agree(Top(obj, level, i), Top(obj', level, i))
<1> DEFINE L == level
           w == Write(obj, htab, L, i)
           r == w.obj[L][i]
           t == Top(obj, L, i)
<1>1. /\ Good(obj, static, htab, list, L, "run") /\ mode' = "run" /\ level' = L
      /\ t.live \/ t.kept
      /\ obj' = w.obj /\ htab' = w.htab /\ static' = static /\ list' = list
  BY DEF IInv, Touch
<1>2. /\ Typed(obj, static, htab, list, L, "run")
      /\ ObjectsRight(obj, L) /\ \A l \in 0 .. L : PlaneRight(obj, list, L, l)
      /\ HtabRight(obj, htab, L) /\ StaticRight(obj, static, FALSE)
  BY <1>1, Running
<1>3. /\ obj \in Objects /\ L \in 0 .. MaxLevel /\ L \in 0 .. L /\ list[L] \in Heads
      /\ htab \in [Name -> Pointer] /\ static \in [Name -> Pointer]
      /\ list \in [0 .. MaxLevel -> Heads]
  BY <1>2 DEF Typed
<1>4. /\ w.obj = [obj EXCEPT ![L] = [@ EXCEPT ![i] = r]]
      /\ Plain(r) /\ Agree(t, r) /\ r.index = t.index
      /\ r.live => r.next = Nil
      /\ w.htab = IF L # 0 /\ t.live THEN [htab EXCEPT ![t.name] = <<L, i>>] ELSE htab
  BY <1>1, WriteIs
<1>5. /\ Plain(t) /\ t.name \in Name /\ t.name # NoName /\ t.index = i
      /\ obj[0][i].index \in {i, NoIndex}
  BY <1>1, <1>2, <1>3, TopRight DEF Plain, Record
<1>6. PlaneRight(obj, list, L, L)
  BY <1>2, <1>3
<1> HIDE DEF w, t, L, r
<1>7. r \in Record /\ PatchRight(r, i) /\ r.name = t.name /\ (r.live <=> t.live)
  BY <1>4, <1>5 DEF PatchRight, Plain, Agree
<1>8. Effect(obj, obj', L, i, r)
  <2>1. obj' = [w.obj EXCEPT ![L] = [@ EXCEPT ![i] = r]]
    <3>1. w.obj[L] = [obj[L] EXCEPT ![i] = r]
      BY <1>3, <1>4 DEF Objects
    <3>2. [w.obj[L] EXCEPT ![i] = r] = w.obj[L]
      BY <3>1, <1>3 DEF Objects
    <3>3. [w.obj EXCEPT ![L] = [w.obj[L] EXCEPT ![i] = r]] = w.obj
      BY <3>2, <1>3, <1>4 DEF Objects
    <3> QED BY <3>3, <1>1
  <2> QED BY <2>1, <1>3, <1>4, <1>7, WrittenEffect
<1>9. L # 0 => obj'[0][i].index \in {i, NoIndex}
  <2> SUFFICES ASSUME L # 0  PROVE obj'[0][i].index \in {i, NoIndex}
    OBVIOUS
  <2>1. obj[0][i] \in Record
    BY <1>2 DEF ObjectsRight, ObjectRight, Plain
  <2>2. \/ obj'[0][i] = obj[0][i]
        \/ obj'[0][i] = [obj[0][i] EXCEPT !.index = NoIndex]
    BY <1>8 DEF Effect
  <2> QED BY <2>1, <2>2, <1>5 DEF Record
<1>10. Grows(Top(obj, L, i), r)
  BY <1>7 DEF Grows, t
<1>11. ListsGood(View(obj', L), list'[L])
  <2>1. ListsGood(View(obj, L), list[L])
    BY <1>6 DEF PlaneRight
  <2>2. /\ View(obj', L)[i] = r
        /\ \A j \in Index : j # i => Agree(View(obj, L)[j], View(obj', L)[j])
    BY <1>2, <1>3, <1>7, <1>8, EffectOnView DEF PatchRight
  <2>3. View(obj, L)[i] = t
    BY DEF View, t
  <2>4. \A j \in Index : Agree(View(obj, L)[j], View(obj', L)[j])
    BY <2>2, <2>3, <1>4
  <2> QED BY <2>1, <2>4, <1>1, AgreeingLists
<1>12. static' \in [Name -> Pointer] /\ htab' \in [Name -> Pointer]
  <2>1. <<L, i>> \in Pointer
    BY <1>3 DEF Pointer
  <2> QED BY <2>1, <1>1, <1>3, <1>4, <1>5
<1>13. L # 0 => Hashes(htab', htab, Top(obj, L, i), r, <<L, i>>)
  BY <1>1, <1>3, <1>4, <1>5, <1>7 DEF Hashes, t
<1>14. L = 0 => htab' = htab /\ Hashes(static', static, Top(obj, L, i), r, <<0, i>>)
  <2> SUFFICES ASSUME L = 0  PROVE htab' = htab /\ Hashes(static', static, t, r, <<0, i>>)
    BY DEF t
  <2>1. t = obj[0][i]
    BY TopOfTable DEF t
  <2>2. t.live => static[t.name] = <<0, i>>
    BY <2>1, <1>2 DEF StaticRight
  <2> QED BY <2>2, <1>1, <1>4, <1>7 DEF Hashes
<1>15. r.live => /\ Top(obj, L, i).live /\ Top(obj, L, i).name = r.name
                 /\ \A j \in Index : Top(obj, L, j).live /\ Top(obj, L, j).name = r.name => j = i
  BY <1>6, <1>7 DEF t, PlaneRight, Unique, View
<1>16. Good(obj', static', htab', list', L, "run")
  BY ZenonT(120), <1>1, <1>3, <1>7, <1>8, <1>9, <1>10, <1>11, <1>12, <1>13, <1>14, <1>15, StepKeeps
<1>17. Only(obj, obj', L, i) /\ Top(obj', L, i) = r
  BY <1>2, <1>3, <1>7, <1>8, EffectOnOne
<1> QED
  BY <1>1, <1>4, <1>16, <1>17 DEF IInv, L, t

\* OBJR() finds the name of a patch that counts leading to it already.
LEMMA LookIsIdle ==
  ASSUME IInv, NEW i \in Index, Look(i)
  PROVE  UNCHANGED vars
<1>1. Good(obj, static, htab, list, level, "run")
  BY DEF IInv, Look
<1>2. HtabRight(obj, htab, level) /\ ObjectsRight(obj, level)
      /\ level \in 0 .. MaxLevel /\ htab \in [Name -> Pointer]
  BY <1>1, Running DEF Typed
<1> DEFINE k == TopLevel(obj, level, i)
           r == obj[k][i]
<1>3. r = Top(obj, level, i) /\ Plain(r)
  BY <1>2, TopRight
<1>4. k > 0 /\ r.live => r.name \in Name /\ htab[r.name] = <<k, i>>
  BY <1>2, <1>3 DEF HtabRight, Plain, Record
<1>5. [htab EXCEPT ![r.name] = htab[r.name]] = htab
  BY <1>2
<1>6. Read(obj, htab, level, i).htab =
        IF k > 0 /\ r.name # NoName /\ r.live THEN [htab EXCEPT ![r.name] = <<k, i>>] ELSE htab
  BY DEF Read
<1> HIDE DEF k, r
<1>7. Read(obj, htab, level, i).htab = htab
  BY <1>4, <1>5, <1>6
<1> QED
  BY <1>7 DEF Look, vars

\* find() finds the live objects by their names, and nothing else.
LEMMA Found ==
  ASSUME Good(obj, static, htab, list, level, "run")
  PROVE  /\ \A j \in Index : Top(obj, level, j).live => Find(Top(obj, level, j).name) = j
         /\ \A n \in Name : Find(n) # NoIndex =>
              /\ Find(n) \in Index
              /\ Top(obj, level, Find(n)).live /\ Top(obj, level, Find(n)).name = n
         /\ \A n \in Name : Find(n) = NoIndex =>
              htab[n] = Nil /\ (level = 0 => static[n] = Nil)
<1>1. /\ Typed(obj, static, htab, list, level, "run")
      /\ ObjectsRight(obj, level) /\ GrownRight(obj, level)
      /\ \A l \in 0 .. level : PlaneRight(obj, list, level, l)
      /\ HtabRight(obj, htab, level) /\ StaticRight(obj, static, FALSE)
  BY Running
<1>2. /\ level \in 0 .. MaxLevel /\ level \in 0 .. level /\ level \in Nat
      /\ htab \in [Name -> Pointer] /\ static \in [Name -> Pointer]
  BY <1>1 DEF Typed
<1>3. Unique(View(obj, level))
  BY <1>1, <1>2 DEF PlaneRight
<1>4. \A j \in Index : j # NoIndex
  BY DEF Index, NoIndex
<1>5. ASSUME NEW n \in Name, htab[n] # Nil
      PROVE  /\ level > 0 /\ Find(n) \in Index
             /\ Top(obj, level, Find(n)).live /\ Top(obj, level, Find(n)).name = n
  <2>1. PICK j \in Index :
         /\ TopLevel(obj, level, j) > 0
         /\ htab[n] = <<TopLevel(obj, level, j), j>>
         /\ Top(obj, level, j).live /\ Top(obj, level, j).name = n
    BY <1>1, <1>5 DEF HtabRight
  <2>2. level > 0
    BY <1>1, <1>2, <2>1, TopRight
  <2>3. Find(n) = htab[n][2]
    BY <2>2, <1>5 DEF Find
  <2>4. Find(n) = j
    BY <2>1, <2>3
  <2> QED BY <2>1, <2>2, <2>4
<1>6. ASSUME NEW n \in Name, htab[n] = Nil, static[n] # Nil
      PROVE  \E j \in Index :
               /\ static[n] = <<0, j>> /\ obj[0][j].live /\ obj[0][j].name = n
               /\ Find(n) = IF Top(obj, level, j).live THEN j ELSE NoIndex
  <2>1. PICK j \in Index : static[n] = <<0, j>> /\ obj[0][j].live /\ obj[0][j].name = n
    BY <1>1, <1>6 DEF StaticRight
  <2>2. Find(n) = IF Top(obj, level, static[n][2]).live THEN static[n][2] ELSE NoIndex
    BY <1>6 DEF Find
  <2> QED BY <2>1, <2>2
<1>7. ASSUME NEW n \in Name, htab[n] = Nil, static[n] = Nil  PROVE Find(n) = NoIndex
  BY <1>7 DEF Find
<1>8. ASSUME NEW j \in Index, obj[0][j].live
      PROVE  Top(obj, level, j).name = obj[0][j].name
  <2>1. Grows(Top(obj, 0, j), Top(obj, level, j))
    BY <1>1, <1>2 DEF GrownRight
  <2> QED BY <2>1, <1>1, <1>8, TopOfTable DEF Grows, ObjectsRight, ObjectRight, Plain
<1>9. ASSUME NEW n \in Name, Find(n) # NoIndex
      PROVE  /\ Find(n) \in Index
             /\ Top(obj, level, Find(n)).live /\ Top(obj, level, Find(n)).name = n
  <2>1. CASE htab[n] # Nil
    BY <1>5, <2>1
  <2>2. CASE htab[n] = Nil /\ static[n] # Nil
    BY <1>6, <1>8, <1>9, <2>2
  <2>3. CASE htab[n] = Nil /\ static[n] = Nil
    BY <1>7, <1>9, <2>3
  <2> QED BY <2>1, <2>2, <2>3
<1>10. ASSUME NEW n \in Name, Find(n) = NoIndex
       PROVE  htab[n] = Nil /\ (level = 0 => static[n] = Nil)
  <2>1. htab[n] = Nil
    BY <1>4, <1>5, <1>10
  <2>2. level = 0 => static[n] = Nil
    <3> SUFFICES ASSUME level = 0, static[n] # Nil  PROVE FALSE
      OBVIOUS
    <3>1. PICK j \in Index :
               /\ static[n] = <<0, j>> /\ obj[0][j].live /\ obj[0][j].name = n
               /\ Find(n) = IF Top(obj, level, j).live THEN j ELSE NoIndex
      BY <1>6, <2>1
    <3>2. Top(obj, level, j) = obj[0][j]
      BY TopOfTable
    <3> QED BY <3>1, <3>2, <1>4, <1>10
  <2> QED BY <2>1, <2>2
<1>11. ASSUME NEW j \in Index, Top(obj, level, j).live
       PROVE  Find(Top(obj, level, j).name) = j
  <2> DEFINE n == Top(obj, level, j).name
  <2>1. n \in Name
    BY <1>1, <1>2, <1>11, TopRight DEF Plain, Record
  <2>2. Find(n) # NoIndex
    <3> SUFFICES ASSUME Find(n) = NoIndex  PROVE FALSE
      OBVIOUS
    <3>1. htab[n] = Nil
      BY <1>10, <2>1
    <3>2. TopLevel(obj, level, j) = 0
      <4>1. TopLevel(obj, level, j) \in 0 .. level
        BY <1>1, <1>2, TopRight
      <4>2. ~ (TopLevel(obj, level, j) > 0)
        BY <3>1, <1>1, <1>11 DEF HtabRight, Nil
      <4> QED BY <4>1, <4>2
    <3>3. Top(obj, level, j) = obj[0][j]
      BY <3>2 DEF Top
    <3>4. static[n] = <<0, j>>
      BY <3>3, <1>1, <1>11 DEF StaticRight
    <3>5. PICK e \in Index : static[n] = <<0, e>> /\
             Find(n) = IF Top(obj, level, e).live THEN e ELSE NoIndex
      <4>1. static[n] # Nil
        BY <3>4 DEF Nil
      <4> HIDE DEF n
      <4> QED BY <4>1, <3>1, <2>1, <1>6
    <3>6. e = j
      BY <3>4, <3>5
    <3> QED BY <3>5, <3>6, <1>4, <1>11
  <2>3. Top(obj, level, Find(n)).live /\ Top(obj, level, Find(n)).name = n /\ Find(n) \in Index
    BY <2>1, <2>2, <1>9
  <2> QED BY <2>3, <1>3, <1>11 DEF Unique, View
<1> QED
  BY <1>9, <1>10, <1>11

LEMMA CreateKeeps ==
  ASSUME RecompileLevel <= 1, IInv, NEW name \in Name, Create(name)
  PROVE  /\ IInv' /\ NextFree \in Index /\ Only(obj, obj', level, NextFree)
         /\ \A j \in Index : Top(obj, level, j).live => Top(obj, level, j).name # name
         /\ ~Top(obj, level, NextFree).live
         /\ Top(obj', level, NextFree).live /\ Top(obj', level, NextFree).name = name
<1> DEFINE L == level
           i == NextFree
           w == Write(obj, htab, L, i)
           p == w.obj[L][i]
           t == Top(obj, L, i)
           r == [p EXCEPT !.index = i, !.name = name, !.live = TRUE, !.kept = FALSE,
                          !.prev = NoIndex,
                          !.next = IF L = 0 THEN static[name] ELSE w.htab[name]]
<1>1. /\ Good(obj, static, htab, list, L, "run") /\ mode' = "run" /\ level' = L
      /\ Find(name) = NoIndex
      /\ L <= RecompileLevel \/ \A k \in Index : Top(obj, L, k).name # name
      /\ list[L].free # NoIndex \/ list[L].nobjects # MaxObjects
  BY DEF IInv, Create, Space
<1>2. /\ Typed(obj, static, htab, list, L, "run")
      /\ ObjectsRight(obj, L) /\ GrownRight(obj, L)
      /\ \A l \in 0 .. L : PlaneRight(obj, list, L, l)
  BY <1>1, Running
<1>3. /\ obj \in Objects /\ L \in 0 .. MaxLevel /\ L \in 0 .. L /\ list[L] \in Heads
      /\ htab \in [Name -> Pointer] /\ static \in [Name -> Pointer]
      /\ list \in [0 .. MaxLevel -> Heads]
  BY <1>2 DEF Typed
<1>4. ListsGood(View(obj, L), list[L])
  BY <1>2, <1>3 DEF PlaneRight
<1>5. i = IF list[L].free # NoIndex THEN list[L].free ELSE list[L].nobjects
  BY DEF NextFree
<1>6. i \in Index /\ t.name = NoName
  <2>1. i \in Index
    <3>1. list[L].free # NoIndex => list[L].free \in FreeOf(View(obj, L), list[L].nobjects)
      BY <1>4, ListOfIndices DEF ListsGood
    <3>2. list[L].nobjects \in 0 .. MaxObjects
      BY <1>4 DEF ListsGood
    <3> QED BY <1>1, <1>5, <3>1, <3>2 DEF FreeOf, Index
  <2>2. View(obj, L)[i].name = NoName
    <3>1. list[L].free # NoIndex => list[L].free \in FreeOf(View(obj, L), list[L].nobjects)
      BY <1>4, ListOfIndices DEF ListsGood
    <3>2. list[L].free = NoIndex => i >= list[L].nobjects
      BY <1>4, <1>5 DEF ListsGood
    <3> QED BY <1>4, <1>5, <2>1, <3>1, <3>2 DEF FreeOf, ListsGood
  <2> QED BY <2>1, <2>2 DEF View
<1>7. /\ w.obj = [obj EXCEPT ![L] = [@ EXCEPT ![i] = p]]
      /\ Plain(p) /\ Agree(t, p) /\ p.index = t.index
      /\ p.live => p.next = Nil
      /\ w.htab = IF L # 0 /\ t.live THEN [htab EXCEPT ![t.name] = <<L, i>>] ELSE htab
  BY <1>1, <1>6, WriteIs
<1>8. Plain(t) /\ ~t.live /\ w.htab = htab
  BY <1>2, <1>3, <1>6, <1>7, TopRight DEF Plain
<1>9. /\ htab[name] = Nil
      /\ L = 0 => static[name] = Nil
      /\ \A j \in Index : Top(obj, L, j).live => Top(obj, L, j).name # name
  <2>1. name \in Name /\ \A j \in Index : j # NoIndex
    BY DEF Index, NoIndex
  <2>2. /\ \A j \in Index : Top(obj, level, j).live => Find(Top(obj, level, j).name) = j
        /\ htab[name] = Nil
        /\ level = 0 => static[name] = Nil
    BY <1>1, <2>1, Found
  <2> QED BY <1>1, <2>1, <2>2
<1>10. /\ list' = [list EXCEPT ![L] = Taken(p)]
       /\ obj' = IF L = 0 THEN [w.obj EXCEPT ![0][i] = r]
                  ELSE [w.obj EXCEPT ![0][i].index = NoIndex, ![L][i] = r]
       /\ IF L = 0
            THEN static' = [static EXCEPT ![name] = <<0, i>>] /\ htab' = w.htab
            ELSE htab' = [w.htab EXCEPT ![name] = <<L, i>>] /\ UNCHANGED static
  BY DEF Create
<1>11. Taken(p) = IF list[L].free # NoIndex THEN [list[L] EXCEPT !.free = p.prev]
                  ELSE [list[L] EXCEPT !.nobjects = @ + 1]
  BY DEF Taken
<1> HIDE DEF w, p, t, L, i
<1>12. /\ r \in Record /\ r.name = name /\ r.live /\ ~r.kept /\ r.index = i /\ r.next = Nil
  <2>1. p \in Record /\ i \in Link /\ NoIndex \in Link /\ Nil \in Pointer
    BY <1>6, <1>7 DEF Plain, Link, Pointer
  <2>2. (IF L = 0 THEN static[name] ELSE w.htab[name]) = Nil
    BY <1>8, <1>9
  <2> QED BY <2>1, <2>2 DEF Record
<1>13. PatchRight(r, i)
  <2>1. name # NoName
    OBVIOUS
  <2> QED BY <2>1, <1>12 DEF PatchRight, Plain, Down
<1> HIDE DEF r
<1>14. Effect(obj, obj', L, i, r) /\ (L # 0 => obj'[0][i].index \in {i, NoIndex})
  <2>1. CASE L = 0
    <3>1. obj' = [w.obj EXCEPT ![L] = [@ EXCEPT ![i] = r]]
      BY <1>10, <2>1
    <3> QED BY <3>1, <2>1, <1>3, <1>6, <1>7, <1>12, WrittenEffect
  <2>2. CASE L # 0
    <3> DEFINE u == [obj[0][i] EXCEPT !.index = NoIndex]
    <3>1. obj[0] \in [Index -> Record \cup {NoPatch}] /\ obj[L] \in [Index -> Record \cup {NoPatch}]
          /\ 0 \in 0 .. MaxLevel
      BY <1>3 DEF Objects
    <3>2. obj[0][i] \in Record /\ obj[0][i].name = NoName
      <4>1. obj[0][i] \in Record
        BY <1>2, <1>6 DEF ObjectsRight, ObjectRight, Plain
      <4>2. Grows(Top(obj, 0, i), Top(obj, L, i))
        BY <1>2, <1>3, <1>6 DEF GrownRight
      <4> QED BY <4>1, <4>2, <1>6, TopOfTable DEF Grows, t
    <3>3. u \in Record /\ u.index = NoIndex
      BY <3>2 DEF Record, Link
    <3>4. /\ w.obj[0] = obj[0] /\ w.obj[L] = [obj[L] EXCEPT ![i] = p]
          /\ \A m \in 0 .. MaxLevel : m # L => w.obj[m] = obj[m]
          /\ w.obj \in Objects
      <4>1. [obj[L] EXCEPT ![i] = p] \in [Index -> Record \cup {NoPatch}]
        BY <3>1, <1>7 DEF Plain
      <4> QED BY <4>1, <3>1, <2>2, <1>3, <1>7 DEF Objects
    <3>5. obj' = [w.obj EXCEPT ![0][i].index = NoIndex, ![L][i] = r]
      BY <1>10, <2>2
    <3>6. /\ obj'[0] = [obj[0] EXCEPT ![i] = u]
          /\ obj'[L] = [w.obj[L] EXCEPT ![i] = r]
          /\ \A m \in 0 .. MaxLevel : m # L /\ m # 0 => obj'[m] = obj[m]
          /\ obj' = [[w.obj EXCEPT ![0] = obj'[0]] EXCEPT ![L] = obj'[L]]
      BY <3>1, <3>4, <3>5, <2>2, <1>3 DEF Objects
    <3> HIDE DEF u
    <3>7. obj'[L] = [obj[L] EXCEPT ![i] = r]
      BY <3>1, <3>4, <3>6
    <3>8. /\ obj'[0] \in [Index -> Record \cup {NoPatch}]
          /\ obj'[L] \in [Index -> Record \cup {NoPatch}]
      <4>1. obj'[0] \in [Index -> Record \cup {NoPatch}]
        BY <3>1, <3>3, <3>6
      <4>2. obj'[L] \in [Index -> Record \cup {NoPatch}]
        BY <3>1, <3>7, <1>12
      <4> QED BY <4>1, <4>2
    <3>9. obj' \in Objects
      BY <3>4, <3>6, <3>8, <1>3 DEF Objects
    <3>10. obj'[L][i] = r /\ obj'[0][i] = u
      BY <3>1, <3>6, <3>7, <1>6
    <3>11. \A m \in 0 .. MaxLevel : \A j \in Index :
             (m # L /\ m # 0) \/ j # i => obj'[m][j] = obj[m][j]
      BY <3>1, <3>6, <3>7
    <3> QED BY <3>2, <3>3, <3>9, <3>10, <3>11 DEF Effect, u
  <2> QED BY <2>1, <2>2
<1>15. Grows(Top(obj, L, i), r)
  BY <1>6 DEF Grows, t
<1>16. \A m \in 1 .. L - 1 : \A k \in Index : Top(obj, m, k).name # r.name
  <2> SUFFICES ASSUME NEW m \in 1 .. L - 1, NEW k \in Index  PROVE Top(obj, m, k).name # name
    BY <1>12
  <2>1. \A e \in Index : Top(obj, L, e).name # name
    BY <1>1, <1>3
  <2>2. Grows(Top(obj, m, k), Top(obj, L, k))
    BY <1>2, <1>3 DEF GrownRight
  <2> QED BY <2>1, <2>2 DEF Grows
<1>17. list'[L] = Taken(p) /\ \A l \in 0 .. L : l # L => list'[l] = list[l]
  BY <1>3, <1>10
<1>18. /\ ListsGood(View(obj', L), list'[L])
       /\ list'[L] \in Heads
       /\ \A j \in Index : j < list'[L].nobjects => j = i \/ j < list[L].nobjects
  <2> DEFINE R == View(obj, L)
             Q == View(obj', L)
             h == list[L]
             g == list'[L]
  <2>1. /\ Q[i] = r
        /\ \A j \in Index : j # i => Agree(R[j], Q[j])
    BY <1>2, <1>3, <1>6, <1>13, <1>14, EffectOnView DEF PatchRight
  <2>2. R[i] = t /\ t.prev = p.prev /\ p.prev \in Link
    BY <1>6, <1>7 DEF View, t, Agree, Plain, Record
  <2>3. g = IF h.free # NoIndex THEN [h EXCEPT !.free = R[i].prev]
                                ELSE [h EXCEPT !.nobjects = @ + 1]
    BY <2>2, <1>11, <1>17
  <2>4. h \in Heads /\ ListsGood(R, h) /\ (h.free # NoIndex \/ h.nobjects # MaxObjects)
        /\ i = IF h.free # NoIndex THEN h.free ELSE h.nobjects
    BY <1>1, <1>3, <1>4, <1>5
  <2>5. Q[i].live /\ Q[i].name # NoName
    BY <2>1, <1>12, <1>13 DEF PatchRight
  <2>6. R[i].prev \in Link
    BY <2>2
  <2> HIDE DEF R, Q, h, g
  <2>7. ListsGood(Q, g)
    BY <2>1, <2>3, <2>4, <2>5, CreateLists
  <2>8. g \in Heads /\ \A j \in Index : j < g.nobjects => j = i \/ j < h.nobjects
    <3>1. CASE h.free # NoIndex
      BY <3>1, <2>3, <2>4, <2>6 DEF Heads
    <3>2. CASE h.free = NoIndex
      <4>1. h.nobjects \in 0 .. MaxObjects /\ h.nobjects # MaxObjects /\ i = h.nobjects
        BY <3>2, <2>4 DEF Heads
      <4>2. g = [h EXCEPT !.nobjects = @ + 1]
        BY <3>2, <2>3
      <4>3. g.nobjects = h.nobjects + 1 /\ g \in Heads
        BY <4>1, <4>2, <2>4 DEF Heads
      <4> QED BY <4>1, <4>3 DEF Index
    <3> QED BY <3>1, <3>2
  <2> QED BY <2>7, <2>8 DEF Q, g, h
<1>19. list' \in [0 .. MaxLevel -> Heads]
  BY <1>3, <1>10, <1>17, <1>18
<1>20. static' \in [Name -> Pointer] /\ htab' \in [Name -> Pointer]
  <2>1. <<L, i>> \in Pointer /\ <<0, i>> \in Pointer
    BY <1>3, <1>6 DEF Pointer
  <2> QED BY <2>1, <1>3, <1>8, <1>10
<1>21. L # 0 => static' = static /\ Hashes(htab', htab, Top(obj, L, i), r, <<L, i>>)
  BY <1>3, <1>8, <1>10, <1>12 DEF Hashes, t
<1>22. L = 0 => htab' = htab /\ Hashes(static', static, Top(obj, L, i), r, <<0, i>>)
  BY <1>3, <1>8, <1>10, <1>12 DEF Hashes, t
<1>23. \A j \in Index : Top(obj, L, j).live /\ Top(obj, L, j).name = r.name => j = i
  BY <1>9, <1>12
<1>24. Good(obj', static', htab', list', L, "run")
  BY <1>1, <1>6, <1>13, <1>14, <1>15, <1>16, <1>17, <1>18, <1>19, <1>20, <1>21, <1>22, <1>23,
     StepKeeps
<1>25. Only(obj, obj', L, i) /\ Top(obj', L, i) = r
  BY <1>2, <1>3, <1>6, <1>13, <1>14, EffectOnOne
<1> QED
  BY <1>1, <1>6, <1>8, <1>9, <1>12, <1>24, <1>25 DEF IInv, L, t, i

-----------------------------------------------------------------------------
(* Planes come and go *)

\* A plane without patches shows what the one below it does.
LEMMA EmptyPlane ==
  ASSUME NEW o, NEW L \in Nat, L # 0, \A i \in Index : o[L][i] = NoPatch
  PROVE  /\ \A i \in Index : /\ Top(o, L, i) = Top(o, L - 1, i)
                             /\ TopLevel(o, L, i) = TopLevel(o, L - 1, i)
         /\ View(o, L) = View(o, L - 1)
         /\ \A h : HtabRight(o, h, L) <=> HtabRight(o, h, L - 1)
         /\ \A h : IndexedRight(o, L, h) <=> IndexedRight(o, L - 1, h)
<1>1. \A i \in Index : /\ Top(o, L, i) = Top(o, L - 1, i)
                       /\ TopLevel(o, L, i) = TopLevel(o, L - 1, i)
  BY TopStep
<1>2. View(o, L) = View(o, L - 1)
  BY <1>1 DEF View
<1>3. \A h : HtabRight(o, h, L) <=> HtabRight(o, h, L - 1)
  BY <1>1, ZenonT(60) DEF HtabRight
<1>4. \A h : IndexedRight(o, L, h) <=> IndexedRight(o, L - 1, h)
  <2>1. \A i \in Index : (\E m \in 1 .. L : o[m][i] # NoPatch)
                           <=> (\E m \in 1 .. L - 1 : o[m][i] # NoPatch)
    <3> TAKE i \in Index
    <3>1. 1 .. L = (1 .. L - 1) \cup {L}
      OBVIOUS
    <3> QED BY <3>1
  <2> QED BY <2>1, Zenon DEF IndexedRight
<1> QED
  BY <1>1, <1>2, <1>3, <1>4

LEMMA EnterKeeps ==
  ASSUME IInv, Enter
  PROVE  IInv'
<1> DEFINE L == level
           M == level + 1
<1>1. /\ Good(obj, static, htab, list, L, "run") /\ mode' = "run" /\ level' = M
      /\ L < MaxLevel /\ obj' = obj /\ static' = static /\ htab' = htab
      /\ list' = [list EXCEPT ![M] = list[L]]
  BY DEF IInv, Enter
<1>2. /\ Typed(obj, static, htab, list, L, "run")
      /\ ObjectsRight(obj, L) /\ GrownRight(obj, L) /\ FreshRight(obj, L, FALSE)
      /\ \A l \in 0 .. L : PlaneRight(obj, list, L, l)
      /\ HtabRight(obj, htab, L) /\ StaticRight(obj, static, FALSE)
  BY <1>1, Running
<1>3. /\ L \in 0 .. MaxLevel /\ L \in Nat /\ M \in 0 .. MaxLevel /\ M \in Nat /\ M # 0 /\ M - 1 = L
      /\ list \in [0 .. MaxLevel -> Heads]
  BY <1>1, <1>2 DEF Typed
<1>4. \A i \in Index : obj[M][i] = NoPatch
  <2> TAKE i \in Index
  <2>1. M \in Level /\ ~ (M <= L)
    BY <1>3 DEF Level
  <2> QED BY <2>1, <1>2 DEF ObjectsRight, ObjectRight
<1> HIDE DEF L, M
<1>5. /\ \A i \in Index : /\ Top(obj, M, i) = Top(obj, L, i)
                          /\ TopLevel(obj, M, i) = TopLevel(obj, L, i)
      /\ View(obj, M) = View(obj, L)
      /\ \A h : HtabRight(obj, h, M) <=> HtabRight(obj, h, L)
      /\ \A h : IndexedRight(obj, M, h) <=> IndexedRight(obj, L, h)
  BY <1>3, <1>4, EmptyPlane
<1>6. \A l \in 0 .. M : l # M => l \in 0 .. L
  BY <1>3
<1>7. Typed(obj, static, htab, list', M, "run")
  BY <1>1, <1>2, <1>3 DEF Typed
<1>8. ObjectsRight(obj, M)
  <2>1. \A m \in Level : m <= L => m <= M
    BY <1>3 DEF Level
  <2> QED BY <2>1, <1>2 DEF ObjectsRight, ObjectRight
<1>9. GrownRight(obj, M)
  <2> SUFFICES ASSUME NEW i \in Index, NEW m \in 0 .. M, NEW l \in 0 .. M, m <= l
               PROVE  Grows(Top(obj, m, i), Top(obj, l, i))
    BY DEF GrownRight
  <2>1. CASE m # M /\ l # M
    BY <2>1, <1>2, <1>6 DEF GrownRight
  <2>2. CASE m # M /\ l = M
    <3>1. m \in 0 .. L /\ m <= L /\ L \in 0 .. L
      BY <2>2, <1>3
    <3>2. Grows(Top(obj, m, i), Top(obj, L, i))
      BY <3>1, <1>2 DEF GrownRight
    <3> QED BY <3>2, <2>2, <1>5
  <2>3. CASE m = M
    <3>1. l = M
      BY <2>3, <1>3
    <3> QED BY <3>1, <2>3 DEF Grows
  <2> QED BY <2>1, <2>2, <2>3
<1>10. FreshRight(obj, M, FALSE)
  <2> SUFFICES ASSUME NEW m \in 1 .. M, NEW l \in 1 .. M, m < l
               PROVE  FreshIn(obj, m, l)
    BY DEF FreshRight
  <2>1. CASE l # M
    <3>1. m \in 1 .. L /\ l \in 1 .. L
      BY <2>1, <1>3
    <3> QED BY <3>1, <1>2 DEF FreshRight
  <2>2. CASE l = M /\ m # L
    <3>1. m \in 1 .. L /\ L \in 1 .. L /\ m < L
      BY <2>2, <1>3
    <3>2. FreshIn(obj, m, L)
      BY <3>1, <1>2 DEF FreshRight
    <3> QED BY <3>2, <2>2, <1>5 DEF FreshIn
  <2>3. CASE l = M /\ m = L
    BY <2>3, <1>5 DEF FreshIn
  <2> QED BY <2>1, <2>2, <2>3
<1>11. PlanesRight(obj, list', M, "run")
  <2> SUFFICES ASSUME NEW l \in 0 .. M  PROVE PlaneRight(obj, list', M, l)
    BY DEF PlanesRight
  <2>1. CASE l # M
    <3>1. PlaneRight(obj, list, L, l) /\ list'[l] = list[l]
      BY <2>1, <1>1, <1>2, <1>3, <1>6
    <3> QED BY <3>1, <1>5 DEF PlaneRight
  <2>2. CASE l = M
    <3>1. PlaneRight(obj, list, L, L) /\ list'[l] = list[L]
      BY <2>2, <1>1, <1>2, <1>3
    <3> QED BY <3>1, <2>2, <1>5 DEF PlaneRight
  <2> QED BY <2>1, <2>2
<1>12. HtabRight(obj, htab, M)
  BY <1>2, <1>5
<1>13. Good(obj, static, htab, list', M, "run")
  BY <1>2, <1>7, <1>8, <1>9, <1>10, <1>11, <1>12 DEF Good, Last1
<1> QED
  BY <1>1, <1>13 DEF IInv, M

LEMMA ReturnKeeps ==
  ASSUME IInv, Return
  PROVE  IInv'
<1>1. /\ Good(obj, static, htab, list, level, "run") /\ mode' = "commit" /\ level' = level
      /\ level > 0 /\ obj' = obj /\ static' = static /\ htab' = htab /\ list' = list
  BY DEF IInv, Return
<1>2. /\ Typed(obj, static, htab, list, level, "run")
      /\ ObjectsRight(obj, level) /\ GrownRight(obj, level) /\ FreshRight(obj, level, FALSE)
      /\ \A l \in 0 .. level : PlaneRight(obj, list, level, l)
      /\ HtabRight(obj, htab, level) /\ StaticRight(obj, static, FALSE)
  BY <1>1, Running
<1>3. Typed(obj, static, htab, list, level, "commit")
  BY <1>1, <1>2 DEF Typed
<1>4. FreshRight(obj, level, TRUE)
  BY <1>2 DEF FreshRight
<1>5. PlanesRight(obj, list, level, "commit")
  BY <1>2 DEF PlanesRight
<1>6. StaticRight(obj, static, TRUE)
  BY <1>2 DEF StaticRight
<1>7. Good(obj, static, htab, list, level, "commit")
  BY <1>2, <1>3, <1>4, <1>5, <1>6 DEF Good, Last1
<1> QED
  BY <1>1, <1>7 DEF IInv

LEMMA FailKeeps ==
  ASSUME IInv, Fail
  PROVE  IInv'
<1>1. /\ Good(obj, static, htab, list, level, "run") /\ mode' = "discard" /\ level' = level
      /\ level > 0 /\ obj' = obj /\ static' = static /\ htab' = htab /\ list' = list
  BY DEF IInv, Fail
<1>2. /\ Typed(obj, static, htab, list, level, "run")
      /\ ObjectsRight(obj, level) /\ GrownRight(obj, level) /\ FreshRight(obj, level, FALSE)
      /\ \A l \in 0 .. level : PlaneRight(obj, list, level, l)
      /\ HtabRight(obj, htab, level) /\ StaticRight(obj, static, FALSE)
  BY <1>1, Running
<1>3. Typed(obj, static, htab, list, level, "discard")
  BY <1>1, <1>2 DEF Typed
<1>4. PlanesRight(obj, list, level, "discard")
  BY <1>2 DEF PlanesRight
<1>5. Good(obj, static, htab, list, level, "discard")
  BY <1>2, <1>3, <1>4 DEF Good, Last1
<1> QED
  BY <1>1, <1>5 DEF IInv

LEMMA LeaveKeeps ==
  ASSUME IInv, Leave
  PROVE  IInv'
<1> DEFINE L == level
           M == level - 1
<1>1. /\ Good(obj, static, htab, list, L, mode) /\ mode' = "run" /\ level' = M
      /\ mode \in {"commit", "discard"} /\ obj' = obj /\ static' = static
      /\ \A i \in Index : obj[L][i] = NoPatch
      /\ list' = IF mode = "commit" THEN [list EXCEPT ![L - 1] = list[L]] ELSE list
      /\ htab' = IF L = 1 THEN [n \in Name |-> Nil] ELSE htab
  BY DEF IInv, Leave, CommittedLists
<1>2. /\ Typed(obj, static, htab, list, L, mode)
      /\ ObjectsRight(obj, L) /\ GrownRight(obj, L) /\ FreshRight(obj, L, mode = "commit")
      /\ PlanesRight(obj, list, L, mode)
      /\ ~Last1(L, mode) => HtabRight(obj, htab, L)
      /\ StaticRight(obj, static, Last1(L, mode))
  BY <1>1 DEF Good
<1>3. /\ L \in 1 .. MaxLevel /\ L \in 0 .. L /\ L \in Nat /\ M \in 0 .. MaxLevel
      /\ M \in 0 .. L /\ M \in Nat /\ M = L - 1
      /\ list \in [0 .. MaxLevel -> Heads] /\ htab \in [Name -> Pointer]
  BY <1>1, <1>2 DEF Typed
<1> HIDE DEF L, M
<1>4. /\ View(obj, L) = View(obj, M)
      /\ \A h : HtabRight(obj, h, L) <=> HtabRight(obj, h, M)
      /\ \A h : IndexedRight(obj, L, h) <=> IndexedRight(obj, M, h)
  BY <1>1, <1>3, EmptyPlane
<1>5. \A l \in 0 .. M : l \in 0 .. L /\ l # L
  BY <1>3
<1>6. Typed(obj, static, htab', list', M, "run")
  <2>1. htab' \in [Name -> Pointer]
    BY <1>1, <1>3 DEF Pointer
  <2>2. list' \in [0 .. MaxLevel -> Heads]
    BY <1>1, <1>3
  <2> QED BY <2>1, <2>2, <1>2, <1>3 DEF Typed
<1>7. ObjectsRight(obj, M)
  <2>1. \A m \in Level : m <= L /\ m # L => m <= M
    BY <1>3 DEF Level
  <2> QED BY <2>1, <1>1, <1>2 DEF ObjectsRight, ObjectRight
<1>8. GrownRight(obj, M)
  BY <1>2, <1>5 DEF GrownRight
<1>9. FreshRight(obj, M, FALSE)
  <2> SUFFICES ASSUME NEW m \in 1 .. M, NEW l \in 1 .. M, m < l
               PROVE  FreshIn(obj, m, l)
    BY DEF FreshRight
  <2>1. m \in 1 .. L /\ l \in 1 .. L /\ m # L - 1
    BY <1>3
  <2> QED BY <2>1, <1>2 DEF FreshRight
<1>10. PlanesRight(obj, list', M, "run")
  <2> SUFFICES ASSUME NEW l \in 0 .. M  PROVE PlaneRight(obj, list', M, l)
    BY DEF PlanesRight
  <2>1. CASE mode = "commit" /\ l = M
    <3>1. PlaneRight(obj, list, L, L)
      BY <2>1, <1>2, <1>3 DEF PlanesRight, Settled
    <3>2. list'[l] = list[L]
      BY <2>1, <1>1, <1>3
    <3> QED BY <3>1, <3>2, <2>1, <1>4 DEF PlaneRight
  <2>2. CASE ~ (mode = "commit" /\ l = M)
    <3>1. Settled(l, L, mode)
      BY <2>2, <1>3, <1>5 DEF Settled
    <3>2. PlaneRight(obj, list, L, l)
      BY <3>1, <1>2, <1>5 DEF PlanesRight
    <3>3. list'[l] = list[l]
      BY <2>2, <1>1, <1>3
    <3> QED BY <3>2, <3>3, <1>4 DEF PlaneRight
  <2> QED BY <2>1, <2>2
<1>11. HtabRight(obj, htab', M)
  <2>1. CASE L = 1
    <3>1. M = 0 /\ htab' = [n \in Name |-> Nil]
      BY <2>1, <1>1, <1>3
    <3> QED BY <3>1, NoHtab
  <2>2. CASE L # 1
    BY <2>2, <1>1, <1>2, <1>4 DEF Last1
  <2> QED BY <2>1, <2>2
<1>12. StaticRight(obj, static, FALSE)
  <2>1. CASE Last1(L, mode)
    <3>1. \A i, j \in Index : ~Chained(obj, j, i)
      BY <2>1, <1>1 DEF Last1, Chained
    <3> QED BY <3>1, <2>1, <1>2 DEF StaticRight
  <2>2. CASE ~Last1(L, mode)
    <3>1. Last1(L, mode) = FALSE
      BY <2>2 DEF Last1
    <3> QED BY <3>1, <1>2
  <2> QED BY <2>1, <2>2
<1>13. Good(obj, static, htab', list', M, "run")
  BY <1>6, <1>7, <1>8, <1>9, <1>10, <1>11, <1>12 DEF Good, Last1
<1> QED
  BY <1>1, <1>13 DEF IInv, M

LEMMA CleanKeeps ==
  ASSUME IInv, Clean
  PROVE  /\ IInv'
         /\ \A i \in Index : /\ Top(obj', 0, i).live <=> Top(obj, 0, i).live
                             /\ Top(obj, 0, i).live => Top(obj', 0, i) = Top(obj, 0, i)
<1> DEFINE R == View(obj, 0)
           Q == View(obj', 0)
           h == list[0]
           g == list'[0]
           gone == Chain([i \in Index |-> obj[0][i].cref], list[0].destruct)
           Before(i) == CHOOSE n \in 1 .. Len(gone) : gone[n] = i
           New(i) == [obj[0][i] EXCEPT
                        !.name = NoName,
                        !.prev = IF Before(i) = 1 THEN list[0].free
                                                  ELSE gone[Before(i) - 1]]
<1>1. /\ Good(obj, static, htab, list, 0, "run") /\ mode' = "run" /\ level = 0 /\ level' = 0
      /\ static' = static /\ htab' = htab
  BY DEF IInv, Clean
<1>2. /\ Typed(obj, static, htab, list, 0, "run")
      /\ ObjectsRight(obj, 0) /\ GrownRight(obj, 0)
      /\ PlaneRight(obj, list, 0, 0)
      /\ HtabRight(obj, htab, 0) /\ StaticRight(obj, static, FALSE)
  <2>1. \A l \in 0 .. 0 : PlaneRight(obj, list, 0, l)
    BY <1>1, Running
  <2>2. PlaneRight(obj, list, 0, 0)
    BY <2>1
  <2> QED BY <2>2, <1>1, Running
<1>3. /\ obj \in Objects /\ list \in [0 .. MaxLevel -> Heads] /\ h \in Heads
      /\ 0 \in 0 .. MaxLevel
  BY <1>2 DEF Typed
<1>4. /\ obj' = [obj EXCEPT ![0] = [i \in Index |-> IF i \in Elements(gone) THEN New(i)
                                                    ELSE obj[0][i]]]
      /\ list' = [list EXCEPT ![0].clean = Nil, ![0].destruct = NoIndex,
                              ![0].free = IF gone = <<>> THEN @ ELSE gone[Len(gone)]]
  BY DEF Clean, Elements
<1>5. \A i \in Index : R[i] = obj[0][i] /\ Q[i] = obj'[0][i]
  BY TopOfTable DEF View
<1>6. gone = Chain(Cref(R), h.destruct)
  <2>1. Cref(R) = [i \in Index |-> obj[0][i].cref]
    BY <1>5 DEF Cref
  <2> QED BY <2>1
<1>7. Runs(gone, Cref(R), h.destruct) /\ Elements(gone) = GoneOf(R)
  BY <1>2, <1>6 DEF PlaneRight, ListsGood, Lists
<1> HIDE DEF gone, New
<1>8. /\ gone \in Seq(Index) /\ Len(gone) \in Nat
      /\ \A n, m \in 1 .. Len(gone) : gone[n] = gone[m] => n = m
      /\ \A n \in 1 .. Len(gone) : gone[n] \in Index /\ gone[n] \in Elements(gone)
  BY <1>7 DEF Runs, Elements
<1>9. /\ \A i \in Index : i \in Elements(gone) => obj'[0][i] = New(i)
      /\ \A i \in Index : i \notin Elements(gone) => obj'[0][i] = obj[0][i]
      /\ \A m \in Level : obj'[m] = obj[m]
  BY <1>3, <1>4 DEF Objects, Level
<1>10. \A n \in 1 .. Len(gone) : Before(gone[n]) = n
  BY <1>8
<1>11. ASSUME NEW i \in Elements(gone)
       PROVE  /\ i \in Index /\ New(i) \in Record
              /\ New(i).name = NoName /\ New(i).live = FALSE /\ New(i).kept = FALSE
              /\ New(i).next \in Down /\ New(i).index = obj[0][i].index
              /\ New(i).prev = IF Before(i) = 1 THEN h.free ELSE gone[Before(i) - 1]
              /\ ~obj[0][i].live
  <2>1. PICK n \in 1 .. Len(gone) : i = gone[n]
    BY DEF Elements
  <2>2. i \in Index /\ Before(i) = n
    BY <2>1, <1>8, <1>10
  <2>3. ~obj[0][i].live /\ ~obj[0][i].kept
    BY <1>5, <1>7, <2>2 DEF GoneOf, Destructed
  <2>4. Plain(obj[0][i])
    BY <1>2, <2>2 DEF ObjectsRight, ObjectRight
  <2> DEFINE p == IF Before(i) = 1 THEN h.free ELSE gone[Before(i) - 1]
  <2>5. p \in Link
    <3>1. h.free \in Link
      BY <1>3 DEF Heads
    <3>2. n # 1 => gone[n - 1] \in Index
      BY <1>8
    <3> QED BY <3>1, <3>2, <2>2 DEF Link
  <2>6. New(i) = [obj[0][i] EXCEPT !.name = NoName, !.prev = p]
    BY DEF New
  <2> HIDE DEF p
  <2>7. obj[0][i] \in Record
    BY <2>4 DEF Plain
  <2>8. /\ New(i) \in Record /\ New(i).name = NoName /\ New(i).live = obj[0][i].live
        /\ New(i).kept = obj[0][i].kept /\ New(i).next = obj[0][i].next
        /\ New(i).index = obj[0][i].index /\ New(i).prev = p
    BY <2>5, <2>6, <2>7 DEF Record
  <2> QED BY <2>2, <2>3, <2>4, <2>7, <2>8 DEF Plain, p, Record
<1>12. ObjectsRight(obj', 0)
  <2> SUFFICES ASSUME NEW i \in Index  PROVE ObjectRight(obj', 0, i)
    BY DEF ObjectsRight
  <2>1. ObjectRight(obj, 0, i)
    BY <1>2 DEF ObjectsRight
  <2>2. CASE i \in Elements(gone)
    <3>1. Plain(obj'[0][i]) /\ obj'[0][i].name = NoName
      BY <2>2, <1>9, <1>11 DEF Plain
    <3>2. \A m \in Level : obj'[m][i] = NoPatch
      BY <1>9, <2>1 DEF ObjectRight, Level
    <3> QED BY <3>1, <3>2 DEF ObjectRight
  <2>3. CASE i \notin Elements(gone)
    BY <2>1, <2>3, <1>9 DEF ObjectRight
  <2> QED BY <2>2, <2>3
<1>13. GrownRight(obj', 0) /\ FreshRight(obj', 0, FALSE)
  BY DEF GrownRight, FreshRight, Grows
<1>14. ListsGood(Q, g)
  <2>1. \A i \in Index : i \notin Elements(gone) => Q[i] = R[i]
    BY <1>5, <1>9
  <2>2. ASSUME NEW n \in 1 .. Len(gone)
        PROVE  /\ Q[gone[n]].name = NoName /\ Q[gone[n]].live = R[gone[n]].live
               /\ Q[gone[n]].prev = IF n = 1 THEN h.free ELSE gone[n - 1]
    <3>1. gone[n] \in Elements(gone) /\ gone[n] \in Index
      BY <1>8
    <3>2. Q[gone[n]] = New(gone[n]) /\ R[gone[n]] = obj[0][gone[n]]
      BY <3>1, <1>5, <1>9
    <3>3. obj[0][gone[n]].live \in BOOLEAN
      BY <3>1, <1>2 DEF ObjectsRight, ObjectRight, Plain, Record
    <3>4. /\ New(gone[n]).name = NoName /\ New(gone[n]).live = FALSE
          /\ New(gone[n]).prev = IF Before(gone[n]) = 1 THEN h.free ELSE gone[Before(gone[n]) - 1]
          /\ ~obj[0][gone[n]].live
      BY <3>1, <1>11
    <3>5. Before(gone[n]) = n
      BY <1>10
    <3> HIDE DEF Q, R, h, Before
    <3> QED BY <3>2, <3>3, <3>4, <3>5
  <2>3. g = [h EXCEPT !.clean = Nil, !.destruct = NoIndex,
                      !.free = IF gone = <<>> THEN @ ELSE gone[Len(gone)]]
    BY <1>3, <1>4 DEF Heads
  <2>4. ListsGood(R, h)
    BY <1>2 DEF PlaneRight
  <2>5. h \in Heads
    BY <1>3
  <2> HIDE DEF R, Q, h, g
  <2>6. Freed(R, h, gone, Q)
    BY <1>6, <2>1, <2>2 DEF Freed
  <2> QED BY <2>3, <2>4, <2>5, <2>6, CleanLists
<1>15. g \in Heads /\ g.nobjects = h.nobjects /\ list' \in [0 .. MaxLevel -> Heads]
  <2>1. (IF gone = <<>> THEN h.free ELSE gone[Len(gone)]) \in Link
    <3>1. gone # <<>> => Len(gone) \in 1 .. Len(gone)
      BY <1>8
    <3> QED BY <3>1, <1>3, <1>8 DEF Heads, Link
  <2>2. g = [h EXCEPT !.clean = Nil, !.destruct = NoIndex,
                      !.free = IF gone = <<>> THEN @ ELSE gone[Len(gone)]]
    BY <1>3, <1>4 DEF Heads
  <2>3. g \in Heads /\ g.nobjects = h.nobjects
    BY <2>1, <2>2, <1>3 DEF Heads, Link, Pointer
  <2>4. list' = [list EXCEPT ![0] = g]
    BY <1>3, <1>4 DEF Heads
  <2> QED BY <2>3, <2>4, <1>3
<1>16. PlanesRight(obj', list', 0, "run")
  <2>1. Unique(Q)
    <3>1. \A i \in Index : Q[i].live => Q[i] = R[i]
      <4>1. \A i \in Elements(gone) : ~obj'[0][i].live
        BY <1>9, <1>11
      <4> QED BY <4>1, <1>5, <1>9
    <3> QED BY <3>1, <1>2 DEF PlaneRight, Unique
  <2>2. IndexedRight(obj', 0, g)
    <3>1. \A i \in Index : obj'[0][i].index = obj[0][i].index
      BY <1>9, <1>11
    <3> QED BY <3>1, <1>2, <1>15 DEF PlaneRight, IndexedRight
  <2> QED BY <2>1, <2>2, <1>14 DEF PlanesRight, PlaneRight
<1>17. StaticRight(obj', static, FALSE)
  <2>1. \A i \in Index : obj'[0][i].live \/ obj[0][i].live => obj'[0][i] = obj[0][i]
    BY <1>9, <1>11
  <2>2. \A i \in Index : /\ obj'[0][i].live <=> obj[0][i].live
                         /\ obj[0][i].live => obj'[0][i] = obj[0][i]
    BY <2>1
  <2>3. \A n \in Name : static[n] # Nil =>
          \E j \in Index : static[n] = <<0, j>> /\ obj'[0][j].live /\ obj'[0][j].name = n
    BY <2>2, <1>2 DEF StaticRight
  <2>4. \A i \in Index : obj'[0][i].live =>
          static[obj'[0][i].name] = <<0, i>> /\ obj'[0][i].next = Nil
    BY <2>2, <1>2 DEF StaticRight
  <2> QED BY <2>3, <2>4 DEF StaticRight
<1>18. HtabRight(obj', htab, 0)
  BY <1>2, NoHtab
<1>19. Typed(obj', static, htab, list', 0, "run")
  <2>1. [i \in Index |-> IF i \in Elements(gone) THEN New(i) ELSE obj[0][i]]
          \in [Index -> Record \cup {NoPatch}]
    BY SMTT(60), <1>3, <1>11 DEF Objects
  <2>2. obj' \in Objects
    BY <2>1, <1>3, <1>4 DEF Objects
  <2> QED BY <2>2, <1>2, <1>15 DEF Typed
<1>20. Good(obj', static, htab, list', 0, "run")
  BY <1>12, <1>13, <1>16, <1>17, <1>18, <1>19 DEF Good, Last1
<1>21. \A i \in Index : /\ Top(obj', 0, i).live <=> Top(obj, 0, i).live
                        /\ Top(obj, 0, i).live => Top(obj', 0, i) = Top(obj, 0, i)
  <2>1. \A i \in Index : /\ obj'[0][i].live <=> obj[0][i].live
                         /\ obj[0][i].live => obj'[0][i] = obj[0][i]
    BY <1>9, <1>11
  <2> QED BY <2>1, TopOfTable
<1> QED
  BY <1>1, <1>20, <1>21 DEF IInv

-----------------------------------------------------------------------------
(* A patch is committed *)

\* The patch of i has gone from plane L to the records of the level below.
Committed(o, q, L, i) ==
  /\ q \in Objects
  /\ o[L][i] # NoPatch
  /\ q[L][i] = NoPatch /\ q[L - 1][i] # NoPatch /\ Agree(o[L][i], q[L - 1][i])
  /\ \A m \in 0 .. MaxLevel : \A j \in Index :
       (m # L /\ m # L - 1) \/ j # i =>
         Agree(o[m][j], q[m][j]) /\ (q[m][j] = NoPatch <=> o[m][j] = NoPatch)

\* The level that shows, in the records o, what level l does once the patch of i
\* has been committed from plane L.
From(L, i, l, j) == IF l = L - 1 /\ j = i THEN L ELSE l

\* Once it has, the plane shows what it did, and the level below the same of i.
LEMMA CommittedTops ==
  ASSUME NEW L \in 1 .. MaxLevel, NEW i \in Index, NEW o, NEW q, Committed(o, q, L, i)
  PROVE  /\ \A l \in 0 .. L : \A j \in Index :
              /\ From(L, i, l, j) \in 0 .. L
              /\ Agree(Top(o, From(L, i, l, j), j), Top(q, l, j))
         /\ \A l \in 0 .. L : \A j \in Index :
              j # i => TopLevel(q, l, j) = TopLevel(o, l, j)
         /\ TopLevel(q, L, i) = L - 1 /\ TopLevel(o, L, i) = L
         /\ Top(o, L, i) = o[L][i] /\ Top(q, L, i) = q[L - 1][i]
<1>1. L \in Nat /\ L # 0 /\ L - 1 \in Nat /\ L \in 0 .. L /\ L - 1 \in 0 .. L /\ L - 1 # L
      /\ \A l \in 0 .. L : l \in 0 .. MaxLevel /\ l \in Nat
  OBVIOUS
<1>2. TopLevel(o, L, i) = L /\ Top(o, L, i) = o[L][i]
  BY <1>1, TopStep DEF Committed
<1>3. TopLevel(q, L - 1, i) = L - 1 /\ Top(q, L - 1, i) = q[L - 1][i]
  <2>1. CASE L - 1 = 0
    BY <2>1, TopOfTable
  <2>2. CASE L - 1 # 0
    BY <2>2, <1>1, TopStep DEF Committed
  <2> QED BY <2>1, <2>2
<1>4. TopLevel(q, L, i) = L - 1 /\ Top(q, L, i) = q[L - 1][i]
  BY <1>1, <1>3, TopStep DEF Committed
<1>5. ASSUME NEW l \in 0 .. L, NEW j \in Index, j # i \/ (l # L /\ l # L - 1)
      PROVE  TopLevel(q, l, j) = TopLevel(o, l, j) /\ Agree(Top(o, l, j), Top(q, l, j))
  <2>1. \A m \in 0 .. l : m \in 0 .. MaxLevel /\ (j # i \/ (m # L /\ m # L - 1))
    BY <1>1, <1>5
  <2>2. \A m \in 1 .. l : m \in 0 .. l
    OBVIOUS
  <2>3. \A m \in 0 .. l : Agree(o[m][j], q[m][j]) /\ (q[m][j] = NoPatch <=> o[m][j] = NoPatch)
    BY <2>1 DEF Committed
  <2>4. l \in Nat
    BY <1>1
  <2> QED BY <2>2, <2>3, <2>4, AgreeingTop
<1>6. ASSUME NEW l \in 0 .. L, NEW j \in Index
      PROVE  /\ From(L, i, l, j) \in 0 .. L
             /\ Agree(Top(o, From(L, i, l, j), j), Top(q, l, j))
  <2>1. CASE j # i \/ (l # L /\ l # L - 1)
    BY <2>1, <1>5 DEF From
  <2>2. CASE j = i /\ l = L
    <3>1. From(L, i, l, j) = L
      BY <2>2, <1>1 DEF From
    <3> QED BY <3>1, <2>2, <1>1, <1>2, <1>4 DEF Committed
  <2>3. CASE j = i /\ l = L - 1
    BY <2>3, <1>1, <1>2, <1>3 DEF Committed, From
  <2> QED BY <2>1, <2>2, <2>3
<1> QED
  BY <1>2, <1>4, <1>5, <1>6

LEMMA CommittedGrown ==
  ASSUME NEW L \in 1 .. MaxLevel, NEW i \in Index, NEW o, NEW q, Committed(o, q, L, i),
         GrownRight(o, L)
  PROVE  GrownRight(q, L)
<1> SUFFICES ASSUME NEW j \in Index, NEW m \in 0 .. L, NEW l \in 0 .. L, m <= l
             PROVE  Grows(Top(q, m, j), Top(q, l, j))
  BY DEF GrownRight
<1> DEFINE a == From(L, i, m, j)
           b == From(L, i, l, j)
<1>1. /\ a \in 0 .. L /\ Agree(Top(o, a, j), Top(q, m, j))
      /\ b \in 0 .. L /\ Agree(Top(o, b, j), Top(q, l, j))
  BY CommittedTops
<1>2. a <= b
  BY DEF From
<1>3. Grows(Top(o, a, j), Top(o, b, j))
  BY <1>1, <1>2 DEF GrownRight
<1> HIDE DEF a, b
<1> QED
  BY <1>1, <1>3, AgreeGrows

LEMMA CommittedFresh ==
  ASSUME NEW L \in 1 .. MaxLevel, NEW i \in Index, NEW o, NEW q, Committed(o, q, L, i),
         FreshRight(o, L, TRUE)
  PROVE  FreshRight(q, L, TRUE)
<1> SUFFICES ASSUME NEW m \in 1 .. L, NEW l \in 1 .. L, m < l, m # L - 1,
                    NEW j \in Index, Top(q, l, j).live
             PROVE  \/ Top(q, m, j).live
                    \/ \A k \in Index : Top(q, m, k).name # Top(q, l, j).name
  BY DEF FreshRight, FreshIn
<1> DEFINE b == From(L, i, l, j)
<1>1. m \in 0 .. L /\ l \in 0 .. L
  OBVIOUS
<1>2. \A k \in Index : Agree(Top(o, m, k), Top(q, m, k))
  BY <1>1, CommittedTops DEF From
<1>3. Agree(Top(o, b, j), Top(q, l, j))
  BY <1>1, CommittedTops
<1>4. b \in 1 .. L /\ m < b
  BY DEF From
<1>5. FreshIn(o, m, b)
  BY <1>4 DEF FreshRight
<1> HIDE DEF b
<1> QED
  BY <1>2, <1>3, <1>5 DEF FreshIn, Agree

LEMMA CommittedPlanes ==
  ASSUME NEW L \in 1 .. MaxLevel, NEW i \in Index, NEW o, NEW q, Committed(o, q, L, i),
         NEW hs, PlanesRight(o, hs, L, "commit"),
         \A h : IndexedRight(o, L, h) => IndexedRight(q, L, h)
  PROVE  PlanesRight(q, hs, L, "commit")
<1> SUFFICES ASSUME NEW l \in 0 .. L, l # L - 1  PROVE PlaneRight(q, hs, L, l)
  BY DEF PlanesRight, Settled
<1>1. PlaneRight(o, hs, L, l)
  BY DEF PlanesRight, Settled
<1>2. \A j \in Index : Agree(Top(o, l, j), Top(q, l, j))
  BY CommittedTops DEF From
<1>3. \A j \in Index : Agree(View(o, l)[j], View(q, l)[j])
  BY <1>2, AgreeingViews
<1>4. Unique(View(q, l)) /\ ListsGood(View(q, l), hs[l])
  BY <1>1, <1>3, AgreeingUnique, AgreeingLists DEF PlaneRight
<1> QED
  BY <1>1, <1>4 DEF PlaneRight

LEMMA CommittedHtab ==
  ASSUME NEW L \in 1 .. MaxLevel, L > 1, NEW i \in Index, NEW o, NEW q, Committed(o, q, L, i),
         \A j \in Index : Top(o, L, j).live => Top(o, L, j).name \in Name,
         NEW h, HtabRight(o, h, L), NEW h2,
         \A n \in Name : h2[n] = IF o[L][i].live /\ o[L][i].name = n
                                   THEN <<L - 1, i>> ELSE h[n]
  PROVE  HtabRight(q, h2, L)
<1> DEFINE op == o[L][i]
<1>1. /\ \A j \in Index : Agree(Top(o, L, j), Top(q, L, j))
      /\ \A j \in Index : j # i => TopLevel(q, L, j) = TopLevel(o, L, j)
      /\ TopLevel(q, L, i) = L - 1 /\ L - 1 > 0 /\ TopLevel(o, L, i) = L /\ L > 0
      /\ Top(o, L, i) = op
  BY CommittedTops DEF From
<1>2. \A j \in Index : /\ Top(q, L, j).live = Top(o, L, j).live
                       /\ Top(q, L, j).name = Top(o, L, j).name
  BY <1>1 DEF Agree
<1> HIDE DEF op
<1>3. \A n \in Name : h2[n] = IF op.live /\ op.name = n THEN <<L - 1, i>> ELSE h[n]
  BY DEF op
<1>4. ASSUME NEW n \in Name, h2[n] # Nil
      PROVE  \E j \in Index :
               /\ TopLevel(q, L, j) > 0
               /\ h2[n] = <<TopLevel(q, L, j), j>>
               /\ Top(q, L, j).live /\ Top(q, L, j).name = n
  <2>1. CASE op.live /\ op.name = n
    <3>1. Top(q, L, i).live /\ Top(q, L, i).name = n
      BY <2>1, <1>1, <1>2
    <3> QED BY <3>1, <2>1, <1>1, <1>3
  <2>2. CASE ~(op.live /\ op.name = n)
    <3>1. h2[n] = h[n]
      BY <2>2, <1>3
    <3>2. PICK j \in Index :
            /\ TopLevel(o, L, j) > 0
            /\ h[n] = <<TopLevel(o, L, j), j>>
            /\ Top(o, L, j).live /\ Top(o, L, j).name = n
      BY <3>1, <1>4 DEF HtabRight
    <3>3. j # i
      BY <3>2, <2>2, <1>1
    <3> QED BY <3>1, <3>2, <3>3, <1>1, <1>2
  <2> QED BY <2>1, <2>2
<1>5. ASSUME NEW j \in Index, TopLevel(q, L, j) > 0, Top(q, L, j).live
      PROVE  h2[Top(q, L, j).name] = <<TopLevel(q, L, j), j>>
  <2> DEFINE n == Top(o, L, j).name
  <2>1. n \in Name /\ Top(q, L, j).name = n /\ Top(o, L, j).live
    BY <1>2, <1>5
  <2>2. CASE j = i
    BY <2>1, <2>2, <1>1, <1>3
  <2>3. CASE j # i
    <3>1. TopLevel(o, L, j) > 0 /\ TopLevel(q, L, j) = TopLevel(o, L, j)
      BY <2>3, <1>1, <1>5
    <3>2. h[n] = <<TopLevel(o, L, j), j>>
      BY <3>1, <2>1 DEF HtabRight
    <3>3. op.live => h[op.name] = <<L, i>>
      BY <1>1 DEF HtabRight
    <3> HIDE DEF n
    <3>4. ~(op.live /\ op.name = n)
      BY <3>2, <3>3, <2>3
    <3> QED BY <3>1, <3>2, <3>4, <2>1, <1>3
  <2> QED BY <2>2, <2>3
<1> QED
  BY <1>4, <1>5 DEF HtabRight

\* What is live has a name.
LEMMA LiveNamed ==
  ASSUME NEW o, NEW L \in 0 .. MaxLevel, ObjectsRight(o, L)
  PROVE  \A l \in 0 .. MaxLevel : \A j \in Index :
           Top(o, l, j).live => Top(o, l, j).name \in Name
<1> SUFFICES ASSUME NEW l \in 0 .. MaxLevel, NEW j \in Index, Top(o, l, j).live
             PROVE  Top(o, l, j).name \in Name
  OBVIOUS
<1>1. Plain(Top(o, l, j))
  BY TopRight
<1> QED
  BY <1>1 DEF Plain, Record

\* It is handed to the plane below.
HandedTo(o, q, L, i) ==
  q = [o EXCEPT ![L - 1] = [@ EXCEPT ![i] = o[L][i]],
                ![L] = [@ EXCEPT ![i] = NoPatch]]

\* Its name then leads to the record that it was copied to.
LEMMA HandedDown ==
  ASSUME NEW L \in 2 .. MaxLevel, NEW i \in Index, NEW o \in Objects,
         ObjectsRight(o, L), o[L][i] # NoPatch,
         NEW q, HandedTo(o, q, L, i)
  PROVE  /\ Committed(o, q, L, i) /\ ObjectsRight(q, L) /\ q[0] = o[0]
         /\ \A h : IndexedRight(o, L, h) => IndexedRight(q, L, h)
<1>1. /\ L \in 0 .. MaxLevel /\ L - 1 \in 0 .. MaxLevel /\ L \in Level /\ L - 1 \in Level
      /\ L # L - 1 /\ L # 0 /\ L - 1 # 0 /\ L - 1 \in 1 .. L /\ L - 1 <= L
  BY DEF Level
<1>2. \A m \in 0 .. MaxLevel : o[m] \in [Index -> Record \cup {NoPatch}]
  BY DEF Objects
<1>3. /\ q[L] = [o[L] EXCEPT ![i] = NoPatch]
      /\ q[L - 1] = [o[L - 1] EXCEPT ![i] = o[L][i]]
      /\ \A m \in 0 .. MaxLevel : m # L /\ m # L - 1 => q[m] = o[m]
  BY <1>1 DEF Objects, HandedTo
<1>4. /\ q[L][i] = NoPatch /\ q[L - 1][i] = o[L][i]
      /\ \A m \in 0 .. MaxLevel : \A j \in Index :
           (m # L /\ m # L - 1) \/ j # i => q[m][j] = o[m][j]
  <2>1. /\ q[L][i] = NoPatch /\ \A j \in Index : j # i => q[L][j] = o[L][j]
        /\ q[L - 1][i] = o[L][i] /\ \A j \in Index : j # i => q[L - 1][j] = o[L - 1][j]
    <3>1. /\ o[L] \in [Index -> Record \cup {NoPatch}]
          /\ o[L - 1] \in [Index -> Record \cup {NoPatch}]
      BY <1>1, <1>2
    <3>2. /\ [o[L] EXCEPT ![i] = NoPatch][i] = NoPatch
          /\ \A j \in Index : j # i => [o[L] EXCEPT ![i] = NoPatch][j] = o[L][j]
      BY <3>1
    <3>3. /\ [o[L - 1] EXCEPT ![i] = o[L][i]][i] = o[L][i]
          /\ \A j \in Index : j # i => [o[L - 1] EXCEPT ![i] = o[L][i]][j] = o[L - 1][j]
      BY <3>1
    <3> QED BY <3>2, <3>3, <1>3, Zenon
  <2> QED BY <2>1, <1>3
<1>5. q \in Objects
  <2>1. /\ [o[L] EXCEPT ![i] = NoPatch] \in [Index -> Record \cup {NoPatch}]
        /\ [o[L - 1] EXCEPT ![i] = o[L][i]] \in [Index -> Record \cup {NoPatch}]
    BY <1>1, <1>2
  <2> QED BY <2>1 DEF Objects, HandedTo
<1>6. Committed(o, q, L, i)
  <2>1. Agree(o[L][i], q[L - 1][i])
    BY <1>4, AgreeSelf
  <2>2. \A m \in 0 .. MaxLevel : \A j \in Index :
          (m # L /\ m # L - 1) \/ j # i =>
            Agree(o[m][j], q[m][j]) /\ (q[m][j] = NoPatch <=> o[m][j] = NoPatch)
    BY <1>4, AgreeSelf
  <2> QED BY <2>1, <2>2, <1>4, <1>5 DEF Committed
<1>7. q[0] = o[0]
  <2>1. 0 \in 0 .. MaxLevel
    OBVIOUS
  <2> QED BY <2>1, <1>1, <1>3
<1>8. ObjectsRight(q, L)
  <2> SUFFICES ASSUME NEW j \in Index  PROVE ObjectRight(q, L, j)
    BY DEF ObjectsRight
  <2>1. ObjectRight(o, L, j)
    BY DEF ObjectsRight
  <2>2. \A m \in Level : m \in 0 .. MaxLevel
    BY DEF Level
  <2>3. \A m \in Level : \/ q[m][j] = o[m][j] \/ q[m][j] = NoPatch
                         \/ m = L - 1 /\ j = i /\ q[m][j] = o[L][j]
    BY <1>4, <2>2
  <2>4. \A m \in Level : q[m][j] # NoPatch =>
          m <= L /\ PatchRight(q[m][j], j) /\ q[0][j].index \in {j, NoIndex}
    BY <1>1, <1>7, <2>1, <2>3 DEF ObjectRight
  <2> QED BY <2>1, <2>4, <1>7 DEF ObjectRight
<1>9. ASSUME NEW h, IndexedRight(o, L, h)
      PROVE  IndexedRight(q, L, h)
  <2> SUFFICES ASSUME NEW j \in Index, j < h.nobjects, q[0][j].index # j
               PROVE  \E m \in 1 .. L : q[m][j] # NoPatch
    BY DEF IndexedRight
  <2>1. PICK m \in 1 .. L : o[m][j] # NoPatch
    BY <1>7, <1>9 DEF IndexedRight
  <2>2. m \in 0 .. MaxLevel
    OBVIOUS
  <2>3. CASE j = i
    BY <2>3, <1>1, <1>4
  <2>4. CASE j # i
    BY <2>1, <2>2, <2>4, <1>4
  <2> QED BY <2>3, <2>4
<1> QED
  BY <1>6, <1>7, <1>8, <1>9

LEMMA CommitToPlaneKeeps ==
  ASSUME IInv, NEW i \in Index, CommitToPlane(i)
  PROVE  IInv' /\ Committed(obj, obj', level, i)
<1> DEFINE L == level
           op == obj[level][i]
           below == obj[level - 1][i]
           h2 == [n \in Name |-> IF op.live /\ op.name = n THEN <<L - 1, i>> ELSE htab[n]]
           handed == [l \in 0 .. MaxLevel |-> [k \in Index |->
                       IF obj[l][k] = NoPatch THEN NoPatch
                       ELSE [obj[l][k] EXCEPT !.next = Moved(@, level, i)]]]
<1>1. /\ Good(obj, static, htab, list, L, "commit") /\ mode = "commit" /\ mode' = mode
      /\ level' = level /\ L > 1 /\ op # NoPatch /\ static' = static /\ list' = list
  BY DEF IInv, CommitToPlane
<1>2. /\ Typed(obj, static, htab, list, L, "commit")
      /\ ObjectsRight(obj, L) /\ GrownRight(obj, L) /\ FreshRight(obj, L, TRUE)
      /\ PlanesRight(obj, list, L, "commit")
      /\ HtabRight(obj, htab, L) /\ StaticRight(obj, static, FALSE)
  <2>1. Last1(L, "commit") = FALSE
    BY <1>1 DEF Last1
  <2> QED BY <1>1, <2>1 DEF Good
<1>3. /\ L \in 2 .. MaxLevel /\ L \in 1 .. MaxLevel /\ L \in 0 .. MaxLevel /\ L \in Level
      /\ L - 1 \in 0 .. MaxLevel /\ L \in 0 .. L /\ L # 0
      /\ obj \in Objects /\ htab \in [Name -> Pointer]
  BY <1>1, <1>2 DEF Typed, Level
<1>4. PatchRight(op, i)
  BY <1>1, <1>2, <1>3 DEF ObjectsRight, ObjectRight
<1>5. op.name \in Name /\ op.name # NoName
  BY <1>4 DEF PatchRight, Plain, Record
<1>6. handed = obj
  <2>1. ASSUME NEW l \in 0 .. MaxLevel, NEW k \in Index
        PROVE  (IF obj[l][k] = NoPatch THEN NoPatch
                ELSE [obj[l][k] EXCEPT !.next = Moved(@, level, i)]) = obj[l][k]
    <3> SUFFICES ASSUME obj[l][k] # NoPatch
                 PROVE  [obj[l][k] EXCEPT !.next = Moved(@, level, i)] = obj[l][k]
      OBVIOUS
    <3>1. Plain(obj[l][k])
      <4>1. ObjectRight(obj, L, k)
        BY <1>2 DEF ObjectsRight
      <4>2. l = 0 \/ l \in Level
        BY DEF Level
      <4> QED BY <4>1, <4>2 DEF ObjectRight, PatchRight
    <3>2. obj[l][k].next # <<level, i>>
      <4>1. \A x \in Down : x = Nil \/ x[1] = 0
        BY DEF Down
      <4>2. <<level, i>> # Nil /\ <<level, i>>[1] # 0
        BY <1>3 DEF Nil
      <4> QED BY <4>1, <4>2, <3>1 DEF Plain
    <3>3. Moved(obj[l][k].next, level, i) = obj[l][k].next
      BY <3>2 DEF Moved
    <3> QED BY <3>1, <3>3 DEF Plain, Record
  <2>2. handed = [l \in 0 .. MaxLevel |-> [k \in Index |-> obj[l][k]]]
    BY <2>1, Zenon
  <2>3. \A l \in 0 .. MaxLevel : obj[l] = [k \in Index |-> obj[l][k]]
    BY <1>3 DEF Objects
  <2>4. obj = [l \in 0 .. MaxLevel |-> obj[l]]
    BY <1>3 DEF Objects
  <2> HIDE DEF handed
  <2> QED BY <2>2, <2>3, <2>4
<1>7. obj' = [obj EXCEPT ![L - 1] = [@ EXCEPT ![i] = op], ![L] = [@ EXCEPT ![i] = NoPatch]]
  <2>1. \/ obj' = [handed EXCEPT ![L - 1][i] = handed[L][i], ![L][i] = NoPatch]
        \/ obj' = [obj EXCEPT ![L - 1][i] = op, ![L][i] = NoPatch]
    BY Zenon DEF CommitToPlane, Copied
  <2> HIDE DEF handed
  <2> QED BY <2>1, <1>6
<1>8. htab' = h2
  <2>1. htab' = IF below = NoPatch
                  THEN [n \in Name |-> Moved(htab[n], level, i)]
                  ELSE IF op.name # NoName /\ op.live
                         THEN [htab EXCEPT ![op.name] = <<level - 1, i>>] ELSE htab
    BY DEF CommitToPlane
  <2>2. TopLevel(obj, L, i) = L /\ Top(obj, L, i) = op
    BY <1>1, <1>3, TopStep
  <2>3. ASSUME NEW n \in Name
        PROVE  htab[n] = <<L, i>> <=> op.live /\ op.name = n
    <3>1. ASSUME htab[n] = <<L, i>>
          PROVE  op.live /\ op.name = n
      <4>1. PICK j \in Index : /\ htab[n] = <<TopLevel(obj, L, j), j>>
                               /\ Top(obj, L, j).live /\ Top(obj, L, j).name = n
        BY <3>1, <1>2 DEF HtabRight, Nil
      <4>2. j = i
        BY <3>1, <4>1
      <4> QED BY <4>1, <4>2, <2>2
    <3>2. ASSUME op.live, op.name = n
          PROVE  htab[n] = <<L, i>>
      BY <3>2, <2>2, <1>2, <1>3 DEF HtabRight
    <3> QED BY <3>1, <3>2
  <2>4. CASE below = NoPatch
    <3>1. \A n \in Name : Moved(htab[n], L, i) = h2[n]
      BY <2>3 DEF Moved
    <3> QED BY <3>1, <2>1, <2>4
  <2>5. CASE below # NoPatch
    BY <2>1, <2>5, <1>3, <1>5
  <2> QED BY <2>4, <2>5
<1> HIDE DEF h2, L
<1>9. /\ Committed(obj, obj', L, i) /\ ObjectsRight(obj', L) /\ obj'[0] = obj[0]
      /\ \A h : IndexedRight(obj, L, h) => IndexedRight(obj', L, h)
  <2>1. /\ L \in 2 .. MaxLevel /\ obj \in Objects /\ ObjectsRight(obj, L)
        /\ obj[L][i] # NoPatch
        /\ HandedTo(obj, obj', L, i)
    BY <1>1, <1>2, <1>3, <1>7 DEF L, HandedTo
  <2> QED BY <2>1, HandedDown
<1>10. GrownRight(obj', L) /\ FreshRight(obj', L, TRUE)
  BY <1>2, <1>3, <1>9, CommittedGrown, CommittedFresh
<1>11. PlanesRight(obj', list, L, "commit")
  BY <1>2, <1>3, <1>9, CommittedPlanes
<1>12. HtabRight(obj', h2, L)
  <2>1. \A j \in Index : Top(obj, L, j).live => Top(obj, L, j).name \in Name
    BY <1>2, <1>3, LiveNamed
  <2>2. \A n \in Name : h2[n] = IF obj[L][i].live /\ obj[L][i].name = n
                                  THEN <<L - 1, i>> ELSE htab[n]
    BY DEF h2, L
  <2> QED BY <2>1, <2>2, <1>2, <1>3, <1>9, CommittedHtab
<1>13. StaticRight(obj', static, FALSE)
  BY <1>2, <1>9 DEF StaticRight
<1>14. Typed(obj', static, h2, list, L, "commit")
  <2>1. <<L - 1, i>> \in Pointer
    BY <1>3 DEF Pointer
  <2>2. h2 \in [Name -> Pointer]
    BY <2>1, <1>3 DEF h2
  <2>3. obj' \in Objects
    BY <1>9 DEF Committed
  <2> QED BY <2>2, <2>3, <1>2 DEF Typed
<1>15. Good(obj', static, h2, list, L, "commit")
  <2>1. Last1(L, "commit") = FALSE
    BY <1>3 DEF Last1
  <2> QED BY <2>1, <1>9, <1>10, <1>11, <1>12, <1>13, <1>14 DEF Good
<1> QED
  BY <1>1, <1>8, <1>9, <1>15 DEF IInv, L

-----------------------------------------------------------------------------
(* The patches of the lowest plane are committed to the table *)

\* The patch of i is about to be copied to the table.
Ready(o, s, i) ==
  /\ ObjectsRight(o, 1) /\ GrownRight(o, 1)
  /\ Unique(View(o, 1))
  /\ StaticRight(o, s, TRUE)
  /\ o[1][i] # NoPatch

\* It has been, and the records of others have the links that they had.
Stored(o, q, i) ==
  /\ q[1][i] = NoPatch
  /\ \A j \in Index : j # i => q[1][j] = o[1][j]
  /\ q[0][i].name = o[1][i].name /\ q[0][i].live = o[1][i].live

Others(o, q, i) == \A j \in Index : j # i => q[0][j] = o[0][j]

LEMMA ReadyIs ==
  ASSUME 1 <= MaxLevel, NEW o, NEW s, NEW i \in Index, Ready(o, s, i)
  PROVE  /\ \A j \in Index : /\ o[0][j].live => o[0][j].name \in Name
                             /\ o[0][j].live \in BOOLEAN
         /\ o[1][i].name \in Name /\ o[1][i].live \in BOOLEAN
         /\ o[1][i].live => o[1][i].next = Nil
         /\ o[0][i].name # NoName => o[1][i].name = o[0][i].name
         /\ o[0][i].name # NoName /\ ~o[0][i].live => ~o[1][i].live
         /\ o[0][i].name = NoName => ~o[0][i].live
         /\ o[1][i].live =>
              \A j \in Index : j # i /\ o[0][j].live /\ o[0][j].name = o[1][i].name =>
                o[1][j] # NoPatch /\ ~o[1][j].live
<1>1. 1 \in Level /\ 1 \in 0 .. MaxLevel /\ 1 \in 0 .. 1 /\ 0 \in 0 .. 1 /\ 1 \in Nat
  BY DEF Level
<1>2. \A j \in Index : /\ Plain(o[0][j])
                       /\ o[1][j] # NoPatch => PatchRight(o[1][j], j)
  BY <1>1 DEF Ready, ObjectsRight, ObjectRight
<1>3. \A j \in Index : /\ Top(o, 0, j) = o[0][j]
                       /\ Top(o, 1, j) = IF o[1][j] = NoPatch THEN o[0][j] ELSE o[1][j]
  <2> TAKE j \in Index
  <2>1. Top(o, 0, j) = o[0][j]
    BY TopOfTable
  <2>2. 1 - 1 = 0 /\ 1 # 0
    OBVIOUS
  <2>3. o[1][j] # NoPatch => Top(o, 1, j) = o[1][j]
    BY <1>1, TopStep
  <2>4. o[1][j] = NoPatch => Top(o, 1, j) = Top(o, 0, j)
    BY <1>1, <2>2, TopStep
  <2> QED BY <2>1, <2>3, <2>4
<1>4. \A j \in Index : /\ o[0][j].live => o[0][j].name \in Name
                       /\ o[0][j].live \in BOOLEAN
                       /\ o[0][j].name = NoName => ~o[0][j].live
  BY <1>2 DEF Plain, Record
<1>5. /\ o[1][i].name \in Name /\ o[1][i].live \in BOOLEAN
      /\ o[1][i].live => o[1][i].next = Nil
  BY <1>2 DEF Ready, PatchRight, Plain, Record
<1>6. \A j \in Index : o[1][j] # NoPatch => Grows(o[0][j], o[1][j])
  <2> SUFFICES ASSUME NEW j \in Index, o[1][j] # NoPatch  PROVE Grows(o[0][j], o[1][j])
    OBVIOUS
  <2>1. Grows(Top(o, 0, j), Top(o, 1, j))
    BY <1>1 DEF Ready, GrownRight
  <2> QED BY <2>1, <1>3
<1>7. ASSUME o[1][i].live, NEW j \in Index, j # i, o[0][j].live, o[0][j].name = o[1][i].name
      PROVE  o[1][j] # NoPatch /\ ~o[1][j].live
  <2>1. Top(o, 1, i) = o[1][i]
    BY <1>3 DEF Ready
  <2>2. ~(Top(o, 1, j).live /\ Top(o, 1, j).name = Top(o, 1, i).name)
    <3>1. \A k \in Index : View(o, 1)[k] = Top(o, 1, k)
      BY DEF View
    <3> QED BY <3>1, <2>1, <1>7 DEF Ready, Unique
  <2>3. o[1][j] # NoPatch
    BY <2>1, <2>2, <1>3, <1>7
  <2>4. o[1][j].name = o[0][j].name
    BY <2>3, <1>4, <1>6, <1>7 DEF Grows
  <2> QED BY <2>1, <2>2, <2>3, <2>4, <1>3, <1>7
<1>8. o[1][i] # NoPatch
  BY DEF Ready
<1> QED
  BY <1>4, <1>5, <1>6, <1>7, <1>8 DEF Grows

\* An object compiled on the plane goes in front of the chain of its name, which
\* then has it only, or also a destructed one with a patch.
LEMMA CompiledObject ==
  ASSUME 1 <= MaxLevel, NEW o, NEW s \in [Name -> Pointer], NEW i \in Index, Ready(o, s, i),
         NEW q, Stored(o, q, i), Others(o, q, i),
         o[1][i].live, o[0][i].name = NoName, q[0][i].next = s[o[1][i].name]
  PROVE  StaticRight(q, [s EXCEPT ![o[1][i].name] = <<0, i>>], TRUE)
<1> DEFINE name == o[1][i].name
           s2 == [s EXCEPT ![name] = <<0, i>>]
<1>1. /\ \A j \in Index : o[0][j].live => o[0][j].name \in Name
      /\ name \in Name /\ ~o[0][i].live
      /\ \A j \in Index : j # i /\ o[0][j].live /\ o[0][j].name = name =>
           o[1][j] # NoPatch /\ ~o[1][j].live
      /\ q[0][i].name = name /\ q[0][i].live /\ q[0][i].next = s[name] /\ q[1][i] = NoPatch
      /\ \A j \in Index : j # i => q[1][j] = o[1][j] /\ q[0][j] = o[0][j]
      /\ StaticRight(o, s, TRUE)
  <2> USE ReadyIs
  <2> QED BY DEF Stored, Others, Ready
<1>2. /\ s2[name] = <<0, i>>
      /\ \A n \in Name : n # name => s2[n] = s[n]
  BY <1>1
<1> HIDE DEF name, s2
<1>3. ASSUME NEW j \in Index, o[0][j].live, o[0][j].name = name
      PROVE  /\ s[name] = <<0, j>> /\ Chained(q, i, j)
  <2>1. j # i /\ o[1][j] # NoPatch /\ ~o[1][j].live
    BY <1>1, <1>3
  <2>2. PICK k \in Index : s[name] = <<0, k>> /\ (k = j \/ Chained(o, k, j))
    BY <1>1, <1>3 DEF StaticRight
  <2>3. s[name] # Nil
    BY <2>2 DEF Nil
  <2>4. o[0][k].live /\ o[0][k].name = name
    <3>1. PICK k2 \in Index : s[name] = <<0, k2>> /\ o[0][k2].live /\ o[0][k2].name = name
      BY <2>3, <1>1 DEF StaticRight
    <3> QED BY <3>1, <2>2
  <2>5. o[1][k] # NoPatch
    BY <2>4, <1>1
  <2>6. k = j
    BY <2>2, <2>5 DEF Chained
  <2>7. o[0][j].next = Nil
    <3> SUFFICES ASSUME o[0][j].next # Nil  PROVE FALSE
      OBVIOUS
    <3>1. PICK m \in Index : Chained(o, j, m)
      BY <1>1, <1>3 DEF StaticRight
    <3> QED BY <3>1, <2>1 DEF Chained
  <2>8. q[0][i].next = <<0, j>> /\ q[0][j] = o[0][j] /\ q[1][j] = o[1][j]
    BY <2>1, <2>2, <2>6, <1>1
  <2> QED BY <2>1, <2>2, <2>6, <2>7, <2>8, <1>1, <1>3 DEF Chained
<1>4. ASSUME NEW j \in Index, NEW k \in Index, Chained(o, j, k), o[0][j].live
      PROVE  Chained(q, j, k) /\ o[0][j].name # name
  <2>1. j # i /\ k # i
    BY <1>1, <1>4 DEF Chained
  <2>2. o[0][j].name # name
    BY <2>1, <1>1, <1>4 DEF Chained
  <2> QED BY <2>1, <2>2, <1>1, <1>4 DEF Chained
<1>5. ASSUME NEW n \in Name, s2[n] # Nil
      PROVE  \E j \in Index : s2[n] = <<0, j>> /\ q[0][j].live /\ q[0][j].name = n
  <2>1. CASE n = name
    BY <2>1, <1>1, <1>2
  <2>2. CASE n # name
    <3>1. PICK j \in Index : s[n] = <<0, j>> /\ o[0][j].live /\ o[0][j].name = n
      BY <2>2, <1>1, <1>2, <1>5 DEF StaticRight
    <3> QED BY <3>1, <2>2, <1>1, <1>2
  <2> QED BY <2>1, <2>2
<1>6. ASSUME NEW k \in Index, q[0][k].live
      PROVE  \E j \in Index :
               s2[q[0][k].name] = <<0, j>> /\ (j = k \/ (TRUE /\ Chained(q, j, k)))
  <2>1. CASE k = i
    BY <2>1, <1>1, <1>2
  <2>2. CASE k # i /\ o[0][k].name = name
    <3>1. Chained(q, i, k) /\ q[0][k] = o[0][k]
      BY <2>2, <1>1, <1>3, <1>6
    <3> QED BY <3>1, <2>2, <1>2
  <2>3. CASE k # i /\ o[0][k].name # name
    <3>1. q[0][k] = o[0][k]
      BY <2>3, <1>1
    <3>2. PICK j \in Index : s[o[0][k].name] = <<0, j>> /\ (j = k \/ Chained(o, j, k))
      BY <3>1, <1>1, <1>6 DEF StaticRight
    <3>3. o[0][k].name \in Name /\ s2[o[0][k].name] = s[o[0][k].name]
      BY <3>1, <2>3, <1>1, <1>2, <1>6
    <3>4. j # k => Chained(q, j, k)
      <4> SUFFICES ASSUME j # k  PROVE Chained(q, j, k)
        OBVIOUS
      <4>1. s[o[0][k].name] # Nil
        BY <3>2 DEF Nil
      <4>2. PICK j2 \in Index : s[o[0][k].name] = <<0, j2>> /\ o[0][j2].live
        BY <4>1, <3>3, <1>1 DEF StaticRight
      <4>3. o[0][j].live
        BY <4>2, <3>2
      <4> QED BY <4>3, <3>2, <1>4
    <3> QED BY <3>1, <3>2, <3>3, <3>4
  <2> QED BY <2>1, <2>2, <2>3
<1>7. ASSUME NEW j \in Index, q[0][j].live, q[0][j].next # Nil
      PROVE  /\ s2[q[0][j].name] = <<0, j>>
             /\ \E k \in Index : Chained(q, j, k)
  <2>1. CASE j = i
    <3>1. PICK k \in Index : o[0][k].live /\ o[0][k].name = name
      BY <2>1, <1>1, <1>7 DEF StaticRight
    <3> QED BY <3>1, <2>1, <1>1, <1>2, <1>3
  <2>2. CASE j # i
    <3>1. q[0][j] = o[0][j]
      BY <2>2, <1>1
    <3>2. s[o[0][j].name] = <<0, j>>
      BY <3>1, <1>1, <1>7 DEF StaticRight
    <3>3. PICK k \in Index : Chained(o, j, k)
      BY <3>1, <1>1, <1>7 DEF StaticRight
    <3>4. Chained(q, j, k) /\ o[0][j].name # name
      BY <3>1, <3>3, <1>4, <1>7
    <3>5. o[0][j].name \in Name
      BY <3>1, <1>1, <1>7
    <3> QED BY <3>1, <3>2, <3>4, <3>5, <1>2
  <2> QED BY <2>1, <2>2
<1>8. StaticRight(q, s2, TRUE)
  BY <1>5, <1>6, <1>7 DEF StaticRight
<1> QED
  BY <1>8 DEF s2, name

\* An object of the table that is as live as it was keeps its place.
LEMMA UpdatedObject ==
  ASSUME 1 <= MaxLevel, NEW o, NEW s, NEW i \in Index, Ready(o, s, i),
         NEW q, Stored(o, q, i), Others(o, q, i),
         o[0][i].live \/ ~o[1][i].live, o[0][i].live => o[1][i].live,
         o[0][i].live => q[0][i].next = o[0][i].next
  PROVE  StaticRight(q, s, TRUE)
<1>1. /\ q[0][i].live <=> o[0][i].live
      /\ o[0][i].live => q[0][i].name = o[0][i].name /\ q[0][i].next = o[0][i].next
      /\ o[1][i] # NoPatch
      /\ \A j \in Index : j # i => q[1][j] = o[1][j] /\ q[0][j] = o[0][j]
      /\ StaticRight(o, s, TRUE)
  BY ReadyIs DEF Stored, Others, Ready
<1>2. ASSUME NEW j \in Index, NEW k \in Index, Chained(o, j, k)
      PROVE  Chained(q, j, k)
  <2>1. j # i /\ k # i
    BY <1>1, <1>2 DEF Chained
  <2> QED BY <2>1, <1>1, <1>2 DEF Chained
<1>3. ASSUME NEW j \in Index
      PROVE  /\ q[0][j].live <=> o[0][j].live
             /\ o[0][j].live => q[0][j].name = o[0][j].name /\ q[0][j].next = o[0][j].next
  BY <1>1
<1>4. ASSUME NEW n \in Name, s[n] # Nil
      PROVE  \E j \in Index : s[n] = <<0, j>> /\ q[0][j].live /\ q[0][j].name = n
  <2>1. PICK j \in Index : s[n] = <<0, j>> /\ o[0][j].live /\ o[0][j].name = n
    BY <1>1, <1>4 DEF StaticRight
  <2> QED BY <2>1, <1>3
<1>5. ASSUME NEW k \in Index, q[0][k].live
      PROVE  \E j \in Index :
               s[q[0][k].name] = <<0, j>> /\ (j = k \/ (TRUE /\ Chained(q, j, k)))
  <2>1. o[0][k].live /\ q[0][k].name = o[0][k].name
    BY <1>3, <1>5
  <2>2. PICK j \in Index : s[o[0][k].name] = <<0, j>> /\ (j = k \/ Chained(o, j, k))
    BY <2>1, <1>1 DEF StaticRight
  <2> QED BY <2>1, <2>2, <1>2
<1>6. ASSUME NEW j \in Index, q[0][j].live, q[0][j].next # Nil
      PROVE  s[q[0][j].name] = <<0, j>> /\ \E k \in Index : Chained(q, j, k)
  <2>1. o[0][j].live /\ q[0][j].name = o[0][j].name /\ o[0][j].next # Nil
    BY <1>3, <1>6
  <2>2. s[o[0][j].name] = <<0, j>> /\ \E k \in Index : Chained(o, j, k)
    BY <2>1, <1>1 DEF StaticRight
  <2> QED BY <2>1, <2>2, <1>2
<1> QED
  BY <1>4, <1>5, <1>6 DEF StaticRight

\* The head of a chain is destructed.
LEMMA DestructedHead ==
  ASSUME 1 <= MaxLevel, NEW o, NEW s \in [Name -> Pointer], NEW i \in Index, Ready(o, s, i),
         NEW q, Stored(o, q, i), Others(o, q, i),
         ~o[1][i].live, o[0][i].live, s[o[0][i].name] = <<0, i>>
  PROVE  /\ o[0][i].next = Nil
         /\ StaticRight(q, [s EXCEPT ![o[0][i].name] = Nil], TRUE)
<1> DEFINE name == o[0][i].name
           s2 == [s EXCEPT ![name] = Nil]
<1>1. /\ \A j \in Index : o[0][j].live => o[0][j].name \in Name
      /\ name \in Name
      /\ ~q[0][i].live
      /\ o[1][i] # NoPatch /\ s[name] = <<0, i>>
      /\ \A j \in Index : j # i => q[1][j] = o[1][j] /\ q[0][j] = o[0][j]
      /\ StaticRight(o, s, TRUE)
  BY ReadyIs DEF Stored, Others, Ready
<1>2. /\ s2[name] = Nil
      /\ \A n \in Name : n # name => s2[n] = s[n]
  BY <1>1
<1>3. o[0][i].next = Nil
  <2> SUFFICES ASSUME o[0][i].next # Nil  PROVE FALSE
    OBVIOUS
  <2>1. PICK k \in Index : Chained(o, i, k)
    BY <1>1 DEF StaticRight
  <2> QED BY <2>1, <1>1 DEF Chained
<1>4. o[0][i].name = name
  OBVIOUS
<1> HIDE DEF name, s2
<1>5. ASSUME NEW j \in Index, NEW k \in Index, Chained(o, j, k), o[0][j].name # name
      PROVE  Chained(q, j, k)
  <2>1. j # i /\ k # i
    BY <1>1, <1>4, <1>5 DEF Chained
  <2> QED BY <2>1, <1>1, <1>5 DEF Chained
<1>6. ASSUME NEW k \in Index, k # i, o[0][k].live
      PROVE  /\ o[0][k].name # name
             /\ \E j \in Index : s[o[0][k].name] = <<0, j>> /\ (j = k \/ Chained(o, j, k))
  <2>1. PICK j \in Index : s[o[0][k].name] = <<0, j>> /\ (j = k \/ Chained(o, j, k))
    BY <1>1, <1>6 DEF StaticRight
  <2>2. j # i
    BY <2>1, <1>1, <1>6 DEF Chained
  <2> QED BY <2>1, <2>2, <1>1
<1>7. ASSUME NEW n \in Name, s2[n] # Nil
      PROVE  \E j \in Index : s2[n] = <<0, j>> /\ q[0][j].live /\ q[0][j].name = n
  <2>1. n # name
    BY <1>2, <1>7
  <2>2. PICK j \in Index : s[n] = <<0, j>> /\ o[0][j].live /\ o[0][j].name = n
    BY <2>1, <1>1, <1>2, <1>7 DEF StaticRight
  <2> QED BY <2>1, <2>2, <1>1, <1>2, <1>4
<1>8. ASSUME NEW k \in Index, q[0][k].live
      PROVE  \E j \in Index :
               s2[q[0][k].name] = <<0, j>> /\ (j = k \/ (TRUE /\ Chained(q, j, k)))
  <2>1. k # i /\ q[0][k] = o[0][k] /\ o[0][k].live /\ o[0][k].name \in Name
    BY <1>1, <1>8
  <2>2. /\ o[0][k].name # name
        /\ \E j \in Index : s[o[0][k].name] = <<0, j>> /\ (j = k \/ Chained(o, j, k))
    BY <2>1, <1>6
  <2>3. PICK j \in Index : s[o[0][k].name] = <<0, j>> /\ (j = k \/ Chained(o, j, k))
    BY <2>2
  <2>4. j # k => Chained(q, j, k)
    <3> SUFFICES ASSUME Chained(o, j, k)  PROVE Chained(q, j, k)
      BY <2>3
    <3>1. o[0][j].name # name
      BY <2>2 DEF Chained
    <3> QED BY <3>1, <1>5
  <2> QED BY <2>1, <2>2, <2>3, <2>4, <1>2
<1>9. ASSUME NEW j \in Index, q[0][j].live, q[0][j].next # Nil
      PROVE  s2[q[0][j].name] = <<0, j>> /\ \E k \in Index : Chained(q, j, k)
  <2>1. j # i /\ q[0][j] = o[0][j] /\ o[0][j].live /\ o[0][j].name \in Name
    BY <1>1, <1>9
  <2>2. s[o[0][j].name] = <<0, j>> /\ \E k \in Index : Chained(o, j, k)
    BY <2>1, <1>1, <1>9 DEF StaticRight
  <2>3. o[0][j].name # name
    BY <2>1, <1>6
  <2> QED BY <2>1, <2>2, <2>3, <1>2, <1>5
<1>10. StaticRight(q, s2, TRUE)
  BY <1>7, <1>8, <1>9 DEF StaticRight
<1> QED
  BY <1>3, <1>10 DEF s2, name

\* The chain of the object j no longer goes on to i.
Cut(o, q, i, j) ==
  /\ \A k \in Index : k # i /\ k # j => q[0][k] = o[0][k]
  /\ q[0][j].name = o[0][j].name /\ q[0][j].live = o[0][j].live
  /\ q[0][j].next = Nil

\* An object is destructed that another has taken the name of: the chain goes
\* past it.
LEMMA DestructedSecond ==
  ASSUME 1 <= MaxLevel, NEW o, NEW s, NEW i \in Index, Ready(o, s, i),
         ~o[1][i].live, o[0][i].live, s[o[0][i].name] # <<0, i>>
  PROVE  \E j \in Index :
           /\ s[o[0][i].name] = <<0, j>> /\ j # i /\ o[0][i].next = Nil
           /\ \A q : Stored(o, q, i) /\ Cut(o, q, i, j) => StaticRight(q, s, TRUE)
<1> DEFINE name == o[0][i].name
<1>1. /\ \A j \in Index : o[0][j].live => o[0][j].name \in Name
      /\ name \in Name /\ s[name] # <<0, i>> /\ o[0][i].live
      /\ o[1][i] # NoPatch
      /\ StaticRight(o, s, TRUE)
  BY ReadyIs DEF Ready
<1>2. PICK j \in Index : s[name] = <<0, j>> /\ Chained(o, j, i)
  BY <1>1 DEF StaticRight
<1>3. /\ j # i /\ o[0][i].next = Nil /\ o[0][j].next = <<0, i>>
      /\ o[0][j].name = name
  BY <1>2, <1>1 DEF Chained, Nil
<1> HIDE DEF name
<1> SUFFICES ASSUME NEW q, Stored(o, q, i),
                    \A k \in Index : k # i /\ k # j => q[0][k] = o[0][k],
                    q[0][j].name = o[0][j].name, q[0][j].live = o[0][j].live,
                    q[0][j].next = Nil
             PROVE  StaticRight(q, s, TRUE)
  BY <1>2, <1>3 DEF name, Cut
<1>4. /\ \A k \in Index : k # i => /\ q[1][k] = o[1][k]
                                   /\ q[0][k].live = o[0][k].live
                                   /\ q[0][k].name = o[0][k].name
      /\ ~q[0][i].live
  BY DEF Stored
<1>5. ASSUME NEW m \in Index, NEW k \in Index, Chained(o, m, k), k # i
      PROVE  Chained(q, m, k)
  <2>1. m # i
    BY <1>1, <1>5 DEF Chained
  <2>2. m # j /\ k # j
    BY <1>2, <1>3, <1>5 DEF Chained, Nil
  <2> QED BY <2>1, <2>2, <1>4, <1>5 DEF Chained
<1>6. ASSUME NEW n \in Name, s[n] # Nil
      PROVE  \E k \in Index : s[n] = <<0, k>> /\ q[0][k].live /\ q[0][k].name = n
  <2>1. PICK k \in Index : s[n] = <<0, k>> /\ o[0][k].live /\ o[0][k].name = n
    BY <1>1, <1>6 DEF StaticRight
  <2>2. k # i
    BY <2>1, <1>1 DEF name
  <2> QED BY <2>1, <2>2, <1>4
<1>7. ASSUME NEW k \in Index, q[0][k].live
      PROVE  \E m \in Index :
               s[q[0][k].name] = <<0, m>> /\ (m = k \/ (TRUE /\ Chained(q, m, k)))
  <2>1. k # i /\ o[0][k].live /\ q[0][k].name = o[0][k].name
    BY <1>4, <1>7
  <2>2. PICK m \in Index : s[o[0][k].name] = <<0, m>> /\ (m = k \/ Chained(o, m, k))
    BY <2>1, <1>1 DEF StaticRight
  <2> QED BY <2>1, <2>2, <1>5
<1>8. ASSUME NEW k \in Index, q[0][k].live, q[0][k].next # Nil
      PROVE  s[q[0][k].name] = <<0, k>> /\ \E m \in Index : Chained(q, k, m)
  <2>1. k # i /\ k # j /\ q[0][k] = o[0][k]
    BY <1>4, <1>8
  <2>2. s[o[0][k].name] = <<0, k>>
    BY <2>1, <1>1, <1>8 DEF StaticRight
  <2>3. PICK m \in Index : Chained(o, k, m)
    BY <2>1, <1>1, <1>8 DEF StaticRight
  <2>4. m # i
    <3> SUFFICES ASSUME m = i  PROVE FALSE
      OBVIOUS
    <3>1. o[0][k].name = name
      BY <2>3 DEF Chained, name
    <3> QED BY <3>1, <2>1, <2>2, <1>2
  <2> QED BY <2>1, <2>2, <2>3, <2>4, <1>5
<1> QED
  BY <1>6, <1>7, <1>8 DEF StaticRight

\* The patch of i has been copied to the table with the link next; a chain may
\* have been cut.
CopiedToTable(o, q, i, next) ==
  /\ o[1][i] # NoPatch
  /\ next \in Down
  /\ ~o[1][i].live => next = o[1][i].next
  /\ q[0][i] = [o[1][i] EXCEPT !.next = next]
  /\ q[1][i] = NoPatch
  /\ \A j \in Index : j # i => q[1][j] = o[1][j]
  /\ \A j \in Index : j # i =>
       \/ q[0][j] = o[0][j]
       \/ o[0][j].live /\ q[0][j] = [o[0][j] EXCEPT !.next = Nil]
  /\ \A m \in 2 .. MaxLevel : q[m] = o[m]
  /\ DOMAIN q = 0 .. MaxLevel
  /\ \A m \in 0 .. 1 : q[m] = [j \in Index |-> q[m][j]]

LEMMA CopiedIs ==
  ASSUME 1 <= MaxLevel, NEW o \in Objects, ObjectsRight(o, 1), NEW i \in Index, NEW next,
         NEW q, q = [m \in 0 .. MaxLevel |-> q[m]], CopiedToTable(o, q, i, next)
  PROVE  /\ Committed(o, q, 1, i) /\ ObjectsRight(q, 1) /\ Stored(o, q, i)
         /\ \A h : IndexedRight(o, 1, h) => IndexedRight(q, 1, h)
<1>1. /\ 1 \in Level /\ 0 \in 0 .. MaxLevel /\ 1 \in 0 .. MaxLevel /\ 1 - 1 = 0 /\ 1 <= 1
      /\ \A m \in 0 .. MaxLevel : m = 0 \/ m = 1 \/ m \in 2 .. MaxLevel
      /\ \A m \in Level : m = 1 \/ (m \in 2 .. MaxLevel /\ ~(m <= 1))
  BY DEF Level
<1>2. \A j \in Index : /\ Plain(o[0][j])
                       /\ o[0][j].name # NoName => o[0][j].index = j
                       /\ o[1][j] # NoPatch => PatchRight(o[1][j], j)
                       /\ o[1][j] # NoPatch => o[0][j].index \in {j, NoIndex}
                       /\ \A m \in 2 .. MaxLevel : o[m][j] = NoPatch
  <2> TAKE j \in Index
  <2>1. ObjectRight(o, 1, j)
    BY DEF ObjectsRight
  <2>2. \A m \in 2 .. MaxLevel : m \in Level /\ ~(m <= 1)
    BY DEF Level
  <2> QED BY <1>1, <2>1, <2>2 DEF ObjectRight
<1>3. /\ PatchRight(o[1][i], i) /\ o[1][i] \in Record
  BY <1>2 DEF CopiedToTable, PatchRight, Plain
<1>4. next \in Pointer
  <2>1. {0} \X Index \subseteq (0 .. MaxLevel) \X Index
    BY <1>1
  <2> QED BY <2>1 DEF CopiedToTable, Pointer, Down
<1>5. /\ q[0][i] \in Record /\ Agree(o[1][i], q[0][i])
      /\ q[0][i].next = next /\ q[0][i].index = i /\ q[0][i].live = o[1][i].live
      /\ q[0][i].name = o[1][i].name /\ q[0][i].kept = o[1][i].kept
  BY <1>3, <1>4 DEF CopiedToTable, Record, Agree, PatchRight
<1>6. Plain(q[0][i])
  BY <1>3, <1>5 DEF PatchRight, Plain, CopiedToTable
<1>7. ASSUME NEW j \in Index, j # i
      PROVE  /\ Plain(q[0][j]) /\ Agree(o[0][j], q[0][j])
             /\ q[0][j].index = o[0][j].index /\ q[0][j].name = o[0][j].name
             /\ q[0][j].live = o[0][j].live
  <2>1. CASE q[0][j] = o[0][j]
    BY <2>1, <1>2, AgreeSelf
  <2>2. CASE o[0][j].live /\ q[0][j] = [o[0][j] EXCEPT !.next = Nil]
    <3>1. Plain(o[0][j])
      BY <1>2
    <3>2. Nil \in Pointer /\ Nil \in Down
      BY DEF Pointer, Down
    <3>3. /\ q[0][j] \in Record /\ q[0][j].next = Nil
          /\ q[0][j].index = o[0][j].index /\ q[0][j].name = o[0][j].name
          /\ q[0][j].live = o[0][j].live /\ q[0][j].kept = o[0][j].kept
          /\ q[0][j].prev = o[0][j].prev /\ q[0][j].cref = o[0][j].cref
      BY ZenonT(120), <2>2, <3>1, <3>2 DEF Plain, Record
    <3> QED BY <2>2, <3>1, <3>2, <3>3 DEF Plain, Agree
  <2> QED BY <2>1, <2>2, <1>7 DEF CopiedToTable
<1>8. q \in Objects
  <2>1. \A j \in Index : q[0][j] \in Record \cup {NoPatch}
    BY <1>6, <1>7 DEF Plain
  <2>2. \A j \in Index : q[1][j] \in Record \cup {NoPatch}
    <3>1. \A j \in Index : o[1][j] \in Record \cup {NoPatch}
      BY <1>1 DEF Objects
    <3>2. \A j \in Index : q[1][j] = NoPatch \/ q[1][j] = o[1][j]
      BY DEF CopiedToTable
    <3> QED BY <3>1, <3>2
  <2>3. q[0] \in [Index -> Record \cup {NoPatch}]
    BY <2>1, <1>1 DEF CopiedToTable
  <2>4. q[1] \in [Index -> Record \cup {NoPatch}]
    BY <2>2, <1>1 DEF CopiedToTable
  <2>5. \A m \in 2 .. MaxLevel : q[m] \in [Index -> Record \cup {NoPatch}]
    <3>1. \A m \in 2 .. MaxLevel : q[m] = o[m]
      BY DEF CopiedToTable
    <3>2. \A m \in 2 .. MaxLevel : m \in 0 .. MaxLevel
      OBVIOUS
    <3> QED BY <3>1, <3>2 DEF Objects
  <2>6. \A m \in 0 .. MaxLevel : q[m] \in [Index -> Record \cup {NoPatch}]
    BY <2>3, <2>4, <2>5, <1>1
  <2> QED BY <2>6 DEF Objects
<1>9. Committed(o, q, 1, i)
  <2>1. q[0][i] # NoPatch
    BY <1>5
  <2>2. ASSUME NEW m \in 0 .. MaxLevel, NEW j \in Index, (m # 1 /\ m # 1 - 1) \/ j # i
        PROVE  Agree(o[m][j], q[m][j]) /\ (q[m][j] = NoPatch <=> o[m][j] = NoPatch)
    <3>1. CASE m = 0
      <4>1. q[0][j] # NoPatch /\ o[0][j] # NoPatch
        BY <2>2, <3>1, <1>1, <1>2, <1>7 DEF Plain
      <4> QED BY <4>1, <2>2, <3>1, <1>1, <1>7
    <3>2. CASE m = 1
      <4>1. q[1][j] = o[1][j]
        BY <2>2, <3>2 DEF CopiedToTable
      <4> QED BY <4>1, <3>2, AgreeSelf
    <3>3. CASE m \in 2 .. MaxLevel
      <4>1. q[m][j] = o[m][j]
        BY <3>3 DEF CopiedToTable
      <4> QED BY <4>1, AgreeSelf
    <3> QED BY <3>1, <3>2, <3>3, <1>1
  <2>3. o[1][i] # NoPatch /\ q[1][i] = NoPatch
    BY DEF CopiedToTable
  <2> QED BY <2>1, <2>2, <2>3, <1>1, <1>5, <1>8 DEF Committed
<1>10. ObjectsRight(q, 1)
  <2> SUFFICES ASSUME NEW j \in Index  PROVE ObjectRight(q, 1, j)
    BY DEF ObjectsRight
  <2>1. Plain(q[0][j]) /\ (q[0][j].name # NoName => q[0][j].index = j)
    BY <1>2, <1>5, <1>6, <1>7
  <2>2. \A m \in 2 .. MaxLevel : q[m][j] = NoPatch
    <3>1. \A m \in 2 .. MaxLevel : q[m] = o[m]
      BY DEF CopiedToTable
    <3> QED BY <3>1, <1>2
  <2>3. q[1][j] # NoPatch =>
          PatchRight(q[1][j], j) /\ q[0][j].index \in {j, NoIndex}
    <3> SUFFICES ASSUME q[1][j] # NoPatch
                 PROVE  PatchRight(q[1][j], j) /\ q[0][j].index \in {j, NoIndex}
      OBVIOUS
    <3>1. j # i /\ q[1][j] = o[1][j]
      BY DEF CopiedToTable
    <3> QED BY <3>1, <1>2, <1>7
  <2>4. ASSUME NEW m \in Level, q[m][j] # NoPatch
        PROVE  m <= 1 /\ PatchRight(q[m][j], j) /\ q[0][j].index \in {j, NoIndex}
    BY <2>2, <2>3, <2>4, <1>1
  <2> QED BY <2>1, <2>4 DEF ObjectRight
<1>11. ASSUME NEW h, IndexedRight(o, 1, h)
       PROVE  IndexedRight(q, 1, h)
  <2> SUFFICES ASSUME NEW j \in Index, j < h.nobjects, q[0][j].index # j
               PROVE  \E m \in 1 .. 1 : q[m][j] # NoPatch
    BY DEF IndexedRight
  <2>1. j # i
    BY <1>5
  <2>2. PICK m \in 1 .. 1 : o[m][j] # NoPatch
    BY <2>1, <1>7, <1>11 DEF IndexedRight
  <2>3. m = 1
    OBVIOUS
  <2> QED BY <2>1, <2>2, <2>3 DEF CopiedToTable
<1>12. Stored(o, q, i)
  BY <1>5 DEF Stored, CopiedToTable
<1> QED
  BY <1>9, <1>10, <1>11, <1>12

LEMMA CommitToTableKeeps ==
  ASSUME IInv, NEW i \in Index, CommitToTable(i)
  PROVE  IInv' /\ Committed(obj, obj', level, i)
<1> DEFINE op == obj[1][i]
           o == obj[0][i]
           next == LinkCommitted(op, o)
           copied == [obj EXCEPT ![0][i] = [op EXCEPT !.next = next], ![1][i] = NoPatch]
<1>1. /\ Good(obj, static, htab, list, 1, "commit") /\ mode = "commit" /\ mode' = mode
      /\ level = 1 /\ level' = level /\ op # NoPatch /\ htab' = htab /\ list' = list
  BY DEF IInv, CommitToTable
<1>2. /\ Typed(obj, static, htab, list, 1, "commit")
      /\ ObjectsRight(obj, 1) /\ GrownRight(obj, 1) /\ FreshRight(obj, 1, TRUE)
      /\ PlanesRight(obj, list, 1, "commit")
      /\ StaticRight(obj, static, TRUE)
  <2>1. Last1(1, "commit") = TRUE
    BY DEF Last1
  <2> QED BY <1>1, <2>1 DEF Good
<1>3. /\ 1 \in 0 .. MaxLevel /\ 1 \in 1 .. MaxLevel /\ 1 <= MaxLevel /\ 1 \in 0 .. 1
      /\ 0 \in 0 .. MaxLevel /\ 1 \in Level
      /\ obj \in Objects /\ static \in [Name -> Pointer]
  BY <1>1, <1>2 DEF Typed, Level
<1>4. Ready(obj, static, i)
  <2>1. Settled(1, 1, "commit")
    BY DEF Settled
  <2>2. Unique(View(obj, 1))
    BY <2>1, <1>2, <1>3 DEF PlanesRight, PlaneRight
  <2> QED BY <2>2, <1>1, <1>2 DEF Ready
<1>5. /\ op.name \in Name /\ op.live \in BOOLEAN /\ o.live \in BOOLEAN
      /\ op.live => op.next = Nil
      /\ o.live => o.name \in Name /\ o.name # NoName
      /\ o.name # NoName => op.name = o.name
      /\ o.name # NoName /\ ~o.live => ~op.live
      /\ o.name = NoName => ~o.live
  BY <1>3, <1>4, ReadyIs
<1>6. Plain(o) /\ PatchRight(op, i)
  BY <1>1, <1>2, <1>3 DEF ObjectsRight, ObjectRight
<1>7. next \in Down /\ (~op.live => next = op.next)
  <2>1. \A n \in Name : static[n] \in Down
    <3> SUFFICES ASSUME NEW n \in Name, static[n] # Nil  PROVE static[n] \in Down
      BY DEF Down
    <3>1. PICK j \in Index : static[n] = <<0, j>>
      BY <1>2 DEF StaticRight
    <3> QED BY <3>1 DEF Down
  <2>2. o.next \in Down /\ op.next \in Down
    BY <1>6 DEF PatchRight, Plain
  <2> QED BY <2>1, <2>2, <1>5 DEF LinkCommitted
<1>8. /\ DOMAIN obj = 0 .. MaxLevel
      /\ obj[0] \in [Index -> Record \cup {NoPatch}]
      /\ obj[1] \in [Index -> Record \cup {NoPatch}]
  BY <1>3 DEF Objects
<1> HIDE DEF next
<1> DEFINE r == [op EXCEPT !.next = next]
<1>9. /\ copied = [obj EXCEPT ![0] = [@ EXCEPT ![i] = r], ![1] = [@ EXCEPT ![i] = NoPatch]]
  OBVIOUS
<1> HIDE DEF copied
<1>10. /\ copied[0] = [obj[0] EXCEPT ![i] = r]
       /\ copied[1] = [obj[1] EXCEPT ![i] = NoPatch]
       /\ \A m \in 2 .. MaxLevel : copied[m] = obj[m]
       /\ DOMAIN copied = 0 .. MaxLevel
       /\ copied = [m \in 0 .. MaxLevel |-> copied[m]]
  <2>1. 0 # 1 /\ \A m \in 2 .. MaxLevel : m # 0 /\ m # 1 /\ m \in 0 .. MaxLevel
    OBVIOUS
  <2> HIDE DEF r
  <2> QED BY <2>1, <1>3, <1>8, <1>9
<1>11. /\ copied[0][i] = r /\ copied[1][i] = NoPatch
       /\ \A j \in Index : j # i => copied[0][j] = obj[0][j] /\ copied[1][j] = obj[1][j]
       /\ copied[0] = [j \in Index |-> copied[0][j]]
       /\ copied[1] = [j \in Index |-> copied[1][j]]
  <2> HIDE DEF r
  <2> QED BY <1>8, <1>10
<1>12. CopiedToTable(obj, copied, i, next)
  <2>1. \A m \in 0 .. 1 : m = 0 \/ m = 1
    OBVIOUS
  <2>2. \A m \in 0 .. 1 : copied[m] = [j \in Index |-> copied[m][j]]
    BY <2>1, <1>11
  <2> QED BY <2>2, <1>1, <1>7, <1>10, <1>11, Zenon DEF CopiedToTable
<1>13. Stored(obj, copied, i) /\ Others(obj, copied, i)
  <2>1. Stored(obj, copied, i)
    BY <1>2, <1>3, <1>10, <1>12, CopiedIs
  <2> QED BY <2>1, <1>11 DEF Others
<1>14. copied[0][i].next = next
  BY <1>6, <1>11 DEF PatchRight, Plain, Record
<1> HIDE DEF r
<1>15. /\ CopiedToTable(obj, obj', i, next) /\ obj' = [m \in 0 .. MaxLevel |-> obj'[m]]
       /\ StaticRight(obj', static', TRUE) /\ static' \in [Name -> Pointer]
  <2>1. CASE op.live /\ o.name = NoName
    <3>1. static' = [static EXCEPT ![op.name] = <<0, i>>] /\ obj' = copied
      BY <2>1 DEF CommitToTable, copied, next, Destructs
    <3>2. next = static[op.name]
      BY <2>1 DEF LinkCommitted, next
    <3>3. StaticRight(copied, static', TRUE)
      BY <3>1, <3>2, <2>1, <1>3, <1>4, <1>13, <1>14, CompiledObject
    <3>4. <<0, i>> \in Pointer
      BY <1>3 DEF Pointer
    <3>5. static' \in [Name -> Pointer]
      BY <3>1, <3>4, <1>3
    <3> QED BY <3>1, <3>3, <3>5, <1>10, <1>12
  <2>2. CASE Destructs(op, o) /\ ~CompiledAnew(i, o.name)
    <3>1. static' = [static EXCEPT ![o.name] = o.next] /\ obj' = copied
      BY <2>2 DEF CommitToTable, copied, next, Destructs
    <3>2. ~op.live /\ o.live /\ static[o.name] = <<0, i>>
      BY <2>2 DEF Destructs, CompiledAnew
    <3>3. o.next = Nil /\ StaticRight(copied, [static EXCEPT ![o.name] = Nil], TRUE)
      BY <3>2, <1>3, <1>4, <1>13, DestructedHead
    <3>4. Nil \in Pointer
      BY DEF Pointer
    <3>5. static' \in [Name -> Pointer]
      BY <3>1, <3>3, <3>4, <1>3
    <3> QED BY <3>1, <3>3, <3>5, <1>10, <1>12
  <2>3. CASE Destructs(op, o) /\ CompiledAnew(i, o.name)
    <3>1. /\ obj' = [copied EXCEPT ![0][static[o.name][2]].next = o.next]
          /\ static' = static
      BY <2>3 DEF CommitToTable, copied, next, Destructs
    <3>2. ~op.live /\ o.live /\ static[o.name] # <<0, i>>
      BY <2>3 DEF Destructs, CompiledAnew
    <3>3. PICK j \in Index :
           /\ static[o.name] = <<0, j>> /\ j # i /\ o.next = Nil
           /\ \A q : Stored(obj, q, i) /\ Cut(obj, q, i, j) => StaticRight(q, static, TRUE)
      BY <3>2, <1>3, <1>4, DestructedSecond
    <3>4. obj' = [copied EXCEPT ![0][j].next = Nil]
      <4>1. static[o.name][2] = j
        BY <3>3
      <4> QED BY <3>1, <3>3, <4>1, Zenon
    <3>5. obj[0][j].live
      <4>1. PICK k \in Index : static[o.name] = <<0, k>> /\ obj[0][k].live
        <5>1. static[o.name] # Nil /\ o.name \in Name
          BY <3>2, <3>3, <1>5 DEF Nil
        <5> HIDE DEF o
        <5> QED BY <5>1, <1>2 DEF StaticRight
      <4> QED BY <4>1, <3>3
    <3>6. obj[0][j] \in Record
      BY <1>2 DEF ObjectsRight, ObjectRight, Plain
    <3>7. /\ obj'[0] = [copied[0] EXCEPT ![j].next = Nil]
          /\ \A m \in 1 .. MaxLevel : obj'[m] = copied[m]
          /\ obj' = [m \in 0 .. MaxLevel |-> obj'[m]] /\ DOMAIN obj' = 0 .. MaxLevel
      <4>1. 0 \in DOMAIN copied /\ \A m \in 1 .. MaxLevel : m # 0 /\ m \in DOMAIN copied
        BY <1>3, <1>10
      <4>2. /\ obj'[0] = [copied[0] EXCEPT ![j].next = Nil]
            /\ \A m \in 1 .. MaxLevel : obj'[m] = copied[m]
        BY <3>4, <4>1
      <4>3. obj' = [m \in DOMAIN copied |-> obj'[m]] /\ DOMAIN obj' = DOMAIN copied
        BY <3>4
      <4> QED BY <4>2, <4>3, <1>10
    <3>8. /\ obj'[0][j] = [obj[0][j] EXCEPT !.next = Nil]
          /\ \A k \in Index : k # j => obj'[0][k] = copied[0][k]
          /\ obj'[0] = [k \in Index |-> obj'[0][k]]
          /\ obj'[1] = copied[1]
      BY <3>3, <3>7, <1>3, <1>11
    <3>9. CopiedToTable(obj, obj', i, next)
      <4>1. \A m \in 0 .. 1 : m = 0 \/ m = 1
        OBVIOUS
      <4>2. \A m \in 0 .. 1 : obj'[m] = [k \in Index |-> obj'[m][k]]
        BY <4>1, <3>8, <1>11
      <4>3. \A m \in 2 .. MaxLevel : obj'[m] = obj[m]
        <5>1. \A m \in 2 .. MaxLevel : m \in 1 .. MaxLevel
          OBVIOUS
        <5> QED BY <5>1, <3>7, <1>10
      <4>4. \A k \in Index : k # i =>
              \/ obj'[0][k] = obj[0][k]
              \/ obj[0][k].live /\ obj'[0][k] = [obj[0][k] EXCEPT !.next = Nil]
        BY <3>5, <3>8, <1>11
      <4>5. obj'[0][i] = r /\ obj'[1][i] = NoPatch
        BY <3>3, <3>8, <1>11
      <4>6. \A k \in Index : k # i => obj'[1][k] = obj[1][k]
        BY <3>8, <1>11
      <4> QED
        BY <4>2, <4>3, <4>4, <4>5, <4>6, <3>7, <1>1, <1>7, Zenon DEF CopiedToTable, r
    <3>10. Stored(obj, obj', i)
      BY <3>7, <3>9, <1>2, <1>3, CopiedIs
    <3>11. /\ obj'[0][j].name = obj[0][j].name /\ obj'[0][j].live = obj[0][j].live
           /\ obj'[0][j].next = Nil
      BY <3>6, <3>8 DEF Record
    <3>12. \A k \in Index : k # i /\ k # j => obj'[0][k] = obj[0][k]
      BY <3>8, <1>11
    <3>13. StaticRight(obj', static, TRUE)
      BY <3>3, <3>10, <3>11, <3>12 DEF Cut
    <3> QED BY <3>1, <3>7, <3>9, <3>13, <1>3
  <2>4. CASE /\ ~(op.live /\ o.name = NoName)
             /\ ~Destructs(op, o)
    <3>1. obj' = copied /\ static' = static
      BY <2>4 DEF CommitToTable, copied, next
    <3>2. /\ o.live => op.live
          /\ o.live \/ ~op.live
      BY <2>4, <1>5 DEF Destructs
    <3>3. o.live => copied[0][i].next = o.next
      BY <3>2, <1>5, <1>14 DEF LinkCommitted, next
    <3>4. StaticRight(copied, static, TRUE)
      BY <3>2, <3>3, <1>3, <1>4, <1>13, UpdatedObject
    <3> QED BY <3>1, <3>4, <1>3, <1>10, <1>12
  <2> QED BY <2>1, <2>2, <2>3, <2>4
<1>16. /\ Committed(obj, obj', 1, i) /\ ObjectsRight(obj', 1)
       /\ \A h : IndexedRight(obj, 1, h) => IndexedRight(obj', 1, h)
  BY <1>2, <1>3, <1>15, CopiedIs
<1>17. GrownRight(obj', 1) /\ FreshRight(obj', 1, TRUE)
  BY <1>2, <1>3, <1>16, CommittedGrown, CommittedFresh
<1>18. PlanesRight(obj', list, 1, "commit")
  BY <1>2, <1>3, <1>16, CommittedPlanes
<1>19. Typed(obj', static', htab, list, 1, "commit")
  BY <1>2, <1>15, <1>16 DEF Typed, Committed
<1>20. Good(obj', static', htab, list, 1, "commit")
  <2>1. Last1(1, "commit") = TRUE
    BY DEF Last1
  <2> QED BY <2>1, <1>15, <1>16, <1>17, <1>18, <1>19 DEF Good
<1> QED
  BY <1>1, <1>16, <1>20 DEF IInv

-----------------------------------------------------------------------------
(* A patch is discarded *)

\* The patch of i has been deleted from plane L, and the record that it was made
\* from has its index.
Discarded(o, q, L, i) ==
  LET k == TopLevel(o, L - 1, i)
  IN  /\ q \in Objects
      /\ o[L][i] # NoPatch
      /\ q[L][i] = NoPatch
      /\ q[k][i] = [o[k][i] EXCEPT !.index = i]
      /\ \A m \in 0 .. MaxLevel : \A j \in Index :
           ~(j = i /\ (m = L \/ m = k)) => q[m][j] = o[m][j]

\* The level that shows, in the records o, what level l does once the patch of i
\* has been discarded from plane L.
Below(L, i, l, j) == IF l = L /\ j = i THEN L - 1 ELSE l

LEMMA DiscardedTops ==
  ASSUME NEW L \in 1 .. MaxLevel, NEW i \in Index, NEW o \in Objects, ObjectsRight(o, L),
         NEW q, Discarded(o, q, L, i)
  PROVE  /\ \A l \in 0 .. L : \A j \in Index :
              /\ Below(L, i, l, j) \in 0 .. L
              /\ TopLevel(q, l, j) = TopLevel(o, Below(L, i, l, j), j)
              /\ Agree(Top(o, Below(L, i, l, j), j), Top(q, l, j))
         /\ \A m \in 0 .. MaxLevel : \A j \in Index :
              ~(m = L /\ j = i) => /\ Agree(o[m][j], q[m][j])
                                   /\ q[m][j] = NoPatch <=> o[m][j] = NoPatch
<1> DEFINE k == TopLevel(o, L - 1, i)
<1>1. /\ L \in 0 .. MaxLevel /\ L - 1 \in 0 .. MaxLevel /\ L - 1 \in Nat /\ L \in Nat
      /\ L # 0 /\ L - 1 # L
  OBVIOUS
<1>2. /\ k \in 0 .. L - 1 /\ Plain(o[k][i])
  <2>1. /\ TopLevel(o, L - 1, i) \in 0 .. L - 1
        /\ Top(o, L - 1, i) = o[TopLevel(o, L - 1, i)][i]
        /\ Plain(Top(o, L - 1, i))
    BY <1>1, TopRight
  <2> QED BY <2>1
<1> HIDE DEF k
<1>3. /\ q[L][i] = NoPatch
      /\ q[k][i] = [o[k][i] EXCEPT !.index = i]
      /\ \A m \in 0 .. MaxLevel : \A j \in Index :
           ~(j = i /\ (m = L \/ m = k)) => q[m][j] = o[m][j]
  BY DEF Discarded, k
<1>4. q[k][i] \in Record /\ Agree(o[k][i], q[k][i]) /\ o[k][i] # NoPatch
  <2>1. i \in Link
    BY DEF Link
  <2> QED BY <1>2, <1>3, <2>1 DEF Plain, Agree, Record
<1>5. ASSUME NEW m \in 0 .. MaxLevel, NEW j \in Index, ~(m = L /\ j = i)
      PROVE  /\ Agree(o[m][j], q[m][j])
             /\ q[m][j] = NoPatch <=> o[m][j] = NoPatch
  <2>1. CASE j = i /\ m = k
    BY <2>1, <1>4
  <2>2. CASE ~(j = i /\ m = k)
    <3>1. q[m][j] = o[m][j]
      BY <2>2, <1>3, <1>5
    <3> QED BY <3>1, AgreeSelf
  <2> QED BY <2>1, <2>2
<1>6. ASSUME NEW l \in 0 .. L, NEW j \in Index, ~(l = L /\ j = i)
      PROVE  /\ TopLevel(q, l, j) = TopLevel(o, l, j)
             /\ Agree(Top(o, l, j), Top(q, l, j))
  <2>1. \A m \in 0 .. l : m \in 0 .. MaxLevel /\ ~(m = L /\ j = i)
    BY <1>6
  <2>2. \A m \in 1 .. l : m \in 0 .. l
    OBVIOUS
  <2>3. \A m \in 0 .. l : Agree(o[m][j], q[m][j]) /\ (q[m][j] = NoPatch <=> o[m][j] = NoPatch)
    BY <2>1, <1>5
  <2>4. l \in Nat
    OBVIOUS
  <2> QED BY <2>2, <2>3, <2>4, AgreeingTop
<1>7. /\ TopLevel(q, L, i) = TopLevel(o, L - 1, i)
      /\ Agree(Top(o, L - 1, i), Top(q, L, i))
  <2>1. /\ TopLevel(q, L - 1, i) = TopLevel(o, L - 1, i)
        /\ Agree(Top(o, L - 1, i), Top(q, L - 1, i))
    <3>1. L - 1 \in 0 .. L
      OBVIOUS
    <3> QED BY <3>1, <1>1, <1>6
  <2>2. TopLevel(q, L, i) = TopLevel(q, L - 1, i) /\ Top(q, L, i) = Top(q, L - 1, i)
    BY <1>1, <1>3, TopStep
  <2> QED BY <2>1, <2>2
<1>8. ASSUME NEW l \in 0 .. L, NEW j \in Index
      PROVE  /\ Below(L, i, l, j) \in 0 .. L
             /\ TopLevel(q, l, j) = TopLevel(o, Below(L, i, l, j), j)
             /\ Agree(Top(o, Below(L, i, l, j), j), Top(q, l, j))
  <2>1. CASE l = L /\ j = i
    <3>1. Below(L, i, l, j) = L - 1 /\ L - 1 \in 0 .. L
      BY <2>1 DEF Below
    <3> QED BY <3>1, <2>1, <1>7
  <2>2. CASE ~(l = L /\ j = i)
    <3>1. Below(L, i, l, j) = l
      BY <2>2 DEF Below
    <3> QED BY <3>1, <2>2, <1>6
  <2> QED BY <2>1, <2>2
<1> QED
  BY <1>5, <1>8

LEMMA DiscardedObjects ==
  ASSUME NEW L \in 1 .. MaxLevel, NEW i \in Index, NEW o \in Objects, ObjectsRight(o, L),
         NEW q, Discarded(o, q, L, i)
  PROVE  /\ ObjectsRight(q, L)
         /\ \A h : IndexedRight(o, L, h) => IndexedRight(q, L, h)
         /\ \A j \in Index : /\ q[0][j].live = o[0][j].live /\ q[0][j].name = o[0][j].name
                             /\ q[0][j].next = o[0][j].next
<1> DEFINE k == TopLevel(o, L - 1, i)
<1>1. /\ L \in 0 .. MaxLevel /\ L - 1 \in 0 .. MaxLevel /\ L \in Level /\ 0 \in 0 .. MaxLevel
      /\ L # 0 /\ L - 1 # L /\ \A m \in Level : m \in 0 .. MaxLevel /\ m # 0
  BY DEF Level
<1>2. /\ k \in 0 .. L - 1 /\ k \in 0 .. MaxLevel /\ k # L /\ Plain(o[k][i])
      /\ k # 0 => PatchRight(o[k][i], i)
  <2>1. /\ TopLevel(o, L - 1, i) \in 0 .. L - 1
        /\ Top(o, L - 1, i) = o[TopLevel(o, L - 1, i)][i]
        /\ Plain(Top(o, L - 1, i))
        /\ TopLevel(o, L - 1, i) > 0 => PatchRight(Top(o, L - 1, i), i)
    BY <1>1, TopRight
  <2> QED BY <2>1
<1> HIDE DEF k
<1>3. /\ q[L][i] = NoPatch /\ o[L][i] # NoPatch
      /\ q[k][i] = [o[k][i] EXCEPT !.index = i]
      /\ \A m \in 0 .. MaxLevel : \A j \in Index :
           ~(j = i /\ (m = L \/ m = k)) => q[m][j] = o[m][j]
  BY DEF Discarded, k
<1>4. /\ q[k][i] \in Record /\ q[k][i].index = i
      /\ q[k][i].name = o[k][i].name /\ q[k][i].live = o[k][i].live
      /\ q[k][i].kept = o[k][i].kept /\ q[k][i].next = o[k][i].next
  <2>1. i \in Link
    BY DEF Link
  <2> QED BY <1>2, <1>3, <2>1 DEF Plain, Record
<1>5. ASSUME NEW j \in Index
      PROVE  /\ ObjectRight(q, L, j)
             /\ q[0][j].live = o[0][j].live /\ q[0][j].name = o[0][j].name
             /\ q[0][j].next = o[0][j].next
             /\ q[0][j].index \in {o[0][j].index, j}
  <2>1. ObjectRight(o, L, j)
    BY DEF ObjectsRight
  <2>2. CASE j # i
    <3>1. \A m \in 0 .. MaxLevel : q[m][j] = o[m][j]
      BY <2>2, <1>3
    <3> QED BY <3>1, <2>1, <1>1 DEF ObjectRight
  <2>3. CASE j = i
    <3>1. /\ Plain(q[0][i]) /\ q[0][i].index \in {o[0][i].index, i}
          /\ q[0][i].live = o[0][i].live /\ q[0][i].name = o[0][i].name
          /\ q[0][i].next = o[0][i].next
      <4>1. CASE k = 0
        BY <4>1, <1>2, <1>4 DEF Plain
      <4>2. CASE k # 0
        <5>1. q[0][i] = o[0][i]
          BY <4>2, <1>1, <1>3
        <5> QED BY <5>1, <2>1, <2>3 DEF ObjectRight
      <4> QED BY <4>1, <4>2
    <3>2. \A m \in Level : q[m][i] # NoPatch =>
            m <= L /\ PatchRight(q[m][i], i)
      <4> SUFFICES ASSUME NEW m \in Level, q[m][i] # NoPatch
                   PROVE  m <= L /\ PatchRight(q[m][i], i)
        OBVIOUS
      <4>1. m # L /\ m # 0 /\ m \in 0 .. MaxLevel
        BY <1>1, <1>3
      <4>2. CASE m = k
        <5>1. PatchRight(q[k][i], i)
          BY <4>1, <4>2, <1>2, <1>4 DEF PatchRight, Plain
        <5> QED BY <5>1, <4>2, <1>2
      <4>3. CASE m # k
        <5>1. q[m][i] = o[m][i]
          BY <4>1, <4>3, <1>3
        <5> QED BY <5>1, <2>1, <2>3 DEF ObjectRight
      <4> QED BY <4>2, <4>3
    <3>3. o[0][i].index \in {i, NoIndex} /\ (o[0][i].name # NoName => o[0][i].index = i)
      BY <2>1, <2>3, <1>1, <1>3 DEF ObjectRight
    <3>4. q[0][i].index \in {i, NoIndex} /\ (q[0][i].name # NoName => q[0][i].index = i)
      BY <3>1, <3>3
    <3> QED BY <2>3, <3>1, <3>2, <3>4 DEF ObjectRight
  <2> QED BY <2>2, <2>3
<1>6. ASSUME NEW h, IndexedRight(o, L, h)
      PROVE  IndexedRight(q, L, h)
  <2> SUFFICES ASSUME NEW j \in Index, j < h.nobjects, q[0][j].index # j
               PROVE  \E m \in 1 .. L : q[m][j] # NoPatch
    BY DEF IndexedRight
  <2>1. o[0][j].index # j
    BY <1>5
  <2>2. CASE j = i
    <3>1. k # 0
      BY <2>2, <1>4
    <3>2. q[k][i] # NoPatch /\ k \in 1 .. L
      BY <3>1, <1>2, <1>4
    <3> QED BY <3>2, <2>2
  <2>3. CASE j # i
    <3>1. PICK m \in 1 .. L : o[m][j] # NoPatch
      BY <2>1, <1>6 DEF IndexedRight
    <3>2. m \in 0 .. MaxLevel
      OBVIOUS
    <3>3. q[m][j] = o[m][j]
      BY <3>2, <2>3, <1>3
    <3> QED BY <3>1, <3>3
  <2> QED BY <2>2, <2>3
<1> QED
  BY <1>5, <1>6 DEF ObjectsRight

LEMMA DiscardedGrown ==
  ASSUME NEW L \in 1 .. MaxLevel, NEW i \in Index, NEW o \in Objects, ObjectsRight(o, L),
         NEW q, Discarded(o, q, L, i), GrownRight(o, L)
  PROVE  GrownRight(q, L)
<1> SUFFICES ASSUME NEW j \in Index, NEW m \in 0 .. L, NEW l \in 0 .. L, m <= l
             PROVE  Grows(Top(q, m, j), Top(q, l, j))
  BY DEF GrownRight
<1> DEFINE a == Below(L, i, m, j)
           b == Below(L, i, l, j)
<1>1. /\ a \in 0 .. L /\ Agree(Top(o, a, j), Top(q, m, j))
      /\ b \in 0 .. L /\ Agree(Top(o, b, j), Top(q, l, j))
  BY DiscardedTops
<1>2. a <= b
  BY DEF Below
<1>3. Grows(Top(o, a, j), Top(o, b, j))
  BY <1>1, <1>2 DEF GrownRight
<1> HIDE DEF a, b
<1> QED
  BY <1>1, <1>3, AgreeGrows

LEMMA DiscardedFresh ==
  ASSUME NEW L \in 1 .. MaxLevel, NEW i \in Index, NEW o \in Objects, ObjectsRight(o, L),
         NEW q, Discarded(o, q, L, i), FreshRight(o, L, FALSE)
  PROVE  FreshRight(q, L, FALSE)
<1> SUFFICES ASSUME NEW m \in 1 .. L, NEW l \in 1 .. L, m < l,
                    NEW j \in Index, Top(q, l, j).live
             PROVE  \/ Top(q, m, j).live
                    \/ \A k \in Index : Top(q, m, k).name # Top(q, l, j).name
  BY DEF FreshRight, FreshIn
<1> DEFINE b == Below(L, i, l, j)
<1>1. m \in 0 .. L /\ l \in 0 .. L /\ m # L
  OBVIOUS
<1>2. \A k \in Index : Agree(Top(o, m, k), Top(q, m, k))
  <2>1. \A k \in Index : Below(L, i, m, k) = m
    BY <1>1 DEF Below
  <2> QED BY <1>1, <2>1, DiscardedTops
<1>3. Agree(Top(o, b, j), Top(q, l, j))
  BY <1>1, DiscardedTops
<1>4. b \in 1 .. L /\ m <= b
  BY DEF Below
<1> HIDE DEF b
<1>5. CASE m = b
  BY <1>2, <1>3, <1>5 DEF Agree
<1>6. CASE m # b
  <2>1. FreshIn(o, m, b)
    BY <1>4, <1>6 DEF FreshRight
  <2> QED BY <2>1, <1>2, <1>3 DEF FreshIn, Agree
<1> QED
  BY <1>5, <1>6

LEMMA DiscardedPlanes ==
  ASSUME NEW L \in 1 .. MaxLevel, NEW i \in Index, NEW o \in Objects, ObjectsRight(o, L),
         NEW q, Discarded(o, q, L, i), NEW hs, PlanesRight(o, hs, L, "discard")
  PROVE  PlanesRight(q, hs, L, "discard")
<1> SUFFICES ASSUME NEW l \in 0 .. L, l # L  PROVE PlaneRight(q, hs, L, l)
  BY DEF PlanesRight, Settled
<1>1. PlaneRight(o, hs, L, l)
  BY DEF PlanesRight, Settled
<1>2. \A j \in Index : Agree(Top(o, l, j), Top(q, l, j))
  <2>1. \A j \in Index : Below(L, i, l, j) = l
    BY DEF Below
  <2> QED BY <2>1, DiscardedTops
<1>3. \A j \in Index : Agree(View(o, l)[j], View(q, l)[j])
  BY <1>2, AgreeingViews
<1>4. Unique(View(q, l)) /\ ListsGood(View(q, l), hs[l])
  BY <1>1, <1>3, AgreeingUnique, AgreeingLists DEF PlaneRight
<1>5. IndexedRight(q, L, hs[l])
  BY <1>1, DiscardedObjects DEF PlaneRight
<1> QED
  BY <1>4, <1>5 DEF PlaneRight

\* The name of the patch is given back to the patch below, or is no name of a patch.
GivenBack(o, h, h2, L, i) ==
  LET k == TopLevel(o, L - 1, i)
      r == o[k][i]
      op == o[L][i]
  IN  \A n \in Name :
        h2[n] = CASE k # 0 /\ r.live /\ r.name = n -> <<k, i>>
                  [] k = 0 /\ op.live /\ op.name = n -> Nil
                  [] OTHER -> h[n]

\* Names of objects of the plane below belong to no others on this one.
LEMMA NameOfOne ==
  ASSUME NEW L \in 2 .. MaxLevel, NEW o, ObjectsRight(o, L),
         GrownRight(o, L), FreshRight(o, L, FALSE), Unique(View(o, L - 1)),
         NEW i \in Index, Top(o, L - 1, i).live,
         NEW j \in Index, Top(o, L, j).live, Top(o, L, j).name = Top(o, L - 1, i).name
  PROVE  j = i
<1>1. /\ L - 1 \in 1 .. L /\ L \in 1 .. L /\ L - 1 < L /\ L - 1 \in 0 .. L /\ L \in 0 .. L
      /\ L - 1 <= L /\ L - 1 \in 0 .. MaxLevel /\ L \in 0 .. MaxLevel
  OBVIOUS
<1>2. FreshIn(o, L - 1, L)
  BY <1>1 DEF FreshRight
<1>3. Top(o, L - 1, j).live
  BY <1>2 DEF FreshIn
<1>4. Top(o, L - 1, j).name \in Name
  BY <1>1, <1>3, LiveNamed
<1>5. Grows(Top(o, L - 1, j), Top(o, L, j))
  BY <1>1 DEF GrownRight
<1>6. Top(o, L - 1, j).name = Top(o, L - 1, i).name
  BY <1>4, <1>5 DEF Grows
<1> QED
  BY <1>3, <1>6 DEF Unique, View

LEMMA DiscardedHtab ==
  ASSUME NEW L \in 1 .. MaxLevel, NEW i \in Index, NEW o \in Objects, ObjectsRight(o, L),
         GrownRight(o, L), FreshRight(o, L, FALSE), Unique(View(o, L - 1)),
         NEW q, Discarded(o, q, L, i),
         NEW h, HtabRight(o, h, L), NEW h2, GivenBack(o, h, h2, L, i)
  PROVE  HtabRight(q, h2, L)
<1> DEFINE k == TopLevel(o, L - 1, i)
           r == o[k][i]
           op == o[L][i]
<1>1. /\ L \in 0 .. MaxLevel /\ L - 1 \in 0 .. MaxLevel /\ L \in Nat /\ L # 0 /\ L > 0
      /\ L \in 0 .. L /\ L - 1 \in 0 .. L /\ L - 1 <= L
  OBVIOUS
<1>2. k \in 0 .. L - 1 /\ r = Top(o, L - 1, i)
  BY <1>1, TopRight
<1>3. op = Top(o, L, i) /\ TopLevel(o, L, i) = L
  BY <1>1, TopStep DEF Discarded
<1>4. /\ \A j \in Index : j # i => /\ TopLevel(q, L, j) = TopLevel(o, L, j)
                                   /\ Top(q, L, j).live = Top(o, L, j).live
                                   /\ Top(q, L, j).name = Top(o, L, j).name
      /\ TopLevel(q, L, i) = k
      /\ Top(q, L, i).live = r.live /\ Top(q, L, i).name = r.name
  <2>1. /\ \A j \in Index : j # i => Below(L, i, L, j) = L
        /\ Below(L, i, L, i) = L - 1
    BY DEF Below
  <2>2. /\ \A j \in Index : j # i => /\ TopLevel(q, L, j) = TopLevel(o, L, j)
                                     /\ Agree(Top(o, L, j), Top(q, L, j))
        /\ TopLevel(q, L, i) = TopLevel(o, L - 1, i)
        /\ Agree(Top(o, L - 1, i), Top(q, L, i))
    BY <2>1, <1>1, DiscardedTops
  <2> QED BY <2>2, <1>2 DEF Agree
<1>5. \A n \in Name :
        h2[n] = CASE k # 0 /\ r.live /\ r.name = n -> <<k, i>>
                  [] k = 0 /\ op.live /\ op.name = n -> Nil
                  [] OTHER -> h[n]
  BY DEF GivenBack
<1>6. ASSUME k # 0, r.live, NEW j \in Index, Top(o, L, j).live, Top(o, L, j).name = r.name
      PROVE  j = i
  <2>1. L \in 2 .. MaxLevel
    BY <1>2, <1>6
  <2> QED BY <2>1, <1>2, <1>6, NameOfOne
<1>7. op.live /\ r.live /\ k # 0 => op.name = r.name
  <2>1. Grows(Top(o, L - 1, i), Top(o, L, i))
    BY <1>1 DEF GrownRight
  <2>2. r.live => r.name # NoName
    BY <1>1, <1>2, LiveNamed
  <2> QED BY <2>1, <2>2, <1>2, <1>3 DEF Grows
<1>8. op.live => r.live \/ k = 0
  <2>1. Grows(Top(o, L - 1, i), Top(o, L, i))
    BY <1>1 DEF GrownRight
  <2>2. k > 0 => r.name # NoName
    BY <1>1, <1>2, TopRight DEF PatchRight
  <2> QED BY <2>1, <2>2, <1>2, <1>3 DEF Grows
<1>9. \A j \in Index : Top(o, L, j).live => Top(o, L, j).name \in Name
  BY <1>1, LiveNamed
<1>10. r.live => r.name \in Name
  BY <1>1, <1>2, LiveNamed
<1> HIDE DEF k, r, op
<1>11. ASSUME NEW n \in Name, h2[n] # Nil
       PROVE  \E j \in Index :
                /\ TopLevel(q, L, j) > 0
                /\ h2[n] = <<TopLevel(q, L, j), j>>
                /\ Top(q, L, j).live /\ Top(q, L, j).name = n
  <2>1. CASE k # 0 /\ r.live /\ r.name = n
    <3>1. h2[n] = <<k, i>> /\ k > 0
      BY <2>1, <1>2, <1>5
    <3> QED BY <3>1, <2>1, <1>4
  <2>2. CASE ~(k # 0 /\ r.live /\ r.name = n)
    <3>1. h2[n] = h[n] /\ ~(k = 0 /\ op.live /\ op.name = n)
      BY <2>2, <1>5, <1>11
    <3>2. PICK j \in Index :
            /\ TopLevel(o, L, j) > 0
            /\ h[n] = <<TopLevel(o, L, j), j>>
            /\ Top(o, L, j).live /\ Top(o, L, j).name = n
      BY <3>1, <1>11 DEF HtabRight
    <3>3. j # i
      <4> SUFFICES ASSUME j = i  PROVE FALSE
        OBVIOUS
      <4>1. op.live /\ op.name = n
        BY <3>2, <1>3
      <4>2. k # 0 /\ r.live /\ r.name = n
        BY <4>1, <3>1, <1>7, <1>8
      <4> QED BY <4>2, <2>2
    <3> QED BY <3>1, <3>2, <3>3, <1>4
  <2> QED BY <2>1, <2>2
<1>12. ASSUME NEW j \in Index, TopLevel(q, L, j) > 0, Top(q, L, j).live
       PROVE  h2[Top(q, L, j).name] = <<TopLevel(q, L, j), j>>
  <2>1. CASE j = i
    <3>1. k # 0 /\ r.live /\ r.name \in Name /\ Top(q, L, j).name = r.name
      BY <2>1, <1>2, <1>4, <1>10, <1>12
    <3>2. h2[r.name] = <<k, i>>
      BY <3>1, <1>5
    <3> QED BY <3>1, <3>2, <2>1, <1>4
  <2>2. CASE j # i
    <3> DEFINE n == Top(o, L, j).name
    <3>1. /\ TopLevel(q, L, j) = TopLevel(o, L, j) /\ Top(o, L, j).live
          /\ Top(q, L, j).name = n /\ n \in Name
      BY <2>2, <1>4, <1>9, <1>12
    <3>2. h[n] = <<TopLevel(o, L, j), j>>
      BY <3>1, <1>12 DEF HtabRight
    <3>3. ~(k # 0 /\ r.live /\ r.name = n)
      BY <3>1, <2>2, <1>6
    <3>4. ~(op.live /\ op.name = n)
      <4> SUFFICES ASSUME op.live, op.name = n  PROVE FALSE
        OBVIOUS
      <4>1. h[n] = <<L, i>>
        BY <1>1, <1>3 DEF HtabRight
      <4> QED BY <4>1, <3>2, <2>2
    <3> HIDE DEF n
    <3>5. h2[n] = h[n]
      BY <3>1, <3>3, <3>4, <1>5
    <3> QED BY <3>1, <3>2, <3>5
  <2> QED BY <2>1, <2>2
<1> QED
  BY <1>11, <1>12 DEF HtabRight

LEMMA DiscardPatchKeeps ==
  ASSUME IInv, NEW i \in Index, DiscardPatch(i)
  PROVE  IInv' /\ Discarded(obj, obj', level, i)
<1> DEFINE L == level
           op == obj[level][i]
           k == TopLevel(obj, level - 1, i)
           o == obj[k][i]
           deleted == [obj EXCEPT ![k][i].index = IndexGivenBack(op, o),
                                  ![level][i] = NoPatch]
           nx == IF op.live THEN op.next ELSE htab[o.name]
<1>1. /\ Good(obj, static, htab, list, L, "discard") /\ mode = "discard" /\ mode' = mode
      /\ level' = level /\ op # NoPatch /\ static' = static /\ list' = list
  BY DEF IInv, DiscardPatch
<1>2. /\ Typed(obj, static, htab, list, L, "discard")
      /\ ObjectsRight(obj, L) /\ GrownRight(obj, L) /\ FreshRight(obj, L, FALSE)
      /\ PlanesRight(obj, list, L, "discard")
      /\ HtabRight(obj, htab, L) /\ StaticRight(obj, static, FALSE)
  <2>1. Last1(L, "discard") = FALSE /\ ("discard" = "commit") = FALSE
    BY DEF Last1
  <2> QED BY <1>1, <2>1 DEF Good
<1>3. /\ L \in 1 .. MaxLevel /\ L \in 0 .. MaxLevel /\ L \in Level
      /\ L - 1 \in 0 .. MaxLevel /\ L \in 0 .. L /\ L - 1 \in 0 .. L /\ L - 1 # L /\ L # 0
      /\ obj \in Objects /\ htab \in [Name -> Pointer]
  BY <1>2 DEF Typed, Level
<1>4. PatchRight(op, i) /\ op \in Record /\ op.name # NoName /\ op.name \in Name
      /\ obj[0][i].index \in {i, NoIndex}
  BY <1>1, <1>2, <1>3 DEF ObjectsRight, ObjectRight, PatchRight, Plain, Record
<1>5. /\ k \in 0 .. L - 1 /\ o = Top(obj, L - 1, i) /\ Plain(o) /\ o \in Record
      /\ k # 0 => PatchRight(o, i)
  <2>1. /\ TopLevel(obj, L - 1, i) \in 0 .. L - 1
        /\ Top(obj, L - 1, i) = obj[TopLevel(obj, L - 1, i)][i]
        /\ Plain(Top(obj, L - 1, i))
        /\ TopLevel(obj, L - 1, i) > 0 => PatchRight(Top(obj, L - 1, i), i)
    BY <1>2, <1>3, TopRight
  <2> QED BY <2>1 DEF Plain
<1>6. Unique(View(obj, L - 1))
  <2>1. Settled(L - 1, L, "discard")
    BY <1>3 DEF Settled
  <2> QED BY <2>1, <1>2, <1>3 DEF PlanesRight, PlaneRight
<1>7. op = Top(obj, L, i) /\ TopLevel(obj, L, i) = L
  BY <1>1, <1>3, TopStep
<1>8. /\ k # 0 /\ op.live => o.live
      /\ k # 0 => o.name = op.name /\ o.name # NoName
  <2>1. Grows(Top(obj, L - 1, i), Top(obj, L, i))
    BY <1>2, <1>3 DEF GrownRight
  <2>2. Grows(o, op)
    BY <2>1, <1>5, <1>7
  <2>3. k # 0 => o.name # NoName
    BY <1>5 DEF PatchRight
  <2> QED BY <2>2, <2>3 DEF Grows
<1>9. k # 0 /\ o.live => nx = Nil /\ o.next = Nil
  <2> SUFFICES ASSUME k # 0, o.live  PROVE nx = Nil
    BY <1>5 DEF PatchRight
  <2>1. CASE op.live
    BY <2>1, <1>4 DEF PatchRight
  <2>2. CASE ~op.live
    <3> SUFFICES ASSUME htab[o.name] # Nil  PROVE FALSE
      BY <2>2
    <3>1. o.name \in Name
      BY <1>4, <1>8
    <3>2. PICK j \in Index : Top(obj, L, j).live /\ Top(obj, L, j).name = o.name
      BY <3>1, <1>2 DEF HtabRight
    <3>3. L \in 2 .. MaxLevel
      BY <1>3, <1>5
    <3>4. j = i
      BY <3>2, <3>3, <1>2, <1>5, <1>6, NameOfOne
    <3> QED BY <3>2, <3>4, <2>2, <1>7
  <2> QED BY <2>1, <2>2
<1>10. IndexGivenBack(op, o) = i
  <2>1. i # NoIndex
    BY DEF Index, NoIndex
  <2>2. op.index = i
    BY <1>4 DEF PatchRight
  <2>3. o.index = i \/ o.index = NoIndex
    BY <1>4, <1>5 DEF PatchRight
  <2> QED BY <2>1, <2>2, <2>3 DEF IndexGivenBack
<1>11. \/ obj' = deleted
       \/ /\ k # 0 /\ o.live
          /\ obj' = [deleted EXCEPT ![k][i].next = nx]
  BY <1>8 DEF DiscardPatch
<1> HIDE DEF nx, deleted, k
<1>12. /\ L - 1 \in Nat /\ k \in 0 .. MaxLevel /\ k # L
       /\ obj[k] \in [Index -> Record \cup {NoPatch}]
       /\ obj[L] \in [Index -> Record \cup {NoPatch}]
       /\ DOMAIN obj = 0 .. MaxLevel
  BY <1>3, <1>5 DEF Objects
<1> DEFINE r == [o EXCEPT !.index = i]
<1>13. r \in Record /\ r.next = o.next
  <2>1. i \in Link
    BY DEF Link
  <2> QED BY <2>1, <1>5 DEF Record
<1>14. /\ deleted[k] = [obj[k] EXCEPT ![i] = r]
       /\ deleted[L] = [obj[L] EXCEPT ![i] = NoPatch]
       /\ \A m \in 0 .. MaxLevel : m # k /\ m # L => deleted[m] = obj[m]
       /\ DOMAIN deleted = 0 .. MaxLevel /\ deleted = [m \in 0 .. MaxLevel |-> deleted[m]]
  <2>1. deleted = [obj EXCEPT ![k][i].index = i, ![L][i] = NoPatch]
    BY <1>10 DEF deleted
  <2> HIDE DEF L
  <2>2. obj[k] = [j \in Index |-> obj[k][j]]
    BY <1>12
  <2> QED BY <2>1, <2>2, <1>3, <1>12
<1>15. /\ deleted[k][i] = r /\ deleted[L][i] = NoPatch
       /\ \A j \in Index : j # i => deleted[k][j] = obj[k][j] /\ deleted[L][j] = obj[L][j]
       /\ deleted[k] \in [Index -> Record \cup {NoPatch}]
       /\ deleted[L] \in [Index -> Record \cup {NoPatch}]
  <2> HIDE DEF L, r
  <2> QED BY <1>12, <1>13, <1>14
<1>16. obj' = deleted
  <2> SUFFICES ASSUME k # 0, o.live, obj' = [deleted EXCEPT ![k][i].next = nx]
               PROVE  obj' = deleted
    BY <1>11
  <2>1. obj' = [deleted EXCEPT ![k][i].next = Nil] /\ r.next = Nil
    BY <1>9, <1>13
  <2>2. [r EXCEPT !.next = Nil] = r
    BY <2>1, <1>13 DEF Record
  <2> HIDE DEF L, r
  <2>3. [deleted[k] EXCEPT ![i].next = Nil] = deleted[k]
    <3>1. [deleted[k] EXCEPT ![i] = [deleted[k][i] EXCEPT !.next = Nil]] = deleted[k]
      BY <2>2, <1>15
    <3> QED BY <3>1
  <2>4. obj' = [deleted EXCEPT ![k] = [deleted[k] EXCEPT ![i].next = Nil]]
    BY <2>1
  <2> QED BY SMTT(60), <2>3, <2>4, <1>14
<1>17. Discarded(obj, obj', L, i)
  <2> HIDE DEF L
  <2>1. \A m \in 0 .. MaxLevel : \A j \in Index :
          ~(j = i /\ (m = L \/ m = k)) => deleted[m][j] = obj[m][j]
    BY <1>14, <1>15
  <2>2. deleted \in Objects
    <3>1. \A m \in 0 .. MaxLevel : deleted[m] \in [Index -> Record \cup {NoPatch}]
      BY <1>3, <1>14, <1>15 DEF Objects
    <3> QED BY <3>1, <1>14 DEF Objects
  <2>3. obj[L][i] # NoPatch
    BY <1>1 DEF L
  <2> QED BY <2>1, <2>2, <2>3, <1>15, <1>16 DEF Discarded, k, L
<1>18. GivenBack(obj, htab, htab', L, i)
  <2>1. CASE k = 0
    <3>1. htab' = IF op.live THEN [htab EXCEPT ![op.name] = Nil] ELSE htab
      BY <2>1, <1>4 DEF DiscardPatch, NameRemoved, PatchRight, k
    <3> QED BY <3>1, <2>1, <1>3, <1>4 DEF GivenBack, k
  <2>2. CASE k # 0 /\ o.live
    <3>1. htab' = [htab EXCEPT ![o.name] = <<k, i>>]
      BY <2>2, <1>4, <1>8 DEF DiscardPatch, k
    <3> QED BY <3>1, <2>2, <1>3, <1>4, <1>8 DEF GivenBack, k
  <2>3. CASE k # 0 /\ ~o.live
    <3>1. htab' = htab
      BY <2>3, <1>8 DEF DiscardPatch, k
    <3> QED BY <3>1, <2>3 DEF GivenBack, k
  <2> QED BY <2>1, <2>2, <2>3
<1>19. htab' \in [Name -> Pointer]
  <2>1. Nil \in Pointer /\ <<k, i>> \in Pointer
    BY <1>12 DEF Pointer
  <2>2. \/ htab' = htab
        \/ htab' = [htab EXCEPT ![op.name] = Nil]
        \/ htab' = [htab EXCEPT ![o.name] = <<k, i>>]
    <3>1. op.live => op.next = Nil
      BY <1>4 DEF PatchRight
    <3> QED BY <3>1 DEF DiscardPatch, NameRemoved, k
  <2> QED BY <2>1, <2>2, <1>3
<1> HIDE DEF L
<1>20. /\ ObjectsRight(obj', L) /\ GrownRight(obj', L) /\ FreshRight(obj', L, FALSE)
       /\ PlanesRight(obj', list, L, "discard")
  BY <1>2, <1>3, <1>17, DiscardedObjects, DiscardedGrown, DiscardedFresh, DiscardedPlanes
<1>21. HtabRight(obj', htab', L)
  BY <1>2, <1>3, <1>6, <1>17, <1>18, DiscardedHtab
<1>22. StaticRight(obj', static, FALSE)
  <2>1. \A j \in Index : /\ obj'[0][j].live = obj[0][j].live
                         /\ obj'[0][j].name = obj[0][j].name
                         /\ obj'[0][j].next = obj[0][j].next
    BY <1>2, <1>3, <1>17, DiscardedObjects
  <2>2. \A n \in Name : static[n] # Nil =>
          \E j \in Index : static[n] = <<0, j>> /\ obj'[0][j].live /\ obj'[0][j].name = n
    BY <2>1, <1>2 DEF StaticRight
  <2>3. \A j \in Index : obj'[0][j].live =>
          static[obj'[0][j].name] = <<0, j>> /\ obj'[0][j].next = Nil
    BY <2>1, <1>2 DEF StaticRight
  <2> QED BY <2>2, <2>3 DEF StaticRight
<1>23. Typed(obj', static, htab', list, L, "discard")
  BY <1>2, <1>17, <1>19 DEF Typed, Discarded
<1>24. Good(obj', static, htab', list, L, "discard")
  <2>1. Last1(L, "discard") = FALSE /\ ("discard" = "commit") = FALSE
    BY DEF Last1
  <2> QED BY <2>1, <1>20, <1>21, <1>22, <1>23 DEF Good
<1> QED
  BY <1>1, <1>17, <1>24 DEF IInv, L

-----------------------------------------------------------------------------
(* The chains of the hash tables *)

\* The pointers t are the chain from head on, with the null pointer at its end.
Follows(t, head) ==
  /\ t \in Seq(Pointer)
  /\ Len(t) \in 1 .. MaxObjects + 2
  /\ t[1] = head
  /\ t[Len(t)] = Nil
  /\ \A k \in 1 .. Len(t) - 1 :
       /\ t[k] # Nil /\ obj[t[k][1]][t[k][2]] # NoPatch
       /\ obj[t[k][1]][t[k][2]].next = t[k + 1]

\* A chain is what Entries finds.
LEMMA EntriesIs ==
  ASSUME NEW h, NEW n, NEW t, Follows(t, h[n])
  PROVE  Entries(h, n) = t
<1> DEFINE M == MaxObjects + 1
           Def(f) == f = [k \in 0 .. M |->
             IF k = 0 THEN <<h[n]>>
             ELSE LET u == f[k - 1]
                      p == u[Len(u)]
                  IN  IF p = Nil \/ obj[p[1]][p[2]] = NoPatch THEN u
                      ELSE Append(u, obj[p[1]][p[2]].next)]
           g == [k \in 0 .. M |-> IF k < Len(t) THEN SubSeq(t, 1, k + 1) ELSE t]
           f == CHOOSE f : Def(f)
<1>1. /\ t \in Seq(Pointer) /\ Len(t) \in Nat /\ Len(t) > 0 /\ Len(t) <= M + 1
      /\ M \in Nat /\ M > 0
      /\ \A k \in 1 .. Len(t) : t[k] \in Pointer
  BY DEF Follows
<1>2. /\ t[1] = h[n] /\ t[Len(t)] = Nil
      /\ \A k \in 1 .. Len(t) : k < Len(t) =>
           /\ ~(t[k] = Nil \/ obj[t[k][1]][t[k][2]] = NoPatch)
           /\ obj[t[k][1]][t[k][2]].next = t[k + 1]
  BY <1>1 DEF Follows
<1> HIDE DEF M
<1>3. \A k \in 0 .. M :
         /\ g[k] \in Seq(Pointer)
         /\ Len(g[k]) = IF k < Len(t) THEN k + 1 ELSE Len(t)
         /\ \A m \in 1 .. Len(g[k]) : g[k][m] = t[m]
  <2> TAKE k \in 0 .. M
  <2>1. CASE k < Len(t)
    <3>1. g[k] = SubSeq(t, 1, k + 1)
      BY <2>1
    <3>2. k + 1 \in 1 .. Len(t)
      BY <1>1, <2>1
    <3> HIDE DEF g
    <3> QED BY <1>1, <2>1, <3>1, <3>2
  <2>2. CASE ~ (k < Len(t))
    <3>1. g[k] = t
      BY <2>2
    <3> HIDE DEF g
    <3> QED BY <1>1, <2>2, <3>1
  <2> QED BY <2>1, <2>2
<1>4. g[0] = <<h[n]>>
  <2> HIDE DEF g
  <2>1. 0 \in 0 .. M /\ 0 < Len(t)
    BY <1>1
  <2>2. /\ g[0] \in Seq(Pointer) /\ Len(g[0]) = 0 + 1
        /\ \A m \in 1 .. Len(g[0]) : g[0][m] = t[m]
    BY <2>1, <1>3
  <2> QED BY <2>2, <1>2
<1>5. ASSUME NEW k \in 0 .. M, k # 0
      PROVE  g[k] = LET u == g[k - 1]
                        p == u[Len(u)]
                    IN  IF p = Nil \/ obj[p[1]][p[2]] = NoPatch THEN u
                        ELSE Append(u, obj[p[1]][p[2]].next)
  <2> DEFINE u == g[k - 1]
             p == u[Len(u)]
  <2>1. k - 1 \in 0 .. M
    BY <1>1, <1>5
  <2>2. CASE k < Len(t)
    <3>1. u \in Seq(Pointer) /\ Len(u) = k /\ \A m \in 1 .. k : u[m] = t[m]
      <4>1. k - 1 < Len(t) /\ (k - 1) + 1 = k
        BY <1>1, <2>1, <2>2
      <4> HIDE DEF g
      <4> QED BY <1>3, <2>1, <4>1
    <3>2. p = t[k] /\ k \in 1 .. Len(t)
      BY <3>1, <1>1, <1>5, <2>2
    <3>3. ~(p = Nil \/ obj[p[1]][p[2]] = NoPatch) /\ obj[p[1]][p[2]].next = t[k + 1]
      BY <3>2, <1>2, <2>2
    <3>4. g[k] \in Seq(Pointer) /\ Len(g[k]) = k + 1 /\ \A m \in 1 .. k + 1 : g[k][m] = t[m]
      <4> HIDE DEF g
      <4> QED BY <1>3, <2>2
    <3>5. /\ Append(u, t[k + 1]) \in Seq(Pointer) /\ Len(Append(u, t[k + 1])) = k + 1
          /\ \A m \in 1 .. k + 1 : Append(u, t[k + 1])[m] = t[m]
      <4>1. t[k + 1] \in Pointer
        BY <1>1, <1>5, <2>2
      <4> HIDE DEF u
      <4> QED BY <3>1, <4>1, <1>5
    <3>6. g[k] = Append(u, t[k + 1])
      <4> HIDE DEF u, p, g
      <4> QED BY <3>4, <3>5
    <3> HIDE DEF u, p, g
    <3>7. g[k] = IF p = Nil \/ obj[p[1]][p[2]] = NoPatch THEN u
                 ELSE Append(u, obj[p[1]][p[2]].next)
      BY <3>3, <3>6, Zenon
    <3> QED BY <3>7, Zenon DEF u, p
  <2>3. CASE ~ (k < Len(t))
    <3>1. u = t /\ g[k] = t
      <4>1. g[k] = t
        BY <2>3
      <4>2. CASE k - 1 < Len(t)
        <5>1. (k - 1) + 1 = Len(t)
          BY <1>1, <2>1, <2>3, <4>2
        <5>2. u = SubSeq(t, 1, (k - 1) + 1)
          BY <2>1, <4>2
        <5> HIDE DEF u
        <5>3. u = SubSeq(t, 1, Len(t))
          BY <5>1, <5>2
        <5> QED BY <5>3, <4>1, <1>1
      <4>3. CASE ~ (k - 1 < Len(t))
        BY <4>1, <4>3, <2>1
      <4> QED BY <4>2, <4>3
    <3>2. p = Nil
      BY <3>1, <1>2
    <3> QED BY <3>1, <3>2
  <2> QED BY <2>2, <2>3
<1>6. Def(g)
  <2> DEFINE b(k) ==
             IF k = 0 THEN <<h[n]>>
             ELSE LET u == g[k - 1]
                      p == u[Len(u)]
                  IN  IF p = Nil \/ obj[p[1]][p[2]] = NoPatch THEN u
                      ELSE Append(u, obj[p[1]][p[2]].next)
             d == [k \in 0 .. M |-> b(k)]
  <2>1. \A k \in 0 .. M : g[k] = d[k]
    <3> HIDE DEF g
    <3> QED BY <1>4, <1>5, Zenon
  <2>2. g = [k \in 0 .. M |-> g[k]]
    BY SMT
  <2>3. d = [k \in 0 .. M |-> d[k]]
    <3> HIDE DEF b
    <3> QED BY SMT
  <2>4. g = d
    <3> HIDE DEF g, d
    <3>1. [k \in 0 .. M |-> g[k]] = [k \in 0 .. M |-> d[k]]
      BY <2>1, Zenon
    <3> QED BY <3>1, <2>2, <2>3, Zenon
  <2> QED BY <2>4
<1>7. Def(f)
  <2> HIDE DEF g
  <2> QED BY <1>6, Zenon
<1>8. f[0] = <<h[n]>> /\ \A k \in 0 .. M : k # 0 =>
         f[k] = LET u == f[k - 1]
                    p == u[Len(u)]
                IN  IF p = Nil \/ obj[p[1]][p[2]] = NoPatch THEN u
                    ELSE Append(u, obj[p[1]][p[2]].next)
  <2> HIDE DEF f
  <2>1. \A k \in 0 .. M :
          f[k] = IF k = 0 THEN <<h[n]>>
                 ELSE LET u == f[k - 1]
                          p == u[Len(u)]
                      IN  IF p = Nil \/ obj[p[1]][p[2]] = NoPatch THEN u
                          ELSE Append(u, obj[p[1]][p[2]].next)
    BY <1>7, Zenon
  <2>2. 0 \in 0 .. M
    BY <1>1
  <2> QED BY <2>1, <2>2, Zenon
<1>9. \A k \in Nat : k <= M => f[k] = g[k]
  <2> DEFINE S == {k \in Nat : k <= M => f[k] = g[k]}
  <2> HIDE DEF f, g
  <2>1. 0 \in S
    BY <1>8, <1>4
  <2>2. ASSUME NEW k \in S, k \in Nat  PROVE k + 1 \in S
    <3>1. CASE k + 1 <= M
      <4>1. k + 1 \in 0 .. M /\ k + 1 # 0 /\ (k + 1) - 1 = k /\ k <= M
        BY <3>1, <1>1
      <4>2. f[k] = g[k]
        BY <4>1
      <4>3. f[k + 1] = LET u == f[k]
                           p == u[Len(u)]
                       IN  IF p = Nil \/ obj[p[1]][p[2]] = NoPatch THEN u
                           ELSE Append(u, obj[p[1]][p[2]].next)
        BY <1>8, <4>1
      <4>4. g[k + 1] = LET u == g[k]
                           p == u[Len(u)]
                       IN  IF p = Nil \/ obj[p[1]][p[2]] = NoPatch THEN u
                           ELSE Append(u, obj[p[1]][p[2]].next)
        BY <1>5, <4>1
      <4>5. f[k + 1] = g[k + 1]
        BY <4>2, <4>3, <4>4, ZenonT(60)
      <4> QED BY <4>5
    <3>2. CASE ~ (k + 1 <= M)
      BY <3>2
    <3> QED BY <3>1, <3>2
  <2>3. \A k \in Nat : k \in S
    <3> HIDE DEF S
    <3> QED BY <2>1, <2>2, NatSet
  <2> QED BY <2>3
<1>10. f[M] = t
  <2>1. g[M] = t
    <3>1. CASE M < Len(t)
      <4>1. M + 1 = Len(t) /\ M \in 0 .. M
        BY <3>1, <1>1
      <4>2. g[M] = SubSeq(t, 1, M + 1)
        BY <3>1, <4>1
      <4>3. g[M] = SubSeq(t, 1, Len(t))
        BY <4>1, <4>2
      <4> HIDE DEF g
      <4> QED BY <4>3, <1>1
    <3>2. CASE ~ (M < Len(t))
      BY <3>2, <1>1
    <3> QED BY <3>1, <3>2
  <2> HIDE DEF f, g
  <2> QED BY <1>9, <1>1, <2>1
<1> QED
  <2>1. Entries(h, n) = f[MaxObjects + 1]
    BY Zenon DEF Entries, M
  <2> HIDE DEF f
  <2> QED BY <2>1, <1>10 DEF M

\* The null pointer, a record without a link, or two records, are whole chains.
LEMMA ShortChains ==
  ASSUME NEW h, NEW n
  PROVE  /\ h[n] = Nil => Entries(h, n) = <<Nil>>
         /\ \A p \in Pointer :
              /\ p # Nil /\ h[n] = p /\ obj[p[1]][p[2]] # NoPatch
              /\ obj[p[1]][p[2]].next = Nil
              => Entries(h, n) = <<p, Nil>>
         /\ \A p, q \in Pointer :
              /\ p # Nil /\ h[n] = p /\ obj[p[1]][p[2]] # NoPatch
              /\ obj[p[1]][p[2]].next = q
              /\ q # Nil /\ obj[q[1]][q[2]] # NoPatch /\ obj[q[1]][q[2]].next = Nil
              => Entries(h, n) = <<p, q, Nil>>
<1>1. Nil \in Pointer /\ MaxObjects \in Nat /\ MaxObjects > 0
  BY DEF Pointer
<1>2. ASSUME h[n] = Nil
      PROVE  Entries(h, n) = <<Nil>>
  <2> DEFINE t == <<Nil>>
  <2>1. t \in Seq(Pointer) /\ Len(t) = 1 /\ t[1] = Nil
    BY <1>1
  <2> HIDE DEF t
  <2>2. Follows(t, h[n])
    BY <2>1, <1>1, <1>2 DEF Follows
  <2> QED BY <2>2, EntriesIs DEF t
<1>3. ASSUME NEW p \in Pointer, p # Nil, h[n] = p, obj[p[1]][p[2]] # NoPatch,
             obj[p[1]][p[2]].next = Nil
      PROVE  Entries(h, n) = <<p, Nil>>
  <2> DEFINE t == <<p, Nil>>
  <2>1. t \in Seq(Pointer) /\ Len(t) = 2 /\ t[1] = p /\ t[2] = Nil
    BY <1>1
  <2> HIDE DEF t
  <2>2. \A k \in 1 .. Len(t) - 1 : k = 1 /\ k + 1 = 2
    BY <2>1
  <2>3. Follows(t, h[n])
    BY <2>1, <2>2, <1>1, <1>3 DEF Follows
  <2> QED BY <2>3, EntriesIs DEF t
<1>4. ASSUME NEW p \in Pointer, NEW q \in Pointer,
             p # Nil, h[n] = p, obj[p[1]][p[2]] # NoPatch, obj[p[1]][p[2]].next = q,
             q # Nil, obj[q[1]][q[2]] # NoPatch, obj[q[1]][q[2]].next = Nil
      PROVE  Entries(h, n) = <<p, q, Nil>>
  <2> DEFINE t == <<p, q, Nil>>
  <2>1. t \in Seq(Pointer) /\ Len(t) = 3 /\ t[1] = p /\ t[2] = q /\ t[3] = Nil
    BY <1>1
  <2> HIDE DEF t
  <2>2. \A k \in 1 .. Len(t) - 1 : (k = 1 /\ k + 1 = 2) \/ (k = 2 /\ k + 1 = 3)
    BY <2>1
  <2>3. Len(t) \in 1 .. MaxObjects + 2
    BY <2>1, <1>1
  <2>4. \A k \in 1 .. Len(t) - 1 :
          /\ t[k] # Nil /\ obj[t[k][1]][t[k][2]] # NoPatch
          /\ obj[t[k][1]][t[k][2]].next = t[k + 1]
    <3> TAKE k \in 1 .. Len(t) - 1
    <3>1. CASE k = 1 /\ k + 1 = 2
      <4>1. t[k] = p /\ t[k + 1] = q
        BY <3>1, <2>1
      <4> QED BY <4>1, <1>4
    <3>2. CASE k = 2 /\ k + 1 = 3
      <4>1. t[k] = q /\ t[k + 1] = Nil
        BY <3>2, <2>1
      <4> QED BY <4>1, <1>4
    <3> QED BY <3>1, <3>2, <2>2
  <2>5. Follows(t, h[n])
    BY <2>1, <2>3, <2>4, <1>4 DEF Follows
  <2> QED BY <2>5, EntriesIs DEF t
<1> QED
  BY <1>2, <1>3, <1>4

\* The invariant says what chains there are, and that they are of live records.
LEMMA ChainsAreRight ==
  ASSUME IInv
  PROVE  ChainsRight
<1>1. /\ Good(obj, static, htab, list, level, mode)
      /\ Typed(obj, static, htab, list, level, mode)
      /\ ObjectsRight(obj, level) /\ StaticRight(obj, static, Last1(level, mode))
      /\ level \in 0 .. MaxLevel /\ 0 \in 0 .. MaxLevel
  BY DEF IInv, Good, Typed
<1>2. \A i \in Index : /\ Plain(obj[0][i]) /\ obj[0][i] # NoPatch
                       /\ obj[0][i].live => obj[0][i].name \in Name
  BY <1>1 DEF ObjectsRight, ObjectRight, Plain, Record
<1>3. \A i \in Index : <<0, i>> \in Pointer /\ <<0, i>> # Nil
  BY <1>1 DEF Pointer, Nil
<1> SUFFICES ASSUME NEW n \in Name
             PROVE  LET Whole(s) == s[Len(s)] = Nil
                        Leads(p) == obj[p[1]][p[2]].name = n /\ obj[p[1]][p[2]].live
                    IN  /\ Whole(Entries(static, n))
                        /\ static[n] # Nil => static[n][1] = 0 /\ Leads(static[n])
                        /\ mode = "run" => Whole(Entries(htab, n))
                        /\ mode = "run" /\ htab[n] # Nil => htab[n][1] > 0 /\ Leads(htab[n])
  BY DEF ChainsRight
<1> DEFINE Whole(s) == s[Len(s)] = Nil
           Leads(p) == obj[p[1]][p[2]].name = n /\ obj[p[1]][p[2]].live
<1>4. static[n] # Nil => static[n][1] = 0 /\ Leads(static[n])
  <2> SUFFICES ASSUME static[n] # Nil  PROVE static[n][1] = 0 /\ Leads(static[n])
    OBVIOUS
  <2>1. PICK j \in Index : static[n] = <<0, j>> /\ obj[0][j].live /\ obj[0][j].name = n
    BY <1>1 DEF StaticRight
  <2> QED BY <2>1
<1>5. Whole(Entries(static, n))
  <2>1. CASE static[n] = Nil
    <3>1. Entries(static, n) = <<Nil>>
      BY <2>1, ShortChains
    <3> QED BY <3>1
  <2>2. CASE static[n] # Nil
    <3>1. PICK j \in Index : static[n] = <<0, j>> /\ obj[0][j].live /\ obj[0][j].name = n
      BY <2>2, <1>1 DEF StaticRight
    <3> DEFINE p == <<0, j>>
    <3>2. p \in Pointer /\ p # Nil /\ p[1] = 0 /\ p[2] = j
      BY <1>3
    <3>3. CASE obj[0][j].next = Nil
      <4>1. Entries(static, n) = <<p, Nil>>
        <5> HIDE DEF p
        <5> QED BY SMTT(60), <3>1, <3>2, <3>3, <1>2, ShortChains DEF p
      <4> QED BY <4>1
    <3>4. CASE obj[0][j].next # Nil
      <4>1. PICK i \in Index : Chained(obj, j, i)
        BY <3>1, <3>4, <1>1 DEF StaticRight
      <4> DEFINE q == <<0, i>>
      <4>2. q \in Pointer /\ q # Nil /\ q[1] = 0 /\ q[2] = i
        BY <1>3
      <4>3. obj[0][j].next = q /\ obj[0][i].next = Nil
        BY <4>1 DEF Chained
      <4>4. static[n] = p
        BY <3>1
      <4> HIDE DEF p, q
      <4>5. Entries(static, n) = <<p, q, Nil>>
        BY <4>2, <4>3, <4>4, <3>2, <1>2, ShortChains
      <4> QED BY <4>5
    <3> QED BY <3>3, <3>4
  <2> QED BY <2>1, <2>2
<1>6. ASSUME mode = "run", htab[n] # Nil
      PROVE  /\ htab[n][1] > 0 /\ Leads(htab[n])
             /\ Entries(htab, n) = <<htab[n], Nil>>
  <2>1. HtabRight(obj, htab, level)
    BY <1>1, <1>6, Running
  <2>2. PICK i \in Index :
          /\ TopLevel(obj, level, i) > 0
          /\ htab[n] = <<TopLevel(obj, level, i), i>>
          /\ Top(obj, level, i).live /\ Top(obj, level, i).name = n
    BY <2>1, <1>6 DEF HtabRight
  <2> DEFINE k == TopLevel(obj, level, i)
             p == htab[n]
  <2>3. /\ k \in 0 .. level /\ Top(obj, level, i) = obj[k][i]
        /\ PatchRight(obj[k][i], i)
    BY <2>2, <1>1, TopRight
  <2>4. p[1] = k /\ p[2] = i /\ p # Nil
    BY <2>2, <1>6
  <2>5. obj[k][i].live /\ obj[k][i].name = n /\ obj[k][i].next = Nil /\ obj[k][i] # NoPatch
    BY <2>2, <2>3 DEF PatchRight, Plain
  <2>6. p \in Pointer
    BY <1>1 DEF Typed
  <2>7. k > 0
    BY <2>2
  <2> HIDE DEF k, p
  <2>8. Entries(htab, n) = <<p, Nil>>
    BY <2>4, <2>5, <2>6, ShortChains DEF p
  <2> QED BY <2>4, <2>5, <2>7, <2>8 DEF p
<1>7. mode = "run" => Whole(Entries(htab, n))
  <2> SUFFICES ASSUME mode = "run"  PROVE Whole(Entries(htab, n))
    OBVIOUS
  <2>1. CASE htab[n] = Nil
    <3>1. Entries(htab, n) = <<Nil>>
      BY <2>1, ShortChains
    <3> QED BY <3>1
  <2>2. CASE htab[n] # Nil
    <3>1. Entries(htab, n) = <<htab[n], Nil>>
      BY <2>2, <1>6
    <3> QED BY <3>1
  <2> QED BY <2>1, <2>2
<1> QED
  BY <1>4, <1>5, <1>6, <1>7

LEMMA NamesAreRight ==
  ASSUME IInv
  PROVE  NamesRight
<1>1. TypeOK
  <2>1. /\ Typed(obj, static, htab, list, level, mode) /\ ObjectsRight(obj, level)
    BY DEF IInv, Good
  <2>2. ASSUME NEW i \in Index
        PROVE  /\ obj[0][i] \in Record
               /\ \A l \in Level : obj[l][i] \in Record \cup {NoPatch}
    BY <2>1 DEF ObjectsRight, ObjectRight, Plain, Typed, Objects, Level
  <2> QED BY <2>1, <2>2 DEF TypeOK, Typed, Heads
<1>2. Findable
  <2> SUFFICES ASSUME mode = "run"
               PROVE  /\ \A i \in Index :
                           Top(obj, level, i).live => Find(Top(obj, level, i).name) = i
                      /\ \A n \in Name : Find(n) # NoIndex => Top(obj, level, Find(n)).live
    BY DEF Findable
  <2>1. Good(obj, static, htab, list, level, "run")
    BY DEF IInv
  <2> QED BY <2>1, Found
<1> QED
  BY <1>1, <1>2, ChainsAreRight DEF NamesRight

-----------------------------------------------------------------------------
(* Every step keeps it *)

LEMMA InitGood ==
  ASSUME Init
  PROVE  IInv
<1>1. /\ level = 0 /\ mode = "run" /\ 0 \in 0 .. MaxLevel
      /\ obj = [l \in 0 .. MaxLevel |->
                  [i \in Index |-> IF l = 0 THEN Unused ELSE NoPatch]]
      /\ static = [n \in Name |-> Nil] /\ htab = [n \in Name |-> Nil]
      /\ list = [l \in 0 .. MaxLevel |->
                   [clean |-> Nil, destruct |-> NoIndex, free |-> NoIndex, nobjects |-> 0]]
  BY DEF Init
<1>2. /\ \A i \in Index : obj[0][i] = Unused
      /\ \A m \in Level : \A i \in Index : obj[m][i] = NoPatch
  BY <1>1 DEF Level
<1>3. Nil \in Pointer /\ Nil \in Down
  BY DEF Pointer, Down
<1>4. /\ Unused \in Record /\ Unused.name = NoName /\ Unused.live = FALSE
      /\ Unused.kept = FALSE /\ Unused.next = Nil
  <2>1. 0 \in Link
    BY DEF Link, Index
  <2> QED BY <2>1, <1>3 DEF Unused, Record
<1>5. Typed(obj, static, htab, list, 0, "run")
  <2>1. obj \in Objects
    BY <1>1, <1>4 DEF Objects
  <2>2. [clean |-> Nil, destruct |-> NoIndex, free |-> NoIndex, nobjects |-> 0] \in Heads
    BY <1>3 DEF Heads, Link
  <2> QED BY <2>1, <2>2, <1>1, <1>3 DEF Typed
<1>6. ObjectsRight(obj, 0)
  BY <1>2, <1>3, <1>4 DEF ObjectsRight, ObjectRight, Plain
<1>7. GrownRight(obj, 0) /\ FreshRight(obj, 0, FALSE)
  BY DEF GrownRight, FreshRight, Grows
<1>8. \A i \in Index : View(obj, 0)[i] = Unused
  BY <1>2, TopOfTable DEF View
<1>9. PlanesRight(obj, list, 0, "run")
  <2>1. Unique(View(obj, 0))
    BY <1>4, <1>8 DEF Unique
  <2>2. ListsGood(View(obj, 0), list[0])
    <3> DEFINE R == View(obj, 0)
    <3> HIDE DEF R
    <3>1. \A i \in Index : R[i] = Unused
      BY <1>8 DEF R
    <3>2. /\ list[0].clean = Nil /\ list[0].destruct = NoIndex /\ list[0].free = NoIndex
          /\ list[0].nobjects = 0
      BY <1>1
    <3>3. FreeOf(R, 0) = {} /\ GoneOf(R) = {} /\ {} \in SUBSET Destructed(R)
      BY <3>1, <1>4 DEF FreeOf, GoneOf, Destructed
    <3>4. IndexOf(Nil) = NoIndex
      BY DEF IndexOf
    <3>5. \A i \in Index : R[i].name = NoName
      BY <3>1, <1>4
    <3>6. Lists(Prev(R), NoIndex, {}) /\ Lists(Cref(R), NoIndex, {}) /\ Lists(Dead(R), NoIndex, {})
      BY NoList
    <3>7. /\ Lists(Prev(R), list[0].free, FreeOf(R, list[0].nobjects))
          /\ Lists(Cref(R), list[0].destruct, GoneOf(R))
      BY <3>2, <3>3, <3>6
    <3>8. \E S \in SUBSET Destructed(R) : Lists(Dead(R), IndexOf(list[0].clean), S)
      BY <3>2, <3>3, <3>4, <3>6
    <3>9. list[0].clean \in Down /\ list[0].nobjects \in 0 .. MaxObjects
      BY <3>2, <1>3
    <3>10. ListsGood(R, list[0])
      BY <3>5, <3>7, <3>8, <3>9, Zenon DEF ListsGood
    <3> QED BY <3>10 DEF R
  <2>3. IndexedRight(obj, 0, list[0])
    BY <1>1 DEF IndexedRight, Index
  <2> QED BY <2>1, <2>2, <2>3 DEF PlanesRight, PlaneRight
<1>10. HtabRight(obj, htab, 0)
  BY <1>1, NoHtab
<1>11. StaticRight(obj, static, FALSE)
  BY <1>1, <1>2, <1>4 DEF StaticRight
<1> QED
  BY <1>1, <1>5, <1>6, <1>7, <1>9, <1>10, <1>11 DEF IInv, Good, Last1

LEMMA IdleKeeps ==
  ASSUME IInv, UNCHANGED vars
  PROVE  IInv'
BY DEF IInv, vars

LEMMA NextKeeps ==
  ASSUME RecompileLevel <= 1, IInv, [Next]_vars
  PROVE  IInv'
<1>1. CASE \E name \in Name : Create(name)
  BY <1>1, CreateKeeps
<1>2. CASE \E i \in Index : \E kept \in BOOLEAN : Destruct(i, kept)
  BY <1>2, DestructKeeps
<1>3. CASE \E i \in Index : Release(i)
  BY <1>3, ReleaseKeeps
<1>4. CASE \E i \in Index : Touch(i)
  BY <1>4, TouchKeeps
<1>5. CASE \E i \in Index : Look(i)
  BY <1>5, LookIsIdle, IdleKeeps
<1>6. CASE \E i \in Index : CommitToTable(i)
  BY <1>6, CommitToTableKeeps
<1>7. CASE \E i \in Index : CommitToPlane(i)
  BY <1>7, CommitToPlaneKeeps
<1>8. CASE \E i \in Index : DiscardPatch(i)
  BY <1>8, DiscardPatchKeeps
<1>9. CASE Enter
  BY <1>9, EnterKeeps
<1>10. CASE Return
  BY <1>10, ReturnKeeps
<1>11. CASE Fail
  BY <1>11, FailKeeps
<1>12. CASE Leave
  BY <1>12, LeaveKeeps
<1>13. CASE Clean
  BY <1>13, CleanKeeps
<1>14. CASE UNCHANGED vars
  BY <1>14, IdleKeeps
<1> QED
  BY <1>1, <1>2, <1>3, <1>4, <1>5, <1>6, <1>7, <1>8, <1>9, <1>10, <1>11, <1>12, <1>13, <1>14
  DEF Next

\* Whatever programs do, in whatever order atomic functions nest, return and
\* fail, and at each step of commitPlane() and discardPlane(), records, hash
\* tables and lists have to do with each other as IInv says.
THEOREM Inductive ==
  ASSUME RecompileLevel <= 1
  PROVE  Spec => []IInv
<1>1. Init => IInv
  BY InitGood
<1>2. IInv /\ [Next]_vars => IInv'
  BY NextKeeps
<1> QED
  BY <1>1, <1>2, PTL DEF Spec

\* find() finds each object by its name and no destructed one, and no entry of
\* either hash table is left of a patch that was deleted, whichever patches have
\* been committed or discarded before (find(), commitPlane(), discardPlane()).
THEOREM NamesAlwaysRight ==
  ASSUME RecompileLevel <= 1
  PROVE  Spec => []NamesRight
<1>1. IInv => NamesRight
  BY NamesAreRight
<1> QED
  BY <1>1, Inductive, PTL

LEMMA IndexListsAreRight ==
  ASSUME IInv
  PROVE  IndexListsRight
<1> SUFFICES ASSUME mode = "run"  PROVE ListsRight /\ CleanRight /\ IndicesRight
  BY DEF IndexListsRight, ListsRight, CleanRight, IndicesRight
<1>1. /\ Good(obj, static, htab, list, level, "run")
      /\ \A l \in 0 .. level : PlaneRight(obj, list, level, l)
      /\ level \in 0 .. MaxLevel
  <2>1. Good(obj, static, htab, list, level, "run")
    BY DEF IInv
  <2> QED BY <2>1, Running DEF Typed
<1>2. ASSUME NEW l \in 0 .. level
      PROVE  LET R == [i \in Index |-> Top(obj, l, i)]
                 Used == 0 .. list[l].nobjects - 1
                 free == Chain([i \in Index |-> R[i].prev], list[l].free)
                 gone == Chain([i \in Index |-> R[i].cref], list[l].destruct)
                 Holds(s, S) == /\ {s[n] : n \in 1 .. Len(s)} = S
                                /\ Len(s) = Cardinality(S)
             IN  /\ Holds(free, {i \in Used : R[i].name = NoName})
                 /\ Holds(gone, {i \in Used : R[i].name # NoName /\ ~R[i].live /\ ~R[i].kept})
  <2> DEFINE R == View(obj, l)
             h == list[l]
             Used == 0 .. h.nobjects - 1
             free == Chain(Prev(R), h.free)
             gone == Chain(Cref(R), h.destruct)
             F == {i \in Used : R[i].name = NoName}
             G == {i \in Used : R[i].name # NoName /\ ~R[i].live /\ ~R[i].kept}
  <2>1. ListsGood(R, h)
    BY <1>1 DEF PlaneRight
  <2> HIDE DEF R, h
  <2>2. F = FreeOf(R, h.nobjects)
    BY DEF FreeOf
  <2>3. G = GoneOf(R)
    <3>1. \A i \in Index : R[i].name # NoName => i \in Used
      BY <2>1 DEF ListsGood, Index
    <3>2. Used \subseteq Index
      BY <2>1 DEF ListsGood, Index
    <3> HIDE DEF Used
    <3> QED BY <3>1, <3>2 DEF GoneOf, Destructed
  <2> HIDE DEF F, G, Used
  <2>4. Lists(Prev(R), h.free, F) /\ Lists(Cref(R), h.destruct, G)
    BY <2>1, <2>2, <2>3 DEF ListsGood
  <2>5. /\ Elements(free) = F /\ Len(free) = Cardinality(F)
        /\ Elements(gone) = G /\ Len(gone) = Cardinality(G)
    BY <2>4, ListCount DEF Lists
  <2> HIDE DEF free, gone
  <2>6. /\ {free[n] : n \in 1 .. Len(free)} = F /\ Len(free) = Cardinality(F)
        /\ {gone[n] : n \in 1 .. Len(gone)} = G /\ Len(gone) = Cardinality(G)
    BY <2>5 DEF Elements
  <2> QED
    BY <2>6, Zenon DEF free, gone, F, G, Used, R, h, View, Prev, Cref
<1>3. ListsRight
  BY <1>2, Zenon DEF ListsRight
<1>4. ASSUME NEW l \in 0 .. level
      PROVE  LET R == [i \in Index |-> Top(obj, l, i)]
                 Next1(i) == IF R[i].next = Nil THEN NoIndex ELSE R[i].next[2]
                 dead == Chain([i \in Index |-> IF R[i].live THEN i ELSE Next1(i)],
                               IF list[l].clean = Nil THEN NoIndex ELSE list[l].clean[2])
             IN  /\ \A n \in 1 .. Len(dead) : ~R[dead[n]].live /\ R[dead[n]].name # NoName
                 /\ \A n, m \in 1 .. Len(dead) : dead[n] = dead[m] => n = m
  <2> DEFINE R == View(obj, l)
             h == list[l]
             dead == Chain(Dead(R), IndexOf(h.clean))
  <2>1. ListsGood(R, h)
    BY <1>1 DEF PlaneRight
  <2> HIDE DEF R, h
  <2>2. PICK S \in SUBSET Destructed(R) : Lists(Dead(R), IndexOf(h.clean), S)
    BY <2>1 DEF ListsGood
  <2>3. Runs(dead, Dead(R), IndexOf(h.clean)) /\ Elements(dead) \subseteq Destructed(R)
    BY <2>2 DEF Lists
  <2> HIDE DEF dead
  <2>4. /\ \A n \in 1 .. Len(dead) : ~R[dead[n]].live /\ R[dead[n]].name # NoName
        /\ \A n, m \in 1 .. Len(dead) : dead[n] = dead[m] => n = m
    BY <2>3 DEF Runs, Elements, Destructed
  <2> QED
    BY <2>4, Zenon DEF dead, R, h, View, Dead, IndexOf
<1>5. CleanRight
  BY <1>4, Zenon DEF CleanRight
<1>6. IndicesRight
  <2> SUFFICES ASSUME level = 0, NEW i \in Index, i < list[0].nobjects
               PROVE  obj[0][i].index = i
    BY DEF IndicesRight
  <2>1. PlaneRight(obj, list, 0, 0)
    BY <1>1
  <2> QED BY <2>1 DEF PlaneRight, IndexedRight
<1> QED
  BY <1>3, <1>5, <1>6

\* At every level each index is live, kept by references, destructed or free, and
\* in the list of its kind just once (alloc(), del(), remove(), clean()); and an
\* object that an atomic function took has its index again when that fails.
THEOREM IndexListsAlwaysRight ==
  ASSUME RecompileLevel <= 1
  PROVE  Spec => []IndexListsRight
<1>1. IInv => IndexListsRight
  BY IndexListsAreRight
<1> QED
  BY <1>1, Inductive, PTL

-----------------------------------------------------------------------------
(* Atomicity *)

\* The objects that there are, by name, in the records R.
NamesOf(R) ==
  [n \in Name |->
     IF \E i \in Index : R[i].live /\ R[i].name = n
       THEN CHOOSE i \in Index : R[i].live /\ R[i].name = n
       ELSE NoIndex]

\* The level that a reader of the refinement sees: inside of a failing atomic
\* function it already is that which the function found.
Shown == IF mode = "discard" THEN level - 1 ELSE level

BarStore == NamesOf(View(obj, Shown))
BarSaved == [d \in 1 .. Depth |-> NamesOf(View(obj, d - 1))]

\* Records of which the same are live and have the same names.
SameNames(R, Q) ==
  \A i \in Index : /\ Q[i].live <=> R[i].live
                   /\ R[i].live => Q[i].name = R[i].name

LEMMA NamesOfUnique ==
  ASSUME NEW R, Unique(R), NEW n \in Name
  PROVE  /\ \A i \in Index : R[i].live /\ R[i].name = n => NamesOf(R)[n] = i
         /\ (\A i \in Index : ~(R[i].live /\ R[i].name = n)) => NamesOf(R)[n] = NoIndex
<1>1. ASSUME NEW i \in Index, R[i].live, R[i].name = n
      PROVE  NamesOf(R)[n] = i
  <2> DEFINE j == CHOOSE j \in Index : R[j].live /\ R[j].name = n
  <2>1. j \in Index /\ R[j].live /\ R[j].name = n
    BY <1>1
  <2>2. j = i
    BY <2>1, <1>1 DEF Unique
  <2> HIDE DEF j
  <2> QED BY <1>1, <2>2 DEF NamesOf, j
<1> QED
  BY <1>1 DEF NamesOf

LEMMA SameNamesOf ==
  ASSUME NEW R, NEW Q, Unique(R), SameNames(R, Q)
  PROVE  NamesOf(Q) = NamesOf(R)
<1>1. Unique(Q)
  BY DEF Unique, SameNames
<1>2. ASSUME NEW n \in Name
      PROVE  NamesOf(Q)[n] = NamesOf(R)[n]
  <2>1. CASE \E i \in Index : R[i].live /\ R[i].name = n
    <3>1. PICK i \in Index : R[i].live /\ R[i].name = n
      BY <2>1
    <3>2. Q[i].live /\ Q[i].name = n
      BY <3>1 DEF SameNames
    <3> QED BY <3>1, <3>2, <1>1, NamesOfUnique
  <2>2. CASE ~\E i \in Index : R[i].live /\ R[i].name = n
    <3>1. ~\E i \in Index : Q[i].live /\ Q[i].name = n
      BY <2>2 DEF SameNames
    <3> QED BY <2>2, <3>1, <1>1, NamesOfUnique
  <2> QED BY <2>1, <2>2
<1> QED
  BY <1>2 DEF NamesOf

\* Whether planes show is settled for the levels that the refinement sees.
LEMMA SeenUnique ==
  ASSUME IInv
  PROVE  /\ Unique(View(obj, Shown)) /\ Shown \in 0 .. level /\ Depth \in 0 .. level
         /\ \A d \in 1 .. Depth : d - 1 \in 0 .. level /\ Unique(View(obj, d - 1))
<1>1. /\ level \in 0 .. MaxLevel /\ mode \in {"run", "commit", "discard"}
      /\ mode # "run" => level > 0
      /\ \A l \in 0 .. level : Settled(l, level, mode) => Unique(View(obj, l))
  BY DEF IInv, Good, Typed, PlanesRight, PlaneRight
<1>2. /\ Shown \in 0 .. level /\ Settled(Shown, level, mode) /\ Depth \in 0 .. level
      /\ \A d \in 1 .. Depth : d - 1 \in 0 .. level /\ Settled(d - 1, level, mode)
  BY <1>1 DEF Shown, Settled, Depth
<1> QED
  BY <1>1, <1>2

\* What planes below the one that runs undo is what was saved.
LEMMA SavedStay ==
  ASSUME IInv, Depth' = Depth,
         \A d \in 1 .. Depth : SameNames(View(obj, d - 1), View(obj', d - 1))
  PROVE  BarSaved' = BarSaved
<1>1. \A d \in 1 .. Depth : NamesOf(View(obj', d - 1)) = NamesOf(View(obj, d - 1))
  BY SeenUnique, SameNamesOf
<1>2. BarSaved' = [d \in 1 .. Depth |-> NamesOf(View(obj', d - 1))]
  BY DEF BarSaved, NamesOf, View, Top, TopLevel
<1> QED
  BY <1>1, <1>2 DEF BarSaved

LEMMA StoreIs ==
  /\ BarStore = Named(Shown) /\ BarStore' = Named(Shown)'
  /\ BarSaved = [d \in 1 .. Depth |-> Named(d - 1)]
  /\ BarSaved' = [d \in 1 .. Depth |-> Named(d - 1)]'
  /\ BarStore' = NamesOf(View(obj', Shown'))
BY ZenonT(120) DEF BarStore, BarSaved, Named, NamesOf, View, Shown, Top, TopLevel

LEMMA AgreeingNames ==
  ASSUME NEW R, NEW Q, \A i \in Index : Agree(R[i], Q[i])
  PROVE  SameNames(R, Q)
BY DEF Agree, SameNames

LEMMA NamesOfAt ==
  ASSUME NEW R
  PROVE  NamesOf(R) = [n \in Name |-> NamesOf(R)[n]]
BY DEF NamesOf

\* A step that changes no name that is seen.
LEMMA Unseen ==
  ASSUME IInv, Depth' = Depth,
         SameNames(View(obj, Shown), View(obj', Shown')),
         \A d \in 1 .. Depth : SameNames(View(obj, d - 1), View(obj', d - 1))
  PROVE  [Store!Next]_(Store!vars)
<1>1. BarSaved' = BarSaved
  BY SavedStay
<1>2. BarStore' = BarStore
  <2>1. NamesOf(View(obj', Shown')) = NamesOf(View(obj, Shown))
    BY SeenUnique, SameNamesOf
  <2> QED BY <2>1, StoreIs DEF BarStore
<1>3. Store!vars = <<BarStore, Depth, BarSaved>> /\ Store!vars' = <<BarStore', Depth', BarSaved'>>
  BY StoreIs DEF Store!vars, Shown
<1> QED
  BY <1>1, <1>2, <1>3

\* What an object does on a plane is not seen on the planes below.
LEMMA OnlyHere ==
  ASSUME IInv, mode = "run", mode' = "run", level' = level,
         NEW i \in Index, Only(obj, obj', level, i)
  PROVE  /\ Depth' = Depth /\ BarSaved' = BarSaved
         /\ Shown = level /\ Shown' = level /\ level \in 0 .. MaxLevel
         /\ \A d \in 1 .. Depth : SameNames(View(obj, d - 1), View(obj', d - 1))
         /\ \A j \in Index : j # i =>
              /\ View(obj', level)[j].live <=> View(obj, level)[j].live
              /\ View(obj, level)[j].live =>
                   View(obj', level)[j].name = View(obj, level)[j].name
<1>1. /\ Depth = level /\ Depth' = level /\ Shown = level /\ Shown' = level
      /\ level \in 0 .. MaxLevel
  BY DEF Depth, Shown, IInv, Good, Typed
<1>2. ASSUME NEW d \in 1 .. Depth
      PROVE  SameNames(View(obj, d - 1), View(obj', d - 1))
  <2>1. d - 1 \in 0 .. level /\ d - 1 # level
    BY <1>1
  <2>2. \A j \in Index : Agree(View(obj, d - 1)[j], View(obj', d - 1)[j])
    BY <2>1 DEF Only, View
  <2> QED BY <2>2, AgreeingNames
<1>3. BarSaved' = BarSaved
  BY <1>1, <1>2, SavedStay
<1>4. ASSUME NEW j \in Index, j # i
      PROVE  /\ View(obj', level)[j].live <=> View(obj, level)[j].live
             /\ View(obj, level)[j].live =>
                  View(obj', level)[j].name = View(obj, level)[j].name
  <2>1. Agree(View(obj, level)[j], View(obj', level)[j])
    BY <1>1, <1>4 DEF Only, View
  <2> QED BY <2>1 DEF Agree
<1> QED
  BY <1>1, <1>2, <1>3, <1>4

LEMMA CreatePuts ==
  ASSUME RecompileLevel <= 1, IInv, NEW name \in Name, Create(name)
  PROVE  Store!Next
<1> DEFINE i == NextFree
           R == View(obj, level)
           Q == View(obj', level)
<1>1. mode = "run" /\ mode' = "run" /\ level' = level
  BY DEF Create
<1>2. /\ IInv' /\ i \in Index /\ Only(obj, obj', level, i)
      /\ \A j \in Index : R[j].live => R[j].name # name
      /\ ~R[i].live /\ Q[i].live /\ Q[i].name = name
  <2>1. /\ IInv' /\ i \in Index /\ Only(obj, obj', level, i)
        /\ \A j \in Index : Top(obj, level, j).live => Top(obj, level, j).name # name
        /\ ~Top(obj, level, i).live
        /\ Top(obj', level, i).live /\ Top(obj', level, i).name = name
    BY CreateKeeps
  <2> QED BY <2>1 DEF View
<1> HIDE DEF i, R, Q
<1>3. /\ Depth' = Depth /\ BarSaved' = BarSaved /\ Shown = level /\ Shown' = level
      /\ \A j \in Index : j # i =>
           /\ Q[j].live <=> R[j].live
           /\ R[j].live => Q[j].name = R[j].name
  BY <1>1, <1>2, OnlyHere DEF R, Q
<1>4. Unique(R)
  BY <1>3, SeenUnique DEF R
<1>5. Unique(Q)
  BY <1>2, <1>3, <1>4 DEF Unique
<1>6. BarStore = NamesOf(R) /\ BarStore' = NamesOf(Q)
  BY <1>3, StoreIs DEF R, Q, BarStore
<1>7. NamesOf(R)[name] = NoIndex /\ NamesOf(Q)[name] = i
  BY <1>2, <1>4, <1>5, NamesOfUnique
<1>8. \A n \in Name : n # name => NamesOf(Q)[n] = NamesOf(R)[n]
  <2> SUFFICES ASSUME NEW n \in Name, n # name PROVE NamesOf(Q)[n] = NamesOf(R)[n]
    OBVIOUS
  <2>1. CASE \E j \in Index : R[j].live /\ R[j].name = n
    <3>1. PICK j \in Index : R[j].live /\ R[j].name = n
      BY <2>1
    <3>2. Q[j].live /\ Q[j].name = n
      BY <3>1, <1>2, <1>3
    <3> QED BY <3>1, <3>2, <1>4, <1>5, NamesOfUnique
  <2>2. CASE ~\E j \in Index : R[j].live /\ R[j].name = n
    <3>1. ~\E j \in Index : Q[j].live /\ Q[j].name = n
      BY <2>2, <1>2, <1>3
    <3> QED BY <2>2, <3>1, <1>4, <1>5, NamesOfUnique
  <2> QED BY <2>1, <2>2
<1>9. BarStore[name] = NoIndex /\ BarStore' = [BarStore EXCEPT ![name] = i]
  <2>1. NamesOf(Q) = [NamesOf(R) EXCEPT ![name] = i]
    BY <1>7, <1>8, NamesOfAt
  <2> QED BY <2>1, <1>6, <1>7
<1>10. Store!Put(name, i)
  BY <1>3, <1>9, StoreIs DEF Store!Put, Shown
<1> QED
  BY <1>2, <1>10 DEF Store!Next

LEMMA DestructDeletes ==
  ASSUME IInv, NEW i \in Index, NEW kept \in BOOLEAN, Destruct(i, kept)
  PROVE  Store!Next
<1> DEFINE R == View(obj, level)
           Q == View(obj', level)
           name == R[i].name
<1>1. mode = "run" /\ mode' = "run" /\ level' = level /\ R[i].live
  BY DEF Destruct, View
<1>2. Only(obj, obj', level, i) /\ ~Q[i].live /\ name \in Name
  <2>1. Only(obj, obj', level, i) /\ ~Top(obj', level, i).live
    BY DestructKeeps
  <2>2. level \in 0 .. MaxLevel /\ ObjectsRight(obj, level)
    BY DEF IInv, Good, Typed
  <2>3. name \in Name
    BY <2>2, <1>1, LiveNamed DEF View
  <2> QED BY <2>1, <2>3 DEF View
<1> HIDE DEF R, Q
<1>3. /\ Depth' = Depth /\ BarSaved' = BarSaved /\ Shown = level /\ Shown' = level
      /\ \A j \in Index : j # i =>
           /\ Q[j].live <=> R[j].live
           /\ R[j].live => Q[j].name = R[j].name
  BY <1>1, <1>2, OnlyHere DEF R, Q
<1>4. Unique(R)
  BY <1>3, SeenUnique DEF R
<1>5. Unique(Q)
  BY <1>2, <1>3, <1>4 DEF Unique
<1>6. BarStore = NamesOf(R) /\ BarStore' = NamesOf(Q)
  BY <1>3, StoreIs DEF R, Q, BarStore
<1>7. NamesOf(R)[name] = i /\ NamesOf(Q)[name] = NoIndex
  <2>1. \A j \in Index : ~(Q[j].live /\ Q[j].name = name)
    BY <1>1, <1>2, <1>3, <1>4 DEF Unique
  <2> QED BY <2>1, <1>1, <1>2, <1>4, <1>5, NamesOfUnique
<1>8. \A n \in Name : n # name => NamesOf(Q)[n] = NamesOf(R)[n]
  <2> SUFFICES ASSUME NEW n \in Name, n # name PROVE NamesOf(Q)[n] = NamesOf(R)[n]
    OBVIOUS
  <2>1. CASE \E j \in Index : R[j].live /\ R[j].name = n
    <3>1. PICK j \in Index : R[j].live /\ R[j].name = n
      BY <2>1
    <3>2. Q[j].live /\ Q[j].name = n
      BY <3>1, <1>2, <1>3
    <3> QED BY <3>1, <3>2, <1>4, <1>5, NamesOfUnique
  <2>2. CASE ~\E j \in Index : R[j].live /\ R[j].name = n
    <3>1. ~\E j \in Index : Q[j].live /\ Q[j].name = n
      BY <2>2, <1>2, <1>3
    <3> QED BY <2>2, <3>1, <1>4, <1>5, NamesOfUnique
  <2> QED BY <2>1, <2>2
<1> HIDE DEF name
<1>9. BarStore[name] # NoIndex /\ BarStore' = [BarStore EXCEPT ![name] = NoIndex]
  <2>1. NamesOf(Q) = [NamesOf(R) EXCEPT ![name] = NoIndex]
    BY <1>2, <1>7, <1>8, NamesOfAt
  <2>2. i # NoIndex
    BY DEF Index, NoIndex
  <2> QED BY <2>1, <2>2, <1>6, <1>7
<1>10. Store!Delete(name)
  BY <1>3, <1>9, StoreIs DEF Store!Delete, Shown
<1> QED
  BY <1>2, <1>10 DEF Store!Next

LEMMA RunningUnseen ==
  ASSUME IInv, mode = "run", mode' = "run", level' = level,
         NEW i \in Index, Only(obj, obj', level, i),
         View(obj', level)[i].live <=> View(obj, level)[i].live,
         View(obj, level)[i].live => View(obj', level)[i].name = View(obj, level)[i].name
  PROVE  [Store!Next]_(Store!vars)
<1>1. /\ Depth' = Depth /\ Shown = level /\ Shown' = level
      /\ \A d \in 1 .. Depth : SameNames(View(obj, d - 1), View(obj', d - 1))
      /\ \A j \in Index : j # i =>
           /\ View(obj', level)[j].live <=> View(obj, level)[j].live
           /\ View(obj, level)[j].live =>
                View(obj', level)[j].name = View(obj, level)[j].name
  BY OnlyHere
<1>2. SameNames(View(obj, level), View(obj', level))
  BY <1>1 DEF SameNames
<1> QED
  BY <1>1, <1>2, Unseen

LEMMA ReleaseIsUnseen ==
  ASSUME IInv, NEW i \in Index, Release(i)
  PROVE  [Store!Next]_(Store!vars)
<1>1. mode = "run" /\ mode' = "run" /\ level' = level
  BY DEF Release
<1>2. /\ Only(obj, obj', level, i)
      /\ ~View(obj, level)[i].live /\ ~View(obj', level)[i].live
  BY ReleaseKeeps DEF View
<1> QED
  BY <1>1, <1>2, RunningUnseen

LEMMA TouchIsUnseen ==
  ASSUME IInv, NEW i \in Index, Touch(i)
  PROVE  [Store!Next]_(Store!vars)
<1>1. mode = "run" /\ mode' = "run" /\ level' = level
  BY DEF Touch
<1>2. Only(obj, obj', level, i) /\ Agree(View(obj, level)[i], View(obj', level)[i])
  BY TouchKeeps DEF View
<1> QED
  BY <1>1, <1>2, RunningUnseen DEF Agree

LEMMA IdleIsUnseen ==
  ASSUME IInv, UNCHANGED vars
  PROVE  [Store!Next]_(Store!vars)
<1>1. Depth' = Depth /\ Shown' = Shown /\ obj' = obj
  BY DEF vars, Depth, Shown
<1>2. \A R : SameNames(R, R)
  BY DEF SameNames
<1> QED
  BY <1>1, <1>2, Unseen

\* A patch that is committed is what the plane shows before and after; the levels
\* that are saved are below that which it goes to.
LEMMA CommitIsUnseen ==
  ASSUME IInv, NEW i \in Index, CommitToTable(i) \/ CommitToPlane(i)
  PROVE  [Store!Next]_(Store!vars)
<1>1. /\ mode = "commit" /\ mode' = "commit" /\ level' = level
      /\ level \in 1 .. MaxLevel
  <2>1. level \in 0 .. MaxLevel /\ (mode # "run" => level # 0)
    BY DEF IInv, Good, Typed
  <2>2. mode = "commit" /\ mode' = mode /\ level' = level
    BY Zenon DEF CommitToTable, CommitToPlane
  <2> QED BY <2>1, <2>2
<1>2. Committed(obj, obj', level, i)
  BY CommitToTableKeeps, CommitToPlaneKeeps
<1>3. /\ Shown = level /\ Shown' = level /\ Depth = level - 1 /\ Depth' = level - 1
  BY <1>1 DEF Shown, Depth
<1>4. \A l \in 0 .. level : \A j \in Index :
        Agree(Top(obj, From(level, i, l, j), j), Top(obj', l, j))
  BY <1>1, <1>2, CommittedTops
<1>5. ASSUME NEW l \in 0 .. level, l # level - 1
      PROVE  SameNames(View(obj, l), View(obj', l))
  <2>1. \A j \in Index : From(level, i, l, j) = l
    BY <1>5 DEF From
  <2>2. \A j \in Index : Agree(View(obj, l)[j], View(obj', l)[j])
    BY <1>4, <1>5, <2>1 DEF View
  <2> QED BY <2>2, AgreeingNames
<1>6. level \in 0 .. level /\ level # level - 1
      /\ \A d \in 1 .. Depth : d - 1 \in 0 .. level /\ d - 1 # level - 1
  BY <1>1, <1>3
<1> QED
  BY <1>3, <1>5, <1>6, Unseen

\* A patch that is discarded is above the levels that are seen.
LEMMA DiscardIsUnseen ==
  ASSUME IInv, NEW i \in Index, DiscardPatch(i)
  PROVE  [Store!Next]_(Store!vars)
<1>1. /\ mode = "discard" /\ mode' = "discard" /\ level' = level
      /\ level \in 1 .. MaxLevel /\ obj \in Objects /\ ObjectsRight(obj, level)
  <2>1. /\ level \in 0 .. MaxLevel /\ (mode # "run" => level # 0)
        /\ obj \in Objects /\ ObjectsRight(obj, level)
    BY DEF IInv, Good, Typed
  <2>2. mode = "discard" /\ mode' = mode /\ level' = level
    BY Zenon DEF DiscardPatch
  <2> QED BY <2>1, <2>2
<1>2. Discarded(obj, obj', level, i)
  BY DiscardPatchKeeps
<1>3. /\ Shown = level - 1 /\ Shown' = level - 1 /\ Depth = level - 1 /\ Depth' = level - 1
  BY <1>1 DEF Shown, Depth
<1>4. \A l \in 0 .. level : \A j \in Index :
        Agree(Top(obj, Below(level, i, l, j), j), Top(obj', l, j))
  BY <1>1, <1>2, DiscardedTops
<1>5. ASSUME NEW l \in 0 .. level, l # level
      PROVE  SameNames(View(obj, l), View(obj', l))
  <2>1. \A j \in Index : Below(level, i, l, j) = l
    BY <1>5 DEF Below
  <2>2. \A j \in Index : Agree(View(obj, l)[j], View(obj', l)[j])
    BY <1>4, <1>5, <2>1 DEF View
  <2> QED BY <2>2, AgreeingNames
<1>6. level - 1 \in 0 .. level /\ level - 1 # level
      /\ \A d \in 1 .. Depth : d - 1 \in 0 .. level /\ d - 1 # level
  BY <1>1, <1>3
<1> QED
  BY <1>3, <1>5, <1>6, Unseen

\* The plane that goes has no patches left: it shows what that below does.
LEMMA LeaveIsUnseen ==
  ASSUME IInv, Leave
  PROVE  [Store!Next]_(Store!vars)
<1>1. /\ mode \in {"commit", "discard"} /\ mode' = "run" /\ level' = level - 1
      /\ level \in 1 .. MaxLevel /\ obj' = obj
      /\ \A i \in Index : obj[level][i] = NoPatch
  <2>1. level \in 0 .. MaxLevel /\ (mode # "run" => level # 0)
    BY DEF IInv, Good, Typed
  <2> QED BY <2>1 DEF Leave
<1>2. View(obj, level) = View(obj, level - 1)
  BY <1>1, EmptyPlane
<1>3. /\ Shown \in {level, level - 1} /\ Shown' = level - 1
      /\ Depth = level - 1 /\ Depth' = level - 1
  BY <1>1 DEF Shown, Depth
<1>4. \A R : SameNames(R, R)
  BY DEF SameNames
<1>5. View(obj', Shown') = View(obj, Shown)
  BY <1>1, <1>2, <1>3
<1> QED
  BY <1>1, <1>3, <1>4, <1>5, Unseen

\* What becomes free is destructed.
LEMMA CleanIsUnseen ==
  ASSUME IInv, Clean
  PROVE  [Store!Next]_(Store!vars)
<1>1. mode = "run" /\ mode' = "run" /\ level = 0 /\ level' = 0
  BY DEF Clean
<1>2. Shown = 0 /\ Shown' = 0 /\ Depth = 0 /\ Depth' = 0
  BY <1>1 DEF Shown, Depth
<1>3. \A i \in Index : /\ View(obj', 0)[i].live <=> View(obj, 0)[i].live
                       /\ View(obj, 0)[i].live => View(obj', 0)[i] = View(obj, 0)[i]
  BY CleanKeeps DEF View
<1>4. SameNames(View(obj, 0), View(obj', 0))
  BY <1>3 DEF SameNames
<1> QED
  BY <1>2, <1>4, Unseen

LEMMA EnterBegins ==
  ASSUME IInv, Enter
  PROVE  Store!Next
<1>1. /\ mode = "run" /\ mode' = "run" /\ level' = level + 1 /\ obj' = obj
      /\ level \in 0 .. MaxLevel - 1
  BY DEF IInv, Good, Typed, Enter
<1>2. \A i \in Index : obj[level + 1][i] = NoPatch
  <2> TAKE i \in Index
  <2>1. level + 1 \in Level /\ ~ (level + 1 <= level)
    BY <1>1 DEF Level
  <2>2. ObjectRight(obj, level, i)
    BY DEF IInv, Good, ObjectsRight
  <2> QED BY <2>1, <2>2 DEF ObjectRight
<1>3. View(obj, level + 1) = View(obj, level)
  <2>1. level + 1 \in Nat /\ level + 1 # 0 /\ (level + 1) - 1 = level
    BY <1>1
  <2> QED BY <1>2, <2>1, EmptyPlane
<1>4. Depth = level /\ Depth' = level + 1 /\ Shown = level /\ Shown' = level + 1
  BY <1>1 DEF Depth, Shown
<1>5. BarStore' = BarStore
  BY <1>1, <1>3, <1>4, StoreIs DEF BarStore
<1>6. BarSaved' = [d \in 1 .. Depth + 1 |->
                     IF d = Depth + 1 THEN BarStore ELSE BarSaved[d]]
  <2>1. BarSaved' = [d \in 1 .. Depth' |-> NamesOf(View(obj', d - 1))]
    BY DEF BarSaved, NamesOf, View, Top, TopLevel
  <2>2. \A d \in 1 .. Depth + 1 :
          NamesOf(View(obj', d - 1)) = IF d = Depth + 1 THEN BarStore ELSE BarSaved[d]
    BY <1>1, <1>4 DEF BarStore, BarSaved
  <2> QED BY <2>1, <2>2, <1>4
<1>7. Store!Begin
  BY <1>4, <1>5, <1>6, StoreIs DEF Store!Begin, Shown
<1> QED
  BY <1>7 DEF Store!Next

LEMMA Ending ==
  ASSUME IInv, level > 0, mode = "run", mode' \in {"commit", "discard"},
         level' = level, obj' = obj
  PROVE  /\ Depth = level /\ Depth' = level - 1 /\ Depth > 0 /\ level \in 1 .. MaxLevel
         /\ BarSaved' = [d \in 1 .. Depth - 1 |-> BarSaved[d]]
<1>1. level \in 1 .. MaxLevel
  BY DEF IInv, Good, Typed
<1>2. Depth = level /\ Depth' = level - 1
  BY DEF Depth
<1>3. BarSaved' = [d \in 1 .. Depth' |-> NamesOf(View(obj', d - 1))]
  BY DEF BarSaved, NamesOf, View, Top, TopLevel
<1>4. \A d \in 1 .. Depth - 1 : NamesOf(View(obj', d - 1)) = BarSaved[d]
  BY <1>1, <1>2 DEF BarSaved
<1> QED
  BY <1>1, <1>2, <1>3, <1>4

LEMMA ReturnCommits ==
  ASSUME IInv, Return
  PROVE  Store!Next
<1>1. mode = "run" /\ mode' = "commit" /\ level' = level /\ obj' = obj /\ level > 0
  BY DEF Return
<1>2. /\ Depth' = Depth - 1 /\ Depth > 0
      /\ BarSaved' = [d \in 1 .. Depth - 1 |-> BarSaved[d]]
  BY <1>1, Ending
<1>3. BarStore' = BarStore
  <2>1. Shown' = Shown
    BY <1>1 DEF Shown
  <2> QED BY <1>1, <2>1, StoreIs DEF BarStore
<1>4. Store!Commit
  BY <1>2, <1>3, StoreIs DEF Store!Commit, Shown
<1> QED
  BY <1>4 DEF Store!Next

LEMMA FailAborts ==
  ASSUME IInv, Fail
  PROVE  Store!Next
<1>1. mode = "run" /\ mode' = "discard" /\ level' = level /\ obj' = obj /\ level > 0
  BY DEF Fail
<1>2. /\ Depth = level /\ Depth' = Depth - 1 /\ Depth > 0 /\ level \in 1 .. MaxLevel
      /\ BarSaved' = [d \in 1 .. Depth - 1 |-> BarSaved[d]]
  BY <1>1, Ending
<1>3. BarStore' = BarSaved[Depth]
  <2>1. Shown' = level - 1
    BY <1>1 DEF Shown
  <2>2. BarSaved[Depth] = NamesOf(View(obj, level - 1))
    BY <1>2 DEF BarSaved
  <2> QED BY <1>1, <2>1, <2>2, StoreIs
<1>4. Store!Abort
  BY <1>2, <1>3, StoreIs DEF Store!Abort, Shown
<1> QED
  BY <1>4 DEF Store!Next

LEMMA InitEmpty ==
  ASSUME Init
  PROVE  Store!Init
<1>1. IInv /\ level = 0 /\ mode = "run" /\ Shown = 0 /\ Depth = 0
  BY InitGood DEF Init, Shown, Depth
<1>2. Unique(View(obj, 0))
  BY <1>1, SeenUnique
<1>3. \A i \in Index : ~View(obj, 0)[i].live
  <2>1. \A i \in Index : obj[0][i] = Unused
    BY DEF Init
  <2> QED BY <2>1, TopOfTable DEF View, Unused
<1>4. BarStore = [n \in Name |-> NoIndex]
  <2>1. \A n \in Name : NamesOf(View(obj, 0))[n] = NoIndex
    BY <1>2, <1>3, NamesOfUnique
  <2> QED BY <2>1, <1>1, NamesOfAt DEF BarStore
<1>5. BarSaved = [d \in 1 .. 0 |-> BarStore]
  BY <1>1 DEF BarSaved
<1> QED
  BY <1>1, <1>4, <1>5, StoreIs DEF Store!Init, Shown

\* Atomic functions are atomic for the objects that there are: one that returns
\* keeps what it created and destructed, one that fails undoes exactly that, at
\* every level of nesting, although patches are committed and discarded one at a
\* time and in any order (newPlane(), commitPlane(), discardPlane()).
THEOREM Atomicity ==
  ASSUME RecompileLevel <= 1
  PROVE  Spec => IsAtomic
<1>1. Init => Store!Init
  BY InitEmpty
<1>2. IInv /\ [Next]_vars => [Store!Next]_(Store!vars)
  <2> SUFFICES ASSUME IInv, [Next]_vars PROVE [Store!Next]_(Store!vars)
    OBVIOUS
  <2>1. CASE \E name \in Name : Create(name)
    BY <2>1, CreatePuts
  <2>2. CASE \E i \in Index : \E kept \in BOOLEAN : Destruct(i, kept)
    BY <2>2, DestructDeletes
  <2>3. CASE \E i \in Index : Release(i) \/ Touch(i)
    BY <2>3, ReleaseIsUnseen, TouchIsUnseen
  <2>4. CASE (\E i \in Index : Look(i)) \/ UNCHANGED vars
    BY <2>4, LookIsIdle, IdleIsUnseen
  <2>5. CASE \E i \in Index : CommitToTable(i) \/ CommitToPlane(i)
    BY <2>5, CommitIsUnseen
  <2>6. CASE \E i \in Index : DiscardPatch(i)
    BY <2>6, DiscardIsUnseen
  <2>7. CASE Enter
    BY <2>7, EnterBegins
  <2>8. CASE Return
    BY <2>8, ReturnCommits
  <2>9. CASE Fail
    BY <2>9, FailAborts
  <2>10. CASE Leave
    BY <2>10, LeaveIsUnseen
  <2>11. CASE Clean
    BY <2>11, CleanIsUnseen
  <2> QED
    BY <2>1, <2>2, <2>3, <2>4, <2>5, <2>6, <2>7, <2>8, <2>9, <2>10, <2>11 DEF Next
<1> QED
  BY Inductive, <1>1, <1>2, PTL DEF Spec, IsAtomic, Store!Spec
=============================================================================
