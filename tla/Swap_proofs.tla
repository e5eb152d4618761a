-------------------------------- MODULE Swap_proofs -------------------------
(***************************************************************************)
(* Proofs about the swap device.  Good says what is expected of a device:  *)
(* the cache is one, no sector and no index is lost or used twice, what    *)
(* was written is found in the cache or in the file that it was written    *)
(* to or is still to be restored from, and nothing below the barrier of an *)
(* incremental snapshot changes.  For each operation there is a lemma that *)
(* it leads from a Good device to a Good device, and what its sectors hold *)
(* then.  The operations on vectors of sectors are loops (Each), to which  *)
(* the rule of the module Repeat is applied.                               *)
(***************************************************************************)
EXTENDS Swap, SequenceTheorems, FiniteSetTheorems, TLAPS

\* Sequence q has each element of S once, and nothing else: the lists of slots,
\* of sectors and of indices that swap.c links through its tables.
Lists(q, S) ==
    /\ q \in Seq(S)
    /\ \A i, j \in 1 .. Len(q) : q[i] = q[j] => i = j
    /\ \A x \in S : \E i \in 1 .. Len(q) : q[i] = x

\* Lists, in the terms of the properties.
LEMMA ListsIs ==
  ASSUME NEW q, NEW S
  PROVE  Lists(q, S) <=> q \in Seq(S) /\ IsInjective(q) /\ ToSet(q) = S
<1>1. CASE q \in Seq(S)
  <2>1. DOMAIN q = 1 .. Len(q) /\ \A i \in 1 .. Len(q) : q[i] \in S
    BY <1>1, LenProperties
  <2> QED BY <1>1, <2>1 DEF Lists, IsInjective, ToSet
<1>2. CASE q \notin Seq(S)
  BY <1>2 DEF Lists
<1> QED BY <1>1, <1>2

\* A sequence of elements of S has elements of S.
LEMMA ToSetIn ==
  ASSUME NEW S, NEW q \in Seq(S)
  PROVE  ToSet(q) \subseteq S
BY LenProperties, ElementOfSeq DEF ToSet

\* The empty list has nothing, and is the only one.
LEMMA ListsNone ==
  /\ Lists(<<>>, {})
  /\ \A q, S : Lists(q, S) => (q = <<>> <=> S = {})
<1>1. Lists(<<>>, {})
  BY EmptySeq DEF Lists
<1>2. ASSUME NEW q, NEW S, Lists(q, S)  PROVE q = <<>> <=> S = {}
  <2>1. q # <<>> => Len(q) \in Nat \ {0} /\ q[1] \in S
    BY <1>2, EmptySeq, ElementOfSeq DEF Lists
  <2>2. q = <<>> => Len(q) = 0
    BY EmptySeq
  <2> QED BY <1>2, <2>1, <2>2 DEF Lists
<1> QED BY <1>1, <1>2

\* Two lists without a common element make one list.
LEMMA ListsConcat ==
  ASSUME NEW q, NEW r, NEW S, NEW T, Lists(q, S), Lists(r, T), S \cap T = {}
  PROVE  Lists(q \o r, S \cup T)
<1>1. q \in Seq(S \cup T) /\ r \in Seq(S \cup T)
  BY SeqMonotonic DEF Lists
<1>2. Len(q) \in Nat /\ Len(r) \in Nat
  BY <1>1, LenProperties
<1>3. /\ q \o r \in Seq(S \cup T)
      /\ Len(q \o r) = Len(q) + Len(r)
      /\ \A i \in 1 .. Len(q) + Len(r) :
            (q \o r)[i] = IF i <= Len(q) THEN q[i] ELSE r[i - Len(q)]
  BY <1>1, ConcatProperties
<1>4. /\ \A i \in 1 .. Len(q) : q[i] \in S
      /\ \A i \in 1 .. Len(r) : r[i] \in T
  BY ElementOfSeq DEF Lists
<1>5. ASSUME NEW i \in 1 .. Len(q \o r), NEW j \in 1 .. Len(q \o r),
             (q \o r)[i] = (q \o r)[j]
      PROVE  i = j
  <2>1. CASE i <= Len(q) /\ j <= Len(q)
    BY <1>2, <1>3, <1>5, <2>1 DEF Lists
  <2>2. CASE i > Len(q) /\ j > Len(q)
    <3>1. i - Len(q) \in 1 .. Len(r) /\ j - Len(q) \in 1 .. Len(r)
      BY <1>2, <1>3, <2>2
    <3>2. r[i - Len(q)] = r[j - Len(q)]
      BY <1>2, <1>3, <1>5, <2>2
    <3>3. i - Len(q) = j - Len(q)
      BY <3>1, <3>2 DEF Lists
    <3> QED BY <1>2, <3>3
  <2>3. CASE i <= Len(q) /\ j > Len(q)
    <3>1. i \in 1 .. Len(q) /\ j - Len(q) \in 1 .. Len(r)
      BY <1>2, <1>3, <2>3
    <3>2. q[i] = r[j - Len(q)]
      BY <1>2, <1>3, <1>5, <2>3
    <3> QED BY <3>1, <3>2, <1>4
  <2>4. CASE i > Len(q) /\ j <= Len(q)
    <3>1. j \in 1 .. Len(q) /\ i - Len(q) \in 1 .. Len(r)
      BY <1>2, <1>3, <2>4
    <3>2. q[j] = r[i - Len(q)]
      BY <1>2, <1>3, <1>5, <2>4
    <3> QED BY <3>1, <3>2, <1>4
  <2> QED BY <1>2, <1>3, <2>1, <2>2, <2>3, <2>4
<1>6. ASSUME NEW x \in S \cup T
      PROVE  \E i \in 1 .. Len(q \o r) : (q \o r)[i] = x
  <2>1. CASE x \in S
    <3>1. PICK i \in 1 .. Len(q) : q[i] = x
      BY <2>1 DEF Lists
    <3>2. i \in 1 .. Len(q \o r) /\ (q \o r)[i] = x
      BY <1>2, <1>3, <3>1
    <3> QED BY <3>2
  <2>2. CASE x \in T
    <3>1. PICK i \in 1 .. Len(r) : r[i] = x
      BY <2>2 DEF Lists
    <3>2. /\ i + Len(q) \in 1 .. Len(q \o r)
          /\ ~ (i + Len(q) <= Len(q)) /\ (i + Len(q)) - Len(q) = i
      BY <1>2, <1>3, <3>1
    <3>3. (q \o r)[i + Len(q)] = x
      BY <1>3, <3>1, <3>2
    <3> QED BY <3>2, <3>3
  <2> QED BY <2>1, <2>2
<1> QED BY <1>3, <1>5, <1>6 DEF Lists

\* A part of a list is a list of the elements in that part.
LEMMA ListsSub ==
  ASSUME NEW q, NEW S, Lists(q, S), NEW m \in Nat, NEW n \in Nat,
         1 <= m, m <= n + 1, n <= Len(q)
  PROVE  Lists(SubSeq(q, m, n), {q[i] : i \in m .. n})
<1> DEFINE T == {q[i] : i \in m .. n}
           s == SubSeq(q, m, n)
<1>1. Len(q) \in Nat
  BY LenProperties DEF Lists
<1>2. \A i \in m .. n : q[i] \in T
  OBVIOUS
<1>3. /\ s \in Seq(T)
      /\ Len(s) = IF m <= n THEN n - m + 1 ELSE 0
      /\ \A i \in 1 .. n - m + 1 : s[i] = q[m + i - 1]
  BY <1>2, SubSeqProperties
<1>4. Len(s) = n - m + 1
  BY <1>3
<1> HIDE DEF s
<1>5. ASSUME NEW i \in 1 .. Len(s), NEW j \in 1 .. Len(s), s[i] = s[j]
      PROVE  i = j
  <2>1. m + i - 1 \in 1 .. Len(q) /\ m + j - 1 \in 1 .. Len(q)
    BY <1>1, <1>4
  <2>2. q[m + i - 1] = q[m + j - 1]
    BY <1>3, <1>4, <1>5
  <2>3. m + i - 1 = m + j - 1
    BY <2>1, <2>2 DEF Lists
  <2> QED BY <2>3, <1>4
<1>6. ASSUME NEW x \in T  PROVE \E i \in 1 .. Len(s) : s[i] = x
  <2>1. PICK j \in m .. n : q[j] = x
    OBVIOUS
  <2>2. j - m + 1 \in 1 .. Len(s) /\ m + (j - m + 1) - 1 = j
    BY <1>4
  <2>3. s[j - m + 1] = x
    BY <1>3, <1>4, <2>1, <2>2
  <2> QED BY <2>2, <2>3
<1> QED BY <1>3, <1>5, <1>6 DEF Lists, s

\* A new element can be put before a list.
LEMMA ListsCons ==
  ASSUME NEW q, NEW S, Lists(q, S), NEW x, x \notin S
  PROVE  Lists(<<x>> \o q, S \cup {x})
<1>1. Lists(<<x>>, {x})
  BY DEF Lists
<1>2. Lists(<<x>> \o q, {x} \cup S)
  BY <1>1, ListsConcat
<1>3. {x} \cup S = S \cup {x}
  OBVIOUS
<1> QED BY <1>2, <1>3

\* The parts of a list before and after n.
LEMMA ListsSplit ==
  ASSUME NEW q, NEW S, Lists(q, S), NEW n \in Nat, n <= Len(q)
  PROVE  /\ Lists(SubSeq(q, 1, n), {q[i] : i \in 1 .. n})
         /\ Lists(SubSeq(q, n + 1, Len(q)), {q[i] : i \in n + 1 .. Len(q)})
         /\ {q[i] : i \in 1 .. n} \cap {q[i] : i \in n + 1 .. Len(q)} = {}
         /\ {q[i] : i \in 1 .. n} \cup {q[i] : i \in n + 1 .. Len(q)} = S
<1> DEFINE A == {q[i] : i \in 1 .. n}
           B == {q[i] : i \in n + 1 .. Len(q)}
<1>1. Len(q) \in Nat
  BY LenProperties DEF Lists
<1>2. Lists(SubSeq(q, 1, n), A)
  <2> DEFINE m == 1
  <2>1. m \in Nat /\ 1 <= m /\ m <= n + 1 /\ n <= Len(q)
    BY <1>1
  <2> HIDE DEF m
  <2>2. Lists(SubSeq(q, m, n), {q[i] : i \in m .. n})
    BY <2>1, ListsSub
  <2> QED BY <2>2 DEF m
<1>3. Lists(SubSeq(q, n + 1, Len(q)), B)
  <2> DEFINE m == n + 1
             l == Len(q)
  <2>1. m \in Nat /\ l \in Nat /\ 1 <= m /\ m <= l + 1 /\ l <= Len(q)
    BY <1>1
  <2> HIDE DEF m, l
  <2>2. Lists(SubSeq(q, m, l), {q[i] : i \in m .. l})
    BY <2>1, ListsSub
  <2> QED BY <2>2 DEF m, l
<1>4. A \cap B = {}
  <2> SUFFICES ASSUME NEW i \in 1 .. n, NEW j \in n + 1 .. Len(q), q[i] = q[j]
               PROVE  FALSE
    OBVIOUS
  <2>1. i \in 1 .. Len(q) /\ j \in 1 .. Len(q) /\ i # j
    BY <1>1
  <2> QED BY <2>1 DEF Lists
<1>5. A \cup B = S
  <2>1. \A i \in 1 .. Len(q) : q[i] \in S
    BY ElementOfSeq DEF Lists
  <2>2. A \cup B \subseteq S
    BY <1>1, <2>1
  <2>3. ASSUME NEW x \in S  PROVE x \in A \cup B
    <3>1. PICK i \in 1 .. Len(q) : q[i] = x
      BY DEF Lists
    <3>2. i \in 1 .. n \/ i \in n + 1 .. Len(q)
      BY <1>1, <3>1
    <3> QED BY <3>1, <3>2
  <2> QED BY <2>2, <2>3
<1> QED BY <1>2, <1>3, <1>4, <1>5

\* The first element may be taken from a list.
LEMMA ListsTail ==
  ASSUME NEW q, NEW S, Lists(q, S), q # <<>>
  PROVE  Head(q) \in S /\ Lists(Tail(q), S \ {Head(q)})
<1>1. Len(q) \in Nat \ {0} /\ q \in Seq(S)
  BY EmptySeq DEF Lists
<1>2. Tail(q) = SubSeq(q, 2, Len(q)) /\ Head(q) = q[1] /\ q[1] \in S
  BY <1>1, TailIsSubSeq, ElementOfSeq
<1> DEFINE A == {q[i] : i \in 1 .. 1}
           B == {q[i] : i \in 1 + 1 .. Len(q)}
<1>3. Lists(SubSeq(q, 1 + 1, Len(q)), B) /\ A \cap B = {} /\ A \cup B = S
  <2>1. 1 \in Nat /\ 1 <= Len(q)
    BY <1>1
  <2> QED BY <2>1, ListsSplit, Zenon
<1>4. A = {q[1]}
  OBVIOUS
<1> HIDE DEF A, B
<1>5. B = S \ {Head(q)} /\ 1 + 1 = 2
  BY <1>2, <1>3, <1>4
<1> QED BY <1>2, <1>3, <1>5

\* The last element may be taken from a list.
LEMMA ListsFront ==
  ASSUME NEW q, NEW S, Lists(q, S), q # <<>>
  PROVE  Last(q) \in S /\ Lists(Front(q), S \ {Last(q)})
<1>1. Len(q) \in Nat \ {0} /\ q \in Seq(S)
  BY EmptySeq DEF Lists
<1>2. Last(q) = q[Len(q)] /\ q[Len(q)] \in S
  BY <1>1, ElementOfSeq DEF Last
<1>3. Len(q) - 1 \in Nat /\ Len(q) - 1 <= Len(q) /\ (Len(q) - 1) + 1 = Len(q)
  BY <1>1
<1> DEFINE A == {q[i] : i \in 1 .. Len(q) - 1}
           B == {q[i] : i \in (Len(q) - 1) + 1 .. Len(q)}
<1>4. Lists(SubSeq(q, 1, Len(q) - 1), A) /\ A \cap B = {} /\ A \cup B = S
  BY <1>3, ListsSplit
<1>5. B = {q[Len(q)]}
  BY <1>1, <1>3
<1> HIDE DEF A, B
<1>6. A = S \ {Last(q)}
  BY <1>2, <1>4, <1>5
<1> QED BY <1>2, <1>4, <1>6 DEF Front

\* An element may be taken out of a list, wherever it is: moving a slot to the
\* front, or unlinking it.
LEMMA ListsWithout ==
  ASSUME NEW q, NEW S, Lists(q, S), NEW k \in S
  PROVE  Lists(Without(q, k), S \ {k})
<1> DEFINE i == CHOOSE i \in DOMAIN q : q[i] = k
<1>1. Len(q) \in Nat /\ DOMAIN q = 1 .. Len(q)
  BY LenProperties DEF Lists
<1>2. i \in 1 .. Len(q) /\ q[i] = k
  BY <1>1 DEF Lists
<1>3. Without(q, k) = SubSeq(q, 1, i - 1) \o SubSeq(q, i + 1, Len(q))
  BY Zenon DEF Without, RemoveAt
<1> HIDE DEF i
<1> DEFINE A == {q[j] : j \in 1 .. i}
           B == {q[j] : j \in i + 1 .. Len(q)}
           C == {q[j] : j \in 1 .. i - 1}
           D == {q[j] : j \in (i - 1) + 1 .. Len(q)}
<1>4. Lists(SubSeq(q, i + 1, Len(q)), B) /\ A \cap B = {} /\ A \cup B = S
  <2>1. i \in Nat /\ i <= Len(q)
    BY <1>1, <1>2
  <2> QED BY <2>1, ListsSplit, Zenon
<1>5. i - 1 \in Nat /\ i - 1 <= Len(q) /\ (i - 1) + 1 = i
  BY <1>1, <1>2
<1>6. Lists(SubSeq(q, 1, i - 1), C) /\ C \cap D = {} /\ C \cup D = S
  BY <1>5, ListsSplit
<1>7. k \in A /\ k \in D
  <2>1. i \in 1 .. i /\ i \in (i - 1) + 1 .. Len(q)
    BY <1>1, <1>2, <1>5
  <2> QED BY <1>2, <1>4, <1>6, <2>1
<1>8. C \cap B = {}
  <2>1. C \subseteq A
    <3>1. \A j \in 1 .. i - 1 : j \in 1 .. i
      BY <1>1, <1>2
    <3> QED BY <1>4, <1>6, <3>1
  <2> QED BY <2>1, <1>4
<1>9. C \cup B = S \ {k}
  <2>1. k \notin B /\ k \notin C
    BY <1>4, <1>6, <1>7
  <2>2. ASSUME NEW x \in S, x # k  PROVE x \in C \cup B
    <3>1. PICK j \in 1 .. Len(q) : q[j] = x
      BY DEF Lists
    <3>2. j # i
      BY <1>2, <2>2, <3>1
    <3>3. j \in 1 .. i - 1 \/ j \in i + 1 .. Len(q)
      BY <1>1, <1>2, <3>1, <3>2
    <3> QED BY <3>1, <3>3
  <2>3. C \cup B \subseteq S
    BY <1>4, <1>6, Zenon
  <2> QED BY <2>1, <2>2, <2>3, Zenon
<1>10. Lists(SubSeq(q, 1, i - 1) \o SubSeq(q, i + 1, Len(q)), C \cup B)
  BY <1>4, <1>6, <1>8, ListsConcat
<1> QED BY <1>3, <1>9, <1>10

\* A list has the same elements from its end.
LEMMA ListsReverse ==
  ASSUME NEW q, NEW S, Lists(q, S)
  PROVE  /\ Lists(Reverse(q), S)
         /\ Len(Reverse(q)) = Len(q)
<1>1. Len(q) \in Nat /\ \A i \in 1 .. Len(q) : q[i] \in S
  BY LenProperties, ElementOfSeq DEF Lists
<1> DEFINE r == [i \in 1 .. Len(q) |-> q[(Len(q) - i) + 1]]
<1>2. r = Reverse(q)
  BY Zenon DEF Reverse
<1>3. \A i \in 1 .. Len(q) : (Len(q) - i) + 1 \in 1 .. Len(q)
  BY <1>1
<1>4. r \in [1 .. Len(q) -> S]
  BY <1>1, <1>3
<1>5. r \in Seq(S) /\ Len(r) = Len(q)
  BY <1>1, <1>4, SeqDef, LenProperties
<1>6. ASSUME NEW i \in 1 .. Len(r), NEW j \in 1 .. Len(r), r[i] = r[j]
      PROVE  i = j
  <2>1. q[(Len(q) - i) + 1] = q[(Len(q) - j) + 1]
    BY <1>5, <1>6
  <2>2. (Len(q) - i) + 1 = (Len(q) - j) + 1
    BY ZenonT(120), <2>1, <1>3, <1>5 DEF Lists
  <2> QED BY <2>2, <1>1, <1>5
<1>7. ASSUME NEW x \in S  PROVE \E i \in 1 .. Len(r) : r[i] = x
  <2>1. PICK j \in 1 .. Len(q) : q[j] = x
    BY DEF Lists
  <2> DEFINE i == (Len(q) - j) + 1
  <2>2. i \in 1 .. Len(q) /\ (Len(q) - i) + 1 = j
    BY <1>1
  <2>3. r[i] = x
    BY <2>1, <2>2
  <2> HIDE DEF r, i
  <2> QED BY <2>2, <2>3, <1>5
<1> HIDE DEF r
<1> QED BY <1>2, <1>5, <1>6, <1>7 DEF Lists

\* A list has as many elements as its set.
LEMMA ListsCount ==
  ASSUME NEW q, NEW S, Lists(q, S)
  PROVE  IsFiniteSet(S) /\ Cardinality(S) = Len(q) /\ Len(q) \in Nat
<1>1. Len(q) \in Nat /\ q \in [1 .. Len(q) -> S]
  BY LenProperties DEF Lists
<1>2. q \in Bijection(1 .. Len(q), S)
  BY <1>1 DEF Lists, Bijection, Injection, Surjection, IsInjective
<1>3. ExistsBijection(1 .. Len(q), S)
  BY <1>2 DEF ExistsBijection
<1> QED BY <1>1, <1>3, FS_NatBijection, FS_CountingElements

\* The elements of a finite set can be listed.
LEMMA ListsSet ==
  ASSUME NEW S, IsFiniteSet(S)
  PROVE  Lists(SetToSeq(S), S)
<1> DEFINE n == Cardinality(S)
<1>1. n \in Nat /\ ExistsBijection(1 .. n, S)
  BY FS_CardinalityType
<1> HIDE DEF n
<1>2. PICK b : b \in Bijection(1 .. n, S)
  BY <1>1 DEF ExistsBijection
<1>3. b \in [1 .. n -> S] /\ IsInjective(b)
  BY <1>2 DEF Bijection, Injection
<1> DEFINE f == CHOOSE f \in [1 .. n -> S] : IsInjective(f)
<1>4. f \in [1 .. n -> S] /\ IsInjective(f)
  BY <1>3, Zenon
<1>5. f = SetToSeq(S)
  BY Zenon DEF SetToSeq, n
<1> HIDE DEF f
<1>6. f \in Injection(1 .. n, S)
  BY <1>4 DEF Injection
<1>7. IsFiniteSet(1 .. n) /\ Cardinality(1 .. n) = n
  BY <1>1, FS_Interval
<1>8. f \in Surjection(1 .. n, S)
  BY <1>6, <1>7, FS_Injection DEF n
<1>9. f \in Seq(S) /\ Len(f) = n
  BY <1>1, <1>4, SeqDef, LenProperties
<1> QED BY <1>4, <1>5, <1>8, <1>9 DEF Lists, IsInjective, Surjection

-----------------------------------------------------------------------------

\* What the sector map may have.
IndexType == Nat \cup {Unused}

IsSlot(e) ==
  /\ e = [sec |-> e.sec, swap |-> e.swap, dirty |-> e.dirty, data |-> e.data]
  /\ e.sec \in Sector \cup {Unused} /\ e.swap \in IndexType /\ e.dirty \in BOOLEAN

IsDevice(c) ==
  /\ c = [map |-> c.map, slot |-> c.slot, lru |-> c.lru, lfree |-> c.lfree,
          mfree |-> c.mfree, nsectors |-> c.nsectors, sfree |-> c.sfree,
          ssectors |-> c.ssectors, sbarrier |-> c.sbarrier, file |-> c.file]
  /\ c.map \in [Sector -> IndexType]
  /\ c.slot = [k \in Slot |-> c.slot[k]]
  /\ \A k \in Slot : IsSlot(c.slot[k])
  /\ c.nsectors \in Nat /\ c.ssectors \in Nat /\ c.sbarrier \in Nat

\* Sector s is in the cache and was written since it was loaded.
Dirty(c, s) == Cached(c, s) /\ c.slot[c.map[s]].dirty

\* The invariant of the cache: every slot is in one of the two lists, and the
\* slots in use are those of sectors of U, which are mapped to them.
Caching(c, U) ==
  /\ IsDevice(c) /\ U \subseteq Sector
  /\ Lists(c.lru, ToSet(c.lru)) /\ Lists(c.lfree, ToSet(c.lfree))
  /\ ToSet(c.lru) \cap ToSet(c.lfree) = {}
  /\ ToSet(c.lru) \cup ToSet(c.lfree) = Slot
  /\ \A k \in ToSet(c.lfree) : c.slot[k].sec = Unused
  /\ \A k \in ToSet(c.lru) : c.slot[k].sec \in U /\ c.map[c.slot[k].sec] = k

\* The invariant of the sector map: a sector below nsectors is in U or free.
Sectoring(c, U) ==
  /\ Lists(c.mfree, ToSet(c.mfree))
  /\ ToSet(c.mfree) \cap U = {}
  /\ ToSet(c.mfree) \cup U = 0 .. c.nsectors - 1
  /\ c.nsectors <= Sectors

\* The invariant of the swap file: W are the sectors that own what is at their
\* index, no two have the same, and each index from the barrier to the end of
\* the file is owned or free.
Indexing(c, W) ==
  /\ W \subseteq Sector
  /\ \A s \in W : Index(c, s) # Unused => Index(c, s) < c.ssectors
  /\ \A s, t \in W : Index(c, s) # Unused /\ Index(c, s) = Index(c, t) => s = t
  /\ c.sfree \in Seq(Nat) /\ Lists(c.sfree, ToSet(c.sfree))
  /\ \A x \in ToSet(c.sfree) : /\ x + c.sbarrier < c.ssectors
                               /\ \A s \in W : Index(c, s) # x + c.sbarrier
  /\ \A i \in c.sbarrier .. c.ssectors - 1 :
        i - c.sbarrier \in ToSet(c.sfree) \/ \E s \in W : Index(c, s) = i
  /\ c.sbarrier <= c.ssectors

\* Sectors that own nothing in the swap file are not dirty; those that must be
\* converted before they can be read (C) are not even cached.
Clean(c, W, C) ==
  \A s \in Sector \ W : ~ Dirty(c, s) /\ (s \in C => ~ Cached(c, s))

\* Sector s has content v, in the cache or in file f, and if it is not dirty
\* then v is what f has.
Right(c, s, f, v) ==
  Content(c, s, f) = v /\ (Dirty(c, s) \/ At(f, Index(c, s)) = v)

\* The file that sector s is loaded from: the swap file or a snapshot.
Source(c, W, g, s) == IF s \in W THEN c.file ELSE g[s]

\* What the sectors are to hold: H has pairs of a sector and its content.
Held(c, U, W, g, H) ==
  \A h \in H : h[1] \in U /\ Right(c, h[1], Source(c, W, g, h[1]), h[2])

\* Below the barrier b, the file is as it was: the snapshot in place.
Guarded(c, b, f) ==
  c.sbarrier = b /\ \A i \in (0 .. b - 1) \cup {Unused} : At(c.file, i) = At(f, i)

\* All that is expected of the device c: U are the sectors in use, W those of
\* them that are in the swap file, H what they hold, and p where the others are
\* loaded from, the barrier, the file kept below it and the sectors that must
\* be converted.  Each operation of the device is shown to lead from Good to Good.
Good(c, U, W, H, p) ==
  /\ Caching(c, U) /\ W \subseteq U
  /\ Sectoring(c, U)
  /\ Indexing(c, W)
  /\ Clean(c, W, p.cold)
  /\ Held(c, U, W, p.from, H)
  /\ Guarded(c, p.barrier, p.kept)

-----------------------------------------------------------------------------

\* What is found in a file after something was written to it.
LEMMA AtSet ==
  ASSUME NEW f, NEW x, NEW v, NEW y
  PROVE  At(Set(f, x, v), y) = IF y = x THEN v ELSE At(f, y)
BY DEF At, Set

\* Sectors and slots are numbers, and Unused is none.
LEMMA SectorType ==
  /\ Unused \notin Nat /\ Unused \notin Sector /\ Unused \notin Slot
  /\ Slot \subseteq Nat /\ Sector \subseteq Nat
BY SwapAssumption DEF Sector, Slot

\* What is cached, in terms of the slots in use.
LEMMA CachedIs ==
  ASSUME NEW c, NEW U, Caching(c, U), NEW s \in Sector
  PROVE  /\ Cached(c, s) => /\ c.map[s] \in ToSet(c.lru) /\ s \in U
                            /\ c.map[s] \in Slot
                            /\ c.slot[c.map[s]].sec = s
         /\ \A k \in ToSet(c.lru) :
               c.slot[k].sec = s => Cached(c, s) /\ c.map[s] = k
         /\ \A k \in Slot : c.slot[k].sec = s => k \in ToSet(c.lru)
<1> USE DEF Caching
<1>1. ASSUME NEW k \in Slot, c.slot[k].sec = s
      PROVE  k \in ToSet(c.lru)
  BY <1>1, SectorType
<1>2. ASSUME Cached(c, s)
      PROVE  /\ c.map[s] \in ToSet(c.lru) /\ s \in U
             /\ c.map[s] \in Slot /\ c.slot[c.map[s]].sec = s
  BY <1>1, <1>2 DEF Cached
<1>3. ASSUME NEW k \in ToSet(c.lru), c.slot[k].sec = s
      PROVE  Cached(c, s) /\ c.map[s] = k
  BY <1>3 DEF Cached
<1> QED BY <1>1, <1>2, <1>3

\* The index of a sector is one, or Unused.
LEMMA IndexTyped ==
  ASSUME NEW c, IsDevice(c), NEW s \in Sector
  PROVE  Index(c, s) \in IndexType
BY DEF Index, Cached, IsDevice, IsSlot

\* Indices, free or in use, are as they were.
LEMMA IndexingSame ==
  ASSUME NEW c, NEW d, NEW W, Indexing(c, W),
         d.sfree = c.sfree, d.ssectors = c.ssectors, d.sbarrier = c.sbarrier,
         \A s \in W : Index(d, s) = Index(c, s)
  PROVE  Indexing(d, W)
<1> W \subseteq Sector
  BY DEF Indexing
<1>1. \A i \in c.sbarrier .. c.ssectors - 1 :
        i - c.sbarrier \in ToSet(c.sfree) \/ \E s \in W : Index(d, s) = i
  BY DEF Indexing
<1>2. \A s, t \in W : Index(d, s) # Unused /\ Index(d, s) = Index(d, t) => s = t
  BY DEF Indexing
<1>3. \A x \in ToSet(c.sfree) : /\ x + c.sbarrier < c.ssectors
                               /\ \A s \in W : Index(d, s) # x + c.sbarrier
  BY DEF Indexing
<1>4. \A s \in W : Index(d, s) # Unused => Index(d, s) < c.ssectors
  BY DEF Indexing
<1> QED BY <1>1, <1>2, <1>3, <1>4 DEF Indexing

\* Nothing but the lists of sectors matters for Sectoring.
LEMMA SectoringSame ==
  ASSUME NEW c, NEW d, NEW U, Sectoring(c, U),
         d.mfree = c.mfree, d.nsectors = c.nsectors
  PROVE  Sectoring(d, U)
BY DEF Sectoring

-----------------------------------------------------------------------------

\* Where WriteOut writes slot k.
Place(c, k) ==
  IF ~ NeedsIndex(c, c.slot[k].swap) THEN c.slot[k].swap
  ELSE IF c.sfree = <<>> THEN c.ssectors
  ELSE Head(c.sfree) + c.sbarrier

\* What WriteOut makes of the fields of the device.
LEMMA WriteOutIs ==
  ASSUME NEW c, IsDevice(c), NEW k \in Slot
  PROVE  LET d == WriteOut(c, k)
             new == NeedsIndex(c, c.slot[k].swap)
         IN  /\ d = [map |-> d.map, slot |-> d.slot, lru |-> d.lru, lfree |-> d.lfree,
                     mfree |-> d.mfree, nsectors |-> d.nsectors, sfree |-> d.sfree,
                     ssectors |-> d.ssectors, sbarrier |-> d.sbarrier, file |-> d.file]
             /\ d.map = c.map /\ d.lru = c.lru /\ d.lfree = c.lfree
             /\ d.mfree = c.mfree /\ d.nsectors = c.nsectors
             /\ d.sbarrier = c.sbarrier
             /\ d.slot = [c.slot EXCEPT ![k].swap = Place(c, k)]
             /\ d.ssectors = IF new /\ c.sfree = <<>> THEN c.ssectors + 1 ELSE c.ssectors
             /\ d.sfree = IF new /\ c.sfree # <<>> THEN Tail(c.sfree) ELSE c.sfree
             /\ d.file = Set(c.file, Place(c, k), c.slot[k].data)
<1> DEFINE new == NeedsIndex(c, c.slot[k].swap)
<1>1. WriteOut(c, k) =
        [c EXCEPT !.ssectors = IF new /\ c.sfree = <<>> THEN @ + 1 ELSE @,
                  !.sfree = IF new /\ @ # <<>> THEN Tail(@) ELSE @,
                  !.slot[k].swap = Place(c, k),
                  !.file = Set(@, Place(c, k), c.slot[k].data)]
  BY Zenon DEF WriteOut, Place
<1>2. c = [map |-> c.map, slot |-> c.slot, lru |-> c.lru, lfree |-> c.lfree,
          mfree |-> c.mfree, nsectors |-> c.nsectors, sfree |-> c.sfree,
          ssectors |-> c.ssectors, sbarrier |-> c.sbarrier, file |-> c.file]
  BY DEF IsDevice
<1> HIDE DEF new
<1>3. QED
  BY <1>1, <1>2 DEF new

\* The place of a slot that is written: nobody else has it.
LEMMA PlaceFresh ==
  ASSUME NEW c, NEW U, NEW W, NEW H, NEW p, Good(c, U, W, H, p),
         NEW k \in ToSet(c.lru), c.slot[k].dirty
  PROVE  LET d == WriteOut(c, k)
             x == Place(c, k)
         IN  /\ k \in Slot /\ c.slot[k].sec \in W
             /\ x \in Nat /\ x >= c.sbarrier /\ x < d.ssectors
             /\ d.ssectors \in Nat /\ d.ssectors >= c.ssectors
             /\ \A t \in W : t # c.slot[k].sec => Index(c, t) # x
             /\ d.sfree \in Seq(Nat) /\ Lists(d.sfree, ToSet(d.sfree))
             /\ \A y \in ToSet(d.sfree) : y + c.sbarrier # x /\ y \in ToSet(c.sfree)
             /\ \A i \in c.sbarrier .. d.ssectors - 1 :
                   i # x => \/ i - c.sbarrier \in ToSet(d.sfree)
                            \/ \E t \in W : t # c.slot[k].sec /\ Index(c, t) = i
<1> DEFINE s == c.slot[k].sec
           d == WriteOut(c, k)
           x == Place(c, k)
           new == NeedsIndex(c, c.slot[k].swap)
<1> USE DEF Good
<1>1. k \in Slot /\ s \in U /\ c.map[s] = k /\ s \in Sector
  BY DEF Caching
<1>2. Cached(c, s)
  BY <1>1, CachedIs
<1>3. Dirty(c, s) /\ Index(c, s) = c.slot[k].swap
  BY <1>1, <1>2 DEF Dirty, Index
<1>4. s \in W
  BY <1>1, <1>3 DEF Clean
<1>5. /\ d.ssectors = IF new /\ c.sfree = <<>> THEN c.ssectors + 1 ELSE c.ssectors
      /\ d.sfree = IF new /\ c.sfree # <<>> THEN Tail(c.sfree) ELSE c.sfree
  BY <1>1, WriteOutIs DEF Caching
<1>6. c.slot[k].swap \in IndexType /\ c.ssectors \in Nat /\ c.sbarrier \in Nat
  BY <1>1 DEF Caching, IsDevice, IsSlot
<1> HIDE DEF d, s
<1>7. CASE ~ new
  <2>1. /\ x = c.slot[k].swap /\ x \in Nat /\ x >= c.sbarrier /\ x # Unused
        /\ d.ssectors = c.ssectors /\ d.sfree = c.sfree
    BY <1>5, <1>6, <1>7 DEF NeedsIndex, Place, IndexType
  <2>2. x < c.ssectors /\ Index(c, s) = x
    BY <1>3, <1>4, <2>1 DEF Indexing
  <2>3. \A t \in W : t # s => Index(c, t) # x
    BY <1>4, <2>1, <2>2 DEF Indexing
  <2>4. \A y \in ToSet(d.sfree) : y + c.sbarrier # x /\ y \in ToSet(c.sfree)
    BY <1>4, <2>1, <2>2 DEF Indexing
  <2>5. ASSUME NEW i \in c.sbarrier .. d.ssectors - 1, i # x
        PROVE  \/ i - c.sbarrier \in ToSet(d.sfree)
               \/ \E t \in W : t # s /\ Index(c, t) = i
    BY <2>1, <2>2, <2>5 DEF Indexing
  <2>6. d.sfree \in Seq(Nat) /\ Lists(d.sfree, ToSet(d.sfree))
    BY <2>1 DEF Indexing
  <2> HIDE DEF x
  <2> QED BY <1>1, <1>4, <1>6, <2>1, <2>2, <2>3, <2>4, <2>5, <2>6 DEF d, x, s
<1>8. CASE new /\ c.sfree = <<>>
  <2>1. /\ x = c.ssectors /\ d.ssectors = c.ssectors + 1 /\ d.sfree = c.sfree
    BY <1>5, <1>8 DEF Place
  <2>2. x >= c.sbarrier /\ x < d.ssectors /\ x # Unused
    BY <2>1, <1>6, SectorType DEF Indexing
  <2>3. \A t \in W : Index(c, t) # x
    BY <1>6, <2>1, <2>2 DEF Indexing
  <2>4. ToSet(d.sfree) = {}
    BY <1>8, <2>1, ListsNone, ListsIs, Zenon
  <2>5. ASSUME NEW i \in c.sbarrier .. d.ssectors - 1, i # x
        PROVE  \E t \in W : t # s /\ Index(c, t) = i
    <3>1. i \in c.sbarrier .. c.ssectors - 1
      BY <1>6, <2>1, <2>5
    <3>2. PICK t \in W : Index(c, t) = i
      BY <3>1, <2>1, <2>4 DEF Indexing
    <3>3. t # s
      BY <3>1, <3>2, <1>3, <1>6, <1>8, SectorType DEF NeedsIndex
    <3> QED BY <3>2, <3>3
  <2>6. d.sfree \in Seq(Nat) /\ Lists(d.sfree, ToSet(d.sfree))
    BY <2>1 DEF Indexing
  <2> HIDE DEF x
  <2> QED BY <1>1, <1>4, <1>6, <2>1, <2>2, <2>3, <2>4, <2>5, <2>6 DEF d, x, s
<1>9. CASE new /\ c.sfree # <<>>
  <2> DEFINE y == Head(c.sfree)
  <2>1. x = y + c.sbarrier /\ d.ssectors = c.ssectors /\ d.sfree = Tail(c.sfree)
    BY <1>5, <1>9 DEF Place
  <2>2. y \in ToSet(c.sfree) /\ Lists(d.sfree, ToSet(c.sfree) \ {y})
    BY <1>9, <2>1, ListsTail DEF Indexing
  <2>3. ToSet(d.sfree) = ToSet(c.sfree) \ {y}
    BY <2>2, ListsIs
  <2>4. ToSet(c.sfree) \subseteq Nat /\ d.sfree \in Seq(Nat)
    <3>1. ToSet(c.sfree) \subseteq Nat
      BY LenProperties DEF Indexing, ToSet
    <3>2. d.sfree \in Seq(ToSet(c.sfree) \ {y})
      BY <2>2 DEF Lists
    <3> QED BY <3>1, <3>2, SeqMonotonic
  <2> HIDE DEF y
  <2>5. x \in Nat /\ x >= c.sbarrier /\ x < c.ssectors
    BY <1>6, <2>1, <2>2, <2>4 DEF Indexing
  <2>6. \A t \in W : Index(c, t) # x
    BY <2>1, <2>2 DEF Indexing
  <2>7. \A z \in ToSet(d.sfree) : z + c.sbarrier # x /\ z \in ToSet(c.sfree)
    BY <1>6, <2>1, <2>2, <2>3, <2>4
  <2>8. ASSUME NEW i \in c.sbarrier .. d.ssectors - 1, i # x
        PROVE  \/ i - c.sbarrier \in ToSet(d.sfree)
               \/ \E t \in W : t # s /\ Index(c, t) = i
    <3>1. i - c.sbarrier \in ToSet(c.sfree) \/ \E t \in W : Index(c, t) = i
      BY <2>1, <2>8 DEF Indexing
    <3>2. CASE i - c.sbarrier \in ToSet(c.sfree)
      <4>1. i - c.sbarrier # y
        BY <1>6, <2>1, <2>2, <2>4, <2>8
      <4> QED BY <3>2, <4>1, <2>3
    <3>3. CASE \E t \in W : Index(c, t) = i
      <4>1. PICK t \in W : Index(c, t) = i
        BY <3>3
      <4>2. i \in Nat /\ ~ (i < c.sbarrier)
        BY <1>6, <2>1, <2>8
      <4>3. t # s
        BY <4>1, <4>2, <1>3, <1>6, <1>9, SectorType DEF NeedsIndex
      <4> QED BY <4>1, <4>3
    <3> QED BY <3>1, <3>2, <3>3
  <2>9. Lists(d.sfree, ToSet(d.sfree))
    BY <2>2, <2>3
  <2> HIDE DEF x
  <2> QED BY <1>1, <1>4, <1>6, <2>1, <2>4, <2>5, <2>6, <2>7, <2>8, <2>9 DEF d, x, s
<1> HIDE DEF x, new
<1>10. QED
  BY <1>7, <1>8, <1>9 DEF d, s, x

\* A slot that is written out is the same slot for everybody, at another index.
LEMMA WriteOutSeen ==
  ASSUME NEW c, NEW U, NEW W, NEW H, NEW p, Good(c, U, W, H, p),
         NEW k \in ToSet(c.lru), c.slot[k].dirty
  PROVE  LET d == WriteOut(c, k)
             s == c.slot[k].sec
             x == Place(c, k)
         IN  /\ IsDevice(d)
             /\ \A t \in Sector : /\ Cached(d, t) <=> Cached(c, t)
                                  /\ Dirty(d, t) <=> Dirty(c, t)
                                  /\ Index(d, t) = IF t = s THEN x ELSE Index(c, t)
                                  /\ \A f : Cached(c, t) => Content(d, t, f) = Content(c, t, f)
                                  /\ ~ Cached(c, t) => d.map[t] = c.map[t] /\ Index(c, t) = c.map[t]
             /\ Cached(c, s) /\ Dirty(c, s) /\ s \in W
<1> DEFINE d == WriteOut(c, k)
           s == c.slot[k].sec
           x == Place(c, k)
<1>1. /\ k \in Slot /\ s \in W /\ x \in Nat /\ d.ssectors \in Nat
  BY PlaceFresh
<1>2. /\ IsDevice(c) /\ s \in U /\ c.map[s] = k /\ U \subseteq Sector
  BY DEF Good, Caching
<1>3. /\ d = [map |-> d.map, slot |-> d.slot, lru |-> d.lru, lfree |-> d.lfree,
              mfree |-> d.mfree, nsectors |-> d.nsectors, sfree |-> d.sfree,
              ssectors |-> d.ssectors, sbarrier |-> d.sbarrier, file |-> d.file]
      /\ d.map = c.map /\ d.nsectors = c.nsectors
      /\ d.sbarrier = c.sbarrier
      /\ d.slot = [c.slot EXCEPT ![k].swap = x]
  BY <1>1, <1>2, WriteOutIs
<1> HIDE DEF d, x
<1>4. \A j \in Slot : /\ IsSlot(d.slot[j])
                      /\ d.slot[j].sec = c.slot[j].sec
                      /\ d.slot[j].dirty = c.slot[j].dirty
                      /\ d.slot[j].data = c.slot[j].data
                      /\ d.slot[j].swap = IF j = k THEN x ELSE c.slot[j].swap
  <2> SUFFICES ASSUME NEW j \in Slot
               PROVE  /\ IsSlot(d.slot[j])
                      /\ d.slot[j].sec = c.slot[j].sec
                      /\ d.slot[j].dirty = c.slot[j].dirty
                      /\ d.slot[j].data = c.slot[j].data
                      /\ d.slot[j].swap = IF j = k THEN x ELSE c.slot[j].swap
    OBVIOUS
  <2>1. IsSlot(c.slot[j]) /\ d.slot[j] = IF j = k THEN [c.slot[j] EXCEPT !.swap = x] ELSE c.slot[j]
    BY <1>1, <1>2, <1>3 DEF IsDevice
  <2>2. [c.slot[j] EXCEPT !.swap = x] = [sec |-> c.slot[j].sec, swap |-> x, dirty |-> c.slot[j].dirty, data |-> c.slot[j].data]
    BY <2>1 DEF IsSlot
  <2> QED BY <1>1, <2>1, <2>2 DEF IsSlot, IndexType
<1>5. d.slot = [j \in Slot |-> d.slot[j]]
  BY <1>2, <1>3 DEF IsDevice
<1>6. IsDevice(d)
  BY <1>1, <1>2, <1>3, <1>4, <1>5 DEF IsDevice
<1>7. Cached(c, s) /\ Dirty(c, s)
  BY <1>1, <1>2 DEF Cached, Dirty
<1>8. ASSUME NEW t \in Sector
      PROVE  /\ Cached(d, t) <=> Cached(c, t)
             /\ Dirty(d, t) <=> Dirty(c, t)
             /\ Index(d, t) = IF t = s THEN x ELSE Index(c, t)
             /\ \A f : Cached(c, t) => Content(d, t, f) = Content(c, t, f)
             /\ ~ Cached(c, t) => d.map[t] = c.map[t] /\ Index(c, t) = c.map[t]
  <2>1. Cached(d, t) <=> Cached(c, t)
    BY <1>3, <1>4 DEF Cached
  <2>2. Dirty(d, t) <=> Dirty(c, t)
    BY <1>3, <1>4, <2>1 DEF Cached, Dirty
  <2>3. Index(d, t) = IF t = s THEN x ELSE Index(c, t)
    <3>1. Cached(c, t) => (c.map[t] = k <=> t = s)
      BY <1>2, <1>7 DEF Cached
    <3>2. ~ Cached(c, t) => t # s
      BY <1>7
    <3> QED BY <1>3, <1>4, <2>1, <3>1, <3>2 DEF Index, Cached
  <2>4. \A f : Cached(c, t) => Content(d, t, f) = Content(c, t, f)
    BY <1>3, <1>4, <2>1 DEF Content, Cached
  <2>5. ~ Cached(c, t) => d.map[t] = c.map[t] /\ Index(c, t) = c.map[t]
    BY <1>3 DEF Index
  <2> QED BY <2>1, <2>2, <2>3, <2>4, <2>5
<1> QED BY <1>1, <1>6, <1>7, <1>8 DEF d, x

\* Writing a dirty slot to the swap file loses nothing (save(), newsectors).
LEMMA WriteOutGood ==
  ASSUME NEW c, NEW U, NEW W, NEW H, NEW p, Good(c, U, W, H, p),
         NEW k \in ToSet(c.lru), c.slot[k].dirty
  PROVE  Good(WriteOut(c, k), U, W, H, p)
<1> DEFINE d == WriteOut(c, k)
           s == c.slot[k].sec
           x == Place(c, k)
<1>1. /\ k \in Slot /\ s \in W
      /\ x \in Nat /\ x >= c.sbarrier /\ x < d.ssectors
      /\ d.ssectors \in Nat /\ d.ssectors >= c.ssectors
      /\ \A t \in W : t # s => Index(c, t) # x
      /\ d.sfree \in Seq(Nat) /\ Lists(d.sfree, ToSet(d.sfree))
      /\ \A y \in ToSet(d.sfree) : y + c.sbarrier # x /\ y \in ToSet(c.sfree)
      /\ \A i \in c.sbarrier .. d.ssectors - 1 :
            i # x => \/ i - c.sbarrier \in ToSet(d.sfree)
                     \/ \E t \in W : t # s /\ Index(c, t) = i
  BY PlaceFresh
<1>2. /\ IsDevice(d)
      /\ \A t \in Sector : /\ Cached(d, t) <=> Cached(c, t)
                           /\ Dirty(d, t) <=> Dirty(c, t)
                           /\ Index(d, t) = IF t = s THEN x ELSE Index(c, t)
                           /\ \A f : Cached(c, t) => Content(d, t, f) = Content(c, t, f)
                           /\ ~ Cached(c, t) => d.map[t] = c.map[t] /\ Index(c, t) = c.map[t]
      /\ Cached(c, s) /\ Dirty(c, s) /\ s \in W
  BY WriteOutSeen
<1>3. IsDevice(c) /\ U \subseteq Sector /\ W \subseteq U
  BY DEF Good, Caching
<1>4. /\ d.map = c.map /\ d.lru = c.lru /\ d.lfree = c.lfree
      /\ d.mfree = c.mfree /\ d.nsectors = c.nsectors
      /\ d.sbarrier = c.sbarrier
      /\ d.slot = [c.slot EXCEPT ![k].swap = x]
      /\ d.file = Set(c.file, x, c.slot[k].data)
  BY ZenonT(120), <1>1, <1>3, WriteOutIs
<1> HIDE DEF d, x
<1>5. \A i : At(d.file, i) = IF i = x THEN c.slot[k].data ELSE At(c.file, i)
  BY <1>4, AtSet
<1>6. Caching(d, U)
  <2>1. \A j \in Slot : d.slot[j].sec = c.slot[j].sec
    BY <1>3, <1>4 DEF IsDevice, IsSlot
  <2> QED BY <1>2, <1>4, <2>1 DEF Good, Caching
<1>7. Sectoring(d, U)
  BY <1>4, SectoringSame DEF Good
<1>8. Indexing(d, W)
  <2>1. W \subseteq Sector
    BY <1>3
  <2>2. \A t \in W : Index(d, t) # Unused => Index(d, t) < d.ssectors
    <3> SUFFICES ASSUME NEW t \in W, Index(d, t) # Unused
                 PROVE  Index(d, t) < d.ssectors
      OBVIOUS
    <3>1. CASE t = s
      BY <1>1, <1>2, <2>1, <3>1
    <3>2. CASE t # s
      <4>1. Index(c, t) \in Nat /\ Index(c, t) < c.ssectors /\ Index(d, t) = Index(c, t)
        BY <1>2, <1>3, <2>1, <3>2, IndexTyped DEF Good, Indexing, IndexType
      <4> QED BY <1>1, <1>3, <4>1 DEF IsDevice
    <3> QED BY <3>1, <3>2
  <2>3. \A t, u \in W : Index(d, t) # Unused /\ Index(d, t) = Index(d, u) => t = u
    BY <1>1, <1>2, <2>1 DEF Good, Indexing
  <2>4. \A y \in ToSet(d.sfree) : /\ y + d.sbarrier < d.ssectors
                                  /\ \A t \in W : Index(d, t) # y + d.sbarrier
    <3> SUFFICES ASSUME NEW y \in ToSet(d.sfree)
                 PROVE  /\ y + d.sbarrier < d.ssectors
                        /\ \A t \in W : Index(d, t) # y + d.sbarrier
      OBVIOUS
    <3>1. /\ y + c.sbarrier < c.ssectors /\ y \in Nat
          /\ \A t \in W : Index(c, t) # y + c.sbarrier
      BY <1>1, ToSetIn DEF Good, Indexing
    <3>2. y + d.sbarrier < d.ssectors
      BY <1>1, <1>3, <1>4, <3>1 DEF IsDevice
    <3> QED BY <1>1, <1>2, <1>4, <2>1, <3>1, <3>2
  <2>5. \A i \in d.sbarrier .. d.ssectors - 1 :
        i - d.sbarrier \in ToSet(d.sfree) \/ \E t \in W : Index(d, t) = i
    <3> SUFFICES ASSUME NEW i \in d.sbarrier .. d.ssectors - 1
                 PROVE  i - d.sbarrier \in ToSet(d.sfree) \/ \E t \in W : Index(d, t) = i
      OBVIOUS
    <3>1. CASE i = x
      BY <1>1, <1>2, <2>1, <3>1
    <3>2. CASE i # x
      BY <1>1, <1>2, <1>4, <2>1, <3>2
    <3> QED BY <3>1, <3>2
  <2>6. d.sbarrier <= d.ssectors
    BY <1>1, <1>3, <1>4 DEF IsDevice
  <2> QED BY <1>1, <2>1, <2>2, <2>3, <2>4, <2>5, <2>6 DEF Indexing
<1>9. Clean(d, W, p.cold)
  BY <1>2 DEF Good, Clean
<1>10. Held(d, U, W, p.from, H)
  <2> SUFFICES ASSUME NEW h \in H
               PROVE  Right(d, h[1], Source(d, W, p.from, h[1]), h[2])
    BY DEF Good, Held
  <2> DEFINE t == h[1]
             v == h[2]
             f == Source(c, W, p.from, t)
             g == Source(d, W, p.from, t)
  <2>1. t \in Sector /\ Right(c, t, f, v)
    BY <1>3 DEF Good, Held
  <2>2. Content(c, t, f) = v /\ (Dirty(c, t) \/ At(f, Index(c, t)) = v)
    BY <2>1 DEF Right
  <2>3. t # s => At(g, Index(c, t)) = At(f, Index(c, t))
    <3>1. CASE t \in W
      BY <1>1, <1>5, <3>1 DEF Source
    <3>2. CASE t \notin W
      BY <3>2 DEF Source
    <3> QED BY <3>1, <3>2
  <2> HIDE DEF t, v, f, g
  <2>4. Content(d, t, g) = v
    <3>1. CASE Cached(c, t)
      <4>1. Content(d, t, g) = Content(c, t, g) /\ Content(c, t, g) = Content(c, t, f)
        BY <1>2, <2>1, <3>1 DEF Content
      <4> QED BY <4>1, <2>2
    <3>2. CASE ~ Cached(c, t)
      <4>1. t # s /\ d.map[t] = c.map[t] /\ Index(c, t) = c.map[t] /\ ~ Cached(d, t)
        BY <1>2, <2>1, <3>2
      <4>2. Content(d, t, g) = At(g, Index(c, t)) /\ Content(c, t, f) = At(f, Index(c, t))
        BY <3>2, <4>1 DEF Content
      <4> QED BY <2>2, <2>3, <4>1, <4>2
    <3> QED BY <3>1, <3>2
  <2>5. Dirty(d, t) \/ At(g, Index(d, t)) = v
    BY <1>2, <2>1, <2>2, <2>3
  <2> QED BY <2>4, <2>5 DEF Right, t, v, g
<1>11. Guarded(d, p.barrier, p.kept)
  <2>1. \A i \in (0 .. p.barrier - 1) \cup {Unused} : i # x
    BY <1>1, <1>3, SectorType DEF Good, Guarded, IsDevice
  <2> QED BY <1>4, <1>5, <2>1 DEF Good, Guarded
<1> QED BY <1>3, <1>6, <1>7, <1>8, <1>9, <1>10, <1>11 DEF Good, d

-----------------------------------------------------------------------------

\* The second half of Evict: slot k, the last one in use, is given up.
Drop(c, k) ==
  [c EXCEPT !.map[c.slot[k].sec] = c.slot[k].swap,
            !.slot[k].sec = Unused,
            !.lru = Front(@),
            !.lfree = <<k>>]

\* What Drop makes of the fields of the device.
LEMMA DropIs ==
  ASSUME NEW c, NEW U, Caching(c, U), NEW k \in ToSet(c.lru)
  PROVE  LET d == Drop(c, k)
             s == c.slot[k].sec
         IN  /\ IsDevice(d)
             /\ d.map = [c.map EXCEPT ![s] = c.slot[k].swap]
             /\ \A j \in Slot : j # k => d.slot[j] = c.slot[j]
             /\ d.slot[k].sec = Unused /\ k \in Slot /\ s \in Sector /\ s \in U
             /\ d.lru = Front(c.lru) /\ d.lfree = <<k>>
             /\ d.mfree = c.mfree /\ d.nsectors = c.nsectors
             /\ d.sfree = c.sfree /\ d.ssectors = c.ssectors
             /\ d.sbarrier = c.sbarrier /\ d.file = c.file
<1> DEFINE d == Drop(c, k)
           s == c.slot[k].sec
<1>1. k \in Slot /\ IsDevice(c) /\ s \in Sector /\ s \in U
  BY DEF Caching
<1>2. /\ d = [map |-> d.map, slot |-> d.slot, lru |-> d.lru, lfree |-> d.lfree,
              mfree |-> d.mfree, nsectors |-> d.nsectors, sfree |-> d.sfree,
              ssectors |-> d.ssectors, sbarrier |-> d.sbarrier, file |-> d.file]
      /\ d.map = [c.map EXCEPT ![s] = c.slot[k].swap]
      /\ d.slot = [c.slot EXCEPT ![k].sec = Unused]
      /\ d.lru = Front(c.lru) /\ d.lfree = <<k>>
      /\ d.mfree = c.mfree /\ d.nsectors = c.nsectors
      /\ d.sfree = c.sfree /\ d.ssectors = c.ssectors
      /\ d.sbarrier = c.sbarrier /\ d.file = c.file
  <2>1. d = [c EXCEPT !.map[s] = c.slot[k].swap,
                      !.slot[k].sec = Unused,
                      !.lru = Front(@),
                      !.lfree = <<k>>]
    BY Zenon DEF Drop
  <2>2. c = [map |-> c.map, slot |-> c.slot, lru |-> c.lru, lfree |-> c.lfree,
             mfree |-> c.mfree, nsectors |-> c.nsectors, sfree |-> c.sfree,
             ssectors |-> c.ssectors, sbarrier |-> c.sbarrier, file |-> c.file]
    BY <1>1 DEF IsDevice
  <2> HIDE DEF d, s
  <2> QED BY <2>1, <2>2
<1> HIDE DEF d
<1>3. \A j \in Slot : j # k => d.slot[j] = c.slot[j]
  BY <1>1, <1>2 DEF IsDevice
<1>4. d.slot[k] = [sec |-> Unused, swap |-> c.slot[k].swap, dirty |-> c.slot[k].dirty, data |-> c.slot[k].data]
  <2>1. d.slot[k] = [c.slot[k] EXCEPT !.sec = Unused]
    BY <1>1, <1>2 DEF IsDevice
  <2>2. IsSlot(c.slot[k])
    BY <1>1 DEF IsDevice
  <2> QED BY <2>1, <2>2 DEF IsSlot
<1>5. \A j \in Slot : IsSlot(d.slot[j])
  <2>1. IsSlot(d.slot[k])
    <3>1. IsSlot(c.slot[k])
      BY <1>1 DEF IsDevice
    <3> QED BY <1>4, <3>1 DEF IsSlot
  <2> QED BY <1>1, <1>3, <2>1 DEF IsDevice
<1>6. d.slot = [j \in Slot |-> d.slot[j]]
  BY <1>1, <1>2 DEF IsDevice
<1>7. d.map \in [Sector -> IndexType]
  BY <1>1, <1>2 DEF IsDevice, IsSlot
<1>8. IsDevice(d)
  BY <1>1, <1>2, <1>5, <1>6, <1>7 DEF IsDevice
<1> QED BY <1>1, <1>2, <1>3, <1>4, <1>8 DEF d

\* The last slot may be given up when the file has what it holds.
LEMMA DropGood ==
  ASSUME NEW c, NEW U, NEW W, NEW H, NEW p, Good(c, U, W, H, p),
         c.lfree = <<>>, NEW k, k = Last(c.lru),
         c.slot[k].dirty => At(c.file, c.slot[k].swap) = c.slot[k].data
  PROVE  LET d == Drop(c, k)
         IN  /\ k \in ToSet(c.lru)
             /\ Good(d, U, W, H, p)
             /\ d.lfree # <<>> /\ d.file = c.file
             /\ \A t \in Sector : t # c.slot[k].sec => d.map[t] = c.map[t]
             /\ \A t \in Sector : ~ Cached(c, t) => ~ Cached(d, t)
<1> DEFINE d == Drop(c, k)
           s == c.slot[k].sec
<1>1. /\ Lists(c.lru, Slot) /\ ToSet(c.lru) = Slot
  <2>1. ToSet(c.lfree) = {}
    BY ListsNone, ListsIs, Zenon
  <2>2. ToSet(c.lru) = Slot
    BY <2>1 DEF Good, Caching
  <2> QED BY <2>2 DEF Good, Caching
<1>2. Slot # {}
  <2>1. 0 \in Slot
    BY SwapAssumption DEF Slot
  <2> QED BY <2>1
<1>3. c.lru # <<>> /\ k \in ToSet(c.lru) /\ Lists(Front(c.lru), Slot \ {k})
  BY <1>1, <1>2, ListsNone, ListsFront
<1>4. Caching(c, U) /\ U \subseteq Sector /\ IsDevice(c) /\ W \subseteq U
  BY DEF Good, Caching
<1>5. /\ IsDevice(d)
      /\ d.map = [c.map EXCEPT ![s] = c.slot[k].swap]
      /\ \A j \in Slot : j # k => d.slot[j] = c.slot[j]
      /\ d.slot[k].sec = Unused /\ k \in Slot /\ s \in Sector /\ s \in U
      /\ d.lru = Front(c.lru) /\ d.lfree = <<k>>
      /\ d.mfree = c.mfree /\ d.nsectors = c.nsectors
      /\ d.sfree = c.sfree /\ d.ssectors = c.ssectors
      /\ d.sbarrier = c.sbarrier /\ d.file = c.file
  BY <1>3, <1>4, DropIs
<1> HIDE DEF d, s
<1>6. Cached(c, s) /\ c.map[s] = k /\ s \in Sector
  BY <1>3, <1>4, <1>5, CachedIs DEF s
<1>7. \A t \in Sector : t # s => d.map[t] = c.map[t]
  BY <1>4, <1>5 DEF IsDevice
<1>8. d.map[s] = c.slot[k].swap
  BY <1>4, <1>5 DEF IsDevice
<1>9. ASSUME NEW t \in Sector
      PROVE  /\ Cached(d, t) <=> Cached(c, t) /\ t # s
             /\ Dirty(d, t) <=> Dirty(c, t) /\ t # s
             /\ Index(d, t) = Index(c, t)
             /\ t # s => \A f : Content(d, t, f) = Content(c, t, f)
  <2>1. CASE t = s
    <3>1. \A j \in Slot : d.slot[j].sec # s
      <4>1. \A j \in Slot : c.slot[j].sec = s => j = k
        BY <1>1, <1>4, <1>6, CachedIs
      <4> QED BY <1>5, <1>6, <4>1, SectorType
    <3>2. ~ Cached(d, s)
      BY <3>1 DEF Cached
    <3>3. Index(d, s) = Index(c, s)
      BY <3>2, <1>6, <1>8 DEF Index
    <3> QED BY <2>1, <3>2, <3>3 DEF Dirty
  <2>2. CASE t # s
    <3>1. d.map[t] = c.map[t]
      BY <1>7, <2>2
    <3>2. c.map[t] \in Slot => d.slot[c.map[t]].sec = t <=> c.slot[c.map[t]].sec = t
      <4>1. d.slot[k].sec # t /\ c.slot[k].sec # t
        BY <1>5, <2>2, SectorType DEF s
      <4> QED BY <1>5, <4>1
    <3>3. Cached(d, t) <=> Cached(c, t)
      BY <3>1, <3>2 DEF Cached
    <3>4. Cached(c, t) => d.slot[c.map[t]] = c.slot[c.map[t]]
      BY <1>5, <2>2 DEF Cached, s
    <3> QED BY <2>2, <3>1, <3>3, <3>4 DEF Dirty, Index, Content
  <2> QED BY <2>1, <2>2
<1>10. Caching(d, U)
  <2>1. Lists(d.lru, Slot \ {k}) /\ ToSet(d.lru) = Slot \ {k}
    BY <1>3, <1>5, ListsIs
  <2>2. Lists(d.lfree, {k}) /\ ToSet(d.lfree) = {k}
    <3>1. Lists(<<k>>, {k})
      BY DEF Lists
    <3> QED BY <1>5, <3>1, ListsIs
  <2>3. \A j \in Slot \ {k} : d.slot[j].sec \in U /\ d.map[d.slot[j].sec] = j
    <3> SUFFICES ASSUME NEW j \in Slot \ {k}
                 PROVE  d.slot[j].sec \in U /\ d.map[d.slot[j].sec] = j
      OBVIOUS
    <3>1. d.slot[j] = c.slot[j] /\ c.slot[j].sec \in U /\ c.map[c.slot[j].sec] = j
      BY <1>1, <1>4, <1>5 DEF Caching
    <3>2. c.slot[j].sec # s
      BY <1>6, <3>1
    <3> QED BY <1>4, <1>7, <3>1, <3>2
  <2> QED BY ZenonT(120), <1>4, <1>5, <2>1, <2>2, <2>3 DEF Caching
<1>11. Sectoring(d, U)
  BY <1>5, SectoringSame DEF Good
<1>12. Indexing(d, W)
  BY <1>4, <1>5, <1>9, IndexingSame DEF Good
<1>13. Clean(d, W, p.cold)
  BY <1>9 DEF Good, Clean
<1>14. Held(d, U, W, p.from, H)
  <2> SUFFICES ASSUME NEW h \in H
               PROVE  Right(d, h[1], Source(d, W, p.from, h[1]), h[2])
    BY DEF Good, Held
  <2> DEFINE t == h[1]
             v == h[2]
             f == Source(c, W, p.from, t)
  <2>1. t \in Sector /\ Right(c, t, f, v)
    BY <1>4 DEF Good, Held
  <2>2. Source(d, W, p.from, t) = f
    BY <1>5 DEF Source
  <2> HIDE DEF t, v, f
  <2>3. ASSUME t # s  PROVE Right(d, t, f, v)
    BY <1>9, <2>1, <2>3 DEF Right
  <2>4. ASSUME t = s  PROVE Right(d, t, f, v)
    <3>1. Content(c, s, f) = c.slot[k].data /\ (Dirty(c, s) <=> c.slot[k].dirty)
          /\ Index(c, s) = c.slot[k].swap
      BY <1>6 DEF Content, Dirty, Index
    <3>2. At(f, Index(c, s)) = v
      <4>1. CASE c.slot[k].dirty
        <5>1. s \in W
          BY <3>1, <4>1, <1>6 DEF Good, Clean
        <5>2. f = c.file
          BY <5>1, <2>4 DEF Source, f
        <5> QED BY <2>1, <2>4, <3>1, <4>1, <5>2 DEF Right
      <4>2. CASE ~ c.slot[k].dirty
        BY <2>1, <2>4, <3>1, <4>2 DEF Right
      <4> QED BY <4>1, <4>2
    <3>3. ~ Cached(d, s) /\ Index(d, s) = Index(c, s)
      BY <1>6, <1>9
    <3>4. Content(d, s, f) = At(f, Index(d, s))
      BY <3>3 DEF Content, Index
    <3> QED BY <2>4, <3>2, <3>3, <3>4 DEF Right
  <2>5. Right(d, t, f, v)
    BY <2>3, <2>4
  <2> QED BY <2>2, <2>5 DEF t, v, f
<1>15. Guarded(d, p.barrier, p.kept)
  BY <1>5 DEF Good, Guarded
<1>16. d.lfree # <<>>
  BY <1>5
<1> QED BY <1>3, <1>4, <1>5, <1>7, <1>9, <1>10, <1>11, <1>12, <1>13, <1>14, <1>15, <1>16 DEF Good, d, s

\* Giving up a slot loses nothing: the index that is kept in the sector map is
\* the one the slot was written to.
LEMMA EvictGood ==
  ASSUME NEW c, NEW U, NEW W, NEW H, NEW p, Good(c, U, W, H, p),
         c.lfree = <<>>
  PROVE  LET d == Evict(c)
         IN  /\ Good(d, U, W, H, p)
             /\ d.lfree # <<>>
             /\ \A t \in Sector : ~ Cached(c, t) => ~ Cached(d, t) /\ d.map[t] = c.map[t]
<1> DEFINE k == Last(c.lru)
           w == IF c.slot[k].dirty THEN WriteOut(c, k) ELSE c
<1>1. k \in ToSet(c.lru)
  <2>1. Lists(c.lru, Slot) /\ ToSet(c.lru) = Slot
    <3>1. ToSet(c.lfree) = {}
      BY ListsNone, ListsIs, Zenon
    <3>2. ToSet(c.lru) = Slot
      BY <3>1 DEF Good, Caching
    <3> QED BY <3>2 DEF Good, Caching
  <2>2. 0 \in Slot
    BY SwapAssumption DEF Slot
  <2>3. c.lru # <<>>
    BY <2>1, <2>2, ListsNone
  <2> QED BY <2>1, <2>3, ListsFront
<1>2. /\ IsDevice(c) /\ k \in Slot /\ c.slot[k].sec \in Sector
      /\ Caching(c, U) /\ c.map[c.slot[k].sec] = k
  BY <1>1 DEF Good, Caching
<1>3. /\ Good(w, U, W, H, p)
      /\ w.lru = c.lru /\ w.lfree = c.lfree /\ w.map = c.map
      /\ w.slot[k].sec = c.slot[k].sec
      /\ \A t \in Sector : Cached(w, t) <=> Cached(c, t)
      /\ w.slot[k].dirty => At(w.file, w.slot[k].swap) = w.slot[k].data
  <2>1. CASE c.slot[k].dirty
    <3>1. w = WriteOut(c, k)
      BY <2>1
    <3> HIDE DEF w, k
    <3>2. Good(w, U, W, H, p)
      BY <1>1, <2>1, <3>1, WriteOutGood
    <3>3. /\ w.map = c.map /\ w.lru = c.lru /\ w.lfree = c.lfree
          /\ w.slot = [c.slot EXCEPT ![k].swap = Place(c, k)]
          /\ w.file = Set(c.file, Place(c, k), c.slot[k].data)
      BY <1>2, <3>1, WriteOutIs
    <3>4. \A t \in Sector : Cached(w, t) <=> Cached(c, t)
      BY <1>1, <2>1, <3>1, WriteOutSeen
    <3>5. /\ w.slot[k].sec = c.slot[k].sec /\ w.slot[k].data = c.slot[k].data
          /\ w.slot[k].swap = Place(c, k)
      <4>1. w.slot[k] = [c.slot[k] EXCEPT !.swap = Place(c, k)]
        BY <1>2, <3>3 DEF IsDevice
      <4>2. IsSlot(c.slot[k])
        BY <1>2 DEF IsDevice
      <4> QED BY <4>1, <4>2 DEF IsSlot
    <3>6. At(w.file, w.slot[k].swap) = w.slot[k].data
      BY <3>3, <3>5, AtSet
    <3> QED BY <3>2, <3>3, <3>4, <3>5, <3>6
  <2>2. CASE ~ c.slot[k].dirty
    BY <2>2
  <2> QED BY <2>1, <2>2
<1> HIDE DEF w, k
<1>4. Evict(c) = Drop(w, k)
  <2>1. Evict(c) = [w EXCEPT !.map[c.slot[k].sec] = w.slot[k].swap,
                             !.slot[k].sec = Unused,
                             !.lru = Front(@),
                             !.lfree = <<k>>]
    BY Zenon DEF Evict, w, k
  <2>2. c.slot[k].sec = w.slot[k].sec
    BY <1>3
  <2> QED BY <2>1, <2>2, Zenon DEF Drop
<1>5. w.lfree = <<>> /\ k = Last(w.lru)
  BY <1>3 DEF k
<1>6. /\ Good(Drop(w, k), U, W, H, p)
      /\ Drop(w, k).lfree # <<>>
      /\ \A t \in Sector : t # w.slot[k].sec => Drop(w, k).map[t] = w.map[t]
      /\ \A t \in Sector : ~ Cached(w, t) => ~ Cached(Drop(w, k), t)
  BY <1>3, <1>5, DropGood
<1>7. Cached(c, c.slot[k].sec)
  BY <1>1, <1>2, CachedIs
<1> QED BY <1>3, <1>4, <1>6, <1>7

-----------------------------------------------------------------------------

\* The second half of Load: the sector s is put in the first free slot.
Fetch(c, s, f) ==
  LET k == Head(c.lfree)
  IN  [c EXCEPT !.lfree = Tail(@),
                !.lru = <<k>> \o @,
                !.map[s] = k,
                !.slot[k] = [sec |-> s, swap |-> c.map[s],
                             dirty |-> FALSE, data |-> At(f, c.map[s])]]

\* The fields of d, what Fetch makes of c.
Fetched(c, d, s, f, k) ==
  /\ IsDevice(d) /\ k \in Slot /\ k \in ToSet(c.lfree)
  /\ Lists(Tail(c.lfree), ToSet(c.lfree) \ {k})
  /\ d.map = [c.map EXCEPT ![s] = k]
  /\ \A j \in Slot : j # k => d.slot[j] = c.slot[j]
  /\ d.slot[k].sec = s /\ d.slot[k].swap = c.map[s]
  /\ d.slot[k].dirty = FALSE /\ d.slot[k].data = At(f, c.map[s])
  /\ d.lru = <<k>> \o c.lru /\ d.lfree = Tail(c.lfree)
  /\ d.mfree = c.mfree /\ d.nsectors = c.nsectors
  /\ d.sfree = c.sfree /\ d.ssectors = c.ssectors
  /\ d.sbarrier = c.sbarrier /\ d.file = c.file

\* Fetch does what Fetched says.
LEMMA FetchIs ==
  ASSUME NEW c, NEW U, Caching(c, U), c.lfree # <<>>, NEW s \in Sector, NEW f
  PROVE  Fetched(c, Fetch(c, s, f), s, f, Head(c.lfree))
<1> DEFINE d == Fetch(c, s, f)
           k == Head(c.lfree)
           e == [sec |-> s, swap |-> c.map[s], dirty |-> FALSE, data |-> At(f, c.map[s])]
<1>1. /\ k \in ToSet(c.lfree) /\ IsDevice(c)
      /\ Lists(Tail(c.lfree), ToSet(c.lfree) \ {k})
  BY ListsTail DEF Caching
<1>2. k \in Slot
  BY <1>1 DEF Caching
<1>3. /\ d = [map |-> d.map, slot |-> d.slot, lru |-> d.lru, lfree |-> d.lfree,
              mfree |-> d.mfree, nsectors |-> d.nsectors, sfree |-> d.sfree,
              ssectors |-> d.ssectors, sbarrier |-> d.sbarrier, file |-> d.file]
      /\ d.map = [c.map EXCEPT ![s] = k]
      /\ d.slot = [c.slot EXCEPT ![k] = e]
      /\ d.lru = <<k>> \o c.lru /\ d.lfree = Tail(c.lfree)
      /\ d.mfree = c.mfree /\ d.nsectors = c.nsectors
      /\ d.sfree = c.sfree /\ d.ssectors = c.ssectors
      /\ d.sbarrier = c.sbarrier /\ d.file = c.file
  <2>1. d = [c EXCEPT !.lfree = Tail(@), !.lru = <<k>> \o @, !.map[s] = k,
                      !.slot[k] = e]
    BY Zenon DEF Fetch
  <2>2. c = [map |-> c.map, slot |-> c.slot, lru |-> c.lru, lfree |-> c.lfree,
             mfree |-> c.mfree, nsectors |-> c.nsectors, sfree |-> c.sfree,
             ssectors |-> c.ssectors, sbarrier |-> c.sbarrier, file |-> c.file]
    BY <1>1 DEF IsDevice
  <2> HIDE DEF d, e, k
  <2> QED BY <2>1, <2>2
<1> HIDE DEF d, k
<1>4. /\ e.sec = s /\ e.swap = c.map[s] /\ e.dirty = FALSE /\ e.data = At(f, c.map[s])
      /\ IsSlot(e)
  BY <1>1 DEF IsDevice, IsSlot
<1> HIDE DEF e
<1>5. \A j \in Slot : j # k => d.slot[j] = c.slot[j]
  BY <1>1, <1>3 DEF IsDevice
<1>6. d.slot[k] = e
  BY <1>1, <1>2, <1>3 DEF IsDevice
<1>7. \A j \in Slot : IsSlot(d.slot[j])
  BY <1>1, <1>4, <1>5, <1>6 DEF IsDevice
<1>8. d.slot = [j \in Slot |-> d.slot[j]]
  BY <1>1, <1>3 DEF IsDevice
<1>9. d.map \in [Sector -> IndexType]
  BY <1>1, <1>2, <1>3, SectorType DEF IsDevice, IndexType
<1>10. IsDevice(d)
  BY <1>1, <1>3, <1>7, <1>8, <1>9 DEF IsDevice
<1>11. Fetched(c, d, s, f, k)
  BY <1>1, <1>2, <1>3, <1>4, <1>5, <1>6, <1>10 DEF Fetched
<1> QED BY <1>11 DEF d, k

\* A sector that is not cached can be loaded from the file it is in.
LEMMA FetchGood ==
  ASSUME NEW c, NEW U, NEW W, NEW H, NEW p, Good(c, U, W, H, p),
         c.lfree # <<>>, NEW s \in U, ~ Cached(c, s),
         NEW f, f = Source(c, W, p.from, s), s \in W \/ s \notin p.cold
  PROVE  LET d == Fetch(c, s, f)
         IN  Good(d, U, W, H, p) /\ Cached(d, s)
<1> DEFINE d == Fetch(c, s, f)
           k == Head(c.lfree)
<1>1. Caching(c, U) /\ U \subseteq Sector /\ W \subseteq U /\ IsDevice(c) /\ s \in Sector
  BY DEF Good, Caching
<1>2. /\ IsDevice(d) /\ k \in Slot /\ k \in ToSet(c.lfree)
      /\ Lists(Tail(c.lfree), ToSet(c.lfree) \ {k})
      /\ d.map = [c.map EXCEPT ![s] = k]
      /\ \A j \in Slot : j # k => d.slot[j] = c.slot[j]
      /\ d.slot[k].sec = s /\ d.slot[k].swap = c.map[s]
      /\ d.slot[k].dirty = FALSE /\ d.slot[k].data = At(f, c.map[s])
      /\ d.lru = <<k>> \o c.lru /\ d.lfree = Tail(c.lfree)
      /\ d.mfree = c.mfree /\ d.nsectors = c.nsectors
      /\ d.sfree = c.sfree /\ d.ssectors = c.ssectors
      /\ d.sbarrier = c.sbarrier /\ d.file = c.file
  <2>1. Fetched(c, d, s, f, k)
    BY <1>1, FetchIs
  <2> HIDE DEF d, k
  <2> QED BY <2>1 DEF Fetched
<1> HIDE DEF d, k
<1>3. d.map[s] = k /\ \A t \in Sector : t # s => d.map[t] = c.map[t]
  BY <1>1, <1>2 DEF IsDevice
<1>4. /\ d.slot[k].sec = s /\ d.slot[k].swap = c.map[s]
      /\ d.slot[k].dirty = FALSE /\ d.slot[k].data = At(f, c.map[s])
  BY <1>2
<1>5. Cached(d, s)
  BY <1>2, <1>3, <1>4 DEF Cached
<1>6. c.slot[k].sec = Unused /\ k \notin ToSet(c.lru)
  BY <1>1, <1>2 DEF Caching
<1>7. ASSUME NEW t \in Sector, t # s
      PROVE  /\ Cached(d, t) <=> Cached(c, t)
             /\ Dirty(d, t) <=> Dirty(c, t)
             /\ Index(d, t) = Index(c, t)
             /\ \A g : Content(d, t, g) = Content(c, t, g)
  <2>1. d.map[t] = c.map[t] /\ d.slot[k].sec # t /\ c.slot[k].sec # t
    BY <1>3, <1>4, <1>6, <1>7, SectorType
  <2>2. c.map[t] \in Slot => d.slot[c.map[t]].sec = t <=> c.slot[c.map[t]].sec = t
    BY <1>2, <2>1
  <2>3. Cached(d, t) <=> Cached(c, t)
    BY <2>1, <2>2 DEF Cached
  <2>4. Cached(c, t) => d.slot[c.map[t]] = c.slot[c.map[t]]
    BY <1>2, <2>1 DEF Cached
  <2> QED BY <2>1, <2>3, <2>4 DEF Dirty, Index, Content
<1>8. /\ ~ Dirty(d, s) /\ ~ Dirty(c, s)
      /\ Index(d, s) = Index(c, s) /\ Index(c, s) = c.map[s]
      /\ \A g : Content(d, s, g) = At(f, c.map[s]) /\ Content(c, s, g) = At(g, c.map[s])
  BY <1>3, <1>4, <1>5 DEF Dirty, Index, Content
<1>9. Caching(d, U)
  <2>1. ToSet(c.lfree) \ {k} = ToSet(d.lfree) /\ Lists(d.lfree, ToSet(d.lfree))
    BY <1>2, ListsIs
  <2>2. Lists(d.lru, ToSet(c.lru) \cup {k}) /\ ToSet(d.lru) = ToSet(c.lru) \cup {k}
    <3>1. Lists(<<k>> \o c.lru, ToSet(c.lru) \cup {k})
      BY <1>1, <1>6, ListsCons DEF Caching
    <3>2. Lists(d.lru, ToSet(c.lru) \cup {k})
      BY <1>2, <3>1
    <3> QED BY <3>2, ListsIs
  <2>3. \A j \in ToSet(c.lru) : d.slot[j].sec \in U /\ d.map[d.slot[j].sec] = j
    <3> SUFFICES ASSUME NEW j \in ToSet(c.lru)
                 PROVE  d.slot[j].sec \in U /\ d.map[d.slot[j].sec] = j
      OBVIOUS
    <3>1. d.slot[j] = c.slot[j] /\ c.slot[j].sec \in U /\ c.map[c.slot[j].sec] = j
      BY <1>1, <1>2, <1>6 DEF Caching
    <3>2. c.slot[j].sec # s
      BY <1>1, CachedIs
    <3> QED BY <1>1, <1>3, <3>1, <3>2
  <2>4. \A j \in ToSet(d.lfree) : d.slot[j].sec = Unused
    BY <1>1, <1>2, <2>1 DEF Caching
  <2>5. /\ ToSet(d.lru) \cap ToSet(d.lfree) = {}
        /\ ToSet(d.lru) \cup ToSet(d.lfree) = Slot
    BY <1>1, <1>2, <2>1, <2>2, <1>6 DEF Caching
  <2>6. \A j \in ToSet(d.lru) : d.slot[j].sec \in U /\ d.map[d.slot[j].sec] = j
    BY <1>3, <1>4, <2>2, <2>3
  <2>7. Lists(d.lru, ToSet(d.lru)) /\ IsDevice(d)
    BY <1>2, <2>2
  <2> QED BY <1>1, <2>1, <2>4, <2>5, <2>6, <2>7 DEF Caching
<1>10. Sectoring(d, U)
  BY <1>2, SectoringSame DEF Good
<1>11. Indexing(d, W)
  <2>1. \A t \in W : Index(d, t) = Index(c, t)
    BY <1>1, <1>7, <1>8
  <2> QED BY <1>2, <2>1, IndexingSame DEF Good
<1>12. Clean(d, W, p.cold)
  BY <1>7, <1>8 DEF Good, Clean
<1>13. Held(d, U, W, p.from, H)
  <2> SUFFICES ASSUME NEW h \in H
               PROVE  Right(d, h[1], Source(d, W, p.from, h[1]), h[2])
    BY DEF Good, Held
  <2> DEFINE t == h[1]
             v == h[2]
             g == Source(c, W, p.from, t)
  <2>1. t \in Sector /\ Right(c, t, g, v)
    BY <1>1 DEF Good, Held
  <2>2. Source(d, W, p.from, t) = g
    BY <1>2 DEF Source
  <2>3. t = s => g = f
    OBVIOUS
  <2> HIDE DEF t, v, g
  <2>4. ASSUME t # s  PROVE Right(d, t, g, v)
    BY <1>7, <2>1, <2>4 DEF Right
  <2>5. ASSUME t = s  PROVE Right(d, t, g, v)
    BY <1>8, <2>1, <2>3, <2>5 DEF Right
  <2>6. Right(d, t, g, v)
    BY <2>4, <2>5
  <2> QED BY <2>2, <2>6 DEF t, v, g
<1>14. Guarded(d, p.barrier, p.kept)
  BY <1>2 DEF Good, Guarded
<1> QED BY <1>1, <1>5, <1>9, <1>10, <1>11, <1>12, <1>13, <1>14 DEF Good, d

-----------------------------------------------------------------------------

\* Load of a sector that is in the cache.
Touch(c, k) == [c EXCEPT !.lru = <<k>> \o Without(@, k)]

\* Moving a slot to the front changes nothing else.
LEMMA TouchGood ==
  ASSUME NEW c, NEW U, NEW W, NEW H, NEW p, Good(c, U, W, H, p),
         NEW k \in ToSet(c.lru)
  PROVE  /\ Good(Touch(c, k), U, W, H, p)
         /\ Touch(c, k).map = c.map /\ Touch(c, k).slot = c.slot
<1> DEFINE d == Touch(c, k)
<1>1. Caching(c, U) /\ W \subseteq U /\ U \subseteq Sector /\ IsDevice(c)
  BY DEF Good, Caching
<1>2. /\ d = [map |-> d.map, slot |-> d.slot, lru |-> d.lru, lfree |-> d.lfree,
              mfree |-> d.mfree, nsectors |-> d.nsectors, sfree |-> d.sfree,
              ssectors |-> d.ssectors, sbarrier |-> d.sbarrier, file |-> d.file]
      /\ d.map = c.map /\ d.slot = c.slot /\ d.lfree = c.lfree
      /\ d.lru = <<k>> \o Without(c.lru, k)
      /\ d.mfree = c.mfree /\ d.nsectors = c.nsectors
      /\ d.sfree = c.sfree /\ d.ssectors = c.ssectors
      /\ d.sbarrier = c.sbarrier /\ d.file = c.file
  <2>1. d = [c EXCEPT !.lru = <<k>> \o Without(@, k)]
    BY Zenon DEF Touch
  <2>2. c = [map |-> c.map, slot |-> c.slot, lru |-> c.lru, lfree |-> c.lfree,
             mfree |-> c.mfree, nsectors |-> c.nsectors, sfree |-> c.sfree,
             ssectors |-> c.ssectors, sbarrier |-> c.sbarrier, file |-> c.file]
    BY <1>1 DEF IsDevice
  <2> HIDE DEF d
  <2> QED BY <2>1, <2>2
<1> HIDE DEF d
<1>3. Lists(d.lru, ToSet(c.lru))
  <2>1. Lists(Without(c.lru, k), ToSet(c.lru) \ {k})
    BY <1>1, ListsWithout DEF Caching
  <2>2. Lists(<<k>> \o Without(c.lru, k), (ToSet(c.lru) \ {k}) \cup {k})
    BY <2>1, ListsCons
  <2>3. (ToSet(c.lru) \ {k}) \cup {k} = ToSet(c.lru)
    OBVIOUS
  <2> QED BY <1>2, <2>2, <2>3
<1>4. ToSet(d.lru) = ToSet(c.lru)
  BY <1>3, ListsIs
<1>5. IsDevice(d)
  BY <1>1, <1>2 DEF IsDevice
<1>6. Caching(d, U)
  BY <1>1, <1>2, <1>3, <1>4, <1>5 DEF Caching
<1>7. \A t : /\ Cached(d, t) <=> Cached(c, t)
             /\ Dirty(d, t) <=> Dirty(c, t)
             /\ Index(d, t) = Index(c, t)
             /\ \A f : Content(d, t, f) = Content(c, t, f)
  BY <1>2 DEF Cached, Dirty, Index, Content
<1>8. Sectoring(d, U)
  BY <1>2, SectoringSame DEF Good
<1>9. Indexing(d, W)
  BY <1>2, <1>7, IndexingSame DEF Good
<1>10. Clean(d, W, p.cold)
  BY <1>7 DEF Good, Clean
<1>11. Held(d, U, W, p.from, H)
  BY <1>2, <1>7 DEF Good, Held, Right, Source
<1>12. Guarded(d, p.barrier, p.kept)
  BY <1>2 DEF Good, Guarded
<1> QED BY <1>1, <1>2, <1>6, <1>8, <1>9, <1>10, <1>11, <1>12 DEF Good, d

\* load(): the sector is cached then, and nothing is lost by what had to be
\* given up or written for it.
LEMMA LoadGood ==
  ASSUME NEW c, NEW U, NEW W, NEW H, NEW p, Good(c, U, W, H, p),
         NEW s \in U, NEW restore \in BOOLEAN, NEW f,
         IF restore THEN s \notin W /\ s \notin p.cold /\ f = p.from[s] ELSE s \in W
  PROVE  LET d == Load(c, s, restore, f)
         IN  Good(d, U, W, H, p) /\ Cached(d, s)
<1>1. Caching(c, U) /\ s \in Sector
  BY DEF Good, Caching
<1>2. CASE Cached(c, s)
  <2>1. Load(c, s, restore, f) = Touch(c, c.map[s])
    BY <1>2, Zenon DEF Load, Touch
  <2>2. c.map[s] \in ToSet(c.lru)
    BY <1>1, <1>2, CachedIs
  <2>3. /\ Good(Touch(c, c.map[s]), U, W, H, p)
        /\ Touch(c, c.map[s]).map = c.map /\ Touch(c, c.map[s]).slot = c.slot
    BY <2>2, TouchGood
  <2>4. Cached(Touch(c, c.map[s]), s)
    BY <1>2, <2>3 DEF Cached
  <2> QED BY <2>1, <2>3, <2>4
<1>3. CASE ~ Cached(c, s)
  <2> DEFINE d == IF c.lfree = <<>> THEN Evict(c) ELSE c
             g == IF restore THEN f ELSE d.file
  <2>1. /\ Good(d, U, W, H, p) /\ d.lfree # <<>>
        /\ ~ Cached(d, s) /\ d.map[s] = c.map[s]
    <3>1. CASE c.lfree = <<>>
      BY <1>1, <1>3, <3>1, EvictGood
    <3>2. CASE c.lfree # <<>>
      BY <1>3, <3>2
    <3> QED BY <3>1, <3>2
  <2>2. g = Source(d, W, p.from, s)
    BY DEF Source
  <2>3. Load(c, s, restore, f) = Fetch(d, s, g)
    <3>1. Load(c, s, restore, f) =
            LET k == Head(d.lfree)
            IN [d EXCEPT !.lfree = Tail(@),
                         !.lru = <<k>> \o @,
                         !.map[s] = k,
                         !.slot[k] = [sec |-> s, swap |-> c.map[s],
                                      dirty |-> FALSE,
                                      data |-> At(g, c.map[s])]]
      BY <1>3, Zenon DEF Load
    <3> HIDE DEF d, g
    <3>2. QED BY <2>1, <3>1, Zenon DEF Fetch
  <2> HIDE DEF d, g
  <2>4. Good(Fetch(d, s, g), U, W, H, p) /\ Cached(Fetch(d, s, g), s)
    BY <2>1, <2>2, FetchGood
  <2> QED BY <2>3, <2>4
<1> QED BY <1>2, <1>3

-----------------------------------------------------------------------------

\* Less may be expected of what the sectors hold.
LEMMA Fewer ==
  ASSUME NEW c, NEW U, NEW W, NEW H, NEW p, Good(c, U, W, H, p),
         NEW K, K \subseteq H
  PROVE  Good(c, U, W, K, p)
BY DEF Good, Held

\* A slot that is in use is changed, but still belongs to its sector.
Altered(c, k, e) == [c EXCEPT !.slot[k] = e]

\* What the change of the slot of sector s makes of the device.
AlteredFrom(c, d, U, s, e) ==
  /\ Caching(d, U) /\ IsDevice(d)
  /\ d.map = c.map /\ d.lru = c.lru /\ d.lfree = c.lfree
  /\ d.mfree = c.mfree /\ d.nsectors = c.nsectors
  /\ d.sfree = c.sfree /\ d.ssectors = c.ssectors
  /\ d.sbarrier = c.sbarrier /\ d.file = c.file
  /\ \A t \in Sector \ {s} : /\ Cached(d, t) <=> Cached(c, t)
                             /\ Dirty(d, t) <=> Dirty(c, t)
                             /\ Index(d, t) = Index(c, t)
                             /\ \A f : Content(d, t, f) = Content(c, t, f)
  /\ Cached(d, s) /\ (Dirty(d, s) <=> e.dirty) /\ Index(d, s) = e.swap
  /\ \A f : Content(d, s, f) = e.data

\* A slot in use may be changed as long as it remains the slot of its sector.
LEMMA AlteredIs ==
  ASSUME NEW c, NEW U, Caching(c, U), NEW s \in U, Cached(c, s),
         NEW e, IsSlot(e), e.sec = s
  PROVE  AlteredFrom(c, Altered(c, c.map[s], e), U, s, e)
<1> DEFINE k == c.map[s]
           d == Altered(c, k, e)
<1>1. /\ IsDevice(c) /\ s \in Sector /\ k \in ToSet(c.lru) /\ k \in Slot
      /\ c.slot[k].sec = s /\ U \subseteq Sector
  <2>1. IsDevice(c) /\ s \in Sector /\ U \subseteq Sector
    BY DEF Caching
  <2> QED BY <2>1, CachedIs
<1>2. /\ d = [map |-> d.map, slot |-> d.slot, lru |-> d.lru, lfree |-> d.lfree,
              mfree |-> d.mfree, nsectors |-> d.nsectors, sfree |-> d.sfree,
              ssectors |-> d.ssectors, sbarrier |-> d.sbarrier, file |-> d.file]
      /\ d.map = c.map /\ d.lru = c.lru /\ d.lfree = c.lfree
      /\ d.slot = [c.slot EXCEPT ![k] = e]
      /\ d.mfree = c.mfree /\ d.nsectors = c.nsectors
      /\ d.sfree = c.sfree /\ d.ssectors = c.ssectors
      /\ d.sbarrier = c.sbarrier /\ d.file = c.file
  <2>1. d = [c EXCEPT !.slot[k] = e]
    BY Zenon DEF Altered
  <2>2. c = [map |-> c.map, slot |-> c.slot, lru |-> c.lru, lfree |-> c.lfree,
             mfree |-> c.mfree, nsectors |-> c.nsectors, sfree |-> c.sfree,
             ssectors |-> c.ssectors, sbarrier |-> c.sbarrier, file |-> c.file]
    BY <1>1 DEF IsDevice
  <2> HIDE DEF d, k
  <2> QED BY <2>1, <2>2
<1> HIDE DEF d
<1>3. /\ \A j \in Slot : j # k => d.slot[j] = c.slot[j]
      /\ d.slot[k] = e
      /\ d.slot = [j \in Slot |-> d.slot[j]]
  BY <1>1, <1>2 DEF IsDevice
<1>4. \A j \in Slot : IsSlot(d.slot[j]) /\ d.slot[j].sec = c.slot[j].sec
  BY <1>1, <1>3 DEF IsDevice
<1>5. IsDevice(d)
  BY <1>1, <1>2, <1>3, <1>4 DEF IsDevice
<1>6. Caching(d, U)
  BY <1>2, <1>4, <1>5 DEF Caching
<1>7. ASSUME NEW t \in Sector \ {s}
      PROVE  /\ Cached(d, t) <=> Cached(c, t)
             /\ Dirty(d, t) <=> Dirty(c, t)
             /\ Index(d, t) = Index(c, t)
             /\ \A f : Content(d, t, f) = Content(c, t, f)
  <2>1. Cached(d, t) <=> Cached(c, t)
    BY <1>2, <1>4 DEF Cached
  <2>2. Cached(c, t) => d.slot[c.map[t]] = c.slot[c.map[t]]
    BY <1>1, <1>3 DEF Cached
  <2> QED BY <1>2, <2>1, <2>2 DEF Dirty, Index, Content
<1>8. Cached(d, s) /\ d.slot[d.map[s]] = e
  BY <1>1, <1>2, <1>3, <1>4 DEF Cached
<1>9. /\ Dirty(d, s) <=> e.dirty
      /\ Index(d, s) = e.swap
      /\ \A f : Content(d, s, f) = e.data
  BY <1>8 DEF Dirty, Index, Content
<1>10. AlteredFrom(c, d, U, s, e)
  BY <1>2, <1>5, <1>6, <1>7, <1>8, <1>9 DEF AlteredFrom
<1> QED BY <1>10 DEF d

\* A slot after its content was written.
LEMMA SlotWritten ==
  ASSUME NEW x, IsSlot(x), NEW v, NEW w
  PROVE  [[x EXCEPT !.dirty = w] EXCEPT !.data = v] =
            [sec |-> x.sec, swap |-> x.swap, dirty |-> w, data |-> v]
<1>1. [x EXCEPT !.dirty = w] = [sec |-> x.sec, swap |-> x.swap, dirty |-> w, data |-> x.data]
  BY DEF IsSlot
<1> DEFINE y == [x EXCEPT !.dirty = w]
<1>2. y = [sec |-> x.sec, swap |-> x.swap, dirty |-> w, data |-> x.data]
  BY <1>1
<1> HIDE DEF y
<1>3. [y EXCEPT !.data = v] = [sec |-> x.sec, swap |-> x.swap, dirty |-> w, data |-> v]
  BY <1>2
<1> QED BY <1>3 DEF y

\* writev() of a sector: it holds what was written, the others what they held.
LEMMA WriteSectorGood ==
  ASSUME NEW c, NEW U, NEW W, NEW H, NEW p, Good(c, U, W, H, p),
         NEW s \in W, NEW v
  PROVE  Good(WriteSector(c, s, v), U, W, {h \in H : h[1] # s} \cup {<<s, v>>}, p)
<1> DEFINE b == Load(c, s, FALSE, <<>>)
           k == b.map[s]
           e == [sec |-> b.slot[k].sec, swap |-> b.slot[k].swap, dirty |-> TRUE, data |-> v]
           d == Altered(b, k, e)
<1>1. W \subseteq U /\ U \subseteq Sector /\ s \in Sector /\ s \in U
  BY DEF Good, Caching
<1>2. Good(b, U, W, H, p) /\ Cached(b, s)
  BY <1>1, LoadGood
<1> HIDE DEF b
<1>3. /\ Caching(b, U) /\ k \in Slot /\ IsSlot(b.slot[k]) /\ b.slot[k].sec = s /\ IsDevice(b)
  BY <1>2 DEF Good, Caching, IsDevice, Cached
<1>4. WriteSector(c, s, v) = d
  <2>1. WriteSector(c, s, v) = [b EXCEPT !.slot[k].dirty = TRUE, !.slot[k].data = v]
    BY Zenon DEF WriteSector, b
  <2>2. b = [map |-> b.map, slot |-> b.slot, lru |-> b.lru, lfree |-> b.lfree,
             mfree |-> b.mfree, nsectors |-> b.nsectors, sfree |-> b.sfree,
             ssectors |-> b.ssectors, sbarrier |-> b.sbarrier, file |-> b.file]
    BY <1>3 DEF IsDevice
  <2>3. b.slot[k] = [sec |-> b.slot[k].sec, swap |-> b.slot[k].swap,
                     dirty |-> b.slot[k].dirty, data |-> b.slot[k].data]
    BY <1>3 DEF IsSlot
  <2>4. b.slot = [j \in Slot |-> b.slot[j]]
    BY <1>3 DEF IsDevice
  <2>5. [b.slot[k] EXCEPT !.dirty = TRUE, !.data = v] = e
    <3>1. [b.slot[k] EXCEPT !.dirty = TRUE, !.data = v] = [[b.slot[k] EXCEPT !.dirty = TRUE] EXCEPT !.data = v]
      BY Zenon
    <3> QED BY <1>3, <3>1, SlotWritten
  <2> HIDE DEF e, k
  <2>6. [b EXCEPT !.slot[k].dirty = TRUE, !.slot[k].data = v] = [b EXCEPT !.slot[k] = [b.slot[k] EXCEPT !.dirty = TRUE, !.data = v]]
    BY <1>3, <2>2, <2>4
  <2> QED BY <2>1, <2>5, <2>6, Zenon DEF Altered
<1>5. IsSlot(e) /\ e.sec = s /\ e.dirty = TRUE /\ e.data = v /\ e.swap = b.slot[k].swap
  BY <1>3 DEF IsSlot
<1>6. e.swap = Index(b, s)
  BY <1>2, <1>5 DEF Index
<1> HIDE DEF e
<1>7. AlteredFrom(b, d, U, s, e)
  BY <1>1, <1>2, <1>3, <1>5, AlteredIs
<1> HIDE DEF d, k
<1>8. Sectoring(d, U)
  BY <1>2, <1>7, SectoringSame DEF Good, AlteredFrom
<1>9. Indexing(d, W)
  <2>1. \A t \in W : Index(d, t) = Index(b, t)
    BY <1>1, <1>6, <1>7 DEF AlteredFrom
  <2> QED BY <1>2, <1>7, <2>1, IndexingSame DEF Good, AlteredFrom
<1>10. Clean(d, W, p.cold)
  BY <1>2, <1>7 DEF Good, Clean, AlteredFrom
<1>11. Held(d, U, W, p.from, {h \in H : h[1] # s} \cup {<<s, v>>})
  <2>1. ASSUME NEW h \in H, h[1] # s
        PROVE  h[1] \in U /\ Right(d, h[1], Source(d, W, p.from, h[1]), h[2])
    <3>1. h[1] \in U /\ Right(b, h[1], Source(b, W, p.from, h[1]), h[2])
      BY <1>2 DEF Good, Held
    <3>2. Source(d, W, p.from, h[1]) = Source(b, W, p.from, h[1])
      BY <1>7 DEF Source, AlteredFrom
    <3> QED BY <1>1, <1>7, <2>1, <3>1, <3>2 DEF Right, AlteredFrom
  <2>2. Right(d, s, Source(d, W, p.from, s), v)
    BY <1>5, <1>7 DEF Right, AlteredFrom
  <2> QED BY <1>1, <2>1, <2>2 DEF Held
<1>12. Guarded(d, p.barrier, p.kept)
  BY <1>2, <1>7 DEF Good, Guarded, AlteredFrom
<1> QED BY <1>1, <1>4, <1>7, <1>8, <1>9, <1>10, <1>11, <1>12 DEF Good, AlteredFrom

\* Sectors that have no index may be added to those in the swap file.
LEMMA IndexingMore ==
  ASSUME NEW c, NEW d, NEW W, NEW S, Indexing(c, W), S \subseteq Sector,
         d.sfree = c.sfree, d.ssectors = c.ssectors, d.sbarrier = c.sbarrier,
         c.sbarrier \in Nat,
         \A t \in W \ S : Index(d, t) = Index(c, t),
         \A t \in S : Index(d, t) = Unused /\ (t \in W => Index(c, t) = Unused)
  PROVE  Indexing(d, W \cup S)
<1>1. W \subseteq Sector /\ c.sfree \in Seq(Nat) /\ ToSet(c.sfree) \subseteq Nat
  BY ToSetIn DEF Indexing
<1>2. \A t \in W : Index(d, t) = Index(c, t)
  OBVIOUS
<1>3. \A s, t \in W \cup S : Index(d, s) # Unused /\ Index(d, s) = Index(d, t) => s = t
  BY <1>2 DEF Indexing
<1>4. \A x \in ToSet(d.sfree) : /\ x + d.sbarrier < d.ssectors
                                /\ \A s \in W \cup S : Index(d, s) # x + d.sbarrier
  BY <1>1, <1>2, SectorType DEF Indexing
<1>5. \A i \in d.sbarrier .. d.ssectors - 1 :
        i - d.sbarrier \in ToSet(d.sfree) \/ \E s \in W \cup S : Index(d, s) = i
  BY <1>2 DEF Indexing
<1>6. \A s \in W \cup S : Index(d, s) # Unused => Index(d, s) < d.ssectors
  BY <1>2 DEF Indexing
<1> QED BY <1>1, <1>3, <1>4, <1>5, <1>6 DEF Indexing

\* dreadv() of a sector: it belongs to the swap file then, without an index.
LEMMA RestoreSectorGood ==
  ASSUME NEW c, NEW U, NEW W, NEW H, NEW p, Good(c, U, W, H, p),
         NEW s \in U, s \notin W, s \notin p.cold
  PROVE  Good(RestoreSector(c, s, p.from[s]), U, W \cup {s}, {h \in H : h[1] # s}, p)
<1> DEFINE b == Load(c, s, TRUE, p.from[s])
           k == b.map[s]
           e == [sec |-> b.slot[k].sec, swap |-> Unused,
                 dirty |-> b.slot[k].dirty, data |-> b.slot[k].data]
           d == Altered(b, k, e)
<1>1. W \subseteq U /\ U \subseteq Sector /\ s \in Sector
  BY DEF Good, Caching
<1>2. Good(b, U, W, H, p) /\ Cached(b, s)
  BY <1>1, LoadGood
<1> HIDE DEF b
<1>3. /\ Caching(b, U) /\ k \in Slot /\ IsSlot(b.slot[k]) /\ b.slot[k].sec = s /\ IsDevice(b)
  BY <1>2 DEF Good, Caching, IsDevice, Cached
<1>4. RestoreSector(c, s, p.from[s]) = d
  <2>1. RestoreSector(c, s, p.from[s]) = [b EXCEPT !.slot[k].swap = Unused]
    BY Zenon DEF RestoreSector, b
  <2>2. b = [map |-> b.map, slot |-> b.slot, lru |-> b.lru, lfree |-> b.lfree,
             mfree |-> b.mfree, nsectors |-> b.nsectors, sfree |-> b.sfree,
             ssectors |-> b.ssectors, sbarrier |-> b.sbarrier, file |-> b.file]
    BY <1>3 DEF IsDevice
  <2>3. b.slot[k] = [sec |-> b.slot[k].sec, swap |-> b.slot[k].swap,
                     dirty |-> b.slot[k].dirty, data |-> b.slot[k].data]
    BY <1>3 DEF IsSlot
  <2>4. b.slot = [j \in Slot |-> b.slot[j]]
    BY <1>3 DEF IsDevice
  <2>5. [b.slot[k] EXCEPT !.swap = Unused] = e
    <3> HIDE DEF k
    <3> QED BY <2>3
  <2> HIDE DEF e, k
  <2>6. [b EXCEPT !.slot[k].swap = Unused] = [b EXCEPT !.slot[k] = [b.slot[k] EXCEPT !.swap = Unused]]
    BY <1>3, <2>2, <2>4
  <2> QED BY <2>1, <2>5, <2>6, Zenon DEF Altered
<1>5. IsSlot(e) /\ e.sec = s /\ e.dirty = b.slot[k].dirty /\ e.swap = Unused
  BY <1>3 DEF IsSlot, IndexType
<1>6. e.dirty <=> Dirty(b, s)
  BY <1>2, <1>5 DEF Dirty
<1> HIDE DEF e
<1>7. AlteredFrom(b, d, U, s, e)
  BY <1>1, <1>2, <1>3, <1>5, AlteredIs
<1> HIDE DEF d, k
<1>8. Sectoring(d, U)
  BY <1>2, <1>7, SectoringSame DEF Good, AlteredFrom
<1>9. Indexing(d, W \cup {s})
  <2>1. \A t \in W \ {s} : Index(d, t) = Index(b, t)
    BY <1>1, <1>7 DEF AlteredFrom
  <2>2. \A t \in {s} : Index(d, t) = Unused /\ (t \in W => Index(b, t) = Unused)
    BY <1>5, <1>7 DEF AlteredFrom
  <2>3. b.sbarrier \in Nat /\ Indexing(b, W) /\ {s} \subseteq Sector
    BY <1>1, <1>2, <1>3 DEF IsDevice, Good
  <2>4. d.sfree = b.sfree /\ d.ssectors = b.ssectors /\ d.sbarrier = b.sbarrier
    BY <1>7 DEF AlteredFrom
  <2> QED BY <2>1, <2>2, <2>3, <2>4, IndexingMore
<1>10. Clean(d, W \cup {s}, p.cold)
  BY <1>2, <1>7 DEF Good, Clean, AlteredFrom
<1>11. Held(d, U, W \cup {s}, p.from, {h \in H : h[1] # s})
  <2>1. ASSUME NEW h \in H, h[1] # s
        PROVE  h[1] \in U /\ Right(d, h[1], Source(d, W \cup {s}, p.from, h[1]), h[2])
    <3>1. h[1] \in U /\ Right(b, h[1], Source(b, W, p.from, h[1]), h[2])
      BY <1>2 DEF Good, Held
    <3>2. Source(d, W \cup {s}, p.from, h[1]) = Source(b, W, p.from, h[1])
      BY <1>7, <2>1 DEF Source, AlteredFrom
    <3> QED BY <1>1, <1>7, <2>1, <3>1, <3>2 DEF Right, AlteredFrom
  <2> QED BY <2>1 DEF Held
<1>12. Guarded(d, p.barrier, p.kept)
  BY <1>2, <1>7 DEF Good, Guarded, AlteredFrom
<1> QED BY <1>1, <1>4, <1>7, <1>8, <1>9, <1>10, <1>11, <1>12 DEF Good, AlteredFrom

-----------------------------------------------------------------------------

\* Sectors of S, which are not cached, have no index any longer.
Unmapped(c, S) == [c EXCEPT !.map = [s \in Sector |-> IF s \in S THEN Unused ELSE @[s]]]

\* What that makes of the fields of the device.
UnmappedFrom(c, d, U, S) ==
  /\ Caching(d, U) /\ IsDevice(d)
  /\ d.lru = c.lru /\ d.lfree = c.lfree /\ d.slot = c.slot
  /\ d.mfree = c.mfree /\ d.nsectors = c.nsectors
  /\ d.sfree = c.sfree /\ d.ssectors = c.ssectors
  /\ d.sbarrier = c.sbarrier /\ d.file = c.file
  /\ \A t \in Sector \ S : /\ Cached(d, t) <=> Cached(c, t)
                           /\ Dirty(d, t) <=> Dirty(c, t)
                           /\ Index(d, t) = Index(c, t)
                           /\ \A f : Content(d, t, f) = Content(c, t, f)
  /\ \A t \in S : ~ Cached(d, t) /\ ~ Dirty(d, t) /\ Index(d, t) = Unused

\* Unmapped does what UnmappedFrom says.
LEMMA UnmappedIs ==
  ASSUME NEW c, NEW U, Caching(c, U), NEW S, S \subseteq Sector,
         \A s \in S : ~ Cached(c, s)
  PROVE  UnmappedFrom(c, Unmapped(c, S), U, S)
<1> DEFINE d == Unmapped(c, S)
<1>1. IsDevice(c) /\ U \subseteq Sector
  BY DEF Caching
<1>2. /\ d = [map |-> d.map, slot |-> d.slot, lru |-> d.lru, lfree |-> d.lfree,
              mfree |-> d.mfree, nsectors |-> d.nsectors, sfree |-> d.sfree,
              ssectors |-> d.ssectors, sbarrier |-> d.sbarrier, file |-> d.file]
      /\ d.map = [s \in Sector |-> IF s \in S THEN Unused ELSE c.map[s]]
      /\ d.lru = c.lru /\ d.lfree = c.lfree /\ d.slot = c.slot
      /\ d.mfree = c.mfree /\ d.nsectors = c.nsectors
      /\ d.sfree = c.sfree /\ d.ssectors = c.ssectors
      /\ d.sbarrier = c.sbarrier /\ d.file = c.file
  <2>1. d = [c EXCEPT !.map = [s \in Sector |-> IF s \in S THEN Unused ELSE c.map[s]]]
    BY Zenon DEF Unmapped
  <2>2. c = [map |-> c.map, slot |-> c.slot, lru |-> c.lru, lfree |-> c.lfree,
             mfree |-> c.mfree, nsectors |-> c.nsectors, sfree |-> c.sfree,
             ssectors |-> c.ssectors, sbarrier |-> c.sbarrier, file |-> c.file]
    BY <1>1 DEF IsDevice
  <2> HIDE DEF d
  <2> QED BY <2>1, <2>2
<1> HIDE DEF d
<1>3. d.map \in [Sector -> IndexType]
  BY <1>1, <1>2 DEF IsDevice, IndexType
<1>4. IsDevice(d)
  BY <1>1, <1>2, <1>3 DEF IsDevice
<1>5. Caching(d, U)
  <2>1. \A k \in ToSet(d.lru) : d.slot[k].sec \in U /\ d.map[d.slot[k].sec] = k
    <3> SUFFICES ASSUME NEW k \in ToSet(c.lru)
                 PROVE  d.slot[k].sec \in U /\ d.map[d.slot[k].sec] = k
      BY <1>2
    <3>1. c.slot[k].sec \in U /\ c.map[c.slot[k].sec] = k /\ c.slot[k].sec \in Sector
      BY <1>1 DEF Caching
    <3>2. Cached(c, c.slot[k].sec)
      BY <3>1, CachedIs
    <3>3. c.slot[k].sec \notin S
      BY <3>2
    <3> QED BY <1>2, <3>1, <3>3
  <2> QED BY <1>2, <1>4, <2>1 DEF Caching
<1>6. ASSUME NEW t \in Sector \ S
      PROVE  /\ Cached(d, t) <=> Cached(c, t)
             /\ Dirty(d, t) <=> Dirty(c, t)
             /\ Index(d, t) = Index(c, t)
             /\ \A f : Content(d, t, f) = Content(c, t, f)
  <2>1. d.map[t] = c.map[t]
    BY <1>2
  <2> QED BY <1>2, <2>1 DEF Cached, Dirty, Index, Content
<1>7. ASSUME NEW t \in S
      PROVE  ~ Cached(d, t) /\ ~ Dirty(d, t) /\ Index(d, t) = Unused
  <2>1. d.map[t] = Unused
    BY <1>2
  <2> QED BY <2>1, SectorType DEF Cached, Dirty, Index
<1>8. UnmappedFrom(c, d, U, S)
  BY <1>2, <1>4, <1>5, <1>6, <1>7 DEF UnmappedFrom
<1> QED BY <1>8 DEF d

\* Unmapped where the sectors had no index of the swap file.
LEMMA UnmappedGood ==
  ASSUME NEW c, NEW U, NEW W, NEW H, NEW p, Good(c, U, W, H, p),
         NEW S, S \subseteq U, S \cap W = {}, \A s \in S : ~ Cached(c, s)
  PROVE  Good(Unmapped(c, S), U, W \cup S, {h \in H : h[1] \notin S}, p)
<1> DEFINE d == Unmapped(c, S)
<1>1. W \subseteq U /\ U \subseteq Sector /\ S \subseteq Sector /\ Caching(c, U) /\ IsDevice(c)
  BY DEF Good, Caching
<1>2. UnmappedFrom(c, d, U, S)
  BY <1>1, UnmappedIs
<1> HIDE DEF d
<1>3. Sectoring(d, U)
  BY <1>2, SectoringSame DEF Good, UnmappedFrom
<1>4. Indexing(d, W \cup S)
  <2>1. \A t \in W \ S : Index(d, t) = Index(c, t)
    BY <1>1, <1>2 DEF UnmappedFrom
  <2>2. \A t \in S : Index(d, t) = Unused /\ (t \in W => Index(c, t) = Unused)
    BY <1>2 DEF UnmappedFrom
  <2>3. c.sbarrier \in Nat /\ Indexing(c, W)
    BY <1>1 DEF IsDevice, Good
  <2>4. d.sfree = c.sfree /\ d.ssectors = c.ssectors /\ d.sbarrier = c.sbarrier
    BY <1>2 DEF UnmappedFrom
  <2> QED BY <1>1, <2>1, <2>2, <2>3, <2>4, IndexingMore
<1>5. Clean(d, W \cup S, p.cold)
  BY <1>2 DEF Good, Clean, UnmappedFrom
<1>6. Held(d, U, W \cup S, p.from, {h \in H : h[1] \notin S})
  <2>1. ASSUME NEW h \in H, h[1] \notin S
        PROVE  h[1] \in U /\ Right(d, h[1], Source(d, W \cup S, p.from, h[1]), h[2])
    <3>1. h[1] \in U /\ Right(c, h[1], Source(c, W, p.from, h[1]), h[2])
      BY DEF Good, Held
    <3>2. Source(d, W \cup S, p.from, h[1]) = Source(c, W, p.from, h[1])
      BY <1>2, <2>1 DEF Source, UnmappedFrom
    <3> QED BY <1>1, <1>2, <2>1, <3>1, <3>2 DEF Right, UnmappedFrom
  <2> QED BY <2>1 DEF Held
<1>7. Guarded(d, p.barrier, p.kept)
  BY <1>2 DEF Good, Guarded, UnmappedFrom
<1> QED BY <1>1, <1>2, <1>3, <1>4, <1>5, <1>6, <1>7 DEF Good, UnmappedFrom, d

\* conv(): sectors that are not cached are read past the cache and belong to
\* the swap file then.
LEMMA ConvertGood ==
  ASSUME NEW c, NEW U, NEW W, NEW H, NEW p, Good(c, U, W, H, p),
         NEW v, NEW S, Lists(v, S), S \subseteq U, S \cap W = {},
         \A s \in S : ~ Cached(c, s)
  PROVE  Good(ConvertSectors(c, v), U, W \cup S, {h \in H : h[1] \notin S}, p)
<1>1. \A s : (\E i \in DOMAIN v : v[i] = s) <=> s \in S
  BY ListsIs DEF ToSet
<1>2. ConvertSectors(c, v) = Unmapped(c, S)
  BY <1>1, Zenon DEF ConvertSectors, Unmapped
<1> QED BY <1>2, UnmappedGood

-----------------------------------------------------------------------------

\* A sector without its index, whether or not it is cached.
Loose(c, s) ==
  IF Cached(c, s) THEN [c EXCEPT !.slot[c.map[s]].swap = Unused]
  ELSE [c EXCEPT !.map[s] = Unused]

\* What that makes of the fields of the device.
LooseFrom(c, d, U, s) ==
  /\ Caching(d, U) /\ IsDevice(d)
  /\ d.mfree = c.mfree /\ d.nsectors = c.nsectors
  /\ d.sfree = c.sfree /\ d.ssectors = c.ssectors
  /\ d.sbarrier = c.sbarrier /\ d.file = c.file
  /\ \A t \in Sector \ {s} : /\ Cached(d, t) <=> Cached(c, t)
                             /\ Dirty(d, t) <=> Dirty(c, t)
                             /\ Index(d, t) = Index(c, t)
                             /\ \A f : Content(d, t, f) = Content(c, t, f)
  /\ Index(d, s) = Unused

\* Loose does what LooseFrom says.
LEMMA LooseIs ==
  ASSUME NEW c, NEW U, Caching(c, U), NEW s \in U
  PROVE  LooseFrom(c, Loose(c, s), U, s)
<1>1. IsDevice(c) /\ U \subseteq Sector /\ s \in Sector
  BY DEF Caching
<1>2. CASE Cached(c, s)
  <2> DEFINE k == c.map[s]
             e == [sec |-> c.slot[k].sec, swap |-> Unused,
                   dirty |-> c.slot[k].dirty, data |-> c.slot[k].data]
             d == Altered(c, k, e)
  <2>1. k \in Slot /\ c.slot[k].sec = s /\ IsSlot(c.slot[k])
    BY <1>1, <1>2, CachedIs DEF IsDevice
  <2>2. Loose(c, s) = d
    <3>1. Loose(c, s) = [c EXCEPT !.slot[k].swap = Unused]
      BY <1>2, Zenon DEF Loose
    <3>2. c = [map |-> c.map, slot |-> c.slot, lru |-> c.lru, lfree |-> c.lfree,
               mfree |-> c.mfree, nsectors |-> c.nsectors, sfree |-> c.sfree,
               ssectors |-> c.ssectors, sbarrier |-> c.sbarrier, file |-> c.file]
      BY <1>1 DEF IsDevice
    <3>4. c.slot = [j \in Slot |-> c.slot[j]]
      BY <1>1 DEF IsDevice
    <3>5. [c.slot[k] EXCEPT !.swap = Unused] = e
      <4> HIDE DEF k
      <4> QED BY <2>1 DEF IsSlot
    <3> HIDE DEF e, k
    <3>6. [c EXCEPT !.slot[k].swap = Unused] = [c EXCEPT !.slot[k] = [c.slot[k] EXCEPT !.swap = Unused]]
      BY <2>1, <3>2, <3>4
    <3> QED BY <3>1, <3>5, <3>6, Zenon DEF Altered
  <2>3. IsSlot(e) /\ e.sec = s /\ e.swap = Unused
    BY <2>1 DEF IsSlot, IndexType
  <2> HIDE DEF e
  <2>4. AlteredFrom(c, d, U, s, e)
    BY <1>2, <2>3, AlteredIs
  <2> HIDE DEF d
  <2>5. LooseFrom(c, d, U, s)
    BY <2>3, <2>4 DEF LooseFrom, AlteredFrom
  <2> QED BY <2>2, <2>5
<1>3. CASE ~ Cached(c, s)
  <2> DEFINE d == Unmapped(c, {s})
  <2>1. Loose(c, s) = d
    <3>1. Loose(c, s) = [c EXCEPT !.map[s] = Unused]
      BY <1>3, Zenon DEF Loose
    <3>2. c = [map |-> c.map, slot |-> c.slot, lru |-> c.lru, lfree |-> c.lfree,
               mfree |-> c.mfree, nsectors |-> c.nsectors, sfree |-> c.sfree,
               ssectors |-> c.ssectors, sbarrier |-> c.sbarrier, file |-> c.file]
      BY <1>1 DEF IsDevice
    <3>3. [c.map EXCEPT ![s] = Unused] =
            [t \in Sector |-> IF t \in {s} THEN Unused ELSE c.map[t]]
      BY <1>1 DEF IsDevice
    <3>4. [c EXCEPT !.map[s] = Unused] = [c EXCEPT !.map = [c.map EXCEPT ![s] = Unused]]
      BY <3>2
    <3>5. d = [c EXCEPT !.map = [t \in Sector |-> IF t \in {s} THEN Unused ELSE c.map[t]]]
      BY Zenon DEF Unmapped
    <3> QED BY <3>1, <3>3, <3>4, <3>5, Zenon
  <2>2. UnmappedFrom(c, d, U, {s})
    BY <1>1, <1>3, UnmappedIs
  <2> HIDE DEF d
  <2>3. LooseFrom(c, d, U, s)
    BY <2>2 DEF LooseFrom, UnmappedFrom
  <2> QED BY <2>1, <2>3
<1> QED BY <1>2, <1>3

\* The second half of WipeSector: index i of the swap file is free again.
Freed(d, i) ==
  [d EXCEPT !.sfree = <<i - d.sbarrier>> \o @,
            !.file = [j \in DOMAIN @ \ {i} |-> @[j]]]

\* What Freed makes of the fields of the device.
LEMMA FreedIs ==
  ASSUME NEW d, NEW U, Caching(d, U), NEW i \in Nat
  PROVE  LET e == Freed(d, i)
         IN  /\ Caching(e, U) /\ IsDevice(e)
             /\ e.map = d.map /\ e.slot = d.slot
             /\ e.mfree = d.mfree /\ e.nsectors = d.nsectors
             /\ e.sfree = <<i - d.sbarrier>> \o d.sfree
             /\ e.ssectors = d.ssectors /\ e.sbarrier = d.sbarrier
             /\ \A j : j # i => At(e.file, j) = At(d.file, j)
<1> DEFINE e == Freed(d, i)
           g == [j \in DOMAIN d.file \ {i} |-> d.file[j]]
<1>1. IsDevice(d)
  BY DEF Caching
<1>2. /\ e = [map |-> e.map, slot |-> e.slot, lru |-> e.lru, lfree |-> e.lfree,
              mfree |-> e.mfree, nsectors |-> e.nsectors, sfree |-> e.sfree,
              ssectors |-> e.ssectors, sbarrier |-> e.sbarrier, file |-> e.file]
      /\ e.map = d.map /\ e.slot = d.slot
      /\ e.lru = d.lru /\ e.lfree = d.lfree
      /\ e.mfree = d.mfree /\ e.nsectors = d.nsectors
      /\ e.sfree = <<i - d.sbarrier>> \o d.sfree
      /\ e.ssectors = d.ssectors /\ e.sbarrier = d.sbarrier
      /\ e.file = g
  <2>1. e = [d EXCEPT !.sfree = <<i - d.sbarrier>> \o d.sfree, !.file = g]
    BY Zenon DEF Freed
  <2>2. d = [map |-> d.map, slot |-> d.slot, lru |-> d.lru, lfree |-> d.lfree,
             mfree |-> d.mfree, nsectors |-> d.nsectors, sfree |-> d.sfree,
             ssectors |-> d.ssectors, sbarrier |-> d.sbarrier, file |-> d.file]
    BY <1>1 DEF IsDevice
  <2> HIDE DEF e, g
  <2> QED BY <2>1, <2>2
<1>3. \A j : j # i => At(g, j) = At(d.file, j)
  BY DEF At
<1> HIDE DEF e, g
<1>4. IsDevice(e)
  BY <1>1, <1>2 DEF IsDevice
<1>5. Caching(e, U)
  BY <1>2, <1>4 DEF Caching
<1> QED BY <1>2, <1>3, <1>4, <1>5 DEF e

\* wipev() of a sector: its index is free, unless it is below the barrier.
LEMMA WipeSectorGood ==
  ASSUME NEW c, NEW U, NEW W, NEW H, NEW p, Good(c, U, W, H, p), NEW s \in W
  PROVE  LET d == WipeSector(c, s)
         IN  /\ Good(d, U, W, {h \in H : h[1] # s}, p)
             /\ Index(d, s) = Unused
             /\ \A t \in Sector \ {s} : Index(d, t) = Index(c, t)
             /\ d.mfree = c.mfree /\ d.nsectors = c.nsectors
<1> DEFINE i == Index(c, s)
           d == Loose(c, s)
           K == {h \in H : h[1] # s}
<1>1. W \subseteq U /\ U \subseteq Sector /\ s \in Sector /\ s \in U /\ Caching(c, U) /\ IsDevice(c)
  BY DEF Good, Caching
<1>2. LooseFrom(c, d, U, s)
  BY <1>1, LooseIs
<1>3. i \in IndexType /\ c.sbarrier \in Nat /\ c.ssectors \in Nat
  BY <1>1, IndexTyped DEF IsDevice
<1>4. WipeSector(c, s) = IF i # Unused /\ i >= c.sbarrier THEN Freed(d, i) ELSE d
  <2>1. WipeSector(c, s) =
          IF i # Unused /\ i >= c.sbarrier
          THEN [d EXCEPT !.sfree = <<i - c.sbarrier>> \o @,
                         !.file = [j \in DOMAIN @ \ {i} |-> @[j]]]
          ELSE d
    BY Zenon DEF WipeSector, Loose
  <2>2. d.sbarrier = c.sbarrier
    BY <1>2 DEF LooseFrom
  <2> HIDE DEF d, i
  <2> QED BY <2>1, <2>2, Zenon DEF Freed
<1>5. Clean(d, W, p.cold)
  BY <1>1, <1>2 DEF Good, Clean, LooseFrom
<1> HIDE DEF d
<1>6. ASSUME NEW e, Caching(e, U),
             e.map = d.map, e.slot = d.slot,
             e.mfree = d.mfree, e.nsectors = d.nsectors,
             e.sbarrier = d.sbarrier,
             \A j : j # i => At(e.file, j) = At(d.file, j),
             ~ (i # Unused /\ i >= c.sbarrier) => e.file = d.file,
             Indexing(e, W)
      PROVE  /\ Good(e, U, W, K, p)
             /\ Index(e, s) = Unused
             /\ \A t \in Sector \ {s} : Index(e, t) = Index(c, t)
             /\ e.mfree = c.mfree /\ e.nsectors = c.nsectors
  <2>1. \A t : /\ Cached(e, t) <=> Cached(d, t)
               /\ Dirty(e, t) <=> Dirty(d, t)
               /\ Index(e, t) = Index(d, t)
    BY <1>6 DEF Cached, Dirty, Index
  <2>2. Sectoring(e, U)
    BY <1>2, <1>6, SectoringSame DEF Good, LooseFrom
  <2>3. Clean(e, W, p.cold)
    BY <1>5, <2>1 DEF Clean
  <2>4. Held(e, U, W, p.from, K)
    <3> SUFFICES ASSUME NEW h \in H, h[1] # s
                 PROVE  h[1] \in U /\ Right(e, h[1], Source(e, W, p.from, h[1]), h[2])
      BY DEF Held
    <3> DEFINE t == h[1]
               v == h[2]
               f == Source(c, W, p.from, t)
               g == Source(e, W, p.from, t)
    <3>1. t \in U /\ t \in Sector /\ t # s /\ Right(c, t, f, v)
      BY <1>1 DEF Good, Held
    <3>2. At(g, Index(c, t)) = At(f, Index(c, t))
      <4>1. CASE t \in W
        <5>1. g = e.file /\ f = c.file /\ d.file = c.file
          BY <1>2, <4>1 DEF Source, LooseFrom
        <5>2. CASE Index(c, t) = i
          <6>1. i = Unused
            BY <3>1, <4>1, <5>2 DEF Good, Indexing, i
          <6>2. e.file = d.file
            BY <1>6, <6>1
          <6> QED BY <5>1, <5>2, <6>2
        <5>3. CASE Index(c, t) # i
          BY <1>6, <5>1, <5>3
        <5> QED BY <5>2, <5>3
      <4>2. CASE t \notin W
        BY <4>2 DEF Source
      <4> QED BY <4>1, <4>2
    <3>3. /\ Cached(d, t) <=> Cached(c, t)
          /\ Dirty(d, t) <=> Dirty(c, t)
          /\ Index(d, t) = Index(c, t)
          /\ \A b : Content(d, t, b) = Content(c, t, b)
      BY <1>2, <3>1 DEF LooseFrom
    <3>4. Content(e, t, g) = Content(d, t, g)
      BY <1>6, <2>1 DEF Content
    <3> HIDE DEF t, v, f, g
    <3>5. Content(c, t, g) = v
      <4>1. CASE Cached(c, t)
        BY <3>1, <4>1 DEF Content, Right
      <4>2. CASE ~ Cached(c, t)
        BY <3>1, <3>2, <4>2 DEF Content, Right, Index
      <4> QED BY <4>1, <4>2
    <3>6. Right(e, t, g, v)
      BY <2>1, <3>1, <3>2, <3>3, <3>4, <3>5 DEF Right
    <3> QED BY <3>1, <3>6 DEF t, v, g
  <2>5. Guarded(e, p.barrier, p.kept)
    <3>1. c.sbarrier = p.barrier /\ e.sbarrier = p.barrier /\ d.file = c.file
      BY <1>2, <1>6 DEF Good, Guarded, LooseFrom
    <3>2. ASSUME NEW j \in (0 .. p.barrier - 1) \cup {Unused}
          PROVE  At(e.file, j) = At(p.kept, j)
      <4>1. At(c.file, j) = At(p.kept, j)
        BY DEF Good, Guarded
      <4>2. At(e.file, j) = At(d.file, j)
        <5>1. CASE j = i
          BY <1>3, <1>6, <3>1, <5>1, SectorType
        <5>2. CASE j # i
          BY <1>6, <5>2
        <5> QED BY <5>1, <5>2
      <4> QED BY <3>1, <4>1, <4>2
    <3> QED BY <3>1, <3>2 DEF Guarded
  <2>6. Good(e, U, W, K, p)
    BY <1>1, <1>6, <2>2, <2>3, <2>4, <2>5 DEF Good
  <2> QED BY <1>2, <1>6, <2>1, <2>6 DEF LooseFrom
<1> HIDE DEF i
<1>7. /\ d.mfree = c.mfree /\ d.nsectors = c.nsectors
      /\ d.sfree = c.sfree /\ d.ssectors = c.ssectors
      /\ d.sbarrier = c.sbarrier /\ d.file = c.file
      /\ Index(d, s) = Unused /\ Caching(d, U)
      /\ \A t \in W : t # s => Index(d, t) = Index(c, t)
  BY <1>1, <1>2 DEF LooseFrom
<1>8. CASE ~ (i # Unused /\ i >= c.sbarrier)
  <2>1. Indexing(d, W)
    <3>1. \A t, u \in W : Index(d, t) # Unused /\ Index(d, t) = Index(d, u) => t = u
      BY <1>7 DEF Good, Indexing
    <3>2. \A t \in W : Index(d, t) # Unused => Index(d, t) < d.ssectors
      BY <1>7 DEF Good, Indexing
    <3>3. ToSet(c.sfree) \subseteq Nat
      BY ToSetIn DEF Good, Indexing
    <3>4. \A x \in ToSet(d.sfree) : /\ x + d.sbarrier < d.ssectors
                                    /\ \A t \in W : Index(d, t) # x + d.sbarrier
      <4> SUFFICES ASSUME NEW x \in ToSet(c.sfree)
                   PROVE  /\ x + c.sbarrier < c.ssectors
                          /\ \A t \in W : Index(d, t) # x + c.sbarrier
        BY <1>7
      <4>1. x + c.sbarrier < c.ssectors /\ x + c.sbarrier # Unused
        BY <1>3, <3>3, SectorType DEF Good, Indexing
      <4> QED BY <1>7, <4>1 DEF Good, Indexing
    <3>5. ASSUME NEW j \in d.sbarrier .. d.ssectors - 1
          PROVE  j - d.sbarrier \in ToSet(d.sfree) \/ \E t \in W : Index(d, t) = j
      <4>1. j - c.sbarrier \in ToSet(c.sfree) \/ \E t \in W : Index(c, t) = j
        BY <1>7, <3>5 DEF Good, Indexing
      <4>2. Index(c, s) # j
        BY <1>3, <1>7, <1>8, <3>5, SectorType DEF i
      <4> QED BY <1>7, <4>1, <4>2
    <3> QED BY <1>7, <3>1, <3>2, <3>4, <3>5 DEF Good, Indexing
  <2>2. WipeSector(c, s) = d
    BY <1>4, <1>8
  <2>3. /\ Good(d, U, W, K, p)
        /\ Index(d, s) = Unused
        /\ \A t \in Sector \ {s} : Index(d, t) = Index(c, t)
        /\ d.mfree = c.mfree /\ d.nsectors = c.nsectors
    BY <1>6, <1>7, <2>1
  <2> QED BY <2>2, <2>3
<1>9. CASE i # Unused /\ i >= c.sbarrier
  <2> DEFINE e == Freed(d, i)
             x0 == i - c.sbarrier
  <2>1. i \in Nat /\ x0 \in Nat /\ i = x0 + c.sbarrier /\ i < c.ssectors
    BY <1>3, <1>9 DEF IndexType, Good, Indexing, i
  <2>2. /\ Caching(e, U) /\ IsDevice(e)
        /\ e.map = d.map /\ e.slot = d.slot
        /\ e.mfree = d.mfree /\ e.nsectors = d.nsectors
        /\ e.sfree = <<x0>> \o c.sfree
        /\ e.ssectors = d.ssectors /\ e.sbarrier = d.sbarrier
        /\ \A j : j # i => At(e.file, j) = At(d.file, j)
    BY ZenonT(120), <1>7, <2>1, FreedIs
  <2> HIDE DEF e, x0
  <2>3. Indexing(e, W)
    <3>0. \A t : Index(e, t) = Index(d, t)
      BY <2>2 DEF Index, Cached
    <3>1. \A t, u \in W : Index(e, t) # Unused /\ Index(e, t) = Index(e, u) => t = u
      BY <1>7, <3>0 DEF Good, Indexing
    <3>2. \A t \in W : Index(e, t) # Unused => Index(e, t) < e.ssectors
      BY <1>7, <2>2, <3>0 DEF Good, Indexing
    <3>3. ToSet(c.sfree) \subseteq Nat /\ x0 \notin ToSet(c.sfree)
      BY <2>1, ToSetIn DEF Good, Indexing, i
    <3>4. Lists(e.sfree, ToSet(c.sfree) \cup {x0})
      BY <2>2, <3>3, ListsCons DEF Good, Indexing
    <3>5. ToSet(e.sfree) = ToSet(c.sfree) \cup {x0} /\ e.sfree \in Seq(Nat)
      <4>1. e.sfree \in Seq(ToSet(c.sfree) \cup {x0})
        BY <3>4 DEF Lists
      <4> QED BY <2>1, <3>3, <3>4, <4>1, ListsIs, SeqMonotonic
    <3>6. ASSUME NEW x \in ToSet(e.sfree)
          PROVE  /\ x + e.sbarrier < e.ssectors
                 /\ \A t \in W : Index(e, t) # x + e.sbarrier
      <4>1. x + c.sbarrier < c.ssectors /\ x + c.sbarrier # Unused
        BY <1>3, <2>1, <3>3, <3>5, SectorType DEF Good, Indexing
      <4>2. \A t \in W : t # s => Index(c, t) # x + c.sbarrier
        BY <2>1, <3>5, <1>9 DEF Good, Indexing, i
      <4> QED BY <1>7, <2>2, <3>0, <4>1, <4>2
    <3>7. ASSUME NEW j \in e.sbarrier .. e.ssectors - 1
          PROVE  j - e.sbarrier \in ToSet(e.sfree) \/ \E t \in W : Index(e, t) = j
      <4>1. j - c.sbarrier \in ToSet(c.sfree) \/ \E t \in W : Index(c, t) = j
        BY <1>7, <2>2, <3>7 DEF Good, Indexing
      <4>2. Index(c, s) = j => j - c.sbarrier = x0
        BY DEF i, x0
      <4> QED BY <1>7, <2>2, <3>0, <3>5, <4>1, <4>2
    <3>8. Lists(e.sfree, ToSet(e.sfree))
      BY <3>4, <3>5
    <3> QED BY <1>7, <2>2, <3>1, <3>2, <3>5, <3>6, <3>7, <3>8 DEF Good, Indexing
  <2>4. WipeSector(c, s) = e
    BY <1>4, <1>9 DEF e
  <2>5. /\ Good(e, U, W, K, p)
        /\ Index(e, s) = Unused
        /\ \A t \in Sector \ {s} : Index(e, t) = Index(c, t)
        /\ e.mfree = c.mfree /\ e.nsectors = c.nsectors
    BY <1>6, <1>9, <2>2, <2>3
  <2> QED BY <2>4, <2>5
<1> QED BY <1>8, <1>9

-----------------------------------------------------------------------------

\* The first half of DeleteSector: sector s has no slot.
Released(c, s) ==
  IF ~ Cached(c, s) THEN c
  ELSE [c EXCEPT !.lru = Without(@, c.map[s]),
                 !.slot[c.map[s]] = FreeSlot,
                 !.lfree = <<c.map[s]>> \o @]

\* What DeleteSector makes of the fields of the device.
DeletedFrom(c, d, U, s) ==
  /\ Caching(d, U \ {s}) /\ IsDevice(d)
  /\ d.mfree = <<s>> \o c.mfree /\ d.nsectors = c.nsectors
  /\ d.sfree = c.sfree /\ d.ssectors = c.ssectors
  /\ d.sbarrier = c.sbarrier /\ d.file = c.file
  /\ \A t \in Sector \ {s} : /\ Cached(d, t) <=> Cached(c, t)
                             /\ Dirty(d, t) <=> Dirty(c, t)
                             /\ Index(d, t) = Index(c, t)
                             /\ \A f : Content(d, t, f) = Content(c, t, f)
  /\ ~ Dirty(d, s)

\* DeleteSector does what DeletedFrom says.
LEMMA DeletedIs ==
  ASSUME NEW c, NEW U, Caching(c, U), NEW s \in U
  PROVE  DeletedFrom(c, DeleteSector(c, s), U, s)
<1> DEFINE k == c.map[s]
           b == Released(c, s)
           d == DeleteSector(c, s)
<1>1. IsDevice(c) /\ U \subseteq Sector /\ s \in Sector
  BY DEF Caching
<1>2. c = [map |-> c.map, slot |-> c.slot, lru |-> c.lru, lfree |-> c.lfree,
           mfree |-> c.mfree, nsectors |-> c.nsectors, sfree |-> c.sfree,
           ssectors |-> c.ssectors, sbarrier |-> c.sbarrier, file |-> c.file]
  BY <1>1 DEF IsDevice
<1>3. d = [b EXCEPT !.mfree = <<s>> \o @, !.map[s] = Unused]
  BY Zenon DEF DeleteSector, Released
<1> HIDE DEF d
<1>4. ASSUME Cached(c, s)
      PROVE  /\ b = [map |-> b.map, slot |-> b.slot, lru |-> b.lru, lfree |-> b.lfree,
                     mfree |-> b.mfree, nsectors |-> b.nsectors, sfree |-> b.sfree,
                     ssectors |-> b.ssectors, sbarrier |-> b.sbarrier, file |-> b.file]
             /\ b.map = c.map /\ b.lru = Without(c.lru, k) /\ b.lfree = <<k>> \o c.lfree
             /\ b.slot = [c.slot EXCEPT ![k] = FreeSlot]
             /\ b.mfree = c.mfree /\ b.nsectors = c.nsectors
             /\ b.sfree = c.sfree /\ b.ssectors = c.ssectors
             /\ b.sbarrier = c.sbarrier /\ b.file = c.file
  <2>1. b = [c EXCEPT !.lru = Without(@, k), !.slot[k] = FreeSlot, !.lfree = <<k>> \o @]
    BY <1>4, Zenon DEF Released
  <2> HIDE DEF b, k
  <2> QED BY <1>2, <2>1
<1>5. ~ Cached(c, s) => b = c
  BY DEF Released
<1>6. /\ d = [map |-> d.map, slot |-> d.slot, lru |-> d.lru, lfree |-> d.lfree,
              mfree |-> d.mfree, nsectors |-> d.nsectors, sfree |-> d.sfree,
              ssectors |-> d.ssectors, sbarrier |-> d.sbarrier, file |-> d.file]
      /\ d.map = [b.map EXCEPT ![s] = Unused]
      /\ d.lru = b.lru /\ d.lfree = b.lfree /\ d.slot = b.slot
      /\ d.mfree = <<s>> \o b.mfree /\ d.nsectors = b.nsectors
      /\ d.sfree = b.sfree /\ d.ssectors = b.ssectors
      /\ d.sbarrier = b.sbarrier /\ d.file = b.file
  <2>1. b = [map |-> b.map, slot |-> b.slot, lru |-> b.lru, lfree |-> b.lfree,
             mfree |-> b.mfree, nsectors |-> b.nsectors, sfree |-> b.sfree,
             ssectors |-> b.ssectors, sbarrier |-> b.sbarrier, file |-> b.file]
    <3> HIDE DEF b
    <3> QED BY <1>2, <1>4, <1>5
  <2> HIDE DEF b
  <2> QED BY <1>3, <2>1
<1> HIDE DEF b
<1>7. /\ d.map = [c.map EXCEPT ![s] = Unused]
      /\ d.mfree = <<s>> \o c.mfree /\ d.nsectors = c.nsectors
      /\ d.sfree = c.sfree /\ d.ssectors = c.ssectors
      /\ d.sbarrier = c.sbarrier /\ d.file = c.file
  BY <1>4, <1>5, <1>6
<1>8. d.map[s] = Unused /\ \A t \in Sector : t # s => d.map[t] = c.map[t]
  BY <1>1, <1>7 DEF IsDevice
<1>9. ~ Cached(d, s) /\ ~ Dirty(d, s)
  BY <1>8, SectorType DEF Cached, Dirty
<1>10. /\ d.map \in [Sector -> IndexType]
       /\ d.nsectors \in Nat /\ d.ssectors \in Nat /\ d.sbarrier \in Nat
  BY <1>1, <1>7 DEF IsDevice, IndexType
<1>11. CASE ~ Cached(c, s)
  <2>1. d.lru = c.lru /\ d.lfree = c.lfree /\ d.slot = c.slot
    BY <1>5, <1>6, <1>11
  <2>2. IsDevice(d)
    BY <1>1, <1>6, <1>10, <2>1 DEF IsDevice
  <2>3. \A j \in ToSet(c.lru) : c.slot[j].sec # s
    BY <1>1, <1>11, CachedIs
  <2>4. Caching(d, U \ {s})
    <3>1. \A j \in ToSet(d.lru) : d.slot[j].sec \in U \ {s} /\ d.map[d.slot[j].sec] = j
      BY <1>1, <1>8, <2>1, <2>3 DEF Caching
    <3> QED BY <1>1, <2>1, <2>2, <3>1 DEF Caching
  <2>5. \A t \in Sector \ {s} : /\ Cached(d, t) <=> Cached(c, t)
                                /\ Dirty(d, t) <=> Dirty(c, t)
                                /\ Index(d, t) = Index(c, t)
                                /\ \A f : Content(d, t, f) = Content(c, t, f)
    BY <1>7, <1>8, <2>1 DEF Cached, Dirty, Index, Content
  <2>6. DeletedFrom(c, d, U, s)
    BY <1>7, <1>9, <2>2, <2>4, <2>5 DEF DeletedFrom
  <2> QED BY <2>6 DEF d
<1>12. CASE Cached(c, s)
  <2>1. /\ d.lru = Without(c.lru, k) /\ d.lfree = <<k>> \o c.lfree
        /\ d.slot = [c.slot EXCEPT ![k] = FreeSlot]
    BY <1>4, <1>6, <1>12
  <2>2. k \in ToSet(c.lru) /\ k \in Slot /\ c.slot[k].sec = s
    BY <1>1, <1>12, CachedIs
  <2> HIDE DEF k
  <2>3. /\ d.slot[k] = FreeSlot
        /\ \A j \in Slot : j # k => d.slot[j] = c.slot[j]
        /\ d.slot = [j \in Slot |-> d.slot[j]]
    BY <1>1, <2>1, <2>2 DEF IsDevice
  <2>4. IsSlot(FreeSlot) /\ FreeSlot.sec = Unused
    BY DEF IsSlot, FreeSlot, IndexType
  <2>5. IsDevice(d)
    <3>1. \A j \in Slot : IsSlot(d.slot[j])
      BY <1>1, <2>3, <2>4 DEF IsDevice
    <3> QED BY <1>6, <1>10, <2>3, <3>1 DEF IsDevice
  <2>6. Lists(d.lru, ToSet(c.lru) \ {k}) /\ ToSet(d.lru) = ToSet(c.lru) \ {k}
    <3>1. Lists(Without(c.lru, k), ToSet(c.lru) \ {k})
      BY <2>2, ListsWithout DEF Caching
    <3> QED BY <2>1, <3>1, ListsIs
  <2>7. Lists(d.lfree, ToSet(c.lfree) \cup {k}) /\ ToSet(d.lfree) = ToSet(c.lfree) \cup {k}
    <3>1. k \notin ToSet(c.lfree)
      BY <2>2 DEF Caching
    <3>2. Lists(<<k>> \o c.lfree, ToSet(c.lfree) \cup {k})
      BY <3>1, ListsCons DEF Caching
    <3> QED BY <2>1, <3>2, ListsIs
  <2>8. ASSUME NEW j \in ToSet(d.lru)
        PROVE  d.slot[j].sec \in U \ {s} /\ d.map[d.slot[j].sec] = j
    <3>1. /\ j \in Slot /\ j # k /\ d.slot[j] = c.slot[j]
          /\ c.slot[j].sec \in U /\ c.map[c.slot[j].sec] = j
      BY <2>3, <2>6, <2>8 DEF Caching
    <3>2. c.slot[j].sec # s
      BY <3>1 DEF k
    <3> QED BY <1>1, <1>8, <3>1, <3>2
  <2>9. \A j \in ToSet(d.lfree) : d.slot[j].sec = Unused
    BY <2>2, <2>3, <2>4, <2>7 DEF Caching
  <2>10. /\ ToSet(d.lru) \cap ToSet(d.lfree) = {}
         /\ ToSet(d.lru) \cup ToSet(d.lfree) = Slot
    BY <2>2, <2>6, <2>7 DEF Caching
  <2>11. Caching(d, U \ {s})
    BY <1>1, <2>5, <2>6, <2>7, <2>8, <2>9, <2>10 DEF Caching
  <2>12. ASSUME NEW t \in Sector \ {s}
         PROVE  /\ Cached(d, t) <=> Cached(c, t)
                /\ Dirty(d, t) <=> Dirty(c, t)
                /\ Index(d, t) = Index(c, t)
                /\ \A f : Content(d, t, f) = Content(c, t, f)
    <3>1. d.map[t] = c.map[t]
      BY <1>8
    <3>2. d.slot[k].sec # t /\ c.slot[k].sec # t
      BY <2>2, <2>3, <2>4, SectorType
    <3>3. c.map[t] \in Slot => d.slot[c.map[t]].sec = t <=> c.slot[c.map[t]].sec = t
      BY <2>3, <3>2
    <3>4. Cached(d, t) <=> Cached(c, t)
      BY <3>1, <3>3 DEF Cached
    <3>5. Cached(c, t) => d.slot[c.map[t]] = c.slot[c.map[t]]
      BY <2>3, <3>2 DEF Cached
    <3> QED BY <1>7, <3>1, <3>4, <3>5 DEF Dirty, Index, Content
  <2>13. DeletedFrom(c, d, U, s)
    BY <1>7, <1>9, <2>5, <2>11, <2>12 DEF DeletedFrom
  <2> QED BY <2>13 DEF d
<1> QED BY <1>11, <1>12

\* delv() of a sector without index: the sector and its slot are free.
LEMMA DeleteSectorGood ==
  ASSUME NEW c, NEW U, NEW W, NEW H, NEW p, Good(c, U, W, H, p),
         NEW s \in W, Index(c, s) = Unused
  PROVE  LET d == DeleteSector(c, s)
         IN  /\ Good(d, U \ {s}, W \ {s}, {h \in H : h[1] # s}, p)
             /\ \A t \in Sector \ {s} : Index(d, t) = Index(c, t)
<1> DEFINE d == DeleteSector(c, s)
<1>1. W \subseteq U /\ U \subseteq Sector /\ s \in Sector /\ s \in U /\ Caching(c, U) /\ IsDevice(c)
  BY DEF Good, Caching
<1>2. DeletedFrom(c, d, U, s)
  BY <1>1, DeletedIs
<1> HIDE DEF d
<1>3. Sectoring(d, U \ {s})
  <2>1. s \notin ToSet(c.mfree) /\ s \in 0 .. c.nsectors - 1
    BY <1>1 DEF Good, Sectoring
  <2>2. Lists(<<s>> \o c.mfree, ToSet(c.mfree) \cup {s})
    BY <2>1, ListsCons DEF Good, Sectoring
  <2>3. Lists(d.mfree, ToSet(c.mfree) \cup {s}) /\ ToSet(d.mfree) = ToSet(c.mfree) \cup {s}
    BY <1>2, <2>2, ListsIs DEF DeletedFrom
  <2>4. d.nsectors = c.nsectors
    BY <1>2 DEF DeletedFrom
  <2> QED BY <1>1, <2>1, <2>3, <2>4 DEF Good, Sectoring
<1>4. Indexing(d, W \ {s})
  <2>1. /\ \A t \in W \ {s} : Index(d, t) = Index(c, t)
        /\ d.sfree = c.sfree /\ d.ssectors = c.ssectors /\ d.sbarrier = c.sbarrier
    BY <1>1, <1>2 DEF DeletedFrom
  <2>2. \A i \in d.sbarrier .. d.ssectors - 1 :
          i - d.sbarrier \in ToSet(d.sfree) \/ \E t \in W \ {s} : Index(d, t) = i
    <3> SUFFICES ASSUME NEW i \in c.sbarrier .. c.ssectors - 1
                 PROVE  i - c.sbarrier \in ToSet(c.sfree) \/ \E t \in W \ {s} : Index(c, t) = i
      BY <2>1
    <3>1. i - c.sbarrier \in ToSet(c.sfree) \/ \E t \in W : Index(c, t) = i
      BY DEF Good, Indexing
    <3>2. Index(c, s) # i
      BY <1>1, SectorType DEF IsDevice
    <3> QED BY <3>1, <3>2
  <2>3. \A t, u \in W \ {s} : Index(d, t) # Unused /\ Index(d, t) = Index(d, u) => t = u
    BY <2>1 DEF Good, Indexing
  <2>4. \A x \in ToSet(d.sfree) : /\ x + d.sbarrier < d.ssectors
                                  /\ \A t \in W \ {s} : Index(d, t) # x + d.sbarrier
    BY <2>1 DEF Good, Indexing
  <2>5. \A t \in W \ {s} : Index(d, t) # Unused => Index(d, t) < d.ssectors
    BY <2>1 DEF Good, Indexing
  <2> QED BY <2>1, <2>2, <2>3, <2>4, <2>5 DEF Good, Indexing
<1>5. Clean(d, W \ {s}, p.cold)
  <2>1. ~ Cached(d, s)
    BY <1>1, <1>2, CachedIs DEF DeletedFrom
  <2> QED BY <1>1, <1>2, <2>1 DEF Good, Clean, DeletedFrom
<1>6. Held(d, U \ {s}, W \ {s}, p.from, {h \in H : h[1] # s})
  <2>1. ASSUME NEW h \in H, h[1] # s
        PROVE  h[1] \in U \ {s} /\ Right(d, h[1], Source(d, W \ {s}, p.from, h[1]), h[2])
    <3>1. h[1] \in U /\ Right(c, h[1], Source(c, W, p.from, h[1]), h[2])
      BY DEF Good, Held
    <3>2. Source(d, W \ {s}, p.from, h[1]) = Source(c, W, p.from, h[1])
      BY <1>2, <2>1 DEF Source, DeletedFrom
    <3> QED BY <1>1, <1>2, <2>1, <3>1, <3>2 DEF Right, DeletedFrom
  <2> QED BY <2>1 DEF Held
<1>7. Guarded(d, p.barrier, p.kept)
  BY <1>2 DEF Good, Guarded, DeletedFrom
<1>8. Caching(d, U \ {s}) /\ W \ {s} \subseteq U \ {s}
  BY <1>1, <1>2 DEF DeletedFrom
<1> QED BY <1>2, <1>3, <1>4, <1>5, <1>6, <1>7, <1>8 DEF Good, DeletedFrom, d

-----------------------------------------------------------------------------

\* The numbers from a on, n of them.
LEMMA ListsCounted ==
  ASSUME NEW a \in Nat, NEW n \in Nat
  PROVE  Lists([i \in 1 .. n |-> a + i - 1], a .. a + n - 1)
<1> DEFINE q == [i \in 1 .. n |-> a + i - 1]
           S == a .. a + n - 1
<1>1. q \in [1 .. n -> S]
  OBVIOUS
<1>2. q \in Seq(S) /\ Len(q) = n
  BY <1>1, SeqDef, LenProperties
<1>3. \A i, j \in 1 .. n : q[i] = q[j] => i = j
  OBVIOUS
<1>4. ASSUME NEW x \in S  PROVE \E i \in 1 .. n : q[i] = x
  <2>1. x - a + 1 \in 1 .. n /\ a + (x - a + 1) - 1 = x
    OBVIOUS
  <2>2. q[x - a + 1] = x
    BY <2>1
  <2> HIDE DEF q
  <2> QED BY <2>1, <2>2
<1> HIDE DEF q, S
<1>5. Lists(q, S)
  BY <1>2, <1>3, <1>4 DEF Lists
<1> QED BY <1>5 DEF q, S

\* What NewSectors promises: sectors S that were not in use.
Fresh(c, d, v, n, U, W, H, p, S) ==
  /\ Lists(v, S) /\ Len(v) = n /\ S \cap U = {}
  /\ Good(d, U \cup S, W \cup S, H, p)

\* newv(): the new sectors were not in use and have no content yet.
LEMMA NewSectorsGood ==
  ASSUME NEW c, NEW U, NEW W, NEW H, NEW p, Good(c, U, W, H, p),
         NEW n \in Nat, HasSectors(c, n)
  PROVE  LET more == NewSectors(c, n)
         IN  \E S : Fresh(c, more.dev, more.vec, n, U, W, H, p, S)
<1> DEFINE reused == IF n < Len(c.mfree) THEN n ELSE Len(c.mfree)
           a == SubSeq(c.mfree, 1, reused)
           b == [i \in 1 .. n - reused |-> c.nsectors + i - 1]
           v == a \o b
           A == {c.mfree[i] : i \in 1 .. reused}
           M == {c.mfree[i] : i \in reused + 1 .. Len(c.mfree)}
           B == c.nsectors .. c.nsectors + (n - reused) - 1
           S == A \cup B
           u == Unmapped(c, S)
           d == NewSectors(c, n).dev
           rest == SubSeq(c.mfree, reused + 1, Len(c.mfree))
<1>1. W \subseteq U /\ U \subseteq Sector /\ Caching(c, U) /\ IsDevice(c)
  BY DEF Good, Caching
<1>2. /\ Lists(c.mfree, ToSet(c.mfree)) /\ Len(c.mfree) \in Nat
      /\ c.nsectors \in Nat /\ c.nsectors <= Sectors
      /\ ToSet(c.mfree) \cap U = {}
      /\ ToSet(c.mfree) \cup U = 0 .. c.nsectors - 1
  BY <1>1, LenProperties DEF Good, Sectoring, Lists, IsDevice
<1>3. /\ reused \in Nat /\ reused <= Len(c.mfree) /\ n - reused \in Nat
      /\ c.nsectors + (n - reused) <= Sectors
  BY <1>2, SwapAssumption DEF HasSectors
<1> HIDE DEF reused
<1>4. /\ Lists(a, A) /\ Lists(rest, M)
      /\ A \cap M = {} /\ A \cup M = ToSet(c.mfree)
  BY <1>2, <1>3, ListsSplit
<1>5. Lists(b, B)
  BY <1>2, <1>3, ListsCounted
<1>6. B \cap (0 .. c.nsectors - 1) = {} /\ B \subseteq Sector
      /\ B \cup (0 .. c.nsectors - 1) = 0 .. c.nsectors + (n - reused) - 1
  <2> DEFINE m == n - reused
  <2>1. m \in Nat /\ c.nsectors \in Nat /\ c.nsectors + m <= Sectors
        /\ B = c.nsectors .. c.nsectors + m - 1
    BY <1>2, <1>3
  <2> HIDE DEF m, B
  <2>2. B \cap (0 .. c.nsectors - 1) = {}
        /\ B \cup (0 .. c.nsectors - 1) = 0 .. c.nsectors + m - 1
    BY <2>1
  <2>3. B \subseteq Sector
    BY <2>1, SwapAssumption DEF Sector
  <2> QED BY <2>2, <2>3 DEF m
<1>7. Len(a) = reused /\ Len(b) = n - reused
  <2>1. Len(b) = n - reused
    <3>1. b \in [1 .. n - reused -> B]
      BY <1>2, <1>3
    <3>2. b \in Seq(B)
      BY <1>3, <3>1, SeqDef
    <3> QED BY <1>3, <3>1, <3>2, LenProperties
  <2>2. Len(a) = reused
    <3>1. \A i \in 1 .. reused : c.mfree[i] \in A
      OBVIOUS
    <3> HIDE DEF A
    <3> QED BY <1>3, <3>1, SubSeqProperties
  <2> QED BY <2>1, <2>2
<1>8. c.nsectors <= Sectors /\ 0 .. c.nsectors - 1 \subseteq Sector
  BY <1>2, SwapAssumption DEF Sector
<1> HIDE DEF a, b, A, B, M, rest
<1>9. A \cap B = {} /\ Lists(v, S) /\ Len(v) = n
  <2>1. A \cap B = {}
    BY <1>2, <1>4, <1>6
  <2>2. Lists(v, S)
    BY <1>4, <1>5, <2>1, ListsConcat
  <2>3. Len(v) = Len(a) + Len(b)
    <3>1. a \in Seq(A \cup B) /\ b \in Seq(A \cup B)
      BY <1>4, <1>5, SeqMonotonic DEF Lists
    <3> QED BY <3>1, ConcatProperties
  <2> QED BY <1>2, <1>3, <1>7, <2>1, <2>2, <2>3
<1>10. S \cap U = {} /\ S \subseteq Sector
  BY <1>1, <1>2, <1>4, <1>6, <1>8
<1>11. NewSectors(c, n) =
         [vec |-> v,
          dev |-> [c EXCEPT !.mfree = SubSeq(@, reused + 1, Len(@)),
                            !.nsectors = @ + n - reused,
                            !.map = [s \in Sector |->
                                      IF \E i \in DOMAIN v : v[i] = s
                                      THEN Unused ELSE @[s]]]]
  BY Zenon DEF NewSectors, reused, a, b
<1> HIDE DEF v, S
<1>12. NewSectors(c, n).vec = v
  BY <1>11
<1>13. d = [c EXCEPT !.mfree = rest, !.nsectors = c.nsectors + n - reused,
                     !.map = [s \in Sector |-> IF s \in S THEN Unused ELSE c.map[s]]]
  <2>1. \A s : (\E i \in DOMAIN v : v[i] = s) <=> s \in S
    BY <1>9, ListsIs DEF ToSet
  <2>2. d = [c EXCEPT !.mfree = SubSeq(@, reused + 1, Len(@)),
                            !.nsectors = @ + n - reused,
                            !.map = [s \in Sector |->
                                      IF \E i \in DOMAIN v : v[i] = s
                                      THEN Unused ELSE @[s]]]
    BY <1>11
  <2> HIDE DEF d
  <2> QED BY <2>1, <2>2, Zenon DEF rest
<1> HIDE DEF d, u
<1>14. UnmappedFrom(c, u, U, S)
  <2>1. \A s \in S : ~ Cached(c, s)
    BY <1>1, <1>10, CachedIs
  <2> QED BY <1>1, <1>10, <2>1, UnmappedIs DEF u
<1>15. /\ d = [map |-> d.map, slot |-> d.slot, lru |-> d.lru, lfree |-> d.lfree,
               mfree |-> d.mfree, nsectors |-> d.nsectors, sfree |-> d.sfree,
               ssectors |-> d.ssectors, sbarrier |-> d.sbarrier, file |-> d.file]
       /\ d.map = u.map /\ d.slot = c.slot /\ d.lru = c.lru /\ d.lfree = c.lfree
       /\ d.mfree = rest /\ d.nsectors = c.nsectors + n - reused
       /\ d.sfree = c.sfree /\ d.ssectors = c.ssectors
       /\ d.sbarrier = c.sbarrier /\ d.file = c.file
  <2>1. c = [map |-> c.map, slot |-> c.slot, lru |-> c.lru, lfree |-> c.lfree,
             mfree |-> c.mfree, nsectors |-> c.nsectors, sfree |-> c.sfree,
             ssectors |-> c.ssectors, sbarrier |-> c.sbarrier, file |-> c.file]
    BY <1>1 DEF IsDevice
  <2>2. u = [c EXCEPT !.map = [s \in Sector |-> IF s \in S THEN Unused ELSE c.map[s]]]
    BY Zenon DEF Unmapped, u
  <2> DEFINE m == [s \in Sector |-> IF s \in S THEN Unused ELSE c.map[s]]
  <2> HIDE DEF m
  <2>3. d = [c EXCEPT !.mfree = rest, !.nsectors = c.nsectors + n - reused, !.map = m]
    BY <1>13 DEF m
  <2>4. u = [c EXCEPT !.map = m]
    BY <2>2 DEF m
  <2> QED BY <2>1, <2>3, <2>4
<1>16. /\ u.lru = c.lru /\ u.lfree = c.lfree /\ u.slot = c.slot
       /\ u.sbarrier = c.sbarrier /\ u.file = c.file
       /\ u.sfree = c.sfree /\ u.ssectors = c.ssectors
       /\ Caching(u, U) /\ IsDevice(u)
  BY <1>14 DEF UnmappedFrom
<1>17. IsDevice(d)
  BY <1>2, <1>3, <1>15, <1>16 DEF IsDevice
<1>18. Caching(d, U \cup S)
  <2>1. U \cup S \subseteq Sector
    BY <1>1, <1>10
  <2> QED BY <1>15, <1>16, <1>17, <2>1 DEF Caching
<1>19. \A t : /\ Cached(d, t) <=> Cached(u, t)
              /\ Dirty(d, t) <=> Dirty(u, t)
              /\ Index(d, t) = Index(u, t)
              /\ \A f : Content(d, t, f) = Content(u, t, f)
  BY <1>15, <1>16 DEF Cached, Dirty, Index, Content
<1>20. Sectoring(d, U \cup S)
  <2>1. ToSet(d.mfree) = M /\ Lists(d.mfree, M)
    BY <1>4, <1>15, ListsIs
  <2>2. M \cap (U \cup S) = {}
    BY <1>2, <1>4, <1>6 DEF S
  <2>3. M \cup (U \cup S) = 0 .. c.nsectors + (n - reused) - 1
    BY <1>2, <1>4, <1>6 DEF S
  <2>4. d.nsectors <= Sectors
    BY <1>2, <1>3, <1>15
  <2> DEFINE m == n - reused
             e == d.nsectors
  <2>5. m \in Nat /\ c.nsectors \in Nat /\ e = c.nsectors + m
        /\ M \cup (U \cup S) = 0 .. c.nsectors + m - 1
    BY <1>2, <1>3, <1>15, <2>3
  <2> HIDE DEF m, e
  <2>6. M \cup (U \cup S) = 0 .. e - 1
    BY <2>5
  <2>7. M \cup (U \cup S) = 0 .. d.nsectors - 1
    BY <2>6, Zenon DEF e
  <2> QED BY <2>1, <2>2, <2>4, <2>7, Zenon DEF Sectoring
<1>21. Indexing(d, W \cup S)
  <2>1. \A t \in W \ S : Index(d, t) = Index(c, t)
    BY <1>1, <1>14, <1>19 DEF UnmappedFrom
  <2>2. \A t \in S : Index(d, t) = Unused /\ (t \in W => Index(c, t) = Unused)
    BY <1>1, <1>10, <1>14, <1>19 DEF UnmappedFrom
  <2>3. c.sbarrier \in Nat /\ Indexing(c, W)
    BY <1>1 DEF IsDevice, Good
  <2>4. d.sfree = c.sfree /\ d.ssectors = c.ssectors /\ d.sbarrier = c.sbarrier
    BY <1>15
  <2> QED BY <1>10, <2>1, <2>2, <2>3, <2>4, IndexingMore
<1>22. Clean(d, W \cup S, p.cold)
  BY <1>14, <1>19 DEF Good, Clean, UnmappedFrom
<1>23. Held(d, U \cup S, W \cup S, p.from, H)
  <2> SUFFICES ASSUME NEW h \in H
               PROVE  h[1] \in U \cup S /\ Right(d, h[1], Source(d, W \cup S, p.from, h[1]), h[2])
    BY DEF Held
  <2>1. h[1] \in U /\ Right(c, h[1], Source(c, W, p.from, h[1]), h[2])
    BY DEF Good, Held
  <2>2. h[1] \in Sector \ S
    BY <1>1, <1>10, <2>1
  <2>3. Source(d, W \cup S, p.from, h[1]) = Source(c, W, p.from, h[1])
    BY <1>15, <2>2 DEF Source
  <2> QED BY <1>14, <1>19, <2>1, <2>2, <2>3 DEF Right, UnmappedFrom
<1>24. Guarded(d, p.barrier, p.kept)
  BY <1>15 DEF Good, Guarded
<1>25. Good(d, U \cup S, W \cup S, H, p)
  BY <1>1, <1>18, <1>20, <1>21, <1>22, <1>23, <1>24 DEF Good
<1>26. Fresh(c, d, v, n, U, W, H, p, S)
  BY <1>9, <1>10, <1>25 DEF Fresh
<1> QED BY <1>12, <1>26 DEF d

-----------------------------------------------------------------------------

\* The first n elements.
Done(seq, n) == {seq[i] : i \in 1 .. n}

\* What is held of other sectors than those of S.
Others(H, S) == {h \in H : h[1] \notin S}

\* The elements of a list, up to each of its places.
LEMMA DoneIs ==
  ASSUME NEW q, NEW S, Lists(q, S)
  PROVE  /\ Len(q) \in Nat /\ Done(q, 0) = {} /\ Done(q, Len(q)) = S
         /\ DOMAIN q = 1 .. Len(q)
         /\ \A n \in 1 .. Len(q) : /\ q[n] \in S /\ q[n] \notin Done(q, n - 1)
                                   /\ Done(q, n) = Done(q, n - 1) \cup {q[n]}
                                   /\ \A m \in n + 1 .. Len(q) : q[m] \in S /\ q[m] \notin Done(q, n)
<1>1. q \in Seq(S) /\ \A i, j \in 1 .. Len(q) : q[i] = q[j] => i = j
  BY DEF Lists
<1>2. Len(q) \in Nat /\ DOMAIN q = 1 .. Len(q) /\ \A i \in 1 .. Len(q) : q[i] \in S
  BY <1>1, LenProperties, ElementOfSeq
<1>3. Done(q, 0) = {}
  BY DEF Done
<1>4. Done(q, Len(q)) = S
  <2>1. ToSet(q) = S
    BY ListsIs
  <2> QED BY <1>2, <2>1 DEF Done, ToSet
<1>5. ASSUME NEW n \in 1 .. Len(q)
      PROVE  /\ q[n] \in S /\ q[n] \notin Done(q, n - 1)
             /\ Done(q, n) = Done(q, n - 1) \cup {q[n]}
             /\ \A m \in n + 1 .. Len(q) : q[m] \in S /\ q[m] \notin Done(q, n)
  <2>1. q[n] \in S
    BY <1>2
  <2>2. q[n] \notin Done(q, n - 1)
    BY <1>1, <1>2 DEF Done
  <2>3. 1 .. n = (1 .. n - 1) \cup {n}
    BY <1>2
  <2>4. Done(q, n) = Done(q, n - 1) \cup {q[n]}
    BY <2>3 DEF Done
  <2>5. \A m \in n + 1 .. Len(q) : q[m] \in S /\ q[m] \notin Done(q, n)
    BY <1>1, <1>2 DEF Done
  <2> QED BY <2>1, <2>2, <2>4, <2>5
<1> QED BY <1>2, <1>3, <1>4, <1>5

\* Sectors are left out one by one or together.
LEMMA OthersIs ==
  ASSUME NEW H
  PROVE  /\ Others(H, {}) = H
         /\ \A S, T : Others(H, S \cup T) = Others(Others(H, S), T)
         /\ \A S, s : {h \in Others(H, S) : h[1] # s} = Others(H, S \cup {s})
BY DEF Others

-----------------------------------------------------------------------------

\* A sector of those of a vector has been wiped.
Wiped(c, s, d, U, W, H, p) ==
  /\ Good(d, U, W, {h \in H : h[1] # s}, p)
  /\ Index(d, s) = Unused
  /\ \A t \in Sector \ {s} : Index(d, t) = Index(c, t)
  /\ d.mfree = c.mfree /\ d.nsectors = c.nsectors

\* WipeSectorGood in this form.
LEMMA WipedGood ==
  ASSUME NEW c, NEW U, NEW W, NEW H, NEW p, Good(c, U, W, H, p), NEW s \in W
  PROVE  Wiped(c, s, WipeSector(c, s), U, W, H, p)
BY WipeSectorGood DEF Wiped

WipeHolds(q, d, n) ==
  /\ Good(d, q.U, q.W, Others(q.H, Done(q.seq, n)), q.p)
  /\ \A s \in Done(q.seq, n) : Index(d, s) = Unused
  /\ d.mfree = q.mfree /\ d.nsectors = q.nsectors

WipePass(p, d, s) == WipeSector(d, s)
Wiping == INSTANCE Repeat WITH Op <- WipePass, Holds <- WipeHolds

\* wipev() of a vector: none of its sectors has an index.
LEMMA WipeGood ==
  ASSUME NEW c, NEW U, NEW W, NEW H, NEW p, Good(c, U, W, H, p),
         NEW v, NEW S, Lists(v, S), S \subseteq W
  PROVE  LET d == Wipe(c, v)
         IN  /\ Good(d, U, W, Others(H, S), p)
             /\ \A s \in S : Index(d, s) = Unused
             /\ d.mfree = c.mfree /\ d.nsectors = c.nsectors
<1> DEFINE r == Reverse(v)
           q == [U |-> U, W |-> W, H |-> H, p |-> p, seq |-> r,
                 mfree |-> c.mfree, nsectors |-> c.nsectors]
<1>1. Lists(r, S)
  BY ListsReverse
<1> HIDE DEF r
<1>2. /\ Len(r) \in Nat /\ Done(r, 0) = {} /\ Done(r, Len(r)) = S
      /\ \A n \in 1 .. Len(r) : /\ r[n] \in S /\ r[n] \notin Done(r, n - 1)
                                /\ Done(r, n) = Done(r, n - 1) \cup {r[n]}
  BY <1>1, DoneIs
<1>3. WipeHolds(q, c, 0)
  BY <1>2, OthersIs DEF WipeHolds
<1>4. ASSUME NEW n \in 1 .. Len(r), NEW d, WipeHolds(q, d, n - 1)
      PROVE  WipeHolds(q, WipePass(0, d, r[n]), n)
  <2> DEFINE e == WipeSector(d, r[n])
             G == Others(H, Done(r, n - 1))
  <2>1. /\ Good(d, U, W, G, p)
        /\ \A s \in Done(r, n - 1) : Index(d, s) = Unused
        /\ d.mfree = c.mfree /\ d.nsectors = c.nsectors
    BY <1>4 DEF WipeHolds
  <2>2. r[n] \in W /\ W \subseteq Sector
    BY <1>2, <2>1 DEF Good, Indexing
  <2>3. /\ Good(e, U, W, {h \in G : h[1] # r[n]}, p)
        /\ Index(e, r[n]) = Unused
        /\ \A t \in Sector \ {r[n]} : Index(e, t) = Index(d, t)
        /\ e.mfree = d.mfree /\ e.nsectors = d.nsectors
    <3> HIDE DEF G
    <3>1. Good(d, U, W, G, p) /\ r[n] \in W
      BY <2>1, <2>2
    <3>2. Wiped(d, r[n], WipeSector(d, r[n]), U, W, G, p)
      BY <3>1, WipedGood
    <3> QED BY <2>1, <3>2 DEF Wiped
  <2>4. {h \in G : h[1] # r[n]} = Others(H, Done(r, n))
    <3>1. {h \in G : h[1] # r[n]} = Others(H, Done(r, n - 1) \cup {r[n]})
      BY DEF Others
    <3> QED BY <1>2, <3>1, Zenon
  <2>5. Done(r, n - 1) \subseteq Sector
    <3>1. Done(r, n - 1) \subseteq S
      BY <1>2 DEF Done
    <3> QED BY <2>2, <3>1
  <2>6. \A s \in Done(r, n) : Index(e, s) = Unused
    BY <1>2, <2>1, <2>3, <2>5
  <2> HIDE DEF e, G
  <2>7. WipeHolds(q, e, n)
    BY <2>1, <2>3, <2>4, <2>6 DEF WipeHolds
  <2> QED BY <2>7 DEF WipePass, e
<1>5. WipeHolds(q, Wiping!All(0, c, r), Len(r))
  <2> HIDE DEF q
  <2> QED BY <1>2, <1>3, <1>4, Wiping!Repeated
<1>6. Wipe(c, v) = Wiping!All(0, c, r)
  BY Zenon DEF Wipe, Each, Wiping!All, WipePass, r
<1>7. WipeHolds(q, Wipe(c, v), Len(r))
  BY <1>5, <1>6
<1> QED BY <1>2, <1>7 DEF WipeHolds

-----------------------------------------------------------------------------

\* A sector of those of a vector has been deleted.
Deleted(c, s, d, U, W, H, p) ==
  /\ Good(d, U \ {s}, W \ {s}, {h \in H : h[1] # s}, p)
  /\ \A t \in Sector \ {s} : Index(d, t) = Index(c, t)

\* DeleteSectorGood in this form.
LEMMA DeletedGood ==
  ASSUME NEW c, NEW U, NEW W, NEW H, NEW p, Good(c, U, W, H, p), NEW s \in W,
         Index(c, s) = Unused
  PROVE  Deleted(c, s, DeleteSector(c, s), U, W, H, p)
BY DeleteSectorGood DEF Deleted

DeleteHolds(q, d, n) ==
  /\ Good(d, q.U \ Done(q.seq, n), q.W \ Done(q.seq, n),
          Others(q.H, Done(q.seq, n)), q.p)
  /\ \A m \in n + 1 .. Len(q.seq) : Index(d, q.seq[m]) = Unused

DeletePass(p, d, s) == DeleteSector(d, s)
Deleting == INSTANCE Repeat WITH Op <- DeletePass, Holds <- DeleteHolds

\* delv() of a vector that was wiped: its sectors are free.
LEMMA DeleteGood ==
  ASSUME NEW c, NEW U, NEW W, NEW H, NEW p, Good(c, U, W, H, p),
         NEW v, NEW S, Lists(v, S), S \subseteq W,
         \A s \in S : Index(c, s) = Unused
  PROVE  Good(Delete(c, v), U \ S, W \ S, Others(H, S), p)
<1> DEFINE r == Reverse(v)
           q == [U |-> U, W |-> W, H |-> H, p |-> p, seq |-> r]
<1>1. Lists(r, S)
  BY ListsReverse
<1> HIDE DEF r
<1>2. /\ Len(r) \in Nat /\ Done(r, 0) = {} /\ Done(r, Len(r)) = S
      /\ \A n \in 1 .. Len(r) : /\ r[n] \in S /\ r[n] \notin Done(r, n - 1)
                                /\ Done(r, n) = Done(r, n - 1) \cup {r[n]}
                                /\ \A m \in n + 1 .. Len(r) : r[m] \in S /\ r[m] \notin Done(r, n)
  BY <1>1, DoneIs
<1>3. DeleteHolds(q, c, 0)
  <2>1. \A m \in 0 + 1 .. Len(r) : Index(c, r[m]) = Unused
    BY <1>2
  <2> QED BY ZenonT(120), <1>2, <2>1, OthersIs DEF DeleteHolds
<1>4. ASSUME NEW n \in 1 .. Len(r), NEW d, DeleteHolds(q, d, n - 1)
      PROVE  DeleteHolds(q, DeletePass(0, d, r[n]), n)
  <2> DEFINE e == DeleteSector(d, r[n])
             T == Done(r, n - 1)
             G == Others(H, T)
  <2>1. /\ Good(d, U \ T, W \ T, G, p)
        /\ \A m \in (n - 1) + 1 .. Len(r) : Index(d, r[m]) = Unused
    BY <1>4 DEF DeleteHolds
  <2>2. r[n] \in W \ T /\ W \ T \subseteq Sector
    BY <1>2, <2>1 DEF Good, Indexing
  <2>3. Index(d, r[n]) = Unused
    BY <1>2, <2>1
  <2>4. Deleted(d, r[n], e, U \ T, W \ T, G, p)
    <3> HIDE DEF G, T
    <3> QED BY <2>1, <2>2, <2>3, DeletedGood
  <2>5. {h \in G : h[1] # r[n]} = Others(H, Done(r, n))
    <3>1. {h \in G : h[1] # r[n]} = Others(H, T \cup {r[n]})
      BY DEF Others
    <3> QED BY <1>2, <3>1, Zenon
  <2>6. (U \ T) \ {r[n]} = U \ Done(r, n) /\ (W \ T) \ {r[n]} = W \ Done(r, n)
    BY <1>2
  <2>7. ASSUME NEW m \in n + 1 .. Len(r)
        PROVE  Index(e, r[m]) = Unused
    <3>1. r[m] \in W /\ r[m] \notin Done(r, n) /\ m \in (n - 1) + 1 .. Len(r)
      BY <1>2
    <3>2. r[m] \in Sector \ {r[n]}
      BY <1>2, <2>2, <3>1
    <3>3. Index(e, r[m]) = Index(d, r[m])
      <4> HIDE DEF e
      <4> QED BY <2>4, <3>2 DEF Deleted
    <3> HIDE DEF e
    <3> QED BY <2>1, <3>1, <3>3
  <2> HIDE DEF e, G, T
  <2>8. Good(e, U \ Done(r, n), W \ Done(r, n), Others(H, Done(r, n)), p)
    BY <2>4, <2>5, <2>6 DEF Deleted
  <2>9. DeleteHolds(q, e, n)
    BY <2>7, <2>8 DEF DeleteHolds
  <2> QED BY <2>9 DEF DeletePass, e
<1>5. DeleteHolds(q, Deleting!All(0, c, r), Len(r))
  <2> HIDE DEF q
  <2> QED BY <1>2, <1>3, <1>4, Deleting!Repeated
<1>6. Delete(c, v) = Deleting!All(0, c, r)
  BY Zenon DEF Delete, Each, Deleting!All, DeletePass, r
<1>7. DeleteHolds(q, Delete(c, v), Len(r))
  BY <1>5, <1>6
<1> QED BY <1>2, <1>7 DEF DeleteHolds

-----------------------------------------------------------------------------

ReadHolds(q, d, n) == Good(d, q.U, q.W, q.H, q.p)

ReadPass(p, d, s) == Load(d, s, FALSE, <<>>)
Reading == INSTANCE Repeat WITH Op <- ReadPass, Holds <- ReadHolds

\* readv() of a vector changes nothing that is held.
LEMMA ReadGood ==
  ASSUME NEW c, NEW U, NEW W, NEW H, NEW p, Good(c, U, W, H, p),
         NEW v, NEW S, Lists(v, S), S \subseteq W
  PROVE  Good(ReadSectors(c, v), U, W, H, p)
<1> DEFINE q == [U |-> U, W |-> W, H |-> H, p |-> p]
<1>1. Len(v) \in Nat /\ \A n \in 1 .. Len(v) : v[n] \in W
  BY DoneIs
<1>2. ReadHolds(q, c, 0)
  BY DEF ReadHolds
<1>3. ASSUME NEW n \in 1 .. Len(v), NEW d, ReadHolds(q, d, n - 1)
      PROVE  ReadHolds(q, ReadPass(0, d, v[n]), n)
  <2>1. Good(d, U, W, H, p)
    BY <1>3 DEF ReadHolds
  <2>2. v[n] \in W /\ v[n] \in U
    BY <1>1, <2>1 DEF Good
  <2>3. Good(Load(d, v[n], FALSE, <<>>), U, W, H, p)
    BY <2>1, <2>2, LoadGood
  <2> QED BY <2>3 DEF ReadHolds, ReadPass
<1>4. ReadHolds(q, Reading!All(0, c, v), Len(v))
  <2> HIDE DEF q
  <2> QED BY <1>1, <1>2, <1>3, Reading!Repeated
<1>5. ReadSectors(c, v) = Reading!All(0, c, v)
  BY Zenon DEF ReadSectors, Each, Reading!All, ReadPass
<1> QED BY <1>4, <1>5 DEF ReadHolds

-----------------------------------------------------------------------------

\* The first n sectors of vector v hold the first n values of w.
Pairs(v, w, n) == {<<v[i], w[i]>> : i \in 1 .. n}

WriteHolds(q, d, n) ==
  Good(d, q.U, q.W, Others(q.H, Done(q.v, n)) \cup Pairs(q.v, q.w, n), q.p)

WritePass(p, d, sv) == WriteSector(d, sv[1], sv[2])
Writing == INSTANCE Repeat WITH Op <- WritePass, Holds <- WriteHolds

\* writev() of a vector: its sectors hold what was written.
LEMMA WriteGood ==
  ASSUME NEW c, NEW U, NEW W, NEW H, NEW p, Good(c, U, W, H, p),
         NEW v, NEW S, Lists(v, S), S \subseteq W, NEW w
  PROVE  Good(WriteSectors(c, v, w), U, W, Others(H, S) \cup Pairs(v, w, Len(v)), p)
<1> DEFINE r == [i \in DOMAIN v |-> <<v[i], w[i]>>]
           q == [U |-> U, W |-> W, H |-> H, p |-> p, v |-> v, w |-> w]
<1>1. /\ Len(v) \in Nat /\ Done(v, 0) = {} /\ Done(v, Len(v)) = S
      /\ DOMAIN v = 1 .. Len(v)
      /\ \A n \in 1 .. Len(v) : /\ v[n] \in W /\ v[n] \notin Done(v, n - 1)
                                /\ Done(v, n) = Done(v, n - 1) \cup {v[n]}
  BY DoneIs
<1>2. Len(r) = Len(v) /\ \A n \in 1 .. Len(v) : r[n] = <<v[n], w[n]>>
  <2> DEFINE R == {r[i] : i \in DOMAIN v}
  <2>1. r \in [1 .. Len(v) -> R]
    BY <1>1
  <2>2. r \in Seq(R)
    BY <1>1, <2>1, SeqDef
  <2>3. DOMAIN r = 1 .. Len(r) /\ Len(r) \in Nat
    BY <2>2, LenProperties
  <2> HIDE DEF r
  <2>4. Len(r) = Len(v)
    BY <1>1, <2>1, <2>3
  <2> QED BY <1>1, <2>4 DEF r
<1> HIDE DEF r
<1>3. WriteHolds(q, c, 0)
  <2>1. Pairs(v, w, 0) = {}
    BY DEF Pairs
  <2>2. Others(H, Done(v, 0)) \cup Pairs(v, w, 0) = H
    <3>1. Done(v, 0) = {}
      BY <1>1
    <3>2. Others(H, {}) = H
      BY OthersIs
    <3> QED BY <2>1, <3>1, <3>2
  <2> QED BY <2>2 DEF WriteHolds
<1>4. ASSUME NEW n \in 1 .. Len(r), NEW d, WriteHolds(q, d, n - 1)
      PROVE  WriteHolds(q, WritePass(0, d, r[n]), n)
  <2> DEFINE G == Others(H, Done(v, n - 1)) \cup Pairs(v, w, n - 1)
             e == WriteSector(d, v[n], w[n])
  <2>1. Good(d, U, W, G, p)
    BY <1>4 DEF WriteHolds
  <2>2. n \in 1 .. Len(v) /\ v[n] \in W /\ r[n] = <<v[n], w[n]>>
    BY <1>1, <1>2
  <2>3. Good(e, U, W, {h \in G : h[1] # v[n]} \cup {<<v[n], w[n]>>}, p)
    <3> HIDE DEF G
    <3> QED BY <2>1, <2>2, WriteSectorGood
  <2>4. {h \in G : h[1] # v[n]} = Others(H, Done(v, n)) \cup Pairs(v, w, n - 1)
    <3>1. \A h \in Pairs(v, w, n - 1) : h[1] # v[n]
      BY <1>1, <2>2 DEF Pairs, Done
    <3>2. {h \in Others(H, Done(v, n - 1)) : h[1] # v[n]} = Others(H, Done(v, n))
      <4>1. {h \in Others(H, Done(v, n - 1)) : h[1] # v[n]} = Others(H, Done(v, n - 1) \cup {v[n]})
        BY DEF Others
      <4> QED BY <1>1, <2>2, <4>1, Zenon
    <3> QED BY <3>1, <3>2
  <2>5. Pairs(v, w, n) = Pairs(v, w, n - 1) \cup {<<v[n], w[n]>>}
    <3>1. 1 .. n = (1 .. n - 1) \cup {n}
      BY <2>2
    <3> QED BY <3>1 DEF Pairs
  <2>6. {h \in G : h[1] # v[n]} \cup {<<v[n], w[n]>>} = Others(H, Done(v, n)) \cup Pairs(v, w, n)
    <3> HIDE DEF G
    <3> QED BY <2>4, <2>5
  <2> HIDE DEF e, G
  <2>7. WriteHolds(q, e, n)
    BY <2>3, <2>6 DEF WriteHolds
  <2>8. WritePass(0, d, r[n]) = e
    BY <2>2 DEF WritePass, e
  <2> QED BY <2>7, <2>8
<1>5. WriteHolds(q, Writing!All(0, c, r), Len(r))
  <2> HIDE DEF q
  <2> QED BY <1>1, <1>2, <1>3, <1>4, Writing!Repeated
<1>6. WriteSectors(c, v, w) = Writing!All(0, c, r)
  BY Zenon DEF WriteSectors, Each, Writing!All, WritePass, r
<1>7. WriteHolds(q, WriteSectors(c, v, w), Len(r))
  BY <1>5, <1>6
<1> QED BY <1>1, <1>2, <1>7 DEF WriteHolds

-----------------------------------------------------------------------------

\* A sector of those of a vector has been restored.
Restored(s, d, U, W, H, p) == Good(d, U, W \cup {s}, {h \in H : h[1] # s}, p)

\* RestoreSectorGood in this form.
LEMMA RestoredGood ==
  ASSUME NEW c, NEW U, NEW W, NEW H, NEW p, Good(c, U, W, H, p),
         NEW s \in U, s \notin W, s \notin p.cold
  PROVE  Restored(s, RestoreSector(c, s, p.from[s]), U, W, H, p)
BY SMTT(60), RestoreSectorGood DEF Restored

RestoreHolds(q, d, n) ==
  Good(d, q.U, q.W \cup Done(q.seq, n), Others(q.H, Done(q.seq, n)), q.p)

RestorePass(f, d, s) == RestoreSector(d, s, f)
Restoring == INSTANCE Repeat WITH Op <- RestorePass, Holds <- RestoreHolds

\* dreadv() of a vector: its sectors belong to the swap file.
LEMMA RestoreGood ==
  ASSUME NEW c, NEW U, NEW W, NEW H, NEW p, Good(c, U, W, H, p),
         NEW v, NEW S, Lists(v, S), S \subseteq U, S \cap W = {},
         NEW f, \A s \in S : p.from[s] = f /\ s \notin p.cold
  PROVE  Good(RestoreSectors(c, v, f), U, W \cup S, Others(H, S), p)
<1> DEFINE q == [U |-> U, W |-> W, H |-> H, p |-> p, seq |-> v]
<1>2. /\ Len(v) \in Nat /\ Done(v, 0) = {} /\ Done(v, Len(v)) = S
      /\ \A n \in 1 .. Len(v) : /\ v[n] \in S /\ v[n] \notin Done(v, n - 1)
                                /\ Done(v, n) = Done(v, n - 1) \cup {v[n]}
  BY DoneIs
<1>3. RestoreHolds(q, c, 0)
  <2>1. W \cup {} = W
    OBVIOUS
  <2> QED BY <1>2, <2>1, OthersIs DEF RestoreHolds
<1>4. ASSUME NEW n \in 1 .. Len(v), NEW d, RestoreHolds(q, d, n - 1)
      PROVE  RestoreHolds(q, RestorePass(f, d, v[n]), n)
  <2> DEFINE e == RestoreSector(d, v[n], f)
             T == Done(v, n - 1)
             G == Others(H, T)
  <2>1. Good(d, U, W \cup T, G, p)
    BY <1>4 DEF RestoreHolds
  <2>2. v[n] \in U /\ v[n] \notin W \cup T /\ p.from[v[n]] = f /\ v[n] \notin p.cold
    BY <1>2
  <2>3. Good(e, U, (W \cup T) \cup {v[n]}, {h \in G : h[1] # v[n]}, p)
    <3> HIDE DEF G, T
    <3>1. Restored(v[n], e, U, W \cup T, G, p)
      BY <2>1, <2>2, RestoredGood
    <3> QED BY <3>1 DEF Restored
  <2>4. {h \in G : h[1] # v[n]} = Others(H, Done(v, n))
    <3>1. {h \in G : h[1] # v[n]} = Others(H, T \cup {v[n]})
      BY DEF Others
    <3> QED BY <1>2, <3>1, Zenon
  <2>5. (W \cup T) \cup {v[n]} = W \cup Done(v, n)
    BY <1>2
  <2> HIDE DEF e, G, T
  <2>6. RestoreHolds(q, e, n)
    BY <2>3, <2>4, <2>5 DEF RestoreHolds
  <2> QED BY <2>6 DEF RestorePass, e
<1>5. RestoreHolds(q, Restoring!All(f, c, v), Len(v))
  <2> HIDE DEF q
  <2> QED BY <1>2, <1>3, <1>4, Restoring!Repeated
<1>6. RestoreSectors(c, v, f) = Restoring!All(f, c, v)
  BY Zenon DEF RestoreSectors, Each, Restoring!All, RestorePass
<1>7. RestoreHolds(q, RestoreSectors(c, v, f), Len(v))
  BY <1>5, <1>6
<1> QED BY <1>2, <1>7 DEF RestoreHolds

-----------------------------------------------------------------------------

\* What is in slot k has been written to the swap file, or need not be.
Written(c, k) == c.slot[k].dirty => At(c.file, c.slot[k].swap) = c.slot[k].data

\* A slot that was written remains so when another one is.
LEMMA WriteOutWritten ==
  ASSUME NEW c, NEW U, NEW W, NEW H, NEW p, Good(c, U, W, H, p),
         NEW k \in ToSet(c.lru), c.slot[k].dirty,
         NEW j \in ToSet(c.lru), j = k \/ Written(c, j)
  PROVE  Written(WriteOut(c, k), j)
<1> DEFINE d == WriteOut(c, k)
           x == Place(c, k)
<1>1. Caching(c, U) /\ IsDevice(c) /\ j \in Slot /\ k \in Slot
  BY DEF Good, Caching
<1>2. /\ d.slot = [c.slot EXCEPT ![k].swap = x]
      /\ d.file = Set(c.file, x, c.slot[k].data)
  BY <1>1, WriteOutIs
<1>3. IsSlot(c.slot[k]) /\ c.slot = [i \in Slot |-> c.slot[i]]
  BY <1>1 DEF IsDevice
<1> HIDE DEF d, x
<1>4. CASE j = k
  <2>1. d.slot[k] = [c.slot[k] EXCEPT !.swap = x]
    BY <1>1, <1>2, <1>3
  <2>2. d.slot[k].swap = x /\ d.slot[k].data = c.slot[k].data
    BY <1>3, <2>1 DEF IsSlot
  <2>3. At(d.file, x) = c.slot[k].data
    BY <1>2, AtSet
  <2> QED BY <1>4, <2>2, <2>3 DEF Written, d
<1>5. CASE j # k
  <2>1. d.slot[j] = c.slot[j]
    BY <1>1, <1>2, <1>3, <1>5
  <2>2. ASSUME c.slot[j].dirty  PROVE c.slot[j].swap # x
    <3>1. /\ c.slot[j].sec \in W
          /\ \A t \in W : t # c.slot[k].sec => Index(c, t) # x
      BY <2>2, PlaceFresh DEF x
    <3>2. c.slot[j].sec \in Sector /\ c.slot[j].sec # c.slot[k].sec
      BY <1>1, <1>5 DEF Caching
    <3>3. Cached(c, c.slot[j].sec) /\ c.map[c.slot[j].sec] = j
      BY <1>1, <3>2, CachedIs
    <3>4. Index(c, c.slot[j].sec) = c.slot[j].swap
      BY <3>3 DEF Index
    <3> QED BY <3>1, <3>2, <3>4
  <2>3. \A y : y # x => At(d.file, y) = At(c.file, y)
    BY <1>2, AtSet
  <2> QED BY <1>5, <2>1, <2>2, <2>3 DEF Written, d
<1> QED BY <1>4, <1>5

FlushHolds(q, d, n) ==
  /\ Good(d, q.U, q.W, q.H, q.p) /\ d.lru = q.lru
  /\ \A k \in Done(q.seq, n) : Written(d, k)

FlushPass(p, d, k) == FlushSlot(d, k)
Flushing == INSTANCE Repeat WITH Op <- FlushPass, Holds <- FlushHolds

\* The slots after they were written, not marked as clean.
Saved(c) == Each(FlushSlot, c, Reverse(c.lru))

\* Writing all dirty slots loses nothing, and the file has their contents then.
LEMMA SavedGood ==
  ASSUME NEW c, NEW U, NEW W, NEW H, NEW p, Good(c, U, W, H, p)
  PROVE  /\ Good(Saved(c), U, W, H, p)
         /\ \A k \in ToSet(Saved(c).lru) : Written(Saved(c), k)
<1> DEFINE r == Reverse(c.lru)
           q == [U |-> U, W |-> W, H |-> H, p |-> p, seq |-> r, lru |-> c.lru]
<1>1. Lists(r, ToSet(c.lru))
  BY ListsReverse DEF Good, Caching
<1> HIDE DEF r
<1>2. /\ Len(r) \in Nat /\ Done(r, 0) = {} /\ Done(r, Len(r)) = ToSet(c.lru)
      /\ \A n \in 1 .. Len(r) : /\ r[n] \in ToSet(c.lru) /\ r[n] \notin Done(r, n - 1)
                                /\ Done(r, n) = Done(r, n - 1) \cup {r[n]}
  BY <1>1, DoneIs
<1>3. FlushHolds(q, c, 0)
  BY <1>2 DEF FlushHolds
<1>4. ASSUME NEW n \in 1 .. Len(r), NEW d, FlushHolds(q, d, n - 1)
      PROVE  FlushHolds(q, FlushPass(0, d, r[n]), n)
  <2> DEFINE k == r[n]
             e == FlushSlot(d, k)
  <2>1. /\ Good(d, U, W, H, p) /\ d.lru = c.lru
        /\ \A j \in Done(r, n - 1) : Written(d, j)
    BY <1>4 DEF FlushHolds
  <2>2. k \in ToSet(d.lru) /\ Done(r, n - 1) \subseteq ToSet(d.lru)
    BY <1>2, <2>1 DEF Done
  <2>3. Done(r, n) = Done(r, n - 1) \cup {k}
    BY <1>2
  <2> HIDE DEF k
  <2>4. Good(e, U, W, H, p) /\ e.lru = c.lru /\ \A j \in Done(r, n) : Written(e, j)
    <3>1. CASE d.slot[k].dirty
      <4>1. e = WriteOut(d, k)
        BY <3>1 DEF FlushSlot
      <4> HIDE DEF e
      <4>2. Good(e, U, W, H, p)
        BY <2>1, <2>2, <3>1, <4>1, WriteOutGood
      <4>3. e.lru = d.lru
        BY <2>1, <2>2, <4>1, WriteOutIs DEF Good, Caching
      <4>4. \A j \in Done(r, n) : j \in ToSet(d.lru) /\ (j = k \/ Written(d, j))
        BY <2>1, <2>2, <2>3
      <4>5. \A j \in Done(r, n) : Written(WriteOut(d, k), j)
        BY <2>1, <2>2, <3>1, <4>4, WriteOutWritten
      <4> QED BY <2>1, <4>1, <4>2, <4>3, <4>5
    <3>2. CASE ~ d.slot[k].dirty
      <4>1. e = d
        BY <3>2 DEF FlushSlot
      <4>2. Written(d, k)
        BY <3>2 DEF Written
      <4> HIDE DEF e
      <4> QED BY <2>1, <2>3, <4>1, <4>2
    <3> QED BY <3>1, <3>2
  <2> HIDE DEF e
  <2>5. FlushHolds(q, e, n)
    BY <2>4 DEF FlushHolds
  <2> QED BY <2>5 DEF FlushPass, e, k
<1>5. FlushHolds(q, Flushing!All(0, c, r), Len(r))
  <2> HIDE DEF q
  <2> QED BY <1>2, <1>3, <1>4, Flushing!Repeated
<1>6. Saved(c) = Flushing!All(0, c, r)
  BY Zenon DEF Saved, Each, Flushing!All, FlushPass, r
<1>7. FlushHolds(q, Saved(c), Len(r))
  BY <1>5, <1>6
<1> QED BY <1>2, <1>7 DEF FlushHolds

\* save(): nothing is dirty then, and nothing is lost.
LEMMA FlushGood ==
  ASSUME NEW c, NEW U, NEW W, NEW H, NEW p, Good(c, U, W, H, p)
  PROVE  /\ Good(Flush(c), U, W, H, p)
         /\ \A s \in Sector : ~ Dirty(Flush(c), s)
<1> DEFINE d == Saved(c)
           m == [k \in Slot |-> [d.slot[k] EXCEPT !.dirty = FALSE]]
           e == Flush(c)
<1>1. Good(d, U, W, H, p) /\ \A k \in ToSet(d.lru) : Written(d, k)
  BY SavedGood
<1>2. e = [d EXCEPT !.slot = m]
  BY Zenon DEF Flush, Saved
<1> HIDE DEF d, e
<1>3. Caching(d, U) /\ IsDevice(d) /\ W \subseteq U /\ U \subseteq Sector
  BY <1>1 DEF Good, Caching
<1>4. \A k \in Slot : /\ m[k].sec = d.slot[k].sec /\ m[k].swap = d.slot[k].swap
                      /\ m[k].data = d.slot[k].data /\ ~ m[k].dirty /\ IsSlot(m[k])
  <2> TAKE k \in Slot
  <2> DEFINE x == d.slot[k]
             y == [x EXCEPT !.dirty = FALSE]
  <2>1. IsSlot(x) /\ m[k] = y
    BY <1>3 DEF IsDevice
  <2> HIDE DEF x, m
  <2>2. y = [sec |-> x.sec, swap |-> x.swap, dirty |-> FALSE, data |-> x.data]
    BY <2>1 DEF IsSlot
  <2> HIDE DEF y
  <2>3. y.sec = x.sec /\ y.swap = x.swap /\ y.data = x.data /\ y.dirty = FALSE
    BY <2>2
  <2>4. IsSlot(y)
    BY <2>1, <2>2, <2>3 DEF IsSlot
  <2> QED BY <2>1, <2>3, <2>4 DEF x
<1>5. m = [k \in Slot |-> m[k]]
  OBVIOUS
<1> HIDE DEF m
<1>6. /\ e = [map |-> e.map, slot |-> e.slot, lru |-> e.lru, lfree |-> e.lfree,
              mfree |-> e.mfree, nsectors |-> e.nsectors, sfree |-> e.sfree,
              ssectors |-> e.ssectors, sbarrier |-> e.sbarrier, file |-> e.file]
      /\ e.map = d.map /\ e.slot = m /\ e.lru = d.lru /\ e.lfree = d.lfree
      /\ e.mfree = d.mfree /\ e.nsectors = d.nsectors /\ e.sfree = d.sfree
      /\ e.ssectors = d.ssectors /\ e.sbarrier = d.sbarrier /\ e.file = d.file
  <2>1. d = [map |-> d.map, slot |-> d.slot, lru |-> d.lru, lfree |-> d.lfree,
             mfree |-> d.mfree, nsectors |-> d.nsectors, sfree |-> d.sfree,
             ssectors |-> d.ssectors, sbarrier |-> d.sbarrier, file |-> d.file]
    BY <1>3 DEF IsDevice
  <2> QED BY <1>2, <2>1
<1>7. IsDevice(e)
  BY <1>3, <1>4, <1>5, <1>6 DEF IsDevice
<1>8. Caching(e, U)
  <2>1. ToSet(d.lru) \subseteq Slot /\ ToSet(d.lfree) \subseteq Slot
    BY <1>3 DEF Caching
  <2> QED BY <1>3, <1>4, <1>6, <1>7, <2>1 DEF Caching
<1>9. \A s : /\ Cached(e, s) <=> Cached(d, s)
             /\ ~ Dirty(e, s)
             /\ Index(e, s) = Index(d, s)
             /\ \A f : Content(e, s, f) = Content(d, s, f)
  <2> TAKE s
  <2>1. Cached(e, s) <=> Cached(d, s)
    BY <1>4, <1>6 DEF Cached
  <2>2. Cached(e, s) => e.map[s] \in Slot
    BY DEF Cached
  <2> QED BY <1>4, <1>6, <2>1, <2>2 DEF Dirty, Index, Content
<1>10. Sectoring(e, U)
  BY <1>1, <1>6, SectoringSame DEF Good
<1>11. Indexing(e, W)
  BY <1>1, <1>6, <1>9, IndexingSame DEF Good
<1>12. Clean(e, W, p.cold)
  BY <1>1, <1>9 DEF Good, Clean
<1>13. Held(e, U, W, p.from, H)
  <2> SUFFICES ASSUME NEW h \in H
               PROVE  h[1] \in U /\ Right(e, h[1], Source(e, W, p.from, h[1]), h[2])
    BY DEF Held
  <2> DEFINE s == h[1]
             v == h[2]
             f == Source(d, W, p.from, s)
  <2>1. s \in U /\ Content(d, s, f) = v /\ (Dirty(d, s) \/ At(f, Index(d, s)) = v)
    BY <1>1 DEF Good, Held, Right
  <2>2. Source(e, W, p.from, s) = f
    BY <1>6 DEF Source
  <2>3. ASSUME Dirty(d, s)  PROVE At(f, Index(d, s)) = v
    <3>1. s \in Sector /\ s \in W
      BY <1>1, <1>3, <2>1, <2>3 DEF Good, Clean
    <3>2. d.map[s] \in ToSet(d.lru) /\ Cached(d, s)
      BY <1>3, <2>3, <3>1, CachedIs DEF Dirty
    <3>3. Written(d, d.map[s]) /\ d.slot[d.map[s]].dirty
      BY <1>1, <2>3, <3>2 DEF Dirty
    <3>4. f = d.file
      BY <3>1 DEF Source
    <3>5. Index(d, s) = d.slot[d.map[s]].swap /\ Content(d, s, f) = d.slot[d.map[s]].data
      BY <3>2 DEF Index, Content
    <3> HIDE DEF f, s, v
    <3> QED BY <2>1, <3>3, <3>4, <3>5 DEF Written
  <2> HIDE DEF f, s, v
  <2>4. Right(e, s, f, v)
    BY <1>9, <2>1, <2>3 DEF Right
  <2> QED BY <2>1, <2>2, <2>4 DEF s, v
<1>14. Guarded(e, p.barrier, p.kept)
  BY <1>1, <1>6 DEF Good, Guarded
<1>15. Good(e, U, W, H, p)
  BY <1>3, <1>8, <1>10, <1>11, <1>12, <1>13, <1>14 DEF Good
<1> QED BY <1>9, <1>15 DEF e

-----------------------------------------------------------------------------

\* What Alloc promises: n sectors T, on a device where no others than U and T
\* are in use.
Allocated(a, n, U, W, H, p, T) ==
  /\ Lists(a.vec, T) /\ Len(a.vec) = n /\ T \cap U = {}
  /\ Good(a.dev, U \cup T, W \cup T, H, p)

\* alloc(): the sectors of a vector that is resized have no content and no
\* index, and those no longer needed are free.
LEMMA AllocGood ==
  ASSUME NEW c, NEW U, NEW W, NEW H, NEW p, Good(c, U, W, H, p),
         NEW v, NEW S, Lists(v, S), S \subseteq W,
         NEW n \in Nat, HasSectors(c, n - Len(v))
  PROVE  \E T : Allocated(Alloc(c, v, n), n, U \ S, W \ S, Others(H, S), p, T)
<1> DEFINE w == Wipe(c, v)
           G == Others(H, S)
           a == Alloc(c, v, n)
<1>1. /\ Good(w, U, W, G, p)
      /\ \A s \in S : Index(w, s) = Unused
      /\ w.mfree = c.mfree /\ w.nsectors = c.nsectors
  BY WipeGood
<1>2. Len(v) \in Nat /\ W \subseteq U
  BY DoneIs DEF Good
<1>3. ASSUME Len(v) >= n
      PROVE  \E T : Allocated(a, n, U \ S, W \ S, G, p, T)
  <2> DEFINE A == {v[i] : i \in 1 .. n}
             M == {v[i] : i \in n + 1 .. Len(v)}
             first == SubSeq(v, 1, n)
             rest == SubSeq(v, n + 1, Len(v))
             d == Delete(w, rest)
  <2>1. a = [vec |-> first, dev |-> d]
    BY <1>3, Zenon DEF Alloc
  <2>2. /\ Lists(first, A) /\ Lists(rest, M) /\ A \cap M = {} /\ A \cup M = S
    <3>1. n \in Nat /\ n <= Len(v)
      BY <1>2, <1>3
    <3> QED BY <3>1, ListsSplit
  <2>3. Len(first) = n
    <3>1. \A i \in 1 .. n : v[i] \in S
      BY <1>2, <1>3, DoneIs
    <3> QED BY <1>2, <1>3, <3>1, SubSeqProperties
  <2> HIDE DEF A, M, first, rest, w, G, a
  <2>4. Good(d, U \ M, W \ M, Others(G, M), p)
    <3>1. M \subseteq W /\ \A s \in M : Index(w, s) = Unused
      BY <1>1, <2>2
    <3> QED BY <1>1, <2>2, <3>1, DeleteGood
  <2>5. U \ M = (U \ S) \cup A /\ W \ M = (W \ S) \cup A
    BY <1>2, <2>2
  <2>6. Others(G, M) = G
    <3>1. Others(Others(H, S), M) = Others(H, S \cup M)
      BY DEF Others
    <3>2. S \cup M = S
      BY <2>2
    <3> QED BY <3>1, <3>2, Zenon DEF G
  <2> HIDE DEF d
  <2>7. Allocated(a, n, U \ S, W \ S, G, p, A)
    <3>1. a.vec = first /\ a.dev = d
      BY <2>1
    <3>2. A \cap (U \ S) = {}
      BY <2>2
    <3>3. Good(d, (U \ S) \cup A, (W \ S) \cup A, G, p)
      BY <2>4, <2>5, <2>6
    <3> QED BY <2>2, <2>3, <3>1, <3>2, <3>3 DEF Allocated
  <2> QED BY <2>7
<1>4. ASSUME ~ (Len(v) >= n)
      PROVE  \E T : Allocated(a, n, U \ S, W \ S, G, p, T)
  <2> DEFINE m == n - Len(v)
             more == NewSectors(w, m)
  <2>1. a = [vec |-> v \o more.vec, dev |-> more.dev]
    BY <1>4, Zenon DEF Alloc
  <2>2. m \in Nat /\ Len(v) + m = n
    BY <1>2, <1>4
  <2>3. HasSectors(w, m)
    BY <1>1, Zenon DEF HasSectors
  <2> HIDE DEF m, w, G, a
  <2>4. PICK R : Fresh(w, more.dev, more.vec, m, U, W, G, p, R)
    BY <1>1, <2>2, <2>3, NewSectorsGood
  <2> HIDE DEF more
  <2>5. /\ Lists(more.vec, R) /\ Len(more.vec) = m /\ R \cap U = {}
        /\ Good(more.dev, U \cup R, W \cup R, G, p)
    BY <2>4 DEF Fresh
  <2>6. Lists(v \o more.vec, S \cup R)
    <3>1. S \cap R = {}
      BY <1>2, <2>5
    <3> QED BY <2>5, <3>1, ListsConcat
  <2>7. Len(v \o more.vec) = n
    <3>1. v \in Seq(S \cup R) /\ more.vec \in Seq(S \cup R)
      BY <2>5, SeqMonotonic DEF Lists
    <3> QED BY <2>2, <2>5, <3>1, ConcatProperties
  <2>8. /\ U \cup R = (U \ S) \cup (S \cup R)
        /\ W \cup R = (W \ S) \cup (S \cup R)
        /\ (S \cup R) \cap (U \ S) = {}
    BY <1>2, <2>5
  <2>9. Allocated(a, n, U \ S, W \ S, G, p, S \cup R)
    <3>1. a.vec = v \o more.vec /\ a.dev = more.dev
      BY <2>1
    <3> QED BY <2>5, <2>6, <2>7, <2>8, <3>1 DEF Allocated
  <2> QED BY <2>9
<1>5. \E T : Allocated(a, n, U \ S, W \ S, G, p, T)
  BY <1>3, <1>4
<1> QED BY <1>5
=============================================================================
