------------------------------ MODULE Snapshot_proofs -----------------------
(***************************************************************************)
(* Proofs about Snapshot, for any objects, contents, and numbers of        *)
(* sectors and slots: that sectors are right, that what was saved is read  *)
(* back and that snapshots can be restored (SectorsCorrect,                *)
(* ReadsBackCorrect, RecoverableCorrect).  The inductive invariant is      *)
(* IInv; its main part is that the device is Good for the objects (Store), *)
(* and the lemmas of Swap_proofs are lifted to objects first.              *)
(***************************************************************************)
EXTENDS Snapshot, Swap_proofs

\* The sectors of the objects of S, and what objects K have in theirs.
Sect(vs, S) == UNION {ToSet(vs[o]) : o \in S}
Hold(vs, vl, K) == UNION {Pairs(vs[o], vl[o], Len(vs[o])) : o \in K}

\* Each vector lists its sectors, and no sector is in two vectors.
Vectors(vs) ==
  /\ vs = [o \in Objects |-> vs[o]]
  /\ \A o \in Objects : Lists(vs[o], ToSet(vs[o]))
  /\ \A o, x \in Objects : o # x => ToSet(vs[o]) \cap ToSet(vs[x]) = {}

\* An object has contents for each of its sectors.
Sized(vs, vl) ==
  \A o \in Objects : vl[o] = [i \in 1 .. Len(vs[o]) |-> vl[o][i]]

\* The device is Good for the objects: those of B are in the swap file, those
\* of K hold the contents vl.
Store(c, vs, B, K, vl, p) ==
  /\ Vectors(vs) /\ Sized(vs, vl)
  /\ B \subseteq Objects /\ K \subseteq Objects
  /\ Good(c, Sect(vs, Objects), Sect(vs, B), Hold(vs, vl, K), p)

\* The length of a vector.
LEMMA LenIs ==
  ASSUME NEW n \in Nat, NEW v, v = [i \in 1 .. n |-> v[i]]
  PROVE  Len(v) = n /\ DOMAIN v = 1 .. n
<1> DEFINE R == {v[i] : i \in 1 .. n}
<1>1. v \in [1 .. n -> R]
  OBVIOUS
<1>2. v \in Seq(R)
  BY <1>1, SeqDef
<1> HIDE DEF R
<1> QED BY <1>1, <1>2, LenProperties

\* What the objects of K hold, element by element.
LEMMA HoldIs ==
  ASSUME NEW vs, NEW vl, NEW K, NEW h
  PROVE  h \in Hold(vs, vl, K) <=>
            \E x \in K : \E i \in 1 .. Len(vs[x]) : h = <<vs[x][i], vl[x][i]>>
BY DEF Hold, Pairs

\* The sectors of the objects of X, element by element.
LEMMA SectIs ==
  ASSUME NEW vs, NEW X, NEW s
  PROVE  s \in Sect(vs, X) <=> \E o \in X : s \in ToSet(vs[o])
BY DEF Sect

\* A vector of an object is replaced.
LEMMA SectReplaced ==
  ASSUME NEW vs, Vectors(vs), NEW o \in Objects, NEW q,
         NEW X, X \subseteq Objects, o \in X
  PROVE  Sect([vs EXCEPT ![o] = q], X) = (Sect(vs, X) \ ToSet(vs[o])) \cup ToSet(q)
<1> DEFINE us == [vs EXCEPT ![o] = q]
<1>1. us[o] = q /\ \A x \in Objects : x # o => us[x] = vs[x]
  BY DEF Vectors
<1> HIDE DEF us
<1>2. \A x \in X : x # o => ToSet(vs[x]) \cap ToSet(vs[o]) = {}
  BY DEF Vectors
<1>3. ASSUME NEW s
      PROVE  s \in Sect(us, X) <=> s \in (Sect(vs, X) \ ToSet(vs[o])) \cup ToSet(q)
  <2>1. s \in Sect(us, X) <=> \E x \in X : s \in ToSet(us[x])
    BY SectIs
  <2>2. s \in Sect(vs, X) <=> \E x \in X : s \in ToSet(vs[x])
    BY SectIs
  <2>3. (\E x \in X : s \in ToSet(us[x])) <=>
           (s \in ToSet(q) \/ \E x \in X : x # o /\ s \in ToSet(vs[x]))
    BY <1>1
  <2>4. (\E x \in X : x # o /\ s \in ToSet(vs[x])) <=>
           ((\E x \in X : s \in ToSet(vs[x])) /\ s \notin ToSet(vs[o]))
    BY <1>2
  <2> QED BY <2>1, <2>2, <2>3, <2>4
<1>4. Sect(us, X) = (Sect(vs, X) \ ToSet(vs[o])) \cup ToSet(q)
  BY <1>3
<1> QED BY <1>4 DEF us

\* What vs becomes, if o gets sectors q that no other object has.
LEMMA VectorsReplaced ==
  ASSUME NEW vs, Vectors(vs), NEW o \in Objects, NEW q, NEW T, Lists(q, T),
         T \cap (Sect(vs, Objects) \ ToSet(vs[o])) = {}
  PROVE  /\ Vectors([vs EXCEPT ![o] = q])
         /\ [vs EXCEPT ![o] = q][o] = q
         /\ \A x \in Objects : x # o => [vs EXCEPT ![o] = q][x] = vs[x]
<1> DEFINE us == [vs EXCEPT ![o] = q]
<1>1. us[o] = q /\ \A x \in Objects : x # o => us[x] = vs[x]
  BY DEF Vectors
<1>2. us = [x \in Objects |-> us[x]]
  BY DEF Vectors
<1> HIDE DEF us
<1>3. ToSet(q) = T /\ Lists(q, ToSet(q))
  BY ListsIs
<1>4. ASSUME NEW x \in Objects  PROVE Lists(us[x], ToSet(us[x]))
  BY <1>1, <1>3 DEF Vectors
<1>5. ASSUME NEW x \in Objects, x # o  PROVE ToSet(us[x]) \cap T = {}
  <2>1. ToSet(vs[x]) \subseteq Sect(vs, Objects)
    BY SectIs
  <2>2. ToSet(vs[x]) \cap ToSet(vs[o]) = {}
    BY <1>5 DEF Vectors
  <2> QED BY <1>1, <1>5, <2>1, <2>2
<1>6. ASSUME NEW x \in Objects, NEW y \in Objects, x # y
      PROVE  ToSet(us[x]) \cap ToSet(us[y]) = {}
  <2>1. CASE x = o
    BY <1>1, <1>3, <1>5, <1>6, <2>1
  <2>2. CASE y = o
    BY <1>1, <1>3, <1>5, <1>6, <2>2
  <2>3. CASE x # o /\ y # o
    BY <1>1, <1>6, <2>3 DEF Vectors
  <2> QED BY <2>1, <2>2, <2>3
<1>7. Vectors(us)
  BY <1>2, <1>4, <1>6 DEF Vectors
<1> QED BY <1>1, <1>7 DEF us

\* The sectors of an object and those of others.
LEMMA SectApart ==
  ASSUME NEW vs, Vectors(vs), NEW o \in Objects,
         NEW X, X \subseteq Objects, o \notin X
  PROVE  /\ Sect(vs, X) \cap ToSet(vs[o]) = {}
         /\ Sect(vs, X \cup {o}) = Sect(vs, X) \cup ToSet(vs[o])
BY DEF Vectors, Sect

-----------------------------------------------------------------------------

\* What SaveTo promises: n sectors of object o are written.
SavedTo(d, vs, o, n, B, K, w, p) ==
  /\ Store(d.dev, d.vec, B, K, w, p)
  /\ Len(d.vec[o]) = n
  /\ \A x \in Objects : x # o => d.vec[x] = vs[x]

\* Dataspace::save(): the object holds what was written, in a vector of its
\* new size; the others have what they had.
LEMMA SaveToGood ==
  ASSUME NEW c, NEW vs, NEW B, NEW K, NEW vl, NEW p, Store(c, vs, B, K, vl, p),
         NEW o \in B, NEW n \in Nat, NEW v, v = [i \in 1 .. n |-> v[i]],
         HasSectors(c, n - Len(vs[o])),
         NEW w, w[o] = v, \A x \in Objects : x # o => w[x] = vl[x]
  PROVE  SavedTo(SaveTo(c, vs, o, v), vs, o, n, B, K \cup {o}, w, p)
<1> DEFINE S == ToSet(vs[o])
           U == Sect(vs, Objects)
           W == Sect(vs, B)
           H == Hold(vs, vl, K)
           a == Alloc(c, vs[o], n)
           q == a.vec
           us == [vs EXCEPT ![o] = q]
           e == WriteSectors(a.dev, q, v)
           d == SaveTo(c, vs, o, v)
<1>1. /\ o \in Objects /\ B \subseteq Objects /\ K \subseteq Objects
      /\ Vectors(vs) /\ Sized(vs, vl)
      /\ Good(c, U, W, H, p)
  BY DEF Store
<1>2. Lists(vs[o], S) /\ S \subseteq W /\ W \subseteq U
  <2>1. Lists(vs[o], S)
    BY <1>1 DEF Vectors
  <2>2. S \subseteq W
    BY SectIs
  <2>3. W \subseteq U
    BY <1>1, SectIs
  <2> QED BY <2>1, <2>2, <2>3
<1>3. Len(v) = n
  BY LenIs
<1> HIDE DEF S, U, W, H
<1>4. PICK T : Allocated(a, n, U \ S, W \ S, Others(H, S), p, T)
  BY <1>1, <1>2, AllocGood
<1> HIDE DEF a
<1>5. /\ Lists(q, T) /\ Len(q) = n /\ T \cap (U \ S) = {} /\ ToSet(q) = T
      /\ Good(a.dev, (U \ S) \cup T, (W \ S) \cup T, Others(H, S), p)
  BY <1>4, ListsIs DEF Allocated
<1> HIDE DEF q
<1>6. Good(e, (U \ S) \cup T, (W \ S) \cup T,
           Others(Others(H, S), T) \cup Pairs(q, v, n), p)
  BY <1>5, WriteGood
<1>7. d = [dev |-> e, vec |-> us]
  BY <1>3, Zenon DEF SaveTo, a, q
<1> HIDE DEF e
<1>8. /\ Vectors(us) /\ us[o] = q
      /\ \A x \in Objects : x # o => us[x] = vs[x]
  BY <1>1, <1>5, VectorsReplaced DEF U, S
<1>9. Sect(us, Objects) = (U \ S) \cup T /\ Sect(us, B) = (W \ S) \cup T
  <2>1. Sect(us, Objects) = (Sect(vs, Objects) \ ToSet(vs[o])) \cup ToSet(q)
    <3>1. Objects \subseteq Objects
      OBVIOUS
    <3> HIDE DEF us
    <3>2. Sect([vs EXCEPT ![o] = q], Objects) = (Sect(vs, Objects) \ ToSet(vs[o])) \cup ToSet(q)
      BY <1>1, <3>1, SectReplaced
    <3> QED BY <3>2 DEF us
  <2>2. Sect(us, B) = (Sect(vs, B) \ ToSet(vs[o])) \cup ToSet(q)
    <3> HIDE DEF us
    <3>2. Sect([vs EXCEPT ![o] = q], B) = (Sect(vs, B) \ ToSet(vs[o])) \cup ToSet(q)
      BY <1>1, SectReplaced
    <3> QED BY <3>2 DEF us
  <2> QED BY <1>5, <2>1, <2>2 DEF U, W, S
<1> HIDE DEF us
<1>10. Sized(us, w)
  <2> SUFFICES ASSUME NEW x \in Objects
               PROVE  w[x] = [i \in 1 .. Len(us[x]) |-> w[x][i]]
    BY DEF Sized
  <2>1. CASE x = o
    <3>1. Len(us[o]) = n /\ w[o] = v
      BY <1>5, <1>8
    <3> QED BY <2>1, <3>1
  <2>2. CASE x # o
    <3>1. us[x] = vs[x] /\ w[x] = vl[x]
      BY <1>8, <2>2
    <3>2. vl[x] = [i \in 1 .. Len(vs[x]) |-> vl[x][i]]
      BY <1>1 DEF Sized
    <3> QED BY <3>1, <3>2
  <2> QED BY <2>1, <2>2
<1>11. Hold(us, w, K \cup {o}) \subseteq Others(Others(H, S), T) \cup Pairs(q, v, n)
  <2> SUFFICES ASSUME NEW h \in Hold(us, w, K \cup {o})
               PROVE  h \in Others(Others(H, S), T) \cup Pairs(q, v, n)
    OBVIOUS
  <2>0. PICK x \in K \cup {o} : \E i \in 1 .. Len(us[x]) : h = <<us[x][i], w[x][i]>>
    BY HoldIs
  <2>1. PICK i \in 1 .. Len(us[x]) : h = <<us[x][i], w[x][i]>>
    BY <2>0
  <2>2. CASE x = o
    <3>1. i \in 1 .. n /\ h = <<q[i], v[i]>>
      BY <1>5, <1>8, <2>1, <2>2
    <3> QED BY <3>1 DEF Pairs
  <2>3. CASE x # o
    <3>1. x \in K /\ x \in Objects /\ us[x] = vs[x] /\ w[x] = vl[x]
      BY <1>1, <1>8, <2>3
    <3>2. h \in H
      BY <2>1, <3>1, HoldIs DEF H
    <3>3. h[1] = vs[x][i] /\ i \in 1 .. Len(vs[x])
      BY <2>1, <3>1
    <3>4. h[1] \in ToSet(vs[x])
      BY <1>1, <3>1, <3>3, DoneIs DEF Vectors
    <3>5. h[1] \notin S
      BY <1>1, <2>3, <3>1, <3>4 DEF Vectors, S
    <3>6. h[1] \in U
      BY <3>1, <3>4, SectIs DEF U
    <3>7. h[1] \notin T
      BY <1>5, <3>5, <3>6
    <3> QED BY <3>2, <3>5, <3>7 DEF Others
  <2> QED BY <2>2, <2>3
<1>12. Good(e, Sect(us, Objects), Sect(us, B), Hold(us, w, K \cup {o}), p)
  BY <1>6, <1>9, <1>11, Fewer
<1>13. Store(e, us, B, K \cup {o}, w, p)
  BY <1>1, <1>8, <1>10, <1>12 DEF Store
<1>14. d.dev = e /\ d.vec = us
  BY <1>7
<1> HIDE DEF d
<1>15. SavedTo(d, vs, o, n, B, K \cup {o}, w, p)
  BY <1>5, <1>8, <1>13, <1>14 DEF SavedTo
<1> QED BY <1>15 DEF d

\* Dataspace::restoreObject(): the sectors of the object belong to the swap file,
\* and hold nothing until it is written.
LEMMA RestoredStore ==
  ASSUME NEW c, NEW vs, NEW B, NEW K, NEW vl, NEW p, Store(c, vs, B, K, vl, p),
         NEW o \in Objects, o \notin B, NEW from,
         from.done => \A s \in ToSet(vs[o]) : p.from[s] = from.file /\ s \notin p.cold,
         ~ from.done => ToSet(vs[o]) \subseteq p.cold
  PROVE  Store(RestoreFrom(from, c, vs[o]), vs, B \cup {o}, K \ {o}, vl, p)
<1> DEFINE S == ToSet(vs[o])
           U == Sect(vs, Objects)
           W == Sect(vs, B)
           H == Hold(vs, vl, K)
           e == RestoreFrom(from, c, vs[o])
<1>1. /\ B \subseteq Objects /\ K \subseteq Objects
      /\ Vectors(vs) /\ Sized(vs, vl)
      /\ Good(c, U, W, H, p)
  BY DEF Store
<1>2. Lists(vs[o], S) /\ S \subseteq U
  <2>1. Lists(vs[o], S)
    BY <1>1 DEF Vectors
  <2> QED BY <2>1, SectIs
<1>3. S \cap W = {} /\ Sect(vs, B \cup {o}) = W \cup S
  BY <1>1, SectApart
<1> HIDE DEF S, U, W, H
<1>4. Good(e, U, W \cup S, Others(H, S), p)
  <2>1. CASE from.done
    <3>1. e = RestoreSectors(c, vs[o], from.file)
      BY <2>1 DEF RestoreFrom
    <3> HIDE DEF e
    <3> QED BY <1>1, <1>2, <1>3, <2>1, <3>1, RestoreGood DEF S
  <2>2. CASE ~ from.done
    <3>1. e = ConvertSectors(c, vs[o])
      BY <2>2 DEF RestoreFrom
    <3> HIDE DEF e
    <3>2. \A s \in S : ~ Cached(c, s)
      <4>1. S \subseteq p.cold
        BY <2>2 DEF S
      <4>2. S \subseteq Sector \ W
        BY <1>1, <1>2, <1>3 DEF Good, Caching
      <4> QED BY <1>1, <4>1, <4>2 DEF Good, Clean
    <3>3. Good(ConvertSectors(c, vs[o]), U, W \cup S, {h \in H : h[1] \notin S}, p)
      BY <1>1, <1>2, <1>3, <3>2, ConvertGood
    <3> QED BY <3>1, <3>3 DEF Others
  <2> QED BY <2>1, <2>2
<1> HIDE DEF e
<1>5. Hold(vs, vl, K \ {o}) \subseteq Others(H, S)
  <2> SUFFICES ASSUME NEW h \in Hold(vs, vl, K \ {o})
               PROVE  h \in Others(H, S)
    OBVIOUS
  <2>0. PICK x \in K \ {o} : \E i \in 1 .. Len(vs[x]) : h = <<vs[x][i], vl[x][i]>>
    BY HoldIs
  <2>1. PICK i \in 1 .. Len(vs[x]) : h = <<vs[x][i], vl[x][i]>>
    BY <2>0
  <2>2. h \in H /\ h[1] = vs[x][i]
    BY <2>1, HoldIs DEF H
  <2>3. h[1] \in ToSet(vs[x])
    BY <1>1, <2>1, <2>2, DoneIs DEF Vectors
  <2>4. h[1] \notin S
    BY <1>1, <2>1, <2>3 DEF Vectors, S
  <2> QED BY <2>2, <2>4 DEF Others
<1>6. Good(e, U, Sect(vs, B \cup {o}), Hold(vs, vl, K \ {o}), p)
  BY <1>3, <1>4, <1>5, Fewer
<1>7. Store(e, vs, B \cup {o}, K \ {o}, vl, p)
  BY <1>1, <1>6 DEF Store, U
<1> QED BY <1>7 DEF e

\* There is always room for as many sectors as an object has.
LEMMA RoomForNone ==
  ASSUME NEW c, NEW vs, NEW B, NEW K, NEW vl, NEW p, Store(c, vs, B, K, vl, p)
  PROVE  HasSectors(c, 0)
<1>1. Lists(c.mfree, ToSet(c.mfree)) /\ c.nsectors <= Sectors
      /\ c.nsectors \in Nat
  BY DEF Store, Good, Sectoring, Caching, IsDevice
<1>2. Len(c.mfree) \in Nat
  BY <1>1, DoneIs
<1> QED BY <1>1, <1>2, SwapAssumption DEF HasSectors

\* An object of contents vl[o], in as many sectors, is written again.
LEMMA SaveAgain ==
  ASSUME NEW c, NEW vs, NEW B, NEW K, NEW vl, NEW p, Store(c, vs, B, K, vl, p),
         NEW o \in B
  PROVE  SavedTo(SaveTo(c, vs, o, vl[o]), vs, o, Len(vs[o]), B, K \cup {o}, vl, p)
<1> DEFINE n == Len(vs[o])
           v == vl[o]
<1>1. o \in Objects /\ Lists(vs[o], ToSet(vs[o]))
  BY DEF Store, Vectors
<1>2. n \in Nat /\ v = [i \in 1 .. n |-> v[i]]
  BY <1>1, DoneIs DEF Store, Sized
<1>3. n - Len(vs[o]) = 0
  BY <1>2
<1>4. HasSectors(c, n - Len(vs[o]))
  BY <1>3, RoomForNone
<1> HIDE DEF n
<1>5. vl[o] = v /\ \A x \in Objects : x # o => vl[x] = vl[x]
  OBVIOUS
<1> HIDE DEF v
<1>6. SavedTo(SaveTo(c, vs, o, v), vs, o, n, B, K \cup {o}, vl, p)
  BY <1>2, <1>4, <1>5, SaveToGood
<1> QED BY <1>6 DEF n, v

\* File f is where the objects of S, with the contents vl, are copied from.
Copies(from, vs, S, vl, p) ==
  /\ \A o \in S : from.val[o] = vl[o]
  /\ from.done => \A s \in Sect(vs, S) : p.from[s] = from.file /\ s \notin p.cold
  /\ ~ from.done => Sect(vs, S) \subseteq p.cold

\* Object::copy(): the object is restored and written again, and has what it had.
LEMMA CopyToGood ==
  ASSUME NEW d, NEW B, NEW K, NEW vl, NEW p, Store(d.dev, d.vec, B, K, vl, p),
         NEW o \in Objects, o \notin B, NEW from, Copies(from, d.vec, {o}, vl, p)
  PROVE  SavedTo(CopyTo(from, d, o), d.vec, o, Len(d.vec[o]),
                 B \cup {o}, K \cup {o}, vl, p)
<1> DEFINE e == RestoreFrom(from, d.dev, d.vec[o])
           C == B \cup {o}
           J == K \ {o}
<1>1. Sect(d.vec, {o}) = ToSet(d.vec[o])
  BY DEF Sect
<1>2. Store(e, d.vec, C, J, vl, p)
  BY <1>1, RestoredStore DEF Copies
<1>3. CopyTo(from, d, o) = SaveTo(e, d.vec, o, vl[o])
  <2>1. from.val[o] = vl[o]
    BY DEF Copies
  <2> QED BY <2>1, Zenon DEF CopyTo
<1>4. o \in C /\ J \cup {o} = K \cup {o}
  OBVIOUS
<1> HIDE DEF e, C, J
<1>5. SavedTo(SaveTo(e, d.vec, o, vl[o]), d.vec, o, Len(d.vec[o]), C, J \cup {o}, vl, p)
  BY <1>2, <1>4, SaveAgain
<1> QED BY <1>3, <1>4, <1>5 DEF C

-----------------------------------------------------------------------------

\* Swapping out objects one after the other.
SaveHolds(q, d, n) ==
  /\ Store(d.dev, d.vec, q.B, q.K \cup Done(q.seq, n), val, q.p)
  /\ \A o \in Objects : o \notin Done(q.seq, n) => d.vec[o] = q.vs[o]

SavePass(p, d, o) == SaveTo(d.dev, d.vec, o, val[o])
Saving == INSTANCE Repeat WITH Op <- SavePass, Holds <- SaveHolds

\* The objects of S have been written, and no others have other vectors.
AllSaved(d, vs, B, K, S, vl, p) ==
  /\ Store(d.dev, d.vec, B, K \cup S, vl, p)
  /\ \A o \in Objects : o \notin S => d.vec[o] = vs[o]

\* Objects that are swapped out again have what they had.
LEMMA SaveAllGood ==
  ASSUME NEW c, NEW vs, NEW B, NEW K, NEW p, Store(c, vs, B, K, val, p),
         NEW seq, NEW S, Lists(seq, S), S \subseteq B
  PROVE  AllSaved(SaveAll(c, vs, seq), vs, B, K, S, val, p)
<1> DEFINE q == [B |-> B, K |-> K, p |-> p, seq |-> seq, vs |-> vs]
           b == [dev |-> c, vec |-> vs]
<1>1. /\ Len(seq) \in Nat /\ Done(seq, 0) = {} /\ Done(seq, Len(seq)) = S
      /\ \A n \in 1 .. Len(seq) : /\ seq[n] \in B
                                  /\ Done(seq, n) = Done(seq, n - 1) \cup {seq[n]}
  BY DoneIs
<1>2. SaveHolds(q, b, 0)
  <2>1. K \cup {} = K
    OBVIOUS
  <2> QED BY <1>1, <2>1 DEF SaveHolds
<1>3. ASSUME NEW n \in 1 .. Len(seq), NEW d, SaveHolds(q, d, n - 1)
      PROVE  SaveHolds(q, SavePass(0, d, seq[n]), n)
  <2> DEFINE o == seq[n]
             J == K \cup Done(seq, n - 1)
             e == SaveTo(d.dev, d.vec, o, val[o])
  <2>1. /\ Store(d.dev, d.vec, B, J, val, p)
        /\ \A x \in Objects : x \notin Done(seq, n - 1) => d.vec[x] = vs[x]
    BY <1>3 DEF SaveHolds
  <2>2. o \in B /\ o \in Objects
    BY <1>1, <2>1 DEF Store
  <2>0. Done(seq, n) = Done(seq, n - 1) \cup {o}
    BY <1>1
  <2>3. J \cup {o} = K \cup Done(seq, n)
    BY <1>1
  <2> HIDE DEF o, J
  <2>4. SavedTo(e, d.vec, o, Len(d.vec[o]), B, J \cup {o}, val, p)
    BY <2>1, <2>2, SaveAgain
  <2> HIDE DEF e
  <2>5. \A x \in Objects : x \notin Done(seq, n) => e.vec[x] = vs[x]
    BY <2>0, <2>1, <2>2, <2>4 DEF SavedTo
  <2>6. Store(e.dev, e.vec, B, K \cup Done(seq, n), val, p)
    BY <2>3, <2>4 DEF SavedTo
  <2>7. SaveHolds(q, e, n)
    BY <2>5, <2>6 DEF SaveHolds
  <2> QED BY <2>7 DEF SavePass, e, o
<1>4. SaveHolds(q, Saving!All(0, b, seq), Len(seq))
  <2> HIDE DEF q, b
  <2> QED BY <1>1, <1>2, <1>3, Saving!Repeated
<1>5. SaveAll(c, vs, seq) = Saving!All(0, b, seq)
  BY Zenon DEF SaveAll, Each, Saving!All, SavePass
<1>6. SaveHolds(q, SaveAll(c, vs, seq), Len(seq))
  BY <1>4, <1>5
<1> QED BY <1>1, <1>6 DEF SaveHolds, AllSaved

-----------------------------------------------------------------------------

\* Copying objects one after the other.
CopyHolds(q, d, n) ==
  /\ Store(d.dev, d.vec, q.B \cup Done(q.seq, n), q.K \cup Done(q.seq, n), q.vl, q.p)
  /\ \A o \in Objects : o \notin Done(q.seq, n) => d.vec[o] = q.vs[o]

CopyPass(from, d, o) == CopyTo(from, d, o)
Copying == INSTANCE Repeat WITH Op <- CopyPass, Holds <- CopyHolds

\* Objects that are copied have what they had, in the swap file.
LEMMA CopyAllGood ==
  ASSUME NEW c, NEW vs, NEW B, NEW K, NEW vl, NEW p, Store(c, vs, B, K, vl, p),
         NEW seq, NEW S, Lists(seq, S), S \subseteq Objects, S \cap B = {},
         NEW from, Copies(from, vs, S, vl, p)
  PROVE  AllSaved(CopyAll(from, c, vs, seq), vs, B \cup S, K, S, vl, p)
<1> DEFINE q == [B |-> B, K |-> K, p |-> p, seq |-> seq, vs |-> vs, vl |-> vl]
           b == [dev |-> c, vec |-> vs]
<1>1. /\ Len(seq) \in Nat /\ Done(seq, 0) = {} /\ Done(seq, Len(seq)) = S
      /\ \A n \in 1 .. Len(seq) : /\ seq[n] \in S /\ seq[n] \notin Done(seq, n - 1)
                                  /\ Done(seq, n) = Done(seq, n - 1) \cup {seq[n]}
  BY DoneIs
<1>2. CopyHolds(q, b, 0)
  <2>1. K \cup {} = K /\ B \cup {} = B
    OBVIOUS
  <2> QED BY <1>1, <2>1 DEF CopyHolds
<1>3. ASSUME NEW n \in 1 .. Len(seq), NEW d, CopyHolds(q, d, n - 1)
      PROVE  CopyHolds(q, CopyPass(from, d, seq[n]), n)
  <2> DEFINE o == seq[n]
             T == Done(seq, n - 1)
             J == K \cup T
             A == B \cup T
             e == CopyTo(from, d, o)
  <2>1. /\ Store(d.dev, d.vec, A, J, vl, p)
        /\ \A x \in Objects : x \notin T => d.vec[x] = vs[x]
    BY <1>3 DEF CopyHolds
  <2>2. o \in S /\ o \in Objects /\ o \notin A /\ o \notin T
    BY <1>1
  <2>3. J \cup {o} = K \cup Done(seq, n) /\ A \cup {o} = B \cup Done(seq, n)
        /\ Done(seq, n) = T \cup {o}
    BY <1>1
  <2> HIDE DEF o, J, A, T
  <2>4. Copies(from, d.vec, {o}, vl, p)
    <3>1. d.vec[o] = vs[o]
      BY <2>1, <2>2
    <3>2. Sect(d.vec, {o}) \subseteq Sect(vs, S)
      BY <2>2, <3>1 DEF Sect
    <3> QED BY <2>2, <3>2 DEF Copies
  <2>5. SavedTo(e, d.vec, o, Len(d.vec[o]), A \cup {o}, J \cup {o}, vl, p)
    BY <2>1, <2>2, <2>4, CopyToGood
  <2> HIDE DEF e
  <2>6. \A x \in Objects : x \notin Done(seq, n) => e.vec[x] = vs[x]
    BY <2>1, <2>2, <2>3, <2>5 DEF SavedTo
  <2>7. Store(e.dev, e.vec, B \cup Done(seq, n), K \cup Done(seq, n), vl, p)
    BY <2>3, <2>5 DEF SavedTo
  <2>8. CopyHolds(q, e, n)
    BY <2>6, <2>7 DEF CopyHolds
  <2> QED BY <2>8 DEF CopyPass, e, o
<1>4. CopyHolds(q, Copying!All(from, b, seq), Len(seq))
  <2> HIDE DEF q, b
  <2> QED BY <1>1, <1>2, <1>3, Copying!Repeated
<1>5. CopyAll(from, c, vs, seq) = Copying!All(from, b, seq)
  BY Zenon DEF CopyAll, Each, Copying!All, CopyPass
<1>6. CopyHolds(q, CopyAll(from, c, vs, seq), Len(seq))
  BY <1>4, <1>5
<1> QED BY <1>1, <1>6 DEF CopyHolds, AllSaved

-----------------------------------------------------------------------------

\* A snapshot from which a restart is possible.
Sound(f) ==
  /\ Vectors(f.vec) /\ f.part \subseteq Objects
  /\ f.map \in [Sector -> IndexType] /\ f.nsectors \in Nat
  /\ Sect(f.vec, Objects) \subseteq Sector
  /\ Sectoring(f, Sect(f.vec, Objects))

\* The type of a snapshot.
IsFile(f) ==
  /\ f = [data |-> f.data, complete |-> f.complete, at |-> f.at, map |-> f.map,
          nsectors |-> f.nsectors, mfree |-> f.mfree, vec |-> f.vec, part |-> f.part]
  /\ f.complete \in BOOLEAN
  /\ f.complete => Sound(f)

\* The objects whose contents are in files, and not in memory.
HeldObjects == {o \in Objects : where[o] \in {"swap", "dump"}}

\* What is expected of the device in the present state: objects that are not
\* in the swap file are in DumpData, and nothing below the barrier may change.
Context ==
  [from |-> [s \in Sector |-> DumpData], barrier |-> dev.sbarrier,
   kept |-> dev.file, cold |-> IF convDone THEN {} ELSE Sector]

\* The types of the variables.
TypeInv ==
  /\ where \in [Objects -> {"none", "memory", "swap", "dump"}]
  /\ swapping \in BOOLEAN /\ convDone \in BOOLEAN
  /\ dump \in {"none", "snapshot", "old"}
  /\ step \in {"run", "incremental", "full"}
  /\ val = [o \in Objects |-> val[o]]
  /\ IsFile(snapshot) /\ IsFile(old)

\* How the variables of a snapshot go together.  Without a swap file of its own
\* (~swapping), the tables and the sectors of the last snapshot are below the
\* barrier; this is why nothing that is written later can change them.
Modes ==
  /\ dump = "none" => Dumped = {}
  /\ IF InPlace THEN dump # "snapshot" ELSE dump # "old"
  /\ \A o \in Objects : where[o] = "none" => vec[o] = <<>>
  /\ ~ swapping =>
       /\ snapshot.complete
       /\ snapshot.at \in 0 .. dev.sbarrier - 1
       /\ \A s \in Sect(snapshot.vec, Objects \ snapshot.part) :
            snapshot.map[s] \in (0 .. dev.sbarrier - 1) \cup {Unused}

\* Between the steps of a snapshot, all that is held is in the files.
Finishing ==
  step # "run" =>
    /\ swapping => ~ snapshot.complete
    /\ \A o \in Objects : where[o] # "memory"
    /\ \A s \in Sector : ~ Dirty(dev, s)
    /\ At(dev.file, dev.ssectors) = Tables
    /\ step = "full" => Dumped = {} /\ convDone

\* The objects have their contents.
StoreInv == Store(dev, vec, Objects \ Dumped, HeldObjects, val, Context)

\* The inductive invariant.
IInv == TypeInv /\ Modes /\ Finishing /\ StoreInv /\ Recoverable

-----------------------------------------------------------------------------

\* What is expected of the device, with another context.
LEMMA OtherContext ==
  ASSUME NEW c, NEW U, NEW W, NEW H, NEW p, Good(c, U, W, H, p),
         NEW q, q.barrier = c.sbarrier, q.kept = c.file,
         q.cold \subseteq p.cold,
         \A s \in U \ W : q.from[s] = p.from[s]
  PROVE  Good(c, U, W, H, q)
<1>1. Clean(c, W, q.cold)
  BY DEF Good, Clean
<1>2. Guarded(c, q.barrier, q.kept)
  BY DEF Guarded
<1>3. Held(c, U, W, q.from, H)
  <2> SUFFICES ASSUME NEW h \in H
               PROVE  h[1] \in U /\ Right(c, h[1], Source(c, W, q.from, h[1]), h[2])
    BY DEF Held
  <2>1. h[1] \in U /\ Right(c, h[1], Source(c, W, p.from, h[1]), h[2])
    BY DEF Good, Held
  <2>2. Source(c, W, q.from, h[1]) = Source(c, W, p.from, h[1])
    BY <2>1 DEF Source
  <2> QED BY <2>1, <2>2
<1> QED BY <1>1, <1>2, <1>3 DEF Good

\* Snapshot f has the same objects in file a with g as in file b with h.
FoundAlike(f, a, g, b, h) == Found(f, a, g) = Found(f, b, h)

\* Found depends only on the indices that the snapshot refers to.
LEMMA FoundSame ==
  ASSUME NEW f, NEW a, NEW b, NEW g, NEW h, Vectors(f.vec),
         \A s \in Sect(f.vec, Objects \ f.part) : At(a, f.map[s]) = At(b, f.map[s]),
         \A s \in Sect(f.vec, f.part \cap Objects) : At(g, f.map[s]) = At(h, f.map[s])
  PROVE  FoundAlike(f, a, g, b, h)
<1>1. ASSUME NEW o \in Objects, NEW i \in DOMAIN f.vec[o]
      PROVE  At(IF o \in f.part THEN g ELSE a, f.map[f.vec[o][i]]) =
             At(IF o \in f.part THEN h ELSE b, f.map[f.vec[o][i]])
  <2>1. f.vec[o][i] \in ToSet(f.vec[o])
    BY DEF ToSet
  <2>2. CASE o \in f.part
    <3>1. f.vec[o][i] \in Sect(f.vec, f.part \cap Objects)
      BY <2>1, <2>2, SectIs
    <3> QED BY <2>2, <3>1
  <2>3. CASE o \notin f.part
    <3>1. f.vec[o][i] \in Sect(f.vec, Objects \ f.part)
      BY <2>1, <2>3, SectIs
    <3> QED BY <2>3, <3>1
  <2> QED BY <2>2, <2>3
<1>2. Found(f, a, g) = Found(f, b, h)
  BY <1>1, Zenon DEF Found
<1> QED BY <1>2 DEF FoundAlike

\* What is below the barrier is still there: the snapshot in the swap file.
LEMMA InPlaceKept ==
  ASSUME IInv, ~ swapping, NEW e, Guarded(e, Context.barrier, Context.kept)
  PROVE  /\ e.sbarrier = dev.sbarrier
         /\ At(e.file, snapshot.at) = Tables
         /\ Found(snapshot, e.file, old.data) = taken
<1>1. TypeInv /\ Modes /\ Recoverable
  BY DEF IInv
<1>2. /\ e.sbarrier = dev.sbarrier
      /\ \A i \in (0 .. dev.sbarrier - 1) \cup {Unused} : At(e.file, i) = At(dev.file, i)
  BY DEF Guarded, Context
<1>3. /\ snapshot.complete
      /\ snapshot.at \in 0 .. dev.sbarrier - 1
      /\ \A s \in Sect(snapshot.vec, Objects \ snapshot.part) :
           snapshot.map[s] \in (0 .. dev.sbarrier - 1) \cup {Unused}
      /\ Vectors(snapshot.vec)
  BY <1>1 DEF Modes, TypeInv, IsFile, Sound
<1>4. SnapshotData = dev.file
  BY DEF SnapshotData, InPlace
<1>5. /\ At(dev.file, snapshot.at) = Tables
      /\ Found(snapshot, dev.file, old.data) = taken
  BY <1>1, <1>3, <1>4 DEF Recoverable
<1>6. At(e.file, snapshot.at) = At(dev.file, snapshot.at)
  BY <1>2, <1>3
<1>7. FoundAlike(snapshot, e.file, old.data, dev.file, old.data)
  <2>1. \A s \in Sect(snapshot.vec, snapshot.part \cap Objects) :
           At(old.data, snapshot.map[s]) = At(old.data, snapshot.map[s])
    OBVIOUS
  <2>2. \A s \in Sect(snapshot.vec, Objects \ snapshot.part) :
           At(e.file, snapshot.map[s]) = At(dev.file, snapshot.map[s])
    BY <1>2, <1>3
  <2>3. Vectors(snapshot.vec)
    BY <1>3
  <2> QED BY <2>1, <2>2, <2>3, FoundSame
<1> QED BY <1>2, <1>5, <1>6, <1>7 DEF FoundAlike

\* Steps that do not make a snapshot, nor restart.
Quiet ==
  /\ step = "run"
  /\ UNCHANGED <<swapping, dump, convDone, snapshot, old, step, taken>>
  /\ where' \in [Objects -> {"none", "memory", "swap", "dump"}]
  /\ val' = [o \in Objects |-> val'[o]]
  /\ \A o \in Objects : where'[o] = "none" => vec'[o] = <<>>
  /\ Dumped' \subseteq Dumped

\* The invariant is kept by such a step if the objects have their contents:
\* the snapshots on disk are as they were.
LEMMA QuietGood ==
  ASSUME IInv, Quiet,
         Store(dev', vec', Objects \ Dumped', HeldObjects', val', Context)
  PROVE  IInv'
<1>1. TypeInv /\ Modes /\ StoreInv /\ Recoverable
  BY DEF IInv
<1>2. /\ step = "run" /\ step' = step
      /\ swapping' = swapping /\ dump' = dump /\ convDone' = convDone
      /\ snapshot' = snapshot /\ old' = old /\ taken' = taken
      /\ Dumped' \subseteq Dumped
  BY DEF Quiet
<1>3. TypeInv'
  BY <1>1, <1>2 DEF TypeInv, Quiet
<1>4. Finishing'
  BY <1>2 DEF Finishing
<1>5. /\ dev'.sbarrier = dev.sbarrier
      /\ \A i \in (0 .. dev.sbarrier - 1) \cup {Unused} : At(dev'.file, i) = At(dev.file, i)
  <2>1. Guarded(dev', Context.barrier, Context.kept)
    BY DEF Store, Good
  <2>2. Context.barrier = dev.sbarrier /\ Context.kept = dev.file
    BY DEF Context
  <2> QED BY <2>1, <2>2 DEF Guarded
<1>6. Modes'
  <2>1. dump' = "none" => Dumped' = {}
    BY <1>1, <1>2 DEF Modes
  <2>2. IF InPlace' THEN dump' # "snapshot" ELSE dump' # "old"
    BY <1>1, <1>2 DEF Modes, InPlace
  <2>3. \A o \in Objects : where'[o] = "none" => vec'[o] = <<>>
    BY DEF Quiet
  <2> QED BY <1>1, <1>2, <1>5, <2>1, <2>2, <2>3 DEF Modes
<1>7. StoreInv'
  <2> DEFINE U == Sect(vec', Objects)
             W == Sect(vec', Objects \ Dumped')
             H == Hold(vec', val', HeldObjects')
  <2>1. /\ Good(dev', U, W, H, Context)
        /\ Vectors(vec') /\ Sized(vec', val')
        /\ Objects \ Dumped' \subseteq Objects /\ HeldObjects' \subseteq Objects
    BY DEF Store
  <2>2. /\ Context'.barrier = dev'.sbarrier /\ Context'.kept = dev'.file
        /\ Context'.cold = Context.cold
    BY <1>2 DEF Context
  <2>3. ASSUME NEW s \in U \ W  PROVE Context'.from[s] = Context.from[s]
    <3>1. s \in Sector
      BY <2>1 DEF Good, Caching
    <3>2. Context.from[s] = DumpData /\ Context'.from[s] = DumpData'
      BY <3>1 DEF Context
    <3>3. PICK o \in Objects : s \in ToSet(vec'[o])
      BY <2>3, SectIs
    <3>4. o \in Dumped'
      BY <2>3, <3>3, SectIs
    <3>5. dump # "none"
      BY <1>1, <1>2, <3>4 DEF Modes
    <3>6. DumpData' = DumpData
      BY <1>1, <1>2, <3>5 DEF Modes, TypeInv, DumpData, SnapshotData, InPlace
    <3> QED BY <3>2, <3>6
  <2>4. Good(dev', U, W, H, Context')
    <3> HIDE DEF U, W, H
    <3> QED BY <2>1, <2>2, <2>3, OtherContext
  <2>5. Store(dev', vec', Objects \ Dumped', HeldObjects', val', Context')
    BY <2>1, <2>4 DEF Store
  <2> QED BY <2>5 DEF StoreInv
<1>8. Recoverable'
  <2>1. ASSUME snapshot.complete
        PROVE  /\ At(SnapshotData', snapshot.at) = Tables
               /\ Found(snapshot, SnapshotData', old.data) = taken
    <3>1. /\ At(SnapshotData, snapshot.at) = Tables
          /\ Found(snapshot, SnapshotData, old.data) = taken
      BY <1>1, <2>1 DEF Recoverable
    <3>2. CASE swapping
      <4>1. SnapshotData' = SnapshotData
        BY <1>2, <3>2 DEF SnapshotData, InPlace
      <4> QED BY <3>1, <4>1
    <3>3. CASE ~ swapping
      <4>1. SnapshotData' = dev'.file
        BY <1>2, <3>3 DEF SnapshotData, InPlace
      <4>2. Guarded(dev', Context.barrier, Context.kept)
        BY DEF Store, Good
      <4> QED BY <3>3, <4>1, <4>2, InPlaceKept
    <3> QED BY <3>2, <3>3
  <2>2. ~ snapshot.complete /\ old.complete /\ old.part = {} =>
           /\ At(old.data, old.at) = Tables
           /\ Found(old, old.data, <<>>) = taken
    BY <1>1 DEF Recoverable
  <2> QED BY <1>2, <2>1, <2>2 DEF Recoverable
<1> QED BY <1>3, <1>4, <1>6, <1>7, <1>8 DEF IInv

-----------------------------------------------------------------------------

\* The parts of the invariant.
LEMMA StoreIs ==
  ASSUME IInv
  PROVE  /\ Store(dev, vec, Objects \ Dumped, HeldObjects, val, Context)
         /\ TypeInv /\ Modes /\ Finishing /\ Recoverable
         /\ Vectors(vec) /\ Sized(vec, val)
         /\ Good(dev, Sect(vec, Objects), Sect(vec, Objects \ Dumped),
                 Hold(vec, val, HeldObjects), Context)
BY DEF IInv, StoreInv, Store

\* SwapOut keeps the invariant.
LEMMA SwapOutGood ==
  ASSUME IInv, NEW o \in Objects, NEW n \in Nat, NEW v, v = [i \in 1 .. n |-> v[i]],
         SwapOut(o, v)
  PROVE  IInv'
<1> DEFINE B == Objects \ Dumped
           saved == SaveTo(dev, vec, o, v)
<1>1. /\ step = "run" /\ where[o] # "dump"
      /\ HasSectors(dev, Len(v) - Len(vec[o]))
      /\ dev' = saved.dev /\ vec' = saved.vec
      /\ where' = [where EXCEPT ![o] = "swap"]
      /\ val' = [val EXCEPT ![o] = v]
      /\ UNCHANGED <<swapping, dump, convDone, snapshot, old, step, taken>>
  BY DEF SwapOut
<1>2. /\ Store(dev, vec, B, HeldObjects, val, Context)
      /\ TypeInv /\ Modes
  BY StoreIs
<1>3. Len(v) = n
  BY LenIs
<1>4. /\ val' = [x \in Objects |-> val'[x]] /\ val'[o] = v
      /\ \A x \in Objects : x # o => val'[x] = val[x]
  BY <1>1, <1>2 DEF TypeInv
<1>5. /\ where' \in [Objects -> {"none", "memory", "swap", "dump"}]
      /\ where'[o] = "swap" /\ \A x \in Objects : x # o => where'[x] = where[x]
  BY <1>1, <1>2 DEF TypeInv
<1>6. Dumped' = Dumped /\ HeldObjects' = HeldObjects \cup {o} /\ o \in B
  BY <1>1, <1>5 DEF Dumped, HeldObjects
<1> HIDE DEF B, saved
<1>7. SavedTo(SaveTo(dev, vec, o, v), vec, o, n, B, HeldObjects \cup {o}, val', Context)
  <2>1. HasSectors(dev, n - Len(vec[o]))
    BY <1>1, <1>3
  <2> QED BY <1>2, <1>4, <1>6, <2>1, SaveToGood
<1>8. /\ Store(dev', vec', B, HeldObjects', val', Context)
      /\ \A x \in Objects : x # o => vec'[x] = vec[x]
  BY <1>1, <1>6, <1>7 DEF SavedTo, saved
<1>9. \A x \in Objects : where'[x] = "none" => vec'[x] = <<>>
  BY <1>2, <1>5, <1>8 DEF Modes
<1>10. Quiet
  BY <1>1, <1>4, <1>5, <1>6, <1>9 DEF Quiet
<1>11. Store(dev', vec', Objects \ Dumped', HeldObjects', val', Context)
  BY <1>6, <1>8 DEF B
<1> QED BY <1>10, <1>11, QuietGood

\* Read keeps the invariant.
LEMMA ReadObjectGood ==
  ASSUME IInv, NEW o \in Objects, Read(o)
  PROVE  IInv'
<1> DEFINE U == Sect(vec, Objects)
           W == Sect(vec, Objects \ Dumped)
           H == Hold(vec, val, HeldObjects)
<1>1. /\ step = "run" /\ where[o] = "swap"
      /\ dev' = ReadSectors(dev, vec[o])
      /\ UNCHANGED <<swapping, dump, convDone, snapshot, old, where, vec, val, step, taken>>
  BY DEF Read
<1>2. /\ Store(dev, vec, Objects \ Dumped, HeldObjects, val, Context)
      /\ TypeInv /\ Modes /\ Vectors(vec) /\ Good(dev, U, W, H, Context)
  BY StoreIs
<1>3. Lists(vec[o], ToSet(vec[o]))
  BY <1>2 DEF Vectors
<1>4. ToSet(vec[o]) \subseteq W
  <2>1. o \in Objects \ Dumped
    BY <1>1 DEF Dumped
  <2> QED BY <2>1, SectIs
<1> HIDE DEF U, W, H
<1>5. Good(dev', U, W, H, Context)
  BY <1>1, <1>2, <1>3, <1>4, ReadGood
<1>6. Dumped' = Dumped /\ HeldObjects' = HeldObjects
  BY <1>1 DEF Dumped, HeldObjects
<1>7. Store(dev', vec, Objects \ Dumped, HeldObjects, val, Context)
  BY <1>2, <1>5 DEF Store, U, W, H
<1>8. Store(dev', vec', Objects \ Dumped', HeldObjects', val', Context)
  BY <1>1, <1>6, <1>7
<1>9. Quiet
  BY <1>1, <1>2, <1>6 DEF Quiet, TypeInv, Modes
<1> QED BY <1>8, <1>9, QuietGood

\* Restore keeps the invariant.
LEMMA RestoreObjectGood ==
  ASSUME IInv, NEW o \in Objects, Restore(o)
  PROVE  IInv'
<1> DEFINE B == Objects \ Dumped
<1>1. /\ step = "run" /\ where[o] = "dump"
      /\ dev' = RestoreFrom(FromDump, dev, vec[o])
      /\ where' = [where EXCEPT ![o] = "memory"]
      /\ UNCHANGED <<swapping, dump, convDone, snapshot, old, vec, val, step, taken>>
  BY DEF Restore
<1>2. /\ Store(dev, vec, B, HeldObjects, val, Context)
      /\ TypeInv /\ Modes /\ Vectors(vec)
      /\ Good(dev, Sect(vec, Objects), Sect(vec, Objects \ Dumped),
                 Hold(vec, val, HeldObjects), Context)
  BY StoreIs
<1>3. o \notin B
  BY <1>1 DEF Dumped
<1>4. ToSet(vec[o]) \subseteq Sector
  <2>1. ToSet(vec[o]) \subseteq Sect(vec, Objects)
    BY SectIs
  <2> QED BY <1>2, <2>1 DEF Good, Caching
<1>5. /\ FromDump.done => \A s \in ToSet(vec[o]) : /\ Context.from[s] = FromDump.file
                                                /\ s \notin Context.cold
      /\ ~ FromDump.done => ToSet(vec[o]) \subseteq Context.cold
  BY <1>4 DEF FromDump, Context
<1>6. /\ where' \in [Objects -> {"none", "memory", "swap", "dump"}]
      /\ where'[o] = "memory" /\ \A x \in Objects : x # o => where'[x] = where[x]
  BY <1>1, <1>2 DEF TypeInv
<1>7. Dumped' = Dumped \ {o} /\ HeldObjects' = HeldObjects \ {o}
  BY <1>6 DEF Dumped, HeldObjects
<1>8. Objects \ Dumped' = B \cup {o}
  BY <1>7
<1> HIDE DEF B
<1>9. Store(RestoreFrom(FromDump, dev, vec[o]), vec, B \cup {o}, HeldObjects \ {o}, val, Context)
  BY <1>2, <1>3, <1>5, RestoredStore
<1>10. Store(dev', vec', Objects \ Dumped', HeldObjects', val', Context)
  BY <1>1, <1>7, <1>8, <1>9
<1>11. Quiet
  BY <1>1, <1>2, <1>6, <1>7 DEF Quiet, TypeInv, Modes
<1> QED BY <1>10, <1>11, QuietGood

\* Del keeps the invariant.
LEMMA DelGood ==
  ASSUME IInv, NEW o \in Objects, Del(o)
  PROVE  IInv'
<1> DEFINE U == Sect(vec, Objects)
           W == Sect(vec, Objects \ Dumped)
           H == Hold(vec, val, HeldObjects)
           S == ToSet(vec[o])
           w == Wipe(dev, vec[o])
<1>1. /\ step = "run" /\ where[o] \in {"swap", "memory"}
      /\ dev' = Delete(w, vec[o])
      /\ where' = [where EXCEPT ![o] = "none"]
      /\ vec' = [vec EXCEPT ![o] = <<>>]
      /\ val' = [val EXCEPT ![o] = <<>>]
      /\ UNCHANGED <<swapping, dump, convDone, snapshot, old, step, taken>>
  BY DEF Del
<1>2. /\ TypeInv /\ Modes /\ Vectors(vec) /\ Sized(vec, val)
      /\ Good(dev, U, W, H, Context)
      /\ HeldObjects \subseteq Objects
  BY StoreIs DEF HeldObjects
<1>3. Lists(vec[o], S) /\ o \in Objects \ Dumped
  BY <1>1, <1>2 DEF Vectors, Dumped
<1>4. S \subseteq W
  BY <1>3, SectIs
<1>5. /\ where' \in [Objects -> {"none", "memory", "swap", "dump"}]
      /\ where'[o] = "none" /\ \A x \in Objects : x # o => where'[x] = where[x]
  BY <1>1, <1>2 DEF TypeInv
<1>6. Dumped' = Dumped /\ HeldObjects' = HeldObjects \ {o}
  BY <1>1, <1>5 DEF Dumped, HeldObjects
<1>7. /\ val' = [x \in Objects |-> val'[x]] /\ val'[o] = <<>>
      /\ \A x \in Objects : x # o => val'[x] = val[x]
  BY <1>1, <1>2 DEF TypeInv
<1> HIDE DEF U, W, H, S, w
<1>8. Good(w, U, W, Others(H, S), Context) /\ \A s \in S : Index(w, s) = Unused
  BY <1>2, <1>3, <1>4, WipeGood DEF w
<1>9. Good(dev', U \ S, W \ S, Others(Others(H, S), S), Context)
  BY <1>1, <1>3, <1>4, <1>8, DeleteGood
<1>10. Lists(<<>>, {}) /\ ToSet(<<>>) = {}
  BY ListsNone, ListsIs
<1>11. /\ Vectors(vec') /\ vec'[o] = <<>>
       /\ \A x \in Objects : x # o => vec'[x] = vec[x]
  <2>1. {} \cap (Sect(vec, Objects) \ ToSet(vec[o])) = {}
    OBVIOUS
  <2> DEFINE q == <<>>
             T == {}
  <2>2. Lists(q, T) /\ T \cap (Sect(vec, Objects) \ ToSet(vec[o])) = {}
    BY <1>10, <2>1
  <2>3. vec' = [vec EXCEPT ![o] = q]
    BY <1>1
  <2> HIDE DEF q, T
  <2>4. /\ Vectors([vec EXCEPT ![o] = q]) /\ [vec EXCEPT ![o] = q][o] = q
        /\ \A x \in Objects : x # o => [vec EXCEPT ![o] = q][x] = vec[x]
    BY <1>2, <2>2, VectorsReplaced
  <2> QED BY <2>3, <2>4 DEF q
<1>12. Sect(vec', Objects) = U \ S /\ Sect(vec', Objects \ Dumped) = W \ S
  <2>1. Sect([vec EXCEPT ![o] = <<>>], Objects) = (Sect(vec, Objects) \ ToSet(vec[o])) \cup ToSet(<<>>)
    <3>1. Objects \subseteq Objects
      OBVIOUS
    <3> QED BY <1>2, <3>1, SectReplaced
  <2>2. Sect([vec EXCEPT ![o] = <<>>], Objects \ Dumped)
           = (Sect(vec, Objects \ Dumped) \ ToSet(vec[o])) \cup ToSet(<<>>)
    <3>1. Objects \ Dumped \subseteq Objects
      OBVIOUS
    <3> QED BY <1>2, <1>3, <3>1, SectReplaced
  <2> QED BY <1>1, <1>10, <2>1, <2>2 DEF U, W, S
<1>13. Sized(vec', val')
  <2> SUFFICES ASSUME NEW x \in Objects
               PROVE  val'[x] = [i \in 1 .. Len(vec'[x]) |-> val'[x][i]]
    BY DEF Sized
  <2>1. CASE x = o
    BY <1>7, <1>11, <2>1
  <2>2. CASE x # o
    <3>1. val[x] = [i \in 1 .. Len(vec[x]) |-> val[x][i]]
      BY <1>2 DEF Sized
    <3> QED BY <1>7, <1>11, <2>2, <3>1
  <2> QED BY <2>1, <2>2
<1>14. Hold(vec', val', HeldObjects \ {o}) \subseteq Others(Others(H, S), S)
  <2> SUFFICES ASSUME NEW h \in Hold(vec', val', HeldObjects \ {o})
               PROVE  h \in Others(Others(H, S), S)
    OBVIOUS
  <2>1. PICK x \in HeldObjects \ {o} : \E i \in 1 .. Len(vec'[x]) : h = <<vec'[x][i], val'[x][i]>>
    BY HoldIs
  <2>2. vec'[x] = vec[x] /\ val'[x] = val[x]
    BY <1>2, <1>7, <1>11, <2>1
  <2>3. PICK i \in 1 .. Len(vec[x]) : h = <<vec[x][i], val[x][i]>>
    BY <2>1, <2>2
  <2>4. h \in H /\ h[1] = vec[x][i]
    BY <2>1, <2>3, HoldIs DEF H
  <2>5. h[1] \in ToSet(vec[x])
    BY <1>2, <2>1, <2>3, <2>4, DoneIs DEF Vectors
  <2>6. h[1] \notin S
    BY <1>2, <2>1, <2>5 DEF Vectors, S
  <2> QED BY <2>4, <2>6 DEF Others
<1>15. Good(dev', Sect(vec', Objects), Sect(vec', Objects \ Dumped),
            Hold(vec', val', HeldObjects \ {o}), Context)
  BY <1>9, <1>12, <1>14, Fewer
<1>16. Store(dev', vec', Objects \ Dumped', HeldObjects', val', Context)
  <2>1. Objects \ Dumped' \subseteq Objects /\ HeldObjects' \subseteq Objects
    BY <1>2, <1>6
  <2> QED BY <1>6, <1>11, <1>13, <1>15, <2>1 DEF Store
<1>17. Quiet
  <2>1. \A x \in Objects : where'[x] = "none" => vec'[x] = <<>>
    BY <1>2, <1>5, <1>11 DEF Modes
  <2> QED BY <1>1, <1>5, <1>6, <1>7, <2>1 DEF Quiet
<1> QED BY <1>16, <1>17, QuietGood

\* The objects of K hold what they have in their sectors.
LEMMA HeldIs ==
  ASSUME NEW c, NEW vs, NEW B, NEW K, NEW vl, NEW p, Store(c, vs, B, K, vl, p),
         NEW o \in K, NEW i \in 1 .. Len(vs[o])
  PROVE  /\ vs[o][i] \in Sector /\ vs[o][i] \in ToSet(vs[o])
         /\ vs[o][i] \in Sect(vs, B) <=> o \in B
         /\ Right(c, vs[o][i], IF o \in B THEN c.file ELSE p.from[vs[o][i]], vl[o][i])
<1> DEFINE s == vs[o][i]
           h == <<s, vl[o][i]>>
           W == Sect(vs, B)
<1>1. /\ B \subseteq Objects /\ o \in Objects /\ Vectors(vs)
      /\ Good(c, Sect(vs, Objects), W, Hold(vs, vl, K), p)
  BY DEF Store
<1>2. s \in ToSet(vs[o])
  BY <1>1, DoneIs DEF Vectors
<1>3. s \in Sect(vs, Objects) /\ Sect(vs, Objects) \subseteq Sector
  BY <1>1, <1>2, SectIs DEF Good, Caching
<1>4. s \in W <=> o \in B
  <2>1. CASE o \in B
    BY <1>2, <2>1, SectIs
  <2>2. CASE o \notin B
    <3>1. W \cap ToSet(vs[o]) = {}
      BY <1>1, <2>2, SectApart
    <3> QED BY <1>2, <2>2, <3>1
  <2> QED BY <2>1, <2>2
<1>5. h \in Hold(vs, vl, K)
  BY HoldIs
<1>6. h[1] = s /\ h[2] = vl[o][i]
  OBVIOUS
<1> HIDE DEF s, h, W
<1>7. Right(c, h[1], Source(c, W, p.from, h[1]), h[2])
  BY <1>1, <1>5 DEF Good, Held
<1>8. Right(c, s, IF o \in B THEN c.file ELSE p.from[s], vl[o][i])
  BY <1>4, <1>6, <1>7 DEF Source
<1> QED BY <1>2, <1>3, <1>4, <1>8 DEF s, W

\* Update keeps the invariant.
LEMMA UpdateGood ==
  ASSUME IInv, NEW o \in Objects, Update(o)
  PROVE  IInv'
<1> DEFINE U == Sect(vec, Objects)
           W == Sect(vec, Objects \ Dumped)
           H == Hold(vec, val, HeldObjects)
<1>1. PICK i \in DOMAIN val[o] :
        /\ dev' = WriteSector(dev, vec[o][i], Other(o, Content(dev, vec[o][i], dev.file)))
        /\ val' = [val EXCEPT ![o][i] = Other(o, @)]
  BY DEF Update
<1>2. /\ step = "run" /\ where[o] = "swap"
      /\ UNCHANGED <<swapping, dump, convDone, snapshot, old, where, vec, step, taken>>
  BY DEF Update
<1>3. /\ Store(dev, vec, Objects \ Dumped, HeldObjects, val, Context)
      /\ TypeInv /\ Modes /\ Vectors(vec) /\ Sized(vec, val) /\ Good(dev, U, W, H, Context)
  BY StoreIs
<1>4. o \in HeldObjects /\ o \in Objects \ Dumped
  BY <1>2 DEF HeldObjects, Dumped
<1>5. val[o] = [j \in 1 .. Len(vec[o]) |-> val[o][j]]
  BY <1>3 DEF Sized
<1>6. DOMAIN val[o] = 1 .. Len(vec[o])
  BY <1>5
<1>7. i \in 1 .. Len(vec[o])
  BY <1>1, <1>6
<1> DEFINE s == vec[o][i]
           u == Other(o, val[o][i])
<1>8. s \in W /\ s \in Sector /\ Content(dev, s, dev.file) = val[o][i]
  BY <1>3, <1>4, <1>7, HeldIs DEF Right
<1> HIDE DEF U, W, H, s
<1>9. dev' = WriteSector(dev, s, u)
  BY <1>1, <1>8 DEF s
<1> DEFINE y == [val[o] EXCEPT ![i] = u]
<1>10. val' = [val EXCEPT ![o] = y]
  BY <1>1
<1>11. /\ y = [j \in 1 .. Len(vec[o]) |-> y[j]] /\ y[i] = u
       /\ \A j \in 1 .. Len(vec[o]) : j # i => y[j] = val[o][j]
  BY <1>5, <1>7
<1> HIDE DEF u, y
<1>12. /\ val' = [x \in Objects |-> val'[x]] /\ val'[o] = y
       /\ \A x \in Objects : x # o => val'[x] = val[x]
  BY <1>3, <1>10 DEF TypeInv
<1>13. Good(dev', U, W, {h \in H : h[1] # s} \cup {<<s, u>>}, Context)
  BY <1>3, <1>8, <1>9, WriteSectorGood
<1>14. Hold(vec, val', HeldObjects) \subseteq {h \in H : h[1] # s} \cup {<<s, u>>}
  <2> SUFFICES ASSUME NEW h \in Hold(vec, val', HeldObjects)
               PROVE  h \in {g \in H : g[1] # s} \cup {<<s, u>>}
    OBVIOUS
  <2>1. PICK x \in HeldObjects : \E j \in 1 .. Len(vec[x]) : h = <<vec[x][j], val'[x][j]>>
    BY HoldIs
  <2>2. PICK j \in 1 .. Len(vec[x]) : h = <<vec[x][j], val'[x][j]>>
    BY <2>1
  <2>3. x \in Objects /\ h[1] = vec[x][j]
    BY <2>1, <2>2 DEF HeldObjects
  <2>4. CASE x = o /\ j = i
    BY <1>11, <1>12, <2>2, <2>4 DEF s
  <2>5. CASE ~ (x = o /\ j = i)
    <3>1. val'[x][j] = val[x][j]
      BY <1>11, <1>12, <2>2, <2>3, <2>5
    <3>2. h \in H
      BY <2>1, <2>2, <3>1, HoldIs DEF H
    <3>3. h[1] # s
      <4>1. CASE x = o
        BY <1>3, <1>4, <1>7, <2>2, <2>3, <2>5, <4>1 DEF Vectors, Lists, s
      <4>2. CASE x # o
        <5>1. s \in ToSet(vec[o]) /\ h[1] \in ToSet(vec[x])
          BY <1>3, <1>4, <1>7, <2>1, <2>2, <2>3, HeldIs DEF s
        <5> QED BY <1>3, <2>3, <4>2, <5>1 DEF Vectors
      <4> QED BY <4>1, <4>2
    <3> QED BY <3>2, <3>3
  <2> QED BY <2>4, <2>5
<1>15. Good(dev', U, W, Hold(vec, val', HeldObjects), Context)
  BY <1>13, <1>14, Fewer
<1>16. Sized(vec, val')
  <2> SUFFICES ASSUME NEW x \in Objects
               PROVE  val'[x] = [j \in 1 .. Len(vec[x]) |-> val'[x][j]]
    BY DEF Sized
  <2>1. CASE x = o
    BY <1>11, <1>12, <2>1
  <2>2. CASE x # o
    <3>1. val[x] = [j \in 1 .. Len(vec[x]) |-> val[x][j]]
      BY <1>3 DEF Sized
    <3> QED BY <1>12, <2>2, <3>1
  <2> QED BY <2>1, <2>2
<1>17. Dumped' = Dumped /\ HeldObjects' = HeldObjects
  BY <1>2 DEF Dumped, HeldObjects
<1>18. Store(dev', vec, Objects \ Dumped, HeldObjects, val', Context)
  BY <1>3, <1>15, <1>16 DEF Store, U, W
<1>19. Store(dev', vec', Objects \ Dumped', HeldObjects', val', Context)
  BY <1>2, <1>17, <1>18
<1>20. Quiet
  BY <1>2, <1>3, <1>12, <1>17 DEF Quiet, TypeInv, Modes
<1> QED BY <1>19, <1>20, QuietGood

\* Copied keeps the invariant.
LEMMA CopiedGood ==
  ASSUME IInv, Copied
  PROVE  IInv'
<1>1. /\ step = "run" /\ convDone' = TRUE
      /\ UNCHANGED <<dev, swapping, dump, snapshot, old, where, vec, val, step, taken>>
  BY DEF Copied
<1>2. /\ TypeInv /\ Modes /\ Finishing /\ Recoverable
      /\ Store(dev, vec, Objects \ Dumped, HeldObjects, val, Context)
  BY StoreIs
<1>3. TypeInv' /\ Modes' /\ Finishing'
  BY <1>1, <1>2 DEF TypeInv, Modes, Finishing, Dumped, InPlace
<1>4. Recoverable'
  BY <1>1, <1>2 DEF Recoverable, SnapshotData, InPlace
<1>5. StoreInv'
  <2>1. Dumped' = Dumped /\ HeldObjects' = HeldObjects /\ DumpData' = DumpData
    BY <1>1 DEF Dumped, HeldObjects, DumpData, SnapshotData, InPlace
  <2>2. /\ Context'.barrier = dev.sbarrier /\ Context'.kept = dev.file
        /\ Context'.cold = {} /\ Context'.from = Context.from
    BY <1>1, <2>1 DEF Context
  <2> DEFINE U == Sect(vec, Objects)
             W == Sect(vec, Objects \ Dumped)
             H == Hold(vec, val, HeldObjects)
  <2>3. Good(dev, U, W, H, Context)
    BY <1>2 DEF Store
  <2> HIDE DEF U, W, H
  <2>4. Good(dev, U, W, H, Context')
    BY <2>2, <2>3, OtherContext
  <2>5. Store(dev, vec, Objects \ Dumped, HeldObjects, val, Context')
    BY <1>2, <2>4 DEF Store, U, W, H
  <2> QED BY <1>1, <2>1, <2>5 DEF StoreInv
<1> QED BY <1>3, <1>4, <1>5 DEF IInv

-----------------------------------------------------------------------------

\* The tables are written behind all that is in use.
WithTables(c) == [c EXCEPT !.file = Set(@, c.ssectors, Tables)]

\* The tables are not in the way of anything.
LEMMA TablesGood ==
  ASSUME NEW c, NEW U, NEW W, NEW H, NEW p, Good(c, U, W, H, p)
  PROVE  LET d == WithTables(c)
         IN  /\ Good(d, U, W, H, p)
             /\ d.ssectors = c.ssectors
             /\ At(d.file, d.ssectors) = Tables
             /\ \A s \in Sector : Dirty(d, s) <=> Dirty(c, s)
<1> DEFINE d == WithTables(c)
           x == c.ssectors
<1>1. /\ Caching(c, U) /\ W \subseteq U /\ Sectoring(c, U) /\ Indexing(c, W)
      /\ Clean(c, W, p.cold) /\ Held(c, U, W, p.from, H)
      /\ Guarded(c, p.barrier, p.kept)
  BY DEF Good
<1>2. IsDevice(c) /\ U \subseteq Sector
  BY <1>1 DEF Caching
<1>3. /\ d = [map |-> c.map, slot |-> c.slot, lru |-> c.lru, lfree |-> c.lfree,
              mfree |-> c.mfree, nsectors |-> c.nsectors, sfree |-> c.sfree,
              ssectors |-> c.ssectors, sbarrier |-> c.sbarrier,
              file |-> Set(c.file, x, Tables)]
  <2>1. c = [map |-> c.map, slot |-> c.slot, lru |-> c.lru, lfree |-> c.lfree,
             mfree |-> c.mfree, nsectors |-> c.nsectors, sfree |-> c.sfree,
             ssectors |-> c.ssectors, sbarrier |-> c.sbarrier, file |-> c.file]
    BY <1>2 DEF IsDevice
  <2>2. d = [c EXCEPT !.file = Set(c.file, x, Tables)]
    BY Zenon DEF WithTables
  <2> HIDE DEF d, x
  <2> QED BY <2>1, <2>2
<1> HIDE DEF d
<1>4. /\ d = [map |-> d.map, slot |-> d.slot, lru |-> d.lru, lfree |-> d.lfree,
              mfree |-> d.mfree, nsectors |-> d.nsectors, sfree |-> d.sfree,
              ssectors |-> d.ssectors, sbarrier |-> d.sbarrier, file |-> d.file]
      /\ d.map = c.map /\ d.slot = c.slot /\ d.lru = c.lru /\ d.lfree = c.lfree
      /\ d.mfree = c.mfree /\ d.nsectors = c.nsectors
      /\ d.sfree = c.sfree /\ d.ssectors = c.ssectors /\ d.sbarrier = c.sbarrier
      /\ d.file = Set(c.file, x, Tables)
  BY <1>3
<1>5. IsDevice(d)
  BY <1>2, <1>4 DEF IsDevice
<1>6. Caching(d, U)
  BY <1>1, <1>4, <1>5 DEF Caching
<1>7. Sectoring(d, U)
  BY <1>1, <1>4, SectoringSame
<1>8. \A s \in Sector : /\ Cached(d, s) <=> Cached(c, s)
                        /\ Dirty(d, s) <=> Dirty(c, s)
                        /\ Index(d, s) = Index(c, s)
  BY <1>4 DEF Cached, Dirty, Index
<1>9. Indexing(d, W)
  <2>1. \A s \in W : Index(d, s) = Index(c, s)
    BY <1>1, <1>2, <1>8
  <2> QED BY <1>1, <1>4, <2>1, IndexingSame
<1>10. Clean(d, W, p.cold)
  BY <1>1, <1>8 DEF Clean
<1>11. x \in Nat /\ c.sbarrier \in Nat /\ c.sbarrier <= x
  BY <1>1, <1>2 DEF IsDevice, Indexing
<1>12. \A i : i # x => At(d.file, i) = At(c.file, i)
  BY <1>4, AtSet
<1>13. At(d.file, x) = Tables
  BY <1>4, AtSet
<1> HIDE DEF x
<1>14. Guarded(d, p.barrier, p.kept)
  <2>1. p.barrier = c.sbarrier
    BY <1>1 DEF Guarded
  <2>2. \A i \in (0 .. c.sbarrier - 1) \cup {Unused} : i # x
    BY <1>11, SectorType
  <2> QED BY <1>1, <1>4, <1>12, <2>1, <2>2 DEF Guarded
<1>15. \A s \in W : Index(c, s) # x
  <2> TAKE s \in W
  <2>1. Index(c, s) # Unused => Index(c, s) < x
    BY <1>1 DEF Indexing, x
  <2>2. Index(c, s) \in Nat \cup {Unused}
    BY <1>1, <1>2, IndexTyped DEF IndexType
  <2> QED BY <1>11, <2>1, <2>2, SectorType
<1>16. Held(d, U, W, p.from, H)
  <2> SUFFICES ASSUME NEW h \in H
               PROVE  h[1] \in U /\ Right(d, h[1], Source(d, W, p.from, h[1]), h[2])
    BY DEF Held
  <2> DEFINE s == h[1]
  <2>1. s \in U /\ Right(c, s, Source(c, W, p.from, s), h[2])
    BY <1>1 DEF Held
  <2>2. s \in Sector
    BY <1>2, <2>1
  <2> HIDE DEF s
  <2>3. CASE s \in W
    <3>1. Content(d, s, d.file) = Content(c, s, c.file)
      <4>1. CASE Cached(c, s)
        BY <1>4, <1>8, <2>2, <4>1 DEF Content
      <4>2. CASE ~ Cached(c, s)
        <5>1. Index(c, s) = c.map[s]
          BY <4>2 DEF Index
        <5>2. At(d.file, c.map[s]) = At(c.file, c.map[s])
          BY <1>12, <1>15, <2>3, <5>1
        <5> QED BY <1>4, <1>8, <2>2, <4>2, <5>2 DEF Content
      <4> QED BY <4>1, <4>2
    <3>2. At(d.file, Index(d, s)) = At(c.file, Index(c, s))
      BY <1>8, <1>12, <1>15, <2>2, <2>3
    <3>3. Source(d, W, p.from, s) = d.file /\ Source(c, W, p.from, s) = c.file
      BY <2>3 DEF Source
    <3>4. Right(d, s, d.file, h[2])
      BY <1>8, <2>1, <2>2, <3>1, <3>2, <3>3 DEF Right
    <3> QED BY <2>1, <3>3, <3>4 DEF s
  <2>4. CASE s \notin W
    <3>1. Source(d, W, p.from, s) = p.from[s] /\ Source(c, W, p.from, s) = p.from[s]
      BY <2>4 DEF Source
    <3>2. Content(d, s, p.from[s]) = Content(c, s, p.from[s])
      BY <1>4, <1>8, <2>2 DEF Content
    <3>3. Right(d, s, p.from[s], h[2])
      BY <1>8, <2>1, <2>2, <3>1, <3>2 DEF Right
    <3> QED BY <2>1, <3>1, <3>3 DEF s
  <2> QED BY <2>3, <2>4
<1>17. Good(d, U, W, H, p)
  BY <1>1, <1>6, <1>7, <1>9, <1>10, <1>14, <1>16 DEF Good
<1> QED BY <1>4, <1>8, <1>13, <1>17 DEF d, x

\* The device and the vectors that Dump(incr) leaves.
DumpCopied(incr) ==
  CopyAll(FromDump, dev, vec, SetToSeq(IF incr THEN {} ELSE Dumped))
InMemory == {o \in Objects : where[o] = "memory"}
DumpSaved(incr) ==
  SaveAll(DumpCopied(incr).dev, DumpCopied(incr).vec, SetToSeq(InMemory))

\* What Dump says, part by part.
LEMMA DumpIs ==
  ASSUME NEW incr, Dump(incr)
  PROVE  LET inDump == IF incr THEN {} ELSE Dumped
             keep == Dumped # inDump
         IN  /\ step = "run"
             /\ dev' = WithTables(Flush(DumpSaved(incr).dev))
             /\ vec' = DumpSaved(incr).vec
             /\ where' = [o \in Objects |-> IF o \in inDump \cup InMemory
                                            THEN "swap" ELSE where[o]]
             /\ swapping => /\ old' = snapshot /\ snapshot' = NoFile
                            /\ dump' = IF keep THEN "old" ELSE "none"
             /\ ~ swapping => /\ dump' = IF keep THEN dump ELSE "none"
                              /\ old' = old /\ snapshot' = snapshot
             /\ convDone' = (convDone \/ ~ incr)
             /\ step' = IF incr THEN "incremental" ELSE "full"
             /\ swapping' = swapping /\ val' = val /\ taken' = taken
BY Zenon DEF Dump, DumpSaved, DumpCopied, InMemory, WithTables

\* What is copied, saved and written is what the objects had.
LEMMA DumpedGood ==
  ASSUME IInv, NEW incr \in BOOLEAN,
         NEW D, D = IF incr THEN {} ELSE Dumped
  PROVE  LET s == DumpSaved(incr)
             d == WithTables(Flush(s.dev))
             B == (Objects \ Dumped) \cup D
         IN  /\ Store(d, s.vec, B, HeldObjects \cup D \cup InMemory, val, Context)
             /\ At(d.file, d.ssectors) = Tables
             /\ \A x \in Sector : ~ Dirty(d, x)
             /\ \A o \in Objects : o \notin D \cup InMemory => s.vec[o] = vec[o]
<1> DEFINE B == (Objects \ Dumped) \cup D
           M == InMemory
           K == HeldObjects \cup D
           a == DumpCopied(incr)
           s == DumpSaved(incr)
           f == Flush(s.dev)
<1>1. /\ Store(dev, vec, Objects \ Dumped, HeldObjects, val, Context)
      /\ Good(dev, Sect(vec, Objects), Sect(vec, Objects \ Dumped),
                 Hold(vec, val, HeldObjects), Context)
  BY StoreIs
<1>2. D \subseteq Objects /\ D \subseteq Dumped /\ D \cap (Objects \ Dumped) = {}
      /\ M \subseteq Objects /\ M \subseteq B
  BY DEF Dumped, InMemory
<1>3. Lists(SetToSeq(D), D) /\ Lists(SetToSeq(M), M)
  <2>1. IsFiniteSet(D) /\ IsFiniteSet(M)
    BY <1>2, SnapshotAssumption, FS_Subset
  <2> QED BY <2>1, ListsSet
<1>4. Copies(FromDump, vec, D, val, Context)
  <2>1. Sect(vec, D) \subseteq Sector
    <3>1. Sect(vec, D) \subseteq Sect(vec, Objects)
      BY <1>2, SectIs
    <3> QED BY <1>1, <3>1 DEF Good, Caching
  <2> QED BY <2>1 DEF Copies, FromDump, Context
<1>5. a = CopyAll(FromDump, dev, vec, SetToSeq(D))
  BY DEF DumpCopied
<1>6. s = SaveAll(a.dev, a.vec, SetToSeq(M))
  BY DEF DumpSaved
<1> HIDE DEF B, M, K, a, s
<1> DEFINE dq == SetToSeq(D)
           mq == SetToSeq(M)
           A == Objects \ Dumped
           p == Context
           from == FromDump
<1>7. AllSaved(a, vec, B, HeldObjects, D, val, p)
  <2>1. /\ Store(dev, vec, A, HeldObjects, val, p) /\ Lists(dq, D)
        /\ D \subseteq Objects /\ D \cap A = {} /\ Copies(from, vec, D, val, p)
        /\ a = CopyAll(from, dev, vec, dq) /\ B = A \cup D
    BY <1>1, <1>2, <1>3, <1>4, <1>5 DEF B
  <2> HIDE DEF dq, A, p, from
  <2> QED BY <2>1, CopyAllGood
<1>8. AllSaved(s, a.vec, B, K, M, val, p)
  <2>1. /\ Lists(mq, M) /\ s = SaveAll(a.dev, a.vec, mq) /\ M \subseteq B
        /\ Store(a.dev, a.vec, B, K, val, p)
    BY <1>2, <1>3, <1>6, <1>7 DEF AllSaved, K
  <2> HIDE DEF mq, p
  <2> QED BY <2>1, SaveAllGood
<1>14. /\ Store(s.dev, s.vec, B, K \cup M, val, p)
       /\ \A o \in Objects : o \notin D \cup M => s.vec[o] = vec[o]
  BY <1>7, <1>8 DEF AllSaved
<1> DEFINE U == Sect(s.vec, Objects)
           W == Sect(s.vec, B)
           H == Hold(s.vec, val, K \cup M)
<1>9. Good(s.dev, U, W, H, p)
  BY <1>14 DEF Store
<1> HIDE DEF U, W, H, p
<1>10. Good(f, U, W, H, p) /\ \A x \in Sector : ~ Dirty(f, x)
  BY <1>9, FlushGood
<1> HIDE DEF f
<1> DEFINE d == WithTables(f)
<1>11. /\ Good(d, U, W, H, p) /\ At(d.file, d.ssectors) = Tables
       /\ \A x \in Sector : ~ Dirty(d, x)
  BY <1>10, TablesGood
<1> HIDE DEF d
<1>12. Store(d, s.vec, B, K \cup M, val, p)
  BY <1>11, <1>14 DEF Store, U, W, H
<1> QED BY <1>11, <1>12, <1>14 DEF d, f, s, B, K, M, p

\* The snapshot that is in the file of its own is the previous one now.
LEMMA Recovered ==
  ASSUME IInv, snapshot.complete, step = "run", swapping, snapshot.part = {}
  PROVE  /\ At(snapshot.data, snapshot.at) = Tables
         /\ Found(snapshot, snapshot.data, <<>>) = taken
<1>1. TypeInv /\ Recoverable
  BY DEF IInv
<1>2. SnapshotData = snapshot.data
  BY DEF SnapshotData, InPlace
<1>3. /\ At(snapshot.data, snapshot.at) = Tables
      /\ Found(snapshot, snapshot.data, old.data) = taken
  BY <1>1, <1>2 DEF Recoverable
<1>4. Vectors(snapshot.vec)
  BY <1>1 DEF TypeInv, IsFile, Sound
<1>5. Sect(snapshot.vec, snapshot.part \cap Objects) = {}
  BY DEF Sect
<1> DEFINE a == snapshot.data
           g == old.data
           h == <<>>
<1>6. /\ \A x \in Sect(snapshot.vec, Objects \ snapshot.part) :
            At(a, snapshot.map[x]) = At(a, snapshot.map[x])
      /\ \A x \in Sect(snapshot.vec, snapshot.part \cap Objects) :
            At(h, snapshot.map[x]) = At(g, snapshot.map[x])
  BY <1>5
<1> HIDE DEF a, g, h
<1>7. FoundAlike(snapshot, a, h, a, g)
  BY <1>4, <1>6, FoundSame
<1> QED BY <1>3, <1>7 DEF FoundAlike, a, g, h

\* Dump keeps the invariant.  The previous snapshot remains on disk: under the
\* name with ".old", or below the barrier.
LEMMA DumpGood ==
  ASSUME IInv, NEW incr \in Kinds, Dump(incr)
  PROVE  IInv'
<1> DEFINE D == IF incr THEN {} ELSE Dumped
           s == DumpSaved(incr)
<1>0. incr \in BOOLEAN
  BY SnapshotAssumption
<1>1. /\ step = "run"
      /\ dev' = WithTables(Flush(s.dev)) /\ vec' = s.vec
      /\ where' = [o \in Objects |-> IF o \in D \cup InMemory THEN "swap" ELSE where[o]]
      /\ swapping => /\ old' = snapshot /\ snapshot' = NoFile
                     /\ dump' = IF Dumped # D THEN "old" ELSE "none"
      /\ ~ swapping => /\ dump' = IF Dumped # D THEN dump ELSE "none"
                       /\ old' = old /\ snapshot' = snapshot
      /\ convDone' = (convDone \/ ~ incr)
      /\ step' = IF incr THEN "incremental" ELSE "full"
      /\ swapping' = swapping /\ val' = val /\ taken' = taken
  BY DumpIs
<1>2. TypeInv /\ Modes /\ Recoverable
  BY StoreIs
<1>3. D = IF incr THEN {} ELSE Dumped
  OBVIOUS
<1> HIDE DEF D, s
<1>4. /\ Store(dev', vec', (Objects \ Dumped) \cup D, HeldObjects \cup D \cup InMemory, val, Context)
      /\ At(dev'.file, dev'.ssectors) = Tables
      /\ \A x \in Sector : ~ Dirty(dev', x)
      /\ \A o \in Objects : o \notin D \cup InMemory => vec'[o] = vec[o]
  BY <1>0, <1>1, <1>3, DumpedGood DEF s
<1>5. D \subseteq Dumped /\ Dumped \subseteq Objects /\ InMemory \subseteq Objects
      /\ (~ incr => D = Dumped) /\ (incr => D = {})
  BY <1>3 DEF Dumped, InMemory
<1>6. /\ where' \in [Objects -> {"none", "memory", "swap", "dump"}]
      /\ \A o \in D \cup InMemory : where'[o] = "swap"
      /\ \A o \in Objects : o \notin D \cup InMemory => where'[o] = where[o]
      /\ \A o \in Objects : where'[o] # "memory"
  BY <1>1, <1>2, <1>5 DEF TypeInv, InMemory
<1>7. Dumped' = Dumped \ D
  BY <1>5, <1>6 DEF Dumped, InMemory
<1>8. HeldObjects' = HeldObjects \cup D \cup InMemory
  BY <1>5, <1>6 DEF HeldObjects
<1>9. Objects \ Dumped' = (Objects \ Dumped) \cup D
  BY <1>5, <1>7
<1>10. /\ step' # "run" /\ step' \in {"run", "incremental", "full"}
       /\ InPlace' /\ convDone' \in BOOLEAN
       /\ step' = "full" => ~ incr
  BY <1>1, <1>2 DEF InPlace, TypeInv
<1>11. IsFile(snapshot') /\ IsFile(old')
  <2>1. IsFile(NoFile)
    BY DEF IsFile, NoFile
  <2> QED BY <1>1, <1>2, <2>1 DEF TypeInv
<1>12. TypeInv'
  BY <1>1, <1>2, <1>6, <1>10, <1>11 DEF TypeInv
<1>13. Guarded(dev', Context.barrier, Context.kept)
  BY <1>4 DEF Store, Good
<1>14. ~ swapping => /\ dev'.sbarrier = dev.sbarrier
                     /\ At(dev'.file, snapshot.at) = Tables
                     /\ Found(snapshot, dev'.file, old.data) = taken
  BY <1>13, InPlaceKept
<1>15. Modes'
  <2>1. dump' = "none" => Dumped' = {}
    BY <1>1, <1>2, <1>5, <1>7 DEF Modes
  <2>2. dump' # "snapshot"
    BY <1>1, <1>2 DEF Modes, InPlace
  <2>3. \A o \in Objects : where'[o] = "none" => vec'[o] = <<>>
    BY <1>2, <1>4, <1>6 DEF Modes
  <2>4. ~ swapping' =>
          /\ snapshot'.complete
          /\ snapshot'.at \in 0 .. dev'.sbarrier - 1
          /\ \A x \in Sect(snapshot'.vec, Objects \ snapshot'.part) :
               snapshot'.map[x] \in (0 .. dev'.sbarrier - 1) \cup {Unused}
    BY <1>1, <1>2, <1>14 DEF Modes
  <2> QED BY <1>10, <2>1, <2>2, <2>3, <2>4 DEF Modes
<1>16. Finishing'
  <2>1. swapping' => ~ snapshot'.complete
    BY <1>1 DEF NoFile
  <2>2. step' = "full" => Dumped' = {} /\ convDone'
    BY <1>1, <1>5, <1>7, <1>10
  <2> QED BY <1>4, <1>6, <2>1, <2>2 DEF Finishing
<1>17. Recoverable'
  <2>1. CASE swapping
    <3>1. old' = snapshot /\ ~ snapshot'.complete /\ taken' = taken
      BY <1>1, <2>1 DEF NoFile
    <3>2. old'.complete /\ old'.part = {} =>
            At(old'.data, old'.at) = Tables /\ Found(old, old.data, <<>>)' = taken'
      BY <1>1, <2>1, <3>1, Recovered DEF Found
    <3> QED BY <3>1, <3>2 DEF Recoverable
  <2>2. CASE ~ swapping
    <3>1. snapshot' = snapshot /\ old' = old /\ taken' = taken /\ snapshot.complete
      BY <1>1, <1>2, <2>2 DEF Modes
    <3>2. SnapshotData' = dev'.file
      BY <1>10 DEF SnapshotData
    <3> QED BY <1>14, <2>2, <3>1, <3>2 DEF Recoverable, Found
  <2> QED BY <2>1, <2>2
<1>18. Dumped' # {} => DumpData' = DumpData
  <2> SUFFICES ASSUME Dumped' # {} PROVE DumpData' = DumpData
    OBVIOUS
  <2>1. Dumped # {} /\ incr /\ Dumped # D
    BY <1>5, <1>7
  <2>2. dump # "none"
    BY <1>2, <2>1 DEF Modes
  <2>3. CASE swapping
    <3>1. dump = "snapshot"
      BY <1>1, <1>2, <2>2, <2>3 DEF Modes, TypeInv, InPlace
    <3>2. DumpData = snapshot.data
      BY <1>1, <2>3, <3>1 DEF DumpData, SnapshotData, InPlace
    <3> QED BY <1>1, <2>1, <2>3, <3>2 DEF DumpData
  <2>4. CASE ~ swapping
    <3>1. dump = "old"
      BY <1>2, <2>2, <2>4 DEF Modes, TypeInv, InPlace
    <3> QED BY <1>1, <2>1, <2>4, <3>1 DEF DumpData
  <2> QED BY <2>3, <2>4
<1>19. StoreInv'
  <2> DEFINE U == Sect(vec', Objects)
             W == Sect(vec', Objects \ Dumped')
             H == Hold(vec', val', HeldObjects')
  <2>1. Good(dev', U, W, H, Context)
    BY <1>1, <1>4, <1>8, <1>9 DEF Store
  <2>2. U \ W # {} => Dumped' # {}
    <3>1. Objects \ {} = Objects
      OBVIOUS
    <3> QED BY <3>1
  <2>3. U \subseteq Sector
    BY <2>1 DEF Good, Caching
  <2> HIDE DEF U, W, H
  <2>4. /\ Context'.barrier = dev'.sbarrier /\ Context'.kept = dev'.file
        /\ Context'.cold \subseteq Context.cold
    BY <1>1, <1>2 DEF Context, TypeInv
  <2>5. \A x \in U \ W : Context'.from[x] = Context.from[x]
    BY <1>18, <2>2, <2>3 DEF Context
  <2>6. Good(dev', U, W, H, Context')
    BY <2>1, <2>4, <2>5, OtherContext
  <2>7. Vectors(vec') /\ Sized(vec', val')
    BY <1>1, <1>4 DEF Store
  <2>8. Objects \ Dumped' \subseteq Objects /\ HeldObjects' \subseteq Objects
    BY DEF HeldObjects
  <2>9. Store(dev', vec', Objects \ Dumped', HeldObjects', val', Context')
    BY <2>6, <2>7, <2>8 DEF Store, U, W, H
  <2> QED BY <2>9 DEF StoreInv
<1> QED BY <1>12, <1>15, <1>16, <1>17, <1>19 DEF IInv

-----------------------------------------------------------------------------

\* Device d is c with other indices and another file.
Moved(c, d) ==
  /\ d = [map |-> c.map, slot |-> c.slot, lru |-> c.lru, lfree |-> c.lfree,
          mfree |-> c.mfree, nsectors |-> c.nsectors, sfree |-> d.sfree,
          ssectors |-> d.ssectors, sbarrier |-> d.sbarrier, file |-> d.file]
  /\ d.ssectors \in Nat /\ d.sbarrier \in Nat

\* All that is held has been written: the files may be replaced by others that
\* have the same contents at the indices of the sectors.
LEMMA MovedGood ==
  ASSUME NEW c, NEW U, NEW W, NEW H, NEW p, Good(c, U, W, H, p),
         \A s \in Sector : ~ Dirty(c, s),
         NEW d, Moved(c, d), NEW V, V \subseteq U, Indexing(d, V),
         NEW q, q.barrier = d.sbarrier, q.kept = d.file,
         \A s \in Sector \ V : s \in q.cold => ~ Cached(c, s),
         \A s \in U : At(Source(d, V, q.from, s), Index(c, s))
                        = At(Source(c, W, p.from, s), Index(c, s))
  PROVE  Good(d, U, V, H, q)
<1>1. /\ Caching(c, U) /\ Sectoring(c, U) /\ Held(c, U, W, p.from, H)
  BY DEF Good
<1>2. IsDevice(c) /\ U \subseteq Sector
  BY <1>1 DEF Caching
<1>3. /\ d = [map |-> d.map, slot |-> d.slot, lru |-> d.lru, lfree |-> d.lfree,
              mfree |-> d.mfree, nsectors |-> d.nsectors, sfree |-> d.sfree,
              ssectors |-> d.ssectors, sbarrier |-> d.sbarrier, file |-> d.file]
      /\ d.map = c.map /\ d.slot = c.slot /\ d.lru = c.lru /\ d.lfree = c.lfree
      /\ d.mfree = c.mfree /\ d.nsectors = c.nsectors
      /\ d.ssectors \in Nat /\ d.sbarrier \in Nat
  BY DEF Moved
<1>4. IsDevice(d)
  BY <1>2, <1>3 DEF IsDevice
<1>5. Caching(d, U)
  BY <1>1, <1>3, <1>4 DEF Caching
<1>6. Sectoring(d, U)
  BY <1>1, <1>3, SectoringSame
<1>7. \A s \in Sector : /\ Cached(d, s) <=> Cached(c, s)
                        /\ Dirty(d, s) <=> Dirty(c, s)
                        /\ Index(d, s) = Index(c, s)
  BY <1>3 DEF Cached, Dirty, Index
<1>8. Clean(d, V, q.cold)
  BY <1>7 DEF Clean
<1>9. Guarded(d, q.barrier, q.kept)
  BY DEF Guarded
<1>10. Held(d, U, V, q.from, H)
  <2> SUFFICES ASSUME NEW h \in H
               PROVE  h[1] \in U /\ Right(d, h[1], Source(d, V, q.from, h[1]), h[2])
    BY DEF Held
  <2> DEFINE s == h[1]
             f == Source(c, W, p.from, s)
             g == Source(d, V, q.from, s)
  <2>1. s \in U /\ Right(c, s, f, h[2])
    BY <1>1 DEF Held
  <2>2. s \in Sector
    BY <1>2, <2>1
  <2>3. At(g, Index(c, s)) = At(f, Index(c, s))
    BY <2>1
  <2> HIDE DEF s, f, g
  <2>4. Content(c, s, f) = h[2] /\ At(f, Index(c, s)) = h[2]
    BY <2>1, <2>2 DEF Right
  <2>5. Content(d, s, g) = h[2]
    <3>1. CASE Cached(c, s)
      BY <1>3, <1>7, <2>2, <2>4, <3>1 DEF Content
    <3>2. CASE ~ Cached(c, s)
      BY <1>3, <1>7, <2>2, <2>3, <2>4, <3>2 DEF Content, Index
    <3> QED BY <3>1, <3>2
  <2>6. Right(d, s, g, h[2])
    BY <1>7, <2>2, <2>3, <2>4, <2>5 DEF Right
  <2> QED BY <2>1, <2>6 DEF s, g
<1> QED BY <1>5, <1>6, <1>8, <1>9, <1>10 DEF Good

\* What a snapshot refers to is kept of its file.
LEMMA AtKept ==
  ASSUME NEW data, NEW f, NEW i \in Referred(f)
  PROVE  At(Kept(data, f), i) = At(data, i)
BY DEF At, Kept

\* What a snapshot refers to, apart from its tables.
LEMMA ReferredIs ==
  ASSUME NEW f
  PROVE  /\ f.at \in Referred(f)
         /\ \A s \in Sect(f.vec, Objects \ f.part) : f.map[s] \in Referred(f)
BY DEF Referred, Sect

\* What the objects in a secondary snapshot need is kept of it.
LEMMA AtSecondary ==
  ASSUME NEW s \in Sect(vec, Dumped)
  PROVE  At(Secondary, Index(dev, s)) = At(old.data, Index(dev, s))
<1>1. Secondary = [i \in {Index(dev, t) : t \in Sect(vec, Dumped)} \cap DOMAIN old.data
                     |-> old.data[i]]
  BY DEF Secondary, Sect
<1> QED BY <1>1 DEF At

\* A snapshot as Finished, but for its data.
Finishes(f) ==
  /\ f = [data |-> f.data, complete |-> TRUE, at |-> dev.ssectors,
          map |-> SavedMap(dev), nsectors |-> dev.nsectors,
          mfree |-> dev.mfree, vec |-> vec, part |-> Dumped]

\* A restart is possible from the snapshot that is finished.
LEMMA FinishedSound ==
  ASSUME IInv, NEW f, Finishes(f)
  PROVE  IsFile(f) /\ Sound(f)
<1>1. /\ Vectors(vec)
      /\ Good(dev, Sect(vec, Objects), Sect(vec, Objects \ Dumped),
              Hold(vec, val, HeldObjects), Context)
  BY StoreIs
<1>2. /\ IsDevice(dev) /\ Sect(vec, Objects) \subseteq Sector
      /\ Sectoring(dev, Sect(vec, Objects))
  BY <1>1 DEF Good, Caching
<1>3. /\ f = [data |-> f.data, complete |-> f.complete, at |-> f.at, map |-> f.map,
              nsectors |-> f.nsectors, mfree |-> f.mfree, vec |-> f.vec, part |-> f.part]
      /\ f.complete = TRUE /\ f.map = SavedMap(dev) /\ f.nsectors = dev.nsectors
      /\ f.mfree = dev.mfree /\ f.vec = vec /\ f.part = Dumped
  BY DEF Finishes
<1>4. f.map \in [Sector -> IndexType]
  <2>1. \A s \in Sector : Index(dev, s) \in IndexType
    BY <1>2, IndexTyped
  <2> QED BY <1>3, <2>1 DEF SavedMap
<1>5. Sectoring(f, Sect(vec, Objects))
  BY <1>2, <1>3, SectoringSame
<1>6. Sound(f)
  BY <1>1, <1>2, <1>3, <1>4, <1>5 DEF Sound, Dumped, IsDevice
<1> QED BY <1>3, <1>6 DEF IsFile

\* What was held is found in the snapshot.
LEMMA FinishedFound ==
  ASSUME IInv, step # "run", NEW f, Finishes(f), NEW data, NEW g,
         \A s \in Sect(vec, Objects \ Dumped) :
            At(data, Index(dev, s)) = At(dev.file, Index(dev, s)),
         \A s \in Sect(vec, Dumped) :
            At(g, Index(dev, s)) = At(DumpData, Index(dev, s))
  PROVE  Found(f, data, g) = val
<1>1. /\ Store(dev, vec, Objects \ Dumped, HeldObjects, val, Context)
      /\ TypeInv /\ Modes /\ Finishing /\ Vectors(vec) /\ Sized(vec, val)
  BY StoreIs
<1>2. f.map = SavedMap(dev) /\ f.vec = vec /\ f.part = Dumped
  BY DEF Finishes
<1>3. ASSUME NEW o \in Objects, NEW i \in 1 .. Len(vec[o])
      PROVE  At(IF o \in Dumped THEN g ELSE data, SavedMap(dev)[vec[o][i]]) = val[o][i]
  <2> DEFINE s == vec[o][i]
  <2>1. o \in HeldObjects
    <3>1. where[o] # "none"
      <4>1. Len(<<>>) = 0
        OBVIOUS
      <4> QED BY <1>1, <1>3, <4>1 DEF Modes
    <3> QED BY <1>1, <3>1 DEF HeldObjects, Finishing, TypeInv
  <2>2. /\ s \in Sector /\ s \in ToSet(vec[o])
        /\ Right(dev, s, IF o \in Objects \ Dumped THEN dev.file ELSE Context.from[s], val[o][i])
    BY <1>1, <2>1, HeldIs
  <2> HIDE DEF s
  <2>3. At(IF o \in Dumped THEN DumpData ELSE dev.file, Index(dev, s)) = val[o][i]
    <3>1. ~ Dirty(dev, s)
      BY <1>1, <2>2 DEF Finishing
    <3>2. Context.from[s] = DumpData
      BY <2>2 DEF Context
    <3> QED BY <2>2, <3>1, <3>2 DEF Right
  <2>4. SavedMap(dev)[s] = Index(dev, s)
    BY <2>2 DEF SavedMap
  <2>5. CASE o \in Dumped
    <3>1. s \in Sect(vec, Dumped)
      BY <2>2, <2>5, SectIs
    <3> QED BY <2>3, <2>4, <2>5, <3>1 DEF s
  <2>6. CASE o \notin Dumped
    <3>1. s \in Sect(vec, Objects \ Dumped)
      BY <2>2, <2>6, SectIs
    <3> QED BY <2>3, <2>4, <2>6, <3>1 DEF s
  <2> QED BY <2>5, <2>6
<1>4. \A o \in Objects : DOMAIN vec[o] = 1 .. Len(vec[o])
  BY <1>1, DoneIs DEF Vectors
<1>5. \A o \in Objects : val[o] = [i \in 1 .. Len(vec[o]) |-> val[o][i]]
  BY <1>1 DEF Sized
<1>6. ASSUME NEW o \in Objects
      PROVE  val[o] = [i \in DOMAIN f.vec[o] |->
                         At(IF o \in f.part THEN g ELSE data, f.map[f.vec[o][i]])]
  <2>1. [i \in DOMAIN f.vec[o] |-> At(IF o \in f.part THEN g ELSE data, f.map[f.vec[o][i]])]
        = [i \in 1 .. Len(vec[o]) |-> val[o][i]]
    BY <1>2, <1>3, <1>4
  <2> QED BY <1>5, <2>1
<1>7. val = [o \in Objects |-> val[o]]
  BY <1>1 DEF TypeInv
<1>8. Found(f, data, g) = [o \in Objects |-> val[o]]
  BY <1>6, Zenon DEF Found
<1> QED BY <1>7, <1>8

\* What Finish says, whatever the kind of snapshot.
LEMMA FinishIs ==
  ASSUME IInv, Finish
  PROVE  /\ step # "run" /\ step' = "run" /\ taken' = val
         /\ convDone' = convDone /\ vec' = vec /\ val' = val
         /\ old' = [NoFile EXCEPT !.data = IF step = "full" THEN <<>> ELSE Secondary]
         /\ IsFile(old') /\ ~ old'.complete /\ old'.data = IF step = "full" THEN <<>> ELSE Secondary
         /\ step # "incremental" => step = "full"
<1>1. TypeInv
  BY StoreIs
<1>2. /\ step # "run" /\ step' = "run" /\ taken' = val
      /\ convDone' = convDone /\ vec' = vec /\ val' = val
      /\ old' = [NoFile EXCEPT !.data = IF step = "full" THEN <<>> ELSE Secondary]
  BY DEF Finish
<1> DEFINE x == IF step = "full" THEN <<>> ELSE Secondary
<1>3. old' = [NoFile EXCEPT !.data = x]
  BY <1>2
<1> HIDE DEF x
<1>4. IsFile(old') /\ ~ old'.complete /\ old'.data = x
  BY <1>3 DEF IsFile, NoFile
<1> QED BY <1>1, <1>2, <1>4 DEF TypeInv, x

\* Finish of an incremental snapshot keeps the invariant: what was held is in
\* the swap file below the new barrier, or in the secondary snapshot.
LEMMA IncrementalGood ==
  ASSUME IInv, Finish, step = "incremental"
  PROVE  IInv'
<1> DEFINE U == Sect(vec, Objects)
           W == Sect(vec, Objects \ Dumped)
           H == Hold(vec, val, HeldObjects)
           f == Finished
           x == dev.ssectors
<1>1. /\ snapshot' = f /\ dev' = Barrier(f) /\ swapping' = FALSE
      /\ dump' = dump /\ where' = where
  BY DEF Finish
<1>2. /\ step' = "run" /\ taken' = val
      /\ convDone' = convDone /\ vec' = vec /\ val' = val
      /\ IsFile(old') /\ old'.data = Secondary
  BY FinishIs
<1>3. /\ Store(dev, vec, Objects \ Dumped, HeldObjects, val, Context)
      /\ TypeInv /\ Modes /\ Finishing /\ Vectors(vec) /\ Sized(vec, val)
      /\ Good(dev, U, W, H, Context)
  BY StoreIs
<1>4. Finishes(f) /\ f.at = x /\ f.map = SavedMap(dev) /\ f.vec = vec /\ f.part = Dumped /\ f.complete
  BY DEF Finishes, Finished
<1>5. IsFile(f) /\ Sound(f)
  BY <1>4, FinishedSound
<1>6. /\ Caching(dev, U) /\ Indexing(dev, W) /\ IsDevice(dev) /\ W \subseteq U /\ U \subseteq Sector
      /\ Clean(dev, W, Context.cold)
  BY <1>3 DEF Good, Caching
<1>7. x \in Nat /\ x + 1 \in Nat
  BY <1>6 DEF IsDevice
<1>8. /\ dev'.ssectors = x + 1 /\ dev'.sbarrier = x + 1 /\ dev'.sfree = <<>>
      /\ dev'.file = Kept(dev.file, f)
      /\ Moved(dev, dev')
  <2>1. dev = [map |-> dev.map, slot |-> dev.slot, lru |-> dev.lru, lfree |-> dev.lfree,
               mfree |-> dev.mfree, nsectors |-> dev.nsectors, sfree |-> dev.sfree,
               ssectors |-> dev.ssectors, sbarrier |-> dev.sbarrier, file |-> dev.file]
    BY <1>6 DEF IsDevice
  <2>2. dev' = [dev EXCEPT !.ssectors = x + 1, !.sbarrier = x + 1,
                           !.sfree = <<>>, !.file = Kept(dev.file, f)]
    BY <1>1, Zenon DEF Barrier
  <2> HIDE DEF x, f
  <2>3. dev' = [map |-> dev.map, slot |-> dev.slot, lru |-> dev.lru, lfree |-> dev.lfree,
                mfree |-> dev.mfree, nsectors |-> dev.nsectors, sfree |-> <<>>,
                ssectors |-> x + 1, sbarrier |-> x + 1, file |-> Kept(dev.file, f)]
    BY <2>1, <2>2
  <2> QED BY <1>7, <2>3 DEF Moved
<1> HIDE DEF U, W, H, f, x
<1>9. \A s \in W : /\ s \in Sector /\ SavedMap(dev)[s] = Index(dev, s)
                   /\ Index(dev, s) \in 0 .. x - 1 \/ Index(dev, s) = Unused
  <2> TAKE s \in W
  <2>1. s \in Sector /\ Index(dev, s) \in IndexType
    BY <1>6, IndexTyped
  <2>2. Index(dev, s) # Unused => Index(dev, s) < x
    BY <1>6 DEF Indexing, x
  <2> QED BY <1>7, <2>1, <2>2 DEF SavedMap, IndexType
<1>10. Indexing(dev', W)
  <2>1. \A s \in W : Index(dev', s) = Index(dev, s)
    BY <1>8, <1>9 DEF Moved, Index, Cached
  <2>2. Lists(<<>>, {}) /\ ToSet(<<>>) = {} /\ <<>> \in Seq(Nat)
    BY ListsNone, ListsIs
  <2>3. \A s \in W : Index(dev', s) # Unused => Index(dev', s) < dev'.ssectors
    <3> TAKE s \in W
    <3>1. Index(dev, s) \in 0 .. x - 1 \/ Index(dev, s) = Unused
      BY <1>9
    <3> QED BY <1>7, <1>8, <2>1, <3>1
  <2>4. \A s, t \in W : Index(dev', s) # Unused /\ Index(dev', s) = Index(dev', t) => s = t
    BY <1>6, <2>1 DEF Indexing
  <2>5. \A i \in dev'.sbarrier .. dev'.ssectors - 1 : FALSE
    BY <1>7, <1>8
  <2>6. W \subseteq Sector /\ dev'.sbarrier <= dev'.ssectors
    BY <1>6, <1>7, <1>8
  <2> QED BY <1>8, <2>2, <2>3, <2>4, <2>5, <2>6 DEF Indexing
<1>11. \A s \in W : At(dev'.file, Index(dev, s)) = At(dev.file, Index(dev, s))
  <2> TAKE s \in W
  <2>1. f.map[s] \in Referred(f) /\ f.map[s] = Index(dev, s)
    <3>1. s \in Sect(f.vec, Objects \ f.part)
      BY <1>4 DEF W
    <3> QED BY <1>4, <1>9, <3>1, ReferredIs
  <2> QED BY <1>8, <2>1, AtKept
<1>12. At(dev'.file, x) = Tables
  <2>1. x \in Referred(f)
    BY <1>4, ReferredIs
  <2>2. At(dev.file, x) = Tables
    BY <1>3 DEF Finishing, x
  <2> QED BY <1>8, <2>1, <2>2, AtKept
<1>13. InPlace /\ InPlace' /\ (Dumped # {} => DumpData = old.data /\ DumpData' = Secondary)
  <2>1. InPlace /\ InPlace'
    BY <1>1 DEF InPlace
  <2>2. Dumped # {} => dump = "old"
    BY <1>3, <2>1 DEF Modes, TypeInv
  <2> QED BY <1>1, <1>2, <2>1, <2>2 DEF DumpData
<1>14. \A s \in Sect(vec, Dumped) : At(Secondary, Index(dev, s)) = At(DumpData, Index(dev, s))
  <2>1. Dumped = {} => Sect(vec, Dumped) = {}
    BY DEF Sect
  <2> QED BY <1>13, <2>1, AtSecondary
<1>15. Found(f, dev'.file, Secondary) = val
  <2> DEFINE d == dev'.file
             g == Secondary
  <2>1. /\ \A s \in W : At(d, Index(dev, s)) = At(dev.file, Index(dev, s))
        /\ \A s \in Sect(vec, Dumped) : At(g, Index(dev, s)) = At(DumpData, Index(dev, s))
        /\ Finishes(f)
    BY <1>4, <1>11, <1>14
  <2> HIDE DEF d, g
  <2>2. Found(f, d, g) = val
    BY <2>1, FinishedFound DEF W
  <2> QED BY <2>2 DEF d, g
<1>16. TypeInv'
  BY <1>1, <1>2, <1>3, <1>5 DEF TypeInv
<1>17. Dumped' = Dumped /\ HeldObjects' = HeldObjects
  BY <1>1 DEF Dumped, HeldObjects
<1>18. Modes'
  <2>1. snapshot'.at \in 0 .. dev'.sbarrier - 1
    BY <1>1, <1>4, <1>7, <1>8
  <2>2. \A s \in Sect(snapshot'.vec, Objects \ snapshot'.part) :
           snapshot'.map[s] \in (0 .. dev'.sbarrier - 1) \cup {Unused}
    <3> TAKE s \in Sect(snapshot'.vec, Objects \ snapshot'.part)
    <3>1. s \in W
      BY <1>1, <1>4 DEF W
    <3>2. snapshot'.map[s] \in 0 .. x - 1 \/ snapshot'.map[s] = Unused
      BY <1>1, <1>4, <1>9, <3>1
    <3> QED BY <1>7, <1>8, <3>2
  <2>3. snapshot'.complete
    BY <1>1, <1>4
  <2> QED BY <1>1, <1>2, <1>3, <1>13, <1>17, <2>1, <2>2, <2>3 DEF Modes
<1>19. Finishing'
  BY <1>2 DEF Finishing
<1>20. Recoverable'
  <2>1. SnapshotData' = dev'.file
    BY <1>13 DEF SnapshotData
  <2>2. Found(snapshot, SnapshotData, old.data)' = taken'
    BY <1>1, <1>2, <1>15, <2>1 DEF Found
  <2> QED BY <1>1, <1>2, <1>4, <1>12, <2>1, <2>2 DEF Recoverable
<1>21. StoreInv'
  <2>1. /\ Context'.barrier = dev'.sbarrier /\ Context'.kept = dev'.file
        /\ Context'.cold = Context.cold
    BY <1>2 DEF Context
  <2>2. \A s \in U : At(Source(dev', W, Context'.from, s), Index(dev, s))
                       = At(Source(dev, W, Context.from, s), Index(dev, s))
    <3> TAKE s \in U
    <3>1. CASE s \in W
      BY <1>11, <3>1 DEF Source
    <3>2. CASE s \notin W
      <4>1. s \in Sector
        BY <1>6
      <4>2. s \in Sect(vec, Dumped)
        BY <3>2, SectIs DEF U, W
      <4>3. Dumped # {}
        BY <4>2 DEF Sect
      <4>4. Source(dev', W, Context'.from, s) = Secondary /\ Source(dev, W, Context.from, s) = DumpData
        BY <1>13, <3>2, <4>1, <4>3 DEF Source, Context
      <4> QED BY <1>14, <4>2, <4>4
    <3> QED BY <3>1, <3>2
  <2>3. \A s \in Sector \ W : s \in Context'.cold => ~ Cached(dev, s)
    BY <1>6, <2>1 DEF Clean
  <2>4. \A s \in Sector : ~ Dirty(dev, s)
    BY <1>3 DEF Finishing
  <2>5. Good(dev', U, W, H, Context')
    BY <1>3, <1>6, <1>8, <1>10, <2>1, <2>2, <2>3, <2>4, MovedGood
  <2>6. Objects \ Dumped \subseteq Objects /\ HeldObjects \subseteq Objects
    BY DEF HeldObjects
  <2>7. Store(dev', vec, Objects \ Dumped, HeldObjects, val, Context')
    BY <1>3, <2>5, <2>6 DEF Store, U, W, H
  <2> QED BY <1>2, <1>17, <2>7 DEF StoreInv
<1> QED BY <1>16, <1>18, <1>19, <1>20, <1>21 DEF IInv

\* Finish of a full snapshot keeps the invariant: what was held is in the file
\* that is the snapshot now, and is found there by the sector map.
LEMMA FullGood ==
  ASSUME IInv, Finish, step = "full"
  PROVE  IInv'
<1> DEFINE U == Sect(vec, Objects)
           W == Sect(vec, Objects \ Dumped)
           V == Sect(vec, Objects \ Dumped')
           H == Hold(vec, val, HeldObjects)
           f == snapshot'
           x == dev.ssectors
<1>1. /\ f = [Finished EXCEPT !.data = Kept(dev.file, Finished)]
      /\ dev' = NewSwap /\ swapping' = TRUE
      /\ dump' = "snapshot"
      /\ where' = [o \in Objects |-> IF where[o] = "none" THEN "none" ELSE "dump"]
  BY DEF Finish
<1>2. /\ step' = "run" /\ taken' = val
      /\ convDone' = convDone /\ vec' = vec /\ val' = val
      /\ IsFile(old') /\ old'.data = <<>>
  BY FinishIs
<1>3. /\ Store(dev, vec, Objects \ Dumped, HeldObjects, val, Context)
      /\ TypeInv /\ Modes /\ Finishing /\ Vectors(vec) /\ Sized(vec, val)
      /\ Good(dev, U, W, H, Context)
  BY StoreIs
<1>4. Dumped = {} /\ convDone /\ \A o \in Objects : where[o] # "memory"
  BY <1>3 DEF Finishing
<1>5. /\ Finishes(f) /\ f.at = x /\ f.map = SavedMap(dev) /\ f.vec = vec
      /\ f.part = Dumped /\ f.complete /\ f.data = Kept(dev.file, f)
  <2> DEFINE k == Kept(dev.file, Finished)
  <2>1. f = [data |-> k, complete |-> TRUE, at |-> dev.ssectors,
             map |-> SavedMap(dev), nsectors |-> dev.nsectors,
             mfree |-> dev.mfree, vec |-> vec, part |-> Dumped]
    <3>1. f = [Finished EXCEPT !.data = k]
      BY <1>1
    <3> HIDE DEF k
    <3> QED BY <3>1 DEF Finished
  <2>2. k = Kept(dev.file, f)
    <3>1. Referred(Finished) = Referred(f)
      <4>1. f.at = Finished.at /\ f.map = Finished.map /\ f.vec = Finished.vec /\ f.part = Finished.part
        <5> HIDE DEF k
        <5> QED BY <2>1 DEF Finished
      <4> HIDE DEF f
      <4> QED BY <4>1 DEF Referred
    <3> QED BY <3>1, Zenon DEF Kept
  <2> HIDE DEF k
  <2> QED BY <2>1, <2>2 DEF Finishes
<1>6. IsFile(f) /\ Sound(f)
  BY <1>5, FinishedSound
<1>7. /\ Caching(dev, U) /\ IsDevice(dev) /\ W \subseteq U /\ U \subseteq Sector
  BY <1>3 DEF Good, Caching
<1>8. /\ dev'.ssectors = 0 /\ dev'.sbarrier = 0 /\ dev'.sfree = <<>> /\ dev'.file = <<>>
      /\ Moved(dev, dev')
  <2>1. dev = [map |-> dev.map, slot |-> dev.slot, lru |-> dev.lru, lfree |-> dev.lfree,
               mfree |-> dev.mfree, nsectors |-> dev.nsectors, sfree |-> dev.sfree,
               ssectors |-> dev.ssectors, sbarrier |-> dev.sbarrier, file |-> dev.file]
    BY <1>7 DEF IsDevice
  <2>2. dev' = [dev EXCEPT !.ssectors = 0, !.sbarrier = 0, !.sfree = <<>>, !.file = <<>>]
    BY <1>1, Zenon DEF NewSwap
  <2>3. dev' = [map |-> dev.map, slot |-> dev.slot, lru |-> dev.lru, lfree |-> dev.lfree,
                mfree |-> dev.mfree, nsectors |-> dev.nsectors, sfree |-> <<>>,
                ssectors |-> 0, sbarrier |-> 0, file |-> <<>>]
    BY <2>1, <2>2
  <2> QED BY <2>3 DEF Moved
<1>9. /\ where' \in [Objects -> {"none", "memory", "swap", "dump"}]
      /\ Dumped' = HeldObjects /\ HeldObjects' = HeldObjects
      /\ \A o \in Objects : where'[o] = "none" => where[o] = "none"
  BY <1>1, <1>3, <1>4 DEF TypeInv, Dumped, HeldObjects
<1>10. V = {}
  <2>1. \A o \in Objects \ Dumped' : vec[o] = <<>>
    <3> TAKE o \in Objects \ Dumped'
    <3>1. where[o] = "none"
      BY <1>3, <1>4, <1>9 DEF HeldObjects, TypeInv
    <3> QED BY <1>3, <3>1 DEF Modes
  <2>2. ToSet(<<>>) = {}
    BY ListsNone, ListsIs
  <2> QED BY <2>1, <2>2 DEF Sect
<1>11. W = U
  <2>1. Objects \ {} = Objects
    OBVIOUS
  <2> QED BY <1>4, <2>1
<1> HIDE DEF U, W, V, H, f, x
<1>12. Indexing(dev', V)
  <2>1. Lists(<<>>, {}) /\ ToSet(<<>>) = {} /\ <<>> \in Seq(Nat)
    BY ListsNone, ListsIs
  <2>2. \A i \in dev'.sbarrier .. dev'.ssectors - 1 : FALSE
    BY <1>8
  <2>3. V \subseteq Sector /\ dev'.sbarrier <= dev'.ssectors
    BY <1>8, <1>10
  <2> QED BY <1>8, <1>10, <2>1, <2>2, <2>3 DEF Indexing
<1>13. \A s \in U : At(f.data, Index(dev, s)) = At(dev.file, Index(dev, s))
  <2> TAKE s \in U
  <2>1. f.map[s] \in Referred(f) /\ f.map[s] = Index(dev, s)
    <3>1. s \in Sect(f.vec, Objects \ f.part)
      BY <1>5, <1>11 DEF W
    <3> QED BY <1>5, <1>7, <3>1, ReferredIs DEF SavedMap
  <2> QED BY <1>5, <2>1, AtKept
<1>14. At(f.data, x) = Tables
  <2>1. x \in Referred(f)
    BY <1>5, ReferredIs
  <2>2. At(dev.file, x) = Tables
    BY <1>3 DEF Finishing, x
  <2> QED BY <1>5, <2>1, <2>2, AtKept
<1>15. Found(f, f.data, old'.data) = val
  <2> DEFINE d == f.data
             g == old'.data
  <2>1. Sect(vec, Dumped) = {}
    BY <1>4 DEF Sect
  <2>2. /\ \A s \in Sect(vec, Objects \ Dumped) : At(d, Index(dev, s)) = At(dev.file, Index(dev, s))
        /\ \A s \in Sect(vec, Dumped) : At(g, Index(dev, s)) = At(DumpData, Index(dev, s))
        /\ Finishes(f) /\ step # "run"
    BY <1>5, <1>11, <1>13, <2>1 DEF W
  <2> HIDE DEF d, g
  <2>3. Found(f, d, g) = val
    BY <2>2, FinishedFound
  <2> QED BY <2>3 DEF d, g
<1>16. TypeInv'
  BY <1>1, <1>2, <1>3, <1>6, <1>9 DEF TypeInv, f
<1>17. ~ InPlace'
  BY <1>1, <1>2 DEF InPlace
<1>18. Modes'
  BY <1>1, <1>2, <1>3, <1>9, <1>17 DEF Modes
<1>19. Finishing'
  BY <1>2 DEF Finishing
<1>20. Recoverable'
  <2>1. SnapshotData' = f.data
    BY <1>17 DEF SnapshotData, f
  <2>2. Found(snapshot, SnapshotData, old.data)' = taken'
    BY <1>2, <1>15, <2>1 DEF Found, f
  <2> QED BY <1>2, <1>5, <1>14, <2>1, <2>2 DEF Recoverable, f
<1>21. StoreInv'
  <2>0. DumpData' = f.data
    BY <1>1, <1>17 DEF DumpData, SnapshotData, f
  <2>1. /\ Context'.barrier = dev'.sbarrier /\ Context'.kept = dev'.file
        /\ Context'.cold = {}
    BY <1>2, <1>4 DEF Context
  <2>2. \A s \in U : At(Source(dev', V, Context'.from, s), Index(dev, s))
                       = At(Source(dev, W, Context.from, s), Index(dev, s))
    <3> TAKE s \in U
    <3>1. Source(dev', V, Context'.from, s) = f.data
      BY <1>7, <1>10, <2>0 DEF Source, Context
    <3>2. Source(dev, W, Context.from, s) = dev.file
      BY <1>11 DEF Source
    <3> QED BY <1>13, <3>1, <3>2
  <2>3. \A s \in Sector \ V : s \in Context'.cold => ~ Cached(dev, s)
    BY <2>1
  <2>4. \A s \in Sector : ~ Dirty(dev, s)
    BY <1>3 DEF Finishing
  <2>5. V \subseteq U
    BY <1>10
  <2>6. Good(dev', U, V, H, Context')
    BY <1>3, <1>8, <1>12, <2>1, <2>2, <2>3, <2>4, <2>5, MovedGood
  <2>7. Objects \ Dumped' \subseteq Objects /\ HeldObjects \subseteq Objects
    BY DEF HeldObjects
  <2>8. Store(dev', vec, Objects \ Dumped', HeldObjects, val, Context')
    BY <1>3, <2>6, <2>7 DEF Store, U, V, H
  <2> QED BY <1>2, <1>9, <2>8 DEF StoreInv
<1> QED BY <1>16, <1>18, <1>19, <1>20, <1>21 DEF IInv

\* Finish keeps the invariant.
LEMMA FinishGood ==
  ASSUME IInv, Finish
  PROVE  IInv'
BY FinishIs, IncrementalGood, FullGood

-----------------------------------------------------------------------------

\* A device with an empty cache and no swap file yet.
NewDevice(c) ==
  /\ c = [map |-> c.map, slot |-> [k \in Slot |-> FreeSlot], lru |-> <<>>,
          lfree |-> [k \in 1 .. Slots |-> k - 1], mfree |-> c.mfree,
          nsectors |-> c.nsectors, sfree |-> <<>>, ssectors |-> 0,
          sbarrier |-> 0, file |-> <<>>]
  /\ c.map \in [Sector -> IndexType] /\ c.nsectors \in Nat

\* An empty cache is right for any sector map: all that is held is in files.
LEMMA NewDeviceGood ==
  ASSUME NEW c, NewDevice(c), NEW U, U \subseteq Sector, Sectoring(c, U),
         NEW W, W = {}, NEW p, p.barrier = 0, p.kept = <<>>,
         NEW H, \A h \in H : h[1] \in U /\ At(p.from[h[1]], c.map[h[1]]) = h[2]
  PROVE  Good(c, U, W, H, p)
<1>1. /\ c = [map |-> c.map, slot |-> c.slot, lru |-> c.lru, lfree |-> c.lfree,
              mfree |-> c.mfree, nsectors |-> c.nsectors, sfree |-> c.sfree,
              ssectors |-> c.ssectors, sbarrier |-> c.sbarrier, file |-> c.file]
      /\ c.slot = [k \in Slot |-> FreeSlot] /\ c.lru = <<>>
      /\ c.lfree = [k \in 1 .. Slots |-> k - 1] /\ c.sfree = <<>>
      /\ c.ssectors = 0 /\ c.sbarrier = 0 /\ c.file = <<>>
      /\ c.map \in [Sector -> IndexType] /\ c.nsectors \in Nat
  BY DEF NewDevice
<1>2. IsDevice(c)
  <2>1. IsSlot(FreeSlot)
    BY DEF IsSlot, FreeSlot, IndexType
  <2>2. c.slot = [k \in Slot |-> c.slot[k]] /\ \A k \in Slot : c.slot[k] = FreeSlot
    BY <1>1
  <2> QED BY <1>1, <2>1, <2>2 DEF IsDevice
<1>3. Lists(<<>>, {}) /\ ToSet(<<>>) = {} /\ <<>> \in Seq(Nat)
  BY ListsNone, ListsIs
<1>4. Lists(c.lfree, Slot) /\ ToSet(c.lfree) = Slot
  <2>1. Slots \in Nat
    BY SwapAssumption
  <2>2. Lists([i \in 1 .. Slots |-> 0 + i - 1], 0 .. 0 + Slots - 1)
    BY <2>1, ListsCounted
  <2>3. [i \in 1 .. Slots |-> 0 + i - 1] = c.lfree
    BY <1>1, <2>1
  <2>4. 0 .. 0 + Slots - 1 = Slot
    BY <2>1 DEF Slot
  <2> QED BY <2>2, <2>3, <2>4, ListsIs
<1>5. Caching(c, U)
  <2>1. \A k \in Slot : c.slot[k].sec = Unused
    BY <1>1 DEF FreeSlot
  <2> QED BY <1>1, <1>2, <1>3, <1>4, <2>1 DEF Caching
<1>6. \A s \in Sector : /\ ~ Cached(c, s) /\ ~ Dirty(c, s) /\ Index(c, s) = c.map[s]
  <2> TAKE s \in Sector
  <2>1. ~ Cached(c, s)
    BY <1>1, SectorType DEF Cached, FreeSlot
  <2> QED BY <2>1 DEF Dirty, Index
<1>7. Indexing(c, W)
  <2>1. \A i \in c.sbarrier .. c.ssectors - 1 : FALSE
    BY <1>1
  <2>2. /\ W \subseteq Sector /\ c.sbarrier <= c.ssectors
        /\ c.sfree \in Seq(Nat) /\ Lists(c.sfree, ToSet(c.sfree)) /\ ToSet(c.sfree) = {}
    <3>1. W \subseteq Sector
      OBVIOUS
    <3>2. c.sbarrier <= c.ssectors
      BY <1>1
    <3>3. c.sfree = <<>>
      BY <1>1
    <3>4. c.sfree \in Seq(Nat) /\ ToSet(c.sfree) = {}
      BY <1>3, <3>3, Zenon
    <3>5. Lists(c.sfree, ToSet(c.sfree))
      BY <1>3, <3>3, <3>4, Zenon
    <3> QED BY <3>1, <3>2, <3>4, <3>5
  <2> QED BY <2>1, <2>2 DEF Indexing
<1>8. Clean(c, W, p.cold)
  BY <1>6 DEF Clean
<1>9. Guarded(c, p.barrier, p.kept)
  BY <1>1 DEF Guarded
<1>10. Held(c, U, W, p.from, H)
  <2> SUFFICES ASSUME NEW h \in H
               PROVE  h[1] \in U /\ Right(c, h[1], Source(c, W, p.from, h[1]), h[2])
    BY DEF Held
  <2>1. h[1] \in Sector /\ Source(c, W, p.from, h[1]) = p.from[h[1]]
    BY DEF Source
  <2> QED BY <1>6, <2>1 DEF Right, Content
<1> QED BY <1>5, <1>7, <1>8, <1>9, <1>10 DEF Good

\* The invariant holds after a cold start.
LEMMA InitGood ==
  ASSUME Init
  PROVE  IInv
<1>1. /\ dev = Empty /\ swapping = TRUE /\ dump = "none" /\ convDone = TRUE
      /\ snapshot = NoFile /\ old = NoFile
      /\ where = [o \in Objects |-> "none"] /\ vec = [o \in Objects |-> <<>>]
      /\ val = [o \in Objects |-> <<>>] /\ step = "run"
  BY DEF Init
<1>2. IsFile(NoFile) /\ ~ NoFile.complete
  BY DEF IsFile, NoFile
<1>3. TypeInv
  BY <1>1, <1>2 DEF TypeInv
<1>4. Dumped = {} /\ HeldObjects = {} /\ ~ InPlace
  BY <1>1 DEF Dumped, HeldObjects, InPlace
<1>5. Modes
  BY <1>1, <1>4 DEF Modes
<1>6. Finishing
  BY <1>1 DEF Finishing
<1>7. Recoverable
  BY <1>1, <1>2 DEF Recoverable
<1>8. Lists(<<>>, {}) /\ ToSet(<<>>) = {} /\ Len(<<>>) = 0
  BY ListsNone, ListsIs
<1>9. Vectors(vec)
  BY <1>1, <1>8 DEF Vectors
<1>10. Sized(vec, val)
  BY <1>1, <1>8 DEF Sized
<1>11. Sect(vec, Objects) = {} /\ Sect(vec, Objects \ Dumped) = {}
       /\ Hold(vec, val, HeldObjects) = {}
  BY <1>1, <1>4, <1>8 DEF Sect, Hold
<1>12. Good(dev, Sect(vec, Objects), Sect(vec, Objects \ Dumped), Hold(vec, val, HeldObjects), Context)
  <2>1. NewDevice(dev) /\ dev.mfree = <<>> /\ dev.nsectors = 0 /\ dev.sbarrier = 0 /\ dev.file = <<>>
    <3>1. [s \in Sector |-> Unused] \in [Sector -> IndexType]
      BY DEF IndexType
    <3> QED BY <1>1, <3>1 DEF NewDevice, Empty
  <2>2. Sectoring(dev, {})
    <3>1. 0 .. 0 - 1 = {} /\ 0 <= Sectors
      BY SwapAssumption
    <3> QED BY <1>8, <2>1, <3>1 DEF Sectoring
  <2>3. Context.barrier = 0 /\ Context.kept = <<>>
    BY <2>1 DEF Context
  <2> DEFINE E == {}
             q == Context
  <2>4. /\ E \subseteq Sector /\ E = {} /\ Sectoring(dev, E)
        /\ \A h \in E : h[1] \in E /\ At(q.from[h[1]], dev.map[h[1]]) = h[2]
        /\ q.barrier = 0 /\ q.kept = <<>>
    BY <2>2, <2>3
  <2> HIDE DEF E, q
  <2>5. Good(dev, E, E, E, q)
    BY <2>1, <2>4, NewDeviceGood
  <2> QED BY <1>11, <2>5 DEF E, q
<1>13. StoreInv
  BY <1>9, <1>10, <1>12 DEF StoreInv, Store, HeldObjects
<1> QED BY <1>3, <1>5, <1>6, <1>7, <1>13 DEF IInv

-----------------------------------------------------------------------------

\* The device that a process starts with, from snapshot f.
DeviceOf(f) == [Empty EXCEPT !.map = f.map, !.nsectors = f.nsectors, !.mfree = f.mfree]

\* Where the content of sectors is then: in the secondary snapshot g or in f.
Origin(f, g) ==
  [from |-> [s \in Sector |-> IF s \in Sect(f.vec, f.part) THEN g.data ELSE f.data],
   barrier |-> 0, kept |-> <<>>, cold |-> Sector]

\* The objects that do not exist in f.
None(f) == {o \in Objects : f.vec[o] = <<>>}

\* Objects without sectors have none.
LEMMA SectNone ==
  ASSUME NEW vs, NEW S, \A o \in S : vs[o] = <<>>
  PROVE  Sect(vs, S) = {}
<1>1. ToSet(<<>>) = {}
  BY ListsNone, ListsIs
<1> QED BY <1>1 DEF Sect

\* The objects of a snapshot are found through its sector map.
LEMMA StartedGood ==
  ASSUME NEW f, Sound(f), NEW g, NEW vl, vl = Found(f, f.data, g.data)
  PROVE  Store(DeviceOf(f), f.vec, None(f) \ f.part, Objects, vl, Origin(f, g))
<1> DEFINE c == DeviceOf(f)
           U == Sect(f.vec, Objects)
           B == None(f) \ f.part
           W == Sect(f.vec, B)
           H == Hold(f.vec, vl, Objects)
           p == Origin(f, g)
<1>1. /\ Vectors(f.vec) /\ f.part \subseteq Objects
      /\ f.map \in [Sector -> IndexType] /\ f.nsectors \in Nat
      /\ U \subseteq Sector /\ Sectoring(f, U)
  BY DEF Sound
<1>2. NewDevice(c) /\ c.map = f.map /\ c.nsectors = f.nsectors /\ c.mfree = f.mfree
  <2>1. c = [map |-> f.map, slot |-> [k \in Slot |-> FreeSlot], lru |-> <<>>,
             lfree |-> [k \in 1 .. Slots |-> k - 1], mfree |-> f.mfree,
             nsectors |-> f.nsectors, sfree |-> <<>>, ssectors |-> 0,
             sbarrier |-> 0, file |-> <<>>]
    <3> DEFINE a == [s \in Sector |-> Unused]
               b == [k \in Slot |-> FreeSlot]
               d == [k \in 1 .. Slots |-> k - 1]
               e == [map |-> a, slot |-> b, lru |-> <<>>, lfree |-> d, mfree |-> <<>>,
                     nsectors |-> 0, sfree |-> <<>>, ssectors |-> 0, sbarrier |-> 0,
                     file |-> <<>>]
    <3>1. c = [e EXCEPT !.map = f.map, !.nsectors = f.nsectors, !.mfree = f.mfree]
      BY Zenon DEF DeviceOf, Empty
    <3> HIDE DEF a, b, d, c
    <3>2. c = [map |-> f.map, slot |-> b, lru |-> <<>>,
               lfree |-> d, mfree |-> f.mfree,
               nsectors |-> f.nsectors, sfree |-> <<>>, ssectors |-> 0,
               sbarrier |-> 0, file |-> <<>>]
      BY <3>1
    <3> QED BY <3>2, Zenon DEF b, d
  <2> HIDE DEF c
  <2> QED BY <1>1, <2>1 DEF NewDevice
<1>3. W = {}
  BY SectNone DEF None
<1>4. \A o \in Objects : DOMAIN f.vec[o] = 1 .. Len(f.vec[o])
  BY <1>1, DoneIs DEF Vectors
<1>5. \A o \in Objects :
        vl[o] = [i \in 1 .. Len(f.vec[o]) |->
                   At(IF o \in f.part THEN g.data ELSE f.data, f.map[f.vec[o][i]])]
  BY <1>4 DEF Found
<1>6. Sized(f.vec, vl)
  BY <1>5 DEF Sized
<1>7. ASSUME NEW h \in H
      PROVE  h[1] \in U /\ At(p.from[h[1]], c.map[h[1]]) = h[2]
  <2>1. PICK o \in Objects : \E i \in 1 .. Len(f.vec[o]) : h = <<f.vec[o][i], vl[o][i]>>
    BY HoldIs
  <2>2. PICK i \in 1 .. Len(f.vec[o]) : h = <<f.vec[o][i], vl[o][i]>>
    BY <2>1
  <2> DEFINE s == f.vec[o][i]
  <2>3. s \in ToSet(f.vec[o]) /\ h[1] = s /\ h[2] = vl[o][i]
    BY <1>1, <2>2, DoneIs DEF Vectors
  <2>4. s \in U /\ s \in Sector
    BY <1>1, <2>3, SectIs
  <2>5. s \in Sect(f.vec, f.part) <=> o \in f.part
    <3>1. CASE o \in f.part
      BY <2>3, <3>1, SectIs
    <3>2. CASE o \notin f.part
      <4>1. Sect(f.vec, f.part) \cap ToSet(f.vec[o]) = {}
        BY <1>1, <3>2, SectApart
      <4> QED BY <2>3, <3>2, <4>1
    <3> QED BY <3>1, <3>2
  <2>6. p.from[s] = IF o \in f.part THEN g.data ELSE f.data
    BY <2>4, <2>5 DEF Origin
  <2>7. vl[o][i] = At(IF o \in f.part THEN g.data ELSE f.data, f.map[s])
    BY <1>5, <2>2
  <2> HIDE DEF s, p
  <2> QED BY <1>2, <2>3, <2>4, <2>6, <2>7
<1>8. p.barrier = 0 /\ p.kept = <<>>
  BY DEF Origin
<1>9. Sectoring(c, U)
  BY <1>1, <1>2, SectoringSame
<1>10. U \subseteq Sector
  BY <1>1
<1> HIDE DEF c, U, W, H, p
<1>11. Good(c, U, W, H, p)
  BY <1>2, <1>3, <1>7, <1>8, <1>9, <1>10, NewDeviceGood
<1>12. B \subseteq Objects /\ Objects \subseteq Objects
  BY DEF None
<1> HIDE DEF B
<1> QED BY <1>1, <1>6, <1>11, <1>12 DEF Store, U, W, H, c, p, B

\* Less may be expected of what the objects hold.
LEMMA FewerObjects ==
  ASSUME NEW c, NEW vs, NEW B, NEW K, NEW vl, NEW p, Store(c, vs, B, K, vl, p),
         NEW J, J \subseteq K
  PROVE  Store(c, vs, B, J, vl, p)
<1>1. Hold(vs, vl, J) \subseteq Hold(vs, vl, K)
  BY HoldIs
<1>2. Good(c, Sect(vs, Objects), Sect(vs, B), Hold(vs, vl, J), p)
  BY <1>1, Fewer DEF Store
<1> QED BY <1>2 DEF Store

\* The device and the vectors after the objects of the secondary snapshot
\* were copied.
Started(f, g) ==
  CopyAll([file |-> g.data, done |-> FALSE, val |-> Found(f, f.data, g.data)],
          DeviceOf(f), f.vec, SetToSeq(f.part))

\* Objects that were in the secondary snapshot are in the swap file.
LEMMA StartedAllGood ==
  ASSUME NEW f, Sound(f), NEW g, NEW vl, vl = Found(f, f.data, g.data)
  PROVE  AllSaved(Started(f, g), f.vec, None(f) \cup f.part, Objects, f.part, vl, Origin(f, g))
<1> DEFINE c == DeviceOf(f)
           B == None(f) \ f.part
           A == None(f) \cup f.part
           K == Objects
           S == f.part
           q == SetToSeq(S)
           p == Origin(f, g)
           vs == f.vec
           from == [file |-> g.data, done |-> FALSE, val |-> vl]
<1>1. Store(c, vs, B, K, vl, p)
  BY StartedGood
<1>2. S \subseteq Objects /\ S \cap B = {} /\ B \cup S = A
  BY DEF Sound
<1>3. Lists(q, S)
  BY <1>2, SnapshotAssumption, FS_Subset, ListsSet
<1>4. Copies(from, vs, S, vl, p)
  <2>1. Sect(vs, S) \subseteq Sector
    <3>1. Sect(vs, S) \subseteq Sect(vs, Objects)
      BY <1>2, SectIs
    <3> QED BY <3>1 DEF Sound
  <2> QED BY <2>1 DEF Copies, Origin
<1>5. Started(f, g) = CopyAll(from, c, vs, q)
  BY Zenon DEF Started
<1> HIDE DEF c, B, A, K, S, q, p, vs, from
<1>6. AllSaved(CopyAll(from, c, vs, q), vs, B \cup S, K, S, vl, p)
  BY <1>1, <1>2, <1>3, <1>4, CopyAllGood
<1>7. AllSaved(Started(f, g), vs, A, K, S, vl, p)
  BY <1>2, <1>5, <1>6
<1> QED BY <1>7 DEF A, K, S, p, vs

\* What Restart says, part by part.
LEMMA RestartIs ==
  ASSUME NEW f, NEW g, Restart(f, g)
  PROVE  /\ dev' = Started(f, g).dev /\ vec' = Started(f, g).vec
         /\ val' = Found(f, f.data, g.data)
         /\ where' = [o \in Objects |->
                        CASE o \in f.part -> "swap"
                          [] o \in {x \in Objects : f.vec[x] # <<>>} \ f.part -> "dump"
                          [] OTHER -> "none"]
         /\ swapping' = TRUE /\ dump' = "snapshot" /\ convDone' = FALSE
         /\ snapshot' = f /\ old' = g /\ step' = "run" /\ taken' = taken
BY Zenon DEF Restart, Started, DeviceOf

\* A restart from a snapshot that has what was taken leads to the invariant.
LEMMA RestartGood ==
  ASSUME NEW f, NEW g, Restart(f, g), IsFile(f), IsFile(g), f.complete,
         At(f.data, f.at) = Tables, Found(f, f.data, g.data) = taken
  PROVE  IInv'
<1> DEFINE A == None(f) \cup f.part
           p == Origin(f, g)
<1>1. /\ dev' = Started(f, g).dev /\ vec' = Started(f, g).vec
      /\ val' = Found(f, f.data, g.data)
      /\ swapping' = TRUE /\ dump' = "snapshot" /\ convDone' = FALSE
      /\ snapshot' = f /\ old' = g /\ step' = "run" /\ taken' = taken
  BY RestartIs
<1>2. Sound(f) /\ Vectors(f.vec) /\ f.part \subseteq Objects
  BY DEF IsFile, Sound
<1>3. /\ where' \in [Objects -> {"none", "memory", "swap", "dump"}]
      /\ \A o \in f.part : where'[o] = "swap"
      /\ \A o \in Objects : o \notin f.part =>
           where'[o] = IF f.vec[o] # <<>> THEN "dump" ELSE "none"
  BY <1>2, RestartIs
<1>4. AllSaved(Started(f, g), f.vec, A, Objects, f.part, val', p)
  BY <1>1, <1>2, StartedAllGood
<1>5. /\ Store(dev', vec', A, Objects, val', p)
      /\ \A o \in Objects : o \notin f.part => vec'[o] = f.vec[o]
  <2> DEFINE e == Started(f, g)
             K == Objects
  <2>1. K \cup f.part = K
    BY <1>2
  <2>2. AllSaved(e, f.vec, A, K, f.part, val', p) /\ dev' = e.dev /\ vec' = e.vec
    BY <1>1, <1>4
  <2> HIDE DEF e, A, K, p
  <2>3. Store(dev', vec', A, K, val', p)
    BY <2>1, <2>2 DEF AllSaved
  <2>4. \A o \in Objects : o \notin f.part => vec'[o] = f.vec[o]
    BY <2>2 DEF AllSaved
  <2> QED BY <2>3, <2>4 DEF K
<1>6. /\ Dumped' = Objects \ A
      /\ Objects \ Dumped' = A
      /\ HeldObjects' \subseteq Objects
  BY <1>2, <1>3 DEF Dumped, HeldObjects, None
<1> HIDE DEF p
<1>7. Store(dev', vec', A, HeldObjects', val', p)
  <2> DEFINE J == HeldObjects'
             K == Objects
  <2>1. Store(dev', vec', A, K, val', p) /\ J \subseteq K
    BY <1>5, <1>6
  <2> HIDE DEF A, J, K
  <2>2. Store(dev', vec', A, J, val', p)
    BY <2>1, FewerObjects
  <2> QED BY <2>2 DEF J
<1>8. ~ InPlace' /\ SnapshotData' = f.data /\ DumpData' = f.data
  BY <1>1 DEF InPlace, SnapshotData, DumpData
<1>9. TypeInv'
  BY <1>1, <1>3 DEF TypeInv, Found
<1>10. Modes'
  <2>1. \A o \in Objects : where'[o] = "none" => vec'[o] = <<>>
    BY <1>2, <1>3, <1>5
  <2> QED BY <1>1, <1>8, <2>1 DEF Modes
<1>11. Finishing'
  BY <1>1 DEF Finishing
<1>12. Recoverable'
  <2>1. Found(snapshot, SnapshotData, old.data)' = taken'
    BY <1>1, <1>8 DEF Found
  <2> QED BY <1>1, <1>8, <2>1 DEF Recoverable
<1>13. StoreInv'
  <2> DEFINE U == Sect(vec', Objects)
             W == Sect(vec', A)
             H == Hold(vec', val', HeldObjects')
  <2>1. Good(dev', U, W, H, p) /\ Vectors(vec') /\ Sized(vec', val')
    BY <1>7 DEF Store
  <2>2. U \subseteq Sector
    BY <2>1 DEF Good, Caching
  <2>3. \A s \in U \ W : Context'.from[s] = p.from[s]
    <3> TAKE s \in U \ W
    <3>1. PICK o \in Objects \ A : s \in ToSet(vec'[o])
      BY SectIs
    <3>2. o \notin f.part /\ vec'[o] = f.vec[o]
      BY <1>5, <3>1
    <3>3. Sect(f.vec, f.part) \cap ToSet(f.vec[o]) = {}
      BY <1>2, <3>1, <3>2, SectApart
    <3>4. s \notin Sect(f.vec, f.part) /\ s \in Sector
      BY <2>2, <3>1, <3>2, <3>3
    <3>5. p.from[s] = f.data
      BY <3>4 DEF p, Origin
    <3>6. Context'.from[s] = f.data
      BY <1>8, <3>4 DEF Context
    <3> QED BY <3>5, <3>6
  <2>4. /\ Context'.barrier = dev'.sbarrier /\ Context'.kept = dev'.file
        /\ Context'.cold \subseteq p.cold
    BY DEF Context, p, Origin
  <2> HIDE DEF U, W, H, A
  <2>5. Good(dev', U, W, H, Context')
    BY <2>1, <2>3, <2>4, OtherContext
  <2>6. A \subseteq Objects
    BY <1>6
  <2>7. Store(dev', vec', A, HeldObjects', val', Context')
    BY <1>6, <2>1, <2>5, <2>6 DEF Store, U, W, H
  <2>8. Store(dev', vec', Objects \ Dumped', HeldObjects', val', Context')
    BY <1>6, <2>7
  <2> QED BY <2>8 DEF StoreInv
<1> QED BY <1>9, <1>10, <1>11, <1>12, <1>13 DEF IInv

\* Crash keeps the invariant: the snapshot it restarts from has what was taken.
LEMMA CrashGood ==
  ASSUME IInv, Crash
  PROVE  IInv'
<1>1. TypeInv /\ Recoverable
  BY StoreIs
<1>2. CASE /\ snapshot.complete
           /\ Restart([snapshot EXCEPT !.data = Kept(SnapshotData, snapshot)], old)
  <2> DEFINE d == SnapshotData
             k == Kept(d, snapshot)
             f == [snapshot EXCEPT !.data = k]
             g == old
  <2>1. IsFile(snapshot) /\ IsFile(g) /\ Sound(snapshot)
    BY <1>1, <1>2 DEF TypeInv, IsFile
  <2>2. /\ f = [data |-> k, complete |-> snapshot.complete, at |-> snapshot.at,
                map |-> snapshot.map, nsectors |-> snapshot.nsectors,
                mfree |-> snapshot.mfree, vec |-> snapshot.vec, part |-> snapshot.part]
    <3>1. snapshot = [data |-> snapshot.data, complete |-> snapshot.complete, at |-> snapshot.at,
                map |-> snapshot.map, nsectors |-> snapshot.nsectors,
                mfree |-> snapshot.mfree, vec |-> snapshot.vec, part |-> snapshot.part]
      BY <2>1 DEF IsFile
    <3>2. f = [snapshot EXCEPT !.data = k]
      OBVIOUS
    <3> HIDE DEF k, f
    <3> QED BY <3>1, <3>2
  <2>3. Restart(f, g)
    BY <1>2
  <2> HIDE DEF k, f
  <2>4. /\ f.data = k /\ f.complete /\ f.at = snapshot.at /\ f.map = snapshot.map
        /\ f.nsectors = snapshot.nsectors /\ f.mfree = snapshot.mfree
        /\ f.vec = snapshot.vec /\ f.part = snapshot.part
        /\ f = [data |-> f.data, complete |-> f.complete, at |-> f.at, map |-> f.map,
                nsectors |-> f.nsectors, mfree |-> f.mfree, vec |-> f.vec, part |-> f.part]
    BY <1>2, <2>2
  <2>5. Sound(f)
    <3>1. Sectoring(f, Sect(f.vec, Objects))
      BY <2>1, <2>4, SectoringSame DEF Sound
    <3> QED BY <2>1, <2>4, <3>1 DEF Sound
  <2>6. IsFile(f)
    BY <1>2, <2>4, <2>5 DEF IsFile
  <2>7. At(d, snapshot.at) = Tables /\ Found(snapshot, d, g.data) = taken
    BY <1>1, <1>2 DEF Recoverable
  <2>8. At(f.data, f.at) = Tables
    <3>1. snapshot.at \in Referred(snapshot)
      BY ReferredIs
    <3>2. At(k, snapshot.at) = At(d, snapshot.at)
      BY <3>1, AtKept DEF k
    <3> QED BY <2>4, <2>7, <3>2
  <2>9. Found(f, f.data, g.data) = taken
    <3> DEFINE h == g.data
    <3>1. \A s \in Sect(f.vec, Objects \ f.part) : At(k, f.map[s]) = At(d, f.map[s])
      <4> TAKE s \in Sect(f.vec, Objects \ f.part)
      <4>1. s \in Sect(snapshot.vec, Objects \ snapshot.part)
        BY <2>4
      <4>2. snapshot.map[s] \in Referred(snapshot)
        BY <4>1, ReferredIs
      <4>3. At(k, snapshot.map[s]) = At(d, snapshot.map[s])
        BY <4>2, AtKept DEF k
      <4> QED BY <2>4, <4>3
    <3>2. \A s \in Sect(f.vec, f.part \cap Objects) : At(h, f.map[s]) = At(h, f.map[s])
      OBVIOUS
    <3>3. Vectors(f.vec)
      BY <2>5 DEF Sound
    <3>4. Found(snapshot, d, h) = Found(f, d, h)
      BY <2>4, Zenon DEF Found
    <3> HIDE DEF h, d
    <3>5. FoundAlike(f, k, h, d, h)
      BY <3>1, <3>2, <3>3, FoundSame
    <3>6. Found(f, k, h) = taken
      BY <2>7, <3>4, <3>5 DEF FoundAlike, h
    <3> QED BY <2>4, <3>6 DEF h
  <2> HIDE DEF g
  <2> QED BY <2>1, <2>3, <2>4, <2>6, <2>8, <2>9, RestartGood
<1>3. CASE /\ ~ snapshot.complete /\ old.complete /\ old.part = {}
           /\ Restart(old, NoFile)
  <2> DEFINE g == NoFile
             f == old
  <2>1. IsFile(g) /\ IsFile(f)
    BY <1>1 DEF TypeInv, IsFile, NoFile
  <2>2. g.data = <<>>
    BY DEF NoFile
  <2>3. At(f.data, f.at) = Tables /\ Found(f, f.data, g.data) = taken
    BY <1>1, <1>3, <2>2 DEF Recoverable
  <2>4. Restart(f, g) /\ f.complete
    BY <1>3
  <2> HIDE DEF f, g
  <2> QED BY <2>1, <2>3, <2>4, RestartGood
<1> QED BY <1>2, <1>3 DEF Crash

\* Every step keeps the invariant.
LEMMA NextGood ==
  ASSUME IInv, [Next]_vars
  PROVE  IInv'
<1>1. CASE UNCHANGED vars
  <2>1. /\ dev' = dev /\ swapping' = swapping /\ dump' = dump /\ convDone' = convDone
        /\ snapshot' = snapshot /\ old' = old /\ where' = where /\ vec' = vec
        /\ val' = val /\ step' = step /\ taken' = taken
    BY <1>1 DEF vars
  <2>2. /\ Dumped' = Dumped /\ (InPlace' <=> InPlace) /\ HeldObjects' = HeldObjects
    BY <2>1 DEF Dumped, InPlace, HeldObjects
  <2>3. SnapshotData' = SnapshotData
    BY <2>1, <2>2 DEF SnapshotData
  <2>4. Context' = Context
    BY <2>1, <2>3 DEF DumpData, Context
  <2>5. TypeInv /\ Modes /\ Finishing /\ Recoverable /\ StoreInv
    BY DEF IInv
  <2>6. TypeInv'
    BY <2>1, <2>5 DEF TypeInv
  <2>7. Modes'
    BY <2>1, <2>2, <2>5 DEF Modes
  <2>8. Finishing'
    BY <2>1, <2>2, <2>5 DEF Finishing
  <2>9. Recoverable'
    BY <2>1, <2>3, <2>5 DEF Recoverable, Found
  <2>10. StoreInv'
    BY <2>1, <2>2, <2>4, <2>5 DEF StoreInv
  <2> QED BY <2>6, <2>7, <2>8, <2>9, <2>10 DEF IInv
<1>2. ASSUME NEW o \in Objects, NEW v \in NewValues(o), SwapOut(o, v)
      PROVE  IInv'
  <2>1. PICK n \in SizesOf[o], w \in ContentsOf[o] : v = [i \in 1 .. n |-> w]
    BY <1>2 DEF NewValues
  <2>2. n \in Nat /\ v = [i \in 1 .. n |-> v[i]]
    BY <2>1, SnapshotAssumption
  <2> QED BY <1>2, <2>2, SwapOutGood
<1>3. ASSUME NEW o \in Objects, where[o] = "memory", SwapOut(o, val[o])
      PROVE  IInv'
  <2> DEFINE n == Len(vec[o])
             v == val[o]
  <2>1. n \in Nat /\ v = [i \in 1 .. n |-> v[i]]
    BY StoreIs, DoneIs DEF Vectors, Sized
  <2>2. SwapOut(o, v)
    BY <1>3
  <2> HIDE DEF n, v
  <2> QED BY <2>1, <2>2, SwapOutGood
<1> QED BY <1>1, <1>2, <1>3, UpdateGood, ReadObjectGood, RestoreObjectGood, DelGood,
        CopiedGood, DumpGood, FinishGood, CrashGood DEF Next

\* The inductive invariant holds in every state.
THEOREM Inductive == Spec => []IInv
<1>1. Init => IInv
  BY InitGood
<1>2. IInv /\ [Next]_vars => IInv'
  BY NextGood
<1> QED BY <1>1, <1>2, PTL DEF Spec

-----------------------------------------------------------------------------

\* The invariant says that the cache is one.
LEMMA CacheGood == IInv => CacheRight
<1> SUFFICES ASSUME IInv PROVE CacheRight
  OBVIOUS
<1> DEFINE U == Sect(vec, Objects)
<1>1. Caching(dev, U)
  BY StoreIs DEF Good
<1>2. InUse = U
  BY DEF InUse, Sect
<1> HIDE DEF U
<1>3. /\ Lists(dev.lru, ToSet(dev.lru)) /\ Lists(dev.lfree, ToSet(dev.lfree))
      /\ ToSet(dev.lru) \cap ToSet(dev.lfree) = {}
      /\ ToSet(dev.lru) \cup ToSet(dev.lfree) = Slot
  BY <1>1 DEF Caching
<1>4. Lists(dev.lru \o dev.lfree, Slot)
  BY <1>3, ListsConcat
<1>5. IsInjective(dev.lru \o dev.lfree) /\ ToSet(dev.lru \o dev.lfree) = Slot
  BY <1>4, ListsIs
<1> QED BY <1>1, <1>2, <1>5 DEF Caching, CacheRight

\* The invariant says that no sector and no index is lost or used twice.
LEMMA AccountedGood == IInv => Accounted
<1> SUFFICES ASSUME IInv PROVE Accounted
  OBVIOUS
<1> DEFINE U == Sect(vec, Objects)
           W == Sect(vec, Objects \ Dumped)
           used == {s \in W : Index(dev, s) # Unused}
           free == {i + dev.sbarrier : i \in ToSet(dev.sfree)}
           new == dev.sbarrier .. dev.ssectors - 1
           M == ToSet(dev.mfree)
           n == dev.nsectors
<1>1. Sectoring(dev, U) /\ Indexing(dev, W) /\ IsDevice(dev)
  BY StoreIs DEF Good, Caching
<1>2. InUse = U /\ InSwap = W
  BY DEF InUse, InSwap, Sect
<1> HIDE DEF U, W
<1>3. /\ Lists(dev.mfree, M) /\ M \cap U = {} /\ M \cup U = 0 .. n - 1
      /\ n \in Nat /\ dev.sbarrier \in Nat /\ dev.ssectors \in Nat
  BY <1>1 DEF Sectoring, IsDevice
<1>4. n = Len(dev.mfree) + Cardinality(U)
  <2>1. IsFiniteSet(M) /\ Cardinality(M) = Len(dev.mfree) /\ Len(dev.mfree) \in Nat
    BY <1>3, ListsCount
  <2>2. IsFiniteSet(0 .. n - 1) /\ Cardinality(0 .. n - 1) = n
    <3>1. 0 \in Int /\ n - 1 \in Int
      BY <1>3
    <3>2. IsFiniteSet(0 .. n - 1)
          /\ Cardinality(0 .. n - 1) = IF 0 > n - 1 THEN 0 ELSE (n - 1) - 0 + 1
      BY <3>1, FS_Interval
    <3> QED BY <1>3, <3>2
  <2>3. IsFiniteSet(U)
    <3>1. U \subseteq 0 .. n - 1
      BY <1>3
    <3> QED BY <2>2, <3>1, FS_Subset
  <2>4. Cardinality(M \cup U) = Cardinality(M) + Cardinality(U) - Cardinality(M \cap U)
    BY <2>1, <2>3, FS_Union
  <2>5. Cardinality(M \cap U) = 0
    BY <1>3, FS_EmptySet
  <2>6. Cardinality(U) \in Nat
    BY <2>3, FS_CardinalityType
  <2> HIDE DEF M, n
  <2>7. Cardinality(M \cup U) = n
    BY <1>3, <2>2
  <2>8. n = Len(dev.mfree) + Cardinality(U) - 0
    BY <2>1, <2>4, <2>5, <2>7
  <2> QED BY <2>1, <2>6, <2>8
<1>5. \A s, t \in used : Index(dev, s) = Index(dev, t) => s = t
  BY <1>1 DEF Indexing
<1>6. IsInjective(dev.sfree)
  BY <1>1, ListsIs DEF Indexing
<1>7. ToSet(dev.sfree) \subseteq Nat
  BY <1>1, ToSetIn DEF Indexing
<1>8. {Index(dev, s) : s \in used} \cap free = {}
  BY <1>1 DEF Indexing
<1>9. free \subseteq new
  <2> SUFFICES ASSUME NEW x \in ToSet(dev.sfree) PROVE x + dev.sbarrier \in new
    OBVIOUS
  <2>1. x \in Nat /\ x + dev.sbarrier < dev.ssectors
    BY <1>1, <1>7 DEF Indexing
  <2> QED BY <1>3, <2>1
<1>10. new \subseteq {Index(dev, s) : s \in used} \cup free
  <2> SUFFICES ASSUME NEW i \in new PROVE i \in {Index(dev, s) : s \in used} \cup free
    OBVIOUS
  <2>1. i - dev.sbarrier \in ToSet(dev.sfree) \/ \E s \in W : Index(dev, s) = i
    BY <1>1 DEF Indexing
  <2>2. i \in Nat /\ i # Unused
    BY <1>3, SectorType
  <2>3. CASE i - dev.sbarrier \in ToSet(dev.sfree)
    <3>1. i = (i - dev.sbarrier) + dev.sbarrier
      BY <1>3, <2>2
    <3> QED BY <2>3, <3>1
  <2>4. CASE \E s \in W : Index(dev, s) = i
    BY <2>2, <2>4
  <2> QED BY <2>1, <2>3, <2>4
<1>11. /\ M \cap U = {} /\ M \cup U = 0 .. n - 1
  BY <1>3
<1>12. /\ ToSet(dev.mfree) \cap InUse = {}
       /\ ToSet(dev.mfree) \cup InUse = 0 .. dev.nsectors - 1
       /\ dev.nsectors = Len(dev.mfree) + Cardinality(InUse)
  BY <1>2, <1>4, <1>11
<1>13. used = {s \in InSwap : Index(dev, s) # Unused}
  BY <1>2
<1> HIDE DEF used, free, new
<1>14. LET used_1 == {s \in InSwap : Index(dev, s) # Unused}
           free_1 == {i + dev.sbarrier : i \in ToSet(dev.sfree)}
           new_1 == dev.sbarrier .. dev.ssectors - 1
       IN  /\ used_1 = used /\ free_1 = free /\ new_1 = new
  BY <1>13, Zenon DEF free, new
<1> QED BY <1>5, <1>6, <1>8, <1>9, <1>10, <1>12, <1>14, Zenon DEF Accounted

\* The invariant says that what was saved is read back.
LEMMA ReadsGood == IInv => ReadsBack
<1> SUFFICES ASSUME IInv, NEW o \in Objects, where[o] \in {"swap", "dump"},
                    NEW i \in DOMAIN val[o]
             PROVE  Content(dev, vec[o][i], IF where[o] = "swap" THEN dev.file ELSE DumpData)
                      = val[o][i]
  BY DEF ReadsBack
<1>1. /\ Store(dev, vec, Objects \ Dumped, HeldObjects, val, Context)
      /\ Vectors(vec) /\ Sized(vec, val)
  BY StoreIs
<1>2. i \in 1 .. Len(vec[o])
  BY <1>1 DEF Sized
<1>3. o \in HeldObjects
  BY DEF HeldObjects
<1> DEFINE s == vec[o][i]
<1>4. /\ s \in Sector
      /\ Right(dev, s, IF o \in Objects \ Dumped THEN dev.file ELSE Context.from[s], val[o][i])
  BY <1>1, <1>2, <1>3, HeldIs
<1>5. Context.from[s] = DumpData
  BY <1>4 DEF Context
<1>6. o \in Objects \ Dumped <=> where[o] = "swap"
  BY DEF Dumped
<1> HIDE DEF s
<1> QED BY <1>4, <1>5, <1>6 DEF Right, s

\* Slots, sectors and indices are each in one place, for any number of sectors,
\* slots and objects (alloc(), load(), newv(), wipev(), delv(), save()).
THEOREM SectorsCorrect == Spec => []SectorsRight
<1>1. IInv => SectorsRight
  BY CacheGood, AccountedGood DEF SectorsRight
<1> QED BY <1>1, Inductive, PTL

\* What was saved is read back, from the cache, the swap file or a snapshot,
\* whatever was swapped, copied, deleted and snapshotted in between, and after
\* any number of restarts.
THEOREM ReadsBackCorrect == Spec => []ReadsBack
BY ReadsGood, Inductive, PTL

\* The last snapshot that was completed can be restored, whatever is done to the
\* swap file after it, and whenever the process is killed: also while the next
\* snapshot is written, unless it had a secondary snapshot.
THEOREM RecoverableCorrect == Spec => []Recoverable
<1>1. IInv => Recoverable
  BY DEF IInv
<1> QED BY <1>1, Inductive, PTL
=============================================================================
