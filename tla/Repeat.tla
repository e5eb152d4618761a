------------------------------- MODULE Repeat -------------------------------
(***************************************************************************)
(* Loops over vectors of sectors, in src/src/swap.cpp as                   *)
(* "do { ... } while (--size > 0)", are Each in the module Swap.  This is  *)
(* the rule for proofs about them: what holds before the first pass, and   *)
(* is brought forward by each pass, holds after the last one.  A loop and  *)
(* what holds in it are the constants; the module is instantiated for each *)
(* of the loops.                                                           *)
(***************************************************************************)
EXTENDS Integers, Sequences, WellFoundedInduction, TLAPS

CONSTANTS
    Op(_, _, _),        \* a pass, given parameters, the state and an element
    Holds(_, _, _)      \* what holds, given parameters and the state, after n

\* As Each in Swap, with Op.
All(p, c, seq) ==
    LET r[n \in 0 .. Len(seq)] == IF n = 0 THEN c ELSE Op(p, r[n - 1], seq[n])
    IN  r[Len(seq)]

\* A set that has 0 and with n also n + 1 has all natural numbers.
LEMMA NatSet ==
  ASSUME NEW S, 0 \in S, \A n \in S : n \in Nat => n + 1 \in S
  PROVE  \A n \in Nat : n \in S
<1> USE DEF OpToRel
<1> SUFFICES ASSUME NEW m \in Nat, m \notin S  PROVE FALSE
  OBVIOUS
<1> DEFINE T == {n \in Nat : n \notin S}
<1>1. PICK x \in T : \A y \in T : ~ (<<y, x>> \in OpToRel(<, Nat))
  BY NatLessThanWellFounded, WFMin, Zenon
<1>2. \A y \in T : ~ (y < x)
  BY <1>1
<1>3. x \in Nat /\ x # 0
  OBVIOUS
<1>5. x - 1 \in Nat /\ x - 1 < x
  BY <1>3
<1>4. x - 1 \in S
  BY <1>2, <1>5
<1>6. (x - 1) + 1 = x
  BY <1>3
<1>7. x \in S
  BY <1>5, <1>4, <1>6
<1> QED
  BY <1>7

\* The states of a loop, one after the other.
LEMMA Passes ==
  ASSUME NEW p, NEW c, NEW seq, Len(seq) \in Nat
  PROVE  \E r : /\ r[0] = c
                /\ \A n \in 1 .. Len(seq) : r[n] = Op(p, r[n - 1], seq[n])
                /\ All(p, c, seq) = r[Len(seq)]
<1> DEFINE Def(r, m) == r = [n \in 0 .. m |-> IF n = 0 THEN c ELSE Op(p, r[n - 1], seq[n])]
           S == {m \in Nat : \E r : Def(r, m)}
<1>1. 0 \in S
  <2> DEFINE r == [n \in 0 .. 0 |-> c]
  <2>1. Def(r, 0)
    OBVIOUS
  <2> QED BY <2>1
<1>2. ASSUME NEW m \in S  PROVE m + 1 \in S
  <2>1. PICK r : Def(r, m)
    OBVIOUS
  <2> DEFINE q == [n \in 0 .. m + 1 |-> IF n = m + 1 THEN Op(p, r[m], seq[m + 1]) ELSE r[n]]
  <2>2. ASSUME NEW n \in 0 .. m + 1
        PROVE  q[n] = IF n = 0 THEN c ELSE Op(p, q[n - 1], seq[n])
    <3>1. CASE n = m + 1
      BY <3>1
    <3>2. CASE n # m + 1
      <4>1. n \in 0 .. m
        BY <3>2
      <4>2. r[n] = IF n = 0 THEN c ELSE Op(p, r[n - 1], seq[n])
        BY <2>1, <4>1
      <4>3. n # 0 => n - 1 \in 0 .. m + 1 /\ n - 1 # m + 1
        BY <4>1
      <4> QED BY <4>1, <4>2, <4>3, <3>2
    <3> QED BY <3>1, <3>2
  <2>3. Def(q, m + 1)
    BY <2>2, Zenon
  <2> m + 1 \in Nat
    OBVIOUS
  <2> HIDE DEF q
  <2> QED BY <2>3
<1>3. \A m \in Nat : m \in S
  <2> HIDE DEF S
  <2> QED BY <1>1, <1>2, NatSet
<1> DEFINE r == CHOOSE r : Def(r, Len(seq))
<1>4. Def(r, Len(seq))
  BY <1>3
<1>5. All(p, c, seq) = r[Len(seq)]
  BY Zenon DEF All
<1>6. r[0] = c /\ \A n \in 1 .. Len(seq) : r[n] = Op(p, r[n - 1], seq[n])
  <2> HIDE DEF r
  <2> QED BY <1>4
<1> QED BY <1>5, <1>6

\* The rule: Holds after 0 passes, and brought forward, holds after all.
LEMMA Repeated ==
  ASSUME NEW p, NEW q, NEW c, NEW seq, Len(seq) \in Nat, Holds(q, c, 0),
         \A n \in 1 .. Len(seq) : \A d :
            Holds(q, d, n - 1) => Holds(q, Op(p, d, seq[n]), n)
  PROVE  Holds(q, All(p, c, seq), Len(seq))
<1>1. PICK r : /\ r[0] = c
               /\ \A n \in 1 .. Len(seq) : r[n] = Op(p, r[n - 1], seq[n])
               /\ All(p, c, seq) = r[Len(seq)]
  BY Passes
<1> DEFINE S == {n \in Nat : n <= Len(seq) => Holds(q, r[n], n)}
<1>2. 0 \in S
  BY <1>1
<1>3. ASSUME NEW n \in S, n \in Nat  PROVE n + 1 \in S
  <2>1. CASE n + 1 <= Len(seq)
    <3>1. n + 1 \in 1 .. Len(seq) /\ (n + 1) - 1 = n /\ n <= Len(seq)
      BY <2>1
    <3>2. Holds(q, r[n], n)
      BY <3>1
    <3>3. r[n + 1] = Op(p, r[n], seq[n + 1])
      BY <1>1, <3>1
    <3>4. Holds(q, Op(p, r[n], seq[n + 1]), n + 1)
      BY <3>1, <3>2
    <3> QED BY <3>3, <3>4
  <2>2. CASE ~ (n + 1 <= Len(seq))
    BY <2>2
  <2> QED BY <2>1, <2>2
<1>4. \A n \in Nat : n \in S
  <2> HIDE DEF S
  <2> QED BY <1>2, <1>3, NatSet
<1>5. Holds(q, r[Len(seq)], Len(seq))
  BY <1>4
<1> QED BY <1>1, <1>5
=============================================================================
