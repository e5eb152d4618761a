-------------------------------- MODULE Asn --------------------------------
(***************************************************************************)
(* Integers of any length (host/asn.cpp), which LPC has as strings of      *)
(* bytes in two's complement.  A number is the sequence of its words, the  *)
(* lowest first, and has at least one; its size is the length of the       *)
(* sequence.  A word has W bits instead of 32, and a byte ByteBits.        *)
(*                                                                         *)
(* Words, carries, sizes and the order of the steps are those of the code; *)
(* where its buffers are, and the ticks that it takes, are not modelled.   *)
(* Words that are read before they are set have the value junk.            *)
(***************************************************************************)
EXTENDS Integers, Sequences, FiniteSetsExt

CONSTANTS
  ByteBits,     \* bits of a byte: 8 in the code
  WordBytes,    \* bytes of a word: 4
  WindowSize    \* WINDOWSZ, bits of the window of powqmod(): 6

W == ByteBits * WordBytes
Base == 2 ^ W
Bytes == 0 .. 2 ^ ByteBits - 1

Undefined == <<>>     \* a call that does not return, or not with a number

Zeros(n) == [i \in 1 .. n |-> 0]
First(x, n) == SubSeq(x, 1, n)
Rest(x, n) == SubSeq(x, n + 1, Len(x))
Word(x, i) == IF i \in DOMAIN x THEN x[i] ELSE 0
Top(x) == x[Len(x)]
Padded(x, n) == IF Len(x) < n THEN x \o Zeros(n - Len(x)) ELSE x
IsWord(x, w) == Len(x) = 1 /\ x[1] = w

-----------------------------------------------------------------------------
(***************************************************************************)
(* Words                                                                   *)
(***************************************************************************)

\* add(): the sum in as many words as a has, and the carry.
Add(a, b) ==
  LET s[i \in 0 .. Len(a)] ==
        IF i = 0 THEN [sum |-> <<>>, carry |-> 0]
        ELSE LET p == s[i - 1]
                 t == a[i] + Word(b, i) + p.carry
             IN  [sum |-> Append(p.sum, t % Base), carry |-> t \div Base]
  IN  s[Len(a)]

Sum(a, b) == Add(a, b).sum

\* sub(), in as many words as a has.
Sub(a, b) ==
  LET s[i \in 0 .. Len(a)] ==
        IF i = 0 THEN [sum |-> <<>>, borrow |-> 0]
        ELSE LET p == s[i - 1]
                 t == a[i] - Word(b, i) - p.borrow
             IN  [sum |-> Append(p.sum, t % Base), borrow |-> IF t < 0 THEN 1 ELSE 0]
  IN  s[Len(a)].sum

\* add() to the words of z from the n-th on.
SumAt(z, n, x) == First(z, n) \o Sum(Rest(z, n), x)

\* cmp(): of all words of a.
Cmp(a, x) ==
  LET differ == {i \in DOMAIN a : a[i] # Word(x, i)}
  IN  IF differ = {} THEN 0
      ELSE IF a[Max(differ)] > Word(x, Max(differ)) THEN 1 ELSE -1

AtLeast(a, x) == Len(a) >= Len(x) /\ Cmp(a, x) >= 0

\* lshift(), rshift(): what goes over the edge is lost.
LShift(x, k) ==
  LET o == k \div W
      l == k % W
  IN  [i \in DOMAIN x |->
         ((Word(x, i - o) * 2 ^ l) % Base) + Word(x, i - o - 1) \div 2 ^ (W - l)]

RShift(x, k) ==
  LET o == k \div W
      r == k % W
  IN  [i \in DOMAIN x |->
         Word(x, i + o) \div 2 ^ r + ((Word(x, i + o + 1) * 2 ^ (W - r)) % Base)]

\* Leading zero words go, but not the last word.
RECURSIVE Strip(_)
Strip(x) == IF Top(x) = 0 /\ Len(x) > 1 THEN Strip(First(x, Len(x) - 1)) ELSE x

StripOne(x) == IF Top(x) = 0 /\ Len(x) > 1 THEN First(x, Len(x) - 1) ELSE x

-----------------------------------------------------------------------------
(***************************************************************************)
(* Multiplication and division                                             *)
(***************************************************************************)

\* mult1(), sqr1()
Mult1(a, b) == <<(a * b) % Base, (a * b) \div Base>>

\* The middle of a product by Karatsuba's method: both halves with or without
\* the product of the differences.
Middle(lo, hi, cross, minus) ==
  LET t == Sum(Append(hi, 0), lo)
  IN  IF minus THEN Sub(t, cross) ELSE Sum(t, cross)

\* Difference of the halves of a number: the words and the sign.
HalfDiff(x0, x1) ==
  IF Cmp(x1, x0) <= 0 THEN [num |-> Sub(x0, x1), minus |-> FALSE]
  ELSE [num |-> Sub(x1, x0), minus |-> TRUE]

DiffOfHalves(y0, y1) ==
  IF IF Len(y0) <= Len(y1) THEN Cmp(y1, y0) >= 0 ELSE Cmp(y0, y1) <= 0
    THEN [num |-> Sub(y1, y0), minus |-> FALSE]
    ELSE [num |-> Sub(y0, y1), minus |-> TRUE]

\* multInner(), for "x.size - y.size <= 1".
RECURSIVE MultInner(_, _)
MultInner(x, y) ==
  IF x = Undefined \/ y = Undefined \/ Len(x) - Len(y) > 1 THEN Undefined
  ELSE IF Len(y) = 1
    THEN LET p == Mult1(x[1], y[1])
             q == Mult1(x[2], y[1])
         IN  IF Len(x) = 1 THEN p
             ELSE <<p[1], (p[2] + q[1]) % Base, q[2] + (p[2] + q[1]) \div Base>>
  ELSE LET h == Len(x) \div 2
           x0 == First(x, h)
           x1 == Rest(x, h)
           y0 == First(y, h)
           y1 == Rest(y, h)
           z0 == HalfDiff(x0, x1)
           z1 == DiffOfHalves(y0, y1)
           cross == IF Len(z0.num) >= Len(z1.num)
                      THEN MultInner(z0.num, z1.num) ELSE MultInner(z1.num, z0.num)
           lo == MultInner(x0, y0)
           hi == MultInner(x1, y1)
       IN  SumAt(lo \o hi, h, Middle(lo, hi, cross, z0.minus # z1.minus))

\* mult(): as many times b as fit in a; of what is left, the larger one next.
RECURSIVE MultFrom(_, _, _, _)
MultFrom(z, n, a, b) ==
  IF Len(a) < Len(b) THEN MultFrom(z, n, b, a)
  ELSE LET part == IF Len(a) - Len(b) > 1 THEN First(a, Len(b)) ELSE a
           p == MultInner(part, b)
           added == First(z, n) \o Sum(SubSeq(z, n + 1, n + Len(p)), p)
                      \o Rest(z, n + Len(p))
       IN  IF part = a THEN added
           ELSE MultFrom(added, n + Len(b), Rest(a, Len(b)), b)

Mult(x, y) == MultFrom(Zeros(Len(x) + Len(y)), 0, x, y)

\* sqr()
RECURSIVE Sqr(_)
Sqr(x) ==
  IF Len(x) = 1 THEN Mult1(x[1], x[1])
  ELSE LET h == Len(x) \div 2
           x0 == First(x, h)
           x1 == Rest(x, h)
           lo == Sqr(x0)
           hi == Sqr(x1)
       IN  SumAt(lo \o hi, h, Middle(lo, hi, Sqr(HalfDiff(x0, x1).num), TRUE))

\* multRow(): a word times x added to a, which has a word more, and the carry.
MultRow(a, x, y) ==
  LET s[i \in 0 .. Len(x)] ==
        IF i = 0 THEN [sum |-> <<>>, s |-> 0, carry |-> 0]
        ELSE LET p == s[i - 1]
                 m == x[i] * y + p.s
                 t == a[i] + (m % Base) + p.carry
             IN  [sum |-> Append(p.sum, t % Base), s |-> m \div Base,
                  carry |-> t \div Base]
      last == s[Len(x)]
      t == a[Len(x) + 1] + last.s + last.carry
  IN  [sum |-> Append(last.sum, t % Base), carry |-> t \div Base]

\* div1()
Div1(lo, hi, d) == ((hi * Base + lo) \div d) % Base

\* Mutant: the guess is corrected once.
DigitOnce(a, b) ==
  LET n == Len(b)
      q == IF a[n + 1] = Top(b) THEN Base - 1 ELSE Div1(a[n], a[n + 1], Top(b))
      t == MultRow(Zeros(n + 1), b, q).sum
  IN  IF Cmp(t, a) <= 0 THEN [q |-> q, t |-> t] ELSE [q |-> q - 1, t |-> Sub(t, b)]

\* A digit of the quotient of the words a, one more than b has: the guess from
\* the top words is at most two too high.
Digit(a, b) ==
  LET n == Len(b)
      q == IF a[n + 1] = Top(b) THEN Base - 1 ELSE Div1(a[n], a[n + 1], Top(b))
      t == MultRow(Zeros(n + 1), b, q).sum
      t1 == Sub(t, b)
  IN  IF Cmp(t, a) <= 0 THEN [q |-> q, t |-> t]
      ELSE IF Cmp(t1, a) <= 0 THEN [q |-> q - 1, t |-> t1]
      ELSE [q |-> q - 2, t |-> Sub(t1, b)]

RECURSIVE DivFrom(_, _, _)
DivFrom(a, b, q) ==
  LET n == Len(b)
      o == Len(a) - n - 1
      d == Digit(Rest(a, o), b)
  IN  IF Len(a) = n THEN [q |-> q, r |-> a]
      ELSE DivFrom(First(a, o) \o First(Sub(Rest(a, o), d.t), n), b, <<d.q>> \o q)

\* div(): quotient and remainder, for x >= y and y # 0.
Div(x, y) ==
  LET shift == CHOOSE k \in 0 .. W - 1 :
                 Top(y) * 2 ^ k \in Base \div 2 .. Base - 1
      b == LShift(y, shift)
      a == IF shift = 0 THEN x ELSE StripOne(LShift(Append(x, 0), shift))
      o == Len(a) - Len(b)
      fits == Cmp(Rest(a, o), b) >= 0
      d == DivFrom(First(a, o) \o (IF fits THEN Sub(Rest(a, o), b) ELSE Rest(a, o)),
                   b, <<IF fits THEN 1 ELSE 0>>)
  IN  [q |-> d.q, r |-> IF shift = 0 THEN d.r ELSE RShift(d.r, shift)]

-----------------------------------------------------------------------------
(***************************************************************************)
(* The inverse modulo a number                                             *)
(***************************************************************************)

\* x + y in at least as many words as y has, and one more for the carry.
Grown(x, y) ==
  LET s == Add(Padded(x, Max({Len(x), Len(y)})), y)
  IN  IF s.carry = 1 THEN Append(s.sum, 1) ELSE s.sum

Odd(x) == x[1] % 2 = 1
Less(x, y) == Len(x) < Len(y) \/ Cmp(x, y) < 0
Half(x) == StripOne(RShift(x, 1))

\* The inner loop of modinv(), until g1 is odd: g1 is halved, and exchanged
\* with g2 when that is even or not smaller.  b and a are the two numbers.
RECURSIVE Halved(_, _, _, _)
Halved(u, v, a, b) ==
  LET both == Odd(u.a) \/ Odd(u.b)
      h == IF Odd(u.g) THEN u
           ELSE [a |-> Half(IF both THEN Grown(u.a, b) ELSE u.a),
                 b |-> Half(IF both THEN Grown(u.b, a) ELSE u.b),
                 g |-> Half(u.g)]
      swap == ~Odd(v.g) \/ Less(h.g, v.g)
      n == IF swap THEN <<v, h>> ELSE <<h, v>>
  IN  IF Odd(n[1].g) THEN n ELSE Halved(n[1], n[2], a, b)

\* Multiples of b and a are added until nothing is lost when v is subtracted.
RECURSIVE Raised(_, _, _, _)
Raised(u, v, a, b) ==
  IF Less(u.a, v.a) \/ Less(u.b, v.b)
    THEN Raised([u EXCEPT !.a = Grown(@, b), !.b = Grown(@, a)], v, a, b)
    ELSE u

RECURSIVE Euclid(_, _, _, _)
Euclid(u0, v0, a, b) ==
  LET n == Halved(u0, v0, a, b)
      v == n[2]
      r == Raised(n[1], v, a, b)
      u == [a |-> Strip(Sub(r.a, v.a)), b |-> Strip(Sub(r.b, v.b)),
            g |-> Strip(Sub(r.g, v.g))]
  IN  IF IsWord(v.g, 0) THEN u ELSE Euclid(u, v, a, b)

RECURSIVE Lowered(_, _, _)
Lowered(u, a, b) ==
  IF AtLeast(u.a, b) /\ AtLeast(u.b, a)
    THEN Lowered([u EXCEPT !.a = Strip(Sub(@, b)), !.b = Strip(Sub(@, a))], a, b)
    ELSE u

\* modinv(): the inverse of x modulo y, and whether there is one.
NoInverse == [found |-> FALSE, num |-> Undefined]

ModInv(x, y) ==
  IF ~Odd(x) /\ ~Odd(y) THEN NoInverse
  ELSE LET larger == Len(x) > Len(y) \/ (Len(x) = Len(y) /\ Cmp(x, y) > 0)
           a == IF larger THEN y ELSE x
           b == IF larger THEN x ELSE y
           u == Lowered(Euclid([a |-> <<0>>, b |-> <<1>>, g |-> b],
                               [a |-> Strip(Sub(b, <<1>>)), b |-> a, g |-> a],
                               a, b), a, b)
       IN  [found |-> IsWord(u.g, 1),
            num |-> IF larger THEN u.b ELSE Strip(Sub(b, u.a))]

-----------------------------------------------------------------------------
(***************************************************************************)
(* Powers                                                                  *)
(***************************************************************************)

\* wordinv(): one bit more of the inverse at a time.
WordInv(n) ==
  LET f[k \in 1 .. W] ==
        IF k = 1 THEN 1
        ELSE LET p == f[k - 1]
                 i == 2 ^ (k - 1)
             IN  IF (n * p) % (2 * i) > i THEN p + i ELSE p
  IN  f[W]

\* The Montgomery reduction of c: multiples of n clear its low words, and a
\* carry goes into the words above.
Reduced(c, n, n0) ==
  LET k == Len(n)
      f[i \in 0 .. k] ==
        IF i = 0 THEN c
        ELSE LET p == f[i - 1]
                 r == MultRow(SubSeq(p, i, i + k), n, (p[i] * n0) % Base)
             IN  First(p, i - 1) \o r.sum \o Sum(Rest(p, i + k), <<r.carry>>)
      z == Rest(f[k], k)
  IN  First(IF Cmp(z, n) >= 0 THEN Sub(z, n) ELSE z, k)

\* monpro()
MonPro(x, y, n, n0) ==
  Reduced(Append(IF x = y THEN Sqr(x) ELSE MultInner(x, y), 0), n, n0)

\* The bits of b after its first one, the highest first.
LaterBits(b) ==
  LET n == Len(b) * W
      Bit(i) == (b[(n - i) \div W + 1] \div 2 ^ ((n - i) % W)) % 2
      first == CHOOSE i \in 1 .. W : Bit(i) = 1 /\ \A j \in 1 .. i - 1 : Bit(j) = 0
  IN  [i \in 1 .. n - first |-> Bit(first + i)]

\* powqmod() for an odd mod: a window of bits of the exponent at a time.  The
\* exponent 1 has no later bits: then yy still has the size of a, and above
\* the result a zero and what is left of a quotient.
PowQMod(a, b, mod) ==
  LET n == Len(mod)
      n0 == Base - WordInv(mod[1])
      d == Div(Zeros(n) \o a, mod)
      power[w \in 1 .. 2 ^ WindowSize - 1] ==
        IF w = 1 THEN d.r
        ELSE IF w % 2 = 0 THEN LET p == power[w \div 2] IN MonPro(p, p, mod, n0)
        ELSE MonPro(power[w - 1], power[1], mod, n0)
      Times(x, w) == MonPro(x, power[w], mod, n0)
      Step(s, bit) ==
        LET flush == s.size = WindowSize \/ (s.zeros # 0 /\ bit = 0)
            y == IF flush THEN Times(s.x, s.window) ELSE s.x
            window == 2 * (IF flush THEN 0 ELSE s.window) + bit
            size == IF flush THEN 0 ELSE s.size
        IN  [x |-> MonPro(y, y, mod, n0),
             window |-> window,
             size |-> IF bit = 1 \/ size # 0 THEN size + 1 ELSE 0,
             zeros |-> IF bit = 0 /\ size # 0
                         THEN (IF flush THEN 0 ELSE s.zeros) + 1 ELSE 0]
      bits == LaterBits(b)
      f[i \in 0 .. Len(bits)] ==
        IF i = 0 THEN [x |-> d.r, window |-> 0, size |-> 0, zeros |-> 0]
        ELSE LET p == f[i - 1] IN Step(p, bits[i])
      last == f[Len(bits)]
      x == IF last.size # 0 THEN Times(last.x, last.window) ELSE last.x
      c == MonPro(x, Padded(<<1>>, n), mod, n0)
  IN  IF Top(b) = 0 THEN Undefined
      ELSE IF bits = <<>> THEN First(Append(c, 0) \o Rest(d.q, n + 1), Len(a))
      ELSE c

\* pow2mod(), in n words.
Pow2Mod(a, b, n) ==
  LET x == IF Len(a) >= n THEN First(a, n) ELSE Padded(a, n)
      e == Strip(b)
      bits == LaterBits(e)
      f[i \in 0 .. Len(bits)] ==
        IF i = 0 THEN x
        ELSE LET p == f[i - 1]
                 z == First(Sqr(p), n)
             IN  IF bits[i] = 1 THEN First(MultInner(z, x), n) ELSE z
  IN  IF IsWord(e, 0) THEN Padded(<<1>>, n) ELSE f[Len(bits)]

\* The words of x and what is behind them in its buffer, n words in all.
Behind(x, n, junk) == First(x \o [i \in 1 .. n |-> junk], n)

\* x + q * ((y - x) / q % 2 ** j): the number below mod = q * 2 ** j that is y
\* modulo 2 ** j, of n words and with the mask for the last one, and x modulo q.
Combined(x, y, q, mod, n, mask) ==
  LET Masked(z) == [First(z, n) EXCEPT ![n] = @ % mask]
      minus == ~(n >= Len(q) /\ Cmp(y, x) >= 0)
      diff == IF minus THEN Sub(First(Padded(x, n), n), y) ELSE Sub(y, x)
      z == IF mask = Base THEN Append(Zeros(n), 1) ELSE Append(Zeros(n - 1), mask)
      inverse == IF n = 1 THEN <<WordInv(q[1])>> ELSE ModInv(q, z).num
      p == MultInner(diff, inverse)
      m == First(Padded(Mult(q, Masked(p)), Len(mod)), Len(mod))
  IN  IF p = Undefined THEN Undefined
      ELSE IF minus
        THEN IF Cmp(m, x) <= 0 THEN Sub(Padded(x, Len(m)), m)
             ELSE Sub(mod, Sub(m, x))
        ELSE IF Cmp(Sum(m, x), mod) >= 0 THEN Sub(Sum(m, x), mod) ELSE Sum(m, x)

\* power(): alias says which operand the result shares its buffer with.  For an
\* even mod the size of the result is used for another before the operands are.
\* An exponent that was made from a string has a zero behind it.
Power(a, b, mod, alias, junk) ==
  LET s == CHOOSE k \in 0 .. Len(mod) - 1 :
             mod[k + 1] # 0 /\ \A i \in 1 .. k : mod[i] = 0
      i == CHOOSE k \in 0 .. W - 1 :
             mod[s + 1] % 2 ^ (k + 1) # 0 /\ mod[s + 1] % 2 ^ k = 0
      q == StripOne(First(RShift(mod, s * W + i), Len(mod) - s))
      n == IF i = 0 THEN s ELSE s + 1
      mask == IF i = 0 THEN Base ELSE 2 ^ i
      a1 == IF alias = "a" THEN Behind(a, n, junk) ELSE a
      b1 == IF alias = "b" THEN Behind(b, n, junk) ELSE b
      e == IF alias = "b" THEN b1 ELSE Behind(Append(b, 0), n, junk)
      y == [Pow2Mod(a1, e, n) EXCEPT ![n] = @ % mask]
      x == PowQMod(a1, b1, q)
  IN  IF IsWord(b, 0) THEN <<1>>
      ELSE IF IsWord(a, 0) \/ IsWord(a, 1) THEN a
      ELSE IF Odd(mod) THEN PowQMod(a, b, mod)
      ELSE IF IsWord(q, 1) THEN y
      ELSE IF x = Undefined THEN Undefined
      ELSE Combined(x, y, q, mod, n, mask)
=============================================================================
