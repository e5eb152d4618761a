------------------------------- MODULE AsnOps -------------------------------
(***************************************************************************)
(* The asn_*() functions of LPC (class ASN of host/asn.cpp): strings are   *)
(* made into numbers with a sign, and the result into a string again.  A   *)
(* string is the sequence of its bytes, the highest first.  Out of ticks   *)
(* and out of memory are left out.                                         *)
(***************************************************************************)
EXTENDS Asn, SequencesExt

Error == <<-1>>       \* "Invalid modulus", "Division by zero", "No inverse"

Filled == 2 ^ ByteBits - 1              \* 0xff
IsNegative(byte) == byte >= 2 ^ (ByteBits - 1)

\* strtonum()
Number(s) ==
  LET minus == s # <<>> /\ IsNegative(s[1])
      fill == IF minus THEN Filled ELSE 0
      digits == {i \in DOMAIN s : s[i] # fill}
      len == Len(s) - Min(digits) + 1
      size == (len + WordBytes - 1) \div WordBytes
      Byte(k) == IF k <= len THEN s[Len(s) - k + 1] ELSE fill
      words == [i \in 1 .. size |->
                  FoldLeft(LAMBDA w, k : w * 2 ^ ByteBits + Byte(i * WordBytes - k),
                           0, [k \in 1 .. WordBytes |-> k - 1])]
  IN  [minus |-> minus,
       num |-> IF digits = {} THEN <<IF minus THEN 1 ELSE 0>>
               ELSE IF minus THEN Sub(Zeros(size), words) ELSE words]

\* The bytes of x, the highest first.
BytesOf(x) ==
  LET n == Len(x) * WordBytes
  IN  [i \in 1 .. n |->
         LET k == n - i
         IN  (x[k \div WordBytes + 1] \div 2 ^ (ByteBits * (k % WordBytes)))
               % 2 ^ ByteBits]

\* numtostr(): for a negative number the bytes 0xff of the top word are
\* skipped, and there has to be another one in that word.
String(x, minus) ==
  LET y == Strip(x)
      z == IF minus THEN Sub(Zeros(Len(y)), y) ELSE y
      fill == IF minus THEN Filled ELSE 0
      bytes == BytesOf(z)
      first == CHOOSE i \in 1 .. WordBytes :
                 bytes[i] # fill /\ \A j \in 1 .. i - 1 : bytes[j] = fill
      text == SubSeq(bytes, first, Len(bytes))
  IN  IF IsWord(y, 0) THEN <<0>>
      ELSE IF minus /\ IsWord(z, Base - 1) THEN <<Filled>>
      ELSE IF minus /\ Top(z) = Base - 1 THEN Undefined
      ELSE IF IsNegative(text[1]) # minus THEN <<fill>> \o text
      ELSE text

Invalid(m) == Number(m).minus \/ IsWord(Number(m).num, 0)

\* What is left modulo m after a sum or difference: m is subtracted once
\* before it is divided by.
Remainder(c, m) ==
  LET once == Sub(c, m)
  IN  IF ~AtLeast(c, m) THEN c
      ELSE IF Cmp(once, m) >= 0 THEN Div(once, m).r ELSE once

\* a + b of two numbers with signs, as a string, modulo m.
Total(a, b, m) ==
  LET first == Len(a.num) > Len(b.num) \/ AtLeast(a.num, b.num)
      x == IF first THEN a ELSE b
      y == IF first THEN b ELSE a
      c == IF a.minus # b.minus THEN Sub(x.num, y.num)
           ELSE Sum(Append(x.num, 0), y.num)
  IN  IF Invalid(m) THEN Error ELSE String(Remainder(c, Number(m).num), x.minus)

\* add(), sub()
AsnAdd(s1, s2, m) == Total(Number(s1), Number(s2), m)

AsnSub(s1, s2, m) ==
  LET b == Number(s2)
  IN  Total(Number(s1), [b EXCEPT !.minus = ~@], m)

\* cmp()
AsnCmp(s1, s2) ==
  LET a == Number(s1)
      b == Number(s2)
      c == IF Len(a.num) < Len(b.num) THEN -1
           ELSE IF Len(a.num) > Len(b.num) THEN 1
           ELSE Cmp(a.num, b.num)
  IN  IF a.minus # b.minus THEN (IF a.minus THEN -1 ELSE 1)
      ELSE IF a.minus THEN -c ELSE c

\* mult()
AsnMult(s1, s2, m) ==
  LET a == Number(s1)
      b == Number(s2)
      mod == Number(m).num
      c == Mult(a.num, b.num)
  IN  IF Invalid(m) THEN Error
      ELSE String(IF AtLeast(c, mod) THEN Div(c, mod).r ELSE c, a.minus # b.minus)

\* div()
AsnDiv(s1, s2, m) ==
  LET a == Number(s1)
      b == Number(s2)
      mod == Number(m).num
      d == First(Div(a.num, b.num).q, Len(a.num) - Len(b.num) + 1)
      c == IF ~AtLeast(a.num, b.num) THEN <<0>>
           ELSE IF AtLeast(d, mod) THEN Div(d, mod).r
           ELSE d
  IN  IF Invalid(m) \/ IsWord(b.num, 0) THEN Error
      ELSE String(c, a.minus # b.minus)

\* mod()
AsnMod(s1, s2) ==
  LET a == Number(s1)
      b == Number(s2).num
      c == IF Len(a.num) >= Len(b) /\ Cmp(a.num, b) > 0 THEN Div(a.num, b).r
           ELSE a.num
  IN  IF Invalid(s2) THEN Error ELSE String(c, a.minus)

\* pow(): a negative exponent is one of the inverse.
AsnPow(s1, s2, m, junk) ==
  LET a == Number(s1)
      b == Number(s2)
      mod == Number(m).num
      inverse == ModInv(a.num, mod)
      c == IF b.minus THEN Power(inverse.num, b.num, mod, "a", junk)
           ELSE Power(a.num, b.num, mod, "none", junk)
  IN  IF Invalid(m) \/ (b.minus /\ ~inverse.found) THEN Error
      ELSE IF c = Undefined THEN Undefined
      ELSE String(c, a.minus /\ b.num[1] # 0)

\* modinv()
AsnModInv(s1, m) ==
  LET a == Number(s1)
      inverse == ModInv(a.num, Number(m).num)
  IN  IF Invalid(m) \/ ~inverse.found THEN Error
      ELSE String(inverse.num, a.minus)

\* lshift(): by a large number of bits as a product with a power of 2.
AsnLShift(s1, shift, m, junk) ==
  LET a == Number(s1)
      mod == Number(m).num
      more == (shift + W - 1) \div W
      direct == (Len(s1) \div WordBytes) + 2 + more <= 4 * Len(mod)
      p == Power(<<2>>, <<shift>>, mod, "b", junk)
      c == IF ~direct THEN Mult(p, a.num)
           ELSE IF shift = 0 THEN a.num
           ELSE LShift(Padded(a.num, Len(a.num) + more), shift)
  IN  IF Invalid(m) THEN Error
      ELSE IF ~direct /\ p = Undefined THEN Undefined
      ELSE String(IF AtLeast(c, mod) THEN Div(c, mod).r ELSE c, a.minus)

\* rshift()
AsnRShift(s, shift) ==
  LET a == Number(s)
  IN  String(IF shift \div W >= Len(a.num) THEN <<0>>
             ELSE IF shift # 0 THEN RShift(a.num, shift)
             ELSE a.num, a.minus)

\* _and(), _or(), _xor(), with the operator on the bits of a byte: the shorter
\* string is extended by its sign.
Extended(s, n) ==
  [i \in 1 .. n - Len(s) |-> IF IsNegative(s[1]) THEN Filled ELSE 0] \o s

ByteWise(op, x, y) ==
  FoldLeft(LAMBDA v, k :
             LET p == (x \div 2 ^ (ByteBits - k)) % 2
                 q == (y \div 2 ^ (ByteBits - k)) % 2
             IN  2 * v + CASE op = "and" -> p * q
                           [] op = "or" -> p + q - p * q
                           [] op = "xor" -> (p + q) % 2,
           0, [k \in 1 .. ByteBits |-> k])

AsnBits(op, s1, s2) ==
  LET short == IF Len(s1) < Len(s2) THEN s1 ELSE s2
      long == IF Len(s1) < Len(s2) THEN s2 ELSE s1
      ext == Extended(short, Len(long))
  IN  [i \in DOMAIN long |-> ByteWise(op, ext[i], long[i])]
=============================================================================
