------------------------------ MODULE AsnCalls ------------------------------
(***************************************************************************)
(* Calls of the operations on ASNs (AsnOps), and what each of them is to   *)
(* return, which follows from the integers that the strings stand for.     *)
(***************************************************************************)
EXTENDS Integers, Sequences, FiniteSets, TLC

-----------------------------------------------------------------------------
(***************************************************************************)
(* Integers of any length: words of 2 bits, and of 4 for what takes the    *)
(* string apart or has the shift in a word, and for the guess of a digit   *)
(* that is two too high.                                                   *)
(***************************************************************************)
Narrow == INSTANCE AsnOps WITH ByteBits <- 1, WordBytes <- 2, WindowSize <- 2
Wide == INSTANCE AsnOps WITH ByteBits <- 2, WordBytes <- 2, WindowSize <- 3

\* The integer that a string is, with bytes of k bits, and the shortest string
\* of an integer.
IntOf(s, k) ==
  LET v[i \in 0 .. Len(s)] == IF i = 0 THEN 0 ELSE v[i - 1] * 2 ^ k + s[i]
  IN  IF s = <<>> THEN 0
      ELSE v[Len(s)] - (IF s[1] >= 2 ^ (k - 1) THEN 2 ^ (k * Len(s)) ELSE 0)

StringOf(v, k) ==
  LET Fits(n) == v \in -(2 ^ (k * n - 1)) .. 2 ^ (k * n - 1) - 1
      len == CHOOSE n \in 1 .. 28 : Fits(n) /\ (n = 1 \/ ~Fits(n - 1))
      u == IF v < 0 THEN v + 2 ^ (k * len) ELSE v
  IN  [i \in 1 .. len |-> (u \div 2 ^ (k * (len - i))) % 2 ^ k]

Abs(v) == IF v < 0 THEN -v ELSE v
Sign(v) == IF v < 0 THEN -1 ELSE 1

\* Quotient and remainder of LPC: rounded to zero, with the sign of v.
Quo(v, w) == Sign(v) * Sign(w) * (Abs(v) \div Abs(w))
Rem(v, w) == Sign(v) * (Abs(v) % w)

PowerMod(a, b, m) ==
  LET p[i \in 0 .. b] == IF i = 0 THEN 1 % m ELSE (p[i - 1] * (a % m)) % m
  IN  p[b]

Inverses(a, m) == {x \in 0 .. m - 1 : (x * (a % m)) % m = 1 % m}

TheInverse(a, m) == CHOOSE x \in Inverses(a, m) : TRUE

BitOf(v, i) == (v \div 2 ^ i) % 2

BitsOf(op, a, b) ==
  LET At(i) == CASE op = "and" -> BitOf(a, i) * BitOf(b, i)
                 [] op = "or" -> IF BitOf(a, i) + BitOf(b, i) > 0 THEN 1 ELSE 0
                 [] op = "xor" -> (BitOf(a, i) + BitOf(b, i)) % 2
      v[i \in 0 .. 10] == IF i = 0 THEN -At(10) * 2 ^ 10
                          ELSE v[i - 1] + At(i - 1) * 2 ^ (i - 1)
  IN  v[10]

Edges == {0, 1, 2, 3, 4, 5, 14, 15, 16, 17, 63, 64, 65}
Mirrored(S) == S \cup {-v : v \in S}

\* Numbers of n words with extreme words.
Extreme(n) ==
  {LET v[i \in 0 .. n] == IF i = 0 THEN 0 ELSE 4 * v[i - 1] + w[i] IN v[n] :
     w \in [1 .. n -> {0, 1, 3}]}

Job(op, A, B, M) == [op : {op}, a : A, b : B, m : M, junk : {0}]

Strings == UNION {[1 .. n -> 0 .. 3] : n \in 0 .. 5}

AsnJobs ==
  UNION {Job(op, Mirrored(Edges), Mirrored(Edges), {1, 2, 3, 15, 16, 17, 300}) :
           op \in {"add", "sub"}}
  \cup Job("cmp", Mirrored(Edges), Mirrored(Edges), {1})
  \cup Job("mult", Extreme(4), Extreme(4), {2 ^ 20})
  \cup Job("mult", Extreme(5), {-1, 2, 13, 200, 255}, {7, 64, 255, 2 ^ 20})
  \cup Job("mult", {2, 13, -200, 255, 1023}, Extreme(5), {67})
  \cup Job("div", Extreme(5) \cup 1280 .. 1300 \cup {768, 1408, 2400, 2560, -3840},
          {1, 3, -5, 13, 17, 35, 70, 143, 191, 255, 256, 275, 287}, {2 ^ 20, 7, 200})
  \cup Job("mod", Mirrored(Extreme(4)) \cup Extreme(5), {1, 3, 4, 5, 13, 16, 48, 63, 64, 65}, {1})
  \cup [op : {"pow"}, a : {0, 1, 2, 3, 6, -2, -3, 21, 256}, b : {0, 1, 2, 3, 7, 11, 16, 27, -1, -3},
        m : {1, 2, 3, 6, 7, 8, 12, 15, 16, 24, 40, 48, 63, 65, 80, 192, 320}, junk : {0, 1}]
  \cup Job("modinv", {0, 1, 2, 3, -3, 5, 6, 7, 15, 16, 25, 63, 64, 1000}, {0}, 1 .. 24 \cup {63, 64, 65, 255, 1000})
  \cup [op : {"lshift"}, a : {0, 1, -1, 2, 5, 100, -300, 2 ^ 14 + 1}, b : 0 .. 15,
        m : {1, 2, 3, 12, 15, 16, 17, 48, 96, 100, 224, 256, 768, 4096}, junk : {0, 1}]
  \cup [op : {"rshift"}, a : Strings, b : {0, 1, 4, 5, 9}, m : {1}, junk : {0}]
  \cup UNION {Job(op, -18 .. 18, {-130, -65, -64, -4, -1, 0, 1, 3, 6, 64, 127, 500}, {1}) :
                op \in {"and", "or", "xor"}}

OfWide == {"div", "lshift", "rshift", "and", "or", "xor"}
ByteOf(j) == IF j.op \in OfWide THEN 2 ELSE 1

AsnCall(j) ==
  LET S(v) == StringOf(v, ByteOf(j))
  IN  CASE j.op = "add" -> Narrow!AsnAdd(S(j.a), S(j.b), S(j.m))
        [] j.op = "sub" -> Narrow!AsnSub(S(j.a), S(j.b), S(j.m))
        [] j.op = "cmp" -> <<Narrow!AsnCmp(S(j.a), S(j.b))>>
        [] j.op = "mult" -> Narrow!AsnMult(S(j.a), S(j.b), S(j.m))
        [] j.op = "div" -> Wide!AsnDiv(S(j.a), S(j.b), S(j.m))
        [] j.op = "mod" -> Narrow!AsnMod(S(j.a), S(j.b))
        [] j.op = "pow" -> Narrow!AsnPow(S(j.a), S(j.b), S(j.m), j.junk)
        [] j.op = "modinv" -> Narrow!AsnModInv(S(j.a), S(j.m))
        [] j.op = "lshift" -> Wide!AsnLShift(S(j.a), j.b, S(j.m), j.junk)
        [] j.op = "rshift" -> Wide!AsnRShift(j.a, j.b)
        [] OTHER -> Wide!AsnBits(j.op, S(j.a), S(j.b))

\* What the call is to return; the strings of a bitwise operator are not made
\* shorter.
AsnExpected(j) ==
  LET S(v) == StringOf(v, ByteOf(j))
  IN  CASE j.op = "add" -> S(Rem(j.a + j.b, j.m))
        [] j.op = "sub" -> S(Rem(j.a - j.b, j.m))
        [] j.op = "cmp" -> <<IF j.a < j.b THEN -1 ELSE IF j.a > j.b THEN 1 ELSE 0>>
        [] j.op = "mult" -> S(Rem(j.a * j.b, j.m))
        [] j.op = "div" -> S(Rem(Quo(j.a, j.b), j.m))
        [] j.op = "mod" -> S(Rem(j.a, j.b))
        [] j.op = "pow" ->
             LET x == IF j.b < 0 THEN TheInverse(Abs(j.a), j.m) ELSE Abs(j.a)
             IN  IF j.b < 0 /\ Inverses(Abs(j.a), j.m) = {} THEN Narrow!Error
                 ELSE S((IF Abs(j.b) % 2 = 1 THEN Sign(j.a) ELSE 1)
                          * PowerMod(x, Abs(j.b), j.m))
        [] j.op = "modinv" ->
             IF Inverses(Abs(j.a), j.m) = {} THEN Narrow!Error
             ELSE S(Sign(j.a) * TheInverse(Abs(j.a), j.m))
        [] j.op = "lshift" -> S(Rem(j.a * 2 ^ j.b, j.m))
        [] j.op = "rshift" -> S(Quo(IntOf(j.a, 2), 2 ^ j.b))
        [] OTHER -> StringOf(BitsOf(j.op, j.a, j.b), 2)

AsnCorrect(j, r) ==
  IF j.op \in {"and", "or", "xor"} /\ r # Narrow!Error
    THEN StringOf(IntOf(r, 2), 2) = AsnExpected(j)
    ELSE r = AsnExpected(j)

\* Negative powers of the word base: strtonum() loses their only digit, and
\* numtostr() looks for a byte other than 0xff in a word which has none.
LostPower(v, k) == v < 0 /\ \E i \in 1 .. 28 : k * 2 * i <= 28 /\ -v = 2 ^ (k * 2 * i)

\* What the code is known to do otherwise (see the README): Words(v) is the
\* number of words of v, and j.m is q * 2 ** twos, with q odd.
Words(v) == Cardinality({i \in 1 .. 13 : 4 ^ i <= v}) + 1

SumExcepted(j) ==
  LET k == ByteOf(j)
  IN  \/ LostPower(IF j.op = "rshift" THEN IntOf(j.a, k) ELSE j.a, k)
      \/ j.op \in {"add", "sub", "cmp", "and", "or", "xor"} /\ LostPower(j.b, k)
      \/ j.op \in {"add", "sub", "lshift", "rshift"}
           /\ LostPower(IntOf(AsnExpected(j), k), k)
      \* the exponent of 2 is read past its end
      \/ j.op = "lshift" /\ j.m % 32 = 0 /\ j.a > 2 ^ 13

ProductExcepted(j) ==
  LET a == Abs(j.a)
      b == Abs(j.b)
      \* the sum of the inner products needs another word
      Overflows(x, y) ==
        Words(x) = 4 /\ Words(y) = 3
          /\ (x \div 16) * (y % 16) + (x % 16) * (y \div 16) >= 256
      k == ByteOf(j)
  IN  \/ LostPower(j.a, k) \/ LostPower(j.b, k) \/ LostPower(IntOf(AsnExpected(j), k), k)
      \/ j.op = "mult" /\ (Overflows(a, b) \/ Overflows(b, a))
      \/ j.op = "mod" /\ a = b

PowerExcepted(j) ==
  LET b == Abs(j.b)
      twos == CHOOSE i \in 0 .. 20 : j.m % 2 ^ i = 0 /\ (j.m \div 2 ^ i) % 2 = 1
      n == (twos + 1) \div 2
  IN  \/ j.m = 1
      \/ AsnExpected(j) # Narrow!Error /\ LostPower(IntOf(AsnExpected(j), 1), 1)
      \/ j.op = "pow" /\ j.a < 0 /\ b % 2 = 0 /\ b % 4 # 0
      \/ j.op = "pow" /\ b = 1 /\ Words(j.a) >= Words(j.m \div 2 ^ twos) + 2
      \/ j.op = "pow" /\ twos > 0 /\ (n > Words(b) + 1 \/ Words(b) > n \/ j.b < 0)

-----------------------------------------------------------------------------
Sums == {"add", "sub", "cmp", "lshift", "rshift", "and", "or", "xor"}
Products == {"mult", "div", "mod"}
Powers == {"pow", "modinv"}

AsnAgrees(j, r) ==
  \/ AsnCorrect(j, r)
  \/ CASE j.op \in Sums -> SumExcepted(j)
       [] j.op \in Products -> ProductExcepted(j)
       [] OTHER -> PowerExcepted(j)
=============================================================================
