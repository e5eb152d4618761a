-------------------------------- MODULE Nodes --------------------------------
(***************************************************************************)
(* The values, the integer operators and the parse tree nodes that the     *)
(* compiler (src/src/comp) and the interpreter (src/src/interpret.cpp)     *)
(* share, for functions whose values are integers, nil and strings that    *)
(* are only passed on: LPCint in Width bits, kfun/builtin.cpp and node.h.  *)
(***************************************************************************)
EXTENDS Integers, Sequences

CONSTANT Width          \* bits of an LPCint, LPCINT_BITS

ASSUME WidthAssumption == Width \in {4, 8, 16}      \* a power of two

------------------------------------------------------------------------------
(* Values.                                                                 *)

Lowest == -(2^(Width - 1))
Ints == Lowest .. -Lowest - 1
NilValue == 2^Width                 \* T_NIL
StrValue == 2^Width + 1             \* a T_STRING: the text of an error
ErrValue == 2^Width + 2             \* EC->error() instead of a value

Num(n) == ((n - Lowest) % 2^Width) + Lowest         \* what an LPCint keeps of n
Uint(n) == n % 2^Width                              \* (LPCuint) n
Truth(b) == IF b THEN 1 ELSE 0
IsTrue(v) == v \notin {0, NilValue}                 \* VAL_TRUE

Larger(a, b) == IF a > b THEN a ELSE b              \* max2

(* Stacks: the last value is on top.                                       *)
Top(s) == s[Len(s)]
Below(s) == SubSeq(s, 1, Len(s) - 1)

RECURSIVE Bits(_, _, _)
Bits(op, a, b) ==
    IF a = 0 /\ b = 0 THEN 0
    ELSE LET x == a % 2
             y == b % 2
             bit == CASE op = "and" -> x * y
                      [] op = "or"  -> Larger(x, y)
                      [] op = "xor" -> (x + y) % 2
         IN  2 * Bits(op, a \div 2, b \div 2) + bit

(* Frame::div and Frame::mod round to zero.  Lowest / -1 is undefined: here *)
(* it is Lowest, and the remainder 0.                                      *)
Size(n) == IF n < 0 THEN -n ELSE n
Div(a, b) ==
    LET q == Size(a) \div Size(b)
    IN  IF b = 0 THEN ErrValue ELSE Num(IF (a < 0) = (b < 0) THEN q ELSE -q)

Mod(a, b) ==
    LET m == Size(a) % Size(b)
    IN  IF b = 0 THEN ErrValue ELSE IF a < 0 THEN -m ELSE m

Shift(a, b, to) ==
    IF b < 0 THEN ErrValue
    ELSE IF b >= Width THEN 0
    ELSE Num(IF to = "left" THEN Uint(a) * 2^b ELSE Uint(a) \div 2^b)

Comparisons == {"eq", "ne", "lt", "le", "gt", "ge"}

Compare(op, a, b) ==
    Truth(CASE op = "eq" -> a = b
            [] op = "ne" -> a # b
            [] op = "lt" -> a < b
            [] op = "le" -> a <= b
            [] op = "gt" -> a > b
            [] op = "ge" -> a >= b)

(* The kfun of a binary operator on two integers.                          *)
IntOp(op, a, b) ==
    CASE op = "add"    -> Num(a + b)
      [] op = "sub"    -> Num(a - b)
      [] op = "mult"   -> Num(a * b)
      [] op = "div"    -> Div(a, b)
      [] op = "mod"    -> Mod(a, b)
      [] op = "lshift" -> Shift(a, b, "left")
      [] op = "rshift" -> Shift(a, b, "right")
      [] op \in {"and", "or", "xor"} -> Num(Bits(op, Uint(a), Uint(b)))
      [] op \in Comparisons -> Compare(op, a, b)

(* The same of operands of any type: only == and != take every value.      *)
AnyOp(op, a, b) ==
    IF a \in Ints /\ b \in Ints THEN IntOp(op, a, b)
    ELSE IF op \in {"eq", "ne"} THEN Compare(op, a, b)
    ELSE ErrValue

------------------------------------------------------------------------------
(* Nodes: the type of the node and whether it is the _INT variant of an    *)
(* operator, the modifier (of an expression, the type of its value), the   *)
(* children, the number, the flags.                                        *)

Create(type, int, mod, left, right, num) ==
    [t |-> type, i |-> int, m |-> mod, l |-> left, r |-> right, v |-> num,
     f |-> {}]

Null == Create("null", FALSE, "void", 0, 0, 0)
IsNull(n) == n.t = "null"

IntNode(num) ==
    [Create("int", FALSE, "int", Null, Null, num) EXCEPT !.f = {"const"}]
NilNode ==
    [Create("nil", FALSE, "nil", Null, Null, NilValue) EXCEPT !.f = {"const"}]
LocalNode(k, mod) == Create("local", FALSE, mod, Null, Null, k)
Mon(type, mod, left) == Create(type, FALSE, mod, left, Null, 0)
Bin(type, mod, left, right) == Create(type, FALSE, mod, left, right, 0)
Op(type, int, mod, left, right) == Create(type, int, mod, left, right, 0)

IsConst(n) == "const" \in n.f
IsInt(n, num) == n.t = "int" /\ n.v = num

Reach == {"case", "label"}
Ends == {"break", "continue", "exit"}
Flow == {"entry", "case"} \cup Ends

(* The operator of an assignment, and the assignments by one.              *)
AssignOps == {"add_eq", "sub_eq", "mult_eq", "div_eq", "mod_eq", "and_eq",
              "or_eq", "xor_eq", "lshift_eq", "rshift_eq"}
OperatorOf == [add_eq |-> "add", sub_eq |-> "sub", mult_eq |-> "mult",
               div_eq |-> "div", mod_eq |-> "mod", and_eq |-> "and",
               or_eq |-> "or", xor_eq |-> "xor", lshift_eq |-> "lshift",
               rshift_eq |-> "rshift"]
Steps == {"add_eq_1", "sub_eq_1"}

------------------------------------------------------------------------------
(* A condition and its negation, of the compiler and of the optimizer.     *)

Negated == [eq |-> "ne", ne |-> "eq", lt |-> "ge", ge |-> "lt",
            gt |-> "le", le |-> "gt", tst |-> "not", not |-> "tst"]

RECURSIVE Tst(_), Not(_)
Tst(n) ==
    CASE IsConst(n) -> IntNode(Truth(IsTrue(n.v)))
      [] n.t \in Comparisons \cup {"tst", "not", "land"} -> n
      [] n.t = "comma" -> [n EXCEPT !.m = "int", !.r = Tst(n.r)]
      [] OTHER -> Mon("tst", "int", n)

Not(n) ==
    CASE IsConst(n) -> IntNode(Truth(~ IsTrue(n.v)))
      [] n.t \in DOMAIN Negated -> [n EXCEPT !.t = Negated[n.t]]
      [] n.t = "land" -> [n EXCEPT !.t = "lor", !.l = Not(n.l), !.r = Not(n.r)]
      [] n.t = "lor" -> [n EXCEPT !.t = "land", !.l = Not(n.l), !.r = Not(n.r)]
      [] n.t = "comma" -> [n EXCEPT !.m = "int", !.r = Not(n.r)]
      [] OTHER -> Mon("not", "int", n)
==============================================================================
