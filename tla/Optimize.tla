------------------------------- MODULE Optimize -------------------------------
(***************************************************************************)
(* The optimizer of the compiler, src/src/comp/optimize.cpp: it rewrites   *)
(* the parse tree of a function, drops statements that cannot be reached   *)
(* and computes the depth of the stack that the function needs.            *)
(*                                                                         *)
(* Comma expressions inside of an expression are taken out of it and       *)
(* collected in front (aside): an expression is optimized to the node n,   *)
(* the depth d, 0 when nothing is left of it, the expressions taken out of *)
(* it s and their depth sd (sidedepth).                                    *)
(***************************************************************************)
EXTENDS Nodes

Got(n, d) == [n |-> n, d |-> d, s |-> <<>>, sd |-> 0]

(* r with the expressions taken out earlier, in e.                         *)
After(e, r) == [r EXCEPT !.s = e.s \o r.s, !.sd = Larger(e.sd, r.sd)]

(* Nothing, or one value when it is used.                                  *)
One(pop) == IF pop THEN 0 ELSE 1

RECURSIVE List(_)
List(s) ==
    IF Len(s) = 1 THEN s[1] ELSE Bin("comma", s[1].m, s[1], List(Tail(s)))

(* Mutant: the depth of the expressions taken out is forgotten.            *)
ClosedMain(e) ==
    LET kept == IF e.d = 0 THEN Null ELSE e.n
    IN  Got(CASE e.s = <<>> -> kept
              [] e.s # <<>> /\ IsNull(kept) -> List(e.s)
              [] OTHER -> Bin("comma", kept.m, List(e.s), kept), e.d)

(* A part of which the expressions taken out stay in front of it.          *)
Closed(e) ==
    LET kept == IF e.d = 0 THEN Null ELSE e.n
    IN  Got(CASE e.s = <<>> -> kept
              [] e.s # <<>> /\ IsNull(kept) -> List(e.s)
              [] OTHER -> Bin("comma", kept.m, List(e.s), kept),
            Larger(e.d, e.sd))

(* An expression taken out: e is its left side, optimized and popped.      *)
Aside(e) ==
    IF e.d = 0 THEN e
    ELSE [e EXCEPT !.s = @ \o <<e.n>>, !.sd = Larger(@, e.d)]

------------------------------------------------------------------------------
(* Constants and binary operators.                                         *)

Binconst(n) ==
    LET value == IF n.l.t # n.r.t \/ n.l.t = "nil"
                 THEN AnyOp(n.t, n.l.v, n.r.v)
                 ELSE IF n.i THEN IntOp(n.t, n.l.v, n.r.v) ELSE ErrValue
    IN  IF value = ErrValue THEN Got(n, 2) ELSE Got(IntNode(value), 1)

Commutes(n) ==
    \/ n.t \in {"and", "or", "xor", "mult", "eq", "ne"}
    \/ n.t = "add" /\ n.l.m = "int" /\ n.r.m = "int"

(* Mutant: the constants of x - c1 - c2 are subtracted from each other.    *)
MergedSub(op, c1, c2) ==
    CASE op \in {"add", "lshift", "rshift"} -> IntOp("add", c1, c2)
      [] op \in {"div", "mult"} -> IntOp("mult", c1, c2)
      [] OTHER -> IntOp(op, c1, c2)

(* (x . c1) . c2: the two constants are one.                               *)
Merged(op, c1, c2) ==
    CASE op \in {"add", "sub", "lshift", "rshift"} -> IntOp("add", c1, c2)
      [] op \in {"div", "mult"} -> IntOp("mult", c1, c2)
      [] OTHER -> IntOp(op, c1, c2)
WithRight(n, num) == [n EXCEPT !.r = IntNode(num)]

(* x . c, with c on the right and x of depth d.                            *)
RightConst(n, d, depth) ==
    LET x == n.l
        c == n.r.v
    IN  CASE /\ x.t = n.t /\ (x.i = n.i \/ n.i)
             /\ IsConst(x.r)
             /\ n.t \in {"add", "sub", "lshift", "rshift", "and", "or", "xor",
                         "div", "mult"}
             -> Got(WithRight(x, Merged(n.t, x.r.v, c)), d)
          [] n.t = "add" /\ x.t = "sub" /\ x.l.t = "int"
             -> Got([x EXCEPT !.l = IntNode(IntOp("add", x.l.v, c))], d)
          [] n.t = "add" /\ x.t = "sub" /\ x.l.t # "int" /\ x.r.t = "int"
             -> Got(WithRight(x, IntOp("sub", x.r.v, c)), d)
          [] n.t = "sub" /\ x.t = "add" /\ x.i /\ x.r.t = "int"
             -> Got(WithRight(x, IntOp("sub", x.r.v, c)), d)
          [] OTHER -> Got(n, depth)

(* c - x, x of depth d.                                                    *)
LeftConst(n, d, depth) ==
    LET c == n.l.v
        x == n.r
    IN  CASE n.t = "sub" /\ x.t = "sub" /\ x.l.t = "int"
             -> Got(Op("sub", x.i, n.m, x.r, IntNode(IntOp("sub", x.l.v, c))), d)
          [] n.t = "sub" /\ x.t = "sub" /\ x.l.t # "int" /\ x.r.t = "int"
             -> Got([x EXCEPT !.l = IntNode(IntOp("add", c, x.r.v)), !.r = x.l],
                    d + 1)
          [] n.t = "sub" /\ x.t = "add" /\ x.i /\ x.r.t = "int"
             -> Got([n EXCEPT !.l = IntNode(IntOp("sub", c, x.r.v)), !.r = x.l],
                    d + 1)
          [] OTHER -> Got(n, depth)

(* What x . c is when the operator changes nothing or loses x.             *)
Unchanging(op, c) ==
    \/ op \in {"add", "sub", "lshift", "rshift", "xor", "or"} /\ c = 0
    \/ op = "and" /\ c = -1
    \/ op \in {"mult", "div"} /\ c = 1
Losing(op, c) ==
    \/ op \in {"and", "mult"} /\ c = 0
    \/ op = "mod" /\ c = 1
    \/ op = "or" /\ c = -1
LostTo(op, c) == IF op = "mod" THEN 0 ELSE c

RECURSIVE Expr(_, _), Fold(_, _, _)

(* A binary operator of optimized operands, of depth d1 and d2.            *)
Fold(node, depth1, depth2) ==
    LET swap == IsConst(node.l) /\ ~ IsConst(node.r) /\ Commutes(node)
        n == IF swap THEN [node EXCEPT !.l = node.r, !.r = node.l] ELSE node
        d1 == IF swap THEN depth2 ELSE depth1
        d2 == IF swap THEN depth1 ELSE depth2
        depth == Larger(d1, d2 + 1)
        zero == \/ IsInt(n.r, 0) /\ n.l.m = "int"
                \/ n.r.t = "nil" /\ n.l.m = "string"
        ints == n.m = "int" /\ n.l.m = "int" /\ n.r.m = "int"
        e == CASE IsConst(n.r) -> RightConst(n, d1, depth)
               [] ~ IsConst(n.r) /\ IsConst(n.l) -> LeftConst(n, d2, depth)
               [] OTHER -> Got(n, depth)
        known == /\ e.n.l.m = "int" /\ IsConst(e.n.r)
                 /\ e.n.i
    IN  CASE IsConst(node.l) /\ IsConst(node.r) -> Binconst(node)
          [] zero /\ n.t = "eq" -> Got(Not(n.l), d1)
          [] zero /\ n.t = "ne" -> Got(Tst(n.l), d1)
          [] ~ ints -> Got(n, depth)
          [] ints /\ known /\ Unchanging(e.n.t, e.n.r.v) -> Got(e.n.l, d1)
          [] ints /\ known /\ Losing(e.n.t, e.n.r.v)
             -> Expr(Bin("comma", e.n.m, e.n.l, IntNode(LostTo(e.n.t, e.n.r.v))),
                     FALSE)
          [] OTHER -> e

Binop(n, pop) ==
    LET a == Expr(n.l, FALSE)
        b == Expr(n.r, FALSE)
        e == After(a, After(b, Fold([n EXCEPT !.l = a.n, !.r = b.n], a.d, b.d)))
    IN  IF e.d = 1 THEN [e EXCEPT !.d = One(pop)] ELSE e

(* A binary operator that cannot fail, of which the value is not used.     *)
Popped(n) ==
    LET a == Expr(n.l, TRUE)
        b == Expr(n.r, TRUE)
    IN  CASE a.d = 0 -> After(a, b)
          [] a.d # 0 /\ b.d = 0 -> After(a, [b EXCEPT !.n = a.n, !.d = a.d])
          [] OTHER -> [After(After(a, b), Aside(Got(a.n, a.d)))
                          EXCEPT !.n = b.n, !.d = b.d]

------------------------------------------------------------------------------
(* Assignments: the lvalues are local variables, of depth 0.               *)

AssignExpr(node, pop) ==
    LET e == Expr(node.r, FALSE)
        n == [node EXCEPT !.r = e.n]
        c == n.r.v
        op == OperatorOf[n.t]
        step == CASE <<n.t, c>> \in {<<"add_eq", 1>>, <<"sub_eq", -1>>} -> "add_eq_1"
                  [] <<n.t, c>> \in {<<"sub_eq", 1>>, <<"add_eq", -1>>} -> "sub_eq_1"
                  [] OTHER -> "none"
        known == n.r.t = "int" /\ n.l.m = "int"
    IN  After(e,
          CASE known /\ Unchanging(op, c) -> Expr(n.l, pop)
            [] known /\ Losing(op, c)
               -> Expr([n EXCEPT !.t = "assign", !.i = FALSE,
                                 !.r = IntNode(LostTo(op, c))], pop)
            [] known /\ step # "none" -> Got([n EXCEPT !.t = step], 1)
            [] OTHER -> Got(n, 1 + e.d))

------------------------------------------------------------------------------
(* Expressions.                                                            *)

Untested(e) == IF e.n.t = "tst" THEN [e EXCEPT !.n = e.n.l] ELSE e

Cond(n, pop) == Untested(Expr(n, pop))

(* ctest: the constant becomes 0 or 1 unless it is an integer.             *)
Ctest(n) == IsTrue(n.v)
Tested(n) == IF n.t = "int" THEN n ELSE IntNode(Truth(Ctest(n)))

(* && and ||, decided by a constant that is false, or true.                *)
Logical(n, pop) ==
    LET decides(c) == Ctest(c) = (n.t = "lor")
        a == Cond(n.l, FALSE)
        b == Closed(Cond(n.r, pop))
        m == [n EXCEPT !.l = a.n, !.r = b.n]
    IN  IF IsConst(a.n)
        THEN After(a, IF decides(a.n) THEN Got(Tested(a.n), One(pop))
                      ELSE Expr(Mon("tst", n.m, n.r), pop))
        ELSE After(a,
               CASE b.d = 0 -> Expr(a.n, TRUE)
                 [] b.d # 0 /\ IsConst(b.n) /\ pop -> Expr(a.n, TRUE)
                 [] b.d # 0 /\ IsConst(b.n) /\ ~ pop
                    -> IF decides(b.n)
                       THEN Expr(Bin("comma", n.m, a.n, Tested(b.n)), FALSE)
                       ELSE Got(Mon("tst", n.m, a.n), a.d)
                 [] b.n.t = "comma" /\ IsConst(b.n.r) /\ decides(b.n.r)
                    -> Expr(Bin("comma", b.n.m, [m EXCEPT !.r = b.n.l],
                                Tested(b.n.r)), pop)
                 [] OTHER -> Got(m, Larger(a.d, b.d)))

Quest(n, pop) ==
    LET c == Cond(n.l, FALSE)
        a == Closed(Expr(n.r.l, pop))
        b == Closed(Expr(n.r.r, pop))
        left(e) == IF e.d = 0 THEN Null ELSE e.n
    IN  After(c,
          IF IsConst(c.n) THEN Expr(IF Ctest(c.n) THEN n.r.l ELSE n.r.r, pop)
          ELSE Got([n EXCEPT !.l = c.n,
                             !.r = Bin("pair", "void", left(a), left(b))],
                   Larger(c.d, Larger(a.d, b.d))))

Expr(n, pop) ==
    LET under(least) ==
            LET e == Expr(n.l, FALSE)
            IN  [e EXCEPT !.n = [n EXCEPT !.l = e.n], !.d = Larger(@, least)]
        caught == Closed(Expr(n.l, TRUE))
        zero == n.t \in {"div", "mod"} /\ IsInt(n.r, 0)
    IN  CASE n.t \in {"int", "nil", "local"} -> Got(n, One(pop))
          [] n.t = "cast" -> under(0)
          [] n.t \in {"neg", "umin"} -> under(2)
          [] n.t = "catch" ->
               IF caught.d = 0 THEN Got(NilNode, One(pop))
               ELSE Got([n EXCEPT !.l = caught.n], caught.d)
          [] n.t \in {"tst", "not"} -> IF pop THEN Expr(n.l, TRUE) ELSE under(0)
          [] n.t \in Steps -> Got(n, 1)
          [] n.t = "min_min" -> Got(IF pop THEN [n EXCEPT !.t = "sub_eq_1"] ELSE n, 1)
          [] n.t = "plus_plus" -> Got(IF pop THEN [n EXCEPT !.t = "add_eq_1"] ELSE n, 1)
          [] n.t \in {"ge", "gt", "le", "lt"} /\ ~ n.i /\ n.l.m # n.r.m ->
               LET a == Expr(n.l, FALSE)
                   b == Expr(n.r, FALSE)
               IN  After(a, After(b, Got([n EXCEPT !.l = a.n, !.r = b.n],
                                         Larger(a.d, b.d + 1))))
          [] n.t \in Comparisons /\ ~ (n.t \in {"ge", "gt", "le", "lt"}
                                        /\ ~ n.i /\ n.l.m # n.r.m) ->
               IF pop THEN Popped(n) ELSE Binop(n, pop)
          [] n.t \in {"add", "sub", "mult", "div", "mod", "and", "or", "xor",
                      "lshift", "rshift"} ->
               IF pop /\ n.i /\ ~ zero THEN Popped(n) ELSE Binop(n, pop)
          [] n.t \in AssignOps -> AssignExpr(n, pop)
          [] n.t = "assign" ->
               LET e == Expr(n.r, FALSE) IN [e EXCEPT !.n = [n EXCEPT !.r = e.n]]
          [] n.t = "exception" -> Got(n, 1)
          [] n.t = "comma" -> After(Aside(Expr(n.l, TRUE)), Expr(n.r, pop))
          [] n.t \in {"land", "lor"} -> Logical(n, pop)
          [] n.t = "quest" -> Quest(n, pop)

------------------------------------------------------------------------------
(* Statements: lists are pairs of a statement and the rest.  A statement   *)
(* that nothing is left of is Null.                                        *)

Constant(node) ==
    LET n == IF node.t = "comma" THEN node.r ELSE node
    IN  IF ~ IsConst(n) THEN "no" ELSE IF IsTrue(n.v) THEN "true" ELSE "false"

RECURSIVE Skip(_), Skipped(_), SkipList(_)

(* What is left of one statement that can only be reached through a label. *)
Skipped(n) ==
    LET then == Skip(n.r.l)
        else == Skip(n.r.r)
    IN  CASE n.t \in {"block", "compound"} ->
               LET k == Skip(n.l) IN IF IsNull(k) THEN Null ELSE [n EXCEPT !.l = k]
          [] n.t \in {"case", "label"} -> n
          [] n.t \in {"do", "for", "forever"} ->
               LET k == Skip(n.r) IN IF IsNull(k) THEN Null ELSE [n EXCEPT !.r = k]
          [] n.t = "if" ->
               CASE IsNull(then) -> else
                 [] IsNull(else) -> then
                 [] OTHER -> [n EXCEPT !.l = IntNode(1),
                                       !.r = [@ EXCEPT !.l = then, !.r = else]]
          [] n.t = "catch" -> Skip(n.r)
          [] n.t = "pair" -> Skip(n)
          [] OTHER -> Null

SkipList(n) ==
    LET k == Skipped(IF n.t = "pair" THEN n.l ELSE n)
    IN  CASE ~ IsNull(k) -> IF n.t = "pair" THEN [n EXCEPT !.l = k] ELSE k
          [] IsNull(k) /\ n.t = "pair" -> SkipList(n.r)
          [] OTHER -> Null

Skip(n) == IF IsNull(n) \/ n.f \cap Reach = {} THEN Null ELSE SkipList(n)

RECURSIVE Stmt(_), Single(_)

Parts(n, left, right, d) ==
    [n |-> [n EXCEPT !.l = left, !.r = right], d |-> d]

(* One statement, n, to what is left of it and the depth of stack it needs *)
Single(n) ==
    LET value == Closed(Expr(n.l, n.t \in {"pop", "forever"}))
        test == Closed(Cond(n.l, FALSE))
        popped == [n EXCEPT !.t = "pop"]
        nothing == [n |-> Null, d |-> 0]
        deeper(s, d) == [s EXCEPT !.d = Larger(@, d)]
    IN  CASE n.t = "block" ->
               LET s == Stmt(n.l)
               IN  IF IsNull(s.n) THEN s ELSE Parts(n, s.n, n.r, s.d)
          [] n.t = "case" -> LET s == Stmt(n.l) IN Parts(n, s.n, n.r, s.d)
          [] n.t = "compound" ->
               LET s == Stmt(n.l)
                   i == Stmt(n.r)
               IN  IF IsNull(s.n) THEN s
                   ELSE Parts(n, s.n, i.n, Larger(s.d, i.d))
          [] n.t = "do" ->
               LET s == Stmt(n.r) IN Parts(n, test.n, s.n, Larger(s.d, test.d))
          [] n.t = "for" ->
               LET never == Constant(test.n) = "false"
                   body == IF never THEN Skip(n.r) ELSE n.r
                   s == Stmt(body)
                   kept == [n EXCEPT !.l = test.n, !.r = body]
               IN  CASE never /\ IsNull(body) ->
                          Single([kept EXCEPT !.t = "pop"])
                     [] Constant(test.n) = "true" ->
                          Single([kept EXCEPT !.t = "forever"])
                     [] OTHER -> Parts(n, test.n, s.n, Larger(s.d, test.d))
          [] n.t = "forever" ->
               LET s == Stmt(n.r)
               IN  IF IsNull(n.l) THEN Parts(n, Null, s.n, s.d)
                   ELSE Parts(n, value.n, s.n, Larger(s.d, value.d))
          [] n.t = "rlimits" ->
               LET a == Closed(Expr(n.l.l, FALSE))
                   b == Closed(Expr(n.l.r, FALSE))
                   s == Stmt(n.r)
               IN  Parts(n, [n.l EXCEPT !.l = a.n, !.r = b.n], s.n,
                         Larger(s.d, Larger(a.d, b.d + 1)))
          [] n.t = "catch" ->
               LET s == Stmt(n.l)
                   h == Stmt(n.r)
               IN  IF IsNull(s.n) THEN Stmt(Skip(n.r))
                   ELSE Parts(n, s.n, h.n, Larger(s.d, h.d))
          [] n.t = "if" ->
               LET c == Constant(test.n)
                   then == Stmt(IF c = "false" THEN Skip(n.r.l) ELSE n.r.l)
                   else == Stmt(IF c = "true" THEN Skip(n.r.r) ELSE n.r.r)
                   branches(a, b) == [n.r EXCEPT !.l = a, !.r = b]
                   d == Larger(test.d, Larger(then.d, else.d))
               IN  CASE ~ IsNull(then.n) ->
                          Parts(n, test.n, branches(then.n, else.n), d)
                     [] IsNull(then.n) /\ ~ IsNull(else.n) ->
                          Parts(n, Not(test.n), branches(else.n, Null), d)
                     [] OTHER -> Single([popped EXCEPT !.l = test.n])
          [] n.t = "pair" -> Stmt(n)
          [] n.t = "pop" ->
               IF IsNull(value.n) THEN nothing
               ELSE Parts(n, value.n, n.r, value.d)
          [] n.t = "return" -> Parts(n, value.n, n.r, value.d)
          [] n.t = "switch" ->
               LET s == Stmt(n.r.r)
                   x == Closed(Expr(n.r.l, FALSE))
               IN  IF IsNull(s.n) THEN Single([n.r EXCEPT !.t = "pop"])
                   ELSE Parts(n, n.l, [n.r EXCEPT !.l = x.n, !.r = s.n],
                              Larger(s.d, x.d))
          [] OTHER -> [n |-> n, d |-> 0]

(* A list of statements.  What follows one that ends the flow is skipped.  *)
Stmt(first) ==
    LET a == Single(IF first.t = "pair" THEN first.l ELSE first)
        ends == ~ IsNull(a.n) /\ a.n.f \cap Ends # {}
        b == Stmt(IF ends THEN Skip(first.r) ELSE first.r)
        d == Larger(a.d, b.d)
    IN  CASE IsNull(first) -> [n |-> Null, d |-> 0]
          [] ~ IsNull(first) /\ first.t # "pair" -> a
          [] first.t = "pair" /\ IsNull(a.n) -> b
          [] first.t = "pair" /\ ~ IsNull(a.n) /\ IsNull(b.n) ->
               [n |-> a.n, d |-> d]
          [] OTHER -> Parts(first, a.n, b.n, d)
==============================================================================
