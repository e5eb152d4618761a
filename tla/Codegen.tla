-------------------------------- MODULE Codegen --------------------------------
(***************************************************************************)
(* The code generator of the compiler, src/src/comp/codegen.cpp: it turns  *)
(* the optimized parse tree of a function into instructions of the stack   *)
(* machine.  A jump of which the target is not known yet is in a list; the *)
(* list is resolved when the target has been reached.                      *)
(* Funcbody, at the end, is the compiler from the text of a function to    *)
(* its code: the parser builds the nodes and keeps track of what the       *)
(* conditions tell of the local variables, the optimizer rewrites the      *)
(* nodes and computes the depth of the stack, and the generator emits code.*)
(***************************************************************************)
EXTENDS Parser, Optimize

(* An instruction: its operand, where it jumps to, and the pop bit.        *)
Instr(i, x) == [i |-> i, x |-> x, to |-> 0, pop |-> FALSE]
Jumps == {"jump", "jump_zero", "jump_nonzero", "catch"}

(* The state of the generator: the code, the four lists of jumps, the      *)
(* cases of the current switch, the labels and the jumps to them.          *)
NoCode == [code |-> <<>>, true |-> {}, false |-> {}, brk |-> {}, cont |-> {},
           cases |-> {}, labels |-> {}, gotos |-> {}]

Here(g) == Len(g.code) + 1
Emit(g, i, x) == [g EXCEPT !.code = Append(@, Instr(i, x))]
Kfun(g, op, int) == Emit(g, "kfun", <<op, int>>)

(* JmpList::jump and JmpList::resolve.                                     *)
Jump(g, i, list) == [Emit(g, i, 0) EXCEPT ![list] = @ \cup {Here(g)}]
Resolve(g, jumps, to) ==
    [g EXCEPT !.code = [p \in DOMAIN @ |->
                           IF p \in jumps THEN [@[p] EXCEPT !.to = to] ELSE @[p]]]

(* The end of the extent of a list: it is resolved, that of g is back.     *)
Close(h, list, to, g) == [Resolve(h, h[list], to) EXCEPT ![list] = g[list]]

(* Mutant: the outermost nested call is not returned from.                 *)
RECURSIVE Times(_, _), TimesLess(_, _)
TimesLess(g, n) == IF n <= 1 THEN g ELSE TimesLess(Emit(g, "return", 0), n - 1)

Times(g, n) == IF n = 0 THEN g ELSE Times(Emit(g, "return", 0), n - 1)

PopLast(g, pop) ==
    IF pop THEN [g EXCEPT !.code = [@ EXCEPT ![Len(@)].pop = TRUE]] ELSE g

------------------------------------------------------------------------------
(* Expressions and conditions.                                             *)

(* The kfuns of one operand for x + 1, x - 1 and so on; "" if there is none *)
Short(n) ==
    CASE n.i /\ <<n.t, n.r.v>> \in {<<"add", 1>>, <<"sub", -1>>} -> "add1"
      [] n.i /\ <<n.t, n.r.v>> \in {<<"add", -1>>, <<"sub", 1>>} -> "sub1"
      [] n.t \in {"xor", "xor_eq"} /\ n.r.v = -1 -> "neg"
      [] OTHER -> ""

RECURSIVE GenE(_, _, _), GenCond(_, _, _)

(* An expression of which the last instruction leaves the value.           *)
Simple(g, n) ==
    LET left == GenE(g, n.l, FALSE)
        right == GenE(g, n.r, FALSE)
        both == GenE(left, n.r, FALSE)
        short == IF n.r.t = "int" THEN Short(n) ELSE ""
        store(h) == Emit(h, "store_local", n.l.v)
    IN  CASE n.t = "int" -> Emit(g, "push_int", n.v)
          [] n.t = "local" -> Emit(g, "push_local", n.v)
          [] n.t = "nil" -> Kfun(g, "nil", FALSE)
          [] n.t = "cast" -> Emit(left, "cast", n.m)
          [] n.t = "exception" -> store(g)
          [] n.t = "assign" -> store(right)
          [] n.t \in {"tst", "not"} -> Kfun(left, n.t, n.l.m = "int")
          [] n.t \in {"neg", "umin"} -> Kfun(left, n.t, FALSE)
          [] n.t = "add_eq_1" -> store(Kfun(left, "add1", n.i))
          [] n.t = "sub_eq_1" -> store(Kfun(left, "sub1", n.i))
          [] n.t = "plus_plus" ->
               Kfun(store(Kfun(left, "add1", n.i)), "sub1", n.m = "int")
          [] n.t = "min_min" ->
               Kfun(store(Kfun(left, "sub1", n.i)), "add1", n.m = "int")
          [] n.t \in AssignOps ->
               store(IF short # "" THEN Kfun(left, short, n.i)
                     ELSE Kfun(both, OperatorOf[n.t], n.i))
          [] n.t = "sub" /\ IsInt(n.l, 0) -> Kfun(right, "umin", n.i)
          [] OTHER -> IF short # "" THEN Kfun(left, short, n.i)
                      ELSE Kfun(both, n.t, n.i)

(* The value of a condition: 0 or 1.                                       *)
Decided(g, n) ==
    LET list == IF n.t = "land" THEN "true" ELSE "false"
        h == GenCond([g EXCEPT ![list] = {}], n, n.t = "land")
        first == Emit(h, "push_int", IF n.t = "land" THEN 0 ELSE 1)
        jump == Emit(first, "jump", 0)
        second == Emit(Close(jump, list, Here(jump), g), "push_int",
                       IF n.t = "land" THEN 1 ELSE 0)
    IN  Resolve(second, {Here(first)}, Here(second))

GenQuest(g, n, pop) ==
    LET no == GenCond([g EXCEPT !.false = {}], n.l, FALSE)
        then == GenE(no, n.r.l, pop)
        jump == Emit(then, "jump", 0)
        else == GenE(Close(jump, "false", Here(jump), g), n.r.r, pop)
        yes == GenCond([g EXCEPT !.true = {}], n.l, TRUE)
        only == IF IsNull(n.r.r) THEN yes ELSE GenE(yes, n.r.r, pop)
    IN  CASE IsNull(n.r.l) -> Close(only, "true", Here(only), g)
          [] ~ IsNull(n.r.l) /\ IsNull(n.r.r) ->
               Close(then, "false", Here(then), g)
          [] OTHER -> Resolve(else, {Here(then)}, Here(else))

GenE(g, n, pop) ==
    LET list == IF n.t = "land" THEN "false" ELSE "true"
        first == GenCond([g EXCEPT ![list] = {}], n.l, n.t = "lor")
        both == GenE(first, n.r, TRUE)
        start == PopLast(Emit(g, "catch", 0), pop)
        body == GenE(start, n.l, TRUE)
        done == Emit(IF pop THEN body ELSE Kfun(body, "nil", FALSE), "return", 0)
    IN  CASE n.t = "catch" -> Resolve(done, {Here(g)}, Here(done))
          [] n.t = "comma" -> GenE(GenE(g, n.l, TRUE), n.r, pop)
          [] n.t \in {"land", "lor"} ->
               IF pop THEN Close(both, list, Here(both), g) ELSE Decided(g, n)
          [] n.t = "quest" -> GenQuest(g, n, pop)
          [] OTHER -> PopLast(Simple(g, n), pop)

Swapped(g) == [g EXCEPT !.true = g.false, !.false = g.true]

(* A jump to the list of true or of false jumps when n is so.              *)
GenCond(g, n, jmptrue) ==
    LET inner == IF n.t = "land" THEN "false" ELSE "true"
        fresh == GenCond([g EXCEPT ![inner] = {}], n.l, n.t = "lor")
        apart == GenCond(fresh, n.r, jmptrue)
    IN  CASE n.t = "int" ->
               IF (n.v # 0) = jmptrue
               THEN Jump(g, "jump", IF jmptrue THEN "true" ELSE "false") ELSE g
          [] n.t \in {"land", "lor"} /\ (n.t = "land") = jmptrue ->
               Close(apart, inner, Here(apart), g)
          [] n.t \in {"land", "lor"} /\ (n.t = "land") # jmptrue ->
               GenCond(GenCond(g, n.l, jmptrue), n.r, jmptrue)
          [] n.t = "not" -> Swapped(GenCond(Swapped(g), n.l, ~ jmptrue))
          [] n.t = "comma" -> GenCond(GenE(g, n.l, TRUE), n.r, jmptrue)
          [] OTHER ->
               IF jmptrue THEN Jump(GenE(g, n, FALSE), "jump_nonzero", "true")
               ELSE Jump(GenE(g, n, FALSE), "jump_zero", "false")

------------------------------------------------------------------------------
(* Statements.                                                             *)

RECURSIVE GenS(_, _)

(* The statement at "where" is executed again while the test is true.      *)
Again(g, test, where) ==
    Close(GenCond([g EXCEPT !.true = {}], test, TRUE), "true", where, g)

(* The initializers of the body come first.  There is one target for every *)
(* entry of the table, and one for all other values.                       *)
GenSwitch(g, n) ==
    LET body == n.r.r
        compound == IF body.t = "block" THEN body.l ELSE body
        rest == [compound EXCEPT !.r = Null]
        value == GenE(GenS(g, compound.r), n.r.l, FALSE)
        start == [Emit(value, "switch", 0) EXCEPT !.cases = {}]
        h == GenS(start, IF body.t = "block" THEN [body EXCEPT !.l = rest] ELSE rest)
        at(labels) == (CHOOSE c \in h.cases : c[1] \in labels)[2]
        to(e) == at({c[1] : c \in {x \in h.cases : x[1] # <<>> /\ x[1][1] = e[3]}})
        table == [k \in DOMAIN n.v.table |->
                     LET e == n.v.table[k] IN <<e[1], e[2], to(e)>>]
    IN  [h EXCEPT !.cases = g.cases,
                  !.code[Here(value)].x = table,
                  !.code[Here(value)].to = IF n.v.dflt THEN at({<<>>}) ELSE Here(h)]

GenCatch(g, n) ==
    LET body == GenS(PopLast(Emit(g, "catch", 0), n.m = "pop"), n.l)
        done == Emit(body, "return", 0)
        jump == Emit(done, "jump", 0)
        after(h) == GenS(Resolve(h, {Here(g)}, Here(h)), n.r)
    IN  CASE n.l.f \cap Ends # {} -> after(body)
          [] n.l.f \cap Ends = {} /\ IsNull(n.r) -> after(done)
          [] OTHER -> Resolve(after(jump), {Here(done)}, Here(after(jump)))

GenIf(g, n) ==
    LET then == n.r.l
        else == n.r.r
        list == IF then.t = "break" THEN "brk" ELSE "cont"
        \* if (n.l) break; jumps to where the break goes
        out == GenCond([g EXCEPT !.true = g[list]], n.l, TRUE)
        yes == GenS(GenCond([g EXCEPT !.false = {}], n.l, FALSE), then)
        jump == Emit(yes, "jump", 0)
        no == GenS(Close(jump, "false", Here(jump), g), else)
    IN  CASE then.t \in {"break", "continue"} /\ then.v = 0 ->
               GenS([out EXCEPT ![list] = out.true, !.true = g.true], else)
          [] IsNull(else) -> Close(yes, "false", Here(yes), g)
          [] ~ IsNull(else) /\ then.f \cap Ends # {} ->
               GenS(Close(yes, "false", Here(yes), g), else)
          [] OTHER -> Resolve(no, {Here(yes)}, Here(no))

GenOne(g, n) ==
    LET list == IF n.m = "break" THEN "brk" ELSE "cont"
        block == GenS([g EXCEPT ![list] = {}], n.l)
        loop == GenS(Emit(g, "jump", 0), n.r)
        endless == GenS(IF IsNull(n.l) THEN g ELSE GenE(g, n.l, TRUE), n.r)
        limits == Emit(GenE(GenE(g, n.l.l, FALSE), n.l.r, FALSE), "rlimits", 0)
        limited == GenS(limits, n.r)
        leave == Times(g, n.v)
    IN  CASE n.t = "block" -> Close(block, list, Here(block), g)
          [] n.t = "break" -> Jump(leave, "jump", "brk")
          [] n.t = "continue" -> Jump(leave, "jump", "cont")
          [] n.t = "goto" ->
               [Emit(leave, "jump", 0) EXCEPT
                   !.gotos = @ \cup {<<Here(leave), n.m>>}]
          [] n.t = "label" -> [g EXCEPT !.labels = @ \cup {<<n.v, Here(g)>>}]
          [] n.t = "case" ->
               GenS([g EXCEPT !.cases = @ \cup {<<n.v, Here(g)>>}], n.l)
          [] n.t = "compound" -> GenS(GenS(g, n.r), n.l)
          [] n.t = "do" -> Again(GenS(g, n.r), n.l, Here(g))
          [] n.t = "for" ->
               IF IsNull(n.r) THEN Again(g, n.l, Here(g))
               ELSE Again(Resolve(loop, {Here(g)}, Here(loop)), n.l, Here(g) + 1)
          [] n.t = "forever" ->
               Resolve(Emit(endless, "jump", 0), {Here(endless)}, Here(g))
          [] n.t = "rlimits" ->
               IF n.f \cap Ends # {} THEN limited ELSE Emit(limited, "return", 0)
          [] n.t = "catch" -> GenCatch(g, n)
          [] n.t = "if" -> GenIf(g, n)
          [] n.t = "pair" -> GenS(g, n)
          [] n.t = "pop" -> GenE(g, n.l, TRUE)
          [] n.t = "return" -> Emit(Times(GenE(g, n.l, FALSE), n.v), "return", 0)
          [] n.t = "switch" -> GenSwitch(g, n)

GenS(g, n) ==
    CASE IsNull(n) -> g
      [] n.t = "pair" -> GenS(GenOne(g, n.l), n.r)
      [] OTHER -> GenOne(g, n)

------------------------------------------------------------------------------
(* Jumps to jumps: a loop of jumps becomes a jump to itself.               *)

RECURSIVE Chase(_, _, _, _), Direct(_, _)
Chase(code, first, where, to) ==
    IF code[to].i = "jump" /\ to # where
    THEN Chase([code EXCEPT ![where].to = code[to].to], first, to, code[to].to)
    ELSE [code EXCEPT ![first].to = to]

Direct(code, ps) ==
    IF ps = {} THEN code
    ELSE LET p == CHOOSE x \in ps : \A y \in ps : x >= y
         IN  Direct(Chase(code, p, p, code[p].to), ps \ {p})

(* A label that is not in the code is at offset 0, where m->mod leaves it. *)
Generate(tree) ==
    LET g == GenS(NoCode, tree)
        place(name) == IF \E l \in g.labels : l[1] = name
                       THEN (CHOOSE l \in g.labels : l[1] = name)[2] ELSE 1
        code == [p \in DOMAIN g.code |->
                    IF \E j \in g.gotos : j[1] = p
                    THEN [g.code[p] EXCEPT
                             !.to = place((CHOOSE j \in g.gotos : j[1] = p)[2])]
                    ELSE g.code[p]]
    IN  Direct(code, {p \in DOMAIN code : code[p].i \in Jumps
                                       /\ code[p].to \in DOMAIN code})

(* Compile::funcbody: Parse has added the return at the end.               *)
Funcbody(text) ==
    LET parsed == Parse(text)
        opt == Stmt(parsed.n)
    IN  [code |-> Generate(opt.n), depth |-> opt.d, nvars |-> parsed.nvars]
================================================================================
