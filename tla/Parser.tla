-------------------------------- MODULE Parser --------------------------------
(***************************************************************************)
(* The front end of the compiler for the statements and the integer        *)
(* expressions of LPC: the actions of src/src/comp/parser.y and the parts  *)
(* of src/src/comp/compile.cpp that they call.  Expressions and statements *)
(* are tuples of which the first element says what they are; Parse returns *)
(* the parse tree of the function, with the local variables it uses.       *)
(*                                                                         *)
(* The compiler keeps, for every local variable, whether it is initialized *)
(* at the current point of the text (thiscond) and how often it was used   *)
(* when it was not (unset): a variable that may be used before it is set   *)
(* gets an implicit initializer at the start of its block.                 *)
(***************************************************************************)
EXTENDS Nodes, FiniteSets

(* The state of the compiler.  Local variables are numbered from 1.        *)
(*  init     the conditions, thiscond last: sets of initialized variables  *)
(*  blocks   the blocks, thisblock last                                    *)
(*  vindex   variables in scope; nvars the most there ever were            *)
(*  var      name, type and unset of each variable                         *)
(*  loops    the enclosing loops, switches the enclosing switches          *)
(*  nesting  of rlimits and catch; labels the nesting of each label        *)
Fresh == [init |-> <<>>, blocks |-> <<>>, vindex |-> 0, nvars |-> 0,
          var |-> <<>>, params |-> 0, loops |-> <<>>, switches |-> <<>>,
          nesting |-> 0, labels |-> <<>>, ftype |-> "mixed"]

OnTop(s, x) == [s EXCEPT ![Len(s)] = x]

------------------------------------------------------------------------------
(* Conditions.                                                             *)

StartCond(st) == [st EXCEPT !.init = Append(@, Top(@))]
StartCond2(st) == [st EXCEPT !.init = Append(@, @[Len(@) - 1])]
EndCond(st) == [st EXCEPT !.init = Below(@)]
SaveCond(st) == [st EXCEPT !.init = OnTop(Below(@), Top(@))]
MatchPrev(init) == [init EXCEPT ![Len(init) - 1] = @ \cap Top(init)]
MatchCond(st) == [st EXCEPT !.init = Below(MatchPrev(@))]

------------------------------------------------------------------------------
(* Blocks and variables.                                                   *)

StartCompound(st) ==
    IF st.blocks = <<>>
    THEN [st EXCEPT !.init = Append(@, {}),
                    !.blocks = <<[vindex |-> 0, nvars |-> st.params]>>]
    ELSE [st EXCEPT !.blocks = Append(@, [vindex |-> st.vindex, nvars |-> 0])]

(* vdef and edef: a variable of the current block, not yet initialized.    *)
Declare(st, name, type) ==
    LET k == st.vindex + 1
    IN  [st EXCEPT
            !.init = OnTop(@, Top(@) \ {k}),
            !.blocks = OnTop(@, [Top(@) EXCEPT !.nvars = @ + 1]),
            !.vindex = k,
            !.nvars = Larger(@, k),
            !.var = Append(SubSeq(@, 1, st.vindex),
                           [name |-> name, type |-> type, unset |-> 0])]

Index(st, name) ==
    CHOOSE k \in 1 .. st.vindex :
        /\ st.var[k].name = name
        /\ \A l \in k + 1 .. st.vindex : st.var[l].name # name

(* The end of a block.  In a switch its variables keep their places.       *)
CloseBlock(st) ==
    LET b == Top(st.blocks)
        own == b.vindex + 1 .. b.vindex + b.nvars
    IN  [st EXCEPT
            !.blocks = Below(@),
            !.init = IF Len(st.blocks) = 1 THEN Below(@) ELSE @,
            !.vindex = IF st.switches = <<>> THEN b.vindex ELSE @,
            !.var = IF st.switches = <<>> THEN @
                    ELSE [k \in DOMAIN @ |->
                             IF k \in own THEN [@[k] EXCEPT !.name = "-"]
                             ELSE @[k]]]

(* A use of a variable; the assignment of it.                              *)
LocalVar(st, name) ==
    LET k == Index(st, name)
    IN  [n |-> LocalNode(k, st.var[k].type),
         st |-> IF k \in Top(st.init) THEN st
                ELSE [st EXCEPT !.var[k].unset = @ + 1]]

Assigned(st, k) ==
    IF k \in Top(st.init) THEN st
    ELSE [st EXCEPT !.init = OnTop(@, Top(@) \cup {k}), !.var[k].unset = @ - 1]

------------------------------------------------------------------------------
(* Expressions.                                                            *)

Both(n1, n2, type) == n1.t = type /\ n2.t = type
IntResult(n1, n2) == n1.m = "int" /\ n2.m \in {"int", "mixed"}
AreInts(n1, n2) == n1.m = "int" /\ n2.m = "int"

(* bini, bina; add and sub; rel and eq.                                    *)
Binary(op, n1, n2) ==
    LET type == CASE op \in Comparisons -> "int"
                  [] op \in {"add", "add_eq"} ->
                       IF AreInts(n1, n2) THEN "int" ELSE "mixed"
                  [] OTHER -> IF IntResult(n1, n2) THEN "int" ELSE "mixed"
    IN  IF Both(n1, n2, "int") /\ IntOp(op, n1.v, n2.v) # ErrValue
        THEN IntNode(IntOp(op, n1.v, n2.v))
        ELSE IF op = "eq" /\ Both(n1, n2, "nil") THEN IntNode(1)
        ELSE Op(op, AreInts(n1, n2), type, n1, n2)

(* int += mixed checks the type of the right side first.                   *)
AddEq(n1, n2) ==
    IF n1.m = "int" /\ n2.m # "int"
    THEN Op("add_eq", TRUE, "int", n1, Mon("cast", "int", n2))
    ELSE Binary("add_eq", n1, n2)

Logic(op, n1, n2) ==
    IF IsConst(n1) /\ IsConst(n2)
    THEN IntNode(Bits(IF op = "land" THEN "and" ELSE "or",
                      Tst(n1).v, Tst(n2).v))
    ELSE Bin(op, "int", n1, n2)

Choice(n1, n2, n3) ==
    IF IsConst(n1) /\ IsConst(n2) /\ n3.t = n2.t
    THEN IF IsTrue(n1.v) THEN n2 ELSE n3
    ELSE Bin("quest", IF n2.m = n3.m /\ n2.m # "nil" THEN n2.m ELSE "mixed",
             n1, Bin("pair", "void", n2, n3))

Assign(n1, n2) ==
    Bin("assign", n1.m, n1,
        IF n1.m # "mixed" /\ n2.m = "mixed" THEN Mon("cast", n1.m, n2) ELSE n2)

RECURSIVE CommaOf(_, _)
CommaOf(n1, n2) ==
    IF n2.t = "comma" THEN [n2 EXCEPT !.l = CommaOf(n1, n2.l)]
    ELSE Bin("comma", n2.m, n1, n2)

Umin(n) == IF n.m = "mixed" THEN Mon("umin", "mixed", n)
           ELSE Binary("sub", IntNode(0), n)
Complement(n) == IF n.m = "int" THEN Binary("xor", n, IntNode(-1))
                 ELSE Mon("neg", "mixed", n)

BinaryOps == {"add", "sub", "mult", "div", "mod", "and", "or", "xor",
              "lshift", "rshift", "eq", "lt", "le", "gt", "ge"}

RECURSIVE ParseE(_, _)
ParseE(e, st) ==
    LET is == e[1]
        a == ParseE(e[2], st)
        b == ParseE(e[3], a.st)
        target == LocalVar(st, e[2])
        value == ParseE(e[3], target.st)
        inner == ParseE(e[2], StartCond(st))
        second == ParseE(e[3], StartCond(a.st))
        third == ParseE(e[4], StartCond2(second.st))
        got(n, state) == [n |-> n, st |-> state]
    IN  CASE is = "num" -> got(IntNode(e[2]), st)
          [] is = "nil" -> got(NilNode, st)
          [] is = "var" -> target
          [] is \in BinaryOps -> got(Binary(is, a.n, b.n), b.st)
          [] is = "ne" -> got(Not(Binary("eq", a.n, b.n)), b.st)
          [] is \in {"land", "lor"} ->
               got(Logic(is, a.n, second.n), EndCond(second.st))
          [] is = "quest" ->
               got(Choice(a.n, second.n, third.n), SaveCond(MatchCond(third.st)))
          [] is = "comma" -> got(CommaOf(a.n, b.n), b.st)
          [] is = "not" -> got(Not(a.n), a.st)
          [] is = "neg" -> got(Complement(a.n), a.st)
          [] is = "umin" -> got(Umin(a.n), a.st)
          [] is = "catch" ->
               got(Mon("catch", "string", inner.n), EndCond(inner.st))
          [] is \in {"plus_plus", "min_min", "add_eq_1", "sub_eq_1"} ->
               got(Op(is, target.n.m = "int", target.n.m, target.n, Null),
                   target.st)
          [] is = "assign" ->
               got(Assign(target.n, value.n), Assigned(value.st, target.n.v))
          [] is = "add_eq" -> got(AddEq(target.n, value.n), value.st)
          [] is \in AssignOps \ {"add_eq"} ->
               got(Binary(is, target.n, value.n), value.st)

------------------------------------------------------------------------------
(* Statements.  No statement is Null.                                      *)

Flags(n) == IF IsNull(n) THEN {} ELSE n.f
Flagged(n, flags) == [n EXCEPT !.f = @ \cup flags]

Concat(n1, n2) ==
    CASE IsNull(n1) -> n2
      [] ~ IsNull(n1) /\ (IsNull(n2) \/ (n1.f \cap Ends # {} /\ n2.f \cap Reach = {}))
         -> n1
      [] OTHER -> Flagged(Bin("pair", "void", n1, n2),
                          (n1.f \cap ({"entry"} \cup Reach))
                          \cup (n2.f \cap (Reach \cup Ends)))

ExprStmt(n) == IF IsNull(n) THEN n ELSE Mon("pop", "void", n)

(* ((a, b), c) to (a, (b, c)).                                             *)
RECURSIVE Revert(_)
Revert(n) ==
    IF n.t = "pair" /\ n.l.t = "pair"
    THEN Revert([n.l EXCEPT !.r = [n EXCEPT !.l = n.l.r]])
    ELSE n

IfStmt(test, then, else) ==
    LET ends == Flags(then) \cap Ends # {} /\ Flags(else) \cap Ends # {}
    IN  Flagged(Bin("if", "void", test, Bin("else", "void", then, else)),
                (Flags(then) \cup Flags(else))
                \cap (Reach \cup IF ends THEN Ends ELSE {}))

(* block: the extent of a break or a continue.                             *)
Extent(n, mod, stripped) ==
    Flagged(Mon("block", mod, n), (n.f \cap Flow) \ ({"exit"} \cup stripped))

(* reloop, then one of doStmt, whileStmt and forStmt, then endloop.        *)
Reloop(st, n) == IF Top(st.loops).cont THEN Extent(n, "continue", Ends) ELSE n
Endloop(st, n) ==
    [n |-> IF Top(st.loops).brk THEN Extent(n, "break", {"break"}) ELSE n,
     st |-> [st EXCEPT !.loops = Below(@)]]

NewLoop(st) ==
    [st EXCEPT !.loops = Append(@, [brk |-> FALSE, cont |-> FALSE,
                                    nesting |-> st.nesting])]

DoStmt(st, test, body) ==
    LET b == Reloop(st, body)
    IN  Endloop(st, Flagged(Bin("do", "void", test, b), Flags(b) \cap Flow))

WhileStmt(st, test, body) ==
    LET b == Reloop(st, body)
    IN  Endloop(st, Flagged(Bin("for", "void", test, b),
                            (Flags(b) \cap Flow) \ {"entry", "exit"}))

ForStmt(st, first, test, next, body) ==
    LET b == Reloop(st, body)
        type == IF IsNull(test) THEN "forever" ELSE "for"
        loop == Endloop(st, Flagged(Bin(type, "void", test, Concat(b, next)),
                                    (Flags(b) \cap Flow) \ {"entry", "exit"}))
    IN  [loop EXCEPT !.n = Concat(first, @)]

CatchStmt(body, handler, pop) ==
    LET ends == Flags(body) \cap Ends # {} /\ Flags(handler) \cap Ends # {}
    IN  Flagged(Bin("catch", pop, body, handler),
                (Flags(handler) \cap Reach)
                \cup (IF ends THEN (Flags(body) \cup Flags(handler)) \cap Ends
                      ELSE {}))

(* The implicit initializers of a block.                                   *)
RECURSIVE Initializer(_, _, _, _)
Initializer(st, ks, zero, ints) ==
    IF ks = {} THEN (IF zero.t = "assign" THEN ExprStmt(zero) ELSE Null)
    ELSE LET k == CHOOSE x \in ks : \A y \in ks : x <= y
             mod == IF ints THEN "int" ELSE "mixed"
         IN  Initializer(st, ks \ {k},
                         IF (st.var[k].type = "int") = ints
                         THEN Bin("assign", mod, LocalNode(k, mod), zero)
                         ELSE zero, ints)

Initializers(st, flags) ==
    LET b == Top(st.blocks)
        ks == {k \in Larger(b.vindex, st.params) + 1 .. b.vindex + b.nvars :
                 st.switches # <<>> \/ "label" \in flags \/ st.var[k].unset > 0}
    IN  Concat(Initializer(st, ks, NilNode, FALSE),
               Initializer(st, ks, IntNode(0), TRUE))
EndCompound(st, n) ==
    LET flags == n.f \cap (Reach \cup Ends)
        list == IF n.t = "pair"
                THEN LET r == Revert(n) IN [r EXCEPT !.f = (@ \ Ends) \cup flags]
                ELSE n
        inits == Initializers(st, flags)
        c == [Bin("compound", "void", list, inits) EXCEPT !.f = list.f \ {"label"}]
        noted == IF st.switches = <<>> THEN st
                 ELSE [st EXCEPT !.switches = OnTop(@,
                          [Top(@) EXCEPT !.vlist = Concat(inits, @)])]
    IN  IF IsNull(n) THEN [n |-> n, st |-> CloseBlock(st)]
        ELSE [n |-> c, st |-> CloseBlock(noted)]

------------------------------------------------------------------------------
(* Switches on integers: the cases are pairs of bounds, <<>> the default.  *)

StartSwitch(st) ==
    [st EXCEPT
        !.switches = Append(@, [brk |-> FALSE, nesting |-> st.nesting,
                                env |-> Len(st.loops), cases |-> <<>>,
                                vlist |-> Null]),
        !.init = @ \o << 1 .. 64, Top(@) >>]

CaseLabel(st, label) ==
    [st EXCEPT !.init = OnTop(@, @[Len(@) - 2]),
               !.switches = OnTop(@, [Top(@) EXCEPT !.cases = Append(@, label)])]

RECURSIVE Erased(_)
Erased(n) ==            \* the case of which only the statement stays
    CASE n.t = "case" -> n.l
      [] n.t = "pair" -> [n EXCEPT !.l = Erased(@)]
      [] n.t \in {"compound", "block"} -> [n EXCEPT !.l = Erased(@)]
      [] OTHER -> n

RECURSIVE Ordered(_)
Ordered(cases) ==
    IF cases = {} THEN <<>>
    ELSE LET c == CHOOSE x \in cases : \A y \in cases : x[1] <= y[1]
         IN  <<c>> \o Ordered(cases \ {c})

(* Each entry of the table is a range and the case it goes to: a few wide  *)
(* ranges stay ranges, others become an entry for every number.            *)
SwitchTable(cases) ==
    LET ranges == Ordered({c \in cases : c # <<>>})
        size == Len(ranges)
        extra == LET f[k \in 0 .. size] ==
                        IF k = 0 THEN -1
                        ELSE f[k - 1] + ranges[k][2] - ranges[k][1] + 1
                 IN  f[size]
        singles == {<<v, v, c[1]>> : v \in Ints, c \in {ranges[k] : k \in 1 .. size}}
    IN  IF extra < size \/ 3 * extra < 4 * size
        THEN [type |-> "int",
              table |-> Ordered({x \in singles :
                           \E k \in 1 .. size : /\ ranges[k][1] = x[3]
                                                /\ x[1] \in ranges[k][1] .. ranges[k][2]})]
        ELSE [type |-> "range",
              table |-> [k \in 1 .. size |-> Append(ranges[k], ranges[k][1])]]

EndSwitch(st, expr, stmt) ==
    LET sw == Top(st.switches)
        dflt == <<>> \in {sw.cases[k] : k \in DOMAIN sw.cases}
        size == Cardinality({c \in {sw.cases[k] : k \in DOMAIN sw.cases} : c # <<>>})
        all == [stmt EXCEPT !.r = sw.vlist]
        level == Len(st.init)
        matched == IF "break" \in Flags(stmt) THEN st.init ELSE MatchPrev(st.init)
        saved == IF ~ IsNull(stmt) /\ dflt
                 THEN [matched EXCEPT ![level - 2] = matched[level - 1]]
                 ELSE st.init
        below == Below(st.switches)
        outer == IF IsNull(stmt) \/ below = <<>> THEN below
                 ELSE OnTop(below, [Top(below) EXCEPT !.vlist = Concat(sw.vlist, @)])
        brk(n) == IF sw.brk THEN Extent(n, "break", {"break"}) ELSE n
        forever(n) ==
            LET body == Concat(n, Mon("break", "void", Null))
            IN  Flagged(Bin("forever", "void", Null, body), body.f \cap Flow)
        only == Erased(all)
        t == SwitchTable({sw.cases[k] : k \in DOMAIN sw.cases})
    IN  [n |-> CASE IsNull(stmt) \/ sw.cases = <<>> -> ExprStmt(expr)
                 [] ~ IsNull(stmt) /\ size = 0 /\ dflt ->
                      Concat(ExprStmt(expr),
                             IF sw.brk THEN brk(forever(only)) ELSE only)
                 [] OTHER ->
                      Create("switch", FALSE, t.type, Null,
                             Bin("pair", "void", expr, brk(all)),
                             [table |-> t.table, dflt |-> dflt]),
         st |-> [st EXCEPT
                    !.switches = outer,
                    !.init = SubSeq(saved, 1, level - 2),
                    !.vindex = IF outer # <<>> THEN @
                               ELSE Top(st.blocks).vindex + Top(st.blocks).nvars]]

------------------------------------------------------------------------------
(* Statements: ParseS adds to the state and returns the tree.              *)

BreakStmt(st) ==
    LET switch == st.switches # <<>> /\ Top(st.switches).env = Len(st.loops)
        levels == IF switch THEN st.switches ELSE st.loops
        after == IF switch
                 THEN [st EXCEPT !.init = MatchPrev(@),
                                 !.switches = OnTop(@, [Top(@) EXCEPT !.brk = TRUE])]
                 ELSE [st EXCEPT !.loops = OnTop(@, [Top(@) EXCEPT !.brk = TRUE])]
    IN  [n |-> Flagged(Create("break", FALSE, "void", Null, Null,
                              st.nesting - Top(levels).nesting), {"break"}),
         st |-> after]

ContinueStmt(st) ==
    [n |-> Flagged(Create("continue", FALSE, "void", Null, Null,
                          st.nesting - Top(st.loops).nesting), {"continue"}),
     st |-> [st EXCEPT !.loops = OnTop(@, [Top(@) EXCEPT !.cont = TRUE])]]

ReturnStmt(st, n) ==
    Flagged(Create("return", FALSE, "void",
                   IF st.ftype # "mixed" /\ n.m = "mixed"
                   THEN Mon("cast", st.ftype, n) ELSE n,
                   Null, st.nesting), {"exit"})

Deeper(st) == [st EXCEPT !.nesting = @ + 1]
Shallower(st) == [st EXCEPT !.nesting = @ - 1]

RECURSIVE Declared(_, _)
Declared(st, decls) ==
    IF decls = <<>> THEN st
    ELSE Declared(Declare(st, decls[1][1], decls[1][2]), Tail(decls))

RECURSIVE ParseS(_, _), ParseList(_, _, _)

ParseList(list, st, n) ==
    IF list = <<>> THEN [n |-> n, st |-> st]
    ELSE LET s == ParseS(list[1], st)
         IN  ParseList(Tail(list), s.st, Concat(n, s.n))

Compound(s, st) ==          \* <<"block", declarations, statements>>
    LET body == ParseList(s[3], Declared(StartCompound(st), s[2]), Null)
    IN  EndCompound(body.st, body.n)

(* A statement that may not be executed.                                   *)
Guarded(s, st) ==
    LET r == ParseS(s, StartCond(st)) IN [r EXCEPT !.st = EndCond(@)]

Optional(e, st) ==
    IF e[1] = "none" THEN [n |-> Null, st |-> st] ELSE ParseE(e, st)

IfElse(s, st) ==
    LET test == ParseE(s[2], st)
        then == ParseS(s[3], StartCond(test.st))
        else == ParseS(s[4], StartCond2(then.st))
        ends == Flags(else.n) \cap Ends # {}
    IN  [n |-> IfStmt(test.n, then.n, else.n),
         st |-> CASE IsNull(else.n) -> EndCond(EndCond(else.st))
                  [] ~ IsNull(else.n) /\ ~ ends -> SaveCond(MatchCond(else.st))
                  [] OTHER -> SaveCond(EndCond(else.st))]

Loop(s, st) ==
    CASE s[1] = "do" ->
           LET body == Guarded(s[2], NewLoop(st))
               test == ParseE(s[3], StartCond(body.st))
           IN  DoStmt(EndCond(test.st), test.n, body.n)
      [] s[1] = "while" ->
           LET test == ParseE(s[2], st)
               body == Guarded(s[3], NewLoop(test.st))
           IN  WhileStmt(body.st, test.n, body.n)
      [] s[1] = "for" ->
           LET first == Optional(s[2], st)
               test == Optional(s[3], first.st)
               next == Optional(s[4], StartCond(test.st))
               body == Guarded(s[5], NewLoop(EndCond(next.st)))
           IN  ForStmt(body.st, ExprStmt(first.n), test.n, ExprStmt(next.n), body.n)

(* try { } catch (name) { } keeps the text of the error in a variable.     *)
TryCatch(s, st) ==
    LET try == Guarded(s[2], Deeper(st))
        opened == StartCompound(StartCond(Shallower(try.st)))
        named == Declare(opened, s[3], "string")
        k == named.vindex
        set == [named EXCEPT !.init = OnTop(@, Top(@) \cup {k})]
        body == ParseList(s[5], Declared(set, s[4]), Null)
        handler == EndCompound(body.st, body.n)
        store == ExprStmt(Mon("exception", "string", LocalNode(k, "string")))
    IN  [n |-> IF IsNull(handler.n) THEN CatchStmt(try.n, Null, "pop")
               ELSE CatchStmt(try.n, Concat(store, handler.n), "keep"),
         st |-> EndCond(handler.st)]

ParseS(s, st) ==
    LET is == s[1]
        got(n, state) == [n |-> n, st |-> state]
    IN  CASE is = "empty" -> got(Null, st)
          [] is = "expr" ->
               LET e == ParseE(s[2], st) IN got(ExprStmt(e.n), e.st)
          [] is = "block" -> Compound(s, st)
          [] is = "if" ->
               LET test == ParseE(s[2], st)
                   then == Guarded(s[3], test.st)
               IN  got(IfStmt(test.n, then.n, Null), then.st)
          [] is = "ifelse" -> IfElse(s, st)
          [] is \in {"do", "while", "for"} -> Loop(s, st)
          [] is = "rlimits" ->
               LET a == ParseE(s[2], st)
                   b == ParseE(s[3], a.st)
                   body == ParseS(s[4], Deeper(b.st))
               IN  got(Flagged(Bin("rlimits", "void",
                                   Bin("pair", "void", a.n, b.n), body.n),
                               Flags(body.n) \cap Ends), Shallower(body.st))
          [] is = "try" -> TryCatch(s, st)
          [] is = "catch" ->
               LET body == Guarded(s[2], Deeper(st))
                   handler == Guarded(s[3], Shallower(body.st))
               IN  got(CatchStmt(body.n, handler.n, "pop"), handler.st)
          [] is = "switch" ->
               LET test == ParseE(s[2], st)
                   body == ParseS(s[3], StartSwitch(test.st))
               IN  EndSwitch(body.st, test.n, body.n)
          [] is = "case" ->         \* s[2] is <<lowest, highest>>, <<>> the default
               LET body == ParseS(s[3], CaseLabel(st, s[2]))
               IN  got([Create("case", FALSE, "void", body.n, Null, s[2])
                           EXCEPT !.f = {"entry", "case"}], body.st)
          [] is = "label" ->
               LET noted == [st EXCEPT !.labels = Append(@, <<s[2], st.nesting>>)]
                   body == ParseS(s[3], noted)
                   l == [Create("label", FALSE, "void", Null, Null, s[2])
                            EXCEPT !.f = {"entry", "label"}]
               IN  got(Concat(l, body.n), body.st)
          [] is = "goto" ->
               got([Create("goto", FALSE, s[2], Null, Null, st.nesting)
                       EXCEPT !.f = {"exit"}], st)
          [] is = "break" -> BreakStmt(st)
          [] is = "continue" -> ContinueStmt(st)
          [] is = "return" ->
               LET e == ParseE(s[2], st) IN got(ReturnStmt(st, e.n), e.st)

------------------------------------------------------------------------------
(* A function: <<type, parameters, body>>, the body a block.               *)

Parse(func) ==
    LET params == func[2]
        named == [Fresh EXCEPT
                     !.ftype = func[1], !.params = Len(params),
                     !.vindex = Len(params), !.nvars = Len(params),
                     !.var = [k \in DOMAIN params |->
                                 [name |-> params[k][1], type |-> params[k][2],
                                  unset |-> 0]]]
        body == Compound(func[3], named)
        default == IF func[1] = "int" THEN IntNode(0) ELSE NilNode
        return == Create("return", FALSE, "void", default, Null, 0)
    IN  [n |-> Concat(body.n, return), nvars |-> body.st.nvars,
         params |-> params, labels |-> body.st.labels]
==============================================================================
