-------------------------------- MODULE Meaning --------------------------------
(***************************************************************************)
(* What a function of LPC means: its text is evaluated as it stands, with  *)
(* no parse tree, no optimization and no code.  Variables are in a list,   *)
(* the innermost last; an int is 0 and any other variable nil until it is  *)
(* set.  A loop that is executed more than Rounds times is "stuck".        *)
(***************************************************************************)
EXTENDS Nodes

CONSTANT Rounds

Variable(name, type, v) == [name |-> name, type |-> type, v |-> v]
Unset(decl) == Variable(decl[1], decl[2], IF decl[2] = "int" THEN 0 ELSE NilValue)

Place(env, name) ==
    CHOOSE k \in DOMAIN env : /\ env[k].name = name
                              /\ \A l \in k + 1 .. Len(env) : env[l].name # name

Fits(type, v) ==
    CASE type = "int" -> v \in Ints
      [] type = "string" -> v \in {StrValue, NilValue}
      [] OTHER -> TRUE

(* A value given to a variable; an error when the type is not right.       *)
Set(env, name, v) ==
    LET k == Place(env, name)
    IN  IF v # ErrValue /\ Fits(env[k].type, v)
        THEN [v |-> v, env |-> [env EXCEPT ![k].v = v]]
        ELSE [v |-> ErrValue, env |-> env]

RECURSIVE Eval(_, _)
Eval(e, env) ==
    LET is == e[1]
        is2 == IF is \in AssignOps THEN OperatorOf[is] ELSE is
        a == Eval(e[2], env)
        b == Eval(e[3], a.env)
        old == env[Place(env, e[2])].v
        right == Eval(e[3], env)
        got(v, after) == [v |-> v, env |-> after]
        step(by) == Set(env, e[2], AnyOp("add", old, by))
        post(r) == IF r.v = ErrValue THEN r ELSE [r EXCEPT !.v = old]
    IN  CASE is = "num" -> got(e[2], env)
          [] is = "nil" -> got(NilValue, env)
          [] is = "var" -> got(old, env)
          [] is = "add_eq_1" -> step(1)
          [] is = "sub_eq_1" -> step(-1)
          [] is = "plus_plus" -> post(step(1))
          [] is = "min_min" -> post(step(-1))
          [] is \in AssignOps \cup {"assign"} ->
               IF right.v = ErrValue THEN right
               ELSE Set(right.env, e[2],
                        IF is = "assign" THEN right.v
                        ELSE AnyOp(is2, old, right.v))
          [] is = "catch" ->
               got(IF a.v = ErrValue THEN StrValue ELSE NilValue, a.env)
          [] a.v = ErrValue -> a
          [] a.v # ErrValue /\ is = "not" -> got(Truth(~ IsTrue(a.v)), a.env)
          [] a.v # ErrValue /\ is = "neg" -> got(AnyOp("xor", a.v, -1), a.env)
          [] a.v # ErrValue /\ is = "umin" -> got(AnyOp("sub", 0, a.v), a.env)
          [] a.v # ErrValue /\ is = "quest" ->
               Eval(IF IsTrue(a.v) THEN e[3] ELSE e[4], a.env)
          [] a.v # ErrValue /\ is \in {"land", "lor"} ->
               IF IsTrue(a.v) = (is = "lor") THEN got(Truth(is = "lor"), a.env)
               ELSE IF b.v = ErrValue THEN b ELSE got(Truth(IsTrue(b.v)), b.env)
          [] a.v # ErrValue /\ b.v = ErrValue -> b
          [] a.v # ErrValue /\ b.v # ErrValue /\ is = "comma" -> b
          [] OTHER -> got(AnyOp(is, a.v, b.v), b.env)

------------------------------------------------------------------------------
(* Statements.  A statement ends with what is next: "next", "break",       *)
(* "continue", "return", "error", "goto" or "stuck", and the variables.    *)
(* seek is the label at which execution starts, <<>> if at the beginning.  *)

Done(c, v, env) == [c |-> c, v |-> v, env |-> env]
Then(r, env) == [r EXCEPT !.env = SubSeq(@, 1, Len(env))]

RECURSIVE Has(_, _)
Has(s, seek) ==
    CASE s[1] = "block" -> \E k \in DOMAIN s[3] : Has(s[3][k], seek)
      [] s[1] = "if" -> Has(s[3], seek)
      [] s[1] = "ifelse" -> Has(s[3], seek) \/ Has(s[4], seek)
      [] s[1] \in {"case", "label"} -> <<s[1], s[2]>> = seek \/ Has(s[3], seek)
      [] s[1] = "do" -> Has(s[2], seek)
      [] s[1] = "while" -> Has(s[3], seek)
      [] s[1] = "for" -> Has(s[5], seek)
      [] OTHER -> FALSE

RECURSIVE Labels(_)
Labels(s) ==
    CASE s[1] = "block" -> UNION {Labels(s[3][k]) : k \in DOMAIN s[3]}
      [] s[1] = "case" -> {s[2]} \cup Labels(s[3])
      [] s[1] = "label" -> Labels(s[3])
      [] OTHER -> {}

RECURSIVE Exec(_, _, _), ExecList(_, _, _), Jumped(_, _, _), Iterate(_, _, _, _)

ExecList(list, env, seek) ==
    LET r == Exec(list[1], env, seek)
    IN  CASE list = <<>> -> Done("next", NilValue, env)
          [] list # <<>> /\ seek # <<>> /\ ~ Has(list[1], seek) ->
               ExecList(Tail(list), env, seek)
          [] OTHER -> IF r.c = "next" THEN ExecList(Tail(list), r.env, <<>>) ELSE r

(* A list, with the jumps to the labels in it.                             *)
Jumped(list, r, n) ==
    IF r.c # "goto" \/ ~ \E k \in DOMAIN list : Has(list[k], r.v) THEN r
    ELSE IF n = 0 THEN Done("stuck", NilValue, r.env)
    ELSE Jumped(list, ExecList(list, r.env, r.v), n - 1)

(* A loop: test, body and what is executed after the body.                 *)
Iterate(loop, env, seek, n) ==
    LET test == IF loop.test[1] = "none" \/ seek # <<>>
                THEN [v |-> 1, env |-> env] ELSE Eval(loop.test, env)
        body == Exec(loop.body, test.env, seek)
        next == IF loop.next[1] = "none" THEN [v |-> 1, env |-> body.env]
                ELSE Eval(loop.next, body.env)
    IN  CASE n = 0 -> Done("stuck", NilValue, env)
          [] n > 0 /\ test.v = ErrValue -> Done("error", NilValue, test.env)
          [] n > 0 /\ ~ IsTrue(test.v) -> Done("next", NilValue, test.env)
          [] OTHER ->
               CASE body.c = "break" -> [body EXCEPT !.c = "next"]
                 [] body.c \in {"next", "continue"} ->
                      IF next.v = ErrValue THEN Done("error", NilValue, next.env)
                      ELSE Iterate(loop, next.env, <<>>, n - 1)
                 [] OTHER -> body

Exec(s, env, seek) ==
    LET is == s[1]
        a == Eval(s[2], env)
        b == Eval(s[3], a.env)
        failed(e) == Done("error", NilValue, e)
        inner == IF is = "block" THEN env \o [k \in DOMAIN s[2] |-> Unset(s[2][k])]
                 ELSE env
        try == Exec(s[2], env, <<>>)
        caught == SubSeq(try.env, 1, Len(env)) \o
                  <<Variable(s[3], "string", StrValue)>> \o
                  [k \in DOMAIN s[4] |-> Unset(s[4][k])]
        first == Exec(s[2], env, seek)
        matching == {l \in Labels(s[3]) : l # <<>> /\ a.v \in l[1] .. l[2]}
        chosen == IF matching # {} THEN CHOOSE l \in matching : TRUE ELSE <<>>
        start == IF s[2][1] = "none" \/ seek # <<>> THEN [v |-> 1, env |-> env]
                 ELSE Eval(s[2], env)
    IN  CASE is = "empty" -> Done("next", NilValue, env)
          [] is = "expr" -> IF a.v = ErrValue THEN failed(a.env)
                            ELSE Done("next", NilValue, a.env)
          [] is = "block" ->
               Then(Jumped(s[3], ExecList(s[3], inner, seek), Rounds), env)
          [] is \in {"if", "ifelse"} /\ seek # <<>> ->
               Exec(IF Has(s[3], seek) THEN s[3] ELSE s[4], env, seek)
          [] is \in {"if", "ifelse"} /\ seek = <<>> ->
               CASE a.v = ErrValue -> failed(a.env)
                 [] IsTrue(a.v) -> Exec(s[3], a.env, <<>>)
                 [] ~ IsTrue(a.v) /\ is = "if" -> Done("next", NilValue, a.env)
                 [] OTHER -> Exec(s[4], a.env, <<>>)
          [] is = "while" ->
               Iterate([test |-> s[2], body |-> s[3], next |-> <<"none">>],
                       env, seek, Rounds)
          [] is = "do" ->
               LET again == Iterate([test |-> s[3], body |-> s[2],
                                     next |-> <<"none">>], first.env, <<>>, Rounds)
               IN  CASE first.c \in {"next", "continue"} -> again
                     [] first.c = "break" -> [first EXCEPT !.c = "next"]
                     [] OTHER -> first
          [] is = "for" ->
               IF start.v = ErrValue THEN failed(start.env)
               ELSE Iterate([test |-> s[3], body |-> s[5], next |-> s[4]],
                            start.env, seek, Rounds)
          [] is = "rlimits" ->
               IF a.v \notin Ints THEN failed(a.env)
               ELSE IF b.v \notin Ints THEN failed(b.env)
               ELSE Exec(s[4], b.env, <<>>)
          [] is = "try" ->
               IF try.c = "error"
               THEN Then(Jumped(s[5], ExecList(s[5], caught, <<>>), Rounds), env)
               ELSE try
          [] is = "catch" ->
               IF try.c = "error" THEN Exec(s[3], try.env, <<>>) ELSE try
          [] is = "switch" ->
               CASE a.v = ErrValue -> failed(a.env)
                 [] a.v # ErrValue /\ chosen \notin Labels(s[3]) ->
                      Done("next", NilValue, a.env)
                 [] OTHER ->
                      LET r == Exec(s[3], a.env, <<"case", chosen>>)
                      IN  IF r.c = "break" THEN [r EXCEPT !.c = "next"] ELSE r
          [] is \in {"case", "label"} ->
               Exec(s[3], env, IF seek = <<is, s[2]>> THEN <<>> ELSE seek)
          [] is = "goto" -> Done("goto", <<"label", s[2]>>, env)
          [] is \in {"break", "continue"} -> Done(is, NilValue, env)
          [] is = "return" -> IF a.v = ErrValue THEN failed(a.env)
                              ELSE Done("return", a.v, a.env)

(* The value that the function returns, ErrValue if it fails.              *)
Result(text, args) ==
    LET env == [k \in DOMAIN text[2] |->
                   Variable(text[2][k][1], text[2][k][2], args[k])]
        r == Exec(text[3], env, <<>>)
    IN  CASE r.c = "return" -> IF Fits(text[1], r.v) THEN r.v ELSE ErrValue
          [] r.c = "next" -> IF text[1] = "int" THEN 0 ELSE NilValue
          [] r.c = "error" -> ErrValue
          [] OTHER -> "stuck"
================================================================================
