------------------------------ MODULE MCCompiled ------------------------------
(***************************************************************************)
(* Model checking the compiler and the stack machine together: functions   *)
(* are compiled, called with every argument of a small set and executed,   *)
(* and the result is compared with what the text of the function means.    *)
(***************************************************************************)
EXTENDS Interpret, Codegen, Meaning

CONSTANT Meant(_, _)    \* what the text of a function says that it returns

N(n) == <<"num", n>>
V == <<"var", "v">>
W == <<"var", "w">>
I == <<"var", "i">>
Ret(e) == <<"return", e>>
Do(e) == <<"expr", e>>
Set1(name, e) == Do(<<"assign", name, e>>)
Block(stmts) == <<"block", <<>>, stmts>>

(* mixed f(type v) { int w, i; ... return w; }                             *)
Func(type, stmts) ==
    <<"mixed", << <<"v", type>> >>,
      <<"block", << <<"w", "int">>, <<"i", "int">> >>, Append(stmts, Ret(W))>> >>

------------------------------------------------------------------------------
(* Expressions of two operators and two constants.  There is no shift by a *)
(* negative constant, no division by a constant 0 or -1, and no operand    *)
(* that the optimizer may drop fails.                                      *)
Ops == {"add", "sub", "mult", "and", "or", "xor", "lshift", "rshift", "div",
        "mod", "eq", "ge"}
Consts == {-1, 0, 1, 2, 3}
Legal(op, c) == /\ op \in {"lshift", "rshift"} => c >= 0
                /\ op \in {"div", "mod"} => c \notin {-1, 0}
Applied(es) ==
    {<<op, e, N(c)>> : op \in Ops, e \in es, c \in Consts} \cup
    {<<op, N(c), e>> : op \in Ops, e \in es, c \in Consts}
LegalE(e) == e[3][1] = "num" => Legal(e[1], e[3][2])
Sure(e) == LegalE(e) /\ (e[1] \in {"div", "mod", "lshift", "rshift"} => e[2] = V)
Twice == {e \in Applied({f \in Applied({V}) : Sure(f)}) : LegalE(e)}
Expressions == {Func(type, <<Ret(e)>>) : type \in {"int", "mixed"}, e \in Twice}

(* Assignments, the value used or not.                                     *)
Assigning ==
    {<<op, "v", N(c)>> : op \in AssignOps \cup {"assign"}, c \in Consts}
    \cup {<<op, "v">> : op \in {"plus_plus", "min_min", "add_eq_1", "sub_eq_1"}}
LegalA(e) == e[1] \in AssignOps => Legal(OperatorOf[e[1]], e[3][2])
Assignments ==
    UNION {{Func(type, <<Do(e), Ret(V)>>),
            Func(type, <<Do(<<"assign", "w", e>>), Ret(<<"sub", V, W>>)>>)} :
              type \in {"int", "mixed"}, e \in {e \in Assigning : LegalA(e)}}

(* Conditions, in every place where there can be one.                      *)
Plain == {V, N(0), N(1), <<"nil">>, <<"eq", V, N(0)>>, <<"not", V>>,
          <<"plus_plus", "w">>, <<"assign", "w", V>>,
          <<"catch", <<"assign", "w", <<"div", N(4), V>> >> >>}
Conditions1 ==
    Plain \cup {<<op, a, b>> : op \in {"land", "lor", "comma"}, a \in Plain, b \in Plain}
Conditions ==
    Conditions1 \cup
    {<<op, a, b>> : op \in {"land", "lor"}, a \in {V, <<"plus_plus", "w">>}, b \in Conditions1}
    \cup {<<"not", a>> : a \in Conditions1}
    \cup {<<"quest", a, <<"plus_plus", "i">>, b>> : a \in Conditions1, b \in {N(0), <<"nil">>, V}}
Uses(c) ==
    << <<Ret(c)>>, <<Do(c)>>,
       << <<"if", c, Set1("i", N(5))>>, Ret(<<"sub", W, I>>)>>,
       << <<"ifelse", c, Ret(I), Set1("w", N(5))>> >>,
       << <<"do", Do(<<"add_eq_1", "i">>), <<"land", <<"lt", I, N(2)>>, c>> >>, Ret(I)>> >>
Tests == {Func(type, Uses(c)[k]) : type \in {"int", "mixed"}, c \in Conditions, k \in 1 .. 5}

(* Statements in loops.                                                    *)
Leaf == {<<"empty">>, Set1("w", N(1)), <<"break">>, <<"continue">>, Ret(V),
         Set1("w", <<"div", N(4), V>>)}
Case(label, s) == <<"case", label, s>>
Two(a, b) ==
    <<Block(<<a, b>>), <<"ifelse", V, a, b>>, <<"if", V, Block(<<b, a>>)>>,
      <<"try", Block(<<a>>), "e", <<>>, <<b>> >>, <<"catch", Block(<<a>>), b>>,
      <<"rlimits", N(1), N(1), Block(<<a, b>>)>>,
      <<"switch", V, Block(<<Case(<<0, 0>>, a), Case(<<1, 2>>, b)>>)>>,
      <<"switch", V, Block(<<Case(<<0, 0>>, a), Case(<<>>, b), a>>)>>,
      <<"switch", V, Block(<<Case(<<-128, 0>>, a), Case(<<2, 2>>, b), b,
                             Case(<<4, 9>>, a)>>)>> >>
Inner == {Two(a, b)[k] : a \in Leaf, b \in Leaf, k \in 1 .. 9}
Loop1(s) ==
    <<<<"for", <<"assign", "i", N(0)>>, <<"lt", I, N(2)>>, <<"plus_plus", "i">>, s>>,
      <<"while", <<"lt", <<"plus_plus", "i">>, N(2)>>, s>>,
      <<"do", s, <<"lt", <<"plus_plus", "i">>, N(2)>> >>,
      <<"for", <<"none">>, <<"none">>, <<"none">>,
        Block(<< <<"if", <<"ge", <<"plus_plus", "i">>, N(2)>>, <<"break">> >>, s>>)>>,
      <<"do", s, N(0)>>,
      <<"while", N(0), s>> >>
Statements == {Func("int", <<Loop1(s)[k]>>) : s \in Inner, k \in 1 .. 6}
Nested ==
    {Func("int", <<Loop1(Two(a, b)[k])[1]>>) :
        a \in Inner, b \in {Set1("w", N(3)), <<"break">>}, k \in 1 .. 6}

(* Labels, a string, and a function of type int.                           *)
Label(name, s) == <<"label", name, s>>
Text == <<"var", "e">>
Others ==
    {Func("int", << Label("l", Do(<<"plus_plus", "w">>)),
                    <<"if", <<"lt", W, N(3)>>, <<"goto", "l">> >> >>),
     Func("int", << <<"if", V, <<"goto", "l">> >>, Set1("w", N(4)), Label("l", Set1("i", W)) >>),
     Func("int", << <<"try", Block(<< <<"goto", "l">> >>), "e", <<>>, <<Ret(V)>> >>,
                    Ret(N(1)), Label("l", Do(<<"plus_plus", "w">>)) >>),
     Func("int", << <<"try", Block(<<Set1("w", <<"div", N(1), V>>)>>), "e",
                      << <<"t", "string">> >>,
                      <<Set1("t", Text), <<"if", <<"var", "t">>, Ret(<<"var", "t">>)>> >> >> >>),
     <<"int", << <<"v", "mixed">> >>, Block(<<Ret(V)>>)>>,
     <<"int", << <<"v", "mixed">> >>, Block(<< <<"if", V, Ret(N(2))>> >>)>>,
     <<"mixed", << <<"v", "mixed">> >>, <<"block", << <<"w", "int">> >>,
          << <<"catch", Block(<<Set1("w", V)>>), Ret(N(7))>>, Do(<<"add_eq", "w", V>>), Ret(W)>> >> >>}

MCFunctions == <<Expressions, Assignments, Tests, Statements, Nested, Others>>
MCInts == {-128, -2, 0, 1, 5, 127}
MCArguments == MCInts \cup {NilValue}

------------------------------------------------------------------------------
(* A function that is executed gives what its text means: no rewriting of  *)
(* an expression, no statement left out and no jump changes the result     *)
(* (optimize.cpp, codegen.cpp, interpret.cpp).                             *)
SameResult ==
    status \in {"returned", "failed"} => result = Meant(func, args)

(* The depth that the optimizer computes for a function is enough for the  *)
(* values on its stack, an error caught in it included: Frame::funcall     *)
(* makes the stack that large and the instructions do not check it.        *)
DepthSuffices ==
    /\ Len(stack) <= prog.depth
    /\ \A k \in DOMAIN levels : levels[k].pop => levels[k].height < prog.depth

(* Execution never leaves the code.  The pop bit is only set in an         *)
(* instruction that heeds it; where a nested call of the machine or the    *)
(* function ends, the stack is as high as it was, but for one result ("bad *)
(* stack pointer after function call", interpret.cpp).                     *)
Poppable == {"cast", "store_local", "kfun", "catch"}
LevelsRight ==
    status = "running" =>
        /\ pc \in DOMAIN prog.code
        /\ Instruction.pop => Instruction.i \in Poppable
        /\ Instruction.i = "return" =>
               IF levels = <<>> THEN Len(stack) = 1
               ELSE Len(stack) - Top(levels).height \in 0 .. 1

(* A kfun for integers, which does not look at the types of its operands,  *)
(* is only ever given integers: an int variable holds one whatever path    *)
(* led to its use (Cond, endCompound) and a value of type mixed is cast.   *)
TypesRight ==
    status = "running" /\ Instruction.i = "kfun" /\ Instruction.x[2] =>
        \A k \in 0 .. Operands(Instruction.x[1]) - 1 : stack[Len(stack) - k] \in Ints

(* The code goes back as often as the loops in the text are repeated, at   *)
(* most MaxLoops times in these functions: a jump to a jump, or a loop of  *)
(* which the test is left out, never makes it an endless loop.             *)
MaxLoops == 4
LoopsEnd == loops <= MaxLoops

(* Execution stays where the code generator meant it to be.                *)
CodeRight == LevelsRight /\ TypesRight /\ LoopsEnd
================================================================================
