------------------------------- MODULE Interpret -------------------------------
(***************************************************************************)
(* A function of LPC from its text to its result: the compiler produces    *)
(* the code of the function, the function is called, and the stack machine *)
(* of src/src/interpret.cpp executes one instruction after the other.      *)
(* catch and rlimits execute their code in a nested call of the machine,   *)
(* which ends with an I_RETURN of its own.                                 *)
(***************************************************************************)
EXTENDS Codegen

CONSTANTS
    Compiler(_),    \* the code of a function, from its text
    Functions,      \* families of functions: <<type, parameters, body>>
    IntArguments,   \* the arguments of an int parameter
    Arguments       \* the arguments of a mixed parameter

VARIABLES
    func,       \* the text of the function
    status,     \* "text", "compiled", "running", "returned" or "failed"
    prog,       \* code, depth of the stack, number of variables
    args,       \* the arguments of the call
    pc, stack,  \* the next instruction; the values, the last on top
    local,      \* parameters and local variables, by number
    levels,     \* nested calls of the machine: handler and height of stack
    loops,      \* jumps to an earlier instruction, which cost loop ticks
    result      \* what the function returned

vars == <<func, status, prog, args, pc, stack, local, levels, loops, result>>
machine == <<pc, stack, local, levels, loops>>

NoProgram == [code |-> <<>>, depth |-> 0, nvars |-> 0]

Init ==
    /\ \E k \in DOMAIN Functions : func \in Functions[k]
    /\ status = "text" /\ prog = NoProgram /\ args = <<>>
    /\ pc = 0 /\ stack = <<>> /\ local = <<>> /\ levels = <<>> /\ loops = 0
    /\ result = NilValue

Compile ==
    /\ status = "text"
    /\ status' = "compiled"
    /\ prog' = Compiler(func)
    /\ UNCHANGED <<func, args, machine, result>>

ArgumentsOf(type) == IF type = "int" THEN IntArguments ELSE Arguments

(* Frame::funcall: the local variables are nil until they are set.         *)
Funcall ==
    /\ status = "compiled"
    /\ status' = "running"
    /\ args' \in {a \in [DOMAIN func[2] -> Arguments] :
                     \A k \in DOMAIN a : a[k] \in ArgumentsOf(func[2][k][2])}
    /\ local' = [k \in 1 .. prog.nvars |->
                    IF k \in DOMAIN func[2] THEN args'[k] ELSE NilValue]
    /\ pc' = 1 /\ stack' = <<>> /\ levels' = <<>> /\ loops' = 0
    /\ UNCHANGED <<func, prog, result>>

------------------------------------------------------------------------------
(* One instruction.                                                        *)

Instruction == prog.code[pc]
At(i) == status = "running" /\ Instruction.i = i
Value == Top(stack)
Popped1(s, n) == SubSeq(s, 1, Len(s) - n)

Same == UNCHANGED <<func, status, prog, args, result>>

(* A jump: one that goes back costs ticks (loopTicks).                     *)
GoTo(to) ==
    /\ pc' = to
    /\ loops' = IF to <= pc THEN loops + 1 ELSE loops

(* The value on top of what is left of the stack, unless the pop bit is set *)
Give(rest, value) ==
    /\ stack' = IF Instruction.pop THEN rest ELSE Append(rest, value)
    /\ pc' = pc + 1
    /\ UNCHANGED loops

(* error(): the innermost catch gets the text of the error on its stack.   *)
Error ==
    LET catches == {k \in DOMAIN levels : levels[k].handler # 0}
        last == CHOOSE k \in catches : \A l \in catches : l <= k
        level == levels[last]
        rest == SubSeq(stack, 1, level.height)
    IN  IF catches = {}
        THEN /\ status' = "failed" /\ result' = ErrValue
             /\ UNCHANGED <<func, prog, args, machine>>
        ELSE /\ stack' = IF level.pop THEN rest ELSE Append(rest, StrValue)
             /\ GoTo(level.handler)
             /\ levels' = SubSeq(levels, 1, last - 1)
             /\ Same /\ UNCHANGED local

PushInt ==
    /\ At("push_int")
    /\ Give(stack, Instruction.x)
    /\ Same /\ UNCHANGED <<local, levels>>

PushLocal ==
    /\ At("push_local")
    /\ Give(stack, local[Instruction.x])
    /\ Same /\ UNCHANGED <<local, levels>>

StoreLocal ==
    /\ At("store_local")
    /\ local' = [local EXCEPT ![Instruction.x] = Value]
    /\ Give(Popped1(stack, 1), Value)
    /\ Same /\ UNCHANGED levels

IsOf(type, v) ==
    CASE type = "int" -> v \in Ints
      [] type = "string" -> v \in {StrValue, NilValue}
      [] OTHER -> TRUE

Cast ==
    /\ At("cast")
    /\ IF IsOf(Instruction.x, Value)
       THEN Give(Popped1(stack, 1), Value) /\ Same /\ UNCHANGED <<local, levels>>
       ELSE Error

(* The kfuns of the operators.  That of an int takes what is on the stack  *)
(* for an integer, whatever it is.                                         *)
Monadic == {"add1", "sub1", "neg", "umin", "tst", "not"}
Operands(op) == IF op = "nil" THEN 0 ELSE IF op \in Monadic THEN 1 ELSE 2

OneOp(op, v) ==
    CASE op = "tst" -> Truth(IsTrue(v))
      [] op = "not" -> Truth(~ IsTrue(v))
      [] op = "add1" -> AnyOp("add", v, 1)
      [] op = "sub1" -> AnyOp("sub", v, 1)
      [] op = "neg" -> AnyOp("xor", v, -1)
      [] op = "umin" -> AnyOp("sub", 0, v)

CallKfun ==
    /\ At("kfun")
    /\ LET op == Instruction.x[1]
           n == Operands(op)
           value == CASE n = 0 -> NilValue
                      [] n = 1 -> OneOp(op, Value)
                      [] n = 2 -> AnyOp(op, stack[Len(stack) - 1], Value)
       IN  IF value = ErrValue THEN Error
           ELSE Give(Popped1(stack, n), value) /\ Same /\ UNCHANGED <<local, levels>>

JumpTo ==
    /\ At("jump")
    /\ GoTo(Instruction.to)
    /\ Same /\ UNCHANGED <<stack, local, levels>>

JumpOn ==
    /\ At("jump_zero") \/ At("jump_nonzero")
    /\ GoTo(IF IsTrue(Value) = (Instruction.i = "jump_nonzero")
            THEN Instruction.to ELSE pc + 1)
    /\ stack' = Popped1(stack, 1)
    /\ Same /\ UNCHANGED <<local, levels>>

(* switchInt and switchRange: a search by halves of the table.             *)
RECURSIVE Search(_, _, _, _)
Search(table, v, l, h) ==
    LET m == (l + h) \div 2
        entry == table[m + 1]
    IN  CASE l >= h -> 0
          [] l < h /\ v < entry[1] -> Search(table, v, l, m)
          [] l < h /\ v \in entry[1] .. entry[2] -> entry[3]
          [] OTHER -> Search(table, v, m + 1, h)

Switch ==
    /\ At("switch")
    /\ LET to == IF Value \notin Ints THEN 0
                 ELSE Search(Instruction.x, Value, 0, Len(Instruction.x))
       IN  GoTo(IF to = 0 THEN Instruction.to ELSE to)
    /\ stack' = Popped1(stack, 1)
    /\ Same /\ UNCHANGED <<local, levels>>

Catch ==
    /\ At("catch")
    /\ levels' = Append(levels, [handler |-> Instruction.to,
                                 height |-> Len(stack), pop |-> Instruction.pop])
    /\ pc' = pc + 1
    /\ Same /\ UNCHANGED <<stack, local, loops>>

(* Frame::rlimits takes two integers off the stack.                        *)
Rlimits ==
    /\ At("rlimits")
    /\ IF Value \notin Ints \/ stack[Len(stack) - 1] \notin Ints THEN Error
       ELSE /\ stack' = Popped1(stack, 2)
            /\ levels' = Append(levels, [handler |-> 0, pop |-> FALSE,
                                         height |-> Len(stack) - 2])
            /\ pc' = pc + 1
            /\ Same /\ UNCHANGED <<local, loops>>

(* The end of a nested call, or of the function.                           *)
Return ==
    /\ At("return")
    /\ IF levels = <<>>
       THEN /\ status' = "returned" /\ result' = Value
            /\ UNCHANGED <<func, prog, args, machine>>
       ELSE /\ levels' = Below(levels)
            /\ pc' = pc + 1
            /\ Same /\ UNCHANGED <<stack, local, loops>>

Next ==
    \/ Compile \/ Funcall
    \/ PushInt \/ PushLocal \/ StoreLocal \/ Cast \/ CallKfun
    \/ JumpTo \/ JumpOn \/ Switch \/ Catch \/ Rlimits \/ Return

Spec == Init /\ [][Next]_vars /\ WF_vars(Next)
================================================================================
