-------------------------------- MODULE Frames --------------------------------
(***************************************************************************)
(* Function calls of DGD with atomic functions, catch, rlimits and errors  *)
(* (src/src/interpret.cpp, src/src/error.cpp): the stack of frames, the    *)
(* stack of rlimits scopes, the stack of error contexts and the planes.    *)
(*                                                                         *)
(* ErrorContext::error() first runs the handlers of the driver object,     *)
(* which are LPC functions with frames, scopes and contexts of their own,  *)
(* and then unwinds the C++ stack by an exception.  The C++ activations    *)
(* are `blocks': what has been entered and may still go on; those above    *)
(* the last error context are dropped when an error occurs.  Code that     *)
(* runs may do anything at any time; stack depth, values and arguments are *)
(* left out.                                                               *)
(***************************************************************************)
EXTENDS Integers, Sequences, SequencesExt

CONSTANTS
  MinTicks,       \* 100: a function is not called with less
  CallTicks,      \* 10: the price of a call
  Costs,          \* what other code takes in one go
  Limits,         \* bound: the ticks of rlimits, 0: all, < 0: unlimited
  MaxBlocks,      \* bound on the nesting of blocks in a task
  MaxHandling,    \* bound on the nesting of blocks in a handler
  MaxLevel,       \* bound on the nesting of planes
  RemoveFails     \* bound: whether remove_program() in the driver may fail

ASSUME FrameAssumption ==
  /\ MinTicks \in Nat /\ CallTicks \in Nat
  /\ Costs \subseteq Nat
  /\ Limits \subseteq Int
  /\ MaxBlocks \in Nat /\ MaxHandling \in Nat /\ MaxLevel \in Nat
  /\ RemoveFails \in BOOLEAN

VARIABLES
  frames,       \* frames from the base frame to cframe
  scopes,       \* rlimits scopes; a frame has the number of its scope
  contexts,     \* error contexts, the last one is eFrame
  atomicFrame,  \* the address of the first context beyond atomic code
  planes,       \* number of planes above the base plane
  blocks,       \* C++ activations
  mode,         \* "run", or what error() does next
  error         \* the error in progress

vars == <<frames, scopes, contexts, atomicFrame, planes, blocks, mode, error>>

Null == 0

cframe == Last(frames)
eFrame == Last(contexts)
Current == scopes[cframe.rlim]

\* The base frame runs without limits.
BaseFrame == [level |-> 0, atomic |-> FALSE, rlim |-> 1]
Unlimited == [noticks |-> TRUE, ticks |-> 0, due |-> 0, level |-> 0]

\* An error: the context error() looks at, the level of the code it was raised
\* in, and how often the driver was told of it and of what is rolled back.
NoError == [e |-> 0, level |-> 0, told |-> 0, undone |-> 0]

\* A block, with its frame and scope, the atomic flag that I_CATCH keeps, whether
\* a function has made a plane, and what follows a critical call of the driver
\* object.
Block(k) == [kind |-> k, f |-> Len(frames), rlim |-> cframe.rlim,
             atomic |-> FALSE, plane |-> FALSE, then |-> "run", error |-> NoError]

\* A block with a scope of its own.
ScopeBlock(k) == [Block(k) EXCEPT !.rlim = Len(scopes) + 1]

Init ==
  /\ frames = <<BaseFrame>>
  /\ scopes = <<Unlimited>>
  /\ contexts = <<>>
  /\ atomicFrame = Null
  /\ planes = 0
  /\ blocks = <<>>
  /\ mode = "run"
  /\ error = NoError

Running(kinds) == mode = "run" /\ blocks # <<>> /\ Last(blocks).kind \in kinds

\* LPC code runs in a function; C++ code that calls a function may be in
\* another kind of block.
InFunction == Running({"call", "catch", "rlimits"})
InCode == Running({"call", "catch", "rlimits", "guard", "task", "critical"})

Enter(b) == blocks' = Append(blocks, b)

\* Blocks of a handler do not count as those of the task that failed.
Bounded ==
  LET handler == {i \in DOMAIN blocks : blocks[i].then # "run"}
  IN  IF handler = {} THEN Len(blocks) < MaxBlocks
      ELSE \A i \in handler : Len(blocks) - i < MaxHandling

-----------------------------------------------------------------------------
(* Ticks.  The field due of a scope is what it would have if nothing were   *)
(* ever halved: a tick at level l is 2^l of those.  The field level is that *)
(* of the code by which the next scope was made.                            *)

Unit(l) ==
  LET u[k \in 0 .. l] == IF k = 0 THEN 1 ELSE 2 * u[k - 1]
  IN  u[l]

\* What scopes n + 1 and above give back to scope n, up to the first of them
\* without limit; the ticks of a scope without limit do not matter.
GivenBack(s, n) ==
  LET g[i \in n .. Len(s)] ==
        IF i = Len(s) \/ s[i + 1].noticks
        THEN [ticks |-> 0, due |-> 0]
        ELSE [ticks |-> s[i + 1].ticks + g[i + 1].ticks,
              due |-> s[i + 1].due + g[i + 1].due]
  IN  g[n]

\* setRlimits(): back to scope n, what was overspent is forgiven.
SetRlimits(s, n) ==
  LET t == IF Last(s).ticks < 0
           THEN [s EXCEPT ![Len(s)].ticks = 0, ![Len(s)].due = 0] ELSE s
      back == [t[n] EXCEPT !.ticks = @ + GivenBack(t, n).ticks,
                           !.due = @ + GivenBack(t, n).due]
  IN  [i \in 1 .. n |-> IF i < n THEN t[i]
                        ELSE IF t[n].noticks THEN Unlimited
                        ELSE [back EXCEPT !.level = 0]]

\* The scope of a new atomic function at level l + 1, and of one that is left.
Halved(r, l) ==
  IF r.noticks THEN r
  ELSE [r EXCEPT !.ticks = @ \div 2, !.due = @ - (r.ticks % 2) * Unit(l)]

Doubled(r) == IF r.noticks THEN r ELSE [r EXCEPT !.ticks = @ * 2]

\* addTicks(t) at level l.
Spent(r, t, l) ==
  IF r.noticks THEN r ELSE [r EXCEPT !.ticks = @ - t, !.due = @ - t * Unit(l)]

\* newRlimits(-1, t): the scopes with one more.
NewRlimits(s, t, l) ==
  LET n == Len(s)
      r == s[n]
      give == IF t = 0 THEN r.ticks ELSE t \div Unit(l)
      new == [noticks |-> FALSE, ticks |-> give, due |-> give * Unit(l), level |-> 0]
  IN  IF t < 0 \/ (t = 0 /\ r.noticks)
      THEN Append([s EXCEPT ![n].level = l], Unlimited)
      ELSE Append([s EXCEPT ![n] = [Spent(r, give, l) EXCEPT !.level = l]], new)

-----------------------------------------------------------------------------
(* Code that runs.                                                          *)

\* Where an error context may be allocated: at the address of one that is no
\* more, which atomicFrame may still hold, or at any other that is not in use.
Free ==
  LET used == {contexts[i].addr : i \in DOMAIN contexts}
      other == CHOOSE a \in 1 .. Len(contexts) + 2 : a \notin used \cup {atomicFrame}
  IN  {other} \cup ({atomicFrame} \ (used \cup {Null}))

\* A new error context at address a, with handler h, for the block that is
\* entered now and scope number r.
Context(a, h, r) ==
  [addr |-> a, f |-> Len(frames), atomic |-> cframe.atomic, rlim |-> r,
   handler |-> h, block |-> Len(blocks) + 1]

Push(h) ==
  \E a \in Free : contexts' = Append(contexts, Context(a, h, cframe.rlim))

\* ErrorContext::pop().
Pop == contexts' = Front(contexts)

\* The main loop begins a task: errHandler() is runtimeError().
StartTask ==
  /\ blocks = <<>>
  /\ Push("runtimeError")
  /\ Enter(Block("task"))
  /\ UNCHANGED <<frames, scopes, atomicFrame, planes, mode, error>>

EndTask ==
  /\ Running({"task"})
  /\ Pop
  /\ blocks' = <<>>
  /\ UNCHANGED <<frames, scopes, atomicFrame, planes, mode, error>>

\* funcall() of a function that is, or is not, declared atomic.  A plane is
\* made unless this is atomic code already.
Call(atomic) ==
  LET new == atomic /\ ~cframe.atomic
      r == IF new THEN Halved(Current, cframe.level) ELSE Current
      l == IF new THEN cframe.level + 1 ELSE cframe.level
  IN  /\ InCode
      /\ Bounded \/ Running({"critical"})
      /\ new => cframe.level < MaxLevel
      /\ Current.noticks \/ Current.ticks >= MinTicks
      /\ frames' = Append(frames, [level |-> l, rlim |-> cframe.rlim,
                                   atomic |-> cframe.atomic \/ atomic])
      /\ scopes' = [scopes EXCEPT ![cframe.rlim] = Spent(r, CallTicks, l)]
      /\ planes' = IF new THEN planes + 1 ELSE planes
      /\ Enter([Block("call") EXCEPT !.f = @ + 1, !.plane = new])
      /\ UNCHANGED <<contexts, atomicFrame, mode, error>>

\* The end of funcall(), with Dataplane::commit() and Object::commitPlane().
\* A critical call is one call.
Return ==
  LET b == Last(blocks)
      below == Front(blocks)
  IN  /\ Running({"call"})
      /\ frames' = Front(frames)
      /\ scopes' = IF b.plane THEN [scopes EXCEPT ![cframe.rlim] = Doubled(@)]
                   ELSE scopes
      /\ planes' = IF b.plane THEN planes - 1 ELSE planes
      /\ blocks' = IF Last(below).kind = "critical"
                   THEN [below EXCEPT ![Len(below)].kind = "called"] ELSE below
      /\ UNCHANGED <<contexts, atomicFrame, mode, error>>

\* I_CATCH.
Catch ==
  /\ InFunction /\ Bounded
  /\ Push("runtimeError")
  /\ Enter([Block("catch") EXCEPT !.atomic = cframe.atomic])
  /\ frames' = [frames EXCEPT ![Len(frames)].atomic = FALSE]
  /\ UNCHANGED <<scopes, atomicFrame, planes, mode, error>>

\* Mutant: what runs after a catch is no longer taken for atomic code.
EndCatchLeavesFlag ==
  /\ Running({"catch"})
  /\ Pop
  /\ blocks' = Front(blocks)
  /\ UNCHANGED <<frames, scopes, atomicFrame, planes, mode, error>>

EndCatch ==
  /\ Running({"catch"})
  /\ Pop
  /\ frames' = [frames EXCEPT ![Len(frames)].atomic = Last(blocks).atomic]
  /\ blocks' = Front(blocks)
  /\ UNCHANGED <<scopes, atomicFrame, planes, mode, error>>

\* I_RLIMITS.  Bound: a scope that is overspent is not spent any further.
Rlimits(t) ==
  /\ InFunction /\ Bounded
  /\ Current.noticks \/ Current.ticks >= 0
  /\ Enter(ScopeBlock("rlimits"))
  /\ scopes' = NewRlimits(scopes, t, cframe.level)
  /\ frames' = [frames EXCEPT ![Len(frames)].rlim = Len(scopes) + 1]
  /\ UNCHANGED <<contexts, atomicFrame, planes, mode, error>>

EndRlimits ==
  /\ Running({"rlimits"})
  /\ blocks' = Front(blocks)
  /\ scopes' = SetRlimits(scopes, cframe.rlim - 1)
  /\ frames' = [frames EXCEPT ![Len(frames)].rlim = @ - 1]
  /\ UNCHANGED <<contexts, atomicFrame, planes, mode, error>>

\* C++ code that cleans up after an error and passes it on (push() without a
\* handler): closing of connections, the compiler, mappings, parse_string.
Guard ==
  /\ InFunction /\ Bounded
  /\ Push("none")
  /\ Enter(Block("guard"))
  /\ UNCHANGED <<frames, scopes, atomicFrame, planes, mode, error>>

EndGuard ==
  /\ Running({"guard"})
  /\ Pop
  /\ frames' = [frames EXCEPT ![Len(frames)].atomic = eFrame.atomic]
  /\ blocks' = Front(blocks)
  /\ UNCHANGED <<scopes, atomicFrame, planes, mode, error>>

Spend(c) ==
  /\ InFunction
  /\ ~Current.noticks /\ Current.ticks >= 0
  /\ scopes' = [scopes EXCEPT ![cframe.rlim] = Spent(@, c, cframe.level)]
  /\ UNCHANGED <<frames, contexts, atomicFrame, planes, blocks, mode, error>>

\* The first half of callCritical(), with handler h and contexts cs: what
\* follows it is in block b.
EnterCritical(h, b, cs) ==
  /\ Enter(b)
  /\ scopes' = NewRlimits(scopes, -1, cframe.level)
  /\ frames' = [frames EXCEPT ![Len(frames)].rlim = Len(scopes) + 1]
  /\ \E a \in Free : contexts' = Append(cs, Context(a, h, Len(scopes) + 1))
  /\ mode' = "run"
  /\ error' = NoError

\* Object::remove() calls remove_program() in the driver object.
RemoveProgram ==
  /\ InFunction /\ Bounded
  /\ EnterCritical("none", ScopeBlock("critical"), contexts)
  /\ UNCHANGED <<atomicFrame, planes>>

\* The second half of callCritical(), after a call that has returned.
EndCritical ==
  /\ Running({"called"})
  /\ Pop
  /\ scopes' = SetRlimits(scopes, cframe.rlim - 1)
  /\ frames' = [frames EXCEPT ![Len(frames)] =
                  [@ EXCEPT !.atomic = eFrame.atomic, !.rlim = cframe.rlim - 1]]
  /\ blocks' = Front(blocks)
  /\ mode' = Last(blocks).then
  /\ error' = Last(blocks).error
  /\ UNCHANGED <<atomicFrame, planes>>

-----------------------------------------------------------------------------
(* ErrorContext::error().                                                   *)

Level(c) == frames[c.f].level

\* error() returns to a context that does not pass errors on.
Removing ==
  \E i \in DOMAIN contexts :
    /\ blocks[contexts[i].block].kind \in {"critical", "called"}
    /\ blocks[contexts[i].block].then = "run"
    /\ \A j \in i .. Len(contexts) : contexts[j].handler = "none"

Passed == IF atomicFrame \in {Null, eFrame.addr} THEN "look" ELSE "throw"

Error ==
  /\ InCode
  /\ Removing => RemoveFails
  /\ mode' = Passed
  /\ error' = [NoError EXCEPT !.e = Len(contexts), !.level = cframe.level]
  /\ blocks' = SubSeq(blocks, 1, eFrame.block)
  /\ UNCHANGED <<frames, scopes, contexts, atomicFrame, planes>>

Looking == contexts[error.e]
Deeper == cframe.level # Level(Looking)

\* The driver object is told of an error in atomic code, with all frames.
AtomicError ==
  /\ mode = "look" /\ Deeper /\ atomicFrame = Null
  /\ EnterCritical("emptyhandler",
                   [ScopeBlock("critical") EXCEPT
                      !.then = "rollback",
                      !.error = [error EXCEPT !.undone = @ + 1]],
                   contexts)
  /\ UNCHANGED <<atomicFrame, planes>>

\* Mutant: nothing says that the driver object has been told already.
DeferUnmarked ==
  /\ mode = "rollback" /\ error.e # Len(contexts)
  /\ mode' = "throw"
  /\ UNCHANGED <<frames, scopes, contexts, atomicFrame, planes, blocks, error>>

\* The error has to pass other contexts before it is out of atomic code.
Defer ==
  /\ mode = "rollback" /\ error.e # Len(contexts)
  /\ atomicFrame' = Looking.addr
  /\ mode' = "throw"
  /\ UNCHANGED <<frames, scopes, contexts, planes, blocks, error>>

\* The last frame at the level of the context.
Restored ==
  CHOOSE n \in DOMAIN frames :
    /\ frames[n].level = Level(Looking)
    /\ \A i \in n + 1 .. Len(frames) : frames[i].level # Level(Looking)

\* Mutant: what inner scopes give back is not doubled.
RestoredScopesLate(n) ==
  LET r == frames[n].rlim
      s == [scopes EXCEPT ![r] = Doubled(@)]
  IN  IF r # cframe.rlim THEN SetRlimits(s, r) ELSE s

\* The scopes when frame n is restored.
RestoredScopes(n) ==
  LET r == frames[n].rlim
      s == IF r # cframe.rlim THEN SetRlimits(scopes, r) ELSE scopes
  IN  [s EXCEPT ![r] = Doubled(@)]

\* Frame::restore().
Restore ==
  /\ \/ mode = "rollback" /\ error.e = Len(contexts)
     \/ mode = "look" /\ Deeper /\ atomicFrame # Null
  /\ scopes' = RestoredScopes(Restored)
  /\ frames' = SubSeq(frames, 1, Restored)
  /\ planes' = planes - 1
  /\ atomicFrame' = Null
  /\ mode' = "handle"
  /\ UNCHANGED <<contexts, blocks, error>>

Handling == mode = "handle" \/ (mode = "look" /\ ~Deeper)

\* The context has a handler, which is not to be called again.
Handle ==
  LET dummy == [contexts EXCEPT ![error.e].handler = "dummyHandler"]
  IN  /\ Handling
      /\ Looking.handler # "none"
      /\ IF Looking.handler = "runtimeError"
         THEN EnterCritical("emptyhandler",
                            [ScopeBlock("critical") EXCEPT
                               !.then = "throw",
                               !.error = [error EXCEPT !.told = @ + 1]],
                            dummy)
         ELSE /\ contexts' = dummy
              /\ mode' = "throw"
              /\ UNCHANGED <<frames, scopes, blocks, error>>
      /\ UNCHANGED <<atomicFrame, planes>>

\* The handler is that of an earlier context.
PassOn ==
  /\ Handling
  /\ Looking.handler = "none"
  /\ error' = [error EXCEPT !.e = @ - 1]
  /\ mode' = IF error.e > 1 THEN "look" ELSE "throw"
  /\ UNCHANGED <<frames, scopes, contexts, atomicFrame, planes, blocks>>

\* The exception unwinds to the last context, which goes on: a guard with the
\* same error.
Throw ==
  LET c == eFrame
      b == blocks[c.block]
      critical == b.kind \in {"critical", "called"}
      r == IF critical THEN c.rlim - 1 ELSE c.rlim
      s == IF cframe.rlim # c.rlim THEN SetRlimits(scopes, c.rlim) ELSE scopes
      next == contexts[Len(contexts) - 1]
  IN  /\ mode = "throw"
      /\ scopes' = IF critical THEN SetRlimits(s, r) ELSE s
      /\ frames' = [SubSeq(frames, 1, c.f) EXCEPT ![c.f] =
                      [@ EXCEPT !.atomic = c.atomic, !.rlim = r]]
      /\ Pop
      /\ IF b.kind = "guard"
         THEN /\ mode' = IF atomicFrame \in {Null, next.addr} THEN "look" ELSE "throw"
              /\ error' = [error EXCEPT !.e = Len(contexts) - 1]
              /\ blocks' = SubSeq(blocks, 1, next.block)
         ELSE /\ mode' = b.then
              /\ error' = b.error
              /\ blocks' = SubSeq(blocks, 1, c.block - 1)
      /\ UNCHANGED <<atomicFrame, planes>>

Code ==
  \/ StartTask \/ EndTask
  \/ \E atomic \in BOOLEAN : Call(atomic)
  \/ Return
  \/ Catch \/ EndCatch
  \/ \E t \in Limits : Rlimits(t)
  \/ EndRlimits
  \/ Guard \/ EndGuard
  \/ \E c \in Costs : Spend(c)
  \/ RemoveProgram \/ EndCritical

Next ==
  \/ Code
  \/ Error \/ AtomicError \/ Defer \/ Restore \/ Handle \/ PassOn \/ Throw

Spec == Init /\ [][Next]_vars

-----------------------------------------------------------------------------

Kinds == {"task", "call", "catch", "rlimits", "guard", "critical", "called"}
Modes == {"run", "look", "rollback", "handle", "throw"}

TypeOK ==
  /\ \A i \in DOMAIN frames : /\ frames[i].level \in 0 .. MaxLevel
                              /\ frames[i].atomic \in BOOLEAN
                              /\ frames[i].rlim \in DOMAIN scopes
  /\ \A i \in DOMAIN contexts : /\ contexts[i].f \in DOMAIN frames
                                /\ contexts[i].rlim \in DOMAIN scopes
                                /\ contexts[i].block \in DOMAIN blocks
  /\ atomicFrame \in Nat
  /\ planes \in 0 .. MaxLevel
  /\ \A i \in DOMAIN blocks : blocks[i].kind \in Kinds
  /\ mode \in Modes
  /\ error.e \in 0 .. Len(contexts)

\* There are as many planes as the code that runs has levels: what an atomic
\* function did is undone, once, by the time that anyone goes on after its
\* error, however many contexts the error has to pass ("handle rollback
\* later", error.cpp) and whatever the handlers in the driver object do.
PlanesRight == mode = "run" => planes = cframe.level

\* And every frame and context belongs to limits and a block that still exist.
FramesRight == TypeOK /\ PlanesRight

\* A catch, or the main loop, has the driver object told of an error once, and
\* of the rollback of an atomic function once.
ToldOnce ==
  mode = "throw" /\ blocks[eFrame.block].kind \in {"catch", "task"} =>
    /\ error.told = 1
    /\ error.undone = error.level - cframe.level

\* What is left of the ticks of a scope is what was not used: twice the price
\* in atomic functions, but for what is lost by halving and what was overspent
\* in a scope that has ended.
TicksRight ==
  \A i \in DOMAIN scopes :
    ~scopes[i].noticks =>
      scopes[i].ticks * Unit(IF i = Len(scopes) THEN cframe.level
                             ELSE scopes[i].level) = scopes[i].due
=============================================================================
