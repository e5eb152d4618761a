---------------------------- MODULE Frames_proofs ----------------------------
(***************************************************************************)
(* Proofs about Frames, for any ticks, limits and bounds on nesting, when  *)
(* remove_program() in the driver object does not fail: the invariant, lemmas *)
(* about the stacks, one lemma per action, and the theorems.                *)
(***************************************************************************)
EXTENDS Frames, Functions, SequenceTheorems, FiniteSetTheorems,
        WellFoundedInduction, TLAPS

USE FrameAssumption

-----------------------------------------------------------------------------
(* The inductive invariant: what frames fs, error contexts cs and blocks bs  *)
(* have to do with each other, also while an error passes through them and   *)
(* while a handler runs for an error.                                        *)

Pos == Nat \ {0}
Handlers == {"none", "runtimeError", "emptyhandler", "dummyHandler"}

FrameType == [level : 0 .. MaxLevel, rlim : Pos, atomic : BOOLEAN]

ContextType == [addr : Pos, f : Pos, atomic : BOOLEAN, rlim : Pos,
                handler : Handlers, block : Pos]

ErrorType == [e : Nat, level : Nat, told : {0, 1}, undone : Int]

BlockType == [kind : Kinds, f : Pos, rlim : Pos, atomic : BOOLEAN, plane : BOOLEAN,
              then : {"run", "rollback", "throw"}, error : ErrorType]

StackType(fs, cs, bs) ==
  /\ fs \in Seq(FrameType) /\ fs # <<>>
  /\ cs \in Seq(ContextType)
  /\ bs \in Seq(BlockType)

\* The block of the k-th context, and the level of its frame.
BlockOf(cs, bs, k) == bs[cs[k].block]
LevelOf(fs, cs, k) == fs[cs[k].f].level

NoHandler(cs, k) == cs[k].handler = "none"

\* Critical calls; the scope below that of a block.
Critical(b) == b.kind \in {"critical", "called"}
Under(b) == IF b.kind = "rlimits" \/ Critical(b) THEN b.rlim - 1 ELSE b.rlim

\* Planes and scopes are added to frames, and taken from the last ones only.
FramesUp(fs) ==
  /\ fs[1].level = 0
  /\ \A i, j \in 1 .. Len(fs) :
       i <= j => fs[i].level <= fs[j].level /\ fs[i].rlim <= fs[j].rlim

\* What a block has entered, it has entered above what is below.
BlocksUp(fs, bs) ==
  \A i \in 1 .. Len(bs) :
    /\ bs[i].f <= Len(fs)
    /\ Under(bs[i]) >= 1
    /\ bs[i].rlim <= fs[bs[i].f].rlim
    /\ \A j \in 1 .. bs[i].f - 1 : fs[j].rlim <= Under(bs[i])
    /\ \A j \in 1 .. i - 1 : bs[j].f <= bs[i].f /\ bs[j].rlim <= Under(bs[i])

\* What a block finds when the one above is left.
BlocksNest(fs, bs) ==
  \A i \in 1 .. Len(bs) :
    LET b == bs[i]
        a == bs[i - 1]
    IN  /\ b.kind = "task" <=> i = 1
        /\ b.kind = "task" => b.f = 1 /\ b.rlim = 1
        /\ ~Critical(b) => b.then = "run"
        /\ b.then = "run" => b.error = NoError
        /\ i > 1 /\ b.then = "run" =>
             /\ b.f = IF b.kind = "call" THEN a.f + 1 ELSE a.f
             /\ Under(b) = a.rlim
        /\ b.kind = "call" =>
             /\ fs[a.f].rlim = a.rlim
             /\ fs[b.f].level = IF b.plane THEN fs[a.f].level + 1 ELSE fs[a.f].level

\* Contexts are those of their blocks, in the same order.
ContextsUp(cs, bs) ==
  /\ \A k \in 1 .. Len(cs) :
       /\ cs[k].block <= Len(bs)
       /\ cs[k].f = BlockOf(cs, bs, k).f
       /\ cs[k].rlim = BlockOf(cs, bs, k).rlim
       /\ BlockOf(cs, bs, k).kind \notin {"call", "rlimits"}
       /\ BlockOf(cs, bs, k).kind = "catch" => BlockOf(cs, bs, k).atomic = cs[k].atomic
       /\ \A m \in 1 .. k - 1 : /\ cs[m].block < cs[k].block
                                /\ cs[m].addr # cs[k].addr
  /\ \A i \in 1 .. Len(bs) :
       bs[i].kind \notin {"call", "rlimits"} => \E k \in 1 .. Len(cs) : cs[k].block = i

HandlerOf(b) ==
  IF b.kind \in {"task", "catch"} THEN {"runtimeError", "dummyHandler"}
  ELSE IF Critical(b) /\ b.then # "run" THEN {"emptyhandler", "dummyHandler"}
  ELSE {"none"}

HandlersRight(cs, bs) ==
  \A k \in 1 .. Len(cs) : cs[k].handler \in HandlerOf(BlockOf(cs, bs, k))

\* Level l, of code that is atomic or not, is that of the k-th context, which
\* has a handler, or that of an atomic function called there.
Within(fs, cs, l, atomic, k) ==
  /\ ~NoHandler(cs, k)
  /\ l = LevelOf(fs, cs, k) \/ (atomic /\ l = LevelOf(fs, cs, k) + 1)

\* No atomic function is entered twice without a handler in between.
Handled(fs, cs) ==
  /\ cs # <<>> =>
       \A j \in 1 .. Len(fs) :
         \E k \in 1 .. Len(cs) :
           cs[k].f <= j /\ Within(fs, cs, fs[j].level, fs[j].atomic, k)
  /\ \A c \in 1 .. Len(cs) :
       c > 1 => \E k \in 1 .. c - 1 :
                  Within(fs, cs, LevelOf(fs, cs, c), cs[c].atomic, k)

\* None of the contexts from k to n has a handler.
Open(cs, k, n) == \A j \in k .. n : NoHandler(cs, j)

\* The handler that the next error in n contexts runs has not been run.
Fresh(cs, n) ==
  \A k \in 1 .. n : Open(cs, k + 1, n) => cs[k].handler # "dummyHandler"

\* Error er, in mode m, of code at level l in n contexts.
Pending(fs, cs, bs, m, er, n, l) ==
  /\ er.e \in 1 .. n
  /\ Open(cs, er.e + 1, n)
  /\ \A k \in er.e + 1 .. n : LevelOf(fs, cs, k) = l
  /\ \A k \in 1 .. n : Open(cs, k, n) => BlockOf(cs, bs, k).kind = "guard"
  /\ m = "rollback" => LevelOf(fs, cs, er.e) # l
  /\ m \in {"handle", "throw"} => LevelOf(fs, cs, er.e) = l
  /\ m = "throw" => cs[er.e].handler = "dummyHandler"
  /\ \A k \in 1 .. n :
       Open(cs, k + 1, n) /\ BlockOf(cs, bs, k).kind \in {"task", "catch"} =>
         cs[k].handler = IF er.told = 0 THEN "runtimeError" ELSE "dummyHandler"
  /\ er.undone = er.level - l + (IF m = "rollback" THEN 1 ELSE 0)

\* An error for which a handler runs waits in the contexts below.
Suspended(fs, cs, bs) ==
  \A k \in 1 .. Len(cs) :
    LET b == BlockOf(cs, bs, k)
    IN  IF b.then = "run" THEN b.kind # "guard" => Fresh(cs, k - 1)
        ELSE /\ k > 1
             /\ cs[k].block = cs[k - 1].block + 1
             /\ Pending(fs, cs, bs, b.then, b.error, k - 1, LevelOf(fs, cs, k))

Stack(fs, cs, bs) ==
  /\ StackType(fs, cs, bs)
  /\ FramesUp(fs)
  /\ BlocksUp(fs, bs)
  /\ BlocksNest(fs, bs)
  /\ ContextsUp(cs, bs)
  /\ HandlersRight(cs, bs)
  /\ Handled(fs, cs)
  /\ Suspended(fs, cs, bs)

\* Code runs in the last block, with the last frame and scope.
Top(fs, bs) ==
  IF bs = <<>> THEN Len(fs) = 1 /\ fs[1].rlim = 1
  ELSE bs[Len(bs)].f = Len(fs) /\ bs[Len(bs)].rlim = fs[Len(fs)].rlim

\* The rollback of an error is left to the context at atomicFrame.
Deferred ==
  \E d \in 1 .. Len(contexts) :
    /\ contexts[d].addr = atomicFrame
    /\ Pending(frames, contexts, blocks, "rollback", [error EXCEPT !.e = d],
               Len(contexts), frames[Len(frames)].level)
    /\ IF d = Len(contexts) THEN mode = "look" /\ error.e = d ELSE mode = "throw"

ModeRight ==
  IF mode = "run"
  THEN /\ atomicFrame = Null /\ error = NoError
       /\ Top(frames, blocks)
       /\ Fresh(contexts, Len(contexts))
  ELSE /\ contexts # <<>>
       /\ contexts[Len(contexts)].block = Len(blocks)
       /\ IF atomicFrame = Null
          THEN Pending(frames, contexts, blocks, mode, error, Len(contexts),
                       frames[Len(frames)].level)
          ELSE Deferred

\* What a scope holds does not matter.
IsSeq(s) == s \in Seq(Range(s))

IInv ==
  /\ Stack(frames, contexts, blocks)
  /\ IsSeq(scopes) /\ frames[Len(frames)].rlim = Len(scopes)
  /\ mode \in Modes /\ atomicFrame \in Nat
  /\ error \in ErrorType /\ error.e <= Len(contexts)
  /\ planes = frames[Len(frames)].level
  /\ ModeRight

-----------------------------------------------------------------------------
(* Errors that wait, and handlers.                                           *)

\* Errors below are as before if their contexts are.
SameContext(fs, cs, bs, fs2, cs2, bs2, k) ==
  /\ cs2[k].handler = cs[k].handler
  /\ LevelOf(fs2, cs2, k) = LevelOf(fs, cs, k)
  /\ \/ BlockOf(cs2, bs2, k).kind = BlockOf(cs, bs, k).kind
     \/ Critical(BlockOf(cs2, bs2, k)) /\ Critical(BlockOf(cs, bs, k))

\* An error that waits in n contexts waits there still when these contexts
\* are the same, whatever was entered or left above them.
LEMMA PendingStays ==
  ASSUME NEW fs, NEW cs, NEW bs, NEW fs2, NEW cs2, NEW bs2,
         NEW m, NEW er \in ErrorType, NEW n \in Nat, NEW l,
         \A k \in 1 .. n : SameContext(fs, cs, bs, fs2, cs2, bs2, k),
         Pending(fs, cs, bs, m, er, n, l)
  PROVE  Pending(fs2, cs2, bs2, m, er, n, l)
<1>1. \A j \in 1 .. n : NoHandler(cs2, j) <=> NoHandler(cs, j)
  BY DEF SameContext, NoHandler
<1>2. \A k \in 1 .. n + 1 : Open(cs2, k, n) <=> Open(cs, k, n)
  BY <1>1 DEF Open
<1>3. \A k \in 1 .. n : k + 1 \in 1 .. n + 1 /\ k \in 1 .. n + 1
  OBVIOUS
<1>4. er.e \in 1 .. n
  BY DEF Pending
<1>5. Open(cs2, er.e + 1, n)
  BY <1>2, <1>3, <1>4 DEF Pending
<1>6. \A k \in er.e + 1 .. n : LevelOf(fs2, cs2, k) = l
  BY <1>4 DEF Pending, SameContext
<1>7. \A k \in 1 .. n : Open(cs2, k, n) => BlockOf(cs2, bs2, k).kind = "guard"
  BY <1>2, <1>3 DEF Pending, SameContext, Critical
<1>8. \A k \in 1 .. n :
        Open(cs2, k + 1, n) /\ BlockOf(cs2, bs2, k).kind \in {"task", "catch"} =>
          cs2[k].handler = IF er.told = 0 THEN "runtimeError" ELSE "dummyHandler"
  BY <1>2, <1>3 DEF Pending, SameContext, Critical
<1>9. /\ m = "rollback" => LevelOf(fs2, cs2, er.e) # l
      /\ m \in {"handle", "throw"} => LevelOf(fs2, cs2, er.e) = l
      /\ m = "throw" => cs2[er.e].handler = "dummyHandler"
      /\ er.undone = er.level - l + (IF m = "rollback" THEN 1 ELSE 0)
  BY <1>4 DEF Pending, SameContext
<1> QED
  BY <1>4, <1>5, <1>6, <1>7, <1>8, <1>9 DEF Pending

\* A handler that has not been run has not been run by what does not touch
\* the handlers of the n contexts.
LEMMA FreshStays ==
  ASSUME NEW cs, NEW cs2, NEW n \in Nat,
         \A k \in 1 .. n : cs2[k].handler = cs[k].handler, Fresh(cs, n)
  PROVE  Fresh(cs2, n)
<1>1. \A k \in 1 .. n : Open(cs2, k + 1, n) <=> Open(cs, k + 1, n)
  BY DEF Open, NoHandler
<1> QED
  BY <1>1 DEF Fresh

\* Contexts without handler, which pass errors on, make no difference to
\* which handler the next error runs.
LEMMA FreshAbove ==
  ASSUME NEW cs, NEW n \in Nat
  PROVE  /\ Fresh(cs, n) /\ n + 1 \in Nat /\ cs[n + 1].handler # "dummyHandler" => Fresh(cs, n + 1)
         /\ Fresh(cs, n + 1) /\ NoHandler(cs, n + 1) => Fresh(cs, n)
<1>1. \A k \in 1 .. n : Open(cs, k + 1, n + 1) => Open(cs, k + 1, n)
  BY DEF Open
<1>2. NoHandler(cs, n + 1) => \A k \in 1 .. n : Open(cs, k + 1, n) => Open(cs, k + 1, n + 1)
  BY DEF Open
<1> QED
  BY <1>1, <1>2 DEF Fresh

\* Code is as deep within a context as before if the level of that context
\* is the same.
LEMMA WithinStays ==
  ASSUME NEW fs, NEW cs, NEW fs2, NEW cs2, NEW l, NEW atomic, NEW k,
         NoHandler(cs2, k) <=> NoHandler(cs, k),
         LevelOf(fs2, cs2, k) = LevelOf(fs, cs, k),
         Within(fs, cs, l, atomic, k)
  PROVE  Within(fs2, cs2, l, atomic, k)
BY DEF Within


-----------------------------------------------------------------------------
\* Numbers are numbers.
Numbers(fs, cs, bs) ==
  /\ \A i \in 1 .. Len(fs) :
       /\ fs[i].level \in Nat /\ fs[i].rlim \in Nat /\ fs[i].rlim >= 1
       /\ fs[i].atomic \in BOOLEAN
  /\ \A k \in 1 .. Len(cs) :
       /\ cs[k].f \in 1 .. Len(fs) /\ cs[k].rlim \in Nat /\ cs[k].atomic \in BOOLEAN
       /\ cs[k].block \in 1 .. Len(bs) /\ cs[k].addr \in Nat
  /\ \A i \in 1 .. Len(bs) :
       /\ bs[i].f \in 1 .. Len(fs) /\ bs[i].rlim \in Nat /\ Under(bs[i]) \in Nat
       /\ Under(bs[i]) <= bs[i].rlim /\ bs[i].rlim <= Under(bs[i]) + 1
       /\ bs[i].error \in ErrorType

\* Frames, contexts and blocks of a stack refer to each other by numbers
\* that exist; this is what makes arithmetic on them possible.
LEMMA StackNumbers ==
  ASSUME NEW fs, NEW cs, NEW bs, Stack(fs, cs, bs)
  PROVE  /\ Len(fs) \in Nat /\ Len(fs) >= 1 /\ Len(cs) \in Nat /\ Len(bs) \in Nat
         /\ Numbers(fs, cs, bs)
<1>1. /\ fs \in Seq(FrameType) /\ fs # <<>> /\ cs \in Seq(ContextType) /\ bs \in Seq(BlockType)
  BY DEF Stack, StackType
<1>2. Len(fs) \in Nat /\ Len(fs) >= 1 /\ Len(cs) \in Nat /\ Len(bs) \in Nat
  BY <1>1
<1>3. ASSUME NEW i \in 1 .. Len(fs)
      PROVE  /\ fs[i].level \in Nat /\ fs[i].rlim \in Nat /\ fs[i].rlim >= 1
             /\ fs[i].atomic \in BOOLEAN
  <2>1. fs[i] \in FrameType
    BY <1>1
  <2> QED
    BY <2>1 DEF FrameType, Pos
<1>4. ASSUME NEW i \in 1 .. Len(bs)
      PROVE  /\ bs[i].f \in 1 .. Len(fs) /\ bs[i].rlim \in Nat /\ Under(bs[i]) \in Nat
             /\ Under(bs[i]) <= bs[i].rlim /\ bs[i].rlim <= Under(bs[i]) + 1
             /\ bs[i].error \in ErrorType
  <2>1. bs[i] \in BlockType /\ bs[i].f <= Len(fs) /\ Under(bs[i]) >= 1
    BY <1>1 DEF Stack, BlocksUp
  <2>2. bs[i].f \in Nat /\ bs[i].f >= 1 /\ bs[i].rlim \in Nat /\ bs[i].error \in ErrorType
    BY <2>1 DEF BlockType, Pos
  <2> QED
    BY <1>2, <2>1, <2>2 DEF Under
<1>5. ASSUME NEW k \in 1 .. Len(cs)
      PROVE  /\ cs[k].f \in 1 .. Len(fs) /\ cs[k].rlim \in Nat /\ cs[k].atomic \in BOOLEAN
             /\ cs[k].block \in 1 .. Len(bs) /\ cs[k].addr \in Nat
  <2>1. cs[k] \in ContextType
    BY <1>1
  <2>2. /\ cs[k].block \in Nat /\ cs[k].block >= 1 /\ cs[k].rlim \in Nat
        /\ cs[k].atomic \in BOOLEAN /\ cs[k].addr \in Nat
    BY <2>1 DEF ContextType, Pos
  <2>3. cs[k].block <= Len(bs) /\ cs[k].f = bs[cs[k].block].f
    BY DEF Stack, ContextsUp, BlockOf
  <2> QED
    BY <1>2, <1>4, <2>2, <2>3
<1> QED
  BY <1>2, <1>3, <1>4, <1>5 DEF Numbers

\* There are error contexts exactly while something runs: the main loop
\* pushes one for every task.
LEMMA NoContexts ==
  ASSUME NEW fs, NEW cs, NEW bs, Stack(fs, cs, bs)
  PROVE  cs = <<>> <=> bs = <<>>
<1>1. Len(cs) \in Nat /\ Len(bs) \in Nat /\ Numbers(fs, cs, bs)
  BY StackNumbers
<1>2. ASSUME cs # <<>> PROVE bs # <<>>
  <2>1. 1 \in 1 .. Len(cs)
    BY <1>1, <1>2 DEF Stack, StackType
  <2>2. cs[1].block \in 1 .. Len(bs)
    BY <1>1, <2>1 DEF Numbers
  <2> QED
    BY <2>2
<1>3. ASSUME bs # <<>> PROVE cs # <<>>
  <2>1. 1 \in 1 .. Len(bs)
    BY <1>1, <1>3 DEF Stack, StackType
  <2>2. bs[1].kind = "task"
    BY <2>1 DEF Stack, BlocksNest
  <2>3. PICK k \in 1 .. Len(cs) : cs[k].block = 1
    BY <2>1, <2>2 DEF Stack, ContextsUp
  <2> QED
    BY <2>3
<1> QED
  BY <1>2, <1>3

\* The errors that wait in the first n contexts, until a function of the
\* driver object returns, are not disturbed by what happens above.
LEMMA SuspendedStays ==
  ASSUME NEW fs, NEW cs, NEW bs, NEW fs2, NEW cs2, NEW bs2, NEW n \in Nat,
         Len(cs) \in Nat, n <= Len(cs), Len(cs2) = n, Numbers(fs, cs, bs),
         \A k \in 1 .. n :
           /\ SameContext(fs, cs, bs, fs2, cs2, bs2, k)
           /\ cs2[k].block = cs[k].block
           /\ BlockOf(cs2, bs2, k).then = BlockOf(cs, bs, k).then
           /\ BlockOf(cs2, bs2, k).error = BlockOf(cs, bs, k).error,
         Suspended(fs, cs, bs)
  PROVE  Suspended(fs2, cs2, bs2)
<1> SUFFICES ASSUME NEW k \in 1 .. n
             PROVE  LET d == BlockOf(cs2, bs2, k)
                    IN  IF d.then = "run" THEN d.kind # "guard" => Fresh(cs2, k - 1)
                        ELSE /\ k > 1
                             /\ cs2[k].block = cs2[k - 1].block + 1
                             /\ Pending(fs2, cs2, bs2, d.then, d.error, k - 1,
                                        LevelOf(fs2, cs2, k))
  BY DEF Suspended
<1>1. /\ k - 1 \in Nat /\ k \in 1 .. Len(cs)
      /\ \A m \in 1 .. k - 1 : m \in 1 .. n
      /\ k > 1 => k - 1 \in 1 .. n
  OBVIOUS
<1>2. /\ LevelOf(fs2, cs2, k) = LevelOf(fs, cs, k)
      /\ BlockOf(cs2, bs2, k).kind = "guard" <=> BlockOf(cs, bs, k).kind = "guard"
  BY DEF SameContext, Critical
<1>3. CASE BlockOf(cs, bs, k).then = "run"
  <2>1. BlockOf(cs, bs, k).kind # "guard" => Fresh(cs, k - 1)
    BY <1>1, <1>3 DEF Suspended
  <2>2. Fresh(cs, k - 1) => Fresh(cs2, k - 1)
    BY <1>1, FreshStays DEF SameContext
  <2> QED
    BY <1>2, <1>3, <2>1, <2>2
<1>4. CASE BlockOf(cs, bs, k).then # "run"
  <2>1. /\ k > 1 /\ cs[k].block = cs[k - 1].block + 1
        /\ Pending(fs, cs, bs, BlockOf(cs, bs, k).then, BlockOf(cs, bs, k).error, k - 1,
                   LevelOf(fs, cs, k))
    BY <1>1, <1>4 DEF Suspended
  <2>2. BlockOf(cs, bs, k).error \in ErrorType
    BY <1>1 DEF BlockOf, Numbers
  <2>3. Pending(fs2, cs2, bs2, BlockOf(cs, bs, k).then, BlockOf(cs, bs, k).error, k - 1,
                LevelOf(fs, cs, k))
    BY <1>1, <2>1, <2>2, PendingStays
  <2> QED
    BY <1>1, <1>2, <1>4, <2>1, <2>3
<1> QED
  BY <1>3, <1>4

\* ErrorContext::push(): a block with an error context is put on a stack,
\* with the same frame, or with a new scope for a call of the driver object.
LEMMA StackPush ==
  ASSUME NEW fs, NEW cs, NEW bs, Stack(fs, cs, bs),
         NEW c \in ContextType, NEW b \in BlockType, NEW top \in FrameType,
         b.kind \notin {"call", "rlimits"},
         b.f = Len(fs), c.f = Len(fs), c.rlim = b.rlim, c.block = Len(bs) + 1,
         \A k \in 1 .. Len(cs) : cs[k].addr # c.addr,
         Under(b) = fs[Len(fs)].rlim, top.rlim = b.rlim,
         top.level = fs[Len(fs)].level, c.atomic = fs[Len(fs)].atomic,
         top.atomic = c.atomic \/ c.handler # "none",
         b.kind = "task" <=> bs = <<>>,
         b.kind = "task" => Len(fs) = 1 /\ b.rlim = 1,
         b.kind = "catch" => b.atomic = c.atomic,
         ~Critical(b) => b.then = "run", b.then = "run" => b.error = NoError,
         c.handler \in HandlerOf(b),
         b.then = "run" => Top(fs, bs) /\ Fresh(cs, Len(cs)),
         b.then # "run" => /\ cs # <<>> /\ cs[Len(cs)].block = Len(bs)
                           /\ Pending(fs, cs, bs, b.then, b.error, Len(cs), top.level)
  PROVE  Stack([fs EXCEPT ![Len(fs)] = top], Append(cs, c), Append(bs, b))
<1> DEFINE fs2 == [fs EXCEPT ![Len(fs)] = top]
           cs2 == Append(cs, c)
           bs2 == Append(bs, b)
<1>1. /\ StackType(fs, cs, bs) /\ FramesUp(fs) /\ BlocksUp(fs, bs) /\ BlocksNest(fs, bs)
      /\ ContextsUp(cs, bs) /\ HandlersRight(cs, bs) /\ Handled(fs, cs)
      /\ Suspended(fs, cs, bs)
  BY DEF Stack
<1>2. /\ fs \in Seq(FrameType) /\ Len(fs) \in Nat /\ Len(fs) >= 1
      /\ cs \in Seq(ContextType) /\ Len(cs) \in Nat
      /\ bs \in Seq(BlockType) /\ Len(bs) \in Nat
      /\ Numbers(fs, cs, bs)
  BY <1>1, StackNumbers DEF StackType
<1>3. /\ fs2 \in Seq(FrameType) /\ Len(fs2) = Len(fs) /\ fs2[Len(fs)] = top
      /\ \A i \in 1 .. Len(fs) - 1 : fs2[i] = fs[i]
  BY <1>2
<1>4. /\ cs2 \in Seq(ContextType) /\ Len(cs2) = Len(cs) + 1 /\ cs2[Len(cs) + 1] = c
      /\ \A k \in 1 .. Len(cs) : cs2[k] = cs[k]
  BY <1>2
<1>5. /\ bs2 \in Seq(BlockType) /\ Len(bs2) = Len(bs) + 1 /\ bs2[Len(bs) + 1] = b
      /\ \A i \in 1 .. Len(bs) : bs2[i] = bs[i]
  BY <1>2
<1> HIDE DEF fs2, cs2, bs2
<1>20. /\ \A k \in 1 .. Len(cs2) : k \in 1 .. Len(cs) \/ k = Len(cs) + 1
       /\ \A i \in 1 .. Len(bs2) : i \in 1 .. Len(bs) \/ i = Len(bs) + 1
  BY <1>2, <1>4, <1>5
<1>21. /\ \A k \in 1 .. Len(cs) : BlockOf(cs2, bs2, k) = BlockOf(cs, bs, k) /\ cs2[k] = cs[k]
       /\ BlockOf(cs2, bs2, Len(cs) + 1) = b
  BY SMTT(60), <1>2, <1>4, <1>5 DEF BlockOf, Numbers
<1>6. /\ b.rlim \in Nat /\ Under(b) <= b.rlim /\ b.rlim <= Under(b) + 1
      /\ top.rlim \in Nat
  BY DEF BlockType, Under, Pos
<1>7. ASSUME NEW i \in 1 .. Len(fs)
      PROVE  /\ fs2[i].level = fs[i].level
             /\ fs[i].rlim \in Nat /\ fs2[i].rlim \in Nat /\ fs2[i].rlim >= fs[i].rlim
  <2>1. fs[i].rlim \in Nat
    BY <1>2 DEF Numbers
  <2>2. CASE i = Len(fs)
    BY <1>3, <1>6, <2>1, <2>2
  <2>3. CASE i # Len(fs)
    <3>1. fs2[i] = fs[i]
      BY <1>2, <1>3, <2>3
    <3> QED
      BY <2>1, <3>1
  <2> QED
    BY <2>2, <2>3
<1>8. StackType(fs2, cs2, bs2)
  BY <1>2, <1>3, <1>4, <1>5 DEF StackType
<1>9. FramesUp(fs2)
  <2>1. fs2[1].level = 0
    BY <1>1, <1>2, <1>7 DEF FramesUp
  <2>2. ASSUME NEW i \in 1 .. Len(fs), NEW j \in 1 .. Len(fs), i <= j
        PROVE  fs2[i].level <= fs2[j].level /\ fs2[i].rlim <= fs2[j].rlim
    <3>1. fs[i].level <= fs[j].level /\ fs[i].rlim <= fs[j].rlim
      BY <1>1, <2>2 DEF FramesUp
    <3>2. fs2[j].rlim >= fs[j].rlim /\ fs2[j].rlim \in Nat /\ fs[j].rlim \in Nat
          /\ fs[i].rlim \in Nat
      BY <1>7
    <3>3. i # Len(fs) => fs2[i] = fs[i]
      BY <1>2, <1>3
    <3>4. i = Len(fs) => j = Len(fs)
      BY <2>2, <1>2
    <3> QED
      BY SMTT(60), <1>7, <3>1, <3>2, <3>3, <3>4, <1>2, <1>3, <1>6
  <2> QED
    BY <1>3, <2>1, <2>2 DEF FramesUp
<1>10. BlocksUp(fs2, bs2)
  <2>1. /\ b.f <= Len(fs2) /\ Under(b) >= 1 /\ b.rlim <= fs2[b.f].rlim
        /\ \A j \in 1 .. b.f - 1 : fs2[j].rlim <= Under(b)
    <3>1. ASSUME NEW j \in 1 .. b.f - 1 PROVE fs2[j].rlim <= Under(b)
      <4>1. j \in 1 .. Len(fs) /\ Len(fs) \in 1 .. Len(fs) /\ j <= Len(fs) /\ fs2[j] = fs[j]
        BY SMTT(60), <1>2, <1>3
      <4> QED
        BY <1>1, <4>1 DEF FramesUp
    <3> QED
      BY <1>2, <1>3, <1>6, <3>1 DEF Numbers
  <2>2. ASSUME NEW j \in 1 .. Len(bs)
        PROVE  bs[j].f <= b.f /\ bs[j].rlim <= Under(b)
    <3>1. bs[j].f \in 1 .. Len(fs) /\ bs[j].rlim <= fs[bs[j].f].rlim /\ bs[j].rlim \in Nat
          /\ fs[bs[j].f].rlim \in Nat
      BY <1>1, <1>2 DEF BlocksUp, Numbers
    <3>2. fs[bs[j].f].rlim <= fs[Len(fs)].rlim /\ fs[Len(fs)].rlim \in Nat
      BY SMTT(60), <1>1, <1>2, <3>1 DEF FramesUp, Numbers
    <3> QED
      BY SMTT(60), <1>2, <3>1, <3>2
  <2>3. ASSUME NEW i \in 1 .. Len(bs)
        PROVE  /\ bs[i].f <= Len(fs2)
               /\ Under(bs[i]) >= 1
               /\ bs[i].rlim <= fs2[bs[i].f].rlim
               /\ \A j \in 1 .. bs[i].f - 1 : fs2[j].rlim <= Under(bs[i])
               /\ \A j \in 1 .. i - 1 : bs[j].f <= bs[i].f /\ bs[j].rlim <= Under(bs[i])
    <3>1. bs[i].f \in 1 .. Len(fs) /\ bs[i].rlim <= fs[bs[i].f].rlim /\ bs[i].rlim \in Nat
      BY <1>1, <1>2 DEF BlocksUp, Numbers
    <3>2. \A j \in 1 .. bs[i].f - 1 : j \in 1 .. Len(fs) - 1
      BY <1>2, <3>1
    <3>3. \A j \in 1 .. bs[i].f - 1 : fs2[j].rlim <= Under(bs[i])
      BY <1>1, <1>3, <3>2 DEF BlocksUp
    <3>4. fs[bs[i].f].rlim \in Nat /\ fs2[bs[i].f].rlim \in Nat
          /\ fs2[bs[i].f].rlim >= fs[bs[i].f].rlim
      BY <1>7, <3>1
    <3> QED
      BY SMTT(60), <1>1, <1>3, <3>1, <3>3, <3>4 DEF BlocksUp
  <2>4. \A i \in 1 .. Len(bs2) : i \in 1 .. Len(bs) \/ i = Len(bs) + 1
    BY <1>2, <1>5
  <2>5. \A i \in 1 .. Len(bs2) :
          /\ bs2[i].f <= Len(fs2)
          /\ Under(bs2[i]) >= 1
          /\ bs2[i].rlim <= fs2[bs2[i].f].rlim
          /\ \A j \in 1 .. bs2[i].f - 1 : fs2[j].rlim <= Under(bs2[i])
    BY <1>5, <2>1, <2>3, <2>4
  <2>6. \A i \in 1 .. Len(bs2) : \A j \in 1 .. i - 1 :
          bs2[j].f <= bs2[i].f /\ bs2[j].rlim <= Under(bs2[i])
    <3> SUFFICES ASSUME NEW i \in 1 .. Len(bs2), NEW j \in 1 .. i - 1
                 PROVE  bs2[j].f <= bs2[i].f /\ bs2[j].rlim <= Under(bs2[i])
      OBVIOUS
    <3>1. j \in 1 .. Len(bs) /\ bs2[j] = bs[j]
      BY <1>2, <1>5
    <3>2. CASE i \in 1 .. Len(bs)
      BY <1>5, <2>3, <3>1, <3>2
    <3>3. CASE i = Len(bs) + 1
      BY <1>5, <2>2, <3>1, <3>3
    <3> QED
      BY <2>4, <3>2, <3>3
  <2> QED
    BY <2>5, <2>6 DEF BlocksUp
<1>11. BlocksNest(fs2, bs2)
  <2> SUFFICES ASSUME NEW i \in 1 .. Len(bs2)
               PROVE  LET d == bs2[i]
                          a == bs2[i - 1]
                      IN  /\ d.kind = "task" <=> i = 1
                          /\ d.kind = "task" => d.f = 1 /\ d.rlim = 1
                          /\ ~Critical(d) => d.then = "run"
                          /\ d.then = "run" => d.error = NoError
                          /\ i > 1 /\ d.then = "run" =>
                               /\ d.f = IF d.kind = "call" THEN a.f + 1 ELSE a.f
                               /\ Under(d) = a.rlim
                          /\ d.kind = "call" =>
                               /\ fs2[a.f].rlim = a.rlim
                               /\ fs2[d.f].level = IF d.plane THEN fs2[a.f].level + 1
                                                   ELSE fs2[a.f].level
    BY DEF BlocksNest
  <2>1. CASE i = Len(bs) + 1
    <3>1. bs2[i] = b /\ (i = 1 <=> bs = <<>>)
      BY <1>2, <1>5, <2>1
    <3>2. i > 1 => bs2[i - 1] = bs[Len(bs)] /\ bs # <<>>
      BY <1>2, <1>5, <2>1
    <3>3. i > 1 /\ b.then = "run" => /\ bs2[i - 1].f = Len(fs)
                                     /\ bs2[i - 1].rlim = fs[Len(fs)].rlim
      BY <3>2 DEF Top
    <3> QED
      BY <3>1, <3>3
  <2>2. CASE i \in 1 .. Len(bs)
    <3>1. bs2[i] = bs[i] /\ (i > 1 => bs2[i - 1] = bs[i - 1] /\ i - 1 \in 1 .. Len(bs))
      BY <1>2, <1>5, <2>2
    <3>2. CASE bs[i].kind # "call"
      BY <1>1, <2>2, <3>1, <3>2 DEF BlocksNest
    <3>3. CASE bs[i].kind = "call"
      <4>1. i > 1 /\ bs[i].then = "run"
        BY SMTT(60), <1>1, <1>2, <2>2, <3>3 DEF BlocksNest, Critical
      <4>2. bs[i].f = bs[i - 1].f + 1 /\ bs[i].f \in 1 .. Len(fs) /\ bs[i - 1].f \in 1 .. Len(fs)
        BY <1>1, <1>2, <2>2, <3>1, <3>3, <4>1 DEF BlocksNest, Numbers
      <4>3. fs2[bs[i - 1].f] = fs[bs[i - 1].f] /\ fs2[bs[i].f].level = fs[bs[i].f].level
        BY SMTT(60), <1>2, <1>3, <1>7, <4>2
      <4> QED
        BY SMTT(60), <1>1, <2>2, <3>1, <3>3, <4>1, <4>3 DEF BlocksNest
    <3> QED
      BY <3>2, <3>3
  <2> QED
    BY <1>2, <1>5, <2>1, <2>2
<1>12. ContextsUp(cs2, bs2)
  <2>1. ASSUME NEW k \in 1 .. Len(cs2)
        PROVE  /\ cs2[k].block <= Len(bs2)
               /\ cs2[k].f = BlockOf(cs2, bs2, k).f
               /\ cs2[k].rlim = BlockOf(cs2, bs2, k).rlim
               /\ BlockOf(cs2, bs2, k).kind \notin {"call", "rlimits"}
               /\ BlockOf(cs2, bs2, k).kind = "catch" =>
                    BlockOf(cs2, bs2, k).atomic = cs2[k].atomic
    <3>1. CASE k = Len(cs) + 1
      BY <1>2, <1>4, <1>5, <3>1 DEF BlockOf
    <3>2. CASE k \in 1 .. Len(cs)
      <4>1. cs[k].block \in 1 .. Len(bs)
        BY <1>2, <3>2 DEF Numbers
      <4>2. cs2[k].block <= Len(bs2)
        BY <1>2, <1>5, <1>21, <3>2, <4>1
      <4> QED
        BY <1>1, <1>21, <3>2, <4>2 DEF ContextsUp
    <3> QED
      BY <1>2, <1>4, <3>1, <3>2
  <2>2. ASSUME NEW k \in 1 .. Len(cs2), NEW m \in 1 .. k - 1
        PROVE  cs2[m].block < cs2[k].block /\ cs2[m].addr # cs2[k].addr
    <3>1. m \in 1 .. Len(cs) /\ cs2[m] = cs[m]
      BY <1>2, <1>4
    <3>2. CASE k = Len(cs) + 1
      BY SMTT(60), <1>2, <1>4, <3>1, <3>2 DEF Numbers
    <3>3. CASE k \in 1 .. Len(cs)
      <4>1. cs2[k] = cs[k]
        BY <1>4, <3>3
      <4>2. \A i \in 1 .. Len(cs) : \A j \in 1 .. i - 1 :
              cs[j].block < cs[i].block /\ cs[j].addr # cs[i].addr
        BY <1>1 DEF ContextsUp
      <4> QED
        BY <3>1, <3>3, <4>1, <4>2
    <3> QED
      BY <1>20, <3>2, <3>3
  <2>3. ASSUME NEW i \in 1 .. Len(bs2), bs2[i].kind \notin {"call", "rlimits"}
        PROVE  \E k \in 1 .. Len(cs2) : cs2[k].block = i
    <3>1. CASE i = Len(bs) + 1
      <4>1. Len(cs) + 1 \in 1 .. Len(cs2)
        BY <1>2, <1>4
      <4> QED
        BY <1>4, <3>1, <4>1
    <3>2. CASE i \in 1 .. Len(bs)
      <4>1. PICK k \in 1 .. Len(cs) : cs[k].block = i
        BY <1>1, <1>5, <2>3, <3>2 DEF ContextsUp
      <4> QED
        BY <1>2, <1>4, <4>1
    <3> QED
      BY <1>2, <1>5, <3>1, <3>2
  <2> QED
    BY <2>1, <2>2, <2>3 DEF ContextsUp
<1>13. HandlersRight(cs2, bs2)
  <2> SUFFICES ASSUME NEW k \in 1 .. Len(cs2)
               PROVE  cs2[k].handler \in HandlerOf(BlockOf(cs2, bs2, k))
    BY DEF HandlersRight
  <2>1. CASE k = Len(cs) + 1
    BY <1>4, <1>5, <2>1 DEF BlockOf
  <2>2. CASE k \in 1 .. Len(cs)
    BY ZenonT(60), <1>1, <1>2, <1>4, <1>5, <2>2 DEF BlockOf, HandlersRight, Numbers
  <2> QED
    BY <1>2, <1>4, <2>1, <2>2
<1>14. \A k \in 1 .. Len(cs) : SameContext(fs, cs, bs, fs2, cs2, bs2, k)
  BY ZenonT(120), <1>2, <1>4, <1>5, <1>7 DEF SameContext, LevelOf, BlockOf, Numbers
<1>15. \A k \in 1 .. Len(cs) : /\ NoHandler(cs2, k) <=> NoHandler(cs, k)
                              /\ LevelOf(fs2, cs2, k) = LevelOf(fs, cs, k)
  BY <1>14 DEF SameContext, NoHandler
<1>16. /\ Len(cs) + 1 \in 1 .. Len(cs2)
       /\ \A k \in 1 .. Len(cs) : k \in 1 .. Len(cs2)
       /\ LevelOf(fs2, cs2, Len(cs) + 1) = fs[Len(fs)].level
  BY <1>2, <1>3, <1>4 DEF LevelOf
<1>17. c.handler # "none" =>
         \A atomic : Within(fs2, cs2, fs[Len(fs)].level, atomic, Len(cs) + 1)
  BY <1>4, <1>16 DEF Within, NoHandler
<1>18. Handled(fs2, cs2)
  <2>1. ASSUME NEW j \in 1 .. Len(fs2)
        PROVE  \E k \in 1 .. Len(cs2) :
                 cs2[k].f <= j /\ Within(fs2, cs2, fs2[j].level, fs2[j].atomic, k)
    <3>1. j \in 1 .. Len(fs) /\ fs2[j].level = fs[j].level
      BY <1>3, <1>7
    <3>2. CASE j = Len(fs) /\ c.handler # "none"
      BY <1>2, <1>4, <1>16, <1>17, <3>1, <3>2
    <3>3. CASE cs # <<>> /\ (j # Len(fs) \/ c.handler = "none")
      <4>1. PICK k \in 1 .. Len(cs) :
              cs[k].f <= j /\ Within(fs, cs, fs[j].level, fs[j].atomic, k)
        BY <1>1, <3>1, <3>3 DEF Handled
      <4>2. fs2[j].atomic = fs[j].atomic
        <5>1. CASE j # Len(fs)
          BY <1>2, <1>3, <3>1, <5>1
        <5>2. CASE j = Len(fs)
          BY <1>3, <3>3, <5>2
        <5> QED
          BY <5>1, <5>2
      <4>3. Within(fs2, cs2, fs2[j].level, fs2[j].atomic, k)
        BY <1>15, <3>1, <4>1, <4>2, WithinStays
      <4> QED
        BY <1>4, <1>16, <4>1, <4>3
    <3>4. CASE cs = <<>>
      <4>1. b.kind = "task" /\ Len(fs) = 1
        BY <3>4, NoContexts
      <4>2. c.handler # "none"
        BY <4>1 DEF HandlerOf
      <4> QED
        BY <3>1, <3>2, <4>1, <4>2
    <3> QED
      BY <3>2, <3>3, <3>4
  <2>2. ASSUME NEW d \in 1 .. Len(cs2), d > 1
        PROVE  \E k \in 1 .. d - 1 : Within(fs2, cs2, LevelOf(fs2, cs2, d), cs2[d].atomic, k)
    <3>1. CASE d = Len(cs) + 1
      <4>1. cs # <<>> /\ Len(fs) \in 1 .. Len(fs)
        BY <1>2, <2>2, <3>1
      <4>2. PICK k \in 1 .. Len(cs) : Within(fs, cs, fs[Len(fs)].level, fs[Len(fs)].atomic, k)
        BY <1>1, <4>1 DEF Handled
      <4>3. Within(fs2, cs2, LevelOf(fs2, cs2, d), cs2[d].atomic, k)
        BY <1>4, <1>15, <1>16, <3>1, <4>2, WithinStays
      <4> QED
        BY <3>1, <4>3, <1>2
    <3>2. CASE d \in 1 .. Len(cs)
      <4>1. PICK k \in 1 .. d - 1 : Within(fs, cs, LevelOf(fs, cs, d), cs[d].atomic, k)
        BY <1>1, <2>2, <3>2 DEF Handled
      <4>2. k \in 1 .. Len(cs)
        BY <1>2, <3>2, <4>1
      <4>3. Within(fs2, cs2, LevelOf(fs2, cs2, d), cs2[d].atomic, k)
        BY <1>4, <1>15, <3>2, <4>1, <4>2, WithinStays
      <4> QED
        BY <4>3
    <3> QED
      BY <1>2, <1>4, <3>1, <3>2
  <2> QED
    BY <2>1, <2>2 DEF Handled
<1>19. Suspended(fs2, cs2, bs2)
  <2> SUFFICES ASSUME NEW k \in 1 .. Len(cs2)
               PROVE  LET d == BlockOf(cs2, bs2, k)
                      IN  IF d.then = "run" THEN d.kind # "guard" => Fresh(cs2, k - 1)
                          ELSE /\ k > 1
                               /\ cs2[k].block = cs2[k - 1].block + 1
                               /\ Pending(fs2, cs2, bs2, d.then, d.error, k - 1,
                                          LevelOf(fs2, cs2, k))
    BY DEF Suspended
  <2>1. k - 1 \in Nat /\ \A m \in 1 .. k - 1 : m \in 1 .. Len(cs)
    BY <1>2, <1>4
  <2>2. Fresh(cs, k - 1) => Fresh(cs2, k - 1)
    BY <1>4, <2>1, FreshStays
  <2>3. \A er \in ErrorType : \A m, l : Pending(fs, cs, bs, m, er, k - 1, l)
                                      => Pending(fs2, cs2, bs2, m, er, k - 1, l)
    BY <1>14, <2>1, PendingStays
  <2>4. CASE k = Len(cs) + 1
    <3>1. BlockOf(cs2, bs2, k) = b /\ k - 1 = Len(cs) /\ cs2[k].block = Len(bs) + 1
      BY <1>2, <1>4, <1>5, <2>4 DEF BlockOf
    <3>2. CASE b.then = "run"
      BY <2>2, <3>1, <3>2
    <3>3. CASE b.then # "run"
      <4>1. k > 1 /\ cs2[k - 1].block = Len(bs)
        <5>1. cs # <<>> /\ cs[Len(cs)].block = Len(bs)
          BY <3>3
        <5>2. Len(cs) \in 1 .. Len(cs)
          BY <1>2, <5>1
        <5> QED
          BY <1>4, <2>4, <5>1, <5>2, <1>2
      <4>2. b.error \in ErrorType
        BY DEF BlockType
      <4>3. Pending(fs, cs, bs, b.then, b.error, k - 1, LevelOf(fs2, cs2, k))
        BY <1>16, <2>4, <3>1, <3>3
      <4>4. Pending(fs2, cs2, bs2, b.then, b.error, k - 1, LevelOf(fs2, cs2, k))
        BY <2>3, <4>2, <4>3
      <4> QED
        BY <1>2, <3>1, <3>3, <4>1, <4>4
    <3> QED
      BY <3>2, <3>3
  <2>5. CASE k \in 1 .. Len(cs)
    <3>1. BlockOf(cs2, bs2, k) = BlockOf(cs, bs, k) /\ cs2[k] = cs[k]
          /\ LevelOf(fs2, cs2, k) = LevelOf(fs, cs, k)
          /\ BlockOf(cs, bs, k).error \in ErrorType
          /\ (k > 1 => cs2[k - 1] = cs[k - 1])
      <4>1. k > 1 => k - 1 \in 1 .. Len(cs)
        BY <1>2, <2>5
      <4>2. BlockOf(cs, bs, k).error \in ErrorType
        BY <1>2, <2>5 DEF BlockOf, Numbers
      <4> QED
        BY <1>15, <1>21, <2>5, <4>1, <4>2
    <3>2. CASE BlockOf(cs, bs, k).then = "run"
      BY <1>1, <2>2, <2>5, <3>1, <3>2 DEF Suspended
    <3>3. CASE BlockOf(cs, bs, k).then # "run"
      <4>1. /\ k > 1 /\ cs[k].block = cs[k - 1].block + 1
            /\ Pending(fs, cs, bs, BlockOf(cs, bs, k).then, BlockOf(cs, bs, k).error, k - 1,
                       LevelOf(fs, cs, k))
        BY <1>1, <2>5, <3>3 DEF Suspended
      <4>2. Pending(fs2, cs2, bs2, BlockOf(cs, bs, k).then, BlockOf(cs, bs, k).error, k - 1,
                    LevelOf(fs, cs, k))
        BY <2>3, <3>1, <4>1
      <4> QED
        BY <3>1, <3>3, <4>1, <4>2
    <3> QED
      BY <3>2, <3>3
  <2> QED
    BY <1>2, <1>4, <2>4, <2>5
<1> QED
  BY <1>8, <1>9, <1>10, <1>11, <1>12, <1>13, <1>18, <1>19 DEF Stack, fs2, cs2, bs2

\* A block without error context is put on a stack: a function call, which
\* has a frame of its own, or rlimits, with a scope; t is the frame it runs in.
LEMMA StackEnter ==
  ASSUME NEW fs, NEW cs, NEW bs, Stack(fs, cs, bs), bs # <<>>, Top(fs, bs),
         NEW fs2 \in Seq(FrameType), NEW b \in BlockType, NEW top \in FrameType,
         b.kind \in {"call", "rlimits"}, b.then = "run", b.error = NoError,
         b.f = IF b.kind = "call" THEN Len(fs) + 1 ELSE Len(fs),
         Under(b) = fs[Len(fs)].rlim, top.rlim = b.rlim,
         Len(fs2) = b.f, fs2[b.f] = top, \A i \in 1 .. b.f - 1 : fs2[i] = fs[i],
         IF b.kind = "call" /\ b.plane
         THEN /\ top.level = fs[Len(fs)].level + 1
              /\ top.atomic /\ ~fs[Len(fs)].atomic
         ELSE top.level = fs[Len(fs)].level /\ top.atomic = fs[Len(fs)].atomic
  PROVE  Stack(fs2, cs, Append(bs, b))
<1> DEFINE bs2 == Append(bs, b)
           t == b.f
<1>1. /\ StackType(fs, cs, bs) /\ FramesUp(fs) /\ BlocksUp(fs, bs) /\ BlocksNest(fs, bs)
      /\ ContextsUp(cs, bs) /\ HandlersRight(cs, bs) /\ Handled(fs, cs)
      /\ Suspended(fs, cs, bs)
  BY DEF Stack
<1>2. /\ fs \in Seq(FrameType) /\ Len(fs) \in Nat /\ Len(fs) >= 1
      /\ cs \in Seq(ContextType) /\ Len(cs) \in Nat
      /\ bs \in Seq(BlockType) /\ Len(bs) \in Nat /\ Len(bs) >= 1
      /\ Numbers(fs, cs, bs)
  BY <1>1, StackNumbers DEF StackType
<1>3. /\ t \in Nat /\ t >= Len(fs) /\ t - 1 <= Len(fs) /\ Len(fs2) = t
  BY <1>2
<1>4. /\ bs2 \in Seq(BlockType) /\ Len(bs2) = Len(bs) + 1 /\ bs2[Len(bs) + 1] = b
      /\ \A i \in 1 .. Len(bs) : bs2[i] = bs[i]
  BY <1>2
<1> HIDE DEF bs2
<1>5. /\ \A i \in 1 .. Len(bs2) : i \in 1 .. Len(bs) \/ i = Len(bs) + 1
      /\ \A k \in 1 .. Len(cs) : BlockOf(cs, bs2, k) = BlockOf(cs, bs, k)
  BY SMTT(60), <1>2, <1>4 DEF BlockOf, Numbers
<1>6. /\ b.rlim \in Nat /\ Under(b) <= b.rlim /\ b.rlim <= Under(b) + 1
      /\ top.rlim \in Nat /\ top.level \in Nat
  BY SMTT(60) DEF BlockType, FrameType, Under, Pos
<1>7. ASSUME NEW i \in 1 .. Len(fs)
      PROVE  /\ fs2[i].level = fs[i].level /\ fs2[i].atomic = fs[i].atomic
             /\ fs[i].rlim \in Nat /\ fs2[i].rlim \in Nat /\ fs2[i].rlim >= fs[i].rlim
             /\ i \in 1 .. t
  <2>1. fs[i].rlim \in Nat /\ i \in 1 .. t
    BY <1>2, <1>3 DEF Numbers
  <2>2. CASE i = t
    <3>1. Len(fs) = t /\ b.kind # "call"
      BY <1>2, <2>2
    <3> QED
      BY <1>2, <1>6, <2>1, <2>2, <3>1
  <2>3. CASE i # t
    <3>1. fs2[i] = fs[i]
      BY <1>2, <1>3, <2>1, <2>3
    <3> QED
      BY <2>1, <3>1
  <2> QED
    BY <2>2, <2>3
<1>8. \A i \in 1 .. t - 1 : i \in 1 .. Len(fs) /\ fs2[i] = fs[i]
  BY <1>2, <1>3
<1>9. Len(fs) \in 1 .. Len(fs) /\ fs[Len(fs)].rlim \in Nat /\ fs[Len(fs)].level \in Nat
  BY <1>2 DEF Numbers
<1>10. StackType(fs2, cs, bs2)
  BY <1>2, <1>3, <1>4 DEF StackType
<1>11. FramesUp(fs2)
  <2>1. fs2[1].level = 0
    BY <1>1, <1>2, <1>7 DEF FramesUp
  <2>2. ASSUME NEW i \in 1 .. Len(fs2), NEW j \in 1 .. Len(fs2), i <= j
        PROVE  fs2[i].level <= fs2[j].level /\ fs2[i].rlim <= fs2[j].rlim
    <3>1. CASE i = t
      <4>1. j = t
        BY <1>3, <2>2, <3>1
      <4> QED
        BY <1>6, <3>1, <4>1
    <3>2. CASE i # t /\ j # t
      <4>1. i \in 1 .. t - 1 /\ j \in 1 .. t - 1
        BY <1>3, <3>2
      <4> QED
        BY <1>1, <1>8, <2>2, <4>1 DEF FramesUp
    <3>3. CASE i # t /\ j = t
      <4>1. i \in 1 .. t - 1
        BY <1>3, <3>3
      <4>2. i \in 1 .. Len(fs) /\ fs2[i] = fs[i] /\ i <= Len(fs)
        BY <1>8, <4>1, <1>2
      <4>3. fs[i].level <= fs[Len(fs)].level /\ fs[i].rlim <= fs[Len(fs)].rlim
        BY <1>1, <1>9, <4>2 DEF FramesUp
      <4>4. fs[i].level \in Nat /\ fs[i].rlim \in Nat
        BY <1>2, <4>2 DEF Numbers
      <4>5. fs[Len(fs)].level <= top.level /\ fs[Len(fs)].rlim <= top.rlim
        BY <1>6, <1>9
      <4> QED
        BY SMTT(60), <1>6, <1>9, <3>3, <4>2, <4>3, <4>4, <4>5
    <3> QED
      BY <3>1, <3>2, <3>3
  <2> QED
    BY <1>3, <2>1, <2>2 DEF FramesUp
<1>12. BlocksUp(fs2, bs2)
  <2>1. /\ b.f <= Len(fs2) /\ Under(b) >= 1 /\ b.rlim <= fs2[b.f].rlim
        /\ \A j \in 1 .. b.f - 1 : fs2[j].rlim <= Under(b)
    <3>1. ASSUME NEW j \in 1 .. b.f - 1 PROVE fs2[j].rlim <= Under(b)
      <4>1. j \in 1 .. Len(fs) /\ j <= Len(fs) /\ fs2[j] = fs[j]
        BY <1>2, <1>8
      <4> QED
        BY <1>1, <1>9, <4>1 DEF FramesUp
    <3>2. fs[Len(fs)].rlim >= 1
      BY <1>2, <1>9 DEF Numbers
    <3> QED
      BY <1>3, <1>6, <3>1, <3>2
  <2>2. ASSUME NEW j \in 1 .. Len(bs)
        PROVE  bs[j].f <= b.f /\ bs[j].rlim <= Under(b)
    <3>1. bs[j].f \in 1 .. Len(fs) /\ bs[j].rlim <= fs[bs[j].f].rlim /\ bs[j].rlim \in Nat
          /\ fs[bs[j].f].rlim \in Nat
      BY <1>1, <1>2 DEF BlocksUp, Numbers
    <3>2. fs[bs[j].f].rlim <= fs[Len(fs)].rlim
      BY <1>1, <1>2, <1>9, <3>1 DEF FramesUp
    <3> QED
      BY SMTT(60), <1>2, <1>3, <1>9, <3>1, <3>2
  <2>3. ASSUME NEW i \in 1 .. Len(bs)
        PROVE  /\ bs[i].f <= Len(fs2)
               /\ Under(bs[i]) >= 1
               /\ bs[i].rlim <= fs2[bs[i].f].rlim
               /\ \A j \in 1 .. bs[i].f - 1 : fs2[j].rlim <= Under(bs[i])
               /\ \A j \in 1 .. i - 1 : bs[j].f <= bs[i].f /\ bs[j].rlim <= Under(bs[i])
    <3>1. bs[i].f \in 1 .. Len(fs) /\ bs[i].rlim <= fs[bs[i].f].rlim /\ bs[i].rlim \in Nat
      BY <1>1, <1>2 DEF BlocksUp, Numbers
    <3>2. \A j \in 1 .. bs[i].f - 1 : j \in 1 .. t - 1
      BY SMTT(60), <1>2, <1>3, <3>1
    <3>3. \A j \in 1 .. bs[i].f - 1 : fs2[j].rlim <= Under(bs[i])
      BY <1>1, <1>8, <3>2 DEF BlocksUp
    <3>4. fs[bs[i].f].rlim \in Nat /\ fs2[bs[i].f].rlim \in Nat
          /\ fs2[bs[i].f].rlim >= fs[bs[i].f].rlim
      BY <1>7, <3>1
    <3> QED
      BY SMTT(60), <1>1, <1>2, <1>3, <3>1, <3>3, <3>4 DEF BlocksUp
  <2>5. \A i \in 1 .. Len(bs2) :
          /\ bs2[i].f <= Len(fs2)
          /\ Under(bs2[i]) >= 1
          /\ bs2[i].rlim <= fs2[bs2[i].f].rlim
          /\ \A j \in 1 .. bs2[i].f - 1 : fs2[j].rlim <= Under(bs2[i])
    BY <1>4, <1>5, <2>1, <2>3
  <2>6. \A i \in 1 .. Len(bs2) : \A j \in 1 .. i - 1 :
          bs2[j].f <= bs2[i].f /\ bs2[j].rlim <= Under(bs2[i])
    <3> SUFFICES ASSUME NEW i \in 1 .. Len(bs2), NEW j \in 1 .. i - 1
                 PROVE  bs2[j].f <= bs2[i].f /\ bs2[j].rlim <= Under(bs2[i])
      OBVIOUS
    <3>1. j \in 1 .. Len(bs) /\ bs2[j] = bs[j]
      BY <1>2, <1>4
    <3>2. CASE i \in 1 .. Len(bs)
      BY <1>4, <2>3, <3>1, <3>2
    <3>3. CASE i = Len(bs) + 1
      BY <1>4, <2>2, <3>1, <3>3
    <3> QED
      BY <1>5, <3>2, <3>3
  <2> QED
    BY <2>5, <2>6 DEF BlocksUp
<1>13. BlocksNest(fs2, bs2)
  <2> SUFFICES ASSUME NEW i \in 1 .. Len(bs2)
               PROVE  LET d == bs2[i]
                          a == bs2[i - 1]
                      IN  /\ d.kind = "task" <=> i = 1
                          /\ d.kind = "task" => d.f = 1 /\ d.rlim = 1
                          /\ ~Critical(d) => d.then = "run"
                          /\ d.then = "run" => d.error = NoError
                          /\ i > 1 /\ d.then = "run" =>
                               /\ d.f = IF d.kind = "call" THEN a.f + 1 ELSE a.f
                               /\ Under(d) = a.rlim
                          /\ d.kind = "call" =>
                               /\ fs2[a.f].rlim = a.rlim
                               /\ fs2[d.f].level = IF d.plane THEN fs2[a.f].level + 1
                                                   ELSE fs2[a.f].level
    BY DEF BlocksNest
  <2>1. CASE i = Len(bs) + 1
    <3>1. bs2[i] = b /\ i > 1 /\ bs2[i - 1] = bs[Len(bs)]
      BY <1>2, <1>4, <2>1
    <3>2. bs2[i - 1].f = Len(fs) /\ bs2[i - 1].rlim = fs[Len(fs)].rlim
      BY <3>1 DEF Top
    <3>3. fs2[Len(fs)].level = fs[Len(fs)].level
      BY <1>7, <1>9
    <3>4. b.kind = "call" => fs2[Len(fs)] = fs[Len(fs)]
      BY <1>2, <1>8
    <3> QED
      BY <3>1, <3>2, <3>3, <3>4
  <2>2. CASE i \in 1 .. Len(bs)
    <3>1. bs2[i] = bs[i] /\ (i > 1 => bs2[i - 1] = bs[i - 1] /\ i - 1 \in 1 .. Len(bs))
      BY <1>2, <1>4, <2>2
    <3>2. CASE bs[i].kind # "call"
      BY <1>1, <2>2, <3>1, <3>2 DEF BlocksNest
    <3>3. CASE bs[i].kind = "call"
      <4>1. i > 1 /\ bs[i].then = "run"
        <5>1. i # 1 /\ bs[i].then = "run"
          BY <1>1, <2>2, <3>3 DEF BlocksNest, Critical
        <5> QED
          BY <1>2, <2>2, <5>1
      <4>2. bs[i].f = bs[i - 1].f + 1 /\ bs[i].f \in 1 .. Len(fs) /\ bs[i - 1].f \in 1 .. Len(fs)
        BY <1>1, <1>2, <2>2, <3>1, <3>3, <4>1 DEF BlocksNest, Numbers
      <4>3. bs[i - 1].f \in 1 .. t - 1
        BY SMTT(60), <1>2, <1>3, <4>2
      <4>4. fs2[bs[i - 1].f] = fs[bs[i - 1].f] /\ fs2[bs[i].f].level = fs[bs[i].f].level
        BY <1>7, <1>8, <4>2, <4>3
      <4>5. /\ bs[i].kind = "task" <=> i = 1
            /\ bs[i].error = NoError
            /\ Under(bs[i]) = bs[i - 1].rlim
            /\ fs[bs[i - 1].f].rlim = bs[i - 1].rlim
            /\ fs[bs[i].f].level = IF bs[i].plane THEN fs[bs[i - 1].f].level + 1
                                   ELSE fs[bs[i - 1].f].level
        BY <1>1, <2>2, <3>3, <4>1 DEF BlocksNest
      <4> QED
        BY SMTT(60), <3>1, <3>3, <4>1, <4>2, <4>4, <4>5
    <3> QED
      BY <3>2, <3>3
  <2> QED
    BY <1>5, <2>1, <2>2
<1>14. ContextsUp(cs, bs2)
  <2>1. ASSUME NEW k \in 1 .. Len(cs)
        PROVE  cs[k].block <= Len(bs2)
    <3>1. cs[k].block \in 1 .. Len(bs)
      BY <1>2 DEF Numbers
    <3> QED
      BY <1>2, <1>4, <3>1
  <2>2. ASSUME NEW i \in 1 .. Len(bs2), bs2[i].kind \notin {"call", "rlimits"}
        PROVE  \E k \in 1 .. Len(cs) : cs[k].block = i
    <3>1. i \in 1 .. Len(bs)
      BY <1>4, <1>5, <2>2
    <3> QED
      BY <1>1, <1>4, <2>2, <3>1 DEF ContextsUp
  <2> QED
    BY <1>1, <1>5, <2>1, <2>2 DEF ContextsUp
<1>15. HandlersRight(cs, bs2)
  BY <1>1, <1>5 DEF HandlersRight
<1>16. \A k \in 1 .. Len(cs) : LevelOf(fs2, cs, k) = LevelOf(fs, cs, k)
  BY <1>2, <1>7 DEF LevelOf, Numbers
<1>17. Handled(fs2, cs)
  <2>1. ASSUME NEW j \in 1 .. Len(fs2), cs # <<>>
        PROVE  \E k \in 1 .. Len(cs) :
                 cs[k].f <= j /\ Within(fs2, cs, fs2[j].level, fs2[j].atomic, k)
    <3>1. CASE j \in 1 .. Len(fs)
      <4>1. PICK k \in 1 .. Len(cs) :
              cs[k].f <= j /\ Within(fs, cs, fs[j].level, fs[j].atomic, k)
        BY <1>1, <2>1, <3>1 DEF Handled
      <4> QED
        BY <1>7, <1>16, <3>1, <4>1 DEF Within
    <3>2. CASE j \notin 1 .. Len(fs)
      <4>1. b.kind = "call" /\ j = Len(fs) + 1 /\ j = t
        BY <1>2, <1>3, <3>2
      <4>2. PICK k \in 1 .. Len(cs) :
              cs[k].f <= Len(fs) /\ Within(fs, cs, fs[Len(fs)].level, fs[Len(fs)].atomic, k)
        BY <1>1, <1>9, <2>1 DEF Handled
      <4>3. cs[k].f <= j
        BY <1>2, <4>1, <4>2 DEF Numbers
      <4>4. Within(fs2, cs, top.level, top.atomic, k)
        BY <1>16, <4>1, <4>2 DEF Within
      <4> QED
        BY <4>1, <4>3, <4>4
    <3> QED
      BY <3>1, <3>2
  <2>2. ASSUME NEW d \in 1 .. Len(cs), d > 1
        PROVE  \E k \in 1 .. d - 1 : Within(fs2, cs, LevelOf(fs2, cs, d), cs[d].atomic, k)
    <3>1. PICK k \in 1 .. d - 1 : Within(fs, cs, LevelOf(fs, cs, d), cs[d].atomic, k)
      BY <1>1, <2>2 DEF Handled
    <3>2. k \in 1 .. Len(cs)
      BY <1>2, <3>1
    <3> QED
      BY <1>16, <3>1, <3>2 DEF Within
  <2> QED
    BY <2>1, <2>2 DEF Handled
<1>18. Suspended(fs2, cs, bs2)
  <2>1. \A k \in 1 .. Len(cs) : SameContext(fs, cs, bs, fs2, cs, bs2, k)
    BY <1>5, <1>16 DEF SameContext
  <2>2. Len(cs) <= Len(cs) /\ Len(cs) = Len(cs)
    BY <1>2
  <2> QED
    BY <1>1, <1>2, <1>5, <2>1, <2>2, SuspendedStays
<1> QED
  BY <1>10, <1>11, <1>12, <1>13, <1>14, <1>15, <1>17, <1>18 DEF Stack, bs2

\* What is left of a block, of which a critical call may have returned.
LeftOf(d, b) == d = b \/ (Critical(b) /\ d = [b EXCEPT !.kind = "called"])

\* A critical call whose function has returned is, but for that, the block
\* that it was.
LEMMA LeftOfIs ==
  ASSUME NEW b \in BlockType, NEW d, LeftOf(d, b)
  PROVE  /\ d.f = b.f /\ d.rlim = b.rlim /\ d.atomic = b.atomic /\ d.plane = b.plane
         /\ d.then = b.then /\ d.error = b.error
         /\ d.kind = b.kind \/ (Critical(b) /\ d.kind = "called")
         /\ Critical(d) <=> Critical(b)
         /\ Under(d) = Under(b)
BY DEF LeftOf, BlockType, Critical, Under

\* What is below: m frames, n contexts and p blocks.
Cut(fs, cs, bs, fs2, cs2, bs2, m, n, p) ==
  /\ fs2 \in Seq(FrameType) /\ cs2 \in Seq(ContextType) /\ bs2 \in Seq(BlockType)
  /\ m = Len(fs2) /\ n = Len(cs2) /\ p = Len(bs2)
  /\ m \in 1 .. Len(fs) /\ n \in 0 .. Len(cs) /\ p \in 0 .. Len(bs)
  /\ \A i \in 1 .. m - 1 : fs2[i] = fs[i] /\ fs[i].rlim <= fs2[m].rlim
  /\ fs2[m].level = fs[m].level /\ fs2[m].rlim <= fs[m].rlim
  /\ \A k \in 1 .. n : cs2[k] = cs[k]
  /\ \A i \in 1 .. p : LeftOf(bs2[i], bs[i])
  /\ \A i \in 1 .. p : bs[i].f <= m /\ (bs[i].f = m => bs[i].rlim <= fs2[m].rlim)
  /\ \A k \in 1 .. Len(cs) : k <= n <=> cs[k].block <= p
  /\ \A k \in n + 1 .. Len(cs) : cs[k].f >= m
  /\ n > 0 => \E k \in 1 .. n :
                cs[k].f <= m /\ Within(fs, cs, fs2[m].level, fs2[m].atomic, k)

\* What is left of a stack after everything above frame m, context n and
\* block p has been dropped, by a return or by an exception, is a stack.
LEMMA StackCut ==
  ASSUME NEW fs, NEW cs, NEW bs, Stack(fs, cs, bs),
         NEW fs2, NEW cs2, NEW bs2, NEW m, NEW n, NEW p,
         Cut(fs, cs, bs, fs2, cs2, bs2, m, n, p)
  PROVE  Stack(fs2, cs2, bs2)
<1> USE DEF Cut
<1>1. /\ StackType(fs, cs, bs) /\ FramesUp(fs) /\ BlocksUp(fs, bs) /\ BlocksNest(fs, bs)
      /\ ContextsUp(cs, bs) /\ HandlersRight(cs, bs) /\ Handled(fs, cs)
      /\ Suspended(fs, cs, bs)
  BY DEF Stack
<1>2. /\ Len(fs) \in Nat /\ Len(cs) \in Nat /\ Len(bs) \in Nat
      /\ Numbers(fs, cs, bs)
  BY StackNumbers
<1>3. m \in Nat /\ m >= 1 /\ n \in Nat /\ p \in Nat
  BY <1>2
<1>4. /\ \A i \in 1 .. m : i \in 1 .. Len(fs) /\ (i \in 1 .. m - 1 \/ i = m)
      /\ \A k \in 1 .. n : k \in 1 .. Len(cs)
      /\ \A i \in 1 .. p : i \in 1 .. Len(bs)
  BY <1>2, <1>3
<1>5. ASSUME NEW i \in 1 .. m
      PROVE  /\ fs2[i].level = fs[i].level
             /\ fs[i].rlim \in Nat /\ fs2[i].rlim \in Nat /\ fs2[i].rlim <= fs[i].rlim
  <2>1. fs[i].rlim \in Nat
    BY <1>2, <1>4 DEF Numbers
  <2>2. fs2[i] \in FrameType
    BY <1>3
  <2>3. fs2[i].rlim \in Nat
    BY <2>2 DEF FrameType, Pos
  <2> QED
    BY SMTT(60), <1>4, <2>1, <2>3
<1>6. ASSUME NEW i \in 1 .. p
      PROVE  /\ bs2[i].f = bs[i].f /\ bs2[i].rlim = bs[i].rlim /\ bs2[i].atomic = bs[i].atomic
             /\ bs2[i].plane = bs[i].plane
             /\ bs2[i].then = bs[i].then /\ bs2[i].error = bs[i].error
             /\ bs2[i].kind = bs[i].kind \/ (Critical(bs[i]) /\ bs2[i].kind = "called")
             /\ Critical(bs2[i]) <=> Critical(bs[i])
             /\ Under(bs2[i]) = Under(bs[i])
             /\ bs[i].f \in 1 .. m
  <2>1. bs[i] \in BlockType
    BY <1>1, <1>4 DEF StackType
  <2>2. bs[i].f \in 1 .. m
    BY SMTT(60), <1>2, <1>3, <1>4 DEF Numbers
  <2> QED
    BY SMTT(60), <2>1, <2>2, LeftOfIs
<1>7. ASSUME NEW k \in 1 .. n
      PROVE  cs[k].block \in 1 .. p /\ cs[k].f = bs[cs[k].block].f
  <2>1. k <= n
    BY <1>3
  <2>2. cs[k].block <= p /\ cs[k].block \in 1 .. Len(bs)
    BY <1>2, <1>4, <2>1 DEF Numbers
  <2> QED
    BY <1>1, <1>2, <1>3, <1>4, <2>2 DEF ContextsUp, BlockOf
<1>8. StackType(fs2, cs2, bs2)
  BY <1>3 DEF StackType
<1>9. FramesUp(fs2)
  <2>1. fs2[1].level = 0
    BY <1>1, <1>3, <1>5 DEF FramesUp
  <2>2. ASSUME NEW i \in 1 .. m, NEW j \in 1 .. m, i <= j
        PROVE  fs2[i].level <= fs2[j].level /\ fs2[i].rlim <= fs2[j].rlim
    <3>1. fs2[i].level <= fs2[j].level
      BY <1>1, <1>4, <1>5, <2>2 DEF FramesUp
    <3>2. CASE j # m
      <4>1. i \in 1 .. m - 1 /\ j \in 1 .. m - 1
        BY <1>3, <2>2, <3>2
      <4> QED
        BY <1>1, <1>4, <2>2, <3>1, <4>1 DEF FramesUp
    <3>3. CASE j = m /\ i # m
      BY SMTT(60), <1>3, <3>1, <3>3
    <3>4. CASE j = m /\ i = m
      BY <1>5, <3>1, <3>4
    <3> QED
      BY <3>2, <3>3, <3>4
  <2> QED
    BY <2>1, <2>2 DEF FramesUp
<1>10. BlocksUp(fs2, bs2)
  <2> SUFFICES ASSUME NEW i \in 1 .. p
               PROVE  /\ bs2[i].f <= Len(fs2)
                      /\ Under(bs2[i]) >= 1
                      /\ bs2[i].rlim <= fs2[bs2[i].f].rlim
                      /\ \A j \in 1 .. bs2[i].f - 1 : fs2[j].rlim <= Under(bs2[i])
                      /\ \A j \in 1 .. i - 1 : /\ bs2[j].f <= bs2[i].f
                                               /\ bs2[j].rlim <= Under(bs2[i])
    BY DEF BlocksUp
  <2>1. /\ Under(bs[i]) >= 1 /\ bs[i].rlim <= fs[bs[i].f].rlim
        /\ \A j \in 1 .. bs[i].f - 1 : fs[j].rlim <= Under(bs[i])
        /\ \A j \in 1 .. i - 1 : bs[j].f <= bs[i].f /\ bs[j].rlim <= Under(bs[i])
    BY <1>1, <1>4 DEF BlocksUp
  <2>2. bs[i].rlim <= fs2[bs[i].f].rlim
    <3>1. CASE bs[i].f = m
      BY <3>1
    <3>2. CASE bs[i].f # m
      <4>1. bs[i].f \in 1 .. m - 1
        BY <1>3, <1>6, <3>2
      <4> QED
        BY <2>1, <4>1
    <3> QED
      BY <3>1, <3>2
  <2>3. ASSUME NEW j \in 1 .. bs[i].f - 1 PROVE fs2[j].rlim <= Under(bs[i])
    <3>1. j \in 1 .. m - 1
      BY <1>3, <1>6
    <3> QED
      BY <2>1, <3>1
  <2>4. ASSUME NEW j \in 1 .. i - 1
        PROVE  bs2[j].f <= bs2[i].f /\ bs2[j].rlim <= Under(bs2[i])
    <3>1. j \in 1 .. p
      BY <1>3
    <3> QED
      BY <1>6, <2>1, <3>1
  <2> QED
    BY <1>6, <2>1, <2>2, <2>3, <2>4
<1>11. BlocksNest(fs2, bs2)
  <2> SUFFICES ASSUME NEW i \in 1 .. p
               PROVE  LET d == bs2[i]
                          a == bs2[i - 1]
                      IN  /\ d.kind = "task" <=> i = 1
                          /\ d.kind = "task" => d.f = 1 /\ d.rlim = 1
                          /\ ~Critical(d) => d.then = "run"
                          /\ d.then = "run" => d.error = NoError
                          /\ i > 1 /\ d.then = "run" =>
                               /\ d.f = IF d.kind = "call" THEN a.f + 1 ELSE a.f
                               /\ Under(d) = a.rlim
                          /\ d.kind = "call" =>
                               /\ fs2[a.f].rlim = a.rlim
                               /\ fs2[d.f].level = IF d.plane THEN fs2[a.f].level + 1
                                                   ELSE fs2[a.f].level
    BY DEF BlocksNest
  <2>1. /\ bs[i].kind = "task" <=> i = 1
        /\ bs[i].kind = "task" => bs[i].f = 1 /\ bs[i].rlim = 1
        /\ ~Critical(bs[i]) => bs[i].then = "run"
        /\ bs[i].then = "run" => bs[i].error = NoError
        /\ i > 1 /\ bs[i].then = "run" =>
             /\ bs[i].f = IF bs[i].kind = "call" THEN bs[i - 1].f + 1 ELSE bs[i - 1].f
             /\ Under(bs[i]) = bs[i - 1].rlim
        /\ bs[i].kind = "call" =>
             /\ fs[bs[i - 1].f].rlim = bs[i - 1].rlim
             /\ fs[bs[i].f].level = IF bs[i].plane THEN fs[bs[i - 1].f].level + 1
                                    ELSE fs[bs[i - 1].f].level
    BY <1>1, <1>4 DEF BlocksNest
  <2>2. /\ bs2[i].kind = "task" <=> bs[i].kind = "task"
        /\ bs2[i].kind = "call" <=> bs[i].kind = "call"
    BY <1>6 DEF Critical
  <2>3. i > 1 => /\ i - 1 \in 1 .. p
                 /\ bs2[i - 1].f = bs[i - 1].f /\ bs2[i - 1].rlim = bs[i - 1].rlim
    <3>1. i > 1 => i - 1 \in 1 .. p
      BY <1>3
    <3> QED
      BY <1>6, <3>1
  <2>4. CASE bs[i].kind # "call"
    BY <1>6, <2>1, <2>2, <2>3, <2>4
  <2>5. CASE bs[i].kind = "call"
    <3>1. i # 1 /\ bs[i].then = "run"
      BY <2>1, <2>5 DEF Critical
    <3>2. i > 1
      BY <1>3, <3>1
    <3>3. bs[i].f = bs[i - 1].f + 1 /\ bs[i].f \in 1 .. m /\ bs[i - 1].f \in 1 .. m
      BY <1>6, <2>1, <2>3, <2>5, <3>1, <3>2
    <3>4. bs[i - 1].f \in 1 .. m - 1
      BY SMTT(60), <1>3, <3>3
    <3>5. fs2[bs[i - 1].f] = fs[bs[i - 1].f] /\ fs2[bs[i].f].level = fs[bs[i].f].level
      BY <1>5, <3>3, <3>4
    <3>6. /\ bs2[i].kind = "call" /\ bs2[i].f = bs[i].f /\ bs2[i].plane = bs[i].plane
          /\ bs2[i].then = "run" /\ bs2[i].error = NoError /\ Under(bs2[i]) = Under(bs[i])
      BY <1>6, <2>1, <2>2, <2>5, <3>1
    <3> QED
      BY SMTT(60), <2>1, <2>3, <2>5, <3>1, <3>2, <3>5, <3>6
  <2> QED
    BY <2>4, <2>5
<1>12. \A k \in 1 .. n :
         /\ SameContext(fs, cs, bs, fs2, cs2, bs2, k)
         /\ cs2[k].block = cs[k].block
         /\ BlockOf(cs2, bs2, k).then = BlockOf(cs, bs, k).then
         /\ BlockOf(cs2, bs2, k).error = BlockOf(cs, bs, k).error
         /\ LevelOf(fs2, cs2, k) = LevelOf(fs, cs, k)
         /\ LeftOf(BlockOf(cs2, bs2, k), BlockOf(cs, bs, k))
         /\ BlockOf(cs, bs, k) \in BlockType
         /\ NoHandler(cs2, k) <=> NoHandler(cs, k)
  <2> SUFFICES ASSUME NEW k \in 1 .. n
               PROVE  /\ SameContext(fs, cs, bs, fs2, cs2, bs2, k)
                      /\ cs2[k].block = cs[k].block
                      /\ BlockOf(cs2, bs2, k).then = BlockOf(cs, bs, k).then
                      /\ BlockOf(cs2, bs2, k).error = BlockOf(cs, bs, k).error
                      /\ LevelOf(fs2, cs2, k) = LevelOf(fs, cs, k)
                      /\ LeftOf(BlockOf(cs2, bs2, k), BlockOf(cs, bs, k))
                      /\ BlockOf(cs, bs, k) \in BlockType
                      /\ NoHandler(cs2, k) <=> NoHandler(cs, k)
    OBVIOUS
  <2>1. cs2[k] = cs[k] /\ cs[k].block \in 1 .. p /\ cs[k].f \in 1 .. m
    BY <1>6, <1>7
  <2>2. BlockOf(cs2, bs2, k) = bs2[cs[k].block] /\ BlockOf(cs, bs, k) = bs[cs[k].block]
    BY <2>1 DEF BlockOf
  <2>3. LeftOf(bs2[cs[k].block], bs[cs[k].block]) /\ bs[cs[k].block] \in BlockType
    BY <1>1, <1>4, <2>1 DEF StackType
  <2>4. LevelOf(fs2, cs2, k) = LevelOf(fs, cs, k)
    BY <1>5, <2>1 DEF LevelOf
  <2>5. SameContext(fs, cs, bs, fs2, cs2, bs2, k)
    BY <1>6, <2>1, <2>2, <2>4 DEF SameContext
  <2> QED
    BY SMTT(60), <1>6, <2>1, <2>2, <2>3, <2>4, <2>5 DEF NoHandler
<1>13. ContextsUp(cs2, bs2)
  <2>1. ASSUME NEW k \in 1 .. n
        PROVE  /\ cs2[k].block <= Len(bs2)
               /\ cs2[k].f = BlockOf(cs2, bs2, k).f
               /\ cs2[k].rlim = BlockOf(cs2, bs2, k).rlim
               /\ BlockOf(cs2, bs2, k).kind \notin {"call", "rlimits"}
               /\ BlockOf(cs2, bs2, k).kind = "catch" =>
                    BlockOf(cs2, bs2, k).atomic = cs2[k].atomic
               /\ \A j \in 1 .. k - 1 : /\ cs2[j].block < cs2[k].block
                                        /\ cs2[j].addr # cs2[k].addr
    <3>1. cs2[k].block <= Len(bs2)
      <4>1. cs[k].block \in 1 .. p /\ cs2[k] = cs[k] /\ Len(bs2) = p
        BY <1>7
      <4> HIDE DEF Cut
      <4> QED
        BY <1>3, <4>1
    <3>2. /\ cs[k].f = BlockOf(cs, bs, k).f
          /\ cs[k].rlim = BlockOf(cs, bs, k).rlim
          /\ BlockOf(cs, bs, k).kind \notin {"call", "rlimits"}
          /\ BlockOf(cs, bs, k).kind = "catch" => BlockOf(cs, bs, k).atomic = cs[k].atomic
          /\ \A j \in 1 .. k - 1 : cs[j].block < cs[k].block /\ cs[j].addr # cs[k].addr
      BY <1>1, <1>4 DEF ContextsUp
    <3>3. \A j \in 1 .. k - 1 : j \in 1 .. n
      BY <1>3
    <3>4. LeftOf(BlockOf(cs2, bs2, k), BlockOf(cs, bs, k)) /\ BlockOf(cs, bs, k) \in BlockType
      BY <1>12
    <3>5. /\ BlockOf(cs2, bs2, k).f = BlockOf(cs, bs, k).f
          /\ BlockOf(cs2, bs2, k).rlim = BlockOf(cs, bs, k).rlim
          /\ BlockOf(cs2, bs2, k).atomic = BlockOf(cs, bs, k).atomic
          /\ \/ BlockOf(cs2, bs2, k).kind = BlockOf(cs, bs, k).kind
             \/ BlockOf(cs2, bs2, k).kind = "called"
      BY <3>4, LeftOfIs
    <3>6. cs2[k] = cs[k] /\ \A j \in 1 .. k - 1 : cs2[j] = cs[j]
      BY <3>3
    <3>7. BlockOf(cs2, bs2, k).kind \notin {"call", "rlimits"}
      BY <3>2, <3>5
    <3>8. BlockOf(cs2, bs2, k).kind = "catch" => BlockOf(cs2, bs2, k).atomic = cs2[k].atomic
      BY <3>2, <3>5, <3>6
    <3>9. cs2[k].f = BlockOf(cs2, bs2, k).f /\ cs2[k].rlim = BlockOf(cs2, bs2, k).rlim
      BY <3>2, <3>5, <3>6
    <3>10. \A j \in 1 .. k - 1 : cs2[j].block < cs2[k].block /\ cs2[j].addr # cs2[k].addr
      BY <3>2, <3>6
    <3> QED
      BY <3>1, <3>7, <3>8, <3>9, <3>10
  <2>2. ASSUME NEW i \in 1 .. p, bs2[i].kind \notin {"call", "rlimits"}
        PROVE  \E k \in 1 .. n : cs2[k].block = i
    <3>1. bs[i].kind \notin {"call", "rlimits"}
      BY <1>6, <2>2 DEF Critical
    <3>2. PICK k \in 1 .. Len(cs) : cs[k].block = i
      BY <1>1, <1>4, <3>1 DEF ContextsUp
    <3>3. k \in 1 .. n
      BY <1>2, <1>3, <3>2
    <3> QED
      BY <3>2, <3>3
  <2> QED
    BY <2>1, <2>2 DEF ContextsUp
<1>14. HandlersRight(cs2, bs2)
  <2> SUFFICES ASSUME NEW k \in 1 .. n
               PROVE  cs2[k].handler \in HandlerOf(BlockOf(cs2, bs2, k))
    BY DEF HandlersRight
  <2>1. cs[k].handler \in HandlerOf(BlockOf(cs, bs, k))
    BY <1>1, <1>4 DEF HandlersRight
  <2>2. HandlerOf(BlockOf(cs2, bs2, k)) = HandlerOf(BlockOf(cs, bs, k))
    <3>1. LeftOf(BlockOf(cs2, bs2, k), BlockOf(cs, bs, k)) /\ BlockOf(cs, bs, k) \in BlockType
      BY <1>12
    <3> QED
      BY <3>1, LeftOfIs DEF HandlerOf, Critical
  <2> QED
    BY <2>1, <2>2
<1>15. Handled(fs2, cs2)
  <2>1. ASSUME NEW j \in 1 .. m, cs2 # <<>>
        PROVE  \E k \in 1 .. n :
                 cs2[k].f <= j /\ Within(fs2, cs2, fs2[j].level, fs2[j].atomic, k)
    <3>1. n > 0
      BY <1>3, <2>1
    <3>2. CASE j = m
      <4>1. PICK k \in 1 .. n :
              cs[k].f <= m /\ Within(fs, cs, fs2[m].level, fs2[m].atomic, k)
        BY <3>1
      <4>2. Within(fs2, cs2, fs2[m].level, fs2[m].atomic, k)
        BY <1>12, <4>1, WithinStays
      <4> QED
        BY <3>2, <4>1, <4>2
    <3>3. CASE j # m
      <4>1. j \in 1 .. m - 1 /\ j \in 1 .. Len(fs) /\ fs2[j] = fs[j] /\ cs # <<>>
        BY <1>2, <1>3, <3>1, <3>3
      <4>2. PICK k \in 1 .. Len(cs) :
              cs[k].f <= j /\ Within(fs, cs, fs[j].level, fs[j].atomic, k)
        BY <1>1, <4>1 DEF Handled
      <4>3. k \in 1 .. n
        <5>1. cs[k].f \in Nat /\ ~(cs[k].f >= m)
          BY SMTT(60), <1>2, <1>3, <4>1, <4>2 DEF Numbers
        <5>2. k \notin n + 1 .. Len(cs)
          BY <5>1
        <5> QED
          BY <1>2, <1>3, <5>2
      <4>4. Within(fs2, cs2, fs2[j].level, fs2[j].atomic, k)
        BY <1>12, <4>1, <4>2, <4>3, WithinStays
      <4> QED
        BY <4>2, <4>3, <4>4
    <3> QED
      BY <3>2, <3>3
  <2>2. ASSUME NEW d \in 1 .. n, d > 1
        PROVE  \E k \in 1 .. d - 1 : Within(fs2, cs2, LevelOf(fs2, cs2, d), cs2[d].atomic, k)
    <3>1. PICK k \in 1 .. d - 1 : Within(fs, cs, LevelOf(fs, cs, d), cs[d].atomic, k)
      BY <1>1, <1>4, <2>2 DEF Handled
    <3>2. k \in 1 .. n
      BY <1>3, <3>1
    <3>3. Within(fs2, cs2, LevelOf(fs2, cs2, d), cs2[d].atomic, k)
      BY <1>12, <3>1, <3>2, WithinStays
    <3> QED
      BY <3>3
  <2> QED
    BY <2>1, <2>2 DEF Handled
<1>16. Suspended(fs2, cs2, bs2)
  <2>1. n <= Len(cs)
    BY <1>2
  <2> QED
    BY <1>1, <1>2, <1>3, <1>12, <2>1, SuspendedStays
<1> QED
  BY <1>8, <1>9, <1>10, <1>11, <1>13, <1>14, <1>15, <1>16 DEF Stack

\* error() replaces the handler of the context it has found by a dummy;
\* the contexts above only pass errors on.
LEMMA StackHandle ==
  ASSUME NEW fs, NEW cs, NEW bs, Stack(fs, cs, bs), NEW e \in 1 .. Len(cs),
         cs[e].handler # "none", BlockOf(cs, bs, e).kind # "guard",
         \A k \in e + 1 .. Len(cs) : BlockOf(cs, bs, k).kind = "guard"
  PROVE  Stack(fs, [cs EXCEPT ![e].handler = "dummyHandler"], bs)
<1> DEFINE cs2 == [cs EXCEPT ![e].handler = "dummyHandler"]
<1>1. /\ StackType(fs, cs, bs) /\ FramesUp(fs) /\ BlocksUp(fs, bs) /\ BlocksNest(fs, bs)
      /\ ContextsUp(cs, bs) /\ HandlersRight(cs, bs) /\ Handled(fs, cs)
      /\ Suspended(fs, cs, bs)
  BY DEF Stack
<1>2. Len(cs) \in Nat /\ cs \in Seq(ContextType) /\ Numbers(fs, cs, bs)
  BY <1>1, StackNumbers DEF StackType
<1>3. cs2 \in Seq(ContextType) /\ Len(cs2) = Len(cs)
  <2>1. cs[e] \in ContextType
    BY <1>2
  <2>2. [cs[e] EXCEPT !.handler = "dummyHandler"] \in ContextType
    BY <2>1 DEF ContextType, Handlers
  <2>3. cs2 = [cs EXCEPT ![e] = [cs[e] EXCEPT !.handler = "dummyHandler"]]
    OBVIOUS
  <2> HIDE DEF cs2
  <2> QED
    BY <1>2, <2>2, <2>3
<1>4. ASSUME NEW k \in 1 .. Len(cs)
      PROVE  /\ cs2[k].addr = cs[k].addr /\ cs2[k].f = cs[k].f /\ cs2[k].atomic = cs[k].atomic
             /\ cs2[k].rlim = cs[k].rlim /\ cs2[k].block = cs[k].block
             /\ cs2[k].handler = IF k = e THEN "dummyHandler" ELSE cs[k].handler
             /\ BlockOf(cs2, bs, k) = BlockOf(cs, bs, k)
             /\ LevelOf(fs, cs2, k) = LevelOf(fs, cs, k)
             /\ NoHandler(cs2, k) <=> NoHandler(cs, k)
  <2>1. cs[k] \in ContextType
    BY <1>2
  <2>2. cs2[k] = IF k = e THEN [cs[k] EXCEPT !.handler = "dummyHandler"] ELSE cs[k]
    BY <1>2
  <2>3. /\ cs2[k].addr = cs[k].addr /\ cs2[k].f = cs[k].f /\ cs2[k].atomic = cs[k].atomic
        /\ cs2[k].rlim = cs[k].rlim /\ cs2[k].block = cs[k].block
        /\ cs2[k].handler = IF k = e THEN "dummyHandler" ELSE cs[k].handler
    BY <2>1, <2>2 DEF ContextType
  <2> HIDE DEF cs2
  <2> QED
    BY <2>3 DEF BlockOf, LevelOf, NoHandler
<1> HIDE DEF cs2
<1>5. StackType(fs, cs2, bs)
  BY <1>1, <1>3 DEF StackType
<1>6. ContextsUp(cs2, bs)
  <2>1. ASSUME NEW k \in 1 .. Len(cs)
        PROVE  \A j \in 1 .. k - 1 : cs2[j].block < cs2[k].block /\ cs2[j].addr # cs2[k].addr
    <3>1. \A j \in 1 .. k - 1 : j \in 1 .. Len(cs)
      BY <1>2
    <3> QED
      BY <1>1, <1>4, <3>1 DEF ContextsUp
  <2>2. ASSUME NEW k \in 1 .. Len(cs)
        PROVE  /\ cs2[k].block <= Len(bs)
               /\ cs2[k].f = BlockOf(cs2, bs, k).f
               /\ cs2[k].rlim = BlockOf(cs2, bs, k).rlim
               /\ BlockOf(cs2, bs, k).kind \notin {"call", "rlimits"}
               /\ BlockOf(cs2, bs, k).kind = "catch" =>
                    BlockOf(cs2, bs, k).atomic = cs2[k].atomic
    BY <1>1, <1>4 DEF ContextsUp
  <2>3. ASSUME NEW i \in 1 .. Len(bs), bs[i].kind \notin {"call", "rlimits"}
        PROVE  \E k \in 1 .. Len(cs) : cs2[k].block = i
    BY <1>1, <1>4, <2>3 DEF ContextsUp
  <2> QED
    BY <1>3, <2>1, <2>2, <2>3 DEF ContextsUp
<1>7. HandlersRight(cs2, bs)
  <2> SUFFICES ASSUME NEW k \in 1 .. Len(cs)
               PROVE  cs2[k].handler \in HandlerOf(BlockOf(cs2, bs, k))
    BY <1>3 DEF HandlersRight
  <2>1. cs[k].handler \in HandlerOf(BlockOf(cs, bs, k))
    BY <1>1 DEF HandlersRight
  <2>2. CASE k = e
    <3>1. "dummyHandler" \in HandlerOf(BlockOf(cs, bs, k))
      BY <2>1, <2>2 DEF HandlerOf
    <3> QED
      BY <1>4, <2>2, <3>1
  <2>3. CASE k # e
    BY <1>4, <2>1, <2>3
  <2> QED
    BY <2>2, <2>3
<1>8. Handled(fs, cs2)
  <2>1. ASSUME NEW j \in 1 .. Len(fs), cs2 # <<>>
        PROVE  \E k \in 1 .. Len(cs) :
                 cs2[k].f <= j /\ Within(fs, cs2, fs[j].level, fs[j].atomic, k)
    <3>0. cs # <<>>
      BY <1>2, <1>3, <2>1
    <3>1. PICK k \in 1 .. Len(cs) : cs[k].f <= j /\ Within(fs, cs, fs[j].level, fs[j].atomic, k)
      BY <1>1, <3>0 DEF Handled
    <3> QED
      BY <1>4, <3>1 DEF Within
  <2>2. ASSUME NEW d \in 1 .. Len(cs), d > 1
        PROVE  \E k \in 1 .. d - 1 : Within(fs, cs2, LevelOf(fs, cs2, d), cs2[d].atomic, k)
    <3>1. PICK k \in 1 .. d - 1 : Within(fs, cs, LevelOf(fs, cs, d), cs[d].atomic, k)
      BY <1>1, <2>2 DEF Handled
    <3>2. k \in 1 .. Len(cs)
      BY <1>2, <3>1
    <3> QED
      BY <1>4, <3>1, <3>2 DEF Within
  <2> QED
    BY <1>3, <2>1, <2>2 DEF Handled
<1>9. Suspended(fs, cs2, bs)
  <2> SUFFICES ASSUME NEW k \in 1 .. Len(cs)
               PROVE  LET d == BlockOf(cs2, bs, k)
                      IN  IF d.then = "run" THEN d.kind # "guard" => Fresh(cs2, k - 1)
                          ELSE /\ k > 1
                               /\ cs2[k].block = cs2[k - 1].block + 1
                               /\ Pending(fs, cs2, bs, d.then, d.error, k - 1,
                                          LevelOf(fs, cs2, k))
    BY <1>3 DEF Suspended
  <2>1. CASE k \in e + 1 .. Len(cs)
    <3>1. BlockOf(cs2, bs, k).kind = "guard"
      BY <1>4, <2>1
    <3>2. BlockOf(cs2, bs, k).then = "run"
      <4>1. BlockOf(cs, bs, k).then = "run"
        BY <1>1, <1>2, <1>4, <3>1 DEF BlocksNest, BlockOf, Critical, Numbers
      <4> QED
        BY <1>4, <4>1
    <3> QED
      BY <3>1, <3>2
  <2>2. CASE k \notin e + 1 .. Len(cs)
    <3>1. /\ k - 1 \in Nat /\ (k > 1 => k - 1 \in 1 .. Len(cs))
          /\ \A j \in 1 .. k - 1 : j \in 1 .. Len(cs) /\ j # e
      BY <1>2, <2>2
    <3>2. \A j \in 1 .. k - 1 : SameContext(fs, cs, bs, fs, cs2, bs, j)
      BY <1>4, <3>1 DEF SameContext
    <3>3. CASE BlockOf(cs, bs, k).then = "run"
      <4>1. BlockOf(cs, bs, k).kind # "guard" => Fresh(cs, k - 1)
        BY <1>1, <3>3 DEF Suspended
      <4>2. Fresh(cs, k - 1) => Fresh(cs2, k - 1)
        BY <3>1, <3>2, FreshStays DEF SameContext
      <4> QED
        BY <1>4, <3>3, <4>1, <4>2
    <3>4. CASE BlockOf(cs, bs, k).then # "run"
      <4>1. /\ k > 1 /\ cs[k].block = cs[k - 1].block + 1
            /\ Pending(fs, cs, bs, BlockOf(cs, bs, k).then, BlockOf(cs, bs, k).error, k - 1,
                       LevelOf(fs, cs, k))
        BY <1>1, <3>4 DEF Suspended
      <4>2. BlockOf(cs, bs, k).error \in ErrorType
        BY <1>2 DEF BlockOf, Numbers
      <4>3. Pending(fs, cs2, bs, BlockOf(cs, bs, k).then, BlockOf(cs, bs, k).error, k - 1,
                    LevelOf(fs, cs, k))
        BY <3>1, <3>2, <4>1, <4>2, PendingStays
      <4> QED
        BY <1>4, <3>1, <3>4, <4>1, <4>3
    <3> QED
      BY <3>3, <3>4
  <2> QED
    BY <2>1, <2>2
<1> QED
  BY <1>1, <1>5, <1>6, <1>7, <1>8, <1>9 DEF Stack, cs2

-----------------------------------------------------------------------------
(* Scopes, addresses and frames.                                             *)

\* A sequence of anything is a sequence of its own elements.
LEMMA IsSeqIs ==
  ASSUME NEW S, NEW s \in Seq(S)
  PROVE  IsSeq(s)
<1>1. Len(s) \in Nat /\ s \in [1 .. Len(s) -> S] /\ DOMAIN s = 1 .. Len(s)
  BY LenProperties
<1>2. s \in [1 .. Len(s) -> Range(s)]
  BY <1>1 DEF Range
<1> QED
  BY <1>1, <1>2, SeqDef DEF IsSeq

\* A function on 1 .. n is a sequence of length n.
LEMMA FirstsAre ==
  ASSUME NEW n \in Nat, NEW s, DOMAIN s = 1 .. n, s = [i \in 1 .. n |-> s[i]]
  PROVE  IsSeq(s) /\ Len(s) = n
<1> DEFINE S == {s[i] : i \in 1 .. n}
<1>1. s \in [1 .. n -> S]
  OBVIOUS
<1>2. s \in Seq(S)
  BY <1>1, SeqDef
<1>3. Len(s) \in Nat /\ 1 .. Len(s) = 1 .. n
  BY <1>2, LenProperties
<1> QED
  BY <1>2, <1>3, IsSeqIs

\* setRlimits() leaves exactly the first n scopes.
LEMMA SetRlimitsIs ==
  ASSUME NEW s, NEW n \in Nat
  PROVE  IsSeq(SetRlimits(s, n)) /\ Len(SetRlimits(s, n)) = n
<1> DEFINE t == IF Last(s).ticks < 0
                THEN [s EXCEPT ![Len(s)].ticks = 0, ![Len(s)].due = 0] ELSE s
           back == [t[n] EXCEPT !.ticks = @ + GivenBack(t, n).ticks,
                                !.due = @ + GivenBack(t, n).due]
           f == SetRlimits(s, n)
<1>1. f = [i \in 1 .. n |-> IF i < n THEN t[i]
                            ELSE IF t[n].noticks THEN Unlimited
                            ELSE [back EXCEPT !.level = 0]]
  BY DEF SetRlimits
<1> HIDE DEF t, back, f
<1>2. DOMAIN f = 1 .. n /\ f = [i \in 1 .. n |-> f[i]]
  BY <1>1
<1>3. IsSeq(f) /\ Len(f) = n
  BY <1>2, FirstsAre
<1> QED
  BY <1>3 DEF f

\* A change of one scope does not change how many there are.
LEMMA ExceptIs ==
  ASSUME NEW s, IsSeq(s), NEW n, NEW x
  PROVE  IsSeq([s EXCEPT ![n] = x]) /\ Len([s EXCEPT ![n] = x]) = Len(s)
<1> DEFINE f == [s EXCEPT ![n] = x]
<1>1. Len(s) \in Nat /\ DOMAIN s = 1 .. Len(s)
  BY LenProperties DEF IsSeq
<1>2. DOMAIN f = 1 .. Len(s) /\ f = [i \in 1 .. Len(s) |-> f[i]]
  BY <1>1
<1> HIDE DEF f
<1>3. IsSeq(f) /\ Len(f) = Len(s)
  BY <1>1, <1>2, FirstsAre
<1> QED
  BY <1>3 DEF f

\* newRlimits() adds exactly one scope.
LEMMA NewRlimitsIs ==
  ASSUME NEW s, IsSeq(s), NEW t, NEW l
  PROVE  IsSeq(NewRlimits(s, t, l)) /\ Len(NewRlimits(s, t, l)) = Len(s) + 1
<1>1. ASSUME NEW r, IsSeq(r), NEW y
      PROVE  IsSeq(Append(r, y)) /\ Len(Append(r, y)) = Len(r) + 1
  <2> DEFINE R == Range(r) \cup {y}
  <2>1. Range(r) \subseteq R /\ y \in R
    OBVIOUS
  <2> HIDE DEF R
  <2>2. r \in Seq(R)
    BY <1>1, <2>1, SeqMonotonic DEF IsSeq
  <2>3. Append(r, y) \in Seq(R) /\ Len(Append(r, y)) = Len(r) + 1
    BY <2>1, <2>2
  <2> QED
    BY <2>3, IsSeqIs
<1>2. \E n, x, y : NewRlimits(s, t, l) = Append([s EXCEPT ![n] = x], y)
  <2> DEFINE n == Len(s)
             give == IF t = 0 THEN s[n].ticks ELSE t \div Unit(l)
             new == [noticks |-> FALSE, ticks |-> give, due |-> give * Unit(l), level |-> 0]
             x1 == [s[n] EXCEPT !.level = l]
             x2 == [Spent(s[n], give, l) EXCEPT !.level = l]
  <2>1. \/ NewRlimits(s, t, l) = Append([s EXCEPT ![n] = x1], Unlimited)
        \/ NewRlimits(s, t, l) = Append([s EXCEPT ![n] = x2], new)
    BY DEF NewRlimits
  <2> HIDE DEF n, new, x1, x2
  <2> QED
    BY <2>1
<1>3. PICK n, x, y : NewRlimits(s, t, l) = Append([s EXCEPT ![n] = x], y)
  BY <1>2
<1>4. IsSeq([s EXCEPT ![n] = x]) /\ Len([s EXCEPT ![n] = x]) = Len(s)
  BY ExceptIs
<1> QED
  BY <1>1, <1>3, <1>4

\* The first n elements of a sequence.
LEMMA FirstOf ==
  ASSUME NEW S, NEW s \in Seq(S), NEW n \in 0 .. Len(s)
  PROVE  /\ SubSeq(s, 1, n) \in Seq(S) /\ Len(SubSeq(s, 1, n)) = n
         /\ \A i \in 1 .. n : SubSeq(s, 1, n)[i] = s[i]
<1>1. Len(s) \in Nat /\ n \in Int
  OBVIOUS
<1>2. \A i \in 1 .. n : s[i] \in S
  BY <1>1
<1> QED
  BY <1>1, <1>2, SubSeqProperties

\* A new error context is where no other one is, though it may be where the
\* context was that atomicFrame still points at.
LEMMA FreeIs ==
  ASSUME contexts \in Seq(ContextType), atomicFrame \in Nat, NEW a \in Free
  PROVE  a \in Pos /\ \A k \in 1 .. Len(contexts) : contexts[k].addr # a
<1> DEFINE n == Len(contexts)
           used == {contexts[k].addr : k \in DOMAIN contexts}
           other == CHOOSE b \in 1 .. n + 2 : b \notin used \cup {atomicFrame}
<1>1. n \in Nat /\ DOMAIN contexts = 1 .. n
  OBVIOUS
<1>2. IsFiniteSet(used) /\ Cardinality(used) <= n
  <2>1. IsFiniteSet(1 .. n) /\ Cardinality(1 .. n) = n
    BY SMTT(60), <1>1, FS_Interval
  <2> DEFINE f == [k \in 1 .. n |-> contexts[k].addr]
  <2>2. f \in Surjection(1 .. n, used)
    BY <1>1 DEF Surjection
  <2> QED
    BY <2>1, <2>2, FS_Surjection
<1>3. /\ IsFiniteSet(used \cup {atomicFrame})
      /\ Cardinality(used \cup {atomicFrame}) <= n + 1
      /\ Cardinality(used \cup {atomicFrame}) \in Nat
  <2> HIDE DEF used, n
  <2>1. Cardinality(used) \in Nat
    BY <1>2, FS_CardinalityType
  <2>2. /\ IsFiniteSet(used \cup {atomicFrame})
        /\ Cardinality(used \cup {atomicFrame}) =
             IF atomicFrame \in used THEN Cardinality(used) ELSE Cardinality(used) + 1
    BY <1>2, FS_AddElement
  <2> QED
    BY <1>1, <1>2, <2>1, <2>2
<1>4. \E b \in 1 .. n + 2 : b \notin used \cup {atomicFrame}
  <2> SUFFICES ASSUME 1 .. n + 2 \subseteq used \cup {atomicFrame}
               PROVE  FALSE
    OBVIOUS
  <2>1. Cardinality(1 .. n + 2) = n + 2
    BY <1>1, FS_Interval
  <2>2. Cardinality(1 .. n + 2) <= Cardinality(used \cup {atomicFrame})
    BY <1>3, FS_Subset
  <2> QED
    BY <1>1, <1>3, <2>1, <2>2
<1>5. other \in 1 .. n + 2 /\ other \notin used
  BY <1>4
<1>6. a \notin used /\ (a = other \/ (a = atomicFrame /\ a # 0))
  BY <1>5 DEF Free, Null
<1>7. a \in Pos
  BY <1>1, <1>5, <1>6 DEF Pos
<1> QED
  BY <1>1, <1>6, <1>7

\* Of the frames that have a property there is a last one.
LEMMA LastIs ==
  ASSUME NEW n \in Nat, NEW T \in SUBSET (1 .. n), T # {}
  PROVE  \E i \in T : \A j \in i + 1 .. n : j \notin T
<1> DEFINE D == {n - i : i \in T}
<1>1. D \subseteq Nat /\ D # {}
  <2>1. \A i \in T : n - i \in Nat
    <3>1. \A i \in T : i \in 1 .. n
      OBVIOUS
    <3> QED
      BY <3>1
  <2> QED
    BY <2>1
<1>2. PICK x \in D : \A y \in D : ~(<<y, x>> \in OpToRel(<, Nat))
  BY <1>1, WFMin, NatLessThanWellFounded
<1>3. \A y \in D : ~(y < x)
  BY Zenon, <1>1, <1>2 DEF OpToRel
<1>4. PICK i \in T : x = n - i
  OBVIOUS
<1>5. ASSUME NEW j \in i + 1 .. n, j \in T PROVE FALSE
  <2>1. n - j \in D /\ n - j < x
    BY <1>4, <1>5
  <2> QED
    BY <1>3, <2>1
<1> QED
  BY <1>5

\* Frame::restore() finds a frame at the level of the context: the context
\* has one itself, and the search ends at the last of them.
LEMMA RestoredIs ==
  ASSUME Stack(frames, contexts, blocks), error.e \in 1 .. Len(contexts)
  PROVE  /\ Restored \in 1 .. Len(frames)
         /\ frames[Restored].level = LevelOf(frames, contexts, error.e)
         /\ \A i \in Restored + 1 .. Len(frames) :
              frames[i].level # LevelOf(frames, contexts, error.e)
<1> DEFINE L == LevelOf(frames, contexts, error.e)
           T == {i \in 1 .. Len(frames) : frames[i].level = L}
<1>1. /\ Len(frames) \in Nat /\ DOMAIN frames = 1 .. Len(frames)
      /\ contexts[error.e].f \in 1 .. Len(frames)
  <2>1. frames \in Seq(FrameType)
    BY DEF Stack, StackType
  <2> QED
    BY <2>1, StackNumbers DEF Numbers
<1>2. contexts[error.e].f \in T
  BY <1>1 DEF LevelOf
<1>3. \E i \in T : \A j \in i + 1 .. Len(frames) : j \notin T
  BY ZenonT(60), <1>1, <1>2, LastIs
<1>4. \E i \in DOMAIN frames :
        /\ frames[i].level = L
        /\ \A j \in i + 1 .. Len(frames) : frames[j].level # L
  <2>1. PICK i \in T : \A j \in i + 1 .. Len(frames) : j \notin T
    BY <1>3
  <2>2. \A j \in i + 1 .. Len(frames) : j \in 1 .. Len(frames)
    BY <1>1
  <2> QED
    BY <1>1, <2>1, <2>2
<1> QED
  BY Zenon, <1>1, <1>4 DEF Restored, Level, Looking, LevelOf

-----------------------------------------------------------------------------
(* Contexts.                                                                 *)

\* Later contexts are of later blocks, and of frames that are not lower.
LEMMA ContextsOrdered ==
  ASSUME NEW fs, NEW cs, NEW bs, Stack(fs, cs, bs),
         NEW j \in 1 .. Len(cs), NEW k \in 1 .. Len(cs), j <= k
  PROVE  /\ cs[j].block <= cs[k].block /\ (j # k => cs[j].block < cs[k].block)
         /\ cs[j].f <= cs[k].f
         /\ LevelOf(fs, cs, j) <= LevelOf(fs, cs, k)
<1>1. Len(cs) \in Nat /\ Len(bs) \in Nat /\ Len(fs) \in Nat /\ Numbers(fs, cs, bs)
  BY StackNumbers
<1>2. /\ cs[j].block \in 1 .. Len(bs) /\ cs[k].block \in 1 .. Len(bs)
      /\ cs[j].f \in 1 .. Len(fs) /\ cs[k].f \in 1 .. Len(fs)
  BY <1>1 DEF Numbers
<1>3. cs[j].f = bs[cs[j].block].f /\ cs[k].f = bs[cs[k].block].f
  BY DEF Stack, ContextsUp, BlockOf
<1>4. CASE j = k
  <2>1. fs[cs[k].f].level \in Nat
    BY <1>1, <1>2 DEF Numbers
  <2> QED
    BY <1>2, <1>4, <2>1 DEF LevelOf
<1>5. CASE j # k
  <2>1. j \in 1 .. k - 1
    BY <1>1, <1>5
  <2>2. cs[j].block < cs[k].block
    BY <2>1 DEF Stack, ContextsUp
  <2>3. cs[j].block \in 1 .. cs[k].block - 1
    BY <1>1, <1>2, <2>2
  <2>4. cs[j].f <= cs[k].f
    BY <1>2, <1>3, <2>3 DEF Stack, BlocksUp
  <2>5. LevelOf(fs, cs, j) <= LevelOf(fs, cs, k)
    BY <1>2, <2>4 DEF Stack, FramesUp, LevelOf
  <2> QED
    BY <1>2, <2>2, <2>4, <2>5
<1> QED
  BY <1>4, <1>5

\* The first context is that of the main loop, which always has a handler.
LEMMA FirstContext ==
  ASSUME NEW fs, NEW cs, NEW bs, Stack(fs, cs, bs), cs # <<>>
  PROVE  /\ cs[1].block = 1 /\ BlockOf(cs, bs, 1).kind = "task"
         /\ ~NoHandler(cs, 1)
<1>1. Len(cs) \in Nat /\ Len(bs) \in Nat /\ Numbers(fs, cs, bs)
  BY StackNumbers
<1>2. 1 \in 1 .. Len(cs) /\ 1 \in 1 .. Len(bs)
  <2>1. cs \in Seq(ContextType) /\ bs \in Seq(BlockType) /\ bs # <<>>
    BY NoContexts DEF Stack, StackType
  <2> QED
    BY <1>1, <2>1
<1>3. bs[1].kind = "task"
  BY <1>2 DEF Stack, BlocksNest
<1>4. PICK k \in 1 .. Len(cs) : cs[k].block = 1
  BY <1>2, <1>3 DEF Stack, ContextsUp
<1>5. cs[1].block <= cs[k].block /\ cs[1].block \in 1 .. Len(bs)
  BY <1>1, <1>2, ContextsOrdered DEF Numbers
<1>6. cs[1].block = 1
  BY <1>1, <1>4, <1>5
<1>7. cs[1].handler \in HandlerOf(BlockOf(cs, bs, 1))
  BY <1>2 DEF Stack, HandlersRight
<1>8. BlockOf(cs, bs, 1).kind = "task"
  BY <1>3, <1>6 DEF BlockOf
<1> QED
  BY <1>6, <1>7, <1>8 DEF HandlerOf, NoHandler

\* The last context is that of the last block, if that has one.
LEMMA LastContext ==
  ASSUME NEW fs, NEW cs, NEW bs, Stack(fs, cs, bs), bs # <<>>,
         bs[Len(bs)].kind \notin {"call", "rlimits"}
  PROVE  Len(cs) \in 1 .. Len(cs) /\ cs[Len(cs)].block = Len(bs)
<1>1. Len(cs) \in Nat /\ Len(bs) \in Nat /\ Numbers(fs, cs, bs)
  BY StackNumbers
<1>2. Len(bs) \in 1 .. Len(bs)
  <2>1. bs \in Seq(BlockType)
    BY DEF Stack, StackType
  <2> QED
    BY <2>1
<1>3. PICK k \in 1 .. Len(cs) : cs[k].block = Len(bs)
  BY <1>2 DEF Stack, ContextsUp
<1>4. Len(cs) \in 1 .. Len(cs) /\ k <= Len(cs)
  BY <1>1
<1>5. cs[k].block <= cs[Len(cs)].block
  BY <1>4, ContextsOrdered
<1>6. cs[Len(cs)].block \in 1 .. Len(bs)
  BY <1>1, <1>4 DEF Numbers
<1> QED
  BY <1>1, <1>3, <1>4, <1>5, <1>6

\* Code that is deeper than the last context with a handler is in an atomic
\* function called there: no error has more than one plane to roll back.
LEMMA OneDeeper ==
  ASSUME NEW fs, NEW cs, NEW bs, Stack(fs, cs, bs),
         NEW e \in 1 .. Len(cs), Open(cs, e + 1, Len(cs))
  PROVE  /\ LevelOf(fs, cs, e) <= fs[Len(fs)].level
         /\ fs[Len(fs)].level <= LevelOf(fs, cs, e) + 1
         /\ LevelOf(fs, cs, e) \in Nat /\ fs[Len(fs)].level \in Nat
<1>1. Len(cs) \in Nat /\ Len(fs) \in Nat /\ Len(fs) >= 1 /\ Numbers(fs, cs, bs)
  BY StackNumbers
<1>2. Len(fs) \in 1 .. Len(fs) /\ cs # <<>>
  BY <1>1
<1>3. PICK k \in 1 .. Len(cs) : Within(fs, cs, fs[Len(fs)].level, fs[Len(fs)].atomic, k)
  BY <1>2 DEF Stack, Handled
<1>4. k <= e
  <2>1. ~NoHandler(cs, k)
    BY <1>3 DEF Within
  <2>2. k \notin e + 1 .. Len(cs)
    BY <2>1 DEF Open
  <2> QED
    BY <1>1, <2>2
<1>5. LevelOf(fs, cs, k) <= LevelOf(fs, cs, e)
  BY <1>4, ContextsOrdered
<1>6. /\ LevelOf(fs, cs, k) \in Nat /\ LevelOf(fs, cs, e) \in Nat /\ fs[Len(fs)].level \in Nat
      /\ cs[e].f \in 1 .. Len(fs) /\ cs[e].f <= Len(fs)
  BY <1>1, <1>2 DEF Numbers, LevelOf
<1>7. LevelOf(fs, cs, e) <= fs[Len(fs)].level
  BY <1>2, <1>6 DEF Stack, FramesUp, LevelOf
<1> QED
  BY <1>3, <1>5, <1>6, <1>7 DEF Within

\* ErrorContext::pop(), or an exception: the last context goes on, with its
\* frame, in the scope below that of its block, and with p blocks.
LEMMA StackPop ==
  ASSUME NEW fs, NEW cs, NEW bs, Stack(fs, cs, bs),
         NEW n, n = Len(cs), n \in 1 .. n,
         NEW p \in Nat, p < cs[n].block, n > 1 => cs[n - 1].block <= p,
         NEW top \in FrameType,
         top.level = LevelOf(fs, cs, n), top.rlim = Under(BlockOf(cs, bs, n)),
         n > 1 => top.atomic = cs[n].atomic
  PROVE  Stack([SubSeq(fs, 1, cs[n].f) EXCEPT ![cs[n].f] = top],
               SubSeq(cs, 1, n - 1), SubSeq(bs, 1, p))
<1> DEFINE m == cs[n].f
           b == BlockOf(cs, bs, n)
           fs2 == [SubSeq(fs, 1, m) EXCEPT ![m] = top]
           cs2 == SubSeq(cs, 1, n - 1)
           bs2 == SubSeq(bs, 1, p)
<1>1. /\ Len(fs) \in Nat /\ Len(cs) \in Nat /\ Len(bs) \in Nat /\ Numbers(fs, cs, bs)
      /\ fs \in Seq(FrameType) /\ cs \in Seq(ContextType) /\ bs \in Seq(BlockType)
  BY StackNumbers DEF Stack, StackType
<1>2. /\ m \in 1 .. Len(fs) /\ cs[n].block \in 1 .. Len(bs) /\ p \in 0 .. Len(bs)
      /\ n - 1 \in 0 .. Len(cs) /\ m \in Nat
  BY <1>1 DEF Numbers
<1>3. /\ fs2 \in Seq(FrameType) /\ Len(fs2) = m /\ fs2[m] = top
      /\ \A i \in 1 .. m - 1 : fs2[i] = fs[i]
  <2> DEFINE g == SubSeq(fs, 1, m)
  <2>1. g \in Seq(FrameType) /\ Len(g) = m /\ \A i \in 1 .. m : g[i] = fs[i]
    <3>1. m \in 0 .. Len(fs)
      BY <1>2
    <3> HIDE DEF m
    <3> QED
      BY <1>1, <3>1, FirstOf
  <2>2. m \in 1 .. m /\ \A i \in 1 .. m - 1 : i \in 1 .. m /\ i # m
    BY <1>2
  <2> HIDE DEF m, g
  <2>3. /\ [g EXCEPT ![m] = top] \in Seq(FrameType) /\ Len([g EXCEPT ![m] = top]) = m
        /\ \A i \in 1 .. m : [g EXCEPT ![m] = top][i] = IF i = m THEN top ELSE g[i]
    BY <2>1, <2>2, ExceptSeq
  <2>4. \A i \in 1 .. m - 1 : [g EXCEPT ![m] = top][i] = fs[i]
    BY <2>1, <2>2, <2>3
  <2>5. [g EXCEPT ![m] = top][m] = top
    BY <2>2, <2>3
  <2>6. fs2 = [g EXCEPT ![m] = top]
    BY DEF g
  <2> HIDE DEF fs2
  <2> QED
    BY <2>3, <2>4, <2>5, <2>6
<1>4. /\ cs2 \in Seq(ContextType) /\ Len(cs2) = n - 1
      /\ \A k \in 1 .. n - 1 : cs2[k] = cs[k]
  BY <1>1, <1>2, FirstOf
<1>5. /\ bs2 \in Seq(BlockType) /\ Len(bs2) = p
      /\ \A i \in 1 .. p : LeftOf(bs2[i], bs[i])
  BY SMTT(60), <1>1, <1>2, FirstOf DEF LeftOf
<1>6. b = bs[cs[n].block] /\ b.f = m
  BY DEF Stack, ContextsUp, BlockOf
<1>7. /\ b.rlim <= fs[m].rlim /\ Under(b) <= b.rlim /\ Under(b) \in Nat /\ b.rlim \in Nat
      /\ fs[m].rlim \in Nat
      /\ \A j \in 1 .. m - 1 : fs[j].rlim <= Under(b)
      /\ \A i \in 1 .. p : bs[i].f <= m /\ bs[i].rlim <= Under(b)
  <2>1. \A i \in 1 .. p : i \in 1 .. cs[n].block - 1
    BY <1>1, <1>2
  <2> QED
    BY <1>1, <1>2, <1>6, <2>1 DEF Stack, BlocksUp, Numbers
<1>8. \A k \in 1 .. Len(cs) : k <= n - 1 <=> cs[k].block <= p
  <2> SUFFICES ASSUME NEW k \in 1 .. Len(cs)
               PROVE  k <= n - 1 <=> cs[k].block <= p
    OBVIOUS
  <2>1. cs[k].block \in Nat
    <3>1. cs[k].block \in 1 .. Len(bs)
      BY <1>1 DEF Numbers
    <3> QED
      BY <1>1, <3>1
  <2>2. CASE k = n
    <3>1. ~(cs[k].block <= p)
      BY <2>1, <2>2
    <3>2. ~(k <= n - 1)
      BY <1>1, <2>2
    <3> QED
      BY <3>1, <3>2
  <2>3. CASE k # n
    <3>1. k <= n - 1 /\ n - 1 \in 1 .. Len(cs) /\ n > 1
      BY <1>1, <2>3
    <3>2. cs[k].block <= cs[n - 1].block
      BY <3>1, ContextsOrdered
    <3>3. cs[n - 1].block <= p /\ cs[n - 1].block \in Nat
      BY <1>1, <3>1 DEF Numbers
    <3> QED
      BY <2>1, <3>1, <3>2, <3>3
  <2> QED
    BY <2>2, <2>3
<1>9. \A k \in (n - 1) + 1 .. Len(cs) : cs[k].f >= m
  <2>1. \A k \in (n - 1) + 1 .. Len(cs) : k = n
    BY <1>1
  <2> QED
    BY <1>2, <2>1
<1>10. n - 1 > 0 => \E k \in 1 .. n - 1 :
                     cs[k].f <= m /\ Within(fs, cs, top.level, top.atomic, k)
  <2> SUFFICES ASSUME n > 1
               PROVE  \E k \in 1 .. n - 1 :
                        cs[k].f <= m /\ Within(fs, cs, top.level, top.atomic, k)
    BY <1>1
  <2>1. PICK k \in 1 .. n - 1 : Within(fs, cs, LevelOf(fs, cs, n), cs[n].atomic, k)
    BY DEF Stack, Handled
  <2>2. k \in 1 .. Len(cs) /\ n \in 1 .. Len(cs) /\ k <= n
    BY <1>1
  <2>3. cs[k].f <= m
    BY <2>2, ContextsOrdered
  <2> QED
    BY <2>1, <2>3
<1>11. top.level = fs[m].level /\ top.rlim <= fs[m].rlim
  BY <1>7 DEF LevelOf
<1>12. /\ fs2[m].level = fs[m].level /\ fs2[m].rlim <= fs[m].rlim
       /\ \A i \in 1 .. m - 1 : fs2[i] = fs[i] /\ fs[i].rlim <= fs2[m].rlim
       /\ \A i \in 1 .. p : bs[i].f <= m /\ (bs[i].f = m => bs[i].rlim <= fs2[m].rlim)
       /\ n - 1 > 0 => \E k \in 1 .. n - 1 :
                         cs[k].f <= m /\ Within(fs, cs, fs2[m].level, fs2[m].atomic, k)
  <2> HIDE DEF m, b, fs2
  <2> QED
    BY <1>3, <1>7, <1>10, <1>11 DEF b
<1> DEFINE q == n - 1
<1>13. /\ m = Len(fs2) /\ q = Len(cs2) /\ p = Len(bs2)
       /\ m \in 1 .. Len(fs) /\ q \in 0 .. Len(cs) /\ p \in 0 .. Len(bs)
       /\ \A k \in 1 .. q : cs2[k] = cs[k]
       /\ \A k \in 1 .. Len(cs) : k <= q <=> cs[k].block <= p
       /\ \A k \in q + 1 .. Len(cs) : cs[k].f >= m
       /\ q > 0 => \E k \in 1 .. q :
                     cs[k].f <= m /\ Within(fs, cs, fs2[m].level, fs2[m].atomic, k)
  <2> HIDE DEF m, fs2, bs2, cs2
  <2> QED
    BY <1>2, <1>3, <1>4, <1>5, <1>8, <1>9, <1>12
<1>14. /\ fs2 \in Seq(FrameType) /\ cs2 \in Seq(ContextType) /\ bs2 \in Seq(BlockType)
       /\ \A i \in 1 .. p : LeftOf(bs2[i], bs[i])
  <2> HIDE DEF fs2, bs2, cs2
  <2> QED
    BY <1>3, <1>4, <1>5
<1>15. Stack(fs2, cs2, bs2)
  <2> HIDE DEF m, fs2, bs2, cs2, b, q
  <2>1. Cut(fs, cs, bs, fs2, cs2, bs2, m, q, p)
    BY <1>12, <1>13, <1>14 DEF Cut
  <2> QED
    BY <2>1, StackCut
<1> QED
  BY <1>15

-----------------------------------------------------------------------------
(* What the parts of the invariant say of the state.                         *)

\* What the invariant says of the state, with the types of all its parts.
LEMMA IInvParts ==
  ASSUME IInv
  PROVE  /\ Stack(frames, contexts, blocks) /\ Numbers(frames, contexts, blocks)
         /\ frames \in Seq(FrameType) /\ Len(frames) \in Nat
         /\ Len(frames) \in 1 .. Len(frames)
         /\ contexts \in Seq(ContextType) /\ Len(contexts) \in Nat
         /\ blocks \in Seq(BlockType) /\ Len(blocks) \in Nat
         /\ cframe = frames[Len(frames)] /\ eFrame = contexts[Len(contexts)]
         /\ cframe \in FrameType /\ cframe.level \in Nat /\ cframe.level \in 0 .. MaxLevel
         /\ cframe.atomic \in BOOLEAN
         /\ cframe.rlim = Len(scopes) /\ Len(scopes) \in Nat /\ Len(scopes) >= 1
         /\ IsSeq(scopes)
         /\ planes = cframe.level
<1>1. Stack(frames, contexts, blocks) /\ IsSeq(scopes)
  BY DEF IInv
<1>2. /\ Numbers(frames, contexts, blocks)
      /\ Len(frames) \in Nat /\ Len(frames) >= 1
      /\ Len(contexts) \in Nat /\ Len(blocks) \in Nat
  BY <1>1, StackNumbers
<1>3. /\ frames \in Seq(FrameType) /\ contexts \in Seq(ContextType)
      /\ blocks \in Seq(BlockType)
  BY <1>1 DEF Stack, StackType
<1>4. Len(frames) \in 1 .. Len(frames)
  BY <1>2
<1>5. cframe = frames[Len(frames)] /\ eFrame = contexts[Len(contexts)]
  BY DEF cframe, eFrame, Last
<1>6. cframe \in FrameType
  BY <1>3, <1>4, <1>5
<1>7. /\ cframe.level \in Nat /\ cframe.level \in 0 .. MaxLevel /\ cframe.atomic \in BOOLEAN
      /\ cframe.rlim \in Nat /\ cframe.rlim >= 1
  BY <1>6 DEF FrameType, Pos
<1>8. cframe.rlim = Len(scopes) /\ planes = cframe.level
  BY <1>5 DEF IInv
<1> QED
  BY <1>1, <1>2, <1>3, <1>4, <1>5, <1>6, <1>7, <1>8

\* A new context has a handler that has not been run; one without handler
\* waits for the contexts below.
LEMMA FreshPushed ==
  ASSUME NEW cs, NEW cs2, NEW n \in Nat,
         \A k \in 1 .. n : cs2[k].handler = cs[k].handler,
         cs2[n + 1].handler # "dummyHandler",
         cs2[n + 1].handler = "none" => Fresh(cs, n)
  PROVE  Fresh(cs2, n + 1)
<1>1. CASE cs2[n + 1].handler = "none"
  <2>1. Fresh(cs2, n)
    BY <1>1, FreshStays
  <2> QED
    BY <2>1, FreshAbove
<1>2. CASE cs2[n + 1].handler # "none"
  <2>1. \A k \in 1 .. n : n + 1 \in k + 1 .. n + 1
    OBVIOUS
  <2>2. \A k \in 1 .. n : ~Open(cs2, k + 1, n + 1)
    BY <1>2, <2>1 DEF Open, NoHandler
  <2>3. \A k \in 1 .. n + 1 : k \in 1 .. n \/ k = n + 1
    OBVIOUS
  <2> QED
    BY <2>2, <2>3 DEF Fresh
<1> QED
  BY <1>1, <1>2

\* Block b may be entered, with handler h, above contexts cs, in frame top.
MayEnter(cs, h, b, top) ==
  /\ Stack(frames, cs, blocks) /\ Len(cs) = Len(contexts)
  /\ \A k \in 1 .. Len(cs) : cs[k].addr = contexts[k].addr
  /\ h \in Handlers /\ h # "dummyHandler"
  /\ b \in BlockType /\ top \in FrameType
  /\ b.kind \notin {"call", "rlimits"}
  /\ b.f = Len(frames) /\ Under(b) = cframe.rlim
  /\ top.rlim = b.rlim /\ top.level = cframe.level
  /\ top.atomic = cframe.atomic \/ h # "none"
  /\ b.kind = "task" <=> blocks = <<>>
  /\ b.kind = "task" => Len(frames) = 1 /\ b.rlim = 1
  /\ b.kind = "catch" => b.atomic = cframe.atomic
  /\ ~Critical(b) => b.then = "run"
  /\ b.then = "run" => b.error = NoError
  /\ h \in HandlerOf(b)
  /\ b.then = "run" => mode = "run" /\ cs = contexts
  /\ b.then # "run" =>
       /\ contexts # <<>> /\ cs[Len(cs)].block = Len(blocks)
       /\ Pending(frames, cs, blocks, b.then, b.error, Len(cs), cframe.level)

\* It is entered.
Entered(cs, a, h, b, top) ==
  /\ frames' = [frames EXCEPT ![Len(frames)] = top]
  /\ contexts' = Append(cs, Context(a, h, b.rlim))
  /\ blocks' = Append(blocks, b)
  /\ IsSeq(scopes') /\ Len(scopes') = b.rlim
  /\ mode' = "run" /\ error' = NoError /\ atomicFrame' = Null /\ planes' = planes

\* Entering a block with an error context keeps the invariant.
LEMMA Pushed ==
  ASSUME IInv, NEW a \in Free, NEW cs, NEW h, NEW b, NEW top,
         MayEnter(cs, h, b, top), Entered(cs, a, h, b, top)
  PROVE  IInv'
<1> USE DEF MayEnter, Entered
<1> DEFINE c == [addr |-> a, f |-> Len(frames), atomic |-> cframe.atomic,
                 rlim |-> b.rlim, handler |-> h, block |-> Len(blocks) + 1]
           n == Len(contexts)
<1>1. /\ frames \in Seq(FrameType) /\ Len(frames) \in Nat /\ Len(frames) \in 1 .. Len(frames)
      /\ n \in Nat /\ Len(blocks) \in Nat /\ contexts \in Seq(ContextType)
      /\ blocks \in Seq(BlockType) /\ cframe = frames[Len(frames)]
      /\ cframe.atomic \in BOOLEAN /\ planes = cframe.level
  BY IInvParts
<1>2. cs \in Seq(ContextType) /\ Len(cs) = n
  BY DEF Stack, StackType
<1>3. a \in Pos /\ \A k \in 1 .. n : contexts[k].addr # a
  BY <1>1, FreeIs DEF IInv
<1>4. b.rlim \in Pos
  BY DEF BlockType
<1>5. c \in ContextType
  <2>1. Len(frames) \in Pos /\ Len(blocks) + 1 \in Pos
    BY <1>1 DEF Pos
  <2> QED
    BY <1>1, <1>3, <1>4, <2>1 DEF ContextType
<1>6. /\ c.f = Len(frames) /\ c.rlim = b.rlim /\ c.block = Len(blocks) + 1
      /\ c.atomic = cframe.atomic /\ c.handler = h /\ c.addr = a
  OBVIOUS
<1> HIDE DEF c
<1>7. contexts' = Append(cs, c)
  BY DEF c, Context
<1>8. b.then = "run" => Top(frames, blocks) /\ Fresh(cs, Len(cs))
  BY <1>2 DEF IInv, ModeRight
<1>9. b.then # "run" => /\ cs # <<>> /\ cs[Len(cs)].block = Len(blocks)
                        /\ Pending(frames, cs, blocks, b.then, b.error, Len(cs), top.level)
  <2>1. contexts # <<>> => cs # <<>>
    BY <1>1, <1>2
  <2> QED
    BY <2>1
<1>10. Stack(frames', contexts', blocks')
  <2>1. \A k \in 1 .. Len(cs) : cs[k].addr # c.addr
    BY <1>2, <1>3, <1>6
  <2>2. /\ Under(b) = frames[Len(frames)].rlim
        /\ top.level = frames[Len(frames)].level /\ c.atomic = frames[Len(frames)].atomic
        /\ top.atomic = c.atomic \/ c.handler # "none"
        /\ b.kind = "catch" => b.atomic = c.atomic
        /\ c.handler \in HandlerOf(b)
    BY <1>1, <1>6
  <2>3. Stack([frames EXCEPT ![Len(frames)] = top], Append(cs, c), Append(blocks, b))
    BY <1>5, <1>6, <1>8, <1>9, <2>1, <2>2, StackPush
  <2> QED
    BY <1>7, <2>3
<1>11. /\ Len(frames') = Len(frames) /\ frames'[Len(frames')] = top
       /\ Len(blocks') = Len(blocks) + 1 /\ blocks'[Len(blocks')] = b /\ blocks' # <<>>
       /\ Len(contexts') = n + 1 /\ contexts'[n + 1] = c
       /\ \A k \in 1 .. n : contexts'[k] = cs[k]
  <2>1. Len(frames') = Len(frames) /\ frames'[Len(frames')] = top
    BY <1>1
  <2>2. Len(blocks') = Len(blocks) + 1 /\ blocks'[Len(blocks')] = b /\ blocks' # <<>>
    <3>1. /\ Append(blocks, b) \in Seq(BlockType) /\ Len(Append(blocks, b)) = Len(blocks) + 1
          /\ Append(blocks, b)[Len(blocks) + 1] = b
      BY <1>1
    <3>2. Append(blocks, b) # <<>>
      <4>1. Len(blocks) \in Nat
        BY <1>1
      <4>2. Len(<<>>) = 0
        BY EmptySeq
      <4> QED
        BY <3>1, <4>1, <4>2
    <3> QED
      BY <1>1, <3>1, <3>2
  <2>3. /\ Len(contexts') = n + 1 /\ contexts'[n + 1] = c
        /\ \A k \in 1 .. n : contexts'[k] = cs[k]
    BY <1>2, <1>5, <1>7
  <2> QED
    BY <2>1, <2>2, <2>3
<1>12. Fresh(contexts', n + 1)
  <2>1. h = "none" => b.then = "run"
    BY DEF HandlerOf, Critical
  <2>2. \A k \in 1 .. n : Append(cs, c)[k].handler = cs[k].handler
    BY <1>7, <1>11
  <2>3. Append(cs, c)[n + 1].handler = h
    BY <1>6, <1>7, <1>11
  <2>4. h = "none" => Fresh(cs, n)
    BY <1>2, <1>8, <2>1
  <2>5. Fresh(Append(cs, c), n + 1)
    BY <1>1, <2>2, <2>3, <2>4, FreshPushed
  <2> QED
    BY <1>7, <2>5
<1>13. Top(frames', blocks')
  BY <1>11 DEF Top
<1>14. ModeRight'
  BY <1>11, <1>12, <1>13 DEF ModeRight
<1>15. mode' \in Modes /\ atomicFrame' \in Nat /\ error' \in ErrorType /\ error'.e <= Len(contexts')
  BY <1>1, <1>11 DEF Modes, Null, NoError, ErrorType
<1>16. frames'[Len(frames')].rlim = Len(scopes') /\ planes' = frames'[Len(frames')].level
  BY <1>1, <1>11
<1> QED
  BY <1>10, <1>14, <1>15, <1>16 DEF IInv

\* What is below the last context is as before.
PopTo(fs, cs, bs, n, p, top, fs2, cs2, bs2) ==
  /\ n = Len(cs) /\ n \in 1 .. n
  /\ p \in Nat /\ p < cs[n].block /\ (n > 1 => cs[n - 1].block <= p)
  /\ top \in FrameType /\ top.level = LevelOf(fs, cs, n)
  /\ fs2 = [SubSeq(fs, 1, cs[n].f) EXCEPT ![cs[n].f] = top]
  /\ cs2 = SubSeq(cs, 1, n - 1) /\ bs2 = SubSeq(bs, 1, p)

\* Leaving blocks changes no context, block or frame below.
LEMMA PopSame ==
  ASSUME NEW fs, NEW cs, NEW bs, Stack(fs, cs, bs),
         NEW n, NEW p, NEW top, NEW fs2, NEW cs2, NEW bs2,
         PopTo(fs, cs, bs, n, p, top, fs2, cs2, bs2)
  PROVE  /\ Len(fs2) = cs[n].f /\ fs2[Len(fs2)] = top
         /\ Len(cs2) = n - 1
         /\ \A k \in 1 .. n - 1 : cs2[k] = cs[k] /\ SameContext(fs, cs, bs, fs2, cs2, bs2, k)
         /\ Len(bs2) = p /\ \A i \in 1 .. p : bs2[i] = bs[i]
<1> USE DEF PopTo
<1> DEFINE m == cs[n].f
<1>1. /\ Len(fs) \in Nat /\ Len(cs) \in Nat /\ Len(bs) \in Nat /\ Numbers(fs, cs, bs)
      /\ fs \in Seq(FrameType) /\ cs \in Seq(ContextType) /\ bs \in Seq(BlockType)
  BY StackNumbers DEF Stack, StackType
<1>2. /\ m \in 0 .. Len(fs) /\ m \in 1 .. m /\ p \in 0 .. Len(bs) /\ n - 1 \in 0 .. Len(cs)
      /\ cs[n].block \in 1 .. Len(bs)
  BY SMTT(60), <1>1 DEF Numbers
<1>3. /\ Len(fs2) = m /\ fs2[m] = top
      /\ \A i \in 1 .. m : i # m => fs2[i] = fs[i]
  <2> DEFINE g == SubSeq(fs, 1, m)
  <2>1. g \in Seq(FrameType) /\ Len(g) = m /\ \A i \in 1 .. m : g[i] = fs[i]
    <3> HIDE DEF m
    <3> QED
      BY <1>1, <1>2, FirstOf
  <2>2. fs2 = [g EXCEPT ![m] = top]
    OBVIOUS
  <2> HIDE DEF m, g
  <2>3. /\ Len([g EXCEPT ![m] = top]) = m
        /\ \A i \in 1 .. m : [g EXCEPT ![m] = top][i] = IF i = m THEN top ELSE g[i]
    BY <1>2, <2>1, ExceptSeq
  <2> QED
    BY <1>2, <2>1, <2>2, <2>3
<1>4. Len(cs2) = n - 1 /\ \A k \in 1 .. n - 1 : cs2[k] = cs[k]
  BY <1>1, <1>2, FirstOf
<1>5. Len(bs2) = p /\ \A i \in 1 .. p : bs2[i] = bs[i]
  BY <1>1, <1>2, FirstOf
<1>6. ASSUME NEW k \in 1 .. n - 1
      PROVE  SameContext(fs, cs, bs, fs2, cs2, bs2, k)
  <2>1. /\ k \in 1 .. Len(cs) /\ n \in 1 .. Len(cs) /\ k <= n
        /\ n - 1 \in 1 .. Len(cs) /\ k <= n - 1 /\ n > 1
    BY <1>1
  <2>2. cs[k].block \in 1 .. p
    <3>1. cs[k].block <= cs[n - 1].block
      BY <2>1, ContextsOrdered
    <3>2. cs[k].block \in 1 .. Len(bs) /\ cs[n - 1].block \in 1 .. Len(bs)
      BY <1>1, <2>1 DEF Numbers
    <3> QED
      BY SMTT(60), <1>1, <2>1, <3>1, <3>2
  <2>3. cs[k].f \in 1 .. m
    <3>1. cs[k].f <= m
      BY <2>1, ContextsOrdered
    <3>2. cs[k].f \in 1 .. Len(fs)
      BY <1>1, <2>1 DEF Numbers
    <3> QED
      BY <1>2, <3>1, <3>2
  <2>4. fs2[cs[k].f].level = fs[cs[k].f].level
    <3>1. top.level = fs[m].level
      BY DEF LevelOf
    <3> QED
      BY <1>3, <2>3, <3>1
  <2> QED
    BY <1>4, <1>5, <2>2, <2>4 DEF SameContext, LevelOf, BlockOf
<1> QED
  BY <1>3, <1>4, <1>5, <1>6

\* What follows a block whose context goes on: code in the block below, or
\* the error that a handler was called for.
LEMMA AfterBlock ==
  ASSUME NEW fs, NEW cs, NEW bs, Stack(fs, cs, bs), NEW n, n = Len(cs), n \in 1 .. n,
         cs[n].block = Len(bs)
  PROVE  LET b == bs[Len(bs)]
         IN  /\ b \in BlockType /\ b = BlockOf(cs, bs, n)
             /\ b.kind \notin {"call", "rlimits"}
             /\ b.then = "run" => b.error = NoError
             /\ b.then = "run" /\ b.kind # "guard" => Fresh(cs, n - 1)
             /\ b.then = "run" /\ Len(bs) = 1 => cs[n].f = 1 /\ Under(b) = 1
             /\ b.then = "run" /\ Len(bs) > 1 =>
                  /\ cs[n].f = bs[Len(bs) - 1].f
                  /\ Under(b) = bs[Len(bs) - 1].rlim
             /\ b.then # "run" =>
                  /\ n > 1 /\ cs[n - 1].block = Len(bs) - 1
                  /\ Pending(fs, cs, bs, b.then, b.error, n - 1, LevelOf(fs, cs, n))
<1> DEFINE b == bs[Len(bs)]
<1>1. /\ Len(fs) \in Nat /\ Len(cs) \in Nat /\ Len(bs) \in Nat /\ Numbers(fs, cs, bs)
      /\ bs \in Seq(BlockType)
  BY StackNumbers DEF Stack, StackType
<1>2. Len(bs) \in 1 .. Len(bs) /\ n \in 1 .. Len(cs)
  BY <1>1 DEF Numbers
<1>3. b \in BlockType /\ b = BlockOf(cs, bs, n)
  BY <1>1, <1>2 DEF BlockOf
<1>4. b.kind \notin {"call", "rlimits"} /\ cs[n].f = b.f
  BY <1>2, <1>3 DEF Stack, ContextsUp
<1>5. /\ b.kind = "task" <=> Len(bs) = 1
      /\ b.kind = "task" => b.f = 1 /\ b.rlim = 1
      /\ b.then = "run" => b.error = NoError
      /\ Len(bs) > 1 /\ b.then = "run" =>
           /\ b.f = IF b.kind = "call" THEN bs[Len(bs) - 1].f + 1 ELSE bs[Len(bs) - 1].f
           /\ Under(b) = bs[Len(bs) - 1].rlim
  BY <1>2 DEF Stack, BlocksNest
<1>6. IF b.then = "run" THEN b.kind # "guard" => Fresh(cs, n - 1)
      ELSE /\ n > 1
           /\ cs[n].block = cs[n - 1].block + 1
           /\ Pending(fs, cs, bs, b.then, b.error, n - 1, LevelOf(fs, cs, n))
  BY <1>2, <1>3 DEF Stack, Suspended
<1>7. n > 1 /\ cs[n].block = cs[n - 1].block + 1 => cs[n - 1].block = Len(bs) - 1
  <2>1. n > 1 => cs[n - 1].block \in 1 .. Len(bs)
    <3>1. n > 1 => n - 1 \in 1 .. Len(cs)
      BY <1>1
    <3> QED
      BY <1>1, <3>1 DEF Numbers
  <2> QED
    BY <1>1, <2>1
<1>8. b.kind = "task" => Under(b) = b.rlim
  BY DEF Under, Critical
<1> HIDE DEF b
<1>9. b.then = "run" /\ Len(bs) = 1 => cs[n].f = 1 /\ Under(b) = 1
  BY <1>4, <1>5, <1>8
<1>10. b.then = "run" /\ Len(bs) > 1 => /\ cs[n].f = bs[Len(bs) - 1].f
                                        /\ Under(b) = bs[Len(bs) - 1].rlim
  BY <1>4, <1>5
<1>11. /\ b \in BlockType /\ b = BlockOf(cs, bs, n)
       /\ b.kind \notin {"call", "rlimits"}
       /\ b.then = "run" => b.error = NoError
       /\ b.then = "run" /\ b.kind # "guard" => Fresh(cs, n - 1)
       /\ b.then # "run" =>
            /\ n > 1 /\ cs[n - 1].block = Len(bs) - 1
            /\ Pending(fs, cs, bs, b.then, b.error, n - 1, LevelOf(fs, cs, n))
  BY <1>3, <1>4, <1>5, <1>6, <1>7
<1> QED
  BY <1>9, <1>10, <1>11 DEF b

\* The last block b, with context number n, is left, for frame top.
MayLeave(n, b, top) ==
  /\ n = Len(contexts) /\ n \in 1 .. n /\ contexts[n].block = Len(blocks)
  /\ b = blocks[Len(blocks)]
  /\ LevelOf(frames, contexts, n) = cframe.level
  /\ top \in FrameType /\ top.level = cframe.level /\ top.rlim = Under(b)
  /\ n > 1 => top.atomic = contexts[n].atomic
  /\ b.kind = "guard" => Fresh(contexts, n - 1)

Left(n, b, top) ==
  /\ frames' = [SubSeq(frames, 1, contexts[n].f) EXCEPT ![contexts[n].f] = top]
  /\ contexts' = SubSeq(contexts, 1, n - 1)
  /\ blocks' = SubSeq(blocks, 1, Len(blocks) - 1)
  /\ IsSeq(scopes') /\ Len(scopes') = Under(b)
  /\ mode' = b.then /\ error' = b.error /\ atomicFrame' = Null /\ planes' = planes

\* Leaving a block with an error context keeps the invariant.
LEMMA Popped ==
  ASSUME IInv, NEW n, NEW b, NEW top, MayLeave(n, b, top), Left(n, b, top)
  PROVE  IInv'
<1> USE DEF MayLeave, Left
<1> DEFINE p == Len(blocks) - 1
           m == contexts[n].f
           fs2 == [SubSeq(frames, 1, m) EXCEPT ![m] = top]
           cs2 == SubSeq(contexts, 1, n - 1)
           bs2 == SubSeq(blocks, 1, p)
<1>1. /\ Stack(frames, contexts, blocks) /\ Numbers(frames, contexts, blocks)
      /\ Len(contexts) \in Nat /\ Len(blocks) \in Nat
      /\ cframe.level \in Nat /\ planes = cframe.level
  BY IInvParts
<1>2. p \in Nat /\ p < contexts[n].block /\ (n > 1 => contexts[n - 1].block <= p)
  <2>1. n \in 1 .. Len(contexts) /\ contexts[n].block \in 1 .. Len(blocks)
    BY <1>1 DEF Numbers
  <2>2. ASSUME n > 1 PROVE contexts[n - 1].block <= p
    <3>1. n - 1 \in 1 .. Len(contexts) /\ n - 1 <= n /\ n - 1 # n
      BY <1>1, <2>2
    <3>2. contexts[n - 1].block < contexts[n].block
      BY <1>1, <2>1, <3>1, ContextsOrdered
    <3>3. contexts[n - 1].block \in 1 .. Len(blocks)
      BY <1>1, <3>1 DEF Numbers
    <3> QED
      BY <1>1, <3>2, <3>3
  <2> QED
    BY <1>1, <2>1, <2>2
<1>3. /\ b \in BlockType /\ b = BlockOf(contexts, blocks, n)
      /\ b.kind \notin {"call", "rlimits"}
      /\ b.then = "run" => b.error = NoError
      /\ b.then = "run" /\ b.kind # "guard" => Fresh(contexts, n - 1)
      /\ b.then = "run" /\ Len(blocks) = 1 => m = 1 /\ Under(b) = 1
      /\ b.then = "run" /\ Len(blocks) > 1 =>
           m = blocks[p].f /\ Under(b) = blocks[p].rlim
      /\ b.then # "run" =>
           /\ n > 1 /\ contexts[n - 1].block = p
           /\ Pending(frames, contexts, blocks, b.then, b.error, n - 1, cframe.level)
  BY <1>1, AfterBlock
<1>4. Stack(fs2, cs2, bs2)
  BY <1>1, <1>2, <1>3, StackPop
<1>5. /\ Len(fs2) = m /\ fs2[Len(fs2)] = top
      /\ Len(cs2) = n - 1
      /\ \A k \in 1 .. n - 1 :
           cs2[k] = contexts[k] /\ SameContext(frames, contexts, blocks, fs2, cs2, bs2, k)
      /\ Len(bs2) = p /\ \A i \in 1 .. p : bs2[i] = blocks[i]
  <2>1. /\ fs2 = [SubSeq(frames, 1, contexts[n].f) EXCEPT ![contexts[n].f] = top]
        /\ cs2 = SubSeq(contexts, 1, n - 1) /\ bs2 = SubSeq(blocks, 1, p)
        /\ m = contexts[n].f
    OBVIOUS
  <2> HIDE DEF fs2, cs2, bs2, m, p
  <2>2. PopTo(frames, contexts, blocks, n, p, top, fs2, cs2, bs2)
    BY <1>2, <2>1 DEF PopTo
  <2>3. Stack(frames, contexts, blocks)
    BY <1>1
  <2>4. /\ Len(fs2) = contexts[n].f /\ fs2[Len(fs2)] = top
        /\ Len(cs2) = n - 1
        /\ \A k \in 1 .. n - 1 :
             cs2[k] = contexts[k] /\ SameContext(frames, contexts, blocks, fs2, cs2, bs2, k)
        /\ Len(bs2) = p /\ \A i \in 1 .. p : bs2[i] = blocks[i]
    BY SMTT(60), <2>2, <2>3, PopSame
  <2> QED
    BY <2>1, <2>4
<1>6. n - 1 \in Nat
  BY <1>1
<1>7. b.then = "run" => Fresh(cs2, n - 1) /\ Top(fs2, bs2)
  <2> HIDE DEF fs2, cs2, bs2, m, p
  <2> SUFFICES ASSUME b.then = "run" PROVE Fresh(cs2, n - 1) /\ Top(fs2, bs2)
    OBVIOUS
  <2>1. Fresh(contexts, n - 1)
    BY <1>3
  <2>2. \A k \in 1 .. n - 1 : cs2[k].handler = contexts[k].handler
    BY <1>5
  <2>3. Fresh(cs2, n - 1)
    BY <1>6, <2>1, <2>2, FreshStays
  <2>4. CASE p = 0
    <3>1. Len(blocks) = 1 /\ bs2 = <<>>
      <4>1. bs2 \in Seq(BlockType)
        BY <1>4 DEF Stack, StackType
      <4>2. Len(blocks) = 1
        BY <1>1, <2>4 DEF p
      <4> QED
        BY <1>5, <2>4, <4>1, <4>2, EmptySeq
    <3>2. Len(fs2) = 1 /\ fs2[1].rlim = 1
      BY <1>3, <1>5, <3>1
    <3> QED
      BY <2>3, <3>1, <3>2 DEF Top
  <2>5. CASE p # 0
    <3>1. Len(blocks) > 1 /\ p \in 1 .. p
      <4>1. Len(blocks) = p + 1
        BY <1>1 DEF p
      <4> QED
        BY <1>2, <2>5, <4>1
    <3>2. bs2[p] = blocks[p] /\ bs2 # <<>> /\ Len(bs2) = p
      BY <1>5, <3>1, EmptySeq
    <3>3. bs2[p].f = Len(fs2) /\ bs2[p].rlim = fs2[Len(fs2)].rlim
      BY <1>3, <1>5, <3>1, <3>2
    <3> QED
      BY <2>3, <3>2, <3>3 DEF Top
  <2> QED
    BY <2>4, <2>5
<1>8. b.then # "run" =>
        /\ cs2 # <<>> /\ cs2[n - 1].block = p
        /\ Pending(fs2, cs2, bs2, b.then, b.error, n - 1, cframe.level)
        /\ b.error.e \in 1 .. n - 1
  <2> HIDE DEF fs2, cs2, bs2, m, p
  <2> SUFFICES ASSUME b.then # "run"
               PROVE  /\ cs2 # <<>> /\ cs2[n - 1].block = p
                      /\ Pending(fs2, cs2, bs2, b.then, b.error, n - 1, cframe.level)
                      /\ b.error.e \in 1 .. n - 1
    OBVIOUS
  <2>1. /\ n > 1 /\ contexts[n - 1].block = p
        /\ Pending(frames, contexts, blocks, b.then, b.error, n - 1, cframe.level)
    BY <1>3
  <2>2. n - 1 \in 1 .. n - 1
    BY <1>6, <2>1
  <2>3. cs2 # <<>> /\ cs2[n - 1].block = p
    BY <1>5, <2>1, <2>2, EmptySeq
  <2>4. b.error \in ErrorType
    BY <1>3 DEF BlockType
  <2>5. Pending(fs2, cs2, bs2, b.then, b.error, n - 1, cframe.level)
    BY <1>5, <1>6, <2>1, <2>4, PendingStays
  <2> QED
    BY <2>1, <2>3, <2>5 DEF Pending
<1>9. b.then \in {"run", "rollback", "throw"} /\ b.error \in ErrorType
  BY <1>3 DEF BlockType
<1>10. frames' = fs2 /\ contexts' = cs2 /\ blocks' = bs2
  OBVIOUS
<1> HIDE DEF fs2, cs2, bs2, m, p
<1>11. ModeRight'
  <2>1. CASE b.then = "run"
    BY ZenonT(60), <1>3, <1>5, <1>7, <1>10, <2>1 DEF ModeRight
  <2>2. CASE b.then # "run"
    BY ZenonT(60), <1>5, <1>8, <1>10, <2>2 DEF ModeRight
  <2> QED
    BY <2>1, <2>2
<1>12. error'.e <= Len(contexts')
  <2>1. CASE b.then = "run"
    BY <1>3, <1>5, <1>6, <1>10, <2>1 DEF NoError
  <2>2. CASE b.then # "run"
    <3>1. b.error.e \in 1 .. n - 1 /\ Len(contexts') = n - 1
      BY <1>5, <1>8, <1>10, <2>2
    <3> QED
      BY <1>6, <3>1
  <2> QED
    BY <2>1, <2>2
<1>13. Stack(frames', contexts', blocks')
  BY <1>4, <1>10
<1>14. frames'[Len(frames')] = top
  BY <1>5, <1>10
<1>15. frames'[Len(frames')].rlim = Len(scopes') /\ planes' = frames'[Len(frames')].level
  BY <1>1, <1>14
<1>16. mode' \in Modes /\ atomicFrame' \in Nat /\ error' \in ErrorType
  BY <1>9 DEF Modes, Null
<1> QED
  BY <1>11, <1>12, <1>13, <1>15, <1>16 DEF IInv

-----------------------------------------------------------------------------
(* The steps, one by one.                                                    *)

\* Code that runs is in the last block, and there is no error.
LEMMA RunParts ==
  ASSUME IInv, mode = "run"
  PROVE  /\ atomicFrame = Null /\ error = NoError
         /\ Fresh(contexts, Len(contexts))
         /\ blocks = <<>> => Len(frames) = 1 /\ cframe.rlim = 1
         /\ blocks # <<>> => /\ contexts # <<>>
                             /\ Len(blocks) \in 1 .. Len(blocks)
                             /\ blocks[Len(blocks)].f = Len(frames)
                             /\ blocks[Len(blocks)].rlim = cframe.rlim
                             /\ Last(blocks) = blocks[Len(blocks)]
<1>1. /\ Stack(frames, contexts, blocks) /\ blocks \in Seq(BlockType) /\ Len(blocks) \in Nat
      /\ cframe = frames[Len(frames)]
  BY IInvParts
<1>2. /\ atomicFrame = Null /\ error = NoError /\ Fresh(contexts, Len(contexts))
      /\ Top(frames, blocks)
  BY DEF IInv, ModeRight
<1>3. blocks = <<>> => Len(frames) = 1 /\ cframe.rlim = 1
  BY <1>1, <1>2 DEF Top
<1>4. blocks # <<>> => /\ blocks[Len(blocks)].f = Len(frames)
                       /\ blocks[Len(blocks)].rlim = cframe.rlim
  BY <1>1, <1>2 DEF Top
<1>5. blocks # <<>> => contexts # <<>> /\ Len(blocks) \in 1 .. Len(blocks)
  BY <1>1, NoContexts
<1> QED
  BY <1>2, <1>3, <1>4, <1>5 DEF Last

\* While there is an error, the last block has an error context: the others
\* were dropped when the error occurred.
LEMMA OtherParts ==
  ASSUME IInv, mode # "run"
  PROVE  /\ contexts # <<>> /\ Len(contexts) \in 1 .. Len(contexts)
         /\ contexts[Len(contexts)].block = Len(blocks)
         /\ blocks # <<>> /\ Len(blocks) \in 1 .. Len(blocks)
         /\ atomicFrame = Null =>
              Pending(frames, contexts, blocks, mode, error, Len(contexts), cframe.level)
         /\ atomicFrame # Null => Deferred
<1>1. /\ Stack(frames, contexts, blocks) /\ contexts \in Seq(ContextType)
      /\ Len(contexts) \in Nat /\ cframe = frames[Len(frames)]
      /\ blocks \in Seq(BlockType) /\ Len(blocks) \in Nat
  BY IInvParts
<1>2. /\ contexts # <<>> /\ contexts[Len(contexts)].block = Len(blocks)
      /\ atomicFrame = Null =>
           Pending(frames, contexts, blocks, mode, error, Len(contexts), cframe.level)
      /\ atomicFrame # Null => Deferred
  BY <1>1 DEF IInv, ModeRight
<1>3. blocks # <<>>
  BY <1>1, <1>2, NoContexts
<1> QED
  BY <1>1, <1>2, <1>3

\* A new block runs with the last frame, in the last scope or in a new one.
LEMMA BlockIs ==
  ASSUME IInv, NEW k \in Kinds
  PROVE  /\ Block(k) \in BlockType
         /\ Block(k).kind = k /\ Block(k).f = Len(frames) /\ Block(k).rlim = cframe.rlim
         /\ Block(k).then = "run" /\ Block(k).error = NoError
         /\ ScopeBlock(k) \in BlockType
         /\ ScopeBlock(k).kind = k /\ ScopeBlock(k).f = Len(frames)
         /\ ScopeBlock(k).rlim = Len(scopes) + 1
         /\ ScopeBlock(k).then = "run" /\ ScopeBlock(k).error = NoError
<1>1. /\ Len(frames) \in Pos /\ cframe.rlim \in Pos /\ Len(scopes) + 1 \in Pos
  <2>1. /\ Len(frames) \in Nat /\ Len(frames) \in 1 .. Len(frames)
        /\ cframe.rlim = Len(scopes) /\ Len(scopes) \in Nat /\ Len(scopes) >= 1
    BY IInvParts
  <2> QED
    BY <2>1 DEF Pos
<1>2. NoError \in ErrorType
  BY DEF NoError, ErrorType
<1> QED
  BY <1>1, <1>2 DEF Block, ScopeBlock, BlockType

\* A frame that is replaced by itself is not changed.
LEMMA SameFrame ==
  ASSUME IInv
  PROVE  frames = [frames EXCEPT ![Len(frames)] = cframe]
<1>1. /\ frames \in Seq(FrameType) /\ Len(frames) \in Nat /\ Len(frames) \in 1 .. Len(frames)
      /\ cframe = frames[Len(frames)]
  BY IInvParts
<1> QED
  BY <1>1

\* A block without a scope of its own may be entered by code that runs.
LEMMA RunEnters ==
  ASSUME IInv, mode = "run",
         NEW k \in {"task", "catch", "guard"},
         k = "task" <=> blocks = <<>>,
         NEW h, h = IF k = "guard" THEN "none" ELSE "runtimeError",
         NEW b \in BlockType, b.kind = k, b.f = Len(frames), b.rlim = cframe.rlim,
         b.then = "run", b.error = NoError, k = "catch" => b.atomic = cframe.atomic,
         NEW top, top = IF k = "catch" THEN [cframe EXCEPT !.atomic = FALSE] ELSE cframe
  PROVE  MayEnter(contexts, h, b, top)
<1>1. /\ Stack(frames, contexts, blocks) /\ cframe \in FrameType /\ cframe.atomic \in BOOLEAN
  BY IInvParts
<1>4. Under(b) = cframe.rlim /\ ~Critical(b)
  BY DEF Under, Critical
<1>5. /\ top \in FrameType /\ top.rlim = cframe.rlim /\ top.level = cframe.level
      /\ top.atomic = cframe.atomic \/ h # "none"
  BY <1>1 DEF FrameType
<1>6. h \in HandlerOf(b) /\ h \in Handlers /\ h # "dummyHandler"
  BY <1>4 DEF HandlerOf, Handlers
<1>7. k = "task" => Len(frames) = 1 /\ cframe.rlim = 1
  BY RunParts
<1> QED
  BY <1>1, <1>4, <1>5, <1>6, <1>7 DEF MayEnter

\* The main loop begins a task: the invariant is kept.
LEMMA StartTaskRight ==
  ASSUME IInv, StartTask
  PROVE  IInv'
<1>1. mode = "run"
  BY OtherParts DEF StartTask
<1>2. PICK a \in Free : contexts' = Append(contexts, Context(a, "runtimeError", cframe.rlim))
  BY DEF StartTask, Push
<1>3. MayEnter(contexts, "runtimeError", Block("task"), cframe)
  <2>1. blocks = <<>>
    BY DEF StartTask
  <2> QED
    BY <1>1, <2>1, BlockIs, RunEnters DEF Kinds
<1>4. Entered(contexts, a, "runtimeError", Block("task"), cframe)
  <2>1. /\ Block("task").rlim = cframe.rlim /\ IsSeq(scopes) /\ cframe.rlim = Len(scopes)
    BY BlockIs, IInvParts DEF Kinds
  <2> QED
    BY <1>1, <1>2, <2>1, SameFrame, RunParts DEF StartTask, Enter, Entered
<1> QED
  BY <1>3, <1>4, Pushed

\* push() without a handler, by C++ code that cleans up after errors, keeps
\* the invariant.
LEMMA GuardRight ==
  ASSUME IInv, Guard
  PROVE  IInv'
<1>1. mode = "run" /\ blocks # <<>>
  BY DEF Guard, InFunction, Running
<1>2. PICK a \in Free : contexts' = Append(contexts, Context(a, "none", cframe.rlim))
  BY DEF Guard, Push
<1>3. MayEnter(contexts, "none", Block("guard"), cframe)
  BY <1>1, BlockIs, RunEnters DEF Kinds
<1>4. Entered(contexts, a, "none", Block("guard"), cframe)
  <2>1. /\ Block("guard").rlim = cframe.rlim /\ IsSeq(scopes) /\ cframe.rlim = Len(scopes)
    BY BlockIs, IInvParts DEF Kinds
  <2> QED
    BY <1>1, <1>2, <2>1, SameFrame, RunParts DEF Guard, Enter, Entered
<1> QED
  BY <1>3, <1>4, Pushed

\* I_CATCH keeps the invariant: what runs in it is not atomic until the
\* catch ends, and has a handler.
LEMMA CatchRight ==
  ASSUME IInv, Catch
  PROVE  IInv'
<1> DEFINE b == [Block("catch") EXCEPT !.atomic = cframe.atomic]
           top == [cframe EXCEPT !.atomic = FALSE]
<1>1. mode = "run" /\ blocks # <<>>
  BY DEF Catch, InFunction, Running
<1>2. PICK a \in Free : contexts' = Append(contexts, Context(a, "runtimeError", cframe.rlim))
  BY DEF Catch, Push
<1>3. MayEnter(contexts, "runtimeError", b, top)
  <2>1. /\ b \in BlockType /\ b.kind = "catch" /\ b.f = Len(frames) /\ b.rlim = cframe.rlim
        /\ b.then = "run" /\ b.error = NoError /\ b.atomic = cframe.atomic
    BY ZenonT(120), BlockIs, IInvParts DEF Kinds, BlockType
  <2> HIDE DEF b
  <2> QED
    BY <1>1, <2>1, RunEnters
<1>4. Entered(contexts, a, "runtimeError", b, top)
  <2>1. /\ b.rlim = cframe.rlim /\ IsSeq(scopes) /\ cframe.rlim = Len(scopes)
    BY BlockIs, IInvParts DEF Kinds, BlockType
  <2>2. frames' = [frames EXCEPT ![Len(frames)] = top]
    BY IInvParts DEF Catch
  <2> HIDE DEF b, top
  <2>3. blocks' = Append(blocks, b)
    BY DEF Catch, Enter, b
  <2> QED
    BY <1>1, <1>2, <2>1, <2>2, <2>3, RunParts DEF Catch, Entered
<1> QED
  BY <1>3, <1>4, Pushed

\* callCritical() of a function in the driver object, with a scope and a
\* context of its own, keeps the invariant.
LEMMA CriticalRight ==
  ASSUME IInv, NEW cs, Stack(frames, cs, blocks), Len(cs) = Len(contexts),
         \A k \in 1 .. Len(cs) : cs[k].addr = contexts[k].addr,
         NEW b \in BlockType, b.kind = "critical", b.f = Len(frames), b.rlim = Len(scopes) + 1,
         NEW h, h = IF b.then = "run" THEN "none" ELSE "emptyhandler",
         IF b.then = "run" THEN mode = "run" /\ cs = contexts /\ b.error = NoError
         ELSE Pending(frames, cs, blocks, b.then, b.error, Len(cs), cframe.level),
         blocks # <<>>, b.then # "run" => cs[Len(cs)].block = Len(blocks),
         EnterCritical(h, b, cs), atomicFrame = Null,
         UNCHANGED <<atomicFrame, planes>>
  PROVE  IInv'
<1> DEFINE top == [cframe EXCEPT !.rlim = Len(scopes) + 1]
<1>1. /\ cframe \in FrameType /\ cframe.atomic \in BOOLEAN /\ cframe.level \in 0 .. MaxLevel
      /\ cframe.rlim = Len(scopes) /\ Len(scopes) \in Nat /\ IsSeq(scopes)
      /\ Len(frames) \in 1 .. Len(frames) /\ cframe = frames[Len(frames)]
      /\ Stack(frames, contexts, blocks)
  BY IInvParts
<1>2. PICK a \in Free : contexts' = Append(cs, Context(a, h, Len(scopes) + 1))
  BY DEF EnterCritical
<1>3. /\ top \in FrameType /\ top.rlim = Len(scopes) + 1 /\ top.level = cframe.level
      /\ top.atomic = cframe.atomic
  BY SMTT(60), <1>1 DEF FrameType, Pos
<1>4. frames' = [frames EXCEPT ![Len(frames)] = top]
  BY <1>1 DEF EnterCritical
<1> HIDE DEF top
<1>5. Critical(b) /\ Under(b) = cframe.rlim
  BY <1>1 DEF Critical, Under
<1>6. h \in HandlerOf(b) /\ h \in Handlers /\ h # "dummyHandler"
  BY <1>5 DEF HandlerOf, Handlers
<1>7. contexts # <<>>
  BY <1>1, NoContexts
<1>8. MayEnter(cs, h, b, top)
  BY <1>3, <1>5, <1>6, <1>7 DEF MayEnter
<1>9. IsSeq(scopes') /\ Len(scopes') = Len(scopes) + 1
  BY <1>1, NewRlimitsIs DEF EnterCritical
<1>10. Entered(cs, a, h, b, top)
  BY <1>2, <1>4, <1>9 DEF Entered, EnterCritical, Enter
<1> QED
  BY <1>8, <1>10, Pushed

\* A call of remove_program() in the driver object keeps the invariant.
LEMMA RemoveProgramRight ==
  ASSUME IInv, RemoveProgram
  PROVE  IInv'
<1>1. mode = "run" /\ blocks # <<>>
  BY DEF RemoveProgram, InFunction, Running
<1>2. /\ ScopeBlock("critical") \in BlockType /\ ScopeBlock("critical").kind = "critical"
      /\ ScopeBlock("critical").f = Len(frames)
      /\ ScopeBlock("critical").rlim = Len(scopes) + 1
      /\ ScopeBlock("critical").then = "run" /\ ScopeBlock("critical").error = NoError
  BY BlockIs DEF Kinds
<1>3. Stack(frames, contexts, blocks) /\ atomicFrame = Null
  BY <1>1, IInvParts, RunParts
<1>4. /\ EnterCritical("none", ScopeBlock("critical"), contexts)
      /\ UNCHANGED <<atomicFrame, planes>>
  BY DEF RemoveProgram
<1> QED
  BY <1>1, <1>2, <1>3, <1>4, CriticalRight

\* What error() looks at: a context that exists, above which there are only
\* contexts that pass errors on.
LEMMA LookParts ==
  ASSUME IInv, mode # "run", atomicFrame = Null
  PROVE  /\ error \in ErrorType /\ error.e \in 1 .. Len(contexts)
         /\ error.level \in Nat /\ error.undone \in Int /\ error.told \in {0, 1}
         /\ Looking = contexts[error.e] /\ Looking \in ContextType
         /\ Deeper <=> LevelOf(frames, contexts, error.e) # cframe.level
         /\ LevelOf(frames, contexts, error.e) \in Nat
         /\ BlockOf(contexts, blocks, error.e).kind = "guard" <=> Looking.handler = "none"
         /\ \A k \in error.e + 1 .. Len(contexts) : BlockOf(contexts, blocks, k).kind = "guard"
         /\ mode = "look" \/ mode = "rollback" \/ mode = "handle" \/ mode = "throw"
<1>1. /\ Stack(frames, contexts, blocks) /\ Numbers(frames, contexts, blocks)
      /\ Len(contexts) \in Nat
  BY IInvParts
<1>2. Pending(frames, contexts, blocks, mode, error, Len(contexts), cframe.level)
  BY OtherParts
<1>3. error \in ErrorType /\ mode \in Modes
  BY DEF IInv
<1>4. error.level \in Nat /\ error.undone \in Int /\ error.told \in {0, 1}
  BY <1>3 DEF ErrorType
<1>5. error.e \in 1 .. Len(contexts) /\ Open(contexts, error.e + 1, Len(contexts))
  BY <1>2 DEF Pending
<1>6. Looking = contexts[error.e] /\ Looking \in ContextType
  BY <1>1, <1>5 DEF Looking, Stack, StackType
<1>7. LevelOf(frames, contexts, error.e) \in Nat
  BY <1>1, <1>5 DEF Numbers, LevelOf
<1>8. Deeper <=> LevelOf(frames, contexts, error.e) # cframe.level
  BY <1>6 DEF Deeper, Level, LevelOf
<1>9. ASSUME NEW k \in error.e + 1 .. Len(contexts)
      PROVE  BlockOf(contexts, blocks, k).kind = "guard"
  <2>1. Open(contexts, k, Len(contexts)) /\ k \in 1 .. Len(contexts)
    BY <1>1, <1>5 DEF Open
  <2> QED
    BY <1>2, <2>1 DEF Pending
<1>10. BlockOf(contexts, blocks, error.e).kind = "guard" <=> Looking.handler = "none"
  <2>1. CASE Looking.handler = "none"
    <3>1. Open(contexts, error.e, Len(contexts))
      <4>1. \A j \in error.e .. Len(contexts) : j = error.e \/ j \in error.e + 1 .. Len(contexts)
        BY <1>1, <1>5
      <4> QED
        BY <1>5, <1>6, <2>1, <4>1 DEF Open, NoHandler
    <3> QED
      BY <1>2, <1>5, <2>1, <3>1 DEF Pending
  <2>2. CASE Looking.handler # "none"
    <3>1. Looking.handler \in HandlerOf(BlockOf(contexts, blocks, error.e))
      BY <1>1, <1>5, <1>6 DEF Stack, HandlersRight
    <3> QED
      BY <2>2, <3>1 DEF HandlerOf, Critical
  <2> QED
    BY <2>1, <2>2
<1> QED
  BY <1>3, <1>4, <1>5, <1>6, <1>7, <1>8, <1>9, <1>10 DEF Modes

\* atomic_error() in the driver object is called, before anything is rolled
\* back, and the invariant is kept: the error waits for it to return.
LEMMA AtomicErrorRight ==
  ASSUME IInv, AtomicError
  PROVE  IInv'
<1> DEFINE b == [ScopeBlock("critical") EXCEPT !.then = "rollback",
                                               !.error = [error EXCEPT !.undone = @ + 1]]
<1>1. mode = "look" /\ Deeper /\ atomicFrame = Null
  BY DEF AtomicError
<1>2. /\ Stack(frames, contexts, blocks) /\ Len(contexts) \in Nat
      /\ cframe.level \in Nat
  BY IInvParts
<1>3. /\ Pending(frames, contexts, blocks, "look", error, Len(contexts), cframe.level)
      /\ contexts[Len(contexts)].block = Len(blocks) /\ blocks # <<>>
  BY <1>1, OtherParts
<1>4. /\ error \in ErrorType /\ error.undone \in Int /\ error.level \in Nat
      /\ LevelOf(frames, contexts, error.e) # cframe.level
  BY <1>1, LookParts
<1> DEFINE er == [error EXCEPT !.undone = @ + 1]
<1>5. /\ er \in ErrorType /\ er.e = error.e /\ er.level = error.level /\ er.told = error.told
      /\ er.undone = error.undone + 1
  BY <1>4 DEF ErrorType
<1>6. /\ b \in BlockType /\ b.kind = "critical" /\ b.f = Len(frames)
      /\ b.rlim = Len(scopes) + 1 /\ b.then = "rollback" /\ b.error = er
  <2>1. /\ ScopeBlock("critical") \in BlockType /\ ScopeBlock("critical").kind = "critical"
        /\ ScopeBlock("critical").f = Len(frames)
        /\ ScopeBlock("critical").rlim = Len(scopes) + 1
    BY BlockIs DEF Kinds
  <2> HIDE DEF er
  <2>2. b = [ScopeBlock("critical") EXCEPT !.then = "rollback", !.error = er]
    BY DEF er
  <2> HIDE DEF b
  <2> QED
    BY <1>5, <2>1, <2>2 DEF BlockType
<1>7. /\ EnterCritical("emptyhandler", b, contexts)
      /\ UNCHANGED <<atomicFrame, planes>>
  BY DEF AtomicError
<1> HIDE DEF b, er
<1>8. Pending(frames, contexts, blocks, "rollback", er, Len(contexts), cframe.level)
  BY <1>2, <1>3, <1>4, <1>5 DEF Pending
<1> QED
  BY <1>1, <1>2, <1>3, <1>6, <1>7, <1>8, CriticalRight

\* Where the rollback of an error is deferred to: the context at
\* atomicFrame, from which only contexts are left that pass errors on.
LEMMA DeferredParts ==
  ASSUME IInv, mode # "run", atomicFrame # Null
  PROVE  \E d \in 1 .. Len(contexts) :
           /\ contexts[d].addr = atomicFrame
           /\ Pending(frames, contexts, blocks, "rollback", [error EXCEPT !.e = d],
                      Len(contexts), cframe.level)
           /\ Open(contexts, d + 1, Len(contexts))
           /\ LevelOf(frames, contexts, d) # cframe.level
           /\ \A k \in d + 1 .. Len(contexts) :
                /\ LevelOf(frames, contexts, k) = cframe.level
                /\ BlockOf(contexts, blocks, k).kind = "guard"
           /\ \/ d = Len(contexts) /\ mode = "look" /\ error.e = d /\ Deeper
              \/ d # Len(contexts) /\ mode = "throw"
<1>1. /\ Stack(frames, contexts, blocks) /\ Len(contexts) \in Nat
      /\ cframe = frames[Len(frames)] /\ error \in ErrorType
  BY IInvParts DEF IInv
<1>2. PICK d \in 1 .. Len(contexts) :
        /\ contexts[d].addr = atomicFrame
        /\ Pending(frames, contexts, blocks, "rollback", [error EXCEPT !.e = d],
                   Len(contexts), cframe.level)
        /\ IF d = Len(contexts) THEN mode = "look" /\ error.e = d ELSE mode = "throw"
  BY <1>1, OtherParts DEF Deferred
<1> DEFINE er == [error EXCEPT !.e = d]
<1>3. er.e = d
  BY <1>1 DEF ErrorType
<1> HIDE DEF er
<1>4. Pending(frames, contexts, blocks, "rollback", er, Len(contexts), cframe.level)
  BY <1>2 DEF er
<1>5. /\ Open(contexts, d + 1, Len(contexts))
      /\ LevelOf(frames, contexts, d) # cframe.level
      /\ \A k \in d + 1 .. Len(contexts) : LevelOf(frames, contexts, k) = cframe.level
  BY <1>3, <1>4 DEF Pending
<1>6. ASSUME NEW k \in d + 1 .. Len(contexts)
      PROVE  BlockOf(contexts, blocks, k).kind = "guard"
  <2>1. Open(contexts, k, Len(contexts)) /\ k \in 1 .. Len(contexts)
    BY <1>1, <1>2, <1>5 DEF Open
  <2> QED
    BY <1>4, <2>1 DEF Pending
<1>7. error.e = d => Deeper
  BY <1>5 DEF Deeper, Level, Looking, LevelOf
<1> QED
  BY <1>2, <1>5, <1>6, <1>7

\* Nothing is deferred any more where the level of the code is that of the
\* context.
LEMMA NothingDeferred ==
  ASSUME IInv, mode # "run", mode # "throw", mode = "look" => ~Deeper
  PROVE  atomicFrame = Null
BY DeferredParts

\* Where the handler of an error is called, the level is that of the code.
LEMMA HandlingParts ==
  ASSUME IInv, Handling
  PROVE  /\ atomicFrame = Null /\ mode # "run"
         /\ \A m \in {"look", "handle"} :
              Pending(frames, contexts, blocks, m, error, Len(contexts), cframe.level)
         /\ LevelOf(frames, contexts, error.e) = cframe.level
<1>1. mode \in {"look", "handle"} /\ (mode = "look" => ~Deeper)
  BY DEF Handling
<1>2. atomicFrame = Null /\ mode # "run"
  BY <1>1, NothingDeferred
<1>3. Pending(frames, contexts, blocks, mode, error, Len(contexts), cframe.level)
  BY <1>2, OtherParts
<1>4. LevelOf(frames, contexts, error.e) = cframe.level
  <2>1. CASE mode = "look"
    BY <1>1, <1>2, <2>1, LookParts
  <2>2. CASE mode = "handle"
    BY <1>3, <2>2 DEF Pending
  <2> QED
    BY <1>1, <2>1, <2>2
<1>5. \A m \in {"look", "handle"} :
        Pending(frames, contexts, blocks, m, error, Len(contexts), cframe.level)
  BY <1>1, <1>3, <1>4 DEF Pending
<1> QED
  BY <1>2, <1>4, <1>5

\* A context without handler passes the error on to the one below.
LEMMA PassOnRight ==
  ASSUME IInv, PassOn
  PROVE  IInv'
<1> DEFINE er == [error EXCEPT !.e = @ - 1]
           n == Len(contexts)
<1>1. /\ Stack(frames, contexts, blocks) /\ n \in Nat
      /\ cframe = frames[Len(frames)] /\ Numbers(frames, contexts, blocks)
  BY IInvParts
<1>2. /\ atomicFrame = Null /\ mode # "run"
      /\ Pending(frames, contexts, blocks, "look", error, n, cframe.level)
      /\ LevelOf(frames, contexts, error.e) = cframe.level
  BY HandlingParts DEF PassOn
<1>3. /\ error \in ErrorType /\ error.e \in 1 .. n
      /\ NoHandler(contexts, error.e)
  BY <1>2, LookParts DEF PassOn, NoHandler
<1>4. error.e > 1
  <2>1. contexts # <<>>
    BY <1>2, OtherParts
  <2>2. error.e # 1
    BY <1>1, <1>3, <2>1, FirstContext
  <2> QED
    BY <1>3, <2>2
<1>5. /\ er \in ErrorType /\ er.e = error.e - 1 /\ er.level = error.level
      /\ er.told = error.told /\ er.undone = error.undone
  <2>1. error.e - 1 \in Nat
    BY <1>3, <1>4
  <2> QED
    BY <1>3, <2>1 DEF ErrorType
<1>6. /\ error' = er /\ mode' = "look" /\ frames' = frames /\ contexts' = contexts
      /\ blocks' = blocks /\ scopes' = scopes /\ atomicFrame' = atomicFrame
      /\ planes' = planes
  BY <1>4 DEF PassOn
<1> HIDE DEF er
<1>7. \A k \in er.e + 1 .. n : k = error.e \/ k \in error.e + 1 .. n
  BY <1>1, <1>3, <1>5
<1>8. Open(contexts, er.e + 1, n) /\ \A k \in er.e + 1 .. n : LevelOf(frames, contexts, k) = cframe.level
  BY <1>2, <1>3, <1>7 DEF Pending, Open
<1>9. er.e \in 1 .. n
  BY <1>1, <1>3, <1>4, <1>5
<1>10. Pending(frames, contexts, blocks, "look", er, n, cframe.level)
  BY <1>2, <1>5, <1>8, <1>9 DEF Pending
<1>11. ModeRight'
  <2>1. contexts # <<>> /\ contexts[n].block = Len(blocks)
    BY <1>2, OtherParts
  <2> QED
    BY <1>1, <1>2, <1>6, <1>10, <2>1 DEF ModeRight
<1>12. er.e <= n
  BY <1>1, <1>9
<1> QED
  BY <1>5, <1>6, <1>11, <1>12 DEF IInv, Modes

\* The rollback of an error is left to a context further down: it is done
\* later, and the invariant says where.
LEMMA DeferRight ==
  ASSUME IInv, Defer
  PROVE  IInv'
<1> DEFINE n == Len(contexts)
<1>1. /\ Stack(frames, contexts, blocks) /\ n \in Nat
      /\ cframe = frames[Len(frames)] /\ Numbers(frames, contexts, blocks)
  BY IInvParts
<1>2. mode = "rollback" /\ atomicFrame = Null
  BY NothingDeferred DEF Defer
<1>3. /\ error \in ErrorType /\ error.e \in 1 .. n /\ Looking = contexts[error.e]
      /\ Looking \in ContextType
  BY <1>2, LookParts
<1>4. Looking.addr \in Pos
  BY <1>3 DEF ContextType
<1>5. /\ atomicFrame' = Looking.addr /\ mode' = "throw" /\ frames' = frames
      /\ contexts' = contexts /\ blocks' = blocks /\ scopes' = scopes /\ planes' = planes
      /\ error' = error /\ error.e # n
  BY DEF Defer
<1>6. [error EXCEPT !.e = error.e] = error
  BY <1>3 DEF ErrorType
<1>7. Pending(frames, contexts, blocks, "rollback", error, n, cframe.level)
  BY <1>2, OtherParts
<1>8. Deferred'
  BY <1>1, <1>3, <1>5, <1>6, <1>7 DEF Deferred
<1>9. atomicFrame' # Null /\ atomicFrame' \in Nat
  BY <1>4, <1>5 DEF Null, Pos
<1>10. ModeRight'
  <2>1. contexts # <<>> /\ contexts[n].block = Len(blocks)
    BY <1>2, OtherParts
  <2> QED
    BY <1>5, <1>8, <1>9, <2>1 DEF ModeRight
<1> QED
  BY <1>5, <1>9, <1>10 DEF IInv, Modes

\* The handler of the context is a dummy from now on, so that no error in
\* the handler, or after it, has it run again.
LEMMA HandledOnce ==
  ASSUME IInv, Handling, Looking.handler # "none",
         NEW cs, cs = [contexts EXCEPT ![error.e].handler = "dummyHandler"],
         NEW er \in ErrorType, er.e = error.e, er.level = error.level,
         er.undone = error.undone, er.told = 1
  PROVE  /\ Stack(frames, cs, blocks) /\ Len(cs) = Len(contexts)
         /\ \A k \in 1 .. Len(cs) : cs[k].addr = contexts[k].addr
         /\ cs[Len(cs)].block = Len(blocks)
         /\ Pending(frames, cs, blocks, "throw", er, Len(cs), cframe.level)
<1> DEFINE n == Len(contexts)
           e == error.e
<1>1. /\ Stack(frames, contexts, blocks) /\ n \in Nat /\ contexts \in Seq(ContextType)
      /\ cframe = frames[Len(frames)] /\ Numbers(frames, contexts, blocks)
  BY IInvParts
<1>2. /\ atomicFrame = Null /\ mode # "run"
      /\ Pending(frames, contexts, blocks, "handle", error, n, cframe.level)
      /\ LevelOf(frames, contexts, e) = cframe.level
  BY HandlingParts
<1>3. /\ error \in ErrorType /\ e \in 1 .. n /\ Looking = contexts[e]
      /\ BlockOf(contexts, blocks, e).kind # "guard"
      /\ \A k \in e + 1 .. n : BlockOf(contexts, blocks, k).kind = "guard"
  BY <1>2, LookParts
<1>4. Stack(frames, cs, blocks)
  BY <1>1, <1>3, StackHandle
<1>5. Len(cs) = n
  BY <1>1
<1>6. ASSUME NEW k \in 1 .. n
      PROVE  /\ cs[k].addr = contexts[k].addr /\ cs[k].f = contexts[k].f
             /\ cs[k].block = contexts[k].block
             /\ cs[k].handler = IF k = e THEN "dummyHandler" ELSE contexts[k].handler
  <2>1. contexts[k] \in ContextType
    BY <1>1
  <2>2. cs[k] = IF k = e THEN [contexts[k] EXCEPT !.handler = "dummyHandler"] ELSE contexts[k]
    BY <1>1
  <2> QED
    BY <2>1, <2>2 DEF ContextType
<1>7. \A k \in 1 .. n : /\ LevelOf(frames, cs, k) = LevelOf(frames, contexts, k)
                        /\ BlockOf(cs, blocks, k) = BlockOf(contexts, blocks, k)
                        /\ NoHandler(cs, k) <=> NoHandler(contexts, k)
  BY <1>3, <1>6 DEF LevelOf, BlockOf, NoHandler
<1> HIDE DEF n, e
<1>8. \A k \in 1 .. n + 1 : Open(cs, k, n) <=> Open(contexts, k, n)
  <2>1. \A k \in 1 .. n + 1 : \A j \in k .. n : j \in 1 .. n
    BY <1>1
  <2> QED
    BY <1>7, <2>1 DEF Open
<1>9. er.e = e /\ e \in 1 .. n /\ e + 1 \in 1 .. n + 1
  BY <1>1, <1>3 DEF e
<1>10. /\ Open(cs, er.e + 1, n)
       /\ \A k \in er.e + 1 .. n : LevelOf(frames, cs, k) = cframe.level
       /\ \A k \in 1 .. n : Open(cs, k, n) => BlockOf(cs, blocks, k).kind = "guard"
  <2>1. /\ Open(contexts, e + 1, n)
        /\ \A k \in e + 1 .. n : LevelOf(frames, contexts, k) = cframe.level
        /\ \A k \in 1 .. n : Open(contexts, k, n) => BlockOf(contexts, blocks, k).kind = "guard"
    BY <1>2 DEF Pending, e
  <2>2. \A k \in 1 .. n : k \in 1 .. n + 1
    BY <1>1
  <2>3. \A k \in e + 1 .. n : k \in 1 .. n
    BY <1>1, <1>9
  <2> QED
    BY <1>7, <1>8, <1>9, <2>1, <2>2, <2>3
<1>11. LevelOf(frames, cs, er.e) = cframe.level /\ cs[er.e].handler = "dummyHandler"
  BY <1>2, <1>6, <1>7, <1>9 DEF e
<1>12. ASSUME NEW k \in 1 .. n, Open(cs, k + 1, n),
              BlockOf(cs, blocks, k).kind \in {"task", "catch"}
       PROVE  cs[k].handler = "dummyHandler"
  <2>1. k \notin e + 1 .. n
    BY <1>3, <1>7, <1>12 DEF e, n
  <2>2. e \notin k + 1 .. n
    <3>1. ~NoHandler(cs, e)
      BY <1>11, <1>9 DEF NoHandler
    <3> QED
      BY <1>12, <3>1 DEF Open
  <2>3. k = e
    BY <1>1, <1>9, <2>1, <2>2
  <2> QED
    BY <1>6, <2>3
<1>13. er.undone = er.level - cframe.level
  <2>1. cframe.level \in Nat /\ error.level \in Nat
    BY <1>2, IInvParts, LookParts
  <2>2. error.undone = error.level - cframe.level + 0
    BY <1>2 DEF Pending
  <2> QED
    BY <2>1, <2>2
<1>14. Pending(frames, cs, blocks, "throw", er, n, cframe.level)
  <2>1. cframe.level \in Nat /\ error.level \in Nat
    BY <1>2, IInvParts, LookParts
  <2>2. er.undone = er.level - cframe.level + 0
    BY <1>13, <2>1
  <2>3. \A k \in 1 .. n :
          Open(cs, k + 1, n) /\ BlockOf(cs, blocks, k).kind \in {"task", "catch"} =>
            cs[k].handler = IF er.told = 0 THEN "runtimeError" ELSE "dummyHandler"
    BY <1>12
  <2> QED
    BY <1>9, <1>10, <1>11, <2>2, <2>3 DEF Pending
<1>15. n \in 1 .. n /\ contexts[n].block = Len(blocks)
  BY <1>2, OtherParts DEF n
<1> QED
  BY <1>4, <1>5, <1>6, <1>14, <1>15

\* Running the handler of a context, or its dummy, keeps the invariant.
LEMMA HandleRight ==
  ASSUME IInv, Handle
  PROVE  IInv'
<1> DEFINE n == Len(contexts)
           e == error.e
           cs == [contexts EXCEPT ![error.e].handler = "dummyHandler"]
<1>1. /\ Stack(frames, contexts, blocks) /\ n \in Nat /\ contexts \in Seq(ContextType)
      /\ cframe = frames[Len(frames)] /\ Numbers(frames, contexts, blocks)
  BY IInvParts
<1>2. /\ atomicFrame = Null /\ mode # "run"
      /\ Pending(frames, contexts, blocks, "handle", error, n, cframe.level)
      /\ LevelOf(frames, contexts, e) = cframe.level
  BY HandlingParts DEF Handle
<1>3. /\ error \in ErrorType /\ e \in 1 .. n /\ Looking = contexts[e]
      /\ error.told \in {0, 1}
      /\ BlockOf(contexts, blocks, e).kind # "guard"
  BY <1>2, LookParts DEF Handle
<1>4. Handling /\ Looking.handler # "none" /\ UNCHANGED <<atomicFrame, planes>>
  BY DEF Handle
<1>20. contexts # <<>> /\ blocks # <<>>
  BY <1>2, OtherParts
\* Whom the driver object has been told for.
<1>5. /\ BlockOf(contexts, blocks, e).kind \in {"task", "catch"} =>
           contexts[e].handler = IF error.told = 0 THEN "runtimeError" ELSE "dummyHandler"
      /\ contexts[e].handler = "runtimeError" =>
           BlockOf(contexts, blocks, e).kind \in {"task", "catch"}
  <2>1. contexts[e].handler \in HandlerOf(BlockOf(contexts, blocks, e))
    BY <1>1, <1>3 DEF Stack, HandlersRight
  <2>2. Open(contexts, e + 1, n)
    BY <1>2 DEF Pending
  <2> QED
    BY <1>2, <1>3, <2>1, <2>2 DEF HandlerOf, Pending
<1>6. CASE Looking.handler = "runtimeError"
  <2> DEFINE er == [error EXCEPT !.told = @ + 1]
             b == [ScopeBlock("critical") EXCEPT !.then = "throw", !.error = er]
  <2>1. /\ er \in ErrorType /\ er.e = error.e /\ er.level = error.level
        /\ er.undone = error.undone /\ er.told = 1
    <3>1. error.told = 0
      BY <1>3, <1>5, <1>6
    <3> QED
      BY <1>3, <3>1 DEF ErrorType
  <2>2. EnterCritical("emptyhandler", b, cs)
    BY <1>6 DEF Handle
  <2> HIDE DEF er
  <2>3. /\ b \in BlockType /\ b.kind = "critical" /\ b.f = Len(frames)
        /\ b.rlim = Len(scopes) + 1 /\ b.then = "throw" /\ b.error = er
    <3>1. /\ ScopeBlock("critical") \in BlockType /\ ScopeBlock("critical").kind = "critical"
          /\ ScopeBlock("critical").f = Len(frames)
          /\ ScopeBlock("critical").rlim = Len(scopes) + 1
      BY BlockIs DEF Kinds
    <3> QED
      BY <2>1, <3>1 DEF BlockType
  <2>4. /\ Stack(frames, cs, blocks) /\ Len(cs) = Len(contexts)
        /\ \A k \in 1 .. Len(cs) : cs[k].addr = contexts[k].addr
        /\ cs[Len(cs)].block = Len(blocks)
        /\ Pending(frames, cs, blocks, "throw", er, Len(cs), cframe.level)
    <3>1. cs = [contexts EXCEPT ![error.e].handler = "dummyHandler"]
      OBVIOUS
    <3> HIDE DEF cs
    <3> QED
      BY <1>4, <2>1, <3>1, HandledOnce
  <2> HIDE DEF b, cs
  <2> QED
    BY <1>2, <1>4, <1>20, <2>2, <2>3, <2>4, CriticalRight
<1>7. CASE Looking.handler # "runtimeError"
  <2>1. /\ contexts' = cs /\ mode' = "throw" /\ frames' = frames /\ scopes' = scopes
        /\ blocks' = blocks /\ error' = error /\ atomicFrame' = atomicFrame
        /\ planes' = planes
    BY <1>7 DEF Handle
  <2>2. cs = [contexts EXCEPT ![error.e].handler = "dummyHandler"]
    OBVIOUS
  <2> HIDE DEF cs
  \* What has been told matters to a task or a catch only.
  <2>3. /\ Stack(frames, cs, blocks) /\ Len(cs) = n
        /\ cs[Len(cs)].block = Len(blocks)
        /\ Pending(frames, cs, blocks, "throw", error, Len(cs), cframe.level)
    <3> DEFINE er == [error EXCEPT !.told = 1]
    <3>1. /\ er \in ErrorType /\ er.e = error.e /\ er.level = error.level
          /\ er.undone = error.undone /\ er.told = 1
      BY <1>3 DEF ErrorType
    <3> HIDE DEF er
    <3>2. /\ Stack(frames, cs, blocks) /\ Len(cs) = n
          /\ cs[Len(cs)].block = Len(blocks)
          /\ Pending(frames, cs, blocks, "throw", er, Len(cs), cframe.level)
      BY <1>4, <2>2, <3>1, HandledOnce
    <3>3. CASE error.told = 1
      BY <3>1, <3>2, <3>3 DEF Pending
    <3>4. CASE error.told = 0
      <4>1. BlockOf(contexts, blocks, e).kind \notin {"task", "catch"}
        BY <1>3, <1>4, <1>5, <1>7, <3>4
      <4>2. BlockOf(cs, blocks, e) = BlockOf(contexts, blocks, e)
        <5>1. cs[e].block = contexts[e].block
          BY <1>1, <1>3, <2>2 DEF ContextType
        <5> QED
          BY <5>1 DEF BlockOf
      <4>3. ASSUME NEW k \in 1 .. Len(cs), Open(cs, k + 1, Len(cs)),
                   BlockOf(cs, blocks, k).kind \in {"task", "catch"}
            PROVE  FALSE
        <5>1. cs[e].handler = "dummyHandler"
          BY <3>1, <3>2 DEF Pending
        <5>2. e \notin k + 1 .. Len(cs)
          BY <4>3, <5>1 DEF Open, NoHandler
        <5>3. Open(cs, e + 1, Len(cs))
          BY <3>1, <3>2 DEF Pending
        <5>4. ASSUME k \in e + 1 .. Len(cs) PROVE FALSE
          <6>1. Open(cs, k, Len(cs))
            BY <1>1, <1>3, <5>3, <5>4 DEF Open
          <6>2. BlockOf(cs, blocks, k).kind = "guard"
            BY <3>2, <6>1 DEF Pending
          <6> QED
            BY <4>3, <6>2
        <5>5. k = e
          BY <1>1, <1>3, <3>2, <5>2, <5>4
        <5> QED
          BY <4>1, <4>2, <4>3, <5>5
      <4> QED
        BY <3>1, <3>2, <4>3 DEF Pending
    <3> QED
      BY <1>3, <3>2, <3>3, <3>4
  <2>4. ModeRight'
    <3>1. cs # <<>>
      BY <1>3, <2>3, EmptySeq
    <3> QED
      BY <1>1, <1>2, <2>1, <2>3, <3>1 DEF ModeRight
  <2> QED
    BY <2>1, <2>3, <2>4 DEF IInv, Modes
<1> QED
  BY <1>6, <1>7

\* A rollback is done in the last context, which is one level lower than
\* the code in which the error occurred.
LEMMA RestoreParts ==
  ASSUME IInv, Restore
  PROVE  /\ error.e = Len(contexts) /\ Len(contexts) \in 1 .. Len(contexts)
         /\ contexts[Len(contexts)].block = Len(blocks)
         /\ Pending(frames, contexts, blocks, "rollback", error, Len(contexts), cframe.level)
         /\ cframe.level = LevelOf(frames, contexts, Len(contexts)) + 1
         /\ LevelOf(frames, contexts, Len(contexts)) \in Nat
<1> DEFINE n == Len(contexts)
<1>1. /\ Stack(frames, contexts, blocks) /\ n \in Nat
      /\ cframe = frames[Len(frames)] /\ cframe.level \in Nat
      /\ error \in ErrorType
  BY IInvParts DEF IInv
<1>2. mode # "run" /\ mode # "throw"
  BY DEF Restore
<1>3. n \in 1 .. n /\ contexts[n].block = Len(blocks)
  BY <1>2, OtherParts
<1>4. error.e = n /\ Pending(frames, contexts, blocks, "rollback", error, n, cframe.level)
  <2>1. CASE atomicFrame = Null
    <3>1. mode = "rollback" /\ error.e = n
      BY <2>1 DEF Restore
    <3> QED
      BY <2>1, <3>1, OtherParts
  <2>2. CASE atomicFrame # Null
    <3>1. PICK d \in 1 .. n :
            /\ Pending(frames, contexts, blocks, "rollback", [error EXCEPT !.e = d],
                       n, cframe.level)
            /\ d = n /\ error.e = d
      BY <1>2, <2>2, DeferredParts
    <3>2. [error EXCEPT !.e = d] = error
      BY <1>1, <3>1 DEF ErrorType
    <3> QED
      BY <3>1, <3>2
  <2> QED
    BY <2>1, <2>2
<1>5. Open(contexts, n + 1, n) /\ LevelOf(frames, contexts, n) # cframe.level
  BY <1>4 DEF Pending
<1>6. /\ LevelOf(frames, contexts, n) <= cframe.level
      /\ cframe.level <= LevelOf(frames, contexts, n) + 1
      /\ LevelOf(frames, contexts, n) \in Nat
  BY <1>1, <1>3, <1>5, OneDeeper
<1> QED
  BY <1>1, <1>3, <1>4, <1>5, <1>6

\* After a rollback to frame m there are the scopes that this frame had.
LEMMA RestoredScopesAre ==
  ASSUME IInv, NEW m \in 1 .. Len(frames)
  PROVE  IsSeq(RestoredScopes(m)) /\ Len(RestoredScopes(m)) = frames[m].rlim
<1> DEFINE r == frames[m].rlim
           s == IF r # cframe.rlim THEN SetRlimits(scopes, r) ELSE scopes
<1>1. IsSeq(scopes) /\ Len(scopes) = cframe.rlim /\ r \in Nat
  BY IInvParts DEF Numbers
<1>2. IsSeq(s) /\ Len(s) = r
  BY <1>1, SetRlimitsIs
<1>3. RestoredScopes(m) = [s EXCEPT ![r] = Doubled(s[r])]
  BY DEF RestoredScopes
<1> HIDE DEF s, r
<1>4. IsSeq([s EXCEPT ![r] = Doubled(s[r])]) /\ Len([s EXCEPT ![r] = Doubled(s[r])]) = Len(s)
  BY ZenonT(60), <1>2, ExceptIs
<1> QED
  BY <1>2, <1>3, <1>4 DEF r

\* Frame::restore() rolls one plane back, with as many frames as belong to
\* it, and keeps the invariant.
LEMMA RestoreRight ==
  ASSUME IInv, Restore
  PROVE  IInv'
<1> DEFINE n == Len(contexts)
           l == LevelOf(frames, contexts, n)
           m == Restored
           p == Len(blocks)
           fs2 == SubSeq(frames, 1, m)
<1>1. /\ Stack(frames, contexts, blocks) /\ n \in Nat /\ Numbers(frames, contexts, blocks)
      /\ cframe = frames[Len(frames)] /\ cframe.level \in Nat
      /\ frames \in Seq(FrameType) /\ Len(frames) \in Nat
      /\ contexts \in Seq(ContextType) /\ blocks \in Seq(BlockType) /\ p \in Nat
      /\ error \in ErrorType /\ error.level \in Nat /\ planes = cframe.level
  BY IInvParts DEF IInv, ErrorType
<1>2. /\ error.e = n /\ n \in 1 .. n /\ contexts[n].block = p
      /\ Pending(frames, contexts, blocks, "rollback", error, n, cframe.level)
      /\ cframe.level = l + 1 /\ l \in Nat
  BY RestoreParts
<1>3. /\ m \in 1 .. Len(frames) /\ frames[m].level = l
      /\ \A i \in m + 1 .. Len(frames) : frames[i].level # l
  BY <1>1, <1>2, RestoredIs
<1>4. IsSeq(RestoredScopes(m)) /\ Len(RestoredScopes(m)) = frames[m].rlim
  BY <1>3, RestoredScopesAre
<1>5. /\ scopes' = RestoredScopes(m) /\ frames' = fs2 /\ planes' = planes - 1
      /\ atomicFrame' = Null /\ mode' = "handle" /\ contexts' = contexts
      /\ blocks' = blocks /\ error' = error
  BY DEF Restore
<1>6. /\ fs2 \in Seq(FrameType) /\ Len(fs2) = m /\ \A i \in 1 .. m : fs2[i] = frames[i]
  <2> HIDE DEF m
  <2>1. m \in 0 .. Len(frames)
    BY <1>1, <1>3
  <2> QED
    BY <1>1, <2>1, FirstOf
<1>7. contexts[n].f \in 1 .. m
  <2>1. contexts[n].f \in 1 .. Len(frames) /\ frames[contexts[n].f].level = l
    BY <1>1, <1>2 DEF Numbers, LevelOf
  <2>2. contexts[n].f \notin m + 1 .. Len(frames)
    BY <1>3, <2>1
  <2> HIDE DEF m, l, n
  <2> QED
    BY <1>1, <1>3, <2>1, <2>2
<1> HIDE DEF fs2, m
<1>8. Cut(frames, contexts, blocks, fs2, contexts, blocks, m, n, p)
  <2>1. m \in 1 .. m /\ m \in Nat
    BY <1>1, <1>3
  <2>2. \A i \in 1 .. m - 1 : fs2[i] = frames[i] /\ frames[i].rlim <= fs2[m].rlim
    <3>1. \A i \in 1 .. m - 1 : i \in 1 .. m /\ i \in 1 .. Len(frames) /\ i <= m
      BY <1>1, <1>3, <2>1
    <3> QED
      BY <1>1, <1>3, <1>6, <2>1, <3>1 DEF Stack, FramesUp
  <2>3. fs2[m].level = frames[m].level /\ fs2[m].rlim <= frames[m].rlim
    <3>1. fs2[m] = frames[m] /\ frames[m].rlim \in Nat
      BY <1>1, <1>3, <1>6, <2>1 DEF Numbers
    <3> QED
      BY <3>1
  <2>4. ASSUME NEW i \in 1 .. p
        PROVE  blocks[i].f <= m /\ (blocks[i].f = m => blocks[i].rlim <= fs2[m].rlim)
    <3>1. blocks[p].f = contexts[n].f /\ p \in 1 .. p
      BY SMTT(60), <1>1, <1>2 DEF Stack, ContextsUp, BlockOf
    <3>2. blocks[i].f <= blocks[p].f
      <4>1. CASE i = p
        BY <1>7, <3>1, <4>1
      <4>2. CASE i # p
        <5>1. i \in 1 .. p - 1 /\ p \in 1 .. Len(blocks)
          BY <1>1, <3>1, <4>2
        <5> QED
          BY <1>1, <5>1 DEF Stack, BlocksUp
      <4> QED
        BY <4>1, <4>2
    <3>3. blocks[i].f \in 1 .. Len(frames) /\ blocks[i].rlim <= frames[blocks[i].f].rlim
      BY <1>1 DEF Stack, BlocksUp, Numbers
    <3> QED
      BY SMTT(60), <1>1, <1>3, <1>6, <1>7, <2>1, <3>1, <3>2, <3>3
  <2>5. \A k \in 1 .. Len(contexts) : k <= n <=> contexts[k].block <= p
    BY <1>1 DEF Numbers
  <2>6. \E k \in 1 .. n : contexts[k].f <= m /\
                          Within(frames, contexts, fs2[m].level, fs2[m].atomic, k)
    <3>1. contexts # <<>> /\ fs2[m] = frames[m]
      BY <1>2, <1>6, <2>1, EmptySeq
    <3> QED
      BY <1>1, <1>3, <3>1 DEF Stack, Handled
  <2>7. /\ n = Len(contexts) /\ p = Len(blocks) /\ m = Len(fs2)
        /\ n \in 0 .. Len(contexts) /\ p \in 0 .. Len(blocks)
        /\ \A i \in 1 .. p : LeftOf(blocks[i], blocks[i])
    BY <1>1, <1>6 DEF LeftOf
  <2>8. \A k \in n + 1 .. Len(contexts) : contexts[k].f >= m
    BY <1>1
  <2> HIDE DEF n, p, l
  <2> QED
    BY <1>1, <1>3, <1>6, <2>2, <2>3, <2>4, <2>5, <2>6, <2>7, <2>8 DEF Cut
<1>9. Stack(fs2, contexts, blocks)
  BY <1>1, <1>8, StackCut
<1>10. \A k \in 1 .. n : SameContext(frames, contexts, blocks, fs2, contexts, blocks, k)
  <2>1. \A k \in 1 .. n : contexts[k].f \in 1 .. m
    <3> SUFFICES ASSUME NEW k \in 1 .. n PROVE contexts[k].f \in 1 .. m
      OBVIOUS
    <3>1. contexts[k].f <= contexts[n].f
      BY <1>1, <1>2, ContextsOrdered
    <3>2. contexts[k].f \in 1 .. Len(frames)
      BY <1>1 DEF Numbers
    <3> QED
      BY <1>1, <1>3, <1>7, <3>1, <3>2
  <2> QED
    BY <1>6, <2>1 DEF SameContext, LevelOf
<1>11. Pending(fs2, contexts, blocks, "handle", error, n, l)
  <2>1. Pending(fs2, contexts, blocks, "rollback", error, n, cframe.level)
    BY <1>1, <1>2, <1>10, PendingStays
  <2>2. LevelOf(fs2, contexts, error.e) = l
    BY <1>2, <1>10 DEF SameContext
  <2>3. \A k \in error.e + 1 .. n : FALSE
    BY <1>1, <1>2
  <2>4. error.undone = error.level - l + 0
    <3>1. error.undone = error.level - cframe.level + 1
      BY <2>1 DEF Pending
    <3>2. error.level \in Nat /\ cframe.level = l + 1 /\ l \in Nat
      BY <1>1, <1>2
    <3> HIDE DEF l
    <3> QED
      BY <3>1, <3>2
  <2> HIDE DEF l, n
  <2>5. /\ error.e \in 1 .. n /\ Open(contexts, error.e + 1, n)
        /\ \A k \in 1 .. n : Open(contexts, k, n) => BlockOf(contexts, blocks, k).kind = "guard"
        /\ \A k \in 1 .. n :
             Open(contexts, k + 1, n) /\ BlockOf(contexts, blocks, k).kind \in {"task", "catch"} =>
               contexts[k].handler = IF error.told = 0 THEN "runtimeError" ELSE "dummyHandler"
    BY <2>1 DEF Pending
  <2> QED
    BY <2>2, <2>3, <2>4, <2>5 DEF Pending
<1>12. fs2[Len(fs2)] = frames[m] /\ fs2[Len(fs2)].level = l
  BY <1>1, <1>3, <1>6
<1>13. ModeRight'
  <2>1. contexts # <<>>
    BY <1>2, EmptySeq
  <2> QED
    BY <1>2, <1>5, <1>11, <1>12, <2>1 DEF ModeRight
<1>14. frames'[Len(frames')].rlim = Len(scopes') /\ planes' = frames'[Len(frames')].level
  <2>1. planes - 1 = l
    <3> HIDE DEF l
    <3> QED
      BY <1>1, <1>2
  <2> QED
    BY <1>4, <1>5, <1>12, <2>1
<1>15. error.e <= Len(contexts)
  BY <1>1, <1>2
<1> QED
  BY <1>1, <1>4, <1>5, <1>9, <1>13, <1>14, <1>15 DEF IInv, Modes, Null

\* An error keeps the invariant, unless it is one in remove_program(), whose
\* context starts a rollback without ending it (callCritical(), error.cpp).
LEMMA ErrorRight ==
  ASSUME IInv, Error, ~RemoveFails
  PROVE  IInv'
<1> DEFINE n == Len(contexts)
           p == contexts[n].block
           m == Len(frames)
           bs2 == SubSeq(blocks, 1, p)
           er == [NoError EXCEPT !.e = n, !.level = cframe.level]
<1>1. /\ Stack(frames, contexts, blocks) /\ n \in Nat /\ Numbers(frames, contexts, blocks)
      /\ cframe = frames[m] /\ cframe.level \in Nat /\ eFrame = contexts[n]
      /\ frames \in Seq(FrameType) /\ m \in Nat /\ m \in 1 .. m
      /\ contexts \in Seq(ContextType) /\ blocks \in Seq(BlockType) /\ Len(blocks) \in Nat
  BY IInvParts
<1>2. mode = "run" /\ blocks # <<>> /\ ~Removing
  BY DEF Error, InCode, Running
<1>3. atomicFrame = Null /\ Fresh(contexts, n) /\ contexts # <<>>
  BY <1>2, RunParts
<1>4. n \in 1 .. n /\ p \in 1 .. Len(blocks)
  BY <1>1, <1>3 DEF Numbers
<1>5. /\ mode' = "look" /\ error' = er /\ blocks' = bs2 /\ frames' = frames
      /\ scopes' = scopes /\ contexts' = contexts /\ atomicFrame' = Null /\ planes' = planes
  BY <1>1, <1>3 DEF Error, Passed
<1>6. /\ bs2 \in Seq(BlockType) /\ Len(bs2) = p /\ \A i \in 1 .. p : bs2[i] = blocks[i]
  <2> HIDE DEF p
  <2>1. p \in 0 .. Len(blocks)
    BY <1>1, <1>4
  <2> QED
    BY <1>1, <2>1, FirstOf
<1>7. /\ er \in ErrorType /\ er.e = n /\ er.level = cframe.level /\ er.told = 0
      /\ er.undone = 0
  <2> DEFINE e1 == [NoError EXCEPT !.e = n]
  <2>1. e1 \in ErrorType /\ e1.e = n /\ e1.told = 0 /\ e1.undone = 0
    BY <1>1 DEF NoError, ErrorType
  <2>2. er = [e1 EXCEPT !.level = cframe.level]
    OBVIOUS
  <2> HIDE DEF er, e1
  <2> QED
    BY <1>1, <2>1, <2>2 DEF ErrorType
<1> HIDE DEF er, bs2
<1>8. ASSUME NEW k \in 1 .. n
      PROVE  contexts[k].block \in 1 .. p /\ BlockOf(contexts, bs2, k) = BlockOf(contexts, blocks, k)
  <2>1. contexts[k].block <= p
    BY <1>1, <1>4, ContextsOrdered
  <2>2. contexts[k].block \in 1 .. Len(blocks)
    BY <1>1 DEF Numbers
  <2>3. contexts[k].block \in 1 .. p
    BY <1>1, <1>4, <2>1, <2>2
  <2> QED
    BY <1>6, <2>3 DEF BlockOf
<1>9. Cut(frames, contexts, blocks, frames, contexts, bs2, m, n, p)
  <2>1. \A i \in 1 .. m - 1 : frames[i].rlim <= frames[m].rlim
    <3>1. \A i \in 1 .. m - 1 : i \in 1 .. m /\ i <= m
      BY <1>1
    <3> QED
      BY <1>1, <3>1 DEF Stack, FramesUp
  <2>2. frames[m].rlim \in Nat /\ frames[m].rlim <= frames[m].rlim
    BY <1>1 DEF Numbers
  <2>3. ASSUME NEW i \in 1 .. p
        PROVE  blocks[i].f <= m /\ (blocks[i].f = m => blocks[i].rlim <= frames[m].rlim)
    <3>1. i \in 1 .. Len(blocks)
      BY <1>1, <1>4
    <3> QED
      BY <1>1, <3>1 DEF Stack, BlocksUp
  <2>4. \A k \in 1 .. Len(contexts) : k <= n <=> contexts[k].block <= p
    <3>1. \A k \in 1 .. Len(contexts) : k <= n
      BY <1>1
    <3>2. \A k \in 1 .. Len(contexts) : contexts[k].block <= p
      BY <1>1, <1>4, <1>8
    <3> QED
      BY <3>1, <3>2
  <2>5. \E k \in 1 .. n : contexts[k].f <= m /\
                          Within(frames, contexts, frames[m].level, frames[m].atomic, k)
    BY <1>1, <1>3 DEF Stack, Handled
  <2>6. /\ n = Len(contexts) /\ p = Len(bs2) /\ m = Len(frames)
        /\ n \in 0 .. Len(contexts) /\ p \in 0 .. Len(blocks)
        /\ \A i \in 1 .. p : LeftOf(bs2[i], blocks[i])
    BY <1>1, <1>4, <1>6 DEF LeftOf
  <2>7. \A k \in n + 1 .. Len(contexts) : contexts[k].f >= m
    BY <1>1
  <2> HIDE DEF n, p, m
  <2> QED
    BY <1>1, <1>6, <2>1, <2>2, <2>3, <2>4, <2>5, <2>6, <2>7 DEF Cut
<1>10. Stack(frames, contexts, bs2)
  BY <1>1, <1>9, StackCut
\* A critical call without handler would have been that of remove_program().
<1>11. ASSUME NEW k \in 1 .. n, Open(contexts, k, n)
       PROVE  BlockOf(contexts, blocks, k).kind = "guard"
  <2>1. k \in k .. n
    BY <1>1
  <2>2. contexts[k].handler = "none"
    BY <1>11, <2>1 DEF Open, NoHandler
  <2>3. contexts[k].handler \in HandlerOf(BlockOf(contexts, blocks, k))
    BY <1>1 DEF Stack, HandlersRight
  <2>4. ~(Critical(BlockOf(contexts, blocks, k)) /\ BlockOf(contexts, blocks, k).then = "run")
    <3>1. DOMAIN contexts = 1 .. n
      BY <1>1
    <3> QED
      BY <1>2, <1>11, <3>1 DEF Removing, Critical, BlockOf, Open, NoHandler
  <2>5. BlockOf(contexts, blocks, k) \in BlockType
    BY <1>1, <1>8, <1>4 DEF BlockOf, Numbers
  <2>6. BlockOf(contexts, blocks, k).kind \notin {"call", "rlimits"}
    BY <1>1 DEF Stack, ContextsUp
  <2> QED
    BY <2>2, <2>3, <2>4, <2>5, <2>6 DEF HandlerOf, Critical, BlockType, Kinds
<1>12. ASSUME NEW k \in 1 .. n, Open(contexts, k + 1, n),
              BlockOf(contexts, blocks, k).kind \in {"task", "catch"}
       PROVE  contexts[k].handler = "runtimeError"
  <2>1. contexts[k].handler \in HandlerOf(BlockOf(contexts, blocks, k))
    BY <1>1 DEF Stack, HandlersRight
  <2>2. contexts[k].handler # "dummyHandler"
    BY <1>3, <1>12 DEF Fresh
  <2> QED
    BY <1>12, <2>1, <2>2 DEF HandlerOf
<1>13. Pending(frames, contexts, bs2, "look", er, n, cframe.level)
  <2>1. \A k \in er.e + 1 .. n : FALSE
    BY <1>1, <1>7
  <2>2. Open(contexts, er.e + 1, n) /\ er.e \in 1 .. n
    BY <1>4, <1>7, <2>1 DEF Open
  <2>3. er.undone = er.level - cframe.level + 0
    BY <1>1, <1>7
  <2>4. \A k \in 1 .. n : Open(contexts, k, n) => BlockOf(contexts, bs2, k).kind = "guard"
    BY <1>8, <1>11
  <2>5. \A k \in 1 .. n :
          Open(contexts, k + 1, n) /\ BlockOf(contexts, bs2, k).kind \in {"task", "catch"} =>
            contexts[k].handler = IF er.told = 0 THEN "runtimeError" ELSE "dummyHandler"
    BY <1>7, <1>8, <1>12
  <2> HIDE DEF n
  <2> QED
    BY <2>1, <2>2, <2>3, <2>4, <2>5 DEF Pending
<1>14. ModeRight'
  BY <1>1, <1>3, <1>5, <1>6, <1>13 DEF ModeRight
<1>15. er.e <= Len(contexts)
  BY <1>1, <1>7
<1> QED
  BY <1>5, <1>7, <1>10, <1>14, <1>15 DEF IInv, Modes, Null

\* An error passes the last of n + 1 contexts, which has no handler: context
\* number e is looked at next.
LEMMA PendingBelow ==
  ASSUME NEW fs, NEW cs, NEW bs, NEW m, NEW er \in ErrorType, NEW n \in Nat, NEW l,
         Pending(fs, cs, bs, m, er, n + 1, l), NoHandler(cs, n + 1),
         NEW e \in 1 .. n, NEW er2, er2 = [er EXCEPT !.e = e],
         NEW m2, m2 \in {"look", "rollback"}, m2 = "rollback" <=> m = "rollback",
         m2 = "rollback" => e = er.e,
         m2 = "look" => e = n
  PROVE  Pending(fs, cs, bs, m2, er2, n, l)
<1>1. er2.e = e /\ er2.level = er.level /\ er2.told = er.told /\ er2.undone = er.undone
  BY DEF ErrorType
<1>2. \A k \in 1 .. n + 1 : Open(cs, k, n) => Open(cs, k, n + 1)
  <2>1. \A k \in 1 .. n + 1 : \A j \in k .. n + 1 : j \in k .. n \/ j = n + 1
    OBVIOUS
  <2> QED
    BY <2>1 DEF Open
<1>3. \A k \in 1 .. n : k \in 1 .. n + 1 /\ k + 1 \in 1 .. n + 1
  OBVIOUS
<1>4. Open(cs, e + 1, n) /\ \A k \in e + 1 .. n : LevelOf(fs, cs, k) = l
  <2>1. CASE m2 = "look"
    <3>1. \A k \in e + 1 .. n : FALSE
      BY <2>1
    <3> QED
      BY <3>1 DEF Open
  <2>2. CASE m2 = "rollback"
    <3>1. \A k \in e + 1 .. n : k \in er.e + 1 .. n + 1
      BY <2>2
    <3> QED
      BY <3>1 DEF Pending, Open
  <2> QED
    BY <2>1, <2>2
<1>5. \A k \in 1 .. n : Open(cs, k, n) => BlockOf(cs, bs, k).kind = "guard"
  BY <1>2, <1>3 DEF Pending
<1>6. \A k \in 1 .. n :
        Open(cs, k + 1, n) /\ BlockOf(cs, bs, k).kind \in {"task", "catch"} =>
          cs[k].handler = IF er2.told = 0 THEN "runtimeError" ELSE "dummyHandler"
  BY <1>1, <1>2, <1>3 DEF Pending
<1>7. /\ m2 = "rollback" => LevelOf(fs, cs, er2.e) # l
      /\ er2.undone = er2.level - l + (IF m2 = "rollback" THEN 1 ELSE 0)
  BY <1>1 DEF Pending
<1> QED
  BY <1>1, <1>4, <1>5, <1>6, <1>7 DEF Pending

\* The last context when the exception is thrown, and its block.
LEMMA ThrowParts ==
  ASSUME IInv, mode = "throw"
  PROVE  LET n == Len(contexts)
             b == blocks[Len(blocks)]
         IN  /\ n \in 1 .. n /\ contexts[n].block = Len(blocks)
             /\ b = BlockOf(contexts, blocks, n) /\ b \in BlockType
             /\ b.kind \notin {"call", "rlimits"}
             /\ contexts[n].f = b.f /\ contexts[n].rlim = b.rlim
             /\ LevelOf(frames, contexts, n) = cframe.level
             /\ b.kind # "guard" => atomicFrame = Null
             /\ b.kind = "guard" => n > 1 /\ NoHandler(contexts, n)
<1> DEFINE n == Len(contexts)
           b == blocks[Len(blocks)]
<1>1. /\ Stack(frames, contexts, blocks) /\ n \in Nat /\ Numbers(frames, contexts, blocks)
      /\ cframe = frames[Len(frames)] /\ blocks \in Seq(BlockType) /\ Len(blocks) \in Nat
  BY IInvParts
<1>2. n \in 1 .. n /\ contexts[n].block = Len(blocks) /\ Len(blocks) \in 1 .. Len(blocks)
  BY OtherParts
<1>3. b = BlockOf(contexts, blocks, n) /\ b \in BlockType
  BY <1>1, <1>2 DEF BlockOf
<1>4. /\ b.kind \notin {"call", "rlimits"} /\ contexts[n].f = b.f
      /\ contexts[n].rlim = b.rlim
  BY <1>1, <1>2, <1>3 DEF Stack, ContextsUp
<1>5. b.kind = "guard" => NoHandler(contexts, n)
  <2>1. contexts[n].handler \in HandlerOf(b)
    BY <1>1, <1>2, <1>3 DEF Stack, HandlersRight
  <2> QED
    BY <2>1 DEF HandlerOf, Critical, NoHandler
<1>6. CASE atomicFrame = Null
  <2>1. Pending(frames, contexts, blocks, "throw", error, n, cframe.level)
    BY <1>6, OtherParts
  <2>2. error.e \in 1 .. n /\ contexts[error.e].handler = "dummyHandler"
    BY <2>1 DEF Pending
  <2>3. LevelOf(frames, contexts, n) = cframe.level
    <3>1. CASE error.e = n
      BY <2>1, <3>1 DEF Pending
    <3>2. CASE error.e # n
      <4>1. n \in error.e + 1 .. n
        BY <1>1, <2>2, <3>2
      <4> QED
        BY <2>1, <4>1 DEF Pending
    <3> QED
      BY <3>1, <3>2
  <2>4. b.kind = "guard" => n > 1
    <3>1. b.kind = "guard" => error.e # n
      BY <1>5, <2>2 DEF NoHandler
    <3> QED
      BY <1>1, <2>2, <3>1
  <2> QED
    BY <1>2, <1>3, <1>4, <1>5, <1>6, <2>3, <2>4
<1>7. CASE atomicFrame # Null
  <2>1. PICK d \in 1 .. n :
          /\ \A k \in d + 1 .. n : /\ LevelOf(frames, contexts, k) = cframe.level
                                   /\ BlockOf(contexts, blocks, k).kind = "guard"
          /\ d # n
    BY <1>7, DeferredParts
  <2>2. n \in d + 1 .. n /\ n > 1
    BY <1>1, <2>1
  <2> QED
    BY <1>2, <1>3, <1>4, <1>5, <2>1, <2>2
<1> QED
  BY <1>6, <1>7

\* The frame and the scopes that the last context goes on with after the
\* exception.
LEMMA ThrowTop ==
  ASSUME IInv, Throw
  PROVE  LET c == contexts[Len(contexts)]
             b == blocks[Len(blocks)]
         IN  \E top \in FrameType :
               /\ top.level = cframe.level /\ top.rlim = Under(b) /\ top.atomic = c.atomic
               /\ frames' = [SubSeq(frames, 1, c.f) EXCEPT ![c.f] = top]
               /\ IsSeq(scopes') /\ Len(scopes') = Under(b)
<1> DEFINE n == Len(contexts)
           c == contexts[n]
           b == blocks[Len(blocks)]
           r == Under(b)
           top == [frames[c.f] EXCEPT !.atomic = c.atomic, !.rlim = r]
           s == IF cframe.rlim # c.rlim THEN SetRlimits(scopes, c.rlim) ELSE scopes
<1>1. /\ Stack(frames, contexts, blocks) /\ Numbers(frames, contexts, blocks)
      /\ cframe = frames[Len(frames)] /\ eFrame = c
      /\ frames \in Seq(FrameType) /\ Len(frames) \in Nat /\ Len(blocks) \in Nat
      /\ cframe.rlim = Len(scopes) /\ IsSeq(scopes)
  BY IInvParts
<1>2. /\ n \in 1 .. n /\ c.block = Len(blocks) /\ b \in BlockType
      /\ b.kind \notin {"call", "rlimits"} /\ c.f = b.f /\ c.rlim = b.rlim
      /\ LevelOf(frames, contexts, n) = cframe.level
  BY ThrowParts DEF Throw
<1>3. c.f \in 1 .. Len(frames) /\ c.rlim \in Nat /\ c.atomic \in BOOLEAN
  BY <1>1, <1>2 DEF Numbers
<1>4. r = IF b.kind \in {"critical", "called"} THEN c.rlim - 1 ELSE c.rlim
  BY <1>2 DEF Under, Critical
<1>5. r \in Nat /\ r >= 1
  <2>1. Len(blocks) \in 1 .. Len(blocks)
    BY <1>1, <1>2 DEF Numbers
  <2> QED
    BY <1>1, <2>1 DEF Numbers, Stack, BlocksUp
<1>6. /\ frames' = [SubSeq(frames, 1, c.f) EXCEPT ![c.f] =
                     [SubSeq(frames, 1, c.f)[c.f] EXCEPT !.atomic = c.atomic, !.rlim = r]]
      /\ scopes' = IF b.kind \in {"critical", "called"} THEN SetRlimits(s, r) ELSE s
  BY <1>1, <1>2, <1>4 DEF Throw
<1> HIDE DEF r, c, b
<1>7. top \in FrameType /\ top.level = frames[c.f].level /\ top.rlim = r /\ top.atomic = c.atomic
  <2>1. frames[c.f] \in FrameType /\ r \in Pos
    BY <1>1, <1>3, <1>5 DEF Pos
  <2>2. /\ top.level = frames[c.f].level /\ top.rlim = r /\ top.atomic = c.atomic
    BY <2>1 DEF FrameType
  <2>3. [frames[c.f] EXCEPT !.atomic = c.atomic] \in FrameType
    BY <1>3, <2>1 DEF FrameType
  <2>4. top = [[frames[c.f] EXCEPT !.atomic = c.atomic] EXCEPT !.rlim = r]
    OBVIOUS
  <2>5. top \in FrameType
    <3> HIDE DEF top
    <3> DEFINE t == [frames[c.f] EXCEPT !.atomic = c.atomic]
    <3>1. t \in FrameType /\ top = [t EXCEPT !.rlim = r]
      BY <2>3, <2>4
    <3> HIDE DEF t
    <3> QED
      BY <2>1, <3>1 DEF FrameType
  <2> QED
    BY <2>2, <2>5
<1>8. frames[c.f].level = cframe.level
  BY <1>2 DEF LevelOf, c
<1>9. SubSeq(frames, 1, c.f)[c.f] = frames[c.f]
  <2>1. c.f \in 0 .. Len(frames) /\ c.f \in 1 .. c.f
    BY <1>1, <1>3
  <2> QED
    BY <1>1, <2>1, FirstOf
<1>10. frames' = [SubSeq(frames, 1, c.f) EXCEPT ![c.f] = top]
  BY <1>6, <1>9
<1>11. IsSeq(scopes') /\ Len(scopes') = r
  <2>1. IsSeq(s) /\ Len(s) = c.rlim
    BY <1>1, <1>3, SetRlimitsIs
  <2> HIDE DEF s
  <2> QED
    BY <1>4, <1>5, <1>6, <2>1, SetRlimitsIs
<1> HIDE DEF top
<1> QED
  BY <1>7, <1>8, <1>10, <1>11 DEF r, c, b, n

\* The exception drops what is above the last context and keeps the
\* invariant: a guard goes on with the same error, anything else as if there
\* had been none, or with the error that a handler was called for.
LEMMA ThrowRight ==
  ASSUME IInv, Throw
  PROVE  IInv'
<1> DEFINE n == Len(contexts)
           c == contexts[n]
           b == blocks[Len(blocks)]
<1>1. /\ Stack(frames, contexts, blocks) /\ Numbers(frames, contexts, blocks)
      /\ n \in Nat /\ eFrame = c /\ Len(blocks) \in Nat
      /\ cframe = frames[Len(frames)] /\ planes = cframe.level
      /\ error \in ErrorType
  BY IInvParts DEF IInv
<1>2. /\ n \in 1 .. n /\ c.block = Len(blocks)
      /\ b = BlockOf(contexts, blocks, n) /\ b \in BlockType
      /\ LevelOf(frames, contexts, n) = cframe.level
      /\ b.kind # "guard" => atomicFrame = Null
      /\ b.kind = "guard" => n > 1 /\ NoHandler(contexts, n)
  BY ThrowParts DEF Throw
<1>3. PICK top \in FrameType :
        /\ top.level = cframe.level /\ top.rlim = Under(b) /\ top.atomic = c.atomic
        /\ frames' = [SubSeq(frames, 1, c.f) EXCEPT ![c.f] = top]
        /\ IsSeq(scopes') /\ Len(scopes') = Under(b)
  BY ThrowTop
<1>4. /\ contexts' = SubSeq(contexts, 1, n - 1) /\ mode = "throw"
      /\ atomicFrame' = atomicFrame /\ planes' = planes
  BY DEF Throw, Pop, Front
<1>5. CASE b.kind # "guard"
  <2>1. /\ mode' = b.then /\ error' = b.error
        /\ blocks' = SubSeq(blocks, 1, Len(blocks) - 1)
    BY <1>1, <1>2, <1>5 DEF Throw
  <2> HIDE DEF c, b, n
  <2>2. MayLeave(n, b, top)
    BY <1>2, <1>3, <1>5 DEF MayLeave, c, b, n
  <2>3. Left(n, b, top)
    BY <1>2, <1>3, <1>4, <1>5, <2>1 DEF Left, c
  <2> QED
    BY <2>2, <2>3, Popped
<1>6. CASE b.kind = "guard"
  <2> DEFINE q == n - 1
             p == contexts[q].block
             er == [error EXCEPT !.e = q]
             fs2 == [SubSeq(frames, 1, c.f) EXCEPT ![c.f] = top]
             cs2 == SubSeq(contexts, 1, q)
             bs2 == SubSeq(blocks, 1, p)
  <2>1. /\ mode' = IF atomicFrame \in {Null, contexts[q].addr} THEN "look" ELSE "throw"
        /\ error' = er /\ blocks' = bs2 /\ frames' = fs2 /\ contexts' = cs2
    BY <1>1, <1>2, <1>3, <1>4, <1>6 DEF Throw
  <2>2. q \in Nat /\ q \in 1 .. q /\ n = q + 1 /\ n > 1 /\ Len(contexts) = q + 1
    <3>1. n \in Nat /\ n > 1 /\ n = Len(contexts)
      BY <1>1, <1>2, <1>6
    <3> HIDE DEF n
    <3> QED
      BY <3>1
  <2>3. p \in Nat /\ p < c.block
    <3>1. q \in 1 .. Len(contexts) /\ n \in 1 .. Len(contexts) /\ q <= n /\ q # n
      <4> HIDE DEF n, q
      <4> QED
        BY <2>2
    <3>2. p < c.block
      BY <1>1, <3>1, ContextsOrdered
    <3> QED
      BY <1>1, <3>1, <3>2 DEF Numbers
  <2>4. PopTo(frames, contexts, blocks, n, p, top, fs2, cs2, bs2)
    <3>1. contexts[n - 1].block <= p
      BY <2>3
    <3>2. /\ fs2 = [SubSeq(frames, 1, contexts[n].f) EXCEPT ![contexts[n].f] = top]
          /\ cs2 = SubSeq(contexts, 1, n - 1) /\ bs2 = SubSeq(blocks, 1, p)
          /\ n = Len(contexts)
      OBVIOUS
    <3> HIDE DEF fs2, cs2, bs2, p, n
    <3> QED
      BY <1>2, <1>3, <2>3, <3>1, <3>2 DEF PopTo
  <2>5. Stack(fs2, cs2, bs2)
    <3>1. contexts[n - 1].block <= p
      BY <2>3
    <3>2. Under(b) = Under(BlockOf(contexts, blocks, n))
      BY <1>2
    <3> QED
      BY <1>1, <1>2, <1>3, <2>3, <3>1, <3>2, StackPop
  <2> HIDE DEF fs2, cs2, bs2, p
  <2>6. /\ Len(fs2) = c.f /\ fs2[Len(fs2)] = top
        /\ Len(cs2) = q
        /\ \A k \in 1 .. q :
             cs2[k] = contexts[k] /\ SameContext(frames, contexts, blocks, fs2, cs2, bs2, k)
        /\ Len(bs2) = p
    <3> HIDE DEF n
    <3> QED
      BY <1>1, <2>4, PopSame
  <2>7. er \in ErrorType /\ er.e = q
    BY <1>1, <2>2 DEF ErrorType
  <2>8. cs2 # <<>> /\ cs2[Len(cs2)].block = Len(bs2)
    <3>1. cs2[q].block = contexts[q].block
      BY <2>2, <2>6
    <3> QED
      BY <2>2, <2>6, <3>1, EmptySeq DEF p
  <2> HIDE DEF er
  <2>20. /\ Len(contexts') = q /\ frames'[Len(frames')].level = cframe.level
         /\ contexts' # <<>> /\ contexts'[Len(contexts')].block = Len(blocks')
    <3> HIDE DEF n, q
    <3> QED
      BY <1>3, <2>1, <2>6, <2>8
  <2>9. ASSUME atomicFrame = Null PROVE ModeRight'
    <3>1. Pending(frames, contexts, blocks, "throw", error, q + 1, cframe.level)
      BY <1>4, <2>2, <2>9, OtherParts
    <3>2. Pending(frames, contexts, blocks, "look", er, q, cframe.level)
      <4>1. NoHandler(contexts, q + 1) /\ er = [error EXCEPT !.e = q]
        BY <1>2, <1>6, <2>2 DEF er
      <4> HIDE DEF n, q
      <4> QED
        BY <1>1, <2>2, <3>1, <4>1, PendingBelow
    <3>3. Pending(fs2, cs2, bs2, "look", er, q, cframe.level)
      <4> HIDE DEF n, q
      <4> QED
        BY <2>2, <2>6, <2>7, <3>2, PendingStays
    <3>4. mode' = "look"
      BY <2>1, <2>9
    <3> HIDE DEF n, q
    <3> QED
      BY <1>4, <2>1, <2>20, <2>9, <3>3, <3>4 DEF ModeRight
  <2>10. ASSUME atomicFrame # Null PROVE ModeRight'
    <3>1. PICK d \in 1 .. n :
            /\ contexts[d].addr = atomicFrame
            /\ Pending(frames, contexts, blocks, "rollback", [error EXCEPT !.e = d],
                       n, cframe.level)
            /\ d # n
      BY <1>4, <2>10, DeferredParts
    <3> DEFINE ed == [error EXCEPT !.e = d]
    <3>2. ed \in ErrorType /\ ed.e = d
      BY SMTT(60), <1>1, <3>1 DEF ErrorType
    <3>3. [ed EXCEPT !.e = d] = ed /\ [er EXCEPT !.e = d] = ed
      BY <1>1 DEF er, ErrorType
    <3>4. d \in 1 .. q
      BY <2>2, <3>1
    <3>5. Pending(frames, contexts, blocks, "rollback", ed, q + 1, cframe.level)
      BY <2>2, <3>1
    <3> HIDE DEF ed
    <3>6. Pending(frames, contexts, blocks, "rollback", ed, q, cframe.level)
      <4>1. NoHandler(contexts, q + 1) /\ ed = [ed EXCEPT !.e = d]
        BY <1>2, <1>6, <2>2, <3>3
      <4> HIDE DEF n, q
      <4> QED
        BY <2>2, <3>2, <3>4, <3>5, <4>1, PendingBelow
    <3>7. Pending(fs2, cs2, bs2, "rollback", ed, q, cframe.level)
      <4> HIDE DEF n, q
      <4> QED
        BY <2>2, <2>6, <3>2, <3>6, PendingStays
    <3>8. contexts[q].addr = atomicFrame <=> d = q
      <4>1. CASE d = q
        BY <3>1, <4>1
      <4>2. CASE d # q
        <5>1. d \in 1 .. q - 1 /\ q \in 1 .. Len(contexts)
          <6> HIDE DEF n, q
          <6> QED
            BY <2>2, <3>4, <4>2
        <5> QED
          BY <1>1, <3>1, <4>2, <5>1 DEF Stack, ContextsUp
      <4> QED
        BY <4>1, <4>2
    <3>9. IF d = q THEN mode' = "look" ELSE mode' = "throw"
      BY <2>1, <2>10, <3>8
    <3>10. cs2[d].addr = atomicFrame
      BY <2>6, <3>1, <3>4
    <3> HIDE DEF n, q
    <3>11. Deferred'
      <4>1. d \in 1 .. Len(contexts') /\ contexts'[d].addr = atomicFrame'
        BY <1>4, <2>1, <2>20, <3>4, <3>10
      <4>2. Pending(frames', contexts', blocks', "rollback", [error' EXCEPT !.e = d],
                    Len(contexts'), frames'[Len(frames')].level)
        BY <2>1, <2>20, <3>3, <3>7
      <4>3. IF d = Len(contexts') THEN mode' = "look" /\ error'.e = d ELSE mode' = "throw"
        BY <2>1, <2>7, <2>20, <3>9
      <4> QED
        BY <4>1, <4>2, <4>3 DEF Deferred
    <3>12. mode' # "run"
      BY <3>9
    <3> QED
      BY <1>4, <2>20, <2>10, <3>11, <3>12 DEF ModeRight
  <2>11. ModeRight'
    BY <2>9, <2>10
  <2>12. error'.e <= Len(contexts') /\ mode' \in Modes
    BY <2>1, <2>2, <2>6, <2>7 DEF Modes
  <2>13. atomicFrame' \in Nat
    BY <1>4 DEF IInv
  <2> HIDE DEF n, q
  <2> QED
    BY <1>1, <1>3, <1>4, <2>1, <2>5, <2>6, <2>7, <2>11, <2>12, <2>13 DEF IInv
<1> QED
  BY <1>5, <1>6

\* The last block of code that runs, when it has an error context.
LEMMA LeavingParts ==
  ASSUME IInv, mode = "run", blocks # <<>>,
         blocks[Len(blocks)].kind \notin {"call", "rlimits"}
  PROVE  LET n == Len(contexts)
             b == blocks[Len(blocks)]
         IN  /\ n \in 1 .. n /\ contexts[n].block = Len(blocks)
             /\ b = BlockOf(contexts, blocks, n) /\ b \in BlockType
             /\ contexts[n].f = Len(frames) /\ b.rlim = cframe.rlim
             /\ contexts[n].atomic \in BOOLEAN
             /\ LevelOf(frames, contexts, n) = cframe.level
             /\ b.kind = "guard" => Fresh(contexts, n - 1)
             /\ b.kind = "catch" => b.atomic = contexts[n].atomic
             /\ b.kind = "task" => Len(blocks) = 1 /\ n = 1
             /\ ~Critical(b) => b.then = "run" /\ b.error = NoError
<1> DEFINE n == Len(contexts)
           b == blocks[Len(blocks)]
<1>1. /\ Stack(frames, contexts, blocks) /\ n \in Nat /\ Numbers(frames, contexts, blocks)
      /\ cframe = frames[Len(frames)] /\ blocks \in Seq(BlockType) /\ Len(blocks) \in Nat
  BY IInvParts
<1>2. /\ b.f = Len(frames) /\ b.rlim = cframe.rlim /\ Len(blocks) \in 1 .. Len(blocks)
      /\ Fresh(contexts, n)
  BY RunParts
<1>3. n \in 1 .. n /\ contexts[n].block = Len(blocks)
  BY <1>1, LastContext
<1>4. b = BlockOf(contexts, blocks, n) /\ b \in BlockType
  BY <1>1, <1>2, <1>3 DEF BlockOf
<1>5. contexts[n].f = b.f /\ (b.kind = "catch" => b.atomic = contexts[n].atomic)
  BY <1>1, <1>3, <1>4 DEF Stack, ContextsUp
<1>6. LevelOf(frames, contexts, n) = cframe.level
  BY <1>1, <1>2, <1>5 DEF LevelOf
<1>7. b.kind = "guard" => Fresh(contexts, n - 1)
  <2>1. contexts[n].handler \in HandlerOf(b)
    BY <1>1, <1>3, <1>4 DEF Stack, HandlersRight
  <2>2. b.kind = "guard" => NoHandler(contexts, n)
    BY <2>1 DEF HandlerOf, Critical, NoHandler
  <2>3. n - 1 \in Nat /\ (n - 1) + 1 = n
    BY <1>1, <1>3
  <2> HIDE DEF n
  <2>4. Fresh(contexts, (n - 1) + 1) /\ NoHandler(contexts, (n - 1) + 1) =>
          Fresh(contexts, n - 1)
    BY <2>3, FreshAbove
  <2> QED
    BY <1>2, <2>2, <2>3, <2>4
<1>8. /\ b.kind = "task" <=> Len(blocks) = 1
      /\ ~Critical(b) => b.then = "run"
      /\ b.then = "run" => b.error = NoError
  BY <1>1, <1>2 DEF Stack, BlocksNest
<1>9. Len(blocks) = 1 => n = 1
  <2> SUFFICES ASSUME Len(blocks) = 1, n # 1 PROVE FALSE
    OBVIOUS
  <2>1. 1 \in 1 .. Len(contexts) /\ n \in 1 .. Len(contexts) /\ 1 <= n
    BY <1>1, <1>3
  <2>2. contexts[1].block < contexts[n].block
    BY <1>1, <2>1, ContextsOrdered
  <2>3. contexts[1].block \in 1 .. Len(blocks)
    BY <1>1, <2>1 DEF Numbers
  <2> QED
    BY <1>3, <2>2, <2>3
<1>10. contexts[n].atomic \in BOOLEAN
  BY <1>1, <1>3 DEF Numbers
<1> QED
  BY <1>2, <1>3, <1>4, <1>5, <1>6, <1>7, <1>8, <1>9, <1>10

\* A block with an error context is left, for frame top.
LEMMA Leaves ==
  ASSUME IInv, mode = "run", blocks # <<>>,
         NEW b, b = blocks[Len(blocks)], b.kind \notin {"call", "rlimits"},
         NEW top \in FrameType, top.level = cframe.level, top.rlim = Under(b),
         Len(contexts) > 1 => top.atomic = eFrame.atomic,
         frames' = [frames EXCEPT ![Len(frames)] = top],
         contexts' = Front(contexts), blocks' = Front(blocks),
         IsSeq(scopes'), Len(scopes') = Under(b),
         mode' = b.then, error' = b.error, UNCHANGED <<atomicFrame, planes>>
  PROVE  IInv'
<1> DEFINE n == Len(contexts)
<1>1. /\ n \in 1 .. n /\ contexts[n].block = Len(blocks)
      /\ contexts[n].f = Len(frames)
      /\ LevelOf(frames, contexts, n) = cframe.level
      /\ b.kind = "guard" => Fresh(contexts, n - 1)
  BY LeavingParts
<1>2. /\ eFrame = contexts[n] /\ frames \in Seq(FrameType) /\ Len(frames) \in Nat
  BY IInvParts
<1>3. SubSeq(frames, 1, Len(frames)) = frames
  <2>1. Len(frames) \in 0 .. Len(frames)
    BY <1>2
  <2>2. /\ SubSeq(frames, 1, Len(frames)) \in Seq(FrameType)
        /\ Len(SubSeq(frames, 1, Len(frames))) = Len(frames)
        /\ \A i \in 1 .. Len(frames) : SubSeq(frames, 1, Len(frames))[i] = frames[i]
    BY <1>2, <2>1, FirstOf
  <2> QED
    BY <1>2, <2>2, SeqEqual
<1>4. MayLeave(n, b, top)
  BY <1>1, <1>2 DEF MayLeave
<1>5. atomicFrame = Null
  BY RunParts
<1>6. Left(n, b, top)
  BY <1>1, <1>3, <1>5 DEF Left, Front
<1> QED
  BY <1>4, <1>6, Popped

\* The end of a task keeps the invariant.
LEMMA EndTaskRight ==
  ASSUME IInv, EndTask
  PROVE  IInv'
<1> DEFINE b == blocks[Len(blocks)]
<1>1. mode = "run" /\ blocks # <<>> /\ b.kind = "task"
  BY DEF EndTask, Running, Last
<1>2. /\ b.rlim = cframe.rlim /\ Len(blocks) = 1 /\ Len(contexts) = 1
      /\ b.then = "run" /\ b.error = NoError
  BY <1>1, LeavingParts DEF Critical
<1>3. cframe \in FrameType /\ cframe.rlim = Len(scopes) /\ IsSeq(scopes)
      /\ blocks \in Seq(BlockType)
  BY IInvParts
<1>4. Under(b) = cframe.rlim
  BY <1>1, <1>2 DEF Under, Critical
<1>5. error = NoError
  BY <1>1, RunParts
<1>6. /\ frames' = [frames EXCEPT ![Len(frames)] = cframe]
      /\ contexts' = Front(contexts) /\ scopes' = scopes
      /\ mode' = b.then /\ error' = b.error /\ UNCHANGED <<atomicFrame, planes>>
  BY <1>1, <1>2, <1>5, SameFrame DEF EndTask, Pop
<1>7. blocks' = Front(blocks)
  <2>1. /\ SubSeq(blocks, 1, 0) \in Seq(BlockType) /\ Len(SubSeq(blocks, 1, 0)) = 0
    <3>1. 0 \in 0 .. Len(blocks)
      BY <1>2
    <3> QED
      BY <1>3, <3>1, FirstOf
  <2>2. SubSeq(blocks, 1, 0) = <<>>
    BY <2>1, EmptySeq
  <2> QED
    BY <1>2, <2>2 DEF EndTask, Front
<1>8. /\ IsSeq(scopes') /\ Len(scopes') = Under(b) /\ ~(Len(contexts) > 1)
      /\ cframe.level = cframe.level /\ cframe.rlim = Under(b) /\ cframe \in FrameType
  BY <1>2, <1>3, <1>4, <1>6
<1> HIDE DEF b
<1>9. b = blocks[Len(blocks)] /\ b.kind \notin {"call", "rlimits"}
  BY <1>1 DEF b
<1> QED
  BY <1>1, <1>6, <1>7, <1>8, <1>9, Leaves

\* The end of a catch keeps the invariant: the code after it is as atomic as
\* the code before.
LEMMA EndCatchRight ==
  ASSUME IInv, EndCatch
  PROVE  IInv'
<1> DEFINE b == blocks[Len(blocks)]
           top == [cframe EXCEPT !.atomic = b.atomic]
<1>1. mode = "run" /\ blocks # <<>> /\ b.kind = "catch"
  BY DEF EndCatch, Running, Last
<1>2. /\ b.rlim = cframe.rlim
      /\ b.then = "run" /\ b.error = NoError /\ b.atomic = contexts[Len(contexts)].atomic
      /\ contexts[Len(contexts)].atomic \in BOOLEAN
  BY <1>1, LeavingParts DEF Critical
<1>3. /\ cframe \in FrameType /\ cframe.rlim = Len(scopes) /\ IsSeq(scopes)
      /\ eFrame = contexts[Len(contexts)] /\ cframe = frames[Len(frames)]
  BY IInvParts
<1>4. Under(b) = cframe.rlim
  BY <1>1, <1>2 DEF Under, Critical
<1>5. error = NoError
  BY <1>1, RunParts
<1>6. /\ frames' = [frames EXCEPT ![Len(frames)] = top]
      /\ contexts' = Front(contexts) /\ scopes' = scopes /\ blocks' = Front(blocks)
      /\ mode' = b.then /\ error' = b.error /\ UNCHANGED <<atomicFrame, planes>>
  BY <1>1, <1>2, <1>3, <1>5 DEF EndCatch, Pop, Last
<1>7. /\ top \in FrameType /\ top.level = cframe.level /\ top.rlim = Under(b)
      /\ top.atomic = eFrame.atomic
  BY <1>2, <1>3, <1>4 DEF FrameType
<1> HIDE DEF b, top
<1> QED
  BY <1>1, <1>3, <1>4, <1>6, <1>7, Leaves DEF b

\* The end of a block without handler keeps the invariant.
LEMMA EndGuardRight ==
  ASSUME IInv, EndGuard
  PROVE  IInv'
<1> DEFINE b == blocks[Len(blocks)]
           top == [cframe EXCEPT !.atomic = eFrame.atomic]
<1>1. mode = "run" /\ blocks # <<>> /\ b.kind = "guard"
  BY DEF EndGuard, Running, Last
<1>2. /\ b.rlim = cframe.rlim
      /\ b.then = "run" /\ b.error = NoError
      /\ contexts[Len(contexts)].atomic \in BOOLEAN
  BY <1>1, LeavingParts DEF Critical
<1>3. /\ cframe \in FrameType /\ cframe.rlim = Len(scopes) /\ IsSeq(scopes)
      /\ eFrame = contexts[Len(contexts)] /\ cframe = frames[Len(frames)]
  BY IInvParts
<1>4. Under(b) = cframe.rlim
  BY <1>1, <1>2 DEF Under, Critical
<1>5. error = NoError
  BY <1>1, RunParts
<1>6. /\ frames' = [frames EXCEPT ![Len(frames)] = top]
      /\ contexts' = Front(contexts) /\ scopes' = scopes /\ blocks' = Front(blocks)
      /\ mode' = b.then /\ error' = b.error /\ UNCHANGED <<atomicFrame, planes>>
  BY <1>1, <1>2, <1>3, <1>5 DEF EndGuard, Pop
<1>7. /\ top \in FrameType /\ top.level = cframe.level /\ top.rlim = Under(b)
      /\ top.atomic = eFrame.atomic
  BY <1>2, <1>3, <1>4 DEF FrameType
<1> HIDE DEF b, top
<1> QED
  BY <1>1, <1>3, <1>4, <1>6, <1>7, Leaves DEF b

\* The end of a call of the driver object keeps the invariant: what goes on
\* is the code, or the error, that it was called for.
LEMMA EndCriticalRight ==
  ASSUME IInv, EndCritical
  PROVE  IInv'
<1> DEFINE b == blocks[Len(blocks)]
           r == cframe.rlim - 1
           t == [cframe EXCEPT !.atomic = eFrame.atomic]
           top == [t EXCEPT !.rlim = r]
<1>1. mode = "run" /\ blocks # <<>> /\ b.kind = "called"
  BY DEF EndCritical, Running, Last
<1>2. /\ b.rlim = cframe.rlim /\ b = BlockOf(contexts, blocks, Len(contexts))
      /\ contexts[Len(contexts)].atomic \in BOOLEAN
  BY <1>1, LeavingParts
<1>3. /\ cframe \in FrameType /\ cframe.rlim = Len(scopes) /\ IsSeq(scopes)
      /\ eFrame = contexts[Len(contexts)] /\ cframe = frames[Len(frames)]
      /\ Stack(frames, contexts, blocks) /\ Numbers(frames, contexts, blocks)
      /\ Len(blocks) \in 1 .. Len(blocks) /\ Len(scopes) \in Nat
  BY <1>1, IInvParts, RunParts
<1>4. Under(b) = r
  BY <1>1, <1>2 DEF Under, Critical
<1>5. r \in Nat /\ r >= 1
  BY <1>3, <1>4 DEF Numbers, Stack, BlocksUp
<1>6. /\ t \in FrameType /\ t.level = cframe.level /\ t.rlim = cframe.rlim
      /\ t.atomic = eFrame.atomic
  BY <1>2, <1>3 DEF FrameType
<1>7. frames' = [frames EXCEPT ![Len(frames)] = top]
  <2>1. frames' = [frames EXCEPT ![Len(frames)] =
                     [frames[Len(frames)] EXCEPT !.atomic = eFrame.atomic,
                                                 !.rlim = cframe.rlim - 1]]
    BY DEF EndCritical
  <2>2. [cframe EXCEPT !.atomic = eFrame.atomic, !.rlim = r] = top
    OBVIOUS
  <2> HIDE DEF top
  <2> QED
    BY <1>3, <2>1, <2>2
<1>8. IsSeq(scopes') /\ Len(scopes') = r
  BY <1>5, SetRlimitsIs DEF EndCritical
<1>9. /\ contexts' = Front(contexts) /\ blocks' = Front(blocks)
      /\ mode' = b.then /\ error' = b.error /\ UNCHANGED <<atomicFrame, planes>>
  BY DEF EndCritical, Pop, Last
<1> HIDE DEF t, r, b
<1>10. /\ top \in FrameType /\ top.level = cframe.level /\ top.rlim = Under(b)
       /\ top.atomic = eFrame.atomic
  BY <1>4, <1>5, <1>6 DEF FrameType, Pos
<1> HIDE DEF top
<1> QED
  BY <1>1, <1>4, <1>7, <1>8, <1>9, <1>10, Leaves DEF b

\* Code goes on running, in the same contexts.
LEMMA RunsOn ==
  ASSUME IInv, mode = "run",
         Stack(frames', contexts, blocks'), Top(frames', blocks'),
         IsSeq(scopes'), frames'[Len(frames')].rlim = Len(scopes'),
         planes' = frames'[Len(frames')].level,
         UNCHANGED <<contexts, atomicFrame, mode, error>>
  PROVE  IInv'
<1>1. atomicFrame = Null /\ error = NoError /\ Fresh(contexts, Len(contexts))
  BY RunParts
<1>2. contexts' = contexts /\ atomicFrame' = atomicFrame /\ mode' = "run" /\ error' = error
  OBVIOUS
<1>3. ModeRight'
  BY <1>1, <1>2 DEF ModeRight
<1>4. mode' \in Modes /\ atomicFrame' \in Nat /\ error' \in ErrorType /\ error'.e <= Len(contexts')
  BY <1>2 DEF IInv
<1> QED
  BY <1>2, <1>3, <1>4 DEF IInv

\* Spending ticks keeps the invariant: it does not add or remove scopes.
LEMMA SpendRight ==
  ASSUME IInv, NEW t \in Costs, Spend(t)
  PROVE  IInv'
<1>1. mode = "run" /\ blocks # <<>>
  BY DEF Spend, InFunction, Running
<1>2. /\ Stack(frames, contexts, blocks) /\ IsSeq(scopes) /\ cframe.rlim = Len(scopes)
      /\ cframe = frames[Len(frames)] /\ planes = cframe.level
  BY IInvParts
<1>3. Top(frames, blocks)
  BY <1>1 DEF IInv, ModeRight
<1>4. scopes' = [scopes EXCEPT ![cframe.rlim] = Spent(scopes[cframe.rlim], t, cframe.level)]
  BY DEF Spend
<1>5. IsSeq(scopes') /\ Len(scopes') = Len(scopes)
  <2>1. PICK x : scopes' = [scopes EXCEPT ![cframe.rlim] = x]
    BY <1>4
  <2>2. /\ IsSeq([scopes EXCEPT ![cframe.rlim] = x])
        /\ Len([scopes EXCEPT ![cframe.rlim] = x]) = Len(scopes)
    BY <1>2, ExceptIs
  <2> QED
    BY <2>1, <2>2
<1>6. /\ frames' = frames /\ blocks' = blocks /\ planes' = planes
      /\ UNCHANGED <<contexts, atomicFrame, mode, error>>
  BY DEF Spend
<1> QED
  BY <1>1, <1>2, <1>3, <1>5, <1>6, RunsOn

\* A block with frame top, number m, is entered above the last one.
MayAdd(b, top, fs2) ==
  /\ mode = "run" /\ blocks # <<>>
  /\ fs2 \in Seq(FrameType) /\ b \in BlockType /\ top \in FrameType
  /\ b.kind \in {"call", "rlimits"} /\ b.then = "run" /\ b.error = NoError
  /\ b.f = IF b.kind = "call" THEN Len(frames) + 1 ELSE Len(frames)
  /\ Under(b) = cframe.rlim /\ top.rlim = b.rlim
  /\ Len(fs2) = b.f /\ fs2[b.f] = top /\ \A i \in 1 .. b.f - 1 : fs2[i] = frames[i]
  /\ IF b.kind = "call" /\ b.plane
     THEN /\ top.level = cframe.level + 1
          /\ top.atomic /\ ~cframe.atomic
     ELSE top.level = cframe.level /\ top.atomic = cframe.atomic

\* Entering a block that has no error context keeps the invariant.
LEMMA Adds ==
  ASSUME IInv, NEW b, NEW top, MayAdd(b, top, frames'), blocks' = Append(blocks, b),
         IsSeq(scopes'), Len(scopes') = b.rlim, planes' = top.level,
         UNCHANGED <<contexts, atomicFrame, mode, error>>
  PROVE  IInv'
<1> USE DEF MayAdd
<1>1. /\ Stack(frames, contexts, blocks) /\ cframe = frames[Len(frames)]
      /\ blocks \in Seq(BlockType) /\ Len(blocks) \in Nat
  BY IInvParts
<1>2. Top(frames, blocks)
  BY DEF IInv, ModeRight
<1>3. Stack(frames', contexts, Append(blocks, b))
  BY <1>1, <1>2, StackEnter
<1>4. /\ Len(Append(blocks, b)) = Len(blocks) + 1 /\ Append(blocks, b)[Len(blocks) + 1] = b
      /\ Append(blocks, b) # <<>>
  <2>1. /\ Append(blocks, b) \in Seq(BlockType) /\ Len(Append(blocks, b)) = Len(blocks) + 1
        /\ Append(blocks, b)[Len(blocks) + 1] = b
    BY <1>1
  <2> QED
    BY <1>1, <2>1, EmptySeq
<1>5. Top(frames', Append(blocks, b))
  BY <1>4 DEF Top
<1>6. frames'[Len(frames')] = top
  OBVIOUS
<1> QED
  BY <1>3, <1>5, <1>6, RunsOn

\* A function call keeps the invariant: it makes a plane exactly if it is
\* atomic and called from code that is not.
LEMMA CallRight ==
  ASSUME IInv, NEW atomic \in BOOLEAN, Call(atomic)
  PROVE  IInv'
<1> DEFINE new == atomic /\ ~cframe.atomic
           l == IF new THEN cframe.level + 1 ELSE cframe.level
           top == [level |-> l, rlim |-> cframe.rlim, atomic |-> cframe.atomic \/ atomic]
           b == [Block("call") EXCEPT !.f = @ + 1, !.plane = new]
           b1 == [Block("call") EXCEPT !.f = Len(frames) + 1]
<1>1. mode = "run" /\ blocks # <<>>
  BY DEF Call, InCode, Running
<1>2. /\ frames \in Seq(FrameType) /\ Len(frames) \in Nat /\ cframe \in FrameType
      /\ cframe.level \in 0 .. MaxLevel /\ cframe.atomic \in BOOLEAN /\ cframe.level \in Nat
      /\ cframe.rlim = Len(scopes) /\ Len(scopes) \in Nat /\ Len(scopes) >= 1
      /\ IsSeq(scopes) /\ planes = cframe.level
  BY IInvParts
<1>3. new => cframe.level < MaxLevel
  BY DEF Call
<1>4. /\ l \in 0 .. MaxLevel /\ new \in BOOLEAN
  BY <1>2, <1>3
<1>5. /\ top \in FrameType /\ top.rlim = cframe.rlim /\ top.level = l
      /\ top.atomic = (cframe.atomic \/ atomic)
  <2> HIDE DEF l
  <2> QED
    BY <1>2, <1>4 DEF FrameType, Pos
<1>6. /\ b \in BlockType /\ b.kind = "call" /\ b.f = Len(frames) + 1 /\ b.rlim = cframe.rlim
      /\ b.plane = new /\ b.then = "run" /\ b.error = NoError
  <2>1. /\ Block("call") \in BlockType /\ Block("call").kind = "call"
        /\ Block("call").f = Len(frames) /\ Block("call").rlim = cframe.rlim
        /\ Block("call").then = "run" /\ Block("call").error = NoError
    BY BlockIs DEF Kinds
  <2>2. /\ b1 \in BlockType /\ b1.kind = "call" /\ b1.f = Len(frames) + 1
        /\ b1.rlim = cframe.rlim /\ b1.then = "run" /\ b1.error = NoError
    BY SMTT(60), <1>2, <2>1 DEF BlockType, Pos
  <2>3. b = [b1 EXCEPT !.plane = new]
    BY <2>1
  <2> HIDE DEF b, b1, new
  <2> QED
    BY <1>4, <2>2, <2>3 DEF BlockType
<1>7. /\ frames' = Append(frames, top) /\ blocks' = Append(blocks, b)
      /\ planes' = top.level /\ UNCHANGED <<contexts, atomicFrame, mode, error>>
  BY <1>2, <1>5 DEF Call, Enter
<1>8. IsSeq(scopes') /\ Len(scopes') = cframe.rlim
  <2>1. PICK x : scopes' = [scopes EXCEPT ![cframe.rlim] = x]
    BY DEF Call
  <2>2. /\ IsSeq([scopes EXCEPT ![cframe.rlim] = x])
        /\ Len([scopes EXCEPT ![cframe.rlim] = x]) = Len(scopes)
    BY <1>2, ExceptIs
  <2> QED
    BY <1>2, <2>1, <2>2
<1>9. Under(b) = cframe.rlim
  BY <1>6 DEF Under, Critical
<1>10. IF new THEN l = cframe.level + 1 /\ atomic /\ ~cframe.atomic
       ELSE l = cframe.level /\ (cframe.atomic \/ atomic) = cframe.atomic
  BY <1>2
<1> HIDE DEF top, b, b1, new, l
<1>11. /\ frames' \in Seq(FrameType) /\ Len(frames') = Len(frames) + 1
       /\ frames'[Len(frames) + 1] = top /\ \A i \in 1 .. Len(frames) : frames'[i] = frames[i]
  BY <1>2, <1>5, <1>7
<1>12. \A i \in 1 .. b.f - 1 : i \in 1 .. Len(frames)
  BY <1>2, <1>6
<1>13. IF b.plane THEN top.level = cframe.level + 1 /\ top.atomic /\ ~cframe.atomic
       ELSE top.level = cframe.level /\ top.atomic = cframe.atomic
  BY <1>5, <1>6, <1>10
<1>14. MayAdd(b, top, frames')
  BY <1>1, <1>5, <1>6, <1>9, <1>11, <1>12, <1>13 DEF MayAdd
<1> QED
  BY <1>6, <1>7, <1>8, <1>14, Adds

\* I_RLIMITS keeps the invariant.
LEMMA RlimitsRight ==
  ASSUME IInv, NEW t \in Limits, Rlimits(t)
  PROVE  IInv'
<1> DEFINE r == Len(scopes) + 1
           top == [cframe EXCEPT !.rlim = r]
           b == ScopeBlock("rlimits")
<1>1. mode = "run" /\ blocks # <<>>
  BY DEF Rlimits, InFunction, Running
<1>2. /\ frames \in Seq(FrameType) /\ Len(frames) \in Nat /\ Len(frames) \in 1 .. Len(frames)
      /\ cframe \in FrameType /\ cframe = frames[Len(frames)]
      /\ cframe.rlim = Len(scopes) /\ Len(scopes) \in Nat /\ Len(scopes) >= 1
      /\ IsSeq(scopes) /\ planes = cframe.level
  BY IInvParts
<1>3. /\ b \in BlockType /\ b.kind = "rlimits" /\ b.f = Len(frames) /\ b.rlim = r
      /\ b.then = "run" /\ b.error = NoError
  BY BlockIs DEF Kinds
<1>4. /\ top \in FrameType /\ top.rlim = r /\ top.level = cframe.level
      /\ top.atomic = cframe.atomic
  <2>1. r \in Pos
    BY <1>2 DEF Pos
  <2> QED
    BY <1>2, <2>1 DEF FrameType
<1>5. /\ frames' = [frames EXCEPT ![Len(frames)] = top] /\ blocks' = Append(blocks, b)
      /\ planes' = planes /\ UNCHANGED <<contexts, atomicFrame, mode, error>>
      /\ scopes' = NewRlimits(scopes, t, cframe.level)
  BY <1>2 DEF Rlimits, Enter
<1>6. IsSeq(scopes') /\ Len(scopes') = r
  BY <1>2, <1>5, NewRlimitsIs
<1>7. Under(b) = cframe.rlim
  BY <1>2, <1>3 DEF Under, Critical
<1> HIDE DEF top, b, r
<1>8. /\ frames' \in Seq(FrameType) /\ Len(frames') = Len(frames)
      /\ frames'[Len(frames)] = top /\ \A i \in 1 .. Len(frames) - 1 : frames'[i] = frames[i]
  BY <1>2, <1>4, <1>5
<1>9. MayAdd(b, top, frames')
  BY <1>1, <1>3, <1>4, <1>7, <1>8 DEF MayAdd
<1> QED
  BY <1>2, <1>3, <1>4, <1>5, <1>6, <1>9, Adds

\* The block below the last one, when there is no context for the last one.
LEMMA BelowParts ==
  ASSUME IInv, mode = "run", blocks # <<>>,
         blocks[Len(blocks)].kind \in {"call", "rlimits"}
  PROVE  LET p == Len(blocks) - 1
             b == blocks[Len(blocks)]
             a == blocks[p]
         IN  /\ p \in 1 .. p /\ p \in 1 .. Len(blocks) /\ b \in BlockType
             /\ b.f = Len(frames) /\ b.rlim = cframe.rlim
             /\ b.f = IF b.kind = "call" THEN a.f + 1 ELSE a.f
             /\ Under(b) = a.rlim /\ Under(b) \in Pos /\ a.f \in 1 .. Len(frames)
             /\ b.kind = "call" =>
                  /\ frames[a.f].rlim = a.rlim
                  /\ cframe.level = IF b.plane THEN frames[a.f].level + 1
                                    ELSE frames[a.f].level
             /\ \A i \in 1 .. p : blocks[i].f <= a.f /\ blocks[i].rlim <= Under(b)
             /\ \A j \in 1 .. b.f - 1 : frames[j].rlim <= Under(b)
             /\ \A k \in 1 .. Len(contexts) : contexts[k].block <= p
<1> DEFINE p == Len(blocks) - 1
           b == blocks[Len(blocks)]
           a == blocks[p]
<1>1. /\ Stack(frames, contexts, blocks) /\ Numbers(frames, contexts, blocks)
      /\ cframe = frames[Len(frames)] /\ blocks \in Seq(BlockType) /\ Len(blocks) \in Nat
      /\ Len(frames) \in Nat
  BY IInvParts
<1>2. b.f = Len(frames) /\ b.rlim = cframe.rlim /\ Len(blocks) \in 1 .. Len(blocks)
  BY RunParts
<1>3. /\ b.kind = "task" <=> Len(blocks) = 1
      /\ ~Critical(b) => b.then = "run"
      /\ Len(blocks) > 1 /\ b.then = "run" =>
           /\ b.f = IF b.kind = "call" THEN a.f + 1 ELSE a.f
           /\ Under(b) = a.rlim
      /\ b.kind = "call" =>
           /\ frames[a.f].rlim = a.rlim
           /\ frames[b.f].level = IF b.plane THEN frames[a.f].level + 1
                                  ELSE frames[a.f].level
  BY <1>1, <1>2 DEF Stack, BlocksNest
<1>4. p \in 1 .. p /\ p \in 1 .. Len(blocks) /\ Len(blocks) > 1
  <2>1. Len(blocks) # 1 /\ Len(blocks) \in Nat /\ Len(blocks) \in 1 .. Len(blocks)
    BY <1>1, <1>2, <1>3
  <2>2. \A x \in Nat : x # 1 /\ x \in 1 .. x => x - 1 \in 1 .. x - 1 /\ x - 1 \in 1 .. x /\ x > 1
    OBVIOUS
  <2> QED
    BY <2>1, <2>2
<1>5. b.then = "run"
  BY <1>3 DEF Critical
<1>6. Under(b) \in Pos /\ b \in BlockType
  BY <1>1, <1>2 DEF Numbers, Stack, BlocksUp, Pos
<1>7. a.f \in 1 .. Len(frames)
  BY <1>1, <1>4 DEF Numbers
<1>8. ASSUME NEW i \in 1 .. p
      PROVE  blocks[i].f <= a.f /\ blocks[i].rlim <= Under(b)
  <2>1. i \in 1 .. Len(blocks) - 1 /\ i \in 1 .. Len(blocks)
    BY <1>1
  <2>2. blocks[i].rlim <= Under(b)
    BY <1>1, <1>2, <2>1 DEF Stack, BlocksUp
  <2>3. CASE i = p
    BY <1>7, <2>2, <2>3
  <2>4. CASE i # p
    <3>1. i \in 1 .. p - 1
      BY <1>1, <2>4
    <3> QED
      BY <1>1, <1>4, <2>2, <3>1 DEF Stack, BlocksUp
  <2> QED
    BY <2>3, <2>4
<1>9. \A j \in 1 .. b.f - 1 : frames[j].rlim <= Under(b)
  BY <1>1, <1>2 DEF Stack, BlocksUp
<1>10. ASSUME NEW k \in 1 .. Len(contexts)
       PROVE  contexts[k].block <= p
  <2>1. contexts[k].block \in 1 .. Len(blocks)
    BY <1>1 DEF Numbers
  <2>2. contexts[k].block # Len(blocks)
    BY <1>1 DEF Stack, ContextsUp, BlockOf
  <2> QED
    BY <1>1, <2>1, <2>2
<1> QED
  BY <1>1, <1>2, <1>3, <1>4, <1>5, <1>6, <1>7, <1>8, <1>9, <1>10

\* The return of a function keeps the invariant: it commits the plane it has
\* made, if it has made one.
LEMMA ReturnRight ==
  ASSUME IInv, Return
  PROVE  IInv'
<1> DEFINE L == Len(frames)
           m == L - 1
           n == Len(contexts)
           p == Len(blocks) - 1
           b == blocks[Len(blocks)]
           a == blocks[p]
           fs2 == SubSeq(frames, 1, m)
           g == SubSeq(blocks, 1, p)
           bs2 == IF g[p].kind = "critical" THEN [g EXCEPT ![p].kind = "called"] ELSE g
<1>1. mode = "run" /\ blocks # <<>> /\ b.kind = "call"
  BY DEF Return, Running, Last
<1>2. /\ Stack(frames, contexts, blocks) /\ Numbers(frames, contexts, blocks)
      /\ cframe = frames[L] /\ planes = cframe.level
      /\ frames \in Seq(FrameType) /\ L \in Nat /\ contexts \in Seq(ContextType) /\ n \in Nat
      /\ blocks \in Seq(BlockType) /\ Len(blocks) \in Nat
      /\ cframe.rlim = Len(scopes) /\ IsSeq(scopes)
  BY IInvParts
<1>3. /\ p \in 1 .. p /\ p \in 1 .. Len(blocks) /\ b \in BlockType
      /\ b.rlim = cframe.rlim
      /\ L = a.f + 1 /\ Under(b) = a.rlim /\ a.f \in 1 .. L
      /\ frames[a.f].rlim = a.rlim
      /\ cframe.level = IF b.plane THEN frames[a.f].level + 1 ELSE frames[a.f].level
      /\ \A i \in 1 .. p : blocks[i].f <= a.f
      /\ \A k \in 1 .. n : contexts[k].block <= p
  BY <1>1, BelowParts
<1>4. m = a.f /\ m \in 1 .. L /\ m \in 1 .. m /\ m \in 0 .. Len(frames)
  <2> HIDE DEF a
  <2> QED
    BY SMTT(60), <1>2, <1>3
<1>5. /\ frames' = fs2 /\ blocks' = bs2
      /\ planes' = IF b.plane THEN planes - 1 ELSE planes
      /\ UNCHANGED <<contexts, atomicFrame, mode, error>>
  <2>1. Last(g) = g[p]
    <3>1. Len(g) = p
      <4>1. p \in 0 .. Len(blocks)
        BY <1>2, <1>3
      <4> QED
        BY <1>2, <4>1, FirstOf
    <3> QED
      BY <3>1 DEF Last
  <2>2. Front(blocks) = g /\ Front(frames) = fs2 /\ Last(blocks) = b
    BY DEF Front, Last
  <2>3. Len(g) = p
    <3>1. p \in 0 .. Len(blocks)
      BY <1>2, <1>3
    <3> QED
      BY <1>2, <3>1, FirstOf
  <2> HIDE DEF g, fs2, b, p
  <2> QED
    BY <2>1, <2>2, <2>3 DEF Return
<1>6. /\ fs2 \in Seq(FrameType) /\ Len(fs2) = m /\ \A i \in 1 .. m : fs2[i] = frames[i]
  <2> HIDE DEF m
  <2> QED
    BY <1>2, <1>4, FirstOf
<1>7. /\ bs2 \in Seq(BlockType) /\ Len(bs2) = p
      /\ \A i \in 1 .. p : LeftOf(bs2[i], blocks[i])
  <2>1. /\ g \in Seq(BlockType) /\ Len(g) = p /\ \A i \in 1 .. p : g[i] = blocks[i]
    <3>1. p \in 0 .. Len(blocks)
      BY <1>2, <1>3
    <3> HIDE DEF p
    <3> QED
      BY <1>2, <3>1, FirstOf
  <2> HIDE DEF g, p
  <2>2. CASE g[p].kind = "critical"
    <3> DEFINE d == [g[p] EXCEPT !.kind = "called"]
    <3>1. d \in BlockType
      <4>1. g[p] \in BlockType
        BY <1>3, <2>1
      <4> QED
        BY <4>1 DEF BlockType, Kinds
    <3>2. LeftOf(d, g[p])
      BY <2>2 DEF LeftOf, Critical
    <3>3. bs2 = [g EXCEPT ![p] = d]
      BY <2>2
    <3> HIDE DEF d, bs2
    <3>4. /\ [g EXCEPT ![p] = d] \in Seq(BlockType) /\ Len([g EXCEPT ![p] = d]) = p
          /\ \A i \in 1 .. p : [g EXCEPT ![p] = d][i] = IF i = p THEN d ELSE g[i]
      BY <1>3, <2>1, <3>1, ExceptSeq
    <3> QED
      BY <2>1, <3>2, <3>3, <3>4 DEF LeftOf
  <2>3. CASE g[p].kind # "critical"
    BY <2>1, <2>3 DEF LeftOf
  <2> QED
    BY <2>2, <2>3
<1>8. \E x : scopes' = [scopes EXCEPT ![cframe.rlim] = x] \/ scopes' = scopes
  <2>1. CASE b.plane
    BY <2>1 DEF Return, Last
  <2>2. CASE ~b.plane
    BY <2>2 DEF Return, Last
  <2> QED
    BY <2>1, <2>2
<1>9. IsSeq(scopes') /\ Len(scopes') = cframe.rlim
  <2>1. PICK x : scopes' = [scopes EXCEPT ![cframe.rlim] = x] \/ scopes' = scopes
    BY <1>8
  <2>2. /\ IsSeq([scopes EXCEPT ![cframe.rlim] = x])
        /\ Len([scopes EXCEPT ![cframe.rlim] = x]) = Len(scopes)
    BY <1>2, ExceptIs
  <2> QED
    BY <1>2, <2>1, <2>2
<1> HIDE DEF fs2, bs2, g
<1>10. Cut(frames, contexts, blocks, fs2, contexts, bs2, m, n, p)
  <2>1. ASSUME NEW i \in 1 .. m - 1
        PROVE  fs2[i] = frames[i] /\ frames[i].rlim <= fs2[m].rlim
    <3>1. i \in 1 .. m /\ i \in 1 .. L /\ i <= m
      BY <1>2, <1>4
    <3> QED
      BY <1>2, <1>4, <1>6, <3>1 DEF Stack, FramesUp
  <2>2. fs2[m].level = frames[m].level /\ fs2[m].rlim <= frames[m].rlim
    <3>1. fs2[m] = frames[m] /\ frames[m].rlim \in Nat
      BY <1>2, <1>4, <1>6 DEF Numbers
    <3> QED
      BY <3>1
  <2>3. ASSUME NEW i \in 1 .. p
        PROVE  blocks[i].f <= m /\ (blocks[i].f = m => blocks[i].rlim <= fs2[m].rlim)
    <3>1. i \in 1 .. Len(blocks)
      BY <1>2
    <3>2. blocks[i].rlim <= frames[blocks[i].f].rlim
      BY <1>2, <3>1 DEF Stack, BlocksUp
    <3> QED
      BY <1>3, <1>4, <1>6, <3>2
  <2>4. \A k \in 1 .. Len(contexts) : k <= n <=> contexts[k].block <= p
    <3>1. \A k \in 1 .. Len(contexts) : k <= n
      BY <1>2
    <3> QED
      BY <1>3, <3>1
  <2>5. n > 0 => \E k \in 1 .. n :
                   contexts[k].f <= m /\ Within(frames, contexts, fs2[m].level, fs2[m].atomic, k)
    <3>1. n > 0 => contexts # <<>>
      BY EmptySeq
    <3>2. fs2[m] = frames[m]
      BY <1>4, <1>6
    <3> QED
      BY <1>2, <1>4, <3>1, <3>2 DEF Stack, Handled
  <2>6. /\ n = Len(contexts) /\ n \in 0 .. Len(contexts) /\ p \in 0 .. Len(blocks)
        /\ \A k \in 1 .. n : contexts[k] = contexts[k]
    BY <1>2, <1>3
  <2>7. \A k \in n + 1 .. Len(contexts) : contexts[k].f >= m
    BY <1>2
  <2> HIDE DEF n, m, p, L
  <2> QED
    BY <1>2, <1>4, <1>6, <1>7, <2>1, <2>2, <2>3, <2>4, <2>5, <2>6, <2>7 DEF Cut, L
<1>11. Stack(fs2, contexts, bs2)
  BY <1>2, <1>10, StackCut
<1>12. fs2[Len(fs2)] = frames[m]
  BY <1>4, <1>6
<1>13. Top(fs2, bs2)
  <2>1. LeftOf(bs2[p], a) /\ a \in BlockType
    BY SMTT(60), <1>2, <1>3, <1>7
  <2>2. bs2[p].f = a.f /\ bs2[p].rlim = a.rlim
    BY <2>1, LeftOfIs
  <2>3. bs2 # <<>>
    BY <1>3, <1>7, EmptySeq
  <2> QED
    BY <1>3, <1>4, <1>6, <1>7, <1>12, <2>2, <2>3 DEF Top
<1>14. fs2[Len(fs2)].rlim = cframe.rlim
  <2>1. Under(b) = b.rlim
    BY <1>1 DEF Under, Critical
  <2> QED
    BY <1>3, <1>4, <1>12, <2>1
<1>15. planes' = fs2[Len(fs2)].level
  <2>1. frames[m].level \in Nat
    BY <1>2, <1>4 DEF Numbers
  <2>2. planes = IF b.plane THEN frames[m].level + 1 ELSE frames[m].level
    BY <1>2, <1>3, <1>4
  <2> HIDE DEF m, b
  <2> QED
    BY <1>5, <1>12, <2>1, <2>2
<1> QED
  BY <1>1, <1>5, <1>9, <1>11, <1>13, <1>14, <1>15, RunsOn

\* The end of rlimits keeps the invariant.
LEMMA EndRlimitsRight ==
  ASSUME IInv, EndRlimits
  PROVE  IInv'
<1> DEFINE m == Len(frames)
           n == Len(contexts)
           p == Len(blocks) - 1
           b == blocks[Len(blocks)]
           a == blocks[p]
           top == [cframe EXCEPT !.rlim = Under(b)]
           fs2 == [frames EXCEPT ![m] = top]
           bs2 == SubSeq(blocks, 1, p)
<1>1. mode = "run" /\ blocks # <<>> /\ b.kind = "rlimits"
  BY DEF EndRlimits, Running, Last
<1>2. /\ Stack(frames, contexts, blocks) /\ Numbers(frames, contexts, blocks)
      /\ cframe = frames[m] /\ planes = cframe.level /\ cframe \in FrameType
      /\ frames \in Seq(FrameType) /\ m \in Nat /\ m \in 1 .. m
      /\ contexts \in Seq(ContextType) /\ n \in Nat
      /\ blocks \in Seq(BlockType) /\ Len(blocks) \in Nat
      /\ cframe.rlim = Len(scopes) /\ Len(scopes) \in Nat
  BY IInvParts
<1>3. /\ p \in 1 .. p /\ p \in 1 .. Len(blocks)
      /\ b.rlim = cframe.rlim /\ b.f = m /\ m = a.f
      /\ Under(b) = a.rlim /\ Under(b) \in Pos
      /\ \A i \in 1 .. p : blocks[i].f <= a.f /\ blocks[i].rlim <= Under(b)
      /\ \A j \in 1 .. b.f - 1 : frames[j].rlim <= Under(b)
      /\ \A k \in 1 .. n : contexts[k].block <= p
  BY <1>1, BelowParts
<1>4. Under(b) = cframe.rlim - 1
  BY <1>1, <1>3 DEF Under
<1>5. /\ frames' = fs2 /\ blocks' = bs2 /\ planes' = planes
      /\ scopes' = SetRlimits(scopes, Under(b))
      /\ UNCHANGED <<contexts, atomicFrame, mode, error>>
  BY <1>2, <1>4 DEF EndRlimits, Front
<1>6. IsSeq(scopes') /\ Len(scopes') = Under(b)
  BY <1>3, <1>5, SetRlimitsIs DEF Pos
<1>7. /\ top \in FrameType /\ top.level = cframe.level /\ top.rlim = Under(b)
      /\ top.atomic = cframe.atomic
  <2> HIDE DEF b
  <2> QED
    BY <1>2, <1>3 DEF FrameType
<1> HIDE DEF top
<1>8. /\ fs2 \in Seq(FrameType) /\ Len(fs2) = m /\ fs2[m] = top
      /\ \A i \in 1 .. m - 1 : fs2[i] = frames[i]
  BY <1>2, <1>7
<1>9. /\ bs2 \in Seq(BlockType) /\ Len(bs2) = p /\ \A i \in 1 .. p : bs2[i] = blocks[i]
  <2>1. p \in 0 .. Len(blocks)
    BY <1>2, <1>3
  <2> HIDE DEF p
  <2> QED
    BY <1>2, <2>1, FirstOf
<1> HIDE DEF fs2, bs2
<1>10. Cut(frames, contexts, blocks, fs2, contexts, bs2, m, n, p)
  <2>1. \A i \in 1 .. m - 1 : frames[i].rlim <= fs2[m].rlim
    BY <1>3, <1>7, <1>8
  <2>2. fs2[m].level = frames[m].level /\ fs2[m].rlim <= frames[m].rlim
    <3>1. fs2[m].rlim = cframe.rlim - 1 /\ cframe.rlim \in Nat
      BY <1>2, <1>4, <1>7, <1>8
    <3> QED
      BY <1>2, <1>7, <1>8, <3>1
  <2>3. \A i \in 1 .. p : blocks[i].f <= m /\ (blocks[i].f = m => blocks[i].rlim <= fs2[m].rlim)
    BY <1>3, <1>7, <1>8
  <2>4. \A k \in 1 .. Len(contexts) : k <= n <=> contexts[k].block <= p
    <3>1. \A k \in 1 .. Len(contexts) : k <= n
      BY <1>2
    <3> QED
      BY <1>3, <3>1
  <2>5. n > 0 => \E k \in 1 .. n :
                   contexts[k].f <= m /\ Within(frames, contexts, fs2[m].level, fs2[m].atomic, k)
    <3>1. n > 0 => contexts # <<>>
      BY EmptySeq
    <3>2. fs2[m].level = frames[m].level /\ fs2[m].atomic = frames[m].atomic
      BY <1>2, <1>7, <1>8
    <3> QED
      BY <1>2, <3>1, <3>2 DEF Stack, Handled
  <2>6. /\ n = Len(contexts) /\ n \in 0 .. Len(contexts) /\ p \in 0 .. Len(blocks)
        /\ \A i \in 1 .. p : LeftOf(bs2[i], blocks[i])
    BY SMTT(60), <1>2, <1>3, <1>9 DEF LeftOf
  <2>7. \A k \in n + 1 .. Len(contexts) : contexts[k].f >= m
    BY <1>2
  <2>8. m = Len(fs2) /\ m \in 1 .. Len(frames)
    BY <1>2, <1>8
  <2> HIDE DEF n, m, p
  <2> QED
    BY <1>2, <1>8, <1>9, <2>1, <2>2, <2>3, <2>4, <2>5, <2>6, <2>7, <2>8 DEF Cut
<1>11. Stack(fs2, contexts, bs2)
  BY <1>2, <1>10, StackCut
<1>12. fs2[Len(fs2)] = top
  BY <1>8
<1>13. Top(fs2, bs2)
  <2>1. bs2[p] = a /\ bs2 # <<>>
    BY <1>3, <1>9, EmptySeq
  <2> QED
    BY <1>3, <1>7, <1>8, <1>9, <1>12, <2>1 DEF Top
<1> QED
  BY <1>1, <1>2, <1>5, <1>6, <1>7, <1>11, <1>12, <1>13, RunsOn

-----------------------------------------------------------------------------
(* The theorems.                                                             *)

\* The interpreter starts with the base frame, outside of any task.
LEMMA InitRight ==
  ASSUME Init
  PROVE  IInv
<1>1. /\ frames = <<BaseFrame>> /\ scopes = <<Unlimited>> /\ contexts = <<>>
      /\ atomicFrame = Null /\ planes = 0 /\ blocks = <<>> /\ mode = "run"
      /\ error = NoError
  BY DEF Init
<1>2. /\ BaseFrame \in FrameType /\ BaseFrame.level = 0 /\ BaseFrame.rlim = 1
  BY DEF BaseFrame, FrameType, Pos
<1>3. /\ frames \in Seq(FrameType) /\ Len(frames) = 1 /\ frames[1] = BaseFrame
      /\ frames # <<>>
  BY <1>1, <1>2
<1>4. /\ contexts \in Seq(ContextType) /\ Len(contexts) = 0
      /\ blocks \in Seq(BlockType) /\ Len(blocks) = 0
  BY <1>1
<1>5. \A i \in 1 .. 0 : FALSE
  OBVIOUS
<1>6. FramesUp(frames)
  BY <1>2, <1>3 DEF FramesUp
<1>7. BlocksUp(frames, blocks) /\ BlocksNest(frames, blocks)
  BY <1>4, <1>5 DEF BlocksUp, BlocksNest
<1>8. ContextsUp(contexts, blocks) /\ HandlersRight(contexts, blocks)
  BY <1>4, <1>5 DEF ContextsUp, HandlersRight
<1>9. Handled(frames, contexts) /\ Suspended(frames, contexts, blocks)
  BY <1>1, <1>4, <1>5 DEF Handled, Suspended
<1>10. Stack(frames, contexts, blocks)
  BY <1>3, <1>4, <1>6, <1>7, <1>8, <1>9 DEF Stack, StackType
<1>11. IsSeq(scopes) /\ Len(scopes) = 1
  <2>1. scopes \in Seq({Unlimited}) /\ Len(scopes) = 1
    BY <1>1
  <2> QED
    BY <2>1, IsSeqIs
<1>12. Fresh(contexts, Len(contexts))
  BY <1>4, <1>5 DEF Fresh
<1>13. ModeRight
  BY <1>1, <1>2, <1>3, <1>12 DEF ModeRight, Top
<1>14. mode \in Modes /\ atomicFrame \in Nat /\ error \in ErrorType /\ error.e <= Len(contexts)
  BY <1>1, <1>4 DEF Modes, Null, NoError, ErrorType
<1> QED
  BY <1>1, <1>2, <1>3, <1>10, <1>11, <1>13, <1>14 DEF IInv

\* Every step keeps the invariant, when remove_program() does not fail.
LEMMA NextRight ==
  ASSUME IInv, [Next]_vars, ~RemoveFails
  PROVE  IInv'
<1>1. CASE StartTask \/ EndTask
  BY <1>1, StartTaskRight, EndTaskRight
<1>2. CASE (\E atomic \in BOOLEAN : Call(atomic)) \/ Return
  BY <1>2, CallRight, ReturnRight
<1>3. CASE Catch \/ EndCatch
  BY <1>3, CatchRight, EndCatchRight
<1>4. CASE (\E t \in Limits : Rlimits(t)) \/ EndRlimits
  BY <1>4, RlimitsRight, EndRlimitsRight
<1>5. CASE Guard \/ EndGuard
  BY <1>5, GuardRight, EndGuardRight
<1>6. CASE \E c \in Costs : Spend(c)
  BY <1>6, SpendRight
<1>7. CASE RemoveProgram \/ EndCritical
  BY <1>7, RemoveProgramRight, EndCriticalRight
<1>8. CASE Error \/ AtomicError \/ Defer
  BY <1>8, ErrorRight, AtomicErrorRight, DeferRight
<1>9. CASE Restore \/ Handle
  BY <1>9, RestoreRight, HandleRight
<1>10. CASE PassOn \/ Throw
  BY <1>10, PassOnRight, ThrowRight
<1>11. CASE UNCHANGED vars
  <2>1. /\ frames' = frames /\ scopes' = scopes /\ contexts' = contexts
        /\ atomicFrame' = atomicFrame /\ planes' = planes /\ blocks' = blocks
        /\ mode' = mode /\ error' = error
    BY <1>11 DEF vars
  <2>2. Deferred' <=> Deferred
    BY <2>1 DEF Deferred
  <2>3. ModeRight' <=> ModeRight
    BY <2>1, <2>2 DEF ModeRight
  <2> QED
    BY <2>1, <2>3 DEF IInv
<1> QED
  BY <1>1, <1>2, <1>3, <1>4, <1>5, <1>6, <1>7, <1>8, <1>9, <1>10, <1>11 DEF Next, Code

\* Whatever functions are called, caught and fail, in whatever order, frames,
\* error contexts and blocks stay in step: planes and scopes belong to frames
\* that exist, no atomic function is entered twice without a handler in
\* between, and an error for which a handler runs waits below that handler.
\* remove_program() in the driver object is taken not to fail: the context that
\* callCritical() pushes for it starts a rollback and never ends it.
THEOREM Inductive ==
  ASSUME ~RemoveFails
  PROVE  Spec => []IInv
<1>1. Init => IInv
  BY InitRight
<1>2. IInv /\ [Next]_vars => IInv'
  BY NextRight
<1> QED
  BY <1>1, <1>2, PTL DEF Spec

\* The invariant says that planes, scopes and contexts are right.
LEMMA IInvFramesRight ==
  ASSUME IInv
  PROVE  FramesRight
<1>1. /\ Stack(frames, contexts, blocks) /\ Numbers(frames, contexts, blocks)
      /\ frames \in Seq(FrameType) /\ Len(frames) \in Nat /\ Len(frames) \in 1 .. Len(frames)
      /\ contexts \in Seq(ContextType) /\ Len(contexts) \in Nat
      /\ blocks \in Seq(BlockType) /\ Len(blocks) \in Nat
      /\ cframe = frames[Len(frames)] /\ cframe.level \in 0 .. MaxLevel
      /\ cframe.rlim = Len(scopes) /\ Len(scopes) \in Nat /\ IsSeq(scopes)
      /\ planes = cframe.level
  BY IInvParts
<1>2. /\ DOMAIN frames = 1 .. Len(frames) /\ DOMAIN contexts = 1 .. Len(contexts)
      /\ DOMAIN blocks = 1 .. Len(blocks) /\ DOMAIN scopes = 1 .. Len(scopes)
  BY <1>1 DEF IsSeq
<1>3. ASSUME NEW i \in DOMAIN frames
      PROVE  /\ frames[i].level \in 0 .. MaxLevel /\ frames[i].atomic \in BOOLEAN
             /\ frames[i].rlim \in DOMAIN scopes
  <2>1. frames[i] \in FrameType
    BY <1>1
  <2>2. i \in 1 .. Len(frames) /\ i <= Len(frames)
    BY <1>1, <1>2
  <2>3. frames[i].rlim <= Len(scopes)
    BY <1>1, <2>2 DEF Stack, FramesUp
  <2> QED
    BY <1>1, <1>2, <2>1, <2>3 DEF FrameType, Pos
<1>4. ASSUME NEW i \in DOMAIN contexts
      PROVE  /\ contexts[i].f \in DOMAIN frames /\ contexts[i].rlim \in DOMAIN scopes
             /\ contexts[i].block \in DOMAIN blocks
  <2>1. /\ contexts[i].f \in 1 .. Len(frames) /\ contexts[i].block \in 1 .. Len(blocks)
    BY <1>1, <1>2 DEF Numbers
  <2> DEFINE d == blocks[contexts[i].block]
  <2>2. contexts[i].f = d.f /\ contexts[i].rlim = d.rlim
    BY <1>1, <1>2 DEF Stack, ContextsUp, BlockOf
  <2>3. d.rlim <= frames[d.f].rlim
    BY <1>1, <2>1 DEF Stack, BlocksUp
  <2>4. frames[d.f].rlim \in 1 .. Len(scopes)
    BY <1>2, <1>3, <2>1, <2>2
  <2>5. contexts[i].rlim \in Nat /\ contexts[i].rlim >= 1
    <3>1. contexts[i] \in ContextType
      BY <1>1
    <3> QED
      BY <3>1 DEF ContextType, Pos
  <2>6. contexts[i].rlim \in 1 .. Len(scopes)
    <3> HIDE DEF d
    <3> QED
      BY <1>1, <2>2, <2>3, <2>4, <2>5
  <2> HIDE DEF d
  <2> QED
    BY <1>2, <2>1, <2>6
<1>5. \A i \in DOMAIN blocks : blocks[i].kind \in Kinds
  <2>1. \A i \in DOMAIN blocks : blocks[i] \in BlockType
    BY <1>1, <1>2
  <2> QED
    BY <2>1 DEF BlockType
<1>6. atomicFrame \in Nat /\ mode \in Modes /\ error.e \in 0 .. Len(contexts)
  BY <1>1 DEF IInv, ErrorType
<1> QED
  BY <1>1, <1>3, <1>4, <1>5, <1>6 DEF FramesRight, TypeOK, PlanesRight

\* The invariant says that a catch, or the main loop, has had the driver
\* object told once.
LEMMA IInvToldOnce ==
  ASSUME IInv
  PROVE  ToldOnce
<1> SUFFICES ASSUME mode = "throw", blocks[eFrame.block].kind \in {"catch", "task"}
             PROVE  error.told = 1 /\ error.undone = error.level - cframe.level
  BY DEF ToldOnce
<1> DEFINE n == Len(contexts)
           b == blocks[Len(blocks)]
<1>1. /\ Stack(frames, contexts, blocks) /\ n \in Nat /\ eFrame = contexts[n]
      /\ cframe.level \in Nat /\ error \in ErrorType
  BY IInvParts DEF IInv
<1>2. /\ n \in 1 .. n /\ contexts[n].block = Len(blocks) /\ b = BlockOf(contexts, blocks, n)
      /\ b.kind # "guard" => atomicFrame = Null
  BY ThrowParts
<1>3. b.kind \in {"catch", "task"}
  BY <1>1, <1>2
<1>4. Pending(frames, contexts, blocks, "throw", error, n, cframe.level)
  BY <1>2, <1>3, OtherParts
<1>5. contexts[n].handler # "none"
  <2>1. contexts[n].handler \in HandlerOf(b)
    BY <1>1, <1>2 DEF Stack, HandlersRight
  <2> QED
    BY <1>3, <2>1 DEF HandlerOf
<1>6. error.e = n
  <2>1. error.e \in 1 .. n /\ n \notin error.e + 1 .. n
    BY <1>4, <1>5 DEF Pending, Open, NoHandler
  <2> QED
    BY <1>1, <2>1
<1>7. contexts[n].handler = "dummyHandler"
  BY <1>4, <1>6 DEF Pending
<1>8. contexts[n].handler = IF error.told = 0 THEN "runtimeError" ELSE "dummyHandler"
  <2>1. Open(contexts, n + 1, n)
    BY <1>4, <1>6 DEF Pending
  <2> QED
    BY <1>2, <1>3, <1>4, <2>1 DEF Pending
<1>9. error.told \in {0, 1} /\ error.level \in Nat
  BY <1>1 DEF ErrorType
<1>10. error.undone = error.level - cframe.level + 0
  BY <1>4 DEF Pending
<1> QED
  BY <1>1, <1>7, <1>8, <1>9, <1>10

\* Code always runs with as many planes as it has levels: what an atomic
\* function did is rolled back exactly once, however many contexts the error
\* has to pass and whatever handlers do (error(), Frame::restore()); and every
\* frame and context has limits and a block that still exist.  For any nesting
\* of calls, catches, rlimits, guards and handlers, any costs and any limits,
\* as long as remove_program() in the driver object does not fail.
THEOREM FramesCorrect ==
  ASSUME ~RemoveFails
  PROVE  Spec => []FramesRight
BY Inductive, IInvFramesRight, PTL

\* When an error reaches a catch or the main loop, the driver object has been
\* told of it once (runtime_error()) and of each rollback once
\* (atomic_error()), whatever errors there were in these handlers.  Again
\* remove_program() in the driver object is taken not to fail.
THEOREM ErrorsToldOnce ==
  ASSUME ~RemoveFails
  PROVE  Spec => []ToldOnce
BY Inductive, IInvToldOnce, PTL

-----------------------------------------------------------------------------
(* Ticks: what a scope has left, in units of the level of its code.          *)

ScopeType == [noticks : BOOLEAN, ticks : Int, due : Int, level : Nat]

\* A scope has in ticks at level l what is due to it.
Kept(r, l) == ~r.noticks => r.ticks * Unit(l) = r.due

\* Scope i + 1 was made in the first frame that is in it or above it.
Maker(fs, f, i) == fs[f].rlim > i /\ \A g \in 1 .. f - 1 : fs[g].rlim <= i

\* The inductive invariant about ticks, with frames fs and scopes ss.
Ticks(fs, ss) ==
  /\ ss \in Seq(ScopeType)
  /\ \A i \in 1 .. Len(ss) - 1 : \A f \in 1 .. Len(fs) :
       Maker(fs, f, i) => ss[i].level = fs[f].level
  /\ \A i \in 1 .. Len(ss) - 1 : Kept(ss[i], ss[i].level)
  /\ Kept(ss[Len(ss)], fs[Len(fs)].level)

\* A set that has 0 and with n also n + 1 has all natural numbers.
LEMMA NatSet ==
  ASSUME NEW S, 0 \in S, \A n \in S : n \in Nat => n + 1 \in S
  PROVE  \A n \in Nat : n \in S
<1> USE DEF OpToRel
<1> SUFFICES ASSUME NEW m \in Nat, m \notin S  PROVE FALSE
  OBVIOUS
<1> DEFINE T == {n \in Nat : n \notin S}
<1>1. PICK x \in T : \A y \in T : ~ (<<y, x>> \in OpToRel(<, Nat))
  BY NatLessThanWellFounded, WFMin, Zenon
<1>2. \A y \in T : ~ (y < x)
  BY <1>1
<1>3. x \in Nat /\ x # 0
  OBVIOUS
<1>4. x - 1 \in Nat /\ x - 1 < x
  BY <1>3
<1>5. x - 1 \in S
  BY <1>2, <1>4
<1>6. (x - 1) + 1 = x
  BY <1>3
<1>7. x \in S
  BY <1>4, <1>5, <1>6
<1> QED
  BY <1>7

\* A tick at level 0 is one, and at each level twice that of the level below.
LEMMA UnitIs ==
  /\ Unit(0) = 1
  /\ \A l \in Nat : Unit(l) \in Nat /\ Unit(l) >= 1 /\ Unit(l + 1) = 2 * Unit(l)
<1> DEFINE Def(u, m) == u = [k \in 0 .. m |-> IF k = 0 THEN 1 ELSE 2 * u[k - 1]]
           U(m) == CHOOSE u : Def(u, m)
           S == {m \in Nat : \E u : Def(u, m)}
<1>1. 0 \in S
  <2> DEFINE u == [k \in 0 .. 0 |-> 1]
  <2>1. Def(u, 0)
    OBVIOUS
  <2> QED
    BY <2>1
<1>2. ASSUME NEW m \in S  PROVE m + 1 \in S
  <2>1. PICK u : Def(u, m)
    OBVIOUS
  <2> DEFINE v == [k \in 0 .. m + 1 |-> IF k = m + 1 THEN 2 * u[m] ELSE u[k]]
  <2>2. ASSUME NEW k \in 0 .. m + 1
        PROVE  v[k] = IF k = 0 THEN 1 ELSE 2 * v[k - 1]
    <3>1. CASE k = m + 1
      BY <3>1
    <3>2. CASE k # m + 1
      <4>1. k \in 0 .. m
        BY <3>2
      <4>2. u[k] = IF k = 0 THEN 1 ELSE 2 * u[k - 1]
        BY <2>1, <4>1
      <4>3. k # 0 => k - 1 \in 0 .. m + 1 /\ k - 1 # m + 1
        BY <4>1
      <4> QED
        BY <4>1, <4>2, <4>3, <3>2
    <3> QED
      BY <3>1, <3>2
  <2>3. Def(v, m + 1)
    BY <2>2, Zenon
  <2> m + 1 \in Nat
    OBVIOUS
  <2> HIDE DEF v
  <2> QED
    BY <2>3
<1>3. \A m \in Nat : m \in S
  <2> HIDE DEF S
  <2> QED
    BY <1>1, <1>2, NatSet
<1>4. ASSUME NEW m \in Nat  PROVE Def(U(m), m)
  BY <1>3
<1>5. ASSUME NEW m \in Nat  PROVE Unit(m) = U(m)[m]
  BY Zenon DEF Unit
<1> HIDE DEF U, S
<1>6. ASSUME NEW m \in Nat
      PROVE  \A k \in Nat : k <= m => U(m + 1)[k] = U(m)[k] /\ U(m)[k] \in Nat /\ U(m)[k] >= 1
  <2> DEFINE T == {k \in Nat : k <= m => U(m + 1)[k] = U(m)[k] /\ U(m)[k] \in Nat /\ U(m)[k] >= 1}
  <2>1. /\ \A k \in 0 .. m : U(m)[k] = IF k = 0 THEN 1 ELSE 2 * U(m)[k - 1]
        /\ \A k \in 0 .. m + 1 : U(m + 1)[k] = IF k = 0 THEN 1 ELSE 2 * U(m + 1)[k - 1]
    <3>1. Def(U(m), m) /\ Def(U(m + 1), m + 1)
      BY <1>4
    <3> QED
      BY <3>1
  <2>2. 0 \in T
    BY <2>1
  <2>3. ASSUME NEW k \in T, k \in Nat  PROVE k + 1 \in T
    BY <2>1, <2>3
  <2> HIDE DEF T
  <2>4. \A k \in Nat : k \in T
    BY <2>2, <2>3, NatSet
  <2> QED
    BY <2>4 DEF T
<1>7. Unit(0) = 1
  BY <1>4, <1>5
<1>8. ASSUME NEW l \in Nat
      PROVE  Unit(l) \in Nat /\ Unit(l) >= 1 /\ Unit(l + 1) = 2 * Unit(l)
  <2>1. U(l + 1)[l + 1] = 2 * U(l + 1)[l]
    <3>1. Def(U(l + 1), l + 1)
      BY <1>4
    <3> QED
      BY <3>1
  <2>2. U(l + 1)[l] = U(l)[l] /\ U(l)[l] \in Nat /\ U(l)[l] >= 1
    BY <1>6
  <2>3. Unit(l) = U(l)[l] /\ Unit(l + 1) = U(l + 1)[l + 1]
    BY <1>5
  <2> QED
    BY <2>1, <2>2, <2>3
<1> QED
  BY <1>7, <1>8

\* What is given back to a scope by those above it has the same unit.
LEMMA GivenBackIs ==
  ASSUME NEW s \in Seq(ScopeType), NEW n \in 1 .. Len(s), NEW l \in Nat,
         \A i \in n + 1 .. Len(s) : Kept(s[i], l)
  PROVE  /\ GivenBack(s, n).ticks \in Int /\ GivenBack(s, n).due \in Int
         /\ GivenBack(s, n).ticks * Unit(l) = GivenBack(s, n).due
<1> DEFINE N == Len(s)
           Z == [ticks |-> 0, due |-> 0]
           Body(g, i) == IF i = N \/ s[i + 1].noticks THEN Z
                         ELSE [ticks |-> s[i + 1].ticks + g[i + 1].ticks,
                               due |-> s[i + 1].due + g[i + 1].due]
           Def(g, k) == g = [i \in k .. N |-> Body(g, i)]
           S == {m \in Nat : \E g : Def(g, N - m)}
<1>1. N \in Nat /\ n \in Nat /\ n >= 1 /\ n <= N
  OBVIOUS
<1>2. 0 \in S
  <2> DEFINE g == [i \in N .. N |-> Z]
  <2>1. Def(g, N - 0)
    BY <1>1
  <2> QED
    BY <2>1
<1>3. ASSUME NEW m \in S  PROVE m + 1 \in S
  <2>1. PICK g : Def(g, N - m)
    OBVIOUS
  <2> DEFINE k == N - (m + 1)
             h == [i \in k .. N |-> IF i = k THEN Body(g, k) ELSE g[i]]
  <2>2. k \in Int /\ k + 1 = N - m /\ m + 1 \in Nat /\ k < N
    BY <1>1
  <2>3. ASSUME NEW i \in k .. N  PROVE h[i] = Body(h, i)
    <3>1. i < N => h[i + 1] = g[i + 1]
      BY <1>1, <2>2
    <3>2. Body(h, i) = Body(g, i)
      <4>1. CASE i = N
        BY <4>1
      <4>2. CASE i # N
        <5>1. i < N
          <6> HIDE DEF N, k, h
          <6> QED
            BY <1>1, <2>2, <4>2
        <5> HIDE DEF h
        <5> QED
          BY <3>1, <5>1
      <4> QED
        BY <4>1, <4>2
    <3>3. i # k => i \in N - m .. N
      <4> HIDE DEF N, k, h
      <4> QED
        BY <1>1, <2>2
    <3>4. h[i] = Body(g, i)
      <4>1. \A j \in N - m .. N : g[j] = Body(g, j)
        BY <2>1
      <4> HIDE DEF Body
      <4> QED
        BY <3>3, <4>1
    <3> QED
      BY <3>2, <3>4
  <2>4. Def(h, k)
    <3> HIDE DEF Body
    <3> QED
      BY <2>3, Zenon
  <2> HIDE DEF h
  <2> QED
    BY <2>2, <2>4
<1>4. \A m \in Nat : m \in S
  <2> HIDE DEF S
  <2> QED
    BY <1>2, <1>3, NatSet
<1> DEFINE g == CHOOSE g : Def(g, n)
<1>5. GivenBack(s, n) = g[n]
  BY Zenon DEF GivenBack
<1>6. Def(g, n)
  <2>1. N - n \in Nat /\ N - (N - n) = n
    BY <1>1
  <2>2. \E h : Def(h, n)
    BY <1>4, <2>1
  <2> QED
    BY <2>2
<1> HIDE DEF S, g
<1> DEFINE Good(r) == r.ticks \in Int /\ r.due \in Int /\ r.ticks * Unit(l) = r.due
           T == {m \in Nat : m <= N - n => Good(g[N - m])}
<1>7. \A i \in n .. N : g[i] = Body(g, i)
  BY <1>6
<1>8. Unit(l) \in Nat
  BY UnitIs
<1>9. 0 \in T
  <2>1. g[N] = Body(g, N)
    <3> HIDE DEF Body
    <3> QED
      BY <1>1, <1>7
  <2>2. Good(Z)
    BY <1>8
  <2>3. g[N] = Z /\ N - 0 = N
    BY <1>1, <2>1
  <2> QED
    BY <2>2, <2>3
<1>10. ASSUME NEW m \in T, m \in Nat  PROVE m + 1 \in T
  <2> SUFFICES ASSUME m + 1 <= N - n  PROVE Good(g[N - (m + 1)])
    OBVIOUS
  <2> DEFINE k == N - (m + 1)
  <2>1. /\ k \in n .. N /\ k + 1 = N - m /\ k # N /\ m <= N - n
        /\ k + 1 \in n + 1 .. N /\ k + 1 \in 1 .. N
    BY <1>1, <1>10
  <2>2. Good(g[k + 1])
    BY <2>1
  <2>3. g[k] = Body(g, k)
    BY <1>7, <2>1
  <2> HIDE DEF k
  <2>4. CASE s[k + 1].noticks
    <3>1. g[k] = Z
      BY <2>3, <2>4
    <3> QED
      BY <1>8, <3>1 DEF k
  <2>5. CASE ~s[k + 1].noticks
    <3> DEFINE a == s[k + 1]
               b == g[k + 1]
    <3>1. a \in ScopeType
      BY <2>1
    <3>2. a.ticks \in Int /\ a.due \in Int /\ a.ticks * Unit(l) = a.due
      BY <2>1, <2>5, <3>1 DEF Kept, ScopeType
    <3>3. g[k] = [ticks |-> a.ticks + b.ticks, due |-> a.due + b.due]
      BY <2>1, <2>3, <2>5
    <3> HIDE DEF a, b, g
    <3>4. /\ g[k].ticks = a.ticks + b.ticks /\ g[k].due = a.due + b.due
          /\ b.ticks \in Int /\ b.due \in Int /\ b.ticks * Unit(l) = b.due
      BY <2>2, <3>3 DEF b
    <3>5. (a.ticks + b.ticks) * Unit(l) = a.ticks * Unit(l) + b.ticks * Unit(l)
      BY <1>8, <3>2, <3>4
    <3> QED
      BY <3>2, <3>4, <3>5 DEF k
  <2> QED
    BY <2>4, <2>5
<1>11. \A m \in Nat : m \in T
  <2> HIDE DEF T
  <2> QED
    BY <1>9, <1>10, NatSet
<1>12. Good(g[n])
  <2>1. N - n \in Nat /\ N - (N - n) = n /\ N - n <= N - n
    BY <1>1
  <2> QED
    BY <1>11, <2>1
<1> QED
  BY <1>5, <1>12

\* The fields of a scope.
Fields(r) == r.noticks \in BOOLEAN /\ r.ticks \in Int /\ r.due \in Int /\ r.level \in Nat

WithTicks(r, a, b) == [r EXCEPT !.ticks = a, !.due = b]
WithLevel(r, l) == [r EXCEPT !.level = l]

\* A scope with other ticks and another amount that is due.
LEMMA OtherTicks ==
  ASSUME NEW r \in ScopeType, NEW a \in Int, NEW b \in Int
  PROVE  /\ WithTicks(r, a, b) \in ScopeType /\ WithTicks(r, a, b).noticks = r.noticks
         /\ WithTicks(r, a, b).ticks = a /\ WithTicks(r, a, b).due = b
<1> DEFINE t == [r EXCEPT !.ticks = a]
           x == WithTicks(r, a, b)
<1>1. t \in ScopeType /\ t.noticks = r.noticks /\ t.ticks = a
  BY DEF ScopeType
<1>2. x = [t EXCEPT !.due = b]
  BY DEF WithTicks
<1> HIDE DEF t, x
<1>3. x \in ScopeType /\ x.noticks = t.noticks /\ x.ticks = t.ticks /\ x.due = b
  BY <1>1, <1>2 DEF ScopeType
<1> QED
  BY <1>1, <1>3 DEF x

\* A scope with another level.
LEMMA OtherLevel ==
  ASSUME NEW r \in ScopeType, NEW l \in Nat
  PROVE  /\ WithLevel(r, l) \in ScopeType /\ WithLevel(r, l).noticks = r.noticks
         /\ WithLevel(r, l).ticks = r.ticks /\ WithLevel(r, l).due = r.due
         /\ WithLevel(r, l).level = l
BY DEF ScopeType, WithLevel

\* Half of the ticks of a scope, at the next level, are what is due but for the
\* odd tick.
LEMMA HalvedIs ==
  ASSUME NEW r \in ScopeType, NEW l \in Nat, Kept(r, l)
  PROVE  Halved(r, l) \in ScopeType /\ Kept(Halved(r, l), l + 1)
<1>1. r.noticks \in BOOLEAN /\ r.ticks \in Int /\ r.due \in Int /\ r.level \in Nat
  BY DEF ScopeType
<1>2. Unit(l) \in Nat /\ Unit(l + 1) = 2 * Unit(l)
  BY UnitIs
<1>3. CASE r.noticks
  BY <1>3 DEF Halved, Kept
<1>4. CASE ~r.noticks
  <2> DEFINE u == Unit(l)
             h == r.ticks \div 2
             o == r.ticks % 2
             x == [r EXCEPT !.ticks = h, !.due = r.due - o * u]
  <2>1. h \in Int /\ o \in Int /\ r.ticks = 2 * h + o
    BY <1>1
  <2>2. Halved(r, l) = x
    BY <1>4 DEF Halved
  <2>3. r.ticks * u = r.due
    BY <1>4 DEF Kept
  <2> HIDE DEF h, o, u
  <2>4. o * u \in Int /\ u \in Int
    BY <1>2, <2>1 DEF u
  <2> DEFINE d == r.due - o * u
  <2>5. x \in ScopeType /\ x.ticks = h /\ x.due = d
    <3>1. d \in Int
      BY <1>1, <2>4
    <3>2. x = WithTicks(r, h, d)
      BY DEF WithTicks
    <3> HIDE DEF x, d
    <3> QED
      BY <2>1, <3>1, <3>2, OtherTicks
  <2>6. h * (2 * u) = r.due - o * u
    <3>1. (2 * h + o) * u = h * (2 * u) + o * u
      BY <2>1, <2>4
    <3> DEFINE p == h * (2 * u)
               q == o * u
    <3>2. p \in Int /\ q \in Int
      BY <2>1, <2>4
    <3>3. r.due = p + q
      BY <2>1, <2>3, <3>1
    <3> HIDE DEF p, q
    <3>4. p = r.due - q
      BY <3>2, <3>3
    <3> QED
      BY <3>4 DEF p, q
  <2>7. Unit(l + 1) = 2 * u
    BY <1>2 DEF u
  <2> HIDE DEF x
  <2> QED
    BY <2>2, <2>5, <2>6, <2>7 DEF Kept
<1> QED
  BY <1>1, <1>3, <1>4

\* Twice the ticks of a scope, at the level below, are what is due.
LEMMA DoubledIs ==
  ASSUME NEW r \in ScopeType, NEW l \in Nat, Kept(r, l + 1)
  PROVE  Doubled(r) \in ScopeType /\ Kept(Doubled(r), l)
<1>1. r.noticks \in BOOLEAN /\ r.ticks \in Int /\ r.due \in Int /\ r.level \in Nat
  BY DEF ScopeType
<1>2. Unit(l) \in Nat /\ Unit(l + 1) = 2 * Unit(l)
  BY UnitIs
<1>3. CASE r.noticks
  BY <1>3 DEF Doubled, Kept
<1>4. CASE ~r.noticks
  <2> DEFINE t == r.ticks * 2
             x == [r EXCEPT !.ticks = t]
             u == Unit(l)
  <2>1. Doubled(r) = x /\ t \in Int
    BY <1>1, <1>4 DEF Doubled
  <2>2. r.ticks * (2 * u) = r.due
    BY <1>2, <1>4 DEF Kept
  <2> HIDE DEF u
  <2>3. t * u = r.due
    <3>1. u \in Int
      BY <1>2 DEF u
    <3> QED
      BY <1>1, <2>2, <3>1
  <2> HIDE DEF t
  <2>4. x \in ScopeType /\ x.ticks = t /\ x.due = r.due
    BY <1>1, <2>1 DEF ScopeType
  <2> HIDE DEF x
  <2> QED
    BY <2>1, <2>3, <2>4 DEF Kept, u
<1> QED
  BY <1>1, <1>3, <1>4

\* What is spent is no longer due.
LEMMA SpentIs ==
  ASSUME NEW r \in ScopeType, NEW t \in Int, NEW l \in Nat, Kept(r, l)
  PROVE  Spent(r, t, l) \in ScopeType /\ Kept(Spent(r, t, l), l)
<1>1. r.noticks \in BOOLEAN /\ r.ticks \in Int /\ r.due \in Int /\ r.level \in Nat
  BY DEF ScopeType
<1>3. CASE r.noticks
  BY <1>3 DEF Spent, Kept
<1>4. CASE ~r.noticks
  <2> DEFINE u == Unit(l)
             a == r.ticks - t
             d == r.due - t * u
             x == [r EXCEPT !.ticks = a, !.due = d]
  <2>1. Spent(r, t, l) = x /\ u \in Int
    BY <1>4, UnitIs DEF Spent
  <2>2. r.ticks * u = r.due
    BY <1>4 DEF Kept
  <2> HIDE DEF u
  <2>3. a * u = d /\ a \in Int /\ d \in Int
    <3>1. (r.ticks - t) * u = r.ticks * u - t * u /\ t * u \in Int
      BY <1>1, <2>1
    <3> QED
      BY <1>1, <2>2, <3>1
  <2> HIDE DEF a, d
  <2>4. x \in ScopeType /\ x.ticks = a /\ x.due = d
    BY <1>1, <2>3 DEF ScopeType
  <2> HIDE DEF x
  <2> QED
    BY <2>1, <2>3, <2>4 DEF Kept, u
<1> QED
  BY <1>1, <1>3, <1>4

\* Going back to scope n, the ticks of those above it are added up.
LEMMA SetRlimitsTicks ==
  ASSUME NEW s \in Seq(ScopeType), NEW n \in 1 .. Len(s) - 1, NEW l \in Nat,
         \A i \in n .. Len(s) : Kept(s[i], l)
  PROVE  /\ SetRlimits(s, n) \in Seq(ScopeType) /\ Len(SetRlimits(s, n)) = n
         /\ \A i \in 1 .. n - 1 : SetRlimits(s, n)[i] = s[i]
         /\ Kept(SetRlimits(s, n)[n], l)
<1> DEFINE N == Len(s)
           t == IF Last(s).ticks < 0
                THEN [s EXCEPT ![N].ticks = 0, ![N].due = 0] ELSE s
           g == GivenBack(t, n)
           back == [t[n] EXCEPT !.ticks = @ + g.ticks, !.due = @ + g.due]
           last == [back EXCEPT !.level = 0]
           f == SetRlimits(s, n)
           zero == [s[N] EXCEPT !.ticks = 0, !.due = 0]
<1>1. /\ N \in Nat /\ n \in 1 .. N /\ n < N /\ n \in Nat
      /\ N \in 1 .. N /\ n \in n .. N /\ N \in n .. N
  OBVIOUS
<1>2. s[N] \in ScopeType /\ Last(s) = s[N] /\ Fields(s[N])
  <2>1. s[N] \in ScopeType
    BY <1>1
  <2>2. Last(s) = s[N]
    BY DEF Last
  <2> QED
    BY <2>1, <2>2 DEF ScopeType, Fields
<1>3. /\ t \in Seq(ScopeType) /\ Len(t) = N
      /\ \A i \in 1 .. N - 1 : t[i] = s[i]
      /\ Kept(t[N], l)
  <2>1. CASE Last(s).ticks < 0
    <3>1. zero \in ScopeType /\ zero.ticks = 0 /\ zero.due = 0
      <4>1. 0 \in Int
        OBVIOUS
      <4>2. zero = WithTicks(s[N], 0, 0)
        BY DEF WithTicks
      <4> HIDE DEF zero, N
      <4> QED
        BY <1>2, <4>1, <4>2, OtherTicks
    <3>2. t = [s EXCEPT ![N] = zero]
      BY <2>1, <1>2
    <3>3. Kept(zero, l)
      BY <3>1, UnitIs DEF Kept
    <3> HIDE DEF zero, t, N
    <3>4. Kept(t[N], l) /\ \A i \in 1 .. N - 1 : t[i] = s[i]
      BY <1>1, <3>2, <3>3 DEF N
    <3>5. t \in Seq(ScopeType) /\ Len(t) = N
      BY <1>1, <3>1, <3>2 DEF N
    <3> QED
      BY <3>4, <3>5
  <2>2. CASE ~(Last(s).ticks < 0)
    <3>1. t = s
      BY <2>2
    <3> QED
      BY <1>1, <3>1
  <2> QED
    BY <2>1, <2>2
<1>4. \A i \in n .. N : Kept(t[i], l)
  <2> SUFFICES ASSUME NEW i \in n .. N  PROVE Kept(t[i], l)
    OBVIOUS
  <2>1. CASE i = N
    BY <1>3, <2>1
  <2>2. CASE i # N
    <3>1. i \in 1 .. N - 1
      BY <1>1, <2>2
    <3>2. t[i] = s[i] /\ Kept(s[i], l)
      BY <1>3, <3>1
    <3> HIDE DEF t
    <3> QED
      BY <3>2
  <2> QED
    BY <2>1, <2>2
<1>5. f = [i \in 1 .. n |-> IF i < n THEN t[i] ELSE IF t[n].noticks THEN Unlimited ELSE last]
  BY DEF SetRlimits
<1> HIDE DEF t, f, N
<1>6. g.ticks \in Int /\ g.due \in Int /\ g.ticks * Unit(l) = g.due
  <2>1. n \in 1 .. Len(t) /\ \A i \in n + 1 .. Len(t) : Kept(t[i], l)
    BY <1>1, <1>3, <1>4
  <2> QED
    BY <1>3, <2>1, GivenBackIs
<1> HIDE DEF g
<1>7. t[n] \in ScopeType /\ Fields(t[n])
  <2>1. t[n] \in ScopeType
    BY <1>1, <1>3
  <2> QED
    BY <2>1 DEF ScopeType, Fields
<1>8. /\ last \in ScopeType
      /\ ~t[n].noticks => Kept(last, l)
  <2> DEFINE r == t[n]
             x == r.ticks + g.ticks
             d == r.due + g.due
             u == Unit(l)
  <2>1. x \in Int /\ d \in Int /\ r \in ScopeType /\ Fields(r)
    BY <1>6, <1>7 DEF Fields
  <2>2. /\ back \in ScopeType /\ back.noticks = r.noticks
        /\ back.ticks = x /\ back.due = d
    <3>1. back = WithTicks(r, x, d)
      BY DEF WithTicks
    <3> HIDE DEF back, r, x, d
    <3> QED
      BY <2>1, <3>1, OtherTicks
  <2>3. ASSUME ~r.noticks  PROVE x * u = d
    <3>1. r.ticks * u = r.due /\ g.ticks * u = g.due /\ u \in Int
      <4>1. Kept(r, l)
        BY <1>1, <1>4
      <4> QED
        BY <1>6, <2>3, <4>1, UnitIs DEF Kept
    <3> HIDE DEF u, r
    <3>2. (r.ticks + g.ticks) * u = r.ticks * u + g.ticks * u
      BY <1>6, <2>1, <3>1 DEF Fields
    <3> QED
      BY <3>1, <3>2
  <2> HIDE DEF x, d, back
  <2>4. /\ last \in ScopeType /\ last.noticks = back.noticks
        /\ last.ticks = back.ticks /\ last.due = back.due
    <3>1. 0 \in Nat
      OBVIOUS
    <3>2. last = WithLevel(back, 0)
      BY DEF WithLevel
    <3> HIDE DEF last
    <3> QED
      BY <2>2, <3>1, <3>2, OtherLevel
  <2> HIDE DEF last, r
  <2>5. ~r.noticks => Kept(last, l)
    BY <2>2, <2>3, <2>4 DEF Kept
  <2> QED
    BY <2>4, <2>5 DEF r
<1> HIDE DEF last
<1>9. Unlimited \in ScopeType /\ Kept(Unlimited, l)
  BY DEF Unlimited, ScopeType, Kept
<1>10. \A i \in 1 .. n - 1 : t[i] = s[i]
  BY <1>1, <1>3
<1>11. \A i \in 1 .. n - 1 : f[i] = s[i]
  <2>1. \A i \in 1 .. n - 1 : i \in 1 .. n /\ i < n
    BY <1>1
  <2> QED
    BY <1>5, <1>10, <2>1
<1>12. f[n] = IF t[n].noticks THEN Unlimited ELSE last
  <2>1. n \in 1 .. n /\ ~(n < n)
    BY <1>1
  <2> QED
    BY <1>5, <2>1
<1>13. f[n] \in ScopeType /\ Kept(f[n], l)
  BY <1>8, <1>9, <1>12
<1>14. \A i \in 1 .. n : f[i] \in ScopeType
  <2> SUFFICES ASSUME NEW i \in 1 .. n  PROVE f[i] \in ScopeType
    OBVIOUS
  <2>1. CASE i = n
    BY <1>13, <2>1
  <2>2. CASE i # n
    <3>1. i \in 1 .. n - 1 /\ i \in 1 .. Len(s)
      BY <1>1, <2>2 DEF N
    <3> QED
      BY <1>11, <3>1
  <2> QED
    BY <2>1, <2>2
<1>15. f \in [1 .. n -> ScopeType]
  BY <1>5, <1>14
<1>16. f \in Seq(ScopeType) /\ Len(f) = n
  <2>1. f \in Seq(ScopeType)
    BY <1>1, <1>15, SeqDef
  <2>2. DOMAIN f = 1 .. n /\ DOMAIN f = 1 .. Len(f) /\ Len(f) \in Nat
    BY <1>15, <2>1, LenProperties
  <2> QED
    BY <1>1, <2>1, <2>2
<1> QED
  BY <1>11, <1>13, <1>16 DEF f

\* A new scope gets ticks from the one below.
LEMMA NewRlimitsTicks ==
  ASSUME NEW s \in Seq(ScopeType), Len(s) >= 1, NEW l \in Nat, Kept(s[Len(s)], l),
         NEW t \in Int
  PROVE  /\ NewRlimits(s, t, l) \in Seq(ScopeType)
         /\ Len(NewRlimits(s, t, l)) = Len(s) + 1
         /\ \A i \in 1 .. Len(s) - 1 : NewRlimits(s, t, l)[i] = s[i]
         /\ NewRlimits(s, t, l)[Len(s)].level = l
         /\ Kept(NewRlimits(s, t, l)[Len(s)], l)
         /\ Kept(NewRlimits(s, t, l)[Len(s) + 1], l)
<1> DEFINE n == Len(s)
           r == s[n]
           give == IF t = 0 THEN r.ticks ELSE t \div Unit(l)
           new == [noticks |-> FALSE, ticks |-> give, due |-> give * Unit(l), level |-> 0]
           a == [r EXCEPT !.level = l]
           b == [Spent(r, give, l) EXCEPT !.level = l]
           f == NewRlimits(s, t, l)
<1>1. n \in Nat /\ n \in 1 .. n /\ r \in ScopeType /\ Kept(r, l)
  OBVIOUS
<1>2. Unit(l) \in Nat /\ Unit(l) >= 1
  BY UnitIs
<1>3. give \in Int
  <2>1. r.ticks \in Int
    BY <1>1 DEF ScopeType
  <2> QED
    BY <1>2, <2>1
<1>4. a \in ScopeType /\ a.level = l /\ Kept(a, l)
  <2>1. a = WithLevel(r, l)
    BY DEF WithLevel
  <2> HIDE DEF a, r
  <2>2. /\ a \in ScopeType /\ a.level = l /\ a.noticks = r.noticks
        /\ a.ticks = r.ticks /\ a.due = r.due
    BY <1>1, <2>1, OtherLevel
  <2> QED
    BY <1>1, <2>2 DEF Kept
<1> HIDE DEF give
<1>5. b \in ScopeType /\ b.level = l /\ Kept(b, l)
  <2> DEFINE q == Spent(r, give, l)
  <2>1. q \in ScopeType /\ Kept(q, l)
    BY <1>1, <1>3, SpentIs
  <2> HIDE DEF q
  <2>2. b = WithLevel(q, l)
    BY DEF WithLevel, q
  <2> HIDE DEF b
  <2>3. /\ b \in ScopeType /\ b.level = l /\ b.noticks = q.noticks
        /\ b.ticks = q.ticks /\ b.due = q.due
    BY <2>1, <2>2, OtherLevel
  <2> QED
    BY <2>1, <2>3 DEF Kept
<1>6. new \in ScopeType /\ Kept(new, l)
  <2>1. give * Unit(l) \in Int
    BY <1>2, <1>3
  <2> QED
    BY <1>3, <2>1 DEF ScopeType, Kept
<1>7. Unlimited \in ScopeType /\ Kept(Unlimited, l)
  BY DEF Unlimited, ScopeType, Kept
<1>8. \/ f = Append([s EXCEPT ![n] = a], Unlimited)
      \/ f = Append([s EXCEPT ![n] = b], new)
  BY DEF NewRlimits, give
<1> HIDE DEF a, b, new, f
<1>9. PICK x \in ScopeType, y \in ScopeType :
        /\ f = Append([s EXCEPT ![n] = x], y)
        /\ x.level = l /\ Kept(x, l) /\ Kept(y, l)
  BY <1>4, <1>5, <1>6, <1>7, <1>8
<1> DEFINE e == [s EXCEPT ![n] = x]
<1>10. e \in Seq(ScopeType) /\ Len(e) = n /\ e[n] = x /\ \A i \in 1 .. n - 1 : e[i] = s[i]
  BY <1>1, <1>9
<1> HIDE DEF e, n
<1>11. f = Append(e, y)
  BY <1>9 DEF e
<1>12. /\ f \in Seq(ScopeType) /\ Len(f) = n + 1 /\ f[n + 1] = y
       /\ \A i \in 1 .. n : f[i] = e[i]
  BY <1>1, <1>10, <1>11
<1>13. f[n] = x /\ \A i \in 1 .. n - 1 : f[i] = s[i]
  <2>1. \A i \in 1 .. n - 1 : i \in 1 .. n
    BY <1>1
  <2> QED
    BY <1>1, <1>10, <1>12, <2>1
<1> QED
  BY <1>9, <1>12, <1>13 DEF f, n

\* Frames fs are a stack: each has a scope, those of the last one are the most.
FramesKnown(fs, n) ==
  /\ Len(fs) \in 1 .. Len(fs) /\ Len(fs) \in Nat
  /\ \A f \in 1 .. Len(fs) : fs[f].level \in Nat /\ fs[f].rlim \in 1 .. n
  /\ \A f, g \in 1 .. Len(fs) : f <= g => fs[f].rlim <= fs[g].rlim
  /\ fs[Len(fs)].rlim = n

\* The invariants say so of the frames that there are.
LEMMA TicksParts ==
  ASSUME IInv, Ticks(frames, scopes)
  PROVE  /\ FramesKnown(frames, Len(scopes)) /\ frames \in Seq(FrameType)
         /\ Len(scopes) \in Nat /\ Len(scopes) >= 1
         /\ scopes \in Seq(ScopeType) /\ scopes[Len(scopes)] \in ScopeType
         /\ cframe = frames[Len(frames)] /\ cframe.rlim = Len(scopes) /\ cframe.level \in Nat
         /\ Current = scopes[Len(scopes)] /\ Kept(scopes[Len(scopes)], cframe.level)
<1>1. /\ Stack(frames, contexts, blocks) /\ Numbers(frames, contexts, blocks)
      /\ frames \in Seq(FrameType) /\ Len(frames) \in Nat /\ Len(frames) \in 1 .. Len(frames)
      /\ cframe = frames[Len(frames)] /\ cframe.level \in Nat
      /\ cframe.rlim = Len(scopes) /\ Len(scopes) \in Nat /\ Len(scopes) >= 1
  BY IInvParts
<1>2. \A f, g \in 1 .. Len(frames) : f <= g => frames[f].rlim <= frames[g].rlim
  BY <1>1 DEF Stack, FramesUp
<1>3. ASSUME NEW f \in 1 .. Len(frames)
      PROVE  frames[f].level \in Nat /\ frames[f].rlim \in 1 .. Len(scopes)
  <2>1. frames[f].level \in Nat /\ frames[f].rlim \in Nat /\ frames[f].rlim >= 1
    BY <1>1 DEF Numbers
  <2>2. f <= Len(frames)
    OBVIOUS
  <2>3. frames[f].rlim <= Len(scopes)
    BY <1>1, <1>2, <2>2
  <2> QED
    BY <1>1, <2>1, <2>3
<1>4. FramesKnown(frames, Len(scopes))
  BY <1>1, <1>2, <1>3 DEF FramesKnown
<1>5. scopes \in Seq(ScopeType) /\ Kept(scopes[Len(scopes)], cframe.level)
  BY <1>1 DEF Ticks
<1>6. scopes[Len(scopes)] \in ScopeType /\ Current = scopes[Len(scopes)]
  BY <1>1, <1>5 DEF Current
<1> QED
  BY <1>1, <1>4, <1>5, <1>6

\* Frames and scopes are left, or the last ones are changed.
LEMMA TicksBelow ==
  ASSUME NEW fs, NEW ss, Ticks(fs, ss), NEW fs2, NEW ss2,
         FramesKnown(fs, Len(ss)), Len(ss) \in Nat,
         ss2 \in Seq(ScopeType), Len(ss2) \in 1 .. Len(ss),
         Len(fs2) \in 1 .. Len(fs),
         \A f \in 1 .. Len(fs2) : fs2[f].level = fs[f].level,
         \A f \in 1 .. Len(fs2) - 1 : fs2[f].rlim = fs[f].rlim,
         fs[Len(fs2)].rlim >= Len(ss2),
         \A i \in 1 .. Len(ss2) - 1 : ss2[i] = ss[i],
         Kept(ss2[Len(ss2)], fs2[Len(fs2)].level)
  PROVE  Ticks(fs2, ss2)
<1> DEFINE n == Len(ss2)
           m == Len(fs2)
<1>1. n \in Nat /\ m \in Nat /\ Len(fs) \in Nat
  BY DEF FramesKnown
<1>2. ASSUME NEW i \in 1 .. n - 1  PROVE i \in 1 .. Len(ss) - 1 /\ i \in Nat
  BY <1>1
<1>3. ASSUME NEW i \in 1 .. n - 1, NEW f \in 1 .. m, Maker(fs2, f, i)
      PROVE  ss2[i].level = fs2[f].level
  <2>1. \A g \in 1 .. f - 1 : g \in 1 .. m - 1 /\ fs[g].rlim <= i
    BY <1>1, <1>3 DEF Maker
  <2>2. fs[f].rlim > i
    <3>1. CASE f = m
      <4>1. fs[m].rlim \in Nat
        BY <1>1 DEF FramesKnown
      <4> QED
        BY <1>1, <3>1, <4>1
    <3>2. CASE f # m
      <4>1. f \in 1 .. m - 1
        BY <1>1, <3>2
      <4> QED
        BY <1>3, <4>1 DEF Maker
    <3> QED
      BY <3>1, <3>2
  <2>3. f \in 1 .. Len(fs) /\ Maker(fs, f, i)
    BY <1>1, <2>1, <2>2 DEF Maker
  <2>4. ss[i].level = fs[f].level
    BY <1>2, <2>3 DEF Ticks
  <2> QED
    BY <2>4
<1>4. ASSUME NEW i \in 1 .. n - 1  PROVE Kept(ss2[i], ss2[i].level)
  BY <1>2, <1>4 DEF Ticks
<1> QED
  BY <1>3, <1>4 DEF Ticks

\* Scope number Len(ss) + 1 is made in the last frame.
LEMMA TicksNewScope ==
  ASSUME NEW fs, NEW ss, Ticks(fs, ss), NEW fs2, NEW ss2,
         FramesKnown(fs, Len(ss)), Len(ss) \in Nat, Len(ss) >= 1,
         ss2 \in Seq(ScopeType), Len(ss2) = Len(ss) + 1,
         Len(fs2) = Len(fs), NEW l,
         \A f \in 1 .. Len(fs2) : fs2[f].level = fs[f].level,
         \A f \in 1 .. Len(fs2) - 1 : fs2[f].rlim = fs[f].rlim,
         l = fs[Len(fs)].level,
         \A i \in 1 .. Len(ss) - 1 : ss2[i] = ss[i],
         ss2[Len(ss)].level = l, Kept(ss2[Len(ss)], l),
         Kept(ss2[Len(ss) + 1], l)
  PROVE  Ticks(fs2, ss2)
<1> DEFINE n == Len(ss)
           m == Len(fs)
<1>1. n \in Nat /\ m \in Nat /\ m \in 1 .. m /\ fs[m].rlim = n
  BY DEF FramesKnown
<1>2. ASSUME NEW i \in 1 .. n, NEW f \in 1 .. m, Maker(fs2, f, i)
      PROVE  ss2[i].level = fs2[f].level
  <2>1. ASSUME NEW g \in 1 .. f - 1
        PROVE  g \in 1 .. m - 1 /\ g \in 1 .. m /\ fs[g].rlim <= i
    <3>1. fs2[g].rlim <= i
      BY <1>2 DEF Maker
    <3>2. g \in 1 .. m - 1 /\ g \in 1 .. m
      BY <1>1
    <3>3. fs2[g].rlim = fs[g].rlim
      BY <3>2
    <3> QED
      BY <3>1, <3>2, <3>3
  <2>2. CASE i = n
    <3>1. f # m => FALSE
      <4> SUFFICES ASSUME f # m  PROVE FALSE
        OBVIOUS
      <4>1. f \in 1 .. m - 1
        BY <1>1
      <4>2. fs[f].rlim > n
        BY <1>2, <2>2, <4>1 DEF Maker
      <4>3. fs[f].rlim \in 1 .. n
        BY DEF FramesKnown
      <4> QED
        BY <1>1, <4>2, <4>3
    <3> QED
      BY <1>1, <2>2, <3>1
  <2>3. CASE i # n
    <3>1. i \in 1 .. n - 1 /\ i < n
      BY <1>1, <2>3
    <3>2. fs[f].rlim > i
      <4>1. CASE f = m
        BY <1>1, <3>1, <4>1
      <4>2. CASE f # m
        <5>1. f \in 1 .. m - 1
          BY <1>1, <4>2
        <5> QED
          BY <1>2, <5>1 DEF Maker
      <4> QED
        BY <4>1, <4>2
    <3>3. Maker(fs, f, i)
      BY <2>1, <3>2 DEF Maker
    <3>4. ss[i].level = fs[f].level
      BY <3>1, <3>3 DEF Ticks
    <3> QED
      BY <3>1, <3>4
  <2> QED
    BY <2>2, <2>3
<1>3. ASSUME NEW i \in 1 .. n  PROVE Kept(ss2[i], ss2[i].level)
  <2>1. CASE i = n
    BY <2>1
  <2>2. CASE i # n
    <3>1. i \in 1 .. n - 1
      BY <1>1, <2>2
    <3> QED
      BY <3>1 DEF Ticks
  <2> QED
    BY <2>1, <2>2
<1>4. Len(ss2) - 1 = n /\ Kept(ss2[Len(ss2)], fs2[Len(fs2)].level)
  BY <1>1
<1> HIDE DEF n
<1> QED
  BY <1>2, <1>3, <1>4 DEF Ticks

\* A frame is added, with the scope of the one below.
LEMMA TicksNewFrame ==
  ASSUME NEW fs, NEW ss, Ticks(fs, ss), NEW fs2, NEW ss2,
         FramesKnown(fs, Len(ss)), Len(ss) \in Nat, Len(ss) >= 1,
         ss2 \in Seq(ScopeType), Len(ss2) = Len(ss),
         Len(fs2) = Len(fs) + 1,
         \A f \in 1 .. Len(fs) : fs2[f] = fs[f],
         \A i \in 1 .. Len(ss) - 1 : ss2[i] = ss[i],
         Kept(ss2[Len(ss)], fs2[Len(fs) + 1].level)
  PROVE  Ticks(fs2, ss2)
<1> DEFINE n == Len(ss)
           m == Len(fs)
<1>1. n \in Nat /\ m \in Nat /\ m \in 1 .. m /\ fs[m].rlim = n
  BY DEF FramesKnown
<1>2. ASSUME NEW i \in 1 .. n - 1, NEW f \in 1 .. m + 1, Maker(fs2, f, i)
      PROVE  ss2[i].level = fs2[f].level
  <2>1. f # m + 1
    <3> SUFFICES ASSUME f = m + 1  PROVE FALSE
      OBVIOUS
    <3>1. m \in 1 .. f - 1
      BY <1>1
    <3>2. fs2[m].rlim <= i
      BY <1>2, <3>1 DEF Maker
    <3> QED
      BY <1>1, <3>2
  <2>2. f \in 1 .. m /\ \A g \in 1 .. f - 1 : g \in 1 .. m
    BY <1>1, <2>1
  <2>3. Maker(fs, f, i)
    BY <1>2, <2>2 DEF Maker
  <2>4. ss[i].level = fs[f].level
    BY <2>2, <2>3 DEF Ticks
  <2> QED
    BY <2>2, <2>4
<1>3. ASSUME NEW i \in 1 .. n - 1  PROVE Kept(ss2[i], ss2[i].level)
  BY DEF Ticks
<1> QED
  BY <1>1, <1>2, <1>3 DEF Ticks

\* What does not change frames or scopes keeps the invariant.
LEMMA TicksSame ==
  ASSUME Ticks(frames, scopes), frames' = frames, scopes' = scopes
  PROVE  Ticks(frames', scopes')
OBVIOUS

\* Nor does it matter what else is in the last frame.
LEMMA TicksSameLevels ==
  ASSUME IInv, Ticks(frames, scopes), NEW x, frames' = [frames EXCEPT ![Len(frames)] = x],
         x.level = cframe.level, scopes' = scopes
  PROVE  Ticks(frames', scopes')
<1> DEFINE m == Len(frames)
<1>1. /\ FramesKnown(frames, Len(scopes)) /\ frames \in Seq(FrameType)
      /\ Len(scopes) \in Nat /\ Len(scopes) >= 1 /\ scopes \in Seq(ScopeType)
      /\ cframe = frames[m] /\ Kept(scopes[Len(scopes)], cframe.level)
  BY TicksParts
<1>2. m \in 1 .. m /\ m \in Nat /\ frames[m].rlim = Len(scopes)
  BY <1>1 DEF FramesKnown
<1>3. /\ Len(frames') = m /\ frames'[m].level = frames[m].level
      /\ \A f \in 1 .. m - 1 : frames'[f] = frames[f]
  BY <1>1, <1>2
<1>4. \A f \in 1 .. m : frames'[f].level = frames[f].level
  <2> SUFFICES ASSUME NEW f \in 1 .. m  PROVE frames'[f].level = frames[f].level
    OBVIOUS
  <2>1. CASE f = m
    BY <1>3, <2>1
  <2>2. CASE f # m
    <3>1. f \in 1 .. m - 1
      BY <1>2, <2>2
    <3> QED
      BY <1>3, <3>1
  <2> QED
    BY <2>1, <2>2
<1> HIDE DEF m
<1>5. m = Len(frames)
  BY DEF m
<1>6. Len(frames') \in 1 .. Len(frames)
  BY <1>2, <1>3, <1>5
<1>7. frames[Len(frames')].rlim >= Len(scopes)
  BY <1>1, <1>2, <1>3
<1>8. Len(scopes') \in 1 .. Len(scopes) /\ scopes' \in Seq(ScopeType)
  BY <1>1
<1>9. Kept(scopes'[Len(scopes')], frames'[Len(frames')].level)
  BY <1>1, <1>3
<1>10. \A f \in 1 .. Len(frames') : frames'[f].level = frames[f].level
  BY <1>3, <1>4
<1>11. \A f \in 1 .. Len(frames') - 1 : frames'[f].rlim = frames[f].rlim
  BY <1>3
<1>12. \A i \in 1 .. Len(scopes') - 1 : scopes'[i] = scopes[i]
  OBVIOUS
<1> QED
  BY <1>1, <1>6, <1>7, <1>8, <1>9, <1>10, <1>11, <1>12, TicksBelow

\* Scopes from number n on have their ticks at level l if the frames above that
\* scope are of level l.
LEMMA TicksFrom ==
  ASSUME NEW fs, NEW ss, Ticks(fs, ss), FramesKnown(fs, Len(ss)),
         NEW n \in 1 .. Len(ss), NEW l, fs[Len(fs)].level = l,
         \A f \in 1 .. Len(fs) : fs[f].rlim > n => fs[f].level = l
  PROVE  \A i \in n .. Len(ss) : Kept(ss[i], l)
<1>1. Len(ss) \in Nat /\ Len(fs) \in Nat /\ Len(fs) \in 1 .. Len(fs) /\ n \in Nat
  <2>1. ss \in Seq(ScopeType)
    BY DEF Ticks
  <2> QED
    BY <2>1 DEF FramesKnown
<1>2. fs[Len(fs)].rlim = Len(ss)
  BY DEF FramesKnown
<1> SUFFICES ASSUME NEW i \in n .. Len(ss)  PROVE Kept(ss[i], l)
  OBVIOUS
<1>3. CASE i = Len(ss)
  BY <1>3 DEF Ticks
<1>4. CASE i # Len(ss)
  <2> DEFINE T == {f \in Nat : f \in 1 .. Len(fs) /\ fs[f].rlim > i}
  <2>1. i \in 1 .. Len(ss) - 1 /\ i < Len(ss) /\ i \in Nat
    BY <1>1, <1>4
  <2>2. Len(fs) \in T
    BY <1>1, <1>2, <2>1
  <2>3. PICK x \in T : \A y \in T : ~ (<<y, x>> \in OpToRel(<, Nat))
    BY <2>2, NatLessThanWellFounded, WFMin, Zenon
  <2>4. \A y \in T : ~ (y < x)
    BY <2>3 DEF OpToRel
  <2>5. x \in 1 .. Len(fs) /\ fs[x].rlim > i /\ fs[x].rlim \in Nat
    <3>1. x \in T
      BY <2>3, Zenon
    <3>2. x \in 1 .. Len(fs) /\ fs[x].rlim > i
      BY <3>1
    <3> QED
      BY <1>1, <3>2 DEF FramesKnown
  <2>6. ASSUME NEW g \in 1 .. x - 1  PROVE fs[g].rlim <= i
    <3>1. g \in 1 .. Len(fs) /\ g < x /\ g \in Nat
      BY <1>1, <2>5
    <3>2. fs[g].rlim \in Nat
      BY <1>1, <3>1 DEF FramesKnown
    <3>3. ~(fs[g].rlim > i)
      BY <2>4, <3>1
    <3> QED
      BY <2>1, <3>2, <3>3
  <2>7. Maker(fs, x, i)
    BY <2>5, <2>6 DEF Maker
  <2>8. ss[i].level = fs[x].level /\ Kept(ss[i], ss[i].level)
    BY <2>1, <2>5, <2>7 DEF Ticks
  <2>9. fs[x].rlim > n
    BY <1>1, <2>1, <2>5
  <2> QED
    BY <2>5, <2>8, <2>9
<1> QED
  BY <1>3, <1>4

\* The last scope is replaced.
LEMMA ScopeReplaced ==
  ASSUME NEW s \in Seq(ScopeType), Len(s) >= 1, NEW x \in ScopeType
  PROVE  LET t == [s EXCEPT ![Len(s)] = x]
         IN  /\ t \in Seq(ScopeType) /\ Len(t) = Len(s) /\ t[Len(s)] = x
             /\ \A i \in 1 .. Len(s) - 1 : t[i] = s[i]
OBVIOUS

\* The last frame is replaced.
LEMMA FrameReplaced ==
  ASSUME NEW s \in Seq(FrameType), Len(s) \in 1 .. Len(s), NEW x,
         x.level = s[Len(s)].level
  PROVE  LET t == [s EXCEPT ![Len(s)] = x]
         IN  /\ Len(t) = Len(s) /\ t[Len(s)] = x
             /\ \A f \in 1 .. Len(s) : t[f].level = s[f].level
             /\ \A f \in 1 .. Len(s) - 1 : t[f].rlim = s[f].rlim
<1> DEFINE t == [s EXCEPT ![Len(s)] = x]
<1>1. Len(t) = Len(s) /\ t[Len(s)] = x /\ \A f \in 1 .. Len(s) - 1 : t[f] = s[f]
  OBVIOUS
<1> HIDE DEF t
<1>2. ASSUME NEW f \in 1 .. Len(s)  PROVE t[f].level = s[f].level
  <2>1. CASE f = Len(s)
    BY <1>1, <2>1
  <2>2. CASE f # Len(s)
    <3>1. f \in 1 .. Len(s) - 1
      BY <2>2
    <3> QED
      BY <1>1, <3>1
  <2> QED
    BY <2>1, <2>2
<1> QED
  BY <1>1, <1>2 DEF t

\* The scope of the code that runs changes.
LEMMA TicksLast ==
  ASSUME IInv, Ticks(frames, scopes), NEW x \in ScopeType, Kept(x, cframe.level),
         frames' = frames, scopes' = [scopes EXCEPT ![Len(scopes)] = x]
  PROVE  Ticks(frames', scopes')
<1>1. /\ FramesKnown(frames, Len(scopes)) /\ Len(scopes) \in Nat /\ Len(scopes) >= 1
      /\ scopes \in Seq(ScopeType) /\ cframe = frames[Len(frames)]
  BY TicksParts
<1>2. /\ scopes' \in Seq(ScopeType) /\ Len(scopes') = Len(scopes)
      /\ scopes'[Len(scopes)] = x
      /\ \A i \in 1 .. Len(scopes) - 1 : scopes'[i] = scopes[i]
  BY <1>1, ScopeReplaced
<1>3. Len(frames) \in 1 .. Len(frames) /\ frames[Len(frames)].rlim = Len(scopes)
  BY <1>1 DEF FramesKnown
<1>4. frames' = frames
  OBVIOUS
<1>5. Len(scopes) \in 1 .. Len(scopes)
  BY <1>1
<1>6. Len(scopes') \in 1 .. Len(scopes) /\ Len(frames') \in 1 .. Len(frames)
  BY Zenon, <1>2, <1>3, <1>4, <1>5
<1>7. Len(scopes) >= Len(scopes)
  BY <1>1
<1>8. frames[Len(frames')].rlim >= Len(scopes')
  BY Zenon, <1>2, <1>3, <1>4, <1>7
<1>9. Kept(scopes'[Len(scopes')], frames'[Len(frames')].level)
  BY <1>1, <1>2
<1>10. /\ \A f \in 1 .. Len(frames') : frames'[f].level = frames[f].level
       /\ \A f \in 1 .. Len(frames') - 1 : frames'[f].rlim = frames[f].rlim
  OBVIOUS
<1>11. \A i \in 1 .. Len(scopes') - 1 : scopes'[i] = scopes[i]
  BY <1>2
<1> QED
  BY <1>1, <1>2, <1>6, <1>8, <1>9, <1>10, <1>11, TicksBelow

\* Ticks that are spent are no longer there.
LEMMA SpendTicks ==
  ASSUME IInv, Ticks(frames, scopes), NEW c \in Costs, Spend(c)
  PROVE  Ticks(frames', scopes')
<1>1. /\ cframe.rlim = Len(scopes) /\ cframe.level \in Nat /\ scopes[Len(scopes)] \in ScopeType
      /\ Kept(scopes[Len(scopes)], cframe.level)
  BY TicksParts
<1> DEFINE x == Spent(scopes[Len(scopes)], c, cframe.level)
<1>2. c \in Int
  OBVIOUS
<1>3. x \in ScopeType /\ Kept(x, cframe.level)
  BY <1>1, <1>2, SpentIs
<1>4. frames' = frames /\ scopes' = [scopes EXCEPT ![Len(scopes)] = x]
  BY <1>1 DEF Spend
<1> HIDE DEF x
<1> QED
  BY <1>3, <1>4, TicksLast

\* A function is called with what its caller has left, an atomic one with half.
LEMMA CallTicksKept ==
  ASSUME IInv, Ticks(frames, scopes), NEW atomic \in BOOLEAN, Call(atomic)
  PROVE  Ticks(frames', scopes')
<1> DEFINE N == Len(scopes)
           new == atomic /\ ~cframe.atomic
           l == IF new THEN cframe.level + 1 ELSE cframe.level
           q == IF new THEN Halved(Current, cframe.level) ELSE Current
           x == Spent(q, CallTicks, l)
           top == [level |-> l, rlim |-> cframe.rlim, atomic |-> cframe.atomic \/ atomic]
<1>1. /\ FramesKnown(frames, N) /\ N \in Nat /\ N >= 1 /\ frames \in Seq(FrameType)
      /\ scopes \in Seq(ScopeType) /\ cframe.rlim = N /\ cframe.level \in Nat
      /\ Current \in ScopeType /\ Kept(Current, cframe.level)
  BY TicksParts
<1>2. frames' = Append(frames, top) /\ scopes' = [scopes EXCEPT ![N] = x]
  BY <1>1 DEF Call
<1>3. q \in ScopeType /\ Kept(q, l) /\ l \in Nat
  BY <1>1, HalvedIs
<1>4. x \in ScopeType /\ Kept(x, l)
  <2>1. CallTicks \in Int
    OBVIOUS
  <2> HIDE DEF q, l
  <2> QED
    BY <1>3, <2>1, SpentIs
<1>5. top.level = l
  OBVIOUS
<1> HIDE DEF top, x, l, q, N
<1>6. /\ scopes' \in Seq(ScopeType) /\ Len(scopes') = N /\ scopes'[N] = x
      /\ \A i \in 1 .. N - 1 : scopes'[i] = scopes[i]
  BY <1>1, <1>2, <1>4, ScopeReplaced DEF N
<1>7. /\ Len(frames') = Len(frames) + 1 /\ frames'[Len(frames) + 1] = top
      /\ \A f \in 1 .. Len(frames) : frames'[f] = frames[f]
  BY <1>1, <1>2
<1>8. Kept(scopes'[N], frames'[Len(frames) + 1].level)
  BY <1>4, <1>5, <1>6, <1>7
<1> QED
  BY <1>1, <1>6, <1>7, <1>8, TicksNewFrame DEF N

\* Code that runs gets a scope of its own.
LEMMA TicksEntered ==
  ASSUME IInv, Ticks(frames, scopes), NEW t \in Int,
         scopes' = NewRlimits(scopes, t, cframe.level),
         frames' = [frames EXCEPT ![Len(frames)].rlim = Len(scopes) + 1]
  PROVE  Ticks(frames', scopes')
<1> DEFINE x == [frames[Len(frames)] EXCEPT !.rlim = Len(scopes) + 1]
<1>1. /\ FramesKnown(frames, Len(scopes)) /\ frames \in Seq(FrameType)
      /\ Len(scopes) \in Nat /\ Len(scopes) >= 1 /\ scopes \in Seq(ScopeType)
      /\ cframe = frames[Len(frames)] /\ cframe.level \in Nat
      /\ Kept(scopes[Len(scopes)], cframe.level)
  BY TicksParts
<1>2. Len(frames) \in 1 .. Len(frames)
  BY <1>1 DEF FramesKnown
<1>3. x.level = frames[Len(frames)].level
  <2>1. frames[Len(frames)] \in FrameType
    BY <1>1, <1>2
  <2> QED
    BY <2>1 DEF FrameType
<1>4. frames' = [frames EXCEPT ![Len(frames)] = x]
  OBVIOUS
<1> HIDE DEF x
<1>5. /\ Len(frames') = Len(frames)
      /\ \A f \in 1 .. Len(frames) : frames'[f].level = frames[f].level
      /\ \A f \in 1 .. Len(frames) - 1 : frames'[f].rlim = frames[f].rlim
  BY <1>1, <1>2, <1>3, <1>4, FrameReplaced
<1>6. /\ scopes' \in Seq(ScopeType) /\ Len(scopes') = Len(scopes) + 1
      /\ \A i \in 1 .. Len(scopes) - 1 : scopes'[i] = scopes[i]
      /\ scopes'[Len(scopes)].level = cframe.level
      /\ Kept(scopes'[Len(scopes)], cframe.level)
      /\ Kept(scopes'[Len(scopes) + 1], cframe.level)
  BY SMTT(60), <1>1, NewRlimitsTicks
<1>7. /\ \A f \in 1 .. Len(frames') : frames'[f].level = frames[f].level
      /\ \A f \in 1 .. Len(frames') - 1 : frames'[f].rlim = frames[f].rlim
  BY <1>5
<1>8. cframe.level = frames[Len(frames)].level
  BY <1>1
<1> QED
  BY ZenonT(120), <1>1, <1>5, <1>6, <1>7, <1>8, TicksNewScope

\* The scopes above number n have given back what is left.
LEMMA TicksBack ==
  ASSUME NEW fs, NEW ss, Ticks(fs, ss), FramesKnown(fs, Len(ss)),
         NEW n \in 1 .. Len(ss), NEW l \in Nat, fs[Len(fs)].level = l,
         \A f \in 1 .. Len(fs) : fs[f].rlim > n => fs[f].level = l
  PROVE  LET t == IF Len(ss) # n THEN SetRlimits(ss, n) ELSE ss
         IN  /\ t \in Seq(ScopeType) /\ Len(t) = n
             /\ \A i \in 1 .. n - 1 : t[i] = ss[i]
             /\ Kept(t[n], l)
<1>1. \A i \in n .. Len(ss) : Kept(ss[i], l)
  BY TicksFrom
<1>2. ss \in Seq(ScopeType) /\ Len(ss) \in Nat
  BY DEF Ticks
<1>3. CASE Len(ss) = n
  BY <1>1, <1>2, <1>3
<1>4. CASE Len(ss) # n
  <2>1. n \in 1 .. Len(ss) - 1
    BY <1>2, <1>4
  <2> QED
    BY <1>1, <1>2, <1>4, <2>1, SetRlimitsTicks
<1> QED
  BY <1>3, <1>4

\* The code that runs leaves its scope.
LEMMA TicksLeft ==
  ASSUME IInv, Ticks(frames, scopes), Len(scopes) - 1 >= 1, NEW x, x.level = cframe.level,
         \A f \in 1 .. Len(frames) - 1 : frames[f].rlim <= Len(scopes) - 1,
         frames' = [frames EXCEPT ![Len(frames)] = x],
         scopes' = SetRlimits(scopes, Len(scopes) - 1)
  PROVE  Ticks(frames', scopes')
<1> DEFINE n == Len(scopes) - 1
<1>1. /\ FramesKnown(frames, Len(scopes)) /\ frames \in Seq(FrameType)
      /\ Len(scopes) \in Nat /\ scopes \in Seq(ScopeType)
      /\ cframe = frames[Len(frames)] /\ cframe.level \in Nat
  BY TicksParts
<1>2. /\ Len(frames) \in 1 .. Len(frames) /\ Len(frames) \in Nat
      /\ frames[Len(frames)].rlim = Len(scopes)
  BY <1>1 DEF FramesKnown
<1>3. n \in 1 .. Len(scopes) /\ Len(scopes) # n /\ n \in Nat /\ n <= Len(scopes)
  BY <1>1
<1>4. ASSUME NEW f \in 1 .. Len(frames), frames[f].rlim > n
      PROVE  frames[f].level = cframe.level
  <2>1. frames[f].rlim \in Nat
    BY <1>1 DEF FramesKnown
  <2>2. ~(frames[f].rlim <= n)
    BY <1>3, <1>4, <2>1
  <2>3. f \notin 1 .. Len(frames) - 1
    BY <2>2
  <2>4. f = Len(frames)
    BY <1>2, <2>3
  <2> QED
    BY <1>1, <2>4
<1>5. /\ scopes' \in Seq(ScopeType) /\ Len(scopes') = n
      /\ \A i \in 1 .. n - 1 : scopes'[i] = scopes[i]
      /\ Kept(scopes'[n], cframe.level)
  <2>1. frames[Len(frames)].level = cframe.level
    BY <1>1
  <2>2. scopes' = IF Len(scopes) # n THEN SetRlimits(scopes, n) ELSE scopes
    BY <1>3
  <2> HIDE DEF n
  <2> QED
    BY <1>1, <1>3, <1>4, <2>1, <2>2, TicksBack
<1> HIDE DEF n
<1>6. /\ Len(frames') = Len(frames) /\ frames'[Len(frames)] = x
      /\ \A f \in 1 .. Len(frames) : frames'[f].level = frames[f].level
      /\ \A f \in 1 .. Len(frames) - 1 : frames'[f].rlim = frames[f].rlim
  <2>1. x.level = frames[Len(frames)].level
    BY <1>1
  <2> QED
    BY <1>1, <1>2, <2>1, FrameReplaced
<1>7. /\ \A f \in 1 .. Len(frames') : frames'[f].level = frames[f].level
      /\ \A f \in 1 .. Len(frames') - 1 : frames'[f].rlim = frames[f].rlim
      /\ \A i \in 1 .. Len(scopes') - 1 : scopes'[i] = scopes[i]
  BY <1>5, <1>6
<1>8. Len(frames') \in 1 .. Len(frames) /\ Len(scopes') \in 1 .. Len(scopes)
  BY Zenon, <1>2, <1>3, <1>5, <1>6
<1>9. frames[Len(frames')].rlim >= Len(scopes')
  <2>1. frames[Len(frames')].rlim = Len(scopes) /\ Len(scopes') = n
    BY Zenon, <1>2, <1>5, <1>6
  <2>2. Len(scopes) >= n
    BY <1>1, <1>3
  <2> QED
    BY Zenon, <2>1, <2>2
<1>10. Kept(scopes'[Len(scopes')], frames'[Len(frames')].level)
  BY Zenon, <1>5, <1>6
<1> QED
  BY <1>1, <1>5, <1>7, <1>8, <1>9, <1>10, TicksBelow

\* At the end of rlimits.
LEMMA EndRlimitsTicks ==
  ASSUME IInv, Ticks(frames, scopes), EndRlimits
  PROVE  Ticks(frames', scopes')
<1> DEFINE b == blocks[Len(blocks)]
           x == [frames[Len(frames)] EXCEPT !.rlim = @ - 1]
<1>1. mode = "run" /\ blocks # <<>> /\ b.kind = "rlimits"
  BY DEF EndRlimits, Running, Last
<1>2. /\ b.f = Len(frames) /\ b.rlim = cframe.rlim /\ Under(b) \in Pos
      /\ \A j \in 1 .. b.f - 1 : frames[j].rlim <= Under(b)
  BY <1>1, BelowParts
<1>3. /\ cframe.rlim = Len(scopes) /\ cframe = frames[Len(frames)]
      /\ cframe \in FrameType
  BY IInvParts
<1>4. Under(b) = Len(scopes) - 1
  BY <1>1, <1>2, <1>3 DEF Under
<1> HIDE DEF b
<1>5. x.level = cframe.level
  BY <1>3 DEF FrameType
<1>6. frames' = [frames EXCEPT ![Len(frames)] = x]
  BY DEF EndRlimits
<1>7. scopes' = SetRlimits(scopes, Len(scopes) - 1)
  BY <1>3 DEF EndRlimits
<1> HIDE DEF x
<1>8. Len(scopes) - 1 >= 1 /\ \A f \in 1 .. Len(frames) - 1 : frames[f].rlim <= Len(scopes) - 1
  <2>1. Under(b) >= 1
    BY <1>2 DEF Pos
  <2> QED
    BY <1>2, <1>4, <2>1
<1> QED
  BY <1>5, <1>6, <1>7, <1>8, TicksLeft

\* At the end of a call of the driver object.
LEMMA EndCriticalTicks ==
  ASSUME IInv, Ticks(frames, scopes), EndCritical
  PROVE  Ticks(frames', scopes')
<1> DEFINE b == blocks[Len(blocks)]
           x == [frames[Len(frames)] EXCEPT !.atomic = eFrame.atomic, !.rlim = cframe.rlim - 1]
<1>1. mode = "run" /\ blocks # <<>> /\ b.kind = "called"
  BY DEF EndCritical, Running, Last
<1>2. /\ b.rlim = cframe.rlim /\ b = BlockOf(contexts, blocks, Len(contexts))
      /\ contexts[Len(contexts)].f = Len(frames)
      /\ Len(contexts) \in 1 .. Len(contexts)
  BY <1>1, LeavingParts
<1>3. /\ cframe \in FrameType /\ cframe.rlim = Len(scopes)
      /\ cframe = frames[Len(frames)]
      /\ Stack(frames, contexts, blocks) /\ Len(blocks) \in 1 .. Len(blocks)
  BY <1>1, IInvParts, RunParts
<1>4. Under(b) = Len(scopes) - 1
  BY <1>1, <1>2, <1>3 DEF Under, Critical
<1>5. b.f = Len(frames)
  BY <1>2, <1>3 DEF Stack, ContextsUp
<1>6. Under(b) >= 1 /\ \A j \in 1 .. b.f - 1 : frames[j].rlim <= Under(b)
  BY <1>3 DEF Stack, BlocksUp
<1> HIDE DEF b
<1>7. x.level = cframe.level
  BY <1>3 DEF FrameType
<1>8. frames' = [frames EXCEPT ![Len(frames)] = x]
  BY DEF EndCritical
<1>9. scopes' = SetRlimits(scopes, Len(scopes) - 1)
  BY <1>3 DEF EndCritical
<1> HIDE DEF x
<1>10. Len(scopes) - 1 >= 1 /\ \A f \in 1 .. Len(frames) - 1 : frames[f].rlim <= Len(scopes) - 1
  BY <1>4, <1>5, <1>6
<1> QED
  BY <1>7, <1>8, <1>9, <1>10, TicksLeft

\* What an atomic function has left is doubled when it returns.
LEMMA ReturnTicks ==
  ASSUME IInv, Ticks(frames, scopes), Return
  PROVE  Ticks(frames', scopes')
<1> DEFINE N == Len(scopes)
           L == Len(frames)
           m == L - 1
           b == blocks[Len(blocks)]
           a == blocks[Len(blocks) - 1]
           x == IF b.plane THEN Doubled(scopes[N]) ELSE scopes[N]
           fs2 == SubSeq(frames, 1, m)
           ss2 == [scopes EXCEPT ![N] = x]
<1>1. mode = "run" /\ blocks # <<>> /\ b.kind = "call"
  BY DEF Return, Running, Last
<1>2. /\ FramesKnown(frames, N) /\ frames \in Seq(FrameType)
      /\ N \in Nat /\ N >= 1 /\ scopes \in Seq(ScopeType) /\ scopes[N] \in ScopeType
      /\ cframe = frames[L] /\ cframe.rlim = N /\ cframe.level \in Nat
      /\ Kept(scopes[N], cframe.level)
  BY TicksParts
<1>3. /\ b.rlim = cframe.rlim /\ L = a.f + 1 /\ Under(b) = a.rlim /\ a.f \in 1 .. L
      /\ frames[a.f].rlim = a.rlim
      /\ cframe.level = IF b.plane THEN frames[a.f].level + 1 ELSE frames[a.f].level
      /\ b \in BlockType
  <2>1. b.f = L /\ b.f = a.f + 1
    BY <1>1, BelowParts
  <2> HIDE DEF L
  <2> QED
    BY <1>1, <2>1, BelowParts DEF L
<1>4. Under(b) = b.rlim
  BY <1>1 DEF Under, Critical
<1>5. L \in Nat /\ L \in 1 .. L
  BY <1>2 DEF FramesKnown
<1> HIDE DEF L
<1>6. m = a.f /\ m \in 1 .. L /\ m \in 0 .. L /\ m \in Nat
  <2> HIDE DEF a
  <2> QED
    BY <1>3, <1>5
<1>7. frames[m].rlim = N /\ frames[m].level \in Nat
  <2>1. frames[m].rlim = N
    BY <1>2, <1>3, <1>4, <1>6
  <2>2. frames[m].level \in Nat
    BY <1>2, <1>6 DEF FramesKnown, L
  <2> QED
    BY <2>1, <2>2
<1>8. /\ frames' = fs2 /\ scopes' = ss2
  <2>1. frames' = fs2
    BY DEF Return, Front, L
  <2>2. scopes' = ss2
    <3>1. CASE b.plane
      BY <1>2, <3>1 DEF Return, Last
    <3>2. CASE ~b.plane
      <4>1. scopes' = scopes
        BY <3>2 DEF Return, Last
      <4>2. [scopes EXCEPT ![N] = scopes[N]] = scopes
        BY <1>2
      <4> QED
        BY <3>2, <4>1, <4>2
    <3> QED
      BY <3>1, <3>2
  <2> QED
    BY <2>1, <2>2
<1>9. x \in ScopeType /\ Kept(x, frames[m].level)
  <2>1. CASE b.plane
    <3>1. Kept(scopes[N], frames[m].level + 1)
      BY <1>2, <1>3, <1>6, <2>1
    <3>2. Doubled(scopes[N]) \in ScopeType /\ Kept(Doubled(scopes[N]), frames[m].level)
      BY <1>2, <1>7, <3>1, DoubledIs
    <3> QED
      BY <2>1, <3>2
  <2>2. CASE ~b.plane
    <3>1. Kept(scopes[N], frames[m].level)
      BY <1>2, <1>3, <1>6, <2>2
    <3> QED
      BY <1>2, <2>2, <3>1
  <2> QED
    BY <2>1, <2>2
<1> HIDE DEF x
<1>10. /\ ss2 \in Seq(ScopeType) /\ Len(ss2) = N /\ ss2[N] = x
       /\ \A i \in 1 .. N - 1 : ss2[i] = scopes[i]
  BY <1>2, <1>9, ScopeReplaced
<1>11. Len(fs2) = m /\ \A f \in 1 .. m : fs2[f] = frames[f]
  <2> HIDE DEF m
  <2> QED
    BY <1>2, <1>6, FirstOf DEF L
<1> HIDE DEF fs2, ss2, m, a, b, N
<1>12. /\ Len(fs2) \in 1 .. Len(frames) /\ fs2[Len(fs2)].level = frames[m].level
       /\ frames[Len(fs2)].rlim = N
  <2>1. m \in 1 .. m
    BY <1>6
  <2> QED
    BY <1>6, <1>7, <1>11, <2>1 DEF L
<1>13. Len(ss2) \in 1 .. Len(scopes) /\ N >= Len(ss2)
  BY <1>2, <1>10 DEF N
<1>14. /\ \A f \in 1 .. Len(fs2) : fs2[f].level = frames[f].level
       /\ \A f \in 1 .. Len(fs2) - 1 : fs2[f].rlim = frames[f].rlim
  <2>1. \A f \in 1 .. Len(fs2) - 1 : f \in 1 .. m
    BY <1>6, <1>11
  <2> QED
    BY <1>11, <2>1
<1>15. /\ \A i \in 1 .. Len(ss2) - 1 : ss2[i] = scopes[i]
       /\ Kept(ss2[Len(ss2)], fs2[Len(fs2)].level)
       /\ frames[Len(fs2)].rlim >= Len(ss2)
  BY <1>9, <1>10, <1>12, <1>13
<1>16. FramesKnown(frames, Len(scopes)) /\ Len(scopes) \in Nat
  BY <1>2 DEF N
<1>17. Ticks(fs2, ss2)
  BY <1>10, <1>12, <1>13, <1>14, <1>15, <1>16, TicksBelow
<1> QED
  BY <1>8, <1>17

\* Frame::restore() doubles what inner scopes of the plane have given back.
LEMMA RestoreTicks ==
  ASSUME IInv, Ticks(frames, scopes), Restore
  PROVE  Ticks(frames', scopes')
<1> DEFINE N == Len(scopes)
           L == Len(frames)
           n == Len(contexts)
           l == LevelOf(frames, contexts, n)
           m == Restored
           r == frames[m].rlim
           s == IF r # cframe.rlim THEN SetRlimits(scopes, r) ELSE scopes
           x == Doubled(s[r])
           ss2 == [s EXCEPT ![r] = x]
           fs2 == SubSeq(frames, 1, m)
<1>1. /\ FramesKnown(frames, N) /\ frames \in Seq(FrameType)
      /\ N \in Nat /\ N >= 1 /\ scopes \in Seq(ScopeType)
      /\ cframe = frames[L] /\ cframe.rlim = N /\ cframe.level \in Nat
      /\ Kept(scopes[N], cframe.level)
  BY TicksParts
<1>2. Stack(frames, contexts, blocks) /\ L \in Nat /\ L \in 1 .. L
  BY IInvParts
<1>3. /\ error.e = n /\ n \in 1 .. n /\ cframe.level = l + 1 /\ l \in Nat
  BY RestoreParts
<1>4. /\ m \in 1 .. L /\ frames[m].level = l
      /\ \A i \in m + 1 .. L : frames[i].level # l
  BY <1>2, <1>3, RestoredIs
<1>5. scopes' = ss2 /\ frames' = fs2
  BY DEF Restore, RestoredScopes
<1> HIDE DEF m, l, L
<1>6. r \in 1 .. N /\ r \in Nat /\ r >= 1
  <2>1. r \in 1 .. N
    BY <1>1, <1>4 DEF FramesKnown, L
  <2> QED
    BY <1>1, <2>1
<1>7. ASSUME NEW f \in 1 .. L, frames[f].rlim > r
      PROVE  frames[f].level = l + 1
  <2>1. frames[f].rlim \in Nat /\ frames[f].level \in Nat
    BY <1>1, <1>2 DEF FramesKnown, L
  <2>2. ~(f <= m)
    <3> SUFFICES ASSUME f <= m  PROVE FALSE
      OBVIOUS
    <3>1. frames[f].rlim <= r
      BY <1>1, <1>4 DEF FramesKnown, L
    <3> HIDE DEF r
    <3> QED
      BY <1>6, <1>7, <2>1, <3>1
  <2>3. f \in m + 1 .. L
    BY <1>2, <1>4, <2>2
  <2>4. frames[f].level # l
    BY <1>4, <2>3
  <2>5. l <= frames[f].level
    <3>1. m <= f
      BY <1>2, <1>4, <2>3
    <3> QED
      BY <1>2, <1>4, <3>1 DEF Stack, FramesUp, L
  <2>6. frames[f].level <= l + 1
    <3>1. f <= L
      BY <1>2
    <3> QED
      BY <1>1, <1>2, <1>3, <3>1 DEF Stack, FramesUp, L
  <2> QED
    BY <1>3, <2>1, <2>4, <2>5, <2>6
<1> HIDE DEF r
<1>8. /\ s \in Seq(ScopeType) /\ Len(s) = r
      /\ \A i \in 1 .. r - 1 : s[i] = scopes[i]
      /\ Kept(s[r], l + 1)
  <2>1. frames[L].level = l + 1 /\ l + 1 \in Nat
    BY <1>1, <1>3
  <2>2. s = IF N # r THEN SetRlimits(scopes, r) ELSE scopes
    BY <1>1
  <2> HIDE DEF s
  <2> QED
    BY <1>1, <1>6, <1>7, <2>1, <2>2, TicksBack DEF L, N
<1> HIDE DEF s
<1>9. x \in ScopeType /\ Kept(x, l)
  <2>1. s[r] \in ScopeType
    BY <1>6, <1>8
  <2> QED
    BY <1>3, <1>8, <2>1, DoubledIs
<1> HIDE DEF x
<1>10. /\ ss2 \in Seq(ScopeType) /\ Len(ss2) = r /\ ss2[r] = x
       /\ \A i \in 1 .. r - 1 : ss2[i] = s[i]
  BY <1>6, <1>8, <1>9, ScopeReplaced
<1>11. m \in 0 .. L /\ m \in Nat /\ m \in 1 .. m
  BY <1>2, <1>4
<1>12. Len(fs2) = m /\ \A f \in 1 .. m : fs2[f] = frames[f]
  BY <1>1, <1>11, FirstOf DEF L
<1> HIDE DEF fs2, ss2, N
<1>13. /\ Len(fs2) \in 1 .. Len(frames) /\ fs2[Len(fs2)].level = l
       /\ frames[Len(fs2)].rlim = r
  BY <1>4, <1>11, <1>12 DEF L, r
<1>14. Len(ss2) \in 1 .. Len(scopes) /\ r >= Len(ss2)
  BY <1>6, <1>10 DEF N
<1>15. /\ \A f \in 1 .. Len(fs2) : fs2[f].level = frames[f].level
       /\ \A f \in 1 .. Len(fs2) - 1 : fs2[f].rlim = frames[f].rlim
  <2>1. \A f \in 1 .. Len(fs2) - 1 : f \in 1 .. m
    BY <1>11, <1>12
  <2> QED
    BY <1>12, <2>1
<1>16. /\ \A i \in 1 .. Len(ss2) - 1 : ss2[i] = scopes[i]
       /\ Kept(ss2[Len(ss2)], fs2[Len(fs2)].level)
       /\ frames[Len(fs2)].rlim >= Len(ss2)
  BY <1>8, <1>9, <1>10, <1>13, <1>14
<1>17. FramesKnown(frames, Len(scopes)) /\ Len(scopes) \in Nat
  BY <1>1 DEF N
<1>18. Ticks(fs2, ss2)
  BY <1>10, <1>13, <1>14, <1>15, <1>16, <1>17, TicksBelow
<1> QED
  BY <1>5, <1>18

\* An exception ends the scopes above the one of the last context.
LEMMA ThrowTicks ==
  ASSUME IInv, Ticks(frames, scopes), Throw
  PROVE  Ticks(frames', scopes')
<1> DEFINE N == Len(scopes)
           L == Len(frames)
           n == Len(contexts)
           c == contexts[n]
           b == blocks[Len(blocks)]
           k == c.f
           q == c.rlim
           r == Under(b)
           l == cframe.level
           s == IF cframe.rlim # q THEN SetRlimits(scopes, q) ELSE scopes
           ss2 == IF Critical(b) THEN SetRlimits(s, r) ELSE s
<1>1. /\ FramesKnown(frames, N) /\ frames \in Seq(FrameType)
      /\ N \in Nat /\ N >= 1 /\ scopes \in Seq(ScopeType)
      /\ cframe = frames[L] /\ cframe.rlim = N /\ l \in Nat
  BY TicksParts
<1>2. /\ Stack(frames, contexts, blocks) /\ L \in Nat /\ L \in 1 .. L
      /\ Numbers(frames, contexts, blocks) /\ Len(blocks) \in Nat /\ eFrame = c
  BY IInvParts
<1>3. /\ n \in 1 .. n /\ c.block = Len(blocks) /\ b.kind \notin {"call", "rlimits"}
      /\ k = b.f /\ q = b.rlim /\ LevelOf(frames, contexts, n) = l
  BY ThrowParts DEF Throw
<1>4. k \in 1 .. L /\ q \in Nat /\ frames[k].level = l
  BY <1>2, <1>3 DEF Numbers, LevelOf
<1>5. Len(blocks) \in 1 .. Len(blocks)
  BY <1>2, <1>3 DEF Numbers
<1>6. /\ r >= 1 /\ q <= frames[k].rlim
      /\ \A j \in 1 .. k - 1 : frames[j].rlim <= r
  BY <1>2, <1>3, <1>5 DEF Stack, BlocksUp
<1>7. r = IF Critical(b) THEN q - 1 ELSE q
  BY <1>3 DEF Under
<1>8. PICK top \in FrameType :
        /\ top.level = l
        /\ frames' = [SubSeq(frames, 1, k) EXCEPT ![k] = top]
  BY ThrowTop
<1>9. scopes' = ss2
  <2>1. Critical(b) <=> blocks[eFrame.block].kind \in {"critical", "called"}
    BY <1>2, <1>3 DEF Critical
  <2>2. Critical(b) => r = eFrame.rlim - 1
    BY <1>2, <1>7
  <2>3. eFrame.rlim = q
    BY <1>2
  <2>4. scopes' = LET b1 == blocks[eFrame.block]
                      r1 == IF b1.kind \in {"critical", "called"} THEN eFrame.rlim - 1
                            ELSE eFrame.rlim
                      s1 == IF cframe.rlim # eFrame.rlim
                            THEN SetRlimits(scopes, eFrame.rlim) ELSE scopes
                  IN  IF b1.kind \in {"critical", "called"} THEN SetRlimits(s1, r1) ELSE s1
    BY DEF Throw
  <2> HIDE DEF c, b, r, q
  <2>5. CASE Critical(b)
    BY <2>1, <2>2, <2>3, <2>4, <2>5
  <2>6. CASE ~Critical(b)
    BY <2>1, <2>3, <2>4, <2>6
  <2> QED
    BY <2>5, <2>6
<1> HIDE DEF r, q, k, l, c, b, n, L
<1>10. r \in Nat /\ r <= q /\ q \in 1 .. N /\ r \in 1 .. N
  <2>1. frames[k].rlim \in 1 .. N
    BY <1>1, <1>4 DEF FramesKnown, L
  <2> QED
    BY <1>1, <1>4, <1>6, <1>7, <2>1
<1>11. ASSUME NEW f \in 1 .. L, frames[f].rlim > r
       PROVE  frames[f].level = l
  <2>1. frames[f].rlim \in Nat /\ frames[f].level \in Nat
    BY <1>1, <1>2 DEF FramesKnown, L
  <2>2. ~(frames[f].rlim <= r)
    BY <1>10, <1>11, <2>1
  <2>3. f \notin 1 .. k - 1
    BY <1>6, <2>2
  <2>4. k <= f /\ f <= L
    BY <1>2, <1>4, <2>3
  <2>5. frames[k].level <= frames[f].level /\ frames[f].level <= frames[L].level
    BY <1>2, <1>4, <2>4 DEF Stack, FramesUp, L
  <2> QED
    BY <1>1, <1>4, <2>1, <2>5 DEF l
<1>12. frames[L].level = l
  BY <1>1 DEF l
<1>13. \A i \in r .. N : Kept(scopes[i], l)
  BY <1>1, <1>10, <1>11, <1>12, TicksFrom DEF L, N
<1>14. /\ s \in Seq(ScopeType) /\ Len(s) = q
       /\ \A i \in 1 .. q - 1 : s[i] = scopes[i]
       /\ Kept(s[q], l)
  <2>1. s = IF N # q THEN SetRlimits(scopes, q) ELSE scopes
    BY <1>1
  <2>2. ASSUME NEW f \in 1 .. L, frames[f].rlim > q  PROVE frames[f].level = l
    <3>1. frames[f].rlim \in Nat
      BY <1>1 DEF FramesKnown, L
    <3>2. frames[f].rlim > r
      BY <1>4, <1>10, <2>2, <3>1
    <3> QED
      BY <1>11, <3>2
  <2> HIDE DEF s
  <2> QED
    BY <1>1, <1>10, <1>12, <2>1, <2>2, TicksBack DEF L, N
<1> HIDE DEF s, N
<1>15. /\ ss2 \in Seq(ScopeType) /\ Len(ss2) = r
       /\ \A i \in 1 .. r - 1 : ss2[i] = scopes[i]
       /\ Kept(ss2[r], l)
  <2>1. CASE Critical(b)
    <3>1. r = q - 1 /\ r \in 1 .. Len(s) - 1 /\ r \in r .. N
      BY <1>4, <1>6, <1>7, <1>10, <1>14, <2>1
    <3>2. ASSUME NEW i \in r .. Len(s)  PROVE Kept(s[i], l)
      <4>1. CASE i = q
        BY <1>14, <4>1
      <4>2. CASE i # q
        <5>1. i = r /\ r \in 1 .. q - 1
          BY <1>4, <1>10, <1>14, <3>1, <4>2
        <5>2. s[r] = scopes[r] /\ Kept(scopes[r], l)
          BY <1>13, <1>14, <3>1, <5>1
        <5> QED
          BY <5>1, <5>2
      <4> QED
        BY <4>1, <4>2
    <3>3. /\ SetRlimits(s, r) \in Seq(ScopeType) /\ Len(SetRlimits(s, r)) = r
          /\ \A i \in 1 .. r - 1 : SetRlimits(s, r)[i] = s[i]
          /\ Kept(SetRlimits(s, r)[r], l)
      BY <1>1, <1>14, <3>1, <3>2, SetRlimitsTicks
    <3>4. \A i \in 1 .. r - 1 : i \in 1 .. q - 1
      BY <1>4, <3>1
    <3> QED
      BY <1>14, <2>1, <3>3, <3>4
  <2>2. CASE ~Critical(b)
    BY <1>7, <1>14, <2>2
  <2> QED
    BY <2>1, <2>2
<1> HIDE DEF ss2
<1>16. k \in 0 .. L /\ k \in Nat /\ k \in 1 .. k
  BY <1>2, <1>4
<1> DEFINE fs1 == SubSeq(frames, 1, k)
<1>17. /\ fs1 \in Seq(FrameType) /\ Len(fs1) = k
       /\ \A f \in 1 .. k : fs1[f] = frames[f]
  BY <1>1, <1>16, FirstOf DEF L
<1> HIDE DEF fs1
<1>18. /\ Len(frames') = k /\ frames'[k] = top
       /\ \A f \in 1 .. k : frames'[f].level = frames[f].level
       /\ \A f \in 1 .. k - 1 : frames'[f].rlim = frames[f].rlim
  <2>1. fs1[Len(fs1)].level = top.level /\ Len(fs1) \in 1 .. Len(fs1)
    BY <1>4, <1>8, <1>16, <1>17
  <2>2. frames' = [fs1 EXCEPT ![Len(fs1)] = top]
    BY <1>8, <1>17 DEF fs1
  <2>3. /\ Len(frames') = Len(fs1) /\ frames'[Len(fs1)] = top
        /\ \A f \in 1 .. Len(fs1) : frames'[f].level = fs1[f].level
        /\ \A f \in 1 .. Len(fs1) - 1 : frames'[f].rlim = fs1[f].rlim
    BY <1>17, <2>1, <2>2, FrameReplaced
  <2>4. \A f \in 1 .. k - 1 : f \in 1 .. k
    BY <1>16
  <2> QED
    BY <1>17, <2>3, <2>4
<1>19. Len(frames') \in 1 .. Len(frames) /\ Len(ss2) \in 1 .. Len(scopes)
  BY Zenon, <1>4, <1>10, <1>15, <1>18 DEF L, N
<1>20. frames[Len(frames')].rlim >= Len(ss2)
  <2>1. frames[k].rlim \in Nat
    BY <1>1, <1>4 DEF FramesKnown, L
  <2>2. frames[k].rlim >= r
    BY <1>4, <1>6, <1>10, <2>1
  <2> QED
    BY Zenon, <1>15, <1>18, <2>2
<1>21. /\ \A f \in 1 .. Len(frames') : frames'[f].level = frames[f].level
       /\ \A f \in 1 .. Len(frames') - 1 : frames'[f].rlim = frames[f].rlim
       /\ \A i \in 1 .. Len(ss2) - 1 : ss2[i] = scopes[i]
  BY Zenon, <1>15, <1>18
<1>22. Kept(ss2[Len(ss2)], frames'[Len(frames')].level)
  BY Zenon, <1>8, <1>15, <1>18
<1>23. FramesKnown(frames, Len(scopes)) /\ Len(scopes) \in Nat
  BY <1>1 DEF N
<1>24. Ticks(frames', ss2)
  BY <1>15, <1>19, <1>20, <1>21, <1>22, <1>23, TicksBelow
<1> QED
  BY <1>9, <1>24

\* A call of the driver object is free: its scope has no limit.
LEMMA CriticalTicks ==
  ASSUME IInv, Ticks(frames, scopes), NEW h, NEW b, NEW cs, EnterCritical(h, b, cs)
  PROVE  Ticks(frames', scopes')
<1>1. /\ scopes' = NewRlimits(scopes, -1, cframe.level)
      /\ frames' = [frames EXCEPT ![Len(frames)].rlim = Len(scopes) + 1]
  BY DEF EnterCritical
<1>2. -1 \in Int
  OBVIOUS
<1> QED
  BY <1>1, <1>2, TicksEntered

\* The beginning and the end of a catch, and the end of a guard.
LEMMA CatchTicks ==
  ASSUME IInv, Ticks(frames, scopes), Catch \/ EndCatch \/ EndGuard
  PROVE  Ticks(frames', scopes')
<1>1. cframe = frames[Len(frames)] /\ cframe \in FrameType
  BY IInvParts
<1>2. PICK a : frames' = [frames EXCEPT ![Len(frames)].atomic = a]
  BY DEF Catch, EndCatch, EndGuard
<1> DEFINE x == [frames[Len(frames)] EXCEPT !.atomic = a]
<1>3. frames' = [frames EXCEPT ![Len(frames)] = x]
  BY <1>2
<1>4. x.level = cframe.level
  BY <1>1 DEF FrameType
<1>5. scopes' = scopes
  BY DEF Catch, EndCatch, EndGuard
<1> HIDE DEF x
<1> QED
  BY <1>3, <1>4, <1>5, TicksSameLevels

\* The base frame has no limit.
LEMMA InitTicks ==
  ASSUME Init
  PROVE  Ticks(frames, scopes)
<1>1. frames = <<BaseFrame>> /\ scopes = <<Unlimited>>
  BY DEF Init
<1>2. Unlimited \in ScopeType /\ Unlimited.noticks
  BY DEF Unlimited, ScopeType
<1>3. scopes \in Seq(ScopeType) /\ Len(scopes) = 1 /\ scopes[1] = Unlimited
  BY <1>1, <1>2
<1>4. 1 .. Len(scopes) - 1 = {}
  BY <1>3
<1>5. Kept(scopes[Len(scopes)], frames[Len(frames)].level)
  BY <1>2, <1>3 DEF Kept
<1> QED
  BY <1>3, <1>4, <1>5 DEF Ticks

\* Every step keeps the ticks of all scopes.
LEMMA NextTicks ==
  ASSUME IInv, Ticks(frames, scopes), [Next]_vars
  PROVE  Ticks(frames', scopes')
<1>1. CASE frames' = frames /\ scopes' = scopes
  BY <1>1, TicksSame
<1>2. CASE StartTask \/ EndTask \/ Guard
  BY <1>1, <1>2 DEF StartTask, EndTask, Guard
<1>3. CASE (\E atomic \in BOOLEAN : Call(atomic)) \/ Return
  BY <1>3, CallTicksKept, ReturnTicks
<1>4. CASE Catch \/ EndCatch \/ EndGuard
  BY <1>4, CatchTicks
<1>5. CASE \E t \in Limits : Rlimits(t)
  <2>1. PICK t \in Limits : Rlimits(t)
    BY <1>5
  <2>2. /\ scopes' = NewRlimits(scopes, t, cframe.level)
        /\ frames' = [frames EXCEPT ![Len(frames)].rlim = Len(scopes) + 1]
    BY <2>1 DEF Rlimits
  <2>3. t \in Int
    OBVIOUS
  <2> QED
    BY <2>2, <2>3, TicksEntered
<1>6. CASE EndRlimits \/ EndCritical
  BY <1>6, EndRlimitsTicks, EndCriticalTicks
<1>7. CASE \E c \in Costs : Spend(c)
  BY <1>7, SpendTicks
<1>8. CASE RemoveProgram \/ AtomicError
  BY <1>8, CriticalTicks DEF RemoveProgram, AtomicError
<1>9. CASE Error \/ Defer \/ PassOn
  BY <1>1, <1>9 DEF Error, Defer, PassOn
<1>10. CASE Handle
  <2>1. CASE Looking.handler = "runtimeError"
    BY <1>10, <2>1, CriticalTicks DEF Handle
  <2>2. CASE Looking.handler # "runtimeError"
    BY <1>1, <1>10, <2>2 DEF Handle
  <2> QED
    BY <2>1, <2>2
<1>11. CASE Restore \/ Throw
  BY <1>11, RestoreTicks, ThrowTicks
<1>12. CASE UNCHANGED vars
  BY <1>1, <1>12 DEF vars
<1> QED
  BY <1>2, <1>3, <1>4, <1>5, <1>6, <1>7, <1>8, <1>9, <1>10, <1>11, <1>12 DEF Next, Code

\* The invariant says that what is left of the ticks is what is due.
LEMMA TicksAreRight ==
  ASSUME IInv, Ticks(frames, scopes)
  PROVE  TicksRight
<1>1. /\ Len(scopes) \in Nat /\ scopes \in Seq(ScopeType)
      /\ Kept(scopes[Len(scopes)], cframe.level)
  BY TicksParts
<1>2. ASSUME NEW i \in DOMAIN scopes, ~scopes[i].noticks
      PROVE  scopes[i].ticks * Unit(IF i = Len(scopes) THEN cframe.level
                                    ELSE scopes[i].level) = scopes[i].due
  <2>1. i \in 1 .. Len(scopes)
    BY <1>1
  <2>2. CASE i = Len(scopes)
    BY <1>1, <1>2, <2>2 DEF Kept
  <2>3. CASE i # Len(scopes)
    <3>1. i \in 1 .. Len(scopes) - 1
      BY <1>1, <2>1, <2>3
    <3>2. Kept(scopes[i], scopes[i].level)
      BY <3>1 DEF Ticks
    <3> QED
      BY <1>2, <2>3, <3>2 DEF Kept
  <2> QED
    BY <2>2, <2>3
<1> QED
  BY <1>2 DEF TicksRight

\* What a scope has left of its ticks is what was not used: for any nesting of
\* atomic functions, rlimits, catches and handlers, any costs and any limits,
\* what was spent at a level counts 2^level times, and whatever way a scope or
\* a plane is left, by a return or by an error, inner scopes give back what
\* they have left exactly once (setRlimits(), Frame::restore()).  Again
\* remove_program() in the driver object is taken not to fail.
THEOREM TicksCorrect ==
  ASSUME ~RemoveFails
  PROVE  Spec => []TicksRight
<1>1. Init => IInv /\ Ticks(frames, scopes)
  BY InitRight, InitTicks
<1>2. IInv /\ Ticks(frames, scopes) /\ [Next]_vars => IInv' /\ Ticks(frames, scopes)'
  <2>1. Ticks(frames', scopes') => Ticks(frames, scopes)'
    BY DEF Ticks, Maker, Kept
  <2> QED
    BY <2>1, NextRight, NextTicks
<1>3. IInv /\ Ticks(frames, scopes) => TicksRight
  BY TicksAreRight
<1> QED
  BY <1>1, <1>2, <1>3, PTL DEF Spec
=============================================================================
