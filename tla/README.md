# A verification development for DGD

DGD (Dworkin's Game Driver) is a server that runs programs written in LPC. It
keeps all objects of a system in one process, in memory and in a swap file; a
system stays alive across restarts by way of snapshots. One thread runs one
task at a time: input from a connection, a *call-out* whose time has come, or
an interrupt. Functions may be declared *atomic*: if one fails, everything it
did is undone.

These modules model the parts of DGD where this is hard: the call-out table
and its time, the rollback of call-outs, objects, variables, arrays and ticks,
the swap file with its snapshots, connections, the compiler with the
interpreter, and the scanner and parser of `parse_string`; and the arithmetic
of long integers. TLC checks them on small instances; TLAPS proves, for every
size, the main facts about the call-outs of atomic functions, about the stack
of calls and errors, and about connections (section 5).

All paths below are relative to `src/`; `src/call_out.cpp` is the file
`call_out.cpp` in the directory `src` of the repository.

## 1. Inventory

| component | state | operations | hard behaviour |
|---|---|---|---|
| call-out table (`src/call_out.cpp`) | one array shared by a heap from below (`cotab`, long delays and fractions) and cells from above (cyclic buffer of 128 seconds, lists `running`, `immediate`, free list); `timestamp`, `timeout`, `cotime`, `timediff` | `check`, `create`, `remaining`, `del`, `call`, `delay`, `save`, `restore` | full table, order between structures, time that jumps, cached time, tables of other sizes |
| main loop (`src/dgd.cpp`) | `intr`, `rebuild`, `rtime` | rebuild of the swap file, interrupt, `delay` + `receive`, `call`; `endTask` after each task | must never sleep past a call-out |
| dataspaces (`src/data.cpp`) | per object: variables, strings, arrays, call-outs by handle with a free list; the planes of atomic functions with patches of all of these; the sectors where it is stored | `newCallOut`, `delCallOut`, `callOut`, `Dataplane::commit`, `discard`, `save`, `load`, `xport` | nested rollback, patches that merge, part of an object saved |
| objects (`src/object.cpp`) | object table, hash table of names, lists of free, destructed and to-be-cleaned objects; `ObjPlane` patches; upgrade lists; bitmaps of objects in a snapshot | `create`, `clone`, `del`, `remove`, `find`, `upgrade`, `newPlane`, `commitPlane`, `discardPlane`, `clean`, `copy`, `save`, `restore` | one link used by two lists, two hash tables, names that come back |
| swap file (`src/swap.cpp`) | sector map, slots of the cache, LRU list, free sectors, free indices, barrier | `alloc`, `delv`, `wipev`, `readv`, `writev`, `dreadv`, `conv`, `save`, `save2`, `restore` | what is referred to by a snapshot must not be overwritten; map entries with two meanings |
| snapshots (`src/config.cpp`) | header, primary and secondary file | `dump`, `restore` | crash at any step, objects in three files |
| interpreter (`src/interpret.cpp`, `src/error.cpp`) | frames, `rlim` (depth, ticks), error contexts | `funcall`, `atomicError`, `restore`, `newRlimits`, `setRlimits` | ticks halved and doubled when atomic functions nest and fail |
| arrays and mappings (`src/array.cpp`) | reference counts, hashed part of mappings, backups per plane | `backup`, `commit`, `discard`, `mapClean` | a value shared by variables of several planes |
| connections (`src/comm.cpp`) | users, output buffers as LPC values, flags, list to flush | `write`, `flush`, `receive`, `close`, `block`, `del` | closing while output is pending, in an atomic function |
| editor (`src/editor.cpp`, `src/ed/`) | line buffer: blocks of a temporary file, shared subtrees | `cat`, `split`, `put`, `get` | blocks cached by three buffers |
| compiler, scanner (`src/comp/`, `src/lex/`) | private to a compilation | `compile` | - |
| parse_string (`src/parser/`) | DFA and SRP made as needed, saved with the object, with caches of limited size | `parse_string`, `save`, `load` | classes of characters split while states use them; one packed table; parses that fork and merge; states thrown away while in use |
| kernel functions, strings, paths, memory, host, extensions | - | - | - |

How they interact. The loop calls `CallOut::call`, which hands a call-out to
`Dataspace::callOut` of its object, which frees the handle and calls the
function. A task starts call-outs through `Dataspace::newCallOut`, which asks
`CallOut::check` for a list and a time and then either tells
`CallOut::create` at once or, in an atomic function, leaves it in a patch
until the outermost atomic function returns. Error contexts undo atomic
functions from the innermost: `Frame::restore` calls `Dataplane::discard` and
`Object::discardPlane`. At the end of each task `DGD::endTask` flushes output,
cleans up destructed objects, swaps out a fraction of the dataspaces, and
makes a snapshot if one was asked for. After a full snapshot the loop copies
objects from it to the new swap file, some at a time (`Object::copy`).

What makes each component correct:

- *call-outs*: each runs once, not before its time, in the order of their
  times, unless it is removed; the table never overwrites one; the loop wakes
  up in time.
- *atomic functions*: all or nothing at each level of nesting, for call-outs,
  objects, variables, arrays and ticks.
- *objects*: what exists is found by its name and nothing else is; an index is
  in just one list.
- *swap file*: what was saved is what is read; no sector is lost or has two
  owners.
- *snapshots*: the last complete snapshot can be restored whenever the process
  dies.
- *connections*: output that was accepted is sent in order, or the connection
  is closed. *Editor*: a buffer holds the lines that its commands left.

The hazards of this code, each at its line, are listed in `PROJECT.json`
with the properties that cover them.

## 2. Plan

The order is by what would hurt most: work that is never run, then work that
is not undone, then data that is lost.

| | module | models | abstract specification | state |
|---|---|---|---|---|
| 1 | `CallOutSpec` | what call-outs promise | - | done, proved about |
| 2 | `CallOutTable`, `CallOut` | `call_out.cpp`, main loop | refines `CallOutSpec` (TLC) | done |
| 3 | `AtomicStore` | what atomic functions promise | - | done |
| 4 | `DataCallOuts` | call-outs of one object with planes | refines `AtomicStore` (proved) | done, proved about |
| 5 | `AtomicCallOuts` | `CallOut` composed with one level of patches | - | done |
| 6 | `ObjectPlanes` | object table with planes | refines `AtomicStore` (proved) | done, proved about |
| 7 | `Swap`, `Snapshot` | swap device, snapshots, crashes | - | done, proved about |
| 8 | `Frames` | frames, error contexts, ticks and depth | - | done, proved about |
| 9 | `DataPlanes` | variables and arrays on planes, import and export | rollback as a history | done |
| 10 | `Comm` | users, output buffers, close, flush | output as a history | done, proved about |
| 11 | `Nodes`, `Parser`, `Optimize`, `Codegen`, `Interpret` | function bodies from source to result | `Meaning` | done |
| 12 | `Asn`, `AsnOps` | arithmetic of long integers | integers | done |
| 13 | `Rgx`, `Dfa`, `Grammar`, `Srp`, `Parse`, `ParseString` | scanner and parser made as needed, saved with the object | `ParseMeaning` | done |
| 14 | `ObjectUpgrade` | clones, references, upgrades, `clean` | reference counts | later |
| 15 | `LineBuf` | block tree of the editor | sequences of lines | later |

Also planned: handle 0 and the summand in `DataCallOuts`; mappings; a restart
into a smaller call-out table; the window in which a crash loses a snapshot
with a secondary one (section 6).

Theorems: those of `DataCallOuts`, `ObjectPlanes`, `Frames`, `Comm`, and of
`Swap` with `Snapshot` are proved (section 5). Planned: the planes of arrays of
`DataPlanes`; the invariants of the heap, once the sifting is written without
recursive operators.

## 3. The modules and the code

### CallOutSpec
A call-out is free, waiting or ready. An expiry pass (`Expire`) makes those
ready that are due on the present clock; `SetClock` may set the clock to
anything. `seen` is the latest clock on which a pass acted.

### CallOutTable and CallOut
`CallOutTable` has the table as one record `co` and the operators that change
it, named after their functions: `Enqueue`, `Dequeue` (with `SiftUp`,
`SiftDown`), `NewCallout`, `FreeCallout`, `RemoveShort`, `Splice`. The heap is
`cotab[0 .. queuebrk-1]` as a sequence; cells have `count`, `prev`, `next` as in
the code, and the head of a list has the count and the last cell of the list
in the fields that it shares. Counts that the code subtracts in unsigned
arithmetic are taken modulo `IndexMod`, which the cfg sets to 64 (2^16 or 2^32
in the code).

`CallOut` is the loop. `phase` says where it is: `delay` (about to compute how
long to wait), `receive` (waiting), `call`, `run` (call-outs are left in
`running`) and `task`. A task starts, removes and asks for call-outs any
number of times; `EndTask` drops the cached time. Time is one number of clock
units, `SecUnits` of them to a second; `cot` is the cached time of `cotime`,
0 for none. `Tick` lets the clock run at any point. `SetBack` sets it back
(`timediff` in the code is computed from a clock that can do that), `Restart`
is a snapshot and a restart with a table of another size. `sched` is what the
dataspace keeps for a call-out: the time that `check` returned, by which
`del` later looks for it.

Abstracted: what a call-out calls; the swap rate counters; the 32 and 64 bit
packing of times (times stay far below the limits); loops over lists are
operators on sequences of cells.

### AtomicStore
A map from keys to values with nested transactions. `saved[d]` is the map as
the `d`-th function found it.

### DataCallOuts
The call-outs of one object. `slot`, `count` and `free` are the array of
call-outs with its free list; `patch[l][h]` the `COPatch` of handle `h` on the
plane of level `l`; `table` the entries of this object in the call-out table,
`pending` the static `ncallout`. `Return` and `Fail` begin a commit or a
rollback, `CommitPatch` and `DiscardPatch` handle one patch, in any order since
the code goes through a hash table, and `Leave` ends it. `Merged` is the table
of cases in `commitCallouts`. `Save`, `Trim`, `Saved` is the loop in `save`
that drops unused handles at the end. Whether the table is full depends on
other objects: a refused call-out changes nothing, so the guard is left to
`AtomicCallOuts`.

Not in it: handle 0, the call-outs with a fractional or no handle that are
kept as a *summand*, and their arguments.

### AtomicCallOuts
`CallOut` with one level of patches, so that both halves of `newCallOut` and
`delCallOut` are there: the list and time are chosen when the function runs,
and used when it returns, when the clock and `timestamp` have moved. `Extra`
is `ncallout`, an argument of `check`. Nested functions are in `DataCallOuts`,
by which patches of inner functions have become patches of this level.

### ObjectPlanes
A record of an object is at an address `<<l, i>>`: level 0 is the object
table, levels above are patches. `static` and `htab` are the two hash tables,
with a chain for each name; `next` of a record is a link in such a chain while
the object lives and in the list for `clean` once it is destructed, as in the
code. `cref` and `prev` are likewise the links of the list of destructed and
of free objects. `Read` and `Write` are `OBJR` and `OBJW`, `Object::access`.
`CommitToTable`, `CommitToPlane` and `DiscardPatch` are the loop bodies of
`commitPlane` and `discardPlane`.

Abstracted: clones and references are one flag, `kept`, that keeps a
destructed master from being removed; programs, dataspaces and upgrades are
left out.

`ObjectPlanes_proofs` begins with lemmas about the lists (`Lists`, `Prepended`,
`FirstTaken`, `Reversed`) and the records that count (`Top`), before the
inductive invariant of section 5.

### Swap and Snapshot
`Swap` has operators on a record: the sector map, the slots, the LRU list and
free list of slots, the free sectors (`mfree`), the free indices of the swap
file (`sfree`, relative to the barrier), `nsectors`, `ssectors`, `sbarrier`,
and the contents of the slots and of the file. An entry of the map below the number of slots
may be a slot or an index; `Cached` decides it as `load` does. `Unused` is
`SW_UNUSED`, of which all that matters is that it is no index. A loop over a
vector of sectors is `Each` with the operator for one sector.

`Snapshot` has the objects: where each is (`memory`, `swap`, `dump`), its
vector and contents; the file named by `dump_file`, and the one with `.old`
added. `Dump` is `Config::dump` up to `Swap::save`, `Finish` the rest
(`Swap::save2`); between them only a crash can happen, since the process is in
`dump`. A full snapshot leaves all objects in the snapshot, from where
`Restore` or the next `Dump` get them back. An incremental one leaves the
swap file in place, with the barrier above it. `Crash` starts the process from
what is on disk: the last snapshot with the secondary one, or, if that one is
not complete, the one before. It is the operator, or the script that starts
DGD, who moves `.old` back; the model lets it happen.

Abstracted: a sector is one value; the tables of a snapshot (map, objects,
call-outs, connections) are one sector after the last, while what is in them is
in the record of the snapshot; the contents that a free slot or a free index
had are dropped, and so are the parts of old files that nothing refers to;
objects are modified in memory in the step in which they are swapped out;
compression is left out. The swap file is on the same file system as the
snapshot, so it is moved and not copied.

### Frames
The stack of what the interpreter is in: functions, atomic or not, bodies of
catch and of rlimits, guards (the C++ code that catches errors, such as the
main loop), and critical calls. Error contexts are a list as in `error.cpp`,
with `atomicFrame`; an error is told and handed on context by context
(`Error`, `AtomicError`, `Defer`, `Restore`, `Handle`, `PassOn`, `Throw`), and
handlers run LPC code, which may fail. `rlim` is the list of limits; ticks are
halved when an atomic function begins and doubled when it ends.

`blocks` are the C++ activations: each remembers the frame `f` and the scope
`rlim` it began in, where the code has local variables, and what it does with
an error it has caught (`then`). `frames` and `contexts` are the linked lists
of the code from their ends; a context has the address that `atomicFrame` and
`e` point to, which may be used again by another context when it is gone.
`Frames_proofs` begins with the inductive invariant of section 5.

Abstracted: which function is called; costs are from a small set, `Costs`;
stack depth is a limit on `MaxBlocks`.

### DataPlanes
Two dataspaces that share arrays. `var` and `elt` are the values of variables
and elements of arrays, each with its plane; `Backup` is `Array::backup`,
`Leave`, `Merged`, `Undone` the commit and rollback of a plane, `Import` and
`Exported` what happens to arrays of other objects at the end of a task. The
reference counts of an array by its owner, the counts of imports on each plane,
and what a partial save would store are in the state.

Abstracted: the values are nil, one object that may be destructed, and arrays;
mappings and light-weight objects are arrays here (`array.cpp` and `data.cpp`
handle them the same), strings are not modelled; dataspaces are in memory; the
order in which objects import at the end of a task is any order, and arrays
that two objects share through elements may be split then, in the code as well.

### Comm
`usr` is the array of users in slots, with flags, the connection, the buffer
of output, and the list to flush; `Send`, `Block`, `Close`, `Connect` are what
LPC code can ask for, each of which leaves something for `FlushUser` at the end
of the task. `Receive` is one pass over the connections. The host takes any
part of the output, connects or fails, and closes, as it likes.

What a task asks for is in the extra array of the object, and is undone with
it when an atomic function fails; the flags of users and the flush list are
not. Arrays are numbered for each object (`ArrayId`), one more than there are
slots, since a user in the flush list may still hold one that its object lost.
`Write` puts the user in the flush list first, as the code does: which part of
the buffer is done is that of the string which `addtoflush` has noted.
`Comm_proofs` begins with the inductive invariant of section 5.

Abstracted: the telnet protocol, echo and prompts, and the datagram channel of
binary connections; objects are initialised before they get a connection; the
fatal error when `connect` finds no server is left out.

### Compiler and interpreter
`Nodes` has the parse tree and the integer operators; `Parser` what the
grammar's actions and `Compile` make of a function body, with the conditions
that follow which variables have been set (`Cond`) and the initializers of
blocks; `Optimize` is `optimize.cpp` for these nodes, with side expressions and
the depth of the stack; `Codegen` makes instructions and chases jumps, and its `Funcbody` is all of
the compiler;
`Interpret` is a machine that runs them, one instruction to a step; `Meaning`
is what the source means, defined from the language and not from this code.

A function is one of a set in `MCCompiled`, 50,000 in all: expressions two
operators deep over integers of 8 bits and constants at the edges, all
statements nested in each other, and functions written out for jumps. Kept out
are forms that are known to be compiled wrongly (section 6) or are undefined
in C++ (the lowest integer divided by -1).

Abstracted: strings are the texts of errors only; rlimits are privileged; the
tables of switches are not compressed; jump lists are sets; functions are
called with all arguments; line numbers, the encoding in bytes and `max` of
the depth of catch are left out.

### Asn and AsnOps
`Asn` has the operators on numbers of words, least significant first (`Asi`),
`AsnOps` the conversion from and to strings and the operations that LPC calls.
Words have `ByteBits * WordBytes` bits: 2 and 4 in the run, 32 in the code; the
limits at which the code changes its method are the same in words. Junk in
memory that is read before it is written is an argument of the job.

### parse_string
`Rgx` makes programs of regular expressions and finds the positions in them
where a match can be; `Dfa` is the automaton that is made of these, state by
state as the text asks for, with classes of characters that a new state may
split; `Grammar` numbers the rules of a grammar as they are written; `Srp` is
the LR(0) automaton made in the same way, with its shifts and gotos packed in
one table; `Parse` keeps all parses of a text side by side, merges them, and
makes arrays of the result. `ParseString` is an object that calls
`parse_string` and is swapped out and in between calls: the parser is kept,
saved (`SavedParser`) and loaded. `ParseMeaning` says what regular expressions
match, what the tokens of a text are and which parses it has, defined from the
grammar and not from this code, and has the grammars and texts to try: nullable and ambiguous rules, strings that are prefixes of tokens, `whitespace`
and `nomatch`, functions that refuse a parse.

`ParseString` takes the operations of a parser as constants, and the cfg of
`structures` gives them those of `Parse`; a grammar is a value of its own, so
that the state of the run stays small.

Abstracted: characters are three; ticks are left out; what is saved is a record
of what the buffers hold, with their sizes; a buffer that is used after it has
been enlarged is junk (`Srp`), and what depends on it is left open.

### MCStructures, CallOutHeap and Algorithms
One run for what stands by itself: `DataCallOuts`, every heap of call-outs,
objects that call `parse_string`, and calls of the algorithms, each compared
with its definition (`AsnCalls`, `ParseMeaning`). `Algorithms` is generic: the
jobs, what the driver returns and what agrees with the definition are constants.

## 4. The runs

| run | distinct states | what it shows |
|---|---|---|
| `call_out_table` | 455 000 | Three call-outs with delays of 0, 1, a fraction and more than the cyclic buffer, in a table of four entries, 2 units to a second, clock 2..8: nothing is overwritten, `del` finds each call-out, counts are right, `timeout` is the first slot in use, call-outs run in due order, `remaining` is exact. |
| `call_out_promise` | 239 000 | Two call-outs, and one set-back or restart into a larger table at any point: the table implements `CallOutSpec`, the free list survives, the loop does not sleep past a call-out, and under fairness each call-out that is due before the clock stops is run or removed. |
| `call_out_overflow` | violation | A full table with a long delay in it overflows. |
| `atomic_call_outs` | 1 090 000 | Two call-outs in a table with room; removals, additions and replacements are committed one at a time, late, and with the clock set back. |
| `structures` | 255 000 | One object, three handles, two levels of atomic functions: the free list, the pending count and the patches are right at each step of a commit or rollback, the table has what the outermost function found, and each function is atomic. Every heap of up to seven entries, built and taken apart in any order: it stays a heap, and loses just the entry that is taken out. 50 000 calls of the ASN functions give the right number. Regular expressions match what they mean; up to four calls of `parse_string`, with the object swapped out in between, return the values of the parses of the text, however much of the automata is made before or loaded; the sizes of what is saved are those counted. |
| `object_planes` | 595 000 | Two objects, two names, two levels: names are found, chains and lists stay whole when a plane is committed or undone, indices are given back, and the set of objects is atomic. |
| `object_planes_name` | violation | The same with a name used anew in a nested function that fails. |
| `snapshots` | 946 000 | Two objects, one of up to two sectors, in three sectors and two slots, full and incremental snapshots, a crash at any step: objects read back from whichever file they are in, sectors are accounted for, the cache stays a cache, and the last complete snapshot can be restored. |
| `frames` | 3 300 000 | Up to seven blocks of atomic functions, catch, rlimits, guards and critical calls, with errors anywhere: a plane is there for each atomic function that has not ended and for no other, every error is told once, ticks are used up and never won. |
| `data_planes` | 1 300 000 | Two objects, three variables, two levels, five assignments to a task: no array points to a plane that is gone, counts of imports are right, a partial save stores what changed, after a task no array is in two objects, variables that shared an array in an object still do, and a rollback brings back what was there. |
| `connections` | 3 000 000 | Two objects, two slots, tcp and datagram, three operations to a task: slots and counts, output in order and complete, requests done when the task is over, `message_done` is called. |
| `compiled_code` | 4 070 000 | Each function gives the result, or the error, that its source means; the stack never needs more than was asked for; catch and rlimits are left as often as entered; typed operators get integers; loops end. |

### The bounds, and why they are enough

- *Call-outs*: three are enough for a list with a first, a middle and a last
  cell, and for one cell in each of three structures. `CycSize` 4 (128 in the
  code) leaves each second of the run its slot and lets the cyclic buffer wrap.
  `MaxTime` 8 is twice that. In `call_out_table` the table has one entry more
  than there are call-outs: one with no entry to spare overflows
  (`call_out_overflow`).
- `MaxLag` is 2 where the code has 60 seconds; it is passed in these runs, so a
  late loop is included.
- *Clock set-backs and restarts*: one (`MaxEvents`), since the state after it
  is a state of the table as any other.
- *Handles and levels*: `structures` has two levels; its proofs have no
  bound. Three handles give a free list with a middle.
- *Planes*: two levels and two objects give each of the cases of
  `commitPlane` and `discardPlane`: a patch on top of none, of one on the
  plane below, and of the table; the proofs need neither bound.
  `RecompileLevel` 1 keeps `object_planes` away
  from the one case that is known to be wrong (section 6); that case is
  `object_planes_name`.
- *Frames*: seven blocks let an atomic function be in a catch in an atomic
  function with rlimits between them, and `MaxHandling` 2 is an error in the
  handler of an error. `RemoveFails` leaves out a case of section 6.
- *Data planes*: six arrays, of one element; five changes to a task are an
  array made, stored, changed on two levels, and dropped. `OwnerCleans` leaves
  out a case of section 6.
- *Connections*: two slots make a list to flush with a first and a last user,
  and let a slot be used again while the other user closes; a buffer of two
  bytes can be full, half sent, and empty. `Talkers` restricts which object
  writes.
- *Compiled code*: 8 bits have the edges of 32; `MaxLoops` 4 is the bound on
  jumps back, which no function of the set needs to pass.
- *ASN*: five words cross the limits of Karatsuba's method (3 words), of
  `multRow` and of the window of `powqmod`.
- *Swap*: two contents are told apart for one object; the other objects are in
  its way, with one sector. With two slots for three sectors a load evicts
  another sector, written or not, while a slot stays in the list.
  `ShortOnceSaved` lets vectors grow and shrink as long as no snapshot is made,
  after which they have one sector. The proofs (section 5) need none of these bounds.
  `MaxIndex` bounds the swap file, and only that keeps incremental
  snapshots finite: at `MaxIndex` 4 a sequence can have four snapshots.

The cfgs of the call-out table use a `VIEW` without the history variable
`seen`, which no invariant of those runs mentions; `call_out_promise`, which
needs it, has none. Symmetry is over call-outs, names or contents, which the
modules compare for equality only; the run with a liveness property has no
symmetry.

Deadlock is checked in every run but two: in `compiled_code` a function
returns, and in `connections` all operations can be used up.

### Fairness

`call_out_promise` assumes that the one thread keeps going (`Fairness`): each
phase of the loop is left for the next; tasks end (LPC code is limited by
ticks); the clock runs. Two of the conditions are strong: from `delay` to
`receive`, which an interrupt may come before, but `intr` is looked at once in
each pass; and from `receive` to `call`, which input may come before, but
`Comm::receive` handles each connection once and then returns. No fairness is
assumed of tasks that start or remove call-outs. The property says nothing of
call-outs that are due after `MaxTime`, where the model's clock stops.

## 5. The proofs

`DataCallOuts_proofs` proves about `DataCallOuts`, for any set of call-outs,
any number of handles and any number of levels (from `DataAssumption`:
`MaxHandle` and `MaxLevel` are natural numbers, and `None` and `NoPatch` are
neither call-outs nor patches):

- `TypeCorrect`, `FreeListCorrect`, `PatchesCorrect`: the
  invariants `TypeOK`, `FreeRight`, and `PatchesRight`, which is `PatchesChain`
  and `TableIsBase`;
- `Atomicity`: `Spec => IsAtomic`, that is, `DataCallOuts` implements
  `AtomicStore`.

The argument. `View(l)` is what the object had for each handle when the
planes above `l` are undone: what the lowest patch above `l` found, or the
present call-out. `PatchesChain` says that a patch leaves just what the view of
its own level has; so the patches of a handle form a chain from the table to
the present. `IInv` is the conjunction of `TypeOK`, `FreeRight`,
`PatchesChain`, `TableIsBase` and `ModeOK` (a commit or rollback goes on only
at a level above 0). None of them is inductive alone: that a rollback can take a
handle back from the free list (`Alloc` in `DiscardPatch`) follows from the
chain, that the chain is kept by `NewCallOut` needs that the new handle is
free, and the table needs the chain at level 1. `SameBelow` is the lemma that
carries most: a step on the top plane that leaves the view of the plane below
alone leaves all of the lower ones. There is one lemma for each action, and
`MergedIsBoth` for the nine cases of `Merged`. For the refinement each action is
shown to be a step of `AtomicStore` or to change nothing there: `Return` is
`Commit` and `Fail` is `Abort`, as from then on the outcome is settled, and the
patches that are handled one by one after that are not seen.

`CallOutSpec` ends with a proof of `NeverEarly`: from `TimeRight` (times are natural
numbers and 0 is one of them), `Spec => []ReadyWasDue`. With `call_out_promise`,
where `CallOut` implements `CallOutSpec`, this is what keeps a call-out from
running before its time however the clock is set.

`CountCorrect` is `CountRight`: the number of call-outs that are still to be
added to the table (`pending`) is what the patches of all planes would add less
what they would remove. Each patch has a weight; `MergedWeighs` says that the
weight of a merged patch is the sum of those of the two, and that this may be
counted for one handle at a time follows from the library's facts about
cardinalities. It needs the chain: the weight of a merged patch is right only if
the upper one starts from what the lower one leaves.

`Frames_proofs` proves about `Frames`, for any costs, limits and bounds on nesting:

- `FramesCorrect`: `FramesRight`, that code always runs with as many planes as
  its level, and that frames, scopes and contexts fit each other;
- `ErrorsToldOnce`: `ToldOnce`;
- `TicksCorrect`: `TicksRight`, that what a scope has left of its ticks is what
  was not used.

They assume `~RemoveFails`, since with an error in `remove_program` they are
false (section 6). The argument (`Inductive`): `IInv` says how the
three stacks are interleaved (`FramesUp`, `BlocksUp`, `BlocksNest`,
`ContextsUp`), and what is known of an error on its way: `Pending` says for one
error where it goes, whether it has been told there, and which planes it has
still to undo. The error that is handled now is pending in all contexts, one
for which a handler runs is pending in those below (`Suspended`), and one whose
rollback is left to another context is pending there (`Deferred`). `Handled`
is why a context with a handler is always found at the right level: no atomic
function is entered twice without a handler between. There is one lemma for
each way to enter and leave a block, and one for each step of an error.
On instances with one block less than those of `frames` TLC finds no violation
of `IInv` either.

`TicksRight` needs one invariant more, `Ticks`: a scope has its ticks at the
level of the code by which the next scope was made (`level`), and that code is
the first frame that is in the next scope or above it (`Maker`). From `IInv`
follows that when scopes are left, by a return, an exception or a rollback, all
of them were made at one level, the one that is left (`TicksFrom`); so what
they give back may be added up (`SetRlimitsTicks`) and then be doubled
(`RestoreTicks`). That a tick is twice one of the level below (`UnitIs`) and
what a sum of any length is (`GivenBackIs`) are inductions by the least element
of a set (`NatSet`). TLC finds no violation of `Ticks` in `frames`.

`Comm_proofs` proves about `Comm`, for any number of objects, slots and bytes, any size of buffers and any nesting
of atomic functions and `close()`:

- `UsersCorrect`: `UsersRight`, that the ring, the slots and the objects with
  the role of a user agree between tasks, and `odone` counts;
- `OutputCorrect`: `OutputKept`, that output is neither lost nor sent twice nor
  reordered;
- `RequestsCorrect`: `RequestsRight`, that users do what their objects ask for.

They assume `~Reconnects`: an object that a user still has to do with is not
connected again. In the code it can be, and then they do not hold: these are
the cases at `src/comm.cpp:450` in `PROJECT.json`. From `CommAssumption` they
use that there are finitely many slots and that `None` is nothing else.

The argument (`Inductive`): the code keeps what is asked for in arrays, which
failing atomic functions restore, and flags and lists, which nothing restores.
So `IInv` looks at all *versions* of the objects and arrays: that of
the running code and those that each atomic function in progress would bring
back. `Agree` says when the fields of a user suit a request; each version in
which an object is a user has to suit (`Belongs`), and of a user that is not in
the flush list nothing was asked since any of them (`Untouched`), so that all
of them have the same array for it. A request puts the user in the list
(`AddVersions`), after which the other versions suit it as they did, and the
running one may change alone; a failure makes the last version the running one
(`FailRight`); and the flush runs when there is one version left. For `write`
and the flush, `AgreeSent` and `AgreeFlushed` say that what is left of a buffer
is what is due, whichever string `osdone` belongs to. `UsersApart`,
`FlushListed` and `ClosesRight` are what this needs of the lists and of
`close()`. TLC finds no violation of `IInv` on the instance of `connections`.

The proof found an error in the model: which part of a buffer is done was
looked up before `addtoflush` and not after it, which makes no difference to
buffers of two bytes.

`Swap_proofs` and `Snapshot_proofs` prove about `Snapshot`, for any number of
sectors, slots and objects, vectors of any length and any contents:

- `SectorsCorrect`: `SectorsRight`, that slots, sectors and indices of the swap
  file are each in one place, used or free;
- `ReadsBackCorrect`: `ReadsBack`, that objects are read back as they were
  saved, from the cache, the swap file or a snapshot;
- `RecoverableCorrect`: `Recoverable`, that nothing that is done to the swap
  file touches what the last snapshot needs.

They assume that there is a sector and a slot and that `Unused` is not an index
(`SwapAssumption`), and that there are finitely many objects, the kinds of
snapshots are truth values and sizes are natural numbers
(`SnapshotAssumption`). `MaxIndex` may be anything.

The argument. `Good`, in `Swap_proofs`, is what is expected of the device, given
the sectors in use, those of them that own something in the swap file, what
sectors are to hold, and from where those that are not in the swap file are
loaded. Its parts are `Caching`, `Sectoring`, `Indexing`, and: `Clean`, that
only a sector with a place in the swap file can be dirty; `Held`, that a sector
has its content and that, if the slot is not dirty, the file has it too;
`Guarded`, that the file below the barrier is as it was. They need each other:
a slot that is evicted without being written leaves its content where `Held`
says it is, in the swap file or in a snapshot; an index that is written to is
free, or owned by this sector and above the barrier, so no other sector loses
its content (`Indexing`) and no snapshot does (`Guarded`). There is one lemma
for each operator of `Swap` (`WriteOutGood` to `AllocGood`), each from `Good`
to `Good`, with sectors and contents gained or lost on the way.

`Store`, in `Snapshot_proofs`, is `Good` for the vectors of the objects. `IInv`
is the conjunction of types, `Modes` (without a swap file of its own, the last
snapshot is below the barrier), `Finishing` (between the steps of a snapshot
nothing is dirty and the tables are in the file), `StoreInv` and `Recoverable`.
`Quiet` names what the actions have in common that change only the device and
objects, so that `Modes` and `Recoverable` are shown for all of them at once
(`QuietGood`); `Dump`, `Finish` and `Crash` have lemmas of their own. A restart
is `Good` at once, as the saved map and free list of sectors are those of a
device that was `Good` (`Sound`), and objects of the secondary snapshot are then
copied as in `Dump`. On the instance of `snapshots` TLC finds no
violation of `IInv`.

Loops over vectors of any length need an induction. `Repeat` has the rule: what
holds before the first pass and is brought forward by each holds after the last.
It is instantiated for every loop (`Wiping`, `Deleting`, `Reading`, `Writing`,
`Restoring`, `Flushing`, `Saving`, `Copying`).

`ObjectPlanes_proofs` proves about `ObjectPlanes`, for any names, any size of
the object table and any nesting of atomic functions:

- `NamesAlwaysRight`: `NamesRight`, that names lead to the objects that have
  them, and to no others, and that the chains of both hash tables end;
- `IndexListsAlwaysRight`: `IndexListsRight`, that at each level every index is
  in just the list where it belongs, and no list has one twice;
- `Atomicity`: `Spec => IsAtomic`, that is, `ObjectPlanes` implements
  `AtomicStore`: objects that a failing function created are gone and those that
  it destructed are back, under their names.

They assume `RecompileLevel <= 1`: above that `Findable` is false, as
`object_planes_name` shows (section 6). From `PlaneAssumption` they use that
there is room for an object and that `NoName` is no name, from
`NoPatchAssumption` that `NoPatch` is not a record.

The argument (`Inductive`). `Top(o, l, i)` is the record of object `i` that
counts at level `l`, and `View(o, l)` has those of all objects. The actions
change, move and delete patches, and what has to be seen is how little that does
to the views: `Only` says that a step of a program changes one record in the
view of its own level; a patch that is committed (`Committed`) leaves
every view but that of the level below as it was, and one that is discarded
(`Discarded`) every view but that of its own plane. Records `Agree` when they
differ only in their index and, if live, in the link of the hash chain, and lists
do not see the difference (`AgreeingLists`). `IInv` has these parts:

- `ObjectsRight`: a patch has a name and its index, no chain goes on from a live
  one, and the object in the table has that index or none;
- `GrownRight`: seen from a plane above, a name stays and what is destructed stays
  so; with it a patch that is undone gives its name to no other object;
- `FreshRight`: what is live on a plane and not on a lower one has a name that
  nothing has on the lower one, destructed or not. This is where `RecompileLevel` comes in, and it is
  why two patches with one name cannot be undone in the wrong order;
- `PlanesRight`: at each level, names are unique, the lists are right
  (`ListsGood`) and the objects in use have their index somewhere (`IndexedRight`),
  except at the level which the loop is changing (`Settled`): while a plane is
  committed that below it is between two states;
- `HtabRight`: the hash table of the patches has exactly the live ones that count,
  until the patches of the lowest plane are committed;
- `StaticRight`: that of the table has the live objects of the table, and while
  the lowest plane is committed a chain may go on to an object whose
  destruction has still to come (`Chained`).

Alone none of them is inductive. That `DiscardPatch` gives a name back to the
right record needs `GrownRight` and `FreshRight`; that `CommitToTable` takes the
right entry out of a chain, whichever patch comes first, needs `Chained`; and
`alloc` takes an index that nothing uses because of `PlanesRight`. A list is
a sequence that its links run through once (`Runs`), which `Chain` returns
(`ChainIs`) though it is a recursive function; what an operation does to it is
`Prepended`, `FirstTaken` or, for `clean`, `Reversed`. For the refinement, `Create`
is `Put`, `Destruct` is `Delete`, `Enter`, `Return` and `Fail` are `Begin`, `Commit`
and `Abort`, and nothing else is seen. On the instance of `object_planes` TLC
finds no violation of `IInv`.

Only model-checked: the properties of all other modules, of which
`DataPlanes` could be proved about as it is. That `CallOut` implements
`CallOutSpec` is model-checked too.

Out of the prover's reach, and left to TLC: liveness and `ENABLED`; and the
modules with `RECURSIVE` operators, which are `CallOutTable`, `CallOut`, those
of the compiler, of the ASNs and of `parse_string`, and those that extend them.
The library's rules of induction have operators for parameters and cannot be
used; but that a set of natural numbers has a least element can be (`WFMin`),
and gives an induction for one definition at a time. `Repeat`,
`DataCallOuts_proofs`, `Frames_proofs` and `ObjectPlanes_proofs` have theirs from it. What a recursive
definition computes from trees, as sifting a heap of any size, is not in reach
in this way as long as it is written with `RECURSIVE`.

## 6. Findings

1. *A full call-out table overflows* (`call_out_overflow`,
   `src/call_out.cpp:167`). Entries of the heap become cells when they expire.
   A heap entry and a cell are the same size here, but the cell at index 0 is
   the null link. `check` keeps one free when a call-out is added
   (`cycbrk - n == 1`), not when one moves: with the whole table in the heap,
   the last entry to expire is given cell 0 and is lost.
2. *An object that was brought back is not found* (`object_planes_name`,
   `src/object.cpp:451`). An atomic function touches an object, a nested one
   destructs it, compiles another of the same name, and fails. If the patch of
   the old object is undone first, its name leads to it again, in front of the
   new one; undoing the new one then removes what is in front.

Others are kept out of the passing runs by a constant or by the choice of
inputs:

- An atomic function that removes and adds with a full call-out table
  overflows it (`src/call_out.cpp:328`): `check` counts a removal that is still
  to be committed as room, but the addition may be committed first.
- A restart into a smaller call-out table subtracts unsigned sizes
  (`src/call_out.cpp:839`), and the test that should refuse it (`:847`) does not
  see that the result has wrapped.
- A process that was started from a snapshot with a secondary one unlinks the
  file with `.old` added (`src/swap.cpp:762`), which is the secondary one, when
  it begins a new snapshot, and from then on until the new one is complete there
  is none that can be restored; `Recoverable` excludes that case.
- `RemoveFails`: an error in `remove_program`, called in an atomic function, is
  ignored by a context that does not end the rollback it started
  (`src/error.cpp:160`): `atomicFrame` stays set and later atomic functions that
  fail are not undone.
- `OwnerCleans`: operations that read an array and remove destructed objects
  from it back it up as if its owner did it (`src/array.cpp:941`), so that a
  rollback brings back the object but not the element.
- Connections: see the notes of the hazards at `src/comm.cpp:123`, `:272`,
  `:450`, `:897` and `:1432` in `PROJECT.json`.
- Compiler: see the hazards at `src/comp/optimize.cpp:70`, `:795`, `:1770`,
  `src/comp/compile.cpp:2040` and `:2161` and `src/comp/codegen.cpp:378`.
- ASN (`SumExcepted`, `ProductExcepted`, `PowerExcepted` in `AsnCalls`):
  Karatsuba's middle sum is one word short when the factors have 4 and 3 words
  (`src/host/asn.cpp:309`); `a mod a` is `a` (`:1583`); a negative base with an
  even exponent (`:1665`); modulus 1; exponent 1 with a base two words longer
  than the modulus; an even modulus with a negative exponent, or one of more or
  fewer words than its power of two (`:991`); negative powers of the word base
  (`:1079`, `:1217`).

- `parse_string`: after whitespace the scan goes on one character back from
  where it stopped, which is wrong if it has read more than one beyond the
  match (`src/parser/dfa.cpp:1618`); a state that makes the automaton too big
  has transitions that were never set (`:1563`); in a regular expression the
  way out of a `+` that ends an alternative is lost, and `a||b` reads a node
  that was never set (`src/parser/grammar.cpp`); the packed table is used
  through a pointer from before it was enlarged (`src/parser/srp.cpp:757`);
  saving again after a load with only the first state expanded, and a parser
  that is saved when it was loaded and is still in memory
  (`src/data.cpp:3943`), whose strings are gone; a string of a grammar is
  looked for in the wrong list (`src/parser/grammar.cpp:970`). Grammars with
  cycles or hidden left recursion, for which there are infinitely many parses,
  are left out.

## 7. Not modelled

The components without modules are in the plan or listed here. The scanner and
the preprocessor are sequential and keep no state between calls; so are most
kernel functions. The memory manager is below the level of these models: it
appears as the guard of an allocation. The host is the clock, the files and the
other end of connections. The extension interface and the JIT compiler are for
modules outside of the repository. Failing I/O is fatal in the code, which is a
crash in `Snapshot`. Conversion of snapshots of older versions is left out.
