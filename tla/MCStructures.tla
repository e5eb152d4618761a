---------------------------- MODULE MCStructures ----------------------------
(***************************************************************************)
(* Data structures and algorithms of the driver which are correct, or not, *)
(* by themselves, in one run: part says which of them the behaviour is     *)
(* about; the others stay as they were made.                               *)
(***************************************************************************)
EXTENDS DataCallOuts, AsnCalls, TLC

CONSTANTS
  NoId, CycSize, SecUnits, MaxLag, IndexMod,      \* of CallOutTable
  HeapTimes, MaxEntries,                          \* of CallOutHeap
  Jobs, Call(_), Agrees(_, _),                    \* of Algorithms
  Chars,                                          \* of Parse
  Sources, MaxCalls,                              \* of ParseString
  NewParser(_, _), ParseWith(_, _, _), SavedParser(_), LoadedParser(_),
  IsModified(_), AllowsResult(_), FitsMemory(_)

VARIABLES part, heap, job, result, parser, extra, calls, last

Heap == INSTANCE CallOutHeap WITH co <- heap, Times <- HeapTimes
Calls == INSTANCE Algorithms
Parsing == INSTANCE ParseString
P == INSTANCE ParseMeaning

StructureJobs ==
  {<<"asn", j.op, j>> : j \in AsnJobs}
  \cup {<<"regexp", "", ts>> : ts \in P!RegexpJobs}

StructureCall(j) == IF j[1] = "asn" THEN AsnCall(j[3]) ELSE P!RegexpCall(j[3])

StructureAgrees(j, r) ==
  IF j[1] = "asn" THEN AsnAgrees(j[3], r) ELSE P!RegexpAgrees(j[3], r)

\* What the constants of ParseString are.
StructureSources == P!GrammarSources
StructureParser(source, junk) == P!Parser(source, junk)
StructureParsed(ps, text, maxalt) == P!Parsed(ps, text, maxalt)
StructureSaved(ps) == P!Saved(ps)
StructureLoaded(ps) == P!Loaded(ps)
StructureModified(ps) == P!Modified(ps)
StructureAllowed(call) == P!Allowed(call)
StructureSizes(ps) == P!SizesMatch(ps)

callVars == <<job, result>>
parseVars == <<parser, extra, calls, last>>

allVars == <<vars, part, heap, callVars, parseVars>>

StructuresInit ==
  /\ part \in {"call-outs", "heap", "algorithms", "parse_string"}
  /\ Init
  /\ Heap!Init
  /\ IF part = "algorithms" THEN Calls!Init ELSE Calls!Idle
  /\ Parsing!ParseInit

StructuresNext ==
  /\ UNCHANGED part
  /\ \/ part = "call-outs" /\ Next /\ UNCHANGED <<heap, callVars, parseVars>>
     \/ part = "heap" /\ Heap!Next /\ UNCHANGED <<vars, callVars, parseVars>>
     \/ part = "algorithms" /\ Calls!Next /\ UNCHANGED <<vars, heap, parseVars>>
     \/ part = "parse_string" /\ Parsing!ParseNext /\ UNCHANGED <<vars, heap, callVars>>

StructuresSpec == StructuresInit /\ [][StructuresNext]_allVars

-----------------------------------------------------------------------------
\* enqueue() and dequeue() (call_out.cpp) keep a heap of the call-outs, and
\* take out no other entry than the one they are to.
HeapKept == Heap!HeapKept

\* Each operation on ASNs (asn.cpp) returns what it is to compute.
AsnRight == Calls!CallsRight("asn")

\* Programs made of regular expressions (RgxNode, RgxPosn) match what these are
\* to match.
RegexpsRight == Calls!CallsRight("regexp")

\* parse_string() returns the parses of a text that the grammar permits, with a
\* parser that is new, has been used before or was saved and loaded.
ParsesRight == Parsing!ParsesRight

\* Dfa::save and Srp::save write as much as the counters say for which memory
\* is allocated.
SizesRight == Parsing!SizesRight

Symmetry == Permutations(CallOut)
=============================================================================
