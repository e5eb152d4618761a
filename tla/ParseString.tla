----------------------------- MODULE ParseString -----------------------------
(***************************************************************************)
(* An object that calls parse_string(): its dataspace has the parser, which*)
(* is kept for the next call with the same grammar, and is saved in the    *)
(* last variable of the object when the dataspace is swapped out.          *)
(***************************************************************************)
EXTENDS Integers

CONSTANTS
  Sources,        \* of each grammar the <<text, number of alternatives>> that
                  \* are asked for
  MaxCalls,       \* the number of calls and of times that it is swapped out
  NewParser(_, _), ParseWith(_, _, _), SavedParser(_), LoadedParser(_),
                  \* Parser, Parsed, Saved and Loaded of Parse
  IsModified(_), AllowsResult(_), FitsMemory(_)

VARIABLES
  parser,         \* of the dataspace, <<>> or <<a parser>>
  extra,          \* what is saved, <<>> or <<a parser>>
  calls,
  last            \* the last call, and what it returned

NoCall == [source |-> <<>>, text |-> <<>>, maxalt |-> 0, result |-> <<>>]

ParseInit == parser = <<>> /\ extra = <<>> /\ calls = 0 /\ last = NoCall

Named(ps, source) == ps # <<>> /\ ps[1].source = source

\* parse_string(): with the parser of the dataspace, with the saved one or
\* with a new one, if the source is a grammar.
ParseString ==
  /\ calls < MaxCalls
  /\ calls' = calls + 1
  /\ \E source \in DOMAIN Sources :
     \E junk \in IF Named(parser, source) THEN {FALSE} ELSE BOOLEAN :
     \E ask \in Sources[source] :
       LET ps == IF Named(parser, source) THEN parser[1]
                 ELSE IF parser = <<>> /\ Named(extra, source) THEN LoadedParser(extra[1])
                 ELSE NewParser(source, junk)
           p == ParseWith(ps, ask[1], ask[2])
           Answer(result) == [source |-> source, text |-> ask[1], maxalt |-> ask[2],
                              result |-> result]
       IN  IF ps.grammar.error # ""
             THEN parser' = <<>> /\ last' = Answer(ps.grammar)
             ELSE parser' = <<p.parser>> /\ last' = Answer(p.result)
  /\ UNCHANGED extra

\* The dataspace is saved and removed from memory.
SwapOut ==
  /\ calls < MaxCalls
  /\ calls' = calls + 1
  /\ parser # <<>>
  /\ extra' = IF IsModified(parser[1]) THEN <<SavedParser(parser[1])>> ELSE extra
  /\ parser' = <<>>
  /\ last' = NoCall

\* No more calls.
Rest == calls = MaxCalls /\ UNCHANGED <<parser, extra, calls, last>>

ParseNext == ParseString \/ SwapOut \/ Rest

----------------------------------------------------------------------------
(***************************************************************************)
(* What parse_string() returned is what the grammar permits for the text,  *)
(* whatever was parsed and saved before.                                   *)
(***************************************************************************)
ParsesRight == last.source # <<>> => AllowsResult(last)

(***************************************************************************)
(* The memory that is allocated for what is saved has the size of it.      *)
(***************************************************************************)
SizesRight == parser # <<>> => FitsMemory(parser[1])
=============================================================================
