--------------------------------- MODULE Dfa ---------------------------------
(***************************************************************************)
(* The scanner of parse_string() (Dfa, DfaState): a deterministic          *)
(* automaton for the tokens of a grammar, which is made while it is used,  *)
(* with classes of characters that are split when it is expanded.          *)
(*                                                                         *)
(* A grammar g has nrgx rules of regular expressions, with all their       *)
(* alternatives in alts as [prog, rule], and strings; g.whitespace and     *)
(* g.nomatch are rules or None.  Rules are numbered from 0, strings after  *)
(* regular expressions.                                                    *)
(***************************************************************************)
EXTENDS Rgx

CONSTANT Chars          \* 0 .. n for some n, the characters

NChars == Cardinality(Chars)
NoRule == -1

----------------------------------------------------------------------------
(***************************************************************************)
(* posns has each position once, with the alternative it is in; a state    *)
(* has the numbers of its positions and of the strings which go on at len. *)
(* State n is states[n]; state 0, from which nothing matches, is not in    *)
(* there.  ecsplit[c] is the class that class c was split from.            *)
(***************************************************************************)
State(posn, str, len, final) ==
  [posn |-> posn, str |-> str, len |-> len, final |-> final, trans |-> <<>>]

Dead(s) == s.posn = <<>> /\ s.str = <<>>
ZeroTrans == [c \in 1 .. NChars |-> 0]

Min0(S) == IF S = {} THEN NoRule ELSE CHOOSE x \in S : \A y \in S : x <= y

\* Numbers of bytes: of a position, and of a state in the temporary data.
PosnSize(p) == 8 + Cardinality(p.places) + (IF p.final THEN 1 ELSE 0)

RECURSIVE SumOver(_, _)
SumOver(F(_), s) == IF s = <<>> THEN 0 ELSE F(s[1]) + SumOver(F, Tail(s))

DfaCreate(g) ==
  LET start == [j \in DOMAIN g.alts |->
                  LET p == StartPosition(g.alts[j].prog)
                  IN  [alt |-> j, places |-> p.places, final |-> p.final]]
      finals == {g.alts[j].rule : j \in {i \in DOMAIN start : start[i].final}}
      s == State([j \in DOMAIN start |-> j], [i \in DOMAIN g.strings |-> i], 0,
                 Min0(finals))
      none == Dead(s)
  IN  [eclass |-> [c \in Chars |-> 0], ecnum |-> 1, ecsplit |-> <<>>,
       posns |-> start,
       states |-> <<IF none THEN [s EXCEPT !.trans = ZeroTrans] ELSE s>>,
       nexpanded |-> 0, endstates |-> IF none THEN 2 ELSE 1,
       dfasize |-> 8 + 256 + 3,
       tmpssize |-> 4 + 1 + 5 + 3 * Len(start) + 2 * Len(g.strings),
       tmppsize |-> SumOver(PosnSize, start),
       modified |-> TRUE, tmp |-> TRUE]

----------------------------------------------------------------------------
(***************************************************************************)
(* Dfa::split: the classes are split along the borders of the character    *)
(* sets in csets, for one character of the input set after the other.      *)
(***************************************************************************)
Members(fa, n) == {c \in Chars : fa.eclass[c] = n}

\* Mutant: the transitions that states which were expanded before are to have on
\* a new class are not counted.
SplitUncounted(fa, c, cset) ==
  LET n == fa.eclass[c]
      in == Members(fa, n) \cap cset
      out == Members(fa, n) \ cset
  IN  IF in = {} \/ out = {} THEN fa
      ELSE [fa EXCEPT
              !.eclass = [d \in Chars |-> IF d \in out THEN fa.ecnum ELSE @[d]],
              !.ecnum = @ + 1, !.ecsplit = Append(@, n), !.tmpssize = @ + 1]

SplitBy(fa, c, cset) ==
  LET n == fa.eclass[c]
      in == Members(fa, n) \cap cset
      out == Members(fa, n) \ cset
  IN  IF in = {} \/ out = {} THEN fa
      ELSE [fa EXCEPT
              !.eclass = [d \in Chars |-> IF d \in out THEN fa.ecnum ELSE @[d]],
              !.ecnum = @ + 1,
              !.ecsplit = Append(@, n),
              !.dfasize = @ + 2 * fa.nexpanded,
              !.tmpssize = @ + 1]

RECURSIVE Split(_, _, _)
Split(fa, iset, csets) ==
  LET c == Min0(iset)
      s[i \in 0 .. Len(csets)] ==
        IF i = 0 THEN fa ELSE SplitBy(s[i - 1], c, csets[i])
      new == s[Len(csets)]
  IN  IF iset = {} THEN fa
      ELSE Split(new, iset \ Members(new, new.eclass[c]), csets)

\* Dfa::extend: transitions on classes that were split off since.
RECURSIVE Extended(_, _, _)
Extended(fa, trans, limit) ==
  IF Len(trans) > limit THEN trans
  ELSE Extended(fa, Append(trans, trans[fa.ecsplit[Len(trans)] + 1]), limit)

Extend(fa, n, limit) ==
  [fa EXCEPT !.states[n].trans = Extended(fa, @, limit)]

----------------------------------------------------------------------------
\* The character at which a string goes on, and the sets of the tokens of a
\* position.
CharAt(g, s, len) == g.strings[s][len + 1]

Csets(g, p) ==
  LET places == Ordered(p.places)
  IN  [i \in DOMAIN places |-> Matching(g.alts[p.alt].prog[places[i]], Chars)]

RECURSIVE Flat(_)
Flat(ss) == IF ss = <<>> THEN <<>> ELSE ss[1] \o Flat(Tail(ss))

\* Dfa::newstate: the positions and the strings after a character of class ec.
NewPosns(g, fa, s, ec) ==
  LET Matched(p) == \E i \in DOMAIN Csets(g, p) : Csets(g, p)[i] \cap ec # {}
      After(p) ==
        LET t == Trans(g.alts[p.alt].prog, p.places, ec)
        IN  [alt |-> p.alt, places |-> t.places, final |-> t.final]
      matched == SelectSeq([i \in DOMAIN s.posn |-> fa.posns[s.posn[i]]], Matched)
  IN  [i \in DOMAIN matched |-> After(matched[i])]

NewState(g, fa, s, ec) ==
  LET after == NewPosns(g, fa, s, ec)
      Alive(p) == p.places # {}
      GoesOn(n) == CharAt(g, n, s.len) \in ec
      Ends(n) == s.len + 1 = Len(g.strings[n])
      Inner(n) == ~Ends(n)
      strings == SelectSeq(s.str, GoesOn)
      ended == SelectSeq(strings, Ends)
      finals == {g.alts[after[i].alt].rule : i \in {j \in DOMAIN after : after[j].final}}
  IN  [posns |-> SelectSeq(after, Alive),
       str |-> SelectSeq(strings, Inner),
       len |-> s.len + 1,
       final |-> IF ended # <<>> THEN g.nrgx + ended[Len(ended)] - 1 ELSE Min0(finals)]

\* RgxPosn::alloc: the number of a position in the table, where it is put if
\* it is new.
SamePosn(p, q) == p.alt = q.alt /\ p.places = q.places

Numbered(posns, new) ==
  LET n[i \in 0 .. Len(new)] ==
        IF i = 0 THEN [posns |-> posns, ids |-> <<>>]
        ELSE LET t == n[i - 1]
                 old == {k \in DOMAIN t.posns : SamePosn(t.posns[k], new[i])}
             IN  IF old # {} THEN [t EXCEPT !.ids = Append(@, CHOOSE k \in old : TRUE)]
                 ELSE [posns |-> Append(t.posns, new[i]),
                       ids |-> Append(t.ids, Len(t.posns) + 1)]
  IN  n[Len(new)]

\* DfaState::hash: the same state if there is one.
SameState(s, t) ==
  s.posn = t.posn /\ s.str = t.str /\ s.len = t.len /\ s.final = t.final

\* The transition of state n on class e, in fa with the transitions on the
\* classes before it.
Transition(g, fa, n, e) ==
  LET new == NewState(g, fa, fa.states[n], Members(fa, e))
      named == Numbered(fa.posns, new.posns)
      s == State(named.ids, new.str, IF new.str = <<>> THEN 0 ELSE new.len, new.final)
      old == {k \in DOMAIN fa.states : SameState(fa.states[k], s)}
      Goes(f, to) == [f EXCEPT !.states[n].trans = Append(@, to)]
      added == SubSeq(named.posns, Len(fa.posns) + 1, Len(named.posns))
  IN  IF Dead(s) /\ s.final = NoRule THEN Goes(fa, 0)
      ELSE IF old # {} THEN Goes(fa, CHOOSE k \in old : TRUE)
      ELSE Goes([fa EXCEPT
                   !.posns = named.posns,
                   !.states = Append(@, IF Dead(s) THEN [s EXCEPT !.trans = ZeroTrans]
                                        ELSE s),
                   !.endstates = IF Dead(s) THEN @ + 1 ELSE @,
                   !.dfasize = @ + 3,
                   !.tmpssize = @ + 5 + 3 * Len(s.posn) + 2 * Len(s.str),
                   !.tmppsize = @ + SumOver(PosnSize, added)],
                Len(fa.states) + 1)

\* Dfa::expand.
Expand(g, fa, n) ==
  LET s == fa.states[n]
      chars == [i \in DOMAIN s.str |-> {CharAt(g, s.str[i], s.len)}]
      sets == chars \o Flat([i \in DOMAIN s.posn |-> Csets(g, fa.posns[s.posn[i]])])
      classes == Split([fa EXCEPT !.tmp = TRUE],
                       UNION {sets[i] : i \in DOMAIN sets}, sets)
      t[e \in 0 .. classes.ecnum] ==
        IF e = 0 THEN classes ELSE Transition(g, t[e - 1], n, e - 1)
  IN  [t[classes.ecnum] EXCEPT
         !.modified = TRUE,
         !.nexpanded = @ + 1,
         !.dfasize = @ + 2 * classes.ecnum]

----------------------------------------------------------------------------
(***************************************************************************)
(* Dfa::scan: the next token of a text from place at.  The limits on the   *)
(* size of the automaton are left out.                                     *)
(***************************************************************************)
Ready(g, fa, n, c) ==
  LET trans == fa.states[n].trans
      class == fa.eclass[c]
  IN  IF class < Len(trans) THEN fa
      ELSE IF trans = <<>> THEN Expand(g, fa, n)
      ELSE Extend(fa, n, class)

\* As far as the automaton goes: the last final state, the place behind what
\* was matched there, and the place at which it stopped.
RECURSIVE Match(_, _, _, _, _)
Match(g, fa, n, text, m) ==
  LET ready == Ready(g, fa, n, text[m.p])
      next == ready.states[n].trans[ready.eclass[text[m.p]] + 1]
      p == m.p + 1
      final == IF next = 0 THEN NoRule ELSE ready.states[next].final
  IN  IF m.p > Len(text) \/ n = 0 THEN [m EXCEPT !.fa = fa]
      ELSE Match(g, ready, next, text,
                 IF final = NoRule THEN [m EXCEPT !.p = p]
                 ELSE [m EXCEPT !.p = p, !.final = final, !.behind = p])

Token(fa, rule, text, next) ==
  [fa |-> fa, rule |-> rule, text |-> text, next |-> next]

EndOfString == -1
Reject == -2

Slice(text, from, len) == SubSeq(text, from, from + len - 1)

\* token is where the next token starts, unmatched the number of characters
\* before at that match nothing.
RECURSIVE ScanFrom(_, _, _, _, _, _)
ScanFrom(g, fa, text, at, token, unmatched) ==
  LET m == Match(g, fa, 1, text, [fa |-> fa, p |-> at, final |-> NoRule, behind |-> at])
      separate == g.nomatch # g.whitespace
      start == IF unmatched = 0 THEN token ELSE token + unmatched
      Unmatched(f) == Token(f, g.nomatch, Slice(text, token, unmatched), at)
  IN  CASE at > Len(text) /\ unmatched # 0 /\ separate -> Unmatched(fa)
        [] at > Len(text) /\ ~(unmatched # 0 /\ separate) ->
             Token(fa, EndOfString, <<>>, at)
        [] at <= Len(text) /\ m.final # NoRule /\ unmatched # 0 /\ separate ->
             Unmatched(m.fa)
        [] at <= Len(text) /\ m.final # NoRule /\ ~(unmatched # 0 /\ separate) ->
             IF m.final # g.whitespace
               THEN Token(m.fa, m.final, Slice(text, start, m.behind - at), m.behind)
               ELSE ScanFrom(g, m.fa, text, m.behind, m.p - 1, 0)
        [] at <= Len(text) /\ m.final = NoRule /\ g.nomatch # NoRule ->
             ScanFrom(g, m.fa, text, at + 1, token, unmatched + 1)
        [] OTHER -> Token(m.fa, Reject, <<>>, at)

Scan(g, fa, text, at) == ScanFrom(g, fa, text, at, at, 0)

----------------------------------------------------------------------------
(***************************************************************************)
(* Dfa::save and Dfa::load.  The temporary data, with which states can be  *)
(* expanded, are not saved when all states have been, and are loaded when  *)
(* one is to be.                                                           *)
(***************************************************************************)
Complete(fa) == Len(fa.states) + 1 = fa.nexpanded + fa.endstates

DfaSaved(fa) ==
  LET s == IF Complete(fa) THEN [fa EXCEPT !.tmpssize = 0, !.tmppsize = 0] ELSE fa
      Full(t) == IF t.trans = <<>> THEN t
                 ELSE [t EXCEPT !.trans = Extended(fa, @, fa.ecnum - 1)]
  IN  IF ~fa.modified THEN fa
      ELSE [s EXCEPT !.states = [n \in DOMAIN @ |-> Full(@[n])], !.modified = FALSE]

\* What a saved automaton becomes: without temporary data there is nothing
\* left but the states and their transitions.
DfaLoaded(fa) ==
  LET tmpsize == fa.tmpssize + fa.tmppsize
      Bare(s) == [s EXCEPT !.posn = <<>>, !.str = <<>>, !.len = 0]
  IN  IF tmpsize # 0 THEN [fa EXCEPT !.tmp = FALSE]
      ELSE [fa EXCEPT !.states = [n \in DOMAIN @ |-> Bare(@[n])],
                      !.posns = <<>>, !.ecsplit = <<>>, !.tmp = FALSE]

\* The bytes that are written.
PermanentBytes(fa) ==
  LET Bytes(s) ==
        3 + (IF s.trans = <<>> \/ Dead(s) THEN 0 ELSE 2 * fa.ecnum)
  IN  8 + 256 + SumOver(Bytes, fa.states)

TemporaryBytes(fa) ==
  LET Bytes(s) == 5 + 3 * Len(s.posn) + 2 * Len(s.str)
  IN  4 + fa.ecnum + SumOver(Bytes, fa.states) + SumOver(PosnSize, fa.posns)
=============================================================================
