--------------------------------- MODULE Srp ---------------------------------
(***************************************************************************)
(* The shift/reduce parser of parse_string() (Srp, SrpState, Item, ShLink):*)
(* an LR(0) automaton for the productions of a grammar, which is made while*)
(* it is used and has its shifts and gotos in one packed table.            *)
(*                                                                         *)
(* The rules of a grammar g are in g.rules as [symb, rhs, ...], in the     *)
(* order of their addresses, where the first is the one of the start       *)
(* symbol.  Tokens are 0 .. g.ntoken - 1, and the symbols of productions   *)
(* come after them, with the start symbol first.                           *)
(***************************************************************************)
EXTENDS Integers, Sequences, FiniteSets

Unexpanded == <<-1>>
NoShift == -8388608     \* 0xff800000
Free == -1              \* in check: the slot is not in use
Gotos == -258           \* in check: a goto, which is not checked

\* 2 * (1 + 1) * 256 and so on do not matter here: sizes are in bytes, as they
\* are written, and slots of the packed table have two.
Symbols(g) == {g.rules[r].symb : r \in DOMAIN g.rules}
NSymbols(g) == g.ntoken + Cardinality(Symbols(g))

----------------------------------------------------------------------------
(***************************************************************************)
(* Items are [rule, offset]; a set of them is a sequence in the order of   *)
(* the rules, or in the order in which they were added.                    *)
(***************************************************************************)
Item(rule, offset) == [rule |-> rule, offset |-> offset]

Has(items, it) == \E i \in DOMAIN items : items[i] = it

Before(x, y) == x.rule < y.rule \/ (x.rule = y.rule /\ x.offset <= y.offset)

AddSorted(items, it) ==
  LET k == Cardinality({i \in DOMAIN items :
                          \A j \in 1 .. i : Before(items[j], it)})
  IN  IF Has(items, it) THEN items
      ELSE SubSeq(items, 1, k) \o <<it>> \o SubSeq(items, k + 1, Len(items))

AddLast(items, it) == IF Has(items, it) THEN items ELSE Append(items, it)

AtEnd(g, it) == it.offset = Len(g.rules[it.rule].rhs)
NextSymbol(g, it) == g.rules[it.rule].rhs[it.offset + 1]

\* The rules of a symbol.
RulesOf(g, symb) == SelectSeq([r \in DOMAIN g.rules |-> r],
                              LAMBDA r : g.rules[r].symb = symb)

\* The first part of expand(): from item i on, an item in front of a symbol
\* adds the items of the rules of that symbol.
AddRules(items, rules) ==
  LET a[k \in 0 .. Len(rules)] ==
        IF k = 0 THEN items ELSE AddLast(a[k - 1], Item(rules[k], 0))
  IN  a[Len(rules)]

ClosedAt(g, items, i) ==
  IF i > Len(items) THEN items
  ELSE IF AtEnd(g, items[i]) THEN items
  ELSE AddRules(items, RulesOf(g, NextSymbol(g, items[i])))

ClosureOf(g, kernel) ==
  LET most == Len(g.rules) + Len(kernel)
      c[i \in 0 .. most] == IF i = 0 THEN kernel ELSE ClosedAt(g, c[i - 1], i)
  IN  c[most]

----------------------------------------------------------------------------
(***************************************************************************)
(* lr.states[n + 1] is state n.  data and check are the packed table, from *)
(* slot 0; shtab has the sets of shifts and gotos that are in it.  junk is *)
(* what the memory seems to hold that is read after a table has grown and  *)
(* moved: TRUE for slots in use.                                           *)
(***************************************************************************)
SrpState(items) ==
  [items |-> items, nitem |-> Len(items), red |-> Unexpanded,
   shoffset |-> NoShift, gtoffset |-> 0, shcheck |-> 0]

SrpCreate(g, junk) ==
  LET mapsize == 2 * NSymbols(g)
  IN  [states |-> <<SrpState(<<Item(1, 0)>>)>>, nexpanded |-> 0,
       data |-> [i \in 0 .. mapsize - 1 |-> 0],
       check |-> [i \in 0 .. mapsize - 1 |-> Free],
       mapsize |-> mapsize, gap |-> 0, spread |-> 0, shtab |-> <<>>,
       srpsize |-> 14 + 12 + 4, tmpsize |-> 7 + 5, nred |-> 0,
       modified |-> TRUE, tmp |-> TRUE, junk |-> junk]

\* SrpState::hash: the number of a state with these items.
StateOf(lr, items) ==
  LET same == {n \in DOMAIN lr.states : lr.states[n].items = items}
  IN  IF same = {} THEN Len(lr.states) ELSE (CHOOSE n \in same : TRUE) - 1

----------------------------------------------------------------------------
(***************************************************************************)
(* Srp::pack: where the targets of the symbols in from go in the table, as *)
(* an offset to the symbols; the same targets are in there once.           *)
(***************************************************************************)
Grown(lr, size) ==
  [lr EXCEPT
     !.data = [i \in 0 .. size - 1 |-> IF i < lr.mapsize THEN @[i] ELSE 0],
     !.check = [i \in 0 .. size - 1 |-> IF i < lr.mapsize THEN @[i] ELSE Free],
     !.mapsize = size]

NextFree(lr, i) ==
  CHOOSE k \in i .. lr.mapsize - 1 :
    lr.check[k] = Free /\ \A j \in i .. k - 1 : lr.check[j] # Free

\* The table, large enough, and the first slot from i on for the first of the
\* symbols such that the slots of the others are free.
RECURSIVE Placed(_, _, _)
Placed(lr, from, i) ==
  LET range == from[Len(from)] - from[1] + 1
      grows == i + range >= lr.mapsize
      table == IF grows THEN Grown(lr, 2 * (i + range)) ELSE lr
      Slot(k) == i + from[k] - from[1]
      Taken(k) ==
        table.check[Slot(k)] # Free \/ (Slot(k) >= lr.mapsize /\ lr.junk)
  IN  IF \E k \in 2 .. Len(from) : Taken(k)
        THEN Placed(table, from, NextFree(table, i + 1))
        ELSE [lr |-> table, at |-> i]

Pack(lr, check, from, to) ==
  LET shifts == [from |-> from, to |-> to]
      old == {k \in DOMAIN lr.shtab : lr.shtab[k].shifts = shifts}
      seen == lr.shtab[CHOOSE k \in old : TRUE]
      gap == NextFree(lr, lr.gap)
      placed == Placed([lr EXCEPT !.gap = gap], from, gap)
      table == placed.lr
      range == from[Len(from)] - from[1] + 1
      offset == placed.at - from[1]
      Here(i) == {k \in DOMAIN from : from[k] + offset = i}
      spread == IF placed.at + range > lr.spread THEN placed.at + range ELSE lr.spread
  IN  IF old # {} THEN [lr |-> lr, check |-> seen.check, offset |-> seen.offset]
      ELSE [check |-> check, offset |-> offset,
            lr |-> [table EXCEPT
                      !.data = [i \in DOMAIN @ |->
                                  IF Here(i) = {} THEN @[i]
                                  ELSE to[CHOOSE k \in Here(i) : TRUE]],
                      !.check = [i \in DOMAIN @ |->
                                   IF Here(i) = {} THEN @[i] ELSE check],
                      !.spread = spread,
                      !.srpsize = @ + 4 * (spread - lr.spread),
                      !.shtab = Append(@, [shifts |-> shifts, check |-> check,
                                           offset |-> offset]),
                      !.tmpsize = @ + 4 * Len(from) + 7]]

----------------------------------------------------------------------------
(***************************************************************************)
(* Srp::expand: the reductions of a state, the states after each symbol    *)
(* that can come next, and the shifts and gotos to them.                   *)
(***************************************************************************)
\* The symbols of a set, in order: gotos come before shifts.
InOrder(S) ==
  [i \in 1 .. Cardinality(S) |->
     CHOOSE x \in S : Cardinality({y \in S : y <= x}) = i]

\* The items after symb.
After(g, items, symb) ==
  LET Moves(it) == ~AtEnd(g, it) /\ NextSymbol(g, it) = symb
      moved == SelectSeq(items, Moves)
      a[i \in 0 .. Len(moved)] ==
        IF i = 0 THEN <<>>
        ELSE AddSorted(a[i - 1], Item(moved[i].rule, moved[i].offset + 1))
  IN  a[Len(moved)]

\* The state for these items, which may be new.
Targeted(t, items) ==
  LET n == StateOf(t.lr, items)
      new == n = Len(t.lr.states)
  IN  [targets |-> Append(t.targets, n),
       lr |-> IF ~new THEN t.lr
              ELSE [t.lr EXCEPT !.states = Append(@, SrpState(items)),
                                !.srpsize = @ + 12,
                                !.tmpsize = @ + 5 * Len(items)]]

SrpExpand(g, lr, n) ==
  LET items == ClosureOf(g, lr.states[n + 1].items)
      ended == SelectSeq(items, LAMBDA it : AtEnd(g, it))
      red == [k \in DOMAIN ended |-> ended[k].rule]
      next == {NextSymbol(g, items[i]) : i \in {k \in DOMAIN items : ~AtEnd(g, items[k])}}
      gotos == InOrder({s \in next : s >= g.ntoken}
                         \cup (IF n = 0 THEN {g.ntoken} ELSE {}))
      shifts == InOrder({s \in next : s < g.ntoken})
      symbols == gotos \o shifts
      reduced == [lr EXCEPT !.states[n + 1].red = red,
                            !.nred = @ + Len(red),
                            !.srpsize = @ + 4 * Len(red)]
      t[i \in 0 .. Len(symbols)] ==
        IF i = 0 THEN [lr |-> reduced, targets |-> <<>>]
        ELSE Targeted(t[i - 1], After(g, items, symbols[i]))
      targets == t[Len(symbols)].targets
      made == t[Len(symbols)].lr
      shifted == Pack(made, n, shifts, SubSeq(targets, Len(gotos) + 1, Len(targets)))
      withShifts ==
        IF shifts = <<>> THEN made
        ELSE [shifted.lr EXCEPT !.states[n + 1].shcheck = shifted.check,
                                !.states[n + 1].shoffset = shifted.offset]
      gone == Pack(withShifts, Gotos, gotos, SubSeq(targets, 1, Len(gotos)))
      withGotos ==
        IF gotos = <<>> THEN withShifts
        ELSE [gone.lr EXCEPT !.states[n + 1].gtoffset = gone.offset]
  IN  IF n = 1
        THEN [lr EXCEPT !.states[2].red = <<>>, !.nexpanded = @ + 1, !.modified = TRUE]
        ELSE [withGotos EXCEPT !.nexpanded = @ + 1, !.modified = TRUE, !.tmp = TRUE]

----------------------------------------------------------------------------
\* Srp::reduce; the limit on the size of the parser is left out.  Srp::shift
\* and Srp::_goto.
Expanded(g, lr, n) ==
  IF lr.states[n + 1].red = Unexpanded THEN SrpExpand(g, lr, n) ELSE lr

Fails == -1

\* Mutant: a slot of the packed table is used whatever state it belongs to.
ShiftUnchecked(lr, n, token) ==
  LET s == lr.states[n + 1]
      i == s.shoffset + token
  IN  IF s.shoffset # NoShift /\ i \in 0 .. lr.mapsize - 1 THEN lr.data[i] ELSE Fails

Shift(lr, n, token) ==
  LET s == lr.states[n + 1]
      i == s.shoffset + token
  IN  IF s.shoffset = NoShift THEN Fails
      ELSE IF i \in 0 .. lr.mapsize - 1 /\ lr.check[i] = s.shcheck
        THEN lr.data[i] ELSE Fails

Goto(lr, n, symb) == lr.data[lr.states[n + 1].gtoffset + symb]

----------------------------------------------------------------------------
(***************************************************************************)
(* Srp::save, Srp::load and Srp::loadtmp.  The table is saved as far as it *)
(* is in use, and the items and shtab only when there are states that have *)
(* not been expanded.                                                      *)
(***************************************************************************)
SrpSaved(lr) ==
  IF ~lr.modified THEN lr
  ELSE [lr EXCEPT !.modified = FALSE,
                  !.tmpsize = IF Len(lr.states) = lr.nexpanded THEN 0 ELSE @]

SrpLoaded(lr) ==
  LET Cut(table) == [i \in 0 .. lr.spread |-> table[i]]
      Bare(s) == [s EXCEPT !.items = <<>>]
      table == [lr EXCEPT !.data = Cut(@), !.check = Cut(@),
                          !.mapsize = lr.spread + 1, !.tmp = FALSE]
  IN  IF lr.tmpsize # 0 THEN table
      ELSE [table EXCEPT !.states = [n \in DOMAIN @ |-> Bare(@[n])], !.shtab = <<>>]

\* The bytes that are written.
RECURSIVE AddUp(_)
AddUp(s) == IF s = <<>> THEN 0 ELSE s[1] + AddUp(Tail(s))

SrpBytes(lr) ==
  LET Reductions(s) == IF s.red = Unexpanded THEN 0 ELSE 4 * Len(s.red)
  IN  14 + 12 * Len(lr.states) + 2 * (2 * lr.spread + 2)
        + AddUp([n \in DOMAIN lr.states |-> Reductions(lr.states[n])])

SrpTmpBytes(lr) ==
  7 + 5 * AddUp([n \in DOMAIN lr.states |-> lr.states[n].nitem])
    + AddUp([k \in DOMAIN lr.shtab |-> 4 * Len(lr.shtab[k].shifts.from) + 7])
=============================================================================
