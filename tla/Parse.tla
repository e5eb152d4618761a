-------------------------------- MODULE Parse --------------------------------
(***************************************************************************)
(* parse_string() (Parser): all ways to parse a text with the grammar, and *)
(* the array that is made of them.                                         *)
(*                                                                         *)
(* A value is <<"str", text>>, <<"arr", values>> for an array that a       *)
(* ?function returned, or <<"alts", arrays>> for one with the alternatives *)
(* of an ambiguous parse.                                                  *)
(***************************************************************************)
EXTENDS Dfa, Srp, Grammar

Nil == <<"nil">>                     \* no parse
BadToken == <<"Bad token">>
Result(values) == <<"values", values>>

\* What the function of a rule returns for an array, or Nil.
CallFunc(func, values) ==
  CASE func = "wrap" -> Result(<< <<"arr", values>> >>)
    [] func = "drop" -> Result(<<>>)
    [] OTHER -> Nil

----------------------------------------------------------------------------
(***************************************************************************)
(* A node is a token or a reduction in one way to parse what came so far:  *)
(* next is the node before it, state the one reached after it.  The list   *)
(* of a reduction is its last child.  A node with more than one reduction  *)
(* of the same text has them in alts.                                      *)
(***************************************************************************)
PNode(kind, symbol, state, text, next, list) ==
  [kind |-> kind, symbol |-> symbol, state |-> state, text |-> text,
   next |-> next, list |-> list, alts |-> <<>>, values |-> <<>>, len |-> 0]

\* The node that is k nodes before pn, with 0 for none.
Back(nodes, pn, k) ==
  LET b[i \in 0 .. k] == IF i = 0 THEN pn ELSE nodes[b[i - 1]].next
  IN  b[k]

\* Parser::reduce: pst has the nodes, the list of those which are still to be
\* treated, and the two automata.
Reduce(g, pst, pn, r) ==
  LET rule == g.rules[r]
      len == Len(rule.rhs)
      next == Back(pst.nodes, pn, len)
      n == Goto(pst.lr, pst.nodes[next].state, rule.symb)
      node == PNode("open", rule.symb, n, r, next, IF len = 0 THEN 0 ELSE pn)
      Same(q) == /\ pst.nodes[q].state = n
                 /\ pst.nodes[q].symbol = rule.symb
                 /\ pst.nodes[q].next = next
      merged == SelectSeq(pst.list, Same)
      old == merged[1]
      new == Len(pst.nodes) + 1
      \* the first alternative gets a node of its own
      split == IF pst.nodes[old].kind = "open"
                 THEN [Append(pst.nodes, pst.nodes[old]) EXCEPT ![old].kind = "alts",
                                                       ![old].alts = <<new>>]
                 ELSE pst.nodes
      alts == split[old].alts
      lower == Cardinality({i \in DOMAIN alts : split[alts[i]].text < r})
      added == Len(split) + 1
  IN  IF merged = <<>>
        THEN [pst EXCEPT !.nodes = Append(@, node), !.list = Append(@, new)]
        ELSE [pst EXCEPT
                !.nodes = Append([split EXCEPT
                                    ![old].alts = SubSeq(alts, 1, lower) \o <<added>>
                                        \o SubSeq(alts, lower + 1, Len(alts))],
                                 node)]

\* The reductions of all nodes from i on, which add nodes.
RECURSIVE ReduceAll(_, _, _)
ReduceAll(g, pst, i) ==
  LET pn == pst.list[i]
      state == pst.nodes[pn].state
      ready == [pst EXCEPT !.lr = Expanded(g, @, state)]
      red == ready.lr.states[state + 1].red
      s[k \in 0 .. Len(red)] ==
        IF k = 0 THEN ready ELSE Reduce(g, s[k - 1], pn, red[k])
  IN  IF i > Len(pst.list) THEN pst ELSE ReduceAll(g, s[Len(red)], i + 1)

\* Parser::shift, for all nodes.
ShiftAll(pst, token, text) ==
  LET Shifted(p, pn) ==
        LET n == Shift(p.lr, p.nodes[pn].state, token)
        IN  IF n = Fails THEN p
            ELSE [p EXCEPT !.nodes = Append(@, PNode("token", token, n, text, pn, 0)),
                           !.list = Append(@, Len(p.nodes) + 1)]
      s[k \in 0 .. Len(pst.list)] ==
        IF k = 0 THEN [pst EXCEPT !.list = <<>>] ELSE Shifted(s[k - 1], pst.list[k])
  IN  s[Len(pst.list)]

\* Parser::parse, from place at of the text on: what it returns is the node of
\* the parse, 0 if there is none, or BadToken.
RECURSIVE ParseFrom(_, _, _, _)
ParseFrom(g, pst, text, at) ==
  LET reduced == ReduceAll(g, pst, 1)
      token == Scan(g, reduced.fa, text, at)
      scanned == [reduced EXCEPT !.fa = token.fa]
      final == SelectSeq(reduced.list, LAMBDA q : reduced.nodes[q].state = 1)
      shifted == ShiftAll(scanned, token.rule, token.text)
  IN  CASE token.rule = EndOfString ->
             [pst |-> scanned, node |-> IF final = <<>> THEN 0 ELSE final[1]]
        [] token.rule = Reject -> [pst |-> scanned, node |-> -1]
        [] OTHER -> IF shifted.list = <<>> THEN [pst |-> shifted, node |-> 0]
                    ELSE ParseFrom(g, shifted, text, token.next)

ParseText(g, fa, lr, text) ==
  ParseFrom(g, [fa |-> fa, lr |-> lr, nodes |-> <<PNode("token", 0, 0, <<>>, 0, 0)>>,
                list |-> <<1>>],
            text, 1)

----------------------------------------------------------------------------
(***************************************************************************)
(* Parser::flatten: the values of the nodes from pn back to next.          *)
(***************************************************************************)
RECURSIVE Flatten(_, _, _)
Flatten(nodes, pn, next) ==
  LET n == nodes[pn]
  IN  CASE pn = next -> <<>>
        [] pn # next /\ n.kind = "rule" /\ n.list # 0 -> Flatten(nodes, n.list, next)
        [] OTHER -> Flatten(nodes, n.next, next) \o n.values

(***************************************************************************)
(* Parser::traverse: makes the values of a node and of all below it.  A    *)
(* node that is "blocked" has none, and neither has what it is a part of.  *)
(***************************************************************************)
Kind(nodes, pn) == nodes[pn].kind
Blocked(nodes, pn) == [nodes EXCEPT ![pn].kind = "blocked"]

Overrun == << <<"overrun">> >>

\* An array of len values, which flatten() is to fill.
Filled(nodes, pn, next, len) ==
  LET values == IF len = 0 THEN <<>> ELSE Flatten(nodes, pn, next)
  IN  IF Len(values) = len THEN values ELSE Overrun

\* A rule whose children have been traversed and have len values: its function
\* is called with them.
CallRule(g, nodes, pn, next, len) ==
  LET func == g.rules[nodes[pn].text].func
      r == CallFunc(func, Filled(nodes, pn, next, len))
  IN  IF func = NoFunc THEN [nodes EXCEPT ![pn].len = len]
      ELSE IF r = Nil THEN Blocked(nodes, pn)
      ELSE [nodes EXCEPT ![pn].kind = "array", ![pn].values = r[2], ![pn].len = Len(r[2])]

\* The children of a rule, from left to right.
Children(g, nodes, pn) ==
  LET len == Len(g.rules[nodes[pn].text].rhs)
  IN  [i \in 1 .. len |-> Back(nodes, nodes[pn].list, len - i)]

\* Arrays of the alternatives of pn that are not blocked; a single one takes
\* the place of pn.
Branched(nodes, pn, next) ==
  LET open == SelectSeq(nodes[pn].alts, LAMBDA q : Kind(nodes, q) # "blocked")
      Array(q) == <<"arr", IF Kind(nodes, q) = "array" THEN nodes[q].values
                           ELSE Filled(nodes, q, next, nodes[q].len)>>
  IN  CASE open = <<>> -> Blocked(nodes, pn)
        [] Len(open) = 1 -> [nodes EXCEPT ![pn] = nodes[open[1]]]
        [] OTHER ->
             [nodes EXCEPT
                ![pn].kind = "branch", ![pn].len = 1,
                ![pn].values = << <<"alts", [i \in DOMAIN open |-> Array(open[i])]>> >>]

RECURSIVE Traverse(_, _, _, _, _)

\* The children of a rule, as far as none is blocked.
TraverseChildren(g, nodes, pn, maxalt) ==
  LET children == Children(g, nodes, pn)
      Next(c, q) ==
        LET t == Traverse(g, c.nodes, q, nodes[q].next, maxalt)
        IN  IF c.bad THEN c
            ELSE [nodes |-> t, len |-> c.len + t[q].len, bad |-> Kind(t, q) = "blocked"]
      c[i \in 0 .. Len(children)] ==
        IF i = 0 THEN [nodes |-> Blocked(nodes, pn), len |-> 0, bad |-> FALSE]
        ELSE Next(c[i - 1], children[i])
  IN  c[Len(children)]

\* The alternatives of a node, up to maxalt of them.
TraverseAlts(g, nodes, pn, next, maxalt) ==
  LET alts == nodes[pn].alts
      Next(a, q) ==
        LET t == Traverse(g, a.nodes, q, next, maxalt)
        IN  IF a.count >= maxalt THEN [a EXCEPT !.nodes = Blocked(@, q)]
            ELSE [nodes |-> t,
                  count |-> a.count + (IF Kind(t, q) = "blocked" THEN 0 ELSE 1)]
      a[i \in 0 .. Len(alts)] ==
        IF i = 0 THEN [nodes |-> Blocked(nodes, pn), count |-> 0]
        ELSE Next(a[i - 1], alts[i])
  IN  a[Len(alts)].nodes

Traverse(g, nodes, pn, next, maxalt) ==
  LET n == nodes[pn]
      c == TraverseChildren(g, nodes, pn, maxalt)
  IN  CASE n.kind = "token" ->
             [nodes EXCEPT ![pn].kind = "string", ![pn].len = 1,
                           ![pn].values = << <<"str", n.text>> >>]
        [] n.kind = "open" ->
             IF c.bad THEN c.nodes
             ELSE CallRule(g, [c.nodes EXCEPT ![pn].kind = "rule"], pn, next, c.len)
        [] n.kind = "alts" ->
             Branched(TraverseAlts(g, nodes, pn, next, maxalt), pn, next)
        [] OTHER -> nodes

\* The array for a parse.
Values(g, nodes, pn, maxalt) ==
  LET next == nodes[pn].next
      t == Traverse(g, nodes, pn, next, maxalt)
  IN  IF Kind(t, pn) = "blocked" THEN Nil
      ELSE Result(Filled(t, pn, next, t[pn].len))

----------------------------------------------------------------------------
(***************************************************************************)
(* Parser::create, parse_string, save and load.                            *)
(***************************************************************************)
\* A parser for a grammar, which may not be one.
Parser(source, junk) ==
  LET g == ParseGrammar(source)
      bad == g.error # ""
  IN  [source |-> source, grammar |-> g,
       fa |-> IF bad THEN <<>> ELSE DfaCreate(g),
       lr |-> IF bad THEN <<>> ELSE SrpCreate(g, junk)]

Parsed(ps, text, maxalt) ==
  LET p == ParseText(ps.grammar, ps.fa, ps.lr, text)
      result == CASE p.node = -1 -> BadToken
                  [] p.node = 0 -> Nil
                  [] OTHER -> Values(ps.grammar, p.pst.nodes, p.node, maxalt)
  IN  [parser |-> [ps EXCEPT !.fa = p.pst.fa, !.lr = p.pst.lr], result |-> result]

Modified(ps) == ps.fa.modified \/ ps.lr.modified
Saved(ps) == [ps EXCEPT !.fa = DfaSaved(@), !.lr = SrpSaved(@)]
Loaded(ps) == [ps EXCEPT !.fa = DfaLoaded(@), !.lr = SrpLoaded(@)]
=============================================================================
