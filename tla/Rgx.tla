--------------------------------- MODULE Rgx ---------------------------------
(***************************************************************************)
(* Regular expressions of a grammar for parse_string() (RgxNode, RgxPosn): *)
(* from tokens to a tree, from the tree to a program, and the positions in *)
(* the program where a match can be.                                       *)
(*                                                                         *)
(* A token is <<"char", c>>, <<"any">>, <<"set", negated, chars>> or one   *)
(* of <<"*">>, <<"+">>, <<"?">>, <<"|">>, <<"(">> and <<")">>.             *)
(***************************************************************************)
EXTENDS Integers, Sequences, FiniteSets

Atoms == {"char", "any", "set"}
Repeats == {"*", "+", "?"}

BadRegexp == <<>>

----------------------------------------------------------------------------
(***************************************************************************)
(* The tree is in node; top is its root, this the node to continue with,   *)
(* and nstack has both for each open parenthesis.  0 is no node.           *)
(***************************************************************************)
NoNodes == [node |-> <<>>, top |-> 0, this |-> 0, nstack |-> <<>>, bad |-> FALSE]

Node(type, left, right, token) ==
  [type |-> type, left |-> left, right |-> right, token |-> token]

Failed(st) == [st EXCEPT !.bad = TRUE]

\* Mutant: a node after a group or a repetition is linked to it, as after a
\* character, and not concatenated.
LinkedAny(st, type, token) ==
  LET n == Len(st.node)
      new == Node(type, 0, 0, token)
  IN  IF st.this = 0
        THEN [st EXCEPT !.node = Append(@, new), !.top = n + 1, !.this = n + 1]
        ELSE [st EXCEPT !.node = Append([@ EXCEPT ![st.this].right = n + 1], new),
                        !.this = n + 1]

\* A node for this type and token, after the node to continue with.
Linked(st, type, token) ==
  LET n == Len(st.node)
      new == Node(type, 0, 0, token)
  IN  CASE st.this = 0 ->
             [st EXCEPT !.node = Append(@, new), !.top = n + 1, !.this = n + 1]
        [] st.this # 0 /\ st.node[st.this].type \in {"char", "alt"} ->
             [st EXCEPT !.node = Append([@ EXCEPT ![st.this].right = n + 1], new),
                        !.this = n + 1]
        [] OTHER ->
             [st EXCEPT
                !.node = [@ EXCEPT ![st.this] = Node("concat", n + 1, n + 2, <<>>)]
                           \o <<st.node[st.this], new>>,
                !.this = n + 2]

Repeated(st, token) ==
  LET star == Node("star", Len(st.node) + 1, 0, token)
  IN  IF st.this = 0 \/ st.node[st.this].type \notin {"char", "paren"} THEN Failed(st)
      ELSE [st EXCEPT
              !.node = Append([@ EXCEPT ![st.this] = star], st.node[st.this])]

Alternative(st) ==
  LET n == Len(st.node) + 1
  IN  IF st.top = 0 THEN Failed(st)
      ELSE [st EXCEPT !.node = Append(@, Node("alt", st.top, 0, <<>>)),
                      !.top = n, !.this = n]

Opened(st) ==
  LET s == Linked(st, "paren", <<>>)
  IN  [s EXCEPT !.nstack = Append(@, <<s.top, s.this>>), !.top = 0, !.this = 0]

Closed(st) ==
  IF st.nstack = <<>> \/ st.top = 0 \/ st.node[st.this].type = "alt" THEN Failed(st)
  ELSE LET open == st.nstack[Len(st.nstack)]
       IN  [st EXCEPT !.node[open[2]].left = st.top,
                      !.top = open[1], !.this = open[2],
                      !.nstack = SubSeq(@, 1, Len(@) - 1)]

Read(st, token) ==
  CASE st.bad -> st
    [] ~st.bad /\ token[1] \in Repeats -> Repeated(st, token)
    [] ~st.bad /\ token[1] = "|" -> Alternative(st)
    [] ~st.bad /\ token[1] = "(" -> Opened(st)
    [] ~st.bad /\ token[1] = ")" -> Closed(st)
    [] OTHER -> Linked(st, "char", token)

Tree(tokens) ==
  LET s[i \in 0 .. Len(tokens)] ==
        IF i = 0 THEN NoNodes ELSE Read(s[i - 1], tokens[i])
      st == s[Len(tokens)]
  IN  IF st.bad \/ st.this = 0 \/ st.nstack # <<>> THEN Failed(st)
      ELSE IF st.node[st.this].type = "alt" THEN Failed(st) ELSE st

----------------------------------------------------------------------------
(***************************************************************************)
(* The program has a token, or "|" or "+", in one place and the place to   *)
(* go to in the next: behind "|" are two ways to go on, "+" is in front of *)
(* what is repeated, and the last place is the end.  last is the set of    *)
(* the places that are still to be connected.                              *)
(***************************************************************************)
Nowhere == 0

Connected(prog, last, place) ==
  [i \in DOMAIN prog |-> IF i \in last THEN <<"to", place>> ELSE prog[i]]

RECURSIVE Create(_, _, _, _)
Create(prog, node, this, last) ==
  LET here == Len(prog) + 1
      p == Connected(prog, last, here)
      n == node[this]
      Left(from) == Create(from, node, n.left, {})
      Start(branch) == p \o << <<branch>>, <<"to", Nowhere>> >>
  IN  CASE this = 0 -> [prog |-> prog, last |-> last]
        [] this # 0 /\ n.type = "char" ->
             Create(p \o <<n.token, <<"to", Nowhere>> >>, node, n.right, {here + 1})
        [] this # 0 /\ n.type = "concat" ->
             LET l == Left(p) IN Create(l.prog, node, n.right, l.last)
        [] this # 0 /\ n.type = "star" ->
             LET l == Left(Start(IF n.token = <<"+">> THEN "+" ELSE "|"))
             IN  IF n.token = <<"?">>
                   THEN [prog |-> l.prog, last |-> l.last \cup {here + 1}]
                   ELSE [prog |-> Connected(l.prog, l.last, here), last |-> {here + 1}]
        [] this # 0 /\ n.type = "alt" ->
             LET l == Left(Start("|"))
                 r == Create(Connected(l.prog, {here + 1}, Len(l.prog) + 1),
                             node, n.right, {})
             IN  [prog |-> r.prog, last |-> l.last \cup r.last]
        [] OTHER -> Left(p)

Regexp(tokens) ==
  LET t == Tree(tokens)
      c == Create(<<>>, t.node, t.top, {})
  IN  IF t.bad THEN BadRegexp ELSE Connected(c.prog, c.last, Len(c.prog))

----------------------------------------------------------------------------
(***************************************************************************)
(* RgxPosn::transposn: from the places behind tokens that matched to the   *)
(* tokens that can come next.  seen are the places that were reached, todo *)
(* the places to go on from, found the tokens.                             *)
(***************************************************************************)
RECURSIVE Follow(_, _, _)
Follow(prog, st, i) ==
  LET place == prog[i][2]
      s == [st EXCEPT !.seen = @ \cup {place}]
      inside == [s EXCEPT !.todo = @ \cup {place + 2}]
  IN  IF place \in st.seen THEN st
      ELSE IF place = Len(prog) THEN s
      ELSE CASE prog[place][1] = "|" -> Follow(prog, inside, place + 1)
             [] prog[place][1] = "+" ->
                  IF place < i THEN Follow(prog, inside, place + 1) ELSE inside
             [] OTHER -> [s EXCEPT !.found = @ \cup {place}]

RECURSIVE Closure(_, _)
Closure(prog, st) ==
  LET new == st.todo \ st.seen
      Next(place) ==
        CASE prog[place][1] = "|" -> {place + 2, prog[place + 1][2]}
          [] prog[place][1] = "+" -> {place + 2}
          [] OTHER -> {}
      inner == new \ {Len(prog)}
      branches == {place \in inner : prog[place][1] \in {"|", "+"}}
  IN  IF new = {} THEN st
      ELSE Closure(prog, [seen |-> st.seen \cup new,
                          todo |-> UNION {Next(place) : place \in branches},
                          found |-> st.found \cup (inner \ branches)])

Position(prog, st) ==
  LET c == Closure(prog, st)
  IN  [places |-> c.found, final |-> Len(prog) \in c.seen]

StartPosition(prog) == Position(prog, [seen |-> {}, todo |-> {1}, found |-> {}])

\* The places of a set, in order.
Ordered(places) ==
  [i \in 1 .. Cardinality(places) |->
     CHOOSE p \in places : Cardinality({q \in places : q <= p}) = i]

TransPosn(prog, trans) ==
  LET order == Ordered(trans)
      s[i \in 0 .. Len(order)] ==
        IF i = 0 THEN [seen |-> {}, todo |-> {}, found |-> {}]
        ELSE Follow(prog, s[i - 1], order[i])
  IN  Position(prog, s[Len(order)])

\* RgxPosn::cset: the characters that the token in a place matches, and
\* RgxPosn::trans: the position after the characters in the class ec, which
\* are all matched by a token or none.
Matching(token, chars) ==
  CASE token[1] = "char" -> {token[2]}
    [] token[1] = "any" -> chars
    [] OTHER -> IF token[2] THEN chars \ token[3] ELSE token[3]

Trans(prog, places, ec) ==
  LET Found(token) ==
        CASE token[1] = "char" -> token[2] \in ec
          [] token[1] = "any" -> TRUE
          [] OTHER -> (ec \cap token[3] # {}) # token[2]
  IN  TransPosn(prog, {place + 1 : place \in {q \in places : Found(prog[q])}})
=============================================================================
