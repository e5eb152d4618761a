---------------------------- MODULE ParseMeaning ----------------------------
(***************************************************************************)
(* What parse_string() is to return: what regular expressions match, what  *)
(* the tokens of a text are and which values its parses have, defined from *)
(* the rules of the grammar as they are written.                           *)
(***************************************************************************)
EXTENDS Parse, TLC

----------------------------------------------------------------------------
(***************************************************************************)
(* Regular expressions.                                                    *)
(***************************************************************************)
\* The number of open parentheses after token k.
Depth(ts, k) ==
  Cardinality({i \in 1 .. k : ts[i] = <<"(">>})
    - Cardinality({i \in 1 .. k : ts[i] = <<")">>})

Bars(ts) == {k \in DOMAIN ts : ts[k] = <<"|">> /\ Depth(ts, k) = 0}
FirstBar(ts) == CHOOSE k \in Bars(ts) : \A j \in Bars(ts) : k <= j

\* The end of the first item, without and with what repeats it.
ItemEnd(ts) ==
  IF ts[1] # <<"(">> THEN 1
  ELSE CHOOSE k \in DOMAIN ts : Depth(ts, k) = 0 /\ \A j \in 1 .. k - 1 : Depth(ts, j) > 0

FactorEnd(ts) ==
  LET e == ItemEnd(ts)
  IN  IF e < Len(ts) /\ ts[e + 1][1] \in Repeats THEN e + 1 ELSE e

RECURSIVE WellFormed(_)
WellFormed(ts) ==
  /\ ts # <<>>
  /\ Depth(ts, Len(ts)) = 0 /\ \A k \in DOMAIN ts : Depth(ts, k) >= 0
  /\ IF Bars(ts) # {}
       THEN /\ WellFormed(SubSeq(ts, 1, FirstBar(ts) - 1))
            /\ WellFormed(SubSeq(ts, FirstBar(ts) + 1, Len(ts)))
       ELSE /\ ts[1][1] \notin Repeats
            /\ ts[1] = <<"(">> => WellFormed(SubSeq(ts, 2, ItemEnd(ts) - 1))
            /\ FactorEnd(ts) < Len(ts)
                 => WellFormed(SubSeq(ts, FactorEnd(ts) + 1, Len(ts)))

RECURSIVE Sequence(_, _)
Sequence(L, s) ==
  \/ s = <<>>
  \/ \E k \in 1 .. Len(s) : SubSeq(s, 1, k) \in L /\ Sequence(L, SubSeq(s, k + 1, Len(s)))

\* Those of the texts S that a regular expression matches; S has all parts of
\* its texts.
RECURSIVE Matches(_, _)
Matches(ts, S) ==
  LET item == IF ts[1] = <<"(">> THEN Matches(SubSeq(ts, 2, ItemEnd(ts) - 1), S)
              ELSE {s \in S : Len(s) = 1 /\ s[1] \in Matching(ts[1], Chars)}
      op == IF FactorEnd(ts) = ItemEnd(ts) THEN "" ELSE ts[FactorEnd(ts)][1]
      factor == CASE op = "" -> item
                  [] op = "?" -> item \cup {<<>>}
                  [] op = "*" -> {s \in S : Sequence(item, s)}
                  [] OTHER -> {s \in S : Sequence(item, s) /\ (s = <<>> => s \in item)}
      rest == IF FactorEnd(ts) = Len(ts) THEN {<<>>}
              ELSE Matches(SubSeq(ts, FactorEnd(ts) + 1, Len(ts)), S)
  IN  IF Bars(ts) # {}
        THEN Matches(SubSeq(ts, 1, FirstBar(ts) - 1), S)
               \cup Matches(SubSeq(ts, FirstBar(ts) + 1, Len(ts)), S)
        ELSE {s \in S : \E k \in 0 .. Len(s) :
                          SubSeq(s, 1, k) \in factor /\ SubSeq(s, k + 1, Len(s)) \in rest}

----------------------------------------------------------------------------
(***************************************************************************)
(* Calls that make a program of a regular expression and match texts with  *)
(* it, one character after the other.                                      *)
(***************************************************************************)
RegexpTokens ==
  {<<"char", 1>>, <<"char", 2>>, <<"*">>, <<"+">>, <<"?">>, <<"|">>, <<"(">>, <<")">>}

Factors(S) == S \cup {Append(s, <<r>>) : s \in S, r \in Repeats}
Single == {<< <<"char", 1>> >>, << <<"char", 2>> >>}
Simple == Factors(Single)
Groups ==
  {<< <<"(">> >> \o a \o between \o b \o << <<")">> >> :
     a \in Single, b \in Simple, between \in {<<>>, << <<"|">> >>}}
RegexpJobs ==
  UNION {[1 .. n -> RegexpTokens] : n \in 1 .. 4}
    \cup {a \o b : a \in Factors(Groups), b \in Simple \cup {<<>>}}
    \cup {b \o a : a \in Factors(Groups), b \in Simple}

RegexpTexts == UNION {[1 .. n -> {1, 2}] : n \in 0 .. 4}

RegexpCall(ts) ==
  LET prog == Regexp(ts)
      PositionAfter(text) ==
        LET p[i \in 0 .. Len(text)] ==
              IF i = 0 THEN StartPosition(prog)
              ELSE LET before == p[i - 1] IN Trans(prog, before.places, {text[i]})
        IN  p[Len(text)]
  IN  IF prog = BadRegexp THEN BadRegexp
      ELSE <<{text \in RegexpTexts : PositionAfter(text).final}>>

\* What the code is known to do otherwise (see the README): a "+" is not left
\* again when what it repeats can be empty, when something before it is repeated,
\* or when it and what comes before it are; and two "|" are not refused.
OperandAt(ts, k) ==
  CHOOSE b \in 1 .. k - 1 :
    /\ Depth(ts, b - 1) = Depth(ts, k - 1)
    /\ \A j \in b + 1 .. k - 1 : Depth(ts, j - 1) > Depth(ts, k - 1)

LostExit(ts) ==
  \E k \in DOMAIN ts :
    /\ ts[k] = <<"+">>
    /\ LET b == OperandAt(ts, k)
       IN  \/ \E j \in 1 .. b - 1 : ts[j][1] \in Repeats
           \/ /\ b > 1 /\ ts[b - 1][1] \notin {"(", "|"}
              /\ \E j \in k + 1 .. Len(ts) :
                   ts[j][1] \in {"*", "+"} /\ Depth(ts, j) < Depth(ts, k)
           \/ <<>> \in Matches(SubSeq(ts, b, k - 1), RegexpTexts)

TwoBars(ts) == \E k \in 1 .. Len(ts) - 1 : ts[k] = <<"|">> /\ ts[k + 1] = <<"|">>

RegexpAgrees(ts, r) ==
  \/ TwoBars(ts)
  \/ ~WellFormed(ts) /\ r = BadRegexp
  \/ WellFormed(ts) /\ (LostExit(ts) \/ r = <<Matches(ts, RegexpTexts)>>)

----------------------------------------------------------------------------
(***************************************************************************)
(* The tokens of a text: the longest part that something matches, a string *)
(* before regular expressions and of these the first symbol that was       *)
(* defined.                                                                *)
(***************************************************************************)
TokenSymbols(source) ==
  {source[k][2] : k \in {i \in DOMAIN source : source[i][1] = "token"}}

RegexpsOf(source, symb) ==
  {source[k][3] : k \in {i \in DOMAIN source :
     source[i][1] = "token" /\ source[i][2] = symb /\ source[i][3] # NoMatch}}

Productions(source) == {i \in DOMAIN source : source[i][1] = "prod"}

StringsIn(source) ==
  UNION {{source[k][3][j][2] : j \in {i \in DOMAIN source[k][3] :
            source[k][3][i][1] # "symbol"}} : k \in Productions(source)}

FirstRule(source, symb) ==
  CHOOSE k \in DOMAIN source : source[k][2] = symb /\ \A j \in 1 .. k - 1 : source[j][2] # symb

NoMatchSymbols(source) ==
  {source[k][2] : k \in {i \in DOMAIN source : source[i][1] = "token" /\ source[i][3] = NoMatch}}

Prefixes(text) == {SubSeq(text, 1, k) : k \in 1 .. Len(text)}
Parts(text) == {SubSeq(text, i, j) : i \in 1 .. Len(text) + 1, j \in 0 .. Len(text)}

\* The symbols and strings that match the whole of part.
Matchers(source, text, part) ==
  {<<"symbol", s>> : s \in {t \in TokenSymbols(source) :
     \E rgx \in RegexpsOf(source, t) : part \in Matches(rgx, Parts(text))}}
  \cup {<<"string", s>> : s \in {t \in StringsIn(source) : t = part}}

FirstToken(source, text) ==
  LET matched == {p \in Prefixes(text) : Matchers(source, text, p) # {}}
      longest == CHOOSE p \in matched : \A q \in matched : Len(q) <= Len(p)
      by == Matchers(source, text, longest)
      best == CHOOSE m \in by :
                \A o \in by \ {m} :
                  \/ m[1] = "string"
                  \/ o[1] = "symbol" /\ FirstRule(source, m[2]) < FirstRule(source, o[2])
  IN  IF matched = {} THEN <<>> ELSE <<best, longest>>

Rejected == <<"rejected">>

\* unmatched is what matched nothing, directly before the text.
RECURSIVE TokensAfter(_, _, _)
TokensAfter(source, unmatched, text) ==
  LET first == FirstToken(source, text)
      nomatch == NoMatchSymbols(source)
      before == IF unmatched = <<>> \/ "whitespace" \in nomatch THEN <<>>
                ELSE << << <<"symbol", CHOOSE s \in nomatch : TRUE>>, unmatched>> >>
      token == IF first[1] = <<"symbol", "whitespace">> THEN <<>> ELSE <<first>>
      rest == TokensAfter(source, <<>>, SubSeq(text, Len(first[2]) + 1, Len(text)))
  IN  CASE text = <<>> -> before
        [] text # <<>> /\ first # <<>> -> before \o token \o rest
        [] OTHER -> IF nomatch # {}
                      THEN TokensAfter(source, Append(unmatched, text[1]), Tail(text))
                      ELSE <<Rejected>>

Tokens(source, text) == TokensAfter(source, <<>>, text)

----------------------------------------------------------------------------
(***************************************************************************)
(* The values of a symbol for the tokens from i + 1 to j: V has those of   *)
(* the productions which are known so far.                                 *)
(***************************************************************************)
Value(V, tokens, e, i, j) ==
  IF e[1] = "symbol" /\ e[2] \in DOMAIN V THEN V[e[2]][<<i, j>>]
  ELSE IF j = i + 1 /\ tokens[j][1] = <<IF e[1] = "symbol" THEN "symbol" ELSE "string", e[2]>>
    THEN {<< <<"str", tokens[j][2]>> >>} ELSE {}

RECURSIVE SideValues(_, _, _, _, _)
SideValues(V, tokens, rhs, i, j) ==
  IF rhs = <<>> THEN IF i = j THEN {<<>>} ELSE {}
  ELSE UNION {{a \o b : a \in Value(V, tokens, rhs[1], i, k),
                        b \in SideValues(V, tokens, Tail(rhs), k, j)} : k \in i .. j}

OfRule(V, tokens, rule, i, j) ==
  LET values == SideValues(V, tokens, rule[3], i, j)
  IN  IF rule[4] = NoFunc THEN values
      ELSE {r[2] : r \in {CallFunc(rule[4], v) : v \in values} \ {Nil}}

RECURSIVE AllValues(_, _, _)
AllValues(source, tokens, V) ==
  LET Better(symb, i, j) ==
        V[symb][<<i, j>>] \cup
          UNION {OfRule(V, tokens, source[k], i, j) :
                   k \in {n \in Productions(source) : source[n][2] = symb}}
      W == [symb \in DOMAIN V |-> [s \in DOMAIN V[symb] |-> Better(symb, s[1], s[2])]]
  IN  IF W = V THEN V ELSE AllValues(source, tokens, W)

PermittedValues(source, tokens) ==
  LET n == Len(tokens)
      symbols == {source[k][2] : k \in Productions(source)}
      spans == {s \in (0 .. n) \X (0 .. n) : s[1] <= s[2]}
      V == AllValues(source, tokens, [s \in symbols |-> [x \in spans |-> {}]])
      start == source[CHOOSE k \in Productions(source) :
                        \A j \in Productions(source) : k <= j][2]
  IN  V[start][<<0, n>>]

\* The values of a result with one choice for each list of alternatives.
RECURSIVE Choices(_)
Choices(values) ==
  LET v == values[1]
      first == CASE v[1] = "str" -> {<<v>>}
                 [] v[1] = "arr" -> {<< <<"arr", c>> >> : c \in Choices(v[2])}
                 [] OTHER -> UNION {Choices(v[2][i][2]) : i \in DOMAIN v[2]}
  IN  IF values = <<>> THEN {<<>>}
      ELSE {a \o b : a \in first, b \in Choices(Tail(values))}

RECURSIVE Bounded(_, _)
Bounded(values, maxalt) ==
  \A k \in DOMAIN values :
    LET v == values[k]
    IN  CASE v[1] = "str" -> TRUE
          [] v[1] = "arr" -> Bounded(v[2], maxalt)
          [] OTHER -> /\ Len(v[2]) \in 2 .. maxalt
                      /\ \A i \in DOMAIN v[2] : Bounded(v[2][i][2], maxalt)

----------------------------------------------------------------------------
\* A grammar is complete: symbols are tokens or productions.
Proper(source) ==
  LET tokens == TokenSymbols(source)
      prods == {source[k][2] : k \in Productions(source)}
  IN  /\ tokens # {} /\ prods # {} /\ tokens \cap prods = {}
      /\ \A k \in DOMAIN source :
           source[k][1] = "token" /\ source[k][3] # NoMatch => WellFormed(source[k][3])
      /\ Cardinality({k \in DOMAIN source : source[k][3] = NoMatch}) <= 1
      /\ \A k \in Productions(source) : \A j \in DOMAIN source[k][3] :
           source[k][3][j][1] = "symbol" => source[k][3][j][2] \in tokens \cup prods

\* For a call [source, text, maxalt, result]: the parses are values that the
\* grammar permits, and all of them if there are no more than maxalt at once.
ParseAgrees(call) ==
  LET tokens == Tokens(call.source, call.text)
      rejected == tokens # <<>> /\ tokens[Len(tokens)] = Rejected
      before == SubSeq(tokens, 1, Len(tokens) - 1)
      permitted == PermittedValues(call.source, tokens)
      values == call.result[2]
  IN  CASE rejected ->
             \/ call.result = BadToken
             \/ call.result = Nil /\ PermittedValues(call.source, before) = {}
        [] ~rejected /\ permitted = {} -> call.result = Nil
        [] OTHER ->
             /\ call.result[1] = "values"
             /\ Choices(values) \subseteq permitted
             /\ Bounded(values, call.maxalt)
             /\ call.maxalt > 1 /\ Bounded(values, call.maxalt - 1)
                  => Choices(values) = permitted

Allowed(call) ==
  IF Proper(call.source) THEN ParseAgrees(call) ELSE "error" \in DOMAIN call.result

\* What is written of a parser that has changed takes the memory that was
\* counted for it.
SizesMatch(ps) ==
  LET fa == ps.fa
      lr == ps.lr
  IN  /\ fa.modified => PermanentBytes(DfaSaved(fa)) = fa.dfasize
      /\ fa.modified /\ ~Complete(fa) => TemporaryBytes(fa) = fa.tmpssize + fa.tmppsize
      /\ lr.modified => SrpBytes(lr) = lr.srpsize
      /\ lr.modified /\ Len(lr.states) # lr.nexpanded => SrpTmpBytes(lr) = lr.tmpsize

----------------------------------------------------------------------------
(***************************************************************************)
(* Grammars and texts to try.  The characters are 0, 1 and 2.              *)
(***************************************************************************)
C(c) == <<"char", c>>
Tok(s, rgx) == <<"token", s, rgx>>
Prod(s, rhs) == <<"prod", s, rhs, NoFunc>>
ProdWith(s, rhs, func) == <<"prod", s, rhs, func>>
Sym(s) == <<"symbol", s>>
Str(s) == <<"string", s>>
Plus == <<"+">>
Star == <<"*">>
Opt == <<"?">>

Blanks == Tok("whitespace", <<C(0), Plus>>)
Num == Tok("num", <<C(1), Plus>>)

\* Ambiguous.
Sums ==
  <<Blanks, Num,
    Prod("sum", <<Sym("num")>>), Prod("sum", <<Sym("sum"), Str(<<2>>), Sym("sum")>>)>>

\* With an empty production, a string that is also a number, and functions.
Lists ==
  <<Blanks, Num,
    ProdWith("list", <<>>, "wrap"), ProdWith("list", <<Sym("list"), Sym("num")>>, "wrap"),
    Prod("list", <<Sym("list"), Str(<<1, 1>>)>>)>>

\* With what matches nothing, and functions that drop and refuse values.
Pairs ==
  <<Tok("a", <<C(1)>>), Tok("a", NoMatch), Tok("b", <<C(1), Opt, C(2)>>),
    ProdWith("pair", <<Sym("A"), Sym("B")>>, "drop"), Prod("pair", <<Sym("a"), Sym("b")>>),
    Prod("A", <<Sym("a")>>), Prod("B", <<Sym("b")>>),
    ProdWith("B", <<Sym("b"), Sym("b")>>, "nil"), ProdWith("pair", <<Sym("B")>>, "wrap")>>

\* A production of itself, strings with common prefixes, sets of characters,
\* and whitespace that is whatever does not match.
Words ==
  <<Tok("whitespace", NoMatch), Tok("word", <<<<"set", FALSE, {1, 2}>>, <<"set", TRUE, {0, 1}>>>>),
    Prod("words", <<Sym("words")>>), Prod("words", <<Sym("word")>>),
    Prod("words", <<Str(<<1>>)>>), Prod("words", <<Str(<<1, 2>>), Sym("words")>>),
    ProdWith("words", <<Sym("any"), Str(<<1, 2, 2>>)>>, "wrap"),
    Prod("any", <<Sym("words"), Sym("words")>>)>>

\* A set of characters that is split when the state after it is expanded.
Late ==
  <<Tok("late", <<<<"set", FALSE, {1, 2}>>, C(2)>>), Prod("lates", <<Sym("late")>>)>>

\* Not grammars.
Undefined == <<Num, Prod("x", <<Sym("y")>>)>>
Twice == <<Num, Tok("x", NoMatch), Tok("y", NoMatch), Prod("z", <<Sym("x")>>)>>
Clash == <<Num, Prod("x", <<Sym("num")>>), Tok("x", <<C(1)>>)>>
Malformed == <<Tok("num", <<C(1), <<"|">>>>), Prod("x", <<Sym("num")>>)>>
Tokenless == <<Prod("x", <<Str(<<1>>)>>)>>

GrammarSources ==
  Sums :> {<< <<1, 2, 1, 2, 1, 2, 1>>, 2>>, << <<1, 0, 2, 1>>, 1>>, << <<2>>, 1>>}
  @@ Lists :> {<< <<>>, 1>>, << <<1, 1, 1>>, 4>>, << <<1, 0, 1, 1, 0, 1>>, 1>>}
  @@ Pairs :> {<< <<2, 2>>, 1>>, << <<0, 0, 2>>, 1>>, << <<1, 1, 2>>, 4>>}
  @@ Words :> {<< <<1, 2, 0, 1>>, 1>>, << <<2, 2, 1, 1, 2, 2>>, 4>>, << <<1, 2, 2, 0>>, 1>>}
  @@ Late :> {<< <<1, 2>>, 1>>}
  @@ [s \in {Undefined, Twice, Clash, Malformed, Tokenless} |-> {<< <<1>>, 1>>}]
=============================================================================
