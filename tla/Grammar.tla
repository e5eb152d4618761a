------------------------------- MODULE Grammar -------------------------------
(***************************************************************************)
(* Grammars for parse_string() (Grammar::parse, Grammar::create): from the *)
(* rules as they are written to numbered tokens and productions.           *)
(*                                                                         *)
(* A rule is <<"token", symbol, regular expression or NoMatch>> or         *)
(* <<"prod", symbol, right hand side, function or NoFunc>>, and a right    *)
(* hand side has <<"symbol", s>>, and <<"string", s>> or <<"estring", s>>  *)
(* for strings without and with escaped characters.                        *)
(***************************************************************************)
EXTENDS Rgx

NoMatch == << <<"nomatch">> >>
NoFunc == "nofunc"
NoNumber == -1

BadGrammar(why) == [error |-> why]

----------------------------------------------------------------------------
(***************************************************************************)
(* The lists of rules, in the order in which their symbols were defined    *)
(* and their strings first used.  unknown has the symbols that are used    *)
(* and not yet defined.                                                    *)
(***************************************************************************)
NoRules ==
  [rgx |-> <<>>, prod |-> <<>>, str |-> <<>>, estr |-> <<>>, unknown |-> <<>>,
   nomatch |-> FALSE, error |-> ""]

Index(s, P(_)) == CHOOSE i \in DOMAIN s : P(s[i])

Defines(list, symb) == \E i \in DOMAIN list : list[i].symb = symb

\* One more alternative for symb.
Alternated(list, symb, alt) ==
  IF Defines(list, symb)
    THEN [list EXCEPT ![Index(list, LAMBDA r : r.symb = symb)].alts = Append(@, alt)]
    ELSE Append(list, [symb |-> symb, alts |-> <<alt>>])

Known(unknown, symb) == SelectSeq(unknown, LAMBDA s : s # symb)

Wrong(st, why) == [st EXCEPT !.error = why]

TokenRule(st, symb, rgx) ==
  LET prog == Regexp(rgx)
      defined == [st EXCEPT !.unknown = Known(@, symb),
                            !.rgx = Alternated(@, symb, IF rgx = NoMatch THEN NoMatch
                                                        ELSE prog)]
  IN  CASE Defines(st.prod, symb) -> Wrong(st, "previously defined as production rule")
        [] ~Defines(st.prod, symb) /\ rgx = NoMatch ->
             IF st.nomatch THEN Wrong(st, "extra nomatch rule")
             ELSE [defined EXCEPT !.nomatch = TRUE]
        [] OTHER -> IF prog = BadRegexp THEN Wrong(st, "malformed regular expression")
                    ELSE defined

\* What is used on the right hand side of a production.
Used(st, element) ==
  LET name == element[2]
      InStrings == \E i \in DOMAIN st.str : st.str[i] = name
      InEscaped == \E i \in DOMAIN st.estr : st.estr[i] = name
  IN  CASE element[1] = "symbol" ->
             IF Defines(st.rgx, name) \/ Defines(st.prod, name)
                  \/ \E i \in DOMAIN st.unknown : st.unknown[i] = name
               THEN st ELSE [st EXCEPT !.unknown = Append(@, name)]
        [] element[1] # "symbol" /\ (InStrings \/ InEscaped) -> st
        [] OTHER -> IF element[1] = "string" THEN [st EXCEPT !.str = Append(@, name)]
                    ELSE [st EXCEPT !.estr = Append(@, name)]

ProductionRule(st, symb, rhs, func) ==
  LET defined == [st EXCEPT !.unknown = Known(@, symb),
                            !.prod = Alternated(@, symb, [rhs |-> rhs, func |-> func])]
      u[i \in 0 .. Len(rhs)] == IF i = 0 THEN defined ELSE Used(u[i - 1], rhs[i])
  IN  IF Defines(st.rgx, symb) THEN Wrong(st, "previously defined as token rule")
      ELSE u[Len(rhs)]

ReadRule(st, rule) ==
  CASE st.error # "" -> st
    [] st.error = "" /\ rule[1] = "token" -> TokenRule(st, rule[2], rule[3])
    [] OTHER -> ProductionRule(st, rule[2], rule[3], rule[4])

----------------------------------------------------------------------------
\* Grammar::create: tokens are numbered before productions, regular
\* expressions before strings and these before escaped ones; the start symbol
\* has a rule of its own with what was defined first.
RECURSIVE Joined(_)
Joined(ss) == IF ss = <<>> THEN <<>> ELSE ss[1] \o Joined(Tail(ss))

Numbers(st) ==
  LET nrgx == Len(st.rgx)
      ntoken == nrgx + Len(st.str) + Len(st.estr)
      Number(e) ==
        LET name == e[2]
        IN  CASE e[1] = "symbol" /\ Defines(st.rgx, name) ->
                   Index(st.rgx, LAMBDA r : r.symb = name) - 1
              [] e[1] = "symbol" /\ ~Defines(st.rgx, name) ->
                   ntoken + Index(st.prod, LAMBDA r : r.symb = name)
              [] OTHER -> nrgx + Index(st.str \o st.estr, LAMBDA s : s = name) - 1
      Rules(k) ==
        LET alts == st.prod[k].alts
        IN  [i \in DOMAIN alts |->
               [symb |-> ntoken + k, func |-> alts[i].func,
                rhs |-> [j \in DOMAIN alts[i].rhs |-> Number(alts[i].rhs[j])]]]
      Regexps(k) ==
        LET alts == SelectSeq(st.rgx[k].alts, LAMBDA a : a # NoMatch)
        IN  [i \in DOMAIN alts |-> [prog |-> alts[i], rule |-> k - 1]]
      At(P(_)) ==
        LET ks == {k \in DOMAIN st.rgx : P(st.rgx[k])}
        IN  IF ks = {} THEN NoNumber ELSE (CHOOSE k \in ks : TRUE) - 1
  IN  [error |-> "",
       nrgx |-> nrgx, ntoken |-> ntoken,
       alts |-> Joined([k \in DOMAIN st.rgx |-> Regexps(k)]),
       strings |-> st.str \o st.estr,
       whitespace |-> At(LAMBDA r : r.symb = "whitespace"),
       nomatch |-> At(LAMBDA r : \E i \in DOMAIN r.alts : r.alts[i] = NoMatch),
       rules |-> <<[symb |-> ntoken, func |-> NoFunc, rhs |-> <<ntoken + 1>>]>>
                   \o Joined([k \in DOMAIN st.prod |-> Rules(k)])]

ParseGrammar(source) ==
  LET s[i \in 0 .. Len(source)] ==
        IF i = 0 THEN NoRules ELSE ReadRule(s[i - 1], source[i])
      st == s[Len(source)]
  IN  CASE st.error # "" -> BadGrammar(st.error)
        [] st.error = "" /\ st.unknown # <<>> -> BadGrammar("Undefined symbol")
        [] st.error = "" /\ st.unknown = <<>> /\ st.rgx = <<>> -> BadGrammar("No tokens")
        [] OTHER -> IF st.prod = <<>> THEN BadGrammar("No starting rule")
                    ELSE Numbers(st)
=============================================================================
