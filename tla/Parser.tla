------------------------------- MODULE Parser -------------------------------
(***************************************************************************)
(* pkg/parser/parser.go: from the tokens of Lexer to the syntax tree, by   *)
(* recursive descent for statements and by binding powers for expressions. *)
(*                                                                         *)
(* A parser state has the tokens, the place of curToken among them (what   *)
(* is behind the last one is EOF), whether no error has been reported, and *)
(* the node that the function called last has returned.  A node is a tuple *)
(* that begins with its kind; Nil is no node.  The code goes on behind an  *)
(* error, to report more of them; here the state stays as it is, because a *)
(* tree with errors is not used by anyone.                                 *)
(*                                                                         *)
(* Strings are literals here, f-strings with them (what is in their braces *)
(* is parsed by a parser of its own).                                      *)
(***************************************************************************)
EXTENDS Integers, Sequences

CONSTANTS Names,   \* identifiers
          Capital, \* those that do not begin with a small letter
          Numbers

Nil == <<>>

Literals == Numbers \cup {"STRING", "True", "False", "None", "..."}

(* "chan" and "spawn" are identifiers in expressions.                      *)
Identifiers == Names \cup {"chan", "spawn"}

(* The parser looks at the symbols of two tokens.                          *)
SymAt(p, i) == IF i \in DOMAIN p.tokens THEN p.tokens[i].sym ELSE "EOF"
Cur(p) == SymAt(p, p.at)
Peek(p) == SymAt(p, p.at + 1)

nextToken(p) == [p EXCEPT !.at = @ + 1]
Second(p) == nextToken(nextToken(p))

Give(p, node) == [p EXCEPT !.node = node]
Fail(p) == [p EXCEPT !.ok = FALSE, !.node = Nil]

(* expectPeek: one step on to the symbol, which must be the next one.      *)
Expect(p, sym) == IF Peek(p) = sym THEN nextToken(p) ELSE Fail(p)

Ended == {"NEWLINE", ";"}

RECURSIVE skipNewlines(_)
skipNewlines(p) == IF Cur(p) \in Ended THEN skipNewlines(nextToken(p)) ELSE p

-------------------------------------------------------------------------------
(* The binding powers, from the weakest on; NOT has its place but no       *)
(* operator that uses it.                                                  *)
LOWEST == 1
WALRUS == 2
IF_ELSE == 3
LOGICAL_NOT == 6
COMPARISON == 7
UNARY == 14
POWER == 15

Powers ==
  <<{}, {":="}, {"if"}, {"or"}, {"and"}, {},
    {"==", "!=", "<", ">", "<=", ">=", "in", "not in", "is", "is not"},
    {"|"}, {"^"}, {"&"}, {"<<", ">>"}, {"+", "-"}, {"/", "//", "*", "%"}, {},
    {"**"}, {"("}, {"[", "."}>>

precedence(sym) ==
  IF \E n \in DOMAIN Powers : sym \in Powers[n]
  THEN CHOOSE n \in DOMAIN Powers : sym \in Powers[n]
  ELSE LOWEST

Binary == UNION {Powers[n] : n \in {4, 5} \cup (7 .. 13)}
Prefixes == {"-", "+", "~", "not"}

RECURSIVE Expression(_, _), Infixes(_, _), Elements(_, _, _), Entries(_, _),
          Parameters(_, _), LambdaParameters(_, _), Arguments(_, _, _)

(* A comma-separated list behind its first element, to the bracket close;  *)
(* a comma may come before that.  The node is the sequence.                *)
Elements(p, close, elems) ==
  IF ~p.ok \/ Peek(p) # "," THEN Give(Expect(p, close), elems)
  ELSE IF Peek(nextToken(p)) = close THEN Give(Second(p), elems)
  ELSE LET e == Expression(Second(p), LOWEST)
       IN  Elements(e, close, Append(elems, e.node))

(* From "for" on: target, iterable, condition.  An iterable stops at "if". *)
Comprehension(p, kind, what, close) ==
  LET target   == Expression(Second(p), COMPARISON)
      in       == Expect(target, "in")
      iterable == Expression(nextToken(in), IF_ELSE)
      cond     == IF Peek(iterable) = "if" THEN Expression(Second(iterable), LOWEST)
                  ELSE Give(iterable, Nil)
      end      == Expect(cond, close)
  IN  Give(end, <<"comp", kind, what, target.node, iterable.node, cond.node>>)

(* "(": nothing, an expression, or a tuple, which has a comma.             *)
Grouped(p) ==
  LET e == Expression(nextToken(p), LOWEST)
      t == Elements(e, ")", <<e.node>>)
  IN  CASE Peek(p) = ")" -> Give(nextToken(p), <<"tuple", <<>>>>)
        [] Peek(p) # ")" /\ Peek(e) = "," -> Give(t, <<"tuple", t.node>>)
        [] OTHER -> Expect(e, ")")

ListOrComp(p) ==
  LET e == Expression(nextToken(p), LOWEST)
      l == Elements(e, "]", <<e.node>>)
  IN  CASE Peek(p) = "]" -> Give(nextToken(p), <<"list", <<>>>>)
        [] Peek(p) # "]" /\ Peek(e) = "for" -> Comprehension(e, "list", <<e.node>>, "]")
        [] OTHER -> Give(l, <<"list", l.node>>)

(* The entries of a dict behind the first one.                             *)
Entries(p, entries) ==
  IF ~p.ok \/ Peek(p) # "," THEN Give(Expect(p, "}"), <<"dict", entries>>)
  ELSE IF Peek(nextToken(p)) = "}" THEN Give(Second(p), <<"dict", entries>>)
  ELSE LET k == Expression(Second(p), LOWEST)
           v == Expression(nextToken(Expect(k, ":")), LOWEST)
       IN  Entries(v, Append(entries, <<k.node, v.node>>))

DictOrSet(p) ==
  LET k == Expression(nextToken(p), LOWEST)
      v == Expression(Second(k), LOWEST)
      s == Elements(k, "}", <<k.node>>)
  IN  CASE Peek(p) = "}" -> Give(nextToken(p), <<"dict", <<>>>>)
        [] Peek(p) # "}" /\ Peek(k) = ":" ->
             IF Peek(v) = "for" THEN Comprehension(v, "dict", <<k.node, v.node>>, "}")
             ELSE Entries(v, <<<<k.node, v.node>>>>)
        [] Peek(p) # "}" /\ Peek(k) = "for" -> Comprehension(k, "set", <<k.node>>, "}")
        [] OTHER -> Give(s, <<"set", s.node>>)

(* Plain names, with no default values, to the colon.                      *)
LambdaParameters(p, params) ==
  IF Cur(p) \notin Names THEN Fail(p)
  ELSE CASE Peek(p) = "," -> LambdaParameters(Second(p), Append(params, Cur(p)))
         [] Peek(p) = ":" -> Give(nextToken(p), Append(params, Cur(p)))
         [] OTHER -> Fail(p)

Lambda(p) ==
  LET q == IF Peek(p) = ":" THEN Give(nextToken(p), <<>>)
           ELSE LambdaParameters(nextToken(p), <<>>)
      body == Expression(nextToken(q), LOWEST)
  IN  Give(body, <<"lambda", q.node, body.node>>)

Yield(p) ==
  LET q == IF Peek(p) = "from" THEN nextToken(p) ELSE p
      v == IF Peek(q) \in Ended \cup {"EOF", ")", "]", "}", ","} THEN Give(q, Nil)
           ELSE Expression(nextToken(q), LOWEST)
  IN  Give(v, <<"yield", Peek(p) = "from", v.node>>)

(* The operand of a prefix operator goes as far as what binds stronger.    *)
Prefixed(p, power, kind) ==
  LET e == Expression(nextToken(p), power)
  IN  Give(e, Append(kind, e.node))

Prefix(p) ==
  CASE Cur(p) \in Identifiers -> Give(p, <<"name", Cur(p)>>)
    [] Cur(p) \in Literals -> Give(p, <<"literal", Cur(p)>>)
    [] Cur(p) \in Prefixes -> Prefixed(p, UNARY, <<"unary", Cur(p)>>)
    [] Cur(p) = "*" -> Prefixed(p, UNARY, <<"star">>)
    [] Cur(p) = "await" -> Prefixed(p, UNARY, <<"await">>)
    [] Cur(p) = "yield" -> Yield(p)
    [] Cur(p) = "(" -> Grouped(p)
    [] Cur(p) = "[" -> ListOrComp(p)
    [] Cur(p) = "{" -> DictOrSet(p)
    [] Cur(p) = "lambda" -> Lambda(p)

HasPrefix(p) ==
  Cur(p) \in Identifiers \cup Literals \cup Prefixes
               \cup {"*", "await", "yield", "(", "[", "{", "lambda"}

(* The arguments of a call, from the first one on: positional, keywords.   *)
Arguments(p, args, keys) ==
  LET named == Cur(p) \in Names /\ Peek(p) = "="
      e  == Expression(IF named THEN Second(p) ELSE p, LOWEST)
      as == IF named THEN args ELSE Append(args, e.node)
      ks == IF named THEN Append(keys, <<Cur(p), e.node>>) ELSE keys
      q  == nextToken(e)
  IN  CASE e.ok /\ Peek(e) = "," /\ Peek(q) = ")" -> Give(nextToken(q), <<as, ks>>)
        [] e.ok /\ Peek(e) = "," /\ Peek(q) # ")" -> Arguments(nextToken(q), as, ks)
        [] e.ok /\ Peek(e) = ")" -> Give(q, <<as, ks>>)
        [] OTHER -> Give(Fail(e), <<as, ks>>)

Call(p) ==
  LET a == IF Peek(p) = ")" THEN Give(nextToken(p), <<<<>>, <<>>>>)
           ELSE Arguments(nextToken(p), <<>>, <<>>)
  IN  Give(a, <<"call", p.node, a.node[1], a.node[2]>>)

(* a[i], and a[i:j:k] with any of the three left out.                      *)
IndexOrSlice(p) ==
  LET q     == nextToken(p)
      start == IF Cur(q) = ":" THEN Give(q, Nil) ELSE Expression(q, LOWEST)
      colon == IF Cur(q) = ":" THEN q ELSE nextToken(start)
      end   == IF Peek(colon) \in {"]", ":"} THEN Give(colon, Nil)
               ELSE Expression(nextToken(colon), LOWEST)
      again == IF Peek(end) = ":" THEN nextToken(end) ELSE end
      step  == IF Cur(again) = ":" /\ Peek(again) # "]"
               THEN Expression(nextToken(again), LOWEST) ELSE Give(again, Nil)
  IN  IF Cur(q) = ":" \/ Peek(start) = ":"
      THEN Give(Expect(step, "]"), <<"slice", p.node, start.node, end.node, step.node>>)
      ELSE Give(Expect(start, "]"), <<"index", p.node, start.node>>)

Attribute(p) ==
  LET q == nextToken(p)
  IN  IF Cur(q) \in Names THEN Give(q, <<"attr", p.node, Cur(q)>>) ELSE Fail(q)

\* Mutant: the alternative ends at the next "if", and at every weaker operator.
TernaryTight(p) ==
  LET cond == Expression(nextToken(p), LOWEST)
      else == Expect(cond, "else")
      alt  == Expression(nextToken(else), COMPARISON)
  IN  Give(alt, <<"ternary", cond.node, p.node, alt.node>>)

(* p.node if cond else alt, where alt ends before another "if".            *)
Ternary(p) ==
  LET cond == Expression(nextToken(p), LOWEST)
      else == Expect(cond, "else")
      alt  == Expression(nextToken(else), IF_ELSE)
  IN  Give(alt, <<"ternary", cond.node, p.node, alt.node>>)

(* An operand to the right goes as far as what binds stronger than the     *)
(* operator, but for "**", where it may have another one.                  *)
Operand(p, power) ==
  LET e == Expression(nextToken(p), power)
  IN  Give(e, <<"binary", Cur(p), p.node, e.node>>)

Infix(p) ==
  CASE Cur(p) \in Binary -> Operand(p, precedence(Cur(p)))
    [] Cur(p) = "**" -> Operand(p, POWER - 1)
    [] Cur(p) = ":=" -> Prefixed(p, WALRUS, <<"walrus", p.node>>)
    [] Cur(p) = "if" -> Ternary(p)
    [] Cur(p) = "(" -> Call(p)
    [] Cur(p) = "[" -> IndexOrSlice(p)
    [] Cur(p) = "." -> Attribute(p)

(* parseExpression: a prefix, then infixes while they bind stronger.       *)
Infixes(p, power) ==
  IF ~p.ok \/ Peek(p) \in Ended \cup {"EOF"} \/ precedence(Peek(p)) <= power THEN p
  ELSE Infixes(Infix(nextToken(p)), power)

Expression(p, power) ==
  IF p.ok /\ HasPrefix(p) THEN Infixes(Prefix(p), power) ELSE Fail(p)

-------------------------------------------------------------------------------
RECURSIVE Statement(_), Statements(_, _, _), Conditions(_, _), Handlers(_, _), Cases(_, _),
          Listed(_, _), Values(_, _), Imports(_, _), Globals(_, _),
          Decorators(_, _)

(* The statements up to one of the symbols in stops.  If one has moved the *)
(* parser nowhere, its token is passed over.                               *)
Statements(p, stops, list) ==
  LET q == skipNewlines(p)
      s == Statement(q)
      t == skipNewlines(s)
      u == IF t.at = q.at THEN skipNewlines(nextToken(t)) ELSE t
  IN  IF ~p.ok \/ Cur(q) \in stops THEN Give(q, list)
      ELSE Statements(u, stops, IF s.node = Nil THEN list ELSE Append(list, s.node))

(* A block: behind its colon, indented lines or one statement.             *)
Block(p) ==
  LET colon == Expect(p, ":")
      first == nextToken(colon)
      body  == Statements(Second(first), {"DEDENT", "EOF"}, <<>>)
      one   == Statement(first)
  IN  CASE ~colon.ok -> colon
        [] colon.ok /\ Cur(first) = "NEWLINE" ->
             IF Peek(first) # "INDENT" THEN Fail(first)
             ELSE IF Cur(body) = "DEDENT" THEN nextToken(body) ELSE body
        [] OTHER -> Give(one, IF one.node = Nil THEN <<>> ELSE <<one.node>>)

(* The block of an else or a finally, if there is one.                     *)
Optional(p, keyword) ==
  IF p.ok /\ Cur(p) = keyword THEN Block(p) ELSE Give(p, <<>>)

(* The elifs behind an if.                                                 *)
Conditions(p, list) ==
  LET cond  == Expression(nextToken(p), LOWEST)
      block == Block(cond)
  IN  IF ~p.ok \/ Cur(p) # "elif" THEN Give(p, list)
      ELSE Conditions(skipNewlines(block), Append(list, <<cond.node, block.node>>))

If(p) ==
  LET cond  == Expression(nextToken(p), LOWEST)
      then  == Block(cond)
      elifs == Conditions(skipNewlines(then), <<>>)
      else  == Optional(elifs, "else")
  IN  Give(else, <<"if", cond.node, then.node, elifs.node, else.node>>)

While(p) ==
  LET cond == Expression(nextToken(p), LOWEST)
      body == Block(cond)
      else == Optional(skipNewlines(body), "else")
  IN  Give(else, <<"while", cond.node, body.node, else.node>>)

For(p) ==
  LET target   == Expression(nextToken(p), COMPARISON)
      in       == Expect(target, "in")
      iterable == Expression(nextToken(in), LOWEST)
      body     == Block(iterable)
      else     == Optional(skipNewlines(body), "else")
  IN  Give(else, <<"for", target.node, iterable.node, body.node, else.node>>)

(* The handlers of a try.  An exception that is only a name, and not a     *)
(* capitalised one, is not a type but the name the exception is given.     *)
Handlers(p, list) ==
  LET bare  == Peek(p) = ":"
      type  == IF bare THEN Give(p, Nil) ELSE Expression(nextToken(p), LOWEST)
      as    == ~bare /\ Peek(type) = "as"
      named == IF as /\ SymAt(type, type.at + 2) \notin Names THEN Fail(type)
               ELSE IF as THEN Second(type) ELSE type
      alone == ~bare /\ ~as /\ type.ok /\ type.node[1] = "name" /\ type.node[2] \notin Capital
      block == Block(named)
      handler == <<IF alone THEN Nil ELSE type.node,
                   CASE as -> <<Cur(named)>> [] alone -> <<type.node[2]>> [] OTHER -> Nil,
                   block.node>>
  IN  IF ~p.ok \/ Cur(p) # "except" THEN Give(p, list)
      ELSE Handlers(skipNewlines(block), Append(list, handler))

Try(p) ==
  LET body     == Block(p)
      handlers == Handlers(skipNewlines(body), <<>>)
      else     == Optional(handlers, "else")
      finally  == Optional(skipNewlines(else), "finally")
  IN  Give(finally, <<"try", body.node, handlers.node, else.node, finally.node>>)

(* The cases of a match; anything else between them is passed over.  A     *)
(* pattern takes an "if" for its own.                                      *)
Cases(p, list) ==
  LET q       == skipNewlines(p)
      pattern == Expression(nextToken(q), LOWEST)
      guard   == IF Peek(pattern) = "if" THEN Expression(Second(pattern), LOWEST)
                 ELSE Give(pattern, Nil)
      block   == Block(guard)
  IN  CASE ~p.ok \/ Cur(q) \in {"DEDENT", "EOF"} -> Give(q, list)
        [] p.ok /\ Cur(q) = "case" ->
             Cases(skipNewlines(block), Append(list, <<pattern.node, guard.node, block.node>>))
        [] OTHER -> Cases(skipNewlines(nextToken(q)), list)

Match(p) ==
  LET subject == Expression(nextToken(p), LOWEST)
      first   == nextToken(Expect(subject, ":"))
      cases   == Cases(Second(first), <<>>)
  IN  CASE first.ok /\ Cur(first) = "NEWLINE" /\ Peek(first) # "INDENT" -> Fail(first)
        [] first.ok /\ Cur(first) = "NEWLINE" /\ Peek(first) = "INDENT" ->
             Give(IF Cur(cases) = "DEDENT" THEN nextToken(cases) ELSE cases,
                  <<"match", subject.node, cases.node>>)
        [] OTHER -> Give(first, <<"match", subject.node, <<>>>>)

(* Parameters, from the first one on: <<star, name, default>>.  (Types are *)
(* passed over.)  Behind a last comma a second bracket is asked for.       *)
Parameters(p, list) ==
  LET star  == IF Cur(p) \in {"*", "**"} THEN Cur(p) ELSE ""
      q     == IF star = "" THEN p ELSE nextToken(p)
      typed == IF Peek(q) = ":" THEN Second(q) ELSE q
      value == IF Peek(typed) = "=" THEN Expression(Second(typed), LOWEST)
               ELSE Give(typed, Nil)
      all   == Append(list, <<star, IF Cur(q) \in Names THEN Cur(q) ELSE "", value.node>>)
  IN  CASE value.ok /\ Peek(value) = "," /\ Peek(nextToken(value)) = ")" ->
             Give(Expect(Second(value), ")"), all)
        [] value.ok /\ Peek(value) = "," /\ Peek(nextToken(value)) # ")" ->
             Parameters(Second(value), all)
        [] OTHER -> Give(Expect(value, ")"), all)

FunctionDef(p, kind) ==
  LET name   == nextToken(p)
      open   == Expect(name, "(")
      params == IF Peek(open) = ")" THEN Give(nextToken(open), <<>>)
                ELSE Parameters(nextToken(open), <<>>)
      typed  == IF Peek(params) = "->" THEN Second(params) ELSE params
      body   == Block(typed)
  IN  IF Peek(p) \notin Names \/ ~open.ok THEN Fail(p)
      ELSE Give(body, <<kind, Cur(name), params.node, body.node>>)

ClassDef(p) ==
  LET name  == nextToken(p)
      first == Expression(Second(name), LOWEST)
      bases == CASE Peek(name) # "(" -> Give(name, <<>>)
                 [] Peek(name) = "(" /\ Peek(nextToken(name)) = ")" -> Give(Second(name), <<>>)
                 [] OTHER -> Elements(first, ")", <<first.node>>)
      body  == Block(bases)
  IN  IF Peek(p) \notin Names THEN Fail(p)
      ELSE Give(body, <<"class", Cur(name), bases.node, body.node>>)

Async(p) == IF Peek(p) = "def" THEN FunctionDef(nextToken(p), "async def") ELSE Fail(p)

(* Decorators, each on a line, and what they decorate.                     *)
Decorators(p, list) ==
  LET e == Expression(nextToken(p), LOWEST)
      q == IF Peek(e) \in Ended THEN nextToken(e) ELSE e
  IN  IF ~p.ok \/ Cur(p) # "@" THEN Give(p, list)
      ELSE Decorators(skipNewlines(q), Append(list, e.node))

Decorated(p) ==
  LET q == Decorators(p, <<>>)
      s == CASE Cur(q) = "def" -> FunctionDef(q, "def")
             [] Cur(q) = "class" -> ClassDef(q)
             [] Cur(q) = "async" -> Async(q)
             [] OTHER -> Fail(q)
  IN  Give(s, <<"decorated", q.node, s.node>>)

-------------------------------------------------------------------------------
Return(p) ==
  LET e == Expression(nextToken(p), LOWEST)
  IN  IF Peek(p) \in Ended \cup {"EOF", "DEDENT"} THEN Give(nextToken(p), <<"return">>)
      ELSE Give(e, <<"return", e.node>>)

Raise(p) ==
  LET e     == Expression(nextToken(p), LOWEST)
      cause == Expression(Second(e), LOWEST)
  IN  CASE Peek(p) \in Ended \cup {"EOF"} -> Give(nextToken(p), <<"raise">>)
        [] Peek(p) \notin Ended \cup {"EOF"} /\ Peek(e) = "from" ->
             Give(cause, <<"raise", e.node, cause.node>>)
        [] OTHER -> Give(e, <<"raise", e.node>>)

Assert(p) ==
  LET cond    == Expression(nextToken(p), LOWEST)
      message == IF Peek(cond) = "," THEN Expression(Second(cond), LOWEST) ELSE Give(cond, Nil)
  IN  Give(message, <<"assert", cond.node, message.node>>)

(* Names in a row, each with an alias or not, from the first one on.       *)
Imports(p, list) ==
  LET as    == Peek(p) = "as"
      alias == IF as THEN Second(p) ELSE p
      all   == Append(list, <<Cur(p), IF as THEN Cur(alias) ELSE "">>)
  IN  CASE Cur(p) \notin Names \cup {"*"} \/ (as /\ Cur(alias) \notin Names) -> Fail(p)
        [] Cur(p) \in Names \cup {"*"} /\ (as => Cur(alias) \in Names) /\ Peek(alias) = "," ->
             Imports(Second(alias), all)
        [] OTHER -> Give(alias, all)

Import(p) ==
  LET names == Imports(nextToken(p), <<>>)
  IN  IF \E i \in DOMAIN names.node : names.node[i][1] = "*" THEN Fail(names)
      ELSE Give(names, <<"import", names.node>>)

FromImport(p) ==
  LET import == Expect(nextToken(p), "import")
      names  == Imports(nextToken(import), <<>>)
  IN  IF Peek(p) \notin Names \/ ~import.ok THEN Fail(p)
      ELSE Give(names, <<"from", Peek(p), names.node>>)

Globals(p, list) ==
  LET all == Append(list, Peek(p))
      q   == nextToken(p)
  IN  CASE Peek(p) \notin Names -> Fail(p)
        [] Peek(p) \in Names /\ Peek(q) = "," -> Globals(nextToken(q), all)
        [] OTHER -> Give(q, <<"global", all>>)

(* Expressions in a row, behind the first one.                             *)
Listed(p, list) ==
  LET e == Expression(Second(p), LOWEST)
  IN  IF ~p.ok \/ Peek(p) # "," THEN Give(p, list) ELSE Listed(e, Append(list, e.node))

Delete(p) ==
  LET e   == Expression(nextToken(p), LOWEST)
      all == Listed(e, <<e.node>>)
  IN  Give(all, <<"del", all.node>>)

GoSpawn(p) ==
  LET e == Expression(nextToken(p), LOWEST)
  IN  IF e.ok /\ e.node[1] = "call" THEN Give(e, <<"go", e.node>>) ELSE Fail(e)

AssignOperators ==
  {"=", "+=", "-=", "*=", "/=", "//=", "%=", "**=", "&=", "|=", "^=", "<<=", ">>="}

(* The values of an assignment behind the first one; a comma may end them. *)
Values(p, list) ==
  LET q == nextToken(p)
      e == Expression(nextToken(q), LOWEST)
  IN  CASE ~p.ok \/ Peek(p) # "," -> Give(p, list)
        [] p.ok /\ Peek(p) = "," /\ Peek(q) \in Ended \cup {"EOF"} -> Give(q, list)
        [] OTHER -> Values(e, Append(list, e.node))

ExpressionOrAssign(p) ==
  LET e       == Expression(p, LOWEST)
      targets == Listed(e, <<e.node>>)
      v       == Expression(Second(targets), LOWEST)
      values  == Values(v, <<v.node>>)
      value   == IF Peek(v) = "," THEN <<"tuple", values.node>> ELSE v.node
  IN  CASE ~e.ok -> e
        [] e.ok /\ Peek(targets) \in AssignOperators ->
             Give(values, <<"assign", Peek(targets), targets.node, value>>)
        [] OTHER ->
             Give(targets, <<"expr", IF Peek(e) = "," THEN <<"tuple", targets.node>> ELSE e.node>>)

Simple == {"break", "continue", "pass"}

(* Which statement it is, its first token says.                            *)
Dispatch(p) ==
  CASE Cur(p) = "def" -> FunctionDef(p, "def")
    [] Cur(p) = "class" -> ClassDef(p)
    [] Cur(p) = "match" -> Match(p)
    [] Cur(p) = "async" -> Async(p)
    [] Cur(p) = "if" -> If(p)
    [] Cur(p) = "while" -> While(p)
    [] Cur(p) = "for" -> For(p)
    [] Cur(p) = "return" -> Return(p)
    [] Cur(p) \in Simple -> Give(nextToken(p), <<Cur(p)>>)
    [] Cur(p) = "import" -> Import(p)
    [] Cur(p) = "from" -> FromImport(p)
    [] Cur(p) = "try" -> Try(p)
    [] Cur(p) = "raise" -> Raise(p)
    [] Cur(p) = "assert" -> Assert(p)
    [] Cur(p) = "global" -> Globals(p, <<>>)
    [] Cur(p) = "del" -> Delete(p)
    [] Cur(p) = "@" -> Decorated(p)
    [] Cur(p) \in {"go", "spawn"} -> GoSpawn(p)
    [] OTHER -> ExpressionOrAssign(p)

(* parseStatement.  An end of line that is next is taken.  Behind a block  *)
(* the parser is at the next statement already, which is passed over if it *)
(* is a single token.                                                      *)
Statement(p) ==
  LET s == Dispatch(p)
  IN  IF Peek(s) \in Ended THEN nextToken(s) ELSE s

(* New and ParseProgram: the tree, and whether it may be used.             *)
ParseProgram(tokens) ==
  LET p == Statements([tokens |-> tokens, at |-> 1, ok |-> TRUE, node |-> Nil], {"EOF"}, <<>>)
  IN  [ok |-> p.ok, program |-> p.node]
===============================================================================
