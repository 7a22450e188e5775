------------------------------ MODULE MCFrontend ------------------------------
(***************************************************************************)
(* Lexer and Parser for TLC.  A file is either written from a syntax tree, *)
(* in several styles, and then what the parser makes of its tokens has to  *)
(* be that tree; or it is a few fragments in any order, of which only the  *)
(* lexer has to make something.                                            *)
(***************************************************************************)
EXTENDS Lexer

LOCAL INSTANCE SequencesExt

Names == {"a", "b", "E"}
Capital == {"E"}

P == INSTANCE Parser

Nil == P!Nil

(* The parser is reached through a constant and a LET: TLC's coverage      *)
(* statistics expand every operator where it is used, and do not end with  *)
(* operators that call each other like the parser's.  The same goes for    *)
(* the sets of files below.                                                *)
CONSTANT Parse(_)

MCParse(toks) == LET result == P!ParseProgram(toks) IN result

MCNumbers == {"0"}

MCWords ==
  Names \cup {"x", "not", "in", "is", "or", "and", "if", "elif", "else", "while", "for", "lambda",
              "yield", "from", "await", "def", "class", "return", "raise", "try", "except",
              "finally", "as", "match", "case", "import", "global", "del", "go", "assert",
              "break", "continue", "pass", "async", "True", "None"}

MCOperators ==
  {":=", "==", "<", "|", "^", "&", "<<", "+", "-", "*", "//", "**", "~", ",", ":", ";", ".",
   "=", "+=", "@"}

-------------------------------------------------------------------------------
(* Expressions, written with no more brackets than the binding powers of   *)
(* parser.go:18-36 ask for, with two exceptions: see the README on "not"   *)
(* and on an "if" in an alternative.                                       *)
Name(n) == <<"name", n>>
Zero == <<"literal", "0">>

Power(e) ==
  CASE e[1] \in {"yield", "walrus"} -> 2
    [] e[1] \in {"ternary", "lambda"} -> 3
    [] e[1] = "unary" /\ e[2] = "not" -> 6
    [] e[1] = "binary" -> P!precedence(e[2])
    [] e[1] \in {"unary", "await", "star"} -> 14
    [] OTHER -> 16

RECURSIVE Write(_, _), WriteAll(_), WriteBare(_)

Write(e, power) == IF Power(e) < power THEN <<"(">> \o WriteBare(e) \o <<")">> ELSE WriteBare(e)

Whole(e) == Write(e, 2)

Commas(seqs) ==
  FlattenSeq([i \in DOMAIN seqs |-> IF i = 1 THEN seqs[i] ELSE <<",">> \o seqs[i]])

WriteAll(es) == Commas([i \in DOMAIN es |-> Whole(es[i])])

Named(ks) == [i \in DOMAIN ks |-> <<ks[i][1], "=">> \o Whole(ks[i][2])]

Entries(ds) == [i \in DOMAIN ds |-> Whole(ds[i][1]) \o <<":">> \o Whole(ds[i][2])]

WriteComp(e) ==
  Whole(e[3][1]) \o (IF Len(e[3]) = 2 THEN <<":">> \o Whole(e[3][2]) ELSE <<>>)
    \o <<"for">> \o Write(e[4], 8) \o <<"in">> \o Write(e[5], 4)
    \o (IF e[6] = Nil THEN <<>> ELSE <<"if">> \o Whole(e[6]))

Part(e) == IF e = Nil THEN <<>> ELSE Whole(e)

WriteBare(e) ==
  CASE e[1] \in {"name", "literal"} -> <<e[2]>>
    [] e[1] = "unary" -> <<e[2]>> \o Write(e[3], 14)
    [] e[1] = "binary" /\ e[2] # "**" ->
         Write(e[3], Power(e)) \o <<e[2]>> \o Write(e[4], Power(e) + 1)
    [] e[1] = "binary" /\ e[2] = "**" -> Write(e[3], 16) \o <<"**">> \o Write(e[4], 14)
    [] e[1] = "walrus" -> Write(e[2], 16) \o <<":=">> \o Write(e[3], 3)
    [] e[1] = "ternary" ->
         Write(e[3], 4) \o <<"if">> \o Write(e[2], 4) \o <<"else">> \o Write(e[4], 4)
    [] e[1] = "star" -> <<"*">> \o Write(e[2], 14)
    [] e[1] = "await" -> <<"await">> \o Write(e[2], 14)
    [] e[1] = "yield" ->
         <<"yield">> \o (IF e[2] THEN <<"from">> ELSE <<>>) \o Part(e[3])
    [] e[1] = "lambda" ->
         <<"lambda">> \o Commas([i \in DOMAIN e[2] |-> <<e[2][i]>>]) \o <<":">> \o Write(e[3], 3)
    [] e[1] = "tuple" ->
         <<"(">> \o WriteAll(e[2]) \o (IF Len(e[2]) = 1 THEN <<",">> ELSE <<>>) \o <<")">>
    [] e[1] = "list" -> <<"[">> \o WriteAll(e[2]) \o <<"]">>
    [] e[1] = "set" -> <<"{">> \o WriteAll(e[2]) \o <<"}">>
    [] e[1] = "dict" -> <<"{">> \o Commas(Entries(e[2])) \o <<"}">>
    [] e[1] = "comp" /\ e[2] = "list" -> <<"[">> \o WriteComp(e) \o <<"]">>
    [] e[1] = "comp" /\ e[2] # "list" -> <<"{">> \o WriteComp(e) \o <<"}">>
    [] e[1] = "call" ->
         Write(e[2], 16) \o <<"(">>
           \o Commas([i \in DOMAIN e[3] |-> Whole(e[3][i])] \o Named(e[4])) \o <<")">>
    [] e[1] = "index" -> Write(e[2], 16) \o <<"[">> \o Whole(e[3]) \o <<"]">>
    [] e[1] = "slice" ->
         Write(e[2], 16) \o <<"[">> \o Part(e[3]) \o <<":">> \o Part(e[4])
           \o (IF e[5] = Nil THEN <<>> ELSE <<":">> \o Whole(e[5])) \o <<"]">>
    [] e[1] = "attr" -> Write(e[2], 16) \o <<".", e[3]>>

-------------------------------------------------------------------------------
(* Statements, as lines: how many blocks a line is in, its tokens, and     *)
(* whether it is a statement without blocks.  A line may end with a block  *)
(* of one such statement.                                                  *)
Line(depth, pieces, simple) == [depth |-> depth, pieces |-> pieces, simple |-> simple]

Aliased(names) ==
  Commas([i \in DOMAIN names |->
            <<names[i][1]>> \o (IF names[i][2] = "" THEN <<>> ELSE <<"as", names[i][2]>>)])

WriteSimple(s) ==
  CASE s[1] = "expr" -> Whole(s[2])
    [] s[1] = "assign" -> WriteAll(s[3]) \o <<s[2]>> \o
         (IF s[4][1] = "tuple" /\ Len(s[4][2]) > 1 THEN WriteAll(s[4][2]) ELSE Whole(s[4]))
    [] s[1] \in {"return", "break", "continue", "pass"} ->
         <<s[1]>> \o (IF Len(s) = 1 THEN <<>> ELSE Whole(s[2]))
    [] s[1] = "raise" ->
         <<"raise">> \o (IF Len(s) = 1 THEN <<>> ELSE Whole(s[2]))
           \o (IF Len(s) < 3 THEN <<>> ELSE <<"from">> \o Whole(s[3]))
    [] s[1] = "assert" ->
         <<"assert">> \o Whole(s[2]) \o (IF s[3] = Nil THEN <<>> ELSE <<",">> \o Whole(s[3]))
    [] s[1] = "import" -> <<"import">> \o Aliased(s[2])
    [] s[1] = "from" -> <<"from", s[2], "import">> \o Aliased(s[3])
    [] s[1] = "global" -> <<"global">> \o Commas([i \in DOMAIN s[2] |-> <<s[2][i]>>])
    [] s[1] = "del" -> <<"del">> \o WriteAll(s[2])
    [] s[1] = "go" -> <<"go">> \o Whole(s[2])

IsSimple(s) ==
  s[1] \in {"expr", "assign", "return", "break", "continue", "pass", "raise", "assert",
            "import", "from", "global", "del", "go"}

RECURSIVE Lines(_, _, _)

Suite(stmts, depth, short) ==
  FlattenSeq([i \in DOMAIN stmts |-> Lines(stmts[i], depth, short)])

(* What has a block; an absent else or finally is written as nothing.      *)
Headed(head, block, depth, short) ==
  IF short /\ Len(block) = 1 /\ IsSimple(block[1])
  THEN <<Line(depth, head \o <<":">> \o WriteSimple(block[1]), FALSE)>>
  ELSE <<Line(depth, head \o <<":">>, FALSE)>> \o Suite(block, depth + 1, short)

Tail1(head, block, depth, short) ==
  IF block = <<>> THEN <<>> ELSE Headed(<<head>>, block, depth, short)

Parameters(params) ==
  Commas([i \in DOMAIN params |->
            (IF params[i][1] = "" THEN <<>> ELSE <<params[i][1]>>) \o <<params[i][2]>>
              \o (IF params[i][3] = Nil THEN <<>> ELSE <<"=">> \o Whole(params[i][3]))])

HandlerHead(h) ==
  <<"except">>
    \o (CASE h[1] = Nil -> h[2] \* a bare one, or only a name
          [] h[1] # Nil /\ h[2] = Nil -> Whole(h[1])
          [] OTHER -> Whole(h[1]) \o <<"as">> \o h[2])

Lines(s, d, short) ==
  CASE IsSimple(s) -> <<Line(d, WriteSimple(s), TRUE)>>
    [] s[1] = "if" ->
         Headed(<<"if">> \o Whole(s[2]), s[3], d, short)
           \o FlattenSeq([i \in DOMAIN s[4] |->
                            Headed(<<"elif">> \o Whole(s[4][i][1]), s[4][i][2], d, short)])
           \o Tail1("else", s[5], d, short)
    [] s[1] = "while" ->
         Headed(<<"while">> \o Whole(s[2]), s[3], d, short) \o Tail1("else", s[4], d, short)
    [] s[1] = "for" ->
         Headed(<<"for">> \o Write(s[2], 8) \o <<"in">> \o Whole(s[3]), s[4], d, short)
           \o Tail1("else", s[5], d, short)
    [] s[1] = "try" ->
         Headed(<<"try">>, s[2], d, short)
           \o FlattenSeq([i \in DOMAIN s[3] |-> Headed(HandlerHead(s[3][i]), s[3][i][3], d, short)])
           \o Tail1("else", s[4], d, short) \o Tail1("finally", s[5], d, short)
    [] s[1] = "match" ->
         <<Line(d, <<"match">> \o Whole(s[2]) \o <<":">>, FALSE)>>
           \o FlattenSeq([i \in DOMAIN s[3] |->
                            Headed(<<"case">> \o Whole(s[3][i][1]), s[3][i][3], d + 1, short)])
    [] s[1] = "def" -> Headed(<<"def", s[2], "(">> \o Parameters(s[3]) \o <<")">>, s[4], d, short)
    [] s[1] = "async def" ->
         Headed(<<"async", "def", s[2], "(">> \o Parameters(s[3]) \o <<")">>, s[4], d, short)
    [] s[1] = "class" ->
         Headed(<<"class", s[2]>> \o (IF s[3] = <<>> THEN <<>> ELSE <<"(">> \o WriteAll(s[3]) \o <<")">>),
                s[4], d, short)
    [] s[1] = "decorated" ->
         [i \in DOMAIN s[2] |-> Line(d, <<"@">> \o Whole(s[2][i]), FALSE)]
           \o Lines(s[3], d, short)

-------------------------------------------------------------------------------
(* Styles.  The tokens of a line are apart by a space; or, outside         *)
(* brackets, by the end of a line that goes on, and inside them by one     *)
(* that does not count, and a comment.  Before a line there may be lines   *)
(* that say nothing, wherever they begin.                                  *)
Style(indent, end, gap, filler, short, semicolons) ==
  [indent |-> indent, end |-> end, gap |-> gap, filler |-> filler, short |-> short,
   semicolons |-> semicolons]

Plain     == Style(<<" ">>, <<"nl">>, "plain", FALSE, FALSE, FALSE)
Short     == Style(<<"tab">>, <<"cr", "nl">>, "plain", FALSE, TRUE, FALSE)
Airy      == Style(<<" ", " ">>, <<"cr">>, "plain", TRUE, FALSE, TRUE)
Continued == Style(<<" ", "tab">>, <<"nl">>, "continued", TRUE, FALSE, FALSE)
Wrapped   == Style(<<" ">>, <<"cr", "nl">>, "wrapped", FALSE, FALSE, TRUE)

Spell(piece, inside, style) ==
  LET gap == IF inside /\ style.gap = "wrapped" THEN style.end ELSE <<" ">>
  IN  CASE piece = "not in" -> <<"not">> \o gap \o <<"in">>
        [] piece = "is not" -> <<"is">> \o gap \o <<"not">>
        [] piece = "STRING" ->
             IF style.gap = "plain" THEN <<"'", "a", "\\", "'", "'">>
             ELSE <<"'", "'", "'", "a", "nl", "'", "'", "'">>
        [] OTHER -> <<piece>>

Gap(inside, style) ==
  CASE style.gap = "continued" /\ ~inside -> <<" ", "\\">> \o style.end \o <<" ">>
    [] style.gap = "wrapped" /\ inside -> <<" ", "#", "(", "?">> \o style.end
    [] OTHER -> <<" ">>

Joined(pieces, style) ==
  LET Open(i) == Cardinality({k \in 1 .. i : pieces[k] \in Opening})
                   > Cardinality({k \in 1 .. i : pieces[k] \in Closing})
  IN  FlattenSeq([i \in DOMAIN pieces |->
                    Spell(pieces[i], Open(i), style)
                      \o (IF i = Len(pieces) THEN <<>> ELSE Gap(Open(i), style))])

Filler(style) ==
  IF style.filler THEN <<" ">> \o style.end \o <<" ", "tab", "#", "'">> \o style.end ELSE <<>>

(* With semicolons, simple statements in a row are on one line.  The last  *)
(* line has no end.                                                        *)
Text(program, style) ==
  LET lines == Suite(program, 0, style.short)
      same(i) == /\ i > 1 /\ style.semicolons
                 /\ lines[i - 1].simple /\ lines[i].simple
                 /\ lines[i - 1].depth = lines[i].depth
      before(i) == IF same(i) THEN <<" ", ";", " ">>
                   ELSE (IF i = 1 THEN <<>> ELSE style.end) \o Filler(style)
                          \o FlattenSeq([k \in 1 .. lines[i].depth |-> style.indent])
  IN  FlattenSeq([i \in DOMAIN lines |-> before(i) \o Joined(lines[i].pieces, style)])

Written(programs, style) ==
  {[text |-> Text(p, style), source |-> p] : p \in programs}

-------------------------------------------------------------------------------
(* Expressions of one operation, and of two: each operation with each      *)
(* other one in its first place, and in its last.                          *)
Atoms == {Name("a"), Zero, <<"literal", "STRING">>}

Symbols == {"or", "and", "==", "<", "in", "not in", "is not", "|", "^", "&", "<<", "+", "-",
            "*", "//", "**"}

(* x has a place on the left of the operation, y on the right.             *)
Operations(x, y) ==
  {<<"binary", op, x, y>> : op \in Symbols}
    \cup {<<"unary", op, y>> : op \in {"-", "~", "not"}}
    \cup {<<"ternary", Zero, x, y>>, <<"ternary", x, y, Zero>>,
          <<"walrus", Name("a"), y>>,
          <<"lambda", <<>>, y>>, <<"lambda", <<"a", "b">>, y>>,
          <<"await", y>>, <<"yield", FALSE, y>>, <<"yield", TRUE, y>>,
          <<"call", x, <<>>, <<>>>>, <<"call", Name("a"), <<x, y>>, <<>>>>,
          <<"call", Name("a"), <<x>>, <<<<"b", y>>>>>>,
          <<"index", x, y>>, <<"slice", x, y, Nil, Nil>>, <<"slice", Zero, Nil, x, y>>,
          <<"slice", Zero, x, y, Nil>>, <<"slice", Zero, x, Nil, y>>, <<"slice", x, Nil, Nil, y>>,
          <<"attr", x, "b">>,
          <<"tuple", <<x>>>>, <<"tuple", <<x, y>>>>,
          <<"list", <<y>>>>, <<"list", <<x, <<"star", y>>>>>>,
          <<"set", <<x, y>>>>, <<"dict", <<<<x, y>>>>>>, <<"dict", <<<<x, Zero>>, <<Zero, y>>>>>>,
          <<"comp", "list", <<x>>, Name("a"), y, Nil>>,
          <<"comp", "set", <<x>>, Name("a"), Zero, y>>,
          <<"comp", "dict", <<x, y>>, <<"tuple", <<Name("a"), Name("b")>>>>, Zero, Nil>>}

One == UNION {Operations(x, y) : x, y \in {Name("a"), Zero}}
         \cup {<<"list", <<>>>>, <<"tuple", <<>>>>, <<"dict", <<>>>>}

Simplest == UNION {Operations(x, y) : x \in {Name("a")}, y \in {<<"literal", "STRING">>}}

Two == UNION {Operations(e, Name("b")) \cup Operations(Name("b"), e) : e \in Simplest}

Stated(es) == {<<<<"expr", e>>>> : e \in es}

-------------------------------------------------------------------------------
(* Statements.  One of a single token never comes behind a block: see the  *)
(* README.                                                                 *)
Called == <<"call", Name("a"), <<>>, <<>>>>
Set(e) == <<"assign", "=", <<Name("a")>>, e>>
E == Name("E")

Simples ==
  {<<"expr", Name("b")>>, <<"expr", Called>>, Set(Zero), <<"assign", "+=", <<Name("a")>>, Zero>>,
   <<"assign", "=", <<Name("a"), Name("b")>>, <<"tuple", <<Zero, Called>>>>>>,
   <<"return">>, <<"return", Zero>>, <<"raise">>, <<"raise", E>>, <<"raise", E, Name("b")>>,
   <<"assert", Zero, Nil>>, <<"assert", Zero, Name("b")>>,
   <<"import", <<<<"a", "">>, <<"b", "E">>>>>>, <<"from", "a", <<<<"b", "E">>, <<"E", "">>>>>>,
   <<"from", "a", <<<<"*", "">>>>>>, <<"global", <<"a", "b">>>>, <<"del", <<Name("a"), Zero>>>>,
   <<"go", Called>>, <<"pass">>, <<"break">>, <<"continue">>}

Decorations(f) == {<<"decorated", <<Name("b"), Called>>, f>>}

(* Statements with the blocks x and y.                                     *)
Compounds(x, y) ==
  LET f == <<"def", "a", <<<<"", "a", Nil>>, <<"", "b", Zero>>, <<"*", "E", Nil>>, <<"**", "b", Nil>>>>, x>>
      g == <<"class", "E", <<Name("b")>>, y>>
  IN  {<<"if", Zero, x, <<>>, <<>>>>, <<"if", Zero, x, <<>>, y>>,
       <<"if", Zero, x, <<<<Name("a"), y>>>>, <<>>>>,
       <<"if", Zero, x, <<<<Name("a"), x>>, <<Zero, y>>>>, y>>,
       <<"while", Name("a"), x, <<>>>>, <<"while", Name("a"), x, y>>,
       <<"for", Name("a"), Called, x, <<>>>>,
       <<"for", <<"tuple", <<Name("a"), Name("b")>>>>, Called, x, y>>,
       <<"try", x, <<<<Nil, Nil, y>>>>, <<>>, <<>>>>,
       <<"try", x, <<<<E, Nil, x>>, <<E, <<"b">>, x>>, <<Nil, <<"b">>, y>>>>, y, x>>,
       <<"try", x, <<>>, <<>>, y>>,
       <<"match", Name("a"), <<<<Zero, Nil, x>>>>>>,
       <<"match", Called, <<<<Zero, Nil, x>>, <<Name("b"), Nil, y>>>>>>,
       f, <<"def", "b", <<>>, y>>, <<"async def", "b", <<>>, x>>,
       g, <<"class", "E", <<>>, x>>}
        \cup Decorations(f) \cup Decorations(g)

Pass == <<<<"pass">>>>
Several == <<Set(Zero), <<"return">>, <<"raise", E>>>>

Blocks == {<<s>> : s \in Simples} \cup {Several}

(* Every statement in a block of each kind; every kind of block within     *)
(* every other one, last in it and not.                                    *)
Flat == {<<s, <<"pass">>, Set(Zero)>> : s \in Simples}
          \cup UNION {{<<c, Set(Called)>> : c \in Compounds(x, Several)} : x \in Blocks}

Nested ==
  LET inner == Compounds(Pass, Several)
      blocks == {<<c>> : c \in inner} \cup {<<<<"pass">>, c, Set(Zero)>> : c \in inner}
  IN  {<<c, Set(Called)>> : c \in UNION {Compounds(x, Pass) \cup Compounds(Pass, x) : x \in blocks}}

-------------------------------------------------------------------------------
(* What nobody wrote as a program: a few fragments, in any order.          *)
Fragments ==
  {<<"a", "nl">>, <<" ", "a", "nl">>, <<" ", " ", "a", "cr", "nl">>, <<"tab", "a", "nl">>,
   <<" ", "#", "(", "nl">>, <<" ", "\\", "nl">>, <<"(", "nl">>, <<" ", ")", "cr">>, <<"'", "nl">>,
   <<"'", "'", "'", "nl">>, <<"not", "nl">>, <<" ", "in", "nl">>, <<"?">>, <<"'", "\\", "nl">>,
   <<"'", "\\">>, <<"'", "\\", "x">>, <<"+", "'">>, <<" ", " ", "a">>}

Wild ==
  {[text |-> t, source |-> Nil] :
     t \in {u \in {FlattenSeq(f) : f \in UNION {[1 .. n -> Fragments] : n \in 0 .. 3}} :
             \A i \in 1 .. Len(u) - 1 :
               u[i] \in Words \cup Numbers => u[i + 1] \notin Words \cup Numbers}}

MCFiles ==
  LET expressions == Written(Stated(One \cup Two), Plain)
                       \cup Written(Stated(One), Continued) \cup Written(Stated(One), Wrapped)
      statements  == UNION {Written(Flat, style) : style \in {Plain, Short, Airy, Continued, Wrapped}}
                       \cup Written(Nested, Plain)
  IN  Wild \cup expressions \cup statements

(* What a reader takes the text for is what the compiler is given: every   *)
(* operator has its operands, every block its statements, in every style.  *)
ParsesAsWritten ==
  ~Reading /\ file.source # Nil =>
    LET result == Parse(tokens) IN result.ok /\ result.program = file.source

-------------------------------------------------------------------------------
(* Programs of a statement with blocks and any other one.                  *)
AfterBlocks ==
  LET programs == {<<c, s>> : c \in Compounds(Pass, Pass), s \in Simples}
  IN  Written(programs, Plain)

(* What the repository's test of the parser expects, of any program: as    *)
(* many statements as are written.                                         *)
StatementsCounted ==
  ~Reading /\ file.source # Nil =>
    LET result == Parse(tokens)
    IN  result.ok /\ Len(result.program) = Len(file.source)
===============================================================================
