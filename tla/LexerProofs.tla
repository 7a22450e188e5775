----------------------------- MODULE LexerProofs -----------------------------
(***************************************************************************)
(* What the lexer guarantees for every text: tokens are what is written at *)
(* their places, though reading may leave the text, the tokens for the     *)
(* layout are balanced and in their places, and tokens name the lines they *)
(* begin in.                                                               *)
(***************************************************************************)
EXTENDS Lexer, FiniteSetTheorems, SequenceTheorems, WellFoundedInduction, TLAPS

-------------------------------------------------------------------------------
(* The invariants.  Indentation: the widths of the lines around this one,  *)
(* in ascending order, beginning with none.                                *)
Nested ==
  /\ indentStack[1] = 0
  /\ \A i, j \in DOMAIN indentStack : i < j => indentStack[i] < indentStack[j]

(* A string is read from its quotes on.                                    *)
Quoted ==
  InString => /\ string.at \in DOMAIN text /\ string.at < position
              /\ text[string.at] = "'"

(* A line begins in the text, or at its end, and in no string.             *)
Started == atLineStart => position <= Behind /\ ~InString

TypeInv == file \in Files /\ TypeOK /\ Nested /\ Quoted /\ Started

Last(s) == s[Len(s)]

(* What is due: at most one NEWLINE, before the rest, and one error, behind *)
(* it; nothing that ends the text.                                         *)
DueSyms == {"NEWLINE", "INDENT", "DEDENT", "ILLEGAL"}

Due ==
  \A i \in DOMAIN pendingTokens :
    /\ pendingTokens[i].sym \in DueSyms
    /\ pendingTokens[i].sym = "NEWLINE" => i = 1
    /\ pendingTokens[i].sym = "ILLEGAL" => i = Len(pendingTokens)

(* When the text has ended, nothing is left to read.                       *)
Ended ==
  /\ eofEmitted => /\ position >= Behind
                   /\ ~atLineStart /\ ~InString
                   /\ indentStack = <<0>>
  /\ ~Reading => eofEmitted /\ pendingTokens = <<>>

(* Whether the line has a token is what the last token says, but for the   *)
(* NEWLINE that is due.                                                    *)
InLine == tokens # <<>> /\ Last(tokens).sym \notin LayoutSyms

NewlineDue == pendingTokens # <<>> /\ pendingTokens[1].sym = "NEWLINE"

Placed ==
  /\ atLineStart => ~seenTokenOnLine /\ pendingTokens = <<>>
  /\ InString => ~atLineStart /\ pendingTokens = <<>>
  /\ seenTokenOnLine => pendingTokens = <<>> /\ InLine
  /\ NewlineDue => InLine
  /\ ~seenTokenOnLine /\ Reading /\ ~NewlineDue => ~InLine

(* What has been indented and not undone is what the stack has.            *)
Balanced ==
  Count(tokens, "INDENT") + Count(pendingTokens, "INDENT") =
    Count(tokens, "DEDENT") + Count(pendingTokens, "DEDENT") + Len(indentStack) - 1

LayoutInv == TypeInv /\ Due /\ Ended /\ Placed /\ Balanced /\ LayoutInPlace

(* In a text whose ends of lines are all counted, everything that has a    *)
(* line has that of its position.                                          *)
LineOf(i) == 1 + Breaks(1, i)

InItsLine(s) == \A i \in DOMAIN s : s[i].line = LineOf(s[i].at)

Counted ==
  /\ line = LineOf(position)
  /\ InItsLine(tokens) /\ InItsLine(pendingTokens)
  /\ InString => string.line = LineOf(string.at)

LineInv == TypeInv /\ (Uncounted \/ Counted)

-------------------------------------------------------------------------------
(* Positions and what is at them.                                          *)
LEMMA Least ==
  ASSUME NEW S \in SUBSET Nat, S # {}
  PROVE  \E m \in S : \A n \in S : m <= n
  <1>1. PICK m \in S : \A n \in S : <<n, m>> \notin OpToRel(<, Nat)
    BY NatLessThanWellFounded, WFMin, Zenon
  <1>2. \A n \in S : ~(n < m)
    BY <1>1 DEF OpToRel
  <1> QED BY <1>2

(* The elements that make a token of their own.                            *)
Plain == Words \cup Numbers \cup Operators \cup Opening \cup Closing

LEMMA Elementary ==
  /\ End \notin Elements /\ Plain = Elements \ Others
  /\ \A x \in Plain : x \notin Marks /\ x \notin Others /\ x # End
  /\ DueSyms \cup {"STRING", "EOF"} \subseteq Marks
  /\ {"nl", "cr", "'", "\\", "#", "?", "tab"} \subseteq Others
  /\ End \notin Marks /\ End \notin Others
  <1>1. /\ End \notin Opening /\ End \notin Closing /\ End \notin Others /\ End \notin Marks
        /\ \A x \in Opening \cup Closing : x \notin Others /\ x \notin Marks
    BY Zenon DEF Opening, Closing, Others, Marks, End
  <1>2. \A x \in Words \cup Numbers \cup Operators :
          x \notin Opening \cup Closing \cup Others \cup Marks \cup {End}
    BY LexerAssumption, Zenon
  <1>3. DueSyms \cup {"STRING", "EOF"} \subseteq Marks
    BY Zenon DEF DueSyms, Marks
  <1>4. {"nl", "cr", "'", "\\", "#", "?", "tab"} \subseteq Others
    BY Zenon DEF Others
  <1>5. End \notin Elements /\ Plain = Elements \ Others
    BY <1>1, <1>2 DEF Elements, Plain
  <1>6. \A x \in Plain : x \notin Marks /\ x \notin Others /\ x # End
    BY <1>1, <1>2 DEF Plain
  <1> QED BY <1>1, <1>3, <1>4, <1>5, <1>6

LEMMA Texts ==
  ASSUME file \in Files
  PROVE  /\ text \in Seq(Elements) /\ Len(text) \in Nat /\ DOMAIN text = 1 .. Len(text)
         /\ Behind \in Nat \ {0} /\ Behind = Len(text) + 1
         /\ Reach = Behind + 2 /\ 1 .. Behind \subseteq 1 .. Reach
         /\ \A i \in DOMAIN text : At(i) = text[i] /\ At(i) \in Elements /\ At(i) # End
         /\ \A i : i \notin DOMAIN text => At(i) = End
  <1>1. text \in Seq(Elements)
    BY LexerAssumption DEF text
  <1>2. Len(text) \in Nat /\ DOMAIN text = 1 .. Len(text)
    BY <1>1, LenProperties
  <1>3. \A i \in DOMAIN text : text[i] \in Elements
    BY <1>1, <1>2, ElementOfSeq
  <1>4. /\ Behind \in Nat \ {0} /\ Behind = Len(text) + 1
        /\ Reach = Behind + 2 /\ 1 .. Behind \subseteq 1 .. Reach
    BY <1>2 DEF Behind, Reach
  <1> QED BY <1>1, <1>2, <1>3, <1>4, Elementary DEF At

(* What is at a position that is not behind the text.                      *)
LEMMA Inside ==
  ASSUME file \in Files, NEW i, At(i) # End
  PROVE  i \in DOMAIN text /\ i \in 1 .. Behind /\ i < Behind /\ i + 1 \in 1 .. Behind
  BY Texts DEF Behind

LEMMA EndOfFacts ==
  ASSUME file \in Files, NEW i \in 1 .. Behind, NEW S, End \notin S
  PROVE  /\ EndOf(i, S) \in i .. Behind
         /\ EndOf(i, S) \in 1 .. Behind
         /\ At(EndOf(i, S)) \notin S
         /\ \A k \in i .. EndOf(i, S) - 1 : At(k) \in S
  <1> DEFINE Stops == {j \in i .. Behind : At(j) \notin S}
  <1>1. Behind \in Nat /\ Behind \in Stops
    <2>1. At(Behind) = End
      BY Texts DEF Behind
    <2> QED BY <2>1, Texts
  <1>2. PICK m \in Stops : \A n \in Stops : m <= n
    <2>1. Stops \in SUBSET Nat /\ Stops # {}
      BY <1>1
    <2> HIDE DEF Stops
    <2> QED BY <2>1, Least
  <1>3. m \in i .. Behind /\ At(m) \notin S
    BY <1>2
  <1>4. \A k \in i .. m - 1 : At(k) \in S
    <2> SUFFICES ASSUME NEW k \in i .. m - 1, At(k) \notin S PROVE FALSE
      OBVIOUS
    <2>1. k \in Stops
      BY <1>1, <1>3
    <2> QED BY <1>1, <1>2, <1>3, <2>1
  <1>5. /\ EndOf(i, S) \in i .. Behind /\ At(EndOf(i, S)) \notin S
        /\ \A k \in i .. EndOf(i, S) - 1 : At(k) \in S
    BY <1>3, <1>4 DEF EndOf
  <1> QED BY <1>1, <1>5

LEMMA SameFile ==
  ASSUME file' = file
  PROVE  /\ text' = text /\ Behind' = Behind /\ Reach' = Reach /\ TokenSet' = TokenSet
         /\ \A i : At(i)' = At(i) /\ LineOf(i)' = LineOf(i)
         /\ Uncounted' <=> Uncounted
  <1>1. text' = text /\ Behind' = Behind /\ Reach' = Reach /\ TokenSet' = TokenSet
    BY DEF text, Behind, Reach, TokenSet
  <1>2. \A i : At(i)' = At(i)
    BY DEF text, At
  <1>3. \A i : LineOf(i)' = LineOf(i)
    BY DEF LineOf, Breaks, IsBreak, At, text
  <1>4. Uncounted' <=> Uncounted
    BY DEF Uncounted, At, text
  <1> QED BY <1>1, <1>2, <1>3, <1>4

-------------------------------------------------------------------------------
(* The types.                                                              *)
LEMMA TypeInit == Init => TypeInv
  <1> SUFFICES ASSUME Init PROVE TypeInv
    OBVIOUS
  <1>1. file \in Files /\ Behind \in Nat \ {0} /\ 1 .. Behind \subseteq 1 .. Reach
    BY Texts DEF Init
  <1>2. indentStack = <<0>>
    BY DEF Init
  <1>3. indentStack \in Seq(Nat) \ {<<>>} /\ Nested
    BY <1>2 DEF Nested
  <1>4. ~InString
    BY DEF Init, InString
  <1>5. pendingTokens = <<>> /\ tokens = <<>> /\ string = NoString
    BY DEF Init
  <1>6. position = 1 /\ line = 1 /\ bracketDepth = 0
        /\ {atLineStart, seenTokenOnLine, eofEmitted} \subseteq BOOLEAN
    BY DEF Init
  <1>7. position <= Behind /\ position \in 1 .. Reach
    BY <1>1, <1>6
  <1> QED BY <1>1, <1>3, <1>4, <1>5, <1>6, <1>7 DEF TypeInv, TypeOK, Quoted, Started

(* A token is of a mark or of a plain element.                             *)
LEMMA TokenTypes ==
  ASSUME NEW sym, sym \in Plain \/ sym \in Marks, NEW p \in 1 .. Reach, NEW l \in Nat \ {0}
  PROVE  [sym |-> sym, at |-> p, line |-> l] \in TokenSet
  BY Elementary DEF TokenSet

LEMMA BreaksType ==
  ASSUME NEW i \in Int, NEW j \in Int
  PROVE  IsFiniteSet({k \in i .. j - 1 : IsBreak(k)}) /\ Breaks(i, j) \in Nat
  <1>1. IsFiniteSet(i .. j - 1)
    BY FS_Interval
  <1>2. IsFiniteSet({k \in i .. j - 1 : IsBreak(k)})
    <2>1. {k \in i .. j - 1 : IsBreak(k)} \in SUBSET (i .. j - 1)
      OBVIOUS
    <2> QED BY <1>1, <2>1, FS_Subset
  <1> QED BY <1>2, FS_CardinalityType DEF Breaks

LEMMA WidthType ==
  ASSUME NEW i \in Int, NEW j \in Int
  PROVE  Width(i, j) \in Nat
  <1> DEFINE Spaces == {k \in i .. j - 1 : At(k) = " "}
             Tabs == {k \in i .. j - 1 : At(k) = "tab"}
  <1>1. IsFiniteSet(i .. j - 1)
    BY FS_Interval
  <1>2. Spaces \in SUBSET (i .. j - 1) /\ Tabs \in SUBSET (i .. j - 1)
    BY Zenon
  <1>3. Cardinality(Spaces) \in Nat /\ Cardinality(Tabs) \in Nat
    BY <1>1, <1>2, FS_Subset, FS_CardinalityType, Zenon
  <1>4. Width(i, j) = Cardinality(Spaces) + 4 * Cardinality(Tabs)
    BY Zenon DEF Width
  <1> HIDE DEF Spaces, Tabs
  <1> QED BY <1>3, <1>4

LEMMA FirstFacts ==
  ASSUME file \in Files, position \in 1 .. Behind
  PROVE  /\ First \in position .. Behind /\ First \in 1 .. Behind
         /\ \A k \in position .. First - 1 : At(k) \notin {"nl", "cr", "'"}
  <1>1. End \notin {" ", "tab"}
    BY Zenon DEF End
  <1>2. /\ First \in position .. Behind /\ First \in 1 .. Behind
        /\ \A k \in position .. First - 1 : At(k) \in {" ", "tab"}
    BY <1>1, EndOfFacts, Zenon DEF First
  <1>3. \A x \in {" ", "tab"} : x \notin {"nl", "cr", "'"}
    BY Zenon
  <1> QED BY <1>2, <1>3, Zenon

(* The widths that stay are those up to the one that is kept.              *)
LEMMA KeptFacts ==
  ASSUME TypeOK, Nested, NEW w \in Nat
  PROVE  /\ Kept(w) \in 1 .. Len(indentStack)
         /\ Kept(w) \in DOMAIN indentStack
  <1>1. indentStack \in Seq(Nat) /\ Len(indentStack) \in Nat \ {0}
        /\ DOMAIN indentStack = 1 .. Len(indentStack)
    BY LenProperties, EmptySeq DEF TypeOK
  <1> DEFINE Back == {k \in 0 .. Len(indentStack) - 1 : indentStack[Len(indentStack) - k] <= w}
  <1>2. Back \in SUBSET Nat /\ Back # {}
    <2>1. Len(indentStack) - (Len(indentStack) - 1) = 1
      BY <1>1
    <2>2. Len(indentStack) - 1 \in Back
      BY <1>1, <2>1 DEF Nested
    <2>3. Back # {}
      BY <2>2
    <2>4. \A k \in Back : k \in Nat
      BY <1>1
    <2> HIDE DEF Back
    <2> QED BY <2>3, <2>4
  <1>3. PICK m \in Back : \A n \in Back : m <= n
    <2> HIDE DEF Back
    <2> QED BY <1>2, Least
  <1> DEFINE n == Len(indentStack) - m
  <1>4. n \in 1 .. Len(indentStack) /\ indentStack[n] <= w
    BY <1>1, <1>3
  <1>5. ASSUME NEW k \in n + 1 .. Len(indentStack) PROVE indentStack[k] > w
    <2>1. Len(indentStack) - k < m /\ Len(indentStack) - k \in 0 .. Len(indentStack) - 1
          /\ Len(indentStack) - (Len(indentStack) - k) = k
      BY <1>1, <1>3, <1>4
    <2>2. Len(indentStack) - k \notin Back
      <3>1. m \in Nat
        BY <1>2, <1>3
      <3> HIDE DEF Back
      <3> QED BY <1>1, <1>3, <2>1, <3>1
    <2>3. indentStack[k] \in Nat
      BY <1>1, <1>4, ElementOfSeq
    <2> QED BY <2>1, <2>2, <2>3
  <1> HIDE DEF n
  <1> QED BY <1>1, <1>4, <1>5 DEF Kept

LEMMA Types ==
  ASSUME TypeInv
  PROVE  /\ file \in Files /\ Behind \in Nat \ {0}
         /\ Reach = Behind + 2 /\ 1 .. Behind \subseteq 1 .. Reach
         /\ position \in 1 .. Reach /\ position \in Nat \ {0}
         /\ atLineStart => position \in 1 .. Behind
         /\ line \in Nat \ {0} /\ bracketDepth \in Nat
         /\ pendingTokens \in Seq(TokenSet) /\ tokens \in Seq(TokenSet)
         /\ indentStack \in Seq(Nat) /\ Len(indentStack) \in Nat \ {0}
         /\ DOMAIN indentStack = 1 .. Len(indentStack)
         /\ \A i \in DOMAIN indentStack : indentStack[i] \in Nat
         /\ Top(indentStack) \in Nat
  <1>1. file \in Files /\ position \in 1 .. Reach /\ line \in Nat \ {0} /\ bracketDepth \in Nat
        /\ pendingTokens \in Seq(TokenSet) /\ tokens \in Seq(TokenSet)
        /\ indentStack \in Seq(Nat) /\ indentStack # <<>>
    BY DEF TypeInv, TypeOK
  <1>2. Behind \in Nat \ {0} /\ Reach = Behind + 2 /\ 1 .. Behind \subseteq 1 .. Reach
    BY <1>1, Texts
  <1>3. Len(indentStack) \in Nat \ {0} /\ DOMAIN indentStack = 1 .. Len(indentStack)
    BY <1>1, EmptySeq, LenProperties
  <1>4. \A i \in DOMAIN indentStack : indentStack[i] \in Nat
    BY <1>1, <1>3, ElementOfSeq
  <1>5. atLineStart => position \in 1 .. Behind
    BY <1>1, <1>2 DEF TypeInv, Started
  <1> QED BY <1>1, <1>2, <1>3, <1>4, <1>5 DEF Top

(* The next state has its types when each variable that changes does.      *)
TypesKept ==
  /\ file' = file
  /\ position' \in 1 .. Reach
  /\ atLineStart' => position' <= Behind
  /\ line' \in Nat \ {0}
  /\ bracketDepth' \in Nat
  /\ {atLineStart', seenTokenOnLine', eofEmitted'} \subseteq BOOLEAN
  /\ tokens' \in Seq(TokenSet) /\ pendingTokens' \in Seq(TokenSet)
  /\ indentStack' \in Seq(Nat) \ {<<>>} /\ Nested'

LEMMA TypesNext ==
  ASSUME TypeInv, TypesKept, string' = NoString
  PROVE  TypeInv'
  <1>1. text' = text /\ Behind' = Behind /\ Reach' = Reach /\ TokenSet' = TokenSet
    BY SameFile DEF TypesKept
  <1>2. file' \in Files
    BY DEF TypesKept, TypeInv
  <1>3. TypeOK'
    BY <1>1 DEF TypesKept, TypeOK, NoString
  <1>4. Quoted' /\ Started'
    BY <1>1 DEF Quoted, Started, InString, NoString, TypesKept
  <1> QED BY <1>2, <1>3, <1>4 DEF TypeInv, TypesKept

LEMMA StringTypesNext ==
  ASSUME TypeInv, TypesKept,
         string' \in [triple : BOOLEAN, at : 1 .. Behind, line : Nat \ {0}],
         string'.at \in DOMAIN text, string'.at < position', text[string'.at] = "'",
         ~atLineStart'
  PROVE  TypeInv'
  <1>1. text' = text /\ Behind' = Behind /\ Reach' = Reach /\ TokenSet' = TokenSet
    BY SameFile DEF TypesKept
  <1>2. file' \in Files
    BY DEF TypesKept, TypeInv
  <1>3. TypeOK'
    BY <1>1 DEF TypesKept, TypeOK
  <1>4. Quoted' /\ Started'
    BY <1>1 DEF Quoted, Started, InString
  <1> QED BY <1>2, <1>3, <1>4 DEF TypeInv, TypesKept

LEMMA StackKept ==
  ASSUME TypeInv, indentStack' = indentStack
  PROVE  indentStack' \in Seq(Nat) \ {<<>>} /\ Nested'
  BY DEF TypeInv, TypeOK, Nested

(* A token that is returned.                                               *)
LEMMA Appended ==
  ASSUME TypeInv, NEW tok \in TokenSet
  PROVE  Append(tokens, tok) \in Seq(TokenSet)
  BY Types, AppendProperties

LEMMA StringTypes ==
  ASSUME TypeInv, InString
  PROVE  /\ string \in [triple : BOOLEAN, at : 1 .. Behind, line : Nat \ {0}]
         /\ string.at \in DOMAIN text /\ string.at < position /\ text[string.at] = "'"
         /\ string.at \in 1 .. Reach /\ string.line \in Nat \ {0}
         /\ ~atLineStart
  <1>1. string \in [triple : BOOLEAN, at : 1 .. Behind, line : Nat \ {0}]
    BY DEF TypeInv, TypeOK, InString
  <1>2. string.at \in 1 .. Reach
    BY <1>1, Types
  <1> QED BY <1>1, <1>2 DEF TypeInv, Quoted, Started

LEMMA StringStays ==
  ASSUME TypeInv, TypesKept, string' = string, position <= position',
         atLineStart' => atLineStart
  PROVE  TypeInv'
  <1>1. CASE InString
    <2>1. string'.at < position'
      <3>1. string.at \in Nat /\ position \in Nat /\ position' \in Nat
        BY <1>1, StringTypes, Types, SMTT(60) DEF TypesKept
      <3> QED BY <1>1, <3>1, StringTypes
    <2> QED BY <1>1, <2>1, StringTypes, StringTypesNext
  <1>2. CASE ~InString
    BY <1>2, TypesNext DEF InString
  <1> QED BY <1>1, <1>2

LEMMA EmitTypes ==
  ASSUME TypeInv, EmitPending
  PROVE  TypeInv'
  <1>1. Head(pendingTokens) \in TokenSet /\ Tail(pendingTokens) \in Seq(TokenSet)
    BY Types, HeadTailProperties DEF EmitPending
  <1>2. TypesKept
    <2>1. tokens' \in Seq(TokenSet) /\ pendingTokens' \in Seq(TokenSet)
      BY <1>1, Appended DEF EmitPending
    <2>2. indentStack' \in Seq(Nat) \ {<<>>} /\ Nested'
      BY StackKept DEF EmitPending
    <2>3. {atLineStart', seenTokenOnLine', eofEmitted'} \subseteq BOOLEAN
      BY DEF EmitPending, TypeInv, TypeOK
    <2>4. atLineStart' => position' <= Behind
      BY Types DEF EmitPending
    <2> QED BY <2>1, <2>2, <2>3, <2>4, Types DEF EmitPending, TypesKept
  <1>3. string' = string /\ position' = position /\ atLineStart' = atLineStart
    BY DEF EmitPending
  <1> QED BY <1>2, <1>3, Types, StringStays

(* At the start of a line.                                                 *)
LEMMA StartTypes ==
  ASSUME TypeInv, AtStart, eofEmitted' = eofEmitted,
         pendingTokens' \in Seq(TokenSet),
         indentStack' \in Seq(Nat) \ {<<>>}, Nested'
  PROVE  TypeInv'
  <1>1. TypesKept
    <2>1. position' \in 1 .. Reach /\ ~atLineStart'
      BY Types, FirstFacts DEF AtStart
    <2>2. {atLineStart', seenTokenOnLine', eofEmitted'} \subseteq BOOLEAN
      BY DEF AtStart, TypeInv, TypeOK
    <2> QED BY <2>1, <2>2, Types DEF AtStart, TypesKept
  <1>2. string' = string /\ position <= position' /\ ~atLineStart'
    BY Types, FirstFacts DEF AtStart
  <1> QED BY <1>1, <1>2, StringStays

LEMMA AtFirstType ==
  ASSUME TypeInv, atLineStart, NEW sym \in Marks
  PROVE  AtFirst(sym) \in TokenSet
  BY Types, FirstFacts, TokenTypes DEF AtFirst

LEMMA TokenType ==
  ASSUME TypeInv, NEW sym, sym \in Plain \/ sym \in Marks
  PROVE  Token(sym) \in TokenSet
  BY Types, TokenTypes DEF Token

LEMMA LineStartTypes ==
  ASSUME TypeInv, LineStart
  PROVE  TypeInv'
  <1>1. Width(position, First) \in Nat /\ atLineStart
    <2>1. atLineStart
      BY DEF LineStart, EmptyLine, SameIndent, Indent, Dedent, AtStart
    <2> QED BY <2>1, Types, FirstFacts, WidthType
  <1> DEFINE w == Width(position, First)
  <1>2. {"INDENT", "DEDENT", "ILLEGAL"} \subseteq Marks
    BY Elementary DEF DueSyms
  <1>3. AtFirst("INDENT") \in TokenSet /\ AtFirst("DEDENT") \in TokenSet
        /\ AtFirst("ILLEGAL") \in TokenSet
    BY <1>1, <1>2, AtFirstType
  <1>4. CASE EmptyLine \/ SameIndent
    <2>1. AtStart /\ indentStack' = indentStack /\ pendingTokens' = pendingTokens
          /\ eofEmitted' = eofEmitted
      BY <1>4 DEF EmptyLine, SameIndent, AtStart
    <2> QED BY <2>1, Types, StackKept, StartTypes
  <1>5. CASE Indent
    <2>1. /\ AtStart /\ w > Top(indentStack) /\ indentStack' = Append(indentStack, w)
          /\ pendingTokens' = <<AtFirst("INDENT")>> /\ eofEmitted' = eofEmitted
      BY <1>5 DEF Indent, AtStart
    <2>2. pendingTokens' \in Seq(TokenSet)
      BY <1>3, <2>1
    <2> HIDE DEF w
    <2> PICK m \in Nat \ {0} : m = Len(indentStack)
      BY Types
    <2>3. /\ indentStack' \in Seq(Nat) /\ Len(indentStack') = m + 1
          /\ \A i \in 1 .. m : indentStack'[i] = indentStack[i]
          /\ indentStack'[m + 1] = w
      BY <1>1, <2>1, Types, AppendProperties DEF w
    <2>4. DOMAIN indentStack' = 1 .. m + 1 /\ DOMAIN indentStack = 1 .. m
      BY <2>3, LenProperties, Types
    <2>5. indentStack' # <<>>
      BY <2>3, EmptySeq
    <2>6. indentStack'[1] = 0
      BY <2>3 DEF TypeInv, Nested
    <2>7. \A i, j \in DOMAIN indentStack' : i < j => indentStack'[i] < indentStack'[j]
      <3> SUFFICES ASSUME NEW i \in 1 .. m + 1, NEW j \in 1 .. m + 1, i < j
                   PROVE  indentStack'[i] < indentStack'[j]
        BY <2>4
      <3>1. i \in 1 .. m /\ indentStack'[i] = indentStack[i]
        BY <2>3
      <3>2. \A k, l \in 1 .. m : k < l => indentStack[k] < indentStack[l]
        BY <2>4 DEF TypeInv, Nested
      <3>3. CASE j \in 1 .. m
        BY <2>3, <3>1, <3>2, <3>3
      <3>4. CASE j = m + 1
        <4>1. w > indentStack[m] /\ w \in Nat
          BY <1>1, <2>1 DEF Top, w
        <4>2. indentStack[i] \in Nat /\ indentStack[m] \in Nat
          BY <2>4, <3>1, Types
        <4>3. i = m \/ indentStack[i] < indentStack[m]
          BY <3>1, <3>2
        <4> QED BY <2>3, <3>1, <3>4, <4>1, <4>2, <4>3
      <3> QED BY <3>3, <3>4
    <2> QED BY <2>1, <2>2, <2>3, <2>5, <2>6, <2>7, StartTypes DEF Nested
  <1>6. CASE Dedent
    <2> DEFINE n == Kept(w)
    <2>1. /\ AtStart /\ indentStack' = SubSeq(indentStack, 1, n)
          /\ pendingTokens' = [i \in 1 .. Len(indentStack) - n |-> AtFirst("DEDENT")]
               \o (IF indentStack[n] # w THEN <<AtFirst("ILLEGAL")>> ELSE <<>>)
          /\ eofEmitted' = eofEmitted
      BY <1>6, Zenon DEF Dedent, AtStart
    <2>2. n \in 1 .. Len(indentStack)
      BY <1>1, KeptFacts DEF TypeInv
    <2> HIDE DEF w, n
    <2>3. pendingTokens' \in Seq(TokenSet)
      <3>1. [i \in 1 .. Len(indentStack) - n |-> AtFirst("DEDENT")] \in Seq(TokenSet)
        <4>1. Len(indentStack) - n \in Nat
          BY <2>2, Types
        <4> QED BY <1>3, <4>1
      <3>2. (IF indentStack[n] # w THEN <<AtFirst("ILLEGAL")>> ELSE <<>>) \in Seq(TokenSet)
        BY <1>3
      <3> QED BY <2>1, <3>1, <3>2, ConcatProperties
    <2>4. /\ indentStack' \in Seq(Nat) /\ Len(indentStack') = n
          /\ \A i \in 1 .. n : indentStack'[i] = indentStack[i] /\ i \in DOMAIN indentStack
      <3> PICK t \in Seq(Nat) : t = indentStack
        BY Types
      <3>1. DOMAIN t = 1 .. Len(t) /\ Len(t) \in Nat /\ n \in 1 .. Len(t)
        BY <2>2, LenProperties
      <3> PICK l \in Nat : l = Len(t)
        BY <3>1
      <3>2. \A i \in 1 .. n : i \in 1 .. l
        BY <3>1
      <3>3. /\ SubSeq(t, 1, n) \in Seq(Nat) /\ Len(SubSeq(t, 1, n)) = n
            /\ \A i \in 1 .. n : SubSeq(t, 1, n)[i] = t[i]
        BY <3>1, SubSeqProperties
      <3> QED BY <2>1, <3>1, <3>2, <3>3
    <2>5. DOMAIN indentStack' = 1 .. n /\ indentStack' # <<>>
      BY <2>2, <2>4, LenProperties, EmptySeq
    <2>6. Nested'
      <3>1. indentStack'[1] = 0
        BY <2>2, <2>4, Types DEF TypeInv, Nested
      <3>2. \A i, j \in DOMAIN indentStack' : i < j => indentStack'[i] < indentStack'[j]
        BY <2>4, <2>5, Types DEF TypeInv, Nested
      <3> QED BY <3>1, <3>2 DEF Nested
    <2> QED BY <2>1, <2>3, <2>4, <2>5, <2>6, StartTypes
  <1> QED BY <1>4, <1>5, <1>6 DEF LineStart

-------------------------------------------------------------------------------
(* Where reading goes on.                                                  *)
LEMMA BlankFacts ==
  End \notin Blanks /\ \A x \in Plain : x \notin Blanks
  <1>1. Blanks \subseteq Others
    BY Zenon DEF Blanks, Others
  <1> QED BY <1>1, Elementary

LEMMA BreakEnds ==
  ASSUME file \in Files, NEW i, At(i) \in {"nl", "cr"}
  PROVE  AfterBreak(i) \in 1 .. Behind
  <1>1. i + 1 \in 1 .. Behind /\ i \in 1 .. Behind
    BY Inside, Elementary
  <1>2. At(i + 1) = "nl" => (i + 1) + 1 \in 1 .. Behind
    BY Inside, Elementary
  <1>3. (i + 1) + 1 = i + 2
    BY <1>1, Texts
  <1> QED BY <1>1, <1>2, <1>3 DEF AfterBreak

LEMMA NextWordFacts ==
  ASSUME file \in Files, ch # End
  PROVE  NextWord \in position + 1 .. Behind /\ NextWord \in 1 .. Behind
  BY Inside, EndOfFacts, BlankFacts DEF NextWord, ch

(* A pair is two words, the second of them behind the first.               *)
LEMMA PairFacts ==
  ASSUME Pair # End
  PROVE  Pair \in Marks /\ Pair \notin DueSyms \cup {"EOF"}
         /\ ch \in Words /\ At(NextWord) \in Words
  <1>1. Pair \in {"not in", "is not"} /\ ch \in {"not", "is"} /\ At(NextWord) \in {"in", "not"}
    BY Zenon DEF Pair
  <1>2. {"not in", "is not"} \subseteq Marks
        /\ \A x \in {"not in", "is not"} : x \notin DueSyms \cup {"EOF"}
    BY Zenon DEF Marks, DueSyms
  <1> QED BY <1>1, <1>2, LexerAssumption, Zenon

LEMMA WordIsPlain == Words \cup Numbers \cup Operators \cup Opening \cup Closing \subseteq Plain
  BY DEF Plain

(* A token is made of what stands at the position, and reading goes on     *)
(* behind it.                                                              *)
LEMMA ReturnTypes ==
  ASSUME TypeInv, NEW sym, sym \in Plain \/ sym \in Marks,
         NEW next \in 1 .. Behind, Return(sym, next),
         line' \in Nat \ {0}, bracketDepth' \in Nat
  PROVE  TypeInv'
  <1>1. tokens' \in Seq(TokenSet)
    BY Appended, TokenType DEF Return
  <1>2. TypesKept
    <2>1. indentStack' \in Seq(Nat) \ {<<>>} /\ Nested'
      BY StackKept DEF Return, layout
    <2>2. pendingTokens' \in Seq(TokenSet) /\ {atLineStart', seenTokenOnLine', eofEmitted'} \subseteq BOOLEAN
      BY DEF Return, layout, TypeInv, TypeOK
    <2>3. position' \in 1 .. Reach /\ ~atLineStart'
      BY Types DEF Return, Within
    <2> QED BY <1>1, <2>1, <2>2, <2>3 DEF TypesKept, Return
  <1> QED BY <1>2, TypesNext DEF Return, Within

LEMMA OneOn ==
  ASSUME TypeInv, ch # End
  PROVE  position \in DOMAIN text /\ position \in 1 .. Behind /\ position + 1 \in 1 .. Behind
  BY Types, Inside DEF ch

LEMMA SymbolTypes ==
  ASSUME TypeInv, Symbol
  PROVE  TypeInv'
  <1>1. CASE Word
    <2>1. ch \in Plain /\ ch # End
      BY <1>1, WordIsPlain, Elementary DEF Word
    <2> QED BY <1>1, <2>1, OneOn, ReturnTypes, Types DEF Word
  <1>2. CASE TwoWords
    <2>1. Pair \in Marks /\ ch # End /\ At(NextWord) # End /\ NextWord \in 1 .. Behind
      BY <1>2, PairFacts, NextWordFacts, WordIsPlain, Elementary, Types DEF TwoWords
    <2>2. NextWord + 1 \in 1 .. Behind
      BY <2>1, Inside, Types
    <2>3. Breaks(position + 1, NextWord) \in Nat
      <3>1. position + 1 \in Int /\ NextWord \in Int
        BY <2>1, Types
      <3> QED BY <3>1, BreaksType
    <2>4. line' \in Nat \ {0} /\ bracketDepth' \in Nat /\ Return(Pair, NextWord + 1)
      BY <1>2, <2>3, Types DEF TwoWords
    <2> QED BY <2>1, <2>2, <2>4, ReturnTypes
  <1>3. CASE NumberOrOperator
    <2>1. ch \in Plain /\ ch # End
      BY <1>3, WordIsPlain, Elementary DEF NumberOrOperator
    <2> QED BY <1>3, <2>1, OneOn, ReturnTypes, Types DEF NumberOrOperator
  <1>4. CASE Illegal
    <2>1. ch # End /\ "ILLEGAL" \in Marks
      <3>1. ch \in {"?", "\\"}
        BY <1>4 DEF Illegal
      <3> QED BY <3>1, Elementary DEF DueSyms, Elements
    <2> QED BY <1>4, <2>1, OneOn, ReturnTypes, Types DEF Illegal
  <1>5. CASE OpenBracket
    <2>1. ch \in Plain /\ ch # End
      BY <1>5, WordIsPlain, Elementary DEF OpenBracket
    <2>2. bracketDepth' \in Nat
      BY <1>5, Types DEF OpenBracket
    <2> QED BY <1>5, <2>1, <2>2, OneOn, ReturnTypes, Types DEF OpenBracket
  <1>6. CASE CloseBracket
    <2>1. ch \in Plain /\ ch # End
      BY <1>6, WordIsPlain, Elementary DEF CloseBracket
    <2>2. bracketDepth' \in Nat
      BY <1>6, Types DEF CloseBracket
    <2> QED BY <1>6, <2>1, <2>2, OneOn, ReturnTypes, Types DEF CloseBracket
  <1> QED BY <1>1, <1>2, <1>3, <1>4, <1>5, <1>6 DEF Symbol

(* Nothing is returned; what lies before the next token is passed.         *)
LEMMA SkipTypes ==
  ASSUME TypeInv, Skip
  PROVE  TypeInv'
  <1>1. /\ file' = file /\ bracketDepth' = bracketDepth /\ atLineStart' = atLineStart
        /\ seenTokenOnLine' = seenTokenOnLine /\ string' = NoString /\ tokens' = tokens
        /\ indentStack' = indentStack /\ pendingTokens' = pendingTokens
        /\ eofEmitted' = eofEmitted /\ ~atLineStart
    BY DEF Skip, SkipWhitespace, Continuation, SkipComment, layout, Within
  <1>2. position' \in 1 .. Behind /\ line' \in Nat \ {0}
    <2>1. CASE SkipWhitespace
      <3>1. position' \in 1 .. Behind
        <4>1. ch # End
          BY <2>1, BlankFacts DEF SkipWhitespace
        <4> QED BY <2>1, <4>1, OneOn, EndOfFacts, BlankFacts, Types DEF SkipWhitespace
      <3>2. Breaks(position, position') \in Nat
        <4>1. position \in Int /\ position' \in Int
          BY <3>1, Types
        <4> QED BY <4>1, BreaksType
      <3> QED BY <2>1, <3>1, <3>2, Types DEF SkipWhitespace
    <2>2. CASE Continuation
      <3>1. At(position + 1) \in {"nl", "cr"}
        BY <2>2 DEF Continuation, IsContinuation
      <3>2. AfterBreak(position + 1) \in 1 .. Behind
        BY <3>1, BreakEnds, Types
      <3> QED BY <2>2, <3>2, Types DEF Continuation
    <2>3. CASE SkipComment
      <3>1. End \notin Elements \ {"nl", "cr"}
        BY Elementary
      <3>2. ch # End
        BY <2>3, Elementary DEF SkipComment
      <3> QED BY <2>3, <3>1, <3>2, OneOn, EndOfFacts, Types DEF SkipComment
    <2> QED BY <2>1, <2>2, <2>3 DEF Skip
  <1>3. TypesKept
    <2>1. {atLineStart', seenTokenOnLine', eofEmitted'} \subseteq BOOLEAN
      BY <1>1 DEF TypeInv, TypeOK
    <2>2. position' \in 1 .. Reach /\ ~atLineStart'
      BY <1>1, <1>2, Types
    <2> QED BY <1>1, <1>2, <2>1, <2>2, StackKept, Types DEF TypesKept
  <1> QED BY <1>1, <1>3, TypesNext

LEMMA EndsTypes ==
  ASSUME TypeInv, Ends
  PROVE  TypeInv'
  <1>1. file' = file /\ bracketDepth' = bracketDepth /\ string' = NoString
    BY DEF Ends, EndOfText, Eof, NewLine, Within
  <1>2. {"NEWLINE", "DEDENT", "EOF"} \subseteq Marks
    BY Elementary DEF DueSyms
  <1>3. Token("NEWLINE") \in TokenSet /\ Token("DEDENT") \in TokenSet /\ Token("EOF") \in TokenSet
    BY <1>2, TokenType
  <1>4. CASE EndOfText
    <2>1. pendingTokens' \in Seq(TokenSet)
      <3>1. Len(indentStack) - 1 \in Nat
        BY Types
      <3>2. [i \in 1 .. Len(indentStack) - 1 |-> Token("DEDENT")] \in Seq(TokenSet)
        BY <1>3, <3>1
      <3>3. (IF seenTokenOnLine THEN <<Token("NEWLINE")>> ELSE <<>>) \in Seq(TokenSet)
        BY <1>3
      <3> QED BY <1>4, <3>2, <3>3, ConcatProperties DEF EndOfText
    <2>2. indentStack' = <<0>>
      BY <1>4 DEF EndOfText
    <2>3. indentStack' \in Seq(Nat) \ {<<>>} /\ Nested'
      BY <2>2 DEF Nested
    <2>4. /\ position' \in 1 .. Reach /\ line' \in Nat \ {0} /\ tokens' \in Seq(TokenSet)
          /\ ~atLineStart'
          /\ {atLineStart', seenTokenOnLine', eofEmitted'} \subseteq BOOLEAN
      BY <1>4 DEF EndOfText, Within, TypeInv, TypeOK
    <2> QED BY <1>1, <2>1, <2>3, <2>4, TypesNext, Types DEF TypesKept
  <1>5. CASE Eof
    <2>1. tokens' \in Seq(TokenSet)
      BY <1>3, <1>5, Appended DEF Eof
    <2>2. indentStack' \in Seq(Nat) \ {<<>>} /\ Nested'
      BY <1>5, StackKept DEF Eof, layout
    <2>3. /\ position' \in 1 .. Reach /\ line' \in Nat \ {0} /\ pendingTokens' \in Seq(TokenSet)
          /\ ~atLineStart'
          /\ {atLineStart', seenTokenOnLine', eofEmitted'} \subseteq BOOLEAN
      BY <1>5 DEF Eof, Within, layout, TypeInv, TypeOK
    <2> QED BY <1>1, <2>1, <2>2, <2>3, TypesNext, Types DEF TypesKept
  <1>6. CASE NewLine
    <2>1. tokens' \in Seq(TokenSet)
      BY <1>3, <1>6, Appended, Types DEF NewLine
    <2>2. indentStack' \in Seq(Nat) \ {<<>>} /\ Nested'
      BY <1>6, StackKept DEF NewLine, layout
    <2>3. position' \in 1 .. Reach /\ position' <= Behind
      <3>1. At(position) \in {"nl", "cr"}
        BY <1>6 DEF NewLine, ch
      <3>2. AfterBreak(position) \in 1 .. Behind
        BY <3>1, BreakEnds, Types
      <3> QED BY <1>6, <3>2, Types DEF NewLine
    <2>4. line' \in Nat \ {0}
      BY <1>6, Types DEF NewLine
    <2>5. /\ pendingTokens' \in Seq(TokenSet)
          /\ {atLineStart', seenTokenOnLine', eofEmitted'} \subseteq BOOLEAN
      BY <1>6 DEF NewLine, layout, TypeInv, TypeOK
    <2> QED BY <1>1, <2>1, <2>2, <2>3, <2>4, <2>5, TypesNext, Types DEF TypesKept
  <1> QED BY <1>4, <1>5, <1>6 DEF Ends

(* Three quotes are within the text, and so is what is behind them.        *)
LEMMA ThreeOn ==
  ASSUME file \in Files, NEW i \in Nat, Tripled(i)
  PROVE  i + 3 \in 1 .. Behind
  <1>1. "'" # End
    BY Elementary
  <1>2. i + 2 \in 1 .. Len(text)
    BY <1>1, Texts DEF Tripled
  <1> QED BY <1>2, Texts

LEMMA XIsNotEnd == "x" # End
  BY Zenon DEF End

(* How far an escape goes: to the text's end, and at most two characters   *)
(* farther.                                                                *)
LEMMA EscapeEnds ==
  ASSUME TypeInv, ch # End, NEW p \in AfterEscape
  PROVE  /\ p \in 1 .. Reach /\ position <= p
         /\ \/ p = position + 2
            \/ At(position + 1) = "x" /\ p \in {position + 3, position + 4}
  <1>1. position \in 1 .. Behind - 1 /\ Behind \in Nat /\ Reach = Behind + 2
    BY Inside, Types DEF ch
  <1>2. ASSUME At(position + 1) = "x" PROVE position + 1 \in 1 .. Behind - 1
    BY <1>2, <1>1, Inside, Types, XIsNotEnd
  <1>3. CASE At(position + 1) = "x"
    <2>1. p \in {position + 3, position + 4}
      BY <1>3 DEF AfterEscape
    <2> QED BY <1>1, <1>2, <1>3, <2>1
  <1>4. CASE At(position + 1) # "x"
    <2>1. p = position + 2
      BY <1>4 DEF AfterEscape
    <2> QED BY <1>1, <2>1
  <1> QED BY <1>3, <1>4

LEMMA QuotesTypes ==
  ASSUME TypeInv, InQuotes
  PROVE  TypeInv'
  <1>1. "'" # End
    BY Elementary
  <1>2. /\ file' = file /\ bracketDepth' = bracketDepth /\ indentStack' = indentStack
        /\ pendingTokens' = pendingTokens /\ eofEmitted' = eofEmitted
        /\ atLineStart' = atLineStart /\ ~atLineStart
        /\ seenTokenOnLine' \in {seenTokenOnLine, TRUE}
    BY StringTypes
       DEF InQuotes, BeginString, EndString, BreakString, InsideString, ReturnString, layout, Within
  <1>3. indentStack' \in Seq(Nat) \ {<<>>} /\ Nested'
    BY <1>2, StackKept
  <1>4. /\ bracketDepth' \in Nat /\ pendingTokens' \in Seq(TokenSet)
        /\ {atLineStart', seenTokenOnLine', eofEmitted'} \subseteq BOOLEAN
    BY <1>2 DEF TypeInv, TypeOK
  <1>5. ASSUME position' \in 1 .. Reach, line' \in Nat \ {0}, tokens' \in Seq(TokenSet)
        PROVE  TypesKept
    BY <1>2, <1>3, <1>4, <1>5 DEF TypesKept
  <1>6. CASE BeginString
    <2>1. /\ position \in DOMAIN text /\ position \in 1 .. Behind
          /\ position + 1 \in 1 .. Behind /\ ch = "'"
      BY <1>1, <1>6, OneOn DEF BeginString
    <2>2. position' \in 1 .. Behind /\ position < position'
      BY <1>6, <2>1, ThreeOn, Types DEF BeginString
    <2>3. TypesKept
      BY <1>5, <1>6, <2>2, Types DEF BeginString
    <2>4. string' = [triple |-> Tripled(position), at |-> position, line |-> line]
      BY <1>6 DEF BeginString
    <2>5. string' \in [triple : BOOLEAN, at : 1 .. Behind, line : Nat \ {0}]
          /\ string'.at = position
      BY <2>1, <2>4, Types DEF Tripled
    <2>6. text[position] = "'"
      BY <2>1, Types, Texts DEF ch
    <2> QED BY <1>2, <2>1, <2>2, <2>3, <2>5, <2>6, StringTypesNext
  <1>7. ASSUME NEW sym \in Marks, NEW next \in 1 .. Reach, ReturnString(sym, next)
        PROVE  TypeInv'
    <2>1. [sym |-> sym, at |-> string.at, line |-> string.line] \in TokenSet
      BY <1>7, StringTypes, TokenTypes DEF ReturnString
    <2>2. tokens' \in Seq(TokenSet) /\ position' \in 1 .. Reach /\ line' \in Nat \ {0}
      BY <1>7, <2>1, Appended, Types DEF ReturnString
    <2> QED BY <1>5, <1>7, <2>2, TypesNext DEF ReturnString
  <1>8. "STRING" \in Marks /\ "ILLEGAL" \in Marks
    BY Elementary DEF DueSyms
  <1>9. CASE EndString
    <2>1. position + (IF string.triple THEN 3 ELSE 1) \in 1 .. Reach
      <3>1. CASE string.triple
        BY <1>9, <3>1, ThreeOn, Types DEF EndString, EndsHere
      <3>2. CASE ~string.triple
        BY <1>1, <1>9, <3>2, OneOn, Types DEF EndString, EndsHere
      <3> QED BY <3>1, <3>2
    <2> QED BY <1>7, <1>8, <1>9, <2>1 DEF EndString
  <1>10. CASE BreakString
    BY <1>7, <1>8, <1>10, Types DEF BreakString
  <1>11. CASE InsideString
    <2>1. ch # End /\ position + 1 \in 1 .. Behind
      BY <1>11, OneOn DEF InsideString, Broken
    <2>2. position' \in 1 .. Reach /\ position <= position'
      <3>1. position' = position + 1 \/ position' \in AfterEscape
        BY <1>11 DEF InsideString
      <3> QED BY <2>1, <3>1, EscapeEnds, Types
    <2>3. TypesKept /\ string' = string
      BY <1>5, <1>11, <2>2, Types DEF InsideString
    <2> QED BY <1>2, <2>2, <2>3, StringStays
  <1> QED BY <1>6, <1>9, <1>10, <1>11 DEF InQuotes

LEMMA TypeStep == TypeInv /\ [Next]_vars => TypeInv'
  <1> SUFFICES ASSUME TypeInv, [Next]_vars PROVE TypeInv'
    OBVIOUS
  <1>1. CASE UNCHANGED vars
    <2>1. TypesKept
      <3>1. {atLineStart', seenTokenOnLine', eofEmitted'} \subseteq BOOLEAN
            /\ (atLineStart' => position' <= Behind)
        BY <1>1, Types DEF vars, TypeInv, TypeOK
      <3> QED BY <1>1, <3>1, StackKept, Types DEF vars, TypesKept
    <2> QED BY <1>1, <2>1, StringStays, Types DEF vars
  <1> QED BY <1>1, EmitTypes, LineStartTypes, SkipTypes, EndsTypes, SymbolTypes, QuotesTypes DEF Next

LEMMA Typed == Spec => []TypeInv
  BY TypeInit, TypeStep, PTL DEF Spec

(* Reading may leave the text, whatever is in it, but by no more than what *)
(* one escape at its end reads; and every token has a place.               *)
THEOREM Typing == Spec => []TypeOK
  <1>1. TypeInv => TypeOK
    BY DEF TypeInv
  <1> QED BY <1>1, Typed, PTL

-------------------------------------------------------------------------------
(* Counting tokens.                                                        *)
LEMMA CountType ==
  ASSUME NEW S, NEW s \in Seq(S), NEW sym
  PROVE  /\ IsFiniteSet({i \in DOMAIN s : s[i].sym = sym})
         /\ Count(s, sym) \in Nat
  <1>1. IsFiniteSet(DOMAIN s)
    <2>1. DOMAIN s = 1 .. Len(s) /\ Len(s) \in Int
      BY LenProperties
    <2> QED BY <2>1, FS_Interval
  <1>2. {i \in DOMAIN s : s[i].sym = sym} \in SUBSET DOMAIN s
    OBVIOUS
  <1> QED BY <1>1, <1>2, FS_Subset, FS_CardinalityType DEF Count

LEMMA CountAppend ==
  ASSUME NEW S, NEW s \in Seq(S), NEW x \in S, NEW sym
  PROVE  Count(Append(s, x), sym) = Count(s, sym) + (IF x.sym = sym THEN 1 ELSE 0)
  <1> DEFINE A == {i \in DOMAIN s : s[i].sym = sym}
             B == {i \in DOMAIN Append(s, x) : Append(s, x)[i].sym = sym}
             n == Len(s) + 1
  <1>1. /\ Len(s) \in Nat /\ DOMAIN s = 1 .. Len(s) /\ DOMAIN Append(s, x) = 1 .. n
        /\ \A i \in 1 .. Len(s) : Append(s, x)[i] = s[i]
        /\ Append(s, x)[n] = x
    BY LenProperties, AppendProperties
  <1>2. n \notin A /\ B = IF x.sym = sym THEN A \cup {n} ELSE A
    BY <1>1
  <1>3. IsFiniteSet(A)
    BY CountType
  <1>4. Cardinality(A) \in Nat
    BY <1>3, FS_CardinalityType
  <1>5. Cardinality(A \cup {n}) = Cardinality(A) + 1
    <2> HIDE DEF A, n
    <2> QED BY <1>2, <1>3, FS_AddElement
  <1>6. Count(s, sym) = Cardinality(A) /\ Count(Append(s, x), sym) = Cardinality(B)
    BY DEF Count
  <1> HIDE DEF A, B, n
  <1> QED BY <1>2, <1>4, <1>5, <1>6

LEMMA CountTail ==
  ASSUME NEW S, NEW s \in Seq(S), s # <<>>, NEW sym
  PROVE  Count(s, sym) = Count(Tail(s), sym) + (IF Head(s).sym = sym THEN 1 ELSE 0)
  <1> DEFINE A == {i \in DOMAIN s : s[i].sym = sym}
             B == {i \in DOMAIN Tail(s) : Tail(s)[i].sym = sym}
             f == [i \in B |-> i + 1]
  <1>1. /\ Len(s) \in Nat \ {0} /\ DOMAIN s = 1 .. Len(s) /\ Head(s) = s[1]
        /\ Tail(s) \in Seq(S) /\ DOMAIN Tail(s) = 1 .. Len(s) - 1
        /\ \A i \in 1 .. Len(s) - 1 : Tail(s)[i] = s[i + 1]
    <2>1. Len(s) \in Nat \ {0} /\ DOMAIN s = 1 .. Len(s)
      BY LenProperties, EmptySeq
    <2>2. /\ Tail(s) \in Seq(S) /\ Len(Tail(s)) = Len(s) - 1
          /\ \A i \in 1 .. Len(Tail(s)) : Tail(s)[i] = s[i + 1]
      BY HeadTailProperties
    <2>3. DOMAIN Tail(s) = 1 .. Len(Tail(s))
      BY <2>2, LenProperties
    <2> QED BY <2>1, <2>2, <2>3
  <1>2. IsFiniteSet(A) /\ IsFiniteSet(B)
    BY <1>1, CountType
  <1>3. f \in Bijection(B, A \ {1})
    <2>1. \A i \in B : i + 1 \in A \ {1}
      BY <1>1
    <2>2. \A j \in A \ {1} : j - 1 \in B /\ (j - 1) + 1 = j
      BY <1>1
    <2>3. f \in [B -> A \ {1}]
      BY <2>1
    <2>4. \A i, j \in B : f[i] = f[j] => i = j
      BY <1>1
    <2>5. \A j \in A \ {1} : \E i \in B : f[i] = j
      BY <2>2
    <2> HIDE DEF f, A, B
    <2> QED BY <2>3, <2>4, <2>5 DEF Bijection, Injection, Surjection, IsInjective
  <1>4. Cardinality(A \ {1}) = Cardinality(B)
    <2> HIDE DEF f, A, B
    <2>1. ExistsBijection(B, A \ {1})
      BY <1>3 DEF ExistsBijection
    <2> QED BY <1>2, <2>1, FS_Bijection
  <1>5. 1 \in A <=> Head(s).sym = sym
    BY <1>1
  <1>6. Cardinality(A) \in Nat /\ Cardinality(B) \in Nat
    BY <1>2, FS_CardinalityType
  <1>7. Cardinality(A \ {1}) = IF 1 \in A THEN Cardinality(A) - 1 ELSE Cardinality(A)
    <2> HIDE DEF A
    <2> QED BY <1>2, FS_RemoveElement
  <1>8. Count(s, sym) = Cardinality(A) /\ Count(Tail(s), sym) = Cardinality(B)
    BY DEF Count
  <1> HIDE DEF A, B
  <1> QED BY <1>4, <1>5, <1>6, <1>7, <1>8

(* A run of tokens with the symbol, and no others.                         *)
LEMMA CountRun ==
  ASSUME NEW s, NEW sym, NEW a \in Int, NEW b \in Int, a <= b + 1,
         \A i \in a .. b : i \in DOMAIN s /\ s[i].sym = sym,
         \A i \in DOMAIN s : s[i].sym = sym => i \in a .. b
  PROVE  Count(s, sym) = b - a + 1
  <1>1. {i \in DOMAIN s : s[i].sym = sym} = a .. b
    OBVIOUS
  <1>2. Cardinality(a .. b) = b - a + 1
    BY FS_Interval
  <1> QED BY <1>1, <1>2 DEF Count

LEMMA CountNone ==
  ASSUME NEW s, NEW sym, \A i \in DOMAIN s : s[i].sym # sym
  PROVE  Count(s, sym) = 0
  <1>1. {i \in DOMAIN s : s[i].sym = sym} = {}
    OBVIOUS
  <1> QED BY <1>1, FS_EmptySet DEF Count

(* A number of equal tokens, and one behind or before them or not.         *)
LEMMA RunThen ==
  ASSUME NEW m \in Nat, NEW d, NEW x, NEW b \in BOOLEAN,
         NEW s, s = [i \in 1 .. m |-> d] \o (IF b THEN <<x>> ELSE <<>>)
  PROVE  /\ \A i \in 1 .. m : i \in DOMAIN s /\ s[i] = d
         /\ b => Len(s) = m + 1 /\ s[m + 1] = x
         /\ \A i \in DOMAIN s : i \in 1 .. m \/ (b /\ i = m + 1)
  <1> DEFINE D == [i \in 1 .. m |-> d]
             X == <<x>>
  <1>1. D \in Seq({d, x}) /\ Len(D) = m /\ \A i \in 1 .. m : D[i] = d
    OBVIOUS
  <1>2. X \in Seq({d, x}) /\ <<>> \in Seq({d, x}) /\ Len(X) = 1 /\ X[1] = x
    OBVIOUS
  <1> HIDE DEF D, X
  <1>3. CASE b
    <2>1. s = D \o X
      BY <1>3 DEF D, X
    <2>2. /\ s \in Seq({d, x}) /\ Len(s) = m + 1
          /\ \A i \in 1 .. m + 1 : s[i] = IF i <= m THEN D[i] ELSE X[i - m]
      <3>1. D \in Seq({d, x}) /\ X \in Seq({d, x})
        BY <1>1, <1>2
      <3>2. /\ D \o X \in Seq({d, x}) /\ Len(D \o X) = Len(D) + Len(X)
            /\ \A i \in 1 .. Len(D) + Len(X) :
                 (D \o X)[i] = IF i <= Len(D) THEN D[i] ELSE X[i - Len(D)]
        BY <3>1, ConcatProperties, Zenon
      <3>3. Len(D) = m /\ Len(X) = 1
        BY <1>1, <1>2
      <3> QED BY <2>1, <3>2, <3>3
    <2>3. DOMAIN s = 1 .. m + 1
      BY <2>2, LenProperties
    <2> QED BY <1>1, <1>2, <1>3, <2>2, <2>3
  <1>4. CASE ~b
    <2>1. s = D
      BY <1>1, <1>2, <1>4, ConcatEmptySeq DEF D
    <2>2. DOMAIN s = 1 .. m
      BY <2>1 DEF D
    <2> QED BY <1>1, <1>4, <2>1, <2>2
  <1> QED BY <1>3, <1>4

LEMMA ThenRun ==
  ASSUME NEW m \in Nat, NEW d, NEW x, NEW b \in BOOLEAN,
         NEW s, s = (IF b THEN <<x>> ELSE <<>>) \o [i \in 1 .. m |-> d]
  PROVE  \E a \in {0, 1} :
           /\ a = 1 <=> b
           /\ \A i \in a + 1 .. a + m : i \in DOMAIN s /\ s[i] = d
           /\ b => s # <<>> /\ s[1] = x
           /\ \A i \in DOMAIN s : i \in a + 1 .. a + m \/ (b /\ i = 1)
  <1> DEFINE D == [i \in 1 .. m |-> d]
             X == <<x>>
  <1>1. D \in Seq({d, x}) /\ Len(D) = m /\ \A i \in 1 .. m : D[i] = d
    OBVIOUS
  <1>2. X \in Seq({d, x}) /\ <<>> \in Seq({d, x}) /\ Len(X) = 1 /\ X[1] = x
    OBVIOUS
  <1> HIDE DEF D, X
  <1>3. CASE b
    <2>1. s = X \o D
      BY <1>3 DEF D, X
    <2>2. /\ s \in Seq({d, x}) /\ Len(s) = 1 + m
          /\ \A i \in 1 .. 1 + m : s[i] = IF i <= 1 THEN X[i] ELSE D[i - 1]
      <3>1. X \in Seq({d, x}) /\ D \in Seq({d, x})
        BY <1>1, <1>2
      <3>2. /\ X \o D \in Seq({d, x}) /\ Len(X \o D) = Len(X) + Len(D)
            /\ \A i \in 1 .. Len(X) + Len(D) :
                 (X \o D)[i] = IF i <= Len(X) THEN X[i] ELSE D[i - Len(X)]
        BY <3>1, ConcatProperties, Zenon
      <3>3. Len(D) = m /\ Len(X) = 1
        BY <1>1, <1>2
      <3> QED BY <2>1, <3>2, <3>3
    <2>3. DOMAIN s = 1 .. 1 + m /\ s # <<>>
      BY <2>2, LenProperties, EmptySeq
    <2>4. \A i \in 1 + 1 .. 1 + m : i \in DOMAIN s /\ s[i] = d
      BY <1>1, <2>2, <2>3
    <2>5. s[1] = x /\ \A i \in DOMAIN s : i \in 1 + 1 .. 1 + m \/ i = 1
      BY <1>2, <2>2, <2>3
    <2> QED BY <1>3, <2>3, <2>4, <2>5
  <1>4. CASE ~b
    <2>1. s = D
      BY <1>1, <1>2, <1>4, ConcatEmptySeq DEF D
    <2>2. DOMAIN s = 1 .. m
      BY <2>1 DEF D
    <2>3. \A i \in 0 + 1 .. 0 + m : i \in DOMAIN s /\ s[i] = d
      BY <1>1, <2>1, <2>2
    <2> QED BY <1>4, <2>2, <2>3
  <1> QED BY <1>3, <1>4

-------------------------------------------------------------------------------
(* What a token that is returned does to the layout.                       *)
LEMMA Returned ==
  ASSUME TypeInv, LayoutInPlace, NEW tok \in TokenSet, tokens' = Append(tokens, tok),
         tok.sym = "NEWLINE" => InLine, tok.sym \in {"INDENT", "DEDENT"} => ~InLine
  PROVE  /\ LayoutInPlace'
         /\ InLine' <=> tok.sym \notin LayoutSyms
         /\ Reading' <=> tok.sym # "EOF"
  <1> PICK n \in Nat : n = Len(tokens)
    BY Types, LenProperties
  <1>1. /\ Len(tokens') = n + 1 /\ DOMAIN tokens = 1 .. n /\ DOMAIN tokens' = 1 .. n + 1
        /\ tokens'[n + 1] = tok /\ \A i \in 1 .. n : tokens'[i] = tokens[i]
        /\ tokens' # <<>> /\ (tokens # <<>> <=> n # 0)
    <2>1. tokens \in Seq(TokenSet) /\ tokens' \in Seq(TokenSet)
      BY Types, Appended
    <2>2. Len(tokens') = n + 1 /\ \A i \in 1 .. n : tokens'[i] = tokens[i]
          /\ tokens'[n + 1] = tok
      BY <2>1, AppendProperties
    <2>3. DOMAIN tokens = 1 .. n /\ DOMAIN tokens' = 1 .. n + 1
      BY <2>1, <2>2, LenProperties
    <2>4. tokens' # <<>> /\ (tokens # <<>> <=> n # 0)
      BY <2>1, <2>2, EmptySeq
    <2> QED BY <2>2, <2>3, <2>4
  <1>2. InLine <=> n # 0 /\ tokens[n].sym \notin LayoutSyms
    BY <1>1 DEF InLine, Last
  <1>3. LayoutInPlace'
    <2> SUFFICES ASSUME NEW i \in 1 .. n + 1
                 PROVE  /\ tokens'[i].sym = "NEWLINE" => i > 1 /\ tokens'[i - 1].sym \notin LayoutSyms
                        /\ tokens'[i].sym \in {"INDENT", "DEDENT"} => i = 1 \/ tokens'[i - 1].sym \in LayoutSyms
      BY <1>1 DEF LayoutInPlace, LayoutSyms
    <2>1. CASE i \in 1 .. n
      <3>1. tokens'[i] = tokens[i] /\ (i > 1 => tokens'[i - 1] = tokens[i - 1])
        BY <1>1, <2>1
      <3>2. /\ tokens[i].sym = "NEWLINE" => i > 1 /\ tokens[i - 1].sym \notin LayoutSyms
            /\ tokens[i].sym \in {"INDENT", "DEDENT"} => i = 1 \/ tokens[i - 1].sym \in LayoutSyms
        BY <1>1, <2>1 DEF LayoutInPlace
      <3> QED BY <2>1, <3>1, <3>2
    <2>2. CASE i = n + 1
      <3>1. tokens'[i] = tok /\ (n # 0 => tokens'[i - 1] = tokens[n] /\ i > 1)
        BY <1>1, <2>2
      <3> QED BY <1>2, <2>2, <3>1
    <2> QED BY <2>1, <2>2
  <1> QED BY <1>1, <1>3 DEF InLine, Last, Reading, LayoutSyms

LEMMA NotReturned ==
  ASSUME tokens' = tokens
  PROVE  /\ LayoutInPlace => LayoutInPlace'
         /\ InLine' <=> InLine
         /\ Reading' <=> Reading
  BY DEF LayoutInPlace, LayoutSyms, InLine, Last, Reading

(* Before the end of the text, no token is due for it.                     *)
LEMMA NotEnded ==
  ASSUME LayoutInv, ch # End
  PROVE  ~eofEmitted /\ Reading
  <1>1. position \notin DOMAIN text => ch = End
    BY Texts, Types DEF LayoutInv, ch
  <1>2. position >= Behind => ch = End
    BY <1>1, Texts, Types DEF LayoutInv
  <1> QED BY <1>2 DEF LayoutInv, Ended

(* A token of the line.                                                    *)
LineSym(sym) == (sym \in Plain \/ sym \in Marks) /\ sym \notin LayoutSyms \cup {"EOF"}

LEMMA PlainIsLineSym ==
  /\ \A sym \in Plain : LineSym(sym)
  /\ LineSym("ILLEGAL") /\ LineSym("STRING")
  <1>1. LayoutSyms \cup {"EOF"} \subseteq Marks /\ {"ILLEGAL", "STRING"} \subseteq Marks
    BY Elementary DEF LayoutSyms, DueSyms
  <1> QED BY <1>1, Elementary DEF LineSym, LayoutSyms

LEMMA LineToken ==
  ASSUME LayoutInv, TypeInv', ~eofEmitted, pendingTokens = <<>>,
         NEW tok \in TokenSet, LineSym(tok.sym), tokens' = Append(tokens, tok),
         ~atLineStart', seenTokenOnLine', string' = NoString, UNCHANGED layout
  PROVE  LayoutInv'
  <1>1. TypeInv /\ LayoutInPlace /\ Balanced /\ tok.sym \notin LayoutSyms /\ tok.sym # "EOF"
    BY DEF LayoutInv, LineSym
  <1>2. LayoutInPlace' /\ InLine' /\ Reading'
    BY <1>1, Returned DEF LayoutSyms
  <1>3. pendingTokens' = <<>> /\ ~eofEmitted' /\ indentStack' = indentStack
    BY DEF layout
  <1>4. Due'
    BY <1>3 DEF Due
  <1>5. Ended'
    BY <1>2, <1>3 DEF Ended
  <1>6. Placed'
    BY <1>2, <1>3 DEF Placed, InString, NewlineDue, InLine
  <1>7. Balanced'
    <2>1. tok.sym # "INDENT" /\ tok.sym # "DEDENT" /\ tokens \in Seq(TokenSet)
      BY <1>1, Types DEF LayoutSyms
    <2>2. Count(tokens', "INDENT") = Count(tokens, "INDENT")
          /\ Count(tokens', "DEDENT") = Count(tokens, "DEDENT")
      <3>1. Count(tokens, "INDENT") \in Nat /\ Count(tokens, "DEDENT") \in Nat
        BY <2>1, CountType
      <3> QED BY <2>1, <3>1, CountAppend
    <2> QED BY <1>1, <1>3, <2>2 DEF Balanced, Count
  <1> QED BY <1>2, <1>4, <1>5, <1>6, <1>7 DEF LayoutInv

LEMMA SymbolLayout ==
  ASSUME LayoutInv, Symbol
  PROVE  LayoutInv'
  <1>1. TypeInv /\ TypeInv'
    BY SymbolTypes DEF LayoutInv
  <1>2. ASSUME NEW sym, LineSym(sym), NEW next, Return(sym, next), ch # End
        PROVE  LayoutInv'
    <2>1. Token(sym) \in TokenSet /\ Token(sym).sym = sym
      BY <1>1, <1>2, TokenType DEF LineSym, Token
    <2>2. /\ pendingTokens = <<>> /\ tokens' = Append(tokens, Token(sym)) /\ ~atLineStart'
          /\ seenTokenOnLine' /\ string' = NoString /\ UNCHANGED layout
      BY <1>2 DEF Return, Within
    <2> QED BY <1>1, <1>2, <2>1, <2>2, NotEnded, LineToken
  <1>3. CASE TwoWords
    <2>1. Pair \in Marks /\ Pair \notin DueSyms \cup {"EOF"} /\ ch # End
      BY <1>1, <1>3, PairFacts, WordIsPlain, Elementary, Types DEF TwoWords
    <2>2. LineSym(Pair)
      BY <2>1 DEF LineSym, LayoutSyms, DueSyms
    <2> QED BY <1>2, <1>3, <2>1, <2>2 DEF TwoWords
  <1>4. CASE Illegal
    <2>1. ch # End
      <3>1. ch \in {"?", "\\"}
        BY <1>4 DEF Illegal
      <3> QED BY <3>1, Elementary DEF Elements
    <2> QED BY <1>2, <1>4, <2>1, PlainIsLineSym DEF Illegal
  <1>5. ASSUME NEW next, ch \in Plain, Return(ch, next)
        PROVE  LayoutInv'
    BY <1>2, <1>5, PlainIsLineSym, Elementary
  <1> QED BY <1>3, <1>4, <1>5, WordIsPlain
        DEF Symbol, Word, NumberOrOperator, OpenBracket, CloseBracket

(* Nothing is returned, and what is due stays.                             *)
LEMMA NothingReturned ==
  ASSUME LayoutInv, TypeInv', tokens' = tokens, UNCHANGED layout,
         seenTokenOnLine' = seenTokenOnLine, ~atLineStart', pendingTokens = <<>>,
         ~eofEmitted
  PROVE  LayoutInv'
  <1>1. LayoutInPlace' /\ (InLine' <=> InLine) /\ (Reading' <=> Reading)
    BY NotReturned DEF LayoutInv
  <1>2. pendingTokens' = <<>> /\ ~eofEmitted' /\ indentStack' = indentStack
    BY DEF layout
  <1>3. Due'
    BY <1>2 DEF Due
  <1>4. Ended'
    BY <1>1, <1>2 DEF Ended, LayoutInv
  <1>5. Placed'
    <2>1. /\ seenTokenOnLine => InLine
          /\ ~seenTokenOnLine /\ Reading => ~InLine
      BY DEF LayoutInv, Placed, NewlineDue
    <2> QED BY <1>1, <1>2, <2>1 DEF Placed, NewlineDue, InLine
  <1>6. Balanced'
    BY <1>2 DEF LayoutInv, Balanced, Count
  <1> QED BY <1>1, <1>3, <1>4, <1>5, <1>6 DEF LayoutInv

LEMMA SkipLayout ==
  ASSUME LayoutInv, Skip
  PROVE  LayoutInv'
  <1>1. ch # End
    <2>1. End \notin Blanks /\ End # "\\" /\ End # "#"
      BY BlankFacts, Elementary
    <2> QED BY <2>1 DEF Skip, SkipWhitespace, Continuation, IsContinuation, SkipComment
  <1>2. /\ tokens' = tokens /\ UNCHANGED layout /\ seenTokenOnLine' = seenTokenOnLine
        /\ ~atLineStart' /\ pendingTokens = <<>>
    BY DEF Skip, SkipWhitespace, Continuation, SkipComment, Within
  <1>3. TypeInv'
    BY SkipTypes DEF LayoutInv
  <1> QED BY <1>1, <1>2, <1>3, NotEnded, NothingReturned

LEMMA QuotesLayout ==
  ASSUME LayoutInv, InQuotes
  PROVE  LayoutInv'
  <1>1. TypeInv /\ TypeInv'
    BY QuotesTypes DEF LayoutInv
  <1>2. InString => ~atLineStart /\ pendingTokens = <<>> /\ ~eofEmitted
    BY DEF LayoutInv, Placed, Ended
  <1>3. CASE BeginString
    <2>1. ch # End
      BY <1>3, Elementary DEF BeginString
    <2>2. /\ tokens' = tokens /\ UNCHANGED layout /\ seenTokenOnLine' = seenTokenOnLine
          /\ ~atLineStart' /\ pendingTokens = <<>>
      BY <1>3 DEF BeginString, Within
    <2> QED BY <1>1, <2>1, <2>2, NotEnded, NothingReturned
  <1>4. ASSUME NEW sym, LineSym(sym), NEW next, ReturnString(sym, next)
        PROVE  LayoutInv'
    <2> DEFINE tok == [sym |-> sym, at |-> string.at, line |-> string.line]
    <2>1. tok \in TokenSet /\ tok.sym = sym
      BY <1>1, <1>4, StringTypes, TokenTypes DEF ReturnString, LineSym
    <2>2. /\ tokens' = Append(tokens, tok) /\ seenTokenOnLine' /\ string' = NoString
          /\ ~atLineStart' /\ UNCHANGED layout /\ ~eofEmitted /\ pendingTokens = <<>>
      BY <1>2, <1>4 DEF ReturnString
    <2> HIDE DEF tok
    <2> QED BY <1>1, <1>4, <2>1, <2>2, LineToken
  <1>5. CASE EndString \/ BreakString
    BY <1>4, <1>5, PlainIsLineSym DEF EndString, BreakString
  <1>6. CASE InsideString
    <2>1. /\ tokens' = tokens /\ UNCHANGED layout /\ seenTokenOnLine' = seenTokenOnLine
          /\ ~atLineStart' /\ pendingTokens = <<>> /\ ~eofEmitted
      BY <1>2, <1>6 DEF InsideString
    <2> QED BY <1>1, <2>1, NothingReturned
  <1> QED BY <1>3, <1>5, <1>6 DEF InQuotes

LEMMA EmitLayout ==
  ASSUME LayoutInv, EmitPending
  PROVE  LayoutInv'
  <1> DEFINE tok == Head(pendingTokens)
  <1>1. TypeInv /\ TypeInv' /\ LayoutInPlace /\ pendingTokens # <<>>
    BY EmitTypes DEF LayoutInv, EmitPending
  <1> PICK n \in Nat : n = Len(pendingTokens)
    BY <1>1, Types, LenProperties
  <1>2. /\ tok \in TokenSet /\ tok = pendingTokens[1] /\ DOMAIN pendingTokens = 1 .. n /\ n # 0
        /\ tokens' = Append(tokens, tok) /\ pendingTokens' = Tail(pendingTokens)
        /\ pendingTokens' \in Seq(TokenSet) /\ DOMAIN pendingTokens' = 1 .. n - 1
        /\ Len(pendingTokens') = n - 1
        /\ \A i \in 1 .. n - 1 : pendingTokens'[i] = pendingTokens[i + 1]
    <2>1. pendingTokens \in Seq(TokenSet) /\ DOMAIN pendingTokens = 1 .. n /\ n # 0
      BY <1>1, Types, LenProperties, EmptySeq
    <2>2. /\ tok \in TokenSet /\ Tail(pendingTokens) \in Seq(TokenSet)
          /\ Len(Tail(pendingTokens)) = n - 1 /\ tok = pendingTokens[1]
          /\ \A i \in 1 .. n - 1 : Tail(pendingTokens)[i] = pendingTokens[i + 1]
      BY <1>1, <2>1, HeadTailProperties
    <2>3. DOMAIN Tail(pendingTokens) = 1 .. n - 1
      BY <2>2, LenProperties
    <2> QED BY <2>1, <2>2, <2>3 DEF EmitPending
  <1>3. /\ tok.sym \in DueSyms
        /\ tok.sym = "ILLEGAL" => n = 1
        /\ tok.sym = "NEWLINE" <=> NewlineDue
    BY <1>1, <1>2 DEF LayoutInv, Due, NewlineDue
  <1>4. ~seenTokenOnLine /\ Reading /\ ~InString
    BY <1>1 DEF LayoutInv, Placed, Ended
  <1>5. (NewlineDue => InLine) /\ (~NewlineDue => ~InLine)
    BY <1>4 DEF LayoutInv, Placed
  <1>6. /\ LayoutInPlace'
        /\ InLine' <=> tok.sym \notin LayoutSyms
        /\ Reading'
    <2>1. tok.sym = "NEWLINE" => InLine
      BY <1>3, <1>5
    <2>2. tok.sym \in {"INDENT", "DEDENT"} => ~InLine
      BY <1>3, <1>5
    <2>3. tok.sym # "EOF"
      BY <1>3 DEF DueSyms
    <2> HIDE DEF tok
    <2> QED BY <1>1, <1>2, <2>1, <2>2, <2>3, Returned
  <1>7. seenTokenOnLine' <=> tok.sym = "ILLEGAL"
    BY <1>4 DEF EmitPending
  <1>8. InLine' <=> tok.sym = "ILLEGAL"
    BY <1>3, <1>6 DEF DueSyms, LayoutSyms
  <1> HIDE DEF tok
  <1>9. Due' /\ ~NewlineDue'
    <2>1. \A i \in 1 .. n - 1 : i + 1 \in 1 .. n /\ i + 1 # 1
      BY <1>2
    <2>2. \A i \in 1 .. n - 1 : /\ pendingTokens'[i].sym \in DueSyms
                                /\ pendingTokens'[i].sym # "NEWLINE"
                                /\ pendingTokens'[i].sym = "ILLEGAL" => i + 1 = n
      BY <1>2, <2>1 DEF LayoutInv, Due
    <2>3. pendingTokens' # <<>> => 1 \in 1 .. n - 1
      BY <1>2, EmptySeq
    <2>4. Due'
      BY <1>2, <2>2 DEF Due, DueSyms
    <2> QED BY <2>2, <2>3, <2>4 DEF NewlineDue
  <1>10. Ended'
    <2>1. /\ position' = position /\ atLineStart' = atLineStart /\ string' = string
          /\ eofEmitted' = eofEmitted /\ indentStack' = indentStack /\ Behind' = Behind
      BY <1>1, SameFile DEF EmitPending
    <2> QED BY <1>6, <2>1 DEF Ended, LayoutInv, InString
  <1>11. Placed'
    <2>1. /\ atLineStart' = atLineStart /\ string' = string
          /\ ~atLineStart /\ ~InString'
      <3>1. ~atLineStart
        BY <1>1 DEF LayoutInv, Placed
      <3> QED BY <1>4, <3>1 DEF EmitPending, InString
    <2>2. seenTokenOnLine' => pendingTokens' = <<>>
      <3>1. tok.sym = "ILLEGAL" => Len(pendingTokens') = 0
        BY <1>2, <1>3
      <3> QED BY <1>2, <1>7, <3>1, EmptySeq
    <2> QED BY <1>7, <1>8, <1>9, <2>1, <2>2 DEF Placed
  <1>12. Balanced'
    <2>1. /\ tokens \in Seq(TokenSet) /\ pendingTokens \in Seq(TokenSet)
      BY <1>1, Types
    <2>2. ASSUME NEW sym
          PROVE  /\ Count(tokens', sym) + Count(pendingTokens', sym) =
                      Count(tokens, sym) + Count(pendingTokens, sym)
      <3>1. Count(tokens', sym) = Count(tokens, sym) + (IF tok.sym = sym THEN 1 ELSE 0)
        BY <1>2, <2>1, CountAppend
      <3>2. Count(pendingTokens, sym) =
              Count(Tail(pendingTokens), sym) + (IF tok.sym = sym THEN 1 ELSE 0)
        BY <1>1, <2>1, CountTail DEF tok
      <3>3. /\ Count(tokens, sym) \in Nat /\ Count(Tail(pendingTokens), sym) \in Nat
        BY <1>2, <2>1, CountType
      <3> QED BY <1>2, <3>1, <3>2, <3>3
    <2>3. Count(tokens, "DEDENT") + Count(pendingTokens, "DEDENT")
            = Count(tokens', "DEDENT") + Count(pendingTokens', "DEDENT")
      BY <2>2
    <2>4. indentStack' = indentStack
      BY DEF EmitPending
    <2> QED BY <2>2, <2>3, <2>4 DEF LayoutInv, Balanced, Count
  <1> QED BY <1>1, <1>6, <1>9, <1>10, <1>11, <1>12 DEF LayoutInv

LEMMA StartLayout ==
  ASSUME LayoutInv, TypeInv', AtStart, Due', ~NewlineDue',
         Count(pendingTokens', "INDENT") + Len(indentStack) =
           Count(pendingTokens', "DEDENT") + Len(indentStack')
  PROVE  LayoutInv'
  <1>1. pendingTokens = <<>> /\ atLineStart /\ ~seenTokenOnLine /\ ~InString /\ ~eofEmitted
        /\ Reading /\ ~NewlineDue
    BY DEF AtStart, LayoutInv, Placed, Ended, NewlineDue
  <1>2. ~InLine
    BY <1>1 DEF LayoutInv, Placed
  <1>3. /\ ~atLineStart' /\ tokens' = tokens /\ ~seenTokenOnLine' /\ ~InString' /\ ~eofEmitted'
    BY <1>1 DEF AtStart, InString
  <1>4. LayoutInPlace' /\ ~InLine' /\ Reading'
    BY <1>1, <1>2, <1>3, NotReturned DEF LayoutInv
  <1>5. Ended' /\ Placed'
    BY <1>3, <1>4 DEF Ended, Placed
  <1>6. Balanced'
    <2>1. tokens \in Seq(TokenSet) /\ pendingTokens' \in Seq(TokenSet) /\ TypeInv
          /\ indentStack' \in Seq(Nat)
      <3>1. pendingTokens' \in Seq(TokenSet') /\ indentStack' \in Seq(Nat)
        BY DEF TypeInv, TypeOK
      <3>2. TokenSet' = TokenSet
        BY SameFile DEF AtStart
      <3> QED BY <3>1, <3>2, Types DEF LayoutInv
    <2>2. /\ Count(tokens, "INDENT") \in Nat /\ Count(tokens, "DEDENT") \in Nat
          /\ Count(pendingTokens', "INDENT") \in Nat /\ Count(pendingTokens', "DEDENT") \in Nat
          /\ Len(indentStack) \in Nat /\ Len(indentStack') \in Nat
      BY <2>1, CountType, LenProperties, Types
    <2>3. Count(pendingTokens, "INDENT") = 0 /\ Count(pendingTokens, "DEDENT") = 0
      BY <1>1, CountNone
    <2>4. Count(tokens, "INDENT") = Count(tokens, "DEDENT") + Len(indentStack) - 1
      BY <2>2, <2>3 DEF LayoutInv, Balanced
    <2>5. Count(tokens, "INDENT") + Count(pendingTokens', "INDENT")
            = Count(tokens, "DEDENT") + Count(pendingTokens', "DEDENT") + Len(indentStack') - 1
      <3> PICK a \in Nat, b \in Nat, c \in Nat, d \in Nat, m \in Nat, n \in Nat :
            /\ a = Count(tokens, "INDENT") /\ b = Count(tokens, "DEDENT")
            /\ c = Count(pendingTokens', "INDENT") /\ d = Count(pendingTokens', "DEDENT")
            /\ m = Len(indentStack) /\ n = Len(indentStack')
        BY <2>2
      <3>1. a = b + m - 1 /\ c + m = d + n
        BY <2>4
      <3>2. a + c = b + d + n - 1
        BY ONLY <3>1, a \in Nat, b \in Nat, c \in Nat, d \in Nat, m \in Nat, n \in Nat
      <3> QED BY <3>2
    <2> QED BY <1>3, <2>5 DEF Balanced, Count
  <1> QED BY <1>4, <1>5, <1>6 DEF LayoutInv

LEMMA LineStartLayout ==
  ASSUME LayoutInv, LineStart
  PROVE  LayoutInv'
  <1>1. TypeInv /\ TypeInv' /\ atLineStart
    BY LineStartTypes
       DEF LayoutInv, LineStart, EmptyLine, SameIndent, Indent, Dedent, AtStart
  <1>2. CASE EmptyLine \/ SameIndent
    <2>1. AtStart /\ pendingTokens' = <<>> /\ indentStack' = indentStack
      BY <1>2 DEF EmptyLine, SameIndent, AtStart
    <2>2. Due' /\ ~NewlineDue'
      BY <2>1 DEF Due, NewlineDue
    <2>3. Count(pendingTokens', "INDENT") = 0 /\ Count(pendingTokens', "DEDENT") = 0
      BY <2>1, CountNone
    <2> QED BY <1>1, <2>1, <2>2, <2>3, StartLayout
  <1>3. CASE Indent
    <2> DEFINE w == Width(position, First)
    <2>1. AtStart /\ pendingTokens' = <<AtFirst("INDENT")>> /\ indentStack' = Append(indentStack, w)
      BY <1>3 DEF Indent
    <2>2. AtFirst("INDENT").sym = "INDENT"
      BY DEF AtFirst
    <2>3. Due' /\ ~NewlineDue'
      BY <2>1, <2>2 DEF Due, NewlineDue, DueSyms
    <2>4. Count(pendingTokens', "INDENT") = 1 /\ Count(pendingTokens', "DEDENT") = 0
      <3>1. DOMAIN pendingTokens' = 1 .. 1 /\ pendingTokens'[1].sym = "INDENT"
        BY <2>1, <2>2
      <3>2. Count(pendingTokens', "INDENT") = 1 - 1 + 1
        BY <3>1, CountRun
      <3> QED BY <3>1, <3>2, CountNone
    <2>5. w \in Nat
      BY <1>1, Types, FirstFacts, WidthType
    <2>6. Len(indentStack') = Len(indentStack) + 1 /\ Len(indentStack) \in Nat
      <3> HIDE DEF w
      <3> QED BY <1>1, <2>1, <2>5, Types, AppendProperties
    <2> QED BY <1>1, <2>1, <2>3, <2>4, <2>6, StartLayout
  <1>4. CASE Dedent
    <2> DEFINE w == Width(position, First)
               n == Kept(w)
               b == indentStack[n] # w
    <2>1. /\ AtStart /\ indentStack' = SubSeq(indentStack, 1, n)
          /\ pendingTokens' = [i \in 1 .. Len(indentStack) - n |-> AtFirst("DEDENT")]
                                \o (IF b THEN <<AtFirst("ILLEGAL")>> ELSE <<>>)
      BY <1>4, Zenon DEF Dedent, AtStart
    <2>2. n \in 1 .. Len(indentStack)
      <3>1. w \in Nat
        BY <1>1, Types, FirstFacts, WidthType
      <3> HIDE DEF w
      <3> QED BY <1>1, <3>1, KeptFacts DEF TypeInv
    <2>3. b \in BOOLEAN
      OBVIOUS
    <2> HIDE DEF w, n, b
    <2> PICK m \in Nat : m = Len(indentStack) - n
      <3> PICK l \in Nat : l = Len(indentStack)
        BY <1>1, Types
      <3> PICK k \in 1 .. l : k = n
        BY <1>1, <2>2, Types
      <3>1. l - k \in Nat
        OBVIOUS
      <3> QED BY <3>1
    <2>4. AtFirst("DEDENT").sym = "DEDENT" /\ AtFirst("ILLEGAL").sym = "ILLEGAL"
      BY DEF AtFirst
    <2>5. /\ \A i \in 1 .. m : i \in DOMAIN pendingTokens' /\ pendingTokens'[i] = AtFirst("DEDENT")
          /\ b => Len(pendingTokens') = m + 1 /\ pendingTokens'[m + 1] = AtFirst("ILLEGAL")
          /\ \A i \in DOMAIN pendingTokens' : i \in 1 .. m \/ (b /\ i = m + 1)
      BY <2>1, <2>3, RunThen
    <2>6. \A i \in DOMAIN pendingTokens' :
            /\ pendingTokens'[i].sym \in {"DEDENT", "ILLEGAL"}
            /\ pendingTokens'[i].sym = "DEDENT" => i \in 1 .. m
            /\ pendingTokens'[i].sym = "ILLEGAL" => i = Len(pendingTokens')
      BY <2>4, <2>5
    <2>7. Due'
      BY <2>6 DEF Due, DueSyms
    <2>8. ~NewlineDue'
      <3>1. pendingTokens' \in Seq(TokenSet')
        BY <1>1 DEF TypeInv, TypeOK
      <3>2. pendingTokens' # <<>> => 1 \in DOMAIN pendingTokens'
        BY <3>1, LenProperties, EmptySeq
      <3> QED BY <2>6, <3>2 DEF NewlineDue
    <2>9. Count(pendingTokens', "INDENT") = 0
      BY <2>6, CountNone
    <2>10. Count(pendingTokens', "DEDENT") = m
      <3> PICK s : s = pendingTokens'
        OBVIOUS
      <3>1. /\ \A i \in 1 .. m : i \in DOMAIN s /\ s[i].sym = "DEDENT"
            /\ \A i \in DOMAIN s : s[i].sym = "DEDENT" => i \in 1 .. m
        BY <2>4, <2>5, <2>6
      <3>2. 1 <= m + 1 /\ m - 1 + 1 = m /\ 1 \in Int /\ m \in Int
        OBVIOUS
      <3>3. Count(s, "DEDENT") = m - 1 + 1
        BY ONLY <3>1, <3>2, CountRun, SMTT(60)
      <3> QED BY <3>2, <3>3
    <2>11. Len(indentStack') = n
      BY <1>1, <2>1, <2>2, Types, SubSeqProperties
    <2>12. Len(indentStack) = m + Len(indentStack')
      BY <1>1, <2>2, <2>11, Types
    <2> QED BY <1>1, <2>1, <2>7, <2>8, <2>9, <2>10, <2>11, <2>12, <2>2, Types, StartLayout
  <1> QED BY <1>2, <1>3, <1>4 DEF LineStart

LEMMA EndOfTextLayout ==
  ASSUME LayoutInv, EndOfText
  PROVE  LayoutInv'
  <1>1. /\ TypeInv /\ TypeInv' /\ pendingTokens = <<>> /\ ~eofEmitted /\ ~atLineStart
        /\ string = NoString /\ ch = End
    BY EndsTypes DEF LayoutInv, EndOfText, Within, Ends
  <1>2. Reading /\ (seenTokenOnLine <=> InLine)
    BY <1>1 DEF LayoutInv, Ended, Placed, NewlineDue
  <1>3. /\ eofEmitted' /\ ~seenTokenOnLine' /\ indentStack' = <<0>> /\ tokens' = tokens
        /\ ~atLineStart' /\ ~InString' /\ position' = position /\ file' = file
    BY <1>1 DEF EndOfText, InString
  <1>4. LayoutInPlace' /\ (InLine' <=> InLine) /\ Reading'
    BY <1>2, <1>3, NotReturned DEF LayoutInv
  <1>5. position' >= Behind'
    <2>1. position \notin DOMAIN text
      BY <1>1, Texts, Types DEF ch
    <2>2. position >= Behind
      BY <2>1, <1>1, Texts, Types
    <2> QED BY <1>3, <2>2, SameFile
  <1> PICK m \in Nat : m = Len(indentStack) - 1
    <2> PICK l \in Nat \ {0} : l = Len(indentStack)
      BY <1>1, Types
    <2>1. l - 1 \in Nat
      OBVIOUS
    <2> QED BY <2>1
  <1>6. Token("NEWLINE").sym = "NEWLINE" /\ Token("DEDENT").sym = "DEDENT"
    BY DEF Token
  <1>7. seenTokenOnLine \in BOOLEAN
    BY <1>1 DEF TypeInv, TypeOK
  <1> PICK a \in {0, 1} :
           /\ a = 1 <=> seenTokenOnLine
           /\ \A i \in a + 1 .. a + m : i \in DOMAIN pendingTokens' /\ pendingTokens'[i] = Token("DEDENT")
           /\ seenTokenOnLine => pendingTokens' # <<>> /\ pendingTokens'[1] = Token("NEWLINE")
           /\ \A i \in DOMAIN pendingTokens' : i \in a + 1 .. a + m \/ (seenTokenOnLine /\ i = 1)
    <2>1. pendingTokens' = (IF seenTokenOnLine THEN <<Token("NEWLINE")>> ELSE <<>>)
                             \o [i \in 1 .. m |-> Token("DEDENT")]
      BY DEF EndOfText
    <2> QED BY <1>7, <2>1, ThenRun
  <1>8. \A i \in DOMAIN pendingTokens' :
          /\ pendingTokens'[i].sym \in {"NEWLINE", "DEDENT"}
          /\ pendingTokens'[i].sym = "NEWLINE" => i = 1 /\ seenTokenOnLine
          /\ pendingTokens'[i].sym = "DEDENT" => i \in a + 1 .. a + m
    BY <1>6
  <1>9. Due'
    BY <1>8 DEF Due, DueSyms
  <1>10. NewlineDue' <=> seenTokenOnLine
    <2>1. pendingTokens' \in Seq(TokenSet')
      BY <1>1 DEF TypeInv, TypeOK
    <2>2. pendingTokens' # <<>> => 1 \in DOMAIN pendingTokens'
      BY <2>1, LenProperties, EmptySeq
    <2> QED BY <1>6, <1>8, <2>2 DEF NewlineDue
  <1>11. Ended'
    BY <1>3, <1>4, <1>5 DEF Ended
  <1>12. Placed'
    BY <1>2, <1>3, <1>4, <1>10 DEF Placed
  <1>13. Balanced'
    <2>1. Count(pendingTokens', "INDENT") = 0
      BY <1>8, CountNone
    <2>2. Count(pendingTokens', "DEDENT") = m
      <3> PICK s : s = pendingTokens'
        OBVIOUS
      <3> PICK f \in Int, l \in Int : f = a + 1 /\ l = a + m
        OBVIOUS
      <3>1. /\ \A i \in f .. l : i \in DOMAIN s /\ s[i].sym = "DEDENT"
            /\ \A i \in DOMAIN s : s[i].sym = "DEDENT" => i \in f .. l
        BY <1>6, <1>8
      <3>2. f <= l + 1 /\ l - f + 1 = m
        OBVIOUS
      <3>3. Count(s, "DEDENT") = l - f + 1
        BY ONLY <3>1, <3>2, f \in Int, l \in Int, CountRun
      <3> QED BY <3>2, <3>3
    <2>3. Count(pendingTokens, "INDENT") = 0 /\ Count(pendingTokens, "DEDENT") = 0
      BY <1>1, CountNone
    <2>4. Count(tokens, "INDENT") \in Nat /\ Count(tokens, "DEDENT") \in Nat
      BY <1>1, Types, CountType
    <2>5. Len(indentStack) \in Nat /\ Len(indentStack') = 1
      BY <1>1, <1>3, Types
    <2>6. Count(tokens, "INDENT") = Count(tokens, "DEDENT") + Len(indentStack) - 1
      BY <2>3, <2>4, <2>5 DEF LayoutInv, Balanced
    <2>7. Count(tokens, "INDENT") + Count(pendingTokens', "INDENT")
            = Count(tokens, "DEDENT") + Count(pendingTokens', "DEDENT") + Len(indentStack') - 1
      BY <2>1, <2>2, <2>4, <2>5, <2>6
    <2> QED BY <1>3, <2>7 DEF Balanced, Count
  <1> QED BY <1>1, <1>4, <1>9, <1>11, <1>12, <1>13 DEF LayoutInv

LEMMA EndsLayout ==
  ASSUME LayoutInv, Ends
  PROVE  LayoutInv'
  <1>1. TypeInv /\ TypeInv' /\ LayoutInPlace
    BY EndsTypes DEF LayoutInv
  <1>2. {"NEWLINE", "EOF"} \subseteq Marks
    BY Elementary DEF DueSyms
  <1>3. Token("NEWLINE") \in TokenSet /\ Token("EOF") \in TokenSet
        /\ Token("NEWLINE").sym = "NEWLINE" /\ Token("EOF").sym = "EOF"
    BY <1>1, <1>2, TokenType DEF Token
  <1>4. ASSUME tokens' = tokens \/ \E sym \in {"NEWLINE", "EOF"} : tokens' = Append(tokens, Token(sym)),
               pendingTokens' = pendingTokens, indentStack' = indentStack
        PROVE  Balanced'
    <2>1. /\ Count(tokens', "INDENT") = Count(tokens, "INDENT")
          /\ Count(tokens', "DEDENT") = Count(tokens, "DEDENT")
      <3>1. tokens \in Seq(TokenSet) /\ Count(tokens, "INDENT") \in Nat /\ Count(tokens, "DEDENT") \in Nat
        BY <1>1, Types, CountType
      <3>2. ASSUME NEW tok \in TokenSet, tok.sym \in {"NEWLINE", "EOF"}
            PROVE  /\ Count(Append(tokens, tok), "INDENT") = Count(tokens, "INDENT")
                   /\ Count(Append(tokens, tok), "DEDENT") = Count(tokens, "DEDENT")
        BY <3>1, <3>2, CountAppend
      <3>3. CASE tokens' = tokens
        BY <3>3
      <3>4. CASE \E sym \in {"NEWLINE", "EOF"} : tokens' = Append(tokens, Token(sym))
        <4> PICK tok \in TokenSet : tok.sym \in {"NEWLINE", "EOF"} /\ tokens' = Append(tokens, tok)
          BY <1>3, <3>4
        <4> QED BY <3>2
      <3> QED BY <1>4, <3>3, <3>4
    <2> QED BY <1>4, <2>1 DEF LayoutInv, Balanced, Count
  <1>5. CASE Eof
    <2>1. /\ pendingTokens' = <<>> /\ eofEmitted' /\ tokens' = Append(tokens, Token("EOF"))
          /\ indentStack' = indentStack /\ pendingTokens' = pendingTokens
          /\ eofEmitted' = eofEmitted /\ seenTokenOnLine' = seenTokenOnLine
          /\ ~atLineStart' /\ ~InString' /\ position' = position /\ file' = file
      BY <1>5 DEF Eof, Within, layout, InString
    <2>2. LayoutInPlace' /\ InLine' /\ ~Reading'
      BY <1>1, <1>3, <2>1, Returned DEF LayoutSyms
    <2>3. Due'
      BY <2>1 DEF Due
    <2>4. Ended'
      <3>1. position' >= Behind' /\ indentStack' = <<0>>
        BY <2>1, SameFile DEF LayoutInv, Ended
      <3> QED BY <2>1, <3>1 DEF Ended
    <2>5. Placed'
      BY <2>1, <2>2 DEF Placed, NewlineDue
    <2> QED BY <1>1, <1>4, <2>1, <2>2, <2>3, <2>4, <2>5 DEF LayoutInv
  <1>6. CASE NewLine
    <2>1. ch # End
      <3>1. ch \in {"nl", "cr"}
        BY <1>6 DEF NewLine
      <3> QED BY <3>1, Elementary
    <2>2. /\ pendingTokens = <<>> /\ pendingTokens' = pendingTokens /\ indentStack' = indentStack
          /\ eofEmitted' = eofEmitted /\ atLineStart' /\ ~seenTokenOnLine' /\ ~InString'
          /\ tokens' = IF seenTokenOnLine THEN Append(tokens, Token("NEWLINE")) ELSE tokens
      BY <1>6 DEF NewLine, Within, layout, InString
    <2>3. ~eofEmitted /\ Reading
      BY <2>1, NotEnded
    <2>4. seenTokenOnLine <=> InLine
      BY <2>2, <2>3 DEF LayoutInv, Placed, NewlineDue
    <2>5. LayoutInPlace' /\ ~InLine' /\ Reading'
      <3>1. CASE seenTokenOnLine
        BY <1>1, <1>3, <2>2, <2>4, <3>1, Returned DEF LayoutSyms
      <3>2. CASE ~seenTokenOnLine
        BY <1>1, <2>2, <2>3, <2>4, <3>2, NotReturned
      <3> QED BY <3>1, <3>2
    <2>6. Due'
      BY <2>2 DEF Due
    <2>7. Ended'
      BY <2>2, <2>3, <2>5 DEF Ended
    <2>8. Placed'
      BY <2>2, <2>5 DEF Placed, NewlineDue
    <2> QED BY <1>1, <1>4, <2>2, <2>5, <2>6, <2>7, <2>8 DEF LayoutInv
  <1> QED BY <1>5, <1>6, EndOfTextLayout DEF Ends

LEMMA LayoutInit == Init => LayoutInv
  <1> SUFFICES ASSUME Init PROVE LayoutInv
    OBVIOUS
  <1>1. /\ tokens = <<>> /\ pendingTokens = <<>> /\ indentStack = <<0>>
        /\ ~eofEmitted /\ ~seenTokenOnLine /\ ~InString
    BY DEF Init, InString
  <1>2. LayoutInPlace /\ ~InLine /\ Reading /\ Due
    BY <1>1 DEF LayoutInPlace, InLine, Reading, Due
  <1>3. Ended /\ Placed
    BY <1>1, <1>2 DEF Ended, Placed, NewlineDue
  <1>4. Balanced
    <2>1. Count(<<>>, "INDENT") = 0 /\ Count(<<>>, "DEDENT") = 0
      BY CountNone
    <2> QED BY <1>1, <2>1 DEF Balanced
  <1> QED BY <1>2, <1>3, <1>4, TypeInit DEF LayoutInv

LEMMA LayoutStep == LayoutInv /\ [Next]_vars => LayoutInv'
  <1> SUFFICES ASSUME LayoutInv, [Next]_vars PROVE LayoutInv'
    OBVIOUS
  <1>1. CASE UNCHANGED vars
    <2>1. TypeInv'
      BY <1>1, TypeStep DEF LayoutInv
    <2>2. LayoutInPlace' /\ (InLine' <=> InLine) /\ (Reading' <=> Reading)
      BY <1>1, NotReturned DEF LayoutInv, vars
    <2>3. Behind' = Behind
      BY <1>1, SameFile DEF vars
    <2>4. Due' /\ Ended' /\ Placed' /\ Balanced'
      BY <1>1, <2>2, <2>3
         DEF LayoutInv, vars, Due, Ended, Placed, NewlineDue, InString, Balanced, Count
    <2> QED BY <2>1, <2>2, <2>4 DEF LayoutInv
  <1> QED BY <1>1, EmitLayout, LineStartLayout, SkipLayout, EndsLayout, SymbolLayout, QuotesLayout DEF Next

LEMMA LaidOut == Spec => []LayoutInv
  BY LayoutInit, LayoutStep, PTL DEF Spec

(* In any text whatever, indents and dedents are balanced and nested, all  *)
(* of them undone when EOF is returned; NEWLINE ends a line that has a     *)
(* token, and indentation changes between lines only.                      *)
THEOREM LayoutIsSound == Spec => []Layout
  <1>1. ASSUME LayoutInv PROVE Layout
    <2>1. ASSUME ~Reading PROVE Count(tokens, "INDENT") = Count(tokens, "DEDENT")
      <3>1. pendingTokens = <<>> /\ indentStack = <<0>>
        BY <1>1, <2>1 DEF LayoutInv, Ended
      <3>2. Count(pendingTokens, "INDENT") = 0 /\ Count(pendingTokens, "DEDENT") = 0
        BY <3>1, CountNone
      <3>3. Count(tokens, "INDENT") \in Nat /\ Count(tokens, "DEDENT") \in Nat
        BY <1>1, Types, CountType DEF LayoutInv
      <3>4. Len(indentStack) = 1
        BY <3>1
      <3> QED BY <1>1, <3>2, <3>3, <3>4 DEF LayoutInv, Balanced
    <2>2. LayoutBalanced
      BY <1>1, <2>1 DEF LayoutInv, Balanced, TypeInv, Nested, LayoutBalanced
    <2> QED BY <1>1, <2>2 DEF LayoutInv, Layout
  <1> QED BY <1>1, LaidOut, PTL

-------------------------------------------------------------------------------
(* What is read.  Reading leaves the text in a string only; what is due    *)
(* then is what the end of the text stands for.                            *)
FromText == \A i \in DOMAIN tokens : tokens[i].sym \notin Marks => tokens[i].sym = At(tokens[i].at)

EndSyms == {"NEWLINE", "DEDENT", "EOF"}

Left ==
  position > Behind =>
    /\ InString \/ BrokenOff
    /\ \A i \in DOMAIN pendingTokens : pendingTokens[i].sym \in EndSyms

ReadInv == LayoutInv /\ FromText /\ Left

(* A token more, that is a mark or written at its place.                   *)
LEMMA FromTextNext ==
  ASSUME TypeInv, FromText, file' = file, NEW tok,
         tokens' = Append(tokens, tok), tok \in TokenSet,
         tok.sym \in Marks \/ tok.sym = At(tok.at)
  PROVE  FromText'
  <1>1. /\ Len(tokens) \in Nat /\ DOMAIN tokens = 1 .. Len(tokens)
        /\ DOMAIN tokens' = 1 .. Len(tokens) + 1
        /\ \A i \in 1 .. Len(tokens) : tokens'[i] = tokens[i]
        /\ tokens'[Len(tokens) + 1] = tok
    BY Types, LenProperties, AppendProperties
  <1>2. \A i : At(i)' = At(i)
    BY SameFile
  <1> QED BY <1>1, <1>2 DEF FromText

LEMMA FromTextSame ==
  ASSUME FromText, file' = file, tokens' = tokens
  PROVE  FromText'
  BY SameFile DEF FromText

LEMMA BrokenOffThen ==
  ASSUME file' = file, NEW i \in DOMAIN tokens',
         tokens'[i].sym = "ILLEGAL", At(tokens'[i].at) = "'",
         \A j \in i + 1 .. Len(tokens') : tokens'[j].sym \in EndSyms
  PROVE  BrokenOff'
  BY DEF BrokenOff, EndSyms, At, text

(* A string that is broken off stays the last error.                       *)
LEMMA BrokenOffNext ==
  ASSUME TypeInv, BrokenOff, file' = file, NEW tok \in TokenSet, tok.sym \in EndSyms,
         tokens' = Append(tokens, tok)
  PROVE  BrokenOff'
  <1> PICK n \in Nat : n = Len(tokens)
    BY Types, LenProperties
  <1>1. /\ DOMAIN tokens = 1 .. n /\ DOMAIN tokens' = 1 .. n + 1 /\ Len(tokens') = n + 1
        /\ \A i \in 1 .. n : tokens'[i] = tokens[i]
        /\ tokens'[n + 1] = tok
    BY Types, LenProperties, AppendProperties
  <1>2. PICK i \in 1 .. n :
          /\ tokens[i].sym = "ILLEGAL" /\ At(tokens[i].at) = "'"
          /\ \A j \in i + 1 .. n : tokens[j].sym \in EndSyms
    BY <1>1 DEF BrokenOff, EndSyms
  <1>3. \A j \in i + 1 .. n + 1 : tokens'[j].sym \in EndSyms
    <2> SUFFICES ASSUME NEW j \in i + 1 .. n + 1 PROVE tokens'[j].sym \in EndSyms
      OBVIOUS
    <2>1. CASE j = n + 1
      BY <1>1, <2>1
    <2>2. CASE j # n + 1
      <3>1. j \in i + 1 .. n /\ j \in 1 .. n
        BY <2>2
      <3> QED BY <1>1, <1>2, <3>1
    <2> QED BY <2>1, <2>2
  <1>4. tokens'[i].sym = "ILLEGAL" /\ At(tokens'[i].at) = "'" /\ i \in 1 .. n + 1
    BY <1>1, <1>2
  <1> QED BY <1>1, <1>3, <1>4, BrokenOffThen

LEMMA EmitRead ==
  ASSUME ReadInv, EmitPending
  PROVE  FromText' /\ Left'
  <1> DEFINE tok == Head(pendingTokens)
  <1>1. /\ TypeInv /\ pendingTokens # <<>> /\ file' = file /\ position' = position
        /\ string' = string /\ tokens' = Append(tokens, tok)
        /\ pendingTokens' = Tail(pendingTokens)
    BY DEF ReadInv, LayoutInv, EmitPending
  <1>2. /\ tok \in TokenSet /\ 1 \in DOMAIN pendingTokens /\ tok = pendingTokens[1]
        /\ \A i \in DOMAIN pendingTokens' :
             i + 1 \in DOMAIN pendingTokens /\ pendingTokens'[i] = pendingTokens[i + 1]
    <2> PICK s \in Seq(TokenSet) : s = pendingTokens
      BY <1>1, Types
    <2>1. Len(s) \in Nat \ {0} /\ DOMAIN s = 1 .. Len(s) /\ s[1] \in TokenSet
      BY <1>1, LenProperties, EmptySeq, ElementOfSeq
    <2>2. /\ Head(s) = s[1]
          /\ Tail(s) \in Seq(TokenSet) /\ Len(Tail(s)) = Len(s) - 1
          /\ \A i \in 1 .. Len(Tail(s)) : Tail(s)[i] = s[i + 1]
      BY <1>1, HeadTailProperties
    <2>3. DOMAIN Tail(s) = 1 .. Len(s) - 1
      BY <2>2, LenProperties
    <2> QED BY <1>1, <2>1, <2>2, <2>3
  <1> HIDE DEF tok
  <1>3. tok.sym \in Marks
    BY <1>2, Elementary DEF ReadInv, LayoutInv, Due
  <1>4. FromText'
    BY <1>1, <1>2, <1>3, FromTextNext DEF ReadInv
  <1>5. ASSUME position > Behind
        PROVE  BrokenOff' /\ \A i \in DOMAIN pendingTokens' : pendingTokens'[i].sym \in EndSyms
    <2>1. ~InString
      BY <1>1 DEF ReadInv, LayoutInv, Placed
    <2>2. BrokenOff /\ \A i \in DOMAIN pendingTokens : pendingTokens[i].sym \in EndSyms
      BY <1>5, <2>1 DEF ReadInv, Left
    <2> QED BY <1>1, <1>2, <2>2, BrokenOffNext
  <1>6. Behind' = Behind
    BY <1>1, SameFile
  <1> QED BY <1>1, <1>4, <1>5, <1>6 DEF Left

(* What stays in the text.                                                 *)
LEMMA Stays ==
  ASSUME TypeInv, file' = file, position' \in 1 .. Behind
  PROVE  Left'
  <1>1. Behind' = Behind /\ ~(position' > Behind)
    BY SameFile, Types
  <1> QED BY <1>1 DEF Left

LEMMA LineStartRead ==
  ASSUME ReadInv, LineStart
  PROVE  FromText' /\ Left'
  <1>1. TypeInv /\ file' = file /\ tokens' = tokens /\ position' = First /\ atLineStart
    BY DEF ReadInv, LayoutInv, LineStart, EmptyLine, SameIndent, Indent, Dedent, AtStart
  <1>2. position' \in 1 .. Behind
    BY <1>1, Types, FirstFacts
  <1> QED BY <1>1, <1>2, FromTextSame, Stays DEF ReadInv

LEMMA SkipRead ==
  ASSUME ReadInv, Skip
  PROVE  FromText' /\ Left'
  <1>1. TypeInv /\ file' = file /\ tokens' = tokens
    BY DEF ReadInv, LayoutInv, Skip, SkipWhitespace, Continuation, SkipComment
  <1>2. ch # End
    BY BlankFacts, Elementary DEF Skip, SkipWhitespace, Continuation, IsContinuation, SkipComment
  <1>3. position \in 1 .. Behind
    BY <1>1, <1>2, OneOn
  <1>4. CASE SkipWhitespace
    <2>1. position' \in 1 .. Behind
      BY <1>1, <1>3, <1>4, EndOfFacts, BlankFacts, Types DEF SkipWhitespace
    <2> QED BY <1>1, <2>1, FromTextSame, Stays DEF ReadInv
  <1>5. CASE Continuation
    <2>1. At(position + 1) \in {"nl", "cr"} /\ position' = AfterBreak(position + 1)
      BY <1>5 DEF Continuation, IsContinuation
    <2>2. position' \in 1 .. Behind
      BY <1>1, <2>1, BreakEnds, Types
    <2> QED BY <1>1, <2>2, FromTextSame, Stays DEF ReadInv
  <1>6. CASE SkipComment
    <2>1. End \notin Elements \ {"nl", "cr"}
      BY Elementary
    <2>2. position' \in 1 .. Behind
      BY <1>1, <1>3, <1>6, <2>1, EndOfFacts, Types DEF SkipComment
    <2> QED BY <1>1, <2>2, FromTextSame, Stays DEF ReadInv
  <1> QED BY <1>4, <1>5, <1>6 DEF Skip

LEMMA EndsRead ==
  ASSUME ReadInv, Ends
  PROVE  FromText' /\ Left'
  <1>1. TypeInv /\ file' = file /\ ~InString
    BY DEF ReadInv, LayoutInv, Ends, EndOfText, Eof, NewLine, Within, InString
  <1>2. Behind' = Behind
    BY <1>1, SameFile
  <1>3. \A sym \in EndSyms : Token(sym) \in TokenSet /\ Token(sym).sym = sym /\ sym \in Marks
    <2>1. EndSyms \subseteq Marks
      BY Elementary DEF EndSyms, DueSyms
    <2> QED BY <1>1, <2>1, TokenType DEF Token
  <1>4. CASE EndOfText
    <2>1. tokens' = tokens /\ position' = position
      BY <1>4 DEF EndOfText
    <2>2. \A i \in DOMAIN pendingTokens' : pendingTokens'[i].sym \in EndSyms
      <3> DEFINE D == [i \in 1 .. Len(indentStack) - 1 |-> Token("DEDENT")]
                 X == IF seenTokenOnLine THEN <<Token("NEWLINE")>> ELSE <<>>
                 E == {Token("DEDENT"), Token("NEWLINE")}
      <3>1. pendingTokens' = X \o D
        BY <1>4, Zenon DEF EndOfText
      <3>2. D \in Seq(E)
        <4> PICK m \in Nat : m = Len(indentStack) - 1
          <5> PICK l \in Nat \ {0} : l = Len(indentStack)
            BY <1>1, Types
          <5>1. l - 1 \in Nat
            OBVIOUS
          <5> QED BY <5>1
        <4> HIDE DEF E
        <4>1. Token("DEDENT") \in E
          BY DEF E
        <4>2. [i \in 1 .. m |-> Token("DEDENT")] \in Seq(E)
          BY <4>1
        <4> QED BY <4>2
      <3>3. X \in Seq(E)
        <4>1. <<Token("NEWLINE")>> \in Seq(E) /\ <<>> \in Seq(E)
          OBVIOUS
        <4> QED BY <4>1, Zenon
      <3>4. \A tok \in E : tok.sym \in EndSyms
        BY <1>3 DEF EndSyms
      <3> HIDE DEF D, X, E
      <3>5. pendingTokens' \in Seq(E)
        BY <3>1, <3>2, <3>3, ConcatProperties
      <3>6. \A i \in DOMAIN pendingTokens' : pendingTokens'[i] \in E
        BY <3>5, LenProperties, ElementOfSeq
      <3> QED BY <3>4, <3>6
    <2>3. BrokenOff' <=> BrokenOff
      BY <1>1, <2>1, SameFile DEF BrokenOff
    <2> QED BY <1>1, <1>2, <2>1, <2>2, <2>3, FromTextSame DEF ReadInv, Left
  <1>5. CASE Eof
    <2>1. /\ tokens' = Append(tokens, Token("EOF")) /\ position' = position
          /\ pendingTokens' = pendingTokens
      BY <1>5 DEF Eof, layout
    <2>2. "EOF" \in EndSyms
      BY DEF EndSyms
    <2>3. BrokenOff => BrokenOff'
      BY <1>1, <1>3, <2>1, <2>2, BrokenOffNext
    <2>4. FromText'
      BY <1>1, <1>3, <2>1, <2>2, FromTextNext DEF ReadInv
    <2> QED BY <1>1, <1>2, <2>1, <2>3, <2>4 DEF ReadInv, Left
  <1>6. CASE NewLine
    <2>1. At(position) \in {"nl", "cr"} /\ position' = AfterBreak(position)
      BY <1>6 DEF NewLine, ch
    <2>2. position' \in 1 .. Behind
      BY <1>1, <2>1, BreakEnds, Types
    <2>3. tokens' = tokens \/ tokens' = Append(tokens, Token("NEWLINE"))
      BY <1>6 DEF NewLine
    <2>4. "NEWLINE" \in EndSyms
      BY DEF EndSyms
    <2>5. FromText'
      BY <1>1, <1>3, <2>3, <2>4, FromTextNext, FromTextSame DEF ReadInv
    <2> QED BY <1>1, <2>2, <2>5, Stays
  <1> QED BY <1>4, <1>5, <1>6 DEF Ends

(* A token made of what stands at the position.                            *)
LEMMA ReturnRead ==
  ASSUME TypeInv, FromText, NEW sym, NEW next \in 1 .. Behind, Return(sym, next),
         sym \in Marks \/ (sym \in Plain /\ sym = ch)
  PROVE  FromText' /\ Left'
  <1>1. file' = file /\ tokens' = Append(tokens, Token(sym)) /\ position' = next
    BY DEF Return
  <1>2. Token(sym) \in TokenSet
    BY TokenType
  <1>3. Token(sym).sym = sym /\ Token(sym).at = position
    BY DEF Token
  <1> QED BY <1>1, <1>2, <1>3, FromTextNext, Stays DEF ch

LEMMA SymbolRead ==
  ASSUME ReadInv, Symbol
  PROVE  FromText' /\ Left'
  <1>1. TypeInv /\ FromText
    BY DEF ReadInv, LayoutInv
  <1>2. CASE TwoWords
    <2>1. Pair \in Marks /\ ch # End /\ At(NextWord) # End /\ Return(Pair, NextWord + 1)
      BY <1>2, PairFacts, WordIsPlain, Elementary DEF TwoWords
    <2>2. NextWord + 1 \in 1 .. Behind
      BY <1>1, <2>1, Inside, Types
    <2> QED BY <1>1, <2>1, <2>2, ReturnRead
  <1>3. CASE Illegal
    <2>1. ch # End /\ "ILLEGAL" \in Marks
      <3>1. ch \in {"?", "\\"}
        BY <1>3 DEF Illegal
      <3> QED BY <3>1, Elementary DEF DueSyms, Elements
    <2> QED BY <1>1, <1>3, <2>1, OneOn, ReturnRead DEF Illegal
  <1>4. CASE Word \/ NumberOrOperator \/ OpenBracket \/ CloseBracket
    <2>1. ch \in Plain /\ ch # End /\ Return(ch, position + 1)
      BY <1>4, WordIsPlain, Elementary DEF Word, NumberOrOperator, OpenBracket, CloseBracket
    <2> QED BY <1>1, <2>1, OneOn, ReturnRead
  <1> QED BY <1>2, <1>3, <1>4 DEF Symbol

LEMMA QuotesRead ==
  ASSUME ReadInv, InQuotes
  PROVE  FromText' /\ Left'
  <1>1. TypeInv /\ FromText /\ "'" # End
    BY Elementary DEF ReadInv, LayoutInv
  <1>2. file' = file /\ pendingTokens' = pendingTokens
    BY DEF InQuotes, BeginString, EndString, BreakString, InsideString, ReturnString, layout
  <1>3. Behind' = Behind
    BY <1>2, SameFile
  <1>4. CASE BeginString
    <2>1. ch = "'" /\ tokens' = tokens
          /\ position' = position + (IF Tripled(position) THEN 3 ELSE 1)
      BY <1>4 DEF BeginString
    <2>2. position' \in 1 .. Behind
      BY <1>1, <2>1, OneOn, ThreeOn, Types
    <2> QED BY <1>1, <1>2, <2>1, <2>2, FromTextSame, Stays
  <1>5. ASSUME NEW sym \in Marks, NEW next, ReturnString(sym, next)
        PROVE  FromText'
    <2> DEFINE tok == [sym |-> sym, at |-> string.at, line |-> string.line]
    <2>1. tok \in TokenSet /\ tok.sym = sym /\ tokens' = Append(tokens, tok)
      BY <1>1, <1>5, StringTypes, TokenTypes DEF ReturnString
    <2> HIDE DEF tok
    <2> QED BY <1>1, <1>2, <2>1, FromTextNext
  <1>6. "STRING" \in Marks /\ "ILLEGAL" \in Marks
    BY Elementary DEF DueSyms
  <1>7. CASE EndString
    <2> DEFINE n == IF string.triple THEN 3 ELSE 1
    <2>1. ReturnString("STRING", position + n) /\ position' = position + n
      BY <1>7 DEF EndString, ReturnString
    <2>2. position' \in 1 .. Behind
      <3>1. CASE string.triple
        BY <1>1, <1>7, <2>1, <3>1, ThreeOn, Types DEF EndString, EndsHere
      <3>2. CASE ~string.triple
        BY <1>1, <1>7, <2>1, <3>2, OneOn, Types DEF EndString, EndsHere
      <3> QED BY <3>1, <3>2
    <2> QED BY <1>1, <1>2, <1>5, <1>6, <2>1, <2>2, Stays
  <1>8. CASE BreakString
    <2> DEFINE tok == [sym |-> "ILLEGAL", at |-> string.at, line |-> string.line]
    <2>1. ReturnString("ILLEGAL", position) /\ InString /\ tokens' = Append(tokens, tok)
      BY <1>8 DEF BreakString, ReturnString
    <2>2. tok.sym = "ILLEGAL" /\ tok.at = string.at /\ tok \in TokenSet
      BY <1>1, <1>6, <2>1, StringTypes, TokenTypes
    <2> HIDE DEF tok
    <2>3. At(tok.at) = "'"
      <3>1. string.at \in DOMAIN text /\ text[string.at] = "'"
        BY <1>1, <2>1, StringTypes
      <3> QED BY <1>1, <2>2, <3>1, Texts, Types
    <2>4. BrokenOff'
      <3> PICK n \in Nat : n = Len(tokens)
        BY <1>1, Types, LenProperties
      <3>1. DOMAIN tokens' = 1 .. n + 1 /\ Len(tokens') = n + 1 /\ tokens'[n + 1] = tok
        BY <1>1, <2>1, <2>2, Types, LenProperties, AppendProperties
      <3>2. n + 1 \in DOMAIN tokens' /\ \A j \in (n + 1) + 1 .. Len(tokens') : FALSE
        BY <3>1
      <3>3. tokens'[n + 1].sym = "ILLEGAL" /\ At(tokens'[n + 1].at) = "'"
        BY <2>2, <2>3, <3>1
      <3> QED BY <1>2, <3>2, <3>3, BrokenOffThen
    <2>5. pendingTokens' = <<>>
      BY <1>2, <2>1 DEF ReadInv, LayoutInv, Placed
    <2> QED BY <1>5, <1>6, <2>1, <2>4, <2>5 DEF Left
  <1>9. CASE InsideString
    <2>1. InString' /\ tokens' = tokens
      BY <1>9 DEF InsideString, InString, NoString
    <2>2. pendingTokens' = <<>>
      BY <1>2, <1>9 DEF InsideString, ReadInv, LayoutInv, Placed
    <2> QED BY <1>1, <1>2, <2>1, <2>2, FromTextSame DEF Left
  <1> QED BY <1>4, <1>7, <1>8, <1>9 DEF InQuotes

(* Whatever the text, a word, number, operator or bracket that is returned *)
(* stands at the token's place; and only a string leads reading out of the *)
(* text, after which the string is an error and nothing is made of what    *)
(* would be there.                                                         *)
THEOREM ReadsTheText == Spec => []ReadFromText
  <1>1. Init => ReadInv
    <2> SUFFICES ASSUME Init PROVE ReadInv
      OBVIOUS
    <2>1. tokens = <<>> /\ position = 1 /\ Behind \in Nat \ {0}
      BY TypeInit, Types DEF Init
    <2> QED BY <2>1, LayoutInit DEF ReadInv, FromText, Left
  <1>2. ReadInv /\ [Next]_vars => ReadInv'
    <2> SUFFICES ASSUME ReadInv, [Next]_vars PROVE ReadInv'
      OBVIOUS
    <2>1. LayoutInv'
      BY LayoutStep DEF ReadInv
    <2>2. CASE UNCHANGED vars
      <3>1. file' = file /\ tokens' = tokens /\ position' = position
            /\ string' = string /\ pendingTokens' = pendingTokens
        BY <2>2 DEF vars
      <3>2. Behind' = Behind /\ FromText' /\ (BrokenOff' <=> BrokenOff)
        BY <3>1, SameFile, FromTextSame DEF ReadInv, BrokenOff
      <3> QED BY <2>1, <3>1, <3>2 DEF ReadInv, Left, InString
    <2> QED BY <2>1, <2>2, EmitRead, LineStartRead, SkipRead, EndsRead, SymbolRead, QuotesRead
            DEF Next, ReadInv
  <1>3. ReadInv => ReadFromText
    BY DEF ReadInv, LayoutInv, TypeInv, FromText, Left, ReadFromText
  <1> QED BY <1>1, <1>2, <1>3, PTL DEF Spec

-------------------------------------------------------------------------------
(* Lines.                                                                  *)
LEMMA CountedNext ==
  ASSUME file' = file, line' = LineOf(position'),
         InItsLine(tokens'), InItsLine(pendingTokens'),
         string' # NoString => string'.line = LineOf(string'.at)
  PROVE  Counted'
  BY DEF Counted, InItsLine, LineOf, Breaks, IsBreak, At, text, InString, NoString

LEMMA BreaksSplit ==
  ASSUME NEW i \in Int, NEW j \in Int, NEW k \in Int, i <= j, j <= k
  PROVE  Breaks(i, k) = Breaks(i, j) + Breaks(j, k)
  <1> DEFINE A == {n \in i .. j - 1 : IsBreak(n)}
             B == {n \in j .. k - 1 : IsBreak(n)}
  <1>1. IsFiniteSet(A) /\ IsFiniteSet(B)
    BY BreaksType
  <1>2. A \cap B = {} /\ {n \in i .. k - 1 : IsBreak(n)} = A \cup B
    OBVIOUS
  <1>3. Cardinality(A \cup B) = Cardinality(A) + Cardinality(B) - Cardinality(A \cap B)
    <2> HIDE DEF A, B
    <2> QED BY <1>1, FS_Union
  <1>4. Cardinality(A) \in Nat /\ Cardinality(B) \in Nat
    BY <1>1, FS_CardinalityType
  <1>5. Cardinality(A \cap B) = 0
    BY <1>2, FS_EmptySet
  <1>6. /\ Breaks(i, j) = Cardinality(A) /\ Breaks(j, k) = Cardinality(B)
        /\ Breaks(i, k) = Cardinality(A \cup B)
    BY <1>2 DEF Breaks
  <1> HIDE DEF A, B
  <1> QED BY <1>3, <1>4, <1>5, <1>6

LEMMA NoBreaks ==
  ASSUME NEW i \in Int, NEW j \in Int, \A k \in i .. j - 1 : ~IsBreak(k)
  PROVE  Breaks(i, j) = 0
  <1>1. {k \in i .. j - 1 : IsBreak(k)} = {}
    OBVIOUS
  <1> QED BY <1>1, FS_EmptySet DEF Breaks

LEMMA OneBreak ==
  ASSUME NEW i \in Int
  PROVE  Breaks(i, i + 1) = IF IsBreak(i) THEN 1 ELSE 0
  <1>1. {k \in i .. (i + 1) - 1 : IsBreak(k)} = IF IsBreak(i) THEN {i} ELSE {}
    OBVIOUS
  <1> QED BY <1>1, FS_EmptySet, FS_Singleton DEF Breaks

(* The line changes by the breaks that are passed.                         *)
LEMMA LinesOn ==
  ASSUME NEW i \in Nat \ {0}, NEW j \in Nat, i <= j
  PROVE  LineOf(j) = LineOf(i) + Breaks(i, j)
  <1>1. Breaks(1, j) = Breaks(1, i) + Breaks(i, j)
    BY BreaksSplit
  <1>2. Breaks(1, i) \in Nat /\ Breaks(i, j) \in Nat
    <2>1. 1 \in Int /\ i \in Int /\ j \in Int
      OBVIOUS
    <2> QED BY <2>1, BreaksType, Zenon
  <1> QED BY <1>1, <1>2 DEF LineOf

LEMMA SameLine ==
  ASSUME NEW i \in Nat \ {0}, NEW j \in Nat, i <= j,
         \A k \in i .. j - 1 : At(k) \notin {"nl", "cr"}
  PROVE  LineOf(j) = LineOf(i)
  <1>1. Breaks(i, j) = 0
    BY NoBreaks DEF IsBreak
  <1>2. Breaks(1, i) \in Nat
    <2>1. 1 \in Int /\ i \in Int
      OBVIOUS
    <2> QED BY <2>1, BreaksType, Zenon
  <1> QED BY <1>1, <1>2, LinesOn DEF LineOf

LEMMA NextLine ==
  ASSUME file \in Files, NEW i, At(i) \in {"nl", "cr"}
  PROVE  LineOf(AfterBreak(i)) = LineOf(i) + 1 /\ i <= AfterBreak(i)
  <1>1. /\ i + 1 \in 1 .. Behind /\ i \in Nat \ {0} /\ Behind \in Nat
        /\ i + 1 \in Nat \ {0} /\ i + 2 \in Nat \ {0}
    <2>1. At(i) # End
      BY Elementary
    <2> QED BY <2>1, Inside, Texts
  <1>2. CASE At(i) = "cr" /\ At(i + 1) = "nl"
    <2>1. i + 2 \in 1 .. Behind
      <3>1. At(i + 1) # End
        BY <1>2, Elementary
      <3> QED BY <1>1, <3>1, Inside
    <2>2. AfterBreak(i) = i + 2
      BY <1>2 DEF AfterBreak
    <2>3. Breaks(i, i + 1) = 0
      BY <1>1, <1>2, OneBreak DEF IsBreak
    <2>4. Breaks(i + 1, i + 2) = 1
      <3>1. (i + 1) + 1 = i + 2 /\ IsBreak(i + 1)
        BY <1>1, <1>2 DEF IsBreak
      <3>2. Breaks(i + 1, (i + 1) + 1) = 1
        BY <1>1, <3>1, OneBreak
      <3> QED BY <3>1, <3>2
    <2>5. Breaks(i, i + 2) = Breaks(i, i + 1) + Breaks(i + 1, i + 2)
      BY <1>1, BreaksSplit
    <2>6. LineOf(i + 2) = LineOf(i) + Breaks(i, i + 2)
      BY <1>1, LinesOn
    <2> QED BY <1>1, <2>2, <2>3, <2>4, <2>5, <2>6
  <1>3. CASE ~(At(i) = "cr" /\ At(i + 1) = "nl")
    <2>1. AfterBreak(i) = i + 1
      BY <1>3 DEF AfterBreak
    <2>2. Breaks(i, i + 1) = 1
      BY <1>1, <1>3, OneBreak DEF IsBreak
    <2>3. LineOf(i + 1) = LineOf(i) + Breaks(i, i + 1)
      BY <1>1, LinesOn
    <2> QED BY <1>1, <2>1, <2>2, <2>3
  <1> QED BY <1>2, <1>3

(* Tokens that have the line of their position.                            *)
LEMMA ItsLineAppend ==
  ASSUME NEW s \in Seq(TokenSet), NEW tok \in TokenSet,
         InItsLine(s), tok.line = LineOf(tok.at)
  PROVE  InItsLine(Append(s, tok))
  <1>1. /\ Len(s) \in Nat /\ DOMAIN s = 1 .. Len(s) /\ DOMAIN Append(s, tok) = 1 .. Len(s) + 1
        /\ \A i \in 1 .. Len(s) : Append(s, tok)[i] = s[i]
        /\ Append(s, tok)[Len(s) + 1] = tok
    BY LenProperties, AppendProperties
  <1> QED BY <1>1 DEF InItsLine

LEMMA ItsLineTail ==
  ASSUME NEW s \in Seq(TokenSet), s # <<>>, InItsLine(s)
  PROVE  InItsLine(Tail(s)) /\ Head(s).line = LineOf(Head(s).at)
  <1>1. /\ Len(s) \in Nat \ {0} /\ DOMAIN s = 1 .. Len(s)
        /\ DOMAIN Tail(s) = 1 .. Len(s) - 1 /\ Head(s) = s[1]
        /\ \A i \in 1 .. Len(s) - 1 : Tail(s)[i] = s[i + 1]
    <2>1. Len(s) \in Nat \ {0} /\ DOMAIN s = 1 .. Len(s)
      BY LenProperties, EmptySeq
    <2>2. /\ Tail(s) \in Seq(TokenSet) /\ Len(Tail(s)) = Len(s) - 1
          /\ \A i \in 1 .. Len(Tail(s)) : Tail(s)[i] = s[i + 1]
      BY HeadTailProperties
    <2>3. DOMAIN Tail(s) = 1 .. Len(Tail(s))
      BY <2>2, LenProperties
    <2> QED BY <2>1, <2>2, <2>3
  <1>2. \A i \in 1 .. Len(s) - 1 : i + 1 \in DOMAIN s
    BY <1>1
  <1> QED BY <1>1, <1>2 DEF InItsLine

LEMMA ItsLineOf ==
  ASSUME NEW d, NEW x, d.line = LineOf(d.at), x.line = LineOf(x.at),
         NEW s \in Seq({d, x})
  PROVE  InItsLine(s)
  <1>1. \A i \in DOMAIN s : s[i] \in {d, x}
    BY LenProperties, ElementOfSeq
  <1> QED BY <1>1 DEF InItsLine

LEMMA EmitLines ==
  ASSUME TypeInv, Counted, EmitPending
  PROVE  Counted'
  <1>1. pendingTokens \in Seq(TokenSet) /\ tokens \in Seq(TokenSet) /\ pendingTokens # <<>>
    BY Types DEF EmitPending
  <1>2. Head(pendingTokens) \in TokenSet
    BY <1>1, HeadTailProperties
  <1>3. InItsLine(Tail(pendingTokens)) /\ InItsLine(Append(tokens, Head(pendingTokens)))
    BY <1>1, <1>2, ItsLineTail, ItsLineAppend DEF Counted
  <1> QED BY <1>3, CountedNext DEF EmitPending, Counted, InString

LEMMA LineStartLines ==
  ASSUME TypeInv, Counted, LineStart
  PROVE  Counted'
  <1>1. LineOf(First) = line
    <2>1. atLineStart
      BY DEF LineStart, EmptyLine, SameIndent, Indent, Dedent, AtStart
    <2>2. LineOf(First) = LineOf(position)
      <3>1. /\ First \in position .. Behind /\ position \in Nat \ {0} /\ Behind \in Nat
            /\ \A k \in position .. First - 1 : At(k) \notin {"nl", "cr"}
        BY <2>1, Types, FirstFacts
      <3> QED BY <3>1, SameLine
    <2> QED BY <2>2 DEF Counted
  <1>2. \A sym : AtFirst(sym).line = LineOf(AtFirst(sym).at)
    BY <1>1 DEF AtFirst
  <1>3. ASSUME AtStart, InItsLine(pendingTokens') PROVE Counted'
    BY <1>1, <1>3, CountedNext DEF AtStart, Counted, InString
  <1>4. CASE EmptyLine \/ SameIndent
    BY <1>3, <1>4 DEF EmptyLine, SameIndent, Counted
  <1>5. CASE Indent
    <2>1. pendingTokens' = <<AtFirst("INDENT")>> /\ AtStart
      BY <1>5 DEF Indent
    <2> QED BY <1>2, <1>3, <2>1 DEF InItsLine
  <1>6. CASE Dedent
    <2> DEFINE w == Width(position, First)
               n == Kept(w)
               d == AtFirst("DEDENT")
               x == AtFirst("ILLEGAL")
               D == [i \in 1 .. Len(indentStack) - n |-> d]
               X == IF indentStack[n] # w THEN <<x>> ELSE <<>>
    <2>1. AtStart /\ pendingTokens' = D \o X
      BY <1>6, Zenon DEF Dedent, AtStart
    <2>2. Len(indentStack) - n \in Nat
      <3>1. n \in 1 .. Len(indentStack)
        <4>1. w \in Nat
          <5>1. atLineStart
            BY <2>1 DEF AtStart
          <5> QED BY <5>1, Types, FirstFacts, WidthType
        <4> HIDE DEF w
        <4> QED BY <4>1, KeptFacts DEF TypeInv
      <3> HIDE DEF n
      <3> PICK l \in Nat : l = Len(indentStack)
        BY Types
      <3> PICK k \in 1 .. l : k = n
        BY <3>1
      <3>2. l - k \in Nat
        OBVIOUS
      <3> QED BY <3>2
    <2> HIDE DEF w, n, d, x
    <2>3. D \in Seq({d, x})
      <3> PICK m \in Nat : m = Len(indentStack) - n
        BY <2>2
      <3>1. [i \in 1 .. m |-> d] \in Seq({d, x})
        OBVIOUS
      <3> QED BY <3>1
    <2>33. X \in Seq({d, x})
      <3>1. <<x>> \in Seq({d, x}) /\ <<>> \in Seq({d, x})
        OBVIOUS
      <3> QED BY <3>1, Zenon
    <2> HIDE DEF D, X
    <2>4. pendingTokens' \in Seq({d, x})
      BY <2>1, <2>3, <2>33, ConcatProperties
    <2>5. InItsLine(pendingTokens')
      BY <1>2, <2>4, ItsLineOf DEF d, x
    <2> QED BY <1>3, <2>1, <2>5
  <1> QED BY <1>4, <1>5, <1>6 DEF LineStart

LEMMA SkipLines ==
  ASSUME TypeInv, Counted, Skip
  PROVE  Counted'
  <1>1. /\ file' = file /\ string' = NoString /\ tokens' = tokens
        /\ pendingTokens' = pendingTokens
    BY DEF Skip, SkipWhitespace, Continuation, SkipComment, layout, Within
  <1>2. position \in Nat \ {0} /\ position \in 1 .. Behind /\ file \in Files /\ Behind \in Nat
    <2>1. ch # End
      BY BlankFacts, Elementary DEF Skip, SkipWhitespace, Continuation, IsContinuation, SkipComment
    <2> QED BY <2>1, OneOn, Types
  <1>3. line' = LineOf(position')
    <2>1. CASE SkipWhitespace
      <3>1. position' \in position .. Behind
        BY <1>2, <2>1, EndOfFacts, BlankFacts, Types DEF SkipWhitespace
      <3>2. LineOf(position') = LineOf(position) + Breaks(position, position')
        BY <1>2, <3>1, LinesOn
      <3> QED BY <2>1, <3>2 DEF SkipWhitespace, Counted
    <2>2. CASE Continuation
      <3>1. ch = "\\" /\ At(position + 1) \in {"nl", "cr"}
        BY <2>2 DEF Continuation, IsContinuation
      <3>2. position + 1 \in 1 .. Behind
        BY <3>1, OneOn, Elementary
      <3>3. LineOf(position + 1) = LineOf(position)
        <4>1. \A k \in position .. (position + 1) - 1 : At(k) \notin {"nl", "cr"}
          BY <1>2, <3>1 DEF ch
        <4> QED BY <1>2, <4>1, SameLine
      <3>4. LineOf(AfterBreak(position + 1)) = LineOf(position + 1) + 1
        BY <1>2, <3>1, <3>2, NextLine
      <3> QED BY <2>2, <3>3, <3>4 DEF Continuation, Counted
    <2>3. CASE SkipComment
      <3> DEFINE p == EndOf(position, Elements \ {"nl", "cr"})
      <3>1. p \in Nat /\ position <= p /\ \A k \in position .. p - 1 : At(k) \notin {"nl", "cr"}
        <4>1. End \notin Elements \ {"nl", "cr"}
          BY Elementary
        <4> QED BY <1>2, <4>1, EndOfFacts
      <3> HIDE DEF p
      <3>2. LineOf(p) = LineOf(position)
        BY <1>2, <3>1, SameLine
      <3>3. position' = p
        BY <2>3 DEF SkipComment, p
      <3> QED BY <2>3, <3>2, <3>3 DEF SkipComment, Counted
    <2> QED BY <2>1, <2>2, <2>3 DEF Skip
  <1> QED BY <1>1, <1>3, CountedNext DEF Counted

LEMMA EndsLines ==
  ASSUME TypeInv, Counted, Ends
  PROVE  Counted'
  <1>1. {"NEWLINE", "DEDENT", "EOF"} \subseteq Marks
    BY Elementary DEF DueSyms
  <1>2. \A sym \in {"NEWLINE", "DEDENT", "EOF"} :
          Token(sym) \in TokenSet /\ Token(sym).line = LineOf(Token(sym).at)
    BY <1>1, TokenType DEF Token, Counted
  <1>3. tokens \in Seq(TokenSet) /\ InItsLine(tokens)
    BY Types DEF Counted
  <1>4. CASE EndOfText
    <2> DEFINE d == Token("DEDENT")
               x == Token("NEWLINE")
               D == [i \in 1 .. Len(indentStack) - 1 |-> d]
               X == IF seenTokenOnLine THEN <<x>> ELSE <<>>
    <2>1. pendingTokens' = X \o D
      BY <1>4, Zenon DEF EndOfText
    <2> HIDE DEF d, x
    <2>2. D \in Seq({d, x})
      <3> PICK m \in Nat : m = Len(indentStack) - 1
        <4> PICK l \in Nat \ {0} : l = Len(indentStack)
          BY Types
        <4>1. l - 1 \in Nat
          OBVIOUS
        <4> QED BY <4>1
      <3>1. [i \in 1 .. m |-> d] \in Seq({d, x})
        OBVIOUS
      <3> QED BY <3>1
    <2>3. X \in Seq({d, x})
      <3>1. <<x>> \in Seq({d, x}) /\ <<>> \in Seq({d, x})
        OBVIOUS
      <3> QED BY <3>1, Zenon
    <2> HIDE DEF D, X
    <2>4. pendingTokens' \in Seq({d, x})
      BY <2>1, <2>2, <2>3, ConcatProperties
    <2>5. InItsLine(pendingTokens')
      BY <1>2, <2>4, ItsLineOf DEF d, x
    <2>6. /\ file' = file /\ line' = line /\ position' = position
          /\ tokens' = tokens /\ string' = NoString
      BY <1>4 DEF EndOfText, Within
    <2> QED BY <2>5, <2>6, CountedNext DEF Counted
  <1>5. CASE Eof
    <2>1. /\ file' = file /\ line' = line /\ position' = position
          /\ tokens' = Append(tokens, Token("EOF")) /\ string' = NoString
          /\ pendingTokens' = pendingTokens
      BY <1>5 DEF Eof, Within, layout
    <2>2. InItsLine(tokens')
      BY <1>2, <1>3, <2>1, ItsLineAppend
    <2> QED BY <2>1, <2>2, CountedNext DEF Counted
  <1>6. CASE NewLine
    <2>1. /\ file' = file /\ line' = line + 1 /\ position' = AfterBreak(position)
          /\ tokens' = (IF seenTokenOnLine THEN Append(tokens, Token("NEWLINE")) ELSE tokens)
          /\ string' = NoString /\ pendingTokens' = pendingTokens /\ At(position) \in {"nl", "cr"}
      BY <1>6 DEF NewLine, Within, layout, ch
    <2>2. InItsLine(Append(tokens, Token("NEWLINE")))
      BY <1>2, <1>3, ItsLineAppend
    <2>3. InItsLine(tokens')
      BY <1>3, <2>1, <2>2
    <2>4. line' = LineOf(position')
      <3>1. LineOf(AfterBreak(position)) = LineOf(position) + 1
        BY <2>1, Types, NextLine
      <3> QED BY <2>1, <3>1 DEF Counted
    <2> QED BY <2>1, <2>3, <2>4, CountedNext DEF Counted
  <1> QED BY <1>4, <1>5, <1>6 DEF Ends

(* A token that is made where reading stands.                              *)
LEMMA ReturnLines ==
  ASSUME TypeInv, Counted, NEW sym, sym \in Plain \/ sym \in Marks,
         NEW next, Return(sym, next), line' = LineOf(next)
  PROVE  Counted'
  <1>1. Token(sym) \in TokenSet /\ Token(sym).line = LineOf(Token(sym).at)
    BY TokenType DEF Token, Counted
  <1>2. InItsLine(Append(tokens, Token(sym)))
    BY <1>1, Types, ItsLineAppend DEF Counted
  <1>3. /\ file' = file /\ position' = next /\ tokens' = Append(tokens, Token(sym))
        /\ string' = NoString /\ pendingTokens' = pendingTokens
    BY DEF Return, Within, layout
  <1> QED BY <1>2, <1>3, CountedNext DEF Counted

(* An element that ends no line is passed.                                 *)
LEMMA OneOnLine ==
  ASSUME TypeInv, NEW i \in Nat \ {0}, At(i) \notin {"nl", "cr"}
  PROVE  LineOf(i + 1) = LineOf(i)
  <1>1. i \in Nat \ {0} /\ i + 1 \in Nat /\ i <= i + 1
    BY Types
  <1>2. \A k \in i .. (i + 1) - 1 : At(k) \notin {"nl", "cr"}
    BY <1>1
  <1> QED BY <1>1, <1>2, SameLine

LEMMA SymbolLines ==
  ASSUME TypeInv, Counted, Symbol
  PROVE  Counted'
  <1>1. \A x \in Plain : x \notin {"nl", "cr"}
    BY Elementary
  <1>2. ASSUME ch \notin {"nl", "cr"} PROVE LineOf(position + 1) = line
    BY <1>2, Types, OneOnLine DEF ch, Counted
  <1>3. CASE Word
    BY <1>1, <1>2, <1>3, WordIsPlain, ReturnLines DEF Word
  <1>4. CASE TwoWords
    <2>1. Pair \in Marks /\ ch \in Plain /\ At(NextWord) \in Plain
      BY <1>4, Types, PairFacts, WordIsPlain DEF TwoWords
    <2>2. NextWord \in position + 1 .. Behind /\ NextWord \in 1 .. Behind
      BY <2>1, Types, NextWordFacts, Elementary
    <2>3. LineOf(position + 1) = line
      BY <1>1, <1>2, <2>1
    <2>4. LineOf(NextWord) = LineOf(position + 1) + Breaks(position + 1, NextWord)
      <3> PICK i \in Nat \ {0}, j \in Nat : i = position + 1 /\ j = NextWord /\ i <= j
        BY <2>2, Types
      <3> QED BY LinesOn
    <2>5. LineOf(NextWord + 1) = LineOf(NextWord)
      BY <1>1, <2>1, <2>2, OneOnLine
    <2> QED BY <1>4, <2>1, <2>3, <2>4, <2>5, ReturnLines DEF TwoWords
  <1>5. CASE NumberOrOperator
    BY <1>1, <1>2, <1>5, WordIsPlain, ReturnLines DEF NumberOrOperator
  <1>6. CASE Illegal
    <2>1. "ILLEGAL" \in Marks
      BY Elementary DEF DueSyms
    <2>2. ch \notin {"nl", "cr"}
      BY <1>6 DEF Illegal
    <2> QED BY <1>2, <1>6, <2>1, <2>2, ReturnLines DEF Illegal
  <1>7. CASE OpenBracket
    BY <1>1, <1>2, <1>7, WordIsPlain, ReturnLines DEF OpenBracket
  <1>8. CASE CloseBracket
    BY <1>1, <1>2, <1>8, WordIsPlain, ReturnLines DEF CloseBracket
  <1> QED BY <1>3, <1>4, <1>5, <1>6, <1>7, <1>8 DEF Symbol

(* In a string every end of a line is counted but those that the escapes   *)
(* and the lone "\r" of Uncounted hide.                                    *)
LEMMA InsideLines ==
  ASSUME TypeInv, Counted, ~Uncounted, InsideString
  PROVE  line' = LineOf(position')
  <1>1. /\ InString /\ ch # End /\ line = LineOf(position)
        /\ position' \in (IF ch = "\\" THEN AfterEscape ELSE {position + 1})
        /\ line' = IF ch = "nl" THEN line + 1 ELSE line
    BY DEF InsideString, Broken, Counted
  <1>2. /\ position \in DOMAIN text /\ position + 1 \in 1 .. Behind
        /\ position \in 1 .. Behind /\ position \in Nat \ {0} /\ file \in Files
        /\ Behind \in Nat
    BY <1>1, OneOn, Types
  <1>3. text[position] = ch
    BY <1>2, Texts DEF ch
  <1>4. /\ ch = "\\" => /\ At(position + 1) \notin {"nl", "cr"}
                        /\ At(position + 1) = "x" =>
                             /\ At(position + 2) \notin {"nl", "cr"}
                             /\ At(position + 3) \notin {"nl", "cr"}
        /\ ch = "cr" => At(position + 1) = "nl"
    <2>1. string.at \in DOMAIN text /\ text[string.at] = "'" /\ string.at < position
      BY <1>1, StringTypes
    <2> QED BY <1>2, <1>3, <2>1 DEF Uncounted
  <1>5. CASE ch = "\\"
    <2>1. PICK p \in AfterEscape : p = position'
      BY <1>1, <1>5
    <2>2. /\ p \in Nat /\ position <= p
          /\ \/ p = position + 2
             \/ At(position + 1) = "x" /\ p \in {position + 3, position + 4}
      BY <1>1, EscapeEnds, Types
    <2>3. ASSUME NEW k \in position .. p - 1 PROVE At(k) \notin {"nl", "cr"}
      <3>1. CASE p = position + 2
        <4>1. k = position \/ k = position + 1
          BY <1>2, <3>1
        <4> QED BY <1>4, <1>5, <4>1 DEF ch
      <3>2. CASE At(position + 1) = "x" /\ p \in {position + 3, position + 4}
        <4>1. \/ k = position \/ k = position + 1
              \/ k = position + 2 \/ k = position + 3
          BY <1>2, <3>2
        <4>2. At(position) \notin {"nl", "cr"}
          BY <1>5 DEF ch
        <4>3. At(position + 1) \notin {"nl", "cr"}
          BY <1>4, <1>5
        <4>4. At(position + 2) \notin {"nl", "cr"} /\ At(position + 3) \notin {"nl", "cr"}
          BY <1>4, <1>5, <3>2
        <4> QED BY <4>1, <4>2, <4>3, <4>4
      <3> QED BY <2>2, <3>1, <3>2
    <2>4. LineOf(p) = LineOf(position)
      BY <1>2, <2>2, <2>3, SameLine
    <2> QED BY <1>1, <1>5, <2>1, <2>4
  <1>6. CASE ch = "nl"
    <2>1. AfterBreak(position) = position + 1
      BY <1>6 DEF AfterBreak, ch
    <2>2. LineOf(position + 1) = LineOf(position) + 1
      BY <1>2, <1>6, <2>1, NextLine DEF ch
    <2> QED BY <1>1, <1>6, <2>2
  <1>7. CASE ch = "cr"
    <2>1. ~IsBreak(position)
      BY <1>4, <1>7 DEF IsBreak, ch
    <2>2. Breaks(position, position + 1) = 0
      BY <1>2, <2>1, OneBreak
    <2>3. LineOf(position + 1) = LineOf(position) + 0
      BY <1>2, <2>2, LinesOn
    <2>4. LineOf(position) \in Nat
      BY <1>1, Types
    <2> QED BY <1>1, <1>7, <2>3, <2>4
  <1>8. CASE ch \notin {"\\", "nl", "cr"}
    <2>1. LineOf(position + 1) = LineOf(position)
      BY <1>2, <1>8, OneOnLine DEF ch
    <2> QED BY <1>1, <1>8, <2>1
  <1> QED BY <1>5, <1>6, <1>7, <1>8

(* Quotes end no line.                                                     *)
LEMMA QuotesPassed ==
  ASSUME TypeInv, NEW n \in {1, 3}, ch = "'", n = 3 => Tripled(position)
  PROVE  LineOf(position + n) = LineOf(position)
  <1>1. position \in Nat \ {0} /\ position + n \in Nat
    BY Types
  <1>2. \A k \in position .. (position + n) - 1 : At(k) = "'"
    <2>1. CASE n = 1
      BY <1>1, <2>1 DEF ch
    <2>2. CASE n = 3
      <3>1. At(position) = "'" /\ At(position + 1) = "'" /\ At(position + 2) = "'"
        BY <2>2 DEF Tripled
      <3>2. \A k \in position .. (position + 3) - 1 :
              k = position \/ k = position + 1 \/ k = position + 2
        BY <1>1
      <3> QED BY <2>2, <3>1, <3>2
    <2> QED BY <2>1, <2>2
  <1> QED BY <1>1, <1>2, SameLine

LEMMA QuotesLines ==
  ASSUME TypeInv, Counted, ~Uncounted, InQuotes
  PROVE  Counted'
  <1>1. /\ file' = file /\ pendingTokens' = pendingTokens
    BY DEF InQuotes, BeginString, EndString, BreakString, InsideString, ReturnString, layout
  <1>2. line = LineOf(position) /\ InItsLine(tokens) /\ InItsLine(pendingTokens)
    BY DEF Counted
  <1>3. CASE BeginString
    <2> DEFINE n == IF Tripled(position) THEN 3 ELSE 1
    <2>1. /\ ch = "'" /\ position' = position + n /\ line' = line /\ tokens' = tokens
          /\ string' = [triple |-> Tripled(position), at |-> position, line |-> line]
      BY <1>3 DEF BeginString
    <2>2. n \in {1, 3} /\ (n = 3 => Tripled(position))
      OBVIOUS
    <2> HIDE DEF n
    <2>3. LineOf(position + n) = LineOf(position)
      BY <2>1, <2>2, QuotesPassed
    <2>4. string'.line = LineOf(string'.at)
      BY <1>2, <2>1
    <2> QED BY <1>1, <1>2, <2>1, <2>3, <2>4, CountedNext
  <1>4. ASSUME NEW sym \in Marks, NEW next, ReturnString(sym, next), LineOf(next) = line
        PROVE  Counted'
    <2> DEFINE tok == [sym |-> sym, at |-> string.at, line |-> string.line]
    <2>1. /\ InString /\ tokens' = Append(tokens, tok) /\ string' = NoString
          /\ position' = next /\ line' = line
      BY <1>4 DEF ReturnString
    <2>2. tok \in TokenSet /\ tok.line = LineOf(tok.at)
      <3>1. string.line = LineOf(string.at)
        BY <2>1 DEF Counted
      <3> QED BY <2>1, <3>1, StringTypes, TokenTypes
    <2> HIDE DEF tok
    <2>3. InItsLine(Append(tokens, tok))
      BY <1>2, <2>2, Types, ItsLineAppend
    <2> QED BY <1>1, <1>2, <1>4, <2>1, <2>3, CountedNext
  <1>5. "STRING" \in Marks /\ "ILLEGAL" \in Marks
    BY Elementary DEF DueSyms
  <1>6. CASE EndString
    <2> DEFINE n == IF string.triple THEN 3 ELSE 1
    <2>1. n \in {1, 3} /\ ch = "'" /\ (n = 3 => Tripled(position))
          /\ ReturnString("STRING", position + n)
      BY <1>6 DEF EndString, EndsHere, Tripled, ch
    <2> HIDE DEF n
    <2> QED BY <1>2, <1>4, <1>5, <2>1, QuotesPassed
  <1>7. CASE BreakString
    BY <1>2, <1>4, <1>5, <1>7 DEF BreakString
  <1>8. CASE InsideString
    <2>1. tokens' = tokens /\ string' = string /\ InString
      BY <1>8 DEF InsideString
    <2> QED BY <1>1, <1>2, <1>8, <2>1, InsideLines, CountedNext DEF Counted
  <1> QED BY <1>3, <1>6, <1>7, <1>8 DEF InQuotes

LEMMA LineInit == Init => LineInv
  <1> SUFFICES ASSUME Init PROVE LineInv
    OBVIOUS
  <1>1. Breaks(1, 1) = 0
    <2>1. \A k \in 1 .. 1 - 1 : ~IsBreak(k)
      OBVIOUS
    <2> QED BY <2>1, NoBreaks
  <1>2. Counted
    BY <1>1 DEF Init, Counted, LineOf, InItsLine, InString
  <1> QED BY <1>2, TypeInit DEF LineInv

LEMMA LineStep == LineInv /\ [Next]_vars => LineInv'
  <1> SUFFICES ASSUME LineInv, [Next]_vars PROVE LineInv'
    OBVIOUS
  <1>1. TypeInv /\ TypeInv'
    BY TypeStep DEF LineInv
  <1>2. file' = file
    BY DEF Next, EmitPending, LineStart, EmptyLine, SameIndent, Indent, Dedent, AtStart,
           Skip, SkipWhitespace, Continuation, SkipComment,
           Ends, EndOfText, Eof, NewLine,
           Symbol, Word, TwoWords, NumberOrOperator, Illegal, OpenBracket, CloseBracket, Return,
           InQuotes, BeginString, EndString, BreakString, InsideString, ReturnString, vars
  <1>3. Uncounted' <=> Uncounted
    BY <1>2, SameFile
  <1>4. ASSUME ~Uncounted PROVE Counted'
    <2>1. Counted
      BY <1>4 DEF LineInv
    <2>2. CASE UNCHANGED vars
      BY <2>1, <2>2, CountedNext DEF vars, Counted, InString
    <2> QED BY <1>1, <1>4, <2>1, <2>2, EmitLines, LineStartLines, SkipLines, EndsLines,
               SymbolLines, QuotesLines DEF Next
  <1> QED BY <1>1, <1>3, <1>4 DEF LineInv

(* In any text in which no escape and no lone "\r" hides the end of a line *)
(* in a string, the last token names the line of the text that it begins   *)
(* in.                                                                     *)
THEOREM LinesAreCounted == Spec => []LinesCounted
  <1>1. ASSUME LineInv PROVE LinesCounted
    <2>1. CASE tokens # <<>> /\ ~Uncounted
      <3>1. Len(tokens) \in DOMAIN tokens
        <4>1. tokens \in Seq(TokenSet)
          BY <1>1, Types DEF LineInv
        <4> QED BY <2>1, <4>1, LenProperties, EmptySeq
      <3>2. Counted
        BY <1>1, <2>1 DEF LineInv
      <3> QED BY <3>1, <3>2 DEF Counted, InItsLine, LineOf, LinesCounted
    <2> QED BY <2>1 DEF LinesCounted
  <1>2. Spec => []LineInv
    BY LineInit, LineStep, PTL DEF Spec
  <1> QED BY <1>1, <1>2, PTL

===============================================================================
