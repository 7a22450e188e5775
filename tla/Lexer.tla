-------------------------------- MODULE Lexer --------------------------------
(***************************************************************************)
(* pkg/lexer/lexer.go: how a text becomes tokens, with what its layout     *)
(* stands for: the end of a line, more and less indentation.  The parser   *)
(* calls NextToken until it is given EOF; a call is one action or several, *)
(* none of which anything else comes between.                              *)
(*                                                                         *)
(* A text is a sequence of elements.  An element is a character that       *)
(* matters to the layout, or stands for a whole word, number or operator   *)
(* as far as the lexer reads it at once (the longest one).  A token is     *)
(* such an element, or one of the Marks.                                   *)
(***************************************************************************)
EXTENDS Integers, FiniteSets, Sequences

CONSTANTS Files,    \* bound: the files; see the assumption
          Words,    \* identifiers and keywords
          Numbers,
          Operators \* operators and punctuation, brackets excepted

Opening == {"(", "[", "{"}
Closing == {")", "]", "}"}

(* "?" is a character that begins no token.  A string is written with one  *)
(* kind of quotes here; a prefix is taken to be part of the first one.     *)
Others == {" ", "tab", "nl", "cr", "#", "\\", "'", "?"}

Elements == Words \cup Numbers \cup Operators \cup Opening \cup Closing \cup Others

End == "end of text"

Marks == {"NEWLINE", "INDENT", "DEDENT", "EOF", "ILLEGAL", "STRING", "not in", "is not"}

(* A file is its text, and the source it was written from, to which only   *)
(* properties refer.  Two words in a row, with nothing in between, would   *)
(* be one.                                                                 *)
ASSUME LexerAssumption ==
  /\ {"not", "in", "is"} \subseteq Words
  /\ (Words \cup Numbers \cup Operators) \cap
       (Opening \cup Closing \cup Others \cup Marks \cup {End}) = {}
  /\ \A f \in Files :
       /\ f.text \in Seq(Elements)
       /\ \A i \in 1 .. Len(f.text) - 1 :
            f.text[i] \in Words \cup Numbers => f.text[i + 1] \notin Words \cup Numbers

VARIABLES file,            \* what is read
          position,        \* of the next element; behind the text at its end,
                           \* or farther, since readChar goes on there
          line,
          indentStack,
          bracketDepth,
          atLineStart,
          seenTokenOnLine,
          pendingTokens,
          eofEmitted,
          string,          \* the string that is being read, or NoString
          tokens           \* all that NextToken has returned; only recorded

vars == <<file, position, line, indentStack, bracketDepth, atLineStart,
          seenTokenOnLine, pendingTokens, eofEmitted, string, tokens>>

layout == <<indentStack, pendingTokens, eofEmitted>>

-------------------------------------------------------------------------------
text == file.text

At(i) == IF i \in DOMAIN text THEN text[i] ELSE End

ch == At(position)

Behind == Len(text) + 1

(* The first position from i on with something else than the elements S.   *)
EndOf(i, S) ==
  CHOOSE j \in i .. Behind : At(j) \notin S /\ \A k \in i .. j - 1 : At(k) \in S

(* A line ends with "\n", "\r\n" or "\r".                                  *)
IsBreak(i) == At(i) = "nl" \/ (At(i) = "cr" /\ At(i + 1) # "nl")

Breaks(i, j) == Cardinality({k \in i .. j - 1 : IsBreak(k)})

AfterBreak(i) == IF At(i) = "cr" /\ At(i + 1) = "nl" THEN i + 2 ELSE i + 1

(* What is skipped between tokens: inside brackets line ends are, too.     *)
Blanks == {" ", "tab"} \cup (IF bracketDepth > 0 THEN {"nl", "cr"} ELSE {})

Token(sym) == [sym |-> sym, at |-> position, line |-> line]

NoString == [triple |-> FALSE, at |-> 0, line |-> 0]

Init ==
  /\ file \in Files
  /\ position = 1
  /\ line = 1
  /\ indentStack = <<0>>
  /\ bracketDepth = 0
  /\ atLineStart = TRUE
  /\ seenTokenOnLine = FALSE
  /\ pendingTokens = <<>>
  /\ eofEmitted = FALSE
  /\ string = NoString
  /\ tokens = <<>>

(* The parser has not been given EOF.                                      *)
Reading == tokens # <<>> => tokens[Len(tokens)].sym # "EOF"

-------------------------------------------------------------------------------
(* Tokens that are due are returned before anything else is read.          *)
EmitPending ==
  /\ pendingTokens # <<>>
  /\ tokens' = Append(tokens, Head(pendingTokens))
  /\ pendingTokens' = Tail(pendingTokens)
  /\ seenTokenOnLine' = (seenTokenOnLine \/ Head(pendingTokens).sym = "ILLEGAL")
  /\ UNCHANGED <<file, position, line, indentStack, bracketDepth, atLineStart,
                 eofEmitted, string>>

(* handleLineStart.  The line's first element that is not a blank, and the *)
(* width of the blanks before it.                                          *)
First == EndOf(position, {" ", "tab"})

Width(i, j) ==
  Cardinality({k \in i .. j - 1 : At(k) = " "})
    + 4 * Cardinality({k \in i .. j - 1 : At(k) = "tab"})

Top(stack) == stack[Len(stack)]

AtFirst(sym) == [sym |-> sym, at |-> First, line |-> line]

AtStart ==
  /\ pendingTokens = <<>>
  /\ atLineStart
  /\ atLineStart' = FALSE
  /\ position' = First
  /\ UNCHANGED <<file, line, bracketDepth, seenTokenOnLine, eofEmitted, string, tokens>>

(* A line with nothing but blanks or a comment has no indentation.         *)
IsEmpty == At(First) \in {"#", "nl", "cr", End}

EmptyLine ==
  /\ AtStart
  /\ IsEmpty
  /\ UNCHANGED <<indentStack, pendingTokens>>

SameIndent ==
  /\ AtStart
  /\ ~IsEmpty
  /\ Width(position, First) = Top(indentStack)
  /\ UNCHANGED <<indentStack, pendingTokens>>

Indent ==
  /\ AtStart
  /\ ~IsEmpty
  /\ Width(position, First) > Top(indentStack)
  /\ indentStack' = Append(indentStack, Width(position, First))
  /\ pendingTokens' = <<AtFirst("INDENT")>>

(* What is left of the stack when all that is wider than w is taken off.   *)
Kept(w) == CHOOSE n \in DOMAIN indentStack :
             /\ indentStack[n] <= w
             /\ \A m \in n + 1 .. Len(indentStack) : indentStack[m] > w

\* Mutant: one INDENT is undone, however many are.
DedentOnce ==
  LET w == Width(position, First)
      n == Kept(w) IN
  /\ AtStart
  /\ ~IsEmpty
  /\ w < Top(indentStack)
  /\ indentStack' = SubSeq(indentStack, 1, n)
  /\ pendingTokens' = <<AtFirst("DEDENT")>>

(* The line is not where any line around it began: an error, but what was  *)
(* wider is undone all the same.                                           *)
Dedent ==
  LET w == Width(position, First)
      n == Kept(w) IN
  /\ AtStart
  /\ ~IsEmpty
  /\ w < Top(indentStack)
  /\ indentStack' = SubSeq(indentStack, 1, n)
  /\ pendingTokens' = [i \in 1 .. Len(indentStack) - n |-> AtFirst("DEDENT")]
                        \o (IF indentStack[n] # w THEN <<AtFirst("ILLEGAL")>> ELSE <<>>)

-------------------------------------------------------------------------------
(* The loop at the beginning of NextToken goes on with the next element    *)
(* when a line has begun and no token is due.                              *)
Within ==
  /\ pendingTokens = <<>>
  /\ ~atLineStart
  /\ string = NoString

SkipWhitespace ==
  /\ Within
  /\ ch \in Blanks
  /\ position' = EndOf(position, Blanks)
  /\ line' = line + Breaks(position, position')
  /\ UNCHANGED <<file, bracketDepth, atLineStart, seenTokenOnLine, string, tokens>>
  /\ UNCHANGED layout

(* A backslash at the end of a line: the next one goes on with it.         *)
IsContinuation ==
  /\ ch = "\\"
  /\ At(position + 1) = "nl" \/ (At(position + 1) = "cr" /\ At(position + 2) = "nl")

Continuation ==
  /\ Within
  /\ IsContinuation
  /\ position' = AfterBreak(position + 1)
  /\ line' = line + 1
  /\ UNCHANGED <<file, bracketDepth, atLineStart, seenTokenOnLine, string, tokens>>
  /\ UNCHANGED layout

SkipComment ==
  /\ Within
  /\ ch = "#"
  /\ position' = EndOf(position, Elements \ {"nl", "cr"})
  /\ UNCHANGED <<file, line, bracketDepth, atLineStart, seenTokenOnLine, string, tokens>>
  /\ UNCHANGED layout

(* At the end the last line ends, and all indentation.                     *)
EndOfText ==
  /\ Within
  /\ ch = End
  /\ ~eofEmitted
  /\ eofEmitted' = TRUE
  /\ seenTokenOnLine' = FALSE
  /\ pendingTokens' = (IF seenTokenOnLine THEN <<Token("NEWLINE")>> ELSE <<>>)
                        \o [i \in 1 .. Len(indentStack) - 1 |-> Token("DEDENT")]
  /\ indentStack' = <<0>>
  /\ UNCHANGED <<file, position, line, bracketDepth, atLineStart, string, tokens>>

Eof ==
  /\ Within
  /\ ch = End
  /\ eofEmitted
  /\ Reading
  /\ tokens' = Append(tokens, Token("EOF"))
  /\ UNCHANGED <<file, position, line, bracketDepth, atLineStart, seenTokenOnLine, string>>
  /\ UNCHANGED layout

(* The end of a line, outside brackets; it is a token if the line had one. *)
NewLine ==
  /\ Within
  /\ ch \in {"nl", "cr"} \ Blanks
  /\ position' = AfterBreak(position)
  /\ line' = line + 1
  /\ atLineStart' = TRUE
  /\ seenTokenOnLine' = FALSE
  /\ tokens' = IF seenTokenOnLine THEN Append(tokens, Token("NEWLINE")) ELSE tokens
  /\ UNCHANGED <<file, bracketDepth, string>>
  /\ UNCHANGED layout

-------------------------------------------------------------------------------
(* The other elements make tokens.                                         *)
Return(sym, next) ==
  /\ Within
  /\ seenTokenOnLine' = TRUE
  /\ tokens' = Append(tokens, Token(sym))
  /\ position' = next
  /\ UNCHANGED <<file, atLineStart, string>>
  /\ UNCHANGED layout

(* "not in" and "is not" are one token, whatever is skipped in between;    *)
(* to find out, the lexer reads on, and goes back if they are not.         *)
NextWord == EndOf(position + 1, Blanks)

Pair == CASE ch = "not" /\ At(NextWord) = "in"  -> "not in"
          [] ch = "is"  /\ At(NextWord) = "not" -> "is not"
          [] OTHER -> End

\* Mutant: the lines it has gone back over stay counted.
WordReadOn ==
  /\ ch \in Words
  /\ Pair = End
  /\ Return(ch, position + 1)
  /\ line' = line + (IF ch \in {"not", "is"} THEN Breaks(position + 1, NextWord) ELSE 0)
  /\ UNCHANGED bracketDepth

Word ==
  /\ ch \in Words
  /\ Pair = End
  /\ Return(ch, position + 1)
  /\ UNCHANGED <<line, bracketDepth>>

TwoWords ==
  /\ ch \in Words
  /\ Pair # End
  /\ Return(Pair, NextWord + 1)
  /\ line' = line + Breaks(position + 1, NextWord)
  /\ UNCHANGED bracketDepth

NumberOrOperator ==
  /\ ch \in Numbers \cup Operators
  /\ Return(ch, position + 1)
  /\ UNCHANGED <<line, bracketDepth>>

Illegal ==
  /\ ch = "?" \/ (ch = "\\" /\ ~IsContinuation)
  /\ Return("ILLEGAL", position + 1)
  /\ UNCHANGED <<line, bracketDepth>>

OpenBracket ==
  /\ ch \in Opening
  /\ Return(ch, position + 1)
  /\ bracketDepth' = bracketDepth + 1
  /\ UNCHANGED line

(* Any bracket closes any; one too many is left to the parser.             *)
CloseBracket ==
  /\ ch \in Closing
  /\ Return(ch, position + 1)
  /\ bracketDepth' = IF bracketDepth > 0 THEN bracketDepth - 1 ELSE 0
  /\ UNCHANGED line

-------------------------------------------------------------------------------
(* readString, one action per round of its loop.  Two quotes more begin a  *)
(* string of several lines, which three end.                               *)
Tripled(i) == At(i) = "'" /\ At(i + 1) = "'" /\ At(i + 2) = "'"

BeginString ==
  /\ Within
  /\ ch = "'"
  /\ string' = [triple |-> Tripled(position), at |-> position, line |-> line]
  /\ position' = position + (IF Tripled(position) THEN 3 ELSE 1)
  /\ UNCHANGED <<file, line, bracketDepth, atLineStart, seenTokenOnLine, tokens>>
  /\ UNCHANGED layout

InString == string # NoString

EndsHere == IF string.triple THEN Tripled(position) ELSE ch = "'"

Broken == ch = End \/ (~string.triple /\ ch \in {"nl", "cr"})

ReturnString(sym, next) ==
  /\ InString
  /\ tokens' = Append(tokens, [sym |-> sym, at |-> string.at, line |-> string.line])
  /\ string' = NoString
  /\ seenTokenOnLine' = TRUE
  /\ position' = next
  /\ UNCHANGED <<file, line, bracketDepth, atLineStart>>
  /\ UNCHANGED layout

EndString ==
  /\ EndsHere
  /\ ReturnString("STRING", position + (IF string.triple THEN 3 ELSE 1))

\* Mutant: the end of the text ends a string as quotes do.
BreakStringAtLine ==
  /\ Broken
  /\ ReturnString(IF ch = End THEN "STRING" ELSE "ILLEGAL", position)

(* At the end of the text, or of the line: which is then read as such.     *)
BreakString ==
  /\ Broken
  /\ ReturnString("ILLEGAL", position)

(* An escape: the element behind a backslash is read with it, whatever it  *)
(* is, and even if it is the end of the text; if it ends a line, that is   *)
(* not counted.  \x is read with the two characters behind it, whatever    *)
(* they are; an operator may be both.  (A longer word that begins with x   *)
(* is taken to bring them itself.)                                         *)
AfterEscape ==
  IF At(position + 1) = "x"
  THEN {position + 4} \cup (IF At(position + 2) \in Operators THEN {position + 3} ELSE {})
  ELSE {position + 2}

InsideString ==
  /\ InString
  /\ ~EndsHere /\ ~Broken
  /\ position' \in (IF ch = "\\" THEN AfterEscape ELSE {position + 1})
  /\ line' = IF ch = "nl" THEN line + 1 ELSE line
  /\ UNCHANGED <<file, bracketDepth, atLineStart, seenTokenOnLine, string, tokens>>
  /\ UNCHANGED layout

-------------------------------------------------------------------------------
LineStart == EmptyLine \/ SameIndent \/ Indent \/ Dedent

Skip == SkipWhitespace \/ Continuation \/ SkipComment

Ends == EndOfText \/ Eof \/ NewLine

Symbol == Word \/ TwoWords \/ NumberOrOperator \/ Illegal \/ OpenBracket \/ CloseBracket

InQuotes == BeginString \/ EndString \/ BreakString \/ InsideString

Next == EmitPending \/ LineStart \/ Skip \/ Ends \/ Symbol \/ InQuotes

Spec == Init /\ [][Next]_vars

-------------------------------------------------------------------------------
(* An escape that the text ends in is read to the end and at most two      *)
(* characters farther.                                                     *)
Reach == Behind + 2

TokenSet == [sym : (Elements \ Others) \cup Marks, at : 1 .. Reach, line : Nat \ {0}]

(* The type invariant.  The position may leave the text, but not by more   *)
(* than what one escape reads.                                             *)
TypeOK ==
  /\ position \in 1 .. Reach
  /\ line \in Nat \ {0}
  /\ indentStack \in Seq(Nat) \ {<<>>}
  /\ bracketDepth \in Nat
  /\ {atLineStart, seenTokenOnLine, eofEmitted} \subseteq BOOLEAN
  /\ pendingTokens \in Seq(TokenSet)
  /\ string = NoString \/ string \in [triple : BOOLEAN, at : 1 .. Behind, line : Nat \ {0}]
  /\ tokens \in Seq(TokenSet)

(* The last error is a string that was broken off; behind it there is      *)
(* nothing but what the end of the text stands for.                        *)
BrokenOff ==
  \E i \in DOMAIN tokens :
    /\ tokens[i].sym = "ILLEGAL" /\ At(tokens[i].at) = "'"
    /\ \A j \in i + 1 .. Len(tokens) : tokens[j].sym \in {"NEWLINE", "DEDENT", "EOF"}

(* Every token that has its text from the file is what is written at its   *)
(* place; and when reading has gone farther than the end of the text, it   *)
(* was in a string, which becomes an error, and nothing is made of what    *)
(* would be there.  (The code takes the text of words and numbers from the *)
(* file by positions, with which that would be an index out of range.)     *)
ReadFromText ==
  /\ TypeOK
  /\ \A i \in DOMAIN tokens : tokens[i].sym \notin Marks => tokens[i].sym = At(tokens[i].at)
  /\ position > Behind => InString \/ BrokenOff

(* How many tokens of a sequence have the symbol.                          *)
Count(s, sym) == Cardinality({i \in DOMAIN s : s[i].sym = sym})

(* The blocks of the parser: what has been indented and not undone is what *)
(* the stack has, however lines and errors follow each other; its widths   *)
(* are nested; and when EOF is returned every INDENT has had its DEDENT.   *)
LayoutBalanced ==
  /\ indentStack[1] = 0
  /\ \A i, j \in DOMAIN indentStack : i < j => indentStack[i] < indentStack[j]
  /\ Count(tokens, "INDENT") + Count(pendingTokens, "INDENT") =
       Count(tokens, "DEDENT") + Count(pendingTokens, "DEDENT") + Len(indentStack) - 1
  /\ ~Reading => Count(tokens, "INDENT") = Count(tokens, "DEDENT")

(* Each NEWLINE ends a line that has a token, and indentation changes      *)
(* between lines only.                                                     *)
LayoutSyms == {"NEWLINE", "INDENT", "DEDENT"}

LayoutInPlace ==
  \A i \in DOMAIN tokens :
    /\ tokens[i].sym = "NEWLINE" => i > 1 /\ tokens[i - 1].sym \notin LayoutSyms
    /\ tokens[i].sym \in {"INDENT", "DEDENT"} => i = 1 \/ tokens[i - 1].sym \in LayoutSyms

(* What the parser relies on to find the statements and blocks in tokens.  *)
Layout == LayoutBalanced /\ LayoutInPlace

(* A token's line, which error messages name, is the line of the text it   *)
(* begins in: through continuations, brackets, strings of several lines,   *)
(* and words looked at twice.  (An end of line that belongs to an escape   *)
(* in a string, or a lone "\r" in one, is not counted by the code.)        *)
Uncounted ==
  \E q, k \in DOMAIN text :
    /\ text[q] = "'" /\ q < k
    /\ \/ text[k] = "\\" /\ At(k + 1) \in {"nl", "cr"}
       \/ text[k] = "\\" /\ At(k + 1) = "x" /\ {At(k + 2), At(k + 3)} \cap {"nl", "cr"} # {}
       \/ text[k] = "cr" /\ At(k + 1) # "nl"

LinesCounted ==
  \/ tokens = <<>>
  \/ LET last == tokens[Len(tokens)] IN last.line = 1 + Breaks(1, last.at)
  \/ Uncounted

===============================================================================
