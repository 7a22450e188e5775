\* Every expression of two operations, every statement, blocks in blocks, in
\* several layouts; and any three fragments of text.
CONSTANTS
  Words <- MCWords
  Numbers <- MCNumbers
  Operators <- MCOperators
  Files <- MCFiles
  Parse <- MCParse
SPECIFICATION Spec
INVARIANTS ReadFromText Layout LinesCounted ParsesAsWritten
\* The lexer stops at the end of the text.
CHECK_DEADLOCK FALSE
