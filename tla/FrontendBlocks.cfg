\* What comes behind a block.
CONSTANTS
  Words <- MCWords
  Numbers <- MCNumbers
  Operators <- MCOperators
  Files <- AfterBlocks
  Parse <- MCParse
SPECIFICATION Spec
INVARIANTS StatementsCounted
\* The lexer stops at the end of the text.
CHECK_DEADLOCK FALSE
