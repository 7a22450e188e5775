\* Every list of up to four parameters; integers of four bits, bytes of one.
CONSTANTS
  a = a
  b = b
  c = c
  d = d
  other = other
  Names = {a, b, c, d, other}
  Calls <- AllCalls
  Cuts <- AllCuts
  None = None
  Width = 4
  Operands <- SomeOperands
  Rows <- SomeRows
  Maps <- SomeMaps
  Sessions <- SomeSessions
  Base = 2
  Listings <- SomeListings
  Mentions <- SomeMentions
SPECIFICATION EvaluationSpec
INVARIANTS BindsAsDefined SlicesAsDefined RangesAsDefined ArithmeticAsDefined ComparisonsAgree SortsAsDefined DictsAsDefined ScopesAsWritten DecodesAsEmitted
\* A question is one step.
CHECK_DEADLOCK FALSE
