\* Functions, loops and tries nested two deep; four frames; four answers.
CONSTANTS
  StackSize = 24
  MaxFrames = 4
  PollEvery = 64
  Units <- StructuredUnits
  Answers = {"yes", "no", "raise"}
  MaxAnswers = 4
  Cancellable = FALSE
SPECIFICATION Spec
INVARIANTS RunsAsWritten StacksNest LeavesNothing
\* A program ends.
CHECK_DEADLOCK FALSE
