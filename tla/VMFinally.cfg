\* A return from inside a try.
CONSTANTS
  StackSize = 12
  MaxFrames = 4
  PollEvery = 64
  Units <- ReturnInTryUnits
  Answers = {"yes", "no", "raise"}
  MaxAnswers = 3
  Cancellable = FALSE
SPECIFICATION Spec
INVARIANTS FinallyAlwaysRuns
CHECK_DEADLOCK FALSE
