\* Any program, with a stack it can exhaust; a poll every 6 instructions.
CONSTANTS
  StackSize = 5
  MaxFrames = 3
  PollEvery = 6
  Units <- WildUnits
  Answers = {"yes", "no", "raise"}
  MaxAnswers = 3
  Cancellable = TRUE
SPECIFICATION Spec
INVARIANTS TypeOK FramesReal CancelIsPrompt
\* A run ends, or is cancelled.
CHECK_DEADLOCK FALSE
