SPECIFICATION MCSpec
CONSTANTS
  Clients = {c1, c2}
  Kinds = {"stream", "whole"}
  PromptLens = {0, 1, 3}
  MaxTokens = {1, 3}
  MaxSeqLen = 3
  Faults = TRUE
  Leaving = TRUE
INVARIANTS CounterNeverTwice PoolWholeWhenFree AnswersHonest CancelStops AnswersWhole SamplesFairly FramesGenuine
PROPERTIES DashboardExact 
CHECK_DEADLOCK FALSE
