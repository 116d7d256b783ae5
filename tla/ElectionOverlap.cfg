SPECIFICATION Spec
CONSTANTS
  N = 3
  Priorities = {0, 1}
  MaxTerm = 2
  MaxRestarts = 0
  Synchronous = TRUE
INVARIANT OneWinnerPerTerm
CHECK_DEADLOCK FALSE
