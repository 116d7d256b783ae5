SPECIFICATION MCSpec
CONSTANTS
  N = 2
  Priorities = {0, 1}
  MaxTerm = 2
  MaxRestarts = 1
  Synchronous = FALSE
  LoopClients = {c1, c2, c3}
SYMMETRY LoopSymmetry
INVARIANTS OneTermElects BatchesRight  GeneratesAlone
PROPERTIES LeadersAdvance ScheduleSound
