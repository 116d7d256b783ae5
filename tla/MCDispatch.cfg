SPECIFICATION MCSpec
CONSTANTS
  Worker = {w1, w2}
  MaxMissed = 3
  Nonce = {0, 1, 2, 3, 4}
  FreeBlocks = {2, 9}
  Traffic = FALSE
  Late = FALSE
  MaxLeaves = 1
INVARIANTS SilenceCounted  
PROPERTIES  EndsAreNoticed
