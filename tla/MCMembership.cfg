SPECIFICATION MCSpec
CONSTANTS
  Worker = {w1, w2}
  Local = {w1}
  Moved = {w2}
  Seeded = {w2}
  Layers = 1
  Announces = TRUE
  MaxVersion = 1
  MaxTerm = 2
  MaxOutages = 1
  MaxCrashes = 0
INVARIANTS TermCoversManifest 
PROPERTIES NeverBack  
