CONSTANTS
  EntryName = "F"
  Names <- MCNames
  Conds = {"true", "c"}
  MaxFree = 3
  NoopBranches = "none"
  EntryLoops = TRUE
  Programs <- MCPrograms
SPECIFICATION Spec
INVARIANT EveryLoopAsserted
CHECK_DEADLOCK FALSE
