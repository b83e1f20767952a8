CONSTANTS
  EntryName = "F"
  Names <- MCNames
  Conds = {"true", "c"}
  MaxFree = 5
  NoopBranches = "none"
  EntryLoops = FALSE
  Programs <- MCPrograms
SPECIFICATION Spec
INVARIANT NoPanic
CHECK_DEADLOCK FALSE
