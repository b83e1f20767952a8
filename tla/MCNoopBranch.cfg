CONSTANTS
  EntryName = "F"
  Names <- MCNames
  Conds = {"true", "c"}
  MaxFree = 5
  NoopBranches = "some"
  EntryLoops = TRUE
  Programs <- MCPrograms
SPECIFICATION Spec
INVARIANT ForcedPassAdvances
CHECK_DEADLOCK FALSE
