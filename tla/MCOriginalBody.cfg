CONSTANTS
  EntryName = "F"
  Names <- MCNames
  Conds = {"true", "c"}
  MaxFree = 3
  NoopBranches = "none"
  EntryLoops = FALSE
  Programs <- MCPrograms
SPECIFICATION Spec
INVARIANT OriginalBodyUnreachable
CHECK_DEADLOCK FALSE
