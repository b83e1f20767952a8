CONSTANTS
  EntryName = "F"
  Names <- MCNames
  Conds = {"true", "c"}
  MaxFree = 5
  NoopBranches = "none"
  EntryLoops = TRUE
  Programs <- MCPrograms
SPECIFICATION Spec
INVARIANTS
  TypeOK
  ReachabilityPreserved
  LabelsResolve
  HeadersBroken
  ForcedPassAdvances
  AssertionsCoverLoops
  ExitLabelsIdempotent
PROPERTIES
  ControlFlowRefined
CHECK_DEADLOCK FALSE
