CONSTANTS
  Listings <- MCListings
  Locals1 <- MCLocalA
  Locals2 <- MCNone
  Refs <- MCRefs
  Body1Max = 3
  Body2Max = 2
  Block <- MCBlock

SPECIFICATION Spec

INVARIANTS
  TypeOK
  PanicsExactly
  CfgFaithful
  InstructionsDecoded

CHECK_DEADLOCK FALSE
