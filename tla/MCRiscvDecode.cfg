CONSTANTS
  Listings <- MCListings
  Locals1 <- MCNone
  Locals2 <- MCNone
  Refs <- MCNone
  Body1Max = 1
  Body2Max = 1
  Block <- MCBlockBad

SPECIFICATION Spec

INVARIANT InstructionsDecoded

CHECK_DEADLOCK FALSE
