CONSTANTS
  Listings <- MCListings
  Locals1 <- MCLocals1B
  Locals2 <- MCLocals2
  Body1Max = 3
  Body2Max = 0
  Extra <- MCAllExtra
  Block <- MCNoBlock

SPECIFICATION Spec

INVARIANT CfgFaithful

CHECK_DEADLOCK FALSE
