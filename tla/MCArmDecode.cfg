CONSTANTS
  Listings <- MCListings
  Locals1 <- MCLocals1
  Locals2 <- MCLocals2
  Body1Max = 1
  Body2Max = 0
  Extra <- MCNoExtra
  Block <- MCBlockFull

SPECIFICATION Spec

INVARIANTS
  AccessesDecoded

CHECK_DEADLOCK FALSE
