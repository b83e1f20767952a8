CONSTANTS
  Listings <- MCListings
  Locals1 <- MCLocals1
  Locals2 <- MCLocals2
  Body1Max = 1
  Body2Max = 2
  Extra <- MCZero
  Block <- MCNoBlock

SPECIFICATION Spec

INVARIANT PanicConfined

CHECK_DEADLOCK FALSE
