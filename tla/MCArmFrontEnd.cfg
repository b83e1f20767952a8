CONSTANTS
  Listings <- MCListings
  Locals1 <- MCLocals1
  Locals2 <- MCLocals2
  Body1Max = 4
  Body2Max = 2
  Extra <- MCPanicForms
  Block <- MCBlock

SPECIFICATION Spec

INVARIANTS
  TypeOK
  CfgFaithful
  LoweredWellFormed
  ExtractPartition
  AccessesDecoded
  PanicsExactly

CHECK_DEADLOCK FALSE
