CONSTANTS
  Parsed <- MCParsed
  Wanted <- MCWanted
  ArchWidth = "Wide"

SPECIFICATION Spec

INVARIANTS
  TypeOK
  DecodedAsNamed
  ValueMasks

CHECK_DEADLOCK FALSE
