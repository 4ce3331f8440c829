SPECIFICATION FairSpec
CONSTANTS
  Def = {d1, d2, d3}
  Nameable = {d1}
  None = None
INVARIANTS
  TypeOK
  CyclesAreReported
  ResultIsExpansion
  NothingDangles
PROPERTY
  Ends
