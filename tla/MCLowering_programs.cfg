SPECIFICATION Spec
CONSTANTS
  Programs <- AllPrograms
  Names <- AllNames
  Hidden <- Helpers
  MaxDepth = 8
  Rounds = 2
INVARIANTS
  TypeOK
  LoweredIsMeant
  RefusedRightly
