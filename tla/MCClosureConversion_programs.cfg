SPECIFICATION Spec
CONSTANTS
  Terms <- ProgramTerms
  Primitives = {"fold", "both"}
  Depth = 1
  Definitions = {"apply", "capture", "poly", "give"}
  Others = {}
INVARIANTS
  TypeOK
  NeverPanics
  RefusesUnnamedOnly
  FunctionsAreClosureFree
  EachOperationOnce
  WiresAreMade
  MeaningIsKept
CHECK_DEADLOCK FALSE
