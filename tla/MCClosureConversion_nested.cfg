SPECIFICATION Spec
CONSTANTS
  Terms <- ProgramTerms
  Primitives = {"fold", "both"}
  Depth = 0
  Definitions = {"computed"}
  Others = {}
INVARIANTS
  NoWireEscapes
CHECK_DEADLOCK FALSE
