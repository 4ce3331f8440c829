SPECIFICATION Spec
CONSTANTS
  Commands <- AllCommands
  Bundles <- Library
  Literals <- LiteralForms
INVARIANTS
  TypeOK
  SourcesAreLoaded
  GeneratedAreSound
  HelpersArePrivate
  CompiledIsMeant
PROPERTIES
  ArrowsStay
