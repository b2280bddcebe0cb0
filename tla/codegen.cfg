SPECIFICATION Spec
CONSTANTS
  Names = {main}
  Main = main
  Conditions <- RegImmOrRefused
  Tags <- StatementTags
  Forms = {"pendingLoop"}
  BodyLens = {3}
  TextLens = {2}
  MaxStatements = 4
  MaxDepth = 3
ACTION_CONSTRAINT
  InFamily
INVARIANTS
  TypeOK
  PendingReserved
  CodeIntact
  JumpsStayInProcedure
  SkipsToNext
  BlocksJump
PROPERTY
  PatchesInPlace
