SPECIFICATION Spec
CONSTANTS
  Names = {main}
  Main = main
  Conditions <- RegReg
  Tags <- Branches
  Forms = {"emptyThen"}
  BodyLens = {3}
  TextLens = {2}
  MaxStatements = 2
  MaxDepth = 2

INVARIANT CodeIntact
