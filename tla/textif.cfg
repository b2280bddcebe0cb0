SPECIFICATION JitSpec
CONSTANTS
  Names = {main}
  Main = main
  Conditions <- RegReg
  Tags <- Texts
  Forms = {"textIf"}
  BodyLens = {3}
  TextLens = {2}
  MaxStatements = 1
  MaxDepth = 2
  MaxCalls = 1
INVARIANT NeverWild
