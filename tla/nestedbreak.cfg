SPECIFICATION Spec
CONSTANTS
  Names = {main}
  Main = main
  Conditions <- RegReg
  Tags <- LoopControl
  Forms = {"pendingLoop"}
  BodyLens = {3}
  TextLens = {2}
  MaxStatements = 3
  MaxDepth = 2

INVARIANT LoopControlBinds
