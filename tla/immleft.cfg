SPECIFICATION Spec
CONSTANTS
  Names = {main}
  Main = main
  Conditions <- ImmLeft
  Tags <- Straight
  Forms = {"immLeft"}
  BodyLens = {3}
  TextLens = {2}
  MaxStatements = 1
  MaxDepth = 2

INVARIANT ConditionExact
