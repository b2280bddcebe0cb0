SPECIFICATION DriverSpec
CONSTANTS
  Names = {main, sub}
  Main = main
  Conditions <- EveryComparison
  Tags <- StatementTags
  Forms = {}
  BodyLens = {3}
  TextLens = {2}
  MaxStatements = 4
  MaxDepth = 3
  MaxCalls = 2
  ArgLists <- CommandLines
  File = "prog"
ACTION_CONSTRAINT
  InFamily
INVARIANTS
  LoopControlBinds
  ConditionExact
  CallsReachEntry
  NeverWild
  OutcomeTold
  OnlyReadyCodeRuns
  DumpsInOrder
PROPERTIES
  RunsTheProgram
  NeverStalls
  ProcessEnds
