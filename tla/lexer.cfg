SPECIFICATION Spec
CONSTANTS
  Texts <- SmallTexts
  Letters <- SomeLetters
  KEYWORDS <- SomeKeywords
  MaxInt = 19
INVARIANTS
  TypeOK
  LongestMatch
  NothingLost
  StopsWhereNothingStarts
  PositionsExact
  ValuesExact
  OnlyLastCommentRunsOut
PROPERTY
  LexingEnds
CHECK_DEADLOCK FALSE
