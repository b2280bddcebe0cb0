SPECIFICATION Spec
CONSTANTS
  Vocabularies <- Sources
  Registers = {"rax"}
  Numbers = {"1"}
  Texts = {"text"}
  Names = {"main", "f"}
INVARIANTS
  TypeOK
  RoundTrip
  ErrorsAreErrors
  NamesUnique
  FitsCodeGen
PROPERTY
  ParsingEnds
CHECK_DEADLOCK FALSE
