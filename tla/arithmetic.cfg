SPECIFICATION Spec
CONSTANTS
  Regs <- SomeRegs
  Operands <- SomeOperands
  WordBits = 4
  DwordBits = 3
  ByteBits = 2
  Operations <- AllOperations
  Forms = {}
INVARIANTS
  ComputesExactly
  TrapsOnZero
