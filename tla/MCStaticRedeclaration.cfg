SPECIFICATION ESpec
CONSTANTS
  Names <- FunctionNames
  Forms <- FunctionForms
  MaxDecls = 4
  MaxDepth = 1
  MaxCalls = 0
  MaxArgs = 0
INVARIANT
  CompatibleAreAccepted
CHECK_DEADLOCK FALSE
