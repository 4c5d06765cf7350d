SPECIFICATION ESpec
CONSTANTS
  Names <- ArrayNames
  Forms <- ArrayForms
  MaxDecls = 4
  MaxDepth = 1
  MaxCalls = 0
  MaxArgs = 0
INVARIANT
  TentativeArraysComplete
CHECK_DEADLOCK FALSE
