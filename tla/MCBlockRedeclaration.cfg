SPECIFICATION ESpec
CONSTANTS
  Names <- ScopeNames
  Forms <- ScopeForms
  MaxDecls = 4
  MaxDepth = 3
  MaxCalls = 0
  MaxArgs = 0
INVARIANT
  RedeclarationsShareCanonical
CHECK_DEADLOCK FALSE
