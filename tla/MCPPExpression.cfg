SPECIFICATION Spec
CONSTANTS
  Width = 3
  MaxNesting = 256
  Families <- Expressions
INVARIANT
  Agrees
CHECK_DEADLOCK FALSE
