SPECIFICATION Spec
CONSTANT
  Families <- Functions
INVARIANTS
  Verifies
  ParameterIsCurrent
PROPERTY
  RunsAsWritten
CHECK_DEADLOCK FALSE
