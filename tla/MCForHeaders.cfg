SPECIFICATION MCSpec
CONSTANTS
  Names = {T}
  Types = {int}
  Object = Object
  Function = Function
  None = None
  MaxScopes = 1
  Identifiers = {"f", "x"}
  Families <- ForHeaders
INVARIANTS
  RejectsMalformedForHeaders
CHECK_DEADLOCK FALSE
