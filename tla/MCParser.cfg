SPECIFICATION MCSpec
SYMMETRY Renamings
CONSTANTS
  Names = {T, U}
  Types = {int, short}
  Object = Object
  Function = Function
  None = None
  MaxScopes = 5
  Identifiers = {"f", "x", "T", "S", "P"}
  Families <- Texts
INVARIANTS
  ClassifiesAsC
  SkipsBehindNothing
  ReadsAsC
CHECK_DEADLOCK FALSE
