SPECIFICATION MCSpec
CONSTANTS
  Spelling <- Spellings
  Identifier <- Names
  Predefined = {"L"}
  PredefinedText = "1"
  Joined <- Pastes
  Tables <- AllTables
  Inputs <- Texts1
  MaxDepth = 4
  MaxHide = 20
  MaxExpansions = 12
  Letters <- InUse
  Contents <- Files
  Characters <- InFiles
INVARIANTS
  MatchesReference
  NothingLeftToExpand
  PasteHasOperands
  LocationsPoint
  TokenizesAsC
  LexersAgree
  DiagnosticsPoint
  QuotingIsUndone
PROPERTIES
  Terminates
CHECK_DEADLOCK FALSE
