SPECIFICATION FairSpec
CONSTANTS
  File <- IncludeFiles
  Main = "main"
  Programs <- AllPrograms
  Dir = {"d", "e"}
  MainDir = "d"
  IncludeDirs <- ByLink
  Header = {"h.h", "g.h", "u.h", "x.h", "main.c"}
  Lookup <- IncludeLookup
  Unreadable <- Locked
  Unlexable <- Broken
  Name = {"A", "F", "P"}
  Predefined = {"P"}
  Fn = "F"
  Value = {"0", "1"}
  True = "1"
  Undefined = "undefined"
  Malformed = "bad"
  MaxDepth = 3
INVARIANTS
  SectionsNest
  NothingWaitsAcrossFiles
  OnceTextAppearsOnce
  MatchesReference
PROPERTIES
  SkippedGroupsAreInert
  Terminates
CHECK_DEADLOCK FALSE
