SPECIFICATION Spec
CONSTANTS
  CommandLines <- Lines
  Dashed <- OptionWords
  DirectoryOf <- Directories
  Texts <- Outputs
INVARIANTS
  ReadsCommandLine
  JoinsLiterals
  UnitIsWhole
PROPERTIES
  Implements
CHECK_DEADLOCK FALSE
