SPECIFICATION MCSpec
CONSTANTS
  Names <- AllNames
  Forms <- AllForms
  MaxDecls = 4
  MaxDepth = 3
  MaxCalls = 1
  MaxArgs = 1
INVARIANTS
  NestingAgrees
  LookupIsVisible
  OneCanonicalPerName
  RedeclarationsAgree
  OneBody
  VisibleIsComposite
  CheckedCallsAreCallable
  LinkageAsDeclared
  EveryBodyIsEmitted
PROPERTY
  SymbolsOnlyGrow
CHECK_DEADLOCK FALSE
