SPECIFICATION MCSpec
CONSTANTS
  Targets <- Scaled
  CharBits = 1
  Kinds <- SomeKinds
  Calls = {"CHAR", "UINT"}
  Literals <- SmallInts
  Operators <- SomeOperators
  MaxStack = 2
  Leaves <- SomeLeaves
  PointerOperators <- SomePointerOperators
  Conditions <- SomeConditions
  Further <- SomeFurther
  MaxLevels = 4
  KnownTypes <- SomeTypes
  Objects <- Names
  Declared <- Types
  Null = Null
INVARIANTS
  TypedAsC
  ComputesAsC
  PointersAsC
  QualifiersAreKept
CHECK_DEADLOCK FALSE
