\* One search; the set it returns can be shortened.
SPECIFICATION Spec
CONSTANTS
  Entries = 7
  Starts <- TwoTargets
  Machines <- OneMachine
  LengthEnd = 9
  Arguments <- Structures
  MaxCalls = 1
  End = End
  Nothing = Nothing
INVARIANT
  FoundSetIsMinimal
CHECK_DEADLOCK FALSE
