\* Two calls, of either function, on any small cache.
SPECIFICATION Spec
CONSTANTS
  Entries = 6
  Starts <- ThreeTargets
  Machines <- SmallMachines
  LengthEnd = 6
  Arguments <- Structures
  MaxCalls = 2
  End = End
  Nothing = Nothing
INVARIANTS
  FoundSetEvicts
  PrintingStaysOnChain
  GivesUpRightly
  AlignSound
  FaultsOnlyOutside
  EvictionIInv
CHECK_DEADLOCK FALSE
