\* Every cache of one, two or four sets and up to four ways, and noise.
SPECIFICATION DiscoverySpec
CONSTANTS
  SetBitsEnd = 4
  MaxWays = 5
  Default = 9
  Iterations = 4
  Alignments = 1
  Entries = 18
  Starts <- FirstStarts
  Functions <- HashFunctionList
  Machines <- AllMachines
  Erratic = Erratic
  Answers <- AllAnswers
INVARIANTS
  FindsStructure
  NeverTooFewWays
  SearchSound
  StoredIsMeasured
  SearchIInv
CHECK_DEADLOCK FALSE
