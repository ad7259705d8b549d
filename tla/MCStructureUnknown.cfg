\* The answers of a machine none of whose measurements passes are among these.
SPECIFICATION Spec
CONSTANTS
  SetBitsEnd = 1
  MaxWays = 2
  Default = 9
  Iterations = 10
  Alignments = 1
  Functions <- TwoFunctions
  Answers <- PassOrFail
INVARIANT
  UnknownIsReported
CHECK_DEADLOCK FALSE
