\* A quiet run and a reported one; waits may time out and creations fail.
SPECIFICATION Spec
CONSTANTS
  Runs = 2
  Iterations = 2
  Pcids = 2
  All = All
  Nothing = Nothing
  SubLate = TRUE
  MaxDisturb = 1
  MainLate = TRUE
  CreateFails = TRUE
INVARIANTS
  TypeOK
  FirstRunInStep
  NoFalseMiss
  DataLive
PROPERTIES
  ThreadsEnd
