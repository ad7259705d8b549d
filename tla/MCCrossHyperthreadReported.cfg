\* A quiet run and a reported one; nothing times out and nothing fails.
SPECIFICATION Spec
CONSTANTS
  Runs = 2
  Iterations = 2
  Pcids = 2
  All = All
  Nothing = Nothing
  SubLate = FALSE
  MaxDisturb = 1
  MainLate = FALSE
  CreateFails = FALSE
INVARIANT
  ReportedRunsMeasure
