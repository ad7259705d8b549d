\* Three runs, two at a time, and two kills or failing calls.
SPECIFICATION FairSpec
CONSTANTS
  r1 = r1
  r2 = r2
  r3 = r3
  Runs <- Three
  Mixes <- SomeMixes
  Nobody = Nobody
  MaxFaults = 2
  MaxAtOnce = 2
INVARIANTS
  LostWalksExplained
  OneMeasurement
  LeftNamesExplained
PROPERTY RunsEnd
