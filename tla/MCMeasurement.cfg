\* Every experiment once, in the order of device_read.
SPECIFICATION FairSpec
CONSTANTS
  Nothing = Nothing
  Zero = Zero
  Signal = Signal
  cpu0 = cpu0
  cpu1 = cpu1
  Entries = 4
  Capacity = 1
  Iterations = 1
  MaximumEntries = 2
  NoiseReads = 1
  CPUs <- TwoCPUs
  PinnedCore = cpu0
  RegionsPerTop = 4
  Program <- AllExperiments
  MaxDisturb = 1
INVARIANTS
  WindowClosed
  SignalIntact
  WalkStaysMapped
  FetchPermitted
  MissSound
  HitSound
PROPERTIES
  ImplementsOracle
  Termination
