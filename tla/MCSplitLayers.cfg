\* The existence experiment and an evicting one, repeated, with chains of exactly the
\* length that evicts a cache of two entries after one noise read, and two drops: as
\* many as turn a verdict.
SPECIFICATION FairSpec
CONSTANTS
  Nothing = Nothing
  Zero = Zero
  Signal = Signal
  cpu0 = cpu0
  cpu1 = cpu1
  Entries = 4
  Capacity = 2
  Iterations = 2
  MaximumEntries = 3
  NoiseReads = 1
  CPUs <- TwoCPUs
  PinnedCore = cpu0
  RegionsPerTop = 1
  Program <- ExistenceAndSplitLayer
  MaxDisturb = 2
INVARIANTS
  FullIInv
  VerdictSound
