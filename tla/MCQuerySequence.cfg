\* A trigger on a cache that replaces like MRH, with two of the script's queries.
SPECIFICATION Spec
CONSTANTS
  TableEntries = 5
  FirstSubs = 3
  Layouts <- SmallLayouts
  Garbage = {}
  MaxDirty = 0
  Fan = 4
  TopEntries = 3
  Targets <- FewTargets
  HugeBase = 12
  HugePages = 4
  PcidEnd = 4
  OwnPcid = 2
  LateIterations = 2
  SubEntries = 7
  MaxQueries = 2
  Hosts <- MrhHosts
  Sessions <- MrhSessions
  Texts <- MrhTexts
  QueryStarts <- TwoStarts
INVARIANT
  QueriesAnswered
CHECK_DEADLOCK FALSE
