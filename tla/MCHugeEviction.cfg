\* As many huge pages are mapped as the huge TLB has entries.
SPECIFICATION Spec
CONSTANTS
  TableEntries = 5
  FirstSubs = 3
  Layouts <- SmallLayouts
  Garbage = {}
  MaxDirty = 0
  Fan = 4
  TopEntries = 3
  Targets <- FewTargets
  HugeBase = 12
  HugePages = 4
  PcidEnd = 4
  OwnPcid = 2
  LateIterations = 2
  SubEntries = 7
  MaxQueries = 1
  Hosts <- HugeHosts
  Sessions <- HugeSessions
  Texts <- Short
  QueryStarts <- OneStart
INVARIANT
  MappedPagesEvict
CHECK_DEADLOCK FALSE
