\* One session of the tools on each machine, with one query.
SPECIFICATION Spec
CONSTANTS
  TableEntries = 5
  FirstSubs = 3
  Layouts <- SmallLayouts
  Garbage = {word}
  MaxDirty = 1
  Fan = 4
  TopEntries = 3
  Targets <- FewTargets
  HugeBase = 12
  HugePages = 4
  PcidEnd = 4
  OwnPcid = 2
  LateIterations = 2
  SubEntries = 7
  MaxQueries = 1
  Hosts <- AllHosts
  Sessions <- AllSessions
  Texts <- AllTexts
  QueryStarts <- OneStart
INVARIANTS
  FileHoldsPages
  PagesMapped
  VectorsSound
  NestingSound
  HugeSound
  PcidsSound
  NoStaleTranslation
  ToolsAgree
  ScriptsHold
  FaultsExplained
CHECK_DEADLOCK FALSE
