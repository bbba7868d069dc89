CONSTANTS
  MaxTasks = 3
  NumLevels = 3
  MaxThreads = 2
  DefaultPriority = 3
  SpawnThreads = 1
  KeyMod = 6
  NoMod = 4
  KillArgs <- Numbers
  Radix = 2
  IntMod = 16
  U64Mod = 256
  Keyword <- Words
  MaxOtherString = 4
  MaxOption = 3
  Lines <- Typed
  FirstLines <- FirstTyped
  MtLimit = 3
  MtThreadLimit = 2
  PageLines = 2
SPECIFICATION SpecClients
INVARIANTS
  FxTypeOK
  FpuAsLeft
  FpuStateKept
  ParserExact
  NumbersExact
  KillAllReachesAll
  PsListsAll
PROPERTY
  KillsAsAsked
CHECK_DEADLOCK FALSE
