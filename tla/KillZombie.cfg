CONSTANTS
  MaxTasks = 4
  NumLevels = 3
  MaxThreads = 2
  DefaultPriority = 3
  SpawnThreads = 2
  KeyMod = 2
  NoMod = 8
  KillArgs <- KillEach
SPECIFICATION FairSpec
PROPERTY
  KilledTaskFreed
