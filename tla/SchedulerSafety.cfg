CONSTANTS
  MaxTasks = 4
  NumLevels = 5
  MaxThreads = 2
  DefaultPriority = 3
  SpawnThreads = 2
  KeyMod = 3
  NoMod = 8
  KillArgs <- KillEach
SPECIFICATION Spec
INVARIANTS
  TypeOK
  QueuesHoldLive
  CountsAgree
  RunningIsFront
  ThreadsLinked
  WaitingIsDoomed
  ProgramsFit
  ThreadsMade
PROPERTY
  OthersKeepContext
