CONSTANTS
  QueueSize = 3
  MaxTyped = 2
  KeyEvents <- Toggle
SPECIFICATION FairSpec
PROPERTY
  InterruptEnds
CHECK_DEADLOCK FALSE
