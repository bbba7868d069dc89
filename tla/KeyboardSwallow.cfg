CONSTANTS
  QueueSize = 3
  MaxTyped = 3
  KeyEvents <- Letters
SPECIFICATION Spec
INVARIANT
  PoppedWasRead
CHECK_DEADLOCK FALSE
