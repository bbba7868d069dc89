CONSTANTS
  QueueSize = 2
  MaxTyped = 4
  KeyEvents <- AllKinds
SPECIFICATION FairSpec
INVARIANTS
  TypeOK
  CodesInOrder
  NoAckQueued
  LEDsShowLocks
PROPERTIES
  LostOnlyWhenFull
  QueueIsEmptied
CHECK_DEADLOCK FALSE
