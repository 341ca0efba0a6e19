CONSTANTS
  QueueSize = 2
  BatchSize = 2
  MaxLines = 3
  MaxFaults = 1
  MaxBoots = 2
  MaxEvents = 3
  NoFile = NoFile
SPECIFICATION FairSpoolSpec
CHECK_DEADLOCK FALSE
INVARIANTS
  NoSilentLoss
  InterruptedJustified
PROPERTIES
  EndRecorded
  Reconciled
