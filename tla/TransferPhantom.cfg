\* No loss; timers expire early.
CONSTANTS
  N = 3
  MSS = 1
  CallSizes = {1}
  ReadSizes = {1}
  MaxBytes = 2
  MaxTimeNums = 2
  MaxReadPolls = 2
  InitRwnd = 2
  Retransmits = TRUE
  SlowNetwork = TRUE
  MaxLost = 0
  MaxQueue = 2
SPECIFICATION Spec
PROPERTY EndToEnd
