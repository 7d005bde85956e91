\* One datagram is lost.
CONSTANTS
  N = 3
  MSS = 1
  CallSizes = {1}
  ReadSizes = {1}
  MaxBytes = 1
  MaxTimeNums = 2
  MaxReadPolls = 2
  InitRwnd = 2
  Retransmits = TRUE
  SlowNetwork = TRUE
  MaxLost = 1
  MaxQueue = 2
SPECIFICATION FairSpec
PROPERTY Acknowledged
\* The applications stop at the bounds of the model.
CHECK_DEADLOCK FALSE
