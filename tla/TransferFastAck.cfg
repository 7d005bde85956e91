\* No loss; an answer may overtake the store into lastSent.
CONSTANTS
  N = 3
  MSS = 1
  CallSizes = {1}
  ReadSizes = {1}
  MaxBytes = 1
  MaxTimeNums = 2
  MaxReadPolls = 2
  InitRwnd = 2
  Retransmits = TRUE
  SlowNetwork = FALSE
  MaxLost = 0
  MaxQueue = 2
SPECIFICATION FairSpec
PROPERTY Acknowledged
\* The applications stop at the bounds of the model.
CHECK_DEADLOCK FALSE
