\* No loss, no retransmission, and no answer that overtakes the store into
\* lastSent.
CONSTANTS
  N = 3
  MSS = 1
  CallSizes = {1, 2}
  ReadSizes = {1}
  MaxBytes = 3
  MaxTimeNums = 2
  MaxReadPolls = 2
  InitRwnd = 2
  Retransmits = FALSE
  SlowNetwork = TRUE
  MaxLost = 0
  MaxQueue = 2
SPECIFICATION FairSpec
PROPERTIES EndToEnd Delivered Acknowledged
