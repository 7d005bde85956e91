\* One byte to send, and sendto may fail.
CONSTANTS
  N = 3
  MSS = 1
  CallSizes = {1}
  MaxBytes = 1
  MaxTimeNums = 2
  SendFails = TRUE
  WaitLimits = FALSE
SPECIFICATION FairSpec
CHECK_DEADLOCK FALSE
PROPERTY Answered
