\* A datagram is lost, timers expire at any time, answers may be fast.  The
\* third byte takes every index back to 0.
CONSTANTS
  N = 3
  MSS = 1
  CallSizes = {1}
  ReadSizes = {1}
  MaxBytes = 3
  MaxTimeNums = 2
  MaxReadPolls = 0
  InitRwnd = 2
  Retransmits = TRUE
  SlowNetwork = FALSE
  MaxLost = 1
  MaxQueue = 1
SPECIFICATION Spec
\* The applications may stop: everything written, read and acknowledged.
CHECK_DEADLOCK FALSE
INVARIANT AckedNotAhead
