\* A ring of 4 slots, segments of 2 bytes: the indices wrap, calls fill the
\* ring, a burst takes two segments.
CONSTANTS
  N = 4
  MSS = 2
  CallSizes = {1, 2, 3, 5}
  MaxBytes = 5
  MaxTimeNums = 2
  SendFails = TRUE
  WaitLimits = TRUE
SPECIFICATION FairSpec
\* The program really stops when the application has nothing more to write and
\* both threads have ended on a failed sendto.
CHECK_DEADLOCK FALSE
INVARIANTS TypeOK RingOrder UnackedIntact NewDataIntact NoShortSend
PROPERTIES PointersAdvance AnsweredWhileSending
