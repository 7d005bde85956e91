\* A ring of 4 slots, segments of up to 2 bytes, a separator in mid-stream.
\* Reads ask for at most N - MSS bytes: what a read holds back leaves room
\* for a segment.
CONSTANTS
  N = 4
  MSS = 2
  ReadSizes = {1, 2}
  Modes = {"all", "sep"}
  Seps = {1, 4}
  MaxBytes = 6
  MaxTimeNums = 1
SPECIFICATION FairSpec
INVARIANTS TypeOK UnreadIntact WindowHonest
PROPERTIES ReadsStream WaitEnds
