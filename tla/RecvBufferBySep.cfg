\* The server's calls: recvFromResfBySep with isTimeout 0.
CONSTANTS
  N = 4
  MSS = 2
  ReadSizes = {3}
  Modes = {"sepTimeout"}
  Seps = {2}
  MaxBytes = 3
  MaxTimeNums = 1
SPECIFICATION Spec
PROPERTY ReadsStream
