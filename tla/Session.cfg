CONSTANTS
  NC = 2
  Names = {97, 101, 120}
  Existing = {97, 101}
  FileLen = 2
  BufLen = 2
  MSS = 12
  Pauses = {8, 10}
  Junk = {0}
SPECIFICATION FairSpec
INVARIANTS TypeOK ServerStays OneFile
PROPERTIES Service Served
CHECK_DEADLOCK FALSE
