\* Slow start is left after two acknowledgments, the duplicate counter wraps
\* at 6, and the peer's window is closed, one segment or two.
CONSTANTS
  MSS = 2
  InitThresh = 6
  Rwnds = {0, 2, 4}
  DupWidth = 6
  MaxReports = 7
SPECIFICATION Spec
INVARIANTS TypeOK DuplicatesPay AckClocked
