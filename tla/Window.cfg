\* Two torrents, each in the list at most once.
CONSTANTS
  Name = {n1, n2}
  POSTS = 1
  RATES = {1}
  ROWS_PER_NAME = 1
  COMMANDS = 1
  UPDATES = 1
SPECIFICATION Spec
SYMMETRY Symmetry
INVARIANTS WindowTypeOK RowsAreServed DeletedStaysDeleted PausedAsShown FinishedIsTrue ButtonsMatchCurrentRow
\* The program ends when its window is closed.
CHECK_DEADLOCK FALSE
