\* One torrent, whose rate may be 0.
CONSTANTS
  Name = {n1}
  POSTS = 1
  RATES = {0, 1}
  ROWS_PER_NAME = 1
  COMMANDS = 1
  UPDATES = 1
SPECIFICATION Spec
PROPERTY FinishedIsShown
\* The program ends when its window is closed.
CHECK_DEADLOCK FALSE
