\* One torrent, in the list once or twice, whose rate is never 0 once it loads.
CONSTANTS
  Name = {n1}
  POSTS = 1
  RATES = {1}
  ROWS_PER_NAME = 2
  COMMANDS = 1
  UPDATES = 1
SPECIFICATION Spec
PROPERTIES OpeningEnds ClosingEnds FinishedIsShown
\* The program ends when its window is closed.
CHECK_DEADLOCK FALSE
