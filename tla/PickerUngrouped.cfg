\* A directory whose files are not next to each other.
CONSTANTS
  Torrents <- Ungrouped
  MAX_FILES = 100
SPECIFICATION Spec
INVARIANT MarkedFilesAreWanted
