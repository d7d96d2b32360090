\* Every click on the tree, ends and crashes of the program at every point, and
\* starts at which any of the torrents are out of reach.
CONSTANTS
  Torrents <- TwoTorrents
  MAX_FILES = 100
SPECIFICATION DatabaseSpec
INVARIANTS DatabaseTypeOK LevelsEncodeTree DirectoryMarkedIffFilesAre MarkedFilesAreWanted
PROPERTY ImplementsDownloadList
