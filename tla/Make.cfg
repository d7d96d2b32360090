\* Sources and folders of which one is refused, a folder without files, and up to
\* two lines of trackers.
CONSTANTS
  Files = {"f", "g"}
  Folders = {"d", "e"}
  Readable = {"f", "d"}
  Shareable = {"f", "g"}
  Writable = {"d"}
  Trackers = {"u"}
  Names = {"n"}
  LINES = 2
SPECIFICATION Spec
INVARIANT MakeTypeOK
PROPERTY WrittenAsShown
