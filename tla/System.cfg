\* One client, whose requests come in any order, so that what it sent in an
\* earlier stay is still under way in the next.  Other clients share only the
\* counters with it.  It always joins with something left to download.
CONSTANTS
  Hash_t = {h1}
  InfoHash = h1
  PeerId = {p1}
  Endpoint = {e1, e2}
  LeftAtStart = {1}
  SIZE_T = 4
  INT32 = 8
  DEFAULT_ANNOUNCE_PEERS = 1
  MAX_ANNOUNCE_PEERS = 2
  CHANNEL = 2
  FAULTS = {"lose", "restart", "crash"}
SPECIFICATION SystemSpec
INVARIANTS SystemTypeOK CountsMatchRoles AcknowledgedIsListed ListedAddressIsCurrent LeftIsForgotten
PROPERTY RequestsEnd
