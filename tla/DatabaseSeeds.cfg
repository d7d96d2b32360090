\* Peers may also start with nothing left, as a client that shares its own
\* torrent does.
CONSTANTS
  Hash_t = {h1}
  PeerId = {p1, p2}
  Endpoint = {e1}
  LeftAtStart = {0, 1}
  SIZE_T = 8
  INT32 = 8
  DEFAULT_ANNOUNCE_PEERS = 1
  MAX_ANNOUNCE_PEERS = 2
SPECIFICATION DBSpec
INVARIANT CountsMatchRoles
