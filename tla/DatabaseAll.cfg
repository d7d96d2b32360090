\* One torrent and four peers that may start as leechers or as seeds.  SIZE_T
\* is small enough for every counter to wrap, and four is negative as an int32_t.
CONSTANTS
  Hash_t = {h1}
  PeerId = {p1, p2, p3, p4}
  Endpoint = {e1}
  LeftAtStart = {0, 1}
  SIZE_T = 8
  INT32 = 8
  DEFAULT_ANNOUNCE_PEERS = 1
  MAX_ANNOUNCE_PEERS = 2
SPECIFICATION DBSpec
INVARIANTS TypeOK OneNodePerPeer SelectionEnds CountsAddUp RepeatedAnnounceIsHarmless
PROPERTY ImplementsRegistry
