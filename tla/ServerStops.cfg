\* Whether an interrupt ends the server.  Two peers are enough for it, and it may
\* stop.
CONSTANTS
  h1 = h1
  h2 = h2
  p1 = p1
  p2 = p2
  p3 = p2
  p4 = p2
  Hash_t = {h1, h2}
  PeerId = {p1, p2}
  Endpoint <- MCEndpoint
  Datagrams <- MCDatagrams
  TransactionId = {0, 1}
  NumWant <- MCNumWant
  LeftAtStart = {0, 1}
  SIZE_T = 4
  INT32 = 4
  DEFAULT_ANNOUNCE_PEERS = 1
  MAX_ANNOUNCE_PEERS = 1
  QUEUE = 1
  PACKET_SIZE = 104
  CONNECT_REQUEST_SIZE = 16
  ANNOUNCE_REQUEST_SIZE = 98
  HASH_SIZE = 20
  PEER_SIZE = 40
  LITTLE_ENDIAN = TRUE
SPECIFICATION Spec
PROPERTY OneMoreDatagramStops
CHECK_DEADLOCK FALSE
