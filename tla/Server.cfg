\* The server, with one datagram at a time in its socket.  It may stop: the
\* user interrupts it, or a truncated announce ends it.
CONSTANTS
  h1 = h1
  h2 = h2
  p1 = p1
  p2 = p2
  p3 = p3
  p4 = p4
  Hash_t = {h1, h2}
  PeerId = {p1, p2, p3, p4}
  Endpoint <- MCEndpoint
  Datagrams <- MCDatagrams
  TransactionId = {0, 1}
  NumWant <- MCNumWant
  LeftAtStart = {0, 1}
  SIZE_T = 8
  INT32 = 8
  DEFAULT_ANNOUNCE_PEERS = 1
  MAX_ANNOUNCE_PEERS = 2
  QUEUE = 1
  PACKET_SIZE = 104
  CONNECT_REQUEST_SIZE = 16
  ANNOUNCE_REQUEST_SIZE = 98
  HASH_SIZE = 20
  PEER_SIZE = 40
  LITTLE_ENDIAN = TRUE
SPECIFICATION Spec
SYMMETRY Symmetry
INVARIANTS ServerTypeOK ListAgreesWithCounts ScrapeAccountsForPeers ResponseFits WellFormedIsAnswered
PROPERTY RefusedChangesNothing
CHECK_DEADLOCK FALSE
