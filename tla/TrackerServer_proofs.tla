------------------------- MODULE TrackerServer_proofs -------------------------
(***************************************************************************)
(* Proofs about the tracker's server, for any datagrams and any sizes that *)
(* agree with SizeAssumption.                                              *)
(***************************************************************************)
EXTENDS TrackerServer, TorrentDataBase_proofs, Arithmetic

(***************************************************************************)
(* Parsing.                                                                *)
(***************************************************************************)

\* A request that announces although it is malformed has no info hash or no
\* event, and the hashes of a scrape are no more than fitted in the datagram.
RequestOK(r) ==
  /\ r.action = "ANNOUNCE" /\ r.error_message # NoError => r.info_hashes = <<>> \/ r.event = Other
  /\ r.action = "SCRAPE" => 8 + 12 * Len(r.info_hashes) <= PACKET_SIZE

\* A request that the parser did not abandon is complete.
Complete(r) ==
  r.error_message = NoError =>
    r.action \in ActionType /\ (r.action = "ANNOUNCE" => r.info_hashes # <<>>)

LEMMA ReceivedSize ==
  ASSUME NEW d \in Datagrams
  PROVE  /\ d \in Datagram /\ Received(d) \in Nat
         /\ Received(d) <= d.size /\ Received(d) <= PACKET_SIZE
  <1>1. d \in Datagram /\ d.size \in Nat /\ PACKET_SIZE \in Nat
    BY DatagramAssumption, SizeAssumption DEF Datagram
  <1>2. \E x \in {d.size, PACKET_SIZE} : \A y \in {d.size, PACKET_SIZE} : x =< y
    <2>1. CASE d.size <= PACKET_SIZE
      BY <1>1, <2>1
    <2>2. CASE PACKET_SIZE <= d.size
      BY <1>1, <2>2
    <2> QED BY <1>1, <2>1, <2>2
  <1>3. /\ Min({d.size, PACKET_SIZE}) \in {d.size, PACKET_SIZE}
        /\ \A y \in {d.size, PACKET_SIZE} : Min({d.size, PACKET_SIZE}) =< y
    BY <1>2 DEF Min
  <1> QED BY <1>1, <1>3 DEF Received

\* The info hashes are those that the bytes received spell.
LEMMA InfoHashesType ==
  ASSUME NEW d \in Datagrams
  PROVE  /\ InfoHashes(d) \in Seq(Hash_t)
         /\ d.action = "SCRAPE" => 8 + 12 * Len(InfoHashes(d)) <= PACKET_SIZE
  <1>1. /\ d \in Datagram /\ d.size \in Nat /\ Received(d) \in Nat
        /\ d.hashes \in Seq(Hash_t)
        /\ Received(d) <= d.size /\ Received(d) <= PACKET_SIZE
    BY ReceivedSize DEF Datagram
  <1>2. /\ PACKET_SIZE \in Nat /\ 68 <= PACKET_SIZE /\ CONNECT_REQUEST_SIZE \in Nat
        /\ 8 <= CONNECT_REQUEST_SIZE /\ HASH_SIZE \in Nat \ {0} /\ 12 <= HASH_SIZE
    BY SizeAssumption
  <1>3. CASE TooShort(d) \/ BadAction(d) \/ ShortAnnounce(d) \/ BadScrape(d)
    <2>1. InfoHashes(d) = <<>>
      BY <1>3 DEF InfoHashes
    <2> QED BY <1>2, <2>1
  <1>4. CASE ~(TooShort(d) \/ BadAction(d) \/ ShortAnnounce(d) \/ BadScrape(d))
    <2>1. CASE d.action # "SCRAPE"
      BY <1>1, <1>4, <2>1 DEF InfoHashes
    <2>2. CASE d.action = "SCRAPE"
      <3> DEFINE bytes == Received(d) - CONNECT_REQUEST_SIZE
                 all == d.size - CONNECT_REQUEST_SIZE
                 n == bytes \div HASH_SIZE
      <3>1. bytes \in Nat /\ all \in Nat /\ bytes <= all
        BY <1>1, <1>2, <1>4 DEF TooShort
      <3>2. Len(d.hashes) = all \div HASH_SIZE
        BY <1>1, <1>2, <2>2, <3>1, DatagramAssumption
      <3>3. InfoHashes(d) = SubSeq(d.hashes, 1, n)
        BY <1>4, <2>2 DEF InfoHashes
      <3> HIDE DEF all
      <3>4. n \in Nat /\ bytes % HASH_SIZE \in 0..HASH_SIZE-1
            /\ bytes = HASH_SIZE * n + (bytes % HASH_SIZE)
        BY <1>2, <3>1, Division
      <3>5. n <= Len(d.hashes)
        BY <1>2, <3>1, <3>2, QuotientIsMonotonic
      <3> DEFINE m == bytes % HASH_SIZE
      <3>6. 12 * n <= HASH_SIZE * n
        <4>1. HASH_SIZE * n = 12 * n + (HASH_SIZE - 12) * n
          BY <1>2, <3>4
        <4>2. (HASH_SIZE - 12) * n \in Nat
          <5> DEFINE k == HASH_SIZE - 12
          <5>1. k \in Nat
            BY <1>2
          <5> HIDE DEF k
          <5>2. k * n \in Nat
            BY <3>4, <5>1
          <5> QED BY <5>2 DEF k
        <4> QED BY <3>4, <4>1, <4>2
      <3> HIDE DEF n, m
      <3>7. HASH_SIZE * n \in Nat
        BY <1>2, <3>4
      <3>8. m \in Nat /\ Received(d) - CONNECT_REQUEST_SIZE = HASH_SIZE * n + m
        BY <1>2, <3>4 DEF m
      <3>9. 8 + 12 * n <= PACKET_SIZE
        <4> HIDE DEF bytes
        <4>1. 12 * n \in Nat
          BY <3>4
        <4> QED BY <1>1, <1>2, <3>6, <3>7, <3>8, <4>1
      <3>10. SubSeq(d.hashes, 1, n) \in Seq(Hash_t) /\ Len(SubSeq(d.hashes, 1, n)) = n
        <4>1. SubSeq(d.hashes, 1, n) = [i \in 1..n |-> d.hashes[i]]
          BY <1>1, <3>4, <3>5
        <4>2. \A i \in 1..n : d.hashes[i] \in Hash_t
          BY <1>1, <3>4, <3>5
        <4> QED BY <3>4, <4>1, <4>2
      <3> QED BY <3>3, <3>9, <3>10 DEF n
    <2> QED BY <2>1, <2>2
  <1> QED BY <1>3, <1>4

LEMMA ParsedRequest ==
  ASSUME NEW d \in Datagrams, NEW r \in parse_UDP_request(d)
  PROVE  r \in Request /\ RequestOK(r) /\ Complete(r)
  <1>1. /\ d.action \in ActionType \cup {Other} /\ d.transaction_id \in TransactionId
        /\ d.peer_id \in PeerId /\ d.left \in Left /\ d.event \in EventType \cup {Other}
        /\ d.num_want \in NumWant /\ d.from \in Endpoint
    BY ReceivedSize DEF Datagram
  <1>2. SenderOf(d) \in Sender
    BY <1>1 DEF SenderOf, Sender, Peer
  <1>3. /\ InfoHashes(d) \in Seq(Hash_t)
        /\ d.action = "SCRAPE" => 8 + 12 * Len(InfoHashes(d)) <= PACKET_SIZE
    BY InfoHashesType
  <1>4. PICK action \in Actions(d), tid \in TransactionIds(d), num_want \in NumWants(d) :
          r = [action |-> action, transaction_id |-> tid, info_hashes |-> InfoHashes(d),
               sender |-> SenderOf(d), event |-> d.event, num_want |-> num_want,
               error_message |-> ErrorMessage(d)]
    BY DEF parse_UDP_request
  <1>5. r \in Request
    BY <1>1, <1>2, <1>3, <1>4 DEF Request, Actions, TransactionIds, NumWants, ErrorMessage
  <1>6. TooShort(d) => InfoHashes(d) = <<>>
    BY DEF InfoHashes
  <1>7. r.action = "SCRAPE" => 8 + 12 * Len(r.info_hashes) <= PACKET_SIZE
    <2>1. CASE TooShort(d)
      <3>1. r.info_hashes = <<>> /\ Len(<<>>) = 0
        BY <1>4, <1>6, <2>1
      <3>2. PACKET_SIZE \in Nat /\ 68 <= PACKET_SIZE
        BY SizeAssumption
      <3> QED BY <3>1, <3>2
    <2>2. CASE ~TooShort(d)
      BY <1>3, <1>4, <2>2 DEF Actions
    <2> QED BY <2>1, <2>2
  <1>8. ASSUME r.action = "ANNOUNCE", r.error_message # NoError
        PROVE  r.info_hashes = <<>> \/ r.event = Other
    <2>1. Malformed(d)
      BY <1>4, <1>8 DEF ErrorMessage
    <2>2. CASE BadEvent(d)
      BY <1>4, <2>2 DEF BadEvent
    <2>3. CASE TooShort(d) \/ BadAction(d) \/ ShortAnnounce(d) \/ BadScrape(d)
      BY <1>4, <2>3 DEF InfoHashes
    <2> QED BY <2>1, <2>2, <2>3 DEF Malformed
  <1>9. ASSUME r.error_message = NoError
        PROVE  r.action \in ActionType /\ (r.action = "ANNOUNCE" => r.info_hashes # <<>>)
    <2>1. ~Malformed(d)
      BY <1>4, <1>9 DEF ErrorMessage, NoError
    <2>2. r.action = d.action /\ d.action \in ActionType
      BY <1>1, <1>4, <2>1 DEF Malformed, Actions, BadAction
    <2>3. ASSUME r.action = "ANNOUNCE" PROVE r.info_hashes # <<>>
      <3>1. r.info_hashes = d.hashes
        BY <1>4, <2>1, <2>2, <2>3 DEF Malformed, InfoHashes
      <3>2. d.hashes \in Seq(Hash_t) /\ Len(d.hashes) = 1
        BY <2>2, <2>3, ReceivedSize, DatagramAssumption DEF Datagram
      <3>3. d.hashes # <<>>
        <4>1. Len(<<>>) = 0 /\ 0 # 1
          OBVIOUS
        <4> QED BY <3>2, <4>1, Zenon
      <3> QED BY <3>1, <3>3
    <2> QED BY <2>2, <2>3
  <1> QED BY <1>5, <1>7, <1>8, <1>9 DEF RequestOK, Complete

(***************************************************************************)
(* The list of a response.                                                 *)
(***************************************************************************)

\* A list holds nodes of the table, and no more than the limit.
LEMMA ListedPeers ==
  ASSUME NEW t \in Torrent, OneNode(t), NEW num_want \in Int, NEW peers \in get_peer_list(t, num_want)
  PROVE  /\ peers \subseteq Peer
         /\ Cardinality(peers) \in Nat /\ Cardinality(peers) <= MAX_ANNOUNCE_PEERS
  <1>1. PICK selected \in kSubset(ListLength(t, num_want), Registered(t)) :
          peers = {Head(t.all_peers[p]) : p \in selected}
    BY DEF get_peer_list
  <1>2. /\ selected \subseteq Registered(t) /\ Cardinality(selected) = ListLength(t, num_want)
    BY <1>1 DEF kSubset
  <1>3. /\ IsFiniteSet(Registered(t)) /\ Cardinality(Registered(t)) \in Nat
        /\ Cardinality(Nodes(t)) = Cardinality(Registered(t))
    BY SizeIsRegistered, FS_CardinalityType
  <1>4. IsFiniteSet(selected)
    BY <1>2, <1>3, FS_Subset
  <1>5. ListLength(t, num_want) <= MAX_ANNOUNCE_PEERS
    BY <1>3, ListLengthBound
  <1> DEFINE f == [p \in selected |-> Head(t.all_peers[p])]
  <1>6. f \in Surjection(selected, peers)
    BY <1>1 DEF Surjection
  <1>7. IsFiniteSet(peers) /\ Cardinality(peers) <= Cardinality(selected)
    BY <1>4, <1>6, FS_Surjection
  <1>8. \A p \in selected : Head(t.all_peers[p]) \in Peer
    <2> SUFFICES ASSUME NEW p \in selected PROVE Head(t.all_peers[p]) \in Peer
      OBVIOUS
    <2>1. p \in PeerId /\ t.all_peers[p] # <<>>
      BY <1>2 DEF Registered
    <2>2. PICK node \in Peer : t.all_peers[p] = <<node>>
      BY <2>1, NoneOrOne
    <2> QED BY <2>2
  <1>9. Cardinality(peers) \in Nat /\ Cardinality(selected) \in Nat
    BY <1>4, <1>7, FS_CardinalityType
  <1> QED BY <1>1, <1>2, <1>5, <1>7, <1>8, <1>9, ListAssumption

\* An announce's response fits in the buffer.
LEMMA AnnounceFits ==
  ASSUME NEW n \in Nat, n <= MAX_ANNOUNCE_PEERS
  PROVE  20 + PEER_SIZE * n <= PACKET_SIZE
  <1>1. PEER_SIZE \in Nat /\ PACKET_SIZE \in Nat /\ MAX_ANNOUNCE_PEERS \in Nat
        /\ 20 + MAX_ANNOUNCE_PEERS * PEER_SIZE <= PACKET_SIZE
    BY SizeAssumption, ListAssumption
  <1> DEFINE k == MAX_ANNOUNCE_PEERS - n
  <1>2. k \in Nat /\ MAX_ANNOUNCE_PEERS = n + k
    BY <1>1
  <1> HIDE DEF k
  <1>3. (n + k) * PEER_SIZE = PEER_SIZE * n + PEER_SIZE * k
    BY <1>1, <1>2
  <1>4. PEER_SIZE * k \in Nat /\ PEER_SIZE * n \in Nat
    BY <1>1, <1>2
  <1> QED BY <1>1, <1>2, <1>3, <1>4

LEMMA CountersAreInt ==
  ASSUME NEW n \in 0..SIZE_T-1
  PROVE  AsInt32(n) \in Int
  BY WidthAssumption DEF AsInt32

(***************************************************************************)
(* The invariant of the server.                                            *)
(***************************************************************************)

ServerInv ==
  /\ DBInv
  /\ ServerTypeOK
  /\ pc = "process_request" => RequestOK(request)
  /\ ResponseFits

LEMMA ServerInit == Init => ServerInv
  <1> SUFFICES ASSUME Init PROVE ServerInv
    OBVIOUS
  <1>1. DBInv
    BY DBInvInit DEF Init
  <1>2. ServerTypeOK
    BY <1>1 DEF Init, ServerTypeOK, DBInv
  <1> QED BY <1>1, <1>2 DEF Init, ServerInv, ResponseFits

\* Steps that leave the table, the request and the response alone.
LEMMA FlowStep ==
  ASSUME ServerInv, UNCHANGED <<torrents_, request, response>>,
         in_process' \in BOOLEAN, inbox' \in Seq(Datagrams),
         \/ pc' = pc
         \/ /\ pc \in {"while", "call_recvfrom", "in_recvfrom", "returned"}
            /\ pc' \in {"while", "call_recvfrom", "in_recvfrom", "returned"}
         \/ pc = "process_request" /\ pc' = "crashed"
  PROVE  ServerInv'
  <1>1. DBInv' /\ TypeOK'
    BY DEF ServerInv, DBInv, TypeOK, OneNodePerPeer, CountsAddUp
  <1>2. ServerTypeOK'
    BY <1>1 DEF ServerInv, ServerTypeOK
  <1>3. (pc = "process_request" => RequestOK(request))'
    BY DEF ServerInv
  <1>4. ResponseFits'
    BY DEF ServerInv, ResponseFits
  <1> QED BY <1>1, <1>2, <1>3, <1>4 DEF ServerInv

LEMMA HeadAndTail ==
  ASSUME NEW S, NEW s \in Seq(S), s # <<>>
  PROVE  Head(s) \in S /\ Tail(s) \in Seq(S)
  OBVIOUS

LEMMA ReceiveStep == ServerInv /\ Receive => ServerInv'
  <1> SUFFICES ASSUME ServerInv, Receive PROVE ServerInv'
    OBVIOUS
  <1>1. /\ pc = "in_recvfrom" /\ inbox \in Seq(Datagrams) /\ inbox # <<>>
        /\ response = NoResponse /\ in_process \in BOOLEAN
    BY DEF Receive, ServerInv, ServerTypeOK
  <1>2. /\ request' \in parse_UDP_request(Head(inbox)) /\ inbox' = Tail(inbox)
        /\ pc' = "process_request" /\ UNCHANGED <<torrents_, in_process, response>>
    BY DEF Receive
  <1>3. Head(inbox) \in Datagrams /\ inbox' \in Seq(Datagrams)
    BY <1>1, <1>2, HeadAndTail
  <1>4. request' \in Request /\ RequestOK(request')
    BY <1>2, <1>3, ParsedRequest
  <1>5. DBInv' /\ TypeOK'
    BY <1>2 DEF ServerInv, DBInv, TypeOK, OneNodePerPeer, CountsAddUp
  <1>6. ServerTypeOK'
    BY <1>1, <1>2, <1>3, <1>4, <1>5 DEF ServerTypeOK
  <1> QED BY <1>2, <1>4, <1>5, <1>6 DEF ServerInv, ResponseFits

\* A response that is ready to be sent.
ResponseOK(resp) == resp \in Response /\ PacketSize(resp) <= PACKET_SIZE

LEMMA RespondStep ==
  ASSUME ServerInv, pc = "process_request", DBInv', NEW resp, ResponseOK(resp), Respond(resp)
  PROVE  ServerInv'
  <1>1. /\ response' = resp /\ pc' = "send" /\ UNCHANGED <<in_process, inbox, request>>
    BY DEF Respond
  <1>2. ServerTypeOK'
    BY <1>1 DEF ServerInv, ServerTypeOK, DBInv, ResponseOK
  <1> QED BY <1>1, <1>2 DEF ServerInv, ResponseFits, ResponseOK

LEMMA NewResponseType == NewResponse \in Response
  <1>1. 0 \in TransactionId
    BY DatagramAssumption
  <1> QED BY <1>1 DEF NewResponse, Response, ActionType

\* The fields of a response of which some are changed.
LEMMA WithLists ==
  ASSUME NEW n \in Response, NEW leechers \in Int, NEW seeders \in Int, NEW peers
  PROVE  [n EXCEPT !.leechers = leechers, !.seeders = seeders, !.peers = peers] =
           [action |-> n.action, transaction_id |-> n.transaction_id,
            leechers |-> leechers, seeders |-> seeders, peers |-> peers,
            scrape_info |-> n.scrape_info, error_message |-> n.error_message]
  <1> DEFINE a == [n EXCEPT !.leechers = leechers]
             b == [a EXCEPT !.seeders = seeders]
  <1>1. a \in Response /\ a = [action |-> n.action, transaction_id |-> n.transaction_id,
             leechers |-> leechers, seeders |-> n.seeders, peers |-> n.peers,
             scrape_info |-> n.scrape_info, error_message |-> n.error_message]
    BY DEF Response
  <1> HIDE DEF a
  <1>2. b \in Response /\ b = [action |-> a.action, transaction_id |-> a.transaction_id,
             leechers |-> a.leechers, seeders |-> seeders, peers |-> a.peers,
             scrape_info |-> a.scrape_info, error_message |-> a.error_message]
    BY <1>1 DEF Response
  <1> HIDE DEF b
  <1>3. [b EXCEPT !.peers = peers] =
          [action |-> b.action, transaction_id |-> b.transaction_id,
           leechers |-> b.leechers, seeders |-> b.seeders, peers |-> peers,
           scrape_info |-> b.scrape_info, error_message |-> b.error_message]
    BY <1>2 DEF Response
  <1>4. [n EXCEPT !.leechers = leechers, !.seeders = seeders, !.peers = peers]
          = [b EXCEPT !.peers = peers]
    BY DEF a, b
  <1> QED BY <1>1, <1>2, <1>3, <1>4

LEMMA WithScrape ==
  ASSUME NEW n \in Response, NEW scrape_info
  PROVE  [n EXCEPT !.scrape_info = scrape_info] =
           [action |-> n.action, transaction_id |-> n.transaction_id,
            leechers |-> n.leechers, seeders |-> n.seeders, peers |-> n.peers,
            scrape_info |-> scrape_info, error_message |-> n.error_message]
  BY DEF Response

LEMMA WithAction ==
  ASSUME NEW n \in Response, NEW action \in ActionType, NEW transaction_id
  PROVE  [n EXCEPT !.action = action, !.transaction_id = transaction_id] =
           [action |-> action, transaction_id |-> transaction_id,
            leechers |-> n.leechers, seeders |-> n.seeders, peers |-> n.peers,
            scrape_info |-> n.scrape_info, error_message |-> n.error_message]
  <1> DEFINE a == [n EXCEPT !.action = action]
  <1>1. a \in Response /\ a = [action |-> action, transaction_id |-> n.transaction_id,
             leechers |-> n.leechers, seeders |-> n.seeders, peers |-> n.peers,
             scrape_info |-> n.scrape_info, error_message |-> n.error_message]
    BY DEF Response
  <1> HIDE DEF a
  <1>2. [a EXCEPT !.transaction_id = transaction_id] =
          [action |-> a.action, transaction_id |-> transaction_id,
           leechers |-> a.leechers, seeders |-> a.seeders, peers |-> a.peers,
           scrape_info |-> a.scrape_info, error_message |-> a.error_message]
    BY <1>1 DEF Response
  <1>3. [n EXCEPT !.action = action, !.transaction_id = transaction_id]
          = [a EXCEPT !.transaction_id = transaction_id]
    BY DEF a
  <1> QED BY <1>1, <1>2, <1>3

\* What the handlers fill in before they differ.
LEMMA AnswerType ==
  ASSUME NEW r \in Request, NEW action \in ActionType
  PROVE  /\ Answer(r, action) \in Response
         /\ Answer(r, action) = [action |-> action, transaction_id |-> r.transaction_id,
                                 leechers |-> 0, seeders |-> 0, peers |-> {},
                                 scrape_info |-> <<>>, error_message |-> NoError]
  <1>1. Answer(r, action) = [action |-> action, transaction_id |-> r.transaction_id,
                             leechers |-> 0, seeders |-> 0, peers |-> {},
                             scrape_info |-> <<>>, error_message |-> NoError]
    <2>1. Answer(r, action) =
            [action |-> action, transaction_id |-> r.transaction_id,
             leechers |-> NewResponse.leechers, seeders |-> NewResponse.seeders,
             peers |-> NewResponse.peers, scrape_info |-> NewResponse.scrape_info,
             error_message |-> NewResponse.error_message]
      <3> HIDE DEF NewResponse
      <3> QED BY NewResponseType, WithAction DEF Answer
    <2> QED BY <2>1 DEF NewResponse
  <1>2. r.transaction_id \in TransactionId
    BY DEF Request
  <1>3. <<>> \in Seq(Scrape) /\ {} \in SUBSET Peer
    OBVIOUS
  <1> QED BY <1>1, <1>2, <1>3 DEF Response

\* Responses without a list.
LEMMA ShortResponses ==
  ASSUME NEW r \in Request, NEW message \in {NoError, "Bad_request", "Not_completed_actually"}
  PROVE  /\ ResponseOK(NewResponse) /\ ResponseOK(handle_connect(r))
         /\ ResponseOK(handle_error(r, message))
         /\ handle_error(r, message).action = "ERROR"
         /\ handle_error(r, message).transaction_id = r.transaction_id
  <1>1. PACKET_SIZE \in Nat /\ 68 <= PACKET_SIZE
    BY SizeAssumption
  <1>2. NewResponse \in Response /\ PacketSize(NewResponse) = 16
    <2>2. NewResponse \in Response
      BY NewResponseType
    <2> QED BY <2>2 DEF NewResponse, PacketSize
  <1>3. handle_connect(r) \in Response /\ PacketSize(handle_connect(r)) = 16
    <2>1. "CONNECT" \in ActionType
      BY DEF ActionType
    <2>2. Answer(r, "CONNECT") \in Response /\ Answer(r, "CONNECT").action = "CONNECT"
      BY <2>1, AnswerType
    <2> QED BY <2>2 DEF handle_connect, PacketSize
  <1>4. /\ handle_error(r, message) \in Response /\ PacketSize(handle_error(r, message)) = 68
        /\ handle_error(r, message).action = "ERROR"
        /\ handle_error(r, message).transaction_id = r.transaction_id
    <2>1. "ERROR" \in ActionType
      BY DEF ActionType
    <2>2. /\ Answer(r, "ERROR") \in Response /\ Answer(r, "ERROR").action = "ERROR"
          /\ Answer(r, "ERROR").transaction_id = r.transaction_id
      BY <2>1, AnswerType
    <2> DEFINE resp == [Answer(r, "ERROR") EXCEPT !.error_message = message]
    <2>3. resp \in Response /\ resp.action = "ERROR" /\ resp.transaction_id = r.transaction_id
      BY <2>2 DEF Response
    <2> HIDE DEF resp
    <2>4. PacketSize(resp) = 68
      BY <2>3 DEF PacketSize
    <2> QED BY <2>3, <2>4 DEF handle_error, resp
  <1> QED BY <1>1, <1>2, <1>3, <1>4 DEF ResponseOK

LEMMA AnnounceResponse ==
  ASSUME NEW r \in Request, NEW t \in Torrent, OneNode(t),
         NEW peers \in get_peer_list(t, r.num_want), r.num_want \in Int
  PROVE  /\ ResponseOK(handle_announce(r, t, peers))
         /\ handle_announce(r, t, peers).action = "ANNOUNCE"
         /\ handle_announce(r, t, peers).transaction_id = r.transaction_id
         /\ handle_announce(r, t, peers).leechers = count_leechers(t)
         /\ handle_announce(r, t, peers).seeders = count_seeders(t)
         /\ handle_announce(r, t, peers).peers = peers
  <1>1. /\ peers \subseteq Peer /\ Cardinality(peers) \in Nat
        /\ Cardinality(peers) <= MAX_ANNOUNCE_PEERS
    BY ListedPeers
  <1>2. count_leechers(t) \in Int /\ count_seeders(t) \in Int
    BY CountersAreInt DEF count_leechers, count_seeders, Torrent
  <1>3. handle_announce(r, t, peers) =
          [action |-> "ANNOUNCE", transaction_id |-> r.transaction_id,
           leechers |-> count_leechers(t), seeders |-> count_seeders(t), peers |-> peers,
           scrape_info |-> <<>>, error_message |-> NoError]
    <2>1. "ANNOUNCE" \in ActionType
      BY DEF ActionType
    <2>2. Answer(r, "ANNOUNCE") =
            [action |-> "ANNOUNCE", transaction_id |-> r.transaction_id,
             leechers |-> 0, seeders |-> 0, peers |-> {},
             scrape_info |-> <<>>, error_message |-> NoError]
      BY <2>1, AnswerType
    <2>3. Answer(r, "ANNOUNCE") \in Response
      BY <2>1, AnswerType
    <2> DEFINE a == Answer(r, "ANNOUNCE")
    <2>4. handle_announce(r, t, peers) =
            [action |-> a.action, transaction_id |-> a.transaction_id,
             leechers |-> count_leechers(t), seeders |-> count_seeders(t), peers |-> peers,
             scrape_info |-> a.scrape_info, error_message |-> a.error_message]
      BY <1>2, <2>3, WithLists DEF handle_announce
    <2> QED BY <2>2, <2>4
  <1>4. handle_announce(r, t, peers) \in Response
    <2>1. "ANNOUNCE" \in ActionType /\ r.transaction_id \in TransactionId /\ <<>> \in Seq(Scrape)
      BY DEF ActionType, Request
    <2> QED BY <1>1, <1>2, <1>3, <2>1 DEF Response
  <1>5. PacketSize(handle_announce(r, t, peers)) = 20 + PEER_SIZE * Cardinality(peers)
    BY <1>3 DEF PacketSize
  <1> QED BY <1>1, <1>3, <1>4, <1>5, AnnounceFits DEF ResponseOK

\* A scrape has an entry for each hash, in their order.
LEMMA ScrapeEntries ==
  ASSUME DBInv, NEW r \in Request
  PROVE  /\ handle_scrape(r).action = "SCRAPE"
         /\ handle_scrape(r).transaction_id = r.transaction_id
         /\ handle_scrape(r) \in Response
         /\ Len(handle_scrape(r).scrape_info) = Len(r.info_hashes)
         /\ DOMAIN handle_scrape(r).scrape_info = DOMAIN r.info_hashes
         /\ \A i \in DOMAIN r.info_hashes :
              LET info == handle_scrape(r).scrape_info[i]
              IN  /\ info.complete = count_seeders(torrents_[r.info_hashes[i]])
                  /\ info.incomplete = count_leechers(torrents_[r.info_hashes[i]])
  <1> DEFINE n == Len(r.info_hashes)
             entry(i) == [complete   |-> count_seeders(torrents_[r.info_hashes[i]]),
                          downloaded |-> count_downloads(torrents_[r.info_hashes[i]]),
                          incomplete |-> count_leechers(torrents_[r.info_hashes[i]])]
             entries == [i \in DOMAIN r.info_hashes |-> entry(i)]
  <1>1. r.info_hashes \in Seq(Hash_t) /\ n \in Nat /\ DOMAIN r.info_hashes = 1..n
    <2>1. r.info_hashes \in Seq(Hash_t)
      BY DEF Request
    <2> QED BY <2>1
  <1>2. \A i \in 1..n : entry(i) \in Scrape
    <2> SUFFICES ASSUME NEW i \in 1..n PROVE entry(i) \in Scrape
      OBVIOUS
    <2>1. torrents_[r.info_hashes[i]] \in Torrent
      BY <1>1 DEF DBInv, TypeOK
    <2> QED BY <2>1, CountersAreInt DEF Scrape, Torrent, count_seeders, count_leechers, count_downloads
  <1>3. entries \in Seq(Scrape) /\ Len(entries) = n
    <2> HIDE DEF entry
    <2> QED BY <1>1, <1>2
  <1>4. handle_scrape(r) =
          [action |-> "SCRAPE", transaction_id |-> r.transaction_id,
           leechers |-> 0, seeders |-> 0, peers |-> {},
           scrape_info |-> entries, error_message |-> NoError]
    <2>1. "SCRAPE" \in ActionType
      BY DEF ActionType
    <2>2. Answer(r, "SCRAPE") =
            [action |-> "SCRAPE", transaction_id |-> r.transaction_id,
             leechers |-> 0, seeders |-> 0, peers |-> {},
             scrape_info |-> <<>>, error_message |-> NoError]
      BY <2>1, AnswerType
    <2>3. handle_scrape(r) = [Answer(r, "SCRAPE") EXCEPT !.scrape_info = entries]
      BY DEF handle_scrape
    <2>4. Answer(r, "SCRAPE") \in Response
      BY <2>1, AnswerType
    <2> DEFINE a == Answer(r, "SCRAPE")
    <2> HIDE DEF entries, a
    <2>5. [a EXCEPT !.scrape_info = entries] =
            [action |-> a.action, transaction_id |-> a.transaction_id,
             leechers |-> a.leechers, seeders |-> a.seeders, peers |-> a.peers,
             scrape_info |-> entries, error_message |-> a.error_message]
      BY <2>4, WithScrape DEF a
    <2>6. handle_scrape(r) = [a EXCEPT !.scrape_info = entries]
      BY <2>3 DEF a
    <2>7. a = [action |-> "SCRAPE", transaction_id |-> r.transaction_id,
               leechers |-> 0, seeders |-> 0, peers |-> {},
               scrape_info |-> <<>>, error_message |-> NoError]
      BY <2>2 DEF a
    <2> QED BY <2>5, <2>6, <2>7
  <1> HIDE DEF entries
  <1>5. handle_scrape(r) \in Response /\ handle_scrape(r).action = "SCRAPE"
    <2>1. "SCRAPE" \in ActionType /\ r.transaction_id \in TransactionId /\ {} \in SUBSET Peer
      BY DEF ActionType, Request
    <2> QED BY <1>3, <1>4, <2>1 DEF Response
  <1>6. DOMAIN entries = 1..n /\ \A i \in 1..n : entries[i] = entry(i)
    BY <1>1 DEF entries
  <1>7. handle_scrape(r).transaction_id = r.transaction_id
        /\ handle_scrape(r).scrape_info = entries
    BY <1>4
  <1>8. \A i \in DOMAIN r.info_hashes :
          LET info == handle_scrape(r).scrape_info[i]
          IN  /\ info.complete = count_seeders(torrents_[r.info_hashes[i]])
              /\ info.incomplete = count_leechers(torrents_[r.info_hashes[i]])
    <2> SUFFICES ASSUME NEW i \in 1..n
                 PROVE  LET info == handle_scrape(r).scrape_info[i]
                        IN  /\ info.complete = count_seeders(torrents_[r.info_hashes[i]])
                            /\ info.incomplete = count_leechers(torrents_[r.info_hashes[i]])
      BY <1>1
    <2>1. handle_scrape(r).scrape_info[i] = entry(i)
      BY <1>6, <1>7
    <2>2. /\ entry(i).complete = count_seeders(torrents_[r.info_hashes[i]])
          /\ entry(i).incomplete = count_leechers(torrents_[r.info_hashes[i]])
      OBVIOUS
    <2> HIDE DEF entry
    <2> QED BY <2>1, <2>2
  <1> HIDE DEF entry
  <1> QED BY <1>1, <1>3, <1>5, <1>6, <1>7, <1>8

LEMMA ScrapeResponse ==
  ASSUME DBInv, NEW r \in Request, RequestOK(r), r.action = "SCRAPE"
  PROVE  ResponseOK(handle_scrape(r))
  <1>1. /\ handle_scrape(r) \in Response /\ handle_scrape(r).action = "SCRAPE"
        /\ Len(handle_scrape(r).scrape_info) = Len(r.info_hashes)
    BY ScrapeEntries
  <1>2. PacketSize(handle_scrape(r)) = 8 + 12 * Len(r.info_hashes)
    BY <1>1 DEF PacketSize
  <1> QED BY <1>1, <1>2 DEF ResponseOK, RequestOK

\* One announce leaves the table in order.
LEMMA TableStep ==
  ASSUME DBInv, NEW h \in Hash_t, NEW peer \in Sender, NEW event,
         torrents_' = [torrents_ EXCEPT ![h] = update_peer_list(torrents_[h], peer, event)]
  PROVE  DBInv'
  <1> DEFINE u == update_peer_list(torrents_[h], peer, event)
  <1>1. TorrentOK(torrents_[h]) /\ torrents_ \in [Hash_t -> Torrent]
    BY DBInvByTorrent DEF DBInv, TypeOK
  <1>2. TorrentOK(u)
    BY <1>1, UpdateStep
  <1> HIDE DEF u
  <1>3. torrents_' = [torrents_ EXCEPT ![h] = u]
    BY DEF u
  <1>4. u \in Torrent /\ OneNode(u) /\ AddUp(u)
    BY <1>2 DEF TorrentOK
  <1>5. torrents_' \in [Hash_t -> Torrent]
    BY <1>1, <1>3, <1>4
  <1>6. \A g \in Hash_t : OneNode(torrents_'[g]) /\ AddUp(torrents_'[g])
    BY <1>1, <1>3, <1>4 DEF DBInv, OneNodePerPeer, CountsAddUp
  <1> QED BY <1>5, <1>6 DEF DBInv, TypeOK, OneNodePerPeer, CountsAddUp

LEMMA AnnounceStep ==
  ServerInv /\ ProcessAnnounce => ServerInv' /\ response'.action \in {"ERROR", "ANNOUNCE"}
  <1> SUFFICES ASSUME ServerInv, ProcessAnnounce
               PROVE  ServerInv' /\ response'.action \in {"ERROR", "ANNOUNCE"}
    OBVIOUS
  <1> DEFINE r == request
             h == Head(r.info_hashes)
             t == torrents_[h]
  <1>1. r \in Request /\ r.info_hashes # <<>> /\ DBInv /\ pc = "process_request"
    BY DEF ProcessAnnounce, ServerInv, ServerTypeOK
  <1>2. /\ r.info_hashes \in Seq(Hash_t) /\ r.sender \in Sender /\ r.num_want \in Int
    BY <1>1, DatagramAssumption DEF Request
  <1>3. h \in Hash_t
    BY <1>1, <1>2, HeadAndTail
  <1>4. t \in Torrent /\ OneNode(t)
    BY <1>1, <1>3 DEF DBInv, TypeOK, OneNodePerPeer
  <1>5. PICK peers \in get_peer_list(t, r.num_want) :
          /\ torrents_' = [torrents_ EXCEPT ![h] = update_peer_list(t, r.sender, r.event)]
          /\ IF not_completed_actually(t, r.sender, r.event)
             THEN Respond(handle_error(r, "Not_completed_actually"))
             ELSE Respond(handle_announce(r, t, peers))
    BY DEF ProcessAnnounce
  <1>6. DBInv'
    BY <1>1, <1>2, <1>3, <1>5, TableStep
  <1>7. /\ ResponseOK(handle_error(r, "Not_completed_actually"))
        /\ ResponseOK(handle_announce(r, t, peers))
        /\ handle_error(r, "Not_completed_actually").action = "ERROR"
        /\ handle_announce(r, t, peers).action = "ANNOUNCE"
    <2> HIDE DEF r, t, h
    <2> QED BY <1>1, <1>2, <1>4, ShortResponses, AnnounceResponse
  <1>8. ServerInv'
    BY <1>1, <1>5, <1>6, <1>7, RespondStep
  <1>9. response'.action \in {"ERROR", "ANNOUNCE"}
    BY <1>5, <1>7 DEF Respond
  <1> QED BY <1>8, <1>9

LEMMA ServerNext == ServerInv /\ [Next]_vars => ServerInv'
  <1> SUFFICES ASSUME ServerInv, [Next]_vars PROVE ServerInv'
    OBVIOUS
  <1>0. in_process \in BOOLEAN /\ inbox \in Seq(Datagrams)
    BY DEF ServerInv, ServerTypeOK
  <1>1. CASE UNCHANGED vars
    BY <1>0, <1>1, FlowStep DEF vars
  <1>2. CASE CheckFlag
    BY <1>0, <1>2, FlowStep DEF CheckFlag
  <1>3. CASE CallRecvfrom
    BY <1>0, <1>3, FlowStep DEF CallRecvfrom
  <1>4. CASE Receive
    BY <1>4, ReceiveStep
  <1>5. CASE ReceiveFails
    BY <1>0, <1>5, FlowStep DEF ReceiveFails
  <1>6. CASE Arrive
    <2>1. inbox' \in Seq(Datagrams)
      BY <1>0, <1>6 DEF Arrive
    <2> QED BY <1>0, <1>6, <2>1, FlowStep DEF Arrive
  <1>7. CASE sig_handler
    BY <1>0, <1>7, FlowStep DEF sig_handler, Running
  <1>8. CASE process_request
    <2>0. pc = "process_request" /\ request \in Request /\ RequestOK(request) /\ DBInv
      BY <1>8 DEF process_request, ProcessConnect, ProcessScrape, ProcessAnnounce,
                  ProcessAnnounceWithoutHash, ProcessOther, ServerInv, ServerTypeOK
    <2>1. UNCHANGED torrents_ => DBInv'
      BY <2>0 DEF DBInv, TypeOK, OneNodePerPeer, CountsAddUp
    <2>2. CASE ProcessConnect
      BY <2>0, <2>1, <2>2, ShortResponses, RespondStep DEF ProcessConnect
    <2>3. CASE ProcessScrape
      BY <2>0, <2>1, <2>3, ScrapeResponse, RespondStep DEF ProcessScrape
    <2>4. CASE ProcessAnnounce
      BY <2>4, AnnounceStep
    <2>5. CASE ProcessAnnounceWithoutHash
      BY <1>0, <2>0, <2>5, FlowStep DEF ProcessAnnounceWithoutHash
    <2>6. CASE ProcessOther
      <3>1. request.error_message \in {NoError, "Bad_request", "Not_completed_actually"}
        BY <2>0 DEF Request
      <3>2. CASE request.error_message # NoError
        BY <2>0, <2>1, <2>6, <3>1, <3>2, ShortResponses, RespondStep DEF ProcessOther
      <3>3. CASE request.error_message = NoError
        BY <2>0, <2>1, <2>6, <3>1, <3>3, ShortResponses, RespondStep DEF ProcessOther
      <3> QED BY <3>2, <3>3
    <2> QED BY <1>8, <2>2, <2>3, <2>4, <2>5, <2>6 DEF process_request
  <1>9. CASE send_packet
    <2>1. DBInv' /\ TypeOK'
      BY <1>9 DEF send_packet, ServerInv, DBInv, TypeOK, OneNodePerPeer, CountsAddUp
    <2>2. ServerTypeOK'
      BY <1>0, <1>9, <2>1 DEF send_packet, ServerTypeOK
    <2> QED BY <1>9, <2>1, <2>2 DEF send_packet, ServerInv, ResponseFits
  <1> QED BY <1>1, <1>2, <1>3, <1>4, <1>5, <1>6, <1>7, <1>8, <1>9 DEF Next, Step

LEMMA ServerInvAlways == Spec => []ServerInv
  BY ServerInit, ServerNext, PTL DEF Spec

\* The server's variables hold values of their types, for any datagrams.
THEOREM ServerTypeCorrect == Spec => []ServerTypeOK
  <1>1. ServerInv => ServerTypeOK
    BY DEF ServerInv
  <1> QED BY <1>1, ServerInvAlways, PTL

\* No response outgrows the buffer: not the list of an announce, which has
\* MAX_ANNOUNCE_PEERS entries at most, and not a scrape, which has 12 bytes for
\* each hash of HASH_SIZE bytes that was received.
THEOREM ResponsesFit == Spec => []ResponseFits
  <1>1. ServerInv => ResponseFits
    BY DEF ServerInv
  <1> QED BY <1>1, ServerInvAlways, PTL

\* A refused or malformed request leaves the database as it was.
THEOREM RefusedRequestsChangeNothing == Spec => RefusedChangesNothing
  <1>1. ServerInv /\ [Next]_vars =>
          [pc = "process_request" /\ pc' = "send"
             /\ (request.error_message # NoError \/ response'.action = "ERROR")
           => UNCHANGED torrents_]_vars
    <2> SUFFICES ASSUME ServerInv, Next, pc = "process_request", pc' = "send",
                        request.error_message # NoError \/ response'.action = "ERROR"
                 PROVE  UNCHANGED torrents_
      BY DEF vars
    <2>1. CASE ~ProcessAnnounce
      BY <2>1 DEF Next, Step, CheckFlag, CallRecvfrom, Receive, ReceiveFails, Arrive, sig_handler,
                  send_packet, process_request, ProcessConnect, ProcessScrape,
                  ProcessAnnounceWithoutHash, ProcessOther
    <2>2. CASE ProcessAnnounce
      <3> DEFINE r == request
                 h == Head(r.info_hashes)
                 t == torrents_[h]
      <3>1. /\ r \in Request /\ RequestOK(r) /\ r.info_hashes # <<>> /\ r.action = "ANNOUNCE"
            /\ DBInv
        BY <2>2 DEF ProcessAnnounce, ServerInv, ServerTypeOK
      <3>2. r.info_hashes \in Seq(Hash_t) /\ r.num_want \in Int
        BY <3>1, DatagramAssumption DEF Request
      <3>3. h \in Hash_t
        BY <3>1, <3>2, HeadAndTail
      <3>4. t \in Torrent /\ OneNode(t) /\ torrents_ \in [Hash_t -> Torrent]
        BY <3>1, <3>3 DEF DBInv, TypeOK, OneNodePerPeer
      <3>5. PICK peers \in get_peer_list(t, r.num_want) :
              /\ torrents_' = [torrents_ EXCEPT ![h] = update_peer_list(t, r.sender, r.event)]
              /\ IF not_completed_actually(t, r.sender, r.event)
                 THEN Respond(handle_error(r, "Not_completed_actually"))
                 ELSE Respond(handle_announce(r, t, peers))
        BY <2>2 DEF ProcessAnnounce
      <3>6. SUFFICES update_peer_list(t, r.sender, r.event) = t
        BY <3>3, <3>4, <3>5
      <3>7. CASE r.error_message # NoError
        <4>1. r.event = Other
          BY <3>1, <3>7 DEF RequestOK
        <4> QED BY <4>1 DEF update_peer_list, Other
      <3>8. CASE response'.action = "ERROR"
        <4>1. handle_announce(r, t, peers).action = "ANNOUNCE"
          <5> HIDE DEF r, t, h
          <5> QED BY <3>1, <3>2, <3>4, AnnounceResponse
        <4>2. not_completed_actually(t, r.sender, r.event)
          BY <3>5, <3>8, <4>1 DEF Respond
        <4> QED BY <4>2 DEF not_completed_actually, update_peer_list, completed
      <3> QED BY <3>7, <3>8
    <2> QED BY <2>1, <2>2
  <1> QED BY <1>1, ServerInvAlways, PTL DEF Spec, RefusedChangesNothing

(***************************************************************************)
(* The counts of a scrape.                                                 *)
(***************************************************************************)

\* A conversion to int32_t changes a number by a multiple of 2^32.
LEMMA Int32IsCongruent ==
  ASSUME NEW n \in Nat
  PROVE  \E j \in Int : AsInt32(n) = n + INT32 * j
  <1> DEFINE low == n % INT32
             q == n \div INT32
  <1>1. INT32 \in Nat \ {0}
    BY WidthAssumption
  <1>2. q \in Nat /\ low \in Nat /\ n = INT32 * q + low
    BY <1>1, Division
  <1> HIDE DEF low, q
  <1>3. AsInt32(n) = low \/ AsInt32(n) = low - INT32
    BY DEF AsInt32, low
  <1>4. /\ low = n + INT32 * (-q) /\ low - INT32 = n + INT32 * (-q - 1)
        /\ -q \in Int /\ -q - 1 \in Int
    <2>1. INT32 * (-q) = -(INT32 * q) /\ INT32 * (-q - 1) = -(INT32 * q) - INT32
      BY <1>1, <1>2
    <2> QED BY <1>1, <1>2, <2>1
  <1> QED BY <1>3, <1>4

\* The counts of a torrent sum up to its peers, as numbers of 32 bits, when
\* the width of the counters is a multiple of 2^32.
LEMMA CountsAccount ==
  ASSUME SIZE_T % INT32 = 0, NEW t \in Torrent, OneNode(t), AddUp(t)
  PROVE  (count_seeders(t) + count_leechers(t)) % INT32 = Cardinality(Nodes(t)) % INT32
  <1>1. INT32 \in Nat \ {0} /\ SIZE_T \in Nat
    BY WidthAssumption
  <1>2. Cardinality(Nodes(t)) \in Nat
    BY SizeIsRegistered
  <1>3. t.seeders \in Nat /\ t.leechers \in Nat
    BY <1>1 DEF Torrent
  <1>4. PICK j \in Int : AsInt32(t.seeders) = t.seeders + INT32 * j
    BY <1>3, Int32IsCongruent
  <1>5. PICK k \in Int : AsInt32(t.leechers) = t.leechers + INT32 * k
    BY <1>3, Int32IsCongruent
  <1>6. PICK m \in Int : SIZE_T = INT32 * m
    <2> DEFINE q == SIZE_T \div INT32
    <2>1. q \in Nat /\ SIZE_T = INT32 * q + (SIZE_T % INT32)
      BY <1>1, Division
    <2> HIDE DEF q
    <2>2. INT32 * q \in Nat
      BY <1>1, <2>1
    <2> QED BY <2>1, <2>2
  <1>7. PICK z \in Int : t.leechers + t.seeders = Cardinality(Nodes(t)) + INT32 * z
    <2>1. CASE t.leechers + t.seeders = Cardinality(Nodes(t))
      <3>1. INT32 * 0 = 0
        BY <1>1
      <3> QED BY <1>2, <2>1, <3>1
    <2>2. CASE t.leechers + t.seeders = Cardinality(Nodes(t)) + SIZE_T
      BY <1>6, <2>2
    <2> QED BY <2>1, <2>2 DEF AddUp
  <1>8. count_seeders(t) + count_leechers(t) = Cardinality(Nodes(t)) + INT32 * (z + j + k)
    <2>1. INT32 * (z + j + k) = INT32 * z + INT32 * j + INT32 * k
      BY <1>1, <1>4, <1>5, <1>7
    <2>2. INT32 * z \in Int /\ INT32 * j \in Int /\ INT32 * k \in Int
      BY <1>1, <1>4, <1>5, <1>7
    <2> QED BY <1>2, <1>3, <1>4, <1>5, <1>7, <2>1, <2>2 DEF count_seeders, count_leechers
  <1>9. z + j + k \in Int
    BY <1>4, <1>5, <1>7
  <1> QED BY <1>1, <1>2, <1>8, <1>9, RemainderOfShift

\* The entries of a scrape account for every peer of their torrents, in the
\* order of the hashes, though the counters may wrap around.
THEOREM ScrapesAccountForPeers ==
  ASSUME SIZE_T % INT32 = 0
  PROVE  Spec => []ScrapeAccountsForPeers
  <1> DEFINE Inv == ServerInv /\ ScrapeAccountsForPeers
  <1>1. Init => Inv
    BY ServerInit DEF Init, ScrapeAccountsForPeers
  <1>2. Inv /\ [Next]_vars => Inv'
    <2> SUFFICES ASSUME ServerInv, ScrapeAccountsForPeers, [Next]_vars
                 PROVE  ScrapeAccountsForPeers'
      BY ServerNext
    <2>1. CASE UNCHANGED <<torrents_, pc, request, response>>
      BY <2>1 DEF ScrapeAccountsForPeers
    <2>2. CASE pc' # "send"
      BY <2>2 DEF ScrapeAccountsForPeers
    <2>3. CASE ProcessScrape
      <3> DEFINE r == request
                 entries == response'.scrape_info
      <3>1. /\ r \in Request /\ RequestOK(r) /\ r.action = "SCRAPE" /\ DBInv
            /\ response' = handle_scrape(r) /\ UNCHANGED <<torrents_, request>>
        BY <2>3 DEF ProcessScrape, Respond, ServerInv, ServerTypeOK
      <3>2. r.info_hashes \in Seq(Hash_t)
        BY <3>1 DEF Request
      <3>3. /\ Len(entries) = Len(r.info_hashes) /\ DOMAIN entries = DOMAIN r.info_hashes
            /\ \A i \in DOMAIN r.info_hashes :
                 /\ entries[i].complete = count_seeders(torrents_[r.info_hashes[i]])
                 /\ entries[i].incomplete = count_leechers(torrents_[r.info_hashes[i]])
        <4> HIDE DEF r
        <4> QED BY <3>1, ScrapeEntries
      <3>4. \A i \in DOMAIN r.info_hashes :
              AccountsFor(entries[i], torrents_[r.info_hashes[i]])
        <4> SUFFICES ASSUME NEW i \in DOMAIN r.info_hashes
                     PROVE  AccountsFor(entries[i], torrents_[r.info_hashes[i]])
          OBVIOUS
        <4>1. r.info_hashes[i] \in Hash_t
          BY <3>2
        <4>2. TorrentOK(torrents_[r.info_hashes[i]])
          BY <3>1, <4>1, DBInvByTorrent
        <4> QED BY <3>3, <4>2, CountsAccount DEF TorrentOK, AccountsFor
      <3> QED BY <3>1, <3>3, <3>4 DEF ScrapeAccountsForPeers
    <2>4. CASE ProcessConnect
      BY <2>4, ShortResponses DEF ProcessConnect, Respond, ServerInv, ServerTypeOK,
                                   ScrapeAccountsForPeers, handle_connect, Answer, NewResponse
    <2>5. CASE ProcessAnnounce
      BY <2>5, AnnounceStep DEF ScrapeAccountsForPeers
    <2>6. CASE ProcessOther
      <3>1. request \in Request
        BY <2>6 DEF ProcessOther, ServerInv, ServerTypeOK
      <3>2. request.error_message \in {NoError, "Bad_request", "Not_completed_actually"}
        BY <3>1 DEF Request
      <3>3. handle_error(request, request.error_message).action = "ERROR"
        BY <3>1, <3>2, ShortResponses
      <3>4. response'.action \in {"ERROR", "CONNECT"}
        BY <2>6, <3>3 DEF ProcessOther, Respond, NewResponse
      <3> QED BY <3>4 DEF ScrapeAccountsForPeers
    <2>7. CASE ~process_request
      BY <2>1, <2>2, <2>7 DEF Next, Step, CheckFlag, CallRecvfrom, Receive, ReceiveFails, Arrive,
                              sig_handler, send_packet, vars
    <2>8. CASE ProcessAnnounceWithoutHash
      BY <2>2, <2>8 DEF ProcessAnnounceWithoutHash
    <2> QED BY <2>3, <2>4, <2>5, <2>6, <2>7, <2>8 DEF process_request
  <1>3. Inv => ScrapeAccountsForPeers
    OBVIOUS
  <1> QED BY <1>1, <1>2, <1>3, PTL DEF Spec

(***************************************************************************)
(* The list and the counts of one response.                                *)
(***************************************************************************)

\* A node stands under its own peer id: two nodes of a list differ.
Keyed(t) == \A p \in PeerId : t.all_peers[p] # <<>> => Head(t.all_peers[p]).peer_id = p
AllKeyed == \A h \in Hash_t : Keyed(torrents_[h])

LEMMA KeyedStep ==
  ASSUME NEW t \in Torrent, OneNode(t), Keyed(t), NEW peer \in Sender, NEW event
  PROVE  Keyed(update_peer_list(t, peer, event))
  <1>0. peer.peer_id \in PeerId /\ peer \in Peer /\ t.all_peers \in [PeerId -> Seq(Peer)]
    BY DEF Sender, Peer, Torrent
  <1>1. CASE event = "STARTED"
    <2>1. \/ started(t, peer) = t
          \/ started(t, peer).all_peers = [t.all_peers EXCEPT ![peer.peer_id] = <<peer>>]
      BY StartedEffect
    <2>2. Head(<<peer>>) = peer
      OBVIOUS
    <2>3. Keyed(started(t, peer))
      BY <1>0, <2>1, <2>2 DEF Keyed
    <2> QED BY <1>1, <2>3 DEF update_peer_list
  <1>2. CASE event = "COMPLETED"
    <2>1. CASE completed(t, peer) = t
      BY <1>2, <2>1 DEF update_peer_list
    <2>2. CASE completed(t, peer) # t
      <3>1. PICK node \in Peer :
              /\ t.all_peers[peer.peer_id] = <<node>>
              /\ completed(t, peer).all_peers =
                   [t.all_peers EXCEPT ![peer.peer_id] = <<[node EXCEPT !.completed = TRUE]>>]
        <4>1. PICK node \in Peer :
                /\ t.all_peers[peer.peer_id] = <<node>>
                /\ completed(t, peer) =
                     [all_peers |-> [t.all_peers EXCEPT ![peer.peer_id] =
                                       <<[node EXCEPT !.completed = TRUE]>>],
                      leechers  |-> Dec(t.leechers),
                      seeders   |-> Inc(t.seeders),
                      downloads |-> Inc(t.downloads)]
          BY <2>2, CompletedEffect
        <4>2. completed(t, peer).all_peers =
                [t.all_peers EXCEPT ![peer.peer_id] = <<[node EXCEPT !.completed = TRUE]>>]
          BY <4>1
        <4> QED BY <4>1, <4>2
      <3> DEFINE done == [node EXCEPT !.completed = TRUE]
      <3>2. Head(<<node>>) = node /\ <<node>> # <<>>
        OBVIOUS
      <3>3. done.peer_id = peer.peer_id
        BY <1>0, <3>1, <3>2 DEF Keyed, Peer
      <3> HIDE DEF done
      <3>4. Head(<<done>>) = done
        OBVIOUS
      <3>5. completed(t, peer).all_peers = [t.all_peers EXCEPT ![peer.peer_id] = <<done>>]
        BY <3>1 DEF done
      <3>6. Keyed(completed(t, peer))
        BY <1>0, <3>3, <3>4, <3>5 DEF Keyed
      <3> QED BY <1>2, <3>6 DEF update_peer_list
    <2> QED BY <2>1, <2>2
  <1>3. CASE event = "STOPPED"
    <2>1. \/ stopped(t, peer) = t
          \/ stopped(t, peer).all_peers = [t.all_peers EXCEPT ![peer.peer_id] = <<>>]
      BY StoppedEffect
    <2>2. Keyed(stopped(t, peer))
      BY <1>0, <2>1 DEF Keyed
    <2> QED BY <1>3, <2>2 DEF update_peer_list
  <1>4. CASE event \notin {"STARTED", "COMPLETED", "STOPPED"}
    BY <1>4 DEF update_peer_list
  <1> QED BY <1>1, <1>2, <1>3, <1>4

LEMMA AllKeyedAlways == Spec => []AllKeyed
  <1>1. Init => AllKeyed
    BY DEF Init, DBInit, AllKeyed, Keyed, NewTorrent
  <1>2. ServerInv /\ AllKeyed /\ [Next]_vars => AllKeyed'
    <2> SUFFICES ASSUME ServerInv, AllKeyed, [Next]_vars PROVE AllKeyed'
      OBVIOUS
    <2>1. CASE ProcessAnnounce
      <3> DEFINE r == request
                 h == Head(r.info_hashes)
                 t == torrents_[h]
                 u == update_peer_list(t, r.sender, r.event)
      <3>1. /\ r \in Request /\ r.info_hashes # <<>> /\ DBInv
        BY <2>1 DEF ProcessAnnounce, ServerInv, ServerTypeOK
      <3>2. r.info_hashes \in Seq(Hash_t) /\ r.sender \in Sender
        BY <3>1 DEF Request
      <3>3. h \in Hash_t
        BY <3>1, <3>2, HeadAndTail
      <3>4. t \in Torrent /\ OneNode(t) /\ torrents_ \in [Hash_t -> Torrent]
        BY <3>1, <3>3 DEF DBInv, TypeOK, OneNodePerPeer
      <3>5. torrents_' = [torrents_ EXCEPT ![h] = u]
        BY <2>1 DEF ProcessAnnounce
      <3>6. Keyed(u)
        <4> HIDE DEF h, r
        <4> QED BY <3>2, <3>3, <3>4, KeyedStep DEF AllKeyed
      <3> HIDE DEF u, t, h
      <3> QED BY <3>3, <3>4, <3>5, <3>6 DEF AllKeyed
    <2>2. CASE ~ProcessAnnounce
      <3>1. UNCHANGED torrents_
        BY <2>2 DEF Next, Step, CheckFlag, CallRecvfrom, Receive, ReceiveFails, Arrive, sig_handler,
                    send_packet, process_request, ProcessConnect, ProcessScrape,
                    ProcessAnnounceWithoutHash, ProcessOther, vars
      <3> QED BY <3>1 DEF AllKeyed, Keyed
    <2> QED BY <2>1, <2>2
  <1> QED BY <1>1, <1>2, ServerInvAlways, PTL DEF Spec

\* A list holds exactly as many peers as were selected.
LEMMA ListSize ==
  ASSUME NEW t \in Torrent, OneNode(t), Keyed(t), NEW num_want,
         NEW peers \in get_peer_list(t, num_want)
  PROVE  Cardinality(peers) = ListLength(t, num_want)
  <1>1. PICK selected \in kSubset(ListLength(t, num_want), Registered(t)) :
          peers = {Head(t.all_peers[p]) : p \in selected}
    BY DEF get_peer_list
  <1>2. selected \subseteq Registered(t) /\ Cardinality(selected) = ListLength(t, num_want)
    BY <1>1 DEF kSubset
  <1>3. IsFiniteSet(selected)
    BY <1>2, SizeIsRegistered, FS_Subset
  <1> DEFINE f == [p \in selected |-> Head(t.all_peers[p])]
  <1>4. f \in Surjection(selected, peers)
    BY <1>1 DEF Surjection
  <1>5. \A p \in selected : f[p].peer_id = p
    BY <1>2 DEF Keyed, Registered
  <1>6. f \in Injection(selected, peers)
    <2> HIDE DEF f
    <2> QED BY <1>4, <1>5 DEF Surjection, Injection, IsInjective
  <1> QED BY <1>2, <1>3, <1>4, <1>6, FS_Surjection

\* Numbers that are equal as unsigned numbers of 32 bits are equal as int32_t.
LEMMA CountsAreNodes ==
  ASSUME SIZE_T % INT32 = 0, NEW t \in Torrent, OneNode(t), AddUp(t)
  PROVE  AsInt32(count_leechers(t) + count_seeders(t)) = AsInt32(Cardinality(Nodes(t)))
  <1>1. count_leechers(t) \in Int /\ count_seeders(t) \in Int
    BY CountersAreInt DEF count_leechers, count_seeders, Torrent
  <1>2. count_leechers(t) + count_seeders(t) = count_seeders(t) + count_leechers(t)
    BY <1>1
  <1>3. (count_leechers(t) + count_seeders(t)) % INT32 = Cardinality(Nodes(t)) % INT32
    BY <1>2, CountsAccount
  <1> QED BY <1>3 DEF AsInt32

\* The counts and the list of one response speak of the same instant, for
\* every num_want, however the counters wrapped around, and for numbers of
\* peers that an int32_t cannot hold.
THEOREM ListsAgreeWithCounts ==
  ASSUME SIZE_T % INT32 = 0
  PROVE  Spec => []ListAgreesWithCounts
  <1>1. Init => ListAgreesWithCounts
    BY DEF Init, ListAgreesWithCounts
  <1>2. ServerInv /\ AllKeyed /\ ListAgreesWithCounts /\ [Next]_vars => ListAgreesWithCounts'
    <2> SUFFICES ASSUME ServerInv, AllKeyed, ListAgreesWithCounts, [Next]_vars
                 PROVE  ListAgreesWithCounts'
      OBVIOUS
    <2>1. CASE UNCHANGED <<torrents_, pc, request, response>>
      BY <2>1 DEF ListAgreesWithCounts
    <2>2. CASE pc' # "send"
      BY <2>2 DEF ListAgreesWithCounts
    <2>3. CASE ProcessAnnounce
      <3> DEFINE r == request
                 h == Head(r.info_hashes)
                 t == torrents_[h]
      <3>1. /\ r \in Request /\ r.info_hashes # <<>> /\ DBInv
        BY <2>3 DEF ProcessAnnounce, ServerInv, ServerTypeOK
      <3>2. r.info_hashes \in Seq(Hash_t) /\ r.num_want \in Int
        BY <3>1, DatagramAssumption DEF Request
      <3>3. h \in Hash_t
        BY <3>1, <3>2, HeadAndTail
      <3>4. t \in Torrent /\ OneNode(t) /\ AddUp(t) /\ Keyed(t)
        BY <3>1, <3>3 DEF DBInv, TypeOK, OneNodePerPeer, CountsAddUp, AllKeyed
      <3>5. PICK peers \in get_peer_list(t, r.num_want) :
              IF not_completed_actually(t, r.sender, r.event)
              THEN Respond(handle_error(r, "Not_completed_actually"))
              ELSE Respond(handle_announce(r, t, peers))
        BY <2>3 DEF ProcessAnnounce
      <3>6. CASE response' = handle_error(r, "Not_completed_actually")
        <4>1. response'.action = "ERROR"
          <5> HIDE DEF r
          <5> QED BY <3>1, <3>6, ShortResponses
        <4> QED BY <4>1 DEF ListAgreesWithCounts
      <3>7. CASE response' = handle_announce(r, t, peers)
        <4>1. /\ response'.leechers = count_leechers(t) /\ response'.seeders = count_seeders(t)
              /\ response'.peers = peers
          <5> HIDE DEF r, t
          <5> QED BY <3>1, <3>2, <3>4, <3>7, AnnounceResponse
        <4>2. Cardinality(peers) = Max({0, Limit(r.num_want, Cardinality(Nodes(t)))})
          <5> HIDE DEF r, t
          <5> QED BY <3>4, ListSize DEF ListLength
        <4>3. Limit(r.num_want, count_leechers(t) + count_seeders(t))
                = Limit(r.num_want, Cardinality(Nodes(t)))
          <5> HIDE DEF r, t
          <5> QED BY <3>4, CountsAreNodes DEF Limit
        <4>4. request' = r
          BY <3>5 DEF Respond
        <4> HIDE DEF r, t
        <4>5. Cardinality(response'.peers) =
                Max({0, Limit(request'.num_want, response'.leechers + response'.seeders)})
          BY <4>1, <4>2, <4>3, <4>4
        <4> QED BY <4>5 DEF ListAgreesWithCounts
      <3> QED BY <3>5, <3>6, <3>7 DEF Respond
    <2>4. CASE ProcessConnect \/ ProcessScrape \/ ProcessOther
      <3>1. request \in Request /\ DBInv
        BY <2>4 DEF ProcessConnect, ProcessScrape, ProcessOther, ServerInv, ServerTypeOK
      <3>2. request.error_message \in {NoError, "Bad_request", "Not_completed_actually"}
        BY <3>1 DEF Request
      <3>3. /\ handle_error(request, request.error_message).action = "ERROR"
            /\ handle_scrape(request).action = "SCRAPE"
            /\ handle_connect(request).action = "CONNECT"
        BY <3>1, <3>2, ShortResponses, ScrapeEntries, AnswerType DEF handle_connect, ActionType
      <3>4. response'.action # "ANNOUNCE"
        BY <2>4, <3>3 DEF ProcessConnect, ProcessScrape, ProcessOther, Respond, NewResponse
      <3> QED BY <3>4 DEF ListAgreesWithCounts
    <2>5. CASE ~process_request
      BY <2>1, <2>2, <2>5 DEF Next, Step, CheckFlag, CallRecvfrom, Receive, ReceiveFails, Arrive,
                              sig_handler, send_packet, vars
    <2>6. CASE ProcessAnnounceWithoutHash
      BY <2>2, <2>6 DEF ProcessAnnounceWithoutHash
    <2> QED BY <2>3, <2>4, <2>5, <2>6 DEF process_request
  <1> QED BY <1>1, <1>2, ServerInvAlways, AllKeyedAlways, PTL DEF Spec

(***************************************************************************)
(* The dispatch of what was parsed.                                        *)
(***************************************************************************)

LEMMA AllComplete == Spec => [](pc = "process_request" => Complete(request))
  <1>1. Init => (pc = "process_request" => Complete(request))
    BY DEF Init
  <1>2. ServerInv /\ (pc = "process_request" => Complete(request)) /\ [Next]_vars
          => (pc = "process_request" => Complete(request))'
    <2> SUFFICES ASSUME ServerInv, pc = "process_request" => Complete(request), [Next]_vars,
                        pc' = "process_request"
                 PROVE  Complete(request')
      BY DEF Complete
    <2>1. CASE Receive
      <3>1. inbox \in Seq(Datagrams) /\ inbox # <<>>
        BY <2>1 DEF ServerInv, ServerTypeOK, Receive
      <3>2. Head(inbox) \in Datagrams /\ request' \in parse_UDP_request(Head(inbox))
        BY <2>1, <3>1, HeadAndTail DEF Receive
      <3> QED BY <3>2, ParsedRequest
    <2>2. CASE ~Receive
      <3>1. pc = "process_request" /\ request' = request
        BY <2>2 DEF Next, Step, CheckFlag, CallRecvfrom, ReceiveFails, Arrive, sig_handler,
                    send_packet, process_request, ProcessConnect, ProcessScrape, ProcessAnnounce,
                    ProcessAnnounceWithoutHash, ProcessOther, Respond, vars
      <3> QED BY <3>1 DEF Complete
    <2> QED BY <2>1, <2>2
  <1> QED BY <1>1, <1>2, ServerInvAlways, PTL DEF Spec

\* The response to a request that was parsed to its end.
Answered(r, resp) ==
  resp.action \in {r.action, "ERROR"} /\ resp.transaction_id = r.transaction_id

\* A well formed request never ends the server, and is answered under its own
\* action and transaction id or by an error, for any datagrams in any order.
THEOREM WellFormedRequestsAreAnswered == Spec => []WellFormedIsAnswered
  <1>1. Init => WellFormedIsAnswered
    BY DEF Init, WellFormedIsAnswered
  <1>2. ServerInv /\ (pc = "process_request" => Complete(request)) /\ WellFormedIsAnswered
          /\ [Next]_vars => WellFormedIsAnswered'
    <2> SUFFICES ASSUME ServerInv, pc = "process_request" => Complete(request),
                        WellFormedIsAnswered, [Next]_vars
                 PROVE  WellFormedIsAnswered'
      OBVIOUS
    <2>1. CASE process_request
      <3> DEFINE r == request
      <3>1. /\ r \in Request /\ Complete(r) /\ DBInv /\ UNCHANGED request
            /\ r.error_message \in {NoError, "Bad_request", "Not_completed_actually"}
            /\ pc' \in {"send", "crashed"}
        BY <2>1 DEF process_request, ProcessConnect, ProcessScrape, ProcessAnnounce,
                    ProcessAnnounceWithoutHash, ProcessOther, Respond, ServerInv, ServerTypeOK,
                    Request
      <3>2. CASE ProcessConnect
        <4>1. "CONNECT" \in ActionType
          BY DEF ActionType
        <4>2. Answer(r, "CONNECT").action = "CONNECT"
              /\ Answer(r, "CONNECT").transaction_id = r.transaction_id
          <5> HIDE DEF r
          <5> QED BY <3>1, <4>1, AnswerType
        <4>3. pc' = "send" /\ Answered(r, response')
          BY <3>2, <4>2 DEF ProcessConnect, Respond, handle_connect, Answered
        <4> QED BY <3>1, <4>3 DEF WellFormedIsAnswered, Answered
      <3>3. CASE ProcessScrape
        <4>1. handle_scrape(r).action = "SCRAPE"
              /\ handle_scrape(r).transaction_id = r.transaction_id
          <5> HIDE DEF r
          <5> QED BY <3>1, ScrapeEntries
        <4>2. pc' = "send" /\ Answered(r, response')
          BY <3>3, <4>1 DEF ProcessScrape, Respond, Answered
        <4> QED BY <3>1, <4>2 DEF WellFormedIsAnswered, Answered
      <3>4. CASE ProcessAnnounce
        <4> DEFINE h == Head(r.info_hashes)
                   t == torrents_[h]
        <4>1. r.info_hashes # <<>> /\ r.info_hashes \in Seq(Hash_t) /\ r.num_want \in Int
              /\ r.action = "ANNOUNCE"
          BY <3>1, <3>4, DatagramAssumption DEF ProcessAnnounce, Request
        <4>2. h \in Hash_t
          BY <4>1, HeadAndTail
        <4>3. t \in Torrent /\ OneNode(t)
          BY <3>1, <4>2 DEF DBInv, TypeOK, OneNodePerPeer
        <4>4. PICK peers \in get_peer_list(t, r.num_want) :
                IF not_completed_actually(t, r.sender, r.event)
                THEN Respond(handle_error(r, "Not_completed_actually"))
                ELSE Respond(handle_announce(r, t, peers))
          BY <3>4 DEF ProcessAnnounce
        <4>5. /\ handle_error(r, "Not_completed_actually").action = "ERROR"
              /\ handle_error(r, "Not_completed_actually").transaction_id = r.transaction_id
              /\ handle_announce(r, t, peers).action = "ANNOUNCE"
              /\ handle_announce(r, t, peers).transaction_id = r.transaction_id
          <5> HIDE DEF r, t, h
          <5> QED BY <3>1, <4>1, <4>3, ShortResponses, AnnounceResponse
        <4>6. pc' = "send" /\ Answered(r, response')
          BY <4>1, <4>4, <4>5 DEF Respond, Answered
        <4> QED BY <3>1, <4>6 DEF WellFormedIsAnswered, Answered
      <3>5. CASE ProcessAnnounceWithoutHash
        <4>1. pc' = "crashed" /\ r.error_message # NoError
          BY <3>1, <3>5 DEF ProcessAnnounceWithoutHash, Complete
        <4> QED BY <3>1, <4>1 DEF WellFormedIsAnswered
      <3>6. CASE ProcessOther
        <4>1. pc' = "send" /\ r.action \in {"ERROR", Other}
          BY <3>6 DEF ProcessOther, Respond
        <4>2. r.error_message = NoError => r.action = "ERROR"
          BY <3>1, <4>1 DEF Complete, ActionType, Other
        <4> QED BY <3>1, <4>1, <4>2 DEF WellFormedIsAnswered
      <3> QED BY <2>1, <3>2, <3>3, <3>4, <3>5, <3>6 DEF process_request
    <2>2. CASE ~process_request
      <3>1. pc' \notin {"send", "crashed"} \/ UNCHANGED <<pc, request, response>>
        BY <2>2 DEF Next, Step, CheckFlag, CallRecvfrom, Receive, ReceiveFails, Arrive,
                    sig_handler, send_packet, vars
      <3> QED BY <3>1 DEF WellFormedIsAnswered
    <2> QED BY <2>1, <2>2
  <1> QED BY <1>1, <1>2, AllComplete, ServerInvAlways, PTL DEF Spec
==============================================================================
