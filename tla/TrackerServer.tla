---------------------------- MODULE TrackerServer ----------------------------
(***************************************************************************)
(* tracker/src/UDP_server.cpp and main.cpp: one thread that receives a     *)
(* datagram, parses it, calls the database and sends one response, until   *)
(* SIGINT clears in_process.                                               *)
(*                                                                         *)
(* A datagram is a record of the values its bytes spell, with its real     *)
(* size in bytes, since every length check is about sizes.  A class that   *)
(* the code leaves uninitialised (a Request that the parser abandons) has  *)
(* any value.  Left out: the connection id, which is echoed and never      *)
(* checked; the announce's own ip, key and port, which are never used; the *)
(* log; and the text of an error, kept as the reason for it.               *)
(***************************************************************************)
EXTENDS TorrentDataBase, SequencesExt

CONSTANTS
  Datagrams,              \* the datagrams that reach the server
  TransactionId,          \* with 0
  NumWant,                \* the values num_want may hold
  QUEUE,                  \* bound: datagrams waiting in the socket
  PACKET_SIZE,            \* 1024
  CONNECT_REQUEST_SIZE,   \* 16
  ANNOUNCE_REQUEST_SIZE,  \* 98
  HASH_SIZE,              \* 20
  PEER_SIZE,              \* 6, an address and a port in a response
  LITTLE_ENDIAN           \* the byte order of the host

ActionType == {"CONNECT", "ANNOUNCE", "SCRAPE", "ERROR"}
Other      == "not_in_the_enumeration"
NoError    == "no_error"

\* What the senders write: size counts all the bytes sent.
Datagram == [size: Nat, action: ActionType \cup {Other}, transaction_id: TransactionId,
             hashes: Seq(Hash_t), peer_id: PeerId, left: Left,
             event: EventType \cup {Other}, num_want: NumWant, from: Endpoint]

ASSUME DatagramAssumption ==
  /\ Datagrams \subseteq Datagram /\ NumWant \subseteq Int
  /\ 0 \in TransactionId
  /\ \A d \in Datagrams :
       CASE d.action = "ANNOUNCE" -> Len(d.hashes) = 1
         [] d.action = "SCRAPE"   -> \/ d.size < CONNECT_REQUEST_SIZE
                                    \/ Len(d.hashes) = (d.size - CONNECT_REQUEST_SIZE) \div HASH_SIZE
         [] OTHER                 -> d.hashes = <<>>
ASSUME SizeAssumption ==
  /\ {PACKET_SIZE, CONNECT_REQUEST_SIZE, ANNOUNCE_REQUEST_SIZE, PEER_SIZE} \subseteq Nat
  /\ HASH_SIZE \in Nat \ {0}
  /\ 20 + MAX_ANNOUNCE_PEERS * PEER_SIZE <= PACKET_SIZE
  /\ 12 <= HASH_SIZE /\ 8 <= CONNECT_REQUEST_SIZE
  /\ 68 <= PACKET_SIZE

VARIABLES
  in_process,  \* the static atomic flag
  pc,          \* where the thread of start() is
  inbox,       \* datagrams in the socket's receive buffer
  request,     \* the request being answered, with its sender's address
  response     \* the response to it

vars == <<torrents_, in_process, pc, inbox, request, response>>

Request == [action: ActionType \cup {Other}, transaction_id: TransactionId,
            info_hashes: Seq(Hash_t), sender: Sender, event: EventType \cup {Other},
            num_want: NumWant, error_message: {NoError, "Bad_request", "Not_completed_actually"}]

Scrape == [complete: Int, downloaded: Int, incomplete: Int]

Response == [action: ActionType, transaction_id: TransactionId, leechers: Int, seeders: Int,
             peers: SUBSET Peer, scrape_info: Seq(Scrape),
             error_message: {NoError, "Bad_request", "Not_completed_actually"}]

\* Response() is value-initialised: all zero, which is the action CONNECT.
NewResponse == [action |-> "CONNECT", transaction_id |-> 0, leechers |-> 0, seeders |-> 0,
                peers |-> {}, scrape_info |-> <<>>, error_message |-> NoError]

\* The values of request and response while there is none.
NoRequest  == [action |-> "no_request"]
NoResponse == [action |-> "no_response"]

------------------------------------------------------------------------------
(* parse_UDP_request. *)

\* recvfrom cuts a datagram off at PACKET_SIZE.
Received(d) == Min({d.size, PACKET_SIZE})

TooShort(d)      == Received(d) < CONNECT_REQUEST_SIZE
BadAction(d)     == d.action = Other
ShortAnnounce(d) == d.action = "ANNOUNCE" /\ Received(d) < ANNOUNCE_REQUEST_SIZE
BadEvent(d)      == d.action = "ANNOUNCE" /\ d.event = Other
BadScrape(d)     == LET bytes_left == Received(d) - CONNECT_REQUEST_SIZE
                    IN  d.action = "SCRAPE" /\ (bytes_left = 0 \/ bytes_left % HASH_SIZE # 0)

Malformed(d) ==
  TooShort(d) \/ BadAction(d) \/ ShortAnnounce(d) \/ BadEvent(d) \/ BadScrape(d)

\* Set by the branches of the parser that are not left before.
InfoHashes(d) ==
  IF TooShort(d) \/ BadAction(d) \/ ShortAnnounce(d) \/ BadScrape(d) THEN <<>>
  ELSE IF d.action = "SCRAPE"
       THEN SubSeq(d.hashes, 1, (Received(d) - CONNECT_REQUEST_SIZE) \div HASH_SIZE)
       ELSE d.hashes

SenderOf(d) == [peer_id |-> d.peer_id, endpoint |-> d.from, left |-> d.left, completed |-> FALSE]

\* The values that parsing may leave in a field: any, if it stops before.
Actions(d)        == IF TooShort(d) THEN ActionType \cup {Other} ELSE {d.action}
TransactionIds(d) == IF TooShort(d) \/ BadAction(d) THEN TransactionId ELSE {d.transaction_id}
NumWants(d)       == IF Malformed(d) THEN NumWant ELSE {d.num_want}

\* Mutated: an announce that is cut off is not marked.
ErrorMessage_unmarked(d) == IF Malformed(d) /\ ~ShortAnnounce(d) THEN "Bad_request" ELSE NoError

ErrorMessage(d) == IF Malformed(d) THEN "Bad_request" ELSE NoError

\* The requests that parsing may produce.
parse_UDP_request(d) ==
  {[action |-> action, transaction_id |-> tid, info_hashes |-> InfoHashes(d),
    sender |-> SenderOf(d), event |-> d.event, num_want |-> num_want,
    error_message |-> ErrorMessage(d)] :
      action \in Actions(d), tid \in TransactionIds(d), num_want \in NumWants(d)}

------------------------------------------------------------------------------
(* The handlers, and the packet a response becomes. *)

\* The fields that every handler sets.
Answer(r, action) == [NewResponse EXCEPT !.action = action, !.transaction_id = r.transaction_id]

handle_connect(r) == Answer(r, "CONNECT")

handle_error(r, message) == [Answer(r, "ERROR") EXCEPT !.error_message = message]

\* Mutated: the counts are read after the sender's event, the list before.
handle_announce_late(r, t, peers) ==
  LET u == update_peer_list(t, r.sender, r.event)
  IN  [Answer(r, "ANNOUNCE") EXCEPT !.leechers = count_leechers(u),
                                    !.seeders  = count_seeders(u),
                                    !.peers    = peers]

\* Both counts and the list are read before the sender's own event is applied.
handle_announce(r, t, peers) ==
  [Answer(r, "ANNOUNCE") EXCEPT !.leechers = count_leechers(t),
                                !.seeders  = count_seeders(t),
                                !.peers    = peers]

\* Mutated: every entry is about the first hash.
handle_scrape_first(r) ==
  [Answer(r, "SCRAPE") EXCEPT !.scrape_info =
     [i \in DOMAIN r.info_hashes |->
        [complete   |-> count_seeders(torrents_[r.info_hashes[1]]),
         downloaded |-> count_downloads(torrents_[r.info_hashes[1]]),
         incomplete |-> count_leechers(torrents_[r.info_hashes[1]])]]]

handle_scrape(r) ==
  [Answer(r, "SCRAPE") EXCEPT !.scrape_info =
     [i \in DOMAIN r.info_hashes |->
        [complete   |-> count_seeders(torrents_[r.info_hashes[i]]),
         downloaded |-> count_downloads(torrents_[r.info_hashes[i]]),
         incomplete |-> count_leechers(torrents_[r.info_hashes[i]])]]]

\* sender.ip and sender.port are the bytes of the socket address, read as the
\* host's numbers; store_value writes a number from its high byte.
store_value(bytes) == IF LITTLE_ENDIAN THEN Reverse(bytes) ELSE bytes

PeerOnWire(peer) ==
  [ip |-> store_value(peer.endpoint.ip), port |-> store_value(peer.endpoint.port)]

\* 60 is the length of the longest error message.
PacketSize(resp) ==
  CASE resp.action = "CONNECT"  -> 8 + 8
    [] resp.action = "ANNOUNCE" -> 20 + PEER_SIZE * Cardinality(resp.peers)
    [] resp.action = "SCRAPE"   -> 8 + 12 * Len(resp.scrape_info)
    [] resp.action = "ERROR"    -> 8 + 60

make_UDP_response(resp) ==
  [resp EXCEPT !.peers = IF resp.action = "ANNOUNCE" THEN {PeerOnWire(peer) : peer \in @} ELSE {}]

------------------------------------------------------------------------------
(* The steps of the thread. *)

\* Mutated: the flag is not read.
CheckFlag_forever ==
  /\ pc = "while"
  /\ pc' = "call_recvfrom"
  /\ UNCHANGED <<torrents_, in_process, inbox, request, response>>

\* start(): the flag is read before each call of recvfrom.
CheckFlag ==
  /\ pc = "while"
  /\ pc' = IF in_process THEN "call_recvfrom" ELSE "returned"
  /\ UNCHANGED <<torrents_, in_process, inbox, request, response>>

CallRecvfrom ==
  /\ pc = "call_recvfrom"
  /\ pc' = "in_recvfrom"
  /\ UNCHANGED <<torrents_, in_process, inbox, request, response>>

\* receive_packet succeeds: process_request begins by parsing.
Receive ==
  /\ pc = "in_recvfrom" /\ inbox # <<>>
  /\ request' \in parse_UDP_request(Head(inbox))
  /\ inbox' = Tail(inbox)
  /\ pc' = "process_request"
  /\ UNCHANGED <<torrents_, in_process, response>>

\* Any other failure of recvfrom: the loop goes on.
ReceiveFails ==
  /\ pc = "in_recvfrom"
  /\ pc' = "while"
  /\ UNCHANGED <<torrents_, in_process, inbox, request, response>>

\* process_request: the branch of the action overwrites a response that
\* handle_error prepared.
Respond(resp) ==
  /\ response' = resp
  /\ pc' = "send"
  /\ UNCHANGED <<in_process, inbox, request>>

ProcessConnect ==
  /\ pc = "process_request" /\ request.action = "CONNECT"
  /\ Respond(handle_connect(request))
  /\ UNCHANGED torrents_

ProcessScrape ==
  /\ pc = "process_request" /\ request.action = "SCRAPE"
  /\ Respond(handle_scrape(request))
  /\ UNCHANGED torrents_

ProcessAnnounce ==
  /\ pc = "process_request" /\ request.action = "ANNOUNCE"
  /\ request.info_hashes # <<>>
  /\ LET h == Head(request.info_hashes)
         t == torrents_[h]
     IN  \E peers \in get_peer_list(t, request.num_want) :
           /\ torrents_' = [torrents_ EXCEPT ![h] =
                              update_peer_list(t, request.sender, request.event)]
           /\ IF not_completed_actually(t, request.sender, request.event)
              THEN Respond(handle_error(request, "Not_completed_actually"))
              ELSE Respond(handle_announce(request, t, peers))

\* info_hashes[0] of an empty vector: undefined, in practice a null reference
\* that the lookup of the torrent reads.
ProcessAnnounceWithoutHash ==
  /\ pc = "process_request" /\ request.action = "ANNOUNCE"
  /\ request.info_hashes = <<>>
  /\ pc' = "crashed"
  /\ UNCHANGED <<torrents_, in_process, inbox, request, response>>

\* No branch: the error if there is one, else the value-initialised response.
ProcessOther ==
  /\ pc = "process_request" /\ request.action \in {"ERROR", Other}
  /\ Respond(IF request.error_message # NoError
             THEN handle_error(request, request.error_message)
             ELSE NewResponse)
  /\ UNCHANGED torrents_

process_request ==
  \/ ProcessConnect \/ ProcessScrape \/ ProcessAnnounce
  \/ ProcessAnnounceWithoutHash \/ ProcessOther

\* The result of sendto is not looked at: sent, interrupted or failed, the
\* request is over.
send_packet ==
  /\ pc = "send"
  /\ pc' = "while"
  /\ request' = NoRequest /\ response' = NoResponse
  /\ UNCHANGED <<torrents_, in_process, inbox>>

------------------------------------------------------------------------------
(* The environment: the kernel's socket buffer, and the user's interrupt. *)

Running == pc \notin {"returned", "crashed"}

Arrive ==
  /\ Running /\ Len(inbox) < QUEUE
  /\ \E d \in Datagrams : inbox' = Append(inbox, d)
  /\ UNCHANGED <<torrents_, in_process, pc, request, response>>

\* The handler is installed without SA_RESTART: a recvfrom that waits returns
\* EINTR.  A signal that comes between the test of the flag and the call does
\* not interrupt it.
sig_handler ==
  /\ Running
  /\ in_process' = FALSE
  /\ pc' = IF pc = "in_recvfrom" /\ inbox = <<>> THEN "while" ELSE pc
  /\ UNCHANGED <<torrents_, inbox, request, response>>

------------------------------------------------------------------------------
Init ==
  /\ DBInit
  /\ in_process = TRUE
  /\ pc = "while"
  /\ inbox = <<>>
  /\ request = NoRequest /\ response = NoResponse

Step == CheckFlag \/ CallRecvfrom \/ process_request \/ send_packet

Next == Step \/ Receive \/ ReceiveFails \/ Arrive \/ sig_handler

\* The thread runs, and recvfrom does not fail for ever while datagrams wait.
Fairness == WF_vars(Step) /\ SF_vars(Receive)

Spec == Init /\ [][Next]_vars /\ Fairness

------------------------------------------------------------------------------
(* Properties. *)

\* The server's variables hold values of their types, and the locals exist
\* while the request is being answered.
ServerTypeOK ==
  /\ TypeOK
  /\ in_process \in BOOLEAN
  /\ inbox \in Seq(Datagrams)
  /\ \/ pc \in {"while", "call_recvfrom", "in_recvfrom", "returned"}
        /\ request = NoRequest /\ response = NoResponse
     \/ pc \in {"process_request", "crashed"} /\ request \in Request /\ response = NoResponse
     \/ pc = "send" /\ request \in Request /\ response \in Response

\* The number of peers listed is what the code's limits make of num_want and of
\* the very counts that stand beside the list, so that these and the list speak
\* of the same instant, though the counts wrapped and were narrowed
\* (TorrentDataBase.cpp:29-33).
ListAgreesWithCounts ==
  pc = "send" /\ response.action = "ANNOUNCE" =>
    Cardinality(response.peers) =
      Max({0, Limit(request.num_want, response.leechers + response.seeders)})

\* The entries of a scrape stand in the order of its hashes, and each accounts
\* for every peer of its torrent (UDP_server.cpp:270-275).
AccountsFor(info, t) ==
  (info.complete + info.incomplete) % INT32 = Cardinality(Nodes(t)) % INT32

ScrapeAccountsForPeers ==
  pc = "send" /\ response.action = "SCRAPE" =>
    /\ Len(response.scrape_info) = Len(request.info_hashes)
    /\ \A i \in DOMAIN response.scrape_info :
         AccountsFor(response.scrape_info[i], torrents_[request.info_hashes[i]])

\* The response never outgrows the buffer it is written to (UDP_server.cpp:193).
ResponseFits == pc = "send" => PacketSize(response) <= PACKET_SIZE

\* A request that is refused, or that the parser found malformed, leaves the
\* database as it was.
RefusedChangesNothing ==
  [][pc = "process_request" /\ pc' = "send"
       /\ (request.error_message # NoError \/ response'.action = "ERROR")
     => UNCHANGED torrents_]_vars

\* After an interrupt one more datagram is answered at most: it brings the
\* thread back to the test of the flag (UDP_server.cpp:35).
OneMoreDatagramStops == (~in_process /\ inbox # <<>>) ~> ~Running

\* What the parser abandons is dispatched all the same, half filled
\* (UDP_server.cpp:90-101); what it does not abandon neither ends the server nor
\* gets a response that its sender cannot match, unless it asks for ERROR.
WellFormedIsAnswered ==
  /\ pc = "crashed" => request.error_message # NoError
  /\ pc = "send" /\ request.error_message = NoError /\ request.action # "ERROR" =>
       /\ response.action \in {request.action, "ERROR"}
       /\ response.transaction_id = request.transaction_id

\* The addresses in a response are those the peers announced from
\* (tracker/README.md:5).
PeersReachable ==
  pc = "send" /\ response.action = "ANNOUNCE" =>
    make_UDP_response(response).peers = {peer.endpoint : peer \in response.peers}
==============================================================================
