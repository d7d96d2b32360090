---------------------------- MODULE TrackerSystem ----------------------------
(***************************************************************************)
(* The tracker together with the clients of one torrent, who announce to   *)
(* it over UDP, and the network between them.                              *)
(*                                                                         *)
(* The clients are external (any BitTorrent client).  A client has at most *)
(* one request open, which it sends again until a response with the same   *)
(* transaction id comes; it ignores other responses, and they are dropped  *)
(* at once here.  Requests arrive late, in any order, or not at all.       *)
(* What else is in a response is the subject of TrackerServer, as are      *)
(* malformed requests.  The tracker keeps nothing on disk.                 *)
(***************************************************************************)
EXTENDS TorrentDataBase

CONSTANTS
  InfoHash,   \* the torrent of the clients
  CHANNEL,    \* bound: requests under way from a client
  FAULTS      \* what may go wrong

ASSUME SystemAssumption ==
  /\ InfoHash \in Hash_t /\ Endpoint # {}
  /\ CHANNEL \in Nat \ {0}
  /\ FAULTS \subseteq {"lose", "restart", "crash"}

VARIABLES
  client,     \* the clients
  requests,   \* the announces under way from each client, as they were sent
  responses,  \* the transaction id of the responses under way to it, if any
  known,      \* seen by properties only: the clients that joined at this tracker
              \* since it was started
  late        \* seen by properties only: the events of a client that came after
              \* one it announced later, since it last left

system == <<torrents_, client, requests, responses, known, late>>

TransactionId == 0..CHANNEL+1

\* A client announces that it joins, is in the swarm, has finished or leaves.
\* One that is gone ended without a word; its peer id was drawn for that run
\* and does not come again.
Client == [state: {"out", "joining", "in", "finishing", "leaving", "gone"},
           left: Left, endpoint: Endpoint, transaction_id: TransactionId]

\* A client that takes no part: what else was in its record does not matter.
Absent(state) ==
  [state |-> state, left |-> 0, endpoint |-> CHOOSE e \in Endpoint : TRUE, transaction_id |-> 0]

\* No client sends COMPLETED with something left.  One that is overtaken is seen
\* by properties only.
Request == [event: EventType, left: Left, endpoint: Endpoint, transaction_id: TransactionId,
            overtaken: BOOLEAN]

EventOf(state) ==
  CASE state = "joining"   -> "STARTED"
    [] state = "in"        -> "NONE"
    [] state = "finishing" -> "COMPLETED"
    [] state = "leaving"   -> "STOPPED"

RequestOf(p) ==
  [event |-> EventOf(client[p].state), left |-> client[p].left,
   endpoint |-> client[p].endpoint, transaction_id |-> client[p].transaction_id,
   overtaken |-> FALSE]

\* The i-th request is not under way any more.
Without(q, i) == [j \in 1..Len(q)-1 |-> IF j < i THEN q[j] ELSE q[j+1]]

\* It has come before those that were sent earlier.
Overtake(q, i) ==
  [j \in DOMAIN q |->
     [q[j] EXCEPT !.overtaken = @ \/ (j < i /\ q[j].transaction_id # q[i].transaction_id)]]

------------------------------------------------------------------------------
(* The clients. *)

\* A random 32-bit number in a client: here one that is not under way.
Unused(p) == TransactionId \ ({requests[p][i].transaction_id : i \in DOMAIN requests[p]}
                                \cup {client[p].transaction_id})

\* A client opens a request and forgets the one that is open, if any: the
\* responses to that one would be ignored, and are dropped here.
Begin(p, state, left, endpoint) ==
  /\ Unused(p) # {}
  /\ client' = [client EXCEPT ![p] = [state |-> state, left |-> left, endpoint |-> endpoint,
                                      transaction_id |-> CHOOSE id \in Unused(p) : TRUE]]
  /\ responses' = [responses EXCEPT ![p] = {}]
  /\ UNCHANGED <<torrents_, requests, late>>

Join(p) ==
  /\ client[p].state = "out"
  /\ \E left \in LeftAtStart, endpoint \in Endpoint : Begin(p, "joining", left, endpoint)
  /\ known' = known \ {p}

\* The download is done.
Finish(p) ==
  /\ client[p].state = "in" /\ client[p].left # 0
  /\ Begin(p, "finishing", 0, client[p].endpoint)
  /\ UNCHANGED known

Leave(p) ==
  /\ client[p].state \in {"joining", "in", "finishing"}
  /\ Begin(p, "leaving", client[p].left, client[p].endpoint)
  /\ UNCHANGED known

\* The open request, for the first time or again, or the announce that is due
\* from time to time.
Send(p) ==
  /\ client[p].state \notin {"out", "gone"} /\ Len(requests[p]) < CHANNEL
  /\ requests' = [requests EXCEPT ![p] = Append(@, RequestOf(p))]
  /\ UNCHANGED <<torrents_, client, responses, known, late>>

\* The response to the open request.
Receive(p) ==
  /\ responses[p] # {}
  /\ responses' = [responses EXCEPT ![p] = {}]
  /\ client' = CASE client[p].state = "leaving" -> [client EXCEPT ![p] = Absent("out")]
                 [] client[p].state \in {"joining", "finishing"} -> [client EXCEPT ![p].state = "in"]
                 [] OTHER -> client
  /\ UNCHANGED <<torrents_, requests, known, late>>

------------------------------------------------------------------------------
(* The tracker. *)

SenderOf(p, r) == [peer_id |-> p, endpoint |-> r.endpoint, left |-> r.left, completed |-> FALSE]

Answer(p, id) ==
  IF id = client[p].transaction_id THEN [responses EXCEPT ![p] = {id}] ELSE responses

Joined(p, r) ==
  IF r.event = "STARTED" /\ client[p].state = "joining" /\ r.transaction_id = client[p].transaction_id
  THEN known \cup {p} ELSE known

Lateness(p, r) ==
  CASE r.overtaken -> [late EXCEPT ![p] = @ \cup ({r.event} \ {"NONE"})]
    [] ~r.overtaken /\ r.event = "STOPPED" -> [late EXCEPT ![p] = {}]
    [] OTHER -> late

\* Mutated: a peer that is not in the table is not answered unless it joins.
Serve_unanswered(p) ==
  \E i \in DOMAIN requests[p] :
    LET r == requests[p][i]
    IN  /\ UpdatePeerList(InfoHash, SenderOf(p, r), r.event)
        /\ responses' = IF r.event # "STARTED" /\ p \notin Registered(torrents_[InfoHash])
                        THEN responses ELSE Answer(p, r.transaction_id)
        /\ known' = Joined(p, r) /\ late' = Lateness(p, r)
        /\ requests' = [requests EXCEPT ![p] = Without(Overtake(@, i), i)]
        /\ UNCHANGED client

\* handle_announce of any request under way, and the packet that is sent back.
Serve(p) ==
  \E i \in DOMAIN requests[p] :
    LET r == requests[p][i]
    IN  /\ UpdatePeerList(InfoHash, SenderOf(p, r), r.event)
        /\ responses' = Answer(p, r.transaction_id)
        /\ known' = Joined(p, r) /\ late' = Lateness(p, r)
        /\ requests' = [requests EXCEPT ![p] = Without(Overtake(@, i), i)]
        /\ UNCHANGED client

------------------------------------------------------------------------------
(* What goes wrong. *)

Lose(p) ==
  /\ "lose" \in FAULTS
  /\ \/ /\ \E i \in DOMAIN requests[p] : requests' = [requests EXCEPT ![p] = Without(@, i)]
        /\ UNCHANGED responses
     \/ responses[p] # {} /\ responses' = [responses EXCEPT ![p] = {}] /\ UNCHANGED requests
  /\ UNCHANGED <<torrents_, client, known, late>>

\* The tracker ends and is started again.
Restart ==
  /\ "restart" \in FAULTS
  /\ torrents_' = [h \in Hash_t |-> NewTorrent]
  /\ known' = {} /\ late' = [p \in PeerId |-> {}]
  /\ UNCHANGED <<client, requests, responses>>

\* A client ends without a word.
Crash(p) ==
  /\ "crash" \in FAULTS
  /\ client[p].state \notin {"out", "gone"}
  /\ client' = [client EXCEPT ![p] = Absent("gone")]
  /\ responses' = [responses EXCEPT ![p] = {}]
  /\ known' = known \ {p}
  /\ UNCHANGED <<torrents_, requests, late>>

------------------------------------------------------------------------------
SystemInit ==
  /\ DBInit
  /\ client = [p \in PeerId |-> Absent("out")]
  /\ requests = [p \in PeerId |-> <<>>] /\ responses = [p \in PeerId |-> {}]
  /\ known = {} /\ late = [p \in PeerId |-> {}]

SystemNext ==
  \/ Restart
  \/ \E p \in PeerId :
       \/ Join(p) \/ Finish(p) \/ Leave(p) \/ Send(p) \/ Receive(p)
       \/ Serve(p)
       \/ Lose(p) \/ Crash(p)

\* A client repeats its open request, and of datagrams sent again and again
\* some arrive.
SystemFairness ==
  \A p \in PeerId : /\ WF_system(Send(p) /\ client[p].state # "in")
                    /\ SF_system(Serve(p)) /\ SF_system(Receive(p))

SystemSpec == SystemInit /\ [][SystemNext]_system /\ SystemFairness

------------------------------------------------------------------------------
(* Properties. *)

Tracked == torrents_[InfoHash]

\* The types of the system's variables.
SystemTypeOK ==
  /\ TypeOK
  /\ client \in [PeerId -> Client]
  /\ requests \in [PeerId -> Seq(Request)]
  /\ responses \in [PeerId -> SUBSET TransactionId]
  /\ known \subseteq PeerId
  /\ late \in [PeerId -> SUBSET {"STARTED", "COMPLETED", "STOPPED"}]

\* A client that was answered is registered until it leaves, unless the tracker
\* was started again since it joined or a STOPPED of an earlier stay came late;
\* with or without the file as it has it, if nothing of an earlier stay came late.
AcknowledgedIsListed ==
  \A p \in known :
    client[p].state = "in" =>
      /\ "STOPPED" \notin late[p] => p \in Registered(Tracked)
      /\ late[p] = {} => (p \in Seeds(Tracked) <=> client[p].left = 0)

\* Others are sent to the address from which a client joined, not to the one
\* it had in an earlier stay (TorrentDataBase.cpp:74), unless a STARTED of that
\* stay came late.
ListedAddressIsCurrent ==
  \A p \in known :
    client[p].state \in {"in", "finishing"} /\ "STARTED" \notin late[p] =>
      \A i \in DOMAIN Tracked.all_peers[p] :
        Tracked.all_peers[p][i].endpoint = client[p].endpoint

\* A client whose leaving was answered is not registered any more, whatever else
\* of it comes late, unless a STARTED comes after its STOPPED did.
LeftIsForgotten ==
  \A p \in PeerId :
    client[p].state = "out" /\ "STARTED" \notin late[p] => p \notin Registered(Tracked)

\* Every request is answered in the end, though requests and responses are
\* lost.
RequestsEnd ==
  \A p \in PeerId : client[p].state \in {"joining", "finishing", "leaving"}
                      ~> client[p].state \in {"in", "out", "gone"}
==============================================================================
