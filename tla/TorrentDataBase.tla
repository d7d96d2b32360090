--------------------------- MODULE TorrentDataBase ---------------------------
(***************************************************************************)
(* tracker/src/TorrentDataBase.cpp: the tracker's table of torrents and    *)
(* peers, kept in memory only.  The server calls it from one thread, so a  *)
(* call is one step.                                                       *)
(*                                                                         *)
(* Data left out: a peer's downloaded and uploaded, which are stored and   *)
(* never read.  left is kept as 0 or 1, where 1 is any other amount.       *)
(* torrents_ is total: operator[] creates the default torrent whenever a   *)
(* hash is looked up, so that an absent entry reads as NewTorrent.         *)
(***************************************************************************)
EXTENDS Integers, Sequences, FiniteSets, FiniteSetsExt

CONSTANTS
  Hash_t,                  \* info hashes
  PeerId,                  \* peer ids of the clients that use the tracker
  Endpoint,                \* the addresses their datagrams come from
  LeftAtStart,             \* values of left the clients send with STARTED
  SIZE_T,                  \* 2^64: std::size_t counts modulo SIZE_T
  INT32,                   \* 2^32: an int32_t is a residue modulo INT32
  DEFAULT_ANNOUNCE_PEERS,  \* 50
  MAX_ANNOUNCE_PEERS       \* 150

ASSUME PeerIdAssumption == IsFiniteSet(PeerId)
ASSUME LeftAssumption   == LeftAtStart \subseteq {0, 1}
\* There are fewer peers than a counter can count.
ASSUME WidthAssumption  ==
  /\ SIZE_T \in Nat
  /\ Cardinality(PeerId) < SIZE_T
  /\ INT32 \in Nat \ {0}
\* Constants of the type int32_t.
ASSUME ListAssumption   ==
  /\ DEFAULT_ANNOUNCE_PEERS \in Nat /\ DEFAULT_ANNOUNCE_PEERS < INT32 \div 2
  /\ MAX_ANNOUNCE_PEERS \in Nat /\ MAX_ANNOUNCE_PEERS < INT32 \div 2

VARIABLE torrents_

Left      == {0, 1}
EventType == {"NONE", "COMPLETED", "STARTED", "STOPPED"}

Peer == [peer_id: PeerId, endpoint: Endpoint, left: Left, completed: BOOLEAN]

\* A peer as the parser builds it: completed keeps its default, FALSE.
Sender == {peer \in Peer : ~peer.completed}

\* all_peers is a ranked_non_unique index ordered by peer_id alone:
\* all_peers[p] are its nodes with peer_id p, in insertion order.
Torrent == [all_peers: [PeerId -> Seq(Peer)],
            leechers:  0..SIZE_T-1,
            seeders:   0..SIZE_T-1,
            downloads: 0..SIZE_T-1]

NewTorrent == [all_peers |-> [p \in PeerId |-> <<>>],
               leechers |-> 0, seeders |-> 0, downloads |-> 0]

------------------------------------------------------------------------------
(* Arithmetic of the counters.  A definition whose comment begins "Mutated:"  *)
(* is not part of the model: it is a plausible mistake in the definition that *)
(* follows, by which a run shows that a property can fail.                    *)

\* Mutated: no wrap-around above the greatest value.
Inc_unwrapped(n) == n + 1

Inc(n) == IF n = SIZE_T - 1 THEN 0 ELSE n + 1

\* Mutated: no wrap-around below zero.
Dec_unwrapped(n) == n - 1

Dec(n) == IF n = 0 THEN SIZE_T - 1 ELSE n - 1

\* Conversion of a std::size_t to int32_t: the low bits, in two's complement.
AsInt32(n) == LET low == n % INT32
              IN  IF low < INT32 \div 2 THEN low ELSE low - INT32

------------------------------------------------------------------------------
(* The index of peers. *)

equal_range(t, peer) == t.all_peers[peer.peer_id]
count(t, peer)       == Len(equal_range(t, peer))
find(t, peer)        == Head(equal_range(t, peer))

with_range(t, peer, nodes) == [t.all_peers EXCEPT ![peer.peer_id] = nodes]
insert(t, peer)            == with_range(t, peer, Append(equal_range(t, peer), peer))
erase_found(t, peer)       == with_range(t, peer, Tail(equal_range(t, peer)))

Nodes(t)      == UNION {{p} \X DOMAIN t.all_peers[p] : p \in PeerId}
Registered(t) == {p \in PeerId : t.all_peers[p] # <<>>}
Completed(t)  == {p \in Registered(t) : Head(t.all_peers[p]).completed}

------------------------------------------------------------------------------
(* The queries. *)

count_leechers(t)  == AsInt32(t.leechers)
count_seeders(t)   == AsInt32(t.seeders)
count_downloads(t) == AsInt32(t.downloads)

Wanted(num_want) == IF num_want <= 0 THEN DEFAULT_ANNOUNCE_PEERS ELSE num_want

\* Mutated: the limit of a response is forgotten.
Limit_unlimited(num_want, size) == Min({Wanted(num_want), AsInt32(size)})

\* num_want as get_peer_list leaves it, for a set of that size: negative if the
\* size, narrowed to an int32_t, is.
Limit(num_want, size) == Min({Wanted(num_want), MAX_ANNOUNCE_PEERS, AsInt32(size)})

\* How many peers the loop collects: while it has fewer than num_want.
ListLength(t, num_want) == Max({0, Limit(num_want, Cardinality(Nodes(t)))})

\* The lists get_peer_list may return.  The loop draws nodes at random until
\* it holds ListLength distinct peer ids: with no such set it never ends.
get_peer_list(t, num_want) ==
  {{Head(t.all_peers[p]) : p \in selected} :
     selected \in kSubset(ListLength(t, num_want), Registered(t))}

------------------------------------------------------------------------------
(* The branches of update_peer_list. *)

\* Mutated: STARTED does not look for the peer before it inserts.
started_unguarded(t, peer) ==
  [t EXCEPT !.leechers = IF peer.left # 0 THEN Inc(@) ELSE @,
            !.seeders  = IF peer.left # 0 THEN @ ELSE Inc(@),
            !.all_peers = insert(t, peer)]

started(t, peer) ==
  IF count(t, peer) # 0 THEN t
  ELSE [t EXCEPT !.leechers = IF peer.left # 0 THEN Inc(@) ELSE @,
                 !.seeders  = IF peer.left # 0 THEN @ ELSE Inc(@),
                 !.all_peers = insert(t, peer)]

\* Mutated: a completed peer that is not in the table is inserted.
completed_inserts(t, peer) ==
  IF count(t, peer) = 0 /\ peer.left = 0
  THEN [t EXCEPT !.seeders = Inc(@), !.downloads = Inc(@),
                 !.all_peers = insert(t, [peer EXCEPT !.completed = TRUE])]
  ELSE IF count(t, peer) = 0 \/ peer.left # 0 \/ find(t, peer).completed THEN t
  ELSE [t EXCEPT !.seeders = Inc(@), !.downloads = Inc(@), !.leechers = Dec(@),
                 !.all_peers = with_range(t, peer,
                    <<[find(t, peer) EXCEPT !.completed = TRUE]>>)]

\* Mutated: a completion is counted again when it is repeated.
completed_again(t, peer) ==
  IF count(t, peer) = 0 \/ peer.left # 0 THEN t
  ELSE [t EXCEPT !.seeders = Inc(@), !.downloads = Inc(@), !.leechers = Dec(@),
                 !.all_peers = with_range(t, peer,
                    <<[find(t, peer) EXCEPT !.completed = TRUE]>>)]

\* Mutated: a completed peer stays among the leechers.
completed_keeps_leecher(t, peer) ==
  IF count(t, peer) = 0 \/ peer.left # 0 \/ find(t, peer).completed THEN t
  ELSE [t EXCEPT !.seeders = Inc(@), !.downloads = Inc(@),
                 !.all_peers = with_range(t, peer,
                    <<[find(t, peer) EXCEPT !.completed = TRUE]>>)]

\* Mutated: left is looked at after the counters.
completed_unchecked(t, peer) ==
  IF count(t, peer) = 0 \/ find(t, peer).completed THEN t
  ELSE [t EXCEPT !.seeders   = Inc(@),
                 !.downloads = Inc(@),
                 !.leechers  = Dec(@),
                 !.all_peers = with_range(t, peer,
                    <<[find(t, peer) EXCEPT !.completed = TRUE]>>)]

\* The node keeps the address and the left it was inserted with.
completed(t, peer) ==
  IF count(t, peer) = 0 \/ peer.left # 0 \/ find(t, peer).completed THEN t
  ELSE [t EXCEPT !.seeders   = Inc(@),
                 !.downloads = Inc(@),
                 !.leechers  = Dec(@),
                 !.all_peers = with_range(t, peer,
                    Append(Tail(equal_range(t, peer)),
                           [find(t, peer) EXCEPT !.completed = TRUE]))]

\* Mutated: the counter is chosen by the datagram, not by the stored node.
stopped_by_request(t, peer) ==
  IF count(t, peer) = 0 THEN t
  ELSE [t EXCEPT !.seeders  = IF peer.left = 0 THEN Dec(@) ELSE @,
                 !.leechers = IF peer.left = 0 THEN @ ELSE Dec(@),
                 !.all_peers = erase_found(t, peer)]

\* Mutated: the node is not erased.
stopped_keeps_node(t, peer) ==
  IF count(t, peer) = 0 THEN t
  ELSE [t EXCEPT !.seeders  = IF find(t, peer).completed THEN Dec(@) ELSE @,
                 !.leechers = IF find(t, peer).completed THEN @ ELSE Dec(@)]

stopped(t, peer) ==
  IF count(t, peer) = 0 THEN t
  ELSE [t EXCEPT !.seeders  = IF find(t, peer).completed THEN Dec(@) ELSE @,
                 !.leechers = IF find(t, peer).completed THEN @ ELSE Dec(@),
                 !.all_peers = erase_found(t, peer)]

\* The call answers "Not completed actually" and changes nothing.
not_completed_actually(t, peer, event) ==
  event = "COMPLETED" /\ count(t, peer) # 0 /\ peer.left # 0

\* Mutated: STARTED falls through into STOPPED.
update_peer_list_fallthrough(t, peer, event) ==
  CASE event = "COMPLETED" -> completed(t, peer)
    [] event = "STARTED"   -> stopped(started(t, peer), peer)
    [] event = "STOPPED"   -> stopped(t, peer)
    [] OTHER               -> t

\* An event outside the enumeration takes no branch, like NONE.
update_peer_list(t, peer, event) ==
  CASE event = "COMPLETED" -> completed(t, peer)
    [] event = "STARTED"   -> started(t, peer)
    [] event = "STOPPED"   -> stopped(t, peer)
    [] OTHER               -> t

------------------------------------------------------------------------------
(* The database alone, called with every event of every client. *)

DBInit == torrents_ = [h \in Hash_t |-> NewTorrent]

UpdatePeerList(h, peer, event) ==
  torrents_' = [torrents_ EXCEPT ![h] = update_peer_list(@, peer, event)]

DBNext ==
  \E h \in Hash_t, peer \in Sender :
     \/ peer.left \in LeftAtStart /\ UpdatePeerList(h, peer, "STARTED")
     \/ UpdatePeerList(h, peer, "COMPLETED")
     \/ UpdatePeerList(h, peer, "STOPPED")
     \/ UpdatePeerList(h, peer, "NONE")

DBSpec == DBInit /\ [][DBNext]_torrents_

------------------------------------------------------------------------------
(* Properties. *)

\* Every entry is a torrent whose counters are std::size_t values.
TypeOK == torrents_ \in [Hash_t -> Torrent]

\* The index would store several nodes with one peer_id: the branches of
\* update_peer_list never let it.
OneNode(t) == \A p \in PeerId : Len(t.all_peers[p]) <= 1
OneNodePerPeer == \A h \in Hash_t : OneNode(torrents_[h])

\* For every num_want the random selection of get_peer_list can end: there are
\* enough distinct peers to draw (TorrentDataBase.cpp:35-39).
SelectionEnds ==
  \A h \in Hash_t, num_want \in -1..(MAX_ANNOUNCE_PEERS + 1) :
     get_peer_list(torrents_[h], num_want) # {}

\* leechers and seeders, read together, always account for every peer of the
\* torrent, whatever the order of events, and though each may wrap around.
AddUp(t) == t.leechers + t.seeders \in {Cardinality(Nodes(t)), Cardinality(Nodes(t)) + SIZE_T}
CountsAddUp == \A h \in Hash_t : AddUp(torrents_[h])

\* A datagram that the network delivers twice, or that a client repeats after
\* a timeout, has the effect of one (UDP_server.cpp:255).
RepeatedAnnounceIsHarmless ==
  \A h \in Hash_t, peer \in Sender, event \in EventType :
     LET once == update_peer_list(torrents_[h], peer, event)
     IN  update_peer_list(once, peer, event) = once

\* The peers that have the whole file: those that joined with nothing left and
\* those that completed since.
Seeds(t) == {p \in Registered(t) : \/ Head(t.all_peers[p]).left = 0
                                   \/ Head(t.all_peers[p]).completed}

\* The counters are what the responses call them: seeders counts the peers
\* that have the file, leechers the others.
MatchRoles(t) ==
  /\ t.seeders  = Cardinality(Seeds(t))
  /\ t.leechers = Cardinality(Registered(t) \ Seeds(t))
CountsMatchRoles == \A h \in Hash_t : MatchRoles(torrents_[h])

\* The database implements the registry: joining, finishing and leaving, each
\* by one announce, and one download counted per stay.
Registry == INSTANCE PeerRegistry WITH
  registered <- [h \in Hash_t |-> Registered(torrents_[h])],
  counted    <- [h \in Hash_t |-> Completed(torrents_[h])],
  downloads  <- [h \in Hash_t |-> torrents_[h].downloads]

ImplementsRegistry == Registry!Spec
==============================================================================
