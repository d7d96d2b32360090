------------------------ MODULE TorrentDataBase_proofs ------------------------
(***************************************************************************)
(* Proofs about the tracker's database, for every number of torrents and   *)
(* peers and every width of the counters.                                  *)
(***************************************************************************)
EXTENDS TorrentDataBase, FiniteSetTheorems, Arithmetic, TLAPS

(***************************************************************************)
(* What a branch of update_peer_list does to the nodes of a peer, in a     *)
(* torrent that holds one node of a peer at most.                          *)
(***************************************************************************)

\* Sequences of one element.
LEMMA OneElement ==
  ASSUME NEW S, NEW x \in S
  PROVE  /\ <<x>> \in Seq(S) /\ <<x>> # <<>>
         /\ Len(<<x>>) = 1 /\ DOMAIN <<x>> = {1}
         /\ Head(<<x>>) = x /\ Tail(<<x>>) = <<>>
         /\ Append(<<>>, x) = <<x>>
  <1>1. <<x>> \in Seq(S) /\ Len(<<x>>) = 1 /\ Head(<<x>>) = x /\ <<x>> # <<>>
    OBVIOUS
  <1>2. DOMAIN <<x>> = {1}
    BY <1>1
  <1>3. Append(<<>>, x) = <<x>>
    <2>1. <<>> \in Seq(S)
      OBVIOUS
    <2> QED BY <2>1
  <1>4. Tail(<<x>>) = <<>>
    BY <1>1
  <1> QED BY <1>1, <1>2, <1>3, <1>4

\* The nodes of a peer are none or a single one.
LEMMA NoneOrOne ==
  ASSUME NEW t \in Torrent, OneNode(t), NEW p \in PeerId
  PROVE  \/ t.all_peers[p] = <<>>
         \/ \E node \in Peer : t.all_peers[p] = <<node>>
  <1> DEFINE s == t.all_peers[p]
  <1>1. s \in Seq(Peer) /\ Len(s) <= 1
    BY DEF Torrent, OneNode
  <1>2. CASE Len(s) = 0
    BY <1>1, <1>2
  <1>3. CASE Len(s) = 1
    <2>1. s = <<s[1]>> /\ s[1] \in Peer
      BY <1>1, <1>3
    <2> QED BY <2>1
  <1> QED BY <1>1, <1>2, <1>3

\* STARTED inserts a node for a peer that has none.
LEMMA StartedEffect ==
  ASSUME NEW t \in Torrent, OneNode(t), NEW peer \in Sender
  PROVE  \/ started(t, peer) = t
         \/ /\ t.all_peers[peer.peer_id] = <<>>
            /\ started(t, peer) =
                 [all_peers |-> [t.all_peers EXCEPT ![peer.peer_id] = <<peer>>],
                  leechers  |-> IF peer.left # 0 THEN Inc(t.leechers) ELSE t.leechers,
                  seeders   |-> IF peer.left # 0 THEN t.seeders ELSE Inc(t.seeders),
                  downloads |-> t.downloads]
  <1> DEFINE p == peer.peer_id
  <1>1. p \in PeerId
    BY DEF Sender, Peer
  <1>2. CASE \E node \in Peer : t.all_peers[p] = <<node>>
    BY <1>2 DEF started, count, equal_range
  <1>3. CASE t.all_peers[p] = <<>>
    <2>1. count(t, peer) = 0
      BY <1>3 DEF count, equal_range
    <2>2. Append(t.all_peers[p], peer) = <<peer>>
      BY <1>3
    <2> QED BY <1>3, <2>1, <2>2 DEF started, insert, with_range, equal_range, Torrent
  <1> QED BY <1>1, <1>2, <1>3, NoneOrOne

\* COMPLETED marks the node of a peer that was not marked before.
LEMMA CompletedEffect ==
  ASSUME NEW t \in Torrent, OneNode(t), NEW peer \in Sender
  PROVE  \/ completed(t, peer) = t
         \/ \E node \in Peer :
              /\ t.all_peers[peer.peer_id] = <<node>>
              /\ ~node.completed
              /\ completed(t, peer) =
                   [all_peers |-> [t.all_peers EXCEPT ![peer.peer_id] =
                                     <<[node EXCEPT !.completed = TRUE]>>],
                    leechers  |-> Dec(t.leechers),
                    seeders   |-> Inc(t.seeders),
                    downloads |-> Inc(t.downloads)]
  <1> DEFINE p == peer.peer_id
  <1>1. p \in PeerId
    BY DEF Sender, Peer
  <1>2. CASE t.all_peers[p] = <<>>
    BY <1>2 DEF completed, count, equal_range
  <1>3. ASSUME NEW node \in Peer, t.all_peers[p] = <<node>>
        PROVE  \/ completed(t, peer) = t
               \/ /\ ~node.completed
                  /\ completed(t, peer) =
                       [all_peers |-> [t.all_peers EXCEPT ![p] =
                                         <<[node EXCEPT !.completed = TRUE]>>],
                        leechers  |-> Dec(t.leechers),
                        seeders   |-> Inc(t.seeders),
                        downloads |-> Inc(t.downloads)]
    <2> DEFINE marked == [node EXCEPT !.completed = TRUE]
    <2>1. find(t, peer) = node /\ Tail(equal_range(t, peer)) = <<>>
      BY <1>3 DEF find, equal_range
    <2>2. Append(Tail(equal_range(t, peer)), marked) = <<marked>>
      <3>1. marked \in Peer
        BY DEF Peer
      <3> HIDE DEF marked
      <3> QED BY <2>1, <3>1, OneElement
    <2> HIDE DEF marked
    <2>3. CASE count(t, peer) = 0 \/ peer.left # 0 \/ find(t, peer).completed
      BY <2>3 DEF completed
    <2>4. CASE ~(count(t, peer) = 0 \/ peer.left # 0 \/ find(t, peer).completed)
      BY <2>1, <2>2, <2>4 DEF completed, with_range, Torrent, marked
    <2> QED BY <2>3, <2>4
  <1> QED BY <1>1, <1>2, <1>3, NoneOrOne

\* STOPPED removes the node of a peer.
LEMMA StoppedEffect ==
  ASSUME NEW t \in Torrent, OneNode(t), NEW peer \in Sender
  PROVE  \/ stopped(t, peer) = t
         \/ \E node \in Peer :
              /\ t.all_peers[peer.peer_id] = <<node>>
              /\ stopped(t, peer) =
                   [all_peers |-> [t.all_peers EXCEPT ![peer.peer_id] = <<>>],
                    leechers  |-> IF node.completed THEN t.leechers ELSE Dec(t.leechers),
                    seeders   |-> IF node.completed THEN Dec(t.seeders) ELSE t.seeders,
                    downloads |-> t.downloads]
  <1> DEFINE p == peer.peer_id
  <1>1. p \in PeerId
    BY DEF Sender, Peer
  <1>2. CASE t.all_peers[p] = <<>>
    BY <1>2 DEF stopped, count, equal_range
  <1>3. ASSUME NEW node \in Peer, t.all_peers[p] = <<node>>
        PROVE  stopped(t, peer) =
                   [all_peers |-> [t.all_peers EXCEPT ![p] = <<>>],
                    leechers  |-> IF node.completed THEN t.leechers ELSE Dec(t.leechers),
                    seeders   |-> IF node.completed THEN Dec(t.seeders) ELSE t.seeders,
                    downloads |-> t.downloads]
    <2>1. find(t, peer) = node /\ Tail(equal_range(t, peer)) = <<>> /\ count(t, peer) # 0
      BY <1>3 DEF find, equal_range, count
    <2>2. erase_found(t, peer) = [t.all_peers EXCEPT ![p] = <<>>]
      BY <2>1 DEF erase_found, with_range
    <2> QED BY <2>1, <2>2 DEF stopped, Torrent
  <1> QED BY <1>1, <1>2, <1>3, NoneOrOne

\* Giving a peer no node or one node keeps the shape of the index and changes
\* Registered and Completed at that peer only.
LEMMA ClearNodes ==
  ASSUME NEW t \in Torrent, OneNode(t), NEW p \in PeerId,
         NEW u, u.all_peers = [t.all_peers EXCEPT ![p] = <<>>]
  PROVE  /\ u.all_peers \in [PeerId -> Seq(Peer)]
         /\ OneNode(u)
         /\ Registered(u) = Registered(t) \ {p}
         /\ Completed(u) = Completed(t) \ {p}
  <1>1. t.all_peers \in [PeerId -> Seq(Peer)]
    BY DEF Torrent
  <1>2. u.all_peers[p] = <<>> /\ \A q \in PeerId \ {p} : u.all_peers[q] = t.all_peers[q]
    BY <1>1
  <1>3. u.all_peers \in [PeerId -> Seq(Peer)]
    BY <1>1
  <1>4. OneNode(u)
    BY <1>2 DEF OneNode
  <1>5. Registered(u) = Registered(t) \ {p}
    BY <1>2 DEF Registered
  <1>6. Completed(u) = Completed(t) \ {p}
    BY <1>2, <1>5 DEF Completed, Registered
  <1> QED BY <1>3, <1>4, <1>5, <1>6

LEMMA SetNode ==
  ASSUME NEW t \in Torrent, OneNode(t), NEW p \in PeerId, NEW node \in Peer,
         NEW u, u.all_peers = [t.all_peers EXCEPT ![p] = <<node>>]
  PROVE  /\ u.all_peers \in [PeerId -> Seq(Peer)]
         /\ OneNode(u)
         /\ Registered(u) = Registered(t) \cup {p}
         /\ node.completed => Completed(u) = Completed(t) \cup {p}
         /\ ~node.completed => Completed(u) = Completed(t) \ {p}
  <1> DEFINE s == <<node>>
  <1>1. t.all_peers \in [PeerId -> Seq(Peer)]
    BY DEF Torrent
  <1>2. s \in Seq(Peer) /\ Len(s) = 1 /\ s # <<>> /\ Head(s) = node
    BY OneElement
  <1> HIDE DEF s
  <1>3. u.all_peers[p] = s /\ \A q \in PeerId \ {p} : u.all_peers[q] = t.all_peers[q]
    BY <1>1 DEF s
  <1>4. u.all_peers \in [PeerId -> Seq(Peer)]
    BY <1>1, <1>2 DEF s
  <1>5. OneNode(u)
    BY <1>2, <1>3 DEF OneNode
  <1>6. Registered(u) = Registered(t) \cup {p}
    BY <1>2, <1>3 DEF Registered
  <1>7. ASSUME NEW q PROVE q \in Completed(u) <=> IF q = p THEN node.completed ELSE q \in Completed(t)
    BY <1>2, <1>3, <1>6 DEF Completed, Registered
  <1>8. /\ node.completed => Completed(u) = Completed(t) \cup {p}
        /\ ~node.completed => Completed(u) = Completed(t) \ {p}
    BY <1>7
  <1> QED BY <1>4, <1>5, <1>6, <1>8

\* With one node of a peer at most, the index is as large as the set of peers.
LEMMA SizeIsRegistered ==
  ASSUME NEW t \in Torrent, OneNode(t)
  PROVE  /\ IsFiniteSet(Registered(t))
         /\ Cardinality(Registered(t)) \in 0..SIZE_T-1
         /\ Cardinality(Nodes(t)) = Cardinality(Registered(t))
  <1>1. IsFiniteSet(Registered(t)) /\ Cardinality(Registered(t)) <= Cardinality(PeerId)
    BY PeerIdAssumption, FS_Subset DEF Registered
  <1>2. Cardinality(Registered(t)) \in Nat /\ Cardinality(PeerId) \in Nat
    BY <1>1, PeerIdAssumption, FS_CardinalityType
  <1>3. ASSUME NEW p \in PeerId
        PROVE  DOMAIN t.all_peers[p] = IF p \in Registered(t) THEN {1} ELSE {}
    <2>1. CASE t.all_peers[p] = <<>>
      BY <2>1 DEF Registered
    <2>2. CASE \E node \in Peer : t.all_peers[p] = <<node>>
      BY <2>2, OneElement DEF Registered
    <2> QED BY <2>1, <2>2, NoneOrOne
  <1>4. Nodes(t) = Registered(t) \X {1}
    <2>1. ASSUME NEW n \in Nodes(t) PROVE n \in Registered(t) \X {1}
      <3>1. PICK p \in PeerId : n \in {p} \X DOMAIN t.all_peers[p]
        BY <2>1 DEF Nodes
      <3> QED BY <1>3, <3>1
    <2>2. ASSUME NEW n \in Registered(t) \X {1} PROVE n \in Nodes(t)
      <3>1. n[1] \in PeerId /\ n[1] \in Registered(t) /\ n = <<n[1], 1>>
        BY <2>2 DEF Registered
      <3>2. n \in {n[1]} \X DOMAIN t.all_peers[n[1]]
        BY <1>3, <3>1
      <3> QED BY <3>1, <3>2 DEF Nodes
    <2> QED BY <2>1, <2>2
  <1>5. Cardinality(Registered(t) \X {1}) = Cardinality(Registered(t)) * 1
    <2>1. IsFiniteSet({1}) /\ Cardinality({1}) = 1
      BY FS_Singleton
    <2> QED BY <1>1, <2>1, FS_Product
  <1> QED BY <1>1, <1>2, <1>4, <1>5, WidthAssumption

(***************************************************************************)
(* The counters.                                                           *)
(***************************************************************************)

\* Incrementing and decrementing a counter keep its width, and act on a sum
\* up to one turn of the counter.
LEMMA CounterSteps ==
  ASSUME NEW n \in 0..SIZE_T-1
  PROVE  /\ Inc(n) \in 0..SIZE_T-1 /\ Dec(n) \in 0..SIZE_T-1
         /\ Inc(n) = n + 1 \/ Inc(n) = n + 1 - SIZE_T
         /\ Dec(n) = n - 1 \/ Dec(n) = n - 1 + SIZE_T
         /\ Inc(n) = (n + 1) % SIZE_T
  <1>1. SIZE_T \in Nat /\ n \in Nat /\ n < SIZE_T
    BY WidthAssumption
  <1>2. CASE n = SIZE_T - 1
    BY <1>1, <1>2 DEF Inc, Dec
  <1>3. CASE n < SIZE_T - 1
    BY <1>1, <1>3 DEF Inc, Dec
  <1> QED BY <1>1, <1>2, <1>3

\* The invariant of one torrent.
TorrentOK(t) == t \in Torrent /\ OneNode(t) /\ AddUp(t)

\* In terms of the registered peers, whose number fits a counter.
LEMMA AddUpRegistered ==
  ASSUME NEW t \in Torrent, OneNode(t)
  PROVE  AddUp(t) <=> t.leechers + t.seeders \in
                        {Cardinality(Registered(t)), Cardinality(Registered(t)) + SIZE_T}
  BY SizeIsRegistered DEF AddUp

\* The sum of the counters follows the number of peers, up to one turn.
LEMMA AddUpStep ==
  ASSUME NEW t, TorrentOK(t), NEW u \in Torrent, OneNode(u), NEW k \in {-1, 0, 1},
         Cardinality(Registered(u)) = Cardinality(Registered(t)) + k,
         u.leechers + u.seeders \in {t.leechers + t.seeders + k - SIZE_T,
                                     t.leechers + t.seeders + k,
                                     t.leechers + t.seeders + k + SIZE_T}
  PROVE  AddUp(u)
  <1>1. PICK c : c = Cardinality(Registered(t))
    OBVIOUS
  <1>2. PICK d : d = Cardinality(Registered(u))
    OBVIOUS
  <1>3. PICK m : m = t.leechers + t.seeders
    OBVIOUS
  <1>4. PICK n : n = u.leechers + u.seeders
    OBVIOUS
  <1>5. c \in 0..SIZE_T-1 /\ d \in 0..SIZE_T-1 /\ d = c + k /\ SIZE_T \in Nat
    BY <1>1, <1>2, SizeIsRegistered, WidthAssumption DEF TorrentOK
  <1>6. m \in {c, c + SIZE_T}
    BY <1>1, <1>3, AddUpRegistered DEF TorrentOK
  <1>7. n \in 0..(SIZE_T-1)+(SIZE_T-1) /\ n \in {m + k - SIZE_T, m + k, m + k + SIZE_T}
    <2>1. u.leechers \in 0..SIZE_T-1 /\ u.seeders \in 0..SIZE_T-1
      BY DEF Torrent
    <2> QED BY <1>3, <1>4, <1>5, <2>1
  <1>8. n \in {d, d + SIZE_T}
    BY <1>5, <1>6, <1>7
  <1> QED BY <1>2, <1>4, <1>8, AddUpRegistered

(***************************************************************************)
(* A branch keeps the invariant of the torrent and is a step of the        *)
(* registry, or changes nothing.                                           *)
(***************************************************************************)

\* STARTED joins a peer that is not registered.
LEMMA StartedStep ==
  ASSUME NEW t, TorrentOK(t), NEW peer \in Sender, NEW u, u = started(t, peer), u # t
  PROVE  /\ TorrentOK(u)
         /\ peer.peer_id \in PeerId \ Registered(t)
         /\ Registered(u) = Registered(t) \cup {peer.peer_id}
         /\ Completed(u) = Completed(t)
         /\ u.downloads = t.downloads
  <1>0. PICK p \in PeerId : p = peer.peer_id
    BY DEF Sender, Peer
  <1>1. t \in Torrent /\ OneNode(t)
    BY DEF TorrentOK
  <1>node. PICK node \in Peer : node = peer /\ ~node.completed
    BY DEF Sender
  <1>2. /\ t.all_peers[p] = <<>>
        /\ u = [all_peers |-> [t.all_peers EXCEPT ![p] = <<peer>>],
                leechers  |-> IF peer.left # 0 THEN Inc(t.leechers) ELSE t.leechers,
                seeders   |-> IF peer.left # 0 THEN t.seeders ELSE Inc(t.seeders),
                downloads |-> t.downloads]
    BY <1>0, <1>1, StartedEffect
  <1>3. /\ u.all_peers \in [PeerId -> Seq(Peer)]
        /\ OneNode(u)
        /\ Registered(u) = Registered(t) \cup {p}
        /\ Completed(u) = Completed(t) \ {p}
    <2>1. u.all_peers = [t.all_peers EXCEPT ![p] = <<node>>]
      BY <1>2, <1>node
    <2>2. u.all_peers \in [PeerId -> Seq(Peer)]
      BY <1>1, <2>1, SetNode
    <2>3. OneNode(u)
      BY <1>1, <2>1, SetNode
    <2>4. Registered(u) = Registered(t) \cup {p}
      BY <1>1, <2>1, SetNode
    <2>5. ~node.completed => Completed(u) = Completed(t) \ {p}
      BY <1>1, <2>1, SetNode
    <2> QED BY <1>node, <2>2, <2>3, <2>4, <2>5
  <1>4. p \notin Registered(t) /\ p \notin Completed(t)
    BY <1>2 DEF Registered, Completed
  <1>5. Cardinality(Registered(u)) = Cardinality(Registered(t)) + 1
    <2>1. IsFiniteSet(Registered(t))
      BY <1>1, SizeIsRegistered
    <2> QED BY <1>3, <1>4, <2>1, FS_AddElement
  <1>6. /\ t.leechers \in 0..SIZE_T-1 /\ t.seeders \in 0..SIZE_T-1
        /\ t.downloads \in 0..SIZE_T-1
    BY <1>1 DEF Torrent
  <1>7. u.leechers \in 0..SIZE_T-1 /\ u.seeders \in 0..SIZE_T-1
    BY <1>2, <1>6, CounterSteps
  <1>8. u \in Torrent
    BY <1>2, <1>3, <1>6, <1>7 DEF Torrent
  <1>9. AddUp(u)
    <2>1. /\ Inc(t.leechers) \in {t.leechers + 1, t.leechers + 1 - SIZE_T}
          /\ Inc(t.seeders) \in {t.seeders + 1, t.seeders + 1 - SIZE_T}
      BY <1>6, CounterSteps
    <2>2. u.leechers + u.seeders \in {t.leechers + t.seeders + 1 - SIZE_T,
                                      t.leechers + t.seeders + 1}
      <3>1. SIZE_T \in Nat
        BY WidthAssumption
      <3>2. CASE peer.left # 0
        <4>1. u.leechers = Inc(t.leechers) /\ u.seeders = t.seeders
          BY <1>2, <3>2
        <4> QED BY <1>6, <2>1, <3>1, <4>1
      <3>3. CASE peer.left = 0
        <4>1. u.leechers = t.leechers /\ u.seeders = Inc(t.seeders)
          BY <1>2, <3>3
        <4> QED BY <1>6, <2>1, <3>1, <4>1
      <3> QED BY <3>2, <3>3
    <2> QED BY <1>3, <1>5, <1>8, <2>2, AddUpStep
  <1>10. u.downloads = t.downloads
    BY <1>2
  <1>11. Completed(u) = Completed(t)
    BY <1>3, <1>4
  <1>12. TorrentOK(u)
    BY <1>3, <1>8, <1>9 DEF TorrentOK
  <1> QED BY <1>0, <1>3, <1>4, <1>10, <1>11, <1>12

\* COMPLETED counts the download of a registered peer not counted before.
LEMMA CompletedStep ==
  ASSUME NEW t, TorrentOK(t), NEW peer \in Sender, NEW u, u = completed(t, peer), u # t
  PROVE  /\ TorrentOK(u)
         /\ peer.peer_id \in Registered(t) \ Completed(t)
         /\ Registered(u) = Registered(t)
         /\ Completed(u) = Completed(t) \cup {peer.peer_id}
         /\ u.downloads = (t.downloads + 1) % SIZE_T
  <1>0. PICK p \in PeerId : p = peer.peer_id
    BY DEF Sender, Peer
  <1>1. t \in Torrent /\ OneNode(t)
    BY DEF TorrentOK
  <1>2. PICK node \in Peer :
          /\ t.all_peers[p] = <<node>>
          /\ ~node.completed
          /\ u = [all_peers |-> [t.all_peers EXCEPT ![p] =
                                   <<[node EXCEPT !.completed = TRUE]>>],
                  leechers  |-> Dec(t.leechers),
                  seeders   |-> Inc(t.seeders),
                  downloads |-> Inc(t.downloads)]
    BY <1>0, <1>1, CompletedEffect
  <1>3. PICK marked \in Peer : marked = [node EXCEPT !.completed = TRUE] /\ marked.completed
    <2>1. [node EXCEPT !.completed = TRUE] \in Peer
      BY DEF Peer
    <2>2. [node EXCEPT !.completed = TRUE].completed
      BY DEF Peer
    <2> QED BY <2>1, <2>2
  <1>4. p \in Registered(t) /\ p \notin Completed(t)
    <2>1. t.all_peers[p] # <<>> /\ Head(t.all_peers[p]) = node
      BY <1>2, OneElement
    <2> QED BY <1>2, <2>1 DEF Registered, Completed
  <1>5. /\ u.all_peers \in [PeerId -> Seq(Peer)]
        /\ OneNode(u)
        /\ Registered(u) = Registered(t)
        /\ Completed(u) = Completed(t) \cup {p}
    <2>1. u.all_peers = [t.all_peers EXCEPT ![p] = <<marked>>]
      BY <1>2, <1>3
    <2>2. u.all_peers \in [PeerId -> Seq(Peer)]
      BY <1>1, <2>1, SetNode
    <2>3. OneNode(u)
      BY <1>1, <2>1, SetNode
    <2>4. Registered(u) = Registered(t) \cup {p}
      <3>1. <<marked>> # <<>> /\ u.all_peers[p] = <<marked>>
        BY <1>1, <2>1, OneElement DEF Torrent
      <3>2. \A q \in PeerId \ {p} : u.all_peers[q] = t.all_peers[q]
        BY <1>1, <2>1 DEF Torrent
      <3> QED BY <3>1, <3>2 DEF Registered
    <2>5. marked.completed => Completed(u) = Completed(t) \cup {p}
      BY <1>1, <2>1, SetNode
    <2> QED BY <1>3, <1>4, <2>2, <2>3, <2>4, <2>5
  <1>6. /\ t.leechers \in 0..SIZE_T-1 /\ t.seeders \in 0..SIZE_T-1
        /\ t.downloads \in 0..SIZE_T-1
    BY <1>1 DEF Torrent
  <1>7. /\ u.leechers \in 0..SIZE_T-1 /\ u.seeders \in 0..SIZE_T-1
        /\ u.downloads \in 0..SIZE_T-1 /\ u.downloads = (t.downloads + 1) % SIZE_T
    BY <1>2, <1>6, CounterSteps
  <1>8. u \in Torrent
    BY <1>2, <1>5, <1>7 DEF Torrent
  <1>9. AddUp(u)
    <2>1. /\ Dec(t.leechers) \in {t.leechers - 1, t.leechers - 1 + SIZE_T}
          /\ Inc(t.seeders) \in {t.seeders + 1, t.seeders + 1 - SIZE_T}
      BY <1>6, CounterSteps
    <2>2. u.leechers + u.seeders \in {t.leechers + t.seeders + 0 - SIZE_T,
                                      t.leechers + t.seeders + 0,
                                      t.leechers + t.seeders + 0 + SIZE_T}
      <3>1. SIZE_T \in Nat
        BY WidthAssumption
      <3>2. u.leechers = Dec(t.leechers) /\ u.seeders = Inc(t.seeders)
        BY <1>2
      <3> QED BY <1>6, <2>1, <3>1, <3>2
    <2>3. Cardinality(Registered(u)) = Cardinality(Registered(t)) + 0
      BY <1>1, <1>5, SizeIsRegistered
    <2> QED BY <1>5, <1>8, <2>2, <2>3, AddUpStep
  <1>10. TorrentOK(u)
    BY <1>5, <1>8, <1>9 DEF TorrentOK
  <1> QED BY <1>0, <1>4, <1>5, <1>7, <1>10

\* STOPPED removes a registered peer.
LEMMA StoppedStep ==
  ASSUME NEW t, TorrentOK(t), NEW peer \in Sender, NEW u, u = stopped(t, peer), u # t
  PROVE  /\ TorrentOK(u)
         /\ peer.peer_id \in Registered(t)
         /\ Registered(u) = Registered(t) \ {peer.peer_id}
         /\ Completed(u) = Completed(t) \ {peer.peer_id}
         /\ u.downloads = t.downloads
  <1>0. PICK p \in PeerId : p = peer.peer_id
    BY DEF Sender, Peer
  <1>1. t \in Torrent /\ OneNode(t)
    BY DEF TorrentOK
  <1>2. PICK node \in Peer :
          /\ t.all_peers[p] = <<node>>
          /\ u = [all_peers |-> [t.all_peers EXCEPT ![p] = <<>>],
                  leechers  |-> IF node.completed THEN t.leechers ELSE Dec(t.leechers),
                  seeders   |-> IF node.completed THEN Dec(t.seeders) ELSE t.seeders,
                  downloads |-> t.downloads]
    BY <1>0, <1>1, StoppedEffect
  <1>3. /\ u.all_peers \in [PeerId -> Seq(Peer)]
        /\ OneNode(u)
        /\ Registered(u) = Registered(t) \ {p}
        /\ Completed(u) = Completed(t) \ {p}
    <2>1. u.all_peers = [t.all_peers EXCEPT ![p] = <<>>]
      BY <1>2
    <2>2. u.all_peers \in [PeerId -> Seq(Peer)]
      BY <1>1, <2>1, ClearNodes
    <2>3. OneNode(u)
      BY <1>1, <2>1, ClearNodes
    <2>4. Registered(u) = Registered(t) \ {p}
      BY <1>1, <2>1, ClearNodes
    <2>5. Completed(u) = Completed(t) \ {p}
      BY <1>1, <2>1, ClearNodes
    <2> QED BY <2>2, <2>3, <2>4, <2>5
  <1>4. p \in Registered(t)
    <2>1. t.all_peers[p] # <<>>
      BY <1>2, OneElement
    <2> QED BY <2>1 DEF Registered
  <1>5. Cardinality(Registered(u)) = Cardinality(Registered(t)) - 1
    <2>1. IsFiniteSet(Registered(t))
      BY <1>1, SizeIsRegistered
    <2> QED BY <1>3, <1>4, <2>1, FS_RemoveElement
  <1>6. /\ t.leechers \in 0..SIZE_T-1 /\ t.seeders \in 0..SIZE_T-1
        /\ t.downloads \in 0..SIZE_T-1
    BY <1>1 DEF Torrent
  <1>7. u.leechers \in 0..SIZE_T-1 /\ u.seeders \in 0..SIZE_T-1 /\ u.downloads = t.downloads
    BY <1>2, <1>6, CounterSteps
  <1>8. u \in Torrent
    BY <1>2, <1>3, <1>6, <1>7 DEF Torrent
  <1>9. AddUp(u)
    <2>1. /\ Dec(t.leechers) \in {t.leechers - 1, t.leechers - 1 + SIZE_T}
          /\ Dec(t.seeders) \in {t.seeders - 1, t.seeders - 1 + SIZE_T}
      BY <1>6, CounterSteps
    <2>2. u.leechers + u.seeders \in {t.leechers + t.seeders + (-1),
                                      t.leechers + t.seeders + (-1) + SIZE_T}
      <3>1. SIZE_T \in Nat
        BY WidthAssumption
      <3>2. CASE node.completed
        <4>1. u.leechers = t.leechers /\ u.seeders = Dec(t.seeders)
          BY <1>2, <3>2
        <4> QED BY <1>6, <2>1, <3>1, <4>1
      <3>3. CASE ~node.completed
        <4>1. u.leechers = Dec(t.leechers) /\ u.seeders = t.seeders
          BY <1>2, <3>3
        <4> QED BY <1>6, <2>1, <3>1, <4>1
      <3> QED BY <3>2, <3>3
    <2>3. Cardinality(Registered(u)) = Cardinality(Registered(t)) + (-1)
      BY <1>1, <1>5, SizeIsRegistered
    <2> QED BY <1>3, <1>8, <2>2, <2>3, AddUpStep
  <1>10. TorrentOK(u)
    BY <1>3, <1>8, <1>9 DEF TorrentOK
  <1> QED BY <1>0, <1>3, <1>4, <1>7, <1>10

\* The steps of one torrent that the registry allows.
RegistryStep(t, u, p) ==
  \/ u = t
  \/ /\ p \in PeerId \ Registered(t)
     /\ Registered(u) = Registered(t) \cup {p}
     /\ Completed(u) = Completed(t)
     /\ u.downloads = t.downloads
  \/ /\ p \in Registered(t) \ Completed(t)
     /\ Registered(u) = Registered(t)
     /\ Completed(u) = Completed(t) \cup {p}
     /\ u.downloads = (t.downloads + 1) % SIZE_T
  \/ /\ p \in Registered(t)
     /\ Registered(u) = Registered(t) \ {p}
     /\ Completed(u) = Completed(t) \ {p}
     /\ u.downloads = t.downloads

LEMMA UpdateStep ==
  ASSUME NEW t, TorrentOK(t), NEW peer \in Sender, NEW event,
         NEW u, u = update_peer_list(t, peer, event)
  PROVE  TorrentOK(u) /\ RegistryStep(t, u, peer.peer_id)
  <1>1. \/ event = "COMPLETED" /\ u = completed(t, peer)
        \/ event = "STARTED" /\ u = started(t, peer)
        \/ event = "STOPPED" /\ u = stopped(t, peer)
        \/ u = t
    BY DEF update_peer_list
  <1>2. CASE u = t
    BY <1>2 DEF RegistryStep
  <1>3. CASE u = completed(t, peer) /\ u # t
    BY <1>3, CompletedStep DEF RegistryStep
  <1>4. CASE u = started(t, peer) /\ u # t
    BY <1>4, StartedStep DEF RegistryStep
  <1>5. CASE u = stopped(t, peer) /\ u # t
    BY <1>5, StoppedStep DEF RegistryStep
  <1> QED BY <1>1, <1>2, <1>3, <1>4, <1>5

(***************************************************************************)
(* The database, called in any order.                                      *)
(***************************************************************************)

DBInv == TypeOK /\ OneNodePerPeer /\ CountsAddUp

LEMMA DBInvByTorrent ==
  DBInv <=> TypeOK /\ \A h \in Hash_t : TorrentOK(torrents_[h])
  BY DEF DBInv, TypeOK, OneNodePerPeer, CountsAddUp, TorrentOK

LEMMA NewTorrentOK ==
  /\ TorrentOK(NewTorrent)
  /\ Registered(NewTorrent) = {}
  /\ Completed(NewTorrent) = {}
  <1>1. NewTorrent.all_peers = [p \in PeerId |-> <<>>]
    BY DEF NewTorrent
  <1>2. NewTorrent \in Torrent /\ OneNode(NewTorrent)
    <2>1. 0 \in 0..SIZE_T-1
      <3>1. Cardinality(PeerId) \in Nat
        BY PeerIdAssumption, FS_CardinalityType
      <3> QED BY <3>1, WidthAssumption
    <2>2. [p \in PeerId |-> <<>>] \in [PeerId -> Seq(Peer)]
      OBVIOUS
    <2> QED BY <1>1, <2>1, <2>2 DEF NewTorrent, Torrent, OneNode
  <1>3. Registered(NewTorrent) = {} /\ Completed(NewTorrent) = {}
    BY <1>1 DEF Registered, Completed
  <1>4. AddUp(NewTorrent)
    <2>1. NewTorrent.leechers + NewTorrent.seeders = 0
      BY DEF NewTorrent
    <2>2. Cardinality(Registered(NewTorrent)) = 0
      BY <1>3, FS_EmptySet
    <2> QED BY <1>2, <2>1, <2>2, AddUpRegistered
  <1> QED BY <1>2, <1>3, <1>4 DEF TorrentOK

LEMMA DBInvInit == DBInit => DBInv
  <1> SUFFICES ASSUME DBInit PROVE TypeOK /\ \A h \in Hash_t : TorrentOK(torrents_[h])
    BY DBInvByTorrent
  <1>1. \A h \in Hash_t : torrents_[h] = NewTorrent
    BY DEF DBInit
  <1>2. TypeOK
    BY NewTorrentOK DEF DBInit, TypeOK, TorrentOK
  <1> QED BY <1>1, <1>2, NewTorrentOK

\* A step of the database is an update of one torrent.
LEMMA DBStep ==
  ASSUME DBInv, DBNext
  PROVE  \E h \in Hash_t, peer \in Sender, event \in EventType :
           /\ torrents_' = [torrents_ EXCEPT ![h] = update_peer_list(torrents_[h], peer, event)]
           /\ event = "STARTED" => peer.left \in LeftAtStart
  BY DEF DBNext, UpdatePeerList, EventType

LEMMA DBInvStep == DBInv /\ [DBNext]_torrents_ => DBInv'
  <1> SUFFICES ASSUME DBInv, [DBNext]_torrents_ PROVE DBInv'
    OBVIOUS
  <1>1. CASE UNCHANGED torrents_
    BY <1>1 DEF DBInv, TypeOK, OneNodePerPeer, CountsAddUp
  <1>2. CASE DBNext
    <2>1. PICK h \in Hash_t, peer \in Sender, event \in EventType :
            torrents_' = [torrents_ EXCEPT ![h] = update_peer_list(torrents_[h], peer, event)]
      BY <1>2, DBStep
    <2>2. PICK u : u = update_peer_list(torrents_[h], peer, event)
      OBVIOUS
    <2>3. TypeOK /\ \A g \in Hash_t : TorrentOK(torrents_[g])
      BY DBInvByTorrent
    <2>4. TorrentOK(u) /\ u \in Torrent
      <3>1. TorrentOK(torrents_[h])
        BY <2>3
      <3> QED BY <2>2, <3>1, UpdateStep DEF TorrentOK
    <2>5. torrents_' = [torrents_ EXCEPT ![h] = u]
      BY <2>1, <2>2
    <2>6. TypeOK'
      BY <2>3, <2>4, <2>5 DEF TypeOK
    <2>7. \A g \in Hash_t : TorrentOK(torrents_'[g])
      BY <2>3, <2>4, <2>5 DEF TypeOK
    <2> QED BY <2>6, <2>7 DEF DBInv, TypeOK, OneNodePerPeer, CountsAddUp, TorrentOK
  <1> QED BY <1>1, <1>2

LEMMA DBInvAlways == DBSpec => []DBInv
  BY DBInvInit, DBInvStep, PTL DEF DBSpec

\* Every entry of the table is a torrent whose counters are std::size_t values.
THEOREM TypeCorrect == DBSpec => []TypeOK
  <1>1. DBInv => TypeOK
    BY DEF DBInv
  <1> QED BY <1>1, DBInvAlways, PTL

\* ranked_non_unique never holds two nodes of one peer.
THEOREM OneNodeAlways == DBSpec => []OneNodePerPeer
  <1>1. DBInv => OneNodePerPeer
    BY DEF DBInv
  <1> QED BY <1>1, DBInvAlways, PTL

\* leechers and seeders together count the peers of a torrent, for any number
\* of peers that a counter can count and though either counter may wrap.
THEOREM CountsAddUpAlways == DBSpec => []CountsAddUp
  <1>1. DBInv => CountsAddUp
    BY DEF DBInv
  <1> QED BY <1>1, DBInvAlways, PTL

(***************************************************************************)
(* The random selection of get_peer_list ends.                             *)
(***************************************************************************)

\* A finite set has subsets of every size up to its own.
LEMMA SubsetOfSize ==
  ASSUME NEW S, IsFiniteSet(S), NEW n \in 0..Cardinality(S)
  PROVE  kSubset(n, S) # {}
  <1>1. Cardinality(S) \in Nat /\ ExistsBijection(1..Cardinality(S), S)
    BY FS_CardinalityType
  <1>2. PICK f \in Bijection(1..Cardinality(S), S) : TRUE
    BY <1>1 DEF ExistsBijection
  <1> DEFINE T == {f[i] : i \in 1..n}
             g == [i \in 1..n |-> f[i]]
  <1>3. n \in Nat /\ 1..n \subseteq 1..Cardinality(S)
    BY <1>1
  <1>4. T \subseteq S
    BY <1>2, <1>3 DEF Bijection, Injection, Surjection
  <1>5. g \in Bijection(1..n, T)
    BY <1>2, <1>3 DEF Bijection, Injection, Surjection, IsInjective
  <1>6. Cardinality(T) = n
    BY <1>3, <1>5, FS_CountingElements DEF ExistsBijection
  <1> QED BY <1>4, <1>6 DEF kSubset

\* The least of three numbers.
LEMMA LeastOfThree ==
  ASSUME NEW a \in Int, NEW b \in Int, NEW c \in Int
  PROVE  /\ Min({a, b, c}) \in Int
         /\ Min({a, b, c}) <= a /\ Min({a, b, c}) <= b /\ Min({a, b, c}) <= c
  <1>1. \E x \in {a, b, c} : \A y \in {a, b, c} : x =< y
    <2>1. CASE a <= b /\ a <= c
      BY <2>1
    <2>2. CASE b <= a /\ b <= c
      BY <2>2
    <2>3. CASE c <= a /\ c <= b
      BY <2>3
    <2> QED BY <2>1, <2>2, <2>3
  <1>2. Min({a, b, c}) \in {a, b, c} /\ \A y \in {a, b, c} : Min({a, b, c}) =< y
    BY <1>1 DEF Min
  <1> QED BY <1>2

\* The greater of a number and 0.
LEMMA AtLeastZero ==
  ASSUME NEW a \in Int
  PROVE  Max({0, a}) \in Nat /\ (Max({0, a}) = 0 \/ Max({0, a}) = a)
  <1>1. \E x \in {0, a} : \A y \in {0, a} : x >= y
    <2>1. CASE a <= 0
      BY <2>1
    <2>2. CASE 0 <= a
      BY <2>2
    <2> QED BY <2>1, <2>2
  <1>2. Max({0, a}) \in {0, a} /\ \A y \in {0, a} : Max({0, a}) >= y
    BY <1>1 DEF Max
  <1> QED BY <1>2

\* A conversion to int32_t never makes a number greater.
LEMMA Narrowed ==
  ASSUME NEW n \in Nat
  PROVE  AsInt32(n) \in Int /\ AsInt32(n) <= n
  <1> DEFINE low == n % INT32
             q == n \div INT32
  <1>1. INT32 \in Nat \ {0}
    BY WidthAssumption
  <1>2. q \in Nat /\ low \in Nat /\ n = INT32 * q + low
    BY <1>1, Division
  <1> HIDE DEF low, q
  <1>3. INT32 * q \in Nat
    BY <1>1, <1>2
  <1>4. low <= n
    BY <1>2, <1>3
  <1>5. AsInt32(n) = low \/ AsInt32(n) = low - INT32
    BY DEF AsInt32, low
  <1> QED BY <1>1, <1>2, <1>4, <1>5

\* The loop of get_peer_list is never asked for more peers than there are, nor
\* for more than the limit.
LEMMA ListLengthBound ==
  ASSUME NEW t, Cardinality(Nodes(t)) \in Nat, NEW num_want \in Int
  PROVE  /\ ListLength(t, num_want) \in 0..Cardinality(Nodes(t))
         /\ ListLength(t, num_want) <= MAX_ANNOUNCE_PEERS
  <1> DEFINE n == Cardinality(Nodes(t))
             limit == Limit(num_want, n)
  <1>1. Wanted(num_want) \in Int /\ MAX_ANNOUNCE_PEERS \in Nat
    BY ListAssumption DEF Wanted
  <1>2. n \in Nat /\ AsInt32(n) \in Int /\ AsInt32(n) <= n
    BY Narrowed
  <1> HIDE DEF n
  <1>3. limit \in Int /\ limit <= MAX_ANNOUNCE_PEERS /\ limit <= AsInt32(n)
    BY <1>1, <1>2, LeastOfThree DEF Limit
  <1> HIDE DEF limit
  <1>4. Max({0, limit}) \in Nat /\ (Max({0, limit}) = 0 \/ Max({0, limit}) = limit)
    BY <1>3, AtLeastZero
  <1>5. Max({0, limit}) \in 0..n /\ Max({0, limit}) <= MAX_ANNOUNCE_PEERS
    BY <1>1, <1>2, <1>3, <1>4
  <1> QED BY <1>5 DEF ListLength, limit, n

\* For every num_want there are enough distinct peers for the loop of
\* get_peer_list to end, for any number of peers and any limits.
THEOREM SelectionAlwaysEnds == DBSpec => []SelectionEnds
  <1>1. DBInv => SelectionEnds
    <2> SUFFICES ASSUME DBInv, NEW h \in Hash_t, NEW num_want \in -1..(MAX_ANNOUNCE_PEERS + 1)
                 PROVE  get_peer_list(torrents_[h], num_want) # {}
      BY DEF SelectionEnds
    <2> DEFINE t == torrents_[h]
    <2>1. t \in Torrent /\ OneNode(t)
      BY DEF DBInv, TypeOK, OneNodePerPeer
    <2> HIDE DEF t
    <2>2. /\ IsFiniteSet(Registered(t)) /\ Cardinality(Registered(t)) \in Nat
          /\ Cardinality(Nodes(t)) = Cardinality(Registered(t))
      BY <2>1, SizeIsRegistered, FS_CardinalityType
    <2>3. ListLength(t, num_want) \in 0..Cardinality(Registered(t))
      BY <2>2, ListLengthBound
    <2>4. PICK selected : selected \in kSubset(ListLength(t, num_want), Registered(t))
      BY <2>2, <2>3, SubsetOfSize
    <2> QED BY <2>4 DEF get_peer_list, t
  <1> QED BY <1>1, DBInvAlways, PTL

(***************************************************************************)
(* The database implements the registry.                                   *)
(***************************************************************************)

LEMMA RegistryInit == DBInit => Registry!Init
  <1> SUFFICES ASSUME DBInit PROVE Registry!Init
    OBVIOUS
  <1>1. \A h \in Hash_t : torrents_[h] = NewTorrent
    BY DEF DBInit
  <1>2. NewTorrent.downloads = 0
    BY DEF NewTorrent
  <1> QED BY <1>1, <1>2, NewTorrentOK DEF Registry!Init

LEMMA RegistryNext == DBInv /\ [DBNext]_torrents_ => [Registry!Next]_(Registry!vars)
  <1> SUFFICES ASSUME DBInv, [DBNext]_torrents_ PROVE [Registry!Next]_(Registry!vars)
    OBVIOUS
  <1> DEFINE reg  == [g \in Hash_t |-> Registered(torrents_[g])]
             cnt  == [g \in Hash_t |-> Completed(torrents_[g])]
             down == [g \in Hash_t |-> torrents_[g].downloads]
  <1>1. CASE UNCHANGED torrents_
    BY <1>1 DEF Registry!vars
  <1>2. CASE DBNext
    <2>1. PICK h \in Hash_t, peer \in Sender, event \in EventType :
            torrents_' = [torrents_ EXCEPT ![h] = update_peer_list(torrents_[h], peer, event)]
      BY <1>2, DBStep
    <2>2. PICK u : u = update_peer_list(torrents_[h], peer, event)
      OBVIOUS
    <2>3. PICK p \in PeerId : p = peer.peer_id
      BY DEF Sender, Peer
    <2>4. torrents_' = [torrents_ EXCEPT ![h] = u] /\ torrents_ \in [Hash_t -> Torrent]
      BY <2>1, <2>2 DEF DBInv, TypeOK
    <2>5. RegistryStep(torrents_[h], u, p)
      <3>1. TorrentOK(torrents_[h])
        BY DBInvByTorrent
      <3> QED BY <2>2, <2>3, <3>1, UpdateStep
    <2>6. /\ reg' = [reg EXCEPT ![h] = Registered(u)]
          /\ cnt' = [cnt EXCEPT ![h] = Completed(u)]
          /\ down' = [down EXCEPT ![h] = u.downloads]
      BY <2>4
    <2>7. reg[h] = Registered(torrents_[h]) /\ cnt[h] = Completed(torrents_[h])
          /\ down[h] = torrents_[h].downloads
      OBVIOUS
    <2>8. CASE u = torrents_[h]
      BY <2>4, <2>8 DEF Registry!vars
    <2>9. CASE /\ p \in PeerId \ Registered(torrents_[h])
               /\ Registered(u) = Registered(torrents_[h]) \cup {p}
               /\ Completed(u) = Completed(torrents_[h])
               /\ u.downloads = torrents_[h].downloads
      <3>1. p \notin reg[h] /\ reg' = [reg EXCEPT ![h] = @ \cup {p}] /\ cnt' = cnt /\ down' = down
        BY <2>6, <2>7, <2>9
      <3>2. Registry!Join(h, p)
        BY <3>1 DEF Registry!Join
      <3> QED BY <3>2 DEF Registry!Next
    <2>10. CASE /\ p \in Registered(torrents_[h]) \ Completed(torrents_[h])
                /\ Registered(u) = Registered(torrents_[h])
                /\ Completed(u) = Completed(torrents_[h]) \cup {p}
                /\ u.downloads = (torrents_[h].downloads + 1) % SIZE_T
      <3>1. /\ p \in reg[h] \ cnt[h]
            /\ reg' = reg
            /\ cnt' = [cnt EXCEPT ![h] = @ \cup {p}]
            /\ down' = [down EXCEPT ![h] = (@ + 1) % SIZE_T]
        BY <2>6, <2>7, <2>10
      <3>2. Registry!Finish(h, p)
        BY <3>1 DEF Registry!Finish
      <3> QED BY <3>2 DEF Registry!Next
    <2>11. CASE /\ p \in Registered(torrents_[h])
                /\ Registered(u) = Registered(torrents_[h]) \ {p}
                /\ Completed(u) = Completed(torrents_[h]) \ {p}
                /\ u.downloads = torrents_[h].downloads
      <3>1. /\ p \in reg[h]
            /\ reg' = [reg EXCEPT ![h] = @ \ {p}]
            /\ cnt' = [cnt EXCEPT ![h] = @ \ {p}]
            /\ down' = down
        BY <2>6, <2>7, <2>11
      <3>2. Registry!Leave(h, p)
        BY <3>1 DEF Registry!Leave
      <3> QED BY <3>2 DEF Registry!Next
    <2> QED BY <2>5, <2>8, <2>9, <2>10, <2>11 DEF RegistryStep
  <1> QED BY <1>1, <1>2

\* Every behaviour of the database is one of the registry: a peer joins with
\* its first STARTED, leaves with its first STOPPED, and has one download
\* counted per stay, however often and in whatever order its events arrive.
THEOREM DatabaseImplementsRegistry == DBSpec => ImplementsRegistry
  <1>1. DBSpec => []DBInv
    BY DBInvAlways
  <1>2. DBInit => Registry!Init
    BY RegistryInit
  <1>3. DBInv /\ [DBNext]_torrents_ => [Registry!Next]_(Registry!vars)
    BY RegistryNext
  <1> QED BY <1>1, <1>2, <1>3, PTL DEF DBSpec, ImplementsRegistry, Registry!Spec

(***************************************************************************)
(* A repeated announce.                                                    *)
(***************************************************************************)

LEMMA TwiceIsOnce ==
  ASSUME NEW t, TorrentOK(t), NEW peer \in Sender, NEW event,
         NEW u, u = update_peer_list(t, peer, event)
  PROVE  update_peer_list(u, peer, event) = u
  <1>0. PICK p \in PeerId : p = peer.peer_id
    BY DEF Sender, Peer
  <1>1. TorrentOK(u) /\ u \in Torrent /\ OneNode(u)
    BY UpdateStep DEF TorrentOK
  <1>2. SUFFICES ASSUME u # t
                 PROVE  update_peer_list(u, peer, event) = u
    OBVIOUS
  <1>3. CASE event = "STARTED"
    <2>1. u = started(t, peer)
      BY <1>3 DEF update_peer_list
    <2>2. p \in Registered(u)
      BY <1>0, <1>2, <2>1, StartedStep
    <2>3. count(u, peer) # 0
      <3>1. u.all_peers[p] # <<>>
        BY <2>2 DEF Registered
      <3>2. u.all_peers[p] \in Seq(Peer)
        BY <1>1 DEF Torrent
      <3> QED BY <1>0, <3>1, <3>2 DEF count, equal_range
    <2>4. started(u, peer) = u
      BY <2>3 DEF started
    <2> QED BY <1>3, <2>4 DEF update_peer_list
  <1>4. CASE event = "COMPLETED"
    <2>1. u = completed(t, peer)
      BY <1>4 DEF update_peer_list
    <2>2. p \in Completed(u)
      BY <1>0, <1>2, <2>1, CompletedStep
    <2>3. find(u, peer).completed
      BY <1>0, <2>2 DEF Completed, find, equal_range
    <2>4. completed(u, peer) = u
      BY <2>3 DEF completed
    <2> QED BY <1>4, <2>4 DEF update_peer_list
  <1>5. CASE event = "STOPPED"
    <2>1. u = stopped(t, peer)
      BY <1>5 DEF update_peer_list
    <2>2. p \notin Registered(u)
      BY <1>0, <1>2, <2>1, StoppedStep
    <2>3. count(u, peer) = 0
      BY <1>0, <2>2 DEF Registered, count, equal_range
    <2>4. stopped(u, peer) = u
      BY <2>3 DEF stopped
    <2> QED BY <1>5, <2>4 DEF update_peer_list
  <1>6. CASE event \notin {"STARTED", "COMPLETED", "STOPPED"}
    BY <1>6 DEF update_peer_list
  <1> QED BY <1>3, <1>4, <1>5, <1>6

\* A duplicated announce changes no reachable database.
THEOREM RepetitionHarmless == DBSpec => []RepeatedAnnounceIsHarmless
  <1>1. DBInv => RepeatedAnnounceIsHarmless
    <2> SUFFICES ASSUME DBInv, NEW h \in Hash_t, NEW peer \in Sender, NEW event \in EventType
                 PROVE  update_peer_list(update_peer_list(torrents_[h], peer, event), peer, event)
                          = update_peer_list(torrents_[h], peer, event)
      BY DEF RepeatedAnnounceIsHarmless
    <2>1. TorrentOK(torrents_[h])
      BY DBInvByTorrent
    <2>2. PICK u : u = update_peer_list(torrents_[h], peer, event)
      OBVIOUS
    <2> QED BY <2>1, <2>2, TwiceIsOnce
  <1> QED BY <1>1, DBInvAlways, PTL

(***************************************************************************)
(* The roles of the peers, when every client starts with something left.   *)
(***************************************************************************)

\* No node was inserted with nothing left.
NoneLeftZero(t) == \A p \in PeerId : t.all_peers[p] # <<>> => Head(t.all_peers[p]).left # 0

RolesOK(t) ==
  /\ TorrentOK(t)
  /\ NoneLeftZero(t)
  /\ t.seeders = Cardinality(Completed(t))
  /\ t.leechers = Cardinality(Registered(t) \ Completed(t))

\* Neither counter of a torrent overflows.
LEMMA RolesFit ==
  ASSUME NEW t \in Torrent, OneNode(t)
  PROVE  /\ IsFiniteSet(Completed(t)) /\ IsFiniteSet(Registered(t) \ Completed(t))
         /\ Cardinality(Completed(t)) \in 0..SIZE_T-1
         /\ Cardinality(Registered(t) \ Completed(t)) \in 0..SIZE_T-1
  <1>1. IsFiniteSet(Registered(t)) /\ Cardinality(Registered(t)) \in 0..SIZE_T-1
    BY SizeIsRegistered
  <1>2. Completed(t) \subseteq Registered(t) /\ Registered(t) \ Completed(t) \subseteq Registered(t)
    BY DEF Completed
  <1>3. /\ IsFiniteSet(Completed(t)) /\ IsFiniteSet(Registered(t) \ Completed(t))
        /\ Cardinality(Completed(t)) <= Cardinality(Registered(t))
        /\ Cardinality(Registered(t) \ Completed(t)) <= Cardinality(Registered(t))
    BY <1>1, <1>2, FS_Subset
  <1>4. /\ Cardinality(Completed(t)) \in Nat
        /\ Cardinality(Registered(t) \ Completed(t)) \in Nat
    BY <1>3, FS_CardinalityType
  <1>5. SIZE_T \in Nat
    BY WidthAssumption
  <1>6. ASSUME NEW n \in Nat, n <= Cardinality(Registered(t)) PROVE n \in 0..SIZE_T-1
    BY <1>1, <1>5, <1>6
  <1> QED BY <1>3, <1>4, <1>6

LEMMA RolesByCompleted ==
  ASSUME NEW t, RolesOK(t)
  PROVE  MatchRoles(t)
  <1>1. Seeds(t) = Completed(t)
    BY DEF Seeds, Completed, Registered, RolesOK, NoneLeftZero
  <1> QED BY <1>1 DEF MatchRoles, RolesOK

LEMMA RolesStarted ==
  ASSUME NEW t, RolesOK(t), NEW peer \in Sender, peer.left # 0,
         NEW u, u = started(t, peer), u # t
  PROVE  RolesOK(u)
  <1>0. PICK p \in PeerId : p = peer.peer_id
    BY DEF Sender, Peer
  <1>1. t \in Torrent /\ OneNode(t) /\ TorrentOK(t) /\ peer \in Peer
    BY DEF RolesOK, TorrentOK, Sender
  <1>2. /\ TorrentOK(u) /\ u \in Torrent /\ OneNode(u)
        /\ p \in PeerId \ Registered(t)
        /\ Registered(u) = Registered(t) \cup {p}
        /\ Completed(u) = Completed(t)
    BY <1>0, <1>1, StartedStep DEF TorrentOK
  <1>3. u.all_peers = [t.all_peers EXCEPT ![p] = <<peer>>]
        /\ u.leechers = Inc(t.leechers) /\ u.seeders = t.seeders
    BY <1>0, <1>1, StartedEffect
  <1>4. NoneLeftZero(u)
    <2>1. /\ u.all_peers[p] = <<peer>>
          /\ \A q \in PeerId \ {p} : u.all_peers[q] = t.all_peers[q]
      BY <1>1, <1>3 DEF Torrent
    <2> QED BY <1>1, <2>1, OneElement DEF NoneLeftZero, RolesOK
  <1>5. u.seeders = Cardinality(Completed(u))
    BY <1>2, <1>3 DEF RolesOK
  <1>6. u.leechers = Cardinality(Registered(u) \ Completed(u))
    <2>1. p \notin Registered(t) \ Completed(t) /\ p \notin Completed(t)
      BY <1>2 DEF Completed
    <2>2. Registered(u) \ Completed(u) = (Registered(t) \ Completed(t)) \cup {p}
      BY <1>2, <2>1
    <2>3. Cardinality(Registered(u) \ Completed(u)) = Cardinality(Registered(t) \ Completed(t)) + 1
      BY <1>1, <2>1, <2>2, RolesFit, FS_AddElement
    <2>4. Cardinality(Registered(t) \ Completed(t)) + 1 \in 0..SIZE_T-1
          /\ Cardinality(Registered(t) \ Completed(t)) \in 0..SIZE_T-1
      BY <1>1, <1>2, <2>3, RolesFit
    <2>5. Inc(t.leechers) = t.leechers + 1
      BY <2>4, WidthAssumption DEF Inc, RolesOK
    <2> QED BY <1>3, <2>3, <2>5 DEF RolesOK
  <1> QED BY <1>2, <1>4, <1>5, <1>6 DEF RolesOK

LEMMA RolesCompleted ==
  ASSUME NEW t, RolesOK(t), NEW peer \in Sender, NEW u, u = completed(t, peer), u # t
  PROVE  RolesOK(u)
  <1>0. PICK p \in PeerId : p = peer.peer_id
    BY DEF Sender, Peer
  <1>1. t \in Torrent /\ OneNode(t) /\ TorrentOK(t)
    BY DEF RolesOK, TorrentOK
  <1>2. /\ TorrentOK(u) /\ u \in Torrent /\ OneNode(u)
        /\ p \in Registered(t) \ Completed(t)
        /\ Registered(u) = Registered(t)
        /\ Completed(u) = Completed(t) \cup {p}
    BY <1>0, <1>1, CompletedStep DEF TorrentOK
  <1>mark. PICK node \in Peer :
          /\ t.all_peers[p] = <<node>>
          /\ u = [all_peers |-> [t.all_peers EXCEPT ![p] =
                                   <<[node EXCEPT !.completed = TRUE]>>],
                  leechers  |-> Dec(t.leechers),
                  seeders   |-> Inc(t.seeders),
                  downloads |-> Inc(t.downloads)]
    BY <1>0, <1>1, CompletedEffect
  <1>3. /\ t.all_peers[p] = <<node>>
        /\ u.all_peers = [t.all_peers EXCEPT ![p] = <<[node EXCEPT !.completed = TRUE]>>]
        /\ u.leechers = Dec(t.leechers)
        /\ u.seeders = Inc(t.seeders)
    BY <1>mark
  <1>4. NoneLeftZero(u)
    <2>1. PICK marked \in Peer : marked = [node EXCEPT !.completed = TRUE] /\ marked.left = node.left
      <3>1. [node EXCEPT !.completed = TRUE] \in Peer
        BY DEF Peer
      <3>2. [node EXCEPT !.completed = TRUE].left = node.left
        BY DEF Peer
      <3> QED BY <3>1, <3>2
    <2>2. node.left # 0
      <3>1. t.all_peers[p] # <<>> /\ Head(t.all_peers[p]) = node
        BY <1>3, OneElement
      <3> QED BY <3>1 DEF RolesOK, NoneLeftZero
    <2>3. /\ u.all_peers[p] = <<marked>>
          /\ \A q \in PeerId \ {p} : u.all_peers[q] = t.all_peers[q]
      BY <1>1, <1>3, <2>1 DEF Torrent
    <2>4. Head(u.all_peers[p]) = marked
      BY <2>3, OneElement
    <2> QED BY <2>1, <2>2, <2>3, <2>4 DEF NoneLeftZero, RolesOK
  <1>5. u.seeders = Cardinality(Completed(u))
    <2>1. Cardinality(Completed(u)) = Cardinality(Completed(t)) + 1
      BY <1>1, <1>2, RolesFit, FS_AddElement
    <2>2. Cardinality(Completed(t)) + 1 \in 0..SIZE_T-1 /\ Cardinality(Completed(t)) \in 0..SIZE_T-1
      BY <1>1, <1>2, <2>1, RolesFit
    <2>3. Inc(t.seeders) = t.seeders + 1
      BY <2>2, WidthAssumption DEF Inc, RolesOK
    <2> QED BY <1>3, <2>1, <2>3 DEF RolesOK
  <1>6. u.leechers = Cardinality(Registered(u) \ Completed(u))
    <2>1. Registered(u) \ Completed(u) = (Registered(t) \ Completed(t)) \ {p}
      BY <1>2
    <2>2. Cardinality(Registered(u) \ Completed(u)) = Cardinality(Registered(t) \ Completed(t)) - 1
      <3>1. IsFiniteSet(Registered(t) \ Completed(t)) /\ p \in Registered(t) \ Completed(t)
        BY <1>1, <1>2, RolesFit
      <3>2. Cardinality((Registered(t) \ Completed(t)) \ {p}) = Cardinality(Registered(t) \ Completed(t)) - 1
        BY <3>1, FS_RemoveElement
      <3> QED BY <2>1, <3>2
    <2>3. /\ Cardinality(Registered(t) \ Completed(t)) \in 0..SIZE_T-1
          /\ Cardinality(Registered(u) \ Completed(u)) \in 0..SIZE_T-1
      BY <1>1, <1>2, RolesFit
    <2>4. Dec(t.leechers) = t.leechers - 1
      BY <2>2, <2>3, WidthAssumption DEF Dec, RolesOK
    <2> QED BY <1>3, <2>2, <2>4 DEF RolesOK
  <1> QED BY <1>2, <1>4, <1>5, <1>6 DEF RolesOK

LEMMA RolesStopped ==
  ASSUME NEW t, RolesOK(t), NEW peer \in Sender, NEW u, u = stopped(t, peer), u # t
  PROVE  RolesOK(u)
  <1>0. PICK p \in PeerId : p = peer.peer_id
    BY DEF Sender, Peer
  <1>1. t \in Torrent /\ OneNode(t) /\ TorrentOK(t)
    BY DEF RolesOK, TorrentOK
  <1>2. /\ TorrentOK(u) /\ u \in Torrent /\ OneNode(u)
        /\ p \in Registered(t)
        /\ Registered(u) = Registered(t) \ {p}
        /\ Completed(u) = Completed(t) \ {p}
    BY <1>0, <1>1, StoppedStep DEF TorrentOK
  <1>3. PICK node \in Peer :
          /\ t.all_peers[p] = <<node>>
          /\ u.all_peers = [t.all_peers EXCEPT ![p] = <<>>]
          /\ u.leechers = IF node.completed THEN t.leechers ELSE Dec(t.leechers)
          /\ u.seeders = IF node.completed THEN Dec(t.seeders) ELSE t.seeders
    BY <1>0, <1>1, StoppedEffect
  <1>4. NoneLeftZero(u)
    <2>1. /\ u.all_peers[p] = <<>>
          /\ \A q \in PeerId \ {p} : u.all_peers[q] = t.all_peers[q]
      BY <1>1, <1>3 DEF Torrent
    <2> QED BY <2>1 DEF NoneLeftZero, RolesOK
  <1>5. p \in Completed(t) <=> node.completed
    <2>1. Head(t.all_peers[p]) = node
      BY <1>3, OneElement
    <2> QED BY <1>2, <2>1 DEF Completed
  <1>6. /\ t.seeders = Cardinality(Completed(t)) /\ t.seeders \in 0..SIZE_T-1
        /\ t.leechers = Cardinality(Registered(t) \ Completed(t)) /\ t.leechers \in 0..SIZE_T-1
    BY <1>1, RolesFit DEF RolesOK
  <1>7. /\ Cardinality(Completed(u)) \in 0..SIZE_T-1
        /\ Cardinality(Registered(u) \ Completed(u)) \in 0..SIZE_T-1
    BY <1>2, RolesFit
  <1>8. CASE node.completed
    <2>1. Cardinality(Completed(u)) = Cardinality(Completed(t)) - 1
      BY <1>1, <1>2, <1>5, <1>8, RolesFit, FS_RemoveElement
    <2>2. Registered(u) \ Completed(u) = Registered(t) \ Completed(t)
      BY <1>2, <1>5, <1>8
    <2>3. Dec(t.seeders) = t.seeders - 1
      BY <1>6, <1>7, <2>1, WidthAssumption DEF Dec
    <2> QED BY <1>2, <1>3, <1>4, <1>6, <1>8, <2>1, <2>2, <2>3 DEF RolesOK
  <1>9. CASE ~node.completed
    <2>1. Completed(u) = Completed(t)
      BY <1>2, <1>5, <1>9
    <2>2. /\ Registered(u) \ Completed(u) = (Registered(t) \ Completed(t)) \ {p}
          /\ p \in Registered(t) \ Completed(t)
      BY <1>2, <1>5, <1>9
    <2>3. Cardinality(Registered(u) \ Completed(u)) = Cardinality(Registered(t) \ Completed(t)) - 1
      <3>1. IsFiniteSet(Registered(t) \ Completed(t))
        BY <1>1, RolesFit
      <3>2. Cardinality((Registered(t) \ Completed(t)) \ {p}) = Cardinality(Registered(t) \ Completed(t)) - 1
        BY <2>2, <3>1, FS_RemoveElement
      <3> QED BY <2>2, <3>2
    <2>4. Dec(t.leechers) = t.leechers - 1
      BY <1>6, <1>7, <2>3, WidthAssumption DEF Dec
    <2> QED BY <1>2, <1>3, <1>4, <1>6, <1>9, <2>1, <2>3, <2>4 DEF RolesOK
  <1> QED BY <1>8, <1>9

LEMMA RolesUpdate ==
  ASSUME 0 \notin LeftAtStart,
         NEW t, RolesOK(t), NEW peer \in Sender, NEW event \in EventType,
         event = "STARTED" => peer.left \in LeftAtStart,
         NEW u, u = update_peer_list(t, peer, event)
  PROVE  RolesOK(u)
  <1>1. CASE u = t
    BY <1>1
  <1>2. CASE event = "STARTED" /\ u # t
    <2>1. u = started(t, peer) /\ peer.left # 0
      BY <1>2 DEF update_peer_list
    <2> QED BY <1>2, <2>1, RolesStarted
  <1>3. CASE event = "COMPLETED" /\ u # t
    <2>1. u = completed(t, peer)
      BY <1>3 DEF update_peer_list
    <2> QED BY <1>3, <2>1, RolesCompleted
  <1>4. CASE event = "STOPPED" /\ u # t
    <2>1. u = stopped(t, peer)
      BY <1>4 DEF update_peer_list
    <2> QED BY <1>4, <2>1, RolesStopped
  <1>5. CASE event = "NONE" /\ u # t
    BY <1>5 DEF update_peer_list
  <1> QED BY <1>1, <1>2, <1>3, <1>4, <1>5 DEF EventType

RolesInv == TypeOK /\ \A h \in Hash_t : RolesOK(torrents_[h])

LEMMA RolesInit == DBInit => RolesInv
  <1> SUFFICES ASSUME DBInit PROVE RolesInv
    OBVIOUS
  <1>1. \A h \in Hash_t : torrents_[h] = NewTorrent
    BY DEF DBInit
  <1>2. RolesOK(NewTorrent)
    <2>1. TorrentOK(NewTorrent) /\ Registered(NewTorrent) \ Completed(NewTorrent) = {}
          /\ Completed(NewTorrent) = {}
      BY NewTorrentOK
    <2>2. Cardinality({}) = 0
      BY FS_EmptySet
    <2>3. NoneLeftZero(NewTorrent) /\ NewTorrent.leechers = 0 /\ NewTorrent.seeders = 0
      BY DEF NoneLeftZero, NewTorrent
    <2> QED BY <2>1, <2>2, <2>3 DEF RolesOK
  <1>3. TypeOK
    BY DBInvInit DEF DBInv
  <1> QED BY <1>1, <1>2, <1>3 DEF RolesInv

LEMMA RolesStep ==
  ASSUME 0 \notin LeftAtStart, RolesInv,
         NEW h \in Hash_t, NEW peer \in Sender, NEW event \in EventType,
         event = "STARTED" => peer.left \in LeftAtStart,
         UpdatePeerList(h, peer, event)
  PROVE  RolesInv'
  <1>1. PICK t : t = torrents_[h]
    OBVIOUS
  <1>2. PICK u : u = update_peer_list(t, peer, event)
    OBVIOUS
  <1>3. RolesOK(t) /\ TypeOK
    BY <1>1 DEF RolesInv
  <1>4. RolesOK(u)
    BY <1>2, <1>3, RolesUpdate
  <1>5. torrents_' = [torrents_ EXCEPT ![h] = u] /\ u \in Torrent
    BY <1>1, <1>2, <1>4 DEF UpdatePeerList, RolesOK, TorrentOK
  <1>6. TypeOK'
    BY <1>3, <1>5 DEF TypeOK
  <1>7. \A g \in Hash_t : RolesOK(torrents_'[g])
    BY <1>3, <1>4, <1>5 DEF TypeOK, RolesInv
  <1> QED BY <1>6, <1>7 DEF RolesInv

\* If no client starts with nothing left to download, leechers and seeders are
\* what the responses call them, for any number of torrents and peers.
THEOREM RolesMatch ==
  ASSUME 0 \notin LeftAtStart
  PROVE  DBSpec => []CountsMatchRoles
  <1>1. RolesInv /\ [DBNext]_torrents_ => RolesInv'
    <2> SUFFICES ASSUME RolesInv, [DBNext]_torrents_ PROVE RolesInv'
      OBVIOUS
    <2>1. CASE UNCHANGED torrents_
      BY <2>1 DEF RolesInv, TypeOK
    <2>2. CASE DBNext
      <3>1. DBInv
        BY DBInvByTorrent DEF RolesInv, RolesOK
      <3>2. PICK h \in Hash_t, peer \in Sender, event \in EventType :
              /\ UpdatePeerList(h, peer, event)
              /\ event = "STARTED" => peer.left \in LeftAtStart
        BY <2>2, <3>1, DBStep DEF UpdatePeerList
      <3> QED BY <3>2, RolesStep
    <2> QED BY <2>1, <2>2
  <1>2. RolesInv => CountsMatchRoles
    BY RolesByCompleted DEF RolesInv, CountsMatchRoles
  <1> QED BY <1>1, <1>2, RolesInit, PTL DEF DBSpec
==============================================================================
