------------------------- MODULE TrackerSystem_proofs -------------------------
(***************************************************************************)
(* Proofs about the tracker and its clients, for any number of clients and *)
(* of requests under way: what a client was answered is in the table.      *)
(***************************************************************************)
EXTENDS TrackerSystem, TorrentDataBase_proofs

(***************************************************************************)
(* The invariant, client by client.  It relates the state c of a client,   *)
(* the requests q under way from it, whether responses r are under way to  *)
(* it, the clients K that are known, the events L of it that came late and *)
(* its nodes in the table.                                                 *)
(***************************************************************************)

Takes(c) == c.state \notin {"out", "gone"}

Current(c, request) == request.transaction_id = c.transaction_id

\* The request that is open was sent after all others.
InOrder(c, q) ==
  Takes(c) => \A i, j \in DOMAIN q : i < j /\ Current(c, q[i]) => Current(c, q[j])

\* What is under way with the id of the open request speaks of the client as
\* it is, and none of it is overtaken.  A join of an earlier stay is.
Speaks(c, q) ==
  /\ c.state \in {"joining", "finishing", "leaving"} =>
       \A i \in DOMAIN q : Current(c, q[i]) => q[i].event = EventOf(c.state)
  /\ Takes(c) =>
       \A i \in DOMAIN q : Current(c, q[i]) =>
         q[i].left = c.left /\ q[i].endpoint = c.endpoint /\ ~q[i].overtaken
  /\ c.state = "in" => \A i \in DOMAIN q : Current(c, q[i]) => q[i].event # "STOPPED"
  /\ c.state = "joining" =>
       \A i \in DOMAIN q : ~Current(c, q[i]) /\ q[i].event = "STARTED" => q[i].overtaken
  /\ c.state = "finishing" => c.left = 0

\* A client that has left, or will know so, is forgotten, and its joins that
\* are still under way are late.
Forgotten(c, q, r, L, nodes) ==
  c.state = "out" \/ (c.state = "leaving" /\ r # {}) =>
    /\ "STARTED" \notin L => nodes = <<>>
    /\ \A i \in DOMAIN q : q[i].event = "STARTED" => q[i].overtaken

\* One that joins is not in the table yet.
Awaited(p, c, K, L, nodes) ==
  c.state = "joining" /\ p \notin K /\ "STARTED" \notin L => nodes = <<>>

IsSeed(node) == node.left = 0 \/ node.completed

\* What is under way and not overtaken belongs to the present stay.
OfTheStay(c, q) ==
  \A i \in DOMAIN q : ~q[i].overtaken =>
    /\ q[i].event # "STOPPED" /\ q[i].endpoint = c.endpoint
    /\ q[i].event = "COMPLETED" => c.left = 0

\* One that has joined is in the table, as it is.
InTable(c, r, L, nodes) ==
  /\ "STOPPED" \notin L => nodes # <<>>
  /\ "STARTED" \notin L /\ nodes # <<>> => Head(nodes).endpoint = c.endpoint
  /\ (c.state # "finishing" \/ r # {}) /\ L = {} => (IsSeed(Head(nodes)) <=> c.left = 0)

Listed(p, c, q, r, K, L, nodes) ==
  p \in K /\ c.state \in {"joining", "in", "finishing"} => OfTheStay(c, q) /\ InTable(c, r, L, nodes)

PeerOK(p, c, q, r, K, L, nodes) ==
  /\ InOrder(c, q)
  /\ Speaks(c, q)
  /\ Forgotten(c, q, r, L, nodes)
  /\ Awaited(p, c, K, L, nodes)
  /\ Listed(p, c, q, r, K, L, nodes)

PeersOK ==
  \A p \in PeerId :
    PeerOK(p, client[p], requests[p], responses[p], known, late[p], Tracked.all_peers[p])

SystemInv == DBInv /\ SystemTypeOK /\ PeersOK

(***************************************************************************)
(* Requests under way.                                                     *)
(***************************************************************************)

\* Where the j-th request was when the i-th was under way too.
Place(i, j) == IF j < i THEN j ELSE j + 1

\* What is left is a subsequence of what was under way.
LEMMA QueueWithout ==
  ASSUME NEW S, NEW q \in Seq(S), NEW i \in DOMAIN q
  PROVE  /\ Without(q, i) \in Seq(S)
         /\ \A j \in DOMAIN Without(q, i) :
              /\ j \in Nat /\ Place(i, j) \in DOMAIN q \ {i}
              /\ Without(q, i)[j] = q[Place(i, j)]
  <1>1. DOMAIN q = 1..Len(q) /\ Len(q) \in Nat /\ \A j \in 1..Len(q) : q[j] \in S
    OBVIOUS
  <1>2. i \in 1..Len(q) /\ Len(q)-1 \in Nat
    BY <1>1
  <1>3. \A j \in 1..Len(q)-1 : j \in Nat /\ Place(i, j) \in 1..Len(q) /\ Place(i, j) # i
    BY <1>1, <1>2 DEF Place
  <1>4. DOMAIN Without(q, i) = 1..Len(q)-1
    BY DEF Without
  <1>5. \A j \in 1..Len(q)-1 : Without(q, i)[j] = q[Place(i, j)]
    BY DEF Without, Place
  <1>6. Without(q, i) \in [1..Len(q)-1 -> S]
    <2>1. \A j \in 1..Len(q)-1 : Without(q, i)[j] \in S
      BY <1>1, <1>3, <1>5
    <2> QED BY <2>1 DEF Without
  <1>7. Without(q, i) \in Seq(S)
    BY <1>2, <1>6
  <1> QED BY <1>1, <1>3, <1>4, <1>5, <1>7

\* Only the marks of those that were sent before the i-th change.
LEMMA QueueOvertake ==
  ASSUME NEW q \in Seq(Request), NEW i \in DOMAIN q
  PROVE  /\ Overtake(q, i) \in Seq(Request) /\ DOMAIN Overtake(q, i) = DOMAIN q
         /\ \A j \in DOMAIN q :
              /\ Overtake(q, i)[j].event = q[j].event
              /\ Overtake(q, i)[j].left = q[j].left
              /\ Overtake(q, i)[j].endpoint = q[j].endpoint
              /\ Overtake(q, i)[j].transaction_id = q[j].transaction_id
              /\ Overtake(q, i)[j].overtaken <=>
                   q[j].overtaken \/ (j < i /\ q[j].transaction_id # q[i].transaction_id)
  <1>1. DOMAIN q = 1..Len(q) /\ Len(q) \in Nat /\ \A j \in 1..Len(q) : q[j] \in Request
    OBVIOUS
  <1> DEFINE o == Overtake(q, i)
             mark(j) == q[j].overtaken \/ (j < i /\ q[j].transaction_id # q[i].transaction_id)
  <1>2. DOMAIN o = DOMAIN q
    BY DEF Overtake
  <1>3. ASSUME NEW j \in DOMAIN q
        PROVE  /\ o[j] \in Request
               /\ o[j].event = q[j].event /\ o[j].left = q[j].left
               /\ o[j].endpoint = q[j].endpoint /\ o[j].transaction_id = q[j].transaction_id
               /\ o[j].overtaken <=> mark(j)
    <2>1. o[j] = [q[j] EXCEPT !.overtaken = mark(j)]
      BY DEF Overtake
    <2>2. q[j] \in Request
      BY <1>1
    <2>3. mark(j) \in BOOLEAN
      BY <2>2 DEF Request
    <2> HIDE DEF mark, o
    <2> QED BY <2>1, <2>2, <2>3 DEF Request
  <1>4. o \in Seq(Request)
    <2>1. o \in [1..Len(q) -> Request]
      BY <1>1, <1>2, <1>3 DEF Overtake
    <2> HIDE DEF o
    <2> QED BY <1>1, <2>1
  <1> QED BY <1>2, <1>3, <1>4

LEMMA QueueAppend ==
  ASSUME NEW S, NEW q \in Seq(S), NEW x \in S
  PROVE  /\ Append(q, x) \in Seq(S)
         /\ \A i \in DOMAIN Append(q, x) :
              /\ i \in Nat \ {0}
              /\ \/ i \in DOMAIN q /\ Append(q, x)[i] = q[i]
                 \/ /\ i \notin DOMAIN q /\ Append(q, x)[i] = x
                    /\ \A j \in DOMAIN q : j < i
  <1>1. DOMAIN q = 1..Len(q) /\ Len(q) \in Nat
    OBVIOUS
  <1>2. Append(q, x) \in Seq(S) /\ DOMAIN Append(q, x) = 1..Len(q)+1
    OBVIOUS
  <1>3. Append(q, x)[Len(q)+1] = x /\ \A i \in 1..Len(q) : Append(q, x)[i] = q[i]
    OBVIOUS
  <1> QED BY <1>1, <1>2, <1>3

(***************************************************************************)
(* What an announce does to the nodes of a torrent.                        *)
(***************************************************************************)

\* The nodes of a peer before and after it announced an event.
Announced(event, left, endpoint, before, after) ==
  /\ event = "NONE" => after = before
  /\ event = "STOPPED" => after = <<>>
  /\ event = "STARTED" /\ before = <<>> =>
       after # <<>> /\ Head(after).endpoint = endpoint /\ (IsSeed(Head(after)) <=> left = 0)
  /\ event = "STARTED" /\ before # <<>> => after = before
  /\ event = "COMPLETED" /\ before = <<>> => after = <<>>
  /\ event = "COMPLETED" /\ before # <<>> =>
       /\ after # <<>> /\ Head(after).endpoint = Head(before).endpoint
       /\ IsSeed(Head(after)) <=> IsSeed(Head(before)) \/ left = 0

LEMMA NodesAfter ==
  ASSUME NEW t, TorrentOK(t), NEW peer \in Sender, NEW event \in EventType,
         NEW u, u = update_peer_list(t, peer, event),
         NEW p, p = peer.peer_id
  PROVE  /\ \A o \in PeerId \ {p} : u.all_peers[o] = t.all_peers[o]
         /\ Announced(event, peer.left, peer.endpoint, t.all_peers[p], u.all_peers[p])
  <1>0. p \in PeerId /\ t \in Torrent /\ OneNode(t) /\ t.all_peers \in [PeerId -> Seq(Peer)]
    BY DEF Sender, Peer, TorrentOK, Torrent
  <1> DEFINE n == t.all_peers[p]
  <1>1. n = <<>> \/ \E node \in Peer : n = <<node>>
    BY <1>0, NoneOrOne
  <1>2. CASE event = "NONE"
    BY <1>2 DEF update_peer_list, Announced
  <1>3. CASE event = "STARTED"
    <2>1. u = started(t, peer)
      BY <1>3 DEF update_peer_list
    <2>2. CASE n = <<>>
      <3>1. count(t, peer) = 0
        BY <2>2 DEF count, equal_range
      <3>2. u.all_peers = [t.all_peers EXCEPT ![p] = Append(n, peer)]
        BY <1>0, <2>1, <3>1 DEF started, insert, with_range, equal_range, Torrent
      <3>3. Append(n, peer) = <<peer>>
        BY <2>2, OneElement
      <3>4. /\ u.all_peers[p] = <<peer>>
            /\ \A o \in PeerId \ {p} : u.all_peers[o] = t.all_peers[o]
        BY <1>0, <3>2, <3>3
      <3>5. u.all_peers[p] # <<>> /\ Head(u.all_peers[p]) = peer /\ ~peer.completed
        BY <3>4, OneElement DEF Sender
      <3> QED BY <1>3, <2>2, <3>4, <3>5 DEF Announced, IsSeed
    <2>3. CASE n # <<>>
      <3>1. count(t, peer) # 0
        BY <1>0, <2>3 DEF count, equal_range
      <3> QED BY <1>3, <2>1, <2>3, <3>1 DEF started, Announced
    <2> QED BY <2>2, <2>3
  <1>4. CASE event = "STOPPED"
    <2>1. u = stopped(t, peer)
      BY <1>4 DEF update_peer_list
    <2>2. CASE u = t
      <3>1. count(t, peer) = 0 \/ n = <<>>
        <4>1. CASE \E node \in Peer : n = <<node>>
          <5>1. Tail(n) = <<>>
            BY <4>1, OneElement
          <5>2. CASE count(t, peer) # 0
            <6>1. t.all_peers = [t.all_peers EXCEPT ![p] = Tail(n)]
              BY <1>0, <2>1, <2>2, <5>2 DEF stopped, erase_found, with_range, equal_range, Torrent
            <6> QED BY <1>0, <5>1, <6>1
          <5> QED BY <5>2
        <4> QED BY <1>1, <4>1
      <3>2. n = <<>>
        BY <1>0, <3>1 DEF count, equal_range
      <3> QED BY <1>4, <2>2, <3>2 DEF Announced
    <2>3. CASE u # t
      <3>1. u.all_peers = [t.all_peers EXCEPT ![p] = <<>>]
        BY <1>0, <2>1, <2>3, StoppedEffect
      <3> QED BY <1>0, <1>4, <3>1 DEF Announced
    <2> QED BY <2>2, <2>3
  <1>5. CASE event = "COMPLETED"
    <2>1. u = completed(t, peer)
      BY <1>5 DEF update_peer_list
    <2>2. CASE u = t
      <3>1. n # <<>> => count(t, peer) # 0
        BY <1>0 DEF count, equal_range
      <3>2. ASSUME n # <<>>, peer.left = 0 PROVE IsSeed(Head(n))
        <4>1. PICK node \in Peer : n = <<node>>
          BY <1>1, <3>2
        <4>2. find(t, peer) = node /\ Head(n) = node /\ Tail(n) = <<>>
          BY <4>1, OneElement DEF find, equal_range
        <4>3. CASE ~node.completed
          <5>1. t.all_peers = [t.all_peers EXCEPT ![p] = Append(Tail(n), [node EXCEPT !.completed = TRUE])]
            BY <1>0, <2>1, <2>2, <3>1, <3>2, <4>2, <4>3 DEF completed, with_range, equal_range, Torrent
          <5>2. [node EXCEPT !.completed = TRUE] \in Peer /\ [node EXCEPT !.completed = TRUE].completed
            BY DEF Peer
          <5>3. Append(Tail(n), [node EXCEPT !.completed = TRUE]) = <<[node EXCEPT !.completed = TRUE]>>
            BY <4>2, <5>2, OneElement
          <5>4. n = <<[node EXCEPT !.completed = TRUE]>>
            BY <1>0, <5>1, <5>3
          <5>5. Head(n).completed
            BY <5>2, <5>4, OneElement
          <5> QED BY <4>2, <4>3, <5>5
        <4> QED BY <4>2, <4>3 DEF IsSeed
      <3> QED BY <1>5, <2>2, <3>2 DEF IsSeed, Announced
    <2>3. CASE u # t
      <3>mark. PICK node \in Peer :
              /\ n = <<node>>
              /\ u = [all_peers |-> [t.all_peers EXCEPT ![p] =
                                       <<[node EXCEPT !.completed = TRUE]>>],
                      leechers  |-> Dec(t.leechers),
                      seeders   |-> Inc(t.seeders),
                      downloads |-> Inc(t.downloads)]
        BY <1>0, <2>1, <2>3, CompletedEffect
      <3>1. n = <<node>> /\ u.all_peers = [t.all_peers EXCEPT ![p] = <<[node EXCEPT !.completed = TRUE]>>]
        BY <3>mark
      <3>2. peer.left = 0
        BY <2>1, <2>3 DEF completed
      <3>3. PICK marked \in Peer :
              /\ marked = [node EXCEPT !.completed = TRUE]
              /\ marked.completed /\ marked.endpoint = node.endpoint
        <4>1. [node EXCEPT !.completed = TRUE] \in Peer
          BY DEF Peer
        <4>2. [node EXCEPT !.completed = TRUE].completed /\ [node EXCEPT !.completed = TRUE].endpoint = node.endpoint
          BY DEF Peer
        <4> QED BY <4>1, <4>2
      <3>4. /\ u.all_peers[p] = <<marked>>
            /\ \A o \in PeerId \ {p} : u.all_peers[o] = t.all_peers[o]
        BY <1>0, <3>1, <3>3
      <3>5. n # <<>> /\ Head(n) = node /\ u.all_peers[p] # <<>> /\ Head(u.all_peers[p]) = marked
        BY <3>1, <3>4, OneElement
      <3> QED BY <1>5, <3>2, <3>3, <3>4, <3>5 DEF IsSeed, Announced
    <2> QED BY <2>2, <2>3
  <1> QED BY <1>2, <1>3, <1>4, <1>5 DEF EventType

(***************************************************************************)
(* Every step of a client, of the tracker and of the network keeps the     *)
(* invariant of the client it is about.                                    *)
(***************************************************************************)

\* Join, Finish and Leave: the id of the request is not under way.
LEMMA BeginOK ==
  ASSUME NEW c, NEW d, NEW q, NEW r, NEW p, NEW K, NEW M, NEW L, NEW nodes,
         PeerOK(p, c, q, r, K, L, nodes),
         \A i \in DOMAIN q : ~Current(d, q[i]),
         \/ c.state = "out" /\ d.state = "joining" /\ p \notin M
         \/ /\ c.state = "in" /\ d.state = "finishing" /\ (p \in M <=> p \in K)
            /\ d.left = 0 /\ d.endpoint = c.endpoint
         \/ d.state = "leaving" /\ (p \in M <=> p \in K)
  PROVE  PeerOK(p, d, q, {}, M, L, nodes)
  <1>1. InOrder(d, q)
    BY DEF InOrder
  <1>2. Speaks(d, q)
    BY DEF Speaks, PeerOK, Forgotten
  <1>3. Forgotten(d, q, {}, L, nodes)
    BY DEF Forgotten
  <1>4. Awaited(p, d, M, L, nodes)
    BY DEF Awaited, PeerOK, Forgotten
  <1>5. Listed(p, d, q, {}, M, L, nodes)
    BY DEF Listed, PeerOK, OfTheStay, InTable
  <1> QED BY <1>1, <1>2, <1>3, <1>4, <1>5 DEF PeerOK

\* Send: one more request with the id of the open one.
LEMMA SendOK ==
  ASSUME NEW c, NEW q \in Seq(Request), NEW r, NEW p, NEW K, NEW L, NEW nodes,
         PeerOK(p, c, q, r, K, L, nodes), Takes(c),
         c.state \in {"out", "joining", "in", "finishing", "leaving", "gone"},
         NEW x \in Request, Current(c, x), ~x.overtaken,
         x.event = EventOf(c.state), x.left = c.left, x.endpoint = c.endpoint
  PROVE  PeerOK(p, c, Append(q, x), r, K, L, nodes)
  <1> DEFINE a == Append(q, x)
  <1>0. \A i \in DOMAIN a : \/ i \in DOMAIN q /\ a[i] = q[i]
                            \/ /\ i \notin DOMAIN q /\ a[i] = x
                               /\ \A j \in DOMAIN q : j < i
    BY QueueAppend
  <1>n. DOMAIN a \subseteq Nat
    BY QueueAppend
  <1> HIDE DEF a
  <1>1. InOrder(c, a)
    <2> SUFFICES ASSUME NEW i \in DOMAIN a, NEW j \in DOMAIN a, i < j, Current(c, a[i])
                 PROVE  Current(c, a[j])
      BY DEF InOrder
    <2>1. CASE a[j] = x
      BY <2>1
    <2>2. CASE j \in DOMAIN q /\ a[j] = q[j]
      <3>1. i \in DOMAIN q /\ a[i] = q[i]
        <4>1. CASE \A o \in DOMAIN q : o < i
          BY <4>1, <2>2, <1>n
        <4> QED BY <4>1, <1>0
      <3> QED BY <2>2, <3>1 DEF InOrder, PeerOK
    <2> QED BY <1>0, <2>1, <2>2
  <1>e. /\ c.state = "joining" => x.event = "STARTED"
        /\ c.state = "in" => x.event = "NONE"
        /\ c.state = "finishing" => x.event = "COMPLETED"
        /\ c.state = "leaving" => x.event = "STOPPED"
    BY DEF EventOf
  <1>2. Speaks(c, a)
    BY <1>0, <1>e DEF Speaks, PeerOK
  <1>3. Forgotten(c, a, r, L, nodes)
    BY <1>0, <1>e DEF Forgotten, PeerOK, Takes
  <1>4. Listed(p, c, a, r, K, L, nodes)
    <2>1. SUFFICES ASSUME p \in K, c.state \in {"joining", "in", "finishing"}
                   PROVE  OfTheStay(c, a)
      BY DEF Listed, PeerOK
    <2>2. OfTheStay(c, q) /\ (c.state = "finishing" => c.left = 0)
      BY <2>1 DEF Listed, PeerOK, Speaks
    <2> QED BY <1>0, <1>e, <2>1, <2>2 DEF OfTheStay
  <1> QED BY <1>1, <1>2, <1>3, <1>4 DEF PeerOK, a

\* Receive: the response to the open request.
LEMMA ReceiveOK ==
  ASSUME NEW c, NEW d, NEW q, NEW r, NEW p, NEW K, NEW L, NEW nodes,
         PeerOK(p, c, q, r, K, L, nodes), r # {},
         \/ c.state = "leaving" /\ d.state = "out"
         \/ /\ c.state \in {"joining", "finishing"} /\ d.state = "in"
            /\ d.left = c.left /\ d.endpoint = c.endpoint /\ d.transaction_id = c.transaction_id
         \/ c.state \notin {"joining", "finishing", "leaving"} /\ d = c
  PROVE  PeerOK(p, d, q, {}, K, L, nodes)
  <1>1. CASE c.state = "leaving" /\ d.state = "out"
    BY <1>1 DEF PeerOK, InOrder, Speaks, Forgotten, Awaited, Listed, Takes
  <1>2. CASE /\ c.state \in {"joining", "finishing"} /\ d.state = "in"
             /\ d.left = c.left /\ d.endpoint = c.endpoint /\ d.transaction_id = c.transaction_id
    <2>1. \A i \in DOMAIN q : Current(d, q[i]) <=> Current(c, q[i])
      BY <1>2 DEF Current
    <2>2. InOrder(d, q)
      BY <1>2, <2>1 DEF InOrder, PeerOK, Takes
    <2>3. Speaks(d, q)
      BY <1>2, <2>1 DEF Speaks, PeerOK, Takes, EventOf
    <2>4. Forgotten(d, q, {}, L, nodes) /\ Awaited(p, d, K, L, nodes)
      BY <1>2 DEF Forgotten, Awaited
    <2>5. Listed(p, d, q, {}, K, L, nodes)
      BY <1>2, <2>1 DEF Listed, PeerOK, OfTheStay, InTable
    <2> QED BY <2>2, <2>3, <2>4, <2>5 DEF PeerOK
  <1>3. CASE c.state \notin {"joining", "finishing", "leaving"} /\ d = c
    BY <1>3 DEF PeerOK, Forgotten, Listed, InTable
  <1> QED BY <1>1, <1>2, <1>3

\* A request is taken out of the network.
LEMMA WithoutOK ==
  ASSUME NEW c, NEW q \in Seq(Request), NEW r, NEW p, NEW K, NEW L, NEW nodes,
         PeerOK(p, c, q, r, K, L, nodes), NEW k \in DOMAIN q
  PROVE  PeerOK(p, c, Without(q, k), r, K, L, nodes)
  <1> DEFINE a == Without(q, k)
             at(j) == Place(k, j)
  <1>0. \A i \in DOMAIN a : i \in Nat /\ at(i) \in DOMAIN q /\ a[i] = q[at(i)]
    BY QueueWithout
  <1>k. k \in Nat
    <2>1. DOMAIN q = 1..Len(q) /\ Len(q) \in Nat
      OBVIOUS
    <2> QED BY <2>1
  <1>m. \A i, j \in DOMAIN a : i < j => at(i) < at(j)
    BY <1>0, <1>k DEF Place
  <1> HIDE DEF a, at
  <1>1. InOrder(c, a)
    BY <1>0, <1>m DEF InOrder, PeerOK
  <1>2. Speaks(c, a)
    BY <1>0 DEF Speaks, PeerOK
  <1>3. Forgotten(c, a, r, L, nodes)
    BY <1>0 DEF Forgotten, PeerOK
  <1>4. Listed(p, c, a, r, K, L, nodes)
    BY <1>0 DEF Listed, PeerOK, OfTheStay
  <1> QED BY <1>1, <1>2, <1>3, <1>4 DEF PeerOK, a

\* Requests that were sent earlier are marked: not the open one.
LEMMA OvertakeOK ==
  ASSUME NEW c, NEW q \in Seq(Request), NEW r, NEW p, NEW K, NEW L, NEW nodes,
         PeerOK(p, c, q, r, K, L, nodes), NEW k \in DOMAIN q
  PROVE  PeerOK(p, c, Overtake(q, k), r, K, L, nodes)
  <1> DEFINE o == Overtake(q, k)
  <1>0. DOMAIN o = DOMAIN q /\ \A j \in DOMAIN q :
          /\ o[j].event = q[j].event /\ o[j].left = q[j].left /\ o[j].endpoint = q[j].endpoint
          /\ Current(c, o[j]) <=> Current(c, q[j])
          /\ q[j].overtaken => o[j].overtaken
          /\ o[j].overtaken => q[j].overtaken \/ (j < k /\ (Current(c, q[j]) => ~Current(c, q[k])))
    BY QueueOvertake DEF Current
  <1> HIDE DEF o
  <1>1. InOrder(c, o)
    BY <1>0 DEF InOrder, PeerOK
  <1>2. ASSUME Takes(c), NEW j \in DOMAIN q, Current(c, q[j]) PROVE ~o[j].overtaken
    <2>1. ~q[j].overtaken /\ (j < k => Current(c, q[k]))
      BY <1>2 DEF PeerOK, InOrder, Speaks
    <2> QED BY <1>0, <1>2, <2>1
  <1>3. Speaks(c, o)
    BY <1>0, <1>2 DEF Speaks, PeerOK
  <1>4. Forgotten(c, o, r, L, nodes)
    BY <1>0 DEF Forgotten, PeerOK
  <1>5. Listed(p, c, o, r, K, L, nodes)
    BY <1>0 DEF Listed, PeerOK, OfTheStay
  <1> QED BY <1>1, <1>3, <1>4, <1>5 DEF PeerOK, o

\* When the open request comes, all others are overtaken.
LEMMA OthersOvertaken ==
  ASSUME NEW c, NEW q \in Seq(Request), InOrder(c, q), Takes(c), NEW k \in DOMAIN q, Current(c, q[k]),
         NEW j \in DOMAIN Overtake(q, k), ~Current(c, Overtake(q, k)[j])
  PROVE  Overtake(q, k)[j].overtaken
  <1>1. DOMAIN q = 1..Len(q) /\ Len(q) \in Nat
    OBVIOUS
  <1>2. j \in DOMAIN q /\ ~Current(c, q[j]) /\ q[j].transaction_id # q[k].transaction_id
    BY QueueOvertake DEF Current
  <1>3. j < k
    <2>1. ~(k < j) /\ j # k
      BY <1>2 DEF InOrder
    <2> QED BY <1>1, <1>2, <2>1
  <1> QED BY <1>2, <1>3, QueueOvertake

\* A response is lost.
LEMMA ResponseLostOK ==
  ASSUME NEW c, NEW q, NEW r, NEW p, NEW K, NEW L, NEW nodes, PeerOK(p, c, q, r, K, L, nodes)
  PROVE  PeerOK(p, c, q, {}, K, L, nodes)
  BY DEF PeerOK, Forgotten, Listed, InTable

\* The table is empty again.
LEMMA RestartOK ==
  ASSUME NEW c, NEW q, NEW r, NEW p, NEW K, NEW L, NEW nodes, PeerOK(p, c, q, r, K, L, nodes)
  PROVE  PeerOK(p, c, q, r, {}, {}, <<>>)
  BY DEF PeerOK, Forgotten, Awaited, Listed

\* A client that is gone promises nothing.
LEMMA GoneOK ==
  ASSUME NEW p, NEW K, p \notin K, NEW c, c.state = "gone", NEW q, NEW L, NEW nodes
  PROVE  PeerOK(p, c, q, {}, K, L, nodes)
  BY DEF PeerOK, InOrder, Speaks, Forgotten, Awaited, Listed, Takes

\* What has come late when a request h comes.
LateAfter(h, L) ==
  CASE h.overtaken -> L \cup ({h.event} \ {"NONE"})
    [] ~h.overtaken /\ h.event = "STOPPED" -> {}
    [] OTHER -> L

LEMMA LateAfterFacts ==
  ASSUME NEW h \in Request, NEW L
  PROVE  /\ h.overtaken => L \subseteq LateAfter(h, L) /\ (h.event # "NONE" => h.event \in LateAfter(h, L))
         /\ h.overtaken /\ h.event = "NONE" => LateAfter(h, L) = L
         /\ ~h.overtaken /\ h.event = "STOPPED" => LateAfter(h, L) = {}
         /\ ~h.overtaken /\ h.event # "STOPPED" => LateAfter(h, L) = L
  <1>1. h.overtaken \in BOOLEAN
    BY DEF Request
  <1>2. CASE h.overtaken
    BY <1>2 DEF LateAfter
  <1>3. CASE ~h.overtaken
    BY <1>3 DEF LateAfter
  <1> QED BY <1>2, <1>3

\* The tracker takes a request and answers it.
LEMMA ServeOK ==
  ASSUME NEW c, NEW q \in Seq(Request), NEW k \in DOMAIN q,
         NEW r, NEW p, NEW K, NEW L, NEW nodes,
         PeerOK(p, c, q, r, K, L, nodes),
         c.state \in {"out", "joining", "in", "finishing", "leaving", "gone"},
         NEW h, h = q[k], NEW s, NEW N, NEW M, NEW after,
         ~Current(c, h) => s = r,
         p \in N <=> p \in K \/ (h.event = "STARTED" /\ c.state = "joining" /\ Current(c, h)),
         M = LateAfter(h, L),
         Announced(h.event, h.left, h.endpoint, nodes, after)
  PROVE  PeerOK(p, c, Without(Overtake(q, k), k), s, N, M, after)
  <1> DEFINE o == Overtake(q, k)
             a == Without(o, k)
  <1>0. h \in Request /\ h.event \in EventType
    <2>1. q[k] \in Request
      OBVIOUS
    <2> QED BY <2>1 DEF Request
  <1>o. o \in Seq(Request) /\ k \in DOMAIN o
    BY QueueOvertake
  <1>1. PeerOK(p, c, o, r, K, L, nodes) /\ PeerOK(p, c, a, r, K, L, nodes)
    BY <1>o, OvertakeOK, WithoutOK
  <1>2. ASSUME Takes(c), Current(c, h), NEW i \in DOMAIN a, ~Current(c, a[i]) PROVE a[i].overtaken
    <2>1. Place(k, i) \in DOMAIN o /\ a[i] = o[Place(k, i)]
      BY <1>o, QueueWithout
    <2>2. InOrder(c, q)
      BY DEF PeerOK
    <2> QED BY <1>2, <2>1, <2>2, OthersOvertaken
  <1>l. /\ h.overtaken => L \subseteq M /\ (h.event # "NONE" => h.event \in M)
        /\ h.overtaken /\ h.event = "NONE" => M = L
        /\ ~h.overtaken /\ h.event = "STOPPED" => M = {}
        /\ ~h.overtaken /\ h.event # "STOPPED" => M = L
    BY <1>0, LateAfterFacts
  <1> HIDE DEF a, o
  <1>n. Takes(c) /\ Current(c, h) => h.left = c.left /\ h.endpoint = c.endpoint /\ ~h.overtaken
    BY DEF PeerOK, Speaks
  <1>3. Forgotten(c, a, s, M, after)
    <2>1. CASE c.state = "leaving" /\ Current(c, h)
      <3>1. h.event = "STOPPED" /\ after = <<>>
        BY <2>1 DEF PeerOK, Speaks, EventOf, Announced
      <3>2. ASSUME NEW i \in DOMAIN a, a[i].event = "STARTED" PROVE a[i].overtaken
        <4>1. ~Current(c, a[i])
          BY <1>1, <2>1, <3>2 DEF PeerOK, Speaks, EventOf
        <4> QED BY <1>2, <2>1, <4>1 DEF Takes
      <3> QED BY <3>1, <3>2 DEF Forgotten
    <2>2. CASE c.state = "out" \/ (c.state = "leaving" /\ ~Current(c, h))
      <3> SUFFICES ASSUME c.state = "out" \/ (c.state = "leaving" /\ s # {})
                   PROVE  /\ "STARTED" \notin M => after = <<>>
                          /\ \A i \in DOMAIN a : a[i].event = "STARTED" => a[i].overtaken
        BY DEF Forgotten
      <3>1. /\ "STARTED" \notin L => nodes = <<>>
            /\ h.event = "STARTED" => h.overtaken
            /\ \A i \in DOMAIN a : a[i].event = "STARTED" => a[i].overtaken
        BY <1>1, <2>2 DEF PeerOK, Forgotten
      <3>2. CASE h.event = "STOPPED"
        BY <3>1, <3>2 DEF Announced
      <3>3. CASE h.event # "STOPPED" /\ "STARTED" \notin M
        <4>1. "STARTED" \notin L /\ h.event # "STARTED"
          BY <1>0, <1>l, <3>1, <3>3 DEF Request
        <4> QED BY <1>0, <3>1, <3>3, <4>1 DEF EventType, Announced
      <3> QED BY <3>1, <3>2, <3>3
    <2> QED BY <2>1, <2>2 DEF Forgotten
  <1>4. Awaited(p, c, N, M, after)
    <2> SUFFICES ASSUME c.state = "joining", p \notin N, "STARTED" \notin M PROVE after = <<>>
      BY DEF Awaited
    <2>1. CASE h.event = "STOPPED"
      BY <2>1 DEF Announced
    <2>2. CASE h.event # "STOPPED"
      <3>1. h.event # "STARTED"
        <4>1. h.event = "STARTED" => h.overtaken
          BY DEF PeerOK, Speaks
        <4> QED BY <1>0, <1>l, <4>1
      <3>2. "STARTED" \notin L
        BY <1>0, <1>l, <2>2 DEF Request
      <3>3. nodes = <<>>
        BY <3>2 DEF PeerOK, Awaited
      <3> QED BY <1>0, <2>2, <3>1, <3>3 DEF EventType, Announced
    <2> QED BY <2>1, <2>2
  <1>5. Listed(p, c, a, s, N, M, after)
    <2>1. SUFFICES ASSUME p \in N, c.state \in {"joining", "in", "finishing"}
                   PROVE  OfTheStay(c, a) /\ InTable(c, s, M, after)
      BY DEF Listed
    <2>2. CASE p \in K
      <3>1. OfTheStay(c, a) /\ OfTheStay(c, q) /\ InTable(c, r, L, nodes)
        BY <1>1, <2>1, <2>2 DEF PeerOK, Listed
      <3>2. ~h.overtaken => /\ h.event # "STOPPED" /\ h.endpoint = c.endpoint
                            /\ h.event = "COMPLETED" => c.left = 0
        BY <3>1 DEF OfTheStay
      <3>3. M = L \/ (h.overtaken /\ h.event # "NONE" /\ L \subseteq M /\ h.event \in M)
        BY <1>0, <1>l, <3>2 DEF Request
      <3>4. "STOPPED" \notin M => after # <<>>
        <4>1. SUFFICES ASSUME "STOPPED" \notin M PROVE after # <<>>
          OBVIOUS
        <4>2. nodes # <<>> /\ h.event # "STOPPED"
          BY <1>l, <3>1, <3>2, <3>3, <4>1 DEF InTable
        <4> QED BY <1>0, <4>2 DEF EventType, Announced
      <3>5. "STARTED" \notin M /\ after # <<>> => Head(after).endpoint = c.endpoint
        <4>1. SUFFICES ASSUME "STARTED" \notin M, after # <<>> PROVE Head(after).endpoint = c.endpoint
          OBVIOUS
        <4>2. nodes # <<>> => Head(nodes).endpoint = c.endpoint
          BY <3>1, <3>3, <4>1 DEF InTable
        <4>3. h.event = "STARTED" => h.endpoint = c.endpoint
          BY <3>2, <3>3, <4>1, <1>l, <1>0 DEF Request
        <4> QED BY <1>0, <4>1, <4>2, <4>3 DEF EventType, Announced
      <3>6. (c.state # "finishing" \/ s # {}) /\ M = {} => (IsSeed(Head(after)) <=> c.left = 0)
        <4>1. SUFFICES ASSUME c.state # "finishing" \/ s # {}, M = {}
                       PROVE  IsSeed(Head(after)) <=> c.left = 0
          OBVIOUS
        <4>2. L = {} /\ nodes # <<>> /\ h.event # "STOPPED"
          BY <1>l, <3>1, <3>2, <3>3, <4>1 DEF InTable
        <4>3. h.event = "COMPLETED" => ~h.overtaken /\ c.left = 0
          BY <3>2, <1>l, <1>0, <4>1 DEF Request
        <4>4. IsSeed(Head(after)) <=> IsSeed(Head(nodes)) \/ (h.event = "COMPLETED" /\ h.left = 0)
          BY <1>0, <4>2 DEF EventType, Announced
        <4>5. CASE c.state # "finishing" \/ r # {}
          BY <3>1, <4>2, <4>3, <4>4, <4>5 DEF InTable
        <4>6. CASE c.state = "finishing" /\ r = {}
          <5>1. Current(c, h)
            BY <4>1, <4>6
          <5>2. h.event = "COMPLETED" /\ h.left = c.left /\ c.left = 0
            BY <1>n, <4>6, <5>1 DEF PeerOK, Speaks, EventOf, Takes
          <5> QED BY <4>4, <5>2
        <4> QED BY <4>5, <4>6
      <3> QED BY <3>1, <3>4, <3>5, <3>6 DEF InTable
    <2>3. CASE p \notin K
      <3>1. h.event = "STARTED" /\ c.state = "joining" /\ Current(c, h) /\ Takes(c)
        BY <2>1, <2>3 DEF Takes
      <3>2. h.endpoint = c.endpoint /\ h.left = c.left /\ ~h.overtaken /\ M = L
        BY <1>n, <1>l, <3>1
      <3>3. "STARTED" \notin L => nodes = <<>>
        BY <2>3, <3>1 DEF PeerOK, Awaited
      <3>4. ASSUME NEW i \in DOMAIN a, ~a[i].overtaken
            PROVE  a[i].event = "STARTED" /\ a[i].endpoint = c.endpoint
        <4>1. Current(c, a[i])
          BY <1>2, <3>1, <3>4
        <4> QED BY <1>1, <3>1, <4>1 DEF PeerOK, Speaks, EventOf
      <3>5. OfTheStay(c, a)
        BY <3>4 DEF OfTheStay
      <3>6. after # <<>> /\ (nodes # <<>> => after = nodes)
        BY <3>1 DEF Announced
      <3>7. "STARTED" \notin L => /\ Head(after).endpoint = c.endpoint
                                  /\ IsSeed(Head(after)) <=> c.left = 0
        BY <3>1, <3>2, <3>3 DEF Announced
      <3> QED BY <3>2, <3>5, <3>6, <3>7 DEF InTable
    <2> QED BY <2>2, <2>3
  <1> QED BY <1>1, <1>3, <1>4, <1>5 DEF PeerOK, a, o

(***************************************************************************)
(* The system.                                                             *)
(***************************************************************************)

\* A step about one client leaves the others alone.
LEMMA OneClient ==
  ASSUME PeersOK, NEW p \in PeerId,
         \A o \in PeerId \ {p} :
            /\ client'[o] = client[o] /\ requests'[o] = requests[o] /\ responses'[o] = responses[o]
            /\ o \in known' <=> o \in known
            /\ late'[o] = late[o] /\ Tracked'.all_peers[o] = Tracked.all_peers[o],
         PeerOK(p, client'[p], requests'[p], responses'[p], known', late'[p], Tracked'.all_peers[p])
  PROVE  PeersOK'
  <1> SUFFICES ASSUME NEW o \in PeerId
               PROVE  PeerOK(o, client'[o], requests'[o], responses'[o], known', late'[o], Tracked'.all_peers[o])
    BY DEF PeersOK
  <1>1. CASE o = p
    BY <1>1
  <1>2. CASE o # p
    <2>1. PeerOK(o, client[o], requests[o], responses[o], known, late[o], Tracked.all_peers[o])
      BY DEF PeersOK
    <2> QED BY <1>2, <2>1 DEF PeerOK, Awaited, Listed
  <1> QED BY <1>1, <1>2

\* A client's step does not touch the table.
LEMMA TableKept ==
  ASSUME SystemInv, UNCHANGED torrents_
  PROVE  DBInv' /\ Tracked' = Tracked
  BY DEF SystemInv, DBInv, TypeOK, OneNodePerPeer, CountsAddUp, Tracked

\* What the invariant says of a client.
LEMMA ClientFacts ==
  ASSUME SystemInv, NEW p \in PeerId
  PROVE  /\ client[p] \in Client /\ requests[p] \in Seq(Request) /\ responses[p] \subseteq TransactionId
         /\ PeerOK(p, client[p], requests[p], responses[p], known, late[p], Tracked.all_peers[p])
  BY DEF SystemInv, SystemTypeOK, PeersOK

LEMMA AbsentType ==
  ASSUME NEW state \in {"out", "gone"}
  PROVE  Absent(state) \in Client
  <1>1. (CHOOSE e \in Endpoint : TRUE) \in Endpoint
    BY SystemAssumption
  <1>2. 0 \in TransactionId
    BY SystemAssumption DEF TransactionId
  <1> QED BY <1>1, <1>2 DEF Absent, Client, Left

\* A client begins to join, to finish or to leave.
LEMMA BeginStep ==
  ASSUME SystemInv, NEW p \in PeerId,
         NEW state \in {"joining", "finishing", "leaving"}, NEW left \in Left, NEW endpoint \in Endpoint,
         Begin(p, state, left, endpoint),
         \/ client[p].state = "out" /\ state = "joining" /\ known' = known \ {p}
         \/ /\ client[p].state = "in" /\ state = "finishing" /\ known' = known
            /\ left = 0 /\ endpoint = client[p].endpoint
         \/ state = "leaving" /\ known' = known
  PROVE  SystemInv'
  <1>1. PICK id \in Unused(p) :
          client' = [client EXCEPT ![p] = [state |-> state, left |-> left, endpoint |-> endpoint,
                                           transaction_id |-> id]]
    <2>1. (CHOOSE id \in Unused(p) : TRUE) \in Unused(p)
      BY DEF Begin
    <2> QED BY <2>1 DEF Begin
  <1>2. UNCHANGED <<torrents_, requests, late>> /\ responses' = [responses EXCEPT ![p] = {}]
    BY DEF Begin
  <1> DEFINE d == [state |-> state, left |-> left, endpoint |-> endpoint, transaction_id |-> id]
  <1>3. d \in Client /\ id \in TransactionId
    BY DEF Client, Unused
  <1>4. \A i \in DOMAIN requests[p] : ~Current(d, requests[p][i])
    BY DEF Unused, Current
  <1>5. DBInv' /\ Tracked' = Tracked
    BY <1>2, TableKept
  <1>6. SystemTypeOK'
    BY <1>1, <1>2, <1>3, <1>5 DEF SystemInv, SystemTypeOK, DBInv
  <1>7. /\ client'[p] = d /\ responses'[p] = {}
        /\ \A o \in PeerId \ {p} : client'[o] = client[o] /\ responses'[o] = responses[o]
    BY <1>1, <1>2 DEF SystemInv, SystemTypeOK
  <1>8. PeerOK(p, d, requests[p], {}, known', late[p], Tracked.all_peers[p])
    <2>1. \/ client[p].state = "out" /\ d.state = "joining" /\ p \notin known'
          \/ /\ client[p].state = "in" /\ d.state = "finishing" /\ (p \in known' <=> p \in known)
             /\ d.left = 0 /\ d.endpoint = client[p].endpoint
          \/ d.state = "leaving" /\ (p \in known' <=> p \in known)
      OBVIOUS
    <2> HIDE DEF d
    <2>2. PeerOK(p, client[p], requests[p], responses[p], known, late[p], Tracked.all_peers[p])
      BY ClientFacts
    <2> QED BY <1>4, <2>1, <2>2, BeginOK
  <1>9. \A o \in PeerId \ {p} : o \in known' <=> o \in known
    OBVIOUS
  <1>10. PeersOK'
    BY <1>2, <1>5, <1>7, <1>8, <1>9, OneClient DEF SystemInv
  <1> QED BY <1>5, <1>6, <1>10 DEF SystemInv

\* A request is sent, or its response is taken or lost: nothing in the table.
LEMMA SendStep ==
  ASSUME SystemInv, NEW p \in PeerId, Send(p)
  PROVE  SystemInv'
  <1> DEFINE c == client[p]
             x == RequestOf(p)
  <1>1. /\ Takes(c) /\ requests' = [requests EXCEPT ![p] = Append(@, x)]
        /\ UNCHANGED <<torrents_, client, responses, known, late>>
    BY DEF Send, Takes
  <1>2. /\ c \in Client /\ requests[p] \in Seq(Request)
        /\ PeerOK(p, c, requests[p], responses[p], known, late[p], Tracked.all_peers[p])
    BY ClientFacts
  <1>3. c.state \in {"out", "joining", "in", "finishing", "leaving", "gone"}
        /\ c.left \in Left /\ c.endpoint \in Endpoint /\ c.transaction_id \in TransactionId
    BY <1>2 DEF Client
  <1>4. EventOf(c.state) \in EventType
    BY <1>1, <1>3 DEF EventOf, EventType, Takes
  <1>5. /\ x \in Request /\ Current(c, x) /\ ~x.overtaken
        /\ x.event = EventOf(c.state) /\ x.left = c.left /\ x.endpoint = c.endpoint
    BY <1>3, <1>4 DEF RequestOf, Request, Current
  <1> HIDE DEF c, x
  <1>6. PeerOK(p, c, Append(requests[p], x), responses[p], known, late[p], Tracked.all_peers[p])
    BY <1>1, <1>2, <1>3, <1>5, SendOK
  <1>7. DBInv' /\ Tracked' = Tracked
    BY <1>1, TableKept
  <1>8. Append(requests[p], x) \in Seq(Request)
    BY <1>2, <1>5
  <1>9. SystemTypeOK'
    BY <1>1, <1>7, <1>8 DEF SystemInv, SystemTypeOK, DBInv
  <1>10. /\ requests'[p] = Append(requests[p], x)
         /\ \A o \in PeerId \ {p} : requests'[o] = requests[o]
    BY <1>1 DEF SystemInv, SystemTypeOK
  <1>11. PeersOK'
    BY <1>1, <1>6, <1>7, <1>10, OneClient DEF SystemInv, c
  <1> QED BY <1>7, <1>9, <1>11 DEF SystemInv

LEMMA ReceiveStep ==
  ASSUME SystemInv, NEW p \in PeerId, Receive(p)
  PROVE  SystemInv'
  <1> DEFINE c == client[p]
  <1>1. /\ c \in Client /\ requests[p] \in Seq(Request)
        /\ PeerOK(p, c, requests[p], responses[p], known, late[p], Tracked.all_peers[p])
        /\ client \in [PeerId -> Client]
    BY ClientFacts DEF SystemInv, SystemTypeOK
  <1>2. /\ responses[p] # {} /\ responses' = [responses EXCEPT ![p] = {}]
        /\ UNCHANGED <<torrents_, requests, known, late>>
    BY DEF Receive
  <1>3. /\ client' \in [PeerId -> Client]
        /\ \A o \in PeerId \ {p} : client'[o] = client[o]
        /\ \/ c.state = "leaving" /\ client'[p].state = "out"
           \/ /\ c.state \in {"joining", "finishing"} /\ client'[p].state = "in"
              /\ client'[p].left = c.left /\ client'[p].endpoint = c.endpoint
              /\ client'[p].transaction_id = c.transaction_id
           \/ c.state \notin {"joining", "finishing", "leaving"} /\ client'[p] = c
    <2>1. CASE c.state = "leaving"
      <3>1. client' = [client EXCEPT ![p] = Absent("out")]
        BY <2>1 DEF Receive
      <3>2. Absent("out") \in Client /\ Absent("out").state = "out"
        BY AbsentType DEF Absent
      <3> QED BY <1>1, <2>1, <3>1, <3>2
    <2>2. CASE c.state \in {"joining", "finishing"}
      <3>1. client' = [client EXCEPT ![p] = [c EXCEPT !.state = "in"]]
        BY <1>1, <2>2 DEF Receive
      <3>2. /\ [c EXCEPT !.state = "in"] \in Client /\ [c EXCEPT !.state = "in"].state = "in"
            /\ [c EXCEPT !.state = "in"].left = c.left
            /\ [c EXCEPT !.state = "in"].endpoint = c.endpoint
            /\ [c EXCEPT !.state = "in"].transaction_id = c.transaction_id
        BY <1>1 DEF Client
      <3> QED BY <1>1, <2>2, <3>1, <3>2
    <2>3. CASE c.state \notin {"joining", "finishing", "leaving"}
      <3>1. client' = client
        BY <2>3 DEF Receive
      <3> QED BY <1>1, <2>3, <3>1
    <2> QED BY <2>1, <2>2, <2>3
  <1> HIDE DEF c
  <1>4. PeerOK(p, client'[p], requests[p], {}, known, late[p], Tracked.all_peers[p])
    BY <1>1, <1>2, <1>3, ReceiveOK
  <1>5. DBInv' /\ Tracked' = Tracked
    BY <1>2, TableKept
  <1>6. SystemTypeOK'
    BY <1>2, <1>3, <1>5 DEF SystemInv, SystemTypeOK, DBInv
  <1>7. responses'[p] = {} /\ \A o \in PeerId \ {p} : responses'[o] = responses[o]
    BY <1>2 DEF SystemInv, SystemTypeOK
  <1>8. PeersOK'
    BY <1>2, <1>3, <1>4, <1>5, <1>7, OneClient DEF SystemInv
  <1> QED BY <1>5, <1>6, <1>8 DEF SystemInv

LEMMA LoseStep ==
  ASSUME SystemInv, NEW p \in PeerId, Lose(p)
  PROVE  SystemInv'
  <1>1. /\ requests[p] \in Seq(Request) /\ requests \in [PeerId -> Seq(Request)]
        /\ responses \in [PeerId -> SUBSET TransactionId]
        /\ PeerOK(p, client[p], requests[p], responses[p], known, late[p], Tracked.all_peers[p])
    BY ClientFacts DEF SystemInv, SystemTypeOK
  <1>2. UNCHANGED <<torrents_, client, known, late>>
    BY DEF Lose
  <1>3. DBInv' /\ Tracked' = Tracked
    BY <1>2, TableKept
  <1>4. ASSUME NEW i \in DOMAIN requests[p], requests' = [requests EXCEPT ![p] = Without(@, i)],
               UNCHANGED responses
        PROVE  SystemInv'
    <2> DEFINE a == Without(requests[p], i)
    <2>1. a \in Seq(Request)
      BY <1>1, <1>4, QueueWithout
    <2>2. PeerOK(p, client[p], a, responses[p], known, late[p], Tracked.all_peers[p])
      BY <1>1, <1>4, WithoutOK
    <2>3. requests' = [requests EXCEPT ![p] = a]
      BY <1>4
    <2> HIDE DEF a
    <2>4. /\ requests'[p] = a
          /\ \A o \in PeerId \ {p} : requests'[o] = requests[o]
      BY <1>1, <2>3
    <2>5. SystemTypeOK'
      BY <1>1, <1>2, <1>3, <1>4, <2>1, <2>3 DEF SystemInv, SystemTypeOK, DBInv
    <2>6. PeersOK'
      BY <1>2, <1>3, <1>4, <2>2, <2>4, OneClient DEF SystemInv
    <2> QED BY <1>3, <2>5, <2>6 DEF SystemInv
  <1>5. CASE responses[p] # {} /\ responses' = [responses EXCEPT ![p] = {}] /\ UNCHANGED requests
    <2>1. /\ responses'[p] = {}
          /\ \A o \in PeerId \ {p} : responses'[o] = responses[o]
      BY <1>1, <1>5
    <2>2. PeerOK(p, client[p], requests[p], {}, known, late[p], Tracked.all_peers[p])
      BY <1>1, ResponseLostOK
    <2>3. SystemTypeOK'
      BY <1>2, <1>3, <1>5 DEF SystemInv, SystemTypeOK, DBInv
    <2>4. PeersOK'
      BY <1>2, <1>3, <1>5, <2>1, <2>2, OneClient DEF SystemInv
    <2> QED BY <1>3, <2>3, <2>4 DEF SystemInv
  <1> QED BY <1>4, <1>5 DEF Lose

LEMMA CrashStep ==
  ASSUME SystemInv, NEW p \in PeerId, Crash(p)
  PROVE  SystemInv'
  <1>1. /\ client' = [client EXCEPT ![p] = Absent("gone")]
        /\ responses' = [responses EXCEPT ![p] = {}]
        /\ known' = known \ {p} /\ UNCHANGED <<torrents_, requests, late>>
    BY DEF Crash
  <1>2. Absent("gone") \in Client /\ Absent("gone").state = "gone"
    BY AbsentType DEF Absent
  <1>3. DBInv' /\ Tracked' = Tracked
    BY <1>1, TableKept
  <1>4. SystemTypeOK'
    BY <1>1, <1>2, <1>3 DEF SystemInv, SystemTypeOK, DBInv
  <1>5. /\ client'[p] = Absent("gone") /\ responses'[p] = {} /\ p \notin known'
        /\ \A o \in PeerId \ {p} : /\ client'[o] = client[o] /\ responses'[o] = responses[o]
                                   /\ o \in known' <=> o \in known
    BY <1>1 DEF SystemInv, SystemTypeOK
  <1>6. PeerOK(p, Absent("gone"), requests[p], {}, known', late[p], Tracked.all_peers[p])
    BY <1>2, <1>5, GoneOK
  <1>7. PeersOK'
    BY <1>1, <1>3, <1>5, <1>6, OneClient DEF SystemInv
  <1> QED BY <1>3, <1>4, <1>7 DEF SystemInv

LEMMA RestartStep ==
  ASSUME SystemInv, Restart
  PROVE  SystemInv'
  <1>1. DBInv'
    <2>1. DBInit'
      BY DEF Restart, DBInit
    <2> QED BY <2>1, DBInvInit, PTL
  <1>2. known' = {} /\ late' = [p \in PeerId |-> {}] /\ UNCHANGED <<client, requests, responses>>
    BY DEF Restart
  <1>3. SystemTypeOK'
    BY <1>1, <1>2 DEF SystemInv, SystemTypeOK, DBInv
  <1>4. PeersOK'
    <2> SUFFICES ASSUME NEW p \in PeerId
                 PROVE  PeerOK(p, client[p], requests[p], responses[p], {}, {}, Tracked'.all_peers[p])
      BY <1>2 DEF PeersOK
    <2>1. Tracked'.all_peers[p] = <<>>
      <3>1. torrents_'[InfoHash] = NewTorrent
        BY SystemAssumption DEF Restart
      <3> QED BY <3>1 DEF Tracked, NewTorrent
    <2> QED BY <2>1, ClientFacts, RestartOK
  <1> QED BY <1>1, <1>3, <1>4 DEF SystemInv

\* The tracker serves an announce.
LEMMA ServeStep ==
  ASSUME SystemInv, NEW p \in PeerId, Serve(p)
  PROVE  SystemInv'
  <1>k. PICK k \in DOMAIN requests[p] :
          /\ UpdatePeerList(InfoHash, SenderOf(p, requests[p][k]), requests[p][k].event)
          /\ responses' = Answer(p, requests[p][k].transaction_id)
          /\ known' = Joined(p, requests[p][k]) /\ late' = Lateness(p, requests[p][k])
          /\ requests' = [requests EXCEPT ![p] = Without(Overtake(@, k), k)]
          /\ UNCHANGED client
    BY DEF Serve
  <1> DEFINE c == client[p]
             q == requests[p]
             h == q[k]
             a == Without(Overtake(q, k), k)
             t == torrents_[InfoHash]
             peer == SenderOf(p, h)
             u == update_peer_list(t, peer, h.event)
  <1>1. /\ c \in Client /\ q \in Seq(Request) /\ responses[p] \subseteq TransactionId
        /\ PeerOK(p, c, q, responses[p], known, late[p], t.all_peers[p])
    BY ClientFacts DEF Tracked
  <1>2. requests' = [requests EXCEPT ![p] = a] /\ UNCHANGED client
    BY <1>k
  <1>3. /\ torrents_' = [torrents_ EXCEPT ![InfoHash] = u]
        /\ responses' = Answer(p, h.transaction_id)
        /\ known' = Joined(p, h) /\ late' = Lateness(p, h)
    BY <1>k DEF UpdatePeerList
  <1>4. a \in Seq(Request) /\ h \in Request
    BY <1>1, QueueOvertake, QueueWithout
  <1>5. /\ h.event \in EventType /\ h.left \in Left /\ h.endpoint \in Endpoint
        /\ h.transaction_id \in TransactionId
    BY <1>4 DEF Request
  <1>6. peer \in Sender /\ peer.peer_id = p /\ peer.left = h.left /\ peer.endpoint = h.endpoint
        /\ peer.completed = FALSE
    BY <1>5 DEF SenderOf, Sender, Peer
  <1>7. TypeOK /\ \A g \in Hash_t : TorrentOK(torrents_[g])
    BY DBInvByTorrent DEF SystemInv
  <1>8. TorrentOK(t) /\ InfoHash \in Hash_t
    BY <1>7, SystemAssumption
  <1> HIDE DEF c, q, h, a, peer, t, u
  <1>9. TorrentOK(u) /\ u \in Torrent
    BY <1>6, <1>8, UpdateStep DEF TorrentOK, u
  <1>10. TypeOK' /\ Tracked' = u
    BY <1>3, <1>7, <1>8, <1>9 DEF TypeOK, Tracked
  <1>11. \A g \in Hash_t : TorrentOK(torrents_'[g])
    BY <1>3, <1>7, <1>9 DEF TypeOK
  <1>12. DBInv'
    BY <1>10, <1>11 DEF DBInv, TypeOK, OneNodePerPeer, CountsAddUp, TorrentOK
  <1>13. /\ \A o \in PeerId \ {p} : u.all_peers[o] = t.all_peers[o]
         /\ Announced(h.event, peer.left, peer.endpoint, t.all_peers[p], u.all_peers[p])
    BY <1>5, <1>6, <1>8, NodesAfter DEF u
  <1>14. Announced(h.event, h.left, h.endpoint, t.all_peers[p], u.all_peers[p])
    BY <1>6, <1>13
  <1>15. /\ responses'[p] \subseteq TransactionId
         /\ ~Current(c, h) => responses'[p] = responses[p]
         /\ responses' \in [PeerId -> SUBSET TransactionId]
         /\ \A o \in PeerId \ {p} : responses'[o] = responses[o]
    BY <1>1, <1>3, <1>5 DEF Answer, Current, c, SystemInv, SystemTypeOK
  <1>16. /\ known' \subseteq PeerId
         /\ p \in known' <=> p \in known \/ (h.event = "STARTED" /\ c.state = "joining" /\ Current(c, h))
         /\ \A o \in PeerId \ {p} : o \in known' <=> o \in known
    BY <1>3 DEF Joined, Current, c, SystemInv, SystemTypeOK
  <1>17. c.state \in {"out", "joining", "in", "finishing", "leaving", "gone"}
    BY <1>1 DEF Client
  <1>18. /\ late'[p] = LateAfter(h, late[p])
         /\ late' \in [PeerId -> SUBSET {"STARTED", "COMPLETED", "STOPPED"}]
         /\ \A o \in PeerId \ {p} : late'[o] = late[o]
    <2>1. late \in [PeerId -> SUBSET {"STARTED", "COMPLETED", "STOPPED"}]
      BY DEF SystemInv, SystemTypeOK
    <2>2. h.overtaken \in BOOLEAN
      BY <1>4 DEF Request
    <2>3. CASE h.overtaken
      <3>1. late' = [late EXCEPT ![p] = @ \cup ({h.event} \ {"NONE"})]
        BY <1>3, <2>3 DEF Lateness
      <3>2. {h.event} \ {"NONE"} \subseteq {"STARTED", "COMPLETED", "STOPPED"}
        BY <1>5 DEF EventType
      <3>3. LateAfter(h, late[p]) = late[p] \cup ({h.event} \ {"NONE"})
        BY <2>3 DEF LateAfter
      <3> QED BY <2>1, <3>1, <3>2, <3>3
    <2>4. CASE ~h.overtaken /\ h.event = "STOPPED"
      <3>1. late' = [late EXCEPT ![p] = {}]
        BY <1>3, <2>4 DEF Lateness
      <3>2. LateAfter(h, late[p]) = {}
        BY <2>4 DEF LateAfter
      <3> QED BY <2>1, <3>1, <3>2
    <2>5. CASE ~h.overtaken /\ h.event # "STOPPED"
      BY <1>3, <2>1, <2>5 DEF Lateness, LateAfter
    <2> QED BY <2>3, <2>4, <2>5
  <1>19. PeerOK(p, c, a, responses'[p], known', late'[p], u.all_peers[p])
    <2>1. k \in DOMAIN q
      BY DEF q
    <2> QED BY <2>1, <1>1, <1>14, <1>15, <1>16, <1>17, <1>18, ServeOK DEF h, a
  <1>20. /\ requests' \in [PeerId -> Seq(Request)] /\ requests'[p] = a
         /\ \A o \in PeerId \ {p} : requests'[o] = requests[o]
    BY <1>2, <1>4 DEF SystemInv, SystemTypeOK
  <1>21. SystemTypeOK'
    BY <1>2, <1>10, <1>15, <1>16, <1>18, <1>20 DEF SystemInv, SystemTypeOK
  <1>22. PeersOK'
    BY <1>2, <1>10, <1>13, <1>15, <1>16, <1>18, <1>19, <1>20, OneClient DEF SystemInv, Tracked, c, t
  <1> QED BY <1>12, <1>21, <1>22 DEF SystemInv

LEMMA SystemInvInit == SystemInit => SystemInv
  <1> SUFFICES ASSUME SystemInit PROVE SystemInv
    OBVIOUS
  <1>1. DBInv
    BY DBInvInit DEF SystemInit
  <1>2. Absent("out") \in Client /\ Absent("out").state = "out"
    BY AbsentType DEF Absent
  <1>3. SystemTypeOK
    BY <1>1, <1>2 DEF SystemInit, SystemTypeOK, DBInv
  <1>4. PeersOK
    <2> SUFFICES ASSUME NEW p \in PeerId
                 PROVE  PeerOK(p, client[p], requests[p], responses[p], known, late[p], Tracked.all_peers[p])
      BY DEF PeersOK
    <2>1. client[p].state = "out" /\ requests[p] = <<>> /\ known = {} /\ late[p] = {}
      BY <1>2 DEF SystemInit
    <2>2. Tracked.all_peers[p] = <<>>
      BY SystemAssumption DEF SystemInit, DBInit, Tracked, NewTorrent
    <2>3. DOMAIN requests[p] = {}
      BY <2>1
    <2> QED BY <2>1, <2>2, <2>3 DEF PeerOK, InOrder, Speaks, Forgotten, Awaited, Listed, Takes
  <1> QED BY <1>1, <1>3, <1>4 DEF SystemInv

LEMMA SystemInvStep == SystemInv /\ [SystemNext]_system => SystemInv'
  <1> SUFFICES ASSUME SystemInv, [SystemNext]_system PROVE SystemInv'
    OBVIOUS
  <1>1. CASE UNCHANGED system
    <2>1. DBInv' /\ Tracked' = Tracked
      BY <1>1, TableKept DEF system
    <2> QED BY <1>1, <2>1 DEF SystemInv, SystemTypeOK, DBInv, PeersOK, system
  <1>2. CASE Restart
    BY <1>2, RestartStep
  <1>3. ASSUME NEW p \in PeerId, Join(p) PROVE SystemInv'
    <2>1. PICK left \in LeftAtStart, endpoint \in Endpoint : Begin(p, "joining", left, endpoint)
      BY <1>3 DEF Join
    <2>2. left \in Left
      BY LeftAssumption DEF Left
    <2> QED BY <1>3, <2>1, <2>2, BeginStep DEF Join
  <1>4. ASSUME NEW p \in PeerId, Finish(p) PROVE SystemInv'
    <2>1. client[p].endpoint \in Endpoint /\ 0 \in Left
      BY ClientFacts DEF Client, Left
    <2> QED BY <1>4, <2>1, BeginStep DEF Finish
  <1>5. ASSUME NEW p \in PeerId, Leave(p) PROVE SystemInv'
    <2>1. client[p].endpoint \in Endpoint /\ client[p].left \in Left
      BY ClientFacts DEF Client
    <2> QED BY <1>5, <2>1, BeginStep DEF Leave
  <1> QED BY <1>1, <1>2, <1>3, <1>4, <1>5, SendStep, ReceiveStep, ServeStep, LoseStep, CrashStep
          DEF SystemNext

LEMMA SystemInvAlways == SystemSpec => []SystemInv
  BY SystemInvInit, SystemInvStep, PTL DEF SystemSpec

\* The types of the clients, of what is under way and of the table.
THEOREM SystemTypeCorrect == SystemSpec => []SystemTypeOK
  <1>1. SystemInv => SystemTypeOK
    BY DEF SystemInv
  <1> QED BY <1>1, SystemInvAlways, PTL

\* A client whose leaving was answered is out of the table, in whatever order its
\* announces come, until a join of an earlier stay comes late.
THEOREM LeaversAreForgotten == SystemSpec => []LeftIsForgotten
  <1>1. SystemInv => LeftIsForgotten
    <2> SUFFICES ASSUME SystemInv, NEW p \in PeerId, client[p].state = "out", "STARTED" \notin late[p]
                 PROVE  p \notin Registered(Tracked)
      BY DEF LeftIsForgotten
    <2> QED BY ClientFacts DEF PeerOK, Forgotten, Registered
  <1> QED BY <1>1, SystemInvAlways, PTL

\* A client that was answered is in the table, with or without the file as it
\* has it, if nothing of an earlier stay came late.
THEOREM AcknowledgedAreListed == SystemSpec => []AcknowledgedIsListed
  <1>1. SystemInv => AcknowledgedIsListed
    <2> SUFFICES ASSUME SystemInv, NEW p \in known, client[p].state = "in"
                 PROVE  /\ "STOPPED" \notin late[p] => p \in Registered(Tracked)
                        /\ late[p] = {} => (p \in Seeds(Tracked) <=> client[p].left = 0)
      BY DEF AcknowledgedIsListed
    <2>1. p \in PeerId
      BY DEF SystemInv, SystemTypeOK
    <2>2. InTable(client[p], responses[p], late[p], Tracked.all_peers[p])
      BY <2>1, ClientFacts DEF PeerOK, Listed
    <2> QED BY <2>1, <2>2 DEF InTable, IsSeed, Registered, Seeds
  <1> QED BY <1>1, SystemInvAlways, PTL

\* The table has the address from which a client joined, if no join of an earlier
\* stay came late.
THEOREM AddressesAreCurrent == SystemSpec => []ListedAddressIsCurrent
  <1>1. SystemInv => ListedAddressIsCurrent
    <2> SUFFICES ASSUME SystemInv, NEW p \in known, client[p].state \in {"in", "finishing"},
                        "STARTED" \notin late[p], NEW i \in DOMAIN Tracked.all_peers[p]
                 PROVE  Tracked.all_peers[p][i].endpoint = client[p].endpoint
      BY DEF ListedAddressIsCurrent
    <2>1. p \in PeerId
      BY DEF SystemInv, SystemTypeOK
    <2>2. Tracked \in Torrent /\ OneNode(Tracked)
      BY SystemAssumption DEF SystemInv, DBInv, TypeOK, OneNodePerPeer, Tracked
    <2>3. Tracked.all_peers[p] # <<>>
      <3>1. CASE Tracked.all_peers[p] = <<>>
        BY <3>1
      <3> QED BY <3>1
    <2>4. PICK node \in Peer : Tracked.all_peers[p] = <<node>>
      BY <2>1, <2>2, <2>3, NoneOrOne
    <2>5. Head(Tracked.all_peers[p]).endpoint = client[p].endpoint
      BY <2>1, <2>3, ClientFacts DEF PeerOK, Listed, InTable
    <2>6. i = 1 /\ Head(Tracked.all_peers[p]) = Tracked.all_peers[p][1]
      BY <2>4, OneElement
    <2> QED BY <2>5, <2>6
  <1> QED BY <1>1, SystemInvAlways, PTL

(***************************************************************************)
(* The counters, as the clients see them.                                  *)
(***************************************************************************)

\* What joins has something left, as LeftAtStart says.
JoinsAsAssumed ==
  \A p \in PeerId :
    /\ client[p].state = "joining" => client[p].left \in LeftAtStart
    /\ \A i \in DOMAIN requests[p] :
         requests[p][i].event = "STARTED" => requests[p][i].left \in LeftAtStart

LEMMA JoinsInit == SystemInit => JoinsAsAssumed
  <1> SUFFICES ASSUME SystemInit, NEW p \in PeerId
               PROVE  client[p].state # "joining" /\ DOMAIN requests[p] = {}
    BY DEF JoinsAsAssumed
  <1>1. client[p].state = "out" /\ requests[p] = <<>>
    BY DEF SystemInit, Absent
  <1> QED BY <1>1

LEMMA JoinsStep ==
  ASSUME SystemInv, JoinsAsAssumed, [SystemNext]_system
  PROVE  JoinsAsAssumed'
  <1>0. client \in [PeerId -> Client] /\ requests \in [PeerId -> Seq(Request)]
    BY DEF SystemInv, SystemTypeOK
  <1>1. CASE UNCHANGED <<client, requests>>
    BY <1>1 DEF JoinsAsAssumed
  <1>2. ASSUME NEW p \in PeerId, NEW state, NEW left, NEW endpoint, Begin(p, state, left, endpoint),
               state = "joining" => left \in LeftAtStart
        PROVE  JoinsAsAssumed'
    <2>1. PICK id : client' = [client EXCEPT ![p] = [state |-> state, left |-> left, endpoint |-> endpoint,
                                                    transaction_id |-> id]]
      BY <1>2 DEF Begin
    <2>2. requests' = requests
      BY <1>2 DEF Begin
    <2> QED BY <1>0, <1>2, <2>1, <2>2 DEF JoinsAsAssumed
  <1>3. ASSUME NEW p \in PeerId, Send(p) PROVE JoinsAsAssumed'
    <2> DEFINE x == RequestOf(p)
               a == Append(requests[p], x)
    <2>1. /\ client' = client /\ requests' = [requests EXCEPT ![p] = a]
          /\ client[p].state \notin {"out", "gone"}
      BY <1>3 DEF Send
    <2>2. client[p] \in Client
      BY <1>0
    <2>3. x \in Request /\ (x.event = "STARTED" => x.left \in LeftAtStart)
      <3>1. /\ EventOf(client[p].state) \in EventType
            /\ EventOf(client[p].state) = "STARTED" => client[p].state = "joining"
        BY <2>1, <2>2 DEF EventOf, EventType, Client
      <3> QED BY <2>2, <3>1 DEF RequestOf, Request, Client, JoinsAsAssumed
    <2> HIDE DEF x
    <2>4. ASSUME NEW i \in DOMAIN a, a[i].event = "STARTED" PROVE a[i].left \in LeftAtStart
      <3>1. (i \in DOMAIN requests[p] /\ a[i] = requests[p][i]) \/ a[i] = x
        BY <1>0, <2>3, QueueAppend
      <3> QED BY <2>3, <2>4, <3>1 DEF JoinsAsAssumed
    <2> HIDE DEF a
    <2>5. requests'[p] = a /\ \A o \in PeerId \ {p} : requests'[o] = requests[o]
      BY <1>0, <2>1
    <2> QED BY <2>1, <2>4, <2>5 DEF JoinsAsAssumed
  <1>4. ASSUME NEW p \in PeerId, client' = client, NEW q \in Seq(Request), NEW i \in DOMAIN q,
               requests' = [requests EXCEPT ![p] = Without(q, i)],
               \A j \in DOMAIN q : j \in DOMAIN requests[p] /\ q[j].event = requests[p][j].event
                                                         /\ q[j].left = requests[p][j].left
        PROVE  JoinsAsAssumed'
    <2> DEFINE a == Without(q, i)
    <2>1. \A j \in DOMAIN a : Place(i, j) \in DOMAIN q /\ a[j] = q[Place(i, j)]
      BY <1>4, QueueWithout
    <2>2. requests' = [requests EXCEPT ![p] = a]
      BY <1>4
    <2> HIDE DEF a
    <2>3. requests'[p] = a /\ \A o \in PeerId \ {p} : requests'[o] = requests[o]
      BY <1>0, <2>2
    <2>4. \A j \in DOMAIN a : a[j].event = "STARTED" => a[j].left \in LeftAtStart
      BY <1>4, <2>1 DEF JoinsAsAssumed
    <2> QED BY <1>4, <2>3, <2>4 DEF JoinsAsAssumed
  <1>5. ASSUME NEW p \in PeerId, Receive(p) PROVE JoinsAsAssumed'
    <2>1. requests' = requests
      BY <1>5 DEF Receive
    <2>2. ASSUME NEW o \in PeerId
          PROVE  client'[o].state = "joining" => client[o].state = "joining" /\ client'[o] = client[o]
      BY <1>0, <1>5 DEF Receive, Absent, Client
    <2> QED BY <2>1, <2>2 DEF JoinsAsAssumed
  <1>6. ASSUME NEW p \in PeerId, Crash(p) PROVE JoinsAsAssumed'
    <2>1. requests' = requests /\ client' = [client EXCEPT ![p] = Absent("gone")]
      BY <1>6 DEF Crash
    <2>2. Absent("gone").state = "gone"
      BY DEF Absent
    <2> QED BY <1>0, <2>1, <2>2 DEF JoinsAsAssumed
  <1>7. ASSUME NEW p \in PeerId, Join(p) \/ Finish(p) \/ Leave(p) PROVE JoinsAsAssumed'
    BY <1>2, <1>7 DEF Join, Finish, Leave
  <1>8. ASSUME NEW p \in PeerId, Serve(p) PROVE JoinsAsAssumed'
    <2>1. PICK k \in DOMAIN requests[p] :
            client' = client /\ requests' = [requests EXCEPT ![p] = Without(Overtake(@, k), k)]
      BY <1>8 DEF Serve
    <2> DEFINE o == Overtake(requests[p], k)
    <2>2. /\ o \in Seq(Request) /\ DOMAIN o = DOMAIN requests[p]
          /\ \A j \in DOMAIN o : o[j].event = requests[p][j].event /\ o[j].left = requests[p][j].left
      BY <1>0, <2>1, QueueOvertake
    <2>3. requests' = [requests EXCEPT ![p] = Without(o, k)]
      BY <2>1
    <2> HIDE DEF o
    <2>4. k \in DOMAIN o
      BY <2>1, <2>2
    <2>5. \A j \in DOMAIN o : /\ j \in DOMAIN requests[p] /\ o[j].event = requests[p][j].event
                              /\ o[j].left = requests[p][j].left
      BY <2>2
    <2> QED BY <1>4, <2>1, <2>2, <2>3, <2>4, <2>5
  <1>9. ASSUME NEW p \in PeerId, Lose(p) PROVE JoinsAsAssumed'
    <2>1. client' = client
      BY <1>9 DEF Lose
    <2>2. CASE requests' = requests
      BY <1>1, <2>1, <2>2
    <2>3. ASSUME NEW i \in DOMAIN requests[p], requests' = [requests EXCEPT ![p] = Without(@, i)]
          PROVE  JoinsAsAssumed'
      BY <1>0, <1>4, <2>1, <2>3
    <2> QED BY <1>9, <2>2, <2>3 DEF Lose
  <1>10. CASE Restart
    BY <1>1, <1>10 DEF Restart
  <1>11. CASE UNCHANGED system
    BY <1>1, <1>11 DEF system
  <1> QED BY <1>3, <1>5, <1>6, <1>7, <1>8, <1>9, <1>10, <1>11 DEF SystemNext

\* The counters that responses show are the numbers of clients with and without
\* the file in the table, whatever is lost or repeated, if no client joins with
\* nothing left to download.
THEOREM SystemRolesMatch ==
  ASSUME 0 \notin LeftAtStart
  PROVE  SystemSpec => []CountsMatchRoles
  <1> DEFINE Inv == SystemInv /\ JoinsAsAssumed /\ RolesInv
  <1>1. SystemInit => Inv
    BY SystemInvInit, JoinsInit, RolesInit DEF SystemInit
  <1>2. Inv /\ [SystemNext]_system => Inv'
    <2> SUFFICES ASSUME Inv, [SystemNext]_system PROVE RolesInv'
      BY SystemInvStep, JoinsStep
    <2>1. CASE UNCHANGED torrents_
      BY <2>1 DEF RolesInv, TypeOK
    <2>2. CASE Restart
      <3>1. DBInit'
        BY <2>2 DEF Restart, DBInit
      <3> QED BY <3>1, RolesInit, PTL
    <2>3. ASSUME NEW p \in PeerId, Serve(p) PROVE RolesInv'
      <3>1. PICK k \in DOMAIN requests[p] :
              UpdatePeerList(InfoHash, SenderOf(p, requests[p][k]), requests[p][k].event)
        BY <2>3 DEF Serve
      <3> DEFINE q == requests[p]
                 h == q[k]
                 peer == SenderOf(p, h)
      <3>2. q \in Seq(Request)
        BY ClientFacts
      <3>3. h \in Request
        BY <3>2
      <3>4. h.event = "STARTED" => h.left \in LeftAtStart
        BY <3>3 DEF JoinsAsAssumed
      <3>5. h.event \in EventType /\ peer \in Sender /\ peer.left = h.left
        BY <3>3 DEF Request, SenderOf, Sender, Peer
      <3>0. UpdatePeerList(InfoHash, peer, h.event)
        BY <3>1
      <3> HIDE DEF peer, h
      <3>6. InfoHash \in Hash_t
        BY SystemAssumption
      <3> QED BY <3>0, <3>4, <3>5, <3>6, RolesStep
    <2>4. ASSUME NEW p \in PeerId,
                 \/ Join(p) \/ Finish(p) \/ Leave(p) \/ Send(p) \/ Receive(p) \/ Lose(p) \/ Crash(p)
          PROVE  UNCHANGED torrents_
      BY <2>4 DEF Join, Finish, Leave, Begin, Send, Receive, Lose, Crash
    <2> QED BY <2>1, <2>2, <2>3, <2>4 DEF SystemNext, system
  <1>3. Inv => CountsMatchRoles
    BY RolesByCompleted DEF RolesInv, CountsMatchRoles
  <1> QED BY <1>1, <1>2, <1>3, PTL DEF SystemSpec
==============================================================================
