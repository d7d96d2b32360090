--------------------------- MODULE MCTrackerServer ---------------------------
(***************************************************************************)
(* A server with two torrents and the datagrams of four peers, well formed *)
(* and not.  Sizes are the code's, except that PACKET_SIZE and PEER_SIZE   *)
(* are such that a response has room for two peers.                        *)
(***************************************************************************)
EXTENDS TrackerServer

CONSTANTS h1, h2, p1, p2, p3, p4

\* Two bytes stand for the four of an address.
e1 == [ip |-> <<10, 1>>, port |-> <<31, 64>>]
e2 == [ip |-> <<10, 2>>, port |-> <<31, 64>>]
MCEndpoint == {e1, e2}

Announce(h, p, event, left, num_want) ==
  [size |-> 98, action |-> "ANNOUNCE", transaction_id |-> 1, hashes |-> <<h>>, peer_id |-> p,
   left |-> left, event |-> event, num_want |-> num_want, from |-> e1]

AnyScrape(size, hashes) ==
  [Announce(h1, p1, "NONE", 0, -1) EXCEPT !.size = size, !.action = "SCRAPE", !.hashes = hashes]

Starts   == {Announce(h1, p, "STARTED", 1, 3) : p \in {p1, p2, p3, p4}}
               \cup {Announce(h1, p1, "STARTED", 0, -1)}
Others   == {Announce(h1, p1, "COMPLETED", 0, 3), Announce(h1, p2, "COMPLETED", 1, 3),
             Announce(h1, p1, "STOPPED", 1, -1),
             [Announce(h1, p2, "NONE", 1, 3) EXCEPT !.from = e2]}
Scrapes  == {AnyScrape(36, <<h2>>), AnyScrape(56, <<h1, h2>>)}
Connects == {[AnyScrape(16, <<>>) EXCEPT !.action = "CONNECT"]}
\* Too short, cut off, of no known action or event, or with part of a hash.
Malformeds == {AnyScrape(16, <<>>), AnyScrape(116, <<h1, h1, h2, h2, h2>>),
               [AnyScrape(15, <<>>) EXCEPT !.action = "CONNECT"],
               [AnyScrape(16, <<>>) EXCEPT !.action = Other],
               [AnyScrape(16, <<>>) EXCEPT !.action = "ERROR"],
               [Announce(h1, p1, "STARTED", 1, 3) EXCEPT !.size = 97],
               Announce(h1, p1, Other, 1, 3)}

MCNumWant == {-1, 3}

MCDatagrams == Starts \cup Others \cup Scrapes \cup Connects \cup Malformeds

\* Two of the peers only start.
Symmetry == Permutations({p3, p4})
==============================================================================
