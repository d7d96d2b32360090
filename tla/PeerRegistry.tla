---------------------------- MODULE PeerRegistry ----------------------------
(***************************************************************************)
(* What the tracker's database promises, apart from how it stores it: for  *)
(* every torrent the set of peers that joined and did not leave, the peers *)
(* among them whose download was counted, and the number of downloads.     *)
(* TorrentDataBase implements this specification.                          *)
(***************************************************************************)
EXTENDS Naturals

CONSTANTS
  Hash_t,   \* the torrents
  PeerId,   \* the peers
  SIZE_T    \* the download counter counts modulo SIZE_T

VARIABLES
  registered,  \* registered[h]: the peers of torrent h
  counted,     \* counted[h]: those of them whose completion was counted
  downloads    \* downloads[h]: how many completions were counted, ever

vars == <<registered, counted, downloads>>

Init ==
  /\ registered = [h \in Hash_t |-> {}]
  /\ counted    = [h \in Hash_t |-> {}]
  /\ downloads  = [h \in Hash_t |-> 0]

Join(h, p) ==
  /\ p \notin registered[h]
  /\ registered' = [registered EXCEPT ![h] = @ \cup {p}]
  /\ UNCHANGED <<counted, downloads>>

\* A stay of a peer in a torrent is counted as a download once at most.
Finish(h, p) ==
  /\ p \in registered[h] \ counted[h]
  /\ counted'   = [counted EXCEPT ![h] = @ \cup {p}]
  /\ downloads' = [downloads EXCEPT ![h] = (@ + 1) % SIZE_T]
  /\ UNCHANGED registered

Leave(h, p) ==
  /\ p \in registered[h]
  /\ registered' = [registered EXCEPT ![h] = @ \ {p}]
  /\ counted'    = [counted EXCEPT ![h] = @ \ {p}]
  /\ UNCHANGED downloads

Next == \E h \in Hash_t, p \in PeerId : Join(h, p) \/ Finish(h, p) \/ Leave(h, p)

Spec == Init /\ [][Next]_vars
=============================================================================
