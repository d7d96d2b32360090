-------------------------- MODULE MCTorrentXDatabase --------------------------
(***************************************************************************)
(* A torrent made from a folder, with files before and after directories,  *)
(* and a torrent of one file.  All small torrents show that the closed     *)
(* form of dfs is what the code computes.                                  *)
(***************************************************************************)
EXTENDS TorrentXDatabase

Folder  == << <<"t", "u">>, <<"t", "a", "v">>, <<"t", "a", "b", "x">>, <<"t", "a", "b", "y">>, <<"t", "c", "z">> >>
OneFile == << <<"x">> >>

TwoTorrents == {Folder, OneFile}

\* As the theorems about wanted files assume.
ASSUME TorrentsAreGrouped == \A fs \in TwoTorrents : Grouped(fs)

------------------------------------------------------------------------------
\* Up to three files, at most three parts deep, in any order.
SmallTorrents ==
  LET Paths == UNION {[1..n -> {"a", "b"}] : n \in 1..3}
  IN  {fs \in UNION {[1..n -> Paths] : n \in 1..3} :
         \A i, j \in DOMAIN fs : IsPrefix(fs[i], fs[j]) => i = j}

\* InfoHelper::dfs as it is written: a node, then its children by number.
dfs_recursive(fs) ==
  LET visit[v \in Vertices(fs) \cup {<<>>}] ==
        LET children == SetToSortSeq(Children(fs, v), LAMBDA u, w : FirstFile(fs, u) < FirstFile(fs, w))
        IN  (IF v = <<>> THEN <<>> ELSE <<NewNode(fs, v)>>)
               \o FlattenSeq([i \in DOMAIN children |-> visit[children[i]]])
  IN  visit[<<>>]

ASSUME ClosedForm == \A fs \in SmallTorrents : dfs(fs) = dfs_recursive(fs)
==============================================================================
