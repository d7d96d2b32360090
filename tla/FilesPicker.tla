----------------------------- MODULE FilesPicker -----------------------------
(***************************************************************************)
(* Choosing the files of a torrent: the tree of client/source/             *)
(* TorrentAPI.cpp and InfoHelper.cpp, its marks, the window that shows it, *)
(* the marks that a row of the main window keeps, and the priorities that  *)
(* libtorrent is given.                                                    *)
(*                                                                         *)
(* A file is the sequence of the parts of its path.  Indices count from 1. *)
(* A FileNode keeps the whole path, of which the code keeps the last part  *)
(* in the end; fullsize_ is left out, it is never anything but 0.  The     *)
(* code's tree is an array of MAX_FILES sets: a torrent with more files    *)
(* and directories than that has undefined behaviour and is not modelled.  *)
(***************************************************************************)
EXTENDS Integers, SequencesExt

CONSTANTS
  Torrents,   \* torrent files: the paths of the files, as libtorrent numbers them
  MAX_FILES   \* 100

VARIABLES
  files,            \* the paths of params_.ti
  download_holder,  \* the nodes of the tree, the indented list of the window
  window,           \* whether the window for adding a torrent is open
  rows,             \* marks_ of the row of each torrent, <<>> if it has none
  priorities        \* which files of a torrent libtorrent downloads

vars == <<files, download_holder, window, rows, priorities>>

FileNode == [name_: Seq(STRING), level_: Nat, is_marked_: BOOLEAN, is_leaf_: BOOLEAN]

------------------------------------------------------------------------------
(* The tree. *)

\* The path parts of the paths fs, which are the vertices of the tree.
Vertices(fs) == UNION {{SubSeq(f, 1, n) : n \in 1..Len(f)} : f \in ToSet(fs)}

\* Paths are not empty, no file is a directory or another file, and the tree
\* has room for them.
ASSUME FilesAssumption ==
  \A fs \in Torrents : /\ fs \in Seq(Seq(STRING) \ {<<>>}) /\ fs # <<>>
                       /\ \A i, j \in DOMAIN fs : IsPrefix(fs[i], fs[j]) => i = j
                       /\ Cardinality(Vertices(fs)) < MAX_FILES

\* Sets of vertices that are children of a vertex, as tree has them.
Children(fs, vertex) == {v \in Vertices(fs) : Front(v) = vertex}

\* A vertex gets its number with the first file below it, which gives numbers
\* to no other child of the same parent.
FirstFile(fs, v) == Min({i \in DOMAIN fs : IsPrefix(v, fs[i])})

\* dfs comes to v before it comes to w: on the way to w, or because of the two
\* children at which their paths part it visits the one above v first.
Before(fs, v, w) ==
  \/ IsStrictPrefix(v, w)
  \/ \E n \in DOMAIN v \cap DOMAIN w :
       /\ SubSeq(v, 1, n - 1) = SubSeq(w, 1, n - 1)
       /\ FirstFile(fs, SubSeq(v, 1, n)) < FirstFile(fs, SubSeq(w, 1, n))

NewNode(fs, v) ==
  [name_ |-> v, level_ |-> Len(v), is_marked_ |-> FALSE, is_leaf_ |-> Children(fs, v) = {}]

\* The nodes in depth-first order: node i has i - 1 before it.
dfs(fs) ==
  LET Earlier(v) == {w \in Vertices(fs) : Before(fs, w, v)}
  IN  [i \in 1..Cardinality(Vertices(fs)) |->
         NewNode(fs, CHOOSE v \in Vertices(fs) : Cardinality(Earlier(v)) = i - 1)]

\* The download_holder that pickDownloadFiles leaves for a torrent.
NewHolder == [fs \in Torrents |-> dfs(fs)]

------------------------------------------------------------------------------
(* Marks. *)

Mark(h, S, mark) ==
  [j \in DOMAIN h |-> IF j \in S THEN [h[j] EXCEPT !.is_marked_ = mark] ELSE h[j]]

\* The nodes that follow node i on deeper levels.
Subtree(h, i) == {j \in i+1..Len(h) : \A k \in i+1..j : h[k].level_ > h[i].level_}

\* The nodes at which the scan from i to the front meets a lower level.
Ancestor(h, i, j) == \A k \in j+1..i : h[j].level_ < h[k].level_

\* Mutated: picked_level stays the level of the node that was clicked.
setMark_uncles(h, i, mark) ==
  LET climb[j \in 1..i] ==
        IF j = i THEN Mark(h, {i} \cup Subtree(h, i), mark)
        ELSE LET g == climb[j + 1]
             IN  IF h[j].level_ < h[i].level_ /\ (mark => \A k \in Subtree(h, j) : g[k].is_marked_)
                 THEN Mark(g, {j}, mark) ELSE g
  IN  climb[1]

\* The node and all below it take the mark.  So does a directory above it if
\* the mark is cleared, or if all below it is marked by then: climb[j] is the
\* holder when the scan to the front has passed node j.
setMark(h, i, mark) ==
  LET climb[j \in 1..i] ==
        IF j = i THEN Mark(h, {i} \cup Subtree(h, i), mark)
        ELSE LET g == climb[j + 1]
             IN  IF Ancestor(h, i, j) /\ (mark => \A k \in Subtree(h, j) : g[k].is_marked_)
                 THEN Mark(g, {j}, mark) ELSE g
  IN  climb[1]

getMarks(h) == [i \in DOMAIN h |-> h[i].is_marked_]

\* Mutated: directories are counted as files.
file_priorities_all(h) == [i \in DOMAIN h |-> h[i].is_marked_]

\* The counter of createDownload's loop when it has passed node i.
current_file(h, i) == Cardinality({j \in 1..i : h[j].is_leaf_})

\* createDownload: the k-th leaf gives the priority of the file with number k.
file_priorities(h) ==
  [k \in 1..current_file(h, Len(h)) |->
     h[CHOOSE i \in DOMAIN h : h[i].is_leaf_ /\ current_file(h, i) = k].is_marked_]

------------------------------------------------------------------------------
(* The operations of the window. *)

Init ==
  /\ files = <<>> /\ download_holder = <<>>
  /\ window = "closed"
  /\ rows = [fs \in Torrents |-> <<>>]
  /\ priorities = [fs \in Torrents |-> <<>>]

\* Mutated: the nodes of the torrent before stay in the holder.
Open_uncleared ==
  /\ window = "closed"
  /\ \E fs \in Torrents : files' = fs /\ download_holder' = download_holder \o NewHolder[fs]
  /\ window' = "open"
  /\ UNCHANGED <<rows, priorities>>

\* AddTorrentWindow: prepareDownload and pickDownloadFiles.  A torrent that has
\* a row may be opened again: its last row counts.
Open ==
  /\ window = "closed"
  /\ \E fs \in Torrents : files' = fs /\ download_holder' = NewHolder[fs]
  /\ window' = "open"
  /\ UNCHANGED <<rows, priorities>>

\* HandlerSignals::hand, for a click on a check box.
Hand ==
  /\ window = "open"
  /\ \E i \in DOMAIN download_holder :
       download_holder' = setMark(download_holder, i, ~download_holder[i].is_marked_)
  /\ UNCHANGED <<files, window, rows, priorities>>

\* The button Add: the main window adds a row and calls createDownload.
Add ==
  /\ window = "open"
  /\ window' = "closed"
  /\ rows' = [rows EXCEPT ![files] = getMarks(download_holder)]
  /\ priorities' = [priorities EXCEPT ![files] = file_priorities(download_holder)]
  /\ UNCHANGED <<files, download_holder>>

Close ==
  /\ window = "open"
  /\ window' = "closed"
  /\ UNCHANGED <<files, download_holder, rows, priorities>>

Next == Open \/ Hand \/ Add \/ Close

Spec == Init /\ [][Next]_vars

------------------------------------------------------------------------------
(* Properties. *)

\* The holder is a sequence of nodes, and marks and priorities fit the torrent.
PickerTypeOK ==
  /\ files \in Torrents \cup {<<>>}
  /\ download_holder \in Seq(FileNode)
  /\ window \in {"closed", "open"}
  /\ \A fs \in Torrents :
       \/ rows[fs] = <<>> /\ priorities[fs] = <<>>
       \/ /\ rows[fs] \in [1..Cardinality(Vertices(fs)) -> BOOLEAN]
          /\ priorities[fs] \in [DOMAIN fs -> BOOLEAN]

\* The files of a directory are next to each other, as in a torrent that was
\* made from a folder.
Grouped(fs) ==
  \A v \in Vertices(fs) : \A i, j, k \in DOMAIN fs :
     i < j /\ j < k /\ IsPrefix(v, fs[i]) /\ IsPrefix(v, fs[k]) => IsPrefix(v, fs[j])

\* A node's subtree, which setMark finds by the levels alone, is what lies
\* under its path, and every path of the torrent is in the holder once.
LevelsEncodeTree ==
  /\ {node.name_ : node \in ToSet(download_holder)} = Vertices(files)
  /\ \A i, j \in DOMAIN download_holder :
       j \in Subtree(download_holder, i)
         <=> IsStrictPrefix(download_holder[i].name_, download_holder[j].name_)

\* Whatever was clicked, a directory is marked if and only if every file under
\* it is.
DirectoryMarkedIffFilesAre ==
  \A i \in DOMAIN download_holder :
     ~download_holder[i].is_leaf_ =>
        (download_holder[i].is_marked_
           <=> \A j \in Subtree(download_holder, i) :
                  download_holder[j].is_leaf_ => download_holder[j].is_marked_)

\* libtorrent downloads the files that the user marked: file k is wanted if
\* and only if the node with its path is.
MarkedFilesAreWanted ==
  \A fs \in Torrents : rows[fs] # <<>> =>
     \A k \in DOMAIN fs :
        priorities[fs][k] <=> \E i \in DOMAIN rows[fs] : NewHolder[fs][i].name_ = fs[k] /\ rows[fs][i]
==============================================================================
