--------------------------- MODULE TorrentXDatabase ---------------------------
(***************************************************************************)
(* TorrentX.json (gui/torrent_gui/mainwindow.cpp): the rows of the main    *)
(* window with their marks, which the constructor reads and only the       *)
(* destructor writes, and crashes in between.                              *)
(*                                                                         *)
(* The file can be created and written.  A torrent file does not change    *)
(* between two runs: marks that are longer than the new tree index past    *)
(* its end.  Order of the rows is left out.                                *)
(***************************************************************************)
EXTENDS FilesPicker

VARIABLES
  program,   \* "down", "running" or "ending"
  database   \* what TorrentX.json holds: "torn" is a part of a document

database_vars == <<files, download_holder, window, rows, priorities, program, database>>

NoRows == [fs \in Torrents |-> <<>>]

Database == [content: {"absent", "torn", "rows"}, rows: [Torrents -> Seq(BOOLEAN)]]

------------------------------------------------------------------------------
\* Mutated: a saved mark is given to the node before its own.
restore_shifted(fs, marks) ==
  LET set[i \in 0..Len(marks)] ==
        IF i = 0 THEN NewHolder[fs]
        ELSE IF marks[i] /\ i > 1 THEN setMark(set[i - 1], i - 1, TRUE) ELSE set[i - 1]
  IN  set[Len(marks)]

\* A fresh tree, with every saved mark set again.
restore(fs, marks) ==
  LET set[i \in 0..Len(marks)] ==
        IF i = 0 THEN NewHolder[fs]
        ELSE IF marks[i] THEN setMark(set[i - 1], i, TRUE) ELSE set[i - 1]
  IN  set[Len(marks)]

\* What is not a whole document has no "count".
check_database == database.content = "rows"

\* The rows that are read.  A torrent file or a save directory out of reach is
\* skipped.
read_database(reached) ==
  [fs \in Torrents |-> IF check_database /\ fs \in reached THEN database.rows[fs] ELSE <<>>]

\* The constructor.  Every row's torrent is added to a new session, and the
\* torrent read last stays in the picker.
Start ==
  /\ program = "down" /\ program' = "running"
  /\ \E reached \in SUBSET Torrents : rows' = read_database(reached)
  /\ priorities' = [fs \in Torrents |->
       IF rows'[fs] = <<>> THEN <<>> ELSE file_priorities(restore(fs, rows'[fs]))]
  /\ \/ rows' = NoRows /\ UNCHANGED <<files, download_holder>>
     \/ \E fs \in Torrents :
          rows'[fs] # <<>> /\ files' = fs /\ download_holder' = restore(fs, rows'[fs])
  /\ UNCHANGED <<window, database>>

\* The window for adding torrents; a torrent that is in the list is not opened
\* again (MainWindow has torrents that are listed twice).
OpenNew == Open /\ rows[files'] = <<>>

Choose ==
  /\ program = "running"
  /\ OpenNew \/ Hand \/ Add \/ Close
  /\ UNCHANGED <<program, database>>

\* The delete button: the row and the torrent go.
Delete ==
  /\ program = "running" /\ window = "closed"
  /\ \E fs \in Torrents :
       /\ rows[fs] # <<>>
       /\ rows' = [rows EXCEPT ![fs] = <<>>]
       /\ priorities' = [priorities EXCEPT ![fs] = <<>>]
  /\ UNCHANGED <<files, download_holder, window, program, database>>

\* The destructor opens the file, which empties it.
BeginWrite ==
  /\ program = "running" /\ window = "closed"
  /\ program' = "ending"
  /\ database' = [content |-> "torn", rows |-> NoRows]
  /\ UNCHANGED vars

Down ==
  /\ program' = "down" /\ files' = <<>> /\ download_holder' = <<>> /\ window' = "closed"
  /\ rows' = NoRows /\ priorities' = NoRows

write_database ==
  /\ program = "ending"
  /\ database' = [content |-> "rows", rows |-> rows]
  /\ Down

Crash == program # "down" /\ Down /\ UNCHANGED database

DatabaseInit ==
  /\ Init
  /\ program = "down"
  /\ database = [content |-> "absent", rows |-> NoRows]

DatabaseNext == Start \/ Choose \/ Delete \/ BeginWrite \/ write_database \/ Crash

DatabaseSpec == DatabaseInit /\ [][DatabaseNext]_database_vars

------------------------------------------------------------------------------
(* Properties. *)

\* The variables of the picker, and of the file and the program.
DatabaseTypeOK ==
  /\ PickerTypeOK
  /\ program \in {"down", "running", "ending"}
  /\ database \in Database

\* The files that are wanted of a torrent according to marks of a row, and to
\* the priorities that libtorrent has.
MarkedFiles(fs, marks) ==
  {NewHolder[fs][i].name_ : i \in {j \in DOMAIN marks : NewHolder[fs][j].is_leaf_ /\ marks[j]}}
WantedFiles(fs) == {fs[k] : k \in {j \in DOMAIN fs : priorities[fs][j]}}

\* The list of downloads that the program keeps from run to run: setting the
\* saved marks again, one by one and each with its effect on other nodes, gives
\* libtorrent the choice of files that it had when the program ended.
List == INSTANCE DownloadList WITH
  NotListed <- {<<>>},
  downloads <- [fs \in Torrents |-> IF priorities[fs] = <<>> THEN {<<>>} ELSE WantedFiles(fs)],
  saved     <- [fs \in Torrents |-> IF database.rows[fs] = <<>> THEN {<<>>}
                                    ELSE MarkedFiles(fs, database.rows[fs])]

ImplementsDownloadList == List!Spec
==============================================================================
