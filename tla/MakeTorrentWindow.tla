-------------------------- MODULE MakeTorrentWindow --------------------------
(***************************************************************************)
(* Making a torrent: the dialog of gui/torrent_gui/maketorrentwindow.cpp,  *)
(* and what the main window has written when it closes.                    *)
(*                                                                         *)
(* A slot is one step, with the dialogs and warnings it waits for: they    *)
(* are modal.  Of a torrent file what the user gave for it is kept: its    *)
(* source stands for the list of files.  Left out: the hashes of the       *)
(* pieces, which makeTorrent never sets.                                   *)
(***************************************************************************)
EXTENDS Integers, SequencesExt

CONSTANTS
  Files, Folders,  \* what the file dialogs offer
  Readable,        \* the paths that can be read
  Shareable,       \* those under which libtorrent finds files with data in them
  Writable,        \* the folders that can be written
  Trackers, Names, \* what the user may type, apart from nothing
  LINES            \* bound: lines in the field for trackers

\* The path that a dialog gives if it is given up, an empty line, no name.
Nothing == ""

ASSUME PathsAssumption ==
  /\ Nothing \notin Files \cup Folders \cup Trackers \cup Names
  /\ Readable \cup Shareable \subseteq Files \cup Folders /\ Writable \subseteq Folders
  /\ LINES \in Nat \ {0}

VARIABLES
  window,       \* "none", "open" or, until it is evaluated, "closed"
  radio_button, \* which of the two is checked
  stored,       \* the window's members
  shown,        \* what its fields show
  torrent_file  \* the torrent file that was written last

vars == <<window, radio_button, stored, shown, torrent_file>>

NewMembers == [path_to_source_ |-> Nothing, path_to_save_directory_ |-> Nothing,
               trackers_ |-> <<>>, name_ |-> Nothing, good_ |-> FALSE]

\* Nothing typed is one empty line.
NewFields == [source |-> Nothing, save_location |-> Nothing, trackers |-> <<Nothing>>, name |-> Nothing]
Texts     == {text \in BoundedSeq(Trackers \cup {Nothing}, LINES) : text # <<>>}

NoTorrent == [source |-> Nothing, trackers |-> <<>>, save |-> Nothing, name |-> Nothing]

------------------------------------------------------------------------------
(* The slots of the window. *)

Open ==
  /\ window = "none" /\ window' = "open"
  /\ radio_button' = "file" /\ stored' = NewMembers /\ shown' = NewFields
  /\ UNCHANGED torrent_file

RadioButton ==
  /\ window = "open"
  /\ radio_button' \in {"file", "folder"}
  /\ UNCHANGED <<window, stored, shown, torrent_file>>

\* The path is stored before it is looked at, and shown only if it can be read.
ChooseSource ==
  /\ window = "open"
  /\ \E path \in (IF radio_button = "file" THEN Files ELSE Folders) \cup {Nothing} :
       /\ stored' = [stored EXCEPT !.path_to_source_ = path]
       /\ shown' = IF path \in Readable THEN [shown EXCEPT !.source = path] ELSE shown
  /\ UNCHANGED <<window, radio_button, torrent_file>>

ChooseSaveLocation ==
  /\ window = "open"
  /\ \E path \in Folders \cup {Nothing} :
       /\ stored' = [stored EXCEPT !.path_to_save_directory_ = path]
       /\ shown' = IF path \in Writable THEN [shown EXCEPT !.save_location = path] ELSE shown
  /\ UNCHANGED <<window, radio_button, torrent_file>>

Type ==
  /\ window = "open"
  /\ \/ \E text \in Texts : shown' = [shown EXCEPT !.trackers = text]
     \/ \E name \in Names \cup {Nothing} : shown' = [shown EXCEPT !.name = name]
  /\ UNCHANGED <<window, radio_button, stored, torrent_file>>

\* Mutated: an empty line is a tracker.
Entered_lines(text) == text

\* The loop over the lines: those that are not empty are kept.
Entered(text) ==
  LET taken[i \in 0..Len(text)] ==
        IF i = 0 THEN <<>>
        ELSE IF text[i] # Nothing THEN Append(taken[i - 1], text[i]) ELSE taken[i - 1]
  IN  taken[Len(text)]

\* Mutated: the trackers of a try before are kept.
Taken_uncleared == [stored EXCEPT !.trackers_ = @ \o Entered(shown.trackers), !.name_ = shown.name]

\* The members with the fields that the user typed.
Taken == [stored EXCEPT !.trackers_ = Entered(shown.trackers), !.name_ = shown.name]

Complete(members) ==
  /\ members.path_to_save_directory_ # Nothing /\ members.path_to_source_ # Nothing
  /\ members.trackers_ # <<>> /\ members.name_ # Nothing

\* The button that makes the torrent.  If something is missing, a warning says
\* so, the window stays open, and what was typed is stored all the same.
New ==
  /\ window = "open"
  /\ IF Complete(Taken)
     THEN stored' = [Taken EXCEPT !.good_ = TRUE] /\ window' = "closed"
     ELSE stored' = Taken /\ UNCHANGED window
  /\ UNCHANGED <<radio_button, shown, torrent_file>>

Close ==
  /\ window = "open" /\ window' = "closed"
  /\ UNCHANGED <<radio_button, stored, shown, torrent_file>>

\* What get_source, get_trackers, get_save_directory and get_name return.
Given == [source |-> stored.path_to_source_, trackers |-> stored.trackers_,
          save |-> stored.path_to_save_directory_, name |-> stored.name_]

\* What libtorrent makes of it: nothing at all if there are no data.
generate(torrent) ==
  IF torrent.source \in Shareable THEN torrent
  ELSE [torrent EXCEPT !.source = Nothing, !.trackers = <<>>]

\* Nothing is written, and nothing said, if the stream does not open.
makeTorrent(torrent) ==
  torrent_file' = IF torrent.save \in Writable THEN generate(torrent) ELSE torrent_file

\* The rest of on_action_create_torrent_triggered.
Evaluate ==
  /\ window = "closed" /\ window' = "none"
  /\ IF stored.good_ THEN makeTorrent(Given) ELSE UNCHANGED torrent_file
  /\ UNCHANGED <<radio_button, stored, shown>>

Init ==
  /\ window = "none" /\ radio_button = "file"
  /\ stored = NewMembers /\ shown = NewFields
  /\ torrent_file = NoTorrent

Next == Open \/ RadioButton \/ ChooseSource \/ ChooseSaveLocation \/ Type \/ New \/ Close \/ Evaluate

Spec == Init /\ [][Next]_vars

------------------------------------------------------------------------------
(* Properties. *)

Path   == Files \cup Folders \cup {Nothing}
Folder == Folders \cup {Nothing}
Name   == Names \cup {Nothing}

\* The types of the variables; a tracker is never empty.
MakeTypeOK ==
  /\ window \in {"none", "open", "closed"} /\ radio_button \in {"file", "folder"}
  /\ stored \in [path_to_source_: Path, path_to_save_directory_: Folder,
                 trackers_: Seq(Trackers), name_: Name, good_: BOOLEAN]
  /\ shown \in [source: Path, save_location: Folder, trackers: Texts, name: Name]
  /\ torrent_file \in [source: Path, trackers: Seq(Trackers), save: Folder, name: Name]

\* A torrent file that is written is the one that the window showed: its folder,
\* its name, its trackers and its source, however many tries were refused before.
\* Only a source of which the window warned that it cannot be read, and which it
\* stored all the same (maketorrentwindow.cpp:53-63), may stand in it instead of
\* the one shown; and the file is empty only for such a source or for one
\* without data.
WrittenAsShown ==
  [][torrent_file' # torrent_file =>
       /\ torrent_file'.save = shown.save_location
       /\ torrent_file'.name = shown.name
       /\ \/ /\ torrent_file'.source \in {shown.source} \cup (Path \ Readable)
             /\ torrent_file'.trackers = Entered(shown.trackers)
          \/ /\ torrent_file'.source = Nothing /\ torrent_file'.trackers = <<>>
             /\ shown.source \notin Shareable \/ stored.path_to_source_ \notin Readable]_vars
==============================================================================
