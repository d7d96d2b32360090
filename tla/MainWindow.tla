------------------------------ MODULE MainWindow ------------------------------
(***************************************************************************)
(* gui/torrent_gui/mainwindow.cpp: the rows of the main window and their   *)
(* buttons, the thread that asks for updates of the screen, and the end of *)
(* the program, over TorrentAPI.                                           *)
(*                                                                         *)
(* Qt is external: its event loop runs one handler at a time, and the loop *)
(* of a question box runs the updates of the screen meanwhile.  Rows count *)
(* from 1 and row 0 is none.  Left out: labels, progress bars, the open    *)
(* dialogs before a torrent is added (they change nothing), the database   *)
(* file, opening a folder, and the window for making torrents.             *)
(***************************************************************************)
EXTENDS TorrentAPI

CONSTANTS
  ROWS_PER_NAME,  \* bound: how often one torrent is in the list
  COMMANDS,       \* bound: a button works while fewer calls wait for libtorrent's thread
  UPDATES         \* bound: update_screen signals in the queue of the window

ASSUME UpdatesAssumption == UPDATES \in Nat

VARIABLES
  cur_torrens_,        \* the rows
  currentRow,          \* the row that is current
  enabled,             \* which of the buttons are enabled
  box,                 \* whether the question of the delete button is open
  updates,             \* update_screen signals that wait
  ui,                  \* what the window's thread does
  worker,              \* what the worker's thread does
  program_is_running

window == <<cur_torrens_, currentRow, enabled, box>>
thread == <<worker, program_is_running>>
api    == <<session, queues, linker_>>
vars   == <<window, updates, ui, thread, api>>

Torrent == [name_: Name, download_: BOOLEAN, finished_: BOOLEAN]

EventLoop    == [at |-> "event_loop"]
Creating(n)  == [at |-> "createDownload", name |-> n]
Updating(i)  == [at |-> "update_statistic", index |-> i]
Closing      == [at |-> "destructor"]
Closed       == [at |-> "closed"]
\* An exception left a handler.
Terminated   == [at |-> "terminated"]

\* The user can click while the loop of the window runs, and no box is open.
Ready == ui = EventLoop /\ ~box

RowsNamed(n) == {i \in DOMAIN cur_torrens_ : cur_torrens_[i].name_ = n}

------------------------------------------------------------------------------
\* on_list_cur_torrents_currentItemChanged
ButtonsFor(rows, row) ==
  IF row = 0 THEN {}
  ELSE IF rows[row].finished_ THEN {"delete"}
  ELSE IF rows[row].download_ THEN {"pause", "delete"} ELSE {"start", "delete"}

Select ==
  /\ Ready
  /\ currentRow' \in DOMAIN cur_torrens_ \ {currentRow}
  /\ enabled' = ButtonsFor(cur_torrens_, currentRow')
  /\ UNCHANGED <<cur_torrens_, box, updates, ui, thread, api>>

\* on_action_open_torrent_triggered, up to the wait in createDownload.
OpenTorrent ==
  /\ Ready
  /\ \E n \in Name :
       /\ Cardinality(RowsNamed(n)) < ROWS_PER_NAME
       /\ cur_torrens_' = Append(cur_torrens_, [name_ |-> n, download_ |-> TRUE, finished_ |-> FALSE])
       /\ async_add_torrent(n)
       /\ ui' = Creating(n)
  /\ UNCHANGED <<currentRow, enabled, box, updates, thread, session, posts, alerts, linker_>>

\* createDownload keeps the thread until it has its alert.
CreateDownload ==
  /\ ui.at = "createDownload"
  /\ \/ AddAlert(ui.name) /\ ui' = EventLoop
     \/ NoAddAlert /\ UNCHANGED ui
  /\ UNCHANGED <<window, updates, thread>>

\* Mutated: the buttons change and the row does not.
PauseOrStart_row(button, other, download, op) ==
  /\ Ready /\ button \in enabled /\ Len(commands) < COMMANDS
  /\ pauseDownload(cur_torrens_[currentRow].name_, op)
  /\ enabled' = (enabled \ {button}) \cup {other}
  /\ UNCHANGED <<cur_torrens_, currentRow, box, updates, ui, thread>>

\* on_action_pause_torrent_triggered and on_action_start_torrent_triggered.
PauseOrStart(button, other, download, op) ==
  /\ Ready /\ button \in enabled /\ Len(commands) < COMMANDS
  /\ cur_torrens_' = [cur_torrens_ EXCEPT ![currentRow].download_ = download]
  /\ pauseDownload(cur_torrens_[currentRow].name_, op)
  /\ \/ /\ HandleIsValid(cur_torrens_[currentRow].name_)
        /\ enabled' = (enabled \ {button}) \cup {other}
        /\ UNCHANGED ui
     \/ /\ ~HandleIsValid(cur_torrens_[currentRow].name_)
        /\ ui' = Terminated
        /\ UNCHANGED enabled
  /\ UNCHANGED <<currentRow, box, updates, thread>>

Pause == PauseOrStart("pause", "start", FALSE, "pause")
Start == PauseOrStart("start", "pause", TRUE, "resume")

\* on_action_delete_torrent_triggered: the question, by the button or by the
\* menu of the list, and then its answer.
AskDelete ==
  /\ Ready /\ ("delete" \in enabled \/ currentRow # 0)
  /\ box' = TRUE
  /\ UNCHANGED <<cur_torrens_, currentRow, enabled, updates, ui, thread, api>>

CancelDelete ==
  /\ ui = EventLoop /\ box
  /\ box' = FALSE
  /\ UNCHANGED <<cur_torrens_, currentRow, enabled, updates, ui, thread, api>>

RemoveOrThrow(name) ==
  /\ removeDownload(name)
  /\ ui' = IF RemoveThrows(name) THEN Terminated ELSE ui

\* The row that Qt makes current, while the one removed is still there.
Neighbour(row) ==
  IF row < Len(cur_torrens_) THEN row + 1 ELSE row - 1

\* Mutated: the buttons stay as they were for the row that is deleted.
AnswerDelete_buttons ==
  /\ ui = EventLoop /\ box /\ Len(commands) < COMMANDS
  /\ box' = FALSE
  /\ cur_torrens_' = RemoveAt(cur_torrens_, currentRow)
  /\ currentRow' = Min({currentRow, Len(cur_torrens_')})
  /\ RemoveOrThrow(cur_torrens_[currentRow].name_)
  /\ UNCHANGED <<enabled, updates, thread>>

\* Mutated: the last row is erased, whichever was current.
AnswerDelete_last ==
  /\ ui = EventLoop /\ box /\ Len(commands) < COMMANDS
  /\ box' = FALSE
  /\ enabled' = ButtonsFor(cur_torrens_, Neighbour(currentRow))
  /\ cur_torrens_' = Front(cur_torrens_)
  /\ currentRow' = Min({currentRow, Len(cur_torrens_')})
  /\ RemoveOrThrow(cur_torrens_[currentRow].name_)
  /\ UNCHANGED <<updates, thread>>

\* Mutated: the row stays current by its number, though it was the last.
AnswerDelete_late ==
  /\ ui = EventLoop /\ box /\ Len(commands) < COMMANDS
  /\ box' = FALSE
  /\ enabled' = ButtonsFor(cur_torrens_, Neighbour(currentRow))
  /\ cur_torrens_' = RemoveAt(cur_torrens_, currentRow)
  /\ RemoveOrThrow(cur_torrens_[currentRow].name_)
  /\ UNCHANGED <<currentRow, updates, thread>>

\* takeItem makes the neighbour current before the row is erased.
AnswerDelete ==
  /\ ui = EventLoop /\ box /\ Len(commands) < COMMANDS
  /\ box' = FALSE
  /\ enabled' = ButtonsFor(cur_torrens_, Neighbour(currentRow))
  /\ cur_torrens_' = RemoveAt(cur_torrens_, currentRow)
  /\ currentRow' = Min({currentRow, Len(cur_torrens_')})
  /\ RemoveOrThrow(cur_torrens_[currentRow].name_)
  /\ UNCHANGED <<updates, thread>>

------------------------------------------------------------------------------
(* update_statistic, row by row.  The later calls of getInfo for a row find   *)
(* what the call for the next row would.                                      *)

BeginUpdate ==
  /\ ui = EventLoop /\ updates > 0
  /\ updates' = updates - 1
  /\ ui' = Updating(1)
  /\ UNCHANGED <<window, thread, api>>

UpdateRow ==
  /\ ui.at = "update_statistic" /\ ui.index <= Len(cur_torrens_)
  /\ LET name == cur_torrens_[ui.index].name_
     IN  /\ getInfo(name)
         /\ cur_torrens_' = [cur_torrens_ EXCEPT ![ui.index].finished_ =
                               @ \/ session_handles'[converter[name]].complete]
  /\ ui' = Updating(ui.index + 1)
  /\ UNCHANGED <<currentRow, enabled, box, updates, thread>>

EndUpdate ==
  /\ ui.at = "update_statistic" /\ ui.index > Len(cur_torrens_)
  /\ enabled' = IF currentRow # 0 /\ cur_torrens_[currentRow].finished_ THEN {"delete"} ELSE enabled
  /\ ui' = EventLoop
  /\ UNCHANGED <<cur_torrens_, currentRow, box, updates, thread, api>>

\* Mutated: the flag is not cleared.
CloseWindow_running ==
  /\ Ready
  /\ ui' = Closing
  /\ UNCHANGED <<window, updates, thread, api>>

\* ~MainWindow clears the flag and waits for the worker's thread.
CloseWindow ==
  /\ Ready
  /\ program_is_running' = FALSE
  /\ ui' = Closing
  /\ UNCHANGED <<window, updates, worker, api>>

EndClose ==
  /\ ui = Closing /\ worker = "ended"
  /\ ui' = Closed
  /\ UNCHANGED <<window, updates, thread, api>>

\* Worker::start, once round its loop; its sleep is any delay between the rounds.
WorkerStep ==
  /\ worker = "while" /\ ui # Terminated
  /\ \/ program_is_running /\ updates' = Min({updates + 1, UPDATES}) /\ UNCHANGED worker
     \/ ~program_is_running /\ worker' = "ended" /\ UNCHANGED updates
  /\ UNCHANGED <<window, ui, program_is_running, api>>

\* libtorrent's thread does what it was asked for in order, and the swarm goes on.
SessionCommand ==
  /\ ui \notin {Closed, Terminated}
  /\ DoCommand
  /\ UNCHANGED <<window, updates, ui, thread>>

SessionUpdate ==
  /\ ui \notin {Closed, Terminated}
  /\ PostUpdates
  /\ UNCHANGED <<window, updates, ui, thread>>

Download ==
  /\ ui \notin {Closed, Terminated}
  /\ Progress
  /\ UNCHANGED <<window, updates, ui, thread>>

------------------------------------------------------------------------------
Init ==
  /\ APIInit
  /\ cur_torrens_ = <<>> /\ currentRow = 0 /\ enabled = {} /\ box = FALSE
  /\ updates = 0 /\ ui = EventLoop
  /\ worker = "while" /\ program_is_running = TRUE

Handler == CreateDownload \/ BeginUpdate \/ UpdateRow \/ EndUpdate \/ EndClose

User == \/ OpenTorrent \/ Select \/ Pause \/ Start
        \/ AskDelete \/ CancelDelete \/ AnswerDelete \/ CloseWindow

Next == Handler \/ User \/ WorkerStep \/ SessionCommand \/ SessionUpdate \/ Download

\* The three threads run.  Nothing is assumed of the user or of the swarm.
Fairness == WF_vars(Handler) /\ WF_vars(WorkerStep) /\ WF_vars(SessionCommand) /\ WF_vars(SessionUpdate)

Spec == Init /\ [][Next]_vars /\ Fairness

------------------------------------------------------------------------------
(* Properties. *)

\* The types of the window's variables and of the client's.
WindowTypeOK ==
  /\ APITypeOK
  /\ cur_torrens_ \in Seq(Torrent)
  /\ currentRow \in 0..Len(cur_torrens_)
  /\ enabled \subseteq {"pause", "start", "delete"}
  /\ box \in BOOLEAN
  /\ updates \in 0..UPDATES
  /\ worker \in {"while", "ended"}
  /\ program_is_running \in BOOLEAN

\* The handles of the torrents that the session has and will not remove.
Kept == DOMAIN torrents \ {commands[i].handle : i \in {j \in DOMAIN commands : commands[j].op = "remove"}}

\* The handles that the names in the list are given.
Listed == {converter[n] : n \in {cur_torrens_[i].name_ : i \in DOMAIN cur_torrens_}}

Settled == ui.at \in {"event_loop", "update_statistic"}

\* The torrent of every row is in the session, and will not be removed
\* (gui/README.md:3): there is no row that neither downloads nor shares.
RowsAreServed == Settled => Listed \subseteq Kept

\* A torrent that was deleted does not come back: neither the session nor the
\* statuses have one that is not in the list, though updates about it may come
\* after it was deleted (Linker.cpp:8-9).
DeletedStaysDeleted == Settled => Kept \subseteq Listed /\ DOMAIN session_handles \subseteq Listed

\* A row says it is paused if and only if libtorrent will have paused the
\* torrent when it has done all it was asked to.
PausedAsShown ==
  Settled /\ commands = <<>> =>
    \A i \in DOMAIN cur_torrens_ :
       cur_torrens_[i].download_ <=> converter[cur_torrens_[i].name_] \in auto_managed

\* A row that is shown as finished is of a torrent that is.
FinishedIsTrue ==
  Settled => \A i \in DOMAIN cur_torrens_ :
               cur_torrens_[i].finished_ =>
                 /\ converter[cur_torrens_[i].name_] \in DOMAIN torrents
                 /\ torrents[converter[cur_torrens_[i].name_]].complete

\* Between handlers the buttons offer what can be done with the current row,
\* whatever was selected, deleted or finished since they were last set.
ButtonsMatchCurrentRow == ui = EventLoop => enabled = ButtonsFor(cur_torrens_, currentRow)

\* createDownload's wait ends, though each of its turns throws alerts away.
OpeningEnds == ui.at = "createDownload" ~> ui = EventLoop

\* The program ends when it is closed, at whatever point the worker is.
ClosingEnds == ui = Closing ~> ui = Closed

\* A download that is finished is shown so in the end, or deleted (the tests
\* wait for it: client/test/test.cpp:71-75).
FinishedIsShown ==
  \A h \in Handle :
    (h \in DOMAIN torrents /\ torrents[h].complete) ~>
      \/ h \notin DOMAIN torrents \/ ui \in {Closed, Terminated}
      \/ \E i \in DOMAIN cur_torrens_ : cur_torrens_[i].name_ = h[1] /\ cur_torrens_[i].finished_
==============================================================================
