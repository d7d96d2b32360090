# TorrentX: specifications and proofs

TLA+ models of this repository, checked with TLC, and theorems about them,
checked with TLAPS. Paths below are relative to the repository root.

The repository holds two programs that never link to each other:

* the **tracker** (`tracker/`), a UDP server that keeps a table of torrents and
  peers in memory;
* the **client** TorrentX: a Qt window (`gui/torrent_gui/`) on top of a thin layer
  (`client/`) over the library libtorrent, which does all the transfers and all
  the talking to trackers.

## 1. Inventory

### Tracker

| component | state | operations | hard behaviour | correct when |
|---|---|---|---|---|
| `TorrentDataBase` (`tracker/src/TorrentDataBase.cpp`) | `torrents_`: per info hash a ranked multiset of peers ordered by `peer_id` only, and three unsigned counters | `count_leechers`, `count_seeders`, `count_downloads`, `get_peer_list` (random selection with a loop), `update_peer_list` (NONE, COMPLETED, STARTED, STOPPED) | clients' events come in any order and number; counters are changed by other rules than the index; decrements without a test; narrowing to `int32_t`; a loop that ends only if the index holds enough distinct ids | one node per peer; counters account for the peers and mean what they are called; one download per stay; a repeated announce has no effect |
| `Server` (`tracker/src/UDP_server.cpp`) | `in_process` (atomic, static), the socket, the request and the response being handled | `start`, `receive_packet`, `parse_UDP_request`, `process_request`, four handlers, `make_UDP_response`, `send_packet` | truncated and malformed datagrams; a parser with early returns that leaves fields uninitialised; responses lost on the way; a buffer written without bounds | a response shows one state of the database, fits the packet, and answers the request it belongs to; refused requests change nothing |
| `main` and `sig_handler` (`tracker/src/main.cpp`) | - | SIGINT clears `in_process` | the signal may come between the test of the flag and `recvfrom` | the server ends after an interrupt |

The server is one thread; it calls the database directly, so a call is atomic. It
shares state with nothing but the signal handler. It talks to clients by UDP:
datagrams are lost, repeated and reordered by the network, never by the code.

### Client

| component | state | operations | hard behaviour | correct when |
|---|---|---|---|---|
| `FilesPicker`, `TorrentAPI::pickDownloadFiles`, `InfoHelper::dfs` (`client/source/TorrentAPI.cpp:28-166`, `InfoHelper.cpp:47-68`) | `download_holder`, the nodes of a torrent's tree with their levels and marks | build the tree, `setMark` with its cascade, `getMarks`, hand priorities to libtorrent | the tree exists only as levels in a list; two cascades; node numbers against file numbers; marks that are set again after a restart | a directory is marked iff its files are; the marked files are the ones downloaded; a restart keeps the choice |
| `TorrentAPI`, `Linker` (`client/source/`) | `converter` (file name to handle), `session_handles` (handle to last status), `params_` | `createDownload` (busy-waits for its alert), `removeDownload`, `pauseDownload`, `resumeDownload`, `getInfo`, `takeUpdates`, `makeTorrent` | libtorrent's thread posts alerts at any time; updates are filtered and thrown away; `operator[]` inserts what is missing | every row has a live handle; what is shown becomes true in the end |
| `MainWindow`, `Worker` (`gui/torrent_gui/mainwindow.cpp`) | rows `cur_torrens_`, which buttons are enabled | open, create, delete, pause, start, `update_statistic` every 400 ms from a worker thread's signal | nested event loops of dialogs; two rows of one torrent; ending the worker | rows, list items and session describe the same torrents |
| `TorrentX.json` (`mainwindow.cpp:38-165`) | the rows with their marks, on disk | `check_database` and `read_database` in the constructor, `write_database` in the destructor | a crash loses the run, and a crash during the write leaves a part of a document; files out of reach are skipped; marks are set again one by one, each with its cascade | the next run begins with the choice that the last one ended with |
| `AddTorrentWindow`, `HandlerSignals` | check boxes | one click changes many boxes | - | the boxes show the marks |
| `MakeTorrentWindow` (`gui/torrent_gui/maketorrentwindow.cpp`), `TorrentAPI::makeTorrent` | source, trackers, save directory, name, `good_`, beside the fields of the window | choose, type, make, close; write the torrent file | a value is stored before it is checked and kept after the warning, a choice given up stores nothing as the path; the output stream is not tested, nor is there a test that the source has any data | what is written is what the window showed |
| `InfoHelper` getters (`client/source/InfoHelper.cpp`) | none | remaining time, percentage, size, name of a state | rounding; parts of a time that are left out when they are 0 | the parts add up; 100 means finished |

### External

libtorrent, Qt, the kernel's sockets, the clients of the tracker. They are modelled
only as far as the code above meets them, and marked `external` in `PROJECT.json`.

## 2. Modules

| module | models | runs |
|---|---|---|
| `PeerRegistry` | the promise of the database: sets of registered and counted peers, one download per stay | refined by `TorrentDataBase` |
| `TorrentDataBase` | the database, every branch and query | `database`, `seeds_miscounted` |
| `TrackerServer` (extends `TorrentDataBase`) | the server's thread, parser, handlers, packets and the signal | `server`, `server_stops`, `server_addresses` |
| `MCTrackerServer` | datagrams and endpoints for TLC | |
| `TrackerSystem` (extends `TorrentDataBase`) | the tracker composed with its clients and the network: requests that are lost, repeated or overtaken by later ones, lost responses, restarts of the tracker, clients that crash | `system` |
| `FilesPicker` | tree, marks, priorities, the window for adding a torrent | `picker_ungrouped` |
| `DownloadList` | the promise of `TorrentX.json`: the list of downloads lasts from run to run | refined by `TorrentXDatabase` |
| `TorrentXDatabase` (extends `FilesPicker`) | the file, the start, the end and crashes of the program | `picker` |
| `MCFilesPicker`, `MCTorrentXDatabase` | torrents for TLC, and the code's recursion beside the closed form of `dfs` | |
| `TorrentAPI` | `Linker` and `TorrentAPI` over libtorrent's session, its thread, its queue of alerts | through `MainWindow` |
| `MainWindow` (extends `TorrentAPI`) | rows, buttons, the delete question, the updates of the screen, the worker's thread, the end of the program | `window`, `window_ends`, `window_rates` |
| `MCMainWindow` | the symmetry of the names, for TLC | |
| `MakeTorrentWindow` | the dialog for making a torrent and `makeTorrent` | `make` |
| `InfoHelper` | remaining time and percentage, as functions, with their theorems | TLAPS |
| `TorrentDataBase_proofs`, `TrackerServer_proofs`, `TrackerSystem_proofs`, `MainWindow_proofs`, `TorrentXDatabase_proofs`, `MakeTorrentWindow_proofs` | theorems about these modules | TLAPS |
| `Arithmetic` | lemmas about induction, recursion, quotient and remainder | TLAPS |

Some modules contain definitions whose comment begins with "Mutated:". They are not
part of any specification. Each is a plausible mistake in the definition that
follows it; putting it in that definition's place shows that a property can fail.

### How the state corresponds to the code

**TorrentDataBase.** `torrents_[h].all_peers[p]` is `equal_range` of a peer with id
`p` in the multi-index: a sequence, because `ranked_non_unique` would keep several
nodes with one id in insertion order. `find` returns the first of them and `erase` of the found iterator
removes it. Counters count modulo `SIZE_T`; `AsInt32` is the conversion in
the return of `count_*`, and of the number of peers before the minimum is taken in `get_peer_list` (`Limit`): from 2^31
peers on it is negative, and the list is empty. `left` is 0 or not 0, all that the code asks of it.
`get_peer_list` is the set of lists the random loop may end with; it is empty
exactly when the loop cannot end.

**TrackerServer.** `pc` is the place of the thread in `start()`. `CheckFlag`,
`CallRecvfrom` and `Receive` are separate steps, since the signal may come between
them. `parse_UDP_request` yields a *set* of requests: a field that the parser did
not reach is uninitialised in the code and has any value here (`Actions`,
`TransactionIds`, `NumWants`). A datagram is a record of what its bytes spell plus its
true size. `process_request` keeps the code's order: an error response is prepared
first and overwritten by the branch of the action. `store_value` is the conversion
to big-endian bytes, applied to the memory bytes of an address, which are in network
order already.

**TrackerSystem.** `Serve` is `handle_announce` with the database's own
`update_peer_list`, as one step: the server has one thread. The rest is external. A client has one
request open, with a transaction id, which it sends again (`Send`) until the response with that id
comes; `requests[p]` are its datagrams under way in the order in which they were sent, `responses[p]` the ids of the responses
under way to it. Those that it would ignore are dropped at once. The network delivers any request under way next (`Serve`), or loses
it. A client that crashed does not come back: its peer id was drawn for that run. `Restart` empties the table, as nothing is on disk.
Two things are there for the properties only. `known` are the clients that joined since the tracker was started. `late[p]` are the events that came
after a request that `p` had sent later (a request is marked `overtaken` when a later one comes first), since the last STOPPED that was not
late itself: it tells which histories the code cannot cope with, and nothing in the model depends on it.

**FilesPicker.** The array of sets of `pickDownloadFiles` is a tree of paths; its depth-first
order by number is `dfs`. The order is given by `Before`, which compares two vertices where their paths part,
and not by recursion, so that it can be reasoned about; likewise `file_priorities` takes the leaf that
brings the loop's counter `current_file` to `k`. That the closed form is what the recursion of `InfoHelper::dfs`
computes, TLC checks for every torrent of up to three files, three parts deep, in any order
(`ClosedForm` in `MCTorrentXDatabase`, evaluated by the run `picker`).
`setMark` climbs to the front as the code's second loop does, `Ancestor` being the nodes at which `picked_level` falls.
Torrents are as libtorrent has them (`FilesAssumption`): at least one file, no path empty, no file that is
a directory of another or the same, and room for all vertices in the array.

**TorrentXDatabase.** `database` is the file: absent, a whole document with the marks
of each row, or torn. `BeginWrite` is the opening for writing, which empties it, and
`write_database` the rest of the destructor; `Crash` may come between them, or at any
other time. `Start` is the constructor: `reached` are the torrents whose torrent file and
folder exist, the others are skipped, and `restore` is the loop of `setMark` on a
fresh tree. A torrent that is in the list is not opened again here (two rows of one torrent
are `MainWindow`'s), and torrent files do not change between two runs.

**TorrentAPI.** Maps of the code are functions over the keys present, and `Put` is the assignment by `operator[]`.
`takeUpdates` goes through the alerts one by one; `KnownAfter` is the map of statuses when it has passed a number of them. `torrents`,
`auto_managed` and `changed` are the session; `commands` are the asynchronous calls that
its thread does in order, `posts` the calls of `post_torrent_updates`, `alerts` what
`pop_alerts` will find. A `Handle` tells a torrent from an earlier one of the same
file, removed since, for which updates may still be on their way. `getInfo`,
`pauseDownload` and the others begin with `takeUpdates` (`PopAlerts` and `Updated`), as in the code.
One step of the program's thread runs from one look at the alerts to the next, and
libtorrent acts in between.

**MainWindow.** `ui` is what the window's thread does. `update_statistic` is a step
per row, `createDownload` a step per turn of its loop. `box` is open while the question of
the delete button runs its nested loop, in which `BeginUpdate` may run and clicks may
not. `AnswerDelete` keeps Qt's order: `takeItem` moves the current row, and with it
the buttons, while the row removed is still in `cur_torrens_`. `Terminated` is what
an exception out of a slot does: a call on the handle of a torrent that is gone, in `pauseDownload` and in `removeDownload`,
which asks the session to remove what is not there (`RemoveThrows`). Only a torrent that is listed twice meets either. An addition that
fails is left out: libtorrent posts the alert with an error, which `createDownload` does not look at (`client/source/TorrentAPI.cpp:149-152`).

**MakeTorrentWindow.** `stored` are the window's members, `shown` its fields. The dialogs and
warnings are modal, so a slot is one step. `Evaluate` is what the main window does after
the dialog: `makeTorrent` if `good_` is set, which writes nothing if the folder cannot be written. `generate` is what libtorrent makes of
the source: for a folder that is empty or cannot be read there is nothing to describe, and the file has no source and no trackers (`Shareable` are the paths with data).
`Readable` are those that the window accepts. The hashes of the pieces are left out of the model, as the code leaves them out of the file: it never
calls `set_piece_hashes` (`client/source/TorrentAPI.cpp:271-282`).

**InfoHelper.** `endTime` takes days, hours and minutes from the rest one after the other,
skipping a division whose result is 0, as the code does.

## 3. Checks

| run | expects | shows |
|---|---|---|
| `database` | pass | four peers, each event at any time, repeated or missing: one node per peer (`OneNodePerPeer`), the selection loop can end (`SelectionEnds`), `leechers + seeders` accounts for every peer even across wrap-around (`CountsAddUp`), repeating an announce changes nothing (`RepeatedAnnounceIsHarmless`), and the registry is implemented (`ImplementsRegistry`) |
| `seeds_miscounted` | violation | with a peer that starts complete the counters are not what they are called (`CountsMatchRoles`): it joins as a seeder and leaves as a leecher |
| `server` | pass | every sequence of well-formed and malformed datagrams: the list has the length that `num_want` and the counts of the same response call for (`ListAgreesWithCounts`), a scrape's entries stand by their hashes (`ScrapeAccountsForPeers`), a packet fits (`ResponseFits`), refused requests leave the table alone (`RefusedChangesNothing`), and a request that the parser did not abandon neither ends the server nor gets a response that its sender cannot match (`WellFormedIsAnswered`) |
| `server_stops` | pass | an interrupt plus one datagram end the server (`OneMoreDatagramStops`) |
| `server_addresses` | violation | addresses leave a little-endian host with their bytes reversed |
| `system` | pass | a client whose requests are lost, repeated and overtake each other, with restarts of the tracker and crashes: if it was answered it is in the table, with or without the file as it has it (`AcknowledgedIsListed`), at the address of its present stay (`ListedAddressIsCurrent`); once its leaving was answered it is not (`LeftIsForgotten`); each but for the late events listed below; the counters count the peers with and without the file (`CountsMatchRoles`, if none joins with nothing left); and every request is answered in the end (`RequestsEnd`) |
| `picker` | pass | any clicks, ends and crashes at any point, torrents out of reach at a start: `LevelsEncodeTree`, `DirectoryMarkedIffFilesAre`, `MarkedFilesAreWanted`, and the list of downloads lasts from run to run (`ImplementsDownloadList`) |
| `picker_ungrouped` | violation | depth-first order taken for file order: other files than the marked ones are downloaded |
| `window` | pass | two torrents opened, selected, paused, started and deleted: every row's torrent is in the session (`RowsAreServed`), what was deleted stays so though updates about it may still come (`DeletedStaysDeleted`), rows say truly what is paused and finished (`PausedAsShown`, `FinishedIsTrue`), buttons fit the current row (`ButtonsMatchCurrentRow`) |
| `window_ends` | pass | one torrent, listed once or twice: the wait of `createDownload` ends (`OpeningEnds`), so does the program when closed (`ClosingEnds`), and a finished torrent is shown as finished (`FinishedIsShown`) as long as every update has a rate |
| `window_rates` | violation | updates with rate 0 are skipped (`Linker.cpp:6`): a torrent that is complete at rate 0 is never shown as finished |
| `make` | pass | paths accepted, refused or given up in any order, tries that were refused before: what is written is what the window showed (`WrittenAsShown`), except for a source that the window warned of, stored before the check (`maketorrentwindow.cpp:53-63`); and it is empty only for such a source or one without data |

What the system's run does not show, since it does not hold. When UDP lets requests of one client overtake each other:

* a STARTED that comes after the STOPPED that followed it registers a client that has left, and `LeftIsForgotten` fails; if
  the client joins again, from another address, its node has the old one, and `ListedAddressIsCurrent` fails too
  (`TorrentDataBase.cpp:74-80`);
* a STOPPED of an earlier stay takes away the node of the present one, so that an acknowledged client is not listed, until it
  joins again (`AcknowledgedIsListed`, `TorrentDataBase.cpp:83-92`);
* a COMPLETED of an earlier stay makes a client that has not got the file count as one that has it, and a late STARTED or STOPPED may leave a node
  with the wrong role as well (the second part of `AcknowledgedIsListed`).

The properties except these events (`late`), and hold in every other order. The tracker cannot tell such an announce from one that is
in time, as nothing in it grows from one to the next. And in any order:

* a client that joined before the tracker was started again is not in the table: its
  periodic announces carry NONE, which registers nobody (`TorrentDataBase.cpp:51-53`);
* a client that moves within a stay is listed at its old address: the node of a known
  peer is kept as it is (`TorrentDataBase.cpp:74`);
* a client that crashed is not forgotten: nothing removes a node but STOPPED.

What the server's run does not show: that a request which the parser abandoned is answered by an error. It is dispatched by its action all the same
(`UDP_server.cpp:90-101`): a scrape with part of a hash gets an empty SCRAPE, an announce with an unknown event an ANNOUNCE, and an announce
too short for its hash reads from an empty vector, which ends the server in the model. A well-formed request of the action ERROR, which
clients do not send, is answered by the value-initialised response, a CONNECT of all zeros.

What the window's runs do not show, since it does not hold: `RowsAreServed` when a torrent is
listed twice (deleting one row removes the torrent of both, and pausing or deleting the other
throws); and `FinishedIsShown` with two torrents (the update that says finished may be
among the alerts that `createDownload` throws away while it adds the other).

**Bounds.** *Database*: four peers, since a list limit of two (`MAX_ANNOUNCE_PEERS`)
and a default of one must differ from the number of peers, and the number of peers must be one that turns negative when it is narrowed
(`INT32` is 8, so that 4 becomes -4, as 2^31 does in the code); `SIZE_T` is 8, so that every counter wraps, in both directions. The
events of different torrents do not meet in the code, so one hash is enough where the
properties speak of one torrent (40,000 states). *Server*: the same four peers, of which two that only start are interchangeable (6 million states);
the real request sizes; `PACKET_SIZE` is 104 and a peer takes 40 bytes in a response, so that a third peer would not fit just as
a 168th would not fit in the code. `QUEUE` bounds the datagrams waiting: one is
enough for safety, as their order is free. The datagrams: each event, an address change, scrapes of
one and two hashes, and each kind of malformed datagram at the boundary of its length. `server_stops` has two
peers: whether the thread sees the flag does not depend on what is in the table (422,000 states).
*System*: one client with two addresses, as clients share the counters and nothing else, and a counter changes by the client's own
node only (the proofs hold for any number of clients); `CHANNEL` bounds the requests under way, and with two of them
one of an earlier stay and one of the present are on their way together, so every pair may arrive in either order;
all three faults at any time (154,000 states). *Picker*: a torrent of five files with directories in
three levels, files before and between them, and one of a single file, so that a restart may skip one and restore the
other; the bound of `MAX_FILES` is an assumption, as more is undefined behaviour in
the code. *Window*: with two torrents a deletion has a neighbour and an update can be
about another torrent than the one handled; rows, calls that wait (`COMMANDS`, `POSTS`) and signals
(`UPDATES`) are bounded by one or two each, and since all of them are drained again, the sequences
are unbounded. A rate is 0 or not; `RATES` says which ones the swarm gives. `window` uses the symmetry
of the names, the runs of liveness do not. *Make*: two files and two folders, one of each refused and the folders without data, so that a value may
be replaced by a good one, a bad one, an empty one and none; two lines of trackers, so that an empty one stands before or
after a full one.

**Fairness.** `TrackerServer` assumes that the thread goes on running (`WF` of its own
steps, each always enabled until taken) and that `recvfrom` does not fail for ever
while datagrams wait (`SF` of `Receive`, because a spurious failure disables it in between).
Nothing is assumed of the network, of the senders or of the user: without another
datagram the server may stay in `recvfrom` after an interrupt that came between the
test of the flag and the call, and that is why `OneMoreDatagramStops` asks for one.

`TrackerSystem` assumes that a client goes on sending its open request (`WF` of `Send` while it waits
for an answer; no fairness of the periodic announce, of the user, or of faults), and that of datagrams sent again
and again some arrive (`SF` of `Serve` and `Receive`, since a loss disables them).

`MainWindow` assumes that the three threads run: the event loop takes what waits (`Handler`), the worker
goes round its loop, and libtorrent's thread does the calls in its queue and posts the updates asked for, each with `WF`,
as the queue is served in order. Nothing is assumed of the user's clicks or of the swarm (`Download`).

**Deadlock** is checked except in the runs of the server and of the window, which really end. The other
modules have properties of safety only, and no fairness.

## 4. Proofs

### Database (`TorrentDataBase_proofs`)

For all finite sets of peers, any torrents and addresses, any counter width that can
count the peers:

* `TypeCorrect`, `OneNodeAlways`, `CountsAddUpAlways` - from one inductive invariant
  `DBInv == TypeOK /\ OneNodePerPeer /\ CountsAddUp`. None of the last two is inductive alone: that
  `stopped` lowers the number of nodes by one while it lowers one counter needs the node to be the
  only one, and that the wrapped sum is again one of two values needs the range of the counters.
* `SelectionAlwaysEnds` - from `DBInv`: as many distinct peers as nodes, so a set of the size that is asked for exists.
* `RepetitionHarmless` - from `DBInv`, branch by branch.
* `DatabaseImplementsRegistry` - every branch is a join, finish or leave of the mapped state, or a
  stutter; `OneNodePerPeer` is what makes erasing a node the same as leaving.
* `RolesMatch` - assuming `0 \notin LeftAtStart`, from `RolesInv`, which adds that no node of
  an uncompleted peer has `left = 0`. The run `seeds_miscounted` shows that the assumption is needed.

The assumptions are those named in `TorrentDataBase`: finitely many peers, fewer than a
counter can count, a positive width, and a default and a maximum of the list that an `int32_t` holds (`ListAssumption`). Lemmas relate the cardinality of the nodes to
insertion and erasure.

### Server (`TrackerServer_proofs`)

For any set of datagrams, of any sizes, whose fields agree with their length
(`DatagramAssumption`), and any sizes of packets under which the longest list fits (`SizeAssumption`):

* `ServerTypeCorrect`, `ResponsesFit` - from `ServerInv == DBInv /\ ServerTypeOK /\ (RequestOK while
  a request is processed) /\ ResponseFits`. That a response fits needs the bound on the list, which
  the database gives, and the bound on the hashes, which the *parser* gives two steps
  earlier (a datagram is cut at `PACKET_SIZE`): `RequestOK` carries it from there.
* `RefusedRequestsChangeNothing` - the error response does not stop the dispatch, so the proof goes through the
  handlers that a malformed request reaches.
* `ScrapesAccountForPeers` - assuming `SIZE_T % INT32 = 0` (2^64 and 2^32 are so): from `CountsAddUp`, and that
  narrowing changes a number by a multiple of `INT32`.
* `ListsAgreeWithCounts` - assuming the same, and nothing of the number of peers: the counts of a response add up to the number of
  peers modulo `INT32`, and `Limit` narrows both sums alike, so the list is empty in the same cases; the invariant `AllKeyed` says
  that a node stands under its own id, so that a list of nodes is as long as the number of peers on it.
* `WellFormedRequestsAreAnswered` - a request without an error message has what its action needs (`Complete`): that the hash of an announce is there
  follows from the parser's lengths two steps earlier.

### Tracker and clients (`TrackerSystem_proofs`)

For any number of clients, addresses and requests under way, which arrive in any order, with all faults:

* `SystemTypeCorrect`, `LeaversAreForgotten`, `AcknowledgedAreListed`, `AddressesAreCurrent` - from
  `SystemInv == DBInv /\ SystemTypeOK /\ PeersOK`. `PeersOK` says of each client how its state, its requests under way,
  the responses to it, the late events and its node in the table fit together: the open request was sent after all others (`InOrder`),
  is not overtaken, and speaks of the client as it is (`Speaks`); after a STOPPED was answered every STARTED under way is overtaken (`Forgotten`);
  what is not overtaken belongs to the present stay (`OfTheStay`); and unless an event came late there is no node before a STARTED is
  served (`Awaited`) and the right one after it (`InTable`).
  The heart of it is that a request of the present stay, when it comes, overtakes all that were sent before (`OthersOvertaken`), so that what
  comes of them later is in `late`. None of the properties is inductive without the requests under way.
* `SystemRolesMatch` - `RolesMatch` over the network, from `SystemInv` and that every STARTED
  under way has a `left` of `LeftAtStart` (`JoinsAsAssumed`).

### Choosing files and TorrentX.json (`TorrentXDatabase_proofs`)

For any torrents that fit the array, any clicks, starts, ends and crashes:

* `DatabaseTypeCorrect`, `LevelsAreTheTree`, `DirectoriesShowTheirFiles` - from
  `DatabaseInv == HolderFits /\ WindowIsForNew /\ RowsFit /\ FileFits`. Its core is `Fitting(fs)`: the marks by which a directory is
  marked if and only if *all* below it is, directories included. The property that the user sees, which speaks of the files below
  only, is weaker and not inductive; it follows, since an unmarked directory has an unmarked node below it,
  and that one another, down to a file (`MarkedByFiles`). Marks fit in the holder, in the rows and in what the next run will read,
  and priorities are what the row's marks ask for (`Asked`).
* `WantedAsMarked`, `RestartsKeepDownloads` (the refinement of `DownloadList`) - assuming `Grouped`, that the files of every
  directory are next to each other, as in every torrent that libtorrent makes of a folder. The run `picker_ungrouped`
  shows that the assumption is needed: file number and place in the tree differ otherwise.

The argument, from the bottom:

1. *The order.* `Before` is a strict total order on the vertices (`BeforeIsTotal`, `BeforeIsTransitive`,
   `BeforeIsIrreflexive`), so node `i` is the vertex with `i - 1` before it (`Ranking`, `DfsIsInOrder`). What lies between a vertex and
   one below it is below it, too (`BelowIsConvex`), and so a node's subtree, found by levels, is what is below its path
   (`SubtreeIsBelow`). `Forest` says all that the rest needs of the tree.
2. *A click.* `setMarkMarks`, by induction over the nodes that the second loop passes: the node and what is below it take the
   mark, a directory above it is marked if and only if the mark was set and it was marked or all below it is by then, and no other
   node changes. From this `setMarkFits`: marks that fit go on fitting.
3. *A restart.* `RestoredMarks`, by induction over the list of marks: setting marks that fit one by one, each with its cascade,
   gives the same marks again. Before the loop has passed a mark it may already be set by a directory in front of it, but no mark is ever
   set that is not in the list.
4. *The files.* The leaves are the files (`LeavesAreFiles`), and the loop counts them one by one (`LeavesAreCounted`). If files are
   grouped, they are in depth-first order (`FilesAreInOrder`), so leaf number `k` is file `k` (`LeavesAreInOrder`).

### Main window and session (`MainWindow_proofs`)

For any names, and any bounds on rows, calls, updates and rates:

* `WindowTypeCorrect`, `ButtonsAreForCurrentRow` - from `WindowInv`, with torrents listed any number of times. That the buttons
  fit the current row needs to know what they may show while the rows are being updated (`ButtonsInv`); that every row's name has an
  entry in `converter` needs the wait of `createDownload`: the call to add the torrent is the last of the queue or its answer is among the
  alerts, exactly while it waits (`AddInv`).
* `ListedAreServed`, `DeletedAreGone`, `RowsShowPauses`, `FinishedRowsAreComplete` - assuming `ROWS_PER_NAME = 1`, from `RowInv`: what the
  four say of a settled list does not survive a step by itself, since calls and alerts are under way. `RowInv` says of every row that its torrent is
  in the session, stays there when all calls under way are done, and will be paused or load as the row says (`OldRowsInv`); that the
  statuses kept are those of rows (`KnownInv`); that a torrent in the session is in the list, about to be removed or just added (`TorrentsInv`);
  and that a late update calls nothing finished that is not (`AlertsInv`). It also says that no handler throws.
  `takeUpdates` goes through any number of alerts: that it adds no status of a torrent it does not know is an induction over them.

With `ROWS_PER_NAME` above 1 the four are false (section 3): the assumption stands for the user not opening a torrent that is in the list already.

### Making a torrent (`MakeTorrentWindow_proofs`)

* `MakeTypeCorrect` - from `MakeInv`; that no empty line becomes a tracker is an induction over the lines of the field (`EnteredAreTrackers`).
* `WrittenTorrentsAreAsShown` - for any paths, texts and number of lines, and any choice of sources with data, from `MakeInv`: a path that is
  stored and not shown was refused (`StoredAsShown`), and a window that accepted holds what was typed last
  (`AcceptedAsTyped`). A folder that was refused is stored, too, but `makeTorrent` cannot
  write there; that is why the folder that is written to is the one shown, and the source need not be.

### Conversions (`InfoHelper`)

* `EndTimeAddsUp` - for any rest that is not negative and any speed but 0, days, hours, minutes and seconds are each
  below their limit and add up to the whole seconds of the rest.
* `FullOnlyAtTheEnd` - 100 is shown exactly when every part per million is there.

### Only model-checked

Liveness (`RequestsEnd`, `OneMoreDatagramStops`, `OpeningEnds`, `ClosingEnds`, `FinishedIsShown`):
the prover does neither fairness nor ENABLED. Every invariant, action property and refinement of the passing runs is proved, under
the assumptions named above. That the closed form of `dfs` agrees with the code's recursion is checked
for small torrents only, as said in section 2.

Induction over data is proved in the form that the prover can use: `Arithmetic` has `Induction` for membership of a *set* of numbers
(from a least element, by well-foundedness of the numbers), and `RecursionExists`, by which a function that is defined by recursion is what its
equations say. `setMark`, `restore`, `takeUpdates` and `Entered` are handled this way.

## 5. Plan

The parts of the system that keep state are modelled, and what is safety is proved. What is left:

1. a proof that the closed form of `dfs` is the recursion, by induction over the levels of the tree;
2. the window with a torrent listed twice: which parts of `RowInv` remain for the rows whose torrent is still there;
3. steps towards the liveness theorems that need no fairness: that each measure they rest on falls with every helpful step.

Not modelled:

* formatting (`InfoHelper::getState`, `parseSize`), widgets, labels and colours, the file manager: no state of the program;
* the parsing of the tracker's options, and its log;
* what `generate` makes of a source beyond whether it has data: lengths of pieces, and their hashes, which the code never sets;
* additions that libtorrent refuses (`client/source/TorrentAPI.cpp:149-152`);
* a torrent file that changed between two runs, and a torrent with more vertices than `MAX_FILES`: the code writes
  past the end of an array, which has no outcome to model;
* what libtorrent loads between the adding of a torrent and the last of its priorities, and the pause of a row over a
  restart, which is not written;
* a rest that is negative in `endTime` (`total_done` counts files that are not wanted): shown as it is, nothing depends on it;
* a client's move within a stay: what fails then is listed in section 3.
