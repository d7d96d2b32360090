------------------------------ MODULE TorrentAPI ------------------------------
(***************************************************************************)
(* client/source/TorrentAPI.cpp and Linker.cpp: what the program knows of  *)
(* the torrents in its libtorrent session, which runs in a thread of its   *)
(* own and speaks through a queue of alerts.                               *)
(*                                                                         *)
(* A map of the code is a function whose domain is the keys present.  A    *)
(* torrent_handle is the name of the torrent file with a number that tells *)
(* a torrent from an earlier one of the same name, removed since.  Of a    *)
(* status, complete stands for 100 percent of what is wanted, and a rate   *)
(* is 0 or, for any other, 1.  Left out: current_handles, which nothing    *)
(* reads (removeDownload looks in it for a pointer it has just made); the  *)
(* files picked, which FilesPicker models; makeTorrent; a torrent that     *)
(* libtorrent cannot add, whose alert createDownload takes all the same.   *)
(***************************************************************************)
EXTENDS Integers, SequencesExt

CONSTANTS
  Name,   \* the torrent files, each of another torrent
  POSTS,  \* bound: requests for updates that wait for libtorrent's thread
  RATES   \* the rates of download that the swarm gives: 0, or 1 for any other

ASSUME PostsAssumption == POSTS \in Nat
ASSUME RatesAssumption == RATES \subseteq {0, 1}

VARIABLES
  torrents,         \* the torrents of the session, with their status
  auto_managed,     \* those of them that the program has not paused
  changed,          \* those whose status changed since the last update
  commands,         \* asynchronous calls that libtorrent's thread has not done
  posts,            \* calls of post_torrent_updates that it has not done
  alerts,           \* the alerts that wait to be popped
  converter,        \* the handle of each name
  session_handles   \* the last status known of each handle

session == <<torrents, auto_managed, changed>>
queues  == <<commands, posts, alerts>>
linker_ == <<converter, session_handles>>

Handle == Name \X {0, 1}
Status == [complete: BOOLEAN, download_rate: {0, 1}]

\* The status of a new torrent, and the default torrent_status.
NewStatus == [complete |-> FALSE, download_rate |-> 0]

Command == [op: {"add", "remove", "pause", "resume"}, handle: Handle]
Alert   == [type: {"add_torrent"}, handle: Handle]
             \cup [type: {"state_update"}, status: UNION {[S -> Status] : S \in SUBSET Handle}]

\* The map with the value stored under the key: m[key] = value.
Put(m, key, value) == [k \in DOMAIN m \cup {key} |-> IF k = key THEN value ELSE m[k]]

APIInit ==
  /\ torrents = <<>> /\ auto_managed = {} /\ changed = {}
  /\ commands = <<>> /\ posts = 0 /\ alerts = <<>>
  /\ converter = <<>> /\ session_handles = <<>>

------------------------------------------------------------------------------
(* The session, as far as the program meets it. *)

\* A handle of the name, other than the one the name had before.
NewHandle(name) ==
  IF name \in DOMAIN converter /\ converter[name][2] = 0 THEN <<name, 1>> ELSE <<name, 0>>

\* A torrent that is in the session already is not added again, but the alert
\* comes all the same, with its handle.
AddTorrent(name) ==
  LET present == {h \in DOMAIN torrents : h[1] = name}
      handle  == IF present # {} THEN CHOOSE h \in present : TRUE ELSE NewHandle(name)
  IN  /\ torrents' = IF present # {} THEN torrents ELSE Put(torrents, handle, NewStatus)
      /\ auto_managed' = IF present # {} THEN auto_managed ELSE auto_managed \cup {handle}
      /\ changed' = changed \cup {handle}
      /\ alerts' = Append(alerts, [type |-> "add_torrent", handle |-> handle])

RemoveTorrent(h) ==
  /\ torrents' = Restrict(torrents, DOMAIN torrents \ {h})
  /\ auto_managed' = auto_managed \ {h}
  /\ changed' = changed \ {h}
  /\ UNCHANGED alerts

SetPaused(h, paused) ==
  /\ auto_managed' = IF paused THEN auto_managed \ {h}
                     ELSE auto_managed \cup ({h} \cap DOMAIN torrents)
  /\ changed' = changed \cup ({h} \cap DOMAIN torrents)
  /\ UNCHANGED <<torrents, alerts>>

\* libtorrent's thread does the next asynchronous call.
DoCommand ==
  /\ commands # <<>>
  /\ LET c == Head(commands)
     IN  \/ c.op = "add"    /\ AddTorrent(c.handle[1])
         \/ c.op = "remove" /\ RemoveTorrent(c.handle)
         \/ c.op = "pause"  /\ SetPaused(c.handle, TRUE)
         \/ c.op = "resume" /\ SetPaused(c.handle, FALSE)
  /\ commands' = Tail(commands)
  /\ UNCHANGED <<posts, linker_>>

\* An update tells of the torrents that changed since the last one.  The alert
\* about none, which takeUpdates skips, is left out.
PostUpdates ==
  /\ posts > 0
  /\ posts' = posts - 1
  /\ alerts' = IF changed = {} THEN alerts
               ELSE Append(alerts, [type |-> "state_update", status |-> Restrict(torrents, changed)])
  /\ changed' = {}
  /\ UNCHANGED <<torrents, auto_managed, commands, linker_>>

\* A download goes on: what is complete stays so and loads no more, so that its
\* rate can only fall.
Progress ==
  /\ \E h \in DOMAIN torrents, s \in [complete: BOOLEAN, download_rate: RATES] :
       /\ s # torrents[h]
       /\ torrents[h].complete => s.complete /\ s.download_rate <= torrents[h].download_rate
       /\ torrents' = [torrents EXCEPT ![h] = s]
       /\ changed' = changed \cup {h}
  /\ UNCHANGED <<auto_managed, queues, linker_>>

------------------------------------------------------------------------------
(* Linker and TorrentAPI.  An operation of the program is one step of its    *)
(* thread; the session's thread acts between the steps.                      *)

\* Mutated: an update is kept even if its handle was removed.
updateTorrents_any(known, statuses) ==
  [h \in DOMAIN known \cup {g \in DOMAIN statuses : statuses[g].download_rate # 0} |->
     IF h \in DOMAIN statuses /\ statuses[h].download_rate # 0 THEN statuses[h] ELSE known[h]]

updateTorrents(known, statuses) ==
  [h \in DOMAIN known |->
     IF h \in DOMAIN statuses /\ statuses[h].download_rate # 0 THEN statuses[h] ELSE known[h]]

\* Mutated: the next update is not asked for.
PopAlerts_unasked ==
  /\ alerts' = <<>>
  /\ UNCHANGED posts

\* pop_alerts and post_torrent_updates, which every loop over the alerts follows.
PopAlerts ==
  /\ alerts' = <<>>
  /\ posts' = Min({posts + 1, POSTS})

\* takeUpdates: what is known after the first i alerts.
KnownAfter[i \in 0..Len(alerts)] ==
  IF i = 0 THEN session_handles
  ELSE IF alerts[i].type = "state_update" THEN updateTorrents(KnownAfter[i - 1], alerts[i].status)
  ELSE KnownAfter[i - 1]

Updated == KnownAfter[Len(alerts)]

\* Mutated: only the first alert is looked at.
added_first == {i \in {1} \cap DOMAIN alerts : alerts[i].type = "add_torrent"}

\* The alerts that createDownload waits for.
added == {i \in DOMAIN alerts : alerts[i].type = "add_torrent"}

async_add_torrent(name) == commands' = Append(commands, [op |-> "add", handle |-> <<name, 0>>])

\* One turn of createDownload's loop that finds the alert; and one that does
\* not.  All other alerts are dropped in both.
AddAlert(name) ==
  /\ \E i \in added :
       /\ \A j \in added : i <= j
       /\ converter' = Put(converter, name, alerts[i].handle)
       /\ session_handles' = Put(session_handles, alerts[i].handle, torrents[alerts[i].handle])
  /\ PopAlerts
  /\ UNCHANGED <<session, commands>>

NoAddAlert ==
  /\ added = {}
  /\ PopAlerts
  /\ UNCHANGED <<session, commands, linker_>>

\* What a name that has no handle any more is shown with: operator[] inserts
\* the default status.
Inserted(known, h) == IF h \in DOMAIN known THEN known ELSE Put(known, h, NewStatus)

getInfo(name) ==
  /\ PopAlerts
  /\ session_handles' = Inserted(Updated, converter[name])
  /\ UNCHANGED <<session, commands, converter>>

\* pause, unset_flags and set_flags throw if the torrent is gone.
HandleIsValid(name) == converter[name] \in DOMAIN torrents

pauseDownload(name, op) ==
  /\ PopAlerts
  /\ commands' = IF HandleIsValid(name)
                 THEN Append(commands, [op |-> op, handle |-> converter[name]]) ELSE commands
  /\ session_handles' = Updated
  /\ UNCHANGED <<session, converter>>

\* remove_torrent throws if the torrent is gone, as it may be for a second row of
\* its name: getInfo inserted the handle again that the first removed.
RemoveThrows(name) == converter[name] \in DOMAIN Updated /\ ~HandleIsValid(name)

removeDownload(name) ==
  LET handle == converter[name]
  IN  /\ PopAlerts
      /\ commands' = IF handle \in DOMAIN Updated /\ HandleIsValid(name)
                     THEN Append(commands, [op |-> "remove", handle |-> handle]) ELSE commands
      /\ session_handles' = Restrict(Updated, DOMAIN Updated \ {handle})
      /\ UNCHANGED <<session, converter>>

------------------------------------------------------------------------------
APITypeOK ==
  /\ DOMAIN torrents \subseteq Handle /\ \A h \in DOMAIN torrents : torrents[h] \in Status
  /\ auto_managed \subseteq DOMAIN torrents
  /\ changed \subseteq DOMAIN torrents
  /\ commands \in Seq(Command)
  /\ posts \in 0..POSTS
  /\ alerts \in Seq(Alert)
  /\ DOMAIN converter \subseteq Name /\ \A n \in DOMAIN converter : converter[n] \in Handle
  /\ DOMAIN session_handles \subseteq Handle
  /\ \A h \in DOMAIN session_handles : session_handles[h] \in Status
==============================================================================
