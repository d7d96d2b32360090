----------------------------- MODULE DownloadList -----------------------------
(***************************************************************************)
(* What the user of the program may count on: the list of downloads, each  *)
(* with the files that are wanted of it, lasts from one run of the program *)
(* to the next if the program ends by itself.  A run that breaks off is    *)
(* forgotten, and one that breaks off while it is ending takes what was    *)
(* saved before with it.                                                   *)
(***************************************************************************)
CONSTANTS
  Torrents,
  NotListed   \* what stands for a torrent that is not in the list

VARIABLES
  program,    \* "down", "running" or "ending"
  downloads,  \* the choice of files of each torrent that is being downloaded
  saved       \* the choices that the next run begins with

vars == <<program, downloads, saved>>

Nothing == [t \in Torrents |-> NotListed]

Init == program = "down" /\ downloads = Nothing /\ saved = Nothing

\* The program starts.  A torrent whose files are out of reach is left out.
Start(reached) ==
  /\ program = "down" /\ program' = "running"
  /\ downloads' = [t \in Torrents |-> IF t \in reached THEN saved[t] ELSE NotListed]
  /\ UNCHANGED saved

\* The user adds a torrent, or deletes one.
Change(t) ==
  /\ program = "running"
  /\ downloads[t] = NotListed \/ downloads'[t] = NotListed
  /\ downloads' = [downloads EXCEPT ![t] = downloads'[t]]
  /\ UNCHANGED <<program, saved>>

End == program = "running" /\ program' = "ending" /\ saved' = Nothing /\ UNCHANGED downloads

Ended == program = "ending" /\ program' = "down" /\ saved' = downloads /\ downloads' = Nothing

Crash == program # "down" /\ program' = "down" /\ downloads' = Nothing /\ UNCHANGED saved

Next ==
  \/ \E reached \in SUBSET Torrents : Start(reached)
  \/ \E t \in Torrents : Change(t)
  \/ End \/ Ended \/ Crash

Spec == Init /\ [][Next]_vars
==============================================================================
