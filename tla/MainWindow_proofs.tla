--------------------------- MODULE MainWindow_proofs ---------------------------
(***************************************************************************)
(* Proofs about the main window and the session behind it, for any number  *)
(* of torrents, calls and alerts that wait.                                *)
(***************************************************************************)
EXTENDS MainWindow, Arithmetic, SequenceTheorems, FiniteSetTheorems

(***************************************************************************)
(* Lemmas about the operators.                                             *)
(***************************************************************************)

LEMMA MinOfTwo ==
  ASSUME NEW a \in Int, NEW b \in Int
  PROVE  Min({a, b}) = IF a <= b THEN a ELSE b
  <1> DEFINE m == IF a <= b THEN a ELSE b
  <1>1. m \in {a, b} /\ \A y \in {a, b} : m <= y
    OBVIOUS
  <1>2. \A x \in {a, b} : (\A y \in {a, b} : x <= y) => x = m
    OBVIOUS
  <1> QED BY <1>1, <1>2 DEF Min

\* What an update of statuses keeps: the keys, and the type of the values.
Statuses(D) == [D -> Status] \cup {session_handles}

LEMMA UpdateKeepsKeys ==
  ASSUME APITypeOK, NEW known \in Statuses(DOMAIN session_handles), NEW statuses,
         \A h \in DOMAIN statuses : statuses[h] \in Status
  PROVE  /\ updateTorrents(known, statuses) \in Statuses(DOMAIN session_handles)
         /\ \A h \in DOMAIN session_handles :
              \/ updateTorrents(known, statuses)[h] = known[h]
              \/ h \in DOMAIN statuses /\ updateTorrents(known, statuses)[h] = statuses[h]
  <1>1. DOMAIN known = DOMAIN session_handles /\ \A h \in DOMAIN known : known[h] \in Status
    BY DEF Statuses, APITypeOK
  <1> QED BY <1>1 DEF updateTorrents, Statuses

\* An alert is of either kind.
LEMMA AlertKinds ==
  ASSUME NEW a \in Alert
  PROVE  \/ a.type = "add_torrent" /\ a.handle \in Handle
         \/ /\ a.type = "state_update" /\ DOMAIN a.status \subseteq Handle
            /\ \A h \in DOMAIN a.status : a.status[h] \in Status
  BY DEF Alert

\* takeUpdates keeps the keys, and a status that it changes was in an alert.
FromAlerts(h, status) ==
  \/ status = session_handles[h]
  \/ \E k \in DOMAIN alerts : /\ alerts[k].type = "state_update"
                              /\ h \in DOMAIN alerts[k].status
                              /\ status = alerts[k].status[h]

LEMMA UpdatedKeepsKeys ==
  ASSUME APITypeOK
  PROVE  /\ DOMAIN Updated = DOMAIN session_handles
         /\ \A h \in DOMAIN session_handles : Updated[h] \in Status /\ FromAlerts(h, Updated[h])
  <1> DEFINE n == Len(alerts)
             D == DOMAIN session_handles
             X == Statuses(D)
             taken(i, m) == IF alerts[i].type = "state_update" THEN updateTorrents(m, alerts[i].status) ELSE m
             step == [i \in 1..n |-> [m \in X |-> taken(i, m)]]
             K == KnownAfter
  <1>1. alerts \in Seq(Alert) /\ n \in Nat /\ \A i \in 1..n : alerts[i] \in Alert
    BY DEF APITypeOK
  <1>2. session_handles \in X
    BY DEF Statuses
  <1>3. \A i \in 1..n : \A m \in X : taken(i, m) \in X
    BY <1>1, AlertKinds, UpdateKeepsKeys
  <1>4. \A i \in 1..n : \A m \in X : \A h \in D :
          \/ taken(i, m)[h] = m[h]
          \/ /\ alerts[i].type = "state_update" /\ h \in DOMAIN alerts[i].status
             /\ taken(i, m)[h] = alerts[i].status[h]
    BY <1>1, AlertKinds, UpdateKeepsKeys
  <1>5. K = [i \in 0..n |-> IF i = 0 THEN session_handles ELSE taken(i, K[i - 1])]
    <2> HIDE DEF X
    <2>1. step \in [1..n -> [X -> X]]
      BY <1>3
    <2>2. \E f : f = [i \in 0..n |-> IF i = 0 THEN session_handles ELSE taken(i, f[i - 1])]
      <3>1. PICK f \in [0..n -> X] : Recursion(f, n, session_handles, step)
        <4>1. n \in Nat
          BY <1>1
        <4> HIDE DEF step, n
        <4> QED BY <4>1, <1>2, <2>1, RecursionExists
      <3>2. \A i \in 1..n : step[i][f[i - 1]] = taken(i, f[i - 1])
        <4> TAKE i \in 1..n
        <4>1. i - 1 \in 0..n /\ f[i - 1] \in X
          BY <1>1
        <4> HIDE DEF taken
        <4> QED BY <4>1
      <3> HIDE DEF taken, step
      <3>3. f = [i \in 0..n |-> IF i = 0 THEN session_handles ELSE taken(i, f[i - 1])]
        BY <1>1, <3>1, <3>2 DEF Recursion
      <3> QED BY <3>3
    <2>3. K = CHOOSE f : f = [i \in 0..n |-> IF i = 0 THEN session_handles ELSE taken(i, f[i - 1])]
      BY DEF KnownAfter
    <2> QED BY <2>2, <2>3
  <1> DEFINE G == {i \in Nat : i <= n => K[i] \in X /\ \A h \in D : FromAlerts(h, K[i][h])}
  <1>6. 0 \in G
    BY <1>1, <1>2, <1>5 DEF FromAlerts
  <1>7. ASSUME NEW i \in Nat, i \in G PROVE i + 1 \in G
    <2>1. SUFFICES ASSUME i + 1 <= n
                   PROVE  K[i + 1] \in X /\ \A h \in D : FromAlerts(h, K[i + 1][h])
      OBVIOUS
    <2>2. K[i] \in X /\ \A h \in D : FromAlerts(h, K[i][h])
      BY <1>1, <1>7, <2>1
    <2>3. K[i + 1] = taken(i + 1, K[i]) /\ i + 1 \in 1..n /\ i + 1 \in DOMAIN alerts
      <3>1. i + 1 \in 0..n /\ i + 1 # 0 /\ (i + 1) - 1 = i /\ i + 1 \in 1..n
        BY <1>1, <2>1
      <3> HIDE DEF taken, n, K
      <3>2. K[i + 1] = taken(i + 1, K[(i + 1) - 1])
        BY <1>5, <3>1
      <3> QED BY <1>1, <3>1, <3>2 DEF n
    <2> HIDE DEF taken, X, K
    <2>4. K[i + 1] \in X
      BY <1>3, <2>2, <2>3
    <2>5. ASSUME NEW h \in D PROVE FromAlerts(h, K[i + 1][h])
      <3>1. CASE K[i + 1][h] = K[i][h]
        BY <2>2, <3>1
      <3>2. CASE K[i + 1][h] # K[i][h]
        BY <1>4, <2>2, <2>3, <3>2 DEF FromAlerts
      <3> QED BY <3>1, <3>2
    <2> QED BY <2>4, <2>5
  <1>8. n \in G
    <2> HIDE DEF G
    <2> QED BY <1>1, <1>6, <1>7, Induction
  <1>9. Updated \in X /\ \A h \in D : FromAlerts(h, Updated[h])
    BY <1>1, <1>8 DEF Updated
  <1> QED BY <1>9 DEF Statuses, APITypeOK

(***************************************************************************)
(* What the steps of the session and of the linker do.                     *)
(***************************************************************************)

\* The handle of the name that the program uses.
Current(h) == h[1] \in DOMAIN converter /\ converter[h[1]] = h

LEMMA HandleIsPair == \A h \in Handle : h[1] \in Name /\ h = <<h[1], h[2]>>
  BY DEF Handle

LEMMA HandlesAreTyped ==
  ASSUME APITypeOK
  PROVE  /\ \A n \in DOMAIN converter : n \in Name /\ converter[n] \in Handle
         /\ \A k \in DOMAIN commands : commands[k] \in Command /\ commands[k].handle \in Handle
         /\ DOMAIN commands = 1..Len(commands) /\ Len(commands) \in Nat
         /\ DOMAIN alerts = 1..Len(alerts) /\ Len(alerts) \in Nat
  <1>1. commands \in Seq(Command) /\ alerts \in Seq(Alert)
    BY DEF APITypeOK
  <1>2. /\ DOMAIN commands = 1..Len(commands) /\ Len(commands) \in Nat
        /\ DOMAIN alerts = 1..Len(alerts) /\ Len(alerts) \in Nat
        /\ \A k \in DOMAIN commands : commands[k] \in Command
    BY <1>1
  <1>3. \A c \in Command : c.handle \in Handle
    BY DEF Command
  <1> QED BY <1>2, <1>3 DEF APITypeOK

\* A torrent of the name is in the session already, or a new handle is made,
\* other than the one the program has for the name.
AddedAs(h, name) ==
  /\ h \in Handle /\ h[1] = name
  /\ \/ /\ h \in DOMAIN torrents
        /\ UNCHANGED <<torrents, auto_managed>>
     \/ /\ ~Current(h) /\ \A g \in DOMAIN torrents : g[1] # name
        /\ torrents' = Put(torrents, h, NewStatus)
        /\ auto_managed' = auto_managed \cup {h}
  /\ changed' = changed \cup {h}
  /\ alerts' = Append(alerts, [type |-> "add_torrent", handle |-> h])

LEMMA AddTorrentEffect ==
  ASSUME APITypeOK, NEW name \in Name, AddTorrent(name)
  PROVE  \E h : AddedAs(h, name)
  <1> DEFINE present == {h \in DOMAIN torrents : h[1] = name}
             h == IF present # {} THEN CHOOSE g \in present : TRUE ELSE NewHandle(name)
  <1>1. CASE present # {}
    <2>1. h \in present
      BY <1>1
    <2>2. h \in Handle /\ h[1] = name /\ h \in DOMAIN torrents
      BY <2>1 DEF APITypeOK
    <2> QED BY <1>1, <2>2 DEF AddTorrent, AddedAs
  <1>2. CASE present = {}
    <2>1. h = NewHandle(name)
      BY <1>2
    <2>2. h \in Handle /\ h[1] = name /\ ~Current(h)
      <3>1. CASE name \in DOMAIN converter /\ converter[name][2] = 0
        <4>1. h = <<name, 1>>
          BY <2>1, <3>1 DEF NewHandle
        <4> QED BY <3>1, <4>1 DEF Handle, Current
      <3>2. CASE ~(name \in DOMAIN converter /\ converter[name][2] = 0)
        <4>1. h = <<name, 0>>
          BY <2>1, <3>2 DEF NewHandle
        <4>2. h \in Handle /\ h[1] = name /\ h[2] = 0
          BY <4>1 DEF Handle
        <4> HIDE DEF h
        <4> QED BY <3>2, <4>2 DEF Current
      <3> QED BY <3>1, <3>2
    <2>3. /\ torrents' = Put(torrents, h, NewStatus)
          /\ auto_managed' = auto_managed \cup {h}
          /\ changed' = changed \cup {h}
          /\ alerts' = Append(alerts, [type |-> "add_torrent", handle |-> h])
      BY <1>2, <2>1 DEF AddTorrent
    <2> HIDE DEF h
    <2> QED BY <1>2, <2>2, <2>3 DEF AddedAs
  <1> QED BY <1>1, <1>2

LEMMA PutKeepsOthers ==
  ASSUME NEW m, NEW key, NEW value
  PROVE  /\ DOMAIN Put(m, key, value) = DOMAIN m \cup {key}
         /\ Put(m, key, value)[key] = value
         /\ \A k \in DOMAIN m : k # key => Put(m, key, value)[k] = m[k]
  BY DEF Put

LEMMA PutIsTyped ==
  ASSUME NEW K, NEW V, NEW m, DOMAIN m \subseteq K, \A k \in DOMAIN m : m[k] \in V,
         NEW key \in K, NEW value \in V
  PROVE  /\ DOMAIN Put(m, key, value) \subseteq K
         /\ \A k \in DOMAIN Put(m, key, value) : Put(m, key, value)[k] \in V
  BY DEF Put

LEMMA NewStatusIsTyped == NewStatus \in Status /\ ~NewStatus.complete
  BY DEF NewStatus, Status

LEMMA AlertIsTyped ==
  /\ \A h \in Handle : [type |-> "add_torrent", handle |-> h] \in Alert
  /\ \A S \in SUBSET Handle : \A f \in [S -> Status] : [type |-> "state_update", status |-> f] \in Alert
  <1>1. ASSUME NEW S \in SUBSET Handle, NEW f \in [S -> Status]
        PROVE  [type |-> "state_update", status |-> f] \in Alert
    <2>1. f \in UNION {[T -> Status] : T \in SUBSET Handle}
      OBVIOUS
    <2> QED BY <2>1 DEF Alert
  <1> QED BY <1>1 DEF Alert

LEMMA PopAlertsTyped ==
  ASSUME APITypeOK, PopAlerts
  PROVE  alerts' = <<>> /\ alerts' \in Seq(Alert) /\ posts' \in 0..POSTS
  <1>1. posts' = IF posts + 1 <= POSTS THEN posts + 1 ELSE POSTS
    <2>1. posts + 1 \in Int /\ POSTS \in Int
      BY PostsAssumption DEF APITypeOK
    <2> QED BY <2>1, MinOfTwo DEF PopAlerts
  <1> QED BY <1>1, PostsAssumption DEF PopAlerts, APITypeOK

LEMMA CommandsAreTyped ==
  ASSUME APITypeOK, NEW op \in {"add", "remove", "pause", "resume"}, NEW h \in Handle
  PROVE  Append(commands, [op |-> op, handle |-> h]) \in Seq(Command)
  <1>1. [op |-> op, handle |-> h] \in Command
    BY DEF Command
  <1> QED BY <1>1, AppendProperties DEF APITypeOK

LEMMA DoCommandTyped == ASSUME APITypeOK, DoCommand PROVE APITypeOK'
  <1> DEFINE c == Head(commands)
  <1>1. commands # <<>> /\ c \in Command /\ commands' = Tail(commands) /\ commands' \in Seq(Command)
    BY HeadTailProperties DEF DoCommand, APITypeOK
  <1>2. c.handle \in Handle /\ c.handle[1] \in Name
    BY <1>1, HandleIsPair DEF Command
  <1>3. UNCHANGED <<posts, converter, session_handles>>
    BY DEF DoCommand, linker_
  <1> HIDE DEF c
  <1> DEFINE SessionTyped ==
               /\ DOMAIN torrents' \subseteq Handle /\ \A h \in DOMAIN torrents' : torrents'[h] \in Status
               /\ auto_managed' \subseteq DOMAIN torrents'
               /\ changed' \subseteq DOMAIN torrents'
               /\ alerts' \in Seq(Alert)
  <1>4. ASSUME AddTorrent(c.handle[1]) PROVE SessionTyped
    <2>1. PICK h : AddedAs(h, c.handle[1])
      BY <1>2, <1>4, AddTorrentEffect
    <2>2. alerts' \in Seq(Alert)
      BY <2>1, AlertIsTyped, AppendProperties DEF AddedAs, APITypeOK
    <2>3. CASE UNCHANGED <<torrents, auto_managed>> /\ h \in DOMAIN torrents
      BY <2>1, <2>2, <2>3 DEF AddedAs, APITypeOK
    <2>4. CASE torrents' = Put(torrents, h, NewStatus) /\ auto_managed' = auto_managed \cup {h}
      <3>1. /\ DOMAIN torrents' \subseteq Handle /\ \A g \in DOMAIN torrents' : torrents'[g] \in Status
            /\ DOMAIN torrents' = DOMAIN torrents \cup {h}
        <4>1. /\ DOMAIN torrents \subseteq Handle /\ \A g \in DOMAIN torrents : torrents[g] \in Status
              /\ h \in Handle
          BY <2>1 DEF AddedAs, APITypeOK
        <4> DEFINE m == Put(torrents, h, NewStatus)
        <4>2. DOMAIN m \subseteq Handle /\ \A g \in DOMAIN m : m[g] \in Status
          BY <4>1, PutIsTyped, NewStatusIsTyped
        <4>3. DOMAIN m = DOMAIN torrents \cup {h}
          BY PutKeepsOthers
        <4> HIDE DEF m
        <4> QED BY <2>4, <4>2, <4>3 DEF m
      <3> QED BY <2>1, <2>2, <2>4, <3>1 DEF AddedAs, APITypeOK
    <2> QED BY <2>1, <2>3, <2>4 DEF AddedAs
  <1>5. ASSUME RemoveTorrent(c.handle) PROVE SessionTyped
    BY <1>5 DEF RemoveTorrent, APITypeOK, Restrict
  <1>6. ASSUME NEW paused \in BOOLEAN, SetPaused(c.handle, paused) PROVE SessionTyped
    BY <1>6 DEF SetPaused, APITypeOK
  <1>7. SessionTyped
    BY <1>4, <1>5, <1>6 DEF DoCommand, c
  <1> QED BY <1>1, <1>3, <1>7 DEF APITypeOK

LEMMA PostUpdatesTyped == ASSUME APITypeOK, PostUpdates PROVE APITypeOK'
  <1>1. /\ UNCHANGED <<torrents, auto_managed, commands, converter, session_handles>>
        /\ changed' = {}
    BY DEF PostUpdates, linker_
  <1>2. posts' \in 0..POSTS
    BY PostsAssumption DEF PostUpdates, APITypeOK
  <1>3. alerts' \in Seq(Alert)
    <2>1. Restrict(torrents, changed) \in [changed -> Status] /\ changed \in SUBSET Handle
      BY DEF Restrict, APITypeOK
    <2>2. [type |-> "state_update", status |-> Restrict(torrents, changed)] \in Alert
      BY <2>1, AlertIsTyped
    <2> QED BY <2>2, AppendProperties DEF PostUpdates, APITypeOK
  <1> QED BY <1>1, <1>2, <1>3 DEF APITypeOK

LEMMA ProgressEffect ==
  ASSUME APITypeOK, Progress
  PROVE  /\ DOMAIN torrents' = DOMAIN torrents
         /\ \A h \in DOMAIN torrents : /\ torrents'[h] \in Status
                                       /\ torrents[h].complete => torrents'[h].complete
         /\ changed' \subseteq DOMAIN torrents
         /\ UNCHANGED <<auto_managed, commands, posts, alerts, converter, session_handles>>
  <1>1. PICK h \in DOMAIN torrents, s \in [complete: BOOLEAN, download_rate: RATES] :
          /\ torrents[h].complete => s.complete
          /\ torrents' = [torrents EXCEPT ![h] = s]
          /\ changed' = changed \cup {h}
    BY DEF Progress
  <1>2. s \in Status
    BY <1>1, RatesAssumption DEF Status
  <1> QED BY <1>1, <1>2 DEF Progress, queues, linker_, APITypeOK

LEMMA ProgressTyped == ASSUME APITypeOK, Progress PROVE APITypeOK'
  BY ProgressEffect DEF APITypeOK

LEMMA AddAlertTyped ==
  ASSUME APITypeOK, NEW name \in Name, \A i \in added : alerts[i].handle \in DOMAIN torrents,
         AddAlert(name)
  PROVE  APITypeOK'
  <1>1. PICK i \in added :
          /\ converter' = Put(converter, name, alerts[i].handle)
          /\ session_handles' = Put(session_handles, alerts[i].handle, torrents[alerts[i].handle])
    BY DEF AddAlert
  <1> DEFINE h == alerts[i].handle
  <1>2. h \in Handle /\ torrents[h] \in Status
    BY DEF APITypeOK
  <1>5. converter' = Put(converter, name, h) /\ session_handles' = Put(session_handles, h, torrents[h])
    BY <1>1
  <1> HIDE DEF h
  <1>3. DOMAIN converter' \subseteq Name /\ \A n \in DOMAIN converter' : converter'[n] \in Handle
    BY <1>5, <1>2, PutIsTyped DEF APITypeOK
  <1>4. /\ DOMAIN session_handles' \subseteq Handle
        /\ \A g \in DOMAIN session_handles' : session_handles'[g] \in Status
    BY <1>5, <1>2, PutIsTyped DEF APITypeOK
  <1> QED BY <1>3, <1>4, PopAlertsTyped DEF AddAlert, APITypeOK, session

LEMMA NoAddAlertTyped == ASSUME APITypeOK, NoAddAlert PROVE APITypeOK'
  BY PopAlertsTyped DEF NoAddAlert, APITypeOK, session, linker_

LEMMA InsertedIsKnown == ASSUME NEW known, NEW h PROVE h \in DOMAIN Inserted(known, h)
  BY DEF Inserted, Put

LEMMA getInfoTyped ==
  ASSUME APITypeOK, NEW name \in DOMAIN converter, getInfo(name)
  PROVE  APITypeOK'
  <1>1. converter[name] \in Handle
    BY HandlesAreTyped
  <1>2. /\ DOMAIN session_handles' \subseteq Handle
        /\ \A g \in DOMAIN session_handles' : session_handles'[g] \in Status
    <2>1. /\ DOMAIN Updated \subseteq Handle
          /\ \A h \in DOMAIN Updated : Updated[h] \in Status
      BY UpdatedKeepsKeys DEF APITypeOK
    <2>2. /\ DOMAIN Put(Updated, converter[name], NewStatus) \subseteq Handle
          /\ \A g \in DOMAIN Put(Updated, converter[name], NewStatus) :
               Put(Updated, converter[name], NewStatus)[g] \in Status
      BY <1>1, <2>1, PutIsTyped, NewStatusIsTyped
    <2> QED BY <2>1, <2>2 DEF getInfo, Inserted
  <1> QED BY <1>2, PopAlertsTyped DEF getInfo, APITypeOK, session

LEMMA pauseDownloadTyped ==
  ASSUME APITypeOK, NEW name \in DOMAIN converter, NEW op \in {"pause", "resume"},
         pauseDownload(name, op)
  PROVE  APITypeOK'
  <1>1. commands' \in Seq(Command)
    BY HandlesAreTyped, CommandsAreTyped DEF pauseDownload, APITypeOK
  <1>2. /\ DOMAIN session_handles' \subseteq Handle
        /\ \A g \in DOMAIN session_handles' : session_handles'[g] \in Status
    BY UpdatedKeepsKeys DEF pauseDownload, APITypeOK
  <1> QED BY <1>1, <1>2, PopAlertsTyped DEF pauseDownload, APITypeOK, session

LEMMA removeDownloadTyped ==
  ASSUME APITypeOK, NEW name \in DOMAIN converter, removeDownload(name)
  PROVE  APITypeOK'
  <1>1. commands' \in Seq(Command)
    BY HandlesAreTyped, CommandsAreTyped DEF removeDownload, APITypeOK
  <1>2. /\ DOMAIN session_handles' \subseteq Handle
        /\ \A g \in DOMAIN session_handles' : session_handles'[g] \in Status
    BY UpdatedKeepsKeys DEF removeDownload, APITypeOK, Restrict
  <1> QED BY <1>1, <1>2, PopAlertsTyped DEF removeDownload, APITypeOK, session

(***************************************************************************)
(* WindowInv: the types and the buttons, however often a torrent is in the *)
(* list.  A torrent is asked for, then its alert has come, and in no other *)
(* state is there a call or an alert of that kind.                         *)
(***************************************************************************)

UIStates == {EventLoop, Closing, Closed, Terminated}
              \cup {Creating(n) : n \in Name} \cup {Updating(i) : i \in Nat \ {0}}

\* createDownload waits for the torrent of the name.
Opened(n) == ui.at = "createDownload" /\ ui.name = n

Asked(n) ==
  /\ added = {}
  /\ commands # <<>> /\ commands[Len(commands)] = [op |-> "add", handle |-> <<n, 0>>]
  /\ \A k \in 1..Len(commands)-1 : commands[k].op # "add"

CameAs(h) ==
  /\ commands = <<>> /\ h \in DOMAIN torrents
  /\ \E k \in added : added = {k} /\ alerts[k].handle = h

AddInv ==
  IF ui.at = "createDownload"
  THEN Asked(ui.name) \/ \E h \in Handle : h[1] = ui.name /\ CameAs(h)
  ELSE added = {} /\ \A k \in DOMAIN commands : commands[k].op # "add"

ConverterInv ==
  /\ \A n \in DOMAIN converter : converter[n][1] = n
  /\ \A i \in DOMAIN cur_torrens_ :
       cur_torrens_[i].name_ \in DOMAIN converter \/ Opened(cur_torrens_[i].name_)

BoxInv == box => ui.at \in {"event_loop", "update_statistic"} /\ currentRow # 0

\* While the rows are updated, the buttons may be those of a row that has just
\* been found finished.
ButtonsInv ==
  /\ ui.at \in {"event_loop", "createDownload"} => enabled = ButtonsFor(cur_torrens_, currentRow)
  /\ ui.at = "update_statistic" =>
       \/ enabled = ButtonsFor(cur_torrens_, currentRow)
       \/ currentRow # 0 /\ cur_torrens_[currentRow].finished_

WindowInv == WindowTypeOK /\ ui \in UIStates /\ AddInv /\ ConverterInv /\ BoxInv /\ ButtonsInv

LEMMA StatesOfUI ==
  /\ EventLoop \in UIStates /\ EventLoop.at = "event_loop"
  /\ Closing \in UIStates /\ Closing.at = "destructor"
  /\ Closed \in UIStates /\ Closed.at = "closed"
  /\ Terminated \in UIStates /\ Terminated.at = "terminated"
  /\ \A n \in Name : /\ Creating(n) \in UIStates /\ Creating(n).at = "createDownload"
                     /\ Creating(n).name = n
  /\ \A i \in Nat \ {0} : /\ Updating(i) \in UIStates /\ Updating(i).at = "update_statistic"
                          /\ Updating(i).index = i
  BY DEF UIStates, EventLoop, Closing, Closed, Terminated, Creating, Updating

LEMMA StateIsKnown ==
  ASSUME ui \in UIStates
  PROVE  /\ ui.at = "createDownload" => ui.name \in Name
         /\ ui.at = "update_statistic" => ui.index \in Nat \ {0}
  BY StatesOfUI DEF UIStates

\* A row by its type.
LEMMA RowIsTyped ==
  ASSUME WindowTypeOK
  PROVE  /\ DOMAIN cur_torrens_ = 1..Len(cur_torrens_) /\ Len(cur_torrens_) \in Nat
         /\ \A i \in DOMAIN cur_torrens_ : /\ cur_torrens_[i] \in Torrent
                                           /\ cur_torrens_[i].name_ \in Name
  <1>1. cur_torrens_ \in Seq(Torrent)
    BY DEF WindowTypeOK
  <1>2. \A t \in Torrent : t.name_ \in Name
    BY DEF Torrent
  <1> QED BY <1>1, <1>2

LEMMA WindowInit == Init => WindowInv
  <1> SUFFICES ASSUME Init PROVE WindowInv
    OBVIOUS
  <1>1. APITypeOK
    BY PostsAssumption DEF Init, APIInit, APITypeOK
  <1>2. WindowTypeOK
    <2>1. cur_torrens_ \in Seq(Torrent) /\ Len(cur_torrens_) = 0
      BY EmptySeq DEF Init
    <2>2. updates \in 0..UPDATES /\ currentRow \in 0..Len(cur_torrens_)
      BY <2>1, UpdatesAssumption DEF Init
    <2>3. /\ enabled \subseteq {"pause", "start", "delete"} /\ box \in BOOLEAN
          /\ worker \in {"while", "ended"} /\ program_is_running \in BOOLEAN
      BY DEF Init
    <2> QED BY <1>1, <2>1, <2>2, <2>3 DEF WindowTypeOK
  <1> QED BY <1>2, StatesOfUI
          DEF Init, APIInit, WindowInv, AddInv, ConverterInv, BoxInv, ButtonsInv, ButtonsFor, added

\* The alert is the one that was waited for.
LEMMA AlertIsOfName ==
  ASSUME WindowInv, ui.at = "createDownload", NEW i \in added
  PROVE  /\ added = {i} /\ commands = <<>> /\ alerts[i].handle \in Handle
         /\ alerts[i].handle[1] = ui.name /\ alerts[i].handle \in DOMAIN torrents
         /\ CameAs(alerts[i].handle)
  <1>1. ~Asked(ui.name)
    BY DEF Asked
  <1>2. PICK h \in Handle : h[1] = ui.name /\ CameAs(h)
    BY <1>1 DEF WindowInv, AddInv
  <1>3. added = {i} /\ alerts[i].handle = h
    BY <1>2 DEF CameAs
  <1> QED BY <1>2, <1>3 DEF CameAs

LEMMA AddAlertKeepsWindow ==
  ASSUME WindowInv, ui.at = "createDownload", AddAlert(ui.name), ui' = EventLoop,
         UNCHANGED <<window, updates, thread>>
  PROVE  WindowInv'
  <1>1. ui.name \in Name
    BY StateIsKnown DEF WindowInv
  <1>2. PICK i \in added : converter' = Put(converter, ui.name, alerts[i].handle)
    BY DEF AddAlert
  <1>3. /\ alerts[i].handle \in DOMAIN torrents /\ alerts[i].handle[1] = ui.name
        /\ commands = <<>> /\ added = {i}
    BY <1>2, AlertIsOfName
  <1>4. WindowTypeOK'
    BY <1>1, <1>3, AddAlertTyped DEF WindowInv, WindowTypeOK, window, thread
  <1>5. AddInv'
    BY <1>3, StatesOfUI DEF AddAlert, PopAlerts, AddInv, added
  <1>6. ConverterInv'
    <2> DEFINE h == alerts[i].handle
    <2>1. h[1] = ui.name /\ converter' = Put(converter, ui.name, h)
      BY <1>2, <1>3
    <2> HIDE DEF h
    <2>2. /\ DOMAIN converter' = DOMAIN converter \cup {ui.name}
          /\ \A n \in DOMAIN converter' : converter'[n][1] = n
      BY <2>1, PutKeepsOthers DEF WindowInv, ConverterInv, Put
    <2> QED BY <2>2 DEF WindowInv, ConverterInv, Opened, window
  <1>7. BoxInv' /\ ButtonsInv'
    BY StatesOfUI DEF WindowInv, BoxInv, ButtonsInv, window
  <1> QED BY <1>4, <1>5, <1>6, <1>7, StatesOfUI DEF WindowInv

LEMMA NoAddAlertKeepsWindow ==
  ASSUME WindowInv, ui.at = "createDownload", NoAddAlert, UNCHANGED <<ui, window, updates, thread>>
  PROVE  WindowInv'
  <1>1. WindowTypeOK'
    BY NoAddAlertTyped DEF WindowInv, WindowTypeOK, window, thread
  <1>2. Asked(ui.name)
    BY DEF WindowInv, AddInv, NoAddAlert, CameAs
  <1>3. AddInv'
    BY <1>2 DEF NoAddAlert, PopAlerts, AddInv, Asked, added
  <1>4. ConverterInv' /\ BoxInv' /\ ButtonsInv'
    BY DEF WindowInv, ConverterInv, BoxInv, ButtonsInv, Opened, window, NoAddAlert, linker_
  <1> QED BY <1>1, <1>3, <1>4 DEF WindowInv

\* Steps of the window that leave the session and the rows alone.
LEMMA SelectKeepsWindow == ASSUME WindowInv, Select PROVE WindowInv'
  <1>1. currentRow' \in 1..Len(cur_torrens_)
    BY RowIsTyped DEF Select, WindowInv
  <1>2. enabled' \subseteq {"pause", "start", "delete"}
    BY DEF Select, ButtonsFor
  <1>3. UNCHANGED <<cur_torrens_, box, updates, ui, worker, program_is_running,
                    torrents, auto_managed, changed, commands, posts, alerts, converter, session_handles>>
    BY DEF Select, thread, api, session, queues, linker_
  <1>4. ui = EventLoop /\ ~box /\ enabled' = ButtonsFor(cur_torrens_, currentRow')
    BY DEF Select, Ready
  <1>5. WindowTypeOK'
    BY <1>1, <1>2, <1>3 DEF WindowInv, WindowTypeOK, APITypeOK
  <1>6. AddInv' /\ ConverterInv'
    BY <1>3 DEF WindowInv, AddInv, Asked, CameAs, added, ConverterInv, Opened
  <1>7. BoxInv' /\ ButtonsInv'
    BY <1>3, <1>4, StatesOfUI DEF BoxInv, ButtonsInv
  <1> QED BY <1>3, <1>5, <1>6, <1>7 DEF WindowInv

LEMMA BoxKeepsWindow == ASSUME WindowInv, AskDelete \/ CancelDelete PROVE WindowInv'
  <1>1. UNCHANGED <<cur_torrens_, currentRow, enabled, updates, ui, worker, program_is_running,
                    torrents, auto_managed, changed, commands, posts, alerts, converter, session_handles>>
    BY DEF AskDelete, CancelDelete, thread, api, session, queues, linker_
  <1>2. box' \in BOOLEAN /\ ui = EventLoop
    BY DEF AskDelete, CancelDelete, Ready
  <1>3. currentRow # 0 \/ ~box'
    BY StatesOfUI DEF AskDelete, CancelDelete, Ready, WindowInv, ButtonsInv, ButtonsFor
  <1>4. WindowTypeOK'
    BY <1>1, <1>2 DEF WindowInv, WindowTypeOK, APITypeOK
  <1>5. AddInv' /\ ConverterInv' /\ ButtonsInv'
    BY <1>1 DEF WindowInv, AddInv, Asked, CameAs, added, ConverterInv, Opened, ButtonsInv
  <1>6. BoxInv'
    BY <1>1, <1>2, <1>3, StatesOfUI DEF BoxInv
  <1> QED BY <1>1, <1>4, <1>5, <1>6 DEF WindowInv

\* Steps between two states of the window's thread other than createDownload.
LEMMA ThreadKeepsWindow ==
  ASSUME WindowInv, BeginUpdate \/ EndUpdate \/ EndClose \/ CloseWindow \/ WorkerStep
  PROVE  WindowInv'
  <1>1. UNCHANGED <<cur_torrens_, currentRow, box, torrents, auto_managed, changed, commands,
                    posts, alerts, converter, session_handles>>
    BY DEF BeginUpdate, EndUpdate, EndClose, CloseWindow, WorkerStep,
           window, api, session, queues, linker_
  <1>2. /\ updates' \in 0..UPDATES /\ worker' \in {"while", "ended"} /\ program_is_running' \in BOOLEAN
        /\ enabled' \subseteq {"pause", "start", "delete"}
    <2>1. CASE BeginUpdate
      BY <2>1, UpdatesAssumption DEF BeginUpdate, WindowInv, WindowTypeOK, window, thread
    <2>2. CASE EndUpdate
      BY <2>2 DEF EndUpdate, WindowInv, WindowTypeOK, thread
    <2>3. CASE EndClose \/ CloseWindow
      BY <2>3 DEF EndClose, CloseWindow, WindowInv, WindowTypeOK, thread, window
    <2>4. CASE WorkerStep
      <3>1. updates \in Int /\ UPDATES \in Nat /\ updates \in 0..UPDATES
        BY UpdatesAssumption DEF WindowInv, WindowTypeOK
      <3>2. Min({updates + 1, UPDATES}) \in 0..UPDATES
        <4>1. Min({updates + 1, UPDATES}) = IF updates + 1 <= UPDATES THEN updates + 1 ELSE UPDATES
          BY <3>1, MinOfTwo
        <4> QED BY <3>1, <4>1
      <3> QED BY <2>4, <3>1, <3>2 DEF WorkerStep, WindowInv, WindowTypeOK, window
    <2> QED BY <2>1, <2>2, <2>3, <2>4
  <1>3. WindowTypeOK'
    BY <1>1, <1>2 DEF WindowInv, WindowTypeOK, APITypeOK
  <1>4. /\ ui' \in UIStates
        /\ ui'.at = "createDownload" <=> ui.at = "createDownload"
        /\ ui.at = "createDownload" => UNCHANGED <<ui, enabled>>
    BY StatesOfUI DEF BeginUpdate, EndUpdate, EndClose, CloseWindow, WorkerStep, Ready, window, WindowInv
  <1>5. AddInv'
    BY <1>1, <1>4 DEF WindowInv, AddInv, Asked, CameAs, added
  <1>6. ConverterInv'
    BY <1>1, <1>4 DEF WindowInv, ConverterInv, Opened
  <1>7. BoxInv'
    BY <1>1, StatesOfUI
       DEF WindowInv, BoxInv, BeginUpdate, EndUpdate, EndClose, CloseWindow, WorkerStep, Ready
  <1>8. ButtonsInv'
    <2>1. CASE BeginUpdate
      BY <1>1, <2>1, StatesOfUI DEF WindowInv, ButtonsInv, BeginUpdate, window
    <2>2. CASE EndUpdate
      BY <1>1, <2>2, StatesOfUI DEF WindowInv, ButtonsInv, EndUpdate, ButtonsFor
    <2>3. CASE EndClose \/ CloseWindow
      BY <1>1, <2>3, StatesOfUI DEF ButtonsInv, EndClose, CloseWindow
    <2>4. CASE WorkerStep
      BY <1>1, <2>4 DEF WindowInv, ButtonsInv, WorkerStep, window
    <2> QED BY <2>1, <2>2, <2>3, <2>4
  <1> QED BY <1>3, <1>4, <1>5, <1>6, <1>7, <1>8 DEF WindowInv

LEMMA OpenTorrentKeepsWindow == ASSUME WindowInv, OpenTorrent PROVE WindowInv'
  <1> DEFINE row(n) == [name_ |-> n, download_ |-> TRUE, finished_ |-> FALSE]
  <1>1. PICK n \in Name : /\ cur_torrens_' = Append(cur_torrens_, row(n))
                          /\ commands' = Append(commands, [op |-> "add", handle |-> <<n, 0>>])
                          /\ ui' = Creating(n)
    BY DEF OpenTorrent, async_add_torrent
  <1>2. UNCHANGED <<currentRow, enabled, box, updates, worker, program_is_running, torrents,
                    auto_managed, changed, posts, alerts, converter, session_handles>>
    BY DEF OpenTorrent, thread, session, linker_
  <1>3. ui = EventLoop /\ ~box
    BY DEF OpenTorrent, Ready
  <1>4. row(n) \in Torrent /\ row(n).name_ = n
    BY DEF Torrent
  <1> HIDE DEF row
  <1>5. /\ cur_torrens_' \in Seq(Torrent) /\ Len(cur_torrens_') = Len(cur_torrens_) + 1
        /\ \A i \in 1..Len(cur_torrens_) : cur_torrens_'[i] = cur_torrens_[i]
        /\ cur_torrens_'[Len(cur_torrens_) + 1] = row(n)
        /\ DOMAIN cur_torrens_' = 1..Len(cur_torrens_) + 1
        /\ DOMAIN cur_torrens_ = 1..Len(cur_torrens_) /\ Len(cur_torrens_) \in Nat
    BY <1>1, <1>4, AppendProperties DEF WindowInv, WindowTypeOK
  <1>6. /\ commands' \in Seq(Command) /\ commands' # <<>> /\ Len(commands') = Len(commands) + 1
        /\ \A i \in 1..Len(commands) : commands'[i] = commands[i]
        /\ commands'[Len(commands) + 1] = [op |-> "add", handle |-> <<n, 0>>]
        /\ DOMAIN commands = 1..Len(commands) /\ Len(commands) \in Nat
    <2>1. [op |-> "add", handle |-> <<n, 0>>] \in Command /\ commands \in Seq(Command)
      BY DEF Command, Handle, WindowInv, WindowTypeOK, APITypeOK
    <2> QED BY <1>1, <2>1, AppendProperties
  <1>7. WindowTypeOK'
    BY <1>2, <1>5, <1>6 DEF WindowInv, WindowTypeOK, APITypeOK
  <1>8. AddInv'
    <2>1. added = {} /\ \A k \in 1..Len(commands) : commands[k].op # "add"
      BY <1>3, <1>6, StatesOfUI DEF WindowInv, AddInv
    <2>2. Asked(n)'
      BY <1>2, <1>6, <2>1 DEF Asked, added
    <2> QED BY <1>1, <2>2, StatesOfUI DEF AddInv
  <1>9. ConverterInv'
    <2>1. \A i \in DOMAIN cur_torrens_ : cur_torrens_[i].name_ \in DOMAIN converter
      BY <1>3, StatesOfUI DEF WindowInv, ConverterInv, Opened
    <2>2. Opened(n)'
      BY <1>1, StatesOfUI DEF Opened
    <2>3. ASSUME NEW i \in DOMAIN cur_torrens_'
          PROVE  cur_torrens_'[i].name_ \in DOMAIN converter \/ cur_torrens_'[i].name_ = n
      <3>1. CASE i = Len(cur_torrens_) + 1
        BY <1>4, <1>5, <3>1
      <3>2. CASE i \in 1..Len(cur_torrens_)
        BY <1>5, <2>1, <3>2
      <3> QED BY <1>5, <3>1, <3>2
    <2> QED BY <1>2, <2>2, <2>3 DEF WindowInv, ConverterInv
  <1>10. BoxInv' /\ ButtonsInv'
    <2>1. ButtonsFor(cur_torrens_', currentRow) = ButtonsFor(cur_torrens_, currentRow)
      BY <1>5 DEF ButtonsFor, WindowInv, WindowTypeOK
    <2> QED BY <1>1, <1>2, <1>3, <2>1, StatesOfUI DEF WindowInv, BoxInv, ButtonsInv
  <1> QED BY <1>1, <1>7, <1>8, <1>9, <1>10, StatesOfUI DEF WindowInv

\* In the event loop, and in an update, no alert of a new torrent is there.
LEMMA NothingIsAdded ==
  ASSUME WindowInv, ui.at # "createDownload"
  PROVE  /\ added = {} /\ \A k \in DOMAIN commands : commands[k].op # "add"
         /\ \A i \in DOMAIN cur_torrens_ : cur_torrens_[i].name_ \in DOMAIN converter
  BY DEF WindowInv, AddInv, ConverterInv, Opened

\* A call for a torrent that is appended is none for a new torrent.
LEMMA NoAddAppended ==
  ASSUME APITypeOK, NEW op \in {"pause", "resume", "remove"}, NEW h \in Handle,
         \A k \in DOMAIN commands : commands[k].op # "add"
  PROVE  \A k \in DOMAIN Append(commands, [op |-> op, handle |-> h]) :
            Append(commands, [op |-> op, handle |-> h])[k].op # "add"
  <1> DEFINE c == [op |-> op, handle |-> h]
             s == Append(commands, c)
  <1>1. c.op # "add" /\ c \in Command /\ commands \in Seq(Command)
    BY DEF Command, APITypeOK
  <1> HIDE DEF c
  <1>2. /\ s \in Seq(Command) /\ Len(s) = Len(commands) + 1 /\ s[Len(commands) + 1] = c
        /\ \A k \in 1..Len(commands) : s[k] = commands[k]
    BY <1>1, AppendProperties
  <1>3. DOMAIN s = 1..Len(commands) + 1 /\ DOMAIN commands = 1..Len(commands) /\ Len(commands) \in Nat
    BY <1>1, <1>2
  <1> HIDE DEF s
  <1>4. ASSUME NEW k \in DOMAIN s PROVE s[k].op # "add"
    <2>1. CASE k = Len(commands) + 1
      BY <1>1, <1>2, <2>1
    <2>2. CASE k # Len(commands) + 1
      <3>1. k \in 1..Len(commands)
        BY <1>3, <2>2
      <3> QED BY <1>2, <1>3, <3>1
    <2> QED BY <2>1, <2>2
  <1> QED BY <1>4 DEF s, c

LEMMA UpdateRowKeepsWindow == ASSUME WindowInv, UpdateRow PROVE WindowInv'
  <1>1. ui.at = "update_statistic" /\ ui.index \in 1..Len(cur_torrens_)
    BY StateIsKnown, RowIsTyped DEF UpdateRow, WindowInv
  <1> DEFINE i == ui.index
             name == cur_torrens_[i].name_
  <1>2. name \in DOMAIN converter
    BY <1>1, RowIsTyped, NothingIsAdded DEF WindowInv
  <1>3. APITypeOK' /\ alerts' = <<>> /\ UNCHANGED <<commands, converter>>
    BY <1>2, getInfoTyped DEF UpdateRow, WindowInv, WindowTypeOK, getInfo, PopAlerts
  <1>4. /\ UNCHANGED <<currentRow, enabled, box, updates, worker, program_is_running>>
        /\ ui' = Updating(i + 1) /\ i + 1 \in Nat \ {0}
    BY <1>1, RowIsTyped DEF UpdateRow, thread, WindowInv
  <1>5. PICK done \in BOOLEAN :
          cur_torrens_' = [cur_torrens_ EXCEPT ![i].finished_ = cur_torrens_[i].finished_ \/ done]
    <2> DEFINE c == session_handles'[converter[name]].complete
      <2>1. session_handles'[converter[name]] \in Status
      <3>1. converter[name] \in DOMAIN session_handles'
        BY InsertedIsKnown DEF UpdateRow, getInfo
      <3> QED BY <1>3, <3>1 DEF APITypeOK
    <2>2. c \in BOOLEAN
      BY <2>1 DEF Status
    <2>3. cur_torrens_' = [cur_torrens_ EXCEPT ![i].finished_ = cur_torrens_[i].finished_ \/ c]
      BY DEF UpdateRow
    <2> HIDE DEF c
    <2> QED BY <2>2, <2>3
  <1>6. /\ cur_torrens_' \in Seq(Torrent) /\ Len(cur_torrens_') = Len(cur_torrens_)
        /\ DOMAIN cur_torrens_' = DOMAIN cur_torrens_
        /\ \A j \in DOMAIN cur_torrens_ :
             /\ cur_torrens_'[j].name_ = cur_torrens_[j].name_
             /\ cur_torrens_'[j].download_ = cur_torrens_[j].download_
             /\ cur_torrens_[j].finished_ => cur_torrens_'[j].finished_
             /\ j # i => cur_torrens_'[j] = cur_torrens_[j]
    <2> DEFINE row == [cur_torrens_[i] EXCEPT !.finished_ = cur_torrens_[i].finished_ \/ done]
    <2>1. cur_torrens_ \in Seq(Torrent) /\ cur_torrens_[i] \in Torrent
      BY <1>1, RowIsTyped DEF WindowInv, WindowTypeOK
    <2>2. /\ row \in Torrent /\ row.name_ = cur_torrens_[i].name_
          /\ row.download_ = cur_torrens_[i].download_
          /\ cur_torrens_[i].finished_ => row.finished_
      BY <2>1 DEF Torrent
    <2>3. cur_torrens_' = [cur_torrens_ EXCEPT ![i] = row]
      BY <1>5
    <2> HIDE DEF row, i
    <2>4. /\ cur_torrens_' \in Seq(Torrent) /\ Len(cur_torrens_') = Len(cur_torrens_)
          /\ \A j \in 1..Len(cur_torrens_) : cur_torrens_'[j] = IF j = i THEN row ELSE cur_torrens_[j]
      BY <1>1, <2>1, <2>2, <2>3, ExceptSeq DEF i
    <2>5. DOMAIN cur_torrens_' = 1..Len(cur_torrens_) /\ DOMAIN cur_torrens_ = 1..Len(cur_torrens_)
      BY <2>1, <2>4
    <2> QED BY <2>2, <2>4, <2>5
  <1>7. WindowTypeOK'
    BY <1>3, <1>4, <1>6 DEF WindowInv, WindowTypeOK
  <1>8. AddInv'
    BY <1>1, <1>3, <1>4, NothingIsAdded, StatesOfUI DEF AddInv, added
  <1>9. ConverterInv'
    BY <1>1, <1>3, <1>6, NothingIsAdded DEF WindowInv, ConverterInv
  <1>10. BoxInv' /\ ButtonsInv'
    <2>1. \/ ButtonsFor(cur_torrens_', currentRow) = ButtonsFor(cur_torrens_, currentRow)
          \/ currentRow # 0 /\ cur_torrens_'[currentRow].finished_
      <3>1. CASE currentRow = 0
        BY <3>1 DEF ButtonsFor
      <3>2. CASE currentRow # 0
        <4>1. currentRow \in DOMAIN cur_torrens_
          BY <3>2, RowIsTyped DEF WindowInv, WindowTypeOK
        <4> QED BY <1>6, <3>2, <4>1 DEF ButtonsFor
      <3> QED BY <3>1, <3>2
    <2>2. currentRow # 0 /\ cur_torrens_[currentRow].finished_ => cur_torrens_'[currentRow].finished_
      BY <1>6, RowIsTyped DEF WindowInv, WindowTypeOK
    <2> QED BY <1>1, <1>4, <2>1, <2>2, StatesOfUI DEF WindowInv, BoxInv, ButtonsInv
  <1> QED BY <1>4, <1>7, <1>8, <1>9, <1>10, StatesOfUI DEF WindowInv

LEMMA PauseOrStartKeepsWindow ==
  ASSUME WindowInv, Pause \/ Start
  PROVE  WindowInv'
  <1>1. PICK download \in BOOLEAN, button \in {"pause", "start"}, other \in {"pause", "start"},
             op \in {"pause", "resume"} :
          /\ PauseOrStart(button, other, download, op)
          /\ button # other /\ (download <=> other = "pause")
    BY DEF Pause, Start
  <1> DEFINE name == cur_torrens_[currentRow].name_
             row  == cur_torrens_[currentRow]
             changed_row == [row EXCEPT !.download_ = download]
  <1>2. ui = EventLoop /\ ui.at = "event_loop" /\ ~box /\ button \in enabled
    BY <1>1, StatesOfUI DEF PauseOrStart, Ready
  <1>3. enabled = ButtonsFor(cur_torrens_, currentRow)
    BY <1>2 DEF WindowInv, ButtonsInv
  <1>4. /\ currentRow # 0 /\ ~row.finished_ /\ enabled = {button, "delete"}
    BY <1>2, <1>3 DEF ButtonsFor
  <1>5. currentRow \in DOMAIN cur_torrens_ /\ row \in Torrent /\ cur_torrens_ \in Seq(Torrent)
    BY <1>4, RowIsTyped DEF WindowInv, WindowTypeOK
  <1>6. name \in DOMAIN converter
    BY <1>2, <1>5, NothingIsAdded
  <1>7. /\ APITypeOK' /\ alerts' = <<>> /\ UNCHANGED converter
        /\ \/ UNCHANGED commands
           \/ commands' = Append(commands, [op |-> op, handle |-> converter[name]])
    BY <1>1, <1>6, pauseDownloadTyped DEF PauseOrStart, WindowInv, WindowTypeOK, pauseDownload, PopAlerts
  <1>8. UNCHANGED <<currentRow, box, updates, worker, program_is_running>>
    BY <1>1 DEF PauseOrStart, thread
  <1>9. /\ changed_row \in Torrent /\ changed_row.name_ = row.name_
        /\ changed_row.download_ = download /\ changed_row.finished_ = row.finished_
    BY <1>5 DEF Torrent
  <1>10. cur_torrens_' = [cur_torrens_ EXCEPT ![currentRow] = changed_row]
    BY <1>1 DEF PauseOrStart
  <1>11. /\ cur_torrens_' \in Seq(Torrent) /\ Len(cur_torrens_') = Len(cur_torrens_)
         /\ DOMAIN cur_torrens_' = DOMAIN cur_torrens_
         /\ cur_torrens_'[currentRow] = changed_row
         /\ \A j \in DOMAIN cur_torrens_ : j # currentRow => cur_torrens_'[j] = cur_torrens_[j]
    <2> HIDE DEF changed_row
    <2>1. currentRow \in 1..Len(cur_torrens_)
      BY <1>5
    <2>2. /\ cur_torrens_' \in Seq(Torrent) /\ Len(cur_torrens_') = Len(cur_torrens_)
          /\ \A j \in 1..Len(cur_torrens_) :
               cur_torrens_'[j] = IF j = currentRow THEN changed_row ELSE cur_torrens_[j]
      BY <1>5, <1>9, <1>10, <2>1, ExceptSeq
    <2>3. DOMAIN cur_torrens_' = 1..Len(cur_torrens_) /\ DOMAIN cur_torrens_ = 1..Len(cur_torrens_)
      BY <1>5, <2>2
    <2> QED BY <2>1, <2>2, <2>3
  <1> HIDE DEF changed_row
  <1>12. /\ ui' \in {EventLoop, Terminated}
         /\ ui' = EventLoop => enabled' = {"delete", other}
         /\ enabled' \subseteq {"pause", "start", "delete"}
    <2>1. (enabled \ {button}) \cup {other} = {"delete", other}
      BY <1>4
    <2>2. EventLoop # Terminated
      BY StatesOfUI
    <2> QED BY <1>1, <1>2, <1>4, <2>1, <2>2 DEF PauseOrStart
  <1>13. WindowTypeOK'
    BY <1>7, <1>8, <1>11, <1>12 DEF WindowInv, WindowTypeOK
  <1>14. AddInv'
    <2>1. \A k \in DOMAIN commands' : commands'[k].op # "add"
      <3>1. converter[name] \in Handle
        BY <1>6, HandlesAreTyped DEF WindowInv, WindowTypeOK
      <3> QED BY <1>2, <1>7, <3>1, NothingIsAdded, NoAddAppended DEF WindowInv, WindowTypeOK
    <2> QED BY <1>7, <1>12, <2>1, StatesOfUI DEF AddInv, added
  <1>15. ConverterInv'
    BY <1>2, <1>7, <1>9, <1>11, NothingIsAdded DEF WindowInv, ConverterInv
  <1>16. BoxInv' /\ ButtonsInv'
    <2>1. ui' = EventLoop => enabled' = ButtonsFor(cur_torrens_', currentRow)
      BY <1>1, <1>4, <1>9, <1>11, <1>12 DEF ButtonsFor
    <2> QED BY <1>2, <1>8, <1>12, <2>1, StatesOfUI DEF BoxInv, ButtonsInv
  <1> QED BY <1>12, <1>13, <1>14, <1>15, <1>16, StatesOfUI DEF WindowInv

\* A sequence without its element i.
LEMMA RemovedAt ==
  ASSUME NEW S, NEW s \in Seq(S), NEW i \in 1..Len(s)
  PROVE  /\ RemoveAt(s, i) \in Seq(S) /\ Len(RemoveAt(s, i)) = Len(s) - 1
         /\ DOMAIN RemoveAt(s, i) = 1..Len(s)-1
         /\ \A j \in 1..Len(s)-1 : RemoveAt(s, i)[j] = IF j < i THEN s[j] ELSE s[j + 1]
  <1> DEFINE a == SubSeq(s, 1, i - 1)
             b == SubSeq(s, i + 1, Len(s))
  <1>1. Len(s) \in Nat /\ \A j \in 1..Len(s) : s[j] \in S
    OBVIOUS
  <1>2. a \in Seq(S) /\ Len(a) = i - 1 /\ \A j \in 1..i-1 : a[j] = s[j]
    BY <1>1, SubSeqProperties
  <1>3. b \in Seq(S) /\ Len(b) = Len(s) - i /\ \A j \in 1..Len(s)-i : b[j] = s[i + j]
    BY <1>1, SubSeqProperties
  <1> HIDE DEF a, b
  <1> DEFINE r == a \o b
  <1>r1. /\ r \in Seq(S) /\ Len(r) = Len(a) + Len(b)
        /\ \A j \in 1..Len(a)+Len(b) : r[j] = IF j <= Len(a) THEN a[j] ELSE b[j - Len(a)]
    BY <1>2, <1>3, ConcatProperties
  <1> HIDE DEF r
  <1>r2. Len(a) + Len(b) = Len(s) - 1
    BY <1>1, <1>2, <1>3
  <1>4. /\ r \in Seq(S) /\ Len(r) = Len(s) - 1
        /\ \A j \in 1..Len(s)-1 : r[j] = IF j <= i - 1 THEN a[j] ELSE b[j - (i - 1)]
    BY <1>2, <1>r1, <1>r2
  <1>5. \A j \in 1..Len(s)-1 : r[j] = IF j < i THEN s[j] ELSE s[j + 1]
    BY <1>1, <1>2, <1>3, <1>4
  <1>6. DOMAIN r = 1..Len(s)-1
    BY <1>4
  <1>7. RemoveAt(s, i) = r
    BY DEF RemoveAt, r, a, b
  <1> QED BY <1>4, <1>5, <1>6, <1>7

LEMMA AnswerDeleteKeepsWindow == ASSUME WindowInv, AnswerDelete PROVE WindowInv'
  <1> DEFINE name == cur_torrens_[currentRow].name_
             n == Len(cur_torrens_)
  <1>1. ui = EventLoop /\ ui.at = "event_loop" /\ box
    BY StatesOfUI DEF AnswerDelete
  <1>2. /\ n \in Nat /\ currentRow \in 1..n /\ currentRow \in DOMAIN cur_torrens_
        /\ cur_torrens_ \in Seq(Torrent) /\ DOMAIN cur_torrens_ = 1..n
    BY <1>1, RowIsTyped DEF WindowInv, WindowTypeOK, BoxInv
  <1>3. name \in DOMAIN converter
    BY <1>1, <1>2, NothingIsAdded
  <1>4. /\ APITypeOK' /\ alerts' = <<>> /\ UNCHANGED converter
        /\ \/ UNCHANGED commands
           \/ commands' = Append(commands, [op |-> "remove", handle |-> converter[name]])
    BY <1>3, removeDownloadTyped
    DEF AnswerDelete, RemoveOrThrow, WindowInv, WindowTypeOK, removeDownload, PopAlerts
  <1>5. /\ cur_torrens_' \in Seq(Torrent) /\ Len(cur_torrens_') = n - 1
        /\ DOMAIN cur_torrens_' = 1..n-1
        /\ \A j \in 1..n-1 : cur_torrens_'[j] = IF j < currentRow THEN cur_torrens_[j] ELSE cur_torrens_[j + 1]
    <2>1. cur_torrens_' = RemoveAt(cur_torrens_, currentRow)
      BY DEF AnswerDelete
    <2> QED BY <1>2, <2>1, RemovedAt
  <1>6. currentRow' = IF currentRow <= n - 1 THEN currentRow ELSE n - 1
    <2>1. currentRow' = Min({currentRow, n - 1})
      BY <1>5 DEF AnswerDelete
    <2> QED BY <1>2, <2>1, MinOfTwo
  <1>7. /\ UNCHANGED <<updates, worker, program_is_running>> /\ box' = FALSE
        /\ enabled' = ButtonsFor(cur_torrens_, Neighbour(currentRow))
        /\ ui' \in UIStates /\ ui'.at \in {"event_loop", "terminated"}
    BY <1>1, StatesOfUI DEF AnswerDelete, RemoveOrThrow, thread
  <1>8. enabled' = ButtonsFor(cur_torrens_', currentRow')
    <2>1. CASE currentRow <= n - 1
      <3>1. currentRow' = currentRow /\ Neighbour(currentRow) = currentRow + 1
        BY <1>2, <1>6, <2>1 DEF Neighbour
      <3>2. cur_torrens_'[currentRow] = cur_torrens_[currentRow + 1]
        BY <1>2, <1>5, <2>1
      <3>3. currentRow # 0 /\ currentRow + 1 # 0
        BY <1>2
      <3> QED BY <1>7, <3>1, <3>2, <3>3 DEF ButtonsFor
    <2>2. CASE currentRow = n
      <3>1. currentRow' = n - 1 /\ Neighbour(currentRow) = n - 1
        <4>1. ~(currentRow < n) /\ ~(currentRow <= n - 1)
          BY <1>2, <2>2
        <4> QED BY <1>6, <2>2, <4>1 DEF Neighbour
      <3>2. n - 1 # 0 => cur_torrens_'[n - 1] = cur_torrens_[n - 1]
        BY <1>2, <1>5, <2>2
      <3> QED BY <1>7, <3>1, <3>2 DEF ButtonsFor
    <2> QED BY <1>2, <2>1, <2>2
  <1>9. WindowTypeOK'
    <2>1. currentRow' \in 0..Len(cur_torrens_')
      BY <1>2, <1>5, <1>6
    <2>2. enabled' \subseteq {"pause", "start", "delete"}
      BY <1>7 DEF ButtonsFor
    <2> QED BY <1>4, <1>5, <1>7, <2>1, <2>2 DEF WindowInv, WindowTypeOK
  <1>10. AddInv'
    <2>1. converter[name] \in Handle
      BY <1>3, HandlesAreTyped DEF WindowInv, WindowTypeOK
    <2>2. \A k \in DOMAIN commands' : commands'[k].op # "add"
      BY <1>1, <1>4, <2>1, NothingIsAdded, NoAddAppended DEF WindowInv, WindowTypeOK
    <2> QED BY <1>1, <1>4, <1>7, <2>2 DEF AddInv, added
  <1>11. ConverterInv'
    <2>1. \A j \in 1..n : cur_torrens_[j].name_ \in DOMAIN converter
      BY <1>1, <1>2, NothingIsAdded
    <2>2. \A j \in 1..n-1 : cur_torrens_'[j].name_ \in DOMAIN converter
      <3> TAKE j \in 1..n-1
      <3>1. j \in 1..n /\ j + 1 \in 1..n
        BY <1>2
      <3> QED BY <1>5, <2>1, <3>1
    <2> QED BY <1>4, <1>5, <2>2 DEF WindowInv, ConverterInv
  <1>12. BoxInv' /\ ButtonsInv'
    BY <1>1, <1>7, <1>8 DEF BoxInv, ButtonsInv
  <1> QED BY <1>7, <1>9, <1>10, <1>11, <1>12 DEF WindowInv

\* What DoCommand does with the queue.
LEMMA DoneCommand ==
  ASSUME APITypeOK, DoCommand
  PROVE  /\ Head(commands) = commands[1] /\ commands[1] \in Command /\ 1 \in DOMAIN commands
         /\ Len(commands') = Len(commands) - 1 /\ Len(commands) \in Nat
         /\ DOMAIN commands = 1..Len(commands) /\ DOMAIN commands' = 1..Len(commands)-1
         /\ \A k \in DOMAIN commands' : k + 1 \in DOMAIN commands /\ commands'[k] = commands[k + 1]
         /\ Len(commands) = 1 => commands' = <<>>
  <1>1. commands \in Seq(Command) /\ commands # <<>> /\ commands' = Tail(commands)
    BY DEF APITypeOK, DoCommand
  <1>2. /\ commands' \in Seq(Command) /\ Len(commands') = Len(commands) - 1
        /\ \A k \in 1..Len(commands') : commands'[k] = commands[k + 1]
    BY <1>1, HeadTailProperties
  <1>3. Len(commands) \in Nat \ {0} /\ DOMAIN commands = 1..Len(commands)
    BY <1>1, EmptySeq, LenProperties
  <1>4. DOMAIN commands' = 1..Len(commands)-1
    BY <1>2
  <1>5. Head(commands) = commands[1] /\ commands[1] \in Command
    BY <1>1, <1>3
  <1>6. Len(commands) = 1 => commands' = <<>>
    BY <1>2
  <1> QED BY <1>2, <1>3, <1>4, <1>5, <1>6

LEMMA SessionCommandKeepsWindow == ASSUME WindowInv, SessionCommand PROVE WindowInv'
  <1>1. APITypeOK /\ APITypeOK' /\ DoCommand
    BY DoCommandTyped DEF WindowInv, WindowTypeOK, SessionCommand
  <1>2. UNCHANGED <<cur_torrens_, currentRow, enabled, box, updates, ui, worker, program_is_running,
                    converter>>
    BY <1>1 DEF SessionCommand, DoCommand, window, thread, linker_
  <1>3. WindowTypeOK' /\ ConverterInv' /\ BoxInv' /\ ButtonsInv'
    BY <1>1, <1>2 DEF WindowInv, WindowTypeOK, ConverterInv, BoxInv, ButtonsInv, Opened
  <1> DEFINE c == commands[1]
  <1>4. /\ c \in Command /\ 1 \in DOMAIN commands /\ Len(commands') = Len(commands) - 1
        /\ Len(commands) \in Nat /\ DOMAIN commands = 1..Len(commands)
        /\ DOMAIN commands' = 1..Len(commands)-1
        /\ \A k \in DOMAIN commands' : k + 1 \in DOMAIN commands /\ commands'[k] = commands[k + 1]
        /\ Len(commands) = 1 => commands' = <<>>
    BY <1>1, DoneCommand
  <1>5. \/ c.op = "add" /\ AddTorrent(c.handle[1])
        \/ c.op # "add" /\ UNCHANGED alerts
    BY <1>1, DoneCommand DEF DoCommand, RemoveTorrent, SetPaused
  <1>6. ~CameAs(ui.name) /\ \A h : ~CameAs(h)
    BY <1>1 DEF CameAs, DoCommand
  <1>7. AddInv'
    <2>1. CASE ui.at # "createDownload"
      <3>1. added = {} /\ \A k \in DOMAIN commands : commands[k].op # "add"
        BY <2>1, NothingIsAdded
      <3>2. UNCHANGED alerts
        BY <1>4, <1>5, <3>1
      <3> QED BY <1>2, <1>4, <2>1, <3>1, <3>2 DEF AddInv, added
    <2>2. CASE ui.at = "createDownload"
      <3>1. /\ added = {} /\ commands[Len(commands)] = [op |-> "add", handle |-> <<ui.name, 0>>]
            /\ \A k \in 1..Len(commands)-1 : commands[k].op # "add"
        BY <1>6, <2>2 DEF WindowInv, AddInv, Asked
      <3>2. CASE Len(commands) = 1
        <4>1. c = [op |-> "add", handle |-> <<ui.name, 0>>] /\ commands' = <<>>
          BY <1>4, <3>1, <3>2
        <4>2. AddTorrent(ui.name) /\ ui.name \in Name
          <5>1. c.op = "add" /\ c.handle[1] = ui.name
            BY <4>1
          <5> HIDE DEF c
          <5> QED BY <1>5, <2>2, <5>1, StateIsKnown DEF WindowInv
        <4>3. PICK h : AddedAs(h, ui.name)
          BY <1>1, <4>2, AddTorrentEffect
        <4>4. h \in DOMAIN torrents'
          BY <4>3 DEF AddedAs, Put
        <4> DEFINE a == [type |-> "add_torrent", handle |-> h]
                   m == Len(alerts)
        <4>5. /\ a \in Alert /\ a.type = "add_torrent" /\ a.handle = h /\ alerts \in Seq(Alert)
              /\ alerts' = Append(alerts, a)
          BY <1>1, <4>3, AlertIsTyped DEF AddedAs, APITypeOK
        <4> HIDE DEF a
        <4>6. /\ m \in Nat /\ DOMAIN alerts' = 1..m+1 /\ DOMAIN alerts = 1..m
              /\ alerts'[m + 1] = a /\ \A k \in 1..m : alerts'[k] = alerts[k]
          BY <4>5, AppendProperties
        <4>7. added' = {m + 1}
          BY <3>1, <4>5, <4>6 DEF added
        <4>8. CameAs(h)'
          BY <4>1, <4>4, <4>5, <4>6, <4>7 DEF CameAs
        <4> QED BY <1>2, <2>2, <4>3, <4>8 DEF AddInv, AddedAs
      <3>3. CASE Len(commands) # 1
        <4>1. c.op # "add" /\ UNCHANGED alerts
          BY <1>4, <1>5, <3>1, <3>3
        <4>2. commands' # <<>> /\ commands'[Len(commands')] = [op |-> "add", handle |-> <<ui.name, 0>>]
          BY <1>4, <3>1, <3>3
        <4>3. \A k \in 1..Len(commands')-1 : commands'[k].op # "add"
          BY <1>4, <3>1, <3>3
        <4> QED BY <1>2, <2>2, <3>1, <4>1, <4>2, <4>3 DEF AddInv, Asked, added
      <3> QED BY <3>2, <3>3
    <2> QED BY <2>1, <2>2
  <1> QED BY <1>2, <1>3, <1>7 DEF WindowInv

LEMMA SessionUpdateKeepsWindow == ASSUME WindowInv, SessionUpdate PROVE WindowInv'
  <1>1. APITypeOK /\ APITypeOK' /\ PostUpdates
    BY PostUpdatesTyped DEF WindowInv, WindowTypeOK, SessionUpdate
  <1>2. UNCHANGED <<cur_torrens_, currentRow, enabled, box, updates, ui, worker, program_is_running,
                    converter, commands, torrents>>
    BY <1>1 DEF SessionUpdate, PostUpdates, window, thread, linker_
  <1>3. WindowTypeOK' /\ ConverterInv' /\ BoxInv' /\ ButtonsInv'
    BY <1>1, <1>2 DEF WindowInv, WindowTypeOK, ConverterInv, BoxInv, ButtonsInv, Opened
  <1>4. added' = added /\ \A k \in added : alerts'[k] = alerts[k]
    <2> DEFINE a == [type |-> "state_update", status |-> Restrict(torrents, changed)]
    <2>1. CASE alerts' = Append(alerts, a)
      <3>1. a \in Alert /\ a.type # "add_torrent" /\ alerts \in Seq(Alert)
        <4>1. Restrict(torrents, changed) \in [changed -> Status] /\ changed \in SUBSET Handle
          BY <1>1 DEF Restrict, APITypeOK
        <4> QED BY <1>1, <4>1, AlertIsTyped DEF APITypeOK
      <3> HIDE DEF a
      <3>2. /\ Len(alerts) \in Nat /\ DOMAIN alerts' = 1..Len(alerts)+1 /\ DOMAIN alerts = 1..Len(alerts)
            /\ alerts'[Len(alerts) + 1] = a /\ \A k \in 1..Len(alerts) : alerts'[k] = alerts[k]
        BY <2>1, <3>1, AppendProperties
      <3> QED BY <3>1, <3>2 DEF added
    <2>2. CASE UNCHANGED alerts
      BY <2>2 DEF added
    <2> QED BY <1>1, <2>1, <2>2 DEF PostUpdates
  <1>5. AddInv'
    BY <1>2, <1>4 DEF WindowInv, AddInv, Asked, CameAs
  <1> QED BY <1>2, <1>3, <1>5 DEF WindowInv

LEMMA DownloadKeepsWindow == ASSUME WindowInv, Download PROVE WindowInv'
  <1>1. APITypeOK /\ APITypeOK' /\ Progress
    BY ProgressTyped DEF WindowInv, WindowTypeOK, Download
  <1>2. /\ UNCHANGED <<cur_torrens_, currentRow, enabled, box, updates, ui, worker, program_is_running,
                       converter, commands, alerts>>
        /\ DOMAIN torrents' = DOMAIN torrents
    BY <1>1, ProgressEffect DEF Download, window, thread
  <1>3. WindowTypeOK' /\ ConverterInv' /\ BoxInv' /\ ButtonsInv'
    BY <1>1, <1>2 DEF WindowInv, WindowTypeOK, ConverterInv, BoxInv, ButtonsInv, Opened
  <1>4. AddInv'
    BY <1>2 DEF WindowInv, AddInv, Asked, CameAs, added
  <1> QED BY <1>2, <1>3, <1>4 DEF WindowInv

LEMMA WindowNext == WindowInv /\ [Next]_vars => WindowInv'
  <1> SUFFICES ASSUME WindowInv, [Next]_vars PROVE WindowInv'
    OBVIOUS
  <1>1. CASE CreateDownload
    <2>1. ui.at = "createDownload" /\ UNCHANGED <<window, updates, thread>>
      BY <1>1 DEF CreateDownload
    <2> QED BY <1>1, <2>1, AddAlertKeepsWindow, NoAddAlertKeepsWindow DEF CreateDownload
  <1>2. CASE BeginUpdate \/ EndUpdate \/ EndClose \/ CloseWindow \/ WorkerStep
    BY <1>2, ThreadKeepsWindow
  <1>3. CASE UpdateRow
    BY <1>3, UpdateRowKeepsWindow
  <1>4. CASE OpenTorrent \/ Select
    BY <1>4, OpenTorrentKeepsWindow, SelectKeepsWindow
  <1>5. CASE Pause \/ Start
    BY <1>5, PauseOrStartKeepsWindow
  <1>6. CASE AskDelete \/ CancelDelete
    BY <1>6, BoxKeepsWindow
  <1>7. CASE AnswerDelete
    BY <1>7, AnswerDeleteKeepsWindow
  <1>8. CASE SessionCommand \/ SessionUpdate \/ Download
    BY <1>8, SessionCommandKeepsWindow, SessionUpdateKeepsWindow, DownloadKeepsWindow
  <1>9. CASE UNCHANGED vars
    BY <1>9 DEF vars, window, thread, api, session, queues, linker_, WindowInv, WindowTypeOK, APITypeOK,
                AddInv, Asked, CameAs, added, ConverterInv, Opened, BoxInv, ButtonsInv
  <1> QED BY <1>1, <1>2, <1>3, <1>4, <1>5, <1>6, <1>7, <1>8, <1>9 DEF Next, Handler, User

\* WindowInv is an invariant: the queue of calls holds the one for a new
\* torrent, or the alerts hold its answer, exactly while createDownload waits.
THEOREM WindowInvariant == Spec => []WindowInv
  BY WindowInit, WindowNext, PTL DEF Spec

\* The rows, the statuses, the calls and the alerts keep their types, for any
\* number of torrents, of rows for one torrent and of calls that wait.
THEOREM WindowTypeCorrect == Spec => []WindowTypeOK
  <1>1. WindowInv => WindowTypeOK
    BY DEF WindowInv
  <1> QED BY <1>1, WindowInvariant, PTL

\* Between handlers the buttons are those for the current row
\* (on_list_cur_torrents_currentItemChanged), whatever was selected, deleted,
\* paused or found finished since they were set.
THEOREM ButtonsAreForCurrentRow == Spec => []ButtonsMatchCurrentRow
  <1>1. WindowInv => ButtonsMatchCurrentRow
    BY StatesOfUI DEF WindowInv, ButtonsInv, ButtonsMatchCurrentRow
  <1> QED BY <1>1, WindowInvariant, PTL

(***************************************************************************)
(* RowInv: the rows and the session agree, if no torrent is in the list    *)
(* twice.  The row of a torrent that is being opened is not served yet.    *)
(***************************************************************************)

OldRows     == {i \in DOMAIN cur_torrens_ : ~Opened(cur_torrens_[i].name_)}
HandleOf(i) == converter[cur_torrens_[i].name_]

\* A call is under way that removes the torrent.
Removed(h) == \E k \in DOMAIN commands : commands[k].op = "remove" /\ commands[k].handle = h

\* The calls under way that pause or resume it, of which the last one counts.
Toggles(h) ==
  {k \in DOMAIN commands : commands[k].handle = h /\ commands[k].op \in {"pause", "resume"}}

WillLoad(h, download) ==
  /\ Toggles(h) = {} => (h \in auto_managed <=> download)
  /\ \A k \in Toggles(h) : (\A j \in Toggles(h) : j <= k) => (commands[k].op = "resume" <=> download)

NamesDiffer ==
  \A i, j \in DOMAIN cur_torrens_ : cur_torrens_[i].name_ = cur_torrens_[j].name_ => i = j

NewRowInv ==
  \A i \in DOMAIN cur_torrens_ \ OldRows : cur_torrens_[i].download_ /\ ~cur_torrens_[i].finished_

NewRowExists ==
  ui.at = "createDownload" => \E i \in DOMAIN cur_torrens_ : cur_torrens_[i].name_ = ui.name

OldRowsInv ==
  \A i \in OldRows :
    /\ HandleOf(i) \in DOMAIN torrents /\ ~Removed(HandleOf(i))
    /\ HandleOf(i) \in DOMAIN session_handles
    /\ WillLoad(HandleOf(i), cur_torrens_[i].download_)
    /\ cur_torrens_[i].finished_ => torrents[HandleOf(i)].complete

KnownInv ==
  \A h \in DOMAIN session_handles :
    /\ \E i \in OldRows : h = HandleOf(i)
    /\ session_handles[h].complete => torrents[h].complete

\* A torrent is in the list, about to be removed, or just added.
TorrentsInv ==
  \A h \in DOMAIN torrents :
    \/ \E i \in OldRows : h = HandleOf(i)
    \/ Current(h) /\ Removed(h)
    \/ CameAs(h) /\ h \in auto_managed /\ Opened(h[1])

\* An update that waits, of a torrent that is still there or was until lately,
\* does not call finished what is not.
AlertsInv ==
  \A k \in DOMAIN alerts : alerts[k].type = "state_update" =>
    \A h \in DOMAIN alerts[k].status :
      /\ h \in DOMAIN torrents \/ Current(h)
      /\ h \in DOMAIN torrents /\ alerts[k].status[h].complete => torrents[h].complete

RowInv ==
  /\ ui # Terminated
  /\ NamesDiffer /\ NewRowInv /\ NewRowExists /\ OldRowsInv
  /\ KnownInv /\ TorrentsInv /\ AlertsInv

LEMMA RowInit == Init => RowInv
  BY StatesOfUI DEF Init, APIInit, RowInv, NamesDiffer, NewRowInv, NewRowExists, OldRows, OldRowsInv,
                    KnownInv, TorrentsInv, AlertsInv

\* The handle of an old row bears its name, so that no two rows share one.
LEMMA HandlesOfRows ==
  ASSUME WindowInv
  PROVE  \A i \in OldRows : /\ i \in DOMAIN cur_torrens_
                            /\ cur_torrens_[i].name_ \in DOMAIN converter
                            /\ HandleOf(i) \in Handle
                            /\ HandleOf(i)[1] = cur_torrens_[i].name_
                            /\ Current(HandleOf(i))
  <1> SUFFICES ASSUME NEW i \in OldRows
               PROVE  /\ i \in DOMAIN cur_torrens_
                      /\ cur_torrens_[i].name_ \in DOMAIN converter
                      /\ HandleOf(i) \in Handle
                      /\ HandleOf(i)[1] = cur_torrens_[i].name_
                      /\ Current(HandleOf(i))
    OBVIOUS
  <1>1. i \in DOMAIN cur_torrens_ /\ cur_torrens_[i].name_ \in DOMAIN converter
    BY DEF OldRows, WindowInv, ConverterInv
  <1>2. HandleOf(i) \in Handle /\ HandleOf(i)[1] = cur_torrens_[i].name_
    BY <1>1, HandlesAreTyped DEF HandleOf, WindowInv, WindowTypeOK, ConverterInv
  <1> QED BY <1>1, <1>2 DEF Current, HandleOf

LEMMA HandlesDiffer ==
  ASSUME WindowInv, NamesDiffer
  PROVE  \A i, j \in OldRows : HandleOf(i) = HandleOf(j) => i = j
  BY HandlesOfRows DEF NamesDiffer

\* What the alerts say is true: a status that is complete is of a torrent that is.
LEMMA UpdatedIsTrue ==
  ASSUME WindowInv, RowInv
  PROVE  /\ DOMAIN Updated = DOMAIN session_handles
         /\ \A h \in DOMAIN session_handles : Updated[h].complete => torrents[h].complete
  <1>1. APITypeOK
    BY DEF WindowInv, WindowTypeOK
  <1>2. ASSUME NEW h \in DOMAIN session_handles, Updated[h].complete PROVE torrents[h].complete
    <2>1. h \in DOMAIN torrents
      BY DEF RowInv, KnownInv, OldRowsInv
    <2>2. FromAlerts(h, Updated[h])
      BY <1>1, UpdatedKeepsKeys
    <2>3. CASE Updated[h] = session_handles[h]
      BY <1>2, <2>3 DEF RowInv, KnownInv
    <2>4. CASE Updated[h] # session_handles[h]
      <3>1. PICK k \in DOMAIN alerts : /\ alerts[k].type = "state_update"
                                       /\ h \in DOMAIN alerts[k].status
                                       /\ Updated[h] = alerts[k].status[h]
        BY <2>2, <2>4 DEF FromAlerts
      <3> QED BY <1>2, <2>1, <3>1 DEF RowInv, AlertsInv
    <2> QED BY <2>3, <2>4
  <1> QED BY <1>1, <1>2, UpdatedKeepsKeys

\* Steps that do not touch the rows, the session or what is known of it.
LEMMA WindowStepKeepsRows ==
  ASSUME WindowInv, RowInv,
         Select \/ AskDelete \/ CancelDelete \/ BeginUpdate \/ EndUpdate \/ EndClose \/ CloseWindow
           \/ WorkerStep
  PROVE  RowInv'
  <1>1. UNCHANGED <<cur_torrens_, torrents, auto_managed, commands, alerts, converter, session_handles>>
    BY DEF Select, AskDelete, CancelDelete, BeginUpdate, EndUpdate, EndClose, CloseWindow, WorkerStep,
           window, api, session, queues, linker_
  <1>2. /\ ui' # Terminated
        /\ ui'.at = "createDownload" <=> ui.at = "createDownload"
        /\ ui.at = "createDownload" => UNCHANGED ui
    BY StatesOfUI DEF Select, AskDelete, CancelDelete, BeginUpdate, EndUpdate, EndClose, CloseWindow,
                      WorkerStep, Ready, window, RowInv
  <1>3. /\ \A n : Opened(n)' <=> Opened(n)
        /\ \A h : /\ CameAs(h)' <=> CameAs(h)
                  /\ Removed(h)' <=> Removed(h)
                  /\ Current(h)' <=> Current(h)
                  /\ Toggles(h)' = Toggles(h)
    BY <1>1, <1>2 DEF Opened, CameAs, added, Removed, Current, Toggles
  <1>4. OldRows' = OldRows
    BY <1>1, <1>3 DEF OldRows
  <1>5. NamesDiffer' /\ NewRowInv' /\ NewRowExists'
    BY <1>1, <1>2, <1>4 DEF RowInv, NamesDiffer, NewRowInv, NewRowExists
  <1>6. OldRowsInv'
    BY <1>1, <1>3, <1>4 DEF RowInv, OldRowsInv, HandleOf, WillLoad
  <1>7. KnownInv' /\ TorrentsInv' /\ AlertsInv'
    BY <1>1, <1>3, <1>4 DEF RowInv, KnownInv, TorrentsInv, AlertsInv, HandleOf
  <1> QED BY <1>2, <1>5, <1>6, <1>7 DEF RowInv

LEMMA NoAddAlertKeepsRows ==
  ASSUME WindowInv, RowInv, NoAddAlert, UNCHANGED <<ui, window, updates, thread>>
  PROVE  RowInv'
  <1>1. /\ UNCHANGED <<ui, cur_torrens_, torrents, auto_managed, commands, converter, session_handles>>
        /\ added = {} /\ alerts' = <<>>
    BY DEF NoAddAlert, PopAlerts, window, session, linker_
  <1>2. /\ \A n : Opened(n)' <=> Opened(n)
        /\ \A h : /\ ~CameAs(h)
                  /\ Removed(h)' <=> Removed(h)
                  /\ Current(h)' <=> Current(h)
                  /\ Toggles(h)' = Toggles(h)
    BY <1>1 DEF Opened, CameAs, Removed, Current, Toggles
  <1>3. OldRows' = OldRows
    BY <1>1, <1>2 DEF OldRows
  <1>4. NamesDiffer' /\ NewRowInv' /\ NewRowExists'
    BY <1>1, <1>3 DEF RowInv, NamesDiffer, NewRowInv, NewRowExists
  <1>5. OldRowsInv'
    BY <1>1, <1>2, <1>3 DEF RowInv, OldRowsInv, HandleOf, WillLoad
  <1>6. KnownInv' /\ TorrentsInv' /\ AlertsInv'
    BY <1>1, <1>2, <1>3 DEF RowInv, KnownInv, TorrentsInv, AlertsInv, HandleOf
  <1> QED BY <1>1, <1>4, <1>5, <1>6 DEF RowInv

\* The row that was opened is served from now on.
LEMMA AddAlertKeepsRows ==
  ASSUME WindowInv, RowInv, ui.at = "createDownload", AddAlert(ui.name), ui' = EventLoop,
         UNCHANGED <<window, updates, thread>>
  PROVE  RowInv'
  <1> DEFINE n == ui.name
  <1>1. PICK i \in added :
          /\ converter' = Put(converter, n, alerts[i].handle)
          /\ session_handles' = Put(session_handles, alerts[i].handle, torrents[alerts[i].handle])
    BY DEF AddAlert
  <1> DEFINE h == alerts[i].handle
  <1>2. added = {i} /\ commands = <<>> /\ h[1] = n /\ h \in DOMAIN torrents
    BY AlertIsOfName
  <1>3. converter' = Put(converter, n, h) /\ session_handles' = Put(session_handles, h, torrents[h])
    BY <1>1
  <1>4. \A g : CameAs(g) => g = h
    BY <1>2 DEF CameAs
  <1> HIDE DEF h
  <1>5. /\ UNCHANGED <<cur_torrens_, torrents, auto_managed, commands>> /\ alerts' = <<>>
    BY DEF AddAlert, PopAlerts, session, window
  <1>6. /\ \A g : ~Removed(g) /\ ~Removed(g)' /\ Toggles(g) = {} /\ Toggles(g)' = {}
        /\ \A m : ~Opened(m)'
    BY <1>2, <1>5, StatesOfUI DEF Removed, Toggles, Opened
  <1>7. OldRows' = DOMAIN cur_torrens_
    BY <1>5, <1>6 DEF OldRows
  <1>8. ASSUME NEW j \in OldRows
        PROVE  /\ HandleOf(j)' = HandleOf(j) /\ HandleOf(j) # h /\ j \in OldRows'
    <2>1. cur_torrens_[j].name_ # n /\ cur_torrens_[j].name_ \in DOMAIN converter
      BY HandlesOfRows DEF OldRows, Opened
    <2>2. converter'[cur_torrens_[j].name_] = converter[cur_torrens_[j].name_]
      BY <1>3, <2>1 DEF Put
    <2>3. HandleOf(j) # h
      BY <1>2, <2>1, HandlesOfRows
    <2> QED BY <1>5, <1>7, <2>2, <2>3 DEF HandleOf, OldRows
  <1>9. ASSUME NEW j \in DOMAIN cur_torrens_ \ OldRows
        PROVE  HandleOf(j)' = h /\ cur_torrens_[j].download_ /\ ~cur_torrens_[j].finished_
    <2>1. cur_torrens_[j].name_ = n
      BY DEF OldRows, Opened
    <2>2. converter'[n] = h
      BY <1>3 DEF Put
    <2> QED BY <1>5, <2>1, <2>2 DEF HandleOf, RowInv, NewRowInv
  <1>10. \E j \in DOMAIN cur_torrens_ \ OldRows : TRUE
    BY DEF RowInv, NewRowExists, OldRows, Opened
  <1>11. h \in auto_managed
    <2>1. \A j \in OldRows : h # HandleOf(j)
      BY <1>8
    <2> QED BY <1>2, <1>6, <2>1 DEF RowInv, TorrentsInv
  <1>12. /\ DOMAIN session_handles' = DOMAIN session_handles \cup {h} /\ session_handles'[h] = torrents[h]
         /\ \A g \in DOMAIN session_handles : g # h => session_handles'[g] = session_handles[g]
    BY <1>3 DEF Put
  <1>13. NamesDiffer' /\ NewRowInv' /\ NewRowExists' /\ ui' # Terminated
    BY <1>5, <1>7, StatesOfUI DEF RowInv, NamesDiffer, NewRowInv, NewRowExists
  <1>14. OldRowsInv'
    <2>1. ASSUME NEW j \in DOMAIN cur_torrens_
          PROVE  /\ HandleOf(j)' \in DOMAIN torrents /\ HandleOf(j)' \in DOMAIN session_handles'
                 /\ HandleOf(j)' \in auto_managed <=> cur_torrens_[j].download_
                 /\ cur_torrens_[j].finished_ => torrents[HandleOf(j)'].complete
      <3>1. CASE j \in OldRows
        BY <1>6, <1>8, <1>12, <3>1 DEF RowInv, OldRowsInv, WillLoad
      <3>2. CASE j \notin OldRows
        BY <1>2, <1>9, <1>11, <1>12, <3>2
      <3> QED BY <3>1, <3>2
    <2> QED BY <1>5, <1>6, <1>7, <2>1 DEF OldRowsInv, WillLoad
  <1>15. KnownInv'
    <2>1. ASSUME NEW g \in DOMAIN session_handles'
          PROVE  /\ \E j \in OldRows' : g = HandleOf(j)'
                 /\ session_handles'[g].complete => torrents[g].complete
      <3>1. CASE g = h
        BY <1>7, <1>9, <1>10, <1>12, <3>1
      <3>2. CASE g # h
        BY <1>8, <1>12, <3>2 DEF RowInv, KnownInv
      <3> QED BY <3>1, <3>2
    <2> QED BY <1>5, <2>1 DEF KnownInv
  <1>16. TorrentsInv'
    <2>1. ASSUME NEW g \in DOMAIN torrents PROVE \E j \in OldRows' : g = HandleOf(j)'
      <3>1. CASE g = h
        BY <1>7, <1>9, <1>10, <3>1
      <3>2. CASE g # h
        BY <1>4, <1>6, <1>8, <3>2 DEF RowInv, TorrentsInv
      <3> QED BY <3>1, <3>2
    <2> QED BY <1>5, <2>1 DEF TorrentsInv
  <1>17. AlertsInv'
    BY <1>5 DEF AlertsInv
  <1> QED BY <1>13, <1>14, <1>15, <1>16, <1>17 DEF RowInv

LEMMA UpdateRowKeepsRows == ASSUME WindowInv, RowInv, UpdateRow PROVE RowInv'
  <1> DEFINE i == ui.index
             name == cur_torrens_[i].name_
             h == converter[name]
  <1>1. ui.at = "update_statistic" /\ i \in DOMAIN cur_torrens_ /\ cur_torrens_[i] \in Torrent
    BY StateIsKnown, RowIsTyped DEF UpdateRow, WindowInv
  <1>2. /\ \A m : ~Opened(m) /\ ~Opened(m)'
        /\ OldRows = DOMAIN cur_torrens_ /\ ui' # Terminated /\ ui'.at = "update_statistic"
    <2>1. ui' = Updating(i + 1) /\ i + 1 \in Nat \ {0}
      BY <1>1, StateIsKnown DEF UpdateRow, WindowInv
    <2> QED BY <1>1, <2>1, StatesOfUI DEF Opened, OldRows
  <1>3. h = HandleOf(i) /\ i \in OldRows /\ h \in DOMAIN torrents /\ h \in DOMAIN session_handles
    BY <1>1, <1>2 DEF HandleOf, RowInv, OldRowsInv
  <1>4. /\ UNCHANGED <<torrents, auto_managed, commands, converter>> /\ alerts' = <<>>
        /\ session_handles' = Updated
    BY <1>3, UpdatedIsTrue DEF UpdateRow, getInfo, PopAlerts, session, Inserted
  <1>5. /\ DOMAIN session_handles' = DOMAIN session_handles
        /\ \A g \in DOMAIN session_handles : session_handles'[g].complete => torrents[g].complete
    BY <1>4, UpdatedIsTrue
  <1>6. cur_torrens_' = [cur_torrens_ EXCEPT ![i].finished_ =
                           cur_torrens_[i].finished_ \/ session_handles'[h].complete]
    BY DEF UpdateRow
  <1>7. /\ DOMAIN cur_torrens_' = DOMAIN cur_torrens_
        /\ \A j \in DOMAIN cur_torrens_ :
             /\ cur_torrens_'[j].name_ = cur_torrens_[j].name_
             /\ cur_torrens_'[j].download_ = cur_torrens_[j].download_
             /\ cur_torrens_'[j].finished_ =>
                  cur_torrens_[j].finished_ \/ (j = i /\ session_handles'[h].complete)
    <2> DEFINE done == session_handles'[h].complete
               row == [cur_torrens_[i] EXCEPT !.finished_ = cur_torrens_[i].finished_ \/ done]
    <2>1. cur_torrens_' = [cur_torrens_ EXCEPT ![i] = row]
      BY <1>6
    <2> HIDE DEF done, h
    <2>2. /\ row.name_ = cur_torrens_[i].name_ /\ row.download_ = cur_torrens_[i].download_
          /\ row.finished_ = (cur_torrens_[i].finished_ \/ done)
      BY <1>1 DEF Torrent
    <2> HIDE DEF row, i
    <2>3. /\ DOMAIN cur_torrens_' = DOMAIN cur_torrens_
          /\ \A j \in DOMAIN cur_torrens_ : cur_torrens_'[j] = IF j = i THEN row ELSE cur_torrens_[j]
      BY <1>1, <2>1 DEF i
    <2> QED BY <2>2, <2>3 DEF done, h, i
  <1> HIDE DEF h, i
  <1>8. OldRows' = OldRows /\ \A j \in OldRows : HandleOf(j)' = HandleOf(j)
    BY <1>2, <1>4, <1>7 DEF OldRows, HandleOf
  <1>9. added = {} /\ \A g : /\ ~CameAs(g)
                             /\ Removed(g)' <=> Removed(g)
                             /\ Current(g)' <=> Current(g)
                             /\ Toggles(g)' = Toggles(g)
    <2>1. added = {}
      BY <1>1, NothingIsAdded
    <2> QED BY <1>4, <2>1 DEF CameAs, Removed, Current, Toggles
  <1>10. NamesDiffer' /\ NewRowInv' /\ NewRowExists'
    BY <1>2, <1>7, <1>8 DEF RowInv, NamesDiffer, NewRowInv, NewRowExists
  <1>11. OldRowsInv'
    <2>1. ASSUME NEW j \in OldRows, cur_torrens_'[j].finished_ PROVE torrents[HandleOf(j)].complete
      <3>1. CASE cur_torrens_[j].finished_
        BY <3>1 DEF RowInv, OldRowsInv
      <3>2. CASE ~cur_torrens_[j].finished_
        BY <1>2, <1>3, <1>5, <1>7, <2>1, <3>2
      <3> QED BY <3>1, <3>2
    <2>2. ASSUME NEW j \in OldRows PROVE WillLoad(HandleOf(j), cur_torrens_[j].download_)'
      <3>1. WillLoad(HandleOf(j), cur_torrens_[j].download_) /\ cur_torrens_'[j].download_ = cur_torrens_[j].download_
        BY <1>2, <1>7 DEF RowInv, OldRowsInv
      <3> QED BY <1>4, <1>8, <1>9, <3>1 DEF WillLoad
    <2> QED BY <1>4, <1>5, <1>8, <1>9, <2>1, <2>2 DEF RowInv, OldRowsInv
  <1>12. KnownInv' /\ TorrentsInv' /\ AlertsInv'
    BY <1>4, <1>5, <1>8, <1>9 DEF RowInv, KnownInv, TorrentsInv, AlertsInv
  <1> QED BY <1>2, <1>10, <1>11, <1>12 DEF RowInv

\* A torrent that is opened is in no row.
LEMMA NoRowHasName ==
  ASSUME WindowInv, NEW n, Cardinality(RowsNamed(n)) < 1
  PROVE  \A i \in DOMAIN cur_torrens_ : cur_torrens_[i].name_ # n
  <1>1. IsFiniteSet(DOMAIN cur_torrens_)
    BY RowIsTyped, FS_Interval DEF WindowInv
  <1>2. IsFiniteSet(RowsNamed(n))
    BY <1>1, FS_Subset DEF RowsNamed
  <1>3. RowsNamed(n) = {}
    BY <1>2, FS_CardinalityType, FS_EmptySet
  <1> QED BY <1>3 DEF RowsNamed

\* What an asynchronous call adds to the queue.
LEMMA AppendedCommand ==
  ASSUME APITypeOK, NEW op \in {"add", "remove", "pause", "resume"}, NEW h \in Handle,
         commands' = Append(commands, [op |-> op, handle |-> h])
  PROVE  /\ \A g : Removed(g)' <=> Removed(g) \/ (op = "remove" /\ g = h)
         /\ \A g : Toggles(g)' = IF g = h /\ op \in {"pause", "resume"}
                                 THEN Toggles(g) \cup {Len(commands) + 1} ELSE Toggles(g)
         /\ \A k \in DOMAIN commands : k <= Len(commands) /\ commands'[k] = commands[k]
         /\ Len(commands) \in Nat /\ DOMAIN commands = 1..Len(commands)
         /\ commands'[Len(commands) + 1].op = op
  <1> DEFINE c == [op |-> op, handle |-> h]
             m == Len(commands)
  <1>1. c \in Command /\ c.op = op /\ c.handle = h /\ commands \in Seq(Command)
    BY DEF Command, APITypeOK
  <1> HIDE DEF c
  <1>2. /\ commands' \in Seq(Command) /\ Len(commands') = m + 1 /\ m \in Nat
        /\ \A k \in 1..m : commands'[k] = commands[k]
        /\ commands'[m + 1] = c
    BY <1>1, AppendProperties DEF c
  <1>3. DOMAIN commands = 1..m /\ DOMAIN commands' = (1..m) \cup {m + 1}
    BY <1>1, <1>2
  <1> HIDE DEF m
  <1>4. \A g : Removed(g)' <=> Removed(g) \/ (op = "remove" /\ g = h)
    BY <1>1, <1>2, <1>3 DEF Removed
  <1>5. ASSUME NEW g
        PROVE  Toggles(g)' = IF g = h /\ op \in {"pause", "resume"} THEN Toggles(g) \cup {m + 1} ELSE Toggles(g)
    <2>1. \A k \in DOMAIN commands' : k \in Toggles(g)' <=>
            IF k = m + 1 THEN g = h /\ op \in {"pause", "resume"} ELSE k \in Toggles(g)
      BY <1>1, <1>2, <1>3 DEF Toggles
    <2>2. Toggles(g)' \subseteq DOMAIN commands' /\ Toggles(g) \subseteq DOMAIN commands /\ m + 1 \notin DOMAIN commands
      BY <1>2, <1>3 DEF Toggles
    <2> QED BY <1>3, <2>1, <2>2
  <1> QED BY <1>1, <1>2, <1>3, <1>4, <1>5 DEF m

LEMMA OpenTorrentKeepsRows ==
  ASSUME WindowInv, RowInv, ROWS_PER_NAME = 1, OpenTorrent
  PROVE  RowInv'
  <1> DEFINE row(n) == [name_ |-> n, download_ |-> TRUE, finished_ |-> FALSE]
             m == Len(cur_torrens_)
  <1>1. PICK n \in Name : /\ Cardinality(RowsNamed(n)) < 1
                          /\ cur_torrens_' = Append(cur_torrens_, row(n))
                          /\ commands' = Append(commands, [op |-> "add", handle |-> <<n, 0>>])
                          /\ ui' = Creating(n)
    BY DEF OpenTorrent, async_add_torrent
  <1>2. UNCHANGED <<torrents, auto_managed, alerts, converter, session_handles>> /\ ui = EventLoop
    BY DEF OpenTorrent, session, linker_, Ready
  <1>3. /\ row(n) \in Torrent /\ row(n).name_ = n /\ row(n).download_ /\ ~row(n).finished_
        /\ cur_torrens_ \in Seq(Torrent)
    BY DEF Torrent, WindowInv, WindowTypeOK
  <1> HIDE DEF row
  <1>4. /\ DOMAIN cur_torrens_ = 1..m /\ DOMAIN cur_torrens_' = (1..m) \cup {m + 1} /\ m \in Nat
        /\ \A i \in 1..m : cur_torrens_'[i] = cur_torrens_[i]
        /\ cur_torrens_'[m + 1] = row(n)
    BY <1>1, <1>3, AppendProperties
  <1> HIDE DEF m
  <1>5. \A i \in 1..m : cur_torrens_[i].name_ # n
    BY <1>1, <1>4, NoRowHasName
  <1>6. /\ \A k : ~Opened(k) /\ (Opened(k)' <=> k = n)
        /\ ui.at = "event_loop" /\ ui' # Terminated /\ ui'.name = n
    BY <1>1, <1>2, StatesOfUI DEF Opened
  <1>7. OldRows = 1..m /\ OldRows' = 1..m
    <2>1. OldRows' = {i \in (1..m) \cup {m + 1} : cur_torrens_'[i].name_ # n}
      BY <1>4, <1>6 DEF OldRows
    <2> QED BY <1>3, <1>4, <1>5, <1>6, <2>1 DEF OldRows
  <1>8. \A i \in 1..m : HandleOf(i)' = HandleOf(i)
    BY <1>2, <1>4 DEF HandleOf
  <1>9. added = {}
    BY <1>6, NothingIsAdded
  <1>10. /\ \A g : /\ ~CameAs(g)
                   /\ Removed(g)' <=> Removed(g)
                   /\ Current(g)' <=> Current(g)
                   /\ Toggles(g)' = Toggles(g)
         /\ \A k \in DOMAIN commands : commands'[k] = commands[k]
    <2>1. <<n, 0>> \in Handle /\ APITypeOK
      BY DEF Handle, WindowInv, WindowTypeOK
    <2>2. /\ \A g : (Removed(g)' <=> Removed(g)) /\ Toggles(g)' = Toggles(g)
          /\ \A k \in DOMAIN commands : commands'[k] = commands[k]
      BY <1>1, <2>1, AppendedCommand
    <2> QED BY <1>2, <1>9, <2>2 DEF CameAs, Current
  <1>11. NamesDiffer'
    <2>1. ASSUME NEW i \in DOMAIN cur_torrens_', NEW j \in DOMAIN cur_torrens_',
                 cur_torrens_'[i].name_ = cur_torrens_'[j].name_
          PROVE  i = j
      BY <1>3, <1>4, <1>5, <2>1 DEF RowInv, NamesDiffer
    <2> QED BY <2>1 DEF NamesDiffer
  <1>12. NewRowInv' /\ NewRowExists'
    BY <1>3, <1>4, <1>6, <1>7 DEF NewRowInv, NewRowExists
  <1>13. OldRowsInv'
    <2>1. ASSUME NEW i \in 1..m PROVE WillLoad(HandleOf(i), cur_torrens_[i].download_)'
      <3>1. WillLoad(HandleOf(i), cur_torrens_[i].download_) /\ cur_torrens_'[i] = cur_torrens_[i]
        BY <1>4, <1>7 DEF RowInv, OldRowsInv
      <3>2. Toggles(HandleOf(i)) \subseteq DOMAIN commands
        BY DEF Toggles
      <3> QED BY <1>2, <1>8, <1>10, <3>1, <3>2 DEF WillLoad
    <2> QED BY <1>2, <1>4, <1>7, <1>8, <1>10, <2>1 DEF RowInv, OldRowsInv
  <1>14. KnownInv' /\ TorrentsInv' /\ AlertsInv'
    BY <1>2, <1>7, <1>8, <1>10 DEF RowInv, KnownInv, TorrentsInv, AlertsInv
  <1> QED BY <1>6, <1>11, <1>12, <1>13, <1>14 DEF RowInv

\* A torrent in the list is there to be paused, and its last call counts.
LEMMA PauseOrStartKeepsRows ==
  ASSUME WindowInv, RowInv, Pause \/ Start
  PROVE  RowInv'
  <1>1. PICK download \in BOOLEAN, button \in {"pause", "start"}, other \in {"pause", "start"},
             op \in {"pause", "resume"} :
          /\ PauseOrStart(button, other, download, op)
          /\ op = "resume" <=> download
    BY DEF Pause, Start
  <1> DEFINE i == currentRow
             name == cur_torrens_[i].name_
             h == converter[name]
             changed_row == [cur_torrens_[i] EXCEPT !.download_ = download]
  <1>2. /\ ui = EventLoop /\ ui.at = "event_loop" /\ button \in ButtonsFor(cur_torrens_, i)
    BY <1>1, StatesOfUI DEF PauseOrStart, Ready, WindowInv, ButtonsInv
  <1>3. i \in DOMAIN cur_torrens_ /\ cur_torrens_[i] \in Torrent /\ cur_torrens_ \in Seq(Torrent)
    <2>1. i # 0
      BY <1>2 DEF ButtonsFor
    <2> QED BY <2>1, RowIsTyped DEF WindowInv, WindowTypeOK
  <1>4. \A n : ~Opened(n)
    BY <1>2 DEF Opened
  <1>5. OldRows = DOMAIN cur_torrens_
    BY <1>4 DEF OldRows
  <1>6. h = HandleOf(i) /\ h \in DOMAIN torrents /\ HandleIsValid(name)
    BY <1>3, <1>5 DEF HandleOf, RowInv, OldRowsInv, HandleIsValid
  <1>7. /\ UNCHANGED <<torrents, auto_managed, converter>> /\ alerts' = <<>> /\ session_handles' = Updated
        /\ commands' = Append(commands, [op |-> op, handle |-> h]) /\ UNCHANGED ui
    BY <1>1, <1>6 DEF PauseOrStart, pauseDownload, PopAlerts, session
  <1>8. /\ changed_row.name_ = name /\ changed_row.download_ = download
        /\ changed_row.finished_ = cur_torrens_[i].finished_
        /\ DOMAIN cur_torrens_' = DOMAIN cur_torrens_
        /\ \A j \in DOMAIN cur_torrens_ : cur_torrens_'[j] = IF j = i THEN changed_row ELSE cur_torrens_[j]
    <2>1. /\ changed_row.name_ = name /\ changed_row.download_ = download
          /\ changed_row.finished_ = cur_torrens_[i].finished_
      BY <1>3 DEF Torrent
    <2>2. cur_torrens_' = [cur_torrens_ EXCEPT ![i] = changed_row]
      BY <1>1 DEF PauseOrStart
    <2> HIDE DEF changed_row, i
    <2> QED BY <1>3, <2>1, <2>2 DEF i
  <1> HIDE DEF changed_row, h, i
  <1>9. /\ \A j \in DOMAIN cur_torrens_ :
             /\ cur_torrens_'[j].name_ = cur_torrens_[j].name_
             /\ cur_torrens_'[j].finished_ = cur_torrens_[j].finished_
             /\ cur_torrens_'[j].download_ = IF j = i THEN download ELSE cur_torrens_[j].download_
    BY <1>8 DEF i
  <1>10. /\ \A n : ~Opened(n)' /\ ui'.at # "createDownload"
         /\ OldRows' = OldRows /\ \A j \in OldRows : HandleOf(j)' = HandleOf(j)
    BY <1>2, <1>4, <1>5, <1>7, <1>8, <1>9 DEF Opened, OldRows, HandleOf
  <1>11. /\ DOMAIN session_handles' = DOMAIN session_handles
         /\ \A g \in DOMAIN session_handles : session_handles'[g].complete => torrents[g].complete
    BY <1>7, UpdatedIsTrue
  <1>12. APITypeOK /\ h \in Handle
    BY <1>3, <1>5, <1>6, HandlesOfRows DEF WindowInv, WindowTypeOK
  <1>13. /\ \A g : /\ Removed(g)' <=> Removed(g)
                   /\ Toggles(g)' = IF g = h THEN Toggles(g) \cup {Len(commands) + 1} ELSE Toggles(g)
         /\ \A k \in DOMAIN commands : k <= Len(commands) /\ commands'[k] = commands[k]
         /\ Len(commands) \in Nat /\ DOMAIN commands = 1..Len(commands)
         /\ commands'[Len(commands) + 1].op = op
    BY <1>7, <1>12, AppendedCommand
  <1>14. added = {} /\ \A g : ~CameAs(g) /\ (Current(g)' <=> Current(g))
    <2>1. added = {}
      BY <1>2, NothingIsAdded
    <2> QED BY <1>7, <2>1 DEF CameAs, Current
  <1>15. NamesDiffer' /\ NewRowInv' /\ NewRowExists'
    BY <1>5, <1>8, <1>9, <1>10 DEF RowInv, NamesDiffer, NewRowInv, NewRowExists
  <1>16. ASSUME NEW j \in OldRows
         PROVE  WillLoad(HandleOf(j), cur_torrens_[j].download_)'
    <2> DEFINE g == HandleOf(j)
    <2>1. Toggles(g) \subseteq DOMAIN commands
      BY DEF Toggles
    <2>2. CASE j = i
      <3>1. g = h /\ Toggles(g)' = Toggles(g) \cup {Len(commands) + 1}
        <4>1. g = h /\ g' = g
          BY <1>6, <1>10, <2>2
        <4> HIDE DEF g
        <4> QED BY <1>13, <4>1
      <3>2. \A k \in Toggles(g)' : (\A l \in Toggles(g)' : l <= k) => k = Len(commands) + 1
        BY <1>13, <2>1, <3>1
      <3>3. cur_torrens_'[j].download_ = download
        BY <1>5, <1>9, <2>2
      <3>4. g' = g
        BY <1>10
      <3> HIDE DEF g
      <3>5. WillLoad(g, download)'
        BY <1>1, <1>7, <1>13, <3>1, <3>2 DEF WillLoad
      <3> QED BY <3>3, <3>4, <3>5 DEF g, WillLoad
    <2>3. CASE j # i
      <3>1. g # h
        BY <1>3, <1>5, <1>6, <2>3, HandlesDiffer DEF RowInv
      <3>2. WillLoad(g, cur_torrens_[j].download_) /\ cur_torrens_'[j].download_ = cur_torrens_[j].download_
        BY <1>5, <1>9, <2>3 DEF RowInv, OldRowsInv
      <3>3. g' = g /\ Toggles(g)' = Toggles(g) /\ \A k \in Toggles(g) : commands'[k] = commands[k]
        BY <1>10, <1>13, <2>1, <3>1
      <3> QED BY <1>7, <3>2, <3>3 DEF WillLoad
    <2> QED BY <2>2, <2>3
  <1>17. OldRowsInv'
    BY <1>5, <1>7, <1>9, <1>10, <1>11, <1>13, <1>16 DEF RowInv, OldRowsInv
  <1>18. KnownInv' /\ TorrentsInv' /\ AlertsInv'
    BY <1>7, <1>10, <1>11, <1>13, <1>14 DEF RowInv, KnownInv, TorrentsInv, AlertsInv
  <1>19. ui' # Terminated
    BY <1>2, <1>7, StatesOfUI
  <1> QED BY <1>15, <1>17, <1>18, <1>19 DEF RowInv

\* The number that a row had before row i of n was deleted.
RowBefore(n, i) == [j \in 1..n-1 |-> IF j < i THEN j ELSE j + 1]

\* The rows that are left are the others, each once.
LEMMA RowsWithout ==
  ASSUME NEW S, NEW s \in Seq(S), NEW i \in 1..Len(s)
  PROVE  LET n   == Len(s)
             old == RowBefore(n, i)
         IN  /\ old \in [1..n-1 -> (1..n) \ {i}]
             /\ \A j \in 1..n-1 : RemoveAt(s, i)[j] = s[old[j]]
             /\ \A j, k \in 1..n-1 : old[j] = old[k] => j = k
             /\ \A k \in (1..n) \ {i} : \E j \in 1..n-1 : old[j] = k
  <1> USE DEF RowBefore
  <1> DEFINE n == Len(s)
             old == RowBefore(n, i)
  <1>1. n \in Nat
    OBVIOUS
  <1>2. \A j \in 1..n-1 : RemoveAt(s, i)[j] = s[old[j]]
    BY RemovedAt
  <1> HIDE DEF n
  <1>3. old \in [1..n-1 -> (1..n) \ {i}]
    BY <1>1
  <1>4. \A j, k \in 1..n-1 : old[j] = old[k] => j = k
    BY <1>1
  <1>5. ASSUME NEW k \in (1..n) \ {i} PROVE \E j \in 1..n-1 : old[j] = k
    <2>1. CASE k < i
      <3>1. k \in 1..n-1 /\ old[k] = k
        BY <1>1, <2>1 DEF n
      <3> QED BY <3>1
    <2>2. CASE k > i
      <3>1. k - 1 \in 1..n-1 /\ old[k - 1] = k
        BY <1>1, <2>2 DEF n
      <3> QED BY <3>1
    <2> QED BY <1>1, <2>1, <2>2 DEF n
  <1> HIDE DEF RowBefore
  <1> QED BY <1>2, <1>3, <1>4, <1>5 DEF n

\* A row that is deleted leaves nothing that is known, and a call that removes
\* its torrent.
LEMMA AnswerDeleteKeepsRows ==
  ASSUME WindowInv, RowInv, AnswerDelete
  PROVE  RowInv'
  <1> DEFINE i == currentRow
             name == cur_torrens_[i].name_
             h == converter[name]
             n == Len(cur_torrens_)
  <1>1. ui = EventLoop /\ ui.at = "event_loop" /\ box
    BY StatesOfUI DEF AnswerDelete
  <1>2. /\ n \in Nat /\ i \in 1..n /\ DOMAIN cur_torrens_ = 1..n /\ cur_torrens_ \in Seq(Torrent)
    BY <1>1, RowIsTyped DEF WindowInv, WindowTypeOK, BoxInv
  <1>3. \A m : ~Opened(m)
    BY <1>1, StatesOfUI DEF Opened
  <1>4. OldRows = 1..n
    BY <1>2, <1>3 DEF OldRows
  <1>5. h = HandleOf(i) /\ h \in DOMAIN torrents /\ h \in DOMAIN session_handles /\ HandleIsValid(name)
    BY <1>2, <1>4 DEF HandleOf, RowInv, OldRowsInv, HandleIsValid
  <1>t. ui' = EventLoop /\ \A m : ~Opened(m)'
    BY <1>1, <1>5, StatesOfUI DEF AnswerDelete, RemoveOrThrow, RemoveThrows, Opened
  <1>6. /\ UNCHANGED <<torrents, auto_managed, converter>> /\ alerts' = <<>>
        /\ session_handles' = Restrict(Updated, DOMAIN Updated \ {h})
        /\ commands' = Append(commands, [op |-> "remove", handle |-> h])
    BY <1>5, UpdatedIsTrue DEF AnswerDelete, RemoveOrThrow, removeDownload, PopAlerts, session
  <1>7. /\ DOMAIN session_handles' = DOMAIN session_handles \ {h}
        /\ \A g \in DOMAIN session_handles' : session_handles'[g].complete => torrents[g].complete
    BY <1>6, UpdatedIsTrue DEF Restrict
  <1> DEFINE old == RowBefore(n, i)
  <1>8. /\ old \in [1..n-1 -> (1..n) \ {i}]
        /\ \A j \in 1..n-1 : cur_torrens_'[j] = cur_torrens_[old[j]]
        /\ \A j, k \in 1..n-1 : old[j] = old[k] => j = k
        /\ \A k \in (1..n) \ {i} : \E j \in 1..n-1 : old[j] = k
    <2>1. cur_torrens_' = RemoveAt(cur_torrens_, i)
      BY DEF AnswerDelete
    <2> QED BY <1>2, <2>1, RowsWithout
  <1>9. DOMAIN cur_torrens_' = 1..n-1
    <2>1. cur_torrens_' = RemoveAt(cur_torrens_, i)
      BY DEF AnswerDelete
    <2> QED BY <1>2, <2>1, RemovedAt
  <1>10. APITypeOK /\ h \in Handle /\ Current(h)
    BY <1>2, <1>4, <1>5, HandlesOfRows DEF WindowInv, WindowTypeOK
  <1> HIDE DEF h, n, i, old
  <1>11. /\ \A g : /\ Removed(g)' <=> Removed(g) \/ g = h
                   /\ Toggles(g)' = Toggles(g)
         /\ \A k \in DOMAIN commands : commands'[k] = commands[k]
    BY <1>6, <1>10, AppendedCommand
  <1>12. added = {} /\ \A g : ~CameAs(g) /\ (Current(g)' <=> Current(g))
    <2>1. added = {}
      BY <1>1, NothingIsAdded
    <2> QED BY <1>6, <2>1 DEF CameAs, Current
  <1>13. OldRows' = 1..n-1
    BY <1>9, <1>t DEF OldRows
  <1>14. \A j \in 1..n-1 : /\ old[j] \in OldRows /\ old[j] \in DOMAIN cur_torrens_ /\ old[j] # i
                           /\ HandleOf(j)' = HandleOf(old[j])
    BY <1>2, <1>4, <1>6, <1>8 DEF HandleOf
  <1>15. \A j \in OldRows : j # i => HandleOf(j) # h
    BY <1>2, <1>4, <1>5, HandlesDiffer DEF RowInv
  <1>16. NamesDiffer'
    <2>1. ASSUME NEW j \in 1..n-1, NEW k \in 1..n-1, cur_torrens_'[j].name_ = cur_torrens_'[k].name_
          PROVE  j = k
      BY <1>8, <1>14, <2>1 DEF RowInv, NamesDiffer
    <2> QED BY <1>9, <2>1 DEF NamesDiffer
  <1>17. NewRowInv' /\ NewRowExists'
    BY <1>9, <1>13, <1>t, StatesOfUI DEF NewRowInv, NewRowExists
  <1>18. OldRowsInv'
    <2>1. ASSUME NEW j \in 1..n-1
          PROVE  /\ HandleOf(j)' \in DOMAIN torrents' /\ ~Removed(HandleOf(j))'
                 /\ HandleOf(j)' \in DOMAIN session_handles'
                 /\ WillLoad(HandleOf(j), cur_torrens_[j].download_)'
                 /\ cur_torrens_'[j].finished_ => torrents'[HandleOf(j)'].complete
      <3> DEFINE k == old[j]
                 g == HandleOf(k)
      <3>1. /\ k \in OldRows /\ k # i /\ HandleOf(j)' = g /\ cur_torrens_'[j] = cur_torrens_[k]
        BY <1>8, <1>14
      <3>2. /\ g \in DOMAIN torrents /\ ~Removed(g) /\ g \in DOMAIN session_handles
            /\ WillLoad(g, cur_torrens_[k].download_)
            /\ cur_torrens_[k].finished_ => torrents[g].complete
        BY <3>1 DEF RowInv, OldRowsInv
      <3>3. g # h
        BY <1>15, <3>1
      <3>4. Toggles(g) \subseteq DOMAIN commands
        BY DEF Toggles
      <3> HIDE DEF k, g
      <3>5. WillLoad(HandleOf(j), cur_torrens_[j].download_)'
        BY <1>6, <1>11, <3>1, <3>2, <3>4 DEF WillLoad
      <3> QED BY <1>6, <1>7, <1>11, <3>1, <3>2, <3>3, <3>5
    <2> QED BY <1>13, <2>1 DEF OldRowsInv
  <1>19. ASSUME NEW g, \E j \in OldRows : g = HandleOf(j), g # h
         PROVE  \E j \in OldRows' : g = HandleOf(j)'
    <2>1. PICK k \in OldRows : g = HandleOf(k)
      BY <1>19
    <2>2. k # i
      BY <1>5, <1>19, <2>1 DEF h, i
    <2>3. PICK j \in 1..n-1 : old[j] = k
      BY <1>4, <1>8, <2>2
    <2> QED BY <1>13, <1>14, <2>1, <2>3
  <1>20. KnownInv'
    BY <1>6, <1>7, <1>19 DEF RowInv, KnownInv
  <1>21. TorrentsInv'
    <2>1. ASSUME NEW g \in DOMAIN torrents
          PROVE  (\E j \in OldRows' : g = HandleOf(j)') \/ (Current(g)' /\ Removed(g)')
      <3>1. CASE g = h
        BY <1>10, <1>11, <1>12, <3>1
      <3>2. CASE g # h
        BY <1>11, <1>12, <1>19, <3>2 DEF RowInv, TorrentsInv
      <3> QED BY <3>1, <3>2
    <2> QED BY <1>6, <2>1 DEF TorrentsInv
  <1>22. AlertsInv' /\ ui' # Terminated
    BY <1>6, <1>t, StatesOfUI DEF AlertsInv
  <1> QED BY <1>16, <1>17, <1>18, <1>20, <1>21, <1>22 DEF RowInv

LEMMA DownloadKeepsRows == ASSUME WindowInv, RowInv, Download PROVE RowInv'
  <1>1. /\ UNCHANGED <<cur_torrens_, ui, commands, alerts, converter, session_handles, auto_managed>>
        /\ DOMAIN torrents' = DOMAIN torrents
        /\ \A h \in DOMAIN torrents : torrents[h].complete => torrents'[h].complete
    BY ProgressEffect DEF Download, window, WindowInv, WindowTypeOK
  <1>2. /\ \A n : Opened(n)' <=> Opened(n)
        /\ \A h : /\ CameAs(h)' <=> CameAs(h)
                  /\ Removed(h)' <=> Removed(h)
                  /\ Current(h)' <=> Current(h)
                  /\ Toggles(h)' = Toggles(h)
    BY <1>1 DEF Opened, CameAs, added, Removed, Current, Toggles
  <1>3. OldRows' = OldRows /\ \A j \in OldRows : HandleOf(j)' = HandleOf(j)
    BY <1>1, <1>2 DEF OldRows, HandleOf
  <1>4. NamesDiffer' /\ NewRowInv' /\ NewRowExists'
    BY <1>1, <1>3 DEF RowInv, NamesDiffer, NewRowInv, NewRowExists
  <1>5. OldRowsInv'
    BY <1>1, <1>2, <1>3 DEF RowInv, OldRowsInv, WillLoad
  <1>6. KnownInv'
    <2>1. \A h \in DOMAIN session_handles : h \in DOMAIN torrents
      BY DEF RowInv, KnownInv, OldRowsInv
    <2> QED BY <1>1, <1>3, <2>1 DEF RowInv, KnownInv
  <1>7. TorrentsInv' /\ AlertsInv'
    BY <1>1, <1>2, <1>3 DEF RowInv, TorrentsInv, AlertsInv
  <1> QED BY <1>1, <1>4, <1>5, <1>6, <1>7 DEF RowInv

\* An update tells what is so when it is posted.
LEMMA SessionUpdateKeepsRows == ASSUME WindowInv, RowInv, SessionUpdate PROVE RowInv'
  <1> DEFINE a == [type |-> "state_update", status |-> Restrict(torrents, changed)]
             m == Len(alerts)
  <1>1. APITypeOK /\ PostUpdates
    BY DEF WindowInv, WindowTypeOK, SessionUpdate
  <1>2. UNCHANGED <<cur_torrens_, ui, commands, converter, session_handles, auto_managed, torrents>>
    BY <1>1 DEF SessionUpdate, PostUpdates, window, linker_
  <1>3. /\ a \in Alert /\ a.type = "state_update" /\ DOMAIN a.status \subseteq DOMAIN torrents
        /\ \A h \in DOMAIN a.status : a.status[h] = torrents[h]
        /\ alerts \in Seq(Alert) /\ m \in Nat /\ DOMAIN alerts = 1..m
    <2>1. Restrict(torrents, changed) \in [changed -> Status] /\ changed \in SUBSET Handle
      BY <1>1 DEF Restrict, APITypeOK
    <2>2. a \in Alert
      BY <2>1, AlertIsTyped
    <2>3. /\ DOMAIN Restrict(torrents, changed) = changed
          /\ \A h \in changed : Restrict(torrents, changed)[h] = torrents[h]
      BY DEF Restrict
    <2> QED BY <1>1, <2>2, <2>3 DEF APITypeOK
  <1>4. \/ UNCHANGED alerts
        \/ /\ DOMAIN alerts' = (1..m) \cup {m + 1} /\ alerts'[m + 1] = a
           /\ \A k \in 1..m : alerts'[k] = alerts[k]
    <2>1. CASE alerts' = Append(alerts, a)
      <3> HIDE DEF a
      <3>1. /\ alerts' \in Seq(Alert) /\ Len(alerts') = m + 1 /\ alerts'[m + 1] = a
            /\ \A k \in 1..m : alerts'[k] = alerts[k]
        BY <1>3, <2>1, AppendProperties
      <3>2. DOMAIN alerts' = (1..m) \cup {m + 1}
        BY <1>3, <3>1
      <3> QED BY <3>1, <3>2
    <2> QED BY <1>1, <2>1 DEF PostUpdates
  <1> HIDE DEF a, m
  <1>5. added' = added /\ \A k \in added : alerts'[k] = alerts[k]
    BY <1>3, <1>4 DEF added
  <1>6. /\ \A n : Opened(n)' <=> Opened(n)
        /\ \A h : /\ CameAs(h)' <=> CameAs(h)
                  /\ Removed(h)' <=> Removed(h)
                  /\ Current(h)' <=> Current(h)
                  /\ Toggles(h)' = Toggles(h)
    BY <1>2, <1>5 DEF Opened, CameAs, Removed, Current, Toggles
  <1>7. OldRows' = OldRows /\ \A j \in OldRows : HandleOf(j)' = HandleOf(j)
    BY <1>2, <1>6 DEF OldRows, HandleOf
  <1>8. NamesDiffer' /\ NewRowInv' /\ NewRowExists'
    BY <1>2, <1>7 DEF RowInv, NamesDiffer, NewRowInv, NewRowExists
  <1>9. OldRowsInv' /\ KnownInv' /\ TorrentsInv'
    BY <1>2, <1>6, <1>7 DEF RowInv, OldRowsInv, WillLoad, KnownInv, TorrentsInv
  <1>10. AlertsInv'
    <2>1. ASSUME NEW k \in DOMAIN alerts', alerts'[k].type = "state_update",
                 NEW h \in DOMAIN alerts'[k].status
          PROVE  /\ h \in DOMAIN torrents \/ Current(h)
                 /\ h \in DOMAIN torrents /\ alerts'[k].status[h].complete => torrents[h].complete
      <3>1. CASE k \in DOMAIN alerts /\ alerts'[k] = alerts[k]
        BY <2>1, <3>1 DEF RowInv, AlertsInv
      <3>2. CASE alerts'[k] = a
        BY <1>3, <2>1, <3>2
      <3> QED BY <1>3, <1>4, <3>1, <3>2
    <2> QED BY <1>2, <1>6, <2>1 DEF AlertsInv
  <1> QED BY <1>2, <1>8, <1>9, <1>10 DEF RowInv

\* The calls that are left, and what they say of a torrent.
LEMMA DoneCommandOf ==
  ASSUME APITypeOK, DoCommand, NEW g
  PROVE  /\ Removed(g)' => Removed(g)
         /\ Removed(g) => Removed(g)' \/ (commands[1].op = "remove" /\ commands[1].handle = g)
         /\ \A k : k \in Toggles(g)' <=> k \in DOMAIN commands' /\ k + 1 \in Toggles(g)
         /\ \A k \in Toggles(g) : k = 1 \/ k - 1 \in Toggles(g)'
  <1>1. /\ 1 \in DOMAIN commands /\ Len(commands) \in Nat
        /\ DOMAIN commands = 1..Len(commands) /\ DOMAIN commands' = 1..Len(commands)-1
        /\ \A k \in DOMAIN commands' : k + 1 \in DOMAIN commands /\ commands'[k] = commands[k + 1]
    BY DoneCommand
  <1>2. \A k \in DOMAIN commands : k = 1 \/ (k - 1 \in DOMAIN commands' /\ (k - 1) + 1 = k)
    BY <1>1
  <1>3. \A k : k \in Toggles(g)' <=> k \in DOMAIN commands' /\ k + 1 \in Toggles(g)
    BY <1>1 DEF Toggles
  <1>4. \A k \in Toggles(g) : k = 1 \/ k - 1 \in Toggles(g)'
    <2>1. Toggles(g) \subseteq DOMAIN commands
      BY DEF Toggles
    <2> QED BY <1>2, <1>3, <2>1
  <1> QED BY <1>1, <1>2, <1>3, <1>4 DEF Removed

\* A call that is done leaves the rows as they were shown: what a row says is
\* what the calls that are left make of its torrent.
LEMMA WillLoadIsKept ==
  ASSUME APITypeOK, DoCommand, NEW g, NEW download \in BOOLEAN, WillLoad(g, download),
         commands[1].handle = g /\ commands[1].op = "pause" => g \notin auto_managed',
         commands[1].handle = g /\ commands[1].op = "resume" => g \in auto_managed',
         1 \notin Toggles(g) => (g \in auto_managed' <=> g \in auto_managed)
  PROVE  WillLoad(g, download)'
  <1>1. /\ 1 \in DOMAIN commands /\ Len(commands) \in Nat
        /\ DOMAIN commands = 1..Len(commands) /\ DOMAIN commands' = 1..Len(commands)-1
        /\ \A k \in DOMAIN commands' : k + 1 \in DOMAIN commands /\ commands'[k] = commands[k + 1]
    BY DoneCommand
  <1>2. /\ \A k : k \in Toggles(g)' <=> k \in DOMAIN commands' /\ k + 1 \in Toggles(g)
        /\ \A k \in Toggles(g) : k = 1 \/ k - 1 \in Toggles(g)'
    BY DoneCommandOf
  <1>3. Toggles(g) \subseteq DOMAIN commands
    BY DEF Toggles
  <1>4. ASSUME Toggles(g)' = {} PROVE g \in auto_managed' <=> download
    <2>1. \A k \in Toggles(g) : k = 1
      BY <1>2, <1>4
    <2>2. CASE 1 \in Toggles(g)
      <3>1. commands[1].op = "resume" <=> download
        BY <2>1, <2>2 DEF WillLoad
      <3>2. commands[1].handle = g /\ commands[1].op \in {"pause", "resume"}
        BY <2>2 DEF Toggles
      <3> QED BY <3>1, <3>2
    <2>3. CASE 1 \notin Toggles(g)
      <3>1. Toggles(g) = {}
        BY <2>1, <2>3
      <3> QED BY <2>3, <3>1 DEF WillLoad
    <2> QED BY <2>2, <2>3
  <1>5. ASSUME NEW k \in Toggles(g)', \A j \in Toggles(g)' : j <= k
        PROVE  commands'[k].op = "resume" <=> download
    <2>1. k + 1 \in Toggles(g) /\ k \in DOMAIN commands' /\ commands'[k] = commands[k + 1]
      BY <1>1, <1>2
    <2>2. \A j \in Toggles(g) : j <= k + 1
      <3> TAKE j \in Toggles(g)
      <3>1. j = 1 \/ j - 1 <= k
        BY <1>2, <1>5
      <3>2. j \in Nat /\ k \in Nat
        BY <1>1, <1>3, <2>1
      <3> QED BY <3>1, <3>2
    <2> QED BY <2>1, <2>2 DEF WillLoad
  <1> QED BY <1>4, <1>5 DEF WillLoad

LEMMA SessionCommandKeepsRows == ASSUME WindowInv, WindowInv', RowInv, SessionCommand PROVE RowInv'
  <1> DEFINE c == commands[1]
             h == c.handle
  <1>1. APITypeOK /\ DoCommand /\ commands # <<>>
    BY DEF WindowInv, WindowTypeOK, SessionCommand, DoCommand
  <1>2. UNCHANGED <<cur_torrens_, ui, converter, session_handles>>
    BY <1>1 DEF SessionCommand, DoCommand, window, linker_
  <1>3. c \in Command /\ h \in Handle /\ 1 \in DOMAIN commands
    BY <1>1, DoneCommand DEF Command
  <1>4. \/ c.op = "add"    /\ AddTorrent(h[1])
        \/ c.op = "remove" /\ RemoveTorrent(h)
        \/ c.op = "pause"  /\ SetPaused(h, TRUE)
        \/ c.op = "resume" /\ SetPaused(h, FALSE)
    BY <1>1, DoneCommand DEF DoCommand
  <1>5. /\ \A n : Opened(n)' <=> Opened(n)
        /\ \A g : ~CameAs(g) /\ (Current(g)' <=> Current(g))
    BY <1>1, <1>2 DEF Opened, CameAs, Current
  <1>6. OldRows' = OldRows /\ \A j \in OldRows : HandleOf(j)' = HandleOf(j)
    BY <1>2, <1>5 DEF OldRows, HandleOf
  <1>7. NamesDiffer' /\ NewRowInv' /\ NewRowExists' /\ ui' # Terminated
    BY <1>2, <1>6 DEF RowInv, NamesDiffer, NewRowInv, NewRowExists
  <1>8. \A g : /\ Removed(g)' => Removed(g)
               /\ Removed(g) => Removed(g)' \/ (c.op = "remove" /\ h = g)
    BY <1>1, DoneCommandOf
  <1>9. ASSUME NEW j \in OldRows
        PROVE  /\ HandleOf(j) \in DOMAIN torrents /\ ~Removed(HandleOf(j))
               /\ HandleOf(j) \in DOMAIN session_handles
               /\ WillLoad(HandleOf(j), cur_torrens_[j].download_)
               /\ cur_torrens_[j].finished_ => torrents[HandleOf(j)].complete
               /\ cur_torrens_[j].download_ \in BOOLEAN
    <2>1. cur_torrens_[j] \in Torrent
      BY RowIsTyped DEF OldRows, WindowInv
    <2>2. cur_torrens_[j].download_ \in BOOLEAN
      BY <2>1 DEF Torrent
    <2> QED BY <2>2 DEF RowInv, OldRowsInv
  <1> DEFINE WillLoadAll == \A j \in OldRows : WillLoad(HandleOf(j), cur_torrens_[j].download_)'
  <1>10. ASSUME \A j \in OldRows :
                  LET g == HandleOf(j)
                  IN  /\ h = g /\ c.op = "pause" => g \notin auto_managed'
                      /\ h = g /\ c.op = "resume" => g \in auto_managed'
                      /\ 1 \notin Toggles(g) => (g \in auto_managed' <=> g \in auto_managed)
         PROVE  WillLoadAll
    <2> SUFFICES ASSUME NEW j \in OldRows PROVE WillLoad(HandleOf(j), cur_torrens_[j].download_)'
      OBVIOUS
    <2> DEFINE g == HandleOf(j)
               d == cur_torrens_[j].download_
    <2>1. WillLoad(g, d) /\ d \in BOOLEAN
      BY <1>9
    <2>2. g' = g /\ d' = d
      BY <1>2, <1>6
    <2>3. /\ h = g /\ c.op = "pause" => g \notin auto_managed'
          /\ h = g /\ c.op = "resume" => g \in auto_managed'
          /\ 1 \notin Toggles(g) => (g \in auto_managed' <=> g \in auto_managed)
      BY <1>10
    <2> HIDE DEF g, d
    <2>4. PICK x, y : x = g /\ y = d
      OBVIOUS
    <2>5. WillLoad(x, y)'
      BY <1>1, <2>1, <2>3, <2>4, WillLoadIsKept
    <2>6. WillLoad(g, d)'
      BY <2>2, <2>4, <2>5 DEF WillLoad, Toggles
    <2> QED BY <2>6 DEF g, d
  <1>11. CASE c.op \in {"pause", "resume"}
    <2>1. /\ UNCHANGED <<torrents, alerts>>
          /\ auto_managed' = IF c.op = "pause" THEN auto_managed \ {h} ELSE auto_managed \cup ({h} \cap DOMAIN torrents)
      BY <1>4, <1>11 DEF SetPaused
    <2>2. WillLoadAll
      <3>1. 1 \in Toggles(h)
        BY <1>3, <1>11 DEF Toggles
      <3> QED BY <1>9, <1>10, <2>1, <3>1
    <2>3. \A g : Removed(g)' <=> Removed(g)
      BY <1>8, <1>11
    <2>4. OldRowsInv'
      BY <1>2, <1>6, <1>9, <2>1, <2>2, <2>3 DEF OldRowsInv
    <2>5. KnownInv' /\ TorrentsInv' /\ AlertsInv'
      BY <1>2, <1>5, <1>6, <2>1, <2>3 DEF RowInv, KnownInv, TorrentsInv, AlertsInv
    <2> QED BY <1>7, <2>4, <2>5 DEF RowInv
  <1>12. CASE c.op = "remove"
    <2>1. /\ torrents' = Restrict(torrents, DOMAIN torrents \ {h})
          /\ auto_managed' = auto_managed \ {h} /\ UNCHANGED alerts
      BY <1>4, <1>12 DEF RemoveTorrent
    <2>2. /\ DOMAIN torrents' = DOMAIN torrents \ {h}
          /\ \A g \in DOMAIN torrents' : torrents'[g] = torrents[g]
      BY <2>1 DEF Restrict
    <2>3. Removed(h)
      BY <1>3, <1>12 DEF Removed
    <2>4. \A j \in OldRows : HandleOf(j) # h
      BY <1>9, <2>3
    <2>5. WillLoadAll
      BY <1>10, <2>1, <2>4
    <2>6. OldRowsInv'
      BY <1>2, <1>6, <1>8, <1>9, <2>2, <2>4, <2>5 DEF OldRowsInv
    <2>7. h \in DOMAIN torrents => Current(h)
      BY <1>5, <2>4 DEF RowInv, TorrentsInv
    <2>8. KnownInv' /\ TorrentsInv' /\ AlertsInv'
      <3>1. KnownInv'
        <4>1. \A g \in DOMAIN session_handles : g \in DOMAIN torrents'
          BY <1>9, <2>2, <2>4 DEF RowInv, KnownInv
        <4> QED BY <1>2, <1>6, <2>2, <4>1 DEF RowInv, KnownInv
      <3>2. TorrentsInv'
        BY <1>5, <1>6, <1>8, <2>2 DEF RowInv, TorrentsInv
      <3>3. AlertsInv'
        BY <1>5, <2>1, <2>2, <2>7 DEF RowInv, AlertsInv
      <3> QED BY <3>1, <3>2, <3>3
    <2> QED BY <1>7, <2>6, <2>8 DEF RowInv
  <1>13. CASE c.op = "add"
    <2>1. ui.at = "createDownload"
      BY <1>3, <1>13, NothingIsAdded
    <2> DEFINE n == ui.name
    <2>2. Asked(n)
      BY <1>5, <2>1 DEF WindowInv, AddInv
    <2>3. Len(commands) = 1 /\ h[1] = n /\ commands' = <<>>
      <3>1. DOMAIN commands = 1..Len(commands) /\ Len(commands) \in Nat /\ (Len(commands) = 1 => commands' = <<>>)
        BY <1>1, DoneCommand
      <3>2. Len(commands) = 1
        BY <1>3, <1>13, <2>2, <3>1 DEF Asked
      <3>3. c = [op |-> "add", handle |-> <<n, 0>>]
        BY <2>2, <3>2 DEF Asked
      <3> QED BY <3>1, <3>2, <3>3
    <2>4. \A g : ~Removed(g) /\ Toggles(g) = {}
      <3>1. DOMAIN commands = {1}
        BY <1>1, <2>3, DoneCommand
      <3> QED BY <1>13, <3>1 DEF Removed, Toggles
    <2>5. n \in Name /\ AddTorrent(n)
      BY <1>4, <1>13, <2>1, <2>3, StateIsKnown DEF WindowInv
    <2>6. PICK new : AddedAs(new, n)
      BY <1>1, <2>5, AddTorrentEffect
    <2>7. \A j \in OldRows : HandleOf(j)[1] # n /\ HandleOf(j) # new
      BY <2>1, <2>6, HandlesOfRows DEF OldRows, Opened, AddedAs
    <2>8. new \notin DOMAIN torrents
      BY <1>5, <2>4, <2>7 DEF RowInv, TorrentsInv
    <2>9. /\ DOMAIN torrents' = DOMAIN torrents \cup {new} /\ ~torrents'[new].complete
          /\ \A g \in DOMAIN torrents : torrents'[g] = torrents[g]
          /\ auto_managed' = auto_managed \cup {new} /\ ~Current(new) /\ new[1] = n
      BY <2>6, <2>8, NewStatusIsTyped DEF AddedAs, Put
    <2>10. WillLoadAll
      BY <1>10, <1>13, <2>7, <2>9
    <2>11. OldRowsInv'
      BY <1>2, <1>6, <1>8, <1>9, <2>7, <2>9, <2>10 DEF OldRowsInv
    <2>12. KnownInv'
      <3>1. \A g \in DOMAIN session_handles : g \in DOMAIN torrents
        BY <1>9 DEF RowInv, KnownInv
      <3> QED BY <1>2, <1>6, <2>9, <3>1 DEF RowInv, KnownInv
    <2> DEFINE a == [type |-> "add_torrent", handle |-> new]
               m == Len(alerts)
    <2>13. /\ DOMAIN alerts' = (1..m) \cup {m + 1} /\ DOMAIN alerts = 1..m /\ m \in Nat
           /\ alerts'[m + 1] = a /\ \A k \in 1..m : alerts'[k] = alerts[k]
           /\ a.type = "add_torrent" /\ a.handle = new
      <3>1. a \in Alert /\ alerts \in Seq(Alert) /\ alerts' = Append(alerts, a)
        BY <1>1, <2>6, AlertIsTyped DEF AddedAs, APITypeOK
      <3>2. a.type = "add_torrent" /\ a.handle = new
        OBVIOUS
      <3> HIDE DEF a
      <3>3. /\ alerts' \in Seq(Alert) /\ Len(alerts') = m + 1 /\ alerts'[m + 1] = a /\ m \in Nat
            /\ \A k \in 1..m : alerts'[k] = alerts[k]
        BY <3>1, AppendProperties
      <3>4. DOMAIN alerts' = (1..m) \cup {m + 1} /\ DOMAIN alerts = 1..m
        BY <3>1, <3>3
      <3> QED BY <3>2, <3>3, <3>4
    <2> HIDE DEF a, m
    <2>14. CameAs(new)'
      <3>1. added' = {m + 1}
        <4>1. added = {}
          BY <2>2 DEF Asked
        <4> QED BY <2>13, <4>1 DEF added
      <3> QED BY <2>3, <2>9, <2>13, <3>1 DEF CameAs
    <2>15. TorrentsInv'
      <3>1. ASSUME NEW g \in DOMAIN torrents'
            PROVE  \/ \E j \in OldRows' : g = HandleOf(j)'
                   \/ CameAs(g)' /\ g \in auto_managed' /\ Opened(g[1])'
        <4>1. CASE g = new
          BY <1>5, <2>1, <2>9, <2>14, <4>1 DEF Opened
        <4>2. CASE g # new
          BY <1>5, <1>6, <2>4, <2>9, <4>2 DEF RowInv, TorrentsInv
        <4> QED BY <4>1, <4>2
      <3> QED BY <3>1 DEF TorrentsInv
    <2>16. AlertsInv'
      <3>1. ASSUME NEW k \in DOMAIN alerts', alerts'[k].type = "state_update",
                   NEW g \in DOMAIN alerts'[k].status
            PROVE  /\ g \in DOMAIN torrents' \/ Current(g)'
                   /\ g \in DOMAIN torrents' /\ alerts'[k].status[g].complete => torrents'[g].complete
        <4>1. k \in DOMAIN alerts /\ alerts'[k] = alerts[k]
          BY <2>13, <3>1
        <4>2. /\ g \in DOMAIN torrents \/ Current(g)
              /\ g \in DOMAIN torrents /\ alerts[k].status[g].complete => torrents[g].complete
          BY <3>1, <4>1 DEF RowInv, AlertsInv
        <4>3. g # new
          BY <2>8, <2>9, <4>2
        <4> QED BY <1>5, <2>9, <4>1, <4>2, <4>3
      <3> QED BY <3>1 DEF AlertsInv
    <2> QED BY <1>7, <2>11, <2>12, <2>15, <2>16 DEF RowInv
  <1> QED BY <1>4, <1>11, <1>12, <1>13

LEMMA RowNext ==
  ASSUME ROWS_PER_NAME = 1
  PROVE  WindowInv /\ RowInv /\ [Next]_vars => RowInv'
  <1> SUFFICES ASSUME WindowInv, RowInv, [Next]_vars PROVE RowInv'
    OBVIOUS
  <1>1. CASE CreateDownload
    <2>1. ui.at = "createDownload" /\ UNCHANGED <<window, updates, thread>>
      BY <1>1 DEF CreateDownload
    <2> QED BY <1>1, <2>1, AddAlertKeepsRows, NoAddAlertKeepsRows DEF CreateDownload
  <1>2. CASE \/ Select \/ AskDelete \/ CancelDelete \/ BeginUpdate \/ EndUpdate \/ EndClose
             \/ CloseWindow \/ WorkerStep
    BY <1>2, WindowStepKeepsRows
  <1>3. CASE UpdateRow \/ OpenTorrent
    BY <1>3, UpdateRowKeepsRows, OpenTorrentKeepsRows
  <1>4. CASE Pause \/ Start
    BY <1>4, PauseOrStartKeepsRows
  <1>5. CASE AnswerDelete
    BY <1>5, AnswerDeleteKeepsRows
  <1>6. CASE SessionCommand
    BY <1>6, WindowNext, SessionCommandKeepsRows
  <1>7. CASE SessionUpdate \/ Download
    BY <1>7, SessionUpdateKeepsRows, DownloadKeepsRows
  <1>8. CASE UNCHANGED vars
    BY <1>8 DEF vars, window, thread, api, session, queues, linker_, RowInv, NamesDiffer, NewRowInv,
                NewRowExists, OldRows, OldRowsInv, HandleOf, WillLoad, Toggles, Removed, KnownInv,
                TorrentsInv, AlertsInv, Current, CameAs, added, Opened
  <1> QED BY <1>1, <1>2, <1>3, <1>4, <1>5, <1>6, <1>7, <1>8 DEF Next, Handler, User

\* RowInv is an invariant, if no torrent is in the list twice.  One part of it
\* is that no handler ends in an exception.
THEOREM RowInvariant == ASSUME ROWS_PER_NAME = 1 PROVE Spec => [](WindowInv /\ RowInv)
  <1>1. Init => WindowInv /\ RowInv
    BY WindowInit, RowInit
  <1>2. WindowInv /\ RowInv /\ [Next]_vars => (WindowInv /\ RowInv)'
    BY WindowNext, RowNext
  <1> QED BY <1>1, <1>2, PTL DEF Spec

\* What is listed when no torrent is being opened.
LEMMA ListedAreOldRows ==
  ASSUME Settled
  PROVE  /\ OldRows = DOMAIN cur_torrens_
         /\ \A h : h \in Listed <=> \E i \in OldRows : h = HandleOf(i)
         /\ \A h : h \in Kept <=> h \in DOMAIN torrents /\ ~Removed(h)
  <1>1. OldRows = DOMAIN cur_torrens_
    BY DEF Settled, OldRows, Opened
  <1> QED BY <1>1 DEF Listed, HandleOf, Kept, Removed

\* Every torrent in the list is in the session and will not be removed
\* (gui/README.md:3), for any number of torrents, as long as none is there twice.
THEOREM ListedAreServed == ASSUME ROWS_PER_NAME = 1 PROVE Spec => []RowsAreServed
  <1>1. RowInv => RowsAreServed
    BY ListedAreOldRows DEF RowInv, OldRowsInv, RowsAreServed
  <1> QED BY <1>1, RowInvariant, PTL

\* What was deleted stays so: no alert that was on its way brings it back
\* (Linker::updateTorrents, Linker.cpp:8-9).
THEOREM DeletedAreGone == ASSUME ROWS_PER_NAME = 1 PROVE Spec => []DeletedStaysDeleted
  <1>1. RowInv => DeletedStaysDeleted
    BY ListedAreOldRows DEF RowInv, TorrentsInv, KnownInv, DeletedStaysDeleted, Settled, Opened
  <1> QED BY <1>1, RowInvariant, PTL

\* A row says paused exactly if libtorrent, having done its calls, has paused it.
THEOREM RowsShowPauses == ASSUME ROWS_PER_NAME = 1 PROVE Spec => []PausedAsShown
  <1>1. RowInv => PausedAsShown
    <2> SUFFICES ASSUME RowInv, Settled, commands = <<>>, NEW i \in DOMAIN cur_torrens_
                 PROVE  cur_torrens_[i].download_ <=> converter[cur_torrens_[i].name_] \in auto_managed
      BY DEF PausedAsShown
    <2>1. WillLoad(HandleOf(i), cur_torrens_[i].download_)
      BY ListedAreOldRows DEF RowInv, OldRowsInv
    <2>2. Toggles(HandleOf(i)) = {}
      BY DEF Toggles
    <2> QED BY <2>1, <2>2 DEF WillLoad, HandleOf
  <1> QED BY <1>1, RowInvariant, PTL

\* What a row shows as finished is so, whatever alerts are late or dropped.
THEOREM FinishedRowsAreComplete == ASSUME ROWS_PER_NAME = 1 PROVE Spec => []FinishedIsTrue
  <1>1. RowInv => FinishedIsTrue
    BY ListedAreOldRows DEF RowInv, OldRowsInv, FinishedIsTrue, HandleOf
  <1> QED BY <1>1, RowInvariant, PTL
==============================================================================
