----------------------- MODULE MakeTorrentWindow_proofs -----------------------
(***************************************************************************)
(* Proofs about the making of a torrent, for any files, folders and texts. *)
(***************************************************************************)
EXTENDS MakeTorrentWindow, Arithmetic, SequenceTheorems

\* What is left of lines without the empty ones are trackers.
LEMMA EnteredAreTrackers ==
  ASSUME NEW text \in Seq(Trackers \cup {Nothing})
  PROVE  Entered(text) \in Seq(Trackers)
  <1> DEFINE N == Len(text)
             X == Seq(Trackers)
             next(i, s) == IF text[i] # Nothing THEN Append(s, text[i]) ELSE s
             step == [i \in 1..N |-> [s \in X |-> next(i, s)]]
             F(s) == [i \in 0..N |-> IF i = 0 THEN <<>> ELSE next(i, s[i - 1])]
             taken == CHOOSE s : s = F(s)
  <1>1. N \in Nat /\ \A i \in 1..N : text[i] \in Trackers \cup {Nothing}
    OBVIOUS
  <1>2. Entered(text) = taken[N]
    BY DEF Entered
  <1>3. <<>> \in X /\ \A i \in 1..N : \A s \in X : next(i, s) \in X
    BY <1>1
  <1> HIDE DEF N, X
  <1>4. PICK f \in [0..N -> X] : Recursion(f, N, <<>>, step)
    <2> HIDE DEF next
    <2>1. step \in [1..N -> [X -> X]]
      BY <1>3
    <2> HIDE DEF step
    <2> QED BY <1>1, <1>3, <2>1, RecursionExists
  <1>5. f = F(f)
    <2> HIDE DEF next
    <2>1. \A i \in 1..N : i - 1 \in 0..N /\ f[i - 1] \in X
      BY <1>1
    <2>2. f[0] = <<>> /\ \A i \in 1..N : f[i] = next(i, f[i - 1])
      BY <1>4, <2>1 DEF Recursion
    <2>3. ASSUME NEW i \in 0..N PROVE f[i] = IF i = 0 THEN <<>> ELSE next(i, f[i - 1])
      <3>1. i = 0 \/ i \in 1..N
        BY <1>1
      <3> QED BY <1>1, <2>2, <3>1
    <2> QED BY <2>3
  <1>6. taken = F(taken)
    <2> HIDE DEF F
    <2> QED BY <1>5
  <1> HIDE DEF taken
  <1>7. taken[0] = <<>> /\ \A i \in 1..N : taken[i] = next(i, taken[i - 1])
    <2> HIDE DEF next
    <2>1. \A i \in 0..N : taken[i] = IF i = 0 THEN <<>> ELSE next(i, taken[i - 1])
      BY <1>6
    <2>2. 0 \in 0..N /\ \A i \in 1..N : i \in 0..N /\ i # 0
      BY <1>1
    <2> QED BY <2>1, <2>2
  <1> DEFINE G == {i \in Nat : i <= N => taken[i] \in X}
  <1>8. 0 \in G
    BY <1>3, <1>7
  <1>9. ASSUME NEW i \in Nat, i \in G PROVE i + 1 \in G
    <2>1. SUFFICES ASSUME i + 1 <= N PROVE taken[i + 1] \in X
      OBVIOUS
    <2>2. i + 1 \in 1..N /\ (i + 1) - 1 = i /\ taken[i] \in X
      BY <1>1, <1>9, <2>1
    <2>3. taken[i + 1] = next(i + 1, taken[i])
      <3> HIDE DEF next
      <3> QED BY <1>7, <2>2
    <2> HIDE DEF next
    <2> QED BY <1>3, <2>2, <2>3
  <1>10. N \in G
    <2> HIDE DEF G
    <2> QED BY <1>1, <1>8, <1>9, Induction
  <1> QED BY <1>1, <1>2, <1>10 DEF X

LEMMA TextsAreLines ==
  /\ <<Nothing>> \in Texts
  /\ \A text \in Texts : text \in Seq(Trackers \cup {Nothing})
  <1>1. Texts = {text \in UNION {[1..m -> Trackers \cup {Nothing}] : m \in 0..LINES} : text # <<>>}
    BY DEF Texts, BoundedSeq, SeqOf
  <1>2. <<Nothing>> \in Texts
    <2>1. 1 \in 0..LINES
      BY PathsAssumption
    <2>2. <<Nothing>> \in [1..1 -> Trackers \cup {Nothing}] /\ <<Nothing>> # <<>>
      OBVIOUS
    <2> QED BY <1>1, <2>1, <2>2
  <1>3. ASSUME NEW text \in Texts PROVE text \in Seq(Trackers \cup {Nothing})
    <2>1. PICK m \in 0..LINES : text \in [1..m -> Trackers \cup {Nothing}]
      BY <1>1
    <2>2. m \in Nat
      BY PathsAssumption
    <2> QED BY <2>1, <2>2
  <1> QED BY <1>2, <1>3

Members == [path_to_source_: Path, path_to_save_directory_: Folder,
            trackers_: Seq(Trackers), name_: Name, good_: BOOLEAN]
Fields  == [source: Path, save_location: Folder, trackers: Texts, name: Name]
Torrent == [source: Path, trackers: Seq(Trackers), save: Folder, name: Name]

\* Where a path that is stored is not the one that is shown, it was refused.
StoredAsShown ==
  /\ stored.path_to_save_directory_ = shown.save_location
       \/ stored.path_to_save_directory_ \notin Writable
  /\ stored.path_to_source_ = shown.source \/ stored.path_to_source_ \notin Readable

\* A window that accepted holds all that a torrent needs, as it was typed last.
AcceptedAsTyped ==
  stored.good_ => /\ Complete(stored)
                  /\ stored.trackers_ = Entered(shown.trackers) /\ stored.name_ = shown.name

MakeInv ==
  /\ window \in {"none", "open", "closed"} /\ radio_button \in {"file", "folder"}
  /\ stored \in Members /\ shown \in Fields /\ torrent_file \in Torrent
  /\ window # "none" => StoredAsShown
  /\ window = "open" => ~stored.good_
  /\ window = "closed" => AcceptedAsTyped

LEMMA NewIsTyped ==
  /\ NewMembers \in Members /\ NewFields \in Fields /\ NoTorrent \in Torrent
  /\ NewMembers.path_to_source_ = Nothing /\ NewMembers.path_to_save_directory_ = Nothing
  /\ ~NewMembers.good_
  /\ NewFields.source = Nothing /\ NewFields.save_location = Nothing
  <1>1. Nothing \in Path /\ Nothing \in Folder /\ Nothing \in Name /\ <<>> \in Seq(Trackers)
    BY DEF Path, Folder, Name
  <1>2. NewFields \in Fields
    BY <1>1, TextsAreLines DEF NewFields, Fields
  <1>3. NewMembers \in Members /\ NoTorrent \in Torrent
    BY <1>1 DEF NewMembers, Members, NoTorrent, Torrent
  <1> QED BY <1>2, <1>3 DEF NewMembers, NewFields

LEMMA MakeInit == Init => MakeInv
  BY NewIsTyped DEF Init, MakeInv

\* The slot stores what was typed, and keeps the paths.
LEMMA TakenIsTyped ==
  ASSUME MakeInv, window = "open"
  PROVE  /\ Taken \in Members /\ ~Taken.good_
         /\ Taken.path_to_source_ = stored.path_to_source_
         /\ Taken.path_to_save_directory_ = stored.path_to_save_directory_
         /\ Taken.trackers_ = Entered(shown.trackers) /\ Taken.name_ = shown.name
  <1> DEFINE text == Entered(shown.trackers)
             typed == [stored EXCEPT !.trackers_ = text]
  <1>1. shown.trackers \in Texts /\ shown.name \in Name
    BY DEF MakeInv, Fields
  <1>2. text \in Seq(Trackers)
    BY <1>1, TextsAreLines, EnteredAreTrackers
  <1>3. stored \in Members /\ ~stored.good_
    BY DEF MakeInv
  <1>4. Taken = [typed EXCEPT !.name_ = shown.name]
    BY DEF Taken
  <1> HIDE DEF text
  <1>5. /\ typed \in Members /\ ~typed.good_ /\ typed.trackers_ = text
        /\ typed.path_to_source_ = stored.path_to_source_
        /\ typed.path_to_save_directory_ = stored.path_to_save_directory_
    BY <1>2, <1>3 DEF Members
  <1> HIDE DEF typed
  <1>6. /\ Taken \in Members /\ ~Taken.good_ /\ Taken.trackers_ = typed.trackers_
        /\ Taken.path_to_source_ = typed.path_to_source_
        /\ Taken.path_to_save_directory_ = typed.path_to_save_directory_
        /\ Taken.name_ = shown.name
    BY <1>1, <1>4, <1>5 DEF Members
  <1> QED BY <1>5, <1>6 DEF text

\* A file holds what was given, or nothing.
LEMMA Generated ==
  ASSUME NEW torrent \in Torrent
  PROVE  /\ generate(torrent) \in Torrent
         /\ generate(torrent).save = torrent.save /\ generate(torrent).name = torrent.name
         /\ \/ generate(torrent).source = torrent.source
               /\ generate(torrent).trackers = torrent.trackers
            \/ generate(torrent).source = Nothing /\ generate(torrent).trackers = <<>>
               /\ torrent.source \notin Shareable
  <1> DEFINE no_source == [torrent EXCEPT !.source = Nothing]
             nothing == [torrent EXCEPT !.source = Nothing, !.trackers = <<>>]
  <1>1. Nothing \in Path /\ <<>> \in Seq(Trackers)
    BY DEF Path
  <1>2. /\ no_source \in Torrent /\ no_source.source = Nothing
        /\ no_source.save = torrent.save /\ no_source.name = torrent.name
    BY <1>1 DEF Torrent
  <1>3. nothing = [no_source EXCEPT !.trackers = <<>>]
    OBVIOUS
  <1> HIDE DEF no_source, nothing
  <1>4. /\ nothing \in Torrent /\ nothing.source = Nothing /\ nothing.trackers = <<>>
        /\ nothing.save = torrent.save /\ nothing.name = torrent.name
    BY <1>1, <1>2, <1>3 DEF Torrent
  <1> QED BY <1>4 DEF generate, nothing

LEMMA MakeNext == MakeInv /\ [Next]_vars => MakeInv'
  <1> SUFFICES ASSUME MakeInv, [Next]_vars PROVE MakeInv'
    OBVIOUS
  <1>a. stored \in Members /\ shown \in Fields /\ window \in {"none", "open", "closed"}
    BY DEF MakeInv
  <1>b. radio_button \in {"file", "folder"} /\ torrent_file \in Torrent
    BY DEF MakeInv
  <1>1. CASE Open
    BY <1>a, <1>b, <1>1, NewIsTyped DEF Open, MakeInv, StoredAsShown, AcceptedAsTyped
  <1>2. CASE RadioButton \/ Close
    BY <1>a, <1>b, <1>2 DEF RadioButton, Close, MakeInv, StoredAsShown, AcceptedAsTyped
  <1>3. CASE ChooseSource
    <2>1. PICK path \in Path :
            /\ stored' = [stored EXCEPT !.path_to_source_ = path]
            /\ shown' = IF path \in Readable THEN [shown EXCEPT !.source = path] ELSE shown
      BY <1>3 DEF ChooseSource, Path
    <2>2. /\ stored' \in Members /\ stored'.good_ = stored.good_
          /\ stored'.path_to_source_ = path
          /\ stored'.path_to_save_directory_ = stored.path_to_save_directory_
      BY <1>a, <1>b, <2>1 DEF Members
    <2>3. /\ shown' \in Fields /\ shown'.save_location = shown.save_location
          /\ path \in Readable => shown'.source = path
      BY <1>a, <1>b, <2>1 DEF Fields
    <2> QED BY <1>3, <2>2, <2>3 DEF ChooseSource, MakeInv, StoredAsShown
  <1>4. CASE ChooseSaveLocation
    <2>1. PICK path \in Folder :
            /\ stored' = [stored EXCEPT !.path_to_save_directory_ = path]
            /\ shown' = IF path \in Writable THEN [shown EXCEPT !.save_location = path] ELSE shown
      BY <1>4 DEF ChooseSaveLocation, Folder
    <2>2. /\ stored' \in Members /\ stored'.good_ = stored.good_
          /\ stored'.path_to_save_directory_ = path
          /\ stored'.path_to_source_ = stored.path_to_source_
      BY <1>a, <1>b, <2>1 DEF Members
    <2>3. /\ shown' \in Fields /\ shown'.source = shown.source
          /\ path \in Writable => shown'.save_location = path
      BY <1>a, <1>b, <2>1 DEF Fields
    <2> QED BY <1>4, <2>2, <2>3 DEF ChooseSaveLocation, MakeInv, StoredAsShown
  <1>5. CASE Type
    <2>1. shown' \in Fields /\ shown'.source = shown.source
          /\ shown'.save_location = shown.save_location
      BY <1>a, <1>b, <1>5 DEF Type, Fields, Name
    <2> QED BY <1>5, <2>1 DEF Type, MakeInv, StoredAsShown
  <1>6. CASE New
    <2>1. window = "open"
      BY <1>6 DEF New
    <2>2. /\ Taken \in Members /\ ~Taken.good_
          /\ Taken.path_to_source_ = stored.path_to_source_
          /\ Taken.path_to_save_directory_ = stored.path_to_save_directory_
          /\ Taken.trackers_ = Entered(shown.trackers) /\ Taken.name_ = shown.name
      BY <2>1, TakenIsTyped
    <2>3. CASE Complete(Taken)
      <3> DEFINE good == [Taken EXCEPT !.good_ = TRUE]
      <3> HIDE DEF Taken
      <3>1. /\ good \in Members
            /\ good.path_to_source_ = Taken.path_to_source_
            /\ good.path_to_save_directory_ = Taken.path_to_save_directory_
            /\ good.trackers_ = Taken.trackers_ /\ good.name_ = Taken.name_
        BY <2>2 DEF Members
      <3>2. stored' = good /\ window' = "closed" /\ UNCHANGED <<radio_button, shown, torrent_file>>
        BY <1>6, <2>3 DEF New
      <3> HIDE DEF good
      <3>3. Complete(good)
        BY <2>3, <3>1 DEF Complete
      <3>4. AcceptedAsTyped'
        BY <2>2, <3>1, <3>2, <3>3 DEF AcceptedAsTyped, Complete
      <3> QED BY <1>b, <2>1, <2>2, <3>1, <3>2, <3>4 DEF MakeInv, StoredAsShown
    <2>4. CASE ~Complete(Taken)
      <3>1. stored' = Taken /\ UNCHANGED <<window, radio_button, shown, torrent_file>>
        BY <1>6, <2>4 DEF New
      <3> QED BY <1>b, <2>1, <2>2, <3>1 DEF MakeInv, StoredAsShown
    <2> QED BY <2>3, <2>4
  <1>7. CASE Evaluate
    <2>1. window' = "none" /\ UNCHANGED <<stored, shown>>
      BY <1>7 DEF Evaluate
    <2>2. torrent_file' \in Torrent
      <3>1. Given \in Torrent
        BY <1>a DEF Given, Members, Torrent
      <3>2. generate(Given) \in Torrent
        BY <3>1, Generated
      <3> QED BY <1>7, <1>b, <3>2 DEF Evaluate, makeTorrent
    <2>3. radio_button' = radio_button
      BY <1>7 DEF Evaluate
    <2> QED BY <1>b, <2>1, <2>2, <2>3 DEF MakeInv
  <1>8. CASE UNCHANGED vars
    BY <1>a, <1>b, <1>8 DEF vars, MakeInv, StoredAsShown, AcceptedAsTyped
  <1> QED BY <1>1, <1>2, <1>3, <1>4, <1>5, <1>6, <1>7, <1>8 DEF Next

LEMMA MakeInvAlways == Spec => []MakeInv
  BY MakeInit, MakeNext, PTL DEF Spec

\* Members, fields and the file that was written last keep their types; no
\* empty line of the field becomes a tracker.
THEOREM MakeTypeCorrect == Spec => []MakeTypeOK
  <1>1. MakeInv => MakeTypeOK
    BY DEF MakeInv, MakeTypeOK, Members, Fields, Torrent
  <1> QED BY <1>1, MakeInvAlways, PTL

\* What is written is what the window showed, but for a source that it warned
\* of, and is empty only for such a source or one without data.
THEOREM WrittenTorrentsAreAsShown == Spec => WrittenAsShown
  <1>1. MakeInv /\ [Next]_vars =>
          [torrent_file' # torrent_file =>
             /\ torrent_file'.save = shown.save_location
             /\ torrent_file'.name = shown.name
             /\ \/ /\ torrent_file'.source \in {shown.source} \cup (Path \ Readable)
                   /\ torrent_file'.trackers = Entered(shown.trackers)
                \/ /\ torrent_file'.source = Nothing /\ torrent_file'.trackers = <<>>
                   /\ shown.source \notin Shareable \/ stored.path_to_source_ \notin Readable]_vars
    <2> SUFFICES ASSUME MakeInv, Next, torrent_file' # torrent_file
                 PROVE  /\ torrent_file'.save = shown.save_location
                        /\ torrent_file'.name = shown.name
                        /\ \/ /\ torrent_file'.source \in {shown.source} \cup (Path \ Readable)
                              /\ torrent_file'.trackers = Entered(shown.trackers)
                           \/ /\ torrent_file'.source = Nothing /\ torrent_file'.trackers = <<>>
                              /\ \/ shown.source \notin Shareable
                                 \/ stored.path_to_source_ \notin Readable
      BY DEF vars
    <2>1. Evaluate
      BY DEF Next, Open, RadioButton, ChooseSource, ChooseSaveLocation, Type, New, Close
    <2>2. /\ torrent_file' = generate(Given) /\ Given.save \in Writable
          /\ stored.good_ /\ window = "closed"
      BY <2>1 DEF Evaluate, makeTorrent
    <2>3. /\ StoredAsShown /\ AcceptedAsTyped /\ stored.path_to_source_ \in Path
          /\ stored \in Members
      BY <2>2 DEF MakeInv, Members
    <2>4. /\ Given \in Torrent /\ Given.save = shown.save_location /\ Given.name = shown.name
          /\ Given.trackers = Entered(shown.trackers) /\ Given.source = stored.path_to_source_
          /\ Given.source = shown.source \/ Given.source \in Path \ Readable
      BY <2>2, <2>3 DEF Given, Members, Torrent, StoredAsShown, AcceptedAsTyped
    <2> HIDE DEF Given
    <2>5. generate(Given).save = Given.save /\ generate(Given).name = Given.name
          /\ \/ generate(Given).source = Given.source /\ generate(Given).trackers = Given.trackers
             \/ generate(Given).source = Nothing /\ generate(Given).trackers = <<>>
                /\ Given.source \notin Shareable
      BY <2>4, Generated
    <2> QED BY <2>2, <2>4, <2>5
  <1> QED BY <1>1, MakeInvAlways, PTL DEF Spec, WrittenAsShown
==============================================================================
