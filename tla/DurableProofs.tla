--------------------------- MODULE DurableProofs ----------------------------
(***************************************************************************)
(* What a crash may leave of the config file, proved for every set of      *)
(* texts, every number of saves, edits and crashes and every length of the *)
(* run: SaveInv below is inductive, and each promise of save_atomic and of *)
(* the quarantine at boot follows from it.                                 *)
(*                                                                         *)
(* A promise about what a crash leaves speaks of every prefix of the       *)
(* directory changes not yet synced. Only the set of the directory's       *)
(* entries in those prefixes matters, so the invariant is stated over it.  *)
(***************************************************************************)
EXTENDS Durable, TLAPS

Inode == [text : Good \cup Bad \cup {Empty, Torn}, synced : BOOLEAN, mode : {Owner, Wide}]
Entry == [cfg : Nat, tmp : Nat, backups : [0..MaxSec -> Nat]]
SaveStep == {"idle", "create", "chmod", "write", "writing", "sync", "rename", "dirsync"}

\* The steps of a save that have a temp file, and those before the rename.
WithTemp == {"chmod", "write", "writing", "sync", "rename"}
BeforeRename == {"create"} \cup WithTemp

\* The directory after each of the changes a crash may keep.
Entries == {dirs[k] : k \in DOMAIN dirs}

Typed ==
    /\ inodes \in Seq(Inode) /\ dirs \in Seq(Entry) /\ dirs # <<>>
    /\ proc \in [at : {"down", "up", "refused"}, booted : Nat]
    /\ save \in [at : SaveStep, text : Good \cup {Empty}, mode : {Owner, Wide}]
    /\ unsynced \in BOOLEAN /\ sec \in 1..MaxSec
    /\ aside \subseteq DOMAIN inodes
    /\ \A e \in Entries : {e.cfg, e.tmp} \subseteq {Absent} \cup DOMAIN inodes

\* A save runs in a process that is up, on a text that parses; its temp file is
\* no file a crash could leave under the config's name.
TempApart ==
    /\ save.at # "idle" => proc.at = "up" /\ save.text \in Good \cap since
    /\ Dir.tmp # Absent <=> save.at \in WithTemp
    /\ Dir.tmp # Absent => Dir.tmp \notin aside /\ \A e \in Entries : e.cfg # Dir.tmp
    /\ Len(inodes) <= MaxFiles /\ (save.at = "create" => Len(inodes) < MaxFiles)

\* How far the temp file is at each step of a save.
TempReady ==
    /\ save.at = "chmod" => inodes[Dir.tmp].text = Empty
    /\ save.at \in WithTemp \ {"chmod"} => inodes[Dir.tmp].mode = save.mode
    /\ save.at \in {"sync", "rename"} => inodes[Dir.tmp].text = save.text
    /\ save.at = "rename" => inodes[Dir.tmp].synced
    /\ save.at = "dirsync" => Dir.cfg # Absent /\ inodes[Dir.cfg].text = save.text

Whole ==
    \A e \in Entries : e.cfg # Absent => inodes[e.cfg].synced /\ inodes[e.cfg].text # Torn

\* While the directory is synced, a crash leaves a text still promised, and until
\* a rename no good one but the text in place.
Promised ==
    ~unsynced => \A e \in Entries :
        /\ Text(e.cfg) \in since
        /\ save.at # "dirsync" => Text(e.cfg) \notin Good \/ Text(e.cfg) = Text(Dir.cfg)

\* A malformed file in place is the only one a crash can leave, so setting it
\* aside loses nothing; a file set aside is not in place once the process is up.
Quarantined ==
    /\ \A i \in aside : inodes[i].text \notin Good
    /\ proc.at = "up" => Dir.cfg \notin aside
    /\ Dir.cfg # Absent /\ Text(Dir.cfg) \notin Good => \A e \in Entries : e.cfg = Dir.cfg

\* Boots fall into different seconds: the second of the next one names no backup yet.
Backups ==
    /\ proc.booted <= sec
    /\ ~Hurried => /\ \A e \in Entries, s \in 0..MaxSec : e.backups[s] # Absent => s <= proc.booted
                   /\ \A i \in aside, e \in Entries : e.cfg = i \/ \E s \in 0..MaxSec : e.backups[s] = i

\* A save gives the file the mode it read, unless the operator changed it since.
ModeRead ==
    ~Chmods /\ save.at \in BeforeRename /\ Dir.cfg # Absent => save.mode <= inodes[Dir.cfg].mode

SaveInv == Typed /\ TempApart /\ TempReady /\ Whole /\ Promised /\ Quarantined /\ Backups /\ ModeRead

-----------------------------------------------------------------------------
\* What the steps do to the directory and to the files.

\* The directory as it stands is one of its entries.
LEMMA DirIsEntry ==
    ASSUME Typed
    PROVE  Dir \in Entries /\ Dir \in Entry /\ Entries \subseteq Entry
<1>1. Len(dirs) \in DOMAIN dirs
  BY DEF Typed
<1> QED
  BY <1>1 DEF Typed, Dir, Entries

\* A directory change adds one entry, which is then the directory as it stands.
LEMMA ChangeAdds ==
    ASSUME Typed, NEW d \in Entry, Change(d)
    PROVE  /\ dirs' \in Seq(Entry) /\ dirs' # <<>>
           /\ Dir' = d /\ Entries' = Entries \cup {d}
<1> USE DEF Change
<1>1. dirs' \in Seq(Entry) /\ Len(dirs') = Len(dirs) + 1 /\ dirs'[Len(dirs) + 1] = d
  BY DEF Typed
<1>2. DOMAIN dirs' = DOMAIN dirs \cup {Len(dirs) + 1}
  BY <1>1 DEF Typed
<1>3. \A k \in DOMAIN dirs : dirs'[k] = dirs[k]
  BY DEF Typed
<1>4. dirs' # <<>> /\ Dir' = d
  BY <1>1 DEF Dir, Typed
<1>5. Entries' = Entries \cup {d}
  BY <1>1, <1>2, <1>3, SMT DEF Entries
<1> QED
  BY <1>1, <1>4, <1>5

\* After a sync or a crash the directory has one entry.
LEMMA OneEntry ==
    ASSUME NEW d \in Entry, dirs' = <<d>>
    PROVE  /\ dirs' \in Seq(Entry) /\ dirs' # <<>>
           /\ Dir' = d /\ Entries' = {d}
<1>1. Len(dirs') = 1 /\ DOMAIN dirs' = {1} /\ dirs'[1] = d /\ dirs' \in Seq(Entry) /\ dirs' # <<>>
  OBVIOUS
<1> QED
  BY <1>1, Zenon DEF Dir, Entries

\* A step that leaves the directory alone leaves its entries alone.
LEMMA SameEntries ==
    ASSUME UNCHANGED dirs
    PROVE  Dir' = Dir /\ Entries' = Entries
  BY Zenon DEF Dir, Entries

\* A new file has a number of its own, and the others stay as they are.
LEMMA FileAdded ==
    ASSUME Typed, NEW n \in Inode, inodes' = Append(inodes, n)
    PROVE  /\ inodes' \in Seq(Inode) /\ Len(inodes') = Len(inodes) + 1
           /\ Len(inodes) \in Nat /\ Len(inodes) + 1 # Absent
           /\ DOMAIN inodes' = DOMAIN inodes \cup {Len(inodes) + 1}
           /\ Len(inodes) + 1 \notin DOMAIN inodes
           /\ inodes'[Len(inodes) + 1] = n
           /\ \A i \in DOMAIN inodes : inodes'[i] = inodes[i]
  BY DEF Typed, Absent

\* A change of one file in place leaves the others as they are.
LEMMA FileSet ==
    ASSUME Typed, NEW f \in DOMAIN inodes, NEW n \in Inode, inodes' = [inodes EXCEPT ![f] = n]
    PROVE  /\ inodes' \in Seq(Inode) /\ Len(inodes') = Len(inodes)
           /\ DOMAIN inodes' = DOMAIN inodes
           /\ inodes'[f] = n
           /\ \A i \in DOMAIN inodes \ {f} : inodes'[i] = inodes[i]
  BY DEF Typed

\* A file's number is not the one that stands for no file.
LEMMA FilesArePositive ==
    ASSUME Typed
    PROVE  /\ \A i \in DOMAIN inodes : i \in Nat /\ i # Absent /\ inodes[i] \in Inode
           /\ Len(inodes) \in Nat
  BY DEF Typed, Absent

-----------------------------------------------------------------------------
\* Every step keeps the invariant.

\* The first directory holds a whole config file and nothing else.
LEMMA SaveStarts == SaveAssumption /\ SaveInit => SaveInv
<1> SUFFICES ASSUME SaveAssumption, SaveInit PROVE SaveInv
  OBVIOUS
<1> DEFINE d == [cfg |-> 1, tmp |-> Absent, backups |-> [s \in 0..MaxSec |-> Absent]]
<1>1. PICK t \in Good, m \in {Owner, Wide} :
        inodes = <<[text |-> t, synced |-> TRUE, mode |-> m]>> /\ since = {t}
  BY DEF SaveInit
<1>2. dirs = <<d>> /\ d \in Entry
  BY DEF SaveInit, Entry, Absent
<1>3. Dir = d /\ Entries = {d} /\ dirs \in Seq(Entry) /\ dirs # <<>>
  <2>1. Len(dirs) = 1 /\ DOMAIN dirs = {1} /\ dirs[1] = d /\ dirs \in Seq(Entry) /\ dirs # <<>>
    BY <1>2
  <2> QED
    BY <2>1, Zenon DEF Dir, Entries
<1>4. inodes \in Seq(Inode) /\ Len(inodes) = 1 /\ DOMAIN inodes = {1} /\ inodes[1].text = t /\ inodes[1].synced
  BY <1>1 DEF Inode
<1>5. Typed
  <2>1. save \in [at : SaveStep, text : Good \cup {Empty}, mode : {Owner, Wide}] /\ sec \in 1..MaxSec
    BY DEF SaveInit, NoSave, SaveStep, SaveAssumption
  <2>2. \A e \in Entries : {e.cfg, e.tmp} \subseteq {Absent} \cup DOMAIN inodes
    BY <1>3, <1>4
  <2> QED
    BY <2>1, <2>2, <1>3, <1>4 DEF SaveInit, Typed
<1>6. TempApart /\ TempReady
  BY <1>3, <1>4 DEF SaveInit, TempApart, TempReady, NoSave, WithTemp, SaveAssumption
<1>7. Whole /\ Promised /\ Quarantined
  BY <1>1, <1>3, <1>4 DEF SaveInit, Whole, Promised, Quarantined, Text, Absent, SaveAssumption
<1>8. Backups /\ ModeRead
  BY <1>3 DEF SaveInit, Backups, ModeRead, Absent, NoSave, BeforeRename, WithTemp
<1> QED
  BY <1>5, <1>6, <1>7, <1>8 DEF SaveInv

\* A save begins with the mode of the file in place.
LEMMA ReadModeKeeps ==
    ASSUME SaveAssumption, SaveInv, NEW t \in Good, ReadMode(t)
    PROVE  SaveInv'
<1> USE SameEntries, DirIsEntry, FilesArePositive DEF SaveInv, ReadMode
<1>1. Dir' = Dir /\ Entries' = Entries
  BY DEF ReadMode
<1>2. save' \in [at : SaveStep, text : Good \cup {Empty}, mode : {Owner, Wide}]
  BY DEF Typed, SaveStep, Inode, Entry
<1>3. Typed'
  BY <1>1, <1>2 DEF Typed
<1>4. TempApart'
  BY <1>1 DEF TempApart, WithTemp
<1>5. TempReady' /\ Whole' /\ Quarantined' /\ Backups'
  BY <1>1 DEF TempReady, Whole, Quarantined, Backups, WithTemp, Text
<1>6. Promised'
  BY <1>1 DEF Promised, Text
<1>7. ModeRead'
  <2> SUFFICES ASSUME Dir.cfg # Absent PROVE save'.mode <= inodes[Dir.cfg].mode
    BY <1>1 DEF ModeRead
  <2>1. save'.mode = inodes[Dir.cfg].mode
    OBVIOUS
  <2>2. inodes[Dir.cfg].mode \in {Owner, Wide}
    BY DEF Typed, Inode
  <2> QED
    BY <2>1, <2>2 DEF Owner, Wide
<1> QED
  BY <1>3, <1>4, <1>5, <1>6, <1>7

\* The temp file gets a number nothing else has.
LEMMA CreateKeeps ==
    ASSUME SaveAssumption, SaveInv, Create
    PROVE  SaveInv'
<1> USE DEF SaveInv
<1> DEFINE f == Len(inodes) + 1
           d == [Dir EXCEPT !.tmp = f]
           n == [text |-> Empty, synced |-> FALSE, mode |-> Wide]
<1>1. Dir \in Entries /\ Dir \in Entry /\ Entries \subseteq Entry
  BY DirIsEntry
<1>2. n \in Inode /\ d \in Entry /\ d.cfg = Dir.cfg /\ d.tmp = f /\ d.backups = Dir.backups
  BY <1>1, FilesArePositive DEF Inode, Entry
<1> HIDE DEF d, n
<1>3. /\ inodes' \in Seq(Inode) /\ Len(inodes') = Len(inodes) + 1
      /\ f # Absent /\ DOMAIN inodes' = DOMAIN inodes \cup {f} /\ f \notin DOMAIN inodes
      /\ inodes'[f] = n /\ (\A i \in DOMAIN inodes : inodes'[i] = inodes[i])
  BY <1>2, FileAdded DEF Create, n
<1>4. dirs' \in Seq(Entry) /\ dirs' # <<>> /\ Dir' = d /\ Entries' = Entries \cup {d}
  BY <1>2, ChangeAdds DEF Create, d
<1>5. \A e \in Entries' : e.cfg \in {Absent} \cup DOMAIN inodes
  BY <1>1, <1>2, <1>4 DEF Typed
<1>6. \A e \in Entries' : Text(e.cfg)' = Text(e.cfg)
  BY <1>5, <1>3 DEF Text
<1>7. save.at = "create" /\ save'.at = "chmod" /\ save'.text = save.text /\ save'.mode = save.mode
  BY DEF Create, Goto, Typed
<1>8. Typed'
  <2>1. save' \in [at : SaveStep, text : Good \cup {Empty}, mode : {Owner, Wide}]
    BY DEF Typed, Create, Goto, SaveStep
  <2>2. \A e \in Entries' : {e.cfg, e.tmp} \subseteq {Absent} \cup DOMAIN inodes'
    BY <1>2, <1>3, <1>4, <1>5 DEF Typed
  <2> QED
    BY <2>1, <2>2, <1>3, <1>4 DEF Typed, Create
<1> HIDE DEF f
<1>9. TempApart'
  <2>1. f \notin aside /\ \A e \in Entries' : e.cfg # f
    BY <1>3, <1>5 DEF Typed
  <2>2. Len(inodes) < MaxFiles /\ Len(inodes') <= MaxFiles
    BY <1>3, <1>7, FilesArePositive DEF TempApart, SaveAssumption
  <2>3. proc'.at = "up" /\ save'.text \in Good \cap since'
    BY <1>7 DEF TempApart, Create
  <2> QED
    BY <2>1, <2>2, <2>3, <1>2, <1>3, <1>4, <1>7 DEF TempApart, Create, WithTemp
<1>10. TempReady'
  BY <1>2, <1>3, <1>4, <1>7 DEF TempReady, n, WithTemp
<1>11. Whole'
  BY <1>1, <1>2, <1>3, <1>4, <1>5 DEF Whole
<1>12. Promised'
  BY <1>1, <1>2, <1>4, <1>6, <1>7, Zenon DEF Promised, Create
<1>13. Quarantined'
  BY <1>1, <1>2, <1>3, <1>4, <1>6 DEF Quarantined, Create, Typed
<1>14. Backups'
  BY <1>1, <1>2, <1>4 DEF Backups, Create
<1>15. ModeRead'
  BY <1>2, <1>3, <1>4, <1>5, <1>7 DEF ModeRead, BeforeRename, WithTemp
<1> QED
  BY <1>8, <1>9, <1>10, <1>11, <1>12, <1>13, <1>14, <1>15

\* What a step on the temp file alone cannot disturb.
LEMMA TempChanged ==
    ASSUME SaveInv, save.at \in WithTemp, NEW step \in WithTemp, Goto(step),
           NEW n \in Inode, inodes' = [inodes EXCEPT ![Dir.tmp] = n],
           UNCHANGED <<dirs, proc, since, unsynced, aside, sec>>
    PROVE  /\ Dir' = Dir /\ inodes'[Dir.tmp] = n
           /\ save'.at = step /\ save'.text = save.text /\ save'.mode = save.mode
           /\ Typed' /\ TempApart' /\ Whole' /\ Promised' /\ Quarantined' /\ Backups' /\ ModeRead'
<1> USE DEF SaveInv
<1>1. Dir \in Entries /\ Dir \in Entry /\ Entries \subseteq Entry
  BY DirIsEntry
<1>2. Dir' = Dir /\ Entries' = Entries
  BY SameEntries
<1>3. Dir.tmp \in DOMAIN inodes /\ Dir.tmp \notin aside /\ \A e \in Entries : e.cfg # Dir.tmp
  BY <1>1 DEF Typed, TempApart
<1>4. /\ inodes' \in Seq(Inode) /\ Len(inodes') = Len(inodes) /\ DOMAIN inodes' = DOMAIN inodes
      /\ inodes'[Dir.tmp] = n /\ \A i \in DOMAIN inodes \ {Dir.tmp} : inodes'[i] = inodes[i]
  BY <1>3, FileSet
<1>5. \A e \in Entries : /\ e.cfg \in {Absent} \cup DOMAIN inodes
                         /\ e.cfg # Absent => inodes'[e.cfg] = inodes[e.cfg]
                         /\ Text(e.cfg)' = Text(e.cfg)
  BY <1>3, <1>4 DEF Typed, Text
<1>6. save'.at = step /\ save'.text = save.text /\ save'.mode = save.mode
  BY DEF Goto, Typed
<1>7. Typed'
  <2>1. save' \in [at : SaveStep, text : Good \cup {Empty}, mode : {Owner, Wide}]
    BY DEF Typed, Goto, SaveStep, WithTemp
  <2> QED
    BY <2>1, <1>2, <1>4 DEF Typed
<1>8. TempApart'
  BY <1>2, <1>3, <1>4, <1>6, FilesArePositive DEF TempApart, WithTemp
<1>9. Whole'
  BY <1>2, <1>5 DEF Whole
<1>10. Promised'
  BY <1>1, <1>2, <1>5, <1>6 DEF Promised, WithTemp
<1>11. Quarantined'
  BY <1>1, <1>2, <1>3, <1>4, <1>5 DEF Quarantined, Typed
<1>12. Backups'
  BY <1>2 DEF Backups
<1>13. ModeRead'
  BY <1>1, <1>2, <1>5, <1>6 DEF ModeRead, BeforeRename
<1> QED
  BY <1>2, <1>4, <1>6, <1>7, <1>8, <1>9, <1>10, <1>11, <1>12, <1>13

\* The temp file gets its mode while it is empty, then its text, then a sync.
LEMMA TempStepsKeep ==
    ASSUME SaveAssumption, SaveInv, SetMode \/ WriteAll \/ SyncAll
    PROVE  SaveInv'
<1> USE DEF SaveInv
<1>1. Dir.tmp \in DOMAIN inodes \/ save.at \notin WithTemp
  BY DirIsEntry DEF Typed, TempApart
<1>2. \A i \in DOMAIN inodes : inodes[i] \in Inode
  BY FilesArePositive
<1> DEFINE old == inodes[Dir.tmp]
<1>3. CASE SetMode
  <2> DEFINE n == [old EXCEPT !.mode = save.mode]
  <2>1. n \in Inode /\ save.at \in WithTemp /\ "write" \in WithTemp
    BY <1>1, <1>2, <1>3 DEF SetMode, WithTemp, Inode, Typed
  <2>2. n.mode = save.mode
    BY <2>1, <1>1, <1>2 DEF Inode
  <2>3. Goto("write") /\ inodes' = [inodes EXCEPT ![Dir.tmp] = n]
    BY <1>3 DEF SetMode
  <2> HIDE DEF n
  <2> QED
    BY ZenonT(30), <1>3, <2>1, <2>2, <2>3, TempChanged DEF SetMode, TempReady
<1>4. CASE save.at = "write" /\ WriteAll
  <2> DEFINE n == [old EXCEPT !.text = Torn]
  <2>1. n \in Inode /\ save.at \in WithTemp /\ "writing" \in WithTemp
    BY <1>1, <1>2, <1>4 DEF WithTemp, Inode
  <2>2. n.mode = save.mode
    BY <2>1, <1>1, <1>2, <1>4 DEF Inode, TempReady, WithTemp
  <2>3. Goto("writing") /\ inodes' = [inodes EXCEPT ![Dir.tmp] = n]
    BY <1>4 DEF WriteAll
  <2> HIDE DEF n
  <2> QED
    BY ZenonT(30), <1>4, <2>1, <2>2, <2>3, TempChanged DEF WriteAll, TempReady
<1>5. CASE save.at = "writing" /\ WriteAll
  <2> DEFINE n == [old EXCEPT !.text = save.text]
  <2>1. n \in Inode /\ save.at \in WithTemp /\ "sync" \in WithTemp
    BY <1>1, <1>2, <1>5 DEF WithTemp, Inode, Typed
  <2>2. n.mode = save.mode /\ n.text = save.text
    BY <2>1, <1>1, <1>2, <1>5 DEF Inode, TempReady, WithTemp
  <2>3. Goto("sync") /\ inodes' = [inodes EXCEPT ![Dir.tmp] = n]
    BY <1>5 DEF WriteAll
  <2> HIDE DEF n
  <2> QED
    BY <1>5, <2>1, <2>2, <2>3, TempChanged DEF WriteAll, TempReady
<1>6. CASE SyncAll
  <2> DEFINE n == [old EXCEPT !.synced = TRUE]
  <2>1. n \in Inode /\ save.at \in WithTemp /\ "rename" \in WithTemp
    BY <1>1, <1>2, <1>6 DEF SyncAll, WithTemp, Inode
  <2>2. n.mode = save.mode /\ n.text = save.text /\ n.synced
    BY <2>1, <1>1, <1>2, <1>6 DEF SyncAll, Inode, TempReady, WithTemp
  <2>3. Goto("rename") /\ inodes' = [inodes EXCEPT ![Dir.tmp] = n]
    BY <1>6 DEF SyncAll
  <2> HIDE DEF n
  <2> QED
    BY ZenonT(30), <1>6, <2>1, <2>2, <2>3, TempChanged DEF SyncAll, TempReady
<1> QED
  BY <1>3, <1>4, <1>5, <1>6 DEF WriteAll

\* The rename puts a file in place that is whole, synced and no wider than the old one.
LEMMA RenameKeeps ==
    ASSUME SaveAssumption, SaveInv, Rename
    PROVE  SaveInv'
<1> USE DEF SaveInv
<1> DEFINE d == [Dir EXCEPT !.cfg = Dir.tmp, !.tmp = Absent]
<1>1. Dir \in Entries /\ Dir \in Entry /\ Entries \subseteq Entry
  BY DirIsEntry
<1>2. d \in Entry /\ d.cfg = Dir.tmp /\ d.tmp = Absent /\ d.backups = Dir.backups
  BY <1>1 DEF Entry, Absent
<1> HIDE DEF d
<1>3. dirs' \in Seq(Entry) /\ dirs' # <<>> /\ Dir' = d /\ Entries' = Entries \cup {d}
  BY <1>2, ChangeAdds DEF Rename, d
<1>4. save.at = "rename" /\ save'.at = "dirsync" /\ save'.text = save.text /\ save'.mode = save.mode
  BY DEF Rename, Goto, Typed
<1>5. Dir.tmp \in DOMAIN inodes /\ Dir.tmp # Absent /\ Dir.tmp \notin aside
  BY <1>1, <1>4 DEF Typed, TempApart, WithTemp
<1>6. /\ inodes[Dir.tmp].synced /\ inodes[Dir.tmp].text = save.text
      /\ save.text \in Good /\ save.text \in since /\ proc.at = "up"
  BY <1>4 DEF TempReady, TempApart, WithTemp
<1>7. UNCHANGED <<inodes, proc, since, unsynced, aside, sec>> /\ \A i : Text(i)' = Text(i)
  BY DEF Rename, Text
<1>8. Typed'
  <2>1. save' \in [at : SaveStep, text : Good \cup {Empty}, mode : {Owner, Wide}]
    BY DEF Typed, Rename, Goto, SaveStep
  <2>2. \A e \in Entries' : {e.cfg, e.tmp} \subseteq {Absent} \cup DOMAIN inodes
    BY <1>2, <1>3, <1>5 DEF Typed
  <2> QED
    BY <2>1, <2>2, <1>3, <1>7 DEF Typed
<1>9. TempApart'
  BY <1>2, <1>3, <1>4, <1>6, <1>7 DEF TempApart, WithTemp
<1>10. TempReady'
  BY <1>2, <1>3, <1>4, <1>5, <1>6, <1>7 DEF TempReady, WithTemp
<1>11. Whole'
  BY <1>2, <1>3, <1>5, <1>6, <1>7 DEF Whole, SaveAssumption
<1>12. Promised'
  <2>1. Text(d.cfg) \in since
    BY <1>2, <1>5, <1>6 DEF Text
  <2> QED
    BY <2>1, <1>3, <1>4, <1>7 DEF Promised
<1>13. Quarantined'
  <2>1. Text(d.cfg) \in Good
    BY <1>2, <1>5, <1>6 DEF Text
  <2> QED
    BY <2>1, <1>2, <1>3, <1>5, <1>7 DEF Quarantined
<1>14. Backups'
  BY <1>1, <1>2, <1>3, <1>6, <1>7 DEF Backups, Quarantined
<1>15. ModeRead'
  BY <1>4 DEF ModeRead, BeforeRename, WithTemp
<1> QED
  BY <1>8, <1>9, <1>10, <1>11, <1>12, <1>13, <1>14, <1>15

\* The save is acknowledged, with the directory synced or known not to be.
LEMMA SyncDirKeeps ==
    ASSUME SaveAssumption, SaveInv, SyncDir
    PROVE  SaveInv'
<1> USE DEF SaveInv
<1>1. Dir \in Entries /\ Dir \in Entry /\ Entries \subseteq Entry
  BY DirIsEntry
<1>2. dirs' \in Seq(Entry) /\ dirs' # <<>> /\ Dir' = Dir /\ Dir \in Entries' /\ Entries' \subseteq Entries
  BY <1>1, OneEntry, SameEntries DEF SyncDir, Typed
<1>3. ~unsynced' => Entries' = {Dir}
  BY <1>1, OneEntry DEF SyncDir
<1>4. save.at = "dirsync" /\ save' = NoSave /\ since' = {save.text} /\ UNCHANGED <<inodes, proc, aside, sec>>
  BY DEF SyncDir
<1>5. Dir.tmp = Absent /\ Text(Dir.cfg) = save.text /\ \A i : Text(i)' = Text(i)
  BY <1>4 DEF TempApart, TempReady, WithTemp, Text
<1>6. Typed'
  <2>1. save' \in [at : SaveStep, text : Good \cup {Empty}, mode : {Owner, Wide}]
    BY <1>4 DEF NoSave, SaveStep
  <2>2. unsynced' \in BOOLEAN
    BY DEF SyncDir
  <2> QED
    BY <2>1, <2>2, <1>2, <1>4 DEF Typed
<1>7. TempApart' /\ TempReady' /\ ModeRead'
  BY <1>2, <1>4, <1>5 DEF TempApart, TempReady, ModeRead, NoSave, WithTemp, BeforeRename
<1>8. Whole' /\ Quarantined' /\ Backups'
  BY <1>2, <1>4, <1>5 DEF Whole, Quarantined, Backups
<1>9. Promised'
  BY <1>2, <1>3, <1>4, <1>5 DEF Promised
<1> QED
  BY <1>6, <1>7, <1>8, <1>9

\* A refused save takes its text back, unless the file in place has the same one.
LEMMA SaveFailsKeeps ==
    ASSUME SaveAssumption, SaveInv, SaveFails
    PROVE  SaveInv'
<1> USE DEF SaveInv
<1> DEFINE d == [Dir EXCEPT !.tmp = Absent]
<1>1. Dir \in Entries /\ Dir \in Entry /\ Entries \subseteq Entry
  BY DirIsEntry
<1>2. d \in Entry /\ d.cfg = Dir.cfg /\ d.tmp = Absent /\ d.backups = Dir.backups
  BY <1>1 DEF Entry, Absent
<1>3. /\ dirs' \in Seq(Entry) /\ dirs' # <<>>
      /\ Dir'.cfg = Dir.cfg /\ Dir'.tmp = Absent /\ Dir'.backups = Dir.backups
      /\ Entries \subseteq Entries' /\ Entries' \subseteq Entries \cup {d}
  <2>1. CASE Dir.tmp = Absent
    BY <2>1, <1>1, SameEntries DEF SaveFails, Typed
  <2>2. CASE Dir.tmp # Absent
    BY <2>2, <1>2, ChangeAdds DEF SaveFails
  <2> QED
    BY <2>1, <2>2
<1> HIDE DEF d
<1>4. /\ save.at \in BeforeRename /\ save' = NoSave
      /\ since' = since \ ({save.text} \ {Text(Dir.cfg)})
      /\ UNCHANGED <<inodes, proc, unsynced, aside, sec>> /\ \A i : Text(i)' = Text(i)
  BY DEF SaveFails, Text, BeforeRename, WithTemp
<1>5. Typed'
  <2>1. save' \in [at : SaveStep, text : Good \cup {Empty}, mode : {Owner, Wide}]
    BY <1>4 DEF NoSave, SaveStep
  <2>2. \A e \in Entries' : {e.cfg, e.tmp} \subseteq {Absent} \cup DOMAIN inodes
    BY <1>1, <1>2, <1>3 DEF Typed
  <2> QED
    BY <2>1, <2>2, <1>3, <1>4 DEF Typed
<1>6. TempApart' /\ TempReady' /\ ModeRead'
  BY <1>3, <1>4 DEF TempApart, TempReady, ModeRead, NoSave, WithTemp, BeforeRename
<1>7. Whole' /\ Quarantined' /\ Backups'
  BY SMTT(30), <1>1, <1>2, <1>3, <1>4 DEF Whole, Quarantined, Backups
<1>8. Promised'
  <2> SUFFICES ASSUME ~unsynced, NEW e \in Entries'
               PROVE  /\ Text(e.cfg) \in since'
                      /\ Text(e.cfg) \notin Good \/ Text(e.cfg) = Text(Dir.cfg)
    BY <1>3, <1>4, Zenon DEF Promised
  <2>1. PICK g \in Entries : g.cfg = e.cfg
    BY <1>1, <1>2, <1>3
  <2>2. save.at # "dirsync" /\ save.text \in Good
    BY <1>4 DEF BeforeRename, WithTemp, TempApart
  <2>3. Text(e.cfg) \in since /\ (Text(e.cfg) \notin Good \/ Text(e.cfg) = Text(Dir.cfg))
    BY <2>1, <2>2 DEF Promised
  <2> QED
    BY <2>2, <2>3, <1>4
<1> QED
  BY <1>5, <1>6, <1>7, <1>8

\* A crash leaves one of the entries, and of it what was synced.
LEMMA CrashKeeps ==
    ASSUME SaveAssumption, SaveInv, Crash
    PROVE  SaveInv'
<1> USE DEF SaveInv
<1>1. PICK k \in DOMAIN dirs : dirs' = <<[dirs[k] EXCEPT !.tmp = Absent]>>
  BY DEF Crash
<1> DEFINE g == dirs[k]
           d == [g EXCEPT !.tmp = Absent]
<1>2. g \in Entries /\ g \in Entry
  BY <1>1, DirIsEntry DEF Entries
<1>3. d \in Entry /\ d.cfg = g.cfg /\ d.tmp = Absent /\ d.backups = g.backups
  BY <1>2 DEF Entry, Absent
<1>4. dirs' \in Seq(Entry) /\ dirs' # <<>> /\ Dir' = d /\ Entries' = {d}
  BY <1>1, <1>3, OneEntry
<1> HIDE DEF d, g
<1>5. /\ inodes' \in Seq(Inode) /\ DOMAIN inodes' = DOMAIN inodes /\ Len(inodes') = Len(inodes)
      /\ \A i \in DOMAIN inodes : /\ inodes[i].synced => inodes'[i] = inodes[i]
                                  /\ inodes'[i].text \in {inodes[i].text, Torn}
  <2>1. PICK kept \in [DOMAIN inodes -> {TRUE, FALSE}] :
          inodes' = [i \in DOMAIN inodes |->
                       IF inodes[i].synced THEN inodes[i]
                       ELSE [inodes[i] EXCEPT !.synced = TRUE,
                                              !.text = IF kept[i] THEN inodes[i].text ELSE Torn]]
    BY DEF Crash
  <2>2. \A i \in DOMAIN inodes : inodes'[i] \in Inode
    <3> TAKE i \in DOMAIN inodes
    <3>1. inodes[i] \in Inode
      BY FilesArePositive
    <3> QED
      BY <3>1, <2>1 DEF Inode
  <2>3. DOMAIN inodes = 1..Len(inodes) /\ Len(inodes) \in Nat
    BY DEF Typed
  <2>4. \A i \in DOMAIN inodes : /\ inodes[i].synced => inodes'[i] = inodes[i]
                                 /\ inodes'[i].text \in {inodes[i].text, Torn}
    <3> TAKE i \in DOMAIN inodes
    <3>1. inodes[i] \in Inode
      BY FilesArePositive
    <3> QED
      BY <3>1, <2>1 DEF Inode
  <2>5. inodes' \in [DOMAIN inodes -> Inode]
    BY <2>1, <2>2, Zenon
  <2>6. inodes' \in [1..Len(inodes) -> Inode]
    BY <2>3, <2>5
  <2>7. inodes' \in Seq(Inode) /\ Len(inodes') = Len(inodes) /\ DOMAIN inodes' = 1..Len(inodes)
    BY <2>3, <2>6
  <2> QED
    BY <2>3, <2>4, <2>7
<1>6. /\ proc'.at = "down" /\ proc'.booted = proc.booted /\ save' = NoSave /\ ~unsynced'
      /\ proc' \in [at : {"down", "up", "refused"}, booted : Nat] /\ unsynced' \in BOOLEAN
      /\ since' = {IF Dir'.cfg = Absent THEN Empty ELSE inodes'[Dir'.cfg].text}
      /\ UNCHANGED <<aside, sec>>
  BY DEF Crash, Typed
<1>7. Typed'
  <2>1. save' \in [at : SaveStep, text : Good \cup {Empty}, mode : {Owner, Wide}]
    BY <1>6 DEF NoSave, SaveStep
  <2>2. \A e \in Entries' : {e.cfg, e.tmp} \subseteq {Absent} \cup DOMAIN inodes'
    BY <1>2, <1>3, <1>4, <1>5 DEF Typed
  <2> QED
    BY <2>1, <2>2, <1>4, <1>5, <1>6 DEF Typed
<1>8. TempApart' /\ TempReady' /\ ModeRead'
  BY <1>3, <1>4, <1>5, <1>6 DEF TempApart, TempReady, ModeRead, NoSave, WithTemp, BeforeRename
<1>9. Whole'
  <2>1. g.cfg # Absent => /\ g.cfg \in DOMAIN inodes
                          /\ inodes[g.cfg].synced /\ inodes[g.cfg].text # Torn
    BY <1>2 DEF Whole, Typed
  <2>2. g.cfg # Absent => inodes'[g.cfg] = inodes[g.cfg]
    BY <2>1, <1>5
  <2>3. g.cfg # Absent => inodes'[g.cfg].synced /\ inodes'[g.cfg].text # Torn
    BY <2>1, <2>2, Zenon
  <2> QED
    BY <2>3, <1>3, <1>4 DEF Whole
<1>10. Promised'
  BY <1>4, <1>6 DEF Promised, Text
<1>11. Quarantined'
  <2>1. \A i \in aside : inodes'[i].text \notin Good
    BY <1>5 DEF Quarantined, Typed, SaveAssumption
  <2> QED
    BY <2>1, <1>4, <1>6 DEF Quarantined
<1>12. Backups'
  BY <1>2, <1>3, <1>4, <1>6 DEF Backups
<1> QED
  BY <1>7, <1>8, <1>9, <1>10, <1>11, <1>12

\* A boot sets a malformed file aside under the name of a second no backup has.
LEMMA BootKeeps ==
    ASSUME SaveAssumption, SaveInv, Boot
    PROVE  SaveInv'
<1> USE DEF SaveInv
<1>1. Dir \in Entries /\ Dir \in Entry /\ Entries \subseteq Entry
  BY DirIsEntry
<1>2. /\ proc.at # "up" /\ save.at = "idle" /\ Dir.tmp = Absent
      /\ proc'.booted = sec /\ proc' \in [at : {"down", "up", "refused"}, booted : Nat]
      /\ UNCHANGED <<inodes, save, unsynced, sec>> /\ \A i : Text(i)' = Text(i)
      /\ proc.booted <= sec /\ (~Hurried => proc.booted < sec) /\ sec \in 0..MaxSec
  <2>1. sec \in Nat /\ sec \in 0..MaxSec /\ proc.booted \in Nat
    BY DEF Typed, SaveAssumption
  <2>2. proc.at # "up" /\ (~Hurried => proc.booted # sec)
    BY DEF Boot
  <2> QED
    BY <2>1, <2>2 DEF Boot, TempApart, WithTemp, Text, Backups
<1>3. CASE UNCHANGED <<dirs, since>> /\ aside' \subseteq aside /\ (proc'.at = "up" => Dir.cfg \notin aside')
  <2>1. Dir' = Dir /\ Entries' = Entries
    BY <1>3, SameEntries
  <2>2. Typed' /\ TempApart' /\ TempReady' /\ Whole' /\ ModeRead'
    BY <1>2, <1>3, <2>1 DEF Typed, TempApart, TempReady, Whole, ModeRead, WithTemp, BeforeRename
  <2>3. Promised' /\ Quarantined'
    BY <1>2, <1>3, <2>1 DEF Promised, Quarantined
  <2>4. Backups'
    <3>1. \A s \in 0..MaxSec : s <= proc.booted => s <= sec
      BY <1>2 DEF Typed, SaveAssumption
    <3>2. proc'.booted <= sec'
      BY <1>2
    <3> QED
      BY <1>2, <1>3, <2>1, <3>1, <3>2 DEF Backups
  <2> QED
    BY <2>2, <2>3, <2>4
<1>4. CASE /\ Dir.cfg # Absent /\ Text(Dir.cfg) \notin Good /\ proc'.at = "up"
           /\ Quarantine /\ aside' = aside \cup {Dir.cfg} /\ since' = since \cup {Empty}
  <2> DEFINE d == [Dir EXCEPT !.cfg = Absent, !.backups[sec] = Dir.cfg]
  <2>1. /\ d \in Entry /\ d.cfg = Absent /\ d.tmp = Dir.tmp
        /\ d.backups[sec] = Dir.cfg /\ \A s \in 0..MaxSec \ {sec} : d.backups[s] = Dir.backups[s]
    BY <1>1, <1>2 DEF Entry, Absent
  <2>2. dirs' \in Seq(Entry) /\ dirs' # <<>> /\ Dir' = d /\ Entries' = Entries \cup {d}
    BY <1>4, <2>1, ChangeAdds DEF Quarantine
  <2> HIDE DEF d
  <2>3. Dir.cfg \in DOMAIN inodes /\ \A e \in Entries : e.cfg = Dir.cfg
    BY <1>1, <1>4 DEF Typed, Quarantined
  <2>4. Absent \notin aside' /\ inodes[Dir.cfg].text \notin Good /\ Text(Absent) = Empty
    BY <1>4, <2>3, FilesArePositive DEF Typed, Text
  <2>5. Typed'
    BY <1>2, <1>4, <2>1, <2>2, <2>3 DEF Typed
  <2>6. TempApart' /\ TempReady' /\ Whole' /\ ModeRead'
    BY <1>2, <2>1, <2>2 DEF TempApart, TempReady, Whole, ModeRead, WithTemp, BeforeRename
  <2>7. Promised'
    BY <1>2, <1>4, <2>1, <2>2, <2>3, <2>4 DEF Promised
  <2>8. Quarantined'
    BY <1>2, <1>4, <2>1, <2>2, <2>4 DEF Quarantined
  <2>9. Backups'
    <3>1. proc'.booted <= sec'
      BY <1>2
    <3>2. ASSUME ~Hurried, NEW e \in Entries', NEW s \in 0..MaxSec, e.backups[s] # Absent
          PROVE  s <= proc'.booted
      <4>1. CASE s = sec
        BY <4>1, <1>2
      <4>2. CASE s # sec
        <5>1. PICK x \in Entries : x.backups[s] = e.backups[s]
          BY <4>2, <1>1, <2>1, <2>2
        <5>2. s <= proc.booted
          BY <3>2, <5>1 DEF Backups
        <5> QED
          BY <5>2, <1>2 DEF Typed, SaveAssumption
      <4> QED
        BY <4>1, <4>2
    <3>3. ASSUME ~Hurried, NEW i \in aside', NEW e \in Entries'
          PROVE  e.cfg = i \/ \E s \in 0..MaxSec : e.backups[s] = i
      <4>1. CASE i = Dir.cfg
        BY <4>1, <1>2, <2>1, <2>2, <2>3
      <4>2. CASE i # Dir.cfg /\ e \in Entries
        BY <4>2, <1>4, <3>3 DEF Backups
      <4>3. CASE i # Dir.cfg /\ e = d
        <5>1. PICK s \in 0..MaxSec : Dir.backups[s] = i
          BY <4>3, <1>1, <1>4, <3>3 DEF Backups
        <5>2. i # Absent
          BY <2>4
        <5>3. s <= proc.booted
          BY <1>1, <3>3, <5>1, <5>2 DEF Backups
        <5>4. s # sec
          BY <1>2, <3>3, <5>3 DEF Typed, SaveAssumption
        <5> QED
          BY <4>3, <5>1, <5>4, <2>1
      <4> QED
        BY <4>1, <4>2, <4>3, <2>2
    <3> QED
      BY <3>1, <3>2, <3>3, Zenon DEF Backups
  <2> QED
    BY <2>5, <2>6, <2>7, <2>8, <2>9
<1>5. Absent \notin aside /\ (Text(Dir.cfg) \in Good => Dir.cfg \notin aside)
  BY FilesArePositive DEF Typed, Quarantined, Text
<1> QED
  BY <1>3, <1>4, <1>5 DEF Boot

\* The operator's own file takes the place of everything a crash could leave.
LEMMA EditKeeps ==
    ASSUME SaveAssumption, SaveInv, NEW t \in Good \cup Bad, Edit(t)
    PROVE  SaveInv'
<1> USE DEF SaveInv
<1> DEFINE f == Len(inodes) + 1
           d == [Dir EXCEPT !.cfg = f]
           n == [text |-> t, synced |-> TRUE, mode |-> Owner]
<1>1. Dir \in Entries /\ Dir \in Entry /\ Entries \subseteq Entry
  BY DirIsEntry
<1>2. /\ n \in Inode /\ n.synced /\ n.text = t /\ t # Torn
      /\ d \in Entry /\ d.cfg = f /\ d.tmp = Dir.tmp /\ d.backups = Dir.backups
  BY <1>1, FilesArePositive DEF Inode, Entry, SaveAssumption
<1> HIDE DEF d, n
<1>3. /\ inodes' \in Seq(Inode) /\ Len(inodes') = Len(inodes) + 1
      /\ f # Absent /\ DOMAIN inodes' = DOMAIN inodes \cup {f} /\ f \notin DOMAIN inodes
      /\ inodes'[f] = n /\ (\A i \in DOMAIN inodes : inodes'[i] = inodes[i])
  BY <1>2, FileAdded DEF Edit, n
<1>4. dirs' \in Seq(Entry) /\ dirs' # <<>> /\ Dir' = d /\ Entries' = {d}
  BY <1>2, OneEntry DEF Edit, d
<1>5. /\ proc.at = "down" /\ save.at = "idle" /\ Dir.tmp = Absent
      /\ since' = {t} /\ unsynced' = FALSE /\ aside' = aside \ {Dir.cfg}
      /\ UNCHANGED <<proc, save, sec>>
  BY DEF Edit, TempApart, WithTemp
<1>6. Len(inodes') <= MaxFiles
  BY <1>3, FilesArePositive DEF Edit, SaveAssumption
<1> HIDE DEF f
<1>7. Typed'
  BY <1>2, <1>3, <1>4, <1>5 DEF Typed
<1>8. TempApart' /\ TempReady' /\ ModeRead'
  BY <1>2, <1>4, <1>5, <1>6 DEF TempApart, TempReady, ModeRead, WithTemp, BeforeRename
<1>9. Whole'
  BY <1>2, <1>3, <1>4 DEF Whole
<1>10. Promised'
  BY <1>2, <1>3, <1>4, <1>5 DEF Promised, Text
<1>11. Quarantined'
  BY <1>2, <1>3, <1>4, <1>5 DEF Quarantined, Typed
<1>12. Backups'
  BY SMTT(30), <1>1, <1>2, <1>4, <1>5 DEF Backups
<1> QED
  BY <1>7, <1>8, <1>9, <1>10, <1>11, <1>12

\* The operator narrows the mode of the file in place, which no temp file is.
LEMMA ChmodKeeps ==
    ASSUME SaveAssumption, SaveInv, Chmod
    PROVE  SaveInv'
<1> USE DEF SaveInv
<1> DEFINE f == Dir.cfg
           n == [inodes[f] EXCEPT !.mode = Owner]
<1>1. Dir \in Entries /\ Dir \in Entry /\ Entries \subseteq Entry
  BY DirIsEntry
<1>2. f \in DOMAIN inodes /\ inodes[f] \in Inode
  BY <1>1, FilesArePositive DEF Chmod, Typed
<1>3. n \in Inode /\ n.text = inodes[f].text /\ n.synced = inodes[f].synced
  BY <1>2 DEF Inode
<1> HIDE DEF n
<1>4. /\ inodes' \in Seq(Inode) /\ Len(inodes') = Len(inodes) /\ DOMAIN inodes' = DOMAIN inodes
      /\ inodes'[f] = n /\ \A i \in DOMAIN inodes \ {f} : inodes'[i] = inodes[i]
  BY <1>2, <1>3, FileSet DEF Chmod, n
<1>5. \A i \in DOMAIN inodes : inodes'[i].text = inodes[i].text /\ inodes'[i].synced = inodes[i].synced
  BY <1>3, <1>4
<1>6. Dir' = Dir /\ Entries' = Entries /\ UNCHANGED <<dirs, proc, save, since, unsynced, aside, sec>>
  BY SameEntries DEF Chmod
<1>7. \A e \in Entries : e.cfg \in {Absent} \cup DOMAIN inodes /\ Text(e.cfg)' = Text(e.cfg)
  BY <1>5 DEF Typed, Text
<1>8. Dir.tmp # Absent => Dir.tmp \in DOMAIN inodes \ {f}
  BY <1>1 DEF Typed, TempApart
<1>9. Typed' /\ TempApart'
  BY <1>4, <1>6 DEF Typed, TempApart
<1>10. TempReady'
  BY <1>4, <1>5, <1>6, <1>7, <1>8, <1>2 DEF TempReady, TempApart, WithTemp
<1>11. Whole'
  BY <1>5, <1>6, <1>7 DEF Whole
<1>12. Promised'
  BY <1>1, <1>6, <1>7 DEF Promised
<1>13. Quarantined'
  BY <1>1, <1>5, <1>6, <1>7 DEF Quarantined, Typed
<1>14. Backups'
  BY <1>6 DEF Backups
<1>15. ModeRead'
  BY <1>6 DEF Chmod, ModeRead, BeforeRename, WithTemp
<1> QED
  BY <1>9, <1>10, <1>11, <1>12, <1>13, <1>14, <1>15

\* Steps that leave the files and the directory alone.
LEMMA QuietStepsKeep ==
    ASSUME SaveAssumption, SaveInv, Stop \/ Clock \/ UNCHANGED saveVars
    PROVE  SaveInv'
<1> USE DEF SaveInv
<1>1. Dir' = Dir /\ Entries' = Entries /\ UNCHANGED <<inodes, dirs, save, since, unsynced, aside>>
  BY SameEntries DEF Stop, Clock, saveVars
<1>2. /\ proc' \in [at : {"down", "up", "refused"}, booted : Nat] /\ proc'.booted = proc.booted
      /\ (proc'.at = proc.at \/ (save.at = "idle" /\ proc'.at # "up"))
  <2>1. CASE Stop
    BY <2>1 DEF Stop, Typed
  <2>2. CASE Clock \/ UNCHANGED saveVars
    BY <2>2 DEF Clock, saveVars, Typed
  <2> QED
    BY <2>1, <2>2
<1>3. sec' \in 1..MaxSec /\ proc'.booted <= sec'
  BY <1>2 DEF Stop, Clock, saveVars, Typed, Backups, SaveAssumption
<1>4. Typed' /\ TempApart' /\ TempReady' /\ Whole' /\ ModeRead'
  BY SMTT(30), <1>1, <1>2, <1>3 DEF Typed, TempApart, TempReady, Whole, ModeRead
<1>5. Promised' /\ Quarantined'
  BY <1>1, <1>2 DEF Promised, Quarantined, Text
<1>6. Backups'
  BY <1>1, <1>2, <1>3 DEF Backups
<1> QED
  BY <1>4, <1>5, <1>6

-----------------------------------------------------------------------------
\* The promises.

\* Every reachable state of save_atomic, load and quarantine satisfies the invariant, crashes and
\* edits included.
THEOREM SaveInvariance == SaveAssumption /\ SaveSpec => []SaveInv
<1> SUFFICES ASSUME SaveAssumption PROVE SaveSpec => []SaveInv
  OBVIOUS
<1>1. SaveInit => SaveInv
  BY SaveStarts
<1>2. SaveInv /\ [SaveNext]_saveVars => SaveInv'
  <2> SUFFICES ASSUME SaveInv, [SaveNext]_saveVars PROVE SaveInv'
    OBVIOUS
  <2>1. CASE \E t \in Good : ReadMode(t)
    BY <2>1, ReadModeKeeps
  <2>2. CASE Create
    BY <2>2, CreateKeeps
  <2>3. CASE SetMode \/ WriteAll \/ SyncAll
    BY <2>3, TempStepsKeep
  <2>4. CASE Rename
    BY <2>4, RenameKeeps
  <2>5. CASE SyncDir
    BY <2>5, SyncDirKeeps
  <2>6. CASE SaveFails
    BY <2>6, SaveFailsKeeps
  <2>7. CASE Crash
    BY <2>7, CrashKeeps
  <2>8. CASE Boot
    BY <2>8, BootKeeps
  <2>9. CASE \E t \in Good \cup Bad : Edit(t)
    BY <2>9, EditKeeps
  <2>10. CASE Chmod
    BY <2>10, ChmodKeeps
  <2>11. CASE Stop \/ Clock \/ Idle \/ UNCHANGED saveVars
    BY <2>11, QuietStepsKeep DEF Idle
  <2> QED
    BY <2>1, <2>2, <2>3, <2>4, <2>5, <2>6, <2>7, <2>8, <2>9, <2>10, <2>11 DEF SaveNext
<1> QED
  BY <1>1, <1>2, PTL DEF SaveSpec

\* What the invariant says of every file a crash could leave in place.
LEMMA PromisesHold ==
    ASSUME SaveInv
    PROVE  CrashLeavesWhole /\ AcknowledgedSurvives /\ SecretsStayCovered /\ (~Hurried => AsideIsKept)
<1> USE DEF SaveInv
<1>1. \A k \in DOMAIN dirs : dirs[k] \in Entries
  BY DEF Entries
<1>2. CrashLeavesWhole
  BY <1>1 DEF CrashLeavesWhole, Outcomes, Whole
<1>3. AcknowledgedSurvives
  BY <1>1 DEF AcknowledgedSurvives, Outcomes, Promised
<1>4. SecretsStayCovered
  BY DEF SecretsStayCovered, TempApart, TempReady, WithTemp, Text
<1>5. ~Hurried => AsideIsKept
  BY <1>1 DEF AsideIsKept, Backups
<1> QED
  BY <1>2, <1>3, <1>4, <1>5

\* Whatever the moment of a crash, save_atomic leaves a whole text in place, one that was
\* acknowledged or is being saved while the directory syncs, and no secret is ever in a temp file
\* whose mode is wider than the target's.
THEOREM SavesAreDurable ==
    SaveAssumption /\ SaveSpec => [](CrashLeavesWhole /\ AcknowledgedSurvives /\ SecretsStayCovered)
<1> SUFFICES ASSUME SaveAssumption PROVE SaveSpec => [](CrashLeavesWhole /\ AcknowledgedSurvives /\ SecretsStayCovered)
  OBVIOUS
<1>1. SaveInv => CrashLeavesWhole /\ AcknowledgedSurvives /\ SecretsStayCovered
  BY PromisesHold
<1> QED
  BY <1>1, SaveInvariance, PTL

\* A malformed config that quarantine set aside stays recoverable for ever, when no two boots fall
\* into one second (the backup's name has the second in it).
THEOREM QuarantineLosesNothing ==
    SaveAssumption /\ ~Hurried /\ SaveSpec => []AsideIsKept
<1> SUFFICES ASSUME SaveAssumption, ~Hurried PROVE SaveSpec => []AsideIsKept
  OBVIOUS
<1>1. SaveInv => AsideIsKept
  BY PromisesHold
<1> QED
  BY <1>1, SaveInvariance, PTL

\* A save never widens the permissions of the file, when the operator does not change them while
\* it runs (save_atomic reads the mode first and uses it later).
THEOREM SavesNeverWiden ==
    SaveAssumption /\ ~Chmods /\ SaveSpec => [][ModeNeverWidens]_saveVars
<1> SUFFICES ASSUME SaveAssumption, ~Chmods PROVE SaveSpec => [][ModeNeverWidens]_saveVars
  OBVIOUS
<1>1. SaveInv /\ [SaveNext]_saveVars => [ModeNeverWidens]_saveVars
  <2> SUFFICES ASSUME SaveInv, SaveNext, save.at = "rename", save'.at = "dirsync", Dir.cfg # Absent
               PROVE  inodes[Dir'.cfg].mode <= inodes[Dir.cfg].mode
    BY DEF ModeNeverWidens
  <2> USE DEF SaveInv
  <2>1. Rename
    <3>1. \A step : Goto(step) => save'.at = step
      BY DEF Goto, Typed
    <3>2. NoSave.at = "idle"
      BY DEF NoSave
    <3>3. ~(SyncDir \/ SaveFails \/ Crash)
      BY <3>2 DEF SyncDir, SaveFails, Crash
    <3>4. ~(Boot \/ Stop \/ Chmod \/ Clock \/ Idle)
      BY DEF Boot, Stop, Chmod, Clock, Idle, saveVars
    <3>5. ~((\E t \in Good : ReadMode(t)) \/ \E t \in Good \cup Bad : Edit(t))
      BY DEF ReadMode, Edit
    <3>6. ~(Create \/ SetMode \/ WriteAll \/ SyncAll)
      BY <3>1 DEF Create, SetMode, WriteAll, SyncAll
    <3> QED
      BY <3>3, <3>4, <3>5, <3>6 DEF SaveNext
  <2> DEFINE d == [Dir EXCEPT !.cfg = Dir.tmp, !.tmp = Absent]
  <2>2. d \in Entry /\ d.cfg = Dir.tmp
    BY DirIsEntry DEF Entry, Absent
  <2>3. Dir' = d
    BY <2>1, <2>2, ChangeAdds DEF Rename
  <2>4. inodes[Dir.tmp].mode = save.mode /\ save.mode <= inodes[Dir.cfg].mode
    BY DEF TempReady, ModeRead, BeforeRename, WithTemp
  <2> QED
    BY <2>2, <2>3, <2>4
<1> QED
  BY <1>1, SaveInvariance, PTL DEF SaveSpec
=============================================================================
