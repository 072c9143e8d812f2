------------------------------ MODULE Durable -------------------------------
(***************************************************************************)
(* Files that must survive: saving a file so that a crash leaves a whole   *)
(* one, and watching a file that another process edits.                    *)
(***************************************************************************)
EXTENDS Naturals, Sequences, FiniteSets

(***************************************************************************)
(* Saving and loading a config file across crashes (save_atomic, load and  *)
(* quarantine of src/src/config/codec.rs, with the boot of main.rs that    *)
(* uses them). The file system keeps directory changes and file data in    *)
(* memory until they are synced: a crash keeps the directory as it was     *)
(* after some prefix of the unsynced changes, and of unsynced data         *)
(* anything or nothing. Saves come one at a time (save_lock and the        *)
(* client's admin lock); the operator edits between saves.                 *)
(***************************************************************************)
CONSTANTS
    Good, Bad,    \* texts that parse and texts that do not
    MaxFiles,     \* bound: files created over time
    MaxSec,       \* bound: seconds on the wall clock
    Chmods,       \* whether the operator changes the file's mode while a save runs
    Hurried       \* whether two boots may fall into one second

Absent == 0
Empty == "empty"
Torn == "torn"
Owner == 0        \* 0600
Wide == 1         \* what the umask leaves of the default mode

SaveAssumption ==
    /\ Good \cap Bad = {} /\ {Empty, Torn} \cap (Good \cup Bad) = {}
    /\ {MaxFiles, MaxSec} \subseteq Nat \ {0}
    /\ Chmods \in BOOLEAN /\ Hurried \in BOOLEAN

VARIABLES
    inodes,       \* the files created: text, whether it is synced, mode
    dirs,         \* the directory as of its last sync and after each change since
    proc,         \* "down", "up" or "refused", and when it booted
    save,         \* the save in progress: step, text, mode it read, temp file
    since,        \* the texts a crash may leave: the last one acknowledged and the one being saved
    unsynced,     \* the last directory sync failed
    aside,        \* malformed files set aside
    sec           \* the wall clock

saveVars == <<inodes, dirs, proc, save, since, unsynced, aside, sec>>

NoSave == [at |-> "idle", text |-> Empty, mode |-> Owner]
Dir == dirs[Len(dirs)]
SaveTypeOK ==
    /\ \A i \in DOMAIN inodes : /\ inodes[i].text \in Good \cup Bad \cup {Empty, Torn}
                                /\ inodes[i].mode \in {Owner, Wide}
    /\ Len(inodes) <= MaxFiles /\ dirs # <<>>
    /\ \A k \in DOMAIN dirs : /\ dirs[k].cfg \in {Absent} \cup DOMAIN inodes
                              /\ dirs[k].tmp \in {Absent} \cup DOMAIN inodes
    /\ save.at \in {"idle", "create", "chmod", "write", "writing", "sync", "rename", "dirsync"}
    /\ proc.at \in {"down", "up", "refused"} /\ aside \subseteq DOMAIN inodes

SaveInit ==
    /\ \E t \in Good, m \in {Owner, Wide} :
         inodes = <<[text |-> t, synced |-> TRUE, mode |-> m]>> /\ since = {t}
    /\ dirs = <<[cfg |-> 1, tmp |-> Absent, backups |-> [s \in 0..MaxSec |-> Absent]]>>
    /\ proc = [at |-> "down", booted |-> 0] /\ save = NoSave
    /\ unsynced = FALSE /\ aside = {} /\ sec = 1

Text(i) == IF i = Absent THEN Empty ELSE inodes[i].text
Change(d) == dirs' = Append(dirs, d)
Goto(step) == save' = [save EXCEPT !.at = step]

-----------------------------------------------------------------------------

\* The mode the saved file will have: the target's, or owner-only for a fresh one.
ReadMode(t) ==
    /\ proc.at = "up" /\ save.at = "idle" /\ Len(inodes) < MaxFiles
    /\ save' = [at |-> "create", text |-> t,
                mode |-> IF Dir.cfg = Absent THEN Owner ELSE inodes[Dir.cfg].mode]
    /\ since' = since \cup {t}
    /\ UNCHANGED <<inodes, dirs, proc, unsynced, aside, sec>>

\* The temp file starts empty, with the mode the umask leaves.
Create ==
    /\ save.at = "create"
    /\ inodes' = Append(inodes, [text |-> Empty, synced |-> FALSE, mode |-> Wide])
    /\ Change([Dir EXCEPT !.tmp = Len(inodes) + 1])
    /\ Goto("chmod")
    /\ UNCHANGED <<proc, since, unsynced, aside, sec>>

SetMode ==
    /\ save.at = "chmod" /\ Goto("write")
    /\ inodes' = [inodes EXCEPT ![Dir.tmp].mode = save.mode]
    /\ UNCHANGED <<dirs, proc, since, unsynced, aside, sec>>

\* write_all may take several writes.
WriteAll ==
    /\ \/ save.at = "write" /\ inodes' = [inodes EXCEPT ![Dir.tmp].text = Torn] /\ Goto("writing")
       \/ save.at = "writing" /\ inodes' = [inodes EXCEPT ![Dir.tmp].text = save.text] /\ Goto("sync")
    /\ UNCHANGED <<dirs, proc, since, unsynced, aside, sec>>

\* The data is left to the kernel.
SyncNothing ==
    /\ save.at = "sync" /\ Goto("rename")
    /\ UNCHANGED <<inodes, dirs, proc, since, unsynced, aside, sec>>

SyncAll ==
    /\ save.at = "sync" /\ Goto("rename")
    /\ inodes' = [inodes EXCEPT ![Dir.tmp].synced = TRUE]
    /\ UNCHANGED <<dirs, proc, since, unsynced, aside, sec>>

Rename ==
    /\ save.at = "rename" /\ Goto("dirsync")
    /\ Change([Dir EXCEPT !.cfg = Dir.tmp, !.tmp = Absent])
    /\ UNCHANGED <<inodes, proc, since, unsynced, aside, sec>>

\* The directory sync is best effort; the save succeeds either way.
SyncDir ==
    /\ save.at = "dirsync" /\ save' = NoSave /\ since' = {save.text}
    /\ \/ dirs' = <<Dir>> /\ unsynced' = FALSE
       \/ UNCHANGED dirs /\ unsynced' = TRUE
    /\ UNCHANGED <<inodes, proc, aside, sec>>

\* Any step up to the rename may fail: the temp file is removed and the save refused.
SaveFails ==
    /\ save.at \in {"create", "chmod", "write", "writing", "sync", "rename"}
    /\ save' = NoSave /\ since' = since \ ({save.text} \ {Text(Dir.cfg)})
    /\ IF Dir.tmp = Absent THEN UNCHANGED dirs ELSE Change([Dir EXCEPT !.tmp = Absent])
    /\ UNCHANGED <<inodes, proc, unsynced, aside, sec>>

-----------------------------------------------------------------------------
\* The machine goes down: unsynced directory changes survive as a prefix, unsynced data as it may.
\* (A temp file left behind is never read: its name carries the old process id.)
Crash ==
    /\ \E k \in DOMAIN dirs : dirs' = <<[dirs[k] EXCEPT !.tmp = Absent]>>
    /\ \E kept \in [DOMAIN inodes -> {TRUE, FALSE}] :
         inodes' = [i \in DOMAIN inodes |->
                      IF inodes[i].synced THEN inodes[i]
                      ELSE [inodes[i] EXCEPT !.synced = TRUE,
                                             !.text = IF kept[i] THEN @ ELSE Torn]]
    /\ proc' = [proc EXCEPT !.at = "down"] /\ save' = NoSave
    /\ since' = {IF Dir'.cfg = Absent THEN Empty ELSE inodes'[Dir'.cfg].text} /\ unsynced' = FALSE
    /\ UNCHANGED <<aside, sec>>

\* A malformed file is renamed, with the second in its name.
Quarantine == Change([Dir EXCEPT !.cfg = Absent, !.backups[sec] = Dir.cfg])

\* Boot: a readable file or none is taken; a malformed one is set aside, if the rename works, and
\* the settings start empty; an unreadable one is fatal and the supervisor tries again.
Boot ==
    /\ proc.at \in {"down", "refused"} /\ (Hurried \/ proc.booted # sec)
    /\ \/ /\ Dir.cfg = Absent \/ Text(Dir.cfg) \in Good
          /\ proc' = [at |-> "up", booted |-> sec]
          /\ UNCHANGED <<dirs, aside, since>>
       \/ /\ Dir.cfg # Absent /\ Text(Dir.cfg) \notin Good
          /\ proc' = [at |-> "up", booted |-> sec]
          /\ \/ Quarantine /\ aside' = aside \cup {Dir.cfg} /\ since' = since \cup {Empty}
             \/ aside' = aside \ {Dir.cfg} /\ UNCHANGED <<dirs, since>>
       \/ /\ proc' = [at |-> "refused", booted |-> sec]
          /\ UNCHANGED <<dirs, aside, since>>
    /\ UNCHANGED <<inodes, save, unsynced, sec>>

\* The operator stops the program, writes a file of their own, or changes its mode.
Stop ==
    /\ proc.at = "up" /\ save.at = "idle" /\ proc' = [proc EXCEPT !.at = "down"]
    /\ UNCHANGED <<inodes, dirs, save, since, unsynced, aside, sec>>

Edit(t) ==
    /\ proc.at = "down" /\ Len(inodes) < MaxFiles
    /\ inodes' = Append(inodes, [text |-> t, synced |-> TRUE, mode |-> Owner])
    /\ dirs' = <<[Dir EXCEPT !.cfg = Len(inodes) + 1]>>
    /\ since' = {t} /\ unsynced' = FALSE /\ aside' = aside \ {Dir.cfg}
    /\ UNCHANGED <<proc, save, sec>>

Chmod ==
    /\ Dir.cfg # Absent /\ (Chmods \/ save.at = "idle") /\ inodes[Dir.cfg].mode = Wide
    /\ inodes' = [inodes EXCEPT ![Dir.cfg].mode = Owner]
    /\ UNCHANGED <<dirs, proc, save, since, unsynced, aside, sec>>

Clock == sec < MaxSec /\ sec' = sec + 1 /\ UNCHANGED <<inodes, dirs, proc, save, since, unsynced, aside>>

\* The bounds are used up.
Idle == sec = MaxSec /\ Len(inodes) = MaxFiles /\ UNCHANGED saveVars

SaveNext ==
    \/ \E t \in Good : ReadMode(t)
    \/ Create \/ SetMode \/ WriteAll \/ SyncAll \/ Rename \/ SyncDir \/ SaveFails
    \/ Crash \/ Boot \/ Stop \/ (\E t \in Good \cup Bad : Edit(t)) \/ Chmod \/ Clock \/ Idle

SaveSpec == SaveInit /\ [][SaveNext]_saveVars

-----------------------------------------------------------------------------
Outcomes == {dirs[k].cfg : k \in DOMAIN dirs}

\* Whatever the moment of a crash, the file is whole: a text somebody wrote, never a part of one
\* (save_atomic syncs the data before the rename).
CrashLeavesWhole == \A i \in Outcomes \ {Absent} : inodes[i].synced /\ inodes[i].text # Torn

\* Whatever the moment of a crash, the file holds the last acknowledged text or the one being
\* saved, as long as the directory could be synced; a refused save leaves no trace in it.
AcknowledgedSurvives == unsynced \/ \A i \in Outcomes : Text(i) \in since

\* A temp file holds nothing while its mode is the default one: no byte of a secret is readable
\* through a mode wider than the target had.
SecretsStayCovered == Dir.tmp # Absent /\ Text(Dir.tmp) # Empty => inodes[Dir.tmp].mode = save.mode

\* A save never widens the file's permissions.
ModeNeverWidens ==
    save.at = "rename" /\ save'.at = "dirsync" /\ Dir.cfg # Absent =>
        inodes[Dir'.cfg].mode <= inodes[Dir.cfg].mode

\* What was set aside stays recoverable: no later quarantine or save takes its place, and no crash
\* loses it.
AsideIsKept ==
    \A i \in aside, k \in DOMAIN dirs : dirs[k].cfg = i \/ \E s \in 0..MaxSec : dirs[k].backups[s] = i

-----------------------------------------------------------------------------
(***************************************************************************)
(* Waiting for edits to a file (src/src/filewatch.rs): inotify on its      *)
(* directory, with a quiet time after the last event, and polling of size  *)
(* and modification time once inotify fails. The reader loads the file     *)
(* each time the watch returns; a text read half written does not parse    *)
(* and changes nothing. An edit writes in place, or replaces the file by a *)
(* rename; the directory itself may be replaced.                           *)
(***************************************************************************)
CONSTANTS
    MaxEdit,      \* bound: edits
    Notifies,     \* whether inotify could be set up
    Replaced,     \* whether the directory may be replaced
    MaxNoise,     \* events for other files in the directory
    Noisy         \* whether those events never stop instead

WatchAssumption ==
    /\ MaxEdit \in Nat /\ MaxNoise \in Nat
    /\ Notifies \in BOOLEAN /\ Replaced \in BOOLEAN /\ Noisy \in BOOLEAN

VARIABLES
    file,         \* the number of its last edit, and whether that is complete
    events,       \* inotify events not read yet
    mode,         \* "inotify" or "poll"
    gone,         \* the watched directory is no longer the file's
    at,           \* where changed() waits
    stamp,        \* the stamp of the last change reported
    last,         \* the stamp of the last poll
    noise,        \* events for other files so far
    loaded        \* the edit the reader has applied

watchVars == <<file, events, mode, gone, at, stamp, last, noise, loaded>>

NoStamp == <<0, FALSE>>
Stamp == IF file.there THEN <<file.edit, file.whole>> ELSE NoStamp
Event == {"file", "other", "ignored"}

WatchTypeOK ==
    /\ file.edit \in 0..MaxEdit /\ file.whole \in BOOLEAN /\ file.there \in BOOLEAN
    /\ \A i \in DOMAIN events : events[i] \in Event
    /\ mode \in {"inotify", "poll"} /\ at \in {"wait", "settle", "load"}
    /\ stamp \in (0..MaxEdit) \X BOOLEAN /\ last \in (0..MaxEdit) \X BOOLEAN
    /\ noise \in 0..MaxNoise /\ loaded \in 0..MaxEdit

WatchInit ==
    /\ file = [edit |-> 0, whole |-> TRUE, there |-> TRUE] /\ events = <<>> /\ gone = FALSE
    /\ mode = IF Notifies THEN "inotify" ELSE "poll"
    /\ at = "wait" /\ stamp = <<0, TRUE>> /\ last = <<0, TRUE>> /\ loaded = 0 /\ noise = 0

Notify(e) == events' = IF gone \/ mode = "poll" \/ Len(events) > 2 THEN events ELSE Append(events, e)

-----------------------------------------------------------------------------
\* A write begins in place; the event comes when it is closed.
WriteBegins ==
    /\ file.there /\ file.whole /\ file.edit < MaxEdit
    /\ file' = [file EXCEPT !.edit = @ + 1, !.whole = FALSE]
    /\ UNCHANGED <<events, mode, gone, at, stamp, last, noise, loaded>>

WriteCloses ==
    /\ ~file.whole
    /\ file' = [file EXCEPT !.whole = TRUE] /\ Notify("file")
    /\ UNCHANGED <<mode, gone, at, stamp, last, noise, loaded>>

\* A rename puts a finished text in place; a temp file next to it makes noise of its own.
Replace ==
    /\ file.there /\ file.whole /\ file.edit < MaxEdit
    /\ file' = [file EXCEPT !.edit = @ + 1] /\ Notify("file")
    /\ UNCHANGED <<mode, gone, at, stamp, last, noise, loaded>>

OtherFile ==
    /\ events = <<>> /\ mode = "inotify" /\ ~gone /\ (Noisy \/ noise < MaxNoise)
    /\ Notify("other")
    /\ noise' = IF Noisy THEN noise ELSE noise + 1
    /\ UNCHANGED <<file, mode, gone, at, stamp, last, loaded>>

\* The directory is removed with the file, and made again with a new text in it.
DirRemoved ==
    /\ Replaced /\ ~gone /\ file.whole /\ file.edit < MaxEdit
    /\ gone' = TRUE /\ file' = [file EXCEPT !.there = FALSE]
    /\ events' = IF mode = "inotify" THEN Append(events, "ignored") ELSE events
    /\ UNCHANGED <<mode, at, stamp, last, noise, loaded>>

DirMade ==
    /\ ~file.there
    /\ file' = [file EXCEPT !.edit = @ + 1, !.there = TRUE]
    /\ UNCHANGED <<events, mode, gone, at, stamp, last, noise, loaded>>

-----------------------------------------------------------------------------
\* names(): a batch names the file, or is an error when the watch is gone, whatever else is in it.
Batch == {events[i] : i \in DOMAIN events}

\* changed() falls back to polling, from the file as it is now.
FallBack ==
    /\ mode' = "poll" /\ at' = "wait"
    /\ stamp' = Stamp /\ last' = Stamp
    /\ UNCHANGED <<file, gone, noise, loaded>>

\* A batch is read. The first one that names the file starts the quiet time.
ReadEvents ==
    /\ mode = "inotify" /\ at \in {"wait", "settle"} /\ events # <<>>
    /\ events' = <<>>
    /\ IF "ignored" \in Batch THEN FallBack
       ELSE /\ at' = IF "file" \in Batch THEN "settle" ELSE at
            /\ UNCHANGED <<file, mode, gone, stamp, last, noise, loaded>>

\* No event for the quiet time: the edit counts as finished.
Settled ==
    /\ mode = "inotify" /\ at = "settle" /\ events = <<>>
    /\ at' = "load"
    /\ UNCHANGED <<file, events, mode, gone, stamp, last, noise, loaded>>

\* A poll: report a file that differs from the last report and looks as it did one poll ago.
Poll ==
    /\ mode = "poll" /\ at = "wait"
    /\ last' = Stamp
    /\ IF Stamp = last /\ Stamp # NoStamp /\ Stamp # stamp
       THEN at' = "load" /\ stamp' = Stamp
       ELSE UNCHANGED <<at, stamp>>
    /\ UNCHANGED <<file, events, mode, gone, noise, loaded>>

\* The reader loads the file; what does not parse leaves the current settings.
Load ==
    /\ at = "load" /\ at' = "wait"
    /\ loaded' = IF file.there /\ file.whole THEN file.edit ELSE loaded
    /\ UNCHANGED <<file, events, mode, gone, stamp, last, noise>>

Quiet ==
    /\ file.edit = MaxEdit /\ file.whole /\ events = <<>> /\ at = "wait" /\ UNCHANGED watchVars

WatchNext ==
    \/ WriteBegins \/ WriteCloses \/ Replace \/ OtherFile \/ DirRemoved \/ DirMade
    \/ ReadEvents \/ Settled \/ Poll \/ Load \/ Quiet

WatchSpec == WatchInit /\ [][WatchNext]_watchVars

\* What is done when it stays possible.
WatchDue(i) ==
    \/ i = 1 /\ WriteCloses
    \/ i = 2 /\ (ReadEvents \/ Settled \/ Poll \/ Load)

-----------------------------------------------------------------------------
\* The last edit is read in the end: no event, torn read, quiet time or poll loses it
\* (FileWatch::changed returns once the file has been written or replaced).
LastEditIsReadThen == file.there => loaded = file.edit

\* Under inotify the last edit is read as long as the directory stays.
WatchedEditIsReadThen == gone \/ loaded = file.edit
=============================================================================
