---------------------------- MODULE LevelDBProofs -----------------------------
(***************************************************************************)
(* LevelDB never deletes a file somebody still needs, for every number of  *)
(* levels, every set of keys, threads and budgets, and every limit on      *)
(* memtables, tables and levels.                                           *)
(***************************************************************************)
EXTENDS LevelDB, TLAPS

-----------------------------------------------------------------------------
(* The inductive invariant.                                                *)

Added(edit) == {a[2] : a \in edit.added}

Tables == DOMAIN disk.tables

(* The files the manifest that CURRENT names lists, as written and as      *)
(* synced.                                                                 *)
Written == disk.manifests[disk.CURRENT].written.files
Synced == disk.manifests[disk.CURRENT].synced.files

(* The fields of the records, and of every manifest.                       *)
Shape ==
    /\ DOMAIN disk = {"tables", "logs", "manifests", "CURRENT"}
    /\ DOMAIN versions = {"current", "file_to_compact", "log_number", "next_file_number",
                          "last_sequence", "manifest_file_number"}
    /\ DOMAIN db = {"mem", "imm", "logfile_number", "bg_error", "scheduled", "pending_outputs"}
    /\ DOMAIN bg = {"pc", "c", "todo", "outputs", "edit"}
    /\ \A n \in DOMAIN disk.manifests : DOMAIN disk.manifests[n] = {"written", "synced"}

(* What a restart would read is there.                                     *)
ManifestComplete ==
    /\ disk.CURRENT \in DOMAIN disk.manifests
    /\ Files(Written) \subseteq Tables
    /\ Files(Synced) \subseteq Tables

(* What the running database reads is there, and what the background       *)
(* thread has written and will install.                                    *)
VersionsComplete ==
    /\ Files(versions.current) \subseteq Tables
    /\ Files(iter) \subseteq Tables
    /\ \A c \in bg.c : Files(c.input_version) \subseteq Tables
    /\ bg.outputs \subseteq Tables
    /\ bg.outputs \subseteq db.pending_outputs
    /\ bg.pc \in {"edit", "logged"} => Added(bg.edit) \subseteq Tables

(* A file a read has charged is a file of the current version.             *)
Charged(v, starts) == \A s \in starts : s[1] \in Levels /\ s[2] \in v[s[1]]

ChargedIsCurrent == Charged(versions.current, versions.file_to_compact)

(* While the database is being opened nothing runs in it, and the new      *)
(* manifest, once written, lists the recovered version.                    *)
OpeningQuiet ==
    /\ mode \in {"down", "recovered", "manifest", "up"}
    /\ mode # "up" => bg = Idle /\ iter = NoFiles
    /\ mode = "manifest" =>
        /\ versions.manifest_file_number \in DOMAIN disk.manifests
        /\ disk.manifests[versions.manifest_file_number].written.files = versions.current
        /\ disk.manifests[versions.manifest_file_number].synced.files = versions.current

(* The manifest in use is the one CURRENT names, and until a write to it   *)
(* fails it lists the current version, or that with the edit just logged.  *)
ManifestCurrent ==
    mode = "up" =>
        /\ disk.CURRENT = versions.manifest_file_number
        /\ ~db.bg_error => Written = IF bg.pc = "logged" THEN Apply(versions.current, bg.edit)
                                     ELSE versions.current

IInv ==
    /\ Shape /\ ManifestComplete /\ VersionsComplete
    /\ ChargedIsCurrent /\ OpeningQuiet /\ ManifestCurrent

-----------------------------------------------------------------------------
(* Lemmas about the operators.                                             *)

(* MaybeScheduleCompaction decides about the background thread only.       *)
LEMMA ScheduleFields ==
    ASSUME NEW d, NEW v, NEW w, "scheduled" \in DOMAIN d
    PROVE  /\ DOMAIN MaybeScheduleCompaction(d, v, w) = DOMAIN d
           /\ MaybeScheduleCompaction(d, v, w).pending_outputs = d.pending_outputs
           /\ MaybeScheduleCompaction(d, v, w).bg_error = d.bg_error
  BY SMT DEF MaybeScheduleCompaction

(* A version after an edit has only files it had and files that were added. *)
LEMMA ApplyFiles ==
    ASSUME NEW v, NEW edit
    PROVE  Files(Apply(v, edit)) \subseteq Files(v) \cup Added(edit)
  BY SMT DEF Files, Apply, Added

(* The files an edit adds, when all go to one level.                       *)
LEMMA AddedFiles ==
    ASSUME NEW edit, NEW level, NEW files, \A a \in edit.added : \E f \in files : a = <<level, f>>
    PROVE  Added(edit) \subseteq files
  <1>1. SUFFICES ASSUME NEW x \in Added(edit) PROVE x \in files
    BY Zenon
  <1>2. PICK a \in edit.added : x = a[2]
    BY Zenon DEF Added
  <1>3. PICK f \in files : a = <<level, f>>
    BY Zenon, <1>2
  <1>4. x = f
    BY SMT, <1>2, <1>3
  <1>5. QED
    BY Zenon, <1>3, <1>4

(* The fields of the background thread's state.                            *)
LEMMA IdleShape ==
    DOMAIN Idle = {"pc", "c", "todo", "outputs", "edit"} /\ Idle.c = {} /\ Idle.outputs = {}
                  /\ Idle.pc = "idle"
  BY SMT DEF Idle

(* Writing files makes no file disappear.                                  *)
LEMMA WithFilesDomain ==
    ASSUME NEW files, NEW new
    PROVE  DOMAIN WithFiles(files, new) = DOMAIN files \cup DOMAIN new
  BY Zenon DEF WithFiles

LEMMA WithFileDomain ==
    ASSUME NEW files, NEW n, NEW contents
    PROVE  DOMAIN WithFile(files, n, contents) = DOMAIN files \cup {n}
  BY Zenon DEF WithFile, WithFiles

(* Open iterators and running compactions refer to their versions' files.  *)
LEMMA ReferencedFiles ==
    ASSUME NEW c
    PROVE  /\ Files(iter) \subseteq Referenced(c)
           /\ \A x \in c : Files(x.input_version) \subseteq Referenced(c)
  BY Zenon DEF Referenced

(* DeleteObsoleteFiles keeps the tables that are pending, live or current, *)
(* and the manifest in use.                                                *)
LEMMA DeleteKeeps ==
    ASSUME NEW d, NEW v, NEW w, NEW live,
           DOMAIN w = {"tables", "logs", "manifests", "CURRENT"}
    PROVE  LET left == DeleteObsoleteFiles(d, v, w, live)
           IN  /\ DOMAIN left = DOMAIN w /\ left.CURRENT = w.CURRENT
               /\ DOMAIN w.tables \cap (d.pending_outputs \cup live \cup Files(v.current))
                    \subseteq DOMAIN left.tables
               /\ DOMAIN left.manifests \subseteq DOMAIN w.manifests
               /\ v.manifest_file_number \in DOMAIN w.manifests =>
                    v.manifest_file_number \in DOMAIN left.manifests
               /\ \A n \in DOMAIN left.manifests : left.manifests[n] = w.manifests[n]
  <1>1. CASE d.bg_error
    BY Zenon, <1>1 DEF DeleteObsoleteFiles
  <1>2. CASE ~d.bg_error
    BY SMT, <1>2 DEF DeleteObsoleteFiles, DeleteObsoleteFilesAlways
  <1>3. QED
    BY Zenon, <1>1, <1>2

(* After a background error nothing is deleted.                            *)
LEMMA DeleteNothing ==
    ASSUME NEW d, NEW v, NEW w, NEW live, d.bg_error
    PROVE  DeleteObsoleteFiles(d, v, w, live) = w
  BY Zenon DEF DeleteObsoleteFiles

(* The files a compaction takes in are files of its version.               *)
LEMMA OverlappingInputs ==
    ASSUME NEW T, NEW v, NEW level, NEW low, NEW high
    PROVE  GetOverlappingInputs(T, v, level, low, high) \subseteq v[level]
  BY Zenon DEF GetOverlappingInputs

LEMMA OtherInputs ==
    ASSUME NEW T, NEW v, NEW level \in Levels, NEW files, files \subseteq v[level]
    PROVE  /\ SetupOtherInputs(T, v, level, files).in0 \subseteq Files(v)
           /\ SetupOtherInputs(T, v, level, files).input_version = v
  <1>1. v[level] \subseteq Files(v)
    BY Zenon DEF Files
  <1> DEFINE overlapping(l, range) == GetOverlappingInputs(T, v, l, range[1], range[2])
             inputs1 == overlapping(level + 1, GetRange(T, files))
             expanded0 == overlapping(level, GetRange(T, files \cup inputs1))
             expanded1 == overlapping(level + 1, GetRange(T, expanded0))
             expand == /\ inputs1 # {}
                       /\ Cardinality(expanded0) > Cardinality(files)
                       /\ TotalFileSize(T, inputs1) + TotalFileSize(T, expanded0)
                             < kExpandedCompactionByteSizeLimit
                       /\ Cardinality(expanded1) = Cardinality(inputs1)
             in0 == IF expand THEN expanded0 ELSE files
             in1 == IF expand THEN expanded1 ELSE inputs1
             grandparents == IF level + 2 \in Levels
                               THEN overlapping(level + 2, GetRange(T, in0 \cup in1)) ELSE {}
  <1>a. SetupOtherInputs(T, v, level, files)
            = [level |-> level, in0 |-> in0, in1 |-> in1, input_version |-> v,
               grandparents |-> grandparents]
    BY Zenon DEF SetupOtherInputs
  <1>b. expanded0 \subseteq v[level]
    BY Zenon, OverlappingInputs
  <1> HIDE DEF overlapping, inputs1, expanded0, expanded1, expand, in1, grandparents
  <1>c. in0 \subseteq v[level]
    BY Zenon, <1>b
  <1> HIDE DEF in0
  <1>2. SetupOtherInputs(T, v, level, files).in0 \subseteq v[level]
    BY SMTT(30), <1>a, <1>c
  <1>3. SetupOtherInputs(T, v, level, files).input_version = v
    BY SMTT(30), <1>a
  <1>4. QED
    BY Zenon, <1>1, <1>2, <1>3

LEMMA CompactionInputs ==
    ASSUME NEW T, NEW v, NEW charged,
           Charged(v, charged),
           NEW c \in PickCompaction(T, v, charged)
    PROVE  c.in0 \subseteq Files(v) /\ c.input_version = v
  <1> DEFINE full == SizeCompaction(T, v)
             starts == IF full # {} THEN UNION {{level} \X v[level] : level \in full} ELSE charged
             inputs(s) == IF s[1] = 0
                            THEN GetOverlappingInputs(T, v, 0, Smallest(T, s[2]), Largest(T, s[2]))
                            ELSE {s[2]}
  <1>1. full \subseteq Levels
    <2>1. full \subseteq Finalize(T, v)
      BY Zenon DEF SizeCompaction
    <2>2. Finalize(T, v) \subseteq 0 .. kNumLevels - 2
      BY Zenon DEF Finalize
    <2>3. 0 .. kNumLevels - 2 \subseteq Levels
      BY SMT, LevelsAssumption DEF Levels
    <2>4. QED
      BY Zenon, <2>1, <2>2, <2>3
  <1>2. \A s \in starts : s[1] \in Levels /\ s[2] \in v[s[1]]
    <2>1. CASE full # {}
      BY SMT, <1>1, <2>1
    <2>2. CASE full = {}
      BY Zenon, <2>2 DEF Charged
    <2>3. QED
      BY Zenon, <2>1, <2>2
  <1>3. PICK s \in starts : c = SetupOtherInputs(T, v, s[1], inputs(s))
    BY Zenon DEF PickCompaction
  <1>4. inputs(s) \subseteq v[s[1]]
    BY Zenon, <1>2, <1>3, OverlappingInputs
  <1> HIDE DEF full, starts, inputs
  <1>5. s[1] \in Levels
    BY Zenon, <1>2, <1>3
  <1>6. QED
    BY Zenon, <1>3, <1>4, <1>5, OtherInputs

-----------------------------------------------------------------------------
(* Steps that do not touch what the invariant speaks of.                   *)

Quiet ==
    /\ Tables' = Tables
    /\ disk'.manifests = disk.manifests /\ disk'.CURRENT = disk.CURRENT
    /\ versions'.current = versions.current
    /\ versions'.file_to_compact = versions.file_to_compact
    /\ versions'.manifest_file_number = versions.manifest_file_number
    /\ db'.pending_outputs = db.pending_outputs
    /\ db.bg_error => db'.bg_error
    /\ bg' = bg /\ iter' = iter /\ mode' = mode

LEMMA QuietStep ==
    ASSUME IInv, Shape', Quiet
    PROVE  IInv'
  <1>1. ManifestComplete'
    BY Zenon DEF IInv, Quiet, ManifestComplete, Written, Synced
  <1>2. VersionsComplete'
    BY Zenon DEF IInv, Quiet, VersionsComplete
  <1>3. ChargedIsCurrent'
    BY Zenon DEF IInv, Quiet, ChargedIsCurrent
  <1>4. OpeningQuiet'
    BY Zenon DEF IInv, Quiet, OpeningQuiet
  <1>5. ManifestCurrent'
    BY Zenon DEF IInv, Quiet, ManifestCurrent, Written
  <1>6. QED
    BY Zenon, <1>1, <1>2, <1>3, <1>4, <1>5 DEF IInv

(* The threads that write: nothing but logs, memtables and the queue.      *)
LEMMA WriteStep ==
    ASSUME IInv, NEW t \in Threads, Write(t)
    PROVE  IInv'
  <1>1. Shape' /\ Quiet
    BY Zenon DEF IInv, Shape, Quiet, Write, Tables
  <1>2. QED
    BY Zenon, <1>1, QuietStep

LEMMA SwitchMemTableStep ==
    ASSUME IInv, SwitchMemTable
    PROVE  IInv'
  <1> DEFINE n == versions.next_file_number
             d == [db EXCEPT !.logfile_number = n, !.imm = db.mem, !.mem = {}]
  <1>1. /\ DOMAIN d = DOMAIN db /\ d.pending_outputs = db.pending_outputs
        /\ d.bg_error = db.bg_error
    BY SMT DEF IInv, Shape
  <1>2. /\ DOMAIN db' = DOMAIN db /\ db'.pending_outputs = db.pending_outputs
        /\ db'.bg_error = db.bg_error
    <2>1. "scheduled" \in DOMAIN d
      BY Zenon, <1>1 DEF IInv, Shape
    <2>2. db' = MaybeScheduleCompaction(d, versions, disk.tables)
      BY Zenon DEF SwitchMemTable
    <2> HIDE DEF d
    <2>3. QED
      BY SMTT(30), <1>1, <2>1, <2>2, ScheduleFields
  <1>3. /\ DOMAIN disk' = DOMAIN disk /\ disk'.tables = disk.tables
        /\ disk'.manifests = disk.manifests /\ disk'.CURRENT = disk.CURRENT
    BY SMT DEF SwitchMemTable, IInv, Shape
  <1>4. /\ DOMAIN versions' = DOMAIN versions /\ versions'.current = versions.current
        /\ versions'.file_to_compact = versions.file_to_compact
        /\ versions'.manifest_file_number = versions.manifest_file_number
    BY SMT DEF SwitchMemTable, IInv, Shape
  <1>5. Shape' /\ Quiet
    BY Zenon, <1>2, <1>3, <1>4 DEF IInv, Shape, Quiet, SwitchMemTable, Tables
  <1>6. QED
    BY Zenon, <1>5, QuietStep

LEMMA LeaderStep ==
    ASSUME IInv, YieldError \/ AddRecord \/ SyncLog \/ FinishWrite
    PROVE  IInv'
  <1>1. /\ DOMAIN disk' = DOMAIN disk /\ disk'.tables = disk.tables
        /\ disk'.manifests = disk.manifests /\ disk'.CURRENT = disk.CURRENT
    BY SMT DEF YieldError, AddRecord, SyncLog, FinishWrite, IInv, Shape
  <1>2. /\ DOMAIN versions' = DOMAIN versions /\ versions'.current = versions.current
        /\ versions'.file_to_compact = versions.file_to_compact
        /\ versions'.manifest_file_number = versions.manifest_file_number
    BY SMT DEF YieldError, AddRecord, SyncLog, FinishWrite, IInv, Shape
  <1>3. /\ DOMAIN db' = DOMAIN db /\ db'.pending_outputs = db.pending_outputs
        /\ db'.bg_error = db.bg_error
    BY SMT DEF YieldError, AddRecord, SyncLog, FinishWrite, IInv, Shape
  <1>4. UNCHANGED <<bg, iter, mode>>
    BY Zenon DEF YieldError, AddRecord, SyncLog, FinishWrite
  <1>5. Shape' /\ Quiet
    BY Zenon, <1>1, <1>2, <1>3, <1>4 DEF IInv, Shape, Quiet, Tables
  <1>6. QED
    BY Zenon, <1>5, QuietStep

LEMMA WriteFailsStep ==
    ASSUME IInv, AddRecordFails \/ SyncLogFails
    PROVE  IInv'
  <1>1. /\ DOMAIN versions' = DOMAIN versions /\ versions'.current = versions.current
        /\ versions'.file_to_compact = versions.file_to_compact
        /\ versions'.manifest_file_number = versions.manifest_file_number
    BY SMT DEF AddRecordFails, SyncLogFails, IInv, Shape
  <1>2. /\ DOMAIN db' = DOMAIN db /\ db'.pending_outputs = db.pending_outputs
        /\ db.bg_error => db'.bg_error
    BY SMT DEF AddRecordFails, SyncLogFails, IInv, Shape
  <1>3. UNCHANGED <<disk, bg, iter, mode>>
    BY Zenon DEF AddRecordFails, SyncLogFails
  <1>4. Shape' /\ Quiet
    BY Zenon, <1>1, <1>2, <1>3 DEF IInv, Shape, Quiet, Tables
  <1>5. QED
    BY Zenon, <1>4, QuietStep

LEMMA NothingToDoStep ==
    ASSUME IInv, NothingToDo
    PROVE  IInv'
  <1> DEFINE d == [db EXCEPT !.scheduled = FALSE]
  <1>1. /\ DOMAIN d = DOMAIN db /\ d.pending_outputs = db.pending_outputs
        /\ d.bg_error = db.bg_error
    BY SMT DEF IInv, Shape
  <1>2. /\ DOMAIN db' = DOMAIN db /\ db'.pending_outputs = db.pending_outputs
        /\ db'.bg_error = db.bg_error
    <2>1. "scheduled" \in DOMAIN d
      BY Zenon, <1>1 DEF IInv, Shape
    <2>2. db' = MaybeScheduleCompaction(d, versions, disk.tables)
      BY Zenon DEF NothingToDo
    <2> HIDE DEF d
    <2>3. QED
      BY SMTT(30), <1>1, <2>1, <2>2, ScheduleFields
  <1>3. Shape' /\ Quiet
    BY Zenon, <1>2 DEF IInv, Shape, Quiet, NothingToDo, Tables
  <1>4. QED
    BY Zenon, <1>3, QuietStep

-----------------------------------------------------------------------------
(* Iterators, and reads that charge a file.                                *)

LEMMA ChargeSeekStep ==
    ASSUME IInv, ChargeSeek
    PROVE  IInv'
  <1>1. PICK s \in UpdateStats(disk.tables, versions.current) :
            /\ versions' = [versions EXCEPT !.file_to_compact = {s}]
            /\ db' = MaybeScheduleCompaction(db, versions', disk.tables)
    BY Zenon DEF ChargeSeek
  <1>2. /\ DOMAIN db' = DOMAIN db /\ db'.pending_outputs = db.pending_outputs
        /\ db'.bg_error = db.bg_error
    <2>1. "scheduled" \in DOMAIN db
      BY Zenon DEF IInv, Shape
    <2>2. QED
      BY SMTT(30), <1>1, <2>1, ScheduleFields
  <1>3. /\ DOMAIN versions' = DOMAIN versions /\ versions'.current = versions.current
        /\ versions'.file_to_compact = {s}
        /\ versions'.manifest_file_number = versions.manifest_file_number
    BY SMT, <1>1 DEF IInv, Shape
  <1>4. UNCHANGED <<disk, bg, iter, mode>>
    BY Zenon DEF ChargeSeek
  <1>5. Shape'
    BY Zenon, <1>2, <1>3, <1>4 DEF IInv, Shape
  <1>6. ManifestComplete' /\ VersionsComplete'
    BY Zenon, <1>2, <1>3, <1>4
    DEF IInv, ManifestComplete, VersionsComplete, Tables, Written, Synced
  <1>7. ChargedIsCurrent'
    <2>1. s[1] \in Levels /\ s[2] \in versions.current[s[1]]
      BY SMT, <1>1 DEF UpdateStats
    <2>2. QED
      BY Zenon, <2>1, <1>3 DEF ChargedIsCurrent, Charged
  <1>8. OpeningQuiet' /\ ManifestCurrent'
    BY Zenon, <1>2, <1>3, <1>4 DEF IInv, OpeningQuiet, ManifestCurrent, Written
  <1>9. QED
    BY Zenon, <1>5, <1>6, <1>7, <1>8 DEF IInv

(* An iterator refers to the version that was current when it was opened,  *)
(* or to none.                                                             *)
LEMMA IteratorStep ==
    ASSUME IInv, NewIterator \/ DeleteIterator
    PROVE  IInv'
  <1>1. UNCHANGED <<disk, versions, db, bg, mode>>
    BY Zenon DEF NewIterator, DeleteIterator
  <1>2. Files(NoFiles) = {}
    BY Zenon DEF Files, NoFiles
  <1>3. Files(iter)' \subseteq Tables
    BY Zenon, <1>2 DEF NewIterator, DeleteIterator, IInv, VersionsComplete
  <1>4. mode # "up" => iter' = NoFiles
    BY Zenon DEF NewIterator, DeleteIterator
  <1>5. Shape' /\ ManifestComplete' /\ ChargedIsCurrent' /\ ManifestCurrent'
    BY Zenon, <1>1
    DEF IInv, Shape, ManifestComplete, ChargedIsCurrent, ManifestCurrent, Tables, Written, Synced
  <1>6. VersionsComplete'
    BY Zenon, <1>1, <1>3 DEF IInv, VersionsComplete, Tables
  <1>7. OpeningQuiet'
    BY Zenon, <1>1, <1>4 DEF IInv, OpeningQuiet
  <1>8. QED
    BY Zenon, <1>5, <1>6, <1>7 DEF IInv

-----------------------------------------------------------------------------
(* The background thread.                                                  *)

(* It goes on to another step, and perhaps has written a table.            *)
LEMMA BackgroundStep ==
    ASSUME IInv, mode = "up", UNCHANGED <<iter, mode>>,
           DOMAIN disk' = DOMAIN disk, DOMAIN versions' = DOMAIN versions,
           DOMAIN db' = DOMAIN db, DOMAIN bg' = DOMAIN bg,
           disk'.manifests = disk.manifests, disk'.CURRENT = disk.CURRENT,
           Tables \subseteq Tables',
           versions'.current = versions.current,
           versions'.file_to_compact = versions.file_to_compact,
           versions'.manifest_file_number = versions.manifest_file_number,
           db'.bg_error = db.bg_error,
           bg.pc # "logged", bg'.pc # "logged",
           bg'.outputs \subseteq Tables', bg'.outputs \subseteq db'.pending_outputs,
           \A c \in bg'.c : Files(c.input_version) \subseteq Tables',
           bg'.pc = "edit" => Added(bg'.edit) \subseteq Tables'
    PROVE  IInv'
  <1>1. Shape'
    BY Zenon DEF IInv, Shape
  <1>2. ManifestComplete'
    BY Zenon DEF IInv, ManifestComplete, Written, Synced
  <1>3. VersionsComplete'
    BY Zenon DEF IInv, VersionsComplete
  <1>4. ChargedIsCurrent'
    BY Zenon DEF IInv, ChargedIsCurrent
  <1>5. OpeningQuiet'
    BY Zenon DEF IInv, OpeningQuiet
  <1>6. ManifestCurrent'
    BY Zenon DEF IInv, ManifestCurrent, Written
  <1>7. QED
    BY Zenon, <1>1, <1>2, <1>3, <1>4, <1>5, <1>6 DEF IInv

(* A compaction or a move begins, with files of the current version.       *)
LEMMA BeginCompactionStep ==
    ASSUME IInv, BeginCompaction
    PROVE  IInv'
  <1>1. /\ mode = "up" /\ bg.pc = "idle"
        /\ UNCHANGED <<disk, versions, db, iter, mode>>
    BY Zenon DEF BeginCompaction
  <1>2. PICK c \in PickCompaction(disk.tables, versions.current, versions.file_to_compact) :
            IF IsTrivialMove(disk.tables, c)
              THEN bg' = [Idle EXCEPT !.pc = "edit",
                                      !.edit = [deleted |-> {<<c.level, f>> : f \in c.in0},
                                                added |-> {<<c.level + 1, f>> : f \in c.in0},
                                                log_number |-> versions.log_number,
                                                about |-> "move"]]
              ELSE \E todo \in Outputs(Kept(disk.tables, c, versions.last_sequence)) :
                      bg' = [Idle EXCEPT !.pc = "compact", !.c = {c}, !.todo = todo]
    BY Zenon DEF BeginCompaction
  <1>3. c.in0 \subseteq Tables /\ Files(c.input_version) \subseteq Tables
    <2>1. Charged(versions.current, versions.file_to_compact)
      BY Zenon DEF IInv, ChargedIsCurrent
    <2>2. c.in0 \subseteq Files(versions.current) /\ c.input_version = versions.current
      <3>1. c \in PickCompaction(disk.tables, versions.current, versions.file_to_compact)
        BY Zenon, <1>2
      <3>2. QED
        BY SMTT(30), <3>1, <2>1, CompactionInputs
    <2>3. QED
      BY Zenon, <2>2 DEF IInv, VersionsComplete
  <1>4. /\ DOMAIN bg' = DOMAIN bg /\ bg'.pc # "logged" /\ bg'.outputs = {} /\ bg'.c \subseteq {c}
        /\ bg'.pc = "edit" => Added(bg'.edit) \subseteq c.in0
    <2>1. CASE IsTrivialMove(disk.tables, c)
      <3> DEFINE e == [deleted |-> {<<c.level, f>> : f \in c.in0},
                       added |-> {<<c.level + 1, f>> : f \in c.in0},
                       log_number |-> versions.log_number, about |-> "move"]
      <3>1. bg' = [Idle EXCEPT !.pc = "edit", !.edit = e]
        BY Zenon, <1>2, <2>1
      <3>2. \A a \in e.added : \E f \in c.in0 : a = <<c.level + 1, f>>
        BY SMT
      <3> HIDE DEF e
      <3>3. /\ DOMAIN bg' = DOMAIN Idle /\ bg'.pc = "edit" /\ bg'.outputs = {} /\ bg'.c = {}
            /\ bg'.edit = e
        BY SMTT(30), <3>1 DEF Idle
      <3>4. Added(e) \subseteq c.in0
        BY Zenon, <3>2, AddedFiles
      <3>5. QED
        BY Zenon, <3>3, <3>4, IdleShape DEF IInv, Shape
    <2>2. CASE ~IsTrivialMove(disk.tables, c)
      <3>1. PICK todo : bg' = [Idle EXCEPT !.pc = "compact", !.c = {c}, !.todo = todo]
        BY Zenon, <1>2, <2>2
      <3>2. DOMAIN bg' = DOMAIN Idle /\ bg'.pc = "compact" /\ bg'.outputs = {} /\ bg'.c = {c}
        BY SMTT(30), <3>1 DEF Idle
      <3>3. QED
        BY Zenon, <3>2, IdleShape DEF IInv, Shape
    <2>3. QED
      BY Zenon, <2>1, <2>2
  <1>5. Tables' = Tables
    BY Zenon, <1>1 DEF Tables
  <1>6. \A x \in bg'.c : Files(x.input_version) \subseteq Tables'
    BY Zenon, <1>3, <1>4, <1>5
  <1>7. bg'.pc = "edit" => Added(bg'.edit) \subseteq Tables'
    BY Zenon, <1>3, <1>4, <1>5
  <1>8. bg'.outputs \subseteq Tables' /\ bg'.outputs \subseteq db'.pending_outputs
    BY Zenon, <1>4
  <1>9. QED
    BY Zenon, <1>1, <1>4, <1>5, <1>6, <1>7, <1>8, BackgroundStep

(* DoCompactionWork writes a table, which is pending until it is installed. *)
LEMMA CompactOutputStep ==
    ASSUME IInv, CompactOutput
    PROVE  IInv'
  <1> DEFINE n == versions.next_file_number
             table == Head(bg.todo)
  <1>1. mode = "up" /\ bg.pc = "compact" /\ UNCHANGED <<iter, mode>>
    BY Zenon DEF CompactOutput
  <1>2. /\ DOMAIN disk' = DOMAIN disk /\ disk'.manifests = disk.manifests
        /\ disk'.CURRENT = disk.CURRENT /\ disk'.tables = WithFile(disk.tables, n, table)
    BY SMTT(30) DEF CompactOutput, IInv, Shape
  <1>4. /\ DOMAIN versions' = DOMAIN versions /\ versions'.current = versions.current
        /\ versions'.file_to_compact = versions.file_to_compact
        /\ versions'.manifest_file_number = versions.manifest_file_number
    BY SMTT(30) DEF CompactOutput, IInv, Shape
  <1>5. /\ DOMAIN db' = DOMAIN db /\ db'.pending_outputs = db.pending_outputs \cup {n}
        /\ db'.bg_error = db.bg_error
    BY SMTT(30) DEF CompactOutput, IInv, Shape
  <1>6. /\ DOMAIN bg' = DOMAIN bg /\ bg'.pc = bg.pc /\ bg'.c = bg.c
        /\ bg'.outputs = bg.outputs \cup {n}
    BY SMTT(30) DEF CompactOutput, IInv, Shape
  <1> HIDE DEF n, table
  <1>3. Tables' = Tables \cup {n}
    <2>1. DOMAIN WithFile(disk.tables, n, table) = DOMAIN disk.tables \cup {n}
      BY Zenon, WithFileDomain
    <2>2. disk'.tables = WithFile(disk.tables, n, table)
      BY Zenon, <1>2
    <2>3. QED
      BY Zenon, <2>1, <2>2 DEF Tables
  <1>7. bg'.outputs \subseteq Tables' /\ bg'.outputs \subseteq db'.pending_outputs
    BY Zenon, <1>3, <1>5, <1>6 DEF IInv, VersionsComplete
  <1>8. \A c \in bg'.c : Files(c.input_version) \subseteq Tables'
    BY Zenon, <1>3, <1>6 DEF IInv, VersionsComplete
  <1>9. Tables \subseteq Tables' /\ bg.pc # "logged" /\ bg'.pc # "logged" /\ bg'.pc # "edit"
    BY Zenon, <1>1, <1>3, <1>6
  <1>10. QED
    BY Zenon, <1>1, <1>2, <1>4, <1>5, <1>6, <1>7, <1>8, <1>9, BackgroundStep

(* The edit of a compaction adds the tables it has written.                *)
LEMMA InstallCompactionResultsStep ==
    ASSUME IInv, InstallCompactionResults
    PROVE  IInv'
  <1>1. /\ mode = "up" /\ bg.pc = "compact"
        /\ UNCHANGED <<disk, versions, db, iter, mode>>
    BY Zenon DEF InstallCompactionResults
  <1>2. /\ DOMAIN bg' = DOMAIN bg /\ bg'.pc = "edit" /\ bg'.c = bg.c /\ bg'.outputs = bg.outputs
        /\ Added(bg'.edit) \subseteq bg.outputs
    <2> DEFINE c == CHOOSE c \in bg.c : TRUE
               e == [deleted |-> {<<c.level, f>> : f \in c.in0}
                                    \cup {<<c.level + 1, f>> : f \in c.in1},
                     added |-> {<<c.level + 1, f>> : f \in bg.outputs},
                     log_number |-> versions.log_number, about |-> "compact"]
    <2>1. bg' = [bg EXCEPT !.pc = "edit", !.edit = e]
      BY Zenon DEF InstallCompactionResults
    <2>2. \A a \in e.added : \E f \in bg.outputs : a = <<c.level + 1, f>>
      BY SMT
    <2> HIDE DEF c, e
    <2>3. /\ DOMAIN bg' = DOMAIN bg /\ bg'.pc = "edit" /\ bg'.c = bg.c
          /\ bg'.outputs = bg.outputs /\ bg'.edit = e
      BY SMTT(30), <2>1 DEF IInv, Shape
    <2>4. Added(e) \subseteq bg.outputs
      BY Zenon, <2>2, AddedFiles
    <2>5. QED
      BY Zenon, <2>3, <2>4
  <1>3. Tables' = Tables
    BY Zenon, <1>1 DEF Tables
  <1>4. /\ bg'.outputs \subseteq Tables' /\ bg'.outputs \subseteq db'.pending_outputs
        /\ Added(bg'.edit) \subseteq Tables'
        /\ \A c \in bg'.c : Files(c.input_version) \subseteq Tables'
    BY Zenon, <1>1, <1>2, <1>3 DEF IInv, VersionsComplete
  <1>5. QED
    BY Zenon, <1>1, <1>2, <1>3, <1>4, BackgroundStep

(* The memtable's table is written before the edit that adds it.           *)
LEMMA WriteLevel0TableStep ==
    ASSUME IInv, WriteLevel0Table
    PROVE  IInv'
  <1> DEFINE n == versions.next_file_number
             table == db.imm
  <1>1. mode = "up" /\ bg.pc # "logged" /\ UNCHANGED <<db, iter, mode>>
    BY Zenon DEF WriteLevel0Table
  <1>2. /\ DOMAIN disk' = DOMAIN disk /\ disk'.manifests = disk.manifests
        /\ disk'.CURRENT = disk.CURRENT /\ disk'.tables = WithFile(disk.tables, n, table)
    BY SMTT(30) DEF WriteLevel0Table, IInv, Shape
  <1>4. /\ DOMAIN versions' = DOMAIN versions /\ versions'.current = versions.current
        /\ versions'.file_to_compact = versions.file_to_compact
        /\ versions'.manifest_file_number = versions.manifest_file_number
    BY SMTT(30) DEF WriteLevel0Table, IInv, Shape
  <1>5. /\ DOMAIN bg' = DOMAIN bg /\ bg'.pc = "edit" /\ bg'.c = bg.c
        /\ bg'.outputs = bg.outputs /\ Added(bg'.edit) = {n}
    <2> DEFINE keys == {x.key : x \in db.imm}
               level == PickLevelForMemTableOutput(disk.tables, versions.current,
                                                   Min(keys), Max(keys))
               e == [deleted |-> {}, added |-> {<<level, n>>},
                     log_number |-> db.logfile_number, about |-> "imm"]
    <2>1. bg' = [bg EXCEPT !.pc = "edit", !.edit = e]
      BY Zenon DEF WriteLevel0Table
    <2> HIDE DEF keys, level, n
    <2>2. Added(e) = {n}
      BY SMT DEF Added
    <2> HIDE DEF e
    <2>3. /\ DOMAIN bg' = DOMAIN bg /\ bg'.pc = "edit" /\ bg'.c = bg.c
          /\ bg'.outputs = bg.outputs /\ bg'.edit = e
      BY SMTT(30), <2>1 DEF IInv, Shape
    <2>4. QED
      BY Zenon, <2>2, <2>3
  <1> HIDE DEF n, table
  <1>3. Tables' = Tables \cup {n}
    <2>1. DOMAIN WithFile(disk.tables, n, table) = DOMAIN disk.tables \cup {n}
      BY Zenon, WithFileDomain
    <2>2. disk'.tables = WithFile(disk.tables, n, table)
      BY Zenon, <1>2
    <2>3. QED
      BY Zenon, <2>1, <2>2 DEF Tables
  <1>6. Tables \subseteq Tables' /\ Added(bg'.edit) \subseteq Tables'
    BY Zenon, <1>3, <1>5
  <1>7. /\ bg'.outputs \subseteq Tables' /\ bg'.outputs \subseteq db'.pending_outputs
        /\ \A c \in bg'.c : Files(c.input_version) \subseteq Tables'
    BY Zenon, <1>1, <1>5, <1>6 DEF IInv, VersionsComplete
  <1>8. QED
    BY Zenon, <1>1, <1>2, <1>4, <1>5, <1>6, <1>7, BackgroundStep

(* The edit is written to the manifest in use: its files are all there, as *)
(* are those the manifest lists without it.                                *)
LEMMA LogEditStep ==
    ASSUME IInv, LogEdit
    PROVE  IInv'
  <1> DEFINE m == versions.manifest_file_number
             written == Edited(disk.manifests[m].written, bg.edit, versions)
  <1>1. /\ mode = "up" /\ bg.pc = "edit" /\ UNCHANGED <<versions, db, iter, mode>>
        /\ disk' = [disk EXCEPT !.manifests[m].written = written]
        /\ bg' = [bg EXCEPT !.pc = "logged"]
    BY Zenon DEF LogEdit
  <1>2. disk.CURRENT = m /\ m \in DOMAIN disk.manifests
    BY Zenon, <1>1 DEF IInv, ManifestCurrent, ManifestComplete
  <1>3. /\ DOMAIN bg' = DOMAIN bg /\ bg'.pc = "logged" /\ bg'.c = bg.c
        /\ bg'.outputs = bg.outputs /\ bg'.edit = bg.edit
    BY SMTT(30), <1>1 DEF IInv, Shape
  <1>4. written.files = Apply(Written, bg.edit)
    BY SMTT(30), <1>2 DEF Edited, Written
  <1> HIDE DEF written, m
  <1>5. /\ DOMAIN disk' = DOMAIN disk /\ disk'.tables = disk.tables /\ disk'.CURRENT = disk.CURRENT
        /\ disk'.manifests = [disk.manifests EXCEPT ![m].written = written]
    BY SMTT(30), <1>1 DEF IInv, Shape
  <1>6. /\ DOMAIN disk'.manifests = DOMAIN disk.manifests
        /\ \A n \in DOMAIN disk'.manifests : DOMAIN disk'.manifests[n] = {"written", "synced"}
        /\ disk'.manifests[m].written = written
        /\ disk'.manifests[m].synced = disk.manifests[m].synced
    BY SMTT(30), <1>2, <1>5 DEF IInv, Shape
  <1>7. Tables' = Tables
    BY Zenon, <1>5 DEF Tables
  <1>8. Written' = Apply(Written, bg.edit) /\ Synced' = Synced
    BY Zenon, <1>2, <1>4, <1>5, <1>6 DEF Written, Synced
  <1>9. Files(Written') \subseteq Tables
    BY Zenon, <1>1, <1>8, ApplyFiles DEF IInv, ManifestComplete, VersionsComplete
  <1>10. Shape'
    BY Zenon, <1>1, <1>3, <1>5, <1>6 DEF IInv, Shape
  <1>11. ManifestComplete'
    BY Zenon, <1>5, <1>6, <1>7, <1>8, <1>9 DEF IInv, ManifestComplete
  <1>12. VersionsComplete'
    BY Zenon, <1>1, <1>3, <1>7 DEF IInv, VersionsComplete
  <1>13. ChargedIsCurrent' /\ OpeningQuiet'
    BY Zenon, <1>1 DEF IInv, ChargedIsCurrent, OpeningQuiet
  <1>14. ManifestCurrent'
    BY Zenon, <1>1, <1>3, <1>5, <1>8 DEF IInv, ManifestCurrent
  <1>15. QED
    BY Zenon, <1>10, <1>11, <1>12, <1>13, <1>14 DEF IInv

(* Where the background thread goes on after an edit is done or has failed. *)
LEMMA ResumedFields ==
    ASSUME IInv
    PROVE  /\ DOMAIN Resumed = DOMAIN bg
           /\ Resumed.pc \in {"idle", "compact"}
           /\ Resumed.c # {} => bg.edit.about = "imm" /\ Resumed.c = bg.c
           /\ Resumed.outputs # {} => bg.edit.about = "imm" /\ Resumed.outputs = bg.outputs
  <1>1. CASE bg.edit.about = "imm" /\ bg.c # {}
    <2>1. Resumed = [bg EXCEPT !.pc = "compact", !.edit = Nil]
      BY Zenon, <1>1 DEF Resumed
    <2>2. QED
      BY SMTT(30), <1>1, <2>1 DEF IInv, Shape
  <1>2. CASE ~(bg.edit.about = "imm" /\ bg.c # {})
    <2>1. Resumed = Idle
      BY Zenon, <1>2 DEF Resumed
    <2>2. QED
      BY Zenon, <2>1, IdleShape DEF IInv, Shape
  <1>3. QED
    BY Zenon, <1>1, <1>2

(* The new version becomes current and files nobody needs are deleted: the *)
(* ones kept are those of the new version, which the manifest now lists,   *)
(* of open iterators, of the compaction that goes on, and its outputs.     *)
LEMMA InstallVersionStep ==
    ASSUME IInv, InstallVersion
    PROVE  IInv'
  <1> DEFINE m == versions.manifest_file_number
             synced == [disk EXCEPT !.manifests[m].synced = disk.manifests[m].written]
             v == [versions EXCEPT !.current = Apply(versions.current, bg.edit),
                                   !.file_to_compact = {}, !.log_number = bg.edit.log_number]
             d == [db EXCEPT !.imm = IF bg.edit.about = "imm" THEN Nil ELSE db.imm,
                             !.pending_outputs = IF bg.edit.about = "compact"
                                                   THEN db.pending_outputs \ bg.outputs
                                                   ELSE db.pending_outputs,
                             !.scheduled = Resumed # Idle]
             live == Referenced(IF bg.edit.about = "imm" THEN bg.c ELSE {})
  <1>1. /\ mode = "up" /\ bg.pc = "logged" /\ UNCHANGED <<iter, mode>>
        /\ versions' = v /\ bg' = Resumed
        /\ disk' = IF bg.edit.about = "move" THEN synced
                   ELSE DeleteObsoleteFiles(d, v, synced, live)
        /\ db' = IF Resumed # Idle THEN d ELSE MaybeScheduleCompaction(d, v, disk.tables)
    BY Zenon DEF InstallVersion
  <1>2. disk.CURRENT = m /\ m \in DOMAIN disk.manifests
    BY Zenon, <1>1 DEF IInv, ManifestCurrent, ManifestComplete
  <1>3. /\ DOMAIN v = DOMAIN versions /\ v.current = Apply(versions.current, bg.edit)
        /\ v.file_to_compact = {} /\ v.manifest_file_number = m
    BY SMTT(30) DEF IInv, Shape
  <1>4. /\ DOMAIN d = DOMAIN db /\ d.bg_error = db.bg_error /\ "scheduled" \in DOMAIN d
        /\ d.pending_outputs = IF bg.edit.about = "compact" THEN db.pending_outputs \ bg.outputs
                               ELSE db.pending_outputs
    BY SMTT(30) DEF IInv, Shape
  <1> HIDE DEF d, v
  <1>5. DOMAIN db' = DOMAIN db /\ db'.bg_error = db.bg_error /\ db'.pending_outputs = d.pending_outputs
    <2>1. /\ DOMAIN MaybeScheduleCompaction(d, v, disk.tables) = DOMAIN d
          /\ MaybeScheduleCompaction(d, v, disk.tables).pending_outputs = d.pending_outputs
          /\ MaybeScheduleCompaction(d, v, disk.tables).bg_error = d.bg_error
      BY SMTT(30), <1>4, ScheduleFields
    <2>2. QED
      BY Zenon, <1>1, <1>4, <2>1
  <1>6. /\ DOMAIN synced = DOMAIN disk /\ synced.tables = disk.tables
        /\ synced.CURRENT = disk.CURRENT
        /\ synced.manifests = [disk.manifests EXCEPT ![m].synced = disk.manifests[m].written]
    BY SMTT(30) DEF IInv, Shape
  <1> HIDE DEF synced, m
  <1>7. /\ DOMAIN synced.manifests = DOMAIN disk.manifests
        /\ \A n \in DOMAIN synced.manifests : DOMAIN synced.manifests[n] = {"written", "synced"}
        /\ synced.manifests[m].written = disk.manifests[m].written
        /\ synced.manifests[m].synced = disk.manifests[m].written
    BY SMTT(30), <1>2, <1>6 DEF IInv, Shape
  <1> DEFINE kept == d.pending_outputs \cup live \cup Files(v.current)
  <1>8. /\ DOMAIN disk' = DOMAIN disk /\ disk'.CURRENT = disk.CURRENT
        /\ Tables \cap kept \subseteq Tables'
        /\ m \in DOMAIN disk'.manifests
        /\ \A n \in DOMAIN disk'.manifests :
              n \in DOMAIN synced.manifests /\ disk'.manifests[n] = synced.manifests[n]
    <2> HIDE DEF live
    <2>1. CASE bg.edit.about = "move"
      BY Zenon, <1>1, <1>2, <1>6, <1>7, <2>1 DEF Tables
    <2>2. CASE bg.edit.about # "move"
      <3> DEFINE left == DeleteObsoleteFiles(d, v, synced, live)
      <3>1. DOMAIN synced = {"tables", "logs", "manifests", "CURRENT"}
        BY Zenon, <1>6 DEF IInv, Shape
      <3>2. /\ DOMAIN left = DOMAIN synced /\ left.CURRENT = synced.CURRENT
            /\ DOMAIN synced.tables \cap kept \subseteq DOMAIN left.tables
            /\ DOMAIN left.manifests \subseteq DOMAIN synced.manifests
            /\ v.manifest_file_number \in DOMAIN synced.manifests =>
                 v.manifest_file_number \in DOMAIN left.manifests
            /\ \A n \in DOMAIN left.manifests : left.manifests[n] = synced.manifests[n]
        BY SMTT(30), <3>1, DeleteKeeps
      <3>3. disk' = left
        BY Zenon, <1>1, <2>2
      <3> HIDE DEF left, kept
      <3>4. QED
        BY Zenon, <1>2, <1>3, <1>6, <1>7, <3>2, <3>3 DEF Tables
    <2>3. QED
      BY Zenon, <2>1, <2>2
  <1>9. db.bg_error => Tables' = Tables
    <2>1. CASE bg.edit.about = "move"
      BY Zenon, <1>1, <1>6, <2>1 DEF Tables
    <2>2. CASE bg.edit.about # "move"
      <3> HIDE DEF live
      <3>1. db.bg_error => DeleteObsoleteFiles(d, v, synced, live) = synced
        BY Zenon, <1>4, DeleteNothing
      <3>2. QED
        BY Zenon, <1>1, <1>6, <2>2, <3>1 DEF Tables
    <2>3. QED
      BY Zenon, <2>1, <2>2
  <1>10. Shape'
    <2>1. \A n \in DOMAIN disk'.manifests : DOMAIN disk'.manifests[n] = {"written", "synced"}
      BY Zenon, <1>7, <1>8
    <2>2. QED
      BY Zenon, <2>1, <1>1, <1>3, <1>5, <1>8, ResumedFields DEF IInv, Shape
  <1>11. Written' = Written /\ Synced' = Written
    BY Zenon, <1>2, <1>7, <1>8 DEF Written, Synced
  <1>12. Files(v.current) \subseteq Tables'
    <2>1. Files(v.current) \subseteq Tables
      BY Zenon, <1>1, <1>3, ApplyFiles DEF IInv, VersionsComplete
    <2>2. Files(v.current) \subseteq kept
      BY Zenon
    <2> HIDE DEF kept
    <2>3. QED
      BY Zenon, <1>8, <2>1, <2>2
  <1>13. ManifestComplete'
    <2>1. Files(Written) \subseteq Tables'
      <3>1. CASE db.bg_error
        BY Zenon, <1>9, <3>1 DEF IInv, ManifestComplete
      <3>2. CASE ~db.bg_error
        BY Zenon, <1>1, <1>3, <1>12, <3>2 DEF IInv, ManifestCurrent
      <3>3. QED
        BY Zenon, <3>1, <3>2
    <2>2. QED
      BY Zenon, <1>2, <1>8, <1>11, <2>1 DEF ManifestComplete
  <1>14. Files(iter) \subseteq Tables'
    <2>1. Files(iter) \subseteq live
      BY Zenon, ReferencedFiles
    <2>2. Files(iter) \subseteq Tables
      BY Zenon DEF IInv, VersionsComplete
    <2> HIDE DEF live
    <2>3. QED
      BY Zenon, <1>8, <2>1, <2>2
  <1>15. \A c \in bg'.c : Files(c.input_version) \subseteq Tables'
    <2>1. SUFFICES ASSUME NEW c \in bg'.c PROVE Files(c.input_version) \subseteq Tables'
      BY Zenon
    <2>2. bg.edit.about = "imm" /\ c \in bg.c
      BY Zenon, <1>1, <2>1, ResumedFields
    <2>3. Files(c.input_version) \subseteq live
      <3>1. live = Referenced(bg.c)
        BY Zenon, <2>2
      <3> HIDE DEF live
      <3>2. Files(c.input_version) \subseteq Referenced(bg.c)
        BY Zenon, <2>2, ReferencedFiles
      <3>3. QED
        BY Zenon, <3>1, <3>2
    <2>4. Files(c.input_version) \subseteq Tables
      BY Zenon, <2>2 DEF IInv, VersionsComplete
    <2> HIDE DEF live
    <2>5. QED
      BY Zenon, <1>8, <2>3, <2>4
  <1>16. bg'.outputs \subseteq Tables' /\ bg'.outputs \subseteq db'.pending_outputs
    <2>1. CASE bg'.outputs = {}
      BY Zenon, <2>1
    <2>2. CASE bg'.outputs # {}
      <3>1. bg.edit.about = "imm" /\ bg'.outputs = bg.outputs
        BY Zenon, <1>1, <2>2, ResumedFields
      <3>2. bg.outputs \subseteq d.pending_outputs /\ bg.outputs \subseteq Tables
        BY Zenon, <1>4, <3>1 DEF IInv, VersionsComplete
      <3> HIDE DEF live
      <3>3. QED
        BY Zenon, <1>5, <1>8, <3>1, <3>2
    <2>3. QED
      BY Zenon, <2>1, <2>2
  <1> HIDE DEF live, kept
  <1>17. VersionsComplete'
    BY Zenon, <1>1, <1>12, <1>14, <1>15, <1>16, ResumedFields DEF VersionsComplete
  <1>18. ChargedIsCurrent'
    BY Zenon, <1>1, <1>3 DEF ChargedIsCurrent, Charged
  <1>19. OpeningQuiet'
    BY Zenon, <1>1 DEF IInv, OpeningQuiet
  <1>20. ManifestCurrent'
    BY Zenon, <1>1, <1>2, <1>3, <1>5, <1>8, <1>11, ResumedFields DEF IInv, ManifestCurrent
  <1>21. QED
    BY Zenon, <1>10, <1>13, <1>17, <1>18, <1>19, <1>20 DEF IInv

(* A write of the background thread fails: nothing is deleted.             *)
LEMMA BackgroundFailsStep ==
    ASSUME IInv, BackgroundFails
    PROVE  IInv'
  <1> DEFINE back == IF bg.pc = "compact" THEN Idle ELSE Resumed
             d == [db EXCEPT !.bg_error = TRUE, !.scheduled = back # Idle,
                             !.pending_outputs = IF back = Idle THEN {} ELSE db.pending_outputs]
  <1>1. /\ mode = "up" /\ UNCHANGED <<versions, iter, mode>> /\ bg' = back /\ db' = d
        /\ disk' = IF back = Idle /\ bg.c # {}
                     THEN DeleteObsoleteFiles(d, versions, disk, Referenced({})) ELSE disk
    BY Zenon DEF BackgroundFails
  <1>2. /\ DOMAIN d = DOMAIN db /\ d.bg_error
        /\ d.pending_outputs = IF back = Idle THEN {} ELSE db.pending_outputs
    BY SMTT(30) DEF IInv, Shape
  <1> HIDE DEF d
  <1>3. disk' = disk
    BY Zenon, <1>1, <1>2, DeleteNothing
  <1>4. /\ DOMAIN back = DOMAIN bg /\ back.pc \in {"idle", "compact"}
        /\ back.c \subseteq bg.c /\ back.outputs \subseteq bg.outputs
        /\ back = Idle => back.outputs = {}
    BY Zenon, ResumedFields, IdleShape DEF IInv, Shape
  <1> HIDE DEF back
  <1>5. Shape'
    BY Zenon, <1>1, <1>2, <1>3, <1>4 DEF IInv, Shape
  <1>6. ManifestComplete' /\ ChargedIsCurrent' /\ OpeningQuiet'
    BY Zenon, <1>1, <1>3 DEF IInv, ManifestComplete, ChargedIsCurrent, OpeningQuiet, Written,
       Synced, Tables
  <1>7. VersionsComplete'
    <2>1. \A c \in bg'.c : Files(c.input_version) \subseteq Tables'
      BY Zenon, <1>1, <1>3, <1>4 DEF IInv, VersionsComplete, Tables
    <2>2. bg'.outputs \subseteq Tables' /\ bg'.outputs \subseteq db'.pending_outputs
      BY Zenon, <1>1, <1>2, <1>3, <1>4 DEF IInv, VersionsComplete, Tables
    <2>3. QED
      BY Zenon, <1>1, <1>3, <1>4, <2>1, <2>2 DEF IInv, VersionsComplete, Tables
  <1>8. ManifestCurrent'
    BY Zenon, <1>1, <1>2, <1>3 DEF IInv, ManifestCurrent
  <1>9. QED
    BY Zenon, <1>5, <1>6, <1>7, <1>8 DEF IInv

(* What is left of a process that died.                                    *)
LEMMA NothingLeft ==
    /\ DOMAIN NoVersions = {"current", "file_to_compact", "log_number", "next_file_number",
                            "last_sequence", "manifest_file_number"}
    /\ NoVersions.current = NoFiles /\ NoVersions.file_to_compact = {}
    /\ DOMAIN NoDB = {"mem", "imm", "logfile_number", "bg_error", "scheduled", "pending_outputs"}
    /\ NoDB.pending_outputs = {}
    /\ Files(NoFiles) = {}
  <1>1. Files(NoFiles) = {}
    BY Zenon DEF Files, NoFiles
  <1>2. QED
    BY SMTT(30), <1>1 DEF NoVersions, NoDB

(* A disk with the same tables and the same manifests, each of them as     *)
(* written or as synced, has every file a restart needs.                   *)
LEMMA DieStep ==
    ASSUME IInv, NEW kind, NEW d, Die(kind, d),
           DOMAIN d = DOMAIN disk, d.CURRENT = disk.CURRENT, d.tables = disk.tables,
           DOMAIN d.manifests = DOMAIN disk.manifests,
           \A n \in DOMAIN d.manifests :
              /\ DOMAIN d.manifests[n] = {"written", "synced"}
              /\ d.manifests[n].written \in {disk.manifests[n].written, disk.manifests[n].synced}
              /\ d.manifests[n].synced \in {disk.manifests[n].written, disk.manifests[n].synced}
    PROVE  IInv'
  <1>1. /\ disk' = d /\ versions' = NoVersions /\ db' = NoDB /\ bg' = Idle /\ iter' = NoFiles
        /\ mode' = IF NoMissingFiles(d) THEN "down" ELSE "corrupt"
    BY Zenon DEF Die
  <1>2. Shape'
    BY Zenon, <1>1, NothingLeft, IdleShape DEF IInv, Shape
  <1>3. ManifestComplete'
    <2>1. /\ disk.CURRENT \in DOMAIN disk.manifests
          /\ Files(disk.manifests[disk.CURRENT].written.files) \subseteq Tables
          /\ Files(disk.manifests[disk.CURRENT].synced.files) \subseteq Tables
      BY Zenon DEF IInv, ManifestComplete, Written, Synced
    <2>2. /\ d.manifests[d.CURRENT].written \in {disk.manifests[disk.CURRENT].written,
                                                 disk.manifests[disk.CURRENT].synced}
          /\ d.manifests[d.CURRENT].synced \in {disk.manifests[disk.CURRENT].written,
                                                disk.manifests[disk.CURRENT].synced}
      BY Zenon, <2>1
    <2>3. /\ Files(d.manifests[d.CURRENT].written.files) \subseteq Tables
          /\ Files(d.manifests[d.CURRENT].synced.files) \subseteq Tables
      BY Zenon, <2>1, <2>2
    <2>4. QED
      BY Zenon, <1>1, <2>1, <2>3 DEF ManifestComplete, Written, Synced, Tables
  <1>4. mode' = "down"
    <2>1. NoMissingFiles(d)
      BY Zenon, <1>1, <1>3 DEF ManifestComplete, NoMissingFiles, Descriptor, Written, Tables
    <2>2. QED
      BY Zenon, <1>1, <2>1
  <1>5. VersionsComplete'
    BY Zenon, <1>1, NothingLeft, IdleShape DEF VersionsComplete
  <1>6. ChargedIsCurrent' /\ OpeningQuiet' /\ ManifestCurrent'
    BY Zenon, <1>1, <1>4, NothingLeft DEF ChargedIsCurrent, Charged, OpeningQuiet, ManifestCurrent
  <1>7. QED
    BY Zenon, <1>2, <1>3, <1>5, <1>6 DEF IInv

(* The process crashes: the disk stays as it is.                           *)
LEMMA CrashStep ==
    ASSUME IInv, Crash
    PROVE  IInv'
  <1>1. Die("process", disk)
    BY Zenon DEF Crash
  <1>2. \A n \in DOMAIN disk.manifests : DOMAIN disk.manifests[n] = {"written", "synced"}
    BY Zenon DEF IInv, Shape
  <1>3. QED
    BY Zenon, <1>1, <1>2, DieStep

(* The machine loses power: a manifest keeps what was synced, or all.      *)
LEMMA PowerLossStep ==
    ASSUME IInv, PowerLoss
    PROVE  IInv'
  <1>1. PICK lose \in BOOLEAN, cut \in Cuts : Die("power", Torn(lose, cut))
    BY Zenon DEF PowerLoss
  <1> DEFINE logs == [n \in DOMAIN disk.logs |->
                         [records |-> SubSeq(disk.logs[n].records, 1, cut[n]), synced |-> cut[n]]]
             left(n) == IF lose THEN disk.manifests[n].synced ELSE disk.manifests[n].written
             manifests == [n \in DOMAIN disk.manifests |-> [written |-> left(n), synced |-> left(n)]]
             d == Torn(lose, cut)
  <1>3. d = [disk EXCEPT !.logs = logs, !.manifests = manifests]
    BY Zenon DEF Torn
  <1>4. DOMAIN manifests = DOMAIN disk.manifests
    BY Zenon
  <1>5. \A n \in DOMAIN disk.manifests :
          /\ DOMAIN manifests[n] = {"written", "synced"}
          /\ manifests[n].written \in {disk.manifests[n].written, disk.manifests[n].synced}
          /\ manifests[n].synced \in {disk.manifests[n].written, disk.manifests[n].synced}
    BY SMTT(30)
  <1> HIDE DEF logs, manifests, d
  <1>6. /\ DOMAIN d = DOMAIN disk /\ d.CURRENT = disk.CURRENT /\ d.tables = disk.tables
        /\ d.manifests = manifests
    BY SMTT(30), <1>3 DEF IInv, Shape
  <1>7. Die("power", d)
    BY Zenon, <1>1 DEF d
  <1>8. QED
    BY Zenon, <1>4, <1>5, <1>6, <1>7, DieStep

(* Opening adds to the manifest's version the tables made from the logs.   *)
LEMMA RecoverStep ==
    ASSUME IInv, Recover
    PROVE  IInv'
  <1> DEFINE m == Descriptor(disk)
             r == MapThenFoldSet(LAMBDA n, before : RecoverLogFile(before, n),
                                 [tables |-> << >>, next |-> m.next_file + 1,
                                  last |-> m.last_sequence],
                                 LAMBDA n : n, Max, LiveLogs(disk))
             tables == WithFiles(disk.tables, r.tables)
             logs == WithFile(disk.logs, r.next, [records |-> << >>, synced |-> 0])
             edit == [deleted |-> {}, added |-> {0} \X DOMAIN r.tables]
  <1>1. /\ mode = "down" /\ mode' = "recovered" /\ UNCHANGED <<bg, iter>>
        /\ disk' = [disk EXCEPT !.tables = tables, !.logs = logs]
        /\ versions' = [NoVersions EXCEPT !.current = Apply(m.files, edit),
                            !.log_number = r.next, !.next_file_number = r.next + 1,
                            !.last_sequence = r.last, !.manifest_file_number = m.next_file]
        /\ db' = [db EXCEPT !.logfile_number = r.next]
    BY Zenon DEF Recover
  <1> HIDE DEF r
  <1>2. DOMAIN tables = Tables \cup DOMAIN r.tables
    BY Zenon, WithFilesDomain DEF Tables
  <1>3. Added(edit) \subseteq DOMAIN r.tables
    <2>1. \A a \in edit.added : \E f \in DOMAIN r.tables : a = <<0, f>>
      BY SMTT(30)
    <2> HIDE DEF edit
    <2>2. \A level, files : (\A a \in edit.added : \E f \in files : a = <<level, f>>)
                                => Added(edit) \subseteq files
      BY Zenon, AddedFiles
    <2>3. QED
      BY Zenon, <2>1, <2>2
  <1> HIDE DEF tables, logs, edit
  <1>4. /\ DOMAIN disk' = DOMAIN disk /\ disk'.CURRENT = disk.CURRENT
        /\ disk'.manifests = disk.manifests /\ disk'.tables = tables
    BY SMTT(30), <1>1 DEF IInv, Shape
  <1>5. /\ DOMAIN versions' = DOMAIN NoVersions /\ versions'.current = Apply(m.files, edit)
        /\ versions'.file_to_compact = {}
    BY SMTT(30), <1>1, NothingLeft
  <1>6. DOMAIN db' = DOMAIN db /\ db'.pending_outputs = db.pending_outputs
    BY SMTT(30), <1>1 DEF IInv, Shape
  <1>7. bg = Idle /\ iter = NoFiles
    BY Zenon, <1>1 DEF IInv, OpeningQuiet
  <1>8. Shape'
    BY Zenon, <1>1, <1>4, <1>5, <1>6, NothingLeft DEF IInv, Shape
  <1>9. Tables \subseteq Tables'
    BY Zenon, <1>2, <1>4 DEF Tables
  <1>10. ManifestComplete'
    BY Zenon, <1>4, <1>9 DEF IInv, ManifestComplete, Written, Synced
  <1>11. Files(versions'.current) \subseteq Tables'
    <2>1. Files(m.files) \subseteq Tables
      BY Zenon DEF IInv, ManifestComplete, Written, Descriptor
    <2>2. Files(Apply(m.files, edit)) \subseteq Files(m.files) \cup Added(edit)
      BY Zenon, ApplyFiles
    <2> HIDE DEF m
    <2>3. Tables' = Tables \cup DOMAIN r.tables
      BY Zenon, <1>2, <1>4 DEF Tables
    <2>4. QED
      BY Zenon, <1>3, <1>5, <2>1, <2>2, <2>3
  <1>12. VersionsComplete'
    BY Zenon, <1>1, <1>7, <1>11, NothingLeft, IdleShape DEF VersionsComplete
  <1>13. ChargedIsCurrent' /\ OpeningQuiet' /\ ManifestCurrent'
    BY Zenon, <1>1, <1>5, <1>7 DEF ChargedIsCurrent, Charged, OpeningQuiet, ManifestCurrent
  <1>14. QED
    BY Zenon, <1>8, <1>10, <1>12, <1>13 DEF IInv

(* The new manifest lists the recovered version.                           *)
LEMMA NewManifestStep ==
    ASSUME IInv, NewManifest
    PROVE  IInv'
  <1> DEFINE n == versions.manifest_file_number
             m == [files |-> versions.current, log_number |-> versions.log_number,
                   next_file |-> versions.next_file_number,
                   last_sequence |-> versions.last_sequence]
             entry == [written |-> m, synced |-> m]
             manifests == WithFile(disk.manifests, n, entry)
  <1>1. /\ mode = "recovered" /\ mode' = "manifest" /\ UNCHANGED <<versions, db, bg, iter>>
        /\ disk' = [disk EXCEPT !.manifests = manifests]
    BY Zenon DEF NewManifest
  <1>2. /\ DOMAIN entry = {"written", "synced"}
        /\ entry.written.files = versions.current /\ entry.synced.files = versions.current
    BY SMTT(30)
  <1> HIDE DEF entry, n
  <1>3. /\ DOMAIN manifests = DOMAIN disk.manifests \cup {n}
        /\ manifests[n] = entry
        /\ \A x \in DOMAIN disk.manifests : x # n => manifests[x] = disk.manifests[x]
    <2>1. DOMAIN manifests = DOMAIN disk.manifests \cup {n}
      BY Zenon, WithFileDomain
    <2>2. manifests[n] = entry
      BY Zenon DEF WithFile, WithFiles
    <2>3. ASSUME NEW x \in DOMAIN disk.manifests, x # n
          PROVE  manifests[x] = disk.manifests[x]
      BY Zenon, <2>3 DEF WithFile, WithFiles
    <2> HIDE DEF manifests
    <2>4. QED
      BY Zenon, <2>1, <2>2, <2>3
  <1> HIDE DEF manifests
  <1>4. /\ DOMAIN disk' = DOMAIN disk /\ disk'.CURRENT = disk.CURRENT
        /\ disk'.manifests = manifests /\ disk'.tables = disk.tables
    BY SMTT(30), <1>1 DEF IInv, Shape
  <1>5. Shape'
    <2>1. \A x \in DOMAIN manifests : DOMAIN manifests[x] = {"written", "synced"}
      <3>1. SUFFICES ASSUME NEW x \in DOMAIN manifests
                     PROVE DOMAIN manifests[x] = {"written", "synced"}
        BY Zenon
      <3>2. CASE x = n
        BY Zenon, <3>2, <1>2, <1>3
      <3>3. CASE x # n
        BY Zenon, <3>1, <3>3, <1>3 DEF IInv, Shape
      <3>4. QED
        BY Zenon, <3>2, <3>3
    <2>2. QED
      BY Zenon, <1>1, <1>4, <2>1 DEF IInv, Shape
  <1>6. Files(versions.current) \subseteq Tables
    BY Zenon DEF IInv, VersionsComplete
  <1>7. ManifestComplete'
    <2>1. CASE disk.CURRENT = n
      BY Zenon, <2>1, <1>2, <1>3, <1>4, <1>6 DEF ManifestComplete, Written, Synced, Tables
    <2>2. CASE disk.CURRENT # n
      BY Zenon, <2>2, <1>3, <1>4 DEF IInv, ManifestComplete, Written, Synced, Tables
    <2>3. QED
      BY Zenon, <2>1, <2>2
  <1>8. VersionsComplete' /\ ChargedIsCurrent' /\ ManifestCurrent'
    BY Zenon, <1>1, <1>4 DEF IInv, VersionsComplete, ChargedIsCurrent, ManifestCurrent, Tables
  <1>9. OpeningQuiet'
    BY Zenon, <1>1, <1>2, <1>3, <1>4 DEF IInv, OpeningQuiet, n
  <1>10. QED
    BY Zenon, <1>5, <1>7, <1>8, <1>9 DEF IInv

(* CURRENT now names the new manifest, and cleaning up keeps the recovered *)
(* version's files.                                                        *)
LEMMA SetCurrentFileStep ==
    ASSUME IInv, SetCurrentFile
    PROVE  IInv'
  <1> DEFINE n == versions.manifest_file_number
             w == [disk EXCEPT !.CURRENT = n]
             left == DeleteObsoleteFiles(db, versions, w, {})
  <1>1. /\ mode = "manifest" /\ mode' = "up" /\ UNCHANGED <<versions, bg, iter>>
        /\ disk' = left
        /\ db' = MaybeScheduleCompaction(db, versions, disk.tables)
    BY Zenon DEF SetCurrentFile
  <1>2. /\ bg = Idle /\ iter = NoFiles
        /\ n \in DOMAIN disk.manifests
        /\ disk.manifests[n].written.files = versions.current
        /\ disk.manifests[n].synced.files = versions.current
    BY Zenon, <1>1 DEF IInv, OpeningQuiet
  <1>3. /\ DOMAIN w = {"tables", "logs", "manifests", "CURRENT"} /\ w.CURRENT = n
        /\ w.tables = disk.tables /\ w.manifests = disk.manifests
    BY SMTT(30) DEF IInv, Shape
  <1> HIDE DEF w
  <1>4. /\ DOMAIN left = DOMAIN w /\ left.CURRENT = w.CURRENT
        /\ DOMAIN w.tables \cap (db.pending_outputs \cup {} \cup Files(versions.current))
             \subseteq DOMAIN left.tables
        /\ DOMAIN left.manifests \subseteq DOMAIN w.manifests
        /\ n \in DOMAIN w.manifests => n \in DOMAIN left.manifests
        /\ \A x \in DOMAIN left.manifests : left.manifests[x] = w.manifests[x]
    BY SMTT(30), <1>3, DeleteKeeps
  <1> HIDE DEF left, n
  <1>5. /\ DOMAIN db' = DOMAIN db /\ db'.pending_outputs = db.pending_outputs
    <2>1. "scheduled" \in DOMAIN db
      BY Zenon DEF IInv, Shape
    <2>2. QED
      BY SMTT(30), <1>1, <2>1, ScheduleFields
  <1>6. Shape'
    <2>1. \A x \in DOMAIN left.manifests : DOMAIN left.manifests[x] = {"written", "synced"}
      BY Zenon, <1>3, <1>4 DEF IInv, Shape
    <2>2. QED
      BY Zenon, <1>1, <1>3, <1>4, <1>5, <2>1 DEF IInv, Shape
  <1>7. /\ disk'.CURRENT = n /\ n \in DOMAIN disk'.manifests
        /\ Written' = versions.current /\ Synced' = versions.current
    BY Zenon, <1>1, <1>2, <1>3, <1>4 DEF Written, Synced
  <1>8. Files(versions.current) \subseteq Tables'
    BY Zenon, <1>1, <1>3, <1>4 DEF IInv, VersionsComplete, Tables
  <1>9. ManifestComplete'
    BY Zenon, <1>7, <1>8 DEF ManifestComplete
  <1>10. VersionsComplete'
    BY Zenon, <1>1, <1>2, <1>8, NothingLeft, IdleShape DEF VersionsComplete
  <1>11. ChargedIsCurrent' /\ OpeningQuiet'
    BY Zenon, <1>1 DEF IInv, ChargedIsCurrent, OpeningQuiet
  <1>12. ManifestCurrent'
    BY Zenon, <1>1, <1>2, <1>7, IdleShape DEF ManifestCurrent, n
  <1>13. QED
    BY Zenon, <1>6, <1>9, <1>10, <1>11, <1>12 DEF IInv

-----------------------------------------------------------------------------
(* The theorems.                                                           *)

(* The database DBImpl::NewDB made is complete.                            *)
LEMMA InitIInv == Init => IInv
  <1> DEFINE m == [files |-> NoFiles, log_number |-> 0, next_file |-> 2, last_sequence |-> 0]
             entry == [written |-> m, synced |-> m]
  <1>1. SUFFICES ASSUME Init PROVE IInv
    BY Zenon
  <1>2. /\ disk = NewDB /\ versions = NoVersions /\ db = NoDB /\ bg = Idle
        /\ iter = NoFiles /\ mode = "down"
    BY Zenon, <1>1 DEF Init
  <1>3. NewDB = [tables |-> << >>, logs |-> << >>, manifests |-> <<entry>>, CURRENT |-> 1]
    BY Zenon DEF NewDB
  <1>4. /\ DOMAIN entry = {"written", "synced"}
        /\ entry.written.files = NoFiles /\ entry.synced.files = NoFiles
    BY SMTT(30)
  <1> HIDE DEF entry
  <1>5. /\ DOMAIN disk = {"tables", "logs", "manifests", "CURRENT"}
        /\ disk.CURRENT = 1 /\ disk.manifests = <<entry>>
    BY SMTT(30), <1>2, <1>3
  <1>6. DOMAIN disk.manifests = {1} /\ disk.manifests[1] = entry
    BY SMTT(30), <1>5
  <1>7. Written = NoFiles /\ Synced = NoFiles
    BY Zenon, <1>4, <1>5, <1>6 DEF Written, Synced
  <1>8. Shape
    BY Zenon, <1>2, <1>4, <1>5, <1>6, NothingLeft, IdleShape DEF Shape
  <1>9. ManifestComplete
    BY Zenon, <1>5, <1>6, <1>7, NothingLeft DEF ManifestComplete
  <1>10. VersionsComplete
    BY Zenon, <1>2, NothingLeft, IdleShape DEF VersionsComplete
  <1>11. ChargedIsCurrent /\ OpeningQuiet /\ ManifestCurrent
    BY Zenon, <1>2, NothingLeft DEF ChargedIsCurrent, Charged, OpeningQuiet, ManifestCurrent
  <1>12. QED
    BY Zenon, <1>8, <1>9, <1>10, <1>11 DEF IInv

(* Every step of the writers, the background thread and the readers, every *)
(* fault and every step of opening keeps the invariant.                    *)
LEMMA NextIInv == IInv /\ [Next]_vars => IInv'
  <1>1. SUFFICES ASSUME IInv, [Next]_vars PROVE IInv'
    BY Zenon
  <1>2. ASSUME NEW t \in Threads, Write(t) PROVE IInv'
    BY Zenon, <1>1, <1>2, WriteStep
  <1>3. CASE Lead
    BY Zenon, <1>1, <1>3, SwitchMemTableStep, LeaderStep DEF Lead
  <1>4. CASE Background
    BY Zenon, <1>1, <1>4, NothingToDoStep, BeginCompactionStep, CompactOutputStep,
       InstallCompactionResultsStep, WriteLevel0TableStep, LogEditStep, InstallVersionStep
       DEF Background
  <1>5. CASE Open
    BY Zenon, <1>1, <1>5, RecoverStep, NewManifestStep, SetCurrentFileStep DEF Open
  <1>6. CASE Faults
    BY Zenon, <1>1, <1>6, WriteFailsStep, BackgroundFailsStep, CrashStep, PowerLossStep DEF Faults
  <1>7. CASE ChargeSeek \/ NewIterator \/ DeleteIterator
    BY Zenon, <1>1, <1>7, ChargeSeekStep, IteratorStep
  <1>8. CASE UNCHANGED vars
    BY Zenon, <1>1, <1>8 DEF vars, IInv, Shape, ManifestComplete, VersionsComplete,
       ChargedIsCurrent, OpeningQuiet, ManifestCurrent, Written, Synced, Tables
  <1>9. QED
    BY Zenon, <1>1, <1>2, <1>3, <1>4, <1>5, <1>6, <1>7, <1>8 DEF Next

(* The invariant gives the property.                                       *)
LEMMA IInvKeeps == IInv => NeededFilesKept
  <1>1. SUFFICES ASSUME IInv PROVE NeededFilesKept
    BY Zenon
  <1>2. mode # "corrupt"
    BY Zenon, <1>1 DEF IInv, OpeningQuiet
  <1>3. NoMissingFiles(disk)
    BY Zenon, <1>1 DEF IInv, ManifestComplete, NoMissingFiles, Descriptor, Written, Tables
  <1>4. Files(versions.current) \subseteq DOMAIN disk.tables /\ bg.outputs \subseteq DOMAIN disk.tables
    BY Zenon, <1>1 DEF IInv, VersionsComplete, Tables
  <1>5. Referenced(bg.c) \subseteq DOMAIN disk.tables
    BY Zenon, <1>1 DEF IInv, VersionsComplete, Tables, Referenced
  <1>6. QED
    BY Zenon, <1>2, <1>3, <1>4, <1>5 DEF NeededFilesKept

(* DeleteObsoleteFiles removes no file of the current version, of an open  *)
(* iterator, of a running compaction or of the manifest on disk, whatever  *)
(* fails and wherever the process or the machine dies, so DB::Open never   *)
(* finds a file missing.                                                   *)
THEOREM FilesKept == Spec => []NeededFilesKept
  <1>1. Init /\ [][Next]_vars => []IInv
    BY InitIInv, NextIInv, PTL
  <1>2. QED
    BY <1>1, IInvKeeps, PTL DEF Spec
=============================================================================
