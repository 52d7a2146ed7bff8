------------------------------- MODULE LevelDB --------------------------------
(***************************************************************************)
(* A LevelDB database (leveldb/db/db_impl.cc, version_set.cc) under the     *)
(* node's CDBWrapper: threads that write batches through one queue, the     *)
(* thread that flushes memtables and compacts levels, iterators, the files  *)
(* on disk, and what a restart makes of them after a crash or a power loss. *)
(*                                                                         *)
(* A log record, a manifest record and a table are whole or absent (the    *)
(* log format, BuildTable and its Sync see to that).  The manifest is kept  *)
(* as the state its records add up to.                                     *)
(***************************************************************************)
EXTENDS LevelVersions

CONSTANTS
    Threads, Nil,
    write_buffer_size,        \* entries a memtable may hold
    GroupLimit,               \* entries a batch group may hold
    kL0_StopWritesTrigger,
    Budgets, MaxSeq           \* bounds of the model; a batch is a sequence of [key, del]

VARIABLES
    disk,      \* tables, logs, manifests and CURRENT
    versions,  \* VersionSet: current, file_to_compact and the counters
    db,        \* mem, imm, logfile_number, bg_error, scheduled, pending_outputs
    writers,   \* the queue, each thread's call, and the leader's progress
    bg,        \* the background thread
    iter,      \* the version an open iterator refers to, or NoFiles
    mode,      \* "down", "recovered", "manifest", "up", "corrupt"
    base, history, fault,   \* what DurableStore speaks of
    budget                  \* who may write, how much, and the faults to come

vars == <<disk, versions, db, writers, bg, iter, mode, base, history, fault, budget>>

(* What the database promises.                                             *)
Store == INSTANCE DurableStore WITH inflight <- writers.group, journal <- history,
                                    NoGroup <- Nil

(* Files of one kind, by number: with new ones, or one new one, which take *)
(* the place of any that have their numbers.                               *)
WithFiles(files, new) ==
    [n \in DOMAIN files \cup DOMAIN new |-> IF n \in DOMAIN new THEN new[n] ELSE files[n]]

WithFile(files, n, contents) == WithFiles(files, [m \in {n} |-> contents])

----------------------------------------------------------------------------
(* Reading.                                                                *)

(* DBImpl::Get at the last sequence number: the memtable, the one being    *)
(* flushed, the tables.                                                    *)
Get(k) ==
    LET snapshot == versions.last_sequence
        imm == IF db.imm = Nil THEN {} ELSE db.imm
    IN  IF Seen(db.mem, k, snapshot) # {} THEN SaveValue(db.mem, k, snapshot)
        ELSE IF Seen(imm, k, snapshot) # {} THEN SaveValue(imm, k, snapshot)
        ELSE VersionGet(disk.tables, versions.current, k, snapshot)

(* What opening the database would find on disk d: the tables the manifest *)
(* names, and the logs it does not yet cover, in the order of their        *)
(* numbers.                                                                *)
Descriptor(d) == d.manifests[d.CURRENT].written

LiveLogs(d) == {n \in DOMAIN d.logs : n >= Descriptor(d).log_number}

NoMissingFiles(d) ==
    /\ d.CURRENT \in DOMAIN d.manifests
    /\ Files(Descriptor(d).files) \subseteq DOMAIN d.tables

LogEntries(d, n) == UNION {g.ents : g \in Range(d.logs[n].records)}

Recovered(d) ==
    [k \in Keys |->
        LET naming == {n \in LiveLogs(d) : Seen(LogEntries(d, n), k, MaxSeq) # {}}
        IN  IF naming # {} THEN SaveValue(LogEntries(d, Max(naming)), k, MaxSeq)
            ELSE VersionGet(d.tables, Descriptor(d).files, k, MaxSeq)]

----------------------------------------------------------------------------
(* Scheduling and cleaning up.                                             *)

(* MaybeScheduleCompaction, given what the caller has changed.             *)
ScheduleMemTableOnly(d, v, w) ==
    [d EXCEPT !.scheduled = @ \/ (~d.bg_error /\ d.imm # Nil)]

MaybeScheduleCompaction(d, v, w) ==
    [d EXCEPT !.scheduled = \/ @
                            \/ /\ ~d.bg_error
                               /\ d.imm # Nil \/ NeedsCompaction(w, v.current, v.file_to_compact)]

(* DeleteObsoleteFiles: nothing after a background error.                  *)
DeleteObsoleteFilesAlways(d, v, w, live) ==
    LET keep(f, numbers) == [n \in DOMAIN f \cap numbers |-> f[n]]
        tables == d.pending_outputs \cup live \cup Files(v.current)
    IN  [w EXCEPT !.tables = keep(@, tables),
                  !.logs = keep(@, {n \in DOMAIN @ : n >= v.log_number}),
                  !.manifests = keep(@, {v.manifest_file_number}
                                            \cup {n \in DOMAIN @ : n > v.manifest_file_number})]

DeleteObsoleteFiles(d, v, w, live) ==
    IF d.bg_error THEN w ELSE DeleteObsoleteFilesAlways(d, v, w, live)

Referenced(c) == Files(iter) \cup UNION {Files(x.input_version) : x \in c}

----------------------------------------------------------------------------
(* Writing.                                                                *)

EntriesOf(t) == Len(writers.call[t].batch)

Pending == MapThenSumSet(EntriesOf, {t \in Threads : writers.call[t] # Nil})

(* DBImpl::Write: the caller queues up.                                    *)
Write(t) ==
    /\ mode = "up" /\ t \in budget.threads /\ writers.call[t] = Nil
    /\ \E b \in budget.batches, sync \in budget.sync :
        /\ versions.last_sequence + Pending + Len(b) <= budget.seq
        /\ writers' = [writers EXCEPT !.call[t] = [batch |-> b, sync |-> sync],
                                      !.queue = Append(@, t)]
    /\ UNCHANGED <<disk, versions, db, bg, iter, mode, base, history, fault, budget>>

Leading == mode = "up" /\ writers.queue # << >> /\ writers.stage = "front"

HasRoom == Cardinality(db.mem) <= write_buffer_size

(* MakeRoomForWrite switches to a new log and a new memtable, unless the   *)
(* last memtable is still being flushed or level 0 is full.                *)
SwitchMemTable ==
    /\ Leading /\ ~db.bg_error /\ ~HasRoom
    /\ db.imm = Nil
    /\ Cardinality(versions.current[0]) < kL0_StopWritesTrigger
    /\ LET n == versions.next_file_number
       IN  /\ disk' = [disk EXCEPT !.logs = WithFile(@, n, [records |-> << >>, synced |-> 0])]
           /\ versions' = [versions EXCEPT !.next_file_number = n + 1]
           /\ db' = MaybeScheduleCompaction([db EXCEPT !.logfile_number = n, !.imm = db.mem,
                                                       !.mem = {}],
                                            versions, disk.tables)
    /\ UNCHANGED <<writers, bg, iter, mode, base, history, fault, budget>>

(* The calls of the first n writers return.                                *)
Return(w, n) ==
    [w EXCEPT !.call = [t \in Threads |-> IF t \in Range(SubSeq(w.queue, 1, n))
                                            THEN Nil ELSE @[t]],
              !.queue = SubSeq(@, n + 1, Len(@))]

(* After a background error a write yields that error.                     *)
YieldError ==
    /\ Leading /\ db.bg_error
    /\ writers' = Return(writers, 1)
    /\ UNCHANGED <<disk, versions, db, bg, iter, mode, base, history, fault, budget>>

(* BuildBatchGroup: how many writers the leader serves.                    *)
GroupSizeAny ==
    Max({n \in 1 .. Len(writers.queue) :
            n = 1 \/ MapThenSumSet(LAMBDA i : EntriesOf(writers.queue[i]), 1 .. n) <= GroupLimit})

GroupSize ==
    LET q == writers.queue
        fits(n) == /\ \A i \in 2 .. n : writers.call[q[i]].sync => writers.call[q[1]].sync
                   /\ n = 1 \/ MapThenSumSet(LAMBDA i : EntriesOf(q[i]), 1 .. n) <= GroupLimit
    IN  Max({n \in 1 .. Len(q) : fits(n)})

(* Its operations, under the next sequence numbers, and whether any of its *)
(* callers asked for fSync.                                                *)
BuildBatchGroup ==
    LET ops == MapThenFoldSet(LAMBDA batch, before : before \o batch, << >>,
                              LAMBDA i : writers.call[writers.queue[i]].batch,
                              Max, 1 .. GroupSize)
    IN  [ents |-> {[key |-> ops[i].key, del |-> ops[i].del, seq |-> versions.last_sequence + i] :
                     i \in DOMAIN ops},
         sync |-> \E i \in 1 .. GroupSize : writers.call[writers.queue[i]].sync]

(* The leader appends the group to the log, without the mutex.             *)
AddRecord ==
    /\ Leading /\ ~db.bg_error /\ HasRoom
    /\ disk' = [disk EXCEPT !.logs[db.logfile_number].records = Append(@, BuildBatchGroup)]
    /\ writers' = [writers EXCEPT !.stage = "added", !.group = BuildBatchGroup, !.size = GroupSize]
    /\ UNCHANGED <<versions, db, bg, iter, mode, base, history, fault, budget>>

(* The write to the log fails: the group's callers get the error.          *)
AddRecordFails ==
    /\ Leading /\ ~db.bg_error /\ HasRoom
    /\ budget.errors > 0 /\ budget' = [budget EXCEPT !.errors = @ - 1]
    /\ versions' = [versions EXCEPT !.last_sequence = @ + Cardinality(BuildBatchGroup.ents)]
    /\ writers' = Return(writers, GroupSize)
    /\ UNCHANGED <<disk, db, bg, iter, mode, base, history, fault>>

(* The leader syncs the log when its own call asked for it.                *)
LeaderSyncs == writers.call[writers.queue[1]].sync

SyncLog ==
    /\ mode = "up" /\ writers.stage = "added" /\ LeaderSyncs
    /\ disk' = [disk EXCEPT !.logs[db.logfile_number].synced =
                                Len(disk.logs[db.logfile_number].records)]
    /\ writers' = [writers EXCEPT !.stage = "synced"]
    /\ UNCHANGED <<versions, db, bg, iter, mode, base, history, fault, budget>>

(* The Sync fails: the record may or may not show up later, so no write    *)
(* succeeds any more.                                                      *)
SyncLogFails ==
    /\ mode = "up" /\ writers.stage = "added" /\ LeaderSyncs
    /\ budget.errors > 0 /\ budget' = [budget EXCEPT !.errors = @ - 1]
    /\ db' = [db EXCEPT !.bg_error = TRUE]
    /\ versions' = [versions EXCEPT !.last_sequence = @ + Cardinality(writers.group.ents)]
    /\ writers' = [Return(writers, writers.size) EXCEPT !.stage = "front"]
    /\ UNCHANGED <<disk, bg, iter, mode, base, history, fault>>

(* The leader inserts the group into the memtable, makes it visible and    *)
(* wakes its followers.                                                    *)
FinishWrite ==
    /\ mode = "up"
    /\ \/ writers.stage = "added" /\ ~LeaderSyncs
       \/ writers.stage = "synced"
    /\ db' = [db EXCEPT !.mem = @ \cup writers.group.ents]
    /\ versions' = [versions EXCEPT !.last_sequence = @ + Cardinality(writers.group.ents)]
    /\ writers' = [Return(writers, writers.size) EXCEPT !.stage = "front", !.group = Nil]
    /\ history' = Append(history, writers.group)
    /\ UNCHANGED <<disk, bg, iter, mode, base, fault, budget>>

----------------------------------------------------------------------------
(* The background thread.                                                  *)

Idle == [pc |-> "idle", c |-> {}, todo |-> << >>, outputs |-> {}, edit |-> Nil]

(* BackgroundCall finds an error, or nothing to compact any more.          *)
NothingToDo ==
    /\ mode = "up" /\ bg.pc = "idle" /\ db.scheduled
    /\ \/ db.bg_error
       \/ db.imm = Nil /\ PickCompaction(disk.tables, versions.current,
                                           versions.file_to_compact) = {}
    /\ db' = MaybeScheduleCompaction([db EXCEPT !.scheduled = FALSE], versions, disk.tables)
    /\ UNCHANGED <<disk, versions, writers, bg, iter, mode, base, history, fault, budget>>

(* BackgroundCompaction without a memtable to flush: a file is moved to    *)
(* the next level, or a compaction begins.                                 *)
BeginCompaction ==
    /\ mode = "up" /\ bg.pc = "idle" /\ db.scheduled /\ ~db.bg_error /\ db.imm = Nil
    /\ \E c \in PickCompaction(disk.tables, versions.current, versions.file_to_compact) :
        IF IsTrivialMove(disk.tables, c)
          THEN bg' = [Idle EXCEPT !.pc = "edit",
                                  !.edit = [deleted |-> {<<c.level, f>> : f \in c.in0},
                                            added |-> {<<c.level + 1, f>> : f \in c.in0},
                                            log_number |-> versions.log_number,
                                            about |-> "move"]]
          ELSE \E todo \in Outputs(Kept(disk.tables, c, versions.last_sequence)) :
                  bg' = [Idle EXCEPT !.pc = "compact", !.c = {c}, !.todo = todo]
    /\ UNCHANGED <<disk, versions, db, writers, iter, mode, base, history, fault, budget>>

(* DoCompactionWork writes its next output file.                           *)
CompactOutput ==
    /\ mode = "up" /\ bg.pc = "compact" /\ bg.todo # << >>
    /\ LET n == versions.next_file_number
       IN  /\ versions' = [versions EXCEPT !.next_file_number = n + 1]
           /\ disk' = [disk EXCEPT !.tables = WithFile(@, n, Head(bg.todo))]
           /\ db' = [db EXCEPT !.pending_outputs = @ \cup {n}]
           /\ bg' = [bg EXCEPT !.todo = Tail(@), !.outputs = @ \cup {n}]
    /\ UNCHANGED <<writers, iter, mode, base, history, fault, budget>>

(* InstallCompactionResults, when the outputs are written.                 *)
InstallCompactionResults ==
    /\ mode = "up" /\ bg.pc = "compact" /\ bg.todo = << >>
    /\ LET c == CHOOSE c \in bg.c : TRUE
       IN  bg' = [bg EXCEPT !.pc = "edit",
                            !.edit = [deleted |-> {<<c.level, f>> : f \in c.in0}
                                                    \cup {<<c.level + 1, f>> : f \in c.in1},
                                      added |-> {<<c.level + 1, f>> : f \in bg.outputs},
                                      log_number |-> versions.log_number,
                                      about |-> "compact"]]
    /\ UNCHANGED <<disk, versions, db, writers, iter, mode, base, history, fault, budget>>

(* CompactMemTable: from BackgroundCompaction, or between two steps of     *)
(* DoCompactionWork.  The memtable is written to a table file...           *)
WriteLevel0Table ==
    /\ mode = "up" /\ db.imm # Nil
    /\ \/ bg.pc = "idle" /\ db.scheduled /\ ~db.bg_error
       \/ bg.pc = "compact"
    /\ LET n == versions.next_file_number
           keys == {e.key : e \in db.imm}
           level == PickLevelForMemTableOutput(disk.tables, versions.current, Min(keys), Max(keys))
       IN  /\ disk' = [disk EXCEPT !.tables = WithFile(@, n, db.imm)]
           /\ versions' = [versions EXCEPT !.next_file_number = n + 1]
           /\ bg' = [bg EXCEPT !.pc = "edit",
                               !.edit = [deleted |-> {}, added |-> {<<level, n>>},
                                         log_number |-> db.logfile_number,
                                         about |-> "imm"]]
    /\ UNCHANGED <<db, writers, iter, mode, base, history, fault, budget>>

(* ... and LogAndApply writes the edit to the manifest, without the mutex. *)
Edited(m, edit, v) ==
    [files |-> Apply(m.files, edit), log_number |-> edit.log_number,
     next_file |-> v.next_file_number, last_sequence |-> v.last_sequence]

LogEdit ==
    /\ mode = "up" /\ bg.pc = "edit"
    /\ disk' = [disk EXCEPT !.manifests[versions.manifest_file_number].written =
                                Edited(@, bg.edit, versions)]
    /\ bg' = [bg EXCEPT !.pc = "logged"]
    /\ UNCHANGED <<versions, db, writers, iter, mode, base, history, fault, budget>>

(* The manifest is synced and the new version becomes current; what the    *)
(* edit was about is done, and files nobody needs are deleted.             *)
Resumed == IF bg.edit.about = "imm" /\ bg.c # {}
             THEN [bg EXCEPT !.pc = "compact", !.edit = Nil]
             ELSE Idle

InstallVersion ==
    /\ mode = "up" /\ bg.pc = "logged"
    /\ LET m == versions.manifest_file_number
           synced == [disk EXCEPT !.manifests[m].synced = disk.manifests[m].written]
           v == [versions EXCEPT !.current = Apply(@, bg.edit), !.file_to_compact = {},
                                 !.log_number = bg.edit.log_number]
           d == [db EXCEPT !.imm = IF bg.edit.about = "imm" THEN Nil ELSE @,
                           !.pending_outputs = IF bg.edit.about = "compact"
                                                 THEN @ \ bg.outputs ELSE @,
                           !.scheduled = Resumed # Idle]
           live == Referenced(IF bg.edit.about = "imm" THEN bg.c ELSE {})
       IN  /\ versions' = v
           /\ disk' = IF bg.edit.about = "move" THEN synced
                      ELSE DeleteObsoleteFiles(d, v, synced, live)
           /\ db' = IF Resumed # Idle THEN d ELSE MaybeScheduleCompaction(d, v, disk.tables)
           /\ bg' = Resumed
    /\ UNCHANGED <<writers, iter, mode, base, history, fault, budget>>

(* Any of these writes fails: RecordBackgroundError.  Whether the manifest *)
(* has the edit is then unknown; a compaction goes on after a flush of the *)
(* memtable that failed in the middle of it.                               *)
BackgroundFails ==
    /\ mode = "up" /\ bg.pc # "idle"
    /\ budget.errors > 0 /\ budget' = [budget EXCEPT !.errors = @ - 1]
    /\ LET back == IF bg.pc = "compact" THEN Idle ELSE Resumed
           d == [db EXCEPT !.bg_error = TRUE, !.scheduled = back # Idle,
                           !.pending_outputs = IF back = Idle THEN {} ELSE @]
       IN  /\ bg' = back /\ db' = d
           /\ disk' = IF back = Idle /\ bg.c # {}
                        THEN DeleteObsoleteFiles(d, versions, disk, Referenced({})) ELSE disk
    /\ UNCHANGED <<versions, writers, iter, mode, base, history, fault>>

----------------------------------------------------------------------------
(* Reads that leave a trace: a file charged with too many seeks, and       *)
(* iterators, which keep the version they were opened on.                  *)

ChargeSeek ==
    /\ mode = "up" /\ versions.file_to_compact = {}
    /\ \E s \in UpdateStats(disk.tables, versions.current) :
        LET v == [versions EXCEPT !.file_to_compact = {s}]
        IN  versions' = v /\ db' = MaybeScheduleCompaction(db, v, disk.tables)
    /\ UNCHANGED <<disk, writers, bg, iter, mode, base, history, fault, budget>>

NewIterator ==
    /\ mode = "up" /\ budget.iterators /\ iter = NoFiles
    /\ iter' = versions.current
    /\ UNCHANGED <<disk, versions, db, writers, bg, mode, base, history, fault, budget>>

DeleteIterator ==
    /\ iter # NoFiles
    /\ iter' = NoFiles
    /\ UNCHANGED <<disk, versions, db, writers, bg, mode, base, history, fault, budget>>

----------------------------------------------------------------------------
(* Crashes, and opening the database again.                                *)

NoVersions == [current |-> NoFiles, file_to_compact |-> {}, log_number |-> 0,
               next_file_number |-> 0, last_sequence |-> 0, manifest_file_number |-> 0]

NoDB == [mem |-> {}, imm |-> Nil, logfile_number |-> 0, bg_error |-> FALSE,
         scheduled |-> FALSE, pending_outputs |-> {}]

NoWriters == [queue |-> << >>, call |-> [t \in Threads |-> Nil], stage |-> "front",
              group |-> Nil, size |-> 0]

(* The process dies and leaves disk d.                                     *)
Die(kind, d) ==
    /\ mode # "corrupt"
    /\ budget.crashes > 0 /\ budget' = [budget EXCEPT !.crashes = @ - 1]
    /\ disk' = d
    /\ versions' = NoVersions /\ db' = NoDB /\ writers' = NoWriters /\ bg' = Idle
    /\ iter' = NoFiles
    /\ mode' = IF NoMissingFiles(d) THEN "down" ELSE "corrupt"
    /\ fault' = kind

Crash ==
    /\ Die("process", disk)
    /\ history' = IF writers.group = Nil THEN history ELSE Store!Unacknowledged
    /\ UNCHANGED base

(* Every log keeps what was synced of it and possibly more, whatever       *)
(* became of the others; the manifest may lose a record not yet synced.    *)
Torn(lose, cut) ==
    LET left(n) == IF lose THEN disk.manifests[n].synced ELSE disk.manifests[n].written
    IN  [disk EXCEPT !.logs = [n \in DOMAIN disk.logs |->
                                  [records |-> SubSeq(disk.logs[n].records, 1, cut[n]),
                                   synced |-> cut[n]]],
                     !.manifests = [n \in DOMAIN disk.manifests |->
                                       [written |-> left(n), synced |-> left(n)]]]

Cuts == {c \in [DOMAIN disk.logs -> 0 .. MaxSeq] :
            \A n \in DOMAIN c : c[n] \in disk.logs[n].synced .. Len(disk.logs[n].records)}

PowerLoss ==
    \E lose \in BOOLEAN, cut \in Cuts :
        LET d == Torn(lose, cut)
        IN  /\ Die("power", d)
            /\ base' = IF NoMissingFiles(d) THEN Recovered(d) ELSE base
            /\ history' = << >>

(* RecoverLogFile turns a log into a level-0 table, unless it is empty,    *)
(* and MarkFileNumberUsed then keeps its number from being used again.     *)
RecoverLogFile(r, n) ==
    LET ents == LogEntries(disk, n)
        next == IF ents = {} THEN r.next ELSE r.next + 1
    IN  [tables |-> IF ents = {} THEN r.tables ELSE WithFile(r.tables, r.next, ents),
         next |-> Max({next, n + 1}),
         last |-> Max({r.last} \cup {e.seq : e \in ents})]

(* DBImpl::Recover: the version the manifest describes, and the logs that  *)
(* are not in it, in order; DB::Open then starts a new log.                *)
Recover ==
    /\ mode = "down"
    /\ LET m == Descriptor(disk)
           r == MapThenFoldSet(LAMBDA n, before : RecoverLogFile(before, n),
                               [tables |-> << >>, next |-> m.next_file + 1,
                                last |-> m.last_sequence],
                               LAMBDA n : n, Max, LiveLogs(disk))
       IN  /\ disk' = [disk EXCEPT !.tables = WithFiles(@, r.tables),
                                   !.logs = WithFile(@, r.next, [records |-> << >>, synced |-> 0])]
           /\ versions' = [NoVersions EXCEPT
                              !.current = Apply(m.files, [deleted |-> {},
                                                          added |-> {0} \X DOMAIN r.tables]),
                              !.log_number = r.next, !.next_file_number = r.next + 1,
                              !.last_sequence = r.last, !.manifest_file_number = m.next_file]
           /\ db' = [db EXCEPT !.logfile_number = r.next]
    /\ mode' = "recovered"
    /\ UNCHANGED <<writers, bg, iter, base, history, fault, budget>>

(* The first LogAndApply starts a new manifest with a snapshot of it all.  *)
NewManifest ==
    /\ mode = "recovered"
    /\ LET m == [files |-> versions.current, log_number |-> versions.log_number,
                 next_file |-> versions.next_file_number, last_sequence |-> versions.last_sequence]
       IN  disk' = [disk EXCEPT !.manifests =
                       WithFile(@, versions.manifest_file_number, [written |-> m, synced |-> m])]
    /\ mode' = "manifest"
    /\ UNCHANGED <<versions, db, writers, bg, iter, base, history, fault, budget>>

(* SetCurrentFile makes it the database's; DB::Open then cleans up.        *)
SetCurrentFile ==
    /\ mode = "manifest"
    /\ disk' = DeleteObsoleteFiles(db, versions,
                                   [disk EXCEPT !.CURRENT = versions.manifest_file_number], {})
    /\ db' = MaybeScheduleCompaction(db, versions, disk.tables)
    /\ mode' = "up" /\ fault' = "none"
    /\ base' = Store!Replay(base, history) /\ history' = << >>
    /\ UNCHANGED <<versions, writers, bg, iter, budget>>

----------------------------------------------------------------------------

(* DBImpl::NewDB has made an empty database.                               *)
NewDB == LET m == [files |-> NoFiles, log_number |-> 0, next_file |-> 2, last_sequence |-> 0]
         IN  [tables |-> << >>, logs |-> << >>,
              manifests |-> <<[written |-> m, synced |-> m]>>, CURRENT |-> 1]

Init ==
    /\ disk = NewDB
    /\ versions = NoVersions /\ db = NoDB /\ writers = NoWriters /\ bg = Idle
    /\ iter = NoFiles /\ mode = "down"
    /\ base = [k \in Keys |-> 0] /\ history = << >> /\ fault = "process"
    /\ budget \in Budgets

Lead == SwitchMemTable \/ YieldError \/ AddRecord \/ SyncLog \/ FinishWrite

Background ==
    \/ NothingToDo \/ BeginCompaction \/ CompactOutput \/ InstallCompactionResults
    \/ WriteLevel0Table \/ LogEdit \/ InstallVersion

Open == Recover \/ NewManifest \/ SetCurrentFile

Faults == AddRecordFails \/ SyncLogFails \/ BackgroundFails \/ Crash \/ PowerLoss

Next ==
    \/ \E t \in Threads : Write(t)
    \/ Lead \/ Background \/ Open \/ Faults
    \/ ChargeSeek \/ NewIterator \/ DeleteIterator

(* The thread at the front of the queue and the background thread run, and *)
(* a node that died is started again: weak fairness of Lead, Background    *)
(* and Open, with their enabling conditions written out.                   *)
CanLead == mode = "up" /\ \/ writers.stage # "front"
                          \/ /\ writers.queue # << >>
                             /\ \/ db.bg_error \/ HasRoom
                                \/ /\ db.imm = Nil
                                   /\ Cardinality(versions.current[0]) < kL0_StopWritesTrigger

CanWork == mode = "up" /\ (bg.pc # "idle" \/ db.scheduled)

Fairness ==
    /\ []<>~CanLead \/ []<><<Lead>>_vars
    /\ []<>~CanWork \/ []<><<Background>>_vars
    /\ []<>(mode \in {"up", "corrupt"}) \/ []<><<Open>>_vars

Spec == Init /\ [][Next]_vars /\ Fairness

----------------------------------------------------------------------------
(* Properties.                                                             *)

(* No two files of a level below the first overlap, as Builder asserts in   *)
(* MaybeAddFile and as a search of one file per level needs, even when a   *)
(* memtable is flushed into the middle of a running compaction.            *)
LevelsDisjoint ==
    \A level \in Levels \ {0} : \A f, g \in versions.current[level] :
        f # g => ~Overlaps(disk.tables, f, Smallest(disk.tables, g), Largest(disk.tables, g))

(* A Get answers, for every key, what the last acknowledged write of it    *)
(* said (DBImpl::Get), whatever rotations, flushes, moves and compactions  *)
(* came in between: deletion markers are dropped only where nothing older   *)
(* can come to light, and no level hides newer entries of a lower one.     *)
(* While the database is down, it is what a restart will find.             *)
ReadsLatest ==
    LET contents == Store!Replay(base, history)
    IN  /\ LevelsDisjoint
        /\ IF mode = "up" THEN \A k \in Keys : Get(k) = contents[k]
           ELSE mode # "corrupt" => Recovered(disk) = contents

(* DeleteObsoleteFiles removes no file somebody still needs: the current   *)
(* version's, an open iterator's, a running compaction's, and those the    *)
(* manifest on disk names, which a restart would miss; so opening the      *)
(* database never fails, wherever the process died.                        *)
NeededFilesKept ==
    /\ mode # "corrupt"
    /\ NoMissingFiles(disk)
    /\ Files(versions.current) \cup Referenced(bg.c) \cup bg.outputs \subseteq DOMAIN disk.tables

(* What a crash or a power loss leaves is what DurableStore allows: each   *)
(* batch as a whole, every batch acknowledged before the process died, and *)
(* after a power loss every batch written with fSync.                      *)
RefinesDurableStore == Store!Spec

(* A queued write returns, with success or an error: a full memtable is    *)
(* flushed and a full level 0 compacted whenever a writer waits for it.    *)
WritesReturn == \A t \in Threads : writers.call[t] # Nil ~> writers.call[t] = Nil

===============================================================================
