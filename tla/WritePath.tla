------------------------------- MODULE WritePath -------------------------------
(***************************************************************************)
(* What a write goes through: the log record, the memtable, the switch to a *)
(* new log and memtable, the flush of the old one into a table, the MANIFEST *)
(* record that makes the old log superfluous, its deletion, and recovery    *)
(* after the process stops at any point of it.                              *)
(*                                                                         *)
(* The module composes with WriterQueue: each of its actions is an action   *)
(* of the queue with what it does to memtables, logs and tables.  Files     *)
(* survive the end of the process, variables do not.  An operation of a     *)
(* batch is named by its sequence number; all operations put the same key.  *)
(* A memtable has the number of the log it is paired with.                  *)
(***************************************************************************)
EXTENDS WriterQueue, FiniteSetsExt

CONSTANTS
  MaxCrashes,    \* how often the process may stop
  RecoverFaults  \* TRUE iff I/O of a recovery may fail

ASSUME CrashAssumption ==
  /\ MaxCrashes \in Nat
  /\ RecoverFaults \in BOOLEAN
  /\ Snapshotters = {}

VARIABLES
  up,       \* the database is open
  crashes,  \* how often the process has stopped
  cur,      \* logfile_number_, and with it mem_
  old,      \* the log of imm_, while imm is TRUE
  mems,     \* pairs <<log, op>>: op is in the memtable of log
  live,     \* operations in the tables of versions_->current()
  held,     \* Writer::mem_ and Writer::log_ of each thread
  done,     \* how far Write of each thread has come with its batch
  job,      \* the flush: its stage, what its iterator began with, its edit
  logs,     \* file: the logs in the directory
  records,  \* file: pairs <<log, op>>: op is in a record of log
  disk,     \* file: what the MANIFEST says: tables, LogNumber, LastSequence
  copies,   \* file: the directory each thread's last LiveBackup makes
  acked     \* operations whose Write has returned OK

memory == <<cur, old, mems, live, held, done, job>>
files == <<logs, records, disk, copies>>
pathVars == <<up, crashes, memory, files, acked>>
allVars == <<vars, pathVars>>

\* The operations of the batch of t: SetSequence numbers them from start_sequence_.
Ops(t) == first[t] .. (last[t] - 1)

In(pairs, l) == {p[2] : p \in {q \in pairs : q[1] = l}}

MaxOf(S, default) == IF S = {} THEN default ELSE Max(S)

NoCopy == [listed |-> FALSE, done |-> FALSE, before |-> {}, linked |-> {}, names |-> {},
           tables |-> {}, ops |-> {}]

NoJob == [stage |-> "none", seen |-> {}, add |-> {}, log |-> 0, last |-> 0]

-----------------------------------------------------------------------------
\* DB::Open of a new directory: NewDB, then an empty log.
PathInit ==
  /\ Init
  /\ up = TRUE
  /\ crashes = 0
  /\ cur = 1
  /\ old = 0
  /\ mems = {}
  /\ live = {}
  /\ held = [t \in Threads |-> 0]
  /\ done = [t \in Threads |-> "none"]
  /\ job = NoJob
  /\ logs = {1}
  /\ records = {}
  /\ disk = [tables |-> {}, log |-> 1, last |-> 0]
  /\ copies = [t \in Threads |-> NoCopy]
  /\ acked = {}

\* SequenceWriteBegin ends its section of mutex_ by taking mem_ and log_.
TakeRoom(t) ==
  /\ BeginRoom(t)
  /\ held' = [held EXCEPT ![t] = cur]
  /\ UNCHANGED <<up, crashes, cur, old, mems, live, done, job, files, acked>>

Switch(t) ==
  /\ BeginSwitches(t)
  /\ old' = cur
  /\ cur' = cur + 1
  /\ logs' = logs \cup {cur + 1}
  /\ held' = [held EXCEPT ![t] = cur + 1]
  /\ UNCHANGED <<up, crashes, mems, live, done, job, records, disk, copies, acked>>

\* Write: w.log_->AddRecord.
AddRecord(t) ==
  /\ pc[t] = "write" /\ batch[t] # NULL /\ done[t] = "none"
  /\ records' = records \cup ({held[t]} \X Ops(t))
  /\ done' = [done EXCEPT ![t] = "logged"]
  /\ UNCHANGED <<vars, up, crashes, cur, old, mems, live, held, job, logs, disk, copies, acked>>

\* Write: InsertInto w.mem_; a NULL batch has nothing to insert.
InsertInto(t) ==
  /\ Insert(t)
  /\ batch[t] # NULL => done[t] = "logged"
  /\ mems' = mems \cup ({held[t]} \X Ops(t))
  /\ done' = [done EXCEPT ![t] = "inserted"]
  /\ UNCHANGED <<up, crashes, cur, old, live, held, job, files, acked>>

\* Write is about to return OK if nothing failed.
Acknowledge(t) ==
  /\ Unlink(t)
  /\ acked' = IF done[t] = "inserted" THEN acked \cup Ops(t) ELSE acked
  /\ held' = [held EXCEPT ![t] = 0]
  /\ done' = [done EXCEPT ![t] = "none"]
  /\ UNCHANGED <<up, crashes, cur, old, mems, live, job, files>>

-----------------------------------------------------------------------------
(***************************************************************************)
(* CompactMemTableThread.  BuildTable reads imm_ without mutex_: it sees    *)
(* all that was there when it began, and may see what came since.           *)
(***************************************************************************)
\* Mutant: the table is built from mem_.
StartBuildFromMem == [NoJob EXCEPT !.stage = "build", !.seen = In(mems, cur)]

StartBuild == [NoJob EXCEPT !.stage = "build", !.seen = In(mems, old)]

FlushBegins ==
  /\ MemtableWakes
  /\ job' = IF imm THEN StartBuild ELSE job
  /\ UNCHANGED <<up, crashes, cur, old, mems, live, held, done, files, acked>>

\* A backup between taking and returning bg_log_occupied_.
BackupHasLog == \E t \in Threads : pc[t] = "copying" /\ copies[t].listed

\* Mutant: LiveBackup does not look at bg_log_occupied_.
FlushHasLogIgnored == FALSE

\* The flush is inside LogAndApply, and has bg_log_occupied_.
FlushHasLog == job.stage \in {"apply", "commit"}

\* The table is built, and LogAndApply begins once bg_log_occupied_ is free.
FlushBuilt ==
  /\ job.stage = "build" /\ ~BackupHasLog
  /\ \E late \in SUBSET (In(mems, old) \ job.seen) :
       job' = [stage |-> "apply", seen |-> {}, add |-> job.seen \cup late,
               log |-> cur, last |-> lastSeq]
  /\ UNCHANGED <<vars, up, crashes, cur, old, mems, live, held, done, files, acked>>

ManifestRecord ==
  [tables |-> disk.tables \cup job.add, log |-> job.log, last |-> job.last]

\* LogAndApply writes the edit to the MANIFEST without mutex_.
FlushApplied ==
  /\ job.stage = "apply"
  /\ disk' = ManifestRecord
  /\ job' = [job EXCEPT !.stage = "commit"]
  /\ UNCHANGED <<vars, up, crashes, cur, old, mems, live, held, done, logs, records, copies, acked>>

\* Mutant: the log of the edit is deleted too.
LogsKeptOffByOne(from) ==
  IF bgError \/ backup.inProgress THEN logs ELSE {l \in logs : l > from}

\* DeleteObsoleteFiles, for logs: nothing is deleted after an error or while a
\* backup is in progress.
LogsKept(from) ==
  IF bgError \/ backup.inProgress THEN logs ELSE {l \in logs : l >= from}

FlushCommits ==
  /\ job.stage = "commit"
  /\ FlushOk
  /\ live' = live \cup job.add
  /\ mems' = {p \in mems : p[1] # old}
  /\ logs' = LogsKept(job.log)
  /\ records' = {p \in records : p[1] \in logs'}
  /\ old' = 0
  /\ job' = NoJob
  /\ UNCHANGED <<up, crashes, cur, held, done, disk, copies, acked>>

\* BuildTable fails, or the write of the MANIFEST does, with or without its
\* record in the file; the thread begins again.
FlushFailed ==
  /\ job.stage \in {"build", "apply"}
  /\ FlushFails
  /\ disk' \in {disk} \cup (IF job.stage = "apply" THEN {ManifestRecord} ELSE {})
  /\ job' = StartBuild
  /\ UNCHANGED <<up, crashes, cur, old, mems, live, held, done, logs, records, copies, acked>>

-----------------------------------------------------------------------------
(***************************************************************************)
(* LiveBackup.  With bg_log_occupied_ it lists the live tables and the      *)
(* directory, then copies the MANIFEST and the logs and links the tables.   *)
(***************************************************************************)
BackupBegins(t) ==
  /\ CallBackup(t)
  /\ copies' = [copies EXCEPT ![t] = [NoCopy EXCEPT !.before = acked]]
  /\ UNCHANGED <<up, crashes, memory, logs, records, disk, acked>>

ListFiles(t) ==
  /\ pc[t] = "copying" /\ ~copies[t].listed /\ ~FlushHasLog
  /\ copies' = [copies EXCEPT ![t].listed = TRUE, ![t].linked = live, ![t].names = logs]
  /\ UNCHANGED <<vars, up, crashes, memory, logs, records, disk, acked>>

\* A file operation that fails ends the copying, and LiveBackup returns the error.
CopyFiles(t) ==
  /\ OpenGate(t) /\ copies[t].listed
  /\ \E ok \in {TRUE, ~Faults} :
       copies' = [copies EXCEPT
         ![t].done = ok,
         ![t].tables = disk.tables,
         ![t].ops = {p[2] : p \in {q \in records :
                                     q[1] \in copies[t].names /\ q[1] >= disk.log}}]
  /\ UNCHANGED <<up, crashes, memory, logs, records, disk, acked>>

-----------------------------------------------------------------------------
\* The process stops: what is in memory is gone.
Crash ==
  /\ up /\ crashes < MaxCrashes
  /\ up' = FALSE
  /\ crashes' = crashes + 1
  /\ pc' = [t \in Threads |-> "idle"]
  /\ batch' = [t \in Threads |-> NULL]
  /\ linked' = [t \in Threads |-> FALSE]
  /\ prev' = [t \in Threads |-> NULL]
  /\ next' = [t \in Threads |-> NULL]
  /\ tail' = NULL
  /\ hasImm' = [t \in Threads |-> FALSE]
  /\ wake' = [t \in Threads |-> FALSE]
  /\ block' = [t \in Threads |-> t \notin Backups]
  /\ first' = [t \in Threads |-> 0]
  /\ last' = [t \in Threads |-> 0]
  /\ upper' = 0
  /\ lastSeq' = 0
  /\ snap' = [t \in Threads |-> 0]
  /\ imm' = FALSE
  /\ bg' = "wait"
  /\ bgError' = FALSE
  /\ backup' = [inProgress |-> FALSE, claimed |-> FALSE, waiters |-> 0]
  /\ cur' = 0
  /\ old' = 0
  /\ mems' = {}
  /\ live' = {}
  /\ held' = [t \in Threads |-> 0]
  /\ done' = [t \in Threads |-> "none"]
  /\ job' = NoJob
  /\ copies' = [t \in Threads |-> IF copies[t].done THEN copies[t] ELSE NoCopy]
  /\ UNCHANGED <<left, logs, records, disk, acked>>

\* The logs Recover replays.
Replayed == {l \in logs : l >= disk.log}

(***************************************************************************)
(* DB::Open: replay the logs in order, each into a table; open a new log;   *)
(* write the MANIFEST; delete the old logs.  bad are the logs whose         *)
(* RecoverLogFile fails after it has read the records of the log but before *)
(* it has written their table.  Recover keeps the status of the last log.   *)
(***************************************************************************)
RecoveredStatusOk(bad) == \A l \in bad : \E k \in Replayed : k > l

\* The records Recover reads.
Read == {p \in records : p[1] \in Replayed}

RecoveredSequence == MaxOf({p[2] : p \in Read} \cup {disk.last}, 0)

NewLog == MaxOf(logs, disk.log) + 1

\* The MANIFEST that DB::Open writes.
Recovered(bad) ==
  [tables |-> disk.tables \cup {p[2] : p \in {q \in Read : q[1] \notin bad}},
   log |-> NewLog,
   last |-> RecoveredSequence]

CanOpen(bad) ==
  /\ ~up
  /\ bad \subseteq Replayed /\ (bad # {} => RecoverFaults)
  /\ RecoveredStatusOk(bad)

Open(bad) ==
  /\ CanOpen(bad)
  /\ up' = TRUE
  /\ cur' = NewLog
  /\ live' = Recovered(bad).tables
  /\ lastSeq' = RecoveredSequence
  /\ upper' = RecoveredSequence
  /\ disk' = Recovered(bad)
  /\ logs' = {NewLog}
  /\ records' = {}
  /\ UNCHANGED <<pc, left, batch, list, first, last, snap, flush, backup, crashes,
                 old, mems, held, done, job, copies, acked>>

\* The process stops again in DB::Open, before or after the MANIFEST is written,
\* and before the old logs are deleted.
OpenStops(bad) ==
  /\ CanOpen(bad) /\ crashes < MaxCrashes
  /\ crashes' = crashes + 1
  /\ logs' = logs \cup {NewLog}
  /\ disk' \in {disk, Recovered(bad)}
  /\ UNCHANGED <<vars, up, memory, records, copies, acked>>

-----------------------------------------------------------------------------
\* The actions of the queue that touch neither memtables nor files.
QueueOnly(t) ==
  /\ \/ \E b \in Batches : CallWrite(t, b)
     \/ BeginYieldsError(t) \/ BeginWaits(t) \/ BeginSwitchFails(t)
     \/ Link(t) \/ PassGate(t) \/ InsertFails(t) \/ RecordError(t)
     \/ Publish(t) \/ Notify(t) \/ Settle(t)
     \/ Claim(t) \/ Drain(t) \/ Drained(t) \/ Copy(t)
  /\ UNCHANGED pathVars

PathNext ==
  \/ /\ up
     /\ \/ \E t \in Threads : \/ QueueOnly(t) \/ TakeRoom(t) \/ Switch(t)
                              \/ AddRecord(t) \/ InsertInto(t) \/ Acknowledge(t)
                              \/ BackupBegins(t) \/ ListFiles(t) \/ CopyFiles(t)
        \/ Nudge /\ UNCHANGED pathVars
        \/ FlushBegins \/ FlushBuilt \/ FlushApplied \/ FlushCommits \/ FlushFailed
        \/ Quiet /\ UNCHANGED pathVars
        \/ Crash
  \/ \E bad \in SUBSET Replayed : Open(bad) \/ OpenStops(bad)

PathSpec == PathInit /\ [][PathNext]_allVars

-----------------------------------------------------------------------------
InImm == IF imm THEN In(mems, old) ELSE {}

Stored == In(mems, cur) \cup InImm \cup live

(***************************************************************************)
(* A write that returned OK can be read: its operations are in mem_, in     *)
(* imm_ or in a table, through every switch, flush and recovery, and        *)
(* LastSequence covers them.                                                *)
(***************************************************************************)
AckedReadable == up => \A op \in acked : op \in Stored /\ op <= lastSeq

(***************************************************************************)
(* A write that returned OK survives the end of the process: its operations *)
(* are in a table of the MANIFEST or in a log that recovery replays.        *)
(***************************************************************************)
AckedDurable ==
  \A op \in acked : op \in disk.tables \/ \E l \in Replayed : <<l, op>> \in records

(***************************************************************************)
(* Sequence numbers handed out after a recovery are fresh: none of the      *)
(* operations stored anywhere is above writers_upper_.                      *)
(***************************************************************************)
StoredBelowUpper == up => \A op \in Stored \cup disk.tables : op <= upper

(***************************************************************************)
(* A finished backup can be opened and is complete: every table its         *)
(* MANIFEST names is linked, and every write that had returned OK when      *)
(* LiveBackup was called is in one of its tables or logs.                   *)
(***************************************************************************)
BackupComplete ==
  \A t \in Backups : copies[t].done =>
    /\ copies[t].tables \subseteq copies[t].linked
    /\ copies[t].before \subseteq copies[t].tables \cup copies[t].ops

(***************************************************************************)
(* Get looks in mem_, then imm_, then the tables, and stops where it finds  *)
(* the key; what it finds at LastSequence is the newest operation stored.   *)
(***************************************************************************)
Visible(S) == {op \in S : op <= lastSeq}

\* Mutant: imm_ is searched before mem_.
GetImmFirst == IF Visible(InImm) # {} THEN Max(Visible(InImm))
               ELSE IF Visible(In(mems, cur)) # {} THEN Max(Visible(In(mems, cur)))
               ELSE MaxOf(Visible(live), 0)

Get == IF Visible(In(mems, cur)) # {} THEN Max(Visible(In(mems, cur)))
       ELSE IF Visible(InImm) # {} THEN Max(Visible(InImm))
       ELSE MaxOf(Visible(live), 0)

GetReturnsNewest == up => Get = MaxOf(Visible(Stored), 0)
=============================================================================
