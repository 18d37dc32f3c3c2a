------------------------------- MODULE Recovery -------------------------------
(***************************************************************************)
(* The files of a database and how they come back: CURRENT, the MANIFESTs,   *)
(* logs, tables and temporary files; DB::Open with NewDB, VersionSet::Recover *)
(* and RecoverLogFile; LogAndApply with a first and with later records;       *)
(* SetCurrentFile; DeleteObsoleteFiles; and RepairDB.  The machine may stop   *)
(* between any two file operations.  A file keeps what was synced and may     *)
(* lose the rest; creating, renaming and deleting a file is not undone.       *)
(*                                                                         *)
(* An operation is its sequence number.  The levels of tables are left to     *)
(* module Levels, concurrent writers and failing writes to WritePath.         *)
(***************************************************************************)
EXTENDS Integers, FiniteSets, Sequences, SequencesExt, TLC

CONSTANTS
  MaxStarts,       \* how often the database is opened or repaired
  MaxOps,          \* how many operations are written
  MaxJobs,         \* how many flushes and compactions are begun
  Repairs          \* TRUE iff RepairDB may be called

VARIABLES
  dir,      \* what is in the directory
  db,       \* the process
  starts, written, jobs,  \* counters for the bounds
  acked,    \* operations whose synced Write has returned
  trust     \* "new": no Open has succeeded since the directory was made or repaired;
            \* "sound"; "repairing"; "misnamed": RenameFile returned OK and CURRENT
            \* still names the MANIFEST before; "torn": opened in the middle of a
            \* repair, over a missing CURRENT or through a misnamed one

recVars == <<dir, db, starts, written, jobs, acked, trust>>

None == -1

\* A log or MANIFEST: its records, and how many of them are synced.
File(recs, synced) == [recs |-> recs, synced |-> synced]
Unsynced(recs) == File(recs, 0)
Appended(f, r) == [f EXCEPT !.recs = Append(@, r)]
Synced(f) == [f EXCEPT !.synced = Len(f.recs)]

Put(files, n, f) == (n :> f) @@ files
Without(files, ns) == [n \in DOMAIN files \ ns |-> files[n]]

\* VersionEdit: None for a field that is not set.
NoEdit == [log |-> None, next |-> None, last |-> None, add |-> {}, del |-> {}]

-----------------------------------------------------------------------------
(* VersionSet::Recover of a MANIFEST. *)

\* A number of the MANIFEST is that of the last edit that sets it.
Field(recs, field) ==
  LET set == {i \in DOMAIN recs : recs[i][field] # None}
  IN  IF set = {} THEN None ELSE recs[Max(set)][field]

\* VersionSet::Builder: the edits in order.
LiveOf(recs) ==
  LET live[i \in 0 .. Len(recs)] ==
        IF i = 0 THEN {} ELSE LET r == live[i - 1] IN (r \ recs[i].del) \cup recs[i].add
  IN  live[Len(recs)]

Manifest(d) == d.manifests[d.current].recs

\* CURRENT names a MANIFEST that sets all numbers, and its tables are there.
Loads(d) ==
  /\ d.current \in DOMAIN d.manifests
  /\ Field(Manifest(d), "next") # None
  /\ Field(Manifest(d), "log") # None
  /\ Field(Manifest(d), "last") # None
  /\ LiveOf(Manifest(d)) \subseteq DOMAIN d.tables

LogsOf(d) == {n \in DOMAIN d.logs : n >= Field(Manifest(d), "log")}
OpsIn(d, tables, logs) ==
  UNION {d.tables[n] : n \in tables} \cup UNION {Range(d.logs[n].recs) : n \in logs}

-----------------------------------------------------------------------------
(* The process: pc; vs are the numbers of the VersionSet and its live tables; *)
(* edit is the edit being made; then is where SetCurrentFile returns to.      *)

NoVersions == [log |-> 0, next |-> 0, manifest |-> 0, last |-> 0, live |-> {}]
Down == [pc |-> "down", vs |-> NoVersions, edit |-> NoEdit, todo |-> <<>>, chunk |-> <<>>,
         then |-> "down", log |-> 0, mem |-> {}, imm |-> {}, hasImm |-> FALSE, pending |-> {},
         flushing |-> FALSE, serving |-> FALSE]

Goto(p) == [db EXCEPT !.pc = p]
Keep == UNCHANGED <<starts, written, jobs, acked, trust>>

\* A directory that is torn stays so.
Unless(t) == IF trust = "torn" THEN trust ELSE t

RecInit ==
  /\ dir = [current |-> None, tmp |-> {}, manifests |-> <<>>, logs |-> <<>>, tables |-> <<>>]
  /\ db = Down
  /\ starts = 0 /\ written = 0 /\ jobs = 0
  /\ acked = {}
  /\ trust = "new"

\* DB::Open with create_if_missing: DBImpl::Recover looks for CURRENT, and without
\* one takes the directory for a new database.
OpenCall ==
  /\ db.pc = "down" /\ starts < MaxStarts
  /\ starts' = starts + 1
  /\ db' = Goto(IF dir.current = None THEN "newdb" ELSE "recover")
  /\ trust' = IF trust = "repairing" \/ (dir.current = None /\ acked # {}) THEN "torn"
              ELSE IF dir.current = None THEN Unless("new") ELSE trust
  /\ UNCHANGED <<dir, written, jobs, acked>>

\* NewDB writes MANIFEST-000001 and closes it, without a Sync.
NewDB ==
  /\ db.pc = "newdb"
  /\ dir' = [dir EXCEPT !.manifests =
                Put(@, 1, Unsynced(<<[NoEdit EXCEPT !.log = 0, !.next = 2, !.last = 0]>>))]
  /\ db' = [db EXCEPT !.pc = "tmp", !.vs.manifest = 1, !.then = "recover"]
  /\ Keep

\* SetCurrentFile: the temporary file is written and synced, then renamed.
WriteTemp ==
  /\ db.pc = "tmp"
  /\ dir' = [dir EXCEPT !.tmp = @ \cup {db.vs.manifest}]
  /\ db' = Goto("rename")
  /\ Keep

RenameReturns == db' = IF db.then = "down" THEN Down ELSE Goto(db.then)

\* RenameFile of env_boost.cc.  MoveFileW does not replace a file that is there:
\* CURRENT is deleted and the file moved by a second call, and the machine may stop
\* in between (that DeleteFileW or the second MoveFileW fails is OpenFails).  If the
\* first MoveFileW fails for another reason nothing is done and OK is returned.
RenameFile ==
  /\ \/ /\ db.pc = "rename" /\ dir.current # None
        /\ dir' = [dir EXCEPT !.current = None]
        /\ db' = Goto("move") /\ UNCHANGED trust
     \/ /\ db.pc \in {"rename", "move"} /\ dir.current = None
        /\ dir' = [dir EXCEPT !.current = db.vs.manifest, !.tmp = @ \ {db.vs.manifest}]
        /\ RenameReturns
        /\ trust' = IF db.then = "down" THEN Unless("new") ELSE trust
     \/ /\ db.pc = "rename" /\ UNCHANGED dir
        /\ RenameReturns
        /\ trust' = IF db.then = "install" THEN Unless("misnamed") ELSE trust
  /\ UNCHANGED <<starts, written, jobs, acked>>

\* VersionSet::Recover, and the check of DBImpl::Recover for missing tables.
Recover ==
  /\ db.pc = "recover"
  /\ UNCHANGED dir
  /\ IF ~Loads(dir) THEN db' = Down
     ELSE LET recs == Manifest(dir)
              next == Field(recs, "next")
          IN  db' = [Down EXCEPT
                !.pc = "replay",
                !.vs = [log |-> Field(recs, "log"), next |-> next + 1, manifest |-> next,
                        last |-> Field(recs, "last"), live |-> LiveOf(recs)],
                !.todo = SetToSortSeq(LogsOf(dir), <)]
  /\ trust' = IF Loads(dir) /\ trust = "misnamed" THEN "torn" ELSE trust
  /\ UNCHANGED <<starts, written, jobs, acked>>

MarkFileNumberUsed(vs, n) == IF vs.next <= n THEN [vs EXCEPT !.next = n + 1] ELSE vs
NewFileNumber(vs) == [vs EXCEPT !.next = @ + 1]
\* Mutant: the sequence numbers in the log are not looked at.
LogUnseen(vs, ops) == vs.last

MaxSeen(vs, ops) == IF ops = {} THEN vs.last ELSE Max(ops \cup {vs.last})

\* RecoverLogFile: the memtable becomes a table when it is full, and at the end
\* of the log.  chunk is what is read of the log so far.
ReplayChunk ==
  /\ db.pc = "replay" /\ db.todo # <<>>
  /\ LET log == Head(db.todo)
         recs == dir.logs[log].recs
         from == Len(db.chunk)
     IN  \E upto \in from .. Len(recs) :
           LET ops == {recs[i] : i \in from + 1 .. upto}
               n == db.vs.next
               vs == IF ops = {} THEN db.vs ELSE NewFileNumber(db.vs)
               seen == [vs EXCEPT !.last = MaxSeen(vs, ops)]
               done == upto = Len(recs)
           IN  /\ ops = {} => done
               /\ dir' = IF ops = {} THEN dir ELSE [dir EXCEPT !.tables = Put(@, n, ops)]
               /\ db' = [db EXCEPT
                    !.vs = IF done THEN MarkFileNumberUsed(seen, log) ELSE seen,
                    !.edit.add = IF ops = {} THEN @ ELSE @ \cup {n},
                    !.chunk = IF done THEN <<>> ELSE SubSeq(recs, 1, upto),
                    !.todo = IF done THEN Tail(@) ELSE @]
  /\ Keep

\* DB::Open: a new log, and the edit of LogAndApply.
OpenLog ==
  /\ db.pc = "replay" /\ db.todo = <<>>
  /\ LET n == db.vs.next
         vs == NewFileNumber(db.vs)
     IN  /\ dir' = [dir EXCEPT !.logs = Put(@, n, Unsynced(<<>>))]
         /\ db' = [db EXCEPT !.pc = "snapshot", !.vs = vs, !.log = n,
                             !.edit = [@ EXCEPT !.log = n, !.next = vs.next, !.last = vs.last]]
  /\ Keep

\* Mutant: the snapshot of the tables is left out.
SnapshotEmpty(vs) == NoEdit

Snapshot(vs) == [NoEdit EXCEPT !.add = vs.live]

\* LogAndApply when there is no descriptor_log_: a new MANIFEST begins with
\* WriteSnapshot.
WriteSnapshot ==
  /\ db.pc = "snapshot"
  /\ dir' = [dir EXCEPT !.manifests = Put(@, db.vs.manifest, Unsynced(<<Snapshot(db.vs)>>))]
  /\ db' = [db EXCEPT !.pc = "record", !.then = "install"]
  /\ Keep

\* AddRecord of the edit.
WriteRecord ==
  /\ db.pc = "record"
  /\ dir' = [dir EXCEPT !.manifests[db.vs.manifest] = Appended(@, db.edit)]
  /\ db' = Goto("sync")
  /\ Keep

\* The Sync; a new MANIFEST is then made current.
SyncManifest ==
  /\ db.pc = "sync"
  /\ dir' = [dir EXCEPT !.manifests[db.vs.manifest] = Synced(@)]
  /\ db' = Goto(IF db.serving THEN "install" ELSE "tmp")
  /\ Keep

\* Opening fails in LogAndApply or SetCurrentFile: the new files are deleted.
OpenFails ==
  /\ db.pc \in {"record", "sync", "tmp", "rename", "move"} /\ db.then = "install"
  /\ ~db.serving
  /\ dir' = [dir EXCEPT !.manifests = Without(@, {db.vs.manifest}), !.tmp = @ \ {db.vs.manifest}]
  /\ db' = Down
  /\ Keep

\* AppendVersion; the caller of LogAndApply goes on to delete obsolete files.
Install ==
  /\ db.pc = "install"
  /\ db' = [db EXCEPT !.pc = "sweep", !.edit = NoEdit, !.pending = {},
                      !.vs.live = (@ \ db.edit.del) \cup db.edit.add,
                      !.vs.log = db.edit.log,
                      !.imm = IF db.flushing THEN {} ELSE @,
                      !.hasImm = @ /\ ~db.flushing, !.flushing = FALSE]
  /\ UNCHANGED <<dir, starts, written, jobs, acked, trust>>

\* What DeleteObsoleteFiles does not keep.
ObsoleteFiles(log, live) ==
  [logs |-> {n \in DOMAIN dir.logs : n < log},
   manifests |-> {n \in DOMAIN dir.manifests : n < db.vs.manifest},
   tables |-> DOMAIN dir.tables \ live, tmp |-> dir.tmp \ live]

Obsolete == ObsoleteFiles(db.vs.log, db.vs.live \cup db.pending)

\* DeleteObsoleteFiles, in the order of the directory: MANIFESTs last or first.
Sweep ==
  /\ db.pc = "sweep"
  /\ LET o == Obsolete
         names == {"logs", "manifests", "tables", "tmp"}
     IN  IF \A f \in names : o[f] = {}
         THEN /\ db' = [db EXCEPT !.pc = "open", !.serving = TRUE]
              /\ trust' = IF trust = "misnamed" THEN trust ELSE Unless("sound")
              /\ UNCHANGED <<dir, starts, written, jobs, acked>>
         ELSE /\ \E f \in names : o[f] # {} /\
                   dir' = [dir EXCEPT ![f] = IF f = "tmp" THEN @ \ o[f] ELSE Without(@, o[f])]
              /\ UNCHANGED db /\ Keep

-----------------------------------------------------------------------------
(* The open database.  LogAndApply of a flush or a compaction works without   *)
(* mutex_, so writers go on meanwhile; DeleteObsoleteFiles keeps it.          *)

Serving == db.serving /\ db.pc # "sweep"

\* Write: a record of the log, and the memtable.
AddOp ==
  /\ Serving /\ written < MaxOps
  /\ LET op == db.vs.last + 1
     IN  /\ dir' = [dir EXCEPT !.logs[db.log] = Appended(@, op)]
         /\ db' = [db EXCEPT !.vs.last = op, !.mem = @ \cup {op}]
  /\ written' = written + 1
  /\ UNCHANGED <<starts, jobs, acked, trust>>

\* A Write with options.sync.
SyncOp ==
  /\ Serving /\ dir.logs[db.log].synced < Len(dir.logs[db.log].recs)
  /\ dir' = [dir EXCEPT !.logs[db.log] = Synced(@)]
  /\ acked' = acked \cup Range(dir.logs[db.log].recs)
  /\ UNCHANGED <<db, starts, written, jobs, trust>>

\* SequenceWriteBegin switches to a new log and memtable.
SwitchLog ==
  /\ Serving /\ ~db.hasImm /\ db.mem # {} /\ jobs < MaxJobs
  /\ LET n == db.vs.next
     IN  /\ dir' = [dir EXCEPT !.logs = Put(@, n, Unsynced(<<>>))]
         /\ db' = [db EXCEPT !.vs = NewFileNumber(@), !.log = n, !.imm = db.mem, !.mem = {},
                             !.hasImm = TRUE]
  /\ UNCHANGED <<starts, written, jobs, acked, trust>>

\* A flush or a compaction has built its table, synced, and begins LogAndApply.
BeginJob(ops, edit, flushing) ==
  /\ db.pc = "open" /\ jobs < MaxJobs /\ jobs' = jobs + 1
  /\ LET n == db.vs.next
         vs == NewFileNumber(db.vs)
     IN  /\ dir' = [dir EXCEPT !.tables = Put(@, n, ops)]
         /\ db' = [db EXCEPT !.pc = "record", !.vs = vs, !.pending = {n}, !.flushing = flushing,
                             !.edit = [edit EXCEPT !.add = {n}, !.next = vs.next, !.last = vs.last]]
  /\ UNCHANGED <<starts, written, acked, trust>>

FlushMem == db.hasImm /\ BeginJob(db.imm, [NoEdit EXCEPT !.log = db.log], TRUE)

CompactTables ==
  \E a, b \in db.vs.live :
    a < b /\ BeginJob(dir.tables[a] \cup dir.tables[b],
                      [NoEdit EXCEPT !.log = db.vs.log, !.del = {a, b}], FALSE)

-----------------------------------------------------------------------------
\* The machine stops: each file keeps its tail or loses what is not synced.
Stop ==
  /\ db.pc # "down"
  /\ \E lose \in SUBSET {"logs", "manifests"} :
       LET settled(f, gone) == IF gone THEN File(SubSeq(f.recs, 1, f.synced), f.synced) ELSE Synced(f)
           after(name) == [n \in DOMAIN dir[name] |-> settled(dir[name][n], name \in lose)]
       IN  dir' = [dir EXCEPT !.logs = after("logs"), !.manifests = after("manifests")]
  /\ db' = Down
  /\ Keep

-----------------------------------------------------------------------------
(* RepairDB. *)

\* FindFiles: the next file number is past every file but the MANIFESTs.
RepairCall ==
  /\ Repairs /\ db.pc = "down" /\ starts < MaxStarts
  /\ starts' = starts + 1
  /\ trust' = Unless("repairing")
  /\ db' = [Down EXCEPT
        !.pc = "convert",
        !.vs.next = Max({0} \cup dir.tmp \cup DOMAIN dir.logs \cup DOMAIN dir.tables) + 1,
        !.todo = SetToSeq(DOMAIN dir.logs)]
  /\ UNCHANGED <<dir, written, jobs, acked>>

\* ConvertLogToTable.
ConvertLog ==
  /\ db.pc = "convert" /\ db.todo # <<>>
  /\ LET ops == Range(dir.logs[Head(db.todo)].recs)
     IN  dir' = IF ops = {} THEN dir ELSE [dir EXCEPT !.tables = Put(@, db.vs.next, ops)]
  /\ db' = [db EXCEPT !.pc = "archive", !.vs = NewFileNumber(@)]
  /\ Keep

Archived == {Head(db.todo)}

\* ArchiveFile of the log.
ArchiveLog ==
  /\ db.pc = "archive"
  /\ dir' = [dir EXCEPT !.logs = Without(@, Archived)]
  /\ db' = [db EXCEPT !.pc = "convert",
                      !.todo = SelectSeq(@, LAMBDA n : n \notin Archived)]
  /\ Keep

\* The largest sequence number of a table.
ScanTable(n) == Max({0} \cup OpsIn(dir, {n}, {}))

\* ExtractMetaData scans every table; WriteDescriptor writes a temporary file,
\* archives the MANIFESTs and renames it to MANIFEST-000001.
WriteDescriptor ==
  /\ db.pc = "convert" /\ db.todo = <<>>
  /\ LET all == DOMAIN dir.tables
     IN  db' = [db EXCEPT
           !.pc = "descriptor", !.vs.manifest = 1, !.then = "down",
           !.edit = [NoEdit EXCEPT !.log = 0, !.next = db.vs.next, !.add = all,
                                   !.last = Max({0} \cup {ScanTable(n) : n \in all})]]
  /\ dir' = [dir EXCEPT !.tmp = @ \cup {1}]
  /\ Keep

ArchiveManifests ==
  /\ db.pc = "descriptor"
  /\ dir' = [dir EXCEPT !.manifests = <<>>]
  /\ db' = Goto("descriptor2")
  /\ Keep

InstallDescriptor ==
  /\ db.pc = "descriptor2"
  /\ dir' = [dir EXCEPT !.manifests = Put(<<>>, 1, Unsynced(<<db.edit>>)),
                           !.tmp = @ \ {1}]
  /\ db' = Goto("tmp")
  /\ Keep

-----------------------------------------------------------------------------

RecNext ==
  \/ OpenCall \/ NewDB \/ WriteTemp \/ RenameFile \/ Recover
  \/ ReplayChunk \/ OpenLog \/ WriteSnapshot \/ WriteRecord \/ SyncManifest
  \/ OpenFails \/ Install \/ Sweep
  \/ AddOp \/ SyncOp \/ SwitchLog \/ FlushMem \/ CompactTables
  \/ Stop
  \/ RepairCall \/ ConvertLog \/ ArchiveLog \/ WriteDescriptor \/ ArchiveManifests
  \/ InstallDescriptor

RecSpec == RecInit /\ [][RecNext]_recVars

-----------------------------------------------------------------------------
(* Properties. *)

\* Opening the directory through a MANIFEST gives every synced write: each is in a
\* table of this MANIFEST or in a log recovery replays.
Reopens(manifest) ==
  LET d == [dir EXCEPT !.current = manifest]
  IN  Loads(d) /\ acked \subseteq OpsIn(d, LiveOf(Manifest(d)), LogsOf(d))

\* Once an Open has succeeded, the directory can be opened wherever the machine
\* stops from then on, the next Open included, and no synced write is missing.
\* RenameFile does not keep this.
AlwaysReopens == trust \in {"sound", "misnamed"} => Reopens(dir.current)

\* What the code keeps: once an Open has succeeded CURRENT names a MANIFEST that gives
\* back every synced write, or is missing, because RenameFile stopped or failed after it
\* deleted it, and then such a MANIFEST is still in the directory.  Neither this nor a
\* rename that was not done nor a repair, even one that stops half way, costs a synced
\* write before the directory is opened again: each is still in a table or a log, where
\* RepairDB finds it.
AckedRecoverable ==
  /\ trust = "sound" =>
       \E m \in IF dir.current = None THEN DOMAIN dir.manifests ELSE {dir.current} : Reopens(m)
  /\ trust # "torn" => acked \subseteq OpsIn(dir, DOMAIN dir.tables, DOMAIN dir.logs)

\* An open database numbers its next write above everything it has recovered.
SequenceFresh ==
  db.serving => \A op \in OpsIn(dir, db.vs.live, DOMAIN dir.logs) : op <= db.vs.last
=============================================================================
