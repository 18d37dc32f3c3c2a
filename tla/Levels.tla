-------------------------------- MODULE Levels --------------------------------
(***************************************************************************)
(* The levels of table files and the two background threads that change    *)
(* them: CompactMemTableThread writes the immutable memtable to a table and *)
(* places it at a level, CompactLevelThread merges files of a level into the *)
(* next one.  Both work without mutex_ from a version they read earlier and  *)
(* install their edit later.  Snapshots and a reader hold on to the past.    *)
(*                                                                         *)
(* An internal key is <<user key, sequence>>; op remembers what was written. *)
(* A file is the set of its internal keys.  Sizes are left out: what depends *)
(* on them (scores, where an output file ends) is any choice.                *)
(***************************************************************************)
EXTENDS Integers, FiniteSets, Sequences, SequencesExt

CONSTANTS
  Keys,         \* user keys: integers, in the order of the comparator
  NumLevels,    \* config::kNumLevels
  L0Trigger,    \* config::kL0_CompactionTrigger
  MaxMemLevel,  \* config::kMaxMemCompactLevel
  L0Inputs,     \* how many level-0 files one compaction takes at most
  Checked,      \* NDEBUG is not defined
  Bounds        \* what a behaviour may do, one record per kind of behaviour:
                \*   writes: what the first, the second ... write may be,
                \*   files, faults, snapshots, reads: at most so many,
                \*   manual: the levels TEST_CompactRange is called for,
                \*   replay: Options::manual_garbage_collection

ASSUME LevelsAssumption ==
  /\ Keys \subseteq Nat \ {0}
  /\ NumLevels \in Nat /\ MaxMemLevel \in Nat /\ NumLevels > MaxMemLevel + 1
  /\ L0Trigger > 0 /\ L0Inputs > 0
  /\ \A b \in Bounds : b.manual \subseteq 0 .. (NumLevels - 2)

VARIABLES
  bound,     \* the member of Bounds this behaviour keeps to
  op,        \* history: the operation of each sequence number
  mem, imm,  \* mem_ and imm_ as sets of internal keys
  hasImm,    \* imm_ != NULL
  data,      \* FileMetaData: the contents of each file that was built
  disk,      \* numbers of the table files in the directory
  nextFile,  \* next_file_number_
  current,   \* versions_->current()
  pending,   \* pending_outputs_
  locked,    \* levels_locked_
  logger,    \* who set bg_log_occupied_
  flush,     \* CompactMemTableThread
  comp,      \* CompactLevelThread
  range,     \* a call of TEST_CompactRange
  snapshots, \* SnapshotList, oldest first
  cutoff,    \* manual_garbage_cutoff_
  toCompact, \* file_to_compact_ of the current version
  reader,    \* a Get that has left mutex_
  reads,     \* how many reads have started
  bgError,   \* ~bg_error_.ok()
  faults,    \* I/O errors so far
  halted     \* "no", or why the process ended

store == <<bound, op, mem, imm, hasImm, data, disk, nextFile, pending>>
background == <<current, locked, logger, flush, comp, range, toCompact>>
others == <<snapshots, cutoff, reader, reads, bgError, faults, halted>>
levelVars == <<store, background, others>>

Levels == 0 .. (NumLevels - 1)
LastSequence == Len(op)
Infinite == Len(bound.writes) + 1   \* kMaxSequenceNumber
NoFile == <<0, 0>>

\* InternalKeyComparator: user keys ascending, sequence numbers descending.
Before(a, b) == a[1] < b[1] \/ (a[1] = b[1] /\ a[2] > b[2])

Smallest(f) == CHOOSE e \in data[f] : \A x \in data[f] : x = e \/ Before(e, x)
Largest(f) == CHOOSE e \in data[f] : \A x \in data[f] : x = e \/ Before(x, e)

\* BySmallestKey, with the file number to break ties.
Sorted(files) ==
  SetToSortSeq(files, LAMBDA f, g : \/ Before(Smallest(f), Smallest(g))
                                    \/ Smallest(f) = Smallest(g) /\ f < g)

FilesOf(v) == UNION {v[l] : l \in Levels}

Overlaps(f, lo, hi) == Largest(f)[1] >= lo /\ Smallest(f)[1] <= hi

\* SomeFileOverlapsRange.
OverlapInLevel(v, l, lo, hi) == \E f \in v[l] : Overlaps(f, lo, hi)

\* Level-0 files may overlap each other, so the range grows with what it finds.
GetOverlappingInputs(v, l, lo, hi) ==
  LET grown[n \in 0 .. Cardinality(v[l])] ==
        IF n = 0 \/ l > 0 THEN <<lo, hi>>
        ELSE LET r == grown[n - 1]
                 found == {f \in v[l] : Overlaps(f, r[1], r[2])}
             IN  <<Min({r[1]} \cup {Smallest(f)[1] : f \in found}),
                   Max({r[2]} \cup {Largest(f)[1] : f \in found})>>
      whole == grown[Cardinality(v[l])]
  IN  {f \in v[l] : Overlaps(f, whole[1], whole[2])}

\* The level a flushed memtable goes to, as far as the version shows.
PickLevelForMemTableOutput(v, lo, hi) ==
  IF OverlapInLevel(v, 0, lo, hi) THEN 0
  ELSE Max({m \in 0 .. MaxMemLevel : \A l \in 1 .. m : ~OverlapInLevel(v, l, lo, hi)})

-----------------------------------------------------------------------------
(* Reading. *)

\* The entry a lookup of (k, s) finds in a memtable or in one table.
Newest(entries, k, s) ==
  Max({0} \cup {e[2] : e \in {x \in entries : x[1] = k /\ x[2] <= s}})

\* Binary search for the first file whose largest key is not before the target.
FindFile(files, target) ==
  LET search[left \in 0 .. Len(files), right \in 0 .. Len(files)] ==
        IF left >= right THEN right
        ELSE LET mid == (left + right) \div 2
             IN  IF Before(Largest(files[mid + 1]), target)
                   THEN search[mid + 1, right] ELSE search[left, mid]
  IN  search[0, Len(files)] + 1

\* The files Version::Get looks into, in its order, with their levels.
Candidates(v, k, s) ==
  LET young == SetToSortSeq({f \in v[0] : Overlaps(f, k, k)}, LAMBDA f, g : f > g)
      at(l) == LET files == Sorted(v[l])
                   i == FindFile(files, <<k, s>>)
               IN  IF i > Len(files) \/ Smallest(files[i])[1] > k THEN <<>> ELSE <<<<l, files[i]>>>>
  IN  [i \in DOMAIN young |-> <<0, young[i]>>] \o FlattenSeq([l \in 1 .. (NumLevels - 1) |-> at(l)])

\* The position of the file that ends the search, or one past the last.
StopsAt(cands, k, s) ==
  Min({Len(cands) + 1} \cup {i \in DOMAIN cands : Newest(data[cands[i][2]], k, s) > 0})

VersionGet(v, k, s) ==
  LET cands == Candidates(v, k, s)
      i == StopsAt(cands, k, s)
  IN  IF i > Len(cands) THEN 0 ELSE Newest(data[cands[i][2]], k, s)

\* DBImpl::Get: the memtable, the immutable memtable, the version.
Get(m, i, v, k, s) ==
  IF Newest(m, k, s) > 0 THEN Newest(m, k, s)
  ELSE IF Newest(i, k, s) > 0 THEN Newest(i, k, s)
  ELSE VersionGet(v, k, s)

\* The files of a version with their levels.
Placed(v) == UNION {{<<l, f>> : f \in v[l]} : l \in Levels}

\* stats.seek_file: the first file, when the search went on to another.
SeekFile(v, k, s) ==
  LET cands == Candidates(v, k, s)
  IN  {c \in Placed(v) : Len(cands) > 1 /\ StopsAt(cands, k, s) > 1 /\ c = cands[1]}

-----------------------------------------------------------------------------
(* Versions, edits, obsolete files. *)

\* Builder: Apply of an edit and SaveTo.
Edited(v, del, add) == [l \in Levels |-> (v[l] \ del[l]) \cup add[l]]

\* The check SaveTo makes of levels above 0 unless NDEBUG is defined.
Disjoint(v) ==
  \A l \in Levels \ {0} : \A f, g \in v[l] :
    f = g \/ Before(Largest(f), Smallest(g)) \/ Before(Largest(g), Smallest(f))

AtLevel(l, files) == [i \in Levels |-> IF i = l THEN files ELSE {}]

EmptyVersion == AtLevel(0, {})

Running == halted = "no"

Idle == [pc |-> "idle"]

\* Version objects that something refers to.
Versions(cur, fl, co, rd) ==
  {cur} \cup {x.ver : x \in {y \in {fl, co, rd} : y.pc # "idle"}}

\* Mutant: outputs that are not in a version yet are forgotten.
LiveFilesNoPending(versions, pend) == UNION {FilesOf(v) : v \in versions}

LiveFiles(versions, pend) == pend \cup UNION {FilesOf(v) : v \in versions}

\* DeleteObsoleteFiles with the values the variables have by then.
Swept(files, err, versions, pend) == IF err THEN files ELSE files \cap LiveFiles(versions, pend)

LevelsInit ==
  /\ bound \in Bounds
  /\ op = <<>>
  /\ mem = {} /\ imm = {} /\ hasImm = FALSE
  /\ data = <<>> /\ disk = {} /\ nextFile = 1 /\ pending = {}
  /\ current = EmptyVersion
  /\ locked = {}
  /\ logger = "none"
  /\ flush = Idle /\ comp = Idle
  /\ range = [active |-> FALSE, armed |-> FALSE]
  /\ toCompact = NoFile
  /\ snapshots = <<>>
  /\ cutoff = IF bound.replay THEN 0 ELSE Infinite
  /\ reader = Idle /\ reads = 0
  /\ bgError = FALSE /\ faults = 0
  /\ halted = "no"

-----------------------------------------------------------------------------
(* Writers and the switch to a new memtable (MakeRoomForWrite). *)

Write ==
  /\ Running
  /\ LastSequence < Len(bound.writes)
  /\ \E w \in bound.writes[LastSequence + 1] :
       /\ op' = Append(op, w)
       /\ mem' = mem \cup {<<w.key, LastSequence + 1>>}
  /\ UNCHANGED <<bound, imm, hasImm, data, disk, nextFile, pending, background, others>>

SwitchMem ==
  /\ Running
  /\ ~hasImm /\ ~bgError
  /\ mem # {}
  /\ imm' = mem /\ hasImm' = TRUE /\ mem' = {}
  /\ UNCHANGED <<bound, op, data, disk, nextFile, pending, background, others>>

-----------------------------------------------------------------------------
(* LogAndApply: one caller at a time writes the MANIFEST without mutex_; the *)
(* new version is built from the current one before, installed after.        *)

LogBegins(who, v) ==
  /\ logger = "none"
  /\ logger' = who
  /\ halted' = IF Checked /\ ~Disjoint(v) THEN "overlap" ELSE halted

\* AppendVersion; the seek statistics start anew.
LogEnds(v) ==
  /\ logger' = "none"
  /\ current' = v
  /\ toCompact' = NoFile

MayFail == faults < bound.faults

-----------------------------------------------------------------------------
(* CompactMemTableThread and WriteLevel0Table. *)

FlushedVersion(f) == Edited(current, EmptyVersion, AtLevel(f.level, {f.num}))

FlushStart ==
  /\ Running
  /\ flush.pc = "idle" /\ hasImm
  /\ nextFile <= bound.files
  /\ nextFile' = nextFile + 1
  /\ pending' = pending \cup {nextFile}
  /\ data' = Append(data, imm)
  /\ disk' = disk \cup {nextFile}
  /\ flush' = [pc |-> "build", ver |-> current, num |-> nextFile, level |-> 0]
  /\ UNCHANGED <<bound, op, mem, imm, hasImm, current, locked, logger, comp, range, toCompact, others>>

\* The level is lowered while it is locked.
Unlocked(l) == Max({i \in 0 .. l : i = 0 \/ i \notin locked})

\* The table is built.  The level comes from the version the flush started
\* with; the thread may then have to wait for the MANIFEST.
FlushBuilt ==
  /\ Running
  /\ flush.pc = "build"
  /\ LET lvl == Unlocked(PickLevelForMemTableOutput(
                   flush.ver, Smallest(flush.num)[1], Largest(flush.num)[1]))
         f == [flush EXCEPT !.level = lvl, !.ver = EmptyVersion]
     IN  IF logger = "none"
           THEN /\ LogBegins("flush", FlushedVersion(f))
                /\ flush' = [f EXCEPT !.pc = "log"]
           ELSE /\ flush' = [f EXCEPT !.pc = "wait"]
                /\ UNCHANGED <<logger, halted>>
  /\ UNCHANGED <<store, current, locked, comp, range, toCompact>>
  /\ UNCHANGED <<snapshots, cutoff, reader, reads, bgError, faults>>

FlushWakes ==
  /\ Running
  /\ flush.pc = "wait"
  /\ LogBegins("flush", FlushedVersion(flush))
  /\ flush' = [flush EXCEPT !.pc = "log"]
  /\ UNCHANGED <<store, current, locked, comp, range, toCompact>>
  /\ UNCHANGED <<snapshots, cutoff, reader, reads, bgError, faults>>

FlushInstalls ==
  /\ Running
  /\ flush.pc = "log"
  /\ LET v == FlushedVersion(flush)
         pend == pending \ {flush.num}
     IN  /\ LogEnds(v)
         /\ pending' = pend
         /\ disk' = Swept(disk, bgError, Versions(v, Idle, comp, reader), pend)
  /\ imm' = {} /\ hasImm' = FALSE
  /\ flush' = Idle
  /\ UNCHANGED <<bound, op, mem, data, nextFile, locked, comp, range, others>>

\* BuildTable removes the file it could not finish; a failed MANIFEST write
\* leaves it.  The thread starts over with the same memtable.
FlushFails ==
  /\ Running
  /\ flush.pc \in {"build", "log"}
  /\ MayFail
  /\ faults' = faults + 1 /\ bgError' = TRUE
  /\ pending' = pending \ {flush.num}
  /\ disk' = IF flush.pc = "build" THEN disk \ {flush.num} ELSE disk
  /\ logger' = IF flush.pc = "log" THEN "none" ELSE logger
  /\ flush' = Idle
  /\ UNCHANGED <<bound, op, mem, imm, hasImm, data, nextFile, current, locked, comp, range, toCompact>>
  /\ UNCHANGED <<snapshots, cutoff, reader, reads, halted>>

-----------------------------------------------------------------------------
(* TEST_CompactRange, called by CompactRange for each level. *)

RangeCall ==
  /\ Running
  /\ ~range.active
  /\ \E l \in bound.manual, lo \in Keys :
       range' = [active |-> TRUE, armed |-> FALSE, done |-> FALSE, level |-> l,
                 lo |-> lo, hi |-> Max(Keys),
                 before |-> {f \in current[l] : Overlaps(f, lo, Max(Keys))}]  \* history
  /\ UNCHANGED <<store, current, locked, logger, flush, comp, toCompact, others>>

RangeArms ==
  /\ Running
  /\ range.active /\ ~range.armed /\ ~range.done /\ ~bgError
  /\ range' = [range EXCEPT !.armed = TRUE]
  /\ UNCHANGED <<store, current, locked, logger, flush, comp, toCompact, others>>

\* The caller leaves; a request that is not done is cancelled.
RangeReturns ==
  /\ Running
  /\ range.active
  /\ range.done \/ bgError
  /\ range' = [active |-> FALSE, armed |-> FALSE]
  /\ UNCHANGED <<store, current, locked, logger, flush, comp, toCompact, others>>

-----------------------------------------------------------------------------
(* CompactLevelThread: choosing the inputs. *)

Entries(files) == UNION {data[f] : f \in files}

UserKeys(files) == {e[1] : e \in Entries(files)}

\* SetupOtherInputs.
OtherInputs(l, in0) ==
  GetOverlappingInputs(current, l + 1, Min(UserKeys(in0)), Max(UserKeys(in0)))

\* Mutant: the last sequence number even when a snapshot is older.
NewestSnapshot == LastSequence

SmallestSnapshot == IF snapshots = <<>> THEN LastSequence ELSE snapshots[1]

Compaction(l, in0, in1, manual) ==
  [pc |-> "work", manual |-> manual, move |-> FALSE, level |-> l, in0 |-> in0, in1 |-> in1,
   ver |-> current, snapshot |-> SmallestSnapshot,
   rest |-> Entries(in0 \cup in1), outs |-> {}]

CompactedVersion(c) ==
  Edited(current, [l \in Levels |-> IF l = c.level THEN c.in0
                                    ELSE IF l = c.level + 1 THEN c.in1 ELSE {}],
         AtLevel(c.level + 1, c.outs))

\* VersionSet::CompactRange, from level 1 on only a first part of the files.
\* No level is locked.
ManualPick ==
  /\ Running
  /\ comp.pc = "idle" /\ range.armed
  /\ LET files == GetOverlappingInputs(current, range.level, range.lo, range.hi)
     IN  \/ /\ files = {}
            /\ range' = [range EXCEPT !.done = TRUE, !.armed = FALSE]
            /\ UNCHANGED comp
         \/ \E f \in files :
              LET in0 == IF range.level = 0 THEN files
                         ELSE {g \in files : g = f \/ Before(Smallest(g), Smallest(f))}
              IN  /\ comp' = Compaction(range.level, in0, OtherInputs(range.level, in0), TRUE)
                  /\ UNCHANGED range
  /\ UNCHANGED <<store, current, locked, logger, flush, toCompact, others>>

\* The files of a level that overlap nothing in the next one.
Movable(l) ==
  {f \in current[l] : ~OverlapInLevel(current, l + 1, Smallest(f)[1], Largest(f)[1])}

\* Files of a level that are neighbours in its order.
Neighbours(l) ==
  {{g \in current[l] : ~Before(Smallest(g), Smallest(a)) /\ ~Before(Smallest(b), Smallest(g))} :
      a, b \in current[l]} \ {{}}

OldestInputs == {{f \in current[0] : Cardinality({g \in current[0] : g < f}) < L0Inputs}}

\* The sets PickCompaction may choose, whatever the sizes: the oldest files of
\* level 0; above, every file that can be moved, or else neighbours, or else
\* the file that reads asked for, which need not be of this level.
LevelInputs(l) ==
  IF l = 0 THEN OldestInputs
  ELSE IF Movable(l) # {} THEN {Movable(l)}
  ELSE Neighbours(l) \cup (IF toCompact = NoFile THEN {} ELSE {{toCompact[2]}})

\* Finalize: the score of level 0 counts its files; that of another level weighs
\* bytes and files against limits the model leaves open.
OverLimit(l) == l > 0 \/ Cardinality(current[0]) >= L0Trigger

\* PickCompactionLevel: a level above its size, level 0 above its number of
\* files, or the level of the file that reads asked for.
NeedsCompaction(l) ==
  /\ current[l] # {}
  /\ OverLimit(l) \/ (toCompact # NoFile /\ toCompact[1] = 0)

\* A trivial move goes to the MANIFEST at once, if nobody else is there.
AutoPick ==
  /\ Running
  /\ comp.pc = "idle" /\ ~range.armed
  /\ \E l \in 0 .. (NumLevels - 2) :
       /\ NeedsCompaction(l)
       /\ \E in0 \in LevelInputs(l) :
            LET in1 == IF l > 0 /\ in0 = Movable(l) THEN {} ELSE OtherInputs(l, in0)
                c == Compaction(l, in0, in1, FALSE)
                m == [c EXCEPT !.move = TRUE, !.rest = {}, !.outs = in0]
            IN  /\ locked' = locked \cup {l, l + 1}
                /\ IF l = 0 \/ in1 # {}
                     THEN comp' = c /\ UNCHANGED <<logger, halted>>
                   ELSE IF logger # "none"
                     THEN comp' = m /\ UNCHANGED <<logger, halted>>
                   ELSE /\ comp' = [m EXCEPT !.pc = "log"]
                        /\ LogBegins("comp", CompactedVersion(m))
  /\ UNCHANGED <<store, current, flush, range, toCompact>>
  /\ UNCHANGED <<snapshots, cutoff, reader, reads, bgError, faults>>

-----------------------------------------------------------------------------
(* CompactLevelThread: DoCompactionWork. *)

IsBaseLevelForKey(c, k) == \A l \in (c.level + 2) .. (NumLevels - 1) : ~OverlapInLevel(c.ver, l, k, k)

\* Mutant: the garbage cutoff is ignored.
DropsIgnoringCutoff(c, e) ==
  LET newer == {x[2] : x \in {y \in Entries(c.in0 \cup c.in1) : y[1] = e[1] /\ y[2] > e[2]}}
  IN  \/ newer # {} /\ Min(newer) <= c.snapshot
      \/ op[e[2]].del /\ e[2] <= c.snapshot /\ IsBaseLevelForKey(c, e[1])

\* Rule (A), obsolete deletions, and the garbage cutoff, read without a lock.
Drops(c, e) ==
  LET newer == {x[2] : x \in {y \in Entries(c.in0 \cup c.in1) : y[1] = e[1] /\ y[2] > e[2]}}
  IN  \/ newer # {} /\ Min(newer) <= c.snapshot
      \/ /\ op[e[2]].del /\ e[2] <= c.snapshot /\ IsBaseLevelForKey(c, e[1])
         /\ ~(newer = {} /\ e[2] >= cutoff)

\* The same entry twice, which TableBuilder::Add asserts not to see.
AddedTwice(c, kept) == {e \in kept \cap Entries(c.in0 \cap c.in1) : e[2] > c.snapshot}

\* The entries up to e go into one output file, or nowhere if all are dropped.  A
\* file may be big enough after any entry, also between two of one user key.
CompactionOutput ==
  /\ Running
  /\ comp.pc = "work" /\ comp.rest # {}
  /\ \E e \in comp.rest :
       LET part == {x \in comp.rest : x = e \/ Before(x, e)}
           left == comp.rest \ part
           kept == {x \in part : ~Drops(comp, x)}
       IN  /\ left = {} \/ e \in kept
           /\ IF kept = {}
                THEN /\ comp' = [comp EXCEPT !.rest = left]
                     /\ UNCHANGED <<data, disk, nextFile, pending, halted>>
                ELSE /\ nextFile <= bound.files
                     /\ nextFile' = nextFile + 1
                     /\ pending' = pending \cup {nextFile}
                     /\ data' = Append(data, kept)
                     /\ disk' = disk \cup {nextFile}
                     /\ comp' = [comp EXCEPT !.rest = left, !.outs = @ \cup {nextFile}]
                     /\ halted' = IF Checked /\ AddedTwice(comp, kept) # {} THEN "twice" ELSE halted
  /\ UNCHANGED <<bound, op, mem, imm, hasImm, current, locked, logger, flush, range, toCompact>>
  /\ UNCHANGED <<snapshots, cutoff, reader, reads, bgError, faults>>

\* InstallCompactionResults, once the MANIFEST is free.
CompactionLogs ==
  /\ Running
  /\ comp.pc = "work" /\ comp.rest = {}
  /\ LogBegins("comp", CompactedVersion(comp))
  /\ comp' = [comp EXCEPT !.pc = "log"]
  /\ UNCHANGED <<store, current, locked, flush, range, toCompact>>
  /\ UNCHANGED <<snapshots, cutoff, reader, reads, bgError, faults>>

\* Mutant: a request that got part of its range done counts as done.
RangeLeftDone(c, failed) == [range EXCEPT !.armed = FALSE, !.done = TRUE]

\* What is left of a manual request: from the last input file on.
RangeLeft(c, failed) ==
  IF failed THEN [range EXCEPT !.armed = FALSE, !.done = TRUE]
  ELSE [range EXCEPT !.armed = FALSE, !.lo = Largest(Last(Sorted(c.in0)))[1]]

\* The end of BackgroundCompaction.  A manual request that its caller has
\* cancelled meanwhile is a null pointer here.
CompactionEnds(v, failed) ==
  LET pend == pending \ comp.outs
      err == bgError \/ failed
  IN  /\ pending' = pend
      /\ disk' = IF comp.move THEN disk ELSE Swept(disk, err, Versions(v, flush, Idle, reader), pend)
      /\ locked' = locked \ {comp.level, comp.level + 1}
      /\ comp' = Idle
      /\ bgError' = err
      /\ range' = IF comp.manual /\ range.armed THEN RangeLeft(comp, failed) ELSE range
      /\ halted' = IF comp.manual /\ ~range.armed THEN "null" ELSE halted

CompactionInstalls ==
  /\ Running
  /\ comp.pc = "log"
  /\ LogEnds(CompactedVersion(comp))
  /\ CompactionEnds(CompactedVersion(comp), FALSE)
  /\ UNCHANGED <<bound, op, mem, imm, hasImm, data, nextFile, flush, snapshots, cutoff, reader, reads, faults>>

\* An output or the MANIFEST cannot be written; finished outputs stay on disk.
CompactionFails ==
  /\ Running
  /\ comp.pc \in {"work", "log"} /\ ~(comp.pc = "work" /\ comp.move)
  /\ MayFail
  /\ faults' = faults + 1
  /\ logger' = IF comp.pc = "log" THEN "none" ELSE logger
  /\ CompactionEnds(current, TRUE)
  /\ UNCHANGED <<bound, op, mem, imm, hasImm, data, nextFile, current, flush, toCompact>>
  /\ UNCHANGED <<snapshots, cutoff, reader, reads>>

-----------------------------------------------------------------------------
(* Snapshots, the garbage cutoff, a reader. *)

GetSnapshot ==
  /\ Running
  /\ Len(snapshots) < bound.snapshots
  /\ snapshots' = Append(snapshots, LastSequence)
  /\ UNCHANGED <<store, background, cutoff, reader, reads, bgError, faults, halted>>

ReleaseSnapshot ==
  /\ Running
  /\ \E i \in DOMAIN snapshots : snapshots' = RemoveAt(snapshots, i)
  /\ UNCHANGED <<store, background, cutoff, reader, reads, bgError, faults, halted>>

\* AllowGarbageCollectBeforeTimestamp: the cutoff only moves forward.
AllowGarbageCollect ==
  /\ Running
  /\ \E t \in (cutoff + 1) .. LastSequence : cutoff' = t
  /\ UNCHANGED <<store, background, snapshots, reader, reads, bgError, faults, halted>>

\* Get takes its snapshot and refers to the memtables and the version ...
ReaderStart ==
  /\ Running
  /\ reader.pc = "idle" /\ reads < bound.reads
  /\ \E k \in Keys, s \in {LastSequence} \cup Range(snapshots) :
       reader' = [pc |-> "get", key |-> k, seq |-> s, mem |-> mem, imm |-> imm, ver |-> current]
  /\ reads' = reads + 1
  /\ UNCHANGED <<store, background, snapshots, cutoff, bgError, faults, halted>>

\* UpdateStats; only the current version's choice is ever read.
UpdateStats(files) == IF toCompact = NoFile /\ reader.ver = current THEN files ELSE {}

\* ... reads them without mutex_, and charges the first file if that was not
\* where the answer was.
ReaderEnd ==
  /\ Running
  /\ reader.pc = "get"
  /\ toCompact' \in {toCompact} \cup
       (IF Newest(reader.mem \cup reader.imm, reader.key, reader.seq) > 0 THEN {}
        ELSE UpdateStats(SeekFile(reader.ver, reader.key, reader.seq)))
  /\ reader' = Idle
  /\ UNCHANGED <<store, current, locked, logger, flush, comp, range>>
  /\ UNCHANGED <<snapshots, cutoff, reads, bgError, faults, halted>>

\* RecordReadSample: an iterator passes a key that two files may hold.
ReadSample ==
  /\ Running
  /\ reads < bound.reads /\ toCompact = NoFile
  /\ \E k \in Keys, s \in 1 .. LastSequence :
       LET cands == Candidates(current, k, s)
       IN  \E c \in Placed(current) : Len(cands) > 1 /\ c = cands[1] /\ toCompact' = c
  /\ reads' = reads + 1
  /\ UNCHANGED <<store, current, locked, logger, flush, comp, range>>
  /\ UNCHANGED <<snapshots, cutoff, reader, bgError, faults, halted>>

LevelsNext ==
  \/ Write \/ SwitchMem
  \/ FlushStart \/ FlushBuilt \/ FlushWakes \/ FlushInstalls \/ FlushFails
  \/ RangeCall \/ RangeArms \/ RangeReturns
  \/ ManualPick \/ AutoPick \/ CompactionOutput
  \/ CompactionLogs \/ CompactionInstalls \/ CompactionFails
  \/ GetSnapshot \/ ReleaseSnapshot \/ AllowGarbageCollect
  \/ ReaderStart \/ ReaderEnd \/ ReadSample

LevelsSpec == LevelsInit /\ [][LevelsNext]_levelVars

-----------------------------------------------------------------------------
(* Properties. *)

\* The value a read of k at sequence number s must give: that of the newest
\* operation on k up to s, or none (0).
Value(ops, seq) == IF seq = 0 \/ ops[seq].del THEN 0 ELSE seq
Reference(ops, k, s) == Value(ops, Max({0} \cup {i \in 1 .. s : ops[i].key = k}))

\* A Get of k finds the newest operation on it, at the last sequence number and at
\* every snapshot that is held.
ReadsRight(ops, m, i, version, held, k) ==
  \A s \in {Len(ops)} \cup Range(held) : Value(ops, Get(m, i, version, k, s)) = Reference(ops, k, s)

\* Every Get does, whatever the flush and the compaction have done meanwhile; so does
\* one that took its memtables and its version earlier: "entries never hop across
\* levels" (Version::Get, version_set.cc:397).
ReadsNewest ==
  /\ \A k \in Keys : ReadsRight(op, mem, imm, current, snapshots, k)
  /\ reader.pc = "get" =>
       Value(op, Get(reader.mem, reader.imm, reader.ver, reader.key, reader.seq))
         = Reference(op, reader.key, reader.seq)

\* The compaction takes a file with an entry of k and leaves one with an older entry
\* of k in the same level: an output file once ended between the two.
TakesNewerPart(k) ==
  \E f \in comp.in0, g \in current[comp.level] \ comp.in0 :
    \E e \in data[f], x \in data[g] : e[1] = k /\ x[1] = k /\ x[2] < e[2]

\* The one step that makes a read wrong is the installation of a compaction that takes
\* only the newer part of what the level has of the key.  No write, flush, trivial move,
\* manual or other compaction, no snapshot that is taken or released and no garbage
\* collection changes what a Get that was right returns (rule (A) and the obsolete
\* deletions of DoCompactionWork, Version::Get, PickLevelForMemTableOutput).
OnlyCutsMislead ==
  [][<<op, mem, imm, current, snapshots>>' # <<op, mem, imm, current, snapshots>> =>
       \A k \in Keys : ReadsRight(op, mem, imm, current, snapshots, k) =>
         \/ ReadsRight(op', mem', imm', current', snapshots', k)
         \/ comp.pc = "log" /\ comp'.pc = "idle" /\ TakesNewerPart(k)]_levelVars

\* DeleteObsoleteFiles never removes a file that the current version, a reader,
\* the flush or the compaction still needs, nor an output on its way.
FilesOnDisk ==
  /\ \A v \in Versions(current, flush, comp, reader) : FilesOf(v) \subseteq disk
  /\ comp.pc # "idle" => comp.outs \subseteq disk
  /\ flush.pc # "idle" => flush.num \in disk

\* The newest deletion of a key is kept for replay until the garbage cutoff has
\* passed it (manual_garbage_cutoff_ in DoCompactionWork).
TombstonesKept ==
  \A k \in Keys :
    LET n == Max({0} \cup {i \in DOMAIN op : op[i].key = k})
    IN  n > 0 /\ op[n].del /\ n >= cutoff => <<k, n>> \in mem \cup imm \cup Entries(FilesOf(current))

\* When a manual compaction of a level reports that it is done, every file that
\* overlapped the range when it was asked for has left the level, although the
\* range is worked off in parts and other steps change the level in between.
RangeCompacted ==
  range.active /\ ~bgError => (range.done => range.before \cap current[range.level] = {})

\* The files of a level above 0 do not overlap (the check in Builder::SaveTo).
LevelsDisjoint == halted # "overlap" /\ Disjoint(current)

=============================================================================
