# HyperLevelDB for Windows: TLA+ models, checks and proofs

The modules in this directory model the database under `src/leveldbNative` and the
lifetimes of objects in its .NET binding `src/LevelDB.net`. Each is written from the
code; `PROJECT.json` names the lines behind every definition (`map`), what can go
wrong in this code that a test would hardly reach (`hazards`), and where the code
disagrees with its own comments and headers (`findings`).

## The system

A `Write` first asks, under `mutex_`, whether the memtable has room; if not it makes
the memtable `imm_` and opens a new log. Then, under `writers_mutex_`, it links
itself at the tail of the queue and draws a range of sequence numbers. It writes log
and memtable with no lock, publishes the end of its range as `LastSequence` and
unlinks. The writer that switched memtables carries `has_imm_`; when writers leave,
the flag moves towards the head, and whoever leaves as head with it wakes the
memtable thread. That thread builds a table from `imm_`, records it in the MANIFEST,
drops `imm_` and deletes its log. A second thread merges tables of a level into the
next. `GetSnapshot` samples `LastSequence` and queues up behind all writers;
`LiveBackup` forces a switch, and queues up likewise while its gate keeps later
writers waiting. Below that are a lock-free skip list and arena, a log that several
threads fill at once, a memory-mapped file, and a condition variable of two
semaphores.

| part of the code | module | what is hard |
|---|---|---|
| writer queue, snapshots, backup gate (`db/db_impl.cc`) | `WriterQueue` | writers end in any order; two mutexes; flags handed from writer to writer |
| log, memtable, flush, MANIFEST, recovery, backup copy (`db/db_impl.cc`) | `WritePath`, composed with `WriterQueue` | a table is built without a lock; a stop or a failure at any point |
| levels and compaction (`db/db_impl.cc`, `db/version_set.cc`) | `Levels` | edits computed from an older version; what may be dropped |
| files, `CURRENT`, MANIFEST, `RepairDB` (`db/version_set.cc`, `db/repair.cc`, `db/filename.cc`) | `Recovery` | the machine stops between any two file operations |
| replay iterators (`db/replay_iterator.cc`) | `Replay` | told of memtables by writers |
| skip list (`db/skiplist.h`) | `SkipList` | compare-and-swap list by list; pointer and hint are two words |
| arena (`util/arena.cc`) | `Arena` | three words per block moved by several threads |
| log format (`db/log_writer.cc`, `db/log_reader.cc`) | `LogFormat` | fragments written concurrently; a file cut off anywhere |
| mapped file (`util/env_boost.cc`) | `MmapFile` | growth, mapping and sync beside writes |
| condition variable (`port/port_win.cc`) | `CondVar`, implementing `CondVarSpec` (`port/port_example.h`) | handshake between signaller and waiter |
| table format, filters, index keys (`table/*.cc`, `util/bloom.cc`, `util/comparator.cc`) | `TableFormat` | restarts, prefixes, shortened separators |
| iterators (`db/db_iter.cc`, `table/merger.cc`, `table/two_level_iterator.cc`) | `Iterators` | change of direction over hidden entries |
| LRU cache and table cache (`util/cache.cc`, `db/table_cache.cc`) | `LruCache` | eviction while handles are held |
| batches, memtable entries, version edits, integers (`db/write_batch.cc`, `db/version_edit.cc`, `util/coding.cc`) | `Codec` | what a cut-off record decodes to |
| .NET handles and native arrays (`LevelDB.net`) | `Binding` | finalizers beside `Dispose` |

`Slices` and `Loops` hold what several modules share. `WriterQueueProofs`,
`WritePathProofs`, `SkipListProofs`, `CondVarProofs`, `ArenaProofs`, `MmapFileProofs`,
`LogFormatProofs` and `LevelsProofs` hold the theorems.
`MCWriterQueue`, `MCWritePath`, `MCCondVar`, `MCLevels`, `MCReplay`, `MCThreads` and
`MCStorage` are instances for TLC.

## How the models relate to the code

A step is what a thread does between two points where another can interfere: a
critical section of a mutex, or one access to shared memory where the code takes no
lock. `pc` names the points between steps. Data are reduced to what the properties
tell apart.

**WriterQueue.** One `Writer` exists per call and a thread makes one call at a time,
so the fields of `Writer` are functions of the thread (`linked`, `prev`, `next`,
`hasImm`, `wake`, `block`, `first`, `last`). A critical section of `mutex_` or
`writers_mutex_` is one action and ends where the code unlocks or waits. The
condition variables are those of `CondVarSpec`: a signal moves a thread that sleeps.

- a batch is its number of operations, or `NULL` for `TEST_CompactMemTable`;
- whether the memtable has room is a free choice, except that a `NULL` batch forces
  a switch;
- `start_sequence_` and `end_sequence_` are set in `Link`, although the code assigns
  them after the gate: nobody reads them in between;
- a `Writer` that unlinks has its pointers cleared: its stack frame is gone, and
  `ListSound` states that nothing points to it. `Threads` stand for stack frames;
- `Insert` is one step here; `WritePath` takes it apart.

**WritePath.** Each action is an action of the queue conjoined with its effect on
memtables and files. An operation is its sequence number and all operations put the
same key, so a read returns the largest visible number. A memtable is identified by
its log. Files (`logs`, `records`, `disk`, `copies`) survive `Crash`; the rest does
not. The operating system keeps what was written, so this is a process stop, not a
power failure (`Recovery` has those). `FlushBuilt` may or may not see what was
inserted after the iterator of `BuildTable` began. A MANIFEST write that fails may or
may not leave its record. `bg_log_occupied_` is the pair of guards `FlushHasLog` and
`BackupHasLog`. `DeleteObsoleteFiles` at the end of a backup is no step, because
`backup_in_progress_` is still set there and it returns at once. `CopyFiles` is one
step: while it runs the MANIFEST cannot change and logs are not deleted, and a log
that grows meanwhile only adds to the copy. `Get` is a state function, as it takes
its references under `mutex_`.

**Levels.** A file is the set of its internal keys. `CompactMemTableThread` and
`CompactLevelThread` each read a version under `mutex_`, work without it, and install
an edit; between them come other edits, reads, snapshots and `DeleteObsoleteFiles`.
Sizes are left out: what depends on them is any choice, the score of a level above 0 and
where an output ends included; an output may so end between two entries of a user key,
as it may in `DoCompactionWork`. `Checked` stands for builds without `NDEBUG`; the
Release build defines it, and all instances have `Checked = FALSE`.

**Recovery.** A file keeps what was synced and may lose the rest at a stop; creating,
renaming and deleting are not undone. The environment is `env_boost.cc`, the one the
Windows build compiles: its `RenameFile` deletes a target that exists and then moves the
file, and the machine may stop, or a call fail, in between; if the first move fails for
another reason nothing is done and it returns OK.

**SkipList, Arena, LogFormat, MmapFile, CondVar.** Every access to shared memory is a
step, `Wait`, `Signal` and `SignalAll` included. In `MmapFile` undefined behaviour
(the unsynchronised members of `PosixMmapFile`) is a choice of outcome, or halts the
model where nothing can be said: `Sync` reads a handle from an array that a growing
thread may have freed (`"freed"`). `FlushViewOfFile` may fail; the result of
`FlushFileBuffers` is tested the wrong way round (`env_boost.cc:478`), so that `Sync`
returns an error when it succeeds. Handles of mappings, which it is given, are not
handles of files, so the case in which it fails is the usual one and the other is among
the `MmMishaps`. `Crowd` of `CondVar` bounds how many threads wait
when `SignalAll` is called: it separates the case that works from the one that does
not.

**TableFormat, Iterators, Codec, LruCache, Replay, Binding.** The algorithms of the
code as functions on sequences of entries or bytes, driven by every sequence of calls
up to a bound and compared with a reference (what was put in, what is visible at a
snapshot, who holds what). A byte of `Codec` has four bits, so that lengths of one and
two varint bytes, and integers at the end of their range, are within reach.

**Replay.** Writers insert, publish and unlink in any order, and the memtable thread
flushes `imm_` without waiting for them; a table may or may not have what is inserted
while it is built. `WaitOutWriters` waits for the writers it can reach from the tail,
which are none once the tail has left.

**Binding.** `DebugBuild` says whether the `Debug.Assert` of `NativePointer.Diff` is
compiled in; in the instances it is not, and an array may be converted to elements whose
size leaves a rest.

## Runs

| run | instance | checks | result |
|---|---|---|---|
| `writer_queue` | 2 writers and a snapshot with failing I/O; or, without, 1 writer with 2 backups called twice, or with a snapshot and a backup; batches of 1 or `NULL`; fairness | `ListSound`, `TicketsDisjoint`, `QueueInTicketOrder`, `NoSleepingHead`, `FlushDutyKept`, `BackupsExclusive`, `CallsReturn` | holds |
| `write_path` | 1 writer with three calls, batches of 1, 2 or `NULL`, failing I/O, two stops | `AckedReadable`, `AckedDurable`, `GetReturnsNewest` | holds |
| `backup_copy` | 1 writer with two calls, 1 backup, one stop | `BackupComplete` | holds |
| `threads` | one of: 3 waiters, 2 signallers and a broadcaster; 2 inserts, alone or with a reader; 3 threads that allocate; 2 threads that write and sync a mapped file | what the components below the mutexes promise, their liveness, and that `CondVar` implements `CondVarSpec` | holds |
| `storage` | one of: levels, recovery, replay, log, table, iterators, cache, batches, edits, handles, arrays | what is stored is read back | holds |
| `snapshot_race` | 2 writers, 1 snapshot | `SnapshotStable` | fails |
| `flush_race` | 2 writers | `AckedReadable` | fails |
| `read_order` | 2 writers | `GetReturnsNewest` | fails |
| `recover_error` | 1 writer, one stop, I/O of a recovery may fail | `AckedDurable` | fails |
| `backup_after_error` | 1 writer, 1 backup, failing I/O | `BackupComplete` | fails |
| `signal_all_crowd` | 2 waiters, `SignalAll` with both waiting | `SignalReturns` | fails |
| `key_cuts` | 2 keys, 4 levels | `ReadsNewest` | fails |

In `threads` and `storage` the variable `subject` says, from the initial state on,
whose behaviour this is; the other components stay in one initial state. The checks
of a component are so those of its own specification, in one run of TLC.

What `threads` checks: `CountExact`, `KeepsPromise`, `SignalReturns` (condition
variable); `ListsSorted`, `HintsLag`, `NoInsertLost`, `SearchesLinearize`,
`SkipGrows`, `SkipTerminates` (skip list); `AllocationsDisjoint`, `ArenaSound`
(arena); `MmapSound`, `TruncateWaitEnds` (mapped file).

What `storage` checks: `OnlyCutsMislead`, `FilesOnDisk`, `TombstonesKept`,
`RangeCompacted` (levels: a read at the last number or at a snapshot becomes wrong only
by a compaction that takes the newer part of a key a level has in two files, no file in
use is deleted, no tombstone is dropped above what it hides); `AckedRecoverable`,
`SequenceFresh` (recovery and repair); `ReplayOfMem` (replay); `LogSound`,
`TableSound`, `CursorSound`, `CacheSound`, `BatchSound`, `EditSound` (formats,
iterators, cache); `HandlesSound`, `ArraySound` (binding). The names in `Sound` are
conjunctions; their parts are commented where they are defined.

The runs that fail are disagreements between the code and its comments or headers;
`PROJECT.json` quotes the lines under `findings`. The cause of `snapshot_race` is that
`SequenceWriteEnd` sets `writers_tail_` to `NULL` when the tail leaves, although
writers ahead of it may remain. The list then falls into pieces. The pieces stay sound
(`ListSound` holds), but a snapshot or a backup no longer sees the writers of the other
pieces. In `key_cuts` a compaction writes two entries of a user key to two files of a
level, and a later one moves the newer of them down (`db_impl.cc:1144`); it is the
only way in which a read goes wrong (`OnlyCutsMislead`).

The passing runs say what is left when the cause of a failing run is excluded:
`write_path` has one client thread (with two, `flush_race` and `read_order` apply), and
interleaves it with the memtable thread and stops; `backup_copy` has no failing I/O
(`backup_after_error`); `threads` lets `SignalAll` be called with at most one waiter
(`signal_all_crowd`). `CallsReturn` fails in two instances that `writer_queue`
leaves out. With two writers and one backup called twice, a writer asleep at the gate in a
piece of its own is found by no backup and signalled by no writer. With one writer, one
backup and `Faults = TRUE`, the `SequenceWriteBegin` of the backup fails
(`db_impl.cc:1830` ignores its status), and a writer asleep at the gate is neither
ahead of the backup nor signalled when the gate opens.

Deadlock is checked where the only state without a real step is the one in which all
calls have returned (`Quiet`, `Rest`). The runs that fail do not check it; `storage`
does not, since its components are driven until their bounds are used up.

### More disagreements

These have a configuration but no run of their own; TLC finds each within minutes.

| configuration, module | property | what the code does |
|---|---|---|
| `MCOverlap.cfg`, `MCLevels` | `LevelsDisjoint` | A flush places its table below level 0 by a version read earlier (`db_impl.cc:603`); with `NDEBUG`, as in the Release build, nothing keeps `version_set.cc:805` "Make sure there is no overlap in levels > 0". |
| `MCCurrent.cfg`, `Recovery` | `AlwaysReopens` | `RenameFile` of `env_boost.cc:1109` deletes `CURRENT` before it moves the new one; a stop or a failure in between leaves none, and the database does not open. `AckedRecoverable` is what remains: the MANIFEST and every synced write are still in the directory, for `RepairDB` to find. |
| `MCReplaySkip.cfg`, `MCReplay` | `ReplayComplete` | Replay iterators are told of a new memtable before the ticket is taken (`db_impl.cc:1607`), writers insert after a larger `LastSequence` was published, and `imm_` is dropped under a writer; entries are not shown, against `db.h:166` "returns every write operation performed after the timestamp". `ReplayOfMem` says which are. |
| `MCLogHole.cfg`, `LogFormat` | `PrefixRecovered` | When a record ends with its block, `ComputeRecordSize` reserves one more header in the next block (`log_writer.cc:110-116`), which `AddRecord` does not write, although nothing failed or stopped. The reader finds zeroes there and gives up the block, and with it records written completely; `OnlyHolesHide`, in `LogSound`, says that it costs no others. |
| `MCStorage.cfg` with `INVARIANT PartsOutliveDb` | `PartsOutliveDb` | Finalizers may free the cache or logger before the database, against `DB.cs:385` "it's critical that the database be closed first". |
| `MCStorage.cfg` with `INVARIANT EmptyArraySound` | `EmptyArraySound` | Of an empty array the first `MoveNext` returns false but leaves the enumerator in the state in which `Current` reads (`NativePointer.cs:273`), and the second returns true. |
| `MCThreads.cfg` with `INVARIANT BaseHandleOwned`, `TruncFlagExact` or `SyncedAll` | | `PosixMmapFile` keeps the handle of a mapping in one member for all threads; clears `trunc_in_progress_` from a thread that does not truncate; and ends `Sync` with OK at the first block that is not mapped, although the thread has written behind it. |

Larger instances of single components, on which their properties hold:
`MCWriterQueue.cfg` (two writers, a snapshot and a backup with failing I/O, 600 000
states), `MCLevels.cfg` (1.1 million), `MCRecovery.cfg` (1.4 million), `MCReplay.cfg`
(4.3 million) and `MCLog.cfg` (350 000).

### Bounds

`Calls` bounds the calls of each thread, `MaxCrashes`, `MaxStarts` the stops,
`Bounds` the writes, files, faults, snapshots and reads of `Levels`. Two writers suffice
for overtaking, splitting the list and the hand-over of `has_imm_`; a snapshot or a
backup beside them is the third member of the list. Two stops reach a stop inside the
recovery from a stop. Three calls with a `NULL` batch reach a write before, during and
after a flush. In `threads`, two of the three keys have the same `KeyNum`, heights
reach 2, the arena meets sizes that fit, that fill a block and that are large, and the
plans of the mapped file cross a block and grow the file, with one call that goes wrong
(`MmMishaps`). In `storage`, the tables have
several blocks and filters, records of the log span several of its blocks, and the
cache is smaller than its entries; `ReplayPlans` are the keys the writers of `Replay` put,
`BatchOps` bounds the operations of a batch at three. No run uses symmetry, as those with
interchangeable threads check liveness; `MCWriterQueue.cfg` does.

### Fairness

Weak fairness of each thread inside a call and of the memtable thread: the operating
system schedules them, and the critical sections are short. After `bg_error_` is set no
flush need ever succeed, as the retries of the memtable thread may all fail. Clients
are not fair: nobody need make a call or release a snapshot. An I/O call returns, with
or without an error.

## Proofs

The theorems are about every value of the constants, under the `ASSUME`s of the
component's module. In each proof module an inductive invariant comes first; it was
checked by TLC on the instance of the run before it was proved. The proof that a step
keeps it goes action by action; what an operator does to a list, a set or a record is
a lemma of its own.

**WriterQueueProofs**: any sets of threads (backups a finite set), any batches and
number of calls, with failing I/O or without. `QueueInvariant` is `Spec => []Inv`, and
from it follow `ListAlwaysSound`, `TicketsAlwaysDisjoint`, `QueueAlwaysInOrder`,
`HeadNeverSleeps`, `FlushDutyAlwaysKept`, `BackupsTakeTurns` and `QueueTypes`.
`Inv` adds to the checked properties what makes them inductive:

- `PcInv`: at which points of the code the `Writer` of a thread is in the list;
- `Ranked`: there are a rank that grows along `prev_` and a value between the tickets
  around each `Writer`. It says that the list is acyclic and in ticket order even
  across `Writer`s without ticket (snapshots). `QueueInTicketOrder`, about everything
  reachable along `prev_`, follows by the minimality of `Ahead` without an induction.
  `FlushDutyKept` needs it too: the flag moves to the predecessor, which is another
  `Writer`;
- `BelowUpper`: no `Writer` holds a number above `writers_upper_`;
- `WakeInv`: who waits to be head has asked to be woken;
- `BackupsExclusive` and `WaitingBackupsCounted` are proved together, since the gate
  stays closed for the next backup only because the count is exact.

**WritePathProofs, one writer**: no backup (`OneWriter`, with I/O of recoveries that
does not fail), any batches and number of calls, any failures of log, table and
MANIFEST writes while the database is open, any number of stops, inside `DB::Open` too.
These are the conditions under which the properties hold at all: with two writers
`flush_race` and `read_order` are counterexamples, with failing recoveries
`recover_error` is. `PathInvariant` is `PathSpec => []PathInv`; `AckedAlwaysReadable`,
`AckedAlwaysDurable`, `GetAlwaysNewest` and `StoredAlwaysBelowUpper` follow. The parts
of `PathInv`:

- `WriterInv`: a thread with a ticket holds the current log and memtable, what it has
  done of its batch is there, and its numbers are above everything in tables and in
  `imm_`;
- `NumberInv`: nothing stored is above `LastSequence`, except the batch between its
  insertion and its publication; `LastSequence` of the MANIFEST bounds its tables;
- `OrderInv`: newer operations are in newer places, tables before `imm_` before `mem_`,
  which is why `Get` may stop at the first hit;
- `PlaceInv`, `JobInv`: what the flush has seen is all of `imm_`, since the thread that
  could add to it has moved on; the MANIFEST keeps the current log;
- `AckedInv`: where an acknowledged operation is, and which log or table would bring it
  back. This is the strengthening that carries `AckedDurable` over the steps between
  table, MANIFEST record, drop of `imm_` and deletion of its log;
- `DownInv`: what a stopped process leaves.

The largest sequence and file numbers are `Max` of sets without a bound given in
advance, also in `GetReturnsNewest`; `MaxIs` shows from the well-ordering of the
naturals that a bounded set has its maximum, and `NumberInv` and `PlaceInv` keep bounds
for `Recover` to use.

**WritePathProofs, backups**: any writers, snapshots and backups, any number of stops,
and I/O that does not fail (`NoFaults`; with failures `backup_after_error` is a
counterexample). `BackupsAlwaysComplete` is

    PathSpec /\ []AckedDurable => []BackupComplete

It is relative to `AckedDurable` because two writers can lose an acknowledged write
(`flush_race`), and no backup can copy what the database itself no longer has. What
the theorem adds is that nothing is lost between listing the files, copying the
MANIFEST and the logs, and the writers and flushes that go on meanwhile. The inductive
invariant is `BackupInv`; TLC checked `AckedDurable => BackupInv` on the instance of
`backup_copy`, 388 822 states. Its parts:

- `CopyUnderWay`: from listing to copying, the tables of the MANIFEST are among those
  linked, and an operation acknowledged before `LiveBackup` is in one of them or in a
  listed log. Nothing it depends on shrinks (`Lasting`), since the flush is outside of
  `LogAndApply` (`bg_log_occupied_`);
- `TablesInv`: the MANIFEST names tables of the current version only, except between
  the write of an edit and its installation, when `ListFiles` is not enabled;
- `CopyDone`: a finished copy is left alone until the next call, also by a stop;
- `Flushing`: the flush under way is that of the one memtable thread.

**SkipListProofs**: any keys, any `KeyNum` that follows their order, any height and
number of readers; every key may be inserted by a thread of its own.
`SkipInvariant` is `SkipSpec => []SkipInv`; `ListsAlwaysSorted`, `HintsAlwaysLag`,
`InsertsNeverLost`, `SearchesAlwaysLinearize` and the action property `SkipAlwaysGrows`
follow. `SkipInv` says of each list that it is sorted, closed, and that the nodes
reached from the head are those whose insert has linked them (`ListOK`); of each hint
that it is not below the pointer's key and, unless the insert of that key is about to
lower it, not above (`CaughtUp`); and of each writer and reader that what it has read
is linked and on the right side of its key (`FindOK`, `LinkOK`, `SeekOK`, `LessOK`).
The last holds on although pointer and hint are read in two steps because both only
ever sink (`Sinks`); the lemmas about it are what the interleavings come down to.

**CondVarProofs**: any number of waiters, signallers and broadcasters. `CondVarTypes`,
`CountAlwaysExact`, and `PortImplements`: for `Crowd <= 1` the condition variable of the
Windows port implements `CondVarSpec`. The invariant `CvInv` places the owners of the
two mutexes (`Placed`), balances `waiting_` against both semaphores and the threads
asleep (`Balance`), and bounds the crowd of a `SignalAll` (`CrowdKept`). For a larger
crowd the implementation is false (`signal_all_crowd`).

**ArenaProofs**: any threads, any sizes of blocks, pages and requests (pages a multiple
of `align_`, requests not empty). `ArenaInvariant` is `ArSpec => []ArInv`;
`AllocationsAlwaysDisjoint`, `AlwaysAlignedAndUncrossed` and the action property
`EachCallIsGranted` follow. A thread between taking its bytes off `rem` and moving an
end has a claim on bytes of the block; `Fits` says that all claims fit between the two
ends, `Roomy`, of the blocks whose `rem` may still be lowered, that what `rem` offers
fits beside them. The sum of the claims of all threads is written as the `Cardinality`
of a set with one element for each claimed byte (`Claimed`), so that the theorems about
finite sets add and subtract a claim without an induction. `EachCallGranted` was checked
with TLC on the instance of `threads`, 18 883 states.

**MmapFileProofs**: any threads, any ranges they write, any size of blocks and of growth
steps (`MmAssumption`: what is written fits into the blocks that `segments_` may come to
have). `MmapInvariant` is `MmSpec => []MmInv`, and `MmapAlwaysSound` says
that what `WriteAt` returned for is in the file; that of what a thread has written, a
`Sync` that returned OK leaves unflushed only what lies behind the block it ended at,
the first that was not mapped (`SyncedBelowGap`); and that every view is a segment or in
the hands of one thread. `MmInv`
holds until the model halts (undefined behaviour, or an `abort` of the code) and says:

- `Copied`, `Flushed`: how far `WriteAt` and `Sync` of a thread are, the latter as long
  as no flush has failed;
- `Knows`: what a thread has read of the segments is still so when it acts on it,
  because segments only grow until `Close`. This is what the steps without a lock
  between looking up a segment and writing through it rest on;
- `SegsOK`: the thread that made a segment is past its block, so that no view is made
  twice by one thread; `ViewsOK`: the views are the segments and those that threads
  between `MapView` and the end of recording it hold;
- `BytesOK`, `SizeOK`: bytes are only behind segments, and segments below the size.

Blocks come in through `\div`; the facts about them (`BlockBounds`, `BlockIs` and their
consequences) are lemmas on numbers.

**LevelsProofs**: any number of levels, keys, writes, files, snapshots and I/O errors.
`LevelsInvariant` is `LevelsSpec => []LvInv`; `FilesAlwaysOnDisk` follows:
`DeleteObsoleteFiles` never removes a file that the current version, a reader, the
flush or the compaction still needs, whichever of them works without `mutex_` at that
moment. `LvInv` says that what each of these holds is on disk, and what an edit will
add is pending or in a version that is held (`FlushHolds`, `CompHolds`, `ReaderHolds`).
Three parts are there to make this inductive. `Numbered`: a file number is given out
once, so that a new output is none of the old files. `Private`: nobody but the flush
knows its output before it is installed; a flush that fails gives the output up, and
nothing else may depend on it. `Charged`: the file that reads chose for a seek
compaction is one of the current version, so that the inputs of that compaction are
files the version holds. The sweep is four lemmas about `Swept`, `LiveFiles` and `Versions`.

**LogFormatProofs**: any threads, records, block size and header size. `LogInvariant` is
`LogSpec => []LogInv`; `WritesAlwaysDisjoint` and `FragmentsAlwaysReadable` follow, two
of the conjuncts of `LogSound`. A call of `AddRecord` reserves `ComputedSize` bytes at
once and then lays out its fragments one after the other; the proof is that the layout
ends at or before the end of the reservation (before it by a header, when the record ends
with its block; `End`, and the lemmas `EndFits`, `EndSpills`,
`EndRounded` about blocks, trailers and headers), so that threads stay in ranges that
are apart.

Only model-checked:

- liveness (`CallsReturn`, `SignalReturns`, `SkipTerminates`, `TruncateWaitEnds`):
  beyond the prover;
- `BlocksLinkedOnce` and `ArUsageExact` of the arena, and what the log reader returns
  (`OnlyHolesHide`, `NothingInvented`): a recursive function or a fold over a set,
  whose value for every input needs an induction over data;
- `TableSound`, `CursorSound`, `CacheSound`, `BatchSound`, `EditSound`: the same, as
  these compare an algorithm on sequences with what it should compute;
- `OnlyCutsMislead`, `TombstonesKept`, `RangeCompacted`: what a read returns is found by
  sorting the files of each level and merging them, again recursive functions;
- `AckedRecoverable`, `SequenceFresh`, `ReplayOfMem`, `HandlesSound`, `ArraySound`: not
  attempted.

## Not modelled

- pure functions and value types with unit tests of their own: `crc32c`, `hash`,
  `histogram`, `logging`, `status`, `options`, compression and checksums of blocks;
- code that is commented out or disabled: `helpers/memenv/memenv.cc`,
  `LeastRecentlyUsedSet.cs`, `Result.cs`; the unused background thread of
  `env_boost.cc`;
- calls that only pass their arguments on: most of `db/c.cc`, `LevelDBInterop.cs`, plain
  file and directory operations of the environment;
- sizes and time: scores of levels, when a file is full, back-off, delays of writers;
- corrupt table files and `RepairTable`, log records whose checksums `RepairDB` does not
  verify (`repair.cc:215`), `paranoid_checks`, and failures of `LogAndApply` inside
  `DB::Open`.
