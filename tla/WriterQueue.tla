------------------------------ MODULE WriterQueue ------------------------------
(***************************************************************************)
(* The queue of writers of DBImpl: SequenceWriteBegin, SequenceWriteEnd,    *)
(* WaitOutWriters and the gate that LiveBackup closes in front of writers.  *)
(*                                                                         *)
(* Every call of Write, GetSnapshot (or LastSequence, GetReplayTimestamp)   *)
(* and LiveBackup owns a Writer on its stack; a thread makes one call at a  *)
(* time, so the Writer is named after the thread.  Writers are linked in a  *)
(* doubly linked list whose tail is writers_tail_, take a range of sequence *)
(* numbers when they link, work on the log and the memtable concurrently,   *)
(* publish the end of their range as LastSequence and unlink.               *)
(*                                                                         *)
(* A critical section of mutex_ or writers_mutex_ is one action: it ends    *)
(* where the code unlocks the mutex or waits on a condition variable.       *)
(***************************************************************************)
EXTENDS Integers, FiniteSets

CONSTANTS
  Writers,       \* threads that call Write
  Snapshotters,  \* threads that call GetSnapshot and ReleaseSnapshot
  Backups,       \* threads that call LiveBackup
  NULL,          \* the null pointer; as a batch, the NULL batch of a compaction
  Batches,       \* the batches of Write: operation counts, or NULL
  DISK,          \* the file system
  Calls          \* instances: how many calls each thread makes, and for DISK
                 \* whether its I/O may fail (1) or not (0)

Threads == Writers \cup Snapshotters \cup Backups

ASSUME ThreadsAssumption ==
  /\ NULL \notin Threads
  /\ DISK \notin Threads
  /\ Writers \cap Snapshotters = {}
  /\ Writers \cap Backups = {}
  /\ Snapshotters \cap Backups = {}
  /\ IsFiniteSet(Backups)

ASSUME CallsAssumption ==
  /\ Batches \subseteq Nat \cup {NULL}
  /\ NULL \notin Nat
  /\ Calls \subseteq [Threads \cup {DISK} -> Nat]

VARIABLES
  pc,        \* where each thread is
  left,      \* how many calls each thread has left; see Calls
  batch,     \* the batch of the call of each thread
  linked,    \* Writer::linked_ and not yet unlinked
  prev,      \* Writer::prev_
  next,      \* Writer::next_
  tail,      \* writers_tail_
  hasImm,    \* Writer::has_imm_
  wake,      \* Writer::wake_me_when_head_
  block,     \* Writer::block_if_backup_in_progress_
  first,     \* Writer::start_sequence_
  last,      \* Writer::end_sequence_
  upper,     \* writers_upper_
  lastSeq,   \* versions_->last_sequence_
  snap,      \* the sequence number of the snapshot each thread takes
  imm,       \* imm_ != NULL
  bg,        \* the memtable compaction thread
  bgError,   \* !bg_error_.ok()
  backup     \* what LiveBackup shares: in progress, claimed, waiters

list == <<linked, prev, next, tail, hasImm, wake, block>>
seqs == <<first, last, upper, lastSeq, snap>>
flush == <<imm, bg, bgError>>
vars == <<pc, left, batch, list, seqs, flush, backup>>

(***************************************************************************)
(* Control points.  A thread at an Asleep point waits on the condition      *)
(* variable of its own Writer; Awoken is the point a Signal moves it to.    *)
(***************************************************************************)
Asleep == {"gated", "waiting", "draining"}

Awoken == [p \in Asleep |->
             CASE p = "gated" -> "regate"
               [] p = "waiting" -> "depart"
               [] p = "draining" -> "drained"]

PCs == {"idle", "room", "full", "link", "gated", "regate", "write", "fail",
        "publish", "unlink", "notify", "settle", "settling",
        "enlist", "waiting", "depart", "holding",
        "claim", "queued", "requeue", "drain", "draining", "drained", "copy", "copying"}

\* port::CondVar::Signal on the Writer of every thread of S, after pc became f.
Signal(f, S) == [t \in Threads |->
                   IF t \in S /\ f[t] \in Asleep THEN Awoken[f[t]] ELSE f[t]]

\* bg_memtable_cv_.Signal(): wakes the memtable thread if it waits.
SignalMemtable(b) == IF b = "wait" THEN "awake" ELSE b

\* bg_fg_cv_.SignalAll(), after pc became f.
SignalAllForeground(f) ==
  [t \in Threads |-> CASE f[t] = "full" -> "room"
                      [] f[t] = "settling" -> "settle"
                      [] OTHER -> f[t]]

\* I/O of the file system may fail.
Faults == left[DISK] > 0

Count(t) == IF batch[t] = NULL THEN 0 ELSE batch[t]

\* The Writers reached from that of t along prev_: the least set that holds
\* prev_ of t and of its own members.
Ahead(t) ==
  LET closed(S) == \A u \in S \cup {t} : prev[u] \in S \cup {NULL}
  IN  {u \in Threads : \A S \in SUBSET Threads : closed(S) => u \in S}

-----------------------------------------------------------------------------
Init ==
  /\ pc = [t \in Threads |-> "idle"]
  /\ left \in Calls
  /\ batch = [t \in Threads |-> NULL]
  /\ linked = [t \in Threads |-> FALSE]
  /\ prev = [t \in Threads |-> NULL]
  /\ next = [t \in Threads |-> NULL]
  /\ tail = NULL
  /\ hasImm = [t \in Threads |-> FALSE]
  /\ wake = [t \in Threads |-> FALSE]
  /\ block = [t \in Threads |-> t \notin Backups]
  /\ first = [t \in Threads |-> 0]
  /\ last = [t \in Threads |-> 0]
  /\ upper = 0
  /\ lastSeq = 0
  /\ snap = [t \in Threads |-> 0]
  /\ imm = FALSE
  /\ bg = "wait"
  /\ bgError = FALSE
  /\ backup = [inProgress |-> FALSE, claimed |-> FALSE, waiters |-> 0]

-----------------------------------------------------------------------------
(***************************************************************************)
(* SequenceWriteBegin, the section of mutex_: is there room for the batch?  *)
(* A NULL batch forces a switch; otherwise the size of the memtable         *)
(* decides, and either answer is possible.                                  *)
(***************************************************************************)
\* Write(options, b) is called.
CallWrite(t, b) ==
  /\ t \in Writers
  /\ pc[t] = "idle" /\ left[t] > 0
  /\ left' = [left EXCEPT ![t] = @ - 1]
  /\ batch' = [batch EXCEPT ![t] = b]
  /\ pc' = [pc EXCEPT ![t] = "room"]
  /\ UNCHANGED <<list, seqs, flush, backup>>

\* A Begin that fails: Write records the error and returns it; LiveBackup
\* ignores it and goes on with a Writer that was never linked.
BeginFailed(t) == IF t \in Backups THEN "drain" ELSE "fail"

\* bg_error_ is yielded to the caller.
BeginYieldsError(t) ==
  /\ pc[t] = "room" /\ bgError
  /\ pc' = [pc EXCEPT ![t] = BeginFailed(t)]
  /\ UNCHANGED <<left, batch, list, seqs, flush, backup>>

\* There is room in the memtable.
BeginRoom(t) ==
  /\ pc[t] = "room" /\ ~bgError /\ batch[t] # NULL
  /\ pc' = [pc EXCEPT ![t] = "link"]
  /\ UNCHANGED <<left, batch, list, seqs, flush, backup>>

\* No room, and the previous memtable is still being compacted: wait.
BeginWaits(t) ==
  /\ pc[t] = "room" /\ ~bgError /\ imm
  /\ bg' = SignalMemtable(bg)
  /\ pc' = [pc EXCEPT ![t] = "full"]
  /\ UNCHANGED <<left, batch, list, seqs, imm, bgError, backup>>

\* No room: switch to a new log and memtable; w->has_imm_ = true.
BeginSwitches(t) ==
  /\ pc[t] = "room" /\ ~bgError /\ ~imm
  /\ imm' = TRUE
  /\ hasImm' = [hasImm EXCEPT ![t] = TRUE]
  /\ pc' = [pc EXCEPT ![t] = "link"]
  /\ UNCHANGED <<left, batch, linked, prev, next, tail, wake, block, seqs, bg,
                 bgError, backup>>

\* No room, and the new log cannot be created.
BeginSwitchFails(t) ==
  /\ pc[t] = "room" /\ ~bgError /\ ~imm /\ Faults
  /\ pc' = [pc EXCEPT ![t] = BeginFailed(t)]
  /\ UNCHANGED <<left, batch, list, seqs, flush, backup>>

(***************************************************************************)
(* SequenceWriteBegin, the section of writers_mutex_: link at the tail,     *)
(* take a ticket, and wait while a backup holds the gate.                   *)
(***************************************************************************)
LinkAtTail(t) ==
  /\ linked' = [linked EXCEPT ![t] = TRUE]
  /\ prev' = [prev EXCEPT ![t] = tail]
  /\ next' = [u \in Threads |-> IF u = tail THEN t ELSE next[u]]
  /\ tail' = t

\* Mutants of the ticket: the end of the range counted without the gap between two
\* ranges, or without the operations of the batch.
TicketNoGap(t) == upper + Count(t)
TicketNoCount(t) == upper + 1

\* writers_upper_ after the increment; the range of the batch ends there.
Ticket(t) == upper + 1 + Count(t)

\* Where a Begin that succeeded continues.
Linked(t) == IF t \in Backups THEN "drain" ELSE "write"

Link(t) ==
  /\ pc[t] = "link"
  /\ LinkAtTail(t)
  /\ upper' = Ticket(t)
  /\ first' = [first EXCEPT ![t] = Ticket(t) - Count(t)]
  /\ last' = [last EXCEPT ![t] = Ticket(t)]
  /\ LET gate == block[t] /\ backup.inProgress
     IN  /\ wake' = [wake EXCEPT ![t] = gate]
         /\ pc' = [pc EXCEPT ![t] = IF gate THEN "gated" ELSE Linked(t)]
  /\ UNCHANGED <<left, batch, hasImm, block, lastSeq, snap, flush, backup>>

\* Signalled at the gate: test it again.
PassGate(t) ==
  /\ pc[t] = "regate"
  /\ LET gate == block[t] /\ backup.inProgress
     IN  /\ wake' = [wake EXCEPT ![t] = gate]
         /\ pc' = [pc EXCEPT ![t] = IF gate THEN "gated" ELSE Linked(t)]
  /\ UNCHANGED <<left, batch, linked, prev, next, tail, hasImm, block, seqs,
                 flush, backup>>

(***************************************************************************)
(* Write between Begin and End: AddRecord, Sync and InsertInto, without a   *)
(* lock.  An error is recorded under mutex_.                                *)
(***************************************************************************)
Insert(t) ==
  /\ pc[t] = "write"
  /\ pc' = [pc EXCEPT ![t] = "publish"]
  /\ UNCHANGED <<left, batch, list, seqs, flush, backup>>

InsertFails(t) ==
  /\ pc[t] = "write" /\ batch[t] # NULL /\ Faults
  /\ pc' = [pc EXCEPT ![t] = "fail"]
  /\ UNCHANGED <<left, batch, list, seqs, flush, backup>>

\* RecordBackgroundError by Write; SequenceWriteEnd returns at once if the
\* Writer was not linked.
RecordError(t) ==
  /\ pc[t] = "fail"
  /\ bgError' = TRUE
  /\ LET recorded == [pc EXCEPT ![t] = IF linked[t] THEN "publish" ELSE "idle"]
     IN  pc' = IF bgError THEN recorded ELSE SignalAllForeground(recorded)
  /\ UNCHANGED <<left, batch, list, seqs, imm, bg, backup>>

(***************************************************************************)
(* SequenceWriteEnd: publish the sequence number, unlink, and tell the      *)
(* memtable thread of a switch once no earlier writer is left.              *)
(***************************************************************************)
\* VersionSet::SetLastSequence keeps the larger number.
SetLastSequence(s) == IF s > lastSeq THEN s ELSE lastSeq

Publish(t) ==
  /\ pc[t] = "publish"
  /\ lastSeq' = SetLastSequence(last[t])
  /\ pc' = [pc EXCEPT ![t] = "unlink"]
  /\ UNCHANGED <<left, batch, list, first, last, upper, snap, flush, backup>>

\* Where a call goes when its SequenceWriteEnd is done: TEST_CompactMemTable
\* waits for the flush, the other calls return.
Ended(t) == IF t \in Writers /\ batch[t] = NULL THEN "settle" ELSE "idle"

\* Mutant: writers_tail_ is left pointing at the Writer.
BridgeKeepsTail(t) ==
  /\ prev' = [[u \in Threads |-> IF u = next[t] THEN prev[t] ELSE prev[u]] EXCEPT ![t] = NULL]
  /\ next' = [[u \in Threads |-> IF u = prev[t] THEN next[t] ELSE next[u]] EXCEPT ![t] = NULL]
  /\ linked' = [linked EXCEPT ![t] = FALSE]
  /\ tail' = tail

\* prev_ and next_ are bridged over the Writer of t, and cleared.
Bridge(t) ==
  /\ prev' = [u \in Threads |-> CASE u = t -> NULL
                                  [] u # t /\ u = next[t] -> prev[t]
                                  [] OTHER -> prev[u]]
  /\ next' = [u \in Threads |-> CASE u = t -> NULL
                                  [] u # t /\ u = prev[t] -> next[t]
                                  [] OTHER -> next[u]]
  /\ linked' = [linked EXCEPT ![t] = FALSE]
  /\ tail' = IF tail = t THEN NULL ELSE tail

\* Mutant: the successor is signalled when it does not become the head.
NewHeadInverted(t) == {u \in Threads : u = next[t] /\ wake[u] /\ prev[t] # NULL}

\* The Writer to signal when t unlinks: its successor, if it becomes the head
\* and asked for it.
NewHead(t) == {u \in Threads : u = next[t] /\ wake[u] /\ prev[t] = NULL}

\* Mutant: has_imm_ of a Writer that is not the head is not handed on.
HandOnDropped(t) == [hasImm EXCEPT ![t] = @ /\ prev[t] = NULL]

\* has_imm_ goes to the predecessor, if there is one.
HandOn(t) ==
  [u \in Threads |-> CASE u = t -> hasImm[t] /\ prev[t] = NULL
                       [] u # t /\ u = prev[t] -> hasImm[u] \/ hasImm[t]
                       [] OTHER -> hasImm[u]]

Unlink(t) ==
  /\ pc[t] = "unlink"
  /\ Bridge(t)
  /\ hasImm' = HandOn(t)
  /\ LET notify == hasImm[t] /\ prev[t] = NULL
         moved == [pc EXCEPT ![t] = IF notify THEN "notify" ELSE Ended(t)]
     IN  pc' = Signal(moved, NewHead(t))
  /\ wake' = [wake EXCEPT ![t] = FALSE]
  /\ block' = [block EXCEPT ![t] = t \notin Backups]
  /\ first' = [first EXCEPT ![t] = 0]
  /\ last' = [last EXCEPT ![t] = 0]
  /\ UNCHANGED <<left, batch, upper, lastSeq, snap, flush, backup>>

\* has_imm_ is stored and the memtable thread signalled.
Notify(t) ==
  /\ pc[t] = "notify"
  /\ hasImm' = [hasImm EXCEPT ![t] = FALSE]
  /\ bg' = SignalMemtable(bg)
  /\ pc' = [pc EXCEPT ![t] = IF t \in Snapshotters THEN "holding" ELSE Ended(t)]
  /\ UNCHANGED <<left, batch, linked, prev, next, tail, wake, block, seqs, imm,
                 bgError, backup>>

\* Mutant: TEST_CompactMemTable does not look at bg_error_ while it waits.
SettleIgnoresError(t) ==
  /\ pc[t] = "settle"
  /\ pc' = [pc EXCEPT ![t] = IF imm THEN "settling" ELSE "idle"]
  /\ UNCHANGED <<left, batch, list, seqs, flush, backup>>

\* TEST_CompactMemTable waits until the memtable it switched is flushed.
Settle(t) ==
  /\ pc[t] = "settle"
  /\ pc' = [pc EXCEPT ![t] = IF imm /\ ~bgError THEN "settling" ELSE "idle"]
  /\ UNCHANGED <<left, batch, list, seqs, flush, backup>>

-----------------------------------------------------------------------------
(***************************************************************************)
(* GetSnapshot: read LastSequence under mutex_, then WaitOutWriters.        *)
(***************************************************************************)
Sample(t) ==
  /\ t \in Snapshotters
  /\ pc[t] = "idle" /\ left[t] > 0
  /\ left' = [left EXCEPT ![t] = @ - 1]
  /\ snap' = [snap EXCEPT ![t] = lastSeq]
  /\ pc' = [pc EXCEPT ![t] = "enlist"]
  /\ UNCHANGED <<batch, list, first, last, upper, lastSeq, flush, backup>>

\* WaitOutWriters with nobody at the tail: the Writer links and unlinks in one
\* section.
EnlistAlone(t) ==
  /\ pc[t] = "enlist" /\ tail = NULL
  /\ pc' = [pc EXCEPT ![t] = "holding"]
  /\ UNCHANGED <<left, batch, list, seqs, flush, backup>>

Enlist(t) ==
  /\ pc[t] = "enlist" /\ tail # NULL
  /\ LinkAtTail(t)
  /\ wake' = [wake EXCEPT ![t] = TRUE]
  /\ pc' = [pc EXCEPT ![t] = "waiting"]
  /\ UNCHANGED <<left, batch, hasImm, block, seqs, flush, backup>>

\* Signalled, but not yet the head.
WaitAgain(t) ==
  /\ pc[t] = "depart" /\ prev[t] # NULL
  /\ pc' = [pc EXCEPT ![t] = "waiting"]
  /\ UNCHANGED <<left, batch, list, seqs, flush, backup>>

Depart(t) ==
  /\ pc[t] = "depart" /\ prev[t] = NULL
  /\ Bridge(t)
  /\ LET moved == [pc EXCEPT ![t] = IF hasImm[t] THEN "notify" ELSE "holding"]
     IN  pc' = Signal(moved, NewHead(t))
  /\ wake' = [wake EXCEPT ![t] = FALSE]
  /\ block' = [block EXCEPT ![t] = t \notin Backups]
  /\ UNCHANGED <<left, batch, hasImm, seqs, flush, backup>>

ReleaseSnapshot(t) ==
  /\ pc[t] = "holding"
  /\ snap' = [snap EXCEPT ![t] = 0]
  /\ pc' = [pc EXCEPT ![t] = "idle"]
  /\ UNCHANGED <<left, batch, list, first, last, upper, lastSeq, flush, backup>>

-----------------------------------------------------------------------------
(***************************************************************************)
(* LiveBackup.  It closes the gate, waits for its turn, forces a switch     *)
(* with a Writer of its own, frees the writers ahead of it and waits for    *)
(* them, copies, opens the gate and unlinks.                                *)
(***************************************************************************)
CallBackup(t) ==
  /\ t \in Backups
  /\ pc[t] = "idle" /\ left[t] > 0
  /\ left' = [left EXCEPT ![t] = @ - 1]
  /\ pc' = [pc EXCEPT ![t] = "claim"]
  /\ UNCHANGED <<batch, list, seqs, flush, backup>>

\* Mutant: "if" for "while" around the wait.
HasItOnce(t) == backup.claimed /\ pc[t] # "requeue"

\* The condition of the loop: backup_waiter_has_it_.
HasIt(t) == backup.claimed

\* backup_waiters_ after a pass of the loop.
WaitersAfter(t) ==
  backup.waiters - (IF pc[t] = "requeue" THEN 1 ELSE 0) + (IF HasIt(t) THEN 1 ELSE 0)

\* One pass of the loop on backup_waiter_has_it_; from "requeue" it is a pass
\* after a wait.
Claim(t) ==
  /\ pc[t] \in {"claim", "requeue"}
  /\ backup' = [inProgress |-> backup.inProgress \/ pc[t] = "claim",
                claimed |-> TRUE,
                waiters |-> WaitersAfter(t)]
  /\ pc' = [pc EXCEPT ![t] = IF HasIt(t) THEN "queued" ELSE "room"]
  /\ UNCHANGED <<left, batch, list, seqs, flush>>

\* The Writers ahead are let through the gate, and signalled.
Drain(t) ==
  /\ pc[t] = "drain"
  /\ block' = [u \in Threads |-> block[u] /\ u \notin Ahead(t)]
  /\ wake' = [wake EXCEPT ![t] = prev[t] # NULL]
  /\ LET moved == [pc EXCEPT ![t] = IF prev[t] # NULL THEN "draining" ELSE "copy"]
     IN  pc' = Signal(moved, Ahead(t))
  /\ UNCHANGED <<left, batch, linked, prev, next, tail, hasImm, seqs, flush, backup>>

Drained(t) ==
  /\ pc[t] = "drained"
  /\ pc' = [pc EXCEPT ![t] = IF prev[t] # NULL THEN "draining" ELSE "copy"]
  /\ UNCHANGED <<left, batch, list, seqs, flush, backup>>

\* LastSequence is advanced; the files are listed and copied.
Copy(t) ==
  /\ pc[t] = "copy"
  /\ lastSeq' = SetLastSequence(last[t])
  /\ pc' = [pc EXCEPT ![t] = "copying"]
  /\ UNCHANGED <<left, batch, list, first, last, upper, snap, flush, backup>>

GateStays == backup.waiters > 0

\* The gate stays closed if another backup waits; one of them is signalled.
OpenGate(t) ==
  /\ pc[t] = "copying"
  /\ backup' = [backup EXCEPT !.claimed = FALSE, !.inProgress = @ /\ GateStays]
  /\ LET moved == [pc EXCEPT ![t] = IF linked[t] THEN "publish" ELSE "idle"]
         queued == {u \in Threads : pc[u] = "queued"}
     IN  IF GateStays /\ queued # {}
         THEN \E u \in queued : pc' = [moved EXCEPT ![u] = "requeue"]
         ELSE pc' = moved
  /\ UNCHANGED <<left, batch, list, seqs, flush>>

-----------------------------------------------------------------------------
(***************************************************************************)
(* CompactMemTableThread.  TEST_CompactRange signals it too (Nudge), which  *)
(* matters only while imm_ is set.                                          *)
(***************************************************************************)
Nudge ==
  /\ bg = "wait" /\ imm
  /\ bg' = "awake"
  /\ UNCHANGED <<pc, left, batch, list, seqs, imm, bgError, backup>>

\* The thread wakes and finds imm_ set, or waits again.
MemtableWakes ==
  /\ bg = "awake"
  /\ bg' = IF imm THEN "flush" ELSE "wait"
  /\ UNCHANGED <<pc, left, batch, list, seqs, imm, bgError, backup>>

\* The table is installed, imm_ reset and bg_fg_cv_ signalled.
FlushOk ==
  /\ bg = "flush"
  /\ imm' = FALSE
  /\ bg' = "wait"
  /\ pc' = SignalAllForeground(pc)
  /\ UNCHANGED <<left, batch, list, seqs, bgError, backup>>

\* WriteLevel0Table or LogAndApply fails: the error is recorded, and imm_
\* compacted again at once.
FlushFails ==
  /\ bg = "flush" /\ Faults
  /\ bgError' = TRUE
  /\ pc' = IF bgError THEN pc ELSE SignalAllForeground(pc)
  /\ UNCHANGED <<left, batch, list, seqs, imm, bg, backup>>

-----------------------------------------------------------------------------
\* A step a thread takes inside a call.
Step(t) ==
  \/ BeginYieldsError(t) \/ BeginRoom(t) \/ BeginWaits(t) \/ BeginSwitches(t)
  \/ BeginSwitchFails(t) \/ Link(t) \/ PassGate(t)
  \/ Insert(t) \/ InsertFails(t) \/ RecordError(t)
  \/ Publish(t) \/ Unlink(t) \/ Notify(t) \/ Settle(t)
  \/ EnlistAlone(t) \/ Enlist(t) \/ WaitAgain(t) \/ Depart(t)
  \/ Claim(t) \/ Drain(t) \/ Drained(t) \/ Copy(t) \/ OpenGate(t)

\* What the clients of the database choose to do.
Client(t) ==
  \/ \E b \in Batches : CallWrite(t, b)
  \/ Sample(t)
  \/ ReleaseSnapshot(t)
  \/ CallBackup(t)

MemtableThread == MemtableWakes \/ FlushOk \/ FlushFails

\* Every call has returned and none is left: the only way the model may stop.
Quiet ==
  /\ \A t \in Threads : pc[t] = "idle" /\ left[t] = 0
  /\ bg = "wait"
  /\ UNCHANGED vars

Next ==
  \/ \E t \in Threads : Step(t) \/ Client(t)
  \/ Nudge
  \/ MemtableThread
  \/ Quiet

Spec == Init /\ [][Next]_vars

\* A thread inside a call is scheduled again and gets the mutexes it asks for,
\* and so does the memtable thread.  After an error its retries may fail for ever.
FairSpec ==
  /\ Spec
  /\ \A t \in Threads : WF_vars(Step(t))
  /\ WF_vars(MemtableWakes)
  /\ WF_vars(~bgError /\ (FlushOk \/ FlushFails))

-----------------------------------------------------------------------------
TypeOK ==
  /\ pc \in [Threads -> PCs]
  /\ left \in [Threads \cup {DISK} -> Nat]
  /\ batch \in [Threads -> Nat \cup {NULL}]
  /\ linked \in [Threads -> BOOLEAN]
  /\ prev \in [Threads -> Threads \cup {NULL}]
  /\ next \in [Threads -> Threads \cup {NULL}]
  /\ tail \in Threads \cup {NULL}
  /\ hasImm \in [Threads -> BOOLEAN]
  /\ wake \in [Threads -> BOOLEAN]
  /\ block \in [Threads -> BOOLEAN]
  /\ first \in [Threads -> Nat]
  /\ last \in [Threads -> Nat]
  /\ upper \in Nat
  /\ lastSeq \in Nat
  /\ snap \in [Threads -> Nat]
  /\ imm \in BOOLEAN
  /\ bg \in {"wait", "awake", "flush"}
  /\ bgError \in BOOLEAN
  /\ backup \in [inProgress : BOOLEAN, claimed : BOOLEAN, waiters : Nat]

(***************************************************************************)
(* No pointer of the list reaches a Writer that has left the list, whose    *)
(* stack frame may be gone, and prev_ and next_ always mirror each other:   *)
(* SequenceWriteEnd and WaitOutWriters may follow both without a check.     *)
(* The assertions at db_impl.cc:1668, 1700 and 1710 follow from it.         *)
(***************************************************************************)
ListSound ==
  /\ tail # NULL => linked[tail] /\ next[tail] = NULL
  /\ \A t \in Threads :
       /\ ~linked[t] => prev[t] = NULL /\ next[t] = NULL
       /\ prev[t] # NULL => linked[prev[t]] /\ next[prev[t]] = t
       /\ next[t] # NULL => linked[next[t]] /\ prev[next[t]] = t

HasTicket(t) == linked[t] /\ t \notin Snapshotters

(***************************************************************************)
(* Two writers in flight never share a sequence number, every number handed *)
(* out is below writers_upper_, and LastSequence never runs ahead of it.    *)
(***************************************************************************)
TicketsDisjoint ==
  /\ lastSeq <= upper
  /\ \A t \in Threads : HasTicket(t) =>
       /\ first[t] <= last[t] /\ last[t] <= upper
       /\ \A u \in Threads \ {t} : HasTicket(u) =>
            last[t] < first[u] \/ last[u] < first[t]

(***************************************************************************)
(* Along prev_, sequence numbers decrease: a writer linked ahead of another *)
(* has the smaller range, whatever waiters stand between them.              *)
(***************************************************************************)
QueueInTicketOrder ==
  \A t \in Threads : HasTicket(t) =>
    \A u \in Ahead(t) : HasTicket(u) => last[u] < first[t]

(***************************************************************************)
(* No wakeup is lost in the queue: a thread that sleeps until it is the     *)
(* head in WaitOutWriters or LiveBackup still has a predecessor, which will *)
(* signal it when it leaves.                                                *)
(***************************************************************************)
NoSleepingHead ==
  \A t \in Threads : pc[t] \in {"waiting", "draining"} => prev[t] # NULL /\ wake[t]

(***************************************************************************)
(* The duty to tell the memtable thread of a switch is handed from writer   *)
(* to writer and never dropped: while imm_ is set, some writer carries      *)
(* has_imm_ and has its SequenceWriteEnd or WaitOutWriters to finish, or    *)
(* the memtable thread has been signalled.                                  *)
(***************************************************************************)
FlushDutyKept ==
  imm => \/ bg # "wait"
         \/ \E t \in Threads : hasImm[t] /\ (linked[t] \/ pc[t] \in {"link", "notify"})

(***************************************************************************)
(* One backup at a time is between claiming backup_waiter_has_it_ and       *)
(* giving it up, and the gate stays closed as long as one is.               *)
(***************************************************************************)
InBackup(t) ==
  t \in Backups /\ pc[t] \in {"room", "full", "link", "drain", "draining",
                              "drained", "copy", "copying"}

BackupsExclusive ==
  /\ \A t, u \in Threads : InBackup(t) /\ InBackup(u) => t = u
  /\ \A t \in Threads : InBackup(t) => backup.inProgress /\ backup.claimed

(***************************************************************************)
(* backup_waiters_ counts the threads in the wait loop of LiveBackup, and   *)
(* as long as there are any the gate is not opened.                         *)
(***************************************************************************)
WaitingBackups == {t \in Threads : pc[t] \in {"queued", "requeue"}}

WaitingBackupsCounted ==
  /\ backup.waiters = Cardinality(WaitingBackups)
  /\ WaitingBackups # {} => backup.inProgress

(***************************************************************************)
(* A snapshot that GetSnapshot returned is stable: no write with a sequence *)
(* number the snapshot includes is still to reach the memtable.             *)
(***************************************************************************)
InFlight(t) == t \in Writers /\ linked[t] /\ pc[t] \in {"gated", "regate", "write"}

SnapshotStable ==
  \A s \in Snapshotters : pc[s] = "holding" =>
    \A w \in Writers : InFlight(w) /\ Count(w) > 0 => first[w] > snap[s]

(***************************************************************************)
(* Every call of Write, GetSnapshot and LiveBackup returns.                 *)
(***************************************************************************)
CallsReturn == \A t \in Threads : []<>(pc[t] \in {"idle", "holding"})
=============================================================================
