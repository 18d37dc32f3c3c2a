---------------------------- MODULE WritePathProofs ----------------------------
(***************************************************************************)
(* Proofs about the write path, for any batches, any number of calls and    *)
(* any number of crashes.                                                   *)
(*                                                                          *)
(* The first part is about a database with a single writer and no backup,   *)
(* and any failures of the file system while it is open.  With a second     *)
(* thread the writes that are in flight at a switch of memtables may be     *)
(* lost: see flush_race.                                                    *)
(*                                                                          *)
(* The second part is about LiveBackup with any writers and backups, when   *)
(* the file system does not fail: what is durable where the backup is made  *)
(* is in the backup.  After a failure it may not be: see                    *)
(* backup_after_error.                                                      *)
(***************************************************************************)
EXTENDS WritePath, WellFoundedInduction, TLAPS

OneWriter == Backups = {} /\ (\A s, t \in Writers : s = t) /\ ~RecoverFaults

\* Where a thread is that has no batch under way.
Resting == {"idle", "room", "full", "notify", "settle", "settling"}

\* Where it is between Begin and End.
Working == {"gated", "regate", "write", "publish", "unlink"}

PathTypes ==
  /\ pc \in [Threads -> Resting \cup Working \cup {"link", "fail"}]
  /\ batch \in [Threads -> Nat \cup {NULL}]
  /\ linked \in [Threads -> BOOLEAN]
  /\ first \in [Threads -> Nat] /\ last \in [Threads -> Nat]
  /\ upper \in Nat /\ lastSeq \in Nat
  /\ imm \in BOOLEAN /\ up \in BOOLEAN
  /\ cur \in Nat /\ old \in Nat
  /\ mems \subseteq Nat \X Nat /\ records \subseteq Nat \X Nat
  /\ live \subseteq Nat /\ acked \subseteq Nat /\ logs \subseteq Nat
  /\ held \in [Threads -> Nat]
  /\ done \in [Threads -> {"none", "logged", "inserted"}]
  /\ job \in [stage : {"none", "build", "apply", "commit"}, seen : SUBSET Nat,
              add : SUBSET Nat, log : Nat, last : Nat]
  /\ disk \in [tables : SUBSET Nat, log : Nat, last : Nat]

-----------------------------------------------------------------------------
Free(t) == held[t] = 0 /\ done[t] = "none" /\ ~linked[t]

\* A thread that has its ticket writes to the current log and memtable, with
\* numbers above all that is stored elsewhere.
Holds(t) ==
  /\ linked[t] /\ held[t] = cur
  /\ first[t] + Count(t) = last[t] /\ last[t] <= upper
  /\ pc[t] \in {"gated", "regate"} => done[t] = "none"
  /\ pc[t] \in {"write", "fail"} => done[t] # "inserted"
  /\ pc[t] = "unlink" => last[t] <= lastSeq
  /\ done[t] # "none" => \A op \in Ops(t) : <<cur, op>> \in records
  /\ done[t] = "inserted" => \A op \in Ops(t) : <<cur, op>> \in mems
  /\ \A op \in disk.tables \cup live : op < first[t]
  /\ \A p \in mems : p[1] # cur => p[2] < first[t]

WriterInv(t) ==
  /\ pc[t] \in Resting => Free(t)
  /\ pc[t] = "link" => held[t] = cur /\ done[t] = "none" /\ ~linked[t]
  /\ pc[t] \in Working => Holds(t)
  /\ pc[t] = "fail" => Free(t) \/ Holds(t)

\* While the process is down.
DownInv ==
  ~up => /\ ~imm /\ mems = {} /\ live = {} /\ job.stage = "none"
         /\ lastSeq = 0 /\ upper = 0
         /\ \A t \in Threads : pc[t] = "idle"

NumberInv ==
  /\ lastSeq <= upper
  /\ up => disk.last <= lastSeq
  /\ \A op \in disk.tables : op <= disk.last
  /\ \A p \in mems : \/ p[2] <= lastSeq
                     \/ /\ p[1] = cur /\ p[2] <= upper
                        /\ \E t \in Threads : pc[t] = "publish" /\ p[2] <= last[t]
  /\ \E b \in Nat : \A p \in records : p[2] <= b

\* Newer operations are in newer places.
OrderInv ==
  /\ \A p, q \in mems : p[1] # cur /\ q[1] = cur => p[2] < q[2]
  /\ \A op \in live : \A p \in mems : op < p[2]

PlaceInv ==
  /\ live \subseteq disk.tables
  /\ \A p \in mems : p[1] = cur \/ (imm /\ p[1] = old)
  /\ imm => old < cur
  /\ up => cur \in logs /\ disk.log <= cur /\ \A l \in logs : l <= cur
  /\ \E m \in logs : \A l \in logs : l <= m

JobInv ==
  /\ job.stage # "none" => imm
  /\ job.stage = "build" => job.seen = In(mems, old)
  /\ job.stage \in {"apply", "commit"} => job.add = In(mems, old) /\ job.log = cur
  /\ job.stage = "apply" => /\ disk.last <= job.last /\ job.last <= lastSeq
                            /\ \A op \in job.add : op <= job.last
  /\ job.stage = "commit" => job.add \subseteq disk.tables

AckedInv ==
  /\ up => \A op \in acked :
       /\ op <= lastSeq
       /\ \/ <<cur, op>> \in mems /\ <<cur, op>> \in records
          \/ /\ imm /\ <<old, op>> \in mems
             /\ op \in disk.tables \/ (<<old, op>> \in records /\ old \in Replayed)
          \/ op \in live
  /\ ~up => AckedDurable

PathInv ==
  /\ PathTypes
  /\ \A t \in Threads : WriterInv(t)
  /\ DownInv /\ NumberInv /\ OrderInv /\ PlaceInv /\ JobInv /\ AckedInv

-----------------------------------------------------------------------------
(***************************************************************************)
(* A set of numbers that is not empty and has a bound has a maximum.        *)
(***************************************************************************)
LEMMA LeastExists ==
  ASSUME NEW T, T \subseteq Nat, T # {}
  PROVE  \E x \in T : \A y \in T : x <= y
<1> DEFINE R == OpToRel(<, Nat)
<1>1. IsWellFoundedOn(R, Nat)
  BY NatLessThanWellFounded, Zenon
<1>2. \A x, y \in Nat : y < x => <<y, x>> \in R
  BY Zenon DEF OpToRel
<1> HIDE DEF R
<1>3. PICK x \in T : \A y \in T : ~(<<y, x>> \in R)
  BY <1>1, WFMin, Zenon
<1>4. ASSUME NEW y \in T PROVE x <= y
  <2>1. x \in Nat /\ y \in Nat
    BY Zenon
  <2>2. ~(y < x)
    BY <1>2, <1>3, <2>1, Zenon
  <2> QED
    BY <2>1, <2>2
<1> QED
  BY <1>4, Zenon

LEMMA MaxIs ==
  ASSUME NEW S, S \subseteq Nat, S # {}, NEW b \in Nat, \A x \in S : x <= b
  PROVE  Max(S) \in S /\ \A x \in S : x <= Max(S)
<1> DEFINE T == {b - x : x \in S}
<1>1. T \subseteq Nat /\ T # {}
  <2>1. ASSUME NEW x \in S PROVE b - x \in Nat
    <3>1. x \in Nat /\ x <= b
      BY Zenon
    <3> QED
      BY <3>1
  <2> QED
    BY <2>1, Zenon
<1> HIDE DEF T
<1>2. PICK d \in T : \A y \in T : d <= y
  BY <1>1, LeastExists, Zenon
<1>3. PICK m \in S : d = b - m
  BY Zenon DEF T
<1>4. \A x \in S : m >= x
  <2> SUFFICES ASSUME NEW x \in S PROVE m >= x
    BY Zenon
  <2>1. b - x \in T
    BY Zenon DEF T
  <2>2. b - m <= b - x /\ m \in Nat /\ x \in Nat
    BY <1>2, <1>3, <2>1, Zenon
  <2> QED
    BY <2>2
<1>5. Max(S) \in S /\ \A y \in S : Max(S) >= y
  BY <1>4, Zenon DEF Max
<1> QED
  BY <1>5, Zenon

-----------------------------------------------------------------------------
(***************************************************************************)
(* There is at most one thread, and it calls Write.                         *)
(***************************************************************************)
LEMMA Alone ==
  ASSUME OneWriter, NEW t \in Threads
  PROVE  t \in Writers /\ t \notin Backups /\ \A u \in Threads : u = t
BY CrashAssumption, Zenon DEF OneWriter, Threads

LEMMA RestingMems ==
  ASSUME OneWriter, PathInv, NEW t \in Threads, pc[t] # "publish"
  PROVE  \A p \in mems : p[2] <= lastSeq
BY Alone, Zenon DEF PathInv, NumberInv

(***************************************************************************)
(* The thread moves, and neither memtables nor files change.                *)
(***************************************************************************)
LEMMA ThreadMoves ==
  ASSUME OneWriter, PathInv, up, NEW t \in Threads, pc[t] # "publish",
         UNCHANGED <<pathVars, imm, lastSeq>>, upper' \in Nat, upper' >= upper,
         PathTypes', WriterInv(t)'
  PROVE  PathInv'
<1>1. /\ UNCHANGED <<up, cur, old, mems, live, held, done, job, logs, records, disk, acked, imm, lastSeq>>
  BY Zenon DEF pathVars, memory, files
<1>2. \A u \in Threads : WriterInv(u)'
  BY Alone, Zenon
<1>3. DownInv'
  BY <1>1, Zenon DEF DownInv
<1>4. NumberInv'
  <2>1. \A p \in mems : p[2] <= lastSeq
    BY RestingMems, Zenon
  <2>2. lastSeq <= upper'
    BY DEF PathInv, PathTypes, NumberInv
  <2> QED
    BY <1>1, <2>1, <2>2, Zenon DEF PathInv, NumberInv
<1>5. OrderInv' /\ PlaceInv'
  BY <1>1 DEF PathInv, OrderInv, PlaceInv
<1>6. JobInv'
  BY <1>1 DEF PathInv, JobInv, In
<1>7. AckedInv'
  BY <1>1 DEF PathInv, AckedInv, AckedDurable, Replayed
<1> QED
  BY <1>2, <1>3, <1>4, <1>5, <1>6, <1>7, Zenon DEF PathInv

\* Steps that leave the thread without a batch under way.
LEMMA RestingMoves ==
  ASSUME OneWriter, PathInv, up, NEW t \in Threads, UNCHANGED pathVars,
         \/ \E b \in Batches : CallWrite(t, b)
         \/ BeginYieldsError(t) \/ BeginWaits(t) \/ BeginSwitchFails(t)
         \/ Notify(t) \/ Settle(t)
  PROVE  PathInv'
<1>1. /\ pc[t] \in Resting
      /\ UNCHANGED <<linked, first, last, upper, lastSeq, imm>>
      /\ \E p \in Resting \cup {"fail"} : pc' = [pc EXCEPT ![t] = p]
      /\ batch' \in [Threads -> Nat \cup {NULL}]
  <2>1. batch \in [Threads -> Nat \cup {NULL}]
    BY Zenon DEF PathInv, PathTypes
  <2>2. t \notin Backups /\ t \notin Snapshotters
    BY Alone, CrashAssumption, Zenon
  <2>3. CASE \E b \in Batches : CallWrite(t, b)
    BY <2>1, <2>3, CallsAssumption, Zenon DEF CallWrite, list, seqs, flush, Resting
  <2>4. CASE BeginYieldsError(t) \/ BeginSwitchFails(t)
    BY <2>1, <2>2, <2>4, Zenon DEF BeginYieldsError, BeginSwitchFails, BeginFailed, list, seqs, flush, Resting
  <2>5. CASE BeginWaits(t)
    BY <2>1, <2>5, Zenon DEF BeginWaits, list, seqs, Resting
  <2>6. CASE Notify(t)
    BY <2>1, <2>2, <2>6, Zenon DEF Notify, Ended, seqs, Resting
  <2>7. CASE Settle(t)
    BY <2>1, <2>7, Zenon DEF Settle, list, seqs, flush, Resting
  <2> QED
    BY <2>3, <2>4, <2>5, <2>6, <2>7, Zenon
<1>2. UNCHANGED <<up, cur, old, mems, live, held, done, job, logs, records, disk, acked, imm, lastSeq>>
  BY <1>1, Zenon DEF pathVars, memory, files
<1>3. PathTypes'
  <2>1. pc' \in [Threads -> Resting \cup Working \cup {"link", "fail"}]
    BY <1>1, Zenon DEF PathInv, PathTypes
  <2> QED
    BY <1>1, <1>2, <2>1, Zenon DEF PathInv, PathTypes
<1>4. Free(t) /\ pc[t] # "publish"
  BY <1>1, Zenon DEF PathInv, WriterInv, Resting
<1>5. pc'[t] \in Resting \cup {"fail"}
  BY <1>1, Zenon DEF PathInv, PathTypes
<1>6. WriterInv(t)'
  BY <1>1, <1>2, <1>4, <1>5, Zenon DEF WriterInv, Free, Resting, Working
<1>7. upper' \in Nat /\ upper' >= upper
  BY <1>1 DEF PathInv, PathTypes
<1> QED
  BY <1>1, <1>3, <1>4, <1>6, <1>7, ThreadMoves, Zenon

LEMMA LinkMoves ==
  ASSUME OneWriter, PathInv, up, NEW t \in Threads, UNCHANGED pathVars, Link(t)
  PROVE  PathInv'
<1> DEFINE c == Count(t)
<1>1. UNCHANGED <<up, cur, old, mems, live, held, done, job, logs, records, disk, acked>>
  BY Zenon DEF pathVars, memory, files
<1>2. /\ pc[t] = "link" /\ linked' = [linked EXCEPT ![t] = TRUE]
      /\ upper' = Ticket(t) /\ first' = [first EXCEPT ![t] = Ticket(t) - c]
      /\ last' = [last EXCEPT ![t] = Ticket(t)]
      /\ UNCHANGED <<batch, lastSeq, imm>>
      /\ \E p \in {"gated", "write"} : pc' = [pc EXCEPT ![t] = p]
  <2>1. t \notin Backups
    BY Alone, Zenon
  <2>2. \E p \in {"gated", "write"} : pc' = [pc EXCEPT ![t] = p]
    BY <2>1, Zenon DEF Link, Linked
  <2>3. pc[t] = "link" /\ linked' = [linked EXCEPT ![t] = TRUE] /\ UNCHANGED <<batch, lastSeq, imm>>
    BY Zenon DEF Link, LinkAtTail, flush
  <2>4. /\ upper' = Ticket(t) /\ first' = [first EXCEPT ![t] = Ticket(t) - c]
        /\ last' = [last EXCEPT ![t] = Ticket(t)]
    BY Zenon DEF Link
  <2> QED
    BY <2>2, <2>3, <2>4, Zenon
<1>3. c \in Nat /\ Count(t)' = c
  BY <1>2, CallsAssumption, Zenon DEF Count, PathInv, PathTypes
<1>4. /\ linked'[t] /\ upper' = upper + 1 + c /\ first'[t] = upper + 1 /\ last'[t] = upper + 1 + c
      /\ pc'[t] \in {"gated", "write"} /\ Ticket(t) \in Nat /\ Ticket(t) - c \in Nat
  <2>1. upper \in Nat
    BY Zenon DEF PathInv, PathTypes
  <2>2. Ticket(t) = upper + 1 + c
    BY Zenon DEF Ticket
  <2>3. Ticket(t) \in Nat /\ Ticket(t) - c = upper + 1
    BY <1>3, <2>1, <2>2
  <2> QED
    BY <1>2, <2>1, <2>2, <2>3 DEF PathInv, PathTypes
<1>5. PathTypes'
  <2>1. pc' \in [Threads -> Resting \cup Working \cup {"link", "fail"}]
    BY <1>2, Zenon DEF PathInv, PathTypes, Working
  <2>2. /\ first' \in [Threads -> Nat] /\ last' \in [Threads -> Nat] /\ upper' \in Nat
        /\ linked' \in [Threads -> BOOLEAN]
    BY <1>2, <1>4, Zenon DEF PathInv, PathTypes
  <2> QED
    BY <1>1, <1>2, <2>1, <2>2, Zenon DEF PathInv, PathTypes
<1>6. upper' \in Nat /\ upper' >= upper
  BY <1>3, <1>4 DEF PathInv, PathTypes
<1>7. held[t] = cur /\ done[t] = "none"
  BY <1>2, Zenon DEF PathInv, WriterInv
<1>8. \A op \in disk.tables \cup live : op < upper + 1
  BY DEF PathInv, PathTypes, NumberInv, PlaceInv
<1>9. \A p \in mems : p[2] < upper + 1
  <2>1. \A p \in mems : p[2] <= lastSeq /\ p[2] \in Nat
    BY <1>2, RestingMems, Zenon DEF PathInv, PathTypes
  <2> QED
    BY <2>1 DEF PathInv, PathTypes, NumberInv
<1>10. first'[t] + Count(t)' = last'[t] /\ last'[t] <= upper'
  BY <1>3, <1>4, <1>6 DEF PathInv, PathTypes
<1>11. Holds(t)'
  BY <1>1, <1>4, <1>7, <1>8, <1>9, <1>10, Zenon DEF Holds
<1>12. WriterInv(t)'
  BY <1>4, <1>11, Zenon DEF WriterInv, Resting
<1> QED
  BY <1>1, <1>2, <1>5, <1>6, <1>12, ThreadMoves, Zenon

\* Steps between Begin and End that touch neither memtable nor log.
LEMMA WorkMoves ==
  ASSUME OneWriter, PathInv, up, NEW t \in Threads, UNCHANGED pathVars,
         PassGate(t) \/ InsertFails(t) \/ RecordError(t)
  PROVE  PathInv'
<1>1. UNCHANGED <<up, cur, old, mems, live, held, done, job, logs, records, disk, acked>>
  BY Zenon DEF pathVars, memory, files
<1>2. /\ UNCHANGED <<batch, linked, first, last, upper, lastSeq, imm>>
      /\ pc[t] \in {"regate", "write", "fail"}
  BY Zenon DEF PassGate, InsertFails, RecordError, list, seqs, flush
<1>3. /\ pc' = [u \in Threads |-> pc'[t]]
      /\ \/ pc[t] = "regate" /\ pc'[t] \in {"gated", "write"}
         \/ pc[t] = "write" /\ pc'[t] = "fail"
         \/ pc[t] = "fail" /\ linked[t] /\ pc'[t] = "publish"
         \/ pc[t] = "fail" /\ ~linked[t] /\ pc'[t] = "idle"
  <2>1. t \notin Backups /\ \A u \in Threads : u = t
    BY Alone, Zenon
  <2>2. pc = [u \in Threads |-> pc[u]]
    BY Zenon DEF PathInv, PathTypes
  <2>3. CASE PassGate(t)
    <3>1. PICK p \in {"gated", "write"} : pc' = [pc EXCEPT ![t] = p]
      BY <2>1, <2>3, Zenon DEF PassGate, Linked
    <3> QED
      BY <2>1, <2>2, <2>3, <3>1, Zenon DEF PassGate
  <2>4. CASE InsertFails(t)
    BY <2>1, <2>2, <2>4, Zenon DEF InsertFails
  <2>5. CASE RecordError(t)
    <3> DEFINE f == [pc EXCEPT ![t] = IF linked[t] THEN "publish" ELSE "idle"]
    <3>1. f[t] = (IF linked[t] THEN "publish" ELSE "idle") /\ f = [u \in Threads |-> f[t]]
      BY <2>1, <2>2, Zenon
    <3>2. pc' = f \/ pc' = SignalAllForeground(f)
      BY <2>5, Zenon DEF RecordError
    <3> HIDE DEF f
    <3>3. SignalAllForeground(f) = [u \in Threads |-> SignalAllForeground(f)[t]]
      BY <2>1, Zenon DEF SignalAllForeground
    <3>4. SignalAllForeground(f)[t] = f[t]
      BY <3>1, Zenon DEF SignalAllForeground
    <3>5. pc'[t] = f[t] /\ pc' = [u \in Threads |-> pc'[t]]
      BY <3>1, <3>2, <3>3, <3>4, Zenon
    <3>6. pc[t] = "fail"
      BY <2>5, Zenon DEF RecordError
    <3> QED
      BY <3>1, <3>5, <3>6, Zenon
  <2> QED
    BY <2>3, <2>4, <2>5, Zenon
<1>4. PathTypes'
  <2>1. pc' \in [Threads -> Resting \cup Working \cup {"link", "fail"}]
    BY <1>3, Zenon DEF Resting, Working
  <2> QED
    BY <1>1, <1>2, <2>1, Zenon DEF PathInv, PathTypes
<1>5. WriterInv(t)'
  <2>1. WriterInv(t)
    BY Zenon DEF PathInv
  <2>2. Count(t)' = Count(t) /\ Ops(t)' = Ops(t)
    BY <1>2, Zenon DEF Count, Ops
  <2>3. CASE pc[t] = "fail" /\ ~linked[t]
    BY <1>1, <1>2, <1>3, <2>1, <2>3, Zenon DEF WriterInv, Holds, Free, Resting, Working
  <2>4. CASE ~(pc[t] = "fail" /\ ~linked[t])
    <3>1. Holds(t)
      BY <1>2, <2>1, <2>4, Zenon DEF WriterInv, Working, Free
    <3>2. Holds(t)'
      BY <1>1, <1>2, <1>3, <2>2, <2>4, <3>1, Zenon DEF Holds
    <3> QED
      BY <1>3, <2>4, <3>2, Zenon DEF WriterInv, Resting, Working
  <2> QED
    BY <2>3, <2>4, Zenon
<1>6. upper' \in Nat /\ upper' >= upper /\ pc[t] # "publish"
  BY <1>2 DEF PathInv, PathTypes
<1> QED
  BY <1>2, <1>4, <1>5, <1>6, ThreadMoves, Zenon

LEMMA PublishMoves ==
  ASSUME OneWriter, PathInv, up, NEW t \in Threads, UNCHANGED pathVars, Publish(t)
  PROVE  PathInv'
<1>1. UNCHANGED <<up, cur, old, mems, live, held, done, job, logs, records, disk, acked>>
  BY Zenon DEF pathVars, memory, files
<1>2. /\ UNCHANGED <<batch, linked, first, last, upper, imm>>
      /\ pc[t] = "publish" /\ pc' = [pc EXCEPT ![t] = "unlink"]
      /\ lastSeq' = IF last[t] > lastSeq THEN last[t] ELSE lastSeq
  BY Zenon DEF Publish, SetLastSequence, list, flush
<1>3. Holds(t) /\ pc'[t] = "unlink"
  BY <1>2, Zenon DEF PathInv, PathTypes, WriterInv, Working
<1>4. last[t] \in Nat /\ lastSeq \in Nat /\ upper \in Nat /\ last[t] <= upper /\ lastSeq <= upper
  BY <1>3, Zenon DEF PathInv, PathTypes, NumberInv, Holds
<1>5. lastSeq' \in Nat /\ lastSeq' >= lastSeq /\ lastSeq' >= last[t] /\ lastSeq' <= upper
  BY <1>2, <1>4
<1>6. PathTypes'
  <2>1. pc' \in [Threads -> Resting \cup Working \cup {"link", "fail"}]
    BY <1>2, Zenon DEF PathInv, PathTypes, Working
  <2> QED
    BY <1>1, <1>2, <1>5, <2>1, Zenon DEF PathInv, PathTypes
<1>7. WriterInv(t)'
  <2>1. Count(t)' = Count(t) /\ Ops(t)' = Ops(t)
    BY <1>2, Zenon DEF Count, Ops
  <2>2. Holds(t)'
    BY <1>1, <1>2, <1>3, <1>4, <1>5, <2>1, Zenon DEF Holds
  <2> QED
    BY <1>3, <2>2, Zenon DEF WriterInv, Resting
<1>8. \A u \in Threads : WriterInv(u)'
  BY <1>7, Alone, Zenon
<1>9. DownInv'
  BY <1>1, Zenon DEF DownInv
<1>10. NumberInv'
  <2>1. ASSUME NEW p \in mems PROVE p[2] <= lastSeq'
    <3>1. p[2] \in Nat
      BY Zenon DEF PathInv, PathTypes
    <3>2. p[2] <= lastSeq \/ p[2] <= last[t]
      BY Alone, Zenon DEF PathInv, NumberInv
    <3> QED
      BY <1>4, <1>5, <3>1, <3>2
  <2>2. disk.last <= lastSeq'
    BY <1>4, <1>5 DEF PathInv, PathTypes, NumberInv
  <2> QED
    BY <1>1, <1>2, <1>5, <2>1, <2>2, Zenon DEF PathInv, NumberInv
<1>11. OrderInv' /\ PlaceInv'
  BY <1>1, <1>2, Zenon DEF PathInv, OrderInv, PlaceInv
<1>12. JobInv'
  <2>1. job.stage = "apply" => job.last <= lastSeq'
    BY <1>4, <1>5 DEF PathInv, PathTypes, JobInv
  <2> QED
    BY <1>1, <1>2, <2>1, Zenon DEF PathInv, JobInv, In
<1>13. AckedInv'
  <2>1. \A op \in acked : op <= lastSeq'
    <3> SUFFICES ASSUME NEW op \in acked PROVE op <= lastSeq'
      BY Zenon
    <3>1. op \in Nat /\ op <= lastSeq
      BY Zenon DEF PathInv, PathTypes, AckedInv
    <3> QED
      BY <1>4, <1>5, <3>1
  <2> QED
    BY <1>1, <1>2, <2>1, Zenon DEF PathInv, AckedInv, Replayed
<1> QED
  BY <1>6, <1>8, <1>9, <1>10, <1>11, <1>12, <1>13, Zenon DEF PathInv

(***************************************************************************)
(* Begin: the thread takes the current memtable, or switches to a new one.  *)
(***************************************************************************)
LEMMA RoomMoves ==
  ASSUME OneWriter, PathInv, up, NEW t \in Threads, TakeRoom(t)
  PROVE  PathInv'
<1>1. /\ pc[t] = "room" /\ pc' = [pc EXCEPT ![t] = "link"] /\ held' = [held EXCEPT ![t] = cur]
      /\ UNCHANGED <<batch, linked, first, last, upper, lastSeq, imm>>
      /\ UNCHANGED <<up, cur, old, mems, live, done, job, logs, records, disk, acked>>
  BY Zenon DEF TakeRoom, BeginRoom, list, seqs, flush, files
<1>2. Free(t) /\ pc'[t] = "link" /\ held'[t] = cur
  BY <1>1, Zenon DEF PathInv, PathTypes, WriterInv, Resting
<1>3. PathTypes'
  <2>1. pc' \in [Threads -> Resting \cup Working \cup {"link", "fail"}] /\ held' \in [Threads -> Nat]
    BY <1>1, Zenon DEF PathInv, PathTypes
  <2> QED
    BY <1>1, <2>1, Zenon DEF PathInv, PathTypes
<1>4. WriterInv(t)'
  BY <1>1, <1>2, Zenon DEF WriterInv, Free, Resting, Working
<1>5. \A u \in Threads : WriterInv(u)'
  BY <1>4, Alone, Zenon
<1>6. DownInv'
  BY <1>1, Zenon DEF DownInv
<1>7. NumberInv'
  <2>1. \A p \in mems : p[2] <= lastSeq
    BY <1>1, RestingMems, Zenon
  <2> QED
    BY <1>1, <2>1, Zenon DEF PathInv, NumberInv
<1>8. OrderInv' /\ PlaceInv'
  BY <1>1, Zenon DEF PathInv, OrderInv, PlaceInv
<1>9. JobInv'
  BY <1>1, Zenon DEF PathInv, JobInv, In
<1>10. AckedInv'
  BY <1>1, Zenon DEF PathInv, AckedInv, AckedDurable, Replayed
<1> QED
  BY <1>3, <1>5, <1>6, <1>7, <1>8, <1>9, <1>10, Zenon DEF PathInv

LEMMA SwitchMoves ==
  ASSUME OneWriter, PathInv, up, NEW t \in Threads, Switch(t)
  PROVE  PathInv'
<1>1. /\ pc[t] = "room" /\ ~imm /\ imm' = TRUE /\ pc' = [pc EXCEPT ![t] = "link"]
      /\ old' = cur /\ cur' = cur + 1 /\ logs' = logs \cup {cur + 1}
      /\ held' = [held EXCEPT ![t] = cur + 1]
      /\ UNCHANGED <<batch, linked, first, last, upper, lastSeq>>
      /\ UNCHANGED <<up, mems, live, done, job, records, disk, acked>>
  BY Zenon DEF Switch, BeginSwitches, seqs
<1>2. cur \in Nat /\ cur + 1 \in Nat /\ cur < cur + 1
  BY DEF PathInv, PathTypes
<1>3. Free(t) /\ pc'[t] = "link" /\ held'[t] = cur'
  BY <1>1, Zenon DEF PathInv, PathTypes, WriterInv, Resting
<1>4. PathTypes'
  <2>1. pc' \in [Threads -> Resting \cup Working \cup {"link", "fail"}] /\ held' \in [Threads -> Nat]
    BY <1>1, <1>2, Zenon DEF PathInv, PathTypes
  <2>2. logs' \subseteq Nat /\ cur' \in Nat /\ old' \in Nat
    BY <1>1, <1>2, Zenon DEF PathInv, PathTypes
  <2> QED
    BY <1>1, <2>1, <2>2, Zenon DEF PathInv, PathTypes
<1>5. WriterInv(t)'
  BY <1>1, <1>3, Zenon DEF WriterInv, Free, Resting, Working
<1>6. \A u \in Threads : WriterInv(u)'
  BY <1>5, Alone, Zenon
<1>7. DownInv'
  BY <1>1, Zenon DEF DownInv
<1>8. NumberInv'
  <2>1. \A p \in mems : p[2] <= lastSeq
    BY <1>1, RestingMems, Zenon
  <2> QED
    BY <1>1, <2>1, Zenon DEF PathInv, NumberInv
<1>9. \A p \in mems : p[1] = cur /\ p[1] # cur'
  BY <1>1, <1>2 DEF PathInv, PlaceInv
<1>10. OrderInv'
  BY <1>1, <1>9, Zenon DEF PathInv, OrderInv
<1>11. PlaceInv'
  <2>1. ASSUME NEW l \in logs' PROVE l <= cur'
    <3>1. CASE l \in logs
      <4>1. l \in Nat /\ l <= cur
        BY <3>1, Zenon DEF PathInv, PathTypes, PlaceInv
      <4> QED
        BY <1>1, <1>2, <4>1
    <3>2. CASE l = cur + 1
      BY <1>1, <1>2, <3>2
    <3> QED
      BY <1>1, <3>1, <3>2, Zenon
  <2>2. cur' \in logs' /\ disk'.log <= cur'
    BY <1>1, <1>2 DEF PathInv, PathTypes, PlaceInv
  <2>3. live' \subseteq disk'.tables
    BY <1>1, Zenon DEF PathInv, PlaceInv
  <2> QED
    BY <1>1, <1>2, <1>9, <2>1, <2>2, <2>3, Zenon DEF PlaceInv
<1>12. JobInv'
  BY <1>1, Zenon DEF PathInv, JobInv, In
<1>13. AckedInv'
  <2>1. cur \in Replayed'
    BY <1>1, Zenon DEF PathInv, PlaceInv, Replayed
  <2> QED
    BY <1>1, <2>1, Zenon DEF PathInv, AckedInv
<1> QED
  BY <1>4, <1>6, <1>7, <1>8, <1>10, <1>11, <1>12, <1>13, Zenon DEF PathInv

(***************************************************************************)
(* Write: the log record, the memtable, and the return.                     *)
(***************************************************************************)
LEMMA RecordMoves ==
  ASSUME OneWriter, PathInv, up, NEW t \in Threads, AddRecord(t)
  PROVE  PathInv'
<1>1. /\ pc[t] = "write" /\ done[t] = "none" /\ done' = [done EXCEPT ![t] = "logged"]
      /\ records' = records \cup ({held[t]} \X Ops(t))
      /\ UNCHANGED <<pc, batch, linked, first, last, upper, lastSeq, imm>>
      /\ UNCHANGED <<up, cur, old, mems, live, held, job, logs, disk, acked>>
  BY Zenon DEF AddRecord, vars, list, seqs, flush
<1>2. Holds(t) /\ done'[t] = "logged"
  BY <1>1, Zenon DEF PathInv, PathTypes, WriterInv, Working
<1>3. /\ held[t] = cur /\ cur \in Nat /\ first[t] \in Nat /\ last[t] \in Nat
      /\ upper \in Nat /\ last[t] <= upper
  BY <1>2, Zenon DEF PathInv, PathTypes, Holds
<1>4. \A op \in Ops(t) : op \in Nat /\ op <= upper
  BY <1>3 DEF Ops
<1>5. PathTypes'
  <2>1. done' \in [Threads -> {"none", "logged", "inserted"}]
    BY <1>1, Zenon DEF PathInv, PathTypes
  <2>2. records' \subseteq Nat \X Nat
    BY <1>1, <1>3, <1>4, Zenon DEF PathInv, PathTypes
  <2> QED
    BY <1>1, <2>1, <2>2, Zenon DEF PathInv, PathTypes
<1>6. WriterInv(t)'
  <2>1. Count(t)' = Count(t) /\ Ops(t)' = Ops(t)
    BY <1>1, Zenon DEF Count, Ops
  <2>2. \A op \in Ops(t) : <<cur, op>> \in records'
    BY <1>1, <1>3, Zenon
  <2>3. Holds(t)'
    BY <1>1, <1>2, <2>1, <2>2, Zenon DEF Holds
  <2> QED
    BY <1>1, <2>3, Zenon DEF WriterInv, Resting
<1>7. \A u \in Threads : WriterInv(u)'
  BY <1>6, Alone, Zenon
<1>8. DownInv'
  BY <1>1, Zenon DEF DownInv
<1>9. NumberInv'
  <2>1. PICK b \in Nat : \A p \in records : p[2] <= b
    BY Zenon DEF PathInv, NumberInv
  <2>2. b + upper \in Nat
    BY <1>3
  <2>3. ASSUME NEW p \in records' PROVE p[2] <= b + upper
    <3>1. CASE p \in records
      <4>1. p[2] \in Nat /\ p[2] <= b
        BY <2>1, <3>1, Zenon DEF PathInv, PathTypes
      <4> QED
        BY <1>3, <4>1
    <3>2. CASE p \in {held[t]} \X Ops(t)
      BY <1>3, <1>4, <3>2
    <3> QED
      BY <1>1, <3>1, <3>2, Zenon
  <2>4. \E d \in Nat : \A p \in records' : p[2] <= d
    BY <2>2, <2>3, Zenon
  <2> QED
    BY <1>1, <2>4, Zenon DEF PathInv, NumberInv
<1>10. OrderInv' /\ PlaceInv'
  BY <1>1, Zenon DEF PathInv, OrderInv, PlaceInv
<1>11. JobInv'
  BY <1>1, Zenon DEF PathInv, JobInv, In
<1>12. AckedInv'
  BY <1>1, Zenon DEF PathInv, AckedInv, Replayed
<1> QED
  BY <1>5, <1>7, <1>8, <1>9, <1>10, <1>11, <1>12, Zenon DEF PathInv

LEMMA PairsAdded ==
  ASSUME NEW M, NEW N, NEW c, NEW S, N = M \cup ({c} \X S)
  PROVE  \A p : p \in N <=> p \in M \/ \E op \in S : p = <<c, op>>
OBVIOUS

LEMMA InsertMoves ==
  ASSUME OneWriter, PathInv, up, NEW t \in Threads, InsertInto(t)
  PROVE  PathInv'
<1>1. /\ pc[t] = "write" /\ pc' = [pc EXCEPT ![t] = "publish"]
      /\ batch[t] # NULL => done[t] = "logged"
      /\ done' = [done EXCEPT ![t] = "inserted"]
      /\ mems' = mems \cup ({held[t]} \X Ops(t))
      /\ UNCHANGED <<batch, linked, first, last, upper, lastSeq, imm>>
      /\ UNCHANGED <<up, cur, old, live, held, job, logs, records, disk, acked>>
  BY Zenon DEF InsertInto, Insert, list, seqs, flush, files
<1>2. Holds(t) /\ done'[t] = "inserted" /\ pc'[t] = "publish"
  BY <1>1, Zenon DEF PathInv, PathTypes, WriterInv, Working
<1>3. /\ held[t] = cur /\ cur \in Nat /\ first[t] \in Nat /\ last[t] \in Nat
      /\ upper \in Nat /\ last[t] <= upper /\ first[t] + Count(t) = last[t]
  BY <1>2, Zenon DEF PathInv, PathTypes, Holds
<1>4. \A op \in Ops(t) : op \in Nat /\ op <= upper /\ op <= last[t] /\ first[t] <= op
  BY <1>3 DEF Ops
<1>5. \A p : p \in mems' <=> p \in mems \/ \E op \in Ops(t) : p = <<cur, op>>
  <2>1. mems' = mems \cup ({cur} \X Ops(t))
    BY <1>1, <1>3, Zenon
  <2> QED
    BY <2>1, PairsAdded
<1>6. PathTypes'
  <2>1. /\ pc' \in [Threads -> Resting \cup Working \cup {"link", "fail"}]
        /\ done' \in [Threads -> {"none", "logged", "inserted"}]
    BY <1>1, Zenon DEF PathInv, PathTypes, Working
  <2>2. mems' \subseteq Nat \X Nat
    BY <1>1, <1>3, <1>4, Zenon DEF PathInv, PathTypes
  <2> QED
    BY <1>1, <2>1, <2>2, Zenon DEF PathInv, PathTypes
<1>7. WriterInv(t)'
  <2>1. Count(t)' = Count(t) /\ Ops(t)' = Ops(t)
    BY <1>1, Zenon DEF Count, Ops
  <2>2. \A op \in Ops(t) : <<cur, op>> \in records
    <3>1. CASE batch[t] = NULL
      <4>1. Count(t) = 0
        BY <3>1, Zenon DEF Count
      <4>2. Ops(t) = {}
        BY <1>3, <4>1 DEF Ops
      <4> QED
        BY <4>2, Zenon
    <3>2. CASE batch[t] # NULL
      BY <1>1, <1>2, <3>2, Zenon DEF Holds
    <3> QED
      BY <3>1, <3>2, Zenon
  <2>3. \A op \in Ops(t) : <<cur, op>> \in mems'
    BY <1>5, Zenon
  <2>4. ASSUME NEW p \in mems', p[1] # cur PROVE p[2] < first[t]
    <3>1. p \in mems
      BY <1>5, <2>4
    <3> QED
      BY <1>2, <2>4, <3>1, Zenon DEF Holds
  <2>5. Holds(t)'
    BY <1>1, <1>2, <2>1, <2>2, <2>3, <2>4, Zenon DEF Holds
  <2> QED
    BY <1>2, <2>5, Zenon DEF WriterInv, Resting
<1>8. \A u \in Threads : WriterInv(u)'
  BY <1>7, Alone, Zenon
<1>9. DownInv'
  BY <1>1, Zenon DEF DownInv
<1>10. NumberInv'
  <2>1. ASSUME NEW p \in mems'
        PROVE  \/ p[2] <= lastSeq
               \/ p[1] = cur /\ p[2] <= upper /\ pc'[t] = "publish" /\ p[2] <= last[t]
    <3>1. CASE p \in mems
      BY <1>1, <3>1, RestingMems, Zenon
    <3>2. CASE \E op \in Ops(t) : p = <<cur, op>>
      BY <1>2, <1>4, <3>2
    <3> QED
      BY <1>5, <3>1, <3>2, Zenon
  <2> QED
    BY <1>1, <2>1, Zenon DEF PathInv, NumberInv
<1>11. OrderInv'
  <2>1. \A p \in mems : p[1] # cur => p[2] < first[t] /\ p[2] \in Nat
    BY <1>2, Zenon DEF Holds, PathInv, PathTypes
  <2>2. \A op \in live : op < first[t] /\ op \in Nat
    BY <1>2, Zenon DEF Holds, PathInv, PathTypes
  <2>3. ASSUME NEW p \in mems', NEW q \in mems', p[1] # cur, q[1] = cur PROVE p[2] < q[2]
    <3>1. p \in mems
      BY <1>5, <2>3
    <3>2. CASE q \in mems
      BY <2>3, <3>1, <3>2, Zenon DEF PathInv, OrderInv
    <3>3. CASE \E op \in Ops(t) : q = <<cur, op>>
      <4>1. q[2] \in Nat /\ first[t] <= q[2]
        BY <1>4, <3>3
      <4> QED
        BY <1>3, <2>1, <2>3, <3>1, <4>1
    <3> QED
      BY <1>5, <3>2, <3>3, Zenon
  <2>4. ASSUME NEW op \in live, NEW p \in mems' PROVE op < p[2]
    <3>1. CASE p \in mems
      BY <3>1, Zenon DEF PathInv, OrderInv
    <3>2. CASE \E o \in Ops(t) : p = <<cur, o>>
      <4>1. p[2] \in Nat /\ first[t] <= p[2]
        BY <1>4, <3>2
      <4> QED
        BY <1>3, <2>2, <4>1
    <3> QED
      BY <1>5, <3>1, <3>2, Zenon
  <2> QED
    BY <1>1, <2>3, <2>4, Zenon DEF OrderInv
<1>12. PlaceInv'
  <2>1. ASSUME NEW p \in mems' PROVE p[1] = cur \/ (imm /\ p[1] = old)
    <3>1. CASE p \in mems
      BY <3>1, Zenon DEF PathInv, PlaceInv
    <3>2. CASE \E op \in Ops(t) : p = <<cur, op>>
      BY <3>2
    <3> QED
      BY <1>5, <3>1, <3>2, Zenon
  <2> QED
    BY <1>1, <2>1, Zenon DEF PathInv, PlaceInv
<1>13. JobInv'
  <2>1. ASSUME imm PROVE In(mems, old)' = In(mems, old)
    <3>1. old # cur
      BY <1>3, <2>1 DEF PathInv, PathTypes, PlaceInv
    <3>2. {q \in mems' : q[1] = old} = {q \in mems : q[1] = old}
      BY <1>5, <3>1
    <3> QED
      BY <1>1, <3>2, Zenon DEF In
  <2> QED
    BY <1>1, <2>1, Zenon DEF PathInv, JobInv
<1>14. AckedInv'
  BY <1>1, <1>5, Zenon DEF PathInv, AckedInv, Replayed
<1> QED
  BY <1>6, <1>8, <1>9, <1>10, <1>11, <1>12, <1>13, <1>14, Zenon DEF PathInv

LEMMA ReturnMoves ==
  ASSUME OneWriter, PathInv, up, NEW t \in Threads, Acknowledge(t)
  PROVE  PathInv'
<1>1. /\ pc[t] = "unlink" /\ linked' = [linked EXCEPT ![t] = FALSE]
      /\ first' = [first EXCEPT ![t] = 0] /\ last' = [last EXCEPT ![t] = 0]
      /\ held' = [held EXCEPT ![t] = 0] /\ done' = [done EXCEPT ![t] = "none"]
      /\ acked' = IF done[t] = "inserted" THEN acked \cup Ops(t) ELSE acked
      /\ UNCHANGED <<batch, upper, lastSeq, imm>>
      /\ UNCHANGED <<up, cur, old, mems, live, job, logs, records, disk>>
  BY Zenon DEF Acknowledge, Unlink, Bridge, flush, files
<1>2. pc' \in [Threads -> Resting] /\ pc'[t] \in Resting
  <2>1. \A u \in Threads : u = t
    BY Alone, Zenon
  <2>2. PICK f, S : f[t] \in {"notify", "settle", "idle"} /\ pc' = Signal(f, S)
    <3> DEFINE f == [pc EXCEPT ![t] = IF hasImm[t] /\ prev[t] = NULL THEN "notify" ELSE Ended(t)]
    <3>1. pc' = Signal(f, NewHead(t))
      BY Zenon DEF Acknowledge, Unlink
    <3>2. f[t] \in {"notify", "settle", "idle"}
      BY Zenon DEF Ended, PathInv, PathTypes
    <3> HIDE DEF f
    <3> QED
      BY <3>1, <3>2
  <2>3. Signal(f, S)[t] = f[t]
    BY <2>2, Zenon DEF Signal, Asleep
  <2>4. Signal(f, S) = [u \in Threads |-> Signal(f, S)[t]]
    BY <2>1, Zenon DEF Signal
  <2> QED
    BY <2>2, <2>3, <2>4, Zenon DEF Resting
<1>3. Holds(t) /\ held'[t] = 0 /\ done'[t] = "none" /\ ~linked'[t]
  BY <1>1, Zenon DEF PathInv, PathTypes, WriterInv, Working
<1>4. /\ cur \in Nat /\ first[t] \in Nat /\ last[t] \in Nat
      /\ lastSeq \in Nat /\ last[t] <= lastSeq
  BY <1>1, <1>3, Zenon DEF PathInv, PathTypes, Holds
<1>5. \A op \in Ops(t) : op \in Nat /\ op <= lastSeq
  BY <1>4 DEF Ops
<1>6. PathTypes'
  <2>1. /\ pc' \in [Threads -> Resting \cup Working \cup {"link", "fail"}]
        /\ done' \in [Threads -> {"none", "logged", "inserted"}]
        /\ held' \in [Threads -> Nat] /\ linked' \in [Threads -> BOOLEAN]
        /\ first' \in [Threads -> Nat] /\ last' \in [Threads -> Nat]
    BY <1>1, <1>2, Zenon DEF PathInv, PathTypes
  <2>2. acked' \subseteq Nat
    BY <1>1, <1>5, Zenon DEF PathInv, PathTypes
  <2> QED
    BY <1>1, <2>1, <2>2, Zenon DEF PathInv, PathTypes
<1>7. WriterInv(t)'
  BY <1>2, <1>3, Zenon DEF WriterInv, Free, Resting, Working
<1>8. \A u \in Threads : WriterInv(u)'
  BY <1>7, Alone, Zenon
<1>9. DownInv'
  BY <1>1, Zenon DEF DownInv
<1>10. NumberInv'
  <2>1. \A p \in mems : p[2] <= lastSeq
    BY <1>1, RestingMems, Zenon
  <2> QED
    BY <1>1, <2>1, Zenon DEF PathInv, NumberInv
<1>11. OrderInv' /\ PlaceInv'
  BY <1>1, Zenon DEF PathInv, OrderInv, PlaceInv
<1>12. JobInv'
  BY <1>1, Zenon DEF PathInv, JobInv, In
<1>13. AckedInv'
  <2>1. ASSUME NEW op \in acked', op \notin acked
        PROVE  op <= lastSeq /\ <<cur, op>> \in mems /\ <<cur, op>> \in records
    <3>1. op \in Ops(t) /\ done[t] = "inserted"
      BY <1>1, <2>1, Zenon
    <3> QED
      BY <1>3, <1>5, <3>1, Zenon DEF Holds
  <2> QED
    BY <1>1, <2>1, Zenon DEF PathInv, AckedInv, Replayed
<1> QED
  BY <1>6, <1>8, <1>9, <1>10, <1>11, <1>12, <1>13, Zenon DEF PathInv

-----------------------------------------------------------------------------
(***************************************************************************)
(* The memtable thread.  It moves no thread but those that wait for it.     *)
(***************************************************************************)
LEMMA ForegroundMoves ==
  ASSUME OneWriter, PathInv, NEW t \in Threads,
         pc' = pc \/ pc' = SignalAllForeground(pc)
  PROVE  /\ pc' \in [Threads -> Resting \cup Working \cup {"link", "fail"}]
         /\ pc'[t] = pc[t] \/ (pc[t] \in Resting /\ pc'[t] \in Resting)
BY DEF SignalAllForeground, PathInv, PathTypes, Resting, Working

\* What every step of the memtable thread leaves alone.
LEMMA BackgroundMoves ==
  ASSUME OneWriter, PathInv, up,
         pc' = pc \/ pc' = SignalAllForeground(pc),
         UNCHANGED <<batch, linked, first, last, upper, lastSeq, up, cur, held, done, acked>>,
         imm' \in BOOLEAN, old' \in Nat, mems' \subseteq mems, records' \subseteq records,
         \A p \in mems : p[1] = cur => p \in mems',
         \A p \in records : p[1] = cur => p \in records',
         live' \subseteq Nat, logs' \subseteq Nat,
         job' \in [stage : {"none", "build", "apply", "commit"}, seen : SUBSET Nat,
                   add : SUBSET Nat, log : Nat, last : Nat],
         disk' \in [tables : SUBSET Nat, log : Nat, last : Nat],
         \A op \in disk'.tables \cup live' :
           op \in disk.tables \cup live \/ \E p \in mems : p[1] # cur /\ p[2] = op,
         \A op \in disk'.tables : op <= disk'.last, disk'.last <= lastSeq
  PROVE  PathTypes' /\ (\A t \in Threads : WriterInv(t)') /\ DownInv' /\ NumberInv'
<1>1. PathTypes'
  <2>1. ASSUME Threads = {} PROVE pc' \in [Threads -> Resting \cup Working \cup {"link", "fail"}]
    BY <2>1, Zenon DEF SignalAllForeground, PathInv, PathTypes
  <2>2. pc' \in [Threads -> Resting \cup Working \cup {"link", "fail"}]
    BY <2>1, ForegroundMoves, Zenon
  <2>3. mems' \subseteq Nat \X Nat /\ records' \subseteq Nat \X Nat
    BY Zenon DEF PathInv, PathTypes
  <2> QED
    BY <2>2, <2>3, Zenon DEF PathInv, PathTypes
<1>2. ASSUME NEW t \in Threads PROVE WriterInv(t)'
  <2>1. WriterInv(t) /\ (pc'[t] = pc[t] \/ (pc[t] \in Resting /\ pc'[t] \in Resting))
    BY ForegroundMoves, Zenon DEF PathInv
  <2>2. Count(t)' = Count(t) /\ Ops(t)' = Ops(t)
    BY Zenon DEF Count, Ops
  <2>3. ASSUME Holds(t), pc'[t] = pc[t] PROVE Holds(t)'
    <3>1. ASSUME NEW op \in disk'.tables \cup live' PROVE op < first[t]
      <4>1. CASE op \in disk.tables \cup live
        BY <2>3, <4>1, Zenon DEF Holds
      <4>2. ASSUME NEW p \in mems, p[1] # cur, p[2] = op PROVE op < first[t]
        BY <2>3, <4>2, Zenon DEF Holds
      <4> QED
        BY <4>1, <4>2, Zenon
    <3>2. \A p \in mems' : p[1] # cur => p[2] < first[t]
      BY <2>3, Zenon DEF Holds
    <3>3. done[t] = "inserted" => \A op \in Ops(t) : <<cur, op>> \in mems'
      BY <2>3, Zenon DEF Holds
    <3>4. done[t] # "none" => \A op \in Ops(t) : <<cur, op>> \in records'
      BY <2>3, Zenon DEF Holds
    <3> QED
      BY <2>2, <2>3, <3>1, <3>2, <3>3, <3>4, Zenon DEF Holds
  <2>4. CASE pc'[t] = pc[t]
    BY <2>1, <2>3, <2>4, Zenon DEF WriterInv, Free
  <2>5. CASE pc[t] \in Resting /\ pc'[t] \in Resting
    BY <2>1, <2>5, Zenon DEF WriterInv, Free, Resting, Working
  <2> QED
    BY <2>1, <2>4, <2>5, Zenon
<1>3. DownInv'
  BY Zenon DEF DownInv
<1>4. NumberInv'
  <2>1. ASSUME NEW t \in Threads, pc[t] = "publish" PROVE pc'[t] = "publish"
    BY <2>1, ForegroundMoves, Zenon DEF Resting
  <2>2. \E b \in Nat : \A p \in records' : p[2] <= b
    BY Zenon DEF PathInv, NumberInv
  <2> QED
    BY <2>1, <2>2, Zenon DEF PathInv, NumberInv
<1> QED
  BY <1>1, <1>2, <1>3, <1>4, Zenon

\* What is acknowledged stays where a step leaves the memtables and logs.
LEMMA AckedKept ==
  ASSUME PathInv, up, UNCHANGED <<up, cur, old, mems, live, acked, lastSeq, logs, records, imm>>,
         disk.tables \subseteq disk'.tables,
         disk'.log = disk.log \/ In(mems, old) \subseteq disk'.tables
  PROVE  AckedInv'
<1>1. ASSUME NEW op \in acked, imm, <<old, op>> \in mems,
             op \in disk.tables \/ (<<old, op>> \in records /\ old \in Replayed)
      PROVE  op \in disk'.tables \/ (<<old, op>> \in records /\ (old \in Replayed)')
  <2>1. op \in In(mems, old)
    BY <1>1 DEF In
  <2>2. disk'.log = disk.log => Replayed' = Replayed
    BY Zenon DEF Replayed
  <2> QED
    BY <1>1, <2>1, <2>2, Zenon
<1> QED
  BY <1>1, Zenon DEF PathInv, AckedInv

LEMMA OldPlace ==
  ASSUME PathInv, imm
  PROVE  /\ old # cur
         /\ \A op : op \in In(mems, old) <=> <<old, op>> \in mems
         /\ In(mems, old) \subseteq Nat
         /\ \A op \in In(mems, old) : op <= lastSeq
<1>1. old # cur
  BY DEF PathInv, PathTypes, PlaceInv
<1>2. ASSUME NEW op PROVE op \in In(mems, old) <=> <<old, op>> \in mems
  <2>1. ASSUME op \in In(mems, old) PROVE <<old, op>> \in mems
    <3>1. PICK p \in mems : p[1] = old /\ p[2] = op
      BY <2>1, Zenon DEF In
    <3>2. p = <<old, op>>
      BY <3>1 DEF PathInv, PathTypes
    <3> QED
      BY <3>1, <3>2, Zenon
  <2>2. ASSUME <<old, op>> \in mems PROVE op \in In(mems, old)
    BY <2>2 DEF In
  <2> QED
    BY <2>1, <2>2, Zenon
<1>3. ASSUME NEW op \in In(mems, old) PROVE op \in Nat /\ op <= lastSeq
  <2>1. PICK p \in mems : p = <<old, op>>
    BY <1>2, <1>3, Zenon
  <2>2. p[1] # cur /\ p[2] = op /\ p[2] \in Nat
    BY <1>1, <2>1, Zenon DEF PathInv, PathTypes
  <2>3. p[2] <= lastSeq
    BY <2>1, <2>2, Zenon DEF PathInv, NumberInv
  <2> QED
    BY <2>2, <2>3, Zenon
<1> QED
  BY <1>1, <1>2, <1>3, Zenon

LEMMA FlushBeginMoves ==
  ASSUME OneWriter, PathInv, up, FlushBegins
  PROVE  PathInv'
<1>1. /\ pc' = pc
      /\ UNCHANGED <<batch, linked, first, last, upper, lastSeq, up, cur, held, done, acked,
                     imm, old, mems, live, logs, records, disk>>
      /\ job' = IF imm THEN StartBuild ELSE job
  BY Zenon DEF FlushBegins, MemtableWakes, list, seqs, files
<1>2. In(mems, old) \in SUBSET Nat
  BY DEF In, PathInv, PathTypes
<1>3. job' \in [stage : {"none", "build", "apply", "commit"}, seen : SUBSET Nat,
                add : SUBSET Nat, log : Nat, last : Nat]
  BY <1>1, <1>2, Zenon DEF StartBuild, NoJob, PathInv, PathTypes
<1>4. PathTypes' /\ (\A t \in Threads : WriterInv(t)') /\ DownInv' /\ NumberInv'
  <2>1. \A op \in disk.tables : op <= disk.last
    BY Zenon DEF PathInv, NumberInv
  <2>2. disk.last <= lastSeq
    BY Zenon DEF PathInv, NumberInv
  <2> QED
    BY <1>1, <1>3, <2>1, <2>2, BackgroundMoves, Zenon DEF PathInv, PathTypes
<1>5. OrderInv' /\ PlaceInv'
  BY <1>1, Zenon DEF PathInv, OrderInv, PlaceInv
<1>6. JobInv'
  BY <1>1, Zenon DEF PathInv, JobInv, In, StartBuild, NoJob
<1>7. AckedInv'
  BY <1>1, AckedKept, Zenon
<1> QED
  BY <1>4, <1>5, <1>6, <1>7, Zenon DEF PathInv

LEMMA FlushBuiltMoves ==
  ASSUME OneWriter, PathInv, up, FlushBuilt
  PROVE  PathInv'
<1>1. PICK late \in SUBSET (In(mems, old) \ job.seen) :
        job' = [stage |-> "apply", seen |-> {}, add |-> job.seen \cup late,
                log |-> cur, last |-> lastSeq]
  BY Zenon DEF FlushBuilt
<1>2. /\ pc' = pc
      /\ UNCHANGED <<batch, linked, first, last, upper, lastSeq, up, cur, held, done, acked,
                     imm, old, mems, live, logs, records, disk>>
  BY Zenon DEF FlushBuilt, vars, list, seqs, flush, files
<1>3. imm /\ job.seen = In(mems, old)
  BY Zenon DEF FlushBuilt, PathInv, JobInv
<1>4. job' = [stage |-> "apply", seen |-> {}, add |-> In(mems, old), log |-> cur, last |-> lastSeq]
  <2>1. job.seen \cup late = In(mems, old)
    BY <1>3, Zenon
  <2> QED
    BY <1>1, <2>1, Zenon
<1>5. job' \in [stage : {"none", "build", "apply", "commit"}, seen : SUBSET Nat,
                add : SUBSET Nat, log : Nat, last : Nat]
  BY <1>3, <1>4, OldPlace, Zenon DEF PathInv, PathTypes
<1>6. \A op \in disk.tables : op <= disk.last
  BY Zenon DEF PathInv, NumberInv
<1>7. disk.last <= lastSeq
  BY Zenon DEF PathInv, NumberInv
<1>8. PathTypes' /\ (\A t \in Threads : WriterInv(t)') /\ DownInv' /\ NumberInv'
  BY <1>2, <1>5, <1>6, <1>7, BackgroundMoves, Zenon DEF PathInv, PathTypes
<1>9. OrderInv' /\ PlaceInv'
  BY <1>2, Zenon DEF PathInv, OrderInv, PlaceInv
<1>10. JobInv'
  <2>1. In(mems, old)' = In(mems, old)
    BY <1>2, Zenon DEF In
  <2>2. job'.stage = "apply" /\ job'.add = In(mems, old) /\ job'.log = cur /\ job'.last = lastSeq
    BY <1>4, Zenon
  <2>3. \A op \in In(mems, old) : op <= lastSeq
    BY <1>3, OldPlace, Zenon
  <2>4. lastSeq <= lastSeq
    BY DEF PathInv, PathTypes
  <2> QED
    BY <1>2, <1>3, <1>7, <2>1, <2>2, <2>3, <2>4, Zenon DEF JobInv
<1>11. AckedInv'
  BY <1>2, AckedKept, Zenon
<1> QED
  BY <1>8, <1>9, <1>10, <1>11, Zenon DEF PathInv

\* The record of a flush in the MANIFEST.
LEMMA RecordOfFlush ==
  ASSUME PathInv, up, job.stage = "apply"
  PROVE  /\ imm /\ job.add = In(mems, old)
         /\ ManifestRecord \in [tables : SUBSET Nat, log : Nat, last : Nat]
         /\ ManifestRecord.tables = disk.tables \cup In(mems, old)
         /\ ManifestRecord.log = cur
         /\ ManifestRecord.last <= lastSeq
         /\ \A op \in ManifestRecord.tables : op <= ManifestRecord.last
<1>1. imm /\ job.add = In(mems, old) /\ job.log = cur
  BY Zenon DEF PathInv, JobInv
<1>2. disk.last <= job.last /\ job.last <= lastSeq /\ \A op \in job.add : op <= job.last
  BY Zenon DEF PathInv, JobInv
<1>3. /\ ManifestRecord.tables = disk.tables \cup In(mems, old)
      /\ ManifestRecord.log = cur /\ ManifestRecord.last = job.last
  BY <1>1, Zenon DEF ManifestRecord
<1>4. ManifestRecord \in [tables : SUBSET Nat, log : Nat, last : Nat]
  BY <1>1, OldPlace, Zenon DEF ManifestRecord, PathInv, PathTypes
<1>5. ASSUME NEW op \in disk.tables PROVE op <= job.last
  <2>1. op \in Nat /\ disk.last \in Nat /\ job.last \in Nat
    BY Zenon DEF PathInv, PathTypes
  <2>2. op <= disk.last
    BY Zenon DEF PathInv, NumberInv
  <2> QED
    BY <1>2, <2>1, <2>2
<1> QED
  BY <1>1, <1>2, <1>3, <1>4, <1>5, Zenon

\* The MANIFEST may get the record, and the flush goes on or begins again.
LEMMA ManifestMoves ==
  ASSUME OneWriter, PathInv, up, NEW d, NEW j,
         d = disk \/ (job.stage = "apply" /\ d = ManifestRecord),
         \/ j = StartBuild
         \/ job.stage = "apply" /\ d = ManifestRecord /\ j = [job EXCEPT !.stage = "commit"],
         job.stage \in {"build", "apply"},
         job' = j, disk' = d, pc' = pc \/ pc' = SignalAllForeground(pc),
         UNCHANGED <<batch, linked, first, last, upper, lastSeq, up, cur, held, done, acked,
                     imm, old, mems, live, logs, records>>
  PROVE  PathInv'
<1>1. imm
  BY Zenon DEF PathInv, JobInv
<1>2. In(mems, old) \in SUBSET Nat
  BY <1>1, OldPlace, Zenon
<1>3. job' \in [stage : {"none", "build", "apply", "commit"}, seen : SUBSET Nat,
                add : SUBSET Nat, log : Nat, last : Nat]
  <2>1. CASE j = StartBuild
    BY <1>2, <2>1, Zenon DEF StartBuild, NoJob
  <2>2. CASE j = [job EXCEPT !.stage = "commit"]
    BY <2>2, Zenon DEF PathInv, PathTypes
  <2> QED
    BY <2>1, <2>2, Zenon
<1>4. /\ disk' \in [tables : SUBSET Nat, log : Nat, last : Nat]
      /\ disk.tables \subseteq disk'.tables /\ disk'.tables \subseteq disk.tables \cup In(mems, old)
      /\ disk'.log = disk.log \/ (disk'.log = cur /\ In(mems, old) \subseteq disk'.tables)
      /\ disk'.last <= lastSeq
      /\ \A op \in disk'.tables : op <= disk'.last
  <2>1. CASE d = disk
    BY <2>1, Zenon DEF PathInv, PathTypes, NumberInv
  <2>2. CASE job.stage = "apply" /\ d = ManifestRecord
    BY <2>2, RecordOfFlush, Zenon
  <2> QED
    BY <2>1, <2>2, Zenon
<1>5. ASSUME NEW op \in disk'.tables \cup live
      PROVE  op \in disk.tables \cup live \/ \E p \in mems : p[1] # cur /\ p[2] = op
  <2>1. ASSUME op \in In(mems, old) PROVE \E p \in mems : p[1] # cur /\ p[2] = op
    <3>1. <<old, op>> \in mems /\ old # cur
      BY <1>1, <2>1, OldPlace, Zenon
    <3> QED
      BY <3>1, Zenon
  <2> QED
    BY <1>4, <2>1, Zenon
<1>6. PathTypes' /\ (\A t \in Threads : WriterInv(t)') /\ DownInv' /\ NumberInv'
  BY <1>3, <1>4, <1>5, BackgroundMoves, Zenon DEF PathInv, PathTypes
<1>7. OrderInv' /\ PlaceInv'
  <2>1. disk'.log <= cur
    BY <1>4, Zenon DEF PathInv, PathTypes, PlaceInv
  <2>2. live \subseteq disk'.tables
    BY <1>4, Zenon DEF PathInv, PlaceInv
  <2> QED
    BY <2>1, <2>2, Zenon DEF PathInv, OrderInv, PlaceInv
<1>8. JobInv'
  <2>1. In(mems, old)' = In(mems, old)
    BY Zenon DEF In
  <2>2. CASE j = StartBuild
    BY <1>1, <2>1, <2>2, Zenon DEF JobInv, StartBuild, NoJob
  <2>3. CASE job.stage = "apply" /\ d = ManifestRecord /\ j = [job EXCEPT !.stage = "commit"]
    <3>1. job.add = In(mems, old) /\ job.log = cur
      BY <2>3, Zenon DEF PathInv, JobInv
    <3>2. job'.stage = "commit" /\ job'.add = job.add /\ job'.log = job.log
      BY <2>3, Zenon DEF PathInv, PathTypes
    <3>3. job.add \subseteq disk'.tables
      BY <2>3, Zenon DEF ManifestRecord
    <3> QED
      BY <1>1, <2>1, <3>1, <3>2, <3>3, Zenon DEF JobInv
  <2> QED
    BY <2>2, <2>3, Zenon
<1>9. AckedInv'
  BY <1>4, AckedKept, Zenon
<1> QED
  BY <1>6, <1>7, <1>8, <1>9, Zenon DEF PathInv

LEMMA FlushAppliedMoves ==
  ASSUME OneWriter, PathInv, up, FlushApplied \/ FlushFailed
  PROVE  PathInv'
<1>1. UNCHANGED <<batch, linked, first, last, upper, lastSeq, up, cur, held, done, acked,
                  imm, old, mems, live, logs, records>>
  BY Zenon DEF FlushApplied, FlushFailed, FlushFails, vars, list, seqs, flush
<1>2. pc' = pc \/ pc' = SignalAllForeground(pc)
  BY Zenon DEF FlushApplied, FlushFailed, FlushFails, vars
<1>3. CASE FlushApplied
  <2>1. job.stage = "apply" /\ disk' = ManifestRecord /\ job' = [job EXCEPT !.stage = "commit"]
    BY <1>3, Zenon DEF FlushApplied
  <2> QED
    BY <1>1, <1>2, <2>1, ManifestMoves, Zenon
<1>4. CASE FlushFailed
  <2>1. /\ job.stage \in {"build", "apply"} /\ job' = StartBuild
        /\ disk' = disk \/ (job.stage = "apply" /\ disk' = ManifestRecord)
    BY <1>4, Zenon DEF FlushFailed
  <2> QED
    BY <1>1, <1>2, <2>1, ManifestMoves, Zenon
<1> QED
  BY <1>3, <1>4, Zenon

\* The table is installed; the memtable and its log go.
LEMMA FlushCommitMoves ==
  ASSUME OneWriter, PathInv, up, FlushCommits
  PROVE  PathInv'
<1>1. imm /\ job.add = In(mems, old) /\ job.log = cur /\ job.add \subseteq disk.tables
  BY Zenon DEF FlushCommits, PathInv, JobInv
<1>2. /\ pc' = SignalAllForeground(pc) /\ imm' = FALSE /\ old' = 0 /\ job' = NoJob
      /\ live' = live \cup In(mems, old)
      /\ mems' = {p \in mems : p[1] # old}
      /\ logs' = LogsKept(cur)
      /\ records' = {p \in records : p[1] \in logs'}
      /\ UNCHANGED <<batch, linked, first, last, upper, lastSeq, up, cur, held, done, acked, disk>>
  BY <1>1, Zenon DEF FlushCommits, FlushOk, list, seqs
<1>3. logs' \subseteq logs /\ cur \in logs' /\ \A l \in logs' : l <= cur
  <2>1. cur \in logs /\ cur \in Nat /\ \A l \in logs : l <= cur
    BY Zenon DEF PathInv, PathTypes, PlaceInv
  <2>2. cur >= cur
    BY <2>1, Zenon
  <2> QED
    BY <1>2, <2>1, <2>2, Zenon DEF LogsKept
<1>4. old # cur /\ \A p \in mems : p[1] = cur <=> p \in mems'
  BY <1>1, <1>2, OldPlace, Zenon DEF PathInv, PlaceInv
<1>5. \A p \in records : p[1] = cur => p \in records'
  BY <1>2, <1>3, Zenon
<1>6. \A op \in disk.tables : op <= disk.last
  BY Zenon DEF PathInv, NumberInv
<1>7. disk.last <= lastSeq
  BY Zenon DEF PathInv, NumberInv
<1>8. live' \subseteq disk.tables
  BY <1>1, <1>2, Zenon DEF PathInv, PlaceInv
<1>9. job' \in [stage : {"none", "build", "apply", "commit"}, seen : SUBSET Nat,
                add : SUBSET Nat, log : Nat, last : Nat]
  BY <1>2, Zenon DEF NoJob
<1>10. live' \subseteq Nat /\ logs' \subseteq Nat /\ old' \in Nat /\ imm' \in BOOLEAN
  BY <1>1, <1>2, <1>3, OldPlace, Zenon DEF PathInv, PathTypes
<1>11. mems' \subseteq mems /\ records' \subseteq records
  BY <1>2, Zenon
<1>12. disk' \in [tables : SUBSET Nat, log : Nat, last : Nat]
  BY <1>2, Zenon DEF PathInv, PathTypes
<1>13. PathTypes' /\ (\A t \in Threads : WriterInv(t)') /\ DownInv' /\ NumberInv'
  BY <1>2, <1>4, <1>5, <1>6, <1>7, <1>8, <1>9, <1>10, <1>11, <1>12, BackgroundMoves, Zenon
<1>14. OrderInv'
  <2>1. ASSUME NEW op \in live', NEW p \in mems' PROVE op < p[2]
    <3>1. p \in mems /\ p[1] = cur
      BY <1>2, <1>4, Zenon
    <3>2. CASE op \in live
      BY <3>1, <3>2, Zenon DEF PathInv, OrderInv
    <3>3. CASE op \in In(mems, old)
      <4>1. PICK q \in mems : q = <<old, op>>
        BY <1>1, <3>3, OldPlace, Zenon
      <4>2. q[1] # cur /\ q[2] = op
        BY <1>4, <4>1, Zenon
      <4>3. q[2] < p[2]
        BY <3>1, <4>2, Zenon DEF PathInv, OrderInv
      <4> QED
        BY <4>2, <4>3, Zenon
    <3> QED
      BY <1>2, <3>2, <3>3, Zenon
  <2>2. \A p \in mems' : p[1] = cur'
    BY <1>2, <1>4, Zenon
  <2> QED
    BY <2>1, <2>2, Zenon DEF OrderInv
<1>15. PlaceInv'
  BY <1>2, <1>3, <1>4, <1>8, Zenon DEF PathInv, PlaceInv
<1>16. JobInv'
  BY <1>2, Zenon DEF JobInv, NoJob
<1>17. AckedInv'
  <2> SUFFICES ASSUME NEW op \in acked
               PROVE  op <= lastSeq /\ ((<<cur, op>> \in mems' /\ <<cur, op>> \in records') \/ op \in live')
    BY <1>2, Zenon DEF AckedInv
  <2>1. /\ op <= lastSeq
        /\ \/ <<cur, op>> \in mems /\ <<cur, op>> \in records
           \/ <<old, op>> \in mems
           \/ op \in live
    BY Zenon DEF PathInv, AckedInv
  <2>2. CASE <<cur, op>> \in mems /\ <<cur, op>> \in records
    BY <1>4, <1>5, <2>1, <2>2, Zenon
  <2>3. CASE <<old, op>> \in mems
    BY <1>1, <1>2, <2>1, <2>3, OldPlace, Zenon
  <2>4. CASE op \in live
    BY <1>2, <2>1, <2>4, Zenon
  <2> QED
    BY <2>1, <2>2, <2>3, <2>4, Zenon
<1> QED
  BY <1>13, <1>14, <1>15, <1>16, <1>17, Zenon DEF PathInv

\* Nothing that PathInv speaks of changes.
LEMMA NothingMoves ==
  ASSUME PathInv,
         UNCHANGED <<pc, batch, linked, first, last, upper, lastSeq, imm, up, cur, old, mems,
                     live, held, done, job, logs, records, disk, acked>>
  PROVE  PathInv'
<1>1. ASSUME NEW t \in Threads PROVE WriterInv(t)'
  <2>1. WriterInv(t)
    BY Zenon DEF PathInv
  <2>2. (Free(t)' <=> Free(t)) /\ Count(t)' = Count(t)
    BY Zenon DEF Free, Count
  <2>3. Ops(t)' = Ops(t)
    BY <2>2, Zenon DEF Ops
  <2>4. Holds(t)' <=> Holds(t)
    BY <2>2, <2>3, Zenon DEF Holds
  <2> QED
    BY <2>1, <2>2, <2>4, Zenon DEF WriterInv
<1>2. PathTypes' /\ DownInv' /\ NumberInv'
  BY Zenon DEF PathInv, PathTypes, DownInv, NumberInv
<1>3. OrderInv' /\ PlaceInv' /\ JobInv'
  BY Zenon DEF PathInv, OrderInv, PlaceInv, JobInv, In
<1>4. AckedInv'
  BY Zenon DEF PathInv, AckedInv, AckedDurable, Replayed
<1> QED
  BY <1>1, <1>2, <1>3, <1>4, Zenon DEF PathInv

-----------------------------------------------------------------------------
(***************************************************************************)
(* The process stops, and the database is opened again.                     *)
(***************************************************************************)
LEMMA Durable ==
  ASSUME PathInv
  PROVE  AckedDurable
<1>1. CASE ~up
  BY <1>1, Zenon DEF PathInv, AckedInv
<1>2. CASE up
  <2> SUFFICES ASSUME NEW op \in acked
               PROVE  op \in disk.tables \/ \E l \in Replayed : <<l, op>> \in records
    BY Zenon DEF AckedDurable
  <2>1. \/ <<cur, op>> \in records
        \/ op \in disk.tables \/ (<<old, op>> \in records /\ old \in Replayed)
        \/ op \in live
    BY <1>2, Zenon DEF PathInv, AckedInv
  <2>2. cur \in Replayed
    BY <1>2, Zenon DEF PathInv, PathTypes, PlaceInv, Replayed
  <2>3. live \subseteq disk.tables
    BY Zenon DEF PathInv, PlaceInv
  <2> QED
    BY <2>1, <2>2, <2>3, Zenon
<1> QED
  BY <1>1, <1>2, Zenon

LEMMA CrashMoves ==
  ASSUME OneWriter, PathInv, up, Crash
  PROVE  PathInv'
<1>1. /\ up' = FALSE /\ upper' = 0 /\ lastSeq' = 0 /\ imm' = FALSE /\ cur' = 0 /\ old' = 0
      /\ mems' = {} /\ live' = {} /\ job' = NoJob
      /\ UNCHANGED <<logs, records, disk, acked>>
  BY Zenon DEF Crash
<1>2. /\ pc' = [t \in Threads |-> "idle"] /\ batch' = [t \in Threads |-> NULL]
      /\ linked' = [t \in Threads |-> FALSE]
      /\ first' = [t \in Threads |-> 0] /\ last' = [t \in Threads |-> 0]
      /\ held' = [t \in Threads |-> 0] /\ done' = [t \in Threads |-> "none"]
  BY Zenon DEF Crash
<1>3. PathTypes'
  <2>1. /\ pc' \in [Threads -> Resting \cup Working \cup {"link", "fail"}]
        /\ batch' \in [Threads -> Nat \cup {NULL}]
        /\ linked' \in [Threads -> BOOLEAN]
        /\ first' \in [Threads -> Nat] /\ last' \in [Threads -> Nat]
        /\ held' \in [Threads -> Nat]
        /\ done' \in [Threads -> {"none", "logged", "inserted"}]
    BY <1>2, Zenon DEF Resting
  <2>2. job' \in [stage : {"none", "build", "apply", "commit"}, seen : SUBSET Nat,
                  add : SUBSET Nat, log : Nat, last : Nat]
    BY <1>1, Zenon DEF NoJob
  <2> QED
    BY <1>1, <2>1, <2>2, Zenon DEF PathInv, PathTypes
<1>4. ASSUME NEW t \in Threads PROVE WriterInv(t)'
  BY <1>2, Zenon DEF WriterInv, Free, Resting, Working
<1>5. DownInv' /\ JobInv'
  BY <1>1, <1>2, Zenon DEF DownInv, JobInv, NoJob
<1>6. NumberInv'
  <2>1. /\ \A op \in disk.tables : op <= disk.last
        /\ \E b \in Nat : \A p \in records : p[2] <= b
    BY Zenon DEF PathInv, NumberInv
  <2>2. lastSeq' <= upper' /\ ~up'
    BY <1>1
  <2> QED
    BY <1>1, <2>1, <2>2, Zenon DEF NumberInv
<1>7. OrderInv' /\ PlaceInv'
  BY <1>1, Zenon DEF PathInv, OrderInv, PlaceInv
<1>8. AckedInv'
  BY <1>1, Durable, Zenon DEF AckedInv, AckedDurable, Replayed
<1> QED
  BY <1>3, <1>4, <1>5, <1>6, <1>7, <1>8, Zenon DEF PathInv

\* What DB::Open computes from the files.
LEMMA Reopened ==
  ASSUME PathInv
  PROVE  /\ NewLog \in Nat /\ \A l \in logs : l <= NewLog
         /\ RecoveredSequence \in Nat
         /\ Recovered({}) \in [tables : SUBSET Nat, log : Nat, last : Nat]
         /\ Recovered({}).log = NewLog /\ Recovered({}).last = RecoveredSequence
         /\ \A op \in Recovered({}).tables : op <= RecoveredSequence
         /\ acked \subseteq Recovered({}).tables
<1>1. NewLog \in Nat /\ \A l \in logs : l <= NewLog
  <2>1. PICK m \in logs : \A l \in logs : l <= m
    BY Zenon DEF PathInv, PlaceInv
  <2>2. logs # {} /\ logs \subseteq Nat /\ m \in Nat
    BY <2>1, Zenon DEF PathInv, PathTypes
  <2>3. Max(logs) \in logs /\ \A l \in logs : l <= Max(logs)
    BY <2>1, <2>2, MaxIs, Zenon
  <2>4. NewLog = Max(logs) + 1
    BY <2>2, Zenon DEF NewLog, MaxOf
  <2>5. Max(logs) \in Nat
    BY <2>2, <2>3, Zenon
  <2>6. ASSUME NEW l \in logs PROVE l <= Max(logs) + 1
    <3>1. l \in Nat /\ l <= Max(logs)
      BY <2>2, <2>3, Zenon
    <3> QED
      BY <2>5, <3>1
  <2> QED
    BY <2>4, <2>5, <2>6
<1> DEFINE Seen == {p[2] : p \in Read} \cup {disk.last}
<1>2. RecoveredSequence = Max(Seen)
  BY Zenon DEF RecoveredSequence, MaxOf
<1>3. \A p \in Read : p[2] \in Nat
  BY DEF Read, PathInv, PathTypes
<1>4. disk.last \in Nat /\ disk.tables \subseteq Nat
  BY Zenon DEF PathInv, PathTypes
<1>5. PICK b \in Nat : \A p \in records : p[2] <= b
  BY Zenon DEF PathInv, NumberInv
<1>6. ASSUME NEW x \in Seen PROVE x \in Nat /\ x <= b + disk.last
  <2>1. CASE x = disk.last
    BY <1>4, <2>1
  <2>2. ASSUME NEW p \in Read, x = p[2] PROVE x \in Nat /\ x <= b + disk.last
    <3>1. x \in Nat /\ x <= b
      BY <1>3, <1>5, <2>2, Zenon DEF Read
    <3> QED
      BY <1>4, <3>1
  <2> QED
    BY <2>1, <2>2, Zenon
<1>7. disk.last \in Seen /\ \A p \in Read : p[2] \in Seen
  BY Zenon
<1> HIDE DEF Seen
<1>8. b + disk.last \in Nat
  BY <1>4
<1>9. Max(Seen) \in Seen /\ \A x \in Seen : x <= Max(Seen)
  <2>1. Seen # {} /\ Seen \subseteq Nat
    BY <1>6, <1>7, Zenon
  <2> QED
    BY <1>6, <1>8, <2>1, MaxIs, Zenon
<1>10. RecoveredSequence \in Nat
  BY <1>2, <1>6, <1>9, Zenon
<1>11. /\ Recovered({}).log = NewLog /\ Recovered({}).last = RecoveredSequence
       /\ Recovered({}).tables = disk.tables \cup {p[2] : p \in Read}
  BY Zenon DEF Recovered
<1>12. Recovered({}) \in [tables : SUBSET Nat, log : Nat, last : Nat]
  <2>1. disk.tables \cup {p[2] : p \in {q \in Read : q[1] \notin {}}} \in SUBSET Nat
    BY <1>3, <1>4, Zenon
  <2> QED
    BY <1>1, <1>10, <2>1, Zenon DEF Recovered
<1>13. ASSUME NEW op \in Recovered({}).tables PROVE op <= RecoveredSequence
  <2>1. CASE op \in disk.tables
    <3>1. op <= disk.last
      BY <2>1, Zenon DEF PathInv, NumberInv
    <3>2. disk.last <= RecoveredSequence
      BY <1>2, <1>7, <1>9, Zenon
    <3> QED
      BY <1>4, <1>10, <2>1, <3>1, <3>2
  <2>2. CASE op \in {p[2] : p \in Read}
    BY <1>2, <1>7, <1>9, <2>2, Zenon
  <2> QED
    BY <1>11, <2>1, <2>2, Zenon
<1>14. ASSUME NEW op \in acked PROVE op \in Recovered({}).tables
  <2>1. CASE op \in disk.tables
    BY <1>11, <2>1, Zenon
  <2>2. ASSUME NEW l \in Replayed, <<l, op>> \in records PROVE op \in {p[2] : p \in Read}
    <3>1. <<l, op>> \in Read
      BY <2>2, Zenon DEF Read
    <3>2. <<l, op>>[2] = op
      BY Zenon
    <3> QED
      BY <3>1, <3>2, Zenon
  <2> QED
    BY <1>11, <2>1, <2>2, Durable, Zenon DEF AckedDurable
<1> QED
  BY <1>1, <1>10, <1>11, <1>12, <1>13, <1>14, Zenon

LEMMA OpenMoves ==
  ASSUME OneWriter, PathInv, NEW bad, Open(bad)
  PROVE  PathInv'
<1>1. bad = {} /\ ~up
  BY Zenon DEF Open, CanOpen, OneWriter
<1>2. /\ up' = TRUE /\ cur' = NewLog /\ live' = Recovered({}).tables
      /\ lastSeq' = RecoveredSequence /\ upper' = RecoveredSequence
      /\ disk' = Recovered({}) /\ logs' = {NewLog} /\ records' = {}
      /\ UNCHANGED <<pc, batch, linked, first, last, imm, old, mems, held, done, job, acked>>
  BY <1>1, Zenon DEF Open, list, flush
<1>3. /\ ~imm /\ mems = {} /\ job.stage = "none"
      /\ \A t \in Threads : pc[t] = "idle"
  BY <1>1, Zenon DEF PathInv, DownInv
<1>4. PathTypes'
  BY <1>2, Reopened, Zenon DEF PathInv, PathTypes
<1>5. ASSUME NEW t \in Threads PROVE WriterInv(t)'
  <2>1. Free(t)
    BY <1>3, Zenon DEF PathInv, WriterInv, Resting
  <2> QED
    BY <1>2, <1>3, <2>1, Zenon DEF WriterInv, Free, Resting, Working
<1>6. DownInv' /\ JobInv'
  BY <1>2, <1>3, Zenon DEF DownInv, JobInv
<1>7. NumberInv'
  <2>1. RecoveredSequence <= RecoveredSequence
    BY Reopened
  <2>2. /\ disk'.last = RecoveredSequence /\ \A op \in disk'.tables : op <= RecoveredSequence
        /\ mems' = {} /\ \E b \in Nat : \A p \in records' : p[2] <= b
    BY <1>2, <1>3, Reopened, Zenon
  <2> QED
    BY <1>2, <2>1, <2>2, Zenon DEF NumberInv
<1>8. OrderInv' /\ PlaceInv'
  <2>1. NewLog <= NewLog
    BY Reopened
  <2> QED
    BY <1>2, <1>3, <2>1, Reopened, Zenon DEF OrderInv, PlaceInv
<1>9. AckedInv'
  BY <1>2, Reopened, Zenon DEF AckedInv
<1> QED
  BY <1>4, <1>5, <1>6, <1>7, <1>8, <1>9, Zenon DEF PathInv

LEMMA OpenStopMoves ==
  ASSUME OneWriter, PathInv, NEW bad, OpenStops(bad)
  PROVE  PathInv'
<1>1. bad = {} /\ ~up
  BY Zenon DEF OpenStops, CanOpen, OneWriter
<1>2. /\ logs' = logs \cup {NewLog} /\ disk' \in {disk, Recovered({})}
      /\ UNCHANGED <<pc, batch, linked, first, last, upper, lastSeq, imm, up, cur, old, mems,
                     live, held, done, job, records, acked>>
  BY <1>1, Zenon DEF OpenStops, vars, list, seqs, flush, memory
<1>3. /\ ~imm /\ mems = {} /\ live = {} /\ job.stage = "none"
      /\ \A t \in Threads : pc[t] = "idle"
  BY <1>1, Zenon DEF PathInv, DownInv
<1>4. PathTypes'
  BY <1>2, Reopened, Zenon DEF PathInv, PathTypes
<1>5. ASSUME NEW t \in Threads PROVE WriterInv(t)'
  <2>1. Free(t)
    BY <1>3, Zenon DEF PathInv, WriterInv, Resting
  <2> QED
    BY <1>2, <1>3, <2>1, Zenon DEF WriterInv, Free, Resting, Working
<1>6. DownInv' /\ JobInv'
  BY <1>2, <1>3, Zenon DEF DownInv, JobInv, PathInv
<1>7. NumberInv'
  <2>1. \A op \in disk'.tables : op <= disk'.last
    BY <1>2, Reopened, Zenon DEF PathInv, NumberInv
  <2> QED
    BY <1>1, <1>2, <1>3, <2>1, Zenon DEF PathInv, NumberInv
<1>8. OrderInv' /\ PlaceInv'
  <2>1. NewLog <= NewLog
    BY Reopened
  <2> QED
    BY <1>1, <1>2, <1>3, <2>1, Reopened, Zenon DEF OrderInv, PlaceInv
<1>9. AckedInv'
  <2>1. CASE disk' = disk
    <3>1. Replayed \subseteq Replayed'
      BY <1>2, <2>1, Zenon DEF Replayed
    <3> QED
      BY <1>1, <1>2, <2>1, <3>1, Durable, Zenon DEF AckedInv, AckedDurable
  <2>2. CASE disk' = Recovered({})
    BY <1>1, <1>2, <2>2, Reopened, Zenon DEF AckedInv, AckedDurable
  <2> QED
    BY <1>2, <2>1, <2>2, Zenon
<1> QED
  BY <1>4, <1>5, <1>6, <1>7, <1>8, <1>9, Zenon DEF PathInv

-----------------------------------------------------------------------------
(***************************************************************************)
(* PathInv holds of every state.                                            *)
(***************************************************************************)
LEMMA PathStarts ==
  PathInit => PathInv
<1> SUFFICES ASSUME PathInit PROVE PathInv
  BY Zenon
<1>1. /\ up = TRUE /\ upper = 0 /\ lastSeq = 0 /\ imm = FALSE /\ cur = 1 /\ old = 0
      /\ mems = {} /\ live = {} /\ job = NoJob /\ logs = {1} /\ records = {} /\ acked = {}
      /\ disk = [tables |-> {}, log |-> 1, last |-> 0]
  BY Zenon DEF PathInit, Init
<1>2. /\ pc = [t \in Threads |-> "idle"] /\ batch = [t \in Threads |-> NULL]
      /\ linked = [t \in Threads |-> FALSE]
      /\ first = [t \in Threads |-> 0] /\ last = [t \in Threads |-> 0]
      /\ held = [t \in Threads |-> 0] /\ done = [t \in Threads |-> "none"]
  BY Zenon DEF PathInit, Init
<1>3. PathTypes
  <2>1. /\ pc \in [Threads -> Resting \cup Working \cup {"link", "fail"}]
        /\ batch \in [Threads -> Nat \cup {NULL}]
        /\ linked \in [Threads -> BOOLEAN]
        /\ first \in [Threads -> Nat] /\ last \in [Threads -> Nat]
        /\ held \in [Threads -> Nat]
        /\ done \in [Threads -> {"none", "logged", "inserted"}]
    BY <1>2, Zenon DEF Resting
  <2>2. job \in [stage : {"none", "build", "apply", "commit"}, seen : SUBSET Nat,
                 add : SUBSET Nat, log : Nat, last : Nat]
    BY <1>1, Zenon DEF NoJob
  <2>3. disk \in [tables : SUBSET Nat, log : Nat, last : Nat]
    BY <1>1, Zenon
  <2> QED
    BY <1>1, <2>1, <2>2, <2>3, Zenon DEF PathTypes
<1>4. ASSUME NEW t \in Threads PROVE WriterInv(t)
  BY <1>2, Zenon DEF WriterInv, Free, Resting, Working
<1>5. DownInv /\ NumberInv /\ JobInv
  <2>1. DownInv
    BY <1>1, Zenon DEF DownInv
  <2>2. job.stage = "none"
    BY <1>1, Zenon DEF NoJob
  <2>3. JobInv
    BY <2>2, Zenon DEF JobInv
  <2>4. lastSeq <= upper /\ disk.last <= lastSeq /\ disk.tables = {}
    BY <1>1
  <2>5. \E b \in Nat : \A p \in records : p[2] <= b
    BY <1>1, Zenon
  <2>6. NumberInv
    BY <1>1, <2>4, <2>5, Zenon DEF NumberInv
  <2> QED
    BY <2>1, <2>3, <2>6, Zenon
<1>6. OrderInv /\ PlaceInv /\ AckedInv
  BY <1>1 DEF OrderInv, PlaceInv, AckedInv
<1> QED
  BY <1>3, <1>4, <1>5, <1>6, Zenon DEF PathInv

LEMMA PathSteps ==
  ASSUME OneWriter, PathInv, [PathNext]_allVars
  PROVE  PathInv'
<1>1. ASSUME NEW t \in Threads, up, QueueOnly(t) PROVE PathInv'
  <2>1. pc[t] \in Resting \cup Working \cup {"link", "fail"}
    BY Zenon DEF PathInv, PathTypes
  <2>2. ~Claim(t) /\ ~Drain(t) /\ ~Drained(t) /\ ~Copy(t)
    BY <2>1, Zenon DEF Claim, Drain, Drained, Copy, Resting, Working
  <2> QED
    BY <1>1, <2>2, RestingMoves, LinkMoves, WorkMoves, PublishMoves, Zenon DEF QueueOnly
<1>2. ASSUME NEW t \in Threads, up,
             TakeRoom(t) \/ Switch(t) \/ AddRecord(t) \/ InsertInto(t) \/ Acknowledge(t)
      PROVE  PathInv'
  BY <1>2, RoomMoves, SwitchMoves, RecordMoves, InsertMoves, ReturnMoves, Zenon
<1>3. ASSUME NEW t \in Threads, BackupBegins(t) \/ ListFiles(t) \/ CopyFiles(t) PROVE FALSE
  <2>1. t \notin Backups
    BY Alone, Zenon
  <2>2. pc[t] \in Resting \cup Working \cup {"link", "fail"}
    BY Zenon DEF PathInv, PathTypes
  <2>3. pc[t] # "copying"
    BY <2>2, Zenon DEF Resting, Working
  <2> QED
    BY <1>3, <2>1, <2>3, Zenon DEF BackupBegins, CallBackup, ListFiles, CopyFiles, OpenGate
<1>4. ASSUME Nudge \/ Quiet, UNCHANGED pathVars PROVE PathInv'
  BY <1>4, NothingMoves, Zenon DEF Nudge, Quiet, vars, list, seqs, flush, pathVars, memory, files
<1>5. ASSUME up, FlushBegins \/ FlushBuilt \/ FlushApplied \/ FlushCommits \/ FlushFailed
      PROVE  PathInv'
  BY <1>5, FlushBeginMoves, FlushBuiltMoves, FlushAppliedMoves, FlushCommitMoves, Zenon
<1>6. ASSUME NEW bad, Open(bad) \/ OpenStops(bad) PROVE PathInv'
  BY <1>6, OpenMoves, OpenStopMoves, Zenon
<1>7. ASSUME UNCHANGED allVars PROVE PathInv'
  BY <1>7, NothingMoves, Zenon DEF allVars, vars, list, seqs, flush, pathVars, memory, files
<1>8. ASSUME PathNext PROVE PathInv'
  BY <1>1, <1>2, <1>3, <1>4, <1>5, <1>6, <1>8, CrashMoves, Zenon DEF PathNext
<1> QED
  BY <1>7, <1>8, Zenon

(***************************************************************************)
(* With one writer and no backup PathInv is an invariant: through every     *)
(* switch, flush, failure, crash and recovery of db_impl.cc what Write has  *)
(* acknowledged is in the place its log, its table and the MANIFEST say.    *)
(***************************************************************************)
THEOREM PathInvariant ==
  ASSUME OneWriter
  PROVE  PathSpec => []PathInv
<1>1. PathInv /\ [PathNext]_allVars => PathInv'
  BY PathSteps, Zenon
<1> QED
  BY <1>1, PathStarts, PTL DEF PathSpec

(***************************************************************************)
(* A write that returned OK survives the end of the process: its operations *)
(* are in a table of the MANIFEST or in a log that Recover replays, at every *)
(* point of Write, CompactMemTableThread and DB::Open.                      *)
(***************************************************************************)
THEOREM AckedAlwaysDurable ==
  ASSUME OneWriter
  PROVE  PathSpec => []AckedDurable
<1>1. PathInv => AckedDurable
  BY Durable, Zenon
<1> QED
  BY <1>1, PathInvariant, PTL

\* What is stored where, one operation at a time.
LEMMA StoredIn ==
  ASSUME PathInv, NEW op
  PROVE  /\ op \in In(mems, cur) <=> <<cur, op>> \in mems
         /\ op \in InImm <=> imm /\ <<old, op>> \in mems
         /\ op \in Stored <=> op \in In(mems, cur) \/ op \in InImm \/ op \in live
         /\ op \in Stored => op \in Nat
<1>1. ASSUME NEW l PROVE op \in In(mems, l) <=> <<l, op>> \in mems
  <2>1. ASSUME op \in In(mems, l) PROVE <<l, op>> \in mems
    <3>1. PICK p \in mems : p[1] = l /\ p[2] = op
      BY <2>1, Zenon DEF In
    <3>2. p = <<l, op>>
      BY <3>1 DEF PathInv, PathTypes
    <3> QED
      BY <3>1, <3>2, Zenon
  <2>2. ASSUME <<l, op>> \in mems PROVE op \in In(mems, l)
    BY <2>2 DEF In
  <2> QED
    BY <2>1, <2>2, Zenon
<1>2. op \in InImm <=> imm /\ <<old, op>> \in mems
  BY <1>1, Zenon DEF InImm
<1>3. op \in Stored <=> op \in In(mems, cur) \/ op \in InImm \/ op \in live
  BY Zenon DEF Stored
<1>4. ASSUME NEW l, <<l, op>> \in mems PROVE op \in Nat
  BY <1>4, Zenon DEF PathInv, PathTypes
<1>5. live \subseteq Nat
  BY Zenon DEF PathInv, PathTypes
<1> QED
  BY <1>1, <1>2, <1>3, <1>4, <1>5, Zenon

\* The maximum of a set is that of the part that holds its largest members.
LEMMA MaxOfPart ==
  ASSUME NEW S, S \subseteq Nat, NEW A, A \subseteq S, A # {}, NEW b \in Nat,
         \A x \in S : x <= b,
         \A x \in S : x \in A \/ \A a \in A : x < a
  PROVE  Max(S) = Max(A)
<1>1. Max(S) \in S /\ \A x \in S : x <= Max(S)
  <2>1. S # {}
    BY Zenon
  <2> QED
    BY <2>1, MaxIs, Zenon
<1>2. Max(A) \in A /\ \A x \in A : x <= Max(A)
  <2>1. A \subseteq Nat /\ \A x \in A : x <= b
    BY Zenon
  <2> QED
    BY <2>1, MaxIs, Zenon
<1>3. Max(A) <= Max(S) /\ Max(A) \in Nat /\ Max(S) \in Nat
  BY <1>1, <1>2, Zenon
<1>4. Max(S) <= Max(A)
  <2>1. CASE Max(S) \in A
    BY <1>2, <2>1, Zenon
  <2>2. CASE Max(S) < Max(A)
    BY <1>3, <2>2
  <2> QED
    BY <1>1, <1>2, <2>1, <2>2, Zenon
<1> QED
  BY <1>3, <1>4

(***************************************************************************)
(* A write that returned OK can be read: its operations are in mem_, in     *)
(* imm_ or in a table whenever the database is open, and LastSequence       *)
(* covers them.                                                             *)
(***************************************************************************)
THEOREM AckedAlwaysReadable ==
  ASSUME OneWriter
  PROVE  PathSpec => []AckedReadable
<1>1. ASSUME PathInv PROVE AckedReadable
  <2> SUFFICES ASSUME up, NEW op \in acked PROVE op \in Stored /\ op <= lastSeq
    BY Zenon DEF AckedReadable
  <2>1. op <= lastSeq /\ (<<cur, op>> \in mems \/ (imm /\ <<old, op>> \in mems) \/ op \in live)
    BY <1>1, Zenon DEF PathInv, AckedInv
  <2> QED
    BY <1>1, <2>1, StoredIn, Zenon
<1> QED
  BY <1>1, PathInvariant, PTL

(***************************************************************************)
(* Sequence numbers handed out after a recovery are fresh: nothing stored   *)
(* in a memtable or in a table of the MANIFEST is above writers_upper_.     *)
(***************************************************************************)
THEOREM StoredAlwaysBelowUpper ==
  ASSUME OneWriter
  PROVE  PathSpec => []StoredBelowUpper
<1>1. ASSUME PathInv PROVE StoredBelowUpper
  <2> SUFFICES ASSUME up, NEW op \in Stored \cup disk.tables PROVE op <= upper
    BY Zenon DEF StoredBelowUpper
  <2>1. /\ lastSeq \in Nat /\ upper \in Nat /\ disk.last \in Nat /\ disk.tables \subseteq Nat
        /\ live \subseteq disk.tables
    BY <1>1, Zenon DEF PathInv, PathTypes, PlaceInv
  <2>2. lastSeq <= upper /\ disk.last <= lastSeq
    BY <1>1, Zenon DEF PathInv, NumberInv
  <2>3. ASSUME op \in disk.tables PROVE op <= upper
    <3>1. op \in Nat /\ op <= disk.last
      BY <1>1, <2>1, <2>3, Zenon DEF PathInv, NumberInv
    <3> QED
      BY <2>1, <2>2, <3>1
  <2>4. ASSUME NEW l, <<l, op>> \in mems PROVE op <= upper
    <3>1. op \in Nat
      BY <1>1, <2>4, Zenon DEF PathInv, PathTypes
    <3>2. op <= lastSeq \/ op <= upper
      BY <1>1, <2>4, Zenon DEF PathInv, NumberInv
    <3> QED
      BY <2>1, <2>2, <3>1, <3>2
  <2> QED
    BY <1>1, <2>1, <2>3, <2>4, StoredIn, Zenon
<1> QED
  BY <1>1, PathInvariant, PTL

(***************************************************************************)
(* DBImpl::Get, which stops at the first of mem_, imm_ and the tables that  *)
(* has the key, returns the newest operation stored at LastSequence.        *)
(***************************************************************************)
THEOREM GetAlwaysNewest ==
  ASSUME OneWriter
  PROVE  PathSpec => []GetReturnsNewest
<1>1. ASSUME PathInv PROVE GetReturnsNewest
  <2> DEFINE M == Visible(In(mems, cur))
             I == Visible(InImm)
             L == Visible(live)
             S == Visible(Stored)
  <2>1. /\ S \subseteq Nat /\ \A x \in S : x <= lastSeq
        /\ M \subseteq S /\ I \subseteq S /\ L \subseteq S
        /\ \A x \in S : x \in M \/ x \in I \/ x \in L
    BY <1>1, StoredIn, Zenon DEF Visible
  <2>2. lastSeq \in Nat
    BY <1>1, Zenon DEF PathInv, PathTypes
  <2>3. ASSUME NEW x \in I, NEW a \in M PROVE x < a
    <3>1. imm /\ <<old, x>> \in mems /\ <<cur, a>> \in mems
      BY <1>1, StoredIn, Zenon DEF Visible
    <3>2. old # cur
      BY <1>1, <3>1, OldPlace, Zenon
    <3> QED
      BY <1>1, <3>1, <3>2, Zenon DEF PathInv, OrderInv
  <2>4. ASSUME NEW x \in L, NEW a \in M \cup I PROVE x < a
    <3>1. PICK l : <<l, a>> \in mems
      BY <1>1, StoredIn, Zenon DEF Visible
    <3> QED
      BY <1>1, <3>1, Zenon DEF Visible, PathInv, OrderInv
  <2>5. Get = IF M # {} THEN Max(M) ELSE IF I # {} THEN Max(I) ELSE MaxOf(L, 0)
    BY Zenon DEF Get
  <2> HIDE DEF M, I, L, S
  <2>6. CASE M # {}
    <3>1. Max(S) = Max(M)
      BY <2>1, <2>2, <2>3, <2>4, <2>6, MaxOfPart, Zenon
    <3> QED
      BY <2>1, <2>5, <2>6, <3>1, Zenon DEF GetReturnsNewest, MaxOf, S
  <2>7. CASE M = {} /\ I # {}
    <3>1. Max(S) = Max(I)
      BY <2>1, <2>2, <2>4, <2>7, MaxOfPart, Zenon
    <3> QED
      BY <2>1, <2>5, <2>7, <3>1, Zenon DEF GetReturnsNewest, MaxOf, S
  <2>8. CASE M = {} /\ I = {}
    <3>1. S = L
      BY <2>1, <2>8, Zenon
    <3> QED
      BY <2>5, <2>8, <3>1, Zenon DEF GetReturnsNewest, S
  <2> QED
    BY <2>6, <2>7, <2>8, Zenon
<1> QED
  BY <1>1, PathInvariant, PTL

-----------------------------------------------------------------------------
(***************************************************************************)
(* LiveBackup.  With any number of writers and backups, and as long as I/O  *)
(* does not fail, a backup loses nothing that is durable where it is made.  *)
(***************************************************************************)
NoFaults == \A c \in Calls : c[DISK] = 0

CopyFields == {"listed", "done", "before", "linked", "names", "tables", "ops"}

\* Where a backup is when it does not copy and has not been called again.
After == {"idle", "publish", "unlink", "notify"}

\* What can be opened from the files at hand.
Saved(op, tables, log, names, recs) ==
  op \in tables \/ \E l \in names : l >= log /\ <<l, op>> \in recs

\* A copy that is made holds together; one whose files are listed will.
CopyDone(c, p) ==
  c.done => /\ p \in After /\ c.tables \subseteq c.linked
            /\ c.before \subseteq c.tables \cup c.ops

CopyUnderWay(c, p, d, recs, stage) ==
  c.listed /\ ~c.done =>
    /\ p = "copying" /\ stage \notin {"apply", "commit"}
    /\ d.tables \subseteq c.linked
    /\ \A op \in c.before : Saved(op, d.tables, d.log, c.names, recs)

CopyInv ==
  \A t \in Backups : /\ DOMAIN copies[t] = CopyFields
                     /\ copies[t].before \subseteq acked
                     /\ CopyDone(copies[t], pc[t])
                     /\ CopyUnderWay(copies[t], pc[t], disk, records, job.stage)

\* The tables of the MANIFEST are those of the version, except while the flush
\* has written its edit and not installed it.
TablesInv ==
  up => \/ disk.tables \subseteq live
        \/ job.stage = "commit" /\ disk.tables \subseteq live \cup job.add

\* A flush under way is that of CompactMemTableThread.
Flushing == job.stage # "none" => bg = "flush"

BackupInv ==
  /\ DOMAIN pc = Threads /\ DOMAIN copies = Threads
  /\ left \in [Threads \cup {DISK} -> Int] /\ left[DISK] = 0
  /\ ~up => \A t \in Backups : ~(copies[t].listed /\ ~copies[t].done)
  /\ job.stage \in {"none", "build", "apply", "commit"}
  /\ Flushing /\ TablesInv /\ CopyInv

-----------------------------------------------------------------------------
LEMMA SignalSpares ==
  ASSUME NEW f, NEW S, NEW t \in Threads, f[t] \in After \cup {"copying"}
  PROVE  Signal(f, S)[t] = f[t] /\ DOMAIN Signal(f, S) = Threads
BY Zenon DEF Signal, Asleep, After

LEMMA ForegroundSpares ==
  ASSUME NEW f, NEW t \in Threads, f[t] \in After \cup {"copying"}
  PROVE  SignalAllForeground(f)[t] = f[t]
<1>1. f[t] # "full" /\ f[t] # "settling"
  BY Zenon DEF After
<1> QED
  BY <1>1, Zenon DEF SignalAllForeground

\* A step of the queue keeps a backup that copies where it is, and one that has
\* copied on its way to the end of the call.
Steady(t) ==
  /\ pc[t] = "copying" => pc'[t] = "copying"
  /\ pc[t] \in After => pc'[t] \in After

LEMMA MoveSteady ==
  ASSUME DOMAIN pc = Threads, NEW u \in Threads, NEW t \in Backups, NEW x, NEW f,
         f = [pc EXCEPT ![u] = x],
         u = t => pc[t] \notin After \cup {"copying"} \/ (x \in After /\ pc[t] # "copying")
  PROVE  /\ DOMAIN f = Threads
         /\ pc[t] = "copying" => f[t] = "copying"
         /\ pc[t] \in After => f[t] \in After
BY Zenon DEF Threads

\* The steps of the queue in which one thread moves.
LEMMA QueueSteady ==
  ASSUME DOMAIN pc = Threads, left[DISK] = 0, NEW u \in Threads, NEW t \in Backups,
         \/ \E b \in Batches : CallWrite(u, b)
         \/ BeginYieldsError(u) \/ BeginWaits(u) \/ BeginSwitchFails(u)
         \/ Link(u) \/ PassGate(u) \/ InsertFails(u) \/ RecordError(u)
         \/ Publish(u) \/ Notify(u) \/ Settle(u)
         \/ Claim(u) \/ Drain(u) \/ Drained(u) \/ Copy(u)
  PROVE  DOMAIN pc' = Threads /\ Steady(t)
<1>1. t \in Threads /\ t \notin Writers /\ t \notin Snapshotters
  BY ThreadsAssumption, Zenon DEF Threads
<1>2. CASE \E b \in Batches : CallWrite(u, b)
  <2>1. PICK x : pc' = [pc EXCEPT ![u] = x] /\ (u = t => pc[t] \notin After \cup {"copying"} \/ (x \in After /\ pc[t] # "copying"))
    BY <1>1, <1>2, Zenon DEF CallWrite, After
  <2> QED
    BY <2>1, MoveSteady, Zenon DEF Steady
<1>3. CASE BeginYieldsError(u) \/ BeginSwitchFails(u)
  <2>1. PICK x : pc' = [pc EXCEPT ![u] = x] /\ (u = t => pc[t] \notin After \cup {"copying"} \/ (x \in After /\ pc[t] # "copying"))
    BY <1>1, <1>3, Zenon DEF BeginYieldsError, BeginSwitchFails, After
  <2> QED
    BY <2>1, MoveSteady, Zenon DEF Steady
<1>4. CASE BeginWaits(u)
  <2>1. PICK x : pc' = [pc EXCEPT ![u] = x] /\ (u = t => pc[t] \notin After \cup {"copying"} \/ (x \in After /\ pc[t] # "copying"))
    BY <1>1, <1>4, Zenon DEF BeginWaits, After
  <2> QED
    BY <2>1, MoveSteady, Zenon DEF Steady
<1>5. CASE Link(u)
  <2>1. PICK x : pc' = [pc EXCEPT ![u] = x] /\ (u = t => pc[t] \notin After \cup {"copying"} \/ (x \in After /\ pc[t] # "copying"))
    BY <1>1, <1>5, Zenon DEF Link, After
  <2> QED
    BY <2>1, MoveSteady, Zenon DEF Steady
<1>6. CASE PassGate(u)
  <2>1. PICK x : pc' = [pc EXCEPT ![u] = x] /\ (u = t => pc[t] \notin After \cup {"copying"} \/ (x \in After /\ pc[t] # "copying"))
    BY <1>1, <1>6, Zenon DEF PassGate, After
  <2> QED
    BY <2>1, MoveSteady, Zenon DEF Steady
<1>7. CASE InsertFails(u)
  <2>1. PICK x : pc' = [pc EXCEPT ![u] = x] /\ (u = t => pc[t] \notin After \cup {"copying"} \/ (x \in After /\ pc[t] # "copying"))
    BY <1>1, <1>7, Zenon DEF InsertFails, After
  <2> QED
    BY <2>1, MoveSteady, Zenon DEF Steady
<1>8. CASE Publish(u)
  <2>1. PICK x : pc' = [pc EXCEPT ![u] = x] /\ (u = t => pc[t] \notin After \cup {"copying"} \/ (x \in After /\ pc[t] # "copying"))
    BY <1>1, <1>8, Zenon DEF Publish, After
  <2> QED
    BY <2>1, MoveSteady, Zenon DEF Steady
<1>9. CASE Notify(u)
  <2>1. PICK x : pc' = [pc EXCEPT ![u] = x] /\ (u = t => pc[t] \notin After \cup {"copying"} \/ (x \in After /\ pc[t] # "copying"))
    BY <1>1, <1>9, Zenon DEF Notify, Ended, After
  <2> QED
    BY <2>1, MoveSteady, Zenon DEF Steady
<1>10. CASE Settle(u)
  <2>1. PICK x : pc' = [pc EXCEPT ![u] = x] /\ (u = t => pc[t] \notin After \cup {"copying"} \/ (x \in After /\ pc[t] # "copying"))
    BY <1>1, <1>10, Zenon DEF Settle, After
  <2> QED
    BY <2>1, MoveSteady, Zenon DEF Steady
<1>11. CASE Claim(u)
  <2>1. PICK x : pc' = [pc EXCEPT ![u] = x] /\ (u = t => pc[t] \notin After \cup {"copying"} \/ (x \in After /\ pc[t] # "copying"))
    BY <1>1, <1>11, Zenon DEF Claim, After
  <2> QED
    BY <2>1, MoveSteady, Zenon DEF Steady
<1>12. CASE Drained(u)
  <2>1. PICK x : pc' = [pc EXCEPT ![u] = x] /\ (u = t => pc[t] \notin After \cup {"copying"} \/ (x \in After /\ pc[t] # "copying"))
    BY <1>1, <1>12, Zenon DEF Drained, After
  <2> QED
    BY <2>1, MoveSteady, Zenon DEF Steady
<1>13. CASE Copy(u)
  <2>1. PICK x : pc' = [pc EXCEPT ![u] = x] /\ (u = t => pc[t] \notin After \cup {"copying"} \/ (x \in After /\ pc[t] # "copying"))
    BY <1>1, <1>13, Zenon DEF Copy, After
  <2> QED
    BY <2>1, MoveSteady, Zenon DEF Steady
<1>14. CASE RecordError(u)
  <2>1. PICK x, f : f = [pc EXCEPT ![u] = x] /\ pc[u] = "fail" /\ (pc' = f \/ pc' = SignalAllForeground(f))
    BY <1>14, Zenon DEF RecordError
  <2>2. /\ DOMAIN f = Threads
        /\ pc[t] = "copying" => f[t] = "copying"
        /\ pc[t] \in After => f[t] \in After
    BY <2>1, MoveSteady, Zenon DEF After
  <2>3. CASE pc' = f
    BY <2>2, <2>3, Zenon DEF Steady
  <2>4. CASE pc' = SignalAllForeground(f)
    <3>1. ASSUME f[t] \in After \cup {"copying"} PROVE pc'[t] = f[t]
      BY <1>1, <2>4, <3>1, ForegroundSpares, Zenon
    <3>2. ASSUME pc[t] = "copying" PROVE pc'[t] = "copying"
      BY <2>2, <3>1, <3>2, Zenon
    <3>3. ASSUME pc[t] \in After PROVE pc'[t] \in After
      BY <2>2, <3>1, <3>3, Zenon
    <3>4. DOMAIN pc' = Threads
      BY <2>4, Zenon DEF SignalAllForeground
    <3> QED
      BY <3>2, <3>3, <3>4, Zenon DEF Steady
  <2> QED
    BY <2>1, <2>3, <2>4, Zenon
<1>15. CASE Drain(u)
  <2>1. PICK x, f, S : f = [pc EXCEPT ![u] = x] /\ pc[u] = "drain" /\ pc' = Signal(f, S)
    BY <1>15, Zenon DEF Drain
  <2>2. /\ pc[t] = "copying" => f[t] = "copying"
        /\ pc[t] \in After => f[t] \in After
    BY <2>1, MoveSteady, Zenon DEF After
  <2>3. DOMAIN Signal(f, S) = Threads
    BY Zenon DEF Signal
  <2> QED
    BY <1>1, <2>1, <2>2, <2>3, SignalSpares, Zenon DEF Steady
<1> QED
  BY <1>2, <1>3, <1>4, <1>5, <1>6, <1>7, <1>8, <1>9, <1>10, <1>11, <1>12, <1>13, <1>14, <1>15, Zenon

-----------------------------------------------------------------------------
(* What each step leaves of BackupInv. *)

\* Nothing a copy depends on shrinks.
Lasting ==
  /\ UNCHANGED disk /\ records \subseteq records' /\ acked \subseteq acked'
  /\ job'.stage \in {"apply", "commit"} => job.stage \in {"apply", "commit"}

LEMMA CopyLasts ==
  ASSUME NEW t \in Backups, Lasting, copies'[t] = copies[t], Steady(t),
         DOMAIN copies[t] = CopyFields, copies[t].before \subseteq acked,
         CopyDone(copies[t], pc[t]),
         CopyUnderWay(copies[t], pc[t], disk, records, job.stage)
  PROVE  /\ DOMAIN copies'[t] = CopyFields /\ copies'[t].before \subseteq acked'
         /\ CopyDone(copies'[t], pc'[t])
         /\ CopyUnderWay(copies'[t], pc'[t], disk', records', job'.stage)
<1>1. DOMAIN copies'[t] = CopyFields /\ copies'[t].before \subseteq acked'
  BY Zenon DEF Lasting
<1>2. CopyDone(copies'[t], pc'[t])
  BY Zenon DEF CopyDone, Steady
<1>3. ASSUME copies[t].listed, ~copies[t].done
      PROVE  /\ pc'[t] = "copying" /\ job'.stage \notin {"apply", "commit"}
             /\ disk'.tables \subseteq copies[t].linked
             /\ \A op \in copies[t].before : Saved(op, disk'.tables, disk'.log, copies[t].names, records')
  <2>1. /\ pc[t] = "copying" /\ job.stage \notin {"apply", "commit"}
        /\ disk.tables \subseteq copies[t].linked
        /\ \A op \in copies[t].before : Saved(op, disk.tables, disk.log, copies[t].names, records)
    BY <1>3, Zenon DEF CopyUnderWay
  <2>2. \A op \in copies[t].before : Saved(op, disk'.tables, disk'.log, copies[t].names, records')
    BY <2>1, Zenon DEF Saved, Lasting
  <2> QED
    BY <2>1, <2>2, Zenon DEF Steady, Lasting
<1>4. CopyUnderWay(copies'[t], pc'[t], disk', records', job'.stage)
  BY <1>3, Zenon DEF CopyUnderWay
<1> QED
  BY <1>1, <1>2, <1>4, Zenon

LEMMA AllLast ==
  ASSUME BackupInv, up, Lasting, UNCHANGED <<up, live, copies>>, Flushing', \A t \in Backups : Steady(t),
         DOMAIN pc' = Threads, left' \in [Threads \cup {DISK} -> Int], left'[DISK] = 0,
         UNCHANGED job \/ (job'.stage = "build" /\ job.stage # "commit")
  PROVE  BackupInv'
<1>1. CopyInv'
  <2>1. ASSUME NEW t \in Backups
        PROVE  /\ DOMAIN copies'[t] = CopyFields /\ copies'[t].before \subseteq acked'
               /\ CopyDone(copies'[t], pc'[t])
               /\ CopyUnderWay(copies'[t], pc'[t], disk', records', job'.stage)
    BY CopyLasts, Zenon DEF BackupInv, CopyInv
  <2> QED
    BY <2>1, Zenon DEF CopyInv
<1>2. TablesInv'
  BY Zenon DEF BackupInv, TablesInv, Lasting
<1>3. job'.stage \in {"none", "build", "apply", "commit"}
  BY Zenon DEF BackupInv
<1> QED
  BY <1>1, <1>2, <1>3, Zenon DEF BackupInv

LEMMA LeftStays ==
  ASSUME BackupInv, UNCHANGED left \/ \E t \in Threads : left' = [left EXCEPT ![t] = @ - 1]
  PROVE  left' \in [Threads \cup {DISK} -> Int] /\ left'[DISK] = 0
BY ThreadsAssumption DEF BackupInv

LEMMA QueueOnlyKeeps ==
  ASSUME BackupInv, up, NEW u \in Threads, QueueOnly(u)
  PROVE  BackupInv'
<1>1. DOMAIN pc = Threads /\ left[DISK] = 0
  BY Zenon DEF BackupInv
<1>2. UNCHANGED pathVars
  BY Zenon DEF QueueOnly
<1>3. \A t \in Backups : Steady(t)
  BY <1>1, QueueSteady, Zenon DEF QueueOnly
<1>4. DOMAIN pc' = Threads
  BY <1>1, Zenon DEF QueueOnly, CallWrite, BeginYieldsError, BeginWaits, BeginSwitchFails, Link, PassGate,
     InsertFails, RecordError, Publish, Notify, Settle, Claim, Drain, Drained, Copy, Signal, SignalAllForeground
<1>5. UNCHANGED left \/ \E t \in Threads : left' = [left EXCEPT ![t] = @ - 1]
  BY Zenon DEF QueueOnly, CallWrite, BeginYieldsError, BeginWaits, BeginSwitchFails, Link, PassGate,
     InsertFails, RecordError, Publish, Notify, Settle, Claim, Drain, Drained, Copy
<1>6. Lasting /\ UNCHANGED <<up, live, copies, job>>
  BY <1>2, Zenon DEF Lasting, pathVars, memory, files
<1>7. UNCHANGED bg \/ bg' = SignalMemtable(bg)
  BY Zenon DEF QueueOnly, CallWrite, BeginYieldsError, BeginWaits, BeginSwitchFails, Link, PassGate,
     InsertFails, RecordError, Publish, Notify, Settle, Claim, Drain, Drained, Copy, flush
<1>8. Flushing'
  BY <1>6, <1>7, Zenon DEF BackupInv, Flushing, SignalMemtable
<1> QED
  BY <1>3, <1>4, <1>5, <1>6, <1>8, LeftStays, AllLast, Zenon

\* The steps of a writer that add to the logs and memtables.
LEMMA WriterKeeps ==
  ASSUME BackupInv, up, NEW u \in Threads,
         TakeRoom(u) \/ Switch(u) \/ AddRecord(u) \/ InsertInto(u)
  PROVE  BackupInv'
<1>1. DOMAIN pc = Threads
  BY Zenon DEF BackupInv
<1>2. Lasting /\ UNCHANGED <<up, live, copies, job, left, bg>>
  <2>1. CASE TakeRoom(u)
    BY <2>1, Zenon DEF TakeRoom, BeginRoom, files, flush, Lasting
  <2>2. CASE Switch(u)
    BY <2>2, Zenon DEF Switch, BeginSwitches, Lasting
  <2>3. CASE AddRecord(u)
    BY <2>3, Zenon DEF AddRecord, vars, flush, Lasting
  <2>4. CASE InsertInto(u)
    BY <2>4, Zenon DEF InsertInto, Insert, files, flush, Lasting
  <2> QED
    BY <2>1, <2>2, <2>3, <2>4, Zenon
<1>5. Flushing'
  BY <1>2, Zenon DEF BackupInv, Flushing
<1>3. CASE AddRecord(u)
  <2>1. UNCHANGED pc
    BY <1>3, Zenon DEF AddRecord, vars
  <2>2. \A t \in Backups : Steady(t)
    BY <2>1, Zenon DEF Steady
  <2> QED
    BY <1>1, <1>2, <1>5, <2>1, <2>2, LeftStays, AllLast, Zenon
<1>4. CASE TakeRoom(u) \/ Switch(u) \/ InsertInto(u)
  <2>1. PICK x \in {"link", "publish"} : pc' = [pc EXCEPT ![u] = x] /\ pc[u] \in {"room", "write"}
    BY <1>4, Zenon DEF TakeRoom, BeginRoom, Switch, BeginSwitches, InsertInto, Insert
  <2>2. ASSUME NEW t \in Backups PROVE Steady(t)
    <3>1. pc[u] \notin After \cup {"copying"}
      BY <2>1, Zenon DEF After
    <3> QED
      BY <1>1, <2>1, <3>1, MoveSteady, Zenon DEF Steady
  <2>3. DOMAIN pc' = Threads
    BY <1>1, <2>1, Zenon
  <2> QED
    BY <1>2, <1>5, <2>2, <2>3, LeftStays, AllLast, Zenon
<1> QED
  BY <1>3, <1>4, Zenon

LEMMA AcknowledgeKeeps ==
  ASSUME BackupInv, up, NEW u \in Threads, Acknowledge(u)
  PROVE  BackupInv'
<1>1. DOMAIN pc = Threads
  BY Zenon DEF BackupInv
<1>2. UNCHANGED <<up, live, copies, job, left, disk, records, bg>>
  BY Zenon DEF Acknowledge, Unlink, files, flush
<1>3. acked \subseteq acked'
  BY Zenon DEF Acknowledge
<1>4. Lasting
  BY <1>2, <1>3, Zenon DEF Lasting
<1>5. PICK x, f, S : /\ f = [pc EXCEPT ![u] = x] /\ pc[u] = "unlink" /\ pc' = Signal(f, S)
                     /\ u \in Backups => x \in After
  <2>1. u \in Backups => Ended(u) = "idle"
    BY ThreadsAssumption, Zenon DEF Ended
  <2> QED
    BY <2>1, Zenon DEF Acknowledge, Unlink, After
<1>6. ASSUME NEW t \in Backups PROVE Steady(t)
  <2>1. /\ pc[t] = "copying" => f[t] = "copying"
        /\ pc[t] \in After => f[t] \in After
    BY <1>1, <1>5, MoveSteady, Zenon
  <2>2. ASSUME f[t] \in After \cup {"copying"} PROVE pc'[t] = f[t]
    <3>1. t \in Threads
      BY Zenon DEF Threads
    <3> QED
      BY <1>5, <2>2, <3>1, SignalSpares, Zenon
  <2>3. ASSUME pc[t] = "copying" PROVE pc'[t] = "copying"
    BY <2>1, <2>2, <2>3, Zenon
  <2>4. ASSUME pc[t] \in After PROVE pc'[t] \in After
    BY <2>1, <2>2, <2>4, Zenon
  <2> QED
    BY <2>3, <2>4, Zenon DEF Steady
<1>7. DOMAIN pc' = Threads
  BY <1>5, Zenon DEF Signal
<1>8. Flushing'
  BY <1>2, Zenon DEF BackupInv, Flushing
<1> QED
  BY <1>2, <1>4, <1>6, <1>7, <1>8, LeftStays, AllLast, Zenon

\* The steps of the flush that come before its edit, and steps of nobody.
LEMMA IdleKeeps ==
  ASSUME BackupInv, up, UNCHANGED <<pc, left, up, live, copies, disk, records, acked>>, Flushing',
         UNCHANGED job \/ (job'.stage = "build" /\ job.stage # "commit")
  PROVE  BackupInv'
<1>1. Lasting
  BY Zenon DEF Lasting
<1>2. \A t \in Backups : Steady(t)
  BY Zenon DEF Steady
<1>3. DOMAIN pc' = Threads
  BY Zenon DEF BackupInv
<1> QED
  BY <1>1, <1>2, <1>3, LeftStays, AllLast, Zenon

LEMMA NudgeKeeps ==
  ASSUME BackupInv, up, (Nudge \/ Quiet) /\ UNCHANGED pathVars
  PROVE  BackupInv'
<1>1. UNCHANGED <<pc, left, up, live, copies, disk, records, acked, job>>
  BY Zenon DEF Nudge, Quiet, vars, pathVars, memory, files
<1>2. UNCHANGED bg \/ bg = "wait"
  BY Zenon DEF Nudge, Quiet, vars, flush
<1>3. Flushing'
  BY <1>1, <1>2, Zenon DEF BackupInv, Flushing
<1> QED
  BY <1>1, <1>3, IdleKeeps, Zenon

LEMMA FlushBeginsKeeps == ASSUME BackupInv, up, FlushBegins PROVE BackupInv'
<1>1. UNCHANGED <<pc, left, up, live, copies, disk, records, acked>> /\ bg = "awake"
  BY Zenon DEF FlushBegins, MemtableWakes, files
<1>2. job.stage = "none"
  BY <1>1, Zenon DEF BackupInv, Flushing
<1>3. CASE imm
  <2>1. bg' = "flush" /\ job'.stage = "build"
    BY <1>3, Zenon DEF FlushBegins, MemtableWakes, StartBuild, NoJob
  <2> QED
    BY <1>1, <1>2, <2>1, IdleKeeps, Zenon DEF Flushing
<1>4. CASE ~imm
  <2>1. UNCHANGED job
    BY <1>4, Zenon DEF FlushBegins
  <2> QED
    BY <1>1, <1>2, <2>1, IdleKeeps, Zenon DEF Flushing
<1> QED
  BY <1>3, <1>4, Zenon

\* The steps of the flush when no backup is copying.
LEMMA FlushAlone ==
  ASSUME BackupInv, up, UNCHANGED <<left, up, copies, acked>>,
         DOMAIN pc' = Threads, \A t \in Backups : Steady(t),
         \A t \in Backups : ~(copies[t].listed /\ ~copies[t].done),
         job'.stage \in {"none", "build", "apply", "commit"}, Flushing', TablesInv'
  PROVE  BackupInv'
<1>1. ASSUME NEW t \in Backups
      PROVE  /\ DOMAIN copies'[t] = CopyFields /\ copies'[t].before \subseteq acked'
             /\ CopyDone(copies'[t], pc'[t])
             /\ CopyUnderWay(copies'[t], pc'[t], disk', records', job'.stage)
  <2>1. DOMAIN copies'[t] = CopyFields /\ copies'[t].before \subseteq acked'
    BY Zenon DEF BackupInv, CopyInv
  <2>2. CopyDone(copies'[t], pc'[t])
    BY Zenon DEF BackupInv, CopyInv, CopyDone, Steady
  <2>3. CopyUnderWay(copies'[t], pc'[t], disk', records', job'.stage)
    BY Zenon DEF CopyUnderWay
  <2> QED
    BY <2>1, <2>2, <2>3, Zenon
<1>2. CopyInv'
  BY <1>1, Zenon DEF CopyInv
<1> QED
  BY <1>2, LeftStays, Zenon DEF BackupInv

LEMMA FlushBuiltKeeps == ASSUME BackupInv, up, FlushBuilt PROVE BackupInv'
<1>1. UNCHANGED <<pc, left, bg, up, live, copies, acked, disk>>
  BY Zenon DEF FlushBuilt, vars, flush, files
<1>2. job.stage = "build" /\ job'.stage = "apply" /\ ~BackupHasLog
  BY DEF FlushBuilt
<1>3. ASSUME NEW t \in Backups PROVE ~(copies[t].listed /\ ~copies[t].done)
  BY <1>2, Zenon DEF BackupInv, CopyInv, CopyUnderWay, BackupHasLog, Threads
<1>4. \A t \in Backups : Steady(t)
  BY <1>1, Zenon DEF Steady
<1>5. Flushing' /\ TablesInv'
  BY <1>1, <1>2, Zenon DEF BackupInv, Flushing, TablesInv
<1>6. DOMAIN pc' = Threads
  BY <1>1, Zenon DEF BackupInv
<1> QED
  BY <1>1, <1>2, <1>3, <1>4, <1>5, <1>6, FlushAlone, Zenon

\* While the flush has bg_log_occupied_ no backup is copying.
LEMMA FlushExcludes ==
  ASSUME BackupInv, job.stage \in {"apply", "commit"}, NEW t \in Backups
  PROVE  ~(copies[t].listed /\ ~copies[t].done)
BY Zenon DEF BackupInv, CopyInv, CopyUnderWay

LEMMA FlushAppliedKeeps == ASSUME BackupInv, up, FlushApplied PROVE BackupInv'
<1>1. UNCHANGED <<pc, left, bg, up, live, copies, acked>>
  BY Zenon DEF FlushApplied, vars, flush
<1>2. job.stage = "apply" /\ disk' = ManifestRecord /\ job' = [job EXCEPT !.stage = "commit"]
  BY Zenon DEF FlushApplied
<1>3. job'.stage = "commit" /\ job'.add = job.add /\ disk'.tables = disk.tables \cup job.add
  BY <1>2 DEF ManifestRecord, BackupInv
<1>4. disk.tables \subseteq live
  BY <1>2, Zenon DEF BackupInv, TablesInv
<1>5. Flushing' /\ TablesInv'
  BY <1>1, <1>2, <1>3, <1>4, Zenon DEF BackupInv, Flushing, TablesInv
<1>6. \A t \in Backups : Steady(t)
  BY <1>1, Zenon DEF Steady
<1>7. DOMAIN pc' = Threads
  BY <1>1, Zenon DEF BackupInv
<1> QED
  BY <1>1, <1>2, <1>3, <1>5, <1>6, <1>7, FlushExcludes, FlushAlone, Zenon

LEMMA FlushCommitsKeeps == ASSUME BackupInv, up, FlushCommits PROVE BackupInv'
<1>1. UNCHANGED <<left, up, copies, acked, disk>> /\ pc' = SignalAllForeground(pc)
  BY Zenon DEF FlushCommits, FlushOk
<1>2. job.stage = "commit" /\ job' = NoJob /\ live' = live \cup job.add
  BY Zenon DEF FlushCommits
<1>3. job'.stage = "none"
  BY <1>2, Zenon DEF NoJob
<1>4. Flushing' /\ TablesInv'
  BY <1>1, <1>2, <1>3, Zenon DEF BackupInv, Flushing, TablesInv
<1>5. ASSUME NEW t \in Backups PROVE Steady(t)
  <2>1. t \in Threads
    BY Zenon DEF Threads
  <2>2. pc[t] \in After \cup {"copying"} => pc'[t] = pc[t]
    BY <1>1, <2>1, ForegroundSpares, Zenon
  <2> QED
    BY <2>2, Zenon DEF Steady
<1>6. DOMAIN pc' = Threads
  BY <1>1, Zenon DEF SignalAllForeground
<1> QED
  BY <1>1, <1>2, <1>3, <1>4, <1>5, <1>6, FlushExcludes, FlushAlone, Zenon

LEMMA FlushNeverFails == ASSUME BackupInv, FlushFailed PROVE FALSE
BY DEF BackupInv, FlushFailed, FlushFails, Faults

\* The steps of one LiveBackup.
LEMMA OneCopy ==
  ASSUME BackupInv, up, NEW u \in Threads, UNCHANGED <<up, live, disk, records, job, acked>>,
         Flushing', DOMAIN copies' = Threads, DOMAIN pc' = Threads,
         left' \in [Threads \cup {DISK} -> Int], left'[DISK] = 0,
         \A t \in Backups \ {u} : copies'[t] = copies[t] /\ Steady(t),
         NEW c, copies'[u] = c,
         u \in Backups => /\ DOMAIN c = CopyFields /\ c.before \subseteq acked
                          /\ CopyDone(c, pc'[u])
                          /\ CopyUnderWay(c, pc'[u], disk, records, job.stage)
  PROVE  BackupInv'
<1>1. Lasting
  BY Zenon DEF Lasting
<1>2. ASSUME NEW t \in Backups
      PROVE  /\ DOMAIN copies'[t] = CopyFields /\ copies'[t].before \subseteq acked'
             /\ CopyDone(copies'[t], pc'[t])
             /\ CopyUnderWay(copies'[t], pc'[t], disk', records', job'.stage)
  <2>1. CASE t = u
    <3>1. disk' = disk /\ records' = records /\ job'.stage = job.stage /\ acked' = acked
      BY Zenon
    <3> QED
      BY <2>1, <3>1, Zenon
  <2>2. CASE t # u
    BY <1>1, <2>2, CopyLasts, Zenon DEF BackupInv, CopyInv
  <2> QED
    BY <2>1, <2>2, Zenon
<1>3. CopyInv'
  BY <1>2, Zenon DEF CopyInv
<1>4. TablesInv'
  BY Zenon DEF BackupInv, TablesInv
<1> QED
  BY <1>3, <1>4, Zenon DEF BackupInv

LEMMA BackupBeginsKeeps ==
  ASSUME BackupInv, up, NEW u \in Threads, BackupBegins(u)
  PROVE  BackupInv'
<1>1. UNCHANGED <<up, live, disk, records, job, acked, bg>>
  BY Zenon DEF BackupBegins, CallBackup, memory, flush
<1>2. Flushing'
  BY <1>1, Zenon DEF BackupInv, Flushing
<1>3. PICK c : c = [NoCopy EXCEPT !.before = acked]
  BY Zenon
<1>4. copies' = [copies EXCEPT ![u] = c]
  BY <1>3, Zenon DEF BackupBegins
<1>5. DOMAIN c = CopyFields /\ c.before = acked /\ ~c.listed /\ ~c.done
  BY <1>3, Zenon DEF NoCopy, CopyFields
<1>6. pc' = [pc EXCEPT ![u] = "claim"] /\ left' = [left EXCEPT ![u] = @ - 1]
  BY Zenon DEF BackupBegins, CallBackup
<1>7. DOMAIN pc = Threads /\ DOMAIN copies = Threads
  BY Zenon DEF BackupInv
<1>8. ASSUME NEW t \in Backups \ {u} PROVE copies'[t] = copies[t] /\ Steady(t)
  BY <1>4, <1>6, <1>7, Zenon DEF Steady, Threads
<1>9. copies'[u] = c /\ DOMAIN copies' = Threads /\ DOMAIN pc' = Threads
  BY <1>4, <1>6, <1>7, Zenon
<1>10. CopyDone(c, pc'[u]) /\ CopyUnderWay(c, pc'[u], disk, records, job.stage)
  BY <1>5, Zenon DEF CopyDone, CopyUnderWay
<1>11. left' \in [Threads \cup {DISK} -> Int] /\ left'[DISK] = 0
  BY <1>6, LeftStays, Zenon
<1> QED
  BY <1>1, <1>2, <1>5, <1>8, <1>9, <1>10, <1>11, OneCopy, Zenon

LEMMA ListFilesKeeps ==
  ASSUME BackupInv, AckedDurable, up, NEW u \in Threads, ListFiles(u)
  PROVE  BackupInv'
<1>1. UNCHANGED <<up, live, disk, records, job, acked, bg, pc, left>>
  BY Zenon DEF ListFiles, vars, memory, flush
<1>2. Flushing'
  BY <1>1, Zenon DEF BackupInv, Flushing
<1>3. pc[u] = "copying" /\ job.stage \notin {"apply", "commit"}
  BY Zenon DEF ListFiles, FlushHasLog
<1>4. DOMAIN pc = Threads /\ DOMAIN copies = Threads
  BY Zenon DEF BackupInv
<1>5. PICK c : c = [copies[u] EXCEPT !.listed = TRUE, !.linked = live, !.names = logs]
  BY Zenon
<1>6. copies' = [copies EXCEPT ![u] = c]
  BY <1>4, <1>5, Zenon DEF ListFiles
<1>7. DOMAIN copies' = Threads /\ DOMAIN pc' = Threads /\ copies'[u] = c
  BY <1>1, <1>4, <1>6, Zenon
<1>8. ASSUME NEW t \in Backups \ {u} PROVE copies'[t] = copies[t] /\ Steady(t)
  BY <1>1, <1>4, <1>6, Zenon DEF Steady, Threads
<1>9. ASSUME u \in Backups
      PROVE  /\ DOMAIN c = CopyFields /\ c.before \subseteq acked
             /\ CopyDone(c, pc'[u])
             /\ CopyUnderWay(c, pc'[u], disk, records, job.stage)
  <2>1. DOMAIN copies[u] = CopyFields /\ copies[u].before \subseteq acked /\ ~copies[u].done
    BY <1>3, <1>9, Zenon DEF BackupInv, CopyInv, CopyDone, After
  <2>2. /\ DOMAIN c = CopyFields /\ c.before = copies[u].before /\ c.done = copies[u].done
        /\ c.linked = live /\ c.names = logs
    BY <1>5, <2>1, Zenon DEF CopyFields
  <2>3. disk.tables \subseteq live
    BY <1>3, Zenon DEF BackupInv, TablesInv
  <2>4. ASSUME NEW op \in c.before PROVE Saved(op, disk.tables, disk.log, c.names, records)
    <3>1. op \in disk.tables \/ \E l \in Replayed : <<l, op>> \in records
      BY <2>1, <2>2, <2>4, Zenon DEF AckedDurable
    <3> QED
      BY <2>2, <3>1, Zenon DEF Replayed, Saved
  <2>5. CopyDone(c, pc'[u])
    BY <2>1, <2>2, Zenon DEF CopyDone
  <2>6. CopyUnderWay(c, pc'[u], disk, records, job.stage)
    BY <1>1, <1>3, <2>2, <2>3, <2>4, Zenon DEF CopyUnderWay
  <2> QED
    BY <2>1, <2>2, <2>5, <2>6, Zenon
<1>10. left' \in [Threads \cup {DISK} -> Int] /\ left'[DISK] = 0
  BY <1>1, LeftStays, Zenon
<1> QED
  BY <1>1, <1>2, <1>7, <1>8, <1>9, <1>10, OneCopy, Zenon

\* What the copied logs and tables hold.
LEMMA CopyHolds ==
  ASSUME NEW c, NEW d, NEW recs, NEW ops, NEW op,
         ops = {p[2] : p \in {q \in recs : q[1] \in c.names /\ q[1] >= d.log}},
         Saved(op, d.tables, d.log, c.names, recs)
  PROVE  op \in d.tables \cup ops
<1>1. CASE op \in d.tables
  BY <1>1, Zenon
<1>2. ASSUME NEW l \in c.names, l >= d.log, <<l, op>> \in recs PROVE op \in ops
  BY <1>2
<1> QED
  BY <1>1, <1>2, Zenon DEF Saved

LEMMA CopyFilesKeeps ==
  ASSUME BackupInv, up, NEW u \in Threads, CopyFiles(u)
  PROVE  BackupInv'
<1>1. UNCHANGED <<up, live, disk, records, job, acked, bg, left>>
  BY Zenon DEF CopyFiles, OpenGate, memory, flush
<1>2. Flushing'
  BY <1>1, Zenon DEF BackupInv, Flushing
<1>3. DOMAIN pc = Threads /\ DOMAIN copies = Threads /\ pc[u] = "copying" /\ copies[u].listed
  BY Zenon DEF BackupInv, CopyFiles, OpenGate
<1>4. PICK ops : ops = {p[2] : p \in {q \in records : q[1] \in copies[u].names /\ q[1] >= disk.log}}
  BY Zenon
<1>5. PICK c : c = [copies[u] EXCEPT !.done = TRUE, !.tables = disk.tables, !.ops = ops]
  BY Zenon
<1>6. copies' = [copies EXCEPT ![u] = c]
  <2>1. ~Faults
    BY DEF BackupInv, Faults
  <2>2. copies' = [copies EXCEPT ![u].done = TRUE, ![u].tables = disk.tables, ![u].ops = ops]
    BY <1>4, <2>1, Zenon DEF CopyFiles
  <2> QED
    BY <1>3, <1>5, <2>2, Zenon
<1>7. PICK f, x : /\ f = [pc EXCEPT ![u] = x] /\ x \in {"publish", "idle"}
                  /\ \/ pc' = f
                     \/ \E v \in Threads : pc[v] = "queued" /\ pc' = [f EXCEPT ![v] = "requeue"]
  <2>1. PICK x \in {"publish", "idle"} : x = IF linked[u] THEN "publish" ELSE "idle"
    BY Zenon
  <2>2. PICK f : f = [pc EXCEPT ![u] = x]
    BY Zenon
  <2> QED
    BY <2>1, <2>2, Zenon DEF CopyFiles, OpenGate
<1>8. DOMAIN pc' = Threads /\ pc'[u] \in After
  BY <1>3, <1>7, Zenon DEF After
<1>9. ASSUME NEW t \in Backups \ {u} PROVE copies'[t] = copies[t] /\ Steady(t)
  <2>1. t \in Threads
    BY Zenon DEF Threads
  <2>2. f[t] = pc[t] /\ copies'[t] = copies[t]
    BY <1>3, <1>6, <1>7, <2>1, Zenon
  <2>3. pc[t] \in After \cup {"copying"} => pc'[t] = pc[t]
    BY <1>3, <1>7, <2>1, <2>2, Zenon DEF After
  <2> QED
    BY <2>2, <2>3, Zenon DEF Steady
<1>10. DOMAIN copies' = Threads /\ copies'[u] = c
  BY <1>3, <1>6, Zenon
<1>11. ASSUME u \in Backups
       PROVE  /\ DOMAIN c = CopyFields /\ c.before \subseteq acked
              /\ CopyDone(c, pc'[u])
              /\ CopyUnderWay(c, pc'[u], disk, records, job.stage)
  <2>1. /\ DOMAIN copies[u] = CopyFields /\ copies[u].before \subseteq acked /\ ~copies[u].done
        /\ CopyUnderWay(copies[u], pc[u], disk, records, job.stage)
    BY <1>3, <1>11, Zenon DEF BackupInv, CopyInv, CopyDone, After
  <2>2. /\ DOMAIN c = CopyFields /\ c.before = copies[u].before /\ c.done
        /\ c.linked = copies[u].linked /\ c.tables = disk.tables /\ c.ops = ops
    BY <1>5, <2>1, Zenon DEF CopyFields
  <2>3. /\ disk.tables \subseteq copies[u].linked
        /\ \A op \in copies[u].before : Saved(op, disk.tables, disk.log, copies[u].names, records)
    BY <1>3, <2>1, Zenon DEF CopyUnderWay
  <2>4. \A op \in copies[u].before : op \in disk.tables \cup ops
    BY <1>4, <2>3, CopyHolds, Zenon
  <2>5. CopyDone(c, pc'[u])
    BY <1>8, <2>2, <2>3, <2>4, Zenon DEF CopyDone
  <2>6. CopyUnderWay(c, pc'[u], disk, records, job.stage)
    BY <2>2, Zenon DEF CopyUnderWay
  <2> QED
    BY <2>1, <2>2, <2>5, <2>6, Zenon
<1>12. left' \in [Threads \cup {DISK} -> Int] /\ left'[DISK] = 0
  BY <1>1, LeftStays, Zenon
<1> QED
  BY <1>1, <1>2, <1>8, <1>9, <1>10, <1>11, <1>12, OneCopy, Zenon

-----------------------------------------------------------------------------
\* No copy is under way when the process is down.
LEMMA NoCopyDown ==
  ASSUME NEW t \in Backups, NEW c, NEW p, NEW d, NEW recs, NEW stage,
         ~(c.listed /\ ~c.done)
  PROVE  CopyUnderWay(c, p, d, recs, stage)
BY Zenon DEF CopyUnderWay

LEMMA CrashKeeps == ASSUME BackupInv, Crash PROVE BackupInv'
<1>1. UNCHANGED <<left, acked>> /\ up' = FALSE /\ job' = NoJob /\ bg' = "wait"
  BY Zenon DEF Crash
<1>2. job'.stage = "none"
  BY <1>1, Zenon DEF NoJob
<1>3. pc' = [t \in Threads |-> "idle"]
  BY Zenon DEF Crash
<1>4. copies' = [t \in Threads |-> IF copies[t].done THEN copies[t] ELSE NoCopy]
  BY Zenon DEF Crash
<1>5. ASSUME NEW t \in Backups
      PROVE  /\ DOMAIN copies'[t] = CopyFields /\ copies'[t].before \subseteq acked'
             /\ CopyDone(copies'[t], pc'[t]) /\ ~(copies'[t].listed /\ ~copies'[t].done)
             /\ CopyUnderWay(copies'[t], pc'[t], disk', records', job'.stage)
  <2>1. t \in Threads
    BY Zenon DEF Threads
  <2>2. pc'[t] = "idle" /\ copies'[t] = IF copies[t].done THEN copies[t] ELSE NoCopy
    BY <1>3, <1>4, <2>1, Zenon
  <2>3. CASE copies[t].done
    BY <1>1, <2>2, <2>3, Zenon DEF BackupInv, CopyInv, CopyDone, CopyUnderWay, After
  <2>4. CASE ~copies[t].done
    BY <2>2, <2>4 DEF CopyDone, CopyUnderWay, NoCopy, CopyFields
  <2> QED
    BY <2>3, <2>4, Zenon
<1>6. CopyInv' /\ (~up => \A t \in Backups : ~(copies[t].listed /\ ~copies[t].done))'
  BY <1>5, Zenon DEF CopyInv
<1>7. DOMAIN pc' = Threads /\ DOMAIN copies' = Threads
  BY <1>3, <1>4, Zenon
<1>8. TablesInv' /\ Flushing'
  BY <1>1, <1>2, Zenon DEF TablesInv, Flushing
<1>9. left' \in [Threads \cup {DISK} -> Int] /\ left'[DISK] = 0
  BY <1>1, LeftStays, Zenon
<1> QED
  BY <1>2, <1>6, <1>7, <1>8, <1>9, Zenon DEF BackupInv

LEMMA OpenKeeps ==
  ASSUME BackupInv, NEW bad, Open(bad) \/ OpenStops(bad)
  PROVE  BackupInv'
<1>1. UNCHANGED <<pc, left, bg, job, copies, acked>> /\ ~up
  BY Zenon DEF Open, OpenStops, CanOpen, vars, flush, memory
<1>2. \A t \in Backups : ~(copies[t].listed /\ ~copies[t].done)
  BY <1>1, Zenon DEF BackupInv
<1>3. ASSUME NEW t \in Backups
      PROVE  /\ DOMAIN copies'[t] = CopyFields /\ copies'[t].before \subseteq acked'
             /\ CopyDone(copies'[t], pc'[t])
             /\ CopyUnderWay(copies'[t], pc'[t], disk', records', job'.stage)
  <2>1. CopyUnderWay(copies'[t], pc'[t], disk', records', job'.stage)
    BY <1>1, <1>2, Zenon DEF CopyUnderWay
  <2> QED
    BY <1>1, <2>1, Zenon DEF BackupInv, CopyInv
<1>4. CopyInv'
  BY <1>3, Zenon DEF CopyInv
<1>5. TablesInv'
  <2>1. CASE Open(bad)
    BY <2>1, Zenon DEF Open, TablesInv
  <2>2. CASE OpenStops(bad)
    BY <1>1, <2>2, Zenon DEF OpenStops, TablesInv
  <2> QED
    BY <2>1, <2>2, Zenon
<1> QED
  BY <1>1, <1>2, <1>4, <1>5, Zenon DEF BackupInv, Flushing

LEMMA NoCopyHolds ==
  ASSUME NEW p, NEW d, NEW recs, NEW stage, NEW S
  PROVE  /\ DOMAIN NoCopy = CopyFields /\ NoCopy.before \subseteq S /\ ~NoCopy.listed
         /\ CopyDone(NoCopy, p) /\ CopyUnderWay(NoCopy, p, d, recs, stage)
<1>1. DOMAIN NoCopy = CopyFields /\ NoCopy.before = {} /\ ~NoCopy.listed /\ ~NoCopy.done
  BY Zenon DEF NoCopy, CopyFields
<1> QED
  BY <1>1, Zenon DEF CopyDone, CopyUnderWay

LEMMA BackupInitially == ASSUME NoFaults, PathInit PROVE BackupInv
<1>1. left \in [Threads \cup {DISK} -> Int] /\ left[DISK] = 0
  <2>1. left \in Calls
    BY Zenon DEF PathInit, Init
  <2>2. left \in [Threads \cup {DISK} -> Nat] /\ left[DISK] = 0
    BY <2>1, CallsAssumption, Zenon DEF NoFaults
  <2> QED
    BY <2>2
<1>2. DOMAIN pc = Threads /\ copies = [t \in Threads |-> NoCopy] /\ up /\ job.stage = "none"
  BY Zenon DEF PathInit, Init, NoJob
<1>3. TablesInv /\ Flushing
  BY <1>2, Zenon DEF PathInit, TablesInv, Flushing
<1>4. ASSUME NEW t \in Backups
      PROVE  /\ DOMAIN copies[t] = CopyFields /\ copies[t].before \subseteq acked
             /\ CopyDone(copies[t], pc[t])
             /\ CopyUnderWay(copies[t], pc[t], disk, records, job.stage)
  <2>1. copies[t] = NoCopy
    BY <1>2, Zenon DEF Threads
  <2> QED
    BY <2>1, NoCopyHolds, Zenon
<1>5. CopyInv
  BY <1>4, Zenon DEF CopyInv
<1> QED
  BY <1>1, <1>2, <1>3, <1>5, Zenon DEF BackupInv

LEMMA BackupSteps == ASSUME BackupInv, AckedDurable, [PathNext]_allVars PROVE BackupInv'
<1>1. CASE UNCHANGED allVars
  BY <1>1, Zenon DEF allVars, vars, pathVars, memory, files, flush, BackupInv, CopyInv, TablesInv, Flushing
<1>2. ASSUME up, NEW t \in Threads,
             \/ QueueOnly(t) \/ TakeRoom(t) \/ Switch(t)
             \/ AddRecord(t) \/ InsertInto(t) \/ Acknowledge(t)
             \/ BackupBegins(t) \/ ListFiles(t) \/ CopyFiles(t)
      PROVE  BackupInv'
  BY <1>2, QueueOnlyKeeps, WriterKeeps, AcknowledgeKeeps, BackupBeginsKeeps, ListFilesKeeps,
     CopyFilesKeeps, Zenon
<1>3. ASSUME up, \/ FlushBegins \/ FlushBuilt \/ FlushApplied \/ FlushCommits \/ FlushFailed
      PROVE  BackupInv'
  BY <1>3, FlushBeginsKeeps, FlushBuiltKeeps, FlushAppliedKeeps, FlushCommitsKeeps, FlushNeverFails, Zenon
<1>4. ASSUME up, (Nudge \/ Quiet) /\ UNCHANGED pathVars PROVE BackupInv'
  BY <1>4, NudgeKeeps, Zenon
<1>5. ASSUME NEW bad \in SUBSET Replayed, Open(bad) \/ OpenStops(bad) PROVE BackupInv'
  BY <1>5, OpenKeeps, Zenon
<1> QED
  BY <1>1, <1>2, <1>3, <1>4, <1>5, CrashKeeps, Zenon DEF PathNext

(***************************************************************************)
(* A backup is as complete as the database is durable: with any number of   *)
(* writers and LiveBackups, through flushes, crashes and recoveries, and    *)
(* with no failure of I/O, as long as every write that returned OK is in a  *)
(* table of the MANIFEST or in a log that recovery replays, a finished      *)
(* backup links every table its MANIFEST names and holds every write that   *)
(* had returned OK when LiveBackup was called.                              *)
(***************************************************************************)
THEOREM BackupsAlwaysComplete ==
  ASSUME NoFaults
  PROVE  PathSpec /\ []AckedDurable => []BackupComplete
<1>1. PathInit => BackupInv
  BY BackupInitially, Zenon
<1>2. BackupInv /\ AckedDurable /\ [PathNext]_allVars => BackupInv'
  BY BackupSteps, Zenon
<1>3. BackupInv => BackupComplete
  BY Zenon DEF BackupInv, CopyInv, CopyDone, BackupComplete
<1> QED
  BY <1>1, <1>2, <1>3, PTL DEF PathSpec
=============================================================================
