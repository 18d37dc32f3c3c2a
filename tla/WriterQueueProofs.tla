--------------------------- MODULE WriterQueueProofs ---------------------------
(***************************************************************************)
(* Proofs about the queue of writers, for any number of threads, calls and  *)
(* batches, with and without I/O errors.                                    *)
(***************************************************************************)
EXTENDS WriterQueue, FiniteSetTheorems, TLAPS

\* Points at which the Writer of a thread is not in the list.
Outside == {"idle", "room", "full", "link", "notify", "settle", "settling",
            "enlist", "holding", "claim", "queued", "requeue"}

\* Points at which it is.  At "fail" and from "drain" to "copying" it may or may
\* not be: Write and LiveBackup go on after a SequenceWriteBegin that failed.
Inside == {"gated", "regate", "write", "publish", "unlink", "waiting", "depart",
           "draining", "drained"}

\* Points only LiveBackup comes to.
BackupPoints == {"claim", "queued", "requeue", "drain", "draining", "drained",
                 "copy", "copying"}

\* Control points agree with the list and with the kind of the thread.
Placed(t) ==
  /\ pc[t] \in Outside => ~linked[t]
  /\ pc[t] \in Inside => linked[t]
  /\ pc[t] = "enlist" => t \in Snapshotters
  /\ pc[t] \in BackupPoints => t \in Backups
  /\ t \in Backups => ~block[t] /\ pc[t] \notin {"gated", "regate"}

PcInv == \A t \in Threads : Placed(t)

\* A thread that waits to become the head has asked to be woken, and keeps asking
\* when it wakes too early.
WakeInv ==
  \A t \in Threads : pc[t] \in {"waiting", "depart", "draining", "drained"} => wake[t]

\* The list has no cycle, because Writers can be ranked along prev_, and it is in
\* the order of the tickets: a Writer without one stands for the numbers that were
\* handed out when it linked.
RankedBy(r, v) ==
  \A t \in Threads :
    /\ linked[t] => v[t] <= upper
    /\ HasTicket(t) => v[t] = last[t]
    /\ prev[t] # NULL => /\ r[prev[t]] < r[t]
                         /\ v[prev[t]] <= v[t]
                         /\ HasTicket(t) => v[prev[t]] < first[t]

Ranked == \E r, v \in [Threads -> Nat] : RankedBy(r, v)

\* No Writer holds a number above writers_upper_.
BelowUpper == \A t \in Threads : last[t] <= upper

Inv ==
  /\ TypeOK /\ ListSound /\ PcInv
  /\ BelowUpper /\ TicketsDisjoint /\ Ranked
  /\ WakeInv /\ NoSleepingHead /\ FlushDutyKept
  /\ BackupsExclusive /\ WaitingBackupsCounted

(***************************************************************************)
(* A signal moves sleeping threads to the point where they wake, and no     *)
(* other thread.                                                            *)
(***************************************************************************)
LEMMA SignalMoves ==
  ASSUME NEW f \in [Threads -> PCs], NEW S
  PROVE  /\ Signal(f, S) \in [Threads -> PCs]
         /\ \A t \in Threads : \/ Signal(f, S)[t] = f[t]
                               \/ f[t] = "gated" /\ Signal(f, S)[t] = "regate"
                               \/ f[t] = "waiting" /\ Signal(f, S)[t] = "depart"
                               \/ f[t] = "draining" /\ Signal(f, S)[t] = "drained"
  BY DEF Signal, Asleep, Awoken, PCs

LEMMA ForegroundMoves ==
  ASSUME NEW f \in [Threads -> PCs]
  PROVE  /\ SignalAllForeground(f) \in [Threads -> PCs]
         /\ \A t \in Threads : \/ SignalAllForeground(f)[t] = f[t]
                               \/ f[t] = "full" /\ SignalAllForeground(f)[t] = "room"
                               \/ f[t] = "settling" /\ SignalAllForeground(f)[t] = "settle"
  BY DEF SignalAllForeground, PCs

(***************************************************************************)
(* The empty queue of a database just opened satisfies the invariant.       *)
(***************************************************************************)
LEMMA InitInv == Init => Inv
<1> SUFFICES ASSUME Init PROVE Inv
  OBVIOUS
<1>1. TypeOK
  <2>1. left \in [Threads \cup {DISK} -> Nat] /\ pc \in [Threads -> PCs]
    BY CallsAssumption DEF Init, PCs
  <2>2. backup \in [inProgress : BOOLEAN, claimed : BOOLEAN, waiters : Nat]
    BY DEF Init
  <2>3. batch \in [Threads -> Nat \cup {NULL}]
    BY DEF Init
  <2> QED
    BY <2>1, <2>2, <2>3 DEF Init, TypeOK
<1>2. ListSound
  BY DEF Init, ListSound
<1>3. PcInv
  BY DEF Init, PcInv, Placed, Outside, Inside, BackupPoints
<1>4. BelowUpper /\ TicketsDisjoint
  BY DEF Init, BelowUpper, TicketsDisjoint, HasTicket
<1>5. Ranked
  <2>1. RankedBy([t \in Threads |-> 0], [t \in Threads |-> 0])
    BY DEF Init, RankedBy, HasTicket
  <2> QED
    BY <2>1 DEF Ranked
<1>6. WakeInv /\ NoSleepingHead /\ FlushDutyKept /\ BackupsExclusive
  BY DEF Init, WakeInv, NoSleepingHead, FlushDutyKept, BackupsExclusive, InBackup
<1>7. WaitingBackupsCounted
  BY FS_EmptySet DEF Init, WaitingBackupsCounted, WaitingBackups
<1> QED
  BY <1>1, <1>2, <1>3, <1>4, <1>5, <1>6, <1>7 DEF Inv

-----------------------------------------------------------------------------
(***************************************************************************)
(* Linking a Writer that is not in the list at the tail, and bridging over  *)
(* a Writer, keep the list sound.                                           *)
(***************************************************************************)
LEMMA LinkKeepsList ==
  ASSUME TypeOK, ListSound, NEW t \in Threads, ~linked[t], LinkAtTail(t)
  PROVE  ListSound'
<1> USE ThreadsAssumption
<1>1. tail # t
  BY DEF ListSound
<1>2. tail' # NULL => linked'[tail'] /\ next'[tail'] = NULL
  BY <1>1 DEF TypeOK, ListSound, LinkAtTail
<1>3. ASSUME NEW u \in Threads
      PROVE  /\ ~linked'[u] => prev'[u] = NULL /\ next'[u] = NULL
             /\ prev'[u] # NULL => linked'[prev'[u]] /\ next'[prev'[u]] = u
             /\ next'[u] # NULL => linked'[next'[u]] /\ prev'[next'[u]] = u
  BY <1>1 DEF TypeOK, ListSound, LinkAtTail
<1> QED
  BY <1>2, <1>3 DEF ListSound

LEMMA BridgeKeepsList ==
  ASSUME TypeOK, ListSound, NEW t \in Threads, Bridge(t)
  PROVE  ListSound'
<1> USE ThreadsAssumption
<1>1. tail' # NULL => linked'[tail'] /\ next'[tail'] = NULL
  BY DEF TypeOK, ListSound, Bridge
<1>2. ASSUME NEW u \in Threads
      PROVE  /\ ~linked'[u] => prev'[u] = NULL /\ next'[u] = NULL
             /\ prev'[u] # NULL => linked'[prev'[u]] /\ next'[prev'[u]] = u
             /\ next'[u] # NULL => linked'[next'[u]] /\ prev'[next'[u]] = u
  BY DEF TypeOK, ListSound, Bridge
<1> QED
  BY <1>1, <1>2 DEF ListSound

-----------------------------------------------------------------------------
(***************************************************************************)
(* Backups that wait for their turn can be counted.                         *)
(***************************************************************************)
LEMMA WaitersFinite ==
  PcInv => IsFiniteSet(WaitingBackups) /\ Cardinality(WaitingBackups) \in Nat
<1> SUFFICES ASSUME PcInv
             PROVE  IsFiniteSet(WaitingBackups) /\ Cardinality(WaitingBackups) \in Nat
  OBVIOUS
<1>1. WaitingBackups \subseteq Backups
  BY DEF WaitingBackups, PcInv, Placed, BackupPoints
<1> QED
  BY <1>1, FS_Subset, FS_CardinalityType, ThreadsAssumption

(***************************************************************************)
(* Every step keeps the types.  backup_waiters_ is not counted down below   *)
(* zero because it counts the thread that counts it down.                   *)
(***************************************************************************)
LEMMA TypeStep == TypeOK /\ PcInv /\ WaitingBackupsCounted /\ [Next]_vars => TypeOK'
<1> SUFFICES ASSUME TypeOK, PcInv, WaitingBackupsCounted, [Next]_vars PROVE TypeOK'
  OBVIOUS
<1> USE DEF TypeOK, list, seqs, flush
<1>1. ASSUME NEW t \in Threads, NEW b \in Batches, CallWrite(t, b) PROVE TypeOK'
  BY <1>1, CallsAssumption DEF CallWrite, PCs
<1>2. ASSUME NEW t \in Threads, BeginYieldsError(t) PROVE TypeOK'
  BY <1>2 DEF BeginYieldsError, BeginFailed, PCs
<1>3. ASSUME NEW t \in Threads, BeginRoom(t) PROVE TypeOK'
  BY <1>3 DEF BeginRoom, PCs
<1>4. ASSUME NEW t \in Threads, BeginWaits(t) PROVE TypeOK'
  BY <1>4 DEF BeginWaits, SignalMemtable, PCs
<1>5. ASSUME NEW t \in Threads, BeginSwitches(t) PROVE TypeOK'
  BY <1>5 DEF BeginSwitches, PCs
<1>6. ASSUME NEW t \in Threads, BeginSwitchFails(t) PROVE TypeOK'
  BY <1>6 DEF BeginSwitchFails, BeginFailed, PCs
<1>7. ASSUME NEW t \in Threads, Link(t) PROVE TypeOK'
  BY <1>7 DEF Link, LinkAtTail, Linked, Ticket, Count, PCs
<1>8. ASSUME NEW t \in Threads, PassGate(t) PROVE TypeOK'
  BY <1>8 DEF PassGate, Linked, PCs
<1>9. ASSUME NEW t \in Threads, Insert(t) PROVE TypeOK'
  BY <1>9 DEF Insert, PCs
<1>10. ASSUME NEW t \in Threads, InsertFails(t) PROVE TypeOK'
  BY <1>10 DEF InsertFails, PCs
<1>11. ASSUME NEW t \in Threads, RecordError(t) PROVE TypeOK'
  BY <1>11, ForegroundMoves DEF RecordError, PCs
<1>12. ASSUME NEW t \in Threads, Publish(t) PROVE TypeOK'
  BY <1>12 DEF Publish, SetLastSequence, PCs
<1>13. ASSUME NEW t \in Threads, Unlink(t) PROVE TypeOK'
  <2>1. pc' \in [Threads -> PCs]
    <3> DEFINE moved == [pc EXCEPT ![t] = IF hasImm[t] /\ prev[t] = NULL
                                          THEN "notify" ELSE Ended(t)]
    <3>1. moved \in [Threads -> PCs]
      BY DEF PCs, Ended
    <3> QED
      BY <1>13, <3>1, SignalMoves DEF Unlink
  <2>2. prev' \in [Threads -> Threads \cup {NULL}] /\ next' \in [Threads -> Threads \cup {NULL}]
    BY <1>13 DEF Unlink, Bridge
  <2>3. hasImm' \in [Threads -> BOOLEAN]
    BY <1>13 DEF Unlink, HandOn
  <2> QED
    BY <1>13, <2>1, <2>2, <2>3 DEF Unlink, Bridge
<1>14. ASSUME NEW t \in Threads, Notify(t) PROVE TypeOK'
  BY <1>14 DEF Notify, SignalMemtable, Ended, PCs
<1>15. ASSUME NEW t \in Threads, Settle(t) PROVE TypeOK'
  BY <1>15 DEF Settle, PCs
<1>16. ASSUME NEW t \in Threads, EnlistAlone(t) PROVE TypeOK'
  BY <1>16 DEF EnlistAlone, PCs
<1>17. ASSUME NEW t \in Threads, Enlist(t) PROVE TypeOK'
  BY <1>17 DEF Enlist, LinkAtTail, PCs
<1>18. ASSUME NEW t \in Threads, WaitAgain(t) PROVE TypeOK'
  BY <1>18 DEF WaitAgain, PCs
<1>19. ASSUME NEW t \in Threads, Depart(t) PROVE TypeOK'
  <2>1. pc' \in [Threads -> PCs]
    <3> DEFINE moved == [pc EXCEPT ![t] = IF hasImm[t] THEN "notify" ELSE "holding"]
    <3>1. moved \in [Threads -> PCs]
      BY DEF PCs
    <3> QED
      BY <1>19, <3>1, SignalMoves DEF Depart
  <2>2. prev' \in [Threads -> Threads \cup {NULL}] /\ next' \in [Threads -> Threads \cup {NULL}]
    BY <1>19 DEF Depart, Bridge
  <2> QED
    BY <1>19, <2>1, <2>2 DEF Depart, Bridge
<1>20. ASSUME NEW t \in Threads, Claim(t) PROVE TypeOK'
  <2>1. WaitersAfter(t) \in Nat
    <3>1. pc[t] = "requeue" => backup.waiters > 0
      <4>1. pc[t] = "requeue" => WaitingBackups # {}
        BY DEF WaitingBackups
      <4>2. WaitingBackups # {} => Cardinality(WaitingBackups) > 0
        BY WaitersFinite, FS_EmptySet
      <4> QED
        BY <4>1, <4>2 DEF WaitingBackupsCounted
    <3> QED
      BY <3>1 DEF WaitersAfter
  <2>2. backup' \in [inProgress : BOOLEAN, claimed : BOOLEAN, waiters : Nat]
    BY <1>20, <2>1 DEF Claim
  <2> QED
    BY <1>20, <2>2 DEF Claim, PCs
<1>21. ASSUME NEW t \in Threads, Drain(t) PROVE TypeOK'
  BY <1>21, SignalMoves DEF Drain, PCs
<1>22. ASSUME NEW t \in Threads, Drained(t) PROVE TypeOK'
  BY <1>22 DEF Drained, PCs
<1>23. ASSUME NEW t \in Threads, Copy(t) PROVE TypeOK'
  BY <1>23 DEF Copy, SetLastSequence, PCs
<1>24. ASSUME NEW t \in Threads, OpenGate(t) PROVE TypeOK'
  <2>1. pc' \in [Threads -> PCs]
    <3> DEFINE moved == [pc EXCEPT ![t] = IF linked[t] THEN "publish" ELSE "idle"]
    <3>1. moved \in [Threads -> PCs]
      BY DEF PCs
    <3>2. pc' = moved \/ \E u \in Threads : pc' = [moved EXCEPT ![u] = "requeue"]
      BY <1>24 DEF OpenGate
    <3> HIDE DEF moved
    <3> QED
      BY <3>1, <3>2 DEF PCs
  <2>2. backup' \in [inProgress : BOOLEAN, claimed : BOOLEAN, waiters : Nat]
    BY <1>24 DEF OpenGate
  <2> QED
    BY <1>24, <2>1, <2>2 DEF OpenGate
<1>25. ASSUME NEW t \in Threads, Sample(t) PROVE TypeOK'
  BY <1>25 DEF Sample, PCs
<1>26. ASSUME NEW t \in Threads, ReleaseSnapshot(t) PROVE TypeOK'
  BY <1>26 DEF ReleaseSnapshot, PCs
<1>27. ASSUME NEW t \in Threads, CallBackup(t) PROVE TypeOK'
  BY <1>27 DEF CallBackup, PCs
<1>28. CASE Nudge
  BY <1>28 DEF Nudge
<1>29. CASE MemtableWakes
  BY <1>29 DEF MemtableWakes
<1>30. CASE FlushOk
  BY <1>30, ForegroundMoves DEF FlushOk
<1>31. CASE FlushFails
  BY <1>31, ForegroundMoves DEF FlushFails
<1>32. CASE UNCHANGED vars
  BY <1>32 DEF vars
<1> QED
  BY <1>1, <1>2, <1>3, <1>4, <1>5, <1>6, <1>7, <1>8, <1>9, <1>10, <1>11, <1>12, <1>13, <1>14, <1>15, <1>16, <1>17, <1>18, <1>19, <1>20, <1>21, <1>22, <1>23, <1>24, <1>25, <1>26, <1>27, <1>28, <1>29, <1>30, <1>31, <1>32
  DEF Next, Step, Client, MemtableThread, Quiet

(***************************************************************************)
(* The steps that change the list or a sequence number.                     *)
(***************************************************************************)
Touches(t) == Link(t) \/ Unlink(t) \/ Enlist(t) \/ Depart(t) \/ Publish(t) \/ Copy(t)

LEMMA OthersLeaveList ==
  [Next]_vars =>
    \/ \E t \in Threads : Touches(t)
    \/ UNCHANGED <<linked, prev, next, tail, first, last, upper, lastSeq>>
<1> DEFINE kept == UNCHANGED <<linked, prev, next, tail, first, last, upper, lastSeq>>
<1> USE DEF list, seqs
<1>1. ASSUME NEW t \in Threads, Step(t) PROVE Touches(t) \/ kept
  BY <1>1 DEF Step, Touches, BeginYieldsError, BeginRoom, BeginWaits, BeginSwitches,
    BeginSwitchFails, PassGate, Insert, InsertFails, RecordError, Notify, Settle,
    EnlistAlone, WaitAgain, Claim, Drain, Drained, OpenGate
<1>2. ASSUME NEW t \in Threads, Client(t) PROVE kept
  BY <1>2 DEF Client, CallWrite, Sample, ReleaseSnapshot, CallBackup
<1>3. Nudge \/ MemtableThread \/ UNCHANGED vars => kept
  BY DEF Nudge, MemtableThread, MemtableWakes, FlushOk, FlushFails, vars
<1> QED
  BY <1>1, <1>2, <1>3 DEF Next, Quiet

(***************************************************************************)
(* Every step keeps the list sound.                                         *)
(***************************************************************************)
LEMMA ListStep == TypeOK /\ PcInv /\ ListSound /\ [Next]_vars => ListSound'
<1> SUFFICES ASSUME TypeOK, PcInv, ListSound, [Next]_vars PROVE ListSound'
  OBVIOUS
<1>1. ASSUME NEW t \in Threads, Link(t) \/ Enlist(t) PROVE ListSound'
  BY <1>1, LinkKeepsList DEF Link, Enlist, PcInv, Placed, Outside
<1>2. ASSUME NEW t \in Threads, Unlink(t) \/ Depart(t) PROVE ListSound'
  BY <1>2, BridgeKeepsList DEF Unlink, Depart
<1>3. ASSUME NEW t \in Threads, Publish(t) \/ Copy(t) PROVE ListSound'
  BY <1>3 DEF Publish, Copy, ListSound, list
<1>4. CASE UNCHANGED <<linked, prev, next, tail>>
  BY <1>4 DEF ListSound
<1> QED
  BY <1>1, <1>2, <1>3, <1>4, OthersLeaveList DEF Touches

(***************************************************************************)
(* Every step keeps the ranges of sequence numbers apart.                   *)
(***************************************************************************)
LEMMA TicketStep ==
  TypeOK /\ PcInv /\ BelowUpper /\ TicketsDisjoint /\ [Next]_vars
    => BelowUpper' /\ TicketsDisjoint'
<1> SUFFICES ASSUME TypeOK, PcInv, BelowUpper, TicketsDisjoint, [Next]_vars
             PROVE  BelowUpper' /\ TicketsDisjoint'
  OBVIOUS
<1> USE DEF BelowUpper, TicketsDisjoint, HasTicket
<1>1. ASSUME NEW t \in Threads, Link(t) PROVE BelowUpper' /\ TicketsDisjoint'
  <2>1. Count(t) \in Nat
    BY DEF Count, TypeOK
  <2>2. /\ upper' = upper + 1 + Count(t) /\ lastSeq' = lastSeq
        /\ first'[t] = upper + 1 /\ last'[t] = upper + 1 + Count(t)
        /\ \A u \in Threads \ {t} : /\ first'[u] = first[u] /\ last'[u] = last[u]
                                    /\ linked'[u] = linked[u]
    BY <1>1 DEF TypeOK, Link, LinkAtTail, Ticket, Count
  <2>3. \A u \in Threads : first[u] \in Nat /\ last[u] \in Nat
    BY DEF TypeOK
  <2> QED
    BY <2>1, <2>2, <2>3 DEF TypeOK
<1>2. ASSUME NEW t \in Threads, Unlink(t) PROVE BelowUpper' /\ TicketsDisjoint'
  <2>1. /\ upper' = upper /\ lastSeq' = lastSeq
        /\ last'[t] = 0 /\ ~linked'[t]
        /\ \A u \in Threads \ {t} : /\ first'[u] = first[u] /\ last'[u] = last[u]
                                    /\ linked'[u] = linked[u]
    BY <1>2 DEF TypeOK, Unlink, Bridge
  <2> QED
    BY <2>1 DEF TypeOK
<1>3. ASSUME NEW t \in Threads, Enlist(t) \/ Depart(t) PROVE BelowUpper' /\ TicketsDisjoint'
  <2>1. /\ UNCHANGED <<upper, lastSeq, first, last>>
        /\ t \in Snapshotters \/ ~linked'[t]
        /\ \A u \in Threads \ {t} : linked'[u] = linked[u]
    BY <1>3 DEF TypeOK, PcInv, Placed, Enlist, LinkAtTail, Depart, Bridge, seqs
  <2> QED
    BY <2>1
<1>4. ASSUME NEW t \in Threads, Publish(t) \/ Copy(t) PROVE BelowUpper' /\ TicketsDisjoint'
  BY <1>4 DEF Publish, Copy, SetLastSequence, list, TypeOK
<1>5. CASE UNCHANGED <<linked, first, last, upper, lastSeq>>
  BY <1>5
<1> QED
  BY <1>1, <1>2, <1>3, <1>4, <1>5, OthersLeaveList DEF Touches

(***************************************************************************)
(* Where the steps that signal other threads leave each thread.             *)
(***************************************************************************)
LEMMA UnlinkMoves ==
  ASSUME TypeOK, NEW t \in Threads, Unlink(t)
  PROVE  /\ pc'[t] = IF hasImm[t] /\ prev[t] = NULL THEN "notify" ELSE Ended(t)
         /\ \A u \in Threads \ {t} : pc'[u] = Signal(pc, NewHead(t))[u]
  BY DEF TypeOK, Unlink, Signal, Asleep, Ended

LEMMA DepartMoves ==
  ASSUME TypeOK, NEW t \in Threads, Depart(t)
  PROVE  /\ pc'[t] = IF hasImm[t] THEN "notify" ELSE "holding"
         /\ \A u \in Threads \ {t} : pc'[u] = Signal(pc, NewHead(t))[u]
  BY DEF TypeOK, Depart, Signal, Asleep

LEMMA DrainMoves ==
  ASSUME TypeOK, NEW t \in Threads, Drain(t)
  PROVE  /\ pc'[t] \in IF prev[t] # NULL THEN {"draining", "drained"} ELSE {"copy"}
         /\ \A u \in Threads \ {t} : pc'[u] = Signal(pc, Ahead(t))[u]
  BY DEF TypeOK, Drain, Signal, Asleep, Awoken

LEMMA RecordErrorMoves ==
  ASSUME TypeOK, NEW t \in Threads, RecordError(t)
  PROVE  /\ pc'[t] = IF linked[t] THEN "publish" ELSE "idle"
         /\ \A u \in Threads \ {t} : pc'[u] \in {pc[u], SignalAllForeground(pc)[u]}
  BY DEF TypeOK, RecordError, SignalAllForeground

LEMMA OthersSignalled ==
  ASSUME TypeOK, NEW t \in Threads, Unlink(t) \/ Depart(t) \/ Drain(t),
         NEW u \in Threads \ {t}
  PROVE  \/ pc'[u] = pc[u]
         \/ pc[u] = "gated" /\ pc'[u] = "regate"
         \/ pc[u] = "waiting" /\ pc'[u] = "depart"
         \/ pc[u] = "draining" /\ pc'[u] = "drained"
<1>1. pc \in [Threads -> PCs]
  BY DEF TypeOK
<1> QED
  BY <1>1, UnlinkMoves, DepartMoves, DrainMoves, SignalMoves

LEMMA OthersReleased ==
  ASSUME TypeOK, NEW t \in Threads, RecordError(t), NEW u \in Threads \ {t}
  PROVE  \/ pc'[u] = pc[u]
         \/ pc[u] = "full" /\ pc'[u] = "room"
         \/ pc[u] = "settling" /\ pc'[u] = "settle"
<1>1. pc \in [Threads -> PCs]
  BY DEF TypeOK
<1> QED
  BY <1>1, RecordErrorMoves, ForegroundMoves

(***************************************************************************)
(* Every step keeps control points and the list in agreement.               *)
(***************************************************************************)
LEMMA PcStep == TypeOK /\ ListSound /\ PcInv /\ [Next]_vars => PcInv'
<1> SUFFICES ASSUME TypeOK, ListSound, PcInv, [Next]_vars PROVE PcInv'
  OBVIOUS
<1>0. pc \in [Threads -> PCs]
  BY DEF TypeOK
<1> USE DEF TypeOK, PcInv, Placed, Outside, Inside, BackupPoints, list
<1>1. ASSUME NEW t \in Threads, NEW b \in Batches, CallWrite(t, b) PROVE PcInv'
  BY <1>1 DEF CallWrite
<1>2. ASSUME NEW t \in Threads, BeginYieldsError(t) PROVE PcInv'
  BY <1>2 DEF BeginYieldsError, BeginFailed
<1>3. ASSUME NEW t \in Threads, BeginRoom(t) PROVE PcInv'
  BY <1>3 DEF BeginRoom
<1>4. ASSUME NEW t \in Threads, BeginWaits(t) PROVE PcInv'
  BY <1>4 DEF BeginWaits
<1>5. ASSUME NEW t \in Threads, BeginSwitches(t) PROVE PcInv'
  BY <1>5 DEF BeginSwitches
<1>6. ASSUME NEW t \in Threads, BeginSwitchFails(t) PROVE PcInv'
  BY <1>6 DEF BeginSwitchFails, BeginFailed
<1>7. ASSUME NEW t \in Threads, Link(t) PROVE PcInv'
  BY <1>7 DEF Link, LinkAtTail, Linked
<1>8. ASSUME NEW t \in Threads, PassGate(t) PROVE PcInv'
  BY <1>8 DEF PassGate, Linked
<1>9. ASSUME NEW t \in Threads, Insert(t) PROVE PcInv'
  BY <1>9 DEF Insert
<1>10. ASSUME NEW t \in Threads, InsertFails(t) PROVE PcInv'
  BY <1>10 DEF InsertFails
<1>11. ASSUME NEW t \in Threads, RecordError(t) PROVE PcInv'
  <2>1. ASSUME NEW u \in Threads \ {t}
        PROVE  Placed(u)'
    BY <1>11, OthersReleased DEF RecordError
  <2>2. Placed(t)'
    BY <1>11, RecordErrorMoves DEF RecordError
  <2> QED
    BY <2>1, <2>2
<1>12. ASSUME NEW t \in Threads, Publish(t) PROVE PcInv'
  BY <1>12 DEF Publish
<1>13. ASSUME NEW t \in Threads, Unlink(t) PROVE PcInv'
  <2>1. ASSUME NEW u \in Threads \ {t}
        PROVE  Placed(u)'
    <3>1. linked'[u] = linked[u] /\ block'[u] = block[u]
      BY <1>13 DEF Unlink, Bridge
    <3> QED
      BY <1>13, <3>1, OthersSignalled
  <2>2. Placed(t)'
    BY <1>13, UnlinkMoves DEF Unlink, Bridge, Ended
  <2> QED
    BY <2>1, <2>2
<1>14. ASSUME NEW t \in Threads, Notify(t) PROVE PcInv'
  BY <1>14 DEF Notify, Ended
<1>15. ASSUME NEW t \in Threads, Settle(t) PROVE PcInv'
  BY <1>15 DEF Settle
<1>16. ASSUME NEW t \in Threads, EnlistAlone(t) PROVE PcInv'
  BY <1>16 DEF EnlistAlone
<1>17. ASSUME NEW t \in Threads, Enlist(t) PROVE PcInv'
  BY <1>17 DEF Enlist, LinkAtTail
<1>18. ASSUME NEW t \in Threads, WaitAgain(t) PROVE PcInv'
  BY <1>18 DEF WaitAgain
<1>19. ASSUME NEW t \in Threads, Depart(t) PROVE PcInv'
  <2>1. ASSUME NEW u \in Threads \ {t}
        PROVE  Placed(u)'
    <3>1. linked'[u] = linked[u] /\ (block'[u] => block[u])
      BY <1>19 DEF Depart, Bridge
    <3> QED
      BY <1>19, <3>1, OthersSignalled
  <2>2. Placed(t)'
    BY <1>19, DepartMoves DEF Depart, Bridge
  <2> QED
    BY <2>1, <2>2
<1>20. ASSUME NEW t \in Threads, Claim(t) PROVE PcInv'
  BY <1>20 DEF Claim
<1>21. ASSUME NEW t \in Threads, Drain(t) PROVE PcInv'
  <2>1. ASSUME NEW u \in Threads \ {t}
        PROVE  Placed(u)'
    <3>1. linked'[u] = linked[u] /\ (block'[u] => block[u])
      BY <1>21 DEF Drain
    <3> QED
      BY <1>21, <3>1, OthersSignalled
  <2>2. Placed(t)'
    BY <1>21, DrainMoves DEF Drain, ListSound
  <2> QED
    BY <2>1, <2>2
<1>22. ASSUME NEW t \in Threads, Drained(t) PROVE PcInv'
  BY <1>22 DEF Drained
<1>23. ASSUME NEW t \in Threads, Copy(t) PROVE PcInv'
  BY <1>23 DEF Copy
<1>24. ASSUME NEW t \in Threads, OpenGate(t) PROVE PcInv'
  BY <1>24 DEF OpenGate
<1>25. ASSUME NEW t \in Threads, Sample(t) PROVE PcInv'
  BY <1>25 DEF Sample
<1>26. ASSUME NEW t \in Threads, ReleaseSnapshot(t) PROVE PcInv'
  BY <1>26 DEF ReleaseSnapshot
<1>27. ASSUME NEW t \in Threads, CallBackup(t) PROVE PcInv'
  BY <1>27 DEF CallBackup
<1>28. CASE Nudge
  BY <1>28 DEF Nudge
<1>29. CASE MemtableWakes
  BY <1>29 DEF MemtableWakes
<1>30. CASE FlushOk
  BY <1>30, ForegroundMoves DEF FlushOk
<1>31. CASE FlushFails
  BY <1>31, ForegroundMoves DEF FlushFails
<1>32. CASE UNCHANGED vars
  BY <1>32 DEF vars
<1> QED
  BY <1>1, <1>2, <1>3, <1>4, <1>5, <1>6, <1>7, <1>8, <1>9, <1>10, <1>11, <1>12, <1>13, <1>14, <1>15, <1>16, <1>17, <1>18, <1>19, <1>20, <1>21, <1>22, <1>23, <1>24, <1>25, <1>26, <1>27, <1>28, <1>29, <1>30, <1>31, <1>32
  DEF Next, Step, Client, MemtableThread, Quiet

-----------------------------------------------------------------------------
(***************************************************************************)
(* Every step keeps the list free of cycles and in the order of tickets.    *)
(***************************************************************************)
LEMMA LinkKeepsRank ==
  ASSUME TypeOK, ListSound, Ranked, NEW t \in Threads, ~linked[t], LinkAtTail(t),
         upper' \in Nat, upper <= upper',
         \A u \in Threads \ {t} : first'[u] = first[u] /\ last'[u] = last[u],
         HasTicket(t)' => /\ first'[t] \in Nat /\ last'[t] \in Nat
                          /\ upper < first'[t] /\ first'[t] <= last'[t]
                          /\ last'[t] <= upper'
  PROVE  Ranked'
<1>1. PICK r, v \in [Threads -> Nat] : RankedBy(r, v)
  BY DEF Ranked
<1>2. PICK r2, v2 \in [Threads -> Nat] :
        /\ r2 = [r EXCEPT ![t] = IF tail = NULL THEN 0 ELSE r[tail] + 1]
        /\ v2 = [v EXCEPT ![t] = IF t \notin Snapshotters THEN last'[t] ELSE upper]
  <2>1. (tail # NULL => r[tail] + 1 \in Nat) /\ upper \in Nat
    BY DEF TypeOK
  <2>2. t \notin Snapshotters => last'[t] \in Nat
    BY DEF TypeOK, LinkAtTail, HasTicket
  <2>3. /\ [r EXCEPT ![t] = IF tail = NULL THEN 0 ELSE r[tail] + 1] \in [Threads -> Nat]
        /\ [v EXCEPT ![t] = IF t \notin Snapshotters THEN last'[t] ELSE upper]
             \in [Threads -> Nat]
    BY <2>1, <2>2
  <2> QED
    BY <2>3
<1>3. tail # t /\ (tail # NULL => tail \in Threads /\ v[tail] <= upper)
  <2>1. tail # t
    BY ThreadsAssumption DEF ListSound
  <2> QED
    BY <1>1, <2>1 DEF TypeOK, ListSound, RankedBy
<1>4. /\ r2[t] = IF tail = NULL THEN 0 ELSE r[tail] + 1
      /\ v2[t] = IF HasTicket(t)' THEN last'[t] ELSE upper
      /\ \A u \in Threads \ {t} : r2[u] = r[u] /\ v2[u] = v[u]
      /\ prev'[t] = tail /\ linked'[t]
  BY <1>2 DEF TypeOK, LinkAtTail, HasTicket
<1>5. ASSUME NEW u \in Threads \ {t}
      PROVE  /\ prev'[u] = prev[u] /\ linked'[u] = linked[u]
             /\ HasTicket(u)' <=> HasTicket(u)
             /\ prev[u] # t /\ (prev[u] # NULL => prev[u] \in Threads)
  BY ThreadsAssumption DEF TypeOK, ListSound, LinkAtTail, HasTicket
<1>6. ASSUME NEW u \in Threads \ {t}
      PROVE  /\ linked'[u] => v2[u] <= upper'
             /\ HasTicket(u)' => v2[u] = last'[u]
             /\ prev'[u] # NULL => /\ r2[prev'[u]] < r2[u]
                                   /\ v2[prev'[u]] <= v2[u]
                                   /\ HasTicket(u)' => v2[prev'[u]] < first'[u]
  <2>1. linked[u] => v[u] <= upper'
    BY <1>1 DEF RankedBy, TypeOK
  <2> QED
    BY SMTT(30), <1>1, <1>4, <1>5, <2>1 DEF RankedBy
<1>7. /\ v2[t] <= upper'
      /\ HasTicket(t)' => v2[t] = last'[t]
      /\ prev'[t] # NULL => /\ r2[prev'[t]] < r2[t]
                            /\ v2[prev'[t]] <= v2[t]
                            /\ HasTicket(t)' => v2[prev'[t]] < first'[t]
  BY <1>1, <1>3, <1>4 DEF TypeOK
<1>8. RankedBy(r2, v2)'
  BY <1>6, <1>7 DEF RankedBy
<1> QED
  BY <1>2, <1>8 DEF Ranked

LEMMA BridgeKeepsRank ==
  ASSUME TypeOK, ListSound, Ranked, NEW t \in Threads, Bridge(t), upper' = upper,
         \A u \in Threads \ {t} : first'[u] = first[u] /\ last'[u] = last[u]
  PROVE  Ranked'
<1>1. PICK r, v \in [Threads -> Nat] : RankedBy(r, v)
  BY DEF Ranked
<1>2. ASSUME NEW u \in Threads \ {t}
      PROVE  /\ HasTicket(u)' <=> HasTicket(u)
             /\ linked'[u] = linked[u]
             /\ \/ prev'[u] = prev[u]
                \/ prev[u] = t /\ prev'[u] = prev[t]
  BY ThreadsAssumption DEF TypeOK, ListSound, Bridge, HasTicket
<1>3. prev'[t] = NULL /\ ~linked'[t] /\ ~HasTicket(t)'
  BY DEF TypeOK, Bridge, HasTicket
<1>4. ASSUME NEW u \in Threads \ {t}, prev[u] = t, prev[t] # NULL
      PROVE  /\ r[prev[t]] < r[u] /\ v[prev[t]] <= v[u]
             /\ HasTicket(u) => v[prev[t]] < first[u]
  BY <1>1, <1>4, ThreadsAssumption DEF TypeOK, RankedBy
<1>5. RankedBy(r, v)'
  BY <1>1, <1>2, <1>3, <1>4 DEF RankedBy
<1> QED
  BY <1>1, <1>5 DEF Ranked

LEMMA RankStep ==
  TypeOK /\ PcInv /\ ListSound /\ BelowUpper /\ Ranked /\ [Next]_vars => Ranked'
<1> SUFFICES ASSUME TypeOK, PcInv, ListSound, BelowUpper, Ranked, [Next]_vars
             PROVE  Ranked'
  OBVIOUS
<1>1. ASSUME NEW t \in Threads, Link(t) PROVE Ranked'
  <2>1. Count(t) \in Nat /\ upper \in Nat
    BY DEF Count, TypeOK
  <2>2. /\ upper' = upper + 1 + Count(t)
        /\ first'[t] = upper + 1 /\ last'[t] = upper + 1 + Count(t)
        /\ \A u \in Threads \ {t} : first'[u] = first[u] /\ last'[u] = last[u]
        /\ LinkAtTail(t) /\ ~linked[t]
    BY <1>1 DEF TypeOK, Link, Ticket, Count, PcInv, Placed, Outside
  <2> QED
    BY <2>1, <2>2, LinkKeepsRank
<1>2. ASSUME NEW t \in Threads, Enlist(t) PROVE Ranked'
  <2>1. /\ UNCHANGED <<upper, first, last>> /\ LinkAtTail(t)
        /\ ~linked[t] /\ ~HasTicket(t)' /\ upper \in Nat
    BY <1>2 DEF TypeOK, Enlist, PcInv, Placed, Outside, HasTicket, seqs
  <2>2. upper' \in Nat /\ upper <= upper'
    BY <2>1
  <2>3. \A u \in Threads \ {t} : first'[u] = first[u] /\ last'[u] = last[u]
    BY <2>1
  <2>4. /\ LinkAtTail(t) /\ ~linked[t] /\ ~HasTicket(t)'
    BY <2>1
  <2> HIDE DEF HasTicket, LinkAtTail
  <2> QED
    BY <2>2, <2>3, <2>4, LinkKeepsRank
<1>3. ASSUME NEW t \in Threads, Unlink(t) \/ Depart(t) PROVE Ranked'
  <2>1. /\ Bridge(t) /\ upper' = upper
        /\ \A u \in Threads \ {t} : first'[u] = first[u] /\ last'[u] = last[u]
    BY <1>3 DEF TypeOK, Unlink, Depart, seqs
  <2> QED
    BY <2>1, BridgeKeepsRank
<1>4. CASE UNCHANGED <<linked, prev, first, last, upper>>
  <2>1. PICK r, v \in [Threads -> Nat] : RankedBy(r, v)
    BY DEF Ranked
  <2>2. \A t \in Threads : HasTicket(t)' = HasTicket(t)
    BY <1>4 DEF HasTicket
  <2>3. RankedBy(r, v)'
    BY <1>4, <2>1, <2>2 DEF RankedBy
  <2> QED
    BY <2>3 DEF Ranked
<1>5. ASSUME NEW t \in Threads, Publish(t) \/ Copy(t)
      PROVE  UNCHANGED <<linked, prev, first, last, upper>>
  BY <1>5 DEF Publish, Copy, list
<1> QED
  BY <1>1, <1>2, <1>3, <1>4, <1>5, OthersLeaveList DEF Touches

LEMMA OrderFromRank == TypeOK /\ Ranked => QueueInTicketOrder
<1> SUFFICES ASSUME TypeOK, Ranked, NEW t \in Threads, HasTicket(t),
                    NEW u \in Ahead(t), HasTicket(u)
             PROVE  last[u] < first[t]
  BY DEF QueueInTicketOrder
<1>1. PICK r, v \in [Threads -> Nat] : RankedBy(r, v)
  BY DEF Ranked
<1> DEFINE S == {w \in Threads : v[w] < first[t]}
<1>2. \A w \in S \cup {t} : prev[w] \in S \cup {NULL}
  BY <1>1 DEF TypeOK, RankedBy
<1>3. u \in S
  BY <1>2 DEF Ahead
<1> QED
  BY <1>1, <1>3 DEF RankedBy

-----------------------------------------------------------------------------
(***************************************************************************)
(* The threads that wait for the head, and the steps that leave them alone. *)
(***************************************************************************)
HeadPoints == {"waiting", "depart", "draining", "drained"}

MovesWaiter(t) ==
  \/ Link(t) \/ PassGate(t) \/ Unlink(t) \/ Enlist(t) \/ WaitAgain(t) \/ Depart(t)
  \/ Drain(t) \/ Drained(t)

LEMMA OthersLeaveWaiters ==
  TypeOK /\ [Next]_vars =>
    \/ \E t \in Threads : MovesWaiter(t)
    \/ /\ UNCHANGED <<prev, wake>>
       /\ \A u \in Threads : pc'[u] \in HeadPoints => pc'[u] = pc[u]
<1> SUFFICES ASSUME TypeOK, [Next]_vars
             PROVE  \/ \E t \in Threads : MovesWaiter(t)
                    \/ /\ UNCHANGED <<prev, wake>>
                       /\ \A u \in Threads : pc'[u] \in HeadPoints => pc'[u] = pc[u]
  OBVIOUS
<1> DEFINE kept == /\ UNCHANGED <<prev, wake>>
                   /\ \A u \in Threads : pc'[u] \in HeadPoints => pc'[u] = pc[u]
<1>0. pc \in [Threads -> PCs]
  BY DEF TypeOK
<1> USE DEF HeadPoints, list
<1>1. ASSUME NEW t \in Threads,
             \/ BeginYieldsError(t) \/ BeginRoom(t) \/ BeginWaits(t) \/ BeginSwitches(t)
             \/ BeginSwitchFails(t) \/ Insert(t) \/ InsertFails(t) \/ Publish(t)
      PROVE  kept
  BY <1>0, <1>1 DEF BeginYieldsError, BeginRoom, BeginWaits, BeginSwitches,
    BeginSwitchFails, BeginFailed, Insert, InsertFails, Publish
<1>2. ASSUME NEW t \in Threads,
             Notify(t) \/ Settle(t) \/ EnlistAlone(t) \/ Claim(t) \/ Copy(t)
      PROVE  kept
  BY <1>0, <1>2 DEF Notify, Settle, EnlistAlone, Claim, Copy, Ended
<1>3. ASSUME NEW t \in Threads, RecordError(t) PROVE kept
  <2>1. ASSUME NEW u \in Threads \ {t}
        PROVE  pc'[u] \in HeadPoints => pc'[u] = pc[u]
    BY <1>0, <1>3, RecordErrorMoves, ForegroundMoves
  <2>2. pc'[t] \notin HeadPoints
    BY <1>3, RecordErrorMoves
  <2> QED
    BY <1>3, <2>1, <2>2 DEF RecordError
<1>4. ASSUME NEW t \in Threads, OpenGate(t) PROVE kept
  BY <1>0, <1>4 DEF OpenGate
<1>5. ASSUME NEW t \in Threads, Client(t) PROVE kept
  BY <1>0, <1>5 DEF Client, CallWrite, Sample, ReleaseSnapshot, CallBackup
<1>6. CASE MemtableThread
  <2>1. pc' = pc \/ pc' = SignalAllForeground(pc)
    BY <1>6 DEF MemtableThread, MemtableWakes, FlushOk, FlushFails
  <2>2. ASSUME NEW u \in Threads PROVE pc'[u] \in HeadPoints => pc'[u] = pc[u]
    <3>1. CASE pc' = pc
      BY <3>1
    <3>2. CASE pc' = SignalAllForeground(pc)
      BY <1>0, <3>2, ForegroundMoves
    <3> QED
      BY <2>1, <3>1, <3>2
  <2>3. UNCHANGED <<prev, wake>>
    BY <1>6 DEF MemtableThread, MemtableWakes, FlushOk, FlushFails
  <2> QED
    BY <2>2, <2>3
<1>7. CASE Nudge \/ UNCHANGED vars
  BY <1>7 DEF Nudge, vars
<1> QED
  BY <1>1, <1>2, <1>3, <1>4, <1>5, <1>6, <1>7 DEF Next, Step, Quiet, MovesWaiter

(***************************************************************************)
(* Every step keeps those that wait for the head behind a predecessor.      *)
(***************************************************************************)
LEMMA SleepStep ==
  TypeOK /\ ListSound /\ PcInv /\ WakeInv /\ NoSleepingHead /\ [Next]_vars
    => WakeInv' /\ NoSleepingHead'
<1> SUFFICES ASSUME TypeOK, ListSound, PcInv, WakeInv, NoSleepingHead, [Next]_vars
             PROVE  WakeInv' /\ NoSleepingHead'
  OBVIOUS
<1>0. pc \in [Threads -> PCs]
  BY DEF TypeOK
<1> USE DEF WakeInv, NoSleepingHead
<1>1. ASSUME NEW t \in Threads, Link(t) \/ PassGate(t) PROVE WakeInv' /\ NoSleepingHead'
  BY <1>1 DEF TypeOK, Link, PassGate, LinkAtTail, Linked
<1>2. ASSUME NEW t \in Threads, Enlist(t) PROVE WakeInv' /\ NoSleepingHead'
  BY <1>2 DEF TypeOK, Enlist, LinkAtTail
<1>3. ASSUME NEW t \in Threads, WaitAgain(t) \/ Drained(t)
      PROVE  WakeInv' /\ NoSleepingHead'
  BY <1>3 DEF TypeOK, WaitAgain, Drained, list
<1>4. ASSUME NEW t \in Threads, Unlink(t) \/ Depart(t) PROVE WakeInv' /\ NoSleepingHead'
  <2>1. /\ pc'[t] \notin {"waiting", "depart", "draining", "drained"}
        /\ \A u \in Threads \ {t} : pc'[u] = Signal(pc, NewHead(t))[u]
    BY <1>4, UnlinkMoves, DepartMoves DEF Ended
  <2>2. \A u \in Threads \ {t} : wake'[u] = wake[u]
    BY <1>4 DEF TypeOK, Unlink, Depart
  <2>3. ASSUME NEW u \in Threads \ {t}, prev'[u] = NULL, prev[u] # NULL, wake[u]
        PROVE  u \in NewHead(t)
    BY <1>4, <2>3 DEF TypeOK, ListSound, Unlink, Depart, Bridge, NewHead
  <2>4. ASSUME NEW u \in Threads \ {t},
               pc'[u] \in {"waiting", "depart", "draining", "drained"}
        PROVE  wake'[u] /\ (pc'[u] \in {"waiting", "draining"} => prev'[u] # NULL)
    <3>1. /\ pc[u] \in {"waiting", "depart", "draining", "drained"}
          /\ pc'[u] \in {"waiting", "draining"} => pc[u] = pc'[u] /\ u \notin NewHead(t)
      BY <1>0, <2>1, <2>4 DEF Signal, Asleep, Awoken
    <3> QED
      BY <2>2, <2>3, <3>1
  <2> QED
    BY <2>1, <2>4
<1>5. ASSUME NEW t \in Threads, Drain(t) PROVE WakeInv' /\ NoSleepingHead'
  <2>1. \A u \in Threads \ {t} : wake'[u] = wake[u] /\ prev'[u] = prev[u]
    BY <1>5 DEF TypeOK, Drain
  <2>2. /\ wake'[t] = (prev[t] # NULL) /\ prev'[t] = prev[t]
        /\ prev[t] = NULL => pc'[t] = "copy"
    BY <1>5, DrainMoves DEF TypeOK, Drain
  <2> QED
    BY <1>5, <2>1, <2>2, OthersSignalled
<1>6. CASE /\ UNCHANGED <<prev, wake>>
           /\ \A u \in Threads : pc'[u] \in HeadPoints => pc'[u] = pc[u]
  BY <1>6 DEF HeadPoints
<1> QED
  BY <1>1, <1>2, <1>3, <1>4, <1>5, <1>6, OthersLeaveWaiters DEF MovesWaiter

-----------------------------------------------------------------------------
(***************************************************************************)
(* Every step keeps the duty to tell the memtable thread of a switch.       *)
(***************************************************************************)
LEMMA DutyStep ==
  TypeOK /\ ListSound /\ PcInv /\ Ranked /\ FlushDutyKept /\ [Next]_vars => FlushDutyKept'
<1> SUFFICES ASSUME TypeOK, ListSound, PcInv, Ranked, FlushDutyKept, [Next]_vars
             PROVE  FlushDutyKept'
  OBVIOUS
<1> DEFINE kept == /\ UNCHANGED <<hasImm, linked, imm, bg>>
                   /\ \A u \in Threads : pc[u] \in {"link", "notify"} => pc'[u] = pc[u]
<1>0. pc \in [Threads -> PCs]
  BY DEF TypeOK
<1> USE DEF FlushDutyKept
<1>1. ASSUME NEW t \in Threads, BeginSwitches(t) PROVE FlushDutyKept'
  BY <1>1 DEF TypeOK, BeginSwitches
<1>2. ASSUME NEW t \in Threads, BeginWaits(t) \/ Notify(t) PROVE FlushDutyKept'
  BY <1>2 DEF BeginWaits, Notify, SignalMemtable
<1>3. ASSUME NEW t \in Threads, Link(t) \/ Enlist(t) PROVE FlushDutyKept'
  <2>1. UNCHANGED <<hasImm, imm, bg>>
    BY <1>3 DEF Link, Enlist, flush
  <2>2. linked'[t] /\ \A u \in Threads \ {t} : linked'[u] = linked[u] /\ pc'[u] = pc[u]
    BY <1>3 DEF TypeOK, Link, Enlist, LinkAtTail
  <2> QED
    BY <2>1, <2>2
<1>4. ASSUME NEW t \in Threads, Depart(t) PROVE FlushDutyKept'
  <2>1. UNCHANGED <<hasImm, imm, bg>> /\ (hasImm[t] => pc'[t] = "notify")
    BY <1>4, DepartMoves DEF Depart, flush
  <2>2. ASSUME NEW u \in Threads \ {t}
        PROVE  linked'[u] = linked[u] /\ (pc[u] \in {"link", "notify"} => pc'[u] = pc[u])
    <3>1. linked'[u] = linked[u]
      BY <1>4 DEF TypeOK, Depart, Bridge
    <3> QED
      BY <1>4, <3>1, OthersSignalled
  <2> QED
    BY <2>1, <2>2
<1>5. ASSUME NEW t \in Threads, Unlink(t) PROVE FlushDutyKept'
  <2>1. UNCHANGED <<imm, bg>>
    BY <1>5 DEF Unlink, flush
  <2>2. ASSUME NEW u \in Threads \ {t}
        PROVE  linked'[u] = linked[u] /\ (pc[u] \in {"link", "notify"} => pc'[u] = pc[u])
    <3>1. linked'[u] = linked[u]
      BY <1>5 DEF TypeOK, Unlink, Bridge
    <3> QED
      BY <1>5, <3>1, OthersSignalled
  <2>3. ASSUME NEW u \in Threads \ {t}
        PROVE  hasImm[u] \/ (hasImm[t] /\ prev[t] = u) => hasImm'[u]
    BY <1>5 DEF TypeOK, Unlink, HandOn
  <2>4. hasImm[t] /\ prev[t] = NULL => hasImm'[t] /\ pc'[t] = "notify"
    BY <1>5, UnlinkMoves DEF TypeOK, Unlink, HandOn
  <2>5. prev[t] # NULL => prev[t] \in Threads \ {t} /\ linked[prev[t]]
    BY DEF TypeOK, ListSound, Ranked, RankedBy
  <2> QED
    BY <2>1, <2>2, <2>3, <2>4, <2>5
<1>6. ASSUME NEW t \in Threads,
             \/ BeginYieldsError(t) \/ BeginRoom(t) \/ BeginSwitchFails(t) \/ PassGate(t)
             \/ Insert(t) \/ InsertFails(t) \/ Publish(t) \/ Settle(t)
      PROVE  kept
  BY <1>0, <1>6 DEF BeginYieldsError, BeginRoom, BeginSwitchFails, PassGate, Insert,
    InsertFails, Publish, Settle, list, flush
<1>7. ASSUME NEW t \in Threads,
             EnlistAlone(t) \/ WaitAgain(t) \/ Claim(t) \/ Drained(t) \/ Copy(t) \/ OpenGate(t)
      PROVE  kept
  BY <1>0, <1>7 DEF EnlistAlone, WaitAgain, Claim, Drained, Copy, OpenGate, list, flush
<1>8. ASSUME NEW t \in Threads, Drain(t) PROVE kept
  <2>1. ASSUME NEW u \in Threads PROVE pc[u] \in {"link", "notify"} => pc'[u] = pc[u]
    BY <1>8, OthersSignalled DEF Drain
  <2> QED
    BY <1>8, <2>1 DEF Drain, flush
<1>9. ASSUME NEW t \in Threads, RecordError(t) PROVE kept
  <2>1. ASSUME NEW u \in Threads PROVE pc[u] \in {"link", "notify"} => pc'[u] = pc[u]
    BY <1>9, OthersReleased DEF RecordError
  <2> QED
    BY <1>9, <2>1 DEF RecordError, list
<1>10. ASSUME NEW t \in Threads, Client(t) PROVE kept
  BY <1>0, <1>10 DEF Client, CallWrite, Sample, ReleaseSnapshot, CallBackup, list, flush
<1>11. CASE Nudge \/ MemtableThread
  BY <1>11 DEF Nudge, MemtableThread, MemtableWakes, FlushOk, FlushFails
<1>12. CASE UNCHANGED vars
  BY <1>12 DEF vars, list, flush
<1>13. kept => FlushDutyKept'
  OBVIOUS
<1> QED
  BY <1>1, <1>2, <1>3, <1>4, <1>5, <1>6, <1>7, <1>8, <1>9, <1>10, <1>11, <1>12, <1>13
  DEF Next, Step, Quiet

(***************************************************************************)
(* Every step keeps backups apart, those that wait for their turn counted,  *)
(* and the gate closed in front of them.                                    *)
(***************************************************************************)
LEMMA BackupStep ==
  TypeOK /\ PcInv /\ BackupsExclusive /\ WaitingBackupsCounted /\ [Next]_vars
    => BackupsExclusive' /\ WaitingBackupsCounted'
<1> SUFFICES ASSUME TypeOK, PcInv, BackupsExclusive, WaitingBackupsCounted, [Next]_vars
             PROVE  BackupsExclusive' /\ WaitingBackupsCounted'
  OBVIOUS
<1> DEFINE goal == BackupsExclusive /\ WaitingBackupsCounted
           same(u) == /\ InBackup(u)' => InBackup(u)
                      /\ u \in WaitingBackups' <=> u \in WaitingBackups
           kept == UNCHANGED backup /\ \A u \in Threads : same(u)
<1>0. pc \in [Threads -> PCs]
  BY DEF TypeOK
<1>1. IsFiniteSet(WaitingBackups) /\ Cardinality(WaitingBackups) \in Nat
  BY WaitersFinite
<1> USE ThreadsAssumption DEF InBackup
<1>2. ASSUME NEW t \in Threads, Claim(t) PROVE goal'
  <2>1. /\ pc'[t] = IF backup.claimed THEN "queued" ELSE "room"
        /\ \A u \in Threads \ {t} : pc'[u] = pc[u]
        /\ backup'.claimed
        /\ backup'.inProgress = (backup.inProgress \/ pc[t] = "claim")
        /\ backup'.waiters = backup.waiters - (IF pc[t] = "requeue" THEN 1 ELSE 0)
                                            + (IF backup.claimed THEN 1 ELSE 0)
    BY <1>0, <1>2 DEF Claim, HasIt, WaitersAfter
  <2>2. backup'.inProgress
    BY <1>2, <2>1 DEF Claim, WaitingBackupsCounted, WaitingBackups
  <2>3. BackupsExclusive'
    BY <1>2, <2>1, <2>2 DEF Claim, BackupsExclusive
  <2>4. backup'.waiters = Cardinality(WaitingBackups')
    <3>1. CASE pc[t] = "claim" /\ backup.claimed
      <4>1. WaitingBackups' = WaitingBackups \cup {t} /\ t \notin WaitingBackups
        BY <2>1, <3>1 DEF WaitingBackups
      <4>2. Cardinality(WaitingBackups') = Cardinality(WaitingBackups) + 1
        BY <1>1, <4>1, FS_AddElement
      <4>3. backup'.waiters = backup.waiters - 0 + 1 /\ backup.waiters \in Nat
        BY <2>1, <3>1 DEF TypeOK
      <4>4. backup.waiters = Cardinality(WaitingBackups)
        BY DEF WaitingBackupsCounted
      <4> QED
        BY <4>2, <4>3, <4>4
    <3>2. CASE pc[t] = "requeue" /\ ~backup.claimed
      <4>1. WaitingBackups' = WaitingBackups \ {t} /\ t \in WaitingBackups
        BY <2>1, <3>2 DEF WaitingBackups
      <4>2. Cardinality(WaitingBackups') = Cardinality(WaitingBackups) - 1
        BY <1>1, <4>1, FS_RemoveElement
      <4>3. backup'.waiters = backup.waiters - 1 + 0 /\ backup.waiters \in Nat
        BY <2>1, <3>2 DEF TypeOK
      <4>4. backup.waiters = Cardinality(WaitingBackups)
        BY DEF WaitingBackupsCounted
      <4> QED
        BY <4>2, <4>3, <4>4
    <3>3. CASE pc[t] = IF backup.claimed THEN "requeue" ELSE "claim"
      <4>1. WaitingBackups' = WaitingBackups
        BY <2>1, <3>3 DEF WaitingBackups
      <4>2. backup.waiters \in Nat /\ backup.waiters = Cardinality(WaitingBackups)
        BY DEF TypeOK, WaitingBackupsCounted
      <4>3. backup'.waiters = backup.waiters
        <5>1. CASE backup.claimed
          <6>1. backup'.waiters = backup.waiters - 1 + 1
            BY <2>1, <3>3, <5>1
          <6> QED
            BY <4>2, <6>1
        <5>2. CASE ~backup.claimed
          <6>1. backup'.waiters = backup.waiters - 0 + 0
            BY <2>1, <3>3, <5>2
          <6> QED
            BY <4>2, <6>1
        <5> QED
          BY <5>1, <5>2
      <4> QED
        BY <4>1, <4>2, <4>3
    <3> QED
      BY <1>2, <3>1, <3>2, <3>3 DEF Claim
  <2> QED
    BY <2>2, <2>3, <2>4 DEF WaitingBackupsCounted
<1>3. ASSUME NEW t \in Threads, OpenGate(t) PROVE goal'
  <2>1. \A u \in Threads : ~InBackup(u)'
    BY <1>0, <1>3 DEF OpenGate, BackupsExclusive, PcInv, Placed, BackupPoints
  <2>2. WaitingBackups' = WaitingBackups
    BY <1>0, <1>3 DEF OpenGate, WaitingBackups
  <2>3. /\ backup'.waiters = backup.waiters
        /\ backup'.inProgress = (backup.inProgress /\ backup.waiters > 0)
    BY <1>3 DEF OpenGate, GateStays, TypeOK
  <2>4. WaitingBackups # {} => Cardinality(WaitingBackups) > 0
    BY <1>1, FS_EmptySet
  <2> QED
    BY <2>1, <2>2, <2>3, <2>4 DEF BackupsExclusive, WaitingBackupsCounted
<1>4. ASSUME NEW t \in Threads,
             \/ BeginYieldsError(t) \/ BeginRoom(t) \/ BeginWaits(t) \/ BeginSwitches(t)
             \/ BeginSwitchFails(t) \/ Link(t) \/ PassGate(t) \/ Insert(t) \/ InsertFails(t)
      PROVE  kept
  BY <1>0, <1>4 DEF WaitingBackups, BeginYieldsError, BeginRoom, BeginWaits, BeginSwitches,
    BeginSwitchFails, BeginFailed, Link, Linked, PassGate, Insert, InsertFails, PcInv, Placed
<1>5. ASSUME NEW t \in Threads,
             \/ Publish(t) \/ Notify(t) \/ Settle(t) \/ EnlistAlone(t) \/ Enlist(t)
             \/ WaitAgain(t) \/ Drained(t) \/ Copy(t)
      PROVE  kept
  BY <1>0, <1>5 DEF WaitingBackups, Publish, Notify, Settle, EnlistAlone, Enlist, WaitAgain, Drained,
    Copy, Ended
<1>6. ASSUME NEW t \in Threads, RecordError(t) PROVE kept
  <2>1. ASSUME NEW u \in Threads \ {t} PROVE same(u)
    BY <1>6, OthersReleased DEF WaitingBackups
  <2>2. pc[t] = "fail" /\ pc'[t] \in {"publish", "idle"}
    BY <1>6, RecordErrorMoves DEF RecordError
  <2>3. same(t)
    BY <2>2 DEF WaitingBackups
  <2> QED
    BY <1>6, <2>1, <2>3 DEF RecordError
<1>7. ASSUME NEW t \in Threads, Unlink(t) \/ Depart(t) \/ Drain(t) PROVE kept
  <2>1. ASSUME NEW u \in Threads \ {t} PROVE same(u)
    BY <1>7, OthersSignalled DEF WaitingBackups
  <2>2. CASE Unlink(t) \/ Depart(t)
    <3>1. same(t)
      BY <2>2, UnlinkMoves, DepartMoves DEF WaitingBackups, Unlink, Depart, Ended
    <3> QED
      BY <2>1, <2>2, <3>1 DEF Unlink, Depart
  <2>3. CASE Drain(t)
    <3>1. same(t)
      BY <2>3, DrainMoves DEF WaitingBackups, Drain, PcInv, Placed, BackupPoints
    <3> QED
      BY <2>1, <2>3, <3>1 DEF Drain
  <2> QED
    BY <1>7, <2>2, <2>3
<1>8. ASSUME NEW t \in Threads, Client(t) PROVE kept
  BY <1>0, <1>8 DEF WaitingBackups, Client, CallWrite, Sample, ReleaseSnapshot, CallBackup
<1>9. ASSUME MemtableThread PROVE kept
  <2>1. ASSUME NEW u \in Threads PROVE same(u)
    BY <1>0, <1>9, ForegroundMoves DEF WaitingBackups, MemtableThread, MemtableWakes, FlushOk, FlushFails
  <2> QED
    BY <1>9, <2>1 DEF MemtableThread, MemtableWakes, FlushOk, FlushFails
<1>10. CASE Nudge \/ UNCHANGED vars
  BY <1>10 DEF Nudge, vars, BackupsExclusive, WaitingBackupsCounted, WaitingBackups
<1>11. kept => goal'
  <2> SUFFICES ASSUME kept PROVE goal'
    OBVIOUS
  <2>1. WaitingBackups' = WaitingBackups
    BY DEF WaitingBackups
  <2> QED
    BY <2>1 DEF BackupsExclusive, WaitingBackupsCounted
<1> QED
  BY <1>2, <1>3, <1>4, <1>5, <1>6, <1>7, <1>8, <1>9, <1>10, <1>11 DEF Next, Step, Quiet

-----------------------------------------------------------------------------
\* The invariant holds in every state the queue reaches, for any threads, calls and
\* batches: the list is sound, acyclic and in the order of tickets, no ticket is
\* handed out twice, no thread waits for a signal nobody will send it in the list,
\* the flush of a switched memtable is not forgotten, and backups take turns.
THEOREM QueueInvariant == Spec => []Inv
<1>1. Inv /\ [Next]_vars => Inv'
  BY TypeStep, ListStep, PcStep, TicketStep, RankStep, SleepStep, DutyStep, BackupStep DEF Inv
<1> QED
  BY <1>1, InitInv, PTL DEF Spec

\* Every variable of the queue keeps its type, whatever the calls interleave.
THEOREM QueueTypes == Spec => []TypeOK
<1>1. Inv => TypeOK
  BY DEF Inv
<1> QED
  BY <1>1, QueueInvariant, PTL

\* SequenceWriteEnd and WaitOutWriters never follow a pointer to a Writer that has
\* left the list.
THEOREM ListAlwaysSound == Spec => []ListSound
<1>1. Inv => ListSound
  BY DEF Inv
<1> QED
  BY <1>1, QueueInvariant, PTL

\* SequenceWriteBegin never hands a sequence number to two writers in flight, and
\* LastSequence stays below writers_upper_.
THEOREM TicketsAlwaysDisjoint == Spec => []TicketsDisjoint
<1>1. Inv => TicketsDisjoint
  BY DEF Inv
<1> QED
  BY <1>1, QueueInvariant, PTL

\* The list of writers is in the order of their sequence numbers, although it may be
\* broken in parts and waiters without a number stand in it.
THEOREM QueueAlwaysInOrder == Spec => []QueueInTicketOrder
<1>1. Inv => QueueInTicketOrder
  BY OrderFromRank DEF Inv
<1> QED
  BY <1>1, QueueInvariant, PTL

\* WaitOutWriters and LiveBackup never sleep as the head of the list.
THEOREM HeadNeverSleeps == Spec => []NoSleepingHead
<1>1. Inv => NoSleepingHead
  BY DEF Inv
<1> QED
  BY <1>1, QueueInvariant, PTL

\* SequenceWriteEnd hands w->has_imm_ on until the memtable thread is signalled.
THEOREM FlushDutyAlwaysKept == Spec => []FlushDutyKept
<1>1. Inv => FlushDutyKept
  BY DEF Inv
<1> QED
  BY <1>1, QueueInvariant, PTL

\* LiveBackup runs one backup at a time behind a closed gate, and counts those that
\* wait for their turn.
THEOREM BackupsTakeTurns == Spec => [](BackupsExclusive /\ WaitingBackupsCounted)
<1>1. Inv => BackupsExclusive /\ WaitingBackupsCounted
  BY DEF Inv
<1> QED
  BY <1>1, QueueInvariant, PTL
=============================================================================
