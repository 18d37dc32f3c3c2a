-------------------------------- MODULE Replay --------------------------------
(***************************************************************************)
(* Replay iterators: GetReplayTimestamp, GetReplayIterator and the passes of  *)
(* ReplayIteratorImpl over the store and then over memtable after memtable,   *)
(* beside writers that insert, switch memtables and end in any order, and the *)
(* memtable thread, which flushes imm_ without waiting for them.  An entry is  *)
(* its user key and sequence number.  The backup gate is left to WriterQueue.  *)
(***************************************************************************)
EXTENDS Integers, Sequences, FiniteSets, SequencesExt

CONSTANTS
  ReplayWriters,
  ReplayPlans,     \* what is written: sequences of keys
  ReplayPasses     \* how often Valid may find the end

VARIABLES
  rdb,       \* memtables (the last is mem_), imm_ (0: none), the table being built,
             \* tables, counters; list: the Writers reachable from writers_tail_, the last
  rwriter,   \* pc, memtable, key and sequence number of each writer
  replay,    \* the timestamp, the ReplayIteratorImpl; base: what it found in the store
  past       \* history: the entries of Write calls begun after GetReplayTimestamp had
             \* returned, and those inserted when LastSequence was past them already

replayVars == <<rdb, rwriter, replay, past>>

End == <<>>
ReplayKeys == UNION {Range(plan) : plan \in ReplayPlans}
Cur == Len(rdb.mems)
Stored ==
  rdb.mems[Cur] \cup (IF rdb.imm = 0 THEN {} ELSE rdb.mems[rdb.imm])
    \cup UNION {f.entries : f \in rdb.files}

\* The Writer of WaitOutWriters in the list.
Waiter == "WaitOutWriters"

NoBuild == [number |-> 0, entries |-> {}]

ReplayInit ==
  /\ rdb \in [mems : {<<{}>>}, imm : {0}, build : {NoBuild}, files : {{}}, next : {1},
              upper : {0}, last : {0}, list : {<<>>}, plan : ReplayPlans]
  /\ rwriter = [w \in ReplayWriters |-> [pc |-> "idle", mem |-> 0, key |-> 0, seq |-> 0, since |-> FALSE]]
  /\ past = [since |-> {}, late |-> {}]
  /\ replay = [pc |-> "none", file |-> 0, ts |-> 0, waits |-> {}, kids |-> <<>>, mem |-> 0,
               start |-> 0, limit |-> 0, queue |-> <<>>, cur |-> End, shown |-> [k \in ReplayKeys |-> 0],
               passes |-> 0, base |-> {}]

-----------------------------------------------------------------------------
(* Write. *)

\* ReplayIteratorImpl::enqueue as SequenceWriteBegin calls it: start_sequence_ of
\* the writer is not set yet, it is 0.
Enqueue(r, mem) == IF r.pc \in {"none", "ts", "tsWait", "stamped"} THEN r
                   ELSE [r EXCEPT !.queue = Append(@, [mem |-> mem, start |-> 0])]

\* SequenceWriteBegin up to the end of mutex_.
BeginWrite(w) ==
  /\ rwriter[w].pc = "idle" /\ rdb.plan # <<>>
  /\ \E switch \in BOOLEAN :
       /\ switch => rdb.imm = 0 /\ rdb.mems[Cur] # {}
       /\ rdb' = [rdb EXCEPT !.plan = Tail(@),
                             !.mems = IF switch THEN Append(@, {}) ELSE @,
                             !.imm = IF switch THEN Cur ELSE @]
       /\ rwriter' = [rwriter EXCEPT ![w] = [pc |-> "ticket", mem |-> IF switch THEN Cur + 1 ELSE Cur,
                                             key |-> Head(rdb.plan), seq |-> 0,
                                             since |-> replay.pc \notin {"none", "ts", "tsWait"}]]
       /\ replay' = IF switch THEN Enqueue(replay, Cur + 1) ELSE replay
  /\ UNCHANGED past

\* The rest of it: the writer becomes the tail and takes 1 + Count numbers.
TakeTicket(w) ==
  /\ rwriter[w].pc = "ticket"
  /\ rdb' = [rdb EXCEPT !.upper = @ + 2, !.list = Append(@, w)]
  /\ rwriter' = [rwriter EXCEPT ![w].pc = "insert", ![w].seq = rdb.upper + 1]
  /\ UNCHANGED <<replay, past>>

InsertEntry(w) ==
  /\ rwriter[w].pc = "insert"
  /\ LET e == <<rwriter[w].key, rwriter[w].seq>>
     IN  /\ rdb' = [rdb EXCEPT !.mems[rwriter[w].mem] = @ \cup {e}]
         /\ past' = [since |-> IF rwriter[w].since THEN past.since \cup {e} ELSE past.since,
                     late |-> IF rdb.last >= e[2] THEN past.late \cup {e} ELSE past.late]
  /\ rwriter' = [rwriter EXCEPT ![w].pc = "end"]
  /\ UNCHANGED replay

SetLastSequence(s) == IF s > rdb.last THEN s ELSE rdb.last

\* SequenceWriteEnd: end_sequence_ is published under mutex_.
PublishWrite(w) ==
  /\ rwriter[w].pc = "end"
  /\ rdb' = [rdb EXCEPT !.last = SetLastSequence(rwriter[w].seq + 1)]
  /\ rwriter' = [rwriter EXCEPT ![w].pc = "unlink"]
  /\ UNCHANGED <<replay, past>>

\* The list without one of its Writers; when the tail leaves, writers_tail_ is NULL
\* and no Writer can be reached from it.
Unlinked(list, w) == IF list # <<>> /\ Last(list) = w THEN <<>> ELSE Remove(list, w)

\* Then the writer leaves the list, wherever in it it is, and no longer has
\* anyone behind it wait.
EndWrite(w) ==
  /\ rwriter[w].pc = "unlink"
  /\ rdb' = [rdb EXCEPT !.list = Unlinked(@, w)]
  /\ rwriter' = [rwriter EXCEPT ![w].pc = "idle"]
  /\ replay' = [replay EXCEPT !.waits = @ \ {w}]
  /\ UNCHANGED past

\* CompactMemTableThread finds imm_ set: the table has what is in it by now, and of
\* what a writer still inserts the part that BuildTable comes across.
FlushBuild ==
  /\ rdb.imm # 0 /\ rdb.build = NoBuild
  /\ rdb' = [rdb EXCEPT !.next = @ + 1,
                        !.build = [number |-> rdb.next, entries |-> rdb.mems[rdb.imm]]]
  /\ UNCHANGED <<rwriter, replay, past>>

FlushImm ==
  /\ rdb.build # NoBuild
  /\ \E seen \in SUBSET (rdb.mems[rdb.imm] \ rdb.build.entries) :
       rdb' = [rdb EXCEPT !.imm = 0, !.build = NoBuild,
                          !.files = @ \cup {[rdb.build EXCEPT !.entries = @ \cup seen]}]
  /\ UNCHANGED <<rwriter, replay, past>>

-----------------------------------------------------------------------------
(* The iterators: a child is a memtable, which grows, or a set of entries;    *)
(* at is the entry it stands at.                                              *)

Contents(kid) == IF kid.mem > 0 THEN rdb.mems[kid.mem] ELSE kid.set

\* InternalKeyComparator: newer entries of a key first.
EntryBefore(a, b) == a[1] < b[1] \/ (a[1] = b[1] /\ a[2] > b[2])
FirstOf(set) == IF set = {} THEN End ELSE CHOOSE e \in set : \A x \in set : x = e \/ EntryBefore(e, x)

AtFirst(kid) == [kid EXCEPT !.at = FirstOf(Contents(kid))]
AtNext(kid) == [kid EXCEPT !.at = FirstOf({e \in Contents(kid) : EntryBefore(kid.at, e)})]
Kid(mem, set) == AtFirst([mem |-> mem, set |-> set, at |-> End])

Here(r) == FirstOf({r.kids[i].at : i \in DOMAIN r.kids} \ {End})
StepNext(r) == [r EXCEPT !.kids = [i \in DOMAIN @ |-> IF @[i].at = Here(r) THEN AtNext(@[i]) ELSE @[i]]]

-----------------------------------------------------------------------------

\* GetReplayTimestamp, under mutex_.
GetReplayTimestamp ==
  /\ replay.pc = "none"
  /\ replay' = [replay EXCEPT !.pc = "ts", !.file = rdb.next, !.ts = rdb.last]
  /\ UNCHANGED <<rdb, rwriter, past>>

\* WaitOutWriters, in GetReplayTimestamp and in LastSequence: it links itself behind
\* the tail and waits for the Writers it can reach from there.
WaitOutWriters ==
  /\ replay.pc \in {"ts", "limit"}
  /\ replay' = [replay EXCEPT !.pc = IF @ = "ts" THEN "tsWait" ELSE "wait", !.waits = Range(rdb.list)]
  /\ rdb' = [rdb EXCEPT !.list = Append(@, Waiter)]
  /\ UNCHANGED <<rwriter, past>>

WaitedOut(r) ==
  /\ r.waits = {}
  /\ rdb' = [rdb EXCEPT !.list = Unlinked(@, Waiter)]

TimestampTaken ==
  /\ replay.pc = "tsWait" /\ WaitedOut(replay)
  /\ replay' = [replay EXCEPT !.pc = "stamped"]
  /\ UNCHANGED <<rwriter, past>>

\* GetReplayIterator: NewInternalIterator over the memtables and the tables that
\* are new enough, and the memtable for the first pass after it.
GetReplayIterator ==
  /\ replay.pc = "stamped"
  /\ \E ts \in {0, replay.ts} :
       LET file == IF ts = 0 THEN 0 ELSE replay.file
           tables == UNION {f.entries : f \in {g \in rdb.files : g.number >= file}}
       IN  replay' = [replay EXCEPT
             !.pc = "ready", !.ts = ts, !.start = ts, !.limit = 1000,
             !.kids = <<Kid(Cur, {}), Kid(0, tables)>> \o
                      (IF rdb.imm = 0 THEN <<>> ELSE <<Kid(rdb.imm, {})>>),
             !.queue = <<[mem |-> Cur, start |-> ts]>>, !.base = Stored]
  /\ UNCHANGED <<rdb, rwriter, past>>

\* Valid: Prime.
CallValid ==
  /\ replay.pc = "ready" /\ replay.passes < ReplayPasses
  /\ replay' = [replay EXCEPT !.pc = "prime"]
  /\ UNCHANGED <<rdb, rwriter, past>>

\* Mutant: an entry at the start of the pass is taken as seen.
ShowsNewer(r, e) == (r.cur = End \/ e[1] # r.cur[1] \/ e[2] >= r.cur[2]) /\ e[2] > r.start + 1

Shows(r, e) == (r.cur = End \/ e[1] # r.cur[1] \/ e[2] >= r.cur[2]) /\ e[2] >= r.start

\* The inner loop of Prime, one entry: it is shown, and the user calls Next, or
\* it is passed over.
PrimeEntry ==
  /\ replay.pc = "prime" /\ Here(replay) # End
  /\ LET e == Here(replay)
         n == StepNext(replay)
     IN  replay' = IF Shows(replay, e)
                   THEN [n EXCEPT !.pc = "ready", !.cur = e, !.shown[e[1]] = Max({@, e[2]})]
                   ELSE n
  /\ UNCHANGED <<rdb, rwriter, past>>

NextMem(r) == r.queue # <<>> /\ ~(r.limit < Head(r.queue).start)

\* The end of a pass: the next memtable, or the same one again from seq_limit_.
PassEnds ==
  /\ replay.pc = "prime" /\ Here(replay) = End
  /\ replay' = [(IF NextMem(replay)
                 THEN [replay EXCEPT !.mem = Head(replay.queue).mem, !.queue = Tail(@),
                                     !.start = Head(replay.queue).start]
                 ELSE [replay EXCEPT !.start = replay.limit])
                EXCEPT !.pc = "last", !.cur = End, !.kids = <<>>]
  /\ UNCHANGED <<rdb, rwriter, past>>

\* LastSequence reads it, before it waits the writers out.
ReadLast ==
  /\ replay.pc = "last"
  /\ replay' = [replay EXCEPT !.pc = "limit", !.limit = rdb.last]
  /\ UNCHANGED <<rdb, rwriter, past>>

AtEnd(r) == r.start = r.limit

NextPass ==
  /\ replay.pc = "wait" /\ WaitedOut(replay)
  /\ replay' = [replay EXCEPT !.kids = <<Kid(replay.mem, {})>>,
                              !.pc = IF AtEnd(replay) THEN "ended" ELSE "prime",
                              !.passes = IF AtEnd(replay) THEN @ + 1 ELSE @]
  /\ UNCHANGED <<rwriter, past>>

\* Valid has returned FALSE; the user asks again later.
EndSeen ==
  /\ replay.pc = "ended"
  /\ replay' = [replay EXCEPT !.pc = "ready"]
  /\ UNCHANGED <<rdb, rwriter, past>>

ReplayNext ==
  \/ \E w \in ReplayWriters :
       BeginWrite(w) \/ TakeTicket(w) \/ InsertEntry(w) \/ PublishWrite(w) \/ EndWrite(w)
  \/ FlushBuild \/ FlushImm
  \/ GetReplayTimestamp \/ WaitOutWriters \/ TimestampTaken \/ GetReplayIterator
  \/ CallValid \/ PrimeEntry \/ PassEnds \/ ReadLast \/ NextPass \/ EndSeen

ReplaySpec == ReplayInit /\ [][ReplayNext]_replayVars

-----------------------------------------------------------------------------
(* Properties. *)

Quiet == \A w \in ReplayWriters : rwriter[w].pc = "idle"

\* The iterator has come to its end, no write is going on, and it has waited for
\* the last one.
CaughtUp == replay.pc = "ended" /\ Quiet /\ replay.limit = rdb.last

\* Every one of these entries that was written after the timestamp (all of them for
\* the timestamp "all") has been shown, or a newer one of the same key has.
ShownFrom(entries) ==
  \A e \in entries : (replay.ts = 0 \/ e \in past.since) => replay.shown[e[1]] >= e[2]

\* A replay iterator that has caught up has shown every write begun after its
\* timestamp: GetReplayIterator "returns every write operation performed after the
\* timestamp" (db.h:166).
ReplayComplete == CaughtUp => ShownFrom(Stored)

\* What does hold of an iterator that has caught up, however writers overlap with
\* its passes and with each other, end out of order and have their memtable flushed
\* under them: it has shown every write begun after its timestamp that was in the
\* store when it was made, and every one that is in mem_ and was inserted before
\* another writer published a LastSequence beyond it.
ReplayOfMem == CaughtUp => ShownFrom(replay.base \cup (rdb.mems[Cur] \ past.late))
=============================================================================
