------------------------------ MODULE Iterators ------------------------------
(***************************************************************************)
(* The iterators a reader's cursor is made of: DBIter (db/db_iter.cc) on a   *)
(* MergingIterator (table/merger.cc) on TwoLevelIterators                     *)
(* (table/two_level_iterator.cc) over the blocks of tables or the files of a  *)
(* level; a memtable is a source of one block.  A user moves the cursor       *)
(* forwards and backwards in any order; blocks may be unreadable.             *)
(*                                                                         *)
(* An entry is <<user key, sequence, isDeletion>>.  A source is a sequence of *)
(* blocks, a block a sequence of entries; position 0 is "not valid".          *)
(***************************************************************************)
EXTENDS Integers, FiniteSets, Sequences, SequencesExt, Loops

CONSTANTS
  Datasets,    \* records: sources; bad (pairs <<source, block>> that cannot be
               \* read); loose (index keys are separators, not last keys)
  CursorKeys,  \* user keys to seek
  Snapshots    \* sequence numbers the cursor may read at

VARIABLES
  dataset,  \* what is stored
  cursor,   \* the DBIter with everything below it
  place     \* history: where a cursor on the visible keys would be

iterVars == <<dataset, cursor, place>>

\* InternalKeyComparator.
Precedes(a, b) == a[1] < b[1] \/ (a[1] = b[1] /\ a[2] > b[2])

-----------------------------------------------------------------------------
(* TwoLevelIterator over source i: idx is the position of index_iter_, blk    *)
(* the block of data_iter_ (0 for NULL), at the position in it, err status_.  *)

Blocks(i) == dataset.sources[i]
Unreadable(i, b) == <<i, b>> \in dataset.bad

\* Seek of the index: the first block whose index key is not before the target.
IndexSeek(i, target) ==
  LET holds(b) == \/ ~Precedes(Last(Blocks(i)[b]), target)
                  \/ dataset.loose /\ (b = Len(Blocks(i)) \/ Precedes(target, Blocks(i)[b + 1][1]))
      found == {b \in DOMAIN Blocks(i) : holds(b)}
  IN  IF found = {} THEN 0 ELSE Min(found)

SetDataIterator(i, c, b) ==
  [c EXCEPT !.blk = b, !.at = 0, !.err = @ \/ (c.blk > 0 /\ Unreadable(i, c.blk))]

InitDataBlock(i, c) ==
  IF c.idx = 0 THEN SetDataIterator(i, c, 0)
  ELSE IF c.blk = c.idx THEN c
  ELSE SetDataIterator(i, c, c.idx)

\* Positions data_iter_, unless there is none or its block is unreadable.
DataAt(i, c, pos) == IF c.blk = 0 \/ Unreadable(i, c.blk) THEN c ELSE [c EXCEPT !.at = pos]

DataFirst(i, c) == DataAt(i, c, 1)
DataLast(i, c) == DataAt(i, c, IF c.blk = 0 THEN 0 ELSE Len(Blocks(i)[c.blk]))
DataEnd(i, c, forward) == IF forward THEN DataFirst(i, c) ELSE DataLast(i, c)
DataSeek(i, c, target) ==
  DataAt(i, c, IF c.blk = 0 THEN 0
               ELSE LET block == Blocks(i)[c.blk]
                        from == {p \in DOMAIN block : ~Precedes(block[p], target)}
                    IN  IF from = {} THEN 0 ELSE Min(from))

\* Moves an index position; 0 when it leaves the index.
Moved(i, idx, by) == IF idx + by \in DOMAIN Blocks(i) THEN idx + by ELSE 0

\* SkipEmptyDataBlocksForward and SkipEmptyDataBlocksBackward.
SkipEmptyDataBlocks(i, child, forward) ==
  LET step(s) ==
        IF s.c.at > 0 THEN [s EXCEPT !.halt = TRUE]
        ELSE IF s.c.idx = 0 THEN [c |-> SetDataIterator(i, s.c, 0), halt |-> TRUE]
        ELSE [s EXCEPT !.c =
               DataEnd(i, InitDataBlock(i, [s.c EXCEPT !.idx = Moved(i, @, IF forward THEN 1 ELSE -1)]),
                       forward)]
  IN  Iterate(step, [c |-> child, halt |-> FALSE]).c

ChildSeek(i, c, target) ==
  SkipEmptyDataBlocks(i, DataSeek(i, InitDataBlock(i, [c EXCEPT !.idx = IndexSeek(i, target)]), target), TRUE)

ChildFirst(i, c) ==
  SkipEmptyDataBlocks(i, DataFirst(i, InitDataBlock(i, [c EXCEPT !.idx = Moved(i, 0, 1)])), TRUE)

ChildLast(i, c) ==
  SkipEmptyDataBlocks(i, DataLast(i, InitDataBlock(i, [c EXCEPT !.idx = Len(Blocks(i))])), FALSE)

ChildNext(i, c) ==
  SkipEmptyDataBlocks(i, [c EXCEPT !.at = IF @ < Len(Blocks(i)[c.blk]) THEN @ + 1 ELSE 0], TRUE)

ChildPrev(i, c) == SkipEmptyDataBlocks(i, [c EXCEPT !.at = @ - 1], FALSE)

ChildValid(c) == c.at > 0
ChildKey(i, c) == Blocks(i)[c.blk][c.at]
ChildError(i, c) == c.err \/ (c.blk > 0 /\ Unreadable(i, c.blk))

-----------------------------------------------------------------------------
(* MergingIterator: kids are its children, those that are valid are in the    *)
(* heap, cur is current_ (0 for NULL), torn says a pop took another child.    *)

MergeKey(m) == ChildKey(m.cur, m.kids[m.cur])

\* ReinitializeComparisons, then FindSmallest or FindLargest.
Reheaped(m) ==
  LET valid == {i \in DOMAIN m.kids : ChildValid(m.kids[i])}
      first(i) == \A j \in valid :
        i = j \/ (IF m.forward THEN Precedes(ChildKey(i, m.kids[i]), ChildKey(j, m.kids[j]))
                  ELSE Precedes(ChildKey(j, m.kids[j]), ChildKey(i, m.kids[i])))
  IN  [m EXCEPT !.cur = IF valid = {} THEN 0 ELSE CHOOSE i \in valid : first(i)]

\* All children were moved.
Positioned(m, kids, forward) == Reheaped([m EXCEPT !.kids = kids, !.forward = forward])

MergeSeek(m, target) == Positioned(m, [i \in DOMAIN m.kids |-> ChildSeek(i, m.kids[i], target)], TRUE)
MergeFirst(m) == Positioned(m, [i \in DOMAIN m.kids |-> ChildFirst(i, m.kids[i])], TRUE)
MergeLast(m) == Positioned(m, [i \in DOMAIN m.kids |-> ChildLast(i, m.kids[i])], FALSE)

\* Mutant: the other children are not brought to the other side of the key.
TurnedNot(m, forward) == [m EXCEPT !.forward = forward]

\* A child that was brought to the first entry from key on, to that side of it.
PastKey(i, c, key, forward) ==
  IF forward THEN IF ChildValid(c) /\ ChildKey(i, c) = key THEN ChildNext(i, c) ELSE c
  ELSE IF ChildValid(c) THEN ChildPrev(i, c) ELSE ChildLast(i, c)

\* A change of direction moves every other child past the current key.
Turned(m, forward) ==
  IF m.forward = forward THEN m
  ELSE [m EXCEPT !.forward = forward, !.kids = [i \in DOMAIN m.kids |->
          IF i = m.cur THEN m.kids[i]
          ELSE PastKey(i, ChildSeek(i, m.kids[i], MergeKey(m)), MergeKey(m), forward)]]

\* PopCurrentComparison takes the top off the heap, whichever child that is.
Popped(m) == [m EXCEPT !.torn = @ \/ Reheaped(m).cur # m.cur]

\* The child at the current key moves.
Advanced(m) ==
  Reheaped([m EXCEPT !.kids[m.cur] = IF m.forward THEN ChildNext(m.cur, @) ELSE ChildPrev(m.cur, @)])

MergeNext(m) == Advanced(Popped(Turned(m, TRUE)))
MergePrev(m) == Advanced(Popped(Turned(m, FALSE)))

MergeValid(m) == m.cur # 0
MergeError(m) == \E i \in DOMAIN m.kids : ChildError(i, m.kids[i])

-----------------------------------------------------------------------------
(* DBIter d: forward is direction_, iter the MergingIterator, key saved_key_  *)
(* (0 when empty), value saved_value_, seq the snapshot.                      *)

AllEntries(ds) == UNION {UNION {Range(ds.sources[i][b]) : b \in DOMAIN ds.sources[i]} :
                        i \in DOMAIN ds.sources}

\* A loop's state s with iter_ moved to m.
With(s, m) == [s EXCEPT !.iter = m, !.halt = ~MergeValid(m)]

\* The state s in which FindNextUserEntry leaves its loop.
FoundNext(d, s) == [d EXCEPT !.iter = s.iter, !.valid = s.found, !.key = 0]

ForwardLoop(d, skipping, skip) ==
  [iter |-> d.iter, skipping |-> skipping, skip |-> skip, found |-> FALSE, halt |-> FALSE]

FindNextUserEntry(d, skipping, skip) ==
  LET step(s) ==
        LET e == MergeKey(s.iter)
            seen == e[2] <= d.seq
            shown == seen /\ ~e[3] /\ ~(s.skipping /\ e[1] <= s.skip)
            hide == seen /\ e[3]
        IN  IF shown THEN [s EXCEPT !.found = TRUE, !.halt = TRUE]
            ELSE [With(s, MergeNext(s.iter)) EXCEPT
                    !.skipping = @ \/ hide, !.skip = IF hide THEN e[1] ELSE @]
  IN  FoundNext(d, Iterate(step, ForwardLoop(d, skipping, skip)))

\* The same of FindPrevUserEntry: without a value the iterator has ended.
FoundPrev(d, s) ==
  [d EXCEPT !.iter = s.iter, !.valid = s.kept, !.forward = ~s.kept,
            !.key = IF s.kept THEN s.key ELSE 0, !.value = IF s.kept THEN s.value ELSE 0]

BackwardLoop(d) ==
  [iter |-> d.iter, kept |-> FALSE, key |-> d.key, value |-> d.value, halt |-> ~MergeValid(d.iter)]

\* An entry the cursor may see: a value is kept, a deletion clears what was kept.
Noted(s, e) ==
  [s EXCEPT !.kept = ~e[3], !.key = IF e[3] THEN 0 ELSE e[1], !.value = IF e[3] THEN 0 ELSE e[2]]

FindPrevUserEntry(d) ==
  LET step(s) ==
        LET e == MergeKey(s.iter)
            seen == e[2] <= d.seq
        IN  IF seen /\ s.kept /\ e[1] < s.key THEN [s EXCEPT !.halt = TRUE]
            ELSE With(IF seen THEN Noted(s, e) ELSE s, MergePrev(s.iter))
  IN  FoundPrev(d, Iterate(step, BackwardLoop(d)))

\* Forward from where iter_ is, or the end.
Settle(d) == IF MergeValid(d.iter) THEN FindNextUserEntry(d, FALSE, 0) ELSE [d EXCEPT !.valid = FALSE]

DBSeek(d, k) ==
  Settle([d EXCEPT !.forward = TRUE, !.value = 0, !.iter = MergeSeek(@, <<k, d.seq, FALSE>>)])

DBFirst(d) == Settle([d EXCEPT !.forward = TRUE, !.value = 0, !.iter = MergeFirst(@)])

DBLast(d) == FindPrevUserEntry([d EXCEPT !.forward = FALSE, !.value = 0, !.iter = MergeLast(@)])

\* The internal iterator of a cursor that turns forward, at m.
TurnsForward(d, m) ==
  IF MergeValid(m) THEN FindNextUserEntry([d EXCEPT !.forward = TRUE, !.iter = m], TRUE, d.key)
  ELSE [d EXCEPT !.forward = TRUE, !.iter = m, !.valid = FALSE, !.key = 0]

DBNext(d) ==
  IF d.forward THEN FindNextUserEntry(d, TRUE, MergeKey(d.iter)[1])
  ELSE TurnsForward(d, IF MergeValid(d.iter) THEN MergeNext(d.iter) ELSE MergeFirst(d.iter))

\* The same backward, once m is before all entries of the key k.
TurnsBackward(d, m, k) ==
  IF MergeValid(m) THEN FindPrevUserEntry([d EXCEPT !.forward = FALSE, !.key = k, !.iter = m])
  ELSE [d EXCEPT !.valid = FALSE, !.key = 0, !.value = 0, !.iter = m]

DBPrev(d) ==
  LET k == MergeKey(d.iter)[1]
      halts(s) == [s EXCEPT !.halt = @ \/ MergeKey(s.iter)[1] < k]
      step(s) == halts(With(s, MergePrev(s.iter)))
  IN  IF ~d.forward THEN FindPrevUserEntry(d)
      ELSE TurnsBackward(d, Iterate(step, [iter |-> d.iter, halt |-> FALSE]).iter, k)

DBKey(d) == IF d.forward THEN MergeKey(d.iter)[1] ELSE d.key
DBValue(d) == IF d.forward THEN MergeKey(d.iter)[2] ELSE d.value
DBStatusOk(d) == ~MergeError(d.iter)

-----------------------------------------------------------------------------
(* What a cursor must show: the keys visible at its sequence number, with the *)
(* sequence number of the value; place is an index of it, 0 when not valid.   *)

NewestAt(k, s) ==
  LET seen == {e \in AllEntries(dataset) : e[1] = k /\ e[2] <= s}
  IN  CHOOSE e \in seen : \A x \in seen : x[2] <= e[2]

VisibleAt(s) ==
  LET keys == {k \in {e[1] : e \in AllEntries(dataset)} :
                 \E e \in AllEntries(dataset) : e[1] = k /\ e[2] <= s}
      shown == {NewestAt(k, s) : k \in keys}
  IN  SetToSortSeq({e \in shown : ~e[3]}, LAMBDA a, b : a[1] < b[1])

PlaceAt(p) == IF p \in DOMAIN VisibleAt(cursor.seq) THEN p ELSE 0

-----------------------------------------------------------------------------

ItersInit ==
  /\ dataset \in Datasets
  /\ \E s \in Snapshots :
       cursor = [forward |-> TRUE, valid |-> FALSE, key |-> 0, value |-> 0, seq |-> s,
                 iter |-> [kids |-> [i \in DOMAIN dataset.sources |->
                                       [idx |-> 0, blk |-> 0, at |-> 0, err |-> FALSE]],
                           cur |-> 0, forward |-> TRUE, torn |-> FALSE]]
  /\ place = 0

CursorSeek ==
  /\ \E k \in CursorKeys :
       /\ cursor' = DBSeek(cursor, k)
       /\ place' = LET vis == VisibleAt(cursor.seq)
                       from == {p \in DOMAIN vis : vis[p][1] >= k}
                   IN  IF from = {} THEN 0 ELSE Min(from)
  /\ UNCHANGED dataset

CursorFirst == cursor' = DBFirst(cursor) /\ place' = PlaceAt(1) /\ UNCHANGED dataset

CursorLast == cursor' = DBLast(cursor) /\ place' = Len(VisibleAt(cursor.seq)) /\ UNCHANGED dataset

CursorNext == cursor.valid /\ cursor' = DBNext(cursor) /\ place' = PlaceAt(place + 1) /\ UNCHANGED dataset

CursorPrev == cursor.valid /\ cursor' = DBPrev(cursor) /\ place' = PlaceAt(place - 1) /\ UNCHANGED dataset

ItersNext == CursorSeek \/ CursorFirst \/ CursorLast \/ CursorNext \/ CursorPrev

ItersSpec == ItersInit /\ [][ItersNext]_iterVars

-----------------------------------------------------------------------------
(* Properties. *)

\* However the user mixes seeks and steps in both directions, the cursor shows
\* the newest visible value of the key a cursor on the visible keys would be
\* at, and ends where that one ends; unless its status reports an error.
CursorExact ==
  DBStatusOk(cursor) =>
    /\ cursor.valid <=> place > 0
    /\ cursor.valid => LET e == VisibleAt(cursor.seq)[place]
                       IN  DBKey(cursor) = e[1] /\ DBValue(cursor) = e[2]

\* When the merge advances, the child it is at is on top of the heap, after a
\* change of direction too: assert(heap_[0] == idx) of PopCurrentComparison.
CurrentIsHeapTop == ~cursor.iter.torn

\* The cursor as a whole: it shows what it should, and the heap under it is sound.
CursorSound == CursorExact /\ CurrentIsHeapTop
=============================================================================
