-------------------------------- MODULE Codec --------------------------------
(***************************************************************************)
(* What is written as bytes and read back: integers (util/coding.cc), write  *)
(* batches (db/write_batch.cc), entries of a memtable (db/memtable.cc,       *)
(* db/dbformat.cc) and version edits (db/version_edit.cc).                   *)
(*                                                                         *)
(* A byte has GroupBits + 1 bits, of which a varint uses GroupBits; words    *)
(* have Short and Long bytes (7 bits, 4 and 8 bytes in the code).            *)
(***************************************************************************)
EXTENDS Integers, FiniteSets, Sequences, SequencesExt, Loops, Slices

CONSTANTS
  GroupBits, Short, Long,
  BatchKeys, BatchValues, \* byte sequences
  BatchOps,               \* operations that are ever added
  BatchStarts,            \* sequence numbers a database starts from
  EditLevels,             \* kNumLevels
  EditNumbers, EditSizes, \* file numbers and file sizes of an edit
  EditKeys,               \* its internal keys
  EditFields              \* fields of one edit

ASSUME CodecAssumption == GroupBits \in Nat \ {0} /\ Short \in Nat \ {0} /\ Long >= Short

VARIABLES
  batches, \* the contents of two batches
  wanted, \* history: the operations each batch was given
  records, \* the records of the log
  memtable, \* the entries of the memtable
  applied, \* history: the operations written, with their sequence numbers
  lastSeq, \* the last sequence number
  edit, \* a VersionEdit
  fields   \* how many times it was added to

batchVars == <<batches, wanted, records, memtable, applied, lastSeq>>
editVars == <<edit, fields>>

-----------------------------------------------------------------------------
(* Integers. *)

B == 2 ^ GroupBits
Byte == 2 * B
Word(n) == Byte ^ n
Groups(n) == (n * (GroupBits + 1) + GroupBits - 1) \div GroupBits

Weighted(digits, base) ==
  LET sum[i \in 0 .. Len(digits)] ==
        IF i = 0 THEN 0 ELSE sum[i - 1] + digits[i] * base ^ (i - 1)
  IN  sum[Len(digits)]

EncodeFixed(v, n) == [i \in 1 .. n |-> (v \div Word(i - 1)) % Byte]
DecodeFixed(s, at, n) == Weighted(SubSeq(s, at, at + n - 1), Byte)

\* EncodeVarint32 has a case for every length.
EncodeVarint32(v) ==
  LET n == 1 + Cardinality({i \in 1 .. Groups(Short) - 1 : v >= B ^ i})
  IN  [i \in 1 .. n |-> ((v \div B ^ (i - 1)) % B) + (IF i < n THEN B ELSE 0)]

\* EncodeVarint64 and VarintLength shift the value out.
EncodeVarint64[v \in Nat] == IF v >= B THEN <<(v % B) + B>> \o EncodeVarint64[v \div B] ELSE <<v>>

VarintLength(v) ==
  LET length[w \in Nat] == IF w >= B THEN 1 + length[w \div B] ELSE 1 IN length[v]

Failed == [ok |-> FALSE]
Parsed(value, rest) == [ok |-> TRUE, value |-> value, rest |-> rest]
From(s, i) == SubSeq(s, i, Len(s))

\* GetVarint32Ptr and GetVarint64Ptr: no more than the groups of the word are
\* read; bits shifted out of it are lost.
GetVarint(s, n) ==
  LET ends == {i \in DOMAIN s : i <= Groups(n) /\ s[i] < B}
      last == Min(ends)
  IN  IF ends = {} THEN Failed
      ELSE Parsed(Weighted([i \in 1 .. last |-> s[i] % B], B) % Word(n), From(s, last + 1))

GetVarint32(s) == GetVarint(s, Short)
GetVarint64(s) == GetVarint(s, Long)

LengthPrefixed(s) == EncodeVarint32(Len(s)) \o s

\* Mutant: what is left of the input is taken for the whole slice.
PrefixedUnchecked(s) ==
  LET length == GetVarint32(s)
  IN  IF ~length.ok THEN Failed
      ELSE Parsed(SubSeq(length.rest, 1, Min({length.value, Len(length.rest)})),
                  From(length.rest, length.value + 1))

GetLengthPrefixedSlice(s) ==
  LET length == GetVarint32(s)
  IN  IF ~length.ok \/ Len(length.rest) < length.value THEN Failed
      ELSE Parsed(SubSeq(length.rest, 1, length.value), From(length.rest, length.value + 1))

-----------------------------------------------------------------------------
(* Write batches. *)

TypeDeletion == 0
TypeValue == 1
Header == Long + Short

EmptyBatch == [i \in 1 .. Header |-> 0]

BatchCount(b) == DecodeFixed(b, Long + 1, Short)
SetCount(b, n) == SubSeq(b, 1, Long) \o EncodeFixed(n, Short) \o From(b, Header + 1)
Sequence(b) == DecodeFixed(b, 1, Long)
SetSequence(b, s) == EncodeFixed(s, Long) \o From(b, Long + 1)

\* WriteBatch::Put and WriteBatch::Delete.
BatchWith(b, op) ==
  SetCount(b, BatchCount(b) + 1) \o <<op.type>> \o LengthPrefixed(op.key)
    \o (IF op.type = TypeValue THEN LengthPrefixed(op.value) ELSE <<>>)

AppendBatch(dst, src) == SetCount(dst, BatchCount(dst) + BatchCount(src)) \o From(src, Header + 1)

\* One record of Iterate: the state with what it gave to the handler.
IterateRecord(st) ==
  LET key == GetLengthPrefixedSlice(Tail(st.input))
      value == GetLengthPrefixedSlice(key.rest)
      handled(v, rest) ==
        [st EXCEPT !.input = rest, !.halt = rest = <<>>,
                   !.ops = Append(@, [type |-> Head(st.input), key |-> key.value, value |-> v])]
      bad == [st EXCEPT !.ok = FALSE, !.halt = TRUE]
  IN  IF Head(st.input) \notin {TypeValue, TypeDeletion} \/ ~key.ok THEN bad
      ELSE IF Head(st.input) = TypeDeletion THEN handled(<<>>, key.rest)
      ELSE IF value.ok THEN handled(value.value, value.rest) ELSE bad

\* The operations the handler gets, before the status is known.
IterateRecords(b) ==
  LET input == From(b, Header + 1)
  IN  Iterate(IterateRecord, [input |-> input, ops |-> <<>>, ok |-> TRUE, halt |-> input = <<>>])

BatchIterate(b) ==
  IF Len(b) < Header THEN [ok |-> FALSE, ops |-> <<>>]
  ELSE LET done == IterateRecords(b)
       IN  [ok |-> done.ok /\ Len(done.ops) = BatchCount(b), ops |-> done.ops]

-----------------------------------------------------------------------------
(* Internal keys and the entries of a memtable. *)

PackSequenceAndType(seq, type) == ((seq * Byte) % Word(Long)) + type
InternalKey(user, seq, type) == user \o EncodeFixed(PackSequenceAndType(seq, type), Long)
UserKeyOf(ikey) == SubSeq(ikey, 1, Len(ikey) - Long)
TagOf(ikey) == DecodeFixed(ikey, Len(ikey) - Long + 1, Long)

\* BytewiseComparatorImpl::KeyNum: the first bytes, the first one highest.
KeyNumOf(user) ==
  Weighted([i \in 1 .. Long |-> IF Long - i + 1 <= Len(user) THEN user[Long - i + 1] ELSE 0], Byte)

\* The entry MemTable::Add writes, and the length it allocates for it.
EncodedEntry(seq, op) ==
  EncodeVarint32(Len(op.key) + Long) \o InternalKey(op.key, seq, op.type) \o LengthPrefixed(op.value)

EncodedLength(op) ==
  VarintLength(Len(op.key) + Long) + Len(op.key) + Long + VarintLength(Len(op.value)) + Len(op.value)

EntryKey(entry) == GetLengthPrefixedSlice(entry).value
EntryValue(entry) == GetLengthPrefixedSlice(GetLengthPrefixedSlice(entry).rest).value

\* InternalKeyComparator::Compare of the keys of two entries; a list compares
\* KeyNum first (SkipList).
EntryLess(a, b) ==
  LET x == UserKeyOf(EntryKey(a))
      y == UserKeyOf(EntryKey(b))
  IN  \/ KeyNumOf(x) < KeyNumOf(y)
      \/ BytesLess(x, y)
      \/ x = y /\ TagOf(EntryKey(a)) > TagOf(EntryKey(b))

\* LookupKey, with kValueTypeForSeek.
Lookup(user, seq) == EncodeVarint32(Len(user) + Long) \o InternalKey(user, seq, TypeValue)

NotThere == [found |-> FALSE]

MemGet(user, seq) ==
  LET from == {e \in memtable : ~EntryLess(e, Lookup(user, seq))}
      first == CHOOSE e \in from : \A f \in from : ~EntryLess(f, e)
  IN  IF from = {} \/ UserKeyOf(EntryKey(first)) # user THEN NotThere
      ELSE [found |-> TRUE, type |-> TagOf(EntryKey(first)) % Byte, value |-> EntryValue(first)]

\* WriteBatchInternal::InsertInto: MemTableInserter adds what it is handed.
InsertInto(b, table) ==
  LET ops == BatchIterate(b).ops
  IN  table \cup {EncodedEntry(Sequence(b) + i - 1, ops[i]) : i \in DOMAIN ops}

-----------------------------------------------------------------------------
(* A database of one memtable and one log. *)

BatchInit ==
  /\ batches = <<EmptyBatch, EmptyBatch>>
  /\ wanted = <<<<>>, <<>>>>
  /\ records = <<>>
  /\ memtable = {}
  /\ applied = <<>>
  /\ lastSeq \in BatchStarts

Given == Len(wanted[1]) + Len(wanted[2]) + Len(applied)

BatchAdd(i, op) ==
  /\ Given < BatchOps
  /\ batches' = [batches EXCEPT ![i] = BatchWith(@, op)]
  /\ wanted' = [wanted EXCEPT ![i] = Append(@, op)]
  /\ UNCHANGED <<records, memtable, applied, lastSeq>>

BatchAppend ==
  /\ wanted[2] # <<>>
  /\ Given + Len(wanted[2]) <= BatchOps
  /\ batches' = [batches EXCEPT ![1] = AppendBatch(@, batches[2])]
  /\ wanted' = [wanted EXCEPT ![1] = @ \o wanted[2]]
  /\ UNCHANGED <<records, memtable, applied, lastSeq>>

BatchClear ==
  /\ batches' = [batches EXCEPT ![2] = EmptyBatch]
  /\ wanted' = [wanted EXCEPT ![2] = <<>>]
  /\ UNCHANGED <<records, memtable, applied, lastSeq>>

\* Mutant: the record is logged before the batch has its sequence number.
WriteLogsFirst(seq) == [logged |-> batches[1], inserted |-> SetSequence(batches[1], seq)]

\* What Write logs, and what it inserts.
Stamped(seq) == [logged |-> SetSequence(batches[1], seq), inserted |-> SetSequence(batches[1], seq)]

\* DBImpl::Write of the first batch, which the client then clears for the next.
BatchWrite ==
  LET s == Stamped(lastSeq + 1)
  IN  /\ wanted[1] # <<>>
      /\ records' = Append(records, s.logged)
      /\ memtable' = InsertInto(s.inserted, memtable)
      /\ applied' = applied \o [i \in DOMAIN wanted[1] |-> <<lastSeq + i, wanted[1][i]>>]
      /\ lastSeq' = lastSeq + BatchCount(batches[1])
      /\ batches' = [batches EXCEPT ![1] = EmptyBatch]
      /\ wanted' = [wanted EXCEPT ![1] = <<>>]

BatchOp ==
  [type : {TypeValue}, key : BatchKeys, value : BatchValues]
    \cup [type : {TypeDeletion}, key : BatchKeys, value : {<<>>}]

BatchNext ==
  \/ \E i \in 1 .. 2, op \in BatchOp : BatchAdd(i, op)
  \/ BatchAppend
  \/ BatchClear
  \/ BatchWrite

-----------------------------------------------------------------------------
(* Version edits.  A field that is not set is empty, a set one has its value. *)

TagComparator == 1
TagLogNumber == 2
TagNextFile == 3
TagLastSequence == 4
TagCompactPointer == 5
TagDeletedFile == 6
TagNewFile == 7
TagPrevLog == 9

Scalars == {"comparator", "log", "prev", "next", "last"}

TagOfScalar ==
  [comparator |-> TagComparator, log |-> TagLogNumber, prev |-> TagPrevLog,
   next |-> TagNextFile, last |-> TagLastSequence]

\* Clear leaves compact_pointers_ alone.
ClearEdit(e) ==
  [e EXCEPT !.set = [f \in Scalars |-> <<>>], !.deleted = {}, !.new = <<>>]

NewEdit == [set |-> [f \in Scalars |-> <<>>], pointers |-> <<>>, deleted |-> {}, new |-> <<>>]

PairLess(p, q) == p[1] < q[1] \/ (p[1] = q[1] /\ p[2] < q[2])

EncodeNewFile(f) ==
  EncodeVarint32(TagNewFile) \o EncodeVarint32(f[1]) \o EncodeVarint64[f[2]] \o EncodeVarint64[f[3]]
    \o LengthPrefixed(f[4]) \o LengthPrefixed(f[5])

EncodeTo(e) ==
  LET scalar(f) ==
        IF e.set[f] = <<>> THEN <<>>
        ELSE EncodeVarint32(TagOfScalar[f])
               \o (IF f = "comparator" THEN LengthPrefixed(e.set[f][1])
                   ELSE EncodeVarint64[e.set[f][1]])
      pointer(p) == EncodeVarint32(TagCompactPointer) \o EncodeVarint32(p[1]) \o LengthPrefixed(p[2])
      deleted(d) == EncodeVarint32(TagDeletedFile) \o EncodeVarint32(d[1]) \o EncodeVarint64[d[2]]
      each(Encode(_), items) == FlattenSeq([i \in DOMAIN items |-> Encode(items[i])])
  IN  each(scalar, <<"comparator", "log", "prev", "next", "last">>)
        \o each(pointer, e.pointers)
        \o each(deleted, SetToSortSeq(e.deleted, PairLess))
        \o each(EncodeNewFile, e.new)

GetLevel(s) == LET v == GetVarint32(s) IN IF v.ok /\ v.value < EditLevels THEN v ELSE Failed

\* The parsers of one entry, one after the other; the values they found.
InTurn(parsers, s) ==
  LET parse(p, rest) ==
        CASE p = "level" -> GetLevel(rest)
          [] p = "number" -> GetVarint64(rest)
          [] p = "slice" -> GetLengthPrefixedSlice(rest)
      add(acc, got) ==
        IF got.ok THEN Parsed(Append(acc.value, got.value), got.rest) ELSE Failed
      next(acc, p) == IF acc.ok THEN add(acc, parse(p, acc.rest)) ELSE Failed
      after[i \in 0 .. Len(parsers)] ==
        IF i = 0 THEN Parsed(<<>>, s) ELSE next(after[i - 1], parsers[i])
  IN  after[Len(parsers)]

LayoutOf(tag) ==
  CASE tag = TagComparator -> <<"slice">>
    [] tag = TagCompactPointer -> <<"level", "slice">>
    [] tag = TagDeletedFile -> <<"level", "number">>
    [] tag = TagNewFile -> <<"level", "number", "number", "slice", "slice">>
    [] OTHER -> <<"number">>

Tags == {TagOfScalar[f] : f \in Scalars} \cup {TagCompactPointer, TagDeletedFile, TagNewFile}

WithEntry(e, tag, v) ==
  CASE tag = TagCompactPointer -> [e EXCEPT !.pointers = Append(@, v)]
    [] tag = TagDeletedFile -> [e EXCEPT !.deleted = @ \cup {v}]
    [] tag = TagNewFile -> [e EXCEPT !.new = Append(@, v)]
    [] OTHER -> [e EXCEPT !.set[CHOOSE f \in Scalars : TagOfScalar[f] = tag] = v]

\* One turn of the loop of DecodeFrom.
DecodeEntry(st) ==
  LET tag == GetVarint32(st.input)
      entry == InTurn(LayoutOf(tag.value), tag.rest)
      bad == [st EXCEPT !.ok = FALSE, !.halt = TRUE]
  IN  IF ~tag.ok THEN [st EXCEPT !.ok = st.input = <<>>, !.halt = TRUE]
      ELSE IF tag.value \notin Tags THEN bad
      ELSE IF entry.ok
           THEN [st EXCEPT !.input = entry.rest, !.e = WithEntry(@, tag.value, entry.value)]
           ELSE bad

DecodeFrom(src, e) ==
  Iterate(DecodeEntry, [input |-> src, e |-> ClearEdit(e), ok |-> TRUE, halt |-> FALSE])

EditInit == edit = NewEdit /\ fields = 0

EditChange(e) == fields < EditFields /\ edit' = e /\ fields' = fields + 1

SetScalar(f, v) == EditChange([edit EXCEPT !.set[f] = <<v>>])
SetCompactPointer(level, k) == EditChange(WithEntry(edit, TagCompactPointer, <<level, k>>))
DeleteFileVer(level, n) == EditChange(WithEntry(edit, TagDeletedFile, <<level, n>>))
AddFile(level, n, size, smallest, largest) ==
  EditChange(WithEntry(edit, TagNewFile, <<level, n, size, smallest, largest>>))

EditNext ==
  \/ \E f \in Scalars \ {"comparator"}, n \in EditNumbers : SetScalar(f, n)
  \/ \E k \in EditKeys : SetScalar("comparator", k)
  \/ \E level \in 0 .. EditLevels - 1 :
       \/ \E k \in EditKeys : SetCompactPointer(level, k)
       \/ \E n \in EditNumbers : DeleteFileVer(level, n)
       \/ \E n \in EditNumbers, size \in EditSizes, a, b \in EditKeys : AddFile(level, n, size, a, b)

-----------------------------------------------------------------------------
(* A batch read back gives the operations it was given, in their order,        *)
(* whatever was appended to it or cleared from it (WriteBatch::Iterate).       *)
BatchExact ==
  \A i \in 1 .. 2 :
    \/ wanted[i] = <<>> /\ batches[i] = EmptyBatch
    \/ BatchIterate(batches[i]) = [ok |-> TRUE, ops |-> wanted[i]]

(* The last record of the log, had it lost its end, would be refused by        *)
(* Iterate, and what the handler was given before that would be the beginning *)
(* of what was written.                                                        *)
CutBatchRefused ==
  records # <<>> =>
    LET r == Last(records)
        whole == BatchIterate(r).ops
    IN  \A n \in 0 .. Len(r) - 1 :
          LET cut == BatchIterate(SubSeq(r, 1, n)) IN ~cut.ok /\ IsPrefix(cut.ops, whole)

(* MemTable::Get finds, for a key and a snapshot, the last operation on the    *)
(* key that the snapshot covers, though keys share the bytes KeyNum looks at,  *)
(* one is the beginning of another, and lengths take more than one byte.       *)
MemGetNewest ==
  \A user \in BatchKeys, seq \in {applied[i][1] : i \in DOMAIN applied} :
    LET seen == {i \in DOMAIN applied : applied[i][1] <= seq /\ applied[i][2].key = user}
        op == applied[Max(seen)][2]
    IN  MemGet(user, seq) =
          IF seen = {} THEN NotThere ELSE [found |-> TRUE, type |-> op.type, value |-> op.value]

(* The records of the log, inserted again into an empty memtable by            *)
(* RecoverLogFile, give the memtable that was lost.                            *)
LogRebuildsMem == FoldLeft(LAMBDA table, r : InsertInto(r, table), {}, records) = memtable

(* MemTable::Add fills exactly what it allocated: EncodeVarint32, which picks   *)
(* its length by cases, writes as many bytes as VarintLength counted.          *)
EntriesFit ==
  \A i \in DOMAIN applied :
    LET op == applied[i][2] IN Len(EncodedEntry(applied[i][1], op)) = EncodedLength(op)

(* Batches as a whole: what a client puts in is what a reader and recovery get. *)
BatchSound == BatchExact /\ CutBatchRefused /\ MemGetNewest /\ LogRebuildsMem /\ EntriesFit

(* A version edit read back from a manifest is the edit that was written.      *)
EditExact ==
  \/ edit = NewEdit
  \/ LET read == DecodeFrom(EncodeTo(edit), NewEdit) IN read.ok /\ read.e = edit

(* An edit that lost its end is refused or has a part of what was written: no   *)
(* field, file or pointer of it is one that the edit did not have.              *)
CutEditInventsNothing ==
  edit # NewEdit =>
    LET src == EncodeTo(edit)
    IN  \A n \in 0 .. Len(src) - 1 :
          LET read == DecodeFrom(SubSeq(src, 1, n), NewEdit).e
          IN  /\ \A f \in Scalars : read.set[f] \in {<<>>, edit.set[f]}
              /\ IsPrefix(read.pointers, edit.pointers)
              /\ read.deleted \subseteq edit.deleted
              /\ IsPrefix(read.new, edit.new)

(* Version edits as a whole: written and read back, whole or cut off.           *)
EditSound == EditExact /\ CutEditInventsNothing
=============================================================================
