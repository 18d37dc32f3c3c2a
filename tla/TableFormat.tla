----------------------------- MODULE TableFormat -----------------------------
(***************************************************************************)
(* A table file: written by TableBuilder with BlockBuilder and              *)
(* FilterBlockBuilder, read by Table::InternalGet, Block::Iter and           *)
(* FilterBlockReader (table/*.cc), with the Bloom filter (util/bloom.cc) and *)
(* the shortened index keys (util/comparator.cc, db/dbformat.cc).            *)
(*                                                                         *)
(* A user key is a sequence of bytes.  An internal key is a user key with    *)
(* its sequence number as one more byte.  Offsets in a block count entries;  *)
(* offsets in the file count bytes.                                          *)
(***************************************************************************)
EXTENDS Integers, FiniteSets, Sequences, SequencesExt, Loops, Slices

CONSTANTS
  TableKeys,     \* user keys
  TableSeqs,     \* sequence numbers
  MaxSeq,        \* kMaxSequenceNumber
  MaxByte,       \* 0xff
  TableLimit,    \* entries per table
  Layouts,       \* records: block (block_size), interval
                 \* (block_restart_interval), base (kFilterBase), bitsPerKey
  MinBits,       \* smallest Bloom filter
  HashBits,      \* width of a hash
  HashRotate,    \* by how much delta is h rotated
  BloomHash(_)   \* the hash of a user key

ASSUME TableAssumption == \A s \in TableSeqs : s <= MaxSeq

VARIABLES
  layout,  \* the options the table is built with
  builder, \* the TableBuilder and its file
  added    \* history: the internal keys added

tableVars == <<layout, builder, added>>

-----------------------------------------------------------------------------
(* Keys. *)

ExtractUserKey(k) == Front(k)
Internal(user, seq) == Append(user, seq)

\* InternalKeyComparator::Compare.
KeyLess(a, b) ==
  \/ BytesLess(ExtractUserKey(a), ExtractUserKey(b))
  \/ ExtractUserKey(a) = ExtractUserKey(b) /\ Last(a) > Last(b)

SharedPrefix(a, b) ==
  LET min == IF Len(a) < Len(b) THEN Len(a) ELSE Len(b)
  IN  Max({n \in 0 .. min : SubSeq(a, 1, n) = SubSeq(b, 1, n)})

\* BytewiseComparatorImpl::FindShortestSeparator.
BytesSeparator(start, limit) ==
  LET d == SharedPrefix(start, limit) + 1
  IN  IF d <= Len(start) /\ d <= Len(limit) /\ start[d] < MaxByte /\ start[d] + 1 < limit[d]
      THEN Append(SubSeq(start, 1, d - 1), start[d] + 1)
      ELSE start

\* BytewiseComparatorImpl::FindShortSuccessor.
BytesSuccessor(key) ==
  LET can == {i \in DOMAIN key : key[i] # MaxByte}
  IN  IF can = {} THEN key
      ELSE Append(SubSeq(key, 1, Min(can) - 1), key[Min(can)] + 1)

\* The internal comparators keep a shortened user key with the earliest number.
Shortened(key, short) ==
  IF Len(short) < Len(ExtractUserKey(key)) /\ BytesLess(ExtractUserKey(key), short)
  THEN Internal(short, MaxSeq)
  ELSE key

\* Mutant: a key that was not shortened gets the earliest tag too.
SeparatorTagged(start, limit) ==
  Internal(BytesSeparator(ExtractUserKey(start), ExtractUserKey(limit)), MaxSeq)

FindShortestSeparator(start, limit) ==
  Shortened(start, BytesSeparator(ExtractUserKey(start), ExtractUserKey(limit)))

FindShortSuccessor(key) == Shortened(key, BytesSuccessor(ExtractUserKey(key)))

-----------------------------------------------------------------------------
(* BlockBuilder. *)

EmptyBlock == [buffer |-> <<>>, restarts |-> <<1>>, counter |-> 0, last |-> <<>>, size |-> 0]

BlockAdd(b, key, value, interval) ==
  LET restart == b.counter >= interval
      shared == IF restart THEN 0 ELSE SharedPrefix(b.last, key)
  IN  [buffer |-> Append(b.buffer, [shared |-> shared, delta |-> SubSeq(key, shared + 1, Len(key)),
                                    value |-> value]),
       restarts |-> IF restart THEN Append(b.restarts, Len(b.buffer) + 1) ELSE b.restarts,
       counter |-> IF restart THEN 1 ELSE b.counter + 1,
       last |-> key,
       size |-> b.size + 3 + Len(key) - shared]

CurrentSizeEstimate(b) == b.size + 4 * Len(b.restarts) + 4

-----------------------------------------------------------------------------
(* Block::Iter it on block b: current is the entry, next where ParseNextKey   *)
(* reads, restart the restart index, key the key so far.                      *)

Ended(b, it) == [it EXCEPT !.current = Len(b.buffer) + 1, !.restart = Len(b.restarts) + 1]
ValidIn(b, it) == it.current <= Len(b.buffer)

CorruptionError(b, it) == [Ended(b, it) EXCEPT !.key = <<>>, !.bad = TRUE]

ParseNextKey(b, it) ==
  IF it.next > Len(b.buffer) THEN Ended(b, it)
  ELSE LET e == b.buffer[it.next]
       IN  IF Len(it.key) < e.shared THEN CorruptionError(b, it)
           ELSE [it EXCEPT !.current = it.next, !.next = @ + 1,
                           !.key = SubSeq(@, 1, e.shared) \o e.delta,
                           !.restart = Max({@} \cup {r \in DOMAIN b.restarts :
                                                      r > @ /\ b.restarts[r] < it.next})]

SeekToRestartPoint(b, r) ==
  [current |-> Len(b.buffer) + 1, next |-> b.restarts[r], restart |-> r, key |-> <<>>, bad |-> FALSE]

\* Parses on, at least one entry, while While holds of the entry reached.
ParseWhile(b, start, While(_)) ==
  LET step(s) == LET n == ParseNextKey(b, s.it)
                 IN  [it |-> n, halt |-> ~ValidIn(b, n) \/ ~While(n)]
  IN  Iterate(step, [it |-> start, halt |-> FALSE]).it

\* The binary search of Seek.
RestartBefore(b, target) ==
  LET step(s) ==
        LET mid == (s.left + s.right + 1) \div 2
            t == IF KeyLess(b.buffer[b.restarts[mid]].delta, target)
                 THEN [s EXCEPT !.left = mid] ELSE [s EXCEPT !.right = mid - 1]
        IN  [t EXCEPT !.halt = t.left >= t.right]
      n == Len(b.restarts)
  IN  Iterate(step, [left |-> 1, right |-> n, halt |-> n = 1]).left

BlockSeek(b, target) ==
  LET less(it) == KeyLess(it.key, target)
  IN  ParseWhile(b, SeekToRestartPoint(b, RestartBefore(b, target)), less)

BlockLast(b) ==
  LET more(it) == it.next <= Len(b.buffer)
  IN  ParseWhile(b, SeekToRestartPoint(b, Len(b.restarts)), more)

BlockNext(b, it) == ParseNextKey(b, it)

BlockPrev(b, it) ==
  LET before == {r \in 1 .. it.restart : b.restarts[r] < it.current}
      short(i) == i.next < it.current
  IN  IF before = {} THEN Ended(b, it)
      ELSE ParseWhile(b, SeekToRestartPoint(b, Max(before)), short)

-----------------------------------------------------------------------------
(* FilterBlockBuilder, FilterBlockReader and the Bloom filter. *)

Probes(user, k, bits) ==
  LET h == BloomHash(user)
      delta == h \div 2 ^ HashRotate + (h % 2 ^ HashRotate) * 2 ^ (HashBits - HashRotate)
  IN  {((h + j * delta) % 2 ^ HashBits) % bits : j \in 0 .. k - 1}

ProbesOf(bitsPerKey) ==
  LET k == (bitsPerKey * 69) \div 100 IN IF k < 1 THEN 1 ELSE IF k > 30 THEN 30 ELSE k

CreateFilter(users) ==
  LET wanted == Len(users) * layout.bitsPerKey
      bits == 8 * (((IF wanted < MinBits THEN MinBits ELSE wanted) + 7) \div 8)
      k == ProbesOf(layout.bitsPerKey)
  IN  [bits |-> bits, k |-> k, on |-> UNION {Probes(users[i], k, bits) : i \in DOMAIN users}]

NoFilter == [bits |-> 0, k |-> 0, on |-> {}]

GenerateFilter(f) ==
  IF f.keys = <<>> THEN [f EXCEPT !.filters = Append(@, NoFilter)]
  ELSE [keys |-> <<>>, filters |-> Append(f.filters, CreateFilter(f.keys))]

StartBlock(f, offset) ==
  LET index == offset \div layout.base
      step(s) == IF index > Len(s.f.filters) THEN [s EXCEPT !.f = GenerateFilter(@)]
                 ELSE [s EXCEPT !.halt = TRUE]
  IN  Iterate(step, [f |-> f, halt |-> FALSE]).f

FinishFilter(f) == IF f.keys = <<>> THEN f ELSE GenerateFilter(f)

KeyMayMatch(filters, offset, user) ==
  LET i == offset \div layout.base + 1
      f == filters[i]
  IN  \/ i > Len(filters)
      \/ f.bits > 0 /\ Probes(user, f.k, f.bits) \subseteq f.on

-----------------------------------------------------------------------------
(* TableBuilder. *)

Trailer == 5

\* WriteRawBlock; the file may refuse the bytes.
WriteBlock(t, size, works) ==
  IF works THEN [t EXCEPT !.offset = @ + size + Trailer] ELSE [t EXCEPT !.ok = FALSE]

\* A file may also fail to flush a block it has taken.
Flush(t, works, flushed) ==
  IF ~t.ok \/ t.data = EmptyBlock THEN t
  ELSE LET w == WriteBlock(t, CurrentSizeEstimate(t.data), works)
           u == [w EXCEPT !.data = EmptyBlock, !.handle = t.offset,
                          !.blocks = IF works THEN Append(@, [at |-> t.offset, block |-> t.data]) ELSE @,
                          !.pending = @ \/ works, !.ok = @ /\ flushed]
       IN  [u EXCEPT !.filter = StartBlock(@, u.offset)]

IndexPending(t, key) ==
  [t EXCEPT !.index = BlockAdd(@, key, t.handle, 1), !.pending = FALSE]

TableAdd ==
  /\ ~builder.closed /\ Len(added) < TableLimit
  /\ \E user \in TableKeys, seq \in TableSeqs, works, flushed \in BOOLEAN :
       LET key == Internal(user, seq)
           i == IF builder.pending
                THEN IndexPending(builder, FindShortestSeparator(builder.last, key)) ELSE builder
           d == [i EXCEPT !.filter.keys = Append(@, user), !.last = key,
                          !.data = BlockAdd(@, key, seq, layout.interval)]
       IN  /\ added # <<>> => KeyLess(Last(added), key)
           /\ added' = Append(added, key)
           /\ builder' = IF ~builder.ok THEN builder
                         ELSE IF CurrentSizeEstimate(d.data) >= layout.block THEN Flush(d, works, flushed)
                         ELSE d
  /\ UNCHANGED layout

\* Finish: the last block, the filter, the metaindex, the index and the footer.
TableFinish ==
  /\ ~builder.closed
  /\ \E works, flushed, rest \in BOOLEAN :
       LET f == Flush(builder, works, flushed)
           i == IF f.pending THEN IndexPending(f, FindShortSuccessor(f.last)) ELSE f
       IN  builder' = [(IF f.ok /\ rest THEN i ELSE f) EXCEPT
                         !.closed = TRUE, !.ok = f.ok /\ rest, !.filter = FinishFilter(@)]
  /\ UNCHANGED <<layout, added>>

TableInit ==
  /\ layout \in Layouts
  /\ builder = [ok |-> TRUE, closed |-> FALSE, data |-> EmptyBlock, index |-> EmptyBlock,
                blocks |-> <<>>, offset |-> 0, pending |-> FALSE, handle |-> 0, last |-> <<>>,
                filter |-> [keys |-> <<>>, filters |-> <<>>]]
  /\ added = <<>>

TableNext == TableAdd \/ TableFinish

TableSpec == TableInit /\ [][TableNext]_tableVars

-----------------------------------------------------------------------------
(* Table. *)

BlockAt(t, offset) == (CHOOSE b \in Range(t.blocks) : b.at = offset).block

\* InternalGet with the saver of Version::Get: the key found, if it is the user's.
InternalGet(t, target) ==
  LET at == BlockSeek(t.index, target)
      offset == t.index.buffer[at.current].value
      hit == BlockSeek(BlockAt(t, offset), target)
  IN  IF ~ValidIn(t.index, at) \/ ~KeyMayMatch(t.filter.filters, offset, ExtractUserKey(target))
      THEN <<>>
      ELSE IF ValidIn(BlockAt(t, offset), hit) /\ ExtractUserKey(hit.key) = ExtractUserKey(target)
      THEN hit.key ELSE <<>>

\* The bytes of the filter block: filters, their offsets, and where those begin.
FilterSize(filters) ==
  FoldLeft(LAMBDA sum, f : sum + (IF f.bits > 0 THEN f.bits \div 8 + 1 ELSE 0), 0, filters)
    + 4 * Len(filters) + 5

\* Past the last key it is the metaindex block, which follows the filter block.
ApproximateOffsetOf(t, target) ==
  LET at == BlockSeek(t.index, target)
  IN  IF ValidIn(t.index, at) THEN t.index.buffer[at.current].value
      ELSE t.offset + FilterSize(t.filter.filters) + Trailer

-----------------------------------------------------------------------------
(* Properties. *)

TableComplete == builder.closed /\ builder.ok
Targets == {Internal(u, s) : u \in TableKeys, s \in TableSeqs}
BlockStart(n) == LET sizes[i \in 0 .. n - 1] == IF i = 0 THEN 0
                       ELSE LET r == sizes[i - 1] IN r + Len(builder.blocks[i].block.buffer)
                 IN  sizes[n - 1]

\* In every block of a table, a search ends at the first key not before the
\* target, whatever is shared and wherever the restart points fall; from
\* there, and from the last entry, Prev and Next reach the neighbours, with
\* their whole keys.
BlockCursorExact ==
  TableComplete => \A n \in DOMAIN builder.blocks :
    LET b == builder.blocks[n].block
        size == Len(b.buffer)
        key(p) == added[BlockStart(n) + p]
        shows(it, p) == it.current = p /\ it.key = key(p)
    IN  /\ shows(BlockLast(b), size)
        /\ \A t \in Targets :
             LET from == {p \in 1 .. size : ~KeyLess(key(p), t)}
                 it == BlockSeek(b, t)
                 p == Min(from)
             IN  IF from = {} THEN ~ValidIn(b, it)
                 ELSE /\ shows(it, p)
                      /\ IF p = 1 THEN ~ValidIn(b, BlockPrev(b, it))
                         ELSE shows(BlockPrev(b, it), p - 1) /\ shows(BlockNext(b, BlockPrev(b, it)), p)
                      /\ IF p = size THEN ~ValidIn(b, BlockNext(b, it))
                         ELSE shows(BlockNext(b, it), p + 1)

\* A lookup at a sequence number finds the newest entry of the user key that
\* is not newer, whenever the table holds one: neither a shortened index key
\* nor the filter of the block hides it; and it finds nothing else.
LookupExact ==
  TableComplete => \A u \in TableKeys, s \in TableSeqs :
    LET seen == {k \in Range(added) : ExtractUserKey(k) = u /\ Last(k) <= s}
        newest == CHOOSE k \in seen : \A x \in seen : Last(x) <= Last(k)
    IN  InternalGet(builder, Internal(u, s)) = IF seen = {} THEN <<>> ELSE newest

\* Approximate offsets never go backwards as keys go up, and stay within the
\* data: VersionSet::ApproximateOffsetOf and GetApproximateSizes subtract them.
OffsetsMonotone ==
  TableComplete =>
    /\ \A a, b \in Targets :
         KeyLess(a, b) => ApproximateOffsetOf(builder, a) <= ApproximateOffsetOf(builder, b)
    /\ \A i \in DOMAIN added : ApproximateOffsetOf(builder, added[i]) < builder.offset

\* The table as a whole: every way to read it agrees with what was added.
TableSound == BlockCursorExact /\ LookupExact /\ OffsetsMonotone
=============================================================================
