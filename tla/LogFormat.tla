------------------------------ MODULE LogFormat ------------------------------
(***************************************************************************)
(* The log format (db/log_writer.cc, db/log_reader.cc).  Several threads     *)
(* add records at once: each reserves the bytes of its record with a          *)
(* compare-and-swap of offset_ and then writes its fragments, header and      *)
(* payload one after the other, with WriteAt.  The file may be read back      *)
(* after a crash between any two of these writes.                             *)
(*                                                                         *)
(* The file is the set of writes done so far; bytes nobody wrote are zero.    *)
(* The payload of a fragment is known by its record and place.                *)
(***************************************************************************)
EXTENDS Integers, FiniteSets, Sequences, SequencesExt

CONSTANTS
  BlockSize,   \* kBlockSize
  HeaderSize,  \* kHeaderSize
  Adders,      \* threads that call AddRecord, once each
  Sizes,       \* sizes of the records
  MaxBadWrites \* how many WriteAt may fail

ASSUME LogAssumption ==
  /\ HeaderSize \in Nat \ {0} /\ BlockSize \in Nat /\ BlockSize > HeaderSize
  /\ Sizes \subseteq Nat

VARIABLES
  tail,    \* offset_ of the writer
  adder,   \* AddRecord of each thread
  order,   \* history: the threads in the order of their reservations
  file     \* the writes that reached the file

logVars == <<tail, adder, order, file>>

LogInit ==
  /\ tail = 0
  /\ adder = [a \in Adders |-> [pc |-> "idle"]]
  /\ order = <<>>
  /\ file = {}

-----------------------------------------------------------------------------
(* AddRecord. *)

Left(offset) == BlockSize - (offset % BlockSize)

\* Where a record that is reserved at offset begins: not in a block's trailer.
RoundUp(offset) == IF Left(offset) < HeaderSize THEN offset + Left(offset) ELSE offset

\* ComputeRecordSize: the end of a record whose last remain bytes begin at the
\* start of a block.
ComputeRecordSize(start, remain) ==
  LET perBlock == BlockSize - HeaderSize
  IN  start + (remain \div perBlock) * BlockSize + HeaderSize + (remain % perBlock)

RecordEnd(offset, size) ==
  LET start == RoundUp(offset)
  IN  IF HeaderSize + size <= Left(start) THEN start + HeaderSize + size
      ELSE ComputeRecordSize(start + Left(start), size + HeaderSize - Left(start))

Reserve(a) ==
  /\ adder[a].pc = "idle"
  /\ \E n \in Sizes :
       /\ tail' = RecordEnd(tail, n)
       /\ adder' = [adder EXCEPT ![a] = [pc |-> "pad", start |-> tail, size |-> n, offset |-> tail,
                                         left |-> n, part |-> 0, len |-> 0, type |-> "none"]]
  /\ order' = Append(order, a)
  /\ UNCHANGED file

\* The trailer of a block is filled with zeroes, then the fragment is measured.
Fragment(a) ==
  LET r == adder[a]
      pad == IF Left(r.offset) < HeaderSize THEN Left(r.offset) ELSE 0
      at == r.offset + pad
      avail == Left(at) - HeaderSize
      len == IF r.left < avail THEN r.left ELSE avail
      first == r.part = 0
      last == r.left = len
  IN  /\ r.pc = "pad"
      /\ file' = IF pad = 0 THEN file
                 ELSE file \cup {[at |-> r.offset, len |-> pad, kind |-> "zero"]}
      /\ adder' = [adder EXCEPT ![a] = [r EXCEPT !.pc = "head", !.offset = at, !.len = len,
                     !.type = IF first /\ last THEN "full" ELSE IF first THEN "first"
                              ELSE IF last THEN "last" ELSE "middle"]]
      /\ UNCHANGED <<tail, order>>

\* EmitPhysicalRecordAt: the header first ...
WriteHeader(a) ==
  LET r == adder[a]
  IN  /\ r.pc = "head"
      /\ file' = file \cup {[at |-> r.offset, len |-> HeaderSize, kind |-> "head", type |-> r.type,
                             size |-> r.len, data |-> <<a, r.part>>]}
      /\ adder' = [adder EXCEPT ![a].pc = "data"]
      /\ UNCHANGED <<tail, order>>

\* ... then the payload.
WritePayload(a) ==
  LET r == adder[a]
  IN  /\ r.pc = "data"
      /\ file' = file \cup {[at |-> r.offset + HeaderSize, len |-> r.len, kind |-> "data",
                             data |-> <<a, r.part>>]}
      /\ adder' = [adder EXCEPT ![a] =
           IF r.left = r.len THEN [r EXCEPT !.pc = "done", !.offset = @ + HeaderSize + r.len]
           ELSE [r EXCEPT !.pc = "pad", !.offset = @ + HeaderSize + r.len,
                          !.left = @ - r.len, !.part = @ + 1]]
      /\ UNCHANGED <<tail, order>>

\* A failed WriteAt ends AddRecord; what it reserved stays reserved.
WriteAtFails(a) ==
  /\ adder[a].pc \in {"head", "data"}
  /\ Cardinality({b \in Adders : adder[b].pc = "failed"}) < MaxBadWrites
  /\ adder' = [adder EXCEPT ![a].pc = "failed"]
  /\ UNCHANGED <<tail, order, file>>

LogNext ==
  \E a \in Adders :
    Reserve(a) \/ Fragment(a) \/ WriteHeader(a) \/ WritePayload(a) \/ WriteAtFails(a)

LogSpec == LogInit /\ [][LogNext]_logVars

-----------------------------------------------------------------------------
(* The reader.  Its state: where it is (end_of_buffer_offset_ minus what is   *)
(* left of buffer_), the record it is putting together, the records returned. *)

\* The header at an offset, if one was written there.
HeadersAt(offset) == {w \in file : w.kind = "head" /\ w.at = offset}

Intact(h) == \E w \in file : w.kind = "data" /\ w.data = h.data

NextBlock(offset) == offset + Left(offset)

Fits(at, size, end) == at + HeaderSize + size <= end

\* ReadPhysicalRecord on a file of so many bytes: the type of what is found at
\* r.at, and where to go on.
Physical(r, bytes, initial) ==
  LET at == RoundUp(r.at)
      blockEnd == IF NextBlock(at) < bytes THEN NextBlock(at) ELSE bytes
      heads == HeadersAt(at)
      h == CHOOSE x \in heads : TRUE
  IN  IF at + HeaderSize > bytes THEN [type |-> "eof", at |-> bytes]
      ELSE IF heads = {} THEN [type |-> "bad", at |-> NextBlock(at)]  \* zeroes
      ELSE IF ~Fits(at, h.size, blockEnd)
             THEN [type |-> IF blockEnd = bytes THEN "eof" ELSE "bad", at |-> NextBlock(at)]
      ELSE IF ~Intact(h) THEN [type |-> "bad", at |-> NextBlock(at)]  \* checksum mismatch
      ELSE [type |-> IF at < initial THEN "bad" ELSE h.type, data |-> h.data,
            at |-> at + HeaderSize + h.size, from |-> at]

\* Mutant: a fragment without a first one is taken for a record.
TakesOrphans(r, p) ==
  LET whole == Append(r.scratch, p.data)
  IN  CASE p.type = "full" -> [r EXCEPT !.at = p.at, !.in = FALSE, !.scratch = <<>>,
                                        !.out = Append(@, <<p.data>>)]
        [] p.type = "first" -> [r EXCEPT !.at = p.at, !.in = TRUE, !.scratch = <<p.data>>]
        [] p.type = "middle" -> [r EXCEPT !.at = p.at, !.scratch = whole]
        [] p.type = "last" -> [r EXCEPT !.at = p.at, !.in = FALSE, !.scratch = <<>>,
                                        !.out = Append(@, whole)]
        [] p.type = "bad" -> [r EXCEPT !.at = p.at, !.in = FALSE, !.scratch = <<>>]
        [] p.type = "eof" -> [r EXCEPT !.eof = TRUE]

\* ReadRecord: what one physical record does to the logical one.
Assemble(r, p) ==
  LET whole == Append(r.scratch, p.data)
  IN  CASE p.type = "full" -> [r EXCEPT !.at = p.at, !.in = FALSE, !.scratch = <<>>,
                                        !.out = Append(@, <<p.data>>)]
        [] p.type = "first" -> [r EXCEPT !.at = p.at, !.in = TRUE, !.scratch = <<p.data>>]
        [] p.type = "middle" -> [r EXCEPT !.at = p.at, !.scratch = IF r.in THEN whole ELSE @]
        [] p.type = "last" -> [r EXCEPT !.at = p.at, !.in = FALSE, !.scratch = <<>>,
                                        !.out = IF r.in THEN Append(@, whole) ELSE @]
        [] p.type = "bad" -> [r EXCEPT !.at = p.at, !.in = FALSE, !.scratch = <<>>]
        [] p.type = "eof" -> [r EXCEPT !.eof = TRUE]

\* SkipToInitialBlock.
InitialBlock(initial) ==
  LET within == initial % BlockSize
  IN  initial - within + (IF within > BlockSize - HeaderSize + 1 THEN BlockSize ELSE 0)

\* All records that ReadRecord returns, one after the other.
ReadRecords(bytes, initial) ==
  LET steps == Cardinality(file) + (bytes \div BlockSize) + 2
      after[n \in 0 .. steps] ==
        IF n = 0 THEN [at |-> InitialBlock(initial), in |-> FALSE, scratch |-> <<>>,
                       out |-> <<>>, eof |-> FALSE]
        ELSE LET r == after[n - 1]
             IN  IF r.eof THEN r ELSE Assemble(r, Physical(r, bytes, initial))
  IN  after[steps].out

-----------------------------------------------------------------------------
(* Properties. *)

\* The size of the file: up to the last write, or with the region the
\* environment had allocated.
FileSizes ==
  LET written == Max({0} \cup {w.at + w.len : w \in file})
  IN  {written, NextBlock(written)}

Parts(a) == [i \in 1 .. (adder[a].part + 1) |-> <<a, i - 1>>]

Complete(n) == \A i \in 1 .. n : adder[order[i]].pc = "done"

\* ComputeRecordSize adds a header for what is left even when nothing is: a record
\* that ends with its block has reserved a header of the next block too, and no
\* call writes these bytes.
Holes == {a \in Adders : adder[a].pc = "done" /\ RecordEnd(adder[a].start, adder[a].size) > adder[a].offset}

\* A record with a fragment in a block that begins with such a hole: the reader takes
\* the zeroes for the end of the block.
BehindHole(a) ==
  \E b \in Holes, w \in file :
    /\ w.kind = "head" /\ w.data[1] = a /\ w.at > adder[b].offset
    /\ w.at \div BlockSize = adder[b].offset \div BlockSize

\* The records of some threads that are in no such block.
Unhidden(threads) == SelectSeq(threads, LAMBDA a : ~BehindHole(a))

\* No two writes touch the same byte, and none goes beyond what was reserved,
\* whichever threads add records at the same time.
WritesDisjoint ==
  /\ \A v, w \in file : v = w \/ v.at + v.len <= w.at \/ w.at + w.len <= v.at
  /\ \A w \in file : w.at + w.len <= tail

\* What the reader takes for granted of whatever is in the file: a header is where
\* ReadPhysicalRecord looks for one and its fragment ends within the block, what
\* is left of a block with no room for a header is zero up to the end, and no
\* payload is there without the header that describes it.
FragmentsReadable ==
  \A w \in file :
    /\ w.kind = "head" => HeaderSize + w.size <= Left(w.at)
    /\ w.kind = "zero" => w.len = Left(w.at) /\ w.len < HeaderSize
    /\ w.kind = "data" => \E h \in file : /\ h.kind = "head" /\ h.data = w.data
                                          /\ h.at + HeaderSize = w.at /\ h.size = w.len

\* After a crash between any two writes, the records up to the first that is
\* not complete are all read back, first and in the order of reservation.  The code
\* does not keep this: a hole hides the complete records of its block.
PrefixRecovered ==
  \A n \in 0 .. Len(order), bytes \in FileSizes :
    Complete(n) => IsPrefix([i \in 1 .. n |-> Parts(order[i])], ReadRecords(bytes, 0))

\* What it keeps: of these records exactly those are missing that have a fragment
\* in the block of a hole; a hole costs no record of another block.
OnlyHolesHide ==
  \A n \in 0 .. Len(order), bytes \in FileSizes :
    LET readable == Unhidden(SubSeq(order, 1, n))
    IN  Complete(n) => IsPrefix([i \in DOMAIN readable |-> Parts(readable[i])], ReadRecords(bytes, 0))

\* Whatever is read back is a record that some thread wrote completely, each
\* once and in the order of reservation: no fragments of two records are put
\* together.
NothingInvented ==
  \A bytes \in FileSizes :
    LET out == ReadRecords(bytes, 0)
        from == [i \in DOMAIN out |-> out[i][1][1]]
    IN  /\ \A i \in DOMAIN out : adder[from[i]].pc = "done" /\ out[i] = Parts(from[i])
        /\ \A i, j \in DOMAIN out : i < j => adder[from[i]].start < adder[from[j]].start

\* Reading from an offset returns the complete records that begin there or
\* later (initial_offset), but for those a hole hides.
InitialOffsetRespected ==
  Complete(Len(order)) =>
    \A initial \in 0 .. tail :
      LET wanted == Unhidden(SelectSeq(order, LAMBDA a : RoundUp(adder[a].start) >= initial))
      IN  ReadRecords(tail, initial) = [i \in DOMAIN wanted |-> Parts(wanted[i])]

\* The log as a whole: concurrent AddRecords share no byte; what is read back after a
\* crash, from the beginning or from an offset, was written, and of the records written
\* before the first incomplete one only those are lost that lie in a block that begins
\* with the header ComputeRecordSize reserved for nothing.
LogSound ==
  /\ WritesDisjoint /\ FragmentsReadable
  /\ OnlyHolesHide /\ NothingInvented /\ InitialOffsetRespected
=============================================================================
