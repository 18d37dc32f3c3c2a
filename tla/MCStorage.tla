------------------------------ MODULE MCStorage ------------------------------
(***************************************************************************)
(* The components that keep and find the data, for TLC: levels of tables,   *)
(* recovery and repair, replay iterators, the log format, the table format, *)
(* iterators, the cache, what is written as bytes, and the .NET binding.    *)
(* Each is checked on its own; subject says whose behaviour it is.          *)
(***************************************************************************)
EXTENDS MCLevels, Recovery, MCReplay, LogFormat, TableFormat, Iterators, LruCache,
        Codec, Binding

VARIABLE subject

all == <<levelVars, recVars, replayVars, logVars, tableVars, iterVars, cacheVars,
         batchVars, editVars, handleVars, array, subject>>

-----------------------------------------------------------------------------
(* Table format: keys of one and two digits to the base 4, blocks of a few    *)
(* entries, filters for a part of a block, one block and several.             *)

MCTableKeys == {<<0>>, <<0, 0>>, <<0, 3>>, <<1, 2>>, <<1, 3>>, <<3, 3>>}

MCHash(k) == (IF Len(k) = 1 THEN 7 * k[1] + 3 ELSE 11 * k[1] + 5 * k[2] + 1) % 32

MCLayouts ==
  {[block |-> 18, interval |-> 1, base |-> 16, bitsPerKey |-> 3],
   [block |-> 26, interval |-> 2, base |-> 32, bitsPerKey |-> 3],
   [block |-> 60, interval |-> 2, base |-> 64, bitsPerKey |-> 5]}

(* Iterators: histories of three operations, the first a put, spread over two *)
(* sources.                                                                   *)

\* The entries of one source, cut into blocks of n entries.
MCCut(entries, n) ==
  LET s == SetToSortSeq(entries, Precedes)
      count == (Len(s) + n - 1) \div n
  IN  [b \in 1 .. count |-> SubSeq(s, (b - 1) * n + 1, IF b * n < Len(s) THEN b * n ELSE Len(s))]

MCHistories == {h \in [1 .. 3 -> CursorKeys \X BOOLEAN] : ~h[1][2]}

MCSpread(h, first, n) ==
  LET entries == {<<h[i][1], i, h[i][2]>> : i \in DOMAIN h}
  IN  <<MCCut({e \in entries : e[2] \in first}, n), MCCut({e \in entries : e[2] \notin first}, 1)>>

MCDatasets ==
  {[sources |-> MCSpread(h, first, n), bad |-> {}, loose |-> n = 1] :
     h \in MCHistories, first \in {{1}, {2}, {1, 2}, {1, 3}}, n \in 1 .. 2}
  \cup
  {[sources |-> MCSpread(h, {1, 3}, 1), bad |-> bad, loose |-> FALSE] :
     h \in MCHistories, bad \in {{<<1, 1>>}, {<<1, 2>>}, {<<2, 1>>}}}

(* Cache: an entry may be as large as the cache. *)

MCCharge == [k \in CacheKeys |-> k]

(* Bytes of 4 bits: keys that are empty and that share what KeyNum sees, and    *)
(* lengths of one and of two varint bytes.                                      *)

MCBatchKeys == {<<>>, <<1, 15, 0, 2>>, <<1, 15, 0, 2, 7>>}
MCBatchValues == {<<9, 0, 1, 2, 3, 4, 5, 15, 8>>}
MCEditKeys == {<<0, 1, 0, 0, 0>>, <<9, 8, 15, 1, 1, 0, 3, 7, 15>>}

(* Binding: one part stands for the cache, the comparator and the logger. *)

MCParts == <<"cache">>

-----------------------------------------------------------------------------
OneBound == CHOOSE b \in SmallBounds : TRUE
OneLayout == CHOOSE l \in MCLayouts : TRUE
OneDataset == CHOOSE d \in MCDatasets : TRUE

Subjects == {"levels", "recovery", "replay", "log", "table", "iterators", "cache",
             "batches", "edits", "handles", "arrays"}

\* A component that is not the subject has one initial state.
StorageInit ==
  /\ subject \in Subjects
  /\ LevelsInit /\ (subject = "levels" \/ bound = OneBound)
  /\ TableInit /\ (subject = "table" \/ layout = OneLayout)
  /\ ItersInit /\ (subject = "iterators" \/ (dataset = OneDataset /\ cursor.seq = 2))
  /\ BindInit /\ (subject = "handles" \/ ~managed["cache"].held)
  /\ ReplayInit /\ (subject = "replay" \/ rdb.plan = OneReplayPlan)
  /\ RecInit /\ LogInit /\ CacheInit /\ BatchInit /\ EditInit /\ ArrayInit

Turn(s) ==
  /\ subject = s
  /\ UNCHANGED subject
  /\ IF s = "levels" THEN TRUE ELSE UNCHANGED levelVars
  /\ IF s = "recovery" THEN TRUE ELSE UNCHANGED recVars
  /\ IF s = "replay" THEN TRUE ELSE UNCHANGED replayVars
  /\ IF s = "log" THEN TRUE ELSE UNCHANGED logVars
  /\ IF s = "table" THEN TRUE ELSE UNCHANGED tableVars
  /\ IF s = "iterators" THEN TRUE ELSE UNCHANGED iterVars
  /\ IF s = "cache" THEN TRUE ELSE UNCHANGED cacheVars
  /\ IF s = "batches" THEN TRUE ELSE UNCHANGED batchVars
  /\ IF s = "edits" THEN TRUE ELSE UNCHANGED editVars
  /\ IF s = "handles" THEN TRUE ELSE UNCHANGED handleVars
  /\ IF s = "arrays" THEN TRUE ELSE UNCHANGED array

StorageNext ==
  \/ Turn("levels") /\ LevelsNext
  \/ Turn("recovery") /\ RecNext
  \/ Turn("replay") /\ ReplayNext
  \/ Turn("log") /\ LogNext
  \/ Turn("table") /\ TableNext
  \/ Turn("iterators") /\ ItersNext
  \/ Turn("cache") /\ CacheNext
  \/ Turn("batches") /\ BatchNext
  \/ Turn("edits") /\ EditNext
  \/ Turn("handles") /\ HandlesNext
  \/ Turn("arrays") /\ ArrayNext

StorageSpec == StorageInit /\ [][StorageNext]_all
=============================================================================
