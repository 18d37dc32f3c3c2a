----------------------------- MODULE LevelsProofs -----------------------------
(***************************************************************************)
(* Proofs about Levels: DeleteObsoleteFiles never removes a table file that  *)
(* something still needs, whatever the flush, the compaction, a reader and   *)
(* the failures of each do in between, for any number of levels, keys, files *)
(* and faults.                                                               *)
(***************************************************************************)
EXTENDS Levels, TLAPS

-----------------------------------------------------------------------------
(* The inductive invariant. *)

FlushFields == {"pc", "ver", "num", "level"}

CompFields ==
  {"pc", "manual", "move", "level", "in0", "in1", "ver", "snapshot", "rest", "outs"}

\* A file number is given out once: those on disk are below the next one.
Numbered == nextFile \in Nat /\ \A f \in disk : f \in Nat /\ f < nextFile

\* What the flush holds: the version it reads and its output.
FlushHolds(fl, dk, pend) ==
  \/ fl = Idle
  \/ /\ fl.pc # "idle" /\ DOMAIN fl = FlushFields
     /\ FilesOf(fl.ver) \subseteq dk
     /\ fl.num \in pend

\* What the compaction holds: its inputs' version and its outputs.  A trivial
\* move has no outputs of its own but files of that version.
CompHolds(co, dk, pend) ==
  \/ co = Idle
  \/ /\ co.pc # "idle" /\ DOMAIN co = CompFields
     /\ FilesOf(co.ver) \subseteq dk
     /\ IF co.move THEN co.outs \subseteq FilesOf(co.ver) /\ co.rest = {}
                   ELSE co.outs \subseteq pend

ReaderHolds(rd, dk) == rd.pc # "idle" => FilesOf(rd.ver) \subseteq dk

\* Nothing but the flush knows its output before it is installed.
Private(fl, cur, co, rd) ==
  fl.pc # "idle" =>
    /\ fl.num \notin FilesOf(cur) /\ fl.num \notin FilesOf(fl.ver)
    /\ rd.pc # "idle" => fl.num \notin FilesOf(rd.ver)
    /\ co.pc # "idle" => fl.num \notin FilesOf(co.ver) /\ fl.num \notin co.outs

\* The file that reads asked for is one of the current version.
Charged(tc, cur) == tc = NoFile \/ tc[2] \in FilesOf(cur)

LvInv ==
  /\ Numbered
  /\ pending \subseteq disk
  /\ FilesOf(current) \subseteq disk
  /\ FlushHolds(flush, disk, pending)
  /\ CompHolds(comp, disk, pending)
  /\ ReaderHolds(reader, disk)
  /\ Private(flush, current, comp, reader)
  /\ Charged(toCompact, current)

\* The variables the invariant is about.
fileVars == <<disk, nextFile, pending, current, flush, comp, reader, toCompact>>

-----------------------------------------------------------------------------
(* Versions, edits and the sweep. *)

LEMMA NoFiles == FilesOf(EmptyVersion) = {}
BY DEF FilesOf, EmptyVersion, AtLevel

LEMMA FilesAtLevel ==
  ASSUME NEW l, NEW S
  PROVE  FilesOf(AtLevel(l, S)) \subseteq S
BY DEF FilesOf, AtLevel

\* An edit brings in no other files than the ones it adds.
LEMMA FilesEdited ==
  ASSUME NEW v, NEW del, NEW add
  PROVE  FilesOf(Edited(v, del, add)) \subseteq FilesOf(v) \cup FilesOf(add)
BY DEF FilesOf, Edited

\* The sweep spares a set of files that is on disk and live.
LEMMA SweptSpares ==
  ASSUME NEW files, NEW err, NEW versions, NEW pend, NEW S,
         S \subseteq files, S \subseteq LiveFiles(versions, pend)
  PROVE  S \subseteq Swept(files, err, versions, pend)
BY DEF Swept

LEMMA SweptShrinks ==
  ASSUME NEW files, NEW err, NEW versions, NEW pend
  PROVE  Swept(files, err, versions, pend) \subseteq files
BY DEF Swept

LEMMA PendingLives ==
  ASSUME NEW versions, NEW pend
  PROVE  pend \subseteq LiveFiles(versions, pend)
BY DEF LiveFiles

LEMMA VersionLives ==
  ASSUME NEW versions, NEW pend, NEW v \in versions
  PROVE  FilesOf(v) \subseteq LiveFiles(versions, pend)
BY DEF LiveFiles

LEMMA VersionsHold ==
  ASSUME NEW cur, NEW fl, NEW co, NEW rd
  PROVE  /\ cur \in Versions(cur, fl, co, rd)
         /\ fl.pc # "idle" => fl.ver \in Versions(cur, fl, co, rd)
         /\ co.pc # "idle" => co.ver \in Versions(cur, fl, co, rd)
         /\ rd.pc # "idle" => rd.ver \in Versions(cur, fl, co, rd)
BY DEF Versions

LEMMA IdleIsIdle == Idle.pc = "idle"
BY DEF Idle

-----------------------------------------------------------------------------
(* Steps that touch no file. *)

LEMMA LvSame ==
  ASSUME LvInv, UNCHANGED fileVars
  PROVE  LvInv'
BY DEF LvInv, fileVars, Numbered

LEMMA WriteKeeps == ASSUME LvInv, Write PROVE LvInv'
BY LvSame DEF Write, fileVars, background, others

LEMMA SwitchMemKeeps == ASSUME LvInv, SwitchMem PROVE LvInv'
BY LvSame DEF SwitchMem, fileVars, background, others

LEMMA RangeKeeps == ASSUME LvInv, RangeCall \/ RangeArms \/ RangeReturns PROVE LvInv'
BY LvSame DEF RangeCall, RangeArms, RangeReturns, fileVars, store, others

LEMMA SnapshotKeeps ==
  ASSUME LvInv, GetSnapshot \/ ReleaseSnapshot \/ AllowGarbageCollect
  PROVE  LvInv'
BY LvSame DEF GetSnapshot, ReleaseSnapshot, AllowGarbageCollect, fileVars, store, background

-----------------------------------------------------------------------------
(* CompactMemTableThread. *)

\* What is on disk stays there when files are added.
LEMMA HoldsMore ==
  ASSUME NEW dk, NEW dk2, NEW pend, NEW pend2, dk \subseteq dk2, pend \subseteq pend2
  PROVE  /\ \A fl : FlushHolds(fl, dk, pend) => FlushHolds(fl, dk2, pend2)
         /\ \A co : CompHolds(co, dk, pend) => CompHolds(co, dk2, pend2)
         /\ \A rd : ReaderHolds(rd, dk) => ReaderHolds(rd, dk2)
<1>1. ASSUME NEW fl, FlushHolds(fl, dk, pend) PROVE FlushHolds(fl, dk2, pend2)
  BY <1>1 DEF FlushHolds
<1>2. ASSUME NEW co, CompHolds(co, dk, pend) PROVE CompHolds(co, dk2, pend2)
  <2>1. CASE co = Idle
    BY <2>1 DEF CompHolds
  <2>2. CASE co # Idle /\ co.move
    BY <1>2, <2>2 DEF CompHolds
  <2>3. CASE co # Idle /\ ~co.move
    BY <1>2, <2>3 DEF CompHolds
  <2> QED
    BY <2>1, <2>2, <2>3
<1>3. ASSUME NEW rd, ReaderHolds(rd, dk) PROVE ReaderHolds(rd, dk2)
  BY <1>3 DEF ReaderHolds
<1> QED
  BY <1>1, <1>2, <1>3

\* The next number is that of no file.
LEMMA NextIsNew ==
  ASSUME LvInv
  PROVE  /\ nextFile \notin disk
         /\ nextFile \notin FilesOf(current)
         /\ reader.pc # "idle" => nextFile \notin FilesOf(reader.ver)
         /\ flush.pc # "idle" => nextFile \notin FilesOf(flush.ver) /\ nextFile # flush.num
         /\ comp.pc # "idle" => nextFile \notin FilesOf(comp.ver) /\ nextFile \notin comp.outs
<1>1. nextFile \notin disk
  BY DEF LvInv, Numbered
<1>2. FilesOf(current) \subseteq disk /\ pending \subseteq disk
  BY DEF LvInv
<1>3. reader.pc # "idle" => FilesOf(reader.ver) \subseteq disk
  BY DEF LvInv, ReaderHolds
<1>4. flush.pc # "idle" => FilesOf(flush.ver) \subseteq disk /\ flush.num \in pending
  BY IdleIsIdle DEF LvInv, FlushHolds
<1>5. comp.pc # "idle" => FilesOf(comp.ver) \subseteq disk /\ comp.outs \subseteq disk
  <2>1. ASSUME comp.pc # "idle" PROVE FilesOf(comp.ver) \subseteq disk /\ comp.outs \subseteq disk
    <3>1. CASE comp.move
      BY <2>1, <3>1, IdleIsIdle DEF LvInv, CompHolds
    <3>2. CASE ~comp.move
      BY <2>1, <3>2, <1>2, IdleIsIdle DEF LvInv, CompHolds
    <3> QED
      BY <3>1, <3>2
  <2> QED
    BY <2>1
<1> QED
  BY <1>1, <1>2, <1>3, <1>4, <1>5

\* A new file, written by one of the two threads.
LEMMA NumberedMore ==
  ASSUME Numbered, nextFile' = nextFile + 1, disk' = disk \cup {nextFile}
  PROVE  Numbered'
<1>1. nextFile \in Nat /\ nextFile + 1 \in Nat /\ nextFile < nextFile + 1
  BY DEF Numbered
<1>2. ASSUME NEW f \in disk' PROVE f \in Nat /\ f < nextFile'
  BY <1>1 DEF Numbered
<1> QED
  BY <1>1, <1>2 DEF Numbered

LEMMA FlushStartKeeps == ASSUME LvInv, FlushStart PROVE LvInv'
<1>1. /\ nextFile' = nextFile + 1 /\ disk' = disk \cup {nextFile}
      /\ pending' = pending \cup {nextFile}
      /\ flush' = [pc |-> "build", ver |-> current, num |-> nextFile, level |-> 0]
      /\ UNCHANGED <<current, comp, reader, toCompact>>
  BY DEF FlushStart, others
<1>2. Numbered'
  BY <1>1, NumberedMore DEF LvInv
<1>3. disk \subseteq disk' /\ pending \subseteq pending' /\ nextFile \in pending'
  BY <1>1
<1>4. flush'.pc # "idle" /\ DOMAIN flush' = FlushFields /\ flush'.ver = current /\ flush'.num = nextFile
  BY <1>1 DEF FlushFields
<1>5. FlushHolds(flush, disk, pending)'
  BY <1>1, <1>3, <1>4 DEF FlushHolds, LvInv
<1>6. CompHolds(comp, disk, pending)' /\ ReaderHolds(reader, disk)'
  BY <1>1, <1>3, HoldsMore DEF LvInv
<1>7. Private(flush, current, comp, reader)'
  BY <1>1, <1>4, NextIsNew DEF Private
<1> QED
  BY <1>1, <1>2, <1>5, <1>6, <1>7 DEF LvInv

\* The flush lets go of its version, or keeps it, and keeps its output.
LEMMA FlushGoesOn ==
  ASSUME LvInv, flush.pc # "idle", UNCHANGED <<disk, nextFile, pending, current, comp, reader, toCompact>>,
         flush'.pc # "idle", DOMAIN flush' = FlushFields, flush'.num = flush.num,
         flush'.ver \in {flush.ver, EmptyVersion}
  PROVE  LvInv'
<1>1. FilesOf(flush'.ver) \subseteq FilesOf(flush.ver)
  BY NoFiles
<1>2. FilesOf(flush.ver) \subseteq disk /\ flush.num \in pending
  BY IdleIsIdle DEF LvInv, FlushHolds
<1>3. FlushHolds(flush, disk, pending)'
  BY <1>1, <1>2 DEF FlushHolds
<1>4. Private(flush, current, comp, reader)'
  BY <1>1 DEF LvInv, Private
<1>5. Numbered'
  BY DEF LvInv, Numbered
<1> QED
  BY <1>3, <1>4, <1>5 DEF LvInv

LEMMA FlushBuiltKeeps == ASSUME LvInv, FlushBuilt PROVE LvInv'
<1>1. flush.pc # "idle" /\ UNCHANGED <<disk, nextFile, pending, current, comp, reader, toCompact>>
  BY DEF FlushBuilt, store
<1>2. DOMAIN flush = FlushFields
  BY <1>1, IdleIsIdle DEF LvInv, FlushHolds
<1>3. PICK lvl : \E p \in {"log", "wait"} :
        flush' = [[flush EXCEPT !.level = lvl, !.ver = EmptyVersion] EXCEPT !.pc = p]
  BY Zenon DEF FlushBuilt
<1>4. PICK p \in {"log", "wait"} :
        flush' = [[flush EXCEPT !.level = lvl, !.ver = EmptyVersion] EXCEPT !.pc = p]
  BY <1>3, Zenon
<1>5. DOMAIN flush' = FlushFields /\ flush'.pc = p /\ flush'.num = flush.num /\ flush'.ver = EmptyVersion
  <2>1. PICK g : g = flush'
    OBVIOUS
  <2>2. g = [[flush EXCEPT !.level = lvl, !.ver = EmptyVersion] EXCEPT !.pc = p]
    BY <1>4, <2>1
  <2>3. DOMAIN g = FlushFields /\ g.pc = p /\ g.num = flush.num /\ g.ver = EmptyVersion
    BY <1>2, <2>2 DEF FlushFields
  <2> QED
    BY <2>1, <2>3
<1> QED
  BY <1>1, <1>5, FlushGoesOn

LEMMA FlushWakesKeeps == ASSUME LvInv, FlushWakes PROVE LvInv'
<1>1. flush.pc # "idle" /\ UNCHANGED <<disk, nextFile, pending, current, comp, reader, toCompact>>
  BY DEF FlushWakes, store
<1>2. DOMAIN flush = FlushFields
  BY <1>1, IdleIsIdle DEF LvInv, FlushHolds
<1>3. flush' = [flush EXCEPT !.pc = "log"]
  BY DEF FlushWakes
<1>4. DOMAIN flush' = FlushFields /\ flush'.pc = "log" /\ flush'.num = flush.num /\ flush'.ver = flush.ver
  BY <1>2, <1>3 DEF FlushFields
<1> QED
  BY <1>1, <1>4, FlushGoesOn

\* A set of files that is live survives; so does what a thread holds.
LEMMA CompSurvives ==
  ASSUME NEW co, NEW dk, NEW dk2, NEW pend, NEW pend2, CompHolds(co, dk, pend),
         co.pc # "idle" => FilesOf(co.ver) \subseteq dk2,
         co.pc # "idle" => co.outs \cap pend \subseteq pend2
  PROVE  CompHolds(co, dk2, pend2)
<1>1. CASE co = Idle
  BY <1>1 DEF CompHolds
<1>2. CASE co # Idle /\ co.move
  BY <1>2 DEF CompHolds
<1>3. CASE co # Idle /\ ~co.move
  BY <1>3 DEF CompHolds
<1> QED
  BY <1>1, <1>2, <1>3

\* The outputs of the compaction are on disk.
LEMMA OutsOnDisk ==
  ASSUME LvInv, comp.pc # "idle"
  PROVE  /\ FilesOf(comp.ver) \subseteq disk /\ comp.outs \subseteq disk /\ DOMAIN comp = CompFields
         /\ comp.move => comp.outs \subseteq FilesOf(comp.ver) /\ comp.rest = {}
         /\ ~comp.move => comp.outs \subseteq pending
<1>1. pending \subseteq disk
  BY DEF LvInv
<1>2. FilesOf(comp.ver) \subseteq disk /\ DOMAIN comp = CompFields
  BY IdleIsIdle DEF LvInv, CompHolds
<1>3. CASE comp.move
  BY <1>2, <1>3, IdleIsIdle DEF LvInv, CompHolds
<1>4. CASE ~comp.move
  BY <1>1, <1>2, <1>4, IdleIsIdle DEF LvInv, CompHolds
<1> QED
  BY <1>3, <1>4

LEMMA FlushOnDisk ==
  ASSUME LvInv, flush.pc # "idle"
  PROVE  /\ FilesOf(flush.ver) \subseteq disk /\ flush.num \in pending /\ flush.num \in disk
         /\ DOMAIN flush = FlushFields
BY IdleIsIdle DEF LvInv, FlushHolds

\* Fewer files on disk, the numbers as before.
LEMMA NumberedLess ==
  ASSUME Numbered, UNCHANGED nextFile, disk' \subseteq disk
  PROVE  Numbered'
BY DEF Numbered

LEMMA FlushInstallsKeeps == ASSUME LvInv, FlushInstalls PROVE LvInv'
<1> DEFINE v == FlushedVersion(flush)
           pend == pending \ {flush.num}
           live == Versions(v, Idle, comp, reader)
<1>1. flush.pc # "idle" /\ UNCHANGED <<nextFile, comp, reader>>
  BY DEF FlushInstalls, others
<1>2. /\ current' = v /\ toCompact' = NoFile /\ pending' = pend /\ flush' = Idle
      /\ disk' = Swept(disk, bgError, live, pend)
  BY DEF FlushInstalls, LogEnds
<1>3. FilesOf(v) \subseteq FilesOf(current) \cup {flush.num}
  BY FilesEdited, FilesAtLevel DEF FlushedVersion
<1> HIDE DEF v
<1>4. flush.num \in disk /\ FilesOf(current) \subseteq disk /\ pending \subseteq disk
  BY <1>1, FlushOnDisk DEF LvInv
<1>5. FilesOf(v) \subseteq disk'
  <2>1. v \in live
    BY VersionsHold
  <2>2. FilesOf(v) \subseteq LiveFiles(live, pend)
    BY <2>1, VersionLives
  <2>3. FilesOf(v) \subseteq disk
    BY <1>3, <1>4
  <2> QED
    BY <1>2, <2>2, <2>3, SweptSpares
<1>6. pend \subseteq disk'
  <2>1. pend \subseteq disk
    BY <1>4
  <2> QED
    BY <1>2, <2>1, PendingLives, SweptSpares
<1>7. ASSUME comp.pc # "idle" PROVE FilesOf(comp.ver) \subseteq disk'
  <2>1. comp.ver \in live
    BY <1>7, VersionsHold
  <2>2. FilesOf(comp.ver) \subseteq LiveFiles(live, pend)
    BY <2>1, VersionLives
  <2> QED
    BY <1>2, <1>7, <2>2, OutsOnDisk, SweptSpares
<1>8. ASSUME reader.pc # "idle" PROVE FilesOf(reader.ver) \subseteq disk'
  <2>1. reader.ver \in live
    BY <1>8, VersionsHold
  <2>2. FilesOf(reader.ver) \subseteq LiveFiles(live, pend)
    BY <2>1, VersionLives
  <2>3. FilesOf(reader.ver) \subseteq disk
    BY <1>8 DEF LvInv, ReaderHolds
  <2> QED
    BY <1>2, <2>2, <2>3, SweptSpares
<1>9. Numbered'
  BY <1>1, <1>2, SweptShrinks, NumberedLess DEF LvInv
<1>10. CompHolds(comp, disk, pending)'
  <2>1. comp.pc # "idle" => comp.outs \cap pending \subseteq pend
    BY <1>1 DEF LvInv, Private
  <2>2. CompHolds(comp, disk, pending)
    BY DEF LvInv
  <2>3. PICK dk2 : dk2 = disk'
    OBVIOUS
  <2>4. CompHolds(comp, dk2, pend)
    BY <1>7, <2>1, <2>2, <2>3, CompSurvives
  <2> QED
    BY <1>1, <1>2, <2>3, <2>4
<1>11. ReaderHolds(reader, disk)'
  BY <1>1, <1>8 DEF ReaderHolds
<1>12. FlushHolds(flush, disk, pending)' /\ Private(flush, current, comp, reader)'
  BY <1>2, IdleIsIdle DEF FlushHolds, Private
<1> QED
  BY <1>2, <1>5, <1>6, <1>9, <1>10, <1>11, <1>12 DEF LvInv, Charged

\* BuildTable may remove the output: nothing else refers to it.
LEMMA FlushFailsKeeps == ASSUME LvInv, FlushFails PROVE LvInv'
<1>1. flush.pc # "idle" /\ UNCHANGED <<nextFile, comp, reader, current, toCompact>>
  BY DEF FlushFails
<1>2. pending' = pending \ {flush.num} /\ flush' = Idle /\ disk' \in {disk, disk \ {flush.num}}
  BY DEF FlushFails
<1>3. disk \ {flush.num} \subseteq disk' /\ disk' \subseteq disk
  BY <1>2
<1>4. /\ flush.num \notin FilesOf(current)
      /\ reader.pc # "idle" => flush.num \notin FilesOf(reader.ver)
      /\ comp.pc # "idle" => flush.num \notin FilesOf(comp.ver) /\ flush.num \notin comp.outs
  BY <1>1 DEF LvInv, Private
<1>5. FilesOf(current) \subseteq disk' /\ pending' \subseteq disk'
  BY <1>2, <1>3, <1>4 DEF LvInv
<1>6. ReaderHolds(reader, disk)'
  BY <1>1, <1>3, <1>4 DEF LvInv, ReaderHolds
<1>7. CompHolds(comp, disk, pending)'
  <2>1. comp.pc # "idle" => FilesOf(comp.ver) \subseteq disk'
    BY <1>3, <1>4, OutsOnDisk
  <2>2. comp.pc # "idle" => comp.outs \cap pending \subseteq pending'
    BY <1>2, <1>4
  <2>3. CompHolds(comp, disk, pending)
    BY DEF LvInv
  <2>4. PICK dk2 : dk2 = disk'
    OBVIOUS
  <2>5. PICK pend2 : pend2 = pending'
    OBVIOUS
  <2>6. CompHolds(comp, dk2, pend2)
    BY <2>1, <2>2, <2>3, <2>4, <2>5, CompSurvives
  <2> QED
    BY <1>1, <2>4, <2>5, <2>6
<1>8. Numbered'
  BY <1>1, <1>3, NumberedLess DEF LvInv
<1>9. FlushHolds(flush, disk, pending)' /\ Private(flush, current, comp, reader)'
  BY <1>2, IdleIsIdle DEF FlushHolds, Private
<1> QED
  BY <1>1, <1>5, <1>6, <1>7, <1>8, <1>9 DEF LvInv

-----------------------------------------------------------------------------
(* CompactLevelThread. *)

LEMMA LevelFiles ==
  ASSUME NEW v, NEW l \in Levels
  PROVE  v[l] \subseteq FilesOf(v)
BY DEF FilesOf

\* The inputs PickCompaction chooses are files of the current version.
LEMMA InputsCurrent ==
  ASSUME LvInv, NEW l \in Levels, NEW in0 \in LevelInputs(l)
  PROVE  in0 \subseteq FilesOf(current)
<1>1. current[l] \subseteq FilesOf(current)
  BY LevelFiles
<1>2. CASE l = 0
  <2>1. in0 \subseteq current[0]
    BY <1>2, Zenon DEF LevelInputs, OldestInputs
  <2> QED
    BY <1>1, <1>2, <2>1
<1>3. CASE l # 0 /\ in0 = Movable(l)
  BY <1>1, <1>3 DEF Movable
<1>4. CASE in0 \in Neighbours(l)
  BY <1>1, <1>4 DEF Neighbours
<1>5. CASE toCompact # NoFile /\ in0 = {toCompact[2]}
  BY <1>5 DEF LvInv, Charged
<1>6. l = 0 \/ (l # 0 /\ in0 = Movable(l)) \/ in0 \in Neighbours(l)
        \/ (toCompact # NoFile /\ in0 = {toCompact[2]})
  <2>1. CASE l # 0 /\ Movable(l) # {}
    <3>1. in0 \in {Movable(l)}
      BY <2>1 DEF LevelInputs
    <3> QED
      BY <2>1, <3>1
  <2>2. CASE l # 0 /\ Movable(l) = {}
    <3>1. in0 \in Neighbours(l) \cup (IF toCompact = NoFile THEN {} ELSE {{toCompact[2]}})
      BY <2>2 DEF LevelInputs
    <3> QED
      BY <3>1
  <2> QED
    BY <2>1, <2>2
<1> QED
  BY <1>2, <1>3, <1>4, <1>5, <1>6

\* A compaction begins: with no outputs, or as a move of files of the version.
LEMMA CompBegins ==
  ASSUME LvInv, UNCHANGED <<disk, nextFile, pending, current, flush, reader, toCompact>>,
         DOMAIN comp' = CompFields, comp'.pc # "idle", comp'.ver = current,
         \/ comp'.move = FALSE /\ comp'.outs = {}
         \/ comp'.move = TRUE /\ comp'.rest = {} /\ comp'.outs \subseteq FilesOf(current)
  PROVE  LvInv'
<1>1. FilesOf(comp'.ver) \subseteq disk
  BY DEF LvInv
<1>2. CompHolds(comp, disk, pending)'
  <2>1. CASE comp'.move = FALSE /\ comp'.outs = {}
    BY <1>1, <2>1 DEF CompHolds
  <2>2. CASE comp'.move = TRUE /\ comp'.rest = {} /\ comp'.outs \subseteq FilesOf(current)
    BY <1>1, <2>2 DEF CompHolds
  <2> QED
    BY <2>1, <2>2, Zenon
<1>3. comp'.outs \subseteq FilesOf(current)
  OBVIOUS
<1>4. Private(flush, current, comp, reader)'
  BY <1>3 DEF LvInv, Private
<1>5. Numbered'
  BY DEF LvInv, Numbered
<1> QED
  BY <1>2, <1>4, <1>5 DEF LvInv

LEMMA ManualPickKeeps == ASSUME LvInv, ManualPick PROVE LvInv'
<1>1. UNCHANGED <<disk, nextFile, pending, current, flush, reader, toCompact>>
  BY DEF ManualPick, store, others
<1>2. CASE UNCHANGED comp
  BY <1>1, <1>2, LvSame DEF fileVars
<1>3. CASE \E in0, in1 : comp' = Compaction(range.level, in0, in1, TRUE)
  <2>1. PICK in0, in1 : comp' = Compaction(range.level, in0, in1, TRUE)
    BY <1>3, Zenon
  <2>2. PICK c : c = comp'
    OBVIOUS
  <2>3. /\ DOMAIN c = CompFields /\ c.pc = "work" /\ c.move = FALSE
        /\ c.ver = current /\ c.outs = {}
    BY <2>1, <2>2 DEF Compaction, CompFields
  <2> QED
    BY <1>1, <2>2, <2>3, CompBegins, Zenon
<1> QED
  BY <1>2, <1>3, Zenon DEF ManualPick

\* The three ways AutoPick leaves the compaction.
Picked(c, m) == comp' = c \/ comp' = m \/ comp' = [m EXCEPT !.pc = "log"]
Moving(c, in0) == [c EXCEPT !.move = TRUE, !.rest = {}, !.outs = in0]

LEMMA AutoPickKeeps == ASSUME LvInv, AutoPick PROVE LvInv'
<1>1. UNCHANGED <<disk, nextFile, pending, current, flush, reader, toCompact>>
  BY DEF AutoPick, store
<1>2. PICK l \in 0 .. (NumLevels - 2) : \E in0 \in LevelInputs(l) : \E in1 :
        Picked(Compaction(l, in0, in1, FALSE), Moving(Compaction(l, in0, in1, FALSE), in0))
  BY Zenon DEF AutoPick, Picked, Moving
<1>2a. PICK in0 \in LevelInputs(l) : \E in1 :
        Picked(Compaction(l, in0, in1, FALSE), Moving(Compaction(l, in0, in1, FALSE), in0))
  BY <1>2, Zenon
<1>2b. PICK in1 :
        Picked(Compaction(l, in0, in1, FALSE), Moving(Compaction(l, in0, in1, FALSE), in0))
  BY <1>2a, Zenon
<1>3. PICK c : c = Compaction(l, in0, in1, FALSE)
  BY Zenon
<1>4. PICK m : m = Moving(c, in0)
  OBVIOUS
<1>5. Picked(c, m)
  BY <1>2b, <1>3, <1>4, Zenon
<1>6. l \in Levels
  BY LevelsAssumption DEF Levels
<1>7. in0 \subseteq FilesOf(current)
  BY <1>6, InputsCurrent
<1>8. DOMAIN c = CompFields /\ c.pc = "work" /\ c.move = FALSE /\ c.ver = current /\ c.outs = {}
  BY <1>3 DEF Compaction, CompFields
<1>9. /\ DOMAIN m = CompFields /\ m.pc = "work" /\ m.move = TRUE /\ m.rest = {}
      /\ m.ver = current /\ m.outs = in0
  BY <1>4, <1>8 DEF Moving, CompFields
<1>10. CASE comp' = c
  BY <1>1, <1>8, <1>10, CompBegins, Zenon
<1>11. CASE comp' = m
  BY <1>1, <1>7, <1>9, <1>11, CompBegins, Zenon
<1>12. CASE comp' = [m EXCEPT !.pc = "log"]
  <2>1. /\ DOMAIN comp' = CompFields /\ comp'.pc = "log" /\ comp'.move = TRUE /\ comp'.rest = {}
        /\ comp'.ver = current /\ comp'.outs = in0
    BY <1>9, <1>12 DEF CompFields
  <2> QED
    BY <1>1, <1>7, <2>1, CompBegins, Zenon
<1> QED
  BY <1>5, <1>10, <1>11, <1>12 DEF Picked

\* A new output of DoCompactionWork is pending until the end.
LEMMA CompactionOutputKeeps == ASSUME LvInv, CompactionOutput PROVE LvInv'
<1>1. comp.pc # "idle" /\ comp.rest # {} /\ UNCHANGED <<current, flush, reader, toCompact>>
  BY DEF CompactionOutput
<1>2. DOMAIN comp = CompFields /\ FilesOf(comp.ver) \subseteq disk /\ ~comp.move /\ comp.outs \subseteq pending
  BY <1>1, OutsOnDisk
<1>3. CASE \E left : comp' = [comp EXCEPT !.rest = left] /\ UNCHANGED <<disk, nextFile, pending>>
  <2>1. PICK left : comp' = [comp EXCEPT !.rest = left] /\ UNCHANGED <<disk, nextFile, pending>>
    BY <1>3, Zenon
  <2>2. /\ DOMAIN comp' = CompFields /\ comp'.pc = comp.pc /\ comp'.move = comp.move
        /\ comp'.ver = comp.ver /\ comp'.outs = comp.outs
    BY <1>2, <2>1 DEF CompFields
  <2>3. CompHolds(comp, disk, pending)'
    BY <1>1, <1>2, <2>1, <2>2 DEF CompHolds
  <2>4. Private(flush, current, comp, reader)'
    BY <1>1, <2>2, Zenon DEF LvInv, Private
  <2>5. Numbered'
    BY <2>1 DEF LvInv, Numbered
  <2> QED
    BY <1>1, <2>1, <2>3, <2>4, <2>5 DEF LvInv
<1>4. CASE /\ nextFile' = nextFile + 1 /\ pending' = pending \cup {nextFile}
           /\ disk' = disk \cup {nextFile}
           /\ \E left : comp' = [comp EXCEPT !.rest = left, !.outs = @ \cup {nextFile}]
  <2>1. PICK left : comp' = [comp EXCEPT !.rest = left, !.outs = @ \cup {nextFile}]
    BY <1>4, Zenon
  <2>2. /\ DOMAIN comp' = CompFields /\ comp'.pc = comp.pc /\ comp'.move = comp.move
        /\ comp'.ver = comp.ver /\ comp'.outs = comp.outs \cup {nextFile}
    BY <1>2, <2>1 DEF CompFields
  <2>3. disk \subseteq disk' /\ pending \subseteq pending' /\ nextFile \in pending'
    BY <1>4
  <2>4. CompHolds(comp, disk, pending)'
    BY <1>1, <1>2, <2>2, <2>3 DEF CompHolds
  <2>5. FlushHolds(flush, disk, pending)' /\ ReaderHolds(reader, disk)'
    BY <1>1, <2>3, HoldsMore, Zenon DEF LvInv
  <2>6. Private(flush, current, comp, reader)'
    <3>1. flush.pc # "idle" => nextFile # flush.num
      BY NextIsNew
    <3> QED
      BY <1>1, <2>2, <3>1, Zenon DEF LvInv, Private
  <2>7. Numbered'
    BY <1>4, NumberedMore DEF LvInv
  <2>8. pending' \subseteq disk' /\ FilesOf(current) \subseteq disk'
    BY <1>4, <2>3 DEF LvInv
  <2> QED
    BY <1>1, <2>4, <2>5, <2>6, <2>7, <2>8, Zenon DEF LvInv
<1> QED
  BY <1>3, <1>4, Zenon DEF CompactionOutput

LEMMA CompactionLogsKeeps == ASSUME LvInv, CompactionLogs PROVE LvInv'
<1>1. /\ comp.pc # "idle" /\ comp' = [comp EXCEPT !.pc = "log"]
      /\ UNCHANGED <<disk, nextFile, pending, current, flush, reader, toCompact>>
  BY DEF CompactionLogs, store
<1>2. DOMAIN comp = CompFields
  BY <1>1, OutsOnDisk
<1>3. /\ DOMAIN comp' = CompFields /\ comp'.pc = "log" /\ comp'.move = comp.move
      /\ comp'.ver = comp.ver /\ comp'.outs = comp.outs /\ comp'.rest = comp.rest
  BY <1>1, <1>2 DEF CompFields
<1>4. CompHolds(comp, disk, pending)'
  <2>1. CASE comp.move
    BY <1>1, <1>3, <2>1, OutsOnDisk DEF CompHolds
  <2>2. CASE ~comp.move
    BY <1>1, <1>3, <2>2, OutsOnDisk DEF CompHolds
  <2> QED
    BY <2>1, <2>2
<1>5. Private(flush, current, comp, reader)'
  BY <1>1, <1>3 DEF LvInv, Private
<1>6. Numbered'
  BY <1>1 DEF LvInv, Numbered
<1> QED
  BY <1>1, <1>4, <1>5, <1>6 DEF LvInv

\* The end of BackgroundCompaction leaves what the current version v, the flush
\* and the reader hold.
LEMMA CompEnds ==
  ASSUME LvInv, comp.pc # "idle", NEW v, NEW failed, CompactionEnds(v, failed),
         current' = v, FilesOf(v) \subseteq FilesOf(current) \cup comp.outs, Charged(toCompact', v),
         UNCHANGED <<nextFile, flush, reader>>
  PROVE  LvInv'
<1> DEFINE pend == pending \ comp.outs
           live == Versions(v, flush, Idle, reader)
<1>1. PICK err : disk' = IF comp.move THEN disk ELSE Swept(disk, err, live, pend)
  BY Zenon DEF CompactionEnds
<1>2. pending' = pend /\ comp' = Idle
  BY DEF CompactionEnds
<1>3. ASSUME NEW S, S \subseteq disk, S \subseteq LiveFiles(live, pend) PROVE S \subseteq disk'
  <2>1. CASE comp.move
    BY <1>1, <1>3, <2>1, Zenon
  <2>2. CASE ~comp.move
    BY <1>1, <1>3, <2>2, SweptSpares, Zenon
  <2> QED
    BY <2>1, <2>2
<1>4. disk' \subseteq disk
  <2>1. CASE comp.move
    BY <1>1, <2>1
  <2>2. CASE ~comp.move
    BY <1>1, <2>2, SweptShrinks
  <2> QED
    BY <2>1, <2>2
<1>5. FilesOf(v) \subseteq disk'
  <2>1. FilesOf(v) \subseteq disk
    BY OutsOnDisk, Zenon DEF LvInv
  <2>2. FilesOf(v) \subseteq LiveFiles(live, pend)
    BY VersionsHold, VersionLives, Zenon
  <2> QED
    BY <1>3, <2>1, <2>2
<1>6. pend \subseteq disk'
  <2>1. pend \subseteq disk
    BY DEF LvInv
  <2> QED
    BY <1>3, <2>1, PendingLives
<1>7. FlushHolds(flush, disk, pending)'
  <2>1. CASE flush.pc = "idle"
    BY <2>1, Zenon DEF LvInv, FlushHolds
  <2>2. CASE flush.pc # "idle"
    <3>1. FilesOf(flush.ver) \subseteq disk /\ flush.num \in pending /\ DOMAIN flush = FlushFields
      BY <2>2, FlushOnDisk
    <3>2. FilesOf(flush.ver) \subseteq LiveFiles(live, pend)
      BY <2>2, VersionsHold, VersionLives, Zenon
    <3>3. flush.num \in pend
      BY <2>2, <3>1, Zenon DEF LvInv, Private
    <3> QED
      BY <1>2, <1>3, <2>2, <3>1, <3>2, <3>3, Zenon DEF FlushHolds
  <2> QED
    BY <2>1, <2>2
<1>8. ReaderHolds(reader, disk)'
  <2>1. ASSUME reader.pc # "idle" PROVE FilesOf(reader.ver) \subseteq disk'
    <3>1. FilesOf(reader.ver) \subseteq disk
      BY <2>1, Zenon DEF LvInv, ReaderHolds
    <3>2. FilesOf(reader.ver) \subseteq LiveFiles(live, pend)
      BY <2>1, VersionsHold, VersionLives, Zenon
    <3> QED
      BY <1>3, <3>1, <3>2, Zenon
  <2> QED
    BY <2>1 DEF ReaderHolds
<1>9. Private(flush, current, comp, reader)'
  BY <1>2, IdleIsIdle, Zenon DEF LvInv, Private
<1>10. CompHolds(comp, disk, pending)'
  BY <1>2, Zenon DEF CompHolds
<1>11. Numbered'
  BY <1>4, NumberedLess, Zenon DEF LvInv
<1> QED
  BY <1>2, <1>5, <1>6, <1>7, <1>8, <1>9, <1>10, <1>11, Zenon DEF LvInv

LEMMA CompactionInstallsKeeps == ASSUME LvInv, CompactionInstalls PROVE LvInv'
<1>1. comp.pc # "idle" /\ UNCHANGED <<nextFile, flush, reader>>
  BY DEF CompactionInstalls
<1>2. PICK v : v = CompactedVersion(comp)
  OBVIOUS
<1>3. CompactionEnds(v, FALSE) /\ current' = v /\ toCompact' = NoFile
  BY <1>2, Zenon DEF CompactionInstalls, LogEnds
<1>4. FilesOf(v) \subseteq FilesOf(current) \cup comp.outs
  BY <1>2, FilesEdited, FilesAtLevel DEF CompactedVersion
<1>5. Charged(toCompact', v)
  BY <1>3 DEF Charged
<1>6. PICK failed : CompactionEnds(v, failed)
  BY <1>3, Zenon
<1> QED
  BY <1>1, <1>3, <1>4, <1>5, <1>6, CompEnds

LEMMA CompactionFailsKeeps == ASSUME LvInv, CompactionFails PROVE LvInv'
<1>1. comp.pc # "idle" /\ UNCHANGED <<nextFile, flush, reader, current, toCompact>>
  BY DEF CompactionFails
<1>2. CompactionEnds(current, TRUE)
  BY Zenon DEF CompactionFails
<1>3. PICK failed : CompactionEnds(current, failed)
  BY <1>2, Zenon
<1>4. Charged(toCompact', current)
  BY <1>1 DEF LvInv
<1> QED
  BY <1>1, <1>3, <1>4, CompEnds

-----------------------------------------------------------------------------
(* A reader. *)

LEMMA ReaderStartKeeps == ASSUME LvInv, ReaderStart PROVE LvInv'
<1>1. UNCHANGED <<disk, nextFile, pending, current, flush, comp, toCompact>>
  BY DEF ReaderStart, store, background
<1>2. reader'.ver = current
  BY DEF ReaderStart
<1>3. ReaderHolds(reader, disk)'
  BY <1>1, <1>2, Zenon DEF LvInv, ReaderHolds
<1>4. Private(flush, current, comp, reader)'
  BY <1>1, <1>2, Zenon DEF LvInv, Private
<1>5. Numbered'
  BY <1>1 DEF LvInv, Numbered
<1> QED
  BY <1>1, <1>3, <1>4, <1>5 DEF LvInv

LEMMA PlacedIsFile ==
  ASSUME NEW v, NEW c \in Placed(v)
  PROVE  c[2] \in FilesOf(v)
BY DEF Placed, FilesOf

LEMMA ReaderEndKeeps == ASSUME LvInv, ReaderEnd PROVE LvInv'
<1>1. UNCHANGED <<disk, nextFile, pending, current, flush, comp>> /\ reader' = Idle
  BY DEF ReaderEnd, store
<1>2. Charged(toCompact, current)'
  <2>1. CASE toCompact' = toCompact
    BY <1>1, <2>1 DEF LvInv
  <2>2. CASE toCompact' # toCompact
    <3>1. PICK files : toCompact' \in UpdateStats(files) /\ files \subseteq Placed(reader.ver)
      BY <2>2 DEF ReaderEnd, SeekFile
    <3>2. reader.ver = current /\ toCompact' \in Placed(current)
      BY <3>1 DEF UpdateStats
    <3> QED
      BY <1>1, <3>2, PlacedIsFile DEF Charged
  <2> QED
    BY <2>1, <2>2
<1>3. ReaderHolds(reader, disk)' /\ Private(flush, current, comp, reader)'
  BY <1>1, IdleIsIdle, Zenon DEF LvInv, ReaderHolds, Private
<1>4. Numbered'
  BY <1>1 DEF LvInv, Numbered
<1> QED
  BY <1>1, <1>2, <1>3, <1>4 DEF LvInv

LEMMA ReadSampleKeeps == ASSUME LvInv, ReadSample PROVE LvInv'
<1>1. UNCHANGED <<disk, nextFile, pending, current, flush, comp, reader>>
  BY DEF ReadSample, store
<1>2. toCompact' \in Placed(current)
  BY DEF ReadSample
<1>3. Charged(toCompact, current)'
  BY <1>1, <1>2, PlacedIsFile DEF Charged
<1>4. Numbered'
  BY <1>1 DEF LvInv, Numbered
<1> QED
  BY <1>1, <1>3, <1>4 DEF LvInv

-----------------------------------------------------------------------------
(* The theorems. *)

LEMMA LvStarts == LevelsInit => LvInv
<1> SUFFICES ASSUME LevelsInit PROVE LvInv
  OBVIOUS
<1>1. /\ disk = {} /\ nextFile = 1 /\ pending = {} /\ current = EmptyVersion /\ flush = Idle
      /\ comp = Idle /\ reader = Idle /\ toCompact = NoFile
  BY DEF LevelsInit
<1>2. Numbered
  BY <1>1 DEF Numbered
<1>3. /\ FlushHolds(flush, disk, pending) /\ CompHolds(comp, disk, pending)
      /\ ReaderHolds(reader, disk) /\ Private(flush, current, comp, reader)
  BY <1>1, IdleIsIdle DEF FlushHolds, CompHolds, ReaderHolds, Private
<1> QED
  BY <1>1, <1>2, <1>3, NoFiles DEF LvInv, Charged

LEMMA LvSteps == LvInv /\ [LevelsNext]_levelVars => LvInv'
<1> SUFFICES ASSUME LvInv, [LevelsNext]_levelVars PROVE LvInv'
  OBVIOUS
<1>1. CASE UNCHANGED levelVars
  BY <1>1, LvSame DEF levelVars, store, background, others, fileVars
<1>2. CASE LevelsNext
  BY <1>2, WriteKeeps, SwitchMemKeeps, RangeKeeps, SnapshotKeeps, FlushStartKeeps, FlushBuiltKeeps,
     FlushWakesKeeps, FlushInstallsKeeps, FlushFailsKeeps, ManualPickKeeps, AutoPickKeeps,
     CompactionOutputKeeps, CompactionLogsKeeps, CompactionInstallsKeeps, CompactionFailsKeeps,
     ReaderStartKeeps, ReaderEndKeeps, ReadSampleKeeps, Zenon
     DEF LevelsNext
<1> QED
  BY <1>1, <1>2

\* The inductive invariant holds: what the current version, the flush, the
\* compaction and the reader refer to is on disk, outputs are pending until they
\* are installed, and a file number is given out once.
THEOREM LevelsInvariant == LevelsSpec => []LvInv
BY LvStarts, LvSteps, PTL DEF LevelsSpec

\* DeleteObsoleteFiles never removes a file that the current version, a reader,
\* the flush or the compaction still needs, nor an output on its way to a
\* version, for any number of levels, keys, writes, files and I/O errors.
THEOREM FilesAlwaysOnDisk == LevelsSpec => []FilesOnDisk
<1>1. ASSUME LvInv PROVE FilesOnDisk
  <2>1. comp.pc # "idle" => FilesOf(comp.ver) \subseteq disk /\ comp.outs \subseteq disk
    BY <1>1, OutsOnDisk
  <2>2. flush.pc # "idle" => FilesOf(flush.ver) \subseteq disk /\ flush.num \in disk
    BY <1>1, FlushOnDisk
  <2>3. FilesOf(current) \subseteq disk /\ (reader.pc # "idle" => FilesOf(reader.ver) \subseteq disk)
    BY <1>1 DEF LvInv, ReaderHolds
  <2>4. ASSUME NEW v \in Versions(current, flush, comp, reader) PROVE FilesOf(v) \subseteq disk
    <3>1. v = current \/ \E y \in {flush, comp, reader} : y.pc # "idle" /\ v = y.ver
      BY <2>4 DEF Versions
    <3> QED
      BY <2>1, <2>2, <2>3, <3>1
  <2> QED
    BY <2>1, <2>2, <2>4 DEF FilesOnDisk
<1> QED
  BY <1>1, LevelsInvariant, PTL
=============================================================================
