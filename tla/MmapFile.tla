------------------------------- MODULE MmapFile -------------------------------
(***************************************************************************)
(* PosixMmapFile of env_boost.cc, the file behind logs, tables and MANIFESTs: *)
(* threads write disjoint ranges through mapped segments, grow the file one   *)
(* at a time, and sync it.  A byte is its offset; a view and its handle are   *)
(* <<thread, block>>.  Undefined behaviour stops the model: halted says why.  *)
(***************************************************************************)
EXTENDS Integers, FiniteSets

CONSTANTS
  MmThreads,
  MmPlans,        \* what the threads write: functions to <<offset, length>>
  MmBlock,        \* block_size_
  MmChunk,        \* the growth step, 8 in the code
  MmMaxBlock,
  MmMishaps       \* how often _chsize or FlushViewOfFile may fail, or
                  \* FlushFileBuffers succeed

\* The bound MmMaxBlock cuts nothing off: what is written, and the file as it
\* grows, end at or before it.
ASSUME MmAssumption ==
  /\ MmBlock \in Nat \ {0} /\ MmChunk \in Nat \ {0}
  /\ MmMaxBlock \in Nat /\ MmMaxBlock % MmChunk = 0
  /\ \A plan \in MmPlans :
       /\ plan \in [MmThreads -> Nat \X Nat]
       /\ \A t \in MmThreads : plan[t][1] + plan[t][2] <= MmBlock * (MmMaxBlock + 1)

VARIABLES
  mm,       \* the PosixMmapFile
  mmfile,   \* the file: blocks, bytes, flushed bytes, mapped views, open handles
  mmt,      \* the threads
  mmplan

mmVars == <<mm, mmfile, mmt, mmplan>>

NoView == <<>>
MmBlocks == 0 .. MmMaxBlock
BytesOf(t) == mmplan[t][1] .. (mmplan[t][1] + mmplan[t][2] - 1)
BlockOf(t) == mmt[t].at \div MmBlock

MmInit ==
  /\ mm = [size |-> 0, segs |-> [b \in MmBlocks |-> NoView], handle |-> [b \in MmBlocks |-> NoView],
           trunc |-> FALSE, end |-> 0, base |-> NoView, open |-> TRUE, halted |-> ""]
  /\ mmfile = [blocks |-> 0, bytes |-> {}, flushed |-> {}, views |-> {}, handles |-> {}, bad |-> 0]
  /\ mmplan \in MmPlans
  /\ mmt = [t \in MmThreads |-> [pc |-> IF mmplan[t][2] = 0 THEN "synced" ELSE "idle",
                                 at |-> mmplan[t][1], left |-> mmplan[t][2],
                                 grown |-> 0, sync |-> 0, ok |-> TRUE]]

MmGoto(t, p) == mmt' = [mmt EXCEPT ![t].pc = p]
MmHalt(why) == mm' = [mm EXCEPT !.halted = why]
MmAt(t, p) == mmt[t].pc = p /\ mm.halted = ""

EndOffset(end, new) == IF end < new THEN new ELSE end

\* WriteAt.
WriteAtCall(t) ==
  /\ MmAt(t, "idle") /\ mm.open
  /\ mm' = [mm EXCEPT !.end = EndOffset(@, mmt[t].at + mmt[t].left)]
  /\ MmGoto(t, "look")
  /\ UNCHANGED <<mmfile, mmplan>>

\* GetSegment: the first critical section.
LookSegment(t) ==
  /\ MmAt(t, "look")
  /\ MmGoto(t, IF mmt[t].left = 0 THEN "written"
               ELSE IF mm.size <= BlockOf(t) THEN "grow"
               ELSE IF mm.segs[BlockOf(t)] = NoView THEN "create" ELSE "copy")
  /\ UNCHANGED <<mm, mmfile, mmplan>>

\* GrowViaTruncate: waits for a truncation that is under way.
GrowViaTruncate(t) ==
  /\ MmAt(t, "grow")
  /\ LET short == mm.size <= BlockOf(t)
     IN  IF mm.trunc /\ short THEN MmGoto(t, "waiting") /\ UNCHANGED mm
         ELSE mm' = [mm EXCEPT !.trunc = short] /\ MmGoto(t, IF short THEN "chsize" ELSE "create")
  /\ UNCHANGED <<mmfile, mmplan>>

NewSize(block) == MmChunk * ((block + MmChunk - 1) \div MmChunk) + 1

\* _chsize; Windows refuses to cut off mapped blocks.
Truncate(t) ==
  /\ MmAt(t, "chsize")
  /\ LET new == NewSize(BlockOf(t))
         mapped == \E v \in mmfile.views : v[2] >= new
         grown(r) == mmt' = [mmt EXCEPT ![t].pc = "swap", ![t].grown = IF r THEN new ELSE -new]
     IN  \/ /\ ~mapped /\ grown(TRUE)
            /\ mmfile' = [mmfile EXCEPT !.blocks = new,
                                        !.bytes = {x \in @ : x \div MmBlock < new}]
         \/ /\ mapped \/ mmfile.bad < MmMishaps
            /\ grown(FALSE)
            /\ mmfile' = [mmfile EXCEPT !.bad = IF mapped THEN @ ELSE @ + 1]
  /\ UNCHANGED <<mm, mmplan>>

\* Mutant: the waiters are not told.
WokenNone(t, p) == p
Woken(t, p) == IF p = "waiting" THEN "grow" ELSE p

\* The segments move to the larger array; SignalAll.
SwapSegments(t) ==
  /\ MmAt(t, "swap")
  /\ LET ok == mmt[t].grown > 0
         new == IF ok THEN mmt[t].grown ELSE -mmt[t].grown
     IN  /\ mm' = IF new < mm.size THEN [mm EXCEPT !.halted = "overflow"]
                  ELSE [mm EXCEPT !.size = new, !.trunc = FALSE]
         /\ mmt' = [u \in MmThreads |->
                      IF u = t THEN [mmt[t] EXCEPT !.pc = IF ok THEN "create" ELSE "failed"]
                      ELSE [mmt[u] EXCEPT !.pc = Woken(u, @)]]
  /\ UNCHANGED <<mmfile, mmplan>>

\* CreateFileMappingA, into the member that all threads share.
CreateMapping(t) ==
  /\ MmAt(t, "create")
  /\ mm' = [mm EXCEPT !.base = <<t, BlockOf(t)>>]
  /\ mmfile' = [mmfile EXCEPT !.handles = @ \cup {<<t, BlockOf(t)>>}]
  /\ MmGoto(t, "view")
  /\ UNCHANGED mmplan

\* MapViewOfFile: a closed handle, or a block past the end of the file, aborts.
MapView(t) ==
  /\ MmAt(t, "view")
  /\ IF mm.base \in mmfile.handles /\ BlockOf(t) < mmfile.blocks
     THEN /\ mmfile' = [mmfile EXCEPT !.views = @ \cup {<<t, BlockOf(t)>>}]
          /\ MmGoto(t, "record") /\ UNCHANGED mm
     ELSE MmHalt("abort") /\ UNCHANGED <<mmfile, mmt>>
  /\ UNCHANGED mmplan

\* The second critical section: the first view of a block stays.
RecordSegment(t) ==
  /\ MmAt(t, "record")
  /\ LET b == BlockOf(t)
     IN  IF mm.segs[b] # NoView THEN MmGoto(t, "unmap") /\ UNCHANGED mm
         ELSE /\ mm' = [mm EXCEPT !.segs[b] = <<t, b>>, !.handle[b] = mm.base]
              /\ MmGoto(t, "copy")
  /\ UNCHANGED <<mmfile, mmplan>>

\* UnmapSegment closes whatever handle was made last.
UnmapSegment(t) ==
  /\ MmAt(t, "unmap")
  /\ mmfile' = [mmfile EXCEPT !.views = @ \ {<<t, BlockOf(t)>>}, !.handles = @ \ {mm.base}]
  /\ MmGoto(t, "copy")
  /\ UNCHANGED <<mm, mmplan>>

\* memmove of what falls into the block.
CopyBytes(t) ==
  /\ MmAt(t, "copy")
  /\ LET room == MmBlock * (BlockOf(t) + 1) - mmt[t].at
         n == IF room < mmt[t].left THEN room ELSE mmt[t].left
     IN  /\ mmfile' = [mmfile EXCEPT !.bytes = @ \cup (mmt[t].at .. (mmt[t].at + n - 1))]
         /\ mmt' = [mmt EXCEPT ![t].pc = "look", ![t].at = @ + n, ![t].left = @ - n]
  /\ UNCHANGED <<mm, mmplan>>

\* Mutant: the last block of the segments is left out.
SyncStopsEarly(b) == b + 1 >= mm.size \/ mm.segs[b] = NoView

SyncStops(b) == b >= mm.size \/ mm.segs[b] = NoView

\* Sync goes block by block to the first that is not mapped.  FlushViewOfFile may
\* fail.  FlushFileBuffers is called for the handle of the mapping and its result is
\* tested the wrong way round: Sync returns an error if it succeeds.  The handle is
\* read without mtx_, from an array that a thread which grows the file replaces and
\* deletes.
SyncBlock(t) ==
  /\ MmAt(t, "written")
  /\ LET b == mmt[t].sync
         in == {x \in mmfile.bytes : x \div MmBlock = b}
     IN  \/ SyncStops(b) /\ MmGoto(t, "synced") /\ UNCHANGED <<mm, mmfile>>
         \/ /\ ~SyncStops(b)
            /\ \E view, buffers \in BOOLEAN :
                 LET ok == view /\ ~buffers
                 IN  /\ ok \/ mmfile.bad < MmMishaps
                     /\ mmfile' = [mmfile EXCEPT !.flushed = IF view THEN @ \cup in ELSE @,
                                                 !.bad = IF ok THEN @ ELSE @ + 1]
                     /\ mmt' = [mmt EXCEPT ![t].sync = b + 1, ![t].ok = @ /\ ok]
            /\ UNCHANGED mm
         \/ /\ ~SyncStops(b) /\ \E u \in MmThreads : mmt[u].pc = "swap"
            /\ MmHalt("freed") /\ UNCHANGED <<mmfile, mmt>>
  /\ UNCHANGED mmplan

\* Close, once the writers have ended: the file is cut at end_offset_.
CloseFile ==
  /\ mm.open /\ mm.halted = ""
  /\ \A t \in MmThreads : mmt[t].pc \in {"synced", "failed"}
  /\ LET held == {mm.segs[b] : b \in MmBlocks} \ {NoView}
     IN  mmfile' = [mmfile EXCEPT
           !.views = @ \ held,
           !.handles = @ \ {mm.handle[b] : b \in {c \in MmBlocks : mm.segs[c] # NoView}},
           !.bytes = {x \in @ : x < mm.end},
           !.blocks = (mm.end + MmBlock - 1) \div MmBlock]
  /\ mm' = [mm EXCEPT !.open = FALSE, !.end = 0, !.size = 0, !.segs = [b \in MmBlocks |-> NoView]]
  /\ UNCHANGED <<mmt, mmplan>>

MmStep(t) ==
  \/ WriteAtCall(t) \/ LookSegment(t) \/ GrowViaTruncate(t) \/ Truncate(t) \/ SwapSegments(t)
  \/ CreateMapping(t) \/ MapView(t) \/ RecordSegment(t) \/ UnmapSegment(t) \/ CopyBytes(t)
  \/ SyncBlock(t)

MmNext == CloseFile \/ \E t \in MmThreads : MmStep(t)
MmFairness == \A t \in MmThreads : WF_mmVars(MmStep(t))
MmSpec == MmInit /\ [][MmNext]_mmVars /\ MmFairness

-----------------------------------------------------------------------------
(* Properties. *)

MmRuns == mm.halted = ""
Done(t) == mmt[t].pc \in {"written", "synced"}

\* What WriteAt has returned for is in the file, whatever truncations and
\* mappings other threads made meanwhile, and Close cuts none of it off.
WrittenStored ==
  MmRuns => \A t \in MmThreads : Done(t) => BytesOf(t) \subseteq mmfile.bytes

\* A view is that of a segment or is held by the thread that made it and has
\* not decided yet: growing the table loses none, and after Close none is left.
ViewsAccounted ==
  MmRuns => mmfile.views =
    ({mm.segs[b] : b \in MmBlocks} \ {NoView})
      \cup {<<t, BlockOf(t)>> : t \in {u \in MmThreads : mmt[u].pc \in {"record", "unmap"}}}

\* When Sync has returned OK to a thread that wrote, FlushViewOfFile has succeeded
\* for all its bytes after they were written, but for those above a block that Sync
\* found unmapped: it ends there, and never at a block the thread has written to.
SyncedBelowGap ==
  MmRuns => \A t \in MmThreads : mmt[t].pc = "synced" /\ mmt[t].ok =>
    \A x \in BytesOf(t) \ mmfile.flushed : mmt[t].sync < x \div MmBlock

\* The file as a whole: what was written is there, what Sync answers for was handed
\* to the disk as far as it went, and no view is lost.
MmapSound == WrittenStored /\ ViewsAccounted /\ SyncedBelowGap

\* A Sync that returned OK has flushed all its thread has written.  The code does not
\* keep this: another thread may not have mapped a block below yet.
SyncedAll ==
  MmRuns => \A t \in MmThreads : mmt[t].pc = "synced" /\ mmt[t].ok => BytesOf(t) \subseteq mmfile.flushed

\* A thread that waits for a truncation goes on.
TruncateWaitEnds ==
  \A t \in MmThreads : []<>(mmt[t].pc # "waiting" \/ mm.halted # "")

\* The handle a thread has made is its own until it has recorded or closed it:
\* MapViewOfFile never aborts for a handle that another thread closed.
BaseHandleOwned ==
  \A t \in MmThreads : mmt[t].pc = "view" => mm.base \in mmfile.handles

\* trunc_in_progress_ says whether a truncation is under way, so there is one
\* at a time.
TruncFlagExact ==
  MmRuns => (mm.trunc <=> \E t \in MmThreads : mmt[t].pc \in {"chsize", "swap"})
=============================================================================
