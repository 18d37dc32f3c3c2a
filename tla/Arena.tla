-------------------------------- MODULE Arena --------------------------------
(***************************************************************************)
(* util/arena.cc: memory for the entries of a memtable, taken by many       *)
(* writers at once without a lock.  A thread first takes its bytes off the  *)
(* room of a block (rem), then moves one of the two ends of the block       *)
(* towards the other: next_upper for a multiple of align_, next_lower for   *)
(* the rest.  A block is its number in the order of linking, an address is  *)
(* an offset into a block.  The counter memory_usage_ is incremented by the *)
(* step it counts.                                                          *)
(***************************************************************************)
EXTENDS Integers, Sequences, FiniteSets, FiniteSetsExt

CONSTANTS
  ArThreads,
  ArPlans,    \* possible calls: sequences of sizes for each thread
  ArBlock,    \* BLOCK_SIZE
  ArPage,     \* page_size_
  ArAlign,    \* align_
  ArHeader    \* sizeof(Block)

\* Pages are aligned, and Allocate asserts that bytes > 0.
ASSUME ArAssumption ==
  /\ ArBlock \in Nat \ {0} /\ ArPage \in Nat \ {0} /\ ArAlign \in Nat \ {0} /\ ArHeader \in Nat
  /\ ArPage % ArAlign = 0
  /\ \A plan \in ArPlans : plan \in [ArThreads -> Seq(Nat \ {0})]

VARIABLES
  arena,   \* the blocks, the heads of the lists blocks_ and large_, memory_usage_
  alloc,   \* the call of each thread
  granted  \* what has been returned: block, first byte, size

arVars == <<arena, alloc, granted>>

AlignUp(bytes, unit) == ((bytes + unit - 1) \div unit) * unit

NewBlock(bytes, next) ==
  LET sz == AlignUp(bytes, ArPage)
  IN  [rem |-> sz, lower |-> 0, upper |-> sz, size |-> sz, next |-> next]

ArInit ==
  /\ arena = [blocks |-> <<NewBlock(ArBlock, 0)>>, head |-> 1, large |-> 0, usage |-> 2 * ArHeader]
  /\ \E plan \in ArPlans :
       alloc = [t \in ArThreads |-> [pc |-> "idle", bytes |-> 0, block |-> 0, seen |-> 0, todo |-> plan[t]]]
  /\ granted = {}

ArGoto(t, pc, block, seen) ==
  alloc' = [alloc EXCEPT ![t].pc = pc, ![t].block = block, ![t].seen = seen]

-----------------------------------------------------------------------------
(* Allocate *)

AllocateCall(t) ==
  /\ alloc[t].pc = "idle" /\ alloc[t].todo # <<>>
  /\ LET bytes == Head(alloc[t].todo)
     IN  alloc' = [alloc EXCEPT ![t] =
           [pc |-> IF bytes > ArBlock \div 4 THEN "large" ELSE "block",
            bytes |-> bytes, block |-> 0, seen |-> 0, todo |-> Tail(@.todo)]]
  /\ UNCHANGED <<arena, granted>>

LoadBlock(t) ==
  /\ alloc[t].pc = "block"
  /\ ArGoto(t, "rem", arena.head, 0)
  /\ UNCHANGED <<arena, granted>>

LoadRem(t) ==
  /\ alloc[t].pc = "rem"
  /\ ArGoto(t, "take", alloc[t].block, arena.blocks[alloc[t].block].rem)
  /\ UNCHANGED <<arena, granted>>

\* Mutant: rem is stored, whatever it is by now.
StoreRem(t) ==
  /\ arena' = [arena EXCEPT !.blocks[alloc[t].block].rem = alloc[t].seen - alloc[t].bytes]
  /\ ArGoto(t, "end", alloc[t].block, 0)

\* The compare-and-swap on rem.
CasRem(t) ==
  LET b == alloc[t].block
  IN  IF arena.blocks[b].rem = alloc[t].seen
      THEN /\ arena' = [arena EXCEPT !.blocks[b].rem = @ - alloc[t].bytes]
           /\ ArGoto(t, "end", b, 0)
      ELSE /\ ArGoto(t, "take", b, arena.blocks[b].rem)
           /\ UNCHANGED arena

TakeRem(t) ==
  /\ alloc[t].pc = "take" /\ alloc[t].seen >= alloc[t].bytes
  /\ CasRem(t)
  /\ UNCHANGED granted

\* A block is linked, and counted.
Pushed(bytes, next) == [arena EXCEPT !.blocks = Append(@, NewBlock(bytes, next)),
                                     !.usage = @ + ArHeader]
LastBlock == Len(arena.blocks) + 1

\* No room: a block is put in front of the one that was found, unless another
\* thread has done so; either way the loop starts again.
PushBlock(t) ==
  /\ alloc[t].pc = "take" /\ alloc[t].seen < alloc[t].bytes
  /\ arena' = IF arena.head = alloc[t].block
              THEN [Pushed(ArBlock, alloc[t].block) EXCEPT !.head = LastBlock]
              ELSE arena
  /\ ArGoto(t, "block", 0, 0)
  /\ UNCHANGED granted

-----------------------------------------------------------------------------
(* AllocateLarge *)

LoadLarge(t) ==
  /\ alloc[t].pc = "large"
  /\ ArGoto(t, "push", 0, arena.large)
  /\ UNCHANGED <<arena, granted>>

\* Mutant: the block is made the only one of the list.
LinkNone(seen) == 0

\* What the new block has as its next block when large_ is set to it.
LinkSeen(seen) == seen

PushLarge(t) ==
  /\ alloc[t].pc = "push"
  /\ IF arena.large = alloc[t].seen
     THEN /\ arena' = [Pushed(alloc[t].bytes, LinkSeen(alloc[t].seen)) EXCEPT !.large = LastBlock]
          /\ ArGoto(t, "end", LastBlock, 0)
     ELSE /\ ArGoto(t, "push", 0, arena.large)
          /\ UNCHANGED arena
  /\ UNCHANGED granted

-----------------------------------------------------------------------------
(* AllocateFinalize *)

FromUpper(bytes) == bytes = AlignUp(bytes, ArAlign)

EndOf(b, bytes) == IF FromUpper(bytes) THEN b.upper ELSE b.lower

LoadEnd(t) ==
  /\ alloc[t].pc = "end"
  /\ ArGoto(t, "move", alloc[t].block, EndOf(arena.blocks[alloc[t].block], alloc[t].bytes))
  /\ UNCHANGED <<arena, granted>>

Grant(t, first) ==
  granted' = granted \cup {[block |-> alloc[t].block, first |-> first, bytes |-> alloc[t].bytes]}

\* The compare-and-swap on the end, the assertions, and the count of the bytes.
MoveEnd(t) ==
  /\ alloc[t].pc = "move"
  /\ LET b == alloc[t].block
         n == alloc[t].bytes
         seen == alloc[t].seen
         now == EndOf(arena.blocks[b], n)
     IN  IF now # seen
         THEN /\ ArGoto(t, "move", b, now)
              /\ UNCHANGED <<arena, granted>>
         ELSE /\ arena' = [arena EXCEPT
                   !.blocks[b] = IF FromUpper(n) THEN [@ EXCEPT !.upper = seen - n]
                                                 ELSE [@ EXCEPT !.lower = seen + n],
                   !.usage = @ + n]
              /\ Grant(t, IF FromUpper(n) THEN seen - n ELSE seen)
              /\ ArGoto(t, "idle", 0, 0)

ArStep(t) ==
  \/ AllocateCall(t) \/ LoadBlock(t) \/ LoadRem(t) \/ TakeRem(t) \/ PushBlock(t)
  \/ LoadLarge(t) \/ PushLarge(t) \/ LoadEnd(t) \/ MoveEnd(t)

ArNext == \E t \in ArThreads : ArStep(t)

\* A thread in the middle of a call goes on.
ArFairness == \A t \in ArThreads : WF_arVars(alloc[t].pc # "idle" /\ ArStep(t))

ArSpec == ArInit /\ [][ArNext]_arVars /\ ArFairness

-----------------------------------------------------------------------------
(* Properties. *)

\* The sum of a field over a set of records with different other fields.
Bytes(S) == FoldSet(LAMBDA g, n : g.bytes + n, 0, S)

(***************************************************************************)
(* No two calls of Allocate return overlapping memory, and none returns     *)
(* memory outside of its block, however their two steps interleave.         *)
(***************************************************************************)
AllocationsDisjoint ==
  \A g \in granted :
    /\ g.first >= 0 /\ g.first + g.bytes <= arena.blocks[g.block].size
    /\ \A h \in granted \ {g} :
         g.block = h.block => g.first + g.bytes <= h.first \/ h.first + h.bytes <= g.first

(***************************************************************************)
(* A call that returns is given memory of the block it took its bytes from  *)
(* that no call was given before: the compare-and-swap on the end lets two  *)
(* calls that read the same end not both have it.                           *)
(***************************************************************************)
EachCallGranted ==
  [][\A t \in ArThreads : alloc[t].pc = "move" /\ alloc'[t].pc = "idle" =>
       \E g \in granted' \ granted : g.block = alloc[t].block /\ g.bytes = alloc[t].bytes]_arVars

(***************************************************************************)
(* The assertions of AllocateAligned and AllocateFinalize: a request for a  *)
(* multiple of align_ gets an aligned address, and the two ends of a block  *)
(* never cross.                                                             *)
(***************************************************************************)
AlignedAndUncrossed ==
  /\ \A g \in granted : g.bytes % ArAlign = 0 => g.first % ArAlign = 0
  /\ \A b \in DOMAIN arena.blocks : arena.blocks[b].lower <= arena.blocks[b].upper

\* The blocks of the list that begins at b, youngest first: next is always older.
ListFrom(b) ==
  LET reach[i \in 0 .. Len(arena.blocks)] ==
        IF i = 0 THEN {} ELSE {i} \cup reach[arena.blocks[i].next]
  IN  reach[b]

(***************************************************************************)
(* ~Arena frees every block exactly once: each is in one of the two lists,  *)
(* and in no more than one, whichever thread won which race to link.        *)
(***************************************************************************)
BlocksLinkedOnce ==
  /\ ListFrom(arena.head) \cup ListFrom(arena.large) = DOMAIN arena.blocks
  /\ ListFrom(arena.head) \cap ListFrom(arena.large) = {}

(***************************************************************************)
(* MemoryUsage is the bytes returned, a header for each block and one more. *)
(***************************************************************************)
ArUsageExact ==
  arena.usage = Bytes(granted) + (Len(arena.blocks) + 1) * ArHeader

(***************************************************************************)
(* The arena as a whole, beside AllocationsDisjoint: addresses are aligned, *)
(* blocks are linked once and counted.                                      *)
(***************************************************************************)
ArenaSound == AlignedAndUncrossed /\ BlocksLinkedOnce /\ ArUsageExact
=============================================================================
