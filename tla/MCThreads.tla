------------------------------ MODULE MCThreads ------------------------------
(***************************************************************************)
(* The components threads share below the mutex of the database, for TLC:   *)
(* the condition variable, the skip list, the arena and the memory-mapped   *)
(* log file.  They do not share state; subject says whose behaviour it is.  *)
(***************************************************************************)
EXTENDS CondVar, SkipList, Arena, MmapFile

CONSTANTS t1, t2, t3, s1, s2, b1, m1, m2

VARIABLE subject

all == <<vars, skipVars, arVars, mmVars, subject>>

-----------------------------------------------------------------------------
(* Skip list: keys 1 and 2 have the same 64-bit prefix. *)

MCKeyNum == [k \in SkipKeys |-> (k + 1) \div 2]

\* Two inserts with a reader.
MCCasts == {{1, 2} \cup Readers, {2, 3}}

(* Arena: sizes that fit, that fill a block, and that are large. *)

MCArPlan(a, b, c) == [t \in ArThreads |-> CASE t = "a1" -> a [] t = "a2" -> b [] t = "a3" -> c]

MCArPlans ==
  {MCArPlan(<<1, 2, 2>>, <<2, 1, 2>>, <<1, 5>>), MCArPlan(<<5, 2>>, <<3, 1>>, <<3>>)}

(* Log file: the offset and length of each thread's WriteAt, inside a block    *)
(* and across the end of one.                                                 *)

MCMmPlan(a, b) == [t \in MmThreads |-> IF t = m1 THEN a ELSE b]

MCMmPlans == {MCMmPlan(<<0, 1>>, <<1, 1>>), MCMmPlan(<<0, 2>>, <<3, 4>>)}

-----------------------------------------------------------------------------
\* A component that is not the subject has one initial state.
ThreadsInit ==
  /\ subject \in {"condvar", "skiplist", "arena", "mmap"}
  /\ Init /\ SkipInit /\ ArInit /\ MmInit
  /\ subject # "skiplist" => writer[3].pc = "out"
  /\ subject # "arena" => Len(alloc["a1"].todo) = 2
  /\ subject # "mmap" => mmplan[m1][2] = 1

Turn(s) == subject = s /\ UNCHANGED subject

CondVarTurn == Turn("condvar") /\ UNCHANGED <<skipVars, arVars, mmVars>>
SkipTurn == Turn("skiplist") /\ UNCHANGED <<vars, arVars, mmVars>>
ArTurn == Turn("arena") /\ UNCHANGED <<vars, skipVars, mmVars>>
MmTurn == Turn("mmap") /\ UNCHANGED <<vars, skipVars, arVars>>

\* The threads of the condition variable never come to an end, the others do.
Rest == subject # "condvar" /\ UNCHANGED all

ThreadsNext ==
  \/ CondVarTurn /\ Next
  \/ SkipTurn /\ SkipNext
  \/ ArTurn /\ ArNext
  \/ MmTurn /\ MmNext
  \/ Rest

\* The fairness of each component, when it is the subject: the n-th of its
\* threads keeps going.  A behaviour has one subject, so that this is the
\* conjunction of the components' fairness conditions.
MCOrder(S) == CHOOSE f \in [1 .. Cardinality(S) -> S] : \A x \in S : \E n \in DOMAIN f : f[n] = x

CondVarOrder == MCOrder(Threads)
SkipOrder == MCOrder(SkipKeys \cup Readers)
ArOrder == MCOrder(ArThreads)
MmOrder == MCOrder(MmThreads)

SkipStep(p) ==
  IF p \in Readers THEN SeekStep(p) \/ FindLessThan(p) ELSE SkipInsert(p)

ThreadStep(n) ==
  \/ n \in DOMAIN CondVarOrder /\ CondVarTurn /\ Step(CondVarOrder[n])
  \/ n \in DOMAIN SkipOrder /\ SkipTurn /\ SkipStep(SkipOrder[n])
  \/ n \in DOMAIN ArOrder /\ ArTurn /\ alloc[ArOrder[n]].pc # "idle" /\ ArStep(ArOrder[n])
  \/ n \in DOMAIN MmOrder /\ MmTurn /\ MmStep(MmOrder[n])

ThreadsFairness == \A n \in 1 .. 6 : WF_all(ThreadStep(n))

ThreadsSpec == ThreadsInit /\ [][ThreadsNext]_all /\ ThreadsFairness
=============================================================================
