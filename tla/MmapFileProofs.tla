---------------------------- MODULE MmapFileProofs ----------------------------
(***************************************************************************)
(* Proofs about the mapped file, for any threads, any writes and any size    *)
(* of blocks and growth steps.                                               *)
(***************************************************************************)
EXTENDS MmapFile, TLAPS

-----------------------------------------------------------------------------
(* The invariant, with the file m, its contents f, the state a of a thread    *)
(* and p, what the thread is to write.                                        *)

Pcs == {"idle", "look", "grow", "waiting", "chsize", "swap", "create", "view", "record", "unmap",
        "copy", "written", "synced", "failed"}

AnyView == {NoView} \cup (MmThreads \X MmBlocks)

MmStates == [size : Nat, segs : [MmBlocks -> AnyView], handle : [MmBlocks -> AnyView], trunc : BOOLEAN,
             end : Nat, base : AnyView, open : BOOLEAN, halted : {"", "overflow", "abort", "freed"}]
FileStates == [blocks : Nat, bytes : SUBSET Nat, flushed : SUBSET Nat, views : SUBSET (MmThreads \X MmBlocks),
               handles : SUBSET (MmThreads \X MmBlocks), bad : Nat]
MmThreadStates == [pc : Pcs, at : Nat, left : Nat, grown : Int, sync : Nat, ok : BOOLEAN]

MmTypes ==
  /\ mm \in MmStates /\ mmfile \in FileStates /\ mmt \in [MmThreads -> MmThreadStates]
  /\ mmplan \in MmPlans

In(a) == a.at \div MmBlock
All(p) == p[1] .. (p[1] + p[2] - 1)

\* How far the call of WriteAt is, and that what it has copied is there.
Copied(m, f, a, p) ==
  /\ p[1] <= a.at /\ a.at + a.left = p[1] + p[2]
  /\ p[1] .. (a.at - 1) \subseteq f.bytes
  /\ a.pc # "idle" /\ m.open => p[2] = 0 \/ p[1] + p[2] <= m.end
  /\ a.pc \in {"written", "synced"} => a.left = 0
  /\ a.pc \in {"grow", "waiting", "chsize", "swap", "create", "view", "record", "unmap", "copy"} => a.left # 0

\* What the thread knows of the segments, which only grow.
Knows(m, a) ==
  /\ a.pc \in {"create", "view", "record", "unmap", "copy"} => In(a) < m.size
  /\ a.pc \in {"unmap", "copy"} => m.segs[In(a)] # NoView
  /\ a.pc = "swap" => a.grown \in {NewSize(In(a)), -NewSize(In(a))}
  /\ ~ m.open => a.pc \in {"synced", "failed"}

\* What Sync has flushed.
Flushed(f, a, p) ==
  /\ a.sync # 0 => a.left = 0
  /\ a.ok => \A x \in All(p) : x \div MmBlock < a.sync => x \in f.flushed
  /\ a.pc = "synced" /\ a.ok => \A x \in All(p) \ f.flushed : a.sync < x \div MmBlock

MmThreadOK(m, f, a, p) == Copied(m, f, a, p) /\ Knows(m, a) /\ Flushed(f, a, p)

\* A thread that made the segment of a block does not come back to the block.
Past(a, b) == b < In(a) \/ (a.pc = "copy" /\ b = In(a)) \/ a.left = 0

SegsOK(m, T) ==
  \A b \in MmBlocks : m.segs[b] # NoView =>
    b < m.size /\ \E u \in MmThreads : m.segs[b] = <<u, b>> /\ Past(T[u], b)

BytesOK(m, f) ==
  m.open => \A x \in f.bytes : x \div MmBlock \in MmBlocks /\ m.segs[x \div MmBlock] # NoView

Held(T) == {<<t, In(T[t])>> : t \in {u \in MmThreads : T[u].pc \in {"record", "unmap"}}}
Segments(m) == {m.segs[b] : b \in MmBlocks} \ {NoView}

ViewsOK(m, f, T) == f.views = Segments(m) \cup Held(T)

SizeOK(m) == m.size <= MmMaxBlock + 1 /\ (~ m.open => \A b \in MmBlocks : m.segs[b] = NoView)

MmOK(m, f, T, P) ==
  /\ \A t \in MmThreads : MmThreadOK(m, f, T[t], P[t])
  /\ SegsOK(m, T) /\ BytesOK(m, f) /\ ViewsOK(m, f, T) /\ SizeOK(m)

MmInv == MmTypes /\ (MmRuns => MmOK(mm, mmfile, mmt, mmplan))

-----------------------------------------------------------------------------
(* Blocks. *)

LEMMA BlockBounds ==
  ASSUME NEW B \in Nat \ {0}, NEW a \in Nat
  PROVE  /\ a \div B \in Nat
         /\ B * (a \div B) <= a /\ a < B * ((a \div B) + 1)
<1>1. PICK q, r : q = a \div B /\ r = a % B
  OBVIOUS
<1>2. q \in Nat /\ r \in 0 .. (B - 1) /\ a = B * q + r
  BY <1>1
<1>3. B * (q + 1) = B * q + B
  BY <1>2
<1>4. PICK x : x = B * q
  OBVIOUS
<1>5. x \in Int
  BY <1>2, <1>4
<1>6. x <= a /\ a < x + B
  BY <1>2, <1>4, <1>5
<1> QED
  BY <1>1, <1>2, <1>3, <1>4, <1>6

\* A number is in block k if it is between the ends of the block.
LEMMA BlockIs ==
  ASSUME NEW B \in Nat \ {0}, NEW a \in Nat, NEW k \in Nat, B * k <= a, a < B * (k + 1)
  PROVE  a \div B = k
<1>1. PICK r : r = a - B * k
  OBVIOUS
<1>2. B * (k + 1) = B * k + B
  OBVIOUS
<1>3. B * k \in Nat
  OBVIOUS
<1>4. r \in 0 .. (B - 1) /\ a = B * k + r
  BY <1>1, <1>2, <1>3
<1> QED
  BY <1>4

LEMMA LaterBlock ==
  ASSUME NEW B \in Nat \ {0}, NEW k \in Nat, NEW n \in Nat, k < n
  PROVE  B * (k + 1) <= B * n
<1>1. PICK d \in Nat : n = (k + 1) + d
  <2>1. n - (k + 1) \in Nat /\ n = (k + 1) + (n - (k + 1))
    OBVIOUS
  <2> QED
    BY <2>1
<1>2. B * n = B * (k + 1) + B * d /\ B * d \in Nat /\ B * (k + 1) \in Nat
  BY <1>1
<1> QED
  BY <1>2

LEMMA BlocksInOrder ==
  ASSUME NEW B \in Nat \ {0}, NEW a \in Nat, NEW b \in Nat, a <= b
  PROVE  a \div B <= b \div B
<1>1. PICK k, n : k = a \div B /\ n = b \div B
  OBVIOUS
<1>2. k \in Nat /\ n \in Nat /\ B * k <= a /\ b < B * (n + 1)
  BY <1>1, BlockBounds
<1>3. ASSUME n < k PROVE FALSE
  <2>1. B * (n + 1) <= B * k
    BY <1>2, <1>3, LaterBlock
  <2>2. B * (n + 1) \in Nat /\ B * k \in Nat
    BY <1>2
  <2> QED
    BY <1>2, <2>1, <2>2
<1> QED
  BY <1>1, <1>2, <1>3

LEMMA WithinBlocks ==
  ASSUME NEW B \in Nat \ {0}, NEW a \in Nat, NEW n \in Nat, a < B * n
  PROVE  a \div B < n
<1>1. PICK k : k = a \div B
  OBVIOUS
<1>2. k \in Nat /\ B * k <= a
  BY <1>1, BlockBounds
<1>3. ASSUME n <= k PROVE FALSE
  <2>1. CASE n = k
    BY <1>2, <2>1
  <2>2. CASE n < k
    <3>1. B * (n + 1) <= B * k /\ B * (n + 1) = B * n + B /\ B * n \in Nat /\ B * k \in Nat
      BY <1>2, <2>2, LaterBlock
    <3> QED
      BY <1>2, <3>1
  <2> QED
    BY <1>2, <1>3, <2>1, <2>2
<1> QED
  BY <1>1, <1>2, <1>3

\* GrowViaTruncate makes the file long enough for the block, within the bound.
LEMMA NewSizes ==
  ASSUME NEW b \in MmBlocks
  PROVE  NewSize(b) \in Nat /\ b < NewSize(b) /\ NewSize(b) <= MmMaxBlock + 1
<1>1. PICK c, M : c = MmChunk /\ M = MmMaxBlock
  OBVIOUS
<1>2. c \in Nat \ {0} /\ M \in Nat /\ M % c = 0 /\ b \in Nat /\ b <= M
  BY <1>1, MmAssumption DEF MmBlocks
<1>3. PICK k, n : k = (b + c - 1) \div c /\ n = M \div c
  OBVIOUS
<1>4. b + c - 1 \in Nat
  BY <1>2
<1>5. k \in Nat /\ c * k <= b + c - 1 /\ b + c - 1 < c * (k + 1)
  BY <1>2, <1>3, <1>4, BlockBounds
<1>6. n \in Nat /\ M = c * n
  BY <1>2, <1>3
<1>7. c * (k + 1) = c * k + c /\ c * k \in Nat
  BY <1>2, <1>5
<1>8. b <= c * k
  BY <1>2, <1>5, <1>7
<1>9. c * k <= M
  <2>1. ASSUME n < k PROVE FALSE
    <3>1. c * (n + 1) <= c * k /\ c * (n + 1) = c * n + c /\ c * n \in Nat
      BY <1>2, <1>5, <1>6, <2>1, LaterBlock
    <3> QED
      BY <1>2, <1>5, <1>6, <1>7, <3>1
  <2>2. CASE k = n
    BY <1>2, <1>6, <2>2
  <2>3. CASE k < n
    <3>1. c * (k + 1) <= c * n
      BY <1>2, <1>5, <1>6, <2>3, LaterBlock
    <3> QED
      BY <1>2, <1>6, <1>7, <3>1
  <2> QED
    BY <1>5, <1>6, <2>1, <2>2, <2>3
<1>10. NewSize(b) = c * k + 1
  BY <1>1, <1>3 DEF NewSize
<1> QED
  BY <1>1, <1>2, <1>7, <1>8, <1>9, <1>10

\* A thread with something left to write is at a block within the bound.
Plan(p) == p \in Nat \X Nat /\ p[1] + p[2] <= MmBlock * (MmMaxBlock + 1)

LEMMA AtBlock ==
  ASSUME NEW a \in MmThreadStates, NEW p, Plan(p), a.at + a.left = p[1] + p[2], a.left # 0
  PROVE  In(a) \in MmBlocks /\ In(a) \in Nat
<1>1. PICK B, n : B = MmBlock /\ n = MmMaxBlock + 1
  OBVIOUS
<1>2. B \in Nat \ {0} /\ n \in Nat /\ MmMaxBlock \in Nat
  BY <1>1, MmAssumption
<1>3. a.at \in Nat /\ a.left \in Nat /\ p[1] \in Nat /\ p[2] \in Nat
  BY DEF MmThreadStates, Plan
<1>4. B * n \in Nat /\ p[1] + p[2] <= B * n
  BY <1>1, <1>2 DEF Plan
<1>5. a.at < B * n
  BY <1>3, <1>4
<1>6. a.at \div B < n /\ a.at \div B \in Nat
  BY <1>2, <1>3, <1>5, WithinBlocks, BlockBounds
<1> QED
  BY <1>1, <1>2, <1>6 DEF In, MmBlocks

-----------------------------------------------------------------------------
(* What every step does to the threads that do not take it. *)

Grows(m, f, m2, f2) ==
  /\ m.size \in Nat /\ m2.size \in Nat /\ m.size <= m2.size
  /\ m.end \in Nat /\ m2.end \in Nat /\ m.end <= m2.end
  /\ m2.open = m.open
  /\ \A b \in MmBlocks : m.segs[b] # NoView => m2.segs[b] # NoView
  /\ f.bytes \subseteq f2.bytes /\ f.flushed \subseteq f2.flushed

LEMMA SameIsLess ==
  ASSUME NEW x \in Nat, NEW y, y = x
  PROVE  x <= y
OBVIOUS

LEMMA GrowsSelf ==
  ASSUME NEW m, NEW f, NEW f2, m.size \in Nat, m.end \in Nat, f.bytes \subseteq f2.bytes, f.flushed \subseteq f2.flushed
  PROVE  Grows(m, f, m, f2)
<1>1. m.size <= m.size /\ m.end <= m.end
  OBVIOUS
<1> QED
  BY <1>1 DEF Grows

LEMMA StillCopied ==
  ASSUME NEW m, NEW f, NEW m2, NEW f2, NEW a, NEW p, Plan(p), Grows(m, f, m2, f2), Copied(m, f, a, p)
  PROVE  Copied(m2, f2, a, p)
<1>1. p[1] + p[2] \in Nat
  BY DEF Plan
<1>2. a.pc # "idle" /\ m2.open => p[2] = 0 \/ p[1] + p[2] <= m2.end
  BY <1>1 DEF Grows, Copied
<1> QED
  BY <1>2 DEF Grows, Copied

LEMMA StillKnows ==
  ASSUME NEW m, NEW f, NEW m2, NEW f2, NEW a \in MmThreadStates, NEW p, Plan(p), Grows(m, f, m2, f2),
         Copied(m, f, a, p), Knows(m, a)
  PROVE  Knows(m2, a)
<1>1. a.pc \in {"create", "view", "record", "unmap", "copy"} => In(a) \in MmBlocks /\ In(a) \in Nat
  BY AtBlock DEF Copied
<1>2. a.pc \in {"create", "view", "record", "unmap", "copy"} => In(a) < m2.size
  BY <1>1 DEF Grows, Knows
<1>3. a.pc \in {"unmap", "copy"} => m2.segs[In(a)] # NoView
  BY <1>1 DEF Grows, Knows
<1> QED
  BY <1>2, <1>3 DEF Grows, Knows

LEMMA StillOK ==
  ASSUME NEW m, NEW f, NEW m2, NEW f2, NEW a \in MmThreadStates, NEW p, Plan(p), Grows(m, f, m2, f2),
         MmThreadOK(m, f, a, p)
  PROVE  MmThreadOK(m2, f2, a, p)
<1>1. Copied(m2, f2, a, p)
  BY StillCopied DEF MmThreadOK
<1>2. Knows(m2, a)
  BY StillKnows DEF MmThreadOK
<1>3. Flushed(f2, a, p)
  BY DEF Grows, Flushed, MmThreadOK
<1> QED
  BY <1>1, <1>2, <1>3 DEF MmThreadOK

\* Every thread is as far as before, and views are held by the same threads.
Stays(a, q) ==
  /\ q.at = a.at /\ q.left = a.left
  /\ a.pc = "copy" => q.pc = "copy"
  /\ a.pc \in {"record", "unmap"} <=> q.pc \in {"record", "unmap"}

LEMMA QuietStep ==
  ASSUME NEW m, NEW f, NEW T, NEW P, NEW m2, NEW f2, NEW T2,
         MmOK(m, f, T, P), Grows(m, f, m2, f2), m2.segs = m.segs, m2.size <= MmMaxBlock + 1,
         f2.bytes = f.bytes, f2.views = f.views,
         \A t \in MmThreads : Stays(T[t], T2[t]) /\ MmThreadOK(m2, f2, T2[t], P[t])
  PROVE  MmOK(m2, f2, T2, P)
<1>1. ASSUME NEW b \in MmBlocks, m2.segs[b] # NoView
      PROVE  b < m2.size /\ \E u \in MmThreads : m2.segs[b] = <<u, b>> /\ Past(T2[u], b)
  <2>1. PICK u \in MmThreads : m.segs[b] = <<u, b>> /\ Past(T[u], b)
    BY <1>1 DEF MmOK, SegsOK
  <2>2. Past(T2[u], b)
    BY <2>1 DEF Past, Stays, In
  <2>3. b < m.size /\ b \in Nat
    BY <1>1, MmAssumption DEF MmOK, SegsOK, MmBlocks
  <2>4. b < m2.size
    BY <2>3 DEF Grows
  <2> QED
    BY <2>1, <2>2, <2>4
<1>2. SegsOK(m2, T2)
  BY <1>1 DEF SegsOK
<1>3. BytesOK(m2, f2)
  BY DEF MmOK, BytesOK, Grows
<1>4. Held(T2) = Held(T)
  <2>1. \A t \in MmThreads : In(T2[t]) = In(T[t]) /\ (T2[t].pc \in {"record", "unmap"} <=> T[t].pc \in {"record", "unmap"})
    BY DEF Stays, In
  <2> QED
    BY <2>1 DEF Held
<1>5. ViewsOK(m2, f2, T2)
  BY <1>4 DEF MmOK, ViewsOK, Segments
<1>6. SizeOK(m2)
  BY DEF MmOK, SizeOK, Grows
<1> QED
  BY <1>2, <1>3, <1>5, <1>6 DEF MmOK

\* The same for a step of t alone.
LEMMA QuietStepOf ==
  ASSUME NEW m, NEW f, NEW T \in [MmThreads -> MmThreadStates], NEW P, NEW m2, NEW f2, NEW t \in MmThreads, NEW q,
         MmOK(m, f, T, P), Grows(m, f, m2, f2), m2.segs = m.segs, m2.size <= MmMaxBlock + 1,
         f2.bytes = f.bytes, f2.views = f.views, \A u \in MmThreads : Plan(P[u]),
         Stays(T[t], q), MmThreadOK(m2, f2, q, P[t])
  PROVE  MmOK(m2, f2, [T EXCEPT ![t] = q], P)
<1>1. PICK T2 : T2 = [T EXCEPT ![t] = q]
  BY Zenon
<1>2. ASSUME NEW u \in MmThreads PROVE Stays(T[u], T2[u]) /\ MmThreadOK(m2, f2, T2[u], P[u])
  <2>1. CASE u = t
    BY <1>1, <2>1
  <2>2. CASE u # t
    <3>1. T2[u] = T[u] /\ T[u] \in MmThreadStates /\ MmThreadOK(m, f, T[u], P[u]) /\ Plan(P[u])
      BY <1>1, <2>2 DEF MmOK
    <3>2. Stays(T[u], T2[u])
      BY <3>1 DEF Stays
    <3>3. MmThreadOK(m2, f2, T2[u], P[u])
      BY <3>1, StillOK
    <3> QED
      BY <3>2, <3>3
  <2> QED
    BY <2>1, <2>2
<1>3. MmOK(m2, f2, T2, P)
  BY <1>2, QuietStep
<1> QED
  BY <1>1, <1>3

-----------------------------------------------------------------------------
(* The actions. *)

Writing == {"grow", "waiting", "chsize", "swap", "create", "view", "record", "unmap", "copy"}

\* A thread that only goes to another place of the code.
Repointed(a, q) == q.at = a.at /\ q.left = a.left /\ q.sync = a.sync /\ q.ok = a.ok

LEMMA PlaceOK ==
  ASSUME NEW m, NEW f, NEW a, NEW q, NEW p, MmThreadOK(m, f, a, p), Repointed(a, q), Knows(m, q),
         q.pc # "synced", q.pc \in Writing => a.left # 0, q.pc = "written" => a.left = 0,
         m.open => p[2] = 0 \/ p[1] + p[2] <= m.end
  PROVE  MmThreadOK(m, f, q, p)
<1>1. Copied(m, f, q, p)
  BY DEF MmThreadOK, Copied, Repointed, Writing
<1>2. Flushed(f, q, p)
  BY DEF MmThreadOK, Flushed, Repointed
<1> QED
  BY <1>1, <1>2 DEF MmThreadOK

\* The state of a thread that is at a place of the code other than the ends.
LEMMA MmFacts ==
  ASSUME MmInv, NEW t \in MmThreads, NEW a, a = mmt[t], mm.halted = "", a.pc \notin {"synced", "failed"}
  PROVE  /\ mm \in MmStates /\ mmfile \in FileStates /\ mmt \in [MmThreads -> MmThreadStates]
         /\ a \in MmThreadStates /\ mmplan \in MmPlans
         /\ MmOK(mm, mmfile, mmt, mmplan) /\ MmThreadOK(mm, mmfile, a, mmplan[t])
         /\ \A u \in MmThreads : Plan(mmplan[u])
         /\ mm.open
<1>1. mm \in MmStates /\ mmfile \in FileStates /\ mmt \in [MmThreads -> MmThreadStates] /\ mmplan \in MmPlans
  BY Zenon DEF MmInv, MmTypes
<1>2. MmOK(mm, mmfile, mmt, mmplan)
  BY Zenon DEF MmInv, MmRuns
<1>3. MmThreadOK(mm, mmfile, a, mmplan[t])
  BY <1>2, Zenon DEF MmOK
<1>4. \A u \in MmThreads : Plan(mmplan[u])
  BY <1>1, MmAssumption, Zenon DEF Plan
<1>5. mm.open
  BY <1>1, <1>3, Zenon DEF MmThreadOK, Knows, MmStates
<1> QED
  BY <1>1, <1>2, <1>3, <1>4, <1>5, Zenon

LEMMA WentTo ==
  ASSUME mmt \in [MmThreads -> MmThreadStates], NEW t \in MmThreads, NEW pc \in Pcs, MmGoto(t, pc)
  PROVE  \E q \in MmThreadStates :
           /\ mmt' = [mmt EXCEPT ![t] = q] /\ q.pc = pc /\ Repointed(mmt[t], q) /\ q.grown = mmt[t].grown
<1>1. PICK a \in MmThreadStates : a = mmt[t]
  OBVIOUS
<1>2. PICK q : q = [a EXCEPT !.pc = pc]
  BY Zenon
<1>3. q \in MmThreadStates /\ q.pc = pc /\ Repointed(a, q) /\ q.grown = a.grown
  BY <1>1, <1>2 DEF MmThreadStates, Repointed
<1>4. mmt' = [mmt EXCEPT ![t] = q]
  BY <1>1, <1>2 DEF MmGoto
<1> QED
  BY <1>1, <1>3, <1>4, Zenon

\* A step that leaves segments, bytes and views alone.
QuietFor(t, q) ==
  /\ q \in MmThreadStates /\ mmt' = [mmt EXCEPT ![t] = q] /\ UNCHANGED mmplan
  /\ mm' \in MmStates /\ mmfile' \in FileStates
  /\ mm'.segs = mm.segs /\ mm'.size = mm.size /\ mm.end <= mm'.end /\ mm'.open = mm.open
  /\ mmfile'.bytes = mmfile.bytes /\ mmfile'.views = mmfile.views /\ mmfile.flushed \subseteq mmfile'.flushed
  /\ Stays(mmt[t], q)

LEMMA QuietGrows ==
  ASSUME MmInv, NEW t, NEW q, QuietFor(t, q)
  PROVE  Grows(mm, mmfile, mm', mmfile')
<1>1. mm.size \in Nat /\ mm.end \in Nat /\ mm'.size \in Nat /\ mm'.end \in Nat
  BY Zenon DEF MmInv, MmTypes, QuietFor, MmStates
<1>2. mm.size <= mm'.size
  BY <1>1 DEF QuietFor
<1> QED
  BY <1>1, <1>2 DEF Grows, QuietFor

LEMMA QuietKeeps ==
  ASSUME MmInv, NEW t \in MmThreads, NEW q, mm.halted = "", mmt[t].pc \notin {"synced", "failed"},
         QuietFor(t, q), MmThreadOK(mm', mmfile', q, mmplan[t])
  PROVE  MmInv'
<1>1. PICK m, f, T, P, m2, f2 : m = mm /\ f = mmfile /\ T = mmt /\ P = mmplan /\ m2 = mm' /\ f2 = mmfile'
  BY Zenon
<1>2. T \in [MmThreads -> MmThreadStates] /\ MmOK(m, f, T, P) /\ \A u \in MmThreads : Plan(P[u])
  BY <1>1, MmFacts, Zenon
<1>3. Grows(m, f, m2, f2)
  BY <1>1, QuietGrows, Zenon
<1>4. m2.segs = m.segs /\ f2.bytes = f.bytes /\ f2.views = f.views /\ Stays(T[t], q)
  BY <1>1, Zenon DEF QuietFor
<1>5. m2.size <= MmMaxBlock + 1
  BY <1>1, <1>2, Zenon DEF QuietFor, MmOK, SizeOK
<1>6. MmThreadOK(m2, f2, q, P[t])
  BY <1>1, Zenon
<1>7. MmOK(m2, f2, [T EXCEPT ![t] = q], P)
  BY <1>2, <1>3, <1>4, <1>5, <1>6, QuietStepOf, Zenon
<1>8. mmt' = [T EXCEPT ![t] = q] /\ mmt' \in [MmThreads -> MmThreadStates] /\ mmplan' = P
  BY <1>1, <1>2, Zenon DEF QuietFor
<1>9. MmTypes'
  BY <1>8, Zenon DEF MmTypes, MmInv, QuietFor
<1> QED
  BY <1>1, <1>7, <1>8, <1>9, Zenon DEF MmInv

\* The same for a step to another place of the code.
LEMMA QuietPlace ==
  ASSUME MmInv, NEW t \in MmThreads, NEW q, mm.halted = "", mmt[t].pc \notin {"idle", "synced", "failed"},
         QuietFor(t, q), Repointed(mmt[t], q), Knows(mm', q),
         q.pc # "synced", q.pc \in Writing => mmt[t].left # 0, q.pc = "written" => mmt[t].left = 0
  PROVE  MmInv'
<1>1. PICK m, f, m2, f2, a, p : m = mm /\ f = mmfile /\ m2 = mm' /\ f2 = mmfile' /\ a = mmt[t] /\ p = mmplan[t]
  BY Zenon
<1>2. MmThreadOK(m, f, a, p) /\ a \in MmThreadStates /\ Plan(p)
  BY <1>1, MmFacts, Zenon
<1>3. Grows(m, f, m2, f2)
  BY <1>1, QuietGrows, Zenon
<1>4. MmThreadOK(m2, f2, a, p)
  BY <1>2, <1>3, StillOK, Zenon
<1>5. m2.open => p[2] = 0 \/ p[1] + p[2] <= m2.end
  BY <1>1, <1>4, Zenon DEF MmThreadOK, Copied
<1>6. MmThreadOK(m2, f2, q, p)
  BY <1>1, <1>4, <1>5, PlaceOK, Zenon
<1> QED
  BY <1>1, <1>6, QuietKeeps, Zenon

LEMMA WriteAtCallKeeps ==
  ASSUME MmInv, NEW t \in MmThreads, WriteAtCall(t)
  PROVE  MmInv'
<1>1. mm.halted = "" /\ mmt[t].pc = "idle" /\ MmGoto(t, "look") /\ mmfile' = mmfile /\ mmplan' = mmplan
  BY Zenon DEF WriteAtCall, MmAt
<1>2. PICK a, p, e : a = mmt[t] /\ p = mmplan[t] /\ e = EndOffset(mm.end, a.at + a.left)
  OBVIOUS
<1>3. /\ mm \in MmStates /\ mmt \in [MmThreads -> MmThreadStates] /\ mmfile \in FileStates
      /\ a \in MmThreadStates /\ MmThreadOK(mm, mmfile, a, p) /\ Plan(p)
  BY <1>1, <1>2, MmFacts, Zenon
<1>4. a.at + a.left = p[1] + p[2] /\ a.at + a.left \in Nat /\ mm.end \in Nat
  <2>1. a.at + a.left = p[1] + p[2]
    BY <1>3 DEF MmThreadOK, Copied
  <2>2. a.at \in Nat /\ a.left \in Nat
    BY <1>3 DEF MmThreadStates
  <2>3. mm.end \in Nat
    BY <1>3, Zenon DEF MmStates
  <2> QED
    BY <2>1, <2>2, <2>3
<1>5. e \in Nat /\ mm.end <= e /\ p[1] + p[2] <= e
  BY <1>2, <1>4 DEF EndOffset
<1>6. mm' = [mm EXCEPT !.end = e]
  BY <1>2 DEF WriteAtCall
<1>7. PICK q \in MmThreadStates :
        mmt' = [mmt EXCEPT ![t] = q] /\ q.pc = "look" /\ Repointed(a, q)
  <2>1. "look" \in Pcs
    BY DEF Pcs
  <2> QED
    BY <1>1, <1>2, <1>3, <2>1, WentTo, Zenon
<1>8. mm' \in MmStates /\ mm'.end = e /\ mm'.segs = mm.segs /\ mm'.size = mm.size /\ mm'.open = mm.open
  BY <1>3, <1>5, <1>6, Zenon DEF MmStates
<1>9. Stays(a, q)
  BY <1>1, <1>2, <1>7, Zenon DEF Stays, Repointed
<1>10. QuietFor(t, q)
  BY <1>1, <1>2, <1>3, <1>5, <1>7, <1>8, <1>9, Zenon DEF QuietFor
<1>11. MmThreadOK(mm', mmfile', a, p)
  <2>1. PICK m2, f2 : m2 = mm' /\ f2 = mmfile'
    OBVIOUS
  <2>2. Grows(mm, mmfile, m2, f2)
    BY <1>10, <2>1, QuietGrows
  <2>3. MmThreadOK(m2, f2, a, p)
    BY <1>3, <2>2, StillOK
  <2> QED
    BY <2>1, <2>3
<1>12. Knows(mm', q)
  <2>1. mm'.open
    BY <1>1, <1>2, <1>8, MmFacts, Zenon
  <2> QED
    BY <1>7, <2>1 DEF Knows
<1>13. MmThreadOK(mm', mmfile', q, p)
  BY <1>5, <1>7, <1>8, <1>11, <1>12, PlaceOK DEF Writing
<1> QED
  BY <1>1, <1>2, <1>10, <1>13, QuietKeeps, Zenon

QuietFiles ==
  /\ UNCHANGED mmplan
  /\ mm' \in MmStates /\ mmfile' \in FileStates
  /\ mm'.segs = mm.segs /\ mm'.size = mm.size /\ mm.end <= mm'.end /\ mm'.open = mm.open
  /\ mmfile'.bytes = mmfile.bytes /\ mmfile'.views = mmfile.views /\ mmfile.flushed \subseteq mmfile'.flushed

LEMMA GotoKeeps ==
  ASSUME MmInv, NEW t \in MmThreads, NEW pc \in Pcs \ {"swap", "synced"}, NEW a, a = mmt[t],
         mm.halted = "", a.pc \notin {"idle", "copy", "synced", "failed"},
         MmGoto(t, pc), QuietFiles, a.pc \in {"record", "unmap"} <=> pc \in {"record", "unmap"},
         pc \in Writing => a.left # 0, pc = "written" => a.left = 0,
         pc \in {"create", "view", "record", "unmap", "copy"} => In(a) < mm.size,
         pc \in {"unmap", "copy"} => mm.segs[In(a)] # NoView
  PROVE  MmInv'
<1>1. mmt \in [MmThreads -> MmThreadStates] /\ mm.open
  BY MmFacts, Zenon
<1>2. PICK q \in MmThreadStates : mmt' = [mmt EXCEPT ![t] = q] /\ q.pc = pc /\ Repointed(a, q)
  BY <1>1, WentTo, Zenon
<1>3. In(q) = In(a)
  BY <1>2, Zenon DEF Repointed, In
<1>4. mm'.open /\ mm'.segs = mm.segs /\ mm'.size = mm.size
  BY <1>1, Zenon DEF QuietFiles
<1>5. Knows(mm', q)
  BY <1>2, <1>3, <1>4, Zenon DEF Knows
<1>6. Stays(a, q)
  BY <1>2, Zenon DEF Stays, Repointed
<1>7. QuietFor(t, q)
  BY <1>2, <1>6, Zenon DEF QuietFor, QuietFiles
<1> QED
  BY <1>2, <1>5, <1>7, QuietPlace, Zenon

\* The block a thread has to write to.
LEMMA MmHere ==
  ASSUME MmInv, NEW t \in MmThreads, NEW a, a = mmt[t], mm.halted = "", a.pc \notin {"synced", "failed"},
         a.left # 0
  PROVE  In(a) \in MmBlocks /\ In(a) \in Nat /\ mm.size \in Nat
<1>1. a \in MmThreadStates /\ MmThreadOK(mm, mmfile, a, mmplan[t]) /\ Plan(mmplan[t]) /\ mm \in MmStates
  BY MmFacts, Zenon
<1>2. a.at + a.left = mmplan[t][1] + mmplan[t][2]
  BY <1>1, Zenon DEF MmThreadOK, Copied
<1>3. mm.size \in Nat
  BY <1>1, Zenon DEF MmStates
<1> QED
  BY <1>1, <1>2, <1>3, AtBlock, Zenon

LEMMA LookSegmentKeeps ==
  ASSUME MmInv, NEW t \in MmThreads, LookSegment(t)
  PROVE  MmInv'
<1>1. mm.halted = "" /\ mmt[t].pc = "look" /\ mm' = mm /\ mmfile' = mmfile /\ mmplan' = mmplan
  BY Zenon DEF LookSegment, MmAt
<1>2. PICK a : a = mmt[t]
  OBVIOUS
<1>3. mm \in MmStates /\ mmfile \in FileStates
  BY <1>1, <1>2, MmFacts, Zenon
<1>4. QuietFiles
  <2>0. mm.end \in Nat
    BY <1>3, Zenon DEF MmStates
  <2>1. mm.end <= mm.end
    BY <2>0
  <2> QED
    BY <1>1, <1>3, <2>1, Zenon DEF QuietFiles
<1>5. PICK pc : /\ MmGoto(t, pc)
                /\ pc = (IF a.left = 0 THEN "written" ELSE IF mm.size <= In(a) THEN "grow"
                         ELSE IF mm.segs[In(a)] = NoView THEN "create" ELSE "copy")
  BY <1>2 DEF LookSegment, BlockOf, In
<1>6. a.left # 0 => In(a) \in Nat /\ mm.size \in Nat
  BY <1>1, <1>2, MmHere, Zenon
<1>7. pc \in {"written", "grow", "create", "copy"}
  BY <1>5
<1>8. pc \in {"create", "copy"} => a.left # 0 /\ In(a) < mm.size
  BY <1>5, <1>6
<1>9. pc = "copy" => mm.segs[In(a)] # NoView
  BY <1>5
<1>10. (pc \in Writing => a.left # 0) /\ (pc = "written" => a.left = 0)
  BY <1>5 DEF Writing
<1>11. pc \in Pcs \ {"swap", "synced"}
  BY <1>7 DEF Pcs
<1> QED
  BY <1>1, <1>2, <1>4, <1>5, <1>7, <1>8, <1>9, <1>10, <1>11, GotoKeeps, Zenon

LEMMA GrowViaTruncateKeeps ==
  ASSUME MmInv, NEW t \in MmThreads, GrowViaTruncate(t)
  PROVE  MmInv'
<1>1. mm.halted = "" /\ mmt[t].pc = "grow" /\ mmfile' = mmfile /\ mmplan' = mmplan
  BY Zenon DEF GrowViaTruncate, MmAt
<1>2. PICK a : a = mmt[t]
  OBVIOUS
<1>3. mm \in MmStates /\ mmfile \in FileStates /\ MmThreadOK(mm, mmfile, a, mmplan[t])
  BY <1>1, <1>2, MmFacts, Zenon
<1>4. a.left # 0
  BY <1>1, <1>2, <1>3, Zenon DEF MmThreadOK, Copied
<1>5. In(a) \in Nat /\ mm.size \in Nat
  BY <1>1, <1>2, <1>4, MmHere, Zenon
<1>6. mm.size <= In(a) => mm.size <= BlockOf(t)
  BY <1>2 DEF BlockOf, In
<1>7. PICK pc \in {"waiting", "chsize", "create"} :
        /\ MmGoto(t, pc) /\ (pc = "create" => ~ (mm.size <= In(a)))
        /\ mm' = mm \/ mm' = [mm EXCEPT !.trunc = TRUE] \/ mm' = [mm EXCEPT !.trunc = FALSE]
  <2>1. CASE mm.size <= In(a)
    <3>1. mm.size <= BlockOf(t)
      BY <1>6, <2>1
    <3>2. \/ MmGoto(t, "waiting") /\ mm' = mm
          \/ MmGoto(t, "chsize") /\ mm' = [mm EXCEPT !.trunc = TRUE]
      BY <3>1, Zenon DEF GrowViaTruncate
    <3> QED
      BY <3>2, Zenon
  <2>2. CASE ~ (mm.size <= In(a))
    <3>1. ~ (mm.size <= BlockOf(t))
      BY <1>2, <2>2 DEF BlockOf, In
    <3>a. MmGoto(t, "create")
      BY <3>1, Zenon DEF GrowViaTruncate
    <3>b. mm' = [mm EXCEPT !.trunc = (mm.size <= BlockOf(t))]
      BY <3>1, Zenon DEF GrowViaTruncate
    <3>c. (mm.size <= BlockOf(t)) = FALSE
      BY <3>1
    <3>2. MmGoto(t, "create") /\ mm' = [mm EXCEPT !.trunc = FALSE]
      BY <3>a, <3>b, <3>c, Zenon
    <3> QED
      BY <2>2, <3>2, Zenon
  <2> QED
    BY <2>1, <2>2
<1>8. mm' \in MmStates /\ mm'.segs = mm.segs /\ mm'.size = mm.size /\ mm'.end = mm.end /\ mm'.open = mm.open
  BY <1>3, <1>7, Zenon DEF MmStates
<1>9. QuietFiles
  <2>0. mm.end \in Nat
    BY <1>3, Zenon DEF MmStates
  <2>1. mm.end <= mm'.end
    BY <2>0, <1>8
  <2> QED
    BY <1>1, <1>3, <1>8, <2>1, Zenon DEF QuietFiles
<1>10. pc = "create" => In(a) < mm.size
  BY <1>5, <1>6, <1>7
<1>11. pc \in Pcs \ {"swap", "synced"}
  BY <1>7 DEF Pcs
<1> QED
  BY <1>1, <1>2, <1>4, <1>7, <1>9, <1>10, <1>11, GotoKeeps, Zenon

LEMMA CreateMappingKeeps ==
  ASSUME MmInv, NEW t \in MmThreads, CreateMapping(t)
  PROVE  MmInv'
<1>1. mm.halted = "" /\ mmt[t].pc = "create" /\ mmplan' = mmplan /\ MmGoto(t, "view")
  BY Zenon DEF CreateMapping, MmAt
<1>2. PICK a, v : a = mmt[t] /\ v = <<t, In(a)>>
  BY Zenon
<1>3. mm \in MmStates /\ mmfile \in FileStates /\ MmThreadOK(mm, mmfile, a, mmplan[t])
  BY <1>1, <1>2, MmFacts, Zenon
<1>4. a.left # 0 /\ In(a) < mm.size
  BY <1>1, <1>2, <1>3, Zenon DEF MmThreadOK, Copied, Knows
<1>5. v \in MmThreads \X MmBlocks
  BY <1>1, <1>2, <1>4, MmHere, Zenon
<1>6. mm' = [mm EXCEPT !.base = v] /\ mmfile' = [mmfile EXCEPT !.handles = @ \cup {v}]
  BY <1>2 DEF CreateMapping, BlockOf, In
<1>7. mm' \in MmStates /\ mm'.segs = mm.segs /\ mm'.size = mm.size /\ mm'.end = mm.end /\ mm'.open = mm.open
  BY <1>3, <1>5, <1>6, Zenon DEF MmStates, AnyView
<1>8. /\ mmfile' \in FileStates /\ mmfile'.bytes = mmfile.bytes /\ mmfile'.views = mmfile.views
      /\ mmfile'.flushed = mmfile.flushed
  BY <1>3, <1>5, <1>6 DEF FileStates
<1>9. QuietFiles
  <2>0. mm.end \in Nat
    BY <1>3, Zenon DEF MmStates
  <2>1. mm.end <= mm'.end
    BY <2>0, <1>7
  <2> QED
    BY <1>1, <1>7, <1>8, <2>1, Zenon DEF QuietFiles
<1>10. "view" \in Pcs \ {"swap", "synced"}
  BY DEF Pcs
<1> QED
  BY <1>1, <1>2, <1>4, <1>9, <1>10, GotoKeeps, Zenon

\* Nothing that is written is in a block that _chsize cuts off.
LEMMA NothingCut ==
  ASSUME NEW m, NEW f \in FileStates, NEW T, NEW P, NEW n, MmOK(m, f, T, P), m.open,
         ~ \E v \in f.views : v[2] >= n, n \in Nat
  PROVE  {x \in f.bytes : x \div MmBlock < n} = f.bytes
<1>1. ASSUME NEW x \in f.bytes PROVE x \div MmBlock < n
  <2>1. PICK b : b = x \div MmBlock
    OBVIOUS
  <2>2. b \in MmBlocks /\ m.segs[b] # NoView
    BY <2>1 DEF MmOK, BytesOK
  <2>3. PICK u \in MmThreads : m.segs[b] = <<u, b>>
    BY <2>2 DEF MmOK, SegsOK
  <2>4. m.segs[b] \in Segments(m)
    BY <2>2 DEF Segments
  <2>5. <<u, b>> \in f.views
    BY <2>3, <2>4 DEF MmOK, ViewsOK
  <2>6. ~ (b >= n)
    BY <2>5
  <2>7. b \in Nat
    BY <2>2, MmAssumption DEF MmBlocks
  <2> QED
    BY <2>1, <2>6, <2>7
<1> QED
  BY <1>1

LEMMA TruncateKeeps ==
  ASSUME MmInv, NEW t \in MmThreads, Truncate(t)
  PROVE  MmInv'
<1>1. mm.halted = "" /\ mmt[t].pc = "chsize" /\ mm' = mm /\ mmplan' = mmplan
  BY Zenon DEF Truncate, MmAt
<1>2. PICK a, n : a = mmt[t] /\ n = NewSize(In(a))
  OBVIOUS
<1>3. /\ mm \in MmStates /\ mmfile \in FileStates /\ MmThreadOK(mm, mmfile, a, mmplan[t]) /\ mm.open
      /\ MmOK(mm, mmfile, mmt, mmplan) /\ a \in MmThreadStates /\ mmt \in [MmThreads -> MmThreadStates]
  BY <1>1, <1>2, MmFacts, Zenon
<1>4. a.left # 0
  BY <1>1, <1>2, <1>3, Zenon DEF MmThreadOK, Copied
<1>5. n \in Nat
  BY <1>1, <1>2, <1>4, MmHere, NewSizes, Zenon
<1>6. PICK g \in {n, -n} : mmt' = [mmt EXCEPT ![t].pc = "swap", ![t].grown = g]
  BY <1>2 DEF Truncate, BlockOf, In
<1>7. PICK q : q = [a EXCEPT !.pc = "swap", !.grown = g]
  OBVIOUS
<1>8. g \in Int
  BY <1>5, <1>6
<1>9. q \in MmThreadStates /\ q.pc = "swap" /\ q.grown = g /\ Repointed(a, q)
  BY <1>3, <1>7, <1>8, Zenon DEF MmThreadStates, Repointed, Pcs
<1>10. mmt' = [mmt EXCEPT ![t] = q]
  BY <1>2, <1>3, <1>6, <1>7, Zenon
<1>11. /\ mmfile' \in FileStates /\ mmfile'.bytes = mmfile.bytes /\ mmfile'.views = mmfile.views
       /\ mmfile'.flushed = mmfile.flushed
  <2>1. NewSize(BlockOf(t)) = n
    BY <1>2 DEF BlockOf, In
  <2>2. CASE /\ ~ \E v \in mmfile.views : v[2] >= n
             /\ mmfile' = [mmfile EXCEPT !.blocks = n, !.bytes = {x \in @ : x \div MmBlock < n}]
    <3>1. {x \in mmfile.bytes : x \div MmBlock < n} = mmfile.bytes
      BY <1>3, <1>5, <2>2, NothingCut
    <3>2. mmfile' = [mmfile EXCEPT !.blocks = n, !.bytes = mmfile.bytes]
      BY <2>2, <3>1, Zenon
    <3> QED
      BY <1>3, <1>5, <3>2, Zenon DEF FileStates
  <2>3. CASE mmfile' = mmfile \/ mmfile' = [mmfile EXCEPT !.bad = @ + 1]
    BY <1>3, <2>3 DEF FileStates
  <2>4. mmfile' = [mmfile EXCEPT !.bad = mmfile.bad] => mmfile' = mmfile
    BY <1>3 DEF FileStates
  <2> QED
    BY <2>1, <2>2, <2>3, <2>4, Zenon DEF Truncate
<1>12. Stays(a, q)
  BY <1>1, <1>2, <1>9, Zenon DEF Stays, Repointed
<1>13. mm.end <= mm'.end
  <2>1. mm.end \in Nat
    BY <1>3, Zenon DEF MmStates
  <2>2. mm'.end = mm.end
    BY <1>1, Zenon
  <2> QED
    BY <2>1, <2>2
<1>14. QuietFor(t, q)
  BY <1>1, <1>2, <1>3, <1>9, <1>10, <1>11, <1>12, <1>13, Zenon DEF QuietFor
<1>15. In(q) = In(a)
  BY <1>9 DEF In, Repointed
<1>16. Knows(mm', q)
  BY <1>1, <1>2, <1>3, <1>6, <1>9, <1>15, Zenon DEF Knows
<1> QED
  BY <1>1, <1>2, <1>4, <1>9, <1>14, <1>16, QuietPlace, Zenon

\* What a thread that has written everything finds when it comes to a block.
LEMMA AllStored ==
  ASSUME NEW m, NEW f, NEW a \in MmThreadStates, NEW p, Plan(p), MmThreadOK(m, f, a, p), a.left = 0
  PROVE  All(p) \subseteq f.bytes
<1>1. a.at \in Nat /\ p[1] + p[2] \in Nat /\ a.at + a.left = p[1] + p[2]
  BY DEF MmThreadStates, Plan, MmThreadOK, Copied
<1>2. a.at = p[1] + p[2]
  BY <1>1
<1>3. p[1] .. (a.at - 1) \subseteq f.bytes
  BY DEF MmThreadOK, Copied
<1>4. All(p) = p[1] .. (a.at - 1)
  <2>1. ASSUME NEW x PROVE x \in All(p) <=> x \in p[1] .. (a.at - 1)
    <3>1. p[1] \in Nat /\ p[2] \in Nat /\ a.at \in Nat
      BY <1>1 DEF Plan
    <3> QED
      BY <1>2, <3>1 DEF All
  <2> QED
    BY <2>1, Zenon
<1> QED
  BY <1>3, <1>4

LEMMA SyncGoesOn ==
  ASSUME NEW m, NEW f, NEW f2, NEW a \in MmThreadStates, NEW q, NEW p, Plan(p), MmThreadOK(m, f, a, p),
         a.left = 0, a.pc = "written", NEW ok, q = [a EXCEPT !.sync = a.sync + 1, !.ok = ok], f2.bytes = f.bytes,
         ok => a.ok, f.flushed \subseteq f2.flushed,
         ok => {x \in f.bytes : x \div MmBlock = a.sync} \subseteq f2.flushed
  PROVE  MmThreadOK(m, f2, q, p)
<1>1. /\ q.pc = "written" /\ q.at = a.at /\ q.left = 0 /\ q.sync = a.sync + 1 /\ In(q) = In(a)
      /\ q.ok = ok
  BY DEF MmThreadStates, In
<1>2. Copied(m, f2, q, p)
  BY <1>1 DEF MmThreadOK, Copied
<1>3. Knows(m, q)
  BY <1>1 DEF MmThreadOK, Knows
<1>4. ASSUME q.ok, NEW x \in All(p), x \div MmBlock < q.sync PROVE x \in f2.flushed
  <2>1. x \in f.bytes
    BY AllStored
  <2>2. x \in Nat /\ MmBlock \in Nat \ {0} /\ a.sync \in Nat
    BY MmAssumption DEF All, Plan, MmThreadStates
  <2>3. x \div MmBlock \in Nat
    BY <2>2, BlockBounds
  <2>4. x \div MmBlock < a.sync \/ x \div MmBlock = a.sync
    BY <1>1, <1>4, <2>2, <2>3
  <2>5. x \div MmBlock < a.sync => x \in f.flushed
    BY <1>1, <1>4 DEF MmThreadOK, Flushed
  <2> QED
    BY <1>1, <1>4, <2>1, <2>4, <2>5
<1>5. Flushed(f2, q, p)
  BY <1>1, <1>4 DEF Flushed
<1> QED
  BY <1>2, <1>3, <1>5 DEF MmThreadOK

LEMMA SyncEnds ==
  ASSUME NEW m \in MmStates, NEW f \in FileStates, NEW T, NEW P, NEW a \in MmThreadStates, NEW q \in MmThreadStates,
         NEW p, Plan(p), MmThreadOK(m, f, a, p), MmOK(m, f, T, P), m.open, a.left = 0, a.pc = "written",
         a.sync >= m.size \/ m.segs[a.sync] = NoView,
         q.pc = "synced", q.at = a.at, q.left = a.left, q.sync = a.sync, q.ok = a.ok
  PROVE  MmThreadOK(m, f, q, p)
<1>1. Copied(m, f, q, p)
  BY DEF MmThreadOK, Copied
<1>2. Knows(m, q)
  BY DEF Knows
<1>3. ASSUME q.ok, NEW x \in All(p), x \notin f.flushed PROVE q.sync < x \div MmBlock
  <2>1. PICK c : c = x \div MmBlock
    OBVIOUS
  <2>2. x \in f.bytes
    BY AllStored
  <2>3. c \in MmBlocks /\ m.segs[c] # NoView
    BY <2>1, <2>2 DEF MmOK, BytesOK
  <2>4. c < m.size
    BY <2>3, Zenon DEF MmOK, SegsOK
  <2>5. ~ (c < a.sync)
    BY <1>3, <2>1 DEF MmThreadOK, Flushed
  <2>6. c \in Nat /\ a.sync \in Nat /\ m.size \in Nat
    <3>1. c \in Nat
      BY <2>3, MmAssumption DEF MmBlocks
    <3>2. a.sync \in Nat
      BY DEF MmThreadStates
    <3>3. m.size \in Nat
      BY Zenon DEF MmStates
    <3> QED
      BY <3>1, <3>2, <3>3
  <2>7. c # a.sync
    BY <2>3, <2>4, <2>6
  <2> QED
    BY <2>1, <2>5, <2>6, <2>7
<1>4. Flushed(f, q, p)
  BY <1>3 DEF MmThreadOK, Flushed
<1> QED
  BY <1>1, <1>2, <1>4 DEF MmThreadOK

LEMMA HaltedIsFine ==
  ASSUME MmTypes', mm'.halted # ""
  PROVE  MmInv'
BY Zenon DEF MmInv, MmRuns

\* The steps of Sync but the read of a deleted array.
LEMMA SyncKeeps ==
  ASSUME MmInv, NEW t \in MmThreads, SyncBlock(t), mm' = mm
  PROVE  MmInv'
<1>1. mm.halted = "" /\ mmt[t].pc = "written" /\ mm' = mm /\ mmplan' = mmplan
  BY Zenon DEF SyncBlock, MmAt
<1>2. PICK a, p : a = mmt[t] /\ p = mmplan[t]
  OBVIOUS
<1>3. /\ mm \in MmStates /\ mmfile \in FileStates /\ MmThreadOK(mm, mmfile, a, p) /\ mm.open /\ Plan(p)
      /\ MmOK(mm, mmfile, mmt, mmplan) /\ a \in MmThreadStates /\ mmt \in [MmThreads -> MmThreadStates]
  BY <1>1, <1>2, MmFacts, Zenon
<1>4. a.left = 0
  BY <1>1, <1>2, <1>3, Zenon DEF MmThreadOK, Copied
<1>5. mm.end <= mm'.end
  <2>1. mm.end \in Nat
    BY <1>3, Zenon DEF MmStates
  <2>2. mm'.end = mm.end
    BY <1>1, Zenon
  <2> QED
    BY <2>1, <2>2
<1>6. CASE SyncStops(a.sync)
  <2>1. mmt' = [mmt EXCEPT ![t].pc = "synced"] /\ mmfile' = mmfile
    BY <1>2, <1>6, Zenon DEF SyncBlock, MmGoto
  <2>3. PICK q : q = [a EXCEPT !.pc = "synced"]
    OBVIOUS
  <2>4. /\ q \in MmThreadStates /\ q.pc = "synced" /\ q.at = a.at /\ q.left = a.left /\ q.sync = a.sync
        /\ q.ok = a.ok
    BY <1>3, <2>3, Zenon DEF MmThreadStates, Pcs
  <2>5. mmt' = [mmt EXCEPT ![t] = q]
    BY <1>2, <1>3, <2>1, <2>3, Zenon
  <2>6. Stays(a, q)
    BY <1>1, <1>2, <2>4, Zenon DEF Stays
  <2>7. QuietFor(t, q)
    BY <1>1, <1>2, <1>3, <1>5, <2>1, <2>4, <2>5, <2>6, Zenon DEF QuietFor
  <2>9. a.sync >= mm.size \/ mm.segs[a.sync] = NoView
    BY <1>6 DEF SyncStops
  <2>10. MmThreadOK(mm, mmfile, q, p)
    BY <1>1, <1>2, <1>3, <1>4, <2>4, <2>9, SyncEnds, Zenon
  <2> QED
    BY <1>1, <1>2, <2>1, <2>7, <2>10, QuietKeeps, Zenon
<1>7. CASE ~ SyncStops(a.sync)
  <2>1. PICK in : in = {x \in mmfile.bytes : x \div MmBlock = a.sync}
    BY Zenon
  <2>a. PICK view \in BOOLEAN, buffers \in BOOLEAN :
           /\ mmfile' = [mmfile EXCEPT !.flushed = IF view THEN @ \cup in ELSE @,
                                       !.bad = IF view /\ ~buffers THEN @ ELSE @ + 1]
           /\ mmt' = [mmt EXCEPT ![t].sync = a.sync + 1, ![t].ok = @ /\ view /\ ~buffers]
    <3>1. ~ MmHalt("freed")
      <4>1. [mm EXCEPT !.halted = "freed"].halted = "freed"
        BY <1>3, Zenon DEF MmStates
      <4> QED
        BY <1>1, <4>1, Zenon DEF MmHalt
    <3> QED
      BY <1>2, <1>7, <2>1, <3>1 DEF SyncBlock
  <2>b. PICK ok \in BOOLEAN : ok = (a.ok /\ view /\ ~buffers)
    OBVIOUS
  <2>2. /\ mmt' = [mmt EXCEPT ![t].sync = a.sync + 1, ![t].ok = ok]
        /\ mmfile' = [mmfile EXCEPT !.flushed = mmfile'.flushed, !.bad = mmfile'.bad]
        /\ mmfile'.flushed = (IF view THEN mmfile.flushed \cup in ELSE mmfile.flushed)
        /\ mmfile'.bad \in Nat
    BY <1>2, <1>3, <2>a, <2>b DEF FileStates
  <2>3. PICK q : q = [a EXCEPT !.sync = a.sync + 1, !.ok = ok]
    BY Zenon
  <2>4. q \in MmThreadStates /\ q.pc = a.pc /\ q.at = a.at /\ q.left = a.left
    <3>1. ok \in BOOLEAN
      BY <2>b, Zenon
    <3>2. a.sync + 1 \in Nat
      BY <1>3 DEF MmThreadStates
    <3> QED
      BY <1>3, <2>3, <3>1, <3>2, Zenon DEF MmThreadStates
  <2>5. mmt' = [mmt EXCEPT ![t] = q]
    BY <1>2, <1>3, <2>2, <2>3
  <2>6. Stays(a, q)
    BY <2>4 DEF Stays
  <2>7. /\ mmfile' \in FileStates /\ mmfile'.bytes = mmfile.bytes /\ mmfile'.views = mmfile.views
        /\ mmfile.flushed \subseteq mmfile'.flushed
    <3>1. in \subseteq Nat
      BY <1>3, <2>1 DEF FileStates
    <3> QED
      BY <1>3, <2>2, <3>1 DEF FileStates
  <2>8. QuietFor(t, q)
    BY <1>1, <1>2, <1>3, <1>5, <2>4, <2>5, <2>6, <2>7, Zenon DEF QuietFor
  <2>9. PICK f2 : f2 = mmfile'
    OBVIOUS
  <2>c. /\ f2.bytes = mmfile.bytes /\ mmfile.flushed \subseteq f2.flushed /\ (ok => a.ok)
        /\ ok => {x \in mmfile.bytes : x \div MmBlock = a.sync} \subseteq f2.flushed
    BY <2>1, <2>2, <2>7, <2>9, <2>b
  <2>d. a.pc = "written"
    BY <1>1, <1>2, Zenon
  <2>10. MmThreadOK(mm, f2, q, p)
    BY <1>3, <1>4, <2>3, <2>c, <2>d, SyncGoesOn
  <2> QED
    BY <1>1, <1>2, <2>8, <2>9, <2>10, QuietKeeps, Zenon
<1> QED
  BY <1>6, <1>7

LEMMA SyncBlockKeeps ==
  ASSUME MmInv, NEW t \in MmThreads, SyncBlock(t)
  PROVE  MmInv'
<1>1. mm.halted = "" /\ mmt[t].pc = "written" /\ mmplan' = mmplan
  BY Zenon DEF SyncBlock, MmAt
<1>2. /\ mm \in MmStates /\ mmfile \in FileStates /\ mmt \in [MmThreads -> MmThreadStates]
      /\ mmplan \in MmPlans
  BY Zenon DEF MmInv, MmTypes
<1>3. CASE MmHalt("freed") /\ mmfile' = mmfile /\ mmt' = mmt
  <2>1. mm' = [mm EXCEPT !.halted = "freed"]
    BY <1>3, Zenon DEF MmHalt
  <2>2. mm' \in MmStates /\ mm'.halted # ""
    BY <1>2, <2>1, Zenon DEF MmStates
  <2>3. MmTypes'
    BY <1>1, <1>2, <1>3, <2>2, Zenon DEF MmTypes
  <2> QED
    BY <2>2, <2>3, HaltedIsFine, Zenon
<1>4. CASE mm' = mm
  BY <1>4, SyncKeeps, Zenon
<1> QED
  BY <1>3, <1>4, Zenon DEF SyncBlock

\* SignalAll: the threads that waited look at the size again.
LEMMA WokenOK ==
  ASSUME NEW m, NEW f, NEW a \in MmThreadStates, NEW u, NEW p, MmThreadOK(m, f, a, p), m.open
  PROVE  /\ [a EXCEPT !.pc = Woken(u, @)] \in MmThreadStates
         /\ Stays(a, [a EXCEPT !.pc = Woken(u, @)])
         /\ MmThreadOK(m, f, [a EXCEPT !.pc = Woken(u, @)], p)
<1>1. CASE a.pc = "waiting"
  <2>1. PICK q : q = [a EXCEPT !.pc = "grow"]
    BY Zenon
  <2>2. q = [a EXCEPT !.pc = Woken(u, @)]
    BY <1>1, <2>1 DEF Woken
  <2>3. q \in MmThreadStates /\ q.pc = "grow" /\ Repointed(a, q)
    BY <2>1 DEF MmThreadStates, Repointed, Pcs
  <2>4. Stays(a, q)
    BY <1>1, <2>3 DEF Stays, Repointed
  <2>5. Knows(m, q)
    BY <2>3 DEF Knows
  <2>6. a.left # 0 /\ (m.open => p[2] = 0 \/ p[1] + p[2] <= m.end)
    BY <1>1 DEF MmThreadOK, Copied
  <2>7. MmThreadOK(m, f, q, p)
    BY <2>3, <2>5, <2>6, PlaceOK
  <2> QED
    BY <2>2, <2>3, <2>4, <2>7
<1>2. CASE a.pc # "waiting"
  <2>1. [a EXCEPT !.pc = Woken(u, @)] = a
    BY <1>2 DEF Woken, MmThreadStates
  <2> QED
    BY <2>1, Zenon DEF Stays
<1> QED
  BY <1>1, <1>2

LEMMA SwapSegmentsKeeps ==
  ASSUME MmInv, NEW t \in MmThreads, SwapSegments(t)
  PROVE  MmInv'
<1>1. mm.halted = "" /\ mmt[t].pc = "swap" /\ mmfile' = mmfile /\ mmplan' = mmplan
  BY Zenon DEF SwapSegments, MmAt
<1>2. PICK m, f, T, P, a, n : m = mm /\ f = mmfile /\ T = mmt /\ P = mmplan /\ a = T[t] /\ n = NewSize(In(a))
  OBVIOUS
<1>3. /\ m \in MmStates /\ f \in FileStates /\ MmThreadOK(m, f, a, P[t]) /\ m.open /\ P \in MmPlans
      /\ MmOK(m, f, T, P) /\ a \in MmThreadStates /\ T \in [MmThreads -> MmThreadStates]
      /\ \A u \in MmThreads : Plan(P[u])
  BY <1>1, <1>2, MmFacts, Zenon
<1>4. a.left # 0 /\ a.grown \in {n, -n}
  BY <1>1, <1>2, <1>3, Zenon DEF MmThreadOK, Copied, Knows
<1>5. In(a) \in MmBlocks /\ In(a) \in Nat /\ m.size \in Nat
  BY <1>1, <1>2, <1>4, MmHere, Zenon
<1>6. n \in Nat /\ In(a) < n /\ n <= MmMaxBlock + 1
  BY <1>2, <1>5, NewSizes
<1>7. (IF a.grown > 0 THEN a.grown ELSE -a.grown) = n
  BY <1>4, <1>5, <1>6
<1>8. PICK q : q = [a EXCEPT !.pc = IF a.grown > 0 THEN "create" ELSE "failed"]
  BY Zenon
<1>9. q \in MmThreadStates /\ q.pc \in {"create", "failed"} /\ Repointed(a, q)
  BY <1>3, <1>8 DEF MmThreadStates, Repointed, Pcs
<1>10. PICK T2 : T2 = [u \in MmThreads |-> IF u = t THEN q ELSE [T[u] EXCEPT !.pc = Woken(u, @)]]
  BY Zenon
<1>11. mmt' = T2
  BY <1>2, <1>8, <1>10 DEF SwapSegments
<1>12. \A u \in MmThreads : T[u] \in MmThreadStates /\ MmThreadOK(m, f, T[u], P[u])
  BY <1>3 DEF MmOK
<1>13. T2 \in [MmThreads -> MmThreadStates]
  <2>1. ASSUME NEW u \in MmThreads PROVE [T[u] EXCEPT !.pc = Woken(u, @)] \in MmThreadStates
    BY <1>3, <1>12, WokenOK, Zenon
  <2> QED
    BY <1>9, <1>10, <2>1
<1>14. mm' = IF n < m.size THEN [m EXCEPT !.halted = "overflow"] ELSE [m EXCEPT !.size = n, !.trunc = FALSE]
  BY <1>2, <1>7, Zenon DEF SwapSegments
<1>15. CASE n < m.size
  <2>1. mm' = [m EXCEPT !.halted = "overflow"]
    BY <1>14, <1>15
  <2>2. mm' \in MmStates /\ mm'.halted # ""
    BY <1>3, <2>1, Zenon DEF MmStates
  <2>3. MmTypes'
    BY <1>1, <1>2, <1>3, <1>11, <1>13, <2>2, Zenon DEF MmTypes
  <2> QED
    BY <2>2, <2>3, HaltedIsFine, Zenon
<1>16. CASE ~ (n < m.size)
  <2>1. PICK m2 : m2 = [m EXCEPT !.size = n, !.trunc = FALSE]
    OBVIOUS
  <2>2. mm' = m2
    BY <1>14, <1>16, <2>1
  <2>3. m2 \in MmStates /\ m2.size = n /\ m2.segs = m.segs /\ m2.end = m.end /\ m2.open = m.open
    BY <1>3, <1>6, <2>1, Zenon DEF MmStates
  <2>4. m.end \in Nat
    BY <1>3, Zenon DEF MmStates
  <2>5. Grows(m, f, m2, f)
    BY <1>5, <1>6, <1>16, <2>3, <2>4 DEF Grows
  <2>6. ASSUME NEW u \in MmThreads PROVE Stays(T[u], T2[u]) /\ MmThreadOK(m2, f, T2[u], P[u])
    <3>1. MmThreadOK(m2, f, T[u], P[u])
      BY <1>3, <1>12, <2>5, StillOK
    <3>2. CASE u # t
      BY <1>3, <1>10, <1>12, <2>3, <3>1, <3>2, WokenOK, Zenon
    <3>3. CASE u = t
      <4>1. T2[u] = q
        BY <1>10, <3>3
      <4>2. Stays(a, q)
        BY <1>1, <1>2, <1>9, Zenon DEF Stays, Repointed
      <4>3. In(q) = In(a)
        BY <1>9 DEF In, Repointed
      <4>4. Knows(m2, q)
        BY <1>3, <1>6, <1>9, <2>3, <4>3, Zenon DEF Knows
      <4>5. m2.open => P[t][2] = 0 \/ P[t][1] + P[t][2] <= m2.end
        BY <1>1, <1>2, <3>1, <3>3, Zenon DEF MmThreadOK, Copied
      <4>6. MmThreadOK(m2, f, q, P[t])
        BY <1>2, <1>4, <1>9, <3>1, <3>3, <4>4, <4>5, PlaceOK, Zenon
      <4> QED
        BY <1>2, <3>3, <4>1, <4>2, <4>6, Zenon
    <3> QED
      BY <3>2, <3>3
  <2>7. MmOK(m2, f, T2, P)
    BY <1>3, <1>6, <2>3, <2>5, <2>6, QuietStep, Zenon
  <2>8. MmTypes'
    BY <1>1, <1>2, <1>3, <1>11, <1>13, <2>2, <2>3 DEF MmTypes
  <2> QED
    BY <1>1, <1>2, <1>11, <2>2, <2>7, <2>8, Zenon DEF MmInv
<1> QED
  BY <1>15, <1>16

-----------------------------------------------------------------------------
(* The steps that make or drop views, make segments or write bytes. *)

\* A view is held from MapViewOfFile to the second critical section of
\* GetSegment or, for the second view of a block, to its UnmapSegment.
Holds(a) == a.pc \in {"record", "unmap"}

LEMMA HeldByOthers ==
  ASSUME NEW T \in [MmThreads -> MmThreadStates], NEW t \in MmThreads, NEW q, NEW v
  PROVE  v \in Held([T EXCEPT ![t] = q]) <=>
           \/ Holds(q) /\ v = <<t, In(q)>>
           \/ v \in Held(T) /\ v[1] # t
<1>1. PICK T2 : T2 = [T EXCEPT ![t] = q]
  BY Zenon
<1>2. T2[t] = q /\ \A u \in MmThreads : u # t => T2[u] = T[u]
  BY <1>1
<1>3. v \in Held(T2) <=> \E u \in MmThreads : Holds(T2[u]) /\ v = <<u, In(T2[u])>>
  BY DEF Held, Holds
<1>4. v \in Held(T) <=> \E u \in MmThreads : Holds(T[u]) /\ v = <<u, In(T[u])>>
  BY DEF Held, Holds
<1>5. ASSUME v \in Held(T2) PROVE (Holds(q) /\ v = <<t, In(q)>>) \/ (v \in Held(T) /\ v[1] # t)
  <2>1. PICK u \in MmThreads : Holds(T2[u]) /\ v = <<u, In(T2[u])>>
    BY <1>3, <1>5
  <2>2. CASE u = t
    BY <1>2, <2>1, <2>2
  <2>3. CASE u # t
    BY <1>2, <1>4, <2>1, <2>3
  <2> QED
    BY <2>2, <2>3
<1>6. ASSUME Holds(q), v = <<t, In(q)>> PROVE v \in Held(T2)
  BY <1>2, <1>3, <1>6
<1>7. ASSUME v \in Held(T), v[1] # t PROVE v \in Held(T2)
  <2>1. PICK u \in MmThreads : Holds(T[u]) /\ v = <<u, In(T[u])>>
    BY <1>4, <1>7
  <2>2. u # t
    BY <1>7, <2>1
  <2> QED
    BY <1>2, <1>3, <2>1, <2>2
<1> QED
  BY <1>1, <1>5, <1>6, <1>7

LEMMA HeldByOne ==
  ASSUME NEW T \in [MmThreads -> MmThreadStates], NEW t \in MmThreads, NEW v
  PROVE  v \in Held(T) /\ v[1] = t <=> Holds(T[t]) /\ v = <<t, In(T[t])>>
BY DEF Held, Holds

\* What a step of t alone has to keep: the other threads, and the segments.
LEMMA OthersOK ==
  ASSUME NEW m, NEW f, NEW T \in [MmThreads -> MmThreadStates], NEW P, NEW m2, NEW f2, NEW t \in MmThreads, NEW q,
         MmOK(m, f, T, P), Grows(m, f, m2, f2), \A u \in MmThreads : Plan(P[u]), MmThreadOK(m2, f2, q, P[t])
  PROVE  \A u \in MmThreads : MmThreadOK(m2, f2, [T EXCEPT ![t] = q][u], P[u])
<1>1. SUFFICES ASSUME NEW u \in MmThreads PROVE MmThreadOK(m2, f2, [T EXCEPT ![t] = q][u], P[u])
  OBVIOUS
<1>2. CASE u = t
  BY <1>2
<1>3. CASE u # t
  <2>1. T[u] \in MmThreadStates /\ MmThreadOK(m, f, T[u], P[u]) /\ Plan(P[u])
    BY DEF MmOK
  <2>2. MmThreadOK(m2, f2, T[u], P[u])
    BY <2>1, StillOK
  <2> QED
    BY <1>3, <2>2
<1> QED
  BY <1>2, <1>3

LEMMA SegsStill ==
  ASSUME NEW m, NEW T \in [MmThreads -> MmThreadStates], NEW m2, NEW t \in MmThreads, NEW q,
         SegsOK(m, T), m.size \in Nat, m2.size \in Nat, m.size <= m2.size,
         \A b \in MmBlocks : Past(T[t], b) => Past(q, b),
         \A b \in MmBlocks : m2.segs[b] = m.segs[b] \/ (m2.segs[b] = <<t, b>> /\ Past(q, b) /\ b < m2.size)
  PROVE  SegsOK(m2, [T EXCEPT ![t] = q])
<1>1. PICK T2 : T2 = [T EXCEPT ![t] = q]
  BY Zenon
<1>2. T2[t] = q /\ \A u \in MmThreads : u # t => T2[u] = T[u]
  BY <1>1
<1>3. ASSUME NEW b \in MmBlocks, m2.segs[b] # NoView
      PROVE  b < m2.size /\ \E u \in MmThreads : m2.segs[b] = <<u, b>> /\ Past(T2[u], b)
  <2>1. CASE m2.segs[b] = <<t, b>> /\ Past(q, b) /\ b < m2.size
    BY <1>2, <2>1
  <2>2. CASE m2.segs[b] = m.segs[b]
    <3>1. b < m.size
      BY <1>3, <2>2 DEF SegsOK
    <3>2. PICK u \in MmThreads : m.segs[b] = <<u, b>> /\ Past(T[u], b)
      BY <1>3, <2>2 DEF SegsOK
    <3>3. Past(T2[u], b)
      BY <1>2, <3>2
    <3>4. b < m2.size
      <4>1. b \in Nat
        BY MmAssumption DEF MmBlocks
      <4> QED
        BY <3>1, <4>1
    <3> QED
      BY <2>2, <3>2, <3>3, <3>4, Zenon
  <2> QED
    BY <2>1, <2>2, Zenon
<1> QED
  BY <1>1, <1>3, Zenon DEF SegsOK

LEMMA SegsSame ==
  ASSUME NEW m, NEW T \in [MmThreads -> MmThreadStates], NEW t \in MmThreads, NEW q, SegsOK(m, T), m.size \in Nat,
         \A b \in MmBlocks : Past(T[t], b) => Past(q, b)
  PROVE  SegsOK(m, [T EXCEPT ![t] = q])
<1>1. m.size <= m.size
  OBVIOUS
<1> QED
  BY <1>1, SegsStill, Zenon

LEMMA MapViewKeeps ==
  ASSUME MmInv, NEW t \in MmThreads, MapView(t)
  PROVE  MmInv'
<1>1. mm.halted = "" /\ mmt[t].pc = "view" /\ mmplan' = mmplan
  BY Zenon DEF MapView, MmAt
<1>2. PICK m, f, T, P, a, v : m = mm /\ f = mmfile /\ T = mmt /\ P = mmplan /\ a = T[t] /\ v = <<t, In(a)>>
  BY Zenon
<1>3. /\ m \in MmStates /\ f \in FileStates /\ MmThreadOK(m, f, a, P[t]) /\ m.open /\ P \in MmPlans
      /\ MmOK(m, f, T, P) /\ a \in MmThreadStates /\ T \in [MmThreads -> MmThreadStates]
      /\ \A u \in MmThreads : Plan(P[u])
  BY <1>1, <1>2, MmFacts, Zenon
<1>4. CASE MmHalt("abort") /\ mmfile' = mmfile /\ mmt' = mmt
  <2>1. mm' = [m EXCEPT !.halted = "abort"]
    BY <1>2, <1>4 DEF MmHalt
  <2>2. mm' \in MmStates /\ mm'.halted # ""
    BY <1>3, <2>1, Zenon DEF MmStates
  <2>3. MmTypes'
    BY <1>1, <1>2, <1>3, <1>4, <2>2, Zenon DEF MmTypes
  <2> QED
    BY <2>2, <2>3, HaltedIsFine, Zenon
<1>5. CASE mmfile' = [f EXCEPT !.views = @ \cup {v}] /\ MmGoto(t, "record") /\ mm' = mm
  <2>1. a.left # 0 /\ In(a) < m.size /\ (m.open => P[t][2] = 0 \/ P[t][1] + P[t][2] <= m.end)
    BY <1>1, <1>2, <1>3, Zenon DEF MmThreadOK, Copied, Knows
  <2>2. In(a) \in MmBlocks /\ m.size \in Nat /\ m.end \in Nat
    BY <1>1, <1>2, <1>3, <2>1, MmHere, Zenon DEF MmStates
  <2>3. PICK f2 : f2 = [f EXCEPT !.views = @ \cup {v}]
    BY Zenon
  <2>4. f2 \in FileStates /\ f2.views = f.views \cup {v} /\ f2.bytes = f.bytes /\ f2.flushed = f.flushed
    BY <1>2, <1>3, <2>2, <2>3 DEF FileStates
  <2>5. "record" \in Pcs
    BY DEF Pcs
  <2>6. PICK q \in MmThreadStates : mmt' = [T EXCEPT ![t] = q] /\ q.pc = "record" /\ Repointed(a, q)
    BY <1>2, <1>3, <1>5, <2>5, WentTo
  <2>7. In(q) = In(a)
    BY <2>6 DEF Repointed, In
  <2>8. Knows(m, q)
    BY <1>3, <2>1, <2>6, <2>7, Zenon DEF Knows
  <2>9. Grows(m, f, m, f2)
    BY <2>2, <2>4, GrowsSelf
  <2>10. MmThreadOK(m, f2, a, P[t])
    BY <1>3, <2>9, StillOK
  <2>11. MmThreadOK(m, f2, q, P[t])
    BY <2>1, <2>6, <2>8, <2>10, PlaceOK, Zenon
  <2>12. PICK T2 : T2 = [T EXCEPT ![t] = q]
    BY Zenon
  <2>13. \A u \in MmThreads : MmThreadOK(m, f2, T2[u], P[u])
    BY <1>3, <2>9, <2>11, <2>12, OthersOK, Zenon
  <2>14. \A b \in MmBlocks : Past(a, b) => Past(q, b)
    BY <1>1, <1>2, <2>6, <2>7, Zenon DEF Past, Repointed
  <2>15. SegsOK(m, T2)
    <3>1. SegsOK(m, T) /\ \A b \in MmBlocks : Past(T[t], b) => Past(q, b)
      BY <1>2, <1>3, <2>14 DEF MmOK
    <3>2. SegsOK(m, [T EXCEPT ![t] = q])
      BY <1>3, <2>2, <3>1, SegsSame, Zenon
    <3> QED
      BY <2>12, <3>2
  <2>16. Held(T2) = Held(T) \cup {v}
    <3>1. ~ Holds(a) /\ Holds(q)
      BY <1>1, <1>2, <2>6, Zenon DEF Holds
    <3>2. ASSUME NEW w PROVE w \in Held(T2) <=> w \in Held(T) \cup {v}
      <4>1. w \in Held(T2) <=> (w = v \/ (w \in Held(T) /\ w[1] # t))
        <5>1. w \in Held(T2) <=> (Holds(q) /\ w = <<t, In(q)>>) \/ (w \in Held(T) /\ w[1] # t)
          BY <1>3, <2>12, HeldByOthers, Zenon
        <5>2. <<t, In(q)>> = v
          BY <1>2, <2>7
        <5> QED
          BY <3>1, <5>1, <5>2
      <4>2. ~ (w \in Held(T) /\ w[1] = t)
        BY <1>2, <1>3, <3>1, HeldByOne, Zenon
      <4> QED
        BY <4>1, <4>2
    <3> QED
      BY <3>2
  <2>17. ViewsOK(m, f2, T2)
    BY <1>3, <2>4, <2>16, Zenon DEF MmOK, ViewsOK
  <2>18. BytesOK(m, f2) /\ SizeOK(m)
    BY <1>3, <2>4, Zenon DEF MmOK, BytesOK
  <2>19. MmOK(m, f2, T2, P)
    BY <2>13, <2>15, <2>17, <2>18, Zenon DEF MmOK
  <2>20. T2 \in [MmThreads -> MmThreadStates]
    BY <1>3, <2>6, <2>12
  <2>21. MmTypes'
    BY <1>1, <1>2, <1>3, <1>5, <2>3, <2>4, <2>6, <2>12, <2>20, Zenon DEF MmTypes
  <2> QED
    BY <1>1, <1>2, <1>5, <2>3, <2>6, <2>12, <2>19, <2>21, Zenon DEF MmInv
<1>6. v = <<t, BlockOf(t)>>
  BY <1>2 DEF BlockOf, In
<1> QED
  BY <1>2, <1>4, <1>5, <1>6 DEF MapView

\* t lets go of its view v.
LEMMA HeldLoses ==
  ASSUME NEW T \in [MmThreads -> MmThreadStates], NEW t \in MmThreads, NEW q, NEW v,
         Holds(T[t]), ~ Holds(q), v = <<t, In(T[t])>>
  PROVE  Held([T EXCEPT ![t] = q]) = Held(T) \ {v} /\ v \in Held(T)
<1>1. v \in Held(T) /\ v[1] = t
  BY HeldByOne
<1>2. ASSUME NEW w PROVE w \in Held([T EXCEPT ![t] = q]) <=> w \in Held(T) \ {v}
  <2>1. w \in Held([T EXCEPT ![t] = q]) <=> w \in Held(T) /\ w[1] # t
    BY HeldByOthers, Zenon
  <2>2. w \in Held(T) /\ w[1] = t <=> w = v
    BY HeldByOne
  <2> QED
    BY <1>1, <2>1, <2>2
<1> QED
  BY <1>1, <1>2, Zenon

LEMMA HeldSame ==
  ASSUME NEW T \in [MmThreads -> MmThreadStates], NEW t \in MmThreads, NEW q, ~ Holds(T[t]), ~ Holds(q)
  PROVE  Held([T EXCEPT ![t] = q]) = Held(T)
<1>1. ASSUME NEW w PROVE w \in Held([T EXCEPT ![t] = q]) <=> w \in Held(T)
  <2>1. w \in Held([T EXCEPT ![t] = q]) <=> w \in Held(T) /\ w[1] # t
    BY HeldByOthers, Zenon
  <2>2. ~ (w \in Held(T) /\ w[1] = t)
    BY HeldByOne
  <2> QED
    BY <2>1, <2>2
<1> QED
  BY <1>1, Zenon

\* The segment that the second critical section records.
Records(m, t, b, m2) == m2 = [m EXCEPT !.segs[b] = <<t, b>>, !.handle[b] = m.base]

LEMMA Recorded ==
  ASSUME NEW m \in MmStates, NEW f \in FileStates, NEW T \in [MmThreads -> MmThreadStates], NEW P,
         NEW t \in MmThreads, NEW a, NEW q \in MmThreadStates, NEW b \in MmBlocks, NEW m2,
         MmOK(m, f, T, P), \A u \in MmThreads : Plan(P[u]), m.open,
         a = T[t], a.pc = "record", q.pc = "copy", Repointed(a, q), b = In(a), m.segs[b] = NoView,
         Records(m, t, b, m2)
  PROVE  m2 \in MmStates /\ MmOK(m2, f, [T EXCEPT ![t] = q], P)
<1>1. MmThreadOK(m, f, a, P[t]) /\ Plan(P[t]) /\ a \in MmThreadStates
  BY Zenon DEF MmOK
<1>2. a.left # 0 /\ b < m.size /\ (m.open => P[t][2] = 0 \/ P[t][1] + P[t][2] <= m.end)
  BY <1>1, Zenon DEF MmThreadOK, Copied, Knows
<1>3. m.segs \in [MmBlocks -> AnyView] /\ m.base \in AnyView /\ m.size \in Nat /\ m.end \in Nat
  BY Zenon DEF MmStates
<1>4. <<t, b>> \in AnyView /\ <<t, b>> # NoView
  BY Zenon DEF AnyView, NoView
<1>5. m2 \in MmStates /\ m2.segs = [m.segs EXCEPT ![b] = <<t, b>>] /\ m2.size = m.size /\ m2.end = m.end /\ m2.open = m.open
  <2>1. PICK S : S = [m.segs EXCEPT ![b] = <<t, b>>]
    BY Zenon
  <2>2. PICK H : H = [m.handle EXCEPT ![b] = m.base]
    BY Zenon
  <2>3. S \in [MmBlocks -> AnyView]
    BY <1>3, <1>4, <2>1, Zenon
  <2>4. m.handle \in [MmBlocks -> AnyView]
    BY Zenon DEF MmStates
  <2>5. H \in [MmBlocks -> AnyView]
    BY <1>3, <2>2, <2>4, Zenon
  <2>6. m2 = [m EXCEPT !.segs = S, !.handle = H]
    BY <2>1, <2>2 DEF Records
  <2>7. m2 \in MmStates /\ m2.segs = S /\ m2.size = m.size /\ m2.end = m.end /\ m2.open = m.open
    BY <2>3, <2>5, <2>6, Zenon DEF MmStates
  <2> QED
    BY <2>1, <2>7, Zenon
<1>6. m2.segs[b] = <<t, b>> /\ \A c \in MmBlocks : c # b => m2.segs[c] = m.segs[c]
  BY <1>3, <1>5, Zenon
<1>7. Grows(m, f, m2, f)
  <2>1. \A c \in MmBlocks : m.segs[c] # NoView => m2.segs[c] # NoView
    BY <1>4, <1>6, Zenon
  <2>2. m.size <= m2.size /\ m.end <= m2.end
    BY <1>3, <1>5, SameIsLess, Zenon
  <2> QED
    BY <1>3, <1>5, <2>1, <2>2, Zenon DEF Grows
<1>8. In(q) = b
  BY Zenon DEF Repointed, In
<1>9. Knows(m2, q)
  BY <1>2, <1>4, <1>5, <1>6, <1>8, Zenon DEF Knows
<1>10. MmThreadOK(m2, f, a, P[t])
  BY <1>1, <1>7, StillOK, Zenon
<1>11. MmThreadOK(m2, f, q, P[t])
  BY <1>2, <1>5, <1>9, <1>10, PlaceOK, Zenon
<1>12. \A u \in MmThreads : MmThreadOK(m2, f, [T EXCEPT ![t] = q][u], P[u])
  BY <1>7, <1>11, OthersOK, Zenon
<1>13. SegsOK(m2, [T EXCEPT ![t] = q])
  <2>1. \A c \in MmBlocks : Past(T[t], c) => Past(q, c)
    BY <1>8, Zenon DEF Past, Repointed
  <2>a. Past(q, b)
    BY <1>8, Zenon DEF Past
  <2>b. m.size <= m2.size
    BY <1>7, Zenon DEF Grows
  <2>2. Past(q, b) /\ b < m2.size /\ m.size <= m2.size
    BY <1>2, <1>5, <2>a, <2>b, Zenon
  <2>3. \A c \in MmBlocks : m2.segs[c] = m.segs[c] \/ (m2.segs[c] = <<t, c>> /\ Past(q, c) /\ c < m2.size)
    BY <1>6, <2>2, Zenon
  <2>4. SegsOK(m, T) /\ m2.size \in Nat
    BY <1>3, <1>5, Zenon DEF MmOK
  <2> QED
    BY <1>3, <2>1, <2>2, <2>3, <2>4, SegsStill, Zenon
<1>14. BytesOK(m2, f)
  BY <1>4, <1>5, <1>6 DEF MmOK, BytesOK
<1>15. Segments(m2) = Segments(m) \cup {<<t, b>>}
  BY <1>4, <1>6 DEF Segments
<1>16. Held([T EXCEPT ![t] = q]) = Held(T) \ {<<t, b>>} /\ <<t, b>> \in Held(T)
  <2>1. Holds(T[t]) /\ ~ Holds(q) /\ <<t, b>> = <<t, In(T[t])>>
    BY DEF Holds
  <2> QED
    BY <2>1, HeldLoses, Zenon
<1>17. ViewsOK(m2, f, [T EXCEPT ![t] = q])
  BY <1>15, <1>16, Zenon DEF MmOK, ViewsOK
<1>18. SizeOK(m2)
  BY <1>5, Zenon DEF MmOK, SizeOK
<1> QED
  BY <1>5, <1>12, <1>13, <1>14, <1>17, <1>18, Zenon DEF MmOK

LEMMA SamePair ==
  ASSUME NEW u, NEW c, NEW t, NEW d, <<u, c>> = <<t, d>>
  PROVE  u = t /\ c = d
OBVIOUS

LEMMA OwnSegment ==
  ASSUME NEW m, NEW T, NEW t, NEW b, SegsOK(m, T), <<t, b>> \in Segments(m)
  PROVE  Past(T[t], b)
<1>1. PICK c \in MmBlocks : m.segs[c] = <<t, b>> /\ m.segs[c] # NoView
  BY Zenon DEF Segments
<1>2. PICK u \in MmThreads : m.segs[c] = <<u, c>> /\ Past(T[u], c)
  BY <1>1, Zenon DEF SegsOK
<1>3. u = t /\ c = b
  BY <1>1, <1>2, SamePair
<1> QED
  BY <1>2, <1>3, Zenon

LEMMA NotLess ==
  ASSUME NEW n \in Nat
  PROVE  ~ (n < n)
OBVIOUS

\* The second view of a block, which is not the segment.
LEMMA Unmapped ==
  ASSUME NEW m \in MmStates, NEW f \in FileStates, NEW T \in [MmThreads -> MmThreadStates], NEW P,
         NEW t \in MmThreads, NEW a, NEW q \in MmThreadStates, NEW f2,
         MmOK(m, f, T, P), \A u \in MmThreads : Plan(P[u]), m.open,
         a = T[t], a.pc = "unmap", q.pc = "copy", Repointed(a, q),
         f2.views = f.views \ {<<t, In(a)>>}, f2.bytes = f.bytes, f2.flushed = f.flushed
  PROVE  MmOK(m, f2, [T EXCEPT ![t] = q], P)
<1>1. MmThreadOK(m, f, a, P[t]) /\ Plan(P[t]) /\ a \in MmThreadStates
  BY Zenon DEF MmOK
<1>2. /\ a.left # 0 /\ In(a) < m.size /\ m.segs[In(a)] # NoView
      /\ m.open => P[t][2] = 0 \/ P[t][1] + P[t][2] <= m.end
  BY <1>1 DEF MmThreadOK, Copied, Knows
<1>3. m.size \in Nat /\ m.end \in Nat /\ In(a) \in Nat
  <2>1. a.at + a.left = P[t][1] + P[t][2]
    BY <1>1 DEF MmThreadOK, Copied
  <2> QED
    BY <1>1, <1>2, <2>1, AtBlock DEF MmStates
<1>4. Grows(m, f, m, f2)
  BY <1>3, GrowsSelf
<1>5. In(q) = In(a)
  BY DEF Repointed, In
<1>6. Knows(m, q)
  BY <1>2, <1>5 DEF Knows
<1>7. MmThreadOK(m, f2, a, P[t])
  BY <1>1, <1>4, StillOK
<1>8. MmThreadOK(m, f2, q, P[t])
  BY <1>2, <1>6, <1>7, PlaceOK
<1>9. \A u \in MmThreads : MmThreadOK(m, f2, [T EXCEPT ![t] = q][u], P[u])
  BY <1>4, <1>8, OthersOK
<1>10. SegsOK(m, [T EXCEPT ![t] = q])
  <2>1. \A c \in MmBlocks : Past(T[t], c) => Past(q, c)
    BY <1>5 DEF Past, Repointed
  <2>2. SegsOK(m, T)
    BY DEF MmOK
  <2> QED
    BY <1>3, <2>1, <2>2, SegsSame
<1>11. BytesOK(m, f2) /\ SizeOK(m)
  BY DEF MmOK, BytesOK
<1>12. <<t, In(a)>> \notin Segments(m)
  <2>1. SUFFICES ASSUME <<t, In(a)>> \in Segments(m) PROVE FALSE
    OBVIOUS
  <2>2. SegsOK(m, T)
    BY DEF MmOK
  <2>3. Past(T[t], In(a))
    BY <2>1, <2>2, OwnSegment
  <2>4. ~ (In(a) < In(a))
    BY <1>3, NotLess
  <2> QED
    BY <1>2, <2>3, <2>4 DEF Past
<1>13. Held([T EXCEPT ![t] = q]) = Held(T) \ {<<t, In(a)>>}
  <2>1. Holds(T[t]) /\ ~ Holds(q) /\ <<t, In(a)>> = <<t, In(T[t])>>
    BY DEF Holds
  <2> QED
    BY <2>1, HeldLoses
<1>14. ViewsOK(m, f2, [T EXCEPT ![t] = q])
  BY <1>12, <1>13 DEF MmOK, ViewsOK
<1> QED
  BY <1>9, <1>10, <1>11, <1>14, Zenon DEF MmOK

LEMMA RecordSegmentKeeps ==
  ASSUME MmInv, NEW t \in MmThreads, RecordSegment(t)
  PROVE  MmInv'
<1>1. mm.halted = "" /\ mmt[t].pc = "record" /\ mmfile' = mmfile /\ mmplan' = mmplan
  BY DEF RecordSegment, MmAt
<1>2. PICK m, f, T, P, a, b : m = mm /\ f = mmfile /\ T = mmt /\ P = mmplan /\ a = T[t] /\ b = In(a)
  OBVIOUS
<1>3. /\ m \in MmStates /\ f \in FileStates /\ MmThreadOK(m, f, a, P[t]) /\ m.open /\ P \in MmPlans
      /\ MmOK(m, f, T, P) /\ a \in MmThreadStates /\ T \in [MmThreads -> MmThreadStates]
      /\ \A u \in MmThreads : Plan(P[u])
  BY <1>1, <1>2, MmFacts
<1>4. a.left # 0 /\ b < m.size
  BY <1>1, <1>2, <1>3 DEF MmThreadOK, Copied, Knows
<1>5. b \in MmBlocks
  BY <1>1, <1>2, <1>4, MmHere
<1>6. BlockOf(t) = b
  BY <1>2 DEF BlockOf, In
<1>7. CASE m.segs[b] # NoView
  <2>1. MmGoto(t, "unmap") /\ mm' = mm
    BY <1>2, <1>6, <1>7 DEF RecordSegment
  <2>2. QuietFiles
    <3>1. mm.end \in Nat
      BY <1>2, <1>3 DEF MmStates
    <3>2. mm.end <= mm'.end
      BY <2>1, <3>1
    <3> QED
      BY <1>1, <1>2, <1>3, <2>1, <3>2 DEF QuietFiles
  <2>3. "unmap" \in Pcs \ {"swap", "synced"}
    BY DEF Pcs
  <2> QED
    BY <1>1, <1>2, <1>4, <1>7, <2>1, <2>2, <2>3, GotoKeeps
<1>8. CASE m.segs[b] = NoView
  <2>1. PICK m2 : m2 = mm'
    OBVIOUS
  <2>2. Records(m, t, b, m2) /\ MmGoto(t, "copy")
    BY <1>2, <1>6, <1>8, <2>1 DEF RecordSegment, Records
  <2>3. "copy" \in Pcs
    BY DEF Pcs
  <2>4. PICK q \in MmThreadStates : mmt' = [T EXCEPT ![t] = q] /\ q.pc = "copy" /\ Repointed(a, q)
    BY <1>2, <1>3, <2>2, <2>3, WentTo
  <2>5. a.pc = "record"
    BY <1>1, <1>2
  <2>6. m2 \in MmStates /\ MmOK(m2, f, [T EXCEPT ![t] = q], P)
    BY <1>2, <1>3, <1>5, <1>8, <2>2, <2>4, <2>5, Recorded
  <2>7. mmt' \in [MmThreads -> MmThreadStates]
    BY <1>3, <2>4
  <2>8. MmTypes'
    BY <1>1, <1>2, <1>3, <2>1, <2>6, <2>7 DEF MmTypes
  <2> QED
    BY <1>1, <1>2, <2>1, <2>4, <2>6, <2>8 DEF MmInv
<1> QED
  BY <1>7, <1>8

LEMMA UnmapSegmentKeeps ==
  ASSUME MmInv, NEW t \in MmThreads, UnmapSegment(t)
  PROVE  MmInv'
<1>1. mm.halted = "" /\ mmt[t].pc = "unmap" /\ mm' = mm /\ mmplan' = mmplan /\ MmGoto(t, "copy")
  BY DEF UnmapSegment, MmAt
<1>2. PICK m, f, T, P, a, f2 : m = mm /\ f = mmfile /\ T = mmt /\ P = mmplan /\ a = T[t] /\ f2 = mmfile'
  OBVIOUS
<1>3. /\ m \in MmStates /\ f \in FileStates /\ m.open /\ P \in MmPlans
      /\ MmOK(m, f, T, P) /\ a \in MmThreadStates /\ T \in [MmThreads -> MmThreadStates]
      /\ \A u \in MmThreads : Plan(P[u])
  BY <1>1, <1>2, MmFacts
<1>4. f2 = [f EXCEPT !.views = @ \ {<<t, In(a)>>}, !.handles = @ \ {m.base}]
  BY <1>2 DEF UnmapSegment, BlockOf, In
<1>5. /\ f2 \in FileStates /\ f2.views = f.views \ {<<t, In(a)>>} /\ f2.bytes = f.bytes
      /\ f2.flushed = f.flushed
  BY <1>3, <1>4 DEF FileStates
<1>6. "copy" \in Pcs
  BY DEF Pcs
<1>7. PICK q \in MmThreadStates : mmt' = [T EXCEPT ![t] = q] /\ q.pc = "copy" /\ Repointed(a, q)
  BY <1>1, <1>2, <1>3, <1>6, WentTo
<1>8. a.pc = "unmap" /\ a = T[t]
  BY <1>1, <1>2
<1>9. MmOK(m, f2, [T EXCEPT ![t] = q], P)
  BY <1>3, <1>5, <1>7, <1>8, Unmapped
<1>10. mmt' \in [MmThreads -> MmThreadStates]
  BY <1>3, <1>7
<1>11. MmTypes'
  BY <1>1, <1>2, <1>3, <1>5, <1>10 DEF MmTypes
<1> QED
  BY <1>1, <1>2, <1>7, <1>9, <1>11 DEF MmInv

\* How much of what is left falls into the block, and where it ends.
Part(a, n) ==
  \/ n = a.left /\ n <= MmBlock * (In(a) + 1) - a.at
  \/ n = MmBlock * (In(a) + 1) - a.at /\ n < a.left

LEMMA PartBounds ==
  ASSUME NEW a \in MmThreadStates, NEW n, Part(a, n), a.left # 0
  PROVE  /\ n \in Nat \ {0} /\ n <= a.left
         /\ \A x \in a.at .. (a.at + n - 1) : x \in Nat /\ x \div MmBlock = In(a)
         /\ n = a.left \/ (a.at + n) \div MmBlock = In(a) + 1
<1>1. PICK B, k, at, left, e : B = MmBlock /\ k = In(a) /\ at = a.at /\ left = a.left /\ e = B * (k + 1)
  OBVIOUS
<1>2. at \in Nat /\ left \in Nat /\ left # 0 /\ B \in Nat \ {0} /\ k = at \div B
  BY <1>1, MmAssumption DEF MmThreadStates, In
<1>3. k \in Nat /\ B * k <= at /\ at < e
  BY <1>1, <1>2, BlockBounds
<1>4. e \in Nat /\ B * k \in Nat
  BY <1>1, <1>2, <1>3
<1>5. (n = left /\ n <= e - at) \/ (n = e - at /\ n < left)
  BY <1>1 DEF Part
<1>6. n \in Nat \ {0} /\ n <= left /\ at + n <= e
  BY <1>2, <1>3, <1>4, <1>5
<1>7. ASSUME NEW x \in at .. (at + n - 1) PROVE x \in Nat /\ x \div B = k
  <2>1. x \in Nat /\ B * k <= x /\ x < e
    BY <1>2, <1>3, <1>4, <1>6, <1>7
  <2> QED
    BY <1>1, <1>2, <1>3, <2>1, BlockIs
<1>8. n = left \/ (at + n) \div B = k + 1
  <2>1. CASE n = e - at
    <3>1. at + n = e /\ k + 1 \in Nat
      BY <1>2, <1>3, <1>4, <2>1
    <3>2. B * (k + 1 + 1) = B * (k + 1) + B
      BY <1>2, <1>3
    <3>3. B * (k + 1) <= e /\ e < B * (k + 1 + 1)
      BY <1>1, <1>2, <1>4, <3>2
    <3> QED
      BY <1>2, <1>4, <3>1, <3>3, BlockIs
  <2> QED
    BY <1>5, <2>1
<1> QED
  BY <1>1, <1>6, <1>7, <1>8

\* The thread after memmove.
Moves(a, n, q) ==
  /\ q.pc = "look" /\ q.at = a.at + n /\ q.left = a.left - n /\ q.sync = a.sync /\ q.ok = a.ok

LEMMA MoreCopied ==
  ASSUME NEW x \in Nat, NEW y \in Nat, NEW at \in Nat, NEW left \in Nat, NEW n \in Nat, n <= left, x <= at,
         at + left = x + y
  PROVE  /\ x <= at + n /\ (at + n) + (left - n) = x + y
         /\ x .. (at + n - 1) \subseteq (x .. (at - 1)) \cup (at .. (at + n - 1))
OBVIOUS

LEMMA MovedOK ==
  ASSUME NEW m, NEW f, NEW f2, NEW a \in MmThreadStates, NEW q \in MmThreadStates, NEW p, NEW n, Plan(p),
         MmThreadOK(m, f, a, p), a.pc = "copy", a.left # 0, Part(a, n), Moves(a, n, q), m.open,
         f2.bytes = f.bytes \cup (a.at .. (a.at + n - 1)), f2.flushed = f.flushed
  PROVE  MmThreadOK(m, f2, q, p)
<1>1. a.at \in Nat /\ a.left \in Nat /\ p[1] \in Nat /\ p[2] \in Nat /\ n \in Nat /\ n <= a.left
  BY PartBounds DEF MmThreadStates, Plan
<1>2. /\ p[1] <= a.at /\ a.at + a.left = p[1] + p[2] /\ p[1] .. (a.at - 1) \subseteq f.bytes
      /\ p[2] = 0 \/ p[1] + p[2] <= m.end
  BY DEF MmThreadOK, Copied
<1>3. q.pc = "look" /\ q.at = a.at + n /\ q.left = a.left - n /\ q.sync = a.sync /\ q.ok = a.ok
  BY DEF Moves
<1>4. p[1] <= q.at /\ q.at + q.left = p[1] + p[2]
  BY <1>1, <1>2, <1>3, MoreCopied
<1>5. p[1] .. (q.at - 1) \subseteq f2.bytes
  <2>1. p[1] .. (q.at - 1) \subseteq (p[1] .. (a.at - 1)) \cup (a.at .. (a.at + n - 1))
    BY <1>1, <1>2, <1>3, MoreCopied
  <2> QED
    BY <1>2, <2>1
<1>6. Copied(m, f2, q, p)
  BY <1>2, <1>3, <1>4, <1>5 DEF Copied
<1>7. Knows(m, q)
  BY <1>3 DEF Knows
<1>8. a.sync = 0
  BY DEF MmThreadOK, Flushed
<1>9. Flushed(f2, q, p)
  BY <1>3, <1>8 DEF MmThreadOK, Flushed
<1> QED
  BY <1>6, <1>7, <1>9 DEF MmThreadOK

LEMMA MovedPast ==
  ASSUME NEW a \in MmThreadStates, NEW q \in MmThreadStates, NEW n, NEW b \in MmBlocks, Part(a, n), Moves(a, n, q),
         a.left # 0, Past(a, b)
  PROVE  Past(q, b)
<1>1. n \in Nat /\ (n = a.left \/ (a.at + n) \div MmBlock = In(a) + 1)
  BY PartBounds
<1>2. a.at \in Nat /\ a.left \in Nat /\ MmBlock \in Nat \ {0} /\ b \in Nat
  BY MmAssumption DEF MmThreadStates, MmBlocks
<1>3. In(a) \in Nat /\ b <= In(a)
  BY <1>2, BlockBounds DEF Past, In
<1>4. CASE n = a.left
  BY <1>2, <1>4 DEF Moves, Past
<1>5. CASE (a.at + n) \div MmBlock = In(a) + 1
  <2>1. In(q) = In(a) + 1
    BY <1>5 DEF Moves, In
  <2> QED
    BY <1>2, <1>3, <2>1 DEF Past
<1> QED
  BY <1>1, <1>4, <1>5

LEMMA CopyBytesKeeps ==
  ASSUME MmInv, NEW t \in MmThreads, CopyBytes(t)
  PROVE  MmInv'
<1>1. mm.halted = "" /\ mmt[t].pc = "copy" /\ mm' = mm /\ mmplan' = mmplan
  BY DEF CopyBytes, MmAt
<1>2. PICK m, f, T, P, a, f2, room :
        /\ m = mm /\ f = mmfile /\ T = mmt /\ P = mmplan /\ a = T[t] /\ f2 = mmfile'
        /\ room = MmBlock * (In(a) + 1) - a.at
  OBVIOUS
<1>3. /\ m \in MmStates /\ f \in FileStates /\ m.open /\ P \in MmPlans /\ MmThreadOK(m, f, a, P[t])
      /\ MmOK(m, f, T, P) /\ a \in MmThreadStates /\ T \in [MmThreads -> MmThreadStates]
      /\ \A u \in MmThreads : Plan(P[u])
  BY <1>1, <1>2, MmFacts
<1>4. a.left # 0 /\ m.segs[In(a)] # NoView /\ a.pc = "copy"
  BY <1>1, <1>2, <1>3 DEF MmThreadOK, Copied, Knows
<1>5. In(a) \in MmBlocks /\ In(a) \in Nat /\ m.size \in Nat
  BY <1>1, <1>2, <1>4, MmHere
<1>6. PICK n : n = IF room < a.left THEN room ELSE a.left
  OBVIOUS
<1>7. Part(a, n)
  <2>1. room \in Int /\ a.left \in Nat
    <3>1. MmBlock * (In(a) + 1) \in Int
      BY <1>5, MmAssumption
    <3> QED
      BY <1>2, <1>3, <3>1 DEF MmThreadStates
  <2> QED
    BY <1>2, <1>6, <2>1 DEF Part
<1>8. /\ f2 = [f EXCEPT !.bytes = @ \cup (a.at .. (a.at + n - 1))]
      /\ mmt' = [T EXCEPT ![t].pc = "look", ![t].at = @ + n, ![t].left = @ - n]
  BY <1>2, <1>6 DEF CopyBytes, BlockOf, In
<1>9. n \in Nat /\ n <= a.left /\ \A x \in a.at .. (a.at + n - 1) : x \in Nat /\ x \div MmBlock = In(a)
  BY <1>3, <1>4, <1>7, PartBounds
<1>10. /\ f2 \in FileStates /\ f2.bytes = f.bytes \cup (a.at .. (a.at + n - 1)) /\ f2.views = f.views
       /\ f2.flushed = f.flushed
  <2>1. a.at .. (a.at + n - 1) \subseteq Nat
    BY <1>9
  <2> QED
    BY <1>3, <1>8, <2>1 DEF FileStates
<1>11. PICK q : q = [a EXCEPT !.pc = "look", !.at = @ + n, !.left = @ - n]
  OBVIOUS
<1>12. q \in MmThreadStates /\ Moves(a, n, q)
  <2>1. a.at + n \in Nat /\ a.left - n \in Nat
    BY <1>3, <1>9 DEF MmThreadStates
  <2> QED
    BY <1>3, <1>11, <2>1 DEF MmThreadStates, Moves, Pcs
<1>13. mmt' = [T EXCEPT ![t] = q]
  BY <1>2, <1>3, <1>8, <1>11
<1>14. MmThreadOK(m, f2, q, P[t])
  BY <1>3, <1>4, <1>7, <1>10, <1>12, MovedOK
<1>15. Grows(m, f, m, f2)
  <2>1. m.end \in Nat
    BY <1>3 DEF MmStates
  <2> QED
    BY <1>5, <1>10, <2>1, GrowsSelf
<1>16. \A u \in MmThreads : MmThreadOK(m, f2, [T EXCEPT ![t] = q][u], P[u])
  BY <1>3, <1>14, <1>15, OthersOK
<1>17. SegsOK(m, [T EXCEPT ![t] = q])
  <2>1. \A c \in MmBlocks : Past(T[t], c) => Past(q, c)
    BY <1>2, <1>3, <1>4, <1>7, <1>12, MovedPast
  <2>2. SegsOK(m, T)
    BY <1>3 DEF MmOK
  <2> QED
    BY <1>3, <1>5, <2>1, <2>2, SegsSame
<1>18. BytesOK(m, f2)
  <2>1. ASSUME NEW x \in f2.bytes PROVE x \div MmBlock \in MmBlocks /\ m.segs[x \div MmBlock] # NoView
    <3>1. CASE x \in f.bytes
      BY <1>3, <3>1 DEF MmOK, BytesOK
    <3>2. CASE x \in a.at .. (a.at + n - 1)
      BY <1>4, <1>5, <1>9, <3>2
    <3> QED
      BY <1>10, <3>1, <3>2
  <2> QED
    BY <2>1 DEF BytesOK
<1>19. Held([T EXCEPT ![t] = q]) = Held(T)
  <2>1. ~ Holds(T[t]) /\ ~ Holds(q)
    BY <1>2, <1>4, <1>12 DEF Holds, Moves
  <2> QED
    BY <1>3, <2>1, HeldSame
<1>20. ViewsOK(m, f2, [T EXCEPT ![t] = q]) /\ SizeOK(m)
  BY <1>3, <1>10, <1>19 DEF MmOK, ViewsOK
<1>21. MmOK(m, f2, [T EXCEPT ![t] = q], P)
  BY <1>16, <1>17, <1>18, <1>20 DEF MmOK
<1>22. mmt' \in [MmThreads -> MmThreadStates]
  BY <1>3, <1>12, <1>13
<1>23. MmTypes'
  BY <1>1, <1>2, <1>3, <1>10, <1>22 DEF MmTypes
<1> QED
  BY <1>1, <1>2, <1>13, <1>21, <1>23 DEF MmInv

\* Close cuts off nothing that was written.
LEMMA ClosedOK ==
  ASSUME NEW m, NEW f, NEW m2, NEW f2, NEW a \in MmThreadStates, NEW p, Plan(p), MmThreadOK(m, f, a, p),
         a.pc \in {"synced", "failed"}, m.open, m.end \in Nat, ~ m2.open,
         f2.bytes = {x \in f.bytes : x < m.end}, f2.flushed = f.flushed
  PROVE  MmThreadOK(m2, f2, a, p)
<1>1. a.at \in Nat /\ a.left \in Nat /\ p[1] \in Nat /\ p[2] \in Nat
  BY DEF MmThreadStates, Plan
<1>2. /\ p[1] <= a.at /\ a.at + a.left = p[1] + p[2] /\ p[1] .. (a.at - 1) \subseteq f.bytes
      /\ p[2] = 0 \/ p[1] + p[2] <= m.end
  BY DEF MmThreadOK, Copied
<1>3. ASSUME NEW x \in p[1] .. (a.at - 1) PROVE x \in f2.bytes
  <2>1. x < m.end
    BY <1>1, <1>2, <1>3
  <2> QED
    BY <1>2, <2>1
<1>4. Copied(m2, f2, a, p)
  BY <1>3 DEF MmThreadOK, Copied
<1>5. Knows(m2, a)
  BY DEF Knows
<1>6. Flushed(f2, a, p)
  BY DEF MmThreadOK, Flushed
<1> QED
  BY <1>4, <1>5, <1>6 DEF MmThreadOK

LEMMA CloseFileKeeps ==
  ASSUME MmInv, CloseFile
  PROVE  MmInv'
<1>1. mm.halted = "" /\ mm.open /\ mmplan' = mmplan /\ mmt' = mmt
  BY DEF CloseFile
<1>2. PICK m, f, T, P, m2, f2 : m = mm /\ f = mmfile /\ T = mmt /\ P = mmplan /\ m2 = mm' /\ f2 = mmfile'
  OBVIOUS
<1>3. /\ m \in MmStates /\ f \in FileStates /\ P \in MmPlans /\ T \in [MmThreads -> MmThreadStates]
      /\ MmOK(m, f, T, P)
  BY <1>1, <1>2 DEF MmInv, MmTypes, MmRuns
<1>4. \A u \in MmThreads : Plan(P[u]) /\ T[u].pc \in {"synced", "failed"}
  BY <1>2, <1>3, MmAssumption DEF Plan, CloseFile
<1>5. PICK empty : empty = [b \in MmBlocks |-> NoView]
  OBVIOUS
<1>6. m2 = [m EXCEPT !.open = FALSE, !.end = 0, !.size = 0, !.segs = empty]
  BY <1>2, <1>5 DEF CloseFile
<1>7. empty \in [MmBlocks -> AnyView] /\ \A b \in MmBlocks : empty[b] = NoView
  BY <1>5 DEF AnyView
<1>8. m2 \in MmStates /\ ~ m2.open /\ m2.size = 0 /\ m2.segs = empty
  BY <1>3, <1>6, <1>7 DEF MmStates
<1>9. PICK kept, cut, n :
        /\ kept \subseteq f.handles /\ cut = {x \in f.bytes : x < m.end}
        /\ n = (m.end + MmBlock - 1) \div MmBlock
        /\ f2 = [f EXCEPT !.views = @ \ Segments(m), !.handles = kept, !.bytes = cut, !.blocks = n]
  <2>1. PICK gone : gone = {m.handle[b] : b \in {c \in MmBlocks : m.segs[c] # NoView}}
    OBVIOUS
  <2>2. f2 = [f EXCEPT !.views = @ \ Segments(m), !.handles = @ \ gone,
                       !.bytes = {x \in @ : x < m.end}, !.blocks = (m.end + MmBlock - 1) \div MmBlock]
    <3>1. mmfile' = [mmfile EXCEPT
            !.views = @ \ Segments(mm),
            !.handles = @ \ {mm.handle[b] : b \in {c \in MmBlocks : mm.segs[c] # NoView}},
            !.bytes = {x \in @ : x < mm.end},
            !.blocks = (mm.end + MmBlock - 1) \div MmBlock]
      BY DEF CloseFile, Segments
    <3> QED
      BY <1>2, <2>1, <3>1
  <2>3. f.handles \ gone \subseteq f.handles
    OBVIOUS
  <2> QED
    BY <2>2, <2>3, Zenon
<1>10. m.end \in Nat /\ n \in Nat
  <2>1. m.end \in Nat
    BY <1>3 DEF MmStates
  <2>2. m.end + MmBlock - 1 \in Nat /\ MmBlock \in Nat \ {0}
    BY <2>1, MmAssumption
  <2> QED
    BY <1>9, <2>1, <2>2, BlockBounds
<1>11. /\ f2 \in FileStates /\ f2.views = f.views \ Segments(m) /\ f2.flushed = f.flushed
       /\ f2.bytes = {x \in f.bytes : x < m.end}
  BY <1>3, <1>9, <1>10 DEF FileStates
<1>12. ASSUME NEW u \in MmThreads PROVE MmThreadOK(m2, f2, T[u], P[u])
  <2>1. T[u] \in MmThreadStates /\ MmThreadOK(m, f, T[u], P[u])
    BY <1>3 DEF MmOK
  <2> QED
    BY <1>1, <1>2, <1>4, <1>8, <1>10, <1>11, <2>1, ClosedOK
<1>13. SegsOK(m2, T) /\ BytesOK(m2, f2)
  BY <1>7, <1>8 DEF SegsOK, BytesOK
<1>14. Held(T) = {}
  BY <1>4 DEF Held
<1>15. Segments(m2) = {}
  BY <1>7, <1>8 DEF Segments
<1>16. ViewsOK(m2, f2, T)
  BY <1>3, <1>11, <1>14, <1>15 DEF MmOK, ViewsOK
<1>17. SizeOK(m2)
  BY <1>7, <1>8, MmAssumption DEF SizeOK
<1>18. MmOK(m2, f2, T, P)
  BY <1>12, <1>13, <1>16, <1>17 DEF MmOK
<1>19. MmTypes'
  BY <1>1, <1>2, <1>3, <1>8, <1>11 DEF MmTypes
<1> QED
  BY <1>1, <1>2, <1>18, <1>19 DEF MmInv

\* A thread that has not called WriteAt.
Fresh(pc, x, y) == [pc |-> pc, at |-> x, left |-> y, grown |-> 0, sync |-> 0, ok |-> TRUE]

LEMMA FreshFields ==
  ASSUME NEW pc \in Pcs, NEW x \in Nat, NEW y \in Nat
  PROVE  /\ Fresh(pc, x, y) \in MmThreadStates
         /\ Fresh(pc, x, y).pc = pc /\ Fresh(pc, x, y).at = x /\ Fresh(pc, x, y).left = y
         /\ Fresh(pc, x, y).sync = 0
BY DEF Fresh, MmThreadStates

LEMMA MmStarts ==
  ASSUME MmInit
  PROVE  MmInv
<1>1. /\ mm = [size |-> 0, segs |-> [b \in MmBlocks |-> NoView], handle |-> [b \in MmBlocks |-> NoView],
               trunc |-> FALSE, end |-> 0, base |-> NoView, open |-> TRUE, halted |-> ""]
      /\ mmfile = [blocks |-> 0, bytes |-> {}, flushed |-> {}, views |-> {}, handles |-> {}, bad |-> 0]
      /\ mmplan \in MmPlans
  BY DEF MmInit
<1>2. ASSUME NEW t \in MmThreads
      PROVE  /\ mmt[t] \in MmThreadStates /\ mmt[t].at = mmplan[t][1] /\ mmt[t].left = mmplan[t][2]
             /\ mmt[t].sync = 0 /\ mmt[t].pc = (IF mmplan[t][2] = 0 THEN "synced" ELSE "idle")
             /\ mmplan[t][1] \in Nat /\ mmplan[t][2] \in Nat
  <2>1. mmplan[t][1] \in Nat /\ mmplan[t][2] \in Nat
    BY <1>1, MmAssumption
  <2>2. mmt[t] = [pc |-> IF mmplan[t][2] = 0 THEN "synced" ELSE "idle", at |-> mmplan[t][1],
                  left |-> mmplan[t][2], grown |-> 0, sync |-> 0, ok |-> TRUE]
    BY DEF MmInit
  <2>3. PICK pc : pc = (IF mmplan[t][2] = 0 THEN "synced" ELSE "idle")
    OBVIOUS
  <2>4. pc \in Pcs
    BY <2>3 DEF Pcs
  <2>5. mmt[t] = Fresh(pc, mmplan[t][1], mmplan[t][2])
    BY <2>2, <2>3 DEF Fresh
  <2>6. mmt[t] \in MmThreadStates /\ mmt[t].at = mmplan[t][1] /\ mmt[t].left = mmplan[t][2] /\ mmt[t].sync = 0
    BY <2>1, <2>4, <2>5, FreshFields
  <2>7. mmt[t].pc = pc
    BY <2>1, <2>4, <2>5, FreshFields
  <2> QED
    BY <2>1, <2>3, <2>6, <2>7, Zenon
<1>3. mm \in MmStates
  BY <1>1 DEF MmStates, AnyView
<1>4. mmfile \in FileStates
  BY <1>1 DEF FileStates
<1>5. mmt \in [MmThreads -> MmThreadStates]
  <2>1. mmt = [t \in MmThreads |-> mmt[t]]
    BY DEF MmInit
  <2> QED
    BY <1>2, <2>1
<1>6. ASSUME NEW t \in MmThreads PROVE MmThreadOK(mm, mmfile, mmt[t], mmplan[t])
  <2>1. PICK a, p : a = mmt[t] /\ p = mmplan[t]
    OBVIOUS
  <2>2. /\ a.at = p[1] /\ a.left = p[2] /\ a.sync = 0 /\ a.pc = (IF p[2] = 0 THEN "synced" ELSE "idle")
        /\ p[1] \in Nat /\ p[2] \in Nat
    BY <1>2, <2>1
  <2>3. Copied(mm, mmfile, a, p)
    BY <2>2 DEF Copied
  <2>4. Knows(mm, a)
    BY <1>1, <2>2 DEF Knows
  <2>5. Flushed(mmfile, a, p)
    <3>1. ASSUME NEW x \in All(p) PROVE ~ (x \div MmBlock < 0)
      <4>1. x \in Nat /\ MmBlock \in Nat \ {0}
        BY <2>2, MmAssumption DEF All
      <4> QED
        BY <4>1, BlockBounds
    <3>2. p[2] = 0 => All(p) = {}
      BY <2>2 DEF All
    <3> QED
      BY <2>2, <3>1, <3>2 DEF Flushed
  <2> QED
    BY <2>1, <2>3, <2>4, <2>5 DEF MmThreadOK
<1>7. mm.segs = [b \in MmBlocks |-> NoView] /\ mm.size = 0 /\ mmfile.views = {} /\ mmfile.bytes = {}
  BY <1>1
<1>8. SegsOK(mm, mmt) /\ BytesOK(mm, mmfile)
  BY <1>7 DEF SegsOK, BytesOK
<1>9. Segments(mm) = {}
  BY <1>7 DEF Segments
<1>10. Held(mmt) = {}
  BY <1>2 DEF Held
<1>11. ViewsOK(mm, mmfile, mmt) /\ SizeOK(mm)
  BY <1>7, <1>9, <1>10, MmAssumption DEF ViewsOK, SizeOK
<1> QED
  BY <1>1, <1>3, <1>4, <1>5, <1>6, <1>8, <1>11 DEF MmInv, MmTypes, MmOK

LEMMA MmSteps ==
  ASSUME MmInv, [MmNext]_mmVars
  PROVE  MmInv'
<1>1. CASE UNCHANGED mmVars
  BY <1>1 DEF mmVars, MmInv, MmTypes, MmRuns
<1>2. CASE CloseFile
  BY <1>2, CloseFileKeeps
<1>3. ASSUME NEW t \in MmThreads, MmStep(t) PROVE MmInv'
  BY <1>3, WriteAtCallKeeps, LookSegmentKeeps, GrowViaTruncateKeeps, TruncateKeeps, SwapSegmentsKeeps,
     CreateMappingKeeps, MapViewKeeps, RecordSegmentKeeps, UnmapSegmentKeeps, CopyBytesKeeps, SyncBlockKeeps
     DEF MmStep
<1> QED
  BY <1>1, <1>2, <1>3 DEF MmNext

\* MmInv holds in every state of the mapped file, whatever the number of
\* threads, the ranges they write, the block size and the growth step.
THEOREM MmapInvariant == MmSpec => []MmInv
<1>1. MmInit => MmInv
  BY MmStarts
<1>2. MmInv /\ [MmNext]_mmVars => MmInv'
  BY MmSteps
<1> QED
  BY <1>1, <1>2, PTL DEF MmSpec

\* What WriteAt has returned for is in the file; a byte that a Sync which returned
\* OK left in the cache is behind the first block without a segment, where Sync
\* ends; and every view is a segment or held by one thread: the three parts of
\* MmapSound, in every state that has not halted.
THEOREM MmapAlwaysSound == MmSpec => []MmapSound
<1>1. ASSUME MmInv PROVE MmapSound
  <2>1. SUFFICES ASSUME MmRuns PROVE MmapSound
    BY DEF MmapSound, WrittenStored, ViewsAccounted, SyncedBelowGap
  <2>2. MmTypes /\ MmOK(mm, mmfile, mmt, mmplan)
    BY <1>1, <2>1 DEF MmInv
  <2>3. ASSUME NEW t \in MmThreads
        PROVE  mmt[t] \in MmThreadStates /\ MmThreadOK(mm, mmfile, mmt[t], mmplan[t]) /\ Plan(mmplan[t])
    BY <2>2, MmAssumption DEF MmTypes, MmOK, Plan
  <2>4. ASSUME NEW t \in MmThreads, Done(t) PROVE BytesOf(t) \subseteq mmfile.bytes
    <3>1. mmt[t].left = 0
      BY <2>3, <2>4 DEF MmThreadOK, Copied, Done
    <3>2. All(mmplan[t]) \subseteq mmfile.bytes
      BY <2>3, <3>1, AllStored
    <3> QED
      BY <3>2 DEF All, BytesOf
  <2>5. ASSUME NEW t \in MmThreads, mmt[t].pc = "synced", mmt[t].ok, NEW x \in BytesOf(t) \ mmfile.flushed
        PROVE  mmt[t].sync < x \div MmBlock
    BY <2>3, <2>5 DEF MmThreadOK, Flushed, All, BytesOf
  <2>6. ViewsAccounted
    BY <2>2 DEF MmOK, ViewsOK, ViewsAccounted, Segments, Held, BlockOf, In
  <2> QED
    BY <2>4, <2>5, <2>6 DEF MmapSound, WrittenStored, SyncedBelowGap
<1> QED
  BY <1>1, MmapInvariant, PTL
=============================================================================
