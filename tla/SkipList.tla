------------------------------- MODULE SkipList -------------------------------
(***************************************************************************)
(* The memtable's skip list (db/skiplist.h).  Writers insert concurrently   *)
(* with compare-and-swap, readers search without any lock.  Beside each      *)
(* next pointer a node keeps a hint, the KeyNum of the node it points to;    *)
(* pointer and hint are two words that are read and written one after the    *)
(* other.  A step is one access to shared memory.                            *)
(*                                                                         *)
(* A node is its key, HeadNode stands for head_ and Nil for NULL.               *)
(***************************************************************************)
EXTENDS Integers, FiniteSets

CONSTANTS
  SkipKeys,   \* keys to insert, positive integers in the comparator's order
  KeyNum,     \* Comparator::KeyNum of a key: not decreasing, may collide
  Nil,        \* NULL: after every key
  MaxNum,     \* UINT64_MAX
  MaxHeight,  \* kMaxHeight
  Readers,    \* processes that search
  Casts       \* which keys are inserted and which readers search, in one behaviour

HeadNode == 0

ASSUME SkipAssumption ==
  /\ Nil \in Nat \ {0} /\ SkipKeys \subseteq 1 .. (Nil - 1)
  /\ MaxNum \in Nat
  /\ KeyNum \in [SkipKeys -> 0 .. MaxNum]
  /\ \A a, b \in SkipKeys : a < b => KeyNum[a] <= KeyNum[b]
  /\ MaxHeight \in Nat \ {0}
  /\ Readers \cap SkipKeys = {}
  /\ \A c \in Casts : c \subseteq SkipKeys \cup Readers

VARIABLES
  next,    \* ptrs_[l].next of every node
  hint,    \* ptrs_[l].cmp of every node
  writer,  \* Insert of each key
  search   \* what each reader does

skipVars == <<next, hint, writer, search>>

Nodes == SkipKeys \cup {HeadNode}
Lists == 0 .. (MaxHeight - 1)

Num(n) == IF n = Nil THEN MaxNum ELSE KeyNum[n]

KeyIsAfterNode(k, n) == n # Nil /\ n < k

\* Sets of nodes that hold the head of list l and, with a node, the next one.
Closed(l) ==
  {S \in {{HeadNode} \cup K : K \in SUBSET SkipKeys} :
     \A n \in S : next[n][l] \in S \cup {Nil}}

\* The nodes that are linked into list l: those reached from its head.
Linked(l) == LET closed == Closed(l) IN {n \in Nodes : \A S \in closed : n \in S}

SkipInit ==
  /\ next = [n \in Nodes |-> [l \in Lists |-> Nil]]
  /\ hint = [n \in Nodes |-> [l \in Lists |-> MaxNum]]
  /\ \E cast \in Casts :
       /\ writer = [k \in SkipKeys |-> [pc |-> IF k \in cast THEN "idle" ELSE "out"]]
       /\ search = [r \in Readers |-> [pc |-> IF r \in cast THEN "idle" ELSE "out"]]

-----------------------------------------------------------------------------
(* FindGreaterOrEqual, the same for writers and readers: p is the process's  *)
(* state, the result its state after one access.                             *)

FindFrom(k) ==
  [pc |-> "skip", key |-> k, at |-> HeadNode, list |-> MaxHeight - 1, c |-> 0,
   prev |-> [l \in Lists |-> HeadNode], obs |-> [l \in Lists |-> Nil]]

\* The search goes down a list, with n as what it saw on this one.
LeaveList(p, n) ==
  [p EXCEPT !.prev[p.list] = p.at, !.obs[p.list] = n,
            !.list = IF p.list = 0 THEN 0 ELSE p.list - 1,
            !.pc = IF p.list = 0 THEN "found" ELSE "skip"]

\* Mutant: the hint alone decides at the bottom too.
FindSkipsBottom(p) ==
  IF hint[p.at][p.list] > Num(p.key) THEN LeaveList(p, Nil) ELSE [p EXCEPT !.pc = "hint"]

\* NoBarrier_Cmp: leave the list when its hint is already too far.
FindSkips(p) ==
  IF p.list > 0 /\ hint[p.at][p.list] > Num(p.key)
    THEN LeaveList(p, Nil) ELSE [p EXCEPT !.pc = "hint"]

FindReadsHint(p) == [p EXCEPT !.c = hint[p.at][p.list], !.pc = "next"]

FindReadsNext(p) ==
  LET n == next[p.at][p.list]
  IN  IF p.c < Num(p.key) \/ KeyIsAfterNode(p.key, n)
        THEN [p EXCEPT !.at = n, !.pc = "skip"]
        ELSE LeaveList(p, n)

Finding(p) == p.pc \in {"skip", "hint", "next"}

FindStep(p) ==
  CASE p.pc = "skip" -> FindSkips(p)
    [] p.pc = "hint" -> FindReadsHint(p)
    [] p.pc = "next" -> FindReadsNext(p)

-----------------------------------------------------------------------------
(* Insert. *)

InsertCall(k) ==
  /\ writer[k].pc = "idle"
  /\ writer' = [writer EXCEPT ![k] = FindFrom(k)]
  /\ UNCHANGED <<next, hint, search>>

InsertFinds(k) ==
  /\ Finding(writer[k])
  /\ writer' = [writer EXCEPT ![k] = FindStep(writer[k])]
  /\ UNCHANGED <<next, hint, search>>

\* RandomHeight and NewNode.
InsertAllocates(k) ==
  /\ writer[k].pc = "found"
  /\ \E h \in 1 .. MaxHeight :
       writer' = [writer EXCEPT ![k] = [pc |-> "cas", height |-> h, list |-> 0, c |-> 0,
                                        prev |-> writer[k].prev, obs |-> writer[k].obs]]
  /\ UNCHANGED <<next, hint, search>>

\* Mutant: the pointer is stored without looking at what it was.
StoreNext(k) ==
  LET w == writer[k]
      n == w.obs[w.list]
  IN  /\ w.pc = "cas"
      /\ next' = [next EXCEPT ![k][w.list] = n, ![w.prev[w.list]][w.list] = k]
      /\ hint' = [hint EXCEPT ![k][w.list] = Num(n)]
      /\ writer' = [writer EXCEPT ![k].pc = "lower", ![k].c = MaxNum]
      /\ UNCHANGED search

\* Mutant: the predecessor's hint is lowered before its pointer is swung.
CasLowersFirst(k) ==
  LET w == writer[k]
      l == w.list
      n == w.obs[l]
      h == [hint EXCEPT ![k][l] = Num(n)]
  IN  /\ w.pc = "cas"
      /\ hint' = [h EXCEPT ![w.prev[l]][l] = IF @ > Num(k) THEN Num(k) ELSE @]
      /\ IF next[w.prev[l]][l] = n
           THEN /\ next' = [next EXCEPT ![k][l] = n, ![w.prev[l]][l] = k]
                /\ writer' = [writer EXCEPT ![k].pc = "lower", ![k].c = MaxNum]
           ELSE /\ next' = [next EXCEPT ![k][l] = n]
                /\ writer' = [writer EXCEPT ![k].pc = "rehint"]
      /\ UNCHANGED search

\* The new node gets its own pointer and hint, which nobody reads yet; then
\* the compare-and-swap of the predecessor's pointer.
CasNext(k) ==
  LET w == writer[k]
      l == w.list
      n == w.obs[l]
  IN  /\ w.pc = "cas"
      /\ hint' = [hint EXCEPT ![k][l] = Num(n)]
      /\ IF Num(n) >= Num(k) /\ next[w.prev[l]][l] = n
           THEN /\ next' = [next EXCEPT ![k][l] = n, ![w.prev[l]][l] = k]
                /\ writer' = [writer EXCEPT ![k].pc = "lower", ![k].c = MaxNum]
           ELSE /\ next' = [next EXCEPT ![k][l] = n]
                /\ writer' = [writer EXCEPT ![k].pc = "rehint"]
      /\ UNCHANGED search

\* The hint after one compare-and-swap.
Lowered(h, expected, num) == IF h = expected THEN num ELSE h

\* CasNext goes on until the predecessor's hint is no more than the new KeyNum.
LowerHint(k) ==
  LET w == writer[k]
      h == hint[w.prev[w.list]][w.list]
  IN  /\ w.pc = "lower"
      /\ IF w.c > Num(k)
           THEN /\ hint' = [hint EXCEPT ![w.prev[w.list]][w.list] = Lowered(h, w.c, Num(k))]
                /\ writer' = [writer EXCEPT ![k].c = h]
           ELSE /\ UNCHANGED hint
                /\ writer' = [writer EXCEPT ![k] =
                     IF w.list + 1 < w.height
                       THEN [w EXCEPT !.list = w.list + 1, !.pc = "cas"]
                       ELSE [pc |-> "done", height |-> w.height]]
      /\ UNCHANGED <<next, search>>

\* After a failed compare-and-swap the writer moves on along the list.
AdvanceReadsHint(k) ==
  LET w == writer[k]
  IN  /\ w.pc = "rehint"
      /\ writer' = [writer EXCEPT ![k].c = hint[w.prev[w.list]][w.list], ![k].pc = "renext"]
      /\ UNCHANGED <<next, hint, search>>

\* Mutant: the observed node is not read again.
AdvanceKeepsObs(k) ==
  LET w == writer[k]
      n == w.obs[w.list]
  IN  /\ w.pc = "renext"
      /\ writer' = [writer EXCEPT ![k] =
           IF KeyIsAfterNode(k, n)
             THEN [w EXCEPT !.prev[w.list] = n, !.pc = "rehint"]
             ELSE [w EXCEPT !.pc = "cas"]]
      /\ UNCHANGED <<next, hint, search>>

AdvanceReadsNext(k) ==
  LET w == writer[k]
      n == next[w.prev[w.list]][w.list]
  IN  /\ w.pc = "renext"
      /\ writer' = [writer EXCEPT ![k] =
           IF w.c < Num(k) \/ KeyIsAfterNode(k, n)
             THEN [w EXCEPT !.obs[w.list] = n, !.prev[w.list] = n, !.pc = "rehint"]
             ELSE [w EXCEPT !.obs[w.list] = n, !.pc = "cas"]]
      /\ UNCHANGED <<next, hint, search>>

SkipInsert(k) ==
  \/ InsertCall(k) \/ InsertFinds(k) \/ InsertAllocates(k)
  \/ CasNext(k) \/ LowerHint(k) \/ AdvanceReadsHint(k) \/ AdvanceReadsNext(k)

Inserted == {k \in SkipKeys : writer[k].pc = "done"}

-----------------------------------------------------------------------------
(* Readers: Seek, and FindLessThan for Prev (FindLast when the key is Nil).  *)

SeekCall(r) ==
  /\ search[r].pc = "idle"
  /\ \E k \in SkipKeys :
       search' = [search EXCEPT ![r] = [find |-> FindFrom(k), pc |-> "seek", before |-> Inserted]]
  /\ UNCHANGED <<next, hint, writer>>

SeekStep(r) ==
  /\ search[r].pc = "seek"
  /\ Finding(search[r].find)
  /\ search' = [search EXCEPT ![r].find = FindStep(search[r].find)]
  /\ UNCHANGED <<next, hint, writer>>

PrevCall(r) ==
  /\ search[r].pc = "idle"
  /\ \E k \in SkipKeys \cup {Nil} :
       search' = [search EXCEPT ![r] =
         [pc |-> "less", key |-> k, at |-> HeadNode, list |-> MaxHeight - 1, before |-> Inserted]]
  /\ UNCHANGED <<next, hint, writer>>

FindLessThan(r) ==
  LET s == search[r]
      n == next[s.at][s.list]
  IN  /\ s.pc = "less"
      /\ search' = [search EXCEPT ![r] =
           IF n < s.key THEN [s EXCEPT !.at = n]
           ELSE IF s.list > 0 THEN [s EXCEPT !.list = s.list - 1]
           ELSE [s EXCEPT !.pc = "lessdone"]]
      /\ UNCHANGED <<next, hint, writer>>

SkipNext ==
  \/ \E k \in SkipKeys : SkipInsert(k)
  \/ \E r \in Readers : SeekCall(r) \/ SeekStep(r) \/ PrevCall(r) \/ FindLessThan(r)

SkipFairness ==
  /\ \A k \in SkipKeys : WF_skipVars(SkipInsert(k))
  /\ \A r \in Readers : WF_skipVars(SeekStep(r) \/ FindLessThan(r))

SkipSpec == SkipInit /\ [][SkipNext]_skipVars /\ SkipFairness

-----------------------------------------------------------------------------
(* Properties. *)

\* Every list is in order and is part of the list below it, at every moment of
\* any interleaving of inserts (Insert links a node from the bottom up).
ListsSorted ==
  \A l \in Lists :
    /\ \A n \in Nodes : next[n][l] > n
    /\ l > 0 => Linked(l) \subseteq Linked(l - 1)

\* A hint is never below the KeyNum of the node the pointer leads to: this is
\* what lets FindGreaterOrEqual pass a node on its hint alone, although hint
\* and pointer are read one after the other.
HintsLag == \A l \in Lists : \A n \in Nodes : hint[n][l] >= Num(next[n][l])

\* An insert that has returned is in the list, at each of its heights, and its
\* predecessor's hint has caught up with it.
NoInsertLost ==
  \A l \in Lists :
    LET on == Linked(l)
    IN  \A k \in Inserted : l < writer[k].height =>
          /\ k \in on
          /\ \A n \in on : next[n][l] = k => hint[n][l] <= Num(k)

\* A search that runs beside inserts misses no key that was inserted before it
\* began: Seek returns a linked node at or after its key with no such key in
\* between, FindLessThan a linked node before its key likewise.
SearchesLinearize ==
  \A r \in Readers :
    LET s == search[r]
    IN  /\ s.pc = "seek" /\ s.find.pc = "found" =>
             LET n == s.find.obs[0]
             IN  /\ n >= s.find.key /\ n \in Linked(0) \cup {Nil}
                 /\ ~\E k \in s.before : s.find.key <= k /\ k < n
        /\ s.pc = "lessdone" =>
             /\ s.at < s.key /\ s.at \in Linked(0)
             /\ ~\E k \in s.before : s.at < k /\ k < s.key

\* No key ever leaves a list.
SkipGrows == [][\A l \in Lists : Linked(l) \subseteq Linked(l)']_next

\* Every insert and every search that has begun returns, however the others
\* are scheduled: a compare-and-swap fails only because another succeeded.
SkipTerminates ==
  /\ \A k \in SkipKeys : []<>(writer[k].pc \in {"idle", "done", "out"})
  /\ \A r \in Readers : []<>(search[r].pc = "seek" => ~Finding(search[r].find))
  /\ \A r \in Readers : []<>(search[r].pc # "less")
=============================================================================
