---------------------------- MODULE SkipListProofs ----------------------------
(***************************************************************************)
(* Proofs about the concurrent skip list, for any set of keys, any number   *)
(* of readers and any height.                                               *)
(*                                                                         *)
(* The lemmas speak of a skip list as three values: on[l], the nodes that   *)
(* have been linked into list l; nx, the pointers; hn, the hints.           *)
(***************************************************************************)
EXTENDS SkipList, TLAPS

Targets == SkipKeys \cup {Nil}

Idles == {[pc |-> "idle"], [pc |-> "out"]}

FindStates ==
  [pc : {"skip", "hint", "next", "found"}, key : SkipKeys, at : Nodes, list : Lists,
   c : 0 .. MaxNum, prev : [Lists -> Nodes], obs : [Lists -> Targets]]

LinkStates ==
  [pc : {"cas", "lower", "rehint", "renext"}, height : 1 .. MaxHeight, list : Lists,
   c : 0 .. MaxNum, prev : [Lists -> Nodes], obs : [Lists -> Targets]]

DoneStates == [pc : {"done"}, height : 1 .. MaxHeight]

SeekStates == [pc : {"seek"}, find : FindStates, before : SUBSET SkipKeys]

LessStates == [pc : {"less", "lessdone"}, key : Targets, at : Nodes, list : Lists,
               before : SUBSET SkipKeys]

\* The lists that the writer in state w has linked its node into.
In(w, l) ==
  \/ w.pc \in {"cas", "rehint", "renext"} /\ l < w.list
  \/ w.pc = "lower" /\ l <= w.list
  \/ w.pc = "done" /\ l < w.height

On == [l \in Lists |-> {HeadNode} \cup {k \in SkipKeys : In(writer[k], l)}]

-----------------------------------------------------------------------------
\* The nodes reached from the head of list l through the pointers nx.
Path(nx, l) ==
  {n \in Nodes :
     \A S \in SUBSET Nodes :
       HeadNode \in S /\ (\A m \in S : nx[m][l] \in S \cup {Nil}) => n \in S}

\* A list is sorted and closed, and between a node and the next there is none.
ListOK(on, nx, l) ==
  /\ HeadNode \in on[l] /\ on[l] \subseteq Nodes
  /\ \A n \in Nodes : nx[n][l] > n /\ nx[n][l] \in on[l] \cup {Nil}
  /\ \A a, b \in on[l] : a < b => nx[a][l] <= b
  /\ Path(nx, l) = on[l]

\* What a search has found is linked; what it will step to on the strength of a
\* hint is before its key, since hints are never too low and pointers only sink.
FindOK(p, on, nx) ==
  /\ p \in FindStates
  /\ p.at \in on[p.list] /\ p.at < p.key
  /\ \A l \in Lists : /\ p.prev[l] \in on[l] /\ p.prev[l] < p.key
                      /\ p.obs[l] >= p.key /\ p.obs[l] \in on[l] \cup {Nil}
  /\ p.pc = "next" => p.c >= Num(nx[p.at][p.list])

\* The same for an insert that links its node.
LinkOK(k, w, on, nx, hn) ==
  /\ w \in LinkStates /\ w.list < w.height
  /\ \A l \in Lists : w.prev[l] \in on[l] /\ w.prev[l] < k
  /\ \A l \in Lists : l > w.list \/ (l = w.list /\ w.pc = "cas") =>
       w.obs[l] > k /\ w.obs[l] \in on[l] \cup {Nil}
  /\ w.pc = "renext" => w.c >= Num(nx[w.prev[w.list]][w.list])
  /\ w.pc = "lower" => /\ nx[w.prev[w.list]][w.list] <= k
                       /\ w.c >= hn[w.prev[w.list]][w.list]

WriterOK(k, w, on, nx, hn) ==
  \/ w \in Idles \/ w \in DoneStates
  \/ FindOK(w, on, nx) /\ w.key = k
  \/ LinkOK(k, w, on, nx, hn)

SeekOK(s, on, nx) ==
  /\ s \in SeekStates /\ FindOK(s.find, on, nx) /\ s.before \subseteq on[0]
  /\ s.find.pc = "found" => \A b \in s.before : b >= s.find.key => s.find.obs[0] <= b

LessOK(s, on) ==
  /\ s \in LessStates /\ s.at \in on[s.list] /\ s.at < s.key /\ s.before \subseteq on[0]
  /\ s.pc = "lessdone" => s.list = 0 /\ \A b \in s.before : s.at < b => s.key <= b

ReaderOK(s, on, nx) == s \in Idles \/ SeekOK(s, on, nx) \/ LessOK(s, on)

\* A pointer's hint has caught up with it, or the insert of the node it leads
\* to is still at it.
CaughtUp(nx, hn, w, n, l) ==
  LET k == nx[n][l]
  IN  k # Nil => \/ hn[n][l] <= Num(k)
                 \/ w[k].pc = "lower" /\ w[k].list = l /\ w[k].prev[l] = n

SkipTypes ==
  /\ next \in [Nodes -> [Lists -> Targets]]
  /\ hint \in [Nodes -> [Lists -> 0 .. MaxNum]]
  /\ writer \in [SkipKeys -> Idles \cup FindStates \cup LinkStates \cup DoneStates]
  /\ search \in [Readers -> Idles \cup SeekStates \cup LessStates]

SkipInv ==
  /\ SkipTypes
  /\ \A l \in Lists : ListOK(On, next, l)
  /\ \A l \in Lists : \A n \in Nodes : hint[n][l] >= Num(next[n][l])
  /\ \A l \in Lists : \A n \in Nodes : CaughtUp(next, hint, writer, n, l)
  /\ \A k \in SkipKeys : WriterOK(k, writer[k], On, next, hint)
  /\ \A r \in Readers : ReaderOK(search[r], On, next)

-----------------------------------------------------------------------------
(***************************************************************************)
(* KeyNum follows the order of the nodes.                                   *)
(***************************************************************************)
LEMMA NumOrder ==
  ASSUME NEW a \in Targets, NEW b \in Targets
  PROVE  /\ Num(a) \in 0 .. MaxNum
         /\ a \in 1 .. Nil
         /\ a <= b => Num(a) <= Num(b)
BY SkipAssumption DEF Targets, Num

LEMMA CmpNumber ==
  ASSUME NEW a \in 0 .. MaxNum
  PROVE  a \in Nat /\ a <= MaxNum /\ MaxNum \in Nat
BY SkipAssumption

LEMMA NodesAreNumbers ==
  /\ Nodes \subseteq 0 .. (Nil - 1) /\ SkipKeys \subseteq 1 .. (Nil - 1)
  /\ Lists \subseteq Nat /\ 0 \in Lists /\ MaxHeight - 1 \in Lists
  /\ \A l \in Lists : l < MaxHeight /\ (l > 0 => l - 1 \in Lists)
  /\ Nil \notin Nodes /\ HeadNode \in Nodes /\ HeadNode \notin SkipKeys
  /\ Targets \subseteq 1 .. Nil
BY SkipAssumption DEF Nodes, HeadNode, Lists, Targets

LEMMA NumTransitive ==
  ASSUME NEW a \in 0 .. MaxNum, NEW b \in 0 .. MaxNum, NEW c \in 0 .. MaxNum
  PROVE  /\ a >= b /\ b >= c => a >= c
         /\ a >= a /\ a <= a /\ MaxNum >= a /\ (a >= b <=> b <= a)
BY SkipAssumption

LEMMA ListNumber ==
  ASSUME NEW l \in Lists
  PROVE  l \in Nat /\ l < MaxHeight /\ (l > 0 => l - 1 \in Lists)
BY SkipAssumption DEF Lists

LEMMA NodeNumber ==
  ASSUME NEW n \in Nodes
  PROVE  n \in Nat /\ n < Nil /\ Nil \in Nat /\ (n # HeadNode => n \in SkipKeys)
BY SkipAssumption DEF Nodes, HeadNode

LEMMA TargetNumber ==
  ASSUME NEW n \in Targets
  PROVE  n \in Nat /\ n <= Nil /\ Nil \in Nat /\ (n < Nil => n \in SkipKeys /\ n \in Nodes)
BY SkipAssumption DEF Targets, Nodes

LEMMA KeyNumber ==
  ASSUME NEW k \in SkipKeys
  PROVE  k \in Nat /\ 0 < k /\ k < Nil /\ Nil \in Nat /\ k \in Nodes /\ k \in Targets
BY SkipAssumption DEF Targets, Nodes

(***************************************************************************)
(* Linked is what On counts, as long as the pointers lead where ListOK says.*)
(***************************************************************************)
LEMMA LinkedIsPath == \A l \in Lists : Linked(l) = Path(next, l)
<1> SUFFICES ASSUME NEW l \in Lists PROVE Linked(l) = Path(next, l)
  BY Zenon
<1>1. ASSUME NEW S, S \subseteq Nodes, HeadNode \in S
      PROVE  S \in {{HeadNode} \cup K : K \in SUBSET SkipKeys}
  <2>1. S = {HeadNode} \cup (S \cap SkipKeys)
    BY <1>1, Zenon DEF Nodes
  <2> QED
    BY <2>1, Zenon
<1>2. \A S : S \in Closed(l) <=>
               S \in SUBSET Nodes /\ HeadNode \in S /\ \A m \in S : next[m][l] \in S \cup {Nil}
  BY <1>1, Zenon DEF Closed, Nodes
<1> QED
  BY <1>2, Zenon DEF Linked, Path

(***************************************************************************)
(* Pointers of nodes that are not in a list do not matter for it.           *)
(***************************************************************************)
LEMMA PathSame ==
  ASSUME NEW on, NEW nx, NEW ny, NEW l \in Lists, ListOK(on, nx, l),
         \A n \in on[l] : ny[n][l] = nx[n][l]
  PROVE  Path(ny, l) = on[l]
<1>1. ASSUME NEW n \in Path(ny, l) PROVE n \in on[l]
  BY <1>1, on[l] \in SUBSET Nodes, Zenon DEF Path, ListOK
<1>2. ASSUME NEW n \in on[l] PROVE n \in Path(ny, l)
  <2> SUFFICES ASSUME NEW S \in SUBSET Nodes, HeadNode \in S,
                      \A m \in S : ny[m][l] \in S \cup {Nil}
               PROVE  n \in S
    BY <1>2, Zenon DEF Path, ListOK
  <2>1. \A m \in S \cap on[l] : nx[m][l] \in (S \cap on[l]) \cup {Nil}
    BY Zenon DEF ListOK
  <2>2. HeadNode \in S \cap on[l] /\ S \cap on[l] \in SUBSET Nodes
    BY Zenon DEF ListOK
  <2>3. n \in Path(nx, l)
    BY <1>2, Zenon DEF ListOK
  <2> QED
    BY <2>1, <2>2, <2>3, Zenon DEF Path
<1> QED
  BY <1>1, <1>2, Zenon

(***************************************************************************)
(* A node that is linked between prev and what prev led to is reached, and  *)
(* whatever was reached still is.                                           *)
(***************************************************************************)
LEMMA PathMore ==
  ASSUME NEW on, NEW nx, NEW ny, NEW l \in Lists, ListOK(on, nx, l),
         NEW k \in Nodes, NEW prev \in on[l], k \notin on[l],
         ny[prev][l] = k, ny[k][l] = nx[prev][l],
         \A n \in on[l] \ {prev} : ny[n][l] = nx[n][l]
  PROVE  Path(ny, l) = on[l] \cup {k}
<1>1. ASSUME NEW n \in Path(ny, l) PROVE n \in on[l] \cup {k}
  <2>1. on[l] \cup {k} \in SUBSET Nodes /\ HeadNode \in on[l] \cup {k}
    BY Zenon DEF ListOK
  <2>2. \A m \in on[l] \cup {k} : ny[m][l] \in (on[l] \cup {k}) \cup {Nil}
    BY Zenon DEF ListOK
  <2> QED
    BY <2>1, <2>2, Zenon DEF Path
<1>2. ASSUME NEW n \in on[l] \cup {k} PROVE n \in Path(ny, l)
  <2> SUFFICES ASSUME NEW S \in SUBSET Nodes, HeadNode \in S,
                      \A m \in S : ny[m][l] \in S \cup {Nil}
               PROVE  n \in S
    BY <1>2, Zenon DEF Path, ListOK
  <2>1. \A m \in S \cap on[l] : nx[m][l] \in (S \cap on[l]) \cup {Nil}
    <3> SUFFICES ASSUME NEW m \in S \cap on[l]
                 PROVE  nx[m][l] \in (S \cap on[l]) \cup {Nil}
      BY Zenon
    <3>1. nx[m][l] \in on[l] \cup {Nil}
      BY Zenon DEF ListOK
    <3>2. CASE m = prev
      <4>1. k \in S
        BY <3>2, NodesAreNumbers, Zenon
      <4> QED
        BY <3>1, <3>2, <4>1, Zenon
    <3>3. CASE m # prev
      BY <3>1, <3>3, Zenon
    <3> QED
      BY <3>2, <3>3, Zenon
  <2>2. HeadNode \in S \cap on[l] /\ S \cap on[l] \in SUBSET Nodes
    BY Zenon DEF ListOK
  <2>3. on[l] \subseteq S
    <3>1. Path(nx, l) \subseteq S \cap on[l]
      BY <2>1, <2>2, Zenon DEF Path
    <3> QED
      BY <3>1, Zenon DEF ListOK
  <2>4. k \in S
    BY <2>3, NodesAreNumbers, Zenon
  <2> QED
    BY <1>2, <2>3, <2>4, Zenon
<1> QED
  BY <1>1, <1>2, Zenon

-----------------------------------------------------------------------------
\* A step of the list from (on, nx, hn) to (op, ny, hm): nodes are only added,
\* and the pointers and hints of nodes that are in a list only sink.
Sinks(on, nx, hn, op, ny, hm) ==
  /\ nx \in [Nodes -> [Lists -> Targets]] /\ ny \in [Nodes -> [Lists -> Targets]]
  /\ hn \in [Nodes -> [Lists -> 0 .. MaxNum]] /\ hm \in [Nodes -> [Lists -> 0 .. MaxNum]]
  /\ \A l \in Lists : on[l] \subseteq Nodes /\ on[l] \subseteq op[l]
  /\ \A l \in Lists : \A n \in on[l] : ny[n][l] <= nx[n][l] /\ hm[n][l] <= hn[n][l]

(***************************************************************************)
(* What a search or an insert knows stays true while others go on.          *)
(***************************************************************************)
LEMMA NumSinks ==
  ASSUME NEW on, NEW nx, NEW hn, NEW op, NEW ny, NEW hm, Sinks(on, nx, hn, op, ny, hm),
         NEW l \in Lists, NEW n \in on[l], NEW c \in 0 .. MaxNum, c >= Num(nx[n][l])
  PROVE  c >= Num(ny[n][l])
<1>1. nx[n][l] \in Targets /\ ny[n][l] \in Targets /\ ny[n][l] <= nx[n][l]
  BY Zenon DEF Sinks
<1>2. Num(ny[n][l]) <= Num(nx[n][l])
  BY <1>1, NumOrder, Zenon
<1>3. Num(ny[n][l]) \in 0 .. MaxNum /\ Num(nx[n][l]) \in 0 .. MaxNum
  BY <1>1, NumOrder, Zenon
<1> QED
  BY <1>2, <1>3, SkipAssumption

LEMMA FindKept ==
  ASSUME NEW on, NEW nx, NEW hn, NEW op, NEW ny, NEW hm, Sinks(on, nx, hn, op, ny, hm),
         NEW p, FindOK(p, on, nx)
  PROVE  FindOK(p, op, ny)
<1>1. p \in FindStates /\ p.list \in Lists /\ p.at \in on[p.list] /\ p.c \in 0 .. MaxNum
  BY Zenon DEF FindOK, FindStates
<1>2. p.at \in op[p.list] /\ p.at < p.key
  BY <1>1, Zenon DEF FindOK, Sinks
<1>3. \A l \in Lists : /\ p.prev[l] \in op[l] /\ p.prev[l] < p.key
                       /\ p.obs[l] >= p.key /\ p.obs[l] \in op[l] \cup {Nil}
  BY Zenon DEF FindOK, Sinks
<1>4. p.pc = "next" => p.c >= Num(ny[p.at][p.list])
  BY <1>1, NumSinks, Zenon DEF FindOK
<1> QED
  BY <1>1, <1>2, <1>3, <1>4, Zenon DEF FindOK

LEMMA LinkKept ==
  ASSUME NEW on, NEW nx, NEW hn, NEW op, NEW ny, NEW hm, Sinks(on, nx, hn, op, ny, hm),
         NEW k \in SkipKeys, NEW w, LinkOK(k, w, on, nx, hn)
  PROVE  LinkOK(k, w, op, ny, hm)
<1>1. w \in LinkStates /\ w.list \in Lists /\ w.c \in 0 .. MaxNum /\ w.list < w.height
  BY Zenon DEF LinkOK, LinkStates
<1> DEFINE n == w.prev[w.list]
<1>2. n \in on[w.list] /\ n \in Nodes
  BY <1>1, Zenon DEF LinkOK, Sinks
<1>3. \A l \in Lists : w.prev[l] \in op[l] /\ w.prev[l] < k
  BY Zenon DEF LinkOK, Sinks
<1>4. \A l \in Lists : l > w.list \/ (l = w.list /\ w.pc = "cas") =>
        w.obs[l] > k /\ w.obs[l] \in op[l] \cup {Nil}
  BY Zenon DEF LinkOK, Sinks
<1>5. w.pc = "renext" => w.c >= Num(ny[n][w.list])
  BY <1>1, <1>2, NumSinks, Zenon DEF LinkOK
<1>6. ASSUME w.pc = "lower" PROVE ny[n][w.list] <= k /\ w.c >= hm[n][w.list]
  <2>1. nx[n][w.list] <= k /\ w.c >= hn[n][w.list]
    BY <1>6, Zenon DEF LinkOK
  <2>2. ny[n][w.list] <= nx[n][w.list] /\ hm[n][w.list] <= hn[n][w.list]
    BY <1>1, <1>2, Zenon DEF Sinks
  <2>3. /\ nx[n][w.list] \in Targets /\ ny[n][w.list] \in Targets
        /\ hn[n][w.list] \in 0 .. MaxNum /\ hm[n][w.list] \in 0 .. MaxNum
    BY <1>1, <1>2, Zenon DEF Sinks
  <2>4. nx[n][w.list] \in 1 .. Nil /\ ny[n][w.list] \in 1 .. Nil
    BY <2>3, NodesAreNumbers, Zenon
  <2> QED
    BY <1>1, <2>1, <2>2, <2>3, <2>4, NodesAreNumbers, SkipAssumption
<1> QED
  BY <1>1, <1>3, <1>4, <1>5, <1>6, Zenon DEF LinkOK

LEMMA WriterKept ==
  ASSUME NEW on, NEW nx, NEW hn, NEW op, NEW ny, NEW hm, Sinks(on, nx, hn, op, ny, hm),
         NEW k \in SkipKeys, NEW w, WriterOK(k, w, on, nx, hn)
  PROVE  WriterOK(k, w, op, ny, hm)
BY FindKept, LinkKept, Zenon DEF WriterOK

LEMMA ReaderKept ==
  ASSUME NEW on, NEW nx, NEW hn, NEW op, NEW ny, NEW hm, Sinks(on, nx, hn, op, ny, hm),
         NEW s, ReaderOK(s, on, nx)
  PROVE  ReaderOK(s, op, ny)
<1>1. on[0] \subseteq op[0]
  BY NodesAreNumbers, Zenon DEF Sinks
<1>2. CASE SeekOK(s, on, nx)
  <2>1. FindOK(s.find, op, ny)
    BY <1>2, FindKept, Zenon DEF SeekOK
  <2> QED
    BY <1>1, <1>2, <2>1, Zenon DEF SeekOK, ReaderOK
<1>3. CASE LessOK(s, on)
  <2>1. s.list \in Lists
    BY <1>3, Zenon DEF LessOK, LessStates
  <2>2. s.at \in op[s.list]
    BY <1>3, <2>1, Zenon DEF LessOK, Sinks
  <2>3. LessOK(s, op)
    BY <1>1, <1>3, <2>2, Zenon DEF LessOK
  <2> QED
    BY <2>3, Zenon DEF ReaderOK
<1> QED
  BY <1>2, <1>3, Zenon DEF ReaderOK

-----------------------------------------------------------------------------
(***************************************************************************)
(* A node is linked from the bottom up.                                     *)
(***************************************************************************)
LEMMA InBelow ==
  ASSUME NEW w \in Idles \cup FindStates \cup LinkStates \cup DoneStates,
         NEW l \in Lists, NEW j \in Lists, j <= l, In(w, l)
  PROVE  In(w, j)
<1>1. w.pc \in {"cas", "lower", "rehint", "renext", "done"}
  BY Zenon DEF In
<1>2. CASE w \in LinkStates
  <2>1. w.list \in Lists /\ w.pc # "done"
    BY <1>2, Zenon DEF LinkStates
  <2>2. w.list \in Nat /\ l \in Nat /\ j \in Nat
    BY <2>1, NodesAreNumbers, Zenon
  <2> QED
    BY <2>1, <2>2 DEF In
<1>3. CASE w \in DoneStates
  BY <1>3, NodesAreNumbers DEF In, DoneStates
<1> QED
  BY <1>1, <1>2, <1>3 DEF Idles, FindStates

LEMMA OnBelow ==
  ASSUME SkipTypes, NEW l \in Lists, NEW j \in Lists, j <= l
  PROVE  On[l] \subseteq On[j]
BY InBelow, Zenon DEF SkipTypes, On

(***************************************************************************)
(* A search that leaves a list for a node at or after its key has noted     *)
(* linked nodes on either side.                                             *)
(***************************************************************************)
LEMMA Leaves ==
  ASSUME SkipTypes, NEW p, FindOK(p, On, next), NEW n \in Targets,
         n >= p.key, n \in On[p.list] \cup {Nil}
  PROVE  /\ FindOK(LeaveList(p, n), On, next) /\ LeaveList(p, n).key = p.key
         /\ LeaveList(p, n).pc = "found" => p.list = 0 /\ LeaveList(p, n).obs[0] = n
<1> DEFINE l == p.list
<1>1. /\ p \in FindStates /\ l \in Lists /\ p.at \in Nodes /\ p.key \in SkipKeys
      /\ p.c \in 0 .. MaxNum /\ p.prev \in [Lists -> Nodes] /\ p.obs \in [Lists -> Targets]
  BY Zenon DEF FindOK, FindStates
<1>2. PICK j, v, q :
        /\ j \in Lists /\ v \in {"found", "skip"}
        /\ j <= l /\ (v = "found" => l = 0)
        /\ q = LeaveList(p, n)
        /\ q = [p EXCEPT !.prev[l] = p.at, !.obs[l] = n, !.list = j, !.pc = v]
  <2>1. CASE l = 0
    <3>1. LeaveList(p, n) = [p EXCEPT !.prev[l] = p.at, !.obs[l] = n, !.list = 0, !.pc = "found"]
      BY <2>1, Zenon DEF LeaveList
    <3>2. 0 \in Lists /\ 0 <= l
      BY <1>1, <2>1
    <3> QED
      BY <2>1, <3>1, <3>2, Zenon
  <2>2. CASE l # 0
    <3>1. l - 1 \in Lists /\ l - 1 <= l
      BY <1>1, <2>2, ListNumber
    <3> QED
      BY <2>2, <3>1, Zenon DEF LeaveList
  <2> QED
    BY <2>1, <2>2, Zenon
<1>3. /\ q.pc = v /\ q.list = j /\ q.at = p.at /\ q.key = p.key /\ q.c = p.c
      /\ q.prev = [p.prev EXCEPT ![l] = p.at] /\ q.obs = [p.obs EXCEPT ![l] = n]
  BY <1>1, <1>2, Zenon DEF FindStates
<1>4. q = [pc |-> q.pc, key |-> q.key, at |-> q.at, list |-> q.list, c |-> q.c,
           prev |-> q.prev, obs |-> q.obs]
  BY <1>1, <1>2, Zenon DEF FindStates
<1>5. q.prev \in [Lists -> Nodes] /\ q.obs \in [Lists -> Targets]
  BY <1>1, <1>3, Zenon
<1>6. q \in FindStates
  BY <1>1, <1>2, <1>3, <1>4, <1>5, Zenon DEF FindStates
<1>7. q.at \in On[q.list] /\ q.at < q.key
  BY <1>1, <1>2, <1>3, OnBelow, Zenon DEF FindOK
<1>8. \A i \in Lists : /\ q.prev[i] \in On[i] /\ q.prev[i] < q.key
                       /\ q.obs[i] >= q.key /\ q.obs[i] \in On[i] \cup {Nil}
  BY <1>1, <1>3, Zenon DEF FindOK
<1>9. FindOK(q, On, next)
  BY <1>2, <1>3, <1>6, <1>7, <1>8, Zenon DEF FindOK
<1>10. q.pc = "found" => l = 0 /\ q.obs[0] = n
  BY <1>1, <1>2, <1>3, Zenon
<1> QED
  BY <1>2, <1>3, <1>9, <1>10, Zenon

(***************************************************************************)
(* A search steps to nodes before its key only, and notes nodes that are    *)
(* not; at the bottom it finds the first such node.                         *)
(***************************************************************************)
LEMMA FindSteps ==
  ASSUME SkipInv, NEW p, FindOK(p, On, next), Finding(p)
  PROVE  /\ FindOK(FindStep(p), On, next) /\ FindStep(p).key = p.key
         /\ FindStep(p).pc = "found" =>
              \A b \in On[0] : b >= p.key => FindStep(p).obs[0] <= b
<1> DEFINE n == next[p.at][p.list]
           l == p.list
<1>1. /\ p \in FindStates /\ l \in Lists /\ p.at \in On[l] /\ p.at \in Nodes
      /\ p.key \in SkipKeys /\ p.at < p.key
  BY Zenon DEF FindOK, FindStates
<1>2. n \in Targets /\ n \in On[l] \cup {Nil} /\ n > p.at
  BY <1>1 DEF SkipInv, SkipTypes, ListOK
<1>3. hint[p.at][l] >= Num(n) /\ hint[p.at][l] \in 0 .. MaxNum
  BY <1>1, Zenon DEF SkipInv, SkipTypes
<1>4. p.pc \in {"skip", "hint", "next"}
  BY Zenon DEF Finding
<1>5. CASE p.pc = "skip"
  <2>1. FindStep(p) = FindSkips(p)
    BY <1>5, Zenon DEF FindStep
  <2>2. CASE l > 0 /\ hint[p.at][l] > Num(p.key)
    <3>1. FindStep(p) = LeaveList(p, Nil)
      BY <2>1, <2>2, Zenon DEF FindSkips
    <3>2. Nil \in Targets /\ Nil >= p.key
      BY <1>1, NodesAreNumbers DEF Targets
    <3> QED
      BY <2>2, <3>1, <3>2, Leaves DEF SkipInv
  <2>3. CASE ~(l > 0 /\ hint[p.at][l] > Num(p.key))
    <3>1. FindStep(p) = [p EXCEPT !.pc = "hint"]
      BY <2>1, <2>3, Zenon DEF FindSkips
    <3> QED
      BY <1>1, <3>1, Zenon DEF FindOK, FindStates
  <2> QED
    BY <2>2, <2>3, Zenon
<1>6. CASE p.pc = "hint"
  <2>1. FindStep(p) = [p EXCEPT !.c = hint[p.at][l], !.pc = "next"]
    BY <1>6, Zenon DEF FindStep, FindReadsHint
  <2> QED
    BY <1>1, <1>3, <2>1, Zenon DEF FindOK, FindStates
<1>7. CASE p.pc = "next"
  <2>1. FindStep(p) = FindReadsNext(p)
    BY <1>7, Zenon DEF FindStep
  <2>2. CASE p.c < Num(p.key) \/ KeyIsAfterNode(p.key, n)
    <3>1. FindStep(p) = [p EXCEPT !.at = n, !.pc = "skip"]
      BY <2>1, <2>2, Zenon DEF FindReadsNext
    <3>2. n < p.key
      <4>1. CASE KeyIsAfterNode(p.key, n)
        BY <4>1, Zenon DEF KeyIsAfterNode
      <4>2. CASE p.c < Num(p.key)
        <5>1. p.c >= Num(n) /\ p.c \in 0 .. MaxNum
          BY <1>1, <1>7, Zenon DEF FindOK, FindStates
        <5>2. p.key \in Targets
          BY <1>1, Zenon DEF Targets
        <5>3. Num(n) < Num(p.key)
          BY <1>2, <4>2, <5>1, <5>2, NumOrder, SkipAssumption
        <5> QED
          BY <1>2, <5>2, <5>3, NumOrder, SkipAssumption
      <4> QED
        BY <2>2, <4>1, <4>2, Zenon
    <3>3. n \in On[l] /\ n \in Nodes
      BY <1>1, <1>2, <3>2, NodesAreNumbers DEF Targets, Nodes
    <3> QED
      BY <1>1, <3>1, <3>2, <3>3, Zenon DEF FindOK, FindStates
  <2>3. CASE ~(p.c < Num(p.key) \/ KeyIsAfterNode(p.key, n))
    <3>1. FindStep(p) = LeaveList(p, n)
      BY <2>1, <2>3, Zenon DEF FindReadsNext
    <3>2. n >= p.key
      BY <1>1, <1>2, <2>3, TargetNumber, KeyNumber DEF KeyIsAfterNode
    <3>3. ASSUME l = 0, NEW b \in On[0], b >= p.key PROVE n <= b
      <4>1. b \in Nodes
        BY <1>1, <3>3, Zenon DEF SkipInv, ListOK
      <4>2. p.at < b
        BY <1>1, <3>3, <4>1, NodeNumber, KeyNumber
      <4> QED
        BY <1>1, <3>3, <4>2, Zenon DEF SkipInv, ListOK
    <3> QED
      BY <1>2, <3>1, <3>2, <3>3, Leaves DEF SkipInv
  <2> QED
    BY <2>2, <2>3, Zenon
<1> QED
  BY <1>4, <1>5, <1>6, <1>7, Zenon

-----------------------------------------------------------------------------
(***************************************************************************)
(* One writer moves, the list sinks, and the rest keep what they know.      *)
(***************************************************************************)
LEMMA OneMoves ==
  ASSUME SkipInv, SkipTypes', UNCHANGED search, NEW k \in SkipKeys,
         \A j \in SkipKeys \ {k} : writer'[j] = writer[j],
         Sinks(On, next, hint, On', next', hint'),
         \A l \in Lists : ListOK(On', next', l),
         \A l \in Lists : \A n \in Nodes : hint'[n][l] >= Num(next'[n][l]),
         \A l \in Lists : \A n \in Nodes : CaughtUp(next', hint', writer', n, l),
         WriterOK(k, writer'[k], On', next', hint')
  PROVE  SkipInv'
<1>1. \A j \in SkipKeys : WriterOK(j, writer'[j], On', next', hint')
  <2> SUFFICES ASSUME NEW j \in SkipKeys, j # k
               PROVE  WriterOK(j, writer'[j], On', next', hint')
    BY Zenon
  <2>1. WriterOK(j, writer[j], On, next, hint)
    BY Zenon DEF SkipInv
  <2>2. WriterOK(j, writer[j], On', next', hint')
    BY <2>1, WriterKept, Zenon
  <2> QED
    BY <2>2, Zenon
<1>2. \A r \in Readers : ReaderOK(search'[r], On', next')
  <2> SUFFICES ASSUME NEW r \in Readers PROVE ReaderOK(search'[r], On', next')
    BY Zenon
  <2>1. ReaderOK(search[r], On, next)
    BY Zenon DEF SkipInv
  <2>2. ReaderOK(search[r], On', next')
    BY <2>1, ReaderKept, Zenon
  <2> QED
    BY <2>2, Zenon
<1> QED
  BY <1>1, <1>2, Zenon DEF SkipInv

LEMMA SinksSame ==
  ASSUME SkipInv
  PROVE  Sinks(On, next, hint, On, next, hint)
<1>1. \A l \in Lists : On[l] \subseteq Nodes
  BY Zenon DEF SkipInv, ListOK
<1>2. \A l \in Lists : \A n \in Nodes : next[n][l] \in Targets /\ hint[n][l] \in 0 .. MaxNum
  BY Zenon DEF SkipInv, SkipTypes
<1>3. \A l \in Lists : \A n \in On[l] : next[n][l] <= next[n][l] /\ hint[n][l] <= hint[n][l]
  BY <1>1, <1>2, TargetNumber
<1> QED
  BY <1>1, <1>3, Zenon DEF Sinks, SkipInv, SkipTypes

LEMMA OnSame ==
  ASSUME SkipTypes, NEW k \in SkipKeys, NEW w, writer' = [writer EXCEPT ![k] = w],
         \A l \in Lists : In(w, l) <=> In(writer[k], l)
  PROVE  On' = On
<1>1. \A j \in SkipKeys, l \in Lists : In(writer'[j], l) <=> In(writer[j], l)
  BY Zenon DEF SkipTypes
<1>2. \A l \in Lists : {j \in SkipKeys : In(writer'[j], l)} = {j \in SkipKeys : In(writer[j], l)}
  BY <1>1, Zenon
<1> QED
  BY <1>2, Zenon DEF On

(***************************************************************************)
(* A writer that reads shared memory, or only thinks, moves alone.          *)
(***************************************************************************)
LEMMA WriterMoves ==
  ASSUME SkipInv, UNCHANGED <<next, hint, search>>, NEW k \in SkipKeys,
         NEW w \in Idles \cup FindStates \cup LinkStates \cup DoneStates,
         writer' = [writer EXCEPT ![k] = w], writer[k].pc # "lower",
         \A l \in Lists : In(w, l) <=> In(writer[k], l),
         WriterOK(k, w, On, next, hint)
  PROVE  SkipInv'
<1>1. On' = On
  BY OnSame, Zenon DEF SkipInv
<1>2. SkipTypes'
  BY Zenon DEF SkipInv, SkipTypes
<1>3. writer'[k] = w /\ \A j \in SkipKeys \ {k} : writer'[j] = writer[j]
  BY Zenon DEF SkipInv, SkipTypes
<1>4. ASSUME NEW l \in Lists, NEW n \in Nodes
      PROVE  CaughtUp(next', hint', writer', n, l)
  <2>1. CaughtUp(next, hint, writer, n, l) /\ next[n][l] \in Targets
    BY Zenon DEF SkipInv, SkipTypes
  <2> QED
    BY <1>3, <2>1, Zenon DEF CaughtUp, Targets
<1>5. Sinks(On, next, hint, On', next', hint')
  BY <1>1, SinksSame, Zenon
<1>6. \A l \in Lists : ListOK(On', next', l)
  BY <1>1, Zenon DEF SkipInv
<1>7. \A l \in Lists : \A n \in Nodes : hint'[n][l] >= Num(next'[n][l])
  BY Zenon DEF SkipInv
<1>8. WriterOK(k, writer'[k], On', next', hint')
  BY <1>1, <1>3, Zenon
<1> QED
  BY <1>2, <1>3, <1>4, <1>5, <1>6, <1>7, <1>8, OneMoves, Zenon

(***************************************************************************)
(* A search begins at the head.                                             *)
(***************************************************************************)
LEMMA FindBegins ==
  ASSUME SkipInv, NEW k \in SkipKeys
  PROVE  FindOK(FindFrom(k), On, next)
<1>1. /\ FindFrom(k) \in FindStates
      /\ FindFrom(k).at = HeadNode /\ FindFrom(k).key = k /\ FindFrom(k).pc = "skip"
      /\ FindFrom(k).list \in Lists
      /\ \A l \in Lists : FindFrom(k).prev[l] = HeadNode /\ FindFrom(k).obs[l] = Nil
  <2>1. MaxHeight - 1 \in Lists /\ HeadNode \in Nodes /\ 0 \in 0 .. MaxNum /\ Nil \in Targets
    BY SkipAssumption DEF Lists, Nodes, Targets
  <2> QED
    BY <2>1, Zenon DEF FindFrom, FindStates
<1>2. \A l \in Lists : HeadNode \in On[l]
  BY Zenon DEF SkipInv, ListOK
<1>3. HeadNode < k /\ Nil >= k
  BY KeyNumber DEF HeadNode
<1> QED
  BY <1>1, <1>2, <1>3, Zenon DEF FindOK

(***************************************************************************)
(* What the state of a writer is, by its point.                             *)
(***************************************************************************)
LEMMA WriterAt ==
  ASSUME SkipInv, NEW k \in SkipKeys
  PROVE  /\ writer[k].pc \in {"skip", "hint", "next", "found"} =>
              FindOK(writer[k], On, next) /\ writer[k].key = k
         /\ writer[k].pc \in {"cas", "lower", "rehint", "renext"} =>
              LinkOK(k, writer[k], On, next, hint)
<1>1. WriterOK(k, writer[k], On, next, hint)
  BY Zenon DEF SkipInv
<1>2. writer[k] \in Idles => writer[k].pc \in {"idle", "out"}
  BY DEF Idles
<1>3. writer[k] \in DoneStates => writer[k].pc = "done"
  BY Zenon DEF DoneStates
<1>4. FindOK(writer[k], On, next) => writer[k].pc \in {"skip", "hint", "next", "found"}
  BY Zenon DEF FindOK, FindStates
<1>5. LinkOK(k, writer[k], On, next, hint) => writer[k].pc \in {"cas", "lower", "rehint", "renext"}
  BY Zenon DEF LinkOK, LinkStates
<1> QED
  BY <1>1, <1>2, <1>3, <1>4, <1>5, Zenon DEF WriterOK

LEMMA NotOn ==
  ASSUME NEW k \in SkipKeys, NEW l \in Lists, ~In(writer[k], l)
  PROVE  k \notin On[l]
<1>1. k # HeadNode
  BY KeyNumber DEF HeadNode
<1> QED
  BY <1>1, Zenon DEF On

(***************************************************************************)
(* The steps of Insert that find the place and allocate the node.           *)
(***************************************************************************)
LEMMA FindMoves ==
  ASSUME SkipInv, NEW k \in SkipKeys,
         InsertCall(k) \/ InsertFinds(k) \/ InsertAllocates(k)
  PROVE  SkipInv'
<1>1. CASE InsertCall(k)
  <2>1. FindOK(FindFrom(k), On, next) /\ FindFrom(k) \in FindStates /\ FindFrom(k).key = k
    BY FindBegins, Zenon DEF FindOK, FindFrom
  <2>2. \A l \in Lists : ~In(FindFrom(k), l) /\ ~In(writer[k], l)
    BY <1>1, Zenon DEF InsertCall, In, FindFrom
  <2>3. WriterOK(k, FindFrom(k), On, next, hint)
    BY <2>1, Zenon DEF WriterOK
  <2> QED
    BY <1>1, <2>1, <2>2, <2>3, WriterMoves, Zenon DEF InsertCall
<1>2. CASE InsertFinds(k)
  <2> DEFINE q == FindStep(writer[k])
  <2>1. writer[k].pc \in {"skip", "hint", "next"} /\ Finding(writer[k])
    BY <1>2, Zenon DEF InsertFinds, Finding
  <2>2. FindOK(writer[k], On, next) /\ writer[k].key = k
    BY <2>1, WriterAt, Zenon
  <2>3. FindOK(q, On, next) /\ q.key = k
    BY <2>1, <2>2, FindSteps, Zenon
  <2>4. q \in FindStates /\ WriterOK(k, q, On, next, hint)
    BY <2>3, Zenon DEF FindOK, WriterOK
  <2>5. \A l \in Lists : ~In(q, l) /\ ~In(writer[k], l)
    BY <2>1, <2>4, Zenon DEF In, FindStates
  <2> HIDE DEF q
  <2>6. writer' = [writer EXCEPT ![k] = q] /\ UNCHANGED <<next, hint, search>>
    BY <1>2, Zenon DEF InsertFinds, q
  <2> QED
    BY <2>1, <2>4, <2>5, <2>6, WriterMoves, Zenon
<1>3. CASE InsertAllocates(k)
  <2>1. writer[k].pc = "found" /\ FindOK(writer[k], On, next) /\ writer[k].key = k
    BY <1>3, WriterAt, Zenon DEF InsertAllocates
  <2>2. PICK h \in 1 .. MaxHeight :
          writer' = [writer EXCEPT ![k] = [pc |-> "cas", height |-> h, list |-> 0, c |-> 0,
                                           prev |-> writer[k].prev, obs |-> writer[k].obs]]
    BY <1>3, Zenon DEF InsertAllocates
  <2> DEFINE w == [pc |-> "cas", height |-> h, list |-> 0, c |-> 0,
                   prev |-> writer[k].prev, obs |-> writer[k].obs]
  <2>3. w \in LinkStates
    BY <2>1, SkipAssumption DEF FindOK, FindStates, LinkStates, Lists
  <2>4. \A l \in Lists : ~In(w, l) /\ ~In(writer[k], l)
    BY <2>1, ListNumber DEF In
  <2>5. \A l \in Lists : k \notin On[l]
    BY <2>4, NotOn, Zenon
  <2>6. ASSUME NEW l \in Lists PROVE w.obs[l] > k
    <3>1. /\ w.obs[l] \in Targets /\ w.obs[l] >= k
          /\ w.obs[l] \in On[l] \cup {Nil}
      BY <2>1, Zenon DEF FindOK, FindStates
    <3>2. w.obs[l] # k
      BY <2>5, <3>1, KeyNumber
    <3> HIDE DEF w
    <3>3. k \in Nat /\ w.obs[l] \in Nat
      BY <3>1, KeyNumber, TargetNumber, Zenon
    <3> QED
      BY <3>1, <3>2, <3>3
  <2>7. LinkOK(k, w, On, next, hint)
    BY <2>1, <2>3, <2>6 DEF FindOK, LinkOK
  <2>8. WriterOK(k, w, On, next, hint)
    BY <2>7, Zenon DEF WriterOK
  <2> HIDE DEF w
  <2>9. writer' = [writer EXCEPT ![k] = w] /\ UNCHANGED <<next, hint, search>>
    BY <1>3, <2>2, Zenon DEF InsertAllocates, w
  <2> QED
    BY <2>1, <2>3, <2>4, <2>8, <2>9, WriterMoves, Zenon
<1> QED
  BY <1>1, <1>2, <1>3, Zenon

(***************************************************************************)
(* The lists a writer that links its node is in.                            *)
(***************************************************************************)
LEMMA LinkFacts ==
  ASSUME SkipInv, NEW k \in SkipKeys,
         writer[k].pc \in {"cas", "lower", "rehint", "renext"}
  PROVE  /\ LinkOK(k, writer[k], On, next, hint)
         /\ writer[k] \in LinkStates /\ writer[k].list \in Lists
         /\ writer[k].prev[writer[k].list] \in On[writer[k].list]
         /\ writer[k].prev[writer[k].list] \in Nodes
         /\ writer[k].prev[writer[k].list] < k
         /\ writer[k].pc # "lower" => k \notin On[writer[k].list]
<1>1. LinkOK(k, writer[k], On, next, hint)
  BY WriterAt, Zenon
<1>2. writer[k] \in LinkStates /\ writer[k].list \in Lists
  BY <1>1, Zenon DEF LinkOK, LinkStates
<1>3. /\ writer[k].prev[writer[k].list] \in On[writer[k].list]
      /\ writer[k].prev[writer[k].list] < k
  BY <1>1, <1>2, Zenon DEF LinkOK
<1>4. On[writer[k].list] \subseteq Nodes
  BY <1>2, Zenon DEF SkipInv, ListOK
<1>5. ASSUME writer[k].pc # "lower" PROVE k \notin On[writer[k].list]
  <2>1. writer[k].pc \in {"cas", "rehint", "renext"}
    BY <1>5, Zenon
  <2>2. ~In(writer[k], writer[k].list)
    BY <1>2, <2>1, ListNumber DEF In
  <2> QED
    BY <1>2, <2>2, KeyNumber DEF On, HeadNode
<1> QED
  BY <1>1, <1>2, <1>3, <1>4, <1>5, Zenon

(***************************************************************************)
(* A writer that reads a node on its list passes it when the node is before *)
(* its key, and otherwise expects to find it behind its predecessor.        *)
(***************************************************************************)
Passed(w, n) == [w EXCEPT !.obs[w.list] = n, !.prev[w.list] = n, !.pc = "rehint"]

Expected(w, n) == [w EXCEPT !.obs[w.list] = n, !.pc = "cas"]

LEMMA Passes ==
  ASSUME NEW on, NEW nx, NEW hn, NEW k \in SkipKeys, NEW w, LinkOK(k, w, on, nx, hn),
         NEW n \in Nodes, n \in Targets, n < k, n \in on[w.list],
         NEW q, q = Passed(w, n)
  PROVE  LinkOK(k, q, on, nx, hn) /\ q \in LinkStates /\ q.list = w.list /\ q.pc = "rehint"
<1> DEFINE l == w.list
<1>1. /\ w \in LinkStates /\ l \in Lists /\ l < w.height
      /\ w.prev \in [Lists -> Nodes] /\ w.obs \in [Lists -> Targets]
  BY Zenon DEF LinkOK, LinkStates
<1>2. /\ q.list = l /\ q.pc = "rehint" /\ q.c = w.c /\ q.height = w.height
      /\ q.prev = [w.prev EXCEPT ![l] = n] /\ q.obs = [w.obs EXCEPT ![l] = n]
  BY <1>1, Zenon DEF LinkStates, Passed
<1>3. q = [pc |-> q.pc, height |-> q.height, list |-> q.list, c |-> q.c,
           prev |-> q.prev, obs |-> q.obs]
  BY <1>1, Zenon DEF LinkStates, Passed
<1>4. q.prev \in [Lists -> Nodes] /\ q.obs \in [Lists -> Targets]
  BY <1>1, <1>2
<1>5. q \in LinkStates
  BY <1>1, <1>2, <1>3, <1>4, Zenon DEF LinkStates
<1>6. \A i \in Lists : q.prev[i] \in on[i] /\ q.prev[i] < k
  BY <1>1, <1>2, Zenon DEF LinkOK
<1>7. ASSUME NEW i \in Lists, i > l PROVE q.obs[i] > k /\ q.obs[i] \in on[i] \cup {Nil}
  <2> i \in Nat /\ l \in Nat
    BY <1>1, ListNumber, Zenon
  <2>1. i # l
    BY <1>7
  <2>2. q.obs[i] = w.obs[i]
    BY <1>1, <1>2, <2>1, Zenon
  <2> QED
    BY <1>7, <2>2, Zenon DEF LinkOK
<1> QED
  BY <1>1, <1>2, <1>5, <1>6, <1>7, Zenon DEF LinkOK

LEMMA Expects ==
  ASSUME NEW on, NEW nx, NEW hn, NEW k \in SkipKeys, NEW w, LinkOK(k, w, on, nx, hn),
         NEW n \in Targets, n > k, n \in on[w.list] \cup {Nil},
         NEW q, q = Expected(w, n)
  PROVE  LinkOK(k, q, on, nx, hn) /\ q \in LinkStates /\ q.list = w.list /\ q.pc = "cas"
<1> DEFINE l == w.list
<1>1. /\ w \in LinkStates /\ l \in Lists /\ l < w.height
      /\ w.prev \in [Lists -> Nodes] /\ w.obs \in [Lists -> Targets]
  BY Zenon DEF LinkOK, LinkStates
<1>2. /\ q.list = l /\ q.pc = "cas" /\ q.c = w.c /\ q.height = w.height
      /\ q.prev = w.prev /\ q.obs = [w.obs EXCEPT ![l] = n]
  BY <1>1, Zenon DEF LinkStates, Expected
<1>3. q = [pc |-> q.pc, height |-> q.height, list |-> q.list, c |-> q.c,
           prev |-> q.prev, obs |-> q.obs]
  BY <1>1, Zenon DEF LinkStates, Expected
<1>4. q.obs \in [Lists -> Targets]
  BY <1>1, <1>2, Zenon
<1>5. q \in LinkStates
  BY <1>1, <1>2, <1>3, <1>4, Zenon DEF LinkStates
<1>6. q.obs[l] = n
  BY <1>1, <1>2, Zenon
<1>7. ASSUME NEW i \in Lists, i > l PROVE q.obs[i] > k /\ q.obs[i] \in on[i] \cup {Nil}
  <2> i \in Nat /\ l \in Nat
    BY <1>1, ListNumber, Zenon
  <2>1. i # l
    BY <1>7
  <2>2. q.obs[i] = w.obs[i]
    BY <1>1, <1>2, <2>1, Zenon
  <2> QED
    BY <1>7, <2>2, Zenon DEF LinkOK
<1>8. \A i \in Lists : q.prev[i] \in on[i] /\ q.prev[i] < k
  BY <1>2, Zenon DEF LinkOK
<1> QED
  BY <1>1, <1>2, <1>5, <1>6, <1>7, <1>8 DEF LinkOK

(***************************************************************************)
(* A writer whose compare-and-swap failed reads on along the list.          *)
(***************************************************************************)
LEMMA PointerFacts ==
  ASSUME SkipInv, NEW l \in Lists, NEW m \in Nodes
  PROVE  /\ next[m][l] \in Targets /\ next[m][l] \in On[l] \cup {Nil}
         /\ hint[m][l] \in 0 .. MaxNum /\ hint[m][l] >= Num(next[m][l])
<1>1. ListOK(On, next, l) /\ hint[m][l] >= Num(next[m][l])
  BY Zenon DEF SkipInv
<1>2. next[m][l] \in Targets /\ hint[m][l] \in 0 .. MaxNum
  BY Zenon DEF SkipInv, SkipTypes
<1> QED
  BY <1>1, <1>2, Zenon DEF ListOK

\* A hint below the KeyNum of k belongs to a pointer to a node before k.
LEMMA HintTells ==
  ASSUME NEW k \in SkipKeys, NEW n \in Targets, NEW c \in 0 .. MaxNum, c >= Num(n), c < Num(k)
  PROVE  n < k
<1>1. c \in Nat /\ k \in Targets /\ k \in Nat /\ n \in Nat
  BY CmpNumber, KeyNumber, TargetNumber, Zenon
<1>2. Num(n) \in Nat /\ Num(k) \in Nat
  BY <1>1, NumOrder, CmpNumber, Zenon
<1>3. ~(Num(k) <= Num(n))
  BY <1>1, <1>2
<1>4. ~(k <= n)
  BY <1>1, <1>3, NumOrder, Zenon
<1> QED
  BY <1>1, <1>4

LEMMA BeforeKey ==
  ASSUME NEW k \in SkipKeys, NEW n \in Targets, n < k
  PROVE  n \in Nodes /\ n # Nil
<1>1. n \in Nat /\ k \in Nat /\ k < Nil /\ Nil \in Nat
  BY KeyNumber, TargetNumber, Zenon
<1>2. n < Nil
  BY <1>1
<1> QED
  BY <1>1, <1>2, TargetNumber

LEMMA AdvanceMoves ==
  ASSUME SkipInv, NEW k \in SkipKeys, AdvanceReadsHint(k) \/ AdvanceReadsNext(k)
  PROVE  SkipInv'
<1> DEFINE w == writer[k]
           l == w.list
           m == w.prev[l]
           n == next[m][l]
<1>1. w.pc \in {"rehint", "renext"} /\ UNCHANGED <<next, hint, search>>
  BY Zenon DEF AdvanceReadsHint, AdvanceReadsNext
<1>2. /\ LinkOK(k, w, On, next, hint) /\ w \in LinkStates /\ l \in Lists
      /\ m \in On[l] /\ m \in Nodes /\ m < k /\ k \notin On[l]
  BY <1>1, LinkFacts, Zenon
<1>3. /\ n \in Targets /\ n \in On[l] \cup {Nil}
      /\ hint[m][l] \in 0 .. MaxNum /\ hint[m][l] >= Num(n)
  BY <1>2, PointerFacts, Zenon
<1>4. ASSUME NEW q \in LinkStates, writer' = [writer EXCEPT ![k] = q], q.list = l,
             q.pc \in {"cas", "rehint", "renext"}, LinkOK(k, q, On, next, hint)
      PROVE  SkipInv'
  <2>1. \A i \in Lists : In(q, i) <=> In(w, i)
    BY <1>1, <1>4, Zenon DEF In
  <2>2. WriterOK(k, q, On, next, hint)
    BY <1>4, Zenon DEF WriterOK
  <2> QED
    BY <1>1, <1>4, <2>1, <2>2, WriterMoves, Zenon
<1>5. CASE AdvanceReadsHint(k)
  <2> DEFINE q == [w EXCEPT !.c = hint[m][l], !.pc = "renext"]
  <2>1. /\ q \in LinkStates /\ q.list = l /\ q.pc = "renext" /\ q.c = hint[m][l]
        /\ q.prev = w.prev /\ q.obs = w.obs /\ q.height = w.height
    BY <1>2, <1>3, Zenon DEF LinkStates
  <2>2. writer' = [writer EXCEPT ![k] = q]
    BY <1>5, Zenon DEF AdvanceReadsHint, SkipInv, SkipTypes
  <2> HIDE DEF q
  <2>3. LinkOK(k, q, On, next, hint)
    BY <1>2, <1>3, <2>1, Zenon DEF LinkOK
  <2> QED
    BY <1>4, <2>1, <2>2, <2>3, Zenon
<1>6. CASE AdvanceReadsNext(k)
  <2>1. w.pc = "renext" /\ w.c >= Num(n) /\ w.c \in 0 .. MaxNum
    BY <1>2, <1>6, Zenon DEF AdvanceReadsNext, LinkOK, LinkStates
  <2>2. CASE w.c < Num(k) \/ KeyIsAfterNode(k, n)
    <3> DEFINE q == Passed(w, n)
    <3>1. n < k /\ n \in On[l] /\ n \in Nodes
      <4>1. n < k
        <5>1. CASE KeyIsAfterNode(k, n)
          BY <5>1, Zenon DEF KeyIsAfterNode
        <5>2. CASE w.c < Num(k)
          BY <1>3, <2>1, <5>2, HintTells, Zenon
        <5> QED
          BY <2>2, <5>1, <5>2, Zenon
      <4>2. n \in Nodes /\ n # Nil
        BY <1>3, <4>1, BeforeKey, Zenon
      <4> QED
        BY <1>3, <4>1, <4>2, Zenon
    <3>2. writer' = [writer EXCEPT ![k] = q]
      BY <1>6, <2>2, Zenon DEF AdvanceReadsNext, Passed
    <3>3. LinkOK(k, q, On, next, hint) /\ q \in LinkStates /\ q.list = l /\ q.pc = "rehint"
      <4> HIDE DEF n, m, q
      <4>1. LinkOK(k, w, On, next, hint) /\ n \in Targets
        BY <1>2, <1>3, Zenon
      <4>2. n < k /\ n \in Nodes /\ n \in On[w.list]
        BY <1>3, <3>1, Zenon
      <4>3. q = Passed(w, n)
        BY Zenon DEF q
      <4> HIDE DEF w, l
      <4>4. LinkOK(k, q, On, next, hint) /\ q \in LinkStates /\ q.list = w.list /\ q.pc = "rehint"
        BY <4>1, <4>2, <4>3, Passes
      <4> QED
        BY <4>4, Zenon DEF l
    <3> QED
      BY <1>4, <3>2, <3>3, Zenon
  <2>3. CASE ~(w.c < Num(k) \/ KeyIsAfterNode(k, n))
    <3> DEFINE q == Expected(w, n)
    <3>1. n > k
      <4> HIDE DEF n, m
      <4>1. k \in Nat /\ k < Nil /\ n \in Nat /\ Nil \in Nat
        BY <1>3, KeyNumber, TargetNumber, Zenon
      <4>2. n # k
        BY <1>2, <1>3, <4>1
      <4>3. n = Nil \/ ~(n < k)
        BY <2>3, Zenon DEF KeyIsAfterNode
      <4> QED
        BY <4>1, <4>2, <4>3
    <3>2. writer' = [writer EXCEPT ![k] = q]
      BY <1>6, <2>3, Zenon DEF AdvanceReadsNext, Expected
    <3>3. LinkOK(k, q, On, next, hint) /\ q \in LinkStates /\ q.list = l /\ q.pc = "cas"
      <4> HIDE DEF n, m, q
      <4>1. LinkOK(k, w, On, next, hint) /\ n \in Targets
        BY <1>2, <1>3, Zenon
      <4>2. n > k /\ n \in On[w.list] \cup {Nil}
        BY <1>3, <3>1, Zenon
      <4>3. q = Expected(w, n)
        BY Zenon DEF q
      <4> HIDE DEF w, l
      <4>4. LinkOK(k, q, On, next, hint) /\ q \in LinkStates /\ q.list = w.list /\ q.pc = "cas"
        BY <4>1, <4>2, <4>3, Expects
      <4> QED
        BY <4>4, Zenon DEF l
    <3> QED
      BY <1>4, <3>2, <3>3, Zenon
  <2> QED
    BY <2>2, <2>3, Zenon
<1> QED
  BY <1>5, <1>6, Zenon

(***************************************************************************)
(* A writer that has linked its node lowers the hint before it, for as long *)
(* as the hint is above its KeyNum.                                         *)
(***************************************************************************)
LEMMA LoweredBounds ==
  ASSUME NEW h \in 0 .. MaxNum, NEW c \in 0 .. MaxNum, NEW a \in 0 .. MaxNum,
         NEW b \in 0 .. MaxNum, b <= a, h >= b, c > a
  PROVE  LET v == Lowered(h, c, a) IN v \in 0 .. MaxNum /\ v <= h /\ v >= b
<1>1. h \in Nat /\ c \in Nat /\ a \in Nat /\ b \in Nat
  BY CmpNumber, Zenon
<1> QED
  BY <1>1 DEF Lowered

LEMMA LowersOnce ==
  ASSUME SkipInv, NEW k \in SkipKeys, writer[k].pc = "lower", writer[k].c > Num(k),
         LowerHint(k)
  PROVE  SkipInv'
<1> DEFINE w == writer[k]
           l == w.list
           m == w.prev[l]
           h == hint[m][l]
           v == Lowered(h, w.c, Num(k))
           q == [w EXCEPT !.c = h]
<1>1. /\ LinkOK(k, w, On, next, hint) /\ w \in LinkStates /\ l \in Lists
      /\ m \in On[l] /\ m \in Nodes /\ m < k
  BY LinkFacts, Zenon
<1>2. /\ hint' = [hint EXCEPT ![m][l] = v] /\ UNCHANGED <<next, search>>
      /\ writer' = [writer EXCEPT ![k].c = h]
  BY Zenon DEF LowerHint
<1>3. next[m][l] <= k /\ w.c >= h /\ w.c \in 0 .. MaxNum
  BY <1>1, Zenon DEF LinkOK, LinkStates
<1>4. next[m][l] \in Targets /\ h \in 0 .. MaxNum /\ h >= Num(next[m][l])
  BY <1>1, Zenon DEF SkipInv, SkipTypes
<1>5. Num(k) \in 0 .. MaxNum /\ Num(next[m][l]) \in 0 .. MaxNum /\ Num(next[m][l]) <= Num(k)
  BY <1>3, <1>4, KeyNumber, NumOrder, Zenon
<1>6. v \in 0 .. MaxNum /\ v <= h /\ v >= Num(next[m][l])
  BY <1>3, <1>4, <1>5, LoweredBounds, Zenon
<1>7. /\ q \in LinkStates /\ q.list = l /\ q.pc = "lower" /\ q.c = h
      /\ q.prev = w.prev /\ q.obs = w.obs /\ q.height = w.height
  BY <1>1, <1>4, Zenon DEF LinkStates
<1>8. writer' = [writer EXCEPT ![k] = q]
  BY <1>2, Zenon DEF SkipInv, SkipTypes
<1> HIDE DEF q
<1>9. writer'[k] = q /\ \A j \in SkipKeys \ {k} : writer'[j] = writer[j]
  BY <1>8, Zenon DEF SkipInv, SkipTypes
<1>10. On' = On
  <2>1. \A i \in Lists : In(q, i) <=> In(w, i)
    BY <1>7, Zenon DEF In
  <2> QED
    BY <1>8, <2>1, OnSame, Zenon DEF SkipInv
<1>11. hint' \in [Nodes -> [Lists -> 0 .. MaxNum]]
  BY <1>1, <1>2, <1>6, Zenon DEF SkipInv, SkipTypes
<1>12. ASSUME NEW n \in Nodes, NEW j \in Lists
       PROVE  /\ hint[n][j] \in 0 .. MaxNum /\ hint'[n][j] \in 0 .. MaxNum
              /\ hint'[n][j] <= hint[n][j]
              /\ n = m /\ j = l => hint'[n][j] = v
              /\ ~(n = m /\ j = l) => hint'[n][j] = hint[n][j]
  <2>1. hint[n][j] \in 0 .. MaxNum /\ hint'[n][j] \in 0 .. MaxNum
    BY <1>11, Zenon DEF SkipInv, SkipTypes
  <2>2. n = m /\ j = l => hint'[n][j] = v
    BY <1>1, <1>2, Zenon DEF SkipInv, SkipTypes
  <2>3. ~(n = m /\ j = l) => hint'[n][j] = hint[n][j]
    BY <1>1, <1>2, Zenon DEF SkipInv, SkipTypes
  <2> HIDE DEF v, h
  <2> QED
    BY <1>6, <2>1, <2>2, <2>3, SkipAssumption DEF h
<1>13. SkipTypes'
  BY <1>2, <1>7, <1>8, <1>11 DEF SkipInv, SkipTypes
<1>14. \A j \in Lists : \A n \in Nodes : hint'[n][j] >= Num(next'[n][j])
  BY <1>2, <1>6, <1>12, Zenon DEF SkipInv
<1>15. ASSUME NEW j \in Lists, NEW n \in Nodes PROVE CaughtUp(next', hint', writer', n, j)
  <2>1. CaughtUp(next, hint, writer, n, j) /\ next[n][j] \in Targets
    BY Zenon DEF SkipInv, SkipTypes
  <2> SUFFICES ASSUME next[n][j] # Nil
               PROVE  \/ hint'[n][j] <= Num(next[n][j])
                      \/ /\ writer'[next[n][j]].pc = "lower" /\ writer'[next[n][j]].list = j
                         /\ writer'[next[n][j]].prev[j] = n
    BY <1>2, Zenon DEF CaughtUp
  <2>2. next[n][j] \in SkipKeys
    BY <2>1, Zenon DEF Targets
  <2>3. CASE hint[n][j] <= Num(next[n][j])
    <3>1. Num(next[n][j]) \in 0 .. MaxNum
      BY <2>1, NumOrder, Zenon
    <3>2. hint'[n][j] \in Nat /\ hint[n][j] \in Nat /\ hint'[n][j] <= hint[n][j]
      BY <1>12, CmpNumber, Zenon
    <3>3. Num(next[n][j]) \in Nat
      BY <3>1, CmpNumber, Zenon
    <3>4. hint'[n][j] <= Num(next[n][j])
      BY <2>3, <3>2, <3>3
    <3> QED
      BY <3>4, Zenon
  <2>4. CASE /\ writer[next[n][j]].pc = "lower" /\ writer[next[n][j]].list = j
             /\ writer[next[n][j]].prev[j] = n
    BY <1>7, <1>9, <2>2, <2>4, Zenon
  <2> QED
    BY <2>1, <2>3, <2>4, Zenon DEF CaughtUp
<1>16. Sinks(On, next, hint, On', next', hint')
  BY <1>2, <1>10, <1>11, <1>12, SinksSame, Zenon DEF Sinks
<1>17. WriterOK(k, writer'[k], On', next', hint')
  <2>1. hint'[m][l] = v
    BY <1>1, <1>12, Zenon
  <2>2. q.c >= hint'[m][l]
    BY <1>6, <1>7, <2>1, Zenon
  <2>3. LinkOK(k, q, On, next, hint')
    BY <1>1, <1>3, <1>7, <2>2, Zenon DEF LinkOK
  <2> QED
    BY <1>2, <1>9, <1>10, <2>3, Zenon DEF WriterOK
<1>18. \A j \in Lists : ListOK(On', next', j)
  BY <1>2, <1>10, Zenon DEF SkipInv
<1> QED
  BY <1>2, <1>9, <1>13, <1>14, <1>15, <1>16, <1>17, <1>18, OneMoves, Zenon

(***************************************************************************)
(* A writer that is done with the hint goes on to the next list, or is done.*)
(***************************************************************************)
NextList(w) == [w EXCEPT !.list = w.list + 1, !.pc = "cas"]

LEMMA Climbs ==
  ASSUME NEW on, NEW nx, NEW hn, NEW k \in SkipKeys, NEW w, LinkOK(k, w, on, nx, hn),
         w.list + 1 < w.height, NEW q, q = NextList(w)
  PROVE  LinkOK(k, q, on, nx, hn) /\ q \in LinkStates /\ q.list = w.list + 1 /\ q.pc = "cas"
<1> DEFINE l == w.list
<1>1. /\ w \in LinkStates /\ l \in Lists /\ w.height \in 1 .. MaxHeight
      /\ w.prev \in [Lists -> Nodes] /\ w.obs \in [Lists -> Targets] /\ w.c \in 0 .. MaxNum
  BY Zenon DEF LinkOK, LinkStates
<1>2. /\ q.list = l + 1 /\ q.pc = "cas" /\ q.c = w.c /\ q.height = w.height
      /\ q.prev = w.prev /\ q.obs = w.obs
  BY <1>1, Zenon DEF LinkStates, NextList
<1>3. q = [pc |-> q.pc, height |-> q.height, list |-> q.list, c |-> q.c,
           prev |-> q.prev, obs |-> q.obs]
  BY <1>1, Zenon DEF LinkStates, NextList
<1>4. l + 1 \in Lists /\ l \in Nat
  BY <1>1, SkipAssumption DEF Lists
<1>5. q \in LinkStates
  BY <1>1, <1>2, <1>3, <1>4, Zenon DEF LinkStates
<1>6. ASSUME NEW i \in Lists, i > l + 1 \/ i = l + 1
      PROVE  q.obs[i] > k /\ q.obs[i] \in on[i] \cup {Nil}
  <2>1. i > l
    BY <1>4, <1>6, ListNumber
  <2> QED
    BY <1>2, <2>1, Zenon DEF LinkOK
<1>7. \A i \in Lists : q.prev[i] \in on[i] /\ q.prev[i] < k
  BY <1>2, Zenon DEF LinkOK
<1> QED
  BY <1>1, <1>2, <1>5, <1>6, <1>7, Zenon DEF LinkOK

LEMMA HintLowEnough ==
  ASSUME SkipInv, NEW k \in SkipKeys, writer[k].pc = "lower", ~(writer[k].c > Num(k)),
         NEW l, l = writer[k].list, NEW m, m = writer[k].prev[l]
  PROVE  hint[m][l] <= Num(k)
<1>1. LinkOK(k, writer[k], On, next, hint) /\ l \in Lists /\ m \in Nodes
  BY LinkFacts, Zenon
<1>2. PICK c, h : c = writer[k].c /\ h = hint[m][l]
  BY Zenon
<1>3. c >= h /\ c \in 0 .. MaxNum /\ h \in 0 .. MaxNum
  BY <1>1, <1>2 DEF LinkOK, LinkStates, SkipInv, SkipTypes
<1>4. Num(k) \in 0 .. MaxNum
  BY KeyNumber, NumOrder, Zenon
<1>5. c \in Nat /\ h \in Nat /\ Num(k) \in Nat
  BY <1>3, <1>4, CmpNumber, Zenon
<1>6. ~(c > Num(k))
  BY <1>2, Zenon
<1>7. h <= Num(k)
  BY <1>3, <1>5, <1>6
<1> QED
  BY <1>2, <1>7, Zenon

LEMMA LeavesHint ==
  ASSUME SkipInv, NEW k \in SkipKeys, writer[k].pc = "lower", ~(writer[k].c > Num(k)),
         UNCHANGED <<next, hint, search>>,
         NEW q \in LinkStates \cup DoneStates, writer' = [writer EXCEPT ![k] = q],
         \A i \in Lists : In(q, i) <=> In(writer[k], i),
         WriterOK(k, q, On, next, hint)
  PROVE  SkipInv'
<1> DEFINE w == writer[k]
           l == w.list
           m == w.prev[l]
<1>1. /\ LinkOK(k, w, On, next, hint) /\ w \in LinkStates /\ l \in Lists /\ m \in Nodes
  BY LinkFacts, Zenon
<1>2. w.c >= hint[m][l] /\ w.c \in 0 .. MaxNum /\ hint[m][l] \in 0 .. MaxNum
  BY <1>1 DEF LinkOK, LinkStates, SkipInv, SkipTypes
<1>3. hint[m][l] <= Num(k)
  BY HintLowEnough, Zenon
<1>4. On' = On
  BY OnSame, Zenon DEF SkipInv
<1>5. writer'[k] = q /\ \A j \in SkipKeys \ {k} : writer'[j] = writer[j]
  BY Zenon DEF SkipInv, SkipTypes
<1>6. SkipTypes'
  BY Zenon DEF SkipInv, SkipTypes
<1>7. ASSUME NEW j \in Lists, NEW n \in Nodes PROVE CaughtUp(next', hint', writer', n, j)
  <2>1. CaughtUp(next, hint, writer, n, j) /\ next[n][j] \in Targets
    BY Zenon DEF SkipInv, SkipTypes
  <2>2. CASE next[n][j] = k
    <3>1. hint[n][j] <= Num(k)
      BY <1>3, <2>1, <2>2, KeyNumber DEF CaughtUp
    <3> QED
      BY <2>2, <3>1, Zenon DEF CaughtUp
  <2>3. CASE next[n][j] # k
    BY <1>5, <2>1, <2>3, Zenon DEF CaughtUp, Targets
  <2> QED
    BY <2>2, <2>3, Zenon
<1>8. Sinks(On, next, hint, On', next', hint')
  BY <1>4, SinksSame, Zenon
<1>9. \A j \in Lists : ListOK(On', next', j)
  BY <1>4, Zenon DEF SkipInv
<1>10. \A j \in Lists : \A n \in Nodes : hint'[n][j] >= Num(next'[n][j])
  BY Zenon DEF SkipInv
<1>11. WriterOK(k, writer'[k], On', next', hint')
  BY <1>4, <1>5, Zenon
<1> QED
  BY <1>5, <1>6, <1>7, <1>8, <1>9, <1>10, <1>11, OneMoves, Zenon

LEMMA LowerMoves ==
  ASSUME SkipInv, NEW k \in SkipKeys, LowerHint(k)
  PROVE  SkipInv'
<1> DEFINE w == writer[k]
           l == w.list
<1>1. w.pc = "lower"
  BY Zenon DEF LowerHint
<1>2. /\ LinkOK(k, w, On, next, hint) /\ w \in LinkStates /\ l \in Lists
      /\ w.height \in 1 .. MaxHeight /\ l < w.height
  BY <1>1, LinkFacts, Zenon DEF LinkOK, LinkStates
<1>3. CASE w.c > Num(k)
  BY <1>1, <1>3, LowersOnce, Zenon
<1>4. CASE ~(w.c > Num(k))
  <2>1. UNCHANGED <<next, hint, search>>
    BY <1>4, Zenon DEF LowerHint
  <2>2. CASE l + 1 < w.height
    <3> DEFINE q == NextList(w)
    <3>1. writer' = [writer EXCEPT ![k] = q]
      BY <1>4, <2>2, Zenon DEF LowerHint, NextList
    <3>2. LinkOK(k, q, On, next, hint) /\ q \in LinkStates /\ q.list = l + 1 /\ q.pc = "cas"
      <4> HIDE DEF q
      <4>1. q = NextList(w)
        BY Zenon DEF q
      <4> HIDE DEF w, l
      <4>2. LinkOK(k, w, On, next, hint) /\ w.list + 1 < w.height
        BY <1>2, <2>2, Zenon DEF l
      <4>3. LinkOK(k, q, On, next, hint) /\ q \in LinkStates /\ q.list = w.list + 1 /\ q.pc = "cas"
        BY <4>1, <4>2, Climbs
      <4> QED
        BY <4>3, Zenon DEF l
    <3> HIDE DEF q
    <3>3. \A i \in Lists : In(q, i) <=> In(w, i)
      <4> SUFFICES ASSUME NEW i \in Lists PROVE In(q, i) <=> In(w, i)
        BY Zenon
      <4>1. i \in Nat /\ l \in Nat
        BY <1>2, ListNumber, Zenon
      <4>2. (i < l + 1) <=> (i <= l)
        BY <4>1
      <4> QED
        BY <1>1, <3>2, <4>2, Zenon DEF In
    <3>4. WriterOK(k, q, On, next, hint) /\ q \in LinkStates \cup DoneStates
      BY <3>2, Zenon DEF WriterOK
    <3> QED
      BY <1>1, <1>4, <2>1, <3>1, <3>3, <3>4, LeavesHint, Zenon
  <2>3. CASE ~(l + 1 < w.height)
    <3> DEFINE q == [pc |-> "done", height |-> w.height]
    <3>1. writer' = [writer EXCEPT ![k] = q]
      BY <1>4, <2>3, Zenon DEF LowerHint
    <3>2. q \in DoneStates /\ q.pc = "done" /\ q.height = w.height
      BY <1>2, Zenon DEF DoneStates
    <3> HIDE DEF q
    <3>3. \A i \in Lists : In(q, i) <=> In(w, i)
      BY <1>1, <1>2, <2>3, <3>2, ListNumber DEF In
    <3>4. WriterOK(k, q, On, next, hint) /\ q \in LinkStates \cup DoneStates
      BY <3>2, Zenon DEF WriterOK
    <3> QED
      BY <1>1, <1>4, <2>1, <3>1, <3>3, <3>4, LeavesHint, Zenon
  <2> QED
    BY <2>2, <2>3, Zenon
<1> QED
  BY <1>3, <1>4, Zenon

-----------------------------------------------------------------------------
(***************************************************************************)
(* A list keeps its order when a node outside it gets a new pointer, and    *)
(* when the node is linked between two neighbours.                          *)
(***************************************************************************)
LEMMA ListPrepared ==
  ASSUME NEW on, NEW op, NEW nx, NEW ny, NEW l \in Lists, ListOK(on, nx, l), op[l] = on[l],
         NEW k \in SkipKeys, k \notin on[l], NEW n, n > k, n \in on[l] \cup {Nil},
         ny[k][l] = n, \A x \in Nodes \ {k} : ny[x][l] = nx[x][l]
  PROVE  ListOK(op, ny, l)
<1>1. \A x \in on[l] : ny[x][l] = nx[x][l]
  BY Zenon DEF ListOK
<1>2. Path(ny, l) = on[l]
  BY <1>1, PathSame
<1>3. \A x \in Nodes : ny[x][l] > x /\ ny[x][l] \in on[l] \cup {Nil}
  BY Zenon DEF ListOK
<1>4. \A a, b \in on[l] : a < b => ny[a][l] <= b
  BY <1>1, Zenon DEF ListOK
<1> QED
  BY <1>2, <1>3, <1>4, Zenon DEF ListOK

LEMMA ListUntouched ==
  ASSUME NEW on, NEW op, NEW nx, NEW ny, NEW l \in Lists, ListOK(on, nx, l), op[l] = on[l],
         \A x \in Nodes : ny[x][l] = nx[x][l]
  PROVE  ListOK(op, ny, l)
<1>1. \A x \in on[l] : ny[x][l] = nx[x][l]
  BY Zenon DEF ListOK
<1>2. Path(ny, l) = on[l]
  BY <1>1, PathSame
<1> QED
  BY <1>1, <1>2, Zenon DEF ListOK

\* Node k is put between m and n.
Links(on, nx, op, ny, l, k, m, n) ==
  /\ l \in Lists /\ ListOK(on, nx, l) /\ k \in SkipKeys /\ k \notin on[l]
  /\ op[l] = on[l] \cup {k} /\ m \in on[l] /\ m < k /\ n \in Targets /\ n > k
  /\ nx[m][l] = n /\ ny[k][l] = n /\ ny[m][l] = k
  /\ \A x \in Nodes \ {k, m} : ny[x][l] = nx[x][l]

LEMMA ListLinked ==
  ASSUME NEW on, NEW op, NEW nx, NEW ny, NEW l, NEW k, NEW m, NEW n,
         Links(on, nx, op, ny, l, k, m, n)
  PROVE  ListOK(op, ny, l)
<1> USE DEF Links
<1>1. m \in Nodes /\ k \in Nodes /\ on[l] \subseteq Nodes
  BY KeyNumber, Zenon DEF ListOK
<1>2. m \in Nat /\ k \in Nat /\ n \in Nat
  BY <1>1, NodeNumber, TargetNumber, Zenon
<1>3. \A x \in on[l] \ {m} : ny[x][l] = nx[x][l]
  BY <1>1, Zenon
<1>4. Path(ny, l) = op[l]
  BY <1>1, <1>3, PathMore
<1>5. HeadNode \in op[l] /\ op[l] \subseteq Nodes
  BY <1>1, Zenon DEF ListOK
<1>6. ASSUME NEW x \in Nodes PROVE ny[x][l] > x /\ ny[x][l] \in op[l] \cup {Nil}
  BY Zenon DEF ListOK
<1>7. ASSUME NEW a \in op[l], NEW b \in op[l], a < b PROVE ny[a][l] <= b
  <2>1. a \in Nat /\ b \in Nat
    BY <1>1, NodeNumber, Zenon
  <2>2. \A c \in on[l] : m < c => n <= c
    BY Zenon DEF ListOK
  <2>3. CASE a = k
    <3>1. b \in on[l] /\ m < b
      BY <1>2, <1>7, <2>1, <2>3
    <3> QED
      BY <2>2, <2>3, <3>1, Zenon
  <2>4. CASE a = m
    <3>1. b = k \/ n <= b
      BY <1>7, <2>2, <2>4, Zenon
    <3> QED
      BY <1>2, <2>1, <2>4, <3>1
  <2>5. CASE a # k /\ a # m
    <3>1. a \in on[l] /\ ny[a][l] = nx[a][l]
      BY <1>3, <2>5, Zenon
    <3>2. CASE b \in on[l]
      BY <1>7, <3>1, <3>2, Zenon DEF ListOK
    <3>3. CASE b = k
      <4>1. a < m
        BY <1>2, <1>7, <2>1, <2>2, <2>5, <3>1, <3>3
      <4>2. nx[a][l] <= m
        BY <3>1, <4>1, Zenon DEF ListOK
      <4>3. nx[a][l] \in Nat
        BY <1>1, <3>1, NodeNumber, Zenon DEF ListOK
      <4> QED
        BY <1>2, <3>1, <3>3, <4>2, <4>3
    <3> QED
      BY <3>2, <3>3, Zenon
  <2> QED
    BY <2>3, <2>4, <2>5, Zenon
<1> QED
  BY <1>4, <1>5, <1>6, <1>7, Zenon DEF ListOK

(***************************************************************************)
(* Where a writer is that tries to link its node.                           *)
(***************************************************************************)
CasState(k, l, m, n) ==
  /\ LinkOK(k, writer[k], On, next, hint) /\ writer[k] \in LinkStates /\ l \in Lists
  /\ m \in On[l] /\ m \in Nodes /\ m < k /\ m # k /\ k \in Nodes
  /\ k \notin On[l] /\ n \in Targets /\ n > k /\ k <= n /\ n \in On[l] \cup {Nil}
  /\ Num(n) \in 0 .. MaxNum /\ Num(k) \in 0 .. MaxNum /\ Num(k) <= Num(n)

LEMMA CasFacts ==
  ASSUME SkipInv, NEW k \in SkipKeys, writer[k].pc = "cas",
         NEW l, l = writer[k].list, NEW m, m = writer[k].prev[l], NEW n, n = writer[k].obs[l]
  PROVE  CasState(k, l, m, n)
<1>1. /\ LinkOK(k, writer[k], On, next, hint) /\ writer[k] \in LinkStates /\ l \in Lists
      /\ m \in On[l] /\ m \in Nodes /\ m < k /\ k \notin On[l]
  BY LinkFacts, Zenon
<1>2. n \in Targets /\ n > k /\ n \in On[l] \cup {Nil}
  BY <1>1, Zenon DEF LinkOK, LinkStates
<1>3. m # k /\ k \in Nodes /\ k \in Targets /\ k <= n
  BY <1>1, <1>2, KeyNumber, TargetNumber
<1>4. Num(n) \in 0 .. MaxNum /\ Num(k) \in 0 .. MaxNum /\ Num(k) <= Num(n)
  BY <1>2, <1>3, NumOrder, Zenon
<1> QED
  BY <1>1, <1>2, <1>3, <1>4, Zenon DEF CasState

(***************************************************************************)
(* The compare-and-swap fails: only the new node has changed.               *)
(***************************************************************************)
LEMMA CasFails ==
  ASSUME SkipInv, NEW k \in SkipKeys, writer[k].pc = "cas",
         NEW l, l = writer[k].list, NEW n, n = writer[k].obs[l],
         hint' = [hint EXCEPT ![k][l] = Num(n)], next' = [next EXCEPT ![k][l] = n],
         writer' = [writer EXCEPT ![k].pc = "rehint"], UNCHANGED search
  PROVE  SkipInv'
<1> DEFINE w == writer[k]
           m == w.prev[l]
           q == [w EXCEPT !.pc = "rehint"]
<1>1. /\ LinkOK(k, w, On, next, hint) /\ w \in LinkStates /\ l \in Lists
      /\ k \in Nodes /\ k \notin On[l] /\ n \in Targets /\ n > k /\ n \in On[l] \cup {Nil}
      /\ Num(n) \in 0 .. MaxNum
  <2>1. CasState(k, l, m, n)
    BY CasFacts, Zenon
  <2> QED
    BY <2>1, Zenon DEF CasState
<1>2. /\ q \in LinkStates /\ q.list = l /\ q.pc = "rehint" /\ q.c = w.c
      /\ q.prev = w.prev /\ q.obs = w.obs /\ q.height = w.height
  BY <1>1, Zenon DEF LinkStates
<1>3. writer' = [writer EXCEPT ![k] = q]
  BY Zenon DEF SkipInv, SkipTypes
<1> HIDE DEF q
<1>4. writer'[k] = q /\ \A j \in SkipKeys \ {k} : writer'[j] = writer[j]
  BY <1>3, Zenon DEF SkipInv, SkipTypes
<1>5. On' = On
  <2>1. \A i \in Lists : In(q, i) <=> In(w, i)
    BY <1>2, Zenon DEF In
  <2> QED
    BY <1>3, <2>1, OnSame, Zenon DEF SkipInv
<1>6. next' \in [Nodes -> [Lists -> Targets]] /\ hint' \in [Nodes -> [Lists -> 0 .. MaxNum]]
  BY <1>1, Zenon DEF SkipInv, SkipTypes
<1>7. SkipTypes'
  BY <1>2, <1>3, <1>6 DEF SkipInv, SkipTypes
<1>8. next'[k][l] = n /\ hint'[k][l] = Num(n)
  BY <1>1, Zenon DEF SkipInv, SkipTypes
<1>9. \A x \in Nodes, j \in Lists :
        ~(x = k /\ j = l) => next'[x][j] = next[x][j] /\ hint'[x][j] = hint[x][j]
  BY <1>1 DEF SkipInv, SkipTypes
<1>10. ASSUME NEW j \in Lists PROVE ListOK(On', next', j)
  <2>1. ListOK(On, next, j)
    BY Zenon DEF SkipInv
  <2>4. PICK ny : ny = next'
    BY Zenon
  <2>2. CASE j = l
    <3>1. ny[k][l] = n /\ \A x \in Nodes \ {k} : ny[x][l] = next[x][l]
      BY <1>1, <1>8, <1>9, <2>4
    <3>2. ListOK(On, ny, l)
      BY <1>1, <2>1, <2>2, <3>1, ListPrepared
    <3> QED
      BY <1>5, <2>2, <2>4, <3>2, Zenon
  <2>3. CASE j # l
    <3>1. \A x \in Nodes : ny[x][j] = next[x][j]
      BY <1>9, <2>3, <2>4, Zenon
    <3>2. ListOK(On, ny, j)
      BY <2>1, <3>1, ListUntouched, Zenon
    <3> QED
      BY <1>5, <2>4, <3>2, Zenon
  <2> QED
    BY <2>2, <2>3, Zenon
<1>11. ASSUME NEW j \in Lists, NEW x \in Nodes PROVE hint'[x][j] >= Num(next'[x][j])
  <2>1. CASE x = k /\ j = l
    BY <1>1, <1>8, <2>1, SkipAssumption
  <2>2. CASE ~(x = k /\ j = l)
    BY <1>9, <2>2 DEF SkipInv
  <2> QED
    BY <2>1, <2>2, Zenon
<1>12. ASSUME NEW j \in Lists, NEW x \in Nodes PROVE CaughtUp(next', hint', writer', x, j)
  <2>1. CASE x = k /\ j = l
    <3>1. hint'[x][j] = Num(next'[x][j]) /\ Num(next'[x][j]) \in Nat
      BY <1>1, <1>8, <2>1, CmpNumber, Zenon
    <3>2. hint'[x][j] <= Num(next'[x][j])
      BY <3>1
    <3> QED
      BY <3>2, Zenon DEF CaughtUp
  <2>2. CASE ~(x = k /\ j = l)
    <3>1. CaughtUp(next, hint, writer, x, j) /\ next[x][j] \in Targets
      BY Zenon DEF SkipInv, SkipTypes
    <3>2. next'[x][j] = next[x][j] /\ hint'[x][j] = hint[x][j]
      BY <1>9, <2>2, Zenon
    <3> QED
      BY <1>4, <3>1, <3>2, Zenon DEF CaughtUp, Targets
  <2> QED
    BY <2>1, <2>2, Zenon
<1>13. Sinks(On, next, hint, On', next', hint')
  <2>1. Sinks(On, next, hint, On, next, hint)
    BY SinksSame, Zenon
  <2>2. ASSUME NEW j \in Lists, NEW x \in On[j]
        PROVE  next'[x][j] = next[x][j] /\ hint'[x][j] = hint[x][j]
    BY <1>1, <1>9, <2>1 DEF Sinks
  <2> QED
    BY <1>5, <1>6, <2>1, <2>2, Zenon DEF Sinks
<1>14. WriterOK(k, writer'[k], On', next', hint')
  <2>1. LinkOK(k, q, On, next', hint')
    BY <1>1, <1>2, Zenon DEF LinkOK
  <2> QED
    BY <1>4, <1>5, <2>1, Zenon DEF WriterOK
<1> QED
  BY <1>4, <1>7, <1>10, <1>11, <1>12, <1>13, <1>14, OneMoves, Zenon

(***************************************************************************)
(* The compare-and-swap succeeds: the new node is in the list.              *)
(***************************************************************************)
LEMMA CasLinks ==
  ASSUME SkipInv, NEW k \in SkipKeys, writer[k].pc = "cas",
         NEW l, l = writer[k].list, NEW n, n = writer[k].obs[l],
         NEW m, m = writer[k].prev[l], next[m][l] = n, Num(n) >= Num(k), CasNext(k)
  PROVE  SkipInv'
<1> DEFINE w == writer[k]
           q == [w EXCEPT !.pc = "lower", !.c = MaxNum]
<1>1. /\ LinkOK(k, w, On, next, hint) /\ w \in LinkStates /\ l \in Lists
      /\ m \in On[l] /\ m \in Nodes /\ m < k /\ m # k /\ k \in Nodes
      /\ k \notin On[l] /\ n \in Targets /\ n > k /\ k <= n /\ n \in On[l] \cup {Nil}
      /\ Num(n) \in 0 .. MaxNum /\ Num(k) \in 0 .. MaxNum /\ Num(k) <= Num(n)
  <2>1. CasState(k, l, m, n)
    BY CasFacts, Zenon
  <2> QED
    BY <2>1, Zenon DEF CasState
<1>2. /\ q \in LinkStates /\ q.list = l /\ q.pc = "lower" /\ q.c = MaxNum
      /\ q.prev = w.prev /\ q.obs = w.obs /\ q.height = w.height
  <2>1. MaxNum \in 0 .. MaxNum
    BY SkipAssumption
  <2> QED
    BY <1>1, <2>1, Zenon DEF LinkStates
<1>0. /\ hint' = [hint EXCEPT ![k][l] = Num(n)]
      /\ next' = [next EXCEPT ![k][l] = n, ![m][l] = k]
      /\ writer' = [writer EXCEPT ![k].pc = "lower", ![k].c = MaxNum]
      /\ UNCHANGED search
  BY Zenon DEF CasNext
<1>3. writer' = [writer EXCEPT ![k] = q]
  BY <1>0, Zenon DEF SkipInv, SkipTypes
<1> HIDE DEF q
<1>4. writer'[k] = q /\ \A j \in SkipKeys \ {k} : writer'[j] = writer[j]
  BY <1>3, Zenon DEF SkipInv, SkipTypes
<1>5. On'[l] = On[l] \cup {k} /\ \A j \in Lists \ {l} : On'[j] = On[j]
  <2>1. ASSUME NEW i \in Lists PROVE In(q, i) <=> In(w, i) \/ i = l
    <3>1. i \in Nat /\ l \in Nat
      BY <1>1, ListNumber, Zenon
    <3>2. (i <= l) <=> (i < l \/ i = l)
      BY <3>1
    <3> QED
      BY <1>2, <3>2, Zenon DEF In
  <2>2. \A i \in Lists, x \in SkipKeys :
          In(writer'[x], i) <=> In(writer[x], i) \/ (x = k /\ i = l)
    BY <1>4, <2>1, Zenon
  <2>3. \A i \in Lists : /\ On'[i] = {HeadNode} \cup {x \in SkipKeys : In(writer'[x], i)}
                         /\ On[i] = {HeadNode} \cup {x \in SkipKeys : In(writer[x], i)}
    BY Zenon DEF On
  <2>4. On'[l] = On[l] \cup {k}
    <3>1. \A x \in SkipKeys : In(writer'[x], l) <=> In(writer[x], l) \/ x = k
      BY <1>1, <2>2, Zenon
    <3>2. {x \in SkipKeys : In(writer'[x], l)} = {x \in SkipKeys : In(writer[x], l)} \cup {k}
      BY <3>1, Zenon
    <3> QED
      BY <1>1, <2>3, <3>2, Zenon
  <2>5. ASSUME NEW j \in Lists \ {l} PROVE On'[j] = On[j]
    <3>1. {x \in SkipKeys : In(writer'[x], j)} = {x \in SkipKeys : In(writer[x], j)}
      BY <2>2, Zenon
    <3> QED
      BY <2>3, <3>1, Zenon
  <2> QED
    BY <2>4, <2>5, Zenon
<1>6. next' \in [Nodes -> [Lists -> Targets]] /\ hint' \in [Nodes -> [Lists -> 0 .. MaxNum]]
  BY <1>0, <1>1, KeyNumber, Zenon DEF SkipInv, SkipTypes
<1>7. SkipTypes'
  <2>1. writer' \in [SkipKeys -> Idles \cup FindStates \cup LinkStates \cup DoneStates]
    BY <1>2, <1>3, Zenon DEF SkipInv, SkipTypes
  <2>2. search' \in [Readers -> Idles \cup SeekStates \cup LessStates]
    BY <1>0, Zenon DEF SkipInv, SkipTypes
  <2> QED
    BY <1>6, <2>1, <2>2, Zenon DEF SkipTypes
<1>8. next'[k][l] = n /\ next'[m][l] = k /\ hint'[k][l] = Num(n)
  BY <1>0, <1>1, Zenon DEF SkipInv, SkipTypes
<1>9. \A x \in Nodes, j \in Lists : ~(x = k /\ j = l) => hint'[x][j] = hint[x][j]
  BY <1>0, <1>1, Zenon DEF SkipInv, SkipTypes
<1>10. \A x \in Nodes, j \in Lists : ~(x \in {k, m} /\ j = l) => next'[x][j] = next[x][j]
  BY <1>0, <1>1 DEF SkipInv, SkipTypes
<1>11. ASSUME NEW j \in Lists PROVE ListOK(On', next', j)
  <2>1. ListOK(On, next, j)
    BY Zenon DEF SkipInv
  <2>2. PICK ny, op : ny = next' /\ op = On'
    BY Zenon
  <2>3. CASE j = l
    <3>1. /\ ny[k][l] = n /\ ny[m][l] = k /\ op[l] = On[l] \cup {k}
          /\ \A x \in Nodes \ {k, m} : ny[x][l] = next[x][l]
      BY <1>1, <1>5, <1>8, <1>10, <2>2
    <3>2. PICK nx, on : nx = next /\ on = On
      BY Zenon
    <3>3. Links(on, nx, op, ny, l, k, m, n)
      BY <1>1, <2>1, <2>3, <3>1, <3>2, Zenon DEF Links
    <3>4. ListOK(op, ny, l)
      BY <3>3, ListLinked, Zenon
    <3> QED
      BY <2>2, <2>3, <3>4, Zenon
  <2>4. CASE j # l
    <3>1. op[j] = On[j] /\ \A x \in Nodes : ny[x][j] = next[x][j]
      BY <1>5, <1>10, <2>2, <2>4, Zenon
    <3>2. ListOK(op, ny, j)
      BY <2>1, <3>1, ListUntouched, Zenon
    <3> QED
      BY <2>2, <3>2, Zenon
  <2> QED
    BY <2>3, <2>4, Zenon
<1>12. hint'[m][l] = hint[m][l] /\ hint[m][l] \in 0 .. MaxNum /\ hint[m][l] >= Num(k)
  <2>1. hint'[m][l] = hint[m][l]
    BY <1>1, <1>9, Zenon
  <2>2. hint[m][l] \in 0 .. MaxNum /\ hint[m][l] >= Num(n)
    BY <1>1 DEF SkipInv, SkipTypes
  <2>3. hint[m][l] >= Num(k)
    BY <1>1, <2>2, NumTransitive, Zenon
  <2> QED
    BY <2>1, <2>2, <2>3, Zenon
<1>13. ASSUME NEW j \in Lists, NEW x \in Nodes PROVE hint'[x][j] >= Num(next'[x][j])
  <2>1. CASE x = k /\ j = l
    <3>1. Num(n) >= Num(n)
      BY <1>1, NumTransitive, Zenon
    <3> QED
      BY <1>8, <2>1, <3>1, Zenon
  <2>2. CASE x = m /\ j = l
    BY <1>8, <1>12, <2>2, Zenon
  <2>3. CASE ~(x \in {k, m} /\ j = l)
    <3>1. hint'[x][j] = hint[x][j] /\ next'[x][j] = next[x][j]
      BY <1>9, <1>10, <2>3, Zenon
    <3> QED
      BY <3>1, Zenon DEF SkipInv
  <2> QED
    BY <2>1, <2>2, <2>3, Zenon
<1>14. ASSUME NEW j \in Lists, NEW x \in Nodes PROVE CaughtUp(next', hint', writer', x, j)
  <2>1. CASE x = k /\ j = l
    <3>1. Num(n) <= Num(n)
      BY <1>1, NumTransitive, Zenon
    <3> QED
      BY <1>8, <2>1, <3>1, Zenon DEF CaughtUp
  <2>2. CASE x = m /\ j = l
    BY <1>2, <1>4, <1>8, <2>2, Zenon DEF CaughtUp
  <2>3. CASE ~(x \in {k, m} /\ j = l)
    <3>1. CaughtUp(next, hint, writer, x, j) /\ next[x][j] \in Targets
      BY Zenon DEF SkipInv, SkipTypes
    <3>2. hint'[x][j] = hint[x][j] /\ next'[x][j] = next[x][j]
      BY <1>9, <1>10, <2>3, Zenon
    <3>3. CASE next[x][j] = k
      <4>1. hint[x][j] <= Num(k)
        BY <3>1, <3>3, KeyNumber DEF CaughtUp
      <4> QED
        BY <3>2, <3>3, <4>1, Zenon DEF CaughtUp
    <3>4. CASE next[x][j] # k
      BY <1>4, <3>1, <3>2, <3>4, Zenon DEF CaughtUp, Targets
    <3> QED
      BY <3>3, <3>4, Zenon
  <2> QED
    BY <2>1, <2>2, <2>3, Zenon
<1>15. Sinks(On, next, hint, On', next', hint')
  <2>1. Sinks(On, next, hint, On, next, hint)
    BY SinksSame, Zenon
  <2>2. \A j \in Lists : On[j] \subseteq Nodes /\ On[j] \subseteq On'[j]
    BY <1>5, <2>1, Zenon DEF Sinks
  <2>3. ASSUME NEW j \in Lists, NEW x \in On[j]
        PROVE  next'[x][j] <= next[x][j] /\ hint'[x][j] <= hint[x][j]
    <3>1. x \in Nodes /\ next[x][j] <= next[x][j] /\ hint[x][j] <= hint[x][j]
      BY <2>1, Zenon DEF Sinks
    <3>2. CASE x = m /\ j = l
      BY <1>1, <1>8, <1>12, <3>1, <3>2, Zenon
    <3>3. CASE ~(x = m /\ j = l)
      <4>1. ~(x = k /\ j = l)
        BY <1>1, Zenon
      <4>2. next'[x][j] = next[x][j] /\ hint'[x][j] = hint[x][j]
        BY <1>9, <1>10, <3>1, <3>3, <4>1, Zenon
      <4> QED
        BY <3>1, <4>2, Zenon
    <3> QED
      BY <3>2, <3>3, Zenon
  <2> QED
    BY <1>6, <2>1, <2>2, <2>3, Zenon DEF Sinks
<1>16. WriterOK(k, writer'[k], On', next', hint')
  <2>1. LinkOK(k, w, On', next', hint')
    <3>1. PICK op, ny, hm : op = On' /\ ny = next' /\ hm = hint'
      BY Zenon
    <3>2. LinkOK(k, w, op, ny, hm)
      BY <1>1, <1>15, <3>1, LinkKept, Zenon
    <3> QED
      BY <3>1, <3>2, Zenon
  <2>2. next'[m][l] <= k /\ MaxNum >= hint'[m][l]
    <3>1. k <= k
      BY KeyNumber
    <3>2. MaxNum >= hint[m][l]
      BY <1>12, NumTransitive, Zenon
    <3> QED
      BY <1>8, <1>12, <3>1, <3>2, Zenon
  <2>3. LinkOK(k, q, On', next', hint')
    BY <1>2, <2>1, <2>2, Zenon DEF LinkOK
  <2> QED
    BY <1>4, <2>3, Zenon DEF WriterOK
<1> QED
  BY <1>0, <1>4, <1>7, <1>11, <1>13, <1>14, <1>15, <1>16, OneMoves, Zenon

LEMMA CasMoves ==
  ASSUME SkipInv, NEW k \in SkipKeys, CasNext(k)
  PROVE  SkipInv'
<1>1. PICK l, m, n : l = writer[k].list /\ m = writer[k].prev[l] /\ n = writer[k].obs[l]
  BY Zenon
<1>2. writer[k].pc = "cas" /\ hint' = [hint EXCEPT ![k][l] = Num(n)] /\ UNCHANGED search
  BY <1>1, Zenon DEF CasNext
<1>3. CASE Num(n) >= Num(k) /\ next[m][l] = n
  BY <1>1, <1>2, <1>3, CasLinks, Zenon
<1>4. CASE ~(Num(n) >= Num(k) /\ next[m][l] = n)
  <2>1. /\ next' = [next EXCEPT ![k][l] = n]
        /\ writer' = [writer EXCEPT ![k].pc = "rehint"]
    BY <1>1, <1>4, Zenon DEF CasNext
  <2> QED
    BY <1>1, <1>2, <2>1, CasFails, Zenon
<1> QED
  BY <1>3, <1>4, Zenon

-----------------------------------------------------------------------------
(***************************************************************************)
(* A reader moves alone.                                                    *)
(***************************************************************************)
LEMMA ReaderMoves ==
  ASSUME SkipInv, UNCHANGED <<next, hint, writer>>, NEW r \in Readers,
         NEW s \in SeekStates \cup LessStates, search' = [search EXCEPT ![r] = s],
         ReaderOK(s, On, next)
  PROVE  SkipInv'
<1>1. On' = On
  BY Zenon DEF On
<1>2. SkipTypes'
  BY Zenon DEF SkipInv, SkipTypes
<1>3. \A i \in Readers : ReaderOK(search'[i], On, next)
  BY Zenon DEF SkipInv, SkipTypes
<1>4. \A l \in Lists : \A n \in Nodes : CaughtUp(next', hint', writer', n, l)
  BY Zenon DEF SkipInv
<1> QED
  BY <1>1, <1>2, <1>3, <1>4, Zenon DEF SkipInv

(***************************************************************************)
(* An insert that has returned is in the bottom list.                       *)
(***************************************************************************)
LEMMA InsertedOn ==
  ASSUME SkipInv, NEW l \in Lists, NEW k \in Inserted, l < writer[k].height
  PROVE  k \in On[l]
BY Zenon DEF Inserted, On, In

LEMMA InsertedAtBottom == SkipInv => Inserted \subseteq On[0] /\ Inserted \in SUBSET SkipKeys
<1> SUFFICES ASSUME SkipInv, NEW k \in Inserted PROVE k \in On[0] /\ k \in SkipKeys
  BY Zenon
<1>1. k \in SkipKeys /\ writer[k] \in DoneStates
  <2>1. /\ k \in SkipKeys /\ writer[k].pc = "done"
        /\ writer[k] \in Idles \cup FindStates \cup LinkStates \cup DoneStates
    BY Zenon DEF Inserted, SkipInv, SkipTypes
  <2>2. writer[k] \notin Idles
    BY <2>1 DEF Idles
  <2>3. writer[k] \notin FindStates
    BY <2>1, Zenon DEF FindStates
  <2>4. writer[k] \notin LinkStates
    BY <2>1, Zenon DEF LinkStates
  <2> QED
    BY <2>1, <2>2, <2>3, <2>4, Zenon
<1>2. 0 < writer[k].height /\ 0 \in Lists
  BY <1>1, SkipAssumption DEF DoneStates, Lists
<1> QED
  BY <1>1, <1>2, InsertedOn, Zenon

(***************************************************************************)
(* What the state of a reader is, by its point.                             *)
(***************************************************************************)
LEMMA ReaderAt ==
  ASSUME SkipInv, NEW r \in Readers
  PROVE  /\ search[r].pc = "seek" => SeekOK(search[r], On, next)
         /\ search[r].pc \in {"less", "lessdone"} => LessOK(search[r], On)
<1>1. ReaderOK(search[r], On, next)
  BY Zenon DEF SkipInv
<1>2. search[r] \in Idles => search[r].pc \in {"idle", "out"}
  BY DEF Idles
<1>3. SeekOK(search[r], On, next) => search[r].pc = "seek"
  BY Zenon DEF SeekOK, SeekStates
<1>4. LessOK(search[r], On) => search[r].pc \in {"less", "lessdone"}
  BY Zenon DEF LessOK, LessStates
<1> QED
  BY <1>1, <1>2, <1>3, <1>4, Zenon DEF ReaderOK

LEMMA SeekMoves ==
  ASSUME SkipInv, NEW r \in Readers, SeekCall(r) \/ SeekStep(r)
  PROVE  SkipInv'
<1>1. CASE SeekCall(r)
  <2>1. PICK k \in SkipKeys :
          search' = [search EXCEPT ![r] = [find |-> FindFrom(k), pc |-> "seek", before |-> Inserted]]
    BY <1>1, Zenon DEF SeekCall
  <2>2. PICK f : f = FindFrom(k)
    BY Zenon
  <2>3. FindOK(f, On, next) /\ f \in FindStates /\ f.pc = "skip"
    BY <2>2, FindBegins, Zenon DEF FindOK, FindFrom
  <2>4. PICK s : s = [find |-> f, pc |-> "seek", before |-> Inserted]
    BY Zenon
  <2>5. s \in SeekStates /\ s.find = f /\ s.before = Inserted
    BY <2>3, <2>4, InsertedAtBottom, Zenon DEF SeekStates
  <2>6. ReaderOK(s, On, next)
    BY <2>3, <2>5, InsertedAtBottom, Zenon DEF ReaderOK, SeekOK
  <2>7. search' = [search EXCEPT ![r] = s] /\ UNCHANGED <<next, hint, writer>>
    BY <1>1, <2>1, <2>2, <2>4, Zenon DEF SeekCall
  <2> QED
    BY <2>5, <2>6, <2>7, ReaderMoves, Zenon
<1>2. CASE SeekStep(r)
  <2>1. PICK p, f : p = search[r].find /\ f = FindStep(p)
    BY Zenon
  <2>2. /\ search[r].pc = "seek" /\ Finding(p) /\ UNCHANGED <<next, hint, writer>>
        /\ search' = [search EXCEPT ![r].find = f]
    BY <1>2, <2>1, Zenon DEF SeekStep
  <2>3. SeekOK(search[r], On, next) /\ search[r] \in SeekStates /\ FindOK(p, On, next)
    BY <2>1, <2>2, ReaderAt, Zenon DEF SeekOK
  <2>4. /\ FindOK(f, On, next) /\ f.key = p.key
        /\ f.pc = "found" => \A b \in On[0] : b >= p.key => f.obs[0] <= b
    BY <2>1, <2>2, <2>3, FindSteps, Zenon
  <2>5. PICK s : s = [search[r] EXCEPT !.find = f]
    BY Zenon
  <2>6. f \in FindStates
    BY <2>4, Zenon DEF FindOK
  <2>7. s \in SeekStates /\ s.find = f /\ s.before = search[r].before
    BY <2>3, <2>5, <2>6, Zenon DEF SeekStates
  <2>8. SeekOK(s, On, next)
    BY <2>3, <2>4, <2>7, Zenon DEF SeekOK
  <2>9. search' = [search EXCEPT ![r] = s]
    BY <2>2, <2>5, Zenon DEF SkipInv, SkipTypes
  <2> QED
    BY <2>2, <2>7, <2>8, <2>9, ReaderMoves, Zenon DEF ReaderOK
<1> QED
  BY <1>1, <1>2, Zenon

LEMMA LessMoves ==
  ASSUME SkipInv, NEW r \in Readers, PrevCall(r) \/ FindLessThan(r)
  PROVE  SkipInv'
<1>1. CASE PrevCall(r)
  <2>1. PICK k \in SkipKeys \cup {Nil} :
          search' = [search EXCEPT ![r] =
            [pc |-> "less", key |-> k, at |-> HeadNode, list |-> MaxHeight - 1, before |-> Inserted]]
    BY <1>1, Zenon DEF PrevCall
  <2>2. PICK s : s = [pc |-> "less", key |-> k, at |-> HeadNode, list |-> MaxHeight - 1,
                      before |-> Inserted]
    BY Zenon
  <2>3. MaxHeight - 1 \in Lists /\ HeadNode \in Nodes /\ HeadNode < k /\ k \in Targets
    BY SkipAssumption DEF Lists, Nodes, HeadNode, Targets
  <2>4. /\ s \in LessStates /\ s.at = HeadNode /\ s.key = k /\ s.list \in Lists
        /\ s.before = Inserted /\ s.pc = "less"
    BY <2>2, <2>3, InsertedAtBottom, Zenon DEF LessStates
  <2>5. HeadNode \in On[s.list]
    BY <2>4, Zenon DEF SkipInv, ListOK
  <2>6. LessOK(s, On)
    BY <2>3, <2>4, <2>5, InsertedAtBottom, Zenon DEF LessOK
  <2>7. search' = [search EXCEPT ![r] = s] /\ UNCHANGED <<next, hint, writer>>
    BY <1>1, <2>1, <2>2, Zenon DEF PrevCall
  <2> QED
    BY <2>4, <2>6, <2>7, ReaderMoves, Zenon DEF ReaderOK
<1>2. CASE FindLessThan(r)
  <2>1. PICK s, l, n : s = search[r] /\ l = s.list /\ n = next[s.at][l]
    BY Zenon
  <2>2. /\ s.pc = "less" /\ UNCHANGED <<next, hint, writer>>
        /\ search' = [search EXCEPT ![r] =
             IF n < s.key THEN [s EXCEPT !.at = n]
             ELSE IF l > 0 THEN [s EXCEPT !.list = l - 1]
             ELSE [s EXCEPT !.pc = "lessdone"]]
    BY <1>2, <2>1, Zenon DEF FindLessThan
  <2>3. /\ LessOK(s, On) /\ s \in LessStates /\ l \in Lists /\ s.at \in On[l] /\ s.at \in Nodes
        /\ s.key \in Targets /\ s.before \in SUBSET SkipKeys /\ s.at < s.key
    BY <2>1, <2>2, ReaderAt, Zenon DEF LessOK, LessStates
  <2>4. n \in Targets /\ n \in On[l] \cup {Nil} /\ \A b \in On[l] : s.at < b => n <= b
    <3>1. ListOK(On, next, l) /\ next \in [Nodes -> [Lists -> Targets]]
      BY <2>3, Zenon DEF SkipInv, SkipTypes
    <3>2. n \in Targets
      BY <2>1, <2>3, <3>1, Zenon
    <3> QED
      BY <2>1, <2>3, <3>1, <3>2, Zenon DEF ListOK
  <2>5. ASSUME NEW q, q \in LessStates, LessOK(q, On), search' = [search EXCEPT ![r] = q]
        PROVE  SkipInv'
    BY <2>2, <2>5, ReaderMoves, Zenon DEF ReaderOK
  <2>6. CASE n < s.key
    <3>1. n \in Nodes /\ n \in On[l]
      BY <2>3, <2>4, <2>6, TargetNumber
    <3>2. PICK q : q = [s EXCEPT !.at = n]
      BY Zenon
    <3>3. /\ q \in LessStates /\ q.at = n /\ q.list = l /\ q.key = s.key /\ q.pc = "less"
          /\ q.before = s.before
      BY <2>1, <2>2, <2>3, <3>1, <3>2, Zenon DEF LessStates
    <3>4. LessOK(q, On)
      BY <2>3, <2>6, <3>1, <3>3, Zenon DEF LessOK
    <3> QED
      BY <2>2, <2>5, <2>6, <3>2, <3>3, <3>4, Zenon
  <2>7. CASE ~(n < s.key) /\ l > 0
    <3>1. l - 1 \in Lists /\ l - 1 <= l
      BY <2>3, <2>7, ListNumber
    <3>2. s.at \in On[l - 1]
      BY <2>3, <3>1, OnBelow, Zenon DEF SkipInv
    <3>3. PICK q : q = [s EXCEPT !.list = l - 1]
      BY Zenon
    <3>4. /\ q \in LessStates /\ q.at = s.at /\ q.list = l - 1 /\ q.key = s.key /\ q.pc = "less"
          /\ q.before = s.before
      BY <2>1, <2>2, <2>3, <3>1, <3>3, Zenon DEF LessStates
    <3>5. LessOK(q, On)
      BY <2>3, <3>2, <3>4, Zenon DEF LessOK
    <3> QED
      BY <2>2, <2>5, <2>7, <3>3, <3>4, <3>5, Zenon
  <2>8. CASE ~(n < s.key) /\ ~(l > 0)
    <3>1. l = 0
      BY <2>3, <2>8, ListNumber
    <3>2. PICK q : q = [s EXCEPT !.pc = "lessdone"]
      BY Zenon
    <3>3. /\ q \in LessStates /\ q.at = s.at /\ q.list = 0 /\ q.key = s.key /\ q.pc = "lessdone"
          /\ q.before = s.before
      BY <2>1, <2>2, <2>3, <3>1, <3>2, Zenon DEF LessStates
    <3>4. s.before \subseteq On[0]
      BY <2>3, Zenon DEF LessOK
    <3>5. ASSUME NEW b \in s.before, s.at < b PROVE s.key <= b
      <4>1. n <= b /\ b \in SkipKeys
        BY <2>3, <2>4, <3>1, <3>4, <3>5, Zenon
      <4>2. n \in Nat /\ b \in Nat /\ s.key \in Nat
        BY <2>3, <2>4, <4>1, TargetNumber, KeyNumber, Zenon
      <4> QED
        BY <2>8, <4>1, <4>2
    <3>6. LessOK(q, On)
      BY <2>3, <3>1, <3>3, <3>4, <3>5, Zenon DEF LessOK
    <3> QED
      BY <2>2, <2>5, <2>8, <3>2, <3>3, <3>6, Zenon
  <2> QED
    BY <2>6, <2>7, <2>8, Zenon
<1> QED
  BY <1>1, <1>2, Zenon

-----------------------------------------------------------------------------
(***************************************************************************)
(* At the start every list is empty.                                        *)
(***************************************************************************)
LEMMA SkipStarts == SkipInit => SkipInv
<1> SUFFICES ASSUME SkipInit PROVE SkipInv
  BY Zenon
<1>1. PICK cast \in Casts :
        /\ writer = [k \in SkipKeys |-> [pc |-> IF k \in cast THEN "idle" ELSE "out"]]
        /\ search = [r \in Readers |-> [pc |-> IF r \in cast THEN "idle" ELSE "out"]]
  BY Zenon DEF SkipInit
<1>2. /\ next = [n \in Nodes |-> [l \in Lists |-> Nil]]
      /\ hint = [n \in Nodes |-> [l \in Lists |-> MaxNum]]
  BY Zenon DEF SkipInit
<1>3. \A k \in SkipKeys : writer[k] \in Idles
  BY <1>1, Zenon DEF Idles
<1>4. \A r \in Readers : search[r] \in Idles
  BY <1>1, Zenon DEF Idles
<1>5. MaxNum \in 0 .. MaxNum /\ Nil \in Targets /\ Num(Nil) = MaxNum /\ MaxNum >= MaxNum
  BY SkipAssumption DEF Targets, Num
<1>6. SkipTypes
  <2>1. writer \in [SkipKeys -> Idles]
    BY <1>1, <1>3, Zenon
  <2>2. search \in [Readers -> Idles]
    BY <1>1, <1>4, Zenon
  <2>3. next \in [Nodes -> [Lists -> Targets]] /\ hint \in [Nodes -> [Lists -> 0 .. MaxNum]]
    BY <1>2, <1>5, Zenon
  <2> QED
    BY <2>1, <2>2, <2>3, Zenon DEF SkipTypes
<1>7. \A l \in Lists : On[l] = {HeadNode}
  <2>1. \A k \in SkipKeys, l \in Lists : ~In(writer[k], l)
    BY <1>3 DEF Idles, In
  <2> QED
    BY <2>1, Zenon DEF On
<1>8. ASSUME NEW l \in Lists PROVE ListOK(On, next, l)
  <2>1. \A n \in Nodes : next[n][l] = Nil
    BY <1>2, Zenon
  <2>2. HeadNode \in Nodes /\ HeadNode \in Nat
    BY Zenon DEF Nodes, HeadNode
  <2>3. Path(next, l) = {HeadNode}
    <3>1. {HeadNode} \in SUBSET Nodes /\ \A m \in {HeadNode} : next[m][l] \in {HeadNode} \cup {Nil}
      BY <2>1, <2>2, Zenon
    <3>2. Path(next, l) \subseteq {HeadNode}
      BY <3>1, Zenon DEF Path
    <3>3. HeadNode \in Path(next, l)
      BY <2>2, Zenon DEF Path
    <3> QED
      BY <3>2, <3>3, Zenon
  <2>4. \A n \in Nodes : next[n][l] > n /\ next[n][l] \in On[l] \cup {Nil}
    BY <2>1, NodeNumber, Zenon
  <2>5. \A a, b \in On[l] : ~(a < b)
    BY <1>7, <2>2
  <2> QED
    BY <1>7, <2>2, <2>3, <2>4, <2>5, Zenon DEF ListOK
<1>9. \A l \in Lists : \A n \in Nodes : hint[n][l] >= Num(next[n][l])
  BY <1>2, <1>5, Zenon
<1>10. \A l \in Lists : \A n \in Nodes : CaughtUp(next, hint, writer, n, l)
  BY <1>2, Zenon DEF CaughtUp
<1> QED
  BY <1>3, <1>4, <1>6, <1>8, <1>9, <1>10, Zenon DEF SkipInv, WriterOK, ReaderOK

(***************************************************************************)
(* Every step keeps the invariant.                                          *)
(***************************************************************************)
LEMMA SkipSteps == SkipInv /\ [SkipNext]_skipVars => SkipInv'
<1> SUFFICES ASSUME SkipInv, [SkipNext]_skipVars PROVE SkipInv'
  BY Zenon
<1>1. ASSUME NEW k \in SkipKeys, SkipInsert(k) PROVE SkipInv'
  <2>1. CASE InsertCall(k) \/ InsertFinds(k) \/ InsertAllocates(k)
    BY <2>1, FindMoves, Zenon
  <2>2. CASE CasNext(k)
    BY <2>2, CasMoves, Zenon
  <2>3. CASE LowerHint(k)
    BY <2>3, LowerMoves, Zenon
  <2>4. CASE AdvanceReadsHint(k) \/ AdvanceReadsNext(k)
    BY <2>4, AdvanceMoves, Zenon
  <2> QED
    BY <1>1, <2>1, <2>2, <2>3, <2>4, Zenon DEF SkipInsert
<1>2. ASSUME NEW r \in Readers, SeekCall(r) \/ SeekStep(r) \/ PrevCall(r) \/ FindLessThan(r)
      PROVE  SkipInv'
  <2>1. CASE SeekCall(r) \/ SeekStep(r)
    BY <2>1, SeekMoves, Zenon
  <2>2. CASE PrevCall(r) \/ FindLessThan(r)
    BY <2>2, LessMoves, Zenon
  <2> QED
    BY <1>2, <2>1, <2>2, Zenon
<1>3. CASE UNCHANGED skipVars
  <2>1. next' = next /\ hint' = hint /\ writer' = writer /\ search' = search
    BY <1>3, Zenon DEF skipVars
  <2>2. On' = On
    BY <2>1, Zenon DEF On
  <2> QED
    BY <2>1, <2>2, Zenon DEF SkipInv, SkipTypes
<1> QED
  BY <1>1, <1>2, <1>3, Zenon DEF SkipNext

\* The invariant of the skip list holds throughout: every list is sorted and
\* holds exactly the nodes its inserts have linked, hints never run ahead of
\* pointers, and what each search or insert has noted stays linked and on its
\* side of the key.
THEOREM SkipInvariant == SkipSpec => []SkipInv
<1>1. SkipInit => SkipInv
  BY SkipStarts, Zenon
<1>2. SkipInv /\ [SkipNext]_skipVars => SkipInv'
  BY SkipSteps, Zenon
<1> QED
  BY <1>1, <1>2, PTL DEF SkipSpec

(***************************************************************************)
(* The nodes reached from a list's head are those that On counts.           *)
(***************************************************************************)
LEMMA LinkedIsOn ==
  ASSUME SkipInv, NEW l \in Lists
  PROVE  Linked(l) = On[l]
<1>1. Linked(l) = Path(next, l)
  BY LinkedIsPath, Zenon
<1> QED
  BY <1>1, Zenon DEF SkipInv, ListOK

\* Whatever the interleaving of inserts, every list of the skip list is sorted
\* and part of the list below it.
THEOREM ListsAlwaysSorted == SkipSpec => []ListsSorted
<1>1. SkipInv => ListsSorted
  <2> SUFFICES ASSUME SkipInv, NEW l \in Lists
               PROVE  /\ \A n \in Nodes : next[n][l] > n
                      /\ l > 0 => Linked(l) \subseteq Linked(l - 1)
    BY Zenon DEF ListsSorted
  <2>1. \A n \in Nodes : next[n][l] > n
    BY Zenon DEF SkipInv, ListOK
  <2>2. ASSUME l > 0 PROVE Linked(l) \subseteq Linked(l - 1)
    <3>1. l - 1 \in Lists /\ l - 1 <= l
      BY <2>2, ListNumber
    <3>2. On[l] \subseteq On[l - 1]
      BY <3>1, OnBelow, Zenon DEF SkipInv
    <3> QED
      BY <3>1, <3>2, LinkedIsOn, Zenon
  <2> QED
    BY <2>1, <2>2, Zenon
<1> QED
  BY <1>1, SkipInvariant, PTL

\* A hint is at every moment at or above the KeyNum of the node its pointer
\* leads to, so that passing a node on the hint alone passes no key.
THEOREM HintsAlwaysLag == SkipSpec => []HintsLag
<1>1. SkipInv => HintsLag
  BY Zenon DEF SkipInv, HintsLag
<1> QED
  BY <1>1, SkipInvariant, PTL

\* An insert that has returned can be found in every list up to its height,
\* and the hint before it has caught up.
THEOREM InsertsNeverLost == SkipSpec => []NoInsertLost
<1>1. SkipInv => NoInsertLost
  <2> SUFFICES ASSUME SkipInv, NEW l \in Lists, NEW k \in Inserted, l < writer[k].height
               PROVE  /\ k \in Linked(l)
                      /\ \A n \in Linked(l) : next[n][l] = k => hint[n][l] <= Num(k)
    BY Zenon DEF NoInsertLost
  <2>1. k \in On[l] /\ Linked(l) = On[l]
    BY InsertedOn, LinkedIsOn, Zenon
  <2>2. ASSUME NEW n \in On[l], next[n][l] = k PROVE hint[n][l] <= Num(k)
    <3>1. n \in Nodes /\ CaughtUp(next, hint, writer, n, l)
      BY Zenon DEF SkipInv, ListOK
    <3>2. k \in SkipKeys /\ writer[k].pc = "done" /\ k # Nil
      BY KeyNumber DEF Inserted
    <3> QED
      BY <2>2, <3>1, <3>2, Zenon DEF CaughtUp
  <2> QED
    BY <2>1, <2>2, Zenon
<1> QED
  BY <1>1, SkipInvariant, PTL

\* No search misses a key that was inserted before it began, however the
\* inserts beside it are interleaved with its reads.
THEOREM SearchesAlwaysLinearize == SkipSpec => []SearchesLinearize
<1>1. ASSUME SkipInv, NEW r \in Readers, search[r].pc = "seek", search[r].find.pc = "found"
      PROVE  LET s == search[r]
                 n == s.find.obs[0]
             IN  /\ n >= s.find.key /\ n \in Linked(0) \cup {Nil}
                 /\ ~\E k \in s.before : s.find.key <= k /\ k < n
  <2>1. PICK s, n, f : s = search[r] /\ f = s.find.key /\ n = s.find.obs[0]
    BY Zenon
  <2>2. /\ s \in SeekStates /\ FindOK(s.find, On, next)
        /\ \A b \in s.before : b >= f => n <= b
    BY <1>1, <2>1, ReaderAt, Zenon DEF SeekOK
  <2>3. 0 \in Lists
    BY SkipAssumption DEF Lists
  <2>4. n >= f /\ n \in On[0] \cup {Nil}
    BY <2>1, <2>2, <2>3, Zenon DEF FindOK
  <2>5. n \in Targets /\ f \in SkipKeys /\ s.before \subseteq SkipKeys
    BY <2>1, <2>2, <2>3, Zenon DEF SeekStates, FindStates
  <2>6. ASSUME NEW k \in s.before, f <= k PROVE ~(k < n)
    <3>1. k \in Nat /\ n \in Nat /\ f \in Nat
      BY <2>5, KeyNumber, TargetNumber, Zenon
    <3>2. n <= k
      BY <2>2, <2>6, <3>1, Zenon
    <3> QED
      BY <3>1, <3>2
  <2> QED
    BY <1>1, <2>1, <2>3, <2>4, <2>6, LinkedIsOn, Zenon
<1>2. ASSUME SkipInv, NEW r \in Readers, search[r].pc = "lessdone"
      PROVE  LET s == search[r]
             IN  /\ s.at < s.key /\ s.at \in Linked(0)
                 /\ ~\E k \in s.before : s.at < k /\ k < s.key
  <2>1. PICK s : s = search[r]
    BY Zenon
  <2>2. /\ s \in LessStates /\ s.at \in On[0] /\ s.at < s.key
        /\ \A b \in s.before : s.at < b => s.key <= b
    BY <1>2, <2>1, ReaderAt, Zenon DEF LessOK
  <2>3. s.key \in Targets /\ s.before \subseteq SkipKeys
    BY <2>2, Zenon DEF LessStates
  <2>4. ASSUME NEW k \in s.before, s.at < k PROVE ~(k < s.key)
    <3>1. k \in Nat /\ s.key \in Nat
      BY <2>3, KeyNumber, TargetNumber, Zenon
    <3>2. s.key <= k
      BY <2>2, <2>4, Zenon
    <3> QED
      BY <3>1, <3>2
  <2>5. 0 \in Lists
    BY SkipAssumption DEF Lists
  <2> QED
    BY <1>2, <2>1, <2>2, <2>4, <2>5, LinkedIsOn, Zenon
<1>3. SkipInv => SearchesLinearize
  BY <1>1, <1>2, Zenon DEF SearchesLinearize
<1> QED
  BY <1>3, SkipInvariant, PTL

-----------------------------------------------------------------------------
(***************************************************************************)
(* A writer that has linked its node into a list never goes back on it.     *)
(***************************************************************************)
LEMMA InKept ==
  ASSUME SkipInv, NEW k \in SkipKeys, SkipInsert(k), NEW l \in Lists, In(writer[k], l)
  PROVE  In(writer'[k], l)
<1> DEFINE w == writer[k]
<1>1. w.pc \in {"cas", "lower", "rehint", "renext", "done"}
  BY Zenon DEF In
<1>2. w.pc # "done"
  BY Zenon DEF SkipInsert, InsertCall, InsertFinds, Finding, InsertAllocates, CasNext, LowerHint,
         AdvanceReadsHint, AdvanceReadsNext
<1>3. /\ w \in LinkStates /\ w.list \in Lists /\ w.list < w.height /\ w.height \in 1 .. MaxHeight
  BY <1>1, <1>2, LinkFacts, Zenon DEF LinkOK, LinkStates
<1>4. l \in Nat /\ w.list \in Nat
  BY <1>3, ListNumber, Zenon
<1>5. CASE CasNext(k)
  <2>1. w.pc = "cas" /\ l < w.list
    BY <1>5, Zenon DEF CasNext, In
  <2>2. writer'[k].list = w.list /\ writer'[k].pc \in {"lower", "rehint"}
    BY <1>3, <1>5 DEF CasNext, SkipInv, SkipTypes, LinkStates
  <2> QED
    BY <1>4, <2>1, <2>2 DEF In
<1>6. CASE LowerHint(k)
  <2>1. w.pc = "lower" /\ l <= w.list
    BY <1>6, Zenon DEF LowerHint, In
  <2>2. CASE w.c > Num(k)
    <3>1. writer'[k].list = w.list /\ writer'[k].pc = "lower"
      BY <1>3, <1>6, <2>1, <2>2 DEF LowerHint, SkipInv, SkipTypes, LinkStates
    <3> QED
      BY <2>1, <3>1, Zenon DEF In
  <2>3. CASE ~(w.c > Num(k)) /\ w.list + 1 < w.height
    <3>1. writer'[k] = NextList(w)
      BY <1>6, <2>3, Zenon DEF LowerHint, SkipInv, SkipTypes, NextList
    <3>2. writer'[k].list = w.list + 1 /\ writer'[k].pc = "cas"
      BY <1>3, <3>1, Zenon DEF NextList, LinkStates
    <3>3. l < w.list + 1
      BY <1>4, <2>1
    <3> QED
      BY <3>2, <3>3, Zenon DEF In
  <2>4. CASE ~(w.c > Num(k)) /\ ~(w.list + 1 < w.height)
    <3>1. writer'[k] = [pc |-> "done", height |-> w.height]
      BY <1>6, <2>4, Zenon DEF LowerHint, SkipInv, SkipTypes
    <3>2. l < w.height
      BY <1>3, <1>4, <2>1
    <3> QED
      BY <3>1, <3>2 DEF In
  <2> QED
    BY <2>2, <2>3, <2>4, Zenon
<1>7. CASE AdvanceReadsHint(k)
  <2>1. w.pc = "rehint" /\ l < w.list
    BY <1>7, Zenon DEF AdvanceReadsHint, In
  <2>2. writer'[k].list = w.list /\ writer'[k].pc = "renext"
    BY <1>3, <1>7, Zenon DEF AdvanceReadsHint, SkipInv, SkipTypes, LinkStates
  <2> QED
    BY <2>1, <2>2, Zenon DEF In
<1>8. CASE AdvanceReadsNext(k)
  <2>1. w.pc = "renext" /\ l < w.list
    BY <1>8, Zenon DEF AdvanceReadsNext, In
  <2>2. PICK n : writer'[k] = Passed(w, n) \/ writer'[k] = Expected(w, n)
    BY <1>8, Zenon DEF AdvanceReadsNext, SkipInv, SkipTypes, Passed, Expected
  <2>3. writer'[k].list = w.list /\ writer'[k].pc \in {"rehint", "cas"}
    BY <1>3, <2>2, Zenon DEF Passed, Expected, LinkStates
  <2> QED
    BY <2>1, <2>3, Zenon DEF In
<1>9. ~InsertCall(k) /\ ~InsertFinds(k) /\ ~InsertAllocates(k)
  BY <1>1, Zenon DEF InsertCall, InsertFinds, Finding, InsertAllocates
<1> QED
  BY <1>5, <1>6, <1>7, <1>8, <1>9, Zenon DEF SkipInsert

LEMMA OnGrows ==
  ASSUME SkipInv, [SkipNext]_skipVars, NEW l \in Lists
  PROVE  On[l] \subseteq On'[l]
<1>1. ASSUME NEW k \in SkipKeys, In(writer[k], l) PROVE In(writer'[k], l)
  <2>1. CASE writer' = writer
    BY <1>1, <2>1, Zenon
  <2>2. ASSUME NEW j \in SkipKeys, SkipInsert(j) PROVE In(writer'[k], l)
    <3>1. CASE j = k
      BY <1>1, <2>2, <3>1, InKept, Zenon
    <3>2. CASE j # k
      <4>1. writer'[k] = writer[k]
        BY <2>2, <3>2, Zenon DEF SkipInsert, InsertCall, InsertFinds, InsertAllocates, CasNext, LowerHint,
                          AdvanceReadsHint, AdvanceReadsNext, SkipInv, SkipTypes
      <4> QED
        BY <1>1, <4>1, Zenon
    <3> QED
      BY <3>1, <3>2, Zenon
  <2> QED
    BY <2>1, <2>2, Zenon DEF SkipNext, skipVars, SeekCall, SeekStep, PrevCall, FindLessThan
<1> QED
  BY <1>1, Zenon DEF On

\* No step of an insert or of a search ever takes a key out of a list.
THEOREM SkipAlwaysGrows == SkipSpec => SkipGrows
<1>1. SkipInv => \A l \in Lists : Linked(l) = On[l]
  BY LinkedIsOn, Zenon
<1>2. SkipInv' => (\A l \in Lists : Linked(l) = On[l])'
  BY <1>1, PTL
<1>3. SkipInv /\ SkipInv' /\ [SkipNext]_skipVars
        => [\A l \in Lists : Linked(l) \subseteq Linked(l)']_next
  <2> SUFFICES ASSUME SkipInv, SkipInv', [SkipNext]_skipVars, NEW l \in Lists
               PROVE  Linked(l) \subseteq Linked(l)'
    BY Zenon
  <2>1. Linked(l) = On[l] /\ Linked(l)' = On'[l]
    BY <1>1, <1>2, Zenon
  <2> QED
    BY <2>1, OnGrows, Zenon
<1> QED
  BY <1>3, SkipInvariant, PTL DEF SkipSpec, SkipGrows
=============================================================================
