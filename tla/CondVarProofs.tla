----------------------------- MODULE CondVarProofs -----------------------------
(***************************************************************************)
(* Proofs about port::CondVar of the Windows port, for any number of        *)
(* waiters, signallers and broadcasters.                                    *)
(***************************************************************************)
EXTENDS CondVar, FiniteSetTheorems, TLAPS

\* Points at which a thread holds mu_, and at which it holds wait_mtx_ too.
HoldsMu == {"in", "back", "counted", "handshake", "for", "while", "confirmed"}
HoldsWaitMtx == {"handshake", "for", "while", "confirmed"}

\* The points each kind of thread comes to.
Points(t) ==
  IF t \in Waiters THEN {"out", "in", "back", "counted", "asleep", "confirm", "relock"}
  ELSE IF t \in Signallers THEN {"out", "in", "back", "handshake"}
  ELSE {"out", "in", "back", "for", "while", "confirmed"}

Placed == \A t \in Threads :
  /\ pc[t] \in Points(t)
  /\ mu = t <=> pc[t] \in HoldsMu
  /\ waitMtx = t <=> pc[t] \in HoldsWaitMtx

Confirmers == {t \in Waiters : pc[t] = "confirm"}

\* One wakeup is under way: released, taken or confirmed.  Or none is.
OneUnderWay == sem1 + Cardinality(Confirmers) + sem2 = 1
NoneUnderWay == sem1 = 0 /\ Confirmers = {} /\ sem2 = 0

\* What waiting_ and the semaphores say at each point of Signal and SignalAll.
\* Before its first decrement the while loop still counts the waiter it woke.
\* A second round decrements waiting_ with no wakeup under way.
Balanced(p) ==
  LET asleep == Cardinality(Sleepers)
  IN  CASE p = "handshake" -> OneUnderWay /\ asleep = waiting + sem1 /\ i = 0
        [] p = "for" -> NoneUnderWay /\ asleep = waiting /\ (i = 0 \/ waiting = 0)
        [] p = "while" -> /\ i = 0
                          /\ \/ OneUnderWay /\ asleep + 1 = waiting + sem1 /\ waiting > 0
                             \/ NoneUnderWay /\ asleep = waiting
        [] p = "confirmed" -> /\ i = 0
                              /\ \/ OneUnderWay /\ asleep = waiting + sem1
                                 \/ NoneUnderWay /\ asleep = waiting + 1
        [] OTHER -> TRUE

Balance ==
  /\ waitMtx = NoOne => NoneUnderWay /\ Cardinality(Sleepers) = waiting /\ i = 0
  /\ \A t \in Threads : waitMtx = t => Balanced(pc[t])

\* SignalAll runs with no more waiters than it was called with.
CrowdKept ==
  \A b \in Broadcasters : mu = b /\ pc[b] # "back" => Cardinality(Sleepers) <= Crowd

CvInv == TypeOK /\ Placed /\ Balance /\ CrowdKept

(***************************************************************************)
(* Nobody holds mu_ and wait_mtx_ unless Placed says where.                 *)
(***************************************************************************)
LEMMA FreeMu ==
  ASSUME TypeOK, Placed, mu = NoOne
  PROVE  /\ waitMtx = NoOne
         /\ \A t \in Threads : pc[t] \notin HoldsMu
BY CondVarAssumption DEF TypeOK, Placed, Threads, HoldsMu, HoldsWaitMtx

LEMMA FreeWaitMtx ==
  ASSUME TypeOK, Placed, NEW t \in Threads, pc[t] \in HoldsMu \ HoldsWaitMtx
  PROVE  /\ mu = t /\ waitMtx = NoOne
         /\ \A u \in Threads \ {t} : pc[u] \notin HoldsMu
BY CondVarAssumption DEF TypeOK, Placed, Threads, HoldsMu, HoldsWaitMtx

LEMMA TakenWaitMtx ==
  ASSUME TypeOK, Placed, NEW t \in Threads, pc[t] \in HoldsWaitMtx
  PROVE  /\ mu = t /\ waitMtx = t
         /\ \A u \in Threads \ {t} : pc[u] \notin HoldsMu
BY CondVarAssumption DEF TypeOK, Placed, Threads, HoldsMu, HoldsWaitMtx

(***************************************************************************)
(* The threads that sleep, and those that confirm, are finitely many.       *)
(***************************************************************************)
LEMMA CountsFinite ==
  /\ IsFiniteSet(Sleepers) /\ Cardinality(Sleepers) \in Nat
  /\ IsFiniteSet(Confirmers) /\ Cardinality(Confirmers) \in Nat
  /\ Cardinality(Confirmers) = 0 <=> Confirmers = {}
  /\ Cardinality(Sleepers) = 0 <=> Sleepers = {}
<1>1. Sleepers \in SUBSET Waiters /\ Confirmers \in SUBSET Waiters
  BY DEF Sleepers, Confirmers
<1>2. IsFiniteSet(Sleepers) /\ IsFiniteSet(Confirmers)
  BY <1>1, FS_Subset, CondVarAssumption
<1> QED
  BY <1>2, FS_CardinalityType, FS_EmptySet

(***************************************************************************)
(* A step of a thread that neither falls asleep nor wakes changes neither   *)
(* set.                                                                     *)
(***************************************************************************)
LEMMA CountsSame ==
  ASSUME TypeOK, NEW t \in Threads, NEW p, pc' = [pc EXCEPT ![t] = p],
         t \in Waiters => /\ pc[t] \in {"counted", "asleep"} <=> p \in {"counted", "asleep"}
                          /\ pc[t] = "confirm" <=> p = "confirm"
  PROVE  Sleepers' = Sleepers /\ Confirmers' = Confirmers
BY DEF TypeOK, Threads, Sleepers, Confirmers

(***************************************************************************)
(* The fields keep their types.                                             *)
(***************************************************************************)
LEMMA TypeStep ==
  ASSUME TypeOK, [Next]_vars
  PROVE  TypeOK'
<1>1. CASE UNCHANGED vars
  BY <1>1 DEF TypeOK, vars
<1>2. ASSUME NEW t \in Threads, LockMu(t) \/ UnlockMu(t)
      PROVE  TypeOK'
  BY <1>2 DEF TypeOK, LockMu, UnlockMu, Go
<1>3. ASSUME NEW t \in Threads,
             \/ WaitCounts(t) \/ WaitUnlocks(t) \/ WaitWakes(t) \/ WaitConfirms(t)
             \/ WaitRelocks(t)
      PROVE  TypeOK'
  BY <1>3 DEF TypeOK, WaitCounts, WaitUnlocks, WaitWakes, WaitConfirms, WaitRelocks, Go
<1>4. ASSUME NEW t \in Threads, SignalBegins(t) \/ SignalEnds(t) \/ SignalAllBegins(t)
      PROVE  TypeOK'
  BY <1>4 DEF TypeOK, SignalBegins, SignalEnds, SignalAllBegins, Go, Anyone
<1>5. ASSUME NEW t \in Threads,
             SignalAllFor(t) \/ SignalAllWhile(t) \/ SignalAllConfirmed(t)
      PROVE  TypeOK'
  BY <1>5 DEF TypeOK, SignalAllFor, SignalAllWhile, SignalAllConfirmed, Go, Anyone
<1> QED
  BY <1>1, <1>2, <1>3, <1>4, <1>5 DEF Next, Step

(***************************************************************************)
(* mu_ and wait_mtx_ are held where the points of the threads say.          *)
(***************************************************************************)
LEMMA PlacedStep ==
  ASSUME TypeOK, Placed, [Next]_vars
  PROVE  Placed'
<1> USE CondVarAssumption DEF HoldsMu, HoldsWaitMtx
<1>1. CASE UNCHANGED vars
  BY <1>1 DEF Placed, Points, vars
<1>2. ASSUME NEW t \in Threads, LockMu(t) \/ UnlockMu(t)
      PROVE  Placed'
  BY <1>2, FreeMu, FreeWaitMtx DEF TypeOK, Placed, Points, Threads, LockMu, UnlockMu, Go
<1>3. ASSUME NEW t \in Threads, WaitCounts(t) \/ WaitUnlocks(t)
      PROVE  Placed'
  BY <1>3, FreeWaitMtx DEF TypeOK, Placed, Points, Threads, WaitCounts, WaitUnlocks, Go
<1>4. ASSUME NEW t \in Threads, WaitWakes(t) \/ WaitConfirms(t) \/ WaitRelocks(t)
      PROVE  Placed'
  BY <1>4, FreeMu DEF TypeOK, Placed, Points, Threads, WaitWakes, WaitConfirms, WaitRelocks, Go
<1>5. ASSUME NEW t \in Threads, SignalBegins(t) \/ SignalAllBegins(t)
      PROVE  Placed'
  BY <1>5, FreeWaitMtx DEF TypeOK, Placed, Points, Threads, SignalBegins, SignalAllBegins, Go, Anyone
<1>6. ASSUME NEW t \in Threads, SignalEnds(t) \/ SignalAllFor(t)
      PROVE  Placed'
  BY <1>6, TakenWaitMtx DEF TypeOK, Placed, Points, Threads, SignalEnds, SignalAllFor, Go
<1>7. ASSUME NEW t \in Threads, SignalAllWhile(t) \/ SignalAllConfirmed(t)
      PROVE  Placed'
  BY <1>7, TakenWaitMtx
     DEF TypeOK, Placed, Points, Threads, SignalAllWhile, SignalAllConfirmed, Go, Anyone
<1> QED
  BY <1>1, <1>2, <1>3, <1>4, <1>5, <1>6, <1>7 DEF Next, Step

-----------------------------------------------------------------------------
(***************************************************************************)
(* Balance says what one thread's point demands, since at most one thread   *)
(* holds wait_mtx_.                                                         *)
(***************************************************************************)
LEMMA BalanceOf ==
  ASSUME NEW t \in Threads, TypeOK', Placed', waitMtx' = t, Balanced(pc[t])'
  PROVE  Balance'
BY CondVarAssumption DEF Balance, Threads

LEMMA BalanceFree ==
  ASSUME waitMtx' = NoOne, NoneUnderWay', Cardinality(Sleepers)' = waiting', i' = 0
  PROVE  Balance'
BY CondVarAssumption DEF Balance, Threads

(***************************************************************************)
(* The steps of Wait keep the count.                                        *)
(***************************************************************************)
LEMMA WaitBalance ==
  ASSUME CvInv, NEW t \in Threads, TypeOK', Placed',
         \/ WaitCounts(t) \/ WaitUnlocks(t) \/ WaitWakes(t) \/ WaitConfirms(t)
         \/ WaitRelocks(t)
  PROVE  Balance'
<1> USE CondVarAssumption DEF CvInv
<1>1. CASE WaitCounts(t)
  <2>1. waitMtx = NoOne /\ waitMtx' = NoOne /\ t \in Waiters
    BY <1>1 DEF WaitCounts
  <2>2. Sleepers' = Sleepers \cup {t} /\ t \notin Sleepers /\ Confirmers' = Confirmers
    BY <1>1 DEF WaitCounts, Go, TypeOK, Sleepers, Confirmers, Threads
  <2>3. Cardinality(Sleepers') = Cardinality(Sleepers) + 1
    BY <2>2, CountsFinite, FS_AddElement
  <2> QED
    BY <1>1, <2>1, <2>2, <2>3, BalanceFree DEF WaitCounts, Balance, NoneUnderWay
<1>2. CASE WaitUnlocks(t) \/ WaitRelocks(t)
  <2>1. t \in Waiters
    BY <1>2 DEF WaitUnlocks, WaitRelocks, Go, Placed, Points
  <2>2. Sleepers' = Sleepers /\ Confirmers' = Confirmers
    BY <1>2, <2>1, CountsSame DEF WaitUnlocks, WaitRelocks, Go
  <2>3. waitMtx = NoOne
    BY <1>2, FreeMu, FreeWaitMtx DEF WaitUnlocks, WaitRelocks, Go, HoldsMu, HoldsWaitMtx
  <2> QED
    BY <1>2, <2>2, <2>3, BalanceFree DEF WaitUnlocks, WaitRelocks, Balance, NoneUnderWay
<1>3. CASE WaitWakes(t) \/ WaitConfirms(t)
  <2>1. t \in Waiters
    BY <1>3 DEF WaitWakes, WaitConfirms, Go, Placed, Points
  <2>2. PICK s \in Threads : waitMtx = s
    BY <1>3, <2>1 DEF WaitWakes, WaitConfirms, Go, TypeOK, Balance, NoneUnderWay, Confirmers
  <2>3. s # t /\ pc'[s] = pc[s] /\ waitMtx' = s /\ i' = i /\ waiting' = waiting
    BY <1>3, <2>2 DEF WaitWakes, WaitConfirms, Go, TypeOK, Placed, HoldsWaitMtx
  <2>4. Balanced(pc[s]) /\ pc[s] \in HoldsWaitMtx
    BY <2>2 DEF Balance, Placed
  <2>5. CASE WaitWakes(t)
    <3>1. /\ Sleepers' = Sleepers \ {t} /\ t \in Sleepers
          /\ Confirmers' = Confirmers \cup {t} /\ t \notin Confirmers
      BY <2>1, <2>5 DEF WaitWakes, Go, TypeOK, Sleepers, Confirmers, Threads
    <3>2. /\ Cardinality(Sleepers') = Cardinality(Sleepers) - 1
          /\ Cardinality(Confirmers') = Cardinality(Confirmers) + 1
      BY <3>1, CountsFinite, FS_AddElement, FS_RemoveElement
    <3>3. sem1 > 0 /\ sem1' = sem1 - 1 /\ sem2' = sem2
      BY <2>5 DEF WaitWakes
    <3>4. OneUnderWay => OneUnderWay'
      BY <3>2, <3>3, CountsFinite DEF OneUnderWay, TypeOK
    <3>5. ~NoneUnderWay
      BY <3>3 DEF NoneUnderWay
    <3>6. Balanced(pc[s])'
      <4>1. CASE pc[s] = "handshake"
        BY <2>3, <2>4, <3>2, <3>3, <3>4, <4>1, CountsFinite DEF Balanced, TypeOK
      <4>2. CASE pc[s] = "for"
        BY <2>4, <3>5, <4>2 DEF Balanced
      <4>3. CASE pc[s] = "while"
        BY <2>3, <2>4, <3>2, <3>3, <3>4, <3>5, <4>3, CountsFinite DEF Balanced, TypeOK
      <4>4. CASE pc[s] = "confirmed"
        BY <2>3, <2>4, <3>2, <3>3, <3>4, <3>5, <4>4, CountsFinite DEF Balanced, TypeOK
      <4> QED
        BY <2>4, <4>1, <4>2, <4>3, <4>4 DEF HoldsWaitMtx
    <3> QED
      BY <2>3, <3>6, BalanceOf
  <2>6. CASE WaitConfirms(t)
    <3>1. /\ Sleepers' = Sleepers
          /\ Confirmers' = Confirmers \ {t} /\ t \in Confirmers
      BY <2>1, <2>6 DEF WaitConfirms, Go, TypeOK, Sleepers, Confirmers, Threads
    <3>2. /\ Cardinality(Sleepers') = Cardinality(Sleepers)
          /\ Cardinality(Confirmers') = Cardinality(Confirmers) - 1
      BY <3>1, CountsFinite, FS_RemoveElement
    <3>3. sem1' = sem1 /\ sem2' = sem2 + 1
      BY <2>6 DEF WaitConfirms
    <3>4. Balanced(pc[s])'
      BY <2>3, <2>4, <3>1, <3>2, <3>3, CountsFinite
         DEF Balanced, OneUnderWay, NoneUnderWay, HoldsWaitMtx, TypeOK
    <3> QED
      BY <2>3, <3>4, BalanceOf
  <2> QED
    BY <1>3, <2>5, <2>6
<1> QED
  BY <1>1, <1>2, <1>3

(***************************************************************************)
(* So do those of Signal and SignalAll, and of locking mu_.                 *)
(***************************************************************************)
LEMMA SignalBalance ==
  ASSUME CvInv, NEW t \in Threads, TypeOK', Placed',
         \/ LockMu(t) \/ UnlockMu(t) \/ SignalBegins(t) \/ SignalEnds(t)
         \/ SignalAllBegins(t) \/ SignalAllFor(t) \/ SignalAllWhile(t)
         \/ SignalAllConfirmed(t)
  PROVE  Balance' /\ Sleepers' = Sleepers
<1> USE CondVarAssumption DEF CvInv
<1>1. Sleepers' = Sleepers /\ Confirmers' = Confirmers
  BY CountsSame DEF LockMu, UnlockMu, SignalBegins, SignalEnds, SignalAllBegins,
                    SignalAllFor, SignalAllWhile, SignalAllConfirmed, Go, Placed, Points, Threads
<1>2. CASE LockMu(t) \/ UnlockMu(t)
  <2>1. waitMtx = NoOne
    BY <1>2, FreeMu, FreeWaitMtx DEF LockMu, UnlockMu, Go, HoldsMu, HoldsWaitMtx
  <2> QED
    BY <1>1, <1>2, <2>1, BalanceFree DEF LockMu, UnlockMu, Balance, NoneUnderWay
<1>3. CASE SignalBegins(t)
  <2>1. waitMtx = NoOne
    BY <1>3 DEF SignalBegins
  <2>2. CASE ~Anyone
    BY <1>1, <1>3, <2>1, <2>2, BalanceFree DEF SignalBegins, Balance, NoneUnderWay
  <2>3. CASE Anyone
    <3>1. /\ waitMtx' = t /\ pc'[t] = "handshake" /\ waiting' = waiting - 1
          /\ sem1' = sem1 + 1 /\ sem2' = sem2 /\ i' = i
      BY <1>3, <2>3 DEF SignalBegins, Go, TypeOK
    <3>2. Balanced(pc[t])'
      BY <1>1, <2>1, <3>1, CountsFinite
         DEF Balance, Balanced, NoneUnderWay, OneUnderWay, TypeOK
    <3> QED
      BY <1>1, <3>1, <3>2, BalanceOf
  <2> QED
    BY <2>2, <2>3
<1>4. CASE SignalEnds(t)
  <2>1. pc[t] = "handshake" /\ waitMtx = t /\ Balanced(pc[t])
    BY <1>4 DEF SignalEnds, Go, Placed, HoldsWaitMtx, Balance
  <2>2. OneUnderWay /\ Cardinality(Sleepers) = waiting + sem1 /\ i = 0
    BY <2>1 DEF Balanced
  <2>3. NoneUnderWay' /\ Cardinality(Sleepers)' = waiting' /\ waitMtx' = NoOne
    BY <1>1, <1>4, <2>2, CountsFinite DEF SignalEnds, OneUnderWay, NoneUnderWay, TypeOK
  <2> QED
    BY <1>1, <1>4, <2>2, <2>3, BalanceFree DEF SignalEnds
<1>5. CASE SignalAllBegins(t)
  <2>1. waitMtx = NoOne /\ waitMtx' = t /\ pc'[t] = "for" /\ i' = 0
    BY <1>5 DEF SignalAllBegins, Go, TypeOK
  <2>2. Balanced(pc[t])'
    BY <1>1, <1>5, <2>1 DEF SignalAllBegins, Balance, Balanced, NoneUnderWay
  <2> QED
    BY <1>1, <2>1, <2>2, BalanceOf
<1>6. CASE SignalAllFor(t)
  <2>1. pc[t] = "for" /\ waitMtx = t /\ Balanced(pc[t])
    BY <1>6 DEF SignalAllFor, Go, Placed, HoldsWaitMtx, Balance
  <2>2. NoneUnderWay /\ Cardinality(Sleepers) = waiting /\ (i = 0 \/ waiting = 0)
    BY <2>1 DEF Balanced
  <2>3. CASE i < waiting
    <3>1. /\ waitMtx' = t /\ pc'[t] = "while" /\ sem1' = sem1 + 1 /\ sem2' = sem2
          /\ i' = 0 /\ waiting' = waiting /\ waiting > 0
      BY <1>6, <2>1, <2>2, <2>3 DEF SignalAllFor, Go, TypeOK
    <3>2. OneUnderWay' /\ (Cardinality(Sleepers) + 1 = waiting + sem1)' /\ (waiting > 0)'
      BY <1>1, <2>2, <3>1, CountsFinite DEF NoneUnderWay, OneUnderWay, TypeOK
    <3>3. Balanced(pc[t])'
      BY <3>1, <3>2 DEF Balanced
    <3> QED
      BY <1>1, <3>1, <3>3, BalanceOf
  <2>4. CASE ~(i < waiting)
    BY <1>1, <1>6, <2>2, <2>4, BalanceFree DEF SignalAllFor, NoneUnderWay
  <2> QED
    BY <2>3, <2>4
<1>7. CASE SignalAllWhile(t)
  <2>1. pc[t] = "while" /\ waitMtx = t /\ waitMtx' = t /\ Balanced(pc[t])
    BY <1>7 DEF SignalAllWhile, Go, Placed, HoldsWaitMtx, Balance
  <2>2. sem1' = sem1 /\ sem2' = sem2
    BY <1>7 DEF SignalAllWhile
  <2>3. CASE Anyone
    <3>1. pc'[t] = "confirmed" /\ waiting' = waiting - 1 /\ i' = i
      BY <1>7, <2>3 DEF SignalAllWhile, Go, TypeOK
    <3>2. Balanced(pc[t])'
      BY <1>1, <2>1, <2>2, <3>1, CountsFinite
         DEF Balanced, NoneUnderWay, OneUnderWay, TypeOK
    <3> QED
      BY <1>1, <2>1, <3>2, BalanceOf
  <2>4. CASE ~Anyone
    <3>1. pc'[t] = "for" /\ waiting' = waiting /\ waiting = 0
      BY <1>7, <2>4 DEF SignalAllWhile, Go, TypeOK, Anyone
    <3>2. NoneUnderWay /\ Cardinality(Sleepers) = waiting
      BY <2>1, <3>1, CountsFinite DEF Balanced, NoneUnderWay, OneUnderWay, TypeOK
    <3>3. Balanced(pc[t])'
      BY <1>1, <2>2, <3>1, <3>2 DEF Balanced, NoneUnderWay
    <3> QED
      BY <1>1, <2>1, <3>3, BalanceOf
  <2> QED
    BY <2>3, <2>4
<1>8. CASE SignalAllConfirmed(t)
  <2>1. pc[t] = "confirmed" /\ waitMtx = t /\ waitMtx' = t /\ Balanced(pc[t])
    BY <1>8 DEF SignalAllConfirmed, Go, Placed, HoldsWaitMtx, Balance
  <2>2. /\ pc'[t] = "while" /\ sem1' = sem1 /\ sem2 > 0 /\ sem2' = sem2 - 1
        /\ i' = i /\ waiting' = waiting
    BY <1>8 DEF SignalAllConfirmed, Go, TypeOK
  <2>3. i = 0 /\ OneUnderWay /\ Cardinality(Sleepers) = waiting + sem1
    BY <2>1, <2>2 DEF Balanced, NoneUnderWay
  <2>4. NoneUnderWay' /\ Cardinality(Sleepers)' = waiting' /\ i' = 0
    BY <1>1, <2>2, <2>3, CountsFinite DEF NoneUnderWay, OneUnderWay, TypeOK
  <2>5. Balanced(pc[t])'
    BY <2>2, <2>4 DEF Balanced
  <2> QED
    BY <1>1, <2>1, <2>5, BalanceOf
<1> QED
  BY <1>2, <1>3, <1>4, <1>5, <1>6, <1>7, <1>8

(***************************************************************************)
(* While a broadcaster holds mu_ nobody can begin to wait.                  *)
(***************************************************************************)
LEMMA CrowdStep ==
  ASSUME CvInv, NEW t \in Threads, LockMu(t) \/ Step(t), TypeOK', Placed'
  PROVE  CrowdKept'
<1> USE CondVarAssumption DEF CvInv
<1> SUFFICES ASSUME NEW b \in Broadcasters, mu' = b, pc'[b] # "back"
             PROVE  Cardinality(Sleepers') <= Crowd
  BY DEF CrowdKept
<1>1. CASE LockMu(t) /\ t \in Broadcasters
  <2>1. waitMtx = NoOne
    BY <1>1, FreeMu DEF LockMu
  <2>2. Sleepers' = Sleepers
    BY <1>1, SignalBalance
  <2> QED
    BY <1>1, <2>1, <2>2 DEF Balance, LockMu
<1>2. CASE LockMu(t) /\ t \notin Broadcasters
  BY <1>2 DEF LockMu
<1>3. CASE UnlockMu(t) \/ WaitUnlocks(t) \/ WaitRelocks(t) \/ WaitCounts(t)
  <2>1. CASE UnlockMu(t) \/ WaitUnlocks(t)
    BY <2>1 DEF UnlockMu, WaitUnlocks, Threads
  <2>2. CASE WaitRelocks(t)
    BY <2>2 DEF WaitRelocks, Go, Placed, Points, Threads
  <2>3. CASE WaitCounts(t)
    <3>1. mu = t /\ t \in Waiters
      BY <2>3 DEF WaitCounts, Go, Placed, HoldsMu
    <3> QED
      BY <2>3, <3>1 DEF WaitCounts
  <2> QED
    BY <1>3, <2>1, <2>2, <2>3
<1>4. CASE WaitWakes(t) \/ WaitConfirms(t)
  <2>1. Sleepers' \subseteq Sleepers /\ mu = b /\ pc[b] # "back" /\ t # b
    BY <1>4 DEF WaitWakes, WaitConfirms, Go, TypeOK, Sleepers, Threads, Placed, Points
  <2>2. Cardinality(Sleepers') <= Cardinality(Sleepers) /\ Cardinality(Sleepers') \in Nat
    BY <2>1, CountsFinite, FS_Subset, FS_CardinalityType
  <2>3. Cardinality(Sleepers) <= Crowd
    BY <2>1 DEF CrowdKept
  <2> QED
    BY <2>2, <2>3, CountsFinite
<1>5. CASE \/ SignalBegins(t) \/ SignalEnds(t)
           \/ SignalAllBegins(t) \/ SignalAllFor(t) \/ SignalAllWhile(t)
           \/ SignalAllConfirmed(t)
  <2>1. mu = b /\ pc[b] # "back"
    BY <1>5 DEF SignalBegins, SignalEnds, SignalAllBegins, SignalAllFor, SignalAllWhile,
                SignalAllConfirmed, Go, TypeOK
  <2>2. Sleepers' = Sleepers
    BY <1>5, SignalBalance
  <2> QED
    BY <2>1, <2>2 DEF CrowdKept
<1> QED
  BY <1>1, <1>2, <1>3, <1>4, <1>5 DEF Step

LEMMA CvInit == Init => CvInv
<1> SUFFICES ASSUME Init PROVE CvInv
  OBVIOUS
<1>1. TypeOK /\ Placed
  BY CondVarAssumption DEF Init, TypeOK, Placed, Points, HoldsMu, HoldsWaitMtx, Threads
<1>2. Sleepers = {} /\ Confirmers = {}
  BY DEF Init, Sleepers, Confirmers, Threads
<1>3. Balance /\ CrowdKept
  BY <1>2, FS_EmptySet, CondVarAssumption
     DEF Init, Balance, NoneUnderWay, CrowdKept, Threads
<1> QED
  BY <1>1, <1>3 DEF CvInv

LEMMA CvStep == CvInv /\ [Next]_vars => CvInv'
<1> SUFFICES ASSUME CvInv, [Next]_vars PROVE CvInv'
  OBVIOUS
<1>1. TypeOK' /\ Placed'
  BY TypeStep, PlacedStep DEF CvInv
<1>2. CASE UNCHANGED vars
  <2>1. Sleepers' = Sleepers /\ Confirmers' = Confirmers
    BY <1>2 DEF vars, Sleepers, Confirmers
  <2> QED
    BY <1>1, <1>2, <2>1
       DEF vars, CvInv, Balance, Balanced, NoneUnderWay, OneUnderWay, CrowdKept
<1>3. ASSUME NEW t \in Threads, LockMu(t) \/ Step(t) PROVE CvInv'
  BY <1>1, <1>3, WaitBalance, SignalBalance, CrowdStep DEF Step, CvInv
<1> QED
  BY <1>2, <1>3 DEF Next

(***************************************************************************)
(* The fields of the condition variable keep their types, for any number of *)
(* threads.                                                                 *)
(***************************************************************************)
THEOREM CondVarTypes == Spec => []TypeOK
<1>1. CvInv => TypeOK
  BY DEF CvInv
<1> QED
  BY <1>1, CvInit, CvStep, PTL DEF Spec

(***************************************************************************)
(* For any number of threads, and however many of them wait when SignalAll  *)
(* is called: when no signal is under way, waiting_ counts the sleeping     *)
(* threads and no wakeup is stored.                                         *)
(***************************************************************************)
THEOREM CountAlwaysExact == Spec => []CountExact
<1>1. CvInv => CountExact
  BY DEF CvInv, Balance, NoneUnderWay, CountExact
<1> QED
  BY <1>1, CvInit, CvStep, PTL DEF Spec

-----------------------------------------------------------------------------
(***************************************************************************)
(* A thread that is not blocked in Wait, before and after its step, leaves  *)
(* the threads blocked and woken as they are.                               *)
(***************************************************************************)
LEMMA BlockedSame ==
  ASSUME TypeOK, NEW t \in Threads, NEW p, pc' = [pc EXCEPT ![t] = p],
         t \in Waiters => {pc[t], p} \cap {"asleep", "confirm", "relock"} = {}
  PROVE  Blocked' = Blocked /\ Roused' = Roused
BY DEF TypeOK, Threads, Blocked, Roused

LEMMA OwesSame ==
  ASSUME TypeOK, NEW t \in Threads, NEW p, pc' = [pc EXCEPT ![t] = p], sem1' = sem1, i' = i,
         \/ t \in Waiters
         \/ {pc[t], p} \cap {"in", "for"} = {}
  PROVE  Owes' = Owes
<1>1. \A s \in Threads \ Waiters : \/ pc'[s] = pc[s]
                                   \/ {pc'[s], pc[s]} \cap {"in", "for"} = {}
  BY DEF TypeOK
<1> QED
  BY <1>1 DEF Owes

(***************************************************************************)
(* Nothing is owed unless a signaller or broadcaster holds mu_.             *)
(***************************************************************************)
LEMMA OwesOnlyHolding ==
  ASSUME CvInv, Owes
  PROVE  \E s \in Threads \ Waiters : mu = s
<1>1. CASE sem1 > 0
  <2>1. PICK s \in Threads : waitMtx = s
    BY <1>1 DEF CvInv, TypeOK, Balance, NoneUnderWay
  <2> QED
    BY <2>1 DEF CvInv, Placed, Points, HoldsWaitMtx, HoldsMu
<1>2. CASE ~(sem1 > 0)
  BY <1>2 DEF Owes, CvInv, Placed, HoldsMu
<1> QED
  BY <1>1, <1>2

LEMMA NoWakeupStored ==
  ASSUME CvInv, NEW t \in Threads, pc[t] \in {"in", "for"}, waitMtx \in {NoOne, t}
  PROVE  sem1 = 0
BY CondVarAssumption DEF CvInv, Placed, Balance, Balanced, NoneUnderWay, HoldsWaitMtx

(***************************************************************************)
(* Locking and unlocking mu_ are the steps of the mutex of the abstract     *)
(* condition variable.                                                      *)
(***************************************************************************)
LEMMA MutexRefines ==
  ASSUME CvInv, CvInv', NEW t \in Threads, LockMu(t) \/ UnlockMu(t)
  PROVE  Port!SpecNext
<1> USE CondVarAssumption
<1>1. Blocked' = Blocked /\ Roused' = Roused
  BY BlockedSame DEF LockMu, UnlockMu, Go, CvInv
<1>2. t \in Waiters \cup Signallers \cup Broadcasters
  BY DEF Threads
<1>3. CASE LockMu(t)
  <2>1. t \notin Blocked \cup Roused
    BY <1>3 DEF LockMu, Go, Blocked, Roused
  <2>2. ~Owes
    BY <1>3, OwesOnlyHolding DEF LockMu, Threads
  <2>3. Owes' = (t \notin Waiters)
    <3>1. CASE t \in Waiters
      <4>1. sem1' = sem1 /\ i' = i /\ \A s \in Threads \ Waiters : pc'[s] = pc[s]
        BY <1>3, <3>1 DEF LockMu, Go, CvInv, TypeOK
      <4> QED
        BY <2>2, <3>1, <4>1 DEF Owes
    <3>2. CASE t \notin Waiters
      <4>1. pc'[t] = "in"
        BY <1>3 DEF LockMu, Go, CvInv, TypeOK
      <4> QED
        BY <3>2, <4>1 DEF Owes
    <3> QED
      BY <3>1, <3>2
  <2>4. Port!Acquire(t)
    BY <1>1, <1>3, <2>1, <2>3 DEF LockMu, Port!Acquire
  <2> QED
    BY <1>2, <2>4 DEF Port!SpecNext
<1>4. CASE UnlockMu(t)
  <2>1. mu = t /\ waitMtx = NoOne /\ pc[t] = "back"
    BY <1>4, FreeWaitMtx DEF UnlockMu, Go, CvInv, HoldsMu, HoldsWaitMtx
  <2>2. ~Owes
    <3>1. sem1 = 0
      BY <2>1 DEF CvInv, Balance, NoneUnderWay
    <3>2. \A s \in Threads \ Waiters : pc[s] # "in" /\ pc[s] # "for"
      BY <2>1 DEF CvInv, Placed, HoldsMu
    <3> QED
      BY <3>1, <3>2 DEF Owes
  <2>3. Owes' = Owes
    BY <1>4, OwesSame DEF UnlockMu, Go, CvInv
  <2>4. Port!Release(t)
    BY <1>1, <1>4, <2>1, <2>2, <2>3 DEF UnlockMu, Port!Release
  <2> QED
    BY <1>2, <2>4 DEF Port!SpecNext
<1> QED
  BY <1>3, <1>4

(***************************************************************************)
(* The steps of Wait: it blocks when it unlocks mu_, is woken when it takes *)
(* sem1_, which is the one wakeup owed, and returns when it has mu_.        *)
(***************************************************************************)
LEMMA WaitRefines ==
  ASSUME CvInv, CvInv', Crowd <= 1, NEW t \in Threads,
         \/ WaitCounts(t) \/ WaitUnlocks(t) \/ WaitWakes(t) \/ WaitConfirms(t)
         \/ WaitRelocks(t)
  PROVE  Port!SpecNext \/ UNCHANGED <<mu, Owes, Blocked, Roused>>
<1> USE CondVarAssumption
<1>1. t \in Waiters
  BY DEF CvInv, Placed, Points, WaitCounts, WaitUnlocks, WaitWakes, WaitConfirms,
         WaitRelocks, Go
<1>2. CASE WaitCounts(t)
  BY <1>2, BlockedSame, OwesSame DEF CvInv, WaitCounts, Go
<1>3. CASE WaitConfirms(t)
  <2>1. Blocked' = Blocked /\ Roused' = Roused
    BY <1>3 DEF CvInv, TypeOK, WaitConfirms, Go, Blocked, Roused, Threads
  <2>2. Owes' = Owes
    BY <1>1, <1>3, OwesSame DEF CvInv, WaitConfirms, Go
  <2> QED
    BY <1>3, <2>1, <2>2 DEF WaitConfirms
<1>4. CASE WaitUnlocks(t)
  <2>1. mu = t
    BY <1>4 DEF CvInv, Placed, WaitUnlocks, Go, HoldsMu
  <2>2. Blocked' = Blocked \cup {t} /\ Roused' = Roused
    BY <1>1, <1>4 DEF CvInv, TypeOK, WaitUnlocks, Go, Blocked, Roused, Threads
  <2>3. Owes' = Owes
    BY <1>1, <1>4, OwesSame DEF CvInv, WaitUnlocks, Go
  <2>4. Port!WaitBlocks(t)
    BY <1>4, <2>1, <2>2, <2>3 DEF WaitUnlocks, Port!WaitBlocks
  <2> QED
    BY <1>1, <2>4 DEF Port!SpecNext
<1>5. CASE WaitRelocks(t)
  <2>1. t \in Roused /\ Blocked' = Blocked /\ Roused' = Roused \ {t}
    BY <1>1, <1>5 DEF CvInv, TypeOK, WaitRelocks, Go, Blocked, Roused, Threads
  <2>2. Owes' = Owes
    BY <1>1, <1>5, OwesSame DEF CvInv, WaitRelocks, Go
  <2>3. Port!WaitReturns(t)
    BY <1>5, <2>1, <2>2 DEF WaitRelocks, Port!WaitReturns
  <2> QED
    BY <1>1, <2>3 DEF Port!SpecNext
<1>6. CASE WaitWakes(t)
  <2>1. t \in Blocked /\ Blocked' = Blocked \ {t} /\ Roused' = Roused \cup {t}
    BY <1>1, <1>6 DEF CvInv, TypeOK, WaitWakes, Go, Blocked, Roused, Threads
  <2>2. PICK s \in Threads : waitMtx = s
    BY <1>6 DEF CvInv, TypeOK, WaitWakes, Balance, NoneUnderWay
  <2>3. mu = s /\ pc[s] \in HoldsWaitMtx /\ Balanced(pc[s])
    BY <2>2, TakenWaitMtx DEF CvInv, Placed, Balance
  <2>4. pc[s] # "for" /\ sem1 = 1
    <3>1. ~NoneUnderWay
      BY <1>6 DEF WaitWakes, NoneUnderWay
    <3>2. pc[s] # "for"
      BY <2>3, <3>1 DEF Balanced
    <3>3. OneUnderWay
      BY <2>3, <3>1, <3>2 DEF Balanced, HoldsWaitMtx
    <3> QED
      BY <1>6, <3>2, <3>3, CountsFinite DEF WaitWakes, OneUnderWay, CvInv, TypeOK
  <2>5. Owes /\ Owes' = FALSE
    <3>1. sem1 > 0 /\ sem1' = 0
      BY <1>6, <2>4 DEF WaitWakes
    <3>2. \A u \in Threads \ Waiters : pc'[u] # "in" /\ pc'[u] # "for"
      BY <1>1, <1>6, <2>3, <2>4, TakenWaitMtx
         DEF CvInv, TypeOK, WaitWakes, Go, HoldsMu, HoldsWaitMtx
    <3> QED
      BY <3>1, <3>2 DEF Owes
  <2>6. CASE s \in Signallers
    <3>1. Port!Wakes({t})
      BY <1>6, <2>1, <2>5 DEF WaitWakes, Port!Wakes
    <3>2. Port!SpecSignal
      BY <2>1, <2>3, <2>6, <3>1 DEF Port!SpecSignal
    <3> QED
      BY <3>2 DEF Port!SpecNext
  <2>7. CASE s \in Broadcasters
    <3>1. Cardinality(Sleepers) <= 1
      BY <2>3, <2>7, CountsFinite DEF CvInv, CrowdKept, HoldsWaitMtx
    <3>2. t \in Sleepers /\ Blocked \subseteq Sleepers
      BY <2>1 DEF Blocked, Sleepers
    <3>3. PICK x : Sleepers = {x}
      BY <3>1, <3>2, CountsFinite, FS_Singleton
    <3>4. Blocked = {t}
      BY <2>1, <3>2, <3>3
    <3>5. Port!Wakes(Blocked)
      BY <1>6, <2>1, <2>5, <3>4 DEF WaitWakes, Port!Wakes
    <3>6. Port!SpecSignalAll
      BY <2>3, <2>7, <3>5 DEF Port!SpecSignalAll
    <3> QED
      BY <3>6 DEF Port!SpecNext
  <2> QED
    BY <2>3, <2>6, <2>7 DEF CvInv, Placed, Points, HoldsWaitMtx, Threads
<1> QED
  BY <1>2, <1>3, <1>4, <1>5, <1>6

(***************************************************************************)
(* Signal and SignalAll hand out a wakeup, or find that nobody is blocked.  *)
(***************************************************************************)
LEMMA SignalRefines ==
  ASSUME CvInv, CvInv', NEW t \in Threads,
         \/ SignalBegins(t) \/ SignalEnds(t) \/ SignalAllBegins(t) \/ SignalAllFor(t)
         \/ SignalAllWhile(t) \/ SignalAllConfirmed(t)
  PROVE  Port!SpecNext \/ UNCHANGED <<mu, Owes, Blocked, Roused>>
<1> USE CondVarAssumption
<1>1. t \notin Waiters
  BY DEF CvInv, Placed, Points, SignalBegins, SignalEnds, SignalAllBegins, SignalAllFor,
         SignalAllWhile, SignalAllConfirmed, Go
<1>2. Blocked' = Blocked /\ Roused' = Roused /\ mu' = mu
  BY <1>1, BlockedSame
     DEF CvInv, SignalBegins, SignalEnds, SignalAllBegins, SignalAllFor, SignalAllWhile,
         SignalAllConfirmed, Go
<1>3. CASE SignalEnds(t) \/ SignalAllConfirmed(t)
  BY <1>2, <1>3, OwesSame DEF CvInv, SignalEnds, SignalAllConfirmed, Go
<1>4. CASE SignalAllBegins(t)
  <2>1. pc[t] = "in" /\ pc'[t] = "for" /\ i' = 0
    BY <1>4 DEF CvInv, TypeOK, SignalAllBegins, Go
  <2> QED
    BY <1>1, <1>2, <2>1 DEF Owes
<1>5. ASSUME pc[t] \in {"in", "for"}, pc'[t] = "back", waitMtx \in {NoOne, t},
             waiting = 0, Owes, sem1' = sem1, pc' = [pc EXCEPT ![t] = "back"]
      PROVE  Port!Wakes({}) /\ Blocked = {} /\ mu = t
  <2>1. Cardinality(Sleepers) = 0
    BY <1>5, CondVarAssumption DEF CvInv, Placed, Balance, Balanced, HoldsWaitMtx
  <2>2. Blocked = {}
    BY <2>1, CountsFinite DEF Blocked, Sleepers
  <2>3. mu = t
    BY <1>5 DEF CvInv, Placed, HoldsMu
  <2>4. Owes' = FALSE
    <3>1. sem1' = 0
      BY <1>5, NoWakeupStored
    <3>2. \A u \in Threads \ Waiters : pc'[u] # "in" /\ pc'[u] # "for"
      BY <1>5, <2>3 DEF CvInv, TypeOK, Placed, HoldsMu
    <3> QED
      BY <3>1, <3>2 DEF Owes
  <2> QED
    BY <1>2, <1>5, <2>2, <2>3, <2>4 DEF Port!Wakes
<1>6. CASE SignalBegins(t)
  <2>1. CASE Anyone
    <3>1. Owes /\ Owes'
      BY <1>1, <1>6, <2>1 DEF SignalBegins, Go, Owes, CvInv, TypeOK
    <3> QED
      BY <1>2, <3>1 DEF Owes
  <2>2. CASE ~Anyone
    <3>1. Owes /\ t \in Signallers
      BY <1>1, <1>6 DEF SignalBegins, Go, Owes
    <3>2. Port!Wakes({}) /\ Blocked = {} /\ mu = t
      BY <1>5, <1>6, <2>2, <3>1 DEF SignalBegins, Go, Anyone, CvInv, TypeOK
    <3>3. Port!SpecSignal
      BY <3>1, <3>2 DEF Port!SpecSignal
    <3> QED
      BY <3>3 DEF Port!SpecNext
  <2> QED
    BY <2>1, <2>2
<1>7. CASE SignalAllFor(t)
  <2>1. pc[t] = "for" /\ waitMtx = t
    BY <1>7 DEF SignalAllFor, Go, CvInv, Placed, HoldsWaitMtx
  <2>2. NoneUnderWay /\ (i = 0 \/ waiting = 0)
    BY <2>1 DEF CvInv, Balance, Balanced
  <2>3. CASE i < waiting
    <3>1. i = 0
      BY <2>2, <2>3 DEF CvInv, TypeOK
    <3>2. Owes /\ Owes'
      BY <1>1, <1>7, <2>1, <2>3, <3>1 DEF SignalAllFor, Go, Owes, CvInv, TypeOK
    <3> QED
      BY <1>2, <3>2 DEF Owes
  <2>4. CASE ~(i < waiting) /\ i = 0
    <3>1. Owes /\ t \in Broadcasters
      BY <1>1, <2>1, <2>4 DEF Owes, CvInv, Placed, Points, Threads
    <3>2. Port!Wakes({}) /\ Blocked = {} /\ mu = t
      BY <1>5, <1>7, <2>1, <2>4, <3>1 DEF SignalAllFor, Go, CvInv, TypeOK
    <3>3. Port!SpecSignalAll
      BY <3>1, <3>2 DEF Port!SpecSignalAll
    <3> QED
      BY <3>3 DEF Port!SpecNext
  <2>5. CASE ~(i < waiting) /\ i # 0
    <3>1. sem1 = 0 /\ sem1' = 0
      BY <1>7, <2>2, <2>5 DEF NoneUnderWay, SignalAllFor
    <3>2. \A u \in Threads \ {t} : pc[u] # "in" /\ pc[u] # "for"
      BY <2>1, TakenWaitMtx DEF CvInv, HoldsMu, HoldsWaitMtx
    <3>3. pc' = [pc EXCEPT ![t] = "back"]
      BY <1>7, <2>5 DEF SignalAllFor, Go
    <3>4. ~Owes /\ ~Owes'
      BY <2>1, <2>5, <3>1, <3>2, <3>3 DEF Owes, CvInv, TypeOK
    <3> QED
      BY <1>2, <3>4 DEF Owes
  <2> QED
    BY <2>3, <2>4, <2>5
<1>8. CASE SignalAllWhile(t)
  <2>1. pc[t] = "while" /\ mu = t
    BY <1>8 DEF SignalAllWhile, Go, CvInv, Placed, HoldsMu
  <2>2. CASE Anyone
    BY <1>2, <1>8, <2>2, OwesSame DEF CvInv, SignalAllWhile, Go
  <2>3. CASE ~Anyone
    <3>1. sem1' = sem1 /\ i' # 0 /\ pc' = [pc EXCEPT ![t] = "for"]
      BY <1>8, <2>3 DEF SignalAllWhile, Go, CvInv, TypeOK
    <3>2. \A u \in Threads \ {t} : pc[u] # "in" /\ pc[u] # "for"
      BY <2>1, TakenWaitMtx DEF CvInv, HoldsMu, HoldsWaitMtx
    <3>3. \A u \in Threads \ Waiters : /\ ~(pc[u] = "in" \/ (pc[u] = "for" /\ i = 0))
                                       /\ ~(pc'[u] = "in" \/ (pc'[u] = "for" /\ i' = 0))
      BY <2>1, <3>1, <3>2 DEF CvInv, TypeOK
    <3>4. Owes' = Owes
      BY <3>1, <3>3 DEF Owes
    <3> QED
      BY <1>2, <3>4
  <2> QED
    BY <2>2, <2>3
<1> QED
  BY <1>3, <1>4, <1>6, <1>7, <1>8

(***************************************************************************)
(* With at most one thread waiting when SignalAll is called, the condition  *)
(* variable of the Windows port implements the one port_example.h promises, *)
(* for any number of threads.                                               *)
(***************************************************************************)
THEOREM PortImplements ==
  ASSUME Crowd <= 1
  PROVE  Spec => KeepsPromise
<1>1. Init => Port!SpecInit
  <2> SUFFICES ASSUME Init PROVE Port!SpecInit
    OBVIOUS
  <2>1. Blocked = {} /\ Roused = {} /\ ~Owes
    BY DEF Init, Blocked, Roused, Owes, Threads
  <2> QED
    BY <2>1 DEF Init, Port!SpecInit
<1>2. CvInv /\ CvInv' /\ [Next]_vars => [Port!SpecNext]_(Port!specVars)
  <2> SUFFICES ASSUME CvInv, CvInv', [Next]_vars
               PROVE  Port!SpecNext \/ UNCHANGED <<mu, Owes, Blocked, Roused>>
    BY DEF Port!specVars
  <2>1. CASE UNCHANGED vars
    BY <2>1 DEF vars, Owes, Blocked, Roused
  <2>2. ASSUME NEW t \in Threads, LockMu(t) \/ Step(t)
        PROVE  Port!SpecNext \/ UNCHANGED <<mu, Owes, Blocked, Roused>>
    BY <2>2, MutexRefines, WaitRefines, SignalRefines DEF Step
  <2> QED
    BY <2>1, <2>2 DEF Next
<1> QED
  BY <1>1, <1>2, CvInit, CvStep, PTL DEF Spec, KeepsPromise, Port!Promised
=============================================================================
