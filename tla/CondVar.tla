-------------------------------- MODULE CondVar --------------------------------
(***************************************************************************)
(* port::CondVar of the Windows port: a condition variable made of a count  *)
(* of waiters behind a mutex of its own and two semaphores, one to wake a   *)
(* waiter and one for the waiter to confirm.  A waiter locks mu_, waits     *)
(* once and unlocks; a signaller locks mu_, calls Signal and unlocks; a     *)
(* broadcaster calls SignalAll instead; all of them for ever.               *)
(***************************************************************************)
EXTENDS Integers, FiniteSets

CONSTANTS
  Waiters, Signallers, Broadcasters, NoOne,
  Crowd  \* SignalAll is called with at most this many threads waiting

ASSUME CondVarAssumption ==
  /\ IsFiniteSet(Waiters)
  /\ Waiters \cap (Signallers \cup Broadcasters) = {}
  /\ Signallers \cap Broadcasters = {}
  /\ NoOne \notin Waiters \cup Signallers \cup Broadcasters
  /\ Crowd \in Nat

Threads == Waiters \cup Signallers \cup Broadcasters

VARIABLES
  pc,
  mu,       \* the thread that holds mu_, or NoOne
  waitMtx,  \* the thread that holds wait_mtx_, or NoOne
  waiting,  \* waiting_
  sem1, sem2,
  i         \* the loop variable of SignalAll

vars == <<pc, mu, waitMtx, waiting, sem1, sem2, i>>

Go(t, from, to) == pc[t] = from /\ pc' = [pc EXCEPT ![t] = to]

Init ==
  /\ pc = [t \in Threads |-> "out"]
  /\ mu = NoOne /\ waitMtx = NoOne
  /\ waiting = 0 /\ sem1 = 0 /\ sem2 = 0
  /\ i = 0

\* The environment: SignalAll is called when at most Crowd threads wait.
LockMu(t) ==
  /\ mu = NoOne
  /\ t \in Broadcasters => waiting <= Crowd
  /\ Go(t, "out", "in")
  /\ mu' = t
  /\ UNCHANGED <<waitMtx, waiting, sem1, sem2, i>>

UnlockMu(t) ==
  /\ Go(t, "back", "out")
  /\ mu' = NoOne
  /\ UNCHANGED <<waitMtx, waiting, sem1, sem2, i>>

-----------------------------------------------------------------------------
\* Wait: the section of wait_mtx_.
WaitCounts(t) ==
  /\ t \in Waiters /\ waitMtx = NoOne
  /\ Go(t, "in", "counted")
  /\ waiting' = waiting + 1
  /\ UNCHANGED <<mu, waitMtx, sem1, sem2, i>>

WaitUnlocks(t) ==
  /\ Go(t, "counted", "asleep")
  /\ mu' = NoOne
  /\ UNCHANGED <<waitMtx, waiting, sem1, sem2, i>>

WaitWakes(t) ==
  /\ sem1 > 0
  /\ Go(t, "asleep", "confirm")
  /\ sem1' = sem1 - 1
  /\ UNCHANGED <<mu, waitMtx, waiting, sem2, i>>

\* Mutant: sem2_ is not released.
WaitNeverConfirms(t) == Go(t, "confirm", "relock") /\ UNCHANGED <<mu, waitMtx, waiting, sem1, sem2, i>>

WaitConfirms(t) ==
  /\ Go(t, "confirm", "relock")
  /\ sem2' = sem2 + 1
  /\ UNCHANGED <<mu, waitMtx, waiting, sem1, i>>

WaitRelocks(t) ==
  /\ mu = NoOne
  /\ Go(t, "relock", "back")
  /\ mu' = t
  /\ UNCHANGED <<waitMtx, waiting, sem1, sem2, i>>

-----------------------------------------------------------------------------
\* Mutant: the test of waiting_ is off by one.
AnyoneElse == waiting > 1

Anyone == waiting > 0

\* Signal: take wait_mtx_, and wake a waiter if waiting_ says there is one.
SignalBegins(t) ==
  /\ t \in Signallers /\ waitMtx = NoOne
  /\ IF Anyone
     THEN /\ Go(t, "in", "handshake")
          /\ waitMtx' = t
          /\ waiting' = waiting - 1
          /\ sem1' = sem1 + 1
     ELSE Go(t, "in", "back") /\ UNCHANGED <<waitMtx, waiting, sem1>>
  /\ UNCHANGED <<mu, sem2, i>>

\* Mutant: Signal does not wait for the waiter to confirm.
SignalEndsAtOnce(t) ==
  /\ Go(t, "handshake", "back")
  /\ waitMtx' = NoOne
  /\ UNCHANGED <<mu, waiting, sem1, sem2, i>>

SignalEnds(t) ==
  /\ sem2 > 0
  /\ Go(t, "handshake", "back")
  /\ sem2' = sem2 - 1
  /\ waitMtx' = NoOne
  /\ UNCHANGED <<mu, waiting, sem1, i>>

\* SignalAll: take wait_mtx_.
SignalAllBegins(t) ==
  /\ t \in Broadcasters /\ waitMtx = NoOne
  /\ Go(t, "in", "for")
  /\ waitMtx' = t
  /\ i' = 0
  /\ UNCHANGED <<mu, waiting, sem1, sem2>>

\* The head of the for loop: release sem1_ once, or leave.
SignalAllFor(t) ==
  /\ IF i < waiting
     THEN Go(t, "for", "while") /\ sem1' = sem1 + 1 /\ UNCHANGED <<waitMtx, i>>
     ELSE Go(t, "for", "back") /\ waitMtx' = NoOne /\ i' = 0 /\ UNCHANGED sem1
  /\ UNCHANGED <<mu, waiting, sem2>>

\* The head of the while loop inside it.
SignalAllWhile(t) ==
  /\ IF Anyone
     THEN Go(t, "while", "confirmed") /\ waiting' = waiting - 1 /\ UNCHANGED i
     ELSE Go(t, "while", "for") /\ i' = i + 1 /\ UNCHANGED waiting
  /\ UNCHANGED <<mu, waitMtx, sem1, sem2>>

SignalAllConfirmed(t) ==
  /\ sem2 > 0
  /\ Go(t, "confirmed", "while")
  /\ sem2' = sem2 - 1
  /\ UNCHANGED <<mu, waitMtx, waiting, sem1, i>>

Step(t) ==
  \/ UnlockMu(t)
  \/ WaitCounts(t) \/ WaitUnlocks(t) \/ WaitWakes(t) \/ WaitConfirms(t)
  \/ WaitRelocks(t)
  \/ SignalBegins(t) \/ SignalEnds(t)
  \/ SignalAllBegins(t) \/ SignalAllFor(t) \/ SignalAllWhile(t)
  \/ SignalAllConfirmed(t)

Next == \E t \in Threads : LockMu(t) \/ Step(t)

Spec == Init /\ [][Next]_vars

\* Threads inside a call run on; no thread need call anything.
FairSpec == Spec /\ \A t \in Threads : WF_vars(Step(t))

-----------------------------------------------------------------------------
Sleepers == {t \in Waiters : pc[t] \in {"counted", "asleep"}}

TypeOK ==
  /\ pc \in [Threads -> {"out", "in", "back", "counted", "asleep", "confirm",
                         "relock", "handshake", "for", "while", "confirmed"}]
  /\ mu \in Threads \cup {NoOne}
  /\ waitMtx \in Threads \cup {NoOne}
  /\ waiting \in Nat /\ sem1 \in Nat /\ sem2 \in Nat /\ i \in Nat

(***************************************************************************)
(* The bookkeeping of Wait and Signal agrees: when no signal is under way,  *)
(* waiting_ counts the threads that sleep and both semaphores are down, so  *)
(* no wakeup is stored for a thread that has yet to wait.                   *)
(***************************************************************************)
CountExact ==
  waitMtx = NoOne => waiting = Cardinality(Sleepers) /\ sem1 = 0 /\ sem2 = 0

\* The owner of mu_ still has a wakeup to hand out, or has handed out one that
\* nobody took yet.
Owes ==
  \/ \E s \in Threads \ Waiters : pc[s] = "in" \/ (pc[s] = "for" /\ i = 0)
  \/ sem1 > 0

\* A waiter counts as blocked from the moment it has released mu_ until it has
\* sem1_, and as woken until it has mu_ again.
Blocked == {t \in Waiters : pc[t] = "asleep"}
Roused == {t \in Waiters : pc[t] \in {"confirm", "relock"}}

Port == INSTANCE CondVarSpec WITH
  owner <- mu, owes <- Owes, blocked <- Blocked, woken <- Roused

(***************************************************************************)
(* The Windows port keeps the promises of port_example.h.                   *)
(***************************************************************************)
KeepsPromise == Port!Promised

(***************************************************************************)
(* Signal and SignalAll return, and the mutex with them.                    *)
(***************************************************************************)
SignalReturns == \A s \in Signallers \cup Broadcasters : []<>(pc[s] = "out")
=============================================================================
