------------------------------ MODULE CondVarSpec ------------------------------
(***************************************************************************)
(* What port_example.h promises of a condition variable and its mutex:      *)
(* Wait releases the mutex and blocks in one step; Signal wakes one of the  *)
(* blocked threads, if there are any; SignalAll wakes all of them.  All     *)
(* three are called with the mutex held, as everywhere in the database.     *)
(***************************************************************************)
CONSTANTS
  Waiters,       \* threads that call Wait
  Signallers,    \* threads that call Signal
  Broadcasters,  \* threads that call SignalAll
  NoOne

VARIABLES
  owner,    \* the thread that holds the mutex, or NoOne
  owes,     \* the owner has a Signal or SignalAll to make
  blocked,  \* the threads blocked in Wait
  woken     \* the threads woken in Wait that have yet to get the mutex

specVars == <<owner, owes, blocked, woken>>

SpecInit == owner = NoOne /\ ~owes /\ blocked = {} /\ woken = {}

Acquire(t) ==
  /\ owner = NoOne /\ t \notin blocked \cup woken
  /\ owner' = t
  /\ owes' = (t \notin Waiters)
  /\ UNCHANGED <<blocked, woken>>

Release(t) ==
  /\ owner = t /\ ~owes
  /\ owner' = NoOne
  /\ UNCHANGED <<owes, blocked, woken>>

WaitBlocks(t) ==
  /\ owner = t
  /\ owner' = NoOne
  /\ blocked' = blocked \cup {t}
  /\ UNCHANGED <<owes, woken>>

WaitReturns(t) ==
  /\ owner = NoOne /\ t \in woken
  /\ owner' = t
  /\ woken' = woken \ {t}
  /\ UNCHANGED <<owes, blocked>>

\* The owner wakes the threads of S.
Wakes(S) ==
  /\ owes
  /\ owes' = FALSE
  /\ blocked' = blocked \ S
  /\ woken' = woken \cup S
  /\ UNCHANGED owner

SpecSignal ==
  /\ owner \in Signallers
  /\ IF blocked = {} THEN Wakes({}) ELSE \E t \in blocked : Wakes({t})

SpecSignalAll == owner \in Broadcasters /\ Wakes(blocked)

SpecNext ==
  \/ \E t \in Waiters \cup Signallers \cup Broadcasters : Acquire(t) \/ Release(t)
  \/ \E t \in Waiters : WaitBlocks(t) \/ WaitReturns(t)
  \/ SpecSignal \/ SpecSignalAll

Promised == SpecInit /\ [][SpecNext]_specVars
=============================================================================
