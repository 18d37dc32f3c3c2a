------------------------------ MODULE MCLevels ------------------------------
(* Levels on small instances. *)
EXTENDS Levels

Bound(writes, files, errs, snaps, rds, manual, replay) ==
  [writes |-> writes, files |-> files, faults |-> errs, snapshots |-> snaps,
   reads |-> rds, manual |-> manual, replay |-> replay]

Writes(n) == [i \in 1 .. n |-> [key : Keys, del : BOOLEAN]]
Puts(ks) == [i \in DOMAIN ks |-> {[key |-> ks[i], del |-> FALSE]}]

\* Two puts, then anything.
PutsFirst(n) == [i \in 1 .. n |-> [key : Keys, del : IF i < 3 THEN {FALSE} ELSE BOOLEAN]]

\* Each kind of disturbance has behaviours of its own.
MCBounds == {
  Bound(PutsFirst(4), 4, 0, 0, 0, {}, FALSE),
  Bound(PutsFirst(3), 4, 0, 1, 0, {}, FALSE),
  Bound(PutsFirst(3), 3, 0, 0, 1, {}, FALSE),
  Bound(Puts(<<1, 1, 1>>), 4, 0, 1, 1, {}, FALSE),
  Bound(PutsFirst(2), 4, 1, 0, 0, {1}, FALSE),
  Bound(PutsFirst(2), 3, 1, 0, 0, {0}, FALSE),
  Bound(Writes(3), 4, 0, 0, 0, {}, TRUE),
  Bound(PutsFirst(3), 4, 1, 0, 0, {}, FALSE)}

\* The same disturbances with fewer writes.
SmallBounds == {
  Bound(Puts(<<1, 2, 1>>) \o Writes(1), 4, 0, 0, 0, {}, FALSE),
  Bound(Puts(<<1, 1>>) \o Writes(1), 4, 0, 1, 0, {}, FALSE),
  Bound(Puts(<<1, 2, 1>>), 3, 0, 0, 1, {}, FALSE),
  Bound(Puts(<<1, 1>>), 4, 0, 1, 1, {}, FALSE),
  Bound(Puts(<<1, 2>>), 4, 1, 0, 0, {1}, FALSE),
  Bound(PutsFirst(2), 3, 1, 0, 0, {0}, FALSE),
  Bound(Puts(<<1, 2>>) \o Writes(1), 4, 0, 0, 0, {}, TRUE),
  Bound(Puts(<<1, 2>>) \o Writes(1), 4, 1, 0, 0, {}, FALSE),
  Bound(Puts(<<2, 1, 2, 1>>), 5, 0, 1, 0, {}, FALSE)}

\* Enough writes and files for a level that overlaps.
MCOverlap == {Bound(Puts(<<1, 3, 1, 3, 2>>), 6, 0, 0, 0, {}, FALSE)}

\* Two keys with two entries each, and a snapshot that keeps the older ones.
MCCuts == {Bound(Puts(<<2, 1, 2, 1>>), 5, 0, 1, 0, {}, FALSE)}
=============================================================================
